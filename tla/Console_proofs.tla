--------------------------- MODULE Console_proofs ---------------------------
(***************************************************************************)
(* Theorems about Console, for any number of readers and writers, any size *)
(* of the buffer and any range of its counters that the size divides.      *)
(***************************************************************************)
EXTENDS Console, TLAPS, FiniteSetTheorems, WellFoundedInduction, SequenceTheorems

(* Who may still put a character into the port without looking at it: a    *)
(* writer when the port is not busy, and those who have seen it idle.      *)
One(b) == IF b THEN 1 ELSE 0

PortInv ==
  /\ fifo + One(printing) + One(hpc = "put") + One(~ txBusy) <= 3
  /\ \A p \in Writers : wpc[p] # "idle" => left[p] > 0
  /\ hpc = "put" => echo > 0

IInv == TypeOK /\ PortInv /\ WriterWoken /\ ReaderWoken

-----------------------------------------------------------------------------
(* Sets of numbers below a bound have a greatest member.                   *)
LEMMA Greatest ==
  ASSUME NEW b \in Nat, NEW S \in SUBSET (0 .. b), S # {}
  PROVE  \E k \in S : \A j \in S : j <= k
<1> DEFINE Above(k) == {i \in 0 .. b : i > k}
           T == {x \in SUBSET (0 .. b) : \E k \in S : x = Above(k)}
<1>1. T \subseteq FiniteSubsetsOf(0 .. b)
  <2>1. IsFiniteSet(0 .. b)
    BY FS_Interval
  <2>2. FiniteSubsetsOf(0 .. b) = SUBSET (0 .. b)
    BY <2>1, FS_FiniteSubsetsOfFinite
  <2> QED
    BY <2>2
<1>2. T # {}
  <2>1. PICK k \in S : TRUE
    OBVIOUS
  <2>2. Above(k) \in T
    OBVIOUS
  <2> QED
    BY <2>2
<1>3. IsWellFoundedOn(StrictSubsetOrdering(0 .. b), FiniteSubsetsOf(0 .. b))
  BY FS_Interval, FS_StrictSubsetOrderingWellFounded
<1>4. PICK x \in T : \A y \in T : <<y, x>> \notin StrictSubsetOrdering(0 .. b)
  BY <1>1, <1>2, <1>3, WFMin
<1>5. PICK k \in S : x = Above(k)
  OBVIOUS
<1>6. ASSUME NEW j \in S, j > k PROVE FALSE
  <2>1. Above(j) \in T /\ Above(j) \subseteq x /\ Above(j) # x
    <3>1. j \in x /\ j \notin Above(j)
      BY <1>5, <1>6
    <3>2. Above(j) \subseteq x
      BY <1>5, <1>6
    <3> QED
      BY <3>1, <3>2
  <2>2. <<Above(j), x>> \in StrictSubsetOrdering(0 .. b)
    BY <2>1 DEF StrictSubsetOrdering
  <2> QED
    BY <1>4, <2>1, <2>2
<1> QED
  <2>1. \A j \in S : j \in Int
    OBVIOUS
  <2> QED
    BY <1>6, <2>1

-----------------------------------------------------------------------------
(* The counters.                                                           *)
LEMMA DistanceType ==
  ASSUME NEW x \in 0 .. UINT - 1, NEW y \in 0 .. UINT - 1
  PROVE  /\ Minus(x, y) = IF x < y THEN x + UINT - y ELSE x - y
         /\ Minus(x, y) \in 0 .. UINT - 1
<1> USE DEF Minus
<1>1. CASE x < y
  BY <1>1, ConsoleAssumption
<1>2. CASE ~ (x < y)
  <2>1. x + UINT - y = UINT + (x - y) /\ x - y \in 0 .. UINT - 1
    BY <1>2, ConsoleAssumption
  <2> QED
    BY <1>2, <2>1, ConsoleAssumption
<1> QED
  BY <1>1, <1>2

LEMMA SumType ==
  ASSUME NEW x \in 0 .. UINT - 1, NEW k \in Nat
  PROVE  Plus(x, k) \in 0 .. UINT - 1
BY ConsoleAssumption DEF Plus

LEMMA PlusDistance ==
  ASSUME NEW x \in 0 .. UINT - 1, NEW y \in 0 .. UINT - 1
  PROVE  Plus(x, Minus(y, x)) = y
<1>1. CASE y < x
  <2>1. x + Minus(y, x) = UINT + y
    BY <1>1, DistanceType, ConsoleAssumption
  <2> QED
    BY <2>1, ConsoleAssumption DEF Plus
<1>2. CASE ~ (y < x)
  <2>1. x + Minus(y, x) = y
    BY <1>2, DistanceType, ConsoleAssumption
  <2> QED
    BY <2>1, ConsoleAssumption DEF Plus
<1> QED
  BY <1>1, <1>2

LEMMA SlotType ==
  ASSUME NEW x \in Nat
  PROVE  x % SIZE \in 0 .. SIZE - 1
BY ConsoleAssumption

LEMMA DistanceZero ==
  ASSUME NEW x \in 0 .. UINT - 1
  PROVE  Minus(x, x) = 0 /\ Plus(x, 0) = x
<1>1. Minus(x, x) = 0
  BY DistanceType, ConsoleAssumption
<1>2. Plus(x, 0) = x
  BY ConsoleAssumption DEF Plus
<1> QED
  BY <1>1, <1>2

-----------------------------------------------------------------------------
(* The loop of consoleread().                                              *)
LEMMA ReadyType ==
  ASSUME TypeOK
  PROVE  Len(Ready) = Minus(w, r) /\ Len(Ready) \in Nat /\ Ready \in Seq(Cells)
<1>1. Minus(w, r) \in 0 .. UINT - 1
  BY DistanceType DEF TypeOK
<1>2. \A i \in 1 .. Minus(w, r) : cbuf[(r + i - 1) % SIZE] \in Cells
  <2> SUFFICES ASSUME NEW i \in 1 .. Minus(w, r) PROVE cbuf[(r + i - 1) % SIZE] \in Cells
    OBVIOUS
  <2>1. r + i - 1 \in Nat
    BY <1>1, ConsoleAssumption DEF TypeOK
  <2>2. (r + i - 1) % SIZE \in 0 .. SIZE - 1
    BY <2>1, SlotType
  <2> QED
    BY <2>2 DEF TypeOK
<1>3. Ready = [i \in 1 .. Minus(w, r) |-> cbuf[(r + i - 1) % SIZE]]
  BY DEF Ready, Slice
<1>4. Minus(w, r) \in Nat
  BY <1>1, ConsoleAssumption
<1>5. Ready \in [1 .. Minus(w, r) -> Cells]
  BY <1>2, <1>3
<1> HIDE DEF Ready, Minus
<1> QED
  BY <1>4, <1>5

LEMMA CopiedType ==
  ASSUME TypeOK, NEW p \in Readers
  PROVE  Copied(p) \in Nat /\ Copied(p) <= Len(Ready) /\ Copied(p) <= n[p]
<1>1. Len(Ready) \in Nat
  BY ReadyType
<1>2. CanCopy(p) \in SUBSET (0 .. Len(Ready)) /\ 0 \in CanCopy(p)
  BY <1>1 DEF CanCopy, TypeOK
<1>3. \E k \in CanCopy(p) : \A j \in CanCopy(p) : j <= k
  BY <1>1, <1>2, Greatest
<1>4. Copied(p) \in CanCopy(p)
  BY <1>3 DEF Copied
<1> QED
  BY <1>1, <1>4 DEF CanCopy

LEMMA CopyType ==
  ASSUME TypeOK, NEW p \in Readers, NEW k \in 0 .. Copied(p), Copy(p, k)
  PROVE  /\ n' \in [Readers -> Nat]
         /\ got' \in [Readers -> Seq(Cells)]
<1>1. k \in Nat /\ k <= n[p] /\ k <= Len(Ready) /\ Len(Ready) \in Nat /\ Ready \in Seq(Cells)
  BY CopiedType, ReadyType DEF TypeOK
<1>2. n[p] - k \in Nat
  BY <1>1, ConsoleAssumption DEF TypeOK
<1>3. SubSeq(Ready, 1, k) \in Seq(Cells)
  BY <1>1, SubSeqProperties
<1>4. got[p] \o SubSeq(Ready, 1, k) \in Seq(Cells)
  BY <1>3, ConcatProperties DEF TypeOK
<1> QED
  BY <1>2, <1>4 DEF Copy, TypeOK

-----------------------------------------------------------------------------
(* Every step keeps the types.                                             *)
LEMMA EraseType ==
  ASSUME TypeOK, KillLine
  PROVE  /\ e' \in 0 .. UINT - 1 /\ rx' \in 0 .. MaxRx
         /\ echo' \in Nat /\ hpc' = "echo"
<1> DEFINE back == {j \in 0 .. Minus(e, w) :
                      \A i \in 1 .. j : cbuf[Minus(e, i) % SIZE] # "newline"}
           j == CHOOSE j \in back : \A i \in back : i <= j
<1>1. Minus(e, w) \in 0 .. UINT - 1
  BY DistanceType DEF TypeOK
<1>2. back \in SUBSET (0 .. Minus(e, w)) /\ 0 \in back /\ Minus(e, w) \in Nat
  BY <1>1
<1>3. \E k \in back : \A i \in back : i <= k
  BY <1>2, Greatest
<1>4. j \in back
  BY <1>3
<1>6. GetC(3 * j) /\ e' = Minus(e, j)
  BY DEF KillLine
<1> HIDE DEF j, back, Minus
<1>5. j \in 0 .. UINT - 1
  <2>1. j \in 0 .. Minus(e, w)
    BY <1>2, <1>4
  <2> QED
    BY <1>1, <2>1, ConsoleAssumption
<1>7. e' \in 0 .. UINT - 1
  BY <1>5, <1>6, DistanceType DEF TypeOK
<1>8. 3 * j \in Nat
  BY <1>5
<1> QED
  BY <1>6, <1>7, <1>8, ConsoleAssumption DEF GetC, TypeOK

LEMMA TypeOKStep ==
  ASSUME TypeOK, PortInv, [Next]_vars
  PROVE  TypeOK'
<1> USE UartAssumption, ConsoleAssumption
<1>1. ASSUME NEW p \in Writers, NEW k \in 1 .. MaxWrite, Write(p, k),
             UNCHANGED <<consVars, rx, readerVars>> PROVE TypeOK'
  BY <1>1 DEF Write, TypeOK, UartTypeOK, consVars, readerVars
<1>2. ASSUME NEW p \in Writers, WriteChar(p), UNCHANGED <<consVars, rx, readerVars>> PROVE TypeOK'
  <2>1. left[p] > 0 /\ left[p] \in 0 .. MaxWrite
    BY <1>2 DEF WriteChar, TypeOK, UartTypeOK, PortInv
  <2> QED
    BY <1>2, <2>1 DEF WriteChar, TypeOK, UartTypeOK, consVars, readerVars
<1>3. ASSUME NEW p \in Writers, WriteSleep(p), UNCHANGED <<consVars, rx, readerVars>> PROVE TypeOK'
  BY <1>3 DEF WriteSleep, TypeOK, UartTypeOK, consVars, readerVars
<1>4. ASSUME PrintWait, UNCHANGED <<consVars, rx, readerVars>> PROVE TypeOK'
  BY <1>4 DEF PrintWait, TypeOK, UartTypeOK, consVars, readerVars, writerVars
<1>5. ASSUME PrintPut, UNCHANGED <<consVars, rx, readerVars>> PROVE TypeOK'
  <2>1. fifo' \in Nat
    BY <1>5 DEF PrintPut, TypeOK, UartTypeOK
  <2>2. printing' \in BOOLEAN
    BY <1>5 DEF PrintPut
  <2> QED
    BY <1>5, <2>1, <2>2 DEF PrintPut, TypeOK, UartTypeOK, consVars, readerVars, writerVars
<1>6. ASSUME Transmit, UNCHANGED <<consVars, rx, readerVars>> PROVE TypeOK'
  <2>1. fifo' \in Nat
    BY <1>6 DEF Transmit, TypeOK, UartTypeOK
  <2>2. thri' \in BOOLEAN
    BY <1>6 DEF Transmit
  <2> QED
    BY <1>6, <2>1, <2>2 DEF Transmit, TypeOK, UartTypeOK, consVars, readerVars, writerVars
<1>7. ASSUME IntrTx, UNCHANGED <<consVars, rx, readerVars>> PROVE TypeOK'
  BY <1>7 DEF IntrTx, TypeOK, UartTypeOK, consVars, readerVars
<1>8. ASSUME EchoWait, UNCHANGED <<consVars, rx, readerVars>> PROVE TypeOK'
  BY <1>8 DEF EchoWait, TypeOK, UartTypeOK, consVars, readerVars, writerVars
<1>9. ASSUME EchoPut, UNCHANGED <<consVars, rx, readerVars>> PROVE TypeOK'
  BY <1>9 DEF EchoPut, TypeOK, UartTypeOK, consVars, readerVars, writerVars, PortInv
<1>10. ASSUME IntrAck(rx > 0), UNCHANGED <<consVars, rx, readerVars>> PROVE TypeOK'
  BY <1>10 DEF IntrAck, TypeOK, UartTypeOK, consVars, readerVars, writerVars
<1>11. ASSUME Receive PROVE TypeOK'
  BY <1>11 DEF Receive, TypeOK, UartTypeOK, uartVars, consVars, readerVars, writerVars
<1>12. ASSUME KillLine PROVE TypeOK'
  <2>1. /\ e' \in 0 .. UINT - 1 /\ rx' \in 0 .. MaxRx
        /\ echo' \in Nat /\ hpc' = "echo"
    BY <1>12, EraseType
  <2>2. UNCHANGED <<cbuf, r, w, readerVars, fifo, thri, writerVars, printing>>
    BY <1>12 DEF KillLine, GetC
  <2> QED
    BY <2>1, <2>2 DEF TypeOK, UartTypeOK, readerVars, writerVars
<1>13. ASSUME Erase PROVE TypeOK'
  <2>1. Minus(e, 1) \in 0 .. UINT - 1
    BY DistanceType DEF TypeOK
  <2> QED
    BY <1>13, <2>1 DEF Erase, GetC, TypeOK, UartTypeOK, readerVars, writerVars
<1>14. ASSUME Drop PROVE TypeOK'
  BY <1>14 DEF Drop, GetC, TypeOK, UartTypeOK, consVars, readerVars, writerVars
<1>15. ASSUME NEW c \in Plain \union {"return", "newline", "eof"}, Store(c) PROVE TypeOK'
  <2>1. Plus(e, 1) \in 0 .. UINT - 1
    BY SumType DEF TypeOK
  <2>2. Stored(c) \in Cells
    BY DEF Stored, Cells
  <2>3. cbuf' \in [0 .. SIZE - 1 -> Cells]
    BY <1>15, <2>2 DEF Store, TypeOK
  <2>4. e' \in 0 .. UINT - 1 /\ w' \in 0 .. UINT - 1 /\ r' = r
    BY <1>15, <2>1 DEF Store, TypeOK
  <2>5. rpc' \in [Readers -> {"idle", "loop", "asleep"}] /\ UNCHANGED <<n, got, killed>>
    BY <1>15 DEF Store, TypeOK, Wake
  <2>6. rx' \in 0 .. MaxRx /\ echo' \in Nat /\ hpc' = "echo"
        /\ UNCHANGED <<fifo, thri, writerVars, printing>>
    BY <1>15 DEF Store, GetC, TypeOK, UartTypeOK
  <2> QED
    BY <2>3, <2>4, <2>5, <2>6 DEF TypeOK, UartTypeOK, writerVars
<1>16. ASSUME EchoDone PROVE TypeOK'
  BY <1>16 DEF EchoDone, TypeOK, UartTypeOK, consVars, readerVars, writerVars
<1>17. ASSUME IntrReturn PROVE TypeOK'
  BY <1>17 DEF IntrReturn, TypeOK, UartTypeOK, consVars, readerVars, writerVars
<1>18. ASSUME NEW p \in Readers, NEW k \in Sizes, Read(p, k) PROVE TypeOK'
  BY <1>18 DEF Read, TypeOK, UartTypeOK, uartVars, consVars, writerVars
<1>19. ASSUME NEW p \in Readers, NEW k \in 0 .. Copied(p), Copy(p, k), NEW x \in Nat,
              r' = Plus(r, x), UNCHANGED <<uartVars, cbuf, w, e, rx>>,
              \/ Return(p)
              \/ /\ rpc' = [rpc EXCEPT ![p] = "asleep"]
                 /\ \E b \in BOOLEAN : killed' = [killed EXCEPT ![p] = b]
       PROVE TypeOK'
  <2>1. n' \in [Readers -> Nat] /\ got' \in [Readers -> Seq(Cells)]
    BY <1>19, CopyType
  <2>2. r' \in 0 .. UINT - 1
    BY <1>19, SumType DEF TypeOK
  <2>3. rpc' \in [Readers -> {"idle", "loop", "asleep"}] /\ killed' \in [Readers -> BOOLEAN]
    BY <1>19 DEF Return, TypeOK
  <2>4. UartTypeOK'
    BY <1>19 DEF TypeOK, UartTypeOK, uartVars, writerVars
  <2>5. cbuf' \in [0 .. SIZE - 1 -> Cells] /\ w' \in 0 .. UINT - 1 /\ e' \in 0 .. UINT - 1
        /\ rx' \in 0 .. MaxRx
    BY <1>19 DEF TypeOK
  <2> QED
    BY <2>1, <2>2, <2>3, <2>4, <2>5 DEF TypeOK
<1>20. ASSUME NEW p \in Readers, ReadLine(p) \/ ReadEof(p) \/ ReadWait(p) PROVE TypeOK'
  <2>1. Copied(p) \in 0 .. Copied(p) /\ Copied(p) \in Nat /\ Copied(p) + 1 \in Nat
    BY CopiedType
  <2> QED
    BY <1>19, <1>20, <2>1 DEF ReadLine, ReadEof, ReadWait
<1>21. ASSUME NEW p \in Readers, ReadFault(p) PROVE TypeOK'
  <2>1. PICK k \in 0 .. Copied(p) - 1 : Copy(p, k) /\ r' = Plus(r, k + 1)
    BY <1>21 DEF ReadFault
  <2>2. k \in 0 .. Copied(p) /\ k + 1 \in Nat
    BY CopiedType
  <2> QED
    BY <1>19, <1>21, <2>1, <2>2 DEF ReadFault
<1>22. ASSUME NEW p \in Readers, Kill(p) PROVE TypeOK'
  BY <1>22 DEF Kill, TypeOK, UartTypeOK, uartVars, consVars, writerVars
<1>23. CASE UNCHANGED vars
  BY <1>23 DEF vars, TypeOK, UartTypeOK, uartVars, consVars, readerVars, writerVars
<1> QED
  BY <1>1, <1>2, <1>3, <1>4, <1>5, <1>6, <1>7, <1>8, <1>9, <1>10, <1>11, <1>12, <1>13,
     <1>14, <1>15, <1>16, <1>17, <1>18, <1>20, <1>21, <1>22, <1>23
     DEF Next, Input, Reader, Output

-----------------------------------------------------------------------------
(* What the port's users may still add to it.  The input side leaves the   *)
(* port alone but for hpc, which goes between "rx", "echo" and "idle".     *)
Quiet == hpc # "put" /\ hpc # "tx" /\ hpc' # "put" /\ hpc' # "tx"
           /\ UNCHANGED <<fifo, thri, writerVars, printing>>

LEMMA InputQuiet ==
  ASSUME KillLine \/ Erase \/ Drop \/ EchoDone \/ IntrReturn
           \/ \E c \in Plain \union {"return", "newline", "eof"} : Store(c)
  PROVE  Quiet
<1>1. ASSUME NEW k, GetC(k) PROVE Quiet
  BY <1>1 DEF GetC, Quiet
<1>2. CASE KillLine
  <2>1. \E k : GetC(k)
    BY <1>2 DEF KillLine
  <2> QED
    BY <1>1, <2>1
<1>3. CASE Erase
  BY <1>1, <1>3 DEF Erase
<1>4. CASE Drop
  BY <1>1, <1>4 DEF Drop
<1>5. CASE EchoDone
  BY <1>5 DEF EchoDone, Quiet
<1>6. CASE IntrReturn
  BY <1>6 DEF IntrReturn, Quiet
<1>7. CASE \E c \in Plain \union {"return", "newline", "eof"} : Store(c)
  BY <1>1, <1>7 DEF Store
<1> QED
  BY <1>2, <1>3, <1>4, <1>5, <1>6, <1>7

LEMMA ReadersQuiet ==
  ASSUME Receive \/ (\E p \in Readers : Reader(p)) \/ UNCHANGED vars
  PROVE  UNCHANGED uartVars
BY DEF Receive, Reader, Read, ReadLine, ReadEof, ReadWait, ReadFault, Kill, vars

PortStep == PortInv' /\ WriterWoken'

LEMMA PortInvStep ==
  ASSUME TypeOK, PortInv, WriterWoken, [Next]_vars
  PROVE  PortInv' /\ WriterWoken'
<1> USE DEF PortInv, WriterWoken, One
<1>0. /\ fifo \in Nat /\ echo \in Nat
      /\ wpc \in [Writers -> {"idle", "write", "asleep"}]
      /\ left \in [Writers -> 0 .. MaxWrite]
      /\ txBusy \in BOOLEAN /\ printing \in BOOLEAN /\ thri \in BOOLEAN
  BY DEF TypeOK, UartTypeOK
<1>1. ASSUME NEW p \in Writers, NEW k \in 1 .. MaxWrite, Write(p, k) PROVE PortStep
  BY <1>0, <1>1 DEF Write, PortStep
<1>2. ASSUME NEW p \in Writers, WriteChar(p) PROVE PortStep
  <2>1. left[p] > 0 /\ left[p] \in 0 .. MaxWrite
    BY <1>0, <1>2 DEF WriteChar
  <2>2. \A q \in Writers : wpc'[q] # "idle" => left'[q] > 0
    BY <1>0, <1>2, <2>1, UartAssumption DEF WriteChar
  <2> QED
    BY <1>0, <1>2, <2>2 DEF WriteChar, PortStep
<1>3. ASSUME NEW p \in Writers, WriteSleep(p) PROVE PortStep
  BY <1>0, <1>3 DEF WriteSleep, PortStep
<1>4. ASSUME PrintWait PROVE PortStep
  BY <1>0, <1>4 DEF PrintWait, PortStep, writerVars
<1>5. ASSUME PrintPut PROVE PortStep
  BY <1>0, <1>5 DEF PrintPut, PortStep, writerVars
<1>6. ASSUME Transmit PROVE PortStep
  BY <1>0, <1>6 DEF Transmit, PortStep, writerVars
<1>7. ASSUME IntrTx PROVE PortStep
  BY <1>0, <1>7 DEF IntrTx, PortStep
<1>8. ASSUME EchoWait PROVE PortStep
  BY <1>0, <1>8 DEF EchoWait, PortStep, writerVars
<1>9. ASSUME EchoPut PROVE PortStep
  BY <1>0, <1>9 DEF EchoPut, PortStep, writerVars
<1>10. ASSUME IntrAck(rx > 0) PROVE PortStep
  BY <1>0, <1>10 DEF IntrAck, PortStep, writerVars
<1>11. ASSUME Quiet PROVE PortStep
  BY <1>0, <1>11 DEF Quiet, PortStep, writerVars
<1>12. ASSUME UNCHANGED uartVars PROVE PortStep
  BY <1>0, <1>12 DEF PortStep, uartVars, writerVars
<1>13. PortStep
  BY <1>1, <1>2, <1>3, <1>4, <1>5, <1>6, <1>7, <1>8, <1>9, <1>10, <1>11, <1>12,
     InputQuiet, ReadersQuiet DEF Next, Input, Output
<1> QED
  BY <1>13 DEF PortStep

-----------------------------------------------------------------------------
(* A reader sleeps only at r = w: who moves r finds something ready, and   *)
(* who moves w wakes all.                                                  *)
LEMMA NothingReady ==
  ASSUME TypeOK, r = w, NEW p \in Readers
  PROVE  Len(Ready) = 0 /\ Copied(p) = 0
<1>1. Len(Ready) = 0
  BY ReadyType, DistanceZero DEF TypeOK
<1> QED
  BY <1>1, CopiedType

LEMMA ReaderStep ==
  ASSUME TypeOK, ReaderWoken, NEW p \in Readers,
         ReadLine(p) \/ ReadEof(p) \/ ReadWait(p) \/ ReadFault(p)
  PROVE  \A q \in Readers : rpc'[q] = "asleep" => r' = w'
<1>0. rpc \in [Readers -> {"idle", "loop", "asleep"}] /\ r \in 0 .. UINT - 1 /\ w \in 0 .. UINT - 1
  BY DEF TypeOK
<1>1. CASE r = w
  <2>1. Len(Ready) = 0 /\ Copied(p) = 0
    BY <1>1, NothingReady
  <2>2. ~ AtEof(p) /\ ~ ReadFault(p)
    BY <2>1 DEF AtEof, ReadFault
  <2>3. r' = Plus(r, 0) /\ w' = w
    BY <2>1, <2>2 DEF ReadLine, ReadEof, ReadWait
  <2> QED
    BY <1>0, <1>1, <2>3, DistanceZero
<1>2. CASE r # w /\ ~ ReadWait(p)
  <2>1. \A q \in Readers : rpc[q] # "asleep"
    BY <1>2 DEF ReaderWoken
  <2>2. rpc' = [rpc EXCEPT ![p] = "idle"]
    BY <1>2 DEF ReadLine, ReadEof, ReadFault, Return
  <2> QED
    BY <1>0, <2>1, <2>2
<1>3. CASE ReadWait(p)
  <2>1. r' = Plus(r, Minus(w, r)) /\ w' = w
    BY <1>3, ReadyType DEF ReadWait, AtVoid
  <2> QED
    BY <1>0, <2>1, PlusDistance
<1> QED
  BY <1>1, <1>2, <1>3

LEMMA ReaderWokenStep ==
  ASSUME TypeOK, TypeOK', ReaderWoken, [Next]_vars
  PROVE  ReaderWoken'
<1> DEFINE Woken == \A q \in Readers : rpc[q] = "asleep" => r = w
<1>0. Woken /\ rpc \in [Readers -> {"idle", "loop", "asleep"}]
  BY DEF TypeOK, ReaderWoken
<1>1. ASSUME UNCHANGED <<r, w, rpc>> PROVE Woken'
  BY <1>0, <1>1
<1>2. ASSUME NEW c \in Plain \union {"return", "newline", "eof"}, Store(c) PROVE Woken'
  <2>1. CASE rpc' = Wake
    BY <1>0, <2>1 DEF Wake
  <2>2. CASE UNCHANGED <<w, rpc>>
    BY <1>0, <1>2, <2>2 DEF Store
  <2> QED
    BY <1>2, <2>1, <2>2 DEF Store
<1>3. ASSUME NEW p \in Readers, NEW k, Read(p, k) PROVE Woken'
  BY <1>0, <1>3 DEF Read, consVars
<1>4. ASSUME NEW p \in Readers, Kill(p) PROVE Woken'
  BY <1>0, <1>4 DEF Kill, consVars
<1>5. ASSUME NEW p \in Readers, ReadLine(p) \/ ReadEof(p) \/ ReadWait(p) \/ ReadFault(p)
      PROVE Woken'
  BY <1>5, ReaderStep
<1>6. ASSUME Receive \/ KillLine \/ Erase \/ Drop \/ EchoDone \/ IntrReturn PROVE Woken'
  <2>1. UNCHANGED <<r, w, rpc>>
    BY <1>6 DEF Receive, KillLine, Erase, Drop, EchoDone, IntrReturn, consVars, readerVars
  <2> QED
    BY <1>1, <2>1
<1>7. ASSUME UNCHANGED vars \/ UNCHANGED <<consVars, rx, readerVars>> PROVE Woken'
  <2>1. UNCHANGED <<r, w, rpc>>
    BY <1>7 DEF vars, consVars, readerVars
  <2> QED
    BY <1>1, <2>1
<1>8. Woken'
  BY <1>2, <1>3, <1>4, <1>5, <1>6, <1>7 DEF Next, Input, Reader
<1> QED
  BY <1>8 DEF ReaderWoken

-----------------------------------------------------------------------------
LEMMA InitIInv == ASSUME Init PROVE IInv
<1> USE UartAssumption, ConsoleAssumption
<1>1. TypeOK
  <2>1. 0 \in 0 .. UINT - 1 /\ 0 \in Nat /\ 0 \in 0 .. MaxWrite /\ 0 \in 0 .. MaxRx
    OBVIOUS
  <2>2. "none" \in Cells /\ <<>> \in Seq(Cells)
    BY DEF Cells
  <2> QED
    BY <2>1, <2>2 DEF Init, UartInit, TypeOK, UartTypeOK
<1>2. PortInv /\ WriterWoken
  BY DEF Init, UartInit, PortInv, WriterWoken, One
<1>3. ReaderWoken
  BY <1>1 DEF Init, ReaderWoken
<1> QED
  BY <1>1, <1>2, <1>3 DEF IInv

LEMMA Invariance == Spec => []IInv
<1>1. Init => IInv
  BY InitIInv
<1>2. IInv /\ [Next]_vars => IInv'
  BY TypeOKStep, PortInvStep, ReaderWokenStep DEF IInv
<1> QED
  BY <1>1, <1>2, PTL DEF Spec

(* The console's state keeps its types: the counters of cons stay unsigned *)
(* numbers, no echo and no character of a write() is counted below zero.   *)
THEOREM TypeCorrect == Spec => []TypeOK
<1>1. IInv => TypeOK
  BY DEF IInv
<1> QED
  BY <1>1, Invariance, PTL

(* For any number of writers, uartwrite() loses no wakeup to printf() and  *)
(* to the echo of consoleintr(), which use the port without tx_lock, and   *)
(* the three together never have more than three characters in it.         *)
THEOREM PortIsShared == Spec => []PortShared
<1>1. IInv => PortShared
  <2>1. ASSUME IInv PROVE fifo <= 3
    <3>1. fifo \in Nat
      BY <2>1 DEF IInv, TypeOK, UartTypeOK
    <3> QED
      BY <2>1, <3>1 DEF IInv, PortInv, One
  <2> QED
    BY <2>1 DEF IInv, PortShared, PortFits
<1> QED
  BY <1>1, Invariance, PTL

(* No reader sleeps in consoleread() while there is something to read, for *)
(* any number of readers and across the wrap of the counters.              *)
THEOREM ReadersWoken == Spec => []ReaderWoken
<1>1. IInv => ReaderWoken
  BY DEF IInv
<1> QED
  BY <1>1, Invariance, PTL

-----------------------------------------------------------------------------
(* The buffer as a ring.  What is ready, and the line after it, have room  *)
(* in it; a line that is edited has no end, and neither has what a read()  *)
(* under way has copied.                                                   *)
Line == Slice(w, Minus(e, w))
Index == 0 .. UINT - 1
Whole == {"newline", "eof"}

BufInv  == Minus(w, r) + Minus(e, w) <= SIZE
LineInv == \A i \in 1 .. Minus(e, w) : Line[i] \notin Whole
GotInv  == \A p \in Readers : rpc[p] # "idle" =>
             \A i \in DOMAIN got[p] : got[p][i] \notin Whole

LInv == TypeOK /\ BufInv /\ LineInv /\ GotInv

LEMMA PlusIs ==
  ASSUME NEW x \in Index, NEW k \in Index
  PROVE  Plus(x, k) = (IF x + k < UINT THEN x + k ELSE x + k - UINT) /\ Plus(x, k) \in Index
<1>1. CASE x + k < UINT
  BY <1>1, ConsoleAssumption DEF Index, Plus
<1>2. CASE ~ (x + k < UINT)
  <2>1. x + k = UINT + (x + k - UINT) /\ x + k - UINT \in 0 .. UINT - 1
    BY <1>2, ConsoleAssumption DEF Index
  <2> QED
    BY <1>2, <2>1, ConsoleAssumption DEF Index, Plus
<1> QED
  BY <1>1, <1>2

LEMMA Between ==
  ASSUME NEW x \in Index, NEW y \in Index, NEW z \in Index, Minus(y, x) + Minus(z, y) < UINT
  PROVE  Minus(z, x) = Minus(y, x) + Minus(z, y)
<1>1. /\ Minus(y, x) = IF y < x THEN y + UINT - x ELSE y - x
      /\ Minus(z, y) = IF z < y THEN z + UINT - y ELSE z - y
      /\ Minus(z, x) = IF z < x THEN z + UINT - x ELSE z - x
  BY DistanceType DEF Index
<1> QED
  BY <1>1, ConsoleAssumption DEF Index

LEMMA Advance ==
  ASSUME NEW x \in Index, NEW y \in Index, NEW k \in 0 .. Minus(y, x)
  PROVE  /\ Plus(x, k) \in Index /\ Minus(y, Plus(x, k)) = Minus(y, x) - k
         /\ Minus(Plus(x, k), x) = k
<1>1. Minus(y, x) = (IF y < x THEN y + UINT - x ELSE y - x) /\ Minus(y, x) \in Index
  BY DistanceType DEF Index
<1>2. k \in Index
  BY <1>1, ConsoleAssumption DEF Index
<1>3. PICK z \in Index : z = Plus(x, k) /\ z = IF x + k < UINT THEN x + k ELSE x + k - UINT
  BY <1>2, PlusIs
<1>4. /\ Minus(y, z) = IF y < z THEN y + UINT - z ELSE y - z
      /\ Minus(z, x) = IF z < x THEN z + UINT - x ELSE z - x
  BY DistanceType DEF Index
<1>5. Minus(y, z) = Minus(y, x) - k /\ Minus(z, x) = k
  BY <1>1, <1>2, <1>3, <1>4, ConsoleAssumption DEF Index
<1> QED
  BY <1>3, <1>5

(* A step further, where there is room.                                    *)
LEMMA OneFurther ==
  ASSUME NEW x \in Index, NEW y \in Index, Minus(y, x) < SIZE
  PROVE  Plus(y, 1) \in Index /\ Minus(Plus(y, 1), x) = Minus(y, x) + 1
<1>1. Minus(y, x) = IF y < x THEN y + UINT - x ELSE y - x
  BY DistanceType DEF Index
<1>2. 1 \in Index
  BY ConsoleAssumption DEF Index
<1>3. PICK z \in Index : z = Plus(y, 1) /\ z = IF y + 1 < UINT THEN y + 1 ELSE y + 1 - UINT
  BY <1>2, PlusIs
<1>4. Minus(z, x) = IF z < x THEN z + UINT - x ELSE z - x
  BY DistanceType DEF Index
<1>5. Minus(z, x) = Minus(y, x) + 1
  BY <1>1, <1>3, <1>4, ConsoleAssumption DEF Index
<1> QED
  BY <1>3, <1>5

(* Back from y, but not beyond x.                                          *)
LEMMA Back ==
  ASSUME NEW x \in Index, NEW y \in Index, NEW j \in 0 .. Minus(y, x)
  PROVE  /\ Minus(y, j) \in Index /\ Minus(Minus(y, j), x) = Minus(y, x) - j
         /\ j = Minus(y, x) => Minus(y, j) = x
         /\ Minus(y, j) = Plus(x, Minus(y, x) - j)
<1>1. Minus(y, x) = (IF y < x THEN y + UINT - x ELSE y - x) /\ Minus(y, x) \in Index
  BY DistanceType DEF Index
<1>2. j \in Index
  BY <1>1, ConsoleAssumption DEF Index
<1>3. PICK z \in Index : z = Minus(y, j) /\ z = IF y < j THEN y + UINT - j ELSE y - j
  BY <1>2, DistanceType DEF Index
<1>4. Minus(z, x) = IF z < x THEN z + UINT - x ELSE z - x
  BY DistanceType DEF Index
<1>5. Minus(z, x) = Minus(y, x) - j
  BY <1>1, <1>2, <1>3, <1>4, ConsoleAssumption DEF Index
<1>6. j = Minus(y, x) => z = x
  BY <1>1, <1>3, ConsoleAssumption DEF Index
<1>7. PICK i \in Index : i = Minus(y, x) - j
  BY <1>1, ConsoleAssumption DEF Index
<1>8. Plus(x, i) = IF x + i < UINT THEN x + i ELSE x + i - UINT
  BY PlusIs
<1>9. z = Plus(x, i)
  BY <1>1, <1>2, <1>3, <1>7, <1>8, ConsoleAssumption DEF Index
<1> QED
  BY <1>3, <1>5, <1>6, <1>7, <1>9

-----------------------------------------------------------------------------
(* Slots of the buffer, and pieces of it.                                  *)
LEMMA DivMod ==
  ASSUME NEW x \in Nat
  PROVE  /\ x = SIZE * (x \div SIZE) + (x % SIZE)
         /\ x \div SIZE \in Int /\ x % SIZE \in 0 .. SIZE - 1
  BY ConsoleAssumption

(* Less than a lap apart, two positions have different slots.              *)
LEMMA Apart ==
  ASSUME NEW i \in Nat, NEW j \in Nat, i < j, j < i + SIZE
  PROVE  i % SIZE # j % SIZE
<1>1. PICK q \in Int : i = SIZE * q + (i % SIZE)
  BY DivMod
<1>2. PICK t \in Int : j = SIZE * t + (j % SIZE)
  BY DivMod
<1> SUFFICES ASSUME i % SIZE = j % SIZE PROVE FALSE
  OBVIOUS
<1>3. SIZE * (t - q) = j - i
  BY <1>1, <1>2, DivMod, ConsoleAssumption
<1>4. CASE t - q >= 1
  <2>1. SIZE * (t - q) >= SIZE
    BY <1>4, ConsoleAssumption
  <2> QED
    BY <2>1, <1>3, ConsoleAssumption
<1>5. CASE t - q <= 0
  <2>1. SIZE * (t - q) <= 0
    BY <1>5, ConsoleAssumption
  <2> QED
    BY <2>1, <1>3
<1> QED
  BY <1>4, <1>5

(* Slots wrap with the counters, because UINT is a multiple of SIZE.       *)
LEMMA SameSlot ==
  ASSUME NEW x \in Nat, NEW y \in Nat, x = y + UINT
  PROVE  x % SIZE = y % SIZE
<1>1. PICK k \in Nat : UINT = SIZE * k
  BY ConsoleAssumption
<1>2. PICK q \in Int : x = SIZE * q + (x % SIZE)
  BY DivMod
<1>3. PICK t \in Int : y = SIZE * t + (y % SIZE)
  BY DivMod
<1>4. x % SIZE \in 0 .. SIZE - 1 /\ y % SIZE \in 0 .. SIZE - 1
  BY DivMod, ConsoleAssumption
<1>5. SIZE * (q - k - t) = (y % SIZE) - (x % SIZE)
  BY <1>1, <1>2, <1>3, <1>4, ConsoleAssumption
<1>6. CASE q - k - t >= 1
  <2>1. SIZE * (q - k - t) >= SIZE
    BY <1>6, ConsoleAssumption
  <2> QED
    BY <2>1, <1>4, <1>5, ConsoleAssumption
<1>7. CASE q - k - t <= -1
  <2>1. SIZE * (q - k - t) <= - SIZE
    BY <1>7, ConsoleAssumption
  <2> QED
    BY <2>1, <1>4, <1>5, ConsoleAssumption
<1>8. CASE q - k - t = 0
  BY <1>8, <1>4, <1>5, ConsoleAssumption
<1> QED
  BY <1>6, <1>7, <1>8

LEMMA PlusSlot ==
  ASSUME NEW x \in Index, NEW k \in Index, NEW i \in Nat
  PROVE  (Plus(x, k) + i) % SIZE = (x + k + i) % SIZE
<1>1. Plus(x, k) = IF x + k < UINT THEN x + k ELSE x + k - UINT
  BY PlusIs
<1>2. CASE x + k < UINT
  BY <1>1, <1>2
<1>3. CASE ~ (x + k < UINT)
  <2>1. Plus(x, k) + i \in Nat /\ x + k + i \in Nat /\ x + k + i = (Plus(x, k) + i) + UINT
    BY <1>1, <1>3, ConsoleAssumption DEF Index
  <2> QED
    BY <2>1, SameSlot
<1> QED
  BY <1>2, <1>3

LEMMA SliceIs ==
  ASSUME cbuf \in [0 .. SIZE - 1 -> Cells], NEW x \in Index, NEW k \in Nat
  PROVE  /\ Slice(x, k) \in Seq(Cells) /\ Len(Slice(x, k)) = k
         /\ \A i \in 1 .. k : Slice(x, k)[i] = cbuf[(x + i - 1) % SIZE]
<1>1. \A i \in 1 .. k : cbuf[(x + i - 1) % SIZE] \in Cells
  <2> SUFFICES ASSUME NEW i \in 1 .. k PROVE cbuf[(x + i - 1) % SIZE] \in Cells
    OBVIOUS
  <2>1. x + i - 1 \in Nat
    BY ConsoleAssumption DEF Index
  <2>2. (x + i - 1) % SIZE \in 0 .. SIZE - 1
    BY <2>1, SlotType
  <2> QED
    BY <2>2
<1>2. Slice(x, k) = [i \in 1 .. k |-> cbuf[(x + i - 1) % SIZE]]
  BY DEF Slice
<1>3. Slice(x, k) \in [1 .. k -> Cells]
  BY <1>1, <1>2
<1> HIDE DEF Slice
<1> QED
  BY <1>2, <1>3

(* What is left of a piece behind its first k characters.                  *)
LEMMA SliceTail ==
  ASSUME TypeOK, NEW x \in Index, NEW len \in Index, NEW k \in 0 .. len
  PROVE  Slice(Plus(x, k), len - k) = SubSeq(Slice(x, len), k + 1, len)
<1>0. cbuf \in [0 .. SIZE - 1 -> Cells] /\ len \in Nat /\ k \in Nat /\ k <= len
      /\ k \in Index /\ len - k \in Nat /\ x \in Nat
  BY ConsoleAssumption DEF TypeOK, Index
<1>1. Plus(x, k) \in Index
  BY <1>0, PlusIs
<1>2. /\ Slice(x, len) \in Seq(Cells) /\ Len(Slice(x, len)) = len
      /\ \A i \in 1 .. len : Slice(x, len)[i] = cbuf[(x + i - 1) % SIZE]
  BY <1>0, SliceIs
<1>3. PICK y \in Index : y = Plus(x, k)
  BY <1>1
<1>4. /\ Slice(y, len - k) \in Seq(Cells) /\ Len(Slice(y, len - k)) = len - k
      /\ \A i \in 1 .. len - k : Slice(y, len - k)[i] = cbuf[(y + i - 1) % SIZE]
  BY <1>0, SliceIs
<1>5. PICK s, t : s = Slice(x, len) /\ t = Slice(y, len - k)
  OBVIOUS
<1>6. /\ SubSeq(s, k + 1, len) \in Seq(Cells) /\ Len(SubSeq(s, k + 1, len)) = len - k
      /\ \A i \in 1 .. len - k : SubSeq(s, k + 1, len)[i] = s[k + i]
  BY <1>0, <1>2, <1>5, SubSeqProperties
<1>7. ASSUME NEW i \in 1 .. len - k
      PROVE  t[i] = s[k + i]
  <2>1. PICK j \in Nat : j = i - 1 /\ k + i \in 1 .. len
    BY <1>0
  <2>2. (y + j) % SIZE = (x + k + j) % SIZE
    BY <1>0, <1>3, PlusSlot
  <2>3. y + i - 1 = y + j /\ x + (k + i) - 1 = x + k + j
    BY <1>0, <2>1, ConsoleAssumption DEF Index
  <2> QED
    BY <1>2, <1>4, <1>5, <2>1, <2>2, <2>3
<1>8. t = SubSeq(s, k + 1, len)
  BY <1>0, <1>4, <1>5, <1>6, <1>7, SeqEqual
<1> QED
  BY <1>3, <1>5, <1>8

(* Two pieces, one behind the other.                                       *)
LEMMA SliceCat ==
  ASSUME TypeOK, NEW x \in Index, NEW j \in Index, NEW k \in Index, j + k < UINT
  PROVE  Slice(x, j + k) = Slice(x, j) \o Slice(Plus(x, j), k)
<1>0. cbuf \in [0 .. SIZE - 1 -> Cells] /\ j \in Nat /\ k \in Nat /\ j + k \in Nat /\ x \in Nat
  BY ConsoleAssumption DEF TypeOK, Index
<1>1. PICK y \in Index : y = Plus(x, j)
  BY PlusIs
<1>2. PICK s, t, u : s = Slice(x, j) /\ t = Slice(y, k) /\ u = Slice(x, j + k)
  OBVIOUS
<1>3. /\ s \in Seq(Cells) /\ Len(s) = j
      /\ \A i \in 1 .. j : s[i] = cbuf[(x + i - 1) % SIZE]
  BY <1>0, <1>2, SliceIs
<1>4. /\ t \in Seq(Cells) /\ Len(t) = k
      /\ \A i \in 1 .. k : t[i] = cbuf[(y + i - 1) % SIZE]
  BY <1>0, <1>2, SliceIs
<1>5. /\ u \in Seq(Cells) /\ Len(u) = j + k
      /\ \A i \in 1 .. j + k : u[i] = cbuf[(x + i - 1) % SIZE]
  BY <1>0, <1>2, SliceIs
<1>6. /\ s \o t \in Seq(Cells) /\ Len(s \o t) = j + k
      /\ \A i \in 1 .. j + k : (s \o t)[i] = IF i <= j THEN s[i] ELSE t[i - j]
  BY <1>3, <1>4, ConcatProperties
<1>7. ASSUME NEW i \in 1 .. j + k
      PROVE  u[i] = (s \o t)[i]
  <2>1. CASE i <= j
    <3>1. i \in 1 .. j
      BY <1>0, <2>1
    <3>2. s[i] = u[i]
      BY <1>3, <1>5, <3>1
    <3> QED
      BY <1>6, <2>1, <3>2
  <2>2. CASE ~ (i <= j)
    <3>1. PICK m \in Nat : m = i - j - 1 /\ i - j \in 1 .. k
      BY <1>0, <2>2
    <3>2. (y + m) % SIZE = (x + j + m) % SIZE
      BY <1>1, <3>1, PlusSlot
    <3>3. y + (i - j) - 1 = y + m /\ x + i - 1 = x + j + m
      BY <1>0, <3>1, ConsoleAssumption DEF Index
    <3>4. t[i - j] = cbuf[(y + m) % SIZE] /\ u[i] = cbuf[(x + j + m) % SIZE]
      BY <1>4, <1>5, <3>1, <3>3
    <3> QED
      BY <1>6, <2>2, <3>2, <3>4
  <2> QED
    BY <2>1, <2>2
<1>8. u = s \o t
  BY <1>5, <1>6, <1>7, SeqEqual
<1> QED
  BY <1>1, <1>2, <1>8

(* A character stored behind a piece.                                      *)
LEMMA SliceStore ==
  ASSUME TypeOK, NEW x \in Index, NEW len \in Nat, len < SIZE, NEW c \in Cells,
         cbuf' = [cbuf EXCEPT ![Plus(x, len) % SIZE] = c]
  PROVE  /\ cbuf' \in [0 .. SIZE - 1 -> Cells]
         /\ \A l \in 0 .. len : Slice(x, l)' = Slice(x, l)
         /\ Slice(x, len + 1)' = Append(Slice(x, len), c)
<1>0. cbuf \in [0 .. SIZE - 1 -> Cells] /\ len \in Index /\ len + 1 \in Nat /\ x \in Nat
  BY ConsoleAssumption DEF TypeOK, Index
<1>1. PICK y \in 0 .. SIZE - 1 : y = Plus(x, len) % SIZE /\ y = (x + len) % SIZE
  <2>1. (Plus(x, len) + 0) % SIZE = (x + len + 0) % SIZE
    BY <1>0, PlusSlot
  <2>2. Plus(x, len) \in Nat
    <3>1. PICK z \in Index : z = Plus(x, len)
      BY <1>0, PlusIs
    <3> QED
      BY <3>1 DEF Index
  <2>3. Plus(x, len) + 0 = Plus(x, len) /\ x + len + 0 = x + len
    BY <1>0, <2>2
  <2>4. Plus(x, len) % SIZE \in 0 .. SIZE - 1
    BY <2>2, SlotType
  <2> QED
    BY <2>1, <2>3, <2>4
<1>2. cbuf' \in [0 .. SIZE - 1 -> Cells] /\ cbuf'[y] = c
      /\ \A z \in 0 .. SIZE - 1 : z # y => cbuf'[z] = cbuf[z]
  BY <1>0, <1>1
<1>3. ASSUME NEW i \in 1 .. len
      PROVE  cbuf'[(x + i - 1) % SIZE] = cbuf[(x + i - 1) % SIZE]
  <2>1. PICK m \in Nat : m = x + i - 1 /\ m < x + len /\ x + len < m + SIZE /\ x + len \in Nat
    BY <1>0, ConsoleAssumption
  <2>2. m % SIZE # (x + len) % SIZE
    BY <2>1, Apart
  <2>3. m % SIZE \in 0 .. SIZE - 1
    BY SlotType
  <2> QED
    BY <1>1, <1>2, <2>1, <2>2, <2>3
<1>4. /\ Slice(x, len) \in Seq(Cells) /\ Len(Slice(x, len)) = len
      /\ \A i \in 1 .. len : Slice(x, len)[i] = cbuf[(x + i - 1) % SIZE]
  BY <1>0, SliceIs
<1>5. ASSUME NEW l \in 0 .. len PROVE Slice(x, l)' = Slice(x, l)
  <2>1. \A i \in 1 .. l : i \in 1 .. len
    BY <1>0
  <2> QED
    BY <1>3, <2>1 DEF Slice
<1>6. ASSUME NEW i \in 1 .. len + 1
      PROVE  cbuf'[(x + i - 1) % SIZE] = Append(Slice(x, len), c)[i]
  <2>1. CASE i = len + 1
    <3>1. x + i - 1 = x + len
      BY <1>0, <2>1
    <3>2. Append(Slice(x, len), c)[len + 1] = c
      BY <1>4, AppendProperties
    <3> QED
      BY <1>1, <1>2, <2>1, <3>1, <3>2
  <2>2. CASE i # len + 1
    <3>1. i \in 1 .. len
      BY <2>2
    <3>2. Append(Slice(x, len), c)[i] = Slice(x, len)[i]
      BY <1>4, <3>1, AppendProperties
    <3> QED
      BY <1>3, <1>4, <3>1, <3>2
  <2> QED
    BY <2>1, <2>2
<1>7. Slice(x, len + 1)' = [i \in 1 .. len + 1 |-> cbuf'[(x + i - 1) % SIZE]]
  BY DEF Slice
<1>8. PICK s : s = Append(Slice(x, len), c)
  OBVIOUS
<1>9. s \in Seq(Cells) /\ Len(s) = len + 1
  BY <1>4, <1>8, AppendProperties
<1>10. s = [i \in 1 .. len + 1 |-> s[i]]
  BY <1>9
<1>11. [i \in 1 .. len + 1 |-> cbuf'[(x + i - 1) % SIZE]] = [i \in 1 .. len + 1 |-> s[i]]
  BY <1>6, <1>8
<1> QED
  BY <1>2, <1>5, <1>7, <1>8, <1>10, <1>11


-----------------------------------------------------------------------------
(* What a read() copies: a piece of a line, up to its end or to an         *)
(* end-of-file.                                                            *)
LEMMA CopiedIs ==
  ASSUME TypeOK, NEW p \in Readers
  PROVE  /\ \A i \in 1 .. Copied(p) :
              Ready[i] # "eof" /\ (i < Copied(p) => Ready[i] # "newline")
         /\ \A j \in CanCopy(p) : j <= Copied(p)
<1>1. Len(Ready) \in Nat
  BY ReadyType
<1>2. CanCopy(p) \in SUBSET (0 .. Len(Ready)) /\ 0 \in CanCopy(p)
  BY <1>1 DEF CanCopy, TypeOK
<1>3. \E k \in CanCopy(p) : \A j \in CanCopy(p) : j <= k
  BY <1>1, <1>2, Greatest
<1>4. Copied(p) \in CanCopy(p) /\ \A j \in CanCopy(p) : j <= Copied(p)
  BY <1>3 DEF Copied
<1> QED
  BY <1>4 DEF CanCopy

LEMMA EofIs ==
  ASSUME TypeOK, NEW p \in Readers, AtEof(p)
  PROVE  Copied(p) + 1 \in 1 .. Len(Ready) /\ Ready[Copied(p) + 1] = "eof"
<1>1. PICK k \in Nat : k = Copied(p) /\ k <= Len(Ready) /\ k <= n[p]
  BY CopiedType
<1>2. k < Len(Ready) /\ k # n[p] /\ (k > 0 => Ready[k] # "newline")
  BY <1>1 DEF AtEof, AtEnd
<1>3. k + 1 \in 1 .. Len(Ready) /\ k + 1 <= n[p] /\ n[p] \in Nat /\ Len(Ready) \in Nat
  BY <1>1, <1>2, ReadyType DEF TypeOK
<1>4. k + 1 \notin CanCopy(p)
  BY <1>1, CopiedIs
<1>5. ~ \A i \in 1 .. k + 1 : Ready[i] # "eof" /\ (i < k + 1 => Ready[i] # "newline")
  BY <1>3, <1>4 DEF CanCopy
<1>6. \A i \in 1 .. k : Ready[i] # "eof" /\ (i < k => Ready[i] # "newline")
  BY <1>1, CopiedIs
<1>7. ASSUME Ready[k + 1] # "eof" PROVE FALSE
  <2>1. ASSUME NEW i \in 1 .. k + 1
        PROVE  Ready[i] # "eof" /\ (i < k + 1 => Ready[i] # "newline")
    <3>1. CASE i = k + 1
      BY <3>1, <1>7
    <3>2. CASE i = k /\ i # k + 1
      BY <3>2, <1>1, <1>2, <1>6
    <3>3. CASE i # k + 1 /\ i # k
      BY <3>3, <1>1, <1>6
    <3> QED
      BY <3>1, <3>2, <3>3
  <2> QED
    BY <1>5, <2>1
<1> QED
  BY <1>1, <1>3, <1>7

Piece(s) == \A i \in DOMAIN s : s[i] # "eof" /\ (s[i] = "newline" => i = Len(s))
Inner(s) == \A i \in DOMAIN s : s[i] \notin Whole

(* What a read() has, and more of the line behind it.                      *)
LEMMA PieceOf ==
  ASSUME NEW s \in Seq(Cells), NEW t \in Seq(Cells), NEW k \in 0 .. Len(t), Inner(s),
         \A i \in 1 .. k : t[i] # "eof" /\ (i < k => t[i] # "newline")
  PROVE  LET u == s \o SubSeq(t, 1, k) IN
           /\ u \in Seq(Cells) /\ Piece(u)
           /\ (k > 0 => t[k] # "newline") => Inner(u)
<1>0. k \in Nat /\ Len(s) \in Nat /\ Len(t) \in Nat
  OBVIOUS
<1>1. PICK v : v = SubSeq(t, 1, k)
  OBVIOUS
<1>2. v \in Seq(Cells) /\ Len(v) = k /\ \A i \in 1 .. k : v[i] = t[i]
  <2>1. /\ SubSeq(t, 1, k) \in Seq(Cells) /\ Len(SubSeq(t, 1, k)) = IF 1 <= k THEN k - 1 + 1 ELSE 0
        /\ \A i \in 1 .. k - 1 + 1 : SubSeq(t, 1, k)[i] = t[1 + i - 1]
    BY <1>0, SubSeqProperties
  <2> QED
    BY <1>0, <1>1, <2>1
<1>3. PICK u : u = s \o v
  OBVIOUS
<1>4. /\ u \in Seq(Cells) /\ Len(u) = Len(s) + k
      /\ \A i \in 1 .. Len(s) + k : u[i] = IF i <= Len(s) THEN s[i] ELSE v[i - Len(s)]
  BY <1>2, <1>3, ConcatProperties
<1>5. ASSUME NEW i \in DOMAIN u
      PROVE  /\ u[i] # "eof" /\ (u[i] = "newline" => i = Len(u))
             /\ (k > 0 => t[k] # "newline") => u[i] # "newline"
  <2>0. i \in 1 .. Len(s) + k
    BY <1>0, <1>4
  <2>1. CASE i <= Len(s)
    <3>1. i \in DOMAIN s /\ u[i] = s[i]
      BY <1>0, <1>4, <2>0, <2>1
    <3> QED
      BY <3>1 DEF Inner, Whole
  <2>2. CASE ~ (i <= Len(s))
    <3>1. PICK j \in 1 .. k : j = i - Len(s)
      BY <1>0, <2>0, <2>2
    <3>2. u[i] = t[j]
      BY <1>2, <1>4, <2>0, <2>2, <3>1
    <3>3. t[j] # "eof" /\ (j < k => t[j] # "newline")
      OBVIOUS
    <3>4. j = k => i = Len(u)
      <4>1. Len(u) = Len(s) + k /\ j = i - Len(s) /\ i \in Int
        BY <1>4, <2>0, <3>1
      <4> QED
        BY <1>0, <4>1
    <3> QED
      BY <1>0, <3>1, <3>2, <3>3, <3>4
  <2> QED
    BY <2>1, <2>2
<1>6. Piece(u) /\ ((k > 0 => t[k] # "newline") => Inner(u))
  BY <1>5 DEF Piece, Inner, Whole
<1> QED
  BY <1>1, <1>3, <1>4, <1>6


-----------------------------------------------------------------------------
(* The steps of the terminal.                                              *)
LEMMA AsKill ==
  ASSUME Line' = <<>>, Ready' = Ready, got' = got
  PROVE  Terminal!Next
BY DEF Terminal!Next, Terminal!Kill, Line

LEMMA AsErase ==
  ASSUME Line # <<>>, Line' = SubSeq(Line, 1, Len(Line) - 1), Ready' = Ready, got' = got
  PROVE  Terminal!Next
<1> HIDE DEF Ready
<1> QED
  BY DEF Terminal!Next, Terminal!Erase, Line, Terminal!Front

LEMMA AsType ==
  ASSUME NEW c \in Plain \union Whole, Len(Ready) + Len(Line) < SIZE, got' = got,
         IF c \in Whole \/ Len(Ready) + Len(Append(Line, c)) = SIZE
         THEN Ready' = Ready \o Append(Line, c) /\ Line' = <<>>
         ELSE Line' = Append(Line, c) /\ Ready' = Ready
  PROVE  Terminal!Next
<1>1. Terminal!Type
  BY DEF Terminal!Type, Terminal!Ends, Line, Whole
<1> QED
  BY <1>1 DEF Terminal!Next

LEMMA AsRead ==
  ASSUME TypeOK, NEW p \in Readers, NEW k \in 0 .. Len(Ready),
         got' = [got EXCEPT ![p] = @ \o SubSeq(Ready, 1, k)], Piece(got'[p]),
         Ready' = SubSeq(Ready, k + 1, Len(Ready)), Line' = Line
  PROVE  Terminal!Next
<1>1. Terminal!Read(p)
  BY DEF Terminal!Read, Terminal!Piece, Piece, Line
<1> QED
  BY <1>1 DEF Terminal!Next

LEMMA AsReadEof ==
  ASSUME NEW p \in Readers, Ready # <<>>, Head(Ready) = "eof", got[p] = <<>>,
         Ready' = Tail(Ready), Line' = Line, got' = got
  PROVE  Terminal!Next
<1>1. Terminal!ReadEof(p)
  BY DEF Terminal!ReadEof, Line
<1> QED
  BY <1>1 DEF Terminal!Next

LEMMA AsFault ==
  ASSUME TypeOK, NEW p \in Readers, NEW k \in 1 .. Len(Ready),
         got' = [got EXCEPT ![p] = @ \o SubSeq(Ready, 1, k - 1)], Piece(got'[p]),
         Ready[k] # "eof", Ready' = SubSeq(Ready, k + 1, Len(Ready)), Line' = Line
  PROVE  Terminal!Next
<1>1. Terminal!Fault(p)
  BY DEF Terminal!Fault, Terminal!Piece, Piece, Line
<1> QED
  BY <1>1 DEF Terminal!Next

LEMMA AsBegin ==
  ASSUME NEW p \in Readers, got' = [got EXCEPT ![p] = <<>>], Ready' = Ready, Line' = Line
  PROVE  Terminal!Next
<1>1. Terminal!Begin(p)
  BY DEF Terminal!Begin, Line
<1> QED
  BY <1>1 DEF Terminal!Next


-----------------------------------------------------------------------------
(* Each step of the console is one of the terminal, or none of its steps.  *)
LEMMA RingType ==
  ASSUME TypeOK
  PROVE  /\ r \in Index /\ w \in Index /\ e \in Index
         /\ Minus(w, r) \in Index /\ Minus(e, w) \in Index
         /\ Ready \in Seq(Cells) /\ Len(Ready) = Minus(w, r)
         /\ Line \in Seq(Cells) /\ Len(Line) = Minus(e, w)
         /\ \A p \in Readers : got[p] \in Seq(Cells)
<1>1. r \in Index /\ w \in Index /\ e \in Index
  BY DEF TypeOK, Index
<1>2. Minus(w, r) \in Index /\ Minus(e, w) \in Index
  BY <1>1, DistanceType DEF Index
<1>3. Minus(e, w) \in Nat
  BY <1>2, ConsoleAssumption DEF Index
<1>4. Line \in Seq(Cells) /\ Len(Line) = Minus(e, w)
  BY <1>1, <1>3, SliceIs DEF Line, TypeOK
<1>5. \A p \in Readers : got[p] \in Seq(Cells)
  BY DEF TypeOK
<1> QED
  BY <1>1, <1>2, <1>4, <1>5, ReadyType

(* consoleread() has copied k characters and taken j.                      *)
LEMMA TakeStep ==
  ASSUME LInv, NEW p \in Readers, rpc[p] = "loop", NEW k \in 0 .. Copied(p),
         NEW j \in k .. Len(Ready), Copy(p, k), r' = Plus(r, j), UNCHANGED <<cbuf, w, e>>
  PROVE  /\ Ready' = SubSeq(Ready, j + 1, Len(Ready)) /\ Line' = Line
         /\ got' = [got EXCEPT ![p] = @ \o SubSeq(Ready, 1, k)] /\ Piece(got'[p])
         /\ (k > 0 => Ready[k] # "newline") => Inner(got'[p])
         /\ BufInv' /\ LineInv'
<1>0. TypeOK /\ BufInv /\ LineInv /\ GotInv
  BY DEF LInv
<1>1. /\ r \in Index /\ w \in Index /\ e \in Index
      /\ Minus(w, r) \in Index /\ Minus(e, w) \in Index
      /\ Ready \in Seq(Cells) /\ Len(Ready) = Minus(w, r)
      /\ got[p] \in Seq(Cells)
  BY <1>0, RingType
<1>2. PICK c \in Nat : c = Copied(p) /\ c <= Len(Ready)
  BY <1>0, CopiedType
<1>3. k \in 0 .. Len(Ready) /\ j \in 0 .. Minus(w, r) /\ k <= c /\ k \in Nat /\ j \in Nat
      /\ j <= Minus(w, r) /\ Minus(w, r) \in Nat
  BY <1>1, <1>2, ConsoleAssumption DEF Index
<1>4. PICK z \in Index : z = Plus(r, j) /\ Minus(w, z) = Minus(w, r) - j
  BY <1>1, <1>3, Advance
<1>5. Minus(w, r)' = Minus(w, r) - j /\ Minus(e, w)' = Minus(e, w)
  BY <1>4 DEF Minus
<1>6. Line' = Line
  BY DEF Line, Slice, Minus
<1>7. Ready' = SubSeq(Ready, j + 1, Len(Ready))
  <2>1. Slice(Plus(r, j), Minus(w, r) - j) = SubSeq(Slice(r, Minus(w, r)), j + 1, Minus(w, r))
    BY <1>0, <1>1, <1>3, SliceTail
  <2>2. Slice(z, Minus(w, r) - j) = SubSeq(Ready, j + 1, Len(Ready))
    BY <1>1, <1>4, <2>1 DEF Ready
  <2>3. Ready' = Slice(z, Minus(w, r) - j)
    BY <1>4, <1>5 DEF Ready, Slice
  <2> QED
    BY <2>2, <2>3
<1>8. got' = [got EXCEPT ![p] = @ \o SubSeq(Ready, 1, k)]
      /\ got'[p] = got[p] \o SubSeq(Ready, 1, k)
  <2> HIDE DEF Ready
  <2> QED
    BY <1>0 DEF Copy, TypeOK
<1>9. \A i \in 1 .. k : Ready[i] # "eof" /\ (i < k => Ready[i] # "newline")
  <2>1. \A i \in 1 .. c : Ready[i] # "eof" /\ (i < c => Ready[i] # "newline")
    BY <1>0, <1>2, CopiedIs
  <2>2. ASSUME NEW i \in 1 .. k
        PROVE  Ready[i] # "eof" /\ (i < k => Ready[i] # "newline")
    <3>1. i \in 1 .. c /\ (i < k => i < c)
      BY <1>3
    <3> QED
      BY <2>1, <3>1
  <2> QED
    BY <2>2
<1>10. Inner(got[p])
  BY <1>0 DEF GotInv, Inner
<1>11. PICK u : u = got[p] \o SubSeq(Ready, 1, k)
                /\ Piece(u) /\ ((k > 0 => Ready[k] # "newline") => Inner(u))
  BY <1>1, <1>3, <1>9, <1>10, PieceOf
<1>12. Piece(got'[p]) /\ ((k > 0 => Ready[k] # "newline") => Inner(got'[p]))
  BY <1>8, <1>11
<1>13. BufInv'
  <2>1. Minus(w, r) - j + Minus(e, w) <= SIZE
    BY <1>0, <1>1, <1>3, ConsoleAssumption DEF BufInv, Index
  <2> QED
    BY <1>5, <2>1 DEF BufInv
<1>14. LineInv'
  <2> HIDE DEF Line
  <2> QED
    BY <1>0, <1>5, <1>6 DEF LineInv
<1> QED
  BY <1>6, <1>7, <1>8, <1>12, <1>13, <1>14


LEMMA GotStep ==
  ASSUME LInv, NEW p \in Readers, got' \in [Readers -> Seq(Cells)],
         \A q \in Readers \ {p} : got'[q] = got[q] /\ rpc'[q] = rpc[q],
         rpc'[p] = "idle" \/ Inner(got'[p])
  PROVE  GotInv'
<1>1. GotInv
  BY DEF LInv
<1>2. ASSUME NEW q \in Readers, rpc'[q] # "idle"
      PROVE  \A i \in DOMAIN got'[q] : got'[q][i] \notin Whole
  <2>1. CASE q = p
    BY <1>2, <2>1 DEF Inner
  <2>2. CASE q # p
    <3>1. got'[q] = got[q] /\ rpc[q] # "idle"
      BY <1>2, <2>2
    <3> QED
      BY <1>1, <3>1 DEF GotInv
  <2> QED
    BY <2>1, <2>2
<1> QED
  BY <1>2 DEF GotInv

Implements == Terminal!Next /\ BufInv' /\ LineInv' /\ GotInv'

(* consoleread() ends, or sleeps, with what it may copy.                   *)
LEMMA CopiedStep ==
  ASSUME LInv, TypeOK', NEW p \in Readers, rpc[p] = "loop", Copy(p, Copied(p)),
         r' = Plus(r, Copied(p)), UNCHANGED <<cbuf, w, e>>,
         NEW x, rpc' = [rpc EXCEPT ![p] = x],
         x = "idle" \/ (Copied(p) > 0 => Ready[Copied(p)] # "newline")
  PROVE  Implements
<1>0. TypeOK
  BY DEF LInv
<1>1. PICK k \in Nat : k = Copied(p) /\ k <= Len(Ready) /\ Len(Ready) \in Nat
  BY <1>0, CopiedType, ReadyType
<1>2. k \in 0 .. Copied(p) /\ k \in k .. Len(Ready) /\ k \in 0 .. Len(Ready)
  BY <1>1
<1>3. /\ Ready' = SubSeq(Ready, k + 1, Len(Ready)) /\ Line' = Line
      /\ got' = [got EXCEPT ![p] = @ \o SubSeq(Ready, 1, k)] /\ Piece(got'[p])
      /\ (k > 0 => Ready[k] # "newline") => Inner(got'[p])
      /\ BufInv' /\ LineInv'
  BY <1>1, <1>2, TakeStep
<1>4. Terminal!Next
  BY <1>0, <1>2, <1>3, AsRead
<1>5. rpc'[p] = x /\ \A q \in Readers \ {p} : rpc'[q] = rpc[q]
  BY <1>0 DEF TypeOK
<1>6. \A q \in Readers \ {p} : got'[q] = got[q]
  <2> HIDE DEF Ready
  <2> QED
    BY <1>0, <1>3 DEF TypeOK
<1>7. got' \in [Readers -> Seq(Cells)]
  BY DEF TypeOK
<1>8. GotInv'
  BY <1>1, <1>3, <1>5, <1>6, <1>7, GotStep
<1> QED
  BY <1>3, <1>4, <1>8 DEF Implements

LEMMA LineStep ==
  ASSUME LInv, TypeOK', NEW p \in Readers, ReadLine(p) PROVE Implements
<1>1. rpc[p] = "loop" /\ Copy(p, Copied(p)) /\ r' = Plus(r, Copied(p))
      /\ UNCHANGED <<cbuf, w, e>> /\ rpc' = [rpc EXCEPT ![p] = "idle"]
  BY DEF ReadLine, InLoop, Return
<1> QED
  BY <1>1, CopiedStep

LEMMA WaitStep ==
  ASSUME LInv, TypeOK', NEW p \in Readers, ReadWait(p) PROVE Implements
<1>1. rpc[p] = "loop" /\ Copy(p, Copied(p)) /\ r' = Plus(r, Copied(p))
      /\ UNCHANGED <<cbuf, w, e>>
      /\ (rpc' = [rpc EXCEPT ![p] = "idle"] \/ rpc' = [rpc EXCEPT ![p] = "asleep"])
  BY DEF ReadWait, InLoop, Return
<1>2. Copied(p) > 0 => Ready[Copied(p)] # "newline"
  BY DEF ReadWait, AtVoid, AtEnd
<1>3. CASE rpc' = [rpc EXCEPT ![p] = "idle"]
  BY <1>1, <1>3, CopiedStep
<1>4. CASE rpc' = [rpc EXCEPT ![p] = "asleep"]
  BY <1>1, <1>2, <1>4, CopiedStep
<1> QED
  BY <1>1, <1>3, <1>4

(* A ^D is put back, or taken by a read() that has nothing.                *)
LEMMA EofStep ==
  ASSUME LInv, TypeOK', NEW p \in Readers, ReadEof(p) PROVE Implements
<1>0. TypeOK
  BY DEF LInv
<1>1. /\ rpc[p] = "loop" /\ AtEof(p) /\ Copy(p, Copied(p)) /\ UNCHANGED <<cbuf, w, e>>
      /\ r' = IF got'[p] # <<>> THEN Plus(r, Copied(p)) ELSE Plus(r, Copied(p) + 1)
      /\ rpc' = [rpc EXCEPT ![p] = "idle"]
  BY DEF ReadEof, InLoop, Return
<1>2. CASE got'[p] # <<>>
  BY <1>1, <1>2, CopiedStep
<1>3. CASE got'[p] = <<>>
  <2>1. PICK k \in Nat : k = Copied(p) /\ k <= Len(Ready) /\ Len(Ready) \in Nat
                         /\ k + 1 \in 1 .. Len(Ready) /\ Ready[k + 1] = "eof"
    BY <1>0, <1>1, CopiedType, ReadyType, EofIs
  <2>2. k \in 0 .. Copied(p) /\ k + 1 \in k .. Len(Ready) /\ k \in 0 .. Len(Ready)
    BY <2>1
  <2>3. r' = Plus(r, k + 1)
    BY <1>1, <1>3, <2>1
  <2>4. /\ Ready' = SubSeq(Ready, k + 1 + 1, Len(Ready)) /\ Line' = Line
        /\ got' = [got EXCEPT ![p] = @ \o SubSeq(Ready, 1, k)]
        /\ BufInv' /\ LineInv'
    BY <1>1, <2>1, <2>2, <2>3, TakeStep
  <2>5. Ready \in Seq(Cells) /\ got[p] \in Seq(Cells)
    BY <1>0, RingType
  <2>6. got'[p] = got[p] \o SubSeq(Ready, 1, k)
    <3> HIDE DEF Ready
    <3> QED
      BY <1>0, <2>4 DEF TypeOK
  <2>7. PICK t \in Seq(Cells) : t = Ready /\ t # <<>>
    BY <2>1, <2>5
  <2>8. k = 0 /\ got[p] = <<>>
    <3>1. SubSeq(t, 1, k) \in Seq(Cells) /\ Len(SubSeq(t, 1, k)) = k
      BY <2>1, <2>7, SubSeqProperties
    <3>2. PICK v \in Seq(Cells) : v = SubSeq(t, 1, k) /\ Len(v) = k
      BY <3>1
    <3>3. Len(got[p] \o v) = Len(got[p]) + Len(v) /\ Len(got[p] \o v) = 0
      BY <1>3, <2>5, <2>6, <2>7, <3>2, ConcatProperties
    <3>4. Len(got[p]) \in Nat /\ Len(got[p]) = 0
      BY <2>1, <2>5, <3>2, <3>3
    <3> QED
      BY <2>1, <2>5, <3>2, <3>3, <3>4, EmptySeq
  <2>9. got' = got
    <3>1. got'[p] = got[p]
      BY <1>3, <2>8
    <3> HIDE DEF Ready
    <3> QED
      BY <1>0, <2>4, <3>1 DEF TypeOK
  <2>10. Head(Ready) = "eof" /\ Ready' = Tail(Ready)
    <3>1. Head(t) = t[1] /\ Tail(t) = SubSeq(t, 2, Len(t))
      BY <2>7, HeadTailProperties
    <3> QED
      BY <2>1, <2>4, <2>7, <2>8, <3>1
  <2>11. Terminal!Next
    BY <2>4, <2>7, <2>8, <2>9, <2>10, AsReadEof
  <2>12. rpc'[p] = "idle" /\ \A q \in Readers \ {p} : rpc'[q] = rpc[q]
    BY <1>0, <1>1 DEF TypeOK
  <2>13. got' \in [Readers -> Seq(Cells)] /\ \A q \in Readers \ {p} : got'[q] = got[q]
    BY <2>9 DEF TypeOK
  <2>14. GotInv'
    BY <2>12, <2>13, GotStep
  <2> QED
    BY <2>4, <2>11, <2>14 DEF Implements
<1> QED
  BY <1>2, <1>3


(* A bad address: a character is taken and goes nowhere.                   *)
LEMMA FaultStep ==
  ASSUME LInv, TypeOK', NEW p \in Readers, ReadFault(p) PROVE Implements
<1>0. TypeOK
  BY DEF LInv
<1>1. PICK c \in Nat : c = Copied(p) /\ c <= Len(Ready) /\ Len(Ready) \in Nat
  BY <1>0, CopiedType, ReadyType
<1>2. PICK k \in 0 .. c - 1 : Copy(p, k) /\ r' = Plus(r, k + 1)
  BY <1>1 DEF ReadFault
<1>3. rpc[p] = "loop" /\ UNCHANGED <<cbuf, w, e>> /\ rpc' = [rpc EXCEPT ![p] = "idle"]
  BY DEF ReadFault, InLoop, Return
<1>4. k \in 0 .. Copied(p) /\ k + 1 \in k .. Len(Ready) /\ k + 1 \in 1 .. c
      /\ k + 1 \in 1 .. Len(Ready) /\ k + 1 - 1 = k
  BY <1>1
<1>5. /\ Ready' = SubSeq(Ready, k + 1 + 1, Len(Ready)) /\ Line' = Line
      /\ got' = [got EXCEPT ![p] = @ \o SubSeq(Ready, 1, k)] /\ Piece(got'[p])
      /\ BufInv' /\ LineInv'
  BY <1>2, <1>3, <1>4, TakeStep
<1>6. Ready[k + 1] # "eof"
  BY <1>0, <1>1, <1>4, CopiedIs
<1>7. Terminal!Next
  <2>1. PICK m \in 1 .. Len(Ready) : m = k + 1 /\ m - 1 = k
    BY <1>4
  <2>2. got' = [got EXCEPT ![p] = @ \o SubSeq(Ready, 1, m - 1)]
    BY <1>5, <2>1
  <2>3. Ready[m] # "eof" /\ Ready' = SubSeq(Ready, m + 1, Len(Ready))
    BY <1>5, <1>6, <2>1
  <2> QED
    BY <1>0, <1>5, <2>2, <2>3, AsFault
<1>8. rpc'[p] = "idle" /\ \A q \in Readers \ {p} : rpc'[q] = rpc[q]
  BY <1>0, <1>3 DEF TypeOK
<1>9. got' \in [Readers -> Seq(Cells)] /\ \A q \in Readers \ {p} : got'[q] = got[q]
  <2> HIDE DEF Ready
  <2> QED
    BY <1>0, <1>5 DEF TypeOK
<1>10. GotInv'
  BY <1>8, <1>9, GotStep
<1> QED
  BY <1>5, <1>7, <1>10 DEF Implements

(* What leaves the buffer alone.                                           *)
LEMMA BufferKept ==
  ASSUME LInv, UNCHANGED consVars
  PROVE  Line' = Line /\ Ready' = Ready /\ BufInv' /\ LineInv'
<1>1. Minus(w, r)' = Minus(w, r) /\ Minus(e, w)' = Minus(e, w)
  BY DEF consVars, Minus
<1>2. Line' = Line /\ Ready' = Ready
  BY DEF consVars, Line, Ready, Slice, Minus
<1>3. BufInv'
  BY <1>1 DEF LInv, BufInv
<1>4. LineInv'
  <2> HIDE DEF Line
  <2> QED
    BY <1>1, <1>2 DEF LInv, LineInv
<1> QED
  BY <1>2, <1>3, <1>4

LEMMA BeginStep ==
  ASSUME LInv, TypeOK', NEW p \in Readers, NEW k \in Sizes, Read(p, k) PROVE Implements
<1>0. TypeOK
  BY DEF LInv
<1>1. Line' = Line /\ Ready' = Ready /\ BufInv' /\ LineInv'
  BY BufferKept DEF Read
<1>2. got' = [got EXCEPT ![p] = <<>>] /\ rpc' = [rpc EXCEPT ![p] = "loop"]
  BY DEF Read
<1>3. Terminal!Next
  BY <1>1, <1>2, AsBegin
<1>4. got'[p] = <<>> /\ \A q \in Readers \ {p} : got'[q] = got[q] /\ rpc'[q] = rpc[q]
  BY <1>0, <1>2 DEF TypeOK
<1>5. Inner(got'[p])
  BY <1>4 DEF Inner
<1>6. GotInv'
  BY <1>4, <1>5, GotStep DEF TypeOK
<1> QED
  BY <1>1, <1>3, <1>6 DEF Implements

(* What the readers have got, when consoleintr() or kkill() wakes them.    *)
LEMMA GotKept ==
  ASSUME LInv, got' = got, \A p \in Readers : rpc'[p] # "idle" => rpc[p] # "idle"
  PROVE  GotInv'
<1>1. GotInv
  BY DEF LInv
<1>2. ASSUME NEW p \in Readers, rpc'[p] # "idle"
      PROVE  \A i \in DOMAIN got'[p] : got'[p][i] \notin Whole
  <2>1. got'[p] = got[p] /\ rpc[p] # "idle"
    BY <1>2
  <2> QED
    BY <1>1, <2>1 DEF GotInv
<1> QED
  BY <1>2 DEF GotInv

LEMMA OtherSteps ==
  ASSUME LInv, UNCHANGED <<consVars, got>>,
         \A p \in Readers : rpc'[p] # "idle" => rpc[p] # "idle"
  PROVE  UNCHANGED <<Line, Ready, got>> /\ BufInv' /\ LineInv' /\ GotInv'
<1>1. Line' = Line /\ Ready' = Ready /\ BufInv' /\ LineInv'
  BY BufferKept
<1>2. GotInv'
  BY GotKept
<1> QED
  BY <1>1, <1>2

-----------------------------------------------------------------------------
(* The line, edited from its end at e.                                     *)
LEMMA Shorten ==
  ASSUME LInv, NEW j \in 0 .. Minus(e, w), e' = Minus(e, j), UNCHANGED <<cbuf, r, w>>
  PROVE  /\ Line' = SubSeq(Line, 1, Minus(e, w) - j) /\ Ready' = Ready
         /\ BufInv' /\ LineInv'
<1>0. TypeOK /\ BufInv /\ LineInv
  BY DEF LInv
<1>1. /\ r \in Index /\ w \in Index /\ e \in Index
      /\ Minus(w, r) \in Index /\ Minus(e, w) \in Index
      /\ Line \in Seq(Cells) /\ Len(Line) = Minus(e, w)
  BY <1>0, RingType
<1>2. PICK z \in Index : z = Minus(e, j) /\ Minus(z, w) = Minus(e, w) - j
  BY <1>1, Back
<1>3. Minus(e, w)' = Minus(e, w) - j /\ Minus(w, r)' = Minus(w, r)
  BY <1>2 DEF Minus
<1>4. PICK l \in Nat : l = Minus(e, w) - j /\ l \in 0 .. Len(Line) /\ l <= Minus(e, w)
  BY <1>1, ConsoleAssumption DEF Index
<1>5. cbuf \in [0 .. SIZE - 1 -> Cells] /\ Minus(e, w) \in Nat /\ w \in Nat
  BY <1>0, <1>1, ConsoleAssumption DEF TypeOK, Index
<1>6. \A i \in 1 .. Minus(e, w) : Line[i] = cbuf[(w + i - 1) % SIZE]
  BY <1>1, <1>5, SliceIs DEF Line
<1>7. PICK s \in Seq(Cells) : s = Line /\ Len(s) = Minus(e, w)
  BY <1>1
<1>8. /\ SubSeq(s, 1, l) \in Seq(Cells) /\ Len(SubSeq(s, 1, l)) = l
      /\ \A i \in 1 .. l : SubSeq(s, 1, l)[i] = s[i]
  BY <1>4, <1>7, SubSeqProperties
<1>9. PICK t : t = SubSeq(s, 1, l)
  OBVIOUS
<1>10. /\ Slice(w, l) \in Seq(Cells) /\ Len(Slice(w, l)) = l
       /\ \A i \in 1 .. l : Slice(w, l)[i] = cbuf[(w + i - 1) % SIZE]
  BY <1>1, <1>5, SliceIs
<1>11. PICK u : u = Slice(w, l)
  OBVIOUS
<1>12. ASSUME NEW i \in 1 .. l PROVE u[i] = t[i]
  <2>1. i \in 1 .. Minus(e, w)
    BY <1>4, <1>5
  <2>2. s[i] = cbuf[(w + i - 1) % SIZE]
    BY <1>6, <1>7, <2>1
  <2> QED
    BY <1>8, <1>9, <1>10, <1>11, <2>2
<1>13. u = t
  BY <1>8, <1>9, <1>10, <1>11, <1>12, SeqEqual
<1>14. Line' = u
  BY <1>3, <1>4, <1>11 DEF Line, Slice
<1>15. Ready' = Ready
  BY DEF Ready, Slice, Minus
<1>16. BufInv'
  BY <1>0, <1>1, <1>3, ConsoleAssumption DEF BufInv, Index
<1>17. LineInv'
  <2>1. ASSUME NEW i \in 1 .. l PROVE t[i] \notin Whole
    <3>1. i \in 1 .. Minus(e, w)
      BY <1>4, <1>5
    <3> QED
      BY <1>0, <1>7, <1>8, <1>9, <3>1 DEF LineInv
  <2>2. Minus(e, w)' = l /\ Line' = t
    BY <1>3, <1>4, <1>13, <1>14
  <2> HIDE DEF Line
  <2> QED
    BY <2>1, <2>2 DEF LineInv
<1> QED
  BY <1>4, <1>7, <1>9, <1>13, <1>14, <1>15, <1>16, <1>17


LEMMA KillLineStep ==
  ASSUME LInv, KillLine PROVE Implements
<1>0. TypeOK /\ LineInv
  BY DEF LInv
<1>1. /\ w \in Index /\ e \in Index /\ Minus(e, w) \in Index /\ Minus(e, w) \in Nat
      /\ Line \in Seq(Cells) /\ Len(Line) = Minus(e, w)
  BY <1>0, RingType, ConsoleAssumption DEF Index
<1> DEFINE back == {j \in 0 .. Minus(e, w) :
                      \A i \in 1 .. j : cbuf[Minus(e, i) % SIZE] # "newline"}
           top  == CHOOSE j \in back : \A i \in back : i <= j
<1>2. ASSUME NEW i \in 1 .. Minus(e, w) PROVE cbuf[Minus(e, i) % SIZE] # "newline"
  <2>1. i \in 0 .. Minus(e, w) /\ i \in Nat
    OBVIOUS
  <2>2. Minus(e, i) = Plus(w, Minus(e, w) - i)
    BY <1>1, <2>1, Back
  <2>3. PICK k \in Nat : k = Minus(e, w) - i /\ k \in Index /\ k + 1 \in 1 .. Minus(e, w)
    BY <1>1, ConsoleAssumption DEF Index
  <2>4. (Plus(w, k) + 0) % SIZE = (w + k + 0) % SIZE
    BY <1>1, <2>3, PlusSlot
  <2>5. PICK z \in Index : z = Plus(w, k)
    BY <1>1, <2>3, PlusIs
  <2>6. z + 0 = z /\ w + k + 0 = w + (k + 1) - 1
    BY <1>1, <2>3, <2>5, ConsoleAssumption DEF Index
  <2>7. Line[k + 1] = cbuf[(w + (k + 1) - 1) % SIZE]
    BY <1>0, <1>1, <2>3, SliceIs DEF Line, TypeOK
  <2>8. Line[k + 1] # "newline"
    BY <1>0, <2>3 DEF LineInv, Whole
  <2> QED
    BY <2>2, <2>3, <2>4, <2>5, <2>6, <2>7, <2>8
<1>3. Minus(e, w) \in back /\ \A i \in back : i <= Minus(e, w)
  BY <1>1, <1>2
<1>4. top \in back /\ \A i \in back : i <= top
  <2> HIDE DEF back
  <2> QED
    BY <1>3
<1>5. top = Minus(e, w)
  <2>1. top \in 0 .. Minus(e, w) /\ Minus(e, w) <= top
    BY <1>3, <1>4
  <2> HIDE DEF top, back
  <2> QED
    BY <1>1, <2>1
<1>6. e' = Minus(e, top) /\ UNCHANGED <<cbuf, r, w, readerVars>>
  BY DEF KillLine
<1>7. PICK j \in 0 .. Minus(e, w) : j = Minus(e, w) /\ e' = Minus(e, j)
  <2> HIDE DEF top
  <2> QED
    BY <1>1, <1>5, <1>6
<1> HIDE DEF back, top
<1>8. /\ Line' = SubSeq(Line, 1, Minus(e, w) - j) /\ Ready' = Ready
      /\ BufInv' /\ LineInv'
  BY <1>6, <1>7, Shorten
<1>9. Line' = <<>>
  <2>1. PICK s \in Seq(Cells) : s = Line
    BY <1>1
  <2>2. Minus(e, w) - j = 0
    BY <1>1, <1>7
  <2>3. SubSeq(s, 1, 0) = <<>>
    BY SubSeqEmpty
  <2> QED
    BY <1>8, <2>1, <2>2, <2>3
<1>10. Terminal!Next
  BY <1>6, <1>8, <1>9, AsKill DEF readerVars
<1>11. GotInv'
  BY <1>6, GotKept DEF readerVars
<1> QED
  BY <1>8, <1>10, <1>11 DEF Implements

LEMMA EraseStep ==
  ASSUME LInv, Erase, e # w PROVE Implements
<1>0. TypeOK
  BY DEF LInv
<1>1. /\ w \in Index /\ e \in Index /\ Minus(e, w) \in Index /\ Minus(e, w) \in Nat
      /\ Line \in Seq(Cells) /\ Len(Line) = Minus(e, w)
  BY <1>0, RingType, ConsoleAssumption DEF Index
<1>2. Minus(e, w) # 0
  <2>1. Minus(e, w) = IF e < w THEN e + UINT - w ELSE e - w
    BY <1>1, DistanceType DEF Index
  <2> QED
    BY <1>1, <2>1, ConsoleAssumption DEF Index
<1>3. 1 \in 0 .. Minus(e, w)
  BY <1>1, <1>2
<1>4. e' = Minus(e, 1) /\ UNCHANGED <<cbuf, r, w, readerVars>>
  BY DEF Erase
<1>5. /\ Line' = SubSeq(Line, 1, Minus(e, w) - 1) /\ Ready' = Ready
      /\ BufInv' /\ LineInv'
  BY <1>3, <1>4, Shorten
<1>6. Line # <<>> /\ Line' = SubSeq(Line, 1, Len(Line) - 1)
  <2> HIDE DEF Line
  <2> QED
    BY <1>1, <1>2, <1>5
<1>7. Terminal!Next
  BY <1>4, <1>5, <1>6, AsErase DEF readerVars
<1>8. GotInv'
  BY <1>4, GotKept DEF readerVars
<1> QED
  BY <1>5, <1>7, <1>8 DEF Implements


(* A character stored at the end of the line.                              *)
LEMMA Lengthen ==
  ASSUME LInv, NEW d \in Cells, Minus(e, r) < SIZE,
         cbuf' = [cbuf EXCEPT ![e % SIZE] = d], e' = Plus(e, 1), r' = r
  PROVE  /\ Minus(e, r) = Len(Ready) + Len(Line) /\ Minus(e', r) = Len(Ready) + Len(Line) + 1
         /\ w' = w => /\ Line' = Append(Line, d) /\ Ready' = Ready
                      /\ Minus(e, w)' = Len(Line) + 1 /\ Minus(w, r)' = Len(Ready)
         /\ w' = e' => /\ Line' = <<>> /\ Ready' = Ready \o Append(Line, d)
                       /\ Minus(e, w)' = 0 /\ Minus(w, r)' = Len(Ready) + Len(Line) + 1
<1>0. TypeOK /\ BufInv
  BY DEF LInv
<1>1. /\ r \in Index /\ w \in Index /\ e \in Index
      /\ Minus(w, r) \in Index /\ Minus(e, w) \in Index
      /\ Ready \in Seq(Cells) /\ Len(Ready) = Minus(w, r)
      /\ Line \in Seq(Cells) /\ Len(Line) = Minus(e, w)
  BY <1>0, RingType
<1>2. PICK R \in Index, W \in Index, E \in Index, a \in Index, b \in Index :
        R = r /\ W = w /\ E = e /\ a = Minus(w, r) /\ b = Minus(e, w)
  BY <1>1
<1>3. a \in Nat /\ b \in Nat /\ a + b <= SIZE /\ SIZE < UINT /\ SIZE \in Nat
  BY <1>0, <1>2, ConsoleAssumption DEF BufInv, Index
<1>4. Minus(E, R) = a + b /\ a + b < SIZE
  <2>1. Minus(W, R) + Minus(E, W) < UINT
    BY <1>2, <1>3, ConsoleAssumption
  <2>2. Minus(E, R) = Minus(W, R) + Minus(E, W)
    BY <2>1, Between
  <2> QED
    BY <1>2, <2>2
<1>5. PICK F \in Index : F = Plus(E, 1) /\ Minus(F, R) = a + b + 1 /\ Minus(F, W) = b + 1
  <2>1. Minus(E, R) < SIZE /\ Minus(E, W) < SIZE
    BY <1>2, <1>3, <1>4
  <2>2. Plus(E, 1) \in Index /\ Minus(Plus(E, 1), R) = Minus(E, R) + 1
        /\ Minus(Plus(E, 1), W) = Minus(E, W) + 1
    BY <2>1, OneFurther
  <2> QED
    BY <1>2, <1>4, <2>2
<1>6. Plus(W, b) = E /\ Plus(R, a + b) = E /\ Plus(R, a) = W
  <2>1. Plus(W, Minus(E, W)) = E /\ Plus(R, Minus(E, R)) = E /\ Plus(R, Minus(W, R)) = W
    BY PlusDistance DEF Index
  <2> QED
    BY <1>2, <1>4, <2>1
<1>7. /\ Slice(W, b + 1)' = Append(Slice(W, b), d)
      /\ \A l \in 0 .. a + b : Slice(R, l)' = Slice(R, l)
      /\ Slice(R, a + b + 1)' = Append(Slice(R, a + b), d)
  <2>1. a + b \in Nat /\ b < SIZE
    BY <1>3, <1>4
  <2>2. cbuf' = [cbuf EXCEPT ![Plus(W, b) % SIZE] = d]
        /\ cbuf' = [cbuf EXCEPT ![Plus(R, a + b) % SIZE] = d]
    BY <1>2, <1>6
  <2>3. Slice(W, b + 1)' = Append(Slice(W, b), d)
    BY <1>0, <1>3, <2>1, <2>2, SliceStore
  <2>4. /\ \A l \in 0 .. a + b : Slice(R, l)' = Slice(R, l)
        /\ Slice(R, a + b + 1)' = Append(Slice(R, a + b), d)
    <3>1. PICK m \in Nat : m = a + b /\ m < SIZE
      BY <1>4, <2>1
    <3>2. cbuf' = [cbuf EXCEPT ![Plus(R, m) % SIZE] = d]
      BY <2>2, <3>1
    <3>3. /\ \A l \in 0 .. m : Slice(R, l)' = Slice(R, l)
          /\ Slice(R, m + 1)' = Append(Slice(R, m), d)
      BY <1>0, <3>1, <3>2, SliceStore
    <3> QED
      BY <3>1, <3>3
  <2> QED
    BY <2>3, <2>4
<1>8. Line = Slice(W, b) /\ Ready = Slice(R, a)
  BY <1>2 DEF Line, Ready
<1>9. ASSUME w' = w
      PROVE  /\ Line' = Append(Line, d) /\ Ready' = Ready
             /\ Minus(e, w)' = b + 1 /\ Minus(w, r)' = a
  <2>1. Minus(e, w)' = b + 1 /\ Minus(w, r)' = a
    BY <1>2, <1>5, <1>9 DEF Minus
  <2>2. Line' = Slice(W, b + 1)'
    BY <1>2, <1>9, <2>1 DEF Line, Slice
  <2>3. Ready' = Slice(R, a)'
    BY <1>2, <2>1 DEF Ready, Slice
  <2>4. a \in 0 .. a + b
    BY <1>3
  <2> QED
    BY <1>7, <1>8, <2>1, <2>2, <2>3, <2>4
<1>10. ASSUME w' = e'
       PROVE  /\ Line' = <<>> /\ Ready' = Ready \o Append(Line, d)
              /\ Minus(e, w)' = 0 /\ Minus(w, r)' = a + b + 1
  <2>1. Minus(F, F) = 0
    BY DistanceZero DEF Index
  <2>2. e' = F /\ w' = F /\ r' = R
    BY <1>2, <1>5, <1>10
  <2>3. Minus(e, w)' = 0 /\ Minus(w, r)' = a + b + 1
    BY <1>5, <2>1, <2>2 DEF Minus
  <2>4. Line' = <<>>
    <3>1. Line' = [i \in 1 .. 0 |-> cbuf'[(w' + i - 1) % SIZE]]
      BY <2>3 DEF Line, Slice
    <3>2. 1 .. 0 = {}
      OBVIOUS
    <3> QED
      BY <3>1, <3>2
  <2>5. Ready' = Slice(R, a + b + 1)'
    BY <2>2, <2>3 DEF Ready, Slice
  <2>6. Slice(R, a + b) = Slice(R, a) \o Slice(Plus(R, a), b)
    <3>1. a + b < UINT
      BY <1>3, ConsoleAssumption
    <3> QED
      BY <1>0, <3>1, SliceCat
  <2>7. Ready' = Append(Ready \o Line, d)
    BY <1>6, <1>7, <1>8, <2>5, <2>6
  <2>8. PICK s \in Seq(Cells), t \in Seq(Cells) : s = Ready /\ t = Line
    BY <1>1
  <2>9. Append(s \o t, d) = s \o Append(t, d)
    <3>1. /\ s \o t \in Seq(Cells) /\ <<d>> \in Seq(Cells)
          /\ Append(s \o t, d) = (s \o t) \o <<d>> /\ Append(t, d) = t \o <<d>>
      BY AppendIsConcat, ConcatProperties
    <3> QED
      BY <3>1, ConcatAssociative
  <2> QED
    BY <2>3, <2>4, <2>7, <2>8, <2>9
<1> QED
  BY <1>1, <1>2, <1>4, <1>5, <1>9, <1>10


LEMMA StoreStep ==
  ASSUME LInv, NEW c \in Plain \union {"return", "newline", "eof"}, Store(c) PROVE Implements
<1>0. TypeOK /\ LineInv
  BY DEF LInv
<1>1. PICK d \in Plain \union Whole : d = Stored(c)
  BY DEF Stored, Whole
<1>2. /\ Minus(e, r) < SIZE /\ cbuf' = [cbuf EXCEPT ![e % SIZE] = d] /\ e' = Plus(e, 1)
      /\ r' = r /\ got' = got
      /\ IF d \in Whole \/ Minus(e', r) = SIZE
         THEN w' = e' /\ rpc' = Wake ELSE w' = w /\ rpc' = rpc
  BY <1>1 DEF Store, Whole
<1>3. d \in Cells
  BY DEF Cells, Whole
<1>4. Ready \in Seq(Cells) /\ Line \in Seq(Cells)
  BY <1>0, RingType
<1>5. PICK s \in Seq(Cells), t \in Seq(Cells) : s = Ready /\ t = Line
  BY <1>4
<1>6. /\ Minus(e, r) = Len(s) + Len(t) /\ Minus(e', r) = Len(s) + Len(t) + 1
      /\ w' = w => /\ Line' = Append(t, d) /\ Ready' = s
                   /\ Minus(e, w)' = Len(t) + 1 /\ Minus(w, r)' = Len(s)
      /\ w' = e' => /\ Line' = <<>> /\ Ready' = s \o Append(t, d)
                    /\ Minus(e, w)' = 0 /\ Minus(w, r)' = Len(s) + Len(t) + 1
  BY <1>2, <1>3, <1>5, Lengthen
<1>7. /\ Append(t, d) \in Seq(Cells) /\ Len(Append(t, d)) = Len(t) + 1
      /\ \A i \in 1 .. Len(t) : Append(t, d)[i] = t[i]
      /\ Append(t, d)[Len(t) + 1] = d
  BY <1>3, AppendProperties
<1>8. Len(s) \in Nat /\ Len(t) \in Nat /\ SIZE \in Nat /\ Len(s) + Len(t) < SIZE
  BY <1>2, <1>6, ConsoleAssumption
<1>9. \A p \in Readers : rpc'[p] # "idle" => rpc[p] # "idle"
  BY <1>2 DEF Wake
<1>10. GotInv'
  BY <1>2, <1>9, GotKept
<1>11. CASE d \in Whole \/ Minus(e', r) = SIZE
  <2>1. /\ Line' = <<>> /\ Ready' = s \o Append(t, d)
        /\ Minus(e, w)' = 0 /\ Minus(w, r)' = Len(s) + Len(t) + 1
    BY <1>2, <1>6, <1>11
  <2>2. d \in Whole \/ Len(s) + Len(Append(t, d)) = SIZE
    BY <1>6, <1>7, <1>8, <1>11
  <2>3. Terminal!Next
    BY <1>2, <1>5, <1>8, <2>1, <2>2, AsType
  <2>4. BufInv'
    BY <1>8, <2>1 DEF BufInv
  <2>5. LineInv'
    <3> HIDE DEF Line
    <3> QED
      BY <2>1 DEF LineInv
  <2> QED
    BY <1>10, <2>3, <2>4, <2>5 DEF Implements
<1>12. CASE ~ (d \in Whole \/ Minus(e', r) = SIZE)
  <2>1. /\ Line' = Append(t, d) /\ Ready' = s
        /\ Minus(e, w)' = Len(t) + 1 /\ Minus(w, r)' = Len(s)
    BY <1>2, <1>6, <1>12
  <2>2. ~ (d \in Whole \/ Len(s) + Len(Append(t, d)) = SIZE)
    BY <1>6, <1>7, <1>8, <1>12
  <2>3. Terminal!Next
    BY <1>2, <1>5, <1>8, <2>1, <2>2, AsType
  <2>4. BufInv'
    BY <1>8, <2>1 DEF BufInv
  <2>5. LineInv'
    <3>1. Len(t) = Minus(e, w)
      BY <1>0, <1>5, RingType
    <3>2. ASSUME NEW i \in 1 .. Len(t) + 1 PROVE Append(t, d)[i] \notin Whole
      <4>1. CASE i = Len(t) + 1
        BY <1>7, <1>12, <4>1
      <4>2. CASE i # Len(t) + 1
        <5>1. i \in 1 .. Len(t)
          BY <1>8, <4>2
        <5>2. t[i] \notin Whole
          BY <1>0, <1>5, <3>1, <5>1 DEF LineInv
        <5> QED
          BY <1>7, <5>1, <5>2
      <4> QED
        BY <4>1, <4>2
    <3> HIDE DEF Line
    <3> QED
      BY <2>1, <3>2 DEF LineInv
  <2> QED
    BY <1>10, <2>3, <2>4, <2>5 DEF Implements
<1> QED
  BY <1>11, <1>12

-----------------------------------------------------------------------------
LEMMA TerminalStep ==
  ASSUME IInv, LInv, [Next]_vars
  PROVE  LInv' /\ [Terminal!Next]_<<Line, Ready, got>>
<1>1. TypeOK'
  BY TypeOKStep DEF IInv
<1>2. SUFFICES Implements \/ (UNCHANGED <<Line, Ready, got>> /\ BufInv' /\ LineInv' /\ GotInv')
  BY <1>1 DEF LInv, Implements
<1>3. ASSUME NEW p \in Readers, Reader(p) PROVE Implements \/ Kill(p)
  BY <1>1, <1>3, BeginStep, LineStep, EofStep, WaitStep, FaultStep DEF Reader
<1>4. ASSUME NEW p \in Readers, Kill(p)
      PROVE  UNCHANGED <<Line, Ready, got>> /\ BufInv' /\ LineInv' /\ GotInv'
  <2>1. UNCHANGED <<consVars, got>>
    BY <1>4 DEF Kill
  <2>2. \A q \in Readers : rpc'[q] # "idle" => rpc[q] # "idle"
    BY <1>4 DEF Kill, LInv, TypeOK
  <2> QED
    BY <2>1, <2>2, OtherSteps
<1>5. CASE \E p \in Readers : Reader(p)
  BY <1>3, <1>4, <1>5
<1>6. CASE KillLine \/ (Erase /\ e # w)
             \/ \E c \in Plain \union {"return", "newline", "eof"} : Store(c)
  BY <1>6, KillLineStep, EraseStep, StoreStep
<1>7. CASE UNCHANGED <<consVars, readerVars>>
  <2>1. UNCHANGED <<consVars, got>> /\ rpc' = rpc
    BY <1>7 DEF readerVars
  <2> QED
    BY <2>1, OtherSteps
<1>8. Receive \/ Drop \/ EchoDone \/ IntrReturn => UNCHANGED <<consVars, readerVars>>
  BY DEF Receive, Drop, EchoDone, IntrReturn
<1>9. Erase /\ e = w => UNCHANGED <<consVars, readerVars>>
  BY DEF Erase, consVars
<1>10. UNCHANGED vars => UNCHANGED <<consVars, readerVars>>
  BY DEF vars
<1> QED
  BY <1>5, <1>6, <1>7, <1>8, <1>9, <1>10 DEF Next, Input

LEMMA TerminalInit ==
  ASSUME Init PROVE LInv /\ Terminal!Init
<1>1. TypeOK
  BY InitIInv DEF IInv
<1>2. /\ r = 0 /\ w = 0 /\ e = 0 /\ rpc = [p \in Readers |-> "idle"]
      /\ got = [p \in Readers |-> <<>>]
  BY DEF Init
<1>3. Minus(0, 0) = 0
  BY DistanceZero, ConsoleAssumption
<1>4. \A x : Slice(x, 0) = <<>>
  BY DEF Slice
<1>5. Line = <<>> /\ Ready = <<>>
  BY <1>2, <1>3, <1>4 DEF Line, Ready
<1>6. BufInv /\ LineInv /\ GotInv
  BY <1>2, <1>3, ConsoleAssumption DEF BufInv, LineInv, GotInv
<1> QED
  BY <1>1, <1>2, <1>5, <1>6 DEF LInv, Terminal!Init, Line

(* The console is a terminal, for any number of readers and any buffer:    *)
(* what is typed can be edited until its line ends, and then each          *)
(* character goes to one read(), in order, through the ring of cons.buf    *)
(* and across the wrap of its counters; the ^D that ends a read() with     *)
(* something makes the next one empty.                                     *)
THEOREM LinesAreRead == Spec => LinesRead
<1>1. Init => LInv /\ Terminal!Init
  BY TerminalInit
<1>2. IInv /\ LInv /\ [Next]_vars => LInv' /\ [Terminal!Next]_<<Line, Ready, got>>
  BY TerminalStep
<1>3. Spec => Terminal!Init /\ [][Terminal!Next]_<<Line, Ready, got>>
  BY <1>1, <1>2, Invariance, PTL DEF Spec
<1> QED
  BY <1>3 DEF LinesRead, Terminal!TtySpec, Line
=============================================================================
