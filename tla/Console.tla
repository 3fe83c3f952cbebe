------------------------------ MODULE Console ------------------------------
(***************************************************************************)
(* The console, kernel/console.c: input from uartintr() through the line   *)
(* editing of consoleintr() to the processes in consoleread(), with its    *)
(* echo, on the same port as the output of Uart.                           *)
(*                                                                         *)
(* consoleread() is one step from acquire() to sleep() or to its end;      *)
(* consoleintr() holds cons.lock until it has echoed.  ^P and NUL change   *)
(* nothing.                                                                *)
(***************************************************************************)
EXTENDS Uart, Sequences, FiniteSets

CONSTANTS
  Readers,
  Plain,    \* characters without a meaning to consoleintr()
  SIZE,     \* INPUT_BUF_SIZE
  UINT,     \* the range of cons.r, cons.w and cons.e, 2^32
  Sizes,    \* bound: what processes read() at a time
  MaxRx     \* bound: characters in the port's receive FIFO

ASSUME ConsoleAssumption ==
  /\ SIZE \in Nat \ {0} /\ UINT \in Nat /\ UINT > SIZE /\ UINT % SIZE = 0
  /\ Sizes \subseteq Nat \ {0} /\ MaxRx \in Nat

Cells == Plain \union {"newline", "eof", "none"}

VARIABLES
  cbuf, r, w, e,  \* cons
  rx,             \* characters in the port's receive FIFO
  rpc,            \* where each reader is
  n,              \* its n
  got,            \* what it has copied out
  killed

consVars   == <<cbuf, r, w, e>>
readerVars == <<rpc, n, got, killed>>
vars == <<uartVars, consVars, rx, readerVars>>

TypeOK ==
  /\ UartTypeOK
  /\ cbuf \in [0 .. SIZE - 1 -> Cells]
  /\ {r, w, e} \subseteq 0 .. UINT - 1
  /\ rx \in 0 .. MaxRx
  /\ rpc \in [Readers -> {"idle", "loop", "asleep"}]
  /\ n \in [Readers -> Nat]
  /\ got \in [Readers -> Seq(Cells)]
  /\ killed \in [Readers -> BOOLEAN]

Init ==
  /\ UartInit
  /\ cbuf = [i \in 0 .. SIZE - 1 |-> "none"]
  /\ r = 0 /\ w = 0 /\ e = 0
  /\ rx = 0
  /\ rpc = [p \in Readers |-> "idle"]
  /\ n = [p \in Readers |-> 0]
  /\ got = [p \in Readers |-> <<>>]
  /\ killed = [p \in Readers |-> FALSE]

(* Differences and sums of the counters, which are unsigned.               *)
Minus(x, y) == (x + UINT - y) % UINT
Plus(x, y)  == (x + y) % UINT

-----------------------------------------------------------------------------
(* Somebody types; what, shows when uartgetc() takes it.                   *)
Receive ==
  /\ rx < MaxRx
  /\ rx' = rx + 1
  /\ UNCHANGED <<uartVars, consVars, readerVars>>

(* uartgetc() gives consoleintr() a character, which it echoes with k.     *)
GetC(k) ==
  /\ hpc = "rx" /\ rx > 0
  /\ rx' = rx - 1
  /\ echo' = k /\ hpc' = "echo"
  /\ UNCHANGED <<fifo, thri, writerVars, printing>>

(* ^U: back to the start of the line, three characters of echo for each.   *)
KillLine ==
  LET back == {j \in 0 .. Minus(e, w) :
                 \A i \in 1 .. j : cbuf[Minus(e, i) % SIZE] # "newline"}
      j == CHOOSE j \in back : \A i \in back : i <= j
  IN /\ GetC(3 * j)
     /\ e' = Minus(e, j)
     /\ UNCHANGED <<cbuf, r, w, readerVars>>

(* ^H and DEL, not beyond the start of the line.                           *)
Erase ==
  /\ GetC(IF e # w THEN 3 ELSE 0)
  /\ e' = IF e # w THEN Minus(e, 1) ELSE e
  /\ UNCHANGED <<cbuf, r, w, readerVars>>

Wake == [p \in Readers |-> IF rpc[p] = "asleep" THEN "loop" ELSE rpc[p]]

Stored(c) == IF c = "return" THEN "newline" ELSE c

(* Mistake: only the end of a line wakes the readers.                      *)
StoreFullSilent(c) ==
  /\ Minus(e, r) < SIZE /\ GetC(1)
  /\ cbuf' = [cbuf EXCEPT ![e % SIZE] = Stored(c)]
  /\ e' = Plus(e, 1)
  /\ w' = IF Stored(c) \in {"newline", "eof"} \/ Minus(Plus(e, 1), r) = SIZE
          THEN Plus(e, 1) ELSE w
  /\ rpc' = IF Stored(c) \in {"newline", "eof"} THEN Wake ELSE rpc
  /\ UNCHANGED <<r, n, got, killed>>

(* Any other character is stored; the end of a line, or a full buffer,     *)
(* makes it all ready and wakes the readers.  The code echoes it before;   *)
(* no reader can tell, for cons.lock is held from here to EchoDone.        *)
Store(c) ==
  /\ Minus(e, r) < SIZE /\ GetC(1)
  /\ cbuf' = [cbuf EXCEPT ![e % SIZE] = Stored(c)]
  /\ e' = Plus(e, 1)
  /\ IF Stored(c) \in {"newline", "eof"} \/ Minus(Plus(e, 1), r) = SIZE
     THEN w' = Plus(e, 1) /\ rpc' = Wake
     ELSE UNCHANGED <<w, rpc>>
  /\ UNCHANGED <<r, n, got, killed>>

(* No room.                                                                *)
Drop ==
  /\ Minus(e, r) = SIZE /\ GetC(0)
  /\ UNCHANGED <<consVars, readerVars>>

EchoDone ==
  /\ hpc = "echo" /\ echo = 0
  /\ hpc' = "rx"
  /\ UNCHANGED <<fifo, thri, writerVars, printing, echo, consVars, rx, readerVars>>

IntrReturn ==
  /\ hpc = "rx" /\ rx = 0
  /\ hpc' = "idle"
  /\ UNCHANGED <<fifo, thri, writerVars, printing, echo, consVars, rx, readerVars>>

-----------------------------------------------------------------------------
Read(p, k) ==
  /\ rpc[p] = "idle"
  /\ rpc' = [rpc EXCEPT ![p] = "loop"]
  /\ n' = [n EXCEPT ![p] = k]
  /\ got' = [got EXCEPT ![p] = <<>>]
  /\ UNCHANGED <<uartVars, consVars, rx, killed>>

(* What is ready, and how much of it the loop copies before it stops: at   *)
(* the end of the line, before ^D, or with n characters.                   *)
Slice(from, len) == [i \in 1 .. len |-> cbuf[(from + i - 1) % SIZE]]
Ready == Slice(r, Minus(w, r))
CanCopy(p) == {k \in 0 .. Len(Ready) :
  /\ k <= n[p]
  /\ \A i \in 1 .. k : Ready[i] # "eof" /\ (i < k => Ready[i] # "newline")}
Copied(p) == CHOOSE k \in CanCopy(p) : \A j \in CanCopy(p) : j <= k

Copy(p, k) ==
  /\ got' = [got EXCEPT ![p] = @ \o SubSeq(Ready, 1, k)]
  /\ n' = [n EXCEPT ![p] = @ - k]

AtEnd(p)  == \/ Copied(p) = n[p]
             \/ Copied(p) > 0 /\ Ready[Copied(p)] = "newline"
AtEof(p)  == ~ AtEnd(p) /\ Copied(p) < Len(Ready)
AtVoid(p) == ~ AtEnd(p) /\ Copied(p) = Len(Ready)

(* consoleintr() has cons.lock while it echoes.                            *)
InLoop(p) == rpc[p] = "loop" /\ hpc \notin {"echo", "put"}

(* A process that was killed exits, and another takes its place.           *)
Return(p) ==
  /\ rpc' = [rpc EXCEPT ![p] = "idle"]
  /\ killed' = [killed EXCEPT ![p] = FALSE]

(* Mistake: the ^D is always taken.                                        *)
ReadEofTaken(p) ==
  /\ InLoop(p) /\ AtEof(p)
  /\ Copy(p, Copied(p))
  /\ r' = Plus(r, Copied(p) + 1)
  /\ Return(p)
  /\ UNCHANGED <<uartVars, cbuf, w, e, rx>>

(* A whole line, or n characters.                                          *)
ReadLine(p) ==
  /\ InLoop(p) /\ AtEnd(p)
  /\ Copy(p, Copied(p))
  /\ r' = Plus(r, Copied(p))
  /\ Return(p)
  /\ UNCHANGED <<uartVars, cbuf, w, e, rx>>

(* ^D: it is put back if this read() has something (n < target).           *)
ReadEof(p) ==
  /\ InLoop(p) /\ AtEof(p)
  /\ Copy(p, Copied(p))
  /\ r' = IF got'[p] # <<>> THEN Plus(r, Copied(p)) ELSE Plus(r, Copied(p) + 1)
  /\ Return(p)
  /\ UNCHANGED <<uartVars, cbuf, w, e, rx>>

(* Nothing is left: -1 for a process that was killed, or sleep().  kkill() *)
(* does not take cons.lock, and may come between the test and sleep().     *)
ReadWait(p) ==
  /\ InLoop(p) /\ AtVoid(p)
  /\ Copy(p, Copied(p))
  /\ r' = Plus(r, Copied(p))
  /\ \/ killed[p] /\ Return(p)
     \/ /\ ~ killed[p]
        /\ rpc' = [rpc EXCEPT ![p] = "asleep"]
        /\ \E k \in BOOLEAN : killed' = [killed EXCEPT ![p] = k]
  /\ UNCHANGED <<uartVars, cbuf, w, e, rx>>

(* either_copyout() fails, and the character is lost.                      *)
ReadFault(p) ==
  /\ InLoop(p)
  /\ \E k \in 0 .. Copied(p) - 1 : Copy(p, k) /\ r' = Plus(r, k + 1)
  /\ Return(p)
  /\ UNCHANGED <<uartVars, cbuf, w, e, rx>>

Kill(p) ==
  /\ rpc[p] # "idle"
  /\ killed' = [killed EXCEPT ![p] = TRUE]
  /\ rpc' = [rpc EXCEPT ![p] = IF @ = "asleep" THEN "loop" ELSE @]
  /\ UNCHANGED <<uartVars, consVars, rx, n, got>>

-----------------------------------------------------------------------------
Input ==
  \/ Receive
  \/ KillLine \/ Erase \/ Drop
  \/ \E c \in Plain \union {"return", "newline", "eof"} : Store(c)
  \/ EchoDone \/ IntrReturn

Reader(p) ==
  \/ \E k \in Sizes : Read(p, k)
  \/ ReadLine(p) \/ ReadEof(p) \/ ReadWait(p) \/ ReadFault(p)
  \/ Kill(p)

Next ==
  \/ Input
  \/ \E p \in Readers : Reader(p)
  \/ (Output \/ IntrAck(rx > 0)) /\ UNCHANGED <<consVars, rx, readerVars>>

Spec == Init /\ [][Next]_vars

-----------------------------------------------------------------------------
Terminal == INSTANCE Tty WITH
  line <- Slice(w, Minus(e, w)), ready <- Ready

(* A line can be edited until it ends, and each character then goes to one *)
(* read(), in order, which ends with the line; ^D makes one empty read(),  *)
(* "to make sure caller gets a 0-byte result" (console.c:107).             *)
LinesRead == Terminal!TtySpec

(* A reader sleeps only while nothing is ready, so consoleintr() misses    *)
(* none when it moves cons.w.                                              *)
ReaderWoken == TypeOK /\ \A p \in Readers : rpc[p] = "asleep" => r = w
=============================================================================
