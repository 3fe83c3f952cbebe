-------------------------------- MODULE Uart --------------------------------
(***************************************************************************)
(* Output through the serial port, kernel/uart.c of w3: uartwrite(), which *)
(* waits for an interrupt after each character; uartputc_sync(), which     *)
(* waits for the port to be idle; and uartintr()'s part for output.        *)
(*                                                                         *)
(* The port is idle when its transmit FIFO is empty, and interrupts when   *)
(* it becomes empty.  printf() holds pr.lock, so one process prints at a   *)
(* time; the interrupt handler echoes beside it.                           *)
(***************************************************************************)
EXTENDS Naturals

CONSTANTS
  Writers,  \* processes that write() to the console
  MaxWrite  \* bound: characters of a write()

ASSUME UartAssumption == MaxWrite \in Nat

VARIABLES
  fifo,     \* characters in the port
  thri,     \* its interrupt: the FIFO has become empty
  txBusy,
  wpc,      \* where each writer is
  left,     \* characters it has still to write
  printing, \* printf() has seen the port idle and not yet written
  hpc,      \* where uartintr() is
  echo      \* characters that consoleintr() has still to echo

writerVars == <<txBusy, wpc, left>>
uartVars   == <<fifo, thri, writerVars, printing, hpc, echo>>

UartTypeOK ==
  /\ fifo \in Nat /\ thri \in BOOLEAN /\ txBusy \in BOOLEAN /\ printing \in BOOLEAN
  /\ wpc \in [Writers -> {"idle", "write", "asleep"}]
  /\ left \in [Writers -> 0 .. MaxWrite]
  /\ hpc \in {"idle", "tx", "rx", "echo", "put"}
  /\ echo \in Nat

UartInit ==
  /\ fifo = 0 /\ thri = FALSE /\ txBusy = FALSE
  /\ wpc = [p \in Writers |-> "idle"]
  /\ left = [p \in Writers |-> 0]
  /\ printing = FALSE /\ hpc = "idle" /\ echo = 0

-----------------------------------------------------------------------------
Write(p, n) ==
  /\ wpc[p] = "idle"
  /\ wpc' = [wpc EXCEPT ![p] = "write"]
  /\ left' = [left EXCEPT ![p] = n]
  /\ UNCHANGED <<fifo, thri, txBusy, printing, hpc, echo>>

(* uartwrite(): a character, with tx_lock; after it the port is busy, and  *)
(* the loop either ends or sleeps.                                         *)
WriteChar(p) ==
  /\ wpc[p] = "write" /\ ~ txBusy
  /\ fifo' = fifo + 1
  /\ txBusy' = TRUE
  /\ left' = [left EXCEPT ![p] = @ - 1]
  /\ wpc' = [wpc EXCEPT ![p] = IF left[p] = 1 THEN "idle" ELSE "asleep"]
  /\ UNCHANGED <<thri, printing, hpc, echo>>

WriteSleep(p) ==
  /\ wpc[p] = "write" /\ txBusy
  /\ wpc' = [wpc EXCEPT ![p] = "asleep"]
  /\ UNCHANGED <<fifo, thri, txBusy, left, printing, hpc, echo>>

(* uartputc_sync() for printf().                                           *)
PrintWait ==
  /\ ~ printing /\ fifo = 0
  /\ printing' = TRUE
  /\ UNCHANGED <<fifo, thri, writerVars, hpc, echo>>

PrintPut ==
  /\ printing
  /\ printing' = FALSE /\ fifo' = fifo + 1
  /\ UNCHANGED <<thri, writerVars, hpc, echo>>

(* The port sends a character.                                             *)
Transmit ==
  /\ fifo > 0
  /\ fifo' = fifo - 1
  /\ thri' = (thri \/ fifo = 1)
  /\ UNCHANGED <<writerVars, printing, hpc, echo>>

(* uartintr(): reading ISR acknowledges the interrupt.                     *)
IntrAck(received) ==
  /\ hpc = "idle" /\ (thri \/ received)
  /\ thri' = FALSE
  /\ hpc' = "tx"
  /\ UNCHANGED <<fifo, writerVars, printing, echo>>

(* Mistake: only the flag is cleared.                                      *)
IntrTxSilent ==
  /\ hpc = "tx"
  /\ txBusy' = (txBusy /\ fifo # 0)
  /\ hpc' = "rx"
  /\ UNCHANGED <<fifo, thri, wpc, left, printing, echo>>

(* An idle port has sent what it had: a writer may go on.                  *)
IntrTx ==
  /\ hpc = "tx"
  /\ IF fifo = 0
     THEN /\ txBusy' = FALSE
          /\ wpc' = [p \in Writers |-> IF wpc[p] = "asleep" THEN "write" ELSE wpc[p]]
     ELSE UNCHANGED <<txBusy, wpc>>
  /\ hpc' = "rx"
  /\ UNCHANGED <<fifo, thri, left, printing, echo>>

(* uartputc_sync() for consputc(), in consoleintr().                       *)
EchoWait ==
  /\ hpc = "echo" /\ echo > 0 /\ fifo = 0
  /\ hpc' = "put"
  /\ UNCHANGED <<fifo, thri, writerVars, printing, echo>>

EchoPut ==
  /\ hpc = "put"
  /\ fifo' = fifo + 1 /\ echo' = echo - 1
  /\ hpc' = "echo"
  /\ UNCHANGED <<thri, writerVars, printing>>

Output ==
  \/ \E p \in Writers : WriteChar(p) \/ WriteSleep(p) \/ \E n \in 1 .. MaxWrite : Write(p, n)
  \/ PrintWait \/ PrintPut \/ Transmit
  \/ IntrTx \/ EchoWait \/ EchoPut

-----------------------------------------------------------------------------
(* A writer that sleeps will be woken: the port is busy, and has something *)
(* to send, or its interrupt is on the way; so uartputc_sync(), which uses *)
(* the port without tx_lock and tx_busy, takes no wakeup from uartwrite(). *)
WriterWoken ==
  /\ \A p \in Writers : wpc[p] = "asleep" => txBusy
  /\ txBusy => fifo > 0 \/ thri \/ hpc = "tx"

(* Nothing overruns the port: uartwrite() does not look at LSR, and both   *)
(* users of uartputc_sync() may have seen it idle before, but each adds at *)
(* most one character.                                                     *)
PortFits == fifo <= 3

(* So tx_lock and tx_busy are enough, beside the users that take neither.  *)
PortShared == WriterWoken /\ PortFits
=============================================================================
