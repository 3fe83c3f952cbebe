------------------------------ MODULE AtomicFs ------------------------------
(***************************************************************************)
(* What the log promises to the file system code above it: the updates of  *)
(* a group of system calls reach the disk together, only when none of them *)
(* is still running, and a crash leaves exactly what the last group left.  *)
(*                                                                         *)
(* `current` is what a bread() returns, `stable` is what a reboot would    *)
(* find, `active` are the system calls between begin_op() and end_op().    *)
(***************************************************************************)
CONSTANTS Blocks, Vals, Procs

VARIABLES stable, current, active

afsVars == <<stable, current, active>>

AInit == /\ stable \in [Blocks -> Vals]
         /\ current = stable
         /\ active = {}

ABegin(p) == /\ p \notin active
             /\ active' = active \union {p}
             /\ UNCHANGED <<stable, current>>

(* Only a system call inside a transaction changes the file system. *)
AWrite(p) == /\ p \in active
             /\ \E b \in Blocks, v \in Vals : current' = [current EXCEPT ![b] = v]
             /\ UNCHANGED <<stable, active>>

AEnd(p) == /\ p \in active
           /\ active' = active \ {p}
           /\ UNCHANGED <<stable, current>>

(* The commit point: everything or nothing, and nobody half-way through. *)
ACommit == /\ active = {}
           /\ stable' = current
           /\ UNCHANGED <<current, active>>

ACrash == /\ current' = stable
          /\ active' = {}
          /\ UNCHANGED stable

ANext == \/ \E p \in Procs : ABegin(p) \/ AWrite(p) \/ AEnd(p)
         \/ ACommit
         \/ ACrash

ASpec == AInit /\ [][ANext]_afsVars
=============================================================================
