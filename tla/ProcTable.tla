----------------------------- MODULE ProcTable -----------------------------
(***************************************************************************)
(* Processes of kernel/proc.c: the process table, fork, exit, wait, kill,  *)
(* sleep, wakeup and the per-CPU schedulers, on several CPUs.              *)
(*                                                                         *)
(* A critical section under a single p->lock is one step, taken when that  *)
(* lock is free.  p->lock is held across steps only while p gives up its   *)
(* CPU: from the change of p->state in yield(), sleep() or kexit(), over   *)
(* sched() and swtch(), until the scheduler releases it (plock).           *)
(* wait_lock, held over many steps, has its holder in waitlock.  An action *)
(* named after a process is a step of its kernel thread and needs a CPU.   *)
(***************************************************************************)
EXTENDS Naturals, FiniteSets

CONSTANTS Slots,    \* entries of proc[NPROC]
          init,     \* initproc
          CPUs,     \* harts
          None      \* no process: a null pointer, or lock not held

ASSUME ProcAssumption ==
  /\ init \in Slots
  /\ None \notin Slots
  /\ "ticks" \notin Slots \union {None}

VARIABLES
  state,    \* p->state
  parent,   \* p->parent
  killed,   \* p->killed
  chan,     \* p->chan: the sleeper itself (wait), or &ticks (pause)
  plock,    \* p->lock is held by p itself, which is leaving its CPU
  pc,       \* where p's kernel thread is, or will continue
  child,    \* np in p's kfork()
  run,      \* the process whose kernel stack a CPU is on (c->proc)
  waitlock  \* holder of wait_lock

vars == <<state, parent, killed, chan, plock, pc, child, run, waitlock>>

(* Points of the kernel where a process holds no spinlock; a timer         *)
(* interrupt may preempt it there.                                         *)
Preemptible == {"user", "f_parent", "f_run", "w_lock", "e_lock"}

TypeOK ==
  /\ state \in [Slots -> {"UNUSED", "USED", "SLEEPING", "RUNNABLE", "RUNNING", "ZOMBIE"}]
  /\ parent \in [Slots -> Slots \union {None}]
  /\ killed \in [Slots -> BOOLEAN]
  /\ chan \in [Slots -> Slots \union {None, "ticks"}]
  /\ plock \in [Slots -> BOOLEAN]
  /\ pc \in [Slots -> Preemptible \union
               {"p_sleep", "w_scan", "w_sleep", "e_reparent", "e_wake", "e_zombie", "dead"}]
  /\ child \in [Slots -> Slots \union {None}]
  /\ run \in [CPUs -> Slots \union {None}]
  /\ waitlock \in Slots \union {None}
  /\ \A p \in Slots : state[p] = "SLEEPING" => chan[p] # None

OnCpu(p) == \E c \in CPUs : run[c] = p
Runs(p)  == OnCpu(p) /\ ~plock[p]
Children(p) == {q \in Slots : parent[q] = p}
ZombieChildren(p) == {q \in Children(p) : state[q] = "ZOMBIE"}

-----------------------------------------------------------------------------
(* userinit(): the first process, runnable; all CPUs in scheduler().       *)
Init ==
  /\ state = [p \in Slots |-> IF p = init THEN "RUNNABLE" ELSE "UNUSED"]
  /\ parent = [p \in Slots |-> None]
  /\ killed = [p \in Slots |-> FALSE]
  /\ chan = [p \in Slots |-> None]
  /\ plock = [p \in Slots |-> FALSE]
  /\ pc = [p \in Slots |-> "user"]
  /\ child = [p \in Slots |-> None]
  /\ run = [c \in CPUs |-> None]
  /\ waitlock = None

-----------------------------------------------------------------------------
(* Scheduling. *)

(* scheduler() picks a runnable process; the process resumes behind its    *)
(* sched() (or in forkret()), clears chan and releases its lock.           *)
Dispatch(c, p) ==
  /\ run[c] = None
  /\ ~plock[p] /\ state[p] = "RUNNABLE"
  /\ run' = [run EXCEPT ![c] = p]
  /\ state' = [state EXCEPT ![p] = "RUNNING"]
  /\ chan' = [chan EXCEPT ![p] = None]
  /\ UNCHANGED <<parent, killed, plock, pc, child, waitlock>>

(* The process has saved its context and is off its kernel stack: the      *)
(* scheduler clears c->proc and releases the lock the process took.        *)
SwitchedOff(c) ==
  /\ run[c] # None /\ plock[run[c]]
  /\ plock' = [plock EXCEPT ![run[c]] = FALSE]
  /\ run' = [run EXCEPT ![c] = None]
  /\ UNCHANGED <<state, parent, killed, chan, pc, child, waitlock>>

(* Mistake: the lock is released before the context is saved. *)
YieldUnlocked(p) ==
  /\ Runs(p) /\ pc[p] \in Preemptible
  /\ state' = [state EXCEPT ![p] = "RUNNABLE"]
  /\ UNCHANGED <<parent, killed, chan, plock, pc, child, run, waitlock>>

(* yield(), from a timer interrupt. *)
Yield(p) ==
  /\ Runs(p) /\ pc[p] \in Preemptible
  /\ state' = [state EXCEPT ![p] = "RUNNABLE"]
  /\ plock' = [plock EXCEPT ![p] = TRUE]
  /\ UNCHANGED <<parent, killed, chan, pc, child, run, waitlock>>

(* wakeup(ch), as far as process q is concerned. *)
Woken(q, ch) == [state EXCEPT ![q] = IF @ = "SLEEPING" /\ chan[q] = ch THEN "RUNNABLE" ELSE @]

-----------------------------------------------------------------------------
(* sys_pause() and the clock. *)

(* sys_pause() under tickslock: p->killed is not set, so sleep. *)
PauseCall(p) ==
  /\ Runs(p) /\ pc[p] = "user" /\ ~killed[p]
  /\ pc' = [pc EXCEPT ![p] = "p_sleep"]
  /\ UNCHANGED <<state, parent, killed, chan, plock, child, run, waitlock>>

(* sleep(&ticks, &tickslock); once woken, the process returns to user      *)
(* space or calls again.                                                   *)
PauseSleep(p) ==
  /\ Runs(p) /\ pc[p] = "p_sleep"
  /\ pc' = [pc EXCEPT ![p] = "user"]
  /\ state' = [state EXCEPT ![p] = "SLEEPING"]
  /\ chan' = [chan EXCEPT ![p] = "ticks"]
  /\ plock' = [plock EXCEPT ![p] = TRUE]
  /\ UNCHANGED <<parent, killed, child, run, waitlock>>

(* clockintr()'s wakeup(&ticks). *)
Tick(q) ==
  /\ ~plock[q] /\ state[q] = "SLEEPING" /\ chan[q] = "ticks"
  /\ state' = Woken(q, "ticks")
  /\ UNCHANGED <<parent, killed, chan, plock, pc, child, run, waitlock>>

-----------------------------------------------------------------------------
(* kfork(). *)

(* allocproc() and the copying, up to the first release of np->lock.       *)
ForkAlloc(p, q) ==
  /\ Runs(p) /\ pc[p] = "user"
  /\ state[q] = "UNUSED"
  /\ state' = [state EXCEPT ![q] = "USED"]
  /\ child' = [child EXCEPT ![p] = q]
  /\ pc' = [pc EXCEPT ![p] = "f_parent", ![q] = "user"]
  /\ UNCHANGED <<parent, killed, chan, plock, run, waitlock>>

(* kalloc(), proc_pagetable() or uvmcopy() fails: freeproc() cleans the    *)
(* slot, kfork() returns -1.                                               *)
ForkFail(p, q) ==
  /\ Runs(p) /\ pc[p] = "user"
  /\ state[q] = "UNUSED"
  /\ killed' = [killed EXCEPT ![q] = FALSE]
  /\ UNCHANGED <<state, parent, chan, plock, pc, child, run, waitlock>>

(* acquire(&wait_lock); np->parent = p; release(&wait_lock). *)
ForkParent(p) ==
  /\ Runs(p) /\ pc[p] = "f_parent" /\ waitlock = None
  /\ parent' = [parent EXCEPT ![child[p]] = p]
  /\ pc' = [pc EXCEPT ![p] = "f_run"]
  /\ UNCHANGED <<state, killed, chan, plock, child, run, waitlock>>

ForkRunnable(p) ==
  /\ Runs(p) /\ pc[p] = "f_run"
  /\ state' = [state EXCEPT ![child[p]] = "RUNNABLE"]
  /\ child' = [child EXCEPT ![p] = None]
  /\ pc' = [pc EXCEPT ![p] = "user"]
  /\ UNCHANGED <<parent, killed, chan, plock, run, waitlock>>

-----------------------------------------------------------------------------
(* kwait(). *)

WaitCall(p) ==
  /\ Runs(p) /\ pc[p] = "user"
  /\ pc' = [pc EXCEPT ![p] = "w_lock"]
  /\ UNCHANGED <<state, parent, killed, chan, plock, child, run, waitlock>>

(* acquire(&wait_lock), on entry and at the end of sleep(). *)
WaitLock(p) ==
  /\ Runs(p) /\ pc[p] = "w_lock" /\ waitlock = None
  /\ waitlock' = p
  /\ pc' = [pc EXCEPT ![p] = "w_scan"]
  /\ UNCHANGED <<state, parent, killed, chan, plock, child, run>>

(* Mistake: the child's lock is not taken, it may still be in swtch(). *)
WaitReapUnlocked(p, q) ==
  /\ Runs(p) /\ pc[p] = "w_scan"
  /\ q \in ZombieChildren(p)
  /\ state' = [state EXCEPT ![q] = "UNUSED"]
  /\ parent' = [parent EXCEPT ![q] = None]
  /\ killed' = [killed EXCEPT ![q] = FALSE]
  /\ chan' = [chan EXCEPT ![q] = None]
  /\ waitlock' = None
  /\ pc' = [pc EXCEPT ![p] = "user"]
  /\ UNCHANGED <<plock, child, run>>

(* The scan finds a zombie that is off its CPU (its lock is free):         *)
(* freeproc() and return.                                                  *)
WaitReap(p, q) ==
  /\ Runs(p) /\ pc[p] = "w_scan"
  /\ q \in ZombieChildren(p) /\ ~plock[q]
  /\ state' = [state EXCEPT ![q] = "UNUSED"]
  /\ parent' = [parent EXCEPT ![q] = None]
  /\ killed' = [killed EXCEPT ![q] = FALSE]
  /\ chan' = [chan EXCEPT ![q] = None]
  /\ waitlock' = None
  /\ pc' = [pc EXCEPT ![p] = "user"]
  /\ UNCHANGED <<plock, child, run>>

(* The caller's status pointer is bad: copyout() fails, -1, nothing freed. *)
WaitBadAddr(p, q) ==
  /\ Runs(p) /\ pc[p] = "w_scan" /\ p # init
  /\ q \in ZombieChildren(p) /\ ~plock[q]
  /\ waitlock' = None
  /\ pc' = [pc EXCEPT ![p] = "user"]
  /\ UNCHANGED <<state, parent, killed, chan, plock, child, run>>

(* Mistake: the early return keeps wait_lock. *)
WaitNoZombieLocked(p) ==
  /\ Runs(p) /\ pc[p] = "w_scan"
  /\ ZombieChildren(p) = {}
  /\ pc' = [pc EXCEPT ![p] = IF Children(p) = {} \/ killed[p] THEN "user" ELSE "w_sleep"]
  /\ UNCHANGED <<state, parent, killed, chan, plock, child, run, waitlock>>

(* No zombie: -1 without children or when killed, else go to sleep. *)
WaitNoZombie(p) ==
  /\ Runs(p) /\ pc[p] = "w_scan"
  /\ ZombieChildren(p) = {}
  /\ IF Children(p) = {} \/ killed[p]
     THEN waitlock' = None /\ pc' = [pc EXCEPT ![p] = "user"]
     ELSE pc' = [pc EXCEPT ![p] = "w_sleep"] /\ UNCHANGED waitlock
  /\ UNCHANGED <<state, parent, killed, chan, plock, child, run>>

(* sleep(p, &wait_lock): p->lock is taken before wait_lock is released. *)
WaitSleep(p) ==
  /\ Runs(p) /\ pc[p] = "w_sleep"
  /\ plock' = [plock EXCEPT ![p] = TRUE]
  /\ waitlock' = None
  /\ chan' = [chan EXCEPT ![p] = p]
  /\ state' = [state EXCEPT ![p] = "SLEEPING"]
  /\ pc' = [pc EXCEPT ![p] = "w_lock"]
  /\ UNCHANGED <<parent, killed, child, run>>

-----------------------------------------------------------------------------
(* kexit(). *)

(* exit(), or usertrap() finding p->killed.  usertrap() looks before and   *)
(* after a system call only, a call that has begun is carried out.  init   *)
(* never exits.  The files and the working directory are let go before     *)
(* wait_lock is taken.                                                     *)
ExitCall(p) ==
  /\ Runs(p) /\ pc[p] = "user" /\ p # init
  /\ pc' = [pc EXCEPT ![p] = "e_lock"]
  /\ UNCHANGED <<state, parent, killed, chan, plock, child, run, waitlock>>

ExitLock(p) ==
  /\ Runs(p) /\ pc[p] = "e_lock" /\ waitlock = None
  /\ waitlock' = p
  /\ pc' = [pc EXCEPT ![p] = "e_reparent"]
  /\ UNCHANGED <<state, parent, killed, chan, plock, child, run>>

(* Mistakes in reparent(): init is not woken; zombies are not handed over. *)
ExitReparentSilent(p) ==
  /\ Runs(p) /\ pc[p] = "e_reparent"
  /\ parent' = [q \in Slots |-> IF parent[q] = p THEN init ELSE parent[q]]
  /\ pc' = [pc EXCEPT ![p] = "e_wake"]
  /\ UNCHANGED <<state, killed, chan, plock, child, run, waitlock>>

ExitReparentLive(p) ==
  /\ Runs(p) /\ pc[p] = "e_reparent"
  /\ parent' = [q \in Slots |-> IF parent[q] = p /\ state[q] # "ZOMBIE" THEN init ELSE parent[q]]
  /\ pc' = [pc EXCEPT ![p] = "e_wake"]
  /\ UNCHANGED <<state, killed, chan, plock, child, run, waitlock>>

(* reparent(): wakeup(initproc) waits for init's lock. *)
ExitReparent(p) ==
  /\ Runs(p) /\ pc[p] = "e_reparent"
  /\ Children(p) # {} => ~plock[init]
  /\ parent' = [q \in Slots |-> IF parent[q] = p THEN init ELSE parent[q]]
  /\ state' = IF Children(p) # {} THEN Woken(init, init) ELSE state
  /\ pc' = [pc EXCEPT ![p] = "e_wake"]
  /\ UNCHANGED <<killed, chan, plock, child, run, waitlock>>

(* Mistake: the parent is not woken. *)
ExitWakeSilent(p) ==
  /\ Runs(p) /\ pc[p] = "e_wake"
  /\ pc' = [pc EXCEPT ![p] = "e_zombie"]
  /\ UNCHANGED <<state, parent, killed, chan, plock, child, run, waitlock>>

(* wakeup(p->parent) waits for the parent's lock. *)
ExitWake(p) ==
  /\ Runs(p) /\ pc[p] = "e_wake" /\ ~plock[parent[p]]
  /\ state' = Woken(parent[p], parent[p])
  /\ pc' = [pc EXCEPT ![p] = "e_zombie"]
  /\ UNCHANGED <<parent, killed, chan, plock, child, run, waitlock>>

(* Take p->lock, become a zombie, release wait_lock, sched(). *)
ExitZombie(p) ==
  /\ Runs(p) /\ pc[p] = "e_zombie"
  /\ plock' = [plock EXCEPT ![p] = TRUE]
  /\ state' = [state EXCEPT ![p] = "ZOMBIE"]
  /\ waitlock' = None
  /\ pc' = [pc EXCEPT ![p] = "dead"]
  /\ UNCHANGED <<parent, killed, chan, child, run>>

-----------------------------------------------------------------------------
(* kkill(pid) by p, for the slot whose pid it finds: 0 is the pid of every *)
(* UNUSED slot.  Killing init makes usertrap() panic, and is left out.     *)
Kill(p, q) ==
  /\ Runs(p) /\ pc[p] = "user"
  /\ q # init /\ ~plock[q]
  /\ killed' = [killed EXCEPT ![q] = TRUE]
  /\ state' = [state EXCEPT ![q] = IF @ = "SLEEPING" THEN "RUNNABLE" ELSE @]
  /\ UNCHANGED <<parent, chan, plock, pc, child, run, waitlock>>

-----------------------------------------------------------------------------
Sched == \/ \E c \in CPUs : SwitchedOff(c)
         \/ \E c \in CPUs, p \in Slots : Dispatch(c, p)
         \/ \E p \in Slots : Yield(p)

KForkStep(p) == (\E q \in Slots : ForkAlloc(p, q) \/ ForkFail(p, q)) \/ ForkParent(p) \/ ForkRunnable(p)

KWaitStep(p) ==
  \/ WaitCall(p) \/ WaitLock(p) \/ WaitNoZombie(p) \/ WaitSleep(p)
  \/ \E q \in Slots : WaitReap(p, q) \/ WaitBadAddr(p, q)

KExitStep(p) ==
  ExitCall(p) \/ ExitLock(p) \/ ExitReparent(p) \/ ExitWake(p) \/ ExitZombie(p)

Next ==
  \/ Sched
  \/ \E p \in Slots : KForkStep(p) \/ KWaitStep(p) \/ KExitStep(p) \/ PauseCall(p) \/ PauseSleep(p) \/ Tick(p)
  \/ \E p, q \in Slots : Kill(p, q)

Spec == Init /\ [][Next]_vars

(* A process that spins for a spinlock gets it in the end (the code's      *)
(* amoswap loop relies on the hardware for that), the timer keeps          *)
(* interrupting, the round-robin scheduler does not pass over a runnable   *)
(* process for ever, and init's program calls wait() again and again.  A    *)
(* killed process is in usertrap(), which calls kexit(), by the next timer. *)
InKernel(p) ==
  \/ killed[p] /\ ExitCall(p)
  \/ PauseSleep(p)
  \/ ForkParent(p) \/ ForkRunnable(p)
  \/ WaitLock(p) \/ WaitNoZombie(p) \/ WaitSleep(p) \/ \E q \in Slots : WaitReap(p, q)
  \/ ExitLock(p) \/ ExitReparent(p) \/ ExitWake(p) \/ ExitZombie(p)

Fairness ==
  /\ \A c \in CPUs : WF_vars(SwitchedOff(c))
  /\ \A p \in Slots :
       /\ SF_vars(Tick(p) \/ \E c \in CPUs : Dispatch(c, p))
       /\ SF_vars(Yield(p))
       /\ SF_vars(InKernel(p))
  /\ SF_vars(WaitCall(init))

FairSpec == Spec /\ Fairness

-----------------------------------------------------------------------------
(* Properties. *)

(* No process runs on two CPUs: yield(), sleep() and kexit() keep p->lock  *)
(* until the scheduler's stack is in use again.                            *)
OneCpu == \A c, d \in CPUs : run[c] = run[d] /\ run[c] # None => c = d

(* Whoever acquires p->lock finds p->state telling whether p has a CPU. *)
StateTellsCpu ==
  \A p \in Slots : IF plock[p] THEN OnCpu(p) ELSE state[p] = "RUNNING" <=> OnCpu(p)

(* Nothing is dispatched twice, nor RUNNING without a CPU.                 *)
CpusTrue == OneCpu /\ StateTellsCpu

(* wait_lock is held by exactly the process inside a critical section of   *)
(* kwait() or kexit(), so that there is at most one.                       *)
WaitLockOwned ==
  \A p \in Slots :
    waitlock = p <=> pc[p] \in {"w_scan", "w_sleep", "e_reparent", "e_wake", "e_zombie"}

(* kwait() and kexit() do not miss each other: outside the critical        *)
(* sections of wait_lock no process, and init in particular, sleeps in     *)
(* kwait() while a child of it is a zombie.                                *)
NoMissedExit ==
  waitlock = None =>
    \A p \in Slots : ZombieChildren(p) # {} => ~(state[p] = "SLEEPING" /\ chan[p] = p)

(* p->parent never points to a dead or recycled slot, and every process    *)
(* but init has a parent that can reap it.                                 *)
ParentsLive ==
  \A p \in Slots :
    /\ parent[p] # None => state[parent[p]] \in {"SLEEPING", "RUNNABLE", "RUNNING"}
    /\ state[p] \in {"SLEEPING", "RUNNABLE", "RUNNING", "ZOMBIE"} /\ p # init
         => parent[p] # None

(* freeproc() gives up a process only when no CPU is on its kernel stack,  *)
(* nobody's fork is building it and it has no children.                    *)
FreedAlone ==
  [][\A q \in Slots : state[q] # "UNUSED" /\ state'[q] = "UNUSED" =>
       ~OnCpu(q) /\ Children(q) = {} /\ \A p \in Slots : child[p] # q]_vars

(* Zombies that init inherits are reaped, unless fork() is called again    *)
(* and again: kwait() looks at the slots in order, and zombies that keep   *)
(* coming in earlier slots make init pass over a later one for ever.       *)
OrphansReaped == \A p \in Slots \ {init} :
  (state[p] = "ZOMBIE" /\ parent[p] = init)
    ~> (state[p] = "UNUSED" \/ \E q \in Slots : state[q] = "USED")

(* A process that has entered kexit() dies: no lock order keeps it.        *)
ExitEnds == \A p \in Slots \ {init} : pc[p] = "e_lock" ~> pc[p] = "dead"
=============================================================================
