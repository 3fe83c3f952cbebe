------------------------------ MODULE UThread ------------------------------
(***************************************************************************)
(* The user-level threads of w5, user/uthread.c and user/uthread_switch.S, *)
(* with the program around them: main() creates three threads, which wait  *)
(* for each other and then count, with a thread_yield() after each.        *)
(*                                                                         *)
(* The machine is the registers that thread_switch() saves: where the      *)
(* program is, in which stack, and the callee-saved register that holds i. *)
(* thread_schedule() has no locks and no interrupts: a call of it is part  *)
(* of the step that makes it.                                              *)
(***************************************************************************)
EXTENDS Naturals, Sequences

CONSTANTS
  MAX_THREAD,
  Functions,  \* thread_a, thread_b, thread_c, in the order of their creation
  Goals       \* how far each may have to count

UThreads == 0 .. MAX_THREAD - 1
MainStack == MAX_THREAD
Fns == {Functions[k] : k \in 1 .. Len(Functions)}

(* No function is given to two threads, and the table has a thread more    *)
(* than there are functions, for main().                                   *)
ASSUME UThreadAssumption ==
  /\ MAX_THREAD \in Nat /\ Goals \subseteq Nat
  /\ Functions \in Seq(Fns) /\ Len(Functions) < MAX_THREAD
  /\ \A j, k \in 1 .. Len(Functions) : Functions[j] = Functions[k] => j = k
  /\ Fns \intersect {"main", "none", "thread_schedule"} = {}

VARIABLES
  tstate, context,  \* all_thread
  current,          \* current_thread
  cpu,              \* the registers
  stack,            \* where the last call in each stack returns to
  created,          \* how far main() is
  started, n,       \* a_started and a_n, b_started and b_n, ...
  goal,             \* the bounds of the threads' loops, 100 in the program
  exited

uthreads == <<tstate, context, current, stack>>
uvars == <<uthreads, cpu, created, started, n, goal, exited>>

At(f, l) == [fn |-> f, at |-> l]

UInit ==
  /\ tstate = [t \in UThreads |-> IF t = 0 THEN "RUNNING" ELSE "FREE"]
  /\ context = [t \in UThreads |-> [ra |-> At("none", "none"), sp |-> MainStack, s |-> 0]]
  /\ current = 0
  /\ cpu = [ra |-> At("main", "create"), sp |-> MainStack, s |-> 0]
  /\ stack = [t \in 0 .. MAX_THREAD |-> At("none", "none")]
  /\ created = 0
  /\ started = [f \in Fns |-> FALSE]
  /\ n = [f \in Fns |-> 0]
  /\ goal \in [Fns -> Goals]
  /\ exited = FALSE

-----------------------------------------------------------------------------
(* Mistake: the search begins at the start of the table.                   *)
Next_threadLow(tab) ==
  {t \in UThreads : tab[t] = "RUNNABLE" /\ \A u \in 0 .. t - 1 : tab[u] # "RUNNABLE"}

(* The first RUNNABLE thread after the current one, in a circle that ends  *)
(* with the current one.                                                   *)
After(k) == (current + k) % MAX_THREAD
Next_thread(tab) ==
  {After(k) : k \in {j \in 1 .. MAX_THREAD :
     /\ tab[After(j)] = "RUNNABLE"
     /\ \A i \in 1 .. j - 1 : tab[After(i)] # "RUNNABLE"}}

(* Mistake: the callee-saved registers stay out of the context.            *)
SavedShort == [cpu EXCEPT !.ra = At("thread_schedule", "return"), !.s = 0]

(* thread_switch() saves where the thread is and loads where another was:  *)
(* in thread_schedule(), which returns, or at the start of its function.   *)
Saved == [cpu EXCEPT !.ra = At("thread_schedule", "return")]

Loaded(c) == IF c.ra.fn = "thread_schedule" THEN [c EXCEPT !.ra = stack[c.sp]] ELSE c

(* thread_schedule(), with the states tab, called to return to ret.        *)
Schedule(tab, ret) ==
  \/ /\ Next_thread(tab) = {}
     /\ exited' = TRUE
     /\ tstate' = tab
     /\ UNCHANGED <<context, current, stack, cpu>>
  \/ /\ current \in Next_thread(tab)
     /\ tstate' = tab /\ cpu' = [cpu EXCEPT !.ra = ret]
     /\ UNCHANGED <<context, current, stack, exited>>
  \/ \E t \in Next_thread(tab) \ {current} :
       /\ tstate' = [tab EXCEPT ![t] = "RUNNING"]
       /\ context' = [context EXCEPT ![current] = Saved]
       /\ stack' = [stack EXCEPT ![cpu.sp] = ret]
       /\ current' = t
       /\ cpu' = Loaded(context[t])
       /\ UNCHANGED exited

Yield(ret) == Schedule([tstate EXCEPT ![current] = "RUNNABLE"], ret)
Exit       == Schedule([tstate EXCEPT ![current] = "FREE"], At("none", "none"))

-----------------------------------------------------------------------------
(* thread_create() takes the first FREE thread.  One past the table would  *)
(* be taken if there were none; main() leaves one for each function.       *)
Thread_create ==
  /\ cpu.ra = At("main", "create") /\ created < Len(Functions)
  /\ \E t \in UThreads :
       /\ tstate[t] = "FREE" /\ \A u \in 0 .. t - 1 : tstate[u] # "FREE"
       /\ tstate' = [tstate EXCEPT ![t] = "RUNNABLE"]
       /\ context' = [context EXCEPT ![t] = [ra |-> At(Functions[created + 1], "start"),
                                              sp |-> t, s |-> @.s]]
  /\ created' = created + 1
  /\ UNCHANGED <<current, cpu, stack, started, n, goal, exited>>

(* main() gives up its own thread: it never returns from here.             *)
MainEnd ==
  /\ cpu.ra = At("main", "create") /\ created = Len(Functions) /\ ~ exited
  /\ Exit
  /\ UNCHANGED <<created, started, n, goal>>

Start(f) ==
  /\ cpu.ra = At(f, "start")
  /\ started' = [started EXCEPT ![f] = TRUE]
  /\ cpu' = [cpu EXCEPT !.ra = At(f, "wait")]
  /\ UNCHANGED <<uthreads, created, n, goal, exited>>

(* Until the others have started.                                          *)
Wait(f) ==
  /\ cpu.ra = At(f, "wait")
  /\ \E g \in Fns \ {f} : ~ started[g]
  /\ Yield(At(f, "wait"))
  /\ UNCHANGED <<created, started, n, goal>>

LoopStart(f) ==
  /\ cpu.ra = At(f, "wait")
  /\ \A g \in Fns \ {f} : started[g]
  /\ cpu' = [ra |-> At(f, "loop"), sp |-> cpu.sp, s |-> 0]
  /\ UNCHANGED <<uthreads, created, started, n, goal, exited>>

Count(f) ==
  /\ cpu.ra = At(f, "loop") /\ cpu.s < goal[f]
  /\ n' = [n EXCEPT ![f] = @ + 1]
  /\ Yield(At(f, "increment"))
  /\ UNCHANGED <<created, started, goal>>

Increment(f) ==
  /\ cpu.ra = At(f, "increment")
  /\ cpu' = [ra |-> At(f, "loop"), sp |-> cpu.sp, s |-> cpu.s + 1]
  /\ UNCHANGED <<uthreads, created, started, n, goal, exited>>

End(f) ==
  /\ cpu.ra = At(f, "loop") /\ cpu.s = goal[f] /\ ~ exited
  /\ Exit
  /\ UNCHANGED <<created, started, n, goal>>

UNext ==
  \/ Thread_create \/ MainEnd
  \/ \E f \in Fns :
       Start(f) \/ Wait(f) \/ LoopStart(f) \/ Count(f) \/ Increment(f) \/ End(f)

USpec == UInit /\ [][UNext]_uvars

(* The process goes on running.                                            *)
FairSpec == USpec /\ WF_uvars(UNext)

-----------------------------------------------------------------------------
(* Where a thread is that waits for its turn, if it has begun.             *)
Suspended == {t \in UThreads \ {current} : tstate[t] = "RUNNABLE"}

(* A thread finds its stack and its loop variable as it left them: what it *)
(* has in i is how often it has counted in memory (a_n, b_n, c_n), and no  *)
(* two threads use one stack or run one function.                          *)
OwnContext ==
  /\ current # 0 => cpu.sp = current
  /\ \A t \in Suspended :
       LET c == Loaded(context[t]) IN
         /\ c.sp = t
         /\ c.ra.fn \in Fns \ {cpu.ra.fn}
         /\ \A u \in Suspended \ {t} : Loaded(context[u]).ra.fn # c.ra.fn
         /\ c.ra.at = "increment" => n[c.ra.fn] = c.s + 1
  /\ cpu.ra.at = "loop" => n[cpu.ra.fn] = cpu.s

(* Each thread counts to the end; then there is no runnable thread, and    *)
(* the process exits.                                                      *)
AllFinish == <>(exited /\ \A f \in Fns : n[f] = goal[f])
=============================================================================
