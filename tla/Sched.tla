------------------------------- MODULE Sched -------------------------------
(***************************************************************************)
(* Threads, CPUs and run queues: kernel/proc/sched.c, with the lock and    *)
(* interrupt discipline of kernel/locks/spinlock.c.                        *)
(*                                                                         *)
(* A CPU executes one frame at a time.  Its own frame (pc[c]) is the       *)
(* scheduler loop or an interrupt handler; while pc[c] = "thread" it       *)
(* executes the thread ctx[c] at pc[ctx[c]].  An atomic step runs from one *)
(* spin_lock to just before the next one.  load_lock protects one          *)
(* assignment and encloses no other lock, so that its critical section is  *)
(* one step and the lock itself is not a variable.                         *)
(*                                                                         *)
(* waitq stands for every wait queue a sleeping thread may be linked in    *)
(* (semaphores, timers, read-write locks): the modules that model those    *)
(* queues conjoin their own state to Sleep and WakeStart.                  *)
(***************************************************************************)
EXTENDS Integers, Sequences

CONSTANTS
    Thread,         \* thread_info structures
    NCPU,           \* number of harts (include/param.h)
    init_t,         \* the first kernel thread
    cpu_affinity,   \* thread->cpu_affinity
    NULL

NO_CPU_AFF == -1
Cpu == 0 .. (NCPU - 1)
Frame == Thread \cup Cpu

ASSUME SchedAssumption ==
    /\ NCPU \in Nat \ {0}
    /\ init_t \in Thread
    /\ NULL \notin Frame
    /\ Thread \cap Cpu = {}
    /\ cpu_affinity \in [Thread -> Cpu \cup {NO_CPU_AFF}]

VARIABLES
    state,          \* thread->state
    tlock,          \* thread->lock: the CPU that holds it, or NULL
    rlock,          \* cpus[c].sched_list.lock
    run,            \* cpus[c].sched_list.run, head first
    load_cpu_id,    \* round-robin position of the load balancer
    cthread,        \* cpus[c].thread, what myproc() returns
    ctx,            \* the thread whose stack CPU c executes on, or NULL
    pc,             \* where each frame is
    next,           \* scheduler()'s local next
    wk,             \* the thread that a frame is waking
    tgt,            \* the CPU that a frame's add_runnable_task has chosen
    waitq           \* threads linked in some wait queue

vars == <<state, tlock, rlock, run, load_cpu_id, cthread, ctx, pc, next, wk, tgt, waitq>>

TaskState == {"UNUSED", "SLEEPING", "RUNNABLE", "RUNNING", "ZOMBIE"}
WakePc == {"wk_lock", "wk_load", "wk_list", "wk_add", "wk_ret"}
YieldPc == {"y_load", "y_list", "y_add"}
ThreadPc == {"run"} \cup WakePc
CpuPc == {"sched", "picked", "resume", "thread", "swout"} \cup WakePc \cup YieldPc

----------------------------------------------------------------------------
\* Interrupts are enabled only while the CPU holds no spin lock (push_off).
IntrOn(c) ==
    /\ \A t \in Thread : tlock[t] # c
    /\ \A d \in Cpu : rlock[d] # c

\* Frame f is the one that CPU c executes.
Runs(c, f) == f = c \/ (pc[c] = "thread" /\ ctx[c] = f)

\* Thread t executes on CPU c and is outside of wakeup_process.
Idle(c, t) == pc[c] = "thread" /\ ctx[c] = t /\ pc[t] = "run"

\* A thread between two calls, or an interrupt taken by CPU c.
CanCall(c, f) ==
    \/ f \in Thread /\ Idle(c, f)
    \/ f = c /\ pc[c] \in {"sched", "thread"} /\ IntrOn(c)

\* list_del_init of the k-th node of a run list.
list_del_init(q, k) == [i \in 1 .. Len(q) - 1 |-> IF i < k THEN q[i] ELSE q[i + 1]]

\* Mutant: list_add_tail, so that the newest entry is picked first.
list_add_tail(t, q) == Append(q, t)

\* list_add_head
list_add_head(t, q) == <<t>> \o q

\* The k-th node is the one pick_next_task returns: it walks from the tail to
\* the first RUNNABLE thread, without taking that thread's lock.
pick_next_task(c, k) ==
    /\ k \in 1 .. Len(run[c])
    /\ state[run[c][k]] = "RUNNABLE"
    /\ \A j \in k + 1 .. Len(run[c]) : state[run[c][j]] # "RUNNABLE"

----------------------------------------------------------------------------
\* After main() on hart 0: init_s has created init_t and every hart enters
\* scheduler().
Init ==
    LET home == IF cpu_affinity[init_t] = NO_CPU_AFF THEN 0 ELSE cpu_affinity[init_t] IN
    /\ state = [t \in Thread |-> IF t = init_t THEN "RUNNABLE" ELSE "UNUSED"]
    /\ tlock = [t \in Thread |-> NULL]
    /\ rlock = [c \in Cpu |-> NULL]
    /\ run = [c \in Cpu |-> IF c = home THEN <<init_t>> ELSE <<>>]
    /\ load_cpu_id = IF cpu_affinity[init_t] = NO_CPU_AFF THEN 0 ELSE -1
    /\ cthread = [c \in Cpu |-> NULL]
    /\ ctx = [c \in Cpu |-> NULL]
    /\ pc = [f \in Frame |-> IF f \in Cpu THEN "sched" ELSE "run"]
    /\ next = [c \in Cpu |-> NULL]
    /\ wk = [f \in Frame |-> NULL]
    /\ tgt = [f \in Frame |-> NULL]
    /\ waitq = {}

----------------------------------------------------------------------------
\* scheduler(): lock the run list and pick.  With nothing to pick the loop
\* unlocks and waits for an interrupt, which changes no state.
SchedulerPick(c) ==
    /\ pc[c] = "sched"
    /\ rlock[c] = NULL
    /\ \E k \in 1 .. Len(run[c]) :
          /\ pick_next_task(c, k)
          /\ next' = [next EXCEPT ![c] = run[c][k]]
    /\ rlock' = [rlock EXCEPT ![c] = c]
    /\ pc' = [pc EXCEPT ![c] = "picked"]
    /\ UNCHANGED <<state, tlock, run, load_cpu_id, cthread, ctx, wk, tgt, waitq>>

\* Mutant: the picked thread stays linked in the run list.
SchedulerSwitchKeepsNode(c) ==
    /\ pc[c] = "picked"
    /\ tlock[next[c]] = NULL
    /\ tlock' = [tlock EXCEPT ![next[c]] = c]
    /\ cthread' = [cthread EXCEPT ![c] = next[c]]
    /\ state' = [state EXCEPT ![next[c]] = "RUNNING"]
    /\ rlock' = [rlock EXCEPT ![c] = NULL]
    /\ ctx' = [ctx EXCEPT ![c] = next[c]]
    /\ pc' = [pc EXCEPT ![c] = "resume"]
    /\ UNCHANGED <<run, load_cpu_id, next, wk, tgt, waitq>>

\* scheduler(): lock the thread, unlink it, switch to it.
SchedulerSwitch(c) ==
    /\ pc[c] = "picked"
    /\ tlock[next[c]] = NULL
    /\ tlock' = [tlock EXCEPT ![next[c]] = c]
    /\ \E k \in 1 .. Len(run[c]) :
          /\ run[c][k] = next[c]
          /\ run' = [run EXCEPT ![c] = list_del_init(run[c], k)]
    /\ cthread' = [cthread EXCEPT ![c] = next[c]]
    /\ state' = [state EXCEPT ![next[c]] = "RUNNING"]
    /\ rlock' = [rlock EXCEPT ![c] = NULL]
    /\ ctx' = [ctx EXCEPT ![c] = next[c]]
    /\ pc' = [pc EXCEPT ![c] = "resume"]
    /\ UNCHANGED <<load_cpu_id, next, wk, tgt, waitq>>

\* Mutant: the thread goes on without unlocking itself.
ResumeKeepsLock(c) ==
    /\ pc[c] = "resume"
    /\ pc' = [pc EXCEPT ![c] = "thread"]
    /\ UNCHANGED <<state, tlock, rlock, run, load_cpu_id, cthread, ctx, next, wk, tgt, waitq>>

\* The switched-to thread unlocks itself: the end of sched(), or thread_entry
\* and forkret the first time it runs.
Resume(c) ==
    /\ pc[c] = "resume"
    /\ tlock' = [tlock EXCEPT ![ctx[c]] = NULL]
    /\ pc' = [pc EXCEPT ![c] = "thread"]
    /\ UNCHANGED <<state, rlock, run, load_cpu_id, cthread, ctx, next, wk, tgt, waitq>>

\* Mutant: mycpu()->thread is left set.
SwitchedBackKeepsThread(c) ==
    /\ pc[c] = "swout"
    /\ tlock' = [tlock EXCEPT ![next[c]] = NULL]
    /\ next' = [next EXCEPT ![c] = NULL]
    /\ pc' = [pc EXCEPT ![c] = "sched"]
    /\ UNCHANGED <<state, rlock, run, load_cpu_id, cthread, ctx, wk, tgt, waitq>>

\* scheduler(), back from swtch: forget the thread, then unlock it.
SwitchedBack(c) ==
    /\ pc[c] = "swout"
    /\ cthread' = [cthread EXCEPT ![c] = NULL]
    /\ tlock' = [tlock EXCEPT ![next[c]] = NULL]
    /\ next' = [next EXCEPT ![c] = NULL]
    /\ pc' = [pc EXCEPT ![c] = "sched"]
    /\ UNCHANGED <<state, rlock, run, load_cpu_id, ctx, wk, tgt, waitq>>

----------------------------------------------------------------------------
\* add_runnable_task: choose a CPU under load_lock.
ChooseCpu(f, t) ==
    IF cpu_affinity[t] = NO_CPU_AFF
    THEN /\ load_cpu_id' = (load_cpu_id + 1) % NCPU
         /\ tgt' = [tgt EXCEPT ![f] = (load_cpu_id + 1) % NCPU]
    ELSE /\ tgt' = [tgt EXCEPT ![f] = cpu_affinity[t]]
         /\ UNCHANGED load_cpu_id

\* Mutant: yield() keeps thread->lock over add_runnable_task.
YieldKeepsLock(c) ==
    /\ pc[c] = "thread"
    /\ IntrOn(c)
    /\ tlock[cthread[c]] = NULL
    /\ tlock' = [tlock EXCEPT ![cthread[c]] = c]
    /\ state' = [state EXCEPT ![cthread[c]] = "RUNNABLE"]
    /\ pc' = [pc EXCEPT ![c] = "y_load"]
    /\ UNCHANGED <<rlock, run, load_cpu_id, cthread, ctx, next, wk, tgt, waitq>>

\* yield(), from timer_intr when the time slice is over, and do_pause(): mark
\* the current thread RUNNABLE under its lock, which add_runnable_task drops.
Yield(c) ==
    /\ pc[c] = "thread"
    /\ IntrOn(c)
    /\ tlock[cthread[c]] = NULL
    /\ state' = [state EXCEPT ![cthread[c]] = "RUNNABLE"]
    /\ pc' = [pc EXCEPT ![c] = "y_load"]
    /\ UNCHANGED <<tlock, rlock, run, load_cpu_id, cthread, ctx, next, wk, tgt, waitq>>

YieldLoad(c) ==
    /\ pc[c] = "y_load"
    /\ ChooseCpu(c, cthread[c])
    /\ pc' = [pc EXCEPT ![c] = "y_list"]
    /\ UNCHANGED <<state, tlock, rlock, run, cthread, ctx, next, wk, waitq>>

YieldList(c) ==
    /\ pc[c] = "y_list"
    /\ rlock[tgt[c]] = NULL
    /\ rlock' = [rlock EXCEPT ![tgt[c]] = c]
    /\ pc' = [pc EXCEPT ![c] = "y_add"]
    /\ UNCHANGED <<state, tlock, run, load_cpu_id, cthread, ctx, next, wk, tgt, waitq>>

\* Mutant: the thread is linked, and may be picked, before its lock is taken for
\* the switch.
YieldAddUnlocked(c) ==
    /\ pc[c] = "y_add"
    /\ tlock[cthread[c]] = NULL
    /\ run' = [run EXCEPT ![tgt[c]] = list_add_head(cthread[c], @)]
    /\ rlock' = [rlock EXCEPT ![tgt[c]] = NULL]
    /\ tgt' = [tgt EXCEPT ![c] = NULL]
    /\ pc' = [pc EXCEPT ![c] = "swout"]
    /\ UNCHANGED <<state, tlock, load_cpu_id, cthread, ctx, next, wk, waitq>>

\* Mutant: the thread is switched away from but linked nowhere.
YieldAddDrops(c) ==
    /\ pc[c] = "y_add"
    /\ tlock[cthread[c]] = NULL
    /\ tlock' = [tlock EXCEPT ![cthread[c]] = c]
    /\ rlock' = [rlock EXCEPT ![tgt[c]] = NULL]
    /\ tgt' = [tgt EXCEPT ![c] = NULL]
    /\ ctx' = [ctx EXCEPT ![c] = NULL]
    /\ pc' = [pc EXCEPT ![c] = "swout"]
    /\ UNCHANGED <<state, run, load_cpu_id, cthread, next, wk, waitq>>

\* The thread is linked while its lock is held, and the lock stays held through
\* sched() and swtch until SwitchedBack.
YieldAdd(c) ==
    LET t == cthread[c] IN
    /\ pc[c] = "y_add"
    /\ tlock[t] = NULL
    /\ tlock' = [tlock EXCEPT ![t] = c]
    /\ run' = [run EXCEPT ![tgt[c]] = list_add_head(t, @)]
    /\ rlock' = [rlock EXCEPT ![tgt[c]] = NULL]
    /\ tgt' = [tgt EXCEPT ![c] = NULL]
    /\ ctx' = [ctx EXCEPT ![c] = NULL]
    /\ pc' = [pc EXCEPT ![c] = "swout"]
    /\ UNCHANGED <<state, load_cpu_id, cthread, next, wk, waitq>>

----------------------------------------------------------------------------
\* A caller takes u out of its wait queue and calls wakeup_process(u).
WakeStart(c, f, u) ==
    /\ CanCall(c, f)
    /\ u \in waitq
    /\ waitq' = waitq \ {u}
    /\ wk' = [wk EXCEPT ![f] = u]
    /\ pc' = [pc EXCEPT ![f] = "wk_lock"]
    /\ UNCHANGED <<state, tlock, rlock, run, load_cpu_id, cthread, ctx, next, tgt>>

\* kthread_create and do_fork: a fresh thread_info, then wakeup_process on it.
Create(c, f, u) ==
    /\ CanCall(c, f)
    /\ state[u] = "UNUSED"
    /\ \A g \in Frame : wk[g] # u
    /\ wk' = [wk EXCEPT ![f] = u]
    /\ pc' = [pc EXCEPT ![f] = "wk_lock"]
    /\ UNCHANGED <<state, tlock, rlock, run, load_cpu_id, cthread, ctx, next, tgt, waitq>>

\* wakeup_process: RUNNABLE under the thread's lock; unlocked again at once.
WakeRunnable(c, f) ==
    /\ Runs(c, f)
    /\ pc[f] = "wk_lock"
    /\ tlock[wk[f]] = NULL
    /\ state' = [state EXCEPT ![wk[f]] = "RUNNABLE"]
    /\ pc' = [pc EXCEPT ![f] = "wk_load"]
    /\ UNCHANGED <<tlock, rlock, run, load_cpu_id, cthread, ctx, next, wk, tgt, waitq>>

WakeLoad(c, f) ==
    /\ Runs(c, f)
    /\ pc[f] = "wk_load"
    /\ ChooseCpu(f, wk[f])
    /\ pc' = [pc EXCEPT ![f] = "wk_list"]
    /\ UNCHANGED <<state, tlock, rlock, run, cthread, ctx, next, wk, waitq>>

WakeList(c, f) ==
    /\ Runs(c, f)
    /\ pc[f] = "wk_list"
    /\ rlock[tgt[f]] = NULL
    /\ rlock' = [rlock EXCEPT ![tgt[f]] = c]
    /\ pc' = [pc EXCEPT ![f] = "wk_add"]
    /\ UNCHANGED <<state, tlock, run, load_cpu_id, cthread, ctx, next, wk, tgt, waitq>>

WakeAdd(c, f) ==
    /\ Runs(c, f)
    /\ pc[f] = "wk_add"
    /\ tlock[wk[f]] = NULL
    /\ run' = [run EXCEPT ![tgt[f]] = list_add_head(wk[f], @)]
    /\ rlock' = [rlock EXCEPT ![tgt[f]] = NULL]
    /\ wk' = [wk EXCEPT ![f] = NULL]
    /\ tgt' = [tgt EXCEPT ![f] = NULL]
    /\ pc' = [pc EXCEPT ![f] = "wk_ret"]
    /\ UNCHANGED <<state, tlock, load_cpu_id, cthread, ctx, next, waitq>>

\* Back to the caller, or out of the interrupt.
WakeReturn(c, f) ==
    /\ Runs(c, f)
    /\ pc[f] = "wk_ret"
    /\ pc' = [pc EXCEPT ![f] = IF f \in Thread THEN "run"
                               ELSE IF ctx[c] = NULL THEN "sched" ELSE "thread"]
    /\ UNCHANGED <<state, tlock, rlock, run, load_cpu_id, cthread, ctx, next, wk, tgt, waitq>>

----------------------------------------------------------------------------
\* The part of sem_wait, sleep_reader, sleep_writer and thread_timer_sleep that
\* they share: SLEEPING under the thread's lock, linked in a queue, sched().
Sleep(c, t) ==
    /\ Idle(c, t)
    /\ tlock[t] = NULL
    /\ tlock' = [tlock EXCEPT ![t] = c]
    /\ state' = [state EXCEPT ![t] = "SLEEPING"]
    /\ waitq' = waitq \cup {t}
    /\ ctx' = [ctx EXCEPT ![c] = NULL]
    /\ pc' = [pc EXCEPT ![c] = "swout"]
    /\ UNCHANGED <<rlock, run, load_cpu_id, cthread, next, wk, tgt>>

\* The end of do_exit: ZOMBIE under the thread's lock, sched(), never back.
Exit(c, t) ==
    /\ Idle(c, t)
    /\ t # init_t
    /\ tlock[t] = NULL
    /\ tlock' = [tlock EXCEPT ![t] = c]
    /\ state' = [state EXCEPT ![t] = "ZOMBIE"]
    /\ ctx' = [ctx EXCEPT ![c] = NULL]
    /\ pc' = [pc EXCEPT ![c] = "swout"]
    /\ UNCHANGED <<rlock, run, load_cpu_id, cthread, next, wk, tgt, waitq>>

----------------------------------------------------------------------------
\* The steps that need no caller: they are common to every client of sched.c.
SchedulerStep(c) ==
    SchedulerPick(c) \/ SchedulerSwitch(c) \/ Resume(c) \/ SwitchedBack(c)
YieldStep(c) == YieldLoad(c) \/ YieldList(c) \/ YieldAdd(c)
WakeStep(c, f) ==
    WakeRunnable(c, f) \/ WakeLoad(c, f) \/ WakeList(c, f) \/ WakeAdd(c, f)
KernelStep(c) ==
    \/ SchedulerStep(c)
    \/ YieldStep(c)
    \/ \E f \in Frame : WakeStep(c, f)

Next ==
    \E c \in Cpu :
       \/ KernelStep(c)
       \/ Yield(c)
       \/ \E f \in Frame :
             \/ WakeReturn(c, f)
             \/ \E u \in Thread : WakeStart(c, f, u) \/ Create(c, f, u)
       \/ \E t \in Thread : Sleep(c, t) \/ Exit(c, t)

Spec == Init /\ [][Next]_vars

----------------------------------------------------------------------------
\* Fairness.  A CPU that spins on a lock is granted it if the lock is released
\* again and again, and the timer interrupt stays pending until the CPU enables
\* interrupts; both are strong fairness.
CallStep(c) == YieldStep(c) \/ \E f \in Frame : WakeStep(c, f) \/ WakeReturn(c, f)
Fairness ==
    \A c \in Cpu : SF_vars(SchedulerStep(c)) /\ SF_vars(CallStep(c)) /\ SF_vars(Yield(c))
FairSpec == Spec /\ Fairness

----------------------------------------------------------------------------
\* Every variable has the type of the C object it stands for.
TypeOK ==
    /\ state \in [Thread -> TaskState]
    /\ tlock \in [Thread -> Cpu \cup {NULL}]
    /\ rlock \in [Cpu -> Cpu \cup {NULL}]
    /\ run \in [Cpu -> Seq(Thread)]
    /\ load_cpu_id \in Cpu \cup {-1}
    /\ cthread \in [Cpu -> Thread \cup {NULL}]
    /\ ctx \in [Cpu -> Thread \cup {NULL}]
    /\ pc \in [Frame -> CpuPc \cup ThreadPc]
    /\ \A c \in Cpu : pc[c] \in CpuPc
    /\ \A t \in Thread : pc[t] \in ThreadPc
    /\ next \in [Cpu -> Thread \cup {NULL}]
    /\ wk \in [Frame -> Thread \cup {NULL}]
    /\ tgt \in [Frame -> Cpu \cup {NULL}]
    /\ waitq \subseteq Thread

\* Two CPUs never execute on the same thread's stack, nor does myproc() return
\* the same thread on both: the comment in scheduler() says that this cannot
\* happen "in principle".
OneCpuPerThread ==
    \A c, d \in Cpu : c # d =>
       /\ ctx[c] # NULL => ctx[c] # ctx[d]
       /\ cthread[c] # NULL => cthread[c] # cthread[d]

\* Where a thread can be: in a wait queue (waitq), in a run queue, on a CPU, or in
\* the hands of a waker that has not linked it yet.
InRun(c, t) == \E k \in 1 .. Len(run[c]) : run[c][k] = t
Queued(t) == \E c \in Cpu : InRun(c, t)
OnCpu(t) == \E c \in Cpu : ctx[c] = t
Waking(f, t) == wk[f] = t /\ pc[f] \in WakePc \ {"wk_ret"}
BeingWoken(t) == \E f \in Frame : Waking(f, t)
Placed(t) == t \in waitq \/ Queued(t) \/ OnCpu(t) \/ BeingWoken(t)

\* The run lists hold every thread at most once.
RunUnique ==
    \A c, d \in Cpu : \A i \in 1 .. Len(run[c]), j \in 1 .. Len(run[d]) :
       run[c][i] = run[d][j] => c = d /\ i = j

\* thread->sched is linked in at most one list, once, and never while the thread
\* executes: what the comment in wakeup_process requires before list_add_head.
NodeOnce ==
    /\ \A t \in Thread :
          /\ t \in waitq => ~Queued(t) /\ ~OnCpu(t) /\ ~BeingWoken(t)
          /\ Queued(t) => ~OnCpu(t) /\ ~BeingWoken(t)
          /\ OnCpu(t) => ~BeingWoken(t)
    /\ RunUnique
    /\ \A f, g \in Frame : \A t \in Thread : Waking(f, t) /\ Waking(g, t) => f = g

\* A thread that was started and has not exited is always somewhere: no step of
\* wakeup_process, yield or scheduler() drops it.
NotLost ==
    \A t \in Thread : state[t] \in {"UNUSED", "ZOMBIE"} \/ Placed(t)

\* The list a thread is linked in agrees with thread->state, which
\* pick_next_task reads without the thread's lock.
QueueState ==
    /\ \A t \in waitq : state[t] = "SLEEPING"
    /\ \A t \in Thread : Queued(t) => state[t] = "RUNNABLE"

\* Whenever an interrupt may be taken, myproc() is the interrupted thread, or NULL
\* in the scheduler: the comment in scheduler(), "change the pointer under the
\* lock first, otherwise the clock has a problem".
MyprocExact == \A c \in Cpu : IntrOn(c) => cthread[c] = ctx[c]

\* The assertions at the top of sched(), still true when the scheduler is about
\* to unlock the thread that it switched away from.
SchedAsserts ==
    \A c \in Cpu : pc[c] = "swout" =>
       tlock[next[c]] = c /\ state[next[c]] # "RUNNING"

\* CPU c spins on a lock that CPU d holds.
SpinsOnThread(c, d) ==
    \/ pc[c] = "picked" /\ tlock[next[c]] = d
    \/ pc[c] = "y_add" /\ tlock[cthread[c]] = d
    \/ \E f \in Frame : Runs(c, f) /\ pc[f] \in {"wk_lock", "wk_add"} /\ tlock[wk[f]] = d
SpinsOnList(c, d) ==
    \/ pc[c] = "sched" /\ rlock[c] = d
    \/ pc[c] = "y_list" /\ rlock[tgt[c]] = d
    \/ \E f \in Frame : Runs(c, f) /\ pc[f] = "wk_list" /\ rlock[tgt[f]] = d

\* No CPUs spin in a cycle; in particular none spins on a lock of its own, which
\* is the panic in spin_lock.
NoSpinCycle ==
    \A S \in SUBSET Cpu : S # {} =>
       \E c \in S : \A d \in S : ~SpinsOnThread(c, d) /\ ~SpinsOnList(c, d)

\* A thread that is in a run queue, or that an interrupt handler is waking, is
\* eventually executed: the wake-up is carried through, pick_next_task takes the
\* oldest entry of the run queue, and the timer ends every time slice.
WokenRuns ==
    \A t \in Thread : (Queued(t) \/ \E c \in Cpu : Waking(c, t)) ~> OnCpu(t)

----------------------------------------------------------------------------
(* The inductive invariant behind the properties above.                    *)

\* What a CPU that holds a run list's lock is doing.
HoldsList(c, d) ==
    \/ pc[c] = "picked" /\ d = c
    \/ pc[c] \in {"y_add", "wk_add"} /\ tgt[c] = d
    \/ pc[c] = "thread" /\ pc[ctx[c]] = "wk_add" /\ tgt[ctx[c]] = d

\* Locks are held across steps only where the code keeps them.
LockInv ==
    /\ \A t \in Thread, c \in Cpu :
          tlock[t] = c => pc[c] \in {"resume", "swout"} /\ next[c] = t
    /\ \A c \in Cpu : pc[c] \in {"resume", "swout"} => tlock[next[c]] = c
    /\ \A c, d \in Cpu : rlock[d] = c => HoldsList(c, d)
    /\ \A c \in Cpu : pc[c] = "picked" => rlock[c] = c
    /\ \A c \in Cpu : pc[c] \in {"y_add", "wk_add"} => rlock[tgt[c]] = c
    /\ \A t \in Thread : pc[t] = "wk_add" =>
          LET c == rlock[tgt[t]] IN c \in Cpu /\ pc[c] = "thread" /\ ctx[c] = t

\* A frame inside of wakeup_process or yield has its locals set, and the state of
\* the thread that it wakes is as it left it.
FrameInv ==
    /\ \A f \in Frame : pc[f] \in WakePc \ {"wk_ret"} => wk[f] \in Thread
    /\ \A f \in Frame : pc[f] \in {"wk_list", "wk_add", "y_list", "y_add"} => tgt[f] \in Cpu
    /\ \A f \in Frame : pc[f] \in {"wk_load", "wk_list", "wk_add"} => state[wk[f]] = "RUNNABLE"
    /\ \A f \in Frame : pc[f] = "wk_lock" => state[wk[f]] \in {"UNUSED", "SLEEPING"}

\* What a CPU runs, what myproc() says and what scheduler() has in next agree.
CpuInv ==
    \A c \in Cpu :
       /\ pc[c] \in {"resume", "thread"} \cup YieldPc => ctx[c] \in Thread
       /\ pc[c] \in {"sched", "picked", "swout"} => ctx[c] = NULL
       /\ pc[c] # "swout" => cthread[c] = ctx[c]
       /\ pc[c] = "swout" =>
             /\ next[c] \in Thread
             /\ cthread[c] = next[c]
             /\ state[next[c]] # "RUNNING"
             /\ \A d \in Cpu : ctx[d] # next[c]
       /\ ctx[c] # NULL => next[c] = ctx[c] /\ state[ctx[c]] \in {"RUNNING", "RUNNABLE"}
       /\ pc[c] \in YieldPc => state[ctx[c]] = "RUNNABLE"

\* The thread that scheduler() has picked stays in its run list until it is unlinked.
PickedInv ==
    \A c \in Cpu : pc[c] = "picked" =>
       next[c] \in Thread /\ \A t \in Thread : next[c] = t => InRun(c, t)

CtxInjective == \A c, d \in Cpu : ctx[c] # NULL /\ ctx[c] = ctx[d] => c = d

SchedInv ==
    /\ TypeOK
    /\ LockInv
    /\ FrameInv
    /\ CpuInv
    /\ PickedInv
    /\ CtxInjective
    /\ NodeOnce
    /\ QueueState
    /\ NotLost
============================================================================
