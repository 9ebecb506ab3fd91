---------------------------- MODULE SchedProofs -----------------------------
(* Proofs about Sched, part 3: SchedInv is an invariant, and implies the     *)
(* properties.                                                               *)
EXTENDS SchedWakeProofs

\* main() leaves the system in a state that satisfies the invariant: nobody holds
\* a lock, and init_t is in one run queue.
LEMMA InitInv == Init => SchedInv
  <1> SUFFICES ASSUME Init PROVE SchedInv
    OBVIOUS
  <1> USE FrameFacts
  <1> DEFINE home == IF cpu_affinity[init_t] = NO_CPU_AFF THEN 0 ELSE cpu_affinity[init_t]
  <1>0. 0 \in Cpu /\ home \in Cpu
    BY SchedAssumption DEF Cpu
  <1>1. run = [c \in Cpu |-> IF c = home THEN <<init_t>> ELSE <<>>]
    BY DEF Init
  <1> HIDE DEF home
  <1>2. TypeOK
    <2>1. run \in [Cpu -> Seq(Thread)]
      BY <1>1, SchedAssumption
    <2>2. load_cpu_id \in Cpu \cup {-1}
      BY <1>0 DEF Init
    <2> QED BY <2>1, <2>2 DEF Init, TypeOK, TaskState, CpuPc, ThreadPc, Frame
  <1>3. LockInv
    BY DEF Init, LockInv
  <1>4. FrameInv
    BY DEF Init, FrameInv, WakePc, Frame
  <1>5. CpuInv /\ PickedInv /\ CtxInjective
    BY DEF Init, CpuInv, PickedInv, CtxInjective, YieldPc
  <1>6. \A c \in Cpu, t \in Thread : InRun(c, t) <=> c = home /\ t = init_t
    <2>1. run[home] = <<init_t>> /\ \A c \in Cpu : c # home => run[c] = <<>>
      BY <1>0, <1>1
    <2>2. \A c \in Cpu, t \in Thread : c # home => ~InRun(c, t)
      BY <2>1 DEF InRun
    <2>3. \A t \in Thread : InRun(home, t) <=> t = init_t
      <3>1. Len(run[home]) = 1 /\ run[home][1] = init_t
        BY <2>1, SchedAssumption
      <3>2. 1 .. 1 = {1}
        OBVIOUS
      <3> QED BY <3>1, <3>2 DEF InRun
    <2> QED BY <2>2, <2>3
  <1>7. \A t \in Thread : /\ t \notin waitq /\ ~OnCpu(t) /\ ~BeingWoken(t)
                          /\ Queued(t) <=> t = init_t
    BY <1>0, <1>6 DEF Init, OnCpu, BeingWoken, Waking, Queued
  <1>8. RunUnique
    BY <1>1 DEF RunUnique
  <1>9. \A f \in Frame : \A t \in Thread : ~Waking(f, t)
    BY DEF Init, Waking
  <1>10. NodeOnce
    BY <1>7, <1>8, <1>9 DEF NodeOnce
  <1>11. QueueState /\ NotLost
    BY <1>7 DEF Init, QueueState, NotLost, Placed
  <1> QED BY <1>2, <1>3, <1>4, <1>5, <1>10, <1>11 DEF SchedInv

\* A step that changes none of the variables keeps the invariant.
LEMMA StutterInv ==
    ASSUME SchedInv, UNCHANGED vars
    PROVE  SchedInv'
  <1>1. /\ state' = state /\ tlock' = tlock /\ rlock' = rlock /\ run' = run
        /\ load_cpu_id' = load_cpu_id /\ cthread' = cthread /\ ctx' = ctx /\ pc' = pc
        /\ next' = next /\ wk' = wk /\ tgt' = tgt /\ waitq' = waitq
    BY DEF vars
  <1>2. TypeOK' /\ FrameInv' /\ CpuInv' /\ CtxInjective'
    BY <1>1 DEF SchedInv, TypeOK, FrameInv, CpuInv, CtxInjective
  <1>3. LockInv'
    BY <1>1 DEF SchedInv, LockInv, HoldsList
  <1>4. \A x \in Thread : /\ \A c \in Cpu : InRun(c, x)' <=> InRun(c, x)
                          /\ \A f \in Frame : Waking(f, x)' <=> Waking(f, x)
    BY <1>1 DEF InRun, Waking
  <1>5. \A x \in Thread : /\ (Queued(x)' <=> Queued(x)) /\ (OnCpu(x)' <=> OnCpu(x))
                          /\ (BeingWoken(x)' <=> BeingWoken(x))
    BY <1>1, <1>4 DEF Queued, OnCpu, BeingWoken
  <1>6. RunUnique'
    BY <1>1 DEF SchedInv, NodeOnce, RunUnique
  <1>7. PickedInv' /\ NodeOnce'
    BY <1>1, <1>4, <1>5, <1>6 DEF SchedInv, PickedInv, NodeOnce
  <1>8. QueueState' /\ NotLost'
    BY <1>1, <1>5 DEF SchedInv, QueueState, NotLost, Placed
  <1> QED BY <1>2, <1>3, <1>7, <1>8 DEF SchedInv

\* Every step of every CPU keeps the invariant.
LEMMA NextInv ==
    ASSUME SchedInv, [Next]_vars
    PROVE  SchedInv'
  <1>1. CASE UNCHANGED vars
    BY <1>1, StutterInv
  <1>2. CASE Next
    <2> PICK c \in Cpu :
           \/ KernelStep(c)
           \/ Yield(c)
           \/ \E f \in Frame : \/ WakeReturn(c, f)
                               \/ \E u \in Thread : WakeStart(c, f, u) \/ Create(c, f, u)
           \/ \E t \in Thread : Sleep(c, t) \/ Exit(c, t)
      BY <1>2 DEF Next
    <2>1. CASE SchedulerStep(c)
      BY <2>1, SchedulerPickInv, SchedulerSwitchInv, ResumeInv, SwitchedBackInv DEF SchedulerStep
    <2>2. CASE YieldStep(c)
      BY <2>2, YieldLoadInv, YieldListInv, YieldAddInv DEF YieldStep
    <2>3. ASSUME NEW f \in Frame, WakeStep(c, f) PROVE SchedInv'
      BY <2>3, WakeRunnableInv, WakeLoadInv, WakeListInv, WakeAddInv DEF WakeStep
    <2>4. CASE Yield(c)
      BY <2>4, YieldInv
    <2>5. ASSUME NEW f \in Frame, WakeReturn(c, f) PROVE SchedInv'
      BY <2>5, WakeReturnInv
    <2>6. ASSUME NEW f \in Frame, NEW u \in Thread, WakeStart(c, f, u) \/ Create(c, f, u)
          PROVE  SchedInv'
      BY <2>6, WakeStartInv, CreateInv
    <2>7. ASSUME NEW t \in Thread, Sleep(c, t) \/ Exit(c, t) PROVE SchedInv'
      BY <2>7, SleepInv, ExitInv
    <2> QED BY <2>1, <2>2, <2>3, <2>4, <2>5, <2>6, <2>7 DEF KernelStep
  <1> QED BY <1>1, <1>2

\* For any number of CPUs and threads, the scheduler keeps SchedInv.
THEOREM SchedCorrect == Spec => []SchedInv
  <1>1. Init => SchedInv
    BY InitInv
  <1>2. SchedInv /\ [Next]_vars => SchedInv'
    BY NextInv
  <1> QED BY <1>1, <1>2, PTL DEF Spec

\* For any number of CPUs and threads, no two CPUs run the same thread and
\* myproc() never returns the same thread on two CPUs.  Beyond CtxInjective the
\* case that matters is a CPU that has left a thread's stack and still names it
\* in cpus[c].thread: it holds the thread's lock until it forgets it.
THEOREM OneCpuTheorem == Spec => []OneCpuPerThread
  <1>1. SchedInv => OneCpuPerThread
    <2> SUFFICES ASSUME SchedInv, NEW c \in Cpu, NEW d \in Cpu, c # d
                 PROVE  /\ ctx[c] # NULL => ctx[c] # ctx[d]
                        /\ cthread[c] # NULL => cthread[c] # cthread[d]
      BY DEF OneCpuPerThread
    <2>1. ctx[c] # NULL => ctx[c] # ctx[d]
      BY DEF SchedInv, CtxInjective
    <2>2. CASE pc[c] = "swout" /\ pc[d] = "swout"
      <3>1. tlock[next[c]] = c /\ tlock[next[d]] = d
        BY <2>2 DEF SchedInv, LockInv
      <3> QED BY <2>1, <2>2, <3>1 DEF SchedInv, CpuInv
    <2>3. CASE pc[c] = "swout" /\ pc[d] # "swout"
      BY <2>1, <2>3 DEF SchedInv, CpuInv
    <2>4. CASE pc[c] # "swout" /\ pc[d] = "swout"
      BY <2>1, <2>4 DEF SchedInv, CpuInv
    <2>5. CASE pc[c] # "swout" /\ pc[d] # "swout"
      BY <2>1, <2>5 DEF SchedInv, CpuInv
    <2> QED BY <2>2, <2>3, <2>4, <2>5
  <1> QED BY <1>1, SchedCorrect, PTL

\* For any number of CPUs and threads, thread->sched is linked at most once.
THEOREM NodeOnceTheorem == Spec => []NodeOnce
  <1>1. SchedInv => NodeOnce
    BY DEF SchedInv
  <1> QED BY <1>1, SchedCorrect, PTL

\* For any number of CPUs and threads, no live thread is ever dropped.
THEOREM NotLostTheorem == Spec => []NotLost
  <1>1. SchedInv => NotLost
    BY DEF SchedInv
  <1> QED BY <1>1, SchedCorrect, PTL

\* For any number of CPUs and threads, what pick_next_task reads without a lock
\* is what the list says.
THEOREM QueueStateTheorem == Spec => []QueueState
  <1>1. SchedInv => QueueState
    BY DEF SchedInv
  <1> QED BY <1>1, SchedCorrect, PTL

\* For any number of CPUs and threads, an interrupt handler's myproc() is the
\* interrupted thread.
THEOREM MyprocTheorem == Spec => []MyprocExact
  <1>1. SchedInv => MyprocExact
    <2> SUFFICES ASSUME SchedInv, NEW c \in Cpu, IntrOn(c) PROVE cthread[c] = ctx[c]
      BY DEF MyprocExact
    <2>1. pc[c] # "swout"
      BY DEF SchedInv, IntrOn, LockInv, CpuInv
    <2> QED BY <2>1 DEF SchedInv, CpuInv
  <1> QED BY <1>1, SchedCorrect, PTL

\* For any number of CPUs and threads, the assertions of sched() hold.
THEOREM SchedAssertsTheorem == Spec => []SchedAsserts
  <1>1. SchedInv => SchedAsserts
    BY DEF SchedInv, SchedAsserts, LockInv, CpuInv
  <1> QED BY <1>1, SchedCorrect, PTL

\* For any number of CPUs, no set of CPUs spins in a cycle.  A CPU that holds a
\* thread's lock spins on nothing, and one that holds a run list's lock spins on
\* nothing but thread locks, so a chain of spinning CPUs has length at most two.
THEOREM NoSpinCycleTheorem == Spec => []NoSpinCycle
  <1>1. SchedInv => NoSpinCycle
    <2> SUFFICES ASSUME SchedInv, NEW S \in SUBSET Cpu, S # {}
                 PROVE  \E c \in S : \A d \in S : ~SpinsOnThread(c, d) /\ ~SpinsOnList(c, d)
      BY DEF NoSpinCycle
    <2> USE FrameFacts
    <2>1. \A d \in Cpu : (\E t \in Thread : tlock[t] = d) =>
             \A e \in Cpu : ~SpinsOnThread(d, e) /\ ~SpinsOnList(d, e)
      <3> SUFFICES ASSUME NEW d \in Cpu, NEW t \in Thread, tlock[t] = d, NEW e \in Cpu
                   PROVE  ~SpinsOnThread(d, e) /\ ~SpinsOnList(d, e)
        OBVIOUS
      <3>1. pc[d] \in {"resume", "swout"}
        BY DEF SchedInv, LockInv
      <3> QED BY <3>1 DEF SpinsOnThread, SpinsOnList, Runs
    <2>2. \A c, d \in Cpu : SpinsOnThread(c, d) => \E t \in Thread : tlock[t] = d
      <3> SUFFICES ASSUME NEW c \in Cpu, NEW d \in Cpu, SpinsOnThread(c, d)
                   PROVE  \E t \in Thread : tlock[t] = d
        OBVIOUS
      <3>1. CASE pc[c] = "picked" /\ tlock[next[c]] = d
        BY <3>1 DEF SchedInv, PickedInv
      <3>2. CASE pc[c] = "y_add" /\ tlock[cthread[c]] = d
        BY <3>2 DEF SchedInv, CpuInv, YieldPc
      <3>3. ASSUME NEW f \in Frame, pc[f] \in {"wk_lock", "wk_add"}, tlock[wk[f]] = d
            PROVE  \E t \in Thread : tlock[t] = d
        BY <3>3 DEF SchedInv, FrameInv, WakePc
      <3> QED BY <3>1, <3>2, <3>3 DEF SpinsOnThread
    <2>3. \A c, d \in Cpu : SpinsOnList(c, d) => \E e \in Cpu : rlock[e] = d
      <3> SUFFICES ASSUME NEW c \in Cpu, NEW d \in Cpu, SpinsOnList(c, d)
                   PROVE  \E e \in Cpu : rlock[e] = d
        OBVIOUS
      <3>1. CASE pc[c] = "sched" /\ rlock[c] = d
        BY <3>1
      <3>2. ASSUME NEW f \in Frame, pc[f] \in {"y_list", "wk_list"}, rlock[tgt[f]] = d
            PROVE  \E e \in Cpu : rlock[e] = d
        BY <3>2 DEF SchedInv, FrameInv
      <3> QED BY <3>1, <3>2 DEF SpinsOnList
    <2>4. \A d \in Cpu : (\E e \in Cpu : rlock[e] = d) => \A b \in Cpu : ~SpinsOnList(d, b)
      <3> SUFFICES ASSUME NEW d \in Cpu, NEW e \in Cpu, rlock[e] = d, NEW b \in Cpu
                   PROVE  ~SpinsOnList(d, b)
        OBVIOUS
      <3>1. HoldsList(d, e)
        BY DEF SchedInv, LockInv
      <3> QED BY <3>1 DEF HoldsList, SpinsOnList, Runs, SchedInv, CpuInv, CtxInjective
    <2> PICK c \in S : TRUE
      OBVIOUS
    <2>5. CASE \A d \in S : ~SpinsOnThread(c, d) /\ ~SpinsOnList(c, d)
      BY <2>5
    <2>6. CASE \E d \in S : SpinsOnThread(c, d)
      BY <2>1, <2>2, <2>6
    <2>7. CASE \E d \in S : SpinsOnList(c, d)
      <3>1. PICK d \in S : SpinsOnList(c, d)
        BY <2>7
      <3>2. \A b \in S : ~SpinsOnList(d, b)
        BY <2>3, <2>4, <3>1
      <3>3. CASE \A b \in S : ~SpinsOnThread(d, b)
        BY <3>2, <3>3
      <3>4. CASE \E b \in S : SpinsOnThread(d, b)
        BY <2>1, <2>2, <3>4
      <3> QED BY <3>3, <3>4
    <2> QED BY <2>5, <2>6, <2>7
  <1> QED BY <1>1, SchedCorrect, PTL
=============================================================================
