-------------------------- MODULE SchedWakeProofs ---------------------------
(* Proofs about Sched, part 2: wakeup_process, sleeping and exiting keep     *)
(* SchedInv.                                                                 *)
EXTENDS SchedSwitchProofs

\* Taking a thread out of a wait queue to wake it keeps the invariant.
LEMMA WakeStartInv ==
    ASSUME SchedInv, NEW c \in Cpu, NEW f \in Frame, NEW u \in Thread, WakeStart(c, f, u)
    PROVE  SchedInv'
  <1> USE FrameFacts
  <1>1. RunUnique' /\ \A e \in Cpu, x \in Thread : InRun(e, x)' <=> InRun(e, x)
    BY RunSame DEF SchedInv, NodeOnce, WakeStart
  <1>2. /\ u \in waitq /\ ~Queued(u) /\ ~OnCpu(u) /\ ~BeingWoken(u) /\ state[u] = "SLEEPING"
    BY DEF SchedInv, NodeOnce, QueueState, WakeStart
  <1>3. \/ f \in Thread /\ pc[c] = "thread" /\ ctx[c] = f /\ pc[f] = "run"
        \/ f = c /\ pc[c] \in {"sched", "thread"} /\ IntrOn(c)
    BY DEF WakeStart, CanCall, Idle
  <1>4. /\ waitq' = waitq \ {u} /\ wk' = [wk EXCEPT ![f] = u] /\ pc' = [pc EXCEPT ![f] = "wk_lock"]
        /\ run' = run /\ state' = state /\ tlock' = tlock /\ rlock' = rlock
        /\ load_cpu_id' = load_cpu_id /\ cthread' = cthread /\ ctx' = ctx /\ next' = next /\ tgt' = tgt
    BY DEF WakeStart
  <1>5. TypeOK'
    BY <1>3, <1>4 DEF SchedInv, TypeOK, CpuPc, ThreadPc, WakePc
  <1>6. NodeOnce' /\ QueueState' /\ NotLost'
    <2>1. \A g \in Frame, x \in Thread : Waking(g, x)' <=> Waking(g, x) \/ (g = f /\ x = u)
      BY <1>3, <1>4 DEF SchedInv, TypeOK, Waking, WakePc
    <2>2. \A x \in Thread : (Queued(x)' <=> Queued(x)) /\ (OnCpu(x)' <=> OnCpu(x))
      BY <1>1, <1>4 DEF Queued, OnCpu
    <2>3. BeingWoken(u)' /\ \A g \in Frame : Waking(g, u)' => g = f
      BY <1>2, <2>1 DEF BeingWoken
    <2> QED BY <1>1, <1>2, <1>4, <2>1, <2>2, <2>3, PlacesMoved, Zenon DEF SchedInv, TypeOK, Placed
  <1>7. LockInv'
    <2>1. f = c => \A d \in Cpu : rlock[d] # c
      BY <1>3 DEF IntrOn
    <2>2. ASSUME NEW b \in Cpu, NEW e \in Cpu, rlock'[e] = b
          PROVE  HoldsList(b, e)'
      <3>1. HoldsList(b, e)
        BY <1>4, <2>2 DEF SchedInv, LockInv
      <3>2. b # f
        BY <1>3, <1>4, <2>1, <2>2
      <3> QED BY <1>3, <1>4, <3>1, <3>2 DEF SchedInv, TypeOK, HoldsList, CpuInv
    <2>3. ASSUME NEW x \in Thread, pc'[x] = "wk_add"
          PROVE  LET b == rlock'[tgt'[x]] IN b \in Cpu /\ pc'[b] = "thread" /\ ctx'[b] = x
      BY <1>3, <1>4, <2>1, <2>3 DEF SchedInv, TypeOK, LockInv, FrameInv
    <2>4. /\ \A x \in Thread, b \in Cpu :
                tlock'[x] = b => pc'[b] \in {"resume", "swout"} /\ next'[b] = x
          /\ \A b \in Cpu : pc'[b] \in {"resume", "swout"} => tlock'[next'[b]] = b
          /\ \A b \in Cpu : pc'[b] = "picked" => rlock'[b] = b
          /\ \A b \in Cpu : pc'[b] \in {"y_add", "wk_add"} => rlock'[tgt'[b]] = b
      BY <1>3, <1>4 DEF SchedInv, TypeOK, LockInv
    <2> QED BY <2>2, <2>3, <2>4 DEF LockInv
  <1>8. FrameInv'
    BY <1>2, <1>4 DEF SchedInv, TypeOK, FrameInv, WakePc
  <1>9. CpuInv' /\ CtxInjective'
    BY <1>3, <1>4 DEF SchedInv, TypeOK, CpuInv, CtxInjective, YieldPc
  <1>10. PickedInv'
    BY <1>1, <1>3, <1>4 DEF SchedInv, TypeOK, PickedInv
  <1> QED BY <1>5, <1>6, <1>7, <1>8, <1>9, <1>10 DEF SchedInv

\* Creating a thread and starting to wake it keeps the invariant: an UNUSED thread
\* is in no queue, and nobody else wakes it.
LEMMA CreateInv ==
    ASSUME SchedInv, NEW c \in Cpu, NEW f \in Frame, NEW u \in Thread, Create(c, f, u)
    PROVE  SchedInv'
  <1> USE FrameFacts
  <1>1. RunUnique' /\ \A e \in Cpu, x \in Thread : InRun(e, x)' <=> InRun(e, x)
    BY RunSame DEF SchedInv, NodeOnce, Create
  <1>2. /\ u \notin waitq /\ ~Queued(u) /\ ~OnCpu(u) /\ ~BeingWoken(u) /\ state[u] = "UNUSED"
    BY DEF SchedInv, CpuInv, QueueState, OnCpu, BeingWoken, Waking, Create
  <1>3. \/ f \in Thread /\ pc[c] = "thread" /\ ctx[c] = f /\ pc[f] = "run"
        \/ f = c /\ pc[c] \in {"sched", "thread"} /\ IntrOn(c)
    BY DEF Create, CanCall, Idle
  <1>4. /\ wk' = [wk EXCEPT ![f] = u] /\ pc' = [pc EXCEPT ![f] = "wk_lock"]
        /\ run' = run /\ state' = state /\ tlock' = tlock /\ rlock' = rlock /\ waitq' = waitq
        /\ load_cpu_id' = load_cpu_id /\ cthread' = cthread /\ ctx' = ctx /\ next' = next /\ tgt' = tgt
    BY DEF Create
  <1>5. TypeOK'
    BY <1>3, <1>4 DEF SchedInv, TypeOK, CpuPc, ThreadPc, WakePc
  <1>6. NodeOnce' /\ QueueState' /\ NotLost'
    <2>1. \A g \in Frame, x \in Thread : Waking(g, x)' <=> Waking(g, x) \/ (g = f /\ x = u)
      BY <1>3, <1>4 DEF SchedInv, TypeOK, Waking, WakePc
    <2>2. \A x \in Thread : (Queued(x)' <=> Queued(x)) /\ (OnCpu(x)' <=> OnCpu(x))
      BY <1>1, <1>4 DEF Queued, OnCpu
    <2>3. BeingWoken(u)' /\ \A g \in Frame : Waking(g, u)' => g = f
      BY <1>2, <2>1 DEF BeingWoken
    <2> QED BY <1>1, <1>2, <1>4, <2>1, <2>2, <2>3, PlacesMoved, Zenon DEF SchedInv, TypeOK, Placed
  <1>7. LockInv'
    <2>1. f = c => \A d \in Cpu : rlock[d] # c
      BY <1>3 DEF IntrOn
    <2>2. ASSUME NEW b \in Cpu, NEW e \in Cpu, rlock'[e] = b
          PROVE  HoldsList(b, e)'
      <3>1. HoldsList(b, e)
        BY <1>4, <2>2 DEF SchedInv, LockInv
      <3>2. b # f
        BY <1>3, <1>4, <2>1, <2>2
      <3> QED BY <1>3, <1>4, <3>1, <3>2 DEF SchedInv, TypeOK, HoldsList, CpuInv
    <2>3. ASSUME NEW x \in Thread, pc'[x] = "wk_add"
          PROVE  LET b == rlock'[tgt'[x]] IN b \in Cpu /\ pc'[b] = "thread" /\ ctx'[b] = x
      BY <1>3, <1>4, <2>1, <2>3 DEF SchedInv, TypeOK, LockInv, FrameInv
    <2>4. /\ \A x \in Thread, b \in Cpu :
                tlock'[x] = b => pc'[b] \in {"resume", "swout"} /\ next'[b] = x
          /\ \A b \in Cpu : pc'[b] \in {"resume", "swout"} => tlock'[next'[b]] = b
          /\ \A b \in Cpu : pc'[b] = "picked" => rlock'[b] = b
          /\ \A b \in Cpu : pc'[b] \in {"y_add", "wk_add"} => rlock'[tgt'[b]] = b
      BY <1>3, <1>4 DEF SchedInv, TypeOK, LockInv
    <2> QED BY <2>2, <2>3, <2>4 DEF LockInv
  <1>8. FrameInv'
    BY <1>2, <1>4 DEF SchedInv, TypeOK, FrameInv, WakePc
  <1>9. CpuInv' /\ CtxInjective'
    BY <1>3, <1>4 DEF SchedInv, TypeOK, CpuInv, CtxInjective, YieldPc
  <1>10. PickedInv'
    BY <1>1, <1>3, <1>4 DEF SchedInv, TypeOK, PickedInv
  <1> QED BY <1>5, <1>6, <1>7, <1>8, <1>9, <1>10 DEF SchedInv

\* wakeup_process marking the thread RUNNABLE keeps the invariant.
LEMMA WakeRunnableInv ==
    ASSUME SchedInv, NEW c \in Cpu, NEW f \in Frame, WakeRunnable(c, f)
    PROVE  SchedInv'
  <1> USE FrameFacts
  <1>m. PICK m \in Thread : m = wk[f]
    BY DEF SchedInv, FrameInv, WakePc, WakeRunnable
  <1>1. RunUnique' /\ \A e \in Cpu, x \in Thread : InRun(e, x)' <=> InRun(e, x)
    BY RunSame DEF SchedInv, NodeOnce, WakeRunnable
  <1>2. /\ Waking(f, m) /\ BeingWoken(m) /\ m \notin waitq /\ ~Queued(m) /\ ~OnCpu(m)
        /\ \A g \in Frame : Waking(g, m) => g = f
    BY <1>m DEF SchedInv, NodeOnce, BeingWoken, Waking, WakePc, WakeRunnable
  <1>3. /\ pc[f] = "wk_lock" /\ tlock[m] = NULL
        /\ state' = [state EXCEPT ![m] = "RUNNABLE"] /\ pc' = [pc EXCEPT ![f] = "wk_load"]
        /\ run' = run /\ tlock' = tlock /\ rlock' = rlock /\ load_cpu_id' = load_cpu_id
        /\ cthread' = cthread /\ ctx' = ctx /\ next' = next /\ wk' = wk /\ tgt' = tgt
        /\ waitq' = waitq
    BY <1>m DEF WakeRunnable
  <1>4. TypeOK'
    BY <1>3 DEF SchedInv, TypeOK, CpuPc, ThreadPc, WakePc, TaskState
  <1>5. NodeOnce' /\ QueueState' /\ NotLost'
    <2>1. \A x \in Thread, g \in Frame : Waking(g, x)' <=> Waking(g, x)
      BY <1>3 DEF SchedInv, TypeOK, Waking, WakePc
    <2>2. \A x \in Thread : (Queued(x)' <=> Queued(x)) /\ (OnCpu(x)' <=> OnCpu(x))
                            /\ (BeingWoken(x)' <=> BeingWoken(x))
      BY <1>1, <1>3, <2>1 DEF Queued, OnCpu, BeingWoken
    <2> QED BY <1>1, <1>2, <1>3, <2>1, <2>2, PlacesMoved, Zenon DEF SchedInv, TypeOK, Placed
  <1>6. LockInv'
    BY <1>3 DEF SchedInv, TypeOK, LockInv, HoldsList, CpuInv
  <1>7. FrameInv'
    BY <1>m, <1>2, <1>3 DEF SchedInv, TypeOK, FrameInv, Waking, WakePc
  <1>8. CpuInv' /\ CtxInjective'
    BY <1>2, <1>3 DEF SchedInv, TypeOK, CpuInv, CtxInjective, YieldPc, OnCpu
  <1>9. PickedInv'
    BY <1>1, <1>3 DEF SchedInv, TypeOK, PickedInv
  <1> QED BY <1>4, <1>5, <1>6, <1>7, <1>8, <1>9 DEF SchedInv

\* wakeup_process choosing a CPU keeps the invariant.
LEMMA WakeLoadInv ==
    ASSUME SchedInv, NEW c \in Cpu, NEW f \in Frame, WakeLoad(c, f)
    PROVE  SchedInv'
  <1> USE FrameFacts
  <1>d. PICK d \in Cpu : tgt' = [tgt EXCEPT ![f] = d] /\ load_cpu_id' \in Cpu \cup {-1}
    <2>1. load_cpu_id \in Cpu \cup {-1} /\ wk[f] \in Thread
      BY DEF SchedInv, TypeOK, FrameInv, WakePc, WakeLoad
    <2>2. (load_cpu_id + 1) % NCPU \in Cpu
      BY <2>1, LoadCpu
    <2>3. CASE cpu_affinity[wk[f]] = NO_CPU_AFF
      BY <2>2, <2>3 DEF WakeLoad, ChooseCpu
    <2>4. CASE cpu_affinity[wk[f]] # NO_CPU_AFF
      <3>1. cpu_affinity[wk[f]] \in Cpu
        BY <2>1, <2>4, SchedAssumption
      <3> QED BY <2>1, <2>4, <3>1 DEF WakeLoad, ChooseCpu
    <2> QED BY <2>3, <2>4
  <1>0. /\ pc[f] = "wk_load" /\ pc' = [pc EXCEPT ![f] = "wk_list"]
        /\ run' = run /\ state' = state /\ tlock' = tlock /\ rlock' = rlock /\ cthread' = cthread
        /\ ctx' = ctx /\ next' = next /\ wk' = wk /\ waitq' = waitq
    BY DEF WakeLoad
  <1>1. TypeOK'
    BY <1>0, <1>d DEF SchedInv, TypeOK, CpuPc, ThreadPc, WakePc, YieldPc
  <1>2. \A g \in Frame, x \in Thread : Waking(g, x)' <=> Waking(g, x)
    BY <1>0 DEF SchedInv, TypeOK, Waking, WakePc
  <1>3. /\ NodeOnce' /\ QueueState' /\ NotLost'
        /\ \A e \in Cpu, x \in Thread : InRun(e, x)' <=> InRun(e, x)
    BY <1>0, <1>2, PlacesSame
  <1>4. LockInv'
    BY <1>0, <1>d DEF SchedInv, TypeOK, LockInv, HoldsList, CpuInv
  <1>5. FrameInv'
    BY <1>0, <1>d DEF SchedInv, TypeOK, FrameInv, WakePc
  <1>6. CpuInv' /\ CtxInjective'
    BY <1>0 DEF SchedInv, TypeOK, CpuInv, CtxInjective, YieldPc
  <1>7. PickedInv'
    BY <1>0, <1>3 DEF SchedInv, TypeOK, PickedInv
  <1> QED BY <1>1, <1>3, <1>4, <1>5, <1>6, <1>7 DEF SchedInv

\* wakeup_process locking that CPU's run list keeps the invariant.
LEMMA WakeListInv ==
    ASSUME SchedInv, NEW c \in Cpu, NEW f \in Frame, WakeList(c, f)
    PROVE  SchedInv'
  <1> USE FrameFacts
  <1>d. PICK d \in Cpu : d = tgt[f]
    BY DEF SchedInv, FrameInv, WakeList
  <1>c. f = c \/ (f \in Thread /\ pc[c] = "thread" /\ ctx[c] = f)
    BY DEF SchedInv, WakeList, Runs, CpuInv, TypeOK
  <1>0. /\ pc[f] = "wk_list" /\ pc' = [pc EXCEPT ![f] = "wk_add"]
        /\ rlock[d] = NULL /\ rlock' = [rlock EXCEPT ![d] = c]
        /\ run' = run /\ state' = state /\ tlock' = tlock /\ cthread' = cthread /\ ctx' = ctx
        /\ next' = next /\ wk' = wk /\ waitq' = waitq /\ tgt' = tgt /\ load_cpu_id' = load_cpu_id
    BY <1>d DEF WakeList
  <1>1. TypeOK'
    BY <1>0, <1>d DEF SchedInv, TypeOK, CpuPc, ThreadPc, WakePc, YieldPc
  <1>2. \A g \in Frame, x \in Thread : Waking(g, x)' <=> Waking(g, x)
    BY <1>0 DEF SchedInv, TypeOK, Waking, WakePc
  <1>3. /\ NodeOnce' /\ QueueState' /\ NotLost'
        /\ \A e \in Cpu, x \in Thread : InRun(e, x)' <=> InRun(e, x)
    BY <1>0, <1>2, PlacesSame
  <1>4. LockInv'
    <2>1. ASSUME NEW b \in Cpu, NEW e \in Cpu, rlock'[e] = b
          PROVE  HoldsList(b, e)'
      <3>1. CASE e = d
        BY <1>0, <1>d, <1>c, <2>1, <3>1 DEF SchedInv, TypeOK, HoldsList, CpuInv
      <3>2. CASE e # d
        BY <1>0, <1>d, <1>c, <2>1, <3>2 DEF SchedInv, TypeOK, LockInv, HoldsList, CpuInv
      <3> QED BY <3>1, <3>2
    <2>2. ASSUME NEW x \in Thread, pc'[x] = "wk_add"
          PROVE  LET b == rlock'[tgt'[x]] IN b \in Cpu /\ pc'[b] = "thread" /\ ctx'[b] = x
      BY <1>0, <1>d, <1>c, <2>2 DEF SchedInv, TypeOK, LockInv, FrameInv
    <2>3. /\ \A b \in Cpu : pc'[b] = "picked" => rlock'[b] = b
          /\ \A b \in Cpu : pc'[b] \in {"y_add", "wk_add"} => rlock'[tgt'[b]] = b
      BY <1>0, <1>d, <1>c,  SchedAssumption DEF SchedInv, TypeOK, LockInv, FrameInv
    <2>4. /\ \A t \in Thread, b \in Cpu :
                tlock'[t] = b => pc'[b] \in {"resume", "swout"} /\ next'[b] = t
          /\ \A b \in Cpu : pc'[b] \in {"resume", "swout"} => tlock'[next'[b]] = b
      BY <1>0 DEF SchedInv, TypeOK, LockInv
    <2> QED BY <2>1, <2>2, <2>3, <2>4 DEF LockInv
  <1>5. FrameInv'
    BY <1>0, <1>d DEF SchedInv, TypeOK, FrameInv, WakePc
  <1>6. CpuInv' /\ CtxInjective'
    BY <1>0 DEF SchedInv, TypeOK, CpuInv, CtxInjective, YieldPc
  <1>7. PickedInv'
    BY <1>0, <1>3 DEF SchedInv, TypeOK, PickedInv
  <1> QED BY <1>1, <1>3, <1>4, <1>5, <1>6, <1>7 DEF SchedInv

\* wakeup_process linking the thread keeps the invariant: only this waker had the
\* thread, so it was in no list.
LEMMA WakeAddInv ==
    ASSUME SchedInv, NEW c \in Cpu, NEW f \in Frame, WakeAdd(c, f)
    PROVE  SchedInv'
  <1> USE FrameFacts
  <1>m. PICK m \in Thread : m = wk[f]
    BY DEF SchedInv, FrameInv, WakePc, WakeAdd
  <1>d. PICK d \in Cpu : d = tgt[f]
    BY DEF SchedInv, FrameInv, WakeAdd
  <1>2. /\ Waking(f, m) /\ m \notin waitq /\ ~Queued(m) /\ ~OnCpu(m)
        /\ \A g \in Frame : Waking(g, m) => g = f
        /\ state[m] = "RUNNABLE"
    BY <1>m DEF SchedInv, NodeOnce, BeingWoken, Waking, WakePc, FrameInv, WakeAdd
  <1>3. /\ pc[f] = "wk_add" /\ pc' = [pc EXCEPT ![f] = "wk_ret"]
        /\ run' = [run EXCEPT ![d] = list_add_head(m, @)]
        /\ rlock' = [rlock EXCEPT ![d] = NULL]
        /\ wk' = [wk EXCEPT ![f] = NULL] /\ tgt' = [tgt EXCEPT ![f] = NULL]
        /\ tlock' = tlock /\ state' = state /\ load_cpu_id' = load_cpu_id /\ ctx' = ctx
        /\ cthread' = cthread /\ next' = next /\ waitq' = waitq
    BY <1>m, <1>d DEF WakeAdd
  <1>1. /\ run' \in [Cpu -> Seq(Thread)] /\ RunUnique'
        /\ \A e \in Cpu, x \in Thread : InRun(e, x)' <=> InRun(e, x) \/ (e = d /\ x = m)
    <2>1. run \in [Cpu -> Seq(Thread)] /\ RunUnique
      BY DEF SchedInv, TypeOK, NodeOnce
    <2> QED BY <1>2, <1>3, <2>1, RunAdd, Zenon
  <1>c. f = c \/ (f \in Thread /\ pc[c] = "thread" /\ ctx[c] = f)
    BY DEF SchedInv, WakeAdd, Runs, CpuInv, TypeOK
  <1>4. TypeOK'
    BY <1>1, <1>3 DEF SchedInv, TypeOK, CpuPc, ThreadPc, WakePc
  <1>5. NodeOnce' /\ QueueState' /\ NotLost'
    <2>1. \A x \in Thread, g \in Frame : Waking(g, x)' <=> Waking(g, x) /\ g # f
      BY <1>3 DEF SchedInv, TypeOK, Waking, WakePc
    <2>2. Queued(m)' /\ ~OnCpu(m)' /\ ~BeingWoken(m)' /\ \A g \in Frame : ~Waking(g, m)'
      BY <1>1, <1>2, <1>3, <2>1 DEF Queued, OnCpu, BeingWoken
    <2>4. \A x \in Thread : x # m => \A g \in Frame : Waking(g, x)' <=> Waking(g, x)
      BY <1>m, <2>1 DEF Waking
    <2>3. \A x \in Thread : x # m => (Queued(x)' <=> Queued(x)) /\ (OnCpu(x)' <=> OnCpu(x))
      BY <1>1, <1>3 DEF Queued, OnCpu
    <2> QED BY <1>1, <1>2, <1>3, <2>2, <2>3, <2>4, PlacesMoved, Zenon
            DEF SchedInv, TypeOK, Placed
  <1>6. LockInv'
    <2>1. \A b, e \in Cpu : rlock'[e] = b => HoldsList(b, e)'
      <3> SUFFICES ASSUME NEW b \in Cpu, NEW e \in Cpu, rlock'[e] = b
                   PROVE  HoldsList(b, e)'
        OBVIOUS
      <3>1. e # d /\ rlock[e] = b
        BY <1>3 DEF SchedInv, TypeOK
      <3>2. HoldsList(b, e)
        BY <3>1 DEF SchedInv, LockInv
      <3> QED BY <1>d, <1>c, <1>3, <3>1, <3>2 DEF SchedInv, TypeOK, HoldsList, CpuInv
    <2>2. rlock[d] = c
      BY <1>c, <1>d, <1>3 DEF SchedInv, LockInv, CtxInjective
    <2>3. \A b \in Cpu : pc'[b] \in {"y_add", "wk_add"} => rlock'[tgt'[b]] = b
      BY <1>c, <1>d, <1>3, <2>2 DEF SchedInv, TypeOK, LockInv, FrameInv
    <2>4. \A b \in Cpu : pc'[b] = "picked" => rlock'[b] = b
      BY <1>c, <1>3, <2>2 DEF SchedInv, TypeOK, LockInv
    <2>5. ASSUME NEW x \in Thread, pc'[x] = "wk_add"
          PROVE  rlock'[tgt'[x]] \in Cpu /\ pc'[rlock'[tgt'[x]]] = "thread" /\ ctx'[rlock'[tgt'[x]]] = x
      <3>1. x # f /\ pc[x] = "wk_add" /\ tgt'[x] = tgt[x] /\ tgt[x] \in Cpu
        BY <1>3, <2>5 DEF SchedInv, TypeOK, FrameInv
      <3>2. PICK b \in Cpu : pc[b] = "thread" /\ ctx[b] = x /\ rlock[tgt[x]] = b
        BY <3>1 DEF SchedInv, LockInv
      <3>3. b # c /\ b # f
        BY <1>c, <1>3, <3>1, <3>2
      <3> QED BY <1>3, <2>2, <3>1, <3>2, <3>3 DEF SchedInv, TypeOK
    <2>6. /\ \A t \in Thread, b \in Cpu :
                tlock'[t] = b => pc'[b] \in {"resume", "swout"} /\ next'[b] = t
          /\ \A b \in Cpu : pc'[b] \in {"resume", "swout"} => tlock'[next'[b]] = b
      BY <1>3 DEF SchedInv, TypeOK, LockInv
    <2> QED BY <2>1, <2>3, <2>4, <2>5, <2>6 DEF LockInv
  <1>7. FrameInv'
    BY <1>3 DEF SchedInv, TypeOK, FrameInv, WakePc
  <1>8. CpuInv' /\ CtxInjective'
    BY <1>c, <1>3 DEF SchedInv, TypeOK, CpuInv, CtxInjective, YieldPc
  <1>9. PickedInv'
    BY <1>1, <1>3 DEF SchedInv, TypeOK, PickedInv
  <1> QED BY <1>4, <1>5, <1>6, <1>7, <1>8, <1>9 DEF SchedInv

\* Returning from wakeup_process keeps the invariant.
LEMMA WakeReturnInv ==
    ASSUME SchedInv, NEW c \in Cpu, NEW f \in Frame, WakeReturn(c, f)
    PROVE  SchedInv'
  <1> USE FrameFacts
  <1>c. f = c \/ (f \in Thread /\ pc[c] = "thread" /\ ctx[c] = f)
    BY DEF SchedInv, WakeReturn, Runs, CpuInv, TypeOK
  <1>p. PICK p \in {"run", "sched", "thread"} :
           /\ pc' = [pc EXCEPT ![f] = p]
           /\ f \in Thread => p = "run"
           /\ f \in Cpu => p = IF ctx[f] = NULL THEN "sched" ELSE "thread"
    BY <1>c DEF WakeReturn
  <1>0. /\ pc[f] = "wk_ret" /\ rlock' = rlock /\ tgt' = tgt /\ load_cpu_id' = load_cpu_id
        /\ run' = run /\ state' = state /\ tlock' = tlock /\ cthread' = cthread /\ ctx' = ctx
        /\ next' = next /\ wk' = wk /\ waitq' = waitq
    BY DEF WakeReturn
  <1>1. TypeOK'
    BY <1>0, <1>p DEF SchedInv, TypeOK, CpuPc, ThreadPc, WakePc
  <1>2. \A g \in Frame, x \in Thread : Waking(g, x)' <=> Waking(g, x)
    BY <1>0, <1>p DEF SchedInv, TypeOK, Waking, WakePc
  <1>3. /\ NodeOnce' /\ QueueState' /\ NotLost'
        /\ \A e \in Cpu, x \in Thread : InRun(e, x)' <=> InRun(e, x)
    BY <1>0, <1>2, PlacesSame
  <1>4. LockInv'
    BY <1>0, <1>p DEF SchedInv, TypeOK, LockInv, HoldsList, CpuInv
  <1>5. FrameInv'
    BY <1>0, <1>p DEF SchedInv, TypeOK, FrameInv, WakePc
  <1>6. CpuInv' /\ CtxInjective'
    BY <1>0, <1>p DEF SchedInv, TypeOK, CpuInv, CtxInjective, YieldPc
  <1>7. PickedInv'
    BY <1>0, <1>p, <1>3 DEF SchedInv, TypeOK, PickedInv
  <1> QED BY <1>1, <1>3, <1>4, <1>5, <1>6, <1>7 DEF SchedInv

\* A thread going to sleep in a wait queue keeps the invariant.
LEMMA SleepInv ==
    ASSUME SchedInv, NEW c \in Cpu, NEW t \in Thread, Sleep(c, t)
    PROVE  SchedInv'
  <1> USE FrameFacts
  <1>1. RunUnique' /\ \A e \in Cpu, x \in Thread : InRun(e, x)' <=> InRun(e, x)
    BY RunSame DEF SchedInv, NodeOnce, Sleep
  <1>2. /\ pc[c] = "thread" /\ ctx[c] = t /\ pc[t] = "run" /\ tlock[t] = NULL
        /\ cthread[c] = t /\ next[c] = t
        /\ \A d \in Cpu : d # c => ctx[d] # t
    BY DEF SchedInv, CpuInv, CtxInjective, Sleep, Idle
  <1>3. t \notin waitq /\ ~Queued(t) /\ ~BeingWoken(t)
    BY <1>2 DEF SchedInv, NodeOnce, OnCpu
  <1>4. /\ tlock' = [tlock EXCEPT ![t] = c] /\ state' = [state EXCEPT ![t] = "SLEEPING"]
        /\ waitq' = waitq \cup {t} /\ ctx' = [ctx EXCEPT ![c] = NULL]
        /\ pc' = [pc EXCEPT ![c] = "swout"] /\ run' = run /\ load_cpu_id' = load_cpu_id
        /\ rlock' = rlock /\ cthread' = cthread /\ next' = next /\ wk' = wk /\ tgt' = tgt
    BY DEF Sleep
  <1>5. TypeOK'
    BY <1>4 DEF SchedInv, TypeOK, CpuPc, TaskState
  <1>6. NodeOnce' /\ QueueState' /\ NotLost'
    <2>1. \A x \in Thread, g \in Frame : Waking(g, x)' <=> Waking(g, x)
      BY <1>2, <1>4 DEF SchedInv, TypeOK, Waking, WakePc
    <2>2. ~Queued(t)' /\ ~OnCpu(t)' /\ ~BeingWoken(t)'
      BY <1>1, <1>2, <1>3, <1>4, <2>1 DEF SchedInv, TypeOK, Queued, OnCpu, BeingWoken
    <2>3. \A x \in Thread : x # t => (Queued(x)' <=> Queued(x)) /\ (OnCpu(x)' <=> OnCpu(x))
      BY <1>1, <1>2, <1>4 DEF SchedInv, TypeOK, Queued, OnCpu
    <2> QED BY <1>1, <1>3, <1>4, <2>1, <2>2, <2>3, PlacesMoved, Zenon
            DEF SchedInv, TypeOK, Placed, BeingWoken
  <1>7. LockInv'
    <2>1. \A d \in Cpu : rlock[d] # c
      BY <1>2 DEF SchedInv, LockInv, HoldsList
    <2>2. ASSUME NEW d \in Cpu, NEW e \in Cpu, rlock'[e] = d
          PROVE  HoldsList(d, e)'
      <3>1. HoldsList(d, e) /\ d # c
        BY <1>4, <2>1, <2>2 DEF SchedInv, LockInv
      <3> QED BY <1>4, <3>1 DEF SchedInv, TypeOK, HoldsList, CpuInv
    <2>3. ASSUME NEW x \in Thread, pc'[x] = "wk_add"
          PROVE  rlock'[tgt'[x]] \in Cpu /\ pc'[rlock'[tgt'[x]]] = "thread" /\ ctx'[rlock'[tgt'[x]]] = x
      BY <1>2, <1>4, <2>3 DEF SchedInv, TypeOK, LockInv
    <2>4. /\ \A x \in Thread, d \in Cpu :
                tlock'[x] = d => pc'[d] \in {"resume", "swout"} /\ next'[d] = x
          /\ \A d \in Cpu : pc'[d] \in {"resume", "swout"} => tlock'[next'[d]] = d
      BY <1>2, <1>4 DEF SchedInv, TypeOK, LockInv
    <2>5. /\ \A d \in Cpu : pc'[d] = "picked" => rlock'[d] = d
          /\ \A d \in Cpu : pc'[d] \in {"y_add", "wk_add"} => rlock'[tgt'[d]] = d
      BY <1>2, <1>4 DEF SchedInv, TypeOK, LockInv
    <2> QED BY <2>2, <2>3, <2>4, <2>5 DEF LockInv
  <1>8. FrameInv'
    BY <1>2, <1>3, <1>4 DEF SchedInv, TypeOK, FrameInv, BeingWoken, Waking, WakePc
  <1>9. CpuInv' /\ CtxInjective'
    BY <1>2, <1>4 DEF SchedInv, TypeOK, CpuInv, CtxInjective, YieldPc
  <1>10. PickedInv'
    BY <1>1, <1>2, <1>4 DEF SchedInv, TypeOK, PickedInv
  <1> QED BY <1>5, <1>6, <1>7, <1>8, <1>9, <1>10 DEF SchedInv

\* A thread becoming a zombie keeps the invariant.
LEMMA ExitInv ==
    ASSUME SchedInv, NEW c \in Cpu, NEW t \in Thread, Exit(c, t)
    PROVE  SchedInv'
  <1> USE FrameFacts
  <1>1. RunUnique' /\ \A e \in Cpu, x \in Thread : InRun(e, x)' <=> InRun(e, x)
    BY RunSame DEF SchedInv, NodeOnce, Exit
  <1>2. /\ pc[c] = "thread" /\ ctx[c] = t /\ pc[t] = "run" /\ tlock[t] = NULL
        /\ cthread[c] = t /\ next[c] = t
        /\ \A d \in Cpu : d # c => ctx[d] # t
    BY DEF SchedInv, CpuInv, CtxInjective, Exit, Idle
  <1>3. t \notin waitq /\ ~Queued(t) /\ ~BeingWoken(t)
    BY <1>2 DEF SchedInv, NodeOnce, OnCpu
  <1>4. /\ tlock' = [tlock EXCEPT ![t] = c] /\ state' = [state EXCEPT ![t] = "ZOMBIE"]
        /\ waitq' = waitq /\ ctx' = [ctx EXCEPT ![c] = NULL]
        /\ pc' = [pc EXCEPT ![c] = "swout"] /\ run' = run /\ load_cpu_id' = load_cpu_id
        /\ rlock' = rlock /\ cthread' = cthread /\ next' = next /\ wk' = wk /\ tgt' = tgt
    BY DEF Exit
  <1>5. TypeOK'
    BY <1>4 DEF SchedInv, TypeOK, CpuPc, TaskState
  <1>6. NodeOnce' /\ QueueState' /\ NotLost'
    <2>1. \A x \in Thread, g \in Frame : Waking(g, x)' <=> Waking(g, x)
      BY <1>2, <1>4 DEF SchedInv, TypeOK, Waking, WakePc
    <2>2. ~Queued(t)' /\ ~OnCpu(t)' /\ ~BeingWoken(t)'
      BY <1>1, <1>2, <1>3, <1>4, <2>1 DEF SchedInv, TypeOK, Queued, OnCpu, BeingWoken
    <2>3. \A x \in Thread : x # t => (Queued(x)' <=> Queued(x)) /\ (OnCpu(x)' <=> OnCpu(x))
      BY <1>1, <1>2, <1>4 DEF SchedInv, TypeOK, Queued, OnCpu
    <2> QED BY <1>1, <1>3, <1>4, <2>1, <2>2, <2>3, PlacesMoved, Zenon
            DEF SchedInv, TypeOK, Placed, BeingWoken
  <1>7. LockInv'
    <2>1. \A d \in Cpu : rlock[d] # c
      BY <1>2 DEF SchedInv, LockInv, HoldsList
    <2>2. ASSUME NEW d \in Cpu, NEW e \in Cpu, rlock'[e] = d
          PROVE  HoldsList(d, e)'
      <3>1. HoldsList(d, e) /\ d # c
        BY <1>4, <2>1, <2>2 DEF SchedInv, LockInv
      <3> QED BY <1>4, <3>1 DEF SchedInv, TypeOK, HoldsList, CpuInv
    <2>3. ASSUME NEW x \in Thread, pc'[x] = "wk_add"
          PROVE  rlock'[tgt'[x]] \in Cpu /\ pc'[rlock'[tgt'[x]]] = "thread" /\ ctx'[rlock'[tgt'[x]]] = x
      BY <1>2, <1>4, <2>3 DEF SchedInv, TypeOK, LockInv
    <2>4. /\ \A x \in Thread, d \in Cpu :
                tlock'[x] = d => pc'[d] \in {"resume", "swout"} /\ next'[d] = x
          /\ \A d \in Cpu : pc'[d] \in {"resume", "swout"} => tlock'[next'[d]] = d
      BY <1>2, <1>4 DEF SchedInv, TypeOK, LockInv
    <2>5. /\ \A d \in Cpu : pc'[d] = "picked" => rlock'[d] = d
          /\ \A d \in Cpu : pc'[d] \in {"y_add", "wk_add"} => rlock'[tgt'[d]] = d
      BY <1>2, <1>4 DEF SchedInv, TypeOK, LockInv
    <2> QED BY <2>2, <2>3, <2>4, <2>5 DEF LockInv
  <1>8. FrameInv'
    BY <1>2, <1>3, <1>4 DEF SchedInv, TypeOK, FrameInv, BeingWoken, Waking, WakePc
  <1>9. CpuInv' /\ CtxInjective'
    BY <1>2, <1>4 DEF SchedInv, TypeOK, CpuInv, CtxInjective, YieldPc
  <1>10. PickedInv'
    BY <1>1, <1>2, <1>4 DEF SchedInv, TypeOK, PickedInv
  <1> QED BY <1>5, <1>6, <1>7, <1>8, <1>9, <1>10 DEF SchedInv
=============================================================================
