------------------------- MODULE SchedSwitchProofs --------------------------
(* Proofs about Sched, part 1: lemmas about run lists and about where        *)
(* threads are, and scheduler() and yield() keep SchedInv.                   *)
EXTENDS Sched, TLAPS

\* A thread is not a CPU, and neither is NULL.
LEMMA FrameFacts ==
    /\ \A t \in Thread : t \in Frame /\ t \notin Cpu /\ t # NULL
    /\ \A c \in Cpu : c \in Frame /\ c \notin Thread /\ c # NULL
  BY SchedAssumption DEF Frame

\* list_add_head puts the thread in front and moves the others up by one.
LEMMA AddHead ==
    ASSUME NEW t \in Thread, NEW q \in Seq(Thread)
    PROVE  /\ list_add_head(t, q) \in Seq(Thread)
           /\ Len(list_add_head(t, q)) = Len(q) + 1
           /\ list_add_head(t, q)[1] = t
           /\ \A i \in 1 .. Len(q) : list_add_head(t, q)[i + 1] = q[i]
           /\ \A i \in 2 .. Len(q) + 1 : list_add_head(t, q)[i] = q[i - 1]
  BY DEF list_add_head

\* list_del_init drops one element and keeps the order of the others.
LEMMA DelInit ==
    ASSUME NEW q \in Seq(Thread), NEW k \in 1 .. Len(q)
    PROVE  /\ list_del_init(q, k) \in Seq(Thread)
           /\ Len(list_del_init(q, k)) = Len(q) - 1
           /\ \A i \in 1 .. Len(q) - 1 :
                 list_del_init(q, k)[i] = IF i < k THEN q[i] ELSE q[i + 1]
  BY DEF list_del_init

\* The load balancer stays within the CPUs.
LEMMA LoadCpu ==
    ASSUME NEW i \in Cpu \cup {-1}
    PROVE  (i + 1) % NCPU \in Cpu
  BY SchedAssumption DEF Cpu

\* list_add_head at the level of the run lists: one thread comes, the rest stays.
LEMMA RunAdd ==
    ASSUME run \in [Cpu -> Seq(Thread)], RunUnique,
           NEW d \in Cpu, NEW t \in Thread, ~Queued(t),
           run' = [run EXCEPT ![d] = list_add_head(t, @)]
    PROVE  /\ run' \in [Cpu -> Seq(Thread)]
           /\ \A e \in Cpu, x \in Thread : InRun(e, x)' <=> InRun(e, x) \/ (e = d /\ x = t)
           /\ RunUnique'
  <1> DEFINE q == list_add_head(t, run[d])
  <1>1. /\ q \in Seq(Thread) /\ Len(q) = Len(run[d]) + 1 /\ q[1] = t
        /\ \A i \in 1 .. Len(run[d]) : q[i + 1] = run[d][i]
        /\ \A i \in 2 .. Len(run[d]) + 1 : q[i] = run[d][i - 1]
    <2>1. run[d] \in Seq(Thread)
      OBVIOUS
    <2> QED BY <2>1, AddHead
  <1>2. run' = [run EXCEPT ![d] = q]
    OBVIOUS
  <1>3. \A e \in Cpu : Len(run[e]) \in Nat
    OBVIOUS
  <1> HIDE DEF q
  <1>4. run' \in [Cpu -> Seq(Thread)]
    BY <1>1, <1>2
  <1>5. \A e \in Cpu, x \in Thread : InRun(e, x)' <=> InRun(e, x) \/ (e = d /\ x = t)
    <2> SUFFICES ASSUME NEW e \in Cpu, NEW x \in Thread
                 PROVE  InRun(e, x)' <=> InRun(e, x) \/ (e = d /\ x = t)
      OBVIOUS
    <2>1. CASE e # d
      BY <1>2, <2>1 DEF InRun
    <2>2. CASE e = d
      <3>1. run'[e] = q
        BY <1>2, <2>2
      <3>2. InRun(e, x)' => InRun(e, x) \/ x = t
        BY <1>1, <1>3, <2>2, <3>1 DEF InRun
      <3>3. x = t => InRun(e, x)'
        BY <1>1, <1>3, <3>1 DEF InRun
      <3>4. ASSUME InRun(e, x) PROVE InRun(e, x)'
        <4>1. PICK k \in 1 .. Len(run[e]) : run[e][k] = x
          BY <3>4 DEF InRun
        <4>2. k + 1 \in 1 .. Len(q) /\ q[k + 1] = x
          BY <1>1, <1>3, <2>2, <4>1
        <4> QED BY <3>1, <4>2 DEF InRun
      <3> QED BY <2>2, <3>2, <3>3, <3>4
    <2> QED BY <2>1, <2>2
  <1>6. RunUnique'
    <2> SUFFICES ASSUME NEW c \in Cpu, NEW e \in Cpu,
                        NEW i \in 1 .. Len(run'[c]), NEW j \in 1 .. Len(run'[e]),
                        run'[c][i] = run'[e][j]
                 PROVE  c = e /\ i = j
      BY DEF RunUnique
    <2>1. \A e1 \in Cpu : \A k \in 1 .. Len(run[e1]) : run[e1][k] # t
      BY DEF Queued, InRun
    <2>2. CASE c # d /\ e # d
      BY <1>2, <2>2 DEF RunUnique
    <2>3. \A m \in 1 .. Len(q) : q[m] # t => m - 1 \in 1 .. Len(run[d]) /\ q[m] = run[d][m - 1]
      BY <1>1, <1>3
    <2>4. \A m \in 1 .. Len(q) : q[m] = t => m = 1
      <3> SUFFICES ASSUME NEW m \in 1 .. Len(q), m # 1 PROVE q[m] # t
        OBVIOUS
      <3>1. m - 1 \in 1 .. Len(run[d]) /\ q[m] = run[d][m - 1]
        BY <1>1, <1>3
      <3> QED BY <2>1, <3>1
    <2>5. CASE c = d /\ e # d
      <3>1. i \in 1 .. Len(q) /\ q[i] = run[e][j] /\ j \in 1 .. Len(run[e])
        BY <1>2, <2>5
      <3>2. q[i] # t
        BY <2>1, <3>1
      <3> QED BY <2>3, <2>5, <3>1, <3>2 DEF RunUnique
    <2>6. CASE c # d /\ e = d
      <3>1. j \in 1 .. Len(q) /\ q[j] = run[c][i] /\ i \in 1 .. Len(run[c])
        BY <1>2, <2>6
      <3>2. q[j] # t
        BY <2>1, <3>1
      <3> QED BY <2>3, <2>6, <3>1, <3>2 DEF RunUnique
    <2>7. CASE c = d /\ e = d
      <3>1. i \in 1 .. Len(q) /\ j \in 1 .. Len(q) /\ q[i] = q[j]
        BY <1>2, <2>7
      <3>2. CASE q[i] = t
        <4>1. i = 1 /\ j = 1
          BY <2>4, <3>1, <3>2
        <4> QED BY <2>7, <4>1
      <3>3. CASE q[i] # t
        <4>1. /\ i - 1 \in 1 .. Len(run[d]) /\ j - 1 \in 1 .. Len(run[d])
              /\ run[d][i - 1] = run[d][j - 1]
          BY <2>3, <3>1, <3>3
        <4>2. i - 1 = j - 1
          BY <4>1 DEF RunUnique
        <4> QED BY <2>7, <3>1, <4>2
      <3> QED BY <3>2, <3>3
    <2> QED BY <2>2, <2>5, <2>6, <2>7
  <1> QED BY <1>4, <1>5, <1>6

\* list_del_init at the level of the run lists: one thread goes, the rest stays.
LEMMA RunDel ==
    ASSUME run \in [Cpu -> Seq(Thread)], RunUnique,
           NEW d \in Cpu, NEW k \in 1 .. Len(run[d]),
           run' = [run EXCEPT ![d] = list_del_init(run[d], k)]
    PROVE  /\ run' \in [Cpu -> Seq(Thread)]
           /\ \A e \in Cpu, x \in Thread : InRun(e, x)' <=> InRun(e, x) /\ x # run[d][k]
           /\ RunUnique'
  <1> DEFINE q == list_del_init(run[d], k)
  <1>1. /\ q \in Seq(Thread) /\ Len(q) = Len(run[d]) - 1
        /\ \A i \in 1 .. Len(run[d]) - 1 : q[i] = IF i < k THEN run[d][i] ELSE run[d][i + 1]
    <2>1. run[d] \in Seq(Thread)
      OBVIOUS
    <2> QED BY <2>1, DelInit
  <1>2. run' = [run EXCEPT ![d] = q]
    OBVIOUS
  <1>3. \A e \in Cpu : Len(run[e]) \in Nat
    OBVIOUS
  <1> HIDE DEF q
  <1>4. run' \in [Cpu -> Seq(Thread)]
    BY <1>1, <1>2
  <1>5. \A e \in Cpu, x \in Thread : InRun(e, x)' <=> InRun(e, x) /\ x # run[d][k]
    <2> SUFFICES ASSUME NEW e \in Cpu, NEW x \in Thread
                 PROVE  InRun(e, x)' <=> InRun(e, x) /\ x # run[d][k]
      OBVIOUS
    <2>1. CASE e # d
      BY <1>2, <2>1 DEF InRun, RunUnique
    <2>2. CASE e = d
      <3>1. run'[e] = q
        BY <1>2, <2>2
      <3>2. ASSUME InRun(e, x)' PROVE InRun(e, x) /\ x # run[d][k]
        <4>1. PICK i \in 1 .. Len(q) : q[i] = x
          BY <3>1, <3>2 DEF InRun
        <4>2. CASE i < k
          <5>1. i \in 1 .. Len(run[e]) /\ run[e][i] = x /\ i # k
            BY <1>1, <1>3, <2>2, <4>1, <4>2
          <5> QED BY <2>2, <5>1 DEF InRun, RunUnique
        <4>3. CASE i >= k
          <5>1. i + 1 \in 1 .. Len(run[e]) /\ run[e][i + 1] = x /\ i + 1 # k
            BY <1>1, <1>3, <2>2, <4>1, <4>3
          <5> QED BY <2>2, <5>1 DEF InRun, RunUnique
        <4> QED BY <4>2, <4>3
      <3>3. ASSUME InRun(e, x), x # run[d][k] PROVE InRun(e, x)'
        <4>1. PICK i \in 1 .. Len(run[e]) : run[e][i] = x
          BY <3>3 DEF InRun
        <4>2. CASE i < k
          <5>1. i \in 1 .. Len(q) /\ q[i] = x
            BY <1>1, <1>3, <2>2, <4>1, <4>2
          <5> QED BY <3>1, <5>1 DEF InRun
        <4>3. CASE i > k
          <5>1. i - 1 \in 1 .. Len(q) /\ q[i - 1] = x
            BY <1>1, <1>3, <2>2, <4>1, <4>3
          <5> QED BY <3>1, <5>1 DEF InRun
        <4> QED BY <2>2, <3>3, <4>1, <4>2, <4>3
      <3> QED BY <3>2, <3>3
    <2> QED BY <2>1, <2>2
  <1>6. RunUnique'
    <2> SUFFICES ASSUME NEW c \in Cpu, NEW e \in Cpu,
                        NEW i \in 1 .. Len(run'[c]), NEW j \in 1 .. Len(run'[e]),
                        run'[c][i] = run'[e][j]
                 PROVE  c = e /\ i = j
      BY DEF RunUnique
    <2> DEFINE s(m) == IF m < k THEN m ELSE m + 1
    <2>1. \A m \in 1 .. Len(q) : s(m) \in 1 .. Len(run[d]) /\ q[m] = run[d][s(m)]
      BY <1>1, <1>3
    <2>2. \A m, n \in Int : s(m) = s(n) => m = n
      OBVIOUS
    <2> HIDE DEF s
    <2>3. CASE c # d /\ e # d
      BY <1>2, <2>3 DEF RunUnique
    <2>4. CASE c = d /\ e # d
      <3>1. i \in 1 .. Len(q) /\ q[i] = run[e][j] /\ j \in 1 .. Len(run[e])
        BY <1>2, <2>4
      <3> QED BY <2>1, <2>4, <3>1 DEF RunUnique
    <2>5. CASE c # d /\ e = d
      <3>1. j \in 1 .. Len(q) /\ q[j] = run[c][i] /\ i \in 1 .. Len(run[c])
        BY <1>2, <2>5
      <3> QED BY <2>1, <2>5, <3>1 DEF RunUnique
    <2>6. CASE c = d /\ e = d
      <3>1. i \in 1 .. Len(q) /\ j \in 1 .. Len(q) /\ q[i] = q[j]
        BY <1>2, <2>6
      <3>2. s(i) = s(j)
        BY <2>1, <3>1 DEF RunUnique
      <3>3. i \in Int /\ j \in Int
        BY <1>3, <3>1
      <3> QED BY <2>2, <2>6, <3>2, <3>3
    <2> QED BY <2>3, <2>4, <2>5, <2>6
  <1> QED BY <1>4, <1>5, <1>6

\* A step that leaves the run lists alone.
LEMMA RunSame ==
    ASSUME run' = run, RunUnique
    PROVE  RunUnique' /\ \A e \in Cpu, x \in Thread : InRun(e, x)' <=> InRun(e, x)
  BY DEF RunUnique, InRun

\* A step that leaves every thread where it is and as it is.
LEMMA PlacesSame ==
    ASSUME SchedInv, run' = run, state' = state, ctx' = ctx, waitq' = waitq,
           \A f \in Frame, x \in Thread : Waking(f, x)' <=> Waking(f, x)
    PROVE  /\ NodeOnce' /\ QueueState' /\ NotLost'
           /\ \A e \in Cpu, x \in Thread : InRun(e, x)' <=> InRun(e, x)
  <1>1. RunUnique' /\ \A e \in Cpu, x \in Thread : InRun(e, x)' <=> InRun(e, x)
    BY RunSame DEF SchedInv, NodeOnce
  <1>2. \A x \in Thread : /\ (Queued(x)' <=> Queued(x)) /\ (OnCpu(x)' <=> OnCpu(x))
                          /\ (BeingWoken(x)' <=> BeingWoken(x))
    BY <1>1 DEF Queued, OnCpu, BeingWoken
  <1>3. NodeOnce'
    BY <1>1, <1>2 DEF SchedInv, NodeOnce
  <1> QED BY <1>1, <1>2, <1>3 DEF SchedInv, QueueState, NotLost, Placed

\* A step that moves or changes one thread m and leaves the others alone.
LEMMA PlacesMoved ==
    ASSUME SchedInv, NEW m \in Thread, RunUnique', waitq' \subseteq Thread,
           \A x \in Thread : x # m =>
              /\ state'[x] = state[x]
              /\ x \in waitq' <=> x \in waitq
              /\ Queued(x)' <=> Queued(x)
              /\ OnCpu(x)' <=> OnCpu(x)
              /\ \A f \in Frame : Waking(f, x)' <=> Waking(f, x),
           m \in waitq' => ~Queued(m)' /\ ~OnCpu(m)' /\ ~BeingWoken(m)' /\ state'[m] = "SLEEPING",
           Queued(m)' => ~OnCpu(m)' /\ ~BeingWoken(m)' /\ state'[m] = "RUNNABLE",
           OnCpu(m)' => ~BeingWoken(m)',
           \A f, g \in Frame : Waking(f, m)' /\ Waking(g, m)' => f = g,
           state'[m] \in {"UNUSED", "ZOMBIE"} \/ Placed(m)'
    PROVE  NodeOnce' /\ QueueState' /\ NotLost'
  <1>1. \A x \in Thread : x # m => (BeingWoken(x)' <=> BeingWoken(x))
    BY DEF BeingWoken
  <1>2. NodeOnce'
    <2>1. \A t \in Thread : /\ t \in waitq' => ~Queued(t)' /\ ~OnCpu(t)' /\ ~BeingWoken(t)'
                            /\ Queued(t)' => ~OnCpu(t)' /\ ~BeingWoken(t)'
                            /\ OnCpu(t)' => ~BeingWoken(t)'
      BY <1>1 DEF SchedInv, NodeOnce
    <2>2. \A f, g \in Frame : \A t \in Thread : Waking(f, t)' /\ Waking(g, t)' => f = g
      BY DEF SchedInv, NodeOnce
    <2> QED BY <2>1, <2>2 DEF NodeOnce
  <1>3. QueueState'
    BY DEF SchedInv, QueueState
  <1>4. NotLost'
    BY <1>1 DEF SchedInv, NotLost, Placed
  <1> QED BY <1>2, <1>3, <1>4

\* scheduler() locking its run list and picking a thread keeps the invariant.
LEMMA SchedulerPickInv ==
    ASSUME SchedInv, NEW c \in Cpu, SchedulerPick(c)
    PROVE  SchedInv'
  <1> USE FrameFacts
  <1>1. TypeOK'
    BY DEF SchedInv, SchedulerPick, TypeOK, CpuPc, ThreadPc, WakePc, YieldPc
  <1>2. \A g \in Frame, x \in Thread : Waking(g, x)' <=> Waking(g, x)
    BY DEF SchedInv, TypeOK, SchedulerPick, Waking, WakePc
  <1>3. /\ NodeOnce' /\ QueueState' /\ NotLost'
        /\ \A e \in Cpu, x \in Thread : InRun(e, x)' <=> InRun(e, x)
    BY <1>2, PlacesSame DEF SchedulerPick
  <1>4. LockInv'
    BY DEF SchedInv, TypeOK, LockInv, HoldsList, CpuInv, SchedulerPick
  <1>5. FrameInv'
    BY DEF SchedInv, TypeOK, FrameInv, WakePc, SchedulerPick
  <1>6. CpuInv' /\ CtxInjective'
    BY DEF SchedInv, TypeOK, LockInv, CpuInv, CtxInjective, YieldPc, SchedulerPick
  <1>7. PickedInv'
    <2>1. PICK k \in 1 .. Len(run[c]) : next' = [next EXCEPT ![c] = run[c][k]]
      BY Zenon DEF SchedulerPick
    <2>2. run[c][k] \in Thread /\ \A x \in Thread : x = run[c][k] => InRun(c, x)
      BY DEF SchedInv, TypeOK, InRun
    <2> QED BY <1>3, <2>1, <2>2 DEF SchedInv, TypeOK, PickedInv, SchedulerPick
  <1> QED BY <1>1, <1>3, <1>4, <1>5, <1>6, <1>7 DEF SchedInv

\* scheduler() unlinking the picked thread and switching to it keeps the
\* invariant: the thread is in that run list only, so it is on no CPU.
LEMMA SchedulerSwitchInv ==
    ASSUME SchedInv, NEW c \in Cpu, SchedulerSwitch(c)
    PROVE  SchedInv'
  <1> USE FrameFacts
  <1>0. PICK k \in 1 .. Len(run[c]) :
           run[c][k] = next[c] /\ run' = [run EXCEPT ![c] = list_del_init(run[c], k)]
    BY Zenon DEF SchedulerSwitch
  <1>m. PICK m \in Thread : m = next[c]
    BY <1>0 DEF SchedInv, TypeOK
  <1>1. /\ run' \in [Cpu -> Seq(Thread)] /\ RunUnique'
        /\ \A e \in Cpu, x \in Thread : InRun(e, x)' <=> InRun(e, x) /\ x # m
    <2>1. run \in [Cpu -> Seq(Thread)] /\ RunUnique
      BY DEF SchedInv, TypeOK, NodeOnce
    <2> QED BY <1>0, <1>m, <2>1, RunDel, Zenon
  <1>2. /\ ~OnCpu(m) /\ ~BeingWoken(m) /\ m \notin waitq
        /\ state[m] = "RUNNABLE" /\ tlock[m] = NULL /\ pc[c] = "picked"
    <2>1. Queued(m)
      BY <1>0, <1>m DEF Queued, InRun
    <2> QED BY <1>m, <2>1 DEF SchedInv, NodeOnce, QueueState, SchedulerSwitch
  <1>3. /\ tlock' = [tlock EXCEPT ![m] = c] /\ state' = [state EXCEPT ![m] = "RUNNING"]
        /\ cthread' = [cthread EXCEPT ![c] = m] /\ ctx' = [ctx EXCEPT ![c] = m]
        /\ rlock' = [rlock EXCEPT ![c] = NULL] /\ pc' = [pc EXCEPT ![c] = "resume"]
        /\ load_cpu_id' = load_cpu_id /\ next' = next /\ wk' = wk /\ tgt' = tgt /\ waitq' = waitq
    BY <1>m DEF SchedulerSwitch
  <1>4. TypeOK'
    BY <1>1, <1>3 DEF SchedInv, TypeOK, CpuPc, TaskState
  <1>5. NodeOnce' /\ QueueState' /\ NotLost'
    <2>1. \A x \in Thread, g \in Frame : Waking(g, x)' <=> Waking(g, x)
      BY <1>2, <1>3 DEF SchedInv, TypeOK, Waking, WakePc
    <2>2. ~Queued(m)' /\ OnCpu(m)' /\ ~BeingWoken(m)'
      BY <1>1, <1>2, <1>3, <2>1 DEF SchedInv, TypeOK, Queued, OnCpu, BeingWoken
    <2>3. \A x \in Thread : x # m => (Queued(x)' <=> Queued(x)) /\ (OnCpu(x)' <=> OnCpu(x))
      BY <1>1, <1>2, <1>3 DEF SchedInv, TypeOK, CpuInv, Queued, OnCpu
    <2> QED BY <1>1, <1>2, <1>3, <2>1, <2>2, <2>3, PlacesMoved, Zenon
            DEF SchedInv, TypeOK, Placed, BeingWoken
  <1>6. LockInv'
    BY <1>m, <1>2, <1>3 DEF SchedInv, TypeOK, LockInv, HoldsList
  <1>7. FrameInv'
    BY <1>2, <1>3 DEF SchedInv, TypeOK, FrameInv, BeingWoken, Waking, WakePc
  <1>8. CpuInv' /\ CtxInjective'
    BY <1>m, <1>2, <1>3 DEF SchedInv, TypeOK, LockInv, CpuInv, CtxInjective, YieldPc, OnCpu
  <1>9. PickedInv'
    <2>1. \A d \in Cpu : pc[d] = "picked" /\ d # c => next[d] # m
      <3> SUFFICES ASSUME NEW d \in Cpu, pc[d] = "picked", d # c, next[d] = m
                   PROVE  FALSE
        OBVIOUS
      <3>1. PICK i \in 1 .. Len(run[d]) : run[d][i] = m
        BY DEF SchedInv, PickedInv, InRun
      <3> QED BY <1>0, <1>m, <3>1 DEF SchedInv, NodeOnce, RunUnique
    <2> QED BY <1>1, <1>3, <2>1 DEF SchedInv, TypeOK, PickedInv
  <1> QED BY <1>4, <1>5, <1>6, <1>7, <1>8, <1>9 DEF SchedInv

\* The switched-to thread unlocking itself keeps the invariant.
LEMMA ResumeInv ==
    ASSUME SchedInv, NEW c \in Cpu, Resume(c)
    PROVE  SchedInv'
  <1> USE FrameFacts
  <1>1. TypeOK'
    BY Zenon DEF SchedInv, Resume, TypeOK, CpuPc, ThreadPc, WakePc, YieldPc
  <1>2. \A g \in Frame, x \in Thread : Waking(g, x)' <=> Waking(g, x)
    BY DEF SchedInv, TypeOK, Resume, Waking, WakePc
  <1>3. /\ NodeOnce' /\ QueueState' /\ NotLost'
        /\ \A e \in Cpu, x \in Thread : InRun(e, x)' <=> InRun(e, x)
    BY <1>2, PlacesSame DEF Resume
  <1>4. LockInv'
    BY DEF SchedInv, TypeOK, LockInv, HoldsList, CpuInv, Resume
  <1>5. FrameInv'
    BY DEF SchedInv, TypeOK, FrameInv, WakePc, Resume
  <1>6. CpuInv' /\ CtxInjective'
    BY DEF SchedInv, TypeOK, LockInv, CpuInv, CtxInjective, YieldPc, Resume
  <1>7. PickedInv'
    BY <1>3 DEF SchedInv, TypeOK, PickedInv, Resume
  <1> QED BY <1>1, <1>3, <1>4, <1>5, <1>6, <1>7 DEF SchedInv

\* scheduler() forgetting the thread after the switch keeps the invariant.
LEMMA SwitchedBackInv ==
    ASSUME SchedInv, NEW c \in Cpu, SwitchedBack(c)
    PROVE  SchedInv'
  <1> USE FrameFacts
  <1>1. TypeOK'
    BY Zenon DEF SchedInv, SwitchedBack, TypeOK, CpuPc, ThreadPc, WakePc, YieldPc
  <1>2. \A g \in Frame, x \in Thread : Waking(g, x)' <=> Waking(g, x)
    BY DEF SchedInv, TypeOK, SwitchedBack, Waking, WakePc
  <1>3. /\ NodeOnce' /\ QueueState' /\ NotLost'
        /\ \A e \in Cpu, x \in Thread : InRun(e, x)' <=> InRun(e, x)
    BY <1>2, PlacesSame DEF SwitchedBack
  <1>4. LockInv'
    BY DEF SchedInv, TypeOK, LockInv, HoldsList, CpuInv, SwitchedBack
  <1>5. FrameInv'
    BY DEF SchedInv, TypeOK, FrameInv, WakePc, SwitchedBack
  <1>6. CpuInv' /\ CtxInjective'
    BY DEF SchedInv, TypeOK, LockInv, CpuInv, CtxInjective, YieldPc, SwitchedBack
  <1>7. PickedInv'
    BY <1>3 DEF SchedInv, TypeOK, PickedInv, SwitchedBack
  <1> QED BY <1>1, <1>3, <1>4, <1>5, <1>6, <1>7 DEF SchedInv

\* yield() marking the current thread RUNNABLE keeps the invariant.
LEMMA YieldInv ==
    ASSUME SchedInv, NEW c \in Cpu, Yield(c)
    PROVE  SchedInv'
  <1> USE FrameFacts
  <1>m. PICK m \in Thread : m = cthread[c] /\ m = ctx[c]
    BY DEF SchedInv, CpuInv, Yield
  <1>1. RunUnique' /\ \A e \in Cpu, x \in Thread : InRun(e, x)' <=> InRun(e, x)
    BY RunSame DEF SchedInv, NodeOnce, Yield
  <1>2. m \notin waitq /\ ~Queued(m) /\ ~BeingWoken(m) /\ OnCpu(m)
    BY <1>m DEF SchedInv, NodeOnce, OnCpu
  <1>3. /\ pc[c] = "thread" /\ tlock[m] = NULL
        /\ state' = [state EXCEPT ![m] = "RUNNABLE"] /\ pc' = [pc EXCEPT ![c] = "y_load"]
        /\ run' = run /\ tlock' = tlock /\ rlock' = rlock /\ load_cpu_id' = load_cpu_id
        /\ cthread' = cthread /\ ctx' = ctx /\ next' = next /\ wk' = wk /\ tgt' = tgt
        /\ waitq' = waitq
    BY <1>m DEF Yield
  <1>4. TypeOK'
    BY <1>3 DEF SchedInv, TypeOK, CpuPc, YieldPc, TaskState
  <1>5. NodeOnce' /\ QueueState' /\ NotLost'
    <2>1. \A x \in Thread, g \in Frame : Waking(g, x)' <=> Waking(g, x)
      BY <1>3 DEF SchedInv, TypeOK, Waking, WakePc
    <2>2. \A x \in Thread : (Queued(x)' <=> Queued(x)) /\ (OnCpu(x)' <=> OnCpu(x))
                            /\ (BeingWoken(x)' <=> BeingWoken(x))
      BY <1>1, <1>3, <2>1 DEF Queued, OnCpu, BeingWoken
    <2> QED BY <1>1, <1>2, <1>3, <2>1, <2>2, PlacesMoved, Zenon DEF SchedInv, TypeOK, Placed, BeingWoken
  <1>6. LockInv'
    <2>1. \A d \in Cpu : rlock[d] # c
      BY DEF Yield, IntrOn
    <2>2. ASSUME NEW b \in Cpu, NEW e \in Cpu, rlock'[e] = b
          PROVE  HoldsList(b, e)'
      BY <1>3, <2>1, <2>2 DEF SchedInv, TypeOK, LockInv, HoldsList, CpuInv
    <2>3. ASSUME NEW x \in Thread, pc'[x] = "wk_add"
          PROVE  LET b == rlock'[tgt'[x]] IN b \in Cpu /\ pc'[b] = "thread" /\ ctx'[b] = x
      BY <1>3, <2>1, <2>3 DEF SchedInv, TypeOK, LockInv, FrameInv
    <2>4. /\ \A x \in Thread, b \in Cpu :
                tlock'[x] = b => pc'[b] \in {"resume", "swout"} /\ next'[b] = x
          /\ \A b \in Cpu : pc'[b] \in {"resume", "swout"} => tlock'[next'[b]] = b
          /\ \A b \in Cpu : pc'[b] = "picked" => rlock'[b] = b
          /\ \A b \in Cpu : pc'[b] \in {"y_add", "wk_add"} => rlock'[tgt'[b]] = b
      BY <1>3 DEF SchedInv, TypeOK, LockInv
    <2> QED BY <2>2, <2>3, <2>4 DEF LockInv
  <1>7. FrameInv'
    BY <1>2, <1>3 DEF SchedInv, TypeOK, FrameInv, BeingWoken, Waking, WakePc
  <1>8. CpuInv' /\ CtxInjective'
    BY <1>m, <1>3 DEF SchedInv, TypeOK, CpuInv, CtxInjective, YieldPc
  <1>9. PickedInv'
    BY <1>1, <1>3 DEF SchedInv, TypeOK, PickedInv
  <1> QED BY <1>4, <1>5, <1>6, <1>7, <1>8, <1>9 DEF SchedInv

\* yield() choosing a CPU keeps the invariant.
LEMMA YieldLoadInv ==
    ASSUME SchedInv, NEW c \in Cpu, YieldLoad(c)
    PROVE  SchedInv'
  <1> USE FrameFacts
  <1>d. PICK d \in Cpu : tgt' = [tgt EXCEPT ![c] = d] /\ load_cpu_id' \in Cpu \cup {-1}
    <2>1. load_cpu_id \in Cpu \cup {-1} /\ cthread[c] \in Thread
      BY DEF SchedInv, TypeOK, CpuInv, YieldPc, YieldLoad
    <2>2. (load_cpu_id + 1) % NCPU \in Cpu
      BY <2>1, LoadCpu
    <2>3. CASE cpu_affinity[cthread[c]] = NO_CPU_AFF
      BY <2>2, <2>3 DEF YieldLoad, ChooseCpu
    <2>4. CASE cpu_affinity[cthread[c]] # NO_CPU_AFF
      <3>1. cpu_affinity[cthread[c]] \in Cpu
        BY <2>1, <2>4, SchedAssumption
      <3> QED BY <2>1, <2>4, <3>1 DEF YieldLoad, ChooseCpu
    <2> QED BY <2>3, <2>4
  <1>0. /\ pc[c] = "y_load" /\ pc' = [pc EXCEPT ![c] = "y_list"]
        /\ run' = run /\ state' = state /\ tlock' = tlock /\ rlock' = rlock /\ cthread' = cthread
        /\ ctx' = ctx /\ next' = next /\ wk' = wk /\ waitq' = waitq
    BY DEF YieldLoad
  <1>1. TypeOK'
    BY <1>0, <1>d DEF SchedInv, TypeOK, CpuPc, ThreadPc, WakePc, YieldPc
  <1>2. \A g \in Frame, x \in Thread : Waking(g, x)' <=> Waking(g, x)
    BY <1>0 DEF SchedInv, TypeOK, Waking, WakePc
  <1>3. /\ NodeOnce' /\ QueueState' /\ NotLost'
        /\ \A e \in Cpu, x \in Thread : InRun(e, x)' <=> InRun(e, x)
    BY <1>0, <1>2, PlacesSame
  <1>4. LockInv'
    BY <1>0, <1>d DEF SchedInv, TypeOK, LockInv, HoldsList, CpuInv
  <1>5. FrameInv'
    BY <1>0, <1>d DEF SchedInv, TypeOK, FrameInv, WakePc
  <1>6. CpuInv' /\ CtxInjective'
    BY <1>0 DEF SchedInv, TypeOK, CpuInv, CtxInjective, YieldPc
  <1>7. PickedInv'
    BY <1>0, <1>3 DEF SchedInv, TypeOK, PickedInv
  <1> QED BY <1>1, <1>3, <1>4, <1>5, <1>6, <1>7 DEF SchedInv

\* yield() locking that CPU's run list keeps the invariant.
LEMMA YieldListInv ==
    ASSUME SchedInv, NEW c \in Cpu, YieldList(c)
    PROVE  SchedInv'
  <1> USE FrameFacts
  <1>d. PICK d \in Cpu : d = tgt[c]
    BY DEF SchedInv, FrameInv, YieldList
  <1>0. /\ pc[c] = "y_list" /\ pc' = [pc EXCEPT ![c] = "y_add"]
        /\ rlock[d] = NULL /\ rlock' = [rlock EXCEPT ![d] = c]
        /\ run' = run /\ state' = state /\ tlock' = tlock /\ cthread' = cthread /\ ctx' = ctx
        /\ next' = next /\ wk' = wk /\ waitq' = waitq /\ tgt' = tgt /\ load_cpu_id' = load_cpu_id
    BY <1>d DEF YieldList
  <1>1. TypeOK'
    BY <1>0, <1>d DEF SchedInv, TypeOK, CpuPc, ThreadPc, WakePc, YieldPc
  <1>2. \A g \in Frame, x \in Thread : Waking(g, x)' <=> Waking(g, x)
    BY <1>0 DEF SchedInv, TypeOK, Waking, WakePc
  <1>3. /\ NodeOnce' /\ QueueState' /\ NotLost'
        /\ \A e \in Cpu, x \in Thread : InRun(e, x)' <=> InRun(e, x)
    BY <1>0, <1>2, PlacesSame
  <1>4. LockInv'
    <2>1. ASSUME NEW b \in Cpu, NEW e \in Cpu, rlock'[e] = b
          PROVE  HoldsList(b, e)'
      <3>1. CASE e = d
        BY <1>0, <1>d, <2>1, <3>1 DEF SchedInv, TypeOK, HoldsList, CpuInv
      <3>2. CASE e # d
        BY <1>0, <1>d, <2>1, <3>2 DEF SchedInv, TypeOK, LockInv, HoldsList, CpuInv
      <3> QED BY <3>1, <3>2
    <2>2. ASSUME NEW x \in Thread, pc'[x] = "wk_add"
          PROVE  LET b == rlock'[tgt'[x]] IN b \in Cpu /\ pc'[b] = "thread" /\ ctx'[b] = x
      BY <1>0, <1>d, <2>2 DEF SchedInv, TypeOK, LockInv, FrameInv
    <2>3. /\ \A b \in Cpu : pc'[b] = "picked" => rlock'[b] = b
          /\ \A b \in Cpu : pc'[b] \in {"y_add", "wk_add"} => rlock'[tgt'[b]] = b
      BY <1>0, <1>d,  SchedAssumption DEF SchedInv, TypeOK, LockInv, FrameInv
    <2>4. /\ \A t \in Thread, b \in Cpu :
                tlock'[t] = b => pc'[b] \in {"resume", "swout"} /\ next'[b] = t
          /\ \A b \in Cpu : pc'[b] \in {"resume", "swout"} => tlock'[next'[b]] = b
      BY <1>0 DEF SchedInv, TypeOK, LockInv
    <2> QED BY <2>1, <2>2, <2>3, <2>4 DEF LockInv
  <1>5. FrameInv'
    BY <1>0, <1>d DEF SchedInv, TypeOK, FrameInv, WakePc
  <1>6. CpuInv' /\ CtxInjective'
    BY <1>0 DEF SchedInv, TypeOK, CpuInv, CtxInjective, YieldPc
  <1>7. PickedInv'
    BY <1>0, <1>3 DEF SchedInv, TypeOK, PickedInv
  <1> QED BY <1>1, <1>3, <1>4, <1>5, <1>6, <1>7 DEF SchedInv

\* yield() linking the thread and leaving it keeps the invariant: the thread was
\* on this CPU, so it was in no list.
LEMMA YieldAddInv ==
    ASSUME SchedInv, NEW c \in Cpu, YieldAdd(c)
    PROVE  SchedInv'
  <1> USE FrameFacts
  <1>m. PICK m \in Thread : m = cthread[c] /\ m = ctx[c] /\ m = next[c]
    BY DEF SchedInv, CpuInv, YieldAdd, YieldPc
  <1>d. PICK d \in Cpu : d = tgt[c]
    BY DEF SchedInv, FrameInv, YieldAdd
  <1>2. /\ m \notin waitq /\ ~Queued(m) /\ ~BeingWoken(m)
        /\ state[m] = "RUNNABLE" /\ tlock[m] = NULL /\ pc[c] = "y_add" /\ rlock[d] = c
        /\ \A b \in Cpu : b # c => ctx[b] # m
    BY <1>m, <1>d DEF SchedInv, NodeOnce, OnCpu, CpuInv, YieldPc, LockInv, CtxInjective, YieldAdd
  <1>3. /\ tlock' = [tlock EXCEPT ![m] = c]
        /\ run' = [run EXCEPT ![d] = list_add_head(m, @)]
        /\ rlock' = [rlock EXCEPT ![d] = NULL] /\ tgt' = [tgt EXCEPT ![c] = NULL]
        /\ ctx' = [ctx EXCEPT ![c] = NULL] /\ pc' = [pc EXCEPT ![c] = "swout"]
        /\ state' = state /\ load_cpu_id' = load_cpu_id /\ cthread' = cthread
        /\ next' = next /\ wk' = wk /\ waitq' = waitq
    BY <1>m, <1>d DEF YieldAdd
  <1>1. /\ run' \in [Cpu -> Seq(Thread)] /\ RunUnique'
        /\ \A e \in Cpu, x \in Thread : InRun(e, x)' <=> InRun(e, x) \/ (e = d /\ x = m)
    <2>1. run \in [Cpu -> Seq(Thread)] /\ RunUnique
      BY DEF SchedInv, TypeOK, NodeOnce
    <2> QED BY <1>2, <1>3, <2>1, RunAdd, Zenon
  <1>4. TypeOK'
    BY <1>1, <1>3 DEF SchedInv, TypeOK, CpuPc
  <1>5. NodeOnce' /\ QueueState' /\ NotLost'
    <2>1. \A x \in Thread, g \in Frame : Waking(g, x)' <=> Waking(g, x)
      BY <1>2, <1>3 DEF SchedInv, TypeOK, Waking, WakePc
    <2>2. Queued(m)' /\ ~OnCpu(m)' /\ ~BeingWoken(m)'
      BY <1>1, <1>2, <1>3, <2>1 DEF SchedInv, TypeOK, Queued, OnCpu, BeingWoken
    <2>3. \A x \in Thread : x # m => (Queued(x)' <=> Queued(x)) /\ (OnCpu(x)' <=> OnCpu(x))
      BY <1>m, <1>1, <1>2, <1>3 DEF SchedInv, TypeOK, Queued, OnCpu
    <2> QED BY <1>1, <1>2, <1>3, <2>1, <2>2, <2>3, PlacesMoved, Zenon
            DEF SchedInv, TypeOK, Placed, BeingWoken
  <1>6. LockInv'
    BY <1>m, <1>d, <1>2, <1>3 DEF SchedInv, TypeOK, LockInv, HoldsList
  <1>7. FrameInv'
    BY <1>3 DEF SchedInv, TypeOK, FrameInv, WakePc
  <1>8. CpuInv' /\ CtxInjective'
    BY <1>m, <1>2, <1>3 DEF SchedInv, TypeOK, CpuInv, CtxInjective, YieldPc
  <1>9. PickedInv'
    BY <1>1, <1>3 DEF SchedInv, TypeOK, PickedInv
  <1> QED BY <1>4, <1>5, <1>6, <1>7, <1>8, <1>9 DEF SchedInv
=============================================================================
