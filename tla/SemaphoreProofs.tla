--------------------------- MODULE SemaphoreProofs ---------------------------
(* Proofs about Semaphore: its steps are steps of the scheduler, the value     *)
(* agrees with the queue, and the code implements AbsSemaphore, for any        *)
(* number of CPUs, threads and semaphores.                                     *)
EXTENDS Semaphore, SchedProofs

\* Where CPU c is while frame f is inside of a semaphore call: about to sleep, or in
\* wakeup_process.
InCall(c, f) ==
    \/ scall[f].op = "sleep" /\ f \in Thread /\ Idle(c, f)
    \/ scall[f].op = "signal" /\ Runs(c, f) /\ pc[f] \in WakePc

\* A call that spans steps holds its semaphore's lock, on the CPU that executes it.
CallInv ==
    \A f \in Frame : scall[f] # NoCall =>
       \E c \in Cpu : slock[scall[f].sem] = c /\ InCall(c, f)

\* sem_wait has decremented the value of s and not yet queued.
Behind(s) == \E t \in Thread : scall[t] = [op |-> "sleep", sem |-> s]

\* SemAccounting for one semaphore, without what follows from CallInv.
Balance(s) ==
    Len(waiters[s]) + (IF Behind(s) THEN 1 ELSE 0) = IF value[s] < 0 THEN -value[s] ELSE 0

\* The inductive invariant, next to SchedInv.
SemInv ==
    /\ SemTypeOK
    /\ CallInv
    /\ \A s \in Sem : Balance(s)
    /\ WaitersExact

\* One CPU's step of the scheduler.
CpuStep(c) ==
    \/ KernelStep(c)
    \/ Yield(c)
    \/ \E f \in Frame :
          \/ WakeReturn(c, f)
          \/ \E u \in Thread : WakeStart(c, f, u) \/ Create(c, f, u)
    \/ \E t \in Thread : Sleep(c, t) \/ Exit(c, t)

----------------------------------------------------------------------------
\* Every step with semaphores is a step of the scheduler, or none at all for it:
\* semaphore.c changes threads and run lists through sched.c alone.
LEMMA SemStepIsSchedStep ==
    ASSUME SchedInv, [SemNext]_allvars
    PROVE  [Next]_vars
  <1>1. CASE UNCHANGED allvars
    BY <1>1 DEF allvars
  <1>2. CASE SemNext
    <2> PICK c \in Cpu :
           \/ SchedOnly(c) /\ UNCHANGED semvars
           \/ \E t \in Thread : sem_sleep(c, t) \/ \E s \in Sem : sem_wait(c, t, s)
           \/ \E f \in Frame :
                 \/ sem_signal_end(c, f)
                 \/ \E s \in Sem : sem_signal(c, f, s) \/ sem_signal_wake(c, f, s)
      BY <1>2 DEF SemNext
    <2>1. CASE SchedOnly(c)
      BY <2>1 DEF SchedOnly, SemYield, SemCreate, SemCreateEnd, SemExit, Next
    <2>2. ASSUME NEW t \in Thread, sem_sleep(c, t) PROVE Next
      BY <2>2 DEF sem_sleep, Next
    <2>3. ASSUME NEW t \in Thread, NEW s \in Sem, sem_wait(c, t, s) PROVE UNCHANGED vars
      BY <2>3 DEF sem_wait
    <2>4. ASSUME NEW f \in Frame, sem_signal_end(c, f) PROVE Next
      BY <2>4 DEF sem_signal_end, Next
    <2>5. ASSUME NEW f \in Frame, NEW s \in Sem, sem_signal(c, f, s) PROVE UNCHANGED vars
      BY <2>5 DEF sem_signal
    <2>6. ASSUME NEW f \in Frame, NEW s \in Sem, sem_signal_wake(c, f, s) PROVE Next
      <3>1. WakeStart(c, f, Head(waiters[s]))
        BY <2>6 DEF sem_signal_wake
      <3>2. Head(waiters[s]) \in Thread
        BY <3>1 DEF WakeStart, SchedInv, TypeOK
      <3> QED BY <3>1, <3>2 DEF Next
    <2> QED BY <2>1, <2>2, <2>3, <2>4, <2>5, <2>6
  <1> QED BY <1>1, <1>2

\* A step of CPU d moves one frame, which d executes, and no other CPU's stack.
LEMMA StepShape ==
    ASSUME SchedInv, NEW d \in Cpu, CpuStep(d)
    PROVE  \E g \in Frame : /\ Runs(d, g)
                            /\ \A f \in Frame : f # g => pc'[f] = pc[f]
                            /\ \A c \in Cpu : c # d => ctx'[c] = ctx[c]
  <1> USE FrameFacts
  <1>0. pc \in [Frame -> CpuPc \cup ThreadPc] /\ ctx \in [Cpu -> Thread \cup {NULL}]
    BY DEF SchedInv, TypeOK
  <1> DEFINE Moves(g) == /\ \A f \in Frame : f # g => pc'[f] = pc[f]
                         /\ \A c \in Cpu : c # d => ctx'[c] = ctx[c]
  <1> SUFFICES \E g \in Frame : Runs(d, g) /\ Moves(g)
    OBVIOUS
  <1>1. Runs(d, d) /\ d \in Frame
    BY DEF Runs
  <1>2. CASE SchedulerStep(d)
    <2>1. Moves(d)
      BY <1>0, <1>2
         DEF SchedulerStep, SchedulerPick, SchedulerSwitch, Resume, SwitchedBack
    <2> QED BY <1>1, <2>1
  <1>3. CASE YieldStep(d) \/ Yield(d)
    <2>1. Moves(d)
      BY <1>0, <1>3 DEF YieldStep, Yield, YieldLoad, YieldList, YieldAdd
    <2> QED BY <1>1, <2>1
  <1>4. ASSUME NEW f \in Frame, WakeStep(d, f) \/ WakeReturn(d, f)
        PROVE  \E g \in Frame : Runs(d, g) /\ Moves(g)
    <2>1. Runs(d, f) /\ Moves(f)
      BY <1>0, <1>4 DEF WakeStep, WakeReturn, WakeRunnable, WakeLoad, WakeList, WakeAdd
    <2> QED BY <2>1
  <1>5. ASSUME NEW f \in Frame, NEW u \in Thread, WakeStart(d, f, u) \/ Create(d, f, u)
        PROVE  \E g \in Frame : Runs(d, g) /\ Moves(g)
    <2>1. Runs(d, f)
      BY <1>5 DEF WakeStart, Create, CanCall, Idle, Runs
    <2>2. Moves(f)
      BY <1>0, <1>5 DEF WakeStart, Create
    <2> QED BY <2>1, <2>2
  <1>6. ASSUME NEW t \in Thread, Sleep(d, t) \/ Exit(d, t)
        PROVE  \E g \in Frame : Runs(d, g) /\ Moves(g)
    <2>1. Moves(d)
      BY <1>0, <1>6 DEF Sleep, Exit
    <2> QED BY <1>1, <2>1
  <1> HIDE DEF Moves
  <1> QED BY <1>2, <1>3, <1>4, <1>5, <1>6 DEF CpuStep, KernelStep

\* What CPU c executes is not disturbed by a step of another CPU.
LEMMA OtherCpu ==
    ASSUME SchedInv, NEW d \in Cpu, CpuStep(d), NEW c \in Cpu, c # d,
           NEW f \in Frame, Runs(c, f)
    PROVE  Runs(c, f)' /\ pc'[f] = pc[f] /\ pc'[c] = pc[c] /\ ctx'[c] = ctx[c]
  <1> USE FrameFacts
  <1>1. PICK g \in Frame : /\ Runs(d, g)
                           /\ \A h \in Frame : h # g => pc'[h] = pc[h]
                           /\ \A e \in Cpu : e # d => ctx'[e] = ctx[e]
    BY StepShape
  <1>2. \A e \in Cpu : pc[e] = "thread" => ctx[e] \in Thread
    BY DEF SchedInv, CpuInv
  <1>3. f # g /\ c # g
    BY <1>1, <1>2 DEF Runs, SchedInv, CtxInjective
  <1>4. pc'[f] = pc[f] /\ pc'[c] = pc[c] /\ ctx'[c] = ctx[c]
    BY <1>1, <1>3
  <1> QED BY <1>4 DEF Runs

\* A CPU that is inside of a semaphore call executes no other frame.
LEMMA CallAlone ==
    ASSUME NEW c \in Cpu, NEW f \in Frame, InCall(c, f),
           NEW g \in Frame, Runs(c, g), pc[g] \in WakePc \cup {"run"}
    PROVE  f = g
  BY FrameFacts DEF InCall, Idle, Runs, WakePc

\* The type of a call in progress.
LEMMA CallType ==
    ASSUME SemTypeOK, NEW f \in Frame, scall[f] # NoCall
    PROVE  /\ scall[f] \in [op : {"sleep", "signal"}, sem : Sem]
           /\ scall[f].op \in {"sleep", "signal"} /\ scall[f].sem \in Sem
  BY DEF SemTypeOK

\* The steps in which no semaphore takes part: steps of the scheduler that leave the
\* wait queues alone.
LEMMA SchedOnlyStep ==
    ASSUME NEW d \in Cpu, SchedOnly(d)
    PROVE  CpuStep(d) /\ waitq' = waitq
  <1>1. CpuStep(d)
    BY DEF SchedOnly, SemYield, SemCreate, SemCreateEnd, SemExit, CpuStep
  <1>2. ASSUME KernelStep(d) PROVE waitq' = waitq
    BY <1>2 DEF KernelStep, SchedulerStep, SchedulerPick, SchedulerSwitch, Resume, SwitchedBack,
                YieldStep, YieldLoad, YieldList, YieldAdd,
                WakeStep, WakeRunnable, WakeLoad, WakeList, WakeAdd
  <1>3. ASSUME SemYield(d) PROVE waitq' = waitq
    BY <1>3 DEF SemYield, Yield
  <1>4. ASSUME NEW f \in Frame, SemCreateEnd(d, f) PROVE waitq' = waitq
    BY <1>4 DEF SemCreateEnd, WakeReturn
  <1>5. ASSUME NEW f \in Frame, NEW u \in Thread, SemCreate(d, f, u) PROVE waitq' = waitq
    BY <1>5 DEF SemCreate, Create
  <1>6. ASSUME NEW t \in Thread, SemExit(d, t) PROVE waitq' = waitq
    BY <1>6 DEF SemExit, Exit
  <1> QED BY <1>1, <1>2, <1>3, <1>4, <1>5, <1>6 DEF SchedOnly

\* Such a step leaves every call where it is, or inside of wakeup_process: neither
\* the timer interrupt nor another call can come in between, because the semaphore's
\* lock is held.
LEMMA CallKept ==
    ASSUME SchedInv, SemTypeOK, NEW d \in Cpu, SchedOnly(d), UNCHANGED semvars,
           NEW f \in Frame, scall[f] # NoCall,
           NEW c \in Cpu, slock[scall[f].sem] = c, InCall(c, f)
    PROVE  InCall(c, f)'
  <1> USE FrameFacts
  <1>0. /\ pc \in [Frame -> CpuPc \cup ThreadPc] /\ scall' = scall
        /\ scall[f].sem \in Sem
    BY CallType DEF SchedInv, TypeOK, semvars
  <1>1. Runs(c, f) /\ pc[c] \in {"thread"} \cup WakePc
    BY DEF InCall, Idle, Runs
  <1>2. CASE c # d
    <2>1. Runs(c, f)' /\ pc'[f] = pc[f] /\ pc'[c] = pc[c] /\ ctx'[c] = ctx[c]
      BY <1>1, <1>2, SchedOnlyStep, OtherCpu
    <2> QED BY <1>0, <2>1 DEF InCall, Idle
  <1>3. CASE c = d
    <2>1. ~SchedulerStep(d) /\ ~YieldStep(d)
      BY <1>1, <1>3 DEF SchedulerStep, SchedulerPick, SchedulerSwitch, Resume, SwitchedBack,
                        YieldStep, YieldLoad, YieldList, YieldAdd, WakePc
    <2>2. ~SemYield(d)
      BY <1>0, <1>3 DEF SemYield
    <2>3. ASSUME NEW g \in Frame, SemCreateEnd(d, g) PROVE FALSE
      <3>1. Runs(d, g) /\ pc[g] = "wk_ret" /\ scall[g] = NoCall
        BY <2>3 DEF SemCreateEnd, WakeReturn
      <3> QED BY <1>3, <3>1, CallAlone DEF WakePc
    <2>4. ASSUME NEW g \in Frame, CanSignal(d, g) PROVE FALSE
      <3>1. CASE g \in Cpu
        BY <1>0, <1>3, <2>4, <3>1 DEF CanSignal, CanCall
      <3>2. CASE g \in Thread
        <4>1. Runs(d, g) /\ pc[g] = "run" /\ scall[g] = NoCall
          BY <2>4, <3>2 DEF CanSignal, CanCall, Idle, Runs
        <4> QED BY <1>3, <4>1, CallAlone
      <3> QED BY <3>1, <3>2 DEF Frame
    <2>5. ASSUME NEW t \in Thread, SemExit(d, t) PROVE FALSE
      <3>1. Runs(d, t) /\ pc[t] = "run" /\ scall[t] = NoCall
        BY <2>5 DEF SemExit, Exit, Idle, Runs
      <3> QED BY <1>3, <3>1, CallAlone
    <2>6. ASSUME NEW g \in Frame, WakeStep(d, g) PROVE InCall(c, f)'
      <3>1. /\ Runs(d, g) /\ pc[g] \in WakePc /\ ctx' = ctx
            /\ \E p \in WakePc : pc' = [pc EXCEPT ![g] = p]
        BY <2>6 DEF WakeStep, WakeRunnable, WakeLoad, WakeList, WakeAdd, WakePc
      <3>2. f = g
        BY <1>3, <3>1, CallAlone
      <3>3. pc'[f] \in WakePc /\ (f # c => pc'[c] = pc[c])
        BY <1>0, <3>1, <3>2
      <3>4. scall[f].op = "signal"
        BY <3>1, <3>2 DEF InCall, Idle, WakePc
      <3> QED BY <1>0, <1>1, <3>1, <3>3, <3>4 DEF InCall, Runs
    <2> QED BY <2>1, <2>2, <2>3, <2>4, <2>5, <2>6 DEF SchedOnly, KernelStep, SemCreate
  <1> QED BY <1>2, <1>3

----------------------------------------------------------------------------
\* A semaphore with a call in progress is locked, by one CPU for one frame.
LEMMA CallUnique ==
    ASSUME SemTypeOK, CallInv,
           NEW f \in Frame, NEW g \in Frame, scall[f] # NoCall, scall[g] # NoCall,
           scall[f].sem = scall[g].sem
    PROVE  f = g
  <1>1. PICK c \in Cpu : slock[scall[f].sem] = c /\ InCall(c, f)
    BY DEF CallInv
  <1>2. PICK d \in Cpu : slock[scall[g].sem] = d /\ InCall(d, g)
    BY DEF CallInv
  <1>3. c = d
    BY <1>1, <1>2
  <1>4. Runs(c, g) /\ pc[g] \in WakePc \cup {"run"}
    BY <1>2, <1>3 DEF InCall, Idle, Runs
  <1> QED BY <1>1, <1>4, CallAlone

\* An unlocked semaphore has nobody half-way in sem_wait.
LEMMA UnlockedNotBehind ==
    ASSUME SemTypeOK, CallInv, NEW s \in Sem, slock[s] = NULL
    PROVE  ~Behind(s) /\ \A f \in Frame : scall[f] # NoCall => scall[f].sem # s
  <1>1. ASSUME NEW f \in Frame, scall[f] # NoCall PROVE scall[f].sem # s
    BY <1>1, FrameFacts DEF CallInv
  <1>2. ASSUME NEW t \in Thread, scall[t] = [op |-> "sleep", sem |-> s] PROVE FALSE
    <2>1. scall[t].sem = s /\ scall[t].op = "sleep"
      BY <1>2
    <2>2. scall[t] # NoCall
      BY <2>1 DEF NoCall
    <2> QED BY <1>1, <2>1, <2>2, FrameFacts
  <1> QED BY <1>1, <1>2 DEF Behind

\* The value of a semaphore in balance, and the thread to pop, which sem_signal expects.
LEMMA BalanceIsAccounting == SemInv => SemAccounting
  <1> SUFFICES ASSUME SemInv, NEW s \in Sem
               PROVE  slock[s] = NULL /\ value[s] < 0 => waiters[s] # <<>>
    BY DEF SemInv, SemAccounting, Balance, Behind
  <1> SUFFICES ASSUME slock[s] = NULL, value[s] < 0 PROVE waiters[s] # <<>>
    OBVIOUS
  <1>1. ~Behind(s)
    BY UnlockedNotBehind DEF SemInv
  <1>2. value[s] \in Int /\ Balance(s)
    BY DEF SemInv, SemTypeOK
  <1>3. Len(waiters[s]) + 0 = -value[s]
    BY <1>1, <1>2 DEF Balance
  <1> QED BY <1>2, <1>3

\* fifo_push
LEMMA PushFacts ==
    ASSUME NEW q \in Seq(Thread), NEW t \in Thread
    PROVE  /\ Append(q, t) \in Seq(Thread) /\ Len(q) \in Nat
           /\ Len(Append(q, t)) = Len(q) + 1
           /\ Append(q, t)[Len(q) + 1] = t
           /\ \A i \in 1 .. Len(q) : Append(q, t)[i] = q[i]
  OBVIOUS

\* fifo_pop
LEMMA PopFacts ==
    ASSUME NEW q \in Seq(Thread), q # <<>>
    PROVE  /\ Head(q) \in Thread /\ Head(q) = q[1] /\ 1 \in 1 .. Len(q) /\ Len(q) \in Nat
           /\ Tail(q) \in Seq(Thread)
           /\ Len(Tail(q)) = Len(q) - 1
           /\ \A i \in 1 .. Len(Tail(q)) : i + 1 \in 1 .. Len(q) /\ Tail(q)[i] = q[i + 1]
  OBVIOUS

\* The scheduler's own steps.
LEMMA SchedOnlyInv ==
    ASSUME SchedInv, SemInv, NEW d \in Cpu, SchedOnly(d), UNCHANGED semvars
    PROVE  SemInv'
  <1>1. /\ value' = value /\ slock' = slock /\ waiters' = waiters /\ scall' = scall
        /\ waitq' = waitq
    BY SchedOnlyStep DEF semvars
  <1>2. SemTypeOK'
    BY <1>1 DEF SemInv, SemTypeOK
  <1>3. CallInv'
    <2> SUFFICES ASSUME NEW f \in Frame, scall[f] # NoCall
                 PROVE  \E c \in Cpu : slock[scall[f].sem] = c /\ InCall(c, f)'
      BY <1>1 DEF CallInv
    <2>1. PICK c \in Cpu : slock[scall[f].sem] = c /\ InCall(c, f)
      BY DEF SemInv, CallInv
    <2>2. InCall(c, f)'
      BY <2>1, CallKept DEF SemInv
    <2> QED BY <2>1, <2>2
  <1>4. \A s \in Sem : Balance(s)'
    BY <1>1 DEF SemInv, Balance, Behind
  <1>5. WaitersExact'
    BY <1>1 DEF SemInv, WaitersExact
  <1> QED BY <1>2, <1>3, <1>4, <1>5 DEF SemInv

\* sem_wait up to the test: the value is one less, and if it became negative the caller
\* keeps the lock until it has queued.
LEMMA WaitInv ==
    ASSUME SchedInv, SemInv, NEW c \in Cpu, NEW t \in Thread, NEW s \in Sem, sem_wait(c, t, s)
    PROVE  SemInv'
  <1> USE FrameFacts
  <1>1. /\ value' = [value EXCEPT ![s] = @ - 1] /\ waiters' = waiters /\ UNCHANGED vars
        /\ Idle(c, t) /\ scall[t] = NoCall /\ slock[s] = NULL
        /\ SemTypeOK /\ CallInv
    BY DEF sem_wait, SemInv
  <1>2. pc' = pc /\ ctx' = ctx /\ waitq' = waitq
    BY <1>1 DEF vars
  <1>3. ~Behind(s) /\ \A f \in Frame : scall[f] # NoCall => scall[f].sem # s
    BY <1>1, UnlockedNotBehind
  <1>4. /\ value[s] \in Int /\ value'[s] = value[s] - 1
        /\ \A r \in Sem : r # s => value'[r] = value[r]
    BY <1>1 DEF SemTypeOK
  <1>5. Len(waiters[s]) = IF value[s] < 0 THEN -value[s] ELSE 0
    <2>1. Balance(s) /\ Len(waiters[s]) \in Nat
      BY DEF SemInv, SemTypeOK
    <2> QED BY <1>3, <2>1 DEF Balance
  <1>6. WaitersExact'
    BY <1>1, <1>2 DEF SemInv, WaitersExact
  <1>7. CASE value[s] - 1 < 0
    <2> DEFINE new == [op |-> "sleep", sem |-> s]
    <2>1. slock' = [slock EXCEPT ![s] = c] /\ scall' = [scall EXCEPT ![t] = new]
      BY <1>7 DEF sem_wait
    <2>2. /\ slock'[s] = c /\ \A r \in Sem : r # s => slock'[r] = slock[r]
          /\ scall'[t] = new /\ \A f \in Frame : f # t => scall'[f] = scall[f]
      BY <1>1, <2>1 DEF SemTypeOK
    <2>3. SemTypeOK'
      BY <1>1, <2>1 DEF SemTypeOK
    <2>4. CallInv'
      <3> SUFFICES ASSUME NEW f \in Frame, scall'[f] # NoCall
                   PROVE  \E d \in Cpu : slock'[scall'[f].sem] = d /\ InCall(d, f)'
        BY DEF CallInv
      <3>1. CASE f = t
        <4>1. InCall(c, f)'
          BY <1>1, <1>2, <2>2, <3>1 DEF InCall, Idle
        <4> QED BY <2>2, <3>1, <4>1
      <3>2. CASE f # t
        <4>1. PICK d \in Cpu : slock[scall[f].sem] = d /\ InCall(d, f)
          BY <1>1, <2>2, <3>2 DEF CallInv
        <4>2. scall[f].sem \in Sem /\ scall[f].sem # s /\ scall'[f] = scall[f]
          BY <1>1, <1>3, <2>2, <3>2, CallType
        <4>3. InCall(d, f)'
          BY <1>2, <4>1, <4>2 DEF InCall, Idle, Runs
        <4> QED BY <2>2, <4>1, <4>2, <4>3
      <3> QED BY <3>1, <3>2
    <2>5. \A r \in Sem : Balance(r)'
      <3> SUFFICES ASSUME NEW r \in Sem PROVE Balance(r)'
        OBVIOUS
      <3>1. CASE r = s
        <4>1. Behind(s)'
          BY <2>2 DEF Behind
        <4> QED BY <1>1, <1>4, <1>5, <1>7, <3>1, <4>1 DEF Balance
      <3>2. CASE r # s
        <4>1. new # [op |-> "sleep", sem |-> r] /\ NoCall # [op |-> "sleep", sem |-> r]
          BY <3>2 DEF NoCall
        <4>2. Behind(r)' <=> Behind(r)
          BY <1>1, <2>2, <4>1 DEF Behind
        <4>3. Balance(r)
          BY DEF SemInv
        <4> QED BY <1>1, <1>4, <3>2, <4>2, <4>3 DEF Balance
      <3> QED BY <3>1, <3>2
    <2> QED BY <1>6, <2>3, <2>4, <2>5 DEF SemInv
  <1>8. CASE ~(value[s] - 1 < 0)
    <2>1. slock' = slock /\ scall' = scall
      BY <1>8 DEF sem_wait
    <2>2. SemTypeOK'
      BY <1>1, <2>1 DEF SemTypeOK
    <2>3. CallInv'
      BY <1>1, <1>2, <2>1 DEF CallInv, InCall, Idle, Runs
    <2>4. \A r \in Sem : Behind(r)' <=> Behind(r)
      BY <2>1 DEF Behind
    <2>5. Balance(s)'
      BY <1>1, <1>3, <1>4, <1>5, <1>8, <2>4 DEF Balance
    <2>6. \A r \in Sem : r # s => Balance(r)'
      BY <1>1, <1>4, <2>4 DEF Balance, SemInv
    <2> QED BY <1>6, <2>2, <2>3, <2>5, <2>6 DEF SemInv
  <1> QED BY <1>7, <1>8

----------------------------------------------------------------------------
\* WaitersExact of queues W and sleeping threads Q.
Exact(W, Q) ==
    /\ \A t \in Thread : t \in Q <=> \E s \in Sem : \E i \in 1 .. Len(W[s]) : W[s][i] = t
    /\ \A r, s \in Sem : \A i \in 1 .. Len(W[r]), j \in 1 .. Len(W[s]) :
          W[r][i] = W[s][j] => r = s /\ i = j

\* fifo_push of a thread that sleeps nowhere.
LEMMA ExactPush ==
    ASSUME NEW W \in [Sem -> Seq(Thread)], NEW Q, Exact(W, Q),
           NEW t \in Thread, t \notin Q, NEW s \in Sem
    PROVE  Exact([W EXCEPT ![s] = Append(@, t)], Q \cup {t})
  <1> DEFINE V == [W EXCEPT ![s] = Append(@, t)]
             n == Len(W[s]) + 1
  <1>1. /\ n \in Nat /\ n \in 1 .. Len(V[s]) /\ Len(V[s]) = n /\ V[s][n] = t
        /\ \A i \in 1 .. Len(V[s]) : i # n => i \in 1 .. Len(W[s]) /\ V[s][i] = W[s][i]
        /\ \A i \in 1 .. Len(W[s]) : i \in 1 .. Len(V[s]) /\ i # n /\ V[s][i] = W[s][i]
        /\ \A r \in Sem : r # s => V[r] = W[r]
    BY PushFacts
  <1>2. \A r \in Sem : \A i \in 1 .. Len(W[r]) : W[r][i] # t
    BY DEF Exact
  <1> HIDE DEF V, n
  <1>3. ASSUME NEW x \in Thread
        PROVE  x \in Q \cup {t} <=> \E r \in Sem : \E i \in 1 .. Len(V[r]) : V[r][i] = x
    <2>1. CASE x = t
      BY <1>1, <2>1
    <2>2. CASE x # t
      <3>1. x \in Q <=> \E r \in Sem : \E i \in 1 .. Len(W[r]) : W[r][i] = x
        BY DEF Exact
      <3>2. ASSUME NEW r \in Sem, NEW i \in 1 .. Len(W[r]), W[r][i] = x
            PROVE  \E j \in 1 .. Len(V[r]) : V[r][j] = x
        BY <1>1, <3>2
      <3>3. ASSUME NEW r \in Sem, NEW i \in 1 .. Len(V[r]), V[r][i] = x
            PROVE  \E j \in 1 .. Len(W[r]) : W[r][j] = x
        BY <1>1, <2>2, <3>3
      <3>4. x \in Q \cup {t} <=> x \in Q
        BY <2>2
      <3> QED BY <3>1, <3>2, <3>3, <3>4
    <2> QED BY <2>1, <2>2
  <1>4. ASSUME NEW q \in Sem, NEW r \in Sem, NEW i \in 1 .. Len(V[q]), NEW j \in 1 .. Len(V[r]),
               V[q][i] = V[r][j]
        PROVE  q = r /\ i = j
    <2>1. CASE (q = s /\ i = n) \/ (r = s /\ j = n)
      BY <1>1, <1>2, <1>4, <2>1
    <2>2. CASE ~(q = s /\ i = n) /\ ~(r = s /\ j = n)
      <3>1. i \in 1 .. Len(W[q]) /\ V[q][i] = W[q][i] /\ j \in 1 .. Len(W[r]) /\ V[r][j] = W[r][j]
        BY <1>1, <2>2
      <3>2. W[q][i] = W[r][j]
        BY <1>4, <3>1
      <3>3. \A a, b \in Sem : \A k \in 1 .. Len(W[a]), l \in 1 .. Len(W[b]) :
               W[a][k] = W[b][l] => a = b /\ k = l
        BY DEF Exact
      <3> QED BY <3>1, <3>2, <3>3
    <2> QED BY <2>1, <2>2
  <1>5. Exact(V, Q \cup {t})
    BY <1>3, <1>4 DEF Exact
  <1> QED BY <1>5 DEF V

\* fifo_pop
LEMMA ExactPop ==
    ASSUME NEW W \in [Sem -> Seq(Thread)], NEW Q, Exact(W, Q), NEW s \in Sem, W[s] # <<>>
    PROVE  Exact([W EXCEPT ![s] = Tail(@)], Q \ {Head(W[s])})
  <1> DEFINE V == [W EXCEPT ![s] = Tail(@)]
             h == Head(W[s])
             at(r, i) == IF r = s THEN i + 1 ELSE i
  <1>1. /\ V[s] = Tail(W[s]) /\ \A r \in Sem : r # s => V[r] = W[r]
        /\ h = W[s][1] /\ 1 \in 1 .. Len(W[s]) /\ h \in Thread
    BY PopFacts
  <1>2. \A r \in Sem : \A i \in 1 .. Len(V[r]) :
           at(r, i) \in 1 .. Len(W[r]) /\ V[r][i] = W[r][at(r, i)]
    BY <1>1, PopFacts
  <1>3. \A i \in 1 .. Len(W[s]) : i # 1 => i - 1 \in 1 .. Len(V[s]) /\ V[s][i - 1] = W[s][i]
    BY <1>1, PopFacts
  <1>4. \A r \in Sem : \A i \in 1 .. Len(V[r]) : V[r][i] # h
    <2> SUFFICES ASSUME NEW r \in Sem, NEW i \in 1 .. Len(V[r]), V[r][i] = h PROVE FALSE
      OBVIOUS
    <2>1. W[r][at(r, i)] = W[s][1] /\ at(r, i) \in 1 .. Len(W[r])
      BY <1>1, <1>2
    <2>2. r = s /\ at(r, i) = 1
      BY <1>1, <2>1 DEF Exact
    <2>3. i \in Nat /\ i > 0 /\ i + 1 = 1
      BY <2>2
    <2> QED BY <2>3
  <1> HIDE DEF V, h
  <1>5. ASSUME NEW x \in Thread
        PROVE  x \in Q \ {h} <=> \E r \in Sem : \E i \in 1 .. Len(V[r]) : V[r][i] = x
    <2>1. x \in Q <=> \E r \in Sem : \E i \in 1 .. Len(W[r]) : W[r][i] = x
      BY DEF Exact
    <2>2. ASSUME NEW r \in Sem, NEW i \in 1 .. Len(W[r]), W[r][i] = x, x # h
          PROVE  \E j \in 1 .. Len(V[r]) : V[r][j] = x
      BY <1>1, <1>3, <2>2
    <2>3. ASSUME NEW r \in Sem, NEW i \in 1 .. Len(V[r]), V[r][i] = x
          PROVE  x # h /\ \E j \in 1 .. Len(W[r]) : W[r][j] = x
      BY <1>2, <1>4, <2>3
    <2> QED BY <2>1, <2>2, <2>3
  <1>6. ASSUME NEW q \in Sem, NEW r \in Sem, NEW i \in 1 .. Len(V[q]), NEW j \in 1 .. Len(V[r]),
               V[q][i] = V[r][j]
        PROVE  q = r /\ i = j
    <2>1. /\ at(q, i) \in 1 .. Len(W[q]) /\ at(r, j) \in 1 .. Len(W[r])
          /\ W[q][at(q, i)] = W[r][at(r, j)]
      BY <1>2, <1>6
    <2>2. \A a, b \in Sem : \A k \in 1 .. Len(W[a]), l \in 1 .. Len(W[b]) :
             W[a][k] = W[b][l] => a = b /\ k = l
      BY DEF Exact
    <2> HIDE DEF at
    <2>3. q = r /\ at(q, i) = at(r, j)
      BY <2>1, <2>2
    <2> QED BY <2>3 DEF at
  <1>7. Exact(V, Q \ {h})
    BY <1>5, <1>6 DEF Exact
  <1> QED BY <1>7 DEF V, h
\* A call that another CPU executes stays where it is.
LEMMA OtherCall ==
    ASSUME SchedInv, NEW c \in Cpu, CpuStep(c), NEW d \in Cpu, d # c,
           NEW g \in Frame, InCall(d, g), scall'[g] = scall[g]
    PROVE  InCall(d, g)'
  <1>1. Runs(d, g)
    BY DEF InCall, Idle, Runs
  <1>2. Runs(d, g)' /\ pc'[g] = pc[g] /\ pc'[d] = pc[d] /\ ctx'[d] = ctx[d]
    BY <1>1, OtherCpu
  <1> QED BY <1>2 DEF InCall, Idle

\* The sleeping half of sem_wait: the queue catches up with the value, and the lock is
\* released before the CPU leaves the thread's stack.
LEMMA SleepSemInv ==
    ASSUME SchedInv, SemInv, NEW c \in Cpu, NEW t \in Thread, sem_sleep(c, t)
    PROVE  SemInv'
  <1> USE FrameFacts
  <1> DEFINE s == scall[t].sem
  <1>1. /\ scall[t].op = "sleep" /\ Sleep(c, t) /\ value' = value
        /\ waiters' = [waiters EXCEPT ![s] = Append(@, t)]
        /\ slock' = [slock EXCEPT ![s] = NULL]
        /\ scall' = [scall EXCEPT ![t] = NoCall]
        /\ SemTypeOK /\ CallInv /\ t \in Frame
    BY DEF sem_sleep, SemInv
  <1>2. scall[t] # NoCall /\ s \in Sem
    BY <1>1, CallType DEF NoCall
  <1>3. scall[t] = [op |-> "sleep", sem |-> s]
    BY <1>1, <1>2, CallType
  <1>4. CpuStep(c) /\ Idle(c, t) /\ waitq' = waitq \cup {t}
    BY <1>1 DEF CpuStep, Sleep
  <1>5. /\ slock'[s] = NULL /\ \A r \in Sem : r # s => slock'[r] = slock[r]
        /\ scall'[t] = NoCall /\ \A f \in Frame : f # t => scall'[f] = scall[f]
        /\ waiters'[s] = Append(waiters[s], t)
        /\ \A r \in Sem : r # s => waiters'[r] = waiters[r]
    BY <1>1, <1>2 DEF SemTypeOK
  <1> HIDE DEF s
  <1>6. SemTypeOK'
    BY <1>1, <1>2, PushFacts DEF SemTypeOK
  <1>7. CallInv'
    <2> SUFFICES ASSUME NEW g \in Frame, scall'[g] # NoCall
                 PROVE  \E d \in Cpu : slock'[scall'[g].sem] = d /\ InCall(d, g)'
      BY DEF CallInv
    <2>1. g # t /\ scall'[g] = scall[g] /\ scall[g] # NoCall
      BY <1>5
    <2>2. PICK d \in Cpu : slock[scall[g].sem] = d /\ InCall(d, g)
      BY <1>1, <2>1 DEF CallInv
    <2>3. d # c
      BY <1>4, <2>1, <2>2, CallAlone DEF Idle, Runs
    <2>4. scall[g].sem \in Sem /\ scall[g].sem # s
      BY <1>1, <1>2, <2>1, CallType, CallUnique DEF s
    <2> QED BY <1>4, <1>5, <2>1, <2>2, <2>3, <2>4, OtherCall
  <1>8. ASSUME NEW r \in Sem PROVE Balance(r)'
    <2>0. Balance(r) /\ waiters[r] \in Seq(Thread) /\ Len(waiters[r]) \in Nat
      BY <1>1 DEF SemInv, SemTypeOK
    <2>1. CASE r = s
      <3>1. Behind(r)
        BY <1>3, <2>1 DEF Behind
      <3>2. ASSUME NEW u \in Thread, scall'[u] = [op |-> "sleep", sem |-> r] PROVE FALSE
        <4>1. scall'[u].sem = s /\ scall'[u].op = "sleep"
          BY <2>1, <3>2
        <4>2. u # t /\ scall'[u] = scall[u] /\ scall[u] # NoCall
          BY <1>5, <4>1 DEF NoCall
        <4> QED BY <1>1, <1>2, <4>1, <4>2, CallUnique DEF s
      <3>3. ~Behind(r)'
        BY <3>2 DEF Behind
      <3>4. Len(waiters'[r]) = Len(waiters[r]) + 1
        BY <1>5, <2>0, <2>1, PushFacts
      <3> QED BY <1>1, <2>0, <3>1, <3>3, <3>4 DEF Balance
    <2>2. CASE r # s
      <3>1. scall[t] # [op |-> "sleep", sem |-> r] /\ NoCall # [op |-> "sleep", sem |-> r]
        BY <1>3, <2>2 DEF NoCall
      <3>2. Behind(r)' <=> Behind(r)
        BY <1>5, <3>1 DEF Behind
      <3> QED BY <1>1, <1>5, <2>0, <2>2, <3>2 DEF Balance
    <2> QED BY <2>1, <2>2
  <1>9. WaitersExact'
    <2>1. t \notin waitq
      BY <1>4 DEF Idle, OnCpu, SchedInv, NodeOnce
    <2>2. waiters \in [Sem -> Seq(Thread)] /\ Exact(waiters, waitq)
      BY <1>1 DEF SemTypeOK, SemInv, WaitersExact, Exact
    <2>3. Exact([waiters EXCEPT ![s] = Append(@, t)], waitq \cup {t})
      BY <1>2, <2>1, <2>2, ExactPush
    <2>4. waiters' = [waiters EXCEPT ![s] = Append(@, t)]
      BY <1>1 DEF s
    <2>5. Exact(waiters', waitq')
      BY <1>4, <2>3, <2>4
    <2> QED BY <2>5 DEF Exact, WaitersExact
  <1> QED BY <1>6, <1>7, <1>8, <1>9 DEF SemInv

\* sem_signal with nobody waiting.
LEMMA SignalInv ==
    ASSUME SchedInv, SemInv, NEW c \in Cpu, NEW f \in Frame, NEW s \in Sem, sem_signal(c, f, s)
    PROVE  SemInv'
  <1>1. /\ value' = [value EXCEPT ![s] = @ + 1] /\ value[s] + 1 > 0 /\ slock[s] = NULL
        /\ slock' = slock /\ waiters' = waiters /\ scall' = scall /\ UNCHANGED vars
        /\ SemTypeOK /\ CallInv
    BY DEF sem_signal, SemInv
  <1>2. pc' = pc /\ ctx' = ctx /\ waitq' = waitq
    BY <1>1 DEF vars
  <1>3. SemTypeOK'
    BY <1>1 DEF SemTypeOK
  <1>4. CallInv'
    BY <1>1, <1>2 DEF CallInv, InCall, Idle, Runs
  <1>5. ASSUME NEW r \in Sem PROVE Balance(r)'
    <2>1. Balance(r) /\ value[r] \in Int /\ (Behind(r)' <=> Behind(r))
      BY <1>1 DEF SemInv, SemTypeOK, Behind
    <2>2. CASE r = s
      <3>1. value'[r] = value[r] + 1 /\ value[r] >= 0
        BY <1>1, <2>1, <2>2 DEF SemTypeOK
      <3>2. ~Behind(r)
        BY <1>1, <2>2, UnlockedNotBehind
      <3>3. ~Behind(r)' /\ ~(value[r] < 0) /\ ~(value'[r] < 0)
        BY <2>1, <3>1, <3>2
      <3>4. Len(waiters[r]) + 0 = 0
        BY <2>1, <3>2, <3>3 DEF Balance
      <3>5. waiters' = waiters
        BY <1>1
      <3> QED BY <3>3, <3>4, <3>5 DEF Balance
    <2>3. CASE r # s
      <3>1. value'[r] = value[r]
        BY <1>1, <2>3 DEF SemTypeOK
      <3> QED BY <1>1, <2>1, <3>1 DEF Balance
    <2> QED BY <2>2, <2>3
  <1>6. WaitersExact'
    BY <1>1, <1>2 DEF SemInv, WaitersExact
  <1> QED BY <1>3, <1>4, <1>5, <1>6 DEF SemInv

\* sem_signal with a waiter: the value and the queue shrink together, and the caller
\* holds the lock while it is in wakeup_process.
LEMMA SignalWakeInv ==
    ASSUME SchedInv, SemInv, NEW c \in Cpu, NEW f \in Frame, NEW s \in Sem,
           sem_signal_wake(c, f, s)
    PROVE  SemInv'
  <1> USE FrameFacts
  <1> DEFINE h == Head(waiters[s])
             new == [op |-> "signal", sem |-> s]
  <1>1. /\ CanSignal(c, f) /\ slock[s] = NULL /\ value[s] + 1 <= 0 /\ waiters[s] # <<>>
        /\ WakeStart(c, f, h)
        /\ value' = [value EXCEPT ![s] = @ + 1] /\ waiters' = [waiters EXCEPT ![s] = Tail(@)]
        /\ slock' = [slock EXCEPT ![s] = c] /\ scall' = [scall EXCEPT ![f] = new]
        /\ SemTypeOK /\ CallInv
    BY DEF sem_signal_wake, SemInv
  <1>2. /\ waitq' = waitq \ {h} /\ pc' = [pc EXCEPT ![f] = "wk_lock"] /\ ctx' = ctx
        /\ h \in Thread /\ scall[f] = NoCall
    BY <1>1 DEF WakeStart, CanSignal, SchedInv, TypeOK
  <1>3. CpuStep(c)
    BY <1>1, <1>2 DEF CpuStep
  <1>4. /\ slock'[s] = c /\ \A r \in Sem : r # s => slock'[r] = slock[r]
        /\ scall'[f] = new /\ \A g \in Frame : g # f => scall'[g] = scall[g]
        /\ waiters'[s] = Tail(waiters[s]) /\ \A r \in Sem : r # s => waiters'[r] = waiters[r]
        /\ value'[s] = value[s] + 1 /\ \A r \in Sem : r # s => value'[r] = value[r]
    BY <1>1 DEF SemTypeOK
  <1> HIDE DEF h
  <1>5. SemTypeOK'
    BY <1>1, PopFacts DEF SemTypeOK
  <1>6. CallInv'
    <2> SUFFICES ASSUME NEW g \in Frame, scall'[g] # NoCall
                 PROVE  \E d \in Cpu : slock'[scall'[g].sem] = d /\ InCall(d, g)'
      BY DEF CallInv
    <2>1. CASE g = f
      <3>1. pc'[f] = "wk_lock" /\ (f \in Thread => pc'[c] = pc[c])
        BY <1>2 DEF SchedInv, TypeOK
      <3>2. Runs(c, f)'
        BY <1>1, <1>2, <3>1 DEF CanSignal, CanCall, Idle, Runs
      <3>3. scall'[f].op = "signal" /\ scall'[f].sem = s
        BY <1>4
      <3>4. pc'[f] \in WakePc
        BY <3>1 DEF WakePc
      <3>5. InCall(c, f)'
        BY <3>2, <3>3, <3>4 DEF InCall
      <3> QED BY <1>4, <2>1, <3>3, <3>5
    <2>2. CASE g # f
      <3>1. scall'[g] = scall[g] /\ scall[g] # NoCall
        BY <1>4, <2>2
      <3>2. PICK d \in Cpu : slock[scall[g].sem] = d /\ InCall(d, g)
        BY <1>1, <3>1 DEF CallInv
      <3>3. scall[g].sem \in Sem /\ scall[g].sem # s
        BY <1>1, <3>1, CallType, UnlockedNotBehind
      <3>4. d # c
        <4>1. CASE f \in Cpu
          BY <1>1, <3>2, <3>3, <4>1 DEF CanSignal
        <4>2. CASE f \in Thread
          <5>1. Runs(c, f) /\ pc[f] = "run"
            BY <1>1, <4>2 DEF CanSignal, CanCall, Idle, Runs
          <5> QED BY <2>2, <3>2, <5>1, CallAlone
        <4> QED BY <4>1, <4>2 DEF Frame
      <3> QED BY <1>3, <1>4, <3>1, <3>2, <3>3, <3>4, OtherCall
    <2> QED BY <2>1, <2>2
  <1>7. ASSUME NEW r \in Sem PROVE Balance(r)'
    <2>0. Balance(r) /\ value[r] \in Int /\ waiters[r] \in Seq(Thread) /\ Len(waiters[r]) \in Nat
      BY <1>1 DEF SemInv, SemTypeOK
    <2>1. new # [op |-> "sleep", sem |-> r] /\ NoCall # [op |-> "sleep", sem |-> r]
      BY DEF NoCall
    <2>2. Behind(r)' <=> Behind(r)
      BY <1>2, <1>4, <2>1 DEF Behind
    <2>3. CASE r = s
      <3>1. ~Behind(r) /\ ~Behind(r)'
        BY <1>1, <2>2, <2>3, UnlockedNotBehind
      <3>2. Len(waiters'[r]) = Len(waiters[r]) - 1
        <4>1. waiters'[r] = Tail(waiters[r]) /\ waiters[r] # <<>>
          BY <1>1, <1>4, <2>3
        <4> QED BY <2>0, <4>1, PopFacts
      <3>3. value'[r] = value[r] + 1 /\ value[r] < 0
        BY <1>1, <1>4, <2>0, <2>3
      <3>4. Len(waiters[r]) + 0 = -value[r]
        BY <2>0, <3>1, <3>3 DEF Balance
      <3> QED BY <2>0, <3>1, <3>2, <3>3, <3>4 DEF Balance
    <2>4. CASE r # s
      BY <1>4, <2>0, <2>2, <2>4 DEF Balance
    <2> QED BY <2>3, <2>4
  <1>8. WaitersExact'
    <2>1. waiters \in [Sem -> Seq(Thread)] /\ Exact(waiters, waitq)
      BY <1>1 DEF SemTypeOK, SemInv, WaitersExact, Exact
    <2>2. Exact([waiters EXCEPT ![s] = Tail(@)], waitq \ {Head(waiters[s])})
      BY <1>1, <2>1, ExactPop
    <2>3. Exact(waiters', waitq')
      BY <1>1, <1>2, <2>2 DEF h
    <2> QED BY <2>3 DEF Exact, WaitersExact
  <1> QED BY <1>5, <1>6, <1>7, <1>8 DEF SemInv

\* sem_signal returns: its call was the only one on its semaphore.
LEMMA SignalEndInv ==
    ASSUME SchedInv, SemInv, NEW c \in Cpu, NEW f \in Frame, sem_signal_end(c, f)
    PROVE  SemInv'
  <1> USE FrameFacts
  <1> DEFINE s == scall[f].sem
  <1>1. /\ scall[f].op = "signal" /\ WakeReturn(c, f) /\ value' = value /\ waiters' = waiters
        /\ slock' = [slock EXCEPT ![s] = NULL]
        /\ scall' = [scall EXCEPT ![f] = NoCall]
        /\ SemTypeOK /\ CallInv
    BY DEF sem_signal_end, SemInv
  <1>2. scall[f] # NoCall /\ s \in Sem
    BY <1>1, CallType DEF NoCall
  <1>3. CpuStep(c) /\ Runs(c, f) /\ pc[f] \in WakePc /\ waitq' = waitq
    BY <1>1 DEF CpuStep, WakeReturn, WakePc
  <1>4. /\ \A r \in Sem : r # s => slock'[r] = slock[r]
        /\ scall'[f] = NoCall /\ \A g \in Frame : g # f => scall'[g] = scall[g]
    BY <1>1, <1>2 DEF SemTypeOK
  <1> HIDE DEF s
  <1>5. SemTypeOK'
    BY <1>1, <1>2 DEF SemTypeOK
  <1>6. CallInv'
    <2> SUFFICES ASSUME NEW g \in Frame, scall'[g] # NoCall
                 PROVE  \E d \in Cpu : slock'[scall'[g].sem] = d /\ InCall(d, g)'
      BY DEF CallInv
    <2>1. g # f /\ scall'[g] = scall[g] /\ scall[g] # NoCall
      BY <1>4
    <2>2. PICK d \in Cpu : slock[scall[g].sem] = d /\ InCall(d, g)
      BY <1>1, <2>1 DEF CallInv
    <2>3. d # c
      BY <1>3, <2>1, <2>2, CallAlone
    <2>4. scall[g].sem \in Sem /\ scall[g].sem # s
      BY <1>1, <1>2, <2>1, CallType, CallUnique DEF s
    <2> QED BY <1>3, <1>4, <2>1, <2>2, <2>3, <2>4, OtherCall
  <1>7. ASSUME NEW r \in Sem PROVE Balance(r)'
    <2>1. scall[f] # [op |-> "sleep", sem |-> r] /\ NoCall # [op |-> "sleep", sem |-> r]
      BY <1>1 DEF NoCall
    <2>2. Behind(r)' <=> Behind(r)
      BY <1>4, <2>1 DEF Behind
    <2>3. Balance(r)
      BY DEF SemInv
    <2> QED BY <1>1, <2>2, <2>3 DEF Balance
  <1>8. WaitersExact'
    BY <1>1, <1>3 DEF SemInv, WaitersExact
  <1> QED BY <1>5, <1>6, <1>7, <1>8 DEF SemInv

----------------------------------------------------------------------------
\* sem_init: no waiter, no call, and a value that is not negative.
LEMMA SemInitInv == SemInit => SchedInv /\ SemInv
  <1> SUFFICES ASSUME SemInit PROVE SchedInv /\ SemInv
    OBVIOUS
  <1>1. SchedInv
    BY InitInv DEF SemInit
  <1>2. waitq = {}
    BY DEF SemInit, Init
  <1>3. SemTypeOK
    BY SemAssumption DEF SemInit, SemTypeOK
  <1>4. CallInv
    BY DEF SemInit, CallInv
  <1>5. ASSUME NEW s \in Sem PROVE Balance(s)
    <2>1. ~Behind(s)
      BY FrameFacts DEF SemInit, Behind, NoCall
    <2>2. value[s] \in 0 .. MaxValue /\ Len(waiters[s]) = 0
      BY SemAssumption DEF SemInit
    <2> QED BY <2>1, <2>2, SemAssumption DEF Balance
  <1>6. WaitersExact
    BY <1>2 DEF SemInit, WaitersExact
  <1> QED BY <1>1, <1>3, <1>4, <1>5, <1>6 DEF SemInv

\* Every step keeps both invariants.
LEMMA SemNextInv ==
    ASSUME SchedInv, SemInv, [SemNext]_allvars
    PROVE  SchedInv' /\ SemInv'
  <1>1. SchedInv'
    BY SemStepIsSchedStep, NextInv
  <1>2. CASE UNCHANGED allvars
    <2>1. UNCHANGED <<value, slock, waiters, scall, pc, ctx, waitq>>
      BY <1>2 DEF allvars, semvars, vars
    <2>2. SemTypeOK' /\ CallInv' /\ WaitersExact'
      BY <2>1 DEF SemInv, SemTypeOK, CallInv, InCall, Idle, Runs, WaitersExact
    <2>3. \A s \in Sem : Balance(s)'
      BY <2>1 DEF SemInv, Balance, Behind
    <2> QED BY <1>1, <2>2, <2>3 DEF SemInv
  <1>3. CASE SemNext
    BY <1>1, <1>3, SchedOnlyInv, WaitInv, SleepSemInv, SignalInv, SignalWakeInv, SignalEndInv
       DEF SemNext
  <1> QED BY <1>2, <1>3

\* For any number of CPUs, threads and semaphores: the scheduler's invariant survives the
\* semaphores' calls into it, and the semaphores keep their own.
THEOREM SemCorrect == SemSpec => [](SchedInv /\ SemInv)
  <1>1. SemInit => SchedInv /\ SemInv
    BY SemInitInv
  <1>2. SchedInv /\ SemInv /\ [SemNext]_allvars => (SchedInv /\ SemInv)'
    BY SemNextInv
  <1> QED BY <1>1, <1>2, PTL DEF SemSpec

\* For any number of CPUs, threads and semaphores a negative value counts the waiters, and
\* sem_signal never finds the queue empty when the value says that somebody waits.
THEOREM SemAccountingTheorem == SemSpec => []SemAccounting
  <1>1. SchedInv /\ SemInv => SemAccounting
    BY BalanceIsAccounting
  <1> QED BY <1>1, SemCorrect, PTL

\* For any number of CPUs, threads and semaphores a sleeping thread is in the queue of
\* exactly one semaphore, once.
THEOREM WaitersExactTheorem == SemSpec => []WaitersExact
  <1>1. SchedInv /\ SemInv => WaitersExact
    BY DEF SemInv
  <1> QED BY <1>1, SemCorrect, PTL

----------------------------------------------------------------------------
\* The permits of AbsSemaphore.
Permits == [s \in Sem |-> IF value[s] > 0 THEN value[s] ELSE 0]

\* Every step of the code is a step of AbsSemaphore or invisible to it: the scheduler's
\* steps, the half of sem_wait that leaves the value negative, and the end of sem_signal.
LEMMA AbsStep ==
    ASSUME SchedInv, SemInv, [SemNext]_allvars
    PROVE  [Abs!AbsNext]_<<Permits, waiters>>
  <1>0. value \in [Sem -> Int] /\ waiters \in [Sem -> Seq(Thread)]
    BY DEF SemInv, SemTypeOK
  <1>1. ASSUME value' = value, waiters' = waiters PROVE UNCHANGED <<Permits, waiters>>
    BY <1>1 DEF Permits
  <1>2. CASE UNCHANGED allvars
    BY <1>1, <1>2 DEF allvars, semvars
  <1>3. ASSUME NEW c \in Cpu, SchedOnly(c), UNCHANGED semvars
        PROVE  UNCHANGED <<Permits, waiters>>
    BY <1>1, <1>3 DEF semvars
  <1>4. ASSUME NEW c \in Cpu, NEW f \in Frame, sem_signal_end(c, f)
        PROVE  UNCHANGED <<Permits, waiters>>
    BY <1>1, <1>4 DEF sem_signal_end
  <1>5. ASSUME NEW c \in Cpu, NEW t \in Thread, NEW s \in Sem, sem_wait(c, t, s)
        PROVE  Abs!Take(s) \/ UNCHANGED <<Permits, waiters>>
    <2>1. value' = [value EXCEPT ![s] = @ - 1] /\ waiters' = waiters
      BY <1>5 DEF sem_wait
    <2>2. CASE value[s] > 0
      <3>1. Permits' = [Permits EXCEPT ![s] = @ - 1] /\ Permits[s] > 0
        <4>1. /\ value'[s] = value[s] - 1 /\ value[s] \in Int
              /\ \A r \in Sem : r # s => value'[r] = value[r]
          BY <1>0, <2>1
        <4>2. (IF value'[s] > 0 THEN value'[s] ELSE 0) = value[s] - 1
          BY <2>2, <4>1
        <4> QED BY <2>2, <4>1, <4>2 DEF Permits
      <3> QED BY <2>1, <3>1 DEF Abs!Take, Permits
    <2>3. CASE ~(value[s] > 0)
      <3>1. Permits' = Permits
        BY <1>0, <2>1, <2>3 DEF Permits
      <3> QED BY <2>1, <3>1
    <2> QED BY <2>2, <2>3
  <1>6. ASSUME NEW c \in Cpu, NEW t \in Thread, sem_sleep(c, t)
        PROVE  \E s \in Sem : Abs!Enqueue(t, s)
    <2> DEFINE s == scall[t].sem
    <2>1. /\ scall[t].op = "sleep" /\ waiters' = [waiters EXCEPT ![s] = Append(@, t)]
          /\ value' = value /\ Idle(c, t)
      BY <1>6 DEF sem_sleep, Sleep
    <2>2. s \in Sem /\ scall[t] = [op |-> "sleep", sem |-> s]
      BY <2>1, CallType, FrameFacts DEF NoCall, SemInv
    <2> HIDE DEF s
    <2>3. Behind(s) /\ Balance(s) /\ Len(waiters[s]) \in Nat /\ value[s] \in Int
      BY <1>0, <2>2 DEF Behind, SemInv
    <2>4. ~(value[s] > 0)
      BY <2>3 DEF Balance
    <2>5. Permits[s] = 0 /\ Permits' = Permits
      BY <2>1, <2>2, <2>4 DEF Permits
    <2>6. t \notin waitq
      BY <2>1 DEF Idle, OnCpu, SchedInv, NodeOnce
    <2>7. \A r \in Sem : \A i \in 1 .. Len(waiters[r]) : waiters[r][i] # t
      BY <2>6 DEF SemInv, WaitersExact
    <2>8. PICK r \in Sem : r = s
      BY <2>2
    <2>9. Abs!Enqueue(t, r)
      BY <2>1, <2>5, <2>7, <2>8 DEF Abs!Enqueue, Permits, s
    <2> QED BY <2>9
  <1>7. ASSUME NEW c \in Cpu, NEW f \in Frame, NEW s \in Sem, sem_signal(c, f, s)
        PROVE  Abs!Deposit(s)
    <2>1. /\ value' = [value EXCEPT ![s] = @ + 1] /\ value[s] + 1 > 0 /\ waiters' = waiters
          /\ slock[s] = NULL
      BY <1>7 DEF sem_signal
    <2>2. ~Behind(s) /\ Balance(s) /\ value[s] \in Int /\ waiters[s] \in Seq(Thread)
      BY <1>0, <2>1, UnlockedNotBehind DEF SemInv
    <2>3. ~(value[s] < 0)
      BY <2>1, <2>2
    <2>4. Len(waiters[s]) + 0 = 0
      BY <2>2, <2>3 DEF Balance
    <2>5. waiters[s] = <<>>
      BY <2>2, <2>4
    <2>6. Permits' = [Permits EXCEPT ![s] = @ + 1]
      <3>1. value'[s] = value[s] + 1 /\ \A r \in Sem : r # s => value'[r] = value[r]
        BY <1>0, <2>1
      <3>2. /\ (IF value'[s] > 0 THEN value'[s] ELSE 0) = value[s] + 1
            /\ (IF value[s] > 0 THEN value[s] ELSE 0) = value[s]
        BY <2>2, <2>3, <3>1
      <3> QED BY <3>1, <3>2 DEF Permits
    <2> QED BY <2>1, <2>5, <2>6 DEF Abs!Deposit, Permits
  <1>8. ASSUME NEW c \in Cpu, NEW f \in Frame, NEW s \in Sem, sem_signal_wake(c, f, s)
        PROVE  Abs!HandOver(s)
    <2>1. /\ value' = [value EXCEPT ![s] = @ + 1] /\ value[s] + 1 <= 0 /\ waiters[s] # <<>>
          /\ waiters' = [waiters EXCEPT ![s] = Tail(@)]
      BY <1>8 DEF sem_signal_wake
    <2>2. Permits' = Permits
      BY <1>0, <2>1 DEF Permits
    <2> QED BY <2>1, <2>2 DEF Abs!HandOver, Permits
  <1>9. CASE SemNext
    BY <1>3, <1>4, <1>5, <1>6, <1>7, <1>8, <1>9 DEF SemNext, Abs!AbsNext
  <1> QED BY <1>2, <1>9

\* For any number of CPUs, threads and semaphores, semaphore.c implements AbsSemaphore: a
\* permit is never lost or invented, nobody queues while one is left, and sem_signal hands
\* its permit to the thread that has waited longest.
THEOREM SemaphoreRefinement == SemSpec => ImplementsSemaphore
  <1>1. SemInit => Abs!AbsInit
    <2>1. sem_value0 \in [Sem -> 0 .. MaxValue] /\ MaxValue \in Nat
      BY SemAssumption
    <2>2. SemInit => [s \in Sem |-> IF value[s] > 0 THEN value[s] ELSE 0] = sem_value0
      BY <2>1 DEF SemInit
    <2> QED BY <2>2 DEF SemInit, Abs!AbsInit
  <1>2. SchedInv /\ SemInv /\ [SemNext]_allvars
           => [Abs!AbsNext]_<<[s \in Sem |-> IF value[s] > 0 THEN value[s] ELSE 0], waiters>>
    BY AbsStep DEF Permits
  <1> QED BY <1>1, <1>2, SemCorrect, PTL DEF SemSpec, ImplementsSemaphore, Abs!AbsSpec
=============================================================================
