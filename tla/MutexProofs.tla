---------------------------- MODULE MutexProofs ----------------------------
(* Proofs about Mutex: mutual exclusion and the truth of mutex_is_hold, for *)
(* any number of CPUs, threads and mutexes, on top of SemaphoreProofs.      *)
EXTENDS Mutex, SemaphoreProofs

\* Thread t is queued for m.
InQueue(t, m) == \E i \in 1 .. Len(waiters[m]) : waiters[m][i] = t

\* Where a thread's call on a mutex is, in the semaphore's terms.
Use(t, m) ==
    /\ InQueue(t, m) => mst[t][m] = "wait" /\ scall[t] = NoCall
    /\ scall[t] = [op |-> "sleep", sem |-> m] => mst[t][m] = "wait"
    /\ scall[t].op = "signal" => mst[t][m] \in {"none", "hold"}
    /\ mst[t][m] \in {"wait", "release"} =>
          \A n \in Sem : n # m => mst[t][n] \in {"none", "hold"}

\* The permit of m is in the semaphore or owned by one thread.
OneOwner(m) ==
    /\ \A t, u \in Thread : Owns(t, m) /\ Owns(u, m) => t = u
    /\ value[m] <= 1
    /\ value[m] = 1 <=> \A t \in Thread : ~Owns(t, m)

\* The inductive invariant, next to SchedInv and SemInv.
MutexInv ==
    /\ locked \in [Sem -> {MUTEX_LOCK, MUTEX_UNLOCK}]
    /\ mthread \in [Sem -> Thread \cup {NULL}]
    /\ mst \in [Thread -> [Sem -> {"none", "wait", "hold", "release"}]]
    /\ \A t \in Thread, m \in Sem : Use(t, m)
    /\ \A m \in Sem : OneOwner(m)
    /\ \A t \in Thread, m \in Sem : mutex_is_hold(t, m) <=> mst[t][m] = "hold"

----------------------------------------------------------------------------
\* mutex.c changes the semaphore through semaphore.c alone.
LEMMA MutexStepIsSemStep ==
    ASSUME [MutexNext]_mvars
    PROVE  [SemNext]_allvars
  <1> USE FrameFacts
  <1>1. CASE UNCHANGED mvars
    BY <1>1 DEF mvars
  <1>2. CASE MutexNext
    <2> PICK c \in Cpu :
           \/ /\ \/ MutexSchedOnly(c)
                 \/ \E t \in Thread : sem_sleep(c, t)
                 \/ \E f \in Frame : sem_signal_end(c, f)
              /\ UNCHANGED mutexvars
           \/ \E t \in Thread, m \in Sem :
                 \/ mutex_lock(c, t, m) \/ mutex_locked(c, t, m)
                 \/ mutex_unlock(c, t, m) \/ mutex_signal(c, t, m)
      BY <1>2 DEF MutexNext
    <2>1. CASE MutexSchedOnly(c)
      <3>1. SchedOnly(c) /\ UNCHANGED semvars
        BY <2>1 DEF MutexSchedOnly, SchedOnly
      <3> QED BY <3>1 DEF SemNext
    <2>2. CASE (\E t \in Thread : sem_sleep(c, t)) \/ \E f \in Frame : sem_signal_end(c, f)
      BY <2>2 DEF SemNext
    <2>3. ASSUME NEW t \in Thread, NEW m \in Sem, mutex_lock(c, t, m) PROVE SemNext
      BY <2>3 DEF mutex_lock, SemNext
    <2>4. ASSUME NEW t \in Thread, NEW m \in Sem, mutex_signal(c, t, m) PROVE SemNext
      BY <2>4 DEF mutex_signal, SemNext
    <2>5. ASSUME NEW t \in Thread, NEW m \in Sem, mutex_locked(c, t, m) \/ mutex_unlock(c, t, m)
          PROVE  UNCHANGED allvars
      BY <2>5 DEF mutex_locked, mutex_unlock
    <2> QED BY <2>1, <2>2, <2>3, <2>4, <2>5
  <1> QED BY <1>1, <1>2

\* A thread that executes is in no semaphore's queue.
LEMMA RunningNotQueued ==
    ASSUME SchedInv, SemInv, NEW c \in Cpu, NEW t \in Thread, Idle(c, t), NEW m \in Sem
    PROVE  ~InQueue(t, m)
  <1>1. t \notin waitq
    BY DEF Idle, OnCpu, SchedInv, NodeOnce
  <1> QED BY <1>1 DEF InQueue, SemInv, WaitersExact

\* Owning, in terms of InQueue.
LEMMA OwnsDef ==
    ASSUME NEW t, NEW m
    PROVE  Owns(t, m) <=> \/ mst[t][m] \in {"hold", "release"}
                          \/ mst[t][m] = "wait" /\ scall[t] = NoCall /\ ~InQueue(t, m)
  BY DEF Owns, InQueue

\* The same for the next state.
LEMMA OwnsDefNext ==
    ASSUME NEW t, NEW m
    PROVE  Owns(t, m)' <=> \/ mst'[t][m] \in {"hold", "release"}
                           \/ mst'[t][m] = "wait" /\ scall'[t] = NoCall /\ ~InQueue(t, m)'
  BY DEF Owns, InQueue

\* A step that keeps the value and the owners of m.
LEMMA SameOwner ==
    ASSUME NEW m \in Sem, OneOwner(m), value'[m] = value[m],
           \A t \in Thread : Owns(t, m)' <=> Owns(t, m)
    PROVE  OneOwner(m)'
  BY DEF OneOwner

\* The steps of the scheduler, in which no mutex takes part.
LEMMA MutexSchedInv ==
    ASSUME MutexInv, UNCHANGED semvars, UNCHANGED mutexvars
    PROVE  MutexInv'
  <1>1. UNCHANGED <<value, slock, waiters, scall, locked, mthread, mst>>
    BY DEF semvars, mutexvars
  <1>2. \A t \in Thread, m \in Sem : (InQueue(t, m)' <=> InQueue(t, m)) /\ (Owns(t, m)' <=> Owns(t, m))
    BY <1>1 DEF InQueue, Owns
  <1>3. \A t \in Thread, m \in Sem : Use(t, m)'
    BY <1>1, <1>2 DEF MutexInv, Use
  <1>4. \A m \in Sem : OneOwner(m)'
    BY <1>1, <1>2, SameOwner DEF MutexInv
  <1> QED BY <1>1, <1>3, <1>4 DEF MutexInv, mutex_is_hold

\* sem_sleep: the thread that waits is queued instead of about to be.
LEMMA MutexSleepInv ==
    ASSUME SemInv, MutexInv, NEW c \in Cpu, NEW t \in Thread, sem_sleep(c, t), UNCHANGED mutexvars
    PROVE  MutexInv'
  <1> USE FrameFacts
  <1> DEFINE s == scall[t].sem
  <1>1. /\ locked' = locked /\ mthread' = mthread /\ mst' = mst /\ value' = value
        /\ scall[t].op = "sleep" /\ waiters' = [waiters EXCEPT ![s] = Append(@, t)]
        /\ scall' = [scall EXCEPT ![t] = NoCall] /\ SemTypeOK
    BY DEF sem_sleep, mutexvars, SemInv
  <1>2. scall[t] # NoCall /\ s \in Sem /\ scall[t] = [op |-> "sleep", sem |-> s]
    BY <1>1, CallType DEF NoCall
  <1>3. /\ scall'[t] = NoCall /\ \A u \in Thread : u # t => scall'[u] = scall[u]
        /\ waiters'[s] = Append(waiters[s], t)
        /\ \A n \in Sem : n # s => waiters'[n] = waiters[n]
        /\ waiters[s] \in Seq(Thread)
    BY <1>1, <1>2 DEF SemTypeOK
  <1> HIDE DEF s
  <1>4. mst[t][s] = "wait" /\ \A n \in Sem : n # s => mst[t][n] \in {"none", "hold"}
    BY <1>2 DEF MutexInv, Use
  <1>5. ASSUME NEW u \in Thread, NEW n \in Sem
        PROVE  InQueue(u, n)' <=> InQueue(u, n) \/ (u = t /\ n = s)
    <2>1. CASE n = s
      <3>1. /\ Len(waiters'[n]) = Len(waiters[n]) + 1 /\ Len(waiters[n]) \in Nat
            /\ waiters'[n][Len(waiters[n]) + 1] = t
            /\ \A i \in 1 .. Len(waiters[n]) : waiters'[n][i] = waiters[n][i]
        BY <1>3, <2>1, PushFacts
      <3>2. ASSUME NEW i \in 1 .. Len(waiters'[n]), waiters'[n][i] = u
            PROVE  InQueue(u, n) \/ u = t
        BY <3>1, <3>2 DEF InQueue
      <3>3. ASSUME InQueue(u, n) \/ u = t PROVE InQueue(u, n)'
        BY <3>1, <3>3 DEF InQueue
      <3> QED BY <2>1, <3>2, <3>3 DEF InQueue
    <2>2. CASE n # s
      BY <1>3, <2>2 DEF InQueue
    <2> QED BY <2>1, <2>2
  <1>6. \A u \in Thread, n \in Sem : Owns(u, n)' <=> Owns(u, n)
    <2> SUFFICES ASSUME NEW u \in Thread, NEW n \in Sem PROVE Owns(u, n)' <=> Owns(u, n)
      OBVIOUS
    <2>1. CASE u # t
      BY <1>1, <1>3, <1>5, <2>1, OwnsDef, OwnsDefNext
    <2>2. CASE u = t /\ n # s
      BY <1>1, <1>4, <2>2, OwnsDef, OwnsDefNext
    <2>3. CASE u = t /\ n = s
      BY <1>1, <1>2, <1>4, <1>5, <2>3, OwnsDef, OwnsDefNext
    <2> QED BY <2>1, <2>2, <2>3
  <1>7. ASSUME NEW u \in Thread, NEW n \in Sem PROVE Use(u, n)'
    <2>1. Use(u, n)
      BY DEF MutexInv
    <2>2. CASE u # t
      BY <1>1, <1>3, <1>5, <2>1, <2>2 DEF Use
    <2>3. CASE u = t
      <3>1. scall'[u] = NoCall /\ NoCall # [op |-> "sleep", sem |-> n] /\ NoCall.op # "signal"
        BY <1>3, <2>3 DEF NoCall
      <3>2. InQueue(u, n)' => mst[u][n] = "wait"
        BY <1>4, <1>5, <2>1, <2>3 DEF Use
      <3> QED BY <1>1, <2>1, <3>1, <3>2 DEF Use
    <2> QED BY <2>2, <2>3
  <1>8. \A n \in Sem : OneOwner(n)'
    BY <1>1, <1>6, SameOwner DEF MutexInv
  <1> QED BY <1>1, <1>7, <1>8 DEF MutexInv, mutex_is_hold

\* sem_signal returns to a thread that is in no other call.
LEMMA MutexSignalEndInv ==
    ASSUME SemInv, MutexInv, NEW c \in Cpu, NEW f \in Frame, sem_signal_end(c, f),
           UNCHANGED mutexvars
    PROVE  MutexInv'
  <1> USE FrameFacts
  <1>1. /\ locked' = locked /\ mthread' = mthread /\ mst' = mst /\ value' = value
        /\ waiters' = waiters /\ scall[f].op = "signal"
        /\ scall' = [scall EXCEPT ![f] = NoCall] /\ SemTypeOK
    BY DEF sem_signal_end, mutexvars, SemInv
  <1>2. scall'[f] = NoCall /\ \A u \in Thread : u # f => scall'[u] = scall[u]
    BY <1>1 DEF SemTypeOK
  <1>3. \A u \in Thread, n \in Sem : InQueue(u, n)' <=> InQueue(u, n)
    BY <1>1 DEF InQueue
  <1>4. ASSUME NEW u \in Thread, NEW n \in Sem
        PROVE  (Owns(u, n)' <=> Owns(u, n)) /\ Use(u, n)'
    <2>0. Use(u, n)
      BY DEF MutexInv
    <2>1. CASE u # f
      <3>1. scall'[u] = scall[u]
        BY <1>2, <2>1
      <3>2. Owns(u, n)' <=> Owns(u, n)
        BY <1>1, <1>3, <3>1, OwnsDef, OwnsDefNext
      <3>3. Use(u, n)'
        BY <1>1, <1>3, <2>0, <3>1 DEF Use
      <3> QED BY <3>2, <3>3
    <2>2. CASE u = f
      <3>1. mst[u][n] \in {"none", "hold"}
        BY <1>1, <2>0, <2>2 DEF Use
      <3>2. Owns(u, n)' <=> Owns(u, n)
        BY <1>1, <3>1, OwnsDef, OwnsDefNext
      <3>3. scall'[u] = NoCall /\ NoCall # [op |-> "sleep", sem |-> n] /\ NoCall.op # "signal"
        BY <1>2, <2>2 DEF NoCall
      <3>4. Use(u, n)'
        BY <1>1, <1>3, <2>0, <3>1, <3>3 DEF Use
      <3> QED BY <3>2, <3>4
    <2> QED BY <2>1, <2>2
  <1>5. \A n \in Sem : OneOwner(n)'
    BY <1>1, <1>4, SameOwner DEF MutexInv
  <1> QED BY <1>1, <1>4, <1>5 DEF MutexInv, mutex_is_hold

\* What a step that changes one thread's use of one mutex does to the array.
LEMMA MstUpdate ==
    ASSUME MutexInv, NEW t \in Thread, NEW m \in Sem, NEW v \in {"none", "wait", "hold", "release"},
           mst' = [mst EXCEPT ![t][m] = v]
    PROVE  /\ mst' \in [Thread -> [Sem -> {"none", "wait", "hold", "release"}]]
           /\ mst'[t][m] = v
           /\ \A u \in Thread, n \in Sem : ~(u = t /\ n = m) => mst'[u][n] = mst[u][n]
  BY DEF MutexInv

\* mutex_lock up to the test of sem_wait: the thread takes the permit, and owns the mutex
\* before it has recorded that, or there is none and somebody else is the owner.
LEMMA MutexLockInv ==
    ASSUME SchedInv, SemInv, MutexInv, NEW c \in Cpu, NEW t \in Thread, NEW m \in Sem,
           mutex_lock(c, t, m)
    PROVE  MutexInv'
  <1> USE FrameFacts
  <1>1. /\ locked' = locked /\ mthread' = mthread /\ mst' = [mst EXCEPT ![t][m] = "wait"]
        /\ value' = [value EXCEPT ![m] = @ - 1] /\ waiters' = waiters
        /\ NoMutexCall(t) /\ mst[t][m] = "none" /\ Idle(c, t) /\ scall[t] = NoCall
        /\ SemTypeOK
    BY DEF mutex_lock, sem_wait, SemInv
  <1>2. /\ mst' \in [Thread -> [Sem -> {"none", "wait", "hold", "release"}]]
        /\ mst'[t][m] = "wait"
        /\ \A u \in Thread, n \in Sem : ~(u = t /\ n = m) => mst'[u][n] = mst[u][n]
    BY <1>1, MstUpdate
  <1>3. \A n \in Sem : mst[t][n] \in {"none", "hold"} /\ ~InQueue(t, n)
    BY <1>1, RunningNotQueued DEF NoMutexCall
  <1>4. \A u \in Thread, n \in Sem : InQueue(u, n)' <=> InQueue(u, n)
    BY <1>1 DEF InQueue
  <1>5. /\ \A u \in Thread : u # t => scall'[u] = scall[u]
        /\ value[m] - 1 < 0 => scall'[t] = [op |-> "sleep", sem |-> m]
        /\ ~(value[m] - 1 < 0) => scall'[t] = NoCall
    BY <1>1 DEF mutex_lock, sem_wait, SemTypeOK
  <1>6. /\ value[m] \in Int /\ value'[m] = value[m] - 1
        /\ \A n \in Sem : n # m => value'[n] = value[n]
    BY <1>1 DEF SemTypeOK
  <1>7. ASSUME NEW u \in Thread, NEW n \in Sem, ~(u = t /\ n = m)
        PROVE  Owns(u, n)' <=> Owns(u, n)
    <2>1. CASE u # t
      BY <1>2, <1>4, <1>5, <1>7, <2>1, OwnsDef, OwnsDefNext
    <2>2. CASE u = t
      <3>1. mst[u][n] \in {"none", "hold"} /\ mst'[u][n] = mst[u][n]
        BY <1>2, <1>3, <1>7, <2>2
      <3> QED BY <3>1, OwnsDef, OwnsDefNext
    <2> QED BY <2>1, <2>2
  <1>8. ASSUME NEW n \in Sem PROVE OneOwner(n)'
    <2>0. OneOwner(n)
      BY DEF MutexInv
    <2>1. CASE n # m
      BY <1>6, <1>7, <2>0, <2>1, SameOwner
    <2>2. CASE n = m
      <3>1. ~Owns(t, n)
        BY <1>1, <2>2, OwnsDef
      <3>2. CASE value[m] - 1 < 0
        <4>1. scall'[t] # NoCall
          BY <1>5, <3>2 DEF NoCall
        <4>2. ~Owns(t, n)'
          BY <1>2, <2>2, <4>1, OwnsDefNext
        <4>3. \A u \in Thread : Owns(u, n)' <=> Owns(u, n)
          BY <1>7, <3>1, <4>2
        <4>4. value[n] # 1 /\ value'[n] # 1 /\ value'[n] <= 1
          BY <1>6, <2>2, <3>2
        <4> QED BY <2>0, <4>3, <4>4 DEF OneOwner
      <3>3. CASE ~(value[m] - 1 < 0)
        <4>1. value[n] = 1 /\ value'[n] = 0
          BY <1>6, <2>0, <2>2, <3>3 DEF OneOwner
        <4>2. \A u \in Thread : ~Owns(u, n)
          BY <2>0, <4>1 DEF OneOwner
        <4>3. Owns(t, n)'
          BY <1>2, <1>3, <1>4, <1>5, <2>2, <3>3, OwnsDefNext
        <4>4. \A u \in Thread : Owns(u, n)' => u = t
          BY <1>7, <4>2
        <4> QED BY <4>1, <4>3, <4>4 DEF OneOwner
      <3> QED BY <3>2, <3>3
    <2> QED BY <2>1, <2>2
  <1>9. ASSUME NEW u \in Thread, NEW n \in Sem PROVE Use(u, n)'
    <2>0. Use(u, n)
      BY DEF MutexInv
    <2>1. CASE u # t
      <3>1. scall'[u] = scall[u] /\ \A k \in Sem : mst'[u][k] = mst[u][k]
        BY <1>2, <1>5, <2>1
      <3> QED BY <1>4, <2>0, <3>1 DEF Use
    <2>2. CASE u = t
      <3>1. ~InQueue(u, n)'
        BY <1>3, <1>4, <2>2
      <3>2. /\ scall'[u].op # "signal"
            /\ scall'[u] = [op |-> "sleep", sem |-> n] => n = m
        BY <1>5, <2>2 DEF NoCall
      <3>3. \A k \in Sem : k # m => mst'[u][k] \in {"none", "hold"}
        BY <1>2, <1>3, <2>2
      <3> QED BY <1>2, <2>2, <3>1, <3>2, <3>3 DEF Use
    <2> QED BY <2>1, <2>2
  <1>10. \A u \in Thread, n \in Sem : mst'[u][n] = "hold" <=> mst[u][n] = "hold"
    BY <1>1, <1>2
  <1> QED BY <1>1, <1>2, <1>8, <1>9, <1>10 DEF MutexInv, mutex_is_hold

\* sem_wait has returned, and the thread that owns m records it: nobody else holds it.
LEMMA MutexLockedInv ==
    ASSUME SchedInv, SemInv, MutexInv, NEW c \in Cpu, NEW t \in Thread, NEW m \in Sem,
           mutex_locked(c, t, m)
    PROVE  MutexInv'
  <1> USE FrameFacts
  <1>1. /\ locked' = [locked EXCEPT ![m] = MUTEX_LOCK] /\ mthread' = [mthread EXCEPT ![m] = t]
        /\ mst' = [mst EXCEPT ![t][m] = "hold"] /\ UNCHANGED allvars
        /\ mst[t][m] = "wait" /\ Idle(c, t) /\ scall[t] = NoCall
    BY DEF mutex_locked
  <1>2. /\ mst' \in [Thread -> [Sem -> {"none", "wait", "hold", "release"}]]
        /\ mst'[t][m] = "hold"
        /\ \A u \in Thread, n \in Sem : ~(u = t /\ n = m) => mst'[u][n] = mst[u][n]
    BY <1>1, MstUpdate
  <1>3. value' = value /\ waiters' = waiters /\ scall' = scall
    BY <1>1 DEF allvars, semvars
  <1>4. \A u \in Thread, n \in Sem : InQueue(u, n)' <=> InQueue(u, n)
    BY <1>3 DEF InQueue
  <1>5. Owns(t, m) /\ ~InQueue(t, m)
    BY <1>1, RunningNotQueued, OwnsDef
  <1>6. ASSUME NEW u \in Thread, NEW n \in Sem PROVE (Owns(u, n)' <=> Owns(u, n)) /\ Use(u, n)'
    <2>0. Use(u, n) /\ Use(t, m)
      BY DEF MutexInv
    <2>1. CASE ~(u = t /\ n = m)
      <3>1. mst'[u][n] = mst[u][n]
        BY <1>2, <2>1
      <3>2. Owns(u, n)' <=> Owns(u, n)
        BY <1>3, <1>4, <3>1, OwnsDef, OwnsDefNext
      <3>3. \A k \in Sem : mst[u][k] \in {"none", "hold"} => mst'[u][k] \in {"none", "hold"}
        BY <1>2
      <3>4. Use(u, n)'
        BY <1>3, <1>4, <2>0, <3>1, <3>3 DEF Use
      <3> QED BY <3>2, <3>4
    <2>2. CASE u = t /\ n = m
      <3>1. scall[t] # [op |-> "sleep", sem |-> m] /\ scall[t].op # "signal"
        BY <1>1 DEF NoCall
      <3>2. Owns(u, n)'
        BY <1>2, <2>2, OwnsDefNext
      <3>3. Use(u, n)'
        BY <1>2, <1>3, <1>4, <1>5, <2>2, <3>1 DEF Use
      <3> QED BY <1>5, <2>2, <3>2, <3>3
    <2> QED BY <2>1, <2>2
  <1>7. \A n \in Sem : OneOwner(n)'
    BY <1>3, <1>6, SameOwner DEF MutexInv
  <1>8. ASSUME NEW u \in Thread, NEW n \in Sem
        PROVE  mutex_is_hold(u, n)' <=> mst'[u][n] = "hold"
    <2>0. mutex_is_hold(u, n) <=> mst[u][n] = "hold"
      BY DEF MutexInv
    <2>1. CASE n # m
      BY <1>1, <1>2, <2>0, <2>1 DEF mutex_is_hold, MutexInv
    <2>2. CASE n = m
      <3>1. locked'[n] = MUTEX_LOCK /\ mthread'[n] = t
        BY <1>1, <2>2 DEF MutexInv
      <3>2. u # t => mst'[u][n] # "hold"
        BY <1>2, <1>5, <2>2, OwnsDef DEF MutexInv, OneOwner
      <3> QED BY <1>2, <2>2, <3>1, <3>2 DEF mutex_is_hold
    <2> QED BY <2>1, <2>2
  <1>9. /\ locked' \in [Sem -> {MUTEX_LOCK, MUTEX_UNLOCK}]
        /\ mthread' \in [Sem -> Thread \cup {NULL}]
    BY <1>1 DEF MutexInv
  <1> QED BY <1>2, <1>6, <1>7, <1>8, <1>9 DEF MutexInv

\* mutex_unlock clears the record and still owns the mutex.
LEMMA MutexUnlockInv ==
    ASSUME SchedInv, SemInv, MutexInv, NEW c \in Cpu, NEW t \in Thread, NEW m \in Sem,
           mutex_unlock(c, t, m)
    PROVE  MutexInv'
  <1> USE FrameFacts
  <1>1. /\ locked' = [locked EXCEPT ![m] = MUTEX_UNLOCK] /\ mthread' = [mthread EXCEPT ![m] = NULL]
        /\ mst' = [mst EXCEPT ![t][m] = "release"] /\ UNCHANGED allvars
        /\ mst[t][m] = "hold" /\ Idle(c, t) /\ scall[t] = NoCall /\ NoMutexCall(t)
    BY DEF mutex_unlock
  <1>2. /\ mst' \in [Thread -> [Sem -> {"none", "wait", "hold", "release"}]]
        /\ mst'[t][m] = "release"
        /\ \A u \in Thread, n \in Sem : ~(u = t /\ n = m) => mst'[u][n] = mst[u][n]
    BY <1>1, MstUpdate
  <1>3. value' = value /\ waiters' = waiters /\ scall' = scall
    BY <1>1 DEF allvars, semvars
  <1>4. \A u \in Thread, n \in Sem : InQueue(u, n)' <=> InQueue(u, n)
    BY <1>3 DEF InQueue
  <1>5. Owns(t, m) /\ \A n \in Sem : ~InQueue(t, n) /\ mst[t][n] \in {"none", "hold"}
    BY <1>1, RunningNotQueued, OwnsDef DEF NoMutexCall
  <1>6. ASSUME NEW u \in Thread, NEW n \in Sem PROVE (Owns(u, n)' <=> Owns(u, n)) /\ Use(u, n)'
    <2>0. Use(u, n)
      BY DEF MutexInv
    <2>1. CASE u # t
      <3>1. \A k \in Sem : mst'[u][k] = mst[u][k]
        BY <1>2, <2>1
      <3>2. Owns(u, n)' <=> Owns(u, n)
        BY <1>3, <1>4, <3>1, OwnsDef, OwnsDefNext
      <3>3. Use(u, n)'
        BY <1>3, <1>4, <2>0, <3>1 DEF Use
      <3> QED BY <3>2, <3>3
    <2>2. CASE u = t
      <3>1. scall[t] # [op |-> "sleep", sem |-> n] /\ scall[t].op # "signal"
        BY <1>1 DEF NoCall
      <3>2. \A k \in Sem : k # m => mst'[t][k] \in {"none", "hold"}
        BY <1>2, <1>5
      <3>3. Owns(u, n)' <=> Owns(u, n)
        BY <1>2, <1>5, <2>2, OwnsDef, OwnsDefNext
      <3>4. Use(u, n)'
        BY <1>2, <1>3, <1>4, <1>5, <2>2, <3>1, <3>2 DEF Use
      <3> QED BY <3>3, <3>4
    <2> QED BY <2>1, <2>2
  <1>7. \A n \in Sem : OneOwner(n)'
    BY <1>3, <1>6, SameOwner DEF MutexInv
  <1>8. ASSUME NEW u \in Thread, NEW n \in Sem
        PROVE  mutex_is_hold(u, n)' <=> mst'[u][n] = "hold"
    <2>0. mutex_is_hold(u, n) <=> mst[u][n] = "hold"
      BY DEF MutexInv
    <2>1. CASE n # m
      BY <1>1, <1>2, <2>0, <2>1 DEF mutex_is_hold, MutexInv
    <2>2. CASE n = m
      <3>1. mthread'[n] = NULL /\ NULL \notin Thread
        BY <1>1, <2>2 DEF MutexInv
      <3>2. mst'[u][n] # "hold"
        BY <1>2, <1>5, <2>2, OwnsDef DEF MutexInv, OneOwner
      <3> QED BY <3>1, <3>2 DEF mutex_is_hold
    <2> QED BY <2>1, <2>2
  <1>9. /\ locked' \in [Sem -> {MUTEX_LOCK, MUTEX_UNLOCK}]
        /\ mthread' \in [Sem -> Thread \cup {NULL}]
    BY <1>1 DEF MutexInv
  <1> QED BY <1>2, <1>6, <1>7, <1>8, <1>9 DEF MutexInv

\* mutex_unlock's sem_signal: the permit goes back to the semaphore, or to the waiter that
\* sem_signal pops, which owns the mutex from then on.
LEMMA MutexSignalInv ==
    ASSUME SchedInv, SemInv, MutexInv, NEW c \in Cpu, NEW t \in Thread, NEW m \in Sem,
           mutex_signal(c, t, m)
    PROVE  MutexInv'
  <1> USE FrameFacts
  <1>1. /\ locked' = locked /\ mthread' = mthread /\ mst' = [mst EXCEPT ![t][m] = "none"]
        /\ mst[t][m] = "release" /\ CanSignal(c, t) /\ slock[m] = NULL
        /\ value' = [value EXCEPT ![m] = @ + 1] /\ SemTypeOK
    BY DEF mutex_signal, sem_signal, sem_signal_wake, SemInv
  <1>2. /\ mst' \in [Thread -> [Sem -> {"none", "wait", "hold", "release"}]]
        /\ mst'[t][m] = "none"
        /\ \A u \in Thread, n \in Sem : ~(u = t /\ n = m) => mst'[u][n] = mst[u][n]
    BY <1>1, MstUpdate
  <1>3. Idle(c, t) /\ scall[t] = NoCall
    BY <1>1 DEF CanSignal, CanCall
  <1>4. \A n \in Sem : ~InQueue(t, n) /\ (n # m => mst[t][n] \in {"none", "hold"})
    BY <1>1, <1>3, RunningNotQueued DEF MutexInv, Use
  <1>5. Owns(t, m) /\ \A u \in Thread : Owns(u, m) => u = t
    BY <1>1, OwnsDef DEF MutexInv, OneOwner
  <1>6. /\ value[m] \in Int /\ value'[m] = value[m] + 1 /\ value[m] <= 0
        /\ \A n \in Sem : n # m => value'[n] = value[n]
    <2>1. value[m] \in Int /\ value'[m] = value[m] + 1 /\ \A n \in Sem : n # m => value'[n] = value[n]
      BY <1>1 DEF SemTypeOK
    <2>2. value[m] <= 1 /\ value[m] # 1
      BY <1>5 DEF MutexInv, OneOwner
    <2> QED BY <2>1, <2>2
  <1>7. \A u \in Thread, n \in Sem : mst'[u][n] = "hold" <=> mst[u][n] = "hold"
    BY <1>1, <1>2
  <1>8. \A n \in Sem : mst'[t][n] \in {"none", "hold"}
    BY <1>2, <1>4
  <1>9. CASE sem_signal(c, t, m)
    <2>1. waiters' = waiters /\ scall' = scall /\ value[m] + 1 > 0
      BY <1>9 DEF sem_signal
    <2>2. \A u \in Thread, n \in Sem : InQueue(u, n)' <=> InQueue(u, n)
      BY <2>1 DEF InQueue
    <2>3. ASSUME NEW u \in Thread, NEW n \in Sem
          PROVE  Use(u, n)' /\ (~(u = t /\ n = m) => (Owns(u, n)' <=> Owns(u, n)))
      <3>0. Use(u, n)
        BY DEF MutexInv
      <3>1. CASE u # t
        <4>1. \A k \in Sem : mst'[u][k] = mst[u][k]
          BY <1>2, <3>1
        <4>2. Owns(u, n)' <=> Owns(u, n)
          BY <2>1, <2>2, <4>1, OwnsDef, OwnsDefNext
        <4>3. Use(u, n)'
          BY <2>1, <2>2, <3>0, <4>1 DEF Use
        <4> QED BY <4>2, <4>3
      <3>2. CASE u = t
        <4>1. scall[t] # [op |-> "sleep", sem |-> n] /\ scall[t].op # "signal"
          BY <1>3 DEF NoCall
        <4>2. Use(u, n)'
          BY <1>4, <1>8, <2>1, <2>2, <3>2, <4>1 DEF Use
        <4>3. n # m => (Owns(u, n)' <=> Owns(u, n))
          BY <1>2, <1>4, <3>2, OwnsDef, OwnsDefNext
        <4> QED BY <3>2, <4>2, <4>3
      <3> QED BY <3>1, <3>2
    <2>4. ASSUME NEW n \in Sem PROVE OneOwner(n)'
      <3>1. CASE n # m
        BY <1>6, <2>3, <3>1, SameOwner DEF MutexInv
      <3>2. CASE n = m
        <4>1. value'[n] = 1
          BY <1>6, <2>1, <3>2
        <4>2. ~Owns(t, n)'
          BY <1>2, <3>2, OwnsDefNext
        <4>3. \A u \in Thread : ~Owns(u, n)'
          BY <1>5, <2>3, <3>2, <4>2
        <4> QED BY <4>1, <4>3 DEF OneOwner
      <3> QED BY <3>1, <3>2
    <2> QED BY <1>1, <1>2, <1>7, <2>3, <2>4 DEF MutexInv, mutex_is_hold
  <1>10. CASE sem_signal_wake(c, t, m)
    <2> DEFINE new == [op |-> "signal", sem |-> m]
    <2>1. /\ waiters[m] # <<>> /\ waiters[m] \in Seq(Thread) /\ value[m] + 1 <= 0
          /\ waiters' = [waiters EXCEPT ![m] = Tail(@)] /\ scall' = [scall EXCEPT ![t] = new]
      BY <1>1, <1>10 DEF sem_signal_wake, SemTypeOK
    <2>2. /\ waiters'[m] = Tail(waiters[m]) /\ \A n \in Sem : n # m => waiters'[n] = waiters[n]
          /\ scall'[t] = new /\ \A u \in Thread : u # t => scall'[u] = scall[u]
      BY <1>1, <2>1 DEF SemTypeOK
    <2>3. PICK h \in Thread : h = waiters[m][1] /\ 1 \in 1 .. Len(waiters[m]) /\ InQueue(h, m)
      BY <2>1, PopFacts DEF InQueue
    <2>4. mst[h][m] = "wait" /\ scall[h] = NoCall /\ h # t
      <3>1. Use(h, m)
        BY DEF MutexInv
      <3> QED BY <1>4, <2>3, <3>1 DEF Use
    <2>5. ASSUME NEW u \in Thread, NEW n \in Sem
          PROVE  InQueue(u, n)' <=> InQueue(u, n) /\ ~(u = h /\ n = m)
      <3>1. CASE n # m
        BY <2>2, <3>1 DEF InQueue
      <3>2. CASE n = m
        <4>1. /\ Len(waiters'[n]) = Len(waiters[n]) - 1 /\ Len(waiters[n]) \in Nat
              /\ \A i \in 1 .. Len(waiters'[n]) :
                    i + 1 \in 1 .. Len(waiters[n]) /\ waiters'[n][i] = waiters[n][i + 1]
          <5>1. waiters[n] \in Seq(Thread) /\ waiters[n] # <<>> /\ waiters'[n] = Tail(waiters[n])
            BY <2>1, <2>2, <3>2
          <5> QED BY <5>1, PopFacts
        <4>2. \A i, j \in 1 .. Len(waiters[n]) : waiters[n][i] = waiters[n][j] => i = j
          BY DEF SemInv, WaitersExact
        <4>3. ASSUME NEW i \in 1 .. Len(waiters'[n]), waiters'[n][i] = u
              PROVE  InQueue(u, n) /\ u # h
          <5>1. i + 1 \in 1 .. Len(waiters[n]) /\ waiters[n][i + 1] = u
            BY <4>1, <4>3
          <5>2. i + 1 # 1
            OBVIOUS
          <5>3. u # h
            BY <2>3, <3>2, <4>2, <5>1, <5>2
          <5> QED BY <5>1, <5>3 DEF InQueue
        <4>4. ASSUME NEW i \in 1 .. Len(waiters[n]), waiters[n][i] = u, u # h
              PROVE  InQueue(u, n)'
          <5>1. i # 1
            BY <2>3, <3>2, <4>4
          <5>2. i - 1 \in 1 .. Len(waiters'[n]) /\ (i - 1) + 1 = i
            BY <4>1, <5>1
          <5>3. waiters'[n][i - 1] = u
            BY <4>1, <4>4, <5>2
          <5> QED BY <5>2, <5>3 DEF InQueue
        <4> QED BY <3>2, <4>3, <4>4 DEF InQueue
      <3> QED BY <3>1, <3>2
    <2>6. ASSUME NEW u \in Thread, NEW n \in Sem
          PROVE  /\ Use(u, n)'
                 /\ ~(u \in {t, h} /\ n = m) => (Owns(u, n)' <=> Owns(u, n))
      <3>0. Use(u, n)
        BY DEF MutexInv
      <3>1. CASE u # t
        <4>1. scall'[u] = scall[u] /\ \A k \in Sem : mst'[u][k] = mst[u][k]
          BY <1>2, <2>2, <3>1
        <4>2. ~(u \in {t, h} /\ n = m) => (Owns(u, n)' <=> Owns(u, n))
          BY <2>5, <4>1, OwnsDef, OwnsDefNext
        <4>3. Use(u, n)'
          BY <2>5, <3>0, <4>1 DEF Use
        <4> QED BY <4>2, <4>3
      <3>2. CASE u = t
        <4>1. scall'[u] = new /\ new # [op |-> "sleep", sem |-> n]
          BY <2>2, <3>2
        <4>2. Use(u, n)'
          BY <1>4, <1>8, <2>5, <3>2, <4>1 DEF Use
        <4>3. n # m => (Owns(u, n)' <=> Owns(u, n))
          BY <1>2, <1>4, <3>2, OwnsDef, OwnsDefNext
        <4> QED BY <3>2, <4>2, <4>3
      <3> QED BY <3>1, <3>2
    <2>7. ASSUME NEW n \in Sem PROVE OneOwner(n)'
      <3>1. CASE n # m
        BY <1>6, <2>6, <3>1, SameOwner DEF MutexInv
      <3>2. CASE n = m
        <4>1. value'[n] <= 0 /\ value'[n] \in Int
          BY <1>6, <2>1, <3>2
        <4>2. ~Owns(t, n)'
          BY <1>2, <3>2, OwnsDefNext
        <4>3. scall'[h] = NoCall /\ mst'[h][n] = "wait" /\ ~InQueue(h, n)'
          BY <1>2, <2>2, <2>3, <2>4, <2>5, <3>2
        <4>4. Owns(h, n)'
          BY <4>3, OwnsDefNext
        <4>5. \A u \in Thread : Owns(u, n)' => u = h
          BY <1>5, <2>6, <3>2, <4>2
        <4> QED BY <4>1, <4>4, <4>5 DEF OneOwner
      <3> QED BY <3>1, <3>2
    <2> QED BY <1>1, <1>2, <1>7, <2>6, <2>7 DEF MutexInv, mutex_is_hold
  <1> QED BY <1>9, <1>10 DEF mutex_signal

----------------------------------------------------------------------------
\* mutex_init: a permit that nobody owns.
LEMMA MutexInitInv == MutexInit => MutexInv
  <1> SUFFICES ASSUME MutexInit PROVE MutexInv
    OBVIOUS
  <1>1. /\ locked = [m \in Sem |-> MUTEX_LOCK] /\ mthread = [m \in Sem |-> NULL]
        /\ mst = [t \in Thread |-> [m \in Sem |-> "none"]]
        /\ value = sem_value0 /\ waiters = [m \in Sem |-> <<>>]
        /\ scall = [f \in Frame |-> NoCall]
    BY DEF MutexInit, SemInit
  <1>2. \A t \in Thread, m \in Sem : ~InQueue(t, m) /\ mst[t][m] = "none" /\ ~Owns(t, m)
    BY <1>1 DEF InQueue, Owns
  <1>3. ASSUME NEW t \in Thread, NEW m \in Sem PROVE Use(t, m)
    <2>1. scall[t] = NoCall /\ NoCall # [op |-> "sleep", sem |-> m] /\ NoCall.op # "signal"
      BY <1>1, FrameFacts DEF NoCall
    <2> QED BY <1>2, <2>1 DEF Use
  <1>4. \A m \in Sem : OneOwner(m)
    BY <1>1, <1>2, MutexAssumption DEF OneOwner, MUTEX_LOCK
  <1>5. \A t \in Thread, m \in Sem : ~mutex_is_hold(t, m)
    BY <1>1, FrameFacts DEF mutex_is_hold
  <1> QED BY <1>1, <1>2, <1>3, <1>4, <1>5 DEF MutexInv

\* Every step keeps the three invariants.
LEMMA MutexNextInv ==
    ASSUME SchedInv, SemInv, MutexInv, [MutexNext]_mvars
    PROVE  SchedInv' /\ SemInv' /\ MutexInv'
  <1>1. SchedInv' /\ SemInv'
    BY MutexStepIsSemStep, SemNextInv
  <1>2. CASE UNCHANGED mvars
    BY <1>1, <1>2, MutexSchedInv DEF mvars, allvars
  <1>3. CASE MutexNext
    <2> PICK c \in Cpu :
           \/ /\ \/ MutexSchedOnly(c)
                 \/ \E t \in Thread : sem_sleep(c, t)
                 \/ \E f \in Frame : sem_signal_end(c, f)
              /\ UNCHANGED mutexvars
           \/ \E t \in Thread, m \in Sem :
                 \/ mutex_lock(c, t, m) \/ mutex_locked(c, t, m)
                 \/ mutex_unlock(c, t, m) \/ mutex_signal(c, t, m)
      BY <1>3 DEF MutexNext
    <2>1. CASE MutexSchedOnly(c) /\ UNCHANGED mutexvars
      BY <1>1, <2>1, MutexSchedInv DEF MutexSchedOnly
    <2>2. CASE UNCHANGED mutexvars /\ ((\E t \in Thread : sem_sleep(c, t))
                                        \/ \E f \in Frame : sem_signal_end(c, f))
      BY <1>1, <2>2, MutexSleepInv, MutexSignalEndInv
    <2>3. CASE \E t \in Thread, m \in Sem :
                  \/ mutex_lock(c, t, m) \/ mutex_locked(c, t, m)
                  \/ mutex_unlock(c, t, m) \/ mutex_signal(c, t, m)
      BY <1>1, <2>3, MutexLockInv, MutexLockedInv, MutexUnlockInv, MutexSignalInv
    <2> QED BY <2>1, <2>2, <2>3
  <1> QED BY <1>2, <1>3

\* For any number of CPUs, threads and mutexes, the scheduler, the semaphores and the
\* mutexes above them keep their invariants together.
THEOREM MutexCorrect == MutexSpec => [](SchedInv /\ SemInv /\ MutexInv)
  <1>1. MutexInit => SchedInv /\ SemInv /\ MutexInv
    BY MutexInitInv, SemInitInv DEF MutexInit
  <1>2. SchedInv /\ SemInv /\ MutexInv /\ [MutexNext]_mvars => (SchedInv /\ SemInv /\ MutexInv)'
    BY MutexNextInv
  <1> QED BY <1>1, <1>2, PTL DEF MutexSpec

\* For any number of CPUs, threads and mutexes, at most one thread owns a mutex, and
\* mutex_unlock neither loses the permit nor leaves it to two.
THEOREM MutexExclusionTheorem == MutexSpec => []MutexExclusion
  <1>1. SchedInv /\ SemInv /\ MutexInv => MutexExclusion
    BY DEF MutexInv, OneOwner, MutexExclusion
  <1> QED BY <1>1, MutexCorrect, PTL

\* For any number of CPUs, threads and mutexes, mutex_is_hold tells every thread the truth
\* about itself without any lock.
THEOREM HoldExactTheorem == MutexSpec => []HoldExact
  <1>1. SchedInv /\ SemInv /\ MutexInv => HoldExact
    BY DEF MutexInv, HoldExact
  <1> QED BY <1>1, MutexCorrect, PTL
============================================================================
