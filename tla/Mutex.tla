------------------------------- MODULE Mutex -------------------------------
(***************************************************************************)
(* Mutexes and sleep locks (kernel/locks/mutex.c, sleeplock.c): a          *)
(* semaphore of value 1 with the fields locked and thread, which are       *)
(* written outside of the semaphore's lock.  The clients are threads that  *)
(* lock a mutex they do not hold and unlock one they hold.                 *)
(***************************************************************************)
EXTENDS Semaphore

MUTEX_LOCK == 1
MUTEX_UNLOCK == 0

\* mutex_init's sem_init.
ASSUME MutexAssumption == sem_value0 = [m \in Sem |-> MUTEX_LOCK]

VARIABLES
    locked,     \* mutex->locked
    mthread,    \* mutex->thread
    mst         \* each thread's use of each mutex

mutexvars == <<locked, mthread, mst>>
mvars == <<allvars, mutexvars>>

\* mutex_init: the semaphore has one permit; locked starts as MUTEX_LOCK.
MutexInit ==
    /\ SemInit
    /\ locked = [m \in Sem |-> MUTEX_LOCK]
    /\ mthread = [m \in Sem |-> NULL]
    /\ mst = [t \in Thread |-> [m \in Sem |-> "none"]]

\* The thread is in no call on a mutex.
NoMutexCall(t) == \A m \in Sem : mst[t][m] \in {"none", "hold"}

\* mutex_lock begins with sem_wait ...
mutex_lock(c, t, m) ==
    /\ NoMutexCall(t)
    /\ mst[t][m] = "none"
    /\ sem_wait(c, t, m)
    /\ mst' = [mst EXCEPT ![t][m] = "wait"]
    /\ UNCHANGED <<locked, mthread>>

\* ... and, when that returns, records the owner.
mutex_locked(c, t, m) ==
    /\ Idle(c, t)
    /\ scall[t] = NoCall
    /\ mst[t][m] = "wait"
    /\ locked' = [locked EXCEPT ![m] = MUTEX_LOCK]
    /\ mthread' = [mthread EXCEPT ![m] = t]
    /\ mst' = [mst EXCEPT ![t][m] = "hold"]
    /\ UNCHANGED allvars

\* Mutant: mutex_unlock leaves locked and thread as they are.
mutex_unlock_keeps(c, t, m) ==
    /\ Idle(c, t)
    /\ scall[t] = NoCall
    /\ NoMutexCall(t)
    /\ mst[t][m] = "hold"
    /\ mst' = [mst EXCEPT ![t][m] = "release"]
    /\ UNCHANGED <<locked, mthread, allvars>>

\* mutex_unlock clears the owner ...
mutex_unlock(c, t, m) ==
    /\ Idle(c, t)
    /\ scall[t] = NoCall
    /\ NoMutexCall(t)
    /\ mst[t][m] = "hold"
    /\ locked' = [locked EXCEPT ![m] = MUTEX_UNLOCK]
    /\ mthread' = [mthread EXCEPT ![m] = NULL]
    /\ mst' = [mst EXCEPT ![t][m] = "release"]
    /\ UNCHANGED allvars

\* ... and then calls sem_signal.
mutex_signal(c, t, m) ==
    /\ mst[t][m] = "release"
    /\ sem_signal(c, t, m) \/ sem_signal_wake(c, t, m)
    /\ mst' = [mst EXCEPT ![t][m] = "none"]
    /\ UNCHANGED <<locked, mthread>>

\* What mutex_is_hold returns to thread t.
mutex_is_hold(t, m) == locked[m] = MUTEX_LOCK /\ mthread[m] = t

\* A thread outside of every mutex may create threads and exit.
MutexSchedOnly(c) ==
    /\ \/ KernelStep(c)
       \/ SemYield(c)
       \/ \E f \in Frame : SemCreateEnd(c, f)
       \/ \E t \in Thread :
             /\ \A m \in Sem : mst[t][m] = "none"
             /\ SemExit(c, t) \/ \E u \in Thread : SemCreate(c, t, u)
    /\ UNCHANGED semvars

MutexNext ==
    \E c \in Cpu :
       \/ /\ \/ MutexSchedOnly(c)
             \/ \E t \in Thread : sem_sleep(c, t)
             \/ \E f \in Frame : sem_signal_end(c, f)
          /\ UNCHANGED mutexvars
       \/ \E t \in Thread, m \in Sem :
             \/ mutex_lock(c, t, m) \/ mutex_locked(c, t, m)
             \/ mutex_unlock(c, t, m) \/ mutex_signal(c, t, m)

MutexSpec == MutexInit /\ [][MutexNext]_mvars

\* Fairness as in Sched; a thread inside of a call goes on with it, and one that
\* holds a mutex eventually unlocks it.
MutexCallStep(c) ==
    \/ YieldStep(c) /\ UNCHANGED <<semvars, mutexvars>>
    \/ \E f \in Frame :
          \/ (WakeStep(c, f) \/ SemCreateEnd(c, f)) /\ UNCHANGED <<semvars, mutexvars>>
          \/ sem_signal_end(c, f) /\ UNCHANGED mutexvars
    \/ \E t \in Thread : sem_sleep(c, t) /\ UNCHANGED mutexvars
MutexUserStep(t) ==
    \E c \in Cpu, m \in Sem :
       mutex_locked(c, t, m) \/ mutex_unlock(c, t, m) \/ mutex_signal(c, t, m)
MutexFairness ==
    /\ \A c \in Cpu :
          /\ SF_mvars(SchedulerStep(c) /\ UNCHANGED <<semvars, mutexvars>>)
          /\ SF_mvars(MutexCallStep(c))
          /\ SF_mvars(SemYield(c) /\ UNCHANGED <<semvars, mutexvars>>)
    /\ \A t \in Thread : SF_mvars(MutexUserStep(t))
MutexFairSpec == MutexSpec /\ MutexFairness

----------------------------------------------------------------------------
\* Thread t has been given mutex m's permit, whether it knows already or not.
Owns(t, m) ==
    \/ mst[t][m] \in {"hold", "release"}
    \/ /\ mst[t][m] = "wait"
       /\ scall[t] = NoCall
       /\ \A i \in 1 .. Len(waiters[m]) : waiters[m][i] # t

\* At most one thread owns a mutex, and the permit is either owned or in the
\* semaphore, never both and never neither: sem_signal hands it to the waiter it
\* pops, before that waiter runs.
MutexExclusion ==
    \A m \in Sem :
       /\ \A t, u \in Thread : Owns(t, m) /\ Owns(u, m) => t = u
       /\ value[m] <= 1
       /\ value[m] = 1 <=> \A t \in Thread : ~Owns(t, m)

\* mutex_is_hold tells every thread the truth about itself, although locked and
\* thread are read and written under different protection.
HoldExact ==
    \A t \in Thread, m \in Sem :
       pc[t] = "run" => (mutex_is_hold(t, m) <=> mst[t][m] = "hold")

\* Whoever waits for a mutex gets it: no barging past the queue, no lost wake-up.
MutexGranted ==
    \A t \in Thread, m \in Sem : mst[t][m] = "wait" ~> mst[t][m] = "hold"
============================================================================
