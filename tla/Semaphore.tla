----------------------------- MODULE Semaphore -----------------------------
(***************************************************************************)
(* Counting semaphores, kernel/locks/semaphore.c, on top of the scheduler. *)
(*                                                                         *)
(* Every step is a step of Sched, or leaves Sched's variables alone, with  *)
(* the semaphore's own state conjoined.  The lock order is sem->lock, then *)
(* sched_list.lock, then thread->lock.                                     *)
(***************************************************************************)
EXTENDS Sched

CONSTANTS
    Sem,        \* the semaphores
    sem_value0, \* sem_init's value for each
    MaxValue    \* bound on sem->value

ASSUME SemAssumption ==
    /\ MaxValue \in Nat
    /\ sem_value0 \in [Sem -> 0 .. MaxValue]
    /\ NULL \notin Sem

VARIABLES
    value,      \* sem->value
    slock,      \* sem->lock: the CPU that holds it, or NULL
    waiters,    \* sem->waiters, oldest first
    scall       \* the semaphore call in progress in each frame

semvars == <<value, slock, waiters, scall>>
allvars == <<vars, semvars>>

NoCall == [op |-> "none", sem |-> NULL]

SemInit ==
    /\ Init
    /\ value = sem_value0
    /\ slock = [s \in Sem |-> NULL]
    /\ waiters = [s \in Sem |-> <<>>]
    /\ scall = [f \in Frame |-> NoCall]

----------------------------------------------------------------------------
\* Mutant: sem_wait tests value <= 0.
sem_wait_le(c, t, s) ==
    /\ Idle(c, t)
    /\ scall[t] = NoCall
    /\ slock[s] = NULL
    /\ value' = [value EXCEPT ![s] = @ - 1]
    /\ IF value[s] - 1 <= 0
       THEN /\ slock' = [slock EXCEPT ![s] = c]
            /\ scall' = [scall EXCEPT ![t] = [op |-> "sleep", sem |-> s]]
       ELSE UNCHANGED <<slock, scall>>
    /\ UNCHANGED <<waiters, vars>>

\* Mutant: sem_wait tests value < -1.
sem_wait_below(c, t, s) ==
    /\ Idle(c, t)
    /\ scall[t] = NoCall
    /\ slock[s] = NULL
    /\ value' = [value EXCEPT ![s] = @ - 1]
    /\ IF value[s] - 1 < -1
       THEN /\ slock' = [slock EXCEPT ![s] = c]
            /\ scall' = [scall EXCEPT ![t] = [op |-> "sleep", sem |-> s]]
       ELSE UNCHANGED <<slock, scall>>
    /\ UNCHANGED <<waiters, vars>>

\* sem_wait up to the test of the value: lock, decrement; either unlock and
\* return, or go on to sleep with the lock held.
sem_wait(c, t, s) ==
    /\ Idle(c, t)
    /\ scall[t] = NoCall
    /\ slock[s] = NULL
    /\ value' = [value EXCEPT ![s] = @ - 1]
    /\ IF value[s] - 1 < 0
       THEN /\ slock' = [slock EXCEPT ![s] = c]
            /\ scall' = [scall EXCEPT ![t] = [op |-> "sleep", sem |-> s]]
       ELSE UNCHANGED <<slock, scall>>
    /\ UNCHANGED <<waiters, vars>>

\* sem_wait, the sleeping half: thread->lock, SLEEPING, fifo_push, unlock the
\* semaphore, sched().
sem_sleep(c, t) ==
    LET s == scall[t].sem IN
    /\ scall[t].op = "sleep"
    /\ Sleep(c, t)
    /\ waiters' = [waiters EXCEPT ![s] = Append(@, t)]
    /\ slock' = [slock EXCEPT ![s] = NULL]
    /\ scall' = [scall EXCEPT ![t] = NoCall]
    /\ UNCHANGED value

\* A thread, or an interrupt handler, may call sem_signal.
CanSignal(c, f) ==
    /\ CanCall(c, f)
    /\ scall[f] = NoCall
    /\ f \in Cpu => \A s \in Sem : slock[s] # c

\* sem_signal with nobody waiting.
sem_signal(c, f, s) ==
    /\ CanSignal(c, f)
    /\ slock[s] = NULL
    /\ value[s] + 1 > 0
    /\ value[s] < MaxValue
    /\ value' = [value EXCEPT ![s] = @ + 1]
    /\ UNCHANGED <<slock, waiters, scall, vars>>

\* Mutant: sem_signal wakes the first waiter without popping it.
sem_signal_peek(c, f, s) ==
    /\ CanSignal(c, f)
    /\ slock[s] = NULL
    /\ value[s] + 1 <= 0
    /\ waiters[s] # <<>>
    /\ WakeStart(c, f, Head(waiters[s]))
    /\ value' = [value EXCEPT ![s] = @ + 1]
    /\ slock' = [slock EXCEPT ![s] = c]
    /\ scall' = [scall EXCEPT ![f] = [op |-> "signal", sem |-> s]]
    /\ UNCHANGED waiters

\* Mutant: sem_signal pops the newest waiter.
sem_signal_lifo(c, f, s) ==
    /\ CanSignal(c, f)
    /\ slock[s] = NULL
    /\ value[s] + 1 <= 0
    /\ waiters[s] # <<>>
    /\ WakeStart(c, f, waiters[s][Len(waiters[s])])
    /\ value' = [value EXCEPT ![s] = @ + 1]
    /\ waiters' = [waiters EXCEPT ![s] = SubSeq(@, 1, Len(@) - 1)]
    /\ slock' = [slock EXCEPT ![s] = c]
    /\ scall' = [scall EXCEPT ![f] = [op |-> "signal", sem |-> s]]

\* sem_signal with a waiter: pop the oldest and call wakeup_process on it with
\* the semaphore locked.
sem_signal_wake(c, f, s) ==
    /\ CanSignal(c, f)
    /\ slock[s] = NULL
    /\ value[s] + 1 <= 0
    /\ waiters[s] # <<>>
    /\ WakeStart(c, f, Head(waiters[s]))
    /\ value' = [value EXCEPT ![s] = @ + 1]
    /\ waiters' = [waiters EXCEPT ![s] = Tail(@)]
    /\ slock' = [slock EXCEPT ![s] = c]
    /\ scall' = [scall EXCEPT ![f] = [op |-> "signal", sem |-> s]]

\* wakeup_process returns; sem_signal unlocks the semaphore.
sem_signal_end(c, f) ==
    /\ scall[f].op = "signal"
    /\ WakeReturn(c, f)
    /\ slock' = [slock EXCEPT ![scall[f].sem] = NULL]
    /\ scall' = [scall EXCEPT ![f] = NoCall]
    /\ UNCHANGED <<value, waiters>>

----------------------------------------------------------------------------
\* The steps of the scheduler in which no semaphore takes part.  A timer
\* interrupt is held off while the CPU holds a semaphore's lock, too.
SemYield(c) == Yield(c) /\ \A s \in Sem : slock[s] # c
SemCreate(c, f, u) == CanSignal(c, f) /\ Create(c, f, u)
SemCreateEnd(c, f) == scall[f] = NoCall /\ WakeReturn(c, f)
SemExit(c, t) == scall[t] = NoCall /\ Exit(c, t)

SchedOnly(c) ==
    \/ KernelStep(c)
    \/ SemYield(c)
    \/ \E f \in Frame : SemCreateEnd(c, f) \/ \E u \in Thread : SemCreate(c, f, u)
    \/ \E t \in Thread : SemExit(c, t)

SemNext ==
    \E c \in Cpu :
       \/ SchedOnly(c) /\ UNCHANGED semvars
       \/ \E t \in Thread : sem_sleep(c, t) \/ \E s \in Sem : sem_wait(c, t, s)
       \/ \E f \in Frame :
             \/ sem_signal_end(c, f)
             \/ \E s \in Sem : sem_signal(c, f, s) \/ sem_signal_wake(c, f, s)

SemSpec == SemInit /\ [][SemNext]_allvars

----------------------------------------------------------------------------
\* Every variable has the type of the C object it stands for.
SemTypeOK ==
    /\ value \in [Sem -> Int]
    /\ slock \in [Sem -> Cpu \cup {NULL}]
    /\ waiters \in [Sem -> Seq(Thread)]
    /\ scall \in [Frame -> {NoCall} \cup [op : {"sleep", "signal"}, sem : Sem]]

\* A negative value is the number of waiters: when the semaphore is unlocked it
\* equals the length of the queue, and while a thread goes to sleep the queue is
\* one behind.  So sem_signal, which holds the lock, never reaches its panic "queue
\* may have a race condition": a negative value that it sees has a thread to pop.
SemAccounting ==
    \A s \in Sem :
       LET behind == \E t \in Thread : scall[t] = [op |-> "sleep", sem |-> s]
           queued == Len(waiters[s]) + (IF behind THEN 1 ELSE 0)
       IN  /\ queued = IF value[s] < 0 THEN -value[s] ELSE 0
           /\ slock[s] = NULL /\ value[s] < 0 => waiters[s] # <<>>

\* A sleeping thread is in the queue of exactly one semaphore, once: a wake-up is
\* neither lost nor delivered twice.
WaitersExact ==
    /\ \A t \in Thread : t \in waitq <=> \E s \in Sem : \E i \in 1 .. Len(waiters[s]) : waiters[s][i] = t
    /\ \A r, s \in Sem : \A i \in 1 .. Len(waiters[r]), j \in 1 .. Len(waiters[s]) :
          waiters[r][i] = waiters[s][j] => r = s /\ i = j

\* Whoever holds a semaphore's lock is inside of a call on that semaphore.
SemLockHeld ==
    \A s \in Sem : \A c \in Cpu :
       slock[s] = c <=> \E f \in Frame : Runs(c, f) /\ scall[f].sem = s

\* The semaphore implements AbsSemaphore: a permit is a positive value, and the
\* half-done sem_wait, decremented but not queued yet, is not visible.
Abs == INSTANCE AbsSemaphore WITH
          permits0 <- sem_value0,
          permits <- [s \in Sem |-> IF value[s] > 0 THEN value[s] ELSE 0],
          queue <- waiters
ImplementsSemaphore == Abs!AbsSpec
============================================================================
