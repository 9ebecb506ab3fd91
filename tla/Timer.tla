--------------------------------- MODULE Timer ---------------------------------
(***************************************************************************)
(* Kernel timers (kernel/timer.c) and the work queues that run their       *)
(* callbacks (kernel/work.c): every CPU has a list of timers, a work queue *)
(* and a worker thread.                                                    *)
(*                                                                         *)
(* Only the distance of sys_ticks to a timer's end and sys_ticks % 3       *)
(* matter, so the model keeps these: left is init_time + during_time -     *)
(* sys_ticks, or 0 once that is past.                                      *)
(***************************************************************************)
EXTENDS Integers, Sequences, FiniteSets, FiniteSetsExt, SequencesExt

CONSTANTS
    Sleeper,    \* threads that call do_sleep
    User,       \* threads that start one timer of their own each
    NCPU,
    During,     \* during_time of a timer
    Count       \* how often a User's timer goes off

ASSUME TimerAssumption ==
    /\ NCPU \in Nat \ {0}
    /\ During \subseteq Nat
    /\ Count \in Nat \ {0}

Cpu == 0 .. NCPU - 1
Who == Sleeper \cup User
Awake == <<"run">>

VARIABLES
    phase,      \* sys_ticks % 3
    cpu_timer,  \* CPU |-> its timers, head first
    intr,       \* CPU |-> it is in timer_try_wake
    work,       \* CPU |-> work_queue[cid]: the callbacks to run, and the semaphore
    worker,     \* CPU |-> its worker: the queue it waits for, or the callback it runs
    kthreads,   \* callbacks that timer_wake started as threads of their own
    at,         \* thread |-> where it is
    since,      \* Sleeper |-> ticks since its timer was set
    done        \* User |-> times its callback ran

tmvars == <<phase, cpu_timer, intr, work, worker, kthreads, at, since, done>>

Free_ == [cid |-> -1, w |-> "none"]

\* time_init, work_queue_init
TimerInit ==
    /\ phase = 0
    /\ cpu_timer = [c \in Cpu |-> <<>>]
    /\ intr = [c \in Cpu |-> FALSE]
    /\ work = [c \in Cpu |-> [queue |-> <<>>, count |-> 0]]
    /\ worker = [c \in Cpu |-> Free_]
    /\ kthreads = <<>>
    /\ at = [t \in Who |-> Awake]
    /\ since = [t \in Sleeper |-> 0]
    /\ done = [u \in User |-> 0]

\* timer_create: the timer goes to the head of the list of the caller's CPU.
timer_create(c, t, d, count, block) ==
    cpu_timer' = [cpu_timer EXCEPT ![c] =
          <<[who |-> t, left |-> d, during |-> d, count |-> count, block |-> block]>> \o @]

\* A CPU that is in an interrupt, or in thread_timer_sleep with interrupts off.
Busy(c) == intr[c] \/ \E t \in Sleeper : at[t][1] = "lock" /\ at[t][3] = c

\* do_sleep, thread_timer_sleep: with its own lock held, which is released by the
\* scheduler after the switch, the thread is SLEEPING and its timer is set.
thread_timer_sleep(t, c, d) ==
    /\ at[t] = Awake
    /\ ~Busy(c)
    /\ at' = [at EXCEPT ![t] = <<"lock", d, c>>]
    /\ timer_create(c, t, d, 1, FALSE)
    /\ UNCHANGED <<phase, intr, work, worker, kthreads, since, done>>

sched(t) ==
    /\ at[t][1] = "lock"
    /\ at' = [at EXCEPT ![t] = <<"asleep", @[2]>>]
    /\ UNCHANGED <<phase, cpu_timer, intr, work, worker, kthreads, since, done>>

\* A timer of its own, with interrupts off.
user_timer(u, c, d, block) ==
    /\ at[u] = Awake
    /\ ~Busy(c)
    /\ at' = [at EXCEPT ![u] = <<"started", d>>]
    /\ timer_create(c, u, d, Count, block)
    /\ UNCHANGED <<phase, intr, work, worker, kthreads, since, done>>

----------------------------------------------------------------------------
\* time_update: CPU 0 counts, and every CPU whose interrupt sees a multiple of three
\* goes on to timer_try_wake.
time_update(c) ==
    LET tick(m) == [m EXCEPT !.left = Max({@ - 1, 0})]
        ph == IF c = 0 THEN (phase + 1) % 3 ELSE phase
    IN  /\ ~Busy(c)
        /\ c = 0 \/ ph = 0
        /\ phase' = ph
        /\ intr' = [intr EXCEPT ![c] = (ph = 0)]
        /\ IF c = 0
           THEN /\ cpu_timer' = [d \in Cpu |-> [k \in DOMAIN cpu_timer[d] |-> tick(cpu_timer[d][k])]]
                /\ since' = [t \in Sleeper |-> IF at[t] = Awake THEN 0
                                             ELSE Min({since[t] + 1, Max(During)})]
           ELSE UNCHANGED <<cpu_timer, since>>
        /\ UNCHANGED <<work, worker, kthreads, at, done>>

\* Mutant: a timer goes off one tick early.
expired_early(m) == m.left <= 1

expired(m) == m.left = 0

\* work_queue_push, on CPU c, of every callback of s in turn.
work_queue_push(c, s) ==
    work' = [work EXCEPT ![c].queue = @ \o s, ![c].count = @ + Len(s)]

\* timer_wake of the timers ms in turn: a blocking callback gets a thread of its own,
\* any other goes to the work queue.
timer_wake(c, ms) ==
    LET who(s) == [k \in DOMAIN s |-> s[k].who]
    IN  /\ work_queue_push(c, who(SelectSeq(ms, LAMBDA m : ~m.block)))
        /\ kthreads' = kthreads \o who(SelectSeq(ms, LAMBDA m : m.block))

\* timer_try_wake under the list's lock: an expired timer is started again, or removed
\* and freed when its count is used up, and its callback is started.
timer_try_wake(c) ==
    LET kept == SelectSeq(cpu_timer[c], LAMBDA m : ~(expired(m) /\ m.count = 1))
        again(m) == IF expired(m) THEN [m EXCEPT !.left = m.during, !.count = @ - 1] ELSE m
    IN  /\ intr[c]
        /\ intr' = [intr EXCEPT ![c] = FALSE]
        /\ cpu_timer' = [cpu_timer EXCEPT ![c] = [k \in DOMAIN kept |-> again(kept[k])]]
        /\ timer_wake(c, SelectSeq(cpu_timer[c], expired))
        /\ UNCHANGED <<phase, worker, at, since, done>>

\* Mutant: the workers are created without cpu_affinity.
worker_cpu_any(i) == Cpu

\* The CPUs on which worker i may run: kthread_create(..., i).
worker_cpu(i) == {i}

\* work_queue_pop: the queue of the CPU the worker is on ...
work_queue_cid(i) ==
    /\ worker[i] = Free_
    /\ \E cid \in worker_cpu(i) : worker' = [worker EXCEPT ![i] = [cid |-> cid, w |-> "none"]]
    /\ UNCHANGED <<phase, cpu_timer, intr, work, kthreads, at, since, done>>

\* ... sem_wait, fifo_pop.
work_queue_pop(i) ==
    LET cid == worker[i].cid
    IN  /\ cid # -1 /\ worker[i].w = "none"
        /\ work[cid].count > 0
        /\ work' = [work EXCEPT ![cid].count = @ - 1, ![cid].queue = Tail(@)]
        /\ worker' = [worker EXCEPT ![i].w = Head(work[cid].queue)]
        /\ UNCHANGED <<phase, cpu_timer, intr, kthreads, at, since, done>>

\* A callback: timer_waker_up calls wakeup_process, which waits for the thread's lock.
Callback(t) ==
    IF t \in User THEN done' = [done EXCEPT ![t] = @ + 1] /\ UNCHANGED <<at, since>>
    ELSE /\ at[t][1] # "lock"
         /\ at' = [at EXCEPT ![t] = Awake]
         /\ since' = [since EXCEPT ![t] = 0]
         /\ UNCHANGED done

\* kthread_work_handler: the callback, work_free.
kthread_work_handler(i) ==
    /\ worker[i].w # "none"
    /\ Callback(worker[i].w)
    /\ worker' = [worker EXCEPT ![i] = Free_]
    /\ UNCHANGED <<phase, cpu_timer, intr, work, kthreads>>

\* A thread that timer_wake made for a blocking callback; such threads run in any order.
kthread_callback ==
    /\ \E k \in DOMAIN kthreads :
          /\ Callback(kthreads[k])
          /\ kthreads' = RemoveAt(kthreads, k)
    /\ UNCHANGED <<phase, cpu_timer, intr, work, worker>>

WorkerStep(i) == work_queue_cid(i) \/ work_queue_pop(i) \/ kthread_work_handler(i)

TimerNext ==
    \/ \E c \in Cpu : time_update(c) \/ timer_try_wake(c) \/ WorkerStep(c)
    \/ kthread_callback
    \/ \E t \in Sleeper : sched(t)
    \/ \E t \in Sleeper, c \in Cpu, d \in During : thread_timer_sleep(t, c, d)
    \/ \E u \in User, c \in Cpu, d \in During, b \in BOOLEAN : user_timer(u, c, d, b)

\* Interrupts keep coming; those of another CPU are as frequent as those of CPU 0, so that one of
\* them meets a multiple of three.  Workers and callback threads are scheduled.
TimerFair ==
    /\ WF_tmvars(time_update(0))
    /\ \A c \in Cpu \ {0} : SF_tmvars(time_update(c))
    /\ \A c \in Cpu : WF_tmvars(timer_try_wake(c)) /\ WF_tmvars(WorkerStep(c))
    /\ WF_tmvars(kthread_callback)
    /\ \A t \in Sleeper : WF_tmvars(sched(t))

TimerSpec == TimerInit /\ [][TimerNext]_tmvars /\ TimerFair

----------------------------------------------------------------------------
\* The timers of t, as positions in the lists; the times they still go off; and the
\* callbacks of t that are queued or running.
Timers(t) == {p \in UNION {{c} \X DOMAIN cpu_timer[c] : c \in Cpu} :
                 cpu_timer[p[1]][p[2]].who = t}
Left(t) == MapThenSumSet(LAMBDA p : cpu_timer[p[1]][p[2]].count, Timers(t))
Times(t, s) == Cardinality({k \in DOMAIN s : s[k] = t})
Pending(t) == MapThenSumSet(LAMBDA c : Times(t, work[c].queue), Cpu)
                 + Times(t, kthreads) + Cardinality({i \in Cpu : worker[i].w = t})

\* A sleeping thread is woken exactly once and not before its time, so that
\* wakeup_process, which no longer asserts it, never meets a thread that is in a run
\* queue already; a timer that repeats runs its callback exactly count times, the timer
\* freed after the last; and no worker is let through to an empty queue.
SleepExact ==
    /\ \A t \in Sleeper :
          /\ Left(t) + Pending(t) = IF at[t] = Awake THEN 0 ELSE 1
          /\ at[t] # Awake /\ Timers(t) = {} => since[t] >= at[t][2]
    /\ \A u \in User : at[u] # Awake => done[u] + Left(u) + Pending(u) = Count
    /\ \A c \in Cpu : work[c].count = Len(work[c].queue)

\* Whoever sleeps wakes up, on whatever CPU it went to sleep and at whatever phase of
\* the tick count, and a repeating timer completes.
Woken ==
    /\ \A t \in Sleeper : at[t] # Awake ~> at[t] = Awake
    /\ \A u \in User : at[u] # Awake ~> done[u] = Count
===============================================================================
