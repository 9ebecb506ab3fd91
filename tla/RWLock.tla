------------------------------- MODULE RWLock -------------------------------
(***************************************************************************)
(* The read-write lock, kernel/locks/rwlock.c.                             *)
(*                                                                         *)
(* Every operation runs under rw->lock from beginning to end, or to the    *)
(* point where it sleeps, so that it is one step.  A thread that was       *)
(* popped from a queue by wakeup_process runs again some time later        *)
(* (module Sched) and takes rw->lock anew: until then it is "rwoken" or    *)
(* "wwoken".                                                               *)
(***************************************************************************)
EXTENDS Integers, Sequences, FiniteSets

CONSTANTS
    Thread,
    MaxOps          \* bound: how often each thread locks

ASSUME RWAssumption ==
    /\ IsFiniteSet(Thread)
    /\ MaxOps \in Nat

VARIABLES
    WRITING,        \* flags & WRITING
    RW_PRIOR,       \* flags & RW_PRIOR: TRUE is writer priority
    r_cnt,          \* number of readers
    readers_fifo,   \* sleeping readers, oldest first
    writers_fifo,   \* sleeping writers, oldest first
    pc,             \* what each thread does with the lock
    ops             \* how often each thread has locked

rwvars == <<WRITING, RW_PRIOR, r_cnt, readers_fifo, writers_fifo, pc, ops>>

RWPc == {"idle", "rsleep", "rwoken", "reading", "wsleep", "wwoken", "writing"}

RWInit ==
    /\ WRITING = FALSE
    /\ RW_PRIOR \in BOOLEAN
    /\ r_cnt = 0
    /\ readers_fifo = <<>>
    /\ writers_fifo = <<>>
    /\ pc = [t \in Thread |-> "idle"]
    /\ ops = [t \in Thread |-> 0]

----------------------------------------------------------------------------
\* wakeup_reader, by a thread t that goes on to p: pop the oldest reader, if any.
wakeup_reader(t, p) ==
    IF readers_fifo = <<>>
    THEN /\ pc' = [pc EXCEPT ![t] = p]
         /\ UNCHANGED readers_fifo
    ELSE /\ pc' = [pc EXCEPT ![t] = p, ![Head(readers_fifo)] = "rwoken"]
         /\ readers_fifo' = Tail(readers_fifo)

\* wakeup_writer, by a thread t that goes on to "idle": WRITING is set on behalf
\* of the writer that is woken, so that nobody gets in before it runs.  The flag
\* is w when there is no writer.
wakeup_writer(t, w) ==
    IF writers_fifo = <<>>
    THEN /\ pc' = [pc EXCEPT ![t] = "idle"]
         /\ WRITING' = w
         /\ UNCHANGED writers_fifo
    ELSE /\ pc' = [pc EXCEPT ![t] = "idle", ![Head(writers_fifo)] = "wwoken"]
         /\ WRITING' = TRUE
         /\ writers_fifo' = Tail(writers_fifo)

\* A reader has to sleep.
ReaderBlocked == WRITING \/ (RW_PRIOR /\ writers_fifo # <<>>)

\* Mutant: a reader that gets in does not wake the next one.
retry_alone(t) ==
    /\ IF ReaderBlocked
       THEN /\ readers_fifo' = Append(readers_fifo, t)
            /\ pc' = [pc EXCEPT ![t] = "rsleep"]
            /\ UNCHANGED r_cnt
       ELSE /\ pc' = [pc EXCEPT ![t] = "reading"]
            /\ r_cnt' = r_cnt + 1
            /\ UNCHANGED readers_fifo
    /\ UNCHANGED <<WRITING, RW_PRIOR, writers_fifo>>

\* read_lock from the label retry: sleep, or wake the next reader and read.
retry(t) ==
    /\ IF ReaderBlocked
       THEN /\ readers_fifo' = Append(readers_fifo, t)
            /\ pc' = [pc EXCEPT ![t] = "rsleep"]
            /\ UNCHANGED r_cnt
       ELSE /\ wakeup_reader(t, "reading")
            /\ r_cnt' = r_cnt + 1
    /\ UNCHANGED <<WRITING, RW_PRIOR, writers_fifo>>

read_lock(t) ==
    /\ pc[t] = "idle"
    /\ ops[t] < MaxOps
    /\ ops' = [ops EXCEPT ![t] = @ + 1]
    /\ retry(t)

\* sleep_reader returns and read_lock goes to retry.
read_lock_woken(t) ==
    /\ pc[t] = "rwoken"
    /\ retry(t)
    /\ UNCHANGED ops

read_unlock(t) ==
    /\ pc[t] = "reading"
    /\ r_cnt' = r_cnt - 1
    /\ IF r_cnt - 1 = 0
       THEN wakeup_writer(t, WRITING)
       ELSE /\ pc' = [pc EXCEPT ![t] = "idle"]
            /\ UNCHANGED <<WRITING, writers_fifo>>
    /\ UNCHANGED <<RW_PRIOR, readers_fifo, ops>>

\* Mutant: write_lock does not look for readers.
write_lock_unchecked(t) ==
    /\ pc[t] = "idle"
    /\ ops[t] < MaxOps
    /\ ops' = [ops EXCEPT ![t] = @ + 1]
    /\ IF WRITING
       THEN /\ writers_fifo' = Append(writers_fifo, t)
            /\ pc' = [pc EXCEPT ![t] = "wsleep"]
            /\ UNCHANGED WRITING
       ELSE /\ WRITING' = TRUE
            /\ pc' = [pc EXCEPT ![t] = "writing"]
            /\ UNCHANGED writers_fifo
    /\ UNCHANGED <<RW_PRIOR, r_cnt, readers_fifo>>

write_lock(t) ==
    /\ pc[t] = "idle"
    /\ ops[t] < MaxOps
    /\ ops' = [ops EXCEPT ![t] = @ + 1]
    /\ IF r_cnt # 0 \/ WRITING
       THEN /\ writers_fifo' = Append(writers_fifo, t)
            /\ pc' = [pc EXCEPT ![t] = "wsleep"]
            /\ UNCHANGED WRITING
       ELSE /\ WRITING' = TRUE
            /\ pc' = [pc EXCEPT ![t] = "writing"]
            /\ UNCHANGED writers_fifo
    /\ UNCHANGED <<RW_PRIOR, r_cnt, readers_fifo>>

\* sleep_writer returns; write_lock does not look at the lock again.
write_lock_woken(t) ==
    /\ pc[t] = "wwoken"
    /\ WRITING' = TRUE
    /\ pc' = [pc EXCEPT ![t] = "writing"]
    /\ UNCHANGED <<RW_PRIOR, r_cnt, readers_fifo, writers_fifo, ops>>

\* Mutant: write_unlock prefers the readers whatever the priority is.
write_unlock_readers(t) ==
    /\ pc[t] = "writing"
    /\ IF readers_fifo # <<>> \/ RW_PRIOR
       THEN /\ wakeup_reader(t, "idle")
            /\ WRITING' = FALSE
            /\ UNCHANGED writers_fifo
       ELSE /\ wakeup_writer(t, FALSE)
            /\ UNCHANGED readers_fifo
    /\ UNCHANGED <<RW_PRIOR, r_cnt, ops>>

write_unlock(t) ==
    /\ pc[t] = "writing"
    /\ IF \/ ~RW_PRIOR /\ readers_fifo # <<>>
          \/ RW_PRIOR /\ writers_fifo = <<>>
       THEN /\ wakeup_reader(t, "idle")
            /\ WRITING' = FALSE
            /\ UNCHANGED writers_fifo
       ELSE /\ wakeup_writer(t, FALSE)
            /\ UNCHANGED readers_fifo
    /\ UNCHANGED <<RW_PRIOR, r_cnt, ops>>

\* set_rw_prior only sets flag bits: writer priority is never left again.
\* Its callers, rwlock_init and t_rwlock.c, find the lock unused.
set_rw_prior ==
    /\ \A t \in Thread : pc[t] = "idle"
    /\ RW_PRIOR' = TRUE
    /\ UNCHANGED <<WRITING, r_cnt, readers_fifo, writers_fifo, pc, ops>>

ThreadStep(t) ==
    \/ read_lock(t) \/ read_lock_woken(t) \/ read_unlock(t)
    \/ write_lock(t) \/ write_lock_woken(t) \/ write_unlock(t)

RWNext == set_rw_prior \/ \E t \in Thread : ThreadStep(t)

RWSpec == RWInit /\ [][RWNext]_rwvars

\* A woken thread is scheduled again, and a holder unlocks.
Proceed(t) ==
    read_lock_woken(t) \/ read_unlock(t) \/ write_lock_woken(t) \/ write_unlock(t)
RWFairSpec == RWSpec /\ \A t \in Thread : WF_rwvars(Proceed(t))

----------------------------------------------------------------------------
In(p) == {t \in Thread : pc[t] = p}

\* Every variable has the type of the C object it stands for.
RWTypeOK ==
    /\ WRITING \in BOOLEAN
    /\ RW_PRIOR \in BOOLEAN
    /\ r_cnt \in Nat
    /\ readers_fifo \in Seq(Thread)
    /\ writers_fifo \in Seq(Thread)
    /\ pc \in [Thread -> RWPc]
    /\ ops \in [Thread -> 0 .. MaxOps]

\* A writer is alone: no other writer and no reader, although write_lock does not
\* check again after it has slept.  It need not, because WRITING is set exactly
\* while one writer holds the lock or was promised it, and r_cnt counts the readers
\* that hold it, so that the last read_unlock and no other lets a writer in.
RWExclusion ==
    LET owners == In("writing") \cup In("wwoken")
    IN  /\ \A t, u \in owners : t = u
        /\ WRITING <=> owners # {}
        /\ WRITING => r_cnt = 0
        /\ r_cnt = Cardinality(In("reading"))

\* The comment in read_lock: "in theory there is no situation with writer
\* priority, no writer writing, but a non-empty writer queue" when a reader gets
\* in.  Unless readers hold the lock already, that is.
NoIdleWriterQueue == ~(RW_PRIOR /\ ~WRITING /\ r_cnt = 0 /\ writers_fifo # <<>>)

\* Every lock operation is granted and every thread gets out again, when the
\* threads lock finitely often.
AllServed == \A t \in Thread : pc[t] # "idle" ~> pc[t] = "idle"
============================================================================
