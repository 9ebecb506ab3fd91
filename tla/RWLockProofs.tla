---------------------------- MODULE RWLockProofs ----------------------------
(* Proofs about RWLock: exclusion and the hand-over to writers, for any set   *)
(* of threads.                                                                *)
EXTENDS RWLock, FiniteSetTheorems, TLAPS

\* A queue of sleeping threads: everyone in it is at p, and nobody is in it twice.
Fifo(q, at, p) ==
    /\ \A i \in 1 .. Len(q) : at[q[i]] = p
    /\ \A i, j \in 1 .. Len(q) : q[i] = q[j] => i = j

\* The inductive invariant.
RWInv ==
    /\ RWTypeOK
    /\ Fifo(readers_fifo, pc, "rsleep")
    /\ Fifo(writers_fifo, pc, "wsleep")
    /\ RWExclusion
    /\ NoIdleWriterQueue

\* fifo_pop: what is left keeps its order, and the head is gone.
LEMMA PopFacts ==
    ASSUME NEW q \in Seq(Thread), q # <<>>
    PROVE  /\ Head(q) \in Thread /\ Head(q) = q[1] /\ 1 \in 1 .. Len(q)
           /\ Tail(q) \in Seq(Thread)
           /\ Len(Tail(q)) = Len(q) - 1
           /\ \A i \in 1 .. Len(Tail(q)) : i + 1 \in 1 .. Len(q) /\ Tail(q)[i] = q[i + 1]
  OBVIOUS

\* fifo_push: the newcomer is last.
LEMMA PushFacts ==
    ASSUME NEW q \in Seq(Thread), NEW t \in Thread
    PROVE  /\ Append(q, t) \in Seq(Thread)
           /\ Len(Append(q, t)) = Len(q) + 1
           /\ Append(q, t)[Len(q) + 1] = t
           /\ \A i \in 1 .. Len(q) : Append(q, t)[i] = q[i]
           /\ Append(q, t) # <<>>
  OBVIOUS

\* A queue that a step leaves alone stays sound if the step moves nobody in it.
LEMMA FifoKept ==
    ASSUME NEW at, NEW new, NEW q \in Seq(Thread), NEW p, Fifo(q, at, p),
           \A u \in Thread : at[u] = p => new[u] = p
    PROVE  Fifo(q, new, p)
  BY DEF Fifo

\* fifo_push of a thread that goes to sleep.
LEMMA FifoPush ==
    ASSUME NEW at, NEW new, NEW q \in Seq(Thread), NEW p, Fifo(q, at, p),
           NEW t \in Thread, at[t] # p, new[t] = p,
           \A u \in Thread : u # t => new[u] = at[u]
    PROVE  Fifo(Append(q, t), new, p)
  <1> DEFINE r == Append(q, t)
  <1>1. /\ r \in Seq(Thread) /\ Len(r) = Len(q) + 1 /\ r[Len(q) + 1] = t /\ Len(q) \in Nat
        /\ \A i \in 1 .. Len(q) : r[i] = q[i]
    BY PushFacts
  <1>2. \A i \in 1 .. Len(q) : q[i] \in Thread /\ at[q[i]] = p /\ q[i] # t
    BY DEF Fifo
  <1>3. \A i \in 1 .. Len(r) : (i \in 1 .. Len(q) /\ r[i] = q[i]) \/ (i = Len(q) + 1 /\ r[i] = t)
    BY <1>1
  <1> HIDE DEF r
  <1>4. \A i \in 1 .. Len(r) : new[r[i]] = p
    BY <1>2, <1>3
  <1>5. \A i, j \in 1 .. Len(r) : r[i] = r[j] => i = j
    BY <1>2, <1>3 DEF Fifo
  <1>6. Fifo(r, new, p)
    BY <1>4, <1>5 DEF Fifo
  <1> QED BY <1>6 DEF r

\* fifo_pop of the thread that is woken; nobody else in the queue moves.
LEMMA FifoPop ==
    ASSUME NEW at, NEW new, NEW q \in Seq(Thread), q # <<>>, NEW p, Fifo(q, at, p),
           \A u \in Thread : at[u] = p /\ u # Head(q) => new[u] = p
    PROVE  /\ Fifo(Tail(q), new, p)
           /\ Head(q) \in Thread /\ at[Head(q)] = p
  <1>1. /\ Head(q) = q[1] /\ 1 \in 1 .. Len(q) /\ Len(q) \in Nat
        /\ Len(Tail(q)) = Len(q) - 1
        /\ \A i \in 1 .. Len(Tail(q)) : i + 1 \in 1 .. Len(q) /\ Tail(q)[i] = q[i + 1]
    BY PopFacts
  <1>2. \A i \in 1 .. Len(Tail(q)) : new[Tail(q)[i]] = p
    <2> SUFFICES ASSUME NEW i \in 1 .. Len(Tail(q)) PROVE new[Tail(q)[i]] = p
      OBVIOUS
    <2>1. i + 1 \in 1 .. Len(q) /\ Tail(q)[i] = q[i + 1] /\ i + 1 # 1
      BY <1>1
    <2>2. q[i + 1] \in Thread /\ at[q[i + 1]] = p /\ q[i + 1] # q[1]
      BY <1>1, <2>1 DEF Fifo
    <2> QED BY <1>1, <2>1, <2>2
  <1>3. \A i, j \in 1 .. Len(Tail(q)) : Tail(q)[i] = Tail(q)[j] => i = j
    BY <1>1 DEF Fifo
  <1> QED BY <1>1, <1>2, <1>3 DEF Fifo

\* The readers inside are finitely many.
LEMMA ReadersFinite == RWTypeOK => IsFiniteSet(In("reading"))
  BY RWAssumption, FS_Subset DEF In

\* A thread starts to read: one more.
LEMMA ReaderIn ==
    ASSUME RWTypeOK, NEW t \in Thread, pc[t] # "reading", pc'[t] = "reading",
           \A u \in Thread : u # t => (pc'[u] = "reading" <=> pc[u] = "reading")
    PROVE  Cardinality(In("reading")') = Cardinality(In("reading")) + 1
  <1>1. In("reading")' = In("reading") \cup {t} /\ t \notin In("reading")
    BY DEF In
  <1> QED BY <1>1, ReadersFinite, FS_AddElement

\* A thread ends to read: one less.
LEMMA ReaderOut ==
    ASSUME RWTypeOK, NEW t \in Thread, pc[t] = "reading", pc'[t] # "reading",
           \A u \in Thread : u # t => (pc'[u] = "reading" <=> pc[u] = "reading")
    PROVE  Cardinality(In("reading")') = Cardinality(In("reading")) - 1
  <1>1. In("reading")' = In("reading") \ {t} /\ t \in In("reading")
    BY DEF In
  <1> QED BY <1>1, ReadersFinite, FS_RemoveElement

----------------------------------------------------------------------------
\* wakeup_reader, by a thread that goes on to p: the queue and the woken reader.
LEMMA WakeReader ==
    ASSUME RWInv, NEW t \in Thread, pc[t] # "rsleep", NEW p \in RWPc \ {"rsleep"},
           wakeup_reader(t, p)
    PROVE  /\ readers_fifo' \in Seq(Thread)
           /\ Fifo(readers_fifo', pc', "rsleep")
           /\ pc' \in [Thread -> RWPc]
           /\ pc'[t] = p
           /\ \A u \in Thread : u # t => \/ pc'[u] = pc[u]
                                         \/ pc[u] = "rsleep" /\ pc'[u] = "rwoken"
  <1> USE DEF RWInv
  <1>0. readers_fifo \in Seq(Thread) /\ pc \in [Thread -> RWPc]
    BY DEF RWTypeOK
  <1>1. CASE readers_fifo = <<>>
    <2>1. pc' = [pc EXCEPT ![t] = p] /\ readers_fifo' = readers_fifo
      BY <1>1 DEF wakeup_reader
    <2>2. Fifo(readers_fifo', pc', "rsleep")
      BY <1>0, <1>1, <2>1, FifoKept
    <2> QED BY <1>0, <2>1, <2>2
  <1>2. CASE readers_fifo # <<>>
    <2> DEFINE h == Head(readers_fifo)
    <2>1. pc' = [pc EXCEPT ![t] = p, ![h] = "rwoken"] /\ readers_fifo' = Tail(readers_fifo)
      BY <1>2 DEF wakeup_reader
    <2>2. h \in Thread /\ pc[h] = "rsleep" /\ Tail(readers_fifo) \in Seq(Thread)
      BY <1>0, <1>2, PopFacts DEF Fifo
    <2> HIDE DEF h
    <2>3. /\ h # t /\ pc'[t] = p /\ pc'[h] = "rwoken"
          /\ \A u \in Thread : u # t /\ u # h => pc'[u] = pc[u]
      BY <1>0, <2>1, <2>2
    <2>4. Fifo(Tail(readers_fifo), pc', "rsleep")
      <3>1. \A u \in Thread : pc[u] = "rsleep" /\ u # Head(readers_fifo) => pc'[u] = "rsleep"
        BY <2>3 DEF h
      <3> QED BY <1>0, <1>2, <3>1, FifoPop
    <2>5. pc' \in [Thread -> RWPc]
      BY <1>0, <2>1, <2>2 DEF RWPc
    <2> QED BY <2>1, <2>2, <2>3, <2>4, <2>5
  <1> QED BY <1>1, <1>2

\* read_lock, at first and after a sleep: the reader queues or gets in, and takes
\* the next reader along.
LEMMA RetryInv ==
    ASSUME RWInv, NEW t \in Thread, pc[t] \in {"idle", "rwoken"}, retry(t),
           ops' \in [Thread -> 0 .. MaxOps]
    PROVE  RWInv'
  <1> USE DEF RWInv
  <1>1. /\ WRITING' = WRITING /\ RW_PRIOR' = RW_PRIOR /\ writers_fifo' = writers_fifo
        /\ readers_fifo \in Seq(Thread) /\ writers_fifo \in Seq(Thread) /\ r_cnt \in Nat
        /\ pc \in [Thread -> RWPc]
    BY DEF retry, RWTypeOK
  <1>2. CASE ReaderBlocked
    <2>1. readers_fifo' = Append(readers_fifo, t) /\ r_cnt' = r_cnt
          /\ pc' = [pc EXCEPT ![t] = "rsleep"]
      BY <1>2 DEF retry
    <2>2. pc'[t] = "rsleep" /\ \A u \in Thread : u # t => pc'[u] = pc[u]
      BY <1>1, <2>1
    <2>3. RWTypeOK'
      BY <1>1, <2>1, PushFacts DEF RWTypeOK, RWPc
    <2>4. Fifo(readers_fifo', pc', "rsleep")
      BY <1>1, <2>1, <2>2, FifoPush
    <2>5. Fifo(writers_fifo', pc', "wsleep")
      BY <1>1, <2>2, FifoKept
    <2>6. /\ In("writing")' = In("writing") /\ In("wwoken")' = In("wwoken")
          /\ In("reading")' = In("reading")
      BY <2>2 DEF In
    <2>7. RWExclusion' /\ NoIdleWriterQueue'
      BY <1>1, <2>1, <2>6 DEF RWExclusion, NoIdleWriterQueue
    <2> QED BY <2>3, <2>4, <2>5, <2>7
  <1>3. CASE ~ReaderBlocked
    <2>1. r_cnt' = r_cnt + 1 /\ wakeup_reader(t, "reading") /\ ~WRITING
      BY <1>3 DEF retry, ReaderBlocked
    <2>2. /\ readers_fifo' \in Seq(Thread)
          /\ Fifo(readers_fifo', pc', "rsleep")
          /\ pc' \in [Thread -> RWPc]
          /\ pc'[t] = "reading"
          /\ \A u \in Thread : u # t => \/ pc'[u] = pc[u]
                                        \/ pc[u] = "rsleep" /\ pc'[u] = "rwoken"
      <3>1. pc[t] # "rsleep" /\ "reading" \in RWPc \ {"rsleep"}
        BY DEF RWPc
      <3> QED BY <2>1, <3>1, WakeReader
    <2>3. RWTypeOK'
      BY <1>1, <2>1, <2>2 DEF RWTypeOK
    <2>4. Fifo(writers_fifo', pc', "wsleep")
      BY <1>1, <2>2, FifoKept
    <2>5. In("writing")' = In("writing") /\ In("wwoken")' = In("wwoken")
      BY <2>2 DEF In
    <2>6. Cardinality(In("reading")') = Cardinality(In("reading")) + 1
      BY <2>2, ReaderIn
    <2>7. RWExclusion'
      BY <1>1, <2>1, <2>5, <2>6 DEF RWExclusion
    <2>8. NoIdleWriterQueue'
      BY <1>1, <1>3, <2>1 DEF NoIdleWriterQueue, ReaderBlocked
    <2> QED BY <2>2, <2>3, <2>4, <2>7, <2>8
  <1> QED BY <1>2, <1>3

\* wakeup_writer, by a thread that holds the lock no more: the flag, the queue and
\* the woken writer afterwards.
LEMMA WakeWriter ==
    ASSUME RWInv, NEW t \in Thread, pc[t] # "wsleep", NEW w \in BOOLEAN, wakeup_writer(t, w)
    PROVE  /\ writers_fifo' \in Seq(Thread)
           /\ Fifo(writers_fifo', pc', "wsleep")
           /\ pc' \in [Thread -> RWPc]
           /\ pc'[t] = "idle"
           /\ \/ /\ WRITING' = w /\ writers_fifo' = <<>>
                 /\ \A u \in Thread : u # t => pc'[u] = pc[u]
              \/ /\ WRITING' = TRUE
                 /\ \E h \in Thread : /\ h # t /\ pc[h] = "wsleep" /\ pc'[h] = "wwoken"
                                      /\ \A u \in Thread : u # t /\ u # h => pc'[u] = pc[u]
  <1> USE DEF RWInv
  <1>0. writers_fifo \in Seq(Thread) /\ pc \in [Thread -> RWPc]
    BY DEF RWTypeOK
  <1>1. CASE writers_fifo = <<>>
    <2>1. pc' = [pc EXCEPT ![t] = "idle"] /\ writers_fifo' = writers_fifo /\ WRITING' = w
      BY <1>1 DEF wakeup_writer
    <2>2. Fifo(writers_fifo', pc', "wsleep")
      BY <1>0, <1>1, <2>1, FifoKept
    <2> QED BY <1>0, <1>1, <2>1, <2>2 DEF RWPc
  <1>2. CASE writers_fifo # <<>>
    <2> DEFINE h == Head(writers_fifo)
    <2>1. /\ pc' = [pc EXCEPT ![t] = "idle", ![h] = "wwoken"]
          /\ writers_fifo' = Tail(writers_fifo) /\ WRITING' = TRUE
      BY <1>2 DEF wakeup_writer
    <2>2. h \in Thread /\ pc[h] = "wsleep" /\ Tail(writers_fifo) \in Seq(Thread)
      BY <1>0, <1>2, PopFacts DEF Fifo
    <2> HIDE DEF h
    <2>3. /\ h # t /\ pc'[t] = "idle" /\ pc'[h] = "wwoken"
          /\ \A u \in Thread : u # t /\ u # h => pc'[u] = pc[u]
      BY <1>0, <2>1, <2>2
    <2>4. Fifo(Tail(writers_fifo), pc', "wsleep")
      BY <1>0, <1>2, <2>3, FifoPop DEF h
    <2>5. pc' \in [Thread -> RWPc]
      BY <1>0, <2>1, <2>2 DEF RWPc
    <2> QED BY <2>1, <2>2, <2>3, <2>4, <2>5
  <1> QED BY <1>1, <1>2

\* read_unlock: the last reader lets a writer in.
LEMMA ReadUnlockInv ==
    ASSUME RWInv, NEW t \in Thread, read_unlock(t)
    PROVE  RWInv'
  <1> USE DEF RWInv
  <1>1. /\ RW_PRIOR' = RW_PRIOR /\ readers_fifo' = readers_fifo /\ ops' = ops
        /\ r_cnt' = r_cnt - 1 /\ pc[t] = "reading"
        /\ readers_fifo \in Seq(Thread) /\ writers_fifo \in Seq(Thread)
        /\ pc \in [Thread -> RWPc] /\ WRITING \in BOOLEAN /\ r_cnt \in Nat
    BY DEF read_unlock, RWTypeOK
  <1>2. t \in In("reading") /\ r_cnt = Cardinality(In("reading"))
    BY <1>1 DEF In, RWExclusion
  <1>3. r_cnt # 0 /\ ~WRITING
    <2>1. r_cnt # 0
      BY <1>1, <1>2, ReadersFinite, FS_EmptySet
    <2> QED BY <2>1 DEF RWExclusion
  <1>4. \A u \in Thread : u \notin In("writing") \cup In("wwoken")
    BY <1>3 DEF RWExclusion
  <1>5. CASE r_cnt - 1 = 0
    <2>1. wakeup_writer(t, WRITING)
      BY <1>5 DEF read_unlock
    <2>2. /\ writers_fifo' \in Seq(Thread) /\ Fifo(writers_fifo', pc', "wsleep")
          /\ pc' \in [Thread -> RWPc] /\ pc'[t] = "idle"
          /\ \/ /\ WRITING' = WRITING /\ writers_fifo' = <<>>
                /\ \A u \in Thread : u # t => pc'[u] = pc[u]
             \/ /\ WRITING' = TRUE
                /\ \E h \in Thread : /\ h # t /\ pc[h] = "wsleep" /\ pc'[h] = "wwoken"
                                     /\ \A u \in Thread : u # t /\ u # h => pc'[u] = pc[u]
      BY <1>1, <2>1, WakeWriter
    <2>3. RWTypeOK'
      <3>1. WRITING' \in BOOLEAN
        BY <1>1, <2>2
      <3>2. r_cnt' \in Nat
        BY <1>1, <1>3
      <3> QED BY <1>1, <2>2, <3>1, <3>2 DEF RWTypeOK
    <2>4. Fifo(readers_fifo', pc', "rsleep")
      <3>1. \A u \in Thread : pc[u] = "rsleep" => pc'[u] = "rsleep"
        BY <1>1, <2>2
      <3> QED BY <1>1, <3>1, FifoKept
    <2>5. Cardinality(In("reading")') = Cardinality(In("reading")) - 1
      <3>1. \A u \in Thread : u # t => (pc'[u] = "reading" <=> pc[u] = "reading")
        BY <2>2
      <3> QED BY <1>1, <2>2, <3>1, ReaderOut
    <2>6. RWExclusion'
      <3>1. CASE WRITING' = WRITING /\ \A u \in Thread : u # t => pc'[u] = pc[u]
        <4>1. In("writing")' = {} /\ In("wwoken")' = {}
          BY <1>4, <2>2, <3>1 DEF In
        <4> QED BY <1>1, <1>2, <1>3, <2>5, <3>1, <4>1 DEF RWExclusion
      <3>2. ASSUME WRITING' = TRUE, NEW h \in Thread, h # t, pc'[h] = "wwoken",
                   \A u \in Thread : u # t /\ u # h => pc'[u] = pc[u]
            PROVE  RWExclusion'
        <4>1. In("writing")' = {} /\ In("wwoken")' = {h}
          BY <1>4, <2>2, <3>2 DEF In
        <4> QED BY <1>1, <1>2, <1>5, <2>5, <3>2, <4>1 DEF RWExclusion
      <3> QED BY <2>2, <3>1, <3>2
    <2>7. NoIdleWriterQueue'
      BY <2>2 DEF NoIdleWriterQueue
    <2> QED BY <2>2, <2>3, <2>4, <2>6, <2>7
  <1>6. CASE r_cnt - 1 # 0
    <2>1. pc' = [pc EXCEPT ![t] = "idle"] /\ WRITING' = WRITING /\ writers_fifo' = writers_fifo
      BY <1>6 DEF read_unlock
    <2>2. pc'[t] = "idle" /\ \A u \in Thread : u # t => pc'[u] = pc[u]
      BY <1>1, <2>1
    <2>3. RWTypeOK'
      BY <1>1, <1>3, <2>1 DEF RWTypeOK, RWPc
    <2>4. Fifo(readers_fifo', pc', "rsleep") /\ Fifo(writers_fifo', pc', "wsleep")
      BY <1>1, <2>1, <2>2, FifoKept
    <2>5. Cardinality(In("reading")') = Cardinality(In("reading")) - 1
      BY <1>1, <2>2, ReaderOut
    <2>6. In("writing")' = In("writing") /\ In("wwoken")' = In("wwoken")
      BY <1>1, <2>2 DEF In
    <2>7. RWExclusion' /\ NoIdleWriterQueue'
      BY <1>1, <1>3, <1>6, <2>1, <2>5, <2>6 DEF RWExclusion, NoIdleWriterQueue
    <2> QED BY <2>3, <2>4, <2>7
  <1> QED BY <1>5, <1>6

\* write_lock: the writer queues, or is alone.
LEMMA WriteLockInv ==
    ASSUME RWInv, NEW t \in Thread, write_lock(t)
    PROVE  RWInv'
  <1> USE DEF RWInv
  <1>1. /\ RW_PRIOR' = RW_PRIOR /\ readers_fifo' = readers_fifo /\ r_cnt' = r_cnt
        /\ pc[t] = "idle" /\ ops' \in [Thread -> 0 .. MaxOps]
        /\ readers_fifo \in Seq(Thread) /\ writers_fifo \in Seq(Thread)
        /\ pc \in [Thread -> RWPc] /\ WRITING \in BOOLEAN /\ r_cnt \in Nat
    BY RWAssumption DEF write_lock, RWTypeOK
  <1>2. CASE r_cnt # 0 \/ WRITING
    <2>1. /\ writers_fifo' = Append(writers_fifo, t) /\ pc' = [pc EXCEPT ![t] = "wsleep"]
          /\ WRITING' = WRITING
      BY <1>2 DEF write_lock
    <2>2. pc'[t] = "wsleep" /\ \A u \in Thread : u # t => pc'[u] = pc[u]
      BY <1>1, <2>1
    <2>3. RWTypeOK'
      BY <1>1, <2>1, PushFacts DEF RWTypeOK, RWPc
    <2>4. Fifo(writers_fifo', pc', "wsleep")
      BY <1>1, <2>1, <2>2, FifoPush
    <2>5. Fifo(readers_fifo', pc', "rsleep")
      BY <1>1, <2>2, FifoKept
    <2>6. /\ In("writing")' = In("writing") /\ In("wwoken")' = In("wwoken")
          /\ In("reading")' = In("reading")
      BY <1>1, <2>2 DEF In
    <2>7. RWExclusion' /\ NoIdleWriterQueue'
      BY <1>1, <1>2, <2>1, <2>6 DEF RWExclusion, NoIdleWriterQueue
    <2> QED BY <2>3, <2>4, <2>5, <2>7
  <1>3. CASE r_cnt = 0 /\ ~WRITING
    <2>1. /\ writers_fifo' = writers_fifo /\ pc' = [pc EXCEPT ![t] = "writing"]
          /\ WRITING' = TRUE
      BY <1>3 DEF write_lock
    <2>2. pc'[t] = "writing" /\ \A u \in Thread : u # t => pc'[u] = pc[u]
      BY <1>1, <2>1
    <2>3. RWTypeOK'
      BY <1>1, <2>1 DEF RWTypeOK, RWPc
    <2>4. Fifo(readers_fifo', pc', "rsleep") /\ Fifo(writers_fifo', pc', "wsleep")
      BY <1>1, <2>1, <2>2, FifoKept
    <2>5. /\ In("writing")' = In("writing") \cup {t} /\ In("wwoken")' = In("wwoken")
          /\ In("reading")' = In("reading")
      BY <1>1, <2>2 DEF In
    <2>6. RWExclusion' /\ NoIdleWriterQueue'
      BY <1>1, <1>3, <2>1, <2>5 DEF RWExclusion, NoIdleWriterQueue
    <2> QED BY <2>3, <2>4, <2>6
  <1> QED BY <1>1, <1>2, <1>3

\* sleep_writer returns: the flag was set on the writer's behalf.
LEMMA WriteLockWokenInv ==
    ASSUME RWInv, NEW t \in Thread, write_lock_woken(t)
    PROVE  RWInv'
  <1> USE DEF RWInv
  <1>1. /\ RW_PRIOR' = RW_PRIOR /\ readers_fifo' = readers_fifo /\ writers_fifo' = writers_fifo
        /\ r_cnt' = r_cnt /\ ops' = ops /\ WRITING' = TRUE
        /\ pc[t] = "wwoken" /\ pc' = [pc EXCEPT ![t] = "writing"]
        /\ readers_fifo \in Seq(Thread) /\ writers_fifo \in Seq(Thread)
        /\ pc \in [Thread -> RWPc]
    BY DEF write_lock_woken, RWTypeOK
  <1>2. pc'[t] = "writing" /\ \A u \in Thread : u # t => pc'[u] = pc[u]
    BY <1>1
  <1>3. RWTypeOK'
    BY <1>1 DEF RWTypeOK, RWPc
  <1>4. Fifo(readers_fifo', pc', "rsleep") /\ Fifo(writers_fifo', pc', "wsleep")
    BY <1>1, <1>2, FifoKept
  <1>5. /\ In("writing")' = In("writing") \cup {t} /\ In("wwoken")' = In("wwoken") \ {t}
        /\ In("reading")' = In("reading") /\ t \in In("wwoken")
    BY <1>1, <1>2 DEF In
  <1>6. WRITING /\ r_cnt = 0
    BY <1>5 DEF RWExclusion
  <1>7. RWExclusion' /\ NoIdleWriterQueue'
    BY <1>1, <1>5, <1>6 DEF RWExclusion, NoIdleWriterQueue
  <1> QED BY <1>3, <1>4, <1>7

\* write_unlock: the lock goes to a reader or to a writer, and with writer priority
\* never past a writer that waits.
LEMMA WriteUnlockInv ==
    ASSUME RWInv, NEW t \in Thread, write_unlock(t)
    PROVE  RWInv'
  <1> USE DEF RWInv
  <1>1. /\ RW_PRIOR' = RW_PRIOR /\ r_cnt' = r_cnt /\ ops' = ops /\ pc[t] = "writing"
        /\ readers_fifo \in Seq(Thread) /\ writers_fifo \in Seq(Thread)
        /\ pc \in [Thread -> RWPc] /\ RW_PRIOR \in BOOLEAN
    BY DEF write_unlock, RWTypeOK
  <1>2. /\ r_cnt = 0 /\ r_cnt = Cardinality(In("reading"))
        /\ \A u \in Thread : u # t => pc[u] \notin {"writing", "wwoken"}
    BY <1>1 DEF RWExclusion, In
  <1>3. CASE (~RW_PRIOR /\ readers_fifo # <<>>) \/ (RW_PRIOR /\ writers_fifo = <<>>)
    <2>1. wakeup_reader(t, "idle") /\ WRITING' = FALSE /\ writers_fifo' = writers_fifo
      BY <1>3 DEF write_unlock
    <2>2. /\ readers_fifo' \in Seq(Thread)
          /\ Fifo(readers_fifo', pc', "rsleep")
          /\ pc' \in [Thread -> RWPc]
          /\ pc'[t] = "idle"
          /\ \A u \in Thread : u # t => \/ pc'[u] = pc[u]
                                        \/ pc[u] = "rsleep" /\ pc'[u] = "rwoken"
      <3>1. pc[t] # "rsleep" /\ "idle" \in RWPc \ {"rsleep"}
        BY <1>1 DEF RWPc
      <3> QED BY <2>1, <3>1, WakeReader
    <2>3. RWTypeOK'
      BY <1>1, <2>1, <2>2 DEF RWTypeOK
    <2>4. Fifo(writers_fifo', pc', "wsleep")
      BY <1>1, <2>1, <2>2, FifoKept
    <2>5. /\ In("writing")' = {} /\ In("wwoken")' = {} /\ In("reading")' = In("reading")
      BY <1>1, <1>2, <2>2 DEF In
    <2>6. RWExclusion' /\ NoIdleWriterQueue'
      BY <1>1, <1>2, <1>3, <2>1, <2>5 DEF RWExclusion, NoIdleWriterQueue
    <2> QED BY <2>2, <2>3, <2>4, <2>6
  <1>4. CASE ~((~RW_PRIOR /\ readers_fifo # <<>>) \/ (RW_PRIOR /\ writers_fifo = <<>>))
    <2>1. wakeup_writer(t, FALSE) /\ readers_fifo' = readers_fifo
      BY <1>4 DEF write_unlock
    <2>2. /\ writers_fifo' \in Seq(Thread) /\ Fifo(writers_fifo', pc', "wsleep")
          /\ pc' \in [Thread -> RWPc] /\ pc'[t] = "idle"
          /\ \/ /\ WRITING' = FALSE /\ writers_fifo' = <<>>
                /\ \A u \in Thread : u # t => pc'[u] = pc[u]
             \/ /\ WRITING' = TRUE
                /\ \E h \in Thread : /\ h # t /\ pc[h] = "wsleep" /\ pc'[h] = "wwoken"
                                     /\ \A u \in Thread : u # t /\ u # h => pc'[u] = pc[u]
      BY <1>1, <2>1, WakeWriter
    <2>3. RWTypeOK'
      BY <1>1, <2>1, <2>2 DEF RWTypeOK
    <2>4. Fifo(readers_fifo', pc', "rsleep")
      <3>1. \A u \in Thread : pc[u] = "rsleep" => pc'[u] = "rsleep"
        BY <1>1, <2>2
      <3> QED BY <1>1, <2>1, <3>1, FifoKept
    <2>5. In("reading")' = In("reading")
      BY <1>1, <2>2 DEF In
    <2>6. RWExclusion'
      <3>1. CASE WRITING' = FALSE /\ \A u \in Thread : u # t => pc'[u] = pc[u]
        <4>1. In("writing")' = {} /\ In("wwoken")' = {}
          BY <1>2, <2>2, <3>1 DEF In
        <4> QED BY <1>1, <1>2, <2>5, <3>1, <4>1 DEF RWExclusion
      <3>2. ASSUME WRITING' = TRUE, NEW h \in Thread, h # t, pc'[h] = "wwoken",
                   \A u \in Thread : u # t /\ u # h => pc'[u] = pc[u]
            PROVE  RWExclusion'
        <4>1. In("writing")' = {} /\ In("wwoken")' = {h}
          BY <1>2, <2>2, <3>2 DEF In
        <4> QED BY <1>1, <1>2, <2>5, <3>2, <4>1 DEF RWExclusion
      <3> QED BY <2>2, <3>1, <3>2
    <2>7. NoIdleWriterQueue'
      BY <2>2 DEF NoIdleWriterQueue
    <2> QED BY <2>2, <2>3, <2>4, <2>6, <2>7
  <1> QED BY <1>3, <1>4

\* set_rw_prior before the lock is used: nobody waits.
LEMMA SetPriorInv ==
    ASSUME RWInv, set_rw_prior
    PROVE  RWInv'
  <1> USE DEF RWInv
  <1>1. /\ WRITING' = WRITING /\ r_cnt' = r_cnt /\ readers_fifo' = readers_fifo
        /\ writers_fifo' = writers_fifo /\ pc' = pc /\ ops' = ops /\ RW_PRIOR' = TRUE
        /\ writers_fifo \in Seq(Thread) /\ \A t \in Thread : pc[t] = "idle"
    BY DEF set_rw_prior, RWTypeOK
  <1>2. writers_fifo = <<>>
    <2>1. CASE writers_fifo # <<>>
      <3>1. Head(writers_fifo) \in Thread /\ pc[Head(writers_fifo)] = "wsleep"
        BY <1>1, <2>1, PopFacts DEF Fifo
      <3> QED BY <1>1, <3>1
    <2> QED BY <2>1
  <1>3. RWTypeOK'
    BY <1>1 DEF RWTypeOK
  <1>4. Fifo(readers_fifo', pc', "rsleep") /\ Fifo(writers_fifo', pc', "wsleep")
    BY <1>1
  <1>5. RWExclusion' /\ NoIdleWriterQueue'
    BY <1>1, <1>2 DEF RWExclusion, NoIdleWriterQueue, In
  <1> QED BY <1>3, <1>4, <1>5

\* Every step keeps the invariant.
LEMMA RWNextInv ==
    ASSUME RWInv, [RWNext]_rwvars
    PROVE  RWInv'
  <1>1. CASE UNCHANGED rwvars
    BY <1>1 DEF rwvars, RWInv, RWTypeOK, Fifo, RWExclusion, NoIdleWriterQueue, In
  <1>2. CASE set_rw_prior
    BY <1>2, SetPriorInv
  <1>3. ASSUME NEW t \in Thread, ThreadStep(t) PROVE RWInv'
    <2>1. CASE read_lock(t)
      <3>1. ops' \in [Thread -> 0 .. MaxOps]
        BY <2>1, RWAssumption DEF read_lock, RWInv, RWTypeOK
      <3> QED BY <2>1, <3>1, RetryInv DEF read_lock
    <2>2. CASE read_lock_woken(t)
      <3>1. ops' \in [Thread -> 0 .. MaxOps]
        BY <2>2 DEF read_lock_woken, RWInv, RWTypeOK
      <3> QED BY <2>2, <3>1, RetryInv DEF read_lock_woken
    <2> QED BY <1>3, <2>1, <2>2, ReadUnlockInv, WriteLockInv, WriteLockWokenInv, WriteUnlockInv
            DEF ThreadStep
  <1> QED BY <1>1, <1>2, <1>3 DEF RWNext

\* The invariant holds at first.
LEMMA RWInitInv == RWInit => RWInv
  <1> SUFFICES ASSUME RWInit PROVE RWInv
    OBVIOUS
  <1>1. RWTypeOK
    <2>1. readers_fifo \in Seq(Thread) /\ writers_fifo \in Seq(Thread)
      BY DEF RWInit
    <2>2. pc \in [Thread -> RWPc] /\ ops \in [Thread -> 0 .. MaxOps] /\ r_cnt \in Nat
      BY RWAssumption DEF RWInit, RWPc
    <2> QED BY <2>1, <2>2 DEF RWInit, RWTypeOK
  <1>2. Fifo(readers_fifo, pc, "rsleep") /\ Fifo(writers_fifo, pc, "wsleep")
    BY DEF RWInit, Fifo
  <1>3. In("writing") = {} /\ In("wwoken") = {} /\ In("reading") = {}
    BY DEF RWInit, In
  <1>4. RWExclusion /\ NoIdleWriterQueue
    BY <1>3, FS_EmptySet DEF RWInit, RWExclusion, NoIdleWriterQueue
  <1> QED BY <1>1, <1>2, <1>4 DEF RWInv

\* For any threads, rwlock.c keeps readers and writers apart, and its flag and its
\* count exact.
THEOREM RWExclusionTheorem == RWSpec => []RWExclusion
  <1>1. RWInit => RWInv
    BY RWInitInv
  <1>2. RWInv /\ [RWNext]_rwvars => RWInv'
    BY RWNextInv
  <1>3. RWInv => RWExclusion
    BY DEF RWInv
  <1> QED BY <1>1, <1>2, <1>3, PTL DEF RWSpec

\* For any threads, the comment in read_lock is right: with writer priority the
\* queue of writers is empty whenever nobody is inside.
THEOREM NoIdleWriterQueueTheorem == RWSpec => []NoIdleWriterQueue
  <1>1. RWInit => RWInv
    BY RWInitInv
  <1>2. RWInv /\ [RWNext]_rwvars => RWInv'
    BY RWNextInv
  <1>3. RWInv => NoIdleWriterQueue
    BY DEF RWInv
  <1> QED BY <1>1, <1>2, <1>3, PTL DEF RWSpec

=============================================================================
