-------------------------------- MODULE Slab --------------------------------
(***************************************************************************)
(* A kmem_cache, mm/slab.c, and the size classes of mm/kmalloc.c.  Slab c  *)
(* of Cpus is the slab of CPU c; the others are created on demand and are  *)
(* on one of the cache's two lists.  A slab's lock, or the cache's, makes  *)
(* each part of kmem_cache_alloc and kmem_cache_free one step, except for  *)
(* the test of cpu_slab->inuse, which is made before the lock is taken.    *)
(* free_list is kept as a set: which of its objects is on top of the stack *)
(* does not matter here.                                                   *)
(***************************************************************************)
EXTENDS Integers, Sequences, FiniteSets, SequencesExt

CONSTANTS
    SlabThreads,        \* threads that allocate
    NCPU,               \* the number of CPUs
    obj_size,           \* the size given to kmem_cache_create
    PGSIZE,             \* bytes in a page
    FREE_LIST_MAX_LEN,  \* room in a slab's page: PGSIZE / 16
    MaxSlabs            \* bound on the slabs

ASSUME SlabAssumption ==
    /\ NCPU \in Nat \ {0}
    /\ obj_size \in Nat \ {0}
    /\ PGSIZE \in Nat \ {0}
    /\ MaxSlabs \in Nat

MIN_OBJ_COUNT_PER_PAGE == 4
MAX_KMALLOC_SLAB == 2 * PGSIZE

VARIABLES
    free_list,      \* slab->free_list
    inuse,          \* slab->inuse
    part_slabs,     \* cache->part_slabs
    full_slabs,     \* cache->full_slabs
    nslabs,         \* slabs created: 1 .. nslabs; the CPUs' come first
    out,            \* objects with a caller
    call,           \* thread |-> where it is in kmem_cache_alloc
    raced,          \* two threads have been between the test and the lock of one slab
    panicked        \* panic("obj_pop empty")

svars == <<free_list, inuse, part_slabs, full_slabs, nslabs, out, call, raced, panicked>>

----------------------------------------------------------------------------
\* math_order2: the least order with 2^order >= size.
math_order2(n) == CHOOSE o \in 0 .. n : 2^o >= n /\ (o = 0 \/ 2^(o - 1) < n)
next_power_of_2(n) == 2^math_order2(n)

\* calc_slab_order: pages for at least MIN_OBJ_COUNT_PER_PAGE objects.
calc_slab_order(size) ==
    CHOOSE o \in 0 .. size :
        /\ size * MIN_OBJ_COUNT_PER_PAGE <= PGSIZE * 2^o
        /\ \A q \in 0 .. o - 1 : size * MIN_OBJ_COUNT_PER_PAGE > PGSIZE * 2^q
count_per_slab(size) == (2^calc_slab_order(size) * PGSIZE) \div size

\* kmalloc: the size class that serves a request of n bytes.
kmalloc_class(n) == IF math_order2(n) <= 4 THEN 16 ELSE 2^math_order2(n)

\* Every size that kmalloc serves from a slab is given a class that holds it, and
\* the free list of that class fits the slab's page (the assert of
\* kmem_cache_create), at and around every power of two.
KmallocSizes == {n \in UNION {{2^o - 1, 2^o, 2^o + 1} : o \in 0 .. 13} : n \in 1 .. MAX_KMALLOC_SLAB}
ASSUME KmallocFits ==
    \A n \in KmallocSizes :
        /\ n <= kmalloc_class(n)
        /\ count_per_slab(kmalloc_class(n)) \in MIN_OBJ_COUNT_PER_PAGE .. FREE_LIST_MAX_LEN

----------------------------------------------------------------------------
CPS == count_per_slab(next_power_of_2(obj_size))
SlabIds == 1 .. MaxSlabs
Cpus == 1 .. NCPU
Objs(s) == {<<s, i>> : i \in 1 .. CPS}

\* Mutant: full only when more objects are out than there are.
is_slab_full_late(s) == inuse[s] > CPS

is_slab_full(s) == inuse[s] = CPS

\* obj_pop of slab s that has the objects fl left: it panics when there is none.
obj_pop(s, fl) ==
    IF fl = {}
    THEN /\ panicked' = TRUE
         /\ UNCHANGED <<free_list, inuse, out>>
    ELSE \E o \in fl :
         /\ free_list' = [free_list EXCEPT ![s] = fl \ {o}]
         /\ inuse' = [inuse EXCEPT ![s] = @ + 1]
         /\ out' = out \cup {o}
         /\ UNCHANGED panicked

obj_push(s, o) ==
    /\ free_list' = [free_list EXCEPT ![s] = @ \cup {o}]
    /\ inuse' = [inuse EXCEPT ![s] = @ - 1]
    /\ out' = out \ {o}

\* kmem_cache_create, with cache_cpu_init.
SlabInit ==
    /\ free_list = [s \in SlabIds |-> IF s \in Cpus THEN Objs(s) ELSE {}]
    /\ inuse = [s \in SlabIds |-> 0]
    /\ part_slabs = <<>>
    /\ full_slabs = <<>>
    /\ nslabs = NCPU
    /\ out = {}
    /\ call = [t \in SlabThreads |-> [at |-> "idle"]]
    /\ raced = FALSE
    /\ panicked = FALSE

\* kmem_cache_alloc: the test of inuse, without a lock.  The thread may have been
\* moved to another CPU since it read cache_cpu[cpuid()], so that c is any CPU.
test_cpu_slab(t, c) ==
    /\ ~panicked
    /\ call[t].at = "idle"
    /\ call' = [call EXCEPT ![t] =
          IF is_slab_full(c) THEN [at |-> "list"] ELSE [at |-> "pop", slab |-> c]]
    /\ raced' = (raced \/ \E u \in SlabThreads : call[u] = call'[t] /\ call[u].at = "pop")
    /\ UNCHANGED <<free_list, inuse, part_slabs, full_slabs, nslabs, out, panicked>>

\* kmem_cache_alloc under cpu_slab->lock: obj_pop.
pop_cpu_slab(t) ==
    /\ ~panicked
    /\ call[t].at = "pop"
    /\ obj_pop(call[t].slab, free_list[call[t].slab])
    /\ call' = [call EXCEPT ![t] = [at |-> "idle"]]
    /\ UNCHANGED <<part_slabs, full_slabs, nslabs, raced>>

\* Mutant: a slab whose last object goes stays on part_slabs.
pop_part_slab_kept(t) ==
    /\ ~panicked
    /\ call[t].at = "list"
    /\ part_slabs # <<>>
    /\ obj_pop(Head(part_slabs), free_list[Head(part_slabs)])
    /\ call' = [call EXCEPT ![t] = [at |-> "idle"]]
    /\ UNCHANGED <<part_slabs, full_slabs, nslabs, raced>>

\* kmem_cache_alloc under cache->lock, part_slabs not empty: the first slab gives
\* an object and moves to full_slabs when that was its last.
pop_part_slab(t) ==
    /\ ~panicked
    /\ call[t].at = "list"
    /\ part_slabs # <<>>
    /\ LET s == Head(part_slabs)
       IN  /\ obj_pop(s, free_list[s])
           /\ IF inuse[s] + 1 = CPS
              THEN /\ part_slabs' = Tail(part_slabs)
                   /\ full_slabs' = <<s>> \o full_slabs
              ELSE UNCHANGED <<part_slabs, full_slabs>>
    /\ call' = [call EXCEPT ![t] = [at |-> "idle"]]
    /\ UNCHANGED <<nslabs, raced>>

\* kmem_cache_alloc under cache->lock, part_slabs empty: kmem_cache_add_slab.
pop_new_slab(t) ==
    LET s == nslabs + 1
    IN  /\ ~panicked
        /\ call[t].at = "list"
        /\ part_slabs = <<>>
        /\ nslabs < MaxSlabs
        /\ obj_pop(s, Objs(s))
        /\ part_slabs' = <<s>>
        /\ nslabs' = s
        /\ call' = [call EXCEPT ![t] = [at |-> "idle"]]
        /\ UNCHANGED <<full_slabs, raced>>

\* kmem_cache_free of a CPU's slab, under slab->lock, or of another, under
\* cache->lock: a slab that was full moves to part_slabs.
kmem_cache_free(o) ==
    LET s == o[1]
    IN  /\ ~panicked
        /\ IF s \notin Cpus /\ is_slab_full(s)
           THEN /\ full_slabs' = SelectSeq(full_slabs, LAMBDA r : r # s)
                /\ part_slabs' = <<s>> \o part_slabs
           ELSE UNCHANGED <<part_slabs, full_slabs>>
        /\ obj_push(s, o)
        /\ UNCHANGED <<nslabs, call, raced, panicked>>

SlabNext ==
    \/ \E t \in SlabThreads, c \in Cpus : test_cpu_slab(t, c)
    \/ \E t \in SlabThreads : pop_cpu_slab(t) \/ pop_part_slab(t) \/ pop_new_slab(t)
    \/ \E o \in out : kmem_cache_free(o)

SlabSpec == SlabInit /\ [][SlabNext]_svars

----------------------------------------------------------------------------
\* Through any interleaving of allocations and frees: the objects of every slab
\* are free or with one caller, inuse counts the latter, and every slab outside of
\* the CPUs' is on one list, the full ones on full_slabs; obj_pop of a slab taken
\* from part_slabs finds an object, and the comment's "one must be left" holds.
SlabsExact ==
    /\ \A s \in 1 .. nslabs :
          /\ free_list[s] \cup {o \in out : o[1] = s} = Objs(s)
          /\ free_list[s] \cap out = {}
          /\ inuse[s] = Cardinality({o \in out : o[1] = s})
    /\ IsInjective(part_slabs \o full_slabs)
    /\ ToSet(part_slabs) = {s \in 1 .. nslabs : s \notin Cpus /\ inuse[s] < CPS}
    /\ ToSet(full_slabs) = {s \in 1 .. nslabs : s \notin Cpus /\ inuse[s] = CPS}

\* obj_pop panics for one reason only: two threads have seen the same CPU slab
\* not full before either took its lock.
PanicNeedsRace == panicked => raced
=============================================================================
