------------------------------ MODULE VirtioDisk ------------------------------
(***************************************************************************)
(* The virtio disk driver, drivers/blk/virtio/virtio_disk.c, and the       *)
(* device it shares two rings and NUM descriptors with.  Callers (the I/O  *)
(* thread and the flush thread of BlockIO) transfer one page at a time.    *)
(* The ring indices are 16 bits wide in the code; here they wrap at        *)
(* IdxRange, which like 2^16 is a multiple of NUM.                         *)
(***************************************************************************)
EXTENDS Integers, Sequences, FiniteSets, FiniteSetsExt

CONSTANTS
    Caller,     \* threads that call ll_rw
    Block,      \* block numbers
    NUM,        \* descriptors, and entries of a ring
    IdxRange    \* values of a ring index

ASSUME VirtioAssumption ==
    /\ NUM \in Nat /\ NUM >= 3
    /\ IdxRange \in Nat \ {0} /\ IdxRange % NUM = 0

Desc == 0 .. NUM - 1
Nobody == "nobody"

VARIABLES
    page,       \* block |-> its buffer's page: what the cells of the block hold
    media,      \* block |-> what the device keeps
    vd,         \* struct disk, and the interrupt line
    drv         \* caller |-> its call of virtio_disk_rw

vdvars == <<page, media, vd, drv>>

Unused == [next |-> -1, rw |-> "none", b |-> -1]
Done == [pc |-> "done", rw |-> "none", b |-> -1, head |-> -1]

\* virtio_disk_init
VirtioInit ==
    /\ vd = [mutex |-> Nobody, free |-> Desc,
             desc |-> [i \in Desc |-> Unused], status |-> [i \in Desc |-> 0],
             avail |-> [i \in Desc |-> 0], avail_idx |-> 0, seen |-> 0,
             used |-> [i \in Desc |-> 0], dev_idx |-> 0, used_idx |-> 0,
             irq |-> FALSE, intr |-> 0, panic |-> FALSE]
    /\ drv = [c \in Caller |-> Done]

Next_(i) == (i + 1) % IdxRange

\* alloc3_desc: the three lowest free descriptors; -1 when there are fewer, which
\* virtio_disk_rw does not look at.
alloc3_desc ==
    IF Cardinality(vd.free) < 3 THEN <<-1>>
    ELSE LET a == Min(vd.free)
             b == Min(vd.free \ {a})
         IN  <<a, b, Min(vd.free \ {a, b})>>

\* The descriptors from i on, in the order of their next fields.
Chain(i) ==
    LET n == [k \in 0 .. 2 |-> IF k = 0 THEN i
                               ELSE IF k = 1 THEN vd.desc[i].next
                               ELSE LET j == vd.desc[i].next
                                    IN  IF j = -1 THEN -1 ELSE vd.desc[j].next]
    IN  {n[k] : k \in 0 .. 2} \ {-1}

\* ll_rw: a caller wants block b read into, or written from, its page.
ll_rw(c, b, rw) == drv' = [drv EXCEPT ![c] = [pc |-> "lock", rw |-> rw, b |-> b, head |-> -1]]

\* What virtio_disk_rw does under the mutex, up to sleep_on(&disk.intr): three descriptors
\* for the command, the page and the status byte, the entry in the avail ring, the
\* notification; holder keeps the mutex while the caller sleeps.
submit(c, holder) ==
    LET idx == alloc3_desc
        r == drv[c]
    IN  /\ r.pc = "lock"
        /\ vd.mutex = Nobody
        /\ IF idx = <<-1>> THEN vd' = [vd EXCEPT !.panic = TRUE] /\ UNCHANGED drv
           ELSE /\ vd' = [vd EXCEPT !.mutex = holder,
                     !.free = @ \ {idx[1], idx[2], idx[3]},
                     !.desc = [@ EXCEPT ![idx[1]] = [next |-> idx[2], rw |-> r.rw, b |-> r.b],
                                        ![idx[2]] = [next |-> idx[3], rw |-> r.rw, b |-> r.b],
                                        ![idx[3]] = [next |-> -1, rw |-> "status", b |-> idx[1]]],
                     !.status[idx[1]] = 255,
                     !.avail[vd.avail_idx % NUM] = idx[1],
                     !.avail_idx = Next_(@)]
                /\ drv' = [drv EXCEPT ![c].pc = "sleep", ![c].head = idx[1]]
        /\ UNCHANGED <<page, media>>

\* Mutant: virtio_disk_rw lets go of the mutex before it sleeps.
virtio_disk_rw_unlocked(c) == submit(c, Nobody)

\* virtio_disk_rw: the caller sleeps with the mutex.
virtio_disk_rw(c) == submit(c, c)

\* The device: it takes the next chain of the avail ring, transfers the page, sets the
\* status byte, appends the chain to the used ring and raises the interrupt.
device ==
    LET i == vd.avail[vd.seen % NUM]
        data == vd.desc[vd.desc[i].next]
    IN  /\ vd.seen # vd.avail_idx
        /\ page' = IF data.rw = "read" THEN [page EXCEPT ![data.b] = media[data.b]] ELSE page
        /\ media' = IF data.rw = "write" THEN [media EXCEPT ![data.b] = page[data.b]] ELSE media
        /\ vd' = [vd EXCEPT !.seen = Next_(@), !.status[i] = 0,
                     !.used[vd.dev_idx % NUM] = i, !.dev_idx = Next_(@), !.irq = TRUE]
        /\ UNCHANGED drv

\* virtio_disk_intr: one wake_up for every new entry of the used ring.
virtio_disk_intr ==
    /\ vd.irq
    /\ LET new == {k \in 0 .. IdxRange - 1 :
                      (k - vd.used_idx + IdxRange) % IdxRange
                         < (vd.dev_idx - vd.used_idx + IdxRange) % IdxRange}
       IN  vd' = [vd EXCEPT !.irq = FALSE, !.used_idx = vd.dev_idx,
                     !.intr = @ + Cardinality(new),
                     !.panic = @ \/ \E k \in new : vd.status[vd.used[k % NUM]] # 0]
    /\ UNCHANGED <<page, media, drv>>

\* virtio_disk_rw from the wake-up on: free_chain, the mutex.  A caller whose call is
\* over goes on in BlockIO.
virtio_disk_wake(c) ==
    LET chain == Chain(drv[c].head)
    IN  /\ drv[c].pc = "sleep"
        /\ vd.intr > 0
        /\ vd' = [vd EXCEPT !.intr = @ - 1, !.mutex = Nobody,
                     !.free = @ \cup chain,
                     !.desc = [i \in Desc |-> IF i \in chain THEN Unused ELSE @[i]],
                     !.panic = @ \/ chain \cap vd.free # {}]
        /\ drv' = [drv EXCEPT ![c] = Done]
        /\ UNCHANGED <<page, media>>

VirtioStep ==
    \/ device
    \/ virtio_disk_intr
    \/ \E c \in Caller : virtio_disk_rw(c) \/ virtio_disk_wake(c)

----------------------------------------------------------------------------
\* A caller is woken for its own transfer, and only when that is over: at most one
\* chain is with the device, every other descriptor is free (so alloc3_desc, whose
\* result nobody looks at, never fails), and none of the driver's panics is reached,
\* also when the ring indices wrap around.
DescExact ==
    /\ ~vd.panic
    /\ Desc \ vd.free = UNION {Chain(drv[c].head) : c \in {d \in Caller : drv[d].pc = "sleep"}}
    /\ \A c \in Caller : drv[c].pc = "sleep" /\ vd.intr > 0 =>
                         /\ vd.seen = vd.avail_idx /\ vd.used_idx = vd.dev_idx
                         /\ page[drv[c].b] = media[drv[c].b]
===============================================================================
