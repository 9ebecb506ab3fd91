-------------------------------- MODULE BlockIO --------------------------------
(***************************************************************************)
(* The block layer, kernel/dev/blk: requests of several threads (request.c,*)
(* bio.c), the I/O thread that serves them from the buffer cache           *)
(* (gendisk.c, buf.c), and the thread that writes dirty buffers back       *)
(* (flush.c), over the virtio disk.  Buffers are never freed, and only the *)
(* I/O thread looks them up, so a block's buffer and page are named after  *)
(* the block.  A block has BLK_SIZE cells.                                 *)
(*                                                                         *)
(* Semaphores and sleep locks are those of Semaphore and Mutex: a wait is  *)
(* the condition of the step behind it.                                    *)
(***************************************************************************)
EXTENDS VirtioDisk, SequencesExt

CONSTANTS
    Reader,     \* threads that read and write the disk
    BLK_SIZE,   \* cells of a block
    Junk,       \* what a page holds before it is used
    Range_,     \* the (blockno, offset, len) that are asked for
    MaxRequests \* bound: requests made

ASSUME BlockIOAssumption ==
    /\ Caller = {"io", "flush"}
    /\ BLK_SIZE \in Nat \ {0}
    /\ Block = 0 .. Cardinality(Block) - 1

Head_ == -1                \* the list head among the list nodes
Node == Block \cup {Head_}

VARIABLES
    rq,         \* thread |-> its struct request and where it is in gen_read, gen_write
    rq_list,    \* the requests queued, as threads
    sem,        \* gd->queue.sem
    io,         \* the I/O thread, and the thread whose request it serves
    flush,      \* the flush thread, and the buffer it writes back
    buf,        \* block |-> its buf_head: "none", "new" (BH_New) or "used"
    pin,        \* block |-> who holds the buffer's sleep lock
    dirty,      \* the dirty list: the links of its head and of every buffer
    dropped,    \* changed buffers that fell off the dirty list
    raced,      \* the flush thread unlinked a buffer that was dirty again
    overtaken,  \* a request was completed before rq_clear_complete
    made        \* requests so far

qvars == <<rq_list, sem>>
cachevars == <<buf, pin, dirty, dropped, raced>>
bkvars == <<rq, qvars, io, flush, cachevars, overtaken, made, vdvars>>

NoRq == [pc |-> "idle", rw |-> "none", v |-> 0, bios |-> <<>>, vaddr |-> 0, end |-> 0,
         out |-> <<>>, completed |-> FALSE, slock |-> 0, hold |-> FALSE]

\* gendisk_init: rq_queue_init, bhash_init, the two threads.
BlockIOInit ==
    /\ VirtioInit
    /\ media = [b \in Block |-> [k \in 0 .. BLK_SIZE - 1 |-> 0]]
    /\ page = [b \in Block |-> [k \in 0 .. BLK_SIZE - 1 |-> Junk]]
    /\ rq = [t \in Reader |-> NoRq] /\ rq_list = <<>> /\ sem = 0
    /\ io = [pc |-> "idle", t |-> Nobody]
    /\ flush = [pc |-> "asleep", b |-> Head_]
    /\ buf = [b \in Block |-> "none"] /\ pin = [b \in Block |-> Nobody]
    /\ dirty = [next |-> [n \in Node |-> n], prev |-> [n \in Node |-> n]]
    /\ dropped = {} /\ raced = FALSE /\ overtaken = FALSE /\ made = 0

----------------------------------------------------------------------------
\* Mutant: the block behind a request that ends at the end of a block is taken along.
bio_list_make_long(blockno, offset, len) ==
    LET off == offset % BLK_SIZE
        first == blockno + (offset \div BLK_SIZE)
        count == ((off + len) \div BLK_SIZE) + 1
    IN  [k \in 1 .. count |->
           [b |-> first + k - 1,
            offset |-> IF k = 1 THEN off ELSE 0,
            len |-> IF count = 1 THEN len
                    ELSE IF k = 1 THEN BLK_SIZE - off
                    ELSE IF k = count THEN ((off + len - 1) % BLK_SIZE) + 1
                    ELSE BLK_SIZE]]

\* bio_list_make: the parts of a request, one for each block, in order.
bio_list_make(blockno, offset, len) ==
    LET off == offset % BLK_SIZE
        first == blockno + (offset \div BLK_SIZE)
        count == ((off + len - 1) \div BLK_SIZE) + 1
    IN  [k \in 1 .. count |->
           [b |-> first + k - 1,
            offset |-> IF k = 1 THEN off ELSE 0,
            len |-> IF count = 1 THEN len
                    ELSE IF k = 1 THEN BLK_SIZE - off
                    ELSE IF k = count THEN ((off + len - 1) % BLK_SIZE) + 1
                    ELSE BLK_SIZE]]

\* make_request: the request is in the queue before gen_read and gen_write go on.
make_request(t, rw, r) ==
    LET at == r[1] * BLK_SIZE + r[2]
    IN  /\ rq[t].pc = "idle"
        /\ made < MaxRequests /\ made' = made + 1
        /\ rq' = [rq EXCEPT ![t] = [NoRq EXCEPT !.pc = "made", !.rw = rw, !.v = made + 1,
                     !.bios = bio_list_make(r[1], r[2], r[3]), !.vaddr = at,
                     !.end = at + r[3] - 1]]
        /\ rq_list' = Append(rq_list, t)
        /\ UNCHANGED <<sem, io, flush, cachevars, overtaken, vdvars>>

\* rq_clear_complete, sem_signal.
rq_clear_complete(t) ==
    /\ rq[t].pc = "made"
    /\ rq' = [rq EXCEPT ![t].pc = "test", ![t].completed = FALSE]
    /\ sem' = sem + 1
    /\ UNCHANGED <<rq_list, io, flush, cachevars, overtaken, made, vdvars>>

\* The loop behind it.  Under rq->lock, rq_test_complete: a completed request is freed.
\* Else sleep_on_rq: sleep_on, or the panic when the lock is the caller's already.
sleep_on_rq(t) ==
    /\ rq[t].pc = "test"
    /\ \/ /\ rq[t].completed
          /\ rq' = [rq EXCEPT ![t] = NoRq]
       \/ /\ ~rq[t].completed /\ rq[t].hold
          /\ rq' = [rq EXCEPT ![t].pc = "panic"]
       \/ /\ ~rq[t].completed /\ ~rq[t].hold /\ rq[t].slock > 0
          /\ rq' = [rq EXCEPT ![t].slock = @ - 1, ![t].hold = TRUE]
    /\ UNCHANGED <<qvars, io, flush, cachevars, overtaken, made, vdvars>>

----------------------------------------------------------------------------
\* lib/list.h on the dirty list.
list_del(l, e) ==
    LET p == l.prev[e]
        n == l.next[e]
    IN  [next |-> [l.next EXCEPT ![p] = n], prev |-> [l.prev EXCEPT ![n] = p]]
list_del_init(l, e) ==
    LET d == list_del(l, e)
    IN  [next |-> [d.next EXCEPT ![e] = e], prev |-> [d.prev EXCEPT ![e] = e]]
list_add_head(l, e) ==
    LET n == l.next[Head_]
    IN  [next |-> [l.next EXCEPT ![Head_] = e, ![e] = n],
         prev |-> [l.prev EXCEPT ![n] = e, ![e] = Head_]]
list_empty(l) == l.next[Head_] = Head_

\* The buffers that a walk along the list meets.
Listed(l) ==
    LET walk[k \in 0 .. Cardinality(Block)] == IF k = 0 THEN Head_ ELSE l.next[walk[k - 1]]
    IN  {walk[k] : k \in DOMAIN walk} \ {Head_}

Bio == Head(rq[io.t].bios)

\* The I/O thread: sem_wait, get_next_rq.
get_next_rq ==
    /\ io.pc = "idle"
    /\ sem > 0
    /\ sem' = sem - 1
    /\ io' = [pc |-> "get", t |-> Head(rq_list)]
    /\ rq_list' = Tail(rq_list)
    /\ UNCHANGED <<rq, flush, cachevars, overtaken, made, vdvars>>

\* A block that is not in memory is read, unless it will be overwritten as a whole.
MustRead(rw) ==
    /\ buf[Bio.b] # "used"
    /\ rw = "read" \/ ~(Bio.offset = 0 /\ Bio.len = BLK_SIZE)

\* buf_get (bhash_find, else buf_alloc and bhash_add), buf_pin, and ll_rw if the block
\* must be read.
buf_get ==
    /\ io.pc = "get"
    /\ pin[Bio.b] = Nobody
    /\ pin' = [pin EXCEPT ![Bio.b] = "io"]
    /\ buf' = [buf EXCEPT ![Bio.b] = IF @ = "none" THEN "new" ELSE @]
    /\ io' = [io EXCEPT !.pc = "copy"]
    /\ IF MustRead(rq[io.t].rw) THEN ll_rw("io", Bio.b, "read") ELSE UNCHANGED drv
    /\ UNCHANGED <<rq, qvars, flush, dirty, dropped, raced, overtaken, made, page, media, vd>>

\* Mutant: buf_release puts a buffer on the list only when that is empty.
buf_release_once(b, l) == IF list_empty(l) THEN list_add_head(l, b) ELSE l

\* buf_release of a dirty buffer: the list afterwards.
buf_release(b, l) == list_add_head(IF list_empty(l) THEN l ELSE list_del_init(l, b), b)

\* memcpy between buffer and vaddr, buf_release, buf_unpin; the next bio.
gen_start_io ==
    LET b == Bio.b
        cells == Bio.offset .. Bio.offset + Bio.len - 1
        r == rq[io.t]
    IN  /\ io.pc = "copy"
        /\ drv["io"].pc = "done"
        /\ page' = IF r.rw = "write"
                   THEN [page EXCEPT ![b] = [k \in DOMAIN @ |-> IF k \in cells THEN r.v ELSE @[k]]]
                   ELSE page
        /\ rq' = [rq EXCEPT ![io.t].bios = Tail(@), ![io.t].vaddr = @ + Bio.len,
                     ![io.t].out = IF r.rw = "read"
                                   THEN @ \o [k \in 1 .. Bio.len |-> page[b][Bio.offset + k - 1]]
                                   ELSE @]
        /\ buf' = [buf EXCEPT ![b] = "used"]
        /\ dirty' = IF r.rw = "write" THEN buf_release(b, dirty) ELSE dirty
        /\ dropped' = (dropped \cup (Listed(dirty) \ Listed(dirty'))) \ Listed(dirty')
        /\ pin' = [pin EXCEPT ![b] = Nobody]
        /\ io' = [io EXCEPT !.pc = IF rq'[io.t].bios = <<>> THEN "complete" ELSE "get"]
        /\ UNCHANGED <<qvars, flush, raced, overtaken, made, media, vd, drv>>

\* Mutant: the thread is woken, but the request is not marked completed.
rq_set_complete_unset ==
    /\ io.pc = "complete"
    /\ rq' = [rq EXCEPT ![io.t].completed = FALSE, ![io.t].slock = @ + 1, ![io.t].hold = FALSE]
    /\ overtaken' = (overtaken \/ rq[io.t].pc = "made")
    /\ io' = [pc |-> "idle", t |-> Nobody]
    /\ UNCHANGED <<qvars, flush, cachevars, made, vdvars>>

\* rq_set_complete and wake_up_rq, under rq->lock.
rq_set_complete ==
    /\ io.pc = "complete"
    /\ rq' = [rq EXCEPT ![io.t].completed = TRUE, ![io.t].slock = @ + 1, ![io.t].hold = FALSE]
    /\ overtaken' = (overtaken \/ rq[io.t].pc = "made")
    /\ io' = [pc |-> "idle", t |-> Nobody]
    /\ UNCHANGED <<qvars, flush, cachevars, made, vdvars>>

----------------------------------------------------------------------------
\* flush_bhash under bhash->lock: the buffer just written is unlinked, once more, and
\* the head of the list, if there is one, is taken off.
flush_bhash ==
    LET l == IF flush.pc = "relock" THEN list_del(dirty, flush.b) ELSE dirty
        b == l.next[Head_]
    IN  /\ flush.pc = "relock" \/ (flush.pc = "asleep" /\ ~list_empty(dirty))
        /\ dirty' = IF list_empty(l) THEN l ELSE list_del_init(l, b)
        /\ flush' = IF list_empty(l) THEN [pc |-> "asleep", b |-> Head_]
                    ELSE [pc |-> "pin", b |-> b]
        /\ raced' = (raced \/ (flush.pc = "relock" /\ flush.b \in Listed(dirty)))
        /\ dropped' = ((dropped \cup {d \in Listed(dirty) : page[d] # media[d]})
                      \ Listed(dirty')) \ {flush'.b}
        /\ UNCHANGED <<rq, qvars, io, buf, pin, overtaken, made, vdvars>>

\* buf_pin, ll_rw ...
flush_pin ==
    /\ flush.pc = "pin"
    /\ pin[flush.b] = Nobody
    /\ pin' = [pin EXCEPT ![flush.b] = "flush"]
    /\ ll_rw("flush", flush.b, "write")
    /\ flush' = [flush EXCEPT !.pc = "write"]
    /\ UNCHANGED <<rq, qvars, io, buf, dirty, dropped, raced, overtaken, made, page, media, vd>>

\* ... buf_unpin.
flush_unpin ==
    /\ flush.pc = "write"
    /\ drv["flush"].pc = "done"
    /\ pin' = [pin EXCEPT ![flush.b] = Nobody]
    /\ flush' = [flush EXCEPT !.pc = "relock"]
    /\ UNCHANGED <<rq, qvars, io, buf, dirty, dropped, raced, overtaken, made, vdvars>>

vdstep(A) == A /\ UNCHANGED <<rq, qvars, io, flush, cachevars, overtaken, made>>

IOStep == get_next_rq \/ buf_get \/ gen_start_io \/ rq_set_complete
FlushStep == flush_bhash \/ flush_pin \/ flush_unpin
RqStep(t) == rq_clear_complete(t) \/ sleep_on_rq(t)
Running == \A t \in Reader : rq[t].pc # "panic"

BlockIONext ==
    /\ Running
    /\ \/ IOStep \/ FlushStep \/ vdstep(VirtioStep)
       \/ \E t \in Reader :
             \/ RqStep(t)
             \/ \E r \in Range_, rw \in {"read", "write"} : make_request(t, rw, r)

\* Threads that can run do so, and the device answers.  The I/O thread gets the disk's
\* mutex and a buffer's lock although the flush thread takes them again and again:
\* their waiters are served in turn (Mutex: MutexGranted).
BlockIOFair ==
    /\ WF_bkvars(Running /\ vdstep(device))
    /\ WF_bkvars(Running /\ vdstep(virtio_disk_intr))
    /\ \A c \in Caller : WF_bkvars(Running /\ vdstep(virtio_disk_wake(c)))
    /\ SF_bkvars(Running /\ vdstep(virtio_disk_rw("io")))
    /\ WF_bkvars(Running /\ vdstep(virtio_disk_rw("flush")))
    /\ SF_bkvars(Running /\ buf_get)
    /\ WF_bkvars(Running /\ IOStep)
    /\ WF_bkvars(Running /\ FlushStep)
    /\ \A t \in Reader : WF_bkvars(Running /\ RqStep(t))

BlockIOSpec == BlockIOInit /\ [][BlockIONext]_bkvars /\ BlockIOFair

----------------------------------------------------------------------------
\* Every request writes a value of its own.
Value == 0 .. MaxRequests
Cell == 0 .. Cardinality(Block) * BLK_SIZE - 1

\* A cell as a client sees it: in the buffer, once that has been filled.
StoreMap == [k \in Cell |-> LET b == k \div BLK_SIZE
                            IN  IF buf[b] = "used" THEN page[b][k % BLK_SIZE]
                                ELSE media[b][k % BLK_SIZE]]
CallMap == [t \in Reader |->
              [op |-> rq[t].rw, pos |-> rq[t].vaddr, end |-> rq[t].end, v |-> rq[t].v,
               out |-> rq[t].out]]

Abs == INSTANCE AbsDisk WITH Client <- Reader, BlkSize <- BLK_SIZE, store <- StoreMap,
                             call <- CallMap

\* Cache, write-back and driver together are an array of cells: every read returns
\* what was last written, whether the block was in memory, new, partly overwritten or
\* being written back, and gen_read and gen_write return only when that is done.
ImplementsDisk == Abs!Spec

\* A buffer that differs from the disk is on the dirty list or with the flush thread,
\* until a buffer gets dirty again between flush_bhash's buf_unpin and list_del: then
\* it, and buffers linked next to it later on, are lost to write-back.
WriteBack ==
    /\ dropped # {} => raced
    /\ \A b \in Block : buf[b] = "used" /\ page[b] # media[b] =>
          b \in Listed(dirty) \cup dropped \/ (flush.b = b /\ flush.pc \in {"pin", "write"})

\* Every request is completed and its thread returns, except that a request which the
\* I/O thread served before rq_clear_complete never does (sleep_on_rq panics).
RequestServed ==
    \A t \in Reader : rq[t].pc # "idle" ~> (rq[t].pc = "idle" \/ overtaken)
===============================================================================
