-------------------------------- MODULE EasyFS --------------------------------
(***************************************************************************)
(* The file system, fs/easyfs: inode cache (inode.c), one directory of     *)
(* cached entries (dentry.c), bitmaps and the write-back thread efs_sync   *)
(* (super.c), over a disk that keeps what is written to it (BlockIO).      *)
(*                                                                         *)
(* Files are measured in blocks.  A step is what a thread does between two *)
(* places where it may sleep or where it gives up the superblock's lock.   *)
(* Bitmap models bitmap_alloc, which finds the lowest free number.         *)
(***************************************************************************)
EXTENDS Integers, Sequences, FiniteSets, FiniteSetsExt, SequencesExt

CONSTANTS
    EThr,       \* threads that call the file system
    Name,       \* file names
    MaxIno,     \* the inode numbers are 1 .. MaxIno; 1 is the directory's
    NBlk,       \* the data blocks are 1 .. NBlk
    NDIRECT,    \* direct blocks of an inode
    NINDIRECT,  \* block numbers in an indirect block
    MaxCalls    \* bound: calls of open, write, unlink, creat and rename

ASSUME EasyFSAssumption ==
    /\ MaxIno \in Nat \ {0, 1}
    /\ {NBlk, NDIRECT, NINDIRECT} \subseteq Nat \ {0}
    /\ MaxCalls \in Nat

MAXFILE == NDIRECT + NINDIRECT
Data == <<"data">>   \* what a block of a file holds
Zeros(n) == [i \in 1 .. n |-> 0]
SeqSet(s) == {s[i] : i \in DOMAIN s} \ {0}

VARIABLES
    inode,      \* easy_m_inode objects, oldest first; 1 is root_m_inode
    dent,       \* easy_dentry objects, oldest first
    d_child,    \* the directory's entries that are linked, as indices of dent
    imap, bmap, \* the bitmaps: inode and block numbers in use
    s_dirty,    \* S_DIRTY
    s_idirty,   \* s_idirty_list, head first
    d_dirty,    \* the directory is in s_ddirty_list
    thr,        \* thread |-> what it is doing
    sync,       \* what efs_sync is doing
    disk,       \* what is on disk
    leaked,     \* blocks of deleted files that stayed marked
    unsaved,    \* what lost its dirty mark: superblock, directory or inodes
    spoiled,    \* inode numbers and blocks that a deleted inode was written over
    calls,      \* calls so far
    fault       \* the race that broke the file system, or "none"

efsvars == <<inode, dent, d_child, imap, bmap, s_dirty, s_idirty, d_dirty, thr, sync, disk,
             leaked, unsaved, spoiled, calls, fault>>

Idle_ == [op |-> "idle"]
At(op, o) == [op |-> op, o |-> o]

\* i_slock of an inode is held between two steps only while efs_i_get reads it in.
Slock(o) == \E t \in EThr : thr[t].op = "fill" /\ thr[t].o = o
\* d_slock of the directory: efs_d_creat, or efs_d_update called by efs_sync.
Dslock == sync.op = "entry" \/ \E t \in EThr : thr[t].op = "conn"

\* hash_find: the newest object with the number, 0 when there is none.
ihash(ino) == Max({0} \cup {o \in DOMAIN inode : inode[o].i_no = ino})
Lookup(name) == {d \in SeqSet(d_child) : dent[d].name = name}

\* The part of an inode that is on disk.
i_di(i) == [size |-> i.size, addrs |-> i.addrs, nlink |-> i.nlink]

\* efs_i_sdirty
efs_i_sdirty(list, o) == IF o \in SeqSet(list) THEN list ELSE <<o>> \o list

called == calls < MaxCalls /\ calls' = calls + 1

\* A change of a bitmap that efs_sync has written already, but not yet cleared
\* S_DIRTY for.
Missed(changed) == IF changed /\ sync.op = "clear" THEN {<<"sb", 0>>} ELSE {}

----------------------------------------------------------------------------
\* A disk as mkfs leaves it, with the named files; the first one has n blocks.
Formatted(n, names) ==
    LET a == [i \in 1 .. NDIRECT + 1 |-> IF i <= n THEN i ELSE 0]
        k == n - NDIRECT
        tab == [i \in 1 .. NINDIRECT |-> IF i <= k THEN NDIRECT + 1 + i ELSE 0]
        used == SeqSet(a) \cup IF k > 0 THEN SeqSet(tab) ELSE {}
        empty(size, nlink) == [size |-> size, addrs |-> Zeros(NDIRECT + 1), nlink |-> nlink]
    IN  [ino |-> [i \in 1 .. MaxIno |->
                    IF i = 1 THEN empty(Len(names), 1)
                    ELSE IF i = 2 THEN [size |-> n, addrs |-> a, nlink |-> 1]
                    ELSE empty(0, IF i <= Len(names) + 1 THEN 1 ELSE 0)],
         blk |-> [b \in 1 .. NBlk |->
                    IF k > 0 /\ b = NDIRECT + 1 THEN tab
                    ELSE IF b \in used THEN Data ELSE Zeros(NINDIRECT)],
         imap |-> 1 .. Len(names) + 1,
         bmap |-> used,
         dir |-> [i \in DOMAIN names |-> [name |-> names[i], ino |-> i + 1]]]

\* A new inode object and a new entry object; nothing else refers to them yet.
efs_i_alloc(ino) == [i_no |-> ino, size |-> 0, addrs |-> Zeros(NDIRECT + 1), nlink |-> 1,
                     indir |-> <<>>, ref |-> 0, valid |-> FALSE]
efs_d_alloc(name, ino) == [name |-> name, ino |-> ino, d_inode |-> 0]

efs_sb_fill ==
    /\ imap = disk.imap /\ bmap = disk.bmap
    /\ s_dirty = FALSE /\ s_idirty = <<>> /\ d_dirty = FALSE

efs_i_root_init ==
    inode = <<[efs_i_alloc(1) EXCEPT !.size = Len(disk.dir), !.ref = 1, !.valid = TRUE]>>

\* efs_d_root_init, efs_d_fill: the entries of the root directory are read in.
efs_d_fill ==
    /\ dent = [i \in DOMAIN disk.dir |-> efs_d_alloc(disk.dir[i].name, disk.dir[i].ino)]
    /\ d_child = [i \in DOMAIN dent |-> i]

\* efs_mount of a disk, while efs_sync sleeps.
EasyFSInit ==
    /\ \E n \in {0, MAXFILE - 1}, names \in {<<a>> : a \in Name} \cup
             {<<a[1], a[2]>> : a \in {p \in Name \X Name : p[1] # p[2]}} :
          disk = Formatted(n, names)
    /\ efs_sb_fill /\ efs_i_root_init /\ efs_d_fill
    /\ thr = [t \in EThr |-> Idle_]
    /\ sync = [op |-> "idle"]
    /\ leaked = {} /\ unsaved = {} /\ spoiled = {} /\ calls = 0
    /\ fault = "none"

\* efs_d_named: the first entry of a name, for open and for unlink.
efs_d_named(t, name, why) ==
    /\ thr[t] = Idle_
    /\ called
    /\ ~Dslock
    /\ Lookup(name) # {}
    /\ thr' = [thr EXCEPT ![t] = [op |-> "get", why |-> why,
                 d |-> d_child[Min({k \in DOMAIN d_child : dent[d_child[k]].name = name})]]]
    /\ UNCHANGED <<inode, dent, d_child, imap, bmap, s_dirty, s_idirty, d_dirty, sync, disk,
                   leaked, unsaved, spoiled, fault>>

\* A thread that has the inode of its entry: efs_d_namei (open) and efs_d_rename keep a
\* reference, efs_d_unlink puts it again.  A reference to an inode that is being deleted
\* is the race between efs_i_unlink's test of i_refcnt and what follows.
Ref(t) == IF thr[t].why = <<"unlink">> THEN 0 ELSE 1
Got(t, o) ==
    /\ thr' = [thr EXCEPT ![t] = IF @.why = <<"open">> THEN At("open", o)
                                 ELSE [op |-> @.why[1], o |-> o, d |-> @.d, why |-> @.why]]
    /\ dent' = [dent EXCEPT ![thr[t].d].d_inode = o]
    /\ fault' = IF Ref(t) = 1 /\ inode[o].nlink <= 0 THEN "late open" ELSE fault

\* efs_i_dup of d_inode, or efs_i_get: an object found in the hash table is taken
\* when it is valid or its i_slock is free; a missing one is made, i_slock held.
efs_i_get(t) ==
    /\ thr[t].op = "get"
    /\ LET d == dent[thr[t].d]
           o == IF d.d_inode # 0 THEN d.d_inode ELSE ihash(d.ino)
       IN  IF o # 0
           THEN /\ d.d_inode # 0 \/ inode[o].valid \/ ~Slock(o)
                /\ inode' = [inode EXCEPT ![o].ref = @ + Ref(t)]
                /\ Got(t, o)
           ELSE /\ inode' = Append(inode, efs_i_alloc(d.ino))
                /\ thr' = [thr EXCEPT ![t] = [op |-> "fill", o |-> Len(inode) + 1,
                                              d |-> @.d, why |-> @.why]]
                /\ UNCHANGED <<dent, fault>>
    /\ UNCHANGED <<d_child, imap, bmap, s_dirty, s_idirty, d_dirty, sync, disk, leaked, unsaved,
                   spoiled>>

\* ... efs_i_fill, I_VALID, wake_up.
efs_i_fill(t) ==
    /\ thr[t].op = "fill"
    /\ LET o == thr[t].o
           di == disk.ino[inode[o].i_no]
       IN  /\ inode' = [inode EXCEPT ![o].size = di.size, ![o].addrs = di.addrs,
                 ![o].nlink = di.nlink, ![o].valid = TRUE,
                 ![o].ref = @ + Ref(t)]
           /\ Got(t, o)
    /\ UNCHANGED <<d_child, imap, bmap, s_dirty, s_idirty, d_dirty, sync, disk, leaked, unsaved,
                   spoiled>>

\* file_close of an open file: efs_i_put.
efs_i_put(t) ==
    /\ thr[t].op = "open"
    /\ inode' = [inode EXCEPT ![thr[t].o].ref = @ - 1]
    /\ thr' = [thr EXCEPT ![t] = Idle_]
    /\ UNCHANGED <<dent, d_child, imap, bmap, s_dirty, s_idirty, d_dirty, sync, disk, leaked,
                   unsaved, spoiled, fault>>

\* efs_i_bmap of block n of inode i with the block map bm: the inode and the map
\* afterwards, and the block, 0 when there is none.  ok is false when the indirect
\* block just taken holds what a deleted file left there.
efs_i_bmap(i, bm, n, alloc) ==
    LET take(used) == Min((1 .. NBlk) \ used)
    IN  IF n < NDIRECT
        THEN LET b == IF i.addrs[n + 1] = 0 /\ alloc THEN take(bm) ELSE i.addrs[n + 1]
             IN  [i |-> [i EXCEPT !.addrs[n + 1] = b], bm |-> bm \cup ({b} \ {0}), b |-> b,
                  ok |-> TRUE]
        ELSE LET root == IF i.addrs[NDIRECT + 1] = 0 /\ alloc THEN take(bm)
                         ELSE i.addrs[NDIRECT + 1]
                 bm1 == bm \cup ({root} \ {0})
                 tab == IF i.indir # <<>> THEN i.indir ELSE disk.blk[root]
                 k == n - NDIRECT + 1
             IN  IF root = 0 THEN [i |-> i, bm |-> bm, b |-> 0, ok |-> TRUE]
                 ELSE IF i.addrs[NDIRECT + 1] = 0 /\ tab # Zeros(NINDIRECT)
                 THEN [i |-> i, bm |-> bm1, b |-> 0, ok |-> FALSE]
                 ELSE LET b == IF tab[k] = 0 /\ alloc THEN take(bm1) ELSE tab[k]
                      IN  [i |-> [i EXCEPT !.addrs[NDIRECT + 1] = root,
                                           !.indir = [tab EXCEPT ![k] = b]],
                           bm |-> bm1 \cup ({b} \ {0}), b |-> b, ok |-> TRUE]

\* efs_i_write of the blocks m .. n, which begin inside the size or next behind it;
\* a file never gets MAXFILE blocks.
efs_i_write(t, m, n) ==
    LET o == thr[t].o
        next(r, k) == IF r.ok THEN LET q == efs_i_bmap(r.i, r.bm, k, TRUE)
                                   IN  [i |-> q.i, bm |-> q.bm, ok |-> q.ok, bs |-> r.bs \cup {q.b}]
                      ELSE r
        r == FoldLeft(next, [i |-> inode[o], bm |-> bmap, ok |-> TRUE, bs |-> {}],
                      [k \in 1 .. n - m + 1 |-> m + k - 1])
    IN  /\ thr[t].op = "open"
        /\ called
        /\ m <= inode[o].size /\ n + 1 < MAXFILE
        /\ ~Slock(o)
        /\ Cardinality(bmap) + MAXFILE <= NBlk
        /\ inode' = [inode EXCEPT ![o] = [r.i EXCEPT !.size = Max({@, n + 1})]]
        /\ bmap' = r.bm
        /\ s_dirty' = (s_dirty \/ r.bm # bmap)
        /\ disk' = [disk EXCEPT !.blk = [b \in DOMAIN @ |-> IF b \in r.bs THEN Data ELSE @[b]]]
        /\ s_idirty' = efs_i_sdirty(s_idirty, o)
        /\ fault' = IF r.ok THEN fault ELSE "stale indirect block"
        /\ unsaved' = unsaved \cup Missed(r.bm # bmap)
        /\ spoiled' = {s \in spoiled : ~(s[1] = "blk" /\ s[2] \in r.bs)}
        /\ UNCHANGED <<dent, d_child, imap, d_dirty, thr, sync, leaked>>

\* efs_i_read of block n: the indirect block is read in.
efs_i_read(t, n) ==
    LET o == thr[t].o
        r == efs_i_bmap(inode[o], bmap, n, FALSE)
    IN  /\ thr[t].op = "open"
        /\ n < inode[o].size
        /\ ~Slock(o)
        /\ inode' = [inode EXCEPT ![o] = r.i]
        /\ inode' # inode
        /\ UNCHANGED <<dent, d_child, imap, bmap, s_dirty, s_idirty, d_dirty, thr, sync, disk,
                       leaked, unsaved, spoiled, fault>>

\* efs_i_new: efs_imap_alloc, and a dirty inode that is in the hash table.
efs_i_new(ino) ==
    /\ imap' = imap \cup {ino}
    /\ s_dirty' = TRUE
    /\ inode' = Append(inode, efs_i_alloc(ino))
    /\ s_idirty' = efs_i_sdirty(s_idirty, Len(inode) + 1)
    /\ unsaved' = unsaved \cup Missed(TRUE)

\* efs_d_creat: efs_d_name_check, efs_i_new ...
efs_d_creat(t, name) ==
    LET ino == Min((1 .. MaxIno) \ imap)
    IN  /\ thr[t] = Idle_
        /\ ~Dslock
        /\ Lookup(name) = {}
        /\ imap # 1 .. MaxIno
        /\ called
        /\ efs_i_new(ino)
        /\ dent' = Append(dent, efs_d_alloc(name, ino))
        /\ thr' = [thr EXCEPT ![t] = At("conn", Len(dent) + 1)]
        /\ UNCHANGED <<d_child, bmap, d_dirty, sync, disk, leaked, spoiled, fault>>

\* ... efs_i_type, efs_d_conn; the directory grows and is dirty.
efs_d_conn(t) ==
    /\ thr[t].op = "conn"
    /\ d_child' = Append(d_child, thr[t].o)
    /\ inode' = [inode EXCEPT ![1].size = @ + 1]
    /\ s_idirty' = efs_i_sdirty(s_idirty, ihash(dent[thr[t].o].ino))
    /\ d_dirty' = TRUE
    /\ thr' = [thr EXCEPT ![t] = Idle_]
    /\ UNCHANGED <<dent, imap, bmap, s_dirty, sync, disk, leaked, unsaved, spoiled, fault>>

\* efs_d_rename: efs_d_name_check of the new name, without d_slock, and the inode as for
\* open; ...
efs_d_rename(t, d, name) ==
    /\ thr[t] = Idle_
    /\ called
    /\ d \in SeqSet(d_child)
    /\ Lookup(name) = {}
    /\ thr' = [thr EXCEPT ![t] = [op |-> "get", why |-> <<"rename", name>>, d |-> d]]
    /\ UNCHANGED <<inode, dent, d_child, imap, bmap, s_dirty, s_idirty, d_dirty, sync, disk,
                   leaked, unsaved, spoiled, fault>>

\* ... the name changes, nothing is marked dirty, and the inode is put.
rename_entry(t) ==
    /\ thr[t].op = "rename"
    /\ dent' = [dent EXCEPT ![thr[t].d].name = thr[t].why[2]]
    /\ inode' = [inode EXCEPT ![thr[t].o].ref = @ - 1]
    /\ unsaved' = unsaved \cup {<<"dir", 0>>}
    /\ thr' = [thr EXCEPT ![t] = Idle_]
    /\ UNCHANGED <<d_child, imap, bmap, s_dirty, s_idirty, d_dirty, sync, disk, leaked, spoiled,
                   fault>>

\* efs_i_unlink: i_nlink is decremented; an inode in use gets it back and stays.
\* A second unlink of the entry goes on to remove it once more.
efs_i_unlink(t) ==
    LET o == thr[t].o
    IN  /\ thr[t].op = "unlink"
        /\ IF inode[o].nlink = 1 /\ inode[o].ref > 0
           THEN thr' = [thr EXCEPT ![t] = Idle_] /\ UNCHANGED <<inode, fault>>
           ELSE /\ inode' = [inode EXCEPT ![o].nlink = @ - 1]
                /\ thr' = [thr EXCEPT ![t].op = IF inode[o].nlink = 1 THEN "trunc" ELSE "del"]
                /\ fault' = IF inode[o].nlink = 1 THEN fault ELSE "two unlinks"
        /\ UNCHANGED <<dent, d_child, imap, bmap, s_dirty, s_idirty, d_dirty, sync, disk, leaked,
                       unsaved, spoiled>>

\* The blocks that efs_i_data_free frees: up to the first 0, and those of the
\* indirect block only if that was read in.
Prefix(s) == LET z == {i \in DOMAIN s : s[i] = 0}
             IN  SeqSet(IF z = {} THEN s ELSE SubSeq(s, 1, Min(z) - 1))
Blocks(i) == SeqSet(i.addrs) \cup
                IF i.indir # <<>> THEN SeqSet(i.indir)
                ELSE IF i.addrs[NDIRECT + 1] # 0 /\ disk.blk[i.addrs[NDIRECT + 1]] # Data
                THEN SeqSet(disk.blk[i.addrs[NDIRECT + 1]]) ELSE {}

\* Mutant: efs_i_data_free forgets the indirect block.
efs_i_data_free_direct(i) == Prefix(SubSeq(i.addrs, 1, NDIRECT)) \cup Prefix(i.indir)

efs_i_data_free(i) == Prefix(i.addrs) \cup Prefix(i.indir)

\* efs_i_trunc: the blocks are freed, their numbers stay in the inode ...
efs_i_trunc(t) ==
    LET o == thr[t].o
        freed == efs_i_data_free(inode[o])
    IN  /\ thr[t].op = "trunc"
        /\ ~Slock(o)
        /\ bmap' = bmap \ freed
        /\ fault' = IF freed \subseteq bmap THEN fault ELSE "efs_bmap_free panics"
        /\ leaked' = leaked \cup (Blocks(inode[o]) \ (SeqSet(inode[o].addrs) \cup freed))
        /\ s_dirty' = (s_dirty \/ freed # {})
        /\ unsaved' = unsaved \cup Missed(freed # {})
        /\ thr' = [thr EXCEPT ![t].op = "size"]
        /\ UNCHANGED <<inode, dent, d_child, imap, s_idirty, d_dirty, sync, disk, spoiled>>

\* ... the size is 0 and the inode dirty; efs_imap_free.
efs_imap_free(t) ==
    LET o == thr[t].o
        ino == inode[o].i_no
    IN  /\ thr[t].op = "size"
        /\ inode' = [inode EXCEPT ![o].size = 0]
        /\ s_idirty' = efs_i_sdirty(s_idirty, o)
        /\ imap' = imap \ {ino}
        /\ fault' = IF ino \in imap THEN fault ELSE "efs_imap_free panics"
        /\ s_dirty' = TRUE
        /\ unsaved' = unsaved \cup Missed(TRUE)
        /\ thr' = [thr EXCEPT ![t].op = "del"]
        /\ UNCHANGED <<dent, d_child, bmap, d_dirty, sync, disk, leaked, spoiled>>

\* Mutant: efs_d_unlink does not mark the directory.
efs_d_unlink_clean(t) ==
    /\ thr[t].op = "del"
    /\ d_child' = SelectSeq(d_child, LAMBDA d : d # thr[t].d)
    /\ inode' = [inode EXCEPT ![1].size = @ - 1]
    /\ thr' = [thr EXCEPT ![t] = Idle_]
    /\ UNCHANGED <<dent, imap, bmap, s_dirty, s_idirty, d_dirty, sync, disk, leaked, unsaved,
                   spoiled, fault>>

\* The rest of efs_d_unlink: the entry leaves the list, without d_slock, and the
\* directory shrinks and is dirty.
efs_d_unlink(t) ==
    /\ thr[t].op = "del"
    /\ d_child' = SelectSeq(d_child, LAMBDA d : d # thr[t].d)
    /\ inode' = [inode EXCEPT ![1].size = @ - 1]
    /\ d_dirty' = TRUE
    /\ fault' = IF sync.op = "entry" /\ sync.o = thr[t].d THEN "efs_sync loops" ELSE fault
    /\ thr' = [thr EXCEPT ![t] = Idle_]
    /\ UNCHANGED <<dent, imap, bmap, s_dirty, s_idirty, sync, disk, leaked, unsaved, spoiled>>

----------------------------------------------------------------------------
SyncOnly == UNCHANGED <<inode, dent, d_child, imap, bmap, thr, leaked, fault>>

\* efs_sync wakes up: if S_DIRTY is set, superblock and bitmaps are written without
\* the lock, then the flag is cleared.
efs_sync_sb ==
    /\ \/ /\ sync.op = "idle"
          /\ s_dirty \/ s_idirty # <<>> \/ d_dirty
          /\ sync' = [op |-> IF s_dirty THEN "maps" ELSE "inodes"]
          /\ unsaved' = IF s_dirty THEN unsaved \ {<<"sb", 0>>} ELSE unsaved
          /\ UNCHANGED <<disk, s_dirty>>
       \/ /\ sync.op = "maps"
          /\ disk' = [disk EXCEPT !.imap = imap, !.bmap = bmap]
          /\ sync' = [op |-> "clear"]
          /\ UNCHANGED <<s_dirty, unsaved>>
       \/ /\ sync.op = "clear"
          /\ s_dirty' = FALSE
          /\ sync' = [op |-> "inodes"]
          /\ UNCHANGED <<disk, unsaved>>
    /\ SyncOnly
    /\ UNCHANGED <<s_idirty, d_dirty, spoiled>>

\* The head of the list of dirty inodes is taken off; after the last one comes the
\* directory, after that efs_sync sleeps.
efs_sync_pop ==
    /\ \/ /\ sync.op = "inodes"
          /\ sync' = IF s_idirty # <<>> THEN At("update", Head(s_idirty)) ELSE [op |-> "dir"]
          /\ s_idirty' = IF s_idirty # <<>> THEN Tail(s_idirty) ELSE s_idirty
          /\ UNCHANGED <<d_dirty, unsaved>>
       \/ /\ sync.op = "dir"
          /\ ~d_dirty
          /\ sync' = [op |-> "idle"]
          /\ UNCHANGED <<s_idirty, d_dirty, unsaved>>
       \/ /\ sync.op = "dir"
          /\ d_dirty
          /\ \A t \in EThr : thr[t].op # "conn"
          /\ sync' = IF d_child = <<>> THEN [op |-> "dcdirty"]
                     ELSE [op |-> "entry", o |-> d_child[1], off |-> 1]
          /\ d_dirty' = FALSE
          /\ unsaved' = unsaved \ {<<"dir", 0>>}
          /\ UNCHANGED s_idirty
    /\ SyncOnly
    /\ UNCHANGED <<s_dirty, disk, spoiled>>

\* efs_i_update under i_slock: the inode and, if it was read in, its indirect block.
\* A deleted inode is written as well, over whatever has taken its place.
efs_i_update ==
    LET i == inode[sync.o]
        a == i.addrs[NDIRECT + 1]
    IN  /\ sync.op = "update"
        /\ ~Slock(sync.o)
        /\ disk' = [disk EXCEPT !.ino[i.i_no] = i_di(i),
                       !.blk = IF i.indir # <<>> THEN [@ EXCEPT ![a] = i.indir] ELSE @]
        /\ spoiled' = (spoiled \ {<<"ino", i.i_no>>})
              \cup (IF ihash(i.i_no) # sync.o THEN {<<"ino", i.i_no>>} ELSE {})
              \cup (IF i.nlink <= 0 /\ i.indir # <<>> /\ a \in bmap THEN {<<"blk", a>>} ELSE {})
        /\ sync' = At("cdirty", sync.o)
        /\ unsaved' = unsaved \ {<<"ino", sync.o>>}
        /\ SyncOnly
        /\ UNCHANGED <<s_dirty, s_idirty, d_dirty>>

\* efs_i_cdirty: a mark that was set since efs_i_update is lost.
efs_i_cdirty ==
    /\ sync.op = "cdirty"
    /\ s_idirty' = SelectSeq(s_idirty, LAMBDA o : o # sync.o)
    /\ unsaved' = IF s_idirty' # s_idirty THEN unsaved \cup {<<"ino", sync.o>>} ELSE unsaved
    /\ sync' = [op |-> "inodes"]
    /\ SyncOnly
    /\ UNCHANGED <<s_dirty, d_dirty, disk, spoiled>>

\* A round of efs_d_update under d_slock: efs_i_write of one entry, which marks the
\* directory's inode.
efs_d_update ==
    LET e == [name |-> dent[sync.o].name, ino |-> dent[sync.o].ino]
        k == IndexFirstSubSeq(<<sync.o>>, d_child)
    IN  /\ sync.op = "entry"
        /\ disk' = [disk EXCEPT !.dir = IF sync.off <= Len(@) THEN [@ EXCEPT ![sync.off] = e]
                                        ELSE Append(@, e)]
        /\ s_idirty' = efs_i_sdirty(s_idirty, 1)
        /\ sync' = IF k = Len(d_child) THEN [op |-> "dcdirty"]
                   ELSE [op |-> "entry", o |-> d_child[k + 1], off |-> sync.off + 1]
        /\ SyncOnly
        /\ UNCHANGED <<s_dirty, d_dirty, unsaved, spoiled>>

\* efs_d_cdirty, with the same loss.
efs_d_cdirty ==
    /\ sync.op = "dcdirty"
    /\ d_dirty' = FALSE
    /\ unsaved' = IF d_dirty THEN unsaved \cup {<<"dir", 0>>} ELSE unsaved
    /\ sync' = [op |-> "dir"]
    /\ SyncOnly
    /\ UNCHANGED <<s_dirty, s_idirty, disk, spoiled>>

Step ==
    \/ efs_sync_sb \/ efs_sync_pop \/ efs_i_update \/ efs_i_cdirty \/ efs_d_update \/ efs_d_cdirty
    \/ \E t \in EThr :
          \/ efs_i_get(t) \/ efs_i_fill(t) \/ efs_i_put(t)
          \/ efs_d_conn(t) \/ efs_i_unlink(t) \/ efs_i_trunc(t) \/ efs_imap_free(t)
          \/ efs_d_unlink(t) \/ rename_entry(t)
          \/ \E n \in 0 .. MAXFILE - 1 : efs_i_read(t, n)

Call ==
    \E t \in EThr :
        \/ \E m, n \in 0 .. MAXFILE - 1 : m <= n /\ efs_i_write(t, m, n)
        \/ \E name \in Name :
              \/ \E why \in {<<"open">>, <<"unlink">>} : efs_d_named(t, name, why)
              \/ efs_d_creat(t, name)
              \/ \E d \in DOMAIN dent : efs_d_rename(t, d, name)

EasyFSNext == fault = "none" /\ (Call \/ (Step /\ UNCHANGED calls))

EasyFSSpec == EasyFSInit /\ [][EasyFSNext]_efsvars

----------------------------------------------------------------------------
\* The entries whose files exist: linked, or about to be, and not yet deleted.
Live == {d \in DOMAIN dent :
            /\ \/ d \in SeqSet(d_child)
               \/ \E t \in EThr : thr[t].op = "conn" /\ thr[t].o = d
            /\ ~\E t \in EThr : thr[t].op \in {"size", "del"} /\ thr[t].d = d}

\* The inode of an entry, in memory or still on disk only.
InodeOf(d) ==
    LET o == IF dent[d].d_inode # 0 THEN dent[d].d_inode ELSE ihash(dent[d].ino)
    IN  IF o # 0 /\ ~Slock(o) THEN inode[o]
        ELSE LET di == disk.ino[dent[d].ino]
             IN  [i_no |-> dent[d].ino, size |-> di.size, addrs |-> di.addrs, indir |-> <<>>]

\* Block n of a file that has it.
BlockAt(i, n) ==
    IF n < NDIRECT THEN i.addrs[n + 1]
    ELSE (IF i.indir # <<>> THEN i.indir ELSE disk.blk[i.addrs[NDIRECT + 1]])[n - NDIRECT + 1]

\* Every block and every inode number in use belongs to one file, and nothing else is
\* marked but the blocks efs_i_data_free missed, whatever the interleaving of open,
\* read, write, create, unlink and efs_sync: up to an unlink that another unlink or an
\* open of the same name overtakes, or an indirect block that was used before.
BlocksOwned ==
    /\ fault \notin {"efs_bmap_free panics", "efs_imap_free panics"}
    /\ fault = "none" =>
          /\ \A d, e \in Live : d # e =>
                /\ dent[d].ino # dent[e].ino
                /\ Blocks(InodeOf(d)) \cap Blocks(InodeOf(e)) = {}
          /\ bmap = UNION {Blocks(InodeOf(d)) : d \in Live} \cup leaked
          /\ \A d \in Live : dent[d].ino \in imap
          /\ \A d \in Live, n \in 0 .. MAXFILE - 2 :
                n < InodeOf(d).size => BlockAt(InodeOf(d), n) # 0

\* What is not marked dirty is on disk: bitmaps, inodes with their indirect blocks, the
\* directory, and the files' data.  Exceptions: a mark set while efs_sync was writing
\* is lost, rename sets none, a directory that became empty is not written, and a
\* deleted inode is still written over its successor.
Saved ==
    fault = "none" =>
      /\ ~s_dirty /\ <<"sb", 0>> \notin unsaved => disk.imap = imap /\ disk.bmap = bmap
      /\ \A d \in Live :
            LET o == IF dent[d].d_inode # 0 THEN dent[d].d_inode ELSE ihash(dent[d].ino)
                i == inode[o]
            IN  /\ o # 0 /\ ~Slock(o) /\ i.nlink > 0
                   /\ o \notin SeqSet(s_idirty) /\ <<"ino", o>> \notin unsaved
                   /\ ~(sync.op = "update" /\ sync.o = o)
                   /\ <<"ino", i.i_no>> \notin spoiled
                   => /\ disk.ino[i.i_no] = i_di(i)
                      /\ i.indir # <<>> => disk.blk[i.addrs[NDIRECT + 1]] = i.indir
                /\ \A n \in 0 .. MAXFILE - 2 :
                      LET b == BlockAt(InodeOf(d), n)
                      IN  n < InodeOf(d).size /\ <<"blk", b>> \notin spoiled
                             => disk.blk[b] = Data
      /\ ~d_dirty /\ sync.op # "entry" /\ <<"dir", 0>> \notin unsaved /\ d_child # <<>> =>
            /\ \A k \in DOMAIN d_child :
                  disk.dir[k] = [name |-> dent[d_child[k]].name, ino |-> dent[d_child[k]].ino]
            /\ 1 \notin SeqSet(s_idirty) /\ <<"ino", 1>> \notin unsaved
                  /\ ~(sync.op = "update" /\ sync.o = 1)
                  => disk.ino[1].size = Len(d_child)
===============================================================================
