-------------------------------- MODULE Buddy --------------------------------
(***************************************************************************)
(* The buddy allocator of physical pages, mm/mm.c and mm/page.c.  Buddy's  *)
(* lock makes the middle of buddy_alloc and of buddy_free one step each;   *)
(* what they and their callers do to the page outside of the lock is a     *)
(* step of its own:                                                        *)
(*   alloc_pages   pop and split | page->order = order | get_page          *)
(*   free_pages    put_page_test | merge and link                          *)
(*   handle_cow_page_fault (vm.c), sole user: put_page_test_1 | get_page   *)
(* A block is named by its first page.                                     *)
(***************************************************************************)
EXTENDS Integers, Sequences, FiniteSets, FiniteSetsExt, SequencesExt

CONSTANTS
    PageThreads,        \* threads that allocate and free
    MAX_LEVEL_INDEX,    \* the highest order; 10 in the code
    ALL_PFN,            \* pages of memory
    kernel_pfn_end,     \* pages of the kernel's image
    MaxRefs             \* bound on the references to a block

ASSUME BuddyAssumption ==
    /\ MAX_LEVEL_INDEX \in Nat
    /\ ALL_PFN \in Nat
    /\ kernel_pfn_end \in Nat
    /\ MaxRefs \in Nat \ {0}

Pages == 0 .. ALL_PFN - 1
Orders == 0 .. MAX_LEVEL_INDEX
MAX_LEVEL == MAX_LEVEL_INDEX + 1
PG_NULL == -1

VARIABLES
    free_lists,     \* Buddy.free_lists
    buddy_free_cnt, \* Buddy.free
    order,          \* page->order
    refcnt,         \* page->refcnt
    owned,          \* the blocks alloc_pages has returned, with their order
    transit,        \* thread |-> the block it has popped or is about to link
    stolen,         \* buddy_free has merged a block in transit
    oom             \* panic("BUDDY!"), or the panic over page_count

pgvars == <<free_lists, buddy_free_cnt, order, refcnt, owned, transit, stolen, oom>>

Idle == [at |-> "idle", page |-> PG_NULL, order |-> 0]

----------------------------------------------------------------------------
\* index ^ (1 << o), within memory or NULL.
find_buddy(p, o) ==
    LET b == IF (p \div 2^o) % 2 = 0 THEN p + 2^o ELSE p - 2^o
    IN  IF b >= ALL_PFN THEN PG_NULL ELSE b

page_is_free(p) == refcnt[p] = 0

\* Mutant: the halves that are split off keep their old order.
Cut_stale(p, j, o) ==
    [lists |-> [l \in Orders |->
        LET rest == IF l = j THEN Tail(free_lists[l]) ELSE free_lists[l]
        IN  IF l \in o .. j - 1 THEN <<find_buddy(p, l)>> \o rest ELSE rest],
     order |-> order]

\* The lists and orders once block p of order j is cut down to order o: the upper
\* halves go to the heads of their lists.
Cut(p, j, o) ==
    [lists |-> [l \in Orders |->
        LET rest == IF l = j THEN Tail(free_lists[l]) ELSE free_lists[l]
        IN  IF l \in o .. j - 1 THEN <<find_buddy(p, l)>> \o rest ELSE rest],
     order |-> [q \in Pages |->
        IF \E l \in o .. j - 1 : q = find_buddy(p, l)
        THEN CHOOSE l \in o .. j - 1 : q = find_buddy(p, l)
        ELSE order[q]]]

\* The level up to which buddy_free merges block p, starting at level l, and the
\* block that it links there.
merge[p \in Pages, l \in 0 .. MAX_LEVEL] ==
    LET b == find_buddy(p, l)
    IN  IF l >= MAX_LEVEL_INDEX \/ b = PG_NULL \/ ~page_is_free(b) \/ order[b] # l
        THEN [page |-> p, level |-> l, gone |-> {}]
        ELSE LET m == merge[Min({p, b}), l + 1]
             IN  [m EXCEPT !.gone = @ \cup {p, b}]

----------------------------------------------------------------------------
\* first_all_page_init and buddy_init.
start_pfn ==
    LET chunk == 2^MAX_LEVEL_INDEX IN ((kernel_pfn_end + chunk) \div chunk) * chunk
Chunks ==
    {i \in Pages : /\ i >= start_pfn
                   /\ i % 2^MAX_LEVEL_INDEX = 0
                   /\ i + 2^MAX_LEVEL_INDEX <= ALL_PFN}

BuddyInit ==
    /\ free_lists = [l \in Orders |->
          IF l = MAX_LEVEL_INDEX THEN SetToSortSeq(Chunks, >) ELSE <<>>]
    /\ buddy_free_cnt = Cardinality(Chunks) * 2^MAX_LEVEL_INDEX
    /\ order = [p \in Pages |-> IF p \in Chunks THEN MAX_LEVEL_INDEX ELSE MAX_LEVEL]
    /\ refcnt = [p \in Pages |-> IF p < kernel_pfn_end THEN 1 ELSE 0]
    /\ owned = {}
    /\ transit = [t \in PageThreads |-> Idle]
    /\ stolen = FALSE
    /\ oom = FALSE

\* What follows the merge of a block in transit is not modelled: the lists are
\* corrupt.
Sound == ~stolen /\ ~oom

\* buddy_alloc up to the unlock.  It panics when no list has a block that is large
\* enough, and when a half that it splits off, or the block, has a user.
buddy_alloc(t, o) ==
    LET big == {l \in o .. MAX_LEVEL_INDEX : free_lists[l] # <<>>}
        j == Min(big)
        p == Head(free_lists[j])
        bad == \E q \in {p} \cup {find_buddy(p, l) : l \in o .. j - 1} : ~page_is_free(q)
    IN  /\ Sound
        /\ transit[t] = Idle
        /\ IF big = {} \/ bad
           THEN /\ oom' = TRUE
                /\ UNCHANGED <<free_lists, buddy_free_cnt, order, transit>>
           ELSE /\ free_lists' = Cut(p, j, o).lists
                /\ order' = Cut(p, j, o).order
                /\ buddy_free_cnt' = buddy_free_cnt - 2^o
                /\ transit' = [transit EXCEPT ![t] = [at |-> "popped", page |-> p, order |-> o]]
                /\ UNCHANGED oom
        /\ UNCHANGED <<refcnt, owned, stolen>>

\* page->order = order, after the unlock.
set_order(t) ==
    /\ Sound
    /\ transit[t].at = "popped"
    /\ order' = [order EXCEPT ![transit[t].page] = transit[t].order]
    /\ transit' = [transit EXCEPT ![t].at = "ordered"]
    /\ UNCHANGED <<free_lists, buddy_free_cnt, refcnt, owned, stolen, oom>>

\* alloc_pages: get_page, and the block is the caller's.
alloc_pages(t) ==
    LET p == transit[t].page
    IN  /\ Sound
        /\ transit[t].at = "ordered"
        /\ refcnt' = [refcnt EXCEPT ![p] = @ + 1]
        /\ owned' = owned \cup {<<p, transit[t].order>>}
        /\ transit' = [transit EXCEPT ![t] = Idle]
        /\ UNCHANGED <<free_lists, buddy_free_cnt, order, stolen, oom>>

\* get_page by a second user of the block.
get_page(b) ==
    /\ Sound
    /\ refcnt[b[1]] < MaxRefs
    /\ refcnt' = [refcnt EXCEPT ![b[1]] = @ + 1]
    /\ UNCHANGED <<free_lists, buddy_free_cnt, order, owned, transit, stolen, oom>>

\* free_pages: put_page_test.
free_pages(t, b) ==
    LET p == b[1]
    IN  /\ Sound
        /\ transit[t] = Idle
        /\ refcnt' = [refcnt EXCEPT ![p] = @ - 1]
        /\ IF refcnt[p] = 1
           THEN /\ transit' = [transit EXCEPT ![t] = [at |-> "put", page |-> p, order |-> b[2]]]
                /\ owned' = owned \ {b}
           ELSE UNCHANGED <<transit, owned>>
        /\ UNCHANGED <<free_lists, buddy_free_cnt, order, stolen, oom>>

\* handle_cow_page_fault of a page with one user: the count drops to 0 ...
put_page_test_1(t, b) ==
    /\ Sound
    /\ transit[t] = Idle
    /\ b[2] = 0
    /\ refcnt[b[1]] = 1
    /\ refcnt' = [refcnt EXCEPT ![b[1]] = 0]
    /\ transit' = [transit EXCEPT ![t] = [at |-> "cow", page |-> b[1], order |-> 0]]
    /\ owned' = owned \ {b}
    /\ UNCHANGED <<free_lists, buddy_free_cnt, order, stolen, oom>>

\* ... until it calls get_page.
cow_get_page(t) ==
    /\ Sound
    /\ transit[t].at = "cow"
    /\ refcnt' = [refcnt EXCEPT ![transit[t].page] = @ + 1]
    /\ transit' = [transit EXCEPT ![t] = Idle]
    /\ owned' = owned \cup {<<transit[t].page, 0>>}
    /\ UNCHANGED <<free_lists, buddy_free_cnt, order, stolen, oom>>

\* buddy_free.  list_del_init takes the merged buddies out of their lists, and does
\* nothing to a page that is on none.
buddy_free(t) ==
    LET p == transit[t].page
        m == merge[p, order[p]]
    IN  /\ Sound
        /\ transit[t].at = "put"
        /\ stolen' = \E u \in PageThreads \ {t} : transit[u].page \in m.gone
        /\ free_lists' = [l \in Orders |->
              LET rest == SelectSeq(free_lists[l], LAMBDA q : q \notin m.gone)
              IN  IF l = m.level THEN <<m.page>> \o rest ELSE rest]
        /\ order' = [q \in Pages |->
              IF q = m.page THEN m.level ELSE IF q \in m.gone THEN MAX_LEVEL ELSE order[q]]
        /\ buddy_free_cnt' = buddy_free_cnt + 2^order[p]
        /\ transit' = [transit EXCEPT ![t] = Idle]
        /\ UNCHANGED <<refcnt, owned, oom>>

BuddyNext ==
    \/ \E t \in PageThreads, o \in Orders : buddy_alloc(t, o)
    \/ \E t \in PageThreads : set_order(t) \/ alloc_pages(t) \/ buddy_free(t) \/ cow_get_page(t)
    \/ \E t \in PageThreads : \E b \in owned : free_pages(t, b) \/ put_page_test_1(t, b)
    \/ \E b \in owned : get_page(b)

BuddySpec == BuddyInit /\ [][BuddyNext]_pgvars

----------------------------------------------------------------------------
\* The blocks, each with its order: on the lists, with a caller, in transit.
OnList == UNION {{<<p, l>> : p \in ToSet(free_lists[l])} : l \in Orders}
InTransit == {<<transit[t].page, transit[t].order>> : t \in {u \in PageThreads : transit[u] # Idle}}
Blocks == OnList \cup owned \cup InTransit
Extent(b) == b[1] .. b[1] + 2^b[2] - 1
Managed == UNION {Extent(<<c, MAX_LEVEL_INDEX>>) : c \in Chunks}

\* Until a merge takes a block that another thread has popped but not yet
\* referenced, or dereferenced but not yet linked, every page belongs to exactly
\* one block: free, with a caller or in transit; Buddy.free counts the free ones,
\* none of which has a user (so that buddy_alloc panics only for want of memory), and
\* two free buddies have been merged.
BlocksExact ==
    \/ stolen
    \/ /\ \A b, c \in Blocks : b # c => Extent(b) \cap Extent(c) = {}
       /\ UNION {Extent(b) : b \in Blocks} = Managed
       /\ \A l \in Orders : IsInjective(free_lists[l])
       /\ buddy_free_cnt = MapThenSumSet(LAMBDA b : 2^b[2], OnList)
       /\ \A b \in OnList : \A p \in Extent(b) : page_is_free(p)
       /\ \A b \in OnList : b[2] < MAX_LEVEL_INDEX => <<find_buddy(b[1], b[2]), b[2]>> \notin OnList
=============================================================================
