------------------------------ MODULE VMProofs ------------------------------
(***************************************************************************)
(* Proofs about VM, for any numbers of tasks, pages and frames: reference  *)
(* counts are exact, and address spaces are isolated but for two races.    *)
(***************************************************************************)
EXTENDS VM, FunctionTheorems, FiniteSetTheorems, TLAPS

Page == Task \X VA

\* Task t is inside of handle_cow_page_fault for page va, its reference dropped.
Busy(t, va) == at[t].pc \in {"copy", "keep"} /\ at[t].va = va

\* The page-table entries that count as references to f.
Counts(t, va, f) == pte[t][va].frame = f /\ ~Busy(t, va)
Held(f) == {m \in Page : Counts(m[1], m[2], f)}

\* The types, and what belongs together in an entry and in a task's position.
Entry == [frame : Frame \cup {"none"}, w : BOOLEAN, cow : BOOLEAN]
Place == {User, [pc |-> "none"], [pc |-> "exit"], [pc |-> "exec"]}
            \cup [pc : {"sleep", "copy", "keep"}, va : VA]
TypeInv ==
    /\ pte \in [Task -> [VA -> Entry]]
    /\ pgref \in [Frame -> Int]
    /\ content \in [Frame -> Value]
    /\ mem \in [Task -> [VA -> Value]]
    /\ at \in [Task -> Place]
    /\ kswap \in Seq(Page)

EntryInv ==
    \A t \in Task, va \in VA :
       /\ pte[t][va].frame = "none" => pte[t][va] = Invalid
       /\ pte[t][va].w => ~pte[t][va].cow
       /\ at[t].pc = "none" => pte[t][va] = Invalid
       /\ Busy(t, va) => pte[t][va].cow /\ pte[t][va].frame \in Frame

\* The threads that kswapd will wake sleep, each on one fault.
QueueInv ==
    /\ \A i \in 1 .. Len(kswap) : at[kswap[i][1]] = In("sleep", kswap[i][2])
    /\ \A i, j \in 1 .. Len(kswap) : kswap[i][1] = kswap[j][1] => i = j

\* The reference count is the number of entries that count; a writable entry is the only
\* one; a frame in handle_cow_page_fault has one task there, and no reference if that task
\* keeps it.
CountInv ==
    \A f \in Frame : pgref[f] = Cardinality(Held(f))
OwnInv ==
    /\ \A t \in Task, va \in VA, f \in Frame :
          pte[t][va].w /\ pte[t][va].frame = f => Held(f) = {<<t, va>>}
    /\ \A t \in Task, f \in Frame : at[t].pc = "keep" /\ Locks(t, f) => Held(f) = {}
    /\ \A t, u \in Task, f \in Frame : Locks(t, f) /\ Locks(u, f) => t = u

RefInv == TypeInv /\ EntryInv /\ QueueInv /\ CountInv /\ OwnInv

----------------------------------------------------------------------------
\* Held, by task and page.
LEMMA HeldPairs ==
    ASSUME NEW f, NEW t \in Task, NEW va \in VA
    PROVE  <<t, va>> \in Held(f) <=> Counts(t, va, f)
  BY DEF Held, Page

\* The references to a frame are finitely many.
LEMMA HeldFinite ==
    ASSUME NEW f
    PROVE  /\ IsFiniteSet(Held(f)) /\ Cardinality(Held(f)) \in Nat
           /\ Cardinality(Held(f)) = 0 <=> Held(f) = {}
  <1>1. IsFiniteSet(Page)
    BY VMAssumption, FS_Product DEF Page
  <1>2. Held(f) \in SUBSET Page
    BY DEF Held
  <1>3. IsFiniteSet(Held(f))
    BY <1>1, <1>2, FS_Subset
  <1> QED BY <1>3, FS_CardinalityType, FS_EmptySet

\* How the set of references to f moves with one entry.
LEMMA HeldSame ==
    ASSUME NEW f, \A u \in Task, v \in VA : Counts(u, v, f)' <=> Counts(u, v, f)
    PROVE  Held(f)' = Held(f)
  BY DEF Held, Page

\* ... and one entry more.
LEMMA HeldAdd ==
    ASSUME NEW f, NEW t \in Task, NEW va \in VA, Counts(t, va, f)',
           \A u \in Task, v \in VA : ~(u = t /\ v = va) => (Counts(u, v, f)' <=> Counts(u, v, f))
    PROVE  Held(f)' = Held(f) \cup {<<t, va>>}
  BY DEF Held, Page

\* ... and one entry less.
LEMMA HeldDel ==
    ASSUME NEW f, NEW t \in Task, NEW va \in VA, ~Counts(t, va, f)',
           \A u \in Task, v \in VA : ~(u = t /\ v = va) => (Counts(u, v, f)' <=> Counts(u, v, f))
    PROVE  Held(f)' = Held(f) \ {<<t, va>>}
  BY DEF Held, Page

----------------------------------------------------------------------------
\* Where handle_cow_page_fault is between its two steps.
Inside == {"copy", "keep"}

\* A task outside of handle_cow_page_fault moves on: the references stay.
LEMMA HeldAt ==
    ASSUME pte' = pte,
           \A u \in Task : at'[u] = at[u] \/ (at[u].pc \notin Inside /\ at'[u].pc \notin Inside)
    PROVE  /\ \A u \in Task, v \in VA : Busy(u, v)' <=> Busy(u, v)
           /\ \A f \in Frame : Held(f)' = Held(f)
  <1>1. \A u \in Task, v \in VA : Busy(u, v)' <=> Busy(u, v)
    BY DEF Busy, Inside
  <1>2. ASSUME NEW f \in Frame
        PROVE  Held(f)' = Held(f)
    <2>1. \A u \in Task, v \in VA : Counts(u, v, f)' <=> Counts(u, v, f)
      BY <1>1 DEF Counts
    <2> QED BY <2>1, HeldSame
  <1> QED BY <1>1, <1>2

\* ... and so does the invariant, but for the types and the queue.
LEMMA OnlyAt ==
    ASSUME RefInv, pte' = pte, pgref' = pgref,
           \A u \in Task : at'[u] = at[u] \/ (at[u].pc \notin Inside /\ at'[u].pc \notin Inside),
           \A u \in Task, v \in VA : at'[u].pc = "none" => pte[u][v] = Invalid
    PROVE  EntryInv' /\ CountInv' /\ OwnInv'
  <1>1. \A u \in Task, v \in VA : Busy(u, v)' <=> Busy(u, v)
    BY HeldAt
  <1>2. \A f \in Frame : Held(f)' = Held(f)
    BY HeldAt
  <1>3. EntryInv'
    BY <1>1 DEF EntryInv, RefInv
  <1>4. CountInv'
    BY <1>2 DEF CountInv, RefInv
  <1>5. \A u \in Task, f \in Frame : Locks(u, f)' => Locks(u, f) /\ at'[u] = at[u]
    BY DEF Locks, Inside
  <1>6. OwnInv'
    BY <1>2, <1>5 DEF OwnInv, RefInv
  <1> QED BY <1>3, <1>4, <1>6

\* The queue of kswapd is the same, and the tasks in it.
LEMMA QueueSame ==
    ASSUME RefInv, kswap' = kswap,
           \A u \in Task : at[u].pc = "sleep" => at'[u] = at[u]
    PROVE  QueueInv'
  <1>1. \A i \in 1 .. Len(kswap) : kswap[i] \in Page /\ kswap[i][1] \in Task
    BY DEF RefInv, TypeInv, Page
  <1>2. \A i \in 1 .. Len(kswap) : at[kswap[i][1]].pc = "sleep"
    <2>1. \A v : In("sleep", v).pc = "sleep"
      BY DEF In
    <2> QED BY <2>1 DEF RefInv, QueueInv
  <1> QED BY <1>1, <1>2 DEF RefInv, QueueInv

\* A free frame has no references.
LEMMA FreeHeld ==
    ASSUME RefInv, NEW f \in Free
    PROVE  /\ f \in Frame /\ Held(f) = {} /\ f # "none"
           /\ \A t \in Task : Locks(t, f) => at[t].pc = "copy"
           /\ \A t \in Task, va \in VA : pte[t][va].frame = f => Busy(t, va)
  <1>1. f \in Frame /\ pgref[f] = 0 /\ f # "none"
    BY VMAssumption DEF Free
  <1>2. Held(f) = {}
    BY <1>1, HeldFinite DEF RefInv, CountInv
  <1>3. \A t \in Task : Locks(t, f) => at[t].pc = "copy"
    BY DEF Free, Locks
  <1>4. \A t \in Task, va \in VA : pte[t][va].frame = f => Busy(t, va)
    BY <1>2, HeldPairs DEF Counts
  <1> QED BY <1>1, <1>2, <1>3, <1>4

\* A task inside is busy with one page of a frame.
LEMMA InsideBusy ==
    ASSUME RefInv, NEW t \in Task, at[t].pc \in Inside
    PROVE  /\ at[t].va \in VA /\ Busy(t, at[t].va)
           /\ pte[t][at[t].va] \in Entry
           /\ pte[t][at[t].va].frame \in Frame /\ pte[t][at[t].va].cow
           /\ Locks(t, pte[t][at[t].va].frame)
  <1>1. at[t].va \in VA
    BY DEF RefInv, TypeInv, Place, Inside, User
  <1>2. Busy(t, at[t].va)
    BY DEF Busy, Inside
  <1> QED BY <1>1, <1>2 DEF RefInv, TypeInv, EntryInv, Locks, Inside

\* mappages gives a free frame its first reference.
LEMMA MapPages ==
    ASSUME RefInv, NEW t \in Task, NEW va \in VA, NEW x \in Value, mappages(t, va, x),
           at[t].pc \notin Inside, at' = [at EXCEPT ![t] = User]
    PROVE  /\ EntryInv' /\ CountInv' /\ OwnInv'
           /\ pte' \in [Task -> [VA -> Entry]] /\ pgref' \in [Frame -> Int]
           /\ content' \in [Frame -> Value] /\ mem' \in [Task -> [VA -> Value]]
           /\ \A g \in Frame : Held(g) \subseteq Held(g)'
  <1> DEFINE E(f) == [frame |-> f, w |-> va \in vma_is_w, cow |-> FALSE]
  <1>0. TypeInv
    BY DEF RefInv
  <1>1. PICK f \in Free : /\ ~Valid(t, va)
                           /\ pte' = [pte EXCEPT ![t][va] = E(f)]
                           /\ pgref' = [pgref EXCEPT ![f] = 1]
                           /\ content' = [content EXCEPT ![f] = x]
                           /\ mem' = [mem EXCEPT ![t][va] = x]
    BY DEF mappages
  <1>2. f \in Frame /\ Held(f) = {} /\ f # "none"
    BY FreeHeld
  <1>3. E(f) \in Entry /\ E(f).frame = f /\ ~E(f).cow
    BY <1>2 DEF Entry
  <1> HIDE DEF E
  <1>4. /\ pte' \in [Task -> [VA -> Entry]] /\ pgref' \in [Frame -> Int]
        /\ content' \in [Frame -> Value] /\ mem' \in [Task -> [VA -> Value]]
    BY <1>0, <1>1, <1>2, <1>3 DEF TypeInv
  <1>5. /\ pte'[t][va] = E(f)
        /\ \A u \in Task, v \in VA : ~(u = t /\ v = va) => pte'[u][v] = pte[u][v]
    BY <1>0, <1>1 DEF TypeInv
  <1>6. /\ at'[t].pc = "user"
        /\ \A u \in Task : u # t => at'[u] = at[u]
    BY <1>0 DEF TypeInv, User
  <1>7. \A u \in Task, v \in VA : Busy(u, v)' <=> Busy(u, v)
    BY <1>6 DEF Busy, Inside
  <1>8. ~Busy(t, va)' /\ ~Busy(t, va)
    BY <1>6, <1>7 DEF Busy
  <1>9. Held(f)' = {<<t, va>>}
    <2>1. Counts(t, va, f)'
      BY <1>5, <1>3, <1>8 DEF Counts
    <2>2. \A u \in Task, v \in VA : ~(u = t /\ v = va) => (Counts(u, v, f)' <=> Counts(u, v, f))
      BY <1>5, <1>7 DEF Counts
    <2> QED BY <2>1, <2>2, HeldAdd, <1>2
  <1>10. \A g \in Frame : g # f => Held(g)' = Held(g)
    <2> TAKE g \in Frame
    <2> HAVE g # f
    <2>1. pte[t][va].frame # g
      BY <1>1, VMAssumption DEF Valid, Invalid
    <2>2. \A u \in Task, v \in VA : Counts(u, v, g)' <=> Counts(u, v, g)
      BY <2>1, <1>3, <1>5, <1>7 DEF Counts
    <2> QED BY <2>2, HeldSame
  <1>11. EntryInv'
    <2> SUFFICES ASSUME NEW u \in Task, NEW v \in VA
                 PROVE  /\ pte'[u][v].frame = "none" => pte'[u][v] = Invalid
                        /\ pte'[u][v].w => ~pte'[u][v].cow
                        /\ at'[u].pc = "none" => pte'[u][v] = Invalid
                        /\ Busy(u, v)' => pte'[u][v].cow /\ pte'[u][v].frame \in Frame
      BY DEF EntryInv
    <2>1. CASE u = t /\ v = va
      BY <2>1, <1>2, <1>3, <1>5, <1>6, <1>8
    <2>2. CASE ~(u = t /\ v = va)
      BY <2>2, <1>5, <1>6, <1>7 DEF RefInv, EntryInv
    <2> QED BY <2>1, <2>2
  <1>12. CountInv'
    <2>1. pgref'[f] = 1 /\ \A g \in Frame : g # f => pgref'[g] = pgref[g]
      BY <1>0, <1>1, <1>2 DEF TypeInv
    <2>2. Cardinality({<<t, va>>}) = 1
      BY FS_Singleton
    <2> QED BY <2>1, <2>2, <1>9, <1>10 DEF CountInv, RefInv
  <1>13. \A u \in Task, g \in Frame : Locks(u, g)' <=> u # t /\ Locks(u, g)
    <2> TAKE u \in Task, g \in Frame
    <2>1. CASE u = t
      BY <2>1, <1>6 DEF Locks
    <2>2. CASE u # t
      <3>1. at[u].pc \in Inside => at[u].va \in VA
        BY InsideBusy
      <3> QED BY <2>2, <3>1, <1>5, <1>6 DEF Locks, Inside
    <2> QED BY <2>1, <2>2
  <1>14. OwnInv'
    <2>1. ASSUME NEW u \in Task, NEW v \in VA, NEW g \in Frame, pte'[u][v].w, pte'[u][v].frame = g
          PROVE  Held(g)' = {<<u, v>>}
      <3>1. CASE u = t /\ v = va
        BY <2>1, <3>1, <1>3, <1>5, <1>9
      <3>2. CASE ~(u = t /\ v = va)
        <4>1. Held(g) = {<<u, v>>}
          BY <2>1, <3>2, <1>5 DEF RefInv, OwnInv
        <4> QED BY <4>1, <1>2, <1>10
      <3> QED BY <3>1, <3>2
    <2>2. ASSUME NEW u \in Task, NEW g \in Frame, at'[u].pc = "keep", Locks(u, g)'
          PROVE  Held(g)' = {}
      <3>1. u # t /\ Locks(u, g) /\ at[u].pc = "keep"
        BY <2>2, <1>6, <1>13
      <3>2. g # f
        BY <3>1, FreeHeld
      <3> QED BY <3>1, <3>2, <1>10 DEF RefInv, OwnInv
    <2>3. \A u, w \in Task, g \in Frame : Locks(u, g)' /\ Locks(w, g)' => u = w
      BY <1>13 DEF RefInv, OwnInv
    <2> QED BY <2>1, <2>2, <2>3 DEF OwnInv
  <1>15. \A g \in Frame : Held(g) \subseteq Held(g)'
    BY <1>2, <1>10
  <1> QED BY <1>4, <1>11, <1>12, <1>14, <1>15

----------------------------------------------------------------------------
\* handle_cow_page_fault drops its reference.
LEMMA CowBegin ==
    ASSUME RefInv, NEW t \in Task, NEW va \in VA, cow_begin(t, va)
    PROVE  /\ RefInv'
           /\ \E f \in Frame : /\ f = pte[t][va].frame /\ <<t, va>> \in Held(f)
                               /\ Held(f)' = Held(f) \ {<<t, va>>}
                               /\ \A g \in Frame : g # f => Held(g)' = Held(g)
  <1>0. TypeInv
    BY DEF RefInv
  <1>1. PICK f : f = pte[t][va].frame
    OBVIOUS
  <1>2. PICK pc \in Inside : at' = [at EXCEPT ![t] = In(pc, va)] /\ (pc = "copy" <=> pgref[f] > 1)
    BY <1>1 DEF cow_begin, Inside
  <1>3. /\ at[t] = User /\ pte[t][va].cow
        /\ \A u \in Task : ~Locks(u, f)
        /\ pgref' = [pgref EXCEPT ![f] = @ - 1]
        /\ UNCHANGED <<pte, content, mem, kswap, tlb, spoiled>>
    BY <1>1 DEF cow_begin
  <1>4. f \in Frame
    <2>1. pte[t][va] # Invalid
      BY <1>3 DEF Invalid
    <2>2. pte[t][va].frame # "none"
      BY <2>1 DEF RefInv, EntryInv
    <2>3. pte[t][va] \in Entry
      BY <1>0 DEF TypeInv
    <2> QED BY <1>1, <2>2, <2>3 DEF Entry
  <1>5. In(pc, va) \in Place /\ In(pc, va).pc = pc /\ In(pc, va).va = va
    BY <1>2 DEF In, Place, Inside
  <1>6. /\ at'[t].pc = pc /\ at'[t].va = va /\ at[t].pc = "user"
        /\ \A u \in Task : u # t => at'[u] = at[u]
        /\ at' \in [Task -> Place]
    BY <1>0, <1>2, <1>3, <1>5 DEF TypeInv, User
  <1>7. TypeInv'
    BY <1>0, <1>3, <1>4, <1>6 DEF TypeInv
  <1>8. \A u \in Task, v \in VA : Busy(u, v)' <=> Busy(u, v) \/ (u = t /\ v = va)
    BY <1>2, <1>6 DEF Busy, Inside
  <1>9. Counts(t, va, f)
    BY <1>1, <1>6 DEF Counts, Busy
  <1>10. Held(f)' = Held(f) \ {<<t, va>>} /\ <<t, va>> \in Held(f)
    <2>1. ~Counts(t, va, f)'
      BY <1>8 DEF Counts
    <2>2. \A u \in Task, v \in VA : ~(u = t /\ v = va) => (Counts(u, v, f)' <=> Counts(u, v, f))
      BY <1>3, <1>8 DEF Counts
    <2> QED BY <2>1, <2>2, <1>9, HeldDel, HeldPairs
  <1>11. \A g \in Frame : g # f => Held(g)' = Held(g)
    <2> TAKE g \in Frame
    <2> HAVE g # f
    <2>1. \A u \in Task, v \in VA : Counts(u, v, g)' <=> Counts(u, v, g)
      BY <1>1, <1>3, <1>8 DEF Counts
    <2> QED BY <2>1, HeldSame
  <1>12. EntryInv'
    <2> SUFFICES ASSUME NEW u \in Task, NEW v \in VA
                 PROVE  /\ pte[u][v].frame = "none" => pte[u][v] = Invalid
                        /\ pte[u][v].w => ~pte[u][v].cow
                        /\ at'[u].pc = "none" => pte[u][v] = Invalid
                        /\ Busy(u, v)' => pte[u][v].cow /\ pte[u][v].frame \in Frame
      BY <1>3 DEF EntryInv
    <2>1. at'[u].pc = "none" => at[u].pc = "none"
      BY <1>2, <1>6 DEF Inside
    <2> QED BY <2>1, <1>1, <1>3, <1>4, <1>8 DEF RefInv, EntryInv
  <1>13. QueueInv'
    BY <1>3, <1>6, QueueSame
  <1>14. CountInv'
    <2>1. pgref'[f] = pgref[f] - 1 /\ \A g \in Frame : g # f => pgref'[g] = pgref[g]
      BY <1>0, <1>3, <1>4 DEF TypeInv
    <2>2. Cardinality(Held(f) \ {<<t, va>>}) = Cardinality(Held(f)) - 1
      BY <1>10, HeldFinite, FS_RemoveElement
    <2> QED BY <2>1, <2>2, <1>4, <1>10, <1>11 DEF CountInv, RefInv
  <1>15. \A u \in Task, g \in Frame :
            Locks(u, g)' <=> (u = t /\ g = f) \/ (u # t /\ Locks(u, g))
    BY <1>1, <1>2, <1>3, <1>6 DEF Locks, Inside
  <1>16. OwnInv'
    <2>1. ASSUME NEW u \in Task, NEW v \in VA, NEW g \in Frame, pte[u][v].w, pte[u][v].frame = g
          PROVE  Held(g)' = {<<u, v>>}
      <3>1. Held(g) = {<<u, v>>} /\ ~pte[u][v].cow
        BY <2>1 DEF RefInv, OwnInv, EntryInv
      <3>2. g # f
        BY <3>1, <1>3, <1>10
      <3> QED BY <3>1, <3>2, <1>11
    <2>2. ASSUME NEW u \in Task, NEW g \in Frame, at'[u].pc = "keep", Locks(u, g)'
          PROVE  Held(g)' = {}
      <3>1. CASE u = t /\ g = f
        <4>1. Cardinality(Held(f)) <= 1 /\ pgref[f] \in Int
          BY <3>1, <2>2, <1>0, <1>2, <1>4, <1>6, HeldFinite DEF Inside, RefInv, CountInv, TypeInv
        <4>2. Cardinality(Held(f) \ {<<t, va>>}) = Cardinality(Held(f)) - 1
          BY <1>10, HeldFinite, FS_RemoveElement
        <4>3. IsFiniteSet(Held(f) \ {<<t, va>>})
          BY HeldFinite, FS_Difference
        <4>5. Cardinality(Held(f) \ {<<t, va>>}) \in Nat /\ Cardinality(Held(f)) \in Nat
          BY <4>3, HeldFinite, FS_CardinalityType
        <4>6. Cardinality(Held(f) \ {<<t, va>>}) = 0
          BY <4>1, <4>2, <4>5
        <4>4. Held(f) \ {<<t, va>>} = {}
          BY <4>3, <4>6, FS_EmptySet
        <4> QED BY <4>4, <3>1, <1>10
      <3>2. CASE u # t /\ Locks(u, g)
        BY <3>2, <2>2, <1>3, <1>6, <1>11 DEF RefInv, OwnInv
      <3> QED BY <3>1, <3>2, <2>2, <1>15
    <2>3. \A u, w \in Task, g \in Frame : Locks(u, g)' /\ Locks(w, g)' => u = w
      BY <1>3, <1>15 DEF RefInv, OwnInv
    <2> QED BY <2>1, <2>2, <2>3, <1>3 DEF OwnInv
  <1>17. RefInv'
    BY <1>7, <1>12, <1>13, <1>14, <1>16 DEF RefInv
  <1> QED BY <1>1, <1>4, <1>10, <1>11, <1>17

\* handle_cow_page_fault ends: the entry maps g, which has no other reference.
LEMMA CowEnd ==
    ASSUME RefInv, NEW t \in Task, NEW va \in VA, NEW g \in Frame, NEW e \in Entry,
           Busy(t, va), Held(g) = {}, e.frame = g, e.w, ~e.cow,
           \A u \in Task : u # t => ~(at[u].pc = "keep" /\ Locks(u, g)),
           pte' = [pte EXCEPT ![t][va] = e],
           pgref' = [pgref EXCEPT ![g] = 1],
           at' = [at EXCEPT ![t] = User],
           content' \in [Frame -> Value],
           mem' = mem, kswap' = kswap
    PROVE  RefInv' /\ \A h \in Frame : Held(h) \subseteq Held(h)'
  <1>0. TypeInv
    BY DEF RefInv
  <1>1. /\ pte'[t][va] = e
        /\ \A u \in Task, v \in VA : ~(u = t /\ v = va) => pte'[u][v] = pte[u][v]
    BY <1>0 DEF TypeInv
  <1>2. /\ at'[t].pc = "user"
        /\ \A u \in Task : u # t => at'[u] = at[u]
    BY <1>0 DEF TypeInv, User
  <1>3. TypeInv'
    BY <1>0 DEF TypeInv, Place
  <1>4. /\ \A u \in Task, v \in VA : Busy(u, v)' <=> Busy(u, v) /\ ~(u = t /\ v = va)
        /\ \A v \in VA : Busy(t, v) => v = va
    BY <1>2 DEF Busy
  <1>5. Held(g)' = {<<t, va>>}
    <2>1. Counts(t, va, g)'
      BY <1>1, <1>4 DEF Counts
    <2>2. \A u \in Task, v \in VA : ~(u = t /\ v = va) => (Counts(u, v, g)' <=> Counts(u, v, g))
      BY <1>1, <1>4 DEF Counts
    <2> QED BY <2>1, <2>2, HeldAdd
  <1>6. \A h \in Frame : h # g => Held(h)' = Held(h)
    <2> TAKE h \in Frame
    <2> HAVE h # g
    <2>1. \A u \in Task, v \in VA : Counts(u, v, h)' <=> Counts(u, v, h)
      BY <1>1, <1>4 DEF Counts
    <2> QED BY <2>1, HeldSame
  <1>7. EntryInv'
    <2> SUFFICES ASSUME NEW u \in Task, NEW v \in VA
                 PROVE  /\ pte'[u][v].frame = "none" => pte'[u][v] = Invalid
                        /\ pte'[u][v].w => ~pte'[u][v].cow
                        /\ at'[u].pc = "none" => pte'[u][v] = Invalid
                        /\ Busy(u, v)' => pte'[u][v].cow /\ pte'[u][v].frame \in Frame
      BY DEF EntryInv
    <2>1. CASE u = t /\ v = va
      BY <2>1, <1>1, <1>2, <1>4, VMAssumption
    <2>2. CASE ~(u = t /\ v = va)
      BY <2>2, <1>1, <1>2, <1>4 DEF RefInv, EntryInv
    <2> QED BY <2>1, <2>2
  <1>8. QueueInv'
    <2>1. \A u \in Task : at[u].pc = "sleep" => at'[u] = at[u]
      BY <1>2 DEF Busy
    <2> QED BY <2>1, QueueSame
  <1>9. CountInv'
    <2>1. pgref'[g] = 1 /\ \A h \in Frame : h # g => pgref'[h] = pgref[h]
      BY <1>0 DEF TypeInv
    <2>2. Cardinality({<<t, va>>}) = 1
      BY FS_Singleton
    <2> QED BY <2>1, <2>2, <1>5, <1>6 DEF CountInv, RefInv
  <1>10. \A u \in Task, h \in Frame : Locks(u, h)' <=> u # t /\ Locks(u, h)
    <2> TAKE u \in Task, h \in Frame
    <2>1. CASE u = t
      BY <2>1, <1>2 DEF Locks
    <2>2. CASE u # t
      <3>1. at[u].pc \in Inside => at[u].va \in VA
        BY InsideBusy
      <3> QED BY <2>2, <3>1, <1>1, <1>2 DEF Locks, Inside
    <2> QED BY <2>1, <2>2
  <1>11. OwnInv'
    <2>1. ASSUME NEW u \in Task, NEW v \in VA, NEW h \in Frame, pte'[u][v].w, pte'[u][v].frame = h
          PROVE  Held(h)' = {<<u, v>>}
      <3>1. CASE u = t /\ v = va
        BY <2>1, <3>1, <1>1, <1>5
      <3>2. CASE ~(u = t /\ v = va)
        <4>1. Held(h) = {<<u, v>>}
          BY <2>1, <3>2, <1>1 DEF RefInv, OwnInv
        <4> QED BY <4>1, <1>6
      <3> QED BY <3>1, <3>2
    <2>2. ASSUME NEW u \in Task, NEW h \in Frame, at'[u].pc = "keep", Locks(u, h)'
          PROVE  Held(h)' = {}
      <3>1. u # t /\ Locks(u, h) /\ at[u].pc = "keep"
        BY <2>2, <1>2, <1>10
      <3>2. h # g
        BY <3>1
      <3> QED BY <3>1, <3>2, <1>6 DEF RefInv, OwnInv
    <2>3. \A u, w \in Task, h \in Frame : Locks(u, h)' /\ Locks(w, h)' => u = w
      BY <1>10 DEF RefInv, OwnInv
    <2> QED BY <2>1, <2>2, <2>3 DEF OwnInv
  <1>12. \A h \in Frame : Held(h) \subseteq Held(h)'
    BY <1>6
  <1> QED BY <1>3, <1>7, <1>8, <1>9, <1>11, <1>12 DEF RefInv

\* The copy ends in a new frame.
LEMMA CowCopy ==
    ASSUME RefInv, NEW t \in Task, cow_copy(t)
    PROVE  RefInv' /\ \A h \in Frame : Held(h) \subseteq Held(h)'
  <1>0. TypeInv
    BY DEF RefInv
  <1>1. PICK va : va = at[t].va
    OBVIOUS
  <1>2. PICK f : f = pte[t][va].frame
    OBVIOUS
  <1>3. at[t].pc = "copy" /\ at' = [at EXCEPT ![t] = User] /\ mem' = mem /\ kswap' = kswap
    BY DEF cow_copy
  <1>4. /\ va \in VA /\ Busy(t, va) /\ f \in Frame /\ pte[t][va] \in Entry
    BY <1>1, <1>2, <1>3, InsideBusy DEF Inside
  <1>5. PICK g \in Free :
           /\ pte' = [pte EXCEPT ![t][va] = clear_cow_pte([@ EXCEPT !.frame = g])]
           /\ pgref' = [pgref EXCEPT ![g] = 1]
           /\ content' = [content EXCEPT ![g] = IF g = f THEN 0 ELSE content[f]]
    BY <1>1, <1>2 DEF cow_copy
  <1>6. PICK e : e = clear_cow_pte([pte[t][va] EXCEPT !.frame = g])
    OBVIOUS
  <1>7. g \in Frame /\ Held(g) = {} /\ \A u \in Task : ~(at[u].pc = "keep" /\ Locks(u, g))
    BY FreeHeld
  <1>8. e \in Entry /\ e.frame = g /\ e.w /\ ~e.cow
    BY <1>4, <1>6, <1>7 DEF Entry, clear_cow_pte
  <1>9. pte' = [pte EXCEPT ![t][va] = e]
    BY <1>0, <1>4, <1>5, <1>6 DEF TypeInv
  <1>10. content' \in [Frame -> Value]
    BY <1>0, <1>4, <1>5, <1>7 DEF TypeInv, Value
  <1> QED BY <1>3, <1>4, <1>5, <1>7, <1>8, <1>9, <1>10, CowEnd

\* get_page takes the frame back.
LEMMA CowKeep ==
    ASSUME RefInv, NEW t \in Task, cow_keep(t)
    PROVE  RefInv' /\ \A h \in Frame : Held(h) \subseteq Held(h)'
  <1>0. TypeInv
    BY DEF RefInv
  <1>1. PICK va : va = at[t].va
    OBVIOUS
  <1>2. PICK f : f = pte[t][va].frame
    OBVIOUS
  <1>3. /\ at[t].pc = "keep" /\ at' = [at EXCEPT ![t] = User]
        /\ content' = content /\ mem' = mem /\ kswap' = kswap
        /\ pgref' = [pgref EXCEPT ![f] = @ + 1]
        /\ pte' = [pte EXCEPT ![t][va] = clear_cow_pte(@)]
    BY <1>1, <1>2 DEF cow_keep
  <1>4. va \in VA /\ Busy(t, va) /\ f \in Frame /\ pte[t][va] \in Entry /\ Locks(t, f)
    BY <1>1, <1>2, <1>3, InsideBusy DEF Inside
  <1>5. Held(f) = {} /\ \A u \in Task : u # t => ~Locks(u, f)
    BY <1>3, <1>4 DEF RefInv, OwnInv
  <1>6. pgref[f] = 0
    BY <1>4, <1>5, HeldFinite DEF RefInv, CountInv
  <1>7. PICK e : e = clear_cow_pte(pte[t][va])
    OBVIOUS
  <1>8. e \in Entry /\ e.frame = f /\ e.w /\ ~e.cow
    BY <1>2, <1>4, <1>7 DEF Entry, clear_cow_pte
  <1>9. pte' = [pte EXCEPT ![t][va] = e] /\ pgref' = [pgref EXCEPT ![f] = 1]
    BY <1>0, <1>3, <1>4, <1>6, <1>7 DEF TypeInv
  <1>10. content' \in [Frame -> Value]
    BY <1>0, <1>3 DEF TypeInv
  <1> QED BY <1>3, <1>4, <1>5, <1>8, <1>9, <1>10, CowEnd

\* An entry that is valid maps a frame.
LEMMA ValidFrame ==
    ASSUME RefInv, NEW t \in Task, NEW va \in VA, Valid(t, va)
    PROVE  pte[t][va].frame \in Frame
  <1>1. pte[t][va] \in Entry /\ pte[t][va].frame # "none"
    BY DEF RefInv, TypeInv, EntryInv, Valid
  <1> QED BY <1>1 DEF Entry

\* An invalid entry maps nothing.
LEMMA InvalidEntry ==
    /\ Invalid \in Entry /\ Invalid.frame = "none" /\ ~Invalid.w /\ ~Invalid.cow
    /\ Invalid.frame \notin Frame
  BY VMAssumption DEF Invalid, Entry

\* vma_gen_close takes one reference from the frame.
LEMMA Close ==
    ASSUME RefInv, NEW t \in Task, NEW va \in VA, vma_gen_close(t, va)
    PROVE  /\ RefInv'
           /\ \E f \in Frame : /\ f = pte[t][va].frame /\ <<t, va>> \in Held(f)
                               /\ Held(f)' = Held(f) \ {<<t, va>>}
                               /\ \A g \in Frame : g # f => Held(g)' = Held(g)
  <1>0. TypeInv
    BY DEF RefInv
  <1>1. PICK f : f = pte[t][va].frame
    OBVIOUS
  <1>2. /\ at[t].pc \in {"exit", "exec"} /\ Valid(t, va)
        /\ pgref' = [pgref EXCEPT ![f] = @ - 1]
        /\ pte' = [pte EXCEPT ![t][va] = Invalid]
        /\ content' = [content EXCEPT ![f] = IF pgref[f] = 1 THEN 0 ELSE @]
        /\ mem' = [mem EXCEPT ![t][va] = 0]
        /\ UNCHANGED <<at, kswap, tlb>>
    BY <1>1 DEF vma_gen_close
  <1>3. f \in Frame
    BY <1>1, <1>2, ValidFrame
  <1>4. /\ pte'[t][va] = Invalid
        /\ \A u \in Task, v \in VA : ~(u = t /\ v = va) => pte'[u][v] = pte[u][v]
    BY <1>0, <1>2 DEF TypeInv
  <1>5. TypeInv'
    <2>1. pte' \in [Task -> [VA -> Entry]] /\ pgref' \in [Frame -> Int]
      BY <1>0, <1>2, <1>3, InvalidEntry DEF TypeInv
    <2>2. content' \in [Frame -> Value] /\ mem' \in [Task -> [VA -> Value]]
      BY <1>0, <1>2, <1>3 DEF TypeInv, Value
    <2> QED BY <2>1, <2>2, <1>0, <1>2 DEF TypeInv
  <1>6. \A u \in Task, v \in VA : (Busy(u, v)' <=> Busy(u, v)) /\ ~Busy(t, v)
    BY <1>2 DEF Busy
  <1>7. Held(f)' = Held(f) \ {<<t, va>>} /\ <<t, va>> \in Held(f)
    <2>1. ~Counts(t, va, f)' /\ Counts(t, va, f)
      BY <1>1, <1>3, <1>4, <1>6, InvalidEntry DEF Counts
    <2>2. \A u \in Task, v \in VA : ~(u = t /\ v = va) => (Counts(u, v, f)' <=> Counts(u, v, f))
      BY <1>4, <1>6 DEF Counts
    <2> QED BY <2>1, <2>2, HeldDel, HeldPairs
  <1>8. \A g \in Frame : g # f => Held(g)' = Held(g)
    <2> TAKE g \in Frame
    <2> HAVE g # f
    <2>1. \A u \in Task, v \in VA : Counts(u, v, g)' <=> Counts(u, v, g)
      BY <1>1, <1>4, <1>6, InvalidEntry DEF Counts
    <2> QED BY <2>1, HeldSame
  <1>9. EntryInv'
    <2> SUFFICES ASSUME NEW u \in Task, NEW v \in VA
                 PROVE  /\ pte'[u][v].frame = "none" => pte'[u][v] = Invalid
                        /\ pte'[u][v].w => ~pte'[u][v].cow
                        /\ at'[u].pc = "none" => pte'[u][v] = Invalid
                        /\ Busy(u, v)' => pte'[u][v].cow /\ pte'[u][v].frame \in Frame
      BY DEF EntryInv
    <2>1. CASE u = t /\ v = va
      BY <2>1, <1>4, <1>6, InvalidEntry
    <2>2. CASE ~(u = t /\ v = va)
      BY <2>2, <1>2, <1>4, <1>6 DEF RefInv, EntryInv
    <2> QED BY <2>1, <2>2
  <1>10. QueueInv'
    BY <1>2, QueueSame
  <1>11. CountInv'
    <2>1. pgref'[f] = pgref[f] - 1 /\ \A g \in Frame : g # f => pgref'[g] = pgref[g]
      BY <1>0, <1>2, <1>3 DEF TypeInv
    <2>2. Cardinality(Held(f) \ {<<t, va>>}) = Cardinality(Held(f)) - 1
      BY <1>7, HeldFinite, FS_RemoveElement
    <2> QED BY <2>1, <2>2, <1>3, <1>7, <1>8 DEF CountInv, RefInv
  <1>12. \A u \in Task, g \in Frame : Locks(u, g)' => Locks(u, g)
    <2> TAKE u \in Task, g \in Frame
    <2> HAVE Locks(u, g)'
    <2>1. u # t /\ at[u].pc \in Inside
      BY <1>2 DEF Locks, Inside
    <2>2. at[u].va \in VA
      BY <2>1, InsideBusy
    <2> QED BY <2>1, <2>2, <1>2, <1>4 DEF Locks
  <1>13. OwnInv'
    <2>1. ASSUME NEW u \in Task, NEW v \in VA, NEW g \in Frame, pte'[u][v].w, pte'[u][v].frame = g
          PROVE  Held(g)' = {<<u, v>>}
      <3>1. ~(u = t /\ v = va)
        BY <2>1, <1>4, InvalidEntry
      <3>2. Held(g) = {<<u, v>>}
        BY <2>1, <3>1, <1>4 DEF RefInv, OwnInv
      <3>3. g # f
        BY <3>1, <3>2, <1>7
      <3> QED BY <3>2, <3>3, <1>8
    <2>2. ASSUME NEW u \in Task, NEW g \in Frame, at'[u].pc = "keep", Locks(u, g)'
          PROVE  Held(g)' = {}
      <3>1. Held(g) = {}
        BY <2>2, <1>2, <1>12 DEF RefInv, OwnInv
      <3> QED BY <3>1, <1>7, <1>8
    <2>3. \A u, w \in Task, g \in Frame : Locks(u, g)' /\ Locks(w, g)' => u = w
      BY <1>12 DEF RefInv, OwnInv
    <2> QED BY <2>1, <2>2, <2>3 DEF OwnInv
  <1>14. RefInv'
    BY <1>5, <1>9, <1>10, <1>11, <1>13 DEF RefInv
  <1> QED BY <1>1, <1>3, <1>7, <1>8, <1>14

\* Pairing with c keeps the number of elements.
LEMMA PairsCard ==
    ASSUME NEW c, NEW V, IsFiniteSet(V)
    PROVE  /\ IsFiniteSet({<<c, va>> : va \in V})
           /\ Cardinality({<<c, va>> : va \in V}) = Cardinality(V)
  <1> DEFINE N == {<<c, va>> : va \in V}
             b == [va \in V |-> <<c, va>>]
  <1>1. b \in Bijection(V, N)
    <2>1. b \in [V -> N] /\ \A x, y \in V : b[x] = b[y] => x = y
      OBVIOUS
    <2>2. \A n \in N : \E x \in V : b[x] = n
      OBVIOUS
    <2> HIDE DEF b, N
    <2> QED BY <2>1, <2>2, Fun_IsBij
  <1>2. ExistsBijection(V, N)
    BY <1>1, Fun_ExistsBij
  <1> HIDE DEF N
  <1>3. IsFiniteSet(N) /\ Cardinality(N) = Cardinality(V)
    BY <1>2, FS_Bijection
  <1> QED BY <1>3 DEF N

\* What vma_gen_dup makes of an entry.
LEMMA Dup ==
    ASSUME RefInv, NEW p \in Task
    PROVE  /\ vma_gen_dup(p) \in [VA -> Entry]
           /\ \A va \in VA : /\ vma_gen_dup(p)[va].frame = pte[p][va].frame
                             /\ ~vma_gen_dup(p)[va].w
                             /\ pte[p][va] = Invalid => vma_gen_dup(p)[va] = Invalid
  <1>1. \A va \in VA : pte[p][va] \in Entry
    BY DEF RefInv, TypeInv
  <1>2. ASSUME NEW e \in Entry
        PROVE  set_cow_pte(e) \in Entry /\ set_cow_pte(e).frame = e.frame /\ ~set_cow_pte(e).w
    BY DEF set_cow_pte, Entry
  <1> QED BY <1>1, <1>2, InvalidEntry DEF vma_gen_dup

\* copy_vm: the child gets a reference to every frame of the parent, and nobody may write to them.
LEMMA CopyVM ==
    ASSUME RefInv, NEW p \in Task, NEW c \in Task, copy_vm(p, c)
    PROVE  /\ RefInv'
           /\ \A f \in Frame : Held(f) \subseteq Held(f)'
  <1> DEFINE V(f) == {va \in VA : pte[p][va].frame = f}
             N(f) == {<<c, va>> : va \in V(f)}
  <1>0. TypeInv
    BY DEF RefInv
  <1>1. PICK D : D = vma_gen_dup(p)
    OBVIOUS
  <1>2. /\ at[p] = User /\ at[c].pc = "none"
        /\ pte' = [pte EXCEPT ![p] = D, ![c] = D]
        /\ pgref' = [f \in Frame |-> pgref[f] + Cardinality(V(f))]
        /\ mem' = [mem EXCEPT ![c] = mem[p]]
        /\ at' = [at EXCEPT ![c] = User]
        /\ UNCHANGED <<content, kswap, tlb>>
    BY <1>1 DEF copy_vm
  <1>3. /\ D \in [VA -> Entry]
        /\ \A va \in VA : /\ D[va].frame = pte[p][va].frame /\ ~D[va].w
                          /\ pte[p][va] = Invalid => D[va] = Invalid
    BY <1>1, Dup
  <1>4. p # c /\ at[p].pc = "user" /\ at'[c].pc = "user"
        /\ \A u \in Task : u # c => at'[u] = at[u]
    BY <1>0, <1>2 DEF User, TypeInv
  <1>5. pte'[p] = D /\ pte'[c] = D /\ \A u \in Task : u \notin {p, c} => pte'[u] = pte[u]
    BY <1>0, <1>2, <1>4 DEF TypeInv
  <1>6. \A f \in Frame : IsFiniteSet(V(f)) /\ Cardinality(V(f)) \in Nat
    BY VMAssumption, FS_Subset, FS_CardinalityType
  <1>7. TypeInv'
    <2>1. pte' \in [Task -> [VA -> Entry]]
      BY <1>0, <1>2, <1>3 DEF TypeInv
    <2>2. pgref' \in [Frame -> Int]
      <3>1. \A f \in Frame : pgref[f] \in Int
        BY <1>0 DEF TypeInv
      <3>2. \A f \in Frame : Cardinality(V(f)) \in Int
        BY <1>6
      <3> HIDE DEF V
      <3>3. \A f \in Frame : pgref[f] + Cardinality(V(f)) \in Int
        BY <3>1, <3>2
      <3> QED BY <3>3, <1>2
    <2>3. at' \in [Task -> Place] /\ mem' \in [Task -> [VA -> Value]]
      BY <1>0, <1>2 DEF TypeInv, Place
    <2> QED BY <2>1, <2>2, <2>3, <1>0, <1>2 DEF TypeInv
  <1>8. /\ \A u \in Task, v \in VA : Busy(u, v)' <=> Busy(u, v)
        /\ \A v \in VA : ~Busy(p, v) /\ ~Busy(c, v)
    BY <1>2, <1>4 DEF Busy
  <1>9. \A va \in VA : pte[c][va] = Invalid
    BY <1>2 DEF RefInv, EntryInv
  <1>10. \A f \in Frame : /\ Held(f)' = Held(f) \cup N(f)
                           /\ Held(f) \cap N(f) = {}
                           /\ \A va \in V(f) : <<p, va>> \in Held(f)
    <2> TAKE f \in Frame
    <2>1. \A u \in Task, v \in VA : Counts(u, v, f)' <=> Counts(u, v, f) \/ (u = c /\ v \in V(f))
      <3> TAKE u \in Task, v \in VA
      <3>1. CASE u = c
        BY <3>1, <1>3, <1>5, <1>8, <1>9, InvalidEntry DEF Counts
      <3>2. CASE u = p
        BY <3>2, <1>3, <1>4, <1>5, <1>8 DEF Counts
      <3>3. CASE u \notin {p, c}
        BY <3>3, <1>5, <1>8 DEF Counts
      <3> QED BY <3>1, <3>2, <3>3
    <2>2. Held(f)' = Held(f) \cup N(f)
      BY <2>1 DEF Held, Page
    <2>3. \A va \in VA : ~Counts(c, va, f)
      BY <1>9, InvalidEntry DEF Counts
    <2>4. Held(f) \cap N(f) = {}
      BY <2>3, HeldPairs
    <2>5. \A va \in V(f) : <<p, va>> \in Held(f)
      BY <1>8, HeldPairs DEF Counts
    <2> QED BY <2>2, <2>4, <2>5
  <1>11. EntryInv'
    <2> SUFFICES ASSUME NEW u \in Task, NEW v \in VA
                 PROVE  /\ pte'[u][v].frame = "none" => pte'[u][v] = Invalid
                        /\ pte'[u][v].w => ~pte'[u][v].cow
                        /\ at'[u].pc = "none" => pte'[u][v] = Invalid
                        /\ Busy(u, v)' => pte'[u][v].cow /\ pte'[u][v].frame \in Frame
      BY DEF EntryInv
    <2>1. CASE u \in {p, c}
      <3>1. pte'[u][v].frame = "none" => pte'[u][v] = Invalid
        BY <2>1, <1>3, <1>5 DEF RefInv, EntryInv
      <3> QED BY <3>1, <2>1, <1>3, <1>4, <1>5, <1>8
    <2>2. CASE u \notin {p, c}
      BY <2>2, <1>4, <1>5, <1>8 DEF RefInv, EntryInv
    <2> QED BY <2>1, <2>2
  <1>12. QueueInv'
    <2>1. \A u \in Task : at[u].pc = "sleep" => at'[u] = at[u]
      BY <1>2, <1>4
    <2> QED BY <2>1, <1>2, QueueSame
  <1>13. CountInv'
    <2> SUFFICES ASSUME NEW f \in Frame
                 PROVE  pgref'[f] = Cardinality(Held(f)')
      BY DEF CountInv
    <2>1. IsFiniteSet(N(f)) /\ Cardinality(N(f)) = Cardinality(V(f))
      BY <1>6, PairsCard
    <2>2. Cardinality(Held(f) \cup N(f)) = Cardinality(Held(f)) + Cardinality(N(f))
      <3>1. Held(f) \cap N(f) = {} /\ Cardinality({}) = 0
        BY <1>10, FS_EmptySet
      <3>2. PICK H : H = Held(f) /\ IsFiniteSet(H) /\ Cardinality(H) \in Nat
        BY HeldFinite
      <3>3. PICK M : M = N(f) /\ IsFiniteSet(M) /\ Cardinality(M) \in Nat
        BY <1>6, <2>1
      <3>4. Cardinality(H \cup M) = Cardinality(H) + Cardinality(M) - Cardinality(H \cap M)
        BY <3>2, <3>3, FS_Union
      <3>5. Cardinality(H \cap M) = 0
        BY <3>1, <3>2, <3>3
      <3>6. Cardinality(H \cup M) = Cardinality(H) + Cardinality(M)
        <4> HIDE DEF N, V
        <4> QED BY <3>2, <3>3, <3>4, <3>5
      <3> QED BY <3>2, <3>3, <3>6
    <2> QED BY <2>1, <2>2, <1>2, <1>10 DEF RefInv, CountInv
  <1>14. \A u \in Task, f \in Frame : Locks(u, f)' => Locks(u, f) /\ at'[u] = at[u]
    BY <1>4, <1>5 DEF Locks
  <1>15. OwnInv'
    <2>1. ASSUME NEW f \in Frame, NEW S, Held(f) = S, \A va \in VA : <<p, va>> \notin S
          PROVE  Held(f)' = S
      BY <2>1, <1>10
    <2>2. ASSUME NEW u \in Task, NEW v \in VA, NEW f \in Frame, pte'[u][v].w, pte'[u][v].frame = f
          PROVE  Held(f)' = {<<u, v>>}
      <3>1. u \notin {p, c}
        BY <2>2, <1>3, <1>5
      <3>2. Held(f) = {<<u, v>>}
        BY <2>2, <3>1, <1>5 DEF RefInv, OwnInv
      <3> QED BY <2>1, <3>1, <3>2
    <2>3. ASSUME NEW u \in Task, NEW f \in Frame, at'[u].pc = "keep", Locks(u, f)'
          PROVE  Held(f)' = {}
      <3>1. Held(f) = {}
        BY <2>3, <1>14 DEF RefInv, OwnInv
      <3> QED BY <2>1, <3>1
    <2>4. \A u, w \in Task, f \in Frame : Locks(u, f)' /\ Locks(w, f)' => u = w
      BY <1>14 DEF RefInv, OwnInv
    <2> QED BY <2>2, <2>3, <2>4 DEF OwnInv
  <1>16. RefInv'
    BY <1>7, <1>11, <1>12, <1>13, <1>15 DEF RefInv
  <1> QED BY <1>10, <1>16

----------------------------------------------------------------------------
\* A file fault appends a thread that was not in the queue.
LEMMA FileFault ==
    ASSUME RefInv, NEW t \in Task, NEW va \in VA, file_fault(t, va)
    PROVE  RefInv'
  <1>0. TypeInv
    BY DEF RefInv
  <1>1. /\ at[t].pc = "user"
        /\ at' = [at EXCEPT ![t] = In("sleep", va)]
        /\ kswap' = Append(kswap, <<t, va>>)
        /\ UNCHANGED <<pte, pgref, content, mem>>
    BY DEF file_fault, User
  <1>2. In("sleep", va) \in Place /\ In("sleep", va).pc = "sleep"
    BY DEF In, Place
  <1>3. at'[t] = In("sleep", va) /\ \A u \in Task : u # t => at'[u] = at[u]
    BY <1>0, <1>1 DEF TypeInv
  <1>4. TypeInv'
    <2>1. <<t, va>> \in Page
      BY DEF Page
    <2> QED BY <2>1, <1>0, <1>1, <1>2 DEF TypeInv
  <1>5. \A u \in Task : at'[u] = at[u] \/ (at[u].pc \notin Inside /\ at'[u].pc \notin Inside)
    BY <1>1, <1>2, <1>3 DEF Inside
  <1>6. \A u \in Task, v \in VA : at'[u].pc = "none" => pte[u][v] = Invalid
    BY <1>2, <1>3 DEF RefInv, EntryInv
  <1>7. EntryInv' /\ CountInv' /\ OwnInv'
    BY <1>1, <1>5, <1>6, OnlyAt
  <1>8. QueueInv'
    <2>1. kswap \in Seq(Page)
      BY <1>0 DEF TypeInv
    <2>2. \A i \in 1 .. Len(kswap) : kswap[i][1] \in Task
      BY <2>1 DEF Page
    <2>3. \A i \in 1 .. Len(kswap) : kswap[i][1] # t /\ at'[kswap[i][1]] = In("sleep", kswap[i][2])
      <3> TAKE i \in 1 .. Len(kswap)
      <3>1. at[kswap[i][1]] = In("sleep", kswap[i][2])
        BY DEF RefInv, QueueInv
      <3>2. at[kswap[i][1]].pc = "sleep"
        BY <3>1 DEF In
      <3> QED BY <3>1, <3>2, <2>2, <1>1, <1>3
    <2>4. /\ Len(kswap') = Len(kswap) + 1 /\ kswap'[Len(kswap) + 1] = <<t, va>>
          /\ \A i \in 1 .. Len(kswap) : kswap'[i] = kswap[i]
      BY <2>1, <1>1
    <2>5. Len(kswap) \in Nat
      BY <2>1
    <2>6. \A i \in 1 .. Len(kswap') : i \in 1 .. Len(kswap) \/ i = Len(kswap) + 1
      BY <2>4, <2>5
    <2>7. \A i \in 1 .. Len(kswap') : at'[kswap'[i][1]] = In("sleep", kswap'[i][2])
      BY <2>3, <2>4, <2>6, <1>3
    <2>8. \A i, j \in 1 .. Len(kswap) : kswap[i][1] = kswap[j][1] => i = j
      BY DEF RefInv, QueueInv
    <2>9. \A i, j \in 1 .. Len(kswap') : kswap'[i][1] = kswap'[j][1] => i = j
      BY <2>3, <2>4, <2>6, <2>8
    <2> QED BY <2>7, <2>9 DEF QueueInv
  <1> QED BY <1>4, <1>7, <1>8 DEF RefInv

\* The thread at the head of the queue sleeps, and is there once.
LEMMA KswapHead ==
    ASSUME RefInv, kswap # <<>>
    PROVE  /\ Head(kswap) \in Page /\ Head(kswap)[1] \in Task /\ Head(kswap)[2] \in VA
           /\ at[Head(kswap)[1]].pc = "sleep"
           /\ Tail(kswap) \in Seq(Page)
           /\ \A i \in 1 .. Len(Tail(kswap)) :
                 /\ i + 1 \in 1 .. Len(kswap) /\ Tail(kswap)[i] = kswap[i + 1]
                 /\ kswap[i + 1][1] # Head(kswap)[1]
                 /\ kswap[i + 1][1] \in Task
  <1>1. kswap \in Seq(Page)
    BY DEF RefInv, TypeInv
  <1>2. /\ Head(kswap) = kswap[1] /\ Len(kswap) \in Nat /\ Len(kswap) > 0
        /\ Tail(kswap) \in Seq(Page) /\ Len(Tail(kswap)) = Len(kswap) - 1
        /\ \A i \in 1 .. Len(kswap) - 1 : Tail(kswap)[i] = kswap[i + 1]
    BY <1>1
  <1>3. \A i \in 1 .. Len(kswap) : kswap[i] \in Page /\ kswap[i][1] \in Task /\ kswap[i][2] \in VA
    BY <1>1 DEF Page
  <1>4. at[kswap[1][1]] = In("sleep", kswap[1][2])
    BY <1>2 DEF RefInv, QueueInv
  <1>5. at[kswap[1][1]].pc = "sleep"
    BY <1>4 DEF In
  <1>6. \A i, j \in 1 .. Len(kswap) : kswap[i][1] = kswap[j][1] => i = j
    BY DEF RefInv, QueueInv
  <1>7. ASSUME NEW i \in 1 .. Len(kswap) - 1
        PROVE  i + 1 \in 1 .. Len(kswap) /\ kswap[i + 1][1] # kswap[1][1]
    <2>1. i + 1 \in 1 .. Len(kswap) /\ i + 1 # 1 /\ 1 \in 1 .. Len(kswap)
      BY <1>2
    <2> QED BY <2>1, <1>6
  <1>8. kswap[1] \in Page /\ kswap[1][1] \in Task /\ kswap[1][2] \in VA
    BY <1>2, <1>3
  <1> QED BY <1>2, <1>3, <1>5, <1>7, <1>8

\* kswapd maps the page of the thread at the head.
LEMMA Kswapd ==
    ASSUME RefInv, kswapd
    PROVE  RefInv'
  <1>0. TypeInv
    BY DEF RefInv
  <1>1. kswap # <<>> /\ kswap' = Tail(kswap)
    BY DEF kswapd
  <1>2. PICK t, va : t = Head(kswap)[1] /\ va = Head(kswap)[2]
    OBVIOUS
  <1>3. mappages(t, va, 1) /\ at' = [at EXCEPT ![t] = User]
    BY <1>2 DEF kswapd
  <1>4. t \in Task /\ va \in VA /\ at[t].pc = "sleep"
    BY <1>1, <1>2, KswapHead
  <1>5. 1 \in Value /\ at[t].pc \notin Inside
    BY <1>4 DEF Value, Inside
  <1>6. /\ EntryInv' /\ CountInv' /\ OwnInv'
        /\ pte' \in [Task -> [VA -> Entry]] /\ pgref' \in [Frame -> Int]
        /\ content' \in [Frame -> Value] /\ mem' \in [Task -> [VA -> Value]]
    BY <1>3, <1>4, <1>5, MapPages
  <1>7. at' \in [Task -> Place] /\ \A u \in Task : u # t => at'[u] = at[u]
    BY <1>0, <1>3 DEF TypeInv, Place
  <1>8. TypeInv'
    BY <1>1, <1>6, <1>7, KswapHead DEF TypeInv
  <1>9. QueueInv'
    <2>1. \A i \in 1 .. Len(kswap') : /\ i + 1 \in 1 .. Len(kswap) /\ kswap'[i] = kswap[i + 1]
                                      /\ at'[kswap[i + 1][1]] = at[kswap[i + 1][1]]
      BY <1>1, <1>2, <1>7, KswapHead
    <2>2. \A i \in 1 .. Len(kswap') : at'[kswap'[i][1]] = In("sleep", kswap'[i][2])
      BY <2>1 DEF RefInv, QueueInv
    <2>3. \A i, j \in 1 .. Len(kswap) : kswap[i][1] = kswap[j][1] => i = j
      BY DEF RefInv, QueueInv
    <2>4. \A i, j \in 1 .. Len(kswap') : kswap'[i][1] = kswap'[j][1] => i + 1 = j + 1
      BY <2>1, <2>3
    <2>5. \A i, j \in 1 .. Len(kswap') : i + 1 = j + 1 => i = j
      OBVIOUS
    <2> QED BY <2>2, <2>4, <2>5 DEF QueueInv
  <1> QED BY <1>6, <1>8, <1>9 DEF RefInv

\* do_exec and vma_gen_fault.
LEMMA MapStep ==
    ASSUME RefInv, NEW t \in Task, NEW va \in VA, mappages(t, va, 0), kswap' = kswap,
           at[t].pc \in {"user", "exec"}, at' = [at EXCEPT ![t] = User]
    PROVE  RefInv'
  <1>0. TypeInv
    BY DEF RefInv
  <1>1. 0 \in Value /\ at[t].pc \notin Inside
    BY DEF Value, Inside
  <1>2. /\ EntryInv' /\ CountInv' /\ OwnInv'
        /\ pte' \in [Task -> [VA -> Entry]] /\ pgref' \in [Frame -> Int]
        /\ content' \in [Frame -> Value] /\ mem' \in [Task -> [VA -> Value]]
    BY <1>1, MapPages
  <1>3. at' \in [Task -> Place] /\ \A u \in Task : at[u].pc = "sleep" => at'[u] = at[u]
    BY <1>0 DEF TypeInv, Place
  <1>4. QueueInv'
    BY <1>3, QueueSame
  <1> QED BY <1>0, <1>2, <1>3, <1>4 DEF RefInv, TypeInv

\* A task moves on and nothing else changes.
LEMMA MoveStep ==
    ASSUME RefInv, NEW t \in Task, NEW a \in {User, [pc |-> "none"], [pc |-> "exit"], [pc |-> "exec"]},
           at[t].pc \in {"user", "exit", "exec"}, at' = [at EXCEPT ![t] = a],
           a.pc = "none" => \A va \in VA : ~Valid(t, va),
           UNCHANGED <<pte, pgref, content, mem, kswap>>
    PROVE  RefInv'
  <1>0. TypeInv
    BY DEF RefInv
  <1>1. a.pc \notin Inside /\ a \in Place
    BY DEF Inside, Place, User
  <1>2. at'[t] = a /\ \A u \in Task : u # t => at'[u] = at[u]
    BY <1>0 DEF TypeInv
  <1>3. \A u \in Task : at'[u] = at[u] \/ (at[u].pc \notin Inside /\ at'[u].pc \notin Inside)
    BY <1>1, <1>2 DEF Inside
  <1>4. \A u \in Task, v \in VA : at'[u].pc = "none" => pte[u][v] = Invalid
    BY <1>2 DEF RefInv, EntryInv, Valid
  <1>5. EntryInv' /\ CountInv' /\ OwnInv'
    BY <1>3, <1>4, OnlyAt
  <1>6. \A u \in Task : at[u].pc = "sleep" => at'[u] = at[u]
    BY <1>2
  <1>7. QueueInv'
    BY <1>6, QueueSame
  <1>8. TypeInv'
    BY <1>0, <1>1 DEF TypeInv
  <1> QED BY <1>5, <1>7, <1>8 DEF RefInv

\* No task moves and no page table changes.
LEMMA StillStep ==
    ASSUME RefInv, UNCHANGED <<pte, pgref, at, kswap>>,
           content' \in [Frame -> Value], mem' \in [Task -> [VA -> Value]]
    PROVE  RefInv'
  <1>1. \A u \in Task, v \in VA : at'[u].pc = "none" => pte[u][v] = Invalid
    BY DEF RefInv, EntryInv
  <1>2. EntryInv' /\ CountInv' /\ OwnInv'
    BY <1>1, OnlyAt
  <1>3. QueueInv'
    BY QueueSame
  <1>4. TypeInv'
    BY DEF RefInv, TypeInv
  <1> QED BY <1>2, <1>3, <1>4 DEF RefInv

----------------------------------------------------------------------------
\* The invariant holds initially ...
LEMMA RefInit == VMInit => RefInv
  <1> SUFFICES ASSUME VMInit PROVE RefInv
    OBVIOUS
  <1>1. PICK t \in Task : at = [u \in Task |-> [pc |-> IF u = t THEN "exec" ELSE "none"]]
    BY DEF VMInit
  <1>2. \A u \in Task : at[u] \in Place /\ at[u].pc \in {"exec", "none"}
    BY <1>1 DEF Place
  <1>3. \A u \in Task, v \in VA : pte[u][v] = Invalid /\ ~Busy(u, v)
    BY <1>2 DEF VMInit, Busy
  <1>4. TypeInv
    <2>1. pte \in [Task -> [VA -> Entry]] /\ at \in [Task -> Place]
      BY <1>1, <1>2, InvalidEntry DEF VMInit
    <2> QED BY <2>1 DEF VMInit, TypeInv, Value
  <1>5. EntryInv
    BY <1>3, InvalidEntry DEF EntryInv
  <1>6. QueueInv
    BY DEF VMInit, QueueInv
  <1>7. \A f \in Frame : Held(f) = {}
    BY <1>3, InvalidEntry DEF Held, Counts, Page
  <1>8. CountInv
    BY <1>7, FS_EmptySet DEF CountInv, VMInit
  <1>9. OwnInv
    BY <1>2, <1>3, InvalidEntry DEF OwnInv, Locks
  <1> QED BY <1>4, <1>5, <1>6, <1>8, <1>9 DEF RefInv

\* ... and every step keeps it.
LEMMA RefNext == RefInv /\ [VMNext]_vmvars => RefInv'
  <1> SUFFICES ASSUME RefInv, [VMNext]_vmvars PROVE RefInv'
    OBVIOUS
  <1>0. TypeInv
    BY DEF RefInv
  <1>1. CASE UNCHANGED vmvars
    BY <1>0, <1>1, StillStep DEF vmvars, TypeInv
  <1>2. CASE kswapd
    BY <1>2, Kswapd
  <1>3. ASSUME NEW t \in Task, do_exec(t)
        PROVE  RefInv'
    <2>1. at[t].pc = "exec" /\ at' = [at EXCEPT ![t] = User] /\ kswap' = kswap /\ alloc_user_stack(t)
      BY <1>3 DEF do_exec
    <2>2. CASE UNCHANGED <<pte, pgref, content, mem>>
      <3>1. User.pc # "none"
        BY DEF User
      <3> QED BY <2>1, <2>2, <3>1, MoveStep
    <2>3. CASE \E va \in VA : mappages(t, va, 0)
      BY <2>1, <2>3, MapStep
    <2> QED BY <2>1, <2>2, <2>3 DEF alloc_user_stack
  <1>4. ASSUME NEW t \in Task, switch_mm(t)
        PROVE  RefInv'
    BY <1>0, <1>4, StillStep DEF switch_mm, TypeInv
  <1>5. ASSUME NEW t \in Task, exit_end(t)
        PROVE  RefInv'
    BY <1>5, MoveStep DEF exit_end
  <1>6. ASSUME NEW t \in Task, NEW why \in {"exit", "exec"}, free_begin(t, why)
        PROVE  RefInv'
    <2>1. at[t].pc = "user" /\ [pc |-> why].pc # "none"
      BY <1>6 DEF free_begin, User
    <2> QED BY <2>1, <1>6, MoveStep DEF free_begin
  <1>7. ASSUME NEW t \in Task, NEW va \in VA, gen_fault(t, va)
        PROVE  RefInv'
    <2>1. at[t].pc = "user" /\ at' = [at EXCEPT ![t] = User]
      BY <1>0, <1>7 DEF gen_fault, User, TypeInv
    <2> QED BY <2>1, <1>7, MapStep DEF gen_fault
  <1>8. ASSUME NEW t \in Task, NEW va \in VA, NEW x \in Value, store(t, va, x)
        PROVE  RefInv'
    BY <1>0, <1>8, StillStep DEF store, TypeInv
  <1> QED
    BY <1>1, <1>2, <1>3, <1>4, <1>5, <1>6, <1>7, <1>8,
       FileFault, CowBegin, CowCopy, CowKeep, Close, CopyVM
       DEF VMNext, VMStep

\* The invariant gives RefExact: the entries that map a frame are those that count and
\* those of the tasks in handle_cow_page_fault, one each.
LEMMA RefInvExact == RefInv => RefExact
  <1> SUFFICES ASSUME RefInv, NEW f \in Frame
               PROVE  /\ pgref[f] = Cardinality(Mapped(f)) - Cardinality({t \in Task : Locks(t, f)})
                      /\ \A m \in Mapped(f) : pte[m[1]][m[2]].w => pgref[f] = 1
    BY DEF RefExact
  <1> DEFINE L == {t \in Task : Locks(t, f)}
             B == {<<t, at[t].va>> : t \in L}
             b == [t \in L |-> <<t, at[t].va>>]
  <1>1. \A t \in L : at[t].va \in VA /\ Busy(t, at[t].va) /\ pte[t][at[t].va].frame = f
    BY InsideBusy DEF Locks, Inside
  <1>2. \A t \in Task, va \in VA : Busy(t, va) /\ pte[t][va].frame = f => t \in L /\ va = at[t].va
    BY DEF Busy, Locks
  <1>3. IsFiniteSet(L) /\ Cardinality(L) \in Nat
    BY VMAssumption, FS_Subset, FS_CardinalityType
  <1>4. IsFiniteSet(B) /\ Cardinality(B) = Cardinality(L)
    <2>1. b \in [L -> B] /\ \A x, y \in L : b[x] = b[y] => x = y
      OBVIOUS
    <2>2. \A n \in B : \E x \in L : b[x] = n
      OBVIOUS
    <2> HIDE DEF b, B, L
    <2>3. b \in Bijection(L, B)
      BY <2>1, <2>2, Fun_IsBij
    <2> QED BY <2>3, <1>3, Fun_ExistsBij, FS_Bijection
  <1>5. Mapped(f) = Held(f) \cup B
    <2>1. \A t \in Task, va \in VA : <<t, va>> \in B <=> Busy(t, va) /\ pte[t][va].frame = f
      BY <1>1, <1>2
    <2>2. \A m \in B : m \in Page
      BY <1>1 DEF Page
    <2> HIDE DEF B
    <2>3. \A t \in Task, va \in VA :
             <<t, va>> \in Mapped(f) <=> <<t, va>> \in Held(f) \/ <<t, va>> \in B
      BY <2>1, HeldPairs DEF Mapped, Counts
    <2>4. Mapped(f) \subseteq Page /\ Held(f) \subseteq Page
      BY DEF Mapped, Held, Page
    <2> QED BY <2>2, <2>3, <2>4 DEF Page
  <1>6. Held(f) \cap B = {}
    BY <1>1, HeldPairs DEF Counts
  <1>7. PICK H : H = Held(f) /\ IsFiniteSet(H) /\ Cardinality(H) \in Nat /\ pgref[f] = Cardinality(H)
    BY HeldFinite DEF RefInv, CountInv
  <1>8. pgref[f] = Cardinality(Mapped(f)) - Cardinality(L)
    <2> HIDE DEF B, L
    <2>1. Cardinality(H \cup B) = Cardinality(H) + Cardinality(B) - Cardinality(H \cap B)
      BY <1>4, <1>7, FS_Union
    <2>2. Cardinality(H \cap B) = 0
      BY <1>6, <1>7, FS_EmptySet
    <2>3. Cardinality(Mapped(f)) = Cardinality(H \cup B)
      BY <1>5, <1>7
    <2> QED BY <2>1, <2>2, <2>3, <1>3, <1>4, <1>7
  <1>9. ASSUME NEW m \in Mapped(f), pte[m[1]][m[2]].w
        PROVE  pgref[f] = 1
    <2>1. m[1] \in Task /\ m[2] \in VA /\ pte[m[1]][m[2]].frame = f
      BY DEF Mapped
    <2>2. Held(f) = {<<m[1], m[2]>>}
      BY <2>1, <1>9 DEF RefInv, OwnInv
    <2> QED BY <2>2, <1>7, FS_Singleton
  <1> QED BY <1>8, <1>9

\* In every reachable state, for any numbers of tasks, pages and frames, the reference
\* count that get_page, put_page and handle_cow_page_fault keep is exact, and a page
\* that is mapped writable is mapped once.
THEOREM RefExactTheorem == VMSpec => []RefExact
  <1>1. VMInit => RefInv
    BY RefInit
  <1>2. RefInv /\ [VMNext]_vmvars => RefInv'
    BY RefNext
  <1>3. RefInv => RefExact
    BY RefInvExact
  <1> QED BY <1>1, <1>2, <1>3, PTL DEF VMSpec

----------------------------------------------------------------------------
\* A frame that handle_cow_page_fault copies is still referenced by another entry, and
\* nobody may write to it, unless an exiting task has given it back.
CopyInv ==
    \A t \in Task, va \in VA, f \in Frame :
        at[t].pc = "copy" /\ at[t].va = va /\ pte[t][va].frame = f /\ <<t, va>> \notin spoiled
          => /\ Held(f) # {}
             /\ \A u \in Task, v \in VA : pte[u][v].frame = f => ~pte[u][v].w

IsoInv == Isolation /\ CopyInv

\* An entry that maps f without counting belongs to a task in handle_cow_page_fault.
LEMMA Uncounted ==
    ASSUME RefInv, IsoInv, NEW t \in Task, NEW va \in VA, NEW f \in Frame,
           pte[t][va].frame = f, <<t, va>> \notin Held(f)
    PROVE  /\ Busy(t, va) /\ Locks(t, f) /\ at[t].va = va
           /\ at[t].pc = "keep" \/ <<t, va>> \in spoiled
                 \/ /\ Held(f) # {}
                    /\ \A u \in Task, v \in VA : pte[u][v].frame = f => ~pte[u][v].w
  <1>1. Busy(t, va)
    BY HeldPairs DEF Counts
  <1>2. Locks(t, f) /\ at[t].va = va
    BY <1>1 DEF Busy, Locks
  <1> QED BY <1>1, <1>2 DEF Busy, IsoInv, CopyInv

\* An entry of a free frame has been spoiled.
LEMMA FreeSpoiled ==
    ASSUME RefInv, IsoInv, NEW f \in Free, NEW t \in Task, NEW va \in VA, pte[t][va].frame = f
    PROVE  <<t, va>> \in spoiled
  <1>1. f \in Frame /\ Held(f) = {} /\ \A u \in Task : Locks(u, f) => at[u].pc = "copy"
    BY FreeHeld
  <1> QED BY <1>1, Uncounted

\* mappages fills a frame that no other entry sees.
LEMMA IsoMap ==
    ASSUME RefInv, IsoInv, NEW t \in Task, NEW va \in VA, NEW x \in Value, mappages(t, va, x),
           at[t].pc \notin Inside, at' = [at EXCEPT ![t] = User]
    PROVE  IsoInv'
  <1> DEFINE E(f) == [frame |-> f, w |-> va \in vma_is_w, cow |-> FALSE]
  <1>0. TypeInv
    BY DEF RefInv
  <1>1. PICK f \in Free : /\ ~Valid(t, va)
                           /\ pte' = [pte EXCEPT ![t][va] = E(f)]
                           /\ content' = [content EXCEPT ![f] = x]
                           /\ mem' = [mem EXCEPT ![t][va] = x]
                           /\ spoiled' = spoiled \ {<<t, va>>}
    BY DEF mappages
  <1>2. f \in Frame /\ Held(f) = {}
    BY FreeHeld
  <1>3. E(f).frame = f
    OBVIOUS
  <1> HIDE DEF E
  <1>4. /\ pte'[t][va] = E(f)
        /\ \A u \in Task, v \in VA : ~(u = t /\ v = va) => pte'[u][v] = pte[u][v]
    BY <1>0, <1>1 DEF TypeInv
  <1>5. /\ mem'[t][va] = x
        /\ \A u \in Task, v \in VA : ~(u = t /\ v = va) => mem'[u][v] = mem[u][v]
    BY <1>0, <1>1 DEF TypeInv
  <1>6. content'[f] = x /\ \A g \in Frame : g # f => content'[g] = content[g]
    BY <1>0, <1>1, <1>2 DEF TypeInv
  <1>7. at'[t].pc = "user" /\ \A u \in Task : u # t => at'[u] = at[u]
    BY <1>0 DEF TypeInv, User
  <1>8. Isolation'
    <2> SUFFICES ASSUME NEW u \in Task, NEW v \in VA, Valid(u, v)', <<u, v>> \notin spoiled'
                 PROVE  content'[pte'[u][v].frame] = mem'[u][v]
      BY DEF Isolation
    <2>1. CASE u = t /\ v = va
      BY <2>1, <1>3, <1>4, <1>5, <1>6
    <2>2. CASE ~(u = t /\ v = va)
      <3>1. pte'[u][v] = pte[u][v] /\ Valid(u, v) /\ <<u, v>> \notin spoiled
        BY <2>2, <1>1, <1>4 DEF Valid
      <3>2. pte[u][v].frame \in Frame /\ pte[u][v].frame # f
        BY <3>1, ValidFrame, FreeSpoiled
      <3> QED BY <3>1, <3>2, <2>2, <1>5, <1>6 DEF IsoInv, Isolation
    <2> QED BY <2>1, <2>2
  <1>9. CopyInv'
    <2> SUFFICES ASSUME NEW u \in Task, NEW v \in VA, NEW g \in Frame, at'[u].pc = "copy",
                        at'[u].va = v, pte'[u][v].frame = g, <<u, v>> \notin spoiled'
                 PROVE  /\ Held(g)' # {}
                        /\ \A y \in Task, z \in VA : pte'[y][z].frame = g => ~pte'[y][z].w
      BY DEF CopyInv
    <2>1. u # t
      BY <1>7
    <2>2. at[u].pc = "copy" /\ at[u].va = v /\ pte[u][v].frame = g /\ <<u, v>> \notin spoiled
      BY <2>1, <1>1, <1>4, <1>7
    <2>3. /\ Held(g) # {}
          /\ \A y \in Task, z \in VA : pte[y][z].frame = g => ~pte[y][z].w
      BY <2>2 DEF IsoInv, CopyInv
    <2>4. g # f /\ Held(g) \subseteq Held(g)'
      BY <2>3, <1>2, MapPages
    <2> QED BY <2>3, <2>4, <1>3, <1>4
  <1> QED BY <1>8, <1>9 DEF IsoInv

\* The end of handle_cow_page_fault: the entry goes to g, what the others see stays.
LEMMA IsoCow ==
    ASSUME RefInv, IsoInv, NEW t \in Task, NEW va \in VA, NEW g \in Frame, NEW e \in Entry,
           Busy(t, va), Held(g) = {}, e.frame = g,
           pte' = [pte EXCEPT ![t][va] = e],
           at' = [at EXCEPT ![t] = User],
           mem' = mem, spoiled' = spoiled,
           <<t, va>> \notin spoiled => content'[g] = mem[t][va],
           \A u \in Task, v \in VA :
              ~(u = t /\ v = va) /\ Valid(u, v) /\ <<u, v>> \notin spoiled
                 => content'[pte[u][v].frame] = content[pte[u][v].frame],
           \A h \in Frame : Held(h) \subseteq Held(h)'
    PROVE  IsoInv'
  <1>0. TypeInv
    BY DEF RefInv
  <1>1. /\ pte'[t][va] = e
        /\ \A u \in Task, v \in VA : ~(u = t /\ v = va) => pte'[u][v] = pte[u][v]
    BY <1>0 DEF TypeInv
  <1>2. at'[t].pc = "user" /\ \A u \in Task : u # t => at'[u] = at[u]
    BY <1>0 DEF TypeInv, User
  <1>3. Isolation'
    <2> SUFFICES ASSUME NEW u \in Task, NEW v \in VA, Valid(u, v)', <<u, v>> \notin spoiled
                 PROVE  content'[pte'[u][v].frame] = mem[u][v]
      BY DEF Isolation
    <2>1. CASE u = t /\ v = va
      BY <2>1, <1>1
    <2>2. CASE ~(u = t /\ v = va)
      <3>1. pte'[u][v] = pte[u][v] /\ Valid(u, v)
        BY <2>2, <1>1 DEF Valid
      <3> QED BY <3>1, <2>2 DEF IsoInv, Isolation
    <2> QED BY <2>1, <2>2
  <1>4. CopyInv'
    <2> SUFFICES ASSUME NEW u \in Task, NEW v \in VA, NEW h \in Frame, at'[u].pc = "copy",
                        at'[u].va = v, pte'[u][v].frame = h, <<u, v>> \notin spoiled
                 PROVE  /\ Held(h)' # {}
                        /\ \A y \in Task, z \in VA : pte'[y][z].frame = h => ~pte'[y][z].w
      BY DEF CopyInv
    <2>1. u # t
      BY <1>2
    <2>2. at[u].pc = "copy" /\ at[u].va = v /\ pte[u][v].frame = h
      BY <2>1, <1>1, <1>2
    <2>3. /\ Held(h) # {}
          /\ \A y \in Task, z \in VA : pte[y][z].frame = h => ~pte[y][z].w
      BY <2>2 DEF IsoInv, CopyInv
    <2>4. h # g /\ Held(h) \subseteq Held(h)'
      BY <2>3
    <2> QED BY <2>3, <2>4, <1>1
  <1> QED BY <1>3, <1>4 DEF IsoInv

\* ... with a copy ...
LEMMA IsoCopy ==
    ASSUME RefInv, IsoInv, NEW t \in Task, cow_copy(t)
    PROVE  IsoInv'
  <1>0. TypeInv
    BY DEF RefInv
  <1>1. PICK va : va = at[t].va
    OBVIOUS
  <1>2. PICK f : f = pte[t][va].frame
    OBVIOUS
  <1>3. /\ at[t].pc = "copy" /\ at' = [at EXCEPT ![t] = User]
        /\ mem' = mem /\ spoiled' = spoiled
    BY DEF cow_copy
  <1>4. /\ va \in VA /\ Busy(t, va) /\ f \in Frame /\ pte[t][va] \in Entry /\ pte[t][va].cow
    BY <1>1, <1>2, <1>3, InsideBusy DEF Inside
  <1>5. PICK g \in Free :
           /\ pte' = [pte EXCEPT ![t][va] = clear_cow_pte([@ EXCEPT !.frame = g])]
           /\ content' = [content EXCEPT ![g] = IF g = f THEN 0 ELSE content[f]]
    BY <1>1, <1>2 DEF cow_copy
  <1>6. PICK e : e = clear_cow_pte([pte[t][va] EXCEPT !.frame = g])
    OBVIOUS
  <1>7. g \in Frame /\ Held(g) = {}
    BY FreeHeld
  <1>8. e \in Entry /\ e.frame = g
    BY <1>4, <1>6, <1>7 DEF Entry, clear_cow_pte
  <1>9. pte' = [pte EXCEPT ![t][va] = e]
    BY <1>0, <1>4, <1>5, <1>6 DEF TypeInv
  <1>10. /\ content'[g] = IF g = f THEN 0 ELSE content[f]
         /\ \A h \in Frame : h # g => content'[h] = content[h]
    BY <1>0, <1>5, <1>7 DEF TypeInv
  <1>11. <<t, va>> \notin spoiled => content'[g] = mem[t][va]
    <2> HAVE <<t, va>> \notin spoiled
    <2>1. g # f
      BY <1>2, <1>4, FreeSpoiled
    <2>2. Valid(t, va)
      BY <1>4, InvalidEntry DEF Valid
    <2>3. content[f] = mem[t][va]
      BY <2>2, <1>2, <1>4 DEF IsoInv, Isolation
    <2> QED BY <2>1, <2>3, <1>10
  <1>12. ASSUME NEW u \in Task, NEW v \in VA, Valid(u, v), <<u, v>> \notin spoiled
         PROVE  content'[pte[u][v].frame] = content[pte[u][v].frame]
    <2>1. pte[u][v].frame \in Frame /\ pte[u][v].frame # g
      BY <1>12, ValidFrame, FreeSpoiled
    <2> QED BY <2>1, <1>10
  <1>13. \A h \in Frame : Held(h) \subseteq Held(h)'
    BY CowCopy
  <1> QED BY <1>3, <1>4, <1>7, <1>8, <1>9, <1>11, <1>12, <1>13, IsoCow

\* ... or with the frame itself.
LEMMA IsoKeep ==
    ASSUME RefInv, IsoInv, NEW t \in Task, cow_keep(t)
    PROVE  IsoInv'
  <1>0. TypeInv
    BY DEF RefInv
  <1>1. PICK va : va = at[t].va
    OBVIOUS
  <1>2. PICK f : f = pte[t][va].frame
    OBVIOUS
  <1>3. /\ at[t].pc = "keep" /\ at' = [at EXCEPT ![t] = User]
        /\ content' = content /\ mem' = mem /\ spoiled' = spoiled
        /\ pte' = [pte EXCEPT ![t][va] = clear_cow_pte(@)]
    BY <1>1, <1>2 DEF cow_keep
  <1>4. /\ va \in VA /\ Busy(t, va) /\ f \in Frame /\ pte[t][va] \in Entry /\ Locks(t, f)
        /\ pte[t][va].cow
    BY <1>1, <1>2, <1>3, InsideBusy DEF Inside
  <1>5. Held(f) = {}
    BY <1>3, <1>4 DEF RefInv, OwnInv
  <1>6. PICK e : e = clear_cow_pte(pte[t][va])
    OBVIOUS
  <1>7. e \in Entry /\ e.frame = f
    BY <1>2, <1>4, <1>6 DEF Entry, clear_cow_pte
  <1>8. pte' = [pte EXCEPT ![t][va] = e]
    BY <1>0, <1>3, <1>4, <1>6 DEF TypeInv
  <1>9. <<t, va>> \notin spoiled => content'[f] = mem[t][va]
    <2>1. Valid(t, va)
      BY <1>4, InvalidEntry DEF Valid
    <2> QED BY <2>1, <1>2, <1>3, <1>4 DEF IsoInv, Isolation
  <1>10. \A h \in Frame : Held(h) \subseteq Held(h)'
    BY CowKeep
  <1> QED BY <1>3, <1>4, <1>5, <1>7, <1>8, <1>9, <1>10, IsoCow

\* Two elements are left with one when one is taken.
LEMMA OneLeft ==
    ASSUME NEW S, IsFiniteSet(S), NEW m \in S, Cardinality(S) # 1
    PROVE  S \ {m} # {}
  <1> SUFFICES ASSUME S \ {m} = {} PROVE FALSE
    OBVIOUS
  <1>1. S = {m}
    OBVIOUS
  <1> QED BY <1>1, FS_Singleton

\* handle_cow_page_fault copies only what another entry maps, and nobody may write to.
LEMMA IsoBegin ==
    ASSUME RefInv, IsoInv, NEW t \in Task, NEW va \in VA, cow_begin(t, va)
    PROVE  IsoInv'
  <1>0. TypeInv
    BY DEF RefInv
  <1>1. PICK f \in Frame : /\ f = pte[t][va].frame /\ <<t, va>> \in Held(f)
                           /\ Held(f)' = Held(f) \ {<<t, va>>}
                           /\ \A g \in Frame : g # f => Held(g)' = Held(g)
    BY CowBegin
  <1>2. /\ at[t] = User /\ pte[t][va].cow
        /\ \A u \in Task : ~Locks(u, f)
        /\ at' = [at EXCEPT ![t] = In(IF pgref[f] > 1 THEN "copy" ELSE "keep", va)]
        /\ UNCHANGED <<pte, content, mem, spoiled>>
    BY <1>1 DEF cow_begin
  <1>3. /\ at'[t].va = va
        /\ at'[t].pc = "copy" => pgref[f] > 1
        /\ \A u \in Task : u # t => at'[u] = at[u]
    BY <1>0, <1>2 DEF TypeInv, In
  <1>4. Isolation'
    BY <1>2 DEF IsoInv, Isolation, Valid
  <1>5. CopyInv'
    <2> SUFFICES ASSUME NEW u \in Task, NEW v \in VA, NEW g \in Frame, at'[u].pc = "copy",
                        at'[u].va = v, pte[u][v].frame = g, <<u, v>> \notin spoiled
                 PROVE  /\ Held(g)' # {}
                        /\ \A y \in Task, z \in VA : pte[y][z].frame = g => ~pte[y][z].w
      BY <1>2 DEF CopyInv
    <2>1. CASE u = t
      <3>1. v = va /\ g = f /\ pgref[f] > 1
        BY <2>1, <1>1, <1>3
      <3>2. Cardinality(Held(f)) # 1
        BY <3>1 DEF RefInv, CountInv
      <3>3. Held(f)' # {}
        BY <3>2, <1>1, HeldFinite, OneLeft
      <3>4. ASSUME NEW y \in Task, NEW z \in VA, pte[y][z].frame = f, pte[y][z].w
            PROVE  FALSE
        <4>1. Held(f) = {<<y, z>>} /\ ~pte[y][z].cow
          BY <3>4 DEF RefInv, OwnInv, EntryInv
        <4> QED BY <4>1, <1>1, <1>2
      <3> QED BY <3>1, <3>3, <3>4
    <2>2. CASE u # t
      <3>1. at[u].pc = "copy" /\ at[u].va = v
        BY <2>2, <1>3
      <3>2. g # f
        BY <3>1, <1>2 DEF Locks
      <3> QED BY <3>1, <3>2, <1>1 DEF IsoInv, CopyInv
    <2> QED BY <2>1, <2>2
  <1> QED BY <1>4, <1>5 DEF IsoInv

\* The last reference goes: who is copying the frame is spoiled.
LEMMA IsoClose ==
    ASSUME RefInv, IsoInv, NEW t \in Task, NEW va \in VA, vma_gen_close(t, va)
    PROVE  IsoInv'
  <1>0. TypeInv
    BY DEF RefInv
  <1>1. PICK f \in Frame : /\ f = pte[t][va].frame /\ <<t, va>> \in Held(f)
                           /\ Held(f)' = Held(f) \ {<<t, va>>}
                           /\ \A g \in Frame : g # f => Held(g)' = Held(g)
    BY Close
  <1>2. /\ at[t].pc \in {"exit", "exec"} /\ Valid(t, va)
        /\ pte' = [pte EXCEPT ![t][va] = Invalid]
        /\ content' = [content EXCEPT ![f] = IF pgref[f] = 1 THEN 0 ELSE @]
        /\ mem' = [mem EXCEPT ![t][va] = 0]
        /\ at' = at
    BY <1>1 DEF vma_gen_close
  <1>3. /\ \A u \in Task, v \in VA :
              ~(u = t /\ v = va) /\ <<u, v>> \notin spoiled' => <<u, v>> \notin spoiled
        /\ pgref[f] = 1 => \A u \in Task : at[u].pc = "copy" /\ Locks(u, f) => <<u, at[u].va>> \in spoiled'
    BY <1>1 DEF vma_gen_close
  <1>4. /\ pte'[t][va] = Invalid
        /\ \A u \in Task, v \in VA : ~(u = t /\ v = va) => pte'[u][v] = pte[u][v]
    BY <1>0, <1>2 DEF TypeInv
  <1>5. \A u \in Task, v \in VA : ~(u = t /\ v = va) => mem'[u][v] = mem[u][v]
    BY <1>0, <1>2 DEF TypeInv
  <1>6. /\ pgref[f] # 1 => content'[f] = content[f]
        /\ \A g \in Frame : g # f => content'[g] = content[g]
    BY <1>0, <1>2 DEF TypeInv
  <1>7. pgref[f] = 1 => Held(f) = {<<t, va>>}
    <2> HAVE pgref[f] = 1
    <2>1. Cardinality(Held(f)) = 1 /\ IsFiniteSet(Held(f))
      BY HeldFinite DEF RefInv, CountInv
    <2>2. Cardinality(Held(f) \ {<<t, va>>}) = 0 /\ IsFiniteSet(Held(f) \ {<<t, va>>})
      BY <2>1, <1>1, FS_RemoveElement
    <2>3. Held(f) \ {<<t, va>>} = {}
      BY <2>2, FS_EmptySet
    <2> QED BY <2>3, <1>1
  <1>8. Isolation'
    <2> SUFFICES ASSUME NEW u \in Task, NEW v \in VA, Valid(u, v)', <<u, v>> \notin spoiled'
                 PROVE  content'[pte'[u][v].frame] = mem'[u][v]
      BY DEF Isolation
    <2>1. ~(u = t /\ v = va)
      BY <1>4 DEF Valid
    <2>2. pte'[u][v] = pte[u][v] /\ Valid(u, v) /\ <<u, v>> \notin spoiled
      BY <2>1, <1>3, <1>4 DEF Valid
    <2>3. pte[u][v].frame \in Frame
      BY <2>2, ValidFrame
    <2>4. ASSUME pte[u][v].frame = f, pgref[f] = 1
          PROVE  FALSE
      <3>1. <<u, v>> \notin Held(f)
        BY <2>1, <2>4, <1>7
      <3>2. Locks(u, f) /\ at[u].va = v /\ at[u].pc \in Inside
        BY <3>1, <2>4, Uncounted DEF Locks, Inside
      <3>3. at[u].pc # "keep"
        BY <3>2, <1>1 DEF RefInv, OwnInv
      <3> QED BY <3>2, <3>3, <2>4, <1>3 DEF Inside
    <2>5. content'[pte[u][v].frame] = content[pte[u][v].frame]
      BY <2>3, <2>4, <1>6
    <2> QED BY <2>1, <2>2, <2>5, <1>5 DEF IsoInv, Isolation
  <1>9. CopyInv'
    <2> SUFFICES ASSUME NEW u \in Task, NEW v \in VA, NEW g \in Frame, at[u].pc = "copy",
                        at[u].va = v, pte'[u][v].frame = g, <<u, v>> \notin spoiled'
                 PROVE  /\ Held(g)' # {}
                        /\ \A y \in Task, z \in VA : pte'[y][z].frame = g => ~pte'[y][z].w
      BY <1>2 DEF CopyInv
    <2>1. u # t
      BY <1>2
    <2>2. pte[u][v].frame = g /\ <<u, v>> \notin spoiled
      BY <2>1, <1>3, <1>4
    <2>3. /\ Held(g) # {}
          /\ \A y \in Task, z \in VA : pte[y][z].frame = g => ~pte[y][z].w
      BY <2>2 DEF IsoInv, CopyInv
    <2>4. Held(g)' # {}
      <3>1. CASE g # f
        BY <3>1, <2>3, <1>1
      <3>2. CASE g = f
        <4>1. Locks(u, f)
          BY <3>2, <2>2 DEF Locks
        <4>2. Cardinality(Held(f)) # 1
          BY <4>1, <1>3 DEF RefInv, CountInv
        <4> QED BY <4>2, <3>2, <1>1, HeldFinite, OneLeft
      <3> QED BY <3>1, <3>2
    <2> QED BY <2>3, <2>4, <1>4, InvalidEntry
  <1> QED BY <1>8, <1>9 DEF IsoInv

\* The child sees what its parent saw.
LEMMA IsoFork ==
    ASSUME RefInv, IsoInv, NEW p \in Task, NEW c \in Task, copy_vm(p, c)
    PROVE  IsoInv'
  <1>0. TypeInv
    BY DEF RefInv
  <1>1. PICK D : D = vma_gen_dup(p)
    OBVIOUS
  <1>2. /\ at[p] = User /\ at[c].pc = "none"
        /\ pte' = [pte EXCEPT ![p] = D, ![c] = D]
        /\ mem' = [mem EXCEPT ![c] = mem[p]]
        /\ spoiled' = spoiled \cup {<<c, va>> : va \in {v \in VA : <<p, v>> \in spoiled}}
        /\ at' = [at EXCEPT ![c] = User]
        /\ content' = content
    BY <1>1 DEF copy_vm
  <1>3. \A va \in VA : /\ D[va].frame = pte[p][va].frame /\ ~D[va].w
                       /\ pte[p][va] = Invalid => D[va] = Invalid
    BY <1>1, Dup
  <1>4. p # c /\ at[p].pc = "user" /\ at'[c].pc = "user"
        /\ \A u \in Task : u # c => at'[u] = at[u]
    BY <1>0, <1>2 DEF User, TypeInv
  <1>5. pte'[p] = D /\ pte'[c] = D /\ \A u \in Task : u \notin {p, c} => pte'[u] = pte[u]
    BY <1>0, <1>2, <1>4 DEF TypeInv
  <1>6. mem'[c] = mem[p] /\ \A u \in Task : u # c => mem'[u] = mem[u]
    BY <1>0, <1>2 DEF TypeInv
  <1>7. /\ spoiled \subseteq spoiled'
        /\ \A va \in VA : <<p, va>> \in spoiled => <<c, va>> \in spoiled'
    BY <1>2
  <1>8. Isolation'
    <2> SUFFICES ASSUME NEW u \in Task, NEW v \in VA, Valid(u, v)', <<u, v>> \notin spoiled'
                 PROVE  content[pte'[u][v].frame] = mem'[u][v]
      BY <1>2 DEF Isolation
    <2>1. CASE u \in {p, c}
      <3>1. <<p, v>> \notin spoiled /\ pte'[u][v] = D[v] /\ mem'[u][v] = mem[p][v]
        BY <2>1, <1>4, <1>5, <1>6, <1>7
      <3>2. Valid(p, v)
        BY <3>1, <1>3 DEF Valid
      <3> QED BY <3>1, <3>2, <1>3 DEF IsoInv, Isolation
    <2>2. CASE u \notin {p, c}
      BY <2>2, <1>5, <1>6, <1>7 DEF IsoInv, Isolation, Valid
    <2> QED BY <2>1, <2>2
  <1>9. CopyInv'
    <2> SUFFICES ASSUME NEW u \in Task, NEW v \in VA, NEW g \in Frame, at'[u].pc = "copy",
                        at'[u].va = v, pte'[u][v].frame = g, <<u, v>> \notin spoiled'
                 PROVE  /\ Held(g)' # {}
                        /\ \A y \in Task, z \in VA : pte'[y][z].frame = g => ~pte'[y][z].w
      BY DEF CopyInv
    <2>1. u \notin {p, c}
      BY <1>4
    <2>2. at[u].pc = "copy" /\ at[u].va = v /\ pte[u][v].frame = g /\ <<u, v>> \notin spoiled
      BY <2>1, <1>4, <1>5, <1>7
    <2>3. /\ Held(g) # {}
          /\ \A y \in Task, z \in VA : pte[y][z].frame = g => ~pte[y][z].w
      BY <2>2 DEF IsoInv, CopyInv
    <2>4. Held(g) \subseteq Held(g)'
      BY CopyVM
    <2> QED BY <2>3, <2>4, <1>3, <1>5
  <1> QED BY <1>8, <1>9 DEF IsoInv

\* A store to a page that is mapped writable reaches no other entry; one through a stale
\* translation spoils the others.
LEMMA IsoStore ==
    ASSUME RefInv, IsoInv, NEW t \in Task, NEW va \in VA, NEW x \in Value, store(t, va, x)
    PROVE  IsoInv'
  <1>0. TypeInv
    BY DEF RefInv
  <1>1. PICK f : f = pte[t][va].frame
    OBVIOUS
  <1>2. /\ at[t] = User /\ Valid(t, va)
        /\ content' = [content EXCEPT ![f] = x]
        /\ mem' = [mem EXCEPT ![t][va] = x]
        /\ spoiled' = spoiled \cup (IF pte[t][va].w THEN {} ELSE Mapped(f) \ {<<t, va>>})
        /\ UNCHANGED <<pte, at>>
    BY <1>1 DEF store
  <1>3. f \in Frame
    BY <1>1, <1>2, ValidFrame
  <1>4. /\ mem'[t][va] = x
        /\ \A u \in Task, v \in VA : ~(u = t /\ v = va) => mem'[u][v] = mem[u][v]
    BY <1>0, <1>2 DEF TypeInv
  <1>5. content'[f] = x /\ \A g \in Frame : g # f => content'[g] = content[g]
    BY <1>0, <1>2, <1>3 DEF TypeInv
  <1>6. ASSUME NEW u \in Task, NEW v \in VA, ~(u = t /\ v = va), pte[u][v].frame = f
        PROVE  <<u, v>> \in spoiled'
    <2>1. CASE ~pte[t][va].w
      <3>1. <<u, v>> \in Mapped(f)
        BY <1>6 DEF Mapped
      <3> QED BY <3>1, <2>1, <1>2, <1>6
    <2>2. CASE pte[t][va].w
      <3>1. Held(f) = {<<t, va>>}
        BY <2>2, <1>1, <1>3 DEF RefInv, OwnInv
      <3>2. <<u, v>> \notin Held(f)
        BY <3>1, <1>6
      <3>5. Locks(u, f)
        BY <3>2, <1>3, <1>6, Uncounted
      <3>3. at[u].pc # "keep"
        BY <3>1, <3>5, <1>3 DEF RefInv, OwnInv
      <3>4. <<u, v>> \in spoiled
        BY <3>2, <3>3, <2>2, <1>1, <1>3, <1>6, Uncounted
      <3> QED BY <3>4, <1>2
    <2> QED BY <2>1, <2>2
  <1>7. Isolation'
    <2> SUFFICES ASSUME NEW u \in Task, NEW v \in VA, Valid(u, v), <<u, v>> \notin spoiled'
                 PROVE  content'[pte[u][v].frame] = mem'[u][v]
      BY <1>2 DEF Isolation, Valid
    <2>1. CASE u = t /\ v = va
      BY <2>1, <1>1, <1>4, <1>5
    <2>2. CASE ~(u = t /\ v = va)
      <3>1. pte[u][v].frame \in Frame /\ pte[u][v].frame # f /\ <<u, v>> \notin spoiled
        BY <2>2, <1>2, <1>6, ValidFrame
      <3> QED BY <3>1, <2>2, <1>4, <1>5 DEF IsoInv, Isolation
    <2> QED BY <2>1, <2>2
  <1>8. CopyInv'
    <2>1. \A g \in Frame : Held(g)' = Held(g)
      BY <1>2, HeldAt
    <2>2. spoiled \subseteq spoiled'
      BY <1>2
    <2> QED BY <2>1, <2>2, <1>2 DEF IsoInv, CopyInv
  <1> QED BY <1>7, <1>8 DEF IsoInv

\* Nothing but the place of tasks outside of handle_cow_page_fault changes.
LEMMA IsoStill ==
    ASSUME IsoInv, UNCHANGED <<pte, content, mem, spoiled>>,
           \A u \in Task : at'[u] = at[u] \/ (at[u].pc \notin Inside /\ at'[u].pc \notin Inside)
    PROVE  IsoInv'
  <1>1. Isolation'
    BY DEF IsoInv, Isolation, Valid
  <1>2. \A f \in Frame : Held(f)' = Held(f)
    BY HeldAt
  <1>3. \A u \in Task : at'[u].pc = "copy" => at'[u] = at[u]
    BY DEF Inside
  <1>4. CopyInv'
    <2> SUFFICES ASSUME NEW u \in Task, NEW v \in VA, NEW g \in Frame, at'[u].pc = "copy",
                        at'[u].va = v, pte[u][v].frame = g, <<u, v>> \notin spoiled
                 PROVE  /\ Held(g)' # {}
                        /\ \A y \in Task, z \in VA : pte[y][z].frame = g => ~pte[y][z].w
      BY DEF CopyInv
    <2>1. at[u].pc = "copy" /\ at[u].va = v
      BY <1>3
    <2> QED BY <2>1, <1>2 DEF IsoInv, CopyInv
  <1> QED BY <1>1, <1>4 DEF IsoInv

\* ... for one task that moves.
LEMMA IsoMove ==
    ASSUME RefInv, IsoInv, UNCHANGED <<pte, content, mem, spoiled>>,
           NEW t \in Task, NEW a, at[t].pc \notin Inside, a.pc \notin Inside,
           at' = [at EXCEPT ![t] = a]
    PROVE  IsoInv'
  <1>1. at'[t] = a /\ \A u \in Task : u # t => at'[u] = at[u]
    BY DEF RefInv, TypeInv
  <1>2. \A u \in Task : at'[u] = at[u] \/ (at[u].pc \notin Inside /\ at'[u].pc \notin Inside)
    BY <1>1
  <1> QED BY <1>2, IsoStill

\* Isolation and CopyInv hold initially ...
LEMMA IsoInit == VMInit => IsoInv
  <1> SUFFICES ASSUME VMInit PROVE IsoInv
    OBVIOUS
  <1>1. \A u \in Task, v \in VA : pte[u][v] = Invalid
    BY DEF VMInit
  <1>2. \A u \in Task : at[u].pc # "copy"
    BY DEF VMInit
  <1> QED BY <1>1, <1>2 DEF IsoInv, Isolation, CopyInv, Valid

\* ... and every step keeps them.
LEMMA IsoNext == RefInv /\ IsoInv /\ [VMNext]_vmvars => IsoInv'
  <1> SUFFICES ASSUME RefInv, IsoInv, [VMNext]_vmvars PROVE IsoInv'
    OBVIOUS
  <1>0. TypeInv /\ 0 \in Value /\ 1 \in Value /\ User.pc = "user"
    BY DEF RefInv, Value, User
  <1>1. CASE UNCHANGED vmvars
    BY <1>1, IsoStill DEF vmvars
  <1>2. CASE kswapd
    <2>1. PICK t, va : t = Head(kswap)[1] /\ va = Head(kswap)[2]
      OBVIOUS
    <2>2. kswap # <<>> /\ mappages(t, va, 1) /\ at' = [at EXCEPT ![t] = User]
      BY <1>2, <2>1 DEF kswapd
    <2>3. t \in Task /\ va \in VA /\ at[t].pc \notin Inside
      BY <2>1, <2>2, KswapHead DEF Inside
    <2> QED BY <1>0, <2>2, <2>3, IsoMap
  <1>3. ASSUME NEW t \in Task, do_exec(t)
        PROVE  IsoInv'
    <2>1. /\ at[t].pc \notin Inside /\ User.pc \notin Inside /\ at' = [at EXCEPT ![t] = User]
          /\ alloc_user_stack(t)
      BY <1>0, <1>3 DEF do_exec, Inside
    <2>2. CASE UNCHANGED <<pte, pgref, content, mem, spoiled>>
      BY <2>1, <2>2, IsoMove
    <2>3. CASE \E va \in VA : mappages(t, va, 0)
      BY <1>0, <2>1, <2>3, IsoMap
    <2> QED BY <2>1, <2>2, <2>3 DEF alloc_user_stack
  <1>4. ASSUME NEW t \in Task, switch_mm(t)
        PROVE  IsoInv'
    BY <1>4, IsoStill DEF switch_mm
  <1>5. ASSUME NEW t \in Task, exit_end(t)
        PROVE  IsoInv'
    <2>1. [pc |-> "none"].pc \notin Inside
      BY DEF Inside
    <2> QED BY <2>1, <1>5, IsoMove DEF exit_end, Inside
  <1>6. ASSUME NEW t \in Task, NEW why \in {"exit", "exec"}, free_begin(t, why)
        PROVE  IsoInv'
    <2>1. at[t].pc \notin Inside /\ [pc |-> why].pc \notin Inside
      BY <1>0, <1>6 DEF free_begin, Inside
    <2> QED BY <2>1, <1>6, IsoMove DEF free_begin
  <1>7. ASSUME NEW t \in Task, NEW va \in VA, gen_fault(t, va)
        PROVE  IsoInv'
    <2>1. at[t].pc \notin Inside /\ at' = [at EXCEPT ![t] = User]
      BY <1>0, <1>7 DEF gen_fault, TypeInv, Inside
    <2> QED BY <1>0, <2>1, <1>7, IsoMap DEF gen_fault
  <1>8. ASSUME NEW t \in Task, NEW va \in VA, file_fault(t, va)
        PROVE  IsoInv'
    <2>1. at[t].pc \notin Inside /\ In("sleep", va).pc \notin Inside
      BY <1>0, <1>8 DEF file_fault, In, Inside
    <2> QED BY <2>1, <1>8, IsoMove DEF file_fault
  <1> QED
    BY <1>1, <1>2, <1>3, <1>4, <1>5, <1>6, <1>7, <1>8,
       IsoBegin, IsoCopy, IsoKeep, IsoClose, IsoFork, IsoStore
       DEF VMNext, VMStep

\* In every reachable state, for any numbers of tasks, pages and frames, a task sees at
\* a page what it stored there last or had there from its parent's fork, unless one of
\* the two races of fork and exit has spoiled the page.
THEOREM IsolationTheorem == VMSpec => []Isolation
  <1>1. VMInit => RefInv /\ IsoInv
    BY RefInit, IsoInit
  <1>2. RefInv /\ IsoInv /\ [VMNext]_vmvars => (RefInv /\ IsoInv)'
    BY RefNext, IsoNext
  <1>3. IsoInv => Isolation
    BY DEF IsoInv
  <1> QED BY <1>1, <1>2, <1>3, PTL DEF VMSpec
=============================================================================
