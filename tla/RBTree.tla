------------------------------- MODULE RBTree -------------------------------
(***************************************************************************)
(* The red-black tree, lib/rbtree.c.  A tree is a record of its root and   *)
(* the fields of its nodes; the caller's compare function orders the nodes *)
(* as numbers.  Every mirrored pair of branches of the code is one         *)
(* definition with a side as parameter.  A node outside of the tree is the *)
(* caller's memory: its fields are not kept.                               *)
(***************************************************************************)
EXTENDS Integers, Sequences, FiniteSets, SequencesExt

CONSTANT MaxKey         \* the nodes are 1 .. MaxKey

ASSUME RBAssumption == MaxKey \in Nat \ {0}

VARIABLES
    rb_root,    \* the tree
    members,    \* the nodes inserted and not erased
    skewed      \* rb_erase has left out a rebalancing (see SuccessorIsRight)

rbvars == <<rb_root, members, skewed>>

Node == 1 .. MaxKey
Nil == 0

Opp(s) == IF s = "rb_left" THEN "rb_right" ELSE "rb_left"

EmptyTree ==
    [node |-> Nil,
     child |-> [s \in {"rb_left", "rb_right"} |-> [n \in Node |-> Nil]],
     parent |-> [n \in Node |-> Nil],
     red |-> [n \in Node |-> FALSE]]

----------------------------------------------------------------------------
\* rb_is_red of a node that may be NULL.
IsRed(T, n) == n # Nil /\ T.red[n]

rb_set_color(T, n, c) == IF n = Nil THEN T ELSE [T EXCEPT !.red[n] = c]
rb_set_parent(T, n, p) == IF n = Nil THEN T ELSE [T EXCEPT !.parent[n] = p]

SideOf(T, n, p) == IF T.child["rb_left"][p] = n THEN "rb_left" ELSE "rb_right"

\* p, or the root when p is NULL, points to m in the place of n.
Relink(T, p, n, m) ==
    IF p = Nil THEN [T EXCEPT !.node = m] ELSE [T EXCEPT !.child[SideOf(T, n, p)][p] = m]

\* Mutant: the subtree that changes sides keeps its parent pointer.
rb_rotate_stale(T, n, s) ==
    LET up == T.child[Opp(s)][n]
        p == T.parent[n]
        T1 == [T EXCEPT !.child[Opp(s)][n] = T.child[s][up]]
        T2 == Relink([T1 EXCEPT !.child[s][up] = n], p, n, up)
    IN  [T2 EXCEPT !.parent[up] = p, !.parent[n] = up]

\* rb_rotate_left and rb_rotate_right: n goes down on side s.
rb_rotate(T, n, s) ==
    LET up == T.child[Opp(s)][n]
        in == T.child[s][up]
        p == T.parent[n]
        T1 == rb_set_parent([T EXCEPT !.child[Opp(s)][n] = in], in, n)
        T2 == Relink([T1 EXCEPT !.child[s][up] = n], p, n, up)
    IN  [T2 EXCEPT !.parent[up] = p, !.parent[n] = up]

RECURSIVE rb_insert_fixup(_, _)
rb_insert_fixup(T, n) ==
    LET p == T.parent[n]
        g == IF p = Nil THEN Nil ELSE T.parent[p]
    IN  IF ~IsRed(T, p) \/ g = Nil THEN rb_set_color(T, T.node, FALSE)
        ELSE LET s == SideOf(T, p, g)
                 uncle == T.child[Opp(s)][g]
                 inner == n = T.child[Opp(s)][p]
                 T1 == IF inner THEN rb_rotate(T, p, s) ELSE T
                 n1 == IF inner THEN p ELSE n
                 p1 == T1.parent[n1]
             IN  IF IsRed(T, uncle)
                 THEN rb_insert_fixup(
                         [T EXCEPT !.red[p] = FALSE, !.red[uncle] = FALSE, !.red[g] = TRUE], g)
                 ELSE rb_insert_fixup(
                         rb_rotate([T1 EXCEPT !.red[p1] = FALSE, !.red[g] = TRUE], g, Opp(s)), n1)

\* The parent under which rb_insert puts n, found from node a.
RECURSIVE InsertBelow(_, _, _)
InsertBelow(T, n, a) ==
    LET next == T.child[IF n < a THEN "rb_left" ELSE "rb_right"][a]
    IN  IF next = Nil THEN a ELSE InsertBelow(T, n, next)

\* Mutant: the new node is black.
rb_insert_black(T, n) ==
    IF T.node = Nil
    THEN rb_insert_fixup([T EXCEPT !.node = n], n)
    ELSE LET p == InsertBelow(T, n, T.node)
         IN  rb_insert_fixup([T EXCEPT !.child[IF n < p THEN "rb_left" ELSE "rb_right"][p] = n,
                                       !.parent[n] = p], n)

rb_insert(T, n) ==
    IF T.node = Nil
    THEN rb_insert_fixup([T EXCEPT !.node = n, !.red[n] = TRUE], n)
    ELSE LET p == InsertBelow(T, n, T.node)
         IN  rb_insert_fixup([T EXCEPT !.child[IF n < p THEN "rb_left" ELSE "rb_right"][p] = n,
                                       !.parent[n] = p, !.red[n] = TRUE], n)

----------------------------------------------------------------------------
\* The body of the loop of rb_erase_fixup when the sibling o of the short side s
\* has a red child: at most two rotations, then the loop is left.
EraseRotate(T, p, o, s) ==
    LET far == T.child[Opp(s)][o]
        near == T.child[s][o]
        T1 == IF IsRed(T, far) THEN T
              ELSE rb_rotate(rb_set_color(rb_set_color(T, near, FALSE), o, TRUE), o, Opp(s))
        o1 == T1.child[Opp(s)][p]
        T2 == rb_set_color(rb_set_color(T1, o1, T1.red[p]), p, FALSE)
        T3 == rb_rotate(rb_set_color(T2, T2.child[Opp(s)][o1], FALSE), p, s)
    IN  rb_set_color(T3, T3.node, FALSE)

RECURSIVE rb_erase_fixup(_, _, _)
rb_erase_fixup(T, n, p) ==
    IF n = T.node \/ IsRed(T, n) THEN rb_set_color(T, n, FALSE)
    ELSE LET s == SideOf(T, n, p)
             other == T.child[Opp(s)][p]
             T1 == IF IsRed(T, other)
                   THEN rb_rotate([T EXCEPT !.red[other] = FALSE, !.red[p] = TRUE], p, s)
                   ELSE T
             o == T1.child[Opp(s)][p]
         IN  IF other = Nil \/ o = Nil THEN rb_set_color(T1, n, FALSE)
             ELSE IF \E e \in {"rb_left", "rb_right"} : IsRed(T1, T1.child[e][o])
             THEN EraseRotate(T1, p, o, s)
             ELSE rb_erase_fixup([T1 EXCEPT !.red[o] = TRUE], p, T1.parent[p])

RECURSIVE Leftmost(_, _)
Leftmost(T, n) ==
    IF T.child["rb_left"][n] = Nil THEN n ELSE Leftmost(T, T.child["rb_left"][n])

\* rb_erase of a node that lacks a child.
EraseSimple(T, n) ==
    LET child == IF T.child["rb_left"][n] = Nil THEN T.child["rb_right"][n]
                 ELSE T.child["rb_left"][n]
        p == T.parent[n]
        T1 == Relink(rb_set_parent(T, child, p), p, n, child)
    IN  IF T.red[n] THEN T1 ELSE rb_erase_fixup(T1, child, p)

\* rb_erase of a node with two children: its successor takes its place.  When the
\* successor is old's right child, the parent handed to rb_erase_fixup is old
\* itself, which has been taken out of the tree.
EraseInner(T, old) ==
    LET right == T.child["rb_right"][old]
        left == T.child["rb_left"][old]
        node == Leftmost(T, right)
        child == T.child["rb_right"][node]
        p == T.parent[node]
        T1 == IF node = right THEN rb_set_parent(T, child, node)
              ELSE [rb_set_parent(T, child, p) EXCEPT !.child["rb_left"][p] = child,
                       !.child["rb_right"][node] = right, !.parent[right] = node]
        T2 == [T1 EXCEPT !.parent[node] = T.parent[old], !.red[node] = T.red[old],
                  !.child["rb_left"][node] = left, !.parent[left] = node]
        T3 == [Relink(T2, T.parent[old], old, node) EXCEPT
                  !.child["rb_left"][old] = Nil, !.child["rb_right"][old] = Nil]
    IN  IF T.red[node] THEN T3 ELSE rb_erase_fixup(T3, child, p)

HasBoth(T, n) == \A s \in {"rb_left", "rb_right"} : T.child[s][n] # Nil

\* rb_erase; the node's memory is the caller's again.
rb_erase(T, n) ==
    LET T1 == IF HasBoth(T, n) THEN EraseInner(T, n) ELSE EraseSimple(T, n)
    IN  [T1 EXCEPT !.parent[n] = Nil, !.red[n] = FALSE,
                   !.child["rb_left"][n] = Nil, !.child["rb_right"][n] = Nil]

\* rb_search, from node a.
RECURSIVE SearchFrom(_, _, _)
SearchFrom(T, key, a) ==
    IF a = Nil \/ a = key THEN a
    ELSE SearchFrom(T, key, T.child[IF key < a THEN "rb_left" ELSE "rb_right"][a])
rb_search(T, key) == SearchFrom(T, key, T.node)

rb_first(T) == IF T.node = Nil THEN Nil ELSE Leftmost(T, T.node)

\* rb_next: the smallest node on the right, or the first ancestor on the right.
RECURSIVE UpRight(_, _)
UpRight(T, n) ==
    LET p == T.parent[n]
    IN  IF p = Nil \/ n = T.child["rb_left"][p] THEN p ELSE UpRight(T, p)
rb_next(T, n) ==
    IF T.child["rb_right"][n] # Nil THEN Leftmost(T, T.child["rb_right"][n]) ELSE UpRight(T, n)

----------------------------------------------------------------------------
RBInit ==
    /\ rb_root = EmptyTree
    /\ members = {}
    /\ skewed = FALSE

Insert(n) ==
    /\ n \notin members
    /\ rb_root' = rb_insert(rb_root, n)
    /\ members' = members \cup {n}
    /\ UNCHANGED skewed

\* The case in which rb_erase rebalances around a node that has left the tree:
\* the successor is the right child, black and without a child.
SuccessorIsRight(T, n) ==
    /\ HasBoth(T, n)
    /\ LET r == T.child["rb_right"][n]
       IN  ~T.red[r] /\ \A s \in {"rb_left", "rb_right"} : T.child[s][r] = Nil

Erase(n) ==
    /\ n \in members
    /\ rb_root' = rb_erase(rb_root, n)
    /\ members' = members \ {n}
    /\ skewed' = (members # {n} /\ (skewed \/ SuccessorIsRight(rb_root, n)))

RBNext == \E n \in Node : Insert(n) \/ Erase(n)

RBSpec == RBInit /\ [][RBNext]_rbvars

----------------------------------------------------------------------------
\* The nodes that rb_first and rb_next visit, at most k of them.
RECURSIVE Walk(_, _, _)
Walk(T, n, k) ==
    IF n = Nil \/ k = 0 THEN <<>> ELSE <<n>> \o Walk(T, rb_next(T, n), k - 1)

\* The number of black nodes on every path down from n, or -1 where
\* __validate_subtree would assert.
RECURSIVE BlackHeight(_, _)
BlackHeight(T, n) ==
    IF n = Nil THEN 1
    ELSE LET l == T.child["rb_left"][n]
             r == T.child["rb_right"][n]
             h == BlackHeight(T, l)
         IN  IF h = -1 \/ h # BlackHeight(T, r) \/ (T.red[n] /\ (IsRed(T, l) \/ IsRed(T, r)))
             THEN -1
             ELSE IF T.red[n] THEN h ELSE h + 1

\* The tree's fields have their types.
RBTypeOK ==
    /\ rb_root.node \in Node \cup {Nil}
    /\ rb_root.parent \in [Node -> Node \cup {Nil}]
    /\ rb_root.red \in [Node -> BOOLEAN]
    /\ members \subseteq Node

\* Whatever was inserted and erased before, even after an erase that left out a
\* rebalancing, rb_first and rb_next visit exactly the members in order, and
\* rb_search finds a node exactly when it is one.
TreeExact ==
    /\ Walk(rb_root, rb_first(rb_root), MaxKey + 1) = SetToSortSeq(members, <)
    /\ \A n \in Node : rb_search(rb_root, n) = IF n \in members THEN n ELSE Nil

\* validate_rbtree asserts a black root, no red child of a red node and the same
\* number of black nodes on every path.  That holds after every insert and erase,
\* up to an erase in the case SuccessorIsRight, which loses the balance.
Balanced ==
    skewed \/ (~IsRed(rb_root, rb_root.node) /\ BlackHeight(rb_root, rb_root.node) # -1)
============================================================================
