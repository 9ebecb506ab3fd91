-------------------------------- MODULE MCMemory --------------------------------
(***************************************************************************)
(* Red-black trees, the buddy allocator, slab caches and virtual memory,   *)
(* for TLC.  The four share no variables; component says which of them a   *)
(* behaviour exercises.                                                    *)
(***************************************************************************)
EXTENDS RBTree, Buddy, Slab, VM, TLC

CONSTANT v1     \* the one address

VARIABLE component

MCSym == Permutations(Task) \cup Permutations(Frame)

MCInit ==
    /\ component \in {"rbtree", "buddy", "slab", "vm"}
    /\ RBInit /\ BuddyInit /\ SlabInit /\ VMInit
    /\ component # "vm" => vm_ops = [va \in VA |-> "gen"]

MCNext ==
    /\ UNCHANGED component
    /\ \/ component = "rbtree" /\ RBNext /\ UNCHANGED <<pgvars, svars, vmvars>>
       \/ component = "buddy" /\ BuddyNext /\ UNCHANGED <<rbvars, svars, vmvars>>
       \/ component = "slab" /\ SlabNext /\ UNCHANGED <<rbvars, pgvars, vmvars>>
       \/ component = "vm" /\ VMNext /\ UNCHANGED <<rbvars, pgvars, svars>>

MCSpec == MCInit /\ [][MCNext]_<<component, rbvars, pgvars, svars, vmvars>>
===============================================================================
