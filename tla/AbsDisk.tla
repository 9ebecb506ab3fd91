-------------------------------- MODULE AbsDisk --------------------------------
(***************************************************************************)
(* What the block layer promises its clients: an array of cells.  A        *)
(* request is served block by block, each block at once, somewhere between *)
(* the call and the return, and a read gets what the array holds.          *)
(***************************************************************************)
EXTENDS Integers, Sequences

CONSTANTS Client, Cell, BlkSize, Value

VARIABLES
    store,      \* cell |-> value
    call        \* client |-> the request it waits for

Free == [op |-> "none", pos |-> 0, end |-> 0, v |-> 0, out |-> <<>>]

Init == store \in [Cell -> Value] /\ call = [c \in Client |-> Free]

Begin(c) ==
    /\ call[c] = Free
    /\ \E op \in {"read", "write"}, p, e \in Cell, v \in Value :
          p <= e /\ call' = [call EXCEPT ![c] = [op |-> op, pos |-> p, end |-> e, v |-> v,
                                                 out |-> <<>>]]
    /\ UNCHANGED store

\* The rest of the request, as far as it lies in the block it has come to.
Serve(c) ==
    LET r == call[c]
        last == IF r.end < ((r.pos \div BlkSize) + 1) * BlkSize - 1 THEN r.end
                ELSE ((r.pos \div BlkSize) + 1) * BlkSize - 1
    IN  /\ r # Free /\ r.pos <= r.end
        /\ store' = IF r.op = "write"
                    THEN [k \in Cell |-> IF r.pos <= k /\ k <= last THEN r.v ELSE store[k]] ELSE store
        /\ call' = [call EXCEPT ![c].pos = last + 1,
                       ![c].out = IF r.op = "read"
                                  THEN @ \o [k \in 1 .. last + 1 - r.pos |-> store[r.pos + k - 1]]
                                  ELSE @]

Return(c) ==
    /\ call[c] # Free /\ call[c].pos > call[c].end
    /\ call' = [call EXCEPT ![c] = Free]
    /\ UNCHANGED store

Spec == Init /\ [][\E c \in Client : Begin(c) \/ Serve(c) \/ Return(c)]_<<store, call>>
===============================================================================
