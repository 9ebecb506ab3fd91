------------------------------- MODULE MCDevices -------------------------------
(***************************************************************************)
(* Liveness of the block layer and of the timers, for TLC.  The two share  *)
(* no state; component says which of them a behaviour exercises.           *)
(***************************************************************************)
EXTENDS BlockIO, Timer

VARIABLE component

MCRange == {<<0, 0, 2>>, <<0, 1, 2>>}

MCInit == component \in {"block", "timer"} /\ BlockIOInit /\ TimerInit

MCNext ==
    /\ UNCHANGED component
    /\ \/ component = "block" /\ BlockIONext /\ UNCHANGED tmvars
       \/ component = "timer" /\ TimerNext /\ UNCHANGED bkvars

MCSpec ==
    /\ MCInit /\ [][MCNext]_<<component, bkvars, tmvars>>
    /\ component = "block" => BlockIOFair
    /\ component = "timer" => TimerFair
===============================================================================
