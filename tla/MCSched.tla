------------------------------ MODULE MCSched ------------------------------
(* Instances of Sched for TLC.                                             *)
EXTENDS Sched

CONSTANTS t1, t2, t3

\* One thread is bound to CPU 0, as work_queue_init and the flush threads do.
MCAffinity == [t \in Thread |-> IF t = t2 THEN 0 ELSE NO_CPU_AFF]
============================================================================
