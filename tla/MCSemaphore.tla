---------------------------- MODULE MCSemaphore ----------------------------
(* Instances of Semaphore for TLC.                                         *)
EXTENDS Semaphore, TLC

CONSTANTS t1, t2, t3, s1

\* Nothing is bound to a CPU.
MCAffinity == [t \in Thread |-> NO_CPU_AFF]
MCValue0 == [s \in Sem |-> 1]

\* The threads other than init_t are interchangeable.
Symmetry == Permutations(Thread \ {t1})
============================================================================
