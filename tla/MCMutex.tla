------------------------------ MODULE MCMutex ------------------------------
(* Instances of Mutex for TLC.                                             *)
EXTENDS Mutex, TLC

CONSTANTS t1, t2, t3, m1

MCAffinity == [t \in Thread |-> NO_CPU_AFF]
MCValue0 == [m \in Sem |-> MUTEX_LOCK]
Symmetry == Permutations(Thread \ {t1})
============================================================================
