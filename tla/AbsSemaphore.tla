---------------------------- MODULE AbsSemaphore ----------------------------
(***************************************************************************)
(* What a semaphore promises: P takes a permit, or queues if there is      *)
(* none; V hands its permit to the thread that has queued longest, and     *)
(* keeps it only if nobody queues.  No scheduler, no locks, no negative    *)
(* value.                                                                  *)
(***************************************************************************)
EXTENDS Naturals, Sequences

CONSTANTS Thread, Sem, permits0

VARIABLES
    permits,    \* permits nobody has taken
    queue       \* threads that wait, oldest first

AbsInit ==
    /\ permits = permits0
    /\ queue = [s \in Sem |-> <<>>]

Take(s) ==
    /\ permits[s] > 0
    /\ permits' = [permits EXCEPT ![s] = @ - 1]
    /\ UNCHANGED queue

Enqueue(t, s) ==
    /\ permits[s] = 0
    /\ \A r \in Sem : \A i \in 1 .. Len(queue[r]) : queue[r][i] # t
    /\ queue' = [queue EXCEPT ![s] = Append(@, t)]
    /\ UNCHANGED permits

Deposit(s) ==
    /\ queue[s] = <<>>
    /\ permits' = [permits EXCEPT ![s] = @ + 1]
    /\ UNCHANGED queue

HandOver(s) ==
    /\ queue[s] # <<>>
    /\ queue' = [queue EXCEPT ![s] = Tail(@)]
    /\ UNCHANGED permits

AbsNext ==
    \E s \in Sem :
       Take(s) \/ Deposit(s) \/ HandOver(s) \/ \E t \in Thread : Enqueue(t, s)

AbsSpec == AbsInit /\ [][AbsNext]_<<permits, queue>>
============================================================================
