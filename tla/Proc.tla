-------------------------------- MODULE Proc --------------------------------
(***************************************************************************)
(* Process lifetimes and signals: fork, exit, reparent and waitpid of      *)
(* kernel/proc/proc.c with kernel/proc/signal.c.                           *)
(*                                                                         *)
(* Every thread is taken to have a CPU (module Sched justifies that: a     *)
(* queued thread is run, on one CPU), so that threads interleave at every  *)
(* lock.  thread->lock is a variable; the locks of a signal structure and  *)
(* of child_exit_sem enclose one step each.  A thread_info and its pid are *)
(* one: alloc_thread keeps the pid that a recycled structure holds.        *)
(***************************************************************************)
EXTENDS Integers, Sequences, FiniteSets, SequencesExt

CONSTANTS
    Proc,       \* thread_info structures
    init_t,     \* the first thread: pid 0, ancestor of all
    NULL,
    WaitCall,   \* the arguments (pid, WNOHANG) that programs call waitpid with
    UserSig,    \* the signals that programs catch
    MaxCreate,  \* bound on fork and kthread_create
    MaxSigOps   \* bound on control keys and sigaction calls

SIGINT == 2
SIGQUIT == 3
SIGCHLD == 17
Sig == {SIGINT, SIGQUIT, SIGCHLD}
ANY == -1       \* waitpid's pid argument

ASSUME ProcAssumption ==
    /\ init_t \in Proc
    /\ NULL \notin Proc
    /\ WaitCall \subseteq (Proc \cup {ANY}) \X BOOLEAN
    /\ UserSig \subseteq Sig
    /\ MaxCreate \in Nat
    /\ MaxSigOps \in Nat

VARIABLES
    kind,       \* "user" or "kernel" thread
    state,      \* thread->state, RUNNABLE and RUNNING being one
    pc,         \* where the thread is
    tlock,      \* thread->lock: the thread that holds it, or NULL
    parent,     \* thread->parent
    child,      \* thread->child, head first
    sem,        \* child_exit_sem.value; -1 when its owner sleeps on it
    wait,       \* the waitpid call: pid, WNOHANG, nodes left to visit, result, and
                \* where it returns to
    out,        \* threads linked in some sched_list.out
    sigpend,    \* sigs.sigpend
    signal,     \* sigs.sping.signal, the set of bits
    caught,     \* signals that have a handler of the user
    blocked,    \* sigs.sping.blocked
    created, sigops   \* how often the bounded environment has acted

tree == <<state, parent, child>>
sigs == <<sigpend, signal, caught, blocked>>
env == <<created, sigops>>
pvars == <<kind, pc, tlock, sem, wait, out, tree, sigs, env>>

NoWait == [pid |-> ANY, nohang |-> FALSE, rest |-> <<>>, got |-> NULL, back |-> "ret"]

\* init_t has become the user process /init.  sig_init leaves blocked as the slab
\* object had it.
ProcInit ==
    /\ kind = [t \in Proc |-> "user"]
    /\ state = [t \in Proc |-> IF t = init_t THEN "RUNNING" ELSE "UNUSED"]
    /\ pc = [t \in Proc |-> IF t = init_t THEN "run" ELSE "none"]
    /\ tlock = [t \in Proc |-> NULL]
    /\ parent = [t \in Proc |-> NULL]
    /\ child = [t \in Proc |-> <<>>]
    /\ sem = [t \in Proc |-> 0]
    /\ wait = [t \in Proc |-> NoWait]
    /\ out = {}
    /\ sigpend = [t \in Proc |-> 0]
    /\ signal = [t \in Proc |-> {}]
    /\ caught = [t \in Proc |-> {}]
    /\ \E b \in SUBSET {SIGCHLD} : blocked = [t \in Proc |-> b]
    /\ created = 0
    /\ sigops = 0

Goto(t, l) == pc' = [pc EXCEPT ![t] = l]

\* A trap from user mode, and every system call, ends in usertrapret.
User(t) == kind[t] = "user" /\ pc[t] = "run"

----------------------------------------------------------------------------
\* send_sig to a process that find_proc knows.
send_sig(s, p) ==
    IF state[p] = "ZOMBIE" \/ s \in blocked[p]
    THEN UNCHANGED sigs
    ELSE /\ signal' = [signal EXCEPT ![p] = @ \cup {s}]
         /\ sigpend' = [sigpend EXCEPT ![p] = @ + 1]
         /\ UNCHANGED <<caught, blocked>>

\* std_sig_pop: the lowest bit.
std_sig_pop(S) == CHOOSE s \in S : \A r \in S : s <= r

\* uartintr: a control key is sent as a signal to pid 0.
uartintr(s) ==
    /\ sigops < MaxSigOps
    /\ sigops' = sigops + 1
    /\ send_sig(s, init_t)
    /\ UNCHANGED <<kind, pc, tlock, sem, wait, out, tree, created>>

do_sigaction(t, s) ==
    /\ User(t)
    /\ sigops < MaxSigOps
    /\ sigops' = sigops + 1
    /\ caught' = [caught EXCEPT ![t] = @ \cup {s}]
    /\ Goto(t, "ret")
    /\ UNCHANGED <<kind, tlock, sem, wait, out, tree, sigpend, signal, blocked, created>>

\* do_exec resets the handlers; what is pending stays.
do_exec(t) ==
    /\ User(t)
    /\ caught' = [caught EXCEPT ![t] = {}]
    /\ Goto(t, "ret")
    /\ UNCHANGED <<kind, tlock, sem, wait, out, tree, sigpend, signal, blocked, env>>

\* What the default handler of s leads to: sigchld_handler calls waitpid with
\* WNOHANG, sigquit_handler calls do_exit, the others print.
Deliver(t, s) ==
    IF s \in caught[t] THEN Goto(t, "run") /\ UNCHANGED wait
    ELSE IF s = SIGCHLD
    THEN /\ Goto(t, "scan")
         /\ wait' = [wait EXCEPT ![t] = [NoWait EXCEPT !.nohang = TRUE, !.back = "run"]]
    ELSE IF s = SIGQUIT
    THEN Goto(t, IF t = init_t THEN "panic" ELSE "exit") /\ UNCHANGED wait
    ELSE Goto(t, "run") /\ UNCHANGED wait

\* signal_handler, called by usertrapret: at the end of a system call, or after an
\* interrupt from user mode.
signal_handler(t) ==
    /\ pc[t] = "ret" \/ User(t)
    /\ IF sigpend[t] = 0 \/ signal[t] = {}
       THEN Goto(t, "run") /\ UNCHANGED <<wait, sigpend, signal>>
       ELSE LET s == std_sig_pop(signal[t]) IN
            /\ signal' = [signal EXCEPT ![t] = @ \ {s}]
            /\ sigpend' = [sigpend EXCEPT ![t] = @ - 1]
            /\ Deliver(t, s)
    /\ UNCHANGED <<kind, tlock, sem, out, tree, caught, blocked, env>>

----------------------------------------------------------------------------
\* A new thread u below p: thread_info_init, sig_init, and the list of p's
\* children under p's lock.
NewChild(u, p, k) ==
    /\ created < MaxCreate
    /\ created' = created + 1
    /\ state[u] = "UNUSED"
    /\ tlock[p] = NULL
    /\ kind' = [kind EXCEPT ![u] = k]
    /\ state' = [state EXCEPT ![u] = "RUNNING"]
    /\ parent' = [parent EXCEPT ![u] = p]
    /\ child' = [child EXCEPT ![u] = <<>>, ![p] = <<u>> \o @]
    /\ sem' = [sem EXCEPT ![u] = 0]
    /\ UNCHANGED <<tlock, out, sigops>>

\* Mutant: copy_sigs copies the pending signals and not their count.
do_fork_signals(t, u) ==
    /\ User(t)
    /\ NewChild(u, t, "user")
    /\ sigpend' = [sigpend EXCEPT ![u] = 0]
    /\ signal' = [signal EXCEPT ![u] = signal[t]]
    /\ caught' = [caught EXCEPT ![u] = caught[t]]
    /\ blocked' = [blocked EXCEPT ![u] = blocked[t]]
    /\ pc' = [pc EXCEPT ![t] = "ret", ![u] = "ret"]
    /\ wait' = [wait EXCEPT ![u] = NoWait]

\* do_fork.  copy_sigs copies the count of pending signals but not the signals.
do_fork(t, u) ==
    /\ User(t)
    /\ NewChild(u, t, "user")
    /\ sigpend' = [sigpend EXCEPT ![u] = sigpend[t]]
    /\ signal' = [signal EXCEPT ![u] = {}]
    /\ caught' = [caught EXCEPT ![u] = caught[t]]
    /\ blocked' = [blocked EXCEPT ![u] = blocked[t]]
    /\ pc' = [pc EXCEPT ![t] = "ret", ![u] = "ret"]
    /\ wait' = [wait EXCEPT ![u] = NoWait]

\* kthread_create below init_t, as by a timer.
kthread_create(u) ==
    /\ NewChild(u, init_t, "kernel")
    /\ sigpend' = [sigpend EXCEPT ![u] = 0]
    /\ signal' = [signal EXCEPT ![u] = {}]
    /\ caught' = [caught EXCEPT ![u] = {}]
    /\ UNCHANGED blocked
    /\ pc' = [pc EXCEPT ![u] = "run"]
    /\ wait' = [wait EXCEPT ![u] = NoWait]

----------------------------------------------------------------------------
\* do_exit of a user process.
sys_exit(t) ==
    /\ User(t)
    /\ Goto(t, IF t = init_t THEN "panic" ELSE "exit")
    /\ UNCHANGED <<kind, tlock, sem, wait, out, tree, sigs, env>>

\* quit: a kernel thread whose function has returned is linked in the out list,
\* then calls do_exit.
quit(t) ==
    /\ kind[t] = "kernel"
    /\ pc[t] = "run"
    /\ out' = out \cup {t}
    /\ Goto(t, "exit")
    /\ UNCHANGED <<kind, tlock, sem, wait, tree, sigs, env>>

\* reparent: init_t's lock, then the thread's own.
reparent_init(t) ==
    /\ pc[t] = "exit"
    /\ tlock[init_t] = NULL
    /\ tlock' = [tlock EXCEPT ![init_t] = t]
    /\ Goto(t, "rp_cur")
    /\ UNCHANGED <<kind, sem, wait, out, tree, sigs, env>>

reparent_cur(t) ==
    /\ pc[t] = "rp_cur"
    /\ tlock[t] = NULL
    /\ tlock' = [tlock EXCEPT ![t] = t]
    /\ Goto(t, "rp_child")
    /\ UNCHANGED <<kind, sem, wait, out, tree, sigs, env>>

\* Mutant: the child keeps its parent pointer.
reparent_child_keeps(t) ==
    LET u == Head(child[t]) IN
    /\ pc[t] = "rp_child"
    /\ child[t] # <<>>
    /\ tlock[u] = NULL
    /\ child' = [child EXCEPT ![t] = Tail(@), ![init_t] = <<u>> \o @]
    /\ UNCHANGED <<kind, pc, tlock, sem, wait, out, state, parent, sigs, env>>

\* reparent: one child, under its lock.
reparent_child(t) ==
    LET u == Head(child[t]) IN
    /\ pc[t] = "rp_child"
    /\ child[t] # <<>>
    /\ tlock[u] = NULL
    /\ parent' = [parent EXCEPT ![u] = init_t]
    /\ child' = [child EXCEPT ![t] = Tail(@), ![init_t] = <<u>> \o @]
    /\ UNCHANGED <<kind, pc, tlock, sem, wait, out, state, sigs, env>>

reparent_end(t) ==
    /\ pc[t] = "rp_child"
    /\ child[t] = <<>>
    /\ tlock' = [tlock EXCEPT ![t] = NULL, ![init_t] = NULL]
    /\ Goto(t, "x_lock")
    /\ UNCHANGED <<kind, sem, wait, out, tree, sigs, env>>

\* Mutant: the thread is not locked while it signals and switches.
exit_unlocked(t) ==
    /\ pc[t] = "x_lock"
    /\ tlock[t] = NULL
    /\ send_sig(SIGCHLD, parent[t])
    /\ Goto(t, "x_sem")
    /\ UNCHANGED <<kind, tlock, sem, wait, out, tree, env>>

\* do_exit: lock the thread for good and send SIGCHLD to the parent.
exit_lock(t) ==
    /\ pc[t] = "x_lock"
    /\ tlock[t] = NULL
    /\ tlock' = [tlock EXCEPT ![t] = t]
    /\ send_sig(SIGCHLD, parent[t])
    /\ Goto(t, "x_sem")
    /\ UNCHANGED <<kind, sem, wait, out, tree, env>>

\* Mutant: the exit is signalled only to a parent that sleeps already.
exit_signal_sleeper(t) ==
    LET p == parent[t] IN
    /\ pc[t] = "x_sem"
    /\ sem[p] < 0 => tlock[p] = NULL
    /\ sem' = [sem EXCEPT ![p] = IF @ < 0 THEN @ + 1 ELSE @]
    /\ state' = [state EXCEPT ![t] = "ZOMBIE", ![p] = IF sem[p] < 0 THEN "RUNNING" ELSE @]
    /\ pc' = [pc EXCEPT ![t] = "x_switch", ![p] = IF sem[p] < 0 THEN "scan" ELSE @]
    /\ UNCHANGED <<kind, tlock, wait, out, parent, child, sigs, env>>

\* do_exit: sem_signal on the parent's child_exit_sem, whose wakeup_process takes
\* the parent's lock, then ZOMBIE.
exit_signal(t) ==
    LET p == parent[t] IN
    /\ pc[t] = "x_sem"
    /\ sem[p] < 0 => tlock[p] = NULL
    /\ sem' = [sem EXCEPT ![p] = @ + 1]
    /\ state' = [state EXCEPT ![t] = "ZOMBIE", ![p] = IF sem[p] < 0 THEN "RUNNING" ELSE @]
    /\ pc' = [pc EXCEPT ![t] = "x_switch", ![p] = IF sem[p] < 0 THEN "scan" ELSE @]
    /\ UNCHANGED <<kind, tlock, wait, out, parent, child, sigs, env>>

\* sched(): off the stack; the scheduler unlocks the thread.
exit_switch(t) ==
    /\ pc[t] = "x_switch"
    /\ tlock' = [tlock EXCEPT ![t] = NULL]
    /\ Goto(t, "dead")
    /\ UNCHANGED <<kind, sem, wait, out, tree, sigs, env>>

----------------------------------------------------------------------------
\* The system call waitpid.
sys_waitpid(t, pid, nohang) ==
    /\ User(t)
    /\ wait' = [wait EXCEPT ![t] = [NoWait EXCEPT !.pid = pid, !.nohang = nohang]]
    /\ Goto(t, "scan")
    /\ UNCHANGED <<kind, tlock, sem, out, tree, sigs, env>>

\* __waitpid: lock the thread and start at the first child.
waitpid_lock(t) ==
    /\ pc[t] = "scan"
    /\ tlock[t] = NULL
    /\ tlock' = [tlock EXCEPT ![t] = t]
    /\ wait' = [wait EXCEPT ![t].rest = child[t]]
    /\ Goto(t, "scan_child")
    /\ UNCHANGED <<kind, sem, out, tree, sigs, env>>

Matches(t, u) == state[u] = "ZOMBIE" /\ wait[t].pid \in {ANY, u}

\* __waitpid: examine one child under its lock; unlink it if it is the one.
waitpid_child(t) ==
    LET u == Head(wait[t].rest) IN
    /\ pc[t] = "scan_child"
    /\ wait[t].rest # <<>>
    /\ tlock[u] = NULL
    /\ IF Matches(t, u)
       THEN /\ child' = [child EXCEPT ![t] = Remove(@, u)]
            /\ tlock' = [tlock EXCEPT ![t] = NULL]
            /\ wait' = [wait EXCEPT ![t].got = u]
            /\ Goto(t, "reap")
       ELSE /\ wait' = [wait EXCEPT ![t].rest = Tail(@)]
            /\ UNCHANGED <<child, tlock, pc>>
    /\ UNCHANGED <<kind, sem, out, state, parent, sigs, env>>

\* Mutant: the thread stays locked when it goes to sleep.
waitpid_none_locked(t) ==
    /\ pc[t] = "scan_child"
    /\ wait[t].rest = <<>>
    /\ IF wait[t].nohang
       THEN Goto(t, wait[t].back) /\ wait' = [wait EXCEPT ![t] = NoWait]
       ELSE Goto(t, "sem_wait") /\ UNCHANGED wait
    /\ UNCHANGED <<kind, tlock, sem, out, tree, sigs, env>>

\* __waitpid: no such child.
waitpid_none(t) ==
    /\ pc[t] = "scan_child"
    /\ wait[t].rest = <<>>
    /\ tlock' = [tlock EXCEPT ![t] = NULL]
    /\ IF wait[t].nohang
       THEN Goto(t, wait[t].back) /\ wait' = [wait EXCEPT ![t] = NoWait]
       ELSE Goto(t, "sem_wait") /\ UNCHANGED wait
    /\ UNCHANGED <<kind, sem, out, tree, sigs, env>>

\* __waitpid: sem_wait on child_exit_sem, which takes the thread's lock to sleep.
waitpid_sleep(t) ==
    /\ pc[t] = "sem_wait"
    /\ sem' = [sem EXCEPT ![t] = @ - 1]
    /\ IF sem[t] > 0
       THEN Goto(t, "scan") /\ UNCHANGED state
       ELSE /\ tlock[t] = NULL
            /\ state' = [state EXCEPT ![t] = "SLEEPING"]
            /\ Goto(t, "sleep")
    /\ UNCHANGED <<kind, tlock, wait, out, parent, child, sigs, env>>

\* do_waitpid: free what is left of the child.  Nothing reads the freed structure
\* again before NewChild initialises it.
do_waitpid(t) ==
    LET u == wait[t].got IN
    /\ pc[t] = "reap"
    /\ state' = [state EXCEPT ![u] = "UNUSED"]
    /\ pc' = [pc EXCEPT ![u] = "none", ![t] = wait[t].back]
    /\ wait' = [wait EXCEPT ![t] = NoWait]
    /\ signal' = [signal EXCEPT ![u] = {}]
    /\ sigpend' = [sigpend EXCEPT ![u] = 0]
    /\ caught' = [caught EXCEPT ![u] = {}]
    /\ parent' = [parent EXCEPT ![u] = NULL]
    /\ UNCHANGED <<kind, tlock, sem, out, child, blocked, env>>

----------------------------------------------------------------------------
ExitStep(t) ==
    \/ reparent_init(t) \/ reparent_cur(t) \/ reparent_child(t) \/ reparent_end(t)
    \/ exit_lock(t) \/ exit_signal(t) \/ exit_switch(t)
WaitStep(t) ==
    \/ waitpid_lock(t) \/ waitpid_child(t) \/ waitpid_none(t) \/ waitpid_sleep(t)
    \/ do_waitpid(t)

\* What user programs and kernel threads may do on their own.
UserStep(t) ==
    \/ do_exec(t) \/ sys_exit(t) \/ quit(t)
    \/ \E s \in UserSig : do_sigaction(t, s)
    \/ \E u \in Proc : do_fork(t, u)
    \/ \E w \in WaitCall : sys_waitpid(t, w[1], w[2])

ProcNext ==
    \/ \E s \in {SIGINT, SIGQUIT} : uartintr(s)
    \/ \E u \in Proc : kthread_create(u)
    \/ \E t \in Proc : UserStep(t) \/ signal_handler(t) \/ ExitStep(t) \/ WaitStep(t)

ProcSpec == ProcInit /\ [][ProcNext]_pvars

----------------------------------------------------------------------------
Live(t) == state[t] # "UNUSED"
Reaping(u) == \E t \in Proc : pc[t] = "reap" /\ wait[t].got = u
Children(t) == ToSet(child[t])

\* A parent pointer never dangles: until a thread has been collected it is linked
\* once, in the list of its parent's children and in no other, and that parent has
\* neither been freed nor become a zombie.  do_exit dereferences the pointer after
\* reparent has given every child away.
ParentLive ==
    \A t \in Proc \ {init_t} : Live(t) /\ ~Reaping(t) =>
       /\ state[parent[t]] \notin {"UNUSED", "ZOMBIE"}
       /\ \A p \in Proc : t \in Children(p) <=> p = parent[t]
       /\ Cardinality({i \in 1 .. Len(child[parent[t]]) : child[parent[t]][i] = t}) = 1

\* A process other than init_t does not sleep in waitpid while a child that it
\* waits for is a zombie: the exit that follows its search of the list finds
\* child_exit_sem not yet decremented, or finds it asleep.  (init_t may: a zombie
\* that reparent hands over has signalled the semaphore of its old parent.)
NoMissedZombie ==
    \A t \in Proc \ {init_t} : pc[t] = "sleep" =>
       \A u \in Children(t) : ~Matches(t, u)

\* waitpid frees a thread_info, and the kernel stack in it, only when the thread
\* has left that stack, nobody else collects it and nobody holds its lock.
ReapSafe ==
    \A t \in Proc : pc[t] = "reap" =>
       LET u == wait[t].got IN
       /\ pc[u] = "dead"
       /\ tlock[u] = NULL
       /\ child[u] = <<>>
       /\ \A x \in Proc \ {t} : pc[x] = "reap" => wait[x].got # u

\* The comment in do_waitpid: a thread that is freed has been removed from every
\* structure, so that no list reaches it.
ReapedUnlinked == \A t \in out : Live(t)

\* t spins on a thread's lock that u holds.
SpinsOn(t, u) ==
    \/ pc[t] = "exit" /\ tlock[init_t] = u
    \/ pc[t] \in {"rp_cur", "x_lock", "scan"} /\ tlock[t] = u
    \/ pc[t] = "sem_wait" /\ sem[t] <= 0 /\ tlock[t] = u
    \/ pc[t] = "rp_child" /\ child[t] # <<>> /\ tlock[Head(child[t])] = u
    \/ pc[t] = "scan_child" /\ wait[t].rest # <<>> /\ tlock[Head(wait[t].rest)] = u
    \/ pc[t] = "x_sem" /\ sem[parent[t]] < 0 /\ tlock[parent[t]] = u

\* reparent locks from init_t down the tree, do_exit locks a thread and then its
\* parent, waitpid a thread and then its children: they never spin in a cycle.
NoLockCycle ==
    \A S \in SUBSET Proc : S # {} => \E t \in S : \A u \in S : ~SpinsOn(t, u)

\* A pending signal is never overlooked by the test of sigpend in signal_handler:
\* the count is at least the number of pending signals.
PendingCounted == \A t \in Proc : sigpend[t] >= Cardinality(signal[t])
=============================================================================
