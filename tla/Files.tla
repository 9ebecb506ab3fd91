--------------------------------- MODULE Files ---------------------------------
(***************************************************************************)
(* Open files: struct file, descriptor tables and file-backed areas        *)
(* (kernel/file.c, the fd functions, copy_files and do_exit of             *)
(* kernel/proc/proc.c, do_mmap and the file operations of kernel/vm/vma.c, *)
(* parse_elf_header of kernel/proc/elf.c, do_exec of kernel/trap/trap.c,   *)
(* kswapd's read of kernel/vm/kswapd.c).  A task has one thread.  efs_i_*  *)
(* appear as the inode's reference count; EasyFS models the rest.  A       *)
(* failed assertion stops the kernel (panicked).                           *)
(***************************************************************************)
EXTENDS Integers, Sequences, FiniteSets, FiniteSetsExt

CONSTANTS
    FTask,      \* tasks
    File,       \* objects of file_kmem_cache
    Inode,      \* files on disk
    NOFILE,     \* descriptors in a table
    MaxAreas    \* bound: file-backed areas of a task

ASSUME FilesAssumption == NOFILE \in Nat \ {0} /\ MaxAreas \in Nat

NULL == "NULL"
Fd == 0 .. NOFILE - 1

VARIABLES
    fdt,        \* task |-> descriptor |-> struct file or NULL
    areas,      \* task |-> struct file |-> number of its areas with vma_file_ops
    run,        \* task |-> where its thread is
    f_ref,      \* struct file |-> f_ref, 0 when it is free
    f_ip,       \* struct file |-> its inode
    f_mutex,    \* struct file |-> the task that holds its f_mutex, or NULL
    i_refcnt,   \* inode |-> i_refcnt
    kswap_q,    \* kswap.queue: the faults kswapd has to serve
    lost,       \* struct file |-> references that nothing holds any more
    shared,     \* files that exec mapped with more areas than it has references
    panicked

fvars == <<fdt, areas, run, f_ref, f_ip, f_mutex, i_refcnt, kswap_q, lost, shared, panicked>>

Pc(pc, f) == [pc |-> pc, f |-> f]
InUser == Pc("user", NULL)

Slots(f) == {s \in FTask \X Fd : fdt[s[1]][s[2]] = f}
Maps(f) == MapThenSumSet(LAMBDA t : areas[t][f], FTask)
InHand(f) == {t \in FTask : run[t].f = f}
Holders(f) == Cardinality(Slots(f)) + Maps(f) + Cardinality(InHand(f))

----------------------------------------------------------------------------
FilesInit ==
    /\ fdt = [t \in FTask |-> [d \in Fd |-> NULL]]
    /\ areas = [t \in FTask |-> [f \in File |-> 0]]
    /\ \E t \in FTask : run = [u \in FTask |-> IF u = t THEN InUser ELSE Pc("none", NULL)]
    /\ f_ref = [f \in File |-> 0]
    /\ \E i \in Inode : f_ip = [f \in File |-> i]
    /\ f_mutex = [f \in File |-> NULL]
    /\ i_refcnt = [i \in Inode |-> 0]
    /\ kswap_q = <<>>
    /\ lost = [f \in File |-> 0]
    /\ shared = {}
    /\ panicked = FALSE

\* file_open: efs_d_namei takes a reference of the inode, file_alloc an object (not
\* one that was freed in use: the next use of that one ends the behaviour).
file_open(t, f, i, pc) ==
    /\ f_ref[f] = 0 /\ Holders(f) = 0
    /\ f_ref' = [f_ref EXCEPT ![f] = 1]
    /\ f_ip' = [f_ip EXCEPT ![f] = i]
    /\ i_refcnt' = [i_refcnt EXCEPT ![i] = @ + 1]
    /\ shared' = shared \ {f}
    /\ run' = [run EXCEPT ![t] = Pc(pc, f)]
    /\ UNCHANGED <<fdt, areas, kswap_q, lost, panicked>>

\* Mutant: the inode's reference is put with every close.
file_close_puts(f) ==
    /\ f_ref' = [f_ref EXCEPT ![f] = IF @ > 0 THEN @ - 1 ELSE 0]
    /\ i_refcnt' = [i_refcnt EXCEPT ![f_ip[f]] = @ - 1]
    /\ panicked' = (f_ref[f] = 0)

\* file_close: the last reference puts the inode and frees the object.
file_close(f) ==
    /\ f_ref' = [f_ref EXCEPT ![f] = IF @ > 0 THEN @ - 1 ELSE 0]
    /\ i_refcnt' = [i_refcnt EXCEPT ![f_ip[f]] = IF f_ref[f] = 1 THEN @ - 1 ELSE @]
    /\ panicked' = (f_ref[f] = 0)

\* file_dup
file_dup(f) ==
    /\ f_ref' = [f_ref EXCEPT ![f] = @ + 1]
    /\ panicked' = (f_ref[f] = 0)

\* do_open: file_open, then the lowest unused descriptor, or file_close when the
\* table is full.
do_open(t, f, i) ==
    /\ run[t] = InUser
    /\ file_open(t, f, i, "opened")
    /\ f_mutex' = [f_mutex EXCEPT ![f] = NULL]

fd_install(t) ==
    LET unused == {d \in Fd : fdt[t][d] = NULL}
    IN  /\ run[t].pc = "opened"
        /\ IF unused = {}
           THEN file_close(run[t].f) /\ UNCHANGED fdt
           ELSE /\ fdt' = [fdt EXCEPT ![t][Min(unused)] = run[t].f]
                /\ UNCHANGED <<f_ref, i_refcnt, panicked>>
        /\ run' = [run EXCEPT ![t] = InUser]
        /\ UNCHANGED <<areas, f_ip, f_mutex, kswap_q, lost, shared>>

\* do_close, and a round of fd_close_all in do_exit.
fd_close(t, d) ==
    /\ run[t].pc \in {"user", "exit"}
    /\ fdt[t][d] # NULL
    /\ file_close(fdt[t][d])
    /\ fdt' = [fdt EXCEPT ![t][d] = NULL]
    /\ UNCHANGED <<areas, run, f_ip, f_mutex, kswap_q, lost, shared>>

\* do_read and do_write: fget of an open descriptor, ...
fget(t, d) ==
    /\ run[t] = InUser
    /\ fdt[t][d] # NULL
    /\ file_dup(fdt[t][d])
    /\ run' = [run EXCEPT ![t] = Pc("got", fdt[t][d])]
    /\ UNCHANGED <<fdt, areas, f_ip, f_mutex, i_refcnt, kswap_q, lost, shared>>

\* ... file_lock, ...
file_lock(t) ==
    LET f == run[t].f
    IN  /\ run[t].pc = "got"
        /\ f_mutex[f] = NULL
        /\ f_mutex' = [f_mutex EXCEPT ![f] = t]
        /\ run' = [run EXCEPT ![t].pc = "copy"]
        /\ UNCHANGED <<fdt, areas, f_ref, f_ip, i_refcnt, kswap_q, lost, shared, panicked>>

\* ... file_read or file_write of page after page and memcpy to or from the user's
\* buffer, which may fault (file_fault); file_unlock, ...
file_unlock(t) ==
    /\ run[t].pc = "copy"
    /\ f_mutex' = [f_mutex EXCEPT ![run[t].f] = NULL]
    /\ run' = [run EXCEPT ![t].pc = "done"]
    /\ UNCHANGED <<fdt, areas, f_ref, f_ip, i_refcnt, kswap_q, lost, shared, panicked>>

\* ... and fput.
fput(t) ==
    /\ run[t].pc = "done"
    /\ file_close(run[t].f)
    /\ run' = [run EXCEPT ![t] = InUser]
    /\ UNCHANGED <<fdt, areas, f_ip, f_mutex, kswap_q, lost, shared>>

\* do_mmap: the reference of fget belongs to the area.
do_mmap(t, d) ==
    LET f == fdt[t][d]
    IN  /\ run[t] = InUser
        /\ f # NULL
        /\ areas[t][f] < MaxAreas
        /\ file_dup(f)
        /\ areas' = [areas EXCEPT ![t][f] = @ + 1]
        /\ UNCHANGED <<fdt, run, f_ip, f_mutex, i_refcnt, kswap_q, lost, shared>>

\* A fault on a page of an area of file g, in user mode or when do_read and do_write
\* copy: vma_gen_file_fault queues it and the thread sleeps.
file_fault(t, g) ==
    /\ run[t].pc \in {"user", "copy"}
    /\ areas[t][g] > 0
    /\ run' = [run EXCEPT ![t].pc = IF @ = "user" THEN "fault" ELSE "copyfault"]
    /\ kswap_q' = Append(kswap_q, [t |-> t, f |-> g])
    /\ UNCHANGED <<fdt, areas, f_ref, f_ip, f_mutex, i_refcnt, lost, shared, panicked>>

\* A round of kswapd: file_lock, file_read_no_off, file_unlock, mappages; the thread
\* goes on.
kswapd_serve ==
    /\ kswap_q # <<>>
    /\ f_mutex[Head(kswap_q).f] = NULL
    /\ run' = [run EXCEPT ![Head(kswap_q).t].pc = IF @ = "fault" THEN "user" ELSE "copy"]
    /\ kswap_q' = Tail(kswap_q)
    /\ UNCHANGED <<fdt, areas, f_ref, f_ip, f_mutex, i_refcnt, lost, shared, panicked>>

\* do_fork: copy_vm takes a reference for every file-backed area; copy_files copies
\* the child's table, which is empty, over the parent's.
do_fork(pa, ch) ==
    /\ run[pa] = InUser
    /\ run[ch].pc = "none"
    /\ areas' = [areas EXCEPT ![ch] = areas[pa]]
    /\ panicked' = (\E f \in File : areas[pa][f] > 0 /\ f_ref[f] = 0)
    /\ f_ref' = [f \in File |-> f_ref[f] + areas[pa][f]]
    /\ lost' = [f \in File |-> lost[f] + Cardinality({d \in Fd : fdt[pa][d] = f})]
    /\ fdt' = [fdt EXCEPT ![pa] = fdt[ch]]
    /\ run' = [run EXCEPT ![ch] = InUser]
    /\ UNCHANGED <<f_ip, f_mutex, i_refcnt, kswap_q, shared>>

\* do_exec: file_open and file_lock, then free_user_memory (close_area), ...
do_exec_open(t, f, i) ==
    /\ run[t] = InUser
    /\ file_open(t, f, i, "exec")
    /\ f_mutex' = [f_mutex EXCEPT ![f] = t]

do_exit(t) ==
    /\ run[t] = InUser
    /\ run' = [run EXCEPT ![t] = Pc("exit", NULL)]
    /\ UNCHANGED <<fdt, areas, f_ref, f_ip, f_mutex, i_refcnt, kswap_q, lost, shared, panicked>>

\* vma_gen_file_close of an area in free_user_memory; do_exit has closed the
\* descriptors by then.
close_area(t, f) ==
    /\ run[t].pc \in {"exec", "exit"}
    /\ run[t].pc = "exit" => \A d \in Fd : fdt[t][d] = NULL
    /\ areas[t][f] > 0
    /\ file_close(f)
    /\ areas' = [areas EXCEPT ![t][f] = @ - 1]
    /\ UNCHANGED <<fdt, run, f_ip, f_mutex, kswap_q, lost, shared>>

\* Mutant: exec returns to user mode without file_unlock.
parse_elf_header_locked(t, n) ==
    LET f == run[t].f
    IN  /\ run[t].pc = "exec"
        /\ \A g \in File : areas[t][g] = 0
        /\ areas' = [areas EXCEPT ![t][f] = n]
        /\ lost' = [lost EXCEPT ![f] = IF n = 0 THEN @ + 1 ELSE @]
        /\ shared' = IF n > 1 THEN shared \cup {f} ELSE shared
        /\ run' = [run EXCEPT ![t] = InUser]
        /\ UNCHANGED <<fdt, f_ref, f_ip, f_mutex, i_refcnt, kswap_q, panicked>>

\* ... and parse_elf_header maps n segments of the file with its one reference;
\* file_unlock.
parse_elf_header(t, n) ==
    LET f == run[t].f
    IN  /\ run[t].pc = "exec"
        /\ \A g \in File : areas[t][g] = 0
        /\ areas' = [areas EXCEPT ![t][f] = n]
        /\ lost' = [lost EXCEPT ![f] = IF n = 0 THEN @ + 1 ELSE @]
        /\ shared' = IF n > 1 THEN shared \cup {f} ELSE shared
        /\ f_mutex' = [f_mutex EXCEPT ![f] = NULL]
        /\ run' = [run EXCEPT ![t] = InUser]
        /\ UNCHANGED <<fdt, f_ref, f_ip, i_refcnt, kswap_q, panicked>>

exit_done(t) ==
    /\ run[t].pc = "exit"
    /\ \A d \in Fd : fdt[t][d] = NULL
    /\ \A f \in File : areas[t][f] = 0
    /\ run' = [run EXCEPT ![t] = Pc("none", NULL)]
    /\ UNCHANGED <<fdt, areas, f_ref, f_ip, f_mutex, i_refcnt, kswap_q, lost, shared, panicked>>

FilesNext ==
    /\ ~panicked
    /\ \/ kswapd_serve
       \/ \E t \in FTask :
             \/ fd_install(t) \/ file_lock(t) \/ file_unlock(t) \/ fput(t)
             \/ do_exit(t) \/ exit_done(t)
             \/ \E d \in Fd : fd_close(t, d) \/ fget(t, d) \/ do_mmap(t, d)
             \/ \E n \in 0 .. MaxAreas : parse_elf_header(t, n)
             \/ \E c \in FTask : do_fork(t, c)
             \/ \E f \in File : file_fault(t, f) \/ close_area(t, f)
             \/ \E f \in File, i \in Inode : do_open(t, f, i) \/ do_exec_open(t, f, i)

FilesSpec == FilesInit /\ [][FilesNext]_fvars

----------------------------------------------------------------------------
\* f_ref counts what refers to a file: descriptors, areas and running system calls,
\* and what fork and exec have lost; i_refcnt counts the files of an inode.  Only
\* a file that exec shares between areas without a reference for each may be freed
\* while it is in use, and only then does an assertion on f_ref fail.
FileRefs ==
    /\ panicked => shared # {}
    /\ ~panicked =>
          /\ \A f \in File \ shared : f_ref[f] = Holders(f) + lost[f]
          /\ \A i \in Inode :
                i_refcnt[i] = Cardinality({f \in File : f_ref[f] > 0 /\ f_ip[f] = i})

\* A page fault on a file waits for the f_mutex only of a task that is going to
\* release it: one inside of a system call, or one that sleeps in a page fault of its
\* own which is in kswapd's queue.  (When that one is not ahead in the queue, as in a
\* read of a file into an area that maps it, kswapd and the task wait for each other.)
FaultServed ==
    \A k \in DOMAIN kswap_q :
        LET owner == f_mutex[kswap_q[k].f]
        IN  owner # NULL =>
               \/ run[owner].pc \in {"copy", "exec"}
               \/ run[owner].pc = "copyfault" /\ \E j \in DOMAIN kswap_q : kswap_q[j].t = owner

\* fork copies the parent's files (the comment above copy_tf in kernel/proc/proc.c):
\* the child has the parent's descriptors, and so has the parent.
ForkCopiesFiles ==
    [][\A pa, ch \in FTask :
          do_fork(pa, ch) => fdt'[ch] = fdt[pa] /\ fdt'[pa] = fdt[pa]]_fvars
================================================================================
