---------------------------------- MODULE VM ----------------------------------
(***************************************************************************)
(* User address spaces: page tables, page faults, copy-on-write and kswapd *)
(* (kernel/vm/vm.c, vma.c, kswapd.c; copy_vm of kernel/proc/proc.c; exec   *)
(* of kernel/trap/trap.c).  A task has one thread.  Frames come from       *)
(* alloc_page, which panics rather than fail; Buddy models how.  The TLB   *)
(* holds translations that were writable when they were used; it is        *)
(* flushed when another address space runs on the CPU (sched.c) and after  *)
(* a page fault other than a copy-on-write one.                            *)
(***************************************************************************)
EXTENDS Integers, Sequences, FiniteSets

CONSTANTS
    Task,       \* tasks, alive or not
    VA,         \* the pages of an address space
    vma_is_w,   \* the pages that VM_PROT_WRITE covers
    Frame       \* physical pages

ASSUME VMAssumption ==
    /\ IsFiniteSet(Task) /\ IsFiniteSet(VA)
    /\ "none" \notin Frame
    /\ vma_is_w \subseteq VA
    /\ Cardinality(Frame) >= Cardinality(Task) * Cardinality(VA)

VARIABLES
    vm_ops,     \* page |-> the operations of its vm_area_struct, alike in all tasks
    pte,        \* task |-> page |-> page-table entry
    pgref,      \* frame |-> page->refcnt
    content,    \* frame |-> what it holds
    mem,        \* task |-> page |-> what the task last saw or wrote there
    at,         \* task |-> where its thread is
    kswap,      \* kswap.queue: faults on files
    tlb,        \* task |-> pages that its CPU has cached as writable
    spoiled     \* pages that lost their content to one of the two races below

vmvars == <<vm_ops, pte, pgref, content, mem, at, kswap, tlb, spoiled>>

Invalid == [frame |-> "none", w |-> FALSE, cow |-> FALSE]
Valid(t, va) == pte[t][va] # Invalid
Mapped(f) == {m \in Task \X VA : pte[m[1]][m[2]].frame = f}

\* What a page holds: zeros, or what its file does and other values.
Value == {0, 1}

User == [pc |-> "user"]
In(pc, va) == [pc |-> pc, va |-> va]

\* Task t is inside of handle_cow_page_fault with the lock of frame f.
Locks(t, f) == at[t].pc \in {"copy", "keep"} /\ pte[t][at[t].va].frame = f

\* __alloc_page: some free frame, filled with zeros.
Free == {f \in Frame : pgref[f] = 0 /\ \A t \in Task : ~(at[t].pc = "keep" /\ Locks(t, f))}

\* The write permission of a page-table entry e gives way to the COW mark and back.
set_cow_pte(e) == [e EXCEPT !.w = FALSE, !.cow = TRUE]
clear_cow_pte(e) == [e EXCEPT !.w = TRUE, !.cow = FALSE]

----------------------------------------------------------------------------
\* One task is about to execute its first image.
VMInit ==
    /\ vm_ops \in [VA -> {"file", "gen", "stack"}]
    /\ pte = [t \in Task |-> [va \in VA |-> Invalid]]
    /\ pgref = [f \in Frame |-> 0]
    /\ content = [f \in Frame |-> 0]
    /\ mem = [t \in Task |-> [va \in VA |-> 0]]
    /\ \E t \in Task : at = [u \in Task |-> [pc |-> IF u = t THEN "exec" ELSE "none"]]
    /\ kswap = <<>>
    /\ tlb = [t \in Task |-> {}]
    /\ spoiled = {}

\* mappages of a fresh frame that holds x, with vma_extra_prot.
mappages(t, va, x) ==
    \E f \in Free :
        /\ ~Valid(t, va)
        /\ pte' = [pte EXCEPT ![t][va] = [frame |-> f, w |-> va \in vma_is_w, cow |-> FALSE]]
        /\ pgref' = [pgref EXCEPT ![f] = 1]
        /\ content' = [content EXCEPT ![f] = x]
        /\ mem' = [mem EXCEPT ![t][va] = x]
        /\ spoiled' = spoiled \ {<<t, va>>}

\* alloc_user_stack maps the first page of the stack, if VA has it.
alloc_user_stack(t) ==
    LET stack == {va \in VA : vm_ops[va] = "stack"}
    IN  IF stack = {} THEN UNCHANGED <<pte, pgref, content, mem, spoiled>>
        ELSE \E va \in stack : mappages(t, va, 0)

\* do_exec with the old memory freed; the other pages of the new image come in by
\* page faults.
do_exec(t) ==
    /\ at[t].pc = "exec"
    /\ \A va \in VA : ~Valid(t, va)
    /\ alloc_user_stack(t)
    /\ at' = [at EXCEPT ![t] = User]
    /\ tlb' = [tlb EXCEPT ![t] = {}]
    /\ UNCHANGED kswap

\* page_fault_handler on an absent page, vma_gen_fault.
gen_fault(t, va) ==
    /\ at[t] = User
    /\ vm_ops[va] = "gen"
    /\ mappages(t, va, 0)
    /\ tlb' = [tlb EXCEPT ![t] = {}]
    /\ UNCHANGED <<at, kswap>>

\* page_fault_handler on an absent page, vma_gen_file_fault: the thread sleeps
\* and kswap_wake queues the fault.
file_fault(t, va) ==
    /\ at[t] = User
    /\ vm_ops[va] = "file"
    /\ ~Valid(t, va)
    /\ at' = [at EXCEPT ![t] = In("sleep", va)]
    /\ kswap' = Append(kswap, <<t, va>>)
    /\ UNCHANGED <<pte, pgref, content, mem, tlb, spoiled>>

\* One round of kswapd: the page is read and mapped into the sleeping thread's
\* task, and the thread goes on behind its page fault.
kswapd ==
    /\ kswap # <<>>
    /\ LET t == Head(kswap)[1]
           va == Head(kswap)[2]
       IN  /\ mappages(t, va, 1)
           /\ at' = [at EXCEPT ![t] = User]
           /\ tlb' = [tlb EXCEPT ![t] = {}]
    /\ kswap' = Tail(kswap)

\* A store that the MMU lets pass: by the page table, or by a cached translation.
store(t, va, x) ==
    LET f == pte[t][va].frame
    IN  /\ at[t] = User
        /\ Valid(t, va)
        /\ pte[t][va].w \/ va \in tlb[t]
        /\ content' = [content EXCEPT ![f] = x]
        /\ mem' = [mem EXCEPT ![t][va] = x]
        /\ tlb' = [tlb EXCEPT ![t] = @ \cup {va}]
        /\ spoiled' = spoiled \cup (IF pte[t][va].w THEN {} ELSE Mapped(f) \ {<<t, va>>})
        /\ UNCHANGED <<pte, pgref, at, kswap>>

\* Another address space has run on the task's CPU: sched() and usertrapret flush.
switch_mm(t) ==
    /\ tlb[t] # {}
    /\ tlb' = [tlb EXCEPT ![t] = {}]
    /\ UNCHANGED <<pte, pgref, content, mem, at, kswap, spoiled>>

\* Mutant: put_page_test_1 is taken for put_page_test.
cow_begin_zero(t, va) ==
    LET f == pte[t][va].frame
    IN  /\ at[t] = User
        /\ pte[t][va].cow
        /\ va \notin tlb[t]
        /\ \A u \in Task : ~Locks(u, f)
        /\ pgref' = [pgref EXCEPT ![f] = @ - 1]
        /\ at' = [at EXCEPT ![t] = In(IF pgref[f] = 1 THEN "copy" ELSE "keep", va)]
        /\ UNCHANGED <<pte, content, mem, kswap, tlb, spoiled>>

\* A store to a copy-on-write page: handle_cow_page_fault takes pg->lock and drops
\* the reference with put_page_test_1.
cow_begin(t, va) ==
    LET f == pte[t][va].frame
    IN  /\ at[t] = User
        /\ pte[t][va].cow
        /\ va \notin tlb[t]
        /\ \A u \in Task : ~Locks(u, f)
        /\ pgref' = [pgref EXCEPT ![f] = @ - 1]
        /\ at' = [at EXCEPT ![t] = In(IF pgref[f] > 1 THEN "copy" ELSE "keep", va)]
        /\ UNCHANGED <<pte, content, mem, kswap, tlb, spoiled>>

\* The frame was shared: a new one gets a copy of what the old one holds now.
cow_copy(t) ==
    LET va == at[t].va
        f == pte[t][va].frame
    IN  /\ at[t].pc = "copy"
        /\ \E g \in Free :
              /\ pte' = [pte EXCEPT ![t][va] = clear_cow_pte([@ EXCEPT !.frame = g])]
              /\ pgref' = [pgref EXCEPT ![g] = 1]
              /\ content' = [content EXCEPT ![g] = IF g = f THEN 0 ELSE content[f]]
        /\ at' = [at EXCEPT ![t] = User]
        /\ UNCHANGED <<mem, kswap, tlb, spoiled>>

\* The frame was the task's own: get_page puts the reference back.
cow_keep(t) ==
    LET va == at[t].va
    IN  /\ at[t].pc = "keep"
        /\ pgref' = [pgref EXCEPT ![pte[t][va].frame] = @ + 1]
        /\ pte' = [pte EXCEPT ![t][va] = clear_cow_pte(@)]
        /\ at' = [at EXCEPT ![t] = User]
        /\ UNCHANGED <<content, mem, kswap, tlb, spoiled>>

\* vma_gen_dup of every area: the entries that both page tables get.
vma_gen_dup(p) ==
    [va \in VA |-> IF pte[p][va].w THEN set_cow_pte(pte[p][va]) ELSE pte[p][va]]

\* Mutant: vma_gen_dup leaves the parent's pages writable.
copy_vm_writable(p, c) ==
    /\ at[p] = User
    /\ at[c].pc = "none"
    /\ pte' = [pte EXCEPT ![c] = vma_gen_dup(p)]
    /\ pgref' = [f \in Frame |-> pgref[f] + Cardinality({va \in VA : pte[p][va].frame = f})]
    /\ mem' = [mem EXCEPT ![c] = mem[p]]
    /\ spoiled' = spoiled \cup {<<c, va>> : va \in {v \in VA : <<p, v>> \in spoiled}}
    /\ at' = [at EXCEPT ![c] = User]
    /\ UNCHANGED <<content, kswap, tlb>>

\* do_fork, copy_vm.  The parent's own translations are not flushed.
copy_vm(p, c) ==
    /\ at[p] = User
    /\ at[c].pc = "none"
    /\ pte' = [pte EXCEPT ![p] = vma_gen_dup(p), ![c] = vma_gen_dup(p)]
    /\ pgref' = [f \in Frame |-> pgref[f] + Cardinality({va \in VA : pte[p][va].frame = f})]
    /\ mem' = [mem EXCEPT ![c] = mem[p]]
    /\ spoiled' = spoiled \cup {<<c, va>> : va \in {v \in VA : <<p, v>> \in spoiled}}
    /\ at' = [at EXCEPT ![c] = User]
    /\ UNCHANGED <<content, kswap, tlb>>

\* do_exit and do_exec enter free_user_memory ...
free_begin(t, why) ==
    /\ at[t] = User
    /\ at' = [at EXCEPT ![t] = [pc |-> why]]
    /\ tlb' = [tlb EXCEPT ![t] = {}]
    /\ UNCHANGED <<pte, pgref, content, mem, kswap, spoiled>>

\* ... where vma_gen_close frees page after page, without pg->lock: a task that is
\* copying the frame may be left with a frame that has been given back ...
vma_gen_close(t, va) ==
    LET f == pte[t][va].frame
        copying == {u \in Task : at[u].pc = "copy" /\ Locks(u, f)}
    IN  /\ at[t].pc \in {"exit", "exec"}
        /\ Valid(t, va)
        /\ pgref' = [pgref EXCEPT ![f] = @ - 1]
        /\ pte' = [pte EXCEPT ![t][va] = Invalid]
        /\ content' = [content EXCEPT ![f] = IF pgref[f] = 1 THEN 0 ELSE @]
        /\ mem' = [mem EXCEPT ![t][va] = 0]
        /\ spoiled' = (spoiled \ {<<t, va>>})
                         \cup (IF pgref[f] = 1 THEN {<<u, at[u].va>> : u \in copying} ELSE {})
        /\ UNCHANGED <<at, kswap, tlb>>

\* ... and the task is gone.
exit_end(t) ==
    /\ at[t].pc = "exit"
    /\ \A va \in VA : ~Valid(t, va)
    /\ at' = [at EXCEPT ![t] = [pc |-> "none"]]
    /\ UNCHANGED <<pte, pgref, content, mem, kswap, tlb, spoiled>>

VMStep ==
    \/ kswapd
    \/ \E t \in Task :
          \/ do_exec(t) \/ switch_mm(t) \/ cow_copy(t) \/ cow_keep(t) \/ exit_end(t)
          \/ \E why \in {"exit", "exec"} : free_begin(t, why)
          \/ \E c \in Task : copy_vm(t, c)
          \/ \E va \in VA :
                \/ gen_fault(t, va) \/ file_fault(t, va)
                \/ cow_begin(t, va) \/ vma_gen_close(t, va)
                \/ \E x \in Value : store(t, va, x)

VMNext == VMStep /\ UNCHANGED vm_ops

VMSpec == VMInit /\ [][VMNext]_vmvars

----------------------------------------------------------------------------
\* At every step of every fault, fork and exit, a frame's reference count is the
\* number of page-table entries that map it, less those whose owner has dropped
\* its reference in handle_cow_page_fault; and a writable page is its task's own.
RefExact ==
    \A f \in Frame :
        /\ pgref[f] = Cardinality(Mapped(f)) - Cardinality({t \in Task : Locks(t, f)})
        /\ \A m \in Mapped(f) : pte[m[1]][m[2]].w => pgref[f] = 1

\* A task reads what it wrote last, or what its parent had there at the fork, and
\* no other task's stores, with two exceptions: the parent goes on storing through
\* a translation that fork did not flush, and a frame is given back by an exiting
\* task while handle_cow_page_fault copies it.
Isolation ==
    \A t \in Task, va \in VA :
        Valid(t, va) /\ <<t, va>> \notin spoiled => content[pte[t][va].frame] = mem[t][va]
===============================================================================
