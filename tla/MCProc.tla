------------------------------- MODULE MCProc -------------------------------
(* Proc with three threads: a parent that is not init_t, and its child.     *)
EXTENDS Proc

CONSTANTS i, a, b

MCWaitCall == {<<ANY, FALSE>>, <<b, FALSE>>}
MCUserSig == {SIGCHLD}
=============================================================================
