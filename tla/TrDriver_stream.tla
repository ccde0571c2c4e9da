--------------------------- MODULE TrDriver_stream ---------------------------
(***************************************************************************)
(* The driver implements ResultStream: queue, semaphore, shared memory and  *)
(* processes hide behind a lossless stream and an all-or-nothing total.     *)
(***************************************************************************)
EXTENDS TrDriver

RS == INSTANCE ResultStream WITH
    Source  <- Task,
    live    <- {t \in Task : proc[t] # "none"},
    made    <- sent,
    seen    <- got,
    closed  <- {t \in Task : proc[t] \notin {"cloned", "waiting", "exec", "replaying"}
                             /\ proc[t] # "none"},
    seenFin <- finGot,
    final   <- {t \in Task : shm[t] = "full"},
    shown   <- IF pc = "copy" THEN {cur} ELSE {}

\* Every behaviour of the driver is one of ResultStream, whatever the client
\* calls and wherever SIGTERM stops a child (tr-mq.c:128, tr-shm.c:241,
\* trace_replay.c:976).
ImplementsStream == RS!Spec
=============================================================================
