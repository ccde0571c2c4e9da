--------------------------- MODULE MCReplayWorkers ---------------------------
(* The workloads TLC runs ReplayWorkers with. *)
EXTENDS ReplayWorkers

Work(n, times, want, limit, every) ==
    [cnt |-> n, repeat |-> times, wanted |-> want, timeout |-> limit,
     gap |-> every]

\* A trace file that is replayed twice, a trace file under a timeout, and two
\* synthetic workloads: one that wraps around, whose wanted count is no
\* multiple of its requests, and one that is over before its trace and has
\* repeats left.
MCLoad ==
    {Work(3, 2, 0, 0, 1), Work(2, 1, 0, 2, 1), Work(2, 1, 5, 0, 0),
     Work(4, 2, 2, 0, 0)}
=============================================================================
