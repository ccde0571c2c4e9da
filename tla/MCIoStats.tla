------------------------------ MODULE MCIoStats ------------------------------
(* The workloads TLC runs IoStats with. *)
EXTENDS IoStats

Req(dev, b, n, f) == [devno |-> dev, blkno |-> b, bcount |-> n, flags |-> f]

File(lines) ==
    [name |-> "file", lines |-> lines, wss |-> 0, utilization |-> 0,
     iosize |-> 0]

Synth(name, wss, utilization, iosize) ==
    [name |-> name, lines |-> <<>>, wss |-> wss, utilization |-> utilization,
     iosize |-> iosize]

\* Requests that overlap in every way, and on another device.
Small == {Req(0, b, n, 0) : b \in 0 .. 3, n \in {1, 2, 4}}
Few == {Req(0, 0, 3, 1), Req(0, 2, 3, 0), Req(0, 4, 1, 0), Req(1, 2, 3, 0),
        WrongText}

\* Replayed: reads and writes, at the end of the partition, larger than half
\* of it and larger than MAX_BYTES; three synthetic workloads, one that wraps
\* around.
MCReplayed ==
    {File(<<Req(0, 1, 3, 1), Req(0, 19, 3, 0), Req(0, 35, 4, 0)>>),
     File(<<Req(0, 2, 11, 0), Req(0, 16, 4, 1)>>),
     File(<<Req(0, 6, 1, 0)>>),
     Synth("seq_mixed", 3, 2, 4), Synth("rand_write", 1, 2, 2),
     Synth("rand_read", 2, 1, 0)}

MCJobs ==
    MCReplayed
    \cup {File(s) : s \in [1 .. 3 -> Small]}
    \cup {File(s) : s \in [1 .. 4 -> Few]}
    \cup {Synth("seq_write", wss, u, k) :
             wss \in {0, 1, 2, 3, 4, 5, 8}, u \in 0 .. 3,
             k \in {0, 1, 2, 3, 4, 12}}
    \cup {Synth(name, wss, u, k) :
             name \in {"rand_read", "seq_mixed"}, wss \in {1, 2},
             u \in {1, 2}, k \in {1, 2, 3, 4, 8}}
    \cup {Synth("rand_mixed", 1, u, 2) : u \in {1, 2}}
=============================================================================
