----------------------------- MODULE TraceLoad -----------------------------
(***************************************************************************)
(* How trace-replay gets its requests, before any worker thread runs:       *)
(* trace_loader reads a trace file line by line and trace_io_put takes the  *)
(* overlap with the last requests out of each; or main checks the sizes of  *)
(* a synthetic workload, synthetic_gen makes its requests and synthetic_mix *)
(* shuffles them.                                                           *)
(*                                                                          *)
(* Requests are in sectors, sizes in KB. An int wraps at IntKB, which       *)
(* stands for 2^31 bytes. Arrival times are ReplayWorkers'.                 *)
(***************************************************************************)
EXTENDS Integers, Sequences, FiniteSets

CONSTANTS
    Jobs,        \* the workloads
    WrongText,   \* a line without the five numbers of a request
    Spp,         \* sectors per page: 8
    PageKB,      \* KB per page: 4
    MegaKB,      \* KB per MB: 1024
    Percent,     \* 100
    IntKB,       \* 2^31 bytes in KB
    MaxKB,       \* MAX_BYTES in KB
    BufSize,     \* requests the buffer is made for: 1024
    Window,      \* qdepth * nr_thread
    TotalPages   \* pages of the partition

Request == [devno : Nat, blkno : Nat, bcount : Nat, flags : Nat]

ASSUME ConstantsAssumption ==
    /\ {Spp, PageKB, MegaKB, Percent, IntKB, MaxKB, BufSize, Window,
        TotalPages} \subseteq Nat \ {0}
    /\ MegaKB % PageKB = 0    \* a MB is a whole number of pages
    /\ WrongText \notin Request
    /\ \A j \in Jobs :
          /\ j.lines \in Seq(Request \cup {WrongText})
          /\ {j.wss, j.utilization, j.iosize} \subseteq Nat
          /\ j.iosize < IntKB

VARIABLES
    job,      \* the workload: tracename, lines, wss, utilization, iosize
    phase,    \* "fgets", "scan", "again", "gen"; "ready", "failed",
              \* "crashed", "spin"
    pos,      \* lines read
    buf,      \* trace_buf: the requests
    size,     \* trace_buf_size
    io, at,   \* the request in hand and the place it is compared with next
    wanted    \* wanted_io_count

loadVars == <<job, phase, pos, buf, size, io, at, wanted>>

End(r) == r.blkno + r.bcount

NoRequest == [devno |-> 0, blkno |-> 0, bcount |-> 0, flags |-> 0]

SynthNames == {"rand", "rand_write", "rand_read", "rand_mixed",
               "seq", "seq_write", "seq_read", "seq_mixed"}

IsSynthetic(j) == j.name \in SynthNames

LoadInit ==
    /\ job \in Jobs
    /\ phase = IF IsSynthetic(job) THEN "gen" ELSE "fgets"
    /\ pos = 0 /\ buf = <<>> /\ wanted = 0
    /\ size = IF IsSynthetic(job) THEN 0 ELSE BufSize
    /\ io = NoRequest /\ at = 1

-----------------------------------------------------------------------------
(* A trace file                                                            *)

\* The buffer is doubled when it is full; not for a line that trace_io_put
\* reads itself.
Grown == IF phase = "fgets" /\ size <= Len(buf) THEN size * 2 ELSE size

\* The first of the requests that may be in flight with the next one.
WindowStart == IF Len(buf) > Window THEN Len(buf) - Window + 1 ELSE 1

ReadLine ==
    /\ phase \in {"fgets", "again"} /\ pos < Len(job.lines)
    /\ job.lines[pos + 1] # WrongText
    /\ pos' = pos + 1 /\ size' = Grown
    /\ io' = job.lines[pos + 1] /\ at' = WindowStart
    /\ phase' = "scan"
    /\ UNCHANGED <<job, buf, wanted>>

WrongLine ==
    /\ phase \in {"fgets", "again"} /\ pos < Len(job.lines)
    /\ job.lines[pos + 1] = WrongText
    /\ pos' = pos + 1 /\ size' = Grown
    /\ phase' = "fgets"
    /\ UNCHANGED <<job, buf, io, at, wanted>>

FileEnds ==
    /\ phase \in {"fgets", "again"} /\ pos = Len(job.lines)
    /\ phase' = "ready"
    /\ UNCHANGED <<job, pos, buf, size, io, at, wanted>>

\* A request from sector first up to the sector last, which it leaves out.
Resized(r, first, last) ==
    [devno |-> r.devno, blkno |-> first, bcount |-> last - first,
     flags |-> r.flags]

Comparing == phase = "scan" /\ at <= Len(buf) /\ io.devno = buf[at].devno

AtFront == /\ io.blkno < buf[at].blkno
           /\ End(io) > buf[at].blkno /\ End(io) < End(buf[at])

\* A mutant: a request that begins with the earlier one does not cover it.
CoversStrict == io.blkno < buf[at].blkno /\ End(io) >= End(buf[at])

Covers == io.blkno <= buf[at].blkno /\ End(io) >= End(buf[at])

Inside == io.blkno >= buf[at].blkno /\ End(io) <= End(buf[at])

AtTail == /\ io.blkno > buf[at].blkno /\ io.blkno < End(buf[at])
          /\ End(io) > End(buf[at])

\* The request keeps what lies before the earlier one.
CutTail ==
    /\ Comparing /\ AtFront
    /\ io' = Resized(io, io.blkno, buf[at].blkno)
    /\ at' = at + 1
    /\ UNCHANGED <<job, phase, pos, buf, size, wanted>>

\* The earlier request becomes as large as the new one, which is dropped.
Merge ==
    /\ Comparing /\ ~AtFront /\ Covers
    /\ buf' = [buf EXCEPT ![at] = Resized(@, io.blkno, End(io))]
    /\ phase' = "again"
    /\ UNCHANGED <<job, pos, size, io, at, wanted>>

Drop ==
    /\ Comparing /\ ~AtFront /\ ~Covers /\ Inside
    /\ phase' = "again"
    /\ UNCHANGED <<job, pos, buf, size, io, at, wanted>>

\* A mutant: the size is taken from the block number that was just moved.
CutHeadLate ==
    /\ Comparing /\ ~AtFront /\ ~Covers /\ ~Inside /\ AtTail
    /\ io' = [io EXCEPT !.blkno = End(buf[at])]
    /\ at' = at + 1
    /\ UNCHANGED <<job, phase, pos, buf, size, wanted>>

\* The request keeps what lies behind the earlier one.
CutHead ==
    /\ Comparing /\ ~AtFront /\ ~Covers /\ ~Inside /\ AtTail
    /\ io' = Resized(io, End(buf[at]), End(io))
    /\ at' = at + 1
    /\ UNCHANGED <<job, phase, pos, buf, size, wanted>>

Apart ==
    /\ phase = "scan" /\ at <= Len(buf)
    /\ \/ io.devno # buf[at].devno
       \/ ~AtFront /\ ~Covers /\ ~Inside /\ ~AtTail
    /\ at' = at + 1
    /\ UNCHANGED <<job, phase, pos, buf, size, io, wanted>>

AppendRequest ==
    /\ phase = "scan" /\ at > Len(buf)
    /\ buf' = Append(buf, io)
    /\ phase' = "fgets"
    /\ UNCHANGED <<job, pos, size, io, at, wanted>>

-----------------------------------------------------------------------------
(* A synthetic workload                                                    *)

Quot(a, b) == IF a < 0 THEN -((-a) \div b) ELSE a \div b

Wrap(kb) == ((kb + IntKB) % (2 * IntKB)) - IntKB

Random(name) == name \in {"rand", "rand_write", "rand_read", "rand_mixed"}

\* The flag of a request is 1 for a read.
Flags(name) ==
    CASE name \in {"rand", "rand_write", "seq", "seq_write"} -> {0}
      [] name \in {"rand_read", "seq_read"} -> {1}
      [] OTHER -> {0, 1}

IoKB(j) == IF j.iosize = 0 THEN PageKB ELSE j.iosize

IoPages(j) == IoKB(j) \div PageKB

\* A whole number of requests, cut to MB.
WorkingSetMB(j) == (((j.wss * MegaKB) \div IoKB(j)) * IoKB(j)) \div MegaKB

\* An int product that may overflow before it is divided; a compiler may also
\* have divided the constants first.
WorkingSetPages(j) ==
    {Quot(Wrap(WorkingSetMB(j) * MegaKB), PageKB),
     WorkingSetMB(j) * (MegaKB \div PageKB)}

Valid(j, pages) ==
    /\ IoKB(j) <= MaxKB
    /\ WorkingSetMB(j) > 0 /\ pages < TotalPages
    /\ j.utilization \in 1 .. Percent

\* The division by io_pages comes behind the checks.
Divides(j) == IoPages(j) > 0

\* The requests synthetic_gen makes.
SynthCount(j, pages) ==
    Quot(Quot(pages, IoPages(j)), Percent) * j.utilization

SynthRequest(j, i, f) ==
    [devno |-> 0, blkno |-> i * IoPages(j) * Spp,
     bcount |-> IoPages(j) * Spp, flags |-> f]

\* A mutant: no third copy.
SwapLost(s, i, k) == [s EXCEPT ![i] = s[k]]

Swap(s, i, k) == [s EXCEPT ![i] = s[k], ![k] = s[i]]

\* What synthetic_mix may leave: each request in turn changes place with
\* another one. There is none for a lone request, and the search goes on.
Mixes(s) ==
    LET n == Len(s)
        mixed[i \in 0 .. n] ==
           IF i = 0 THEN {s}
           ELSE {Swap(t, i, k) : t \in mixed[i - 1], k \in (1 .. n) \ {i}}
    IN  mixed[n]

Rejected ==
    /\ phase = "gen"
    /\ \E pages \in WorkingSetPages(job) : ~Valid(job, pages)
    /\ phase' = "failed"
    /\ UNCHANGED <<job, pos, buf, size, io, at, wanted>>

\* A division by zero, or a negative number of requests.
Crashed ==
    /\ phase = "gen"
    /\ \E pages \in WorkingSetPages(job) :
          /\ Valid(job, pages)
          /\ Divides(job) => SynthCount(job, pages) < 0
    /\ phase' = "crashed"
    /\ UNCHANGED <<job, pos, buf, size, io, at, wanted>>

\* main is given one repeat: see TaskInfo.RepeatsAsSet.
Generate ==
    /\ phase = "gen"
    /\ \E pages \in WorkingSetPages(job) :
          /\ Valid(job, pages) /\ Divides(job)
          /\ SynthCount(job, pages) >= 0
          /\ wanted' = Quot(pages, IoPages(job))
          /\ LET n == SynthCount(job, pages) IN
             \E f \in [1 .. n -> Flags(job.name)] :
                LET made == [i \in 1 .. n |-> SynthRequest(job, i - 1, f[i])]
                    outcomes == IF Random(job.name) THEN Mixes(made)
                                ELSE {made}
                IN  \/ /\ buf' \in outcomes /\ phase' = "ready"
                    \/ /\ outcomes = {} /\ buf' = made /\ phase' = "spin"
    /\ UNCHANGED <<job, pos, size, io, at>>

LoadStep ==
    \/ ReadLine \/ WrongLine \/ FileEnds
    \/ CutTail \/ Merge \/ Drop \/ CutHead \/ Apart \/ AppendRequest
    \/ Rejected \/ Crashed \/ Generate

-----------------------------------------------------------------------------
(* Properties                                                              *)

Disjoint(r, s) ==
    r.devno = s.devno => End(r) <= s.blkno \/ End(s) <= r.blkno

\* A request of a file that joins the trace overlaps none of those that may be
\* in flight with it (trace_io_put's cuts come one after another, each from
\* what the one before left). It says nothing of the requests that are in the
\* trace already: Merge may enlarge one over its neighbours
\* (trace_replay.c:1080-1090).
AppendedDisjoint ==
    [][~IsSynthetic(job) /\ Len(buf') > Len(buf) =>
          \A k \in WindowStart .. Len(buf) :
             Disjoint(buf'[Len(buf')], buf[k])]_loadVars

Sectors(r) == {<<r.devno, s>> : s \in r.blkno .. End(r) - 1}

LinesRead == {job.lines[k] : k \in 1 .. pos} \ {WrongText}

\* Cutting, merging and dropping lose no sector of the file and invent none:
\* between two lines the trace is about the sectors of the lines read, and
\* its buffer holds them.
SectorsKept ==
    phase \in {"fgets", "again", "ready"} /\ ~IsSynthetic(job) =>
       /\ UNION {Sectors(buf[k]) : k \in 1 .. Len(buf)} =
          UNION {Sectors(r) : r \in LinesRead}
       /\ Len(buf) <= size

\* The requests of a synthetic workload, however they were mixed, are the
\* first ones of its working set, each once, and no more than its
\* utilization, unless an int overflowed or there was one request to mix.
SynthInWorkingSet ==
    phase = "ready" /\ IsSynthetic(job) /\ job.wss * MegaKB < IntKB =>
       LET n == Len(buf)
           pages == job.wss * (MegaKB \div PageKB)
       IN  /\ {buf[k].blkno : k \in 1 .. n} =
                 {i * IoPages(job) * Spp : i \in 0 .. n - 1}
           /\ \A k \in 1 .. n : /\ End(buf[k]) <= pages * Spp
                                /\ End(buf[k]) < TotalPages * Spp
           /\ n * IoPages(job) * Percent <= pages * job.utilization
           /\ n * Percent <= wanted * job.utilization
=============================================================================
