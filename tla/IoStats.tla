------------------------------ MODULE IoStats ------------------------------
(***************************************************************************)
(* What trace-replay reports about the requests it has loaded: make_jobs    *)
(* places each in the partition, update_iostat counts it when its I/O is    *)
(* complete, main_worker's print_result adds up the threads for an interval *)
(* report while they go on, finalize's makes the totals, and the driver     *)
(* makes JSON of both.                                                      *)
(*                                                                          *)
(* Which thread takes a request, and when, is free here: ReplayWorkers has  *)
(* the loop of sub_worker, its arrival times and its timeout. There is one  *)
(* trace, as in every run the drivers start, its partition is the whole     *)
(* device, and every I/O is submitted. Sizes are in sectors. A double is a  *)
(* fraction, and with denominator 0 a NaN or an infinity.                   *)
(***************************************************************************)
EXTENDS TraceLoad

CONSTANTS
    NThread,    \* nr_thread
    QDepth,     \* queue_depth of each thread
    Replayed,   \* bound: the jobs whose requests are replayed
    Epoch,      \* from time 0 of the system clock to the start of the replay
    MaxClock,   \* bound: the clock stops there
    MaxReports  \* bound on the interval reports

ASSUME StatsAssumption ==
    /\ {NThread, QDepth, Epoch} \subseteq Nat \ {0}
    /\ {MaxClock, MaxReports} \subseteq Nat
    /\ Window = QDepth * NThread
    /\ Replayed \subseteq Jobs

Threads == 1 .. NThread

VARIABLES
    cur, issue, rep,  \* trace_io_cur, trace_io_issue_count, _repeat_count
    flight,           \* of each thread: its jobs in flight
    left,             \* the threads that take no more requests
    done,             \* the threads whose done is set
    stat,             \* of each thread: its io_stat
    clock,
    tvEnd,            \* tv_end: when print_result was here last; 0 is 1970
    print,            \* print_result: the thread it is at, what it added up
    report,           \* the last interval report and how many there were
    results,          \* total_results
    told              \* traffic of the reported intervals (history)

replayVars == <<cur, issue, rep, flight, left, done, stat, clock, tvEnd,
                print, report, results, told>>
vars == <<loadVars, replayVars>>

NoTraffic == [all |-> 0, rd |-> 0, wr |-> 0]

NoStat == [sum |-> 0, sqr |-> 0, min |-> 0, max |-> 0, count |-> 0,
           total |-> NoTraffic, cur |-> NoTraffic, exec |-> 0]

NoReport == [nr |-> 0, log |-> {}]

Idle == [at |-> 0, detail |-> FALSE, dst |-> NoStat]

Init ==
    /\ LoadInit
    /\ cur = 0 /\ issue = 0 /\ rep = 1
    /\ flight = [w \in Threads |-> {}]
    /\ left = {} /\ done = {}
    /\ stat = [w \in Threads |-> NoStat]
    /\ clock = Epoch /\ tvEnd = 0
    /\ print = Idle /\ report = NoReport /\ results = {} /\ told = 0

\* An empty trace is not: the threads would read behind an empty buffer.
Replaying == phase = "ready" /\ job \in Replayed /\ buf # <<>>

-----------------------------------------------------------------------------
(* make_jobs and wait_completion                                           *)

Smaller(a, b) == IF a < b THEN a ELSE b

Pages(r) == (r.bcount + Spp - 1) \div Spp

\* Mutant: the end of the partition is one page too far.
AlignSectorLate(r) ==
    LET page == (r.blkno \div Spp) % TotalPages IN
    [page |-> IF page + Pages(r) > TotalPages + 1
              THEN page - Pages(r) ELSE page,
     pages |-> Pages(r)]

\* Whole pages; at the end of the partition the request is moved to the
\* front by its size.
AlignSector(r) ==
    LET page == (r.blkno \div Spp) % TotalPages IN
    [page |-> IF page + Pages(r) >= TotalPages
              THEN page - Pages(r) ELSE page,
     pages |-> Pages(r)]

MaxSectors == (MaxKB \div PageKB) * Spp

Bytes(r) == Smaller(AlignSector(r).pages * Spp, MaxSectors)

\* nr tells apart jobs that are alike.
JobOf(r, n) ==
    [page |-> AlignSector(r).page, bytes |-> Bytes(r), rw |-> r.flags # 0,
     start |-> clock, nr |-> n]

\* try_trace_reset with one repeat and no timeout.
CanReset(n) == wanted > 0 /\ n < wanted

AtEnd(n) == (wanted > 0 /\ n >= wanted) \/ cur + 1 >= Len(buf)

Takes(w) == Replaying /\ w \notin left /\ Cardinality(flight[w]) < QDepth

\* The trace is reset behind its last request and mixed again.
Fetch(w) ==
    /\ Takes(w) /\ cur < Len(buf)
    /\ flight' = [flight EXCEPT ![w] = @ \cup {JobOf(buf[cur + 1], issue)}]
    /\ issue' = issue + 1
    /\ \/ /\ ~AtEnd(issue + 1)
          /\ cur' = cur + 1 /\ UNCHANGED <<rep, buf>>
       \/ /\ AtEnd(issue + 1) /\ CanReset(issue + 1)
          /\ cur' = 0 /\ rep' = rep + 1
          /\ buf' \in IF Random(job.name) THEN Mixes(buf) ELSE {buf}
    /\ UNCHANGED <<job, phase, pos, size, io, at, wanted>>
    /\ UNCHANGED <<left, done, stat, clock, tvEnd, print, report, results,
                   told>>

\* No job is made for the request that is fetched at the end of the trace.
Refused(w) ==
    /\ Takes(w)
    /\ AtEnd(issue + 1) /\ ~CanReset(issue + 1)
    /\ cur' = cur + 1 /\ issue' = issue + 1 /\ left' = left \cup {w}
    /\ UNCHANGED <<loadVars, rep, flight, done, stat, clock, tvEnd, print,
                   report, results, told>>

\* The thread finds the trace at its end.
Leave(w) ==
    /\ Replaying /\ w \notin left
    /\ cur >= Len(buf) /\ ~CanReset(issue)
    /\ left' = left \cup {w}
    /\ UNCHANGED <<loadVars, cur, issue, rep, flight, done, stat, clock,
                   tvEnd, print, report, results, told>>

AddTraffic(t, j) ==
    [all |-> t.all + j.bytes,
     rd |-> IF j.rw THEN t.rd + j.bytes ELSE t.rd,
     wr |-> IF j.rw THEN t.wr ELSE t.wr + j.bytes]

\* Mutant: the first latency does not set the extremes.
UpdateIostatNoFirst(s, j) ==
    LET latency == clock - j.start IN
    [sum |-> s.sum + latency, sqr |-> s.sqr + latency * latency,
     min |-> IF latency < s.min THEN latency ELSE s.min,
     max |-> s.max,
     count |-> s.count + 1,
     total |-> AddTraffic(s.total, j), cur |-> AddTraffic(s.cur, j),
     exec |-> s.exec]

\* What update_iostat makes of io_stat under its lock. The result code of the
\* event is not looked at.
UpdateIostat(s, j) ==
    LET latency == clock - j.start IN
    [sum |-> s.sum + latency, sqr |-> s.sqr + latency * latency,
     min |-> IF s.count = 0 \/ latency < s.min THEN latency ELSE s.min,
     max |-> IF s.count = 0 \/ latency > s.max THEN latency ELSE s.max,
     count |-> s.count + 1,
     total |-> AddTraffic(s.total, j), cur |-> AddTraffic(s.cur, j),
     exec |-> s.exec]

Complete(w) ==
    /\ \E j \in flight[w] :
          /\ flight' = [flight EXCEPT ![w] = @ \ {j}]
          /\ stat' = [stat EXCEPT ![w] = UpdateIostat(@, j)]
    /\ UNCHANGED <<loadVars, cur, issue, rep, left, done, clock, tvEnd,
                   print, report, results, told>>

\* Mutant: the I/O in flight is not waited for.
SetDoneEarly(w) ==
    /\ w \in left \ done
    /\ done' = done \cup {w}
    /\ stat' = [stat EXCEPT ![w].exec = clock - Epoch]
    /\ UNCHANGED <<loadVars, cur, issue, rep, flight, left, clock, tvEnd,
                   print, report, results, told>>

\* The label Timeout of sub_worker.
SetDone(w) ==
    /\ w \in left \ done /\ flight[w] = {}
    /\ done' = done \cup {w}
    /\ stat' = [stat EXCEPT ![w].exec = clock - Epoch]
    /\ UNCHANGED <<loadVars, cur, issue, rep, flight, left, clock, tvEnd,
                   print, report, results, told>>

-----------------------------------------------------------------------------
(* print_result                                                            *)

SumTraffic(s, t) ==
    [all |-> s.all + t.all, rd |-> s.rd + t.rd, wr |-> s.wr + t.wr]

\* A thread without a completed request counts with latency 0.
AddStat(first, dst, s) ==
    [sum |-> dst.sum + s.sum, sqr |-> dst.sqr + s.sqr,
     min |-> IF first THEN s.min ELSE Smaller(dst.min, s.min),
     max |-> IF first \/ s.max > dst.max THEN s.max ELSE dst.max,
     count |-> dst.count + s.count,
     total |-> SumTraffic(dst.total, s.total),
     cur |-> SumTraffic(dst.cur, s.cur),
     exec |-> dst.exec + s.exec]

\* main_worker prints while a thread is not done, finalize when none is left;
\* finalize takes the time before.
Begin ==
    /\ Replaying /\ print.at = 0 /\ results = {}
    /\ done = Threads \/ report.nr < MaxReports
    /\ print' = [at |-> 1, detail |-> done = Threads, dst |-> NoStat]
    /\ tvEnd' = IF done = Threads THEN clock ELSE tvEnd
    /\ UNCHANGED <<loadVars, cur, issue, rep, flight, left, done, stat,
                   clock, report, results, told>>

\* Mutant: the traffic of the interval is cleared for all threads at the end.
SweepClearsLast ==
    /\ print.at \in Threads
    /\ print' = [print EXCEPT !.at = @ + 1,
                    !.dst = AddStat(print.at = 1, @, stat[print.at])]
    /\ stat' = IF print.at < NThread THEN stat
               ELSE [w \in Threads |-> [stat[w] EXCEPT !.cur = NoTraffic]]
    /\ UNCHANGED <<loadVars, cur, issue, rep, flight, left, done, clock,
                   tvEnd, report, results, told>>

\* One thread, under its lock.
Sweep ==
    /\ print.at \in Threads
    /\ print' = [print EXCEPT !.at = @ + 1,
                    !.dst = AddStat(print.at = 1, @, stat[print.at])]
    /\ stat' = [stat EXCEPT ![print.at].cur = NoTraffic]
    /\ UNCHANGED <<loadVars, cur, issue, rep, flight, left, done, clock,
                   tvEnd, report, results, told>>

Frac(n, d) == [num |-> n, den |-> d]

\* The divisions that are guarded.
Safe(n, d) == IF d = 0 THEN Frac(0, 1) ELSE Frac(n, d)

MB == (MegaKB \div PageKB) * Spp
KB == MB \div MegaKB

IoSize == (IoKB(job) \div PageKB) * Spp + (IoKB(job) % PageKB) * KB

\* A mutant: what is left is counted from the traffic of the interval.
RemainingOfInterval(s, time) ==
    LET bytes == wanted * IoSize - s.cur.all IN
    [remaining |-> Frac(Quot(bytes, MB) * MB * time,
                        IF time = 0 THEN 0 ELSE s.total.all),
     remaining_percentage |-> Frac(bytes * 100, wanted * IoSize)]

\* Of a synthetic workload, the bytes of the wanted requests that are not
\* through; in whole MB for the time.
RemainingWanted(s, time) ==
    LET bytes == wanted * IoSize - s.total.all IN
    [remaining |-> Frac(Quot(bytes, MB) * MB * time,
                        IF time = 0 THEN 0 ELSE s.total.all),
     remaining_percentage |-> Frac(bytes * 100, wanted * IoSize)]

\* Of a trace file, by its progress.
RemainingTrace(time) ==
    LET progress == cur + Len(buf) * (rep - 1)
        whole == Len(buf)
    IN  [remaining |-> Frac(time * (whole - progress), progress),
         remaining_percentage |-> Frac(100 * (whole - progress), whole)]

RealtimeLog(s, time, period) ==
    LET left_over == IF wanted > 0 THEN RemainingWanted(s, time)
                     ELSE RemainingTrace(time)
    IN  [type |-> IF wanted > 0 THEN "WANTED_IO_COUNT" ELSE "NONE",
         time |-> Frac(time, 1),
         remaining |-> left_over.remaining,
         remaining_percentage |-> left_over.remaining_percentage,
         avg_bw |-> Safe(s.total.all, time * MB),
         cur_bw |-> Safe(s.cur.all, period * MB),
         lat |-> Safe(s.sum, s.count)]

\* The interval is sent. Its period goes back to the last report.
Report ==
    /\ print.at = NThread + 1 /\ ~print.detail
    /\ report' = [nr |-> report.nr + 1,
                  log |-> {RealtimeLog(print.dst, clock - Epoch,
                                       clock - tvEnd)}]
    /\ told' = told + print.dst.cur.all
    /\ tvEnd' = clock /\ print' = Idle
    /\ UNCHANGED <<loadVars, cur, issue, rep, flight, left, done, stat,
                   clock, results>>

\* (sqr - sum * mean) / (count - 1)
Variance(s) == Frac(s.sqr * s.count - s.sum * s.sum, s.count * (s.count - 1))

\* The sixteen members of struct trace_stat that both results have; exec is a
\* fraction.
TraceStat(s, exec, avg_lat, variance, iops, read_ratio) ==
    LET bw(bytes) == Safe(bytes * exec.den, exec.num * MB)
        req_size(bytes) == Safe(bytes, s.count * KB)
    IN  [exec_time |-> exec, avg_lat |-> avg_lat, avg_lat_var |-> variance,
         lat_min |-> Frac(s.min, 1), lat_max |-> Frac(s.max, 1),
         iops |-> iops,
         total_bw |-> bw(s.total.all), read_bw |-> bw(s.total.rd),
         write_bw |-> bw(s.total.wr),
         total_traffic |-> Frac(s.total.all, MB),
         read_traffic |-> Frac(s.total.rd, MB),
         write_traffic |-> Frac(s.total.wr, MB),
         read_ratio |-> read_ratio,
         total_avg_req_size |-> req_size(s.total.all),
         read_avg_req_size |-> req_size(s.total.rd),
         write_avg_req_size |-> req_size(s.total.wr)]

\* Of the trace: mean, variance and iops are divided without a guard, and the
\* ratio is that of the writes.
PerTraceStat(s) ==
    LET exec == Frac(s.exec, NThread) IN
    TraceStat(s, exec, Frac(s.sum, s.count), Variance(s),
              Frac(s.count * exec.den, exec.num),
              Safe(s.total.wr, s.total.all))

\* Of all traces; the ratio is that of reads to writes.
AggrStat(s, time) ==
    TraceStat(s, Frac(time, 1), Safe(s.sum, s.count),
              IF s.count = 0 THEN Frac(0, 1) ELSE Variance(s),
              Safe(s.count, time), Safe(s.total.rd, s.total.wr))

Synthetic ==
    [working_set_size |-> WorkingSetMB(job), utilization |-> job.utilization,
     touched_working_set_size |->
        (WorkingSetMB(job) * job.utilization) \div Percent,
     io_size |-> IoKB(job)]

\* The end of finalize's call, which sends the totals.
Totals ==
    /\ print.at = NThread + 1 /\ print.detail
    /\ results' = {[name |-> job.name, issynthetic |-> IsSynthetic(job),
                    synthetic |-> Synthetic,
                    stats |-> PerTraceStat(print.dst),
                    trace_reset_count |-> rep,
                    aggr |-> AggrStat(print.dst, tvEnd - Epoch)]}
    /\ print' = Idle
    /\ UNCHANGED <<loadVars, cur, issue, rep, flight, left, done, stat,
                   clock, tvEnd, report, told>>

-----------------------------------------------------------------------------
(* The JSON texts the driver makes                                         *)

\* Without time_diff, the lateness of the requests.
LogJson(log) ==
    [f \in {"type", "time", "remaining", "remaining_percentage", "avg_bw",
            "cur_bw", "lat"} |-> log[f]]

StatsFields ==
    {"exec_time", "avg_lat", "avg_lat_var", "lat_min", "lat_max", "iops",
     "total_bw", "read_bw", "write_bw", "total_traffic", "read_traffic",
     "write_traffic", "read_ratio", "total_avg_req_size",
     "read_avg_req_size", "write_avg_req_size"}

StatsJson(stats) == [f \in StatsFields |-> stats[f]]

SyntheticJson(s) ==
    [f \in {"working_set_size", "utilization", "touched_working_set_size",
            "io_size"} |-> s[f]]

\* The sizes of a synthetic workload are left out for a trace file.
PerTraceJson(r) ==
    [f \in {"name", "issynthetic", "stats", "trace_reset_count"} \cup
           (IF r.issynthetic THEN {"synthetic"} ELSE {}) |->
        CASE f = "stats" -> StatsJson(r.stats)
          [] f = "synthetic" -> SyntheticJson(r.synthetic)
          [] OTHER -> r[f]]

AggrJson(r) == StatsJson(r.aggr)

-----------------------------------------------------------------------------

Tick ==
    /\ Replaying /\ clock < Epoch + MaxClock
    /\ clock' = clock + 1
    /\ UNCHANGED <<loadVars, cur, issue, rep, flight, left, done, stat,
                   tvEnd, print, report, results, told>>

Load == LoadStep /\ UNCHANGED replayVars

\* trace-replay has handed over its totals, or has not come to the replay.
Ended ==
    /\ results # {} \/ (phase \in {"ready", "failed", "crashed", "spin"}
                        /\ ~Replaying)
    /\ UNCHANGED vars

Next ==
    \/ Load \/ Begin \/ Sweep \/ Report \/ Totals \/ Tick \/ Ended
    \/ \E w \in Threads :
          Fetch(w) \/ Refused(w) \/ Leave(w) \/ Complete(w) \/ SetDone(w)

Spec == Init /\ [][Next]_vars

-----------------------------------------------------------------------------
(* Properties                                                              *)

\* Every request of the trace is put inside the partition, unless its pages
\* are more than half of it (align_sector moves it to the front once, by its
\* size).
InPartition ==
    \A k \in 1 .. Len(buf) :
       2 * Pages(buf[k]) <= TotalPages =>
          /\ AlignSector(buf[k]).page >= 0
          /\ AlignSector(buf[k]).page + Pages(buf[k]) <= TotalPages

SumOf(f) ==
    LET up[n \in 0 .. Len(f)] == IF n = 0 THEN 0 ELSE up[n - 1] + f[n]
    IN  up[Len(f)]

\* What the program is to replay: the requests of the trace, or the wanted
\* number of requests of a synthetic one, but in both cases the last one,
\* for which no job is made (trace_replay.c:311).
Replayable ==
    IF wanted > 0 THEN (wanted - 1) * Bytes(buf[1])
    ELSE SumOf([k \in 1 .. Len(buf) - 1 |-> Bytes(buf[k])])

\* The totals are the traffic of the loaded trace whichever threads replayed
\* it, page by page and without the last request, in both results, and
\* consist of reads and writes (trace_replay.c:202-212, 613-615).
TotalsOfTrace ==
    \A r \in results : \A s \in {PerTraceJson(r).stats, AggrJson(r)} :
       /\ s.total_traffic.num = Replayable
       /\ s.read_traffic.num + s.write_traffic.num = Replayable

\* No byte is told in two intervals and none is lost between them, while the
\* threads go on counting during print_result: what was told, what it has in
\* hand and what the threads have counted since is the total. What they count
\* after the last sweep is told in no interval (trace_replay.c:616-624).
ToldOnce ==
    results = {} =>
       told + print.dst.cur.all
          + SumOf([w \in Threads |-> stat[w].cur.all])
       = SumOf([w \in Threads |-> stat[w].total.all])

\* The share that is left of a synthetic workload, as the intervals tell it,
\* never rises, and something is left until the end (trace_replay.c:908-918).
RemainingFalls ==
    [][wanted > 0 =>
         \A new \in report'.log :
            /\ LogJson(new).remaining_percentage.num > 0
            /\ LogJson(new).remaining_percentage.num
                  <= 100 * LogJson(new).remaining_percentage.den
            /\ \A old \in report.log :
                  new.remaining_percentage.num
                     <= old.remaining_percentage.num]_vars

Leq(x, y) == x.num * y.den <= y.num * x.den

\* The JSON of the totals holds no NaN and no infinity when at least two
\* requests and some time were counted, and its latencies agree: the mean
\* lies between the extremes and no variance is negative, however the
\* latencies are spread over the threads (trace_replay.c:584-606, 656-666).
TotalsMakeSense ==
    \A r \in results : \A s \in {PerTraceJson(r).stats, AggrJson(r)} :
       r.stats.avg_lat.den >= 2
          /\ r.stats.exec_time.num > 0 /\ r.aggr.exec_time.num > 0 =>
             /\ \A f \in StatsFields : s[f].den # 0
             /\ Leq(s.lat_min, s.avg_lat) /\ Leq(s.avg_lat, s.lat_max)
             /\ s.avg_lat_var.num >= 0
=============================================================================
