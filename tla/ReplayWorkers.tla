---------------------------- MODULE ReplayWorkers ----------------------------
(***************************************************************************)
(* The trace-replay program (trace-replay/trace_replay.c) once its trace is *)
(* loaded: the worker threads that share one trace and issue its requests   *)
(* in batches of asynchronous I/O, and the main thread that waits for them, *)
(* or is told to stop by SIGINT, and then finalizes.                        *)
(*                                                                          *)
(* What stands between a lock and its unlock is one step. Requests are      *)
(* numbers; their sectors, sizes and latencies are left out.                *)
(***************************************************************************)
EXTENDS Integers, Sequences, FiniteSets

CONSTANTS
    Threads,    \* worker threads of the trace
    QDepth,     \* queue_depth of each thread
    Load,       \* the workloads that may be replayed, one per behaviour
    Beyond,     \* what an arrival time read behind the last request may be
    MaxClock,   \* bound: the clock stops there
    Signal,     \* whether SIGINT may come while main_worker runs
    SubmitFails \* whether io_submit may take fewer jobs than it is given

\* A workload: cnt requests (trace_io_cnt), numbered from 0, that arrive gap
\* apart; the repeats (trace_repeat_num); for a synthetic workload the count
\* that is wanted (wanted_io_count, else 0); the timeout (0 for none).
\* main() rejects less than one thread, repeats at least once, and repeats
\* once when there is a timeout. Every time that can be waited for is reached
\* before the clock stops.
ASSUME ReplayAssumption ==
    /\ Threads # {} /\ IsFiniteSet(Threads)
    /\ QDepth \in Nat \ {0}
    /\ MaxClock \in Nat
    /\ Beyond \subseteq 0..MaxClock /\ Beyond # {}
    /\ Signal \in BOOLEAN /\ SubmitFails \in BOOLEAN
    /\ \A l \in Load :
          /\ {l.cnt, l.repeat} \subseteq Nat \ {0}
          /\ {l.gap, l.wanted, l.timeout} \subseteq Nat
          /\ l.timeout > 0 => l.repeat = 1
          /\ (l.cnt - 1) * l.gap <= MaxClock /\ l.timeout <= MaxClock

VARIABLES
    load,    \* the workload of the command line, which no step changes
    cur,     \* trace_io_cur, the next request
    issue,   \* trace_io_issue_count, the requests that were fetched, whether
             \* a job was made for them or not, counted up to MaxIssue
    rep,     \* trace_repeat_count, counted up to load.repeat + 1
    tmo,     \* the trace's timeout
    pass,    \* the requests of this pass for which a job was made, in the
             \* order in which they were taken (history)
    clock,
    pc,      \* where each worker is in sub_worker
    batch,   \* the requests of the jobs it has made and not submitted
    qcount,  \* its queue_count
    exec,    \* its io_stat.execution_time
    mark,    \* the arrival time it waits for in wait_arrive
    main     \* "begin" until the clock is set; "sweep" in main_worker;
             \* "destroy", "join" in destroy; "final"

traceVars == <<cur, issue, rep, tmo, pass>>
workerVars == <<pc, batch, qcount, exec, mark>>
vars == <<load, traceVars, clock, workerVars, main>>

Init ==
    /\ load \in Load
    /\ cur = 0 /\ issue = 0 /\ rep = 1 /\ tmo = load.timeout
    /\ pass = <<>>
    /\ clock = 0
    /\ pc = [w \in Threads |-> "top"]
    /\ batch = [w \in Threads |-> <<>>]
    /\ qcount = [w \in Threads |-> 0]
    /\ exec = [w \in Threads |-> 0]
    /\ mark = [w \in Threads |-> 0]
    /\ main = "begin"

AtMost(n, max) == IF n < max THEN n ELSE max

\* Bound: OverrunBounded says that the count never gets there. Without a wanted
\* count nothing reads it and it stays 0.
MaxIssue ==
    IF load.wanted = 0 THEN 0
    ELSE load.wanted + 2 * Cardinality(Threads) + load.repeat - 1

\* trace_buf[i].arrival_time; behind the last request it is whatever the heap
\* holds.
ArrivalAt(i) == IF i < load.cnt THEN {i * load.gap} ELSE Beyond

\* The clock the threads compare with, tv_start2, is set after they have been
\* created: until then every arrival time has long passed.
Passed(a) == main = "begin" \/ clock >= a

Goto(w, l) == pc' = [pc EXCEPT ![w] = l]

-----------------------------------------------------------------------------
(* make_jobs                                                               *)

\* Mutant: the repeats are not counted.
CanResetForever(e, n) ==
    \/ tmo > 0 /\ e < tmo
    \/ load.wanted > 0 /\ n < load.wanted
    \/ load.repeat > 0

\* try_trace_reset succeeds, for a thread that ran for time e when n requests
\* have been issued.
CanReset(e, n) ==
    \/ tmo > 0 /\ e < tmo
    \/ load.wanted > 0 /\ n < load.wanted
    \/ rep < load.repeat

Reset ==
    cur' = 0 /\ rep' = AtMost(rep + 1, load.repeat + 1) /\ pass' = <<>>

\* The loop head of sub_worker. Its branch for a full queue is dead code: see
\* QueueBounded.
Top(w) ==
    /\ pc[w] = "top" /\ qcount[w] < QDepth
    /\ Goto(w, "make")
    /\ UNCHANGED <<load, traceVars, clock, batch, qcount, exec, mark, main>>

\* The batch fills the queue, or the next request has not arrived.
EndBatch(w) ==
    /\ pc[w] = "make"
    /\ \/ Len(batch[w]) = QDepth - qcount[w]
       \/ \E a \in ArrivalAt(cur) : ~Passed(a)
    /\ Goto(w, "submit")
    /\ UNCHANGED <<load, traceVars, clock, batch, qcount, exec, mark, main>>

\* Mutants: the end of the trace is one too late, or one too early.
AtEndLate(n) ==
    (tmo = 0 /\ load.wanted > 0 /\ n >= load.wanted) \/ cur + 1 > load.cnt
AtEndEarly(n) ==
    (tmo = 0 /\ load.wanted > 0 /\ n >= load.wanted) \/ cur + 2 >= load.cnt

\* trace_io_get is at the end of the trace or of the wanted count, n requests
\* having been issued.
AtEnd(n) ==
    (tmo = 0 /\ load.wanted > 0 /\ n >= load.wanted) \/ cur + 1 >= load.cnt

\* Mutant: a batch may fill the queue whatever is in flight.
TakeFull(w) ==
    /\ pc[w] = "make" /\ Len(batch[w]) < QDepth
    /\ \E a \in ArrivalAt(cur) : Passed(a)
    /\ batch' = [batch EXCEPT ![w] = Append(@, cur)]
    /\ \/ /\ ~AtEnd(issue + 1)
          /\ cur' = cur + 1 /\ pass' = Append(pass, cur) /\ UNCHANGED rep
       \/ /\ AtEnd(issue + 1) /\ CanReset(exec[w], issue + 1)
          /\ Reset
    /\ issue' = AtMost(issue + 1, MaxIssue)
    /\ UNCHANGED <<load, tmo, clock, pc, qcount, exec, mark, main>>

\* A job is made for the next request, and the trace is reset behind it.
Take(w) ==
    /\ pc[w] = "make" /\ Len(batch[w]) < QDepth - qcount[w]
    /\ \E a \in ArrivalAt(cur) : Passed(a)
    /\ batch' = [batch EXCEPT ![w] = Append(@, cur)]
    /\ \/ /\ ~AtEnd(issue + 1)
          /\ cur' = cur + 1 /\ pass' = Append(pass, cur) /\ UNCHANGED rep
       \/ /\ AtEnd(issue + 1) /\ CanReset(exec[w], issue + 1)
          /\ Reset
    /\ issue' = AtMost(issue + 1, MaxIssue)
    /\ UNCHANGED <<load, tmo, clock, pc, qcount, exec, mark, main>>

\* Mutant: a thread that is refused goes on making jobs.
RefuseInPlace(w) ==
    /\ pc[w] = "make" /\ Len(batch[w]) < QDepth - qcount[w]
    /\ \E a \in ArrivalAt(cur) : Passed(a)
    /\ AtEnd(issue + 1) /\ ~CanReset(exec[w], issue + 1)
    /\ Goto(w, "top")
    /\ cur' = cur + 1 /\ issue' = AtMost(issue + 1, MaxIssue)
    /\ UNCHANGED <<load, rep, tmo, pass, clock, batch, qcount, exec, mark,
                   main>>

\* trace_io_get has fetched a request and finds that the trace is over: no
\* job is made for it.
Refuse(w) ==
    /\ pc[w] = "make" /\ Len(batch[w]) < QDepth - qcount[w]
    /\ \E a \in ArrivalAt(cur) : Passed(a)
    /\ AtEnd(issue + 1) /\ ~CanReset(exec[w], issue + 1)
    /\ Goto(w, "submit")
    /\ cur' = cur + 1 /\ issue' = AtMost(issue + 1, MaxIssue)
    /\ UNCHANGED <<load, rep, tmo, pass, clock, batch, qcount, exec, mark,
                   main>>

-----------------------------------------------------------------------------
(* The rest of sub_worker                                                  *)

\* trace_eof
Eof ==
    \/ load.cnt > 0 /\ cur >= load.cnt
    \/ load.wanted > 0 /\ issue >= load.wanted

\* io_submit; without a job the end of the trace ends the thread. Jobs that
\* are not taken are never submitted again.
Submit(w) ==
    /\ pc[w] = "submit"
    /\ \E n \in IF SubmitFails THEN 0..Len(batch[w]) ELSE {Len(batch[w])} :
          qcount' = [qcount EXCEPT ![w] = @ + n]
    /\ batch' = [batch EXCEPT ![w] = <<>>]
    /\ Goto(w, IF batch[w] = <<>> /\ Eof THEN "drain" ELSE "reap")
    /\ UNCHANGED <<load, traceVars, clock, exec, mark, main>>

\* wait_completion: io_getevents returns at least one event; wait_arrive
\* follows when none is left.
Reap(w) ==
    /\ pc[w] = "reap"
    /\ \/ /\ qcount[w] = 0
          /\ Goto(w, "check") /\ UNCHANGED qcount
       \/ \E n \in 1..qcount[w] :
             /\ qcount' = [qcount EXCEPT ![w] = @ - n]
             /\ Goto(w, IF n = qcount[w] THEN "arrive" ELSE "check")
    /\ UNCHANGED <<load, traceVars, clock, batch, exec, mark, main>>

\* wait_arrive looks at the next request and sleeps until it arrives or the
\* timeout is over.
Arrive(w) ==
    /\ pc[w] = "arrive"
    /\ \E a \in ArrivalAt(cur) :
          mark' = [mark EXCEPT ![w] = IF Passed(a) THEN 0 ELSE a]
    /\ Goto(w, "sleep")
    /\ UNCHANGED <<load, traceVars, clock, batch, qcount, exec, main>>

WakeUp(w) ==
    /\ pc[w] = "sleep"
    /\ clock >= mark[w] \/ (tmo > 0 /\ clock >= tmo)
    /\ Goto(w, "check")
    /\ UNCHANGED <<load, traceVars, clock, batch, qcount, exec, mark, main>>

\* Mutant: the execution time is not compared with the timeout.
CheckIgnoresTime(w) ==
    /\ pc[w] = "check"
    /\ exec' = [exec EXCEPT ![w] = clock]
    /\ \/ /\ cur >= load.cnt /\ ~CanReset(clock, issue)
          /\ Goto(w, "drain") /\ UNCHANGED traceVars
       \/ /\ cur >= load.cnt /\ CanReset(clock, issue)
          /\ Reset /\ Goto(w, "top") /\ UNCHANGED <<issue, tmo>>
       \/ cur < load.cnt /\ Goto(w, "top") /\ UNCHANGED traceVars
    /\ UNCHANGED <<load, clock, batch, qcount, mark, main>>

\* The end of the loop: the thread's time is over, or the trace is and cannot
\* be reset, or there is another round.
Check(w) ==
    LET over == tmo > 0 /\ clock >= tmo IN
    /\ pc[w] = "check"
    /\ exec' = [exec EXCEPT ![w] = clock]
    /\ \/ /\ over \/ (cur >= load.cnt /\ ~CanReset(clock, issue))
          /\ Goto(w, "drain") /\ UNCHANGED traceVars
       \/ /\ ~over /\ cur >= load.cnt /\ CanReset(clock, issue)
          /\ Reset /\ Goto(w, "top") /\ UNCHANGED <<issue, tmo>>
       \/ /\ ~over /\ cur < load.cnt
          /\ Goto(w, "top") /\ UNCHANGED traceVars
    /\ UNCHANGED <<load, clock, batch, qcount, mark, main>>

\* The label Timeout: the I/O in flight is waited for.
Drain(w) ==
    /\ pc[w] = "drain"
    /\ \/ /\ qcount[w] = 0
          /\ Goto(w, "done") /\ UNCHANGED qcount
       \/ \E n \in 1..qcount[w] :
             /\ qcount' = [qcount EXCEPT ![w] = @ - n] /\ UNCHANGED pc
    /\ UNCHANGED <<load, traceVars, clock, batch, exec, mark, main>>

Worker(w) ==
    \/ Top(w) \/ EndBatch(w) \/ Take(w) \/ Refuse(w) \/ Submit(w) \/ Reap(w)
    \/ Arrive(w) \/ WakeUp(w) \/ Check(w) \/ Drain(w)

-----------------------------------------------------------------------------
(* The main thread                                                         *)

\* main sets the clock and enters main_worker.
SetClock ==
    /\ main = "begin"
    /\ main' = "sweep"
    /\ UNCHANGED <<load, traceVars, clock, workerVars>>

\* main_worker finds every thread done.
AllSwept ==
    /\ main = "sweep" /\ \A w \in Threads : pc[w] = "done"
    /\ main' = "destroy"
    /\ UNCHANGED <<load, traceVars, clock, workerVars>>

\* sig_handler calls destroy. The main thread holds no lock here; a signal
\* that finds it inside print_result or the sweep's critical section is not
\* modelled.
Interrupt ==
    /\ Signal /\ main = "sweep"
    /\ main' = "destroy"
    /\ UNCHANGED <<load, traceVars, clock, workerVars>>

\* destroy: trace_set_eof, then the joins, then finalize.
SetEof ==
    /\ main = "destroy"
    /\ main' = "join"
    /\ cur' = load.cnt /\ issue' = load.wanted /\ tmo' = 0
    /\ UNCHANGED <<load, rep, pass, clock, workerVars>>

\* Mutant: the threads are not joined.
FinalizeAtOnce ==
    /\ main = "join"
    /\ main' = "final"
    /\ UNCHANGED <<load, traceVars, clock, workerVars>>

Finalize ==
    /\ main = "join" /\ \A w \in Threads : pc[w] = "done"
    /\ main' = "final"
    /\ UNCHANGED <<load, traceVars, clock, workerVars>>

Main == SetClock \/ AllSwept \/ SetEof \/ Finalize

\* Time passes; what passes before the clock is set is less than a unit.
Tick ==
    /\ main # "begin" /\ clock < MaxClock
    /\ clock' = clock + 1
    /\ UNCHANGED <<load, traceVars, workerVars, main>>

Exited == main = "final" /\ UNCHANGED vars

Next == Main \/ Interrupt \/ Tick \/ Exited \/ \E w \in Threads : Worker(w)

\* The kernel schedules every thread and completes every I/O; time passes.
Fairness ==
    WF_vars(Main) /\ WF_vars(Tick) /\ \A w \in Threads : WF_vars(Worker(w))

Spec == Init /\ [][Next]_vars /\ Fairness

-----------------------------------------------------------------------------
(* Properties.                                                              *)

\* A thread never has more I/O made or in flight than its io context was set
\* up for, and there is room whenever it makes jobs, so that the branch of
\* sub_worker for a full queue (trace_replay.c:501-511) is never taken.
QueueBounded ==
    \A w \in Threads :
        /\ qcount[w] + Len(batch[w]) <= QDepth
        /\ pc[w] \in {"top", "make"} => qcount[w] < QDepth

\* The trace has not been ended by SIGINT, nor by main at its end.
Sweeping == main \in {"begin", "sweep"}

\* A job is made only for a request of the trace, never for what lies behind
\* it in memory, although threads do look at trace_buf[trace_io_cnt]
\* (trace_replay.c:348, 424). Once SIGINT has set the end of a trace that has
\* repeats left this is false: try_trace_reset revives it (line 281).
OnlyRequests ==
    Sweeping \/ load.repeat = 1 =>
        \A w \in Threads : \A i \in DOMAIN batch[w] : batch[w][i] < load.cnt

\* How far the threads overrun the end. Behind the trace they look at one
\* element each: the thread that comes to the end leaves, and each of the
\* others is refused behind it at most once. Behind the wanted count they fetch
\* more: a thread that is refused with jobs in hand, short of the trace's end,
\* comes again and is refused once more, and each repeat that is left starts a
\* pass of one request, because try_trace_reset does not ask what it was called
\* for (trace_replay.c:279, 309-312).
OverrunBounded ==
    Sweeping =>
        /\ cur < load.cnt + Cardinality(Threads)
        /\ load.wanted > 0 /\ load.timeout = 0
              => issue < load.wanted + 2 * Cardinality(Threads)
                            + load.repeat - 1

\* With a timeout the trace wraps around until the time is over: a thread
\* leaves before its own execution time lets try_trace_reset fail, so until
\* SIGINT clears the timeout no thread reads behind the trace and no request
\* is refused.
TimedWraps == tmo > 0 => cur < load.cnt

\* The requests 0 to n - 1 in order.
InOrder(n) == [i \in 1 .. n |-> i - 1]

\* The trace ends at its last request, not at the wanted count.
ByTrace(n) == load.wanted = 0 \/ load.timeout > 0 \/ n < load.wanted

\* A pass that is followed by another was whole: a job was made for each
\* request of the trace once and in order, whichever threads took them. When
\* the threads are done with a trace file they have begun it as often as it is
\* to be repeated, and the last pass lacks its last request and no other, for
\* which trace_io_get reports the end (trace_replay.c:311).
WholePass ==
    [][Sweeping =>
         /\ ByTrace(issue') /\ cur' = 0 /\ cur # 0
               => Append(pass, cur) = InOrder(load.cnt)
         /\ AllSwept /\ load.wanted = 0 /\ load.timeout = 0
               => rep = load.repeat /\ pass = InOrder(load.cnt - 1)]_vars

\* main finalizes, which sends FIN and the totals, when no thread and no I/O
\* is left that could still change the statistics.
FinalIsQuiet ==
    main = "final" => \A w \in Threads : pc[w] = "done" /\ qcount[w] = 0

\* The replay ends, also when io_submit fails and after SIGINT.
ReplayEnds == <>(main = "final")
=============================================================================
