------------------------ MODULE ReplayWorkers_proofs ------------------------
(***************************************************************************)
(* What holds of a replay for every number of threads, every queue depth    *)
(* and every workload: the queue is never overrun, every job is made for a  *)
(* request of the trace, a pass takes them in order and leaves none out, no *)
(* more is fetched than the threads can be refused, and the results are     *)
(* final when they are written.                                             *)
(***************************************************************************)
EXTENDS ReplayWorkers, FiniteSetTheorems, TLAPS

Places == {"top", "make", "submit", "reap", "arrive", "sleep", "check",
           "drain", "done"}

Typed ==
    /\ load \in Load
    /\ cur \in Nat /\ issue \in Nat /\ rep \in Nat \ {0} /\ tmo \in Nat
    /\ clock \in Nat
    /\ pc \in [Threads -> Places]
    /\ batch \in [Threads -> Seq(Nat)]
    /\ qcount \in [Threads -> Nat]
    /\ exec \in [Threads -> Nat]
    /\ main \in {"begin", "sweep", "destroy", "join", "final"}

\* A thread that is about to make jobs, or may come to it without reaping,
\* has room for one. Jobs wait only between make_jobs and io_submit.
Room(w) ==
    /\ qcount[w] + Len(batch[w]) <= QDepth
    /\ pc[w] \notin {"submit", "reap", "drain", "done"} => qcount[w] < QDepth
    /\ pc[w] \notin {"make", "submit"} => batch[w] = <<>>
    /\ pc[w] = "done" => qcount[w] = 0

QueueInv == Typed /\ \A w \in Threads : Room(w)

Stopped == main = "final" => \A w \in Threads : pc[w] = "done"

\* destroy has not yet set the end of the trace.
Untouched == main \in {"begin", "sweep", "destroy"}

\* Under a timeout the trace can always be reset by a thread in its loop.
Timed ==
    tmo > 0 =>
        /\ cur < load.cnt
        /\ \A w \in Threads : pc[w] \notin {"drain", "done"} => exec[w] < tmo

\* A trace whose end was passed has nothing left to be reset for.
Spent ==
    (Untouched \/ load.repeat = 1) /\ cur >= load.cnt =>
        rep >= load.repeat /\ (load.wanted = 0 \/ issue >= load.wanted)

Made ==
    Untouched \/ load.repeat = 1 =>
        \A w \in Threads : \A i \in DOMAIN batch[w] : batch[w][i] < load.cnt

\* The threads that can still come to the end of the trace and be refused.
Makers == {w \in Threads : pc[w] \in {"top", "make"}}

\* Each thread but one of those that can still be refused has its place
\* behind the end.
Behind ==
    Untouched /\ cur >= load.cnt =>
        (cur - load.cnt) + Cardinality(Makers) < Cardinality(Threads)

TraceInv == Timed /\ Spent /\ Made /\ Behind

\* Only destroy changes the timeout, and a trace file is begun no more often
\* than it is to be repeated.
Rounds ==
    /\ Untouched => tmo = load.timeout
    /\ load.timeout = 0 => tmo = 0
    /\ load.wanted = 0 /\ load.timeout = 0 => rep <= load.repeat

\* The jobs of a pass are the requests up to cur, and the last pass stops
\* before its last one.
PassSoFar ==
    Untouched =>
        /\ ByTrace(issue) /\ cur < load.cnt => pass = InOrder(cur)
        /\ load.wanted = 0 /\ cur >= load.cnt => pass = InOrder(load.cnt - 1)

\* A thread leaves a trace file when its end was passed.
Left ==
    Untouched /\ load.wanted = 0 /\ load.timeout = 0 =>
        \A w \in Threads : pc[w] \in {"drain", "done"} => cur >= load.cnt

PassInv == Rounds /\ PassSoFar /\ Left

\* The threads that may be refused behind the wanted count, and those of them
\* that may be refused twice: the first time they have jobs to submit and stay
\* in their loop.
Again ==
    {w \in Threads :
        \/ pc[w] \in {"top", "make", "reap", "arrive", "sleep", "check"}
        \/ pc[w] = "submit" /\ batch[w] # <<>>}
Twice == {w \in Threads : pc[w] = "make" /\ batch[w] # <<>>}

\* How often a request may still be fetched behind the wanted count.
Credit ==
    IF rep < load.repeat
    THEN (load.repeat - rep) + 2 * Cardinality(Threads)
    ELSE Cardinality(Again) + Cardinality(Twice)

\* What was fetched behind the wanted count and what still may be.
Fetched ==
    Untouched /\ load.wanted > 0 /\ load.timeout = 0 /\ issue >= load.wanted =>
        (issue - load.wanted) + Credit
            < 2 * Cardinality(Threads) + load.repeat - 1

Inv == QueueInv /\ Stopped /\ TraceInv /\ PassInv /\ Fetched

-----------------------------------------------------------------------------
(* The constants and the helpers                                           *)

LEMMA LoadType ==
    ASSUME NEW l \in Load
    PROVE  /\ l.cnt \in Nat \ {0} /\ l.repeat \in Nat \ {0}
           /\ l.wanted \in Nat /\ l.timeout \in Nat
    BY ReplayAssumption

LEMMA ThreadsFinite ==
    /\ IsFiniteSet(Threads)
    /\ Cardinality(Threads) \in Nat \ {0}
    BY ReplayAssumption, FS_CardinalityType, FS_EmptySet

\* The bound on the count is no bound before the wanted count is reached.
LEMMA CountKept ==
    ASSUME load \in Load, issue \in Nat,
           issue' = AtMost(issue + 1, MaxIssue)
    PROVE  /\ issue' \in Nat /\ issue' <= issue + 1
           /\ load.wanted > 0 /\ issue + 1 >= load.wanted
                 => issue' >= load.wanted
    BY LoadType, ThreadsFinite DEF AtMost, MaxIssue

LEMMA AppendInOrder ==
    ASSUME NEW n \in Nat
    PROVE  Append(InOrder(n), n) = InOrder(n + 1)
    BY DEF InOrder

-----------------------------------------------------------------------------
(* The queues                                                              *)

LEMMA InitQueue == Init => QueueInv
    <1>. SUFFICES ASSUME Init PROVE QueueInv
      OBVIOUS
    <1>1. Typed
      BY LoadType DEF Init, Typed, Places
    <1>2. ASSUME NEW w \in Threads PROVE Room(w)
      BY ReplayAssumption DEF Init, Room
    <1>. QED BY <1>1, <1>2 DEF QueueInv

\* What a worker's step may do to the types, in one place.
LEMMA StepTyped == QueueInv /\ [Next]_vars => Typed'
    <1>. SUFFICES ASSUME QueueInv, [Next]_vars PROVE Typed'
      OBVIOUS
    <1>. USE DEF QueueInv, Typed, Goto
    <1>0. /\ load.cnt \in Nat \ {0} /\ load.repeat \in Nat \ {0}
          /\ load.wanted \in Nat
      BY LoadType
    <1>r. Reset => cur' \in Nat /\ rep' \in Nat \ {0}
      BY <1>0 DEF Reset, AtMost
    <1>i. AtMost(issue + 1, MaxIssue) \in Nat
      BY <1>0, ThreadsFinite DEF AtMost, MaxIssue
    <1>1. CASE Main \/ Interrupt \/ Tick
      BY <1>0, <1>1 DEF Main, SetClock, AllSwept, SetEof, Finalize, Interrupt,
         Tick, traceVars, workerVars
    <1>2. CASE UNCHANGED vars
      BY <1>2 DEF vars, traceVars, workerVars
    <1>3. ASSUME NEW w \in Threads, Worker(w) PROVE Typed'
      <2>1. CASE Top(w) \/ EndBatch(w) \/ WakeUp(w) \/ Arrive(w)
        BY <2>1 DEF Top, EndBatch, WakeUp, Arrive, Places, traceVars
      <2>2. CASE Take(w)
        <3>1. batch' \in [Threads -> Seq(Nat)]
          BY <2>2 DEF Take
        <3>2. cur' \in Nat /\ rep' \in Nat \ {0}
          BY <2>2, <1>r DEF Take
        <3>. QED BY <2>2, <3>1, <3>2, <1>i DEF Take
      <2>3. CASE Refuse(w)
        BY <2>3, <1>i DEF Refuse, Places
      <2>4. CASE Submit(w)
        <3>1. PICK n \in (IF SubmitFails THEN 0..Len(batch[w])
                                         ELSE {Len(batch[w])}) :
                 qcount' = [qcount EXCEPT ![w] = @ + n]
          BY <2>4 DEF Submit
        <3>2. batch[w] \in Seq(Nat)
          OBVIOUS
        <3>3. n \in Nat
          BY <3>2
        <3>4. qcount' \in [Threads -> Nat]
          BY <3>1, <3>3
        <3>5. pc' \in [Threads -> Places]
          BY <2>4 DEF Submit, Places
        <3>6. batch' \in [Threads -> Seq(Nat)]
          BY <2>4 DEF Submit
        <3>. QED BY <2>4, <3>4, <3>5, <3>6 DEF Submit, traceVars
      <2>5. CASE Reap(w)
        <3>1. qcount' \in [Threads -> Nat]
          <4>1. CASE UNCHANGED qcount
            BY <4>1
          <4>2. CASE \E n \in 1..qcount[w] :
                        qcount' = [qcount EXCEPT ![w] = @ - n]
            <5>1. PICK n \in 1..qcount[w] :
                     qcount' = [qcount EXCEPT ![w] = @ - n]
              BY <4>2
            <5>2. qcount[w] - n \in Nat
              BY <5>1
            <5>. QED BY <5>1, <5>2
          <4>. QED BY <2>5, <4>1, <4>2 DEF Reap
        <3>2. pc' \in [Threads -> Places]
          BY <2>5 DEF Reap, Places
        <3>. QED BY <2>5, <3>1, <3>2 DEF Reap, traceVars
      <2>6. CASE Check(w)
        <3>1. cur' \in Nat /\ rep' \in Nat \ {0} /\ issue' = issue
              /\ tmo' = tmo
          BY <2>6, <1>r DEF Check, traceVars
        <3>2. pc' \in [Threads -> Places]
          BY <2>6 DEF Check, Places
        <3>. QED BY <2>6, <3>1, <3>2 DEF Check
      <2>7. CASE Drain(w)
        <3>1. qcount' \in [Threads -> Nat]
          BY <2>7 DEF Drain
        <3>2. pc' \in [Threads -> Places]
          BY <2>7 DEF Drain, Places
        <3>. QED BY <2>7, <3>1, <3>2 DEF Drain, traceVars
      <2>. QED BY <1>3, <2>1, <2>2, <2>3, <2>4, <2>5, <2>6, <2>7 DEF Worker
    <1>. QED BY <1>1, <1>2, <1>3 DEF Next, Exited

\* A thread whose own variables a step leaves alone keeps its room.
LEMMA RoomKept ==
    ASSUME NEW w \in Threads, Room(w),
           pc'[w] = pc[w], batch'[w] = batch[w], qcount'[w] = qcount[w]
    PROVE  Room(w)'
    BY DEF Room

LEMMA StepRoom == QueueInv /\ [Next]_vars => \A w \in Threads : Room(w)'
    <1>. SUFFICES ASSUME QueueInv, [Next]_vars, NEW v \in Threads
                  PROVE Room(v)'
      OBVIOUS
    <1>. USE DEF QueueInv, Typed, Goto
    <1>0. QDepth \in Nat \ {0}
      BY ReplayAssumption
    <1>1. CASE Main \/ Interrupt \/ Tick \/ UNCHANGED vars
      BY <1>1, RoomKept DEF Main, SetClock, AllSwept, SetEof, Finalize,
         Interrupt, Tick, vars, workerVars
    <1>2. ASSUME NEW w \in Threads, Worker(w), w # v PROVE Room(v)'
      <2>1. pc'[v] = pc[v]
        BY <1>2 DEF Worker, Top, EndBatch, Take, Refuse, Submit, Reap, Arrive,
           WakeUp, Check, Drain
      <2>2. batch'[v] = batch[v]
        BY <1>2 DEF Worker, Top, EndBatch, Take, Refuse, Submit, Reap, Arrive,
           WakeUp, Check, Drain
      <2>3. qcount'[v] = qcount[v]
        BY <1>2 DEF Worker, Top, EndBatch, Take, Refuse, Submit, Reap, Arrive,
           WakeUp, Check, Drain
      <2>. QED BY <2>1, <2>2, <2>3, RoomKept
    <1>3. ASSUME Worker(v) PROVE Room(v)'
      <2>0. /\ qcount[v] \in Nat /\ batch[v] \in Seq(Nat)
            /\ Len(batch[v]) \in Nat /\ Room(v)
        OBVIOUS
      <2>1. CASE Top(v) \/ EndBatch(v) \/ Refuse(v)
        BY <2>0, <2>1 DEF Top, EndBatch, Refuse, Room
      <2>2. CASE Take(v)
        <3>1. /\ pc'[v] = "make" /\ qcount'[v] = qcount[v]
              /\ batch'[v] = Append(batch[v], cur)
              /\ Len(batch[v]) < QDepth - qcount[v]
          BY <2>2 DEF Take
        <3>2. Len(batch'[v]) = Len(batch[v]) + 1
          BY <3>1, <2>0
        <3>. QED BY <2>0, <1>0, <3>1, <3>2 DEF Room
      <2>3. CASE Submit(v)
        <3>1. PICK n \in (IF SubmitFails THEN 0..Len(batch[v])
                                         ELSE {Len(batch[v])}) :
                 qcount' = [qcount EXCEPT ![v] = @ + n]
          BY <2>3 DEF Submit
        <3>2. n \in Nat /\ n <= Len(batch[v])
          BY <3>1, <2>0
        <3>3. /\ qcount'[v] = qcount[v] + n /\ batch'[v] = <<>>
              /\ pc'[v] \in {"drain", "reap"}
          BY <2>3, <3>1 DEF Submit
        <3>. QED BY <2>0, <1>0, <3>2, <3>3 DEF Room
      <2>4. CASE Reap(v)
        <3>1. /\ pc[v] = "reap" /\ batch'[v] = batch[v] /\ batch[v] = <<>>
              /\ pc'[v] \in {"arrive", "check"}
          BY <2>0, <2>4 DEF Reap, Room
        <3>2. qcount'[v] \in Nat /\ qcount'[v] < QDepth
          BY <2>0, <2>4, <1>0, <3>1 DEF Reap, Room
        <3>. QED BY <1>0, <3>1, <3>2 DEF Room
      <2>5. CASE Arrive(v) \/ WakeUp(v) \/ Check(v)
        BY <2>0, <2>5 DEF Arrive, WakeUp, Check, Room
      <2>6. CASE Drain(v)
        <3>1. /\ pc[v] = "drain" /\ batch'[v] = batch[v] /\ batch[v] = <<>>
          BY <2>0, <2>6 DEF Drain, Room
        <3>2. CASE qcount[v] = 0 /\ pc' = [pc EXCEPT ![v] = "done"]
                   /\ qcount' = qcount
          BY <2>0, <1>0, <3>1, <3>2 DEF Room
        <3>3. CASE \E n \in 1..qcount[v] :
                      /\ qcount' = [qcount EXCEPT ![v] = @ - n]
                      /\ pc' = pc
          BY <2>0, <1>0, <3>1, <3>3 DEF Room
        <3>. QED BY <2>6, <3>2, <3>3 DEF Drain
      <2>. QED BY <1>3, <2>1, <2>2, <2>3, <2>4, <2>5, <2>6 DEF Worker
    <1>. QED BY <1>1, <1>2, <1>3 DEF Next, Exited

LEMMA StepQueue == QueueInv /\ [Next]_vars => QueueInv'
    BY StepTyped, StepRoom DEF QueueInv

LEMMA StepStopped == QueueInv /\ Stopped /\ [Next]_vars => Stopped'
    <1>. SUFFICES ASSUME QueueInv, Stopped, [Next]_vars PROVE Stopped'
      OBVIOUS
    <1>1. CASE main' = main
      <2>1. CASE \E w \in Threads : Worker(w)
        BY <1>1, <2>1 DEF Stopped, QueueInv, Typed, Worker, Top, EndBatch,
           Take, Refuse, Submit, Reap, Arrive, WakeUp, Check, Drain, Goto
      <2>2. CASE ~ \E w \in Threads : Worker(w)
        BY <1>1, <2>2 DEF Stopped, Next, Exited, Main, SetClock, AllSwept,
           SetEof, Finalize, Interrupt, Tick, vars, workerVars
      <2>. QED BY <2>1, <2>2
    <1>2. CASE main' # main
      BY <1>2 DEF Stopped, Next, Exited, Main, SetClock, AllSwept, SetEof,
         Finalize, Interrupt, Tick, vars, workerVars, Worker, Top, EndBatch,
         Take, Refuse, Submit, Reap, Arrive, WakeUp, Check, Drain
    <1>. QED BY <1>1, <1>2

-----------------------------------------------------------------------------
(* The trace                                                               *)

LEMMA InitTrace == Init => Stopped /\ TraceInv
    <1>. SUFFICES ASSUME Init PROVE Stopped /\ TraceInv
      OBVIOUS
    <1>1. load.cnt \in Nat \ {0} /\ load.timeout \in Nat
      BY LoadType DEF Init
    <1>2. Stopped /\ Timed /\ Spent /\ Behind
      BY <1>1 DEF Init, Stopped, Timed, Spent, Behind
    <1>3. Made
      BY DEF Init, Made
    <1>. QED BY <1>2, <1>3 DEF TraceInv

\* Whoever can reset the trace before destroy, or without repeats, has not
\* passed its end.
LEMMA ResetBeforeEnd ==
    ASSUME QueueInv, TraceInv, NEW e \in Nat, NEW n \in Nat, n >= issue,
           CanReset(e, n), Untouched \/ load.repeat = 1
    PROVE  cur < load.cnt
    <1>1. /\ load.cnt \in Nat /\ load.repeat \in Nat /\ load.wanted \in Nat
          /\ cur \in Nat /\ issue \in Nat /\ rep \in Nat /\ tmo \in Nat
      BY LoadType DEF QueueInv, Typed
    <1>. QED BY <1>1 DEF TraceInv, Timed, Spent, CanReset

\* What make_jobs does with the next request: a job with the trace moved on,
\* a job with the trace reset, or no job behind the end.
LEMMA StepMake ==
    ASSUME QueueInv, TraceInv, NEW w \in Threads, Take(w) \/ Refuse(w)
    PROVE  TraceInv'
    <1>. USE DEF QueueInv, Typed, Goto
    <1>0. /\ load.cnt \in Nat \ {0} /\ load.repeat \in Nat \ {0}
          /\ load.wanted \in Nat
          /\ cur \in Nat /\ issue \in Nat /\ rep \in Nat \ {0} /\ tmo \in Nat
          /\ exec[w] \in Nat
      BY LoadType
    <1>1. /\ load' = load /\ tmo' = tmo /\ exec' = exec /\ main' = main
          /\ pc[w] = "make"
      BY DEF Take, Refuse
    <1>2. tmo > 0 => CanReset(exec[w], issue + 1)
      BY <1>0, <1>1 DEF TraceInv, Timed, CanReset
    <1>3. /\ issue' \in Nat
          /\ load.wanted > 0 /\ issue + 1 >= load.wanted
                => issue' >= load.wanted
      BY CountKept DEF Take, Refuse
    <1>4. CASE Take(w) /\ ~AtEnd(issue + 1) /\ cur' = cur + 1
      <2>1. /\ cur' = cur + 1 /\ cur + 1 < load.cnt /\ pc' = pc
            /\ batch' = [batch EXCEPT ![w] = Append(@, cur)]
        BY <1>0, <1>4 DEF Take, AtEnd
      <2>2. Timed'
        BY <1>0, <1>1, <2>1 DEF TraceInv, Timed
      <2>3. Spent' /\ Behind'
        BY <1>0, <1>1, <2>1 DEF Spent, Behind
      <2>4. Made'
        BY <1>0, <1>1, <2>1 DEF TraceInv, Made, Untouched
      <2>. QED BY <2>2, <2>3, <2>4 DEF TraceInv
    <1>5. CASE Take(w) /\ CanReset(exec[w], issue + 1) /\ Reset
      <2>1. /\ cur' = 0 /\ pc' = pc
            /\ batch' = [batch EXCEPT ![w] = Append(@, cur)]
        BY <1>5 DEF Take, Reset
      <2>2. Untouched \/ load.repeat = 1 => cur < load.cnt
        BY <1>0, <1>5, ResetBeforeEnd
      <2>3. Timed'
        BY <1>0, <1>1, <2>1 DEF TraceInv, Timed
      <2>4. Spent' /\ Behind'
        BY <1>0, <1>1, <2>1 DEF Spent, Behind
      <2>5. Made'
        BY <1>0, <1>1, <2>1, <2>2 DEF TraceInv, Made, Untouched
      <2>. QED BY <2>3, <2>4, <2>5 DEF TraceInv
    <1>6. CASE Refuse(w)
      <2>1. /\ cur' = cur + 1 /\ rep' = rep
            /\ batch' = batch /\ pc' = [pc EXCEPT ![w] = "submit"]
            /\ AtEnd(issue + 1) /\ ~CanReset(exec[w], issue + 1)
        BY <1>6 DEF Refuse
      <2>2. tmo = 0
        BY <1>0, <1>2, <2>1
      <2>3. rep' >= load.repeat /\ (load.wanted = 0 \/ issue' >= load.wanted)
        BY <1>0, <1>3, <2>1 DEF CanReset
      <2>4. Timed' /\ Spent' /\ Made'
        BY <1>0, <1>1, <2>1, <2>2, <2>3 DEF TraceInv, Timed, Spent, Made,
           Untouched
      <2>5. Behind'
        <3>1. IsFiniteSet(Threads) /\ Cardinality(Threads) \in Nat
          BY ReplayAssumption, FS_CardinalityType
        <3>2. Makers \subseteq Threads /\ w \in Makers
          BY <1>1 DEF Makers
        <3>3. IsFiniteSet(Makers) /\ Cardinality(Makers) \in Nat
              /\ Cardinality(Makers) <= Cardinality(Threads)
          BY <3>1, <3>2, FS_Subset, FS_CardinalityType
        <3>4. Makers' = Makers \ {w}
          BY <2>1 DEF Makers
        <3>5. Cardinality(Makers') = Cardinality(Makers) - 1
          BY <3>2, <3>3, <3>4, FS_RemoveElement
        <3>6. /\ Untouched' => Untouched
              /\ load' = load /\ cur' = cur + 1
          BY <1>1, <2>1 DEF Untouched
        <3>7. CASE cur >= load.cnt
          BY <1>0, <3>1, <3>3, <3>5, <3>6, <3>7 DEF TraceInv, Behind
        <3>8. CASE cur < load.cnt
          BY <1>0, <3>1, <3>3, <3>5, <3>6, <3>8 DEF Behind
        <3>. QED BY <1>0, <3>7, <3>8
      <2>. QED BY <2>4, <2>5 DEF TraceInv
    <1>. QED BY <1>4, <1>5, <1>6 DEF Take

\* Less threads that can be refused leave Behind true.
LEMMA FewerMakers ==
    ASSUME QueueInv, Behind, Makers' \subseteq Makers,
           load' = load, cur' = cur, Untouched' => Untouched
    PROVE  Behind'
    <1>1. IsFiniteSet(Threads) /\ Makers \subseteq Threads
      BY ReplayAssumption DEF Makers
    <1>2. IsFiniteSet(Makers) /\ Cardinality(Makers) \in Nat
      BY <1>1, FS_Subset, FS_CardinalityType
    <1>3. /\ Cardinality(Makers') \in Nat
          /\ Cardinality(Makers') <= Cardinality(Makers)
      BY <1>2, FS_Subset, FS_CardinalityType
    <1>4. /\ Cardinality(Threads) \in Nat
          /\ cur \in Nat /\ load.cnt \in Nat
      BY <1>1, LoadType, FS_CardinalityType DEF QueueInv, Typed
    <1>. QED BY <1>2, <1>3, <1>4 DEF Behind

\* A thread that stays in its loop and leaves the trace as it is.
LEMMA StepAround ==
    ASSUME QueueInv, TraceInv, NEW w \in Threads,
           Top(w) \/ EndBatch(w) \/ Submit(w) \/ Reap(w) \/ Arrive(w)
              \/ WakeUp(w) \/ Drain(w)
    PROVE  TraceInv'
    <1>. USE DEF QueueInv, Typed, Goto
    <1>1. /\ load' = load /\ cur' = cur /\ issue' = issue /\ rep' = rep
          /\ tmo' = tmo /\ exec' = exec /\ main' = main
      BY DEF Top, EndBatch, Submit, Reap, Arrive, WakeUp, Drain, traceVars
    <1>2. batch' = batch \/ batch' = [batch EXCEPT ![w] = <<>>]
      BY DEF Top, EndBatch, Submit, Reap, Arrive, WakeUp, Drain
    <1>3. /\ \A v \in Threads : pc'[v] \notin {"drain", "done"}
                => pc[v] \notin {"drain", "done"}
          /\ Makers' \subseteq Makers
      BY DEF Top, EndBatch, Submit, Reap, Arrive, WakeUp, Drain, Makers
    <1>4. Timed'
      BY <1>1, <1>3 DEF TraceInv, Timed
    <1>5. Spent'
      BY <1>1 DEF TraceInv, Spent, Untouched
    <1>6. Made'
      <2>1. CASE batch' = batch
        BY <1>1, <2>1 DEF TraceInv, Made, Untouched
      <2>2. CASE batch' = [batch EXCEPT ![w] = <<>>]
        <3>1. ASSUME NEW v \in Threads, NEW i \in DOMAIN batch'[v]
              PROVE  i \in DOMAIN batch[v] /\ batch'[v][i] = batch[v][i]
          <4>1. v # w
            BY <2>2, <3>1
          <4>. QED BY <2>2, <3>1, <4>1
        <3>. QED BY <1>1, <3>1 DEF TraceInv, Made, Untouched
      <2>. QED BY <1>2, <2>1, <2>2
    <1>7. Behind'
      BY <1>1, <1>3, FewerMakers DEF TraceInv, Untouched
    <1>. QED BY <1>4, <1>5, <1>6, <1>7 DEF TraceInv

\* The end of the loop: only a trace that is not behind its end lets a thread
\* in again.
LEMMA StepCheck ==
    ASSUME QueueInv, TraceInv, NEW w \in Threads, Check(w)
    PROVE  TraceInv'
    <1>. USE DEF QueueInv, Typed, Goto
    <1>0. /\ load.cnt \in Nat \ {0} /\ load.repeat \in Nat \ {0}
          /\ load.wanted \in Nat /\ cur \in Nat /\ issue \in Nat
          /\ rep \in Nat \ {0} /\ tmo \in Nat /\ clock \in Nat
      BY LoadType
    <1>1. /\ load' = load /\ issue' = issue /\ tmo' = tmo /\ main' = main
          /\ batch' = batch /\ exec' = [exec EXCEPT ![w] = clock]
          /\ pc[w] = "check"
      BY DEF Check, traceVars
    <1>2. CASE pc' = [pc EXCEPT ![w] = "drain"] /\ UNCHANGED traceVars
      <2>1. Makers' \subseteq Makers
        BY <1>2 DEF Makers
      <2>2. Behind'
        BY <1>1, <1>2, <2>1, FewerMakers DEF TraceInv, Untouched, traceVars
      <2>3. Timed'
        BY <1>1, <1>2 DEF TraceInv, Timed, traceVars
      <2>4. Spent' /\ Made'
        BY <1>1, <1>2 DEF TraceInv, Spent, Made, Untouched, traceVars
      <2>. QED BY <2>2, <2>3, <2>4 DEF TraceInv
    <1>3. CASE /\ ~(tmo > 0 /\ clock >= tmo)
               /\ CanReset(clock, issue) /\ Reset
               /\ pc' = [pc EXCEPT ![w] = "top"]
      <2>1. cur' = 0
        BY <1>3 DEF Reset
      <2>2. Timed'
        BY <1>0, <1>1, <1>3, <2>1 DEF TraceInv, Timed
      <2>3. Spent' /\ Behind'
        BY <1>0, <1>1, <2>1 DEF Spent, Behind
      <2>4. Made'
        BY <1>1 DEF TraceInv, Made, Untouched
      <2>. QED BY <2>2, <2>3, <2>4 DEF TraceInv
    <1>4. CASE /\ ~(tmo > 0 /\ clock >= tmo) /\ cur < load.cnt
               /\ pc' = [pc EXCEPT ![w] = "top"] /\ UNCHANGED traceVars
      <2>1. Timed'
        BY <1>0, <1>1, <1>4 DEF TraceInv, Timed, traceVars
      <2>2. Spent' /\ Behind'
        BY <1>0, <1>1, <1>4 DEF Spent, Behind, traceVars
      <2>3. Made'
        BY <1>1, <1>4 DEF TraceInv, Made, Untouched, traceVars
      <2>. QED BY <2>1, <2>2, <2>3 DEF TraceInv
    <1>. QED BY <1>2, <1>3, <1>4 DEF Check

\* The main thread and the clock.
LEMMA StepMain ==
    ASSUME QueueInv, TraceInv, Main \/ Interrupt \/ Tick \/ UNCHANGED vars
    PROVE  TraceInv'
    <1>0. /\ load.cnt \in Nat \ {0} /\ load.repeat \in Nat \ {0}
          /\ load.wanted \in Nat /\ cur \in Nat /\ rep \in Nat \ {0}
      BY LoadType DEF QueueInv, Typed
    <1>1. CASE SetEof
      <2>1. /\ load' = load /\ cur' = load.cnt /\ issue' = load.wanted
            /\ tmo' = 0 /\ rep' = rep /\ batch' = batch
            /\ main' = "join" /\ main = "destroy"
        BY <1>1 DEF SetEof, workerVars
      <2>2. Timed' /\ Behind'
        BY <1>0, <2>1 DEF Timed, Behind, Untouched
      <2>3. Spent'
        BY <1>0, <2>1 DEF Spent, Untouched
      <2>4. Made'
        BY <2>1 DEF TraceInv, Made, Untouched
      <2>. QED BY <2>2, <2>3, <2>4 DEF TraceInv
    <1>2. CASE SetClock \/ AllSwept \/ Finalize \/ Interrupt \/ Tick
               \/ UNCHANGED vars
      <2>1. /\ UNCHANGED <<load, traceVars, workerVars>>
            /\ Untouched' => Untouched
        BY <1>2 DEF SetClock, AllSwept, Finalize, Interrupt, Tick, vars,
           Untouched
      <2>2. Makers' = Makers
        BY <2>1 DEF Makers, workerVars
      <2>3. Behind'
        BY <2>1, <2>2, FewerMakers DEF TraceInv, traceVars
      <2>4. Timed' /\ Spent'
        BY <2>1 DEF TraceInv, Timed, Spent, traceVars, workerVars
      <2>5. Made'
        BY <2>1 DEF TraceInv, Made, traceVars, workerVars
      <2>. QED BY <2>3, <2>4, <2>5 DEF TraceInv
    <1>. QED BY <1>1, <1>2 DEF Main

LEMMA StepTrace == QueueInv /\ TraceInv /\ [Next]_vars => TraceInv'
    BY StepMake, StepAround, StepCheck, StepMain DEF Next, Exited, Worker

-----------------------------------------------------------------------------
(* The passes                                                              *)

LEMMA InitPass == Init => PassInv
    <1>. SUFFICES ASSUME Init PROVE PassInv
      OBVIOUS
    <1>1. load.cnt \in Nat \ {0} /\ load.repeat \in Nat \ {0}
      BY LoadType DEF Init
    <1>2. InOrder(0) = <<>>
      BY DEF InOrder
    <1>. QED BY <1>1, <1>2 DEF Init, PassInv, Rounds, PassSoFar, Left

\* The steps that leave the trace as it is.
LEMMA PassKept ==
    ASSUME QueueInv, PassInv, UNCHANGED <<load, traceVars>>,
           Untouched' => Untouched,
           load.wanted = 0 /\ load.timeout = 0 /\ Untouched =>
              \A w \in Threads : pc'[w] \in {"drain", "done"}
                  => pc[w] \in {"drain", "done"} \/ cur >= load.cnt
    PROVE  PassInv'
    <1>1. Rounds' /\ PassSoFar'
      BY DEF PassInv, Rounds, PassSoFar, ByTrace, InOrder, traceVars
    <1>2. Left'
      BY DEF PassInv, Left, traceVars
    <1>. QED BY <1>1, <1>2 DEF PassInv

LEMMA StepPass == QueueInv /\ TraceInv /\ PassInv /\ [Next]_vars => PassInv'
    <1>. SUFFICES ASSUME QueueInv, TraceInv, PassInv, [Next]_vars
                  PROVE  PassInv'
      OBVIOUS
    <1>0. /\ load \in Load
          /\ load.cnt \in Nat \ {0} /\ load.repeat \in Nat \ {0}
          /\ load.wanted \in Nat /\ load.timeout \in Nat
          /\ cur \in Nat /\ issue \in Nat /\ rep \in Nat \ {0} /\ tmo \in Nat
          /\ clock \in Nat /\ \A w \in Threads : exec[w] \in Nat
      BY LoadType DEF QueueInv, Typed
    <1>1. ASSUME NEW w \in Threads, Take(w) \/ Refuse(w) PROVE PassInv'
      <2>1. /\ load' = load /\ tmo' = tmo /\ (Untouched' <=> Untouched)
            /\ issue' = AtMost(issue + 1, MaxIssue)
            /\ \A v \in Threads : pc'[v] \in {"drain", "done"}
                  => pc[v] \in {"drain", "done"}
        BY <1>1 DEF Take, Refuse, Untouched, Goto, QueueInv, Typed
      <2>2. /\ issue' \in Nat
            /\ load.wanted > 0 /\ issue + 1 >= load.wanted
                  => issue' >= load.wanted
        BY <1>0, <2>1, CountKept
      <2>3. ByTrace(issue') => load.wanted = 0 \/ load.timeout > 0
                                  \/ issue + 1 < load.wanted
        BY <1>0, <2>2 DEF ByTrace
      <2>4. ByTrace(issue') => ByTrace(issue)
        BY <1>0, <2>3 DEF ByTrace
      <2>5. CASE Take(w) /\ ~AtEnd(issue + 1) /\ cur' = cur + 1
                 /\ pass' = Append(pass, cur) /\ rep' = rep
        <3>1. cur + 1 < load.cnt
          BY <1>0, <2>5 DEF AtEnd
        <3>2. Rounds' /\ Left'
          BY <1>0, <2>1, <2>5, <3>1 DEF PassInv, Rounds, Left
        <3>3. ASSUME Untouched', ByTrace(issue')
              PROVE  pass' = InOrder(cur')
          <4>1. pass = InOrder(cur)
            BY <1>0, <2>1, <2>4, <3>1, <3>3 DEF PassInv, PassSoFar
          <4>. QED BY <1>0, <2>5, <4>1, AppendInOrder
        <3>4. PassSoFar'
          BY <1>0, <2>1, <2>5, <3>1, <3>3 DEF PassSoFar, ByTrace, InOrder
        <3>. QED BY <3>2, <3>4 DEF PassInv
      <2>6. CASE Take(w) /\ AtEnd(issue + 1) /\ CanReset(exec[w], issue + 1)
                 /\ Reset
        <3>1. cur' = 0 /\ pass' = <<>>
              /\ rep' = AtMost(rep + 1, load.repeat + 1)
          BY <2>6 DEF Reset
        <3>2. Rounds'
          BY <1>0, <2>1, <2>6, <3>1 DEF PassInv, Rounds, CanReset, AtMost
        <3>3. PassSoFar'
          <4>1. InOrder(0) = <<>>
            BY DEF InOrder
          <4>. QED BY <1>0, <2>1, <3>1, <4>1 DEF PassSoFar
        <3>4. Left'
          <4>1. Untouched => cur < load.cnt
            BY <1>0, <2>6, ResetBeforeEnd
          <4>. QED BY <1>0, <2>1, <4>1 DEF PassInv, Left
        <3>. QED BY <3>2, <3>3, <3>4 DEF PassInv
      <2>7. CASE Refuse(w)
        <3>1. /\ cur' = cur + 1 /\ rep' = rep /\ pass' = pass
              /\ AtEnd(issue + 1) /\ ~CanReset(exec[w], issue + 1)
          BY <2>7 DEF Refuse
        <3>2. Rounds' /\ Left'
          BY <1>0, <2>1, <3>1 DEF PassInv, Rounds, Left
        <3>3. ASSUME Untouched, ByTrace(issue')
              PROVE  load.cnt <= cur + 1
          <4>1. CASE load.timeout = 0
            BY <1>0, <2>3, <3>1, <3>3, <4>1 DEF AtEnd
          <4>2. CASE load.timeout > 0
            BY <1>0, <1>1, <2>7, <3>1, <3>3, <4>2
               DEF AtEnd, CanReset, TraceInv, Timed, PassInv, Rounds, Refuse
          <4>. QED BY <1>0, <4>1, <4>2
        <3>4. PassSoFar'
          BY <1>0, <2>1, <2>4, <3>1, <3>3 DEF PassInv, PassSoFar, ByTrace
        <3>. QED BY <3>2, <3>4 DEF PassInv
      <2>. QED BY <1>1, <2>5, <2>6, <2>7 DEF Take
    <1>2. ASSUME NEW w \in Threads, Check(w) PROVE PassInv'
      <2>1. /\ load' = load /\ tmo' = tmo /\ issue' = issue
            /\ (Untouched' <=> Untouched)
        BY <1>2 DEF Check, Untouched, traceVars
      <2>2. CASE UNCHANGED traceVars
        <3>1. load.wanted = 0 /\ load.timeout = 0 =>
                \A v \in Threads : pc'[v] \in {"drain", "done"}
                    => pc[v] \in {"drain", "done"} \/ cur >= load.cnt
          BY <1>0, <1>2, <2>2 DEF Check, Goto, PassInv, Rounds, QueueInv,
             Typed
        <3>. QED BY <2>1, <2>2, <3>1, PassKept
      <2>3. CASE /\ cur >= load.cnt /\ CanReset(clock, issue) /\ Reset
                 /\ Goto(w, "top")
        <3>1. ~Untouched
          BY <1>0, <2>3, ResetBeforeEnd
        <3>2. Rounds'
          BY <1>0, <2>1, <2>3 DEF PassInv, Rounds, CanReset, AtMost, Reset
        <3>. QED BY <2>1, <3>1, <3>2 DEF PassInv, PassSoFar, Left
      <2>. QED BY <1>2, <2>2, <2>3 DEF Check
    <1>3. CASE SetEof
      <2>1. Rounds' /\ ~Untouched'
        BY <1>3 DEF SetEof, PassInv, Rounds, Untouched
      <2>. QED BY <2>1 DEF PassInv, PassSoFar, Left
    <1>4. ASSUME NEW w \in Threads,
                 Top(w) \/ EndBatch(w) \/ Submit(w) \/ Reap(w) \/ Arrive(w)
                    \/ WakeUp(w) \/ Drain(w)
          PROVE  PassInv'
      <2>1. UNCHANGED <<load, traceVars>> /\ (Untouched' => Untouched)
        BY <1>4 DEF Top, EndBatch, Submit, Reap, Arrive, WakeUp, Drain,
           Untouched
      <2>2. load.wanted = 0 =>
               \A v \in Threads : pc'[v] \in {"drain", "done"}
                   => pc[v] \in {"drain", "done"} \/ cur >= load.cnt
        BY <1>0, <1>4 DEF Top, EndBatch, Submit, Reap, Arrive, WakeUp, Drain,
           Goto, Eof, QueueInv, Typed
      <2>. QED BY <2>1, <2>2, PassKept
    <1>5. CASE SetClock \/ AllSwept \/ Finalize \/ Interrupt \/ Tick
               \/ UNCHANGED vars
      <2>1. /\ UNCHANGED <<load, traceVars>> /\ pc' = pc
            /\ (Untouched' => Untouched)
        BY <1>5 DEF SetClock, AllSwept, Finalize, Interrupt, Tick, vars,
           workerVars, Untouched
      <2>. QED BY <2>1, PassKept
    <1>. QED BY <1>1, <1>2, <1>3, <1>4, <1>5 DEF Next, Exited, Main, Worker

-----------------------------------------------------------------------------
(* The wanted count                                                        *)

\* The sets of threads that Credit counts.
LEMMA CountsType ==
    /\ IsFiniteSet(Again) /\ IsFiniteSet(Twice)
    /\ Cardinality(Again) \in Nat /\ Cardinality(Twice) \in Nat
    /\ Cardinality(Again) <= Cardinality(Threads)
    /\ Cardinality(Twice) <= Cardinality(Threads)
    <1>1. Again \subseteq Threads /\ Twice \subseteq Threads
      BY DEF Again, Twice
    <1>. QED BY <1>1, ThreadsFinite, FS_Subset, FS_CardinalityType

LEMMA InitFetched == Init => Fetched
    BY LoadType DEF Init, Fetched

\* A step that fetches nothing and lets no thread in again.
LEMMA FetchedKept ==
    ASSUME QueueInv, Fetched, load' = load, issue' = issue, rep' = rep,
           Untouched' => Untouched,
           Untouched /\ load.wanted > 0 /\ issue >= load.wanted
              => Again' \subseteq Again /\ Twice' \subseteq Twice
    PROVE  Fetched'
    <1>. SUFFICES ASSUME Untouched', load.wanted > 0, load.timeout = 0,
                         issue >= load.wanted
                  PROVE  (issue - load.wanted) + Credit'
                            < 2 * Cardinality(Threads) + load.repeat - 1
      BY DEF Fetched
    <1>1. /\ load.wanted \in Nat /\ load.repeat \in Nat \ {0}
          /\ issue \in Nat /\ rep \in Nat
      BY LoadType DEF QueueInv, Typed
    <1>2. /\ Cardinality(Again') \in Nat
          /\ Cardinality(Again') <= Cardinality(Again)
          /\ Cardinality(Twice') \in Nat
          /\ Cardinality(Twice') <= Cardinality(Twice)
      BY CountsType, FS_Subset, FS_CardinalityType
    <1>3. Cardinality(Again) \in Nat /\ Cardinality(Twice) \in Nat
      BY CountsType
    <1>4. (issue - load.wanted) + Credit
             < 2 * Cardinality(Threads) + load.repeat - 1
      BY DEF Fetched
    <1>. QED BY <1>1, <1>2, <1>3, <1>4, ThreadsFinite DEF Credit

\* A fetch behind the wanted count uses up one repeat, or one refusal of the
\* thread.
LEMMA FetchBehind ==
    ASSUME QueueInv, TraceInv, PassInv, Fetched, NEW w \in Threads,
           Take(w) \/ Refuse(w)
    PROVE  Fetched'
    <1>1. /\ load' = load /\ (Untouched' <=> Untouched)
          /\ issue' = AtMost(issue + 1, MaxIssue) /\ pc[w] = "make"
      BY DEF Take, Refuse, Untouched
    <1>. SUFFICES ASSUME Untouched, load.wanted > 0, load.timeout = 0,
                         issue' >= load.wanted
                  PROVE  (issue' - load.wanted) + Credit'
                            < 2 * Cardinality(Threads) + load.repeat - 1
      BY <1>1 DEF Fetched
    <1>2. /\ load \in Load /\ load.wanted \in Nat
          /\ load.repeat \in Nat \ {0} /\ issue \in Nat /\ rep \in Nat \ {0}
          /\ tmo = 0
      BY LoadType DEF QueueInv, Typed, PassInv, Rounds
    <1>3. issue' \in Nat /\ issue' <= issue + 1
      BY <1>1, <1>2, CountKept
    <1>4. AtEnd(issue + 1) /\ issue + 1 >= load.wanted
      BY <1>2, <1>3 DEF AtEnd
    <1>5. issue >= load.wanted
             => (issue - load.wanted) + Credit
                   < 2 * Cardinality(Threads) + load.repeat - 1
      BY DEF Fetched
    <1>6. /\ Cardinality(Again) \in Nat /\ Cardinality(Twice) \in Nat
          /\ Cardinality(Again) <= Cardinality(Threads)
          /\ Cardinality(Twice) <= Cardinality(Threads)
          /\ Cardinality(Threads) \in Nat \ {0}
      BY CountsType, ThreadsFinite
    <1>7. CASE Take(w)
      <2>1. rep < load.repeat /\ rep' = rep + 1
        BY <1>2, <1>4, <1>7 DEF Take, CanReset, Reset, AtMost
      <2>2. /\ Cardinality(Again)' \in Nat /\ Cardinality(Twice)' \in Nat
            /\ Cardinality(Again)' <= Cardinality(Threads)
            /\ Cardinality(Twice)' <= Cardinality(Threads)
        <3>1. Again' \subseteq Threads /\ Twice' \subseteq Threads
          BY DEF Again, Twice
        <3>. QED BY <3>1, ThreadsFinite, FS_Subset, FS_CardinalityType
      <2>. QED BY <1>1, <1>2, <1>3, <1>4, <1>5, <1>6, <2>1, <2>2 DEF Credit
    <1>8. CASE Refuse(w)
      <2>1. /\ rep' = rep /\ batch' = batch
            /\ pc' = [pc EXCEPT ![w] = "submit"]
            /\ rep >= load.repeat
        BY <1>2, <1>4, <1>8 DEF Refuse, CanReset, Goto
      <2>2. Cardinality(Again') + Cardinality(Twice')
               = Cardinality(Again) + Cardinality(Twice) - 1
        <3>1. CASE batch[w] # <<>>
          <4>1. Again' = Again /\ Twice' = Twice \ {w} /\ w \in Twice
            BY <1>1, <2>1, <3>1 DEF Again, Twice, QueueInv, Typed
          <4>2. Cardinality(Twice') = Cardinality(Twice) - 1
            BY <4>1, CountsType, FS_RemoveElement
          <4>. QED BY <1>6, <4>1, <4>2
        <3>2. CASE batch[w] = <<>>
          <4>1. Again' = Again \ {w} /\ Twice' = Twice /\ w \in Again
            BY <1>1, <2>1, <3>2 DEF Again, Twice, QueueInv, Typed
          <4>2. Cardinality(Again') = Cardinality(Again) - 1
            BY <4>1, CountsType, FS_RemoveElement
          <4>. QED BY <1>6, <4>1, <4>2
        <3>. QED BY <3>1, <3>2
      <2>3. Cardinality(Again') + Cardinality(Twice') = Credit'
        BY <1>1, <1>2, <2>1 DEF Credit
      <2>4. Credit = Cardinality(Again) + Cardinality(Twice)
        BY <1>2, <2>1 DEF Credit
      <2>. QED BY <1>2, <1>3, <1>4, <1>5, <1>6, <2>2, <2>3, <2>4
    <1>. QED BY <1>7, <1>8

\* A thread that fetches nothing: behind the wanted count one without jobs
\* leaves its loop.
LEMMA FetchedAround ==
    ASSUME QueueInv, TraceInv, PassInv, Fetched, NEW w \in Threads,
           Top(w) \/ EndBatch(w) \/ Submit(w) \/ Reap(w) \/ Arrive(w)
              \/ WakeUp(w) \/ Check(w) \/ Drain(w)
    PROVE  Fetched'
    <1>. USE DEF Goto
    <1>1. /\ load' = load /\ issue' = issue /\ (Untouched' <=> Untouched)
      BY DEF Top, EndBatch, Submit, Reap, Arrive, WakeUp, Check, Drain,
         Untouched, traceVars
    <1>2. /\ pc \in [Threads -> Places] /\ batch \in [Threads -> Seq(Nat)]
          /\ pc[w] = "top" => batch[w] = <<>>
      BY DEF QueueInv, Typed, Room
    <1>3. CASE Top(w) \/ EndBatch(w)
      <2>1. /\ Again' \subseteq Again /\ Twice' \subseteq Twice
        BY <1>2, <1>3 DEF Top, EndBatch, Again, Twice
      <2>. QED BY <1>1, <1>3, <2>1, FetchedKept DEF Top, EndBatch, traceVars
    <1>4. CASE Submit(w)
      <2>1. load.wanted > 0 /\ issue >= load.wanted
               => Again' \subseteq Again /\ Twice' \subseteq Twice
        BY <1>2, <1>4 DEF Submit, Again, Twice, Eof
      <2>. QED BY <1>1, <1>4, <2>1, FetchedKept DEF Submit, traceVars
    <1>5. CASE Reap(w) \/ Arrive(w) \/ WakeUp(w) \/ Drain(w)
      <2>1. /\ Again' \subseteq Again /\ Twice' \subseteq Twice
        BY <1>2, <1>5 DEF Reap, Arrive, WakeUp, Drain, Again, Twice
      <2>. QED BY <1>1, <1>5, <2>1, FetchedKept
           DEF Reap, Arrive, WakeUp, Drain, traceVars
    <1>6. CASE Check(w)
      <2>1. /\ Again' \subseteq Again /\ Twice' \subseteq Twice
        BY <1>2, <1>6 DEF Check, Again, Twice
      <2>2. CASE UNCHANGED traceVars
        BY <1>1, <2>1, <2>2, FetchedKept DEF traceVars
      <2>3. CASE cur >= load.cnt /\ CanReset(clock, issue)
        <3>1. /\ cur \in Nat /\ load.cnt \in Nat /\ clock \in Nat
              /\ issue \in Nat
          BY LoadType DEF QueueInv, Typed
        <3>2. ~Untouched
          BY <2>3, <3>1, ResetBeforeEnd
        <3>. QED BY <1>1, <3>2 DEF Fetched
      <2>. QED BY <1>6, <2>2, <2>3 DEF Check
    <1>. QED BY <1>3, <1>4, <1>5, <1>6

LEMMA StepFetched ==
    QueueInv /\ TraceInv /\ PassInv /\ Fetched /\ [Next]_vars => Fetched'
    <1>. SUFFICES ASSUME QueueInv, TraceInv, PassInv, Fetched, [Next]_vars
                  PROVE  Fetched'
      OBVIOUS
    <1>1. CASE SetEof
      BY <1>1 DEF SetEof, Fetched, Untouched
    <1>2. CASE SetClock \/ AllSwept \/ Finalize \/ Interrupt \/ Tick
               \/ UNCHANGED vars
      <2>1. /\ UNCHANGED <<load, traceVars, pc, batch>>
            /\ Untouched' => Untouched
        BY <1>2 DEF SetClock, AllSwept, Finalize, Interrupt, Tick, vars,
           workerVars, Untouched
      <2>2. Again' = Again /\ Twice' = Twice
        BY <2>1 DEF Again, Twice
      <2>. QED BY <2>1, <2>2, FetchedKept DEF traceVars
    <1>. QED BY <1>1, <1>2, FetchBehind, FetchedAround
         DEF Next, Exited, Main, Worker

\* The inductive invariant, for all constants.
THEOREM ReplayInvariant == Spec => []Inv
    <1>1. Init => Inv
      BY InitQueue, InitTrace, InitPass, InitFetched DEF Inv
    <1>2. Inv /\ [Next]_vars => Inv'
      BY StepQueue, StepStopped, StepTrace, StepPass, StepFetched DEF Inv
    <1>. QED BY <1>1, <1>2, PTL DEF Spec

-----------------------------------------------------------------------------
(* The properties                                                          *)

\* No thread has more I/O made or in flight than its io context takes, and
\* the branch of sub_worker for a full queue is dead (trace_replay.c:501-511).
THEOREM QueueIsBounded == Spec => []QueueBounded
    <1>1. Inv => QueueBounded
      BY DEF Inv, QueueInv, Room, QueueBounded
    <1>. QED BY <1>1, ReplayInvariant, PTL

\* FIN and the totals are written when no thread and no I/O is left that could
\* still change the statistics (trace_replay.c:1225-1252).
THEOREM FinalResultsAreQuiet == Spec => []FinalIsQuiet
    <1>1. Inv => FinalIsQuiet
      BY DEF Inv, QueueInv, Stopped, Room, FinalIsQuiet
    <1>. QED BY <1>1, ReplayInvariant, PTL

\* Until SIGINT, and after it when there are no repeats, a job is made only
\* for a request of the trace (trace_replay.c:281-355).
THEOREM JobsAreRequests == Spec => []OnlyRequests
    <1>1. Inv => OnlyRequests
      BY DEF Inv, TraceInv, Made, Untouched, Sweeping, OnlyRequests
    <1>. QED BY <1>1, ReplayInvariant, PTL

\* The threads look at most one element per thread behind the trace, and
\* behind a wanted count they fetch no more than two requests each and one for
\* each repeat but two (trace_replay.c:279-316).
THEOREM OverrunIsBounded == Spec => []OverrunBounded
    <1>1. Inv => OverrunBounded
      <2>. SUFFICES ASSUME Inv, Sweeping PROVE OverrunBounded
        BY DEF OverrunBounded
      <2>1. /\ cur \in Nat /\ load.cnt \in Nat \ {0} /\ Untouched
            /\ load.wanted \in Nat /\ load.repeat \in Nat \ {0}
            /\ issue \in Nat /\ rep \in Nat
        BY LoadType DEF Inv, QueueInv, Typed, Sweeping, Untouched
      <2>2. Cardinality(Threads) \in Nat \ {0}
        BY ThreadsFinite
      <2>3. cur < load.cnt + Cardinality(Threads)
        <3>1. Cardinality(Makers) \in Nat
          BY ThreadsFinite, FS_Subset, FS_CardinalityType DEF Makers
        <3>2. CASE cur >= load.cnt
          BY <2>1, <2>2, <3>1, <3>2 DEF Inv, TraceInv, Behind
        <3>3. CASE cur < load.cnt
          BY <2>1, <2>2, <3>3
        <3>. QED BY <2>1, <3>2, <3>3
      <2>4. ASSUME load.wanted > 0, load.timeout = 0
            PROVE  issue < load.wanted + 2 * Cardinality(Threads)
                              + load.repeat - 1
        <3>1. Credit \in Nat
          BY <2>1, <2>2, CountsType DEF Credit
        <3>2. CASE issue >= load.wanted
          BY <2>1, <2>2, <2>4, <3>1, <3>2 DEF Inv, Fetched
        <3>3. CASE issue < load.wanted
          BY <2>1, <2>2, <3>3
        <3>. QED BY <2>1, <3>2, <3>3
      <2>. QED BY <2>3, <2>4 DEF OverrunBounded
    <1>. QED BY <1>1, ReplayInvariant, PTL

\* Under a timeout no thread comes behind the end of the trace before the
\* timeout is cleared (trace_replay.c:281-355).
THEOREM TimeoutWraps == Spec => []TimedWraps
    <1>1. Inv => TimedWraps
      BY DEF Inv, TraceInv, Timed, TimedWraps
    <1>. QED BY <1>1, ReplayInvariant, PTL

\* A pass is started again only when a job was made for each request of the
\* one before, once and in order, and when the threads are done with a trace
\* file there were as many passes as wanted, the last one without its last
\* request (trace_replay.c:229-232, 267-316).
THEOREM PassIsWhole == Spec => WholePass
    <1>. DEFINE Whole == ByTrace(issue') /\ cur' = 0 /\ cur # 0
                             => Append(pass, cur) = InOrder(load.cnt)
                Last == AllSwept /\ load.wanted = 0 /\ load.timeout = 0
                           => rep = load.repeat
                                 /\ pass = InOrder(load.cnt - 1)
    <1>1. Inv /\ [Next]_vars => [Sweeping => Whole /\ Last]_vars
      <2>. SUFFICES ASSUME Inv, [Next]_vars, Sweeping PROVE Whole /\ Last
        OBVIOUS
      <2>0. /\ load \in Load /\ load.cnt \in Nat \ {0} /\ cur \in Nat
            /\ issue \in Nat /\ load.wanted \in Nat /\ load.timeout \in Nat
            /\ load.repeat \in Nat /\ rep \in Nat
            /\ clock \in Nat /\ \A w \in Threads : exec[w] \in Nat
            /\ Untouched /\ main \in {"begin", "sweep"}
        BY LoadType DEF Inv, QueueInv, Typed, Sweeping, Untouched
      <2>1. Last
        <3>. SUFFICES ASSUME AllSwept, load.wanted = 0, load.timeout = 0
                      PROVE  rep = load.repeat /\ pass = InOrder(load.cnt - 1)
          OBVIOUS
        <3>1. PICK w \in Threads : pc[w] = "done"
          BY ReplayAssumption DEF AllSwept
        <3>2. cur >= load.cnt
          BY <2>0, <3>1 DEF Inv, PassInv, Left
        <3>3. rep >= load.repeat /\ rep <= load.repeat
          BY <2>0, <3>2 DEF Inv, TraceInv, Spent, PassInv, Rounds
        <3>. QED BY <2>0, <3>2, <3>3 DEF Inv, PassInv, PassSoFar
      <2>2. Whole
        <3>. SUFFICES ASSUME ByTrace(issue'), cur' = 0, cur # 0
                      PROVE  Append(pass, cur) = InOrder(load.cnt)
          OBVIOUS
        <3>1. PICK w \in Threads : Worker(w)
          BY <2>0 DEF Next, Exited, Main, SetClock, AllSwept, SetEof,
             Finalize, Interrupt, Tick, vars, traceVars
        <3>2. CASE Take(w)
          <4>1. /\ AtEnd(issue + 1) /\ CanReset(exec[w], issue + 1)
                /\ issue' = AtMost(issue + 1, MaxIssue) /\ load' = load
            BY <2>0, <3>2 DEF Take
          <4>2. cur < load.cnt
            BY <2>0, <4>1, ResetBeforeEnd DEF Inv
          <4>3. /\ issue' \in Nat
                /\ load.wanted > 0 /\ issue + 1 >= load.wanted
                      => issue' >= load.wanted
            BY <2>0, <4>1, CountKept
          <4>4. load.wanted = 0 \/ load.timeout > 0 \/ issue + 1 < load.wanted
            BY <2>0, <4>1, <4>3 DEF ByTrace
          <4>5. cur = load.cnt - 1
            <5>1. load.timeout > 0 => tmo > 0
              BY <2>0 DEF Inv, PassInv, Rounds
            <5>. QED BY <2>0, <4>1, <4>2, <4>4, <5>1 DEF AtEnd
          <4>6. pass = InOrder(cur)
            BY <2>0, <4>2, <4>4 DEF Inv, PassInv, PassSoFar, ByTrace
          <4>7. Append(pass, cur) = InOrder(cur + 1)
            BY <2>0, <4>6, AppendInOrder
          <4>. QED BY <2>0, <4>5, <4>7
        <3>3. CASE Check(w)
          <4>1. CanReset(clock, issue) /\ cur >= load.cnt
            BY <2>0, <3>3 DEF Check, traceVars
          <4>2. cur < load.cnt
            BY <2>0, <4>1, ResetBeforeEnd DEF Inv
          <4>. QED BY <2>0, <4>1, <4>2
        <3>4. CASE ~Take(w) /\ ~Check(w)
          BY <2>0, <3>1, <3>4 DEF Worker, Top, EndBatch, Refuse, Submit,
             Reap, Arrive, WakeUp, Drain, traceVars
        <3>. QED BY <3>2, <3>3, <3>4
      <2>. QED BY <2>1, <2>2
    <1>. QED BY <1>1, ReplayInvariant, PTL DEF Spec, WholePass
=============================================================================
