------------------------------ MODULE WebClient ------------------------------
(***************************************************************************)
(* One session of the web server (web/package/container_tracer.py and       *)
(* trace_replay.py) on top of the driver: runner_init in the handler, then  *)
(* in the driver thread runner_run, _refresh and runner_free, one after the *)
(* other. Each of these runs in a thread of its own that is joined at once. *)
(***************************************************************************)
EXTENDS TrDriver

VARIABLES
    at,    \* "init", "run", "poll", "asked", "total", "read", "saved",
           \* "free", "end"
    todo,  \* the keys left in the current loop over a set, in any order
    open   \* remain_set: the keys whose FIN has not come

webVars == <<vars, at, todo, open>>

WebInit == Init /\ at = "init" /\ todo = {} /\ open = Task

\* ContainerTracer.__init__
InitSession ==
    /\ at = "init" /\ at' = "run"
    /\ RunnerInit
    /\ UNCHANGED <<todo, open>>

\* _container_tracer_run: the OSError it raises on failure ends its own
\* thread and nothing else, so that _refresh follows in any case.
RunSession ==
    /\ at = "run" /\ pc = "ready"
    /\ at' = "poll" /\ todo' = Task
    /\ RunnerRun
    /\ UNCHANGED open

\* _get_interval_result for a key of the copy of remain_set.
AskInterval ==
    /\ at = "poll" /\ todo # {}
    /\ at' = "asked"
    /\ \E t \in todo : GetInterval(t)
    /\ UNCHANGED <<todo, open>>

SeeInterval ==
    /\ at = "asked" /\ pc = "idle"
    /\ at' = "poll" /\ todo' = todo \ {cur}
    /\ open' = IF ret = "FIN" THEN open \ {cur} ELSE open
    /\ UNCHANGED vars

\* Mutant: the test of the round's results is inverted.
EndRoundInverted ==
    /\ at = "poll" /\ pc = "idle" /\ todo = {}
    /\ IF open # Task THEN todo' = open /\ UNCHANGED at
                      ELSE at' = "total" /\ todo' = Task
    /\ UNCHANGED <<vars, open>>

\* The end of a round. The chart is updated when every key gave a result;
\* after the first FIN no round follows, the totals of all keys are read.
EndRound ==
    /\ at = "poll" /\ pc = "idle" /\ todo = {}
    /\ IF open = Task THEN todo' = open /\ UNCHANGED at
                      ELSE at' = "total" /\ todo' = Task
    /\ UNCHANGED <<vars, open>>

\* _get_total_result
AskTotal ==
    /\ at = "total" /\ todo # {}
    /\ at' = "read"
    /\ \E t \in todo : GetTotal(t)
    /\ UNCHANGED <<todo, open>>

\* A null result raises an exception in the _refresh thread and ends it.
SeeTotal ==
    /\ at = "read" /\ pc = "idle"
    /\ \/ /\ ret = "total"
          /\ at' = "total" /\ todo' = todo \ {cur}
       \/ /\ ret = "error"
          /\ at' = "free" /\ UNCHANGED todo
    /\ UNCHANGED <<vars, open>>

\* Mutant: saved and reported before the totals are read.
SaveIntervalsFirst ==
    /\ at = "total"
    /\ at' = "saved"
    /\ UNCHANGED <<vars, todo, open>>

\* save_interval_to_files and chart_end
SaveIntervals ==
    /\ at = "total" /\ todo = {}
    /\ at' = "saved"
    /\ UNCHANGED <<vars, todo, open>>

\* container_tracer_free in the driver thread.
FreeSession ==
    /\ at \in {"saved", "free"} /\ Callable
    /\ at' = "end"
    /\ RunnerFree
    /\ UNCHANGED <<todo, open>>

\* The next session of the server is another behaviour.
Ended == at = "end" /\ pc = "uninit" /\ UNCHANGED webVars

ClientStep ==
    \/ InitSession \/ RunSession \/ AskInterval \/ SeeInterval \/ EndRound
    \/ AskTotal \/ SeeTotal \/ SaveIntervals \/ FreeSession

DriverStep == (CallStep \/ \E t \in Task : Child(t)) /\ UNCHANGED <<at, todo, open>>

WebNext == ClientStep \/ DriverStep \/ Ended

\* The kernel runs the server's threads and every child.
WebFairness ==
    /\ WF_webVars(ClientStep)
    /\ WF_webVars(CallStep /\ UNCHANGED <<at, todo, open>>)
    /\ \A t \in Task : WF_webVars(Child(t) /\ UNCHANGED <<at, todo, open>>)
    /\ \A t \in Task : WF_webVars(Die(t) /\ UNCHANGED <<at, todo, open>>)

WebSpec == WebInit /\ [][WebNext]_webVars /\ WebFairness

-----------------------------------------------------------------------------
(* Properties.                                                              *)

\* A session that was started is freed in the end (container_tracer.py:55):
\* _refresh comes to its end although it stops to read the queues of the
\* tasks that still replay once one task is done. It holds when a queue has
\* room for all messages of a task.
SessionFreed == at = "init" ~> at = "end" /\ pc = "uninit"

\* The server tells the browser that the chart has ended, and frees the
\* session, only when every task has handed over its complete results: the
\* totals are what keeps it from killing the tasks that still replay
\* (trace_replay.py:158-160).
SavedWhenDone ==
    at = "saved" => \A t \in Task : shm[t] = "full" /\ proc[t] \notin Alive

\* No call of the server trips an assertion of the library.
NeverAborts == pc # "aborted"
=============================================================================
