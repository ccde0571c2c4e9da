---------------------------- MODULE ResultStream ----------------------------
(***************************************************************************)
(* What the runner library promises a client about the results of the tasks *)
(* (runner_get_interval_result and runner_get_total_result): each task is a *)
(* lossless stream of numbered interval reports that is closed by one FIN,  *)
(* and a total that is shown only when it is complete. There is no queue,   *)
(* no semaphore, no process and no pipe here.                               *)
(***************************************************************************)
EXTENDS Naturals

CONSTANT Source   \* the tasks

VARIABLES
    live,     \* tasks that have been started and not been freed
    made,     \* reports each task has produced
    seen,     \* the latest report the client has been given
    closed,   \* live tasks that will produce no report any more
    seenFin,  \* tasks whose FIN the client has been given
    final,    \* tasks whose total results are complete
    shown     \* the task whose total is being given to the client, if any

streamVars == <<live, made, seen, closed, seenFin, final, shown>>

Init ==
    /\ live = {} /\ closed = {} /\ seenFin = {} /\ final = {} /\ shown = {}
    /\ made = [t \in Source |-> 0]
    /\ seen = [t \in Source |-> 0]

Start(t) ==
    /\ t \notin live
    /\ live' = live \cup {t}
    /\ made' = [made EXCEPT ![t] = 0] /\ seen' = [seen EXCEPT ![t] = 0]
    /\ seenFin' = seenFin \ {t} /\ final' = final \ {t}
    /\ UNCHANGED <<closed, shown>>

Produce(t) ==
    /\ t \in live \ closed
    /\ made' = [made EXCEPT ![t] = @ + 1]
    /\ UNCHANGED <<live, seen, closed, seenFin, final, shown>>

Close(t) ==
    /\ t \in live \ closed
    /\ closed' = closed \cup {t}
    /\ UNCHANGED <<live, made, seen, seenFin, final, shown>>

\* The client is given the next report, never another one.
Deliver(t) ==
    /\ t \in live \ seenFin
    /\ seen[t] < made[t]
    /\ seen' = [seen EXCEPT ![t] = @ + 1]
    /\ UNCHANGED <<live, made, closed, seenFin, final, shown>>

\* FIN comes after every report, once.
DeliverFin(t) ==
    /\ t \in (live \cap closed) \ seenFin
    /\ seen[t] = made[t]
    /\ seenFin' = seenFin \cup {t}
    /\ UNCHANGED <<live, made, seen, closed, final, shown>>

\* The total is the result of the whole replay.
Complete(t) ==
    /\ t \in (live \cap closed) \ final
    /\ final' = final \cup {t}
    /\ UNCHANGED <<live, made, seen, closed, seenFin, shown>>

\* A total can be shown any number of times, whether FIN was seen or not.
Show(t) ==
    /\ shown = {} /\ t \in live \cap final
    /\ shown' = {t}
    /\ UNCHANGED <<live, made, seen, closed, seenFin, final>>

Shown ==
    /\ shown' = {}
    /\ UNCHANGED <<live, made, seen, closed, seenFin, final>>

\* The task is freed while nothing of it is being shown.
Stop(t) ==
    /\ t \in live /\ shown = {}
    /\ live' = live \ {t} /\ closed' = closed \ {t}
    /\ UNCHANGED <<made, seen, seenFin, final, shown>>

Next ==
    \/ Shown
    \/ \E t \in Source :
          \/ Start(t) \/ Produce(t) \/ Close(t) \/ Deliver(t)
          \/ DeliverFin(t) \/ Complete(t) \/ Show(t) \/ Stop(t)

Spec == Init /\ [][Next]_streamVars
=============================================================================
