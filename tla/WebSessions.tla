----------------------------- MODULE WebSessions -----------------------------
(***************************************************************************)
(* Sessions of the web server that follow each other. The browser may start *)
(* the next one as soon as it has seen chart_end (static/js/index.js), when *)
(* the driver thread of the one before has still to free the library and to *)
(* clear the container_tracer that all sessions share in the Config object. *)
(* A handler thread and driver threads interleave there. WebClient has the  *)
(* driver thread up to chart_end.                                           *)
(*                                                                          *)
(* Calls into the library do not overlap, and every browser sends the same  *)
(* options.                                                                 *)
(***************************************************************************)
EXTENDS WebClient

CONSTANT MaxSessions  \* bound on the sessions

Session == 1 .. MaxSessions

VARIABLES
    nr,       \* sessions that were asked for
    handler,  \* set_options of session nr
    stored,   \* the session whose container_tracer the Config has, or 0
    lib,      \* the session runner_init was last called for with success
    ending    \* of each session: where its driver thread is behind _refresh

sessionVars == <<nr, handler, stored, lib, ending>>
allVars == <<webVars, sessionVars>>

SessionsInit ==
    /\ WebInit
    /\ nr = 0 /\ handler = "none" /\ stored = 0 /\ lib = 0
    /\ ending = [s \in Session |-> "none"]

\* No call is in the library.
Outside == pc = "uninit" \/ Callable

\* The start button.
SetOptions ==
    /\ nr < MaxSessions /\ handler = "none" /\ at = "init"
    /\ nr' = nr + 1 /\ handler' = "create"
    /\ UNCHANGED <<webVars, stored, lib, ending>>

\* set_container_tracer makes a TraceReplay: __init__ calls runner_init.
Create ==
    /\ handler = "create"
    /\ \/ RunnerInit /\ handler' = "store" /\ lib' = nr
       \/ RunnerInitAgain /\ handler' = "refused" /\ UNCHANGED lib
    /\ UNCHANGED <<at, todo, open, nr, stored, ending>>

\* OSError: sys.exit ends the handler.
Refuse ==
    /\ handler = "refused" /\ pc = "uninit"
    /\ handler' = "none"
    /\ UNCHANGED <<webVars, nr, stored, lib, ending>>

Store ==
    /\ handler = "store"
    /\ stored' = nr /\ handler' = "start"
    /\ UNCHANGED <<webVars, nr, lib, ending>>

\* run_all_container_tracer starts the driver thread.
Start ==
    /\ handler = "start"
    /\ handler' = "none"
    /\ at' = "run" /\ todo' = {} /\ open' = Task
    /\ UNCHANGED <<vars, nr, stored, lib, ending>>

\* _refresh has emitted chart_end, or an exception has ended it, and is
\* joined.
Joined ==
    /\ at \in {"saved", "free"}
    /\ at' = "init" /\ ending' = [ending EXCEPT ![nr] = "check"]
    /\ UNCHANGED <<vars, todo, open, nr, handler, stored, lib>>

Goes(s, from, to) ==
    /\ ending[s] = from
    /\ ending' = [ending EXCEPT ![s] = to]
    /\ UNCHANGED <<at, todo, open, nr, handler, lib>>

\* if global_config.container_tracer
Check(s) ==
    /\ Goes(s, "check", IF stored = 0 THEN "ended" ELSE "free")
    /\ UNCHANGED <<vars, stored>>

\* container_tracer_free, of the tracer that is stored now. It frees what the
\* library has, which may be nothing; on None it raises an exception.
Free(s) ==
    /\ Outside
    /\ Goes(s, "free", IF stored = 0 THEN "ended" ELSE "freeing")
    /\ IF stored # 0 /\ Callable THEN RunnerFree ELSE UNCHANGED vars
    /\ UNCHANGED stored

\* container_tracer = None, when runner_free has returned.
Clear(s) ==
    /\ Outside
    /\ Goes(s, "freeing", "ended")
    /\ stored' = 0
    /\ UNCHANGED vars

SessionsNext ==
    \/ SetOptions \/ Create \/ Refuse \/ Store \/ Start \/ Joined
    \/ \E s \in Session : Check(s) \/ Free(s) \/ Clear(s)
    \/ /\ RunSession \/ AskInterval \/ SeeInterval \/ EndRound \/ AskTotal
          \/ SeeTotal \/ SaveIntervals \/ DriverStep
       /\ UNCHANGED sessionVars

SessionsSpec == SessionsInit /\ [][SessionsNext]_allVars

\* A session is not left in the library when its driver thread has ended
\* (container_tracer.py:55-57), whichever thread clears and stores in which
\* order: what is left lets the next runner_init fail.
FreedAtEnd ==
    \A s \in Session : ending[s] = "ended" /\ lib = s => ~Callable
=============================================================================
