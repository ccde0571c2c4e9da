-------------------------- MODULE WebClient_proofs --------------------------
(***************************************************************************)
(* What holds of a session of the web server for every number of tasks and  *)
(* whatever fails: it is a client of the driver, and it says that it is     *)
(* done only when every task has handed over its results. Both also hold of *)
(* any number of sessions that overlap; that each is freed holds of a       *)
(* browser that waits.                                                      *)
(***************************************************************************)
EXTENDS WebSessions, TrDriver_proofs

\* Where the library's thread is in each part of the session. A question to
\* a task without a queue or without shared memory ends in "aborted".
Place ==
    /\ at \in {"init", "run", "poll", "asked", "total", "read", "saved",
               "free", "end"}
    /\ at = "init" => pc = "uninit"
    /\ at = "run" => pc = "ready"
    /\ at = "poll" => pc \in Setup \cup {"tell", "ready", "idle"}
    /\ at = "asked" => pc \in {"recv", "idle", "aborted"}
    /\ at = "read" => pc \in {"semwait", "copy", "sempost", "idle", "aborted"}
    /\ at \in {"total", "saved", "free"} => pc = "idle"
    /\ at = "end" => pc \in {"kill", "wait", "uninit"}

\* A FIN that was received closes the task for the session, at once or with
\* the step that looks at it.
Flags ==
    /\ todo \subseteq Task /\ open \subseteq Task
    /\ at \in {"init", "run"} \/ pc \in Setup => open = Task
    /\ at \in {"poll", "asked"} => todo \subseteq open
    /\ \A t \in open \cap finGot :
          at = "asked" /\ pc = "idle" /\ ret = "FIN" /\ t = cur

Done(t) == shm[t] = "full" /\ proc[t] \notin Alive

\* A key leaves the loop over the totals when its results were complete.
Collected ==
    /\ at \in {"total", "read", "saved"} => \A t \in Task \ todo : Done(t)
    /\ at = "read" /\ pc = "idle" /\ ret = "total" => Done(cur)
    /\ at = "saved" => todo = {}

WInv == TypeInv /\ Place /\ Flags /\ Collected

LEMMA WInvInit == WebInit => WInv
<1>1. WebInit => TypeInv
  BY TypeInvInit DEF WebInit
<1>2. WebInit => Place /\ Flags /\ Collected
  BY DEF WebInit, Init, Place, Flags, Collected, Setup
<1> QED
  BY <1>1, <1>2 DEF WInv

\* Each step of the session is a step of the driver or leaves it alone.
LEMMA WebStep == WInv /\ [WebNext]_webVars => [Next]_vars
<1> SUFFICES ASSUME WInv, [WebNext]_webVars PROVE [Next]_vars
  OBVIOUS
<1>1. CASE AskInterval
  <2>1. \E t \in Task \ finGot : GetInterval(t)
    BY <1>1 DEF WInv, Flags, AskInterval
  <2> QED
    BY <2>1 DEF Next, Call
<1>2. CASE AskTotal
  <2>1. \E t \in Task : GetTotal(t)
    BY <1>2 DEF WInv, Flags, AskTotal
  <2> QED
    BY <2>1 DEF Next, Call
<1>3. CASE InitSession \/ RunSession \/ FreeSession
  BY <1>3 DEF InitSession, RunSession, FreeSession, Next, Call
<1>4. CASE SeeInterval \/ EndRound \/ SeeTotal \/ SaveIntervals
  BY <1>4 DEF SeeInterval, EndRound, SeeTotal, SaveIntervals
<1>5. CASE DriverStep
  BY <1>5 DEF DriverStep, Next
<1>6. CASE Ended \/ UNCHANGED webVars
  BY <1>6 DEF Ended, webVars
<1> QED
  BY <1>1, <1>2, <1>3, <1>4, <1>5, <1>6 DEF WebNext, ClientStep

-----------------------------------------------------------------------------
(* The invariant                                                           *)

\* The library's steps leave the session where it is.
LEMMA PlaceDriver ==
    ASSUME WInv, CallStep, UNCHANGED <<at, todo, open>>
    PROVE  Place' /\ Flags'
<1>0. TypeOK /\ Place /\ Flags
  BY DEF WInv, TypeInv
<1>m. CallMove
  BY <1>0, CallMoves
<1>1. pc # "aborted" /\ pc \notin {"idle", "ready", "uninit"}
  BY <1>m DEF CallMove, Setup
<1> USE <1>0 DEF Place, Flags, Setup, CallMove
<1>2. CASE pc \in Setup \cup {"tell"}
  <2>1. at = "poll"
    BY <1>2, <1>1
  <2>2. /\ finGot' \subseteq finGot
        /\ pc = "tell" => pc' \notin Setup
        /\ pc' \in Setup \cup {"tell", "idle"}
    BY <1>2, <1>m
  <2> QED
    BY <2>1, <2>2, <1>2
<1>3. CASE pc = "recv"
  BY <1>1, <1>3, <1>m
<1>4. CASE pc \in {"semwait", "copy", "sempost"}
  BY <1>1, <1>4, <1>m
<1>5. CASE pc \in {"kill", "wait"}
  BY <1>1, <1>5, <1>m
<1> QED
  BY <1>2, <1>3, <1>4, <1>5, <1>m

\* Nothing but a fork undoes a task's results, and get_total returns only
\* what the child has posted.
LEMMA CollectedDriver ==
    ASSUME TypeInv, Collected, CallStep, UNCHANGED <<at, todo, open>>,
           at \in {"total", "read", "saved"} =>
              pc \in {"semwait", "copy", "sempost", "kill", "wait"}
    PROVE  Collected'
<1>0. TypeOK /\ SemInv /\ cur \in Task
  BY DEF TypeInv, TypeOK
<1>1. CASE at \notin {"total", "read", "saved"}
  BY <1>1 DEF Collected
<1>2. CASE at \in {"total", "read", "saved"}
  <2>1. SemWait \/ CopyTotal \/ SemPost \/ SkipTask \/ KillTask \/ ReapTask
    BY <1>2 DEF CallStep, RunStep, GetStep, FreeStep, Fork, SetCgroup,
       SemInit, ShmInit, MqInit, TellChild, Receive, Setup
  <2>2. /\ shm' = shm
        /\ \A t \in Task : proc'[t] \in {proc[t], "none"}
    BY <1>0, <2>1 DEF SemWait, CopyTotal, SemPost, SkipTask, KillTask,
       ReapTask, childVars, ipcVars, TypeOK
  <2>3. \A t \in Task : Done(t) => Done(t)'
    BY <2>2 DEF Done, Alive, Running
  <2>4. ASSUME pc' = "idle", ret' = "total" PROVE Done(cur)'
    <3>1. pc = "sempost" /\ cur' = cur
      BY <2>1, <2>4 DEF SemWait, CopyTotal, SemPost, Return, SkipTask,
         KillTask, ReapTask, Advance
    <3>2. Holding(cur)
      BY <3>1 DEF Holding
    <3>3. Done(cur)
      BY <1>0, <3>2 DEF SemInv, Done
    <3> QED
      BY <1>0, <2>3, <3>1, <3>3 DEF Done
  <2> QED
    BY <2>3, <2>4 DEF Collected
<1> QED
  BY <1>1, <1>2

\* A task that is done has no child that could step.
LEMMA CollectedChild ==
    ASSUME TypeInv, Collected, NEW c \in Task, Child(c),
           UNCHANGED <<at, todo, open>>
    PROVE  Collected'
<1>1. TypeOK /\ Collected /\ cur \in Task
  BY DEF TypeInv, TypeOK
<1>2. UNCHANGED <<pc, cur, ret, ids, finGot>>
  BY ChildLeavesParent
<1>3. /\ proc[c] \in Alive
      /\ \A t \in Task : t # c => proc'[t] = proc[t]
  BY <1>1, ChildKeepsExisting, TypeData
<1>4. \A t \in Task : t # c => shm'[t] = shm[t]
  BY <1>1 DEF Child, Replay, Await, WaitParent, Exec, Report, SendFin,
     WriteTotal, EndWrite, PostTotal, Die, ipcVars, TypeOK
<1>5. \A t \in Task : Done(t) => Done(t)'
  BY <1>3, <1>4 DEF Done
<1>6. Done(cur) => shm'[cur] = "full" /\ proc'[cur] \notin Alive
  BY <1>1, <1>3, <1>4 DEF Done
<1>7. at = "read" /\ pc = "idle" /\ ret = "total" => Done(cur)'
  BY <1>1, <1>2, <1>6 DEF Collected, Done
<1> QED
  BY <1>1, <1>2, <1>5, <1>7 DEF Collected

\* The session's own steps.
LEMMA WInvClient ==
    ASSUME WInv, ClientStep
    PROVE  Place' /\ Flags' /\ Collected'
<1>0. TypeOK /\ Place /\ Flags /\ Collected /\ cur \in Task
  BY DEF WInv, TypeInv, TypeOK
<1> USE <1>0 DEF Place, Flags, Collected, Done, Setup, Callable, childVars,
        ipcVars, clientVars
<1>1. CASE InitSession
  BY <1>1 DEF InitSession, RunnerInit
<1>2. CASE RunSession
  <2>1. /\ at' = "poll" /\ todo' = Task /\ open' = open /\ at = "run"
        /\ UNCHANGED finGot /\ pc' \in {"ready", "fork"}
    BY <1>2 DEF RunSession, RunnerRun
  <2> QED
    BY <2>1
<1>3. CASE AskInterval
  <2>1. /\ at = "poll" /\ at' = "asked" /\ pc' \in {"recv", "aborted"}
        /\ UNCHANGED <<finGot, todo, open>>
        /\ pc \in {"ready", "idle"}
    BY <1>3 DEF AskInterval, GetInterval
  <2> QED
    BY <2>1
<1>4. CASE SeeInterval
  <2>1. /\ at = "asked" /\ pc = "idle" /\ at' = "poll"
        /\ todo' = todo \ {cur}
        /\ open' = IF ret = "FIN" THEN open \ {cur} ELSE open
        /\ UNCHANGED <<pc, cur, ret, finGot>>
    BY <1>4 DEF SeeInterval, vars, parentVars
  <2> QED
    BY <2>1
<1>5. CASE EndRound
  <2>1. /\ at = "poll" /\ pc = "idle"
        /\ \/ at' = "poll" /\ todo' = open
           \/ at' = "total" /\ todo' = Task
        /\ UNCHANGED <<pc, cur, ret, finGot, open>>
    BY <1>5 DEF EndRound, vars, parentVars
  <2> QED
    BY <2>1
<1>6. CASE AskTotal
  <2>1. /\ at = "total" /\ at' = "read" /\ pc' \in {"semwait", "aborted"}
        /\ UNCHANGED <<proc, shm, finGot, todo, open>>
    BY <1>6 DEF AskTotal, GetTotal
  <2> QED
    BY <2>1
<1>7. CASE SeeTotal
  <2>1. /\ at = "read" /\ pc = "idle"
        /\ \/ at' = "total" /\ todo' = todo \ {cur} /\ ret = "total"
           \/ at' = "free" /\ todo' = todo
        /\ UNCHANGED <<pc, cur, ret, proc, shm, finGot, open>>
    BY <1>7 DEF SeeTotal, vars, parentVars
  <2> QED
    BY <2>1
<1>8. CASE SaveIntervals
  BY <1>8 DEF SaveIntervals, vars, parentVars
<1>9. CASE FreeSession
  BY <1>9 DEF FreeSession, RunnerFree
<1> QED
  BY <1>1, <1>2, <1>3, <1>4, <1>5, <1>6, <1>7, <1>8, <1>9 DEF ClientStep

LEMMA WInvNext == WInv /\ [WebNext]_webVars => WInv'
<1> SUFFICES ASSUME WInv, [WebNext]_webVars PROVE WInv'
  OBVIOUS
<1>1. [Next]_vars
  BY WebStep
<1>2. TypeInv'
  BY <1>1, TypeInvNext DEF WInv
<1>3. CASE CallStep /\ UNCHANGED <<at, todo, open>>
  <2>1. pc # "idle" /\ pc # "uninit" /\ pc # "aborted" /\ pc # "ready"
    BY <1>3, CallMoves DEF CallMove, Setup, WInv, TypeInv
  <2>2. Collected'
    BY <1>3, <2>1, CollectedDriver DEF WInv, Place
  <2> QED
    BY <1>2, <1>3, <2>2, PlaceDriver DEF WInv
<1>4. ASSUME NEW t \in Task, Child(t), UNCHANGED <<at, todo, open>>
      PROVE  WInv'
  <2>1. UNCHANGED <<pc, cur, ret, ids, finGot>>
    BY <1>4, ChildLeavesParent
  <2>2. Place' /\ Flags'
    BY <1>4, <2>1 DEF WInv, Place, Flags
  <2> QED
    BY <1>2, <1>4, <2>2, CollectedChild DEF WInv
<1>5. CASE ClientStep
  BY <1>2, <1>5, WInvClient DEF WInv
<1>6. CASE UNCHANGED webVars
  <2>1. Place' /\ Flags' /\ Collected'
    BY <1>6 DEF WInv, Place, Flags, Collected, Done, webVars, vars,
       parentVars, childVars, ipcVars, clientVars
  <2> QED
    BY <1>2, <2>1 DEF WInv
<1> QED
  BY <1>3, <1>4, <1>5, <1>6 DEF WebNext, DriverStep, Ended

LEMMA WebInvariant == WebSpec => []WInv
BY WInvInit, WInvNext, PTL DEF WebSpec

-----------------------------------------------------------------------------
(* The properties                                                          *)

\* A session of the web server is a client of the driver: what was proved of
\* the driver holds while it runs (web/package/trace_replay.py:131-163).
THEOREM WebUsesDriver == WebSpec => Spec
<1>1. WebInit => Init
  BY DEF WebInit
<1> QED
  BY <1>1, WebInvariant, WebStep, PTL DEF WebSpec, Spec

\* The session is reported as ended, and then freed, only when every task's
\* results are complete and its child is gone, whatever failed before
\* (trace_replay.py:158-163, tr-shm.c:240-256).
THEOREM WebSavesWhenDone == WebSpec => []SavedWhenDone
<1>1. WInv => SavedWhenDone
  BY DEF WInv, Collected, Done, SavedWhenDone
<1> QED
  BY <1>1, WebInvariant, PTL

-----------------------------------------------------------------------------
(* Sessions that overlap: a client of the driver, too.                     *)

\* Which thread of the server is in the library, and where.
Turns ==
    /\ at \in {"init", "run", "poll", "asked", "total", "read", "saved",
               "free"}
    /\ handler # "none" => at = "init"
    /\ pc = "recv" => at = "asked"
    /\ pc \in Setup \cup {"tell"} => at = "poll"

\* A FIN that was received closes its task until the library has freed the
\* task, whichever thread frees it.
Closing ==
    /\ todo \subseteq Task /\ open \subseteq Task
    /\ at = "run" => open = Task
    /\ at \in {"poll", "asked"} => todo \subseteq open
    /\ pc \in Setup \cup {"tell"} => \A t \in finGot : proc[t] = "none"
    /\ at \in {"poll", "asked"} /\ pc \notin {"kill", "wait", "uninit"} =>
          \A t \in open \cap finGot :
             \/ proc[t] = "none"
             \/ at = "asked" /\ pc = "idle" /\ ret = "FIN" /\ t = cur

SInv == TypeInv /\ CtlInv /\ Turns /\ Closing /\ Collected

LEMMA SInvInit == SessionsInit => SInv
<1>1. SessionsInit => TypeInv /\ CtlInv
  BY TypeInvInit, CtlInvInit DEF SessionsInit, WebInit
<1>2. SessionsInit => Turns /\ Closing /\ Collected
  BY DEF SessionsInit, WebInit, Init, Turns, Closing, Collected, Setup
<1> QED
  BY <1>1, <1>2 DEF SInv

\* Each step of the server's threads is a step of the driver or leaves it
\* alone. A question to a task that was freed aborts, so that it does not
\* matter what was asked.
LEMMA SessionsStep == SInv /\ [SessionsNext]_allVars => [Next]_vars
<1> SUFFICES ASSUME SInv, [SessionsNext]_allVars PROVE [Next]_vars
  OBVIOUS
<1>1. CASE AskInterval
  <2>1. PICK t \in todo : GetInterval(t)
    BY <1>1 DEF AskInterval
  <2>2. t \in Task /\ t \in open /\ at = "poll" /\ Callable
    BY <1>1, <2>1 DEF SInv, Closing, AskInterval, GetInterval
  <2>3. CASE t \notin finGot
    BY <2>1, <2>2, <2>3 DEF Next, Call
  <2>4. CASE t \in finGot
    <3>1. proc[t] = "none"
      BY <2>2, <2>4 DEF SInv, Closing, Callable
    <3>2. ids[t] = {}
      BY <2>2, <3>1 DEF SInv, CtlInv
    <3>3. GetTotal(t)
      BY <2>1, <3>2 DEF GetInterval, GetTotal
    <3> QED
      BY <2>2, <3>3 DEF Next, Call
  <2> QED
    BY <2>3, <2>4
<1>2. CASE AskTotal
  <2>1. \E t \in Task : GetTotal(t)
    BY <1>2 DEF SInv, Closing, AskTotal
  <2> QED
    BY <2>1 DEF Next, Call
<1>3. CASE RunSession \/ Create
  BY <1>3 DEF RunSession, Create, Next, Call
<1>4. CASE SeeInterval \/ EndRound \/ SeeTotal \/ SaveIntervals
  BY <1>4 DEF SeeInterval, EndRound, SeeTotal, SaveIntervals
<1>5. CASE DriverStep
  BY <1>5 DEF DriverStep, Next
<1>6. CASE SetOptions \/ Refuse \/ Store \/ Start \/ Joined
  BY <1>6 DEF SetOptions, Refuse, Store, Start, Joined, webVars
<1>7. ASSUME NEW s \in Session, Check(s) \/ Free(s) \/ Clear(s)
      PROVE  [Next]_vars
  BY <1>7 DEF Check, Free, Clear, Next, Call
<1>8. CASE UNCHANGED allVars
  BY <1>8 DEF allVars, webVars
<1> QED
  BY <1>1, <1>2, <1>3, <1>4, <1>5, <1>6, <1>7, <1>8 DEF SessionsNext

\* The library's steps, whichever thread has called it.
LEMMA TurnsDriver ==
    ASSUME SInv, CallStep, UNCHANGED <<at, todo, open, handler>>
    PROVE  Turns' /\ Closing'
<1>0. TypeOK /\ Turns /\ Closing /\ cur \in Task
  BY DEF SInv, TypeInv, TypeOK
<1>m. CallMove
  BY <1>0, CallMoves
<1>1. CASE RunStep
  <2>1. pc \in Setup \cup {"tell"} /\ pc' \in Setup \cup {"tell", "idle"}
    BY <1>1 DEF RunStep, Fork, SetCgroup, SemInit, ShmInit, MqInit,
       TellChild, RunFails, Return, Setup
  <2>2. finGot' \subseteq finGot /\ \A t \in finGot' : proc'[t] = proc[t]
    <3>1. CASE Fork
      BY <1>0, <3>1 DEF Fork, TypeOK
    <3>2. CASE SetCgroup \/ SemInit \/ ShmInit \/ MqInit \/ TellChild
      BY <3>2 DEF SetCgroup, SemInit, ShmInit, MqInit, TellChild, childVars,
         clientVars
    <3>3. ASSUME NEW f, RunFails(f) PROVE UNCHANGED <<proc, finGot>>
      BY <3>3 DEF RunFails, childVars, clientVars
    <3> QED
      BY <1>1, <3>1, <3>2, <3>3 DEF RunStep
  <2>3. at = "poll" /\ \A t \in finGot' : proc'[t] = "none"
    BY <1>0, <2>1, <2>2 DEF Turns, Closing
  <2>4. Turns'
    BY <1>0, <2>1, <2>3 DEF Turns, Setup
  <2> QED
    BY <1>0, <2>3, <2>4 DEF Closing
<1>2. CASE GetStep
  <2>1. UNCHANGED <<cur, proc>> /\ pc' \in {"idle", "copy", "sempost"}
    BY <1>2 DEF GetStep, Receive, SemWait, CopyTotal, SemPost, Return,
       childVars
  <2>2. pc \in {"recv", "semwait", "copy", "sempost"}
    BY <1>2 DEF GetStep, Receive, SemWait, CopyTotal, SemPost
  <2>3. Turns'
    BY <1>0, <2>1 DEF Turns, Setup
  <2>4. CASE pc = "recv"
    <3>1. /\ at = "asked" /\ pc' = "idle"
          /\ \/ ret' = "FIN" /\ finGot' = finGot \cup {cur}
             \/ finGot' = finGot
      BY <1>0, <1>m, <2>4 DEF Turns, CallMove, Setup
    <3>2. \A t \in open \cap finGot : proc[t] = "none"
      BY <1>0, <2>4, <3>1 DEF Closing
    <3> QED
      BY <1>0, <2>1, <2>3, <3>1, <3>2 DEF Closing, Setup
  <2>5. CASE pc # "recv"
    <3>1. finGot' = finGot
      BY <1>m, <2>2, <2>5 DEF CallMove, Setup
    <3>2. pc # "idle" /\ pc \notin {"kill", "wait", "uninit"}
      BY <2>2
    <3> QED
      BY <1>0, <2>1, <2>3, <3>1, <3>2 DEF Closing, Setup
  <2> QED
    BY <2>3, <2>4, <2>5
<1>3. CASE FreeStep
  <2>1. pc' \in {"kill", "wait", "uninit"} /\ UNCHANGED finGot
    BY <1>3 DEF FreeStep, SkipTask, KillTask, ReapTask, Advance, clientVars
  <2> QED
    BY <1>0, <2>1 DEF Turns, Closing, Setup
<1> QED
  BY <1>1, <1>2, <1>3 DEF CallStep

\* A child that steps is none of a task that was freed.
LEMMA TurnsChild ==
    ASSUME SInv, NEW c \in Task, Child(c),
           UNCHANGED <<at, todo, open, handler>>
    PROVE  Turns' /\ Closing'
<1>1. UNCHANGED <<pc, cur, ret, finGot>>
  BY ChildLeavesParent
<1>2. TypeOK /\ Turns /\ Closing
  BY DEF SInv, TypeInv
<1>3. \A t \in Task : proc[t] = "none" => proc'[t] = "none"
  BY <1>2, ChildKeepsExisting, TypeData DEF Alive, Running
<1>4. finGot \subseteq Task
  BY <1>2 DEF TypeOK
<1>5. Turns'
  BY <1>1, <1>2 DEF Turns
<1> QED
  BY <1>1, <1>2, <1>3, <1>4, <1>5 DEF Closing

\* The driver thread's own steps.
LEMMA TurnsRefresh ==
    ASSUME SInv, UNCHANGED handler,
           \/ RunSession \/ AskInterval \/ SeeInterval \/ EndRound
           \/ AskTotal \/ SeeTotal \/ SaveIntervals
    PROVE  Turns' /\ Closing' /\ Collected'
<1>0. TypeOK /\ CtlInv /\ Turns /\ Closing /\ Collected /\ cur \in Task
  BY DEF SInv, TypeInv, TypeOK
<1> USE <1>0 DEF Turns, Closing, Collected, Done, Setup, Callable, childVars,
        ipcVars, clientVars
<1>1. CASE RunSession
  <2>1. /\ at' = "poll" /\ todo' = Task /\ open' = open /\ open = Task
        /\ UNCHANGED <<finGot, proc>> /\ pc = "ready"
        /\ pc' \in {"ready", "fork"}
    BY <1>1 DEF RunSession, RunnerRun
  <2>2. \A t \in finGot : proc[t] = "none"
    BY <2>1 DEF CtlInv, TypeOK
  <2>3. handler = "none"
    BY <1>1 DEF RunSession
  <2>4. Turns' /\ Collected'
    BY <2>1, <2>3
  <2>5. Closing'
    <3>1. \A t \in finGot' : proc'[t] = "none"
      BY <2>1, <2>2
    <3>2. todo' = Task /\ open' = Task /\ at' = "poll"
      BY <2>1
    <3> QED
      BY <3>1, <3>2
  <2> QED
    BY <2>4, <2>5
<1>2. CASE AskInterval
  <2>1. /\ at = "poll" /\ at' = "asked" /\ pc' \in {"recv", "aborted"}
        /\ UNCHANGED <<finGot, proc, todo, open>>
        /\ pc \in {"ready", "idle"}
    BY <1>2 DEF AskInterval, GetInterval
  <2> QED
    BY <2>1
<1>3. CASE SeeInterval
  <2>1. /\ at = "asked" /\ pc = "idle" /\ at' = "poll"
        /\ todo' = todo \ {cur}
        /\ open' = IF ret = "FIN" THEN open \ {cur} ELSE open
        /\ UNCHANGED <<pc, cur, ret, proc, finGot>>
    BY <1>3 DEF SeeInterval, vars, parentVars
  <2> QED
    BY <2>1
<1>4. CASE EndRound
  <2>1. /\ at = "poll" /\ pc = "idle"
        /\ \/ at' = "poll" /\ todo' = open
           \/ at' = "total" /\ todo' = Task
        /\ UNCHANGED <<pc, cur, ret, proc, finGot, open>>
    BY <1>4 DEF EndRound, vars, parentVars
  <2> QED
    BY <2>1
<1>5. CASE AskTotal
  <2>1. /\ at = "total" /\ at' = "read" /\ pc' \in {"semwait", "aborted"}
        /\ UNCHANGED <<proc, shm, finGot, todo, open>>
    BY <1>5 DEF AskTotal, GetTotal
  <2> QED
    BY <2>1
<1>6. CASE SeeTotal
  <2>1. /\ at = "read" /\ pc = "idle"
        /\ \/ at' = "total" /\ todo' = todo \ {cur} /\ ret = "total"
           \/ at' = "free" /\ todo' = todo
        /\ UNCHANGED <<pc, cur, ret, proc, shm, finGot, open>>
    BY <1>6 DEF SeeTotal, vars, parentVars
  <2> QED
    BY <2>1
<1>7. CASE SaveIntervals
  BY <1>7 DEF SaveIntervals, vars, parentVars
<1> QED
  BY <1>1, <1>2, <1>3, <1>4, <1>5, <1>6, <1>7

\* The handler of set_options, and the driver threads at their end.
LEMMA TurnsServer ==
    ASSUME SInv,
           \/ SetOptions \/ Create \/ Refuse \/ Store \/ Start \/ Joined
           \/ \E s \in Session : Check(s) \/ Free(s) \/ Clear(s)
    PROVE  Turns' /\ Closing' /\ Collected'
<1>0. TypeOK /\ Turns /\ Closing /\ Collected
  BY DEF SInv, TypeInv
<1> USE <1>0 DEF Turns, Closing, Collected, Done, Setup, webVars, vars,
        parentVars, childVars, ipcVars, clientVars
<1>1. CASE SetOptions \/ Refuse \/ Store
  BY <1>1 DEF SetOptions, Refuse, Store
<1>2. CASE Create
  <2>1. /\ at = "init" /\ at' = "init" /\ UNCHANGED <<todo, open>>
        /\ UNCHANGED <<finGot, proc, shm>> /\ pc' \in {"ready", "kill"}
    BY <1>2 DEF Create, RunnerInit, RunnerInitAgain
  <2> QED
    BY <2>1
<1>3. CASE Start
  <2>1. /\ at = "init" /\ at' = "run" /\ todo' = {} /\ open' = Task
        /\ UNCHANGED <<pc, finGot, proc>> /\ handler' = "none"
    BY <1>3 DEF Start
  <2> QED
    BY <2>1
<1>4. CASE Joined
  BY <1>4 DEF Joined
<1>5. ASSUME NEW s \in Session, Check(s) \/ Free(s) \/ Clear(s)
      PROVE  Turns' /\ Closing' /\ Collected'
  <2>1. /\ UNCHANGED <<at, todo, open, handler, finGot, proc, shm>>
        /\ \/ pc' = "kill"
           \/ UNCHANGED <<pc, cur, ret>>
    BY <1>5 DEF Check, Free, Clear, Goes, RunnerFree
  <2> QED
    BY <2>1
<1> QED
  BY <1>1, <1>2, <1>3, <1>4, <1>5

LEMMA SInvNext == SInv /\ [SessionsNext]_allVars => SInv'
<1> SUFFICES ASSUME SInv, [SessionsNext]_allVars PROVE SInv'
  OBVIOUS
<1>1. [Next]_vars
  BY SessionsStep
<1>2. TypeInv' /\ CtlInv'
  BY <1>1, TypeInvNext, CtlInvNext DEF SInv
<1>3. CASE DriverStep /\ UNCHANGED sessionVars
  <2>1. UNCHANGED <<at, todo, open, handler>>
    BY <1>3 DEF DriverStep, sessionVars
  <2>2. ASSUME CallStep PROVE Turns' /\ Closing' /\ Collected'
    <3>1. at \in {"total", "read", "saved"} =>
             pc \in {"semwait", "copy", "sempost", "kill", "wait"}
      BY <2>2, CallMoves DEF CallMove, Setup, SInv, TypeInv, Turns
    <3>2. Collected'
      BY <2>1, <2>2, <3>1, CollectedDriver DEF SInv
    <3> QED
      BY <2>1, <2>2, <3>2, TurnsDriver
  <2>3. ASSUME NEW t \in Task, Child(t)
        PROVE  Turns' /\ Closing' /\ Collected'
    <3>1. Collected'
      BY <2>1, <2>3, CollectedChild DEF SInv
    <3> QED
      BY <2>1, <2>3, <3>1, TurnsChild
  <2> QED
    BY <1>2, <1>3, <2>2, <2>3 DEF SInv, DriverStep
<1>4. CASE /\ \/ RunSession \/ AskInterval \/ SeeInterval \/ EndRound
              \/ AskTotal \/ SeeTotal \/ SaveIntervals
           /\ UNCHANGED sessionVars
  <2>1. handler' = handler
    BY <1>4 DEF sessionVars
  <2> QED
    BY <1>2, <1>4, <2>1, TurnsRefresh DEF SInv
<1>5. CASE \/ SetOptions \/ Create \/ Refuse \/ Store \/ Start \/ Joined
           \/ \E s \in Session : Check(s) \/ Free(s) \/ Clear(s)
  BY <1>2, <1>5, TurnsServer DEF SInv
<1>6. CASE UNCHANGED allVars
  <2>1. Turns' /\ Closing' /\ Collected'
    BY <1>6 DEF SInv, Turns, Closing, Collected, Done, allVars, sessionVars,
       webVars, vars, parentVars, childVars, clientVars, ipcVars
  <2> QED
    BY <1>2, <2>1 DEF SInv
<1> QED
  BY <1>3, <1>4, <1>5, <1>6 DEF SessionsNext

LEMMA SessionsInvariant == SessionsSpec => []SInv
BY SInvInit, SInvNext, PTL DEF SessionsSpec

\* However many sessions follow each other, and however their threads
\* overlap, the server is a client of the driver: what was proved of the
\* driver holds of each of them, too.
THEOREM SessionsUseDriver == SessionsSpec => Spec
<1>1. SessionsInit => Init
  BY DEF SessionsInit, WebInit
<1> QED
  BY <1>1, SessionsInvariant, SessionsStep, PTL DEF SessionsSpec, Spec

\* A session that another one's driver thread has freed meanwhile is not
\* reported as ended before its own results were complete, either
\* (trace_replay.py:158-163).
THEOREM SessionsSaveWhenDone == SessionsSpec => []SavedWhenDone
<1>1. SInv => SavedWhenDone
  BY DEF SInv, Collected, Done, SavedWhenDone
<1> QED
  BY <1>1, SessionsInvariant, PTL

-----------------------------------------------------------------------------
(* Sessions that do not overlap: the browser asks for the next one when the *)
(* driver thread of the one before has come to its end. Nothing in the code *)
(* makes it wait for that.                                                  *)

Waits == nr' # nr => \A s \in Session : ending[s] \in {"none", "ended"}

PatientSpec == SessionsInit /\ [][SessionsNext /\ Waits]_allVars

\* The session that was asked for last: at any time one thread works on it,
\* the handler, the thread of _refresh, or the rest of the driver thread.
Current ==
    /\ handler # "none" \/ at # "init" => ending[nr] = "none"
    /\ handler = "none" /\ at = "init" => ending[nr] # "none"
    /\ at # "init" \/ handler = "start" => stored = nr
    /\ ending[nr] \in {"check", "free"} => stored = nr
    /\ ending[nr] = "freeing" => pc \in {"kill", "wait", "uninit"}
    /\ ending[nr] = "ended" => pc = "uninit"

Ending == {"none", "check", "free", "freeing", "ended"}

\* The library has the current session, if it has one at all.
InTurn ==
    /\ nr \in Nat /\ nr <= MaxSessions /\ lib \in Nat /\ lib <= nr
    /\ ending \in [Session -> Ending]
    /\ handler \in {"none", "create", "store", "start"}
    /\ handler # "none" => at = "init"
    /\ nr = 0 => pc = "uninit" /\ handler = "none" /\ at = "init"
    /\ nr # 0 => Current
    /\ lib # nr => pc = "uninit"
    /\ handler = "create" => lib # nr
    /\ \A s \in Session : /\ s < nr => ending[s] = "ended"
                          /\ s > nr => ending[s] = "none"

\* A step that leaves the server's variables alone and does not open the
\* library keeps to the turn.
LEMMA InTurnKept ==
    ASSUME InTurn, UNCHANGED sessionVars, pc # "uninit",
           at' = at \/ (at # "init" /\ at' # "init"),
           pc \in {"kill", "wait"} => pc' \in {"kill", "wait", "uninit"}
    PROVE  InTurn'
<1>1. nr # 0 /\ Current /\ lib = nr
  BY DEF InTurn
<1>2. UNCHANGED <<nr, handler, stored, lib, ending>>
  BY DEF sessionVars
<1>3. Current'
  BY <1>1, <1>2 DEF Current
<1> QED
  BY <1>1, <1>2, <1>3 DEF InTurn

\* The steps of a thread that is in the library or asks it.
LEMMA InTurnDriver ==
    ASSUME SInv, InTurn, UNCHANGED sessionVars,
           \/ RunSession \/ AskInterval \/ SeeInterval \/ EndRound
           \/ AskTotal \/ SeeTotal \/ SaveIntervals
           \/ CallStep /\ UNCHANGED <<at, todo, open>>
    PROVE  InTurn'
<1>1. CASE CallStep /\ UNCHANGED <<at, todo, open>>
  <2>1. CallMove
    BY <1>1, CallMoves DEF SInv, TypeInv
  <2>2. /\ pc # "uninit"
        /\ pc \in {"kill", "wait"} => pc' \in {"kill", "wait", "uninit"}
    BY <2>1 DEF CallMove, Setup
  <2> QED
    BY <1>1, <2>2, InTurnKept
<1>2. CASE ~(CallStep /\ UNCHANGED <<at, todo, open>>)
  <2>1. /\ at # "init" /\ at' # "init"
        /\ pc \in {"ready", "idle"} \/ UNCHANGED pc
    BY <1>2 DEF RunSession, RunnerRun, AskInterval, GetInterval,
       SeeInterval, EndRound, AskTotal, GetTotal, SeeTotal, SaveIntervals,
       Callable, vars, parentVars
  <2>2. CASE pc # "uninit"
    BY <2>1, <2>2, InTurnKept
  <2>3. CASE pc = "uninit"
    <3>1. pc' = "uninit"
      BY <2>1, <2>3
    <3>2. UNCHANGED <<nr, handler, stored, lib, ending>>
      BY DEF sessionVars
    <3>3. nr # 0 /\ Current
      BY <2>1 DEF InTurn
    <3>4. Current'
      BY <2>1, <2>3, <3>1, <3>2, <3>3 DEF Current
    <3> QED
      BY <2>1, <3>1, <3>2, <3>3, <3>4 DEF InTurn
  <2> QED
    BY <2>2, <2>3
<1> QED
  BY <1>1, <1>2

\* The handler of set_options.
LEMMA InTurnHandler ==
    ASSUME MaxSessions \in Nat, InTurn, Waits,
           SetOptions \/ Create \/ Refuse \/ Store \/ Start
    PROVE  InTurn'
<1>0. /\ nr \in Nat /\ nr <= MaxSessions
      /\ nr # 0 => nr \in Session /\ Current
  BY DEF InTurn, Session
<1> USE DEF InTurn, Current
<1>1. CASE SetOptions
  <2>1. /\ nr < MaxSessions /\ handler = "none" /\ at = "init"
        /\ nr' = nr + 1 /\ handler' = "create"
        /\ UNCHANGED <<pc, at, stored, lib, ending>>
    BY <1>1 DEF SetOptions, webVars, vars, parentVars
  <2>2. /\ nr' \in Session /\ nr' \in Nat /\ nr' <= MaxSessions /\ nr' # 0
        /\ nr' > nr /\ \A s \in Session : s < nr' <=> s < nr \/ s = nr
    BY <1>0, <2>1 DEF Session
  <2>3. nr # 0 => ending[nr] = "ended" /\ pc = "uninit"
    BY <1>0, <2>1, <2>2 DEF Waits
  <2>4. pc = "uninit" /\ ending[nr'] = "none"
    BY <2>2, <2>3
  <2>5. Current'
    BY <2>1, <2>4
  <2>6. \A s \in Session : /\ s < nr' => ending[s] = "ended"
                           /\ s > nr' => ending[s] = "none"
    <3>1. \A s \in Session : s # 0 /\ (s > nr' => s > nr)
      BY <1>0, <2>1 DEF Session
    <3>2. nr \in Session => ending[nr] = "ended"
      BY <2>3, <3>1
    <3> QED
      BY <2>2, <3>1, <3>2
  <2>7. lib' <= nr' /\ lib' # nr'
    BY <1>0, <2>1
  <2> QED
    BY <2>1, <2>2, <2>4, <2>5, <2>6, <2>7
<1>2. CASE Create
  <2>1. /\ handler = "create" /\ lib # nr /\ pc = "uninit" /\ at = "init"
        /\ nr # 0 /\ Current
    BY <1>2 DEF Create
  <2>2. /\ pc' = "ready" /\ handler' = "store" /\ lib' = nr
        /\ UNCHANGED <<at, nr, stored, ending>>
    BY <1>2, <2>1 DEF Create, RunnerInit, RunnerInitAgain, Callable
  <2>3. Current'
    BY <2>1, <2>2
  <2> QED
    BY <1>0, <2>1, <2>2, <2>3
<1>3. CASE Refuse
  BY <1>3 DEF Refuse
<1>4. CASE Store
  <2>1. /\ handler = "store" /\ handler' = "start" /\ stored' = nr
        /\ UNCHANGED <<pc, at, nr, lib, ending>> /\ nr # 0 /\ Current
    BY <1>4 DEF Store, webVars, vars, parentVars
  <2>2. Current'
    BY <2>1
  <2> QED
    BY <2>1, <2>2
<1>5. CASE Start
  <2>1. /\ handler = "start" /\ handler' = "none" /\ at' = "run"
        /\ UNCHANGED <<pc, nr, stored, lib, ending>> /\ nr # 0 /\ Current
    BY <1>5 DEF Start, vars, parentVars
  <2>2. Current'
    BY <2>1
  <2> QED
    BY <2>1, <2>2
<1> QED
  BY <1>1, <1>2, <1>3, <1>4, <1>5

\* The driver thread from chart_end to its end.
LEMMA InTurnEnding ==
    ASSUME MaxSessions \in Nat, InTurn,
           Joined \/ \E s \in Session : Check(s) \/ Free(s) \/ Clear(s)
    PROVE  InTurn'
<1>0. /\ nr \in Nat /\ nr <= MaxSessions
      /\ nr # 0 => nr \in Session /\ Current
  BY DEF InTurn, Session
<1> USE DEF InTurn, Current
<1>1. CASE Joined
  <2>1. /\ at \in {"saved", "free"} /\ at' = "init" /\ nr # 0 /\ Current
        /\ ending' = [ending EXCEPT ![nr] = "check"]
        /\ UNCHANGED <<pc, nr, handler, stored, lib>>
    BY <1>1 DEF Joined, vars, parentVars
  <2>2. /\ ending'[nr] = "check" /\ ending' \in [Session -> Ending]
        /\ \A s \in Session : s # nr => ending'[s] = ending[s]
    BY <1>0, <2>1 DEF Ending
  <2>3. Current'
    BY <2>1, <2>2
  <2>4. \A s \in Session : /\ s < nr => ending'[s] = "ended"
                           /\ s > nr => ending'[s] = "none"
    <3>1. \A s \in Session : s < nr \/ s > nr => s # nr
      BY <1>0 DEF Session
    <3> QED
      BY <2>2, <3>1
  <2> QED
    BY <2>1, <2>2, <2>3, <2>4
<1>2. ASSUME NEW s \in Session, Check(s) \/ Free(s) \/ Clear(s)
      PROVE  InTurn'
  <2>1. ending[s] \in {"check", "free", "freeing"}
    BY <1>2 DEF Check, Free, Clear, Goes
  <2>2. s = nr /\ nr # 0
    <3>1. s \in Nat /\ s # 0
      BY DEF Session
    <3>2. ~(s < nr) /\ ~(s > nr)
      BY <2>1
    <3> QED
      BY <1>0, <3>1, <3>2
  <2>3. Current /\ at = "init" /\ handler = "none"
    BY <1>0, <2>1, <2>2
  <2>4. UNCHANGED <<at, nr, handler, lib>>
    BY <1>2 DEF Check, Free, Clear, Goes
  <2>5. \/ /\ ending[nr] = "check" /\ stored = nr /\ stored' = stored
           /\ ending' = [ending EXCEPT ![nr] = "free"] /\ pc' = pc
        \/ /\ ending[nr] = "free" /\ stored = nr /\ stored' = stored
           /\ ending' = [ending EXCEPT ![nr] = "freeing"]
           /\ \/ pc # "uninit" /\ pc' = "kill"
              \/ pc = "uninit" /\ pc' = pc
        \/ /\ ending[nr] = "freeing" /\ pc = "uninit" /\ pc' = pc
           /\ ending' = [ending EXCEPT ![nr] = "ended"]
    <3>1. CASE Check(s)
      BY <2>2, <2>3, <3>1 DEF Check, Goes, vars, parentVars
    <3>2. CASE Free(s)
      BY <2>2, <2>3, <3>2 DEF Free, Goes, Outside, Callable, RunnerFree,
         vars, parentVars
    <3>3. CASE Clear(s)
      BY <2>2, <2>3, <3>3 DEF Clear, Goes, Outside, Callable, vars,
         parentVars
    <3> QED
      BY <1>2, <3>1, <3>2, <3>3
  <2>6. /\ ending'[nr] \in {"free", "freeing", "ended"}
        /\ ending' \in [Session -> Ending]
        /\ \A r \in Session : r # nr => ending'[r] = ending[r]
    BY <1>0, <2>2, <2>5 DEF Ending
  <2>7. Current'
    BY <1>0, <2>2, <2>3, <2>4, <2>5
  <2>8. \A r \in Session : /\ r < nr => ending'[r] = "ended"
                           /\ r > nr => ending'[r] = "none"
    <3>1. \A r \in Session : r < nr \/ r > nr => r # nr
      BY <1>0 DEF Session
    <3> QED
      BY <2>6, <3>1
  <2>9. lib # nr => pc' = "uninit"
    BY <2>5
  <2> QED
    BY <2>2, <2>3, <2>4, <2>6, <2>7, <2>8, <2>9
<1> QED
  BY <1>1, <1>2

LEMMA InTurnNext ==
    ASSUME MaxSessions \in Nat
    PROVE  SInv /\ InTurn /\ [SessionsNext /\ Waits]_allVars => InTurn'
<1> SUFFICES ASSUME SInv, InTurn, [SessionsNext /\ Waits]_allVars
             PROVE  InTurn'
  OBVIOUS
<1>1. CASE SetOptions \/ Create \/ Refuse \/ Store \/ Start
  <2>1. Waits \/ UNCHANGED allVars
    OBVIOUS
  <2>2. UNCHANGED allVars => Waits
    BY DEF Waits, allVars, sessionVars
  <2> QED
    BY <1>1, <2>1, <2>2, InTurnHandler
<1>2. CASE Joined \/ \E s \in Session : Check(s) \/ Free(s) \/ Clear(s)
  BY <1>2, InTurnEnding
<1>3. CASE /\ \/ RunSession \/ AskInterval \/ SeeInterval \/ EndRound
              \/ AskTotal \/ SeeTotal \/ SaveIntervals
           /\ UNCHANGED sessionVars
  BY <1>3, InTurnDriver
<1>4. CASE DriverStep /\ UNCHANGED sessionVars
  <2>1. CASE CallStep
    BY <1>4, <2>1, InTurnDriver DEF DriverStep
  <2>2. ASSUME NEW t \in Task, Child(t) PROVE InTurn'
    <3>1. UNCHANGED <<pc, at, nr, handler, stored, lib, ending>>
      BY <1>4, <2>2, ChildLeavesParent DEF DriverStep, sessionVars
    <3> QED
      BY <3>1 DEF InTurn, Current
  <2> QED
    BY <1>4, <2>1, <2>2 DEF DriverStep
<1>5. CASE UNCHANGED allVars
  BY <1>5 DEF allVars, sessionVars, webVars, vars, parentVars, InTurn,
     Current
<1> QED
  BY <1>1, <1>2, <1>3, <1>4, <1>5 DEF SessionsNext

\* When the next session waits for the end of the driver thread, each one is
\* freed by it (container_tracer.py:55-57), whatever failed in it: it is only
\* the overlap of two sessions that leaves one in the library.
THEOREM PatientSessionsAreFreed ==
    ASSUME MaxSessions \in Nat
    PROVE  PatientSpec => []FreedAtEnd
<1>1. SessionsInit => InTurn
  BY DEF SessionsInit, WebInit, Init, InTurn, Ending
<1>2. [SessionsNext /\ Waits]_allVars => [SessionsNext]_allVars
  OBVIOUS
<1>3. SInv /\ InTurn /\ [SessionsNext /\ Waits]_allVars => (SInv /\ InTurn)'
  BY <1>2, SInvNext, InTurnNext
<1>4. InTurn => FreedAtEnd
  <2> SUFFICES ASSUME InTurn, NEW s \in Session, ending[s] = "ended", lib = s
               PROVE  ~Callable
    BY DEF FreedAtEnd
  <2>1. pc = "uninit"
    BY DEF InTurn, Current, Session
  <2> QED
    BY <2>1 DEF Callable
<1> QED
  BY <1>1, <1>3, <1>4, SInvInit, PTL DEF PatientSpec
=============================================================================
