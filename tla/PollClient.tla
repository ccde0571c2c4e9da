----------------------------- MODULE PollClient -----------------------------
(***************************************************************************)
(* The test program runner/test/tr-driver-test.c on top of the driver: one  *)
(* session, in which it asks the tasks without a FIN for one result each,   *)
(* round after round, then asks every task for its total, then frees. A     *)
(* call that returns an error fails an assertion of the test, and Unity     *)
(* goes on with tearDown.                                                   *)
(***************************************************************************)
EXTENDS TrDriver, FiniteSetsExt

VARIABLES
    at,    \* "init", "run", "poll", "asked", "total", "read", "free", "end"
    todo,  \* the tasks left in the current round, asked in key order
    open   \* the tasks whose FIN has not come: the zero bits of `flags'

pollVars == <<vars, at, todo, open>>

PollInit == Init /\ at = "init" /\ todo = {} /\ open = Task

\* setUp
InitSession ==
    /\ at = "init" /\ at' = "run"
    /\ RunnerInit
    /\ UNCHANGED <<todo, open>>

RunSession ==
    /\ at = "run" /\ pc = "ready" /\ ret = "ok"
    /\ at' = "poll" /\ todo' = Task
    /\ RunnerRun
    /\ UNCHANGED open

\* An assertion on what the last call returned fails.
Failed == ret = "error"

\* Mutant: the result of the call before is not asserted.
AskIntervalUnchecked ==
    /\ at = "poll" /\ Callable /\ todo # {}
    /\ at' = "asked"
    /\ GetInterval(Min(todo))
    /\ UNCHANGED <<todo, open>>

\* runner_get_interval_result for the next key of the round.
AskInterval ==
    /\ at = "poll" /\ pc = "idle" /\ ~Failed /\ todo # {}
    /\ at' = "asked"
    /\ GetInterval(Min(todo))
    /\ UNCHANGED <<todo, open>>

\* The log's type is looked at; FIN takes the task out of later rounds.
SeeInterval ==
    /\ at = "asked" /\ pc = "idle"
    /\ at' = "poll" /\ todo' = todo \ {cur}
    /\ open' = IF ret = "FIN" THEN open \ {cur} ELSE open
    /\ UNCHANGED vars

\* Mutants: the loop ends with the first task that is done; FLAGS_MASK has a
\* bit that no task sets.
NextRoundEarly ==
    /\ at = "poll" /\ pc = "idle" /\ ~Failed /\ todo = {}
    /\ IF open # Task THEN at' = "total" /\ todo' = Task
                      ELSE todo' = open /\ UNCHANGED at
    /\ UNCHANGED <<vars, open>>
NextRoundForever ==
    /\ at = "poll" /\ pc = "idle" /\ ~Failed /\ todo = {}
    /\ todo' = open
    /\ UNCHANGED <<vars, at, open>>

\* The end of a round: another one unless all flags are set.
NextRound ==
    /\ at = "poll" /\ pc = "idle" /\ ~Failed /\ todo = {}
    /\ IF open = {} THEN at' = "total" /\ todo' = Task
                    ELSE todo' = open /\ UNCHANGED at
    /\ UNCHANGED <<vars, open>>

\* runner_get_total_result for the next key.
AskTotal ==
    /\ at = "total" /\ todo # {}
    /\ at' = "read"
    /\ GetTotal(Min(todo))
    /\ UNCHANGED <<todo, open>>

SeeTotal ==
    /\ at = "read" /\ pc = "idle" /\ ~Failed
    /\ at' = "total" /\ todo' = todo \ {cur}
    /\ UNCHANGED <<vars, open>>

\* tearDown, at the end of the test or after a failed assertion.
TearDown ==
    /\ Callable
    /\ \/ at = "total" /\ todo = {}
       \/ at \in {"poll", "read"} /\ Failed
    /\ at' = "free"
    /\ RunnerFree
    /\ UNCHANGED <<todo, open>>

Finish ==
    /\ at = "free" /\ pc = "uninit" /\ at' = "end"
    /\ UNCHANGED <<vars, todo, open>>

\* main returns.
Ended == at = "end" /\ UNCHANGED pollVars

ClientStep ==
    \/ InitSession \/ RunSession \/ AskInterval \/ SeeInterval \/ NextRound
    \/ AskTotal \/ SeeTotal \/ TearDown \/ Finish

DriverStep == (CallStep \/ \E t \in Task : Child(t)) /\ UNCHANGED <<at, todo, open>>

PollNext == ClientStep \/ DriverStep \/ Ended

\* One thread runs the client and the library's calls; the kernel runs it and
\* every child.
PollFairness ==
    /\ WF_pollVars(ClientStep)
    /\ WF_pollVars(CallStep /\ UNCHANGED <<at, todo, open>>)
    /\ \A t \in Task : WF_pollVars(Child(t) /\ UNCHANGED <<at, todo, open>>)
    /\ \A t \in Task : WF_pollVars(Die(t) /\ UNCHANGED <<at, todo, open>>)

PollSpec == PollInit /\ [][PollNext]_pollVars /\ PollFairness

-----------------------------------------------------------------------------
(* Properties.                                                              *)

\* The test ends, whatever set-up step of runner_run fails and however full
\* the queues are: its round-robin reading leaves no child blocked for good.
TestEnds == at = "init" ~> at = "end"

\* When the test asks for totals it has received every report of every task
\* and each FIN, however its rounds and the children's sends interleave.
AllCollected ==
    at = "total" =>
        \A t \in Task : got[t] = sent[t] /\ t \in finGot /\ queue[t] = <<>>

\* No call of the test trips an assertion of the library, in particular not
\* after a set-up that failed half-way (tr-mq.c:134, tr-shm.c:247).
NeverAborts == pc # "aborted"
=============================================================================
