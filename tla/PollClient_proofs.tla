------------------------- MODULE PollClient_proofs -------------------------
(***************************************************************************)
(* What holds of the test program for every number of tasks: it is a client *)
(* of the driver, so that all that was proved of the driver holds with it;  *)
(* it trips no assertion of the library; and it collects every result.      *)
(***************************************************************************)
EXTENDS PollClient, TrDriver_proofs, WellFoundedInduction

AllSet == \A t \in Task : ids[t] = Ipc

\* Where the library's thread is in each part of the test, and when the
\* parent has every identifier.
Place ==
    /\ at \in {"init", "run", "poll", "asked", "total", "read", "free", "end"}
    /\ at = "init" => pc = "uninit"
    /\ at = "run" => pc = "ready"
    /\ at = "poll" =>
          /\ pc \in Setup \cup {"tell", "ready", "idle"}
          /\ pc = "ready" => ret = "error"
          /\ pc = "tell" \/ (pc = "idle" /\ ret # "error") => AllSet
    /\ at = "asked" => pc \in {"recv", "idle"} /\ AllSet
    /\ at = "total" => pc = "idle" /\ AllSet
    /\ at = "read" => pc \in {"semwait", "copy", "sempost", "idle"} /\ AllSet
    /\ at = "free" => pc \in {"kill", "wait", "uninit"}
    /\ at = "end" => pc = "uninit"

\* The set-up loop has the identifiers of the tasks behind it.
Remembered ==
    /\ pc \in Setup => \A u \in Task : u < cur => ids[u] = Ipc
    /\ pc = "mq" => {"sem", "shm"} \subseteq ids[cur]

\* A FIN that was received closes the task for the test, at once or with the
\* step that looks at it.
Flags ==
    /\ todo \subseteq Task /\ open \subseteq Task
    /\ at \in {"init", "run"} \/ pc \in Setup => open = Task
    /\ at \in {"poll", "asked"} => todo \subseteq open
    /\ at \in {"total", "read"} => open = {}
    /\ \A t \in open \cap finGot :
          at = "asked" /\ pc = "idle" /\ ret = "FIN" /\ t = cur
    /\ at = "asked" /\ pc = "idle" /\ ret = "FIN" => cur \in finGot
    /\ Task \ open \subseteq finGot

PInv == TypeInv /\ Place /\ Remembered /\ Flags

-----------------------------------------------------------------------------
(* The client's calls are calls of the driver                              *)

LEMMA MinOfNat ==
    ASSUME NEW S, S \subseteq Nat, S # {}
    PROVE  Min(S) \in S
<1> DEFINE R == OpToRel(<, Nat)
<1>1. IsWellFoundedOn(R, Nat)
  BY NatLessThanWellFounded
<1>2. R = {ss \in Nat \X Nat : ss[1] < ss[2]}
  BY DEF OpToRel
<1> HIDE DEF R
<1>3. PICK x \in S : \A y \in S : ~(<<y, x>> \in R)
  BY <1>1, WFMin
<1>4. ASSUME NEW y \in S PROVE x <= y
  <2>1. x \in Nat /\ y \in Nat
    OBVIOUS
  <2>2. <<y, x>> \in Nat \X Nat /\ <<y, x>>[1] = y /\ <<y, x>>[2] = x
    BY <2>1
  <2>3. ~(y < x)
    BY <1>2, <1>3, <2>2
  <2> QED
    BY <2>1, <2>3
<1> QED
  BY <1>4 DEF Min

LEMMA MinTodo == ASSUME Flags, todo # {} PROVE Min(todo) \in todo
<1>1. todo \subseteq Nat
  BY DriverAssumption DEF Flags, Task
<1> QED
  BY <1>1, MinOfNat

\* Each step of the test is a step of the driver or leaves it alone: it asks
\* no task for an interval after its FIN.
LEMMA PollStep == PInv /\ [PollNext]_pollVars => [Next]_vars
<1> SUFFICES ASSUME PInv, [PollNext]_pollVars PROVE [Next]_vars
  OBVIOUS
<1>1. CASE AskInterval
  <2>1. Min(todo) \in todo
    BY <1>1, MinTodo DEF PInv, AskInterval
  <2>2. Min(todo) \in Task \ finGot
    BY <1>1, <2>1 DEF PInv, Flags, AskInterval
  <2>3. GetInterval(Min(todo))
    BY <1>1 DEF AskInterval
  <2>4. \E t \in Task \ finGot : GetInterval(t)
    BY <2>2, <2>3
  <2> QED
    BY <2>4 DEF Next, Call
<1>2. CASE AskTotal
  <2>1. Min(todo) \in Task
    BY <1>2, MinTodo DEF PInv, Flags, AskTotal
  <2>2. \E t \in Task : GetTotal(t)
    BY <1>2, <2>1 DEF AskTotal
  <2> QED
    BY <2>2 DEF Next, Call
<1>3. CASE InitSession \/ RunSession \/ TearDown
  BY <1>3 DEF InitSession, RunSession, TearDown, Next, Call
<1>4. CASE SeeInterval \/ NextRound \/ SeeTotal \/ Finish
  BY <1>4 DEF SeeInterval, NextRound, SeeTotal, Finish
<1>5. CASE DriverStep
  BY <1>5 DEF DriverStep, Next
<1>6. CASE Ended \/ UNCHANGED pollVars
  BY <1>6 DEF Ended, pollVars
<1> QED
  BY <1>1, <1>2, <1>3, <1>4, <1>5, <1>6 DEF PollNext, ClientStep

-----------------------------------------------------------------------------
(* The invariant                                                           *)

LEMMA RememberedNext ==
    ASSUME TypeOK, Remembered, [Next]_vars
    PROVE  /\ Remembered'
           /\ pc # "tell" /\ pc' = "tell" => AllSet'
<1>0. /\ NTasks \in Nat /\ cur \in Nat /\ ids \in [Task -> SUBSET Ipc]
      /\ cur \in Task /\ \A u \in Task : u \in Nat /\ 1 <= u /\ u <= NTasks
  BY DriverAssumption DEF TypeOK, Task
<1> USE <1>0 DEF Remembered, Setup, parentVars, childVars, ipcVars
<1>1. CASE Call
  BY <1>1 DEF Call, RunnerInit, RunnerInitAgain, RunnerRun, RunnerFree,
     GetInterval, GetTotal, Callable
<1>2. CASE Fork \/ SetCgroup
  BY <1>2 DEF Fork, SetCgroup
<1>3. CASE SemInit \/ ShmInit
  BY <1>3 DEF SemInit, ShmInit, Ipc
<1>4. CASE MqInit
  <2>1. ids'[cur] = Ipc /\ \A u \in Task : u # cur => ids'[u] = ids[u]
    BY <1>4 DEF MqInit, Ipc
  <2>2. \A u \in Task : u <= cur => ids'[u] = Ipc
    BY <1>4, <2>1 DEF MqInit
  <2>3. CASE cur < NTasks
    <3>1. pc' = "fork" /\ cur' = cur + 1
      BY <1>4, <2>3 DEF MqInit
    <3>2. \A u \in Task : u < cur' => u <= cur
      BY <3>1
    <3> QED
      BY <2>2, <3>1, <3>2
  <2>4. CASE ~(cur < NTasks)
    <3>1. pc' = "tell" /\ \A u \in Task : u <= cur
      BY <1>4, <2>4 DEF MqInit
    <3> QED
      BY <2>2, <3>1 DEF AllSet
  <2> QED
    BY <2>3, <2>4
<1>5. CASE TellChild
  BY <1>5 DEF TellChild, Return
<1>6. ASSUME NEW f, RunFails(f) PROVE pc' = "idle"
  BY <1>6 DEF RunFails, Return
<1>7. CASE GetStep
  BY <1>7 DEF GetStep, Receive, SemWait, CopyTotal, SemPost, Return
<1>8. CASE FreeStep
  BY <1>8 DEF FreeStep, SkipTask, KillTask, ReapTask, Advance
<1>9. ASSUME NEW t \in Task, Child(t)
      PROVE  Remembered' /\ (pc # "tell" /\ pc' = "tell" => AllSet')
  BY <1>9, ChildLeavesParent
<1>10. CASE UNCHANGED vars
  BY <1>10 DEF vars
<1> HIDE DEF Remembered
<1>11. CASE \E f : RunFails(f)
  BY <1>6, <1>11 DEF Remembered
<1> QED
  BY <1>1, <1>2, <1>3, <1>4, <1>5, <1>7, <1>8, <1>9, <1>10, <1>11
  DEF Next, CallStep, RunStep

LEMMA PInvInit == PollInit => PInv
<1>1. PollInit => TypeInv
  BY TypeInvInit DEF PollInit
<1>2. PollInit => Place /\ Flags
  BY DEF PollInit, Init, Place, Flags, Setup
<1>3. PollInit => Remembered
  BY DEF PollInit, Init, Remembered, Setup
<1> QED
  BY <1>1, <1>2, <1>3 DEF PInv

\* The library's steps leave the test where it is.
LEMMA PlaceDriver ==
    ASSUME PInv, CallStep, UNCHANGED <<at, todo, open>>
    PROVE  Place' /\ Flags'
<1>0. /\ TypeOK /\ Place /\ Flags
      /\ pc # "tell" /\ pc' = "tell" => AllSet'
  BY RememberedNext DEF PInv, TypeInv, Next
<1>1. /\ at = "init" => pc = "uninit"
      /\ at = "run" => pc = "ready"
      /\ at = "end" => pc = "uninit"
      /\ at = "total" => pc = "idle"
  BY <1>0 DEF Place
<1>m. CallMove
  BY <1>0, CallMoves
<1> USE <1>0 DEF Place, Flags, AllSet, Setup, CallMove
<1>2. CASE pc \in Setup \cup {"tell"}
  <2>1. at = "poll"
    BY <1>1, <1>2
  <2>2. /\ finGot' \subseteq finGot
        /\ pc = "tell" =>
              finGot' = finGot /\ pc' \notin Setup /\ UNCHANGED ids
        /\ \/ pc' \in Setup \cup {"tell"}
           \/ pc' = "idle" /\ ret' = "error"
           \/ pc' = "idle" /\ pc = "tell"
    BY <1>2, <1>m
  <2>3. Place'
    BY <2>1, <2>2, <1>2
  <2>4. Task \ open \subseteq finGot'
    BY <2>2, <1>2
  <2>5. Flags'
    BY <2>1, <2>2, <2>4, <1>2
  <2> QED
    BY <2>3, <2>5
<1>3. CASE pc = "recv"
  BY <1>1, <1>3, <1>m
<1>4. CASE pc \in {"semwait", "copy", "sempost"}
  BY <1>1, <1>4, <1>m
<1>5. CASE pc \in {"kill", "wait"}
  BY <1>1, <1>5, <1>m
<1> QED
  BY <1>2, <1>3, <1>4, <1>5, <1>m

\* The test's own steps.
LEMMA PlaceClient ==
    ASSUME PInv, ClientStep
    PROVE  Place' /\ Flags'
<1>0. /\ TypeOK /\ Place /\ Flags /\ cur \in Task
  BY DEF PInv, TypeInv, TypeOK
<1> USE <1>0 DEF Place, Flags, AllSet, Setup, Callable, childVars, ipcVars,
        clientVars
<1>1. CASE InitSession
  BY <1>1 DEF InitSession, RunnerInit
<1>2. CASE RunSession
  <2>1. /\ at' = "poll" /\ todo' = Task /\ open' = open /\ at = "run"
        /\ UNCHANGED <<ids, finGot>>
        /\ \/ pc' = "ready" /\ ret' = "error"
           \/ pc' = "fork"
    BY <1>2 DEF RunSession, RunnerRun
  <2>2. Place'
    BY <2>1
  <2>3. Flags'
    BY <2>1
  <2> QED
    BY <2>2, <2>3
<1>3. CASE AskInterval
  <2>1. /\ at = "poll" /\ at' = "asked" /\ pc = "idle" /\ ret # "error"
        /\ pc' = "recv" /\ UNCHANGED <<ids, finGot, todo, open>>
    BY <1>3, MinTodo DEF AskInterval, Failed, GetInterval, Ipc
  <2> QED
    BY <2>1
<1>4. CASE SeeInterval
  <2>1. /\ at = "asked" /\ pc = "idle" /\ at' = "poll"
        /\ todo' = todo \ {cur}
        /\ open' = IF ret = "FIN" THEN open \ {cur} ELSE open
        /\ UNCHANGED <<pc, cur, ret, ids, finGot>>
    BY <1>4 DEF SeeInterval, vars, parentVars
  <2> QED
    BY <2>1
<1>5. CASE NextRound
  <2>1. /\ at = "poll" /\ pc = "idle" /\ ret # "error" /\ todo = {}
        /\ IF open = {} THEN at' = "total" /\ todo' = Task
                        ELSE at' = at /\ todo' = open
        /\ UNCHANGED <<pc, cur, ret, ids, finGot, open>>
    BY <1>5 DEF NextRound, Failed, vars, parentVars
  <2> QED
    BY <2>1
<1>6. CASE AskTotal
  <2>1. /\ at = "total" /\ at' = "read" /\ pc' = "semwait"
        /\ UNCHANGED <<ids, finGot, todo, open>>
    BY <1>6, MinTodo DEF AskTotal, GetTotal, Ipc
  <2> QED
    BY <2>1
<1>7. CASE SeeTotal
  <2>1. /\ at = "read" /\ pc = "idle" /\ at' = "total"
        /\ todo' = todo \ {cur}
        /\ UNCHANGED <<pc, cur, ret, ids, finGot, open>>
    BY <1>7 DEF SeeTotal, vars, parentVars
  <2> QED
    BY <2>1
<1>8. CASE TearDown
  BY <1>8 DEF TearDown, RunnerFree
<1>9. CASE Finish
  BY <1>9 DEF Finish, vars, parentVars
<1> QED
  BY <1>1, <1>2, <1>3, <1>4, <1>5, <1>6, <1>7, <1>8, <1>9 DEF ClientStep

LEMMA PInvNext == PInv /\ [PollNext]_pollVars => PInv'
<1> SUFFICES ASSUME PInv, [PollNext]_pollVars PROVE PInv'
  OBVIOUS
<1>1. [Next]_vars
  BY PollStep
<1>2. TypeInv' /\ Remembered'
  BY <1>1, TypeInvNext, RememberedNext DEF PInv, TypeInv
<1>3. CASE CallStep /\ UNCHANGED <<at, todo, open>>
  BY <1>2, <1>3, PlaceDriver DEF PInv
<1>4. ASSUME NEW t \in Task, Child(t), UNCHANGED <<at, todo, open>>
      PROVE  PInv'
  <2>1. UNCHANGED <<pc, cur, ret, ids, finGot>>
    BY <1>4, ChildLeavesParent
  <2>2. Place' /\ Flags'
    BY <1>4, <2>1 DEF PInv, Place, Flags, AllSet
  <2> QED
    BY <1>2, <2>2 DEF PInv
<1>5. CASE ClientStep
  BY <1>2, <1>5, PlaceClient DEF PInv
<1>6. CASE UNCHANGED pollVars
  <2>1. Place' /\ Flags'
    BY <1>6 DEF PInv, Place, Flags, AllSet, pollVars, vars, parentVars,
       ipcVars, clientVars
  <2> QED
    BY <1>2, <2>1 DEF PInv
<1> QED
  BY <1>3, <1>4, <1>5, <1>6 DEF PollNext, DriverStep, Ended

LEMMA PollInvariant == PollSpec => []PInv
BY PInvInit, PInvNext, PTL DEF PollSpec

-----------------------------------------------------------------------------
(* The properties                                                          *)

\* The test program is a client of the driver: what was proved of the driver
\* holds while the test runs it (tr-driver-test.c:83-209).
THEOREM PollUsesDriver == PollSpec => Spec
<1>1. PollInit => Init
  BY DEF PollInit
<1> QED
  BY <1>1, PollInvariant, PollStep, PTL DEF PollSpec, Spec

\* No call of the test trips an assertion of the library, whatever fails in
\* the set-up (tr-mq.c:134, tr-shm.c:247).
THEOREM PollNeverAborts == PollSpec => []NeverAborts
<1>1. PInv => NeverAborts
  BY DEF PInv, Place, Setup, NeverAborts
<1> QED
  BY <1>1, PollInvariant, PTL

\* When the test asks for totals it has received every report of every task
\* and each FIN (tr-driver-test.c:157-208).
THEOREM PollCollectsAll ==
    ASSUME "pipe" \notin Faults, "cgroup" \notin Faults
    PROVE  PollSpec => []AllCollected
<1>1. PInv /\ StreamInOrder => AllCollected
  <2> SUFFICES ASSUME PInv, StreamInOrder, at = "total", NEW t \in Task
               PROVE  got[t] = sent[t] /\ t \in finGot /\ queue[t] = <<>>
    BY DEF AllCollected
  <2>1. t \in finGot
    BY DEF PInv, Flags
  <2>2. queue[t] = <<>>
    BY <2>1 DEF StreamInOrder
  <2>3. sent[t] = got[t] + 0 - 0
    BY <2>2 DEF StreamInOrder, FinQueued
  <2>4. got[t] \in Nat
    BY DriverAssumption DEF PInv, TypeInv, TypeOK
  <2> QED
    BY <2>1, <2>2, <2>3, <2>4
<1> QED
  BY <1>1, PollInvariant, PollUsesDriver, StreamIsOrdered, PTL
=============================================================================
