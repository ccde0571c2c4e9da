--------------------------- MODULE TrDriver_proofs ---------------------------
(***************************************************************************)
(* Proofs about TrDriver, for every number of tasks, every bound on the     *)
(* reports, every queue capacity and every set of failures, except where a  *)
(* theorem excludes a failure that breaks its property; and, behind them,   *)
(* that the driver implements ResultStream.                                 *)
(***************************************************************************)
EXTENDS TrDriver_stream, SequenceTheorems, TLAPS

-----------------------------------------------------------------------------
(* The parts of the inductive invariant.                                    *)

\* The API thread is between tr_sem_wait and tr_sem_post on t's semaphore.
Holding(t) == pc \in {"copy", "sempost"} /\ cur = t

\* The semaphore's unit appears once, after the results are complete, and is
\* either in the semaphore or with the API thread.
SemInv ==
    \A t \in Task :
        /\ Holding(t) => sem[t] = 0
        /\ sem[t] = 1 \/ Holding(t) => shm[t] = "full" /\ proc[t] \notin Alive
        /\ proc[t] = "written" => shm[t] = "full"

TypeInv == TypeOK /\ SemInv

\* The types the getters and the children rely on, whatever the calls of the
\* parent are.
DataOK ==
    /\ cur \in Task
    /\ proc \in [Task -> ProcState]
    /\ ids \in [Task -> SUBSET Ipc] /\ ipc \in [Task -> SUBSET Ipc]
    /\ queue \in [Task -> Seq(Msg)]
    /\ sem \in [Task -> 0..1]
    /\ shm \in [Task -> {"empty", "partial", "full"}]
    /\ sent \in [Task -> 0..MaxReports] /\ got \in [Task -> 0..MaxReports]
    /\ finGot \subseteq Task

\* Where a child can exist, and that a task without one holds no identifier.
CtlInv ==
    /\ pc \in {"uninit", "ready"} => \A t \in Task : proc[t] = "none"
    /\ pc \in {"kill", "wait"} => \A t \in Task : t < cur => proc[t] = "none"
    /\ pc \in {"cgroup", "sem", "shm", "mq"} => proc[cur] # "none"
    /\ pc = "fork" => proc[cur] = "none"
    /\ pc \in Setup => \A t \in Task : t > cur => proc[t] = "none"
    /\ \A t \in Task : proc[t] = "none" => ids[t] = {}

\* Every object that exists is known to the task's tr_info, but for the
\* semaphore between its creation and the end of tr_shm_init.
KnownInv ==
    \A t \in Task : \A o \in ipc[t] :
        o \in ids[t] \/ (o = "sem" /\ pc = "shm" /\ cur = t)

\* The child may read a byte now or has read one.
MayRun(t) ==
    \/ proc[t] \in Running
    \/ proc[t] \in {"cloned", "waiting"} /\ tokens > 0

\* The set-up loop has prepared the tasks behind it and runs with an empty
\* pipe; bytes are written, and read, when every task is ready.
BarrierInv ==
    /\ pc \in Setup => /\ tokens = 0
                       /\ \A t \in Task : proc[t] \notin Running
                       /\ \A u \in Task : u < cur => Ready(u)
    /\ pc \in {"sem", "shm", "mq"} => cur \in placed
    /\ pc = "shm" => "sem" \in ipc[cur]
    /\ pc = "mq" => {"sem", "shm"} \subseteq ids[cur] \cap ipc[cur]
    /\ pc = "tell" => \A u \in Task : Ready(u)
    /\ \A t \in Task : MayRun(t) => \A u \in Task : Freed(u) \/ Ready(u)

\* FIN is in the stream only once its child has left main_worker.
StreamInv ==
    /\ StreamInOrder
    /\ \A t \in Task :
          FinQueued(t) \/ t \in finGot =>
              proc[t] \notin {"cloned", "waiting", "exec", "replaying"}

-----------------------------------------------------------------------------
(* Type correctness and the semaphore.                                      *)

LEMMA TypeInvInit == Init => TypeInv
<1> SUFFICES ASSUME Init PROVE TypeInv
  OBVIOUS
<1>1. 1 \in Task
  BY DriverAssumption DEF Task
<1>2. <<>> \in Seq(Msg)
  OBVIOUS
<1>3. TypeOK
  BY <1>1, <1>2, DriverAssumption, SMT
     DEF Init, TypeOK, PC, Setup, Result, ProcState, Alive, Running, Ipc
<1>4. SemInv
  BY SMT DEF Init, SemInv, Holding, Alive, Running
<1> QED
  BY <1>3, <1>4 DEF TypeInv

\* What a child leaves alone.
LEMMA ChildLeavesParent ==
    ASSUME NEW t \in Task, Child(t)
    PROVE  UNCHANGED <<pc, cur, ret, ids, killed, placed, finGot>>
BY DEF Child, Replay, Await, WaitParent, Exec, Report, SendFin, WriteTotal,
   EndWrite, PostTotal, Die, parentVars, ipcVars, clientVars

\* The message a child appends.
LEMMA AppendTyped ==
    ASSUME DataOK, NEW t \in Task, NEW m \in Msg, Send(t, m)
    PROVE  queue' \in [Task -> Seq(Msg)]
<1>1. Append(queue[t], m) \in Seq(Msg)
  BY DEF DataOK
<1> QED
  BY <1>1 DEF Send, DataOK

LEMMA TypeData == TypeOK => DataOK
  BY DEF TypeOK, DataOK

\* A step of a getter.
LEMMA GetTyped ==
    ASSUME DataOK, SemInv, GetStep
    PROVE  /\ DataOK' /\ SemInv' /\ cur' = cur
           /\ UNCHANGED <<tokens, proc, killed, placed, ids, ipc>>
           /\ pc' \in {"idle", "copy", "sempost"}
<1> USE DEF DataOK, SemInv, Holding, Alive, Running, childVars, ipcVars,
        clientVars
<1>1. CASE Receive
  <2>1. Head(queue[cur]) \in Msg /\ Tail(queue[cur]) \in Seq(Msg)
    BY <1>1 DEF Receive
  <2>2. Head(queue[cur]).time \in 0..MaxReports
    BY <2>1 DEF Msg
  <2>3. got' \in [Task -> 0..MaxReports]
    BY <1>1, <2>2, SMT DEF Receive
  <2>4. queue' \in [Task -> Seq(Msg)]
    BY <1>1, <2>1 DEF Receive
  <2> QED
    BY <1>1, <2>3, <2>4, SMT DEF Receive, Return
<1>2. CASE SemWait
  BY <1>2, SMT DEF SemWait
<1>3. CASE CopyTotal
  BY <1>3, SMT DEF CopyTotal, Return
<1>4. CASE SemPost
  BY <1>4, SMT DEF SemPost, Return
<1> QED
  BY <1>1, <1>2, <1>3, <1>4 DEF GetStep

\* A step of a child.
LEMMA ChildTyped ==
    ASSUME DataOK, SemInv, NEW t \in Task, Child(t)
    PROVE  DataOK' /\ SemInv'
<1> USE DriverAssumption DEF DataOK, SemInv, Holding, ProcState, Alive,
        Running, parentVars, ipcVars, clientVars
<1>1. CASE Await(t)
  BY <1>1, SMT DEF Await
<1>2. CASE WaitParent(t)
  BY <1>2, SMT DEF WaitParent
<1>3. CASE Exec(t)
  BY <1>3, SMT DEF Exec
<1>4. CASE Die(t)
  BY <1>4, SMT DEF Die
<1>5. CASE Report(t)
  <2>1. [type |-> "INTERVAL", time |-> sent[t] + 1] \in Msg
    BY <1>5, SMT DEF Report, Msg
  <2>2. queue' \in [Task -> Seq(Msg)]
    BY <1>5, <2>1, AppendTyped DEF Report
  <2>3. sent' \in [Task -> 0..MaxReports]
    BY <1>5, SMT DEF Report
  <2> QED
    BY <1>5, <2>2, <2>3, SMT DEF Report
<1>6. CASE SendFin(t)
  <2>1. [type |-> "FIN", time |-> 0] \in Msg
    BY SMT DEF Msg
  <2>2. queue' \in [Task -> Seq(Msg)]
    BY <1>6, <2>1, AppendTyped DEF SendFin
  <2>3. proc' \in [Task -> ProcState]
    BY <1>6, SMT DEF SendFin
  <2>4. SemInv'
    BY <1>6, SMT DEF SendFin
  <2> QED
    BY <1>6, <2>2, <2>3, <2>4 DEF SendFin
<1>7. CASE WriteTotal(t)
  BY <1>7, SMT DEF WriteTotal
<1>8. CASE EndWrite(t)
  BY <1>8, SMT DEF EndWrite
<1>9. CASE PostTotal(t)
  BY <1>9, SMT DEF PostTotal
<1> QED
  BY <1>1, <1>2, <1>3, <1>4, <1>5, <1>6, <1>7, <1>8, <1>9 DEF Child, Replay

LEMMA TypeInvNext == TypeInv /\ [Next]_vars => TypeInv'
<1> SUFFICES ASSUME TypeInv, [Next]_vars PROVE TypeInv'
  OBVIOUS
<1> USE DriverAssumption DEF TypeInv, TypeOK, SemInv, Holding, PC, Setup,
        Result, ProcState, Alive, Running, Ipc, parentVars, childVars,
        ipcVars, clientVars
<1>0. 1 \in Task /\ (cur < NTasks => cur + 1 \in Task)
  BY DEF Task
<1>1. CASE RunnerInit
  BY <1>0, <1>1, SMT DEF RunnerInit
<1>2. CASE RunnerInitAgain
  BY <1>0, <1>2, SMT DEF RunnerInitAgain
<1>3. CASE RunnerRun
  BY <1>0, <1>3, SMT DEF RunnerRun
<1>4. CASE RunnerFree
  BY <1>0, <1>4, SMT DEF RunnerFree
<1>5. ASSUME NEW t \in Task, GetInterval(t) PROVE TypeInv'
  BY <1>5, SMT DEF GetInterval, Callable
<1>6. ASSUME NEW t \in Task, GetTotal(t) PROVE TypeInv'
  BY <1>6, SMT DEF GetTotal, Callable
<1>7. CASE Fork
  <2>1. <<>> \in Seq(Msg)
    OBVIOUS
  <2> QED
    BY <1>7, <2>1, SMT DEF Fork
<1>8. CASE SetCgroup
  BY <1>8, SMT DEF SetCgroup
<1>9. CASE SemInit
  BY <1>9, SMT DEF SemInit
<1>10. CASE ShmInit
  BY <1>10, SMT DEF ShmInit
<1>11. CASE MqInit
  <2>1. pc' \in PC /\ pc' \notin {"copy", "sempost"} /\ cur' \in Task
    BY <1>0, <1>11 DEF MqInit
  <2> QED
    BY <1>11, <2>1, SMT DEF MqInit
<1>12. CASE TellChild
  <2>1. /\ pc' \in PC /\ pc' \notin {"copy", "sempost"}
        /\ cur' \in Task /\ ret' \in Result
    BY <1>0, <1>12 DEF TellChild, Return
  <2> QED
    BY <1>12, <2>1, SMT DEF TellChild
<1>13. ASSUME NEW f, RunFails(f), pc \in Setup PROVE TypeInv'
  BY <1>13, SMT DEF RunFails, Return
<1>14. CASE GetStep
  <2>1. DataOK' /\ SemInv' /\ pc' \in PC
    BY <1>14, GetTyped, TypeData
  <2>2. ret' \in Result /\ UNCHANGED <<tokens, killed, placed>>
    <3>1. queue[cur] # <<>> => Head(queue[cur]).type \in {"INTERVAL", "FIN"}
      <4>1. queue[cur] # <<>> => Head(queue[cur]) \in Msg
        OBVIOUS
      <4> QED
        BY <4>1 DEF Msg
    <3> QED
      BY <1>14, <3>1 DEF GetStep, Receive, SemWait, CopyTotal, SemPost,
         Return
  <2> QED
    BY <2>1, <2>2 DEF DataOK
<1>18. CASE SkipTask
  <2>1. pc' \in PC /\ pc' \notin {"copy", "sempost"} /\ cur' \in Task
    BY <1>0, <1>18 DEF SkipTask, Advance
  <2> QED
    BY <1>18, <2>1, SMT DEF SkipTask
<1>19. CASE KillTask
  BY <1>19, SMT DEF KillTask
<1>20. CASE ReapTask
  <2>1. pc' \in PC /\ pc' \notin {"copy", "sempost"} /\ cur' \in Task
    BY <1>0, <1>20 DEF ReapTask, Advance
  <2> QED
    BY <1>20, <2>1, SMT DEF ReapTask
<1>21. ASSUME NEW t \in Task, Child(t) PROVE TypeInv'
  <2>1. DataOK' /\ SemInv'
    BY <1>21, ChildTyped, TypeData
  <2>2. UNCHANGED <<pc, cur, ret, ids, killed, placed>>
    BY <1>21, ChildLeavesParent
  <2>3. tokens' \in Nat
    BY <1>21 DEF Child, Replay, Await, WaitParent, Exec, Report, SendFin,
       WriteTotal, EndWrite, PostTotal, Die
  <2> QED
    BY <2>1, <2>2, <2>3 DEF DataOK
<1>30. CASE UNCHANGED vars
  BY <1>30, SMT DEF vars
<1> HIDE DEF TypeInv
<1> QED
  BY <1>1, <1>2, <1>3, <1>4, <1>5, <1>6, <1>7, <1>8, <1>9, <1>10, <1>11,
     <1>12, <1>13, <1>14, <1>18, <1>19, <1>20, <1>21, <1>30
  DEF Next, Call, CallStep, RunStep, FreeStep

\* Every variable keeps to its type, and each semaphore stays binary.
THEOREM Typing == Spec => []TypeOK
<1>1. TypeInv => TypeOK
  BY DEF TypeInv
<1> QED
  BY <1>1, TypeInvInit, TypeInvNext, PTL DEF Spec

\* get_total copies complete results, whenever it is called and however the
\* child is scheduled between FIN and its post.
THEOREM TotalIsComplete == Spec => []TotalComplete
<1>1. TypeInv => TotalComplete
  BY DEF TypeInv, TypeOK, SemInv, Holding, TotalComplete
<1> QED
  BY <1>1, TypeInvInit, TypeInvNext, PTL DEF Spec

-----------------------------------------------------------------------------
(* Where children and identifiers can exist.                                *)

\* A child's step moves its own state only, from alive to any state but
\* "none".
LEMMA ChildKeepsExisting ==
    ASSUME DataOK, NEW t \in Task, Child(t)
    PROVE  /\ proc[t] \in Alive /\ proc'[t] # "none"
           /\ \A u \in Task : u # t => proc'[u] = proc[u]
<1> USE DEF DataOK, Alive, Running, ProcState
<1>1. CASE Await(t) \/ WaitParent(t)
  BY <1>1, SMT DEF Await, WaitParent
<1>2. CASE Exec(t)
  BY <1>2, SMT DEF Exec
<1>3. CASE Report(t)
  BY <1>3, SMT DEF Report
<1>4. CASE SendFin(t) \/ EndWrite(t) \/ PostTotal(t)
  BY <1>4, SMT DEF SendFin, EndWrite, PostTotal
<1>5. CASE WriteTotal(t)
  BY <1>5, SMT DEF WriteTotal
<1>6. CASE Die(t)
  BY <1>6, SMT DEF Die
<1> QED
  BY <1>1, <1>2, <1>3, <1>4, <1>5, <1>6 DEF Child, Replay

LEMMA CtlInvInit == Init => CtlInv
  BY SMT DEF Init, CtlInv, Setup

LEMMA CtlInvNext == TypeInv /\ CtlInv /\ [Next]_vars => CtlInv'
<1> SUFFICES ASSUME TypeInv, CtlInv, [Next]_vars PROVE CtlInv'
  OBVIOUS
<1>0. /\ TypeOK /\ cur \in Task /\ cur \in Nat /\ NTasks \in Nat
      /\ proc \in [Task -> ProcState] /\ ids \in [Task -> SUBSET Ipc]
      /\ \A t \in Task : t \in Nat /\ 1 <= t /\ t <= NTasks
  <2>1. /\ TypeOK /\ cur \in Task
        /\ proc \in [Task -> ProcState] /\ ids \in [Task -> SUBSET Ipc]
    BY DEF TypeInv, TypeOK
  <2>2. NTasks \in Nat /\ \A t \in Task : t \in Nat /\ 1 <= t /\ t <= NTasks
    BY DriverAssumption, SMT DEF Task
  <2> QED
    BY <2>1, <2>2
<1> USE <1>0 DEF CtlInv, Setup, parentVars, childVars, ipcVars
<1>1. CASE RunnerInit \/ RunnerInitAgain \/ RunnerFree
  <2>1. /\ UNCHANGED <<proc, ids>>
        /\ \/ pc = "uninit" /\ pc' = "ready"
           \/ pc' = "kill" /\ cur' = 1
    BY <1>1 DEF RunnerInit, RunnerInitAgain, RunnerFree
  <2> QED
    BY <2>1, SMT
<1>15. CASE RunnerRun
  BY <1>15, SMT DEF RunnerRun, Task
<1>2. ASSUME NEW t \in Task, GetInterval(t) \/ GetTotal(t) PROVE CtlInv'
  BY <1>2, SMT DEF GetInterval, GetTotal
<1>3. CASE Fork
  BY <1>3, SMT DEF Fork
<1>4. CASE SetCgroup \/ SemInit
  BY <1>4, SMT DEF SetCgroup, SemInit
<1>5. CASE ShmInit
  BY <1>5, SMT DEF ShmInit
<1>6. CASE MqInit
  <2>1. UNCHANGED proc /\ proc[cur] # "none" /\ \A t \in Task : t > cur => proc[t] = "none"
    BY <1>6 DEF MqInit
  <2>2. \A t \in Task : t # cur => ids'[t] = ids[t]
    BY <1>6, SMT DEF MqInit
  <2>3. CASE cur < NTasks
    <3>1. pc' = "fork" /\ cur' = cur + 1
      BY <1>6, <2>3 DEF MqInit
    <3>2. cur' \in Task /\ cur' > cur
      BY <2>3, <3>1, <1>0, SMT DEF Task
    <3>3. proc'[cur'] = "none" /\ \A t \in Task : t > cur' => proc'[t] = "none"
      BY <2>1, <3>1, <3>2, <1>0, SMT
    <3>4. \A t \in Task : proc'[t] = "none" => ids'[t] = ids[t]
      BY <2>1, <2>2
    <3>5. pc' \notin {"ready", "uninit", "cgroup", "sem", "shm", "mq", "kill", "wait"}
      BY <3>1
    <3> QED
      BY <2>1, <3>1, <3>3, <3>4, <3>5
  <2>4. CASE ~(cur < NTasks)
    <3>1. pc' = "tell"
      BY <1>6, <2>4 DEF MqInit
    <3>2. \A t \in Task : proc'[t] = "none" => ids'[t] = ids[t]
      BY <2>1, <2>2
    <3>3. pc' \notin Setup \cup {"ready", "uninit", "kill", "wait"}
      BY <3>1
    <3> QED
      BY <2>1, <3>2, <3>3
  <2> QED
    BY <2>3, <2>4
<1>7. CASE TellChild
  BY <1>7, SMT DEF TellChild, Return
<1>8. ASSUME NEW f, RunFails(f), pc \in Setup PROVE CtlInv'
  BY <1>8, SMT DEF RunFails, Return
<1>9. CASE GetStep
  BY <1>9, SMT DEF GetStep, Receive, SemWait, CopyTotal, SemPost, Return
<1>10. CASE SkipTask
  <2>1. /\ pc = "kill" /\ proc[cur] = "none" /\ UNCHANGED <<proc, ids>>
        /\ \/ cur < NTasks /\ pc' = "kill" /\ cur' = cur + 1
           \/ cur = NTasks /\ pc' = "uninit"
    BY <1>10, SMT DEF SkipTask, Advance, Task
  <2> QED
    BY <2>1, SMT
<1>11. CASE KillTask
  BY <1>11, SMT DEF KillTask
<1>12. CASE ReapTask
  <2>1. /\ pc = "wait"
        /\ \/ cur < NTasks /\ pc' = "kill" /\ cur' = cur + 1
           \/ cur = NTasks /\ pc' = "uninit"
    BY <1>12, SMT DEF ReapTask, Advance, Task
  <2>2. /\ proc'[cur] = "none" /\ ids'[cur] = {}
        /\ \A t \in Task : t # cur => proc'[t] = proc[t] /\ ids'[t] = ids[t]
    BY <1>12, SMT DEF ReapTask
  <2> QED
    BY <2>1, <2>2, SMT
<1>13. ASSUME NEW t \in Task, Child(t) PROVE CtlInv'
  <2>1. \A u \in Task : proc'[u] = "none" <=> proc[u] = "none"
    BY <1>13, ChildKeepsExisting, TypeData DEF Alive, Running
  <2>2. UNCHANGED <<pc, cur, ids>>
    BY <1>13 DEF Child, Replay, Await, WaitParent, Exec, Report, SendFin,
       WriteTotal, EndWrite, PostTotal, Die
  <2> QED
    BY <2>1, <2>2
<1>14. CASE UNCHANGED vars
  BY <1>14, SMT DEF vars
<1> HIDE DEF CtlInv
<1> QED
  BY <1>1, <1>2, <1>3, <1>4, <1>5, <1>6, <1>7, <1>8, <1>9, <1>10, <1>11,
     <1>12, <1>13, <1>14, <1>15
  DEF Next, Call, CallStep, RunStep, FreeStep, Setup

-----------------------------------------------------------------------------
(* runner_free leaves nothing behind.                                       *)

LEMMA KnownInvNext ==
    ASSUME "shm" \notin Faults, TypeInv, CtlInv, KnownInv, [Next]_vars
    PROVE  KnownInv'
<1>0. TypeOK
  BY DEF TypeInv
<1> USE <1>0 DEF TypeOK, KnownInv, parentVars, childVars, ipcVars
<1>1. CASE RunnerInit \/ RunnerInitAgain \/ RunnerRun \/ RunnerFree
  BY <1>1, SMT DEF RunnerInit, RunnerInitAgain, RunnerRun, RunnerFree, Callable
<1>2. ASSUME NEW t \in Task, GetInterval(t) \/ GetTotal(t) PROVE KnownInv'
  BY <1>2, SMT DEF GetInterval, GetTotal, Callable
<1>3. CASE Fork
  BY <1>3, SMT DEF Fork
<1>4. CASE SetCgroup
  BY <1>4, SMT DEF SetCgroup
<1>5. CASE SemInit
  BY <1>5, SMT DEF SemInit
<1>6. CASE ShmInit
  BY <1>6, SMT DEF ShmInit
<1>7. CASE MqInit
  BY <1>7, SMT DEF MqInit
<1>8. CASE TellChild
  BY <1>8, SMT DEF TellChild, Return
<1>9. ASSUME NEW f, RunFails(f), pc # "shm" PROVE KnownInv'
  BY <1>9, SMT DEF RunFails, Return
<1>10. CASE GetStep
  BY <1>10, SMT DEF GetStep, Receive, SemWait, CopyTotal, SemPost, Return
<1>11. CASE SkipTask \/ KillTask
  BY <1>11, SMT DEF SkipTask, KillTask, Advance
<1>12. CASE ReapTask
  BY <1>12, SMT DEF ReapTask, Advance
<1>13. ASSUME NEW t \in Task, Child(t) PROVE KnownInv'
  <2>1. UNCHANGED <<pc, cur, ids, ipc>>
    BY <1>13 DEF Child, Replay, Await, WaitParent, Exec, Report, SendFin,
       WriteTotal, EndWrite, PostTotal, Die
  <2> QED
    BY <2>1
<1>14. CASE UNCHANGED vars
  BY <1>14, SMT DEF vars
<1>15. ~RunFails("shm")
  BY DEF RunFails
<1> HIDE DEF KnownInv
<1> QED
  BY <1>1, <1>2, <1>3, <1>4, <1>5, <1>6, <1>7, <1>8, <1>9, <1>10, <1>11,
     <1>12, <1>13, <1>14, <1>15
  DEF Next, Call, CallStep, RunStep, FreeStep

\* After runner_free no child and no kernel object is left, unless a shared
\* memory segment could not be made: its semaphore is then left behind.
THEOREM FreeIsComplete ==
    ASSUME "shm" \notin Faults
    PROVE  Spec => []FreeComplete
<1> DEFINE I == TypeInv /\ CtlInv /\ KnownInv
<1>1. Init => I
  BY TypeInvInit, CtlInvInit, SMT DEF Init, KnownInv
<1>2. I /\ [Next]_vars => I'
  BY TypeInvNext, CtlInvNext, KnownInvNext
<1>3. I => FreeComplete
  BY DEF TypeInv, TypeOK, CtlInv, KnownInv, FreeComplete
<1> QED
  BY <1>1, <1>2, <1>3, PTL DEF Spec

\* No object is taken from a child that is alive.
THEOREM IpcIsKept == Spec => IpcOutlivesChild
<1> DEFINE I == TypeInv /\ CtlInv
           Keep == \A t \in Task : proc[t] \in Alive => ipc[t] \subseteq ipc'[t]
<1>1. Init => I
  BY TypeInvInit, CtlInvInit
<1>2. I /\ [Next]_vars => I'
  BY TypeInvNext, CtlInvNext
<1>3. I /\ [Next]_vars => [Keep]_vars
  <2> SUFFICES ASSUME I, Next PROVE Keep
    OBVIOUS
  <2>0. TypeOK /\ CtlInv
    BY DEF TypeInv
  <2> USE DEF ipcVars
  <2>1. CASE Call
    BY <2>1 DEF Call, RunnerInit, RunnerInitAgain, RunnerRun, RunnerFree,
       GetInterval, GetTotal
  <2>2. CASE Fork
    BY <2>0, <2>2, SMT DEF Fork, TypeOK, CtlInv, Alive, Running
  <2>3. CASE SemInit \/ ShmInit \/ MqInit
    <3>1. \E o \in Ipc : ipc' = [ipc EXCEPT ![cur] = @ \cup {o}]
      BY <2>3 DEF SemInit, ShmInit, MqInit, Ipc
    <3> QED
      BY <2>0, <3>1 DEF TypeOK
  <2>4. CASE SetCgroup \/ TellChild \/ \E f \in FaultKind : RunFails(f)
    BY <2>4 DEF SetCgroup, TellChild, RunFails
  <2>5. CASE GetStep \/ SkipTask \/ KillTask
    BY <2>5 DEF GetStep, Receive, SemWait, CopyTotal, SemPost, SkipTask,
       KillTask
  <2>6. CASE ReapTask
    BY <2>0, <2>6, SMT DEF ReapTask, TypeOK, Alive, Running
  <2>7. CASE \E t \in Task : Child(t)
    BY <2>7 DEF Child, Replay, Await, WaitParent, Exec, Report, SendFin,
       WriteTotal, EndWrite, PostTotal, Die
  <2> QED
    BY <2>1, <2>2, <2>3, <2>4, <2>5, <2>6, <2>7
    DEF Next, CallStep, RunStep, FreeStep, FaultKind
<1> QED
  BY <1>1, <1>2, <1>3, PTL DEF Spec, IpcOutlivesChild

-----------------------------------------------------------------------------
(* The start barrier.                                                       *)

LEMMA BarrierInvNext ==
    ASSUME "pipe" \notin Faults, "cgroup" \notin Faults,
           TypeInv, CtlInv, BarrierInv, [Next]_vars
    PROVE  BarrierInv'
<1>0. TypeOK /\ cur \in Nat /\ NTasks \in Nat /\ \A u \in Task : u \in Nat /\ u <= NTasks
  BY DriverAssumption DEF TypeInv, TypeOK, Task
<1> USE <1>0 DEF TypeOK, BarrierInv, MayRun, Ready, Freed, Setup, Running,
        parentVars, childVars, ipcVars
<1>1. CASE RunnerInit
  BY <1>1, SMT DEF RunnerInit, CtlInv
<1>2. CASE RunnerInitAgain \/ RunnerFree
  <2>1. pc \in {"ready", "idle"} /\ pc' = "kill" /\ cur' = 1
    BY <1>2 DEF RunnerInitAgain, RunnerFree, Callable
  <2>2. UNCHANGED <<tokens, childVars, ipcVars>>
    BY <1>2 DEF RunnerInitAgain, RunnerFree
  <2> QED
    BY <2>1, <2>2, SMT
<1>3. CASE RunnerRun
  BY <1>3, SMT DEF RunnerRun, CtlInv, Task
<1>4. ASSUME NEW t \in Task, GetInterval(t) \/ GetTotal(t) PROVE BarrierInv'
  <2>1. pc \in {"ready", "idle"} /\ pc' \in {"recv", "semwait", "aborted"}
    BY <1>4 DEF GetInterval, GetTotal, Callable
  <2>2. UNCHANGED <<tokens, childVars, ipcVars>>
    BY <1>4 DEF GetInterval, GetTotal
  <2>3. ASSUME NEW u \in Task
        PROVE  (MayRun(u)' <=> MayRun(u)) /\ (Ready(u)' <=> Ready(u))
    BY <2>2
  <2>4. \A u \in Task : ~Freed(u)
    BY <2>1
  <2> HIDE DEF MayRun, Ready, Freed
  <2> QED
    BY <2>1, <2>3, <2>4
<1>5. CASE Fork
  BY <1>5, SMT DEF Fork
<1>6. CASE SetCgroup
  BY <1>6, SMT DEF SetCgroup, CtlInv
<1>7. CASE SemInit
  BY <1>7, SMT DEF SemInit
<1>8. CASE ShmInit
  BY <1>8, SMT DEF ShmInit
<1>9. CASE MqInit
  <2>1. /\ proc[cur] # "none" /\ cur \in placed
        /\ ids'[cur] = Ipc /\ ipc'[cur] = Ipc
    BY <1>9, SMT DEF MqInit, CtlInv, Ipc
  <2>2. \A u \in Task : u < cur => Ready(u)'
    BY <1>9, SMT DEF MqInit
  <2>3. UNCHANGED <<proc, placed>>
    BY <1>9 DEF MqInit
  <2>4. tokens' = 0 /\ \A t \in Task : proc'[t] = proc[t] /\ proc[t] \notin Running
    BY <1>9, SMT DEF MqInit
  <2>5. CASE cur < NTasks
    <3>1. pc' = "fork" /\ cur' = cur + 1
      BY <1>9, <2>5 DEF MqInit
    <3>2. \A u \in Task : u < cur' => Ready(u)'
      BY <2>1, <2>2, <2>3, <3>1, <1>0, SMT
    <3> QED
      BY <2>4, <3>1, <3>2, SMT
  <2>6. CASE cur = NTasks
    <3>1. pc' = "tell"
      BY <1>9, <2>6, SMT DEF MqInit
    <3>2. \A u \in Task : u < cur \/ u = cur
      BY <2>6, <1>0, SMT
    <3>3. \A u \in Task : Ready(u)'
      BY <2>1, <2>2, <2>3, <3>2
    <3> QED
      BY <2>4, <3>1, <3>3, SMT
  <2> QED
    BY <2>5, <2>6, <1>0, SMT DEF Task
<1>10. CASE TellChild
  BY <1>10, SMT DEF TellChild, Return
<1>11. ASSUME NEW f, RunFails(f), pc \in Setup PROVE BarrierInv'
  BY <1>11, SMT DEF RunFails, Return
<1>12. CASE GetStep
  <2>1. /\ pc \in {"recv", "semwait", "copy", "sempost"}
        /\ pc' \in {"idle", "copy", "sempost"}
    BY <1>12 DEF GetStep, Receive, SemWait, CopyTotal, SemPost, Return
  <2>2. UNCHANGED <<cur, tokens, childVars, ids, ipc>>
    BY <1>12 DEF GetStep, Receive, SemWait, CopyTotal, SemPost
  <2> QED
    BY <2>1, <2>2, SMT
<1>13. CASE SkipTask
  BY <1>13, SMT DEF SkipTask, Advance, CtlInv
<1>14. CASE KillTask
  BY <1>14, SMT DEF KillTask
<1>15. CASE ReapTask
  BY <1>15, SMT DEF ReapTask, Advance, CtlInv
<1>16. ASSUME NEW t \in Task, Child(t) PROVE BarrierInv'
  <2>1. /\ proc[t] \in Alive /\ proc'[t] # "none"
        /\ \A u \in Task : u # t => proc'[u] = proc[u]
    BY <1>16, ChildKeepsExisting, TypeData
  <2>2. UNCHANGED <<pc, cur, ids, ipc, placed>>
    BY <1>16 DEF Child, Replay, Await, WaitParent, Exec, Report, SendFin,
       WriteTotal, EndWrite, PostTotal, Die
  <2>3. tokens' \in Nat /\ tokens' <= tokens
    BY <1>16, SMT DEF Child, Replay, Await, WaitParent, Exec, Report, SendFin,
       WriteTotal, EndWrite, PostTotal, Die
  <2>4. MayRun(t)' => MayRun(t)
    BY <1>16, SMT DEF Child, Replay, Await, WaitParent, Exec, Report, SendFin,
       WriteTotal, EndWrite, PostTotal, Die
  <2>5. \A u \in Task : MayRun(u)' => MayRun(u)
    BY <2>1, <2>3, <2>4, SMT
  <2>6. \A u \in Task : Ready(u) => Ready(u)'
    BY <2>1, <2>2, SMT DEF Alive
  <2>7. pc \in Setup => tokens' = 0 /\ \A u \in Task : proc'[u] \notin Running
    BY <2>1, <2>3, <2>5, SMT
  <2>8. \A u \in Task : Freed(u)' <=> Freed(u)
    BY <2>2 DEF Freed
  <2>9. \A v \in Task : MayRun(v)' => \A u \in Task : Freed(u)' \/ Ready(u)'
    BY <2>5, <2>6, <2>8 DEF BarrierInv
  <2> HIDE DEF MayRun, Ready, Freed
  <2> QED
    BY <2>2, <2>6, <2>7, <2>9 DEF BarrierInv
<1>17. CASE UNCHANGED vars
  BY <1>17, SMT DEF vars
<1> HIDE DEF BarrierInv, MayRun, Ready, Freed, TypeOK
<1> QED
  BY <1>1, <1>2, <1>3, <1>4, <1>5, <1>6, <1>7, <1>8, <1>9, <1>10, <1>11,
     <1>12, <1>13, <1>14, <1>15, <1>16, <1>17
  DEF Next, Call, CallStep, RunStep, FreeStep, Setup

\* The inductive invariant of the driver whose pipe() and control groups do
\* not fail.
IInv == TypeInv /\ CtlInv /\ BarrierInv

LEMMA IInvInit == Init => IInv
<1>1. Init => BarrierInv
  BY SMT DEF Init, BarrierInv, Setup, MayRun, Running
<1> QED
  BY <1>1, TypeInvInit, CtlInvInit DEF IInv

LEMMA IInvNext ==
    ASSUME "pipe" \notin Faults, "cgroup" \notin Faults
    PROVE  IInv /\ [Next]_vars => IInv'
  BY TypeInvNext, CtlInvNext, BarrierInvNext DEF IInv

\* No child runs before every task of the session has its child, its control
\* group and its IPC objects. A pipe() that fails in a later session breaks
\* it, because the bytes of the earlier one are still there, and so does a
\* control group that cannot be set, whose error tr_runner ignores.
THEOREM StartIsABarrier ==
    ASSUME "pipe" \notin Faults, "cgroup" \notin Faults
    PROVE  Spec => []StartBarrier
<1>1. IInv => StartBarrier
  BY DEF IInv, BarrierInv, MayRun, StartBarrier
<1> QED
  BY <1>1, IInvInit, IInvNext, PTL DEF Spec

-----------------------------------------------------------------------------
(* The stream of messages.                                                  *)

\* A child that replays has its queue: its sends are never dropped.
LEMMA ReplayingHasQueue ==
    ASSUME IInv, NEW t \in Task, proc[t] = "replaying"
    PROVE  "mq" \in ipc[t]
<1>1. Freed(t) \/ Ready(t)
  BY DEF IInv, BarrierInv, MayRun, Running
<1>2. ~Freed(t)
  BY DEF IInv, CtlInv, Freed
<1> QED
  BY <1>1, <1>2 DEF Ready, Ipc

\* What StreamInv says of one task: its queue q, the reports it has sent (s)
\* and the client has received (g), and that FIN is there only once it left
\* main_worker.
EndsInFin(q) == q # <<>> /\ q[Len(q)].type = "FIN"
Stream(q, s, g) ==
    /\ \A i \in 1..Len(q) : IF q[i].type = "FIN" THEN i = Len(q)
                                                 ELSE q[i].time = g + i
    /\ s = g + Len(q) - (IF EndsInFin(q) THEN 1 ELSE 0)

LEMMA StreamSplit ==
    ASSUME DataOK
    PROVE  StreamInv <=>
             \A t \in Task :
                /\ Stream(queue[t], sent[t], got[t])
                /\ t \in finGot => queue[t] = <<>>
                /\ EndsInFin(queue[t]) \/ t \in finGot =>
                      proc[t] \notin {"cloned", "waiting", "exec", "replaying"}
<1>1. \A t \in Task : queue[t] \in Seq(Msg) /\ DOMAIN queue[t] = 1..Len(queue[t])
  BY DEF DataOK
<1> QED
  BY <1>1 DEF StreamInv, StreamInOrder, FinQueued, EndsInFin, Stream

\* A report goes behind the reports before it, and FIN behind all of them.
LEMMA AppendReport ==
    ASSUME NEW q \in Seq(Msg), NEW s \in Nat, NEW g \in Nat, Stream(q, s, g),
           ~EndsInFin(q), NEW m \in Msg, m.type = "INTERVAL", m.time = s + 1
    PROVE  Stream(Append(q, m), s + 1, g) /\ ~EndsInFin(Append(q, m))
<1> DEFINE r == Append(q, m)
<1>1. /\ r \in Seq(Msg) /\ Len(r) = Len(q) + 1 /\ r[Len(r)] = m
      /\ \A i \in 1..Len(q) : r[i] = q[i]
  OBVIOUS
<1>2. s = g + Len(q) /\ \A i \in 1..Len(q) : q[i].type # "FIN"
  BY SMT DEF Stream, EndsInFin
<1> HIDE DEF r
<1>3. ~EndsInFin(r)
  BY <1>1 DEF EndsInFin
<1>4. Stream(r, s + 1, g)
  BY <1>1, <1>2, <1>3, SMT DEF Stream
<1> QED
  BY <1>3, <1>4 DEF r

LEMMA AppendFin ==
    ASSUME NEW q \in Seq(Msg), NEW s \in Nat, NEW g \in Nat, Stream(q, s, g),
           ~EndsInFin(q), NEW m \in Msg, m.type = "FIN"
    PROVE  Stream(Append(q, m), s, g)
<1> DEFINE r == Append(q, m)
<1>1. /\ r \in Seq(Msg) /\ Len(r) = Len(q) + 1 /\ r[Len(r)] = m
      /\ \A i \in 1..Len(q) : r[i] = q[i]
  OBVIOUS
<1>2. s = g + Len(q) /\ \A i \in 1..Len(q) : q[i].type # "FIN"
  BY SMT DEF Stream, EndsInFin
<1> HIDE DEF r
<1>3. EndsInFin(r)
  BY <1>1 DEF EndsInFin
<1>4. Stream(r, s, g)
  BY <1>1, <1>2, <1>3, SMT DEF Stream
<1> QED
  BY <1>4 DEF r

\* The oldest message is the next report, or FIN and then the only one.
LEMMA TakeHead ==
    ASSUME NEW q \in Seq(Msg), NEW s \in Nat, NEW g \in Nat, Stream(q, s, g),
           q # <<>>
    PROVE  /\ Head(q).type = "FIN" => Tail(q) = <<>> /\ s = g
           /\ Head(q).type # "FIN" => Stream(Tail(q), s, g + 1)
           /\ EndsInFin(Tail(q)) => EndsInFin(q)
<1> DEFINE r == Tail(q)
<1>1. /\ r \in Seq(Msg) /\ Len(q) \in Nat \ {0} /\ Len(r) = Len(q) - 1 /\ Head(q) = q[1]
      /\ \A i \in 1..Len(r) : r[i] = q[i + 1]
  OBVIOUS
<1>6. r = <<>> <=> Len(r) = 0
  BY <1>1, EmptySeq
<1> HIDE DEF r
<1>2. ASSUME q[1].type = "FIN" PROVE r = <<>> /\ s = g
  BY <1>1, <1>2, SMT DEF Stream, EndsInFin
<1>3. Len(r) > 0 => (EndsInFin(r) <=> EndsInFin(q))
  BY <1>1, SMT DEF EndsInFin
<1>4. EndsInFin(r) => EndsInFin(q)
  BY <1>1, <1>3, SMT DEF EndsInFin
<1>5. ASSUME q[1].type # "FIN" PROVE Stream(r, s, g + 1)
  <2>1. Len(r) = 0 => ~EndsInFin(r) /\ ~EndsInFin(q)
    <3> SUFFICES ASSUME Len(r) = 0 PROVE ~EndsInFin(r) /\ ~EndsInFin(q)
      OBVIOUS
    <3>1. r = <<>> /\ Len(q) = 1
      BY <1>1, <1>6, SMT
    <3> QED
      BY <3>1, <1>5 DEF EndsInFin
  <2>2. s = g + 1 + Len(r) - (IF EndsInFin(r) THEN 1 ELSE 0)
    <3>1. EndsInFin(r) <=> EndsInFin(q)
      BY <1>1, <1>3, <2>1, SMT
    <3>2. s = g + Len(q) - (IF EndsInFin(q) THEN 1 ELSE 0)
      BY DEF Stream
    <3>3. s = g + 1 + Len(r) - (IF EndsInFin(q) THEN 1 ELSE 0)
      BY <1>1, <3>2, SMT
    <3> QED
      BY <3>1, <3>3
  <2>3. \A i \in 1..Len(r) : IF r[i].type = "FIN" THEN i = Len(r)
                                                 ELSE r[i].time = g + 1 + i
    <3> TAKE i \in 1..Len(r)
    <3>1. i + 1 \in 1..Len(q) /\ r[i] = q[i + 1]
      BY <1>1, SMT
    <3>2. IF q[i + 1].type = "FIN" THEN i + 1 = Len(q)
                                   ELSE q[i + 1].time = g + (i + 1)
      BY <3>1 DEF Stream
    <3> QED
      BY <1>1, <3>1, <3>2, SMT
  <2> QED
    BY <2>2, <2>3 DEF Stream
<1> QED
  BY <1>1, <1>2, <1>4, <1>5 DEF r

\* The task-wise form of StreamInv, for the induction.
TaskStream(t) ==
    /\ Stream(queue[t], sent[t], got[t])
    /\ t \in finGot => queue[t] = <<>>
    /\ EndsInFin(queue[t]) \/ t \in finGot =>
          proc[t] \notin {"cloned", "waiting", "exec", "replaying"}

\* The steps that leave a task's stream alone and do not take its child back.
LEMMA StreamKept ==
    ASSUME NEW u \in Task, TaskStream(u),
           UNCHANGED <<queue[u], sent[u], got[u]>>,
           u \in finGot' <=> u \in finGot,
           \/ proc'[u] = proc[u]
           \/ proc'[u] \in {"none", "exited", "stuck", "total", "written"}
           \/ proc[u] \in {"cloned", "waiting", "exec"}
    PROVE  TaskStream(u)'
BY SMT DEF TaskStream

LEMMA ReceiveKeepsStream ==
    ASSUME DataOK, NEW u \in Task, TaskStream(u), Receive
    PROVE  TaskStream(u)'
<1>t. /\ queue[u] \in Seq(Msg) /\ sent[u] \in Nat /\ got[u] \in Nat
      /\ proc[u] \in ProcState
  BY DriverAssumption, SMT DEF DataOK
<1> USE DEF parentVars, childVars, ipcVars, clientVars
<1>1. CASE u = cur
  <2>1. /\ queue[u] # <<>> /\ queue'[u] = Tail(queue[u])
        /\ sent'[u] = sent[u] /\ proc'[u] = proc[u]
    BY <1>1, SMT DEF Receive, DataOK
  <2>2. u \notin finGot
    BY <2>1 DEF TaskStream
  <2>3. CASE Head(queue[u]).type = "FIN"
    <3>1. got'[u] = got[u]
      BY <1>1, <2>3, SMT DEF Receive, DataOK
    <3>2. queue'[u] = <<>> /\ sent[u] = got[u]
      BY <2>1, <2>3, <1>t, TakeHead DEF TaskStream
    <3>3. EndsInFin(queue[u])
      <4>1. 1 \in 1..Len(queue[u]) /\ Head(queue[u]) = queue[u][1]
        BY <1>t, <2>1
      <4>2. Len(queue[u]) = 1
        BY <2>3, <4>1 DEF TaskStream, Stream
      <4> QED
        BY <2>1, <2>3, <4>1, <4>2 DEF EndsInFin
    <3>4. Stream(<<>>, sent[u], got[u])
      BY <1>t, <3>2, SMT DEF Stream, EndsInFin
    <3>5. ~EndsInFin(<<>>)
      BY DEF EndsInFin
    <3> QED
      BY <2>1, <3>1, <3>2, <3>3, <3>4, <3>5 DEF TaskStream
  <2>4. CASE Head(queue[u]).type # "FIN"
    <3>1. got'[u] = got[u] + 1 /\ finGot' = finGot
      <4>1. 1 \in 1..Len(queue[u]) /\ Head(queue[u]) = queue[u][1]
        BY <1>t, <2>1
      <4>2. Head(queue[u]).time = got[u] + 1
        BY <2>4, <4>1 DEF TaskStream, Stream
      <4>3. got'[u] = Head(queue[u]).time /\ finGot' = finGot
        BY <1>1, <2>4, SMT DEF Receive, DataOK
      <4> QED
        BY <4>2, <4>3
    <3>2. /\ Stream(Tail(queue[u]), sent[u], got[u] + 1)
          /\ EndsInFin(Tail(queue[u])) => EndsInFin(queue[u])
      BY <2>1, <2>4, <1>t, TakeHead DEF TaskStream
    <3> QED
      BY <2>1, <2>2, <3>1, <3>2 DEF TaskStream
  <2> QED
    BY <2>3, <2>4
<1>2. CASE u # cur
  <2>1. /\ queue'[u] = queue[u] /\ sent'[u] = sent[u] /\ got'[u] = got[u]
        /\ proc'[u] = proc[u] /\ (u \in finGot' <=> u \in finGot)
    BY <1>2, SMT DEF Receive, DataOK
  <2> QED
    BY <2>1 DEF TaskStream
<1> QED
  BY <1>1, <1>2

LEMMA ChildKeepsStream ==
    ASSUME DataOK, DataOK', NEW t \in Task, NEW u \in Task, TaskStream(u),
           Child(t), proc[t] = "replaying" => "mq" \in ipc[t]
    PROVE  TaskStream(u)'
<1>t. /\ queue[u] \in Seq(Msg) /\ sent[u] \in Nat /\ got[u] \in Nat
      /\ proc[u] \in ProcState
  BY DriverAssumption, SMT DEF DataOK
<1> USE DEF parentVars, childVars, ipcVars, clientVars
<1>1. CASE Await(t) \/ WaitParent(t) \/ Exec(t) \/ WriteTotal(t)
           \/ EndWrite(t) \/ PostTotal(t) \/ Die(t)
  <2>1. \/ proc'[u] = proc[u]
        \/ proc'[u] \in {"none", "exited", "stuck", "total", "written"}
        \/ proc[u] \in {"cloned", "waiting", "exec"}
    <3>1. CASE u # t
      BY <3>1, ChildKeepsExisting
    <3>2. CASE u = t /\ (Await(t) \/ WaitParent(t) \/ Exec(t))
      BY <3>2 DEF Await, WaitParent, Exec
    <3>3. CASE u = t /\ (WriteTotal(t) \/ EndWrite(t) \/ PostTotal(t))
      BY <3>3, SMT DEF DataOK, WriteTotal, EndWrite, PostTotal
    <3>4. CASE u = t /\ Die(t)
      BY <3>4, SMT DEF DataOK, Die
    <3> QED
      BY <1>1, <3>1, <3>2, <3>3, <3>4
  <2>2. UNCHANGED <<queue, sent, got, finGot>>
    BY <1>1 DEF Await, WaitParent, Exec, WriteTotal, EndWrite, PostTotal, Die
  <2> QED
    BY <2>1, <2>2, StreamKept
<1>2. ASSUME Report(t) \/ SendFin(t), u # t PROVE TaskStream(u)'
  <2>1. /\ queue'[u] = queue[u] /\ sent'[u] = sent[u] /\ got'[u] = got[u]
        /\ proc'[u] = proc[u] /\ finGot' = finGot
    BY <1>2, SMT DEF Report, SendFin, Send, DataOK
  <2> QED
    BY <2>1, StreamKept
<1>3. ASSUME proc[u] = "replaying"
      PROVE  ~EndsInFin(queue[u]) /\ u \notin finGot
  BY <1>3 DEF TaskStream
<1>4. CASE u = t /\ Report(u)
  <2> DEFINE m == [type |-> "INTERVAL", time |-> sent[u] + 1]
  <2>1. m \in Msg
    BY <1>4, DriverAssumption, SMT DEF Report, Msg, DataOK
  <2>2. /\ queue'[u] = Append(queue[u], m) /\ sent'[u] = sent[u] + 1
        /\ got'[u] = got[u] /\ finGot' = finGot /\ proc'[u] = proc[u]
    <3>1. queue' = [queue EXCEPT ![u] = Append(@, m)]
      BY <1>4 DEF Report, Send
    <3> HIDE DEF m
    <3> QED
      BY <3>1, <1>4, SMT DEF Report, DataOK
  <2>3. /\ Stream(Append(queue[u], m), sent[u] + 1, got[u])
        /\ ~EndsInFin(Append(queue[u], m))
    BY <1>t, <1>3, <1>4, <2>1, AppendReport DEF Report, TaskStream
  <2> QED
    BY <1>3, <1>4, <2>2, <2>3 DEF TaskStream, Report
<1>5. CASE u = t /\ SendFin(u)
  <2> DEFINE m == [type |-> "FIN", time |-> 0]
  <2>1. m \in Msg
    BY DriverAssumption, SMT DEF Msg
  <2>2. /\ queue'[u] = Append(queue[u], m) /\ sent'[u] = sent[u]
        /\ got'[u] = got[u] /\ finGot' = finGot /\ proc'[u] = "fin"
    BY <1>5, SMT DEF SendFin, Send, DataOK
  <2>3. Stream(Append(queue[u], m), sent[u], got[u])
    BY <1>t, <1>3, <1>5, <2>1, AppendFin DEF SendFin, TaskStream
  <2> QED
    BY <1>3, <1>5, <2>2, <2>3 DEF TaskStream, SendFin
<1> QED
  BY <1>1, <1>2, <1>4, <1>5 DEF Child, Replay

LEMMA StreamInvNext ==
    ASSUME IInv, StreamInv, [Next]_vars
    PROVE  StreamInv'
<1>0. TypeOK /\ TypeOK'
  BY TypeInvNext DEF IInv, TypeInv
<1> SUFFICES ASSUME NEW u \in Task PROVE TaskStream(u)'
  <2>1. \A u \in Task : /\ queue'[u] \in Seq(Msg)
                        /\ DOMAIN queue'[u] = 1..Len(queue'[u])
    BY <1>0 DEF TypeOK
  <2> QED
    BY <2>1 DEF StreamInv, StreamInOrder, FinQueued, EndsInFin, Stream,
                TaskStream
<1>s. TaskStream(u)
  BY <1>0, StreamSplit, TypeData DEF TaskStream
\* The steps that leave the stream alone and do not take the child back.
<1>1. ASSUME UNCHANGED <<queue, sent, got, finGot>>,
             \/ proc'[u] = proc[u]
             \/ proc'[u] \in {"none", "exited", "stuck", "total", "written"}
             \/ proc[u] \in {"cloned", "waiting", "exec"}
      PROVE  TaskStream(u)'
  BY <1>1, <1>s, StreamKept
<1> USE DEF parentVars, childVars, ipcVars, clientVars
<1>2. CASE Call
  BY <1>2, <1>1 DEF Call, RunnerInit, RunnerInitAgain, RunnerRun, RunnerFree,
     GetInterval, GetTotal
<1>3. CASE Fork
  <2>1. CASE u = cur
    <3>1. queue'[u] = <<>> /\ sent'[u] = 0 /\ got'[u] = 0 /\ u \notin finGot'
      BY <1>0, <1>3, <2>1 DEF Fork, TypeOK
    <3> QED
      BY <3>1, SMT DEF TaskStream, Stream, EndsInFin
  <2>2. CASE u # cur
    <3>1. /\ queue'[u] = queue[u] /\ sent'[u] = sent[u] /\ got'[u] = got[u]
          /\ proc'[u] = proc[u] /\ (u \in finGot' <=> u \in finGot)
      BY <1>0, <1>3, <2>2, SMT DEF Fork, TypeOK
    <3> QED
      BY <3>1, <1>s DEF TaskStream
  <2> QED
    BY <2>1, <2>2
<1>4. CASE SetCgroup \/ SemInit \/ ShmInit \/ MqInit \/ TellChild
  BY <1>4, <1>1 DEF SetCgroup, SemInit, ShmInit, MqInit, TellChild
<1>5. ASSUME NEW f, RunFails(f) PROVE TaskStream(u)'
  BY <1>5, <1>1 DEF RunFails
<1>6. CASE Receive
  BY <1>0, <1>6, <1>s, ReceiveKeepsStream, TypeData
<1>7. CASE SemWait \/ CopyTotal \/ SemPost \/ SkipTask \/ KillTask
  BY <1>7, <1>1 DEF SemWait, CopyTotal, SemPost, SkipTask, KillTask
<1>8. CASE ReapTask
  <2>1. proc'[u] = proc[u] \/ proc'[u] = "none"
    BY <1>0, <1>8, SMT DEF ReapTask, TypeOK
  <2> QED
    BY <1>8, <2>1, <1>1 DEF ReapTask
<1>9. ASSUME NEW t \in Task, Child(t) PROVE TaskStream(u)'
  <2>1. DataOK /\ DataOK' /\ (proc[t] = "replaying" => "mq" \in ipc[t])
    BY <1>0, ReplayingHasQueue DEF TypeOK, DataOK
  <2> QED
    BY <1>9, <1>s, <2>1, ChildKeepsStream
<1>14. CASE UNCHANGED vars
  BY <1>14, <1>1 DEF vars
<1> QED
  BY <1>2, <1>3, <1>4, <1>5, <1>6, <1>7, <1>8, <1>9, <1>14
  DEF Next, CallStep, RunStep, GetStep, FreeStep

\* A client of a task sees all its reports, in order, and FIN after them.
THEOREM StreamIsOrdered ==
    ASSUME "pipe" \notin Faults, "cgroup" \notin Faults
    PROVE  Spec => []StreamInOrder
<1> DEFINE I == IInv /\ StreamInv
<1>1. Init => StreamInv
  BY SMT DEF Init, StreamInv, StreamInOrder, FinQueued
<1>2. Init => I
  BY <1>1, IInvInit
<1>3. I /\ [Next]_vars => I'
  BY IInvNext, StreamInvNext
<1>4. I => StreamInOrder
  BY DEF StreamInv
<1> QED
  BY <1>2, <1>3, <1>4, PTL DEF Spec

-----------------------------------------------------------------------------
(* For the clients of the driver: what a step does to the parent.          *)

\* What a step inside a call does, by where the call is.
CallMove ==
    \/ /\ pc \in Setup \cup {"tell"}
       /\ finGot' \subseteq finGot
       /\ pc = "tell" =>
             finGot' = finGot /\ pc' \notin Setup /\ UNCHANGED ids
       /\ \/ pc' \in Setup \cup {"tell"}
          \/ pc' = "idle" /\ ret' = "error"
          \/ pc' = "idle" /\ pc = "tell"
    \/ /\ pc = "recv" /\ pc' = "idle" /\ UNCHANGED <<cur, ids>>
       /\ \/ ret' = "FIN" /\ finGot' = finGot \cup {cur}
          \/ ret' # "FIN" /\ finGot' = finGot
    \/ /\ pc \in {"semwait", "copy", "sempost"}
       /\ pc' \in {"copy", "sempost", "idle"}
       /\ UNCHANGED <<ids, finGot>>
    \/ /\ pc \in {"kill", "wait"} /\ pc' \in {"kill", "wait", "uninit"}
       /\ UNCHANGED finGot

LEMMA CallMoves ==
    ASSUME TypeOK, CallStep PROVE CallMove
<1> USE DEF CallMove
<1> USE DEF Setup, childVars, ipcVars, clientVars
<1>1. CASE RunStep
  <2>1. CASE Fork \/ SetCgroup \/ SemInit \/ ShmInit \/ MqInit \/ TellChild
    BY <2>1 DEF Fork, SetCgroup, SemInit, ShmInit, MqInit, TellChild, Return
  <2>2. ASSUME NEW f, RunFails(f), pc \in Setup
        PROVE  pc' = "idle" /\ ret' = "error" /\ finGot' = finGot
    BY <2>2 DEF RunFails, Return
  <2> QED
    BY <1>1, <2>1, <2>2 DEF RunStep
<1>2. CASE Receive
  <2>1. CASE Head(queue[cur]).type = "FIN"
    BY <1>2, <2>1 DEF Receive, Return
  <2>2. CASE Head(queue[cur]).type # "FIN"
    BY <1>2, <2>2 DEF Receive, Return
  <2> QED
    BY <2>1, <2>2
<1>3. CASE SemWait \/ CopyTotal \/ SemPost
  BY <1>3 DEF SemWait, CopyTotal, SemPost, Return
<1>4. CASE FreeStep
  BY <1>4 DEF FreeStep, SkipTask, KillTask, ReapTask, Advance
<1> QED
  BY <1>1, <1>2, <1>3, <1>4 DEF CallStep, GetStep

-----------------------------------------------------------------------------
(* The driver implements ResultStream: the initial states agree, and every  *)
(* step of the driver is a step of the stream or leaves it alone.          *)

\* The refinement mapping by name.
Live == {t \in Task : proc[t] # "none"}
Open == {"cloned", "waiting", "exec", "replaying"}
Closed == {t \in Task : proc[t] \notin Open /\ proc[t] # "none"}
Final == {t \in Task : shm[t] = "full"}
Shown == IF pc = "copy" THEN {cur} ELSE {}

\* A getter works on a task that has its identifier.
AskInv ==
    /\ pc = "recv" => "mq" \in ids[cur]
    /\ pc \in {"semwait", "copy", "sempost"} => "shm" \in ids[cur]

\* The results are not written before the child has sent FIN.
FreshInv ==
    \A t \in Task : proc[t] \in Open \cup {"fin"} => shm[t] = "empty"

RInv == IInv /\ StreamInv /\ AskInv /\ FreshInv

\* What the steps of the getters and the children need of it.
GetInv ==
    /\ DataOK /\ SemInv /\ FreshInv
    /\ \A t \in Task : TaskStream(t)
    /\ pc \in {"recv", "semwait"} => proc[cur] # "none"

LEMMA RInvGets == RInv => GetInv
<1> SUFFICES ASSUME RInv PROVE GetInv
  OBVIOUS
<1>1. DataOK /\ SemInv /\ FreshInv
  BY TypeData DEF RInv, IInv, TypeInv
<1>2. \A t \in Task : TaskStream(t)
  BY <1>1, StreamSplit DEF RInv, TaskStream
<1>3. pc \in {"recv", "semwait"} => proc[cur] # "none"
  BY <1>1 DEF DataOK, RInv, IInv, CtlInv, AskInv
<1> QED
  BY <1>1, <1>2, <1>3 DEF GetInv

-----------------------------------------------------------------------------
(* The invariant                                                           *)

LEMMA AskNext == TypeOK /\ AskInv /\ [Next]_vars => AskInv'
<1> SUFFICES ASSUME TypeOK, AskInv, [Next]_vars PROVE AskInv'
  OBVIOUS
<1> USE DEF AskInv, TypeOK, parentVars, childVars, ipcVars, clientVars
<1>1. CASE Call
  BY <1>1 DEF Call, RunnerInit, RunnerInitAgain, RunnerRun, RunnerFree,
     GetInterval, GetTotal, Callable
<1>2. CASE RunStep
  <2>1. CASE \E f : RunFails(f)
    BY <2>1 DEF RunFails, Return
  <2>2. CASE Fork \/ SetCgroup \/ SemInit \/ ShmInit \/ MqInit \/ TellChild
    BY <2>2 DEF Fork, SetCgroup, SemInit, ShmInit, MqInit, TellChild, Return
  <2> QED
    BY <1>2, <2>1, <2>2 DEF RunStep
<1>3. CASE GetStep
  BY <1>3 DEF GetStep, Receive, SemWait, CopyTotal, SemPost, Return
<1>4. CASE FreeStep
  BY <1>4 DEF FreeStep, SkipTask, KillTask, ReapTask, Advance
<1>5. ASSUME NEW t \in Task, Child(t) PROVE AskInv'
  <2>1. UNCHANGED <<pc, cur, ids>>
    BY <1>5 DEF Child, Replay, Await, WaitParent, Exec, Report, SendFin,
       WriteTotal, EndWrite, PostTotal, Die
  <2> QED
    BY <2>1
<1>6. CASE UNCHANGED vars
  BY <1>6 DEF vars
<1> QED
  BY <1>1, <1>2, <1>3, <1>4, <1>5, <1>6 DEF Next, CallStep

LEMMA ChildKeepsFresh ==
    ASSUME DataOK, FreshInv, NEW t \in Task, Child(t) PROVE FreshInv'
<1> SUFFICES ASSUME NEW u \in Task, proc'[u] \in Open \cup {"fin"}
             PROVE  shm'[u] = "empty"
  BY DEF FreshInv
<1> USE DEF FreshInv, DataOK, Open, ipcVars
<1>1. CASE Await(t) \/ WaitParent(t) \/ Exec(t) \/ Report(t) \/ Die(t)
  BY <1>1 DEF Await, WaitParent, Exec, Report, Die
<1>2. CASE SendFin(t)
  BY <1>2 DEF SendFin
<1>3. CASE WriteTotal(t)
  BY <1>3 DEF WriteTotal
<1>4. CASE EndWrite(t) \/ PostTotal(t)
  BY <1>4 DEF EndWrite, PostTotal
<1> QED
  BY <1>1, <1>2, <1>3, <1>4 DEF Child, Replay

LEMMA FreshNext == TypeOK /\ FreshInv /\ [Next]_vars => FreshInv'
<1> SUFFICES ASSUME TypeOK, FreshInv, [Next]_vars, NEW u \in Task,
                    proc'[u] \in Open \cup {"fin"}
             PROVE  shm'[u] = "empty"
  BY DEF FreshInv
<1> USE DEF FreshInv, TypeOK, Open, parentVars, childVars, ipcVars, clientVars
<1>1. CASE UNCHANGED <<proc, shm>>
  BY <1>1
<1>2. CASE Fork
  BY <1>2 DEF Fork
<1>3. CASE ReapTask
  BY <1>3 DEF ReapTask
<1>4. ASSUME NEW t \in Task, Child(t) PROVE shm'[u] = "empty"
  BY <1>4, ChildKeepsFresh, TypeData DEF FreshInv
<1>5. ~Fork /\ ~ReapTask /\ ~(\E t \in Task : Child(t))
      => UNCHANGED <<proc, shm>>
  BY DEF Next, Call, CallStep, RunStep, GetStep, FreeStep, RunnerInit,
     RunnerInitAgain, RunnerRun, RunnerFree, GetInterval, GetTotal,
     SetCgroup, SemInit, ShmInit, MqInit, TellChild, RunFails, Receive,
     SemWait, CopyTotal, SemPost, SkipTask, KillTask, vars
<1> QED
  BY <1>1, <1>2, <1>3, <1>4, <1>5

LEMMA RInvInit == Init => RInv
<1>1. Init => StreamInv
  BY SMT DEF Init, StreamInv, StreamInOrder, FinQueued
<1>2. Init => AskInv /\ FreshInv
  BY DEF Init, AskInv, FreshInv, Open
<1> QED
  BY <1>1, <1>2, IInvInit DEF RInv

LEMMA RInvNext ==
    ASSUME "pipe" \notin Faults, "cgroup" \notin Faults
    PROVE  RInv /\ [Next]_vars => RInv'
  BY IInvNext, StreamInvNext, AskNext, FreshNext DEF RInv, IInv, TypeInv

-----------------------------------------------------------------------------
(* The steps                                                               *)

\* A step that is none of the stream's.
LEMMA Stutters ==
    ASSUME Live' = Live, sent' = sent, got' = got, Closed' = Closed,
           finGot' = finGot, Final' = Final, Shown' = Shown
    PROVE  UNCHANGED RS!streamVars
  BY DEF RS!streamVars, Live, Closed, Final, Shown, Open

\* A task that is started begins a stream.
LEMMA Starts ==
    ASSUME DataOK, NEW t \in Task, proc[t] = "none",
           pc # "copy", pc' # "copy",
           proc' = [proc EXCEPT ![t] = "cloned"],
           shm' = [shm EXCEPT ![t] = "empty"],
           sent' = [sent EXCEPT ![t] = 0], got' = [got EXCEPT ![t] = 0],
           finGot' = finGot \ {t}
    PROVE  RS!Start(t)
<1> USE DEF DataOK
<1>1. Live' = Live \cup {t} /\ t \notin Live
  BY DEF Live
<1>2. Closed' = Closed
  BY DEF Closed, Open
<1>3. Final' = Final \ {t} /\ Shown' = Shown
  BY DEF Final, Shown
<1> QED
  BY <1>1, <1>2, <1>3 DEF RS!Start, Live, Closed, Final, Shown, Open

LEMMA ForkStarts ==
    ASSUME RInv, Fork, NEW t \in Task, t = cur
    PROVE  RS!Start(t)
<1>1. DataOK /\ proc[t] = "none"
  BY TypeData DEF RInv, IInv, TypeInv, CtlInv, Fork
<1> QED
  BY <1>1, Starts DEF Fork

\* A task that is gone ends its stream.
LEMMA Stops ==
    ASSUME DataOK, NEW t \in Task, proc[t] # "none",
           pc # "copy", pc' # "copy",
           proc' = [proc EXCEPT ![t] = "none"],
           UNCHANGED <<sent, got, finGot, shm>>
    PROVE  RS!Stop(t)
<1>1. /\ t \in Live /\ Live' = Live \ {t}
      /\ Closed' = Closed \ {t} /\ Final' = Final
      /\ Shown = {} /\ Shown' = {}
  BY DEF DataOK, Live, Closed, Final, Shown, Open
<1> QED
  BY <1>1 DEF RS!Stop, Live, Closed, Final, Shown, Open

\* A call of the client, and the steps of a call that touch no stream.
LEMMA CallsStutter ==
    ASSUME RInv,
           \/ Call \/ SetCgroup \/ SemInit \/ ShmInit \/ MqInit \/ TellChild
           \/ SemPost \/ SkipTask \/ KillTask
           \/ \E f : RunFails(f) /\ pc \in Setup
    PROVE  UNCHANGED RS!streamVars
<1>1. UNCHANGED <<proc, sent, got, finGot, shm>>
  BY DEF Call, RunnerInit, RunnerInitAgain, RunnerRun, RunnerFree,
     GetInterval, GetTotal, SetCgroup, SemInit, ShmInit, MqInit, TellChild,
     RunFails, SemPost, SkipTask, KillTask, childVars, ipcVars, clientVars
<1>2. pc # "copy" /\ pc' # "copy"
  BY DEF Call, RunnerInit, RunnerInitAgain, RunnerRun, RunnerFree,
     GetInterval, GetTotal, SetCgroup, SemInit, ShmInit, MqInit, TellChild,
     RunFails, SemPost, SkipTask, KillTask, Return, Advance, Callable, Setup
<1>3. Live' = Live /\ Closed' = Closed /\ Final' = Final /\ Shown' = Shown
  BY <1>1, <1>2 DEF Live, Closed, Final, Shown
<1> QED
  BY <1>1, <1>3, Stutters

\* The message a getter takes is the next report or the FIN behind them all.
LEMMA ReceiveDelivers ==
    ASSUME GetInv, Receive
    PROVE  RS!Deliver(cur) \/ RS!DeliverFin(cur)
<1>1. /\ cur \in Task /\ queue[cur] \in Seq(Msg)
      /\ sent[cur] \in Nat /\ got[cur] \in Nat
      /\ got \in [Task -> 0..MaxReports]
  BY DriverAssumption DEF GetInv, DataOK
<1>2. /\ pc = "recv" /\ queue[cur] # <<>>
      /\ UNCHANGED <<proc, shm, sent>> /\ pc' = "idle"
  BY DEF Receive, Return, childVars
<1>3. TaskStream(cur)
  BY <1>1 DEF GetInv
<1>4. cur \in Live /\ cur \notin finGot
  BY <1>1, <1>2, <1>3 DEF GetInv, Live, TaskStream
<1>5. Live' = Live /\ Closed' = Closed /\ Final' = Final /\ Shown' = Shown
  BY <1>2 DEF Live, Closed, Final, Shown
<1>6. /\ Len(queue[cur]) \in Nat \ {0}
      /\ Head(queue[cur]) = queue[cur][1]
  BY <1>1, <1>2
<1>7. Stream(queue[cur], sent[cur], got[cur])
  BY <1>3 DEF TaskStream
<1>8. CASE Head(queue[cur]).type = "FIN"
  <2>1. /\ got' = [got EXCEPT ![cur] = got[cur]]
        /\ finGot' = finGot \cup {cur}
    BY <1>8 DEF Receive
  <2>2. got' = got
    BY <1>1, <2>1
  <2>3. sent[cur] = got[cur]
    BY <1>1, <1>2, <1>7, <1>8, TakeHead
  <2>4. EndsInFin(queue[cur])
    BY <1>2, <1>6, <1>7, <1>8, SMT DEF Stream, EndsInFin
  <2>5. cur \in Closed
    BY <1>1, <1>3, <1>4, <2>4 DEF TaskStream, Closed, Live, Open
  <2> QED
    BY <1>2, <1>4, <1>5, <2>1, <2>2, <2>3, <2>5
    DEF RS!DeliverFin, Live, Closed, Final, Shown, Open
<1>9. CASE Head(queue[cur]).type # "FIN"
  <2>1. Head(queue[cur]).time = got[cur] + 1
    BY <1>6, <1>7, <1>9 DEF Stream
  <2>2. got' = [got EXCEPT ![cur] = got[cur] + 1] /\ finGot' = finGot
    BY <1>9, <2>1 DEF Receive
  <2>3. got[cur] < sent[cur]
    <3>1. Len(queue[cur]) = 1 => ~EndsInFin(queue[cur])
      BY <1>6, <1>9 DEF EndsInFin
    <3>. DEFINE n == Len(queue[cur])
    <3>2. CASE EndsInFin(queue[cur])
      <4>1. sent[cur] = got[cur] + n - 1
        BY <1>7, <3>2 DEF Stream
      <4>2. n \in Nat \ {0} /\ n # 1
        BY <1>6, <3>1, <3>2
      <4>. HIDE DEF n
      <4>. QED BY <1>1, <4>1, <4>2
    <3>3. CASE ~EndsInFin(queue[cur])
      <4>1. sent[cur] = got[cur] + n - 0
        BY <1>7, <3>3 DEF Stream
      <4>2. n \in Nat \ {0}
        BY <1>6
      <4>. HIDE DEF n
      <4>. QED BY <1>1, <4>1, <4>2
    <3> QED
      BY <3>2, <3>3
  <2> QED
    BY <1>2, <1>4, <1>5, <2>2, <2>3
    DEF RS!Deliver, Live, Closed, Final, Shown, Open
<1> QED
  BY <1>8, <1>9

\* A semaphore that is taken belongs to a complete total of a live task.
LEMMA SemWaitShows ==
    ASSUME GetInv, SemWait PROVE RS!Show(cur)
<1> USE DEF GetInv, DataOK
<1>1. /\ cur \in Task /\ sem[cur] = 1 /\ pc = "semwait" /\ pc' = "copy"
      /\ cur' = cur /\ UNCHANGED <<proc, sent, got, finGot, shm>>
  BY DEF SemWait, childVars, clientVars
<1>2. shm[cur] = "full" /\ proc[cur] # "none"
  BY <1>1 DEF SemInv
<1>3. /\ cur \in Live /\ cur \in Final /\ Shown = {} /\ Shown' = {cur}
      /\ Live' = Live /\ Closed' = Closed /\ Final' = Final
  BY <1>1, <1>2 DEF Live, Closed, Final, Shown
<1> QED
  BY <1>1, <1>3 DEF RS!Show, Live, Closed, Final, Shown, Open

LEMMA CopyIsShown ==
    ASSUME CopyTotal PROVE RS!Shown
<1>1. /\ pc' # "copy" /\ UNCHANGED <<proc, sent, got, finGot, shm>>
  BY DEF CopyTotal, Return, childVars, ipcVars, clientVars
<1>2. /\ Live' = Live /\ Closed' = Closed /\ Final' = Final /\ Shown' = {}
  BY <1>1 DEF Live, Closed, Final, Shown
<1> QED
  BY <1>1, <1>2 DEF RS!Shown, Live, Closed, Final, Shown, Open

LEMMA ReapStops ==
    ASSUME RInv, ReapTask, NEW t \in Task, t = cur
    PROVE  RS!Stop(t)
<1>1. DataOK
  BY TypeData DEF RInv, IInv, TypeInv
<1>2. /\ proc[t] # "none" /\ pc # "copy" /\ pc' # "copy"
      /\ proc' = [proc EXCEPT ![t] = "none"]
      /\ UNCHANGED <<sent, got, finGot, shm>>
  BY DEF ReapTask, Advance, clientVars
<1> QED
  BY <1>1, <1>2, Stops

\* What a child does, alone or killed.
LEMMA ChildProduces ==
    ASSUME DataOK, FreshInv, NEW t \in Task, Child(t)
    PROVE  \/ RS!Produce(t) \/ RS!Close(t) \/ RS!Complete(t)
           \/ UNCHANGED RS!streamVars
<1> USE DEF DataOK, clientVars, parentVars, ipcVars
<1>0. /\ UNCHANGED <<pc, cur, got, finGot>> /\ Shown' = Shown
  BY DEF Child, Replay, Await, WaitParent, Exec, Report, SendFin, WriteTotal,
     EndWrite, PostTotal, Die, Shown
<1>1. CASE Report(t)
  <2>1. /\ proc[t] = "replaying" /\ UNCHANGED <<proc, shm>>
        /\ sent' = [sent EXCEPT ![t] = @ + 1]
    BY <1>1 DEF Report
  <2>2. /\ t \in Live \ Closed
        /\ Live' = Live /\ Closed' = Closed /\ Final' = Final
    BY <2>1 DEF Live, Closed, Final, Open
  <2> QED
    BY <1>0, <2>1, <2>2 DEF RS!Produce, Live, Closed, Final, Shown, Open
<1>2. CASE /\ proc[t] \in Open
           /\ \E p \in {"fin", "exited", "stuck"} :
                 proc' = [proc EXCEPT ![t] = p]
           /\ UNCHANGED <<sent, shm>>
  <2>1. /\ t \in Live \ Closed /\ Live' = Live
        /\ Closed' = Closed \cup {t} /\ Final' = Final
    BY <1>2 DEF Live, Closed, Final, Open
  <2> QED
    BY <1>0, <1>2, <2>1 DEF RS!Close, Live, Closed, Final, Shown, Open
<1>3. CASE /\ \/ proc[t] \in Open /\ proc'[t] \in Open
              \/ /\ proc[t] \notin Open \cup {"none"}
                 /\ proc'[t] \notin Open \cup {"none"}
           /\ \A u \in Task : u # t => proc'[u] = proc[u]
           /\ sent' = sent /\ Final' = Final
  <2>1. Live' = Live /\ Closed' = Closed
    BY <1>3 DEF Live, Closed, Open
  <2> QED
    BY <1>0, <1>3, <2>1, Stutters
<1>4. CASE Await(t) \/ WaitParent(t)
  BY <1>3, <1>4 DEF Await, WaitParent, Open, Final
<1>5. CASE Exec(t)
  <2>1. CASE proc' = [proc EXCEPT ![t] = "replaying"]
    BY <1>3, <1>5, <2>1 DEF Exec, Open, Final
  <2>2. CASE proc' = [proc EXCEPT ![t] = "exited"]
    BY <1>2, <1>5, <2>2 DEF Exec, Open
  <2> QED
    BY <1>5, <2>1, <2>2 DEF Exec
<1>6. CASE SendFin(t)
  BY <1>2, <1>6 DEF SendFin, Open
<1>7. CASE WriteTotal(t)
  <2>1. shm[t] = "empty" /\ shm'[t] # "full"
        /\ \A u \in Task : u # t => shm'[u] = shm[u]
    BY <1>7 DEF WriteTotal, FreshInv, Open
  <2>2. Final' = Final
    BY <2>1 DEF Final
  <2> QED
    BY <1>3, <1>7, <2>2 DEF WriteTotal, Open
<1>8. CASE EndWrite(t)
  <2>1. /\ proc[t] = "total" /\ proc' = [proc EXCEPT ![t] = "written"]
        /\ shm' = [shm EXCEPT ![t] = "full"] /\ sent' = sent
    BY <1>8 DEF EndWrite
  <2>2. CASE shm[t] = "full"
    BY <1>3, <2>1, <2>2 DEF Open, Final
  <2>3. CASE shm[t] # "full"
    <3>1. /\ t \in Live \cap Closed /\ t \notin Final
          /\ Live' = Live /\ Closed' = Closed /\ Final' = Final \cup {t}
      BY <2>1, <2>3 DEF Live, Closed, Final, Open
    <3> QED
      BY <1>0, <2>1, <3>1 DEF RS!Complete, Live, Closed, Final, Shown, Open
  <2> QED
    BY <2>2, <2>3
<1>9. CASE PostTotal(t)
  BY <1>3, <1>9 DEF PostTotal, Open, Final
<1>10. CASE Die(t)
  <2>1. /\ proc[t] \in Alive /\ UNCHANGED <<sent, shm>>
        /\ \E p \in {"exited", "stuck"} : proc' = [proc EXCEPT ![t] = p]
    BY <1>10 DEF Die
  <2>2. CASE proc[t] \in Open
    BY <1>2, <2>1, <2>2
  <2>3. CASE proc[t] \notin Open
    BY <1>3, <2>1, <2>3 DEF Open, Final, Alive, Running
  <2> QED
    BY <2>2, <2>3
<1> QED
  BY <1>1, <1>4, <1>5, <1>6, <1>7, <1>8, <1>9, <1>10 DEF Child, Replay

\* Every step of the driver is one of the stream, or none.
LEMMA StepRefines == RInv /\ [Next]_vars => [RS!Next]_RS!streamVars
<1> SUFFICES ASSUME RInv, [Next]_vars PROVE [RS!Next]_RS!streamVars
  OBVIOUS
<1>0. cur \in Task
  BY DEF RInv, IInv, TypeInv, TypeOK
<1>1. CASE UNCHANGED vars
  <2>1. /\ UNCHANGED <<sent, got, finGot>>
        /\ Live' = Live /\ Closed' = Closed /\ Final' = Final
        /\ Shown' = Shown
    BY <1>1 DEF vars, parentVars, childVars, ipcVars, clientVars, Live,
       Closed, Final, Shown
  <2> QED
    BY <2>1, Stutters
<1>2. CASE Fork \/ Receive \/ SemWait \/ CopyTotal \/ ReapTask
  <2>1. CASE Fork
    <3>1. \E t \in Task : RS!Start(t)
      BY <1>0, <2>1, ForkStarts
    <3> QED
      BY <3>1 DEF RS!Next
  <2>2. CASE Receive
    BY <1>0, <2>2, RInvGets, ReceiveDelivers DEF RS!Next
  <2>3. CASE SemWait
    BY <1>0, <2>3, RInvGets, SemWaitShows DEF RS!Next
  <2>4. CASE CopyTotal
    BY <2>4, CopyIsShown DEF RS!Next
  <2>5. CASE ReapTask
    <3>1. \E t \in Task : RS!Stop(t)
      BY <1>0, <2>5, ReapStops
    <3> QED
      BY <3>1 DEF RS!Next
  <2> QED
    BY <1>2, <2>1, <2>2, <2>3, <2>4, <2>5
<1>3. ASSUME NEW t \in Task, Child(t) PROVE [RS!Next]_RS!streamVars
  BY <1>3, RInvGets, ChildProduces DEF GetInv, RS!Next
<1>4. CASE \/ Call \/ SetCgroup \/ SemInit \/ ShmInit \/ MqInit \/ TellChild
           \/ SemPost \/ SkipTask \/ KillTask
           \/ \E f : RunFails(f) /\ pc \in Setup
  BY <1>4, CallsStutter
<1> QED
  BY <1>1, <1>2, <1>3, <1>4
  DEF Next, CallStep, RunStep, GetStep, FreeStep, Setup

\* The driver implements ResultStream: whatever the client calls, however the
\* children are scheduled and wherever SIGTERM stops them, a client is given
\* each report once and in order, FIN behind them and only complete totals
\* (tr-mq.c:128, tr-shm.c:241, trace_replay.c:976).
THEOREM DriverImplementsStream ==
    ASSUME "pipe" \notin Faults, "cgroup" \notin Faults
    PROVE  Spec => ImplementsStream
<1>1. Init => RS!Init
  BY DEF Init, RS!Init
<1> QED
  BY <1>1, RInvInit, RInvNext, StepRefines, PTL
  DEF Spec, ImplementsStream, RS!Spec
=============================================================================
