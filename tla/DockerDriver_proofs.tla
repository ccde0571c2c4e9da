------------------------ MODULE DockerDriver_proofs ------------------------
(***************************************************************************)
(* What holds of the docker driver for every number of containers and every *)
(* set of failures: containers run when all of them are set up, lose no     *)
(* object while they run, leave none behind, and implement ResultStream.    *)
(* The getters and the containers take the steps of TrDriver, and of them   *)
(* the proof of TrDriver is used; set-up, start and free are their own.     *)
(***************************************************************************)
EXTENDS DockerDriver, TrDriver_proofs

Shape ==
    /\ cur \in Task
    /\ proc \in [Task -> ProcState]
    /\ ids \in [Task -> SUBSET Ipc] /\ ipc \in [Task -> SUBSET Ipc]
    /\ pid \subseteq Task

Build == {"create", "sem", "shm", "mq"}

\* Where a container can exist, and where it can have been started.
Control ==
    /\ pc \in {"uninit", "ready"} => \A t \in Task : proc[t] = "none"
    /\ pc \in Build =>
          /\ \A t \in Task : proc[t] \in {"none", "cloned"}
          /\ \A t \in Task : t > cur => proc[t] = "none"
    /\ pc = "create" => proc[cur] = "none"
    /\ pc \in {"sem", "shm", "mq"} => proc[cur] = "cloned" /\ cur \in pid
    /\ pc = "start" => \A t \in Task : t >= cur => proc[t] = "cloned"
    /\ pc = "weight" => \A t \in Task : t > cur => proc[t] = "cloned"
    /\ pc = "wait" => proc[cur] = "none"
    /\ pc \in {"kill", "wait"} => \A t \in Task : t < cur => proc[t] = "none"

\* A task without a container knows of no object, but for the one that is
\* being freed.
Forgotten ==
    \A t \in Task : proc[t] = "none" /\ ~(pc = "wait" /\ cur = t)
                        => ids[t] = {}

\* Set-up leaves the tasks behind it complete, and the containers are started
\* when it is over.
Complete(t) == ids[t] = Ipc /\ ipc[t] = Ipc
Started == pc \in {"start", "weight"} \/ \E t \in Task : proc[t] \in Running
SetUp ==
    /\ pc \in Build => \A u \in Task : u < cur =>
          u \in pid /\ proc[u] = "cloned" /\ Complete(u)
    /\ pc = "shm" => "sem" \in ipc[cur]
    /\ pc = "mq" => {"sem", "shm"} \subseteq ids[cur] \cap ipc[cur]
    /\ Started => /\ pid = Task
                  /\ \A u \in Task : proc[u] # "none" => Complete(u)

DInv == Shape /\ Control /\ Forgotten /\ SetUp

\* Every object is known to its task, but for the semaphore until
\* docker_shm_init ends.
Known ==
    \A t \in Task : \A o \in ipc[t] :
        o \in ids[t] \/ (o = "sem" /\ pc = "shm" /\ cur = t)

-----------------------------------------------------------------------------
(* What the actions have in common                                         *)

LEMMA TaskType ==
    /\ NTasks \in Nat /\ 1 \in Task
    /\ \A t \in Task : t \in Nat /\ 1 <= t /\ t <= NTasks
    /\ \A t \in Task : t < NTasks => t + 1 \in Task
    BY DriverAssumption DEF Task

\* A container's step moves its own state only, and none of its objects.
LEMMA ContainerStep ==
    ASSUME Shape, NEW t \in Task, Container(t)
    PROVE  /\ proc[t] \in Running
           /\ proc'[t] \in Running \cup {"exited"}
           /\ proc' \in [Task -> ProcState]
           /\ \A u \in Task : u # t => proc'[u] = proc[u]
           /\ UNCHANGED <<pc, cur, ids, ipc, pid>>
<1> USE DEF Shape, Running, Alive, ProcState, parentVars, ipcVars
<1>1. UNCHANGED <<pc, cur, ids, ipc, pid>>
  BY DEF Container, Exec, Replay, Report, SendFin, WriteTotal, EndWrite,
     PostTotal
<1>2. CASE Exec(t)
  BY <1>1, <1>2 DEF Exec
<1>3. CASE Report(t)
  BY <1>1, <1>3 DEF Report
<1>4. CASE SendFin(t) \/ EndWrite(t) \/ PostTotal(t)
  BY <1>1, <1>4 DEF SendFin, EndWrite, PostTotal
<1>5. CASE WriteTotal(t)
  BY <1>1, <1>5 DEF WriteTotal
<1> QED
  BY <1>2, <1>3, <1>4, <1>5 DEF Container, Replay

\* Calls and steps that touch neither containers nor objects, by where they
\* lead.
Quiet == UNCHANGED <<proc, ids, ipc, pid>>

LEMMA GetSteps ==
    ASSUME Shape,
           \/ \E t \in Task : DockerGetInterval(t) \/ DockerGetTotal(t)
           \/ DockerGetStep
    PROVE  /\ Quiet /\ cur' \in Task
           /\ pc \in {"ready", "idle", "recv", "semwait", "copy", "sempost"}
           /\ pc' \in {"idle", "recv", "semwait", "copy", "sempost",
                       "aborted"}
<1>1. CASE \E t \in Task : DockerGetInterval(t) \/ DockerGetTotal(t)
  BY <1>1 DEF DockerGetInterval, DockerGetTotal, GetInterval, GetTotal,
     Callable, Quiet, childVars, ipcVars
<1>2. CASE DockerGetStep
  BY <1>2 DEF DockerGetStep, DockerReceive, DockerSemWait, DockerCopyTotal,
     DockerSemPost, Receive, SemWait, CopyTotal, SemPost, Return, Quiet,
     Shape, childVars, ipcVars
<1> QED
  BY <1>1, <1>2

-----------------------------------------------------------------------------
(* The invariant                                                           *)

LEMMA DInvInit == DockerInit => DInv
<1> SUFFICES ASSUME DockerInit PROVE DInv
  OBVIOUS
<1>1. Shape
  BY TaskType DEF DockerInit, Init, Shape, ProcState
<1>2. Control /\ Forgotten
  BY DEF DockerInit, Init, Control, Forgotten, Build
<1>3. SetUp
  BY DEF DockerInit, Init, SetUp, Started, Build, Running
<1> QED
  BY <1>1, <1>2, <1>3 DEF DInv

LEMMA DInvNext == DInv /\ [DockerNext]_dockerVars => DInv'
<1> SUFFICES ASSUME DInv, [DockerNext]_dockerVars PROVE DInv'
  OBVIOUS
<1>0. /\ Shape /\ Control /\ Forgotten /\ SetUp
      /\ NTasks \in Nat /\ cur \in Nat /\ 1 \in Task
      /\ \A t \in Task : t \in Nat /\ 1 <= t /\ t <= NTasks
      /\ cur < NTasks => cur + 1 \in Task
  BY TaskType DEF DInv, Shape
<1> USE <1>0 DEF Shape, Control, Forgotten, SetUp, Started, Complete, Build,
        Running, Alive, ProcState, parentVars, childVars, ipcVars
<1>1. CASE InitDocker
  <2>1. /\ pc = "uninit" /\ pc' \in {"ready", "kill"}
        /\ cur' = 1 /\ pid' = {} /\ UNCHANGED <<proc, ids, ipc>>
    BY <1>1 DEF InitDocker
  <2>2. \A t \in Task : proc'[t] = "none" /\ ids'[t] = {}
    BY <2>1
  <2>3. Shape' /\ Control' /\ Forgotten'
    BY <2>1, <2>2
  <2>4. SetUp'
    BY <2>1, <2>2
  <2> QED
    BY <2>3, <2>4 DEF DInv
<1>2. CASE InitDockerAgain \/ FreeDocker
  <2>1. /\ pc \in {"ready", "idle"} /\ pc' = "kill" /\ cur' = 1
        /\ UNCHANGED <<proc, ids, ipc, pid>>
    BY <1>2 DEF InitDockerAgain, RunnerInitAgain, FreeDocker, RunnerFree,
       Callable
  <2>2. Shape' /\ Control'
    BY <2>1
  <2>3. Forgotten' /\ SetUp'
    BY <2>1
  <2> QED
    BY <2>2, <2>3 DEF DInv
<1>3. CASE RunDocker
  BY <1>3 DEF RunDocker, DInv
<1>4. CASE CreateContainer
  <2>1. /\ pc = "create" /\ pc' = "sem" /\ cur' = cur /\ ids' = ids
        /\ pid' = pid \cup {cur}
        /\ proc' = [proc EXCEPT ![cur] = "cloned"]
        /\ ipc' = [ipc EXCEPT ![cur] = {}]
    BY <1>4 DEF CreateContainer
  <2>2. Shape' /\ Control' /\ Forgotten'
    BY <2>1
  <2>3. SetUp'
    BY <2>1
  <2> QED
    BY <2>2, <2>3 DEF DInv
<1>5. CASE CreateFails
  BY <1>5 DEF CreateFails, Return, DInv
<1>6. CASE SetUpFails
  <2>1. /\ pc \in {"sem", "shm", "mq"} /\ pc' = "idle" /\ cur' = cur
        /\ pid' = pid /\ proc' = [proc EXCEPT ![cur] = "none"]
        /\ ipc' = [ipc EXCEPT ![cur] = @ \ ids[cur]]
        /\ ids' = [ids EXCEPT ![cur] = {}]
    BY <1>6 DEF SetUpFails, Discard, FreeIpc, Return
  <2> QED
    BY <2>1 DEF DInv
<1>7. CASE DockerSemInit
  BY <1>7 DEF DockerSemInit, SemInit, DInv, Ipc
<1>8. CASE DockerShmInit
  BY <1>8 DEF DockerShmInit, ShmInit, DInv, Ipc
<1>9. CASE DockerMqInit
  <2>1. /\ pc = "mq" /\ pid' = pid /\ proc' = proc
        /\ ipc' = [ipc EXCEPT ![cur] = @ \cup {"mq"}]
        /\ ids' = [ids EXCEPT ![cur] = @ \cup {"mq"}]
        /\ IF cur < NTasks THEN pc' = "create" /\ cur' = cur + 1
                           ELSE pc' = "start" /\ cur' = 1
    BY <1>9 DEF DockerMqInit
  <2>2. ids'[cur] = Ipc /\ ipc'[cur] = Ipc
    BY <2>1 DEF Ipc
  <2>3. \A u \in Task : u # cur => ids'[u] = ids[u] /\ ipc'[u] = ipc[u]
    BY <2>1
  <2>4. Shape'
    BY <2>1 DEF Ipc
  <2>5. CASE cur < NTasks
    <3>1. pc' = "create" /\ cur' = cur + 1
      BY <2>1, <2>5
    <3>2. \A u \in Task : u < cur' => u < cur \/ u = cur
      BY <3>1
    <3>3. \A u \in Task : u < cur' =>
             u \in pid' /\ proc'[u] = "cloned" /\ Complete(u)'
      BY <2>1, <2>2, <2>3, <3>2
    <3>4. Control'
      BY <2>1, <2>4, <3>1
    <3>5. Forgotten'
      BY <2>1, <2>3
    <3>6. SetUp'
      BY <2>1, <3>1, <3>3
    <3> QED
      BY <2>4, <3>4, <3>5, <3>6 DEF DInv
  <2>6. CASE ~(cur < NTasks)
    <3>1. pc' = "start" /\ cur' = 1 /\ \A u \in Task : u <= cur
      BY <2>1, <2>6
    <3>2. \A u \in Task : /\ u \in pid /\ proc[u] = "cloned"
                          /\ ids'[u] = Ipc /\ ipc'[u] = Ipc
      BY <2>1, <2>2, <2>3, <3>1
    <3>3. pid' = Task
      <4>1. pid' = pid /\ pid \subseteq Task
        BY <2>1
      <4>2. Task \subseteq pid
        BY <3>2
      <4> QED
        BY <4>1, <4>2, Zenon
    <3>4. Control' /\ Forgotten'
      BY <2>1, <3>1, <3>2
    <3>5. SetUp'
      BY <2>1, <3>1, <3>2, <3>3
    <3> QED
      BY <2>4, <3>4, <3>5 DEF DInv
  <2> QED
    BY <2>5, <2>6
<1>10. CASE StartContainer
  BY <1>10 DEF StartContainer, DInv
<1>11. CASE StartFails
  BY <1>11 DEF StartFails, Discard, FreeIpc, DInv
<1>12. CASE SetWeight
  <2>1. /\ pc = "weight" /\ Quiet
        /\ IF cur < NTasks THEN pc' = "start" /\ cur' = cur + 1
                           ELSE pc' = "idle" /\ UNCHANGED cur
    BY <1>12 DEF SetWeight, Quiet
  <2> QED
    BY <2>1 DEF Quiet, DInv
<1>13. CASE \/ \E t \in Task : DockerGetInterval(t) \/ DockerGetTotal(t)
            \/ DockerGetStep
  BY <1>13, GetSteps DEF Quiet, DInv
<1>14. CASE RemoveContainer
  BY <1>14 DEF RemoveContainer, DInv
<1>15. CASE FreeTask
  <2>1. /\ pc = "wait" /\ pid' = pid /\ proc' = proc
        /\ ipc' = [ipc EXCEPT ![cur] = @ \ ids[cur]]
        /\ ids' = [ids EXCEPT ![cur] = {}]
        /\ IF cur < NTasks THEN pc' = "kill" /\ cur' = cur + 1
                           ELSE pc' = "uninit" /\ cur' = 1
    BY <1>15 DEF FreeTask, FreeIpc, Advance
  <2> QED
    BY <2>1 DEF DInv
<1>16. CASE SpinFree
  BY <1>16 DEF SpinFree, dockerVars, vars, DInv
<1>17. ASSUME NEW t \in Task, Container(t) PROVE DInv'
  BY <1>17, ContainerStep DEF DInv
<1>18. CASE UNCHANGED dockerVars
  BY <1>18 DEF dockerVars, vars, DInv
<1> HIDE DEF DInv
<1> QED
  BY <1>1, <1>2, <1>3, <1>4, <1>5, <1>6, <1>7, <1>8, <1>9, <1>10, <1>11,
     <1>12, <1>13, <1>14, <1>15, <1>16, <1>17, <1>18
  DEF DockerNext, DockerCall, DockerCallStep, DockerRunStep, DockerFreeStep

\* Without a failure between the semaphore and the shared memory every object
\* is known.
LEMMA KnownNext ==
    ASSUME "shm" \notin Faults, DInv, Known, [DockerNext]_dockerVars
    PROVE  Known'
<1> USE DEF DInv, Shape, Known, parentVars, childVars, ipcVars
<1>2. CASE CreateContainer
  BY <1>2 DEF CreateContainer
<1>3. CASE SetUpFails
  BY <1>3 DEF SetUpFails, Discard, FreeIpc, Return
<1>4. CASE DockerSemInit
  BY <1>4 DEF DockerSemInit, SemInit
<1>5. CASE DockerShmInit
  BY <1>5 DEF DockerShmInit, ShmInit
<1>6. CASE DockerMqInit
  BY <1>6 DEF DockerMqInit
<1>7. CASE StartFails
  BY <1>7 DEF StartFails, Discard, FreeIpc
<1>8. CASE FreeTask
  BY <1>8 DEF FreeTask, FreeIpc, Advance
<1>9. CASE \/ InitDocker \/ InitDockerAgain \/ RunDocker \/ FreeDocker
           \/ CreateFails \/ StartContainer \/ SetWeight \/ RemoveContainer
  BY <1>9 DEF InitDocker, InitDockerAgain, RunnerInitAgain, RunDocker,
     FreeDocker, RunnerFree, Callable, CreateFails, Return, StartContainer,
     SetWeight, RemoveContainer
<1>10. CASE \/ \E t \in Task : DockerGetInterval(t) \/ DockerGetTotal(t)
            \/ DockerGetStep
  BY <1>10, GetSteps DEF Quiet
<1>11. ASSUME NEW t \in Task, Container(t) PROVE Known'
  BY <1>11, ContainerStep
<1>12. CASE UNCHANGED dockerVars \/ SpinFree
  BY <1>12 DEF SpinFree, dockerVars, vars
<1> QED
  BY <1>2, <1>3, <1>4, <1>5, <1>6, <1>7, <1>8, <1>9, <1>10, <1>11, <1>12
  DEF DockerNext, DockerCall, DockerCallStep, DockerRunStep, DockerFreeStep

-----------------------------------------------------------------------------
(* The properties                                                          *)

\* No container runs before all of them are set up, and each has its objects
\* from then on (docker-driver.c:476-513).
THEOREM RunsOnlyWhenSetUp == DockerSpec => []RunsWhenSetUp
<1>1. DInv => RunsWhenSetUp
  BY DEF DInv, SetUp, Started, Complete, RunsWhenSetUp, Running
<1> QED
  BY <1>1, DInvInit, DInvNext, PTL DEF DockerSpec

\* A task that has lost its container, or is freed, has no kernel object,
\* unless the shared memory could not be made behind the semaphore
\* (docker-driver.c:499, 506, 519, 615).
THEOREM NoOrphans ==
    ASSUME "shm" \notin Faults
    PROVE  DockerSpec => []NothingOrphaned
<1>1. DockerInit => Known
  BY DEF DockerInit, Init, Known
<1>2. DInv /\ Known => NothingOrphaned
  BY DEF DInv, Shape, Control, Forgotten, Known, NothingOrphaned, Callable
<1>3. DInv /\ Known /\ [DockerNext]_dockerVars => Known'
  BY KnownNext
<1> QED
  BY <1>1, <1>2, <1>3, DInvInit, DInvNext, PTL DEF DockerSpec

\* No object of a container that runs is removed (docker-driver.c:120-124).
THEOREM ObjectsAreKept == DockerSpec => ObjectsOutliveRun
<1>1. DInv /\ [DockerNext]_dockerVars
      => [\A t \in Task : proc[t] \in Running
             => ipc[t] \subseteq ipc'[t]]_dockerVars
  <2> SUFFICES ASSUME DInv, [DockerNext]_dockerVars, NEW t \in Task,
                      proc[t] \in Running
               PROVE  ipc[t] \subseteq ipc'[t]
    OBVIOUS
  <2> USE DEF DInv, Shape, Control, Build, Running, parentVars, childVars,
          ipcVars
  <2>1. CASE UNCHANGED ipc
    BY <2>1
  <2>2. CASE CreateContainer \/ SetUpFails \/ StartFails \/ FreeTask
    <3>1. t # cur
      BY <2>2, TaskType DEF CreateContainer, SetUpFails, StartFails, FreeTask
    <3> QED
      BY <2>2, <3>1 DEF CreateContainer, SetUpFails, StartFails, FreeTask,
         Discard, FreeIpc
  <2>3. CASE DockerSemInit \/ DockerShmInit \/ DockerMqInit
    BY <2>3 DEF DockerSemInit, SemInit, DockerShmInit, ShmInit, DockerMqInit
  <2>4. CASE \E u \in Task : Container(u)
    BY <2>1, <2>4, ContainerStep
  <2>5. CASE \/ \E u \in Task : DockerGetInterval(u) \/ DockerGetTotal(u)
             \/ DockerGetStep
    BY <2>1, <2>5, GetSteps DEF Quiet
  <2>6. CASE \/ InitDocker \/ InitDockerAgain \/ RunDocker \/ FreeDocker
             \/ CreateFails \/ StartContainer \/ SetWeight
             \/ RemoveContainer \/ SpinFree \/ UNCHANGED dockerVars
    BY <2>1, <2>6 DEF InitDocker, InitDockerAgain, RunnerInitAgain,
       RunDocker, FreeDocker, RunnerFree, CreateFails, StartContainer,
       SetWeight, RemoveContainer, SpinFree, dockerVars, vars
  <2> QED
    BY <2>2, <2>3, <2>4, <2>5, <2>6
    DEF DockerNext, DockerCall, DockerCallStep, DockerRunStep, DockerFreeStep
<1> QED
  BY <1>1, DInvInit, DInvNext, PTL DEF DockerSpec, ObjectsOutliveRun

-----------------------------------------------------------------------------
(* The docker driver implements ResultStream                               *)

EInv == DInv /\ GetInv

Getter == {"recv", "semwait", "copy", "sempost"}

-----------------------------------------------------------------------------
(* The invariant together with that of the getters                        *)

LEMMA EInvInit == DockerInit => EInv
<1> SUFFICES ASSUME DockerInit PROVE GetInv
  BY DInvInit DEF EInv
<1>1. DataOK
  BY TaskType, DriverAssumption
  DEF DockerInit, Init, DataOK, ProcState, Ipc
<1>2. SemInv /\ FreshInv
  BY DEF DockerInit, Init, SemInv, Holding, FreshInv, Alive, Running
<1>3. \A t \in Task : TaskStream(t)
  BY SMT DEF DockerInit, Init, TaskStream, Stream, EndsInFin
<1> QED
  BY <1>1, <1>2, <1>3 DEF DockerInit, Init, GetInv

\* A step that neither reads nor writes a result: a container is left alone,
\* started or removed.
Aside ==
    /\ UNCHANGED <<queue, shm, sent, got, finGot>>
    /\ sem' = sem \/ (\E t \in Task : sem' = [sem EXCEPT ![t] = 0])
    /\ pc' \notin Getter
    /\ \A t \in Task : \/ proc'[t] \in {proc[t], "none"}
                       \/ proc[t] = "cloned" /\ proc'[t] = "exec"

LEMMA AsideKeeps ==
    ASSUME GetInv, DInv', Aside
    PROVE  GetInv'
<1>1. DataOK'
  BY DEF GetInv, DataOK, DInv, Shape, Aside
<1>2. SemInv'
  BY DEF GetInv, DataOK, SemInv, Holding, Aside, Getter, Alive, Running
<1>3. FreshInv'
  BY DEF GetInv, FreshInv, Aside, Open
<1>4. \A t \in Task : TaskStream(t)'
  BY StreamKept DEF GetInv, Aside
<1> QED
  BY <1>1, <1>2, <1>3, <1>4 DEF GetInv, Aside, Getter

\* Set-up but for the new container, start and free are such steps.
LEMMA StepsAside ==
    ASSUME DInv,
           \/ InitDocker \/ InitDockerAgain \/ RunDocker \/ FreeDocker
           \/ CreateFails \/ SetUpFails \/ DockerSemInit \/ DockerShmInit
           \/ DockerMqInit \/ StartContainer \/ StartFails \/ SetWeight
           \/ DockerFreeStep
    PROVE  Aside
<1> USE DEF DInv, Shape, Aside, Getter, childVars, ipcVars, clientVars
<1>1. CASE \/ InitDocker \/ InitDockerAgain \/ FreeDocker \/ CreateFails
           \/ SetWeight
  BY <1>1 DEF InitDocker, InitDockerAgain, RunnerInitAgain, FreeDocker,
     RunnerFree, CreateFails, SetWeight, Return
<1>2. CASE RunDocker
  BY <1>2 DEF RunDocker
<1>3. CASE SetUpFails
  BY <1>3 DEF SetUpFails, Discard, FreeIpc, Return
<1>4. CASE DockerSemInit \/ DockerShmInit \/ DockerMqInit
  BY <1>4 DEF DockerSemInit, SemInit, DockerShmInit, ShmInit, DockerMqInit
<1>5. CASE StartContainer
  <2>1. proc[cur] = "cloned"
    BY <1>5, TaskType DEF Control, StartContainer
  <2> QED
    BY <1>5, <2>1 DEF StartContainer
<1>6. CASE StartFails
  BY <1>6 DEF StartFails, Discard, FreeIpc
<1>7. CASE RemoveContainer
  BY <1>7 DEF RemoveContainer
<1>8. CASE FreeTask
  BY <1>8 DEF FreeTask, FreeIpc, Advance
<1>9. CASE SpinFree
  BY <1>9 DEF SpinFree, dockerVars, vars, parentVars
<1> QED
  BY <1>1, <1>2, <1>3, <1>4, <1>5, <1>6, <1>7, <1>8, <1>9
  DEF DockerFreeStep

LEMMA EInvNext == EInv /\ [DockerNext]_dockerVars => EInv'
<1> SUFFICES ASSUME EInv, [DockerNext]_dockerVars PROVE EInv'
  OBVIOUS
<1>0. DInv /\ DInv' /\ GetInv
  BY DInvNext DEF EInv
<1>1. CASE CreateContainer
  <2>1. /\ cur \in Task /\ pc' = "sem" /\ DataOK /\ DataOK'
    <3>1. <<>> \in Seq(Msg) /\ 0 \in 0..MaxReports
      BY DriverAssumption
    <3> QED
      BY <1>0, <1>1, <3>1 DEF GetInv, DataOK, DInv, Shape, CreateContainer
  <2>2. SemInv' /\ FreshInv'
    BY <1>0, <1>1, <2>1 DEF GetInv, DataOK, SemInv, Holding, FreshInv,
       CreateContainer
  <2>3. ASSUME NEW t \in Task PROVE TaskStream(t)'
    <3>1. CASE t = cur
      <4>1. queue'[t] = <<>> /\ sent'[t] = 0 /\ got'[t] = 0 /\ t \notin finGot'
        BY <1>1, <2>1, <3>1 DEF CreateContainer, DataOK
      <4> QED
        BY <4>1, SMT DEF TaskStream, Stream, EndsInFin
    <3>2. CASE t # cur
      BY <1>0, <1>1, <2>1, <3>2, StreamKept DEF GetInv, CreateContainer, DataOK
    <3> QED
      BY <3>1, <3>2
  <2> QED
    BY <1>0, <2>1, <2>2, <2>3 DEF EInv, GetInv
<1>2. ASSUME NEW t \in Task, DockerGetInterval(t) \/ DockerGetTotal(t)
      PROVE  EInv'
  <2>1. /\ pc \in {"ready", "idle"} /\ cur' = t
        /\ pc' \in {"recv", "semwait", "aborted"}
        /\ pc' # "aborted" => ids[t] # {}
        /\ UNCHANGED <<childVars, ipcVars, clientVars>>
    BY <1>2 DEF DockerGetInterval, DockerGetTotal, GetInterval, GetTotal,
       Callable
  <2>2. pc' # "aborted" => proc'[t] # "none"
    BY <1>0, <2>1 DEF DInv, Forgotten, childVars
  <2>3. DataOK' /\ SemInv' /\ FreshInv'
    BY <1>0, <2>1 DEF GetInv, DataOK, SemInv, Holding, FreshInv, childVars,
       ipcVars, clientVars
  <2>4. \A u \in Task : TaskStream(u)'
    BY <1>0, <2>1, StreamKept DEF GetInv, childVars, ipcVars, clientVars
  <2> QED
    BY <1>0, <2>1, <2>2, <2>3, <2>4 DEF EInv, GetInv
<1>3. CASE DockerGetStep
  <2>1. GetStep
    BY <1>3 DEF DockerGetStep, DockerReceive, DockerSemWait, DockerCopyTotal,
       DockerSemPost, GetStep
  <2>2. /\ DataOK' /\ SemInv' /\ UNCHANGED proc
        /\ pc' \in {"idle", "copy", "sempost"}
    BY <1>0, <2>1, GetTyped DEF GetInv
  <2>3. UNCHANGED <<shm, sent>>
    BY <2>1 DEF GetStep, Receive, SemWait, CopyTotal, SemPost, childVars,
       ipcVars
  <2>4. FreshInv'
    BY <1>0, <2>2, <2>3 DEF GetInv, FreshInv
  <2>5. ASSUME NEW u \in Task PROVE TaskStream(u)'
    <3>1. CASE Receive
      BY <1>0, <3>1, ReceiveKeepsStream DEF GetInv
    <3>2. CASE SemWait \/ CopyTotal \/ SemPost
      BY <1>0, <3>2, StreamKept DEF GetInv, SemWait, CopyTotal, SemPost,
         childVars, ipcVars, clientVars
    <3> QED
      BY <2>1, <3>1, <3>2 DEF GetStep
  <2> QED
    BY <1>0, <2>2, <2>4, <2>5 DEF EInv, GetInv
<1>4. ASSUME NEW t \in Task, Container(t) PROVE EInv'
  <2>1. Child(t)
    BY <1>4 DEF Container, Child
  <2>2. DataOK /\ DataOK' /\ SemInv' /\ FreshInv'
    BY <1>0, <2>1, ChildTyped, ChildKeepsFresh DEF GetInv
  <2>3. proc[t] = "replaying" => "mq" \in ipc[t]
    BY <1>0 DEF DInv, SetUp, Started, Complete, Running, Ipc
  <2>4. \A u \in Task : TaskStream(u)'
    BY <1>0, <2>1, <2>2, <2>3, ChildKeepsStream DEF GetInv
  <2>5. /\ UNCHANGED <<pc, cur>>
        /\ \A u \in Task : proc[u] # "none" => proc'[u] # "none"
    BY <2>1, <2>2, ChildLeavesParent, ChildKeepsExisting
  <2>6. cur \in Task
    BY <2>2 DEF DataOK
  <2> QED
    BY <1>0, <2>2, <2>4, <2>5, <2>6 DEF EInv, GetInv
<1>5. CASE UNCHANGED dockerVars
  <2>1. UNCHANGED <<pc, cur, proc, ids, ipc, queue, sem, shm, sent, got,
                    finGot>>
    BY <1>5 DEF dockerVars, vars, parentVars, childVars, ipcVars, clientVars
  <2>2. DataOK' /\ SemInv' /\ FreshInv'
    BY <1>0, <2>1 DEF GetInv, DataOK, SemInv, Holding, FreshInv
  <2>3. \A u \in Task : TaskStream(u)'
    BY <1>0, <2>1, StreamKept DEF GetInv
  <2> QED
    BY <1>0, <2>1, <2>2, <2>3 DEF EInv, GetInv
<1>6. ASSUME Aside PROVE EInv'
  BY <1>0, <1>6, AsideKeeps DEF EInv
<1> QED
  BY <1>0, <1>1, <1>2, <1>3, <1>4, <1>5, <1>6, StepsAside
  DEF DockerNext, DockerCall, DockerCallStep, DockerRunStep

-----------------------------------------------------------------------------
(* The steps                                                               *)

\* Such a step ends the stream of the container it removes, or none.
LEMMA AsideRefines ==
    ASSUME DataOK, Aside, pc \notin Getter, NEW u \in Task,
           \A t \in Task : t # u => proc'[t] # "none" \/ proc[t] = "none",
           proc'[u] = "none" => proc' = [proc EXCEPT ![u] = "none"]
    PROVE  [RS!Next]_RS!streamVars
<1>1. CASE proc'[u] = "none" /\ proc[u] # "none"
  <2>1. RS!Stop(u)
    BY <1>1, Stops DEF Aside, Getter
  <2> QED
    BY <2>1 DEF RS!Next
<1>2. CASE proc'[u] # "none" \/ proc[u] = "none"
  <2>1. \A t \in Task : \/ proc'[t] = proc[t]
                        \/ proc[t] = "cloned" /\ proc'[t] = "exec"
    BY <1>2 DEF Aside
  <2>2. Live' = Live /\ Closed' = Closed
    BY <2>1 DEF Live, Closed, Open
  <2>3. Final' = Final /\ Shown' = Shown
    BY DEF Aside, Final, Shown, Getter
  <2> QED
    BY <2>2, <2>3, Stutters DEF Aside
<1> QED
  BY <1>1, <1>2

LEMMA DockerStepRefines ==
    EInv /\ [DockerNext]_dockerVars => [RS!Next]_RS!streamVars
<1> SUFFICES ASSUME EInv, [DockerNext]_dockerVars
             PROVE  [RS!Next]_RS!streamVars
  OBVIOUS
<1>0. DInv /\ GetInv /\ DataOK /\ cur \in Task
  BY DEF EInv, GetInv, DataOK
<1>1. CASE CreateContainer
  <2>1. proc[cur] = "none" /\ pc = "create" /\ pc' = "sem"
    BY <1>0, <1>1 DEF DInv, Control, CreateContainer
  <2>2. \E t \in Task : RS!Start(t)
    BY <1>0, <1>1, <2>1, Starts DEF CreateContainer
  <2> QED
    BY <2>2 DEF RS!Next
<1>2. CASE SetUpFails \/ StartFails \/ RemoveContainer
  <2>1. Aside
    BY <1>0, <1>2, StepsAside DEF DockerFreeStep
  <2>2. /\ pc \notin Getter
        /\ proc' = [proc EXCEPT ![cur] = "none"]
    BY <1>2 DEF SetUpFails, StartFails, RemoveContainer, Discard, Getter
  <2>3. \A t \in Task : t # cur => proc'[t] = proc[t]
    BY <1>0, <2>2 DEF DataOK
  <2> QED
    BY <1>0, <2>1, <2>2, <2>3, AsideRefines
<1>3. CASE \/ InitDocker \/ InitDockerAgain \/ RunDocker \/ FreeDocker
           \/ CreateFails \/ DockerSemInit \/ DockerShmInit \/ DockerMqInit
           \/ StartContainer \/ SetWeight \/ FreeTask \/ SpinFree
  <2>1. Aside
    BY <1>0, <1>3, StepsAside DEF DockerFreeStep
  <2>2. pc \notin Getter
    BY <1>3 DEF InitDocker, InitDockerAgain, RunnerInitAgain, RunDocker,
       FreeDocker, RunnerFree, Callable, CreateFails, DockerSemInit, SemInit,
       DockerShmInit, ShmInit, DockerMqInit, StartContainer, SetWeight,
       FreeTask, SpinFree, Getter
  <2>3. \A t \in Task : proc'[t] = "none" => proc[t] = "none"
    <3>1. CASE RunDocker
      BY <1>0, <3>1 DEF DInv, Control, RunDocker
    <3>2. CASE StartContainer
      BY <1>0, <3>2 DEF DataOK, StartContainer
    <3>3. CASE ~RunDocker /\ ~StartContainer
      BY <1>3, <3>3 DEF InitDocker, InitDockerAgain, RunnerInitAgain,
         FreeDocker, RunnerFree, CreateFails, DockerSemInit, SemInit,
         DockerShmInit, ShmInit, DockerMqInit, SetWeight, FreeTask, SpinFree,
         dockerVars, vars, childVars
    <3> QED
      BY <3>1, <3>2, <3>3
  <2>4. Live' = Live /\ Closed' = Closed
    BY <2>1, <2>3 DEF Aside, Live, Closed, Open
  <2>5. Final' = Final /\ Shown' = Shown
    BY <2>1, <2>2 DEF Aside, Final, Shown, Getter
  <2> QED
    BY <2>1, <2>4, <2>5, Stutters DEF Aside
<1>4. CASE \/ \E t \in Task : DockerGetInterval(t) \/ DockerGetTotal(t)
           \/ DockerSemPost
  <2>1. /\ UNCHANGED <<proc, sent, got, finGot, shm>>
        /\ pc # "copy" /\ pc' # "copy"
    BY <1>4 DEF DockerGetInterval, DockerGetTotal, DockerSemPost, GetInterval,
       GetTotal, SemPost, Callable, Return, childVars, ipcVars, clientVars
  <2>2. Live' = Live /\ Closed' = Closed /\ Final' = Final /\ Shown' = Shown
    BY <2>1 DEF Live, Closed, Final, Shown
  <2> QED
    BY <2>1, <2>2, Stutters
<1>5. CASE DockerReceive \/ DockerSemWait \/ DockerCopyTotal
  BY <1>0, <1>5, ReceiveDelivers, SemWaitShows, CopyIsShown
  DEF DockerReceive, DockerSemWait, DockerCopyTotal, RS!Next
<1>6. ASSUME NEW t \in Task, Container(t) PROVE [RS!Next]_RS!streamVars
  <2>1. Child(t) /\ FreshInv
    BY <1>0, <1>6 DEF Container, Child, GetInv
  <2> QED
    BY <1>0, <2>1, ChildProduces DEF RS!Next
<1>7. CASE UNCHANGED dockerVars
  <2>1. UNCHANGED <<pc, cur, proc, shm, sent, got, finGot>>
    BY <1>7 DEF dockerVars, vars, parentVars, childVars, ipcVars, clientVars
  <2>2. Live' = Live /\ Closed' = Closed /\ Final' = Final /\ Shown' = Shown
    BY <2>1 DEF Live, Closed, Final, Shown
  <2> QED
    BY <2>1, <2>2, Stutters
<1> QED
  BY <1>1, <1>2, <1>3, <1>4, <1>5, <1>6, <1>7
  DEF DockerNext, DockerCall, DockerCallStep, DockerRunStep, DockerGetStep,
      DockerFreeStep

\* The docker driver gives a client the same promise as the other driver,
\* whatever fails on the way: each report once and in order, FIN behind them
\* and only complete totals (docker-mq.c:130, docker-shm.c:244).
THEOREM DockerImplementsStream == DockerSpec => ImplementsStream
<1>1. DockerInit => RS!Init
  BY DEF DockerInit, Init, RS!Init
<1> QED
  BY <1>1, EInvInit, EInvNext, DockerStepRefines, PTL
  DEF DockerSpec, ImplementsStream, RS!Spec
=============================================================================
