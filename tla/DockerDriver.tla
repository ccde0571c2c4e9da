---------------------------- MODULE DockerDriver ----------------------------
(***************************************************************************)
(* The docker driver: a container per task in place of a child. Its message *)
(* queue, semaphore and shared memory code is that of the trace-replay      *)
(* driver under other names, and its containers run the same program, so    *)
(* the state, the getters and the replay are TrDriver's. Its own are the    *)
(* set-up, which cleans up after itself, the start, which is no barrier,    *)
(* and the free loop.                                                       *)
(*                                                                          *)
(* proc[t] is the task's container: "none", "cloned" when it was created    *)
(* and not started, and then as for a child.                                *)
(***************************************************************************)
EXTENDS TrDriver_stream

VARIABLE pid  \* the tasks whose docker_info.pid is 1 rather than 0

dockerVars == <<vars, pid>>

DockerInit == Init /\ pid = {}

-----------------------------------------------------------------------------
(* docker_init and docker_runner                                           *)

\* docker_init: when the local image cannot be made it frees the list it has
\* just built.
InitDocker ==
    /\ pc = "uninit"
    /\ \/ pc' = "ready" /\ ret' = "ok"
       \/ "image" \in Faults /\ pc' = "kill" /\ ret' = "error"
    /\ cur' = 1 /\ pid' = {}
    /\ UNCHANGED <<tokens, childVars, ipcVars, clientVars>>

\* hcreate fails while a session exists, and its list is freed.
InitDockerAgain == RunnerInitAgain /\ UNCHANGED pid

\* Containers of an earlier session are removed. When the scheduler cannot be
\* set the error message reads behind the end of the list: a build that logs
\* crashes.
RunDocker ==
    /\ pc = "ready"
    /\ proc' = [t \in Task |-> "none"]
    /\ \/ pc' = "create" /\ cur' = 1 /\ UNCHANGED ret
       \/ /\ "sched" \in Faults
          /\ pc' \in {"ready", "aborted"} /\ ret' = "error" /\ UNCHANGED cur
    /\ UNCHANGED <<tokens, killed, placed, sent, ipcVars, clientVars, pid>>

\* docker container create. The keys are those of new files, so the IPC
\* objects will be new.
CreateContainer ==
    /\ pc = "create"
    /\ pc' = "sem"
    /\ pid' = pid \cup {cur}
    /\ proc' = [proc EXCEPT ![cur] = "cloned"]
    /\ placed' = placed \ {cur}
    /\ ipc' = [ipc EXCEPT ![cur] = {}]
    /\ queue' = [queue EXCEPT ![cur] = <<>>]
    /\ sem' = [sem EXCEPT ![cur] = 0]
    /\ shm' = [shm EXCEPT ![cur] = "empty"]
    /\ sent' = [sent EXCEPT ![cur] = 0]
    /\ got' = [got EXCEPT ![cur] = 0]
    /\ finGot' = finGot \ {cur}
    /\ UNCHANGED <<cur, ret, tokens, killed, ids>>

\* There is no directory, no container or no copy of the trace in it.
CreateFails ==
    /\ pc = "create" /\ "create" \in Faults
    /\ Return("error")
    /\ pid' = pid \cup {cur}
    /\ UNCHANGED <<cur, tokens, childVars, ipcVars, clientVars>>

\* docker_shm_free and docker_mq_free: the objects the current task knows of
\* are removed.
FreeIpc ==
    /\ ipc' = [ipc EXCEPT ![cur] = @ \ ids[cur]]
    /\ ids' = [ids EXCEPT ![cur] = {}]

\* __docker_rm_container, and the objects.
Discard == FreeIpc /\ proc' = [proc EXCEPT ![cur] = "none"]

\* Mutant: the container is removed and its objects are not.
SetUpFailsKeeps ==
    /\ pc \in {"sem", "shm", "mq"} /\ pc \in Faults
    /\ Return("error")
    /\ proc' = [proc EXCEPT ![cur] = "none"]
    /\ UNCHANGED <<cur, tokens, killed, placed, sent, ipc, ids, queue, sem,
                   shm, clientVars, pid>>

\* docker_shm_init or docker_mq_init fails.
SetUpFails ==
    /\ pc \in {"sem", "shm", "mq"} /\ pc \in Faults
    /\ Return("error")
    /\ Discard
    /\ UNCHANGED <<cur, tokens, killed, placed, sent, queue, sem, shm,
                   clientVars, pid>>

DockerSemInit == SemInit /\ UNCHANGED pid
DockerShmInit == ShmInit /\ UNCHANGED pid

\* Mutant: a container is started as soon as it has its objects.
DockerMqInitStarts ==
    /\ pc = "mq"
    /\ ipc' = [ipc EXCEPT ![cur] = @ \cup {"mq"}]
    /\ ids' = [ids EXCEPT ![cur] = @ \cup {"mq"}]
    /\ proc' = [proc EXCEPT ![cur] = "exec"]
    /\ IF cur < NTasks THEN pc' = "create" /\ cur' = cur + 1 /\ UNCHANGED ret
                       ELSE Return("ok") /\ cur' = 1
    /\ UNCHANGED <<tokens, killed, placed, sent, queue, sem, shm, clientVars,
                   pid>>

\* docker_mq_init, and the step to the next task or to the start loop.
DockerMqInit ==
    /\ pc = "mq"
    /\ ipc' = [ipc EXCEPT ![cur] = @ \cup {"mq"}]
    /\ ids' = [ids EXCEPT ![cur] = @ \cup {"mq"}]
    /\ IF cur < NTasks THEN pc' = "create" /\ cur' = cur + 1
                       ELSE pc' = "start" /\ cur' = 1
    /\ UNCHANGED <<ret, tokens, childVars, queue, sem, shm, clientVars, pid>>

\* docker start; the result of the call is that of the last start.
StartContainer ==
    /\ pc = "start"
    /\ pc' = "weight" /\ ret' = "ok"
    /\ proc' = [proc EXCEPT ![cur] = "exec"]
    /\ UNCHANGED <<cur, tokens, killed, placed, sent, ipcVars, clientVars,
                   pid>>

\* A container that does not start is removed, and the loop goes on.
StartFails ==
    /\ pc = "start" /\ "start" \in Faults
    /\ pc' = "weight" /\ ret' = "error"
    /\ Discard
    /\ UNCHANGED <<cur, tokens, killed, placed, sent, queue, sem, shm,
                   clientVars, pid>>

\* docker_set_cgroup_state, behind the start: its result is ignored, and it
\* fails when the container has gone.
SetWeight ==
    /\ pc = "weight"
    /\ \/ proc[cur] \notin {"none", "exited"} /\ placed' = placed \cup {cur}
       \/ /\ "cgroup" \in Faults \/ proc[cur] \in {"none", "exited"}
          /\ UNCHANGED placed
    /\ IF cur < NTasks THEN pc' = "start" /\ cur' = cur + 1
                       ELSE pc' = "idle" /\ UNCHANGED cur
    /\ UNCHANGED <<ret, tokens, proc, killed, sent, ipcVars, clientVars, pid>>

DockerRunStep ==
    \/ CreateContainer \/ CreateFails \/ SetUpFails
    \/ DockerSemInit \/ DockerShmInit \/ DockerMqInit
    \/ StartContainer \/ StartFails \/ SetWeight

-----------------------------------------------------------------------------
(* The getters, the free loop and the containers                           *)

DockerGetInterval(t) == GetInterval(t) /\ UNCHANGED pid
DockerReceive == Receive /\ UNCHANGED pid
DockerGetTotal(t) == GetTotal(t) /\ UNCHANGED pid
DockerSemWait == SemWait /\ UNCHANGED pid
DockerCopyTotal == CopyTotal /\ UNCHANGED pid
DockerSemPost == SemPost /\ UNCHANGED pid

DockerGetStep ==
    DockerReceive \/ DockerSemWait \/ DockerCopyTotal \/ DockerSemPost

FreeDocker == RunnerFree /\ UNCHANGED pid

\* Mutant: the container is stopped in the background.
RemoveContainerLater ==
    /\ pc = "kill" /\ cur \in pid
    /\ pc' = "wait"
    /\ UNCHANGED <<cur, ret, tokens, childVars, ipcVars, clientVars, pid>>

\* docker rm -f: the container is gone when the command returns.
RemoveContainer ==
    /\ pc = "kill" /\ cur \in pid
    /\ pc' = "wait"
    /\ proc' = [proc EXCEPT ![cur] = "none"]
    /\ UNCHANGED <<cur, ret, tokens, killed, placed, sent, ipcVars,
                   clientVars, pid>>

\* Mutant: the head of the list is not moved on.
FreeTaskStays ==
    /\ pc = "wait"
    /\ pc' = "kill"
    /\ FreeIpc
    /\ UNCHANGED <<cur, ret, tokens, childVars, queue, sem, shm, clientVars,
                   pid>>

\* The objects, and on to the next element.
FreeTask ==
    /\ pc = "wait"
    /\ FreeIpc /\ Advance
    /\ UNCHANGED <<ret, tokens, childVars, queue, sem, shm, clientVars, pid>>

\* The pid is 0: the loop stays at this element.
SpinFree == pc = "kill" /\ cur \notin pid /\ UNCHANGED dockerVars

DockerFreeStep == RemoveContainer \/ FreeTask \/ SpinFree

\* trace-replay in its container.
Container(t) == (Exec(t) \/ Replay(t)) /\ UNCHANGED pid

DockerCallStep == DockerRunStep \/ DockerGetStep \/ DockerFreeStep

\* The most general client of TrDriver.
DockerCall ==
    \/ InitDocker \/ InitDockerAgain \/ RunDocker \/ FreeDocker
    \/ \E t \in Task \ finGot : DockerGetInterval(t)
    \/ \E t \in Task : DockerGetTotal(t)

DockerNext == DockerCall \/ DockerCallStep \/ \E t \in Task : Container(t)

DockerFairness ==
    /\ WF_dockerVars(DockerCallStep)
    /\ \A t \in Task : WF_dockerVars(Container(t))

DockerSpec == DockerInit /\ [][DockerNext]_dockerVars
DockerFairSpec == DockerSpec /\ DockerFairness

-----------------------------------------------------------------------------
(* Properties, besides ImplementsStream.                                    *)

\* No container runs before docker_runner has set up every task, and one that
\* runs has its objects (docker-driver.c:476-513): no report is lost, and a
\* set-up that fails has no load running beside it.
RunsWhenSetUp ==
    \A t \in Task : proc[t] \in Running =>
        /\ ids[t] = Ipc /\ ipc[t] = Ipc
        /\ pid = Task
        /\ \A u \in Task : proc[u] # "none" => ipc[u] = Ipc

\* A task that lost its container in a failed set-up or start lost its kernel
\* objects with it, and after docker_free no task has either
\* (docker-driver.c:499, 506, 519, 615).
NothingOrphaned ==
    /\ Callable => \A t \in Task : proc[t] = "none" => ipc[t] = {}
    /\ pc = "uninit" => \A t \in Task : proc[t] = "none" /\ ipc[t] = {}

\* No object of a container that runs is removed (docker-driver.c:120-124).
ObjectsOutliveRun ==
    [][\A t \in Task : proc[t] \in Running => ipc[t] \subseteq ipc'[t]]_dockerVars

\* docker_free comes to its end when every task got as far as its container,
\* with or without success (docker-driver.c:99-132).
FreeEnds == pc = "kill" /\ pid = Task ~> pc = "uninit"

\* What docker_free says of itself (docker-driver.c:613), after any set-up.
FreeAlwaysEnds == pc = "kill" ~> pc = "uninit"
=============================================================================
