------------------------------ MODULE TrDriver ------------------------------
(***************************************************************************)
(* The trace-replay driver of the runner library: the parent process, whose *)
(* single API thread calls runner_init, runner_run, the two result getters  *)
(* and runner_free; the trace-replay child it forks for every task; the     *)
(* start pipe of include/sync.h; and the System V message queue, semaphore  *)
(* and shared memory of every task.                                         *)
(*                                                                          *)
(* The client here is a most general one: between two calls it may make any *)
(* call, except that it runs a session once and asks for no interval after  *)
(* FIN. PollClient and WebClient restrict it to the calls of the test       *)
(* program and of the web server.                                           *)
(***************************************************************************)
EXTENDS Naturals, Sequences

CONSTANTS
    NTasks,      \* setting.nr_tasks; the tasks are 1..NTasks in list order
    MaxReports,  \* bound: interval reports one task sends in one session
    QCap,        \* messages a kernel queue holds before msgsnd blocks
    Faults       \* the operations that may fail, members of FaultKind

\* The last three are the docker driver's.
FaultKind == {"sched", "pipe", "fork", "cgroup", "sem", "shm", "mq",
              "shmat", "exec", "reenter", "image", "create", "start"}

\* An empty task list makes tr_runner dereference a null head, and a queue
\* with no room makes every send block: both are left out.
ASSUME DriverAssumption ==
    /\ NTasks \in Nat \ {0}
    /\ MaxReports \in Nat
    /\ QCap \in Nat \ {0}
    /\ Faults \subseteq FaultKind

Task == 1..NTasks
Ipc == {"sem", "shm", "mq"}
Msg == [type : {"INTERVAL", "FIN"}, time : 0..MaxReports]

VARIABLES
    pc,      \* where the API thread is: "uninit"; "ready" after runner_init
             \* and "idle" after runner_run; or inside a call
    cur,     \* the task its list traversal or its query is at
    ret,     \* what the latest call returned
    tokens,  \* 'p' bytes in the pipe pfd1
    proc,    \* state of each task's child process ("none": not forked)
    killed,  \* the tasks whose child has been sent SIGTERM
    placed,  \* the tasks whose child is in its control group
    ids,     \* objects whose identifier the task's tr_info holds
    ipc,     \* objects of the task that exist in the kernel
    queue,   \* its message queue
    sem,     \* its semaphore's value
    shm,     \* its shared memory: "empty", "partial" or "full" results
    sent,    \* reports the child has sent
    got,     \* the latest report get_interval has returned, by its time
    finGot   \* the tasks whose FIN get_interval has returned

parentVars == <<pc, cur, ret>>
ipcVars == <<ids, ipc, queue, sem, shm>>
clientVars == <<got, finGot>>
childVars == <<proc, killed, placed, sent>>
vars == <<parentVars, tokens, childVars, ipcVars, clientVars>>

Setup == {"fork", "cgroup", "sem", "shm", "mq"}
PC == Setup \cup {"uninit", "ready", "idle", "tell", "recv", "semwait", "copy",
                  "sempost", "kill", "wait", "aborted"}
Result == {"none", "ok", "error", "INTERVAL", "FIN", "total"}

\* A child that has read its byte from the pipe and has not exited.
Running == {"exec", "replaying", "fin", "total", "written"}
Alive == Running \cup {"cloned", "waiting"}
ProcState == Alive \cup {"none", "exited", "stuck"}

Init ==
    /\ pc = "uninit" /\ cur = 1 /\ ret = "none"
    /\ tokens = 0
    /\ proc = [t \in Task |-> "none"]
    /\ killed = {} /\ placed = {}
    /\ ids = [t \in Task |-> {}]
    /\ ipc = [t \in Task |-> {}]
    /\ queue = [t \in Task |-> <<>>]
    /\ sem = [t \in Task |-> 0]
    /\ shm = [t \in Task |-> "empty"]
    /\ sent = [t \in Task |-> 0]
    /\ got = [t \in Task |-> 0]
    /\ finGot = {}

\* A session exists and no call is in progress.
Callable == pc \in {"ready", "idle"}

\* The call returns r to the client.
Return(r) == pc' = "idle" /\ ret' = r

-----------------------------------------------------------------------------
(* runner_init, and runner_run step by step.                               *)

\* runner_init -> tr_init: the task list is built, no child exists yet.
RunnerInit ==
    /\ pc = "uninit"
    /\ pc' = "ready" /\ cur' = 1 /\ ret' = "ok"
    /\ UNCHANGED <<tokens, childVars, ipcVars, clientVars>>

\* A second runner_init without runner_free: hcreate fails because the hash
\* table exists, and the exception path frees the list of the session that
\* is still running.
RunnerInitAgain ==
    /\ Callable
    /\ pc' = "kill" /\ cur' = 1 /\ ret' = "error"
    /\ UNCHANGED <<tokens, childVars, ipcVars, clientVars>>

\* runner_run -> tr_runner up to TELL_WAIT, whose result is ignored: when
\* pipe() fails the children get the pipe of an earlier session.
RunnerRun ==
    /\ pc = "ready"
    /\ \/ /\ "sched" \in Faults
          /\ ret' = "error"
          /\ UNCHANGED <<pc, cur, tokens>>
       \/ /\ pc' = "fork" /\ cur' = 1
          /\ tokens' \in {0} \cup (IF "pipe" \in Faults THEN {tokens} ELSE {})
          /\ UNCHANGED ret
    /\ UNCHANGED <<childVars, ipcVars, clientVars>>

\* A step of tr_runner's loop fails: it returns at once, and the children
\* already forked stay blocked on the pipe.
RunFails(f) ==
    /\ f \in Faults
    /\ Return("error")
    /\ UNCHANGED <<cur, tokens, childVars, ipcVars, clientVars>>

\* fork(): the child's pid is new, so are the keys of its IPC objects.
Fork ==
    /\ pc = "fork"
    /\ pc' = "cgroup"
    /\ proc' = [proc EXCEPT ![cur] = "cloned"]
    /\ killed' = killed \ {cur} /\ placed' = placed \ {cur}
    /\ ipc' = [ipc EXCEPT ![cur] = {}]
    /\ queue' = [queue EXCEPT ![cur] = <<>>]
    /\ sem' = [sem EXCEPT ![cur] = 0]
    /\ shm' = [shm EXCEPT ![cur] = "empty"]
    /\ sent' = [sent EXCEPT ![cur] = 0]
    /\ got' = [got EXCEPT ![cur] = 0]
    /\ finGot' = finGot \ {cur}
    /\ UNCHANGED <<cur, ret, tokens, ids>>

\* tr_set_cgroup_state: its result is ignored.
SetCgroup ==
    /\ pc = "cgroup"
    /\ pc' = "sem"
    /\ \/ placed' = placed \cup {cur}
       \/ "cgroup" \in Faults /\ UNCHANGED placed
    /\ UNCHANGED <<cur, ret, tokens, proc, killed, sent, ipcVars,
                   clientVars>>

\* __tr_sem_init: semget and SETVAL 0; the identifier is still a local.
SemInit ==
    /\ pc = "sem"
    /\ pc' = "shm"
    /\ ipc' = [ipc EXCEPT ![cur] = @ \cup {"sem"}]
    /\ sem' = [sem EXCEPT ![cur] = 0]
    /\ UNCHANGED <<cur, ret, tokens, childVars, ids, queue, shm,
                   clientVars>>

\* __tr_shm_init, after which tr_shm_init stores both identifiers.
ShmInit ==
    /\ pc = "shm"
    /\ pc' = "mq"
    /\ ipc' = [ipc EXCEPT ![cur] = @ \cup {"shm"}]
    /\ ids' = [ids EXCEPT ![cur] = @ \cup {"sem", "shm"}]
    /\ UNCHANGED <<cur, ret, tokens, childVars, queue, sem, shm,
                   clientVars>>

\* Mutant: the children are told inside the set-up loop.
MqInitTells ==
    /\ pc = "mq"
    /\ ipc' = [ipc EXCEPT ![cur] = @ \cup {"mq"}]
    /\ ids' = [ids EXCEPT ![cur] = @ \cup {"mq"}]
    /\ tokens' = tokens + 1
    /\ IF cur < NTasks THEN pc' = "fork" /\ cur' = cur + 1 /\ UNCHANGED ret
                       ELSE Return("ok") /\ cur' = 1
    /\ UNCHANGED <<childVars, queue, sem, shm, clientVars>>

\* tr_mq_init, and the step to the next task or to the wake-up loop.
MqInit ==
    /\ pc = "mq"
    /\ ipc' = [ipc EXCEPT ![cur] = @ \cup {"mq"}]
    /\ ids' = [ids EXCEPT ![cur] = @ \cup {"mq"}]
    /\ IF cur < NTasks THEN pc' = "fork" /\ cur' = cur + 1
                       ELSE pc' = "tell" /\ cur' = 1
    /\ UNCHANGED <<ret, tokens, childVars, queue, sem, shm, clientVars>>

\* Mutant: the wake-up loop ends one child early.
TellChildShort ==
    /\ pc = "tell"
    /\ tokens' = tokens + (IF cur < NTasks THEN 1 ELSE 0)
    /\ IF cur < NTasks THEN cur' = cur + 1 /\ UNCHANGED <<pc, ret>>
                       ELSE Return("ok") /\ UNCHANGED cur
    /\ UNCHANGED <<childVars, ipcVars, clientVars>>

\* TELL_CHILD, once per task: any child that waits may take the byte.
TellChild ==
    /\ pc = "tell"
    /\ tokens' = tokens + 1
    /\ IF cur < NTasks THEN cur' = cur + 1 /\ UNCHANGED <<pc, ret>>
                       ELSE Return("ok") /\ UNCHANGED cur
    /\ UNCHANGED <<childVars, ipcVars, clientVars>>

RunStep ==
    \/ Fork \/ SetCgroup \/ SemInit \/ ShmInit \/ MqInit \/ TellChild
    \/ pc = "fork" /\ RunFails("fork")
    \/ pc = "sem" /\ RunFails("sem")
    \/ pc = "shm" /\ RunFails("shm")
    \/ pc = "mq" /\ RunFails("mq")

-----------------------------------------------------------------------------
(* The result getters.                                                      *)

\* runner_get_interval_result -> tr_get_interval -> tr_mq_get up to the
\* blocking msgrcv. Without a queue identifier its assertion aborts.
GetInterval(t) ==
    /\ Callable
    /\ pc' = IF "mq" \in ids[t] THEN "recv" ELSE "aborted"
    /\ cur' = t
    /\ UNCHANGED <<ret, tokens, childVars, ipcVars, clientVars>>

\* msgrcv delivers the oldest message.
Receive ==
    /\ pc = "recv"
    /\ queue[cur] # <<>>
    /\ LET m == Head(queue[cur]) IN
          /\ Return(m.type)
          /\ got' = [got EXCEPT ![cur] = IF m.type = "FIN" THEN @ ELSE m.time]
          /\ finGot' = IF m.type = "FIN" THEN finGot \cup {cur} ELSE finGot
    /\ queue' = [queue EXCEPT ![cur] = Tail(@)]
    /\ UNCHANGED <<cur, tokens, childVars, ids, ipc, sem, shm>>

\* runner_get_total_result -> tr_get_total -> tr_shm_get up to tr_sem_wait.
GetTotal(t) ==
    /\ Callable
    /\ pc' = IF "shm" \in ids[t] THEN "semwait" ELSE "aborted"
    /\ cur' = t
    /\ UNCHANGED <<ret, tokens, childVars, ipcVars, clientVars>>

\* Mutant: the value is tested and not taken.
SemWaitKeeps ==
    /\ pc = "semwait"
    /\ sem[cur] > 0
    /\ pc' = "copy"
    /\ UNCHANGED <<cur, ret, tokens, childVars, ipcVars, clientVars>>

\* tr_sem_wait: semop -1 blocks while the value is 0.
SemWait ==
    /\ pc = "semwait"
    /\ sem[cur] > 0
    /\ pc' = "copy"
    /\ sem' = [sem EXCEPT ![cur] = @ - 1]
    /\ UNCHANGED <<cur, ret, tokens, childVars, ids, ipc, queue, shm,
                   clientVars>>

\* shmat and memcpy; when shmat fails the call returns without tr_sem_post.
CopyTotal ==
    /\ pc = "copy"
    /\ \/ pc' = "sempost" /\ UNCHANGED ret
       \/ "shmat" \in Faults /\ Return("error")
    /\ UNCHANGED <<cur, tokens, childVars, ipcVars, clientVars>>

\* Mutant: the semaphore is not given back.
SemPostForgets ==
    /\ pc = "sempost"
    /\ Return("total")
    /\ UNCHANGED <<cur, tokens, childVars, ipcVars, clientVars>>

\* tr_sem_post: the results can be read again.
SemPost ==
    /\ pc = "sempost"
    /\ Return("total")
    /\ sem' = [sem EXCEPT ![cur] = @ + 1]
    /\ UNCHANGED <<cur, tokens, childVars, ids, ipc, queue, shm,
                   clientVars>>

GetStep == Receive \/ SemWait \/ CopyTotal \/ SemPost

-----------------------------------------------------------------------------
(* runner_free -> tr_free -> __tr_free: the list is walked from its head.   *)

RunnerFree ==
    /\ Callable
    /\ pc' = "kill" /\ cur' = 1 /\ ret' = "ok"
    /\ UNCHANGED <<tokens, childVars, ipcVars, clientVars>>

\* free(current) and on to the next element; after the last one, hdestroy.
Advance == IF cur < NTasks THEN pc' = "kill" /\ cur' = cur + 1
                           ELSE pc' = "uninit" /\ cur' = 1

\* The pid is 0: there is nothing to kill.
SkipTask ==
    /\ pc = "kill" /\ proc[cur] = "none"
    /\ Advance
    /\ UNCHANGED <<ret, tokens, childVars, ipcVars, clientVars>>

\* Mutants: the objects are removed before the child is waited for; the
\* child is waited for without a signal.
KillTaskRemoves ==
    /\ pc = "kill" /\ proc[cur] # "none"
    /\ pc' = "wait"
    /\ killed' = killed \cup {cur}
    /\ ipc' = [ipc EXCEPT ![cur] = @ \ ids[cur]]
    /\ UNCHANGED <<cur, ret, tokens, proc, placed, sent, ids, queue, sem,
                   shm, clientVars>>
KillTaskNoSignal ==
    /\ pc = "kill" /\ proc[cur] # "none"
    /\ pc' = "wait"
    /\ UNCHANGED <<cur, ret, tokens, childVars, ipcVars, clientVars>>

\* kill(pid, SIGTERM)
KillTask ==
    /\ pc = "kill" /\ proc[cur] # "none"
    /\ pc' = "wait"
    /\ killed' = killed \cup {cur}
    /\ UNCHANGED <<cur, ret, tokens, proc, placed, sent, ipcVars,
                   clientVars>>

\* Mutant: tr_mq_free is not called.
ReapTaskKeepsQueue ==
    /\ pc = "wait" /\ proc[cur] = "exited"
    /\ proc' = [proc EXCEPT ![cur] = "none"]
    /\ ipc' = [ipc EXCEPT ![cur] = @ \ (ids[cur] \ {"mq"})]
    /\ ids' = [ids EXCEPT ![cur] = {}]
    /\ Advance
    /\ UNCHANGED <<ret, tokens, killed, placed, sent, queue, sem, shm,
                   clientVars>>

\* waitpid returns; tr_shm_free and tr_mq_free remove the objects whose
\* identifiers the tr_info holds.
ReapTask ==
    /\ pc = "wait" /\ proc[cur] = "exited"
    /\ proc' = [proc EXCEPT ![cur] = "none"]
    /\ ipc' = [ipc EXCEPT ![cur] = @ \ ids[cur]]
    /\ ids' = [ids EXCEPT ![cur] = {}]
    /\ Advance
    /\ UNCHANGED <<ret, tokens, killed, placed, sent, queue, sem, shm,
                   clientVars>>

FreeStep == SkipTask \/ KillTask \/ ReapTask

-----------------------------------------------------------------------------
(* The child: the fork's copy of the runner, then the trace-replay program. *)

\* tr_do_exec frees the inherited configuration and reaches WAIT_PARENT.
Await(t) ==
    /\ proc[t] = "cloned"
    /\ proc' = [proc EXCEPT ![t] = "waiting"]
    /\ UNCHANGED <<parentVars, tokens, killed, placed, sent, ipcVars,
                   clientVars>>

\* WAIT_PARENT reads a byte.
WaitParent(t) ==
    /\ proc[t] = "waiting" /\ tokens > 0
    /\ tokens' = tokens - 1
    /\ proc' = [proc EXCEPT ![t] = "exec"]
    /\ UNCHANGED <<parentVars, killed, placed, sent, ipcVars, clientVars>>

\* execlp and trace-replay's start-up. When either fails the child exits and
\* sends nothing, not even FIN.
Exec(t) ==
    /\ proc[t] = "exec"
    /\ \E p \in {"replaying"} \cup (IF "exec" \in Faults THEN {"exited"} ELSE {}) :
          proc' = [proc EXCEPT ![t] = p]
    /\ UNCHANGED <<parentVars, tokens, killed, placed, sent, ipcVars,
                   clientVars>>

\* msgget and msgsnd: the send blocks while the queue is full, and a child
\* that finds no queue goes on without sending.
Send(t, m) ==
    IF "mq" \in ipc[t]
    THEN /\ Len(queue[t]) < QCap
         /\ queue' = [queue EXCEPT ![t] = Append(@, m)]
    ELSE UNCHANGED queue

\* main_worker: one print_result(..., 0). The execution time it carries
\* grows from report to report; it is counted here.
Report(t) ==
    /\ proc[t] = "replaying" /\ sent[t] < MaxReports
    /\ Send(t, [type |-> "INTERVAL", time |-> sent[t] + 1])
    /\ sent' = [sent EXCEPT ![t] = @ + 1]
    /\ UNCHANGED <<parentVars, tokens, proc, killed, placed, ids, ipc, sem,
                   shm, clientVars>>

\* Mutant: FIN is sent while main_worker still reports.
SendFinEarly(t) ==
    /\ proc[t] = "replaying"
    /\ Send(t, [type |-> "FIN", time |-> 0])
    /\ UNCHANGED <<parentVars, tokens, childVars, ids, ipc, sem, shm,
                   clientVars>>

\* main_worker is over, destroy has joined the workers, finalize sends FIN;
\* the message's other fields are not initialised and nobody reads them.
SendFin(t) ==
    /\ proc[t] = "replaying"
    /\ Send(t, [type |-> "FIN", time |-> 0])
    /\ proc' = [proc EXCEPT ![t] = "fin"]
    /\ UNCHANGED <<parentVars, tokens, killed, placed, sent, ids, ipc, sem,
                   shm, clientVars>>

\* finalize looks up the semaphore and the shared memory and starts to copy
\* the results into it; without either of them it is done.
WriteTotal(t) ==
    /\ proc[t] = "fin"
    /\ LET found == {"sem", "shm"} \subseteq ipc[t] IN
          /\ proc' = [proc EXCEPT ![t] = IF found THEN "total" ELSE "exited"]
          /\ shm' = [shm EXCEPT ![t] = IF found THEN "partial" ELSE @]
    /\ UNCHANGED <<parentVars, tokens, killed, placed, sent, ids, ipc, queue,
                   sem, clientVars>>

\* The copy is complete.
EndWrite(t) ==
    /\ proc[t] = "total"
    /\ proc' = [proc EXCEPT ![t] = "written"]
    /\ shm' = [shm EXCEPT ![t] = "full"]
    /\ UNCHANGED <<parentVars, tokens, killed, placed, sent, ids, ipc, queue,
                   sem, clientVars>>

\* Mutant: the semaphore is posted before the copy is complete.
PostTotalEarly(t) ==
    /\ proc[t] = "total"
    /\ proc' = [proc EXCEPT ![t] = "exited"]
    /\ sem' = [sem EXCEPT ![t] = @ + 1]
    /\ UNCHANGED <<parentVars, tokens, killed, placed, sent, ids, ipc, queue,
                   shm, clientVars>>

\* semop +1, and the process exits.
PostTotal(t) ==
    /\ proc[t] = "written"
    /\ proc' = [proc EXCEPT ![t] = "exited"]
    /\ sem' = [sem EXCEPT ![t] = @ + 1]
    /\ UNCHANGED <<parentVars, tokens, killed, placed, sent, ids, ipc, queue,
                   shm, clientVars>>

\* SIGTERM is delivered. The handler of a child that is inside
\* runner_config_free enters it again (undefined behaviour: it may hang in
\* the allocator).
Die(t) ==
    /\ t \in killed /\ proc[t] \in Alive
    /\ \E p \in {"exited"} \cup (IF "reenter" \in Faults /\ proc[t] = "cloned"
                                 THEN {"stuck"} ELSE {}) :
          proc' = [proc EXCEPT ![t] = p]
    /\ UNCHANGED <<parentVars, tokens, killed, placed, sent, ipcVars,
                   clientVars>>

Replay(t) == Report(t) \/ SendFin(t) \/ WriteTotal(t) \/ EndWrite(t) \/ PostTotal(t)
Child(t) == Await(t) \/ WaitParent(t) \/ Exec(t) \/ Replay(t) \/ Die(t)

\* The steps a call makes on its own, once the client has made it.
CallStep == RunStep \/ GetStep \/ FreeStep

\* The calls of the most general client. It does not ask for an interval
\* after FIN: the queue stays empty and the call would never return.
Call ==
    \/ RunnerInit \/ RunnerInitAgain \/ RunnerRun \/ RunnerFree
    \/ \E t \in Task \ finGot : GetInterval(t)
    \/ \E t \in Task : GetTotal(t)

Next == Call \/ CallStep \/ \E t \in Task : Child(t)

\* The kernel runs every process that can run; a client may stop calling.
\* Nothing makes a replay end before MaxReports: the reports are bounded
\* because the trace is.
Fairness ==
    /\ WF_vars(CallStep)
    /\ \A t \in Task : WF_vars(Child(t)) /\ WF_vars(Die(t))

Spec == Init /\ [][Next]_vars
FairSpec == Spec /\ Fairness

-----------------------------------------------------------------------------
(* Properties.                                                              *)

\* Type invariant. In particular each semaphore stays binary: one post by
\* the child, and wait/post pairs of tr_shm_get (tr-shm.c:249-256).
TypeOK ==
    /\ pc \in PC /\ cur \in Task /\ ret \in Result
    /\ tokens \in Nat
    /\ proc \in [Task -> ProcState]
    /\ killed \subseteq Task /\ placed \subseteq Task
    /\ ids \in [Task -> SUBSET Ipc] /\ ipc \in [Task -> SUBSET Ipc]
    /\ queue \in [Task -> Seq(Msg)]
    /\ sem \in [Task -> 0..1]
    /\ shm \in [Task -> {"empty", "partial", "full"}]
    /\ sent \in [Task -> 0..MaxReports] /\ got \in [Task -> 0..MaxReports]
    /\ finGot \subseteq Task

\* The task's child exists, sits in its control group, and the parent and the
\* kernel have its three IPC objects.
Ready(t) ==
    /\ proc[t] # "none" /\ t \in placed
    /\ ids[t] = Ipc /\ ipc[t] = Ipc

\* The free walk has passed the task.
Freed(t) == pc \in {"kill", "wait"} /\ t < cur

\* The pipe is a start barrier (tr-driver.c:404-447): a child runs only when
\* every task of the session has been set up, whichever child takes which
\* byte. So no report is lost for want of a queue, and the tasks compete
\* under their weights from the start.
StartBarrier ==
    \A t \in Task : proc[t] \in Running =>
        \A u \in Task : Freed(u) \/ Ready(u)

\* get_total copies complete results although FIN is sent before they are
\* written (trace_replay.c:1005, 1038) and may be received, and the total
\* asked for, at any time in between.
TotalComplete == pc = "copy" => shm[cur] = "full"

\* FIN closes the queue.
FinQueued(t) == queue[t] # <<>> /\ queue[t][Len(queue[t])].type = "FIN"

\* A client sees the stream its child produced: reports in order, none lost
\* or repeated, FIN after all of them and nothing after FIN. The test program
\* and the web server stop asking a task once they have seen FIN.
StreamInOrder ==
    \A t \in Task :
        /\ \A i \in DOMAIN queue[t] :
              IF queue[t][i].type = "FIN" THEN i = Len(queue[t])
                                          ELSE queue[t][i].time = got[t] + i
        /\ sent[t] = got[t] + Len(queue[t]) - (IF FinQueued(t) THEN 1 ELSE 0)
        /\ t \in finGot => queue[t] = <<>>

\* runner_free deallocates the driver's resources (tr-driver.c:534) from any
\* state a call can leave behind: no child and no kernel object is left.
FreeComplete ==
    pc = "uninit" => \A t \in Task : proc[t] = "none" /\ ipc[t] = {}

\* The objects of a task are removed only after its child was reaped: a
\* child never loses a queue it is sending to (tr-driver.c:119-128).
IpcOutlivesChild ==
    [][\A t \in Task : proc[t] \in Alive => ipc[t] \subseteq ipc'[t]]_vars

\* Once runner_run has returned success every child leaves the barrier, or is
\* killed by runner_free (tr-driver.c:443-447).
RunReleasesAll ==
    \A t \in Task :
        pc = "idle" /\ ret = "ok" /\ proc[t] = "waiting"
            ~> proc[t] # "waiting"

\* runner_free returns from any state a call can leave behind: children that
\* are blocked on the pipe or on a full queue, or that have exited.
FreeTerminates == pc = "kill" ~> pc = "uninit"

\* Results that were posted can be read, and read again.
TotalReadable ==
    \A t \in Task :
        pc = "semwait" /\ cur = t /\ shm[t] = "full" /\ proc[t] = "exited"
            /\ t \notin killed
        ~> pc = "idle"
=============================================================================
