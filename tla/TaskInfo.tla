------------------------------ MODULE TaskInfo ------------------------------
(***************************************************************************)
(* From the settings a client gives runner_init to what runs: the record    *)
(* (tr_info, docker_info) each driver makes of a task, the table the        *)
(* records are looked up in, the scheduler and the weights the run sets,    *)
(* the arguments each program gets and takes over, and the JSON results     *)
(* that name all of it again.                                               *)
(*                                                                          *)
(* The JSON of the client is [driver, setting, tasks]: `setting` is a       *)
(* function on the keys that are present, and `tasks` (task_option) a       *)
(* sequence of such functions. Processes, queues and failing system calls   *)
(* are TrDriver's and DockerDriver's.                                       *)
(***************************************************************************)
EXTENDS Integers, Sequences, FiniteSets

CONSTANTS
    Clients,   \* the JSON texts runner_init is called with
    Files      \* paths that exist

ASSUME ClientsAssumption ==
    \A c \in Clients :
       /\ Len(c.tasks) \in Nat \ {0}
       /\ "nr_tasks" \in DOMAIN c.setting => c.setting.nr_tasks \in Nat \ {0}
       /\ \A object \in {c.setting}
                         \cup {c.tasks[i] : i \in 1 .. Len(c.tasks)} :
             "q_depth" \in DOMAIN object => object.q_depth \in Nat

VARIABLES
    pc,       \* where the parent is
    conf,     \* the JSON of the session
    infos,    \* global_info_head, the list of the tasks' records
    table,    \* the hash table: cgroup_id -> place in the list
    sched,    \* /sys/block/<device>/queue/scheduler
    group,    \* per task its control group: weight (0: none), member
    prog,     \* per task the program: argv, state, and what it runs with
    report    \* the result the client was given last, if any

vars == <<pc, conf, infos, table, sched, group, prog, report>>

PC == {"uninit", "init", "ready", "start", "wake", "weigh", "running"}

NoReport == [kind |-> "none"]

NoClient == [driver |-> "", setting |-> << >>, tasks |-> <<>>]

Ids == DOMAIN infos

\* A table with one more entry, or another value of one.
With(f, key, value) ==
    [k \in DOMAIN f \cup {key} |-> IF k = key THEN value ELSE f[k]]

-----------------------------------------------------------------------------
(* Settings                                                                *)

Driver == {"trace-replay", "docker"}

Scheduler == {"none", "kyber", "bfq"}

HasWeight(scheduler) == scheduler \in {"bfq"}

ValidWeight(w) == w \in 1 .. 1000

SynthType == {"rand_read", "rand_write", "rand_mixed",
              "seq_read", "seq_write", "seq_mixed"}

IsSynth(path) == path \in SynthType

Blank ==
    [time |-> 0, q_depth |-> 0, nr_thread |-> 0, weight |-> 0,
     trace_repeat |-> 1, wss |-> 0, utilization |-> 0, iosize |-> 0,
     prefix_cgroup_name |-> "", device |-> "", scheduler |-> "",
     cgroup_id |-> "", trace_replay_path |-> "", trace_data_path |-> ""]

\* A key that is absent leaves its member as it is.
SetMember(object, key, member, info) ==
    IF key \in DOMAIN object THEN [info EXCEPT ![member] = object[key]]
    ELSE info

\* A key of the object is a member of the record.
SetMembers(object, keys, info) ==
    [k \in DOMAIN info |->
        IF k \in keys \cap DOMAIN object THEN object[k] ELSE info[k]]

\* The repeats of a setting are stored over its weight.
SetOptions(object, info) ==
    SetMember(object, "trace_repeat", "weight",
              SetMembers(object,
                         {"weight", "wss", "utilization", "iosize"}, info))

RequiredKeys ==
    {"time", "q_depth", "nr_thread", "prefix_cgroup_name", "scheduler",
     "device", "trace_replay_path"}

\* The first half of tr_info_init: what all tasks share.
SharedInfo(c) ==
    SetMembers(c.setting, {"trace_data_path"},
               SetOptions(c.setting,
                          SetMembers(c.setting, RequiredKeys, Blank)))

SharedValid(c) ==
    /\ RequiredKeys \subseteq DOMAIN c.setting
    /\ c.setting.scheduler \in Scheduler

OwnOptionsOnce(option, info) ==   \* a mutant: the weight is read once
    SetMembers(option, {"trace_data_path", "cgroup_id"},
               SetMembers(option, RequiredKeys, SetOptions(option, info)))

\* __tr_info_init: the task's own options over the shared ones. The weight is
\* read again behind the repeats.
OwnOptions(option, info) ==
    SetMembers(option, {"weight", "trace_data_path", "cgroup_id"},
               SetMembers(option, RequiredKeys, SetOptions(option, info)))

OwnValidTwice(option, info) ==   \* a mutant: a group may come twice
    /\ info.scheduler \in Scheduler
    /\ HasWeight(info.scheduler) => "weight" \in DOMAIN option
    /\ {"trace_data_path", "cgroup_id"} \subseteq DOMAIN option
    /\ IsSynth(info.trace_data_path) \/ info.trace_data_path \in Files

OwnValid(option, info) ==
    /\ info.scheduler \in Scheduler
    /\ HasWeight(info.scheduler) => "weight" \in DOMAIN option
    /\ {"trace_data_path", "cgroup_id"} \subseteq DOMAIN option
    /\ IsSynth(info.trace_data_path) \/ info.trace_data_path \in Files
    /\ info.cgroup_id \notin DOMAIN table

\* The docker driver looks a program that is not there up in /usr/bin, before
\* the task's own options.
UsrBin(path) == "/usr/bin/" \o path

DockerSharedInfo(c) ==
    LET info == SharedInfo(c)
    IN  IF info.trace_replay_path \in Files THEN info
        ELSE [info EXCEPT !.trace_replay_path = UsrBin(@)]

DockerSharedValid(c) ==
    /\ SharedValid(c)
    /\ DockerSharedInfo(c).trace_replay_path \in Files

DockerOwnOptions(option, info) == OwnOptions(option, info)

DockerOwnValid(option, info) == OwnValid(option, info)

\* tr_info_init and docker_info_init of task i: its record, if there is one.
InfoInit(c, i) ==
    LET docker == c.driver = "docker"
        shared == IF docker THEN DockerSharedInfo(c) ELSE SharedInfo(c)
        option == c.tasks[i]
        info == IF docker THEN DockerOwnOptions(option, shared)
                ELSE OwnOptions(option, shared)
    IN  {x \in {info} :
            IF docker THEN DockerSharedValid(c) /\ DockerOwnValid(option, x)
            ELSE SharedValid(c) /\ OwnValid(option, x)}

-----------------------------------------------------------------------------
(* runner_init and the drivers' init                                       *)

Init ==
    /\ pc = "uninit" /\ conf = NoClient
    /\ infos = <<>> /\ table = << >> /\ group = <<>> /\ prog = <<>>
    /\ sched = << >> /\ report = NoReport

\* An unknown driver, or a key without which there is no session.
Acceptable(c) ==
    /\ c.driver \in Driver
    /\ {"trace_replay_path", "nr_tasks"} \subseteq DOMAIN c.setting

RunnerInit ==
    /\ pc = "uninit"
    /\ \E c \in Clients :
          /\ Acceptable(c)
          /\ conf' = c
    /\ pc' = "init" /\ report' = NoReport
    /\ UNCHANGED <<infos, table, sched, group, prog>>

\* The next task gets its record, which goes to the end of the list.
InitTask ==
    /\ pc = "init" /\ Len(infos) < conf.setting.nr_tasks
    /\ LET i == Len(infos) + 1 IN
       /\ i <= Len(conf.tasks)
       /\ \E info \in InfoInit(conf, i) :
             /\ infos' = Append(infos, info)
             /\ table' = With(table, info.cgroup_id, i)
    /\ UNCHANGED <<pc, conf, sched, group, prog, report>>

\* __tr_free and __docker_free: the records and the table go.
FreeTasks ==
    /\ pc' = "uninit"
    /\ infos' = <<>> /\ table' = << >> /\ group' = <<>> /\ prog' = <<>>

\* A task that is missing or not valid ends the session, and its earlier
\* tasks with it.
InitFails ==
    /\ pc = "init" /\ Len(infos) < conf.setting.nr_tasks
    /\ LET i == Len(infos) + 1 IN
          i <= Len(conf.tasks) => InfoInit(conf, i) = {}
    /\ FreeTasks
    /\ UNCHANGED <<conf, sched, report>>

InitDone ==
    /\ pc = "init" /\ Len(infos) >= conf.setting.nr_tasks
    /\ pc' = "ready"
    /\ UNCHANGED <<conf, infos, table, sched, group, prog, report>>

-----------------------------------------------------------------------------
(* runner_run                                                              *)

RunnerRunOnce ==   \* a mutant: a device keeps the scheduler it has
    /\ pc = "ready"
    /\ sched' = IF infos[1].device \in DOMAIN sched THEN sched
                ELSE With(sched, infos[1].device, infos[1].scheduler)
    /\ pc' = "start"
    /\ UNCHANGED <<conf, infos, table, group, prog, report>>

\* The scheduler is that of the first task on the device of the first task.
RunnerRun ==
    /\ pc = "ready"
    /\ sched' = With(sched, infos[1].device, infos[1].scheduler)
    /\ pc' = "start"
    /\ UNCHANGED <<conf, infos, table, group, prog, report>>

ArgvSwapped(info) ==   \* a mutant: two arguments in the wrong order
    <<info.q_depth, info.nr_thread,
      <<info.scheduler, info.weight, info.cgroup_id>>, info.time,
      info.trace_repeat, info.device, info.trace_data_path,
      info.utilization, info.wss, info.iosize>>

\* tr_do_exec's command line. The result file is in the directory of the
\* parent, so its name has to tell the tasks apart.
Argv(info) ==
    <<info.q_depth, info.nr_thread,
      <<info.scheduler, info.weight, info.cgroup_id>>, info.time,
      info.trace_repeat, info.device, info.trace_data_path, info.wss,
      info.utilization, info.iosize>>

\* docker_create_container's command line. The image is not the :local one
\* docker_create_local_images has put the client's program into.
Image == "suhoson/trace_replay:latest"

DockerArgv(info) ==
    <<info.q_depth, info.nr_thread,
      <<info.scheduler, info.weight, info.cgroup_id>>, info.time,
      info.trace_repeat, info.device, info.trace_data_path, info.wss,
      info.utilization, info.iosize>>

\* tr_set_cgroup_state: a weight out of range leaves the task outside its
\* group, and its caller goes on all the same.
CgroupState(info) ==
    IF ~HasWeight(info.scheduler) THEN [weight |-> 0, member |-> TRUE]
    ELSE IF ValidWeight(info.weight)
    THEN [weight |-> info.weight, member |-> TRUE]
    ELSE [weight |-> 0, member |-> FALSE]

\* docker_set_cgroup_state: the container is in its group whatever happens.
DockerCgroupState(info) ==
    [weight |-> IF HasWeight(info.scheduler) /\ ValidWeight(info.weight)
                THEN info.weight ELSE 0,
     member |-> TRUE]

NoRun == [qdepth |-> 0]

\* fork: the child is held at the start pipe while its parent makes its
\* group. docker container create: the program is there and not started.
StartTask ==
    /\ pc = "start" /\ Len(prog) < Len(infos)
    /\ LET info == infos[Len(prog) + 1]
           docker == conf.driver = "docker"
       IN  /\ prog' = Append(prog,
                 [binary |-> IF docker THEN Image
                             ELSE info.trace_replay_path,
                  argv |-> IF docker THEN DockerArgv(info) ELSE Argv(info),
                  state |-> "held", run |-> NoRun])
           /\ group' = Append(group,
                 IF docker THEN [weight |-> 0, member |-> TRUE]
                 ELSE CgroupState(info))
    /\ UNCHANGED <<pc, conf, infos, table, sched, report>>

StartsDone ==
    /\ pc = "start" /\ Len(prog) = Len(infos)
    /\ pc' = "wake"
    /\ UNCHANGED <<conf, infos, table, sched, group, prog, report>>

\* TELL_CHILD for every child.
WakeChildren ==
    /\ pc = "wake" /\ conf.driver = "trace-replay"
    /\ prog' = [i \in DOMAIN prog |-> [prog[i] EXCEPT !.state = "started"]]
    /\ pc' = "running"
    /\ UNCHANGED <<conf, infos, table, sched, group, report>>

Held == {i \in DOMAIN prog : prog[i].state = "held"}

First(S) == CHOOSE i \in S : \A j \in S : i <= j

\* docker start, the containers in their order ...
StartContainer ==
    /\ pc = "wake" /\ conf.driver = "docker" /\ Held # {}
    /\ prog' = [prog EXCEPT ![First(Held)].state = "started"]
    /\ pc' = "weigh"
    /\ UNCHANGED <<conf, infos, table, sched, group, report>>

\* ... and each one's weight behind its start.
WeighContainer ==
    /\ pc = "weigh"
    /\ LET i == IF Held = {} THEN Len(infos) ELSE First(Held) - 1
       IN  group' = [group EXCEPT ![i] = DockerCgroupState(infos[i])]
    /\ pc' = IF Held = {} THEN "running" ELSE "wake"
    /\ UNCHANGED <<conf, infos, table, sched, prog, report>>

-----------------------------------------------------------------------------
(* The program                                                             *)

MAX_QDEPTH == 128 * 16
MAX_THREADS == 512

\* What main makes of its arguments, one trace per program.
MainArgs(argv) ==
    LET timeout == argv[4]
        qdepth == IF argv[1] > MAX_QDEPTH THEN MAX_QDEPTH ELSE argv[1]
        repeat == IF timeout > 0 THEN 1 ELSE argv[5]
    IN  [qdepth |-> IF qdepth = 0 THEN 1 ELSE qdepth,
         timeout |-> timeout, nr_trace |-> 1, per_thread |-> argv[2],
         nr_thread |-> argv[2], result_file |-> argv[3],
         repeat |-> IF repeat = 0 THEN 1 ELSE repeat,
         filename |-> argv[6], tracename |-> argv[7],
         wss |-> argv[8], utilization |-> argv[9], iosize |-> argv[10]]

\* A program with no thread or with too many ends at once.
MainStarts(i) ==
    /\ prog[i].state = "started"
    /\ LET run == MainArgs(prog[i].argv) IN
          prog' = [prog EXCEPT
             ![i].state = IF run.nr_thread \in 1 .. MAX_THREADS
                          THEN "running" ELSE "exited",
             ![i].run = IF run.nr_thread \in 1 .. MAX_THREADS THEN run
                        ELSE NoRun]
    /\ UNCHANGED <<pc, conf, infos, table, sched, group, report>>

-----------------------------------------------------------------------------
(* Results                                                                 *)

\* tr_info_serializer, whose device is a pid (here the task's place).
Meta(i) ==
    [k \in {"pid", "device", "time", "q_depth", "nr_thread", "weight",
            "trace_repeat", "wss", "utilization", "iosize",
            "prefix_cgroup_name", "scheduler", "cgroup_id",
            "trace_data_path"} |->
        IF k \in {"pid", "device"} THEN i ELSE infos[i][k]]

\* tr_total_config_serializer over what the program wrote.
TotalConfig(run) ==
    [k \in {"qdepth", "timeout", "nr_trace", "nr_thread", "per_thread",
            "result_file"} |-> run[k]]

\* tr_total_results_serializer and tr_total_serializer. The statistics are
\* IoStats'; each trace is named.
TotalJson(i, run) ==
    [kind |-> "total", meta |-> Meta(i), config |-> TotalConfig(run),
     name |-> run.tracename]

\* tr_realtime_serializer.
IntervalJson(i) == [kind |-> "interval", meta |-> Meta(i)]

\* The docker driver's serializers are copies.
DockerMeta(i) == Meta(i)

DockerTotalConfig(run) == TotalConfig(run)

DockerTotalJson(i, run) ==
    [TotalJson(i, run) EXCEPT !.meta = DockerMeta(i),
                              !.config = DockerTotalConfig(run)]

DockerIntervalJson(i) == [IntervalJson(i) EXCEPT !.meta = DockerMeta(i)]

GetResultOfHead(key) ==   \* a mutant: the table is not looked at
    /\ pc = "running" /\ key \in DOMAIN table
    /\ prog[table[key]].state = "running"
    /\ report' = TotalJson(1, prog[table[key]].run)
    /\ UNCHANGED <<pc, conf, infos, table, sched, group, prog>>

\* runner_get_interval_result and runner_get_total_result of a group: the
\* record in the table names the task.
GetResult(key) ==
    /\ pc = "running" /\ key \in DOMAIN table
    /\ LET i == table[key]
           docker == conf.driver = "docker"
       IN  /\ prog[i].state = "running"
           /\ report' \in
                 IF docker
                 THEN {DockerIntervalJson(i), DockerTotalJson(i, prog[i].run)}
                 ELSE {IntervalJson(i), TotalJson(i, prog[i].run)}
    /\ UNCHANGED <<pc, conf, infos, table, sched, group, prog>>

RunnerFree ==
    /\ pc \in {"ready", "running"}
    /\ FreeTasks
    /\ report' = NoReport
    /\ UNCHANGED <<conf, sched>>

Next ==
    \/ RunnerInit \/ InitTask \/ InitFails \/ InitDone
    \/ RunnerRun \/ StartTask \/ StartsDone \/ WakeChildren
    \/ StartContainer \/ WeighContainer \/ RunnerFree
    \/ \E i \in DOMAIN prog : MainStarts(i)
    \/ \E key \in DOMAIN table : GetResult(key)

Spec == Init /\ [][Next]_vars

-----------------------------------------------------------------------------
(* Properties                                                              *)

Running == {i \in DOMAIN prog : prog[i].state = "running"}

\* What the client asked of task i: its own option before the setting.
Asked(i, k) ==
    IF k \in DOMAIN conf.tasks[i] THEN conf.tasks[i][k]
    ELSE IF k \in DOMAIN conf.setting THEN conf.setting[k]
    ELSE Blank[k]

\* A session has all of its tasks or none: a group names one task, the one
\* of its place in the settings, after any failure and any earlier session
\* (the duplicate test, the table and the list of the drivers' init), and no
\* two programs write the same result file.
OneTaskPerGroup ==
    /\ table = [key \in {infos[i].cgroup_id : i \in Ids} |->
                   CHOOSE i \in Ids : infos[i].cgroup_id = key]
    /\ Cardinality(DOMAIN table) = Len(infos)
    /\ \A i \in Ids : infos[i].cgroup_id = conf.tasks[i].cgroup_id
    /\ pc = "uninit" => infos = <<>>
    /\ pc \notin {"uninit", "init"} => Len(infos) = conf.setting.nr_tasks
    /\ \A i, j \in Running :
          prog[i].run.result_file = prog[j].run.result_file => i = j

\* What a program runs with is what the client asked of its task, through the
\* record, the command line of either driver and main's arguments. The
\* repeats are left out (see RepeatsAsSet), and so is the docker driver's
\* program, which is always that of the image.
RunsAsConfigured ==
    \A i \in Running : LET run == prog[i].run IN
       /\ Asked(i, "q_depth") \in 1 .. MAX_QDEPTH =>
             run.qdepth = Asked(i, "q_depth")
       /\ run.qdepth \in 1 .. MAX_QDEPTH
       /\ conf.driver = "trace-replay" =>
             prog[i].binary = Asked(i, "trace_replay_path")
       /\ run.per_thread = Asked(i, "nr_thread")
       /\ run.timeout = Asked(i, "time")
       /\ run.filename = Asked(i, "device")
       /\ run.tracename = Asked(i, "trace_data_path")
       /\ <<run.wss, run.utilization, run.iosize>> =
            <<Asked(i, "wss"), Asked(i, "utilization"), Asked(i, "iosize")>>

\* A group has a weight only under bfq, and then its task's own: never the
\* setting's, and never the repeats that are stored over it. A child of the
\* trace-replay driver whose weight is valid does not run without it.
WeightInForce ==
    \A i \in DOMAIN group :
       /\ group[i].weight # 0 =>
             /\ Asked(i, "scheduler") = "bfq"
             /\ group[i].weight = conf.tasks[i].weight
       /\ /\ i \in Running /\ conf.driver = "trace-replay"
          /\ Asked(i, "scheduler") = "bfq" /\ ValidWeight(conf.tasks[i].weight)
          => group[i].weight # 0 /\ group[i].member

\* When the tasks agree on device and scheduler, a program runs on a device
\* whose scheduler is the one its results name, whatever an earlier session
\* set. Nobody sets another task's own scheduler (tr_runner, docker_runner).
SchedulerInForce ==
    (\A i, j \in Ids : /\ infos[i].scheduler = infos[j].scheduler
                       /\ infos[i].device = infos[j].device)
    => \A i \in Running : sched[infos[i].device] = Asked(i, "scheduler")

\* A result is that of the task it was asked for: the record and the
\* program's own configuration in it speak of one run.
ReportOfItsTask ==
    report.kind = "total" =>
       LET meta == report.meta
           config == report.config
       IN  /\ config.result_file[3] = meta.cgroup_id
           /\ report.name = meta.trace_data_path
           /\ config.timeout = meta.time
           /\ config.per_thread = meta.nr_thread
           /\ meta.q_depth \in 1 .. MAX_QDEPTH => config.qdepth = meta.q_depth
           /\ prog[table[meta.cgroup_id]].run.result_file = config.result_file

\* tr-driver.h:159 calls trace_repeat the number of repeats of the task. The
\* code stores it in weight: what the program repeats is always 1.
RepeatsAsSet ==
    \A i \in Running :
       /\ "trace_repeat" \in DOMAIN conf.tasks[i] \cup DOMAIN conf.setting
       /\ Asked(i, "time") = 0 /\ Asked(i, "trace_repeat") > 0
       => prog[i].run.repeat = Asked(i, "trace_repeat")
=============================================================================
