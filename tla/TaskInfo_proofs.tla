-------------------------- MODULE TaskInfo_proofs --------------------------
(***************************************************************************)
(* What holds of the settings for every JSON text, every number of tasks    *)
(* and both drivers: a group names one task, a program runs with what was   *)
(* asked for it, its group has the weight and its device the scheduler that *)
(* were asked for, and a result speaks of the task it was asked of.         *)
(***************************************************************************)
EXTENDS TaskInfo, FiniteSetTheorems, TLAPS

\* The first half of a record, and the record of task i.
Shared(c) == IF c.driver = "docker" THEN DockerSharedInfo(c)
             ELSE SharedInfo(c)

Record(c, i) == OwnOptions(c.tasks[i], Shared(c))

Member == DOMAIN Blank

\* What can be asked for in the settings and again by the task, and reaches
\* the record as it is.
Option == RequiredKeys \cup {"wss", "utilization", "iosize",
                             "trace_data_path"}

AskedOf(c, i, k) ==
    IF k \in DOMAIN c.tasks[i] THEN c.tasks[i][k]
    ELSE IF k \in DOMAIN c.setting THEN c.setting[k]
    ELSE Blank[k]

-----------------------------------------------------------------------------
(* The record of a task                                                    *)

LEMMA BlankType ==
    /\ Member = {"time", "q_depth", "nr_thread", "weight", "trace_repeat",
                 "wss", "utilization", "iosize", "prefix_cgroup_name",
                 "device", "scheduler", "cgroup_id", "trace_replay_path",
                 "trace_data_path"}
    /\ Blank = [k \in Member |-> Blank[k]]
    /\ Blank.q_depth = 0
    BY DEF Member, Blank

\* SetMembers reads the keys that are there and nothing else.
LEMMA SetMembersAt ==
    ASSUME NEW object, NEW keys, NEW info,
           DOMAIN info = Member
    PROVE  LET new == SetMembers(object, keys, info)
           IN  /\ DOMAIN new = Member
               /\ \A k \in Member :
                     new[k] = IF k \in keys /\ k \in DOMAIN object
                              THEN object[k] ELSE info[k]
    BY DEF SetMembers

LEMMA SetOptionsAt ==
    ASSUME NEW object, NEW info, DOMAIN info = Member
    PROVE  LET new == SetOptions(object, info)
           IN  /\ DOMAIN new = Member
               /\ \A k \in Member \ {"weight"} :
                     new[k] =
                       IF /\ k \in {"wss", "utilization", "iosize"}
                          /\ k \in DOMAIN object
                       THEN object[k] ELSE info[k]
<1> DEFINE keys == {"weight", "wss", "utilization", "iosize"}
           mid == SetMembers(object, keys, info)
<1>1. /\ DOMAIN mid = Member
      /\ \A k \in Member : mid[k] = IF k \in keys /\ k \in DOMAIN object
                                    THEN object[k] ELSE info[k]
  BY SetMembersAt
<1>2. SetOptions(object, info) =
         IF "trace_repeat" \in DOMAIN object
         THEN [mid EXCEPT !["weight"] = object["trace_repeat"]] ELSE mid
  BY DEF SetOptions, SetMember
<1> HIDE DEF mid
<1> QED
  BY <1>1, <1>2

LEMMA SharedInfoAt ==
    ASSUME NEW c
    PROVE  /\ DOMAIN SharedInfo(c) = Member
           /\ \A k \in Option :
                 SharedInfo(c)[k] = IF k \in DOMAIN c.setting
                                    THEN c.setting[k] ELSE Blank[k]
<1> DEFINE first == SetMembers(c.setting, RequiredKeys, Blank)
           second == SetOptions(c.setting, first)
           third == SetMembers(c.setting, {"trace_data_path"}, second)
<1>1. /\ DOMAIN first = Member
      /\ \A k \in Member :
            first[k] = IF k \in RequiredKeys /\ k \in DOMAIN c.setting
                       THEN c.setting[k] ELSE Blank[k]
  BY SetMembersAt DEF Member
<1> HIDE DEF first
<1>2. /\ DOMAIN second = Member
      /\ \A k \in Member \ {"weight"} :
            second[k] = IF /\ k \in {"wss", "utilization", "iosize"}
                           /\ k \in DOMAIN c.setting
                        THEN c.setting[k] ELSE first[k]
  BY <1>1, SetOptionsAt
<1> HIDE DEF second
<1>3. /\ DOMAIN third = Member
      /\ \A k \in Member :
            third[k] = IF k \in {"trace_data_path"} /\ k \in DOMAIN c.setting
                       THEN c.setting[k] ELSE second[k]
  BY <1>2, SetMembersAt
<1> HIDE DEF third
<1>4. SharedInfo(c) = third
  BY DEF SharedInfo, third, second, first
<1>5. Option \subseteq Member \ {"weight"}
  BY BlankType DEF Option, RequiredKeys
<1>6. ASSUME NEW k \in Option
      PROVE  third[k] = IF k \in DOMAIN c.setting
                        THEN c.setting[k] ELSE Blank[k]
  <2>1. CASE k = "trace_data_path"
    BY <1>1, <1>2, <1>3, <1>5, <2>1 DEF RequiredKeys
  <2>2. CASE k \in {"wss", "utilization", "iosize"}
    BY <1>1, <1>2, <1>3, <1>5, <2>2 DEF RequiredKeys
  <2>3. CASE k \in RequiredKeys
    BY <1>1, <1>2, <1>3, <1>5, <2>3 DEF RequiredKeys
  <2> QED
    BY <2>1, <2>2, <2>3 DEF Option
<1> QED
  BY <1>3, <1>4, <1>6

LEMMA SharedAt ==
    ASSUME NEW c
    PROVE  /\ DOMAIN Shared(c) = Member
           /\ \A k \in Option :
                 c.driver # "docker" \/ k # "trace_replay_path" =>
                    Shared(c)[k] = IF k \in DOMAIN c.setting
                                   THEN c.setting[k] ELSE Blank[k]
<1> DEFINE info == SharedInfo(c)
<1>1. DOMAIN info = Member
  BY SharedInfoAt
<1>2. DockerSharedInfo(c) \in
         {info, [info EXCEPT !["trace_replay_path"] = UsrBin(@)]}
  BY DEF DockerSharedInfo
<1>3. \A k \in Option : info[k] = IF k \in DOMAIN c.setting
                                  THEN c.setting[k] ELSE Blank[k]
  BY SharedInfoAt
<1>4. Option \subseteq Member
  BY BlankType DEF Option, RequiredKeys
<1> HIDE DEF info
<1>5. CASE c.driver = "docker"
  <2>1. Shared(c) \in
           {info, [info EXCEPT !["trace_replay_path"] = UsrBin(@)]}
    BY <1>2, <1>5 DEF Shared
  <2> QED
    BY <1>1, <1>3, <1>4, <1>5, <2>1
<1>6. CASE c.driver # "docker"
  BY <1>1, <1>3, <1>6 DEF Shared, info
<1> QED
  BY <1>5, <1>6

\* A record holds what was asked for, and its weight is the task's own.
LEMMA RecordAt ==
    ASSUME NEW c, NEW i
    PROVE  /\ DOMAIN Record(c, i) = Member
           /\ \A k \in Option :
                 c.driver # "docker" \/ k # "trace_replay_path" =>
                    Record(c, i)[k] = AskedOf(c, i, k)
           /\ \A k \in {"weight", "cgroup_id"} :
                 k \in DOMAIN c.tasks[i] =>
                    Record(c, i)[k] = c.tasks[i][k]
<1> DEFINE option == c.tasks[i]
           first == SetOptions(option, Shared(c))
           second == SetMembers(option, RequiredKeys, first)
           keys == {"weight", "trace_data_path", "cgroup_id"}
           third == SetMembers(option, keys, second)
<1>1. /\ DOMAIN first = Member
      /\ \A k \in Member \ {"weight"} :
            first[k] = IF /\ k \in {"wss", "utilization", "iosize"}
                          /\ k \in DOMAIN option
                       THEN option[k] ELSE Shared(c)[k]
  BY SharedAt, SetOptionsAt
<1> HIDE DEF first
<1>2. /\ DOMAIN second = Member
      /\ \A k \in Member :
            second[k] = IF k \in RequiredKeys /\ k \in DOMAIN option
                        THEN option[k] ELSE first[k]
  BY <1>1, SetMembersAt
<1> HIDE DEF second
<1>3. /\ DOMAIN third = Member
      /\ \A k \in Member :
            third[k] = IF k \in keys /\ k \in DOMAIN option
                       THEN option[k] ELSE second[k]
  BY <1>2, SetMembersAt
<1> HIDE DEF third
<1>4. Record(c, i) = third
  BY DEF Record, OwnOptions, third, second, first
<1>5. /\ Option \subseteq Member \ {"weight"}
      /\ {"weight", "cgroup_id"} \subseteq Member
  BY BlankType DEF Option, RequiredKeys
<1>6. ASSUME NEW k \in Option,
             c.driver # "docker" \/ k # "trace_replay_path"
      PROVE  third[k] = AskedOf(c, i, k)
  <2>1. Shared(c)[k] = IF k \in DOMAIN c.setting
                       THEN c.setting[k] ELSE Blank[k]
    BY <1>6, SharedAt
  <2>2. CASE k = "trace_data_path"
    BY <1>1, <1>2, <1>3, <1>5, <2>1, <2>2 DEF RequiredKeys, AskedOf
  <2>3. CASE k \in {"wss", "utilization", "iosize"}
    BY <1>1, <1>2, <1>3, <1>5, <2>1, <2>3 DEF RequiredKeys, AskedOf
  <2>4. CASE k \in RequiredKeys
    BY <1>1, <1>2, <1>3, <1>5, <2>1, <2>4 DEF RequiredKeys, AskedOf
  <2> QED
    BY <2>2, <2>3, <2>4 DEF Option
<1>7. \A k \in {"weight", "cgroup_id"} :
         k \in DOMAIN option => third[k] = option[k]
  BY <1>3, <1>5
<1> QED
  BY <1>3, <1>4, <1>6, <1>7

\* The queue depth of a record is a number, for the clip of main.
LEMMA DepthType ==
    ASSUME NEW c \in Clients, NEW i \in 1 .. Len(c.tasks)
    PROVE  Record(c, i).q_depth \in Nat
<1>1. Record(c, i)["q_depth"] = AskedOf(c, i, "q_depth")
  BY RecordAt DEF Option, RequiredKeys
<1>2. /\ "q_depth" \in DOMAIN c.tasks[i] => c.tasks[i]["q_depth"] \in Nat
      /\ "q_depth" \in DOMAIN c.setting => c.setting["q_depth"] \in Nat
  BY ClientsAssumption
<1> QED
  BY <1>1, <1>2, BlankType DEF AskedOf

-----------------------------------------------------------------------------
(* The invariant                                                           *)

\* What can be in the lists.
Records == UNION {{Record(c, i) : i \in 1 .. Len(c.tasks)} : c \in Clients}

Argvs == {Argv(info) : info \in Records}

Programs ==
    [binary : {Image} \cup {info.trace_replay_path : info \in Records},
     argv : Argvs, state : {"held", "started", "running", "exited"},
     run : {NoRun} \cup {MainArgs(argv) : argv \in Argvs}]

Groups == [weight : {0} \cup {info.weight : info \in Records},
           member : BOOLEAN]

Typed ==
    /\ pc \in PC
    /\ infos \in Seq(Records) /\ prog \in Seq(Programs)
    /\ group \in Seq(Groups)

\* A session is one of a JSON text that names a driver and the tasks.
Session ==
    /\ pc # "uninit" => /\ conf \in Clients /\ Acceptable(conf)
                        /\ conf.setting.nr_tasks \in Nat \ {0}
    /\ pc = "weigh" => conf.driver = "docker"

\* The list: a prefix of the tasks until init is through, and then all.
Listed ==
    /\ pc = "uninit" => infos = <<>>
    /\ Len(infos) <= Len(conf.tasks)
    /\ pc = "init" => Len(infos) <= conf.setting.nr_tasks
    /\ pc \notin {"uninit", "init"} => Len(infos) = conf.setting.nr_tasks
    /\ \A i \in Ids :
          /\ infos[i] = Record(conf, i)
          /\ {"trace_data_path", "cgroup_id"} \subseteq DOMAIN conf.tasks[i]
          /\ HasWeight(infos[i].scheduler) =>
                "weight" \in DOMAIN conf.tasks[i]

\* The table: the places of the groups, each of which is in the list once.
Found ==
    /\ table = [key \in DOMAIN table |-> table[key]]
    /\ DOMAIN table = {infos[i].cgroup_id : i \in Ids}
    /\ \A i \in Ids : table[infos[i].cgroup_id] = i

\* What is made of the records, as far as the run has come.
Made ==
    /\ pc \in {"uninit", "init", "ready"} => prog = <<>> /\ group = <<>>
    /\ Len(prog) <= Len(infos)
    /\ pc \in {"wake", "weigh", "running"} => Len(prog) = Len(infos)
    /\ Len(group) = Len(prog)
    /\ \A i \in 1 .. Len(prog) :
          /\ prog[i].argv = Argv(infos[i])
          /\ conf.driver # "docker" =>
                prog[i].binary = infos[i].trace_replay_path
          /\ prog[i].state = "running" =>
                prog[i].run = MainArgs(prog[i].argv)

\* The weight of a group: that of its record, under bfq. A child of the
\* trace-replay driver is put into its group before it is let go.
Weighed ==
    \A i \in 1 .. Len(group) :
       /\ group[i].weight # 0 =>
             /\ HasWeight(infos[i].scheduler)
             /\ group[i].weight = infos[i].weight
       /\ conf.driver # "docker" => group[i] = CgroupState(infos[i])

\* The scheduler of the first task is in force from the run on.
Scheduled ==
    pc \in {"start", "wake", "weigh", "running"} =>
       sched[infos[1].device] = infos[1].scheduler

\* The client has a result only of a program that runs.
Reported ==
    report # NoReport =>
       /\ pc = "running"
       /\ \E i \in 1 .. Len(prog) :
             /\ prog[i].state = "running"
             /\ report \in {IntervalJson(i), TotalJson(i, prog[i].run)}

TaskInv ==
    /\ Typed /\ Session /\ Listed /\ Found /\ Made /\ Weighed
    /\ Scheduled /\ Reported

\* The state after init has failed and after free, and before the first init.
Empty ==
    /\ pc = "uninit" /\ infos = <<>> /\ table = << >>
    /\ group = <<>> /\ prog = <<>> /\ report = NoReport

LEMMA EmptyKeeps == Empty /\ Len(conf.tasks) \in Nat => TaskInv
<1> SUFFICES ASSUME Empty, Len(conf.tasks) \in Nat PROVE TaskInv
  OBVIOUS
<1>1. Typed /\ Session
  BY DEF Empty, Typed, Session, PC
<1>2. Listed
  BY DEF Empty, Listed, Ids
<1>3. Found
  BY DEF Empty, Found, Ids
<1>4. Made /\ Weighed /\ Scheduled /\ Reported
  BY DEF Empty, Made, Weighed, Scheduled, Reported
<1> QED
  BY <1>1, <1>2, <1>3, <1>4 DEF TaskInv

LEMMA TaskInit == Init => TaskInv
<1> SUFFICES ASSUME Init PROVE TaskInv
  OBVIOUS
<1>1. Empty /\ conf.tasks = <<>>
  BY DEF Init, Empty, NoClient
<1> QED
  BY <1>1, EmptyKeeps

\* Of a session there is a length of the tasks.
LEMMA SessionType ==
    ASSUME TaskInv, pc # "uninit"
    PROVE  /\ conf \in Clients /\ Len(conf.tasks) \in Nat \ {0}
           /\ conf.setting.nr_tasks \in Nat \ {0}
           /\ conf.driver \in Driver
  BY ClientsAssumption DEF TaskInv, Session, Acceptable

LEMMA NoReportYet ==
    ASSUME TaskInv, pc # "running"
    PROVE  report = NoReport
  BY DEF TaskInv, Reported

LEMMA RunnerInitKeeps == ASSUME TaskInv, RunnerInit PROVE TaskInv'
<1>1. /\ pc = "uninit" /\ pc' = "init" /\ infos = <<>> /\ infos' = <<>>
      /\ prog = <<>> /\ prog' = <<>> /\ group' = group /\ table' = table
      /\ group = <<>> /\ DOMAIN table = {} /\ report' = NoReport
      /\ conf' \in Clients /\ Acceptable(conf)'
  BY DEF RunnerInit, TaskInv, Listed, Made, Typed, Found, Ids, Acceptable
<1>2. /\ Len(conf'.tasks) \in Nat \ {0}
      /\ conf'.setting.nr_tasks \in Nat \ {0}
  BY <1>1, ClientsAssumption DEF Acceptable
<1>3. Typed' /\ Session'
  BY <1>1, <1>2 DEF Typed, Session, PC
<1>4. Listed'
  BY <1>1, <1>2 DEF Listed, Ids
<1>5. Found'
  BY <1>1 DEF Found, Ids, TaskInv
<1>6. Made' /\ Weighed' /\ Scheduled' /\ Reported'
  BY <1>1 DEF Made, Weighed, Scheduled, Reported
<1> QED
  BY <1>3, <1>4, <1>5, <1>6 DEF TaskInv

\* What the tests of a task leave of its record.
LEMMA InfoType ==
    ASSUME NEW c, NEW i, NEW info \in InfoInit(c, i)
    PROVE  /\ info = Record(c, i)
           /\ HasWeight(info.scheduler) => "weight" \in DOMAIN c.tasks[i]
           /\ {"trace_data_path", "cgroup_id"} \subseteq DOMAIN c.tasks[i]
           /\ info.cgroup_id \notin DOMAIN table
  BY DEF InfoInit, Record, Shared, OwnValid, DockerOwnValid,
         DockerOwnOptions

LEMMA InitTaskKeeps == ASSUME TaskInv, InitTask PROVE TaskInv'
<1> DEFINE i == Len(infos) + 1
<1>1. PICK info \in InfoInit(conf, i) :
         /\ infos' = Append(infos, info)
         /\ table' = With(table, info.cgroup_id, i)
  BY DEF InitTask
<1>2. /\ pc = "init" /\ UNCHANGED <<pc, conf, sched, group, prog, report>>
      /\ i <= Len(conf.tasks) /\ Len(infos) < conf.setting.nr_tasks
  BY DEF InitTask
<1>3. /\ info = Record(conf, i) /\ info.cgroup_id \notin DOMAIN table
      /\ HasWeight(info.scheduler) => "weight" \in DOMAIN conf.tasks[i]
      /\ {"trace_data_path", "cgroup_id"} \subseteq DOMAIN conf.tasks[i]
  BY InfoType
<1>4. /\ conf \in Clients /\ Len(conf.tasks) \in Nat \ {0}
      /\ conf.setting.nr_tasks \in Nat \ {0}
  BY <1>2, SessionType
<1>5. infos \in Seq(Records) /\ prog = <<>> /\ group = <<>>
  BY <1>2 DEF TaskInv, Typed, Made
<1>6. i \in 1 .. Len(conf.tasks)
  BY <1>2, <1>4, <1>5
<1>7. info \in Records
  BY <1>3, <1>4, <1>6 DEF Records
<1>8. /\ infos' \in Seq(Records) /\ Len(infos') = i
      /\ Ids' = Ids \cup {i} /\ i \notin Ids /\ infos'[i] = info
      /\ \A k \in Ids : infos'[k] = infos[k]
  BY <1>1, <1>5, <1>7 DEF Ids
<1>9. Typed' /\ Session'
  BY <1>2, <1>8 DEF Typed, Session, TaskInv, Acceptable
<1>10. Listed'
  <2>1. ASSUME NEW k \in Ids'
        PROVE  /\ infos'[k] = Record(conf, k)
               /\ {"trace_data_path", "cgroup_id"}
                     \subseteq DOMAIN conf.tasks[k]
               /\ HasWeight(infos'[k].scheduler) =>
                     "weight" \in DOMAIN conf.tasks[k]
    BY <1>3, <1>8, <2>1 DEF TaskInv, Listed
  <2>2. infos' # <<>>
    BY <1>5, <1>8
  <2> QED
    BY <1>2, <1>4, <1>5, <1>6, <1>8, <2>1, <2>2 DEF Listed, Record, Shared, Ids
<1>11. Found'
  <2>1. /\ DOMAIN table' = DOMAIN table \cup {info.cgroup_id}
        /\ table' = [key \in DOMAIN table' |-> table'[key]]
        /\ table'[info.cgroup_id] = i
        /\ \A key \in DOMAIN table : table'[key] = table[key]
    BY <1>1, <1>3 DEF With
  <2>2. /\ DOMAIN table = {infos[k].cgroup_id : k \in Ids}
        /\ \A k \in Ids : table[infos[k].cgroup_id] = k
    BY DEF TaskInv, Found
  <2>3. DOMAIN table' = {infos'[k].cgroup_id : k \in Ids'}
    BY <1>8, <2>1, <2>2
  <2>4. \A k \in Ids' : table'[infos'[k].cgroup_id] = k
    BY <1>8, <2>1, <2>2
  <2> QED
    BY <2>1, <2>3, <2>4 DEF Found
<1>12. Made' /\ Weighed' /\ Scheduled' /\ Reported'
  BY <1>2, <1>5, <1>8, NoReportYet
  DEF Made, Weighed, Scheduled, Reported
<1> QED
  BY <1>9, <1>10, <1>11, <1>12 DEF TaskInv

LEMMA InitFailsKeeps == ASSUME TaskInv, InitFails PROVE TaskInv'
<1>1. Empty'
  BY NoReportYet DEF InitFails, FreeTasks, Empty
<1>2. (Len(conf.tasks) \in Nat)'
  BY SessionType DEF InitFails
<1> QED
  BY <1>1, <1>2, EmptyKeeps, PTL

\* A step that leaves the settings and the list alone.
LEMMA ListStays ==
    ASSUME TaskInv, UNCHANGED <<conf, infos, table>>,
           pc \notin {"uninit", "init"}, pc' \notin {"uninit", "init"}
    PROVE  Listed' /\ Found'
<1>1. Listed'
  BY DEF TaskInv, Listed, Ids, Record, Shared
<1>2. Found'
  BY DEF TaskInv, Found, Ids
<1> QED
  BY <1>1, <1>2

LEMMA InitDoneKeeps == ASSUME TaskInv, InitDone PROVE TaskInv'
<1>1. /\ pc = "init" /\ pc' = "ready" /\ Len(infos) = conf.setting.nr_tasks
      /\ UNCHANGED <<conf, infos, table, sched, group, prog, report>>
  <2>1. /\ pc = "init" /\ Len(infos) >= conf.setting.nr_tasks
        /\ Len(infos) <= conf.setting.nr_tasks
    BY DEF InitDone, TaskInv, Listed
  <2>2. conf.setting.nr_tasks \in Nat /\ Len(infos) \in Nat
    BY <2>1, SessionType DEF TaskInv, Typed
  <2> QED
    BY <2>1, <2>2 DEF InitDone
<1>2. Typed' /\ Session'
  BY <1>1 DEF TaskInv, Typed, Session, PC, Acceptable
<1>3. Listed'
  BY <1>1 DEF TaskInv, Listed, Ids, Record, Shared
<1>4. Found'
  BY <1>1 DEF TaskInv, Found, Ids
<1>5. Made' /\ Weighed' /\ Scheduled' /\ Reported'
  BY <1>1, NoReportYet
  DEF TaskInv, Made, Weighed, Scheduled, Reported
<1> QED
  BY <1>2, <1>3, <1>4, <1>5 DEF TaskInv

LEMMA RunnerRunKeeps == ASSUME TaskInv, RunnerRun PROVE TaskInv'
<1>1. /\ pc = "ready" /\ pc' = "start"
      /\ UNCHANGED <<conf, infos, table, group, prog, report>>
      /\ sched' = With(sched, infos[1].device, infos[1].scheduler)
  BY DEF RunnerRun
<1>2. Typed' /\ Session'
  BY <1>1 DEF TaskInv, Typed, Session, PC, Acceptable
<1>3. Listed' /\ Found'
  BY <1>1, ListStays
<1>4. Scheduled'
  BY <1>1 DEF With, Scheduled
<1>5. Made' /\ Weighed' /\ Reported'
  BY <1>1, NoReportYet DEF TaskInv, Made, Weighed, Reported
<1> QED
  BY <1>2, <1>3, <1>4, <1>5 DEF TaskInv

\* The records of the tasks that have one.
LEMMA InfosType ==
    ASSUME TaskInv, NEW i \in Ids
    PROVE  /\ infos[i] \in Records /\ infos[i] = Record(conf, i)
           /\ i \in 1 .. Len(infos) /\ Ids = 1 .. Len(infos)
  BY DEF TaskInv, Typed, Listed, Ids

LEMMA StartTaskKeeps == ASSUME TaskInv, StartTask PROVE TaskInv'
<1> DEFINE i == Len(prog) + 1
           info == infos[i]
<1>1. /\ pc = "start" /\ i \in Ids
      /\ UNCHANGED <<pc, conf, infos, table, sched, report>>
  BY DEF StartTask, TaskInv, Typed, Ids
<1>2. info \in Records
  BY <1>1, InfosType
<1>3. PICK one \in Programs :
         /\ prog' = Append(prog, one)
         /\ one.argv = Argv(info) /\ one.state = "held"
         /\ conf.driver # "docker" => one.binary = info.trace_replay_path
  <2> DEFINE one == [binary |-> IF conf.driver = "docker" THEN Image
                                ELSE info.trace_replay_path,
                     argv |-> Argv(info), state |-> "held", run |-> NoRun]
  <2>1. prog' = Append(prog, one)
    BY DEF StartTask, DockerArgv, Argv
  <2>2. Argv(info) \in Argvs
    BY <1>2 DEF Argvs
  <2>3. one \in Programs
    BY <1>2, <2>2 DEF Programs
  <2> QED
    BY <2>1, <2>3
<1>4. PICK its \in Groups :
         /\ group' = Append(group, its)
         /\ its.weight # 0 => /\ HasWeight(info.scheduler)
                              /\ its.weight = info.weight
         /\ conf.driver # "docker" => its = CgroupState(info)
  <2> DEFINE its == IF conf.driver = "docker"
                    THEN [weight |-> 0, member |-> TRUE]
                    ELSE CgroupState(info)
  <2>1. group' = Append(group, its)
    BY DEF StartTask
  <2>2. its \in Groups
    BY <1>2 DEF Groups, CgroupState
  <2>3. its.weight # 0 => /\ HasWeight(info.scheduler)
                          /\ its.weight = info.weight
    BY DEF CgroupState
  <2> QED
    BY <2>1, <2>2, <2>3
<1>5. /\ prog \in Seq(Programs) /\ group \in Seq(Groups)
      /\ Len(group) = Len(prog) /\ Len(infos) \in Nat
  BY DEF TaskInv, Typed, Made
<1>6. /\ prog' \in Seq(Programs) /\ Len(prog') = i /\ prog'[i] = one
      /\ \A k \in 1 .. Len(prog) : prog'[k] = prog[k]
      /\ group' \in Seq(Groups) /\ Len(group') = i /\ group'[i] = its
      /\ \A k \in 1 .. Len(group) : group'[k] = group[k]
      /\ 1 .. i = (1 .. Len(prog)) \cup {i}
  BY <1>3, <1>4, <1>5
<1>7. Typed' /\ Session'
  BY <1>1, <1>6 DEF TaskInv, Typed, Session, PC, Acceptable
<1>8. Listed' /\ Found'
  BY <1>1, ListStays
<1>9. Made'
  <2>1. \A k \in 1 .. i :
           /\ prog'[k].argv = Argv(infos[k])
           /\ conf.driver # "docker" =>
                 prog'[k].binary = infos[k].trace_replay_path
           /\ prog'[k].state = "running" =>
                 prog'[k].run = MainArgs(prog'[k].argv)
    BY <1>3, <1>6 DEF TaskInv, Made
  <2>2. i <= Len(infos)
    BY <1>1, InfosType
  <2> QED
    BY <1>1, <1>6, <2>1, <2>2 DEF Made
<1>10. Weighed'
  <2>1. \A k \in 1 .. i :
           /\ group'[k].weight # 0 =>
                 /\ HasWeight(infos[k].scheduler)
                 /\ group'[k].weight = infos[k].weight
           /\ conf.driver # "docker" => group'[k] = CgroupState(infos[k])
    BY <1>4, <1>5, <1>6 DEF TaskInv, Weighed
  <2> QED
    BY <1>1, <1>6, <2>1 DEF Weighed
<1>11. Scheduled' /\ Reported'
  BY <1>1, NoReportYet DEF TaskInv, Scheduled, Reported
<1> QED
  BY <1>7, <1>8, <1>9, <1>10, <1>11 DEF TaskInv

LEMMA StartsDoneKeeps == ASSUME TaskInv, StartsDone PROVE TaskInv'
<1>1. /\ pc = "start" /\ pc' = "wake" /\ Len(prog) = Len(infos)
      /\ UNCHANGED <<conf, infos, table, sched, group, prog, report>>
  BY DEF StartsDone
<1>2. Typed' /\ Session'
  BY <1>1 DEF TaskInv, Typed, Session, PC, Acceptable
<1>3. Listed' /\ Found'
  BY <1>1, ListStays
<1>4. Made' /\ Weighed' /\ Scheduled' /\ Reported'
  BY <1>1, NoReportYet
  DEF TaskInv, Made, Weighed, Scheduled, Reported
<1> QED
  BY <1>2, <1>3, <1>4 DEF TaskInv

\* A step in which programs that wait or were started change their state, and
\* those that run keep all they run with.
Moves ==
    /\ prog' \in Seq(Programs) /\ Len(prog') = Len(prog)
    /\ \A i \in 1 .. Len(prog) :
          /\ prog'[i].argv = prog[i].argv
          /\ prog'[i].binary = prog[i].binary
          /\ prog'[i].state = "running" =>
                prog'[i].run = MainArgs(prog[i].argv)

LEMMA MovesKeep ==
    ASSUME TaskInv, Moves, pc \in {"start", "wake", "weigh", "running"},
           UNCHANGED <<conf, infos, table, sched, group, report>>,
           pc' \in {pc, "weigh", "running"},
           pc # "start" \/ pc' = "start",
           pc' = "weigh" => conf.driver = "docker"
    PROVE  Typed' /\ Session' /\ Listed' /\ Found' /\ Made' /\ Weighed'
           /\ Scheduled'
<1>1. Typed' /\ Session'
  BY DEF TaskInv, Typed, Session, PC, Acceptable, Moves
<1>2. Listed' /\ Found'
  BY ListStays
<1>3. Made'
  BY DEF TaskInv, Made, Moves
<1>4. Weighed' /\ Scheduled'
  BY DEF TaskInv, Weighed, Scheduled
<1> QED
  BY <1>1, <1>2, <1>3, <1>4

\* What is known of a program.
LEMMA ProgramType ==
    ASSUME TaskInv, NEW i \in DOMAIN prog
    PROVE  /\ i \in 1 .. Len(prog) /\ i \in Ids /\ prog[i] \in Programs
           /\ prog[i].argv = Argv(infos[i]) /\ prog[i].argv \in Argvs
           /\ pc \in {"start", "wake", "weigh", "running"}
<1>1. /\ prog \in Seq(Programs) /\ i \in 1 .. Len(prog) /\ Len(prog) \in Nat
      /\ pc \in PC /\ Len(infos) \in Nat /\ Ids = 1 .. Len(infos)
  BY DEF TaskInv, Typed, Ids
<1>2. prog # <<>> /\ Len(prog) <= Len(infos) /\ prog[i] \in Programs
  BY <1>1 DEF TaskInv, Made
<1> QED
  BY <1>1, <1>2 DEF TaskInv, Made, PC, Programs

\* A function on the places of a sequence is a sequence as long.
LEMMA SameLength ==
    ASSUME NEW S, NEW n \in Nat, NEW f \in [1 .. n -> S]
    PROVE  f \in Seq(S) /\ Len(f) = n
  OBVIOUS

LEMMA StartedType ==
    ASSUME NEW p \in Programs
    PROVE  LET new == [p EXCEPT !.state = "started"]
           IN  /\ new \in Programs /\ new.state = "started"
               /\ new.argv = p.argv /\ new.binary = p.binary
  BY DEF Programs

LEMMA WakeChildrenKeeps == ASSUME TaskInv, WakeChildren PROVE TaskInv'
<1>1. /\ pc = "wake" /\ pc' = "running"
      /\ UNCHANGED <<conf, infos, table, sched, group, report>>
      /\ prog' = [i \in DOMAIN prog |-> [prog[i] EXCEPT !.state = "started"]]
  BY DEF WakeChildren
<1>2. prog \in Seq(Programs) /\ DOMAIN prog = 1 .. Len(prog)
  BY DEF TaskInv, Typed
<1>3. ASSUME NEW i \in 1 .. Len(prog)
      PROVE  /\ prog'[i] \in Programs /\ prog'[i].state = "started"
             /\ prog'[i].argv = prog[i].argv
             /\ prog'[i].binary = prog[i].binary
  <2>1. prog[i] \in Programs /\ i \in DOMAIN prog
    BY <1>2
  <2>2. prog'[i] = [prog[i] EXCEPT !.state = "started"]
    BY <1>1, <2>1
  <2> QED
    BY <2>1, <2>2, StartedType
<1>4. prog' \in [1 .. Len(prog) -> Programs] /\ Len(prog) \in Nat
  BY <1>1, <1>2, <1>3
<1>5. prog' \in Seq(Programs) /\ Len(prog') = Len(prog)
  BY <1>4, SameLength
<1>6. Moves
  BY <1>3, <1>5 DEF Moves
<1>7. Reported'
  BY <1>1, NoReportYet DEF Reported
<1> QED
  BY <1>1, <1>6, <1>7, MovesKeep DEF TaskInv

LEMMA StartContainerKeeps == ASSUME TaskInv, StartContainer PROVE TaskInv'
<1> DEFINE i == First(Held)
<1>1. /\ pc = "wake" /\ pc' = "weigh" /\ conf.driver = "docker"
      /\ UNCHANGED <<conf, infos, table, sched, group, report>>
      /\ prog' = [prog EXCEPT ![i].state = "started"]
  BY DEF StartContainer
<1>2. prog \in Seq(Programs) /\ DOMAIN prog = 1 .. Len(prog)
  BY DEF TaskInv, Typed
<1> HIDE DEF i
<1>3. ASSUME NEW k \in 1 .. Len(prog)
      PROVE  /\ prog'[k] \in Programs
             /\ prog'[k] = prog[k] \/ prog'[k].state = "started"
             /\ prog'[k].argv = prog[k].argv
             /\ prog'[k].binary = prog[k].binary
  <2>1. prog[k] \in Programs /\ k \in DOMAIN prog
    BY <1>2
  <2>2. prog'[k] \in {prog[k], [prog[k] EXCEPT !.state = "started"]}
    BY <1>1, <2>1
  <2> QED
    BY <2>1, <2>2, StartedType
<1>4. prog' \in Seq(Programs) /\ Len(prog') = Len(prog)
  <2>1. DOMAIN prog' = 1 .. Len(prog) /\ Len(prog) \in Nat
    BY <1>1, <1>2
  <2>2. prog' = [k \in DOMAIN prog' |-> prog'[k]]
    BY <1>1, Zenon
  <2>3. prog' \in [1 .. Len(prog) -> Programs]
    BY <1>3, <2>1, <2>2
  <2> QED
    BY <2>1, <2>3, SameLength
<1>5. Moves
  BY <1>3, <1>4 DEF Moves, TaskInv, Made
<1>6. Reported'
  BY <1>1, NoReportYet DEF Reported
<1> QED
  BY <1>1, <1>5, <1>6, MovesKeep DEF TaskInv

LEMMA WeighContainerKeeps == ASSUME TaskInv, WeighContainer PROVE TaskInv'
<1> DEFINE i == IF Held = {} THEN Len(infos) ELSE First(Held) - 1
<1>1. /\ pc = "weigh" /\ pc' \in {"running", "wake"}
      /\ UNCHANGED <<conf, infos, table, sched, prog, report>>
      /\ group' = [group EXCEPT ![i] = DockerCgroupState(infos[i])]
  BY DEF WeighContainer
<1> HIDE DEF i
<1>2. /\ conf.driver = "docker" /\ group \in Seq(Groups)
      /\ Len(group) = Len(infos) /\ Len(infos) \in Nat
      /\ DOMAIN group = Ids /\ Ids = 1 .. Len(infos)
  BY <1>1 DEF TaskInv, Typed, Session, Made, Ids
<1>3. ASSUME i \in Ids
      PROVE  LET its == DockerCgroupState(infos[i])
             IN  /\ its \in Groups
                 /\ its.weight # 0 => /\ HasWeight(infos[i].scheduler)
                                      /\ its.weight = infos[i].weight
  BY <1>3, InfosType DEF DockerCgroupState, Groups
<1>4. ASSUME NEW k \in Ids
      PROVE  /\ group'[k] \in Groups
             /\ group'[k].weight # 0 =>
                   /\ HasWeight(infos[k].scheduler)
                   /\ group'[k].weight = infos[k].weight
  <2>1. group[k] \in Groups
    BY <1>2, <1>4
  <2>2. CASE k = i
    BY <1>1, <1>2, <1>3, <1>4, <2>2
  <2>3. CASE k # i
    BY <1>1, <1>2, <1>4, <2>1, <2>3 DEF TaskInv, Weighed
  <2> QED
    BY <2>2, <2>3
<1>5. group' \in Seq(Groups) /\ Len(group') = Len(group)
  <2>1. group' \in [1 .. Len(infos) -> Groups]
    BY <1>1, <1>2, <1>4
  <2> QED
    BY <1>2, <2>1, SameLength
<1>6. Typed' /\ Session'
  BY <1>1, <1>5 DEF TaskInv, Typed, Session, PC, Acceptable
<1>7. Listed' /\ Found'
  BY <1>1, ListStays
<1>8. Made'
  BY <1>1, <1>5 DEF TaskInv, Made
<1>9. Weighed'
  BY <1>1, <1>2, <1>4, <1>5 DEF Weighed
<1>10. Scheduled' /\ Reported'
  BY <1>1, NoReportYet DEF TaskInv, Scheduled, Reported
<1> QED
  BY <1>6, <1>7, <1>8, <1>9, <1>10 DEF TaskInv

LEMMA MainStartsKeeps ==
    ASSUME TaskInv, NEW i \in DOMAIN prog, MainStarts(i)
    PROVE  TaskInv'
<1> DEFINE run == MainArgs(prog[i].argv)
           runs == run.nr_thread \in 1 .. MAX_THREADS
<1>1. /\ prog[i].state = "started"
      /\ UNCHANGED <<pc, conf, infos, table, sched, group, report>>
      /\ prog' = [prog EXCEPT
                    ![i].state = IF runs THEN "running" ELSE "exited",
                    ![i].run = IF runs THEN run ELSE NoRun]
  BY DEF MainStarts
<1>2. /\ prog[i] \in Programs /\ i \in 1 .. Len(prog)
      /\ pc \in {"start", "wake", "weigh", "running"}
      /\ run \in {MainArgs(argv) : argv \in Argvs}
  BY ProgramType
<1>3. prog \in Seq(Programs) /\ DOMAIN prog = 1 .. Len(prog)
  BY DEF TaskInv, Typed
<1> HIDE DEF run, runs
<1>4. /\ prog'[i].argv = prog[i].argv /\ prog'[i].binary = prog[i].binary
      /\ prog'[i].state = (IF runs THEN "running" ELSE "exited")
      /\ prog'[i].run = (IF runs THEN run ELSE NoRun)
      /\ prog'[i] \in Programs
      /\ \A k \in 1 .. Len(prog) : k # i => prog'[k] = prog[k]
  BY <1>1, <1>2, <1>3 DEF Programs
<1>5. prog' \in Seq(Programs) /\ Len(prog') = Len(prog)
  <2>1. prog' \in [1 .. Len(prog) -> Programs] /\ Len(prog) \in Nat
    BY <1>1, <1>3, <1>4
  <2> QED
    BY <2>1, SameLength
<1>6. Moves
  BY <1>4, <1>5 DEF Moves, TaskInv, Made, run
<1>7. Reported'
  BY <1>1, <1>2, <1>3, <1>4, <1>5
  DEF TaskInv, Reported, IntervalJson, TotalJson, Meta
<1>8. pc' = "weigh" => conf.driver = "docker"
  BY <1>1 DEF TaskInv, Session
<1> QED
  BY <1>1, <1>2, <1>6, <1>7, <1>8, MovesKeep DEF TaskInv

LEMMA GetResultKeeps ==
    ASSUME TaskInv, NEW key \in DOMAIN table, GetResult(key)
    PROVE  TaskInv'
<1> DEFINE i == table[key]
<1>1. /\ pc = "running" /\ prog[i].state = "running"
      /\ UNCHANGED <<pc, conf, infos, table, sched, group, prog>>
      /\ report' \in {IntervalJson(i), TotalJson(i, prog[i].run)}
  BY DEF GetResult, DockerIntervalJson, DockerTotalJson, IntervalJson,
         TotalJson, DockerMeta, DockerTotalConfig
<1>2. i \in 1 .. Len(prog)
  <2>1. i \in Ids
    BY DEF TaskInv, Found
  <2> QED
    BY <1>1, <2>1 DEF TaskInv, Typed, Made, Ids
<1>3. Typed' /\ Session'
  BY <1>1 DEF TaskInv, Typed, Session, PC, Acceptable
<1>4. Listed' /\ Found'
  BY <1>1, ListStays
<1>5. Made' /\ Weighed' /\ Scheduled'
  BY <1>1 DEF TaskInv, Made, Weighed, Scheduled
<1>6. Reported'
  BY <1>1, <1>2 DEF Reported, IntervalJson, TotalJson, Meta
<1> QED
  BY <1>3, <1>4, <1>5, <1>6 DEF TaskInv

LEMMA RunnerFreeKeeps == ASSUME TaskInv, RunnerFree PROVE TaskInv'
<1>1. Empty'
  BY DEF RunnerFree, FreeTasks, Empty
<1>2. (Len(conf.tasks) \in Nat)'
  BY SessionType DEF RunnerFree
<1> QED
  BY <1>1, <1>2, EmptyKeeps, PTL

LEMMA StutterKeeps == ASSUME TaskInv, UNCHANGED vars PROVE TaskInv'
<1>1. Typed' /\ Session' /\ Listed' /\ Found'
  BY DEF vars, TaskInv, Typed, Session, Acceptable, Listed, Found, Ids,
         Record, Shared
<1>2. Made' /\ Weighed' /\ Scheduled' /\ Reported'
  BY DEF vars, TaskInv, Made, Weighed, Scheduled, Reported, IntervalJson,
         TotalJson, Meta
<1> QED
  BY <1>1, <1>2 DEF TaskInv

LEMMA TaskNext == TaskInv /\ [Next]_vars => TaskInv'
<1> SUFFICES ASSUME TaskInv, [Next]_vars PROVE TaskInv'
  OBVIOUS
<1>1. CASE RunnerInit
  BY <1>1, RunnerInitKeeps
<1>2. CASE InitTask
  BY <1>2, InitTaskKeeps
<1>3. CASE InitFails
  BY <1>3, InitFailsKeeps
<1>4. CASE InitDone
  BY <1>4, InitDoneKeeps
<1>5. CASE RunnerRun
  BY <1>5, RunnerRunKeeps
<1>6. CASE StartTask
  BY <1>6, StartTaskKeeps
<1>7. CASE StartsDone
  BY <1>7, StartsDoneKeeps
<1>8. CASE WakeChildren
  BY <1>8, WakeChildrenKeeps
<1>9. CASE StartContainer
  BY <1>9, StartContainerKeeps
<1>10. CASE WeighContainer
  BY <1>10, WeighContainerKeeps
<1>11. CASE RunnerFree
  BY <1>11, RunnerFreeKeeps
<1>12. CASE \E i \in DOMAIN prog : MainStarts(i)
  BY <1>12, MainStartsKeeps
<1>13. CASE \E key \in DOMAIN table : GetResult(key)
  BY <1>13, GetResultKeeps
<1>14. CASE UNCHANGED vars
  BY <1>14, StutterKeeps
<1> QED
  BY <1>1, <1>2, <1>3, <1>4, <1>5, <1>6, <1>7, <1>8, <1>9, <1>10, <1>11,
     <1>12, <1>13, <1>14
  DEF Next

\* The list, the table and all that is made of them agree in every state
\* (tr_init and docker_init, tr_runner and docker_runner).
THEOREM TaskInvariant == Spec => []TaskInv
  BY TaskInit, TaskNext, PTL DEF Spec

-----------------------------------------------------------------------------
(* What the invariant says of the client's settings                        *)

\* What the program takes over from the record, by way of the command line.
LEMMA MainReads ==
    ASSUME NEW info
    PROVE  LET run == MainArgs(Argv(info))
           IN  /\ run.per_thread = info["nr_thread"]
               /\ run.timeout = info["time"]
               /\ run.filename = info["device"]
               /\ run.tracename = info["trace_data_path"]
               /\ run.wss = info["wss"]
               /\ run.utilization = info["utilization"]
               /\ run.iosize = info["iosize"]
               /\ run.result_file[3] = info["cgroup_id"]
<1> DEFINE argv == Argv(info)
<1>1. /\ argv[1] = info["q_depth"] /\ argv[2] = info["nr_thread"]
      /\ argv[4] = info["time"] /\ argv[6] = info["device"]
      /\ argv[7] = info["trace_data_path"] /\ argv[8] = info["wss"]
      /\ argv[9] = info["utilization"] /\ argv[10] = info["iosize"]
      /\ argv[3] = <<info["scheduler"], info["weight"], info["cgroup_id"]>>
  BY DEF Argv
<1> HIDE DEF argv
<1>2. LET run == MainArgs(argv)
      IN  /\ run.per_thread = argv[2] /\ run.timeout = argv[4]
          /\ run.filename = argv[6] /\ run.tracename = argv[7]
          /\ run.wss = argv[8] /\ run.utilization = argv[9]
          /\ run.iosize = argv[10] /\ run.result_file = argv[3]
  BY DEF MainArgs
<1>3. argv[3][3] = info["cgroup_id"]
  BY <1>1
<1> QED
  BY <1>1, <1>2, <1>3 DEF argv

\* The depth is clipped at both ends.
LEMMA Clips ==
    ASSUME NEW max \in Nat \ {0}, NEW depth \in Nat
    PROVE  LET clipped == IF depth > max THEN max ELSE depth
               new == IF clipped = 0 THEN 1 ELSE clipped
           IN  new \in 1 .. max /\ (depth \in 1 .. max => new = depth)
  OBVIOUS

LEMMA MainClips ==
    ASSUME NEW info, info["q_depth"] \in Nat
    PROVE  LET run == MainArgs(Argv(info))
           IN  /\ run.qdepth \in 1 .. MAX_QDEPTH
               /\ info["q_depth"] \in 1 .. MAX_QDEPTH =>
                     run.qdepth = info["q_depth"]
<1> DEFINE argv == Argv(info)
           depth == info["q_depth"]
           clipped == IF depth > MAX_QDEPTH THEN MAX_QDEPTH ELSE depth
           new == IF clipped = 0 THEN 1 ELSE clipped
<1>1. argv[1] = depth
  BY DEF Argv
<1>2. MainArgs(argv).qdepth = new
  BY <1>1 DEF MainArgs
<1>3. MAX_QDEPTH \in Nat \ {0}
  BY DEF MAX_QDEPTH
<1>4. new \in 1 .. MAX_QDEPTH /\ (depth \in 1 .. MAX_QDEPTH => new = depth)
  BY <1>3, Clips, Zenon
<1> HIDE DEF new
<1> QED
  BY <1>2, <1>4, Zenon

\* A running program is one of the list, made of its record.
LEMMA RunType ==
    ASSUME TaskInv, NEW i \in Running
    PROVE  /\ i \in Ids /\ i \in 1 .. Len(prog) /\ i \in 1 .. Len(conf.tasks)
           /\ infos[i] = Record(conf, i) /\ conf \in Clients
           /\ conf.driver \in Driver
           /\ prog[i].run = MainArgs(Argv(infos[i]))
           /\ pc \in {"start", "wake", "weigh", "running"}
<1>1. i \in DOMAIN prog /\ prog[i].state = "running"
  BY DEF Running
<1>2. /\ i \in 1 .. Len(prog) /\ i \in Ids /\ prog[i].argv = Argv(infos[i])
      /\ pc \in {"start", "wake", "weigh", "running"}
  BY <1>1, ProgramType
<1>3. prog[i].run = MainArgs(prog[i].argv)
  BY <1>1, <1>2 DEF TaskInv, Made
<1>4. /\ conf \in Clients /\ Len(conf.tasks) \in Nat
      /\ conf.driver \in Driver
  BY <1>2, SessionType
<1>5. /\ i \in 1 .. Len(infos) /\ infos[i] = Record(conf, i)
      /\ Len(infos) \in Nat /\ Len(infos) <= Len(conf.tasks)
  BY <1>2, InfosType DEF TaskInv, Typed, Listed
<1> QED
  BY <1>2, <1>3, <1>4, <1>5

\* The record has what Asked says, whichever driver.
LEMMA AskedAt ==
    ASSUME NEW i, infos[i] = Record(conf, i), NEW k \in Option,
           conf.driver # "docker" \/ k # "trace_replay_path"
    PROVE  infos[i][k] = Asked(i, k)
  BY RecordAt DEF AskedOf, Asked

LEMMA OneTask == ASSUME TaskInv PROVE OneTaskPerGroup
<1>1. /\ table = [key \in DOMAIN table |-> table[key]]
      /\ DOMAIN table = {infos[i].cgroup_id : i \in Ids}
      /\ \A i \in Ids : table[infos[i].cgroup_id] = i
  BY DEF TaskInv, Found
<1>2. Ids = 1 .. Len(infos) /\ Len(infos) \in Nat
  BY DEF TaskInv, Typed, Ids
<1>3. table = [key \in {infos[i].cgroup_id : i \in Ids} |->
                  CHOOSE i \in Ids : infos[i].cgroup_id = key]
  <2>1. ASSUME NEW key \in DOMAIN table
        PROVE  table[key] = CHOOSE i \in Ids : infos[i].cgroup_id = key
    <3>1. PICK i \in Ids : infos[i].cgroup_id = key
      BY <1>1, <2>1
    <3>2. \A j \in Ids : infos[j].cgroup_id = key => j = table[key]
      BY <1>1
    <3> QED
      BY <3>1, <3>2
  <2> QED
    BY <1>1, <2>1, Zenon
<1>4. Cardinality(DOMAIN table) = Len(infos)
  <2> DEFINE name == [i \in Ids |-> infos[i].cgroup_id]
  <2>1. name \in Bijection(Ids, DOMAIN table)
    <3>1. name \in [Ids -> DOMAIN table]
      BY <1>1
    <3>2. \A i, j \in Ids : name[i] = name[j] => i = j
      BY <1>1
    <3>3. \A key \in DOMAIN table : \E i \in Ids : name[i] = key
      BY <1>1
    <3> HIDE DEF name
    <3> QED
      <4>1. name \in Injection(Ids, DOMAIN table)
        BY <3>1, <3>2 DEF Injection, IsInjective
      <4>2. name \in Surjection(Ids, DOMAIN table)
        BY <3>1, <3>3 DEF Surjection
      <4> QED
        BY <4>1, <4>2 DEF Bijection
  <2>2. IsFiniteSet(Ids) /\ Cardinality(Ids) = Len(infos)
    BY <1>2, FS_Interval
  <2> QED
    BY <2>1, <2>2, FS_Bijection DEF ExistsBijection
<1>5. \A i \in Ids : infos[i].cgroup_id = conf.tasks[i].cgroup_id
  <2>1. ASSUME NEW i \in Ids
        PROVE  /\ infos[i] = Record(conf, i)
               /\ "cgroup_id" \in DOMAIN conf.tasks[i]
    BY DEF TaskInv, Listed
  <2>2. \A i \in Ids : infos[i]["cgroup_id"] = conf.tasks[i]["cgroup_id"]
    BY <2>1, RecordAt
  <2> QED
    BY <2>2
<1>6. ASSUME NEW i \in Running, NEW j \in Running,
             prog[i].run.result_file = prog[j].run.result_file
      PROVE  i = j
  <2>1. /\ i \in Ids /\ prog[i].run.result_file[3] = infos[i].cgroup_id
        /\ j \in Ids /\ prog[j].run.result_file[3] = infos[j].cgroup_id
    <3>1. ASSUME NEW k \in Running
          PROVE  /\ k \in Ids
                 /\ prog[k].run.result_file[3] = infos[k]["cgroup_id"]
      <4>1. /\ k \in Ids /\ prog[k].run = MainArgs(Argv(infos[k]))
        BY RunType
      <4> QED
        BY <4>1, MainReads
    <3> QED
      BY <3>1
  <2> QED
    BY <1>1, <1>6, <2>1
<1>7. /\ pc = "uninit" => infos = <<>>
      /\ pc \notin {"uninit", "init"} => Len(infos) = conf.setting.nr_tasks
  BY DEF TaskInv, Listed
<1> QED
  BY <1>3, <1>4, <1>5, <1>6, <1>7 DEF OneTaskPerGroup

LEMMA AsConfigured == ASSUME TaskInv PROVE RunsAsConfigured
<1> SUFFICES ASSUME NEW i \in Running
             PROVE  LET run == prog[i].run
                    IN  /\ Asked(i, "q_depth") \in 1 .. MAX_QDEPTH =>
                              run.qdepth = Asked(i, "q_depth")
                        /\ run.qdepth \in 1 .. MAX_QDEPTH
                        /\ conf.driver = "trace-replay" =>
                              prog[i].binary = Asked(i, "trace_replay_path")
                        /\ run.per_thread = Asked(i, "nr_thread")
                        /\ run.timeout = Asked(i, "time")
                        /\ run.filename = Asked(i, "device")
                        /\ run.tracename = Asked(i, "trace_data_path")
                        /\ <<run.wss, run.utilization, run.iosize>> =
                             <<Asked(i, "wss"), Asked(i, "utilization"),
                               Asked(i, "iosize")>>
  BY Zenon DEF RunsAsConfigured
<1> DEFINE keys == {"q_depth", "nr_thread", "time", "device",
                    "trace_data_path", "wss", "utilization", "iosize"}
           info == infos[i]
<1>1. /\ i \in 1 .. Len(prog) /\ prog[i].run = MainArgs(Argv(info))
      /\ info = Record(conf, i) /\ conf \in Clients
      /\ i \in 1 .. Len(conf.tasks)
  BY RunType
<1>2. \A k \in keys : info[k] = Asked(i, k)
  <2>1. keys \subseteq Option \ {"trace_replay_path"}
    BY DEF Option, RequiredKeys
  <2> QED
    BY <1>1, <2>1, AskedAt
<1>3. conf.driver = "trace-replay" =>
         info["trace_replay_path"] = Asked(i, "trace_replay_path")
  <2>1. "trace_replay_path" \in Option
    BY DEF Option, RequiredKeys
  <2> QED
    BY <1>1, <2>1, AskedAt
<1>4. conf.driver = "trace-replay" =>
         prog[i].binary = info["trace_replay_path"]
  BY <1>1 DEF TaskInv, Made
<1>5. info["q_depth"] \in Nat
  BY <1>1, DepthType
<1> DEFINE run == prog[i].run
<1> HIDE DEF info
<1>6. /\ run.per_thread = Asked(i, "nr_thread")
      /\ run.timeout = Asked(i, "time")
      /\ run.filename = Asked(i, "device")
      /\ run.tracename = Asked(i, "trace_data_path")
      /\ run.wss = Asked(i, "wss")
      /\ run.utilization = Asked(i, "utilization")
      /\ run.iosize = Asked(i, "iosize")
  BY <1>1, <1>2, MainReads
<1>7. /\ Asked(i, "q_depth") \in 1 .. MAX_QDEPTH =>
            run.qdepth = Asked(i, "q_depth")
      /\ run.qdepth \in 1 .. MAX_QDEPTH
  <2>1. info["q_depth"] = Asked(i, "q_depth")
    BY <1>2
  <2> QED
    BY <1>1, <1>5, <2>1, MainClips, Zenon
<1> HIDE DEF run
<1>8. <<run.wss, run.utilization, run.iosize>> =
         <<Asked(i, "wss"), Asked(i, "utilization"), Asked(i, "iosize")>>
  BY <1>6
<1>9. conf.driver = "trace-replay" =>
         prog[i].binary = Asked(i, "trace_replay_path")
  BY <1>3, <1>4
<1> QED
  BY <1>6, <1>7, <1>8, <1>9, Zenon DEF run

LEMMA WeightIsInForce == ASSUME TaskInv PROVE WeightInForce
<1> SUFFICES ASSUME NEW i \in DOMAIN group
             PROVE  /\ group[i].weight # 0 =>
                          /\ Asked(i, "scheduler") = "bfq"
                          /\ group[i].weight = conf.tasks[i].weight
                    /\ /\ i \in Running /\ conf.driver = "trace-replay"
                       /\ Asked(i, "scheduler") = "bfq"
                       /\ ValidWeight(conf.tasks[i].weight)
                       => group[i].weight # 0 /\ group[i].member
  BY DEF WeightInForce
<1>1. i \in 1 .. Len(group) /\ i \in Ids
  BY DEF TaskInv, Typed, Made, Ids
<1>2. /\ infos[i] = Record(conf, i)
      /\ HasWeight(infos[i].scheduler) => "weight" \in DOMAIN conf.tasks[i]
  BY <1>1 DEF TaskInv, Listed
<1>3. infos[i].scheduler = Asked(i, "scheduler")
  <2>1. "scheduler" \in Option
    BY DEF Option, RequiredKeys
  <2>2. infos[i]["scheduler"] = Asked(i, "scheduler")
    BY <1>2, <2>1, AskedAt
  <2> QED
    BY <2>2
<1>4. HasWeight(infos[i].scheduler) => infos[i].weight = conf.tasks[i].weight
  <2>1. "weight" \in DOMAIN conf.tasks[i] =>
           Record(conf, i)["weight"] = conf.tasks[i]["weight"]
    BY RecordAt
  <2> QED
    BY <1>2, <2>1
<1>5. /\ group[i].weight # 0 =>
            /\ HasWeight(infos[i].scheduler)
            /\ group[i].weight = infos[i].weight
      /\ conf.driver # "docker" => group[i] = CgroupState(infos[i])
  BY <1>1 DEF TaskInv, Weighed
<1>6. ASSUME i \in Running, conf.driver = "trace-replay",
             Asked(i, "scheduler") = "bfq",
             ValidWeight(conf.tasks[i].weight)
      PROVE  group[i].weight # 0 /\ group[i].member
  <2>1. HasWeight(infos[i].scheduler) /\ ValidWeight(infos[i].weight)
    BY <1>3, <1>4, <1>6 DEF HasWeight
  <2>2. group[i] = [weight |-> infos[i].weight, member |-> TRUE]
    BY <1>5, <1>6, <2>1 DEF CgroupState
  <2>3. group[i].member
    BY <2>2
  <2>4. group[i].weight = infos[i].weight
    BY <2>2
  <2>5. \A max \in Nat : 0 \notin 1 .. max
    OBVIOUS
  <2>6. 0 \notin 1 .. 1000
    BY <2>5
  <2>7. group[i].weight # 0
    BY <2>1, <2>4, <2>6, Zenon DEF ValidWeight
  <2> QED
    BY <2>3, <2>7, Zenon
<1> QED
  BY <1>3, <1>4, <1>5, <1>6, Zenon DEF HasWeight

LEMMA SchedulerIsInForce == ASSUME TaskInv PROVE SchedulerInForce
<1> SUFFICES ASSUME \A i, j \in Ids :
                       /\ infos[i].scheduler = infos[j].scheduler
                       /\ infos[i].device = infos[j].device,
                    NEW i \in Running
             PROVE  sched[infos[i].device] = Asked(i, "scheduler")
  BY DEF SchedulerInForce
<1>1. /\ i \in Ids /\ infos[i] = Record(conf, i)
      /\ pc \in {"start", "wake", "weigh", "running"}
  BY RunType
<1>2. 1 \in Ids
  BY <1>1 DEF TaskInv, Typed, Ids
<1>3. sched[infos[1].device] = infos[1].scheduler
  BY <1>1 DEF TaskInv, Scheduled
<1>4. infos[i]["scheduler"] = Asked(i, "scheduler")
  <2>1. "scheduler" \in Option
    BY DEF Option, RequiredKeys
  <2> QED
    BY <1>1, <2>1, AskedAt
<1> QED
  BY <1>1, <1>2, <1>3, <1>4

LEMMA ReportNamesTask == ASSUME TaskInv PROVE ReportOfItsTask
<1> SUFFICES ASSUME report.kind = "total"
             PROVE  ReportOfItsTask
  BY DEF ReportOfItsTask
<1>1. report # NoReport
  BY DEF NoReport
<1>2. PICK i \in 1 .. Len(prog) :
         /\ prog[i].state = "running"
         /\ report \in {IntervalJson(i), TotalJson(i, prog[i].run)}
  BY <1>1 DEF TaskInv, Reported
<1>3. report = TotalJson(i, prog[i].run)
  BY <1>2 DEF IntervalJson
<1>4. i \in Running
  BY <1>2 DEF Running, TaskInv, Typed
<1>5. /\ i \in Ids /\ prog[i].run = MainArgs(Argv(infos[i]))
      /\ infos[i] = Record(conf, i) /\ conf \in Clients
      /\ i \in 1 .. Len(conf.tasks)
  BY <1>4, RunType
<1>6. infos[i].q_depth \in Nat
  BY <1>5, DepthType
<1>7. table[infos[i].cgroup_id] = i
  BY <1>5 DEF TaskInv, Found
<1>8. /\ report.meta = Meta(i) /\ report.config = TotalConfig(prog[i].run)
      /\ report.name = prog[i].run.tracename
  BY <1>3 DEF TotalJson
<1>9. \A k \in {"time", "nr_thread", "q_depth", "cgroup_id",
                "trace_data_path"} : Meta(i)[k] = infos[i][k]
  BY DEF Meta
<1>10. \A k \in {"qdepth", "timeout", "per_thread", "result_file"} :
          TotalConfig(prog[i].run)[k] = prog[i].run[k]
  BY DEF TotalConfig
<1> DEFINE run == prog[i].run
           info == infos[i]
           meta == report.meta
           config == report.config
<1>11. /\ run.per_thread = info["nr_thread"] /\ run.timeout = info["time"]
       /\ run.tracename = info["trace_data_path"]
       /\ run.result_file[3] = info["cgroup_id"]
  BY <1>5, MainReads
<1>14. info["q_depth"] \in 1 .. MAX_QDEPTH => run.qdepth = info["q_depth"]
  BY <1>5, <1>6, MainClips
<1> HIDE DEF run, info
<1>12. /\ config.result_file = run.result_file /\ config.timeout = run.timeout
       /\ config.per_thread = run.per_thread /\ config.qdepth = run.qdepth
       /\ meta.time = info["time"] /\ meta.nr_thread = info["nr_thread"]
       /\ meta.q_depth = info["q_depth"]
       /\ meta.cgroup_id = info["cgroup_id"]
       /\ meta.trace_data_path = info["trace_data_path"]
  BY <1>8, <1>9, <1>10 DEF run, info
<1>13. prog[table[meta.cgroup_id]].run.result_file = config.result_file
  BY <1>7, <1>12 DEF run, info
<1> QED
  BY <1>8, <1>11, <1>12, <1>13, <1>14 DEF ReportOfItsTask, run

\* A group names one task of the session, that of its place in the settings,
\* for every number of tasks and after any failure: the duplicate test and
\* the table of the drivers' init keep list and table in step.
THEOREM GroupsAreUnique == Spec => []OneTaskPerGroup
  BY TaskInvariant, OneTask, PTL

\* Whatever the client asks of a task reaches its program through record,
\* command line and main.
THEOREM ProgramsAreConfigured == Spec => []RunsAsConfigured
  BY TaskInvariant, AsConfigured, PTL

\* The weight of a group is the task's own and in force only under bfq.
THEOREM WeightsAreTheTasks == Spec => []WeightInForce
  BY TaskInvariant, WeightIsInForce, PTL

\* A device has the scheduler its tasks asked for, when they agree.
THEOREM SchedulersAreInForce == Spec => []SchedulerInForce
  BY TaskInvariant, SchedulerIsInForce, PTL

\* A total result names the task it was asked for, in the record and in the
\* program's own configuration.
THEOREM ReportsNameTheirTask == Spec => []ReportOfItsTask
  BY TaskInvariant, ReportNamesTask, PTL
=============================================================================
