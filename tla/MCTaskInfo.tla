----------------------------- MODULE MCTaskInfo -----------------------------
(* The JSON texts TLC calls runner_init with. *)
EXTENDS TaskInfo, TLC

Base ==
    [nr_tasks |-> 2, time |-> 0, q_depth |-> 8, nr_thread |-> 2,
     prefix_cgroup_name |-> "tester", scheduler |-> "bfq", device |-> "sda",
     trace_replay_path |-> "/usr/bin/trace-replay"]

Without(key) == [k \in DOMAIN Base \ {key} |-> Base[k]]

\* Complete settings, settings with weights, repeats and sizes of their own,
\* with a program only the docker driver finds, and settings that fail.
MCSettings ==
    {Base,
     [weight |-> 7, trace_repeat |-> 3, wss |-> 64] @@ Base,
     [scheduler |-> "none", time |-> 5, trace_repeat |-> 2] @@ Base,
     [trace_replay_path |-> "trace-replay", q_depth |-> 4096] @@ Base,
     [scheduler |-> "cfq"] @@ Base, [nr_tasks |-> 3] @@ Base,
     Without("device"), Without("nr_tasks")}

Task(id) == [cgroup_id |-> id, trace_data_path |-> "rand_read",
             weight |-> 100]

MCFirst ==
    {Task("a"),
     [trace_repeat |-> 4, iosize |-> 8, weight |-> 2000] @@ Task("a")}

MCSecond ==
    {Task("b"), Task("a"), [cgroup_id |-> "b"],
     [trace_repeat |-> 4, utilization |-> 10, wss |-> 1] @@ Task("b"),
     [device |-> "sdb", scheduler |-> "kyber"] @@ Task("b"),
     [cgroup_id |-> "b", trace_data_path |-> "rand_read", trace_repeat |-> 9],
     [trace_data_path |-> "/t/sample1", nr_thread |-> 0] @@ Task("b"),
     [trace_data_path |-> "/t/missing"] @@ Task("b"),
     [time |-> 2, q_depth |-> 0] @@ Task("b")}

MCClients ==
    {[driver |-> d, setting |-> s, tasks |-> <<t, u>>] :
        d \in {"trace-replay", "docker"}, s \in MCSettings,
        t \in MCFirst, u \in MCSecond}
    \cup {[driver |-> "fio", setting |-> Base, tasks |-> <<Task("a")>>]}

MCFiles == {"/usr/bin/trace-replay", "/t/sample1"}
=============================================================================
