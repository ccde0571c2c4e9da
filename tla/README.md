# ContainerTracer in TLA+

ContainerTracer replays I/O traces in several containers (control groups) at
once and shows their bandwidth and latency while they run. This directory holds
TLA+ models of its parts, from the settings a client gives to the results it
gets back, the TLC runs that check them on small instances, and TLAPS proofs of
what matters most for instances of every size.

## The system

| part | state | operations | talks to |
|---|---|---|---|
| runner library (`runner/runner.c`, `generic.c`) | `global_config`: the driver's operations | `runner_init`, `runner_run`, `runner_get_interval_result`, `runner_get_total_result`, `runner_free` | called by the web server and the test programs; calls the driver |
| trace-replay driver (`runner/driver/tr-driver/`) | list of `tr_info` (pid, queue, semaphore, shared memory), a hash table by `cgroup_id` | `tr_init`, `tr_runner`, `tr_get_interval`, `tr_get_total`, `tr_free` | forks one child per task; a pipe releases them; a message queue, a semaphore and a shared memory segment per child bring results back |
| start pipe (`include/sync.h`) | bytes in `pfd1` | `TELL_WAIT`, `TELL_CHILD`, `WAIT_PARENT` | parent and children |
| trace-replay (`trace-replay/trace_replay.c`) | the trace, its position, repeats and timeout; per thread the I/O in flight | `make_jobs`, `sub_worker`, `main_worker`, `print_result`, `destroy`, `finalize` | worker threads share the trace; the main thread reports, sends FIN and writes the totals |
| trace loading (same file) | `trace_buf` | `trace_loader`, `trace_io_put`, `synthetic_gen`, `synthetic_mix` | once, before the workers start |
| statistics (same file) | `io_stat` of each thread, the totals | `update_iostat`, `print_result`, `finalize` | the worker threads count, the main thread adds up |
| task configuration (`tr-info.c`, `docker-info.c`) | the list of records, the hash table | `tr_info_init`, `docker_info_init`, the record's command line | from the client's JSON to the arguments of each program |
| serializers (`tr-serializer.c`, `docker-serializer.c`) | - | `*_realtime_serializer`, `*_total_serializer` | from messages and shared memory to the client's JSON |
| docker driver (`runner/driver/docker-driver/`) | list of `docker_info` | as the trace-replay driver, with `docker` commands in place of `fork` | containers |
| web server (`web/package/`) | the `Config` object and its `container_tracer` | socket handlers, a driver thread per session, `_refresh` | the runner library; the browser |
| test program (`runner/test/tr-driver-test.c`) | the set of tasks that sent FIN | `setUp`, `test`, `tearDown` | the runner library |

What is hard in it: children and the parent interleave over a pipe and three
IPC objects per task; set-up fails half-way and leaves children blocked; FIN is
sent before the totals exist; queues are bounded and a reader may stop reading;
threads share the position in a trace that wraps around by repeats, by a timeout
or by a wanted count; threads add to
statistics that are read while they do; SIGTERM and SIGINT come at any time;
requests are cut and merged one by one against those they may be in flight
with; an option passes through five forms between the client and the program,
in two copies for the two drivers; sessions of the web server share one object
that a thread of each clears. `PROJECT.json` lists
every hazard at its line, with the properties that are about it.

What makes each part correct:

- driver: no child runs before all tasks are set up and every child is
  released; a client sees each report once and in order, FIN last; a total is
  complete when it is given; `runner_free` returns and leaves nothing behind.
- trace-replay: the threads take each request of a pass once and in order, no
  job is made of memory behind the trace, few requests are fetched behind the
  wanted count, the queue depth is respected, the replay ends, and results are
  final when they are written.
- trace loading: a request joins the trace apart from those it may be in flight
  with, no sector is lost, and every request lies in the partition.
- statistics: no byte is told in two intervals or lost between them, the totals
  are those of the trace, and no number in the JSON is impossible.
- configuration and results: a task runs with what was asked for it, and a
  result names the task it is about.
- docker driver: no container runs before all are created; a failed step leaves
  no container and no kernel object of its task; `docker_free` returns.
- clients: no assertion of the library fails, every result is collected, every
  session is freed.

## Modules

| module | models | how |
|---|---|---|
| `TrDriver` | runner library, trace-replay driver, pipe, IPC objects and the children as the driver sees them | see below |
| `ResultStream` | nothing in the code: what the library promises about results | an abstract specification with a stream and a total per task |
| `TrDriver_stream` | - | the refinement mapping of `TrDriver` to `ResultStream` |
| `DockerDriver` | docker driver and its containers | extends `TrDriver_stream` by `pid`, with the set-up, start and free steps of `docker-driver.c` |
| `PollClient` | `tr-driver-test.c` on top of `TrDriver` | adds the client's position `at`, the rest of its round `todo` and its flags `open` |
| `WebClient` | one session of the web server on top of `TrDriver` | the same three variables, with `_refresh`'s rounds |
| `WebSessions` | sessions that follow each other, on top of `WebClient` | adds the handler, the stored `container_tracer` and the end of each driver thread |
| `ReplayWorkers` | the worker threads and the main thread of trace-replay | one action per stretch between a lock and its unlock |
| `TraceLoad` | trace files and synthetic workloads up to the finished trace | one action per line read, per overlap taken out, per outcome of the generator |
| `IoStats` | completed requests, interval reports, totals and their JSON | extends `TraceLoad`; one action per request, completion, thread added up |
| `TaskInfo` | settings, records, the table, scheduler, weights, arguments, and the JSON that names them | one action per task's record, start, weight, result |
| `MCReplayWorkers`, `MCIoStats`, `MCTaskInfo` | - | the workloads and settings TLC uses |
| `TrDriver_proofs`, `PollClient_proofs`, `WebClient_proofs`, `DockerDriver_proofs`, `ReplayWorkers_proofs`, `TaskInfo_proofs`, `IoStats_proofs` (loading), `IoStats_totals` (reports and totals) | - | theorems |

`TrDriver`. The parent has one API thread. `pc` says where it is: outside a call
(`uninit`, `ready`, `idle`) or inside one (`fork`, `cgroup`, `sem`, `shm`, `mq`,
`tell` in `tr_runner`; `recv` in `msgrcv`; `semwait`, `copy`, `sempost` in
`tr_shm_get`; `kill`, `wait` in `__tr_free`). `cur` is the `current` of the list
traversal. `proc[t]` is the child of task `t`, from `cloned` (in `tr_do_exec`,
freeing the configuration it inherited) over `waiting` (in `WAIT_PARENT`) to
`replaying`, `fin`, `total`, `written` (in `finalize`) and `exited`. `ids` is
what the parent's `tr_info` remembers, `ipc` is what the kernel has: they differ
when set-up fails. A report is an `INTERVAL` message with a time stamp counted
in reports; its other fields are left out. A child that was killed and
reaped is `none` again. `Faults` is the set of operations that may fail in a
run, so that a run can say under which failures a property holds.

A task's pid is new at every fork, so a queue never holds messages of an
earlier session; settings, paths and the failures of `tr_init` in a first
session are `TaskInfo`'s. `runner_run` is called once per session.

`DockerDriver`. `docker-mq.c` and `docker-shm.c` are copies of the other driver's
files, and a container runs the same program, so the getters and the child's
steps are `TrDriver`'s with `pid` unchanged. `cloned` is a container that was
created and not started; `tokens` and `killed` are unused. `docker rm -f` is
synchronous and does not fail here. `SpinFree` is the turn of the free loop that
changes nothing. `docker_init` fails only where it makes the image.

`ResultStream` has no process, queue or semaphore. A report is delivered only if
it is the next one, FIN only after all of them, and a total only when it is
complete.

`ReplayWorkers`. Requests are numbers. A workload (`load`) fixes how many there
are, how far apart they arrive, and what ends the replay: repeats, a timeout or
a wanted count. `cur`, `issue`, `rep` and `tmo` are the fields of `trace_info_t`
that the threads share under `trace_lock`; `pass` is a history variable, the
requests of this pass that became jobs, in the order they were taken. `issue`
counts fetched requests up to `MaxIssue`, which `OverrunBounded` shows it never
reaches before SIGINT; where there is no wanted count nothing reads it. `rep` is
counted one beyond the repeats. What lies in memory behind the last request is a nondeterministic arrival time
(`Beyond`), because the code does look there. Threads run before the clock
they compare with is set (`main = "begin"`). The branch of `sub_worker` for a
full queue is shown to be dead and has no action.

`TraceLoad`. `phase` says where the loading is: at a line (`fgets`), comparing
the request in hand, `io`, with the place `at` of the buffer (`scan`), or
reading on within `trace_io_put` after it dropped one (`again`). Each step of
`scan` is a branch of `trace_io_put`'s loop. `gen` is the generator, whose int
arithmetic wraps at `IntKB`; it ends in `ready`, `failed`, `crashed` (a division
by zero, a negative allocation) or `spin` (`synthetic_mix` of one request).

`IoStats`. Which thread takes a request is free, so that the results hold for
any scheduling; `ReplayWorkers` has the loop. `print` is the position of
`print_result` in its sweep over the threads, and between two of its steps the
threads go on counting. A double is a fraction; a denominator of 0 stands for
what C prints as `nan` or `inf`. `told` is a history variable. `AlignSector` is
the page arithmetic of `align_sector`.

`TaskInfo`. The client's JSON is a record of functions on the keys that are
present. A member keeps its value when its key is absent; required and optional
keys, their order, and the member each is stored in are the code's. `prog` has
the arguments in their order and what `main` takes over from them. The JSON
results are the functions the serializers put together. Where the docker driver
copies a function of the other one, its operator is defined by it.

`WebSessions`. The handler thread of `set_options` and the driver threads of the
sessions take turns at every access to `Config.container_tracer`. `_refresh` is
`WebClient`'s and ends at `chart_end`, from where the browser may start again.

## Runs

| run | question | bounds |
|---|---|---|
| `driver` | safety of the driver and its refinement of `ResultStream`, for any client | 3 tasks, so that a task lies between two others in every list; 2 reports, queue of 1, so that a report, another one and FIN each find it full |
| `driver_live` | calls that must return do | 2 tasks, 2 reports, queue of 1 |
| `docker` | the docker driver's safety, its refinement of `ResultStream`, and `FreeEnds` for sessions in which every task got as far as its container | 2 containers, so that one fails before, beside or behind another; 2 reports, queue of 1 |
| `docker_free` | violated: `FreeAlwaysEnds`, when a task never got as far as its container | 2 containers, no report |
| `poll` | the test program ends and has collected everything | 2 tasks, 2 reports, queue of 1, every set-up failure |
| `web` | a web session ends with complete totals | 2 tasks, 3 reports, queues with room for all of them and FIN |
| `web_abort` | violated: `NeverAborts` after a failed `runner_run` | 2 tasks, 1 report |
| `web_race` | violated: `FreedAtEnd`, when a session follows another one | 1 task, no report, 2 sessions |
| `replay` | the worker threads, with SIGINT and refused submissions | 2 threads, depth 2, clock up to 2; a trace of 3 requests twice, one of 2 under a timeout, a synthetic workload of 2 requests that wraps around to 5, and one of 4 that has 2 wanted and a repeat left, on which the bound of `OverrunBounded` is reached |
| `trace` | every load, and the statistics of six loads that are replayed | all trace files of 3 lines from 12 requests and of 4 lines from 5, so that a request is cut by, covers and is covered by two others and the window of 2 is passed; synthetic workloads of every size around each limit; 2 threads with one request in flight, 2 reports, clock up to 2 |
| `task` | what runs and what results name is what was asked | 2 tasks, both drivers, 8 settings and 18 pairs of task options that set, override, repeat, miss and misspell, sessions in any order |
| `task_repeat` | violated: `RepeatsAsSet` | the same |

Bounds are named: `NTasks`, `MaxReports`, `QCap`, `MaxSessions`; `Threads`,
`QDepth`, `Load`, `Beyond`, `MaxClock`; `Jobs`, `Replayed`, `NThread`; `Clients`,
`Files`. `MaxReports` stands for the length of the trace and is the only reason
a replay stops reporting. In `TraceLoad` sizes are scaled down: `Spp`, `PageKB`,
`MegaKB`, `Percent`, `IntKB` and `BufSize` are 8, 4, 1024, 100, 2^21 and 1024 in
the code, so that an int overflows, a percentage is rounded, a request exceeds
the largest I/O and the buffer grows within a few requests; the theorems about
loading are for every value. `QCap` of `web` is a real bound: with a queue of 1
and 2 reports `SessionFreed` is false, because `_refresh` stops to read queues
once one task is done (`trace_replay.py:158`) and then waits for the totals of
children that wait for room.

Deadlock is checked in `poll`, `web`, `replay`, `trace` and `task`. In the driver
and docker runs a client may wait for the message of a child that has died, and
an assertion may end the parent; in `web_abort` it does; in `web_race` the last
session ends. There it is off.

The violated properties are disagreements of the code with what it says of
itself; `PROJECT.json` quotes the lines under `findings`. In short: `docker_free`
spins at a task without a container; the web server asks for results after a
failed start, and an assertion ends it; the driver thread of an ended session
clears the `container_tracer` that the next session has just stored, so that
nobody frees that one; the repeats of a task are stored in its weight and never
reach the program.

## Fairness

The kernel runs every process and thread that can run, and completes I/O: weak
fairness of each child, of the API thread inside a call (`CallStep`), of each
worker thread, and of SIGTERM's delivery (`Die`). The docker driver has the same
for `DockerCallStep` and each `Container`. No fairness is assumed of the
general client, which may stop calling; `PollClient` and `WebClient` are
programs and are run. Blocking operations (`msgrcv`, `msgsnd`, `semop`, the
pipe, `pthread_join`) are guards, so weak fairness does not help a process that
is blocked for good: that is what the runs are for. `reenter` (a child that
hangs in the allocator because SIGTERM interrupted `free`) and `exec` (a child
that dies without FIN) are left out of runs whose liveness they break by
construction: `waitpid`, respectively `msgrcv`, then never returns.
`WebSessions`, `IoStats` and `TaskInfo` state no fairness: their questions are
about safety.

## Proofs

For every value of the constants (numbers of tasks, reports, threads and sessions; queue
sizes and depths; workloads, trace files, window and partition sizes; sets of
faults; settings and the JSON texts of tasks):

| module | theorem | property | assumption |
|---|---|---|---|
| `TrDriver_proofs` | `Typing` | `TypeOK` | |
| | `TotalIsComplete` | `TotalComplete` | |
| | `IpcIsKept` | `IpcOutlivesChild` | |
| | `FreeIsComplete` | `FreeComplete` | shared memory can be made |
| | `StartIsABarrier` | `StartBarrier` | `pipe()` and the control groups do not fail |
| | `StreamIsOrdered` | `StreamInOrder` | as before |
| | `DriverImplementsStream` | `ImplementsStream` | as before |
| `PollClient_proofs` | `PollUsesDriver` | `PollSpec => Spec` | |
| | `PollNeverAborts` | `NeverAborts` | |
| | `PollCollectsAll` | `AllCollected` | as for the stream |
| `WebClient_proofs` | `WebUsesDriver` | `WebSpec => Spec` | |
| | `WebSavesWhenDone` | `SavedWhenDone` | |
| | `SessionsUseDriver` | `SessionsSpec => Spec` | |
| | `SessionsSaveWhenDone` | `SavedWhenDone`, of sessions that overlap | |
| | `PatientSessionsAreFreed` | `FreedAtEnd` | the next session waits for the driver thread of the one before |
| `DockerDriver_proofs` | `RunsOnlyWhenSetUp` | `RunsWhenSetUp` | |
| | `ObjectsAreKept` | `ObjectsOutliveRun` | |
| | `NoOrphans` | `NothingOrphaned` | shared memory can be made |
| | `DockerImplementsStream` | `ImplementsStream` | |
| `ReplayWorkers_proofs` | `QueueIsBounded` | `QueueBounded` | |
| | `JobsAreRequests` | `OnlyRequests` | |
| | `OverrunIsBounded` | `OverrunBounded` | |
| | `TimeoutWraps` | `TimedWraps` | |
| | `PassIsWhole` | `WholePass` | |
| | `FinalResultsAreQuiet` | `FinalIsQuiet` | |
| `IoStats_proofs` | `LoadedDisjoint` | `AppendedDisjoint` | |
| | `LoadedSectors` | `SectorsKept` | |
| | `RequestsInPartition` | `InPartition` | |
| | `SynthRequestsFit` | `SynthInWorkingSet` | |
| `IoStats_totals` | `BytesAreToldOnce` | `ToldOnce` | |
| | `ShareLeftFalls` | `RemainingFalls` | |
| | `TotalsAreTheTrace` | `TotalsOfTrace` | |
| | `TotalsAgree` | `TotalsMakeSense` | |
| `TaskInfo_proofs` | `GroupsAreUnique` | `OneTaskPerGroup` | |
| | `ProgramsAreConfigured` | `RunsAsConfigured` | |
| | `WeightsAreTheTasks` | `WeightInForce` | |
| | `SchedulersAreInForce` | `SchedulerInForce` | |
| | `ReportsNameTheirTask` | `ReportOfItsTask` | |

The constants are restricted only by the assumptions of their modules,
`DriverAssumption`, `ReplayAssumption`, `ConstantsAssumption`,
`StatsAssumption` and `ClientsAssumption`, which TLC evaluates in the runs. They
say that numbers are numbers, and of the constants of trace-replay what its
source fixes: none of the sizes is 0, a MB is a whole number of pages, a size
is an `int` of KB, `Window` is `qdepth * nr_thread`. That the bound on the
sessions is a number is a hypothesis of `PatientSessionsAreFreed`.

The assumptions of the last column are needed, for reasons in the code. When
shared memory cannot be made, `tr_shm_init` forgets the semaphore it has just
made (`tr-shm.c:218`) and nobody removes it; `docker-shm.c` does the same. When
`pipe()` fails in a later session, its result is ignored (`tr-driver.c:404`), and
the bytes that are left in the pipe of the session before release a child early.
When a control group cannot be made, its result is ignored (`tr-driver.c:432`)
and a child runs outside of it.

None of the properties is inductive. The strengthenings are:

- Driver. `TypeOK` needs that a semaphore is posted once: the value, the
  parent's hold between `semwait` and `sempost`, and the child's state exclude
  each other (`SemInv`). `TotalComplete` follows because a semaphore that is
  positive, or held, belongs to a child that has left `written`, and only a fork
  empties the memory again. `FreeComplete` needs that an object in the kernel is
  either remembered in `ids` or is the one the set-up is just making
  (`KnownInv`), and that a task the free walk has passed has no child and no
  object (`CtlInv`). `StartBarrier` needs a count: while the parent sets up, the
  pipe is empty and no child of the session is past it; tokens are written only
  after the last task is ready, and a task loses its readiness only when the
  free walk passes it (`BarrierInv`). `StreamInOrder` builds on the barrier: a
  child that sends has a queue.
- Refinement. The driver's invariants, and two facts about the mapping: a getter
  works on a task whose object it has (`AskInv`), so that a task in the middle of
  a question is live; and a child that has not yet written its results has empty
  shared memory (`FreshInv`), so that `final` changes only in `EndWrite` and in a
  fork.
- Clients. Each is shown to make only calls that the most general client of
  `TrDriver` makes: it asks no task for an interval after its FIN, because the
  loop runs over open tasks and a FIN closes its task no later than the next step
  of the client. So every theorem about `TrDriver` holds while the client runs.
  `PollNeverAborts` adds that the set-up loop has the identifiers of the tasks
  behind it (`Remembered`); `PollCollectsAll` combines the flags with
  `StreamIsOrdered`. `WebSavesWhenDone` follows because a key leaves the loop over
  the totals only when `get_total` had the semaphore, and a task whose results
  are complete has no step left that could undo it (`Collected`).
- Sessions that overlap. Another session's driver thread may free the library
  between any two calls of `_refresh`. A task whose FIN was received and that
  may still be asked is then one that was freed (`Closing`); it has no queue, so
  that the question aborts, which the general client may do as well. The server
  therefore stays a client of the driver, and what it reports as ended was
  complete. What overlap breaks is `FreedAtEnd`, as the run `web_race` shows.
  `PatientSessionsAreFreed` is the other half of that finding: in `PatientSpec`,
  where a session is asked for only when the one before has ended, one thread at
  a time works on the session (`Current`), the library has this session or none
  (`InTurn`), and each is freed. Nothing in the code makes the browser wait.
- Docker driver. No container is started before the last set-up step, and while
  set-up goes on all are `cloned`; after it `pid` is the whole set and an object
  goes only with its container (`DInv`: `Control`, `Forgotten`, `SetUp`). For its
  refinement the getters and the containers take `TrDriver`'s steps, and the
  lemmas about those ask only for what both drivers guarantee (`GetInv`: types,
  semaphores, `FreshInv`, the stream of each task, a getter works on a live
  task). Set-up, start and free touch no result (`Aside`); that a container
  which sends has its queue comes from `SetUp`, so no failure is excluded: there
  is no pipe, and a container runs outside its control group in any case.
- Worker threads. The queue needs where jobs can wait (`Room`). Behind the trace
  there is a counting argument: each place that was passed was taken by a
  thread that can no longer come back to `make`, so that the distance and the
  number of threads that still can are together less than the number of threads
  (`Behind`). `Spent` and `Timed` say that a trace whose end was passed cannot be
  reset, and that a timed trace always can by a thread in its loop. `PassSoFar`
  says that the jobs of a pass are the requests up to `cur`, in order, and those
  of the last pass all but the last one, which is fetched and dropped; a thread
  leaves a trace file only behind its end (`Left`). Behind a wanted count a
  thread is refused at most twice, the second time because it had jobs to submit
  the first time, and each repeat that is left pays for one more request: the
  sum of what was fetched there and of what still may be (`Credit`) never grows
  (`Fetched`). So at most `2 * |Threads| + repeat - 2` requests are fetched
  behind the wanted count.
- Loading. `AppendedDisjoint` is about the request that joins the trace; of those
  in it already `trace_io_put` may enlarge one over its neighbours, when a longer
  request covers it (`trace_replay.c:1080-1090`), so two that overlap may be
  within one window. `LoadInv` says that the request in hand overlaps none of
  those it was compared with (later cuts only shrink it: `Scanned`), that buffer and request
  in hand are about the sectors of the lines read (`Covering`), and that the
  buffer has room (`Roomy`). A synthetic buffer has the shape it was generated
  with (`Shaped`: requests of one size that begin at its first places, each
  once), because an exchange of two requests keeps it and `synthetic_mix` does
  nothing else (`MixesAlike`); this also holds each time the trace is mixed again.
  `InPartition` and `SynthInWorkingSet` are then arithmetic: without an overflow
  both ways to compute the working set agree (`NoOverflow`).
- Reports and totals (`ReplayInv`). A job is numbered when it is made, is in
  flight with one thread or has been counted, so that what the threads have
  counted is the sum over the numbers that are through, whoever counted them
  (`Numbered`). While `print_result` sweeps, it has in hand no more than what the
  threads it has passed have counted, and exactly that in the last sweep, when
  all are done (`Swept`). `RemainingFalls` needs the past: the last report
  showed no more as done than the next one will, which is what the sweep has in
  hand and what the threads before it have (`Ahead`, `Remembered`); and
  something is left because no thread counts the last wanted request.
  `TotalsMakeSense` needs a fact about sums of squares that survives adding up:
  the sum of `(a * latency - b)^2` is not negative for all `a` and `b`, which is
  linear in what `io_stat` keeps (`Agrees`); with the count and the sum for `a`
  and `b` it is the variance. The results keep only fractions, so `Totalled`
  remembers that they were made of such statistics.
- Configuration (`TaskInv`). Each record in the list is what settings and task
  make of it, member by member (`Listed`); the table has each group once, at the
  place of its record (`Found`); a program has the arguments of the record in its
  place, and once it runs what `main` makes of them (`Made`); weights and
  schedulers are those of the records from the step on that writes them
  (`Weighed`, `Scheduled`); and a result is the JSON of a program that runs
  (`Reported`). The properties compare the ends of this chain.

Two of the proofs are about recursive functions: `Mixes` and the sums over
threads. The library's induction theorems take an operator as a parameter,
which no installed prover can instantiate. `Induction` and `Recursion` in
`IoStats_proofs` replace them: a set of numbers that is not all of `Nat` has a
least number it lacks (`Least`, from the well-foundedness of the subset order
of finite sets), and a function defined step by step exists and satisfies its
definition.

Model-checked only: all liveness (`RunReleasesAll`, `FreeTerminates`,
`TotalReadable`, `TestEnds`, `SessionFreed`, `FreeEnds`, `ReplayEnds`), because
fairness and ENABLED are out of the prover's reach. Every safety and action
property of a passing run is a theorem.

## Not modelled

- The driver: a second `runner_run` in a session, which overwrites the pids of
  the first; reuse of a pid and a crash of the parent, which together could leave
  an old queue under a new key; library calls that overlap in time.
- The docker driver: commands that fail where the code ignores it.
- trace-replay: several traces in one process (the drivers never start one);
  a SIGINT that arrives while the main thread holds a lock; an empty trace; the
  time left under a timeout and the lateness of requests in a report.
- Configuration and results: JSON text and its parsing, the buffer of 4096 bytes
  a result is cut to, a session without tasks (`runner_run` then takes the first
  element of an empty list), the wording of numbers.
- The web server: what `Config.store` puts together from the browser's fields,
  options it refuses, a second browser, the files results are saved in.
- The application driver (recorded keyboard and mouse events), the chart and the
  browser front end, the device helpers, Unity and the build files: no control
  of their own that the rest depends on.

`PROJECT.json` lists these components with their reasons.

## Plan

Done: the driver, its clients, the refinement of `ResultStream` by both drivers
and their theorems; the worker threads and their theorems; the docker driver and its
theorems; trace loading, the statistics and the configuration of tasks with their
theorems; sessions of the web server, one by one and overlapping, with theirs.

Left, in order of importance:

1. `ReplayWorkers` as a refinement of the free scheduling in `IoStats`.
2. A second `runner_run` in a session, and a crash of the parent with reuse of a
   pid, in `TrDriver`.
3. A second browser in `WebSessions`.
