# Formal models of the authentication demo and the sandbox controller

The repository holds two Linux systems in C.

* **Authentication** (`src/Authentication`): a backend that starts privileged,
  drops its privileges, listens on a UNIX socket and answers one request; and a
  frontend that reads a user name and a password, sends them and reports the
  answer.
* **Sandbox** (`src/Sandbox`): a controller that launches a target behind
  resource limits, Landlock and seccomp, watches the whole process tree the
  target creates with three monitor threads, terminates it when a policy says
  so, and reports how it ended.

Both are modelled: the concurrent parts as compositions of processes, threads
and kernel, the procedures that run by themselves each in a module of its own.

## Inventory

| Part | State | Operations | Talks to | Hard because | Correct when |
|---|---|---|---|---|---|
| Supervisor, `Sandbox.c` | locals of `main()`, `operator_signal_number` | launch, supervise, poll, signal, wait, terminate, report | workload by signals and `waitpid()`, monitors by `SandboxState` | everything it looks at changes while it looks; failures lead to a second attempt | it returns; says 0 only for a clean end; announces no end too early; leaves nobody behind |
| Launch gate, `Sandbox.c`, `security.c` | pipe, parent-death signal, order of hardening | `run_sandbox_child()`, `release_child()` | parent and child over a pipe | either side may die at any moment | no target code unless recorded, confined and hardened; nobody waits for ever; no orphan |
| Shared state, `monitor.c` | `SandboxState` under a mutex | set, snapshot, request, mark | all four threads | check and act are in different critical sections | first request wins and is final; the reason is true |
| Monitors, `monitor.c` | thread-local | timeout, memory, CPU loops | shared state, `/proc`, cgroup | act on old snapshots; sample concurrently with reaping; interrupted sleeps; truncated arithmetic | they stop; they only ever request; the timeout is kept |
| Process tree, `process_tree.c` | table of `/proc` entries | scan, select, measure, add up | `/proc` | not atomic; PIDs are reused and wrap; sums overflow | nothing alive is missed; no stranger is included; an exceeded limit is seen |
| cgroup, `security.c` | directory, limit files, `active` | prepare, attach, populated, kill, destroy | cgroup v2 | optional, may fail at each step, named after a PID | a member stays a member; the limit in force is the controller's own; none is left behind |
| Landlock, `security.c` | rule set | build, restrict | kernel | optional paths, versions | neither too wide nor too narrow |
| seccomp, `security.c` | BPF program | assemble, install | kernel | jump offsets counted by hand | the listed calls and no others are denied |
| Options, `Sandbox.c` | limits, target | parse | - | numeric edges, repeated options | the command line means what it says |
| Backend, `Backend.c` | privileges, socket, credential, `stop_requested` | load, drop, listen, accept one, verify, answer, clean up | frontend, signals, file system | signals between check and system call, partial I/O, a shared path | answers only verified peers, clears secrets, leaves no name behind |
| Frontend, `Frontend.c` | request, response, terminal echo | read, exchange, report | backend, terminal | interruption at any step, partial I/O | reports what the backend said, restores echo, clears secrets |

`PROJECT.json` lists the hazards line by line, with the properties that would
notice them.

## Modules

| Module | Models | Uses |
|---|---|---|
| `Workload` | the process tree as the kernel shows it | |
| `Monitor` | `SandboxState` and the three monitor threads | `Workload` |
| `Supervisor` | `main()` of the controller, composed with both | `Monitor` |
| `ProcessTree` | `process_tree_sample()` while the workload moves | `Workload` |
| `Launch` | the launch handshake and the child's own set-up | |
| `AuthProtocol` | the request, its validation, the comparison, the answer | |
| `LocalSocket` | the socket path, listening queues and connections | `AuthProtocol` |
| `Backend` | `main()` of the backend | `LocalSocket` |
| `Frontend` | `main()` of the frontend and its terminal | `Backend` |
| `Authentication` | any number of both, signals and kills | `Frontend`, `OneAnswer` |
| `OneAnswer` | what the service promises, abstractly | |
| `RequestCheck` | `process_request()` on every request | `AuthProtocol` |
| `CredentialFile` | `load_demo_credential()` on every short file | `AuthProtocol` |
| `Privileges` | `drop_privileges_permanently()` against the kernel's rules | |
| `Options` | `parse_options()` on every short command line | |
| `CgroupSetup` | `sandbox_cgroup_prepare()`, `attach()`, `destroy()` over several controllers | |
| `Landlock` | `sandbox_child_restrict_filesystem()` and the kernel's decision | |
| `Seccomp` | `sandbox_child_install_network_filter()` and an interpreter | |
| `MonitorClock` | the time arithmetic and the sleep of the timeout thread | |
| `SampleTotals` | the figures of a sample and what monitors conclude | |
| `Procedures` | one call of one of the nine modules above | these nine |
| `MCSupervisor`, `MCLaunch`, `MCAuthentication`, `MCProcedures` | constants for TLC | |
| `WorkloadProofs`, `SupervisorProofs`, `RequestProofs`, `ProcessTreeProofs`, `LaunchProofs` | theorems | the modules they are named after |
| `ProtocolProofs` | lemmas on strings in arrays, first positions | `AuthProtocol` |
| `AuthenticationProofs`, `ProcedureProofs` | theorems | `ProtocolProofs`, `Authentication` or `Procedures` |

### Workload

Environment. A process is named by its order of birth, so two processes that
had the same PID are two processes. It is `unborn`, `running`, `zombie` or
`gone`; a zombie stays in its group and keeps its PID, but has left its cgroup,
which is what the kernel does and what two of the findings turn on. `Habits`
says what processes may do besides forking and exiting: leave the group
("detach"; anybody but a session leader may), ignore SIGTERM. When a
process exits its children go to the controller, the subreaper. A fatal signal
makes a process `doomed`: it can then only die, at a time of its own. The
leader's set-up is reduced to `setup`, `gated`, `started`; `Launch` has the
details.

### Monitor

One action per critical section. `MonitorSnapshot` is the head of every loop;
the rest of an iteration, a separate action, acts on the world as it is by
then. The memory monitor measures in one step and requests in another (`over`),
so the workload may end and others may request in between. The timeout and
error requests are one step with what led to them: the deadline stays passed,
and an error may happen at any moment, so only the moment of the request can be
observed, and the shared state is tested again inside its critical section.
How much memory the workload uses is the workload's choice. `Faults` names the
calls that may fail, `rmdir()` of the cgroup among them; the same name may fail
any number of times.

### Supervisor

`pc` is the place in `main()` and the functions it calls. `poll_workload()` and
`signal_workload()` are shared by several callers; `ctx` remembers on whose
behalf they run (`supervise`, `term`, `grace`, `kill`, `force`).
`wait_for_workload_exit()` counts poll intervals in `waited`. Reaping is one
step per child. `signal_workload()` is the cgroup kill, the group signal, the
sample, then one step per process, so forks and exits fall between any two of
them. The sample is any set of existing processes that contains the roots of
the moment the scan began: that is exactly what `RootsAreSampled` in
`ProcessTreeProofs` allows us to assume. Likewise `WorkloadAlive` uses "nobody
exists" for an empty sample in the main thread, which is
`EmptySampleIsEnd`. Monitor threads have weaker samples (`scan_race`).

Skipping the members of a signalled group looks at the group at the end of the
scan, while the code uses the group each process had when it was read. The
difference has no effect: after a group signal every remaining active member
ignores that signal, and so do the children it forks.

### ProcessTree

One action per file read. `entry[p]` is the parent as it was read, `present`
the processes that have been in `/proc` since the scan began. The scan is
either the supervisor's, and then nobody reaps orphans meanwhile, or a
monitor's, and then the main thread may. A monitor's `leader_alive` may be
stale. `Ascending` says that PIDs still grow in order of birth; otherwise
processes are met in any order. After the leader has been reaped its PID may be
given to a stranger.

### Launch

Parent and child, step by step, either of which may fail, while the controller
may be killed between any two steps. The pipe is the byte in it and who
holds its write end. `prctl()` and `getppid()` are separate steps, because the
second exists only for the death that falls before the first.

### Authentication

`Backend` and `Frontend` have one action per system call or check that a
signal, the other program or the file system can come between. A blocking call
has three places: the check of the flag, the call, and the sleep from which a
signal wakes it. A signal between the check and the sleep only sets the flag;
that is what `auth_stop` is about. Messages travel in `RequestParts` and
`ResponseParts` pieces, any number of which one `read()` or `write()` takes.
`close()` of a listening socket resets who waits; a process that dies has its
descriptors closed and leaves its socket's name behind. `conn[f]` is the
connection of frontend `f`, `path` is who bound the name last (`absent`,
`foreign`). Where a password lies is a Boolean per buffer (`input`, `request`,
`credential`); `secure_clear()` sets it to FALSE. `read_password()` clears its
buffer on each of its exits by itself, and each exit is an action by itself: the
interruption and the failure of `tcsetattr()` on either side of `fgets()`, then,
in the order of their tests (`judge`), the line that was interrupted, not read,
too long, empty or taken.

A path that is `foreign` is somebody else's from the start. The backend refuses
to remove it; the frontend does not look whose it is, and if a socket listens
there `connect()` succeeds. `Strayed` names the frontends that may meet such a
stranger, who answers what it likes, in pieces, malformed, or not at all
(`StrangerAnswers`, `StrangerHangsUp`). The programs have no authentication of the
server, so a stranger's success is believed: `SuccessIsEarned` says that a
success is earned from a backend or is a stranger's, with no backend involved.
For `OneAnswer` a frontend at a stranger's has made no claim, and `FrontendsEnd`
does not promise that a stranger lets it go.

`backend[b].alone` is history: it tells the backends that ran one after the
other from those that overlapped. `NameIsUsable` is about the first kind.
Overlapping ones do take the name from each other, since
`remove_stale_socket_path()` looks at the type and the owner of the name and
not at whether somebody listens behind it; `NameIsAccountedFor` says what holds
even then: no backend that returned leaves a name behind.

`OneAnswer` is the promise of the service: a server takes one claim, decides it
once, grants only a trusted user with the right words, and a user learns success
only from such a grant. `Authentication` implements it
(`OneAnswerEach`); the mapping takes a claim to be made by `connect()`, a
decision by the response, and an outcome by the end of the frontend.

### Procedures

Code nobody else takes part in, each in a module with its own variables.
`Procedures` is their disjoint union: `procedure` names the one that is called,
from every state it can be called in, and the others stay where they are. It
composes nothing; it puts nine small questions to TLC in one run.

* `RequestCheck` tries every array the wire can carry, terminators missing
  included, against every account. The reference says the same of strings.
* `CredentialFile` reads through a buffer of `CREDENTIAL_LINE_MAX` bytes; the
  reference looks at the whole file. The reference excludes one case: a line too
  long for the buffer that has a carriage return in its first part is not
  refused as too long but read as two lines, since `strcspn()` stops at the
  carriage return.
* `Privileges` starts from every combination of identifiers `execve()` can
  give, supplementary groups and file capabilities: CAP_SETUID, CAP_SETGID, both
  or none, with the effective bit or without it. It has the kernel's rules for
  what happens to the permitted and the effective set. The code tries
  `seteuid(0)` and nothing else, so it notices CAP_SETUID in effect only; the
  property claims that much, and an empty permitted set only for a drop from root.
* `Options` has numerals with a sign, a magnitude and junk behind it, in an
  `unsigned long` of `Width` bits. `strtoul()` negates in the unsigned type, so
  a numeral just above -2^Width is accepted as a small limit. The reference does
  not use the parser: a legal value is an integer from 1 to the maximum (`Legal`),
  as the usage text has it. Command lines with a minus sign in a limit are set
  apart (`NegativeLimit`): they contradict the text, and of them only the range of
  the limits in force is claimed.
* `CgroupSetup` is the life of one directory under controllers that get the same
  PID, any of which may be killed.
* `Landlock` is the rule list with its required and optional paths, the failing
  calls, the version of the kernel and that of the headers of the build, without
  which REFER and TRUNCATE are defined as 0; and the kernel's rule that an access is allowed if it
  is not governed or some rule above the path grants it.
* `Seccomp` assembles the program and then interprets it, call after call.
* `MonitorClock` counts ticks for nanoseconds. The quotient of a negative
  difference is rounded towards zero, that is, upwards: the request may come
  less than one millisecond early, which `RequestedInTime` allows for.
* `SampleTotals` adds figures up to `UMax`.

## Runs

| Run | Bounds | States | Shows |
|---|---|---|---|
| `supervise_fallback` | 2 processes that may ignore SIGTERM, grace 1, kill 1 round, memory monitor, every fault, no cgroup | 2.6M | conclusions, reason, finality of the request |
| `terminate_prompt` | 3 processes that may detach and ignore SIGTERM, grace 0, kill 3, with and without cgroup | 2.2M | no end announced too early, nobody outlives the controller |
| `controller_terminates` | 2 processes, grace 1, kill 1, with and without cgroup, failing attach, release and threads, memory monitor, fair | 1.3M | `main()` returns; confinement although the attach may fail; 0 only for a clean end |
| `scan_ascending` | 4 processes, PIDs in order of birth | 0.7M | the supervisor's sample, every survivor is sampled |
| `launch` | every step may fail | 1k | confinement, cancellation, no orphan, no hang |
| `auth_processes` | 2 backends, a stranger, 1 frontend on a terminal, every kind of line, every fault, signals, kills | 2.6M | success is earned; name, echo and secrets on every path |
| `auth_session` | 1 backend, stopped or killed, a trusted and an untrusted frontend, one killed, messages in 2 pieces, fair | 0.18M | answers arrive, refinement, everybody ends |
| `procedures` | see below | 3.5M | the nine procedures |
| `race_request_exit`, `cgroup_lost_status`, `attach_failure`, `auth_stop` | 1 process each | small | violations, see below |

Bounds. Two processes are enough for a leader and a descendant that outlives,
detaches or ignores; a third (`terminate_prompt`) gives a fork during the
signalling of a tree that has already forked. One round of each wait has a
first, a last and, with `waited`, an in-between poll; `terminate_prompt` has
one SIGKILL round per process, as the code has many more rounds than a
workload that loses a process per round can use. Four processes give
a scan a grandchild whose parent and grandparent go away during it. The order
of PIDs does not matter to three of the scan's properties; for any order they
are proved. `controller_terminates` has the failures that leave part of the
machinery missing: the leader outside its cgroup, a cancelled launch, a monitor
that does not exist. The others end a monitor or a wait sooner, or replace one
step of the main thread by another. No process ignores SIGTERM there, as a
signalled process need not die before the waits are over in that run anyway.
Since `rmdir()` succeeds there, the run shows that a controller that says 0 has
removed its cgroup; a failing `rmdir()` is in `terminate_prompt`.

Two backends are a predecessor and its successor, or two rivals; a third could
only do what the second does. Two frontends are the one that is taken and the
one that waits. Two pieces make a message that is complete, empty or cut.
One-byte names are enough where the contents do not matter; a line is right,
wrong, empty, too long, cut off or missing.

In `procedures`: names of two bytes and passwords of one, so that one string can
be the prefix of another and an array can lack its terminator; files of seven
characters, one more than the buffer takes; five arguments, two options with
values and a target; a four-bit `unsigned long`; all identifiers from three;
two controllers with one PID; kernels of version 0 to 3 and headers of version 1
and 3; the sixteen calls of the source
on x86-64 and their neighbours; three ticks per millisecond, three milliseconds
per second, a limit of two seconds and a poll interval of two milliseconds; two
processes with figures at, below and above half of the type.

`CHECK_DEADLOCK` stays on everywhere: the terminal states are named (`Done` and
its like, `Quiet`).

Fairness. `controller_terminates` assumes weak fairness of the main thread, of
each monitor thread and of time: they are ordinary threads whose loops sleep
for bounded times. The workload owes nothing and may hang, fork or
ignore. `launch` assumes weak fairness of parent and child and that SIGKILL
takes effect. `auth_session` assumes weak fairness of each backend's and each
frontend's own steps and that a user answers a prompt; nobody has to start a
process, and no signal has to come. `terminate_prompt` is a safety run under
`PromptDeath`: a killed process is dead when the 50 ms sleep between two polls
ends. Without that assumption the controller may give up on a process the
kernel does not let die, which is what the bounded wait is for.

Each property is also checked against a mutant of the code, kept in the module
next to the definition it mutates and marked `Mutant`; `PROJECT.json` lists them.

## What the violations show

* `race_request_exit`: `supervise_workload()` polls before it looks at the
  request. If a monitor requests termination and the workload then ends by
  itself, the reason is overwritten with "none" and the controller returns 0,
  although a policy had requested termination.
* `cgroup_lost_status`: with a cgroup, a leader that exits after the
  `waitpid()` loop and before the read of `cgroup.events` no longer populates
  the cgroup, and its status is never collected: a clean target ends in failure.
* `attach_failure`: a failed attach leaves the cgroup in charge of the question
  whether the workload is alive, and an empty cgroup says no.
* `auth_stop`: a stop signal that falls between the test of `stop_requested` and
  the sleep of `accept()` is not noticed until a client comes.

Smaller observations have no run of their own; the properties allow for them in
the places named:

* overlapping backends take the socket from each other (`alone` in
  `NameIsUsable`);
* a stranger's answer at the socket's path is believed (`SuccessIsEarned`);
* CAP_SETGID without CAP_SETUID, and a capability that is not in effect, survive
  the drop of the privileges (`PermanentlyDropped`);
* a carriage return in an over-long line hides its length
  (`LoadsWhatIsDescribed`);
* a limit with a minus sign may be accepted (`NegativeLimit` in
  `OptionsMeanWhatTheySay`);
* a cgroup that `rmdir()` fails to remove stays, and `main()` ignores it and may
  return 0 (`SuccessMeansClean`);
* a timeout is requested up to a millisecond early (`RequestedInTime`).

One more is about wrapped PIDs (`Ascending`): a child may be read before its parent is
reaped, and its parent not at all; the child is then missing from that sample.
In the supervisor's own sample roots are never missing, so the next rounds find
it; a monitor that gets an empty sample stops for good.

## Proofs

All for any number of processes, rounds, backends, frontends and pieces of a
message, any set of faults, any sizes, units and limits, under the assumptions
on constants stated in the modules. Those are types, and these facts: a limit on
a length is not zero; the account a backend has loaded is a pair of non-empty
strings that fit and are terminated (`CredentialAssumption`, what
`load_demo_credential()` leaves); a line of input has no NUL in it
(`LinesAssumption`); there is some byte besides NUL (`AlphabetAssumption`); the
letters of a file are none of the characters with a meaning (`FileAssumption`). TLC
evaluates each on every run that uses it.

* `WorkloadProofs`: in an existing tree a parent is older than its children and
  alive, or is the controller (`TreeInv`); so the oldest existing process is a
  root (`OldestIsRoot`). Fork, exit and reap keep it.
* `ProcessTreeProofs`: `ScanInv` relates the table, the selection and the
  tree. `RootsSampled` needs that roots stay roots while the only thread that
  could reap them is scanning (`SupervisorInv`); `EmptySampleMeansGone` adds
  `OldestIsRoot`; `NoStrangerSampled` that a stranger's entry is never linked to
  the workload. `SurvivorsSampled` is proved under `Ascending`: whoever is older
  than a process that was read has been read (`AscendingInv`), so parents are in
  the table, and by descent along parents everyone read is selected.
* `SupervisorProofs`: `TypeOK` with `CtxInv`; then `SafetyInv`. `Confinement` is
  the strengthening of `MembersConfined`: every running process is in the cgroup
  from the moment the attach succeeds, because forks inherit it and the leader
  is alone until then. `OutcomeInv` says what `workload_finished` and
  `leader_status` stand for. A leader that exits with 0 has been through the
  gate, the gate opens only behind a successful attach, so for a successful
  report the cgroup told the truth even if the attach may fail. `SuccessIsClean`
  is proved for any set of faults; where `rmdir()` is one of them, an empty
  cgroup may stay.
  `FinishedIsGone` needs the assumption that it does not: `attach_failure` shows
  that it is needed.
  `FinishedIsCollected` assumes that there is no cgroup (`cgroup_lost_status`
  shows why). `CollectedInv`: nobody but the controller can reap the leader, and
  it keeps the status when it does, so a tree that is empty to `waitpid()` has
  given it.
  `ExitIsGone` assumes that what is killed dies within a poll interval, that
  neither the attach, the sample nor the read of `cgroup.events` fails, and that
  there are as many rounds of SIGKILL as processes (`CanKill`; `terminate_prompt`
  is such an instance, the source has 100 rounds of 50 ms). The measure is in
  `RoundInv`: in the last wait, after k polls the k oldest processes are dead.
  The oldest that still runs is a root by `OldestIsRoot`; so it is in the leader's
  group or in the sample, whatever it does, and the round either finds it doomed
  or has still to signal it. `GroupInv` is for the leader before the gate, whose
  `setpgid()` may fall between the signal to the group and the sample; `EndInv`
  says that nobody runs before the launch or after the last wait.
* `RequestProofs`: `RequestInv` ties the two request fields together, makes the
  shared reason true and says that nothing is requested before
  `sandbox_state_set_workload()`. Every other step leaves the request alone or
  makes a true one while the workload is alive and nobody else has.
* `LaunchProofs`: `InOrder` says which hardening steps lie behind the child at
  each step, `ByteIsPermission` that the byte in the pipe stands for what the
  parent had done when it wrote it: recorded, attached, nothing cancelled. Past
  the gate the byte was there, and the parent never cancels after writing it.
* `AuthenticationProofs`: `NameStep` is what a step of a backend does to the
  name, its place and its socket; every action of `Backend` is shown to be one.
  `NameIsAccountedFor` needs that in the cleanup the name is its own only while
  the server socket is open, which is what `main()` asks before it unlinks
  (`NameInv`, `ServerInv`). `NameIsUsable` needs that a backend that is alone
  runs while all others have ended (`AloneInv`). `EchoRestored` needs that
  `restore_required` is set while the echo is off (`EchoInv`).
  `ExchangeInv` is about the messages. It says of each connection who holds its
  two ends and how much of the request and the response has been written, taken
  and read (`ClientInv`, `ConnectionInv`, `DeliveryInv`), of each backend what it
  has heard, verified and decided at each place (`ServiceInv`), of each frontend
  whose lines are in its request (`SessionInv`), and that a queue holds those who
  wait for that listener and nobody else (`QueueInv`). Every action is first shown
  to be one of a few kinds of step (`Taking`, `Judging`, `Hearing`, `Telling`;
  `Connecting`, `Sending`, `Receiving`, `Settling`, `Closing`, `Vanishing`), and
  the parts of the invariant are proved of those. `SuccessIsEarned` and
  `AnswerDelivered` follow, and so does the implementation of `OneAnswer`
  (`ServiceKeepsItsPromise`): a step of a kind is a claim, a take, a decision,
  an outcome or nothing. A stranger's steps keep the invariant because they touch
  no connection of a backend, and whoever reached a stranger is in no queue and
  no backend's client (`StrangerAnswersNobody`). That a granted request carries the account is where the
  strings come in: two arrays compare as equal exactly when the strings in them
  are the same (`EqualMeansSame` in `ProtocolProofs`). `SecretInv` says at which
  places which buffer may hold a password; that no exit of `read_password()`
  leaves it there is a case for each exit.
* `ProcedureProofs`: one inductive invariant for each procedure.
  `DropInv` follows the identifiers and the two sets of capabilities through the
  calls of the drop (`ProgressInv`, `CapsInv`). `SetupInv` says whose the directory is at each
  step of the preparation (`OwnerInv`). For the filter, `Layout` says which
  instruction stands where in the part that is written, and `Position` what the
  kernel knows of the call at each position: behind the first k tests, that its
  number is none of the first k. `Capacity` has only to be what the declaration
  of `filter[]` makes it. `RulesInv` says which rules and which governed accesses
  the ruleset has at each place of the list, so that nothing grants a write and
  what the target needs is there. `ParseInv` is the loop invariant of
  `parse_options()`: there is a number of arguments read so far for which the
  settings are what the parser's values of that prefix amount to (`ReadSoFar`); the
  argument index moves by one or two. That these values are the ones the usage
  text gives them, but for a minus sign, is `LegalParses` and `ParsedIsMeant`.
  `CheckInv` goes through the tests of
  `process_request()` with the lemmas of `ProtocolProofs`. `ClockInv` bounds the
  two readings of the clock (`ReadingsInv`, the quotient of a negative difference
  included) and keeps the sum of the time slept and the time that remains
  (`DelayInv`). `TotalsInv` says that the totals are the exact sums of the
  processes so far, cut off at the largest number (`Capped`), the two kinds of
  ticks each by itself. The exact sum is a recursive function; that it exists for
  a list of any length is `SumExists`, by the shortest list that has none.
  `FileInv` is the loop invariant of `load_demo_credential()`: everything before
  a position that starts a line has been read, the lines before it are admissible
  and ignored but for the account (`ReadTo`, `AccountBefore`). The work is in
  `LineJudged`: on a file without an over-long line with a carriage return, the
  loop goes on exactly behind the lines the reference admits, and has then read
  all of the line, although it sees no more of it than the buffer.
  `ProceduresKeepTheirPromises` puts them together for the specification that the
  run checks.

Only model-checked: liveness (`ControllerTerminates`, `NoOrphanTarget`,
`GateResolves`, `FrontendsEnd`, `ServiceEnds`), which is beyond the prover. Every
invariant of a passing run, the action property `RequestIsFinal` and the
implementation of `OneAnswer` are proved; three of them under hypotheses that the
theorem states (`FinishedIsGone`, `FinishedIsCollected`, `ExitIsGone`) and one for
PIDs in order of birth (`AscendingScanIsComplete`), as their runs have them. The
proofs are about safety: that a state with a promise in it is reached at all is
what the runs show.

## Assumptions and what is not modelled

* Locking and unlocking do not fail; `sandbox_state_set_workload()` therefore
  does not fail either, and its error branch is left out.
* A process that left the leader's group does not return to it. This excludes a
  case: one that leaves before `kill(-pgid)` and is back when its stat file is
  read would be skipped by that round of `signal_workload()`. `ExitMeansGone` is
  shown for workloads that do not do this; in cgroup mode SIGKILL does
  not depend on it.
* A process that ignores SIGTERM does not stop ignoring it: SIGTERM then kills
  no one it would otherwise have spared, so the model is the harder case for
  termination.
* After the controller has exited the workload is not followed.
* Process group identifiers are not reused.
* A workload makes at most `MaxProcs` processes. For termination this is a real
  assumption: the `waitpid()` loop of `reap_available_children()` (`Sandbox.c`
  239-271) has no bound of its own, and a workload that never stopped to
  produce orphans could keep the controller in it.
* A target that disarms its parent-death signal, and the target's descendants, which
  do not inherit it: `NoOrphanTarget` is about a leader that leaves it armed.
* A stranger has the socket's path from the start or not at all; one that takes it
  from a backend that has ended, in the sticky `/tmp`, is the same to a frontend.
* The frontend: what is typed before the prompt and flushed with the change of
  the terminal, a NUL byte that is typed, and the buffers stdio keeps itself. Of
  the signals, only SIGINT, SIGTERM and SIGKILL: others end it with the echo off.
  The contents of a response are checked together: a response is well-formed or
  `Malformed`, which only a stranger's is.
* The backlog of the socket is larger than the number of frontends.
* Landlock governs truncation only if kernel and headers are of version 3 or
  later, so nothing is claimed about it elsewhere. It does not govern changes of
  metadata (`chmod()`, `chown()`, `utime()`) in any of the versions.
* Logging, text formats, the environment of the target, the fields of a stat
  line, the demo scripts and the test targets beyond the behaviour `Workload`
  gives a process.

## Plan

1. An abstract controller (launched, running, terminating, reported) that
   `Supervisor` implements, and its proof.
2. The parts of the liveness arguments that are safety: that a step of the main
   thread is possible in every state but the last, and what bounds its loops.
