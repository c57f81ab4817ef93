# A verification project for ignibyte-bridge

`ignibyte-bridge` keeps named terminal sessions alive: a command runs in a PTY
owned by a supervisor (a process of its own, or a thread of the bridge daemon),
other processes send it input through a FIFO and read its output from log files,
and everything any of them knows about a session is one JSON record on disk.
This directory holds TLA+ models of that system, the TLC configurations that
check them, and TLAPS proofs. All line numbers are of the files under `src/`.

## 1. Inventory

| part | source | state | operations | what is hard |
|---|---|---|---|---|
| session lifecycle | `src/session.rs` | `metadata.json` (status, generation, pids with start-time tokens, exit info), `start.lock`, `status.lock` | start, wait for running, stop, mark stopped | three kinds of actor in several processes and threads, a record saved with and without the lock, stale copies, timeouts, deaths |
| supervisor / PTY run | `src/session.rs` | the child, its PTY, its own idea of the generation | boot, spawn, record the child, open the FIFO, promote, wait, drain, mark | superseded or stopped at any point; must always reap its child |
| daemon sessions | `src/daemon.rs` | threads instead of supervisor processes | start and stop requests | the daemon dies with all its threads, not with its children |
| daemon process | `src/daemon.rs` | `daemon.lock`, the socket file, one thread per connection | bind, serve, shut down | acknowledges before it stops sessions, lists them once, removes its socket before it drops its lock |
| protocol, client routing | `src/protocol.rs`, `src/main.rs` | none | connect, send, time out, fall back to direct mode | a request that timed out may still be served |
| termination, identity | `src/session.rs`, `src/procinfo.rs` | pids of the kernel | SIGTERM, grace period, SIGKILL, identity by start time | a pid recycled during the grace period |
| input path | `src/session.rs`, `src/logs.rs` | the FIFO and who has it open, the forwarder's stop flag | send, keys, forward | replaced FIFOs, interleaved sends, bytes accepted and never forwarded, a forwarder blocked in a write |
| output path | `src/logs.rs`, `src/session.rs` | raw and clean logs, `.prev` files, the screen snapshot | capture, drain, rotate | an old run still draining into the files of a new one |
| clean log filter | `src/clean.rs` | the escape-sequence state between chunks | clean | sequences split anywhere |
| log tailing | `src/logs.rs` | none | last lines, read backward in blocks | block and byte-cap boundaries, a file that changes meanwhile |
| paths and private files | `src/paths.rs` | temporary files | atomic write, private creation | a death before the rename |
| command and PATH resolution, keys | `src/paths.rs`, `src/keys.rs` | none | pure functions | order of the search, boundaries |
| status, list, read, screen | `src/session.rs` | none | read-only reports | |
| doctor | `src/doctor.rs` | none | diagnostics | |

How they interact: there are no messages between the actors of a session. A
start creates the record and spawns a run; from then on starter, run and stops
only meet in `metadata.json`, in the two `flock` files, and through signals. Input
and output go through files, a FIFO and a PTY that outlive the actors that opened
them. The daemon is found through a socket's path and guarded by a lock. What
makes each part correct is listed, hazard by hazard and line by line, in
`PROJECT.json`.

## 2. Modules

| module | what it is |
|---|---|
| `SessionLifecycle` | one session name: its record, its two locks, start requests, runs, stop requests, children, deaths |
| `SessionRecord` | abstract: what the comments of `session.rs` promise of the record, without actors |
| `InputPath` | one session name in the daemon: send requests, FIFOs, forwarder threads and PTYs, while the session is stopped and restarted |
| `OutputPath` | one session name in the daemon: capture threads, logs, rotation, screen snapshot, the bounded drain, while the session is restarted |
| `Daemon` | daemon processes, `daemon.lock`, the socket, clients with their fallback to direct mode, start and shutdown requests |
| `SingleServer` | abstract: clients reach one daemon or none |
| `Terminate` | `pid_is_ours` and `terminate_pid` step by step, against a kernel that recycles pids |
| `AnsiCleaner`, `TailFile` | the clean-log filter and the backward reader of logs, as components without behaviour of their own |
| `ReadLog` | their composition: the PTY's bytes through the filter into the logs, and a `read` of them meanwhile |
| `AtomicFile` | `write_atomic` and `create_private_file` on one file, with threads, processes, failures, readers |
| `AtomicRegister` | abstract: a file that always holds one whole value |
| `MC...` | the same for TLC: instances that a configuration cannot write down |
| `...Proofs` | the theorems about a component |

### SessionLifecycle and the code

One name suffices: two names share neither file nor lock. A start request `s`
names its starter `<<"start", s>>`, the run it spawns `<<"run", s>>`, and that
run's child and supervisor process; a stop request `k` is `<<"stop", k>>`.
`InDaemon` says which requests are threads of the daemon.

| state | code |
|---|---|
| `meta` | `metadata.json`; `exit` stands for `exit_code` with `exit_status` |
| `startLock`, `statusLock` | holders of `start.lock` and `status.lock` |
| `pc[a]` | where the actor is; `done` has returned, `dead` was killed |
| `copy[a]` | the `SessionMetadata` value the actor has loaded |
| `gen[a]` | the local `generation` |
| `why[a]` | the exit info the actor would pass to `mark_stopped` |
| `child[r]`, `code[r]` | the PTY child of run `r` and its exit code |
| `reply[a]` | what the request was answered |

| actions | code |
|---|---|
| `StartRefused`, `StartBegins` | `acquire_start_lock`, the active check (125-131; the daemon's copy of it 237-243) |
| `InitializeLoad`, `InitializeFails`, `InitializeSave` | `initialize_session_files` |
| `SpawnRun`, `SpawnRunFails` | spawn of the supervisor process or the daemon's thread |
| `WaitForRunning`, `StartTimesOut` | `wait_for_running_metadata` |
| `StopRefused`, `StopBegins` | the unlocked load of `stop_session_silent` |
| `SignalChild` ... `SupervisorStays` | `pid_is_ours` and `terminate_pid` for the child and for the supervisor, with the order a stop and a timed-out start take them in |
| `BootLoad`, `BootSave` | `run_supervisor` before `supervise_pty` (direct mode) |
| `SpawnFails` ... `ReapChild` | `supervise_pty` |
| `MarkStoppedSkip/Load/Save` | `mark_stopped`, called by all three kinds of actor |
| `ChildExits`, `ClientDies`, `SupervisorDies`, `DaemonDies` | the environment |

Granularity. A step lies between two accesses to shared state. Critical sections
under `status.lock` are two steps, a locked load and a save that unlocks: the
save in `initialize_session_files` does not take that lock and may come between,
and the holder may be killed between. Polling is one step that fires when the
record has become one it returns on. Loading the record and probing its pids in
`start` is one step. SIGTERM, grace period and SIGKILL are one step, which may
come arbitrarily late; waiting for the process to go, and giving up on it, are
steps of their own. A supervisor that dies before the `bridge start` that forked
it is a zombie that still answers `kill(pid, 0)`, as on Linux.

What it leaves out: a pid with its start-time token identifies one process for
ever (`Terminate` is about recycled pids); saving is atomic (`AtomicFile` shows
why); saves and loads do not fail; FIFO, logs and drain (in `InputPath` and
`OutputPath`), which only delay a run between reaping its child and marking the
session; the wrap-around of the 64-bit generation.

### InputPath and the code

Starts are numbered; start `r` makes FIFO `r` and run `r`. The path `input.fifo`
(`path`) leads to one FIFO or to none, but a FIFO no longer on the path lives on
while somebody has it open, with its contents, and loses them with its last
descriptor. A text is a sequence of pieces; a piece is what goes into a FIFO in
one go, so that a text of one piece is a write of at most `PIPE_BUF` bytes and
longer ones may interleave. A run is known by its number only to the model: what the
code compares is `gen[r]`, one more than the generation of the record that the start
found, and two runs have the same when a record was rolled back between their starts.

| state | code |
|---|---|
| `record`, `path` | status, generation and child pid of `metadata.json`; what `input.fifo` leads to |
| `copy` | the record that the holder of `status.lock` has loaded |
| `gen[r]` | the generation number that start `r` took and gave its run |
| `latest`, `start` | the start that holds `start.lock`, and where it is in `initialize_session_files` and `wait_for_running_metadata` |
| `run[r]`, `child[r]`, `terminal[r]` | where `supervise_pty` is; its child; whether anyone has the child's side of the PTY open |
| `fd[r]` | the FIFO handle (`O_RDWR`) of run `r`, passed to its forwarder |
| `forward[r]`, `hand[r]`, `stop[r]` | `forward_input`: between rounds or in `write_all`; its `buffer`; `input_stop` |
| `fifo[i]`, `tty[r]`, `got[r]` | what waits in the FIFO, what waits in the PTY, what the child has read |
| `written[i]` | history: what the FIFO was given since it was last empty for want of openers |
| `source[r]` | history: the FIFO that the forwarder of run `r` was started on |
| `halt[h]`, `aim[h]` | a stop, or a start that timed out, and the record it loaded |
| `send[s]`, `part[s]`, `left[s]`, `wfd[s]` | `send_input_silent`: where it is, text or Enter, what is left to write, its handle |

| actions | code |
|---|---|
| `StartBegins` ... `StartTimesOut` | `start_session_in_daemon`, `initialize_session_files`, `wait_for_running_metadata` |
| `StopBegins` ... `HaltSaves` | `stop_session_silent` and the end of `wait_for_running_metadata` |
| `SpawnChild` ... `JoinForwarder` | `supervise_pty`: `SetupFails`, `WaitFails` are its early returns, which drop what the closure owns; `Abort` the kill after it (524-529) |
| `RunSkips`, `RunLoads`, `RunSaves` | the thread around it, which calls `mark_stopped` |
| `ForwarderStops/Reads/Writes/Fails` | `forward_input`; a round's look at the flag and its read are one step |
| `SendLoads` ... `SendBreaks` | `write_session_bytes`, twice for a send with Enter |
| `ChildReads`, `ChildExits`, `TerminalCloses` | the command and what it leaves in the background (external) |

A section under `status.lock` is two steps, a locked load and a save that unlocks, as
in `SessionLifecycle`: `InitializeSave` may come between, and the section's save then
puts the old record back over the new one. From there generations are used twice, a
slow run passes `check_run_live` of a later start, opens the FIFO on the path, and two
forwarders may read one FIFO. The properties that such a pair would break are about
runs whose generation no other run has (`OnlyOfItsGeneration`), or whose forwarder
shares its FIFO with no other (`Unshared`); how a number comes to be given out twice
is the business of `rollback` and `hijack`.

An error return of `supervise_pty` closes the FIFO first and kills the child in a later
step, while the record may still say running. If `child.wait()` fails (500), nobody
sets the forwarder's flag or joins it: it goes on reading its FIFO until nobody has its
terminal open and a write fails.

Left out: the daemon's death, direct mode (where a start has to wait for the old
supervisor, so that fewer things overlap), a child that closes its terminal while it
lives, and time: the pause before the Enter may be arbitrarily short or long.

### OutputPath and the code

Starts are numbered as in `InputPath`; `RunBegins` is everything from the spawn to
the start of the threads. Logs are inodes: `path` and `prev` say which file
`raw.log` and `raw.log.prev` (and those of the clean log) lead to, `fd[r]` which
ones the capture thread of run `r` has open, wherever they have been renamed to.
A piece of output is a pair of run and number; `Escapes` are the pieces of which
the filter leaves nothing, so that the clean log is a log of its own.

| state | code |
|---|---|
| `latest`, `start` | the start that holds `start.lock`, and where it is in `initialize_session_files` |
| `path`, `prev`, `file`, `fd[r]` | the logs, see above |
| `screen` | `screen.txt`: whose emulator rendered it, and how far |
| `run[r]`, `child[r]`, `held[r]` | where `supervise_pty` is; its child; whether background processes keep the terminal open |
| `said[r]`, `pty[r]` | what was written to the terminal; what waits in the PTY |
| `capture[r]`, `hand[r]`, `shown[r]`, `stop[r]` | where `capture_output` is; its buffer; its emulator; `output_stop` |
| `erased`, `lossy[r]` | history: what a truncation destroyed; the logs a write to which has failed |

| actions | code |
|---|---|
| `StartBegins`, `InitializeFails` | the active check and `initialize_session_files` |
| `Rotate`, `Rename` | `rotate_previous_log`: the look at the length, the rename |
| `Create`, `CreateScreen` | `create_private_file` |
| `RunBegins`, `ReapChild`, `ForwarderJoined`, `DrainEnds`, `Join` | `supervise_pty` from the spawn to its end; between the child's end and the drain it waits for the forwarder (507), perhaps for ever |
| `WaitFails`, `Abort` | `child.wait()` fails (500): the child is killed, and the capture thread left as it is |
| `OpenLog` ... `WriteScreen`, `CaptureBreaks` | `capture_output` |
| `Says`, `ChildExits`, `TerminalCloses` | the processes in the terminal (external) |

A capture thread's look at its flag and the poll and read after it are one step; each
write to a sink is one step and may take only a part when it fails. On Linux a
terminal that nobody has open makes the read fail with EIO, elsewhere it returns
0: the code ends the thread either way, and so does `CaptureEnds`. The drain lasts
"until the thread has finished or two seconds are over", which without time is
"for as long as it likes". The daemon's death is left out: it ends all these threads.

### Daemon and the code

Every start request is for a session of its own, which carries its name; what
requests for one session do to each other is in `SessionLifecycle`.

| state | code |
|---|---|
| `lock`, `sock` | `daemon.lock`; what the socket's path leads to, perhaps the socket of a daemon that died |
| `daemon[d]` | where `run_daemon` is |
| `client[c]` | what the client of request `c` waits for or was answered |
| `server[c]`, `at[c]` | the process that handles the request (the client's own in direct mode), and where the handler is |
| `status[s]`, `pid[s]`, `run[s]`, `child[s]` | the record, `supervise_pty` and the child of session `s` |
| `todo[c]`, `aim[c]` | the sessions `shutdown_sessions_for_daemon` has listed, and the one it is stopping |
| `due[c]`, `resisted` | history: sessions with a child on record when the shutdown was acknowledged; sessions that could not be terminated |

| actions | code |
|---|---|
| `TakeLock`, `LookAtSocket`, `RemoveStale`, `Bind` | `acquire_daemon_lock`, `run_daemon` |
| `Connect`, `StartDirect`, `FindNoDaemon`, `ClientGoes` | `try_send_daemon_request`, `main`, `shutdown_daemon_direct` |
| `ReadRequest`, `InitializeSession`, `StartFails`, `StartAnswered` | `handle_daemon_stream`, `start_session_in_daemon` (and its like in direct mode) |
| `RunSpawns` ... `RunEnds` | `supervise_pty` |
| `Acknowledge`, `ListSessions` | the early answer; the one listing |
| `TerminateSession`, `MarkStopped`, `AlreadyStopped`, `SessionResists` | `stop_session_silent` on each listed session |
| `RemoveSocket`, `Exit` | the end of `handle_daemon_stream` |
| `DaemonDies` | a kill at any step |

The refinement of `SingleServer` maps its server to the daemon that the socket's
path leads to if that one serves, else to none.

### Terminate and the code

One recorded pid, three processes: the recorded child, a member of its process
group, and a stranger that may be given the number once nothing uses it. The member may
be there from the start or be forked by the child at any time, in the grace period too
(`Fork`; `late` remembers whether the group had its SIGTERM by then). `token` says
whether the record has a start-time token: without one (an older record, a platform
that has none) `pid_is_ours` takes whoever has the number for ours (`NoToken`, 957).
`pc` is the caller's place in `pid_is_ours`, `terminate_pid` and `signal_pid_and_group`, with
one step per system call that matters: the probe, the token, the signal to the group,
the signal to the pid, the polls. A signal is `pending` until its target ends, which
may be never if SIGTERM is ignored. The module has no constants: its instance for TLC
is the module itself.

### AnsiCleaner, TailFile, ReadLog and the code

A byte is represented by its class (`Classes`), since `AnsiCleaner::step` tells no
more apart. `Step`, `Ground` and `Escape` are the functions of the same names;
`Fed` runs it over the bytes of a chunk, and `Clean` is the call for a chunk, whose
result continues the last call's state. The
reference `Text` is written without a state machine: which positions make up a
sequence (`Sequence`, `Cancelled`), and what is visible of the rest. `TailFile` is
the loop of `tail_file`, with the file's content at each step as a parameter, and
`tail_lines` with `str::lines`: a line is what follows a position of `Begins`, up to
the next line feed, and the lines are numbered by the rank of that position (`Nth`). `ReadLog` puts the filter before it, `raw.log`
being the input so far, and lets a restart truncate the log at any time.

### AtomicFile and the code

The directory entry (`path`), the temporary names `<pid, counter>` (`tmp`), inodes
with their data in pieces, the calls of threads in several processes, readers that
read piece by piece. `Create` is `create_private_file`, which truncates what a
process with the same pid has left under the name; `Fail` the error path that
removes the temporary file; `Killed` leaves it. `Spec` is `metadata.json`, which is
written by `write_atomic` alone; in `ScreenSpec` a start also truncates the file in
place (`Reset`), as it does with `screen.txt`.

## 3. Runs

Every constant is in the `.cfg`. Types are checked in `read` and proved for the
modules of section 4; the other runs spend their properties on behaviour.

| run | instance | shows |
|---|---|---|
| `races` | a daemon start, a direct start, a daemon stop; slow starts, supervisors that cannot be spawned, clients, supervisors and the daemon dying anywhere | `LockedCopyIsCurrent`, the invariant of the critical sections; `StopOutlivesProcesses`: a stop marks only after everything it knew of has ended; `PidsOfGeneration`, `ExitCodeIsTrue`: pids and exit codes on record belong to the generation on record; `NoResurrection`, `FirstWriterWins` |
| `direct` | three direct starts, no stop; supervisors die, set-up fails | `RecordImplemented`: the record behaves as `SessionRecord`; `StartingIsOwned`; `AtMostOneChild`: of the children on record, owned by a run or reported running one lives |
| `live` | a daemon start, a direct start, a daemon stop, no faults; fair | `Answered`, `StartingResolves`, `ZombiesReaped` |
| `unheard_stop` | a daemon start and a stop | violates `StopIsHonored` |
| `input_races` | three starts, the first slow enough to time out, a send of two pieces and its Enter; set-up may fail | `RunningHasReader`: while a session is on record as running and its child lives, the FIFO on the path has that run for reader, but for the moment between a failed set-up and the kill; `ForwardsOwnFifo`: a forwarder works on the FIFO of its own start; `InputConserved`: child, PTY, forwarder and FIFO together hold what was written, in order; `NoTruncatedLine` |
| `input_live` | one start, slow, a stop, a send of two pieces and its Enter; every fault; fair | `ReleasedAtTheEnd`: what a run leaves open; `RunsEnd`, `SendsEnd`: they end, unless a forwarder is blocked for ever on an unread terminal; `InputIsRead` |
| `output` | two starts of a session, two pieces of output each, one of them an escape sequence; failing writes, failing capture threads, failing waits | `OutputConserved`: raw log, capture thread and PTY together hold what the terminal was given, but for what a truncation destroys; `EofMeansComplete`: an undisturbed capture has logged all; `LoggedInOrder`: once, in order, in the run's own files; `PrevKept`: what was rotated away loses nothing |
| `output_live` | one start, three pieces, failing writes, capture threads and waits; fair | `RunsEnd`: once the forwarder is joined, the drain ends whoever keeps the terminal; `PtyDrained`: a full PTY is read, whatever sinks fail |
| `daemons` | two daemons, a start, two shutdowns; deaths, children that resist, clients that give up; fair | `ServerImplemented`: clients see a `SingleServer`; `SocketOfServer`; `AcknowledgedIsStopped`; `Answered`; `ShutdownEnds` |
| `terminate` | everything | `OkMeansGone`: success means that the recorded process has been waited for; `StaleRecordHarmless`: a token on record keeps a stranger that has the number safe; `GroupSurvivors`: who may be left of the group |
| `read` | streams of up to five bytes of any class, of six of those that colours, titles or lines are made of; chunks of one or two; blocks of two, a cap of five | `CleanedAsWhole`: the clean log is `Text` of the input, whatever the chunks; `TailIsWhole`: a read answers the last lines; `TypeOK` |
| `atomic` | two threads of a process, a reader, two contents of two pieces, two calls per process | `OwnFile`, `NeverTorn`, `RegisterImplemented` |

Bounds, and why they are enough:

* `SessionLifecycle`: each request happens at most once, which bounds the
  generations, and is the only bound. Two starts are the fewest in which one run is
  stale for another, and with one daemon and one direct start both ways a run
  learns its generation meet; one stop meets every step of both. A generation
  number that is rolled back and used again takes three starts; that case is
  covered by the theorems, which hold for any number (section 4).
* `InputPath`: three starts are the fewest in which a generation is used twice and
  both runs are promoted: the first run's mark, begun before the second start has saved
  its record and ended after, rolls that record back, and the third start takes the
  second's number. The run of `input_races` does reach two forwarders on one FIFO. One
  slow start is enough for a run to be stopped and replaced at any point of its set-up,
  and a FIFO is then replaced under a send. FIFO and PTY hold one piece, so
  that a write may be cut at any place, the FIFO fills, and forwarder and send block; a
  line may be read in one go or piece by piece. In `input_live`, one run, the FIFO holds
  the long text, so that a send may have returned before anything is read.
* `OutputPath`: two runs, for a restart to overlap with a drain; two pieces each, so
  that a chunk may be one or two, be in part escapes, and be cut by a failing write;
  in `output_live` three, so that the PTY fills again after it was read.
* `Daemon`: two daemons, for one to take over from another; two shutdowns, for
  them to work on the same session; one session, since sessions meet only in the
  lists of shutdowns, which `DueAreStopped` covers for any number.
* `ReadLog`: five bytes are the shortest streams in which a sequence of every kind is
  opened, cancelled by another and followed by text, and chunks of two split each
  at any place. A cap of five and blocks of two put both boundaries within the
  lines of six bytes, and one byte may come while they are read.
* `AtomicFile`: two pieces for a read to be torn, two threads for a name to be shared,
  two calls for a second write to come while the first is read, five inodes so that
  creating never lacks one.

Deadlock is checked in `races` and `direct`, where `Settled` is the state in which
nothing is left to do, so that a state in which somebody waits for ever is a
deadlock; in `live` `Answered` says more. The other models may come to rest (no
request left, or everyone answered), and do not check it.

Fairness. The operating system schedules threads and processes, the loops of the
code poll with a timeout, and `flock` gives a free lock to a waiter; every actor
takes finitely many steps, so that weak fairness is enough. In detail:

* `SessionLifecycle`: every starter, stopper and run that has begun. Nothing is
  assumed of children, of requests coming, or of deaths. Where a start is never
  slow, it times out only when its run is over, so that the liveness of starts does
  not rest on the timeout unless it must.
* `InputPath`: `Scheduling` is fairness of the threads of starts, stops, runs, forwarders
  and sends, and of nothing else. Children need not read and background processes need
  not leave, and `child.wait()` need not fail: what the code then waits for in vain is
  in the properties themselves, as the one alternative to ending. So `RunsEnd` says
  that an ended child's run is marked or its forwarder stays in a write to a terminal
  that others keep open and full (`stuck_forwarder` shows that it may), and `SendsEnd` that
  a send is answered or stays blocked behind such a forwarder.
* `OutputPath`: the run's own thread and its capture thread. Nothing is assumed of
  the processes in the terminal; a thread need not meet an error, and the forwarder
  need not be joined, so that `RunsEnd` begins after that.
* `Daemon`: daemons that have begun, the handlers of requests, supervisors, and the
  second try of a shutdown's client. Daemons need not be started, clients need not
  come, children need not end.

### Disagreements with the documentation

`unheard_stop` is the listed run that violates what a document says. A stop works on
the record it loaded first. If the child's pid was not on it yet, nobody is
signalled; if the run records the child and promotes before the stop marks, the
session is stopped on record and its child runs on, out of reach of further stops,
against `docs/HOW-IT-WORKS.md:168`.

Further configurations are kept beside the runs, each of which violates its one
property, for the same reason. They are run by hand, with the `MC` module named:

| configuration | module | violates | what happens |
|---|---|---|---|
| `rollback` | `MCSessionLifecycle` | `GenerationIncreases` | `initialize_session_files` saves without `status.lock`. A daemon session whose command has just ended may be restarted while the old thread has loaded generation 1 in `mark_stopped`; its save puts that back, stopped, over generation 2, and the restart reports the first run's exit. `session.rs:57` calls the generation monotonically increasing, and `docs/HOW-IT-WORKS.md:166` says that a stale supervisor cannot mark a freshly restarted run stopped. |
| `hijack` | `MCSessionLifecycle` | `OneRunPerGeneration` | A supervisor process reads its generation from the record when it boots; if its start was stopped before that and another followed, it adopts the later generation, passes `check_run_live` and publishes a second child, against `session.rs:857`. |
| `stuck_forwarder` | `MCInputPath` | `ForwarderCanBeJoined` | `forward_input` looks at its stop flag between rounds; in `write_all` it waits for the PTY. When the child ends and a background process keeps the terminal open without reading, `supervise_pty` never gets past `join`, and the ended run is never marked. `docs/HOW-IT-WORKS.md:110-112` and `logs.rs:120-124` say that the flag is polled so that the thread can be joined. |
| `transcript` | `MCOutputPath` | `NothingErased` | A restart leaves a log of length 0 where it is; the old capture thread, still draining, appends to it before `create_private_file` truncates it. `session.rs:279`: a restart does not silently discard the previous run's transcript. |
| `old_screen` | `MCOutputPath` | `ScreenIsCurrent` | An old capture thread renders its screen over that of the run that has replaced it. `docs/HOW-IT-WORKS.md:138`: `screen.txt` is the current rendered viewport. |
| `capture_error` | `MCOutputPath` | `CaptureErrorStopsSession` | The capture thread returns an error while the child lives; nobody looks at it before the child has ended, and nobody drains the PTY. `logs.rs:78`: propagate and let the session stop. |
| `shutdown` | `MCDaemon` | `ShutdownLeavesNoSession` | A start initializes its session after the shutdown has listed them, or records its child after the stop has loaded the record: the session is left starting or running without its daemon. `daemon.rs:286`, `README.md:113`. |
| `stranger` | `MCTerminate` | `StrangerUnharmed` | The identity is checked once, the pid is then signalled up to four times in two seconds; if the child is reaped and its number given away between, a stranger gets the signal, with a token on record. (Without one it gets it at once, which `session.rs:946` says.) `docs/HOW-IT-WORKS.md:181`. |
| `group` | `MCTerminate` | `GroupCleanedUp` | `terminate_pid` returns as soon as the leader's number is free, without SIGKILL; a member of the group that ignores SIGTERM lives on. `docs/HOW-IT-WORKS.md:198`. |
| `cut_title` | `MCReadLog` | `NoSequenceLeaks` | In OSC and string states ESC and any byte after it end the string; ESC `[` of a sequence that cuts a title short is swallowed, and the rest of that sequence is logged as text. `clean.rs:49-51`. |
| `torn_screen` | `MCAtomicFile` | `NeverTorn` | A start truncates `screen.txt` in place under a reader that has read its beginning. `docs/HOW-IT-WORKS.md:139`: a concurrent `screen` never sees a torn snapshot. |

`rollback`, `unheard_stop` and `hijack` are also why `RecordImplemented` and
`AtMostOneChild` are claimed for the scenario of `direct` alone, for which section 4
proves them.

## 4. Proofs

`SessionLifecycleProofs` proves, for all sets of requests, any split between
daemon and direct mode, and all faults, assuming only `RequestsAssumption` and
`NobodyIsNoActor` (names of requests are distinct and "nobody" is none of them):

* `TypeCorrect`: `Spec => []TypeOK`.
* `LockedCopies`: `Spec => []LockedCopyIsCurrent`. The record an actor is about
  to save under `status.lock` is the one on disk, or a start has initialized a
  new run since; and only a booting supervisor may hold a stopped record there.
* `NeverResurrected`: `Spec => NoResurrection`.
* `FirstWriterKeepsExit`: `Spec => FirstWriterWins`.
* `PidsCoherent`: `Spec => []PidsOfGeneration`.

The argument. Neither action property is provable from the types: a save writes a
copy loaded earlier, and it is `LockedCopyIsCurrent` that relates that copy to
the record it replaces. With it, a save over a stopped record can only be that of
a booting supervisor, which writes back the status and exit it has loaded. The
inductive invariant is `IInv`: the types, `RunsFollowStarts` (a run is idle until
its start spawns it, without which spawning could pull an actor out of its
critical section) and `LockedCopyIsCurrent`. `StepNext` sorts every action into
four kinds of effect on lock and record (quiet, load, save, death), and the
invariant and both properties are proved over these kinds instead of over some
forty actions.

`PidsOfGeneration` alone is not inductive: the record of tomorrow is a copy held
today, unlocked copies of stops included. `PidInv` therefore asks of every copy in
an actor's hands what it asks of the record (its pids are those of runs past their
boot, in the copy's generation), and that a run about to record its child holds a
record of its own generation, which is what `check_run_live` under the lock gives.
Generations may go back and be used again; nothing in the proof needs them to grow.

Of how sessions end it proves, from the same assumptions:

* `ExitCodesAreTrue`: `Spec => []ExitCodeIsTrue`.
* `StopsOutlive`: `Spec => []StopOutlivesProcesses`.

For exits, `LifeInv` ties a run's program counter to its child (none before the
spawn, gone before its code is known) and `ExitInv` asks of every copy what the
property asks of the record, since any copy may be saved. A step can give a record
an exit only from a record, from a copy or from the run that reaped (`Handed`), and
what has been reaped stays as it is (`Lasting`).

For stops, `StopInv` says at every label between the child's end and the mark what
the stop has seen the end of. It holds on because processes do not come back
(`Gone`: whoever has ended stays so, and a child that is gone stays so once its run
has spawned it), which needs in turn that the pids in a stop's hands are those of
processes that had been born (`Spawned` and `PidInv`): a child yet to be spawned does
not exist either, but that would not last.

`SessionDirectProofs`, for any number of direct starts without stops, whose set-up may
fail and whose supervisors may die (`DirectScenario`, the faults and the mode of `direct`):

* `StartsOwnTheirSessions`: `DirectScenario => (Spec => []StartingIsOwned)`.
* `OneChildAtATime`: `DirectScenario => (Spec => []AtMostOneChild)`, for the children that
  a living run owns, that are on record or that a start has reported running. It does
  not hold of a child whose supervisor died between spawning and recording it: nobody
  knows of that one, and the next run's child may live beside it.
* `RecordRefined`: `DirectScenario => (Spec => RecordImplemented)`, the refinement of
  `SessionRecord`.

The scenario leaves out what refutes one of the three: slow starts (`rollback`,
`hijack`), stops (`unheard_stop`), starters that die or find no supervisor to spawn
(the record stays starting, with nobody at work on it), and the daemon, whose runs
return later than their child is reaped, so that the next start finds them draining.

The argument. `DirectInv` says who is at work in which state of the record. The lock
belongs to the start between its first load and its answer (`LockInv`). A run that
lives works on the session on record, and its start waits for it as long as the record
is starting (`AliveInv`); so a start that prepares a generation has found neither run
nor child to answer for (`PrepareInv`), since otherwise the supervisor on record would
live or the record be starting under the lock of another. Whose child lives, and
is answered for, is either the start's at work or the one on record (`ChildInv`), and
the child on record has ended when the session is stopped (`LeftInv`), since only a run
that has reaped it or a start that has ended it comes to mark. From this `RunAtWork`: a run
that lives is the only one, and no start prepares beside it. With only one actor past
its load, a copy about to be saved is the record itself (`CopyInv`), which is what the
refinement needs: a save then is one step of the abstract record. `StepNext` supplies
the kinds of steps again, and each action is shown to be one of seven changes of the
control (`RunGoesOn`, `RunSavesKeep`, `StartGoesOnKeeps`, ...).

### Daemon

`DaemonProofs`, for any number of daemons, clients and shutdowns and all faults,
assuming `DaemonAssumption`:

* `TypeCorrect`: types, and `daemon.lock` belongs to the one daemon that is starting,
  serving or leaving.
* `SocketStays`: `Spec => []SocketOfServer`.
* `OneServer`: `Spec => ServerImplemented`, the refinement of `SingleServer`.
* `DueAreStopped`: `Spec => []AcknowledgedIsStopped`.

The argument. `SocketInv` adds to types and socket only who handles which request
(`HandlersServed`: a handler beyond its queue belongs to a daemon that serves). A
daemon unlinks a socket in two places, before it binds and when it leaves, and in
both it holds the lock, so that no other daemon is between bind and exit. For
shutdowns `StopInv` adds `DueInv`: each session owed a stop is `Down`, or has its pid
on record and is still in the list of the shutdown, and nobody is about to mark it
as stopped whose child lives. That last part is why a session counts as owed only if
no other shutdown is just stopping it (`Recorded`): that one may have loaded the
record before the pid was on it.

### InputPath

`InputPathProofs`, for any number of starts and stops, any sends and texts, and any
sizes of pieces, FIFOs, PTYs and reads, assuming `InputAssumption`:

* `TypeCorrect`: `Spec => []TypeOK`.
* `ReaderStays`: `Spec => []RunningHasReader`.
* `ForwardersKeepApart`: `Spec => []ForwardsOwnFifo`.
* `InputStays`: `Spec => []InputConserved`.
* `RunsRelease`: `Spec => []ReleasedAtTheEnd`.
* `LinesAreWhole`: `Spec => []NoTruncatedLine`.

The argument. `Inv1` is control: `Phase`, in which where a run is tells what has become
of its child, its FIFO and its forwarder, and from which `ReleasedAtTheEnd` follows.
`Inv2` is the record. `LockInv`: one actor is between load and save, and its copy is the
record unless a start has saved since. A run is `Alone` if it has its generation to
itself, and `Sound` says what a record of the generation of such a run is worth: while
it says starting, that start is the last one and has the path, and the run, once past
opening, has that FIFO; when it says running, the run has been through the promotion,
and if its child lives no later start has got beyond the active check. `Sound` is asked
of the copy in a section as well, and kept true of it by every step of the others,
because that copy may be saved over the record of a later start. `RunningHasReader` and
`ForwardsOwnFifo` (`Own`) follow. `Inv3` is the conservation of input as an equation
between sequences: written is got, then in the terminal, then in hand, then in the FIFO
(`Forwarded`), for a forwarder that works alone on its FIFO; it is lost when a forwarder
fails, and not asked for then.

For `NoTruncatedLine` the sequences themselves have to be followed. `Sending` says what
a send has left to write, `Holds` what that means for each FIFO: pieces of a text go
into one FIFO from the first on, and the part with Enter begins only when the text
part has been written as a whole, or not at all into this FIFO (`Inv4`). A child has
taken a beginning of what its FIFO was given, and a beginning of a sequence that
submits no truncated line submits none; once its forwarder has stopped this is kept
by itself (`Inv5`).

### OutputPath

`OutputPathProofs`, for any number of runs and pieces of output, any escapes, sizes of
PTYs and faults, assuming `OutputAssumption`:

* `TypeCorrect`: `Spec => []TypeOK`.
* `OutputStays`: `Spec => []OutputConserved`.
* `EofIsComplete`: `Spec => []EofMeansComplete`.
* `LogsInOrder`: `Spec => []LoggedInOrder`.
* `PrevStays`: `Spec => PrevKept`.

The argument. `OutputInv` is about control first: no file is raw log and clean log, or
the log and the previous one, at once (`FilesInv`); a run gets its capture thread when it
begins (`FreshInv`); where a thread is tells which files it has open and whether it holds
a chunk (`Phase`). Then the numbers: hands and PTY hold the last pieces said, in order
(`Flow`), so that `Given(r, log)` is how many of run `r`'s pieces the thread has given to
a log. `SortedInv` says that files have of a run no more than that, in order, and only the
files it has open; `CompleteInv` that they have all of it, if no write failed, but for
escapes and truncations. Every step but `WriteLog` gives nothing to a log (`GivenKept`)
and does to files only what `FilesLose` allows: create, open before anything was read,
truncate into `erased`. `WriteLog` adds the chunk, and the file it adds to has no later
piece of that run, because raw and clean log differ.

What the filter leaves of a chunk is a recursive function. That it exists, and that
it selects and keeps the order (`CleanedFacts`), is proved by induction over a set of
numbers (`Induction`), which needs no operator parameter.

### AtomicFile

`AtomicFileProofs`, for any threads, processes, readers, contents, pieces and calls,
assuming `FileAssumption`: `TypeCorrect`, `FilesAreOwn` (and `ScreenFilesAreOwn` with
truncation in place), `ReadsAreWhole`, `FileIsARegister`.

The argument. `Ownership`: a call that writes has open the file under its temporary
name; names of calls differ, since the counter only grows and a process that died has
no calls left; no two names lead to one inode, nor does the path or a reader. With
that, what is renamed is what one call wrote (`Written`), so that whatever a path or a
reader leads to is whole (`PathWhole`, `ReadersWhole`).

### ReadLog

`ReadLogProofs`, for streams of any length over all classes of bytes, chunks, blocks
and caps of any size, and any number of lines asked for, assuming `CleanerAssumption`,
`TailAssumption` and `GrowthAssumption`:

* `TypeCorrect`: `Spec => []TypeOK`.
* `CleanLogIsText`: `Spec => []CleanedAsWhole`.
* `TailsAreWhole`: `Spec => []TailIsWhole`.

The argument for the filter. `Text` looks ahead and `Step` looks back, so that it is not
inductive that what was left of `w` is `Text(w)`: a deferred CR, or half a sequence, are
nothing yet. `Kept` therefore speaks of the future: there is a position `p` that the
filter has still to decide about (`Undecided` says, for each state, what the bytes from
`p` on are), and for every stream `u` that begins with `w`, `Text(u)` is what was left of
`w` followed by the text of `u` from `p` on. One byte more either ends the sequence
begun at `p`, cancels it, or leaves it undecided (`SequenceEnds`, `SequenceCancelled`,
`SequenceGoesOn`), and what it adds to the text is what `Step` appends (`TextFollows`,
`StepIs`). With `u = w` nothing is undecided any more: `Kept` implies
`CleanedAsWhole`. Chunks do not occur in `Kept`, which is why their boundaries cannot
matter (`KeptByChunk`).

The argument for the reader. `Whole` joins to that what the reader holds: while the log
is only appended to, `collected` is what the log held from `pos` on when it was opened
(`EndOfHeld`), and `newlines` counts it (`Collecting`); a block that is read now is a
piece of what the log held then, because a longer stream has a longer clean log that
begins with the shorter one. What remains is a fact about lines alone, `SameTail`: the
end of `w` has the same last lines as `w` if it holds more line feeds than lines are
asked for. A line is known by how many begin after it (`NthFromEnd`), that number is the
same in a suffix (`BeginsMoved`), and the position where the suffix was cut, which may be
taken for the beginning of a line, is too far from its end to be among them
(`EnoughBegin`). That the reader must see one line feed more than lines is where the
proof uses `Enough` as it is.

`Text` and `Fed` are recursive functions. That they exist and obey their equations
(`TextExists`, `FedExists`) is proved by induction over a set of numbers, as for
`OutputPath`.

### Terminate

`TerminateProofs`, without any assumption: `SuccessMeansGone`, `StaleRecordsHarmNobody`
and `SurvivorsOfTheGroup`, for `OkMeansGone`, `StaleRecordHarmless` and `GroupSurvivors`.
The module has no constants and TLC's run of it is exhaustive; the proofs say why it
holds. `TermInv`: whoever has signalled nobody by the end of the first round and has not
failed has met nobody (`Reported`), so that "nobody was there" is a sound reason for
success; an `early` stranger ends the call before any signal, if there is a token to
tell it by (`LeftAlone`); a member that was there for SIGTERM has been sent it
(`Asked`), and once the group has been sent SIGKILL nobody is left in it who could fork
another member (`Doomed`).

### Only model-checked

The liveness properties (`Answered`, `StartingResolves`, `ZombiesReaped`, `RunsEnd`,
`SendsEnd`, `InputIsRead`, `PtyDrained`, `ShutdownEnds`): fairness is beyond the provers.
Every invariant and every action property of the passing runs is proved; where a
theorem is for fewer behaviours than its run's module has (`DirectScenario`), the run
is for those as well.

## 5. Not modelled

* `keys.rs`: a table from names to byte strings.
* `doctor.rs`, and the reports of `status` and `list`: they read, print, and change
  no state.
* Argument parsing (clap), shell word splitting, the search of `PATH`, validation of
  names, checks of owners and modes of directories: string and file work of one
  actor, which no other actor of the program can disturb.
* The JSON of records and requests, lossy decoding of UTF-8, the terminal emulator
  (vt100), portable-pty beyond what `supervise_pty` relies on.
* Time: timeouts may fire at any moment from when the code allows them. So nothing is
  said of whether the pause before an Enter or the drain's two seconds are long enough.
* Processes of the group beyond one member: what a member forks in its turn is like the
  late member that the child forks.
* The composition of `InputPath`, `OutputPath` and `SessionLifecycle` in one state
  space, which is out of TLC's reach; they share the phases of `supervise_pty`, each
  with the part of the record the others do not need.
