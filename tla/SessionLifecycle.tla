-------------------------- MODULE SessionLifecycle --------------------------
(***************************************************************************)
(* The life of ONE session name: the metadata.json record, the start lock, *)
(* the status lock, and the three kinds of actor that work on them without *)
(* any other coordination:                                                 *)
(*                                                                         *)
(*   Starter(s)  a start request: a `bridge start` process, or a daemon    *)
(*               thread when s is in InDaemon                              *)
(*   Run(s)      what the start spawns to own the PTY child: a supervisor  *)
(*               process (direct mode) or a daemon thread                  *)
(*   Stopper(k)  a stop request (client process or daemon thread)          *)
(*                                                                         *)
(* Sessions of different names share no file and no lock, so one name is   *)
(* enough.  A step is what one actor does between two accesses to shared   *)
(* state: a critical section under status.lock is two steps, the locked    *)
(* load and the save that releases, because initialize_session_files saves *)
(* the same record WITHOUT that lock and may come in between, and because  *)
(* an actor may die there.                                                 *)
(*                                                                         *)
(* A pid with its start-time token identifies one process for ever, so a   *)
(* recorded pid is modelled by the start whose process it is.              *)
(***************************************************************************)
EXTENDS Naturals

CONSTANTS
  Starts,     \* start requests; s also names the run and the child it spawns
  Stops,      \* stop requests
  InDaemon,   \* the requests served by the daemon's threads
  Faults,     \* what may go wrong in this scenario, a subset of FaultKinds
  Nobody      \* "no pid" in the record, "no holder" of a lock

FaultKinds == {"slow start", "setup error", "no supervisor",
               "client dies", "supervisor dies", "daemon dies"}

ASSUME RequestsAssumption ==
  /\ InDaemon \subseteq Starts \cup Stops
  /\ Starts \cap Stops = {}
  /\ Faults \subseteq FaultKinds
  /\ Nobody \notin Starts

Starter(s) == <<"start", s>>
Run(s)     == <<"run", s>>
Stopper(k) == <<"stop", k>>

Starters == {"start"} \X Starts
Runs     == {"run"} \X Starts
Stoppers == {"stop"} \X Stops
Actors   == Starters \cup Runs \cup Stoppers

ASSUME NobodyIsNoActor == Nobody \notin Actors

VARIABLES
  meta,        \* the record in metadata.json
  startLock,   \* holder of start.lock
  statusLock,  \* holder of status.lock
  pc,          \* where each actor is
  copy,        \* the record each actor last loaded and still uses
  gen,         \* the generation each actor works for
  why,         \* the exit info each actor would record
  child,       \* the process each run spawned in its PTY
  code,        \* how that process ended
  reply        \* what each request was told

vars == <<meta, startLock, statusLock, pc, copy, gen, why, child, code, reply>>

-----------------------------------------------------------------------------
(* The record.  exit stands for exit_code and exit_status together: "zero" *)
(* and "nonzero" carry a code, the others only a text.                     *)

Codes == {"zero", "nonzero"}
Exits == Codes \cup {"none", "error", "by user", "timed out"}

Metadata == [status     : {"none", "starting", "running", "stopped"},
             generation : Nat,
             supervisor : Starts \cup {Nobody},
             child      : Starts \cup {Nobody},
             exit       : Exits]

\* No metadata.json yet: every load fails.
NoSession == [status |-> "none", generation |-> 0, supervisor |-> Nobody,
              child |-> Nobody, exit |-> "none"]

Labels == {"idle", "done", "dead",
           "init", "init save", "spawn run", "poll",              \* starters
           "signal child", "await child",
           "signal supervisor", "await supervisor",   \* starters and stoppers
           "boot", "boot save", "spawn child", "record", "record save",
           "promote", "promote save", "running", "abort",             \* runs
           "mark", "mark save"}                               \* mark_stopped

Ended == {"done", "dead"}

Alive(a) == pc[a] \notin {"idle"} \cup Ended

-----------------------------------------------------------------------------
(* Processes *)

\* The pid of r's supervisor process still names it.  When it ends before the
\* `bridge start` that forked it, it stays a zombie, which kill(pid, 0) and
\* /proc still show, until that parent ends too.
SupervisorExists(r) ==
  /\ r # Nobody
  /\ \/ Alive(Run(r))
     \/ pc[Run(r)] \in Ended /\ Alive(Starter(r))

\* A child exists until its run has waited for it.
ChildExists(r) == r # Nobody /\ child[r] \in {"alive", "zombie"}

\* Mutant: only the supervisor is asked for.
SessionIsActiveBySupervisor(m) ==
  m.status = "running" /\ SupervisorExists(m.supervisor)

SessionIsActive(m) ==
  /\ m.status = "running"
  /\ SupervisorExists(m.supervisor) \/ ChildExists(m.child)

\* What is left of r's child once it has ended: a zombie for its run to reap,
\* or nothing when the run is dead and init has reaped it.
Remains(r) == IF pc[Run(r)] = "dead" THEN "gone" ELSE "zombie"

\* The actors in A die where they stand: the kernel drops their locks and init
\* reaps their zombies.  (The pc of a dead actor is set by the caller.)
Die(A) ==
  /\ copy' = [a \in Actors |-> IF a \in A THEN NoSession ELSE copy[a]]
  /\ statusLock' = IF statusLock \in A THEN Nobody ELSE statusLock
  /\ startLock' = IF startLock \in A THEN Nobody ELSE startLock
  /\ child' = [s \in Starts |-> IF Run(s) \in A /\ child[s] = "zombie"
                                THEN "gone" ELSE child[s]]

-----------------------------------------------------------------------------
(* Locked sections *)

Goto(a, label) == pc' = [pc EXCEPT ![a] = label]

\* Mutant: the lock is not waited for.
LockAndLoadAnyway(a) ==
  /\ statusLock' = a
  /\ copy' = [copy EXCEPT ![a] = meta]

\* acquire_status_lock, then load_metadata.
LockAndLoad(a) ==
  /\ statusLock = Nobody
  /\ statusLock' = a
  /\ copy' = [copy EXCEPT ![a] = meta]

Forget(a) == copy' = [copy EXCEPT ![a] = NoSession]

\* save_metadata, then the lock is dropped.
SaveAndUnlock(a, m) ==
  /\ meta' = m
  /\ statusLock' = Nobody
  /\ Forget(a)

\* The request of actor a returns; a starter's lock handle is dropped.
Return(a, r) ==
  /\ Goto(a, "done")
  /\ reply' = [reply EXCEPT ![a] = r]
  /\ startLock' = IF startLock = a THEN Nobody ELSE startLock

\* A run has nobody to answer to; a stop succeeds; a start that had to mark
\* its session stopped has timed out.
Answer(a) == IF a \in Runs THEN "none"
             ELSE IF a \in Stoppers THEN "stopped" ELSE "failed"

\* Mutants of the next definition: each of its conditions dropped, and a mark
\* that only a published session gets.
MayMarkAgain(m, g) == m.generation = g
MayMarkNewer(m, g) == m.status # "stopped"
MayMarkPublished(m, g) == m.generation = g /\ m.status = "running"

\* mark_stopped: skipped for a superseded generation, and for a session that
\* is stopped already.
MayMark(m, g) == m.generation = g /\ m.status # "stopped"

MarkStoppedSkip(a) ==
  /\ pc[a] = "mark"
  /\ statusLock = Nobody
  /\ ~MayMark(meta, gen[a])
  /\ Return(a, Answer(a))
  /\ Forget(a)
  /\ UNCHANGED <<meta, statusLock, gen, why, child, code>>

MarkStoppedLoad(a) ==
  /\ pc[a] = "mark"
  /\ MayMark(meta, gen[a])
  /\ LockAndLoad(a)
  /\ Goto(a, "mark save")
  /\ UNCHANGED <<meta, startLock, gen, why, child, code, reply>>

MarkStoppedSave(a) ==
  /\ pc[a] = "mark save"
  /\ SaveAndUnlock(a, [copy[a] EXCEPT !.status = "stopped", !.exit = why[a]])
  /\ Return(a, Answer(a))
  /\ UNCHANGED <<gen, why, child, code>>

-----------------------------------------------------------------------------
(* Start requests *)

\* The start lock is tried, never waited for; with it held, a session that is
\* running under a live process of ours is left alone.  (One step for the load
\* and the pid probes: a recorded process only ever goes from existing to not.)
StartRefused(s) ==
  /\ pc[Starter(s)] = "idle"
  /\ startLock # Nobody \/ SessionIsActive(meta)
  /\ Return(Starter(s), "refused")
  /\ UNCHANGED <<meta, statusLock, copy, gen, why, child, code>>

\* Mutant: the lock's handle is dropped as soon as it is acquired.
StartBeginsUnlocked(s) ==
  /\ pc[Starter(s)] = "idle"
  /\ startLock = Nobody
  /\ ~SessionIsActive(meta)
  /\ Goto(Starter(s), "init")
  /\ UNCHANGED <<meta, startLock, statusLock, copy, gen, why, child, code, reply>>

StartBegins(s) ==
  /\ pc[Starter(s)] = "idle"
  /\ startLock = Nobody
  /\ ~SessionIsActive(meta)
  /\ startLock' = Starter(s)
  /\ Goto(Starter(s), "init")
  /\ UNCHANGED <<meta, statusLock, copy, gen, why, child, code, reply>>

\* initialize_session_files reads the previous generation first, replaces the
\* FIFO and rotates the logs, and saves the new record last.  It takes no
\* status.lock.  (The u64 counter wraps only after 2^64 starts.)
NextGeneration(m) == m.generation + 1

InitializeLoad(s) ==
  /\ pc[Starter(s)] = "init"
  /\ gen' = [gen EXCEPT ![Starter(s)] = NextGeneration(meta)]
  /\ Goto(Starter(s), "init save")
  /\ UNCHANGED <<meta, startLock, statusLock, copy, why, child, code, reply>>

\* The command does not parse, or a file cannot be made: the record is as it was.
InitializeFails(s) ==
  /\ pc[Starter(s)] \in {"init", "init save"}
  /\ Return(Starter(s), "failed")
  /\ UNCHANGED <<meta, statusLock, copy, gen, why, child, code>>

InitializeSave(s) ==
  /\ pc[Starter(s)] = "init save"
  /\ meta' = [NoSession EXCEPT !.status = "starting",
                               !.generation = gen[Starter(s)]]
  /\ Goto(Starter(s), "spawn run")
  /\ UNCHANGED <<startLock, statusLock, copy, gen, why, child, code, reply>>

\* The daemon hands its thread the generation; a supervisor process is told
\* only the session's name.
SpawnRun(s) ==
  /\ pc[Starter(s)] = "spawn run"
  /\ IF s \in InDaemon
     THEN /\ pc' = [pc EXCEPT ![Starter(s)] = "poll", ![Run(s)] = "spawn child"]
          /\ gen' = [gen EXCEPT ![Run(s)] = gen[Starter(s)]]
     ELSE /\ pc' = [pc EXCEPT ![Starter(s)] = "poll", ![Run(s)] = "boot"]
          /\ gen' = gen
  /\ UNCHANGED <<meta, startLock, statusLock, copy, why, child, code, reply>>

\* The supervisor process cannot be started: the start fails and leaves the
\* record starting.
SpawnRunFails(s) ==
  /\ "no supervisor" \in Faults
  /\ s \notin InDaemon
  /\ pc[Starter(s)] = "spawn run"
  /\ Return(Starter(s), "failed")
  /\ UNCHANGED <<meta, statusLock, copy, gen, why, child, code>>

\* Mutants of WaitForRunning: it returns on whatever it finds first, or only on
\* a running session.
WaitForRunningOnce(s) ==
  /\ pc[Starter(s)] = "poll"
  /\ Return(Starter(s), "running")
  /\ UNCHANGED <<meta, statusLock, copy, gen, why, child, code>>

WaitForRunningOnly(s) ==
  /\ pc[Starter(s)] = "poll"
  /\ meta.status = "running"
  /\ Return(Starter(s), "running")
  /\ UNCHANGED <<meta, statusLock, copy, gen, why, child, code>>

\* wait_for_running_metadata believes whatever record it finds by name.
StartOutcome(m) == IF m.status = "running" THEN "running"
                   ELSE IF m.exit = "zero" THEN "completed" ELSE "failed"

WaitForRunning(s) ==
  /\ pc[Starter(s)] = "poll"
  /\ meta.status \in {"running", "stopped"}
  /\ Return(Starter(s), StartOutcome(meta))
  /\ UNCHANGED <<meta, statusLock, copy, gen, why, child, code>>

\* Five seconds have passed and the record still says starting: from here the
\* start works on the record it loads now, whosever that is.  (Where a start is
\* never slow, only one whose run is over waits that long.)
StartTimesOut(s) ==
  /\ "slow start" \in Faults \/ pc[Run(s)] \in Ended
  /\ pc[Starter(s)] = "poll"
  /\ meta.status = "starting"
  /\ copy' = [copy EXCEPT ![Starter(s)] = meta]
  /\ gen' = [gen EXCEPT ![Starter(s)] = meta.generation]
  /\ Goto(Starter(s), "signal supervisor")
  /\ UNCHANGED <<meta, startLock, statusLock, why, child, code, reply>>

-----------------------------------------------------------------------------
(* Stop requests *)

\* The record is loaded without the status lock.
StopRefused(k) ==
  /\ pc[Stopper(k)] = "idle"
  /\ meta.status \in {"none", "stopped"}
  /\ Return(Stopper(k), IF meta.status = "none" THEN "refused" ELSE "stopped")
  /\ UNCHANGED <<meta, statusLock, copy, gen, why, child, code>>

StopBegins(k) ==
  /\ pc[Stopper(k)] = "idle"
  /\ meta.status \in {"starting", "running"}
  /\ copy' = [copy EXCEPT ![Stopper(k)] = meta]
  /\ gen' = [gen EXCEPT ![Stopper(k)] = meta.generation]
  /\ Goto(Stopper(k), "signal child")
  /\ UNCHANGED <<meta, startLock, statusLock, why, child, code, reply>>

-----------------------------------------------------------------------------
(* terminate_pid, on the processes of the record loaded: a stop takes the  *)
(* child first, a timed-out start the supervisor.  SIGTERM, the grace      *)
(* period and SIGKILL are one step, which may come arbitrarily late.  A    *)
(* process that still exists after SIGKILL is a zombie; giving up on it is *)
(* an error, which fails a stop but which a timed-out start ignores.       *)

AfterChild(a) == IF a \in Stoppers THEN "signal supervisor" ELSE "mark"

AfterSupervisor(a) == IF a \in Stoppers THEN "mark" ELSE "signal child"

ChildNotOurs(a) ==
  /\ pc[a] = "signal child"
  /\ ~ChildExists(copy[a].child)
  /\ Goto(a, AfterChild(a))
  /\ UNCHANGED <<meta, startLock, statusLock, copy, gen, why, child, code, reply>>

SignalChild(a) ==
  /\ pc[a] = "signal child"
  /\ ChildExists(copy[a].child)
  /\ LET r == copy[a].child IN
       IF child[r] = "alive"
       THEN /\ child' = [child EXCEPT ![r] = Remains(r)]
            /\ \E c \in Codes : code' = [code EXCEPT ![r] = c]
       ELSE UNCHANGED <<child, code>>
  /\ Goto(a, "await child")
  /\ UNCHANGED <<meta, startLock, statusLock, copy, gen, why, reply>>

ChildGone(a) ==
  /\ pc[a] = "await child"
  /\ ~ChildExists(copy[a].child)
  /\ Goto(a, AfterChild(a))
  /\ UNCHANGED <<meta, startLock, statusLock, copy, gen, why, child, code, reply>>

ChildStays(a) ==
  /\ pc[a] = "await child"
  /\ ChildExists(copy[a].child)
  /\ reply' = [reply EXCEPT ![a] = "failed"]
  /\ Goto(a, AfterChild(a))
  /\ UNCHANGED <<meta, startLock, statusLock, copy, gen, why, child, code>>

\* Mutant: the errors are forgotten.
LeaveSupervisorAnyway(a, failed) ==
  Goto(a, AfterSupervisor(a)) /\ UNCHANGED <<reply, startLock, copy>>

\* Where a goes once it is through with the supervisor: a stop that could not
\* end one of the processes returns its errors and marks nothing.
LeaveSupervisor(a, failed) ==
  IF a \in Stoppers /\ failed
  THEN Return(a, "failed") /\ Forget(a)
  ELSE Goto(a, AfterSupervisor(a)) /\ UNCHANGED <<reply, startLock, copy>>

SupervisorNotOurs(a) ==
  /\ pc[a] = "signal supervisor"
  /\ ~SupervisorExists(copy[a].supervisor)
  /\ LeaveSupervisor(a, reply[a] = "failed")
  /\ UNCHANGED <<meta, statusLock, gen, why, child, code>>

SignalSupervisor(a) ==
  /\ pc[a] = "signal supervisor"
  /\ SupervisorExists(copy[a].supervisor)
  /\ LET r == Run(copy[a].supervisor) IN
       IF Alive(r)
       THEN Die({r}) /\ pc' = [pc EXCEPT ![a] = "await supervisor", ![r] = "dead"]
       ELSE /\ Goto(a, "await supervisor")
            /\ UNCHANGED <<statusLock, startLock, copy, child>>
  /\ UNCHANGED <<meta, gen, why, code, reply>>

SupervisorGone(a) ==
  /\ pc[a] = "await supervisor"
  /\ ~SupervisorExists(copy[a].supervisor)
  /\ LeaveSupervisor(a, reply[a] = "failed")
  /\ UNCHANGED <<meta, statusLock, gen, why, child, code>>

SupervisorStays(a) ==
  /\ pc[a] = "await supervisor"
  /\ SupervisorExists(copy[a].supervisor)
  /\ LeaveSupervisor(a, TRUE)
  /\ UNCHANGED <<meta, statusLock, gen, why, child, code>>

-----------------------------------------------------------------------------
(* Runs: run_supervisor or the daemon's session thread, with supervise_pty *)

\* A supervisor process records its own pid and learns its generation from
\* the record it finds; nothing is checked yet.
BootLoad(r) ==
  /\ pc[Run(r)] = "boot"
  /\ LockAndLoad(Run(r))
  /\ Goto(Run(r), "boot save")
  /\ UNCHANGED <<meta, startLock, gen, why, child, code, reply>>

BootSave(r) ==
  /\ pc[Run(r)] = "boot save"
  /\ SaveAndUnlock(Run(r), [copy[Run(r)] EXCEPT !.supervisor = r])
  /\ gen' = [gen EXCEPT ![Run(r)] = copy[Run(r)].generation]
  /\ Goto(Run(r), "spawn child")
  /\ UNCHANGED <<startLock, why, child, code, reply>>

\* The command may not parse, the PTY not open, the program not exist.
SpawnFails(r) ==
  /\ pc[Run(r)] = "spawn child"
  /\ Goto(Run(r), "mark")
  /\ UNCHANGED <<meta, startLock, statusLock, copy, gen, why, child, code, reply>>

SpawnChild(r) ==
  /\ pc[Run(r)] = "spawn child"
  /\ child' = [child EXCEPT ![r] = "alive"]
  /\ Goto(Run(r), "record")
  /\ UNCHANGED <<meta, startLock, statusLock, copy, gen, why, code, reply>>

\* Mutants of check_run_live, with either of its two checks dropped.
RunIsLiveAnyStatus(m, g) == m.generation = g
RunIsLiveAnyGeneration(m, g) == m.status # "stopped"

\* check_run_live
RunIsLive(m, g) == m.generation = g /\ m.status # "stopped"

RunNotLive(r) ==
  /\ pc[Run(r)] \in {"record", "promote"}
  /\ statusLock = Nobody
  /\ ~RunIsLive(meta, gen[Run(r)])
  /\ Goto(Run(r), "abort")
  /\ UNCHANGED <<meta, startLock, statusLock, copy, gen, why, child, code, reply>>

RecordChildLoad(r) ==
  /\ pc[Run(r)] = "record"
  /\ RunIsLive(meta, gen[Run(r)])
  /\ LockAndLoad(Run(r))
  /\ Goto(Run(r), "record save")
  /\ UNCHANGED <<meta, startLock, gen, why, child, code, reply>>

\* The start-time token of a zombie is readable on Linux and not on macOS;
\* without a token the pid is dropped.
RecordChildSave(r) ==
  /\ pc[Run(r)] = "record save"
  /\ \E pid \in IF child[r] = "zombie" THEN {r, Nobody} ELSE {r} :
       SaveAndUnlock(Run(r), [copy[Run(r)] EXCEPT !.child = pid])
  /\ Goto(Run(r), "promote")
  /\ UNCHANGED <<startLock, gen, why, child, code, reply>>

\* The FIFO has been opened; now the session is published as running.
PromoteLoad(r) ==
  /\ pc[Run(r)] = "promote"
  /\ RunIsLive(meta, gen[Run(r)])
  /\ LockAndLoad(Run(r))
  /\ Goto(Run(r), "promote save")
  /\ UNCHANGED <<meta, startLock, gen, why, child, code, reply>>

PromoteSave(r) ==
  /\ pc[Run(r)] = "promote save"
  /\ SaveAndUnlock(Run(r), [copy[Run(r)] EXCEPT !.status = "running"])
  /\ Goto(Run(r), "running")
  /\ UNCHANGED <<startLock, gen, why, child, code, reply>>

\* The FIFO does not open, the master fd is not duplicated, wait fails.
SetupFails(r) ==
  /\ "setup error" \in Faults
  /\ pc[Run(r)] \in {"promote", "running"}
  /\ Goto(Run(r), "abort")
  /\ UNCHANGED <<meta, startLock, statusLock, copy, gen, why, child, code, reply>>

\* Mutant: the child is left to itself.
AbortRunOnly(r) ==
  /\ pc[Run(r)] = "abort"
  /\ Goto(Run(r), "mark")
  /\ UNCHANGED <<meta, startLock, statusLock, copy, gen, why, child, code, reply>>

\* On any failure after the spawn the child is killed and waited for.
AbortRun(r) ==
  /\ pc[Run(r)] = "abort"
  /\ child' = [child EXCEPT ![r] = "gone"]
  /\ code' = [code EXCEPT ![r] = IF child[r] = "alive" THEN "nonzero" ELSE @]
  /\ Goto(Run(r), "mark")
  /\ UNCHANGED <<meta, startLock, statusLock, copy, gen, why, reply>>

\* child.wait returns.  Joining the forwarder and draining the output delay
\* the marking and touch none of this state.
ReapChild(r) ==
  /\ pc[Run(r)] = "running"
  /\ child[r] = "zombie"
  /\ child' = [child EXCEPT ![r] = "gone"]
  /\ why' = [why EXCEPT ![Run(r)] = code[r]]
  /\ Goto(Run(r), "mark")
  /\ UNCHANGED <<meta, startLock, statusLock, copy, gen, code, reply>>

-----------------------------------------------------------------------------
(* The environment *)

\* A child ends when it likes, or when the hangup of its PTY ends it.
ChildExits(r) ==
  /\ child[r] = "alive"
  /\ child' = [child EXCEPT ![r] = Remains(r)]
  /\ \E c \in Codes : code' = [code EXCEPT ![r] = c]
  /\ UNCHANGED <<meta, startLock, statusLock, pc, copy, gen, why, reply>>

\* A client process or a supervisor process is killed, or the daemon is: with
\* it go all its threads.  Children are not killed with their run.
DaemonActors == {a \in Actors : a[2] \in InDaemon}

Crash(A) ==
  /\ A # {}
  /\ Die(A)
  /\ pc' = [a \in Actors |-> IF a \in A THEN "dead" ELSE pc[a]]
  /\ UNCHANGED <<meta, gen, why, code, reply>>

ClientDies ==
  /\ "client dies" \in Faults
  /\ \E a \in (Starters \cup Stoppers) \ DaemonActors : Alive(a) /\ Crash({a})

SupervisorDies ==
  /\ "supervisor dies" \in Faults
  /\ \E a \in Runs \ DaemonActors : Alive(a) /\ Crash({a})

DaemonDies ==
  /\ "daemon dies" \in Faults
  /\ Crash({a \in DaemonActors : Alive(a)})

\* Nothing is left to do.
Settled ==
  /\ \A a \in Actors : ~Alive(a)
  /\ \A s \in Starts : child[s] # "alive" /\ pc[Starter(s)] # "idle"
  /\ \A k \in Stops : pc[Stopper(k)] # "idle"
  /\ UNCHANGED vars

-----------------------------------------------------------------------------
Init ==
  /\ meta = NoSession
  /\ startLock = Nobody
  /\ statusLock = Nobody
  /\ pc = [a \in Actors |-> "idle"]
  /\ copy = [a \in Actors |-> NoSession]
  /\ gen = [a \in Actors |-> 0]
  /\ why = [a \in Actors |-> IF a \in Starters THEN "timed out"
                             ELSE IF a \in Stoppers THEN "by user" ELSE "error"]
  /\ child = [s \in Starts |-> "none"]
  /\ code = [s \in Starts |-> "none"]
  /\ reply = [a \in Actors |-> "none"]

MarkStopped(a) == MarkStoppedSkip(a) \/ MarkStoppedLoad(a) \/ MarkStoppedSave(a)

TerminateChild(a) ==
  ChildNotOurs(a) \/ SignalChild(a) \/ ChildGone(a) \/ ChildStays(a)

TerminateSupervisor(a) ==
  \/ SupervisorNotOurs(a) \/ SignalSupervisor(a)
  \/ SupervisorGone(a) \/ SupervisorStays(a)

Terminate(a) == TerminateChild(a) \/ TerminateSupervisor(a) \/ MarkStopped(a)

\* What a start does once it has begun, and a stop once it has begun.
StarterSteps(s) ==
  \/ InitializeLoad(s) \/ InitializeFails(s) \/ InitializeSave(s)
  \/ SpawnRun(s) \/ SpawnRunFails(s)
  \/ WaitForRunning(s) \/ StartTimesOut(s) \/ Terminate(Starter(s))

StopperSteps(k) == Terminate(Stopper(k))

RunSteps(r) ==
  \/ BootLoad(r) \/ BootSave(r) \/ SpawnFails(r) \/ SpawnChild(r)
  \/ RunNotLive(r) \/ RecordChildLoad(r) \/ RecordChildSave(r)
  \/ PromoteLoad(r) \/ PromoteSave(r) \/ SetupFails(r) \/ AbortRun(r)
  \/ ReapChild(r) \/ MarkStopped(Run(r))

Requests ==
  \/ \E s \in Starts : StartRefused(s) \/ StartBegins(s)
  \/ \E k \in Stops : StopRefused(k) \/ StopBegins(k)

Environment ==
  \/ \E s \in Starts : ChildExits(s)
  \/ ClientDies \/ SupervisorDies \/ DaemonDies

Next ==
  \/ Requests
  \/ \E s \in Starts : StarterSteps(s) \/ RunSteps(s)
  \/ \E k \in Stops : StopperSteps(k)
  \/ Environment
  \/ Settled

Spec == Init /\ [][Next]_vars

\* Every thread and process that has begun is scheduled, and flock hands a
\* free lock to one of its waiters.  Nothing makes a child exit, a request
\* come or an actor die.
Fairness ==
  /\ \A s \in Starts : WF_vars(StarterSteps(s)) /\ WF_vars(RunSteps(s))
  /\ \A k \in Stops : WF_vars(StopperSteps(k))

FairSpec == Spec /\ Fairness

-----------------------------------------------------------------------------
(* Properties *)

TypeOK ==
  /\ meta \in Metadata
  /\ startLock \in Starters \cup {Nobody}
  /\ statusLock \in Actors \cup {Nobody}
  /\ pc \in [Actors -> Labels]
  /\ copy \in [Actors -> Metadata]
  /\ gen \in [Actors -> Nat]
  /\ why \in [Actors -> Exits]
  /\ child \in [Starts -> {"none", "alive", "zombie", "gone"}]
  /\ code \in [Starts -> Codes \cup {"none"}]
  /\ reply \in [Actors -> {"none", "refused", "running", "completed",
                           "failed", "stopped"}]

\* Where an actor holds the status lock, between its load and its save.
SavePoints == {"boot save", "record save", "promote save", "mark save"}

\* The record an actor is about to save is the one on disk, or has been
\* overtaken by the one writer that takes no status lock: a start initializing
\* a new run.  All but a booting supervisor have found it not stopped.
LockedCopyIsCurrent ==
  \A a \in Actors :
    /\ pc[a] \in SavePoints <=> statusLock = a
    /\ statusLock = a => copy[a] = meta \/ meta.status = "starting"
    /\ pc[a] \in SavePoints \ {"boot save"} => copy[a].status # "stopped"

\* Nothing turns a stopped session into a running one: the promotion works on
\* a record loaded earlier, yet never overwrites a stop recorded since.
NoResurrection ==
  [][meta.status = "stopped" => meta'.status # "running"]_vars

\* A stopped session keeps the exit info it was first stopped with, whoever
\* else (its run, a stop, a timed-out start) comes to mark it too.
FirstWriterWins ==
  [][meta.status = "stopped" /\ meta'.status = "stopped" =>
       meta'.exit = meta.exit]_vars

\* The pids on record belong to a run of the generation on record, so that a
\* stop never signals the processes of one generation and marks another.
PidsOfGeneration ==
  /\ meta.child # Nobody => gen[Run(meta.child)] = meta.generation
  /\ meta.supervisor # Nobody => gen[Run(meta.supervisor)] = meta.generation

\* An exit code on record is one with which a child of that very generation
\* really ended, and that child has been reaped.
ExitCodeIsTrue ==
  meta.exit \in Codes =>
    \E r \in Starts : /\ gen[Run(r)] = meta.generation
                      /\ code[r] = meta.exit
                      /\ child[r] = "gone"

\* A stop about to mark the session has seen the end of every process of the
\* record it loaded.
StopOutlivesProcesses ==
  \A k \in Stops : pc[Stopper(k)] = "mark" =>
    /\ ~ChildExists(copy[Stopper(k)].child)
    /\ ~SupervisorExists(copy[Stopper(k)].supervisor)

\* While no starter dies and every supervisor can be spawned, a starting session
\* has its start still at work on it under the start lock.
StartingIsOwned == meta.status = "starting" => startLock # Nobody

\* A child that a run still owns, that is on record, or that a start has reported
\* running.
Kept(r) ==
  /\ child[r] = "alive"
  /\ Alive(Run(r)) \/ meta.child = r \/ reply[Starter(r)] = "running"

\* At most one such child runs under the name, though starts may follow each
\* other at once and supervisors die.  A child whose supervisor died before the
\* child was on record is not meant: nobody knows of it, and the next run's child
\* may live beside it.
AtMostOneChild == \A r, q \in Starts : Kept(r) /\ Kept(q) => r = q

\* The record goes through the generations that session.rs's comments promise.
Record == INSTANCE SessionRecord WITH
  status <- meta.status, generation <- meta.generation, exit <- meta.exit

RecordImplemented == Record!Spec

\* Every request that has begun is answered.
Answered ==
  \A a \in Starters \cup Stoppers :
    pc[a] # "idle" ~> pc[a] \in Ended

\* No session stays starting.
StartingResolves == meta.status = "starting" ~> meta.status # "starting"

\* No child that has ended stays a zombie.
ZombiesReaped ==
  \A r \in Starts : child[r] = "zombie" ~> child[r] = "gone"

\* session.rs:57: the generation is a monotonically increasing counter.
GenerationIncreases == [][meta'.generation >= meta.generation]_vars

\* docs/HOW-IT-WORKS.md:168: a stop during startup is honored, so that the
\* child of a session on record as stopped is not left running.
StopIsHonored ==
  meta.status = "stopped" /\ meta.child # Nobody /\ pc[Run(meta.child)] = "running"
    => child[meta.child] # "alive"

\* session.rs:857: a run superseded by a later restart does not hijack it, so
\* that no two runs ever come to own the running session of one generation.
OneRunPerGeneration ==
  \A r, q \in Starts :
    /\ pc[Run(r)] = "running" /\ pc[Run(q)] = "running"
    /\ child[r] = "alive" /\ child[q] = "alive"
    /\ gen[Run(r)] = gen[Run(q)]
    => r = q
=============================================================================
