------------------------------- MODULE Daemon -------------------------------
(***************************************************************************)
(* The bridge daemon: who may be it (daemon.lock), how clients find it     *)
(* (the socket) and what they do when there is none (direct mode), the     *)
(* start and shutdown requests its threads handle, and what becomes of     *)
(* sessions when it shuts down or dies.                                    *)
(*                                                                         *)
(* Each start request c is of a session of its own, also called c; what    *)
(* requests for one session do to each other is in SessionLifecycle.  The  *)
(* stop of one session is two steps here: terminating, and marking.        *)
(***************************************************************************)
EXTENDS Naturals, FiniteSets

CONSTANTS
  Daemons,     \* daemon processes
  Starts,      \* clients with a start request
  Shutdowns,   \* clients with a shutdown request
  Faults,      \* a subset of {"crash", "client", "stubborn"}: the daemon may
               \* die; clients die or time out; children resist termination
  Self, None   \* no daemons: the client itself (direct mode); nobody

ASSUME DaemonAssumption ==
  /\ Starts \cap Shutdowns = {}
  /\ {Self, None} \cap (Daemons \cup {"stale"}) = {} /\ "stale" \notin Daemons
  /\ Self # None

Clients == Starts \cup Shutdowns

VARIABLES
  lock,     \* the holder of daemon.lock
  sock,     \* whose listener the socket's path leads to: a daemon's, that of
            \* one that died before ("stale"), or the path is free (None)
  daemon,   \* where each daemon process is
  client,   \* what each client waits for, or has been answered
  server,   \* the process that handles each request
  at,       \* where the handler of each request is
  status,   \* of each session, on its record
  pid,      \* whether the child's pid is on that record
  run,      \* where each session's supervise_pty is
  child,    \* each session's process
  todo,     \* the sessions each shutdown has listed and not yet stopped
  aim,      \* the one it is stopping
  due,      \* history: those it owes a stop when it is acknowledged (Recorded)
  resisted  \* history: sessions that some shutdown could not terminate

daemonVars  == <<lock, sock, daemon>>
requestVars == <<client, server, at>>
sessionVars == <<status, pid, run, child>>
haltVars    == <<todo, aim, due, resisted>>
vars == <<daemonVars, requestVars, sessionVars, haltVars>>

Serving(d) == d \in Daemons /\ daemon[d] = "serve"

-----------------------------------------------------------------------------
(* run_daemon *)

\* A daemon that bails exits, and drops the lock if it had it.
Move(d, label) ==
  /\ daemon' = [daemon EXCEPT ![d] = label]
  /\ lock' = IF label = "gone" /\ lock = d THEN None ELSE lock

\* Mutant: the lock is opened and not locked.
TakeNoLock(d) ==
  /\ daemon[d] = "idle"
  /\ daemon' = [daemon EXCEPT ![d] = "look"]
  /\ UNCHANGED <<lock, sock, requestVars, sessionVars, haltVars>>

\* acquire_daemon_lock does not wait.
TakeLock(d) ==
  /\ daemon[d] = "idle"
  /\ daemon' = [daemon EXCEPT ![d] = IF lock = None THEN "look" ELSE "gone"]
  /\ lock' = IF lock = None THEN d ELSE lock
  /\ UNCHANGED <<sock, requestVars, sessionVars, haltVars>>

\* Something at the path is either answering or stale.
LookAtSocket(d) ==
  /\ daemon[d] = "look"
  /\ Move(d, IF sock = None THEN "bind"
             ELSE IF Serving(sock) THEN "gone" ELSE "unlink")
  /\ UNCHANGED <<sock, requestVars, sessionVars, haltVars>>

RemoveStale(d) ==
  /\ daemon[d] = "unlink"
  /\ sock' = None
  /\ Move(d, "bind")
  /\ UNCHANGED <<requestVars, sessionVars, haltVars>>

Bind(d) ==
  /\ daemon[d] = "bind"
  /\ sock' = IF sock = None THEN d ELSE sock
  /\ Move(d, IF sock = None THEN "serve" ELSE "gone")
  /\ UNCHANGED <<requestVars, sessionVars, haltVars>>

\* What the end of process d does: its lock is dropped, its threads end where
\* they are, clients it has not answered read the end of the stream, and the
\* children of its sessions get SIGHUP with their PTY, which they may survive.
Ends(d) ==
  LET threads == {c \in Clients : server[c] = d}
  IN /\ Move(d, "gone")
     /\ at' = [c \in Clients |->
                 IF c \in threads /\ at[c] # "exit" THEN "done" ELSE at[c]]
     /\ client' = [c \in Clients |->
                     IF c \in threads /\ client[c] = "sent" THEN "failed" ELSE client[c]]
     /\ run' = [s \in Starts |->
                  IF s \in threads /\ run[s] # "none" THEN "done" ELSE run[s]]
     /\ child' \in {ch \in [Starts -> {"none", "alive", "ended"}] :
                      \A s \in Starts : \/ ch[s] = child[s]
                                        \/ s \in threads /\ child[s] = "alive" /\ ch[s] = "ended"}
     /\ UNCHANGED <<server, status, pid, haltVars>>

DaemonDies(d) ==
  /\ "crash" \in Faults
  /\ daemon[d] \notin {"idle", "gone"}
  /\ Ends(d)
  /\ UNCHANGED sock

-----------------------------------------------------------------------------
(* Clients: try_send_daemon_request, main, shutdown_daemon_direct          *)

Tell(c, answer) ==
  client' = [client EXCEPT ![c] = IF @ \in {"sent", "direct"} THEN answer ELSE @]

Connect(c) ==
  /\ client[c] \in {"idle", "again"} /\ Serving(sock)
  /\ client' = [client EXCEPT ![c] = "sent"]
  /\ server' = [server EXCEPT ![c] = sock]
  /\ at' = [at EXCEPT ![c] = "queued"]
  /\ UNCHANGED <<daemonVars, sessionVars, haltVars>>

\* No socket, or nobody behind it: the client does the start itself.
StartDirect(c) ==
  /\ c \in Starts /\ client[c] = "idle" /\ ~Serving(sock)
  /\ client' = [client EXCEPT ![c] = "direct"]
  /\ server' = [server EXCEPT ![c] = Self]
  /\ at' = [at EXCEPT ![c] = "init"]
  /\ UNCHANGED <<daemonVars, sessionVars, haltVars>>

\* A shutdown tries twice before it reports that no daemon is running.
FindNoDaemon(c) ==
  /\ c \in Shutdowns /\ client[c] \in {"idle", "again"} /\ ~Serving(sock)
  /\ client' = [client EXCEPT ![c] = IF @ = "idle" THEN "again" ELSE "answered"]
  /\ UNCHANGED <<daemonVars, server, at, sessionVars, haltVars>>

\* Killed, or tired of waiting; a start that it did itself ends there, but not
\* the supervisor it has spawned.
ClientGoes(c) ==
  /\ "client" \in Faults
  /\ client[c] \in {"sent", "direct"}
  /\ client' = [client EXCEPT ![c] = "failed"]
  /\ at' = [at EXCEPT ![c] = IF server[c] = Self THEN "done" ELSE @]
  /\ UNCHANGED <<daemonVars, server, sessionVars, haltVars>>

-----------------------------------------------------------------------------
(* handle_daemon_stream, and start requests                                *)

Handle(c, label) == at' = [at EXCEPT ![c] = label]

ReadRequest(c) ==
  /\ at[c] = "queued"
  /\ Handle(c, IF c \in Starts THEN "init" ELSE "ack")
  /\ UNCHANGED <<daemonVars, client, server, sessionVars, haltVars>>

\* start_session_in_daemon (or the client's own start): the record, then the
\* run, which in direct mode is a process of its own.
InitializeSession(s) ==
  /\ s \in Starts /\ at[s] = "init"
  /\ status' = [status EXCEPT ![s] = "starting"]
  /\ run' = [run EXCEPT ![s] = "spawn"]
  /\ Handle(s, "wait")
  /\ UNCHANGED <<daemonVars, client, server, pid, child, haltVars>>

StartFails(s) ==
  /\ s \in Starts /\ at[s] = "init"
  /\ Tell(s, "failed")
  /\ Handle(s, "done")
  /\ UNCHANGED <<daemonVars, server, sessionVars, haltVars>>

\* Mutant: only a session that runs is waited for.
StartAnsweredRunning(s) ==
  /\ at[s] = "wait" /\ status[s] = "running"
  /\ Tell(s, "answered")
  /\ Handle(s, "done")
  /\ UNCHANGED <<daemonVars, server, sessionVars, haltVars>>

\* wait_for_running_metadata; its time-out is in SessionLifecycle.
StartAnswered(s) ==
  /\ at[s] = "wait" /\ status[s] \in {"running", "stopped"}
  /\ Tell(s, IF status[s] = "running" THEN "answered" ELSE "failed")
  /\ Handle(s, "done")
  /\ UNCHANGED <<daemonVars, server, sessionVars, haltVars>>

-----------------------------------------------------------------------------
(* supervise_pty of session s *)

RunSpawns(s) ==
  /\ run[s] = "spawn"
  /\ run' = [run EXCEPT ![s] = "record"]
  /\ child' = [child EXCEPT ![s] = "alive"]
  /\ UNCHANGED <<daemonVars, requestVars, status, pid, haltVars>>

RunRecords(s) ==
  /\ run[s] = "record" /\ status[s] # "stopped"
  /\ pid' = [pid EXCEPT ![s] = TRUE]
  /\ run' = [run EXCEPT ![s] = "promote"]
  /\ UNCHANGED <<daemonVars, requestVars, status, child, haltVars>>

RunPromotes(s) ==
  /\ run[s] = "promote" /\ status[s] # "stopped"
  /\ status' = [status EXCEPT ![s] = "running"]
  /\ run' = [run EXCEPT ![s] = "wait"]
  /\ UNCHANGED <<daemonVars, requestVars, pid, child, haltVars>>

\* Stopped meanwhile: the child is killed.
RunAborts(s) ==
  /\ run[s] \in {"record", "promote"} /\ status[s] = "stopped"
  /\ child' = [child EXCEPT ![s] = "ended"]
  /\ run' = [run EXCEPT ![s] = "done"]
  /\ UNCHANGED <<daemonVars, requestVars, status, pid, haltVars>>

RunEnds(s) ==
  /\ run[s] = "wait" /\ child[s] = "ended"
  /\ status' = [status EXCEPT ![s] = "stopped"]
  /\ run' = [run EXCEPT ![s] = "done"]
  /\ UNCHANGED <<daemonVars, requestVars, pid, child, haltVars>>

ChildExits(s) ==
  /\ child[s] = "alive"
  /\ child' = [child EXCEPT ![s] = "ended"]
  /\ UNCHANGED <<daemonVars, requestVars, status, pid, run, haltVars>>

-----------------------------------------------------------------------------
(* A shutdown request: handle_daemon_stream, shutdown_sessions_for_daemon  *)

\* Sessions with a pid on record that no other shutdown is just stopping: that
\* one may have looked at the record before the pid was on it.
Recorded ==
  {s \in Starts : /\ status[s] \in {"starting", "running"} /\ pid[s]
                  /\ \A c \in Shutdowns : at[c] = "mark" => aim[c] # s}

\* A client that has gone cannot be told, and then nothing is shut down.
Acknowledge(c) ==
  /\ at[c] = "ack"
  /\ Handle(c, IF client[c] = "sent" THEN "list" ELSE "done")
  /\ Tell(c, "answered")
  /\ due' = [due EXCEPT ![c] = Recorded]
  /\ UNCHANGED <<daemonVars, server, sessionVars, todo, aim, resisted>>

\* Mutant: only sessions that run are listed.
ListRunning(c) ==
  /\ at[c] = "list"
  /\ todo' = [todo EXCEPT ![c] = {s \in Starts : status[s] = "running"}]
  /\ Handle(c, "stop")
  /\ UNCHANGED <<daemonVars, client, server, sessionVars, aim, due, resisted>>

ListSessions(c) ==
  /\ at[c] = "list"
  /\ todo' = [todo EXCEPT ![c] = {s \in Starts : status[s] \in {"starting", "running"}}]
  /\ Handle(c, "stop")
  /\ UNCHANGED <<daemonVars, client, server, sessionVars, aim, due, resisted>>

\* stop_session_silent terminates the child on record, and then, in direct
\* mode, the supervisor that has booted, with which the child's PTY goes too.
Supervisor(s) == server[s] = Self /\ run[s] \notin {"none", "spawn", "done"}

TerminateSession(c) ==
  /\ at[c] = "stop"
  /\ \E s \in todo[c] :
       /\ status[s] # "stopped"
       /\ aim' = [aim EXCEPT ![c] = s]
       /\ run' = IF Supervisor(s) THEN [run EXCEPT ![s] = "done"] ELSE run
       /\ \/ child[s] = "alive" /\ (pid[s] \/ Supervisor(s))
             /\ child' = [child EXCEPT ![s] = "ended"]
          \/ ~pid[s] /\ UNCHANGED child
          \/ child[s] # "alive" /\ UNCHANGED child
  /\ Handle(c, "mark")
  /\ UNCHANGED <<daemonVars, client, server, status, pid, todo, due, resisted>>

MarkStopped(c) ==
  /\ at[c] = "mark"
  /\ status' = [status EXCEPT ![aim[c]] = "stopped"]
  /\ todo' = [todo EXCEPT ![c] = @ \ {aim[c]}]
  /\ aim' = [aim EXCEPT ![c] = None]
  /\ Handle(c, "stop")
  /\ UNCHANGED <<daemonVars, client, server, pid, run, child, due, resisted>>

AlreadyStopped(c) ==
  /\ at[c] = "stop"
  /\ \E s \in todo[c] :
       /\ status[s] = "stopped"
       /\ todo' = [todo EXCEPT ![c] = @ \ {s}]
  /\ UNCHANGED <<daemonVars, requestVars, sessionVars, aim, due, resisted>>

\* Mutant: a session that cannot be stopped ends the handler.
SessionResistsForGood(c) ==
  /\ at[c] = "stop" /\ "stubborn" \in Faults
  /\ \E s \in todo[c] :
       /\ pid[s] /\ child[s] = "alive"
       /\ resisted' = resisted \cup {s}
  /\ Handle(c, "done")
  /\ UNCHANGED <<daemonVars, client, server, sessionVars, todo, aim, due>>

\* The process is still there after SIGKILL: an error, and on to the next.
SessionResists(c) ==
  /\ at[c] = "stop" /\ "stubborn" \in Faults
  /\ \E s \in todo[c] :
       /\ pid[s] /\ child[s] = "alive"
       /\ todo' = [todo EXCEPT ![c] = @ \ {s}]
       /\ resisted' = resisted \cup {s}
  /\ UNCHANGED <<daemonVars, requestVars, sessionVars, aim, due>>

\* Mutant: the lock is dropped before the socket is removed.
DropLockFirst(c) ==
  /\ at[c] = "stop" /\ todo[c] = {}
  /\ \/ lock = server[c] /\ lock' = None /\ UNCHANGED <<sock, at>>
     \/ lock # server[c] /\ sock' = None /\ Handle(c, "exit") /\ UNCHANGED lock
  /\ UNCHANGED <<daemon, client, server, sessionVars, haltVars>>

\* By its path, and with daemon.lock still held.
RemoveSocket(c) ==
  /\ at[c] = "stop" /\ todo[c] = {}
  /\ sock' = None
  /\ Handle(c, "exit")
  /\ UNCHANGED <<lock, daemon, client, server, sessionVars, haltVars>>

Exit(c) ==
  /\ at[c] = "exit" /\ Serving(server[c])
  /\ Ends(server[c])
  /\ UNCHANGED sock

-----------------------------------------------------------------------------
Init ==
  /\ lock = None /\ sock \in {None, "stale"}
  /\ daemon = [d \in Daemons |-> "idle"]
  /\ client = [c \in Clients |-> "idle"]
  /\ server = [c \in Clients |-> None]
  /\ at = [c \in Clients |-> "none"]
  /\ status = [s \in Starts |-> "none"] /\ pid = [s \in Starts |-> FALSE]
  /\ run = [s \in Starts |-> "none"] /\ child = [s \in Starts |-> "none"]
  /\ todo = [c \in Shutdowns |-> {}] /\ aim = [c \in Shutdowns |-> None]
  /\ due = [c \in Shutdowns |-> {}] /\ resisted = {}

DaemonStarts(d) == TakeLock(d) \/ LookAtSocket(d) \/ RemoveStale(d) \/ Bind(d)
ClientSteps(c) == Connect(c) \/ StartDirect(c) \/ FindNoDaemon(c)
StartSteps(s) == ReadRequest(s) \/ InitializeSession(s) \/ StartFails(s) \/ StartAnswered(s)
RunSteps(s) == RunSpawns(s) \/ RunRecords(s) \/ RunPromotes(s) \/ RunAborts(s) \/ RunEnds(s)
ShutdownSteps(c) ==
  \/ ReadRequest(c) \/ Acknowledge(c) \/ ListSessions(c)
  \/ TerminateSession(c) \/ MarkStopped(c) \/ AlreadyStopped(c)
  \/ SessionResists(c) \/ RemoveSocket(c) \/ Exit(c)

Next ==
  \/ \E d \in Daemons : DaemonStarts(d) \/ DaemonDies(d)
  \/ \E c \in Clients : ClientSteps(c) \/ ClientGoes(c)
  \/ \E s \in Starts : StartSteps(s) \/ RunSteps(s) \/ ChildExits(s)
  \/ \E c \in Shutdowns : ShutdownSteps(c)

Spec == Init /\ [][Next]_vars

\* Daemons that have begun, their threads, and supervisors are scheduled.
FairSpec ==
  /\ Spec
  /\ \A d \in Daemons : WF_vars(daemon[d] # "idle" /\ DaemonStarts(d))
  /\ \A s \in Starts : WF_vars(StartSteps(s)) /\ WF_vars(RunSteps(s))
  /\ \A c \in Shutdowns :
       WF_vars(ShutdownSteps(c)) /\ WF_vars(client[c] = "again" /\ ClientSteps(c))

-----------------------------------------------------------------------------
(* Properties *)

\* Types; and daemon.lock is held by whoever is starting, serving or leaving.
TypeOK ==
  /\ lock \in Daemons \cup {None}
  /\ \A d \in Daemons : daemon[d] \notin {"idle", "gone"} <=> lock = d
  /\ sock \in Daemons \cup {"stale", None}
  /\ daemon \in [Daemons -> {"idle", "look", "unlink", "bind", "serve", "gone"}]
  /\ client \in [Clients -> {"idle", "again", "sent", "direct", "answered", "failed"}]
  /\ server \in [Clients -> Daemons \cup {Self, None}]
  /\ at \in [Clients -> {"none", "queued", "init", "wait", "ack", "list", "stop",
                         "mark", "exit", "done"}]
  /\ status \in [Starts -> {"none", "starting", "running", "stopped"}]
  /\ pid \in [Starts -> BOOLEAN]
  /\ run \in [Starts -> {"none", "spawn", "record", "promote", "wait", "done"}]
  /\ child \in [Starts -> {"none", "alive", "ended"}]
  /\ todo \in [Shutdowns -> SUBSET Starts] /\ due \in [Shutdowns -> SUBSET Starts]
  /\ aim \in [Shutdowns -> Starts \cup {None}]
  /\ \A c \in Shutdowns : at[c] = "mark" => aim[c] \in Starts
  /\ resisted \subseteq Starts

Leaving(d) == \E c \in Shutdowns : at[c] = "exit" /\ server[c] = d

\* The socket's path always leads to the daemon that serves and is not leaving
\* (daemon.rs:39: none unlinks the socket of another), and never to one that has
\* removed it to leave (daemon.rs:150: no stale socket is left behind).
ServingIsReached ==
  \A d \in Daemons : daemon[d] = "serve" /\ ~Leaving(d) => sock = d
LeavesNoSocket ==
  \A c \in Shutdowns : at[c] = "exit" => sock # server[c]
SocketOfServer == ServingIsReached /\ LeavesNoSocket

\* A shutdown that was acknowledged stops every session whose child was on
\* record by then, starting ones too, unless its child cannot be killed or another
\* shutdown was just marking it (see Recorded): when the daemon leaves they are
\* stopped and their children have ended, however many shutdowns worked on them.
AcknowledgedIsStopped ==
  \A c \in Shutdowns : at[c] = "exit" =>
    \A s \in due[c] \ resisted : status[s] = "stopped" /\ child[s] = "ended"

\* Whom clients reach behaves as one server that comes and goes.
Reached == IF Serving(sock) THEN sock ELSE None
Over == {d \in Daemons : daemon[d] = "gone" \/ Leaving(d)}
Server == INSTANCE SingleServer WITH server <- Reached, over <- Over
ServerImplemented == Server!Spec

\* Every request that was sent is answered, or its client sees the connection
\* end; shutdowns are acknowledged however long the sessions take to stop.
Answered == \A c \in Clients : client[c] = "sent" ~> client[c] # "sent"

\* A shutdown that was acknowledged ends the daemon, whatever sessions resist.
ShutdownEnds ==
  \A c \in Shutdowns : at[c] = "list" ~> server[c] \notin Daemons \/ daemon[server[c]] = "gone"

-----------------------------------------------------------------------------
(* What the code and its comments say and the runs refute *)

\* daemon.rs:286: a session mid-startup is not orphaned when the daemon exits;
\* README.md:113: shutdown stops all sessions.  None is left starting or
\* running on record without the daemon that owned it.
ShutdownLeavesNoSession ==
  \A c \in Shutdowns : at[c] = "exit" /\ daemon[server[c]] = "gone" =>
    \A s \in Starts \ resisted :
      server[s] = server[c] => status[s] \notin {"starting", "running"}
=============================================================================
