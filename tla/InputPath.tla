----------------------------- MODULE InputPath -----------------------------
(***************************************************************************)
(* The way of a session's input, from send requests through the FIFO and   *)
(* the forwarder thread into the PTY of the child, while the session is    *)
(* stopped and restarted under them:                                       *)
(*                                                                         *)
(*    send ---> input.fifo ---> forward_input ---> PTY ---> child          *)
(*                                                                         *)
(* One session name, owned by the daemon.  Starts are numbered in order and *)
(* start r makes FIFO r and run r; the generation number that it gives its *)
(* run is one more than that of the record it finds, and not always new.   *)
(* The path input.fifo leads to one FIFO or to none, but a FIFO that is no *)
(* longer on the path lives on in those that have it open.                 *)
(*                                                                         *)
(* A section under status.lock is two steps, the locked load and the save  *)
(* that releases: initialize_session_files saves without that lock and may *)
(* come in between, and then the section's save undoes its save.           *)
(***************************************************************************)
EXTENDS Naturals, Sequences

CONSTANTS
  MaxRuns,      \* bound: how often the session is started
  Stops,        \* stop requests
  Sends,        \* send and keys requests
  Unsubmitted,  \* those that send no Enter: --no-enter, and all keys requests
  Short,        \* those whose text is one piece
  TextLength,   \* pieces of the other texts; a piece goes into a FIFO in one go
  ReadSize,     \* pieces the forwarder reads at most at once
  FifoCapacity, \* pieces that fit into a FIFO
  TtyCapacity,  \* pieces that a PTY holds until the child reads
  Slow,         \* starts that may take longer than a request waits for them
  Faults        \* what may go wrong, a subset of FaultKinds

FaultKinds == {"initialize", "spawn", "setup", "wait"}

ASSUME InputAssumption ==
  /\ MaxRuns \in Nat /\ TextLength \in Nat \ {0} /\ ReadSize \in Nat \ {0}
  /\ FifoCapacity \in Nat \ {0} /\ TtyCapacity \in Nat \ {0}
  /\ Unsubmitted \subseteq Sends /\ Short \subseteq Sends
  /\ "start" \notin Stops /\ Slow \subseteq 1 .. MaxRuns /\ Faults \subseteq FaultKinds

Runs == 1 .. MaxRuns
None == 0
Halters == Stops \cup {"start"}   \* "start": a start request that timed out

VARIABLES
  record,   \* metadata.json: status, generation and child pid
  copy,     \* the record that the holder of status.lock has loaded
  gen,      \* the generation of each run
  path,     \* the FIFO that input.fifo leads to
  fifo,     \* what each FIFO holds
  written,  \* history: what each FIFO has been given while it was held open
  latest,   \* the last start
  start,    \* where that start is; it holds start.lock unless it is "idle"
  run,      \* where each run's supervise_pty is
  child,    \* each run's process
  terminal, \* whether some process has the child's side of each PTY open
  fd,       \* the FIFO each run has open for reading and writing
  forward,  \* where each run's forwarder thread is
  hand,     \* what each forwarder has read and not yet written
  tty,      \* what waits in each PTY for the child to read
  got,      \* history: what each child has read
  stop,     \* each run's input_stop flag
  source,   \* history: the FIFO each forwarder was started on
  halt,     \* where each stop, and a timed-out start, is
  aim,      \* the record each of them loaded
  send,     \* where each send request is
  part,     \* what it sends: its text, then its Enter
  left,     \* what it has still to write
  wfd       \* the FIFO it has open for writing

recordVars == <<record, copy, gen, path, latest, start>>
runVars    == <<run, child, terminal, fd>>
pipeVars   == <<fifo, written>>
inputVars  == <<forward, hand, tty, got, stop, source>>
haltVars   == <<halt, aim>>
sendVars   == <<send, part, left, wfd>>
vars == <<recordVars, runVars, pipeVars, inputVars, haltVars, sendVars>>

-----------------------------------------------------------------------------
(* Pieces of input.  Piece 0 of a send is its Enter.                       *)

Enter == 0
Pieces == Sends \X (0 .. TextLength)
Length(s) == IF s \in Short THEN 1 ELSE TextLength
Bytes(s, p) == IF p = "text" THEN [i \in 1 .. Length(s) |-> <<s, i>>]
                             ELSE << <<s, Enter>> >>

Set(q) == {q[i] : i \in DOMAIN q}
Smaller(m, n) == IF m < n THEN m ELSE n

-----------------------------------------------------------------------------
(* The record and the FIFOs *)

NoSession == [status |-> "none", gen |-> 0, child |-> None]

\* status.lock is held from the load of a section to its save.
Locked == \/ \E r \in Runs : run[r] \in {"record save", "promote save", "mark save"}
          \/ \E h \in Halters : halt[h] = "mark save"
LockAndLoad == ~Locked /\ copy' = record
SaveAndUnlock(m) == record' = m /\ copy' = NoSession

HasReader(i) == \E r \in Runs : fd[r] = i

\* Run r closes its FIFO; what a FIFO holds is lost with its last descriptor.
CloseFifo(r) ==
  LET kept(i) == (\E q \in Runs \ {r} : fd[q] = i) \/ \E s \in Sends : wfd[s] = i
  IN /\ fd' = [fd EXCEPT ![r] = None]
     /\ fifo' = [i \in Runs |-> IF kept(i) THEN fifo[i] ELSE <<>>]
     /\ written' = [i \in Runs |-> IF kept(i) THEN written[i] ELSE <<>>]

\* A send closes the FIFO it found without a reader.
SendCloses(s) ==
  LET kept(i) == HasReader(i) \/ \E z \in Sends \ {s} : wfd[z] = i
  IN /\ wfd' = [wfd EXCEPT ![s] = None]
     /\ fifo' = [i \in Runs |-> IF kept(i) THEN fifo[i] ELSE <<>>]
     /\ written' = [i \in Runs |-> IF kept(i) THEN written[i] ELSE <<>>]

-----------------------------------------------------------------------------
(* Start requests *)

\* A process that has ended exists until its run has waited for it.
ChildExists(c) == c # None /\ child[c] \in {"alive", "zombie"}

SessionIsActive == record.status = "running" /\ ChildExists(record.child)

\* With start.lock held; a start that finds the session active changes nothing.
StartBegins ==
  /\ start = "idle" /\ latest < MaxRuns
  /\ ~SessionIsActive
  /\ latest' = latest + 1
  /\ start' = "load"
  /\ UNCHANGED <<record, copy, gen, path, runVars, pipeVars, inputVars, haltVars,
                 sendVars>>

\* initialize_session_files: the generation is taken from the record, the old
\* FIFO goes, the new one is made, the new record is saved without status.lock;
\* then the daemon spawns the run.
InitializeLoad ==
  /\ start = "load"
  /\ gen' = [gen EXCEPT ![latest] = record.gen + 1]
  /\ start' = "remove"
  /\ UNCHANGED <<record, copy, path, latest, runVars, pipeVars, inputVars, haltVars,
                 sendVars>>

RemoveFifo ==
  /\ start = "remove"
  /\ path' = None
  /\ start' = "make"
  /\ UNCHANGED <<record, copy, gen, latest, runVars, pipeVars, inputVars, haltVars,
                 sendVars>>

MakeFifo ==
  /\ start = "make"
  /\ path' = latest
  /\ start' = "save"
  /\ UNCHANGED <<record, copy, gen, latest, runVars, pipeVars, inputVars, haltVars,
                 sendVars>>

InitializeSave ==
  /\ start = "save"
  /\ record' = [status |-> "starting", gen |-> gen[latest], child |-> None]
  /\ run' = [run EXCEPT ![latest] = "spawn"]
  /\ start' = "await"
  /\ UNCHANGED <<copy, gen, path, latest, child, terminal, fd, pipeVars, inputVars,
                 haltVars, sendVars>>

\* The command does not parse, or a file cannot be removed or made: no run has
\* the generation that was taken.
InitializeFails ==
  /\ "initialize" \in Faults
  /\ start \in {"load", "remove", "make", "save"}
  /\ gen' = [gen EXCEPT ![latest] = 0]
  /\ start' = "idle"
  /\ UNCHANGED <<record, copy, path, latest, runVars, pipeVars, inputVars, haltVars,
                 sendVars>>

\* wait_for_running_metadata
StartAnswered ==
  /\ start = "await" /\ halt["start"] = "idle"
  /\ record.status \in {"running", "stopped"}
  /\ start' = "idle"
  /\ UNCHANGED <<record, copy, gen, path, latest, runVars, pipeVars, inputVars,
                 haltVars, sendVars>>

\* Of the other starts, only one whose run is over waits that long.
StartTimesOut ==
  /\ start = "await" /\ halt["start"] = "idle"
  /\ latest \in Slow \/ run[latest] = "done"
  /\ record.status = "starting"
  /\ halt' = [halt EXCEPT !["start"] = "terminate"]
  /\ aim' = [aim EXCEPT !["start"] = record]
  /\ UNCHANGED <<recordVars, runVars, pipeVars, inputVars, sendVars>>

-----------------------------------------------------------------------------
(* Stop requests, and what a timed-out start does about its session.  The  *)
(* record is loaded without the lock.  A stop that finds nothing to stop   *)
(* changes nothing.                                                        *)

StopBegins(k) ==
  /\ halt[k] = "idle"
  /\ record.status \in {"starting", "running"}
  /\ halt' = [halt EXCEPT ![k] = "terminate"]
  /\ aim' = [aim EXCEPT ![k] = record]
  /\ UNCHANGED <<recordVars, runVars, pipeVars, inputVars, sendVars>>

\* SIGTERM or SIGKILL has its effect on the child whose pid the record named;
\* others that have its terminal open may or may not get the signal too.
TerminateChild(h) ==
  /\ halt[h] = "terminate"
  /\ ChildExists(aim[h].child)
  /\ IF child[aim[h].child] = "alive"
     THEN /\ child' = [child EXCEPT ![aim[h].child] = "zombie"]
          /\ \E open \in {TRUE, FALSE} :
               terminal' = [terminal EXCEPT ![aim[h].child] = @ /\ open]
     ELSE UNCHANGED <<child, terminal>>
  /\ halt' = [halt EXCEPT ![h] = "await"]
  /\ UNCHANGED <<recordVars, run, fd, pipeVars, inputVars, aim, sendVars>>

NothingToTerminate(h) ==
  /\ halt[h] \in {"terminate", "await"}
  /\ ~ChildExists(aim[h].child)
  /\ halt' = [halt EXCEPT ![h] = "mark"]
  /\ UNCHANGED <<recordVars, runVars, pipeVars, inputVars, aim, sendVars>>

\* A child that its run does not reap in time: a stop fails, a start goes on.
ChildStays(h) ==
  /\ halt[h] = "await"
  /\ ChildExists(aim[h].child)
  /\ halt' = [halt EXCEPT ![h] = IF h = "start" THEN "mark" ELSE "done"]
  /\ UNCHANGED <<recordVars, runVars, pipeVars, inputVars, aim, sendVars>>

\* mark_stopped for generation g leaves other records and stopped ones alone.
MayMark(g) == record.gen = g /\ record.status # "stopped"
SaveStopped == SaveAndUnlock([copy EXCEPT !.status = "stopped"])

HaltEnds(h) ==
  /\ halt' = [halt EXCEPT ![h] = IF h = "start" THEN "idle" ELSE "done"]
  /\ aim' = [aim EXCEPT ![h] = NoSession]
  /\ start' = IF h = "start" THEN "idle" ELSE start

HaltSkips(h) ==
  /\ halt[h] = "mark" /\ ~Locked
  /\ ~MayMark(aim[h].gen)
  /\ HaltEnds(h)
  /\ UNCHANGED <<record, copy, gen, path, latest, runVars, pipeVars, inputVars,
                 sendVars>>

HaltLoads(h) ==
  /\ halt[h] = "mark"
  /\ MayMark(aim[h].gen)
  /\ LockAndLoad
  /\ halt' = [halt EXCEPT ![h] = "mark save"]
  /\ UNCHANGED <<record, gen, path, latest, start, runVars, pipeVars, inputVars, aim,
                 sendVars>>

HaltSaves(h) ==
  /\ halt[h] = "mark save"
  /\ SaveStopped
  /\ HaltEnds(h)
  /\ UNCHANGED <<gen, path, latest, runVars, pipeVars, inputVars, sendVars>>

-----------------------------------------------------------------------------
(* supervise_pty *)

Go(r, label) == run' = [run EXCEPT ![r] = label]

\* Mutant of check_run_live: a newer start is not noticed.
RunIsNotStopped(r) == record.status # "stopped"

\* check_run_live: by the number of the generation, whoever else has it.
RunIsLive(r) == record.gen = gen[r] /\ record.status # "stopped"

SpawnChild(r) ==
  /\ run[r] = "spawn"
  /\ child' = [child EXCEPT ![r] = "alive"]
  /\ terminal' = [terminal EXCEPT ![r] = TRUE]
  /\ Go(r, "record")
  /\ UNCHANGED <<recordVars, fd, pipeVars, inputVars, haltVars, sendVars>>

SpawnFails(r) ==
  /\ "spawn" \in Faults
  /\ run[r] = "spawn"
  /\ Go(r, "mark")
  /\ UNCHANGED <<recordVars, child, terminal, fd, pipeVars, inputVars, haltVars,
                 sendVars>>

RecordLoads(r) ==
  /\ run[r] = "record"
  /\ RunIsLive(r)
  /\ LockAndLoad
  /\ Go(r, "record save")
  /\ UNCHANGED <<record, gen, path, latest, start, child, terminal, fd, pipeVars,
                 inputVars, haltVars, sendVars>>

\* The pid is dropped when the start time of the process cannot be read.
RecordSaves(r) ==
  /\ run[r] = "record save"
  /\ \E pid \in {r, None} :
       /\ pid = r \/ child[r] # "alive"
       /\ SaveAndUnlock([copy EXCEPT !.child = pid])
  /\ Go(r, "open")
  /\ UNCHANGED <<gen, path, latest, start, child, terminal, fd, pipeVars, inputVars,
                 haltVars, sendVars>>

\* Mutant: the FIFO is left for the forwarder thread to open.
OpenFifoLater(r) ==
  /\ run[r] = "open"
  /\ path # None
  /\ Go(r, "promote")
  /\ UNCHANGED <<recordVars, child, terminal, fd, pipeVars, inputVars, haltVars,
                 sendVars>>

\* By its path, whosever FIFO it now leads to.
OpenFifo(r) ==
  /\ run[r] = "open"
  /\ path # None
  /\ fd' = [fd EXCEPT ![r] = path]
  /\ Go(r, "promote")
  /\ UNCHANGED <<recordVars, child, terminal, pipeVars, inputVars, haltVars,
                 sendVars>>

PromoteLoads(r) ==
  /\ run[r] = "promote"
  /\ RunIsLive(r)
  /\ LockAndLoad
  /\ Go(r, "promote save")
  /\ UNCHANGED <<record, gen, path, latest, start, child, terminal, fd, pipeVars,
                 inputVars, haltVars, sendVars>>

PromoteSaves(r) ==
  /\ run[r] = "promote save"
  /\ SaveAndUnlock([copy EXCEPT !.status = "running"])
  /\ Go(r, "setup")
  /\ UNCHANGED <<gen, path, latest, start, child, terminal, fd, pipeVars, inputVars,
                 haltVars, sendVars>>

StartThreads(r) ==
  /\ run[r] = "setup"
  /\ forward' = [forward EXCEPT ![r] = "read"]
  /\ source' = [source EXCEPT ![r] = fd[r]]
  /\ Go(r, "wait")
  /\ UNCHANGED <<recordVars, child, terminal, fd, pipeVars, hand, tty, got, stop,
                 haltVars, sendVars>>

\* Stopped or superseded, no FIFO on the path, no descriptor left: the closure
\* is left and closes the FIFO, while the child lives on.
SetupFails(r) ==
  /\ \/ run[r] \in {"record", "promote"} /\ ~Locked /\ ~RunIsLive(r)
     \/ run[r] = "open" /\ path = None
     \/ run[r] \in {"open", "setup"} /\ "setup" \in Faults
  /\ CloseFifo(r)
  /\ Go(r, "abort")
  /\ UNCHANGED <<recordVars, child, terminal, inputVars, haltVars, sendVars>>

\* child.wait fails: the forwarder is neither told to stop nor joined, and
\* keeps its FIFO.
WaitFails(r) ==
  /\ "wait" \in Faults
  /\ run[r] = "wait"
  /\ Go(r, "abort")
  /\ UNCHANGED <<recordVars, child, terminal, fd, pipeVars, inputVars, haltVars,
                 sendVars>>

\* Then the child is killed and reaped; others may keep its terminal open.
Abort(r) ==
  /\ run[r] = "abort"
  /\ child' = [child EXCEPT ![r] = "reaped"]
  /\ \E open \in {TRUE, FALSE} : terminal' = [terminal EXCEPT ![r] = @ /\ open]
  /\ Go(r, "mark")
  /\ UNCHANGED <<recordVars, fd, pipeVars, inputVars, haltVars, sendVars>>

\* child.wait returns; the forwarder is told to stop.
ReapChild(r) ==
  /\ run[r] = "wait"
  /\ child[r] = "zombie"
  /\ child' = [child EXCEPT ![r] = "reaped"]
  /\ stop' = [stop EXCEPT ![r] = TRUE]
  /\ Go(r, "join")
  /\ UNCHANGED <<recordVars, terminal, fd, pipeVars, forward, hand, tty, got, source,
                 haltVars, sendVars>>

\* Mutant: the forwarder is told to stop but not waited for.
JoinNot(r) ==
  /\ run[r] = "join"
  /\ Go(r, "mark")
  /\ UNCHANGED <<recordVars, child, terminal, fd, pipeVars, inputVars, haltVars,
                 sendVars>>

\* Joined; the PTY is closed (its output is drained for two seconds at most).
JoinForwarder(r) ==
  /\ run[r] = "join"
  /\ forward[r] = "done"
  /\ terminal' = [terminal EXCEPT ![r] = FALSE]
  /\ tty' = [tty EXCEPT ![r] = <<>>]
  /\ Go(r, "mark")
  /\ UNCHANGED <<recordVars, child, fd, pipeVars, forward, hand, got, stop, source,
                 haltVars, sendVars>>

RunSkips(r) ==
  /\ run[r] = "mark" /\ ~Locked
  /\ ~MayMark(gen[r])
  /\ Go(r, "done")
  /\ UNCHANGED <<recordVars, child, terminal, fd, pipeVars, inputVars, haltVars,
                 sendVars>>

RunLoads(r) ==
  /\ run[r] = "mark"
  /\ MayMark(gen[r])
  /\ LockAndLoad
  /\ Go(r, "mark save")
  /\ UNCHANGED <<record, gen, path, latest, start, child, terminal, fd, pipeVars,
                 inputVars, haltVars, sendVars>>

RunSaves(r) ==
  /\ run[r] = "mark save"
  /\ SaveStopped
  /\ Go(r, "done")
  /\ UNCHANGED <<gen, path, latest, start, child, terminal, fd, pipeVars, inputVars,
                 haltVars, sendVars>>

-----------------------------------------------------------------------------
(* forward_input.  The stop flag is looked at once per round.              *)

\* Mutants: a read that blocks while the FIFO is empty; and a handle kept.
ForwarderStopsAfterInput(r) ==
  /\ forward[r] = "read" /\ stop[r]
  /\ fifo[fd[r]] # <<>>
  /\ forward' = [forward EXCEPT ![r] = "done"]
  /\ CloseFifo(r)
  /\ UNCHANGED <<recordVars, run, child, terminal, hand, tty, got, stop, source, haltVars,
                 sendVars>>

ForwarderStopsOnly(r) ==
  /\ forward[r] = "read" /\ stop[r]
  /\ forward' = [forward EXCEPT ![r] = "done"]
  /\ UNCHANGED <<recordVars, runVars, pipeVars, hand, tty, got, stop, source, haltVars,
                 sendVars>>

ForwarderStops(r) ==
  /\ forward[r] = "read" /\ stop[r]
  /\ forward' = [forward EXCEPT ![r] = "done"]
  /\ CloseFifo(r)
  /\ UNCHANGED <<recordVars, run, child, terminal, hand, tty, got, stop, source, haltVars,
                 sendVars>>

ForwarderReads(r) ==
  /\ forward[r] = "read" /\ ~stop[r]
  /\ fifo[fd[r]] # <<>>
  /\ LET n == Smaller(ReadSize, Len(fifo[fd[r]])) IN
     /\ hand' = [hand EXCEPT ![r] = SubSeq(fifo[fd[r]], 1, n)]
     /\ fifo' = [fifo EXCEPT ![fd[r]] = SubSeq(@, n + 1, Len(@))]
  /\ forward' = [forward EXCEPT ![r] = "write"]
  /\ UNCHANGED <<recordVars, runVars, written, tty, got, stop, source, haltVars,
                 sendVars>>

\* Mutant: write instead of write_all; what the PTY does not take is lost.
ForwarderWritesSome(r) ==
  /\ forward[r] = "write" /\ terminal[r]
  /\ LET n == Smaller(TtyCapacity - Len(tty[r]), Len(hand[r]))
     IN tty' = [tty EXCEPT ![r] = @ \o SubSeq(hand[r], 1, n)]
  /\ hand' = [hand EXCEPT ![r] = <<>>]
  /\ forward' = [forward EXCEPT ![r] = "read"]
  /\ UNCHANGED <<recordVars, runVars, pipeVars, got, stop, source, haltVars,
                 sendVars>>

\* write_all, piece by piece as the PTY takes them; the flag is not looked at.
ForwarderWrites(r) ==
  /\ forward[r] = "write" /\ terminal[r]
  /\ Len(tty[r]) < TtyCapacity
  /\ tty' = [tty EXCEPT ![r] = Append(@, Head(hand[r]))]
  /\ hand' = [hand EXCEPT ![r] = Tail(@)]
  /\ forward' = [forward EXCEPT ![r] = IF Len(hand[r]) = 1 THEN "read" ELSE "write"]
  /\ UNCHANGED <<recordVars, runVars, pipeVars, got, stop, source, haltVars,
                 sendVars>>

\* The write fails once nobody has the terminal open.
ForwarderFails(r) ==
  /\ forward[r] = "write" /\ ~terminal[r]
  /\ forward' = [forward EXCEPT ![r] = "done"]
  /\ hand' = [hand EXCEPT ![r] = <<>>]
  /\ CloseFifo(r)
  /\ UNCHANGED <<recordVars, run, child, terminal, tty, got, stop, source, haltVars,
                 sendVars>>

-----------------------------------------------------------------------------
(* The child and its terminal (external) *)

ChildReads(r) ==
  /\ child[r] = "alive" /\ terminal[r]
  /\ tty[r] # <<>>
  /\ got' = [got EXCEPT ![r] = Append(@, Head(tty[r]))]
  /\ tty' = [tty EXCEPT ![r] = Tail(@)]
  /\ UNCHANGED <<recordVars, runVars, pipeVars, forward, hand, stop, source, haltVars,
                 sendVars>>

\* What it has put into the background may keep the terminal open.
ChildExits(r) ==
  /\ child[r] = "alive"
  /\ child' = [child EXCEPT ![r] = "zombie"]
  /\ \E open \in {TRUE, FALSE} : terminal' = [terminal EXCEPT ![r] = @ /\ open]
  /\ UNCHANGED <<recordVars, run, fd, pipeVars, inputVars, haltVars, sendVars>>

\* The last background process ends.
TerminalCloses(r) ==
  /\ child[r] \in {"zombie", "reaped"} /\ terminal[r]
  /\ terminal' = [terminal EXCEPT ![r] = FALSE]
  /\ UNCHANGED <<recordVars, run, child, fd, pipeVars, inputVars, haltVars,
                 sendVars>>

-----------------------------------------------------------------------------
(* send_input and send_keys: write_session_bytes for the text and, after a *)
(* pause, all of it again for the Enter.                                   *)

Move(s, label) == send' = [send EXCEPT ![s] = label]

\* The record is looked at, then the FIFO is opened by its path.
SendLoads(s) ==
  /\ send[s] \in {"idle", "pause"}
  /\ part' = [part EXCEPT ![s] = IF send[s] = "idle" THEN "text" ELSE "enter"]
  /\ Move(s, IF record.status = "running" THEN "open" ELSE "failed")
  /\ UNCHANGED <<recordVars, runVars, pipeVars, inputVars, haltVars, left, wfd>>

SendFindsNoReader(s) ==
  /\ send[s] = "open"
  /\ path = None \/ ~HasReader(path)
  /\ Move(s, "failed")
  /\ UNCHANGED <<recordVars, runVars, pipeVars, inputVars, haltVars, part, left, wfd>>

SendOpens(s) ==
  /\ send[s] = "open"
  /\ path # None /\ HasReader(path)
  /\ wfd' = [wfd EXCEPT ![s] = path]
  /\ left' = [left EXCEPT ![s] = Bytes(s, part[s])]
  /\ Move(s, "write")
  /\ UNCHANGED <<recordVars, runVars, pipeVars, inputVars, haltVars, part>>

AfterPart(s) == IF part[s] = "text" /\ s \notin Unsubmitted THEN "pause" ELSE "done"

\* One more piece; after the last one the FIFO is closed, which has a reader.
Put(s) ==
  /\ fifo' = [fifo EXCEPT ![wfd[s]] = Append(@, Head(left[s]))]
  /\ written' = [written EXCEPT ![wfd[s]] = Append(@, Head(left[s]))]
  /\ left' = [left EXCEPT ![s] = Tail(@)]
  /\ IF Len(left[s]) = 1
     THEN wfd' = [wfd EXCEPT ![s] = None] /\ Move(s, AfterPart(s))
     ELSE UNCHANGED <<wfd, send>>

\* Mutant: O_NONBLOCK is left set, and what does not fit is not sent.
SendWritesWhatFits(s) ==
  /\ send[s] = "write" /\ HasReader(wfd[s])
  /\ IF Len(fifo[wfd[s]]) < FifoCapacity
     THEN Put(s)
     ELSE /\ left' = [left EXCEPT ![s] = <<>>]
          /\ wfd' = [wfd EXCEPT ![s] = None]
          /\ Move(s, AfterPart(s))
          /\ UNCHANGED pipeVars
  /\ UNCHANGED <<recordVars, runVars, inputVars, haltVars, part>>

\* The write blocks while the FIFO is full.
SendWrites(s) ==
  /\ send[s] = "write" /\ HasReader(wfd[s])
  /\ Len(fifo[wfd[s]]) < FifoCapacity
  /\ Put(s)
  /\ UNCHANGED <<recordVars, runVars, inputVars, haltVars, part>>

\* EPIPE
SendBreaks(s) ==
  /\ send[s] = "write" /\ ~HasReader(wfd[s])
  /\ SendCloses(s)
  /\ left' = [left EXCEPT ![s] = <<>>]
  /\ Move(s, "failed")
  /\ UNCHANGED <<recordVars, runVars, inputVars, haltVars, part>>

-----------------------------------------------------------------------------
(* The system *)

Init ==
  /\ record = NoSession /\ copy = NoSession
  /\ gen = [r \in Runs |-> 0] /\ source = [r \in Runs |-> None]
  /\ path = None /\ latest = 0 /\ start = "idle"
  /\ fifo = [r \in Runs |-> <<>>] /\ written = [r \in Runs |-> <<>>]
  /\ run = [r \in Runs |-> "idle"] /\ child = [r \in Runs |-> "none"]
  /\ terminal = [r \in Runs |-> FALSE] /\ fd = [r \in Runs |-> None]
  /\ forward = [r \in Runs |-> "off"] /\ stop = [r \in Runs |-> FALSE]
  /\ hand = [r \in Runs |-> <<>>] /\ tty = [r \in Runs |-> <<>>]
  /\ got = [r \in Runs |-> <<>>]
  /\ halt = [h \in Halters |-> "idle"] /\ aim = [h \in Halters |-> record]
  /\ send = [s \in Sends |-> "idle"] /\ part = [s \in Sends |-> "text"]
  /\ left = [s \in Sends |-> <<>>] /\ wfd = [s \in Sends |-> None]

StartSteps == \/ InitializeLoad \/ RemoveFifo \/ MakeFifo \/ InitializeSave
              \/ InitializeFails \/ StartAnswered \/ StartTimesOut

HaltSteps(h) == \/ TerminateChild(h) \/ NothingToTerminate(h) \/ ChildStays(h)
                \/ HaltSkips(h) \/ HaltLoads(h) \/ HaltSaves(h)

RunSteps(r) ==
  \/ SpawnChild(r) \/ SpawnFails(r) \/ RecordLoads(r) \/ RecordSaves(r) \/ OpenFifo(r)
  \/ PromoteLoads(r) \/ PromoteSaves(r) \/ StartThreads(r) \/ SetupFails(r)
  \/ Abort(r) \/ ReapChild(r) \/ JoinForwarder(r)
  \/ RunSkips(r) \/ RunLoads(r) \/ RunSaves(r)

ForwarderSteps(r) == \/ ForwarderStops(r) \/ ForwarderReads(r) \/ ForwarderWrites(r)
                     \/ ForwarderFails(r)

SendSteps(s) == \/ SendFindsNoReader(s) \/ SendOpens(s) \/ SendWrites(s)
                \/ SendBreaks(s)

Next ==
  \/ StartBegins \/ StartSteps
  \/ \E k \in Stops : StopBegins(k)
  \/ \E h \in Halters : HaltSteps(h)
  \/ \E r \in Runs : \/ RunSteps(r) \/ WaitFails(r) \/ ForwarderSteps(r)
                     \/ ChildReads(r) \/ ChildExits(r) \/ TerminalCloses(r)
  \/ \E s \in Sends : SendLoads(s) \/ SendSteps(s)

Spec == Init /\ [][Next]_vars

\* Threads are scheduled and a begun request goes on.  Requests need not come,
\* waiting for a child need not fail; children need not read or end, and
\* background processes need not leave.
Scheduling ==
  /\ WF_vars(StartSteps)
  /\ \A h \in Halters : WF_vars(HaltSteps(h))
  /\ \A r \in Runs : WF_vars(RunSteps(r)) /\ WF_vars(ForwarderSteps(r))
  /\ \A s \in Sends : WF_vars(SendSteps(s))
                      /\ WF_vars(send[s] = "pause" /\ SendLoads(s))

FairSpec == Spec /\ Scheduling

-----------------------------------------------------------------------------
(* Properties *)

Statuses  == {"none", "starting", "running", "stopped"}
RecordType == [status : Statuses, gen : Nat, child : Runs \cup {None}]

\* Types of the record, the threads, the FIFOs and the requests.  A forwarder
\* that is at work has a FIFO, and one that has read has something to write.
TypeOK ==
  /\ record \in RecordType /\ copy \in RecordType /\ gen \in [Runs -> Nat]
  /\ path \in Runs \cup {None} /\ latest \in Runs \cup {None}
  /\ start \in {"idle", "load", "remove", "make", "save", "await"}
  /\ start # "idle" => latest # None
  /\ run \in [Runs -> {"idle", "spawn", "record", "record save", "open", "promote",
                       "promote save", "setup", "wait", "abort", "join", "mark",
                       "mark save", "done"}]
  /\ child \in [Runs -> {"none", "alive", "zombie", "reaped"}]
  /\ terminal \in [Runs -> BOOLEAN] /\ stop \in [Runs -> BOOLEAN]
  /\ fd \in [Runs -> Runs \cup {None}] /\ source \in [Runs -> Runs \cup {None}]
  /\ forward \in [Runs -> {"off", "read", "write", "done"}]
  /\ halt \in [Halters -> {"idle", "terminate", "await", "mark", "mark save", "done"}]
  /\ aim \in [Halters -> RecordType]
  /\ send \in [Sends -> {"idle", "open", "write", "pause", "done", "failed"}]
  /\ part \in [Sends -> {"text", "enter"}]
  /\ wfd \in [Sends -> Runs \cup {None}]
  /\ fifo \in [Runs -> Seq(Pieces)] /\ written \in [Runs -> Seq(Pieces)]
  /\ hand \in [Runs -> Seq(Pieces)] /\ tty \in [Runs -> Seq(Pieces)]
  /\ got \in [Runs -> Seq(Pieces)] /\ left \in [Sends -> Seq(Pieces)]
  /\ \A r \in Runs : /\ forward[r] \in {"read", "write"} => fd[r] # None
                     /\ forward[r] = "write" <=> hand[r] # <<>>
  /\ \A s \in Sends : /\ send[s] = "write" <=> left[s] # <<>>
                      /\ send[s] = "write" <=> wfd[s] # None

\* A generation that no two runs have: see SessionLifecycle for how a number
\* comes to be given out twice.
OnlyOfItsGeneration(r) == \A q \in Runs \ {r} : gen[q] # gen[r]

\* A session on record as running whose child lives has the FIFO of its path
\* open for reading: a send that races a start, a stop or a restart never finds
\* such a session without a reader (the ENXIO window of supervise_pty), unless
\* its set-up has failed and its child is just about to be killed.
RunningHasReader ==
  \A r \in Runs :
    /\ record.status = "running" /\ record.child = r /\ child[r] = "alive"
    /\ OnlyOfItsGeneration(r)
    => (path # None /\ fd[r] = path) \/ run[r] = "abort"

\* The FIFO is opened by its path, yet a forwarder only ever works on the one
\* that its own start has made, since a run that is superseded is not promoted:
\* so it is as long as no other run has the number of its generation.
ForwardsOwnFifo ==
  \A r \in Runs :
    source[r] # None /\ OnlyOfItsGeneration(r) => source[r] = r

\* No other forwarder has been started on the FIFO of r's.
Unshared(r) == \A q \in Runs \ {r} : source[q] # source[r]

\* Whatever was put into a FIFO that is forwarded is, in that order and once,
\* what the child has read, what waits in its PTY, what the forwarder holds and
\* what is still in the FIFO: one forwarder that works alone on a FIFO loses,
\* doubles and reorders nothing while it works.
InputConserved ==
  \A r \in Runs : forward[r] \in {"read", "write"} /\ Unshared(r) =>
    written[fd[r]] = got[r] \o tty[r] \o hand[r] \o fifo[fd[r]]

\* A child that gets the Enter of a send got all of its text before, or none of
\* it (which went to the run before): write_session_bytes writes everything or
\* fails, so that no truncated line is submitted.  Two forwarders that share a
\* FIFO share its lines out.
NoTruncatedLine ==
  \A r \in Runs, s \in Sends : \A e \in DOMAIN got[r] :
    Unshared(r) /\ got[r][e] = <<s, Enter>> =>
      LET before == {i \in 1 .. Length(s) : \E d \in 1 .. e : got[r][d] = <<s, i>>}
      IN before = {} \/ before = 1 .. Length(s)

\* Once supervise_pty is over, its FIFO is closed and its forwarder has ended;
\* only if it could not wait for its child has it left a forwarder behind, which
\* was never told to stop, and which alone keeps the FIFO open.
ReleasedAtTheEnd ==
  \A r \in Runs : run[r] \in {"mark", "mark save", "done"} =>
    /\ fd[r] # None => forward[r] \in {"read", "write"}
    /\ forward[r] \in {"read", "write"} => ~stop[r]

\* The forwarder is blocked in a write to a terminal that is full.
Stuck(r) == forward[r] = "write" /\ terminal[r] /\ Len(tty[r]) = TtyCapacity

\* A run whose child has ended is marked in the end, or else its forwarder stays
\* blocked for ever on a terminal that others keep open and do not read: of all
\* that a run waits for, only this may never come.
RunsEnd ==
  \A r \in Runs :
    child[r] \in {"zombie", "reaped"}
      ~> (run[r] = "done" \/ [](run[r] = "join" /\ Stuck(r)))

\* Every send is answered, whatever becomes of the session, unless it stays
\* blocked for ever on the FIFO of a forwarder that itself stays blocked.
SendsEnd ==
  \A s \in Sends :
    send[s] \in {"open", "write", "pause"}
      ~> (send[s] \in {"done", "failed"}
          \/ [](send[s] = "write" /\ \E r \in Runs : fd[r] = wfd[s] /\ Stuck(r)))

\* What has been put into the FIFO of a run is read by that run's child, unless
\* the child ends or leaves its terminal unread for ever.
InputIsRead ==
  \A r \in Runs, p \in Pieces :
    fd[r] = r /\ p \in Set(written[r])
      ~> (p \in Set(got[r]) \/ child[r] # "alive" \/ [](tty[r] # <<>>))

\* The forwarder polls its stop flag so that it can be joined when the child
\* exits (documented; it does not while it writes to a PTY that nobody reads).
ForwarderCanBeJoined ==
  \A r \in Runs : run[r] = "join" ~> run[r] # "join"
=============================================================================
