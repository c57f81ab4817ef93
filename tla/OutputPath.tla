----------------------------- MODULE OutputPath -----------------------------
(***************************************************************************)
(* The way of a session's output, from the PTY through the capture thread  *)
(* into the logs and the screen snapshot, while the session is restarted:  *)
(*                                                                         *)
(*    child ---> PTY ---> capture_output ---> raw.log, clean.log,          *)
(*                                            screen.txt                   *)
(*                                                                         *)
(* One session name, owned by the daemon, where a restart may begin as     *)
(* soon as the old child is reaped: start r makes run r.  A log is opened  *)
(* by its path, but a renamed file is still the file of those that have it *)
(* open.  A piece of output is <<run, number>>.                            *)
(*                                                                         *)
(* A run promotes as soon as it is spawned: what may go wrong before that  *)
(* is in SessionLifecycle.  The forwarder is in InputPath, where it may    *)
(* block for ever: here it is joined at some time, or never.               *)
(***************************************************************************)
EXTENDS Naturals, Sequences, SequencesExt

CONSTANTS
  MaxRuns,      \* bound: how often the session is started
  MaxOutput,    \* bound: pieces of output per run
  Escapes,      \* those of 1 .. MaxOutput that leave nothing in the clean log
  PtyCapacity,  \* pieces that a PTY holds until they are read
  Faults        \* a subset of {"sinks", "capture", "wait"}: writes to the logs
                \* and the screen may fail, capture threads may meet an error,
                \* and so may the wait for the child

ASSUME OutputAssumption ==
  /\ MaxRuns \in Nat \ {0} /\ MaxOutput \in Nat /\ PtyCapacity \in Nat \ {0}
  /\ Escapes \subseteq 1 .. MaxOutput
  /\ Faults \subseteq {"sinks", "capture", "wait"}

Runs == 1 .. MaxRuns
Logs == {"raw", "clean"}
None == 0
Blank == [run |-> None, shown |-> 0]

VARIABLES
  latest,   \* the last start
  start,    \* where it is; it holds start.lock unless it is <<"idle">>
  path,     \* the file each log's name leads to
  prev,     \* the file each log's .prev name leads to
  file,     \* what each file ever created holds, in order of creation
  screen,   \* screen.txt: whose output it shows, and how many pieces of it
  erased,   \* history: pieces that were in a log when it was truncated
  run,      \* where each run's supervise_pty is
  child,    \* each run's process
  held,     \* whether background processes have each run's terminal open
  said,     \* how many pieces have been written to each terminal
  pty,      \* what waits in each PTY to be read
  capture,  \* where each run's capture thread is
  fd,       \* the files it has open
  hand,     \* the chunk it has read
  shown,    \* how many pieces its terminal emulator has processed
  lossy,    \* history: the logs in which a write of it has failed
  stop      \* each run's output_stop flag

startVars   == <<latest, start>>
fileVars    == <<path, prev, file, screen, erased>>
childVars   == <<child, held, said>>
captureVars == <<capture, fd, hand, shown, lossy>>
vars == <<startVars, fileVars, run, childVars, pty, captureVars, stop>>

-----------------------------------------------------------------------------
(* initialize_session_files, with start.lock held.  A child that has ended *)
(* keeps the session active until its run has waited for it.               *)

SessionIsActive == \E r \in Runs : child[r] \in {"alive", "zombie"}

AfterRotation(log) ==
  IF log = "raw" THEN <<"rotate", "clean">> ELSE <<"create", "raw">>

StartBegins ==
  /\ start = <<"idle">> /\ latest < MaxRuns /\ ~SessionIsActive
  /\ latest' = latest + 1
  /\ start' = <<"rotate", "raw">>
  /\ UNCHANGED <<fileVars, run, childVars, pty, captureVars, stop>>

\* rotate_previous_log looks at the length, and then renames.
Rotate(log) ==
  /\ start = <<"rotate", log>>
  /\ start' = IF path[log] # None /\ file[path[log]] # <<>>
              THEN <<"rename", log>> ELSE AfterRotation(log)
  /\ UNCHANGED <<latest, fileVars, run, childVars, pty, captureVars, stop>>

\* Mutant: the log is linked to its .prev name and not moved there.
RenameNot(log) ==
  /\ start = <<"rename", log>>
  /\ prev' = [prev EXCEPT ![log] = path[log]]
  /\ start' = AfterRotation(log)
  /\ UNCHANGED <<latest, path, file, screen, erased, run, childVars, pty,
                 captureVars, stop>>

Rename(log) ==
  /\ start = <<"rename", log>>
  /\ prev' = [prev EXCEPT ![log] = path[log]]
  /\ path' = [path EXCEPT ![log] = None]
  /\ start' = AfterRotation(log)
  /\ UNCHANGED <<latest, file, screen, erased, run, childVars, pty, captureVars,
                 stop>>

\* create_private_file: a file that is still there is truncated.
Create(log) ==
  /\ start = <<"create", log>>
  /\ IF path[log] = None
     THEN /\ file' = Append(file, <<>>)
          /\ path' = [path EXCEPT ![log] = Len(file')]
          /\ UNCHANGED erased
     ELSE /\ file' = [file EXCEPT ![path[log]] = <<>>]
          /\ erased' = erased \cup ToSet(file[path[log]])
          /\ UNCHANGED path
  /\ start' = IF log = "raw" THEN <<"create", "clean">> ELSE <<"screen">>
  /\ UNCHANGED <<latest, prev, screen, run, childVars, pty, captureVars, stop>>

CreateScreen ==
  /\ start = <<"screen">>
  /\ screen' = Blank
  /\ start' = <<"spawn">>
  /\ UNCHANGED <<latest, path, prev, file, erased, run, childVars, pty,
                 captureVars, stop>>

InitializeFails ==
  /\ start # <<"idle">>
  /\ start' = <<"idle">>
  /\ UNCHANGED <<latest, fileVars, run, childVars, pty, captureVars, stop>>

-----------------------------------------------------------------------------
(* supervise_pty, and the processes in its terminal                        *)

TerminalOpen(r) == child[r] = "alive" \/ held[r]

\* The child is spawned and promoted, its threads are started; the start returns.
RunBegins ==
  /\ start = <<"spawn">>
  /\ start' = <<"idle">>
  /\ run' = [run EXCEPT ![latest] = "wait"]
  /\ child' = [child EXCEPT ![latest] = "alive"]
  /\ capture' = [capture EXCEPT ![latest] = "open raw"]
  /\ UNCHANGED <<latest, fileVars, held, said, pty, fd, hand, shown, lossy, stop>>

\* Whoever has the terminal open writes as long as there is room.
Says(r) ==
  /\ TerminalOpen(r)
  /\ said[r] < MaxOutput /\ Len(pty[r]) < PtyCapacity
  /\ said' = [said EXCEPT ![r] = @ + 1]
  /\ pty' = [pty EXCEPT ![r] = Append(@, <<r, said'[r]>>)]
  /\ UNCHANGED <<startVars, fileVars, run, child, held, captureVars, stop>>

\* By itself or by a stop; what it has started may keep the terminal.
ChildExits(r) ==
  /\ child[r] = "alive"
  /\ child' = [child EXCEPT ![r] = "zombie"]
  /\ \E kept \in BOOLEAN : held' = [held EXCEPT ![r] = kept]
  /\ UNCHANGED <<startVars, fileVars, run, said, pty, captureVars, stop>>

TerminalCloses(r) ==
  /\ held[r]
  /\ held' = [held EXCEPT ![r] = FALSE]
  /\ UNCHANGED <<startVars, fileVars, run, child, said, pty, captureVars, stop>>

ReapChild(r) ==
  /\ run[r] = "wait" /\ child[r] = "zombie"
  /\ child' = [child EXCEPT ![r] = "reaped"]
  /\ run' = [run EXCEPT ![r] = "forwarder"]
  /\ UNCHANGED <<startVars, fileVars, held, said, pty, captureVars, stop>>

\* The child cannot be waited for: it is killed, and waited for once more.  The
\* capture thread is not told to stop, nor joined.
WaitFails(r) ==
  /\ "wait" \in Faults /\ run[r] = "wait"
  /\ run' = [run EXCEPT ![r] = "abort"]
  /\ UNCHANGED <<startVars, fileVars, childVars, pty, captureVars, stop>>

Abort(r) ==
  /\ run[r] = "abort"
  /\ child' = [child EXCEPT ![r] = "reaped"]
  /\ \E kept \in BOOLEAN :
       held' = [held EXCEPT ![r] = IF child[r] = "alive" THEN kept ELSE @]
  /\ run' = [run EXCEPT ![r] = "done"]
  /\ UNCHANGED <<startVars, fileVars, said, pty, captureVars, stop>>

\* input_thread.join returns.
ForwarderJoined(r) ==
  /\ run[r] = "forwarder"
  /\ run' = [run EXCEPT ![r] = "drain"]
  /\ UNCHANGED <<startVars, fileVars, childVars, pty, captureVars, stop>>

\* The capture thread has finished, or two seconds are over.
DrainEnds(r) ==
  /\ run[r] = "drain"
  /\ stop' = [stop EXCEPT ![r] = TRUE]
  /\ run' = [run EXCEPT ![r] = "join"]
  /\ UNCHANGED <<startVars, fileVars, childVars, pty, captureVars>>

Finished == {"eof", "stopped", "failed"}

Join(r) ==
  /\ run[r] = "join" /\ capture[r] \in Finished
  /\ run' = [run EXCEPT ![r] = "done"]
  /\ UNCHANGED <<startVars, fileVars, childVars, pty, captureVars, stop>>

-----------------------------------------------------------------------------
(* capture_output.  A look at the stop flag and the poll and read after it *)
(* are one step, and so is each write to a sink.                           *)

Capture(r, label) == capture' = [capture EXCEPT ![r] = label]

Opens == [raw |-> "open raw", clean |-> "open clean"]

\* For appending; a log whose name leads nowhere is created.
OpenLog(r, log) ==
  /\ capture[r] = Opens[log]
  /\ IF path[log] = None
     THEN /\ file' = Append(file, <<>>)
          /\ path' = [path EXCEPT ![log] = Len(file')]
     ELSE UNCHANGED <<file, path>>
  /\ fd' = [fd EXCEPT ![r][log] = path'[log]]
  /\ Capture(r, IF log = "raw" THEN "open clean" ELSE "read")
  /\ UNCHANGED <<startVars, prev, screen, erased, run, childVars, pty, hand,
                 shown, lossy, stop>>

\* Mutants: the flag is looked at only when no output can come any more; it is
\* also looked at between reading a chunk and writing it.
CaptureStopsWhenIdle(r) ==
  /\ capture[r] = "read" /\ stop[r] /\ pty[r] = <<>> /\ ~TerminalOpen(r)
  /\ Capture(r, "stopped")
  /\ UNCHANGED <<startVars, fileVars, run, childVars, pty, fd, hand, shown, lossy,
                 stop>>

CaptureStopsMidway(r) ==
  /\ capture[r] \in {"read", "raw"} /\ stop[r]
  /\ hand' = [hand EXCEPT ![r] = <<>>]
  /\ Capture(r, "stopped")
  /\ UNCHANGED <<startVars, fileVars, run, childVars, pty, fd, shown, lossy, stop>>

CaptureStops(r) ==
  /\ capture[r] = "read" /\ stop[r]
  /\ Capture(r, "stopped")
  /\ UNCHANGED <<startVars, fileVars, run, childVars, pty, fd, hand, shown, lossy,
                 stop>>

\* Mutant: a hangup is taken for the end of the output.
CaptureEndsAtHangup(r) ==
  /\ capture[r] = "read" /\ ~stop[r]
  /\ ~TerminalOpen(r)
  /\ Capture(r, "eof")
  /\ UNCHANGED <<startVars, fileVars, run, childVars, pty, fd, hand, shown, lossy,
                 stop>>

CaptureEnds(r) ==
  /\ capture[r] = "read" /\ ~stop[r]
  /\ pty[r] = <<>> /\ ~TerminalOpen(r)
  /\ Capture(r, "eof")
  /\ UNCHANGED <<startVars, fileVars, run, childVars, pty, fd, hand, shown, lossy,
                 stop>>

CaptureReads(r) ==
  /\ capture[r] = "read" /\ ~stop[r]
  /\ \E n \in 1 .. Len(pty[r]) :
       /\ hand' = [hand EXCEPT ![r] = SubSeq(pty[r], 1, n)]
       /\ pty' = [pty EXCEPT ![r] = SubSeq(@, n + 1, Len(@))]
  /\ Capture(r, "raw")
  /\ UNCHANGED <<startVars, fileVars, run, childVars, fd, shown, lossy, stop>>

\* What the filter leaves of a chunk, and of the first n pieces of it.
Cleaned(chunk) ==
  LET first[n \in 0 .. Len(chunk)] ==
        IF n = 0 THEN <<>>
        ELSE IF chunk[n][2] \in Escapes THEN first[n - 1]
        ELSE Append(first[n - 1], chunk[n])
  IN first[Len(chunk)]
Logged(log, chunk) == IF log = "raw" THEN chunk ELSE Cleaned(chunk)

\* The log takes n pieces of what it is given: all, or less if it fails.
TakesPieces(r, log, n) ==
  LET given == Logged(log, hand[r])
  IN /\ n = Len(given) \/ "sinks" \in Faults
     /\ file' = [file EXCEPT ![fd[r][log]] = @ \o SubSeq(given, 1, n)]
     /\ lossy' = [lossy EXCEPT ![r] = IF n < Len(given) THEN @ \cup {log} ELSE @]

AfterLog(log) == IF log = "raw" THEN "clean" ELSE "screen"

\* Mutants: a sink that failed gets the chunk again; it ends the thread.
WriteLogAgain(r, log) ==
  /\ capture[r] = log
  /\ \E n \in 0 .. Len(Logged(log, hand[r])) :
       /\ Len(file[fd[r][log]]) < 2 * MaxOutput
       /\ TakesPieces(r, log, n)
       /\ Capture(r, IF n < Len(Logged(log, hand[r])) THEN log ELSE AfterLog(log))
  /\ UNCHANGED <<startVars, path, prev, screen, erased, run, childVars, pty, fd,
                 hand, shown, stop>>

WriteLogOrDie(r, log) ==
  /\ capture[r] = log
  /\ \E n \in 0 .. Len(Logged(log, hand[r])) :
       /\ TakesPieces(r, log, n)
       /\ Capture(r, IF n < Len(Logged(log, hand[r])) THEN "stopped" ELSE AfterLog(log))
  /\ UNCHANGED <<startVars, path, prev, screen, erased, run, childVars, pty, fd,
                 hand, shown, stop>>

\* A sink that fails has taken a part of the chunk; the loop goes on.
WriteLog(r, log) ==
  /\ capture[r] = log
  /\ \E n \in 0 .. Len(Logged(log, hand[r])) : TakesPieces(r, log, n)
  /\ Capture(r, AfterLog(log))
  /\ UNCHANGED <<startVars, path, prev, screen, erased, run, childVars, pty, fd,
                 hand, shown, stop>>

WriteScreen(r) ==
  /\ capture[r] = "screen"
  /\ shown' = [shown EXCEPT ![r] = @ + Len(hand[r])]
  /\ hand' = [hand EXCEPT ![r] = <<>>]
  /\ \/ screen' = [run |-> r, shown |-> shown'[r]]
     \/ "sinks" \in Faults /\ UNCHANGED screen
  /\ Capture(r, "read")
  /\ UNCHANGED <<startVars, path, prev, file, erased, run, childVars, pty, fd,
                 lossy, stop>>

\* A log that cannot be opened, a poll or a read that fails.
CaptureBreaks(r) ==
  /\ "capture" \in Faults
  /\ capture[r] \in {"open raw", "open clean", "read"}
  /\ Capture(r, "failed")
  /\ UNCHANGED <<startVars, fileVars, run, childVars, pty, fd, hand, shown, lossy,
                 stop>>

-----------------------------------------------------------------------------
Init ==
  /\ latest = 0 /\ start = <<"idle">>
  /\ path = [log \in Logs |-> None] /\ prev = [log \in Logs |-> None]
  /\ file = <<>> /\ screen = Blank /\ erased = {}
  /\ run = [r \in Runs |-> "idle"] /\ child = [r \in Runs |-> "none"]
  /\ held = [r \in Runs |-> FALSE] /\ said = [r \in Runs |-> 0]
  /\ pty = [r \in Runs |-> <<>>] /\ capture = [r \in Runs |-> "none"]
  /\ fd = [r \in Runs |-> [log \in Logs |-> None]]
  /\ hand = [r \in Runs |-> <<>>] /\ shown = [r \in Runs |-> 0]
  /\ lossy = [r \in Runs |-> {}] /\ stop = [r \in Runs |-> FALSE]

StartSteps ==
  \/ StartBegins \/ CreateScreen \/ InitializeFails \/ RunBegins
  \/ \E log \in Logs : Rotate(log) \/ Rename(log) \/ Create(log)
TerminalSteps(r) == Says(r) \/ ChildExits(r) \/ TerminalCloses(r)
RunSteps(r) == ReapChild(r) \/ DrainEnds(r) \/ Join(r) \/ Abort(r)
RunMay(r) == WaitFails(r) \/ ForwarderJoined(r)
CaptureSteps(r) ==
  \/ CaptureStops(r) \/ CaptureEnds(r) \/ CaptureReads(r)
  \/ WriteScreen(r)
  \/ \E log \in Logs : OpenLog(r, log) \/ WriteLog(r, log)

Next ==
  \/ StartSteps
  \/ \E r \in Runs : \/ TerminalSteps(r) \/ RunSteps(r) \/ RunMay(r)
                    \/ CaptureSteps(r) \/ CaptureBreaks(r)

Spec == Init /\ [][Next]_vars

\* The threads of a run are scheduled, and poll; nothing has to go wrong, and
\* the forwarder need not end.
FairSpec == Spec /\ \A r \in Runs : WF_vars(RunSteps(r)) /\ WF_vars(CaptureSteps(r))

-----------------------------------------------------------------------------
(* Properties *)

Pieces == Runs \X (1 .. MaxOutput)
Said(r) == {r} \X (1 .. said[r])
Contents(i) == IF i = None THEN {} ELSE ToSet(file[i])
Places ==
  {<<"idle">>, <<"screen">>, <<"spawn">>} \cup {"rotate", "rename", "create"} \X Logs
Labels == {"none", "open raw", "open clean", "read", "raw", "clean", "screen"}
            \cup Finished

StartTypes == latest \in 0 .. MaxRuns /\ start \in Places

FileTypes ==
  /\ file \in Seq(Seq(Pieces)) /\ erased \subseteq Pieces
  /\ path \in [Logs -> 0 .. Len(file)] /\ prev \in [Logs -> 0 .. Len(file)]
  /\ fd \in [Runs -> [Logs -> 0 .. Len(file)]]

RunTypes ==
  /\ run \in [Runs -> {"idle", "wait", "abort", "forwarder", "drain", "join",
                     "done"}]
  /\ child \in [Runs -> {"none", "alive", "zombie", "reaped"}]
  /\ held \in [Runs -> BOOLEAN] /\ stop \in [Runs -> BOOLEAN]
  /\ said \in [Runs -> 0 .. MaxOutput]

CaptureTypes ==
  /\ pty \in [Runs -> Seq(Pieces)] /\ hand \in [Runs -> Seq(Pieces)]
  /\ \A r \in Runs : Len(pty[r]) <= PtyCapacity
  /\ capture \in [Runs -> Labels] /\ lossy \in [Runs -> SUBSET Logs]
  /\ screen \in [run : {None} \cup Runs, shown : Nat]
  /\ shown \in [Runs -> Nat]

\* Types: every file that is named or open has been created.
TypeOK == StartTypes /\ FileTypes /\ RunTypes /\ CaptureTypes

\* capture_output appends every chunk once and in the order the terminal
\* produced it, whatever sinks fail and wherever its files are moved: no
\* file has a run's output twice or out of order, and no other file has it.
LoggedInOrder ==
  \A i \in DOMAIN file :
    /\ \A j, k \in DOMAIN file[i] :
         j < k /\ file[i][j][1] = file[i][k][1] => file[i][j][2] < file[i][k][2]
    /\ \A piece \in Contents(i) : i \in {fd[piece[1]][log] : log \in Logs}

\* What a terminal has been given is in the raw log of its run, in the hands
\* of its capture thread or still in the PTY; nothing else becomes of it while
\* writes succeed, except that a restart truncates a log (see NothingErased).
OutputConserved ==
  \A r \in Runs :
    "raw" \notin lossy[r] =>
    Said(r) = {piece \in Contents(fd[r]["raw"]) \cup erased : piece[1] = r}
                \cup ToSet(pty[r]) \cup ToSet(hand[r])

\* A capture thread that has come to the end of the output has logged all of
\* it, in both logs, or could not write: before the drain is cut off nothing is
\* lost.
EofMeansComplete ==
  \A r \in Runs, log \in Logs :
    capture[r] = "eof" /\ log \notin lossy[r] =>
      {piece \in Said(r) : log = "clean" => piece[2] \notin Escapes}
        \subseteq Contents(fd[r][log]) \cup erased

\* rotate_previous_log keeps the old log: as long as a .prev name leads to a
\* file, that file loses nothing, whatever start and old capture thread do.
PrevKept ==
  [][\A log \in Logs :
       prev[log] # None /\ prev'[log] = prev[log] =>
         IsPrefix(file[prev[log]], file'[prev[log]])]_vars

\* Once the forwarder is joined the run ends, even if background processes keep
\* the terminal open, full or silent, for ever: the drain is bounded, and the
\* capture thread looks at its flag however much there is to read.
RunsEnd == \A r \in Runs : run[r] = "drain" ~> run[r] = "done"

\* The PTY of a living child is drained whatever sinks fail, so that the child
\* cannot block on it for ever (logs.rs:87, "must NOT abort the loop"); unless
\* the thread itself meets an error (see CaptureErrorStopsSession).
PtyDrained ==
  \A r \in Runs :
    (Len(pty[r]) = PtyCapacity /\ child[r] = "alive")
      ~> (Len(pty[r]) < PtyCapacity \/ child[r] # "alive" \/ capture[r] = "failed")

-----------------------------------------------------------------------------
(* What the code and its comments say and the runs refute *)

\* session.rs:279: restarting a session name does not silently discard the
\* previous run's transcript.
NothingErased == erased = {}

\* docs/HOW-IT-WORKS.md:138: screen.txt is the current rendered viewport.
\* Once the latest run has rendered, no older run's screen replaces its own.
ScreenIsCurrent ==
  \A r \in Runs :
    r = latest /\ run[r] = "wait" /\ shown[r] > 0 => screen.run = r

\* logs.rs:79: a read error is propagated so as to "let the session stop".  The
\* run goes on waiting for its child all the same.
CaptureErrorStopsSession ==
  \A r \in Runs : capture[r] = "failed" ~> run[r] # "wait"
=============================================================================
