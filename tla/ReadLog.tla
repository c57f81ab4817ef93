------------------------------ MODULE ReadLog ------------------------------
(***************************************************************************)
(* From the PTY to the answer of `read`: the capture thread appends what   *)
(* it reads to raw.log and what AnsiCleaner leaves of it to clean.log; a   *)
(* client reads the last lines of one of them backwards meanwhile; and a   *)
(* restart may truncate the file under it and begin anew.                  *)
(***************************************************************************)
EXTENDS AnsiCleaner, TailFile

CONSTANT MaxGrowth  \* bound: bytes that come while a log is being read

ASSUME GrowthAssumption == MaxGrowth \in Nat

VARIABLES
  raw,       \* whether the client reads raw.log
  opened,    \* history: the stream when the reader opened the log
  truncated  \* history: a restart has truncated the logs since

vars == <<cleanerVars, reader, raw, opened, truncated>>

CleanLog == [k \in DOMAIN out |-> out[k][1]]
Log == IF raw THEN input ELSE CleanLog

\* capture_output, for one read of the PTY.
CaptureReads ==
  /\ reader.at \in {"open", "read"}
  /\ Feed
  /\ reader.at = "read" =>
       Len(input') <= MaxGrowth + (IF truncated THEN 0 ELSE Len(opened))
  /\ UNCHANGED <<reader, raw, opened, truncated>>

\* read_output_text
OpenLog ==
  /\ \E tail \in source.tails : Open(Log, tail)
  /\ opened' = input
  /\ UNCHANGED <<cleanerVars, raw, truncated>>

ReaderSteps ==
  /\ Reads(Log)
  /\ UNCHANGED <<cleanerVars, raw, opened, truncated>>

\* create_private_file in initialize_session_files; rotation has left the file
\* in place when it looked empty.  The new capture thread has a new filter.
Restart ==
  /\ reader.at = "read" /\ ~truncated
  /\ cleaner' = Fresh /\ out' = <<>> /\ input' = <<>>
  /\ truncated' = TRUE
  /\ UNCHANGED <<source, reader, raw, opened>>

Init ==
  /\ CleanerInit
  /\ reader = NotOpen
  /\ raw \in IF source.tails = {} THEN {FALSE} ELSE BOOLEAN
  /\ opened = <<>> /\ truncated = FALSE

Next == CaptureReads \/ OpenLog \/ ReaderSteps \/ Restart

Spec == Init /\ [][Next]_vars

-----------------------------------------------------------------------------
(* Properties *)

TypeOK ==
  /\ CleanerTypeOK
  /\ reader.at \in {"open", "read", "done", "failed"}
  /\ Floor(reader) <= reader.pos \/ reader.pos = 0
  /\ reader.pos <= reader.len
  /\ Len(reader.collected) <= MAX_BYTES

\* Whatever the chunks, the clean log is what is to be left of the bytes: no
\* sequence leaves a trace because of where a read ended, and no text is lost.
CleanedAsWhole == CleanLog = Text(input)

\* While the log is only appended to, a read is answered, and with the last lines
\* of what the log held when it was opened, the bytes of the terminal or the text
\* of them, whatever the boundaries of chunks and blocks and however much comes
\* meanwhile; only the first line may be cut, and only when MAX_BYTES does not
\* reach back to its start.
TailIsWhole ==
  LET held == IF raw THEN opened ELSE Text(opened)
      reach == SubSeq(held, Floor(reader) + 1, reader.len)
  IN ~truncated =>
       /\ reader.at # "failed"
       /\ reader.at = "done" =>
            /\ reader.lines = TailLines(reach, reader.tail)
            /\ Newlines(reach) > reader.tail \/ Floor(reader) = 0 =>
                 reader.lines = TailLines(held, reader.tail)
=============================================================================
