------------------------------ MODULE TailFile ------------------------------
(***************************************************************************)
(* tail_file, behind `read`: the last lines of a file, collected backwards *)
(* block by block.  ReadLog composes this with the file's writers; here w  *)
(* is what the file holds at the moment of a step: a sequence of bytes,    *)
(* among them "lf" and "cr".                                               *)
(***************************************************************************)
EXTENDS Naturals, Sequences, SequencesExt, FiniteSetsExt

CONSTANTS
  BLOCK,      \* bytes per read
  MAX_BYTES   \* the reader goes no further back than that

ASSUME TailAssumption == BLOCK \in Nat \ {0} /\ MAX_BYTES \in Nat \ {0}

VARIABLE reader  \* the tail_file call

Newlines(w) == Quantify(DOMAIN w, LAMBDA i : w[i] = "lf")
Floor(r) == IF r.len > MAX_BYTES THEN r.len - MAX_BYTES ELSE 0

-----------------------------------------------------------------------------
(* tail_lines: str::lines takes CR LF for LF, and what follows the last    *)
(* line feed for a line unless it is empty                                 *)

\* Where lines begin, and the line that begins at i.
Begins(w) == {i \in DOMAIN w : i = 1 \/ w[i - 1] = "lf"}

Line(w, i) ==
  LET ends == {j \in DOMAIN w : j >= i /\ w[j] = "lf"}
      end == IF ends = {} THEN Len(w) + 1 ELSE Min(ends)
  IN SubSeq(w, i, IF ends # {} /\ end > i /\ w[end - 1] = "cr" THEN end - 2 ELSE end - 1)

\* The element of S that k elements of S do not exceed.
Nth(S, k) == CHOOSE i \in S : Cardinality({j \in S : j <= i}) = k

Lines(w) == [k \in 1 .. Cardinality(Begins(w)) |-> Line(w, Nth(Begins(w), k))]

TailLines(w, tail) ==
  LET lines == Lines(w)
      start == IF Len(lines) > tail THEN Len(lines) - tail ELSE 0
  IN SubSeq(lines, start + 1, Len(lines))

-----------------------------------------------------------------------------
(* tail_file *)

NotOpen == [at |-> "open", tail |-> 0, len |-> 0, pos |-> 0, newlines |-> 0,
            collected |-> <<>>, lines |-> <<>>]

Open(w, tail) ==
  /\ reader.at = "open"
  /\ reader' = [reader EXCEPT !.at = "read", !.tail = tail,
                              !.len = Len(w), !.pos = Len(w)]

Answers(r, lines) == [r EXCEPT !.at = "done", !.lines = lines]

NothingToRead ==
  /\ reader.at = "read" /\ (reader.len = 0 \/ reader.tail = 0)
  /\ reader' = Answers(reader, <<>>)

\* Mutant: stops at as many newlines as lines.
EnoughTooSoon(r) == r.newlines >= r.tail

Enough(r) == r.newlines > r.tail

ReadSize(r) == Min({BLOCK, r.pos - Floor(r)})
More(r) == r.at = "read" /\ r.len > 0 /\ r.tail > 0 /\ r.pos > Floor(r) /\ ~Enough(r)

ReadBlock(w) ==
  LET block == SubSeq(w, reader.pos - ReadSize(reader) + 1, reader.pos)
  IN /\ More(reader)
     /\ reader.pos <= Len(w)
     /\ reader' = [reader EXCEPT !.pos = @ - ReadSize(reader),
                                 !.collected = block \o @,
                                 !.newlines = @ + Newlines(block)]

\* read_exact meets the end of a file that has become shorter.
ReadFails(w) ==
  /\ More(reader)
  /\ reader.pos > Len(w)
  /\ reader' = [reader EXCEPT !.at = "failed"]

Finish ==
  /\ reader.at = "read" /\ reader.len > 0 /\ reader.tail > 0 /\ ~More(reader)
  /\ reader' = Answers(reader, TailLines(reader.collected, reader.tail))

Reads(w) == NothingToRead \/ ReadBlock(w) \/ ReadFails(w) \/ Finish
=============================================================================
