---------------------------- MODULE AnsiCleaner ----------------------------
(***************************************************************************)
(* The filter between the PTY and clean.log: AnsiCleaner, fed with a       *)
(* stream of bytes in chunks of any size, against a definition of what is  *)
(* to be left of the whole stream.                                         *)
(*                                                                         *)
(* A byte is represented by its class: the filter tells no more apart.     *)
(* "[", "]" and "\\" are themselves, "P" stands for P, X, ^ and _, "inter"  *)
(* for 0x20-0x2f, "param" for 0x30-0x3f, "letter" for the rest of          *)
(* 0x40-0x7e, "bel" for BEL and, outside OSC, all other controls, and      *)
(* "other" for tabs and bytes of UTF-8 sequences.                          *)
(*                                                                         *)
(* ReadLog composes this with the reader of the logs.                      *)
(***************************************************************************)
EXTENDS Naturals, Sequences, SequencesExt, FiniteSetsExt

CONSTANTS
  Sources,   \* what may come: sets of classes, each with a bound on the length
             \* and the numbers of lines that may be asked for
  MaxChunk   \* bound: bytes per read

Classes == {"esc", "[", "]", "P", "\\", "inter", "param", "letter",
            "bel", "cr", "lf", "other"}

ASSUME CleanerAssumption ==
  /\ \A s \in Sources :
       s.classes \subseteq Classes /\ s.length \in Nat /\ s.tails \subseteq Nat
  /\ MaxChunk \in Nat \ {0}

VARIABLES
  cleaner,  \* the AnsiCleaner: parser state, deferred CR
  out,      \* what has been appended to clean.log: bytes, and for each the
            \* number of the input byte that it comes from
  input,    \* the bytes so far, all of which are in raw.log
  source    \* which of Sources they are taken from

cleanerVars == <<cleaner, out, input, source>>

CsiFinal == {"[", "]", "P", "\\", "letter"}   \* 0x40-0x7e
EscFinal == CsiFinal \cup {"param"}           \* 0x30-0x7e

-----------------------------------------------------------------------------
(* AnsiCleaner::step on a filter f = [state, pending, out, count]          *)

Enter(f, state) == [f EXCEPT !.state = state]
Emit(f, b, at) == [f EXCEPT !.out = Append(@, <<b, at>>)]

\* A deferred CR becomes a line feed of its own.
Flush(f) == IF f.pending THEN [Emit(f, "lf", f.count) EXCEPT !.pending = FALSE] ELSE f

\* After CR, LF has been emitted already.
Ground(f, b) ==
  LET g == Flush(f)
      n == f.count + 1
  IN CASE f.pending /\ b = "lf" -> g
       [] b = "cr"  -> [g EXCEPT !.pending = TRUE]
       [] b = "bel" -> g
       [] OTHER     -> Emit(g, b, n)

Escape(f, b) ==
  Enter(f, CASE b = "["     -> "csi"
             [] b = "]"     -> "osc"
             [] b = "P"     -> "string"
             [] b = "inter" -> "intermediate"
             [] OTHER       -> "ground")

\* Mutant: ESC is an ordinary byte within a sequence.
StepWithoutCancel(f, b) ==
  CASE f.state = "ground" /\ b = "esc" -> Enter(Flush(f), "escape")
    [] f.state = "ground" -> Ground(f, b)
    [] f.state = "escape" -> Escape(f, b)
    [] f.state = "csi" /\ b \in CsiFinal -> Enter(f, "ground")
    [] f.state = "osc" /\ b = "bel" -> Enter(f, "ground")
    [] f.state \in {"osc", "string"} /\ b = "esc" -> Enter(f, "st")
    [] f.state = "st" -> Enter(f, "ground")
    [] OTHER -> f

\* Mutant: ESC abandons the text with a CR still deferred.
StepKeepsCr(f, b) ==
  IF b = "esc" /\ f.state = "ground" THEN Enter(f, "escape") ELSE StepWithoutCancel(f, b)

\* ESC cancels any sequence but OSC and strings, where it begins their end.
Step(f, b) ==
  CASE b = "esc" /\ f.state \notin {"osc", "string", "st"} ->
         Enter(Flush(f), "escape")
    [] b # "esc" /\ f.state = "ground" -> Ground(f, b)
    [] b # "esc" /\ f.state = "escape" -> Escape(f, b)
    [] f.state = "intermediate" /\ b \in EscFinal -> Enter(f, "ground")
    [] f.state = "csi" /\ b \in CsiFinal -> Enter(f, "ground")
    [] f.state = "osc" /\ b = "bel" -> Enter(f, "ground")
    [] f.state \in {"osc", "string"} /\ b = "esc" -> Enter(f, "st")
    [] f.state = "st" -> Enter(f, "ground")
    [] OTHER -> f

\* What the filter has become, and left, when fed with a chunk.
Fed(f, chunk) ==
  LET after[n \in 0 .. Len(chunk)] ==
        IF n = 0 THEN f ELSE [Step(after[n - 1], chunk[n]) EXCEPT !.count = @ + 1]
  IN after[Len(chunk)]

\* Mutant: each call begins with a fresh parser.
CleanAfresh(chunk) ==
  LET result == Fed([state |-> "ground", pending |-> FALSE,
                     out |-> <<>>, count |-> Len(input)], chunk)
  IN /\ cleaner' = [state |-> result.state, pending |-> result.pending]
     /\ out' = out \o result.out
     /\ input' = input \o chunk
     /\ UNCHANGED source

\* AnsiCleaner::clean: the parser goes on where the last call left it.
Clean(chunk) ==
  LET result == Fed([state |-> cleaner.state, pending |-> cleaner.pending,
                     out |-> <<>>, count |-> Len(input)], chunk)
  IN /\ cleaner' = [state |-> result.state, pending |-> result.pending]
     /\ out' = out \o result.out
     /\ input' = input \o chunk
     /\ UNCHANGED source

Fresh == [state |-> "ground", pending |-> FALSE]

CleanerInit ==
  /\ cleaner = Fresh
  /\ out = <<>> /\ input = <<>>
  /\ source \in Sources

\* A chunk of the PTY's output.
Feed ==
  \E n \in 1 .. MaxChunk : \E chunk \in [1 .. n -> source.classes] :
    Len(input) + n <= source.length /\ Clean(chunk)

-----------------------------------------------------------------------------
(* What is to be left of w.  Sequence(w, i, j) says that the escape        *)
(* sequence begun at i is complete with j; a sequence that is not an OSC   *)
(* or a string ends without being complete before the next ESC.            *)

None(w, i, j, classes) == \A k \in i .. j : w[k] \notin classes

Body(w, i, j) == None(w, i + 2, j - 1, {"esc"})
StringEnds(w, i, j) == j > i + 2 /\ w[j - 1] = "esc" /\ None(w, i + 2, j - 2, {"esc"})

Sequence(w, i, j) ==
  /\ w[i] = "esc" /\ j > i
  /\ CASE w[i + 1] = "["     -> /\ j > i + 1 /\ w[j] \in CsiFinal
                                /\ Body(w, i, j) /\ None(w, i + 2, j - 1, CsiFinal)
       [] w[i + 1] = "inter" -> /\ j > i + 1 /\ w[j] \in EscFinal
                                /\ Body(w, i, j) /\ None(w, i + 2, j - 1, EscFinal)
       [] w[i + 1] = "]"     -> /\ \/ j > i + 1 /\ w[j] = "bel" /\ Body(w, i, j)
                                   \/ StringEnds(w, i, j)
                                /\ None(w, i + 2, j - 1, {"bel"})
       [] w[i + 1] = "P"     -> StringEnds(w, i, j)
       [] w[i + 1] = "esc"   -> FALSE
       [] OTHER              -> j = i + 1

Cancelled(w, i, j) ==
  /\ j < Len(w) /\ w[j + 1] = "esc"
  /\ \/ j = i
     \/ w[i + 1] \in {"[", "inter"} /\ j > i /\ None(w, i + 1, j, {"esc"})

\* The first position after the sequence begun at i.
After(w, i) ==
  LET ends == {j \in i .. Len(w) : Sequence(w, i, j) \/ Cancelled(w, i, j)}
  IN IF ends = {} THEN Len(w) + 1 ELSE Min(ends) + 1

\* CR LF is one line end, another CR is one as well, once it is known not to
\* be followed by LF; other controls are dropped.
Visible(w, i) ==
  CASE w[i] = "cr" -> IF i = Len(w) \/ w[i + 1] = "lf" THEN <<>> ELSE <<"lf">>
    [] w[i] = "bel" -> <<>>
    [] OTHER -> <<w[i]>>

Text(w) ==
  LET from[i \in 1 .. Len(w) + 1] ==
        IF i > Len(w) THEN <<>>
        ELSE IF w[i] = "esc" THEN from[After(w, i)]
        ELSE Visible(w, i) \o from[i + 1]
  IN from[1]

-----------------------------------------------------------------------------
(* Properties *)

\* A CR is deferred only in text, so that no sequence can swallow it, and what
\* is appended is in the order of the input.
CleanerTypeOK ==
  /\ cleaner.state \in {"ground", "escape", "intermediate", "csi", "osc",
                        "string", "st"}
  /\ cleaner.pending => cleaner.state = "ground"
  /\ \A j, k \in DOMAIN out : j < k => out[j][2] < out[k][2]

\* clean.rs:51: a truncated or aborted sequence never leaks its tail as literal
\* text; and no byte of a complete CSI sequence is text.
NoSequenceLeaks ==
  \A i, j \in DOMAIN input :
    /\ i + 1 < j /\ input[i] = "esc" /\ input[i + 1] = "["
    /\ input[j] \in CsiFinal /\ None(input, i + 2, j - 1, Classes \ {"param", "inter"})
    => \A k \in DOMAIN out : out[k][2] \notin i .. j
=============================================================================
