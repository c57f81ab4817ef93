-------------------------- MODULE OutputPathProofs --------------------------
(***************************************************************************)
(* Proofs about OutputPath: output is logged once, in order and, while no  *)
(* write fails, as a whole, however restarts move and truncate the logs    *)
(* under the capture threads of earlier runs.                              *)
(***************************************************************************)
EXTENDS OutputPath, SequenceTheorems, WellFoundedInduction, TLAPS

-----------------------------------------------------------------------------
(* The inductive invariant *)

\* The files under a log's names and in the hands of its capture threads.
FilesOf(log) == {path[log], prev[log]} \cup {fd[r][log] : r \in Runs}

\* No file is two logs, nor a log and the previous run's log at once.
FilesInv ==
  /\ FilesOf("raw") \cap FilesOf("clean") \subseteq {None}
  /\ \A log \in Logs : path[log] = prev[log] => path[log] = None

\* The capture thread of a run comes with the run.
FreshInv ==
  /\ start # <<"idle">> => latest \in Runs /\ capture[latest] = "none"
  /\ \A r \in Runs : r > latest => capture[r] = "none"

\* Where a capture thread is tells what it has open and in its hands.
Phase(r) ==
  /\ capture[r] \in {"none", "open raw", "open clean"} => Len(pty[r]) = said[r]
  /\ capture[r] \in {"open clean", "read", "raw", "clean", "screen"} =>
       fd[r]["raw"] # None
  /\ capture[r] \in {"read", "raw", "clean", "screen"} => fd[r]["clean"] # None
  /\ capture[r] \notin {"raw", "clean", "screen"} => hand[r] = <<>>
  /\ capture[r] = "eof" => pty[r] = <<>> /\ ~TerminalOpen(r)

\* How many pieces the thread has read; how many of them it has given to a log.
Taken(r) == said[r] - Len(pty[r])
Given(r, log) == IF capture[r] \in {"raw", log} THEN Taken(r) - Len(hand[r]) ELSE Taken(r)

\* What the thread of supervise_pty does, whether or not it has to.
RunActs(r) == RunSteps(r) \/ RunMay(r)

\* The terminal's output comes in order.
Flow(r) ==
  /\ Len(hand[r]) <= Taken(r)
  /\ \A j \in 1 .. Len(pty[r]) : pty[r][j] = <<r, Taken(r) + j>>
  /\ \A j \in 1 .. Len(hand[r]) : hand[r][j] = <<r, Taken(r) - Len(hand[r]) + j>>

ThreadsInv == \A r \in Runs : Phase(r) /\ Flow(r)

\* A file has of a run's output only what that run's thread has given to it, in
\* order; what was truncated away had been said.
SortedInv ==
  /\ \A i \in 1 .. Len(file) : \A j, k \in 1 .. Len(file[i]) :
       j < k /\ file[i][j][1] = file[i][k][1] => file[i][j][2] < file[i][k][2]
  /\ \A i \in 1 .. Len(file) : \A piece \in Contents(i) :
       \E log \in Logs : i = fd[piece[1]][log] /\ piece[2] <= Given(piece[1], log)
  /\ \A piece \in erased : piece[2] <= said[piece[1]]

\* And it has all of that, if no write failed, but for escapes in the clean log.
CompleteInv ==
  \A r \in Runs, log \in Logs : log \notin lossy[r] =>
    \A n \in 1 .. Given(r, log) :
      (log = "clean" => n \notin Escapes) =>
        <<r, n>> \in Contents(fd[r][log]) \cup erased

-----------------------------------------------------------------------------
(* Sequences *)

LEMMA ConcatElements ==
  ASSUME NEW S, NEW s \in Seq(S), NEW t \in Seq(S)
  PROVE  /\ s \o t \in Seq(S) /\ Len(s \o t) = Len(s) + Len(t)
         /\ \A j \in 1 .. Len(s \o t) :
              (s \o t)[j] = IF j <= Len(s) THEN s[j] ELSE t[j - Len(s)]
         /\ ToSet(s \o t) = ToSet(s) \cup ToSet(t)
         /\ IsPrefix(s, s \o t)
<1>1. /\ s \o t \in Seq(S) /\ Len(s \o t) = Len(s) + Len(t)
      /\ \A j \in 1 .. Len(s \o t) :
           (s \o t)[j] = IF j <= Len(s) THEN s[j] ELSE t[j - Len(s)]
  BY ConcatProperties
<1>2. ASSUME NEW x \in ToSet(s \o t) PROVE x \in ToSet(s) \cup ToSet(t)
  <2>1. PICK j \in 1 .. Len(s \o t) : x = (s \o t)[j]
    BY <1>1 DEF ToSet
  <2>2. CASE j <= Len(s)
    BY <1>1, <2>1, <2>2 DEF ToSet
  <2>3. CASE j > Len(s)
    <3>1. j - Len(s) \in 1 .. Len(t)
      BY <1>1, <2>3
    <3> QED
      BY <1>1, <2>1, <2>3, <3>1 DEF ToSet
  <2> QED
    BY <1>1, <2>2, <2>3
<1>3. ASSUME NEW x \in ToSet(s) PROVE x \in ToSet(s \o t)
  BY <1>1 DEF ToSet
<1>4. ASSUME NEW x \in ToSet(t) PROVE x \in ToSet(s \o t)
  <2>1. PICK j \in 1 .. Len(t) : x = t[j]
    BY DEF ToSet
  <2>2. /\ Len(s) + j \in 1 .. Len(s \o t) /\ ~(Len(s) + j <= Len(s))
        /\ (Len(s) + j) - Len(s) = j
    BY <1>1
  <2>3. (s \o t)[Len(s) + j] = t[j]
    BY <1>1, <2>2
  <2>4. DOMAIN (s \o t) = 1 .. Len(s \o t)
    BY <1>1
  <2> QED
    BY <2>1, <2>2, <2>3, <2>4 DEF ToSet
<1>5. IsPrefix(s, s \o t)
  BY DEF IsPrefix
<1> QED
  BY <1>1, <1>2, <1>3, <1>4, <1>5

LEMMA FirstElements ==
  ASSUME NEW S, NEW s \in Seq(S), NEW n \in 0 .. Len(s)
  PROVE  /\ SubSeq(s, 1, n) \in Seq(S) /\ Len(SubSeq(s, 1, n)) = n
         /\ \A j \in 1 .. n : SubSeq(s, 1, n)[j] = s[j]
         /\ SubSeq(s, n + 1, Len(s)) \in Seq(S)
         /\ Len(SubSeq(s, n + 1, Len(s))) = Len(s) - n
         /\ \A j \in 1 .. Len(s) - n : SubSeq(s, n + 1, Len(s))[j] = s[n + j]
         /\ ToSet(SubSeq(s, 1, n)) \subseteq ToSet(s)
         /\ SubSeq(s, 1, Len(s)) = s
<1>1. /\ SubSeq(s, 1, n) \in Seq(S) /\ Len(SubSeq(s, 1, n)) = n
      /\ \A j \in 1 .. n : SubSeq(s, 1, n)[j] = s[j]
      /\ SubSeq(s, n + 1, Len(s)) \in Seq(S)
      /\ Len(SubSeq(s, n + 1, Len(s))) = Len(s) - n
      /\ \A j \in 1 .. Len(s) - n : SubSeq(s, n + 1, Len(s))[j] = s[n + j]
  OBVIOUS
<1>2. ToSet(SubSeq(s, 1, n)) \subseteq ToSet(s)
  <2>1. DOMAIN SubSeq(s, 1, n) = 1 .. n /\ DOMAIN s = 1 .. Len(s) /\ n <= Len(s)
    BY <1>1
  <2>2. ASSUME NEW x \in ToSet(SubSeq(s, 1, n)) PROVE x \in ToSet(s)
    <3>1. PICK j \in 1 .. n : x = SubSeq(s, 1, n)[j]
      BY <2>1 DEF ToSet
    <3>2. x = s[j]
      BY <1>1, <3>1
    <3>3. j \in DOMAIN s
      BY <2>1
    <3> QED
      BY <3>2, <3>3 DEF ToSet
  <2> QED
    BY <2>2
<1>3. SubSeq(s, 1, Len(s)) = s
  BY SubSeqFull
<1> QED
  BY <1>1, <1>2, <1>3

LEMMA AppendElements ==
  ASSUME NEW S, NEW s \in Seq(S), NEW x \in S
  PROVE  /\ Append(s, x) \in Seq(S) /\ Len(Append(s, x)) = Len(s) + 1
         /\ \A j \in 1 .. Len(s) : Append(s, x)[j] = s[j]
         /\ Append(s, x)[Len(s) + 1] = x
         /\ ToSet(Append(s, x)) = ToSet(s) \cup {x}
<1>1. /\ Append(s, x) \in Seq(S) /\ Len(Append(s, x)) = Len(s) + 1
      /\ \A j \in 1 .. Len(s) : Append(s, x)[j] = s[j]
      /\ Append(s, x)[Len(s) + 1] = x
  BY AppendProperties
<1>2. ToSet(Append(s, x)) = ToSet(s) \cup {x}
  <2>1. /\ DOMAIN Append(s, x) = 1 .. Len(s) + 1 /\ DOMAIN s = 1 .. Len(s)
        /\ Len(s) \in Nat
    BY <1>1
  <2> QED
    BY <1>1, <2>1 DEF ToSet
<1> QED
  BY <1>1, <1>2

LEMMA EmptyElements ==
  /\ \A S : <<>> \in Seq(S)
  /\ Len(<<>>) = 0 /\ ToSet(<<>>) = {}
  /\ \A S : \A s \in Seq(S) : s = <<>> <=> Len(s) = 0
BY EmptySeq DEF ToSet

-----------------------------------------------------------------------------
(* The filter *)

\* Induction, over a set of numbers.
LEMMA Induction ==
  ASSUME NEW T, 0 \in T, \A n \in Nat : n \in T => n + 1 \in T
  PROVE  Nat \subseteq T
<1> SUFFICES ASSUME Nat \ T # {} PROVE FALSE
  OBVIOUS
<1>1. PICK x \in Nat \ T : \A y \in Nat \ T : ~ (<<y, x>> \in OpToRel(<, Nat))
  BY NatLessThanWellFounded, WFMin
<1>2. \A y \in Nat \ T : ~(y < x)
  BY <1>1 DEF OpToRel
<1>3. x # 0
  OBVIOUS
<1>4. x - 1 \in Nat /\ x - 1 < x
  BY <1>3
<1>5. x - 1 \in T
  BY <1>2, <1>4
<1> QED
  BY <1>4, <1>5

CleanedStep(f, chunk, n) ==
  IF n = 0 THEN <<>>
  ELSE IF chunk[n][2] \in Escapes THEN f[n - 1]
  ELSE Append(f[n - 1], chunk[n])

IsCleaning(f, chunk, N) == f = [n \in 0 .. N |-> CleanedStep(f, chunk, n)]

\* The function that Cleaned is defined by exists.
LEMMA CleaningExists ==
  ASSUME NEW chunk
  PROVE  \A N \in Nat : \E f : IsCleaning(f, chunk, N)
<1> DEFINE T == {N \in Nat : \E f : IsCleaning(f, chunk, N)}
<1>1. 0 \in T
  <2> DEFINE f == [n \in 0 .. 0 |-> <<>>]
  <2>1. IsCleaning(f, chunk, 0)
    BY DEF IsCleaning, CleanedStep
  <2> QED
    BY <2>1
<1>2. ASSUME NEW N \in Nat, N \in T PROVE N + 1 \in T
  <2>1. PICK f : IsCleaning(f, chunk, N)
    BY <1>2
  <2>2. /\ DOMAIN f = 0 .. N
        /\ \A n \in 0 .. N : f[n] = CleanedStep(f, chunk, n)
    BY <2>1 DEF IsCleaning
  <2> DEFINE g == [n \in 0 .. N + 1 |-> IF n = N + 1 THEN CleanedStep(f, chunk, n)
                                                     ELSE f[n]]
  <2>3. \A n \in 0 .. N : g[n] = f[n]
    OBVIOUS
  <2>4. g[N + 1] = CleanedStep(f, chunk, N + 1)
    OBVIOUS
  <2>5. DOMAIN g = 0 .. N + 1 /\ g = [n \in 0 .. N + 1 |-> g[n]]
    OBVIOUS
  <2> HIDE DEF g
  <2>6. ASSUME NEW n \in 0 .. N + 1 PROVE g[n] = CleanedStep(g, chunk, n)
    <3>1. n # 0 => g[n - 1] = f[n - 1]
      <4>1. n # 0 => n - 1 \in 0 .. N
        OBVIOUS
      <4> QED
        BY <4>1, <2>3
    <3>2. CleanedStep(g, chunk, n) = CleanedStep(f, chunk, n)
      BY <3>1, Zenon DEF CleanedStep
    <3>3. g[n] = CleanedStep(f, chunk, n)
      <4>1. n \in 0 .. N \/ n = N + 1
        OBVIOUS
      <4> QED
        BY <4>1, <2>2, <2>3, <2>4
    <3> QED
      BY <3>2, <3>3
  <2>7. g = [n \in 0 .. N + 1 |-> CleanedStep(g, chunk, n)]
    BY <2>5, <2>6, Zenon
  <2> QED
    BY <2>7 DEF IsCleaning
<1>3. Nat \subseteq T
  <2> HIDE DEF T
  <2> QED
    BY <1>1, <1>2, Induction
<1> QED
  BY <1>3

LEMMA CleanedIs ==
  ASSUME NEW chunk, Len(chunk) \in Nat
  PROVE  \E f : IsCleaning(f, chunk, Len(chunk)) /\ Cleaned(chunk) = f[Len(chunk)]
<1>1. \E f : f = [n \in 0 .. Len(chunk) |-> CleanedStep(f, chunk, n)]
  BY CleaningExists DEF IsCleaning
<1> DEFINE g == CHOOSE f : f = [n \in 0 .. Len(chunk) |-> CleanedStep(f, chunk, n)]
<1>2. g = [n \in 0 .. Len(chunk) |-> CleanedStep(g, chunk, n)]
  BY <1>1
<1>3. Cleaned(chunk) = g[Len(chunk)]
  BY DEF Cleaned, CleanedStep
<1> HIDE DEF g
<1> QED
  BY <1>2, <1>3 DEF IsCleaning

Increasing(s) == \A j, k \in 1 .. Len(s) : j < k => s[j][2] < s[k][2]

\* What the filter leaves: the pieces that are no escapes, in their order.
LEMMA CleanedFacts ==
  ASSUME NEW chunk \in Seq(Pieces)
  PROVE  /\ Cleaned(chunk) \in Seq(Pieces)
         /\ ToSet(Cleaned(chunk)) = {piece \in ToSet(chunk) : piece[2] \notin Escapes}
         /\ Increasing(chunk) => Increasing(Cleaned(chunk))
<1>0. Len(chunk) \in Nat
  OBVIOUS
<1>1. PICK f : IsCleaning(f, chunk, Len(chunk)) /\ Cleaned(chunk) = f[Len(chunk)]
  BY <1>0, CleanedIs
<1>2. \A n \in 0 .. Len(chunk) : f[n] = CleanedStep(f, chunk, n)
  BY <1>1 DEF IsCleaning
<1> DEFINE Left(n) == {chunk[i] : i \in {j \in 1 .. n : chunk[j][2] \notin Escapes}}
           Good(n) == /\ f[n] \in Seq(Pieces) /\ ToSet(f[n]) = Left(n)
                      /\ Increasing(chunk) => Increasing(f[n])
           T == {n \in Nat : n <= Len(chunk) => Good(n)}
<1>3. 0 \in T
  <2>1. f[0] = <<>>
    BY <1>0, <1>2 DEF CleanedStep
  <2>2. Left(0) = {}
    OBVIOUS
  <2>3. f[0] \in Seq(Pieces) /\ Len(f[0]) = 0 /\ ToSet(f[0]) = {}
    BY <2>1, EmptyElements, Zenon
  <2>4. Increasing(f[0])
    BY <2>3 DEF Increasing
  <2> QED
    BY <2>2, <2>3, <2>4
<1>4. ASSUME NEW n \in Nat, n \in T PROVE n + 1 \in T
  <2> SUFFICES ASSUME n + 1 <= Len(chunk) PROVE Good(n + 1)
    OBVIOUS
  <2>1. /\ n <= Len(chunk) /\ n + 1 \in 0 .. Len(chunk) /\ n + 1 # 0
        /\ (n + 1) - 1 = n /\ n + 1 \in 1 .. Len(chunk)
    BY <1>0
  <2>2. Good(n)
    BY <1>4, <2>1
  <2>3. chunk[n + 1] \in Pieces
    BY <2>1
  <2>4. f[n + 1] = IF chunk[n + 1][2] \in Escapes THEN f[n]
                                                 ELSE Append(f[n], chunk[n + 1])
    BY <1>2, <2>1 DEF CleanedStep
  <2>5. CASE chunk[n + 1][2] \in Escapes
    <3>1. Left(n + 1) = Left(n)
      BY <2>5
    <3> QED
      BY <2>2, <2>4, <2>5, <3>1
  <2>6. CASE chunk[n + 1][2] \notin Escapes
    <3> DEFINE s == f[n]
               x == chunk[n + 1]
    <3>1. f[n + 1] = Append(s, x)
      BY <2>4, <2>6
    <3>2. /\ Append(s, x) \in Seq(Pieces) /\ Len(Append(s, x)) = Len(s) + 1
          /\ \A j \in 1 .. Len(s) : Append(s, x)[j] = s[j]
          /\ Append(s, x)[Len(s) + 1] = x
          /\ ToSet(Append(s, x)) = ToSet(s) \cup {x}
      BY <2>2, <2>3, AppendElements
    <3>3. Left(n + 1) = Left(n) \cup {x}
      <4>1. \A j : j \in 1 .. n + 1 <=> j \in 1 .. n \/ j = n + 1
        OBVIOUS
      <4> QED
        BY <4>1, <2>6
    <3>4. ASSUME Increasing(chunk) PROVE Increasing(Append(s, x))
      <4>1. Increasing(s)
        BY <2>2, <3>4
      <4>2. ASSUME NEW j \in 1 .. Len(s) PROVE s[j][2] < x[2]
        <5>1. s[j] \in ToSet(s)
          BY <2>2 DEF ToSet
        <5>2. PICK i \in 1 .. n : s[j] = chunk[i]
          BY <2>2, <5>1
        <5>3. i \in 1 .. Len(chunk) /\ i < n + 1
          BY <2>1
        <5> QED
          BY <2>1, <3>4, <5>2, <5>3 DEF Increasing
      <4>3. ASSUME NEW j \in 1 .. Len(s) + 1, NEW k \in 1 .. Len(s) + 1, j < k
            PROVE  Append(s, x)[j][2] < Append(s, x)[k][2]
        <5>1. Len(s) \in Nat
          BY <2>2
        <5>2. j \in 1 .. Len(s)
          BY <4>3, <5>1
        <5>3. CASE k \in 1 .. Len(s)
          BY <3>2, <4>1, <4>3, <5>2, <5>3 DEF Increasing
        <5>4. CASE k = Len(s) + 1
          BY <3>2, <4>2, <5>2, <5>4
        <5> QED
          BY <5>1, <5>3, <5>4
      <4> QED
        BY <3>2, <4>3 DEF Increasing
    <3> QED
      BY <2>2, <3>1, <3>2, <3>3, <3>4
  <2> QED
    BY <2>5, <2>6
<1>5. Nat \subseteq T
  <2> HIDE DEF T
  <2> QED
    BY <1>3, <1>4, Induction
<1>6. Good(Len(chunk))
  <2>1. Len(chunk) \in T
    <3> HIDE DEF T
    <3> QED
      BY <1>0, <1>5
  <2>2. Len(chunk) <= Len(chunk)
    BY <1>0
  <2> HIDE DEF Good
  <2> QED
    BY <2>1, <2>2
<1>7. Left(Len(chunk)) = {piece \in ToSet(chunk) : piece[2] \notin Escapes}
  BY <1>0 DEF ToSet
<1> QED
  BY <1>1, <1>6, <1>7

LEMMA LoggedFacts ==
  ASSUME NEW chunk \in Seq(Pieces), NEW log \in Logs
  PROVE  /\ Logged(log, chunk) \in Seq(Pieces)
         /\ ToSet(Logged(log, chunk)) =
              {piece \in ToSet(chunk) : log = "clean" => piece[2] \notin Escapes}
         /\ Increasing(chunk) => Increasing(Logged(log, chunk))
<1>1. CASE log = "raw"
  BY <1>1 DEF Logged
<1>2. CASE log = "clean"
  BY <1>2, CleanedFacts DEF Logged
<1> QED
  BY <1>1, <1>2 DEF Logs

-----------------------------------------------------------------------------
(* Types *)

USE OutputAssumption DEF None

LEMMA PlacesAre ==
  /\ <<"idle">> \in Places /\ <<"screen">> \in Places /\ <<"spawn">> \in Places
  /\ \A log \in Logs : /\ <<"rotate", log>> \in Places /\ <<"rename", log>> \in Places
                        /\ <<"create", log>> \in Places /\ AfterRotation(log) \in Places
  /\ "raw" \in Logs /\ "clean" \in Logs
  /\ <<"idle">> # <<"screen">> /\ <<"idle">> # <<"spawn">>
  /\ \A log \in Logs : /\ <<"idle">> # <<"rotate", log>>
                        /\ <<"idle">> # <<"rename", log>>
                        /\ <<"idle">> # <<"create", log>>
BY DEF Places, Logs, AfterRotation

\* A file more, and a file that has changed.
LEMMA FilesGrow ==
  ASSUME NEW S, NEW q \in Seq(Seq(S))
  PROVE  /\ Append(q, <<>>) \in Seq(Seq(S))
         /\ Len(Append(q, <<>>)) = Len(q) + 1
         /\ \A i \in 1 .. Len(q) : Append(q, <<>>)[i] = q[i]
         /\ Append(q, <<>>)[Len(q) + 1] = <<>>
         /\ \A i \in 0 .. Len(q) : i \in 0 .. Len(Append(q, <<>>))
         /\ \A i \in 1 .. Len(q) : \A s \in Seq(S) :
              /\ [q EXCEPT ![i] = s] \in Seq(Seq(S)) /\ Len([q EXCEPT ![i] = s]) = Len(q)
              /\ \A j \in 1 .. Len(q) : [q EXCEPT ![i] = s][j] = IF j = i THEN s ELSE q[j]
<1>1. <<>> \in Seq(S)
  OBVIOUS
<1>2. /\ Append(q, <<>>) \in Seq(Seq(S))
      /\ Len(Append(q, <<>>)) = Len(q) + 1
      /\ \A i \in 1 .. Len(q) : Append(q, <<>>)[i] = q[i]
      /\ Append(q, <<>>)[Len(q) + 1] = <<>>
  BY <1>1, AppendProperties
<1>3. \A i \in 0 .. Len(q) : i \in 0 .. Len(Append(q, <<>>))
  BY <1>2
<1>4. ASSUME NEW i \in 1 .. Len(q), NEW s \in Seq(S)
      PROVE  /\ [q EXCEPT ![i] = s] \in Seq(Seq(S)) /\ Len([q EXCEPT ![i] = s]) = Len(q)
             /\ \A j \in 1 .. Len(q) :
                  [q EXCEPT ![i] = s][j] = IF j = i THEN s ELSE q[j]
  BY ExceptSeq
<1> QED
  BY <1>2, <1>3, <1>4

LEMMA InitTypes == Init => TypeOK
BY PlacesAre DEF Init, TypeOK, StartTypes, FileTypes, RunTypes, CaptureTypes,
                 Blank, Labels, Runs

LEMMA StartKeepsTypes ==
  ASSUME TypeOK, StartSteps
  PROVE  TypeOK'
<1>0. StartTypes /\ FileTypes /\ RunTypes /\ CaptureTypes
  BY DEF TypeOK
<1>1. ASSUME UNCHANGED <<fileVars, run, childVars, pty, captureVars, stop>>
      PROVE  FileTypes' /\ RunTypes' /\ CaptureTypes'
  BY <1>0, <1>1 DEF FileTypes, RunTypes, CaptureTypes, fileVars, childVars, captureVars
<1>2. CASE StartBegins
  <2>1. latest' \in 0 .. MaxRuns
    BY <1>0, <1>2 DEF StartBegins, StartTypes
  <2>2. start' \in Places
    BY <1>2, PlacesAre, Zenon DEF StartBegins
  <2>3. StartTypes'
    BY <2>1, <2>2 DEF StartTypes
  <2> QED
    BY <1>1, <1>2, <2>3 DEF TypeOK, StartBegins
<1>3. CASE CreateScreen
  <2>1. StartTypes'
    BY <1>0, <1>3, PlacesAre DEF CreateScreen, StartTypes
  <2>2. FileTypes' /\ RunTypes'
    BY <1>0, <1>3 DEF CreateScreen, FileTypes, RunTypes, childVars, captureVars
  <2>3. CaptureTypes'
    BY <1>0, <1>3 DEF CreateScreen, CaptureTypes, Blank, captureVars
  <2> QED
    BY <2>1, <2>2, <2>3 DEF TypeOK
<1>4. CASE InitializeFails
  <2>1. StartTypes'
    BY <1>0, <1>4, PlacesAre DEF InitializeFails, StartTypes
  <2> QED
    BY <1>1, <1>4, <2>1 DEF TypeOK, InitializeFails
<1>5. CASE RunBegins
  <2>1. StartTypes'
    BY <1>0, <1>5, PlacesAre DEF RunBegins, StartTypes
  <2>2. FileTypes' /\ RunTypes'
    BY <1>0, <1>5 DEF RunBegins, FileTypes, RunTypes, fileVars
  <2>3. CaptureTypes'
    BY <1>0, <1>5 DEF RunBegins, CaptureTypes, Labels, fileVars
  <2> QED
    BY <2>1, <2>2, <2>3 DEF TypeOK
<1>6. ASSUME NEW log \in Logs, Rotate(log) \/ Rename(log) \/ Create(log) PROVE TypeOK'
  <2>1. CASE Rotate(log)
    <3>1. StartTypes'
      BY <1>0, <1>6, <2>1, PlacesAre DEF Rotate, StartTypes
    <3> QED
      BY <1>1, <2>1, <3>1 DEF TypeOK, Rotate
  <2>2. CASE Rename(log)
    <3>1. StartTypes'
      BY <1>0, <1>6, <2>2, PlacesAre DEF Rename, StartTypes
    <3>2. FileTypes'
      BY <1>0, <1>6, <2>2 DEF Rename, FileTypes, captureVars
    <3>3. RunTypes' /\ CaptureTypes'
      BY <1>0, <2>2 DEF Rename, RunTypes, CaptureTypes, childVars, captureVars
    <3> QED
      BY <3>1, <3>2, <3>3 DEF TypeOK
  <2>3. CASE Create(log)
    <3>1. StartTypes'
      BY <1>0, <1>6, <2>3, PlacesAre DEF Create, StartTypes
    <3>2. ASSUME path[log] = None PROVE FileTypes'
      <4>1. /\ file' \in Seq(Seq(Pieces)) /\ Len(file') = Len(file) + 1
            /\ erased' \subseteq Pieces /\ Len(file) \in Nat
        <5>1. /\ file' = Append(file, <<>>) /\ erased' = erased
              /\ file \in Seq(Seq(Pieces)) /\ erased \subseteq Pieces
          BY <1>0, <2>3, <3>2 DEF Create, FileTypes
        <5>2. Len(file) \in Nat
          BY <5>1
        <5> QED
          BY <5>1, <5>2, FilesGrow
      <4>3. Len(file') \in 0 .. Len(file') /\ 0 .. Len(file) \subseteq 0 .. Len(file')
        BY <4>1
      <4>2. /\ path' \in [Logs -> 0 .. Len(file')] /\ prev' \in [Logs -> 0 .. Len(file')]
            /\ fd' \in [Runs -> [Logs -> 0 .. Len(file')]]
        BY <1>0, <1>6, <2>3, <3>2, <4>3 DEF Create, FileTypes, captureVars
      <4> QED
        BY <4>1, <4>2 DEF FileTypes
    <3>3. ASSUME path[log] # None PROVE FileTypes'
      <4>1. /\ file' \in Seq(Seq(Pieces)) /\ Len(file') = Len(file)
        <5>1. /\ file' = [file EXCEPT ![path[log]] = <<>>]
              /\ file \in Seq(Seq(Pieces)) /\ <<>> \in Seq(Pieces)
              /\ path[log] \in 1 .. Len(file)
          BY <1>0, <1>6, <2>3, <3>3 DEF Create, FileTypes
        <5> QED
          BY <5>1, FilesGrow
      <4>2. erased' \subseteq Pieces
        BY <1>0, <1>6, <2>3, <3>3 DEF Create, FileTypes, ToSet
      <4> QED
        BY <1>0, <2>3, <3>3, <4>1, <4>2 DEF Create, FileTypes, captureVars
    <3>4. FileTypes'
      BY <3>2, <3>3
    <3>5. RunTypes' /\ CaptureTypes'
      BY <1>0, <2>3 DEF Create, RunTypes, CaptureTypes, childVars, captureVars
    <3> QED
      BY <3>1, <3>4, <3>5 DEF TypeOK
  <2> QED
    BY <1>6, <2>1, <2>2, <2>3
<1> QED
  BY <1>2, <1>3, <1>4, <1>5, <1>6 DEF StartSteps

LEMMA RunKeepsTypes ==
  ASSUME TypeOK, NEW r \in Runs, TerminalSteps(r) \/ RunActs(r)
  PROVE  TypeOK'
<1>0. StartTypes /\ FileTypes /\ RunTypes /\ CaptureTypes
  BY DEF TypeOK
<1>1. ASSUME UNCHANGED <<startVars, fileVars, captureVars>>
      PROVE  StartTypes' /\ FileTypes'
  BY <1>0, <1>1 DEF StartTypes, FileTypes, startVars, fileVars, captureVars
<1>2. ASSUME UNCHANGED <<startVars, fileVars, pty, captureVars>>
      PROVE  StartTypes' /\ FileTypes' /\ CaptureTypes'
  BY <1>0, <1>1, <1>2 DEF CaptureTypes, fileVars, captureVars
<1>3. CASE Says(r)
  <2>1. /\ said[r] + 1 \in 1 .. MaxOutput /\ said' = [said EXCEPT ![r] = said[r] + 1]
        /\ pty' = [pty EXCEPT ![r] = Append(pty[r], <<r, said[r] + 1>>)]
        /\ Len(pty[r]) < PtyCapacity
    BY <1>0, <1>3 DEF Says, RunTypes
  <2>2. <<r, said[r] + 1>> \in Pieces
    BY <2>1 DEF Pieces
  <2>3. /\ Append(pty[r], <<r, said[r] + 1>>) \in Seq(Pieces)
        /\ Len(Append(pty[r], <<r, said[r] + 1>>)) = Len(pty[r]) + 1
        /\ Len(pty[r]) \in Nat
    BY <1>0, <2>2, AppendProperties DEF CaptureTypes
  <2>4. RunTypes'
    BY <1>0, <1>3, <2>1 DEF Says, RunTypes
  <2>5. CaptureTypes'
    <3>1. pty' \in [Runs -> Seq(Pieces)]
      BY <1>0, <2>1, <2>3 DEF CaptureTypes
    <3>2. ASSUME NEW q \in Runs PROVE Len(pty'[q]) <= PtyCapacity
      <4>1. pty'[q] = IF q = r THEN Append(pty[r], <<r, said[r] + 1>>) ELSE pty[q]
        BY <1>0, <2>1 DEF CaptureTypes
      <4>2. Len(pty[q]) <= PtyCapacity
        BY <1>0 DEF CaptureTypes
      <4> QED
        BY <2>1, <2>3, <4>1, <4>2
    <3> QED
      BY <1>0, <1>3, <3>1, <3>2 DEF Says, CaptureTypes, fileVars, captureVars
  <2> QED
    BY <1>1, <1>3, <2>4, <2>5 DEF TypeOK, Says
<1>4. CASE ChildExits(r)
  <2>1. RunTypes'
    BY <1>0, <1>4 DEF ChildExits, RunTypes
  <2> QED
    BY <1>2, <1>4, <2>1 DEF TypeOK, ChildExits
<1>5. CASE TerminalCloses(r)
  <2>1. RunTypes'
    BY <1>0, <1>5 DEF TerminalCloses, RunTypes
  <2> QED
    BY <1>2, <1>5, <2>1 DEF TypeOK, TerminalCloses
<1>6. CASE ReapChild(r)
  <2>1. RunTypes'
    BY <1>0, <1>6 DEF ReapChild, RunTypes
  <2> QED
    BY <1>2, <1>6, <2>1 DEF TypeOK, ReapChild
<1>7. CASE DrainEnds(r)
  <2>1. RunTypes'
    BY <1>0, <1>7 DEF DrainEnds, RunTypes, childVars
  <2> QED
    BY <1>2, <1>7, <2>1 DEF TypeOK, DrainEnds
<1>8. CASE Join(r)
  <2>1. RunTypes'
    BY <1>0, <1>8 DEF Join, RunTypes, childVars
  <2> QED
    BY <1>2, <1>8, <2>1 DEF TypeOK, Join
<1>9. CASE WaitFails(r) \/ ForwarderJoined(r)
  <2>1. RunTypes'
    BY <1>0, <1>9 DEF WaitFails, ForwarderJoined, RunTypes, childVars
  <2> QED
    BY <1>2, <1>9, <2>1 DEF TypeOK, WaitFails, ForwarderJoined
<1>10. CASE Abort(r)
  <2>1. RunTypes'
    BY <1>0, <1>10 DEF Abort, RunTypes
  <2> QED
    BY <1>2, <1>10, <2>1 DEF TypeOK, Abort
<1> QED
  BY <1>3, <1>4, <1>5, <1>6, <1>7, <1>8, <1>9, <1>10
  DEF TerminalSteps, RunActs, RunSteps, RunMay

LEMMA CaptureKeepsTypes ==
  ASSUME TypeOK, NEW r \in Runs, CaptureSteps(r) \/ CaptureBreaks(r)
  PROVE  TypeOK'
<1>0. StartTypes /\ FileTypes /\ RunTypes /\ CaptureTypes
  BY DEF TypeOK
<1>1. ASSUME UNCHANGED <<startVars, run, childVars, stop>>
      PROVE  StartTypes' /\ RunTypes'
  BY <1>0, <1>1 DEF StartTypes, RunTypes, startVars, childVars
<1>2. ASSUME UNCHANGED <<path, prev, file, erased, fd>> PROVE FileTypes'
  BY <1>0, <1>2 DEF FileTypes
<1>3. CASE CaptureStops(r) \/ CaptureEnds(r) \/ CaptureBreaks(r)
  <2>1. CaptureTypes'
    BY <1>0, <1>3 DEF CaptureStops, CaptureEnds, CaptureBreaks, Capture, CaptureTypes,
                      Labels, Finished, fileVars
  <2> QED
    BY <1>1, <1>2, <1>3, <2>1
    DEF TypeOK, CaptureStops, CaptureEnds, CaptureBreaks, fileVars
<1>4. CASE CaptureReads(r)
  <2>1. PICK n \in 1 .. Len(pty[r]) :
          /\ hand' = [hand EXCEPT ![r] = SubSeq(pty[r], 1, n)]
          /\ pty' = [pty EXCEPT ![r] = SubSeq(pty[r], n + 1, Len(pty[r]))]
    BY <1>4 DEF CaptureReads
  <2>2. pty[r] \in Seq(Pieces) /\ n \in 0 .. Len(pty[r])
    BY <1>0 DEF CaptureTypes
  <2>3. /\ SubSeq(pty[r], 1, n) \in Seq(Pieces)
        /\ SubSeq(pty[r], n + 1, Len(pty[r])) \in Seq(Pieces)
        /\ Len(SubSeq(pty[r], n + 1, Len(pty[r]))) = Len(pty[r]) - n
    BY <2>2, FirstElements
  <2>4. Len(pty[r]) - n <= PtyCapacity
    BY <1>0, <2>2 DEF CaptureTypes
  <2> HIDE OutputAssumption
  <2>5. capture' = [capture EXCEPT ![r] = "raw"] /\ UNCHANGED <<lossy, screen, shown>>
    BY <1>4 DEF CaptureReads, Capture, fileVars
  <2>6. CaptureTypes'
    BY <1>0, <2>1, <2>3, <2>4, <2>5 DEF CaptureTypes, Labels
  <2> QED
    BY <1>1, <1>2, <1>4, <2>6 DEF TypeOK, CaptureReads, fileVars
<1>5. CASE WriteScreen(r)
  <2>1. Len(hand[r]) \in Nat
    BY <1>0 DEF CaptureTypes
  <2>2. shown' \in [Runs -> Nat] /\ hand' \in [Runs -> Seq(Pieces)]
    BY <1>0, <1>5, <2>1, EmptyElements DEF WriteScreen, CaptureTypes
  <2>3. screen' \in [run : {None} \cup Runs, shown : Nat]
    BY <1>0, <1>5, <2>2 DEF WriteScreen, CaptureTypes
  <2>4. capture' \in [Runs -> Labels] /\ UNCHANGED <<pty, lossy>>
    BY <1>0, <1>5 DEF WriteScreen, Capture, CaptureTypes, Labels
  <2>5. CaptureTypes'
    BY <1>0, <2>2, <2>3, <2>4 DEF CaptureTypes
  <2> QED
    BY <1>1, <1>2, <1>5, <2>5 DEF TypeOK, WriteScreen
<1>6. ASSUME NEW log \in Logs, OpenLog(r, log) PROVE TypeOK'
  <2>1. ASSUME path[log] = None PROVE FileTypes'
    <3>1. /\ file' = Append(file, <<>>) /\ path' = [path EXCEPT ![log] = Len(file')]
          /\ fd' = [fd EXCEPT ![r] = [fd[r] EXCEPT ![log] = path'[log]]]
          /\ prev' = prev /\ erased' = erased
      BY <1>0, <1>6, <2>1 DEF OpenLog, FileTypes
    <3>2. /\ file' \in Seq(Seq(Pieces)) /\ Len(file') = Len(file) + 1
          /\ Len(file) \in Nat
      BY <1>0, <3>1, FilesGrow DEF FileTypes
    <3>3. Len(file') \in 0 .. Len(file') /\ 0 .. Len(file) \subseteq 0 .. Len(file')
      BY <3>2
    <3>4. path' \in [Logs -> 0 .. Len(file')] /\ path'[log] = Len(file')
      BY <1>0, <3>1, <3>3 DEF FileTypes
    <3>5. prev' \in [Logs -> 0 .. Len(file')] /\ erased' \subseteq Pieces
      BY <1>0, <3>1, <3>3 DEF FileTypes
    <3>6. fd' \in [Runs -> [Logs -> 0 .. Len(file')]]
      BY <1>0, <1>6, <3>1, <3>3, <3>4 DEF FileTypes
    <3> QED
      BY <3>2, <3>4, <3>5, <3>6 DEF FileTypes
  <2>2. ASSUME path[log] # None PROVE FileTypes'
    BY <1>0, <1>6, <2>2 DEF OpenLog, FileTypes
  <2>3. CaptureTypes'
    BY <1>0, <1>6 DEF OpenLog, Capture, CaptureTypes, Labels
  <2>4. FileTypes'
    BY <2>1, <2>2
  <2> QED
    BY <1>1, <1>6, <2>3, <2>4 DEF TypeOK, OpenLog
<1>7. ASSUME NEW log \in Logs, WriteLog(r, log) PROVE TypeOK'
  <2>1. PICK n \in 0 .. Len(Logged(log, hand[r])) : TakesPieces(r, log, n)
    BY <1>7 DEF WriteLog
  <2> DEFINE given == Logged(log, hand[r])
             old   == file[fd[r][log]]
  <2>2. given \in Seq(Pieces)
    BY <1>0, LoggedFacts DEF CaptureTypes
  <2>3. /\ file' = [file EXCEPT ![fd[r][log]] = old \o SubSeq(given, 1, n)]
        /\ lossy' = [lossy EXCEPT ![r] = IF n < Len(given) THEN lossy[r] \cup {log}
                                                           ELSE lossy[r]]
    BY <2>1 DEF TakesPieces
  <2>4. SubSeq(given, 1, n) \in Seq(Pieces)
    BY <2>1, <2>2, FirstElements
  <2> HIDE DEF given
  <2>5. file' \in Seq(Seq(Pieces)) /\ Len(file') = Len(file)
    <3>1. CASE fd[r][log] = None
      <4>1. DOMAIN file = 1 .. Len(file) /\ Len(file) \in Nat
        BY <1>0 DEF FileTypes
      <4>2. fd[r][log] \notin DOMAIN file
        BY <3>1, <4>1
      <4>3. file' = file
        <5>1. file = [i \in DOMAIN file |-> file[i]]
          BY <1>0, <4>1 DEF FileTypes
        <5>2. file' = [i \in DOMAIN file |-> IF i = fd[r][log]
                                             THEN old \o SubSeq(given, 1, n) ELSE file[i]]
          BY <2>3
        <5>3. \A i \in DOMAIN file : i # fd[r][log]
          BY <4>2
        <5> QED
          BY <5>1, <5>2, <5>3
      <4> QED
        BY <1>0, <4>3 DEF FileTypes
    <3>2. CASE fd[r][log] # None
      <4>1. old \in Seq(Pieces)
        BY <1>0, <1>7, <3>2 DEF FileTypes
      <4>2. old \o SubSeq(given, 1, n) \in Seq(Pieces)
        BY <2>4, <4>1, ConcatElements
      <4>3. file \in Seq(Seq(Pieces)) /\ fd[r][log] \in 1 .. Len(file)
        BY <1>0, <3>2 DEF FileTypes
      <4> QED
        BY <2>3, <4>2, <4>3, FilesGrow
    <3> QED
      BY <3>1, <3>2
  <2>6. FileTypes'
    BY <1>0, <1>7, <2>5 DEF WriteLog, FileTypes
  <2>7. CaptureTypes'
    BY <1>0, <1>7, <2>3 DEF WriteLog, Capture, AfterLog, CaptureTypes, Labels
  <2> QED
    BY <1>1, <1>7, <2>6, <2>7 DEF TypeOK, WriteLog
<1> QED
  BY <1>3, <1>4, <1>5, <1>6, <1>7 DEF CaptureSteps

LEMMA TypesStay == TypeOK /\ [Next]_vars => TypeOK'
<1> SUFFICES ASSUME TypeOK, [Next]_vars PROVE TypeOK'
  OBVIOUS
<1>1. CASE Next
  BY <1>1, StartKeepsTypes, RunKeepsTypes, CaptureKeepsTypes DEF Next, RunActs
<1>2. CASE UNCHANGED vars
  BY <1>2 DEF TypeOK, StartTypes, FileTypes, RunTypes, CaptureTypes,
              vars, startVars, fileVars, childVars, captureVars
<1> QED
  BY <1>1, <1>2

-----------------------------------------------------------------------------
(* Control: the start, the files, the capture threads *)

LEMMA Numbers ==
  ASSUME TypeOK
  PROVE  /\ Len(file) \in Nat
         /\ \A q \in Runs :
              /\ said[q] \in Nat /\ Len(pty[q]) \in Nat /\ Len(hand[q]) \in Nat
              /\ pty[q] \in Seq(Pieces) /\ hand[q] \in Seq(Pieces)
              /\ pty[q] = <<>> <=> Len(pty[q]) = 0
              /\ hand[q] = <<>> <=> Len(hand[q]) = 0
<1>1. Len(file) \in Nat
  BY DEF TypeOK, FileTypes
<1>2. ASSUME NEW q \in Runs
      PROVE  said[q] \in Nat /\ pty[q] \in Seq(Pieces) /\ hand[q] \in Seq(Pieces)
  BY <1>2 DEF TypeOK, RunTypes, CaptureTypes
<1> QED
  BY <1>1, <1>2, EmptyElements

LEMMA FilesStay ==
  ASSUME TypeOK, FilesInv, Next
  PROVE  FilesInv'
<1>0. /\ path \in [Logs -> 0 .. Len(file)] /\ prev \in [Logs -> 0 .. Len(file)]
      /\ fd \in [Runs -> [Logs -> 0 .. Len(file)]] /\ Len(file) \in Nat
  BY DEF TypeOK, FileTypes
<1>1. \A log \in Logs : FilesOf(log) \subseteq 0 .. Len(file)
  BY <1>0 DEF FilesOf
<1>2. CASE UNCHANGED <<path, prev, fd>>
  BY <1>2 DEF FilesInv, FilesOf
<1>3. ASSUME NEW log \in Logs, NEW new, new = Len(file) + 1,
             \A l \in Logs : FilesOf(l)' \subseteq
                IF l = log THEN FilesOf(l) \cup {None, new} ELSE FilesOf(l)
      PROVE  FilesOf("raw")' \cap FilesOf("clean")' \subseteq {None}
  <2>1. \A l \in Logs : new \notin FilesOf(l)
    BY <1>0, <1>1, <1>3
  <2>2. "raw" \in Logs /\ "clean" \in Logs /\ "raw" # "clean"
    BY DEF Logs
  <2> QED
    BY <1>3, <2>1, <2>2 DEF FilesInv
<1>4. ASSUME NEW log \in Logs, Rename(log) PROVE FilesInv'
  <2>1. /\ path' = [path EXCEPT ![log] = None] /\ prev' = [prev EXCEPT ![log] = path[log]]
        /\ fd' = fd
    BY <1>4 DEF Rename, captureVars
  <2>2. \A l \in Logs : FilesOf(l)' \subseteq
          IF l = log THEN FilesOf(l) \cup {None, Len(file) + 1} ELSE FilesOf(l)
    BY <1>0, <2>1 DEF FilesOf
  <2>3. \A l \in Logs : path'[l] = prev'[l] => path'[l] = None
    BY <1>0, <2>1 DEF FilesInv
  <2> QED
    BY <1>3, <2>2, <2>3 DEF FilesInv
<1>5. ASSUME NEW log \in Logs, Create(log) PROVE FilesInv'
  <2>1. prev' = prev /\ fd' = fd
    BY <1>5 DEF Create, captureVars
  <2>2. CASE path[log] # None
    BY <1>2, <1>5, <2>1, <2>2 DEF Create
  <2>3. CASE path[log] = None
    <3>1. path' = [path EXCEPT ![log] = Len(file) + 1]
      <4>1. /\ file' = Append(file, <<>>) /\ path' = [path EXCEPT ![log] = Len(file')]
            /\ file \in Seq(Seq(Pieces))
        BY <1>5, <2>3 DEF Create, TypeOK, FileTypes
      <4> QED
        BY <4>1, FilesGrow
    <3>2. \A l \in Logs : FilesOf(l)' \subseteq
            IF l = log THEN FilesOf(l) \cup {None, Len(file) + 1} ELSE FilesOf(l)
      BY <1>0, <2>1, <3>1 DEF FilesOf
    <3>3. \A l \in Logs : path'[l] = prev'[l] => path'[l] = None
      BY <1>0, <2>1, <3>1 DEF FilesInv
    <3> QED
      BY <1>3, <3>2, <3>3 DEF FilesInv
  <2> QED
    BY <2>2, <2>3
<1>6. ASSUME NEW r \in Runs, NEW log \in Logs, OpenLog(r, log) PROVE FilesInv'
  <2>1. /\ prev' = prev
        /\ fd' = [fd EXCEPT ![r] = [fd[r] EXCEPT ![log] = path'[log]]]
    BY <1>0, <1>6 DEF OpenLog
  <2>2. \/ path' = path
        \/ path[log] = None /\ path' = [path EXCEPT ![log] = Len(file) + 1]
    <3>1. CASE path[log] # None
      BY <1>6, <3>1 DEF OpenLog
    <3>2. CASE path[log] = None
      <4>1. /\ file' = Append(file, <<>>) /\ path' = [path EXCEPT ![log] = Len(file')]
            /\ file \in Seq(Seq(Pieces))
        BY <1>6, <3>2 DEF OpenLog, TypeOK, FileTypes
      <4> QED
        BY <3>2, <4>1, FilesGrow
    <3> QED
      BY <3>1, <3>2
  <2>3. \A l \in Logs : l # log => path'[l] = path[l]
    BY <1>0, <2>2
  <2>4. path'[log] \in {path[log], Len(file) + 1}
    BY <1>0, <2>2
  <2>5. \A l \in Logs, q \in Runs :
          fd'[q][l] = IF q = r /\ l = log THEN path'[log] ELSE fd[q][l]
    BY <1>0, <2>1
  <2>6. \A l \in Logs : FilesOf(l)' \subseteq
          IF l = log THEN FilesOf(l) \cup {None, Len(file) + 1} ELSE FilesOf(l)
    BY <2>1, <2>3, <2>4, <2>5 DEF FilesOf
  <2>7. \A l \in Logs : path'[l] = prev'[l] => path'[l] = None
    BY <1>0, <2>1, <2>2 DEF FilesInv
  <2> QED
    BY <1>3, <2>6, <2>7 DEF FilesInv
<1>7. CASE StartSteps
  <2>1. ASSUME StartBegins \/ CreateScreen \/ InitializeFails \/ RunBegins
        PROVE  UNCHANGED <<path, prev, fd>>
    BY <2>1 DEF StartBegins, CreateScreen, InitializeFails, RunBegins, fileVars,
                captureVars
  <2>2. ASSUME NEW log \in Logs, Rotate(log) PROVE UNCHANGED <<path, prev, fd>>
    BY <2>2 DEF Rotate, fileVars, captureVars
  <2> QED
    BY <1>2, <1>4, <1>5, <1>7, <2>1, <2>2 DEF StartSteps
<1>8. ASSUME NEW r \in Runs, TerminalSteps(r) \/ RunActs(r)
      PROVE  UNCHANGED <<path, prev, fd>>
  BY <1>8 DEF TerminalSteps, Says, ChildExits, TerminalCloses, RunActs,
              RunSteps, RunMay, ReapChild, DrainEnds, Join, WaitFails, Abort,
              ForwarderJoined, fileVars, captureVars
<1>9. ASSUME NEW r \in Runs, CaptureSteps(r) \/ CaptureBreaks(r) PROVE FilesInv'
  <2>1. ASSUME \/ CaptureStops(r) \/ CaptureEnds(r) \/ CaptureReads(r) \/ WriteScreen(r)
               \/ CaptureBreaks(r)
        PROVE  UNCHANGED <<path, prev, fd>>
    BY <2>1 DEF CaptureStops, CaptureEnds, CaptureReads, WriteScreen, CaptureBreaks,
                fileVars
  <2>2. ASSUME NEW log \in Logs, WriteLog(r, log) PROVE UNCHANGED <<path, prev, fd>>
    BY <2>2 DEF WriteLog
  <2> QED
    BY <1>2, <1>6, <1>9, <2>1, <2>2 DEF CaptureSteps
<1> QED
  BY <1>2, <1>7, <1>8, <1>9 DEF Next, RunActs

LEMMA FreshStays ==
  ASSUME TypeOK, FreshInv, Next
  PROVE  FreshInv'
<1>0. latest \in 0 .. MaxRuns /\ capture \in [Runs -> Labels] /\ Runs = 1 .. MaxRuns
  BY DEF TypeOK, StartTypes, CaptureTypes, Runs
<1>1. ASSUME UNCHANGED startVars, NEW r \in Runs, capture[r] # "none",
             \A q \in Runs : q # r => capture'[q] = capture[q]
      PROVE  FreshInv'
  BY <1>1 DEF FreshInv, startVars
<1>2. CASE StartBegins
  <2>1. /\ start = <<"idle">> /\ latest < MaxRuns /\ latest' = latest + 1
        /\ capture' = capture
    BY <1>2 DEF StartBegins, captureVars
  <2>2. latest' \in Runs /\ latest' > latest
    BY <1>0, <2>1
  <2>3. \A r \in Runs : r > latest' => r > latest
    BY <1>0, <2>1
  <2> QED
    BY <2>1, <2>2, <2>3 DEF FreshInv
<1>3. CASE RunBegins
  <2>1. /\ start = <<"spawn">> /\ start' = <<"idle">> /\ latest' = latest
        /\ capture' = [capture EXCEPT ![latest] = "open raw"]
    BY <1>3 DEF RunBegins
  <2>2. ASSUME NEW r \in Runs, r > latest PROVE capture'[r] = capture[r]
    <3>1. r # latest
      BY <1>0, <2>2
    <3> QED
      BY <1>0, <2>1, <3>1, Zenon
  <2> QED
    BY <2>1, <2>2 DEF FreshInv
<1>4. CASE CreateScreen \/ InitializeFails
  <2>1. start # <<"idle">>
    BY <1>4, PlacesAre DEF CreateScreen, InitializeFails
  <2>2. latest' = latest /\ capture' = capture
    BY <1>4 DEF CreateScreen, InitializeFails, captureVars
  <2> QED
    BY <2>1, <2>2 DEF FreshInv
<1>5. ASSUME NEW log \in Logs, Rotate(log) \/ Rename(log) \/ Create(log)
      PROVE  FreshInv'
  <2>1. start \in {<<"rotate", log>>, <<"rename", log>>, <<"create", log>>}
    BY <1>5 DEF Rotate, Rename, Create
  <2>2. start # <<"idle">>
    BY <2>1, PlacesAre
  <2>3. latest' = latest /\ capture' = capture
    BY <1>5 DEF Rotate, Rename, Create, captureVars
  <2> QED
    BY <2>2, <2>3 DEF FreshInv
<1>6. ASSUME NEW r \in Runs, TerminalSteps(r) \/ RunActs(r) PROVE FreshInv'
  <2>1. UNCHANGED <<startVars, capture>>
    BY <1>6 DEF TerminalSteps, Says, ChildExits, TerminalCloses, RunActs,
                RunSteps, RunMay, ReapChild, DrainEnds, Join, WaitFails, Abort,
                ForwarderJoined, captureVars
  <2> QED
    BY <2>1 DEF FreshInv, startVars
<1>7. ASSUME NEW r \in Runs, CaptureSteps(r) \/ CaptureBreaks(r) PROVE FreshInv'
  <2>1. CASE CaptureStops(r) \/ CaptureEnds(r) \/ CaptureReads(r) \/ CaptureBreaks(r)
    BY <1>0, <1>1, <2>1
    DEF CaptureStops, CaptureEnds, CaptureReads, CaptureBreaks, Capture
  <2>2. CASE WriteScreen(r)
    BY <1>0, <1>1, <2>2 DEF WriteScreen, Capture
  <2>3. ASSUME NEW log \in Logs, OpenLog(r, log) \/ WriteLog(r, log) PROVE FreshInv'
    <3>1. capture[r] \in {Opens[log], log}
      BY <2>3 DEF OpenLog, WriteLog
    <3>2. log = "raw" \/ log = "clean"
      BY DEF Logs
    <3>3. Opens["raw"] = "open raw" /\ Opens["clean"] = "open clean"
      BY DEF Opens
    <3>4. capture[r] # "none"
      BY <3>1, <3>2, <3>3
    <3> QED
      BY <1>0, <1>1, <2>3, <3>4 DEF OpenLog, WriteLog, Capture
  <2> QED
    BY <1>7, <2>1, <2>2, <2>3 DEF CaptureSteps
<1> QED
  BY <1>2, <1>3, <1>4, <1>5, <1>6, <1>7 DEF Next, StartSteps, RunActs

-----------------------------------------------------------------------------
(* Control: each run with its terminal and its capture thread *)

\* What a step must leave of a run for its part of the invariant to stay.
SameThread(q) ==
  /\ UNCHANGED <<run[q], child[q], held[q], said[q], pty[q]>>
  /\ UNCHANGED <<capture[q], fd[q], hand[q]>>

LEMMA ThreadFrame ==
  ASSUME NEW q \in Runs, Phase(q), Flow(q), SameThread(q)
  PROVE  Phase(q)' /\ Flow(q)'
BY DEF Phase, Flow, Taken, TerminalOpen, SameThread

\* A step that gives nothing to a log.
GivenKept == \A q \in Runs : said[q] <= said'[q]
                           /\ \A log \in Logs : Given(q, log)' = Given(q, log)

LEMMA GivenFrame ==
  ASSUME TypeOK, NEW q \in Runs, SameThread(q)
  PROVE  said[q] <= said'[q] /\ \A log : Given(q, log)' = Given(q, log)
<1>1. said[q] <= said'[q]
  BY Numbers DEF SameThread
<1> QED
  BY <1>1 DEF SameThread, Given, Taken

\* One run's thread at a time.
LEMMA OneThread ==
  ASSUME TypeOK, ThreadsInv, NEW r \in Runs, \A q \in Runs \ {r} : SameThread(q)
  PROVE  /\ Phase(r)' /\ Flow(r)' => ThreadsInv'
         /\ said[r] <= said'[r] /\ (\A log \in Logs : Given(r, log)' = Given(r, log))
              => GivenKept
<1>1. \A q \in Runs \ {r} : Phase(q)' /\ Flow(q)'
  BY ThreadFrame DEF ThreadsInv
<1>2. \A q \in Runs \ {r} :
        said[q] <= said'[q] /\ \A log \in Logs : Given(q, log)' = Given(q, log)
  BY GivenFrame
<1> QED
  BY <1>1, <1>2 DEF ThreadsInv, GivenKept

\* Who does not touch the threads at all.
LEMMA AllThreads ==
  ASSUME TypeOK, ThreadsInv, \A q \in Runs : SameThread(q)
  PROVE  ThreadsInv' /\ GivenKept
<1>1. \A q \in Runs : Phase(q)' /\ Flow(q)'
  BY ThreadFrame DEF ThreadsInv
<1>2. \A q \in Runs :
        said[q] <= said'[q] /\ \A log \in Logs : Given(q, log)' = Given(q, log)
  BY GivenFrame
<1> QED
  BY <1>1, <1>2 DEF ThreadsInv, GivenKept

LEMMA StartKeepsThreads ==
  ASSUME TypeOK, FreshInv, ThreadsInv, StartSteps
  PROVE  ThreadsInv' /\ GivenKept
<1>1. CASE RunBegins
  <2>0. start # <<"idle">>
    BY <1>1, PlacesAre DEF RunBegins
  <2>1. PICK r \in Runs : r = latest /\ capture[r] = "none"
    BY <2>0 DEF FreshInv
  <2>2. /\ run' = [run EXCEPT ![r] = "wait"]
        /\ child' = [child EXCEPT ![r] = "alive"]
        /\ capture' = [capture EXCEPT ![r] = "open raw"]
        /\ UNCHANGED <<held, said, pty, fd, hand>>
    BY <1>1, <2>1 DEF RunBegins
  <2>3. /\ run'[r] = "wait" /\ capture'[r] = "open raw"
        /\ \A q \in Runs \ {r} : SameThread(q)
    BY <2>1, <2>2 DEF TypeOK, RunTypes, CaptureTypes, SameThread
  <2>4. Phase(r) /\ Flow(r)
    BY <2>1 DEF ThreadsInv
  <2>5. Phase(r)'
    BY <2>1, <2>2, <2>3, <2>4 DEF Phase
  <2>6. Flow(r)'
    BY <2>2, <2>4 DEF Flow, Taken
  <2>7. said[r] <= said'[r]
    <3>1. said'[r] = said[r]
      BY <2>2
    <3>2. said[r] \in Nat
      BY <2>1, Numbers
    <3> QED
      BY <3>1, <3>2
  <2>8. \A log \in Logs : /\ capture[r] \notin {"raw", log}
                         /\ capture'[r] \notin {"raw", log}
    BY <2>1, <2>3 DEF Logs
  <2>9. \A log \in Logs : Given(r, log)' = Given(r, log)
    BY <2>2, <2>8 DEF Given, Taken
  <2> QED
    BY <2>3, <2>5, <2>6, <2>7, <2>9, OneThread
<1>2. ASSUME StartBegins \/ CreateScreen \/ InitializeFails
      PROVE  \A q \in Runs : SameThread(q)
  BY <1>2 DEF StartBegins, CreateScreen, InitializeFails, childVars, captureVars,
              SameThread
<1>3. ASSUME NEW log \in Logs, Rotate(log) \/ Rename(log) \/ Create(log)
      PROVE  \A q \in Runs : SameThread(q)
  BY <1>3 DEF Rotate, Rename, Create, childVars, captureVars, SameThread
<1> QED
  BY <1>1, <1>2, <1>3, AllThreads DEF StartSteps

LEMMA RunKeepsThreads ==
  ASSUME TypeOK, ThreadsInv, NEW r \in Runs, TerminalSteps(r) \/ RunActs(r)
  PROVE  ThreadsInv' /\ GivenKept
<1>0. /\ Phase(r) /\ Flow(r)
      /\ said[r] \in Nat /\ Len(pty[r]) \in Nat /\ Len(hand[r]) \in Nat
      /\ pty[r] \in Seq(Pieces) /\ (pty[r] = <<>> <=> Len(pty[r]) = 0)
      /\ Taken(r) \in Int /\ Len(hand[r]) <= Taken(r)
  <2>1. Phase(r) /\ Flow(r)
    BY DEF ThreadsInv
  <2>2. /\ said[r] \in Nat /\ Len(pty[r]) \in Nat /\ Len(hand[r]) \in Nat
        /\ pty[r] \in Seq(Pieces) /\ (pty[r] = <<>> <=> Len(pty[r]) = 0)
        /\ (hand[r] = <<>> <=> Len(hand[r]) = 0)
    BY Numbers
  <2>3. Taken(r) \in Int
    BY <2>2 DEF Taken
  <2> QED
    BY <2>1, <2>2, <2>3 DEF Flow
<1>1. UNCHANGED <<capture, fd, hand>>
  BY DEF TerminalSteps, Says, ChildExits, TerminalCloses, RunActs,
         RunSteps, RunMay, ReapChild, DrainEnds, Join, WaitFails, Abort,
         ForwarderJoined, captureVars
<1>2. \A q \in Runs \ {r} : SameThread(q)
  BY <1>1 DEF TerminalSteps, Says, ChildExits, TerminalCloses, RunActs,
              RunSteps, RunMay, ReapChild, DrainEnds, Join, WaitFails, Abort,
              ForwarderJoined, childVars, TypeOK, RunTypes, CaptureTypes, SameThread
<1>3. CASE Says(r)
  <2>1. /\ TerminalOpen(r) /\ said'[r] = said[r] + 1
        /\ pty'[r] = Append(pty[r], <<r, said[r] + 1>>)
        /\ UNCHANGED <<run, child, held>>
    BY <1>3 DEF Says, TypeOK, RunTypes, CaptureTypes
  <2>2. <<r, said[r] + 1>> \in {r} \X Nat
    BY <1>0
  <2>3. /\ Len(pty'[r]) = Len(pty[r]) + 1
        /\ \A j \in 1 .. Len(pty[r]) : pty'[r][j] = pty[r][j]
        /\ pty'[r][Len(pty[r]) + 1] = <<r, said[r] + 1>>
    <3>1. said[r] + 1 \in 1 .. MaxOutput
      BY <1>0, <1>3 DEF Says, TypeOK, RunTypes
    <3>2. <<r, said[r] + 1>> \in Pieces
      BY <3>1 DEF Pieces
    <3> QED
      BY <1>0, <2>1, <3>2, AppendProperties
  <2>4. Taken(r)' = Taken(r)
    <3>1. \A a, b \in Nat : (a + 1) - (b + 1) = a - b
      OBVIOUS
    <3>2. (said[r] + 1) - (Len(pty[r]) + 1) = said[r] - Len(pty[r])
      BY <1>0, <3>1, Zenon
    <3>3. Taken(r)' = (said[r] + 1) - (Len(pty[r]) + 1)
      BY <2>1, <2>3, Zenon DEF Taken
    <3> QED
      BY <3>2, <3>3, Zenon DEF Taken
  <2>5. Phase(r)'
    BY <1>0, <1>1, <2>1, <2>3 DEF Phase, TerminalOpen
  <2>6. Flow(r)'
    <3>1. Len(hand'[r]) <= Taken(r)'
      BY <1>0, <1>1, <2>4
    <3>2. ASSUME NEW j \in 1 .. Len(pty'[r]) PROVE pty'[r][j] = <<r, Taken(r) + j>>
      <4>1. CASE j \in 1 .. Len(pty[r])
        BY <1>0, <2>3, <4>1 DEF Flow
      <4>2. CASE j = Len(pty[r]) + 1
        <5>1. Taken(r) + j = said[r] + 1
          BY <1>0, <4>2 DEF Taken
        <5> QED
          BY <2>3, <4>2, <5>1
      <4> QED
        BY <1>0, <2>3, <4>1, <4>2
    <3>3. \A j \in 1 .. Len(hand'[r]) : hand'[r][j] = <<r, Taken(r) - Len(hand'[r]) + j>>
      BY <1>0, <1>1 DEF Flow
    <3> QED
      BY <2>4, <3>1, <3>2, <3>3 DEF Flow
  <2>7. said[r] <= said'[r] /\ \A log \in Logs : Given(r, log)' = Given(r, log)
    BY <1>0, <1>1, <2>1, <2>4 DEF Given
  <2> QED
    BY <1>2, <2>5, <2>6, <2>7, OneThread
<1>4. CASE ChildExits(r) \/ TerminalCloses(r) \/ RunActs(r)
  <2>1. UNCHANGED <<said, pty>>
    BY <1>4 DEF ChildExits, TerminalCloses, RunActs, RunSteps, RunMay, ReapChild,
                DrainEnds, Join, WaitFails, Abort, ForwarderJoined, childVars
  <2>2. Flow(r)'
    BY <1>0, <1>1, <2>1 DEF Flow, Taken
  <2>3. Phase(r)'
    <3>1. CASE ChildExits(r)
      BY <1>0, <1>1, <2>1, <3>1
      DEF ChildExits, Phase, TerminalOpen, TypeOK, RunTypes
    <3>2. CASE TerminalCloses(r)
      BY <1>0, <1>1, <2>1, <3>2
      DEF TerminalCloses, Phase, TerminalOpen, TypeOK, RunTypes
    <3>3. CASE ReapChild(r)
      BY <1>0, <1>1, <2>1, <3>3 DEF ReapChild, Phase, TerminalOpen, TypeOK, RunTypes
    <3>4. CASE DrainEnds(r)
      BY <1>0, <1>1, <2>1, <3>4
      DEF DrainEnds, Phase, TerminalOpen, childVars, TypeOK, RunTypes
    <3>5. CASE Join(r)
      BY <1>0, <1>1, <2>1, <3>5
      DEF Join, Phase, TerminalOpen, childVars, TypeOK, RunTypes
    <3>6. CASE WaitFails(r) \/ ForwarderJoined(r)
      BY <1>0, <1>1, <2>1, <3>6
      DEF WaitFails, ForwarderJoined, Phase, TerminalOpen, childVars, TypeOK, RunTypes
    <3>7. CASE Abort(r)
      BY <1>0, <1>1, <2>1, <3>7 DEF Abort, Phase, TerminalOpen, TypeOK, RunTypes
    <3> QED
      BY <1>4, <3>1, <3>2, <3>3, <3>4, <3>5, <3>6, <3>7 DEF RunActs, RunSteps, RunMay
  <2>4. said[r] <= said'[r] /\ \A log \in Logs : Given(r, log)' = Given(r, log)
    BY <1>0, <1>1, <2>1 DEF Given, Taken
  <2> QED
    BY <1>2, <2>2, <2>3, <2>4, OneThread
<1> QED
  BY <1>3, <1>4 DEF TerminalSteps

\* Steps of the capture thread that write to no log.
QuietCapture(r) ==
  \/ CaptureStops(r) \/ CaptureEnds(r) \/ CaptureReads(r) \/ WriteScreen(r)
  \/ CaptureBreaks(r) \/ \E log \in Logs : OpenLog(r, log)

LEMMA CaptureKeepsThreads ==
  ASSUME TypeOK, TypeOK', ThreadsInv, NEW r \in Runs, QuietCapture(r)
  PROVE  ThreadsInv' /\ GivenKept
<1>0. /\ Phase(r) /\ Flow(r)
      /\ said[r] \in Nat /\ Len(pty[r]) \in Nat /\ Len(hand[r]) \in Nat
      /\ pty[r] \in Seq(Pieces) /\ (pty[r] = <<>> <=> Len(pty[r]) = 0)
      /\ Taken(r) \in Int /\ Len(hand[r]) <= Taken(r)
      /\ (hand[r] = <<>> <=> Len(hand[r]) = 0)
  <2>1. Phase(r) /\ Flow(r)
    BY DEF ThreadsInv
  <2>2. /\ said[r] \in Nat /\ Len(pty[r]) \in Nat /\ Len(hand[r]) \in Nat
        /\ pty[r] \in Seq(Pieces) /\ (pty[r] = <<>> <=> Len(pty[r]) = 0)
        /\ (hand[r] = <<>> <=> Len(hand[r]) = 0)
    BY Numbers
  <2>3. Taken(r) \in Int
    BY <2>2 DEF Taken
  <2> QED
    BY <2>1, <2>2, <2>3 DEF Flow
<1>1. /\ pty \in [Runs -> Seq(Pieces)] /\ hand \in [Runs -> Seq(Pieces)]
      /\ capture \in [Runs -> Labels] /\ fd \in [Runs -> [Logs -> 0 .. Len(file)]]
  BY DEF TypeOK, CaptureTypes, FileTypes
<1>2. CASE CaptureStops(r) \/ CaptureEnds(r) \/ CaptureBreaks(r)
  <2>1. /\ UNCHANGED <<run, child, held, said, pty, fd, hand>>
        /\ \E label \in Finished : capture' = [capture EXCEPT ![r] = label]
    BY <1>2 DEF CaptureStops, CaptureEnds, CaptureBreaks, Capture, Finished, childVars
  <2>2. \A q \in Runs \ {r} : SameThread(q)
    BY <1>1, <2>1 DEF SameThread
  <2>3. capture'[r] \in Finished /\ capture[r] \in {"open raw", "open clean", "read"}
    BY <1>1, <1>2, <2>1 DEF CaptureStops, CaptureEnds, CaptureBreaks
  <2>4. capture'[r] = "eof" => pty[r] = <<>> /\ ~TerminalOpen(r)
    BY <1>1, <1>2 DEF CaptureStops, CaptureEnds, CaptureBreaks, Capture
  <2>5. Phase(r)'
    BY <1>0, <2>1, <2>3, <2>4 DEF Phase, TerminalOpen, Finished
  <2>6. Flow(r)'
    BY <1>0, <2>1 DEF Flow, Taken
  <2>7. said[r] <= said'[r] /\ \A log \in Logs : Given(r, log)' = Given(r, log)
    <3>1. \A log \in Logs : /\ capture[r] \notin {"raw", log}
                           /\ capture'[r] \notin {"raw", log}
      BY <2>3 DEF Logs, Finished
    <3> QED
      BY <1>0, <2>1, <3>1 DEF Given, Taken
  <2> QED
    BY <2>2, <2>5, <2>6, <2>7, OneThread
<1>3. CASE CaptureReads(r)
  <2>1. PICK n \in 1 .. Len(pty[r]) :
          /\ hand' = [hand EXCEPT ![r] = SubSeq(pty[r], 1, n)]
          /\ pty' = [pty EXCEPT ![r] = SubSeq(pty[r], n + 1, Len(pty[r]))]
    BY <1>3 DEF CaptureReads
  <2>2. /\ UNCHANGED <<run, child, held, said, fd>> /\ capture[r] = "read"
        /\ capture' = [capture EXCEPT ![r] = "raw"]
    BY <1>3 DEF CaptureReads, Capture, childVars
  <2>3. \A q \in Runs \ {r} : SameThread(q)
    BY <1>1, <2>1, <2>2 DEF SameThread
  <2>4. /\ hand'[r] = SubSeq(pty[r], 1, n)
        /\ pty'[r] = SubSeq(pty[r], n + 1, Len(pty[r])) /\ capture'[r] = "raw"
    BY <1>1, <2>1, <2>2
  <2>5. /\ Len(hand'[r]) = n /\ \A j \in 1 .. n : hand'[r][j] = pty[r][j]
        /\ Len(pty'[r]) = Len(pty[r]) - n
        /\ \A j \in 1 .. Len(pty[r]) - n : pty'[r][j] = pty[r][n + j]
    <3>1. n \in 0 .. Len(pty[r])
      BY <1>0
    <3> QED
      BY <1>0, <2>4, <3>1, FirstElements
  <2>6. Taken(r)' = Taken(r) + n /\ Taken(r) \in Int
    BY <1>0, <2>2, <2>5 DEF Taken
  <2>7. Phase(r)'
    BY <1>0, <2>2, <2>4 DEF Phase, Finished
  <2>8. Flow(r)'
    <3>1. Len(hand'[r]) <= Taken(r)'
      BY <1>0, <2>5, <2>6
    <3>2. ASSUME NEW j \in 1 .. Len(pty'[r]) PROVE pty'[r][j] = <<r, Taken(r)' + j>>
      <4>1. /\ n + j \in 1 .. Len(pty[r]) /\ j \in 1 .. Len(pty[r]) - n
            /\ Taken(r) + (n + j) = Taken(r)' + j
        BY <1>0, <2>5, <2>6
      <4>2. pty[r][n + j] = <<r, Taken(r) + (n + j)>>
        BY <1>0, <4>1 DEF Flow
      <4> QED
        BY <2>5, <4>1, <4>2
    <3>3. ASSUME NEW j \in 1 .. Len(hand'[r])
          PROVE  hand'[r][j] = <<r, Taken(r)' - Len(hand'[r]) + j>>
      <4>1. j \in 1 .. Len(pty[r]) /\ Taken(r) + j = Taken(r)' - Len(hand'[r]) + j
        BY <1>0, <2>5, <2>6
      <4>2. pty[r][j] = <<r, Taken(r) + j>>
        BY <1>0, <4>1 DEF Flow
      <4> QED
        BY <2>5, <4>1, <4>2
    <3> QED
      BY <3>1, <3>2, <3>3 DEF Flow
  <2>9. said[r] <= said'[r] /\ \A log \in Logs : Given(r, log)' = Given(r, log)
    <3>1. \A log \in Logs : Given(r, log) = Taken(r)
      BY <2>2 DEF Given, Logs
    <3>2. \A log \in Logs : Given(r, log)' = Taken(r)' - Len(hand'[r])
      BY <2>4 DEF Given
    <3> QED
      BY <1>0, <2>2, <2>5, <2>6, <3>1, <3>2
  <2> QED
    BY <2>3, <2>7, <2>8, <2>9, OneThread
<1>4. CASE WriteScreen(r)
  <2>1. /\ UNCHANGED <<run, child, held, said, pty, fd>> /\ capture[r] = "screen"
        /\ hand' = [hand EXCEPT ![r] = <<>>]
        /\ capture' = [capture EXCEPT ![r] = "read"]
    BY <1>4 DEF WriteScreen, Capture, childVars
  <2>2. \A q \in Runs \ {r} : SameThread(q)
    BY <1>1, <2>1 DEF SameThread
  <2>3. hand'[r] = <<>> /\ Len(hand'[r]) = 0 /\ capture'[r] = "read"
    BY <1>1, <2>1, EmptyElements
  <2>4. Phase(r)'
    BY <1>0, <2>1, <2>3 DEF Phase, Finished
  <2>5. Flow(r)'
    <3>0. Taken(r)' = Taken(r)
      BY <2>1 DEF Taken
    <3>1. Len(hand'[r]) <= Taken(r)'
      BY <1>0, <2>3, <3>0
    <3>2. \A j \in 1 .. Len(pty'[r]) : pty'[r][j] = <<r, Taken(r)' + j>>
      BY <1>0, <2>1 DEF Flow, Taken
    <3>3. \A j : j \notin 1 .. Len(hand'[r])
      BY <2>3
    <3> QED
      BY <3>1, <3>2, <3>3 DEF Flow
  <2>6. said[r] <= said'[r] /\ \A log \in Logs : Given(r, log)' = Given(r, log)
    BY <1>0, <2>1, <2>3 DEF Given, Taken, Logs
  <2> QED
    BY <2>2, <2>4, <2>5, <2>6, OneThread
<1>5. ASSUME NEW log \in Logs, OpenLog(r, log) PROVE ThreadsInv' /\ GivenKept
  <2>1. /\ UNCHANGED <<run, child, held, said, pty, hand>>
        /\ capture[r] = Opens[log]
        /\ capture' = [capture EXCEPT ![r] = IF log = "raw" THEN "open clean" ELSE "read"]
        /\ fd' = [fd EXCEPT ![r] = [fd[r] EXCEPT ![log] = path'[log]]]
    BY <1>1, <1>5 DEF OpenLog, Capture, childVars
  <2>2. \A q \in Runs \ {r} : SameThread(q)
    BY <1>1, <2>1 DEF SameThread
  <2>3. path'[log] # None
    <3>1. CASE path[log] # None
      BY <1>5, <3>1 DEF OpenLog
    <3>2. CASE path[log] = None
      <4>1. /\ file' = Append(file, <<>>) /\ path' = [path EXCEPT ![log] = Len(file')]
            /\ file \in Seq(Seq(Pieces)) /\ path \in [Logs -> 0 .. Len(file)]
        BY <1>5, <3>2 DEF OpenLog, TypeOK, FileTypes
      <4>2. Len(file') = Len(file) + 1 /\ Len(file) \in Nat
        BY <4>1, FilesGrow
      <4>3. path'[log] = Len(file')
        BY <4>1
      <4> QED
        BY <4>2, <4>3
    <3> QED
      BY <3>1, <3>2
  <2>4. fd'[r][log] # None /\ \A l \in Logs : l # log => fd'[r][l] = fd[r][l]
    BY <1>1, <2>1, <2>3
  <2>5. \/ log = "raw" /\ capture[r] = "open raw" /\ capture'[r] = "open clean"
        \/ log = "clean" /\ capture[r] = "open clean" /\ capture'[r] = "read"
    <3>1. Opens["raw"] = "open raw" /\ Opens["clean"] = "open clean"
      BY DEF Opens
    <3>2. capture'[r] = IF log = "raw" THEN "open clean" ELSE "read"
      BY <1>1, <2>1
    <3> QED
      BY <2>1, <3>1, <3>2 DEF Logs
  <2>6. Phase(r)'
    BY <1>0, <2>1, <2>4, <2>5 DEF Phase, Finished, Logs
  <2>7. Flow(r)'
    BY <1>0, <2>1 DEF Flow, Taken
  <2>8. said[r] <= said'[r] /\ \A l \in Logs : Given(r, l)' = Given(r, l)
    <3>1. \A l \in Logs : capture[r] \notin {"raw", l} /\ capture'[r] \notin {"raw", l}
      BY <2>5 DEF Logs
    <3>2. said'[r] = said[r] /\ Taken(r)' = Taken(r)
      BY <2>1 DEF Taken
    <3>3. said[r] <= said'[r]
      BY <1>0, <3>2
    <3>4. \A l \in Logs : Given(r, l)' = Given(r, l)
      BY <3>1, <3>2, Zenon DEF Given
    <3> QED
      BY <3>3, <3>4
  <2> QED
    BY <2>2, <2>6, <2>7, <2>8, OneThread
<1> QED
  BY <1>2, <1>3, <1>4, <1>5 DEF QuietCapture

\* A write gives a log what the thread has in its hands.
LEMMA WriteKeepsThreads ==
  ASSUME TypeOK, ThreadsInv, NEW r \in Runs, NEW log \in Logs, WriteLog(r, log)
  PROVE  /\ ThreadsInv'
         /\ \A q \in Runs : said'[q] = said[q]
         /\ \A q \in Runs, l \in Logs :
              Given(q, l)' = IF q = r /\ l = log THEN Taken(r) ELSE Given(q, l)
         /\ Given(r, log) = Taken(r) - Len(hand[r])
<1>0. /\ Phase(r) /\ Flow(r)
      /\ said[r] \in Nat /\ Len(pty[r]) \in Nat /\ Len(hand[r]) \in Nat
  <2>1. Phase(r) /\ Flow(r)
    BY DEF ThreadsInv
  <2>2. /\ said[r] \in Nat /\ Len(pty[r]) \in Nat /\ Len(hand[r]) \in Nat
        /\ pty[r] \in Seq(Pieces) /\ (pty[r] = <<>> <=> Len(pty[r]) = 0)
        /\ (hand[r] = <<>> <=> Len(hand[r]) = 0)
    BY Numbers
  <2>3. Taken(r) \in Int
    BY <2>2 DEF Taken
  <2> QED
    BY <2>1, <2>2, <2>3 DEF Flow
<1>1. /\ UNCHANGED <<run, child, held, said, pty, fd, hand>> /\ capture[r] = log
      /\ capture' = [capture EXCEPT ![r] = AfterLog(log)]
      /\ capture \in [Runs -> Labels]
  BY DEF WriteLog, Capture, childVars, TypeOK, CaptureTypes
<1>2. \A q \in Runs \ {r} : SameThread(q)
  BY <1>1 DEF SameThread
<1>3. \/ log = "raw" /\ capture[r] = "raw" /\ capture'[r] = "clean"
      \/ log = "clean" /\ capture[r] = "clean" /\ capture'[r] = "screen"
  BY <1>1 DEF AfterLog, Logs
<1>4. Phase(r)'
  BY <1>0, <1>1, <1>3 DEF Phase, Finished
<1>5. Flow(r)'
  BY <1>0, <1>1 DEF Flow, Taken
<1>6. ASSUME NEW q \in Runs, NEW l \in Logs
      PROVE  Given(q, l)' = IF q = r /\ l = log THEN Taken(r) ELSE Given(q, l)
  <2>1. CASE q = r
    BY <1>0, <1>1, <1>3, <2>1 DEF Given, Taken, Logs
  <2>2. CASE q # r
    BY <1>2, <2>2, GivenFrame
  <2> QED
    BY <2>1, <2>2
<1>7. Given(r, log) = Taken(r) - Len(hand[r])
  BY <1>1 DEF Given
<1> QED
  BY <1>1, <1>2, <1>4, <1>5, <1>6, <1>7, OneThread

-----------------------------------------------------------------------------
(* What is in the logs *)

LEMMA FileContents ==
  ASSUME TypeOK
  PROVE  /\ Contents(None) = {}
         /\ \A i \in 1 .. Len(file) :
              /\ file[i] \in Seq(Pieces) /\ Contents(i) = ToSet(file[i])
              /\ \A piece \in Contents(i) : piece \in Pieces
         /\ \A q \in Runs, l \in Logs : fd[q][l] = None \/ fd[q][l] \in 1 .. Len(file)
<1>1. Contents(None) = {}
  BY DEF Contents
<1>2. ASSUME NEW i \in 1 .. Len(file)
      PROVE  /\ file[i] \in Seq(Pieces) /\ Contents(i) = ToSet(file[i])
             /\ \A piece \in Contents(i) : piece \in Pieces
  <2>1. file[i] \in Seq(Pieces)
    BY DEF TypeOK, FileTypes
  <2>2. Contents(i) = ToSet(file[i])
    BY DEF Contents
  <2>3. \A piece \in ToSet(file[i]) : piece \in Pieces
    BY <2>1 DEF ToSet
  <2> QED
    BY <2>1, <2>2, <2>3
<1>3. ASSUME NEW q \in Runs, NEW l \in Logs
      PROVE  fd[q][l] = None \/ fd[q][l] \in 1 .. Len(file)
  BY DEF TypeOK, FileTypes
<1> QED
  BY <1>1, <1>2, <1>3

LEMMA PieceParts ==
  \A piece \in Pieces : /\ piece[1] \in Runs /\ piece[2] \in 1 .. MaxOutput
                        /\ piece = <<piece[1], piece[2]>>
BY DEF Pieces

LEMMA GivenBounds ==
  ASSUME TypeOK, ThreadsInv, NEW q \in Runs, NEW log \in Logs
  PROVE  /\ Taken(q) \in Int /\ Given(q, log) \in Int /\ said[q] \in Int
         /\ 0 <= Given(q, log) /\ Given(q, log) <= Taken(q) /\ Taken(q) <= said[q]
<1>1. said[q] \in Nat /\ Len(pty[q]) \in Nat /\ Len(hand[q]) \in Nat
  BY Numbers
<1>2. Taken(q) \in Int /\ Taken(q) <= said[q]
  BY <1>1 DEF Taken
<1>3. Len(hand[q]) <= Taken(q)
  BY DEF ThreadsInv, Flow
<1>4. Given(q, log) = Taken(q) \/ Given(q, log) = Taken(q) - Len(hand[q])
  BY DEF Given
<1> QED
  BY <1>1, <1>2, <1>3, <1>4

\* Files may be created, opened by who has not read anything, and truncated if
\* what they held is on record as erased.
FilesLose ==
  /\ \A i \in 1 .. Len(file') :
       file'[i] # <<>> => i \in 1 .. Len(file) /\ file'[i] = file[i]
  /\ \A i \in 1 .. Len(file) : i \in 1 .. Len(file')
  /\ \A i \in 1 .. Len(file) : Contents(i) \subseteq ToSet(file'[i]) \cup erased'
  /\ erased \subseteq erased'
  /\ \A piece \in erased' : piece \in erased
                            \/ \E i \in 1 .. Len(file) : piece \in Contents(i)
  /\ \A q \in Runs, l \in Logs :
       fd'[q][l] = fd[q][l] \/ \A m \in Logs : Given(q, m) = 0
  /\ lossy' = lossy

LEMMA LoseKeepsLogs ==
  ASSUME TypeOK, TypeOK', ThreadsInv, SortedInv, CompleteInv, GivenKept, FilesLose
  PROVE  SortedInv' /\ CompleteInv'
<1>1. ASSUME NEW i \in 1 .. Len(file'), NEW j \in 1 .. Len(file'[i]),
             NEW k \in 1 .. Len(file'[i]), j < k, file'[i][j][1] = file'[i][k][1]
      PROVE  file'[i][j][2] < file'[i][k][2]
  <2>1. file'[i] # <<>>
    BY <1>1, EmptyElements
  <2>2. i \in 1 .. Len(file) /\ file'[i] = file[i]
    BY <1>1, <2>1 DEF FilesLose
  <2> QED
    BY <1>1, <2>2 DEF SortedInv
<1>2. ASSUME NEW i \in 1 .. Len(file'), NEW piece \in Contents(i)'
      PROVE  \E log \in Logs : i = fd'[piece[1]][log] /\ piece[2] <= Given(piece[1], log)'
  <2>1. piece \in ToSet(file'[i])
    BY <1>2 DEF Contents
  <2>2. file'[i] # <<>>
    BY <2>1, EmptyElements
  <2>3. i \in 1 .. Len(file) /\ file'[i] = file[i]
    BY <1>2, <2>2 DEF FilesLose
  <2>4. piece \in Contents(i) /\ piece \in Pieces
    BY <2>1, <2>3, FileContents
  <2>5. piece[1] \in Runs /\ piece[2] \in 1 .. MaxOutput
    BY <2>4, PieceParts
  <2>6. PICK log \in Logs : i = fd[piece[1]][log] /\ piece[2] <= Given(piece[1], log)
    BY <2>3, <2>4 DEF SortedInv
  <2>7. Given(piece[1], log) # 0
    BY <2>5, <2>6
  <2>8. fd'[piece[1]][log] = fd[piece[1]][log]
    BY <2>5, <2>7 DEF FilesLose
  <2>9. Given(piece[1], log)' = Given(piece[1], log)
    BY <2>5 DEF GivenKept
  <2> QED
    BY <2>6, <2>8, <2>9
<1>3. ASSUME NEW piece \in erased' PROVE piece[2] <= said'[piece[1]]
  <2>1. piece \in Pieces /\ piece[1] \in Runs /\ piece[2] \in 1 .. MaxOutput
    BY <1>3, PieceParts DEF TypeOK, FileTypes
  <2>2. piece[2] <= said[piece[1]]
    <3>1. CASE piece \in erased
      BY <3>1 DEF SortedInv
    <3>2. ASSUME NEW i \in 1 .. Len(file), piece \in Contents(i)
          PROVE  piece[2] <= said[piece[1]]
      <4>1. PICK log \in Logs : piece[2] <= Given(piece[1], log)
        BY <3>2 DEF SortedInv
      <4> QED
        BY <2>1, <4>1, GivenBounds
    <3> QED
      BY <1>3, <3>1, <3>2 DEF FilesLose
  <2>3. said[piece[1]] <= said'[piece[1]]
    BY <2>1 DEF GivenKept
  <2>4. said[piece[1]] \in Int /\ said'[piece[1]] \in Int
    BY <2>1 DEF TypeOK, RunTypes
  <2> QED
    BY <2>1, <2>2, <2>3, <2>4
<1>4. ASSUME NEW q \in Runs, NEW log \in Logs, log \notin lossy'[q],
             NEW n \in 1 .. Given(q, log)', log = "clean" => n \notin Escapes
      PROVE  <<q, n>> \in Contents(fd[q][log])' \cup erased'
  <2>1. log \notin lossy[q] /\ Given(q, log)' = Given(q, log)
    BY <1>4 DEF FilesLose, GivenKept
  <2>2. <<q, n>> \in Contents(fd[q][log]) \cup erased
    BY <1>4, <2>1 DEF CompleteInv
  <2>3. Given(q, log) # 0
    BY <2>1
  <2>4. fd'[q][log] = fd[q][log]
    BY <2>3 DEF FilesLose
  <2>5. CASE fd[q][log] = None
    BY <2>2, <2>5, FileContents DEF FilesLose
  <2>6. CASE fd[q][log] # None
    <3>1. fd[q][log] \in 1 .. Len(file)
      BY <2>6, FileContents
    <3>2. Contents(fd[q][log]) \subseteq ToSet(file'[fd[q][log]]) \cup erased'
      BY <3>1 DEF FilesLose
    <3>3. Contents(fd[q][log])' = ToSet(file'[fd[q][log]])
      BY <2>4, <2>6 DEF Contents
    <3> QED
      BY <2>2, <3>2, <3>3 DEF FilesLose
  <2> QED
    BY <2>5, <2>6
<1> QED
  BY <1>1, <1>2, <1>3, <1>4 DEF SortedInv, CompleteInv

\* Who touches no file.
LEMMA SameFiles ==
  ASSUME TypeOK, UNCHANGED <<file, erased, fd, lossy>>
  PROVE  FilesLose
<1>1. \A i \in 1 .. Len(file) : Contents(i) \subseteq ToSet(file[i])
  BY FileContents
<1> QED
  BY <1>1 DEF FilesLose

\* A file more.
LEMMA MoreFiles ==
  ASSUME TypeOK, file' = Append(file, <<>>), UNCHANGED <<erased, lossy>>,
         \A q \in Runs, l \in Logs :
           fd'[q][l] = fd[q][l] \/ \A m \in Logs : Given(q, m) = 0
  PROVE  FilesLose
<1>1. file \in Seq(Seq(Pieces)) /\ Len(file) \in Nat
  BY DEF TypeOK, FileTypes
<1>2. /\ Len(file') = Len(file) + 1 /\ \A i \in 1 .. Len(file) : file'[i] = file[i]
      /\ file'[Len(file) + 1] = <<>>
  BY <1>1, FilesGrow
<1>3. \A i \in 1 .. Len(file') : i \in 1 .. Len(file) \/ i = Len(file) + 1
  BY <1>1, <1>2
<1>4. \A i \in 1 .. Len(file) : i \in 1 .. Len(file')
  BY <1>1, <1>2
<1>5. \A i \in 1 .. Len(file) : Contents(i) \subseteq ToSet(file'[i])
  BY <1>2, FileContents
<1> QED
  BY <1>2, <1>3, <1>4, <1>5 DEF FilesLose

LEMMA StartLoses ==
  ASSUME TypeOK, StartSteps
  PROVE  FilesLose
<1>1. ASSUME StartBegins \/ CreateScreen \/ InitializeFails \/ RunBegins
      PROVE  UNCHANGED <<file, erased, fd, lossy>>
  BY <1>1 DEF StartBegins, CreateScreen, InitializeFails, RunBegins, fileVars,
              captureVars
<1>2. ASSUME NEW log \in Logs, Rotate(log) \/ Rename(log)
      PROVE  UNCHANGED <<file, erased, fd, lossy>>
  BY <1>2 DEF Rotate, Rename, fileVars, captureVars
<1>3. ASSUME NEW log \in Logs, Create(log) PROVE FilesLose
  <2>1. fd' = fd /\ lossy' = lossy
    BY <1>3 DEF Create, captureVars
  <2>2. CASE path[log] = None
    <3>1. file' = Append(file, <<>>) /\ erased' = erased
      BY <1>3, <2>2 DEF Create
    <3> QED
      BY <2>1, <3>1, MoreFiles
  <2>3. CASE path[log] # None
    <3>1. /\ file' = [file EXCEPT ![path[log]] = <<>>]
          /\ erased' = erased \cup ToSet(file[path[log]])
      BY <1>3, <2>3 DEF Create
    <3>2. /\ path[log] \in 1 .. Len(file)
          /\ file \in Seq(Seq(Pieces)) /\ <<>> \in Seq(Pieces)
      BY <1>3, <2>3 DEF TypeOK, FileTypes
    <3>3. /\ Len(file') = Len(file)
          /\ \A i \in 1 .. Len(file) :
               file'[i] = IF i = path[log] THEN <<>> ELSE file[i]
      BY <3>1, <3>2, FilesGrow
    <3>4. Contents(path[log]) = ToSet(file[path[log]])
      BY <3>2, FileContents
    <3>5. \A i \in 1 .. Len(file) : Contents(i) \subseteq ToSet(file'[i]) \cup erased'
      BY <3>1, <3>3, <3>4, FileContents
    <3> QED
      BY <2>1, <3>1, <3>2, <3>3, <3>4, <3>5 DEF FilesLose
  <2> QED
    BY <2>2, <2>3
<1> QED
  BY <1>1, <1>2, <1>3, SameFiles DEF StartSteps

LEMMA CaptureLoses ==
  ASSUME TypeOK, ThreadsInv, NEW r \in Runs, QuietCapture(r)
  PROVE  FilesLose
<1>1. ASSUME \/ CaptureStops(r) \/ CaptureEnds(r) \/ CaptureReads(r) \/ WriteScreen(r)
             \/ CaptureBreaks(r)
      PROVE  UNCHANGED <<file, erased, fd, lossy>>
  BY <1>1 DEF CaptureStops, CaptureEnds, CaptureReads, WriteScreen, CaptureBreaks,
              fileVars
<1>2. ASSUME NEW log \in Logs, OpenLog(r, log) PROVE FilesLose
  <2>1. capture[r] \in {"open raw", "open clean"}
    <3>1. Opens["raw"] = "open raw" /\ Opens["clean"] = "open clean"
      BY DEF Opens
    <3> QED
      BY <1>2, <3>1 DEF OpenLog, Logs
  <2>2. Len(pty[r]) = said[r] /\ said[r] \in Nat
    BY <2>1, Numbers DEF ThreadsInv, Phase
  <2>3. \A m \in Logs : Given(r, m) = 0
    <3>1. \A m \in Logs : capture[r] \notin {"raw", m}
      BY <2>1 DEF Logs
    <3>2. said[r] - Len(pty[r]) = 0
      BY <2>2
    <3> QED
      BY <3>1, <3>2, Zenon DEF Given, Taken
  <2>4. /\ fd' = [fd EXCEPT ![r] = [fd[r] EXCEPT ![log] = path'[log]]]
        /\ fd \in [Runs -> [Logs -> 0 .. Len(file)]]
        /\ UNCHANGED <<erased, lossy>>
    BY <1>2 DEF OpenLog, TypeOK, FileTypes
  <2>5. \A q \in Runs, l \in Logs :
          fd'[q][l] = fd[q][l] \/ \A m \in Logs : Given(q, m) = 0
    BY <2>3, <2>4
  <2>6. CASE path[log] = None
    BY <1>2, <2>4, <2>5, <2>6, MoreFiles DEF OpenLog
  <2>7. CASE path[log] # None
    <3>1. file' = file
      BY <1>2, <2>7 DEF OpenLog
    <3>2. \A i \in 1 .. Len(file) : Contents(i) \subseteq ToSet(file[i])
      BY FileContents
    <3> QED
      BY <2>4, <2>5, <3>1, <3>2 DEF FilesLose
  <2> QED
    BY <2>6, <2>7
<1> QED
  BY <1>1, <1>2, SameFiles DEF QuietCapture

-----------------------------------------------------------------------------
(* Writing to a log *)

\* What a thread has in its hands is what it has read and not yet given.
LEMMA InHand ==
  ASSUME TypeOK, ThreadsInv, NEW r \in Runs
  PROVE  LET low == Taken(r) - Len(hand[r])
         IN /\ \A piece \in ToSet(hand[r]) :
                 piece[1] = r /\ low < piece[2] /\ piece[2] <= Taken(r)
            /\ \A m \in low + 1 .. Taken(r) : <<r, m>> \in ToSet(hand[r])
            /\ Increasing(hand[r])
<1> DEFINE low == Taken(r) - Len(hand[r])
<1>1. said[r] \in Nat /\ Len(pty[r]) \in Nat /\ Len(hand[r]) \in Nat
  BY Numbers
<1>2. Taken(r) \in Int
  BY <1>1 DEF Taken
<1>3. DOMAIN hand[r] = 1 .. Len(hand[r])
  <2>1. hand[r] \in Seq(Pieces)
    BY Numbers
  <2> QED
    BY <2>1
<1>4. \A j \in 1 .. Len(hand[r]) : hand[r][j] = <<r, low + j>>
  BY DEF ThreadsInv, Flow
<1>5. low \in Int /\ low + Len(hand[r]) = Taken(r)
  BY <1>1, <1>2
<1> HIDE DEF low
<1>6. ASSUME NEW piece \in ToSet(hand[r])
      PROVE  piece[1] = r /\ low < piece[2] /\ piece[2] <= Taken(r)
  <2>1. PICK j \in 1 .. Len(hand[r]) : piece = hand[r][j]
    BY <1>3 DEF ToSet
  <2>2. piece = <<r, low + j>>
    BY <1>4, <2>1
  <2>3. low < low + j /\ low + j <= Taken(r)
    BY <1>1, <1>5
  <2> QED
    BY <2>2, <2>3
<1>7. ASSUME NEW m \in low + 1 .. Taken(r) PROVE <<r, m>> \in ToSet(hand[r])
  <2>1. m - low \in 1 .. Len(hand[r]) /\ low + (m - low) = m
    BY <1>1, <1>2, <1>5
  <2>2. hand[r][m - low] = <<r, m>>
    BY <1>4, <2>1
  <2> QED
    BY <1>3, <2>1, <2>2 DEF ToSet
<1>8. ASSUME NEW j \in 1 .. Len(hand[r]), NEW k \in 1 .. Len(hand[r]), j < k
      PROVE  hand[r][j][2] < hand[r][k][2]
  <2>1. low + j < low + k
    BY <1>1, <1>5, <1>8
  <2>2. hand[r][j] = <<r, low + j>> /\ hand[r][k] = <<r, low + k>>
    BY <1>4
  <2> QED
    BY <2>1, <2>2
<1> QED
  BY <1>6, <1>7, <1>8 DEF low, Increasing

LEMMA WriteKeepsLogs ==
  ASSUME TypeOK, TypeOK', FilesInv, ThreadsInv, SortedInv, CompleteInv,
         NEW r \in Runs, NEW log \in Logs, WriteLog(r, log)
  PROVE  SortedInv' /\ CompleteInv'
<1> DEFINE i0    == fd[r][log]
           given == Logged(log, hand[r])
<1>1. PICK n \in 0 .. Len(given) : TakesPieces(r, log, n)
  BY DEF WriteLog
<1> DEFINE s == SubSeq(given, 1, n)
<1>2. /\ file' = [file EXCEPT ![i0] = file[i0] \o s] /\ fd' = fd /\ erased' = erased
      /\ lossy' = [lossy EXCEPT ![r] = IF n < Len(given) THEN lossy[r] \cup {log}
                                                         ELSE lossy[r]]
      /\ capture[r] = log
  BY <1>1 DEF WriteLog, TakesPieces
<1>3. hand[r] \in Seq(Pieces)
  BY Numbers
<1>4. /\ given \in Seq(Pieces)
      /\ ToSet(given) =
           {piece \in ToSet(hand[r]) : log = "clean" => piece[2] \notin Escapes}
      /\ Increasing(given)
  BY <1>3, LoggedFacts, InHand
<1> HIDE DEF given
<1>5. /\ s \in Seq(Pieces) /\ ToSet(s) \subseteq ToSet(given) /\ Len(s) = n
      /\ \A j \in 1 .. n : s[j] = given[j]
      /\ n = Len(given) => s = given
  BY <1>1, <1>4, FirstElements
<1>6. \A j, k \in 1 .. Len(s) : j < k => s[j][2] < s[k][2]
  <2>1. \A j \in 1 .. n : j \in 1 .. Len(given)
    BY <1>1, <1>4
  <2> QED
    BY <1>4, <1>5, <2>1 DEF Increasing
<1>7. i0 \in 1 .. Len(file) /\ \A l \in Logs : fd[r][l] = i0 => l = log
  <2>1. \A l \in Logs : fd[r][l] # None
    BY <1>2 DEF ThreadsInv, Phase, Logs
  <2>2. fd[r]["raw"] \in FilesOf("raw") /\ fd[r]["clean"] \in FilesOf("clean")
    BY DEF FilesOf
  <2>3. fd[r]["raw"] # fd[r]["clean"]
    BY <2>1, <2>2 DEF FilesInv, Logs
  <2>4. i0 \in 1 .. Len(file)
    BY <2>1, FileContents
  <2> QED
    BY <2>3, <2>4 DEF Logs
<1>8. file[i0] \in Seq(Pieces) /\ Contents(i0) = ToSet(file[i0])
  BY <1>7, FileContents
<1> HIDE DEF s
<1> DEFINE new == file[i0] \o s
<1>9. /\ new \in Seq(Pieces) /\ Len(new) = Len(file[i0]) + Len(s)
      /\ \A j \in 1 .. Len(new) :
           new[j] = IF j <= Len(file[i0]) THEN file[i0][j] ELSE s[j - Len(file[i0])]
      /\ ToSet(new) = ToSet(file[i0]) \cup ToSet(s)
  <2>1. file[i0] \in Seq(Pieces) /\ s \in Seq(Pieces)
    BY <1>5, <1>8
  <2> QED
    BY <2>1, ConcatElements
<1>10. /\ Len(file') = Len(file)
       /\ \A i \in 1 .. Len(file) : file'[i] = IF i = i0 THEN new ELSE file[i]
  <2>1. file \in Seq(Seq(Pieces))
    BY DEF TypeOK, FileTypes
  <2> QED
    BY <1>2, <1>7, <1>9, <2>1, FilesGrow
<1> HIDE DEF new
<1>11. \A i \in 1 .. Len(file) :
         Contents(i)' = IF i = i0 THEN Contents(i) \cup ToSet(s) ELSE Contents(i)
  <2>1. \A i \in 1 .. Len(file) : Contents(i)' = ToSet(file'[i])
    BY DEF Contents
  <2> QED
    BY <1>8, <1>9, <1>10, <2>1, FileContents
<1>12. /\ \A q \in Runs : said'[q] = said[q]
       /\ \A q \in Runs, l \in Logs :
            Given(q, l)' = IF q = r /\ l = log THEN Taken(r) ELSE Given(q, l)
       /\ Given(r, log) = Taken(r) - Len(hand[r])
  BY WriteKeepsThreads
<1>13. \A piece \in ToSet(s) : /\ piece[1] = r /\ Given(r, log) < piece[2]
                               /\ piece[2] <= Taken(r)
  BY <1>4, <1>5, <1>12, InHand
<1>14. \A q \in Runs, l \in Logs :
         /\ Given(q, l) \in Int /\ Given(q, l)' \in Int /\ Given(q, l) <= Given(q, l)'
  BY <1>12, GivenBounds
<1>15. ASSUME NEW j \in 1 .. Len(new), NEW k \in 1 .. Len(new), j < k,
              new[j][1] = new[k][1]
       PROVE  new[j][2] < new[k][2]
  <2> DEFINE len == Len(file[i0])
  <2>1. len \in Nat /\ Len(s) \in Nat
    BY <1>5, <1>8
  <2>2. CASE k <= len
    <3>1. j \in 1 .. len /\ k \in 1 .. len
      BY <1>15, <2>1, <2>2
    <3>2. new[j] = file[i0][j] /\ new[k] = file[i0][k]
      BY <1>9, <3>1
    <3> QED
      BY <1>7, <1>15, <3>1, <3>2 DEF SortedInv
  <2>3. CASE len < j
    <3>0. Len(new) = len + Len(s)
      BY <1>9
    <3> HIDE DEF len
    <3>1. j - len \in 1 .. Len(s) /\ k - len \in 1 .. Len(s) /\ j - len < k - len
      BY <1>15, <2>1, <2>3, <3>0
    <3>2. ~(j <= len) /\ ~(k <= len)
      BY <1>15, <2>1, <2>3
    <3>3. new[j] = s[j - len] /\ new[k] = s[k - len]
      BY <1>9, <3>2, Zenon DEF len
    <3> QED
      BY <1>6, <3>1, <3>3
  <2>4. CASE j <= len /\ len < k
    <3>1. j \in 1 .. len /\ k - len \in 1 .. Len(s)
      BY <1>9, <2>1, <2>4
    <3>2. new[j] = file[i0][j] /\ new[k] = s[k - len]
      BY <1>9, <2>1, <2>4
    <3>3. DOMAIN s = 1 .. Len(s) /\ DOMAIN file[i0] = 1 .. len
      BY <1>5, <1>8
    <3>4. new[k] \in ToSet(s) /\ new[j] \in Contents(i0)
      BY <1>8, <3>1, <3>2, <3>3 DEF ToSet
    <3>5. new[k][1] = r /\ Given(r, log) < new[k][2] /\ new[j][1] = r
      BY <1>13, <1>15, <3>4
    <3>6. PICK l \in Logs : i0 = fd[new[j][1]][l] /\ new[j][2] <= Given(new[j][1], l)
      BY <1>7, <3>4 DEF SortedInv
    <3>7. new[j][2] <= Given(r, log)
      BY <1>7, <3>5, <3>6
    <3>8. new[j][2] \in Int /\ new[k][2] \in Int
      <4>1. new[j] \in Pieces /\ new[k] \in Pieces
        BY <1>9
      <4> QED
        BY <4>1, PieceParts
    <3> QED
      BY <1>14, <3>5, <3>7, <3>8
  <2> QED
    BY <1>15, <2>1, <2>2, <2>3, <2>4
<1>16. ASSUME NEW i \in 1 .. Len(file'), NEW j \in 1 .. Len(file'[i]),
              NEW k \in 1 .. Len(file'[i]), j < k, file'[i][j][1] = file'[i][k][1]
       PROVE  file'[i][j][2] < file'[i][k][2]
  <2>1. CASE i = i0
    BY <1>7, <1>10, <1>15, <1>16, <2>1
  <2>2. CASE i # i0
    <3>1. i \in 1 .. Len(file) /\ file'[i] = file[i]
      BY <1>10, <2>2
    <3> QED
      BY <1>16, <3>1 DEF SortedInv
  <2> QED
    BY <2>1, <2>2
<1>17. ASSUME NEW i \in 1 .. Len(file'), NEW piece \in Contents(i)'
       PROVE  \E l \in Logs : i = fd'[piece[1]][l] /\ piece[2] <= Given(piece[1], l)'
  <2>1. i \in 1 .. Len(file)
    BY <1>10
  <2>2. CASE piece \in Contents(i)
    <3>1. piece[1] \in Runs /\ piece[2] \in Int
      BY <2>1, <2>2, FileContents, PieceParts
    <3>2. PICK l \in Logs : i = fd[piece[1]][l] /\ piece[2] <= Given(piece[1], l)
      BY <2>1, <2>2 DEF SortedInv
    <3>3. piece[2] <= Given(piece[1], l)'
      BY <1>14, <3>1, <3>2
    <3> QED
      BY <1>2, <3>2, <3>3
  <2>3. CASE i = i0 /\ piece \in ToSet(s)
    BY <1>2, <1>12, <1>13, <2>3
  <2> QED
    BY <1>11, <1>17, <2>1, <2>2, <2>3
<1>18. ASSUME NEW piece \in erased' PROVE piece[2] <= said'[piece[1]]
  <2>1. piece \in erased /\ piece[1] \in Runs
    BY <1>2, <1>18, PieceParts DEF TypeOK, FileTypes
  <2> QED
    BY <1>12, <2>1 DEF SortedInv
<1>19. ASSUME NEW q \in Runs, NEW l \in Logs, l \notin lossy'[q],
              NEW m \in 1 .. Given(q, l)', l = "clean" => m \notin Escapes
       PROVE  <<q, m>> \in Contents(fd[q][l])' \cup erased'
  <2>1. l \notin lossy[q]
    BY <1>2, <1>19 DEF TypeOK, CaptureTypes
  <2>2. CASE m <= Given(q, l)
    <3>1. m \in 1 .. Given(q, l)
      BY <1>14, <2>2
    <3>2. <<q, m>> \in Contents(fd[q][l]) \cup erased
      BY <1>19, <2>1, <3>1 DEF CompleteInv
    <3>3. CASE fd[q][l] = None
      BY <1>2, <3>2, <3>3, FileContents
    <3>4. CASE fd[q][l] # None
      <4>1. fd[q][l] \in 1 .. Len(file)
        BY <3>4, FileContents
      <4>2. fd'[q][l] = fd[q][l]
        BY <1>2
      <4> QED
        BY <1>2, <1>11, <3>2, <4>1, <4>2
    <3> QED
      BY <3>3, <3>4
  <2>3. CASE Given(q, l) < m
    <3>1. q = r /\ l = log
      BY <1>12, <1>14, <2>3
    <3>2. n = Len(given)
      <4>1. lossy'[r] = IF n < Len(given) THEN lossy[r] \cup {log} ELSE lossy[r]
        BY <1>2 DEF TypeOK, CaptureTypes
      <4> QED
        BY <1>1, <1>4, <1>19, <3>1, <4>1
    <3>3. m \in Given(r, log) + 1 .. Taken(r)
      BY <1>12, <1>14, <2>3, <3>1
    <3>4. <<r, m>> \in ToSet(hand[r])
      BY <1>12, <3>3, InHand
    <3>5. <<r, m>> \in ToSet(s)
      BY <1>4, <1>5, <1>19, <3>1, <3>2, <3>4
    <3>6. fd'[q][l] = i0
      BY <1>2, <3>1
    <3> QED
      BY <1>7, <1>11, <3>1, <3>5, <3>6
  <2>4. m \in Int /\ Given(q, l) \in Int
    BY <1>14
  <2> QED
    BY <2>2, <2>3, <2>4
<1> QED
  BY <1>16, <1>17, <1>18, <1>19 DEF SortedInv, CompleteInv

-----------------------------------------------------------------------------
(* The theorems *)

OutputInv == TypeOK /\ FilesInv /\ FreshInv /\ ThreadsInv /\ SortedInv /\ CompleteInv

LEMMA InitInv == Init => OutputInv
<1> SUFFICES ASSUME Init PROVE OutputInv
  OBVIOUS
<1>1. TypeOK
  BY InitTypes
<1>2. FilesInv
  BY DEF Init, FilesInv, FilesOf, Logs
<1>3. FreshInv
  BY DEF Init, FreshInv
<1>4. \A r \in Runs : /\ said[r] = 0 /\ pty[r] = <<>> /\ hand[r] = <<>>
                      /\ Len(pty[r]) = 0 /\ Len(hand[r]) = 0
                      /\ run[r] = "idle" /\ capture[r] = "none"
  BY EmptyElements DEF Init
<1>5. \A r \in Runs : Taken(r) = 0 /\ \A log \in Logs : Given(r, log) = 0
  BY <1>4 DEF Taken, Given, Logs
<1>6. ThreadsInv
  <2>1. ASSUME NEW r \in Runs PROVE Phase(r)
    BY <1>4 DEF Phase
  <2>2. ASSUME NEW r \in Runs PROVE Flow(r)
    <3>1. \A j : j \notin 1 .. Len(pty[r]) /\ j \notin 1 .. Len(hand[r])
      BY <1>4
    <3>2. Len(hand[r]) <= Taken(r)
      BY <1>4, <1>5
    <3> QED
      BY <3>1, <3>2 DEF Flow
  <2> QED
    BY <2>1, <2>2 DEF ThreadsInv
<1>7. SortedInv
  BY EmptyElements DEF Init, SortedInv
<1>8. CompleteInv
  BY <1>5 DEF CompleteInv
<1> QED
  BY <1>1, <1>2, <1>3, <1>6, <1>7, <1>8 DEF OutputInv

LEMMA InvStays == OutputInv /\ [Next]_vars => OutputInv'
<1> SUFFICES ASSUME OutputInv, [Next]_vars PROVE OutputInv'
  OBVIOUS
<1>0. TypeOK /\ FilesInv /\ FreshInv /\ ThreadsInv /\ SortedInv /\ CompleteInv
  BY DEF OutputInv
<1>1. CASE Next
  <2>1. TypeOK' /\ FilesInv' /\ FreshInv'
    BY <1>0, <1>1, TypesStay, FilesStay, FreshStays
  <2>2. CASE StartSteps
    <3>1. ThreadsInv' /\ GivenKept /\ FilesLose
      BY <1>0, <2>2, StartKeepsThreads, StartLoses
    <3> QED
      BY <1>0, <2>1, <3>1, LoseKeepsLogs DEF OutputInv
  <2>3. ASSUME NEW r \in Runs, TerminalSteps(r) \/ RunActs(r) PROVE OutputInv'
    <3>1. ThreadsInv' /\ GivenKept
      BY <1>0, <2>3, RunKeepsThreads
    <3>2. UNCHANGED <<file, erased, fd, lossy>>
      BY <2>3 DEF TerminalSteps, Says, ChildExits, TerminalCloses, RunActs,
                  RunSteps, RunMay, ReapChild, DrainEnds, Join, WaitFails, Abort,
                  ForwarderJoined, fileVars, captureVars
    <3>3. FilesLose
      BY <1>0, <3>2, SameFiles
    <3> QED
      BY <1>0, <2>1, <3>1, <3>3, LoseKeepsLogs DEF OutputInv
  <2>4. ASSUME NEW r \in Runs, QuietCapture(r) PROVE OutputInv'
    <3>1. ThreadsInv' /\ GivenKept /\ FilesLose
      BY <1>0, <2>1, <2>4, CaptureKeepsThreads, CaptureLoses
    <3> QED
      BY <1>0, <2>1, <3>1, LoseKeepsLogs DEF OutputInv
  <2>5. ASSUME NEW r \in Runs, NEW log \in Logs, WriteLog(r, log) PROVE OutputInv'
    BY <1>0, <2>1, <2>5, WriteKeepsThreads, WriteKeepsLogs DEF OutputInv
  <2> QED
    BY <1>1, <2>2, <2>3, <2>4, <2>5 DEF Next, RunActs, CaptureSteps, QuietCapture
<1>2. CASE UNCHANGED vars
  <2>1. TypeOK'
    BY <1>0, <1>2, TypesStay
  <2>2. /\ UNCHANGED <<latest, start, path, prev, file, erased, run, child, held, said>>
        /\ UNCHANGED <<pty, capture, fd, hand, lossy>>
    BY <1>2 DEF vars, startVars, fileVars, childVars, captureVars
  <2>3. FilesInv' /\ FreshInv'
    BY <1>0, <2>2 DEF FilesInv, FilesOf, FreshInv
  <2>4. ThreadsInv' /\ GivenKept /\ FilesLose
    BY <1>0, <2>2, AllThreads, SameFiles DEF SameThread
  <2> QED
    BY <1>0, <2>1, <2>3, <2>4, LoseKeepsLogs DEF OutputInv
<1> QED
  BY <1>1, <1>2

LEMMA Invariant == Spec => []OutputInv
BY InitInv, InvStays, PTL DEF Spec

\* Types, for any number of runs and pieces, any escapes, PTYs and faults: every
\* file that is named or open has been created.
THEOREM TypeCorrect == Spec => []TypeOK
<1>1. OutputInv => TypeOK
  BY DEF OutputInv
<1> QED
  BY <1>1, Invariant, PTL

\* capture_output: every chunk once and in order, in the files of its run alone,
\* whatever sinks fail and wherever restarts move the files.
THEOREM LogsInOrder == Spec => []LoggedInOrder
<1>1. ASSUME OutputInv PROVE LoggedInOrder
  <2>1. TypeOK /\ SortedInv
    BY <1>1 DEF OutputInv
  <2>2. DOMAIN file = 1 .. Len(file)
    BY <2>1 DEF TypeOK, FileTypes
  <2>3. \A i \in 1 .. Len(file) : DOMAIN file[i] = 1 .. Len(file[i])
    <3>1. \A i \in 1 .. Len(file) : file[i] \in Seq(Pieces)
      BY <2>1, FileContents
    <3> QED
      BY <3>1
  <2>4. \A i \in 1 .. Len(file) : \A piece \in Contents(i) :
          i \in {fd[piece[1]][log] : log \in Logs}
    BY <2>1 DEF SortedInv
  <2> QED
    BY <2>1, <2>2, <2>3, <2>4 DEF SortedInv, LoggedInOrder
<1> QED
  BY <1>1, Invariant, PTL

\* What a terminal was given is logged, in the thread's hands or in the PTY, and
\* nothing else is: nothing is lost, and nothing comes from nowhere.
THEOREM OutputStays == Spec => []OutputConserved
<1>1. ASSUME OutputInv, NEW r \in Runs, "raw" \notin lossy[r]
      PROVE  Said(r) = {piece \in Contents(fd[r]["raw"]) \cup erased : piece[1] = r}
                         \cup ToSet(pty[r]) \cup ToSet(hand[r])
  <2>1. TypeOK /\ ThreadsInv /\ SortedInv /\ CompleteInv
    BY <1>1 DEF OutputInv
  <2> DEFINE low == Given(r, "raw")
  <2>2. "raw" \in Logs
    BY DEF Logs
  <2>3. /\ Taken(r) \in Int /\ low \in Int /\ said[r] \in Int
        /\ 0 <= low /\ low <= Taken(r) /\ Taken(r) <= said[r]
    BY <2>1, <2>2, GivenBounds
  <2>4. /\ Len(pty[r]) \in Nat /\ Len(hand[r]) \in Nat
        /\ pty[r] \in Seq(Pieces) /\ hand[r] \in Seq(Pieces)
    BY <2>1, Numbers
  <2>5. DOMAIN pty[r] = 1 .. Len(pty[r]) /\ said[r] = Taken(r) + Len(pty[r])
    <3>1. said[r] \in Nat
      BY <2>1, Numbers
    <3> QED
      BY <2>4, <3>1 DEF Taken
  <2>6. \A j \in 1 .. Len(pty[r]) : pty[r][j] = <<r, Taken(r) + j>>
    BY <2>1 DEF ThreadsInv, Flow
  <2>7. low = Taken(r) \/ low = Taken(r) - Len(hand[r])
    BY DEF Given
  <2>8. Len(hand[r]) <= Taken(r)
    BY <2>1 DEF ThreadsInv, Flow
  <2> HIDE DEF low
  <2>9. ASSUME NEW n \in 1 .. said[r]
        PROVE  <<r, n>> \in Contents(fd[r]["raw"]) \cup erased \cup ToSet(pty[r])
                              \cup ToSet(hand[r])
    <3>1. CASE n <= low
      <4>1. n \in 1 .. low
        BY <2>3, <3>1
      <4>2. "raw" # "clean"
        OBVIOUS
      <4> QED
        BY <1>1, <2>1, <2>2, <4>1, <4>2 DEF CompleteInv, low
    <3>2. CASE Taken(r) < n
      <4>1. n - Taken(r) \in 1 .. Len(pty[r]) /\ Taken(r) + (n - Taken(r)) = n
        BY <2>3, <2>4, <2>5, <3>2
      <4>2. pty[r][n - Taken(r)] = <<r, n>>
        BY <2>6, <4>1
      <4> QED
        BY <2>5, <4>1, <4>2 DEF ToSet
    <3>3. CASE low < n /\ n <= Taken(r)
      <4>1. n \in (Taken(r) - Len(hand[r])) + 1 .. Taken(r)
        BY <2>3, <2>4, <2>7, <3>3
      <4> QED
        BY <2>1, <4>1, InHand
    <3> QED
      BY <2>3, <3>1, <3>2, <3>3
  <2>10. ASSUME NEW piece \in Contents(fd[r]["raw"]) \cup erased, piece[1] = r
         PROVE  piece \in Said(r)
    <3>1. piece \in Pieces /\ piece[2] <= said[r]
      <4>1. CASE piece \in erased
        BY <2>1, <2>10, <4>1 DEF SortedInv, TypeOK, FileTypes
      <4>2. CASE piece \in Contents(fd[r]["raw"])
        <5>1. fd[r]["raw"] \in 1 .. Len(file)
          BY <2>1, <2>2, <4>2, FileContents
        <5>2. piece \in Pieces
          BY <2>1, <4>2, <5>1, FileContents
        <5>3. PICK l \in Logs : piece[2] <= Given(r, l)
          BY <2>1, <2>10, <4>2, <5>1 DEF SortedInv
        <5>4. Given(r, l) <= said[r] /\ Given(r, l) \in Int
          BY <2>1, <2>3, GivenBounds
        <5> QED
          BY <2>3, <5>2, <5>3, <5>4, PieceParts
      <4> QED
        BY <2>10, <4>1, <4>2
    <3>2. piece = <<r, piece[2]>> /\ piece[2] \in 1 .. said[r]
      BY <2>3, <2>10, <3>1, PieceParts
    <3> QED
      BY <3>2 DEF Said
  <2>11. ASSUME NEW piece \in ToSet(pty[r]) PROVE piece \in Said(r)
    <3>1. PICK j \in 1 .. Len(pty[r]) : piece = <<r, Taken(r) + j>>
      BY <2>5, <2>6 DEF ToSet
    <3>2. Taken(r) + j \in 1 .. said[r]
      BY <2>3, <2>4, <2>5
    <3> QED
      BY <3>1, <3>2 DEF Said
  <2>12. ASSUME NEW piece \in ToSet(hand[r]) PROVE piece \in Said(r)
    <3>1. piece \in Pieces
      BY <2>4 DEF ToSet
    <3>2. piece[1] = r /\ piece[2] <= Taken(r)
      BY <2>1, InHand
    <3>3. piece = <<r, piece[2]>> /\ piece[2] \in 1 .. said[r]
      BY <2>3, <3>1, <3>2, PieceParts
    <3> QED
      BY <3>3 DEF Said
  <2>13. \A piece \in Said(r) : \E n \in 1 .. said[r] : piece = <<r, n>>
    BY DEF Said
  <2>14. \A piece \in Said(r) : piece[1] = r
    BY <2>13
  <2> QED
    BY <2>9, <2>10, <2>11, <2>12, <2>13, <2>14
<1>2. OutputInv => OutputConserved
  BY <1>1 DEF OutputConserved
<1> QED
  BY <1>2, Invariant, PTL

\* A capture thread that has come to the end of the output has logged all of it.
THEOREM EofIsComplete == Spec => []EofMeansComplete
<1>1. ASSUME OutputInv, NEW r \in Runs, NEW log \in Logs, capture[r] = "eof",
             log \notin lossy[r], NEW piece \in Said(r),
             log = "clean" => piece[2] \notin Escapes
      PROVE  piece \in Contents(fd[r][log]) \cup erased
  <2>1. TypeOK /\ ThreadsInv /\ CompleteInv
    BY <1>1 DEF OutputInv
  <2>2. Len(pty[r]) = 0 /\ said[r] \in Nat
    BY <1>1, <2>1, Numbers DEF ThreadsInv, Phase
  <2>3. Given(r, log) = said[r]
    <3>1. capture[r] \notin {"raw", log}
      BY <1>1 DEF Logs
    <3> QED
      BY <2>2, <3>1 DEF Given, Taken
  <2>4. PICK n \in 1 .. said[r] : piece = <<r, n>>
    BY DEF Said
  <2> QED
    BY <1>1, <2>1, <2>3, <2>4 DEF CompleteInv
<1>2. OutputInv => EofMeansComplete
  BY <1>1 DEF EofMeansComplete
<1> QED
  BY <1>2, Invariant, PTL

\* rotate_previous_log: a file that is the previous run's log loses nothing as long
\* as it is, though an old capture thread may still append to it.
THEOREM PrevStays == Spec => PrevKept
<1> DEFINE Kept == \A log \in Logs :
                     prev[log] # None /\ prev'[log] = prev[log] =>
                       IsPrefix(file[prev[log]], file'[prev[log]])
<1>1. ASSUME OutputInv, [Next]_vars, NEW log \in Logs, prev[log] # None,
             prev'[log] = prev[log]
      PROVE  IsPrefix(file[prev[log]], file'[prev[log]])
  <2>0. TypeOK /\ FilesInv
    BY <1>1 DEF OutputInv
  <2> DEFINE i == prev[log]
  <2>1. i \in 1 .. Len(file) /\ file \in Seq(Seq(Pieces))
    BY <1>1, <2>0 DEF TypeOK, FileTypes
  <2>2. file[i] \in Seq(Pieces)
    BY <2>0, <2>1, FileContents
  <2>3. ASSUME file'[i] = file[i] PROVE IsPrefix(file[i], file'[i])
    BY <2>2, <2>3 DEF IsPrefix
  <2>4. ASSUME file' = Append(file, <<>>) PROVE IsPrefix(file[i], file'[i])
    BY <2>1, <2>3, <2>4, FilesGrow
  <2>5. ASSUME NEW l \in Logs, Create(l) PROVE IsPrefix(file[i], file'[i])
    <3>1. CASE path[l] = None
      BY <2>4, <2>5, <3>1 DEF Create
    <3>2. CASE path[l] # None
      <4>1. path[l] # i
        <5>1. path[l] \in FilesOf(l) /\ i \in FilesOf(log)
          BY DEF FilesOf
        <5>2. l = log => path[l] # i
          BY <2>0, <3>2 DEF FilesInv
        <5>3. l # log => path[l] # i
          BY <1>1, <2>0, <5>1 DEF FilesInv, Logs
        <5> QED
          BY <5>2, <5>3
      <4>2. file' = [file EXCEPT ![path[l]] = <<>>]
        BY <2>5, <3>2 DEF Create
      <4>3. file'[i] = file[i]
        BY <2>1, <4>1, <4>2
      <4> QED
        BY <2>3, <4>3
    <3> QED
      BY <3>1, <3>2
  <2>6. ASSUME NEW r \in Runs, NEW l \in Logs, OpenLog(r, l)
        PROVE  IsPrefix(file[i], file'[i])
    <3>1. file' = Append(file, <<>>) \/ file' = file
      BY <2>6 DEF OpenLog
    <3> QED
      BY <2>3, <2>4, <3>1
  <2>7. ASSUME NEW r \in Runs, NEW l \in Logs, WriteLog(r, l)
        PROVE  IsPrefix(file[i], file'[i])
    <3> DEFINE given == Logged(l, hand[r])
    <3>1. PICK n \in 0 .. Len(given) : TakesPieces(r, l, n)
      BY <2>7 DEF WriteLog
    <3> DEFINE s == SubSeq(given, 1, n)
    <3>2. file' = [file EXCEPT ![fd[r][l]] = file[fd[r][l]] \o s]
      BY <3>1 DEF TakesPieces
    <3>3. given \in Seq(Pieces)
      BY <2>0, Numbers, LoggedFacts
    <3> HIDE DEF given
    <3>4. s \in Seq(Pieces)
      BY <3>1, <3>3, FirstElements
    <3> HIDE DEF s
    <3>5. CASE fd[r][l] # i
      <4>1. file'[i] = file[i]
        BY <2>1, <3>2, <3>5
      <4> QED
        BY <2>3, <4>1
    <3>6. CASE fd[r][l] = i
      <4>1. file'[i] = file[i] \o s
        BY <2>1, <3>2, <3>6
      <4> QED
        BY <2>2, <3>4, <4>1, ConcatElements
    <3> QED
      BY <3>5, <3>6
  <2>8. ASSUME UNCHANGED file PROVE IsPrefix(file[i], file'[i])
    BY <2>3, <2>8
  <2>9. CASE Next
    <3>1. ASSUME StartBegins \/ CreateScreen \/ InitializeFails \/ RunBegins
          PROVE  UNCHANGED file
      BY <3>1 DEF StartBegins, CreateScreen, InitializeFails, RunBegins, fileVars
    <3>2. ASSUME NEW l \in Logs, Rotate(l) \/ Rename(l) PROVE UNCHANGED file
      BY <3>2 DEF Rotate, Rename, fileVars
    <3>3. ASSUME NEW r \in Runs, TerminalSteps(r) \/ RunActs(r) PROVE UNCHANGED file
      BY <3>3 DEF TerminalSteps, Says, ChildExits, TerminalCloses, RunActs,
                  RunSteps, RunMay, ReapChild, DrainEnds, Join, WaitFails, Abort,
                  ForwarderJoined, fileVars
    <3>4. ASSUME NEW r \in Runs,
                 \/ CaptureStops(r) \/ CaptureEnds(r) \/ CaptureReads(r)
                 \/ WriteScreen(r) \/ CaptureBreaks(r)
          PROVE  UNCHANGED file
      BY <3>4 DEF CaptureStops, CaptureEnds, CaptureReads, WriteScreen, CaptureBreaks,
                  fileVars
    <3>5. CASE StartSteps
      BY <2>5, <2>8, <3>1, <3>2, <3>5 DEF StartSteps
    <3>6. ASSUME NEW r \in Runs, CaptureSteps(r) \/ CaptureBreaks(r)
          PROVE  IsPrefix(file[i], file'[i])
      BY <2>6, <2>7, <2>8, <3>4, <3>6 DEF CaptureSteps
    <3> QED
      BY <2>8, <2>9, <3>3, <3>5, <3>6 DEF Next, RunActs
  <2>10. CASE UNCHANGED vars
    BY <2>8, <2>10 DEF vars, fileVars
  <2> QED
    BY <1>1, <2>9, <2>10
<1>2. OutputInv /\ [Next]_vars => [Kept]_vars
  BY <1>1
<1> QED
  BY <1>2, Invariant, PTL DEF Spec, PrevKept
====
