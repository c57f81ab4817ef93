-------------------------- MODULE InputPathProofs --------------------------
(***************************************************************************)
(* Proofs about InputPath: a session on record as running has a reader,    *)
(* a forwarder works on the FIFO of its own start, input is neither lost,  *)
(* doubled nor reordered on its way, what a run leaves behind works, and   *)
(* no truncated line is submitted.                                         *)
(*                                                                         *)
(* What depends on the record holds for a run whose generation no other run *)
(* has, and rests on Sound: what the record, and a copy that is going to   *)
(* be saved over it, say of such a run.                                    *)
(***************************************************************************)
EXTENDS InputPath, SequenceTheorems, TLAPS

Works(r) == forward[r] \in {"read", "write"}

\* What the thread of a run does, or what befalls it.
RunActs(r) == RunSteps(r) \/ WaitFails(r)

Opening   == {"idle", "spawn", "record", "record save", "open"}
Promoting == {"promote", "promote save", "setup"}
Over      == {"abort", "mark", "mark save", "done"}

\* Where a run is tells what has become of its child, its FIFO and its forwarder.
Phase(r) ==
  /\ run[r] \in {"idle", "spawn"} => child[r] = "none"
  /\ child[r] = "alive" => terminal[r] /\ run[r] \notin {"join", "mark", "mark save", "done"}
  /\ run[r] \in Opening => fd[r] = None
  /\ run[r] \in Promoting => fd[r] # None
  /\ run[r] \in Opening \cup Promoting => forward[r] = "off"
  /\ run[r] \in {"wait", "join"} => forward[r] # "off"
  /\ run[r] = "wait" /\ child[r] = "alive" => Works(r)
  /\ forward[r] = "off" <=> source[r] = None
  /\ Works(r) => fd[r] = source[r]
  /\ forward[r] = "done" => fd[r] = None
  /\ stop[r] => run[r] \in {"join", "mark", "mark save", "done"}
  /\ run[r] \in Over => (fd[r] # None => Works(r)) /\ (Works(r) => ~stop[r])

\* The start in hand has not made its run yet, and takes the next generation.
StartInv ==
  /\ \A r \in Runs : run[r] # "idle" => r <= latest /\ gen[r] # 0
  /\ start \in {"load", "remove", "make", "save"} => run[latest] = "idle"
  /\ start \in {"remove", "make", "save"} => gen[latest] = record.gen + 1
  /\ start = "save" => path = latest
  /\ halt["start"] # "idle" => start = "await" /\ halt["start"] # "done"

\* status.lock has one holder; its copy is the record, unless a start has saved
\* its own record in between.
RunLocks(r) == run[r] \in {"record save", "promote save", "mark save"}
HaltLocks(h) == halt[h] = "mark save"
Overwritten == /\ start = "await" /\ record.status = "starting" /\ record.child = None
               /\ record.gen = gen[latest] /\ gen[latest] = copy.gen + 1

LockInv ==
  /\ \A r \in Runs : RunLocks(r) =>
       /\ copy.gen = gen[r]
       /\ run[r] # "mark save" => copy.status # "stopped"
       /\ \A q \in Runs : RunLocks(q) => q = r
       /\ \A h \in Halters : ~HaltLocks(h)
  /\ \A h, k \in Halters : HaltLocks(h) /\ HaltLocks(k) => h = k
  /\ Locked => copy = record \/ Overwritten

\* Run r has its generation for itself, but for a start that has made no run.
Alone(r) == run[r] # "idle" /\ \A q \in Runs \ {r} : gen[q] = gen[r] => run[q] = "idle"

\* A record m that says of such a run that it is starting, or running.
StartingOf(m, r) ==
  /\ start = "await" /\ latest = r /\ path = r
  /\ halt["start"] # "idle" => aim["start"].gen = gen[r]
  /\ run[r] \in {"promote", "promote save"} => fd[r] = r
  /\ run[r] \in {"open", "promote", "promote save"} /\ child[r] = "alive" => m.child = r

RunningOf(m, r) ==
  /\ run[r] \in {"setup", "wait", "join"} \cup Over
  /\ child[r] = "alive" /\ run[r] # "abort" =>
       path = r /\ m.child = r /\ start \in {"idle", "await"}

Sound(m) ==
  /\ m.status = "none" => m.gen = 0
  /\ m.child # None => run[m.child] # "idle" /\ gen[m.child] = m.gen
  /\ \A r \in Runs : Alone(r) /\ gen[r] = m.gen =>
       /\ m.status = "starting" => StartingOf(m, r)
       /\ m.status = "running" => RunningOf(m, r)

RecordInv == Sound(record) /\ (Locked => Sound(copy))

\* Such a run has the FIFO of its own start open, and forwards it.
Own(r) == Alone(r) => /\ run[r] = "setup" => fd[r] = r
                      /\ source[r] # None => source[r] = r

PhaseInv == \A r \in Runs : Phase(r)
OwnInv   == \A r \in Runs : Own(r)

Inv1 == TypeOK /\ PhaseInv
Inv2 == StartInv /\ LockInv /\ RecordInv /\ OwnInv

\* What nobody has begun to forward is still there; and what a forwarder that
\* works alone on a FIFO has passed on.
Unread(i) == (\A q \in Runs : source[q] # i) => written[i] = fifo[i]
Forwarded(r) ==
  /\ forward[r] = "off" => hand[r] = <<>> /\ tty[r] = <<>> /\ got[r] = <<>>
  /\ Works(r) /\ Unshared(r) =>
       written[source[r]] = got[r] \o tty[r] \o hand[r] \o fifo[source[r]]

Inv3 == \A r \in Runs : Unread(r) /\ Forwarded(r)

-----------------------------------------------------------------------------
(* Sequences *)

\* A sequence that is cut in two.
LEMMA SubSeqTypes ==
  ASSUME NEW S, NEW q \in Seq(S), NEW n \in 1 .. Len(q)
  PROVE  /\ SubSeq(q, 1, n) \in Seq(S) /\ SubSeq(q, 1, n) # <<>>
         /\ SubSeq(q, n + 1, Len(q)) \in Seq(S)
         /\ SubSeq(q, 1, n) \o SubSeq(q, n + 1, Len(q)) = q
OBVIOUS

LEMMA SplitAfter ==
  ASSUME NEW S, NEW p \in Seq(S), NEW q \in Seq(S)
  PROVE  \A n \in 1 .. Len(q) :
           (p \o SubSeq(q, 1, n)) \o SubSeq(q, n + 1, Len(q)) = p \o q
<1>1. ASSUME NEW a \in Seq(S), NEW b \in Seq(S) PROVE (p \o a) \o b = p \o (a \o b)
  BY ConcatAssociative
<1>2. ASSUME NEW n \in 1 .. Len(q)
      PROVE  (p \o SubSeq(q, 1, n)) \o SubSeq(q, n + 1, Len(q)) = p \o q
  <2> DEFINE x == SubSeq(q, 1, n)
             y == SubSeq(q, n + 1, Len(q))
  <2>1. x \in Seq(S) /\ y \in Seq(S) /\ x \o y = q
    BY SubSeqTypes
  <2> HIDE DEF x, y
  <2>2. (p \o x) \o y = p \o (x \o y)
    BY <1>1, <2>1, Zenon
  <2> QED
    BY <2>1, <2>2 DEF x, y
<1> QED
  BY <1>2

\* A sequence that loses its first element, and one that gets it.
LEMMA HeadAndTail ==
  ASSUME NEW S, NEW q \in Seq(S), q # <<>>
  PROVE  /\ Head(q) \in S /\ Tail(q) \in Seq(S)
         /\ Len(q) = 1 <=> Tail(q) = <<>>
<1>1. Head(q) \in S /\ Tail(q) \in Seq(S) /\ Len(Tail(q)) = Len(q) - 1
  BY HeadTailProperties
<1>2. Len(q) \in Nat \ {0} /\ (Tail(q) # <<>> => Len(Tail(q)) \in Nat \ {0})
  BY <1>1, EmptySeq
<1>3. Tail(q) = <<>> => Len(Tail(q)) = 0
  BY EmptySeq
<1> QED
  BY <1>1, <1>2, <1>3

LEMMA HandOver ==
  ASSUME NEW S, NEW p \in Seq(S), NEW q \in Seq(S), q # <<>>
  PROVE  Append(p, Head(q)) \o Tail(q) = p \o q
OBVIOUS

LEMMA ConcatAppend ==
  ASSUME NEW S, NEW p \in Seq(S), NEW q \in Seq(S), NEW e \in S
  PROVE  p \o Append(q, e) = Append(p \o q, e)
OBVIOUS

LEMMA HandOverAfter ==
  \A p, q, h \in Seq(Pieces) :
    h # <<>> => (p \o Append(q, Head(h))) \o Tail(h) = (p \o q) \o h
<1> SUFFICES ASSUME NEW p \in Seq(Pieces), NEW q \in Seq(Pieces), NEW h \in Seq(Pieces),
                    h # <<>>
             PROVE  (p \o Append(q, Head(h))) \o Tail(h) = (p \o q) \o h
  OBVIOUS
<1>1. Head(h) \in Pieces /\ p \o q \in Seq(Pieces)
  OBVIOUS
<1>2. p \o Append(q, Head(h)) = Append(p \o q, Head(h))
  BY <1>1, ConcatAppend
<1>3. Append(p \o q, Head(h)) \o Tail(h) = (p \o q) \o h
  BY <1>1, HandOver
<1> QED
  BY <1>2, <1>3

-----------------------------------------------------------------------------
(* Steps *)

USE InputAssumption

LEMMA Init12 == Init => Inv1 /\ Inv2
<1> SUFFICES ASSUME Init PROVE Inv1 /\ Inv2
  OBVIOUS
<1>1. TypeOK
  BY DEF Init, NoSession, Runs, None, Halters, TypeOK, RecordType, Statuses, Pieces
<1>2. PhaseInv
  BY DEF Init, PhaseInv, Phase, Works, Opening, Promoting, Over
<1>3. StartInv /\ LockInv
  BY DEF Init, StartInv, LockInv, RunLocks, HaltLocks, Locked, Halters
<1>4. RecordInv /\ OwnInv
  BY DEF Init, NoSession, RecordInv, Sound, OwnInv, Own, Alone, Locked
<1> QED
  BY <1>1, <1>2, <1>3, <1>4 DEF Inv1, Inv2

\* The types one by one.
LEMMA Fields ==
  ASSUME TypeOK
  PROVE  /\ record \in RecordType /\ copy \in RecordType /\ aim \in [Halters -> RecordType]
         /\ gen \in [Runs -> Nat] /\ latest \in Runs \cup {None}
         /\ fd \in [Runs -> Runs \cup {None}] /\ fifo \in [Runs -> Seq(Pieces)]
         /\ \A r \in Runs : forward[r] \in {"read", "write"} => fd[r] # None
BY DEF TypeOK

\* Bytes are pieces, and there is at least one of them.
LEMMA BytesType ==
  ASSUME NEW s \in Sends, NEW p
  PROVE  Bytes(s, p) \in Seq(Pieces) /\ Bytes(s, p) # <<>>
<1>1. CASE p = "text"
  <2>1. Length(s) \in 1 .. TextLength
    BY DEF Length
  <2>2. \A i \in 1 .. Length(s) : <<s, i>> \in Pieces
    BY <2>1 DEF Pieces
  <2>3. Bytes(s, p) = [i \in 1 .. Length(s) |-> <<s, i>>]
    BY <1>1 DEF Bytes
  <2>4. Bytes(s, p) \in [1 .. Length(s) -> Pieces] /\ Bytes(s, p) # <<>>
    BY <2>1, <2>2, <2>3
  <2> QED
    BY <2>1, <2>4, SeqDef
<1>2. CASE p # "text"
  <2>1. <<s, Enter>> \in Pieces
    BY DEF Pieces, Enter
  <2> QED
    BY <1>2, <2>1 DEF Bytes
<1> QED
  BY <1>1, <1>2

\* What a FIFO that is closed keeps is what it held, or nothing.
LEMMA CloseFifoType ==
  ASSUME TypeOK, NEW r \in Runs, CloseFifo(r)
  PROVE  /\ fd' \in [Runs -> Runs \cup {None}] /\ fd' = [fd EXCEPT ![r] = None]
         /\ fifo' \in [Runs -> Seq(Pieces)] /\ written' \in [Runs -> Seq(Pieces)]
BY EmptySeq DEF TypeOK, CloseFifo

LEMMA SendClosesType ==
  ASSUME TypeOK, NEW s \in Sends, SendCloses(s)
  PROVE  /\ wfd' \in [Sends -> Runs \cup {None}] /\ wfd' = [wfd EXCEPT ![s] = None]
         /\ fifo' \in [Runs -> Seq(Pieces)] /\ written' \in [Runs -> Seq(Pieces)]
BY EmptySeq DEF TypeOK, SendCloses

\* The types.
LEMMA TypeStep ==
  ASSUME Inv1, [Next]_vars
  PROVE  TypeOK'
<1>0. TypeOK
  BY DEF Inv1
<1> USE <1>0 DEF recordVars, runVars, pipeVars, inputVars, haltVars, sendVars
<1>1. CASE StartBegins
  <2>1. latest + 1 \in Runs /\ latest + 1 # None
    BY <1>1, Fields DEF StartBegins, Runs, None
  <2> QED
    BY <1>1, <2>1 DEF StartBegins, TypeOK, None
<1>2. CASE InitializeLoad
  <2>1. record.gen + 1 \in Nat
    BY Fields DEF RecordType
  <2> QED
    BY <1>2, <2>1 DEF InitializeLoad, TypeOK
<1>3. CASE RemoveFifo
  BY <1>3 DEF RemoveFifo, TypeOK
<1>4. CASE MakeFifo
  BY <1>4 DEF MakeFifo, TypeOK
<1>5. CASE InitializeSave
  <2>1. latest \in Runs /\ gen[latest] \in Nat
    BY <1>5 DEF InitializeSave, TypeOK
  <2>2. record' \in RecordType
    BY <1>5, <2>1 DEF InitializeSave, RecordType, Statuses, None
  <2> QED
    BY <1>5, <2>1, <2>2 DEF InitializeSave, TypeOK
<1>6. CASE InitializeFails
  BY <1>6 DEF InitializeFails, TypeOK
<1>7. CASE StartAnswered
  BY <1>7 DEF StartAnswered, TypeOK
<1>8. CASE StartTimesOut
  BY <1>8 DEF StartTimesOut, TypeOK, Halters
<1>9. ASSUME NEW k \in Stops, StopBegins(k) PROVE TypeOK'
  BY <1>9 DEF StopBegins, Halters, TypeOK
<1>10. ASSUME NEW h \in Halters, TerminateChild(h) PROVE TypeOK'
  <2>1. aim[h].child \in Runs
    BY <1>10, Fields DEF TerminateChild, ChildExists, RecordType
  <2> DEFINE c == aim[h].child
  <2>2. CASE child[c] = "alive"
    <3>1. /\ child' = [child EXCEPT ![c] = "zombie"]
          /\ \E open \in {TRUE, FALSE} : terminal' = [terminal EXCEPT ![c] = @ /\ open]
      BY <1>10, <2>2 DEF TerminateChild
    <3>2. /\ child \in [Runs -> {"none", "alive", "zombie", "reaped"}]
          /\ terminal \in [Runs -> BOOLEAN]
      BY DEF TypeOK
    <3>3. child' \in [Runs -> {"none", "alive", "zombie", "reaped"}]
      BY <3>1, <3>2, <2>1
    <3>4. PICK open \in BOOLEAN : terminal' = [terminal EXCEPT ![c] = terminal[c] /\ open]
      BY <3>1
    <3>5. terminal' \in [Runs -> BOOLEAN]
      BY <3>2, <3>4, <2>1
    <3>6. /\ halt' = [halt EXCEPT ![h] = "await"]
          /\ UNCHANGED <<recordVars, run, fd, pipeVars, inputVars, aim, sendVars>>
      BY <1>10 DEF TerminateChild
    <3> QED
      BY <3>3, <3>5, <3>6 DEF TypeOK
  <2>3. CASE child[c] # "alive"
    BY <1>10, <2>3 DEF TerminateChild, TypeOK
  <2> QED
    BY <2>2, <2>3
<1>11. ASSUME NEW h \in Halters, NothingToTerminate(h) PROVE TypeOK'
  BY <1>11 DEF NothingToTerminate, TypeOK
<1>12. ASSUME NEW h \in Halters, ChildStays(h) PROVE TypeOK'
  BY <1>12 DEF ChildStays, TypeOK
<1>13. ASSUME NEW h \in Halters, HaltSkips(h) PROVE TypeOK'
  BY <1>13 DEF HaltSkips, HaltEnds, TypeOK, NoSession, RecordType, Statuses, None
<1>14. ASSUME NEW h \in Halters, HaltLoads(h) PROVE TypeOK'
  BY <1>14 DEF HaltLoads, LockAndLoad, TypeOK
<1>15. ASSUME NEW h \in Halters, HaltSaves(h) PROVE TypeOK'
  BY <1>15 DEF HaltSaves, HaltEnds, SaveStopped, SaveAndUnlock, TypeOK, NoSession,
     RecordType, Statuses, None
<1>16. ASSUME NEW r \in Runs, SpawnChild(r) PROVE TypeOK'
  BY <1>16 DEF SpawnChild, Go, TypeOK
<1>17. ASSUME NEW r \in Runs, SpawnFails(r) PROVE TypeOK'
  BY <1>17 DEF SpawnFails, Go, TypeOK
<1>18. ASSUME NEW r \in Runs, RecordLoads(r) PROVE TypeOK'
  BY <1>18 DEF RecordLoads, LockAndLoad, Go, TypeOK
<1>19. ASSUME NEW r \in Runs, RecordSaves(r) PROVE TypeOK'
  <2>1. PICK pid \in {r, None} : SaveAndUnlock([copy EXCEPT !.child = pid])
    BY <1>19 DEF RecordSaves
  <2>2. record' \in RecordType /\ copy' \in RecordType
    <3>1. copy \in RecordType /\ pid \in Runs \cup {None}
      BY DEF TypeOK
    <3> QED
      BY <2>1, <3>1 DEF SaveAndUnlock, RecordType, NoSession, Statuses, None
  <2> QED
    BY <1>19, <2>2 DEF RecordSaves, Go, TypeOK
<1>20. ASSUME NEW r \in Runs, OpenFifo(r) PROVE TypeOK'
  BY <1>20 DEF OpenFifo, Go, TypeOK
<1>21. ASSUME NEW r \in Runs, PromoteLoads(r) PROVE TypeOK'
  BY <1>21 DEF PromoteLoads, LockAndLoad, Go, TypeOK
<1>22. ASSUME NEW r \in Runs, PromoteSaves(r) PROVE TypeOK'
  BY <1>22 DEF PromoteSaves, SaveAndUnlock, Go, TypeOK, NoSession, RecordType,
     Statuses, None
<1>23. ASSUME NEW r \in Runs, StartThreads(r) PROVE TypeOK'
  <2>1. fd[r] # None /\ hand[r] = <<>>
    BY <1>23 DEF StartThreads, Inv1, PhaseInv, Phase, Opening, Promoting, TypeOK
  <2> QED
    BY <1>23, <2>1 DEF StartThreads, Go, TypeOK
<1>24. ASSUME NEW r \in Runs, SetupFails(r) PROVE TypeOK'
  <2>1. CloseFifo(r) /\ forward[r] \notin {"read", "write"}
    BY <1>24 DEF SetupFails, Inv1, PhaseInv, Phase, Opening, Promoting
  <2>2. /\ fd' \in [Runs -> Runs \cup {None}] /\ fd' = [fd EXCEPT ![r] = None]
        /\ fifo' \in [Runs -> Seq(Pieces)] /\ written' \in [Runs -> Seq(Pieces)]
    BY <2>1, CloseFifoType
  <2> QED
    BY <1>24, <2>1, <2>2 DEF SetupFails, Go, TypeOK
<1>25. ASSUME NEW r \in Runs, WaitFails(r) PROVE TypeOK'
  BY <1>25 DEF WaitFails, Go, TypeOK
<1>26. ASSUME NEW r \in Runs, Abort(r) PROVE TypeOK'
  BY <1>26 DEF Abort, Go, TypeOK
<1>27. ASSUME NEW r \in Runs, ReapChild(r) PROVE TypeOK'
  BY <1>27 DEF ReapChild, Go, TypeOK
<1>28. ASSUME NEW r \in Runs, JoinForwarder(r) PROVE TypeOK'
  BY <1>28 DEF JoinForwarder, Go, Pieces, TypeOK
<1>29. ASSUME NEW r \in Runs, RunSkips(r) PROVE TypeOK'
  BY <1>29 DEF RunSkips, Go, TypeOK
<1>30. ASSUME NEW r \in Runs, RunLoads(r) PROVE TypeOK'
  BY <1>30 DEF RunLoads, LockAndLoad, Go, TypeOK
<1>31. ASSUME NEW r \in Runs, RunSaves(r) PROVE TypeOK'
  BY <1>31 DEF RunSaves, SaveStopped, SaveAndUnlock, Go, TypeOK, NoSession, RecordType,
     Statuses, None
<1>32. ASSUME NEW r \in Runs, ForwarderStops(r) PROVE TypeOK'
  <2>1. /\ fd' \in [Runs -> Runs \cup {None}] /\ fd' = [fd EXCEPT ![r] = None]
        /\ fifo' \in [Runs -> Seq(Pieces)] /\ written' \in [Runs -> Seq(Pieces)]
    BY <1>32, CloseFifoType DEF ForwarderStops
  <2> QED
    BY <1>32, <2>1, EmptySeq DEF ForwarderStops, TypeOK
<1>33. ASSUME NEW r \in Runs, ForwarderReads(r) PROVE TypeOK'
  <2> DEFINE i == fd[r]
             n == Smaller(ReadSize, Len(fifo[i]))
             first == SubSeq(fifo[i], 1, n)
             rest == SubSeq(fifo[i], n + 1, Len(fifo[i]))
  <2>1. i \in Runs /\ i # None /\ fifo[i] \in Seq(Pieces) /\ fifo[i] # <<>>
    BY <1>33, Fields DEF ForwarderReads
  <2>2. n \in 1 .. Len(fifo[i])
    BY <2>1, EmptySeq DEF Smaller
  <2>3. first \in Seq(Pieces) /\ first # <<>> /\ rest \in Seq(Pieces)
    BY <2>1, <2>2, SubSeqTypes
  <2>4. /\ hand' = [hand EXCEPT ![r] = first] /\ fifo' = [fifo EXCEPT ![i] = rest]
        /\ forward' = [forward EXCEPT ![r] = "write"]
        /\ UNCHANGED <<recordVars, runVars, written, tty, got, stop, source, haltVars, sendVars>>
    BY <1>33 DEF ForwarderReads
  <2> HIDE DEF first, rest
  <2>5. hand' \in [Runs -> Seq(Pieces)] /\ fifo' \in [Runs -> Seq(Pieces)]
    BY <2>1, <2>3, <2>4 DEF TypeOK
  <2> QED
    BY <2>1, <2>3, <2>4, <2>5, ZenonT(60) DEF TypeOK
<1>34. ASSUME NEW r \in Runs, ForwarderWrites(r) PROVE TypeOK'
  <2>1. hand[r] \in Seq(Pieces) /\ hand[r] # <<>>
    BY <1>34 DEF ForwarderWrites, TypeOK
  <2>2. /\ Head(hand[r]) \in Pieces /\ Tail(hand[r]) \in Seq(Pieces)
        /\ Len(hand[r]) = 1 <=> Tail(hand[r]) = <<>>
    BY <2>1, HeadAndTail
  <2>3. Append(tty[r], Head(hand[r])) \in Seq(Pieces)
    BY <2>2, AppendProperties DEF TypeOK
  <2> QED
    BY <1>34, <2>1, <2>2, <2>3 DEF ForwarderWrites, TypeOK
<1>35. ASSUME NEW r \in Runs, ForwarderFails(r) PROVE TypeOK'
  <2>1. /\ fd' \in [Runs -> Runs \cup {None}] /\ fd' = [fd EXCEPT ![r] = None]
        /\ fifo' \in [Runs -> Seq(Pieces)] /\ written' \in [Runs -> Seq(Pieces)]
    BY <1>35, CloseFifoType DEF ForwarderFails
  <2> QED
    BY <1>35, <2>1, EmptySeq DEF ForwarderFails, TypeOK
<1>36. ASSUME NEW r \in Runs, ChildReads(r) PROVE TypeOK'
  <2>1. tty[r] \in Seq(Pieces) /\ tty[r] # <<>>
    BY <1>36 DEF ChildReads, TypeOK
  <2>2. Head(tty[r]) \in Pieces /\ Tail(tty[r]) \in Seq(Pieces)
    BY <2>1, HeadAndTail
  <2>3. Append(got[r], Head(tty[r])) \in Seq(Pieces)
    BY <2>2, AppendProperties DEF TypeOK
  <2> QED
    BY <1>36, <2>2, <2>3 DEF ChildReads, TypeOK
<1>37. ASSUME NEW r \in Runs, ChildExits(r) PROVE TypeOK'
  BY <1>37 DEF ChildExits, TypeOK
<1>38. ASSUME NEW r \in Runs, TerminalCloses(r) PROVE TypeOK'
  BY <1>38 DEF TerminalCloses, TypeOK
<1>39. ASSUME NEW s \in Sends, SendLoads(s) PROVE TypeOK'
  BY <1>39 DEF SendLoads, Move, TypeOK
<1>40. ASSUME NEW s \in Sends, SendFindsNoReader(s) PROVE TypeOK'
  BY <1>40 DEF SendFindsNoReader, Move, TypeOK
<1>41. ASSUME NEW s \in Sends, SendOpens(s) PROVE TypeOK'
  <2>1. Bytes(s, part[s]) \in Seq(Pieces) /\ Bytes(s, part[s]) # <<>>
    BY BytesType
  <2> QED
    BY <1>41, <2>1 DEF SendOpens, Move, TypeOK
<1>42. ASSUME NEW s \in Sends, SendWrites(s) PROVE TypeOK'
  <2>1. left[s] \in Seq(Pieces) /\ left[s] # <<>> /\ wfd[s] \in Runs
    BY <1>42 DEF SendWrites, TypeOK
  <2>2. /\ Head(left[s]) \in Pieces /\ Tail(left[s]) \in Seq(Pieces)
        /\ Len(left[s]) = 1 <=> Tail(left[s]) = <<>>
    BY <2>1, HeadAndTail
  <2>3. /\ Append(fifo[wfd[s]], Head(left[s])) \in Seq(Pieces)
        /\ Append(written[wfd[s]], Head(left[s])) \in Seq(Pieces)
    BY <2>1, <2>2, AppendProperties DEF TypeOK
  <2>4. /\ fifo' \in [Runs -> Seq(Pieces)] /\ written' \in [Runs -> Seq(Pieces)]
        /\ left' \in [Sends -> Seq(Pieces)] /\ left' = [left EXCEPT ![s] = Tail(@)]
    BY <1>42, <2>1, <2>2, <2>3 DEF SendWrites, Put, TypeOK
  <2>5. AfterPart(s) \in {"pause", "done"}
    BY DEF AfterPart
  <2>6. CASE Len(left[s]) = 1
    <3>1. wfd' = [wfd EXCEPT ![s] = None] /\ send' = [send EXCEPT ![s] = AfterPart(s)]
      BY <1>42, <2>6 DEF SendWrites, Put, Move
    <3> QED
      <4>1. \A z \in Sends : /\ send'[z] = "write" <=> left'[z] # <<>>
                             /\ send'[z] = "write" <=> wfd'[z] # None
        BY <3>1, <2>2, <2>4, <2>5, <2>6, ZenonT(60) DEF TypeOK
      <4>2. /\ send' \in [Sends -> {"idle", "open", "write", "pause", "done", "failed"}]
            /\ wfd' \in [Sends -> Runs \cup {None}]
        BY <3>1, <2>5 DEF TypeOK
      <4> QED
        BY <1>42, <2>4, <4>1, <4>2 DEF SendWrites, Put, TypeOK
  <2>7. CASE Len(left[s]) # 1
    <3>1. wfd' = wfd /\ send' = send
      BY <1>42, <2>7 DEF SendWrites, Put
    <3> QED
      BY <1>42, <3>1, <2>1, <2>2, <2>4, <2>7 DEF SendWrites, TypeOK
  <2> QED
    BY <2>6, <2>7
<1>43. ASSUME NEW s \in Sends, SendBreaks(s) PROVE TypeOK'
  <2>1. /\ wfd' \in [Sends -> Runs \cup {None}] /\ wfd' = [wfd EXCEPT ![s] = None]
        /\ fifo' \in [Runs -> Seq(Pieces)] /\ written' \in [Runs -> Seq(Pieces)]
    BY <1>43, SendClosesType DEF SendBreaks
  <2> QED
    BY <1>43, <2>1, EmptySeq, ZenonT(60) DEF SendBreaks, Move, TypeOK
<1>44. CASE UNCHANGED vars
  BY <1>44 DEF vars, TypeOK
<1> QED
  BY <1>1, <1>2, <1>3, <1>4, <1>5, <1>6, <1>7, <1>8, <1>9, <1>10, <1>11, <1>12,
     <1>13, <1>14, <1>15, <1>16, <1>17, <1>18, <1>19, <1>20, <1>21, <1>22, <1>23,
     <1>24, <1>25, <1>26, <1>27, <1>28, <1>29, <1>30, <1>31, <1>32, <1>33, <1>34,
     <1>35, <1>36, <1>37, <1>38, <1>39, <1>40, <1>41, <1>42, <1>43, <1>44
     DEF Next, StartSteps, HaltSteps, RunSteps, ForwarderSteps, SendSteps

\* A child is only ever ended by a stop.
LEMMA TerminateChildFacts ==
  ASSUME TypeOK, NEW h \in Halters, TerminateChild(h)
  PROVE  \A r \in Runs : /\ child'[r] = "none" <=> child[r] = "none"
                         /\ child'[r] = "alive" => /\ child[r] = "alive"
                                                  /\ terminal'[r] = terminal[r]
<1> DEFINE c == aim[h].child
<1>1. c \in Runs
  BY Fields DEF TerminateChild, ChildExists, RecordType
<1>2. CASE child[c] = "alive"
  <2>1. /\ child' = [child EXCEPT ![c] = "zombie"]
        /\ \E open \in {TRUE, FALSE} : terminal' = [terminal EXCEPT ![c] = @ /\ open]
    BY <1>2 DEF TerminateChild
  <2> HIDE DEF c
  <2> QED
    BY <1>1, <1>2, <2>1 DEF TypeOK
<1>3. CASE child[c] # "alive"
  BY <1>3 DEF TerminateChild
<1> QED
  BY <1>2, <1>3

\* Most steps of a run leave the other runs as they are.
OthersStay(r) ==
  \A q \in Runs \ {r} :
    UNCHANGED <<run[q], child[q], terminal[q], fd[q], forward[q], stop[q], source[q]>>

LEMMA OnePhase ==
  ASSUME PhaseInv, NEW r \in Runs, OthersStay(r), Phase(r)'
  PROVE  PhaseInv'
<1>1. ASSUME NEW q \in Runs \ {r} PROVE Phase(q)'
  <2>1. /\ Phase(q)
        /\ UNCHANGED <<run[q], child[q], terminal[q], fd[q], forward[q], stop[q],
                      source[q]>>
    BY DEF PhaseInv, OthersStay
  <2> QED
    BY <2>1 DEF Phase, Works, Opening, Promoting, Over
<1> QED
  BY <1>1 DEF PhaseInv

\* Where the runs are.
LEMMA PhaseStep ==
  ASSUME TypeOK, StartInv, PhaseInv, [Next]_vars
  PROVE  PhaseInv'
<1> USE DEF recordVars, runVars, pipeVars, inputVars, haltVars, sendVars
<1>1. CASE InitializeSave
  <2>1. PICK n \in Runs : n = latest
    BY <1>1, Fields DEF InitializeSave, TypeOK, None
  <2>2. /\ run[n] = "idle" /\ run' = [run EXCEPT ![n] = "spawn"]
        /\ UNCHANGED <<child, terminal, fd, forward, stop, source>>
    BY <1>1, <2>1 DEF InitializeSave, StartInv
  <2>3. OthersStay(n)
    BY <2>2 DEF OthersStay, TypeOK
  <2>4. Phase(n) /\ run'[n] = "spawn"
    BY <2>2 DEF PhaseInv, TypeOK
  <2>5. Phase(n)'
    BY <2>2, <2>4 DEF Phase, Works, Opening, Promoting, Over
  <2> QED
    BY <2>3, <2>5, OnePhase
<1>2. ASSUME NEW h \in Halters, TerminateChild(h) PROVE PhaseInv'
  <2>1. UNCHANGED <<run, fd, forward, stop, source>>
    BY <1>2 DEF TerminateChild
  <2> QED
    BY <1>2, <2>1, TerminateChildFacts DEF PhaseInv, Phase, Works, Opening, Promoting, Over
<1>3. ASSUME NEW r \in Runs, SpawnChild(r) PROVE PhaseInv'
  <2>1. OthersStay(r)
    BY <1>3 DEF SpawnChild, Go, OthersStay, TypeOK
  <2>2. Phase(r)
    BY DEF PhaseInv
  <2>3. Phase(r)'
    BY <1>3, <2>2 DEF SpawnChild, Go, TypeOK, Phase, Works, Opening, Promoting, Over
  <2> QED
    BY <2>1, <2>3, OnePhase
<1>4. ASSUME NEW r \in Runs, SpawnFails(r) PROVE PhaseInv'
  <2>1. OthersStay(r)
    BY <1>4 DEF SpawnFails, Go, OthersStay, TypeOK
  <2>2. Phase(r)
    BY DEF PhaseInv
  <2>3. Phase(r)'
    BY <1>4, <2>2 DEF SpawnFails, Go, TypeOK, Phase, Works, Opening, Promoting, Over
  <2> QED
    BY <2>1, <2>3, OnePhase
<1>5. ASSUME NEW r \in Runs, RecordLoads(r) PROVE PhaseInv'
  <2>1. OthersStay(r)
    BY <1>5 DEF RecordLoads, Go, OthersStay, TypeOK
  <2>2. Phase(r)
    BY DEF PhaseInv
  <2>3. Phase(r)'
    BY <1>5, <2>2 DEF RecordLoads, Go, TypeOK, Phase, Works, Opening, Promoting, Over
  <2> QED
    BY <2>1, <2>3, OnePhase
<1>6. ASSUME NEW r \in Runs, RecordSaves(r) PROVE PhaseInv'
  <2>1. OthersStay(r)
    BY <1>6 DEF RecordSaves, Go, OthersStay, TypeOK
  <2>2. Phase(r)
    BY DEF PhaseInv
  <2>3. Phase(r)'
    BY <1>6, <2>2 DEF RecordSaves, Go, TypeOK, Phase, Works, Opening, Promoting, Over
  <2> QED
    BY <2>1, <2>3, OnePhase
<1>7. ASSUME NEW r \in Runs, OpenFifo(r) PROVE PhaseInv'
  <2>1. OthersStay(r)
    BY <1>7 DEF OpenFifo, Go, OthersStay, TypeOK
  <2>2. Phase(r)
    BY DEF PhaseInv
  <2>3. Phase(r)'
    BY <1>7, <2>2 DEF OpenFifo, Go, TypeOK, Phase, Works, Opening, Promoting, Over
  <2> QED
    BY <2>1, <2>3, OnePhase
<1>8. ASSUME NEW r \in Runs, PromoteLoads(r) PROVE PhaseInv'
  <2>1. OthersStay(r)
    BY <1>8 DEF PromoteLoads, Go, OthersStay, TypeOK
  <2>2. Phase(r)
    BY DEF PhaseInv
  <2>3. Phase(r)'
    BY <1>8, <2>2 DEF PromoteLoads, Go, TypeOK, Phase, Works, Opening, Promoting, Over
  <2> QED
    BY <2>1, <2>3, OnePhase
<1>9. ASSUME NEW r \in Runs, PromoteSaves(r) PROVE PhaseInv'
  <2>1. OthersStay(r)
    BY <1>9 DEF PromoteSaves, Go, OthersStay, TypeOK
  <2>2. Phase(r)
    BY DEF PhaseInv
  <2>3. Phase(r)'
    BY <1>9, <2>2 DEF PromoteSaves, Go, TypeOK, Phase, Works, Opening, Promoting, Over
  <2> QED
    BY <2>1, <2>3, OnePhase
<1>10. ASSUME NEW r \in Runs, StartThreads(r) PROVE PhaseInv'
  <2>1. OthersStay(r)
    BY <1>10 DEF StartThreads, Go, OthersStay, TypeOK
  <2>2. Phase(r)
    BY DEF PhaseInv
  <2>3. Phase(r)'
    BY <1>10, <2>2 DEF StartThreads, Go, TypeOK, Phase, Works, Opening, Promoting, Over
  <2> QED
    BY <2>1, <2>3, OnePhase
<1>11. ASSUME NEW r \in Runs, SetupFails(r) PROVE PhaseInv'
  <2>1. fd' = [fd EXCEPT ![r] = None]
    BY <1>11, CloseFifoType DEF SetupFails
  <2>2. OthersStay(r)
    BY <1>11, <2>1 DEF SetupFails, Go, OthersStay, TypeOK
  <2>3. Phase(r)
    BY DEF PhaseInv
  <2>4. Phase(r)'
    BY <1>11, <2>1, <2>3 DEF SetupFails, Go, TypeOK, Phase, Works, Opening, Promoting, Over
  <2> QED
    BY <2>2, <2>4, OnePhase
<1>12. ASSUME NEW r \in Runs, WaitFails(r) PROVE PhaseInv'
  <2>1. OthersStay(r)
    BY <1>12 DEF WaitFails, Go, OthersStay, TypeOK
  <2>2. Phase(r)
    BY DEF PhaseInv
  <2>3. Phase(r)'
    BY <1>12, <2>2 DEF WaitFails, Go, TypeOK, Phase, Works, Opening, Promoting, Over
  <2> QED
    BY <2>1, <2>3, OnePhase
<1>13. ASSUME NEW r \in Runs, Abort(r) PROVE PhaseInv'
  <2>1. OthersStay(r)
    BY <1>13 DEF Abort, Go, OthersStay, TypeOK
  <2>2. Phase(r)
    BY DEF PhaseInv
  <2>3. Phase(r)'
    BY <1>13, <2>2 DEF Abort, Go, TypeOK, Phase, Works, Opening, Promoting, Over
  <2> QED
    BY <2>1, <2>3, OnePhase
<1>14. ASSUME NEW r \in Runs, ReapChild(r) PROVE PhaseInv'
  <2>1. OthersStay(r)
    BY <1>14 DEF ReapChild, Go, OthersStay, TypeOK
  <2>2. Phase(r)
    BY DEF PhaseInv
  <2>3. Phase(r)'
    BY <1>14, <2>2 DEF ReapChild, Go, TypeOK, Phase, Works, Opening, Promoting, Over
  <2> QED
    BY <2>1, <2>3, OnePhase
<1>15. ASSUME NEW r \in Runs, JoinForwarder(r) PROVE PhaseInv'
  <2>1. OthersStay(r)
    BY <1>15 DEF JoinForwarder, Go, OthersStay, TypeOK
  <2>2. Phase(r)
    BY DEF PhaseInv
  <2>3. Phase(r)'
    BY <1>15, <2>2 DEF JoinForwarder, Go, TypeOK, Phase, Works, Opening, Promoting, Over
  <2> QED
    BY <2>1, <2>3, OnePhase
<1>16. ASSUME NEW r \in Runs, RunSkips(r) PROVE PhaseInv'
  <2>1. OthersStay(r)
    BY <1>16 DEF RunSkips, Go, OthersStay, TypeOK
  <2>2. Phase(r)
    BY DEF PhaseInv
  <2>3. Phase(r)'
    BY <1>16, <2>2 DEF RunSkips, Go, TypeOK, Phase, Works, Opening, Promoting, Over
  <2> QED
    BY <2>1, <2>3, OnePhase
<1>17. ASSUME NEW r \in Runs, RunLoads(r) PROVE PhaseInv'
  <2>1. OthersStay(r)
    BY <1>17 DEF RunLoads, Go, OthersStay, TypeOK
  <2>2. Phase(r)
    BY DEF PhaseInv
  <2>3. Phase(r)'
    BY <1>17, <2>2 DEF RunLoads, Go, TypeOK, Phase, Works, Opening, Promoting, Over
  <2> QED
    BY <2>1, <2>3, OnePhase
<1>18. ASSUME NEW r \in Runs, RunSaves(r) PROVE PhaseInv'
  <2>1. OthersStay(r)
    BY <1>18 DEF RunSaves, Go, OthersStay, TypeOK
  <2>2. Phase(r)
    BY DEF PhaseInv
  <2>3. Phase(r)'
    BY <1>18, <2>2 DEF RunSaves, Go, TypeOK, Phase, Works, Opening, Promoting, Over
  <2> QED
    BY <2>1, <2>3, OnePhase
<1>19. ASSUME NEW r \in Runs, ForwarderStops(r) PROVE PhaseInv'
  <2>1. fd' = [fd EXCEPT ![r] = None]
    BY <1>19, CloseFifoType DEF ForwarderStops
  <2>2. OthersStay(r)
    BY <1>19, <2>1 DEF ForwarderStops, Go, OthersStay, TypeOK
  <2>3. Phase(r)
    BY DEF PhaseInv
  <2>4. Phase(r)'
    BY <1>19, <2>1, <2>3 DEF ForwarderStops, Go, TypeOK, Phase, Works, Opening, Promoting, Over
  <2> QED
    BY <2>2, <2>4, OnePhase
<1>20. ASSUME NEW r \in Runs, ForwarderReads(r) PROVE PhaseInv'
  <2>1. /\ UNCHANGED <<run, child, terminal, fd, stop, source>>
        /\ forward[r] = "read" /\ forward' = [forward EXCEPT ![r] = "write"]
    BY <1>20 DEF ForwarderReads
  <2>2. OthersStay(r)
    BY <2>1 DEF OthersStay, TypeOK
  <2>3. Phase(r) /\ forward'[r] = "write"
    BY <2>1 DEF PhaseInv, TypeOK
  <2>4. Phase(r)'
    BY <2>1, <2>3 DEF Phase, Works, Opening, Promoting, Over
  <2> QED
    BY <2>2, <2>4, OnePhase
<1>21. ASSUME NEW r \in Runs, ForwarderWrites(r) PROVE PhaseInv'
  <2>1. PICK now \in {"read", "write"} :
          /\ forward[r] = "write" /\ forward' = [forward EXCEPT ![r] = now]
          /\ UNCHANGED <<run, child, terminal, fd, stop, source>>
    BY <1>21 DEF ForwarderWrites
  <2>2. OthersStay(r)
    BY <2>1 DEF OthersStay, TypeOK
  <2>3. Phase(r) /\ forward'[r] = now
    BY <2>1 DEF PhaseInv, TypeOK
  <2>4. Phase(r)'
    BY <2>1, <2>3 DEF Phase, Works, Opening, Promoting, Over
  <2> QED
    BY <2>2, <2>4, OnePhase
<1>22. ASSUME NEW r \in Runs, ForwarderFails(r) PROVE PhaseInv'
  <2>1. fd' = [fd EXCEPT ![r] = None]
    BY <1>22, CloseFifoType DEF ForwarderFails
  <2>2. OthersStay(r)
    BY <1>22, <2>1 DEF ForwarderFails, Go, OthersStay, TypeOK
  <2>3. Phase(r)
    BY DEF PhaseInv
  <2>4. Phase(r)'
    BY <1>22, <2>1, <2>3 DEF ForwarderFails, Go, TypeOK, Phase, Works, Opening, Promoting, Over
  <2> QED
    BY <2>2, <2>4, OnePhase
<1>23. ASSUME NEW r \in Runs, ChildExits(r) PROVE PhaseInv'
  <2>1. OthersStay(r)
    BY <1>23 DEF ChildExits, Go, OthersStay, TypeOK
  <2>2. Phase(r)
    BY DEF PhaseInv
  <2>3. Phase(r)'
    BY <1>23, <2>2 DEF ChildExits, Go, TypeOK, Phase, Works, Opening, Promoting, Over
  <2> QED
    BY <2>1, <2>3, OnePhase
<1>24. ASSUME NEW r \in Runs, TerminalCloses(r) PROVE PhaseInv'
  <2>1. OthersStay(r)
    BY <1>24 DEF TerminalCloses, Go, OthersStay, TypeOK
  <2>2. Phase(r)
    BY DEF PhaseInv
  <2>3. Phase(r)'
    BY <1>24, <2>2 DEF TerminalCloses, Go, TypeOK, Phase, Works, Opening, Promoting, Over
  <2> QED
    BY <2>1, <2>3, OnePhase
<1>25. CASE UNCHANGED <<run, child, terminal, fd, forward, stop, source>>
  BY <1>25 DEF PhaseInv, Phase, Works, Opening, Promoting, Over
<1> QED
  BY <1>1, <1>2, <1>3, <1>4, <1>5, <1>6, <1>7, <1>8, <1>9, <1>10, <1>11, <1>12,
     <1>13, <1>14, <1>15, <1>16, <1>17, <1>18, <1>19, <1>20, <1>21, <1>22, <1>23,
     <1>24, <1>25
     DEF Next, StartSteps, HaltSteps, RunSteps, ForwarderSteps, SendSteps, vars,
         StartBegins, InitializeLoad, RemoveFifo, MakeFifo, InitializeFails,
         StartAnswered, StartTimesOut, StopBegins, NothingToTerminate, ChildStays,
         HaltSkips, HaltLoads, HaltSaves, HaltEnds, ChildReads, SendLoads,
         SendFindsNoReader, SendOpens, SendWrites, SendBreaks

\* A step of a run is a step of one that has been spawned, which stays so.
LEMMA RunMoves ==
  ASSUME TypeOK, NEW r \in Runs, RunActs(r)
  PROVE  /\ run[r] # "idle" /\ run'[r] # "idle"
         /\ \A q \in Runs \ {r} : run'[q] = run[q]
         /\ UNCHANGED <<gen, path, latest, start, halt, aim>>
<1> DEFINE l == run'[r]
<1>1. /\ UNCHANGED <<gen, path, latest, start, halt, aim>>
      /\ run[r] # "idle"
      /\ \E label \in {"record", "mark", "record save", "open", "promote", "promote save",
                       "setup", "wait", "abort", "join", "mark save", "done"} :
           run' = [run EXCEPT ![r] = label]
  BY DEF RunActs, RunSteps, SpawnChild, SpawnFails, RecordLoads, RecordSaves, OpenFifo,
         PromoteLoads, PromoteSaves, StartThreads, SetupFails, WaitFails, Abort,
         ReapChild, JoinForwarder, RunSkips, RunLoads, RunSaves, Go, recordVars, haltVars
<1> QED
  BY <1>1 DEF TypeOK

\* Runs go on, with their generation; only a start makes a run.
LEMMA RunsGoOn ==
  ASSUME TypeOK, StartInv, [Next]_vars
  PROVE  /\ \A r \in Runs : run[r] # "idle" => run'[r] # "idle" /\ gen'[r] = gen[r]
         /\ ~InitializeSave => \A r \in Runs : run[r] = "idle" => run'[r] = "idle"
<1> USE DEF recordVars, runVars, pipeVars, inputVars, haltVars, sendVars
<1>1. CASE InitializeSave
  BY <1>1 DEF InitializeSave, TypeOK
<1>2. CASE InitializeLoad \/ InitializeFails
  <2>1. run' = run /\ run[latest] = "idle" /\ gen \in [Runs -> Nat]
    BY <1>2, Fields DEF InitializeLoad, InitializeFails, StartInv
  <2>2. \A r \in Runs : r # latest => gen'[r] = gen[r]
    BY <1>2, <2>1 DEF InitializeLoad, InitializeFails
  <2> QED
    BY <2>1, <2>2
<1>3. ASSUME NEW r \in Runs, RunActs(r)
      PROVE  \A q \in Runs : /\ run[q] # "idle" <=> run'[q] # "idle"
                             /\ gen'[q] = gen[q]
  <2>1. /\ run[r] # "idle" /\ run'[r] # "idle" /\ gen' = gen
        /\ \A q \in Runs \ {r} : run'[q] = run[q]
    BY <1>3, RunMoves
  <2> QED
    BY <2>1
<1>4. CASE UNCHANGED <<run, gen>>
  BY <1>4
<1> QED
  BY <1>1, <1>2, <1>3, <1>4
     DEF Next, RunActs, StartSteps, HaltSteps, ForwarderSteps, SendSteps, vars,
         StartBegins, RemoveFifo, MakeFifo, StartAnswered, StartTimesOut, StopBegins,
         TerminateChild, NothingToTerminate, ChildStays, HaltSkips, HaltLoads,
         HaltSaves, ForwarderStops, ForwarderReads, ForwarderWrites,
         ForwarderFails, ChildReads, ChildExits, TerminalCloses, SendLoads,
         SendFindsNoReader, SendOpens, SendWrites, SendBreaks

-----------------------------------------------------------------------------
(* The lock *)

LEMMA LockedIs ==
  /\ Locked <=> (\E r \in Runs : RunLocks(r)) \/ (\E h \in Halters : HaltLocks(h))
  /\ Locked' <=> (\E r \in Runs : RunLocks(r)') \/ (\E h \in Halters : HaltLocks(h)')
BY DEF Locked, RunLocks, HaltLocks

\* The lock is taken, by a run or by a request, and released.
LEMMA RunTakes ==
  ASSUME TypeOK, NEW r \in Runs, NEW l \in {"record save", "promote save", "mark save"},
         LockAndLoad, run' = [run EXCEPT ![r] = l], UNCHANGED <<record, gen, halt>>,
         record.gen = gen[r], l # "mark save" => record.status # "stopped"
  PROVE  LockInv'
<1>1. copy' = record /\ \A q \in Runs : ~RunLocks(q)
  BY LockedIs DEF LockAndLoad
<1>2. \A h \in Halters : ~HaltLocks(h)'
  BY LockedIs DEF LockAndLoad, HaltLocks
<1>3. run'[r] = l /\ \A q \in Runs : RunLocks(q)' => q = r
  BY <1>1 DEF RunLocks, TypeOK
<1> QED
  BY <1>1, <1>2, <1>3 DEF LockInv

LEMMA HaltTakes ==
  ASSUME TypeOK, NEW h \in Halters, LockAndLoad, halt' = [halt EXCEPT ![h] = "mark save"],
         UNCHANGED <<record, run>>
  PROVE  LockInv'
<1>1. copy' = record /\ \A k \in Halters : ~HaltLocks(k)
  BY LockedIs DEF LockAndLoad
<1>2. \A q \in Runs : ~RunLocks(q)'
  BY LockedIs DEF LockAndLoad, RunLocks
<1>3. \A k \in Halters : HaltLocks(k)' => k = h
  BY <1>1 DEF HaltLocks, TypeOK
<1> QED
  BY <1>1, <1>2, <1>3 DEF LockInv

LEMMA RunReleases ==
  ASSUME TypeOK, LockInv, NEW r \in Runs, RunLocks(r), NEW l,
         l \notin {"record save", "promote save", "mark save"},
         run' = [run EXCEPT ![r] = l], halt' = halt
  PROVE  LockInv' /\ ~Locked'
<1>1. \A q \in Runs : ~RunLocks(q)'
  BY DEF LockInv, RunLocks, TypeOK
<1>2. \A h \in Halters : ~HaltLocks(h)'
  BY DEF LockInv, HaltLocks
<1>3. ~Locked'
  BY <1>1, <1>2, LockedIs
<1> QED
  BY <1>1, <1>2, <1>3 DEF LockInv

LEMMA HaltReleases ==
  ASSUME TypeOK, LockInv, NEW h \in Halters, HaltLocks(h), HaltEnds(h), run' = run
  PROVE  LockInv' /\ ~Locked'
<1>1. \A q \in Runs : ~RunLocks(q)'
  BY DEF LockInv, RunLocks
<1>2. \A k \in Halters : ~HaltLocks(k)'
  BY DEF LockInv, HaltLocks, HaltEnds, TypeOK
<1>3. ~Locked'
  BY <1>1, <1>2, LockedIs
<1> QED
  BY <1>1, <1>2, <1>3 DEF LockInv

\* The lock changes no hands.
LEMMA LockStays ==
  ASSUME LockInv, UNCHANGED <<record, copy>>,
         \A r \in Runs : RunLocks(r)' => /\ RunLocks(r) /\ run'[r] = run[r]
                                         /\ gen'[r] = gen[r],
         \A h \in Halters : HaltLocks(h)' => HaltLocks(h),
         Overwritten => Overwritten'
  PROVE  LockInv'
<1>1. Locked' => copy' = record' \/ Overwritten'
  BY LockedIs DEF LockInv
<1>2. ASSUME NEW r \in Runs, RunLocks(r)'
      PROVE  /\ copy'.gen = gen'[r] /\ (run'[r] # "mark save" => copy'.status # "stopped")
             /\ \A q \in Runs : RunLocks(q)' => q = r
             /\ \A h \in Halters : ~HaltLocks(h)'
  <2>1. RunLocks(r) /\ run'[r] = run[r] /\ gen'[r] = gen[r] /\ copy' = copy
    BY <1>2
  <2>2. \A q \in Runs : RunLocks(q) => q = r
    BY <2>1 DEF LockInv
  <2>3. \A h \in Halters : ~HaltLocks(h)
    BY <2>1 DEF LockInv
  <2>4. copy.gen = gen[r] /\ (run[r] # "mark save" => copy.status # "stopped")
    BY <2>1 DEF LockInv
  <2> QED
    BY <2>1, <2>2, <2>3, <2>4
<1>3. \A h, k \in Halters : HaltLocks(h)' /\ HaltLocks(k)' => h = k
  BY DEF LockInv
<1> QED
  BY <1>1, <1>2, <1>3 DEF LockInv

LEMMA LockStep ==
  ASSUME TypeOK, StartInv, LockInv, [Next]_vars
  PROVE  LockInv'
<1> USE DEF recordVars, runVars, pipeVars, inputVars, haltVars, sendVars
<1>1. CASE InitializeSave
  <2>1. /\ run' = [run EXCEPT ![latest] = "spawn"] /\ run[latest] = "idle"
        /\ start = "save" /\ start' = "await" /\ gen[latest] = record.gen + 1
        /\ record' = [status |-> "starting", gen |-> gen[latest], child |-> None]
        /\ UNCHANGED <<copy, gen, latest, halt>>
    BY <1>1 DEF InitializeSave, StartInv
  <2>2. \A r \in Runs : RunLocks(r)' => RunLocks(r) /\ run'[r] = run[r]
    BY <2>1 DEF RunLocks, TypeOK
  <2>3. \A h \in Halters : HaltLocks(h)' <=> HaltLocks(h)
    BY <2>1 DEF HaltLocks
  <2>4. Locked' => Locked
    BY <2>2, <2>3, LockedIs
  <2>5. Locked => Overwritten'
    BY <2>1 DEF LockInv, Overwritten
  <2> QED
    BY <2>1, <2>2, <2>3, <2>4, <2>5 DEF LockInv
<1>2. CASE InitializeLoad \/ InitializeFails
  <2>1. /\ UNCHANGED <<run, halt, record, copy>> /\ start # "await"
    BY <1>2 DEF InitializeLoad, InitializeFails
  <2> QED
    BY <1>2, <2>1, RunsGoOn, LockStays DEF RunLocks, HaltLocks, Overwritten
<1>3. CASE StartAnswered
  BY <1>3, LockStays DEF StartAnswered, RunLocks, HaltLocks, Overwritten
<1>4. CASE StartTimesOut
  BY <1>4, LockStays DEF StartTimesOut, RunLocks, HaltLocks, Overwritten, Halters, TypeOK
<1>5. ASSUME NEW k \in Stops, StopBegins(k) PROVE LockInv'
  BY <1>5, LockStays DEF StopBegins, RunLocks, HaltLocks, Overwritten, Halters, TypeOK
<1>6. ASSUME NEW h \in Halters, TerminateChild(h) \/ NothingToTerminate(h) \/ ChildStays(h)
      PROVE  LockInv'
  <2>1. /\ UNCHANGED <<record, copy, gen, latest, start, run>>
        /\ \E l \in {"await", "mark", "done"} : halt' = [halt EXCEPT ![h] = l]
    BY <1>6 DEF TerminateChild, NothingToTerminate, ChildStays
  <2>2. \A k \in Halters : HaltLocks(k)' => HaltLocks(k)
    BY <2>1 DEF HaltLocks, TypeOK
  <2> QED
    BY <2>1, <2>2, LockStays DEF RunLocks, Overwritten
<1>7. ASSUME NEW h \in Halters, HaltSkips(h) PROVE LockInv'
  <2>1. ~Locked /\ UNCHANGED <<record, copy, gen, run>>
        /\ \A k \in Halters : HaltLocks(k)' => HaltLocks(k)
    BY <1>7 DEF HaltSkips, HaltEnds, HaltLocks, TypeOK
  <2>2. ~Locked'
    BY <2>1, LockedIs DEF RunLocks
  <2> QED
    BY <2>1, <2>2, LockedIs DEF LockInv, RunLocks
<1>8. ASSUME NEW h \in Halters, HaltLoads(h) PROVE LockInv'
  BY <1>8, HaltTakes DEF HaltLoads
<1>9. ASSUME NEW h \in Halters, HaltSaves(h) PROVE LockInv'
  BY <1>9, HaltReleases DEF HaltSaves, HaltLocks
<1>10. ASSUME NEW r \in Runs, RecordLoads(r) \/ PromoteLoads(r) PROVE LockInv'
  <2>1. PICK l \in {"record save", "promote save"} :
          /\ LockAndLoad /\ run' = [run EXCEPT ![r] = l] /\ UNCHANGED <<record, gen, halt>>
          /\ record.gen = gen[r] /\ record.status # "stopped"
    BY <1>10 DEF RecordLoads, PromoteLoads, RunIsLive, Go
  <2> QED
    BY <2>1, RunTakes
<1>11. ASSUME NEW r \in Runs, RunLoads(r) PROVE LockInv'
  <2>1. /\ LockAndLoad /\ run' = [run EXCEPT ![r] = "mark save"]
        /\ UNCHANGED <<record, gen, halt>> /\ record.gen = gen[r]
    BY <1>11 DEF RunLoads, MayMark, Go
  <2> QED
    BY <2>1, RunTakes
<1>12. ASSUME NEW r \in Runs, RecordSaves(r) \/ PromoteSaves(r) \/ RunSaves(r)
       PROVE  LockInv'
  <2>1. PICK l \in {"open", "setup", "done"} :
          RunLocks(r) /\ run' = [run EXCEPT ![r] = l] /\ halt' = halt
    BY <1>12 DEF RecordSaves, PromoteSaves, RunSaves, RunLocks, Go
  <2> QED
    BY <2>1, RunReleases
<1>13. ASSUME NEW r \in Runs,
              \/ SpawnChild(r) \/ SpawnFails(r) \/ OpenFifo(r) \/ StartThreads(r)
              \/ SetupFails(r) \/ WaitFails(r) \/ Abort(r) \/ ReapChild(r)
              \/ JoinForwarder(r) \/ RunSkips(r)
       PROVE  LockInv'
  <2>1. PICK l \in {"record", "mark", "promote", "wait", "abort", "join", "done"} :
          /\ run' = [run EXCEPT ![r] = l]
          /\ UNCHANGED <<record, copy, gen, latest, start, halt>>
    BY <1>13 DEF SpawnChild, SpawnFails, OpenFifo, StartThreads, SetupFails, WaitFails,
                 Abort, ReapChild, JoinForwarder, RunSkips, Go
  <2>2. \A q \in Runs : RunLocks(q)' => RunLocks(q) /\ run'[q] = run[q]
    BY <2>1 DEF RunLocks, TypeOK
  <2> QED
    BY <2>1, <2>2, LockStays DEF HaltLocks, Overwritten
<1>14. CASE StartBegins \/ RemoveFifo \/ MakeFifo
  <2>1. UNCHANGED <<record, copy, gen, run, halt>> /\ start # "await"
    BY <1>14 DEF StartBegins, RemoveFifo, MakeFifo
  <2> QED
    BY <2>1, LockStays DEF RunLocks, HaltLocks, Overwritten
<1>15. CASE UNCHANGED <<record, copy, gen, latest, start, run, halt>>
  BY <1>15, LockStays DEF RunLocks, HaltLocks, Overwritten
<1> QED
  BY <1>1, <1>2, <1>3, <1>4, <1>5, <1>6, <1>7, <1>8, <1>9, <1>10, <1>11, <1>12, <1>13,
     <1>14, <1>15
     DEF Next, StartSteps, HaltSteps, RunActs, RunSteps, ForwarderSteps, SendSteps, vars,
         ForwarderStops, ForwarderReads, ForwarderWrites, ForwarderFails,
         ChildReads, ChildExits, TerminalCloses, SendLoads, SendFindsNoReader,
         SendOpens, SendWrites, SendBreaks

-----------------------------------------------------------------------------
(* The start in hand *)

\* While a start makes its files no other save changes the generation on record.
LEMMA GenStays ==
  ASSUME TypeOK, LockInv, [Next]_vars, start # "await", ~InitializeSave
  PROVE  record'.gen = record.gen
<1> USE DEF recordVars, runVars, pipeVars, inputVars, haltVars, sendVars
<1>1. Locked => copy.gen = record.gen
  BY DEF LockInv, Overwritten
<1>2. ASSUME NEW h \in Halters, HaltSaves(h) PROVE record'.gen = record.gen
  BY <1>1, <1>2, Fields, LockedIs
     DEF HaltSaves, HaltLocks, SaveStopped, SaveAndUnlock, RecordType
<1>3. ASSUME NEW r \in Runs, RecordSaves(r) \/ PromoteSaves(r) \/ RunSaves(r)
      PROVE  record'.gen = record.gen
  BY <1>1, <1>3, Fields, LockedIs
     DEF RecordSaves, PromoteSaves, RunSaves, RunLocks, SaveStopped, SaveAndUnlock,
         RecordType
<1>4. CASE UNCHANGED record
  BY <1>4
<1> QED
  BY <1>2, <1>3, <1>4
     DEF Next, StartSteps, HaltSteps, RunActs, RunSteps, ForwarderSteps, SendSteps, vars,
         StartBegins, InitializeLoad, RemoveFifo, MakeFifo, InitializeFails,
         StartAnswered, StartTimesOut, StopBegins, TerminateChild,
         NothingToTerminate, ChildStays, HaltSkips, HaltLoads, SpawnChild, SpawnFails,
         RecordLoads, OpenFifo, PromoteLoads, StartThreads, SetupFails, WaitFails,
         Abort, ReapChild, JoinForwarder, RunSkips, RunLoads, ForwarderStops,
         ForwarderReads, ForwarderWrites, ForwarderFails, ChildReads, ChildExits,
         TerminalCloses, SendLoads, SendFindsNoReader, SendOpens, SendWrites,
         SendBreaks

LEMMA StartStep ==
  ASSUME TypeOK, StartInv, LockInv, [Next]_vars
  PROVE  StartInv'
<1> USE DEF recordVars, runVars, pipeVars, inputVars, haltVars, sendVars
<1>1. CASE StartBegins
  <2>1. latest \in Nat /\ latest + 1 \in Runs
    BY <1>1, Fields DEF StartBegins, Runs, None
  <2>2. /\ latest' = latest + 1 /\ start' = "load" /\ start = "idle"
        /\ UNCHANGED <<record, gen, run, path, halt>>
    BY <1>1 DEF StartBegins
  <2>3. \A r \in Runs : run[r] # "idle" => r <= latest /\ gen[r] # 0
    BY DEF StartInv
  <2>4. \A r \in Runs : r <= latest => r <= latest + 1
    BY <2>1 DEF Runs
  <2>5. run[latest + 1] = "idle"
    BY <2>1, <2>3
  <2> QED
    BY <2>2, <2>3, <2>4, <2>5 DEF StartInv
<1>2. CASE InitializeLoad
  <2>1. /\ start = "load" /\ start' = "remove" /\ latest \in Runs
        /\ gen' = [gen EXCEPT ![latest] = record.gen + 1]
        /\ UNCHANGED <<record, latest, run, path, halt>>
    BY <1>2 DEF InitializeLoad, TypeOK
  <2>2. gen'[latest] = record.gen + 1
    BY <2>1, Fields
  <2>3. \A r \in Runs : run[r] # "idle" => gen'[r] = gen[r]
    BY <1>2, RunsGoOn
  <2> QED
    BY <2>1, <2>2, <2>3 DEF StartInv
<1>3. CASE RemoveFifo
  BY <1>3 DEF RemoveFifo, StartInv
<1>4. CASE MakeFifo
  BY <1>4 DEF MakeFifo, StartInv
<1>5. CASE InitializeSave
  <2>1. /\ start = "save" /\ start' = "await" /\ gen[latest] = record.gen + 1
        /\ run' = [run EXCEPT ![latest] = "spawn"] /\ latest \in Runs
        /\ UNCHANGED <<gen, latest, halt>>
    BY <1>5 DEF InitializeSave, StartInv, TypeOK
  <2>2. gen[latest] # 0 /\ latest <= latest
    BY <2>1, Fields DEF RecordType, Runs
  <2>3. \A r \in Runs \ {latest} : run'[r] = run[r]
    BY <2>1
  <2> QED
    BY <2>1, <2>2, <2>3 DEF StartInv
<1>6. CASE InitializeFails
  <2>1. \A r \in Runs : run[r] # "idle" => gen'[r] = gen[r]
    BY <1>6, RunsGoOn
  <2> QED
    BY <1>6, <2>1 DEF InitializeFails, StartInv
<1>7. CASE StartAnswered
  BY <1>7 DEF StartAnswered, StartInv
<1>8. CASE StartTimesOut
  BY <1>8 DEF StartTimesOut, StartInv, Halters, TypeOK
<1>9. ASSUME NEW k \in Stops, StopBegins(k) PROVE StartInv'
  BY <1>9 DEF StopBegins, StartInv, Halters, TypeOK
<1>10. ASSUME NEW h \in Halters, HaltSteps(h) PROVE StartInv'
  <2>1. UNCHANGED <<run, gen, latest, path>> /\ halt[h] # "idle"
    BY <1>10 DEF HaltSteps, TerminateChild, NothingToTerminate, ChildStays, HaltSkips,
                 HaltLoads, HaltSaves
  <2>2. start' = start \/ start' = "idle"
    BY <1>10 DEF HaltSteps, TerminateChild, NothingToTerminate, ChildStays, HaltSkips,
                 HaltLoads, HaltSaves, HaltEnds
  <2>3. halt'["start"] # "idle" =>
          halt["start"] # "idle" /\ halt'["start"] # "done" /\ start' = start
    <3>1. "start" \in Halters
      BY DEF Halters
    <3>2. CASE TerminateChild(h) \/ NothingToTerminate(h) \/ ChildStays(h) \/ HaltLoads(h)
      BY <2>1, <3>1, <3>2 DEF TerminateChild, NothingToTerminate, ChildStays, HaltLoads,
         StartInv, TypeOK
    <3>3. CASE HaltSkips(h) \/ HaltSaves(h)
      BY <2>1, <3>1, <3>3 DEF HaltSkips, HaltSaves, HaltEnds, StartInv, TypeOK
    <3> QED
      BY <1>10, <3>2, <3>3 DEF HaltSteps
  <2>4. start' \notin {"await", "idle"} => record'.gen = record.gen
    <3>1. ~InitializeSave \/ start' = "await"
      BY DEF InitializeSave
    <3> QED
      BY <1>10, <2>2, <3>1, GenStays DEF Next
  <2> QED
    BY <2>1, <2>2, <2>3, <2>4 DEF StartInv
<1>11. ASSUME NEW r \in Runs, RunActs(r) PROVE StartInv'
  <2>1. UNCHANGED <<gen, latest, start, path, halt>>
    BY <1>11, RunMoves
  <2>2. \A q \in Runs : run'[q] # "idle" <=> run[q] # "idle"
    BY <1>11, RunMoves
  <2>3. start \notin {"await", "idle"} => record'.gen = record.gen
    <3>1. start # "await" => ~InitializeSave
      BY <2>1 DEF InitializeSave
    <3> QED
      BY <1>11, <3>1, GenStays DEF Next
  <2>4. start \in {"load", "remove", "make", "save"} => latest \in Runs
    BY DEF TypeOK
  <2> QED
    BY <2>1, <2>2, <2>3, <2>4 DEF StartInv
<1>12. CASE UNCHANGED <<record, gen, path, latest, start, run, halt>>
  BY <1>12 DEF StartInv
<1> QED
  BY <1>1, <1>2, <1>3, <1>4, <1>5, <1>6, <1>7, <1>8, <1>9, <1>10, <1>11, <1>12
     DEF Next, RunActs, StartSteps, ForwarderSteps, SendSteps, vars,
         ForwarderStops, ForwarderReads, ForwarderWrites, ForwarderFails,
         ChildReads, ChildExits, TerminalCloses, SendLoads, SendFindsNoReader,
         SendOpens, SendWrites, SendBreaks

-----------------------------------------------------------------------------
(* The record *)

\* A run that is alone has been so since it was spawned.
LEMMA AloneBefore ==
  ASSUME TypeOK, StartInv, [Next]_vars, NEW r \in Runs, run[r] # "idle", Alone(r)'
  PROVE  Alone(r) /\ gen'[r] = gen[r]
BY RunsGoOn DEF Alone

\* What is said of a record has only to be kept for the run that it is about.
LEMMA SoundStays ==
  ASSUME TypeOK, StartInv, [Next]_vars, ~InitializeSave,
         NEW m \in RecordType, Sound(m),
         \A r \in Runs : Alone(r) /\ gen[r] = m.gen =>
           /\ m.status = "starting" /\ StartingOf(m, r) => StartingOf(m, r)'
           /\ m.status = "running" /\ RunningOf(m, r) => RunningOf(m, r)'
  PROVE  Sound(m)'
<1>1. m.child # None => m.child \in Runs
  BY DEF RecordType
<1>2. m.child # None => run'[m.child] # "idle" /\ gen'[m.child] = m.gen
  BY <1>1, RunsGoOn DEF Sound
<1>3. ASSUME NEW r \in Runs, Alone(r)', gen'[r] = m.gen
      PROVE  /\ m.status = "starting" => StartingOf(m, r)'
             /\ m.status = "running" => RunningOf(m, r)'
  <2>1. run[r] # "idle"
    BY <1>3, RunsGoOn DEF Alone
  <2>2. Alone(r) /\ gen[r] = m.gen
    BY <1>3, <2>1, AloneBefore
  <2> QED
    BY <2>2 DEF Sound
<1> QED
  BY <1>2, <1>3 DEF Sound

\* So it is kept by all steps that save no record.
LEMMA SubjectStays ==
  ASSUME TypeOK, PhaseInv, StartInv, LockInv, [Next]_vars, ~InitializeSave,
         \A h \in Halters : ~HaltSaves(h),
         \A r \in Runs : ~RecordSaves(r) /\ ~PromoteSaves(r) /\ ~RunSaves(r),
         NEW m \in RecordType, Sound(m), m = record \/ (Locked /\ m = copy)
  PROVE  Sound(m)'
<1> USE DEF recordVars, runVars, pipeVars, inputVars, haltVars, sendVars
<1> DEFINE Kept(r) == /\ m.status = "starting" /\ StartingOf(m, r) => StartingOf(m, r)'
                      /\ m.status = "running" /\ RunningOf(m, r) => RunningOf(m, r)'
<1> SUFFICES ASSUME NEW r \in Runs, gen[r] = m.gen PROVE Kept(r)
  BY SoundStays
<1>0. m = record \/ (m = copy /\ Overwritten /\ Locked)
  BY DEF LockInv
<1>1. CASE StartBegins
  <2>1. start = "idle" /\ ~SessionIsActive /\ UNCHANGED <<run, child, path>>
    BY <1>1 DEF StartBegins
  <2>2. m = record /\ ~StartingOf(m, r)
    BY <1>0, <2>1 DEF Overwritten, StartingOf
  <2>3. m.status = "running" /\ RunningOf(m, r) => child[r] # "alive" \/ run[r] = "abort"
    BY <2>1, <2>2 DEF RunningOf, SessionIsActive, ChildExists, Runs, None
  <2> QED
    BY <2>1, <2>2, <2>3 DEF RunningOf
<1>2. CASE InitializeLoad \/ RemoveFifo \/ MakeFifo \/ InitializeFails
  <2>1. start \notin {"idle", "await"} /\ UNCHANGED <<run, child>>
    BY <1>2 DEF InitializeLoad, RemoveFifo, MakeFifo, InitializeFails
  <2> QED
    BY <2>1 DEF StartingOf, RunningOf
<1>3. CASE StartAnswered
  <2>1. /\ record.status # "starting" /\ start = "await" /\ start' = "idle"
        /\ UNCHANGED <<run, child, path>>
    BY <1>3 DEF StartAnswered
  <2>2. m.status # "starting"
    BY <1>0, <2>1 DEF Overwritten
  <2> QED
    BY <2>1, <2>2 DEF RunningOf
<1>4. CASE StartTimesOut
  <2>1. /\ aim' = [aim EXCEPT !["start"] = record]
        /\ UNCHANGED <<run, child, path, fd, start, latest, gen>>
    BY <1>4 DEF StartTimesOut
  <2>2. StartingOf(m, r) => m = record
    <3>1. \A n \in Nat : n + 1 # n
      OBVIOUS
    <3>2. m.gen \in Nat
      BY DEF RecordType
    <3>3. StartingOf(m, r) /\ m # record => m.gen = m.gen + 1
      BY <1>0 DEF Overwritten, StartingOf
    <3> QED
      BY <3>1, <3>2, <3>3
  <2>3. aim'["start"] = record
    BY <2>1, Fields DEF Halters
  <2> QED
    BY <2>1, <2>2, <2>3 DEF StartingOf, RunningOf
<1>5. ASSUME NEW k \in Stops, StopBegins(k) PROVE Kept(r)
  <2>1. /\ UNCHANGED <<run, child, path, fd, start, latest, gen>>
        /\ halt'["start"] = halt["start"] /\ aim'["start"] = aim["start"]
    BY <1>5 DEF StopBegins
  <2> QED
    BY <2>1 DEF StartingOf, RunningOf
<1>6. ASSUME NEW h \in Halters,
             TerminateChild(h) \/ NothingToTerminate(h) \/ ChildStays(h) \/ HaltLoads(h)
      PROVE  Kept(r)
  <2>1. /\ UNCHANGED <<run, path, fd, start, latest, gen, aim>> /\ halt[h] # "idle"
        /\ \A k \in Halters \ {h} : halt'[k] = halt[k]
    BY <1>6 DEF TerminateChild, NothingToTerminate, ChildStays, HaltLoads, TypeOK
  <2>2. child'[r] = "alive" => child[r] = "alive"
    <3>1. CASE TerminateChild(h)
      BY <3>1, TerminateChildFacts
    <3>2. CASE NothingToTerminate(h) \/ ChildStays(h) \/ HaltLoads(h)
      BY <3>2 DEF NothingToTerminate, ChildStays, HaltLoads
    <3> QED
      BY <1>6, <3>1, <3>2
  <2>3. halt'["start"] # "idle" => halt["start"] # "idle"
    BY <2>1 DEF Halters
  <2> QED
    BY <2>1, <2>2, <2>3 DEF StartingOf, RunningOf
<1>7. ASSUME NEW h \in Halters, HaltSkips(h) PROVE Kept(r)
  <2>1. /\ UNCHANGED <<run, child, path, fd, latest, gen>> /\ ~Locked /\ m = record
        /\ halt[h] = "mark" /\ HaltEnds(h) /\ ~MayMark(aim[h].gen)
    BY <1>0, <1>7 DEF HaltSkips
  <2>2. CASE h = "start"
    <3>1. start' = "idle"
      BY <2>1, <2>2 DEF HaltEnds
    <3>2. m.status = "starting" => ~StartingOf(m, r)
      BY <2>1, <2>2 DEF StartingOf, MayMark
    <3> QED
      BY <2>1, <3>1, <3>2 DEF RunningOf
  <2>3. CASE h # "start"
    <3>1. start' = start /\ halt'["start"] = halt["start"] /\ aim'["start"] = aim["start"]
      BY <2>1, <2>3 DEF HaltEnds, Halters, TypeOK
    <3> QED
      BY <2>1, <3>1 DEF StartingOf, RunningOf
  <2> QED
    BY <2>2, <2>3
<1>8. ASSUME NEW q \in Runs, RunActs(q) PROVE Kept(r)
  <2>1. UNCHANGED <<gen, path, latest, start, halt, aim>>
    BY <1>8, RunMoves
  <2>2. CASE r # q
    <3>1. run'[r] = run[r] /\ child'[r] = child[r] /\ fd'[r] = fd[r]
      <4>1. run'[r] = run[r]
        BY <1>8, <2>2, RunMoves
      <4>2. fd'[r] = fd[r]
        <5>1. ASSUME SetupFails(q) PROVE fd'[r] = fd[r]
          BY <2>2, <5>1, CloseFifoType, Fields DEF SetupFails
        <5> QED
          BY <1>8, <2>2, <5>1, Fields
             DEF RunActs, RunSteps, SpawnChild, SpawnFails, RecordLoads, RecordSaves, OpenFifo,
                 PromoteLoads, PromoteSaves, StartThreads, WaitFails, Abort, ReapChild,
                 JoinForwarder, RunSkips, RunLoads, RunSaves
      <4>3. child'[r] = child[r]
        <5>1. child' = child \/ \E c \in {"alive", "reaped"} : child' = [child EXCEPT ![q] = c]
          BY <1>8
             DEF RunActs, RunSteps, SpawnChild, SpawnFails, RecordLoads, RecordSaves, OpenFifo,
                 PromoteLoads, PromoteSaves, StartThreads, SetupFails, WaitFails, Abort,
                 ReapChild, JoinForwarder, RunSkips, RunLoads, RunSaves
        <5> QED
          BY <2>2, <5>1 DEF TypeOK
      <4> QED
        BY <4>1, <4>2, <4>3
    <3> QED
      BY <2>1, <3>1 DEF StartingOf, RunningOf
  <2>3. CASE r = q
    <3>1. CASE SpawnChild(r) \/ SpawnFails(r) \/ RecordLoads(r)
      <4>1. /\ run[r] \in {"spawn", "record"}
            /\ \E l \in {"record", "mark", "record save"} : run' = [run EXCEPT ![r] = l]
        BY <3>1 DEF SpawnChild, SpawnFails, RecordLoads, Go
      <4>2. run'[r] \in {"record", "mark", "record save"}
        BY <4>1 DEF TypeOK
      <4> QED
        BY <2>1, <4>1, <4>2 DEF StartingOf, RunningOf, Over
    <3>2. CASE OpenFifo(r)
      <4>1. run[r] = "open" /\ run'[r] = "promote" /\ fd'[r] = path /\ child' = child
        BY <3>2 DEF OpenFifo, Go, TypeOK
      <4> QED
        BY <2>1, <4>1 DEF StartingOf, RunningOf, Over
    <3>3. CASE PromoteLoads(r)
      <4>1. run[r] = "promote" /\ run'[r] = "promote save" /\ fd' = fd /\ child' = child
        BY <3>3 DEF PromoteLoads, Go, TypeOK
      <4> QED
        BY <2>1, <4>1 DEF StartingOf, RunningOf, Over
    <3>4. CASE StartThreads(r) \/ SetupFails(r) \/ WaitFails(r)
      <4>1. child' = child /\ \E l \in {"wait", "abort"} : run' = [run EXCEPT ![r] = l]
        BY <3>4 DEF StartThreads, SetupFails, WaitFails, Go
      <4>2. run'[r] \in {"wait", "abort"} /\ run[r] # "abort"
        BY <3>4, <4>1 DEF StartThreads, SetupFails, WaitFails, TypeOK
      <4> QED
        BY <2>1, <4>1, <4>2 DEF StartingOf, RunningOf, Over
    <3>5. CASE Abort(r) \/ ReapChild(r)
      <4>1. child'[r] = "reaped" /\ run'[r] \in {"mark", "join"}
        BY <3>5 DEF Abort, ReapChild, Go, TypeOK
      <4> QED
        BY <2>1, <4>1 DEF StartingOf, RunningOf, Over
    <3>6. CASE JoinForwarder(r) \/ RunSkips(r) \/ RunLoads(r)
      <4>1. /\ child' = child /\ run'[r] \in {"mark", "done", "mark save"}
            /\ run[r] \in {"join", "mark"}
        BY <3>6 DEF JoinForwarder, RunSkips, RunLoads, Go, TypeOK
      <4> QED
        BY <2>1, <4>1 DEF StartingOf, RunningOf, Over
    <3> QED
      BY <1>8, <2>3, <3>1, <3>2, <3>3, <3>4, <3>5, <3>6 DEF RunActs, RunSteps
  <2> QED
    BY <2>2, <2>3
<1>9. ASSUME NEW q \in Runs, ForwarderStops(q) \/ ForwarderFails(q) PROVE Kept(r)
  <2>1. /\ UNCHANGED <<gen, path, latest, start, halt, aim, run, child>>
        /\ forward[q] \in {"read", "write"} /\ CloseFifo(q)
    BY <1>9 DEF ForwarderStops, ForwarderFails
  <2>2. run[q] \notin {"promote", "promote save"}
    BY <2>1 DEF PhaseInv, Phase, Promoting
  <2>3. r # q => fd'[r] = fd[r]
    BY <2>1, CloseFifoType, Fields
  <2> QED
    BY <2>1, <2>2, <2>3 DEF StartingOf, RunningOf
<1>10. ASSUME NEW q \in Runs, ChildExits(q) PROVE Kept(r)
  <2>1. UNCHANGED <<gen, path, latest, start, halt, aim, run, fd>>
    BY <1>10 DEF ChildExits
  <2>2. child'[r] = "alive" => child[r] = "alive"
    BY <1>10 DEF ChildExits, TypeOK
  <2> QED
    BY <2>1, <2>2 DEF StartingOf, RunningOf
<1>11. CASE UNCHANGED <<gen, path, latest, start, halt, aim, run, child, fd>>
  BY <1>11 DEF StartingOf, RunningOf
<1> HIDE DEF Kept
<1> QED
  BY <1>1, <1>2, <1>3, <1>4, <1>5, <1>6, <1>7, <1>8, <1>9, <1>10, <1>11
     DEF Next, RunActs, StartSteps, HaltSteps, ForwarderSteps, SendSteps, vars, ForwarderReads,
         ForwarderWrites, ChildReads, TerminalCloses, SendLoads, SendFindsNoReader,
         SendOpens, SendWrites, SendBreaks

\* Where no record is saved, what is locked is the record or was locked before.
LEMMA CopyStays ==
  ASSUME TypeOK, [Next]_vars, ~InitializeSave, \A h \in Halters : ~HaltSaves(h),
         \A r \in Runs : ~RecordSaves(r) /\ ~PromoteSaves(r) /\ ~RunSaves(r)
  PROVE  record' = record /\ (Locked' => copy' = record \/ (Locked /\ copy' = copy))
<1> USE DEF recordVars, runVars, pipeVars, inputVars, haltVars, sendVars
<1>1. ASSUME NEW h \in Halters, HaltLoads(h) PROVE record' = record /\ copy' = record
  BY <1>1 DEF HaltLoads, LockAndLoad
<1>2. ASSUME NEW r \in Runs, RecordLoads(r) \/ PromoteLoads(r) \/ RunLoads(r)
      PROVE  record' = record /\ copy' = record
  BY <1>2 DEF RecordLoads, PromoteLoads, RunLoads, LockAndLoad
<1>3. ASSUME UNCHANGED <<record, copy>>,
             \A r \in Runs : RunLocks(r)' => RunLocks(r),
             \A h \in Halters : HaltLocks(h)' => HaltLocks(h)
      PROVE  record' = record /\ (Locked' => Locked /\ copy' = copy)
  BY <1>3, LockedIs
<1>4. ASSUME NEW r \in Runs, RunActs(r), ~RecordLoads(r), ~PromoteLoads(r), ~RunLoads(r)
      PROVE  /\ UNCHANGED <<record, copy, halt>>
             /\ \A q \in Runs : RunLocks(q)' => RunLocks(q)
  <2>1. PICK l \in {"record", "mark", "promote", "wait", "abort", "join", "done"} :
          run' = [run EXCEPT ![r] = l] /\ UNCHANGED <<record, copy, halt>>
    BY <1>4 DEF RunActs, RunSteps, SpawnChild, SpawnFails, OpenFifo, StartThreads, SetupFails,
                WaitFails, Abort, ReapChild, JoinForwarder, RunSkips, Go
  <2> QED
    BY <2>1 DEF RunLocks, TypeOK
<1>5. ASSUME NEW h \in Halters, HaltSteps(h), ~HaltLoads(h)
      PROVE  /\ UNCHANGED <<record, copy, run>>
             /\ \A k \in Halters : HaltLocks(k)' => HaltLocks(k)
  <2>1. PICK l \in {"await", "mark", "idle", "done"} :
          halt' = [halt EXCEPT ![h] = l] /\ UNCHANGED <<record, copy, run>>
    BY <1>5 DEF HaltSteps, TerminateChild, NothingToTerminate, ChildStays, HaltSkips,
                HaltEnds
  <2> QED
    BY <2>1 DEF HaltLocks, TypeOK
<1>6. CASE StartTimesOut \/ \E k \in Stops : StopBegins(k)
  <2>1. /\ UNCHANGED <<record, copy, run>>
        /\ \E h \in Halters : halt' = [halt EXCEPT ![h] = "terminate"]
    BY <1>6 DEF StartTimesOut, StopBegins, Halters
  <2>2. /\ \A r \in Runs : RunLocks(r)' => RunLocks(r)
        /\ \A h \in Halters : HaltLocks(h)' => HaltLocks(h)
    BY <2>1 DEF RunLocks, HaltLocks, TypeOK
  <2> QED
    BY <1>3, <2>1, <2>2
<1>7. CASE UNCHANGED <<record, copy, run, halt>>
  BY <1>3, <1>7 DEF RunLocks, HaltLocks
<1>8. ASSUME NEW r \in Runs, RunActs(r), ~RecordLoads(r), ~PromoteLoads(r), ~RunLoads(r)
      PROVE  record' = record /\ (Locked' => Locked /\ copy' = copy)
  <2>1. \A h \in Halters : HaltLocks(h)' => HaltLocks(h)
    BY <1>4, <1>8 DEF HaltLocks
  <2> QED
    BY <1>3, <1>4, <1>8, <2>1
<1>9. ASSUME NEW h \in Halters, HaltSteps(h), ~HaltLoads(h)
      PROVE  record' = record /\ (Locked' => Locked /\ copy' = copy)
  <2>1. \A r \in Runs : RunLocks(r)' => RunLocks(r)
    BY <1>5, <1>9 DEF RunLocks
  <2> QED
    BY <1>3, <1>5, <1>9, <2>1
<1> QED
  BY <1>1, <1>2, <1>6, <1>7, <1>8, <1>9
     DEF Next, RunActs, StartSteps, ForwarderSteps, SendSteps, vars, StartBegins,
         InitializeLoad, RemoveFifo, MakeFifo, InitializeFails, StartAnswered,
         ForwarderStops, ForwarderReads, ForwarderWrites, ForwarderFails, ChildReads,
         ChildExits, TerminalCloses, SendLoads, SendFindsNoReader, SendOpens,
         SendWrites, SendBreaks

\* A record that is marked says nothing but whose it was.
LEMMA MarkSound ==
  ASSUME TypeOK, StartInv, [Next]_vars, Sound(copy), SaveStopped
  PROVE  Sound(record)'
<1>1. /\ record'.status = "stopped" /\ record'.gen = copy.gen
      /\ record'.child = copy.child /\ copy.child \in Runs \cup {None}
  BY Fields DEF SaveStopped, SaveAndUnlock, RecordType
<1>2. copy.child # None => run'[copy.child] # "idle" /\ gen'[copy.child] = copy.gen
  BY <1>1, RunsGoOn DEF Sound
<1> QED
  BY <1>1, <1>2 DEF Sound

\* What a run that is alone is about to promote is its own start's record.
LEMMA PromotesOwn ==
  ASSUME TypeOK, StartInv, LockInv, RecordInv, NEW r \in Runs, run[r] = "promote save",
         Alone(r)
  PROVE  copy.status = "starting" /\ StartingOf(copy, r)
<1>1. RunLocks(r) /\ Sound(copy) /\ copy.gen = gen[r] /\ gen[r] # 0
  BY LockedIs DEF RunLocks, LockInv, RecordInv, StartInv
<1>2. copy.status # "stopped" /\ copy.status \in Statuses
  BY Fields DEF RecordType, LockInv, RunLocks
<1>3. copy.status # "running" /\ copy.status # "none"
  BY <1>1 DEF Sound, RunningOf, Over
<1> QED
  BY <1>1, <1>2, <1>3 DEF Sound, Statuses

LEMMA RecordStep ==
  ASSUME TypeOK, PhaseInv, StartInv, LockInv, RecordInv, [Next]_vars
  PROVE  RecordInv'
<1> USE DEF recordVars, runVars, pipeVars, inputVars, haltVars, sendVars
<1>1. CASE InitializeSave
  <2>1. PICK n \in Runs : n = latest
    BY <1>1 DEF InitializeSave, TypeOK
  <2>2. /\ run' = [run EXCEPT ![n] = "spawn"] /\ run'[n] = "spawn" /\ run[n] = "idle"
        /\ record' = [status |-> "starting", gen |-> gen[n], child |-> None]
        /\ start = "save" /\ start' = "await" /\ path = n /\ gen[n] = record.gen + 1
        /\ halt["start"] = "idle"
        /\ UNCHANGED <<copy, gen, path, latest, halt, aim, child>>
    BY <1>1, <2>1 DEF InitializeSave, StartInv, TypeOK
  <2>3. ASSUME NEW r \in Runs, Alone(r)', gen'[r] = gen[n] PROVE r = n
    BY <2>2, <2>3 DEF Alone
  <2>4. StartingOf(record, n)'
    BY <2>1, <2>2 DEF StartingOf
  <2>5. Sound(record)'
    BY <2>2, <2>3, <2>4 DEF Sound
  <2>6. ASSUME Locked' PROVE Sound(copy)'
    <3>1. Locked
      <4>1. \A r \in Runs : RunLocks(r)' => RunLocks(r)
        BY <2>2 DEF RunLocks, TypeOK
      <4>2. \A h \in Halters : HaltLocks(h)' => HaltLocks(h)
        BY <2>2 DEF HaltLocks
      <4> QED
        BY <2>6, <4>1, <4>2, LockedIs
    <3>2. copy = record /\ Sound(copy) /\ copy \in RecordType
      BY <2>2, <3>1, Fields DEF LockInv, Overwritten, RecordInv
    <3>3. gen[n] # copy.gen
      <4>1. copy.gen \in Nat
        BY <3>2 DEF RecordType
      <4> QED
        BY <2>2, <3>2, <4>1
    <3>4. copy.child # None => run'[copy.child] # "idle" /\ gen'[copy.child] = copy.gen
      BY <3>2, RunsGoOn DEF Sound, RecordType
    <3>5. ASSUME NEW r \in Runs, Alone(r)', gen'[r] = copy.gen
          PROVE  copy.status # "starting" /\ (copy.status = "running" => RunningOf(copy, r)')
      <4>1. r # n /\ run'[r] = run[r] /\ run[r] # "idle"
        BY <2>2, <3>3, <3>5 DEF Alone, TypeOK
      <4>2. Alone(r) /\ gen[r] = copy.gen
        BY <2>2, <3>5, <4>1, AloneBefore
      <4> QED
        BY <2>2, <3>2, <4>1, <4>2 DEF Sound, StartingOf, RunningOf
    <3> QED
      BY <2>2, <3>2, <3>4, <3>5 DEF Sound
  <2> QED
    BY <2>5, <2>6 DEF RecordInv
<1>2. ASSUME NEW h \in Halters, HaltSaves(h) PROVE RecordInv'
  <2>1. HaltLocks(h) /\ SaveStopped /\ ~Locked'
    BY <1>2, HaltReleases DEF HaltSaves, HaltLocks
  <2> QED
    BY <2>1, MarkSound, LockedIs DEF RecordInv
<1>3. ASSUME NEW r \in Runs, RunSaves(r) PROVE RecordInv'
  <2>1. RunLocks(r) /\ SaveStopped /\ ~Locked'
    BY <1>3, RunReleases DEF RunSaves, RunLocks, Go
  <2> QED
    BY <2>1, MarkSound, LockedIs DEF RecordInv
<1>4. ASSUME NEW r \in Runs, RecordSaves(r) PROVE RecordInv'
  <2>1. /\ run[r] = "record save" /\ run' = [run EXCEPT ![r] = "open"] /\ run'[r] = "open"
        /\ UNCHANGED <<gen, path, latest, start, halt, aim, child, fd>>
    BY <1>4 DEF RecordSaves, Go, TypeOK
  <2>2. PICK pid \in {r, None} :
          /\ pid = r \/ child[r] # "alive"
          /\ record' = [copy EXCEPT !.child = pid]
    BY <1>4 DEF RecordSaves, SaveAndUnlock
  <2>3. /\ record'.status = copy.status /\ record'.gen = copy.gen /\ record'.child = pid
        /\ copy.gen = gen[r]
    BY <2>1, <2>2, Fields DEF RecordType, LockInv, RunLocks
  <2>4. RunLocks(r) /\ ~Locked' /\ Sound(copy)
    BY <2>1, RunReleases, LockedIs DEF RunLocks, RecordInv
  <2>5. ASSUME NEW q \in Runs, Alone(q)', gen'[q] = record'.gen
        PROVE  /\ record'.status = "starting" => StartingOf(record, q)'
               /\ record'.status # "running"
    <3>1. q = r
      BY <2>1, <2>3, <2>5 DEF Alone
    <3>2. Alone(r) /\ gen[r] = copy.gen
      BY <2>1, <2>3, <2>5, <3>1, AloneBefore
    <3>3. copy.status # "running"
      BY <2>1, <2>4, <3>2 DEF Sound, RunningOf, Over
    <3>4. copy.status = "starting" => StartingOf(copy, r)
      BY <2>4, <3>2 DEF Sound
    <3> QED
      BY <2>1, <2>2, <2>3, <3>1, <3>3, <3>4 DEF StartingOf
  <2> QED
    BY <2>1, <2>3, <2>4, <2>5 DEF RecordInv, Sound
<1>5. ASSUME NEW r \in Runs, PromoteSaves(r) PROVE RecordInv'
  <2>1. /\ run[r] = "promote save" /\ run' = [run EXCEPT ![r] = "setup"]
        /\ run'[r] = "setup" /\ record' = [copy EXCEPT !.status = "running"]
        /\ UNCHANGED <<gen, path, latest, start, halt, aim, child, fd>>
    BY <1>5 DEF PromoteSaves, SaveAndUnlock, Go, TypeOK
  <2>2. /\ record'.status = "running" /\ record'.gen = copy.gen
        /\ record'.child = copy.child /\ copy.child \in Runs \cup {None}
        /\ copy.gen = gen[r]
    BY <2>1, Fields DEF RecordType, LockInv, RunLocks
  <2>3. RunLocks(r) /\ ~Locked' /\ Sound(copy)
    BY <2>1, RunReleases, LockedIs DEF RunLocks, RecordInv
  <2>4. ASSUME NEW q \in Runs, Alone(q)', gen'[q] = record'.gen
        PROVE  RunningOf(record, q)'
    <3>1. q = r
      BY <2>1, <2>2, <2>4 DEF Alone
    <3>2. StartingOf(copy, r)
      BY <2>1, <2>4, <3>1, AloneBefore, PromotesOwn
    <3> QED
      BY <2>1, <2>2, <3>1, <3>2 DEF StartingOf, RunningOf
  <2>5. copy.child # None => run'[copy.child] # "idle" /\ gen'[copy.child] = copy.gen
    BY <2>2, <2>3, RunsGoOn DEF Sound
  <2> QED
    BY <2>2, <2>3, <2>4, <2>5 DEF RecordInv, Sound
<1>6. CASE /\ ~InitializeSave /\ \A h \in Halters : ~HaltSaves(h)
           /\ \A r \in Runs : ~RecordSaves(r) /\ ~PromoteSaves(r) /\ ~RunSaves(r)
  <2>1. record' = record /\ (Locked' => copy' = record \/ (Locked /\ copy' = copy))
    BY <1>6, CopyStays
  <2>2. ASSUME NEW m \in RecordType, Sound(m), m = record \/ (Locked /\ m = copy)
        PROVE  Sound(m)'
    BY <1>6, <2>2, SubjectStays
  <2>3. PICK m \in RecordType : m = record
    BY Fields
  <2>4. Sound(m)' /\ record' = m
    BY <2>1, <2>2, <2>3 DEF RecordInv
  <2>5. PICK n \in RecordType : n = copy
    BY Fields
  <2>6. Locked => Sound(n)'
    BY <2>2, <2>5 DEF RecordInv
  <2>7. Sound(record)'
    BY <2>4 DEF Sound, StartingOf, RunningOf
  <2>8. Locked' => Sound(copy)'
    <3>1. copy' = m => Sound(copy)'
      BY <2>4 DEF Sound, StartingOf, RunningOf
    <3>2. Locked /\ copy' = n => Sound(copy)'
      BY <2>6 DEF Sound, StartingOf, RunningOf
    <3> QED
      BY <2>1, <2>3, <2>5, <3>1, <3>2
  <2> QED
    BY <2>7, <2>8 DEF RecordInv
<1> QED
  BY <1>1, <1>2, <1>3, <1>4, <1>5, <1>6

\* Whose FIFO the runs have open.
LEMMA OwnStep ==
  ASSUME TypeOK, PhaseInv, StartInv, LockInv, RecordInv, OwnInv, [Next]_vars
  PROVE  OwnInv'
<1> USE DEF recordVars, runVars, pipeVars, inputVars, haltVars, sendVars
<1> SUFFICES ASSUME NEW r \in Runs, Alone(r)'
             PROVE  /\ run'[r] = "setup" => fd'[r] = r
                    /\ source'[r] # None => source'[r] = r
  BY DEF OwnInv, Own
<1>1. CASE run[r] = "idle"
  <2>1. InitializeSave
    BY <1>1, RunsGoOn DEF Alone
  <2>2. run'[r] \in {"idle", "spawn"} /\ source' = source
    BY <1>1, <2>1 DEF InitializeSave, TypeOK
  <2>3. source[r] = None
    BY <1>1 DEF PhaseInv, Phase, Opening
  <2> QED
    BY <2>2, <2>3
<1>2. CASE run[r] # "idle"
  <2>1. Alone(r) /\ Own(r)
    BY <1>2, AloneBefore DEF OwnInv
  <2>2. CASE InitializeSave
    <3>1. run'[r] = run[r] \/ run'[r] = "spawn"
      BY <2>2 DEF InitializeSave, TypeOK
    <3> QED
      BY <2>1, <2>2, <3>1 DEF InitializeSave, Own
  <2>3. ASSUME NEW q \in Runs, PromoteSaves(q)
        PROVE  UNCHANGED <<fd, source>> /\ (run'[r] = "setup" => fd[r] = r)
    <3>1. UNCHANGED <<fd, source>> /\ run[q] = "promote save"
          /\ (r # q => run'[r] = run[r])
      BY <2>3 DEF PromoteSaves, Go, TypeOK
    <3>2. r = q => fd[r] = r
      BY <2>1, <3>1, PromotesOwn DEF StartingOf
    <3> QED
      BY <2>1, <3>1, <3>2 DEF Own
  <2>4. ASSUME NEW q \in Runs, StartThreads(q)
        PROVE  /\ run'[r] = "setup" => fd'[r] = r
               /\ source'[r] # None => source'[r] = r
    BY <2>1, <2>4 DEF StartThreads, Go, Own, TypeOK
  <2>5. ASSUME NEW q \in Runs, OpenFifo(q) \/ SetupFails(q)
        PROVE  source' = source /\ (run'[r] = "setup" => fd'[r] = r)
    <3>1. /\ source' = source /\ (r # q => run'[r] = run[r] /\ fd'[r] = fd[r])
          /\ run'[q] # "setup"
      <4>1. run \in [Runs -> {"idle", "spawn", "record", "record save", "open",
                             "promote", "promote save", "setup", "wait", "abort",
                             "join", "mark", "mark save", "done"}]
        BY DEF TypeOK
      <4>2. CASE OpenFifo(q)
        <5>1. /\ source' = source /\ fd' = [fd EXCEPT ![q] = path]
              /\ run' = [run EXCEPT ![q] = "promote"]
          BY <4>2 DEF OpenFifo, Go
        <5> QED
          BY <4>1, <5>1, Fields
      <4>3. CASE SetupFails(q)
        <5>1. /\ source' = source /\ CloseFifo(q)
              /\ run' = [run EXCEPT ![q] = "abort"]
          BY <4>3 DEF SetupFails, Go
        <5>2. fd' = [fd EXCEPT ![q] = None]
          BY <5>1 DEF CloseFifo
        <5> QED
          BY <4>1, <5>1, <5>2, Fields
      <4> QED
        BY <2>5, <4>2, <4>3
    <3> QED
      BY <2>1, <3>1 DEF Own
  <2>6. ASSUME NEW q \in Runs, RunActs(q), ~PromoteSaves(q), ~StartThreads(q),
               ~OpenFifo(q), ~SetupFails(q)
        PROVE  UNCHANGED <<fd, source>> /\ (run'[r] = "setup" => run[r] = "setup")
    <3>1. UNCHANGED <<fd, source>>
          /\ \E l \in {"record", "mark", "record save", "open", "promote save", "abort",
                       "join", "mark save", "done"} : run' = [run EXCEPT ![q] = l]
      BY <2>6 DEF RunActs, RunSteps, SpawnChild, SpawnFails, RecordLoads, RecordSaves,
                  PromoteLoads, WaitFails, Abort, ReapChild, JoinForwarder, RunSkips,
                  RunLoads, RunSaves, Go
    <3> QED
      BY <3>1 DEF TypeOK
  <2>7. ASSUME NEW q \in Runs, ForwarderStops(q) \/ ForwarderFails(q)
        PROVE  UNCHANGED <<run, source>> /\ (run[r] = "setup" => fd'[r] = fd[r])
    <3>1. /\ UNCHANGED <<run, source>> /\ fd' = [fd EXCEPT ![q] = None]
          /\ forward[q] # "off"
      BY <2>7, CloseFifoType DEF ForwarderStops, ForwarderFails
    <3>2. run[q] # "setup"
      BY <3>1 DEF PhaseInv, Phase, Promoting
    <3> QED
      BY <3>1, <3>2, Fields
  <2>8. CASE UNCHANGED <<run, fd, source>>
    BY <2>1, <2>8 DEF Own
  <2>9. \A q \in Runs : RunActs(q) =>
          /\ run'[r] = "setup" => fd'[r] = r
          /\ source'[r] # None => source'[r] = r
    BY <2>1, <2>3, <2>4, <2>5, <2>6 DEF Own
  <2>10. \A q \in Runs : ForwarderStops(q) \/ ForwarderFails(q) =>
          /\ run'[r] = "setup" => fd'[r] = r
          /\ source'[r] # None => source'[r] = r
    BY <2>1, <2>7 DEF Own
  <2> QED
    BY <2>2, <2>8, <2>9, <2>10
       DEF Next, RunActs, StartSteps, HaltSteps, ForwarderSteps, SendSteps, vars, StartBegins,
           InitializeLoad, RemoveFifo, MakeFifo, InitializeFails, StartAnswered,
           StartTimesOut, StopBegins, TerminateChild, NothingToTerminate, ChildStays,
           HaltSkips, HaltLoads, HaltSaves, ForwarderReads, ForwarderWrites, ChildReads,
           ChildExits, TerminalCloses, SendLoads, SendFindsNoReader, SendOpens,
           SendWrites, SendBreaks
<1> QED
  BY <1>1, <1>2


\* What is closed leaves the FIFOs of the others as they are, and others empty.
LEMMA CloseFifoKeeps ==
  ASSUME NEW r \in Runs, CloseFifo(r), NEW i \in Runs
  PROVE  /\ \A q \in Runs \ {r} : fd[q] = i => fifo'[i] = fifo[i] /\ written'[i] = written[i]
         /\ \/ fifo'[i] = fifo[i] /\ written'[i] = written[i]
            \/ fifo'[i] = <<>> /\ written'[i] = <<>>
BY DEF CloseFifo

LEMMA SendClosesKeeps ==
  ASSUME NEW s \in Sends, SendCloses(s), NEW i \in Runs
  PROVE  /\ \A q \in Runs : fd[q] = i => fifo'[i] = fifo[i] /\ written'[i] = written[i]
         /\ \/ fifo'[i] = fifo[i] /\ written'[i] = written[i]
            \/ fifo'[i] = <<>> /\ written'[i] = <<>>
BY DEF SendCloses, HasReader

\* The pieces that a run has been given, from the first to the last.
LEMMA ForwardedTypes ==
  ASSUME TypeOK, NEW r \in Runs
  PROVE  /\ got[r] \in Seq(Pieces) /\ tty[r] \in Seq(Pieces) /\ hand[r] \in Seq(Pieces)
         /\ fifo[r] \in Seq(Pieces) /\ written[r] \in Seq(Pieces)
         /\ got[r] \o tty[r] \in Seq(Pieces)
         /\ (got[r] \o tty[r]) \o hand[r] \in Seq(Pieces)
<1>1. /\ got[r] \in Seq(Pieces) /\ tty[r] \in Seq(Pieces) /\ hand[r] \in Seq(Pieces)
      /\ fifo[r] \in Seq(Pieces) /\ written[r] \in Seq(Pieces)
  BY DEF TypeOK
<1> QED
  BY <1>1, ConcatProperties

\* The FIFO of a forwarder that works.
LEMMA WorksOn ==
  ASSUME TypeOK, PhaseInv, NEW r \in Runs, Works(r)
  PROVE  source[r] \in Runs /\ source[r] # None /\ fd[r] = source[r]
<1>1. source[r] \in Runs \cup {None}
  BY DEF TypeOK
<1>2. Phase(r)
  BY DEF PhaseInv
<1> QED
  BY <1>1, <1>2 DEF Phase, Works

\* FIFOs are closed: those of the forwarders that go on keep what they hold.
LEMMA ClosedForwards ==
  ASSUME TypeOK, PhaseInv, Inv3, source' = source,
         \A i \in Runs : \/ fifo'[i] = fifo[i] /\ written'[i] = written[i]
                         \/ fifo'[i] = <<>> /\ written'[i] = <<>>,
         \A q \in Runs :
           \/ forward'[q] = "done"
           \/ /\ UNCHANGED <<forward[q], hand[q], tty[q], got[q]>>
              /\ Works(q) => /\ fifo'[fd[q]] = fifo[fd[q]]
                             /\ written'[fd[q]] = written[fd[q]]
  PROVE  Inv3'
<1> SUFFICES ASSUME NEW r \in Runs PROVE Unread(r)' /\ Forwarded(r)'
  BY DEF Inv3
<1>1. Unread(r) /\ Forwarded(r)
  BY DEF Inv3
<1>2. Unread(r)'
  BY <1>1 DEF Unread
<1>3. CASE forward'[r] = "done"
  BY <1>2, <1>3 DEF Forwarded, Works
<1>4. CASE forward'[r] # "done"
  <2>1. /\ UNCHANGED <<forward[r], hand[r], tty[r], got[r]>>
        /\ Works(r) => /\ fifo'[source[r]] = fifo[source[r]]
                       /\ written'[source[r]] = written[source[r]]
    BY <1>4, WorksOn
  <2> QED
    BY <1>1, <1>2, <2>1 DEF Forwarded, Works, Unshared
<1> QED
  BY <1>3, <1>4

\* A step that moves the input that one run has taken.
LEMMA OneForwards ==
  ASSUME Inv3, NEW r \in Runs, Forwarded(r)', UNCHANGED <<fifo, written, source>>,
         \A q \in Runs \ {r} : UNCHANGED <<forward[q], hand[q], tty[q], got[q]>>
  PROVE  Inv3'
<1> SUFFICES ASSUME NEW q \in Runs PROVE Unread(q)' /\ Forwarded(q)'
  BY DEF Inv3
<1>1. Unread(q) /\ Forwarded(q)
  BY DEF Inv3
<1>2. Unread(q)'
  BY <1>1 DEF Unread
<1>3. CASE q # r
  BY <1>1, <1>2, <1>3 DEF Forwarded, Works, Unshared
<1> QED
  BY <1>2, <1>3

\* What is forwarded.
LEMMA ForwardedStep ==
  ASSUME TypeOK, PhaseInv, Inv3, [Next]_vars
  PROVE  Inv3'
<1> USE DEF recordVars, runVars, pipeVars, inputVars, haltVars, sendVars
<1>1. ASSUME NEW r \in Runs, StartThreads(r) PROVE Inv3'
  <2> SUFFICES ASSUME NEW q \in Runs PROVE Unread(q)' /\ Forwarded(q)'
    BY DEF Inv3
  <2> DEFINE i == fd[r]
  <2>1. /\ forward[r] = "off" /\ source[r] = None /\ i # None /\ i \in Runs
        /\ forward' = [forward EXCEPT ![r] = "read"]
        /\ source' = [source EXCEPT ![r] = i]
        /\ UNCHANGED <<hand, tty, got, fifo, written>>
    BY <1>1, Fields DEF StartThreads, PhaseInv, Phase, Promoting, Opening
  <2> HIDE DEF i
  <2>2. Unread(q) /\ Forwarded(q)
    BY DEF Inv3
  <2>3. Unread(q)'
    <3>1. q # None
      BY DEF Runs, None
    <3>2. source'[r] = i /\ \A z \in Runs \ {r} : source'[z] = source[z]
      BY <2>1 DEF TypeOK
    <3>3. (\A z \in Runs : source'[z] # q) => \A z \in Runs : source[z] # q
      BY <2>1, <3>1, <3>2
    <3> QED
      BY <2>1, <2>2, <3>3 DEF Unread
  <2>4. CASE q = r
    <3>1. /\ hand[r] = <<>> /\ tty[r] = <<>> /\ got[r] = <<>>
      BY <2>1, <2>2, <2>4 DEF Forwarded
    <3>2. fifo[i] = got[r] \o tty[r] \o hand[r] \o fifo[i]
      BY <2>1, <3>1, ForwardedTypes, ConcatEmptySeq
    <3>3. source'[r] = i /\ forward'[r] = "read"
          /\ \A z \in Runs \ {r} : source'[z] = source[z]
      BY <2>1 DEF TypeOK
    <3>4. Unshared(r)' => written[i] = fifo[i]
      <4>1. Unread(i)
        BY <2>1 DEF Inv3
      <4> QED
        BY <2>1, <3>3, <4>1 DEF Unread, Unshared
    <3> QED
      BY <2>1, <2>3, <2>4, <3>2, <3>3, <3>4 DEF Forwarded, Works
  <2>5. CASE q # r
    <3>1. forward'[q] = forward[q] /\ source'[q] = source[q]
      BY <2>1, <2>5 DEF TypeOK
    <3>2. Works(q) /\ Unshared(q)' => Unshared(q)
      <4> SUFFICES ASSUME Works(q), Unshared(q)', NEW z \in Runs \ {q}
                   PROVE  source[z] # source[q]
        BY DEF Unshared
      <4>1. source[q] # None
        BY WorksOn
      <4>2. z # r => source'[z] = source[z]
        BY <2>1 DEF TypeOK
      <4> QED
        BY <2>1, <3>1, <4>1, <4>2 DEF Unshared
    <3> QED
      BY <2>1, <2>2, <2>3, <3>1, <3>2 DEF Forwarded, Works
  <2> QED
    BY <2>4, <2>5
<1>2. ASSUME NEW r \in Runs, SetupFails(r) PROVE Inv3'
  <2>1. CloseFifo(r) /\ ~Works(r) /\ UNCHANGED <<forward, hand, tty, got, source>>
    BY <1>2 DEF SetupFails, PhaseInv, Phase, Opening, Promoting, Works
  <2>2. \A q \in Runs : Works(q) => /\ fifo'[fd[q]] = fifo[fd[q]]
                                    /\ written'[fd[q]] = written[fd[q]]
    BY <2>1, CloseFifoKeeps, WorksOn
  <2> QED
    BY <2>1, <2>2, CloseFifoKeeps, ClosedForwards
<1>3. ASSUME NEW r \in Runs, JoinForwarder(r) PROVE Inv3'
  <2>1. /\ forward[r] = "done" /\ tty' = [tty EXCEPT ![r] = <<>>]
        /\ UNCHANGED <<fifo, written, source, forward, hand, got>>
    BY <1>3 DEF JoinForwarder
  <2>2. Forwarded(r)'
    BY <2>1 DEF Forwarded, Works
  <2> QED
    BY <2>1, <2>2, OneForwards DEF TypeOK
<1>4. ASSUME NEW r \in Runs, ForwarderStops(r) \/ ForwarderFails(r) PROVE Inv3'
  <2>1. /\ CloseFifo(r) /\ forward' = [forward EXCEPT ![r] = "done"]
        /\ UNCHANGED <<tty, got, source>>
        /\ \A q \in Runs \ {r} : hand'[q] = hand[q]
    <3>1. hand' = hand \/ hand' = [hand EXCEPT ![r] = <<>>]
      BY <1>4 DEF ForwarderStops, ForwarderFails
    <3>2. \A q \in Runs \ {r} : hand'[q] = hand[q]
      BY <3>1 DEF TypeOK
    <3> QED
      BY <1>4, <3>2 DEF ForwarderStops, ForwarderFails
  <2>2. forward'[r] = "done" /\ \A q \in Runs \ {r} : forward'[q] = forward[q]
    BY <2>1 DEF TypeOK
  <2>3. \A q \in Runs \ {r} : Works(q) => /\ fifo'[fd[q]] = fifo[fd[q]]
                                          /\ written'[fd[q]] = written[fd[q]]
    BY <2>1, CloseFifoKeeps, WorksOn
  <2> QED
    BY <2>1, <2>2, <2>3, CloseFifoKeeps, ClosedForwards
<1>5. ASSUME NEW r \in Runs, ForwarderReads(r) PROVE Inv3'
  <2> DEFINE i == source[r]
             n == Smaller(ReadSize, Len(fifo[i]))
             first == SubSeq(fifo[i], 1, n)
             rest == SubSeq(fifo[i], n + 1, Len(fifo[i]))
  <2>1. /\ fd[r] = i /\ i \in Runs /\ forward[r] = "read" /\ Works(r)
        /\ fifo[i] # <<>> /\ hand[r] = <<>>
    BY <1>5, WorksOn DEF ForwarderReads, Works, TypeOK
  <2>2. /\ hand' = [hand EXCEPT ![r] = first] /\ fifo' = [fifo EXCEPT ![i] = rest]
        /\ forward' = [forward EXCEPT ![r] = "write"]
        /\ UNCHANGED <<written, tty, got, source>>
    BY <1>5, <2>1 DEF ForwarderReads
  <2>3. n \in 1 .. Len(fifo[i])
    BY <2>1, ForwardedTypes, EmptySeq DEF Smaller
  <2>4. got[r] \o tty[r] \in Seq(Pieces) /\ fifo[i] \in Seq(Pieces)
    BY <2>1, ForwardedTypes
  <2>5. ((got[r] \o tty[r]) \o first) \o rest = (got[r] \o tty[r]) \o fifo[i]
    BY <2>3, <2>4, SplitAfter
  <2> HIDE DEF n, first, rest
  <2>6. (got[r] \o tty[r]) \o hand[r] = got[r] \o tty[r]
    BY <2>1, ForwardedTypes, ConcatEmptySeq
  <2>7. Unshared(r) => written[i] = got[r] \o tty[r] \o first \o rest
    BY <2>1, <2>5, <2>6 DEF Inv3, Forwarded
  <2>8. /\ hand'[r] = first /\ fifo'[i] = rest /\ forward'[r] = "write"
        /\ \A j \in Runs \ {i} : fifo'[j] = fifo[j]
        /\ \A q \in Runs \ {r} : hand'[q] = hand[q] /\ forward'[q] = forward[q]
    BY <2>1, <2>2 DEF TypeOK
  <2> SUFFICES ASSUME NEW q \in Runs PROVE Unread(q)' /\ Forwarded(q)'
    BY DEF Inv3
  <2>9. Unread(q) /\ Forwarded(q)
    BY DEF Inv3
  <2>10. Unread(q)'
    BY <2>2, <2>8, <2>9 DEF Unread
  <2>11. CASE q = r
    <3>1. Unshared(r)' => Unshared(r)
      BY <2>2 DEF Unshared
    <3> QED
      BY <2>2, <2>7, <2>8, <2>10, <2>11, <3>1 DEF Forwarded, Works
  <2>12. CASE q # r
    <3>1. Works(q) /\ Unshared(q) => source[q] \in Runs /\ source[q] # i
      BY <2>12, WorksOn DEF Unshared
    <3> QED
      BY <2>2, <2>8, <2>9, <2>10, <2>12, <3>1 DEF Forwarded, Works, Unshared
  <2> QED
    BY <2>11, <2>12
<1>6. ASSUME NEW r \in Runs, ForwarderWrites(r) PROVE Inv3'
  <2>1. PICK now \in {"read", "write"} :
          /\ forward[r] = "write" /\ forward' = [forward EXCEPT ![r] = now]
          /\ tty' = [tty EXCEPT ![r] = Append(tty[r], Head(hand[r]))]
          /\ hand' = [hand EXCEPT ![r] = Tail(hand[r])]
          /\ UNCHANGED <<fifo, written, got, source>>
    BY <1>6 DEF ForwarderWrites
  <2>2. hand[r] # <<>>
    BY <2>1 DEF TypeOK
  <2>3. got[r] \in Seq(Pieces) /\ tty[r] \in Seq(Pieces) /\ hand[r] \in Seq(Pieces)
    BY ForwardedTypes
  <2>4. (got[r] \o Append(tty[r], Head(hand[r]))) \o Tail(hand[r]) =
          (got[r] \o tty[r]) \o hand[r]
    BY <2>2, <2>3, HandOverAfter, Zenon
  <2>5. Unshared(r) => written[source[r]] =
          got[r] \o Append(tty[r], Head(hand[r])) \o Tail(hand[r]) \o fifo[source[r]]
    BY <2>1, <2>3, <2>4 DEF Inv3, Forwarded, Works
  <2>6. /\ tty'[r] = Append(tty[r], Head(hand[r])) /\ hand'[r] = Tail(hand[r])
        /\ forward'[r] = now /\ got'[r] = got[r]
        /\ \A q \in Runs \ {r} : UNCHANGED <<forward[q], hand[q], tty[q], got[q]>>
    BY <2>1 DEF TypeOK
  <2>7. Forwarded(r)'
    BY <2>1, <2>5, <2>6 DEF Forwarded, Works, Unshared
  <2> QED
    BY <2>1, <2>6, <2>7, OneForwards
<1>7. ASSUME NEW r \in Runs, ChildReads(r) PROVE Inv3'
  <2>1. /\ tty[r] # <<>>
        /\ got' = [got EXCEPT ![r] = Append(got[r], Head(tty[r]))]
        /\ tty' = [tty EXCEPT ![r] = Tail(tty[r])]
        /\ UNCHANGED <<fifo, written, forward, hand, source>>
    BY <1>7 DEF ChildReads
  <2>2. Append(got[r], Head(tty[r])) \o Tail(tty[r]) = got[r] \o tty[r]
    BY <2>1, ForwardedTypes, HandOver
  <2>3. /\ got'[r] = Append(got[r], Head(tty[r])) /\ tty'[r] = Tail(tty[r])
        /\ \A q \in Runs \ {r} : UNCHANGED <<forward[q], hand[q], tty[q], got[q]>>
    BY <2>1 DEF TypeOK
  <2>4. Forwarded(r) /\ forward[r] # "off"
    BY <2>1 DEF Inv3, Forwarded
  <2>5. Forwarded(r)'
    BY <2>1, <2>2, <2>3, <2>4 DEF Forwarded, Works, Unshared
  <2> QED
    BY <2>1, <2>3, <2>5, OneForwards
<1>8. ASSUME NEW s \in Sends, SendWrites(s) PROVE Inv3'
  <2> DEFINE e == Head(left[s])
  <2>1. PICK i \in Runs : i = wfd[s]
    BY <1>8 DEF SendWrites, TypeOK
  <2>2. e \in Pieces
    BY <1>8, HeadAndTail DEF SendWrites, TypeOK
  <2>3. /\ fifo' = [fifo EXCEPT ![i] = Append(fifo[i], e)]
        /\ written' = [written EXCEPT ![i] = Append(written[i], e)]
        /\ UNCHANGED <<forward, hand, tty, got, source>>
    BY <1>8, <2>1 DEF SendWrites, Put
  <2>4. \A p \in Seq(Pieces) : p \o Append(fifo[i], e) = Append(p \o fifo[i], e)
    BY <2>1, <2>2, ForwardedTypes, ConcatAppend
  <2> HIDE DEF e
  <2>5. /\ fifo'[i] = Append(fifo[i], e) /\ written'[i] = Append(written[i], e)
        /\ \A j \in Runs \ {i} : fifo'[j] = fifo[j] /\ written'[j] = written[j]
    BY <2>3 DEF TypeOK
  <2> SUFFICES ASSUME NEW q \in Runs PROVE Unread(q)' /\ Forwarded(q)'
    BY DEF Inv3
  <2>6. Unread(q) /\ Forwarded(q)
    BY DEF Inv3
  <2>7. Unread(q)'
    BY <2>3, <2>5, <2>6 DEF Unread
  <2>8. Works(q) /\ Unshared(q) =>
          written'[source[q]] = ((got[q] \o tty[q]) \o hand[q]) \o fifo'[source[q]]
    <3> SUFFICES ASSUME Works(q), Unshared(q)
                 PROVE  written'[source[q]] =
                          ((got[q] \o tty[q]) \o hand[q]) \o fifo'[source[q]]
      OBVIOUS
    <3>1. /\ source[q] \in Runs
          /\ written[source[q]] = ((got[q] \o tty[q]) \o hand[q]) \o fifo[source[q]]
      BY <2>6, WorksOn DEF Forwarded
    <3>2. ((got[q] \o tty[q]) \o hand[q]) \o Append(fifo[i], e) =
            Append(((got[q] \o tty[q]) \o hand[q]) \o fifo[i], e)
      BY <2>4, ForwardedTypes
    <3> QED
      BY <2>5, <3>1, <3>2
  <2> QED
    BY <2>3, <2>6, <2>7, <2>8 DEF Forwarded, Works, Unshared
<1>9. ASSUME NEW s \in Sends, SendBreaks(s) PROVE Inv3'
  <2>1. UNCHANGED <<forward, hand, tty, got, source>> /\ SendCloses(s)
    BY <1>9 DEF SendBreaks
  <2>2. \A q \in Runs : Works(q) => /\ fifo'[fd[q]] = fifo[fd[q]]
                                    /\ written'[fd[q]] = written[fd[q]]
    BY <2>1, SendClosesKeeps, WorksOn
  <2> QED
    BY <2>1, <2>2, SendClosesKeeps, ClosedForwards
<1>10. CASE UNCHANGED <<forward, hand, tty, got, source, pipeVars>>
  BY <1>10 DEF Inv3, Unread, Forwarded, Works, Unshared
<1> QED
  BY <1>1, <1>2, <1>3, <1>4, <1>5, <1>6, <1>7, <1>8, <1>9, <1>10
     DEF Next, StartSteps, HaltSteps, RunSteps, ForwarderSteps, SendSteps, vars,
         StartBegins, InitializeLoad, RemoveFifo, MakeFifo, InitializeSave,
         InitializeFails, StartAnswered, StartTimesOut, StopBegins, TerminateChild,
         NothingToTerminate, ChildStays, HaltSkips, HaltLoads, HaltSaves, SpawnChild,
         SpawnFails, RecordLoads, RecordSaves, OpenFifo, PromoteLoads, PromoteSaves,
         WaitFails, Abort, ReapChild, RunSkips, RunLoads, RunSaves, ChildExits,
         TerminalCloses, SendLoads, SendFindsNoReader, SendOpens

-----------------------------------------------------------------------------
(* The theorems *)

LEMMA Inv12Holds == Spec => [](Inv1 /\ Inv2)
<1>1. Inv1 /\ Inv2 /\ [Next]_vars => Inv1' /\ Inv2'
  BY TypeStep, PhaseStep, StartStep, LockStep, RecordStep, OwnStep DEF Inv1, Inv2
<1> QED
  BY <1>1, Init12, PTL DEF Spec

LEMMA Inv3Holds == Spec => []Inv3
<1>1. Init => Inv3
  BY DEF Init, Inv3, Unread, Forwarded, Works
<1>2. Inv1 /\ Inv3 /\ [Next]_vars => Inv3'
  BY ForwardedStep DEF Inv1
<1> QED
  BY <1>1, <1>2, Inv12Holds, PTL DEF Spec

\* The types, for any number of starts, stops, sends and pieces.
THEOREM TypeCorrect == Spec => []TypeOK
<1>1. Inv1 => TypeOK
  BY DEF Inv1
<1> QED
  BY <1>1, Inv12Holds, PTL

\* A session on record as running whose child lives has its FIFO open, until its
\* set-up has failed: the ENXIO window that supervise_pty avoids by opening the
\* FIFO before it promotes.  It is so however set-ups fail and starts undo each
\* other's saves, for every run whose generation no other run was given.
THEOREM ReaderStays == Spec => []RunningHasReader
<1>1. Inv1 /\ Inv2 => RunningHasReader
  <2> SUFFICES ASSUME Inv1, Inv2, NEW r \in Runs, record.status = "running",
                      record.child = r, child[r] = "alive", OnlyOfItsGeneration(r),
                      run[r] # "abort"
               PROVE  path # None /\ fd[r] = path
    BY DEF RunningHasReader
  <2>1. r # None /\ run[r] # "idle" /\ Phase(r) /\ Own(r)
    <3>1. r # None
      BY DEF Runs, None
    <3>2. Phase(r) /\ Own(r)
      BY DEF Inv1, Inv2, PhaseInv, OwnInv
    <3> QED
      BY <3>1, <3>2 DEF Phase
  <2>2. Sound(record) /\ gen[r] = record.gen
    BY <2>1 DEF Inv2, RecordInv, Sound
  <2>3. Alone(r)
    BY <2>1 DEF Alone, OnlyOfItsGeneration
  <2>4. RunningOf(record, r)
    BY <2>2, <2>3 DEF Sound
  <2>5. path = r /\ run[r] \in {"setup", "wait"}
    BY <2>1, <2>4 DEF RunningOf, Phase, Over
  <2>6. fd[r] = r
    <3>1. CASE run[r] = "setup"
      BY <2>1, <2>3, <3>1 DEF Own
    <3>2. CASE run[r] = "wait"
      BY <2>1, <2>3, <3>2, WorksOn DEF Inv1, Own, Phase
    <3> QED
      BY <2>5, <3>1, <3>2
  <2> QED
    BY <2>1, <2>5, <2>6
<1> QED
  BY <1>1, Inv12Holds, PTL

\* A forwarder works on the FIFO that its own start has made, although it was
\* opened by its path, for every run whose generation no other run was given.
THEOREM ForwardersKeepApart == Spec => []ForwardsOwnFifo
<1>1. Inv1 /\ Inv2 => ForwardsOwnFifo
  <2> SUFFICES ASSUME Inv1, Inv2, NEW r \in Runs, source[r] # None,
                      OnlyOfItsGeneration(r)
               PROVE  source[r] = r
    BY DEF ForwardsOwnFifo
  <2>1. run[r] # "idle" /\ Own(r)
    BY DEF Inv1, Inv2, PhaseInv, OwnInv, Phase, Opening
  <2>2. Alone(r)
    BY <2>1 DEF Alone, OnlyOfItsGeneration
  <2> QED
    BY <2>1, <2>2 DEF Own
<1> QED
  BY <1>1, Inv12Holds, PTL

\* forward_input loses, doubles and reorders nothing while it works alone on its
\* FIFO, whichever FIFO that is.
THEOREM InputStays == Spec => []InputConserved
<1>1. Inv1 /\ Inv3 => InputConserved
  BY WorksOn DEF Inv1, Inv3, Forwarded, Works, InputConserved
<1> QED
  BY <1>1, Inv12Holds, Inv3Holds, PTL

\* supervise_pty leaves neither its FIFO open nor its forwarder at work, unless
\* child.wait has failed; then a forwarder that was never told to stop has it.
THEOREM RunsRelease == Spec => []ReleasedAtTheEnd
<1>1. Inv1 => ReleasedAtTheEnd
  BY DEF Inv1, PhaseInv, Phase, Over, Works, ReleasedAtTheEnd
<1> QED
  BY <1>1, Inv12Holds, PTL

-----------------------------------------------------------------------------
(* Lines, as a child gets them *)

\* The text of send s among the first e pieces of a sequence.
Has(q, e, s, i)  == \E d \in 1 .. e : q[d] = <<s, i>>
Lacks(q, e, s)   == \A i \in 1 .. Length(s) : ~Has(q, e, s, i)
HasAll(q, e, s)  == \A i \in 1 .. Length(s) : Has(q, e, s, i)
Whole(q, e, s)   == Lacks(q, e, s) \/ HasAll(q, e, s)
Submits(q, s)    == \A e \in 1 .. Len(q) : q[e] = <<s, Enter>> => Whole(q, e, s)

\* How far send s is with its text in FIFO i.
Begun(s)   == send[s] = "idle" \/ (part[s] = "text" /\ send[s] = "open")
Texts(s)   == part[s] = "text" /\ send[s] = "write"
Enters(s)  == part[s] = "enter" /\ send[s] = "write"
Texted(s)  == part[s] = "enter" \/ send[s] = "pause"
Done(s)    == Length(s) - Len(left[s])
Sending(s) ==
  /\ Texts(s) => /\ Len(left[s]) \in 1 .. Length(s)
                 /\ \A m \in 1 .. Len(left[s]) : left[s][m] = <<s, Done(s) + m>>
  /\ Enters(s) => left[s] = << <<s, Enter>> >>
Holds(i, s) ==
  LET q == written[i] IN
  /\ Submits(q, s)
  /\ Begun(s) \/ (Texts(s) /\ wfd[s] # i) => Lacks(q, Len(q), s)
  /\ Texts(s) /\ wfd[s] = i =>
       \A j \in 1 .. Length(s) : Has(q, Len(q), s, j) <=> j <= Done(s)
  /\ Texted(s) => Whole(q, Len(q), s)

Inv4 == \A s \in Sends : Sending(s) /\ \A i \in Runs : Holds(i, s)

\* What a forwarder has taken that works alone on a FIFO is a beginning of what
\* was put into that.
Taken(r) == got[r] \o tty[r] \o hand[r]
Inv5 == \A r \in Runs, s \in Sends :
          forward[r] = "done" /\ Unshared(r) => Submits(Taken(r), s)

-----------------------------------------------------------------------------
(* Lines and sequences *)

LEMMA LengthType ==
  ASSUME NEW s \in Sends
  PROVE  Length(s) \in 1 .. TextLength /\ Length(s) \in Nat /\ Length(s) >= 1
BY InputAssumption DEF Length

\* The text that is in a sequence after one more piece.
LEMMA AppendHas ==
  ASSUME NEW q \in Seq(Pieces), NEW x \in Pieces, NEW s, NEW i
  PROVE  /\ \A e \in 1 .. Len(q) : Has(Append(q, x), e, s, i) <=> Has(q, e, s, i)
         /\ Has(Append(q, x), Len(Append(q, x)), s, i)
              <=> Has(q, Len(q), s, i) \/ x = <<s, i>>
<1> DEFINE r == Append(q, x)
<1>1. /\ Len(q) \in Nat /\ Len(r) = Len(q) + 1
      /\ \A d \in 1 .. Len(q) : r[d] = q[d]
      /\ r[Len(q) + 1] = x
  BY AppendProperties, LenProperties
<1> HIDE DEF r
<1>2. \A e \in 1 .. Len(q) : Has(r, e, s, i) <=> Has(q, e, s, i)
  BY <1>1 DEF Has
<1>3. Has(r, Len(r), s, i) <=> Has(q, Len(q), s, i) \/ x = <<s, i>>
  <2>1. \A d : d \in 1 .. Len(r) <=> d \in 1 .. Len(q) \/ d = Len(q) + 1
    BY <1>1
  <2> QED
    BY <1>1, <2>1 DEF Has
<1> QED
  BY <1>2, <1>3 DEF r

\* An Enter submits a whole text or none if what is there before it is whole.
LEMMA AppendSubmits ==
  ASSUME NEW q \in Seq(Pieces), NEW x \in Pieces, NEW s \in Sends,
         Submits(q, s), x = <<s, Enter>> => Whole(q, Len(q), s)
  PROVE  Submits(Append(q, x), s)
<1> DEFINE r == Append(q, x)
<1>1. /\ Len(q) \in Nat /\ Len(r) = Len(q) + 1
      /\ \A d \in 1 .. Len(q) : r[d] = q[d]
      /\ r[Len(q) + 1] = x
  BY AppendProperties, LenProperties
<1>2. \A i : /\ \A e \in 1 .. Len(q) : Has(r, e, s, i) <=> Has(q, e, s, i)
             /\ Has(r, Len(r), s, i) <=> Has(q, Len(q), s, i) \/ x = <<s, i>>
  BY AppendHas
<1> HIDE DEF r
<1> SUFFICES ASSUME NEW e \in 1 .. Len(r), r[e] = <<s, Enter>> PROVE Whole(r, e, s)
  BY DEF Submits, r
<1>3. CASE e \in 1 .. Len(q)
  BY <1>1, <1>2, <1>3 DEF Submits, Whole, Lacks, HasAll
<1>4. CASE e = Len(r)
  <2>1. x = <<s, Enter>>
    BY <1>1, <1>4
  <2>2. \A i \in 1 .. Length(s) : x # <<s, i>>
    BY <2>1 DEF Enter
  <2> QED
    BY <1>1, <1>2, <1>4, <2>1, <2>2 DEF Whole, Lacks, HasAll
<1> QED
  BY <1>1, <1>3, <1>4

\* It is true of every beginning of a sequence of which it is true.
LEMMA PrefixSubmits ==
  ASSUME NEW p \in Seq(Pieces), NEW q \in Seq(Pieces), NEW s \in Sends, Submits(p \o q, s)
  PROVE  Submits(p, s)
<1> DEFINE r == p \o q
<1>1. /\ Len(p) \in Nat /\ Len(q) \in Nat /\ Len(r) = Len(p) + Len(q)
      /\ \A i \in 1 .. Len(p) : r[i] = p[i]
  BY ConcatProperties, LenProperties
<1> HIDE DEF r
<1>2. Submits(r, s)
  BY DEF r
<1>3. \A e \in 1 .. Len(p) : \A i : Has(r, e, s, i) <=> Has(p, e, s, i)
  BY <1>1, SMTT(30) DEF Has
<1>4. \A e \in 1 .. Len(p) : e \in 1 .. Len(r) /\ r[e] = p[e]
  BY <1>1
<1> QED
  BY <1>2, <1>3, <1>4 DEF Submits, Whole, Lacks, HasAll

LEMMA EmptyHolds ==
  ASSUME NEW s
  PROVE  /\ Submits(<<>>, s) /\ Lacks(<<>>, Len(<<>>), s) /\ Whole(<<>>, Len(<<>>), s)
         /\ \A i : ~Has(<<>>, Len(<<>>), s, i)
<1>1. Len(<<>>) = 0 /\ 1 .. 0 = {}
  OBVIOUS
<1> QED
  BY <1>1 DEF Submits, Lacks, Whole, Has

-----------------------------------------------------------------------------
(* Lines and steps *)

\* A send that does not move, and whose FIFO at most loses what it holds.
LEMMA HoldsKept ==
  ASSUME NEW s \in Sends, NEW i \in Runs, Holds(i, s),
         \/ written'[i] = written[i]
         \/ written'[i] = <<>> /\ wfd[s] # i,
         send'[s] = send[s], part'[s] = part[s], left'[s] = left[s], wfd'[s] = wfd[s]
  PROVE  Holds(i, s)'
<1>1. CASE written'[i] = written[i]
  BY <1>1 DEF Holds, Begun, Texts, Texted, Done
<1>2. CASE written'[i] = <<>> /\ wfd[s] # i
  BY <1>2, EmptyHolds DEF Holds, Begun, Texts, Texted
<1> QED
  BY <1>1, <1>2

LEMMA SendingKept ==
  ASSUME NEW s \in Sends, Sending(s),
         send'[s] = send[s], part'[s] = part[s], left'[s] = left[s]
  PROVE  Sending(s)'
BY DEF Sending, Texts, Enters, Done

\* A FIFO that a send has open for writing is not emptied by the others.
LEMMA CloseFifoHolds ==
  ASSUME Inv4, NEW r \in Runs, CloseFifo(r), UNCHANGED sendVars
  PROVE  Inv4'
<1> SUFFICES ASSUME NEW s \in Sends PROVE Sending(s)' /\ \A i \in Runs : Holds(i, s)'
  BY DEF Inv4
<1>1. /\ send'[s] = send[s] /\ part'[s] = part[s]
      /\ left'[s] = left[s] /\ wfd'[s] = wfd[s]
  BY DEF sendVars
<1>2. Sending(s)'
  BY <1>1, SendingKept DEF Inv4
<1>3. ASSUME NEW i \in Runs PROVE Holds(i, s)'
  <2>1. written'[i] = written[i] \/ (written'[i] = <<>> /\ wfd[s] # i)
    BY DEF CloseFifo
  <2> QED
    BY <1>1, <2>1, HoldsKept DEF Inv4
<1> QED
  BY <1>2, <1>3

\* The others of a send that moves, while it puts nothing into a FIFO.
LEMMA OthersHold ==
  ASSUME TypeOK, Inv4, NEW z \in Sends, NEW s \in Sends \ {z},
         \A i \in Runs : \/ written'[i] = written[i]
                         \/ written'[i] = <<>> /\ \A y \in Sends \ {z} : wfd[y] # i,
         send'[s] = send[s], part'[s] = part[s], left'[s] = left[s], wfd'[s] = wfd[s]
  PROVE  Sending(s)' /\ \A i \in Runs : Holds(i, s)'
<1>1. Sending(s)'
  BY SendingKept DEF Inv4
<1>2. ASSUME NEW i \in Runs PROVE Holds(i, s)'
  BY HoldsKept DEF Inv4
<1> QED
  BY <1>1, <1>2

\* One more piece of send z goes into FIFO k.
LEMMA PutHolds ==
  ASSUME TypeOK, Inv4, NEW z \in Sends, SendWrites(z)
  PROVE  Inv4'
<1> DEFINE x == Head(left[z])
<1>1. PICK k \in Runs : k = wfd[z]
  BY DEF SendWrites, TypeOK
<1>2. /\ send[z] = "write" /\ left[z] \in Seq(Pieces) /\ left[z] # <<>>
      /\ Len(left[z]) \in Nat /\ x \in Pieces /\ x = left[z][1]
      /\ Tail(left[z]) \in Seq(Pieces) /\ Len(Tail(left[z])) = Len(left[z]) - 1
      /\ \A m \in 1 .. Len(left[z]) - 1 : Tail(left[z])[m] = left[z][m + 1]
  <2>1. send[z] = "write" /\ left[z] \in Seq(Pieces) /\ left[z] # <<>>
    BY DEF SendWrites, TypeOK
  <2>2. /\ x \in Pieces /\ Tail(left[z]) \in Seq(Pieces)
        /\ Len(Tail(left[z])) = Len(left[z]) - 1
        /\ \A m \in 1 .. Len(left[z]) - 1 : Tail(left[z])[m] = left[z][m + 1]
    BY <2>1, HeadTailProperties
  <2>3. x = left[z][1] /\ Len(left[z]) \in Nat
    BY <2>1, LenProperties
  <2> QED
    BY <2>1, <2>2, <2>3
<1>3. /\ written' = [written EXCEPT ![k] = Append(written[k], x)]
      /\ left' = [left EXCEPT ![z] = Tail(left[z])] /\ part' = part
  BY <1>1 DEF SendWrites, Put
<1>4. \A s \in Sends \ {z} : send'[s] = send[s] /\ wfd'[s] = wfd[s]
  BY DEF SendWrites, Put, Move, TypeOK
<1>5. /\ part[z] = "text" => x = <<z, Done(z) + 1>> /\ Len(left[z]) \in 1 .. Length(z)
      /\ part[z] = "enter" => x = <<z, Enter>> /\ Len(left[z]) = 1
      /\ part[z] \in {"text", "enter"}
  <2>1. Len(left[z]) \in Nat \ {0} /\ 1 \in 1 .. Len(left[z])
    BY <1>2, EmptySeq
  <2>2. part[z] = "text" => x = <<z, Done(z) + 1>> /\ Len(left[z]) \in 1 .. Length(z)
    BY <1>2, <2>1 DEF Inv4, Sending, Texts
  <2>3. part[z] = "enter" => x = <<z, Enter>> /\ Len(left[z]) = 1
    <3>1. part[z] = "enter" => left[z] = << <<z, Enter>> >>
      BY <1>2 DEF Inv4, Sending, Enters
    <3>2. Len(<< <<z, Enter>> >>) = 1 /\ << <<z, Enter>> >>[1] = <<z, Enter>>
      OBVIOUS
    <3> QED
      BY <1>2, <3>1, <3>2
  <2> QED
    BY <2>2, <2>3 DEF TypeOK
<1>6. \A s \in Sends \ {z} : \A n : x # <<s, n>>
  BY <1>5
<1>7. \A i \in Runs : written[i] \in Seq(Pieces)
  BY DEF TypeOK
<1>8. /\ written'[k] = Append(written[k], x)
      /\ \A i \in Runs \ {k} : written'[i] = written[i]
      /\ left'[z] = Tail(left[z]) /\ \A s \in Sends \ {z} : left'[s] = left[s]
  BY <1>3 DEF TypeOK
<1> HIDE DEF x
<1>9. ASSUME NEW s \in Sends \ {z} PROVE Sending(s)' /\ \A i \in Runs : Holds(i, s)'
  <2>1. Sending(s)'
    BY <1>3, <1>4, <1>8, SendingKept DEF Inv4
  <2>2. ASSUME NEW i \in Runs \ {k} PROVE Holds(i, s)'
    BY <1>3, <1>4, <1>8, HoldsKept DEF Inv4
  <2>3. Holds(k, s)'
    <3>1. Submits(Append(written[k], x), s)
      BY <1>2, <1>6, <1>7, AppendSubmits DEF Inv4, Holds
    <3>2. \A n : Has(Append(written[k], x), Len(Append(written[k], x)), s, n)
                 <=> Has(written[k], Len(written[k]), s, n)
      BY <1>2, <1>6, <1>7, AppendHas
    <3> QED
      BY <1>3, <1>4, <1>8, <3>1, <3>2, SMTT(30)
         DEF Inv4, Holds, Begun, Texts, Texted, Done, Whole, Lacks, HasAll
  <2> QED
    BY <2>1, <2>2, <2>3
<1>10. /\ Len(left[z]) = 1 => send'[z] \in {"pause", "done"}
       /\ send'[z] = "pause" => part[z] = "text"
       /\ Len(left[z]) # 1 => send'[z] = "write" /\ wfd'[z] = k
  <2>1. AfterPart(z) \in {"pause", "done"} /\ (AfterPart(z) = "pause" => part[z] = "text")
    BY DEF AfterPart
  <2>2. CASE Len(left[z]) = 1
    <3>1. send' = [send EXCEPT ![z] = AfterPart(z)]
      BY <1>1, <2>2 DEF SendWrites, Put, Move
    <3> QED
      BY <2>1, <2>2, <3>1 DEF TypeOK
  <2>3. CASE Len(left[z]) # 1
    <3>1. send[z] = "write" /\ send' = send /\ wfd' = wfd
      BY <1>1, <2>3 DEF SendWrites, Put
    <3> QED
      BY <1>1, <1>2, <2>3, <3>1
  <2> QED
    BY <2>2, <2>3
<1>11. CASE part[z] = "enter"
  <2>1. send'[z] = "done" /\ part'[z] = "enter"
    BY <1>3, <1>5, <1>10, <1>11
  <2>2. ASSUME NEW i \in Runs
        PROVE  Submits(written[i], z) /\ Whole(written[i], Len(written[i]), z)
    BY <1>11 DEF Inv4, Holds, Texted
  <2>3. Submits(Append(written[k], x), z)
    BY <1>2, <1>7, <2>2, AppendSubmits
  <2>4. \A n \in 1 .. Length(z) : x # <<z, n>>
    BY <1>5, <1>11, LengthType DEF Enter
  <2>5. Whole(Append(written[k], x), Len(Append(written[k], x)), z)
    <3>1. \A n \in 1 .. Length(z) :
            Has(Append(written[k], x), Len(Append(written[k], x)), z, n)
              <=> Has(written[k], Len(written[k]), z, n)
      BY <1>2, <1>7, <2>4, AppendHas
    <3> QED
      BY <2>2, <3>1 DEF Whole, Lacks, HasAll
  <2>6. Sending(z)'
    BY <2>1 DEF Sending, Texts, Enters
  <2>7. ASSUME NEW i \in Runs PROVE Holds(i, z)'
    BY <1>8, <2>1, <2>2, <2>3, <2>5 DEF Holds, Begun, Texts
  <2> QED
    BY <1>9, <2>6, <2>7 DEF Inv4
<1>12. CASE part[z] = "text"
  <2>1. /\ Length(z) \in Nat /\ x = <<z, Done(z) + 1>> /\ Len(left[z]) \in 1 .. Length(z)
        /\ Done(z) \in 0 .. Length(z) - 1 /\ Done(z) + Len(left[z]) = Length(z)
    BY <1>2, <1>5, <1>12, LengthType, SMTT(30) DEF Done
  <2>2. Len(left'[z]) = Len(left[z]) - 1 /\ Done(z)' = Done(z) + 1
    BY <1>2, <1>8, <2>1 DEF Done
  <2>3. Sending(z)'
    <3>1. CASE Len(left[z]) = 1
      BY <1>10, <3>1 DEF Sending, Texts, Enters
    <3>2. CASE Len(left[z]) # 1
      <4>1. ASSUME NEW m \in 1 .. Len(left'[z])
            PROVE  left'[z][m] = <<z, (Done(z) + 1) + m>>
        <5>1. left'[z][m] = left[z][m + 1] /\ m + 1 \in 1 .. Len(left[z])
          BY <1>2, <1>8, <2>2
        <5>2. left[z][m + 1] = <<z, Done(z) + (m + 1)>>
          BY <1>2, <1>12, <5>1 DEF Inv4, Sending, Texts
        <5> QED
          BY <2>1, <2>2, <5>1, <5>2
      <4>2. Len(left[z]) - 1 \in 1 .. Length(z)
        <5>1. \A n, l \in Nat : n \in 1 .. l /\ n # 1 => n - 1 \in 1 .. l
          OBVIOUS
        <5> QED
          BY <1>2, <2>1, <3>2, <5>1
      <4> QED
        BY <1>3, <1>12, <2>2, <4>1, <4>2 DEF Sending, Texts, Enters
    <3> QED
      BY <3>1, <3>2
  <2>4. ASSUME NEW i \in Runs \ {k} PROVE Holds(i, z)'
    <3>1. Submits(written[i], z) /\ Lacks(written[i], Len(written[i]), z)
      BY <1>1, <1>2, <1>12 DEF Inv4, Holds, Texts
    <3>2. send'[z] = "write" => wfd'[z] = k
      BY <1>10
    <3> QED
      BY <1>8, <3>1, <3>2 DEF Holds, Texts, Whole
  <2>5. Holds(k, z)'
    <3>1. Submits(Append(written[k], x), z)
      BY <1>2, <1>7, <2>1, AppendSubmits DEF Inv4, Holds, Enter
    <3>2. \A j \in 1 .. Length(z) :
            Has(Append(written[k], x), Len(Append(written[k], x)), z, j)
              <=> j <= Done(z) + 1
      <4>1. \A j \in 1 .. Length(z) :
              Has(written[k], Len(written[k]), z, j) <=> j <= Done(z)
        BY <1>1, <1>2, <1>12 DEF Inv4, Holds, Texts
      <4>2. \A j : Has(Append(written[k], x), Len(Append(written[k], x)), z, j)
                   <=> Has(written[k], Len(written[k]), z, j) \/ x = <<z, j>>
        <5> DEFINE q == written[k]
        <5>1. q \in Seq(Pieces) /\ x \in Pieces
          BY <1>2, <1>7
        <5> HIDE DEF q
        <5>2. \A j : Has(Append(q, x), Len(Append(q, x)), z, j)
                     <=> Has(q, Len(q), z, j) \/ x = <<z, j>>
          <6> TAKE j
          <6> QED
            BY <5>1, AppendHas
        <5> QED
          BY <5>2 DEF q
      <4> QED
        BY <2>1, <4>1, <4>2
    <3>3. Len(left[z]) = 1 => HasAll(Append(written[k], x), Len(Append(written[k], x)), z)
      BY <2>1, <3>2 DEF HasAll
    <3>4. /\ ~Begun(z)' /\ (Texts(z)' => wfd'[z] = k)
          /\ Texted(z)' => Len(left[z]) = 1
      BY <1>2, <1>3, <1>10, <1>12 DEF Begun, Texts, Texted
    <3> QED
      BY <1>8, <2>2, <3>1, <3>2, <3>3, <3>4 DEF Holds, Whole
  <2> QED
    BY <1>9, <2>3, <2>4, <2>5 DEF Inv4
<1> QED
  BY <1>5, <1>11, <1>12

\* What has been put into the FIFOs.
LEMMA LineStep ==
  ASSUME TypeOK, Inv4, [Next]_vars
  PROVE  Inv4'
<1> USE DEF recordVars, runVars, pipeVars, inputVars, haltVars, sendVars
<1>1. ASSUME NEW r \in Runs, SetupFails(r) PROVE Inv4'
  BY <1>1, CloseFifoHolds DEF SetupFails
<1>2. ASSUME NEW r \in Runs, ForwarderStops(r) PROVE Inv4'
  BY <1>2, CloseFifoHolds DEF ForwarderStops
<1>3. ASSUME NEW r \in Runs, ForwarderFails(r) PROVE Inv4'
  BY <1>3, CloseFifoHolds DEF ForwarderFails
<1>4. ASSUME NEW s \in Sends, SendLoads(s) PROVE Inv4'
  <2>1. ASSUME NEW z \in Sends \ {s} PROVE Sending(z)' /\ \A i \in Runs : Holds(i, z)'
    <3>1. /\ send'[z] = send[z] /\ part'[z] = part[z]
          /\ left'[z] = left[z] /\ wfd'[z] = wfd[z] /\ written' = written
      BY <1>4 DEF SendLoads, Move, TypeOK
    <3> QED
      BY <3>1, OthersHold
  <2>2. /\ written' = written /\ send'[s] \in {"open", "failed"}
        /\ part'[s] = IF send[s] = "idle" THEN "text" ELSE "enter"
        /\ send[s] \in {"idle", "pause"}
    BY <1>4 DEF SendLoads, Move, TypeOK
  <2>3. Sending(s)'
    BY <2>2 DEF Sending, Texts, Enters
  <2>4. ASSUME NEW i \in Runs PROVE Holds(i, s)'
    BY <2>2 DEF Inv4, Holds, Begun, Texts, Texted
  <2> QED
    BY <2>1, <2>3, <2>4 DEF Inv4
<1>5. ASSUME NEW s \in Sends, SendFindsNoReader(s) PROVE Inv4'
  <2>1. ASSUME NEW z \in Sends \ {s} PROVE Sending(z)' /\ \A i \in Runs : Holds(i, z)'
    <3>1. /\ send'[z] = send[z] /\ part'[z] = part[z]
          /\ left'[z] = left[z] /\ wfd'[z] = wfd[z] /\ written' = written
      BY <1>5 DEF SendFindsNoReader, Move, TypeOK
    <3> QED
      BY <3>1, OthersHold
  <2>2. written' = written /\ send'[s] = "failed" /\ part'[s] = part[s]
    BY <1>5 DEF SendFindsNoReader, Move, TypeOK
  <2>3. Sending(s)'
    BY <2>2 DEF Sending, Texts, Enters
  <2>4. ASSUME NEW i \in Runs PROVE Holds(i, s)'
    BY <2>2 DEF Inv4, Holds, Begun, Texts, Texted
  <2> QED
    BY <2>1, <2>3, <2>4 DEF Inv4
<1>6. ASSUME NEW s \in Sends, SendOpens(s) PROVE Inv4'
  <2>1. ASSUME NEW z \in Sends \ {s} PROVE Sending(z)' /\ \A i \in Runs : Holds(i, z)'
    <3>1. /\ send'[z] = send[z] /\ part'[z] = part[z]
          /\ left'[z] = left[z] /\ wfd'[z] = wfd[z] /\ written' = written
      BY <1>6 DEF SendOpens, Move, TypeOK
    <3> QED
      BY <3>1, OthersHold
  <2>2. /\ send[s] = "open" /\ part[s] \in {"text", "enter"}
        /\ written' = written /\ send'[s] = "write" /\ part'[s] = part[s]
        /\ left'[s] = Bytes(s, part[s])
    BY <1>6 DEF SendOpens, Move, TypeOK
  <2>3. CASE part[s] = "text"
    <3>1. /\ left'[s] = [i \in 1 .. Length(s) |-> <<s, i>>] /\ Length(s) \in Nat
          /\ Length(s) >= 1
      BY <2>2, <2>3, LengthType DEF Bytes
    <3>2. Len(left'[s]) = Length(s) /\ \A m \in 1 .. Length(s) : left'[s][m] = <<s, m>>
      BY <3>1
    <3>3. Done(s)' = 0 /\ \A m \in 1 .. Length(s) : 0 + m = m /\ ~(m <= 0)
      BY <3>1, <3>2 DEF Done
    <3>4. Sending(s)'
      BY <2>2, <2>3, <3>1, <3>2, <3>3 DEF Sending, Texts, Enters
    <3>5. ASSUME NEW i \in Runs PROVE Holds(i, s)'
      BY <2>2, <2>3, <3>3 DEF Inv4, Holds, Begun, Texts, Texted, Lacks
    <3> QED
      BY <2>1, <3>4, <3>5 DEF Inv4
  <2>4. CASE part[s] = "enter"
    <3>1. Sending(s)'
      BY <2>2, <2>4 DEF Sending, Texts, Enters, Bytes
    <3>2. ASSUME NEW i \in Runs PROVE Holds(i, s)'
      BY <2>2, <2>4 DEF Inv4, Holds, Begun, Texts, Texted
    <3> QED
      BY <2>1, <3>1, <3>2 DEF Inv4
  <2> QED
    BY <2>2, <2>3, <2>4
<1>7. ASSUME NEW s \in Sends, SendWrites(s) PROVE Inv4'
  BY <1>7, PutHolds
<1>8. ASSUME NEW s \in Sends, SendBreaks(s) PROVE Inv4'
  <2>1. \A i \in Runs : \/ written'[i] = written[i]
                        \/ written'[i] = <<>> /\ \A y \in Sends \ {s} : wfd[y] # i
    BY <1>8 DEF SendBreaks, SendCloses
  <2>2. /\ send'[s] = "failed" /\ part'[s] = part[s]
        /\ \A z \in Sends \ {s} : /\ send'[z] = send[z] /\ part'[z] = part[z]
                                  /\ left'[z] = left[z] /\ wfd'[z] = wfd[z]
    BY <1>8 DEF SendBreaks, SendCloses, Move, TypeOK
  <2>3. ASSUME NEW z \in Sends \ {s} PROVE Sending(z)' /\ \A i \in Runs : Holds(i, z)'
    BY <2>1, <2>2, OthersHold
  <2>4. Sending(s)'
    BY <2>2 DEF Sending, Texts, Enters
  <2>5. ASSUME NEW i \in Runs PROVE Holds(i, s)'
    <3>1. CASE written'[i] = written[i]
      BY <2>2, <3>1 DEF Inv4, Holds, Begun, Texts, Texted
    <3>2. CASE written'[i] = <<>>
      BY <2>2, <3>2, EmptyHolds DEF Holds, Begun, Texts, Texted
    <3> QED
      BY <2>1, <3>1, <3>2
  <2> QED
    BY <2>3, <2>4, <2>5 DEF Inv4
<1>9. CASE UNCHANGED <<written, send, part, left, wfd>>
  BY <1>9 DEF Inv4, Sending, Holds, Begun, Texts, Enters, Texted, Done
<1> QED
  BY <1>1, <1>2, <1>3, <1>4, <1>5, <1>6, <1>7, <1>8, <1>9
     DEF Next, StartSteps, HaltSteps, RunSteps, ForwarderSteps, SendSteps, vars,
         StartBegins, InitializeLoad, RemoveFifo, MakeFifo, InitializeSave,
         InitializeFails, StartAnswered, StartTimesOut, StopBegins, TerminateChild,
         NothingToTerminate, ChildStays, HaltSkips, HaltLoads, HaltSaves, SpawnChild,
         SpawnFails, RecordLoads, RecordSaves, OpenFifo, PromoteLoads, PromoteSaves,
         StartThreads, WaitFails, Abort, ReapChild, JoinForwarder, RunSkips, RunLoads,
         RunSaves, ForwarderReads, ForwarderWrites, ChildReads, ChildExits,
         TerminalCloses

\* What has been taken is a beginning of what was put in, while it is forwarded.
LEMMA TakenTypes ==
  ASSUME TypeOK, NEW r \in Runs
  PROVE  /\ got[r] \in Seq(Pieces) /\ tty[r] \in Seq(Pieces) /\ hand[r] \in Seq(Pieces)
         /\ got[r] \o tty[r] \in Seq(Pieces) /\ Taken(r) \in Seq(Pieces)
         /\ fifo[r] \in Seq(Pieces)
BY ForwardedTypes DEF Taken

LEMMA WorksSubmits ==
  ASSUME TypeOK, PhaseInv, Inv3, Inv4, NEW r \in Runs, Works(r), Unshared(r),
         NEW s \in Sends
  PROVE  Submits(Taken(r), s)
<1> DEFINE i == source[r]
<1>0. i \in Runs
  BY WorksOn
<1>1. Submits(written[i], s)
  BY <1>0 DEF Inv4, Holds
<1>2. written[i] = Taken(r) \o fifo[i]
  BY DEF Inv3, Forwarded, Taken
<1>3. Submits(Taken(r) \o fifo[i], s)
  BY <1>1, <1>2
<1>4. Taken(r) \in Seq(Pieces) /\ fifo[i] \in Seq(Pieces)
  BY <1>0, TakenTypes
<1> HIDE DEF Taken, i
<1> QED
  BY <1>3, <1>4, PrefixSubmits

\* The child gets a beginning of what is taken.
LEMMA TakenParts ==
  ASSUME TypeOK, NEW r \in Runs, NEW s \in Sends, Submits(Taken(r), s)
  PROVE  Submits(got[r] \o tty[r], s) /\ Submits(got[r], s)
<1>1. Submits(got[r] \o tty[r], s)
  BY TakenTypes, PrefixSubmits DEF Taken
<1>2. Submits(got[r], s)
  BY <1>1, TakenTypes, PrefixSubmits
<1> QED
  BY <1>1, <1>2

\* A step that moves the input of one run.
LEMMA OneTakes ==
  ASSUME Inv5, NEW r \in Runs, source' = source,
         \A q \in Runs \ {r} : UNCHANGED <<forward[q], hand[q], tty[q], got[q]>>,
         \A s \in Sends : forward'[r] = "done" /\ Unshared(r) => Submits(Taken(r)', s)
  PROVE  Inv5'
<1> SUFFICES ASSUME NEW q \in Runs, NEW s \in Sends, forward'[q] = "done", Unshared(q)'
             PROVE  Submits(Taken(q), s)'
  BY DEF Inv5
<1>1. Unshared(q)
  BY DEF Unshared
<1>2. CASE q = r
  BY <1>1, <1>2
<1>3. CASE q # r
  BY <1>1, <1>3 DEF Inv5, Taken
<1> QED
  BY <1>2, <1>3

\* What has been taken out of them.
LEMMA TakenStep ==
  ASSUME TypeOK, PhaseInv, Inv3, Inv4, Inv5, [Next]_vars
  PROVE  Inv5'
<1> USE DEF recordVars, runVars, pipeVars, inputVars, haltVars, sendVars
<1>1. ASSUME NEW r \in Runs, StartThreads(r) PROVE Inv5'
  <2> SUFFICES ASSUME NEW q \in Runs, forward'[q] = "done", Unshared(q)', NEW s \in Sends
               PROVE  Submits(Taken(q), s)'
    BY DEF Inv5
  <2>1. q # r /\ forward[q] = "done"
    BY <1>1 DEF StartThreads, TypeOK
  <2>2. UNCHANGED <<hand, tty, got>> /\ source[q] # None /\ source[r] = None
        /\ source' = [source EXCEPT ![r] = fd[r]]
    BY <1>1, <2>1 DEF StartThreads, PhaseInv, Phase, Promoting, Opening
  <2>3. Unshared(q)
    BY <2>1, <2>2 DEF Unshared, TypeOK
  <2> QED
    BY <2>1, <2>2, <2>3 DEF Inv5, Taken
<1>2. ASSUME NEW r \in Runs, JoinForwarder(r) PROVE Inv5'
  <2>1. /\ forward[r] = "done" /\ hand[r] = <<>> /\ tty' = [tty EXCEPT ![r] = <<>>]
        /\ UNCHANGED <<source, forward, hand, got>>
    BY <1>2 DEF JoinForwarder, TypeOK
  <2>2. Taken(r)' = got[r]
    BY <2>1, TakenTypes, ConcatEmptySeq DEF Taken, TypeOK
  <2>3. \A s \in Sends : Unshared(r) => Submits(got[r], s)
    BY <2>1, TakenParts DEF Inv5
  <2>4. \A q \in Runs \ {r} : UNCHANGED <<forward[q], hand[q], tty[q], got[q]>>
    BY <2>1 DEF TypeOK
  <2> QED
    BY <2>1, <2>2, <2>3, <2>4, OneTakes
<1>3. ASSUME NEW r \in Runs, ForwarderStops(r) PROVE Inv5'
  <2>1. /\ Works(r) /\ forward' = [forward EXCEPT ![r] = "done"]
        /\ UNCHANGED <<source, hand, tty, got>>
    BY <1>3 DEF ForwarderStops, Works
  <2>2. Taken(r)' = Taken(r) /\ \A s \in Sends : Unshared(r) => Submits(Taken(r), s)
    BY <2>1, WorksSubmits DEF Taken
  <2>3. \A q \in Runs \ {r} : UNCHANGED <<forward[q], hand[q], tty[q], got[q]>>
    BY <2>1 DEF TypeOK
  <2> QED
    BY <2>1, <2>2, <2>3, OneTakes
<1>4. ASSUME NEW r \in Runs, ForwarderReads(r) PROVE Inv5'
  <2>1. /\ source' = source /\ forward'[r] # "done"
        /\ \A q \in Runs \ {r} : UNCHANGED <<forward[q], hand[q], tty[q], got[q]>>
    BY <1>4 DEF ForwarderReads, TypeOK
  <2> QED
    BY <2>1, OneTakes
<1>5. ASSUME NEW r \in Runs, ForwarderWrites(r) PROVE Inv5'
  <2>1. /\ source' = source /\ forward'[r] # "done"
        /\ \A q \in Runs \ {r} : UNCHANGED <<forward[q], hand[q], tty[q], got[q]>>
    BY <1>5 DEF ForwarderWrites, TypeOK
  <2> QED
    BY <2>1, OneTakes
<1>6. ASSUME NEW r \in Runs, ForwarderFails(r) PROVE Inv5'
  <2>1. /\ Works(r) /\ forward' = [forward EXCEPT ![r] = "done"]
        /\ hand' = [hand EXCEPT ![r] = <<>>] /\ UNCHANGED <<source, tty, got>>
    BY <1>6 DEF ForwarderFails, Works
  <2>2. Taken(r)' = got[r] \o tty[r]
    BY <2>1, TakenTypes, ConcatEmptySeq DEF Taken, TypeOK
  <2>3. \A s \in Sends : Unshared(r) => Submits(got[r] \o tty[r], s)
    BY <2>1, WorksSubmits, TakenParts
  <2>4. \A q \in Runs \ {r} : UNCHANGED <<forward[q], hand[q], tty[q], got[q]>>
    BY <2>1 DEF TypeOK
  <2> QED
    BY <2>1, <2>2, <2>3, <2>4, OneTakes
<1>7. ASSUME NEW r \in Runs, ChildReads(r) PROVE Inv5'
  <2>1. /\ tty[r] # <<>> /\ tty' = [tty EXCEPT ![r] = Tail(tty[r])]
        /\ got' = [got EXCEPT ![r] = Append(got[r], Head(tty[r]))]
        /\ UNCHANGED <<source, forward, hand>>
    BY <1>7 DEF ChildReads
  <2>2. /\ got'[r] = Append(got[r], Head(tty[r])) /\ tty'[r] = Tail(tty[r])
        /\ \A q \in Runs \ {r} : UNCHANGED <<forward[q], hand[q], tty[q], got[q]>>
    BY <2>1 DEF TypeOK
  <2>3. got'[r] \o tty'[r] = got[r] \o tty[r]
    BY <2>1, <2>2, TakenTypes, HandOver
  <2>4. Taken(r)' = Taken(r)
    BY <2>1, <2>3 DEF Taken
  <2> QED
    BY <2>1, <2>2, <2>4, OneTakes DEF Inv5
<1>8. CASE UNCHANGED <<forward, hand, tty, got, source>>
  BY <1>8 DEF Inv5, Taken, Unshared
<1> QED
  BY <1>1, <1>2, <1>3, <1>4, <1>5, <1>6, <1>7, <1>8
     DEF Next, StartSteps, HaltSteps, RunSteps, ForwarderSteps, SendSteps, vars,
         StartBegins, InitializeLoad, RemoveFifo, MakeFifo, InitializeSave,
         InitializeFails, StartAnswered, StartTimesOut, StopBegins, TerminateChild,
         NothingToTerminate, ChildStays, HaltSkips, HaltLoads, HaltSaves, SpawnChild,
         SpawnFails, RecordLoads, RecordSaves, OpenFifo, PromoteLoads, PromoteSaves,
         SetupFails, WaitFails, Abort, ReapChild, RunSkips, RunLoads, RunSaves,
         ChildExits, TerminalCloses, SendLoads, SendFindsNoReader, SendOpens,
         SendWrites, SendBreaks

-----------------------------------------------------------------------------
(* The theorem on lines *)

LEMMA Init45 == Init => Inv4 /\ Inv5
<1> SUFFICES ASSUME Init PROVE Inv4 /\ Inv5
  OBVIOUS
<1>1. Inv4
  BY EmptyHolds DEF Init, Inv4, Sending, Holds, Begun, Texts, Enters, Texted
<1>2. Inv5
  BY DEF Init, Inv5
<1> QED
  BY <1>1, <1>2

LEMMA LinesHold == Spec => [](Inv4 /\ Inv5)
<1>1. Inv1 /\ Inv3 /\ Inv4 /\ Inv5 /\ [Next]_vars => Inv4' /\ Inv5'
  BY LineStep, TakenStep DEF Inv1
<1> QED
  BY <1>1, Init45, Inv12Holds, Inv3Holds, PTL DEF Spec

\* What a child reads that shares its FIFO with no other never has the Enter of a
\* send after a part of its text only, however sends, stops and starts interleave
\* and whatever the sizes of pieces, pipes and reads: write_session_bytes writes
\* everything or fails.
THEOREM LinesAreWhole == Spec => []NoTruncatedLine
<1>1. Inv1 /\ Inv3 /\ Inv4 /\ Inv5 => NoTruncatedLine
  <2> SUFFICES ASSUME Inv1, Inv3, Inv4, Inv5, NEW r \in Runs, NEW s \in Sends,
                      NEW e \in DOMAIN got[r], Unshared(r), got[r][e] = <<s, Enter>>
               PROVE  LET before == {i \in 1 .. Length(s) :
                                       \E d \in 1 .. e : got[r][d] = <<s, i>>}
                      IN before = {} \/ before = 1 .. Length(s)
    BY DEF NoTruncatedLine
  <2>1. e \in 1 .. Len(got[r])
    BY TakenTypes, LenProperties DEF Inv1
  <2>2. forward[r] # "off"
    <3>1. got[r] = <<>> => Len(got[r]) = 0
      BY EmptySeq
    <3>2. got[r] # <<>>
      BY <2>1, <3>1
    <3> QED
      BY <3>2 DEF Inv3, Forwarded
  <2>3. Submits(Taken(r), s)
    <3>1. Works(r) \/ forward[r] = "done"
      BY <2>2 DEF Inv1, TypeOK, Works
    <3> QED
      BY <3>1, WorksSubmits DEF Inv1, Inv5
  <2>4. Submits(got[r], s)
    BY <2>3, TakenParts DEF Inv1
  <2>5. Whole(got[r], e, s)
    BY <2>1, <2>4 DEF Submits
  <2> QED
    BY <2>5 DEF Whole, Lacks, HasAll, Has
<1> QED
  BY <1>1, Inv12Holds, Inv3Holds, LinesHold, PTL
=============================================================================
