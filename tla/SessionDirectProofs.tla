-------------------------- MODULE SessionDirectProofs --------------------------
(***************************************************************************)
(* Proofs about sessions that are only started, each by a client process   *)
(* with a supervisor of its own, while set-ups may fail and supervisors    *)
(* may die: the start lock and the pids on record then keep the starts     *)
(* apart, and the record goes through its generations one by one.          *)
(***************************************************************************)
EXTENDS SessionLifecycleProofs

DirectScenario ==
  /\ Stops = {} /\ InDaemon = {}
  /\ Faults \subseteq {"setup error", "supervisor dies"}

-----------------------------------------------------------------------------
(* The inductive invariant *)

\* Where a start has the start lock: before and after the record is its own.
Preparing == {"init", "init save"}
TimedOut  == {"signal supervisor", "await supervisor", "signal child", "await child",
              "mark", "mark save"}
Begun     == {"spawn run", "poll"} \cup TimedOut

\* Where a run has published its session, unless that has failed.
Late    == {"running", "abort", "mark", "mark save"}
Marking == {"mark", "mark save"}

LockInv ==
  \A s \in Starts :
    /\ startLock = Starter(s) <=> pc[Starter(s)] \in Preparing \cup Begun
    /\ Alive(Starter(s)) => pc[Starter(s)] \in Preparing \cup Begun

\* Nobody overtakes a save.
CopyInv == \A a \in Actors : pc[a] \in SavePoints => copy[a] = meta

\* A supervisor that lives works on the session on record, and its start waits
\* for it until the session has been published.
AliveInv ==
  \A r \in Starts : Alive(Run(r)) =>
    /\ meta.status \in {"starting", "running"}
    /\ meta.status = "starting" => pc[Starter(r)] = "poll"
    /\ meta.status = "running" => pc[Run(r)] \in Late
    /\ pc[Run(r)] \notin Unborn => meta.supervisor = r

\* A start that prepares its session has found no other at work.
PrepareInv ==
  \A s \in Starts :
    /\ pc[Starter(s)] \in Preparing =>
         /\ meta.status # "starting"
         /\ \A r \in Starts : /\ ~Alive(Run(r))
                              /\ child[r] = "alive" => reply[Starter(r)] # "running"
    /\ pc[Starter(s)] = "init save" => gen[Starter(s)] = meta.generation + 1

StartInv ==
  \A s \in Starts :
    /\ pc[Starter(s)] = "spawn run" \/ pc[Run(s)] \in {"boot", "boot save"} =>
         meta.status = "starting" /\ meta.child = Nobody
    /\ pc[Starter(s)] \in TimedOut =>
         /\ meta.status = "starting" /\ gen[Starter(s)] = meta.generation
         /\ pc[Run(s)] \in Ended
    /\ pc[Starter(s)] # "done" => reply[Starter(s)] # "running"

OwnedInv == meta.status = "starting" => \E s \in Starts : pc[Starter(s)] \in Begun

\* A child that somebody still answers for is that of the start at work, or is
\* on record as running.
AnsweredFor(r) == \/ Alive(Run(r)) \/ reply[Starter(r)] = "running"
                \/ startLock = Starter(r)
ChildInv ==
  /\ meta.child \in {Nobody, meta.supervisor}
  /\ \A r \in Starts :
       /\ child[r] = "alive" /\ AnsweredFor(r) =>
            \/ meta.status = "starting" /\ startLock = Starter(r)
            \/ meta.status = "running" /\ meta.child = r
       /\ pc[Run(r)] \in {"promote", "promote save"} /\ child[r] = "alive" =>
            meta.child = r
       /\ pc[Run(r)] \in Marking => child[r] # "alive"

OrderInv == LockInv /\ AliveInv /\ PrepareInv /\ StartInv /\ OwnedInv /\ ChildInv
DirectInv == OrderInv /\ CopyInv

-----------------------------------------------------------------------------
(* Actors *)

LEMMA DirectActors ==
  ASSUME DirectScenario
  PROVE  /\ \A s \in Starts : /\ Starter(s) \in Actors /\ Starter(s) \notin Runs
                              /\ Run(s) \in Actors /\ Starter(s) \in Starters
                              /\ Run(s) \in Runs /\ Run(s) \notin Starters
                              /\ Starter(s) \notin Stoppers /\ Run(s) \notin Stoppers
         /\ \A s, q \in Starts : /\ Starter(s) = Starter(q) => s = q
                                 /\ Run(s) = Run(q) => s = q
                                 /\ Starter(s) # Run(q)
         /\ \A a \in Actors : \E s \in Starts : a = Starter(s) \/ a = Run(s)
<1>1. \A s \in Starts : /\ Starter(s) \in Actors /\ Starter(s) \notin Runs
                        /\ Run(s) \in Actors /\ Starter(s) \in Starters
                        /\ Run(s) \in Runs /\ Run(s) \notin Starters
                        /\ Starter(s) \notin Stoppers /\ Run(s) \notin Stoppers
  BY DEF Starter, Run, Starters, Runs, Stoppers, Actors
<1>2. \A s, q \in Starts : /\ Starter(s) = Starter(q) => s = q
                           /\ Run(s) = Run(q) => s = q
                           /\ Starter(s) # Run(q)
  BY DEF Starter, Run
<1>3. ASSUME NEW a \in Actors PROVE \E s \in Starts : a = Starter(s) \/ a = Run(s)
  <2>1. Stoppers = {}
    BY DEF DirectScenario, Stoppers
  <2>2. CASE a \in Starters
    <3>1. PICK s \in Starts : a = <<"start", s>>
      BY <2>2 DEF Starters
    <3> QED
      BY <3>1 DEF Starter
  <2>3. CASE a \in Runs
    <3>1. PICK s \in Starts : a = <<"run", s>>
      BY <2>3 DEF Runs
    <3> QED
      BY <3>1 DEF Run
  <2> QED
    BY <2>1, <2>2, <2>3 DEF Actors
<1> QED
  BY <1>1, <1>2, <1>3

\* Where an actor with its process has gone, all others have stayed.
LEMMA OneMoves ==
  ASSUME DirectScenario, TypeOK, NEW l, NEW s \in Starts
  PROVE  /\ Goto(Starter(s), l) =>
              /\ pc'[Starter(s)] = l
              /\ \A q \in Starts : pc'[Run(q)] = pc[Run(q)]
              /\ \A q \in Starts \ {s} : pc'[Starter(q)] = pc[Starter(q)]
         /\ Goto(Run(s), l) =>
              /\ pc'[Run(s)] = l
              /\ \A q \in Starts : pc'[Starter(q)] = pc[Starter(q)]
              /\ \A q \in Starts \ {s} : pc'[Run(q)] = pc[Run(q)]
BY DirectActors DEF Goto, TypeOK

\* What an actor returns and where it has the lock.
LEMMA OneReturns ==
  ASSUME DirectScenario, TypeOK, NEW w, NEW s \in Starts
  PROVE  /\ Return(Starter(s), w) =>
              /\ reply'[Starter(s)] = w
              /\ \A q \in Starts \ {s} : reply'[Starter(q)] = reply[Starter(q)]
              /\ startLock' = IF startLock = Starter(s) THEN Nobody ELSE startLock
         /\ Return(Run(s), w) =>
              /\ \A q \in Starts : reply'[Starter(q)] = reply[Starter(q)]
              /\ startLock' = startLock
BY DirectActors, NobodyIsNoActor DEF Return, TypeOK

-----------------------------------------------------------------------------
(* What the invariant says of a run at work *)

\* A run that lives is the only one, no start prepares, and the only child that
\* somebody answers for is its own.
LEMMA RunAtWork ==
  ASSUME DirectScenario, OrderInv, NEW r \in Starts, Alive(Run(r))
  PROVE  /\ \A q \in Starts : Alive(Run(q)) => q = r
         /\ \A q \in Starts : pc[Starter(q)] \notin Preparing
         /\ \A q \in Starts : pc[Starter(q)] \notin TimedOut \cup {"spawn run"}
         /\ \A q \in Starts : child[q] = "alive" /\ AnsweredFor(q) => q = r
         /\ \/ /\ meta.status = "starting" /\ startLock = Starter(r)
               /\ pc[Starter(r)] = "poll"
            \/ /\ meta.status = "running" /\ meta.supervisor = r
               /\ pc[Run(r)] \in Late
<1>1. /\ meta.status \in {"starting", "running"}
      /\ meta.status = "starting" => pc[Starter(r)] = "poll"
      /\ meta.status = "running" => pc[Run(r)] \in Late /\ meta.supervisor = r
  BY DEF OrderInv, AliveInv, Late, Unborn
<1>2. meta.status = "starting" => startLock = Starter(r)
  BY <1>1 DEF OrderInv, LockInv, Begun
<1>3. \A q \in Starts : pc[Starter(q)] \notin Preparing
  BY DEF OrderInv, PrepareInv
<1>4. \A q \in Starts : pc[Starter(q)] \in TimedOut \cup {"spawn run"} =>
        meta.status = "starting" /\ startLock = Starter(q)
  BY DEF OrderInv, StartInv, LockInv, Begun
<1>5. \A q \in Starts : pc[Starter(q)] \notin TimedOut \cup {"spawn run"}
  BY <1>1, <1>2, <1>4, DirectActors DEF TimedOut
<1>6. ASSUME NEW q \in Starts, Alive(Run(q)) PROVE q = r
  <2>1. /\ meta.status = "starting" => pc[Starter(q)] = "poll"
        /\ meta.status = "running" => meta.supervisor = q
    BY <1>6 DEF OrderInv, AliveInv, Late, Unborn
  <2>2. meta.status = "starting" => startLock = Starter(q)
    BY <2>1 DEF OrderInv, LockInv, Begun
  <2> QED
    BY <1>1, <1>2, <2>1, <2>2, DirectActors
<1>7. ASSUME NEW q \in Starts, child[q] = "alive", AnsweredFor(q) PROVE q = r
  <2>1. \/ meta.status = "starting" /\ startLock = Starter(q)
        \/ meta.status = "running" /\ meta.child = q
    BY <1>7 DEF OrderInv, ChildInv
  <2>2. meta.child \in {Nobody, meta.supervisor} /\ q # Nobody
    BY RequestsAssumption DEF OrderInv, ChildInv
  <2> QED
    BY <1>1, <1>2, <2>1, <2>2, DirectActors
<1> QED
  BY <1>1, <1>2, <1>3, <1>5, <1>6, <1>7

-----------------------------------------------------------------------------
(* Steps of runs *)

\* Only run r has moved, or its child.
OnlyRun(r) ==
  /\ startLock' = startLock
  /\ \A q \in Starts : /\ pc'[Starter(q)] = pc[Starter(q)]
                       /\ reply'[Starter(q)] = reply[Starter(q)]
                       /\ gen'[Starter(q)] = gen[Starter(q)]
  /\ \A q \in Starts \ {r} : pc'[Run(q)] = pc[Run(q)] /\ child'[q] = child[q]

\* The run goes on or comes to its end, and the record stays.
LEMMA RunGoesOn ==
  ASSUME DirectScenario, OrderInv, NEW r \in Starts, OnlyRun(r), meta' = meta,
         Alive(Run(r)),
         Alive(Run(r))' \/ pc'[Run(r)] \in Ended,
         pc'[Run(r)] \in {"boot", "boot save"} => pc[Run(r)] \in {"boot", "boot save"},
         pc[Run(r)] \in Unborn => pc'[Run(r)] \in Unborn \cup Ended,
         pc[Run(r)] \in Late => pc'[Run(r)] \in Late \cup Ended,
         pc'[Run(r)] \in {"promote", "promote save"} =>
           pc[Run(r)] \in {"promote", "promote save"} /\ child'[r] = child[r],
         pc'[Run(r)] \in Marking => child'[r] # "alive",
         child'[r] = "alive" => child[r] = "alive" \/ pc[Run(r)] \notin Late
  PROVE  OrderInv'
<1>0. /\ \A q \in Starts : pc[Starter(q)] \notin Preparing
      /\ \A q \in Starts : child[q] = "alive" /\ AnsweredFor(q) => q = r
      /\ \/ /\ meta.status = "starting" /\ startLock = Starter(r)
            /\ pc[Starter(r)] = "poll"
         \/ /\ meta.status = "running" /\ meta.supervisor = r
            /\ pc[Run(r)] \in Late
  BY RunAtWork
<1>1. \A q \in Starts : /\ Alive(Run(q))' => Alive(Run(q))
                        /\ AnsweredFor(q)' => AnsweredFor(q)
  BY DEF OnlyRun, Alive, AnsweredFor
<1>2. LockInv'
  BY DEF OrderInv, LockInv, OnlyRun, Alive
<1>3. AliveInv'
  <2>1. ASSUME NEW q \in Starts, Alive(Run(q))'
        PROVE  /\ meta'.status \in {"starting", "running"}
               /\ meta'.status = "starting" => pc'[Starter(q)] = "poll"
               /\ meta'.status = "running" => pc'[Run(q)] \in Late
               /\ pc'[Run(q)] \notin Unborn => meta'.supervisor = q
    BY <1>0, <1>1, <2>1 DEF OrderInv, AliveInv, OnlyRun, Alive, Unborn, Ended
  <2> QED
    BY <2>1 DEF AliveInv
<1>4. PrepareInv'
  BY <1>0 DEF PrepareInv, OnlyRun, Preparing
<1>5. StartInv'
  BY DEF OrderInv, StartInv, OnlyRun, Alive
<1>6. OwnedInv'
  BY DEF OrderInv, OwnedInv, OnlyRun
<1>7. ASSUME NEW q \in Starts
      PROVE  /\ child'[q] = "alive" /\ AnsweredFor(q)' =>
                  \/ meta'.status = "starting" /\ startLock' = Starter(q)
                  \/ meta'.status = "running" /\ meta'.child = q
             /\ pc'[Run(q)] \in {"promote", "promote save"} /\ child'[q] = "alive" =>
                  meta'.child = q
             /\ pc'[Run(q)] \in Marking => child'[q] # "alive"
  <2>1. CASE q # r
    BY <1>1, <2>1 DEF OrderInv, ChildInv, OnlyRun
  <2>2. CASE q = r
    <3>1. pc'[Run(q)] \in {"promote", "promote save"} => pc[Run(r)] \notin Late
      BY <2>2 DEF Late
    <3>2. child'[q] = "alive" /\ child[q] = "alive" =>
            \/ meta'.status = "starting" /\ startLock' = Starter(q)
            \/ meta'.status = "running" /\ meta'.child = q
      BY <2>2 DEF OrderInv, ChildInv, OnlyRun, AnsweredFor
    <3>3. child'[q] = "alive" /\ child[q] # "alive" =>
            meta'.status = "starting" /\ startLock' = Starter(q)
      BY <1>0, <2>2 DEF OnlyRun
    <3>4. pc'[Run(q)] \in {"promote", "promote save"} /\ child'[q] = "alive" =>
            meta'.child = q
      BY <2>2 DEF OrderInv, ChildInv
    <3> QED
      BY <2>2, <3>2, <3>3, <3>4
  <2> QED
    BY <2>1, <2>2
<1>8. ChildInv'
  BY <1>7 DEF OrderInv, ChildInv
<1> QED
  BY <1>2, <1>3, <1>4, <1>5, <1>6, <1>8 DEF OrderInv

\* A run saves what it has made of the record.
RunSaves(r) ==
  \/ /\ pc[Run(r)] = "boot save" /\ pc'[Run(r)] = "spawn child"
     /\ meta'.status = meta.status /\ meta'.generation = meta.generation
     /\ meta'.child = meta.child /\ meta'.supervisor = r
  \/ /\ pc[Run(r)] = "record save" /\ pc'[Run(r)] = "promote"
     /\ meta'.status = meta.status /\ meta'.generation = meta.generation
     /\ meta'.child \in {r, Nobody}
     /\ child[r] = "alive" => meta'.child = r
     /\ meta'.supervisor = meta.supervisor
  \/ /\ pc[Run(r)] = "promote save" /\ pc'[Run(r)] = "running"
     /\ meta'.status = "running" /\ meta'.generation = meta.generation
     /\ meta'.child = meta.child /\ meta'.supervisor = meta.supervisor
  \/ /\ pc[Run(r)] = "mark save" /\ pc'[Run(r)] = "done"
     /\ meta'.status = "stopped" /\ meta'.generation = meta.generation
     /\ meta'.child = meta.child /\ meta'.supervisor = meta.supervisor

LEMMA RunSavesKeep ==
  ASSUME DirectScenario, OrderInv, NEW r \in Starts, OnlyRun(r), child' = child,
         RunSaves(r)
  PROVE  OrderInv'
<1>0. /\ \A q \in Starts : Alive(Run(q)) => q = r
      /\ \A q \in Starts : pc[Starter(q)] \notin Preparing
      /\ \A q \in Starts : pc[Starter(q)] \notin TimedOut \cup {"spawn run"}
      /\ \A q \in Starts : child[q] = "alive" /\ AnsweredFor(q) => q = r
      /\ \/ /\ meta.status = "starting" /\ startLock = Starter(r)
            /\ pc[Starter(r)] = "poll"
         \/ /\ meta.status = "running" /\ meta.supervisor = r
            /\ pc[Run(r)] \in Late
  <2>1. Alive(Run(r))
    BY DEF RunSaves, Alive, Ended
  <2> QED
    BY <2>1, RunAtWork
<1>1. /\ \A q \in Starts : Alive(Run(q))' => q = r
      /\ \A q \in Starts : AnsweredFor(q)' => AnsweredFor(q)
  BY <1>0 DEF OnlyRun, Alive, AnsweredFor, RunSaves, Ended
<1>2. LockInv'
  BY DEF OrderInv, LockInv, OnlyRun, Alive
<1>3. AliveInv'
  <2>1. Alive(Run(r))' =>
          /\ meta'.status \in {"starting", "running"}
          /\ meta'.status = "starting" => pc'[Starter(r)] = "poll"
          /\ meta'.status = "running" => pc'[Run(r)] \in Late
          /\ meta'.supervisor = r
    BY <1>0 DEF OnlyRun, RunSaves, OrderInv, AliveInv, Alive, Ended, Late, Unborn
  <2> QED
    BY <1>1, <2>1 DEF AliveInv
<1>4. PrepareInv'
  BY <1>0 DEF PrepareInv, OnlyRun, Preparing
<1>5. StartInv'
  <2>1. \A s \in Starts : /\ pc'[Starter(s)] # "spawn run"
                          /\ pc'[Run(s)] \notin {"boot", "boot save"}
                          /\ pc'[Starter(s)] \notin TimedOut
    BY <1>0, <1>1 DEF OnlyRun, RunSaves, Alive, Ended
  <2>2. \A s \in Starts : pc'[Starter(s)] # "done" => reply'[Starter(s)] # "running"
    BY DEF OrderInv, StartInv, OnlyRun
  <2> QED
    BY <2>1, <2>2 DEF StartInv
<1>6. OwnedInv'
  BY <1>0 DEF OnlyRun, OwnedInv, RunSaves, Begun
<1>7. ChildInv'
  <2>0. /\ meta.child \in {Nobody, meta.supervisor}
        /\ pc[Run(r)] \in {"boot", "boot save"} => meta.child = Nobody
    BY DEF OrderInv, ChildInv, StartInv
  <2>1. meta'.child \in {Nobody, meta'.supervisor}
    <3>1. pc[Run(r)] = "record save" => meta.supervisor = r
      BY DEF OrderInv, AliveInv, Alive, Ended, Unborn
    <3> QED
      BY <2>0, <3>1 DEF RunSaves
  <2>2. ASSUME NEW q \in Starts, child'[q] = "alive", AnsweredFor(q)'
        PROVE  \/ meta'.status = "starting" /\ startLock' = Starter(q)
               \/ meta'.status = "running" /\ meta'.child = q
    BY <1>0, <1>1, <2>2 DEF RunSaves, OrderInv, ChildInv, OnlyRun, Late, Marking
  <2>3. ASSUME NEW q \in Starts
        PROVE  /\ pc'[Run(q)] \in {"promote", "promote save"} /\ child'[q] = "alive"
                    => meta'.child = q
               /\ pc'[Run(q)] \in Marking => child'[q] # "alive"
    BY <1>0, <1>1 DEF RunSaves, OrderInv, ChildInv, OnlyRun, Alive, Marking, Ended
  <2> QED
    BY <2>1, <2>2, <2>3 DEF ChildInv
<1> QED
  BY <1>2, <1>3, <1>4, <1>5, <1>6, <1>7 DEF OrderInv

-----------------------------------------------------------------------------
(* Steps of starts *)

\* Only start s has moved, and no child has come to life.
OnlyStart(s) ==
  /\ \A q \in Starts : /\ pc'[Run(q)] = pc[Run(q)]
                       /\ child'[q] = "alive" => child[q] = "alive"
  /\ \A q \in Starts \ {s} : /\ pc'[Starter(q)] = pc[Starter(q)]
                             /\ reply'[Starter(q)] = reply[Starter(q)]
                             /\ gen'[Starter(q)] = gen[Starter(q)]

\* The start does not begin, gets its generation, times out, or comes further
\* in timing out.
StartGoesOn(s) ==
  \/ /\ pc[Starter(s)] = "idle" /\ pc'[Starter(s)] = "done"
     /\ reply'[Starter(s)] # "running"
  \/ /\ pc[Starter(s)] = "init" /\ pc'[Starter(s)] = "init save"
     /\ reply'[Starter(s)] = reply[Starter(s)]
     /\ gen'[Starter(s)] = meta.generation + 1
  \/ /\ pc[Starter(s)] = "poll" /\ pc'[Starter(s)] = "signal supervisor"
     /\ meta.status = "starting" /\ pc[Run(s)] \in Ended
     /\ reply'[Starter(s)] = reply[Starter(s)]
     /\ gen'[Starter(s)] = meta.generation
  \/ /\ pc[Starter(s)] \in TimedOut /\ pc'[Starter(s)] \in TimedOut
     /\ reply'[Starter(s)] \in {reply[Starter(s)], "failed"}
     /\ gen'[Starter(s)] = gen[Starter(s)]

LEMMA StartGoesOnKeeps ==
  ASSUME DirectScenario, OrderInv, NEW s \in Starts, OnlyStart(s), StartGoesOn(s),
         meta' = meta, startLock' = startLock
  PROVE  OrderInv'
<1>1. \A q \in Starts : /\ Alive(Run(q))' <=> Alive(Run(q))
                        /\ reply'[Starter(q)] = "running" => reply[Starter(q)] = "running"
                        /\ AnsweredFor(q)' => AnsweredFor(q)
  BY DEF OnlyStart, StartGoesOn, Alive, AnsweredFor
<1>2. LockInv'
  BY DEF OrderInv, LockInv, OnlyStart, StartGoesOn, Preparing, Begun,
         TimedOut, Alive, Ended
<1>3. AliveInv'
  <2>1. pc'[Starter(s)] # pc[Starter(s)] /\ Alive(Run(s)) => meta.status # "starting"
    BY DEF StartGoesOn, OrderInv, AliveInv, TimedOut, Alive
  <2> QED
    BY <1>1, <2>1 DEF OrderInv, AliveInv, OnlyStart
<1>4. PrepareInv'
  <2>1. ASSUME NEW q \in Starts, pc'[Starter(q)] \in Preparing
        PROVE  /\ pc[Starter(q)] \in Preparing
               /\ pc'[Starter(q)] = "init save" =>
                    gen'[Starter(q)] = meta'.generation + 1
    BY <2>1 DEF OnlyStart, StartGoesOn, Preparing, TimedOut, OrderInv, PrepareInv
  <2>2. ASSUME NEW q \in Starts, pc'[Starter(q)] \in Preparing, NEW r \in Starts
        PROVE  /\ meta'.status # "starting" /\ ~Alive(Run(r))'
               /\ child'[r] = "alive" => reply'[Starter(r)] # "running"
    BY <1>1, <2>1, <2>2 DEF OrderInv, PrepareInv, OnlyStart
  <2>3. \A q \in Starts : pc'[Starter(q)] = "init save" => pc'[Starter(q)] \in Preparing
    BY DEF Preparing
  <2> QED
    BY <2>1, <2>2, <2>3 DEF PrepareInv
<1>5. StartInv'
  <2>1. \A q \in Starts :
          \/ pc'[Starter(q)] = "spawn run"
          \/ pc'[Run(q)] \in {"boot", "boot save"}
          => meta'.status = "starting" /\ meta'.child = Nobody
    BY DEF OrderInv, StartInv, OnlyStart, StartGoesOn, TimedOut
  <2>2. \A q \in Starts : pc'[Starter(q)] \in TimedOut =>
          /\ meta'.status = "starting" /\ gen'[Starter(q)] = meta'.generation
          /\ pc'[Run(q)] \in Ended
    BY DEF OrderInv, StartInv, OnlyStart, StartGoesOn, TimedOut
  <2>3. \A q \in Starts : pc'[Starter(q)] # "done" => reply'[Starter(q)] # "running"
    BY DEF OrderInv, StartInv, OnlyStart, StartGoesOn, TimedOut
  <2> QED
    BY <2>1, <2>2, <2>3 DEF StartInv
<1>6. OwnedInv'
  BY DEF OrderInv, OwnedInv, OnlyStart, StartGoesOn, Begun, TimedOut
<1>7. ChildInv'
  BY <1>1 DEF OrderInv, ChildInv, OnlyStart
<1> QED
  BY <1>2, <1>3, <1>4, <1>5, <1>6, <1>7 DEF OrderInv

\* The start has the lock, and nothing is at work on the record.
StartTakesOver(s) ==
  /\ startLock = Nobody /\ startLock' = Starter(s)
  /\ pc[Starter(s)] = "idle" /\ pc'[Starter(s)] = "init"
  /\ reply'[Starter(s)] = reply[Starter(s)]
  /\ ~SessionIsActive(meta) /\ child[s] = "none"

LEMMA StartTakesOverKeeps ==
  ASSUME DirectScenario, OrderInv, NEW s \in Starts, OnlyStart(s), StartTakesOver(s),
         meta' = meta
  PROVE  OrderInv'
<1>0. /\ meta.status # "starting"
      /\ \A q \in Starts : pc[Starter(q)] \notin Preparing \cup Begun
  BY DirectActors, NobodyIsNoActor DEF StartTakesOver, OrderInv, OwnedInv, LockInv
<1>1. ASSUME NEW r \in Starts, Alive(Run(r)) PROVE FALSE
  <2>1. meta.status = "running" /\ meta.supervisor = r /\ r # Nobody
    BY <1>0, <1>1, RunAtWork, RequestsAssumption
  <2> QED
    BY <1>1, <2>1 DEF StartTakesOver, SessionIsActive, SupervisorExists
<1>2. ASSUME NEW r \in Starts, child[r] = "alive", AnsweredFor(r) PROVE FALSE
  <2>1. meta.status = "running" /\ meta.child = r /\ r # Nobody
    BY <1>0, <1>2, RequestsAssumption DEF OrderInv, ChildInv
  <2> QED
    BY <1>2, <2>1 DEF StartTakesOver, SessionIsActive, ChildExists
<1>3. \A q \in Starts : /\ Alive(Run(q))' <=> Alive(Run(q))
                        /\ reply'[Starter(q)] = reply[Starter(q)]
                        /\ child'[q] = "alive" => ~AnsweredFor(q)'
  <2>1. \A q \in Starts : /\ Alive(Run(q))' <=> Alive(Run(q))
                          /\ reply'[Starter(q)] = reply[Starter(q)]
    BY DEF OnlyStart, StartTakesOver, Alive
  <2>2. ASSUME NEW q \in Starts, child'[q] = "alive", AnsweredFor(q)' PROVE FALSE
    <3>1. child[q] = "alive" /\ q # s
      BY <2>2 DEF OnlyStart, StartTakesOver
    <3>2. AnsweredFor(q)
      BY <2>1, <2>2, <3>1, DirectActors DEF AnsweredFor, StartTakesOver
    <3> QED
      BY <1>2, <3>1, <3>2
  <2> QED
    BY <2>1, <2>2
<1>4. LockInv'
  BY <1>0, DirectActors
     DEF OrderInv, LockInv, OnlyStart, StartTakesOver, Preparing, Alive
<1>5. AliveInv'
  BY <1>1, <1>3 DEF AliveInv
<1>6. PrepareInv'
  <2>1. \A q \in Starts : pc'[Starter(q)] # "init save"
    BY <1>0 DEF OnlyStart, StartTakesOver, Preparing
  <2>2. \A r \in Starts : child'[r] = "alive" => reply'[Starter(r)] # "running"
    BY <1>3 DEF AnsweredFor
  <2> QED
    BY <1>0, <1>1, <1>3, <2>1, <2>2 DEF PrepareInv
<1>7. StartInv'
  BY DEF OrderInv, StartInv, OnlyStart, StartTakesOver, TimedOut
<1>8. OwnedInv'
  BY <1>0 DEF OwnedInv
<1>9. ChildInv'
  BY <1>3 DEF OrderInv, ChildInv, OnlyStart
<1> QED
  BY <1>4, <1>5, <1>6, <1>7, <1>8, <1>9 DEF OrderInv

\* The start lets the lock go: it fails before it has begun, finds its session
\* published or stopped, or has marked it stopped.
StartEnds(s) ==
  /\ startLock' = Nobody /\ pc'[Starter(s)] = "done"
  /\ meta'.child = meta.child /\ meta'.supervisor = meta.supervisor
  /\ \/ /\ pc[Starter(s)] \in Preparing
        /\ meta'.status = meta.status /\ reply'[Starter(s)] # "running"
     \/ /\ pc[Starter(s)] = "poll"
        /\ meta'.status = meta.status /\ meta.status # "starting"
     \/ /\ pc[Starter(s)] = "mark save"
        /\ meta'.status = "stopped" /\ reply'[Starter(s)] # "running"

LEMMA StartEndsKeeps ==
  ASSUME DirectScenario, OrderInv, NEW s \in Starts, OnlyStart(s), StartEnds(s)
  PROVE  OrderInv'
<1>0. /\ startLock = Starter(s)
      /\ \A q \in Starts \ {s} : pc[Starter(q)] \notin Preparing \cup Begun
  <2>1. startLock = Starter(s)
    BY DEF OrderInv, LockInv, StartEnds, Begun, TimedOut
  <2> QED
    BY <2>1, DirectActors DEF OrderInv, LockInv
<1>1. \A q \in Starts : /\ Alive(Run(q))' <=> Alive(Run(q))
                        /\ pc'[Starter(q)] \notin Preparing \cup Begun
  BY <1>0 DEF OnlyStart, StartEnds, Alive, Preparing, Begun, TimedOut
<1>2. meta'.status # "starting"
  BY DEF StartEnds, OrderInv, PrepareInv
<1>3. pc[Starter(s)] = "mark save" => \A r \in Starts : ~Alive(Run(r))
  BY RunAtWork DEF TimedOut
<1>4. LockInv'
  <2>1. \A q \in Starts : Alive(Starter(q))' => Alive(Starter(q)) /\ q # s
    BY DEF OnlyStart, StartEnds, Alive, Ended
  <2>2. \A q \in Starts : ~Alive(Starter(q))'
    BY <1>0, <2>1 DEF OrderInv, LockInv
  <2> QED
    BY <1>1, <2>2, DirectActors, NobodyIsNoActor DEF LockInv, StartEnds
<1>5. AliveInv'
  <2>1. pc[Starter(s)] # "mark save" => meta'.status = meta.status
    BY DEF StartEnds
  <2> QED
    BY <1>1, <1>2, <1>3, <2>1 DEF OrderInv, AliveInv, OnlyStart, StartEnds
<1>6. PrepareInv'
  BY <1>1 DEF PrepareInv, Preparing
<1>7. StartInv'
  <2>1. \A q \in Starts : pc'[Run(q)] \notin {"boot", "boot save"}
    <3>1. ASSUME NEW q \in Starts, pc[Run(q)] \in {"boot", "boot save"}
          PROVE  FALSE
      <4>1. Alive(Run(q)) /\ meta.status = "starting"
        BY <3>1 DEF OrderInv, StartInv, Alive, Ended
      <4>2. pc[Starter(q)] = "poll" /\ startLock = Starter(q)
        BY <4>1 DEF OrderInv, AliveInv, LockInv, Begun
      <4> QED
        BY <1>0, <1>3, <4>1, <4>2, DirectActors
           DEF StartEnds, Preparing
    <3> QED
      BY <3>1 DEF OnlyStart
  <2>2. \A q \in Starts : /\ pc'[Starter(q)] # "spawn run"
                          /\ pc'[Starter(q)] \notin TimedOut
    BY <1>1 DEF Begun
  <2>3. \A q \in Starts : pc'[Starter(q)] # "done" => reply'[Starter(q)] # "running"
    BY DEF OrderInv, StartInv, OnlyStart, StartEnds
  <2> QED
    BY <2>1, <2>2, <2>3 DEF StartInv
<1>8. OwnedInv'
  BY <1>2 DEF OwnedInv
<1>9. ChildInv'
  <2>1. ASSUME NEW q \in Starts, child'[q] = "alive", AnsweredFor(q)'
        PROVE  meta'.status = "running" /\ meta'.child = q
    <3>1. child[q] = "alive" /\ AnsweredFor(q)
      BY <1>0, <1>1, <2>1, DirectActors, NobodyIsNoActor
         DEF OnlyStart, StartEnds, AnsweredFor
    <3>2. \/ meta.status = "starting" /\ q = s
          \/ meta.status = "running" /\ meta.child = q
      BY <1>0, <3>1, DirectActors DEF OrderInv, ChildInv
    <3>3. CASE pc[Starter(s)] = "mark save"
      <4>1. meta.status = "starting" /\ q = s
        BY <3>2, <3>3 DEF OrderInv, StartInv, TimedOut
      <4>2. ~AnsweredFor(q)'
        BY <1>1, <1>3, <3>3, <4>1, DirectActors, NobodyIsNoActor
           DEF StartEnds, AnsweredFor, Preparing
      <4> QED
        BY <2>1, <4>2
    <3>4. CASE pc[Starter(s)] # "mark save"
      BY <1>2, <3>2, <3>4 DEF StartEnds
    <3> QED
      BY <3>3, <3>4
  <2> QED
    BY <2>1 DEF OrderInv, ChildInv, OnlyStart, StartEnds
<1> QED
  BY <1>4, <1>5, <1>6, <1>7, <1>8, <1>9 DEF OrderInv

\* The start replaces the record by that of its own session.
StartSaves(s) ==
  /\ pc[Starter(s)] = "init save" /\ pc'[Starter(s)] = "spawn run"
  /\ meta'.status = "starting"
  /\ meta'.child = Nobody /\ meta'.supervisor = Nobody
  /\ startLock' = startLock
  /\ reply'[Starter(s)] = reply[Starter(s)]

LEMMA StartSavesKeeps ==
  ASSUME DirectScenario, OrderInv, NEW s \in Starts, OnlyStart(s), StartSaves(s)
  PROVE  OrderInv'
<1>0. /\ startLock = Starter(s)
      /\ \A q \in Starts \ {s} : pc[Starter(q)] \notin Preparing \cup Begun
      /\ \A r \in Starts : /\ ~Alive(Run(r))
                           /\ child[r] = "alive" => reply[Starter(r)] # "running"
  <2>1. pc[Starter(s)] \in Preparing
    BY DEF StartSaves, Preparing
  <2>2. startLock = Starter(s)
    BY <2>1 DEF OrderInv, LockInv
  <2> QED
    BY <2>1, <2>2, DirectActors DEF OrderInv, LockInv, PrepareInv
<1>1. \A q \in Starts : /\ ~Alive(Run(q))'
                        /\ reply'[Starter(q)] = reply[Starter(q)]
                        /\ pc'[Starter(q)] \notin Preparing \cup TimedOut
  BY <1>0 DEF OnlyStart, StartSaves, Alive, Preparing, Begun, TimedOut
<1>2. LockInv'
  BY <1>0, DirectActors DEF OrderInv, LockInv, OnlyStart, StartSaves, Begun, Alive
<1>3. AliveInv' /\ PrepareInv'
  BY <1>1 DEF AliveInv, PrepareInv, Preparing
<1>4. StartInv'
  <2>1. \A q \in Starts : pc'[Starter(q)] # "done" => reply'[Starter(q)] # "running"
    BY DEF OrderInv, StartInv, OnlyStart, StartSaves
  <2> QED
    BY <1>1, <2>1 DEF StartInv, StartSaves
<1>5. OwnedInv'
  BY DEF OwnedInv, StartSaves, Begun
<1>6. ChildInv'
  <2>1. ASSUME NEW q \in Starts, child'[q] = "alive", AnsweredFor(q)'
        PROVE  startLock' = Starter(q)
    BY <1>0, <1>1, <2>1 DEF AnsweredFor, OnlyStart
  <2>2. \A q \in Starts : pc'[Run(q)] \notin {"promote", "promote save"} \cup Marking
    BY <1>1 DEF Alive, Ended, Marking
  <2> QED
    BY <2>1, <2>2 DEF ChildInv, StartSaves
<1> QED
  BY <1>2, <1>3, <1>4, <1>5, <1>6 DEF OrderInv

\* The start spawns its supervisor and comes to poll.
StartSpawns(s) ==
  /\ pc[Starter(s)] = "spawn run" /\ pc'[Starter(s)] = "poll" /\ pc'[Run(s)] = "boot"
  /\ \A q \in Starts \ {s} : /\ pc'[Starter(q)] = pc[Starter(q)]
                             /\ pc'[Run(q)] = pc[Run(q)]
  /\ UNCHANGED <<meta, startLock, child, reply, gen>>

LEMMA StartSpawnsKeeps ==
  ASSUME DirectScenario, OrderInv, NEW s \in Starts, StartSpawns(s)
  PROVE  OrderInv'
<1>0. /\ meta.status = "starting" /\ meta.child = Nobody
      /\ startLock = Starter(s)
      /\ \A q \in Starts \ {s} : pc[Starter(q)] \notin Preparing \cup Begun
  <2>1. meta.status = "starting" /\ meta.child = Nobody /\ startLock = Starter(s)
    BY DEF StartSpawns, OrderInv, StartInv, LockInv, Begun
  <2> QED
    BY <2>1, DirectActors DEF OrderInv, LockInv
<1>1. \A q \in Starts : ~Alive(Run(q))
  BY RunAtWork DEF StartSpawns
<1>2. \A q \in Starts : /\ Alive(Run(q))' => q = s
                        /\ pc'[Starter(q)] \notin Preparing \cup TimedOut
                        /\ pc'[Starter(q)] # "spawn run"
  BY <1>0, <1>1 DEF StartSpawns, Alive, Preparing, Begun, TimedOut
<1>3. LockInv'
  BY <1>0 DEF OrderInv, LockInv, StartSpawns, Begun, Alive
<1>4. AliveInv'
  BY <1>0, <1>2 DEF AliveInv, StartSpawns, Unborn
<1>5. PrepareInv'
  BY <1>2 DEF PrepareInv, Preparing
<1>6. StartInv'
  BY <1>0, <1>2 DEF OrderInv, StartInv, StartSpawns
<1>7. OwnedInv'
  BY DEF OwnedInv, StartSpawns, Begun
<1>8. ChildInv'
  <2>1. \A q \in Starts : AnsweredFor(q)' => AnsweredFor(q)
    BY <1>0, <1>2 DEF AnsweredFor, StartSpawns
  <2>2. \A q \in Starts : pc'[Run(q)] \notin {"promote", "promote save"} \cup Marking
    <3>1. \A q \in Starts : pc'[Run(q)] \in {"promote", "promote save"} \cup Marking
                              => Alive(Run(q))'
      BY DEF Alive, Ended, Marking
    <3> QED
      BY <1>2, <3>1 DEF StartSpawns, Marking
  <2> QED
    BY <2>1, <2>2 DEF OrderInv, ChildInv, StartSpawns
<1> QED
  BY <1>3, <1>4, <1>5, <1>6, <1>7, <1>8 DEF OrderInv

-----------------------------------------------------------------------------
(* The actions are such steps. *)

\* A run that is at work moves alone, and may save.
RunWrote(r) ==
  /\ Alive(Run(r)) /\ OnlyRun(r)
  /\ \/ meta' = meta
     \/ RunSaves(r) /\ child' = child

\* A run that moves leaves the requests alone.
LEMMA RunMovesAlone ==
  ASSUME DirectScenario, TypeOK, NEW r \in Starts, NEW l, Goto(Run(r), l),
         gen' = gen \/ \E g : gen' = [gen EXCEPT ![Run(r)] = g],
         startLock' = startLock, reply' = reply,
         child' = child \/ \E c : child' = [child EXCEPT ![r] = c]
  PROVE  OnlyRun(r) /\ pc'[Run(r)] = l
<1>1. /\ \A q \in Starts : gen'[Starter(q)] = gen[Starter(q)]
      /\ \A q \in Starts \ {r} : child'[q] = child[q]
  BY DirectActors DEF TypeOK
<1> QED
  BY <1>1, OneMoves DEF OnlyRun

LEMMA DirectRunMoves ==
  ASSUME DirectScenario, TypeOK, LifeInv, OrderInv, NEW r \in Starts,
         \/ BootLoad(r) \/ SpawnFails(r) \/ RunNotLive(r) \/ RecordChildLoad(r)
         \/ PromoteLoad(r) \/ SetupFails(r)
  PROVE  OrderInv' /\ RunWrote(r)
<1>1. /\ UNCHANGED <<meta, gen, startLock, reply, child>>
      /\ \E l : /\ Goto(Run(r), l)
                /\ \/ pc[Run(r)] = "boot" /\ l = "boot save"
                   \/ pc[Run(r)] = "spawn child" /\ l = "mark"
                   \/ pc[Run(r)] = "record" /\ l \in {"record save", "abort"}
                   \/ pc[Run(r)] = "promote" /\ l \in {"promote save", "abort"}
                   \/ pc[Run(r)] = "running" /\ l = "abort"
  BY DEF BootLoad, SpawnFails, RunNotLive, RecordChildLoad, PromoteLoad, SetupFails
<1>2. PICK l : /\ OnlyRun(r) /\ pc'[Run(r)] = l
               /\ \/ pc[Run(r)] = "boot" /\ l = "boot save"
                  \/ pc[Run(r)] = "spawn child" /\ l = "mark"
                  \/ pc[Run(r)] = "record" /\ l \in {"record save", "abort"}
                  \/ pc[Run(r)] = "promote" /\ l \in {"promote save", "abort"}
                  \/ pc[Run(r)] = "running" /\ l = "abort"
  BY <1>1, RunMovesAlone
<1>3. pc[Run(r)] = "spawn child" => child[r] = "none"
  BY DEF LifeInv, Childless
<1>4. Alive(Run(r)) /\ Alive(Run(r))'
  BY <1>2 DEF Alive, Ended
<1> QED
  BY <1>1, <1>2, <1>3, <1>4, RunGoesOn DEF Late, Marking, Unborn, RunWrote

LEMMA DirectRunAndChild ==
  ASSUME DirectScenario, TypeOK, OrderInv, NEW r \in Starts,
         SpawnChild(r) \/ AbortRun(r) \/ ReapChild(r)
  PROVE  OrderInv' /\ RunWrote(r)
<1>1. /\ UNCHANGED <<meta, gen, startLock, reply>>
      /\ \E l, c : /\ Goto(Run(r), l) /\ child' = [child EXCEPT ![r] = c]
                   /\ \/ /\ pc[Run(r)] = "spawn child"
                         /\ l = "record" /\ c = "alive"
                      \/ /\ pc[Run(r)] \in {"abort", "running"}
                         /\ l = "mark" /\ c = "gone"
  BY DEF SpawnChild, AbortRun, ReapChild
<1>2. PICK l : /\ OnlyRun(r) /\ pc'[Run(r)] = l
               /\ \/ /\ pc[Run(r)] = "spawn child"
                     /\ l = "record" /\ child'[r] = "alive"
                  \/ /\ pc[Run(r)] \in {"abort", "running"}
                     /\ l = "mark" /\ child'[r] = "gone"
  BY <1>1, RunMovesAlone DEF TypeOK
<1>3. Alive(Run(r)) /\ Alive(Run(r))'
  BY <1>2 DEF Alive, Ended
<1>4. OrderInv'
  BY <1>1, <1>2, <1>3, RunGoesOn DEF Late, Marking, Unborn
<1>5. meta' = meta
  BY <1>1
<1>6. RunWrote(r)
  BY <1>2, <1>3, <1>5 DEF RunWrote
<1> QED
  BY <1>4, <1>6

LEMMA DirectRunSaves ==
  ASSUME DirectScenario, TypeOK, OrderInv, CopyInv, NEW r \in Starts,
         \/ BootSave(r) \/ RecordChildSave(r) \/ PromoteSave(r)
         \/ MarkStoppedSave(Run(r))
  PROVE  OrderInv' /\ RunWrote(r)
<1>0. meta \in Metadata /\ Run(r) \in Actors
  BY DirectActors DEF TypeOK
<1>1. copy[Run(r)] = meta
  BY <1>0 DEF CopyInv, SavePoints, BootSave, RecordChildSave, PromoteSave, MarkStoppedSave
<1>2. CASE BootSave(r) \/ RecordChildSave(r) \/ PromoteSave(r)
  <2>1. /\ UNCHANGED <<startLock, child, reply>>
        /\ gen' = gen \/ \E g : gen' = [gen EXCEPT ![Run(r)] = g]
        /\ \E l : Goto(Run(r), l)
    BY <1>2 DEF BootSave, RecordChildSave, PromoteSave
  <2>2. OnlyRun(r)
    BY <2>1, RunMovesAlone
  <2>3. CASE BootSave(r)
    <3>1. /\ meta' = [meta EXCEPT !.supervisor = r]
          /\ pc[Run(r)] = "boot save" /\ Goto(Run(r), "spawn child")
      BY <1>1, <2>3 DEF BootSave, SaveAndUnlock
    <3>2. RunSaves(r)
      BY <1>0, <3>1, OneMoves DEF RunSaves, Metadata
    <3> QED
      BY <2>1, <2>2, <3>1, <3>2, RunSavesKeep DEF RunWrote, Alive, Ended
  <2>4. CASE RecordChildSave(r)
    <3>1. PICK pid \in {r, Nobody} :
            /\ meta' = [meta EXCEPT !.child = pid]
            /\ child[r] = "alive" => pid = r
            /\ pc[Run(r)] = "record save" /\ Goto(Run(r), "promote")
      BY <1>1, <2>4 DEF RecordChildSave, SaveAndUnlock
    <3>2. RunSaves(r)
      BY <1>0, <3>1, OneMoves DEF RunSaves, Metadata
    <3> QED
      BY <2>1, <2>2, <3>1, <3>2, RunSavesKeep DEF RunWrote, Alive, Ended
  <2>5. CASE PromoteSave(r)
    <3>1. /\ meta' = [meta EXCEPT !.status = "running"]
          /\ pc[Run(r)] = "promote save" /\ Goto(Run(r), "running")
      BY <1>1, <2>5 DEF PromoteSave, SaveAndUnlock
    <3>2. RunSaves(r)
      BY <1>0, <3>1, OneMoves DEF RunSaves, Metadata
    <3> QED
      BY <2>1, <2>2, <3>1, <3>2, RunSavesKeep DEF RunWrote, Alive, Ended
  <2> QED
    BY <1>2, <2>3, <2>4, <2>5
<1>3. CASE MarkStoppedSave(Run(r))
  <2>1. /\ meta' = [meta EXCEPT !.status = "stopped", !.exit = why[Run(r)]]
        /\ pc[Run(r)] = "mark save" /\ Goto(Run(r), "done")
        /\ \E w : Return(Run(r), w)
        /\ UNCHANGED <<gen, child>>
    BY <1>1, <1>3 DEF MarkStoppedSave, SaveAndUnlock, Return
  <2>2. OnlyRun(r)
    BY <2>1, OneMoves, OneReturns DEF OnlyRun
  <2>3. RunSaves(r)
    BY <1>0, <2>1, OneMoves DEF RunSaves, Metadata
  <2> QED
    BY <2>1, <2>2, <2>3, RunSavesKeep DEF RunWrote, Alive, Ended
<1> QED
  BY <1>2, <1>3

\* A run that marks and finds nothing to mark, or has the record to mark.
LEMMA DirectRunMarks ==
  ASSUME DirectScenario, TypeOK, OrderInv, NEW r \in Starts,
         MarkStoppedSkip(Run(r)) \/ MarkStoppedLoad(Run(r))
  PROVE  OrderInv' /\ RunWrote(r)
<1>1. /\ UNCHANGED <<meta, gen, child>> /\ pc[Run(r)] = "mark"
      /\ \/ Goto(Run(r), "mark save") /\ UNCHANGED <<startLock, reply>>
         \/ \E w : Return(Run(r), w)
  BY DEF MarkStoppedSkip, MarkStoppedLoad
<1>2. OnlyRun(r) /\ pc'[Run(r)] \in {"mark save", "done"}
  <2>1. CASE Goto(Run(r), "mark save") /\ UNCHANGED <<startLock, reply>>
    BY <1>1, <2>1, RunMovesAlone
  <2>2. CASE \E w : Return(Run(r), w)
    <3>1. Goto(Run(r), "done")
      BY <2>2 DEF Return
    <3> QED
      BY <1>1, <2>2, <3>1, OneMoves, OneReturns DEF OnlyRun
  <2> QED
    BY <1>1, <2>1, <2>2
<1>3. /\ Alive(Run(r)) /\ (Alive(Run(r))' \/ pc'[Run(r)] \in Ended)
      /\ child[r] # "alive" /\ child'[r] = child[r]
  BY <1>1, <1>2 DEF Alive, Ended, OrderInv, ChildInv, Marking
<1> QED
  BY <1>1, <1>2, <1>3, RunGoesOn DEF Late, Marking, Unborn, Ended, RunWrote

LEMMA DirectRun ==
  ASSUME DirectScenario, TypeOK, LifeInv, OrderInv, CopyInv, NEW r \in Starts,
         RunSteps(r)
  PROVE  OrderInv' /\ RunWrote(r)
BY DirectRunMoves, DirectRunAndChild, DirectRunSaves, DirectRunMarks
   DEF RunSteps, MarkStopped

\* A child that ends is one less to answer for.
LEMMA DirectChildExits ==
  ASSUME DirectScenario, TypeOK, OrderInv, NEW r \in Starts, ChildExits(r)
  PROVE  OrderInv'
<1>1. /\ UNCHANGED <<meta, startLock, pc, gen, reply>>
      /\ \A q \in Starts : child'[q] = "alive" => child[q] = "alive"
  BY DEF ChildExits, Remains, TypeOK
<1>2. \A q \in Starts : /\ Alive(Run(q))' <=> Alive(Run(q))
                        /\ Alive(Starter(q))' <=> Alive(Starter(q))
                        /\ AnsweredFor(q)' <=> AnsweredFor(q)
  BY <1>1 DEF Alive, AnsweredFor
<1>3. LockInv' /\ AliveInv' /\ PrepareInv' /\ StartInv' /\ OwnedInv'
  BY <1>1, <1>2 DEF OrderInv, LockInv, AliveInv, PrepareInv, StartInv, OwnedInv
<1>4. ChildInv'
  BY <1>1, <1>2 DEF OrderInv, ChildInv
<1> QED
  BY <1>3, <1>4 DEF OrderInv

\* A supervisor that dies, alone.
LEMMA DirectDies ==
  ASSUME DirectScenario, TypeOK, OrderInv, ClientDies \/ SupervisorDies \/ DaemonDies
  PROVE  OrderInv'
<1>1. PICK r \in Starts : Alive(Run(r)) /\ Crash({Run(r)})
  <2>1. DaemonActors = {}
    BY DEF DaemonActors, DirectScenario
  <2>2. ~DaemonDies /\ ~ClientDies
    BY <2>1 DEF DaemonDies, ClientDies, Crash, DirectScenario
  <2>3. PICK a \in Runs : Alive(a) /\ Crash({a})
    BY <2>2 DEF SupervisorDies
  <2> QED
    BY <2>3 DEF Runs, Run
<1>2. OnlyRun(r) /\ pc'[Run(r)] = "dead" /\ meta' = meta
  <2>1. /\ UNCHANGED <<meta, gen, reply>>
        /\ pc' = [a \in Actors |-> IF a \in {Run(r)} THEN "dead" ELSE pc[a]]
        /\ startLock' = IF startLock \in {Run(r)} THEN Nobody ELSE startLock
        /\ child' = [s \in Starts |-> IF Run(s) \in {Run(r)} /\ child[s] = "zombie"
                                      THEN "gone" ELSE child[s]]
    BY <1>1 DEF Crash, Die
  <2>2. startLock' = startLock
    BY <2>1, DirectActors, NobodyIsNoActor DEF TypeOK
  <2>3. /\ \A q \in Starts : pc'[Starter(q)] = pc[Starter(q)]
        /\ \A q \in Starts \ {r} : pc'[Run(q)] = pc[Run(q)]
        /\ pc'[Run(r)] = "dead"
    BY <2>1, DirectActors DEF TypeOK
  <2>4. \A q \in Starts \ {r} : child'[q] = child[q]
    BY <2>1, DirectActors DEF TypeOK
  <2> QED
    BY <2>1, <2>2, <2>3, <2>4 DEF OnlyRun
<1>3. child'[r] = "alive" => child[r] = "alive"
  BY <1>1 DEF Crash, Die
<1> QED
  BY <1>1, <1>2, <1>3, RunGoesOn DEF Late, Marking, Unborn, Ended

LEMMA StartMovesAlone ==
  ASSUME DirectScenario, TypeOK, NEW s \in Starts, NEW l, Goto(Starter(s), l),
         gen' = gen \/ \E g : gen' = [gen EXCEPT ![Starter(s)] = g],
         reply' = reply \/ \E w : reply' = [reply EXCEPT ![Starter(s)] = w],
         \A q \in Starts : child'[q] = "alive" => child[q] = "alive"
  PROVE  OnlyStart(s) /\ pc'[Starter(s)] = l
<1>1. \A q \in Starts \ {s} : /\ gen'[Starter(q)] = gen[Starter(q)]
                              /\ reply'[Starter(q)] = reply[Starter(q)]
  BY DirectActors DEF TypeOK
<1> QED
  BY <1>1, OneMoves DEF OnlyStart

LEMMA DirectRequests ==
  ASSUME DirectScenario, TypeOK, RunsFollowStarts, LifeInv, OrderInv, Requests
  PROVE  OrderInv'
<1>0. PICK s \in Starts : StartRefused(s) \/ StartBegins(s)
  BY DEF Requests, DirectScenario
<1>1. CASE StartRefused(s)
  <2>1. /\ UNCHANGED <<meta, gen, child>> /\ Return(Starter(s), "refused")
        /\ pc[Starter(s)] = "idle"
    BY <1>1 DEF StartRefused
  <2>2. startLock # Starter(s)
    BY <2>1 DEF OrderInv, LockInv, Preparing, Begun, TimedOut
  <2>3. startLock' = startLock /\ reply'[Starter(s)] = "refused"
    BY <2>1, <2>2, OneReturns
  <2>4. OnlyStart(s) /\ pc'[Starter(s)] = "done"
    BY <2>1, StartMovesAlone DEF Return
  <2>5. StartGoesOn(s)
    BY <2>1, <2>3, <2>4 DEF StartGoesOn
  <2> QED
    BY <2>1, <2>3, <2>4, <2>5, StartGoesOnKeeps
<1>2. CASE StartBegins(s)
  <2>1. /\ UNCHANGED <<meta, gen, child, reply>> /\ Goto(Starter(s), "init")
        /\ pc[Starter(s)] = "idle" /\ startLock = Nobody /\ startLock' = Starter(s)
        /\ ~SessionIsActive(meta)
    BY <1>2 DEF StartBegins
  <2>2. OnlyStart(s) /\ pc'[Starter(s)] = "init"
    BY <2>1, StartMovesAlone
  <2>3. child[s] = "none"
    BY <2>1 DEF RunsFollowStarts, BeforeSpawn, LifeInv, Childless, Unborn
  <2>4. StartTakesOver(s)
    BY <2>1, <2>2, <2>3 DEF StartTakesOver
  <2> QED
    BY <2>1, <2>2, <2>4, StartTakesOverKeeps
<1> QED
  BY <1>0, <1>1, <1>2

LEMMA DirectInitialize ==
  ASSUME DirectScenario, TypeOK, OrderInv, NEW s \in Starts,
         InitializeLoad(s) \/ InitializeFails(s) \/ InitializeSave(s)
  PROVE  OrderInv'
<1>0. Starter(s) \in Actors
  BY DirectActors
<1>1. CASE InitializeLoad(s)
  <2>1. /\ UNCHANGED <<meta, startLock, child, reply>>
        /\ gen' = [gen EXCEPT ![Starter(s)] = meta.generation + 1]
        /\ pc[Starter(s)] = "init" /\ Goto(Starter(s), "init save")
    BY <1>1 DEF InitializeLoad, NextGeneration
  <2>2. OnlyStart(s) /\ pc'[Starter(s)] = "init save"
    BY <2>1, StartMovesAlone
  <2>3. StartGoesOn(s)
    BY <1>0, <2>1, <2>2 DEF StartGoesOn, TypeOK
  <2> QED
    BY <2>1, <2>2, <2>3, StartGoesOnKeeps
<1>2. CASE InitializeFails(s)
  <2>1. /\ UNCHANGED <<meta, gen, child>> /\ Return(Starter(s), "failed")
        /\ pc[Starter(s)] \in Preparing
    BY <1>2 DEF InitializeFails, Preparing
  <2>2. startLock' = Nobody /\ reply'[Starter(s)] = "failed"
    BY <2>1, OneReturns DEF OrderInv, LockInv
  <2>3. OnlyStart(s) /\ pc'[Starter(s)] = "done"
    BY <2>1, StartMovesAlone DEF Return
  <2>4. StartEnds(s)
    BY <2>1, <2>2, <2>3 DEF StartEnds
  <2> QED
    BY <2>3, <2>4, StartEndsKeeps
<1>3. CASE InitializeSave(s)
  <2>1. /\ UNCHANGED <<startLock, gen, child, reply>>
        /\ pc[Starter(s)] = "init save" /\ Goto(Starter(s), "spawn run")
    BY <1>3 DEF InitializeSave
  <2>2. /\ meta'.status = "starting"
        /\ meta'.child = Nobody /\ meta'.supervisor = Nobody
    BY <1>3 DEF InitializeSave, NoSession
  <2>3. OnlyStart(s) /\ pc'[Starter(s)] = "spawn run"
    BY <2>1, StartMovesAlone
  <2>4. StartSaves(s)
    BY <2>1, <2>2, <2>3 DEF StartSaves
  <2> QED
    BY <2>3, <2>4, StartSavesKeeps
<1> QED
  BY <1>1, <1>2, <1>3

LEMMA DirectSpawns ==
  ASSUME DirectScenario, TypeOK, OrderInv, NEW s \in Starts,
         SpawnRun(s) \/ SpawnRunFails(s)
  PROVE  OrderInv'
<1>1. /\ pc[Starter(s)] = "spawn run"
      /\ pc' = [pc EXCEPT ![Starter(s)] = "poll", ![Run(s)] = "boot"]
      /\ UNCHANGED <<meta, startLock, child, reply, gen>>
  BY DEF SpawnRun, SpawnRunFails, DirectScenario
<1>2. /\ pc'[Starter(s)] = "poll" /\ pc'[Run(s)] = "boot"
      /\ \A q \in Starts \ {s} : /\ pc'[Starter(q)] = pc[Starter(q)]
                                 /\ pc'[Run(q)] = pc[Run(q)]
  BY <1>1, DirectActors DEF TypeOK
<1>3. StartSpawns(s)
  BY <1>1, <1>2 DEF StartSpawns
<1> QED
  BY <1>3, StartSpawnsKeeps

LEMMA DirectWaits ==
  ASSUME DirectScenario, TypeOK, OrderInv, NEW s \in Starts,
         WaitForRunning(s) \/ StartTimesOut(s)
  PROVE  OrderInv'
<1>0. Starter(s) \in Actors
  BY DirectActors
<1>1. CASE WaitForRunning(s)
  <2>1. /\ UNCHANGED <<meta, gen, child>> /\ \E w : Return(Starter(s), w)
        /\ pc[Starter(s)] = "poll" /\ meta.status # "starting"
    BY <1>1 DEF WaitForRunning
  <2>2. startLock' = Nobody
    BY <2>1, OneReturns DEF OrderInv, LockInv, Begun
  <2>3. OnlyStart(s) /\ pc'[Starter(s)] = "done"
    BY <2>1, StartMovesAlone DEF Return
  <2>4. StartEnds(s)
    BY <2>1, <2>2, <2>3 DEF StartEnds
  <2> QED
    BY <2>3, <2>4, StartEndsKeeps
<1>2. CASE StartTimesOut(s)
  <2>1. /\ UNCHANGED <<meta, startLock, child, reply>>
        /\ gen' = [gen EXCEPT ![Starter(s)] = meta.generation]
        /\ pc[Starter(s)] = "poll" /\ Goto(Starter(s), "signal supervisor")
        /\ meta.status = "starting" /\ pc[Run(s)] \in Ended
    BY <1>2 DEF StartTimesOut, DirectScenario
  <2>2. OnlyStart(s) /\ pc'[Starter(s)] = "signal supervisor"
    BY <2>1, StartMovesAlone
  <2>3. StartGoesOn(s)
    BY <1>0, <2>1, <2>2 DEF StartGoesOn, TypeOK
  <2> QED
    BY <2>1, <2>2, <2>3, StartGoesOnKeeps
<1> QED
  BY <1>1, <1>2

\* A start that times out finds its supervisor gone, and so never ends one.
LEMMA DirectTerminates ==
  ASSUME DirectScenario, TypeOK, OrderInv, NEW s \in Starts,
         TerminateChild(Starter(s)) \/ TerminateSupervisor(Starter(s))
  PROVE  OrderInv'
<1>0. Starter(s) \in Actors /\ Starter(s) \notin Stoppers
  BY DirectActors
<1>1. pc[Starter(s)] \in TimedOut
  BY DEF TerminateChild, ChildNotOurs, SignalChild, ChildGone, ChildStays,
         TerminateSupervisor, SupervisorNotOurs, SignalSupervisor,
         SupervisorGone, SupervisorStays, TimedOut
<1>2. \A q \in Starts : ~Alive(Run(q))
  BY <1>1, RunAtWork
<1>3. SignalSupervisor(Starter(s)) =>
        /\ Goto(Starter(s), "await supervisor")
        /\ UNCHANGED <<meta, gen, startLock, child, reply>>
  <2>1. SignalSupervisor(Starter(s)) => copy[Starter(s)].supervisor \in Starts
    BY <1>0, ZenonT(60) DEF SignalSupervisor, SupervisorExists, TypeOK, Metadata
  <2> QED
    BY <1>2, <2>1 DEF SignalSupervisor
<1>4. /\ \E l \in TimedOut : Goto(Starter(s), l)
      /\ UNCHANGED <<meta, gen, startLock>>
      /\ reply' = reply \/ reply' = [reply EXCEPT ![Starter(s)] = "failed"]
  <2>1. CASE TerminateChild(Starter(s))
    BY <1>0, <2>1
       DEF TerminateChild, ChildNotOurs, SignalChild, ChildGone, ChildStays,
           AfterChild, TimedOut
  <2>2. CASE SignalSupervisor(Starter(s))
    BY <1>3, <2>2 DEF TimedOut
  <2>3. CASE \/ SupervisorNotOurs(Starter(s)) \/ SupervisorGone(Starter(s))
             \/ SupervisorStays(Starter(s))
    BY <1>0, <2>3
       DEF SupervisorNotOurs, SupervisorGone, SupervisorStays, LeaveSupervisor,
           AfterSupervisor, TimedOut
  <2> QED
    BY <2>1, <2>2, <2>3 DEF TerminateSupervisor
<1>5. \A q \in Starts : child'[q] = "alive" => child[q] = "alive"
  <2>1. CASE SignalChild(Starter(s))
    <3>1. child' = child \/ \E r : child' = [child EXCEPT ![r] = Remains(r)]
      BY <2>1 DEF SignalChild
    <3>2. \A r : Remains(r) # "alive"
      BY DEF Remains
    <3> QED
      BY <3>1, <3>2 DEF TypeOK
  <2>2. CASE ~SignalChild(Starter(s))
    BY <1>3, <2>2
       DEF TerminateChild, ChildNotOurs, ChildGone, ChildStays, TerminateSupervisor,
           SupervisorNotOurs, SupervisorGone, SupervisorStays
  <2> QED
    BY <2>1, <2>2
<1>6. OnlyStart(s) /\ pc'[Starter(s)] \in TimedOut
  BY <1>4, <1>5, StartMovesAlone
<1>7. StartGoesOn(s)
  BY <1>0, <1>1, <1>4, <1>6 DEF StartGoesOn, TypeOK
<1> QED
  BY <1>4, <1>6, <1>7, StartGoesOnKeeps

LEMMA DirectStarterMarks ==
  ASSUME DirectScenario, TypeOK, OrderInv, CopyInv, NEW s \in Starts,
         MarkStopped(Starter(s))
  PROVE  OrderInv'
<1>0. /\ Starter(s) \in Actors /\ meta \in Metadata
      /\ Starter(s) \notin Stoppers /\ Starter(s) \notin Runs
  BY DirectActors DEF TypeOK
<1>1. CASE MarkStoppedSkip(Starter(s))
  BY <1>1 DEF MarkStoppedSkip, MayMark, OrderInv, StartInv, TimedOut
<1>2. CASE MarkStoppedLoad(Starter(s))
  <2>1. /\ UNCHANGED <<meta, gen, child, startLock, reply>>
        /\ pc[Starter(s)] = "mark" /\ Goto(Starter(s), "mark save")
    BY <1>2 DEF MarkStoppedLoad
  <2>2. OnlyStart(s) /\ pc'[Starter(s)] = "mark save"
    BY <2>1, StartMovesAlone
  <2>3. StartGoesOn(s)
    BY <2>1, <2>2 DEF StartGoesOn, TimedOut
  <2> QED
    BY <2>1, <2>2, <2>3, StartGoesOnKeeps
<1>3. CASE MarkStoppedSave(Starter(s))
  <2>1. /\ UNCHANGED <<gen, child>> /\ Return(Starter(s), "failed")
        /\ pc[Starter(s)] = "mark save"
        /\ meta' = [copy[Starter(s)] EXCEPT !.status = "stopped",
                                            !.exit = why[Starter(s)]]
    BY <1>0, <1>3 DEF MarkStoppedSave, SaveAndUnlock, Answer
  <2>2. copy[Starter(s)] = meta
    BY <1>0, <2>1 DEF CopyInv, SavePoints
  <2>3. /\ meta'.status = "stopped"
        /\ meta'.child = meta.child /\ meta'.supervisor = meta.supervisor
    BY <1>0, <2>1, <2>2 DEF Metadata
  <2>4. startLock' = Nobody /\ reply'[Starter(s)] = "failed"
    BY <2>1, OneReturns DEF OrderInv, LockInv, Begun, TimedOut
  <2>5. OnlyStart(s) /\ pc'[Starter(s)] = "done"
    BY <2>1, StartMovesAlone DEF Return
  <2>6. StartEnds(s)
    BY <2>1, <2>3, <2>4, <2>5 DEF StartEnds
  <2> QED
    BY <2>5, <2>6, StartEndsKeeps
<1> QED
  BY <1>1, <1>2, <1>3 DEF MarkStopped

LEMMA DirectStarter ==
  ASSUME DirectScenario, TypeOK, OrderInv, CopyInv, NEW s \in Starts, StarterSteps(s)
  PROVE  OrderInv'
BY DirectInitialize, DirectSpawns, DirectWaits, DirectTerminates, DirectStarterMarks
   DEF StarterSteps, Terminate

-----------------------------------------------------------------------------
(* The copies under the status lock *)

\* The one writer that takes no status lock writes while nobody has it.
LEMMA InitializeOvertakesNobody ==
  ASSUME DirectScenario, TypeOK, OrderInv, NEW s \in Starts, pc[Starter(s)] = "init save",
         NEW a \in Actors
  PROVE  pc[a] \notin SavePoints
<1>1. /\ \A r \in Starts : ~Alive(Run(r))
      /\ startLock = Starter(s)
  BY DEF OrderInv, LockInv, PrepareInv, Preparing
<1>2. PICK q \in Starts : a = Starter(q) \/ a = Run(q)
  BY DirectActors
<1>3. CASE a = Run(q)
  BY <1>1, <1>3 DEF Alive, Ended, SavePoints
<1>4. CASE a = Starter(q)
  <2>1. ASSUME pc[Starter(q)] \in SavePoints PROVE startLock = Starter(q)
    BY <2>1 DEF OrderInv, LockInv, Alive, Ended, SavePoints
  <2>2. pc[a] \in SavePoints => q = s
    BY <1>1, <1>4, <2>1, DirectActors
  <2> QED
    BY <1>4, <2>2 DEF SavePoints
<1> QED
  BY <1>2, <1>3, <1>4

LEMMA CopyStep ==
  ASSUME DirectScenario, TypeOK, RunsFollowStarts, LockedCopyIsCurrent',
         OrderInv, CopyInv, [Next]_vars
  PROVE  CopyInv'
<1>1. CASE QuietStep
  <2>1. CASE meta' = meta
    BY <1>1, <2>1 DEF QuietStep, CopyInv
  <2>2. CASE meta' # meta
    <3>1. PICK s \in Starts : pc[Starter(s)] = "init save"
      BY <1>1, <2>2 DEF QuietStep, InitializeSave
    <3>2. \A a \in Actors : pc'[a] \notin SavePoints
      BY <1>1, <3>1, InitializeOvertakesNobody DEF QuietStep
    <3> QED
      BY <3>2 DEF CopyInv
  <2> QED
    BY <2>1, <2>2
<1>2. ASSUME NEW a \in Actors, LoadStep(a) PROVE CopyInv'
  BY <1>2 DEF LoadStep, LockAndLoad, Goto, CopyInv, TypeOK
<1>3. ASSUME NEW a \in Actors, SaveStep(a) PROVE CopyInv'
  <2>1. \A b \in Actors : pc'[b] \notin SavePoints
    BY <1>3, NobodyIsNoActor DEF SaveStep, LockedCopyIsCurrent
  <2> QED
    BY <2>1 DEF CopyInv
<1>4. ASSUME NEW A, DieStep(A) PROVE CopyInv'
  BY <1>4 DEF DieStep, Die, CopyInv, TypeOK
<1> QED
  BY <1>1, <1>2, <1>3, <1>4, StepNext DEF Step

-----------------------------------------------------------------------------
(* The invariant *)

LEMMA DirectInit == Init => DirectInv
<1> SUFFICES ASSUME Init PROVE DirectInv
  OBVIOUS
<1>1. /\ \A s \in Starts : pc[Starter(s)] = "idle" /\ pc[Run(s)] = "idle"
      /\ \A s \in Starts : child[s] = "none" /\ reply[Starter(s)] = "none"
      /\ \A a \in Actors : pc[a] = "idle"
      /\ \A s \in Starts : startLock # Starter(s)
  BY ActorsOfRequests, NobodyIsNoActor DEF Init
<1>2. /\ meta.status = "none" /\ meta.child = Nobody
  BY DEF Init, NoSession
<1>3. LockInv /\ PrepareInv /\ StartInv /\ AliveInv
  BY <1>1 DEF LockInv, PrepareInv, StartInv, AliveInv, Alive, Ended, Preparing, Begun,
              TimedOut
<1>4. OwnedInv /\ ChildInv /\ CopyInv
  BY <1>1, <1>2 DEF OwnedInv, ChildInv, CopyInv, Marking, SavePoints
<1> QED
  BY <1>3, <1>4 DEF DirectInv, OrderInv

LEMMA DirectNext ==
  ASSUME DirectScenario, IInv, LifeInv, DirectInv, [Next]_vars
  PROVE  DirectInv'
<1>0. TypeOK /\ RunsFollowStarts /\ LockedCopyIsCurrent' /\ OrderInv /\ CopyInv
  BY LockedCopyIsCurrentInductive DEF IInv, DirectInv
<1>1. ASSUME UNCHANGED vars PROVE OrderInv'
  BY <1>0, <1>1
     DEF vars, OrderInv, LockInv, AliveInv, PrepareInv, StartInv, OwnedInv, ChildInv,
         AnsweredFor, Alive
<1>2. ASSUME Requests PROVE OrderInv'
  BY <1>0, <1>2, DirectRequests
<1>3. ASSUME NEW s \in Starts, StarterSteps(s) \/ RunSteps(s) PROVE OrderInv'
  BY <1>0, <1>3, DirectStarter, DirectRun
<1>4. ASSUME NEW k \in Stops PROVE FALSE
  BY DEF DirectScenario
<1>5. ASSUME Environment PROVE OrderInv'
  BY <1>0, <1>5, DirectChildExits, DirectDies DEF Environment
<1>6. OrderInv'
  BY <1>1, <1>2, <1>3, <1>4, <1>5 DEF Next, Settled
<1> QED
  BY <1>0, <1>6, CopyStep DEF DirectInv

\* The invariant of sessions that are only started.
LEMMA DirectInvariant == DirectScenario => (Spec => []DirectInv)
<1>1. ASSUME DirectScenario PROVE Spec => []DirectInv
  <2>1. IInv /\ LifeInv /\ DirectInv /\ [Next]_vars => DirectInv'
    BY <1>1, DirectNext
  <2> QED
    BY <2>1, DirectInit, IInvInvariant, ExitInvariant, PTL DEF Spec
<1> QED
  BY <1>1

-----------------------------------------------------------------------------
(* The child on record *)

\* While a session is starting, a child on record is that of the start at work.
\* When the session is stopped, the child on record has ended: a start that has
\* timed out has ended the child that it found there, and nobody records another.
Ending == {"await child", "mark", "mark save"}
LeftInv ==
  /\ \A r \in Starts :
       /\ meta.child = r => meta.status # "none"
       /\ meta.status = "starting" /\ meta.child = r => startLock = Starter(r)
       /\ meta.status = "stopped" /\ meta.child = r => child[r] # "alive"
  /\ \A s \in Starts :
       /\ pc[Starter(s)] \in TimedOut => copy[Starter(s)].child = meta.child
       /\ pc[Starter(s)] \in Ending =>
            \A r \in Starts : meta.child = r => child[r] # "alive"

\* The record stays, no child comes to life, and only a start that works on the
\* record as it is has timed out.
LEMMA LeftFrame ==
  ASSUME LeftInv, meta' = meta, meta.status = "starting" => startLock' = startLock,
         \A q \in Starts : child'[q] = "alive" => child[q] = "alive",
         \A q \in Starts : pc'[Starter(q)] \in TimedOut =>
           \/ copy'[Starter(q)].child = meta.child
           \/ pc[Starter(q)] \in TimedOut /\ copy'[Starter(q)] = copy[Starter(q)],
         \A q \in Starts : pc'[Starter(q)] \in Ending =>
           \/ pc[Starter(q)] \in Ending
           \/ \A r \in Starts : meta.child = r => child'[r] # "alive"
  PROVE  LeftInv'
<1>1. ASSUME NEW r \in Starts
      PROVE  /\ meta'.child = r => meta'.status # "none"
             /\ meta'.status = "starting" /\ meta'.child = r => startLock' = Starter(r)
             /\ meta'.status = "stopped" /\ meta'.child = r => child'[r] # "alive"
  BY DEF LeftInv
<1>2. ASSUME NEW s \in Starts
      PROVE  /\ pc'[Starter(s)] \in TimedOut => copy'[Starter(s)].child = meta'.child
             /\ pc'[Starter(s)] \in Ending =>
                  \A r \in Starts : meta'.child = r => child'[r] # "alive"
  BY DEF LeftInv
<1> QED
  BY <1>1, <1>2 DEF LeftInv

LEMMA LeftRun ==
  ASSUME DirectScenario, OrderInv, LeftInv, NEW r \in Starts, RunWrote(r)
  PROVE  LeftInv'
<1>0. /\ \A q \in Starts : pc[Starter(q)] \notin TimedOut
      /\ \/ meta.status = "starting" /\ startLock = Starter(r)
         \/ meta.status = "running" /\ meta.supervisor = r
  BY RunAtWork DEF RunWrote
<1>1. /\ \A q \in Starts : pc'[Starter(q)] \notin TimedOut
      /\ startLock' = startLock
  BY <1>0 DEF RunWrote, OnlyRun
<1>2. ASSUME NEW q \in Starts, meta'.status = "starting", meta'.child = q
      PROVE  startLock' = Starter(q)
  <2>1. CASE meta' = meta \/ (meta'.child = meta.child /\ meta.status = "starting")
    BY <1>1, <1>2, <2>1 DEF LeftInv
  <2>2. CASE pc[Run(r)] = "record save" /\ RunSaves(r)
    BY <1>0, <1>1, <1>2, <2>2, RequestsAssumption DEF RunSaves
  <2> QED
    BY <1>2, <2>1, <2>2 DEF RunWrote, RunSaves
<1>3. ASSUME NEW q \in Starts, meta'.status = "stopped", meta'.child = q
      PROVE  child'[q] # "alive"
  <2>1. /\ pc[Run(r)] = "mark save" /\ meta.child = q /\ child' = child
    BY <1>0, <1>3 DEF RunWrote, RunSaves
  <2>2. q = r
    BY <1>0, <2>1, DirectActors, RequestsAssumption DEF LeftInv, OrderInv, ChildInv
  <2> QED
    BY <2>1, <2>2 DEF OrderInv, ChildInv, Marking
<1>4. meta'.status # "none"
  BY <1>0 DEF RunWrote, RunSaves
<1> QED
  BY <1>1, <1>2, <1>3, <1>4 DEF LeftInv, Ending, TimedOut

\* A start at work on the record is the only one, and leaves it as it is or makes
\* it its own.
LEMMA LeftStarter ==
  ASSUME DirectScenario, TypeOK, OrderInv, CopyInv, LeftInv, NEW s \in Starts,
         StarterSteps(s)
  PROVE  LeftInv'
<1>0. /\ Starter(s) \in Actors /\ Starter(s) \notin Stoppers /\ Starter(s) \notin Runs
      /\ meta \in Metadata
  BY DirectActors DEF TypeOK
<1>1. pc[Starter(s)] \in Preparing \cup Begun
  BY DEF StarterSteps, InitializeLoad, InitializeFails, InitializeSave, SpawnRun,
         SpawnRunFails, WaitForRunning, StartTimesOut, Terminate, TerminateChild,
         ChildNotOurs, SignalChild, ChildGone, ChildStays, TerminateSupervisor,
         SupervisorNotOurs, SignalSupervisor, SupervisorGone, SupervisorStays,
         MarkStopped, MarkStoppedSkip, MarkStoppedLoad, MarkStoppedSave, Preparing,
         Begun, TimedOut
<1>2. \A q \in Starts \ {s} : pc[Starter(q)] \notin Begun
  BY <1>1, DirectActors DEF OrderInv, LockInv
<1>3. ASSUME NEW l, Goto(Starter(s), l)
      PROVE  /\ pc'[Starter(s)] = l
             /\ \A q \in Starts \ {s} : pc'[Starter(q)] \notin Begun
  BY <1>2, <1>3, OneMoves
<1>4. ASSUME NEW l, Goto(Starter(s), l), l \notin TimedOut, meta' = meta, child' = child,
             meta.status = "starting" => startLock' = startLock
      PROVE  LeftInv'
  BY <1>3, <1>4, LeftFrame DEF Begun, Ending, TimedOut
<1>5. CASE InitializeLoad(s) \/ InitializeFails(s) \/ WaitForRunning(s)
  <2>1. /\ \E l \in {"init save", "done"} : Goto(Starter(s), l)
        /\ meta' = meta /\ child' = child
        /\ meta.status = "starting" => startLock' = startLock
    BY <1>5 DEF InitializeLoad, InitializeFails, WaitForRunning, Return, OrderInv,
                PrepareInv, Preparing
  <2> QED
    BY <1>4, <2>1 DEF TimedOut
<1>6. CASE InitializeSave(s)
  <2>1. /\ Goto(Starter(s), "spawn run")
        /\ meta'.status = "starting" /\ meta'.child = Nobody
    BY <1>6 DEF InitializeSave, NoSession
  <2> QED
    BY <1>3, <2>1, RequestsAssumption DEF LeftInv, Begun, Ending, TimedOut
<1>7. CASE SpawnRun(s) \/ SpawnRunFails(s)
  <2>1. /\ pc' = [pc EXCEPT ![Starter(s)] = "poll", ![Run(s)] = "boot"]
        /\ UNCHANGED <<meta, startLock, child>>
    BY <1>7 DEF SpawnRun, SpawnRunFails, DirectScenario
  <2>2. \A q \in Starts : pc'[Starter(q)] \notin TimedOut
    BY <1>2, <2>1, DirectActors DEF TypeOK, Begun, TimedOut
  <2> QED
    BY <2>1, <2>2, LeftFrame DEF Ending, TimedOut
<1>8. CASE StartTimesOut(s) \/ MarkStoppedLoad(Starter(s))
  <2>1. /\ copy' = [copy EXCEPT ![Starter(s)] = meta]
        /\ UNCHANGED <<meta, startLock, child>>
        /\ \/ Goto(Starter(s), "signal supervisor")
           \/ pc[Starter(s)] = "mark" /\ Goto(Starter(s), "mark save")
    BY <1>8 DEF StartTimesOut, MarkStoppedLoad, LockAndLoad
  <2>2. copy'[Starter(s)] = meta
    BY <1>0, <2>1 DEF TypeOK
  <2>3. /\ \A q \in Starts \ {s} : pc'[Starter(q)] \notin TimedOut
        /\ pc'[Starter(s)] \in Ending => pc[Starter(s)] \in Ending
    <3>1. PICK l \in {"signal supervisor", "mark save"} :
            /\ Goto(Starter(s), l)
            /\ l = "mark save" => pc[Starter(s)] = "mark"
      BY <2>1
    <3> QED
      BY <1>3, <3>1 DEF Begun, Ending
  <2> QED
    BY <2>1, <2>2, <2>3, LeftFrame DEF Ending, TimedOut
<1>9. CASE TerminateSupervisor(Starter(s))
  <2>1. pc[Starter(s)] \in TimedOut
    BY <1>9 DEF TerminateSupervisor, SupervisorNotOurs, SignalSupervisor, SupervisorGone,
                SupervisorStays, TimedOut
  <2>2. \A q \in Starts : ~Alive(Run(q))
    BY <2>1, RunAtWork
  <2>3. SignalSupervisor(Starter(s)) =>
          /\ Goto(Starter(s), "await supervisor")
          /\ UNCHANGED <<meta, startLock, child, copy>>
    <3>1. SignalSupervisor(Starter(s)) => copy[Starter(s)].supervisor \in Starts
      BY <1>0, ZenonT(60) DEF SignalSupervisor, SupervisorExists, TypeOK, Metadata
    <3> QED
      BY <2>2, <3>1 DEF SignalSupervisor
  <2>4. /\ \E l \in {"await supervisor", "signal child"} : Goto(Starter(s), l)
        /\ UNCHANGED <<meta, startLock, child, copy>>
    BY <1>0, <1>9, <2>3
    DEF TerminateSupervisor, SupervisorNotOurs, SupervisorGone, SupervisorStays,
        LeaveSupervisor, AfterSupervisor
  <2>5. /\ \A q \in Starts \ {s} : pc'[Starter(q)] \notin TimedOut
        /\ pc'[Starter(s)] \notin Ending
    BY <1>3, <2>4 DEF Begun, Ending
  <2> QED
    BY <2>1, <2>4, <2>5, LeftFrame DEF Ending, TimedOut
<1>10. CASE TerminateChild(Starter(s))
  <2>1. /\ \E l \in {"await child", "mark"} : Goto(Starter(s), l)
        /\ UNCHANGED <<meta, startLock, copy>>
        /\ pc[Starter(s)] = "signal child" \/ pc[Starter(s)] \in Ending
    BY <1>0, <1>10 DEF TerminateChild, ChildNotOurs, SignalChild, ChildGone, ChildStays,
                       AfterChild, Ending
  <2>2. pc[Starter(s)] \in TimedOut /\ copy[Starter(s)].child = meta.child
    BY <2>1 DEF TimedOut, Ending, LeftInv
  <2>3. /\ \A q \in Starts : child'[q] = "alive" => child[q] = "alive"
        /\ pc[Starter(s)] = "signal child" =>
             \A r \in Starts : meta.child = r => child'[r] # "alive"
    <3>1. CASE ChildNotOurs(Starter(s))
      BY <2>2, <3>1, RequestsAssumption DEF ChildNotOurs, ChildExists
    <3>2. CASE SignalChild(Starter(s))
      <4>1. meta.child \in Starts /\ child \in [Starts -> {"none", "alive", "zombie", "gone"}]
        BY <1>0, <2>2, <3>2 DEF SignalChild, ChildExists, TypeOK, Metadata
      <4>2. /\ child[meta.child] = "alive" =>
                 child' = [child EXCEPT ![meta.child] = Remains(meta.child)]
            /\ child[meta.child] # "alive" => child' = child
        BY <2>2, <3>2 DEF SignalChild
      <4>3. Remains(meta.child) # "alive"
        BY DEF Remains
      <4> QED
        BY <4>1, <4>2, <4>3
    <3>3. CASE ChildGone(Starter(s)) \/ ChildStays(Starter(s))
      BY <3>3 DEF ChildGone, ChildStays
    <3> QED
      BY <1>10, <3>1, <3>2, <3>3 DEF TerminateChild
  <2>4. \A q \in Starts \ {s} : pc'[Starter(q)] \notin TimedOut
    BY <1>3, <2>1 DEF Begun
  <2> QED
    BY <2>1, <2>2, <2>3, <2>4, LeftFrame DEF Ending, TimedOut
<1>11. CASE MarkStoppedSkip(Starter(s))
  BY <1>11 DEF MarkStoppedSkip, MayMark, OrderInv, StartInv, TimedOut
<1>12. CASE MarkStoppedSave(Starter(s))
  <2>1. /\ Goto(Starter(s), "done") /\ child' = child /\ pc[Starter(s)] \in Ending
        /\ meta' = [copy[Starter(s)] EXCEPT !.status = "stopped",
                                            !.exit = why[Starter(s)]]
    BY <1>0, <1>12 DEF MarkStoppedSave, SaveAndUnlock, Return, Ending
  <2>2. copy[Starter(s)] = meta
    BY <1>0, <1>12 DEF CopyInv, SavePoints, MarkStoppedSave
  <2>3. meta'.status = "stopped" /\ meta'.child = meta.child
    BY <1>0, <2>1, <2>2 DEF Metadata
  <2>4. \A r \in Starts : meta.child = r => child'[r] # "alive"
    BY <2>1 DEF LeftInv
  <2>5. \A q \in Starts : pc'[Starter(q)] \notin TimedOut
    <3>1. Goto(Starter(s), "done")
      BY <2>1
    <3>2. /\ pc'[Starter(s)] = "done"
          /\ \A q \in Starts \ {s} : pc'[Starter(q)] \notin Begun
      BY <1>3, <3>1
    <3> QED
      BY <3>2 DEF Begun, TimedOut
  <2>6. \A q \in Starts : pc'[Starter(q)] \notin Ending
    BY <2>5 DEF Ending, TimedOut
  <2>7. \A r \in Starts : meta'.child = r => child'[r] # "alive"
    BY <2>3, <2>4
  <2> QED
    BY <2>3, <2>5, <2>6, <2>7 DEF LeftInv
<1> QED
  BY <1>5, <1>6, <1>7, <1>8, <1>9, <1>10, <1>11, <1>12
  DEF StarterSteps, Terminate, MarkStopped

LEMMA LeftNext ==
  ASSUME DirectScenario, IInv, LifeInv, DirectInv, LeftInv, [Next]_vars
  PROVE  LeftInv'
<1>0. TypeOK /\ OrderInv /\ CopyInv
  BY DEF IInv, DirectInv
<1>1. ASSUME UNCHANGED vars PROVE LeftInv'
  BY <1>1, LeftFrame DEF vars
<1>2. ASSUME Requests PROVE LeftInv'
  <2>1. PICK s \in Starts : StartRefused(s) \/ StartBegins(s)
    BY <1>2 DEF Requests, DirectScenario
  <2>2. /\ UNCHANGED <<meta, child, copy>> /\ pc[Starter(s)] = "idle"
        /\ \E l \in {"init", "done"} : Goto(Starter(s), l)
    BY <2>1 DEF StartRefused, StartBegins, Return
  <2>3. \A q \in Starts : /\ pc'[Starter(q)] \in TimedOut => pc[Starter(q)] \in TimedOut
                          /\ pc'[Starter(q)] \in Ending => pc[Starter(q)] \in Ending
    BY <1>0, <2>2, OneMoves DEF TimedOut, Ending
  <2>4. meta.status = "starting" => startLock' = startLock
    <3>1. startLock # Starter(s)
      BY <1>0, <2>2 DEF OrderInv, LockInv, Preparing, Begun, TimedOut
    <3>2. meta.status = "starting" => startLock # Nobody
      BY <1>0, ActorsOfRequests, NobodyIsNoActor DEF OrderInv, OwnedInv, LockInv
    <3> QED
      BY <2>1, <3>1, <3>2 DEF StartRefused, StartBegins, Return
  <2> QED
    BY <2>2, <2>3, <2>4, LeftFrame
<1>3. ASSUME NEW s \in Starts, StarterSteps(s) \/ RunSteps(s) PROVE LeftInv'
  BY <1>0, <1>3, LeftStarter, LeftRun, DirectRun
<1>4. ASSUME Environment PROVE LeftInv'
  <2>1. CASE \E r \in Starts : ChildExits(r)
    <3>1. /\ UNCHANGED <<meta, startLock, pc, copy>>
          /\ \A q \in Starts : child'[q] = "alive" => child[q] = "alive"
      BY <1>0, <2>1 DEF ChildExits, Remains, TypeOK
    <3> QED
      BY <3>1, LeftFrame
  <2>2. CASE ClientDies \/ SupervisorDies \/ DaemonDies
    <3>1. PICK r \in Starts : Crash({Run(r)})
      <4>1. DaemonActors = {}
        BY DEF DaemonActors, DirectScenario
      <4>2. ~DaemonDies /\ ~ClientDies
        BY <4>1 DEF DaemonDies, ClientDies, Crash, DirectScenario
      <4>3. PICK a \in Runs : Crash({a})
        BY <2>2, <4>2 DEF SupervisorDies
      <4> QED
        BY <4>3 DEF Runs, Run
    <3>2. /\ meta' = meta
          /\ pc' = [a \in Actors |-> IF a \in {Run(r)} THEN "dead" ELSE pc[a]]
          /\ copy' = [a \in Actors |-> IF a \in {Run(r)} THEN NoSession ELSE copy[a]]
          /\ startLock' = IF startLock \in {Run(r)} THEN Nobody ELSE startLock
          /\ child' = [q \in Starts |-> IF Run(q) \in {Run(r)} /\ child[q] = "zombie"
                                        THEN "gone" ELSE child[q]]
      BY <3>1 DEF Crash, Die
    <3>3. startLock' = startLock
      BY <1>0, <3>2, DirectActors, NobodyIsNoActor DEF TypeOK
    <3>4. \A q \in Starts : /\ pc'[Starter(q)] = pc[Starter(q)]
                            /\ copy'[Starter(q)] = copy[Starter(q)]
      BY <1>0, <3>2, DirectActors DEF TypeOK
    <3>5. \A q \in Starts : child'[q] = "alive" => child[q] = "alive"
      BY <3>2
    <3> QED
      BY <3>2, <3>3, <3>4, <3>5, LeftFrame
  <2> QED
    BY <1>4, <2>1, <2>2 DEF Environment
<1> QED
  BY <1>1, <1>2, <1>3, <1>4 DEF Next, Settled, DirectScenario

LEMMA LeftInvariant == DirectScenario => (Spec => []LeftInv)
<1>1. ASSUME Init PROVE LeftInv
  <2>1. \A s \in Starts : pc[Starter(s)] = "idle"
    BY <1>1, ActorsOfRequests DEF Init
  <2>2. meta.status = "none" /\ meta.child = Nobody
    BY <1>1 DEF Init, NoSession
  <2> QED
    BY <2>1, <2>2, RequestsAssumption DEF LeftInv, TimedOut, Ending
<1>2. ASSUME DirectScenario PROVE Spec => []LeftInv
  <2>1. IInv /\ LifeInv /\ DirectInv /\ LeftInv /\ [Next]_vars => LeftInv'
    BY <1>2, LeftNext
  <2> QED
    BY <1>1, <1>2, <2>1, DirectInvariant, IInvInvariant, ExitInvariant, PTL DEF Spec
<1> QED
  BY <1>2

-----------------------------------------------------------------------------
(* The theorems *)

\* Where every start and its supervisor are processes of their own and none of
\* the starts dies, a session that is starting has its start at work on it under
\* the start lock, whatever set-ups fail and supervisors die.
THEOREM StartsOwnTheirSessions == DirectScenario => (Spec => []StartingIsOwned)
<1>1. DirectInv => StartingIsOwned
  <2>1. \A s \in Starts : Starter(s) # Nobody
    BY ActorsOfRequests, NobodyIsNoActor
  <2> QED
    BY <2>1 DEF DirectInv, OrderInv, OwnedInv, LockInv, StartingIsOwned
<1> QED
  BY <1>1, DirectInvariant, PTL

\* Of the children that a run still owns, that are on record or that a start has
\* reported running, no two live: a later start waits for the end of the child on
\* record.  (Not so for a child whose supervisor died before it was on record.)
THEOREM OneChildAtATime == DirectScenario => (Spec => []AtMostOneChild)
<1>1. ASSUME DirectScenario, IInv, DirectInv, LeftInv PROVE AtMostOneChild
  <2>1. ASSUME NEW r \in Starts, Kept(r)
        PROVE  \/ meta.status = "starting" /\ startLock = Starter(r)
               \/ meta.status = "running" /\ meta.child = r
    <3>1. CASE AnsweredFor(r)
      BY <1>1, <2>1, <3>1 DEF DirectInv, OrderInv, ChildInv, Kept
    <3>2. CASE meta.child = r
      <4>1. meta.status \in {"none", "starting", "running", "stopped"}
        BY <1>1 DEF IInv, TypeOK, Metadata
      <4> QED
        BY <1>1, <2>1, <3>2, <4>1 DEF LeftInv, Kept
    <3> QED
      BY <2>1, <3>1, <3>2 DEF Kept, AnsweredFor
  <2> QED
    BY <1>1, <2>1, DirectActors DEF AtMostOneChild
<1>2. ASSUME DirectScenario PROVE Spec => []AtMostOneChild
  <2>1. IInv /\ DirectInv /\ LeftInv => AtMostOneChild
    BY <1>1, <1>2
  <2> QED
    BY <1>2, <2>1, IInvInvariant, DirectInvariant, LeftInvariant, PTL
<1> QED
  BY <1>2

\* Every step on the record is a step of its generations, or leaves them.
LEMMA RecordStep ==
  ASSUME DirectScenario, IInv, LifeInv, DirectInv, [Next]_vars
  PROVE  [Record!Next]_(Record!vars)
<1>0. TypeOK /\ RunsFollowStarts /\ LockedCopyIsCurrent /\ OrderInv /\ CopyInv
  BY DEF IInv, DirectInv
<1>1. ASSUME NEW s \in Starts, InitializeSave(s) PROVE Record!Begin
  <2>1. /\ meta'.status = "starting" /\ meta'.exit = "none"
        /\ meta'.generation = gen[Starter(s)]
    BY <1>1 DEF InitializeSave, NoSession
  <2>2. /\ meta.status # "starting"
        /\ gen[Starter(s)] = meta.generation + 1
    BY <1>0, <1>1 DEF InitializeSave, OrderInv, PrepareInv, Preparing
  <2> QED
    BY <2>1, <2>2 DEF Record!Begin
<1>2. ASSUME NEW a \in Actors, SaveStep(a)
      PROVE  [Record!Next]_(Record!vars)
  <2>1. /\ copy[a] = meta
        /\ meta'.generation = meta.generation
    BY <1>0, <1>2 DEF SaveStep, CopyInv
  <2>2. PICK r \in Starts : a = Starter(r) \/ a = Run(r)
    BY DirectActors
  <2>3. CASE meta'.status = meta.status /\ meta'.exit = meta.exit
    BY <2>1, <2>3 DEF Record!vars
  <2>4. CASE pc[a] = "promote save" /\ meta'.status = "running" /\ meta'.exit = meta.exit
    <3>1. a = Run(r)
      BY <1>0, <2>2, <2>4
         DEF OrderInv, LockInv, Alive, Ended, Preparing, Begun, TimedOut
    <3>2. Alive(Run(r))
      BY <2>4, <3>1 DEF Alive, Ended
    <3>3. meta.status = "starting"
      BY <1>0, <2>4, <3>1, <3>2, RunAtWork DEF Late
    <3> QED
      BY <2>1, <2>4, <3>3 DEF Record!Publish, Record!Next
  <2>5. CASE pc[a] = "mark save" /\ meta'.status = "stopped" /\ meta'.exit \in Exits
    <3>1. meta.status \in {"starting", "running"}
      <4>1. CASE a = Run(r)
        <5>1. Alive(Run(r))
          BY <2>5, <4>1 DEF Alive, Ended
        <5> QED
          BY <1>0, <5>1, RunAtWork
      <4>2. CASE a = Starter(r)
        BY <1>0, <2>5, <4>2 DEF OrderInv, StartInv, TimedOut
      <4> QED
        BY <2>2, <4>1, <4>2
    <3> QED
      BY <2>1, <2>5, <3>1 DEF Record!Finish, Record!Next
  <2> QED
    BY <1>2, <2>1, <2>3, <2>4, <2>5 DEF SaveStep
<1>3. CASE meta' = meta
  BY <1>3 DEF Record!vars
<1> QED
  BY <1>0, <1>1, <1>2, <1>3, StepNext
     DEF Step, QuietStep, LoadStep, DieStep, Record!Next

\* There the record goes through its generations as the comments of session.rs
\* promise: each start opens the next one, over no session that is starting;
\* it is published and stopped once, and keeps its exit info.
THEOREM RecordRefined == DirectScenario => (Spec => RecordImplemented)
<1>1. Init => Record!Init
  <2> SUFFICES ASSUME Init PROVE Record!Init
    OBVIOUS
  <2>1. meta.status = "none" /\ meta.generation = 0 /\ meta.exit = "none"
    BY DEF Init, NoSession
  <2> QED
    BY <2>1 DEF Record!Init
<1>2. ASSUME DirectScenario PROVE Spec => RecordImplemented
  <2>1. IInv /\ LifeInv /\ DirectInv /\ [Next]_vars => [Record!Next]_(Record!vars)
    BY <1>2, RecordStep
  <2> QED
    BY <1>1, <1>2, <2>1, DirectInvariant, IInvInvariant, ExitInvariant, PTL
       DEF Spec, RecordImplemented, Record!Spec
<1> QED
  BY <1>2
=============================================================================
