----------------------- MODULE SessionLifecycleProofs -----------------------
(***************************************************************************)
(* Proofs about SessionLifecycle, for any number of start and stop         *)
(* requests, served by the daemon or not, under any of the faults: what is *)
(* on record, and how sessions end.                                        *)
(***************************************************************************)
EXTENDS SessionLifecycle, TLAPS

USE DEF Starter, Run, Stopper

-----------------------------------------------------------------------------
(* The record and the actors *)

\* The actors named by the requests are actors.
LEMMA ActorsOfRequests ==
  /\ \A s \in Starts : Starter(s) \in Starters /\ Run(s) \in Runs
  /\ \A k \in Stops : Stopper(k) \in Stoppers
  /\ Starters \subseteq Actors /\ Runs \subseteq Actors /\ Stoppers \subseteq Actors
BY DEF Starters, Runs, Stoppers, Actors

\* The absent record, and the record of a start, are records.
LEMMA NewMetadata ==
  /\ NoSession \in Metadata
  /\ \A g \in Nat :
       [NoSession EXCEPT !.status = "starting", !.generation = g] \in Metadata
BY DEF Metadata, NoSession, Exits, Codes

\* An update of one of the record's fields is a record again.
LEMMA MetadataUpdate ==
  ASSUME NEW m \in Metadata
  PROVE  /\ \A s \in {"starting", "running", "stopped"} :
              [m EXCEPT !.status = s] \in Metadata
         /\ \A s \in {"starting", "running", "stopped"}, e \in Exits :
              [m EXCEPT !.status = s, !.exit = e] \in Metadata
         /\ \A r \in Starts \cup {Nobody} :
              /\ [m EXCEPT !.supervisor = r] \in Metadata
              /\ [m EXCEPT !.child = r] \in Metadata
BY DEF Metadata, Exits, Codes

-----------------------------------------------------------------------------
(* Type correctness *)

LEMMA TypeInit == Init => TypeOK
<1>1. SUFFICES ASSUME Init PROVE TypeOK
  OBVIOUS
<1>2. pc \in [Actors -> Labels]
  BY <1>1 DEF Init, Labels
<1>3. why \in [Actors -> Exits]
  BY <1>1 DEF Init, Exits
<1>4. copy \in [Actors -> Metadata] /\ meta \in Metadata
  BY <1>1, NewMetadata DEF Init
<1>5. gen \in [Actors -> Nat]
  BY <1>1 DEF Init
<1>6. /\ child \in [Starts -> {"none", "alive", "zombie", "gone"}]
      /\ code \in [Starts -> Codes \cup {"none"}]
  BY <1>1 DEF Init
<1>7. reply \in [Actors -> {"none", "refused", "running", "completed",
                            "failed", "stopped"}]
  BY <1>1 DEF Init
<1>8. QED
  BY <1>1, <1>2, <1>3, <1>4, <1>5, <1>6, <1>7 DEF Init, TypeOK

\* What every actor does alike keeps the types.
LEMMA TypeMarkStopped ==
  ASSUME TypeOK, NEW a \in Actors, MarkStopped(a)
  PROVE  TypeOK'
<1>1. Answer(a) \in {"none", "stopped", "failed"}
  BY DEF Answer
<1>2. CASE MarkStoppedSkip(a)
  BY <1>1, <1>2, NewMetadata
     DEF TypeOK, MarkStoppedSkip, Return, Goto, Forget, Labels
<1>3. CASE MarkStoppedLoad(a)
  BY <1>3 DEF TypeOK, MarkStoppedLoad, LockAndLoad, Goto, Labels
<1>4. CASE MarkStoppedSave(a)
  <2>1. [copy[a] EXCEPT !.status = "stopped", !.exit = why[a]] \in Metadata
    BY MetadataUpdate DEF TypeOK
  <2>2. QED
    BY <1>1, <1>4, <2>1, NewMetadata
       DEF TypeOK, MarkStoppedSave, SaveAndUnlock, Return, Goto, Forget, Labels
<1>5. QED
  BY <1>2, <1>3, <1>4 DEF MarkStopped

\* Signals and crashes end actors and children, and change nothing else.
LEMMA TypeDie ==
  ASSUME TypeOK, NEW A, Die(A)
  PROVE  /\ copy' \in [Actors -> Metadata]
         /\ startLock' \in Starters \cup {Nobody}
         /\ statusLock' \in Actors \cup {Nobody}
         /\ child' \in [Starts -> {"none", "alive", "zombie", "gone"}]
BY NewMetadata DEF TypeOK, Die

LEMMA TypeTerminate ==
  ASSUME TypeOK, NEW a \in Starters \cup Stoppers,
         TerminateChild(a) \/ TerminateSupervisor(a)
  PROVE  TypeOK'
<1>0. /\ a \in Actors
      /\ AfterChild(a) \in Labels /\ AfterSupervisor(a) \in Labels
  BY ActorsOfRequests DEF AfterChild, AfterSupervisor, Labels
<1>1. CASE ChildNotOurs(a)
  BY <1>0, <1>1 DEF TypeOK, ChildNotOurs, Goto
<1>2. CASE SignalChild(a)
  <2>1. copy[a].child \in Starts
    BY <1>0, <1>2, ZenonT(60) DEF SignalChild, ChildExists, TypeOK, Metadata
  <2>2. /\ child' \in [Starts -> {"none", "alive", "zombie", "gone"}]
        /\ code' \in [Starts -> Codes \cup {"none"}]
    BY <1>2, <2>1 DEF SignalChild, TypeOK, Remains
  <2>3. pc' \in [Actors -> Labels]
    BY <1>2 DEF SignalChild, TypeOK, Goto, Labels
  <2>4. QED
    BY <1>2, <2>2, <2>3 DEF SignalChild, TypeOK
<1>3. CASE ChildGone(a)
  BY <1>0, <1>3 DEF TypeOK, ChildGone, Goto
<1>4. CASE ChildStays(a)
  BY <1>0, <1>4 DEF TypeOK, ChildStays, Goto
<1>5. ASSUME NEW failed \in BOOLEAN, LeaveSupervisor(a, failed),
             UNCHANGED <<meta, statusLock, gen, why, child, code>>
      PROVE  TypeOK'
  <2>1. CASE Return(a, "failed") /\ Forget(a)
    BY <1>0, <1>5, <2>1, NewMetadata DEF TypeOK, Return, Goto, Forget, Labels
  <2>2. CASE Goto(a, AfterSupervisor(a)) /\ UNCHANGED <<reply, startLock, copy>>
    BY <1>0, <1>5, <2>2 DEF TypeOK, Goto
  <2>3. QED
    BY <1>5, <2>1, <2>2 DEF LeaveSupervisor
<1>6. CASE SupervisorNotOurs(a)
  BY <1>5, <1>6 DEF SupervisorNotOurs
<1>7. CASE SignalSupervisor(a)
  <2>1. CASE ~Alive(Run(copy[a].supervisor))
    BY <1>0, <1>7, <2>1 DEF TypeOK, SignalSupervisor, Goto, Labels
  <2>2. CASE Alive(Run(copy[a].supervisor))
    <3>1. /\ Die({Run(copy[a].supervisor)})
          /\ pc' = [pc EXCEPT ![a] = "await supervisor",
                              ![Run(copy[a].supervisor)] = "dead"]
          /\ UNCHANGED <<meta, gen, why, code, reply>>
      BY <1>7, <2>2 DEF SignalSupervisor
    <3>2. pc' \in [Actors -> Labels]
      BY <3>1 DEF TypeOK, Labels
    <3>3. QED
      BY <3>1, <3>2, TypeDie DEF TypeOK
  <2>3. QED
    BY <2>1, <2>2
<1>8. CASE SupervisorGone(a)
  BY <1>5, <1>8 DEF SupervisorGone
<1>9. CASE SupervisorStays(a)
  BY <1>5, <1>9 DEF SupervisorStays
<1>10. QED
  BY <1>1, <1>2, <1>3, <1>4, <1>6, <1>7, <1>8, <1>9
     DEF TerminateChild, TerminateSupervisor

LEMMA TypeRequests ==
  ASSUME TypeOK, Requests
  PROVE  TypeOK'
<1>1. ASSUME NEW s \in Starts, StartRefused(s) PROVE TypeOK'
  BY <1>1, ActorsOfRequests DEF TypeOK, StartRefused, Return, Goto, Labels
<1>2. ASSUME NEW s \in Starts, StartBegins(s) PROVE TypeOK'
  BY <1>2, ActorsOfRequests DEF TypeOK, StartBegins, Goto, Labels
<1>3. ASSUME NEW k \in Stops, StopRefused(k) PROVE TypeOK'
  BY <1>3, ActorsOfRequests DEF TypeOK, StopRefused, Return, Goto, Labels
<1>4. ASSUME NEW k \in Stops, StopBegins(k) PROVE TypeOK'
  BY <1>4, ActorsOfRequests DEF TypeOK, StopBegins, Goto, Labels, Metadata
<1>5. QED
  BY <1>1, <1>2, <1>3, <1>4 DEF Requests

LEMMA TypeStarter ==
  ASSUME TypeOK, NEW s \in Starts, StarterSteps(s)
  PROVE  TypeOK'
<1>0. /\ Starter(s) \in Starters /\ Starter(s) \in Actors
      /\ Run(s) \in Actors
  BY ActorsOfRequests
<1>1. CASE InitializeLoad(s)
  <2>1. NextGeneration(meta) \in Nat
    BY DEF TypeOK, NextGeneration, Metadata
  <2>2. pc' \in [Actors -> Labels]
    BY <1>1 DEF TypeOK, InitializeLoad, Goto, Labels
  <2>3. gen' \in [Actors -> Nat]
    BY <1>1, <2>1 DEF TypeOK, InitializeLoad
  <2>4. QED
    BY <1>1, <2>2, <2>3 DEF TypeOK, InitializeLoad
<1>2. CASE InitializeSave(s)
  <2>1. meta' \in Metadata
    BY <1>0, <1>2, NewMetadata DEF TypeOK, InitializeSave
  <2>2. QED
    BY <1>0, <1>2, <2>1 DEF TypeOK, InitializeSave, Goto, Labels
<1>3. CASE SpawnRun(s)
  <2>1. pc' \in [Actors -> Labels]
    <3>1. PICK l \in {"spawn child", "boot"} :
            pc' = [pc EXCEPT ![Starter(s)] = "poll", ![Run(s)] = l]
      BY <1>3 DEF SpawnRun
    <3>2. QED
      BY <3>1 DEF TypeOK, Labels
  <2>2. gen' \in [Actors -> Nat]
    <3>1. gen[Starter(s)] \in Nat
      BY <1>0 DEF TypeOK
    <3>2. gen' = gen \/ gen' = [gen EXCEPT ![Run(s)] = gen[Starter(s)]]
      BY <1>3 DEF SpawnRun
    <3>3. QED
      BY <3>1, <3>2 DEF TypeOK
  <2>3. QED
    BY <1>3, <2>1, <2>2 DEF TypeOK, SpawnRun
<1>4. CASE WaitForRunning(s) \/ InitializeFails(s) \/ SpawnRunFails(s)
  BY <1>0, <1>4
     DEF TypeOK, WaitForRunning, InitializeFails, SpawnRunFails, StartOutcome,
         Return, Goto, Labels
<1>5. CASE StartTimesOut(s)
  BY <1>0, <1>5 DEF TypeOK, StartTimesOut, Goto, Labels, Metadata
<1>6. CASE Terminate(Starter(s))
  BY <1>0, <1>6, TypeTerminate, TypeMarkStopped DEF Terminate
<1>7. QED
  BY <1>1, <1>2, <1>3, <1>4, <1>5, <1>6 DEF StarterSteps

LEMMA TypeStopper ==
  ASSUME TypeOK, NEW k \in Stops, StopperSteps(k)
  PROVE  TypeOK'
BY ActorsOfRequests, TypeTerminate, TypeMarkStopped DEF StopperSteps, Terminate

LEMMA TypeRun ==
  ASSUME TypeOK, NEW r \in Starts, RunSteps(r)
  PROVE  TypeOK'
<1>0. Run(r) \in Actors /\ copy[Run(r)] \in Metadata
  BY ActorsOfRequests DEF TypeOK
<1>1. CASE BootLoad(r)
  BY <1>0, <1>1 DEF TypeOK, BootLoad, LockAndLoad, Goto, Labels
<1>2. CASE BootSave(r)
  <2>1. meta' \in Metadata
    BY <1>0, <1>2, MetadataUpdate DEF BootSave, SaveAndUnlock
  <2>2. gen' \in [Actors -> Nat]
    BY <1>0, <1>2 DEF TypeOK, BootSave, Metadata
  <2>3. QED
    BY <1>2, <2>1, <2>2, NewMetadata
       DEF TypeOK, BootSave, SaveAndUnlock, Forget, Goto, Labels
<1>3. CASE SpawnFails(r)
  BY <1>3 DEF TypeOK, SpawnFails, Goto, Labels
<1>4. CASE SpawnChild(r)
  BY <1>4 DEF TypeOK, SpawnChild, Goto, Labels
<1>5. CASE RunNotLive(r)
  BY <1>5 DEF TypeOK, RunNotLive, Goto, Labels
<1>6. CASE RecordChildLoad(r)
  BY <1>0, <1>6 DEF TypeOK, RecordChildLoad, LockAndLoad, Goto, Labels
<1>7. CASE RecordChildSave(r)
  <2>1. PICK pid \in Starts \cup {Nobody} :
          SaveAndUnlock(Run(r), [copy[Run(r)] EXCEPT !.child = pid])
    BY <1>7 DEF RecordChildSave
  <2>2. meta' \in Metadata
    BY <1>0, <2>1, MetadataUpdate DEF SaveAndUnlock
  <2>3. QED
    BY <1>7, <2>1, <2>2, NewMetadata
       DEF TypeOK, RecordChildSave, SaveAndUnlock, Forget, Goto, Labels
<1>8. CASE PromoteLoad(r)
  BY <1>0, <1>8 DEF TypeOK, PromoteLoad, LockAndLoad, Goto, Labels
<1>9. CASE PromoteSave(r)
  <2>1. meta' \in Metadata
    BY <1>0, <1>9, MetadataUpdate DEF PromoteSave, SaveAndUnlock
  <2>2. QED
    BY <1>9, <2>1, NewMetadata
       DEF TypeOK, PromoteSave, SaveAndUnlock, Forget, Goto, Labels
<1>10. CASE SetupFails(r)
  BY <1>10 DEF TypeOK, SetupFails, Goto, Labels
<1>11. CASE AbortRun(r)
  BY <1>11 DEF TypeOK, AbortRun, Goto, Labels, Codes
<1>12. CASE ReapChild(r)
  <2>1. code[r] \in Exits
    BY <1>12 DEF TypeOK, Exits
  <2>2. QED
    BY <1>12, <2>1 DEF TypeOK, ReapChild, Goto, Labels
<1>13. CASE MarkStopped(Run(r))
  BY <1>0, <1>13, TypeMarkStopped
<1>14. QED
  BY <1>1, <1>2, <1>3, <1>4, <1>5, <1>6, <1>7, <1>8, <1>9, <1>10, <1>11,
     <1>12, <1>13 DEF RunSteps

LEMMA TypeEnvironment ==
  ASSUME TypeOK, Environment
  PROVE  TypeOK'
<1>1. ASSUME NEW s \in Starts, ChildExits(s) PROVE TypeOK'
  BY <1>1 DEF TypeOK, ChildExits, Remains
<1>2. ASSUME NEW A, Crash(A) PROVE TypeOK'
  <2>1. pc' \in [Actors -> Labels]
    BY <1>2 DEF TypeOK, Crash, Labels
  <2>2. QED
    BY <1>2, <2>1, TypeDie DEF TypeOK, Crash
<1>3. QED
  BY <1>1, <1>2 DEF Environment, ClientDies, SupervisorDies, DaemonDies

LEMMA TypeNext == TypeOK /\ [Next]_vars => TypeOK'
<1>1. CASE UNCHANGED vars
  BY <1>1 DEF TypeOK, vars
<1>2. QED
  BY <1>1, TypeRequests, TypeStarter, TypeStopper, TypeRun, TypeEnvironment
     DEF Next, Settled

\* Every record on disk or in an actor's hands, every lock holder and every
\* label is of its kind, whatever the interleaving.
THEOREM TypeCorrect == Spec => []TypeOK
BY TypeInit, TypeNext, PTL DEF Spec

-----------------------------------------------------------------------------
(* A run is idle until its start has come to spawn it. *)

BeforeSpawn == {"idle", "init", "init save", "spawn run"}

RunsFollowStarts ==
  \A s \in Starts : pc[Starter(s)] \in BeforeSpawn => pc[Run(s)] = "idle"

\* Only SpawnRun wakes a run, and no start comes back to before it.
Forward ==
  /\ \A s \in Starts : pc[Run(s)] = "idle" => pc'[Run(s)] = "idle"
  /\ \A s \in Starts :
       pc'[Starter(s)] \in BeforeSpawn => pc[Starter(s)] \in BeforeSpawn

LEMMA ActorsDistinct ==
  /\ Starters \cap Runs = {} /\ Starters \cap Stoppers = {}
  /\ Runs \cap Stoppers = {}
  /\ \A s, q \in Starts : Starter(s) # Run(q)
BY DEF Starters, Runs, Stoppers

LEMMA ForwardMarkStopped ==
  ASSUME TypeOK, NEW a \in Actors, MarkStopped(a)
  PROVE  Forward
<1>1. PICK l \in {"done", "mark save"} : Goto(a, l)
  BY DEF MarkStopped, MarkStoppedSkip, MarkStoppedLoad, MarkStoppedSave, Return
<1>2. pc[a] # "idle"
  BY DEF MarkStopped, MarkStoppedSkip, MarkStoppedLoad, MarkStoppedSave
<1>3. QED
  BY <1>1, <1>2, ActorsOfRequests DEF Forward, TypeOK, Goto, BeforeSpawn

LEMMA ForwardTerminate ==
  ASSUME TypeOK, NEW a \in Starters \cup Stoppers,
         TerminateChild(a) \/ TerminateSupervisor(a)
  PROVE  Forward
<1>0. a \in Actors /\ a \notin Runs
  BY ActorsOfRequests, ActorsDistinct
<1>1. CASE SignalSupervisor(a) /\ Alive(Run(copy[a].supervisor))
  <2>1. pc' = [pc EXCEPT ![a] = "await supervisor",
                         ![Run(copy[a].supervisor)] = "dead"]
    BY <1>1 DEF SignalSupervisor
  <2>2. QED
    BY <1>0, <1>1, <2>1, ActorsOfRequests
       DEF Forward, TypeOK, Alive, BeforeSpawn
<1>2. CASE ~(SignalSupervisor(a) /\ Alive(Run(copy[a].supervisor)))
  <2>1. PICK l \in {"await child", "await supervisor", "signal child",
                    "signal supervisor", "mark", "done"} : Goto(a, l)
    BY <1>2
       DEF TerminateChild, ChildNotOurs, SignalChild, ChildGone, ChildStays,
           AfterChild, TerminateSupervisor, SupervisorNotOurs,
           SignalSupervisor, SupervisorGone, SupervisorStays,
           LeaveSupervisor, AfterSupervisor, Return
  <2>2. QED
    BY <1>0, <2>1, ActorsOfRequests DEF Forward, TypeOK, Goto, BeforeSpawn
<1>3. QED
  BY <1>1, <1>2

LEMMA ForwardRun ==
  ASSUME TypeOK, NEW r \in Starts, RunSteps(r)
  PROVE  Forward
<1>0. Run(r) \in Actors
  BY ActorsOfRequests
<1>1. CASE MarkStopped(Run(r))
  BY <1>0, <1>1, ForwardMarkStopped
<1>2. CASE ~MarkStopped(Run(r))
  <2>1. pc[Run(r)] # "idle" /\ \E l \in Labels : Goto(Run(r), l)
    BY <1>2
       DEF RunSteps, BootLoad, BootSave, SpawnFails, SpawnChild, RunNotLive,
           RecordChildLoad, RecordChildSave, PromoteLoad, PromoteSave,
           SetupFails, AbortRun, ReapChild, Labels
  <2>2. QED
    BY <1>0, <2>1, ActorsOfRequests, ActorsDistinct DEF Forward, TypeOK, Goto
<1>3. QED
  BY <1>1, <1>2

LEMMA ForwardCrash ==
  ASSUME TypeOK, NEW A, \A a \in A : Alive(a), Crash(A)
  PROVE  Forward
BY ActorsOfRequests DEF Forward, Crash, Alive, TypeOK, BeforeSpawn

LEMMA RunsFollowStartsInductive ==
  TypeOK /\ RunsFollowStarts /\ [Next]_vars => RunsFollowStarts'
<1> SUFFICES ASSUME TypeOK, RunsFollowStarts, [Next]_vars
             PROVE  RunsFollowStarts'
  OBVIOUS
<1>1. CASE Forward
  BY <1>1 DEF Forward, RunsFollowStarts
<1>2. ASSUME NEW s \in Starts, StarterSteps(s)
      PROVE  RunsFollowStarts'
  <2>0. Starter(s) \in Actors /\ Run(s) \in Actors /\ Starter(s) \in Starters
    BY ActorsOfRequests
  <2>1. CASE InitializeLoad(s) \/ InitializeSave(s)
    BY <2>0, <2>1, ActorsOfRequests, ActorsDistinct
       DEF RunsFollowStarts, TypeOK, InitializeLoad, InitializeSave, Goto,
           BeforeSpawn
  <2>2. CASE SpawnRun(s)
    <3>1. PICK l \in {"spawn child", "boot"} :
            pc' = [pc EXCEPT ![Starter(s)] = "poll", ![Run(s)] = l]
      BY <2>2 DEF SpawnRun
    <3>2. /\ \A q \in Starts : pc'[Starter(q)] = IF q = s THEN "poll" ELSE pc[Starter(q)]
          /\ \A q \in Starts \ {s} : pc'[Run(q)] = pc[Run(q)]
      BY <2>0, <3>1, ActorsOfRequests, ActorsDistinct DEF TypeOK
    <3>3. QED
      BY <3>2 DEF RunsFollowStarts, BeforeSpawn
  <2>3. CASE \/ WaitForRunning(s) \/ StartTimesOut(s)
             \/ InitializeFails(s) \/ SpawnRunFails(s)
    <3>1. PICK l \in {"done", "signal supervisor"} : pc' = [pc EXCEPT ![Starter(s)] = l]
      BY <2>3 DEF WaitForRunning, StartTimesOut, InitializeFails, SpawnRunFails,
                  Return, Goto
    <3>2. \A q \in Starts : pc'[Run(q)] = pc[Run(q)]
      BY <2>0, <3>1, ActorsOfRequests, ActorsDistinct DEF TypeOK
    <3>3. \A q \in Starts :
            pc'[Starter(q)] \in BeforeSpawn => pc[Starter(q)] \in BeforeSpawn
      BY <3>1, ActorsOfRequests DEF TypeOK, BeforeSpawn
    <3> QED
      BY <3>2, <3>3 DEF RunsFollowStarts
  <2>4. CASE Terminate(Starter(s))
    BY <1>1, <2>0, <2>4, ForwardTerminate, ForwardMarkStopped DEF Terminate
  <2>5. QED
    BY <1>2, <2>1, <2>2, <2>3, <2>4 DEF StarterSteps
<1>3. CASE Requests
  <2>1. ASSUME NEW s \in Starts, StartRefused(s) \/ StartBegins(s)
        PROVE  RunsFollowStarts'
    BY <2>1, ActorsOfRequests, ActorsDistinct
       DEF RunsFollowStarts, TypeOK, StartRefused, StartBegins, Return, Goto,
           BeforeSpawn
  <2>2. ASSUME NEW k \in Stops, StopRefused(k) \/ StopBegins(k)
        PROVE  RunsFollowStarts'
    BY <2>2, ActorsOfRequests, ActorsDistinct
       DEF RunsFollowStarts, TypeOK, StopRefused, StopBegins, Return, Goto,
           BeforeSpawn
  <2>3. QED
    BY <1>3, <2>1, <2>2 DEF Requests
<1>4. ASSUME NEW k \in Stops, StopperSteps(k) PROVE RunsFollowStarts'
  BY <1>1, <1>4, ActorsOfRequests, ForwardTerminate, ForwardMarkStopped
     DEF StopperSteps, Terminate
<1>5. CASE Environment
  <2>1. ASSUME NEW s \in Starts, ChildExits(s) PROVE RunsFollowStarts'
    BY <2>1 DEF RunsFollowStarts, ChildExits
  <2>2. ASSUME NEW A, \A a \in A : Alive(a), Crash(A) PROVE RunsFollowStarts'
    BY <1>1, <2>2, ForwardCrash
  <2>3. QED
    BY <1>5, <2>1, <2>2
       DEF Environment, ClientDies, SupervisorDies, DaemonDies
<1>6. CASE UNCHANGED vars
  BY <1>6 DEF RunsFollowStarts, vars
<1>7. QED
  BY <1>1, <1>2, <1>3, <1>4, <1>5, <1>6, ForwardRun DEF Next, Settled

-----------------------------------------------------------------------------
(* What a step does to the status lock and to the record it protects: one  *)
(* of four things.                                                         *)

\* Nobody enters or leaves a save point; the record may be initialized.
QuietStep ==
  /\ UNCHANGED statusLock
  /\ \/ meta' = meta
     \/ /\ meta'.status = "starting"
        /\ \E s \in Starts : InitializeSave(s)
  /\ \A a \in Actors :
       IF pc[a] \in SavePoints
       THEN pc'[a] = pc[a] /\ copy'[a] = copy[a]
       ELSE pc'[a] \notin SavePoints

\* a enters a save point with the record it finds.
LoadStep(a) ==
  /\ LockAndLoad(a)
  /\ UNCHANGED meta
  /\ \E l \in SavePoints :
       /\ Goto(a, l)
       /\ l # "boot save" => meta.status # "stopped"

\* a saves what it makes of its copy and leaves.
SaveStep(a) ==
  /\ pc[a] \in SavePoints
  /\ meta'.generation = copy[a].generation
  /\ \/ /\ meta'.status = copy[a].status
        /\ meta'.exit = copy[a].exit
     \/ /\ pc[a] = "promote save"
        /\ meta'.status = "running" /\ meta'.exit = copy[a].exit
     \/ /\ pc[a] = "mark save"
        /\ meta'.status = "stopped" /\ meta'.exit \in Exits
  /\ statusLock' = Nobody
  /\ Forget(a)
  /\ \E l \in Labels \ SavePoints : Goto(a, l)

\* The actors of A die, and lose the lock if one of them holds it.
DieStep(A) ==
  /\ Die(A)
  /\ UNCHANGED meta
  /\ \A a \in Actors :
       IF pc[a] \in SavePoints /\ a \notin A
       THEN pc'[a] = pc[a] ELSE pc'[a] \notin SavePoints

Step ==
  \/ QuietStep
  \/ \E a \in Actors : LoadStep(a) \/ SaveStep(a)
  \/ \E A : DieStep(A)

LEMMA StepRequests ==
  ASSUME TypeOK, Requests
  PROVE  QuietStep
<1>1. ASSUME NEW s \in Starts, StartRefused(s) \/ StartBegins(s)
      PROVE  QuietStep
  BY <1>1, ActorsOfRequests
     DEF QuietStep, TypeOK, StartRefused, StartBegins, Return, Goto, SavePoints
<1>2. ASSUME NEW k \in Stops, StopRefused(k) \/ StopBegins(k)
      PROVE  QuietStep
  BY <1>2, ActorsOfRequests
     DEF QuietStep, TypeOK, StopRefused, StopBegins, Return, Goto, SavePoints
<1>3. QED
  BY <1>1, <1>2 DEF Requests

LEMMA StepMarkStopped ==
  ASSUME TypeOK, NEW a \in Actors, MarkStopped(a)
  PROVE  Step
<1>1. CASE MarkStoppedSkip(a)
  <2>1. QuietStep
    BY <1>1 DEF QuietStep, TypeOK, MarkStoppedSkip, Return, Goto, Forget, SavePoints
  <2>2. QED
    BY <2>1 DEF Step
<1>2. CASE MarkStoppedLoad(a)
  <2>1. LoadStep(a)
    BY <1>2 DEF LoadStep, MarkStoppedLoad, MayMark, SavePoints
  <2>2. QED
    BY <2>1 DEF Step
<1>3. CASE MarkStoppedSave(a)
  <2>1. copy[a] \in Metadata
    BY DEF TypeOK
  <2>2. /\ meta'.status = "stopped" /\ meta'.exit \in Exits
        /\ meta'.generation = copy[a].generation
    <3>1. why[a] \in Exits
      BY DEF TypeOK
    <3> QED
      BY <1>3, <2>1, <3>1 DEF MarkStoppedSave, SaveAndUnlock, Metadata
  <2>3. SaveStep(a)
    BY <1>3, <2>2
       DEF SaveStep, MarkStoppedSave, SaveAndUnlock, Return, SavePoints, Labels
  <2>4. QED
    BY <2>3 DEF Step
<1>4. QED
  BY <1>1, <1>2, <1>3 DEF MarkStopped

LEMMA StepTerminate ==
  ASSUME TypeOK, NEW a \in Starters \cup Stoppers,
         TerminateChild(a) \/ TerminateSupervisor(a)
  PROVE  Step
<1>0. a \in Actors /\ a \notin Runs
  BY ActorsOfRequests DEF Starters, Stoppers, Runs
<1>1. CASE TerminateChild(a)
  <2>1. QuietStep
    BY <1>0, <1>1
       DEF QuietStep, TypeOK, TerminateChild, ChildNotOurs, SignalChild,
           ChildGone, ChildStays, AfterChild, Goto, SavePoints
  <2>2. QED
    BY <2>1 DEF Step
<1>2. ASSUME NEW failed \in BOOLEAN, LeaveSupervisor(a, failed),
             pc[a] \notin SavePoints, UNCHANGED <<meta, statusLock>>
      PROVE  Step
  <2>1. QuietStep
    BY <1>0, <1>2
       DEF QuietStep, TypeOK, LeaveSupervisor, AfterSupervisor, Return, Goto,
           Forget, SavePoints
  <2>2. QED
    BY <2>1 DEF Step
<1>3. CASE SignalSupervisor(a)
  <2>1. CASE ~Alive(Run(copy[a].supervisor))
    <3>1. QuietStep
      BY <1>0, <1>3, <2>1
         DEF QuietStep, TypeOK, SignalSupervisor, Goto, SavePoints
    <3>2. QED
      BY <3>1 DEF Step
  <2>2. CASE Alive(Run(copy[a].supervisor))
    <3> DEFINE r == Run(copy[a].supervisor)
    <3>1. DieStep({r})
      BY <1>0, <1>3, <2>2 DEF DieStep, TypeOK, SignalSupervisor, SavePoints
    <3>2. QED
      BY <3>1 DEF Step
  <2>3. QED
    BY <2>1, <2>2
<1>4. CASE SupervisorNotOurs(a) \/ SupervisorGone(a) \/ SupervisorStays(a)
  BY <1>2, <1>4
     DEF SupervisorNotOurs, SupervisorGone, SupervisorStays, SavePoints
<1>5. QED
  BY <1>1, <1>3, <1>4 DEF TerminateSupervisor

LEMMA StepStarter ==
  ASSUME TypeOK, RunsFollowStarts, NEW s \in Starts, StarterSteps(s)
  PROVE  Step
<1>0. Starter(s) \in Starters /\ Starter(s) \in Actors /\ Run(s) \in Actors
  BY ActorsOfRequests
<1>1. CASE InitializeLoad(s) \/ InitializeSave(s)
  <2>1. \/ meta' = meta
        \/ meta'.status = "starting" /\ InitializeSave(s)
    BY <1>1 DEF InitializeLoad, InitializeSave, NoSession
  <2>2. QuietStep
    BY <1>0, <1>1, <2>1
       DEF QuietStep, TypeOK, InitializeLoad, InitializeSave, Goto, SavePoints
  <2>3. QED
    BY <2>2 DEF Step
<1>2. CASE SpawnRun(s)
  <2>1. PICK l \in {"spawn child", "boot"} :
          pc' = [pc EXCEPT ![Starter(s)] = "poll", ![Run(s)] = l]
    BY <1>2 DEF SpawnRun
  <2>2. pc[Run(s)] = "idle"
    BY <1>2 DEF SpawnRun, RunsFollowStarts, BeforeSpawn
  <2>3. QuietStep
    BY <1>0, <1>2, <2>1, <2>2 DEF QuietStep, TypeOK, SpawnRun, SavePoints
  <2>4. QED
    BY <2>3 DEF Step
<1>3. CASE \/ WaitForRunning(s) \/ StartTimesOut(s)
           \/ InitializeFails(s) \/ SpawnRunFails(s)
  <2>1. QuietStep
    BY <1>0, <1>3
       DEF QuietStep, TypeOK, WaitForRunning, StartTimesOut, InitializeFails,
           SpawnRunFails, Return, Goto, SavePoints
  <2>2. QED
    BY <2>1 DEF Step
<1>4. CASE Terminate(Starter(s))
  BY <1>0, <1>4, StepTerminate, StepMarkStopped DEF Terminate
<1>5. QED
  BY <1>1, <1>2, <1>3, <1>4 DEF StarterSteps

LEMMA StepRun ==
  ASSUME TypeOK, NEW r \in Starts, RunSteps(r)
  PROVE  Step
<1>0. Run(r) \in Actors /\ copy[Run(r)] \in Metadata
  BY ActorsOfRequests DEF TypeOK
<1>1. CASE BootLoad(r) \/ RecordChildLoad(r) \/ PromoteLoad(r)
  <2>1. LoadStep(Run(r))
    BY <1>1
       DEF LoadStep, BootLoad, RecordChildLoad, PromoteLoad, RunIsLive,
           SavePoints
  <2>2. QED
    BY <1>0, <2>1 DEF Step
<1>2. CASE BootSave(r) \/ RecordChildSave(r)
  <2>1. /\ meta'.status = copy[Run(r)].status
        /\ meta'.exit = copy[Run(r)].exit
        /\ meta'.generation = copy[Run(r)].generation
    BY <1>0, <1>2 DEF BootSave, RecordChildSave, SaveAndUnlock, Metadata
  <2>2. SaveStep(Run(r))
    BY <1>2, <2>1
       DEF SaveStep, BootSave, RecordChildSave, SaveAndUnlock, SavePoints, Labels
  <2>3. QED
    BY <1>0, <2>2 DEF Step
<1>3. CASE PromoteSave(r)
  <2>1. /\ meta'.status = "running"
        /\ meta'.exit = copy[Run(r)].exit
        /\ meta'.generation = copy[Run(r)].generation
    BY <1>0, <1>3 DEF PromoteSave, SaveAndUnlock, Metadata
  <2>2. SaveStep(Run(r))
    BY <1>3, <2>1 DEF SaveStep, PromoteSave, SaveAndUnlock, SavePoints, Labels
  <2>3. QED
    BY <1>0, <2>2 DEF Step
<1>4. CASE \/ SpawnFails(r) \/ SpawnChild(r) \/ RunNotLive(r)
           \/ SetupFails(r) \/ AbortRun(r) \/ ReapChild(r)
  <2>1. QuietStep
    BY <1>0, <1>4
       DEF QuietStep, TypeOK, SpawnFails, SpawnChild, RunNotLive, SetupFails,
           AbortRun, ReapChild, Goto, SavePoints
  <2>2. QED
    BY <2>1 DEF Step
<1>5. CASE MarkStopped(Run(r))
  BY <1>0, <1>5, StepMarkStopped
<1>6. QED
  BY <1>1, <1>2, <1>3, <1>4, <1>5 DEF RunSteps

LEMMA StepEnvironment ==
  ASSUME TypeOK, Environment
  PROVE  Step
<1>1. ASSUME NEW s \in Starts, ChildExits(s) PROVE Step
  <2>1. QuietStep
    BY <1>1 DEF QuietStep, ChildExits
  <2>2. QED
    BY <2>1 DEF Step
<1>2. ASSUME NEW A, Crash(A) PROVE Step
  <2>1. DieStep(A)
    BY <1>2 DEF DieStep, Crash, TypeOK, SavePoints
  <2>2. QED
    BY <2>1 DEF Step
<1>3. QED
  BY <1>1, <1>2 DEF Environment, ClientDies, SupervisorDies, DaemonDies

LEMMA StepNext == TypeOK /\ RunsFollowStarts /\ [Next]_vars => Step
<1> SUFFICES ASSUME TypeOK, RunsFollowStarts, [Next]_vars PROVE Step
  OBVIOUS
<1>1. CASE UNCHANGED vars
  BY <1>1 DEF Step, QuietStep, vars
<1>2. CASE Requests
  BY <1>2, StepRequests DEF Step
<1>3. ASSUME NEW k \in Stops, StopperSteps(k) PROVE Step
  BY <1>3, ActorsOfRequests, StepTerminate, StepMarkStopped
     DEF StopperSteps, Terminate
<1>4. QED
  BY <1>1, <1>2, <1>3, StepStarter, StepRun, StepEnvironment DEF Next, Settled

-----------------------------------------------------------------------------
(* The record under the status lock *)

IInv == TypeOK /\ RunsFollowStarts /\ LockedCopyIsCurrent

LEMMA IInvInit == Init => IInv
<1> SUFFICES ASSUME Init PROVE IInv
  OBVIOUS
<1>1. \A a \in Actors : pc[a] = "idle" /\ statusLock # a
  BY NobodyIsNoActor DEF Init
<1>2. RunsFollowStarts
  BY <1>1, ActorsOfRequests DEF RunsFollowStarts
<1>3. LockedCopyIsCurrent
  BY <1>1 DEF LockedCopyIsCurrent, SavePoints
<1>4. QED
  BY <1>2, <1>3, TypeInit DEF IInv

LEMMA LockedCopyIsCurrentInductive ==
  IInv /\ [Next]_vars => LockedCopyIsCurrent'
<1> SUFFICES ASSUME IInv, [Next]_vars PROVE LockedCopyIsCurrent'
  OBVIOUS
<1> USE NobodyIsNoActor DEF IInv
<1>1. CASE QuietStep
  BY <1>1 DEF QuietStep, LockedCopyIsCurrent
<1>2. ASSUME NEW a \in Actors, LoadStep(a) PROVE LockedCopyIsCurrent'
  BY <1>2 DEF LoadStep, LockAndLoad, Goto, LockedCopyIsCurrent, TypeOK
<1>3. ASSUME NEW a \in Actors, SaveStep(a) PROVE LockedCopyIsCurrent'
  BY <1>3 DEF SaveStep, Forget, Goto, LockedCopyIsCurrent, TypeOK
<1>4. ASSUME NEW A, DieStep(A) PROVE LockedCopyIsCurrent'
  BY <1>4 DEF DieStep, Die, LockedCopyIsCurrent, TypeOK
<1>5. QED
  BY <1>1, <1>2, <1>3, <1>4, StepNext DEF Step

LEMMA IInvInvariant == Spec => []IInv
<1>1. IInv /\ [Next]_vars => IInv'
  BY TypeNext, RunsFollowStartsInductive, LockedCopyIsCurrentInductive DEF IInv
<1>2. QED
  BY <1>1, IInvInit, PTL DEF Spec

\* Under status.lock, the record about to be saved is the one on disk unless a
\* start has initialized a new run meanwhile.
THEOREM LockedCopies == Spec => []LockedCopyIsCurrent
BY IInvInvariant, PTL DEF IInv

\* What a save can do to a stopped record: leave it stopped as it is.
LEMMA StoppedStays ==
  ASSUME IInv, [Next]_vars, meta.status = "stopped"
  PROVE  /\ meta'.status # "running"
         /\ meta'.status = "stopped" => meta'.exit = meta.exit
<1>1. CASE QuietStep
  BY <1>1 DEF QuietStep
<1>2. ASSUME NEW a \in Actors, SaveStep(a)
      PROVE  meta'.status = "stopped" /\ meta'.exit = meta.exit
  <2>1. copy[a] = meta /\ pc[a] = "boot save"
    BY <1>2 DEF SaveStep, IInv, LockedCopyIsCurrent
  <2>2. QED
    BY <1>2, <2>1 DEF SaveStep
<1>3. CASE UNCHANGED meta
  BY <1>3
<1>4. QED
  BY <1>1, <1>2, <1>3, StepNext DEF Step, LoadStep, DieStep, IInv

\* No interleaving, however late the promotion, turns a session that is on
\* record as stopped into a running one.
THEOREM NeverResurrected == Spec => NoResurrection
<1>1. IInv /\ [Next]_vars =>
        [meta.status = "stopped" => meta'.status # "running"]_vars
  BY StoppedStays
<1>2. QED
  BY <1>1, IInvInvariant, PTL DEF Spec, NoResurrection

\* Of all the actors that come to mark a session stopped, the first one's exit
\* info stays on record.
THEOREM FirstWriterKeepsExit == Spec => FirstWriterWins
<1>1. IInv /\ [Next]_vars =>
        [meta.status = "stopped" /\ meta'.status = "stopped" =>
           meta'.exit = meta.exit]_vars
  BY StoppedStays
<1>2. QED
  BY <1>1, IInvInvariant, PTL DEF Spec, FirstWriterWins

-----------------------------------------------------------------------------
(* The pids on record *)

Unborn == {"idle", "boot", "boot save"}

\* The processes of record m are of runs past their boot, in m's generation,
\* when the actors' generations are g and their labels p.
Match(m, g, p) ==
  \A r \in Starts : m.child = r \/ m.supervisor = r =>
    g[Run(r)] = m.generation /\ p[Run(r)] \notin Unborn

PidInv ==
  /\ Match(meta, gen, pc)
  /\ \A a \in Actors : Match(copy[a], gen, pc)
  /\ \A r \in Starts : pc[Run(r)] = "record save" =>
       copy[Run(r)].generation = gen[Run(r)]

\* A run past its boot stays so, in its generation.
Settling ==
  \A r \in Starts : pc[Run(r)] \notin Unborn =>
    gen'[Run(r)] = gen[Run(r)] /\ pc'[Run(r)] \notin Unborn

\* Record n names no process that m does not, in the same generation.
Inherits(n, m) ==
  /\ n.generation = m.generation
  /\ n.child \in {m.child, Nobody} /\ n.supervisor \in {m.supervisor, Nobody}

Blank(n) == n.child = Nobody /\ n.supervisor = Nobody

\* A step that brings no new process into any record keeps PidInv.
PidQuiet ==
  /\ Settling
  /\ \/ Blank(meta')
     \/ Inherits(meta', meta)
     \/ \E a \in Actors : Inherits(meta', copy[a])
  /\ \A a \in Actors : \/ Blank(copy'[a])
                       \/ copy'[a] = copy[a]
                       \/ copy'[a] = meta
  /\ \A r \in Starts : pc'[Run(r)] = "record save" =>
       copy'[Run(r)].generation = gen'[Run(r)]

LEMMA PidQuietKeeps ==
  ASSUME TypeOK, TypeOK', PidInv, PidQuiet
  PROVE  PidInv'
<1>1. ASSUME NEW m, NEW n, Match(m, gen, pc), Inherits(n, m)
      PROVE  Match(n, gen', pc')
  BY <1>1, RequestsAssumption DEF Match, Inherits, PidQuiet, Settling
<1>2. ASSUME NEW n, Blank(n)
      PROVE  Match(n, gen', pc')
  BY <1>2, RequestsAssumption DEF Match, Blank
<1>3. Match(meta', gen', pc')
  BY <1>1, <1>2 DEF PidQuiet, PidInv
<1>4. ASSUME NEW a \in Actors PROVE Match(copy'[a], gen', pc')
  <2>1. ASSUME NEW m, Match(m, gen, pc) PROVE Match(m, gen', pc')
    BY <2>1, <1>1 DEF Inherits
  <2>2. QED
    BY <1>2, <2>1 DEF PidQuiet, PidInv
<1>5. QED
  BY <1>3, <1>4 DEF PidInv, PidQuiet

LEMMA PidMarkStopped ==
  ASSUME TypeOK, PidInv, NEW a \in Actors, MarkStopped(a)
  PROVE  PidQuiet
<1>0. /\ Blank(NoSession) /\ gen' = gen /\ copy[a] \in Metadata
  BY DEF Blank, NoSession, MarkStopped, MarkStoppedSkip, MarkStoppedLoad,
         MarkStoppedSave, TypeOK
<1>1. PICK l \in {"done", "mark save"} : Goto(a, l)
  BY DEF MarkStopped, MarkStoppedSkip, MarkStoppedLoad, MarkStoppedSave, Return
<1>2. pc[a] \in {"mark", "mark save"}
  BY DEF MarkStopped, MarkStoppedSkip, MarkStoppedLoad, MarkStoppedSave
<1>3. Settling
  BY <1>0, <1>1, ActorsOfRequests DEF Settling, TypeOK, Goto, Unborn
<1>4. \/ meta' = meta
      \/ meta' = [copy[a] EXCEPT !.status = "stopped", !.exit = why[a]]
  BY DEF MarkStopped, MarkStoppedSkip, MarkStoppedLoad, MarkStoppedSave,
         SaveAndUnlock
<1>5. Inherits(meta', meta) \/ Inherits(meta', copy[a])
  BY <1>0, <1>4 DEF Inherits, Metadata
<1>6. copy' = [copy EXCEPT ![a] = NoSession] \/ copy' = [copy EXCEPT ![a] = meta]
  BY DEF MarkStopped, MarkStoppedSkip, MarkStoppedLoad, MarkStoppedSave,
         SaveAndUnlock, Forget, LockAndLoad
<1>7. \A b \in Actors : IF b = a THEN Blank(copy'[b]) \/ copy'[b] = meta
                        ELSE copy'[b] = copy[b]
  BY <1>0, <1>6 DEF TypeOK
<1>8. ASSUME NEW r \in Starts, pc'[Run(r)] = "record save"
      PROVE  copy'[Run(r)].generation = gen'[Run(r)]
  <2>1. Run(r) \in Actors /\ Run(r) # a /\ pc[Run(r)] = "record save"
    BY <1>1, <1>8, ActorsOfRequests DEF Goto, TypeOK
  <2>2. QED
    BY <1>0, <1>7, <2>1 DEF PidInv
<1>9. QED
  BY <1>3, <1>5, <1>7, <1>8 DEF PidQuiet

\* A step that neither saves nor loads for a run, nor lets one be born.
PidStill ==
  /\ meta' = meta \/ Blank(meta')
  /\ \A a \in Runs : IF pc'[a] = "record save"
                     THEN pc[a] = "record save" /\ copy'[a] = copy[a]
                     ELSE TRUE
  /\ \A a \in Actors : Blank(copy'[a]) \/ copy'[a] = copy[a] \/ copy'[a] = meta
  /\ \A a \in Runs : pc[a] \notin Unborn => pc'[a] \notin Unborn
  /\ \A a \in Runs : pc[a] \notin Unborn => gen'[a] = gen[a]

LEMMA PidStillQuiet ==
  ASSUME TypeOK, PidInv, PidStill
  PROVE  PidQuiet
<1>1. Settling
  BY ActorsOfRequests DEF PidStill, Settling
<1>2. Blank(meta') \/ Inherits(meta', meta)
  BY DEF PidStill, Inherits
<1>3. ASSUME NEW r \in Starts, pc'[Run(r)] = "record save"
      PROVE  copy'[Run(r)].generation = gen'[Run(r)]
  BY <1>3, ActorsOfRequests DEF PidStill, PidInv, Unborn
<1>4. QED
  BY <1>1, <1>2, <1>3 DEF PidQuiet, PidStill

LEMMA PidTerminate ==
  ASSUME TypeOK, PidInv, NEW a \in Starters \cup Stoppers,
         TerminateChild(a) \/ TerminateSupervisor(a)
  PROVE  PidQuiet
<1>0. /\ a \in Actors /\ a \notin Runs /\ Blank(NoSession)
      /\ \A r \in Runs : r \in Actors
  BY ActorsOfRequests, ActorsDistinct DEF Blank, NoSession
<1>1. meta' = meta /\ gen' = gen
  BY DEF TerminateChild, ChildNotOurs, SignalChild, ChildGone, ChildStays,
         TerminateSupervisor, SupervisorNotOurs, SignalSupervisor,
         SupervisorGone, SupervisorStays
<1>2. CASE SignalSupervisor(a) /\ Alive(Run(copy[a].supervisor))
  <2>1. /\ pc' = [pc EXCEPT ![a] = "await supervisor",
                            ![Run(copy[a].supervisor)] = "dead"]
        /\ copy' = [b \in Actors |-> IF b \in {Run(copy[a].supervisor)}
                                     THEN NoSession ELSE copy[b]]
    BY <1>2 DEF SignalSupervisor, Die
  <2>2. PidStill
    BY <1>0, <1>1, <2>1 DEF PidStill, TypeOK, Unborn
  <2>3. QED
    BY <2>2, PidStillQuiet
<1>3. CASE ~(SignalSupervisor(a) /\ Alive(Run(copy[a].supervisor)))
  <2>1. /\ copy' = copy \/ Forget(a)
        /\ \E l \in Labels : Goto(a, l)
    BY <1>3
       DEF TerminateChild, ChildNotOurs, SignalChild, ChildGone, ChildStays,
           AfterChild, TerminateSupervisor, SupervisorNotOurs,
           SignalSupervisor, SupervisorGone, SupervisorStays,
           LeaveSupervisor, AfterSupervisor, Return, Labels
  <2>2. PidStill
    BY <1>0, <1>1, <2>1 DEF PidStill, TypeOK, Goto, Forget
  <2>3. QED
    BY <2>2, PidStillQuiet
<1>4. QED
  BY <1>2, <1>3

LEMMA PidRequests ==
  ASSUME TypeOK, PidInv, Requests
  PROVE  PidQuiet
<1>1. ASSUME NEW s \in Starts, StartRefused(s) \/ StartBegins(s) PROVE PidStill
  BY <1>1, ActorsOfRequests, ActorsDistinct
     DEF PidStill, TypeOK, StartRefused, StartBegins, Return, Goto
<1>2. ASSUME NEW k \in Stops, StopRefused(k) \/ StopBegins(k) PROVE PidStill
  <2>1. /\ Stopper(k) \in Actors /\ Stopper(k) \notin Runs
        /\ \A r \in Runs : r \in Actors
    BY ActorsOfRequests, ActorsDistinct
  <2>2. CASE StopRefused(k)
    BY <2>1, <2>2 DEF PidStill, TypeOK, StopRefused, Return, Goto
  <2>3. CASE StopBegins(k)
    BY <2>1, <2>3 DEF PidStill, TypeOK, StopBegins, Goto
  <2>4. QED
    BY <1>2, <2>2, <2>3
<1>3. QED
  BY <1>1, <1>2, PidStillQuiet DEF Requests

LEMMA PidStarter ==
  ASSUME TypeOK, PidInv, RunsFollowStarts, NEW s \in Starts, StarterSteps(s)
  PROVE  PidQuiet
<1>0. /\ Starter(s) \in Starters /\ Starter(s) \in Actors
      /\ Starter(s) \notin Runs /\ Run(s) \in Actors
      /\ \A r \in Runs : r \in Actors
  BY ActorsOfRequests, ActorsDistinct
<1>1. CASE InitializeLoad(s) \/ InitializeFails(s) \/ InitializeSave(s)
  <2>1. meta' = meta \/ Blank(meta')
    BY <1>1 DEF InitializeLoad, InitializeFails, InitializeSave, Blank, NoSession
  <2>2. PidStill
    BY <1>0, <1>1, <2>1
       DEF PidStill, TypeOK, InitializeLoad, InitializeFails, InitializeSave,
           Return, Goto
  <2>3. QED
    BY <2>2, PidStillQuiet
<1>2. CASE SpawnRun(s)
  <2>1. PICK l \in {"spawn child", "boot"} :
          pc' = [pc EXCEPT ![Starter(s)] = "poll", ![Run(s)] = l]
    BY <1>2 DEF SpawnRun
  <2>2. pc[Run(s)] = "idle"
    BY <1>2 DEF SpawnRun, RunsFollowStarts, BeforeSpawn
  <2>3. gen' = gen \/ gen' = [gen EXCEPT ![Run(s)] = gen[Starter(s)]]
    BY <1>2 DEF SpawnRun
  <2>4. PidStill
    BY <1>0, <1>2, <2>1, <2>2, <2>3 DEF PidStill, TypeOK, SpawnRun, Unborn
  <2>5. QED
    BY <2>4, PidStillQuiet
<1>3. CASE WaitForRunning(s) \/ StartTimesOut(s) \/ SpawnRunFails(s)
  <2>1. PidStill
    BY <1>0, <1>3
       DEF PidStill, TypeOK, WaitForRunning, StartTimesOut, SpawnRunFails,
           Return, Goto
  <2>2. QED
    BY <2>1, PidStillQuiet
<1>4. CASE Terminate(Starter(s))
  BY <1>0, <1>4, PidTerminate, PidMarkStopped DEF Terminate
<1>5. QED
  BY <1>1, <1>2, <1>3, <1>4 DEF StarterSteps

LEMMA PidEnvironment ==
  ASSUME TypeOK, PidInv, Environment
  PROVE  PidQuiet
<1>1. ASSUME NEW s \in Starts, ChildExits(s) PROVE PidStill
  BY <1>1 DEF PidStill, ChildExits
<1>2. ASSUME NEW A, Crash(A) PROVE PidStill
  <2>1. Blank(NoSession)
    BY DEF Blank, NoSession
  <2>2. QED
    BY <1>2, <2>1, ActorsOfRequests DEF PidStill, Crash, Die, TypeOK, Unborn
<1>3. QED
  BY <1>1, <1>2, PidStillQuiet
     DEF Environment, ClientDies, SupervisorDies, DaemonDies

LEMMA PidRun ==
  ASSUME TypeOK, TypeOK', PidInv, NEW r \in Starts, RunSteps(r)
  PROVE  PidInv'
<1>0. /\ Run(r) \in Actors /\ Run(r) \in Runs /\ copy[Run(r)] \in Metadata
      /\ Blank(NoSession)
      /\ \A q \in Starts : Run(q) \in Actors /\ (Run(q) = Run(r) => q = r)
  BY ActorsOfRequests DEF TypeOK, Blank, NoSession
<1>1. CASE BootLoad(r) \/ PromoteLoad(r)
  <2>1. PICK l \in {"boot save", "promote save"} :
          /\ Goto(Run(r), l)
          /\ pc[Run(r)] \in Unborn => l = "boot save"
          /\ pc[Run(r)] \notin Unborn => l # "boot save"
    BY <1>1 DEF BootLoad, PromoteLoad, Unborn
  <2>2. /\ meta' = meta /\ gen' = gen
        /\ copy' = [copy EXCEPT ![Run(r)] = meta]
    BY <1>1 DEF BootLoad, PromoteLoad, LockAndLoad
  <2>3. PidStill
    BY <1>0, <2>1, <2>2, ActorsOfRequests DEF PidStill, TypeOK, Goto, Unborn
  <2>4. QED
    BY <2>3, PidStillQuiet, PidQuietKeeps
<1>2. CASE RecordChildLoad(r)
  <2>1. /\ meta' = meta /\ gen' = gen /\ meta.generation = gen[Run(r)]
        /\ copy' = [copy EXCEPT ![Run(r)] = meta]
        /\ pc' = [pc EXCEPT ![Run(r)] = "record save"]
    BY <1>2 DEF RecordChildLoad, LockAndLoad, RunIsLive, Goto
  <2>2. Settling
    BY <1>0, <2>1 DEF Settling, TypeOK, Unborn
  <2>3. ASSUME NEW q \in Starts, pc'[Run(q)] = "record save"
        PROVE  copy'[Run(q)].generation = gen'[Run(q)]
    BY <1>0, <2>1, <2>3 DEF PidInv, TypeOK
  <2>4. Inherits(meta', meta)
    BY <2>1 DEF Inherits
  <2>5. PidQuiet
    BY <1>0, <2>1, <2>2, <2>3, <2>4 DEF PidQuiet, TypeOK
  <2>6. QED
    BY <2>5, PidQuietKeeps
<1>3. CASE PromoteSave(r)
  <2>1. /\ meta' = [copy[Run(r)] EXCEPT !.status = "running"] /\ gen' = gen
        /\ copy' = [copy EXCEPT ![Run(r)] = NoSession]
        /\ pc' = [pc EXCEPT ![Run(r)] = "running"]
    BY <1>3 DEF PromoteSave, SaveAndUnlock, Forget, Goto
  <2>2. Inherits(meta', copy[Run(r)])
    BY <1>0, <2>1 DEF Inherits, Metadata
  <2>3. Settling
    BY <1>0, <2>1 DEF Settling, TypeOK, Unborn
  <2>4. ASSUME NEW q \in Starts, pc'[Run(q)] = "record save"
        PROVE  copy'[Run(q)].generation = gen'[Run(q)]
    BY <1>0, <2>1, <2>4 DEF PidInv, TypeOK
  <2>5. PidQuiet
    BY <1>0, <2>1, <2>2, <2>3, <2>4 DEF PidQuiet, TypeOK
  <2>6. QED
    BY <2>5, PidQuietKeeps
<1>4. CASE BootSave(r)
  <2>1. /\ meta' = [copy[Run(r)] EXCEPT !.supervisor = r]
        /\ gen' = [gen EXCEPT ![Run(r)] = copy[Run(r)].generation]
        /\ copy' = [copy EXCEPT ![Run(r)] = NoSession]
        /\ pc' = [pc EXCEPT ![Run(r)] = "spawn child"]
        /\ pc[Run(r)] = "boot save"
    BY <1>4 DEF BootSave, SaveAndUnlock, Forget, Goto
  <2>2. ASSUME NEW m, Match(m, gen, pc) PROVE Match(m, gen', pc')
    BY <1>0, <2>1, <2>2 DEF Match, TypeOK, Unborn
  <2>3. Match(copy[Run(r)], gen', pc')
    BY <1>0, <2>2 DEF PidInv
  <2>4. /\ gen'[Run(r)] = copy[Run(r)].generation
        /\ pc'[Run(r)] \notin Unborn
    BY <1>0, <2>1 DEF TypeOK, Unborn
  <2>5. /\ meta'.child = copy[Run(r)].child /\ meta'.supervisor = r
        /\ meta'.generation = copy[Run(r)].generation
    BY <1>0, <2>1 DEF Metadata
  <2>6. Match(meta', gen', pc')
    BY <2>3, <2>4, <2>5 DEF Match
  <2>7. ASSUME NEW a \in Actors PROVE Match(copy'[a], gen', pc')
    <3>1. Match(copy[a], gen', pc')
      BY <2>2 DEF PidInv
    <3>2. Match(NoSession, gen', pc')
      BY RequestsAssumption DEF Match, NoSession
    <3>3. copy'[a] = NoSession \/ copy'[a] = copy[a]
      BY <1>0, <2>1 DEF TypeOK
    <3>4. QED
      BY <3>1, <3>2, <3>3
  <2>8. ASSUME NEW q \in Starts, pc'[Run(q)] = "record save"
        PROVE  copy'[Run(q)].generation = gen'[Run(q)]
    BY <1>0, <2>1, <2>8 DEF PidInv, TypeOK
  <2>9. QED
    BY <2>6, <2>7, <2>8 DEF PidInv
<1>5. CASE RecordChildSave(r)
  <2>1. PICK pid \in {r, Nobody} :
          /\ meta' = [copy[Run(r)] EXCEPT !.child = pid]
          /\ gen' = gen
          /\ copy' = [copy EXCEPT ![Run(r)] = NoSession]
          /\ pc' = [pc EXCEPT ![Run(r)] = "promote"]
          /\ pc[Run(r)] = "record save"
    BY <1>5 DEF RecordChildSave, SaveAndUnlock, Forget, Goto
  <2>2. ASSUME NEW m, Match(m, gen, pc) PROVE Match(m, gen', pc')
    BY <1>0, <2>1, <2>2 DEF Match, TypeOK, Unborn
  <2>3. /\ Match(copy[Run(r)], gen', pc')
        /\ copy[Run(r)].generation = gen[Run(r)]
    BY <1>0, <2>1, <2>2 DEF PidInv
  <2>4. /\ meta'.child = pid /\ meta'.supervisor = copy[Run(r)].supervisor
        /\ meta'.generation = copy[Run(r)].generation
        /\ pc'[Run(r)] \notin Unborn
    BY <1>0, <2>1, ZenonT(60) DEF Metadata, TypeOK, Unborn
  <2>5. Match(meta', gen', pc')
    BY <2>1, <2>3, <2>4, RequestsAssumption DEF Match
  <2>6. ASSUME NEW a \in Actors PROVE Match(copy'[a], gen', pc')
    <3>1. Match(copy[a], gen', pc')
      BY <2>2 DEF PidInv
    <3>2. Match(NoSession, gen', pc')
      BY RequestsAssumption DEF Match, NoSession
    <3>3. copy'[a] = NoSession \/ copy'[a] = copy[a]
      BY <1>0, <2>1 DEF TypeOK
    <3>4. QED
      BY <3>1, <3>2, <3>3
  <2>7. ASSUME NEW q \in Starts, pc'[Run(q)] = "record save"
        PROVE  copy'[Run(q)].generation = gen'[Run(q)]
    BY <1>0, <2>1, <2>7 DEF PidInv, TypeOK
  <2>8. QED
    BY <2>5, <2>6, <2>7 DEF PidInv
<1>6. CASE \/ SpawnFails(r) \/ SpawnChild(r) \/ RunNotLive(r)
           \/ SetupFails(r) \/ AbortRun(r) \/ ReapChild(r)
  <2>1. /\ meta' = meta /\ gen' = gen /\ copy' = copy
        /\ \E l \in {"mark", "record", "abort"} : Goto(Run(r), l)
    BY <1>6 DEF SpawnFails, SpawnChild, RunNotLive, SetupFails, AbortRun, ReapChild
  <2>2. PidStill
    BY <1>0, <2>1, ActorsOfRequests DEF PidStill, TypeOK, Goto, Unborn
  <2>3. QED
    BY <2>2, PidStillQuiet, PidQuietKeeps
<1>7. CASE MarkStopped(Run(r))
  BY <1>0, <1>7, PidMarkStopped, PidQuietKeeps
<1>8. QED
  BY <1>1, <1>2, <1>3, <1>4, <1>5, <1>6, <1>7 DEF RunSteps

LEMMA PidInductive == IInv /\ PidInv /\ [Next]_vars => PidInv'
<1> SUFFICES ASSUME IInv, PidInv, [Next]_vars PROVE PidInv'
  OBVIOUS
<1>0. TypeOK /\ TypeOK' /\ RunsFollowStarts
  BY TypeNext DEF IInv
<1>1. ASSUME NEW k \in Stops, StopperSteps(k) PROVE PidQuiet
  BY <1>0, <1>1, ActorsOfRequests, PidTerminate, PidMarkStopped
     DEF StopperSteps, Terminate
<1>2. CASE UNCHANGED vars
  BY <1>2 DEF PidInv, Match, vars
<1>3. CASE Requests \/ Environment
  BY <1>0, <1>3, PidRequests, PidEnvironment, PidQuietKeeps
<1>4. ASSUME NEW s \in Starts, StarterSteps(s) \/ RunSteps(s) PROVE PidInv'
  BY <1>0, <1>4, PidStarter, PidRun, PidQuietKeeps
<1>5. QED
  BY <1>0, <1>1, <1>2, <1>3, <1>4, PidQuietKeeps DEF Next, Settled

LEMMA PidInit == Init => PidInv
<1> SUFFICES ASSUME Init PROVE PidInv
  OBVIOUS
<1>1. Match(NoSession, gen, pc)
  BY RequestsAssumption DEF Match, NoSession
<1>2. QED
  BY <1>1, ActorsOfRequests DEF PidInv, Init

\* The pids on record are those of the run of the generation on record, also
\* when generations are rolled back and used again.
THEOREM PidsCoherent == Spec => []PidsOfGeneration
<1>1. TypeOK /\ PidInv => PidsOfGeneration
  BY DEF TypeOK, PidInv, Match, PidsOfGeneration, Metadata
<1>2. QED
  BY <1>1, PidInit, PidInductive, IInvInvariant, PTL DEF Spec, IInv

-----------------------------------------------------------------------------
(* How sessions end: the exit code on record is that of a child of the     *)
(* generation on record, and a stop marks a session only after the end of  *)
(* every process it knew of.                                               *)

\* Where a run has no child yet.
Childless == Unborn \cup {"spawn child"}

\* A run has a child only once it has spawned it, knows the code of that child
\* only once it has reaped it, and whoever marks does so in its own generation.
LifeInv ==
  /\ \A r \in Starts :
       /\ pc[Run(r)] \in Childless => child[r] = "none"
       /\ why[Run(r)] \in Codes => child[r] = "gone" /\ code[r] = why[Run(r)]
  /\ \A a \in Actors \ Runs : why[a] \notin Codes
  /\ \A a \in Actors : pc[a] = "mark save" => copy[a].generation = gen[a]

\* Record m tells the truth of the exit of a child of its generation, and the
\* child that it names has been spawned.
Told(m) ==
  m.exit \in Codes =>
    \E r \in Starts : /\ gen[Run(r)] = m.generation
                      /\ code[r] = m.exit /\ child[r] = "gone"
Spawned(m) == m.child # Nobody => pc[Run(m.child)] \notin Childless

ExitInv ==
  /\ Told(meta) /\ Spawned(meta)
  /\ \A a \in Actors : Told(copy[a]) /\ Spawned(copy[a])

\* A stop that is past a process of its record without an error has outlived it.
OutlivesChild(k) ==
  /\ pc[Stopper(k)] \in {"signal supervisor", "await supervisor", "mark"}
  /\ reply[Stopper(k)] # "failed"
  => ~ChildExists(copy[Stopper(k)].child)
OutlivesSupervisor(k) ==
  pc[Stopper(k)] = "mark" =>
    /\ reply[Stopper(k)] # "failed"
    /\ ~SupervisorExists(copy[Stopper(k)].supervisor)
StopInv == \A k \in Stops : OutlivesChild(k) /\ OutlivesSupervisor(k)

-----------------------------------------------------------------------------
(* What most steps do to processes and records *)

\* Nobody is born, and what has come to its end stays as it is.
Calm ==
  /\ why' = why
  /\ \A r \in Starts :
       /\ pc'[Run(r)] \in Childless => pc[Run(r)] \in Childless
       /\ pc[Run(r)] \notin Unborn => gen'[Run(r)] = gen[Run(r)]
       /\ child[r] \in {"none", "gone"} => child'[r] = child[r] /\ code'[r] = code[r]
  /\ \A a \in Actors : pc'[a] = "mark save" => copy'[a].generation = gen'[a]

\* Where a record has its exit and its child from.
ExitFrom(n) ==
  \/ n.exit \notin Codes
  \/ n.exit = meta.exit /\ n.generation = meta.generation
  \/ \E a \in Actors : n.exit = copy[a].exit /\ n.generation = copy[a].generation
  \/ \E r \in Starts : n.exit = why[Run(r)] /\ n.generation = gen[Run(r)]
ChildFrom(n) ==
  \/ n.child = Nobody
  \/ n.child = meta.child
  \/ \E a \in Actors : n.child = copy[a].child
  \/ \E r \in Starts : n.child = r /\ pc[Run(r)] = "record save"

Handed ==
  /\ ExitFrom(meta') /\ ChildFrom(meta')
  /\ \A a \in Actors : ExitFrom(copy'[a]) /\ ChildFrom(copy'[a])

\* Most copies are those of before, or have been loaded, or are forgotten.
LEMMA HandedCopies ==
  ASSUME ExitFrom(meta'), ChildFrom(meta'),
         \A b \in Actors : copy'[b] \in {copy[b], meta, NoSession}
  PROVE  Handed
<1>1. ASSUME NEW b \in Actors PROVE ExitFrom(copy'[b]) /\ ChildFrom(copy'[b])
  <2>1. CASE copy'[b] = NoSession
    <3>1. copy'[b].exit = "none" /\ copy'[b].child = Nobody
      BY <2>1 DEF NoSession
    <3> QED
      BY <3>1 DEF ExitFrom, ChildFrom, Codes
  <2>2. CASE copy'[b] = meta \/ copy'[b] = copy[b]
    BY <2>2 DEF ExitFrom, ChildFrom
  <2> QED
    BY <2>1, <2>2
<1> QED
  BY <1>1 DEF Handed

LEMMA HandedQuiet ==
  ASSUME meta' = meta, \A b \in Actors : copy'[b] \in {copy[b], meta, NoSession}
  PROVE  Handed
BY HandedCopies DEF ExitFrom, ChildFrom

-----------------------------------------------------------------------------
(* Every step but three *)

LEMMA EndMarkStopped ==
  ASSUME TypeOK, LifeInv, NEW a \in Actors, MarkStopped(a),
         a \in Runs => \E r \in Starts : a = Run(r)
  PROVE  Calm /\ Handed
<1>0. /\ pc[a] \in {"mark", "mark save"}
      /\ UNCHANGED <<gen, why, child, code>>
  BY DEF MarkStopped, MarkStoppedSkip, MarkStoppedLoad, MarkStoppedSave
<1>1. PICK l \in {"done", "mark save"} :
        /\ pc' = [pc EXCEPT ![a] = l]
        /\ l = "mark save" => copy' = [copy EXCEPT ![a] = meta]
                              /\ meta.generation = gen[a]
        /\ copy' \in {[copy EXCEPT ![a] = meta], [copy EXCEPT ![a] = NoSession]}
  BY DEF MarkStopped, MarkStoppedSkip, MarkStoppedLoad, MarkStoppedSave, Return,
         Goto, LockAndLoad, SaveAndUnlock, Forget, MayMark
<1>2. Calm
  BY <1>0, <1>1, ActorsOfRequests DEF Calm, Ended, TypeOK, LifeInv, Childless, Unborn
<1>3. \A b \in Actors : copy'[b] \in {copy[b], meta, NoSession}
  BY <1>1 DEF TypeOK
<1>4. CASE meta' = meta
  BY <1>2, <1>3, <1>4, HandedQuiet
<1>5. CASE MarkStoppedSave(a)
  <2>1. /\ pc[a] = "mark save" /\ copy[a] \in Metadata
        /\ meta' = [copy[a] EXCEPT !.status = "stopped", !.exit = why[a]]
    BY <1>5 DEF MarkStoppedSave, SaveAndUnlock, TypeOK
  <2>2. /\ meta'.exit = why[a] /\ meta'.child = copy[a].child
        /\ meta'.generation = gen[a]
    BY <2>1 DEF Metadata, LifeInv
  <2>3. a \notin Runs => why[a] \notin Codes
    BY DEF LifeInv
  <2>4. ExitFrom(meta') /\ ChildFrom(meta')
    BY <2>2, <2>3 DEF ExitFrom, ChildFrom
  <2> QED
    BY <1>2, <1>3, <2>4, HandedCopies
<1> QED
  BY <1>4, <1>5 DEF MarkStopped, MarkStoppedSkip, MarkStoppedLoad

LEMMA EndTerminate ==
  ASSUME TypeOK, LifeInv, NEW a \in Starters \cup Stoppers,
         TerminateChild(a) \/ TerminateSupervisor(a)
  PROVE  Calm /\ Handed
<1>0. /\ a \in Actors /\ a \notin Runs
      /\ \A r \in Starts : Run(r) \in Actors /\ Run(r) \in Runs
  BY ActorsOfRequests, ActorsDistinct
<1>1. UNCHANGED <<meta, gen, why>>
  BY DEF TerminateChild, ChildNotOurs, SignalChild, ChildGone, ChildStays,
         TerminateSupervisor, SupervisorNotOurs, SignalSupervisor,
         SupervisorGone, SupervisorStays
<1>2. CASE SignalSupervisor(a) /\ Alive(Run(copy[a].supervisor))
  <2> DEFINE r == Run(copy[a].supervisor)
  <2>1. /\ pc' = [pc EXCEPT ![a] = "await supervisor", ![r] = "dead"]
        /\ copy' = [b \in Actors |-> IF b \in {r} THEN NoSession ELSE copy[b]]
        /\ child' = [s \in Starts |-> IF Run(s) \in {r} /\ child[s] = "zombie"
                                      THEN "gone" ELSE child[s]]
        /\ code' = code
    BY <1>2 DEF SignalSupervisor, Die
  <2> HIDE DEF r
  <2>2. Calm
    BY <1>0, <1>1, <2>1 DEF Calm, Ended, TypeOK, LifeInv, Childless, Unborn
  <2> QED
    BY <1>1, <2>1, <2>2, HandedQuiet
<1>3. CASE ~(SignalSupervisor(a) /\ Alive(Run(copy[a].supervisor)))
  <2>1. /\ copy' = copy \/ Forget(a)
        /\ \E l \in Labels \ {"mark save"} : pc' = [pc EXCEPT ![a] = l]
    BY <1>3
       DEF Goto, TerminateChild, ChildNotOurs, SignalChild, ChildGone, ChildStays,
           AfterChild, TerminateSupervisor, SupervisorNotOurs,
           SignalSupervisor, SupervisorGone, SupervisorStays,
           LeaveSupervisor, AfterSupervisor, Return, Labels
  <2>2. \A r \in Starts : child[r] # "alive" => child'[r] = child[r] /\ code'[r] = code[r]
    <3>1. CASE SignalChild(a)
      BY <3>1 DEF SignalChild, TypeOK
    <3> QED
      BY <1>3, <3>1
         DEF TerminateChild, ChildNotOurs, ChildGone, ChildStays,
             TerminateSupervisor, SupervisorNotOurs, SignalSupervisor,
             SupervisorGone, SupervisorStays
  <2>3. \A b \in Actors : /\ copy'[b] \in {copy[b], NoSession}
                          /\ b # a => copy'[b] = copy[b] /\ pc'[b] = pc[b]
    BY <2>1 DEF Forget, TypeOK
  <2>4. pc'[a] # "mark save"
    BY <1>0, <2>1 DEF TypeOK
  <2>5. Calm
    BY <1>0, <1>1, <2>2, <2>3, <2>4 DEF Calm, Ended, LifeInv
  <2> QED
    BY <1>1, <2>3, <2>5, HandedQuiet
<1> QED
  BY <1>2, <1>3

LEMMA EndRequests ==
  ASSUME TypeOK, LifeInv, Requests
  PROVE  Calm /\ Handed
<1>1. ASSUME NEW s \in Starts, StartRefused(s) \/ StartBegins(s) PROVE Calm /\ Handed
  <2>1. /\ UNCHANGED <<meta, copy, gen, why, child, code>>
        /\ \E l \in {"done", "init"} : Goto(Starter(s), l)
    BY <1>1 DEF StartRefused, StartBegins, Return
  <2>2. Calm
    BY <2>1, ActorsOfRequests, ActorsDistinct DEF Calm, Ended, TypeOK, Goto, LifeInv
  <2> QED
    BY <2>1, <2>2, HandedQuiet
<1>2. ASSUME NEW k \in Stops, StopRefused(k) \/ StopBegins(k) PROVE Calm /\ Handed
  <2>0. Stopper(k) \in Actors /\ Stopper(k) \notin Runs
        /\ \A r \in Starts : Run(r) \in Actors /\ Run(r) \in Runs
    BY ActorsOfRequests, ActorsDistinct
  <2>1. /\ UNCHANGED <<meta, why, child, code>>
        /\ copy' = copy \/ copy' = [copy EXCEPT ![Stopper(k)] = meta]
        /\ gen' = gen \/ gen' = [gen EXCEPT ![Stopper(k)] = meta.generation]
        /\ \E l \in {"done", "signal child"} : Goto(Stopper(k), l)
    BY <1>2 DEF StopRefused, StopBegins, Return
  <2>2. \A b \in Actors : /\ copy'[b] \in {copy[b], meta}
                          /\ b # Stopper(k) => copy'[b] = copy[b] /\ gen'[b] = gen[b]
    BY <2>1 DEF TypeOK
  <2>3. Calm
    BY <2>0, <2>1, <2>2 DEF Calm, Ended, TypeOK, Goto, LifeInv
  <2> QED
    BY <2>1, <2>2, <2>3, HandedQuiet
<1> QED
  BY <1>1, <1>2 DEF Requests

LEMMA EndStarter ==
  ASSUME TypeOK, LifeInv, RunsFollowStarts, NEW s \in Starts, StarterSteps(s)
  PROVE  Calm /\ Handed
<1>0. /\ Starter(s) \in Actors /\ Starter(s) \in Starters /\ Starter(s) \notin Runs
      /\ \A r \in Starts : Run(r) \in Actors /\ Run(r) \in Runs
      /\ \A r \in Starts : Run(r) = Run(s) => r = s
  BY ActorsOfRequests, ActorsDistinct
<1>1. CASE SpawnRun(s)
  <2>1. PICK l \in {"spawn child", "boot"} :
          pc' = [pc EXCEPT ![Starter(s)] = "poll", ![Run(s)] = l]
    BY <1>1 DEF SpawnRun
  <2>2. /\ pc[Run(s)] = "idle" /\ UNCHANGED <<meta, copy, why, child, code>>
        /\ gen' = gen \/ gen' = [gen EXCEPT ![Run(s)] = gen[Starter(s)]]
    BY <1>1 DEF SpawnRun, RunsFollowStarts, BeforeSpawn
  <2>3. Calm
    BY <1>0, <2>1, <2>2 DEF Calm, Ended, TypeOK, LifeInv, Childless, Unborn
  <2> QED
    BY <2>2, <2>3, HandedQuiet
<1>2. CASE \/ InitializeLoad(s) \/ InitializeFails(s) \/ InitializeSave(s)
           \/ WaitForRunning(s) \/ StartTimesOut(s) \/ SpawnRunFails(s)
  <2>1. /\ UNCHANGED <<why, child, code>>
        /\ \E l \in Labels \ {"mark save"} : Goto(Starter(s), l)
        /\ \E g : gen' = gen \/ gen' = [gen EXCEPT ![Starter(s)] = g]
        /\ copy' = copy \/ copy' = [copy EXCEPT ![Starter(s)] = meta]
    BY <1>2
       DEF InitializeLoad, InitializeFails, InitializeSave, WaitForRunning,
           StartTimesOut, SpawnRunFails, Return, Goto, Labels
  <2>2. \A b \in Actors : /\ copy'[b] \in {copy[b], meta}
                          /\ b # Starter(s) => copy'[b] = copy[b] /\ gen'[b] = gen[b]
    BY <2>1 DEF TypeOK
  <2>3. Calm
    BY <1>0, <2>1, <2>2 DEF Calm, Ended, TypeOK, Goto, LifeInv
  <2>4. ExitFrom(meta') /\ ChildFrom(meta')
    <3>1. meta' = meta \/ (meta'.exit = "none" /\ meta'.child = Nobody)
      BY <1>2
         DEF InitializeLoad, InitializeFails, InitializeSave, WaitForRunning,
             StartTimesOut, SpawnRunFails, NoSession
    <3> QED
      BY <3>1 DEF ExitFrom, ChildFrom, Codes
  <2> QED
    BY <2>2, <2>3, <2>4, HandedCopies
<1>3. CASE Terminate(Starter(s))
  BY <1>0, <1>3, EndTerminate, EndMarkStopped DEF Terminate
<1> QED
  BY <1>1, <1>2, <1>3 DEF StarterSteps

LEMMA EndEnvironment ==
  ASSUME TypeOK, LifeInv, Environment
  PROVE  Calm /\ Handed
<1>1. ASSUME NEW s \in Starts, ChildExits(s) PROVE Calm /\ Handed
  <2>1. /\ UNCHANGED <<meta, pc, copy, gen, why>>
        /\ \A r \in Starts :
             child[r] # "alive" => child'[r] = child[r] /\ code'[r] = code[r]
    BY <1>1 DEF ChildExits, TypeOK
  <2>2. Calm
    BY <2>1 DEF Calm, Ended, LifeInv
  <2> QED
    BY <2>1, <2>2, HandedQuiet
<1>2. ASSUME NEW A, Crash(A) PROVE Calm /\ Handed
  <2>1. /\ UNCHANGED <<meta, gen, why, code>>
        /\ pc' = [a \in Actors |-> IF a \in A THEN "dead" ELSE pc[a]]
        /\ copy' = [a \in Actors |-> IF a \in A THEN NoSession ELSE copy[a]]
        /\ child' = [s \in Starts |-> IF Run(s) \in A /\ child[s] = "zombie"
                                      THEN "gone" ELSE child[s]]
    BY <1>2 DEF Crash, Die
  <2>2. Calm
    BY <2>1, ActorsOfRequests DEF Calm, Ended, TypeOK, LifeInv, Childless, Unborn
  <2> QED
    BY <2>1, <2>2, HandedQuiet
<1> QED
  BY <1>1, <1>2 DEF Environment, ClientDies, SupervisorDies, DaemonDies

\* The three steps in which a run changes what is known of its child.
ChildStep(r) == SpawnChild(r) \/ AbortRun(r) \/ ReapChild(r)

LEMMA EndRun ==
  ASSUME TypeOK, LifeInv, NEW r \in Starts, RunSteps(r), ~ChildStep(r)
  PROVE  Calm /\ Handed
<1>0. /\ Run(r) \in Actors /\ copy[Run(r)] \in Metadata
      /\ \A q \in Starts : Run(q) \in Actors /\ (Run(q) = Run(r) => q = r)
  BY ActorsOfRequests DEF TypeOK
<1>1. CASE BootLoad(r) \/ RecordChildLoad(r) \/ PromoteLoad(r)
  <2>1. /\ UNCHANGED <<meta, gen, why, child, code>>
        /\ copy' = [copy EXCEPT ![Run(r)] = meta]
        /\ \E l \in {"boot save", "record save", "promote save"} :
             /\ pc' = [pc EXCEPT ![Run(r)] = l]
             /\ l = "boot save" => pc[Run(r)] = "boot"
    BY <1>1 DEF BootLoad, RecordChildLoad, PromoteLoad, LockAndLoad, Goto
  <2>2. Calm
    BY <1>0, <2>1 DEF Calm, Ended, TypeOK, LifeInv, Childless, Unborn
  <2>3. \A b \in Actors : copy'[b] \in {copy[b], meta}
    BY <2>1 DEF TypeOK
  <2> QED
    BY <2>1, <2>2, <2>3, HandedQuiet
<1>2. CASE BootSave(r) \/ RecordChildSave(r) \/ PromoteSave(r)
  <2>1. /\ UNCHANGED <<why, child, code>>
        /\ copy' = [copy EXCEPT ![Run(r)] = NoSession]
        /\ \E l \in {"spawn child", "promote", "running"} :
             /\ pc' = [pc EXCEPT ![Run(r)] = l]
             /\ l = "spawn child" => pc[Run(r)] = "boot save"
        /\ \/ gen' = gen
           \/ /\ pc[Run(r)] = "boot save"
              /\ gen' = [gen EXCEPT ![Run(r)] = copy[Run(r)].generation]
    BY <1>2 DEF BootSave, RecordChildSave, PromoteSave, SaveAndUnlock, Forget, Goto
  <2>2. Calm
    BY <1>0, <2>1 DEF Calm, Ended, TypeOK, LifeInv, Childless, Unborn
  <2>3. \A b \in Actors : copy'[b] \in {copy[b], NoSession}
    BY <2>1 DEF TypeOK
  <2>4. /\ meta'.exit = copy[Run(r)].exit
        /\ meta'.generation = copy[Run(r)].generation
        /\ \/ meta'.child \in {copy[Run(r)].child, Nobody}
           \/ meta'.child = r /\ pc[Run(r)] = "record save"
    BY <1>0, <1>2 DEF BootSave, RecordChildSave, PromoteSave, SaveAndUnlock, Metadata
  <2>5. ExitFrom(meta') /\ ChildFrom(meta')
    BY <1>0, <2>4 DEF ExitFrom, ChildFrom
  <2> QED
    BY <2>2, <2>3, <2>5, HandedCopies
<1>3. CASE SpawnFails(r) \/ RunNotLive(r) \/ SetupFails(r)
  <2>1. /\ UNCHANGED <<meta, copy, gen, why, child, code>>
        /\ \E l \in {"mark", "abort"} : pc' = [pc EXCEPT ![Run(r)] = l]
    BY <1>3 DEF SpawnFails, RunNotLive, SetupFails, Goto
  <2>2. Calm
    BY <1>0, <2>1 DEF Calm, Ended, TypeOK, LifeInv, Childless, Unborn
  <2> QED
    BY <2>1, <2>2, HandedQuiet
<1>4. CASE MarkStopped(Run(r))
  BY <1>0, <1>4, EndMarkStopped
<1> QED
  BY <1>1, <1>2, <1>3, <1>4 DEF RunSteps, ChildStep

-----------------------------------------------------------------------------
(* The exit on record *)

\* What has ended stays so.
Lasting ==
  \A r \in Starts :
    /\ pc[Run(r)] \notin Childless => pc'[Run(r)] \notin Childless
    /\ child[r] = "gone" =>
         child'[r] = "gone" /\ code'[r] = code[r] /\ gen'[Run(r)] = gen[Run(r)]

\* What has come to its end does not come back.
ActorsEnd == \A a \in Actors : pc[a] \in Ended => pc'[a] \in Ended
ChildrenEnd ==
  \A r \in Starts : child[r] \in {"none", "gone"} /\ pc[Run(r)] \notin Childless =>
    child'[r] \in {"none", "gone"}
Gone == ActorsEnd /\ ChildrenEnd

LEMMA CalmLasts ==
  ASSUME TypeOK, LifeInv, Calm
  PROVE  Lasting /\ LifeInv' /\ ChildrenEnd
<1>1. Lasting
  BY DEF Calm, Lasting, LifeInv, Childless
<1>2. \A r \in Starts : pc'[Run(r)] \in Childless => child'[r] = "none"
  BY DEF Calm, LifeInv
<1>3. \A r \in Starts :
        why'[Run(r)] \in Codes => child'[r] = "gone" /\ code'[r] = why'[Run(r)]
  BY DEF Calm, LifeInv
<1>4. \A a \in Actors \ Runs : why'[a] \notin Codes
  BY DEF Calm, LifeInv
<1>5. \A a \in Actors : pc'[a] = "mark save" => copy'[a].generation = gen'[a]
  BY DEF Calm
<1>6. \A r \in Starts : child[r] \in {"none", "gone"} => child'[r] = child[r]
  BY DEF Calm
<1>7. ChildrenEnd
  BY <1>6 DEF ChildrenEnd
<1>8. LifeInv'
  BY <1>2, <1>3, <1>4, <1>5 DEF LifeInv
<1> QED
  BY <1>1, <1>7, <1>8

LEMMA ChildStepLasts ==
  ASSUME TypeOK, LifeInv, NEW r \in Starts, ChildStep(r)
  PROVE  Lasting /\ LifeInv' /\ Handed /\ ChildrenEnd
<1>0. /\ Run(r) \in Actors /\ Run(r) \in Runs
      /\ \A q \in Starts : Run(q) \in Actors /\ (Run(q) = Run(r) => q = r)
  BY ActorsOfRequests
<1>1. UNCHANGED <<meta, copy, gen>> /\ Handed
  BY HandedQuiet DEF ChildStep, SpawnChild, AbortRun, ReapChild
<1>2. CASE SpawnChild(r)
  <2>1. /\ pc[Run(r)] = "spawn child" /\ pc' = [pc EXCEPT ![Run(r)] = "record"]
        /\ child' = [child EXCEPT ![r] = "alive"] /\ UNCHANGED <<why, code>>
    BY <1>2 DEF SpawnChild, Goto
  <2>2. Lasting
    BY <1>0, <1>1, <2>1 DEF Lasting, TypeOK, LifeInv, Childless, Unborn
  <2>3. LifeInv'
    BY <1>0, <1>1, <2>1 DEF TypeOK, LifeInv, Childless, Unborn
  <2>4. ChildrenEnd
    BY <1>0, <2>1 DEF ChildrenEnd, TypeOK, Childless
  <2> QED
    BY <1>1, <2>2, <2>3, <2>4
<1>3. CASE AbortRun(r)
  <2>1. /\ pc[Run(r)] = "abort" /\ pc' = [pc EXCEPT ![Run(r)] = "mark"]
        /\ child' = [child EXCEPT ![r] = "gone"] /\ UNCHANGED why
        /\ \A q \in Starts : code'[q] = code[q] \/ (q = r /\ child[q] = "alive")
    BY <1>3 DEF AbortRun, Goto, TypeOK
  <2>2. Lasting
    BY <1>0, <1>1, <2>1 DEF Lasting, TypeOK, LifeInv, Childless, Unborn
  <2>3. LifeInv'
    BY <1>0, <1>1, <2>1 DEF TypeOK, LifeInv, Childless, Unborn
  <2>4. ChildrenEnd
    BY <1>0, <2>1 DEF ChildrenEnd, TypeOK, Childless
  <2> QED
    BY <1>1, <2>2, <2>3, <2>4
<1>4. CASE ReapChild(r)
  <2>1. /\ pc[Run(r)] = "running" /\ pc' = [pc EXCEPT ![Run(r)] = "mark"]
        /\ child' = [child EXCEPT ![r] = "gone"] /\ UNCHANGED code
        /\ why' = [why EXCEPT ![Run(r)] = code[r]]
    BY <1>4 DEF ReapChild, Goto
  <2>2. Lasting
    BY <1>0, <1>1, <2>1 DEF Lasting, TypeOK, LifeInv, Childless, Unborn
  <2>3. LifeInv'
    BY <1>0, <1>1, <2>1 DEF TypeOK, LifeInv, Childless, Unborn
  <2>4. ChildrenEnd
    BY <1>0, <2>1 DEF ChildrenEnd, TypeOK, Childless
  <2> QED
    BY <1>1, <2>2, <2>3, <2>4
<1> QED
  BY <1>2, <1>3, <1>4 DEF ChildStep

\* Whoever moves, ends or is killed has not ended before.
LEMMA EndedStay ==
  ASSUME TypeOK, RunsFollowStarts, [Next]_vars
  PROVE  ActorsEnd
<1> DEFINE Moves(a) == pc[a] \notin Ended /\ \E l \in Labels : pc' = [pc EXCEPT ![a] = l]
<1>0. \A a \in Actors : Moves(a) => ActorsEnd
  BY DEF ActorsEnd, TypeOK
<1>1. ASSUME NEW a \in Actors, MarkStopped(a) PROVE Moves(a)
  BY <1>1 DEF MarkStopped, MarkStoppedSkip, MarkStoppedLoad, MarkStoppedSave, Return,
              Goto, Labels, Ended
<1>2. ASSUME NEW a \in Actors, TerminateChild(a) \/ TerminateSupervisor(a)
      PROVE  ActorsEnd
  <2>1. CASE SignalSupervisor(a) /\ Alive(Run(copy[a].supervisor))
    <3>1. /\ pc[a] \notin Ended /\ pc' = [pc EXCEPT ![a] = "await supervisor",
                                                  ![Run(copy[a].supervisor)] = "dead"]
      BY <2>1 DEF SignalSupervisor, Ended
    <3> QED
      BY <3>1 DEF ActorsEnd, TypeOK, Ended
  <2>2. CASE ~(SignalSupervisor(a) /\ Alive(Run(copy[a].supervisor)))
    <3>1. Moves(a)
      BY <1>2, <2>2
         DEF Goto, TerminateChild, ChildNotOurs, SignalChild, ChildGone, ChildStays,
             AfterChild, TerminateSupervisor, SupervisorNotOurs,
             SignalSupervisor, SupervisorGone, SupervisorStays,
             LeaveSupervisor, AfterSupervisor, Return, Labels, Ended
    <3> QED
      BY <1>0, <3>1
  <2> QED
    BY <2>1, <2>2
<1>3. ASSUME NEW s \in Starts, RunSteps(s) PROVE ActorsEnd
  <2>1. CASE ~MarkStopped(Run(s))
    <3>1. Moves(Run(s))
      BY <1>3, <2>1
         DEF RunSteps, BootLoad, BootSave, SpawnFails, SpawnChild, RunNotLive,
             RecordChildLoad, RecordChildSave, PromoteLoad, PromoteSave,
             SetupFails, AbortRun, ReapChild, Labels, Goto, Ended
    <3> QED
      BY <1>0, <3>1, ActorsOfRequests
  <2> QED
    BY <1>0, <1>1, <2>1, ActorsOfRequests
<1>4. ASSUME NEW s \in Starts, StarterSteps(s) \/ StartRefused(s) \/ StartBegins(s)
      PROVE  ActorsEnd
  <2>1. CASE SpawnRun(s)
    <3>1. /\ pc[Starter(s)] \notin Ended /\ pc[Run(s)] \notin Ended
          /\ \E l \in Labels : pc' = [pc EXCEPT ![Starter(s)] = "poll", ![Run(s)] = l]
      BY <2>1 DEF SpawnRun, Labels, Ended, RunsFollowStarts, BeforeSpawn
    <3> QED
      BY <3>1 DEF ActorsEnd, TypeOK
  <2>2. CASE ~SpawnRun(s) /\ ~Terminate(Starter(s))
    <3>1. Moves(Starter(s))
      BY <1>4, <2>2
         DEF StarterSteps, StartRefused, StartBegins, InitializeLoad, InitializeFails,
             InitializeSave, SpawnRunFails, WaitForRunning, StartTimesOut, Return,
             Goto, Labels, Ended
    <3> QED
      BY <1>0, <3>1, ActorsOfRequests
  <2> QED
    BY <1>0, <1>1, <1>2, <2>1, <2>2, ActorsOfRequests DEF Terminate
<1>5. ASSUME NEW k \in Stops, StopperSteps(k) \/ StopRefused(k) \/ StopBegins(k)
      PROVE  ActorsEnd
  <2>1. CASE StopRefused(k) \/ StopBegins(k)
    <3>1. Moves(Stopper(k))
      BY <2>1 DEF StopRefused, StopBegins, Return, Goto, Labels, Ended
    <3> QED
      BY <1>0, <3>1, ActorsOfRequests
  <2> QED
    BY <1>0, <1>1, <1>2, <1>5, <2>1, ActorsOfRequests DEF StopperSteps, Terminate
<1>6. CASE Environment
  <2>1. ASSUME NEW s \in Starts, ChildExits(s) PROVE ActorsEnd
    BY <2>1 DEF ChildExits, ActorsEnd
  <2>2. ASSUME NEW A, Crash(A) PROVE ActorsEnd
    BY <2>2 DEF Crash, ActorsEnd, Ended
  <2> QED
    BY <1>6, <2>1, <2>2 DEF Environment, ClientDies, SupervisorDies, DaemonDies
<1>7. CASE UNCHANGED vars
  BY <1>7 DEF vars, ActorsEnd
<1> QED
  BY <1>3, <1>4, <1>5, <1>6, <1>7 DEF Next, Requests, Settled

LEMMA EndNext ==
  ASSUME TypeOK, RunsFollowStarts, LifeInv, [Next]_vars
  PROVE  Lasting /\ LifeInv' /\ Handed /\ Gone
<1>1. CASE UNCHANGED vars
  <2>1. Calm
    BY <1>1 DEF vars, Calm, LifeInv
  <2>2. Handed
    BY <1>1, HandedQuiet DEF vars
  <2> QED
    BY <2>1, <2>2, CalmLasts, EndedStay DEF Gone
<1>2. ASSUME NEW k \in Stops, StopperSteps(k) PROVE Calm /\ Handed
  BY <1>2, ActorsOfRequests, ActorsDistinct, EndTerminate, EndMarkStopped
     DEF StopperSteps, Terminate
<1>3. ASSUME NEW s \in Starts, RunSteps(s)
      PROVE  Lasting /\ LifeInv' /\ Handed /\ ChildrenEnd
  BY <1>3, EndRun, CalmLasts, ChildStepLasts
<1> QED
  BY <1>1, <1>2, <1>3, EndRequests, EndStarter, EndEnvironment, CalmLasts,
     EndedStay DEF Next, Settled, Gone

LEMMA ExitKept ==
  ASSUME TypeOK, RunsFollowStarts, LifeInv, ExitInv, Lasting, Handed, NEW n,
         ExitFrom(n)
  PROVE  n.exit \in Codes =>
           \E r \in Starts : /\ gen'[Run(r)] = n.generation
                             /\ code'[r] = n.exit /\ child'[r] = "gone"
<1> SUFFICES ASSUME n.exit \in Codes
             PROVE  \E r \in Starts : /\ gen'[Run(r)] = n.generation
                                      /\ code'[r] = n.exit /\ child'[r] = "gone"
  OBVIOUS
<1>1. \E r \in Starts : /\ gen[Run(r)] = n.generation
                        /\ code[r] = n.exit /\ child[r] = "gone"
  <2>1. CASE n.exit = meta.exit /\ n.generation = meta.generation
    BY <2>1 DEF ExitInv, Told
  <2>2. CASE \E a \in Actors : n.exit = copy[a].exit /\ n.generation = copy[a].generation
    BY <2>2 DEF ExitInv, Told
  <2>3. CASE \E r \in Starts : n.exit = why[Run(r)] /\ n.generation = gen[Run(r)]
    BY <2>3 DEF LifeInv
  <2> QED
    BY <2>1, <2>2, <2>3 DEF ExitFrom
<1> QED
  BY <1>1 DEF Lasting

LEMMA ChildKept ==
  ASSUME TypeOK, ExitInv, Lasting, NEW n, ChildFrom(n),
         n.child \in Starts \cup {Nobody}
  PROVE  n.child # Nobody => pc'[Run(n.child)] \notin Childless
<1> SUFFICES ASSUME n.child # Nobody PROVE pc'[Run(n.child)] \notin Childless
  OBVIOUS
<1>1. pc[Run(n.child)] \notin Childless
  BY DEF ChildFrom, ExitInv, Spawned, Childless, Unborn
<1> QED
  BY <1>1 DEF Lasting

LEMMA ExitInductive ==
  ASSUME TypeOK, RunsFollowStarts, LifeInv, ExitInv, [Next]_vars
  PROVE  LifeInv' /\ ExitInv'
<1>1. TypeOK' /\ Lasting /\ LifeInv' /\ Handed
  BY EndNext, TypeNext
<1>2. Told(meta)' /\ Spawned(meta)'
  <2>1. meta'.child \in Starts \cup {Nobody}
    BY <1>1 DEF TypeOK, Metadata
  <2> QED
    BY <1>1, <2>1, ExitKept, ChildKept DEF Handed, Told, Spawned
<1>3. ASSUME NEW a \in Actors PROVE Told(copy[a])' /\ Spawned(copy[a])'
  <2>1. copy'[a].child \in Starts \cup {Nobody}
    BY <1>1 DEF TypeOK, Metadata
  <2> QED
    BY <1>1, <2>1, ExitKept, ChildKept DEF Handed, Told, Spawned
<1> QED
  BY <1>1, <1>2, <1>3 DEF ExitInv

LEMMA ExitInit == Init => LifeInv /\ ExitInv
<1> SUFFICES ASSUME Init PROVE LifeInv /\ ExitInv
  OBVIOUS
<1>1. Told(NoSession) /\ Spawned(NoSession)
  BY DEF Told, Spawned, NoSession, Codes
<1>2. ExitInv
  BY <1>1 DEF Init, ExitInv
<1>3. LifeInv
  BY ActorsOfRequests, ActorsDistinct DEF Init, LifeInv, Codes
<1> QED
  BY <1>2, <1>3

LEMMA ExitInvariant == Spec => [](LifeInv /\ ExitInv)
<1>1. IInv /\ LifeInv /\ ExitInv /\ [Next]_vars => LifeInv' /\ ExitInv'
  BY ExitInductive DEF IInv
<1> QED
  BY <1>1, ExitInit, IInvInvariant, PTL DEF Spec

\* Whatever races to mark a session, an exit code on record is that of a reaped
\* child of the generation on record.
THEOREM ExitCodesAreTrue == Spec => []ExitCodeIsTrue
<1>1. ExitInv => ExitCodeIsTrue
  BY DEF ExitInv, Told, ExitCodeIsTrue
<1> QED
  BY <1>1, ExitInvariant, PTL

-----------------------------------------------------------------------------
(* Stops *)

\* A process that a record names does not come back.
LEMMA GoneStays ==
  ASSUME TypeOK, RunsFollowStarts, Gone,
         NEW m \in Metadata, Spawned(m), Match(m, gen, pc)
  PROVE  /\ ~ChildExists(m.child) => ~ChildExists(m.child)'
         /\ ~SupervisorExists(m.supervisor) => ~SupervisorExists(m.supervisor)'
<1>1. ~ChildExists(m.child) => ~ChildExists(m.child)'
  BY DEF Gone, ChildrenEnd, Spawned, ChildExists, TypeOK, Metadata
<1>2. ASSUME m.supervisor # Nobody, ~SupervisorExists(m.supervisor)
      PROVE  ~SupervisorExists(m.supervisor)'
  <2>1. PICK q \in Starts : q = m.supervisor
    BY <1>2 DEF Metadata
  <2>2. pc[Run(q)] \notin Unborn
    BY <2>1 DEF Match
  <2>3. /\ Run(q) \in Actors /\ Starter(q) \in Actors
        /\ pc[Run(q)] \in Ended /\ pc[Starter(q)] \in Ended
    BY <1>2, <2>1, <2>2, ActorsOfRequests
       DEF SupervisorExists, Alive, RunsFollowStarts, BeforeSpawn, Unborn
  <2>4. pc'[Run(q)] \in Ended /\ pc'[Starter(q)] \in Ended
    BY <2>3 DEF Gone, ActorsEnd
  <2> QED
    BY <2>1, <2>4 DEF SupervisorExists, Alive
<1>3. m.supervisor = Nobody => ~SupervisorExists(m.supervisor)'
  BY DEF SupervisorExists
<1> QED
  BY <1>1, <1>2, <1>3

\* What other actors leave of a stop.
Untouched(a) ==
  \/ pc'[a] = "dead"
  \/ pc'[a] = pc[a] /\ copy'[a] = copy[a] /\ reply'[a] = reply[a]

LEMMA UntouchedByMark ==
  ASSUME TypeOK, NEW b \in Actors, MarkStopped(b), NEW a \in Actors \ {b}
  PROVE  Untouched(a)
<1>1. /\ \E l \in Labels : pc' = [pc EXCEPT ![b] = l]
      /\ \E m \in Metadata \cup {NoSession} : copy' = [copy EXCEPT ![b] = m]
      /\ \E w : reply' = reply \/ reply' = [reply EXCEPT ![b] = w]
  BY DEF MarkStopped, MarkStoppedSkip, MarkStoppedLoad, MarkStoppedSave, Return,
         Goto, LockAndLoad, SaveAndUnlock, Forget, Labels, TypeOK
<1> QED
  BY <1>1 DEF Untouched, TypeOK

LEMMA UntouchedByTerminate ==
  ASSUME TypeOK, NEW b \in Starters \cup Stoppers, NEW a \in Stoppers \ {b},
         TerminateChild(b) \/ TerminateSupervisor(b)
  PROVE  Untouched(a)
<1>0. a \in Actors /\ b \in Actors /\ a \notin Runs
  BY ActorsOfRequests, ActorsDistinct
<1>1. \A w : [reply EXCEPT ![b] = w][a] = reply[a]
  BY <1>0 DEF TypeOK
<1>2. CASE SignalSupervisor(b) /\ Alive(Run(copy[b].supervisor))
  <2> DEFINE r == Run(copy[b].supervisor)
  <2>1. /\ pc' = [pc EXCEPT ![b] = "await supervisor", ![r] = "dead"]
        /\ copy' = [c \in Actors |-> IF c \in {r} THEN NoSession ELSE copy[c]]
        /\ reply' = reply
    BY <1>2 DEF SignalSupervisor, Die
  <2>2. a # r
    BY <1>2 DEF Stoppers
  <2> HIDE DEF r
  <2> QED
    BY <1>0, <2>1, <2>2 DEF Untouched, TypeOK
<1>3. CASE ~(SignalSupervisor(b) /\ Alive(Run(copy[b].supervisor)))
  <2>1. /\ copy' = copy \/ copy' = [copy EXCEPT ![b] = NoSession]
        /\ \E l \in Labels : pc' = [pc EXCEPT ![b] = l]
        /\ reply' = reply \/ reply' = [reply EXCEPT ![b] = "failed"]
    BY <1>3
       DEF Goto, Forget, TerminateChild, ChildNotOurs, SignalChild, ChildGone,
           ChildStays, AfterChild, TerminateSupervisor, SupervisorNotOurs,
           SignalSupervisor, SupervisorGone, SupervisorStays,
           LeaveSupervisor, AfterSupervisor, Return, Labels
  <2> QED
    BY <1>0, <2>1 DEF Untouched, TypeOK
<1> QED
  BY <1>2, <1>3

LEMMA UntouchedByRun ==
  ASSUME TypeOK, NEW r \in Starts, RunSteps(r), NEW a \in Stoppers
  PROVE  Untouched(a)
<1>0. Run(r) \in Actors /\ a \in Actors \ {Run(r)}
  BY ActorsOfRequests, ActorsDistinct
<1>1. CASE MarkStopped(Run(r))
  BY <1>0, <1>1, UntouchedByMark
<1>2. CASE ~MarkStopped(Run(r))
  <2>1. /\ \E l \in Labels : pc' = [pc EXCEPT ![Run(r)] = l]
        /\ \E m : copy' = copy \/ copy' = [copy EXCEPT ![Run(r)] = m]
        /\ reply' = reply
    BY <1>2
       DEF RunSteps, BootLoad, BootSave, SpawnFails, SpawnChild, RunNotLive,
           RecordChildLoad, RecordChildSave, PromoteLoad, PromoteSave,
           SetupFails, AbortRun, ReapChild, Labels, LockAndLoad, SaveAndUnlock,
           Forget, Goto
  <2> QED
    BY <1>0, <2>1 DEF Untouched, TypeOK
<1> QED
  BY <1>1, <1>2

LEMMA UntouchedByStarter ==
  ASSUME TypeOK, NEW s \in Starts, NEW a \in Stoppers,
         StarterSteps(s) \/ StartRefused(s) \/ StartBegins(s)
  PROVE  Untouched(a)
<1>0. /\ Starter(s) \in Starters /\ Starter(s) \in Actors
      /\ a \in Actors \ {Starter(s), Run(s)} /\ a \in Stoppers \ {Starter(s)}
  BY ActorsOfRequests, ActorsDistinct
<1>1. CASE Terminate(Starter(s))
  BY <1>0, <1>1, UntouchedByMark, UntouchedByTerminate DEF Terminate
<1>2. CASE SpawnRun(s)
  <2>1. /\ \E l \in Labels : pc' = [pc EXCEPT ![Starter(s)] = "poll", ![Run(s)] = l]
        /\ UNCHANGED <<copy, reply>>
    BY <1>2 DEF SpawnRun, Labels
  <2> QED
    BY <1>0, <2>1 DEF Untouched, TypeOK
<1>3. CASE ~Terminate(Starter(s)) /\ ~SpawnRun(s)
  <2>1. /\ \E l \in Labels : pc' = [pc EXCEPT ![Starter(s)] = l]
        /\ \E m : copy' = copy \/ copy' = [copy EXCEPT ![Starter(s)] = m]
        /\ \E w : reply' = reply \/ reply' = [reply EXCEPT ![Starter(s)] = w]
    BY <1>3
       DEF StarterSteps, StartRefused, StartBegins, InitializeLoad, InitializeFails,
           InitializeSave, SpawnRunFails, WaitForRunning, StartTimesOut, Return,
           Goto, Labels
  <2> QED
    BY <1>0, <2>1 DEF Untouched, TypeOK
<1> QED
  BY <1>1, <1>2, <1>3

LEMMA UntouchedByEnvironment ==
  ASSUME TypeOK, Environment, NEW a \in Stoppers
  PROVE  Untouched(a)
<1>0. a \in Actors
  BY ActorsOfRequests
<1>1. ASSUME NEW s \in Starts, ChildExits(s) PROVE Untouched(a)
  BY <1>1 DEF ChildExits, Untouched
<1>2. ASSUME NEW A, Crash(A) PROVE Untouched(a)
  BY <1>0, <1>2 DEF Crash, Die, Untouched
<1> QED
  BY <1>1, <1>2 DEF Environment, ClientDies, SupervisorDies, DaemonDies

\* What a stop has seen the end of it need not look at again.
LEMMA StopUntouched ==
  ASSUME TypeOK, RunsFollowStarts, PidInv, ExitInv, StopInv, Gone,
         NEW k \in Stops, Untouched(Stopper(k))
  PROVE  (OutlivesChild(k) /\ OutlivesSupervisor(k))'
<1>1. CASE pc'[Stopper(k)] = "dead"
  BY <1>1 DEF OutlivesChild, OutlivesSupervisor
<1>2. CASE pc'[Stopper(k)] # "dead"
  <2>1. PICK m \in Metadata : m = copy[Stopper(k)]
    BY ActorsOfRequests DEF TypeOK
  <2>2. /\ ~ChildExists(m.child) => ~ChildExists(m.child)'
        /\ ~SupervisorExists(m.supervisor) => ~SupervisorExists(m.supervisor)'
    BY <2>1, GoneStays, ActorsOfRequests DEF ExitInv, PidInv
  <2>3. /\ pc'[Stopper(k)] = pc[Stopper(k)] /\ reply'[Stopper(k)] = reply[Stopper(k)]
        /\ copy'[Stopper(k)] = m
    BY <1>2, <2>1 DEF Untouched
  <2>4. OutlivesChild(k) /\ OutlivesSupervisor(k)
    BY DEF StopInv
  <2>5. OutlivesChild(k)'
    BY <2>1, <2>2, <2>3, <2>4 DEF OutlivesChild, ChildExists
  <2>6. OutlivesSupervisor(k)'
    BY <2>1, <2>2, <2>3, <2>4 DEF OutlivesSupervisor, SupervisorExists
  <2> QED
    BY <2>5, <2>6
<1> QED
  BY <1>1, <1>2

\* What a stop does itself.
LEMMA StopTerminates ==
  ASSUME TypeOK, RunsFollowStarts, PidInv, ExitInv, StopInv, Gone,
         NEW k \in Stops, StopperSteps(k)
  PROVE  (OutlivesChild(k) /\ OutlivesSupervisor(k))'
<1> DEFINE a == Stopper(k)
<1>0. /\ a \in Stoppers /\ a \in Actors /\ a \notin Runs /\ a \notin Starters
      /\ \A q \in Starts : a # Run(q) /\ a # Starter(q)
  BY ActorsOfRequests, ActorsDistinct
<1>1. PICK m \in Metadata : m = copy[a]
  BY <1>0 DEF TypeOK
<1>2. /\ ~ChildExists(m.child) => ~ChildExists(m.child)'
      /\ ~SupervisorExists(m.supervisor) => ~SupervisorExists(m.supervisor)'
  BY <1>0, <1>1, GoneStays DEF ExitInv, PidInv
<1>3. OutlivesChild(k) /\ OutlivesSupervisor(k)
  BY DEF StopInv
<1>4. CASE MarkStopped(a)
  <2>1. pc'[a] \in {"done", "mark save"}
    BY <1>0, <1>4
       DEF MarkStopped, MarkStoppedSkip, MarkStoppedLoad, MarkStoppedSave, Return,
           Goto, TypeOK
  <2> QED
    BY <2>1 DEF OutlivesChild, OutlivesSupervisor
<1>5. CASE SignalChild(a)
  <2>1. pc'[a] = "await child"
    BY <1>0, <1>5 DEF SignalChild, Goto, TypeOK
  <2> QED
    BY <2>1 DEF OutlivesChild, OutlivesSupervisor
<1>6. CASE ChildStays(a)
  <2>1. pc'[a] = "signal supervisor" /\ reply'[a] = "failed"
    BY <1>0, <1>6 DEF ChildStays, AfterChild, Goto, TypeOK
  <2> QED
    BY <2>1 DEF OutlivesChild, OutlivesSupervisor
<1>7. CASE ChildNotOurs(a) \/ ChildGone(a)
  <2>1. /\ pc'[a] = "signal supervisor" /\ copy'[a] = m /\ ~ChildExists(m.child)
    BY <1>0, <1>1, <1>7 DEF ChildNotOurs, ChildGone, AfterChild, Goto, TypeOK
  <2> QED
    BY <1>2, <2>1 DEF OutlivesChild, OutlivesSupervisor, ChildExists
<1>8. CASE SignalSupervisor(a)
  <2>1. pc'[a] = "await supervisor" /\ copy'[a] = m /\ reply'[a] = reply[a]
    <3>1. CASE Alive(Run(copy[a].supervisor))
      <4> DEFINE r == Run(copy[a].supervisor)
      <4>1. /\ pc' = [pc EXCEPT ![a] = "await supervisor", ![r] = "dead"]
            /\ copy' = [b \in Actors |-> IF b \in {r} THEN NoSession ELSE copy[b]]
            /\ reply' = reply
        BY <1>8, <3>1 DEF SignalSupervisor, Die
      <4>2. a # r
        OBVIOUS
      <4> HIDE DEF r
      <4> QED
        BY <1>0, <1>1, <4>1, <4>2 DEF TypeOK
    <3>2. CASE ~Alive(Run(copy[a].supervisor))
      BY <1>0, <1>1, <1>8, <3>2 DEF SignalSupervisor, Goto, TypeOK
    <3> QED
      BY <3>1, <3>2
  <2>2. pc[a] = "signal supervisor"
    BY <1>8 DEF SignalSupervisor
  <2> QED
    BY <1>1, <1>2, <1>3, <2>1, <2>2
       DEF OutlivesChild, OutlivesSupervisor, ChildExists
<1>9. CASE SupervisorNotOurs(a) \/ SupervisorGone(a)
  <2>1. /\ ~SupervisorExists(m.supervisor)
        /\ pc[a] \in {"signal supervisor", "await supervisor"}
        /\ LeaveSupervisor(a, reply[a] = "failed")
    BY <1>1, <1>9 DEF SupervisorNotOurs, SupervisorGone
  <2>2. CASE reply[a] = "failed"
    <3>1. pc'[a] = "done"
      BY <1>0, <2>1, <2>2 DEF LeaveSupervisor, Return, Goto, TypeOK
    <3> QED
      BY <3>1 DEF OutlivesChild, OutlivesSupervisor
  <2>3. CASE reply[a] # "failed"
    <3>1. pc'[a] = "mark" /\ copy'[a] = m /\ reply'[a] = reply[a]
      BY <1>0, <1>1, <2>1, <2>3
         DEF LeaveSupervisor, AfterSupervisor, Goto, TypeOK
    <3>2. OutlivesChild(k)'
      BY <1>1, <1>2, <1>3, <2>1, <2>3, <3>1 DEF OutlivesChild, ChildExists
    <3>3. OutlivesSupervisor(k)'
      BY <1>2, <2>1, <2>3, <3>1 DEF OutlivesSupervisor, SupervisorExists
    <3> QED
      BY <3>2, <3>3
  <2> QED
    BY <2>2, <2>3
<1>10. CASE SupervisorStays(a)
  <2>1. pc'[a] = "done"
    BY <1>0, <1>10 DEF SupervisorStays, LeaveSupervisor, Return, Goto, TypeOK
  <2> QED
    BY <2>1 DEF OutlivesChild, OutlivesSupervisor
<1> QED
  BY <1>4, <1>5, <1>6, <1>7, <1>8, <1>9, <1>10
     DEF StopperSteps, Terminate, TerminateChild, TerminateSupervisor

LEMMA StopBeginning ==
  ASSUME TypeOK, NEW k \in Stops, StopRefused(k) \/ StopBegins(k)
  PROVE  /\ (OutlivesChild(k) /\ OutlivesSupervisor(k))'
         /\ \A a \in Stoppers \ {Stopper(k)} : Untouched(a)
<1>0. Stopper(k) \in Actors /\ Stoppers \subseteq Actors
  BY ActorsOfRequests
<1>1. \E l \in {"done", "signal child"} : pc' = [pc EXCEPT ![Stopper(k)] = l]
  BY DEF StopRefused, StopBegins, Return, Goto
<1>2. (OutlivesChild(k) /\ OutlivesSupervisor(k))'
  BY <1>0, <1>1 DEF OutlivesChild, OutlivesSupervisor, TypeOK
<1>3. /\ \E m : copy' = copy \/ copy' = [copy EXCEPT ![Stopper(k)] = m]
      /\ \E w : reply' = reply \/ reply' = [reply EXCEPT ![Stopper(k)] = w]
  BY DEF StopRefused, StopBegins, Return
<1>4. \A a \in Stoppers \ {Stopper(k)} : Untouched(a)
  BY <1>0, <1>1, <1>3 DEF Untouched, TypeOK
<1> QED
  BY <1>2, <1>4

LEMMA StopInductive ==
  ASSUME TypeOK, RunsFollowStarts, PidInv, LifeInv, ExitInv, StopInv, [Next]_vars
  PROVE  StopInv'
<1> SUFFICES ASSUME NEW k \in Stops
             PROVE  (OutlivesChild(k) /\ OutlivesSupervisor(k))'
  BY DEF StopInv
<1>0. /\ Gone /\ Stopper(k) \in Stoppers /\ Stopper(k) \in Actors
      /\ \A j \in Stops : /\ Stopper(j) \in Stoppers /\ Stopper(j) \in Actors
                          /\ Stopper(j) = Stopper(k) => j = k
  BY EndNext, ActorsOfRequests
<1>1. CASE Untouched(Stopper(k))
  BY <1>0, <1>1, StopUntouched
<1>2. ASSUME NEW s \in Starts,
             StarterSteps(s) \/ StartRefused(s) \/ StartBegins(s) \/ RunSteps(s)
      PROVE  Untouched(Stopper(k))
  BY <1>0, <1>2, UntouchedByStarter, UntouchedByRun
<1>3. CASE Environment
  BY <1>0, <1>1, <1>3, UntouchedByEnvironment
<1>4. ASSUME NEW j \in Stops, j # k, StopperSteps(j) PROVE Untouched(Stopper(k))
  BY <1>0, <1>4, UntouchedByMark, UntouchedByTerminate DEF StopperSteps, Terminate
<1>5. ASSUME NEW j \in Stops, j # k, StopRefused(j) \/ StopBegins(j)
      PROVE  Untouched(Stopper(k))
  BY <1>0, <1>5, StopBeginning
<1>6. CASE StopperSteps(k)
  BY <1>0, <1>6, StopTerminates
<1>7. CASE StopRefused(k) \/ StopBegins(k)
  BY <1>7, StopBeginning
<1>8. CASE UNCHANGED vars
  BY <1>1, <1>8 DEF Untouched, vars
<1> QED
  BY <1>1, <1>2, <1>3, <1>4, <1>5, <1>6, <1>7, <1>8 DEF Next, Requests, Settled

\* A stop that comes to mark its session has outlived every process of the record
\* it loaded, whoever dies, is killed or is born meanwhile.
THEOREM StopsOutlive == Spec => []StopOutlivesProcesses
<1>1. Init => StopInv
  BY ActorsOfRequests DEF Init, StopInv, OutlivesChild, OutlivesSupervisor
<1>2. IInv /\ PidInv /\ LifeInv /\ ExitInv /\ StopInv /\ [Next]_vars => StopInv'
  BY StopInductive DEF IInv
<1>3. IInv /\ PidInv /\ [Next]_vars => PidInv'
  BY PidInductive
<1>4. StopInv => StopOutlivesProcesses
  BY DEF StopInv, OutlivesChild, OutlivesSupervisor, StopOutlivesProcesses
<1> QED
  BY <1>1, <1>2, <1>3, <1>4, PidInit, ExitInvariant, IInvInvariant, PTL DEF Spec
=============================================================================
