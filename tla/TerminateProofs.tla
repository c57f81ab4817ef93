---------------------------- MODULE TerminateProofs ----------------------------
(***************************************************************************)
(* Proofs about Terminate: what a reported success says of the process and *)
(* of its group, and that a stale record with a token harms nobody who had *)
(* the number when the token was compared.                                 *)
(***************************************************************************)
EXTENDS Terminate, TLAPS

Phases == {"none", "alive", "zombie", "gone"}

\* Where the caller has signalled the group, and where it has waited as well.
Begun == {"TERM pid", "grace", "KILL group", "KILL pid", "killed", "last wait", "ok",
          "failed"}
Waited == Begun \ {"TERM pid"}

TypesOK ==
  /\ proc \in [Procs -> Phases] /\ proc["child"] # "none"
  /\ pending \in [Procs -> {"none", "TERM", "KILL"}]
  /\ pc \in Begun \cup Before
  /\ foreign \in BOOLEAN /\ denied \in BOOLEAN

\* Whoever has signalled nobody, and was refused by nobody, has met nobody.
Reported ==
  /\ pc \in Waited /\ sent = {} => pc = "failed" \/ proc["child"] = "gone"
  /\ pc = "ok" => proc["child"] = "gone"

\* The number was found to be another's, and left alone.
LeftAlone ==
  /\ pc \in {"probe", "token"} => ~early
  /\ pc \in Before => harmed = {}
  /\ early /\ token => pc = "not ours"

\* A member that was there for SIGTERM has been sent it.
Asked ==
  pc \in Begun /\ proc["member"] = "alive" =>
    pending["member"] \in {"TERM", "KILL"} \/ "member" \in ignores \/ late

\* Once the group has been sent SIGKILL, nobody is left in it who could start
\* another process.
Doomed ==
  /\ "KILL" \in sent => pc \in {"KILL pid", "killed", "last wait", "ok", "failed"}
  /\ pc \in {"KILL pid", "killed", "last wait"} \/ "KILL" \in sent =>
       \A p \in {"child", "member"} : proc[p] = "alive" => pending[p] = "KILL"

TermInv == TypesOK /\ Reported /\ LeftAlone /\ Asked /\ Doomed

LEMMA TermAtFirst == Init => TermInv
<1> SUFFICES ASSUME Init PROVE TermInv
  OBVIOUS
<1>1. TypesOK
  <2>1. /\ proc \in [Procs -> {"none", "alive", "gone"}] /\ proc["child"] # "none"
        /\ pending = [p \in Procs |-> "none"] /\ pc = "probe"
        /\ foreign = FALSE /\ denied = FALSE
    BY DEF Init
  <2>2. proc \in [Procs -> Phases]
    BY <2>1 DEF Phases
  <2>3. pending \in [Procs -> {"none", "TERM", "KILL"}]
    BY <2>1
  <2> QED
    BY <2>1, <2>2, <2>3 DEF TypesOK, Before
<1>2. Reported /\ LeftAlone /\ Asked /\ Doomed
  BY DEF Init, Reported, LeftAlone, Asked, Doomed, Procs, Begun, Waited
<1> QED
  BY <1>1, <1>2 DEF TermInv

\* A process that ends stays ended; only a child that may still act starts another.
LEMMA KernelKeeps ==
  ASSUME TermInv, Kernel
  PROVE  TermInv'
<1>0. /\ proc \in [Procs -> Phases] /\ pending \in [Procs -> {"none", "TERM", "KILL"}]
      /\ foreign \in BOOLEAN
  BY DEF TermInv, TypesOK
<1>1. /\ pc' = pc /\ sent' = sent /\ denied' = denied /\ harmed' = harmed
      /\ early' = early /\ token' = token
  BY DEF Kernel, Fork, Recycle, Exit, Reap, SignalEnds, callerVars
<1> DEFINE Ages ==
             /\ proc' \in [Procs -> Phases] /\ foreign' \in BOOLEAN
             /\ pending' \in [Procs -> {"none", "TERM", "KILL"}]
             /\ proc["child"] = "gone" => proc'["child"] = "gone"
             /\ proc'["child"] = "none" => proc["child"] = "none"
           Stays(p) == proc'[p] = "alive" => proc[p] = "alive" /\ pending'[p] = pending[p]
<1>2. Ages /\ Asked' /\ Stays("child") /\ (Fork \/ Stays("member"))
  <2>1. CASE Fork
    <3>1. /\ proc' = [proc EXCEPT !["member"] = "alive"] /\ UNCHANGED <<pending, foreign>>
          /\ late' = (pc \notin Before) /\ pc' = pc
      BY <2>1 DEF Fork, callerVars
    <3>2. Begun \cap Before = {}
      BY DEF Begun, Before
    <3> QED
      BY <1>0, <2>1, <3>1, <3>2 DEF Procs, Phases, Asked
  <2>2. ASSUME ~Fork PROVE Ages /\ Stays("child") /\ Stays("member")
    <3>1. CASE Recycle
      BY <1>0, <3>1 DEF Recycle, Procs, Phases
    <3>2. ASSUME NEW p \in Procs, Exit(p)
          PROVE  Ages /\ Stays("child") /\ Stays("member")
      BY <1>0, <3>2 DEF Exit, Dies, Procs, Phases
    <3>3. ASSUME NEW p \in Procs, Reap(p)
          PROVE  Ages /\ Stays("child") /\ Stays("member")
      BY <1>0, <3>3 DEF Reap, Procs, Phases
    <3>4. ASSUME NEW p \in Procs, SignalEnds(p)
          PROVE  Ages /\ Stays("child") /\ Stays("member")
      BY <1>0, <3>4 DEF SignalEnds, Dies, Procs, Phases
    <3> QED
      BY <2>2, <3>1, <3>2, <3>3, <3>4 DEF Kernel
  <2>3. ASSUME ~Fork PROVE UNCHANGED <<ignores, late>>
    BY <2>3 DEF Kernel, Recycle, Exit, Reap, SignalEnds
  <2>4. ASSUME ~Fork PROVE Asked'
    BY <1>1, <2>2, <2>3, <2>4 DEF TermInv, Asked
  <2> QED
    BY <2>1, <2>2, <2>4
<1>3. TypesOK'
  BY <1>1, <1>2 DEF TermInv, TypesOK
<1>4. Reported'
  BY <1>1, <1>2 DEF TermInv, Reported
<1>5. LeftAlone'
  BY <1>1 DEF TermInv, LeftAlone
<1>6. Doomed'
  <2>0. Doomed
    BY DEF TermInv
  <2>1. CASE Fork
    <3>1. proc["child"] = "alive" /\ pending["child"] # "KILL"
      BY <2>1 DEF Fork
    <3>2. ~(pc \in {"KILL pid", "killed", "last wait"} \/ "KILL" \in sent)
      BY <2>0, <3>1 DEF Doomed
    <3> QED
      BY <1>1, <3>2 DEF Doomed
  <2>2. CASE Stays("child") /\ Stays("member")
    BY <1>1, <2>0, <2>2 DEF Doomed
  <2> QED
    BY <1>2, <2>1, <2>2
<1> QED
  BY <1>2, <1>3, <1>4, <1>5, <1>6 DEF TermInv

\* What a step of the caller leaves to the kernel.
LEMMA CallerLeaves ==
  Caller => /\ proc' = proc /\ foreign' = foreign
            /\ token' = token /\ ignores' = ignores /\ late' = late
            /\ \A p : Exists(p)' = Exists(p)
BY DEF Caller, Probe, ReadToken, NoToken, TermGroup, TermPid, KillGroup, KillPid, SignalGroup,
       SignalHolder, PollGone, GraceOver, AfterKill, WaitOver, procVars, Exists

\* The steps of the caller that signal nobody.
Quiet == Probe \/ ReadToken \/ NoToken \/ PollGone \/ GraceOver \/ AfterKill \/ WaitOver

LEMMA QuietKeeps ==
  ASSUME TermInv, Quiet
  PROVE  TermInv'
<1>1. /\ proc' = proc /\ foreign' = foreign /\ \A p : Exists(p)' = Exists(p)
      /\ token' = token /\ ignores' = ignores /\ late' = late
  BY CallerLeaves DEF Quiet, Caller
<1>2. pending' = pending /\ harmed' = harmed /\ sent' = sent /\ denied' = denied
  BY DEF Quiet, Probe, ReadToken, NoToken, PollGone, GraceOver, AfterKill, WaitOver
<1>3. ~Alive => proc["child"] = "gone"
  BY DEF Alive, Holder, Exists, TermInv, TypesOK, Procs, Phases
<1>4. TypesOK'
  BY <1>1, <1>2 DEF TermInv, TypesOK, Begun, Before, Quiet, Probe, ReadToken,
                    NoToken, PollGone, GraceOver, AfterKill, WaitOver
<1>5. Reported'
  <2>0. /\ pc \in Waited /\ sent = {} => pc = "failed" \/ proc["child"] = "gone"
        /\ proc'["child"] = proc["child"]
    BY <1>1 DEF TermInv, Reported
  <2>1. CASE Probe \/ ReadToken \/ NoToken
    BY <2>1 DEF Probe, ReadToken, NoToken, Reported, Begun, Waited
  <2>2. CASE PollGone
    BY <1>3, <2>0, <2>2 DEF PollGone, Reported
  <2>3. CASE GraceOver \/ AfterKill \/ WaitOver
    BY <1>2, <2>0, <2>3 DEF GraceOver, AfterKill, WaitOver, Reported, Begun, Waited
  <2> QED
    BY <2>1, <2>2, <2>3 DEF Quiet
<1>6. LeftAlone'
  <2>0. LeftAlone
    BY DEF TermInv
  <2>1. CASE ReadToken
    <3>1. Holder = {"child"} => "stranger" \notin Holder
      OBVIOUS
    <3>2. pc = "token" /\ early' = ("stranger" \in Holder)
      BY <2>1 DEF ReadToken
    <3>3. /\ Holder = {"child"} => pc' = "TERM group"
          /\ Holder # {"child"} => pc' = "not ours"
      BY <2>1 DEF ReadToken
    <3> QED
      BY <1>2, <2>0, <3>1, <3>2, <3>3 DEF LeftAlone, Before
  <2>2. CASE Probe
    BY <1>2, <2>0, <2>2 DEF Probe, LeftAlone, Before
  <2>3. CASE NoToken
    <3>1. pc = "token" /\ pc' = "TERM group" /\ ~token
      BY <2>3 DEF NoToken
    <3>2. harmed' = {} /\ ~token'
      BY <1>1, <1>2, <2>0, <3>1 DEF LeftAlone, Before
    <3> QED
      BY <3>1, <3>2 DEF LeftAlone
  <2>4. CASE PollGone \/ GraceOver \/ AfterKill \/ WaitOver
    <3>1. pc # "not ours" /\ pc' \in {"ok", "KILL group", "last wait", "failed"}
      BY <2>4 DEF PollGone, GraceOver, AfterKill, WaitOver
    <3>2. early' = early
      BY <2>4 DEF PollGone, GraceOver, AfterKill, WaitOver
    <3>3. ~(early /\ token)
      BY <2>0, <3>1 DEF LeftAlone
    <3> QED
      BY <1>1, <3>1, <3>2, <3>3 DEF LeftAlone, Before
  <2> QED
    BY <2>1, <2>2, <2>3, <2>4 DEF Quiet
<1>7. Asked'
  BY <1>1, <1>2 DEF TermInv, Asked, Begun, Quiet, Probe, ReadToken, NoToken,
                    PollGone, GraceOver, AfterKill, WaitOver
<1>8. Doomed'
  BY <1>1, <1>2 DEF TermInv, Doomed, Quiet, Probe, ReadToken, NoToken, PollGone,
                    GraceOver, AfterKill, WaitOver
<1> QED
  BY <1>4, <1>5, <1>6, <1>7, <1>8 DEF TermInv

\* The signal for the group reaches all that is left of the session.
LEMMA GroupKeeps ==
  ASSUME TermInv, TermGroup \/ KillGroup
  PROVE  TermInv'
<1>1. /\ proc' = proc /\ foreign' = foreign /\ \A p : Exists(p)' = Exists(p)
      /\ token' = token /\ ignores' = ignores /\ late' = late
  BY CallerLeaves DEF Caller
<1>2. /\ early' = early /\ denied' \in BOOLEAN
      /\ (sent' = {} => sent = {})
      /\ harmed' = harmed \cup Allowed(Group)
  BY DEF TermGroup, KillGroup, SignalGroup, Signal
<1>3. \A p \in {"child", "member"} : Exists(p) => p \in Allowed(Group)
  BY DEF Group, Allowed
<1>4. /\ pending' \in [Procs -> {"none", "TERM", "KILL"}]
      /\ \A p \in Procs : pending'[p] = "KILL" => pending[p] = "KILL" \/ p \in Allowed(Group)
  BY DEF TermGroup, KillGroup, SignalGroup, Signal, TermInv, TypesOK
<1>5. \/ pc = "TERM group" /\ pc' = "TERM pid"
      \/ pc = "KILL group" /\ pc' = "KILL pid"
  BY DEF TermGroup, KillGroup, SignalGroup
<1>6. TypesOK'
  BY <1>1, <1>2, <1>4, <1>5 DEF TermInv, TypesOK, Begun
<1>7. Reported'
  BY <1>1, <1>2, <1>5 DEF TermInv, Reported, Begun, Waited
<1>8. LeftAlone'
  BY <1>1, <1>2, <1>5 DEF TermInv, LeftAlone, Before
<1>9. Asked'
  <2>1. ASSUME proc["member"] = "alive" PROVE pending'["member"] \in {"TERM", "KILL"}
    BY <1>3, <2>1
    DEF TermGroup, KillGroup, SignalGroup, Signal, Exists, Procs
  <2> QED
    BY <1>1, <2>1 DEF Asked
<1>10. Doomed'
  <2>0. Doomed
    BY DEF TermInv
  <2>1. CASE TermGroup
    BY <2>0, <2>1 DEF TermGroup, SignalGroup, Doomed
  <2>2. CASE KillGroup
    <3>1. ASSUME NEW p \in {"child", "member"}, proc[p] = "alive"
          PROVE  pending'[p] = "KILL"
      BY <1>3, <2>2, <3>1 DEF KillGroup, SignalGroup, Signal, Exists, Procs
    <3> QED
      BY <1>1, <2>2, <3>1 DEF KillGroup, SignalGroup, Doomed
  <2> QED
    BY <2>1, <2>2
<1> QED
  BY <1>6, <1>7, <1>8, <1>9, <1>10 DEF TermInv

\* ... and that for the number whoever has it.
LEMMA HolderKeeps ==
  ASSUME TermInv, TermPid \/ KillPid
  PROVE  TermInv'
<1>1. /\ proc' = proc /\ foreign' = foreign /\ \A p : Exists(p)' = Exists(p)
      /\ token' = token /\ ignores' = ignores /\ late' = late
  BY CallerLeaves DEF Caller
<1>2. /\ early' = early /\ denied' \in BOOLEAN
      /\ (sent' = {} => sent = {} /\ Allowed(Holder) = {})
      /\ harmed' = harmed \cup Allowed(Holder)
  BY DEF TermPid, KillPid, SignalHolder, Signal, TermInv, TypesOK
<1>3. /\ pending' \in [Procs -> {"none", "TERM", "KILL"}]
      /\ \A p \in Procs : pending'[p] = "KILL" => pending[p] = "KILL" \/ p \in Allowed(Holder)
  BY DEF TermPid, KillPid, SignalHolder, Signal, TermInv, TypesOK
<1>4. \/ pc = "TERM pid" /\ pc' \in {"grace", "failed"}
      \/ pc = "KILL pid" /\ pc' \in {"killed", "failed"}
  BY DEF TermPid, KillPid, SignalHolder
<1>5. Allowed(Holder) = {} => proc["child"] = "gone"
  <2>1. "child" \in Holder => "child" \in Allowed(Holder)
    BY DEF Allowed
  <2>2. Exists("child") => "child" \in Holder
    BY DEF Holder
  <2>3. Exists("child") \/ proc["child"] = "gone"
    BY DEF Exists, TermInv, TypesOK, Procs, Phases
  <2> QED
    BY <2>1, <2>2, <2>3
<1>6. TypesOK'
  BY <1>1, <1>2, <1>3, <1>4 DEF TermInv, TypesOK, Begun
<1>7. Reported'
  <2>1. sent' = {} => proc'["child"] = "gone"
    BY <1>1, <1>2, <1>5
  <2>2. pc' # "ok"
    BY <1>4
  <2> QED
    BY <2>1, <2>2 DEF Reported
<1>8. LeftAlone'
  BY <1>1, <1>2, <1>4 DEF TermInv, LeftAlone, Before
<1>9. Asked'
  <2>1. pending'["member"] = pending["member"]
    BY DEF TermPid, KillPid, SignalHolder, Signal, Holder, Allowed, Procs, TermInv, TypesOK
  <2> QED
    BY <1>1, <1>4, <2>1 DEF TermInv, Asked, Begun
<1>10. Doomed'
  <2>0. Doomed
    BY DEF TermInv
  <2>1. CASE TermPid
    <3>1. pc = "TERM pid" /\ pc' \in {"grace", "failed"} /\ "KILL" \notin sent'
      BY <2>0, <2>1 DEF TermPid, SignalHolder, Doomed
    <3> QED
      BY <3>1 DEF Doomed
  <2>2. CASE KillPid
    <3>1. pc = "KILL pid" /\ pc' \in {"killed", "failed"}
      BY <2>2 DEF KillPid, SignalHolder
    <3>2. \A p \in Procs : pending[p] = "KILL" => pending'[p] = "KILL"
      BY <2>2 DEF KillPid, SignalHolder, Signal, TermInv, TypesOK
    <3> QED
      BY <1>1, <2>0, <3>1, <3>2 DEF Doomed, Procs
  <2> QED
    BY <2>1, <2>2
<1> QED
  BY <1>6, <1>7, <1>8, <1>9, <1>10 DEF TermInv

LEMMA TermKept == TermInv /\ [Next]_vars => TermInv'
<1> SUFFICES ASSUME TermInv, [Next]_vars PROVE TermInv'
  OBVIOUS
<1>1. CASE Kernel
  BY <1>1, KernelKeeps
<1>2. CASE Caller
  BY <1>2, QuietKeeps, GroupKeeps, HolderKeeps DEF Caller, Quiet
<1>3. CASE UNCHANGED vars
  BY <1>3 DEF vars, procVars, callerVars, TermInv, TypesOK, Reported, LeftAlone, Asked,
              Doomed
<1> QED
  BY <1>1, <1>2, <1>3 DEF Next

LEMMA TermAlways == Spec => []TermInv
BY TermAtFirst, TermKept, PTL DEF Spec

\* When terminate_pid reports success, the process that was recorded is gone and
\* waited for, whatever the signals came upon and whoever has its number now.
THEOREM SuccessMeansGone == Spec => []OkMeansGone
<1>1. TermInv => OkMeansGone
  BY DEF TermInv, Reported, OkMeansGone
<1> QED
  BY <1>1, TermAlways, PTL

\* The token on record stands between a stale record and whoever had its number when
\* pid_is_ours compared it.
THEOREM StaleRecordsHarmNobody == Spec => []StaleRecordHarmless
<1>1. TermInv => StaleRecordHarmless
  BY DEF TermInv, LeftAlone, StaleRecordHarmless, Before
<1> QED
  BY <1>1, TermAlways, PTL

\* terminate_pid's success is about the leader: what is left of its group has a
\* SIGKILL pending, or the leader went before SIGKILL and left those that ignore
\* SIGTERM, have yet to act upon it or came after it.
THEOREM SurvivorsOfTheGroup == Spec => []GroupSurvivors
<1>1. TermInv => GroupSurvivors
  <2> SUFFICES ASSUME TermInv, pc = "ok", proc["member"] = "alive",
                      pending["member"] # "KILL"
               PROVE  /\ "KILL" \notin sent
                      /\ "member" \in ignores \/ pending["member"] = "TERM" \/ late
    BY DEF GroupSurvivors
  <2>1. "KILL" \notin sent
    BY DEF TermInv, Doomed
  <2>2. pc \in Begun
    BY DEF Begun
  <2> QED
    BY <2>1, <2>2 DEF TermInv, Asked
<1> QED
  BY <1>1, TermAlways, PTL
=============================================================================
