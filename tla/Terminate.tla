----------------------------- MODULE Terminate -----------------------------
(***************************************************************************)
(* Ending one recorded process: pid_is_ours, terminate_pid and             *)
(* signal_pid_and_group, step by step, against a kernel that gives the     *)
(* number of a process away again once nothing uses it.                    *)
(*                                                                         *)
(* The record names a pid and, unless it is an old one or the platform has *)
(* none, a start-time token.  "child" is the process they were recorded    *)
(* of, the leader of a process group of that number; "member" is a process *)
(* that it has started in that group, or starts while it is being ended;   *)
(* "stranger" is an unrelated process that may be given the number later.  *)
(***************************************************************************)
EXTENDS Naturals

Procs == {"child", "member", "stranger"}

VARIABLES
  token,     \* whether the record has a start-time token
  proc,      \* where each process is in its life
  ignores,   \* the processes that ignore SIGTERM
  foreign,   \* whether the stranger is another user's
  leads,     \* whether the stranger leads a group of its own number
  pending,   \* the last signal each process was sent and has not answered
  pc,        \* where the caller is
  sent,      \* the signals of which signal_pid_and_group has said that they
             \* were sent
  denied,    \* whether kill was refused (EPERM) since the present signal began
  harmed,    \* history: the processes that were sent a signal
  early,     \* history: the stranger had the pid when it was taken for ours
             \* or not
  late       \* history: the member was started after the group got SIGTERM

procVars   == <<token, proc, ignores, foreign, leads, late>>
callerVars == <<pc, sent, denied>>
vars == <<procVars, pending, callerVars, harmed, early>>

-----------------------------------------------------------------------------
(* The kernel *)

Exists(p) == proc[p] \in {"alive", "zombie"}

\* The process that has the number, and those in the group of that number.
Holder == {p \in {"child", "stranger"} : Exists(p)}
Group == {p \in {"child", "member"} : Exists(p)}
           \cup {p \in {"stranger"} : Exists(p) /\ leads}

Dies(p) == IF p = "member" THEN "gone" ELSE "zombie"

\* Where the caller has not signalled the group yet.
Before == {"probe", "token", "TERM group", "not ours"}

\* A process that was not sent SIGKILL may start others, in its group.
Fork ==
  /\ proc["member"] = "none"
  /\ proc["child"] = "alive" /\ pending["child"] # "KILL"
  /\ proc' = [proc EXCEPT !["member"] = "alive"]
  /\ late' = (pc \notin Before)
  /\ UNCHANGED <<token, ignores, foreign, leads, pending, callerVars, harmed, early>>

\* By itself, or of a signal.
Exit(p) ==
  /\ proc[p] = "alive"
  /\ proc' = [proc EXCEPT ![p] = Dies(p)]
  /\ UNCHANGED <<token, ignores, foreign, leads, late, pending, callerVars, harmed,
                 early>>

\* A zombie keeps its number until its parent has waited for it.
Reap(p) ==
  /\ proc[p] = "zombie"
  /\ proc' = [proc EXCEPT ![p] = "gone"]
  /\ UNCHANGED <<token, ignores, foreign, leads, late, pending, callerVars, harmed,
                 early>>

\* The number of a group that has members is in use as well.
Recycle ==
  /\ proc["stranger"] = "none" /\ Holder = {} /\ Group = {}
  /\ proc' = [proc EXCEPT !["stranger"] = "alive"]
  /\ foreign' \in BOOLEAN /\ leads' \in BOOLEAN
  /\ UNCHANGED <<token, ignores, late, pending, callerVars, harmed, early>>

Takes(p, signal) == signal = "KILL" \/ p \notin ignores

\* Sooner or later a signal ends the process it was sent to.
SignalEnds(p) ==
  /\ pending[p] # "none" /\ proc[p] = "alive" /\ Takes(p, pending[p])
  /\ proc' = [proc EXCEPT ![p] = Dies(p)]
  /\ pending' = [pending EXCEPT ![p] = "none"]
  /\ UNCHANGED <<token, ignores, foreign, leads, late, callerVars, harmed, early>>

\* kill(2) of some processes: it succeeds if one of them may be signalled.
Allowed(targets) == {p \in targets : p = "stranger" => ~foreign}

-----------------------------------------------------------------------------
(* pid_is_ours *)

\* kill(pid, 0); EPERM means that somebody has the number.
Alive == Holder # {}

Probe ==
  /\ pc = "probe"
  /\ pc' = IF Alive THEN "token" ELSE "not ours"
  /\ UNCHANGED <<procVars, pending, sent, denied, harmed, early>>

\* Mutant: a process that is alive is taken for ours, token or not.
ReadNoToken ==
  /\ pc = "token" /\ token
  /\ early' = ("stranger" \in Holder)
  /\ pc' = "TERM group"
  /\ UNCHANGED <<procVars, pending, sent, denied, harmed>>

\* process_start_time: nothing to read if the process has gone.
ReadToken ==
  /\ pc = "token" /\ token
  /\ early' = ("stranger" \in Holder)
  /\ pc' = IF Holder = {"child"} THEN "TERM group" ELSE "not ours"
  /\ UNCHANGED <<procVars, pending, sent, denied, harmed>>

\* Without a token on record, whoever has the number is taken for ours.
NoToken ==
  /\ pc = "token" /\ ~token
  /\ early' = ("stranger" \in Holder)
  /\ pc' = "TERM group"
  /\ UNCHANGED <<procVars, pending, sent, denied, harmed>>

-----------------------------------------------------------------------------
(* terminate_pid; signal_pid_and_group first signals the group             *)

Signal(signal, targets) ==
  /\ pending' = [p \in Procs |->
                   IF p \in Allowed(targets) THEN signal ELSE pending[p]]
  /\ harmed' = harmed \cup Allowed(targets)

SignalGroup(signal, next) ==
  /\ Signal(signal, Group)
  /\ sent' = IF Allowed(Group) # {} THEN sent \cup {signal} ELSE sent
  /\ denied' = (Group # {} /\ Allowed(Group) = {})
  /\ pc' = next
  /\ UNCHANGED <<procVars, early>>

\* An error if neither was sent and one was refused.
SignalHolder(signal, next) ==
  /\ Signal(signal, Holder)
  /\ sent' = IF Allowed(Holder) # {} THEN sent \cup {signal} ELSE sent
  /\ denied' = (denied \/ (Holder # {} /\ Allowed(Holder) = {}))
  /\ pc' = IF denied' /\ signal \notin sent' THEN "failed" ELSE next
  /\ UNCHANGED <<procVars, early>>

\* Mutant: SIGTERM goes to the process alone.
TermNoGroup ==
  /\ pc = "TERM group"
  /\ pc' = "TERM pid"
  /\ UNCHANGED <<procVars, pending, sent, denied, harmed, early>>

TermGroup == pc = "TERM group" /\ SignalGroup("TERM", "TERM pid")
TermPid == pc = "TERM pid" /\ SignalHolder("TERM", "grace")
KillGroup == pc = "KILL group" /\ SignalGroup("KILL", "KILL pid")
KillPid == pc = "KILL pid" /\ SignalHolder("KILL", "killed")

\* Mutant: a zombie is no longer there.
PollGoneOrZombie ==
  /\ pc \in {"grace", "last wait"}
  /\ \A p \in Holder : proc[p] = "zombie"
  /\ pc' = "ok"
  /\ UNCHANGED <<procVars, pending, sent, denied, harmed, early>>

\* One of the polls finds the number free.
PollGone ==
  /\ pc \in {"grace", "last wait"}
  /\ ~Alive
  /\ pc' = "ok"
  /\ UNCHANGED <<procVars, pending, sent, denied, harmed, early>>

\* Twenty polls have found it in use.
GraceOver ==
  /\ pc = "grace" /\ Alive
  /\ pc' = "KILL group"
  /\ UNCHANGED <<procVars, pending, sent, denied, harmed, early>>

\* Nobody was there for either signal, or the second wait begins.
AfterKill ==
  /\ pc = "killed"
  /\ pc' = IF sent = {} THEN "ok" ELSE "last wait"
  /\ UNCHANGED <<procVars, pending, sent, denied, harmed, early>>

WaitOver ==
  /\ pc = "last wait" /\ Alive
  /\ pc' = "failed"
  /\ UNCHANGED <<procVars, pending, sent, denied, harmed, early>>

-----------------------------------------------------------------------------
Init ==
  /\ token \in BOOLEAN
  /\ proc \in [Procs -> {"none", "alive", "gone"}]
  /\ proc["child"] # "none" /\ proc["stranger"] = "none"
  /\ ignores \in SUBSET Procs
  /\ foreign = FALSE /\ leads = FALSE
  /\ pending = [p \in Procs |-> "none"]
  /\ pc = "probe" /\ sent = {} /\ denied = FALSE
  /\ harmed = {} /\ early = FALSE /\ late = FALSE

Kernel ==
  \/ Fork \/ Recycle
  \/ \E p \in Procs : Exit(p) \/ Reap(p) \/ SignalEnds(p)

Caller ==
  \/ Probe \/ ReadToken \/ NoToken
  \/ TermGroup \/ TermPid \/ KillGroup \/ KillPid
  \/ PollGone \/ GraceOver \/ AfterKill \/ WaitOver

Next == Kernel \/ Caller

Spec == Init /\ [][Next]_vars

-----------------------------------------------------------------------------
(* Properties *)

\* When terminate_pid reports success, the process that was recorded is gone
\* and waited for, whoever has its number now: a stop that marks the session
\* after that leaves no child behind.
OkMeansGone == pc = "ok" => proc["child"] = "gone"

\* After an unclean shutdown the number on record may be anybody's: a process
\* that had it when the token on record was compared is never signalled
\* (session.rs:945).  A record without a token is no such guard.
StaleRecordHarmless == early /\ token => "stranger" \notin harmed

\* terminate_pid ends with its leader, not with the group.  What is left of the
\* group when it reports success: processes with a SIGKILL that is about to end
\* them, or, when the leader went before SIGKILL, those that ignore SIGTERM, are
\* about to act upon it, or were started after it was sent.
GroupSurvivors ==
  pc = "ok" /\ proc["member"] = "alive" =>
    \/ pending["member"] = "KILL"
    \/ /\ "KILL" \notin sent
       /\ "member" \in ignores \/ pending["member"] = "TERM" \/ late

-----------------------------------------------------------------------------
(* What the documentation says and the runs refute *)

\* docs/HOW-IT-WORKS.md:181: stop only signals a process that it can positively
\* identify as ours, never a stranger's: with a token on record it could.
StrangerUnharmed == token => "stranger" \notin harmed

\* docs/HOW-IT-WORKS.md:199: the group gets SIGTERM and then SIGKILL, so that a
\* child's own children are cleaned up too.
GroupCleanedUp ==
  pc = "ok" /\ "member" \in harmed =>
    proc["member"] = "gone" \/ pending["member"] = "KILL" \/ "member" \notin ignores
=============================================================================
