---------------------------- MODULE DaemonProofs ----------------------------
(***************************************************************************)
(* Proofs about Daemon: the socket is that of the one daemon that serves,  *)
(* for clients there is at most one server, and what an acknowledged       *)
(* shutdown had on record is stopped when the daemon leaves.               *)
(***************************************************************************)
EXTENDS Daemon, TLAPS

\* Who handles a request, and where a handler can be.
HandlersServed ==
  /\ \A c \in Clients : client[c] \in {"idle", "again"} =>
       at[c] = "none" /\ server[c] = None
  /\ \A c \in Clients : at[c] \notin {"none", "done", "exit"} /\ server[c] # Self =>
       Serving(server[c])
  /\ \A c \in Shutdowns : at[c] = "exit" =>
       server[c] \in Daemons /\ daemon[server[c]] \in {"serve", "gone"}
  /\ \A c \in Shutdowns : server[c] # Self /\ at[c] \notin {"init", "wait"}
  /\ \A s \in Starts : at[s] \in {"none", "queued", "init", "wait", "done"}

SocketInv == TypeOK /\ HandlersServed /\ ServingIsReached /\ LeavesNoSocket

\* What is known of a session whose pid is on record.
RunsInOrder ==
  /\ \A s \in Starts : run[s] = "none" => ~pid[s] /\ status[s] = "none"
  /\ \A s \in Starts : at[s] \in {"none", "queued", "init"} => run[s] = "none"
  /\ \A s \in Starts : pid[s] => run[s] # "spawn" /\ child[s] # "none"
  /\ \A s \in Starts : run[s] \notin {"none", "spawn", "done"} => child[s] # "none"

Down(s) == status[s] = "stopped" /\ child[s] = "ended"

\* A session that a shutdown owes a stop is down, or recorded and not being
\* marked as stopped before its child has ended.
Owed(s) ==
  /\ pid[s]
  /\ \/ Down(s)
     \/ /\ status[s] \in {"starting", "running"}
        /\ \A c \in Shutdowns : at[c] = "mark" /\ aim[c] = s => child[s] = "ended"

Halting(c) == at[c] \in {"list", "stop", "mark", "exit"}
DueInv ==
  \A c \in Shutdowns :
    /\ Halting(c) => \A s \in due[c] \ resisted : Owed(s)
    /\ at[c] \in {"stop", "mark"} => \A s \in due[c] \ resisted : s \in todo[c] \/ Down(s)
    /\ at[c] = "exit" => \A s \in due[c] \ resisted : Down(s)
    /\ at[c] = "stop" => \A s \in todo[c] : status[s] # "none"
    /\ at[c] = "mark" => \A s \in todo[c] \cup {aim[c]} : status[s] # "none"

StopInv == TypeOK /\ HandlersServed /\ RunsInOrder /\ DueInv

-----------------------------------------------------------------------------
LEMMA TypeInit == Init => TypeOK
BY DaemonAssumption DEF Init, TypeOK, Clients

\* The end of a process leaves everything typed.
LEMMA EndsTyped ==
  ASSUME TypeOK, NEW d \in Daemons, daemon[d] \notin {"idle", "gone"}, Ends(d), sock' = sock
  PROVE  TypeOK'
<1> USE DaemonAssumption DEF daemonVars, requestVars, sessionVars, haltVars
<1>1. lock = d /\ lock' = None /\ daemon' = [daemon EXCEPT ![d] = "gone"]
  BY DEF TypeOK, Ends, Move
<1>2. lock' \in Daemons \cup {None} /\ daemon' \in [Daemons -> {"idle", "look", "unlink", "bind", "serve", "gone"}]
      /\ \A e \in Daemons : daemon'[e] \notin {"idle", "gone"} <=> lock' = e
  BY <1>1 DEF TypeOK
<1>3. /\ at' \in [Clients -> {"none", "queued", "init", "wait", "ack", "list", "stop",
                             "mark", "exit", "done"}]
      /\ \A c \in Shutdowns : at'[c] = "mark" => at[c] = "mark"
  BY DEF TypeOK, Ends, Clients
<1>4. client' \in [Clients -> {"idle", "again", "sent", "direct", "answered", "failed"}]
  BY DEF TypeOK, Ends
<1>5. run' \in [Starts -> {"none", "spawn", "record", "promote", "wait", "done"}]
  BY DEF TypeOK, Ends
<1>6. child' \in [Starts -> {"none", "alive", "ended"}]
  BY DEF TypeOK, Ends
<1>7. UNCHANGED <<server, status, pid, todo, aim, due, resisted>>
  BY DEF Ends
<1> QED
  BY <1>2, <1>3, <1>4, <1>5, <1>6, <1>7 DEF TypeOK

LEMMA TypeStep == TypeOK /\ [Next]_vars => TypeOK'
<1> SUFFICES ASSUME TypeOK, [Next]_vars PROVE TypeOK'
  OBVIOUS
<1> USE DaemonAssumption DEF daemonVars, requestVars, sessionVars, haltVars, Clients
<1>1. ASSUME NEW d \in Daemons, TakeLock(d) PROVE TypeOK'
  BY <1>1 DEF TakeLock, Move, Handle, Tell, Serving, Supervisor, Recorded, TypeOK
<1>2. ASSUME NEW d \in Daemons, LookAtSocket(d) PROVE TypeOK'
  BY <1>2 DEF LookAtSocket, Move, Handle, Tell, Serving, Supervisor, Recorded, TypeOK
<1>3. ASSUME NEW d \in Daemons, RemoveStale(d) PROVE TypeOK'
  BY <1>3 DEF RemoveStale, Move, Handle, Tell, Serving, Supervisor, Recorded, TypeOK
<1>4. ASSUME NEW d \in Daemons, Bind(d) PROVE TypeOK'
  BY <1>4 DEF Bind, Move, Handle, Tell, Serving, Supervisor, Recorded, TypeOK
<1>5. ASSUME NEW d \in Daemons, DaemonDies(d) PROVE TypeOK'
  BY <1>5, EndsTyped DEF DaemonDies
<1>6. ASSUME NEW c \in Clients, Connect(c) PROVE TypeOK'
  BY <1>6 DEF Connect, Move, Handle, Tell, Serving, Supervisor, Recorded, TypeOK
<1>7. ASSUME NEW c \in Clients, StartDirect(c) PROVE TypeOK'
  BY <1>7 DEF StartDirect, Move, Handle, Tell, Serving, Supervisor, Recorded, TypeOK
<1>8. ASSUME NEW c \in Clients, FindNoDaemon(c) PROVE TypeOK'
  BY <1>8 DEF FindNoDaemon, Move, Handle, Tell, Serving, Supervisor, Recorded, TypeOK
<1>9. ASSUME NEW c \in Clients, ClientGoes(c) PROVE TypeOK'
  BY <1>9 DEF ClientGoes, Move, Handle, Tell, Serving, Supervisor, Recorded, TypeOK
<1>10. ASSUME NEW c \in Clients, ReadRequest(c) PROVE TypeOK'
  BY <1>10 DEF ReadRequest, Move, Handle, Tell, Serving, Supervisor, Recorded, TypeOK
<1>11. ASSUME NEW s \in Starts, InitializeSession(s) PROVE TypeOK'
  BY <1>11 DEF InitializeSession, Move, Handle, Tell, Serving, Supervisor, Recorded,
     TypeOK
<1>12. ASSUME NEW s \in Starts, StartFails(s) PROVE TypeOK'
  BY <1>12 DEF StartFails, Move, Handle, Tell, Serving, Supervisor, Recorded, TypeOK
<1>13. ASSUME NEW s \in Starts, StartAnswered(s) PROVE TypeOK'
  BY <1>13 DEF StartAnswered, Move, Handle, Tell, Serving, Supervisor, Recorded, TypeOK
<1>14. ASSUME NEW s \in Starts, RunSpawns(s) PROVE TypeOK'
  BY <1>14 DEF RunSpawns, Move, Handle, Tell, Serving, Supervisor, Recorded, TypeOK
<1>15. ASSUME NEW s \in Starts, RunRecords(s) PROVE TypeOK'
  BY <1>15 DEF RunRecords, Move, Handle, Tell, Serving, Supervisor, Recorded, TypeOK
<1>16. ASSUME NEW s \in Starts, RunPromotes(s) PROVE TypeOK'
  BY <1>16 DEF RunPromotes, Move, Handle, Tell, Serving, Supervisor, Recorded, TypeOK
<1>17. ASSUME NEW s \in Starts, RunAborts(s) PROVE TypeOK'
  BY <1>17 DEF RunAborts, Move, Handle, Tell, Serving, Supervisor, Recorded, TypeOK
<1>18. ASSUME NEW s \in Starts, RunEnds(s) PROVE TypeOK'
  BY <1>18 DEF RunEnds, Move, Handle, Tell, Serving, Supervisor, Recorded, TypeOK
<1>19. ASSUME NEW s \in Starts, ChildExits(s) PROVE TypeOK'
  BY <1>19 DEF ChildExits, Move, Handle, Tell, Serving, Supervisor, Recorded, TypeOK
<1>20. ASSUME NEW c \in Shutdowns, Acknowledge(c) PROVE TypeOK'
  BY <1>20 DEF Acknowledge, Move, Handle, Tell, Serving, Supervisor, Recorded, TypeOK
<1>21. ASSUME NEW c \in Shutdowns, ListSessions(c) PROVE TypeOK'
  BY <1>21 DEF ListSessions, Move, Handle, Tell, Serving, Supervisor, Recorded, TypeOK
<1>22. ASSUME NEW c \in Shutdowns, TerminateSession(c) PROVE TypeOK'
  BY <1>22 DEF TerminateSession, Move, Handle, Tell, Serving, Supervisor, Recorded, TypeOK
<1>23. ASSUME NEW c \in Shutdowns, MarkStopped(c) PROVE TypeOK'
  BY <1>23 DEF MarkStopped, Move, Handle, Tell, Serving, Supervisor, Recorded, TypeOK
<1>24. ASSUME NEW c \in Shutdowns, AlreadyStopped(c) PROVE TypeOK'
  BY <1>24 DEF AlreadyStopped, Move, Handle, Tell, Serving, Supervisor, Recorded, TypeOK
<1>25. ASSUME NEW c \in Shutdowns, SessionResists(c) PROVE TypeOK'
  BY <1>25 DEF SessionResists, Move, Handle, Tell, Serving, Supervisor, Recorded, TypeOK
<1>26. ASSUME NEW c \in Shutdowns, RemoveSocket(c) PROVE TypeOK'
  BY <1>26 DEF RemoveSocket, Move, Handle, Tell, Serving, Supervisor, Recorded, TypeOK
<1>27. ASSUME NEW c \in Shutdowns, Exit(c) PROVE TypeOK'
  BY <1>27, EndsTyped DEF Exit, Serving
<1>28. CASE UNCHANGED vars
  BY <1>28 DEF vars, TypeOK
<1> QED
  BY <1>1, <1>2, <1>3, <1>4, <1>5, <1>6, <1>7, <1>8, <1>9, <1>10, <1>11, <1>12, <1>13,
     <1>14, <1>15, <1>16, <1>17, <1>18, <1>19, <1>20, <1>21, <1>22, <1>23, <1>24, <1>25,
     <1>26, <1>27, <1>28
     DEF Next, DaemonStarts, ClientSteps, StartSteps, RunSteps, ShutdownSteps

LEMMA EndsHandlers ==
  ASSUME TypeOK, HandlersServed, NEW d \in Daemons, daemon[d] \notin {"idle", "gone"},
         Ends(d)
  PROVE  HandlersServed'
<1> USE DaemonAssumption DEF Clients
<1>1. /\ daemon'[d] = "gone" /\ UNCHANGED server
      /\ \A e \in Daemons \ {d} : daemon'[e] = daemon[e]
  BY DEF Ends, Move, TypeOK
<1>2. \A c \in Clients : IF server[c] = d /\ at[c] # "exit" THEN at'[c] = "done"
                         ELSE at'[c] = at[c]
  BY DEF Ends
<1>3. \A c \in Clients : client'[c] \in {"idle", "again"} =>
        client'[c] = client[c]
  BY DEF Ends
<1> QED
  BY <1>1, <1>2, <1>3 DEF HandlersServed, Serving

\* Requests are handled by daemons that serve.
LEMMA HandlersStep ==
  ASSUME TypeOK, HandlersServed, [Next]_vars
  PROVE  HandlersServed'
<1> USE DaemonAssumption DEF daemonVars, requestVars, sessionVars, haltVars, Clients
<1>1. ASSUME NEW d \in Daemons, TakeLock(d) PROVE HandlersServed'
  BY <1>1 DEF TakeLock, Move, Handle, Tell, TypeOK, HandlersServed, Serving
<1>2. ASSUME NEW d \in Daemons, LookAtSocket(d) PROVE HandlersServed'
  BY <1>2 DEF LookAtSocket, Move, Handle, Tell, TypeOK, HandlersServed, Serving
<1>3. ASSUME NEW d \in Daemons, RemoveStale(d) PROVE HandlersServed'
  BY <1>3 DEF RemoveStale, Move, Handle, Tell, TypeOK, HandlersServed, Serving
<1>4. ASSUME NEW d \in Daemons, Bind(d) PROVE HandlersServed'
  BY <1>4 DEF Bind, Move, Handle, Tell, TypeOK, HandlersServed, Serving
<1>5. ASSUME NEW d \in Daemons, DaemonDies(d) PROVE HandlersServed'
  BY <1>5, EndsHandlers DEF DaemonDies
<1>6. ASSUME NEW c \in Clients, Connect(c) PROVE HandlersServed'
  BY <1>6 DEF Connect, Move, Handle, Tell, TypeOK, HandlersServed, Serving
<1>7. ASSUME NEW c \in Clients, StartDirect(c) PROVE HandlersServed'
  BY <1>7 DEF StartDirect, Move, Handle, Tell, TypeOK, HandlersServed, Serving
<1>8. ASSUME NEW c \in Clients, FindNoDaemon(c) PROVE HandlersServed'
  BY <1>8 DEF FindNoDaemon, Move, Handle, Tell, TypeOK, HandlersServed, Serving
<1>9. ASSUME NEW c \in Clients, ClientGoes(c) PROVE HandlersServed'
  BY <1>9 DEF ClientGoes, Move, Handle, Tell, TypeOK, HandlersServed, Serving
<1>10. ASSUME NEW c \in Clients, ReadRequest(c) PROVE HandlersServed'
  BY <1>10 DEF ReadRequest, Move, Handle, Tell, TypeOK, HandlersServed, Serving
<1>11. ASSUME NEW s \in Starts, InitializeSession(s) PROVE HandlersServed'
  BY <1>11 DEF InitializeSession, Move, Handle, Tell, TypeOK, HandlersServed, Serving
<1>12. ASSUME NEW s \in Starts, StartFails(s) PROVE HandlersServed'
  BY <1>12 DEF StartFails, Move, Handle, Tell, TypeOK, HandlersServed, Serving
<1>13. ASSUME NEW s \in Starts, StartAnswered(s) PROVE HandlersServed'
  BY <1>13 DEF StartAnswered, Move, Handle, Tell, TypeOK, HandlersServed, Serving
<1>14. ASSUME NEW s \in Starts, RunSpawns(s) PROVE HandlersServed'
  BY <1>14 DEF RunSpawns, Move, Handle, Tell, TypeOK, HandlersServed, Serving
<1>15. ASSUME NEW s \in Starts, RunRecords(s) PROVE HandlersServed'
  BY <1>15 DEF RunRecords, Move, Handle, Tell, TypeOK, HandlersServed, Serving
<1>16. ASSUME NEW s \in Starts, RunPromotes(s) PROVE HandlersServed'
  BY <1>16 DEF RunPromotes, Move, Handle, Tell, TypeOK, HandlersServed, Serving
<1>17. ASSUME NEW s \in Starts, RunAborts(s) PROVE HandlersServed'
  BY <1>17 DEF RunAborts, Move, Handle, Tell, TypeOK, HandlersServed, Serving
<1>18. ASSUME NEW s \in Starts, RunEnds(s) PROVE HandlersServed'
  BY <1>18 DEF RunEnds, Move, Handle, Tell, TypeOK, HandlersServed, Serving
<1>19. ASSUME NEW s \in Starts, ChildExits(s) PROVE HandlersServed'
  BY <1>19 DEF ChildExits, Move, Handle, Tell, TypeOK, HandlersServed, Serving
<1>20. ASSUME NEW c \in Shutdowns, Acknowledge(c) PROVE HandlersServed'
  BY <1>20 DEF Acknowledge, Move, Handle, Tell, TypeOK, HandlersServed, Serving
<1>21. ASSUME NEW c \in Shutdowns, ListSessions(c) PROVE HandlersServed'
  BY <1>21 DEF ListSessions, Move, Handle, Tell, TypeOK, HandlersServed, Serving
<1>22. ASSUME NEW c \in Shutdowns, TerminateSession(c) PROVE HandlersServed'
  BY <1>22 DEF TerminateSession, Move, Handle, Tell, TypeOK, HandlersServed, Serving
<1>23. ASSUME NEW c \in Shutdowns, MarkStopped(c) PROVE HandlersServed'
  BY <1>23 DEF MarkStopped, Move, Handle, Tell, TypeOK, HandlersServed, Serving
<1>24. ASSUME NEW c \in Shutdowns, AlreadyStopped(c) PROVE HandlersServed'
  BY <1>24 DEF AlreadyStopped, Move, Handle, Tell, TypeOK, HandlersServed, Serving
<1>25. ASSUME NEW c \in Shutdowns, SessionResists(c) PROVE HandlersServed'
  BY <1>25 DEF SessionResists, Move, Handle, Tell, TypeOK, HandlersServed, Serving
<1>26. ASSUME NEW c \in Shutdowns, RemoveSocket(c) PROVE HandlersServed'
  BY <1>26 DEF RemoveSocket, Move, Handle, Tell, TypeOK, HandlersServed, Serving
<1>27. ASSUME NEW c \in Shutdowns, Exit(c) PROVE HandlersServed'
  BY <1>27, EndsHandlers DEF Exit, Serving
<1>28. CASE UNCHANGED vars
  BY <1>28 DEF vars, TypeOK, HandlersServed, Serving
<1> QED
    BY <1>1, <1>2, <1>3, <1>4, <1>5, <1>6, <1>7, <1>8, <1>9, <1>10, <1>11, <1>12,
     <1>13, <1>14, <1>15, <1>16, <1>17, <1>18, <1>19, <1>20, <1>21, <1>22, <1>23,
     <1>24, <1>25, <1>26, <1>27, <1>28
     DEF Next, DaemonStarts, ClientSteps, StartSteps, RunSteps, ShutdownSteps

\* daemon.lock keeps daemons from each other's socket.
LEMMA SocketStep ==
  ASSUME TypeOK, HandlersServed, ServingIsReached, LeavesNoSocket, [Next]_vars
  PROVE  (ServingIsReached /\ LeavesNoSocket)'
<1> USE DaemonAssumption DEF daemonVars, requestVars, sessionVars, haltVars, Clients
<1>1. ASSUME NEW d \in Daemons, TakeLock(d) PROVE (ServingIsReached /\ LeavesNoSocket)'
  BY <1>1 DEF TakeLock, Move, Handle, Tell, TypeOK, HandlersServed, ServingIsReached,
     LeavesNoSocket, Serving, Leaving
<1>2. ASSUME NEW d \in Daemons, LookAtSocket(d) PROVE (ServingIsReached /\ LeavesNoSocket)'
  BY <1>2 DEF LookAtSocket, Move, Handle, Tell, TypeOK, HandlersServed, ServingIsReached,
     LeavesNoSocket, Serving, Leaving
<1>3. ASSUME NEW d \in Daemons, RemoveStale(d) PROVE (ServingIsReached /\ LeavesNoSocket)'
  BY <1>3 DEF RemoveStale, Move, Handle, Tell, TypeOK, HandlersServed, ServingIsReached,
     LeavesNoSocket, Serving, Leaving
<1>4. ASSUME NEW d \in Daemons, Bind(d) PROVE (ServingIsReached /\ LeavesNoSocket)'
  BY <1>4 DEF Bind, Move, Handle, Tell, TypeOK, HandlersServed, ServingIsReached,
     LeavesNoSocket, Serving, Leaving
<1>5. ASSUME NEW d \in Daemons, DaemonDies(d) PROVE (ServingIsReached /\ LeavesNoSocket)'
  BY <1>5 DEF DaemonDies, Ends, Move, Handle, Tell, TypeOK, HandlersServed,
     ServingIsReached, LeavesNoSocket, Serving, Leaving
<1>6. ASSUME NEW c \in Clients, Connect(c) PROVE (ServingIsReached /\ LeavesNoSocket)'
  BY <1>6 DEF Connect, Move, Handle, Tell, TypeOK, HandlersServed, ServingIsReached,
     LeavesNoSocket, Serving, Leaving
<1>7. ASSUME NEW c \in Clients, StartDirect(c) PROVE (ServingIsReached /\ LeavesNoSocket)'
  BY <1>7 DEF StartDirect, Move, Handle, Tell, TypeOK, HandlersServed, ServingIsReached,
     LeavesNoSocket, Serving, Leaving
<1>8. ASSUME NEW c \in Clients, FindNoDaemon(c) PROVE (ServingIsReached /\ LeavesNoSocket)'
  BY <1>8 DEF FindNoDaemon, Move, Handle, Tell, TypeOK, HandlersServed, ServingIsReached,
     LeavesNoSocket, Serving, Leaving
<1>9. ASSUME NEW c \in Clients, ClientGoes(c) PROVE (ServingIsReached /\ LeavesNoSocket)'
  BY <1>9 DEF ClientGoes, Move, Handle, Tell, TypeOK, HandlersServed, ServingIsReached,
     LeavesNoSocket, Serving, Leaving
<1>10. ASSUME NEW c \in Clients, ReadRequest(c) PROVE (ServingIsReached /\ LeavesNoSocket)'
  BY <1>10 DEF ReadRequest, Move, Handle, Tell, TypeOK, HandlersServed, ServingIsReached,
     LeavesNoSocket, Serving, Leaving
<1>11. ASSUME NEW s \in Starts, InitializeSession(s) PROVE (ServingIsReached /\ LeavesNoSocket)'
  BY <1>11 DEF InitializeSession, Move, Handle, Tell, TypeOK, HandlersServed,
     ServingIsReached, LeavesNoSocket, Serving, Leaving
<1>12. ASSUME NEW s \in Starts, StartFails(s) PROVE (ServingIsReached /\ LeavesNoSocket)'
  BY <1>12 DEF StartFails, Move, Handle, Tell, TypeOK, HandlersServed, ServingIsReached,
     LeavesNoSocket, Serving, Leaving
<1>13. ASSUME NEW s \in Starts, StartAnswered(s) PROVE (ServingIsReached /\ LeavesNoSocket)'
  BY <1>13 DEF StartAnswered, Move, Handle, Tell, TypeOK, HandlersServed,
     ServingIsReached, LeavesNoSocket, Serving, Leaving
<1>14. ASSUME NEW s \in Starts, RunSpawns(s) PROVE (ServingIsReached /\ LeavesNoSocket)'
  BY <1>14 DEF RunSpawns, Move, Handle, Tell, TypeOK, HandlersServed, ServingIsReached,
     LeavesNoSocket, Serving, Leaving
<1>15. ASSUME NEW s \in Starts, RunRecords(s) PROVE (ServingIsReached /\ LeavesNoSocket)'
  BY <1>15 DEF RunRecords, Move, Handle, Tell, TypeOK, HandlersServed, ServingIsReached,
     LeavesNoSocket, Serving, Leaving
<1>16. ASSUME NEW s \in Starts, RunPromotes(s) PROVE (ServingIsReached /\ LeavesNoSocket)'
  BY <1>16 DEF RunPromotes, Move, Handle, Tell, TypeOK, HandlersServed, ServingIsReached,
     LeavesNoSocket, Serving, Leaving
<1>17. ASSUME NEW s \in Starts, RunAborts(s) PROVE (ServingIsReached /\ LeavesNoSocket)'
  BY <1>17 DEF RunAborts, Move, Handle, Tell, TypeOK, HandlersServed, ServingIsReached,
     LeavesNoSocket, Serving, Leaving
<1>18. ASSUME NEW s \in Starts, RunEnds(s) PROVE (ServingIsReached /\ LeavesNoSocket)'
  BY <1>18 DEF RunEnds, Move, Handle, Tell, TypeOK, HandlersServed, ServingIsReached,
     LeavesNoSocket, Serving, Leaving
<1>19. ASSUME NEW s \in Starts, ChildExits(s) PROVE (ServingIsReached /\ LeavesNoSocket)'
  BY <1>19 DEF ChildExits, Move, Handle, Tell, TypeOK, HandlersServed, ServingIsReached,
     LeavesNoSocket, Serving, Leaving
<1>20. ASSUME NEW c \in Shutdowns, Acknowledge(c) PROVE (ServingIsReached /\ LeavesNoSocket)'
  BY <1>20 DEF Acknowledge, Move, Handle, Tell, TypeOK, HandlersServed, ServingIsReached,
     LeavesNoSocket, Serving, Leaving
<1>21. ASSUME NEW c \in Shutdowns, ListSessions(c) PROVE (ServingIsReached /\ LeavesNoSocket)'
  BY <1>21 DEF ListSessions, Move, Handle, Tell, TypeOK, HandlersServed, ServingIsReached,
     LeavesNoSocket, Serving, Leaving
<1>22. ASSUME NEW c \in Shutdowns, TerminateSession(c) PROVE (ServingIsReached /\ LeavesNoSocket)'
  BY <1>22 DEF TerminateSession, Move, Handle, Tell, TypeOK, HandlersServed,
     ServingIsReached, LeavesNoSocket, Serving, Leaving
<1>23. ASSUME NEW c \in Shutdowns, MarkStopped(c) PROVE (ServingIsReached /\ LeavesNoSocket)'
  BY <1>23 DEF MarkStopped, Move, Handle, Tell, TypeOK, HandlersServed, ServingIsReached,
     LeavesNoSocket, Serving, Leaving
<1>24. ASSUME NEW c \in Shutdowns, AlreadyStopped(c) PROVE (ServingIsReached /\ LeavesNoSocket)'
  BY <1>24 DEF AlreadyStopped, Move, Handle, Tell, TypeOK, HandlersServed,
     ServingIsReached, LeavesNoSocket, Serving, Leaving
<1>25. ASSUME NEW c \in Shutdowns, SessionResists(c) PROVE (ServingIsReached /\ LeavesNoSocket)'
  BY <1>25 DEF SessionResists, Move, Handle, Tell, TypeOK, HandlersServed,
     ServingIsReached, LeavesNoSocket, Serving, Leaving
<1>26. ASSUME NEW c \in Shutdowns, RemoveSocket(c) PROVE (ServingIsReached /\ LeavesNoSocket)'
  BY <1>26 DEF RemoveSocket, Move, Handle, Tell, TypeOK, HandlersServed, ServingIsReached,
     LeavesNoSocket, Serving, Leaving
<1>27. ASSUME NEW c \in Shutdowns, Exit(c) PROVE (ServingIsReached /\ LeavesNoSocket)'
  BY <1>27 DEF Exit, Ends, Move, Handle, Tell, TypeOK, HandlersServed, ServingIsReached,
     LeavesNoSocket, Serving, Leaving
<1>28. CASE UNCHANGED vars
  BY <1>28 DEF vars, TypeOK, HandlersServed, ServingIsReached, LeavesNoSocket, Serving, Leaving
<1> QED
    BY <1>1, <1>2, <1>3, <1>4, <1>5, <1>6, <1>7, <1>8, <1>9, <1>10, <1>11, <1>12,
     <1>13, <1>14, <1>15, <1>16, <1>17, <1>18, <1>19, <1>20, <1>21, <1>22, <1>23,
     <1>24, <1>25, <1>26, <1>27, <1>28
     DEF Next, DaemonStarts, ClientSteps, StartSteps, RunSteps, ShutdownSteps

LEMMA SocketInitially == Init => SocketInv
BY DaemonAssumption, TypeInit DEF Init, SocketInv, HandlersServed, ServingIsReached,
   LeavesNoSocket,
   Clients, Leaving

LEMMA SocketInvariant == Spec => []SocketInv
<1>1. SocketInv /\ [Next]_vars => SocketInv'
  BY TypeStep, HandlersStep, SocketStep DEF SocketInv
<1> QED
  BY SocketInitially, <1>1, PTL DEF Spec

\* The variables have their types, and daemon.lock is held by the process that
\* is starting, serving or leaving, which so is alone.
THEOREM TypeCorrect == Spec => []TypeOK
<1>1. SocketInv => TypeOK
  BY DEF SocketInv
<1> QED
  BY SocketInvariant, <1>1, PTL

\* run_daemon, handle_daemon_stream: whatever daemons start, leave and die, none
\* unlinks the socket of one that serves, and none that shuts down leaves its own.
THEOREM SocketStays == Spec => []SocketOfServer
<1>1. SocketInv => SocketOfServer
  BY DEF SocketInv, SocketOfServer
<1> QED
  BY SocketInvariant, <1>1, PTL

-----------------------------------------------------------------------------
(* Clients reach one server *)

LEMMA ServerInit == Init => Server!Init
BY DaemonAssumption DEF Init, Server!Init, Reached, Over, Serving, Leaving, Clients

\* A daemon that clients do not reach any more.
LEMMA Leaves ==
  ASSUME SocketInv, NEW d \in Daemons, Over' = Over \cup {d},
         Reached' = IF Reached = d THEN None ELSE Reached
  PROVE  Server!Leave
<1> USE DaemonAssumption
<1>1. Reached \notin Over
  BY DEF Reached, Over, Serving, Leaving, SocketInv, LeavesNoSocket
<1> QED
  BY <1>1 DEF Server!Leave

\* The end of process d.
LEMMA ServerEnds ==
  ASSUME SocketInv, NEW d \in Daemons, daemon[d] \notin {"idle", "gone"}, Ends(d),
         sock' = sock
  PROVE  Server!Leave
<1> USE DaemonAssumption DEF Clients
<1>1. /\ daemon'[d] = "gone" /\ UNCHANGED server
      /\ \A e \in Daemons \ {d} : daemon'[e] = daemon[e]
  BY DEF Ends, Move, SocketInv, TypeOK
<1>2. \A c \in Shutdowns : at'[c] = "exit" <=> at[c] = "exit"
  BY DEF Ends
<1>3. Over' = Over \cup {d}
  BY <1>1, <1>2 DEF Over, Leaving
<1>4. \A e \in Daemons : Serving(e) => e = d
  BY DEF SocketInv, TypeOK, Serving
<1>5. Reached \in {None, d} /\ Reached' = None
  BY <1>1, <1>4 DEF Reached, Serving, SocketInv, TypeOK
<1> QED
  BY <1>3, <1>5, Leaves

\* What every other step is to clients.
LEMMA ServerStep ==
  ASSUME SocketInv, [Next]_vars
  PROVE  [Server!Next]_<<Reached, Over>>
<1> USE DaemonAssumption DEF daemonVars, requestVars, sessionVars, haltVars, Clients
<1>1. ASSUME NEW d \in Daemons, TakeLock(d) PROVE [Server!Next]_<<Reached, Over>>
  <2>1. CASE lock = None
    BY <1>1, <2>1 DEF TakeLock, SocketInv, TypeOK, Reached, Over, Serving, Leaving
  <2>2. CASE lock # None
    <3>1. /\ UNCHANGED <<sock, at, server>> /\ daemon[d] = "idle" /\ daemon'[d] = "gone"
          /\ \A e \in Daemons \ {d} : daemon'[e] = daemon[e]
      BY <1>1, <2>2 DEF TakeLock, SocketInv, TypeOK
    <3>2. Over' = Over \cup {d} /\ Reached' = Reached /\ Reached # d
      BY <3>1 DEF Over, Leaving, Reached, Serving
    <3> QED
      BY <3>2, Leaves DEF Server!Next
  <2> QED
    BY <2>1, <2>2
<1>2. ASSUME NEW d \in Daemons, LookAtSocket(d) PROVE [Server!Next]_<<Reached, Over>>
  BY <1>2 DEF LookAtSocket, Move, Handle, Tell, SocketInv, TypeOK, HandlersServed,
     LeavesNoSocket, Reached, Over, Serving, Leaving
<1>3. ASSUME NEW d \in Daemons, RemoveStale(d) PROVE [Server!Next]_<<Reached, Over>>
  BY <1>3 DEF RemoveStale, Move, Handle, Tell, SocketInv, TypeOK, HandlersServed,
     LeavesNoSocket, Reached, Over, Serving, Leaving
<1>4. ASSUME NEW d \in Daemons, Bind(d) PROVE [Server!Next]_<<Reached, Over>>
  <2>1. \A e \in Daemons : ~Serving(e)
    BY <1>4 DEF Bind, SocketInv, TypeOK, Serving
  <2>2. Reached = None
    BY <2>1 DEF Reached, Serving
  <2>3. CASE sock = None
    <3>1. /\ UNCHANGED <<at, server>> /\ daemon[d] = "bind" /\ daemon'[d] = "serve"
          /\ sock' = d /\ \A e \in Daemons \ {d} : daemon'[e] = daemon[e]
      BY <1>4, <2>3 DEF Bind, Move, SocketInv, TypeOK
    <3>2. Over' = Over /\ d \notin Over
      BY <3>1 DEF Over, Leaving, SocketInv, HandlersServed
    <3>3. Reached' = d
      BY <3>1 DEF Reached, Serving
    <3> QED
      BY <2>2, <3>2, <3>3 DEF Server!Next, Server!Serve
  <2>4. CASE sock # None
    <3>1. /\ UNCHANGED <<sock, at, server>> /\ daemon[d] = "bind" /\ daemon'[d] = "gone"
          /\ \A e \in Daemons \ {d} : daemon'[e] = daemon[e]
      BY <1>4, <2>4 DEF Bind, Move, SocketInv, TypeOK
    <3>2. Over' = Over \cup {d} /\ Reached' = None
      BY <2>1, <3>1 DEF Over, Leaving, Reached, Serving
    <3> QED
      BY <2>2, <3>2, Leaves DEF Server!Next
  <2> QED
    BY <2>3, <2>4
<1>5. ASSUME NEW d \in Daemons, DaemonDies(d) PROVE [Server!Next]_<<Reached, Over>>
  BY <1>5, ServerEnds DEF DaemonDies, Server!Next
<1>6. ASSUME NEW c \in Clients, Connect(c) PROVE [Server!Next]_<<Reached, Over>>
  BY <1>6 DEF Connect, Move, Handle, Tell, SocketInv, TypeOK, HandlersServed, LeavesNoSocket,
     Reached, Over, Serving, Leaving
<1>7. ASSUME NEW c \in Clients, StartDirect(c) PROVE [Server!Next]_<<Reached, Over>>
  BY <1>7 DEF StartDirect, Move, Handle, Tell, SocketInv, TypeOK, HandlersServed,
     LeavesNoSocket, Reached, Over, Serving, Leaving
<1>8. ASSUME NEW c \in Clients, FindNoDaemon(c) PROVE [Server!Next]_<<Reached, Over>>
  BY <1>8 DEF FindNoDaemon, Move, Handle, Tell, SocketInv, TypeOK, HandlersServed,
     LeavesNoSocket, Reached, Over, Serving, Leaving
<1>9. ASSUME NEW c \in Clients, ClientGoes(c) PROVE [Server!Next]_<<Reached, Over>>
  BY <1>9 DEF ClientGoes, Move, Handle, Tell, SocketInv, TypeOK, HandlersServed,
     LeavesNoSocket, Reached, Over, Serving, Leaving
<1>10. ASSUME NEW c \in Clients, ReadRequest(c) PROVE [Server!Next]_<<Reached, Over>>
  BY <1>10 DEF ReadRequest, Move, Handle, Tell, SocketInv, TypeOK, HandlersServed,
     LeavesNoSocket, Reached, Over, Serving, Leaving
<1>11. ASSUME NEW s \in Starts, InitializeSession(s) PROVE [Server!Next]_<<Reached, Over>>
  BY <1>11 DEF InitializeSession, Move, Handle, Tell, SocketInv, TypeOK, HandlersServed,
     LeavesNoSocket, Reached, Over, Serving, Leaving
<1>12. ASSUME NEW s \in Starts, StartFails(s) PROVE [Server!Next]_<<Reached, Over>>
  BY <1>12 DEF StartFails, Move, Handle, Tell, SocketInv, TypeOK, HandlersServed,
     LeavesNoSocket, Reached, Over, Serving, Leaving
<1>13. ASSUME NEW s \in Starts, StartAnswered(s) PROVE [Server!Next]_<<Reached, Over>>
  BY <1>13 DEF StartAnswered, Move, Handle, Tell, SocketInv, TypeOK, HandlersServed,
     LeavesNoSocket, Reached, Over, Serving, Leaving
<1>14. ASSUME NEW s \in Starts, RunSpawns(s) PROVE [Server!Next]_<<Reached, Over>>
  BY <1>14 DEF RunSpawns, Move, Handle, Tell, SocketInv, TypeOK, HandlersServed,
     LeavesNoSocket, Reached, Over, Serving, Leaving
<1>15. ASSUME NEW s \in Starts, RunRecords(s) PROVE [Server!Next]_<<Reached, Over>>
  BY <1>15 DEF RunRecords, Move, Handle, Tell, SocketInv, TypeOK, HandlersServed,
     LeavesNoSocket, Reached, Over, Serving, Leaving
<1>16. ASSUME NEW s \in Starts, RunPromotes(s) PROVE [Server!Next]_<<Reached, Over>>
  BY <1>16 DEF RunPromotes, Move, Handle, Tell, SocketInv, TypeOK, HandlersServed,
     LeavesNoSocket, Reached, Over, Serving, Leaving
<1>17. ASSUME NEW s \in Starts, RunAborts(s) PROVE [Server!Next]_<<Reached, Over>>
  BY <1>17 DEF RunAborts, Move, Handle, Tell, SocketInv, TypeOK, HandlersServed,
     LeavesNoSocket, Reached, Over, Serving, Leaving
<1>18. ASSUME NEW s \in Starts, RunEnds(s) PROVE [Server!Next]_<<Reached, Over>>
  BY <1>18 DEF RunEnds, Move, Handle, Tell, SocketInv, TypeOK, HandlersServed,
     LeavesNoSocket, Reached, Over, Serving, Leaving
<1>19. ASSUME NEW s \in Starts, ChildExits(s) PROVE [Server!Next]_<<Reached, Over>>
  BY <1>19 DEF ChildExits, Move, Handle, Tell, SocketInv, TypeOK, HandlersServed,
     LeavesNoSocket, Reached, Over, Serving, Leaving
<1>20. ASSUME NEW c \in Shutdowns, Acknowledge(c) PROVE [Server!Next]_<<Reached, Over>>
  BY <1>20 DEF Acknowledge, Move, Handle, Tell, SocketInv, TypeOK, HandlersServed,
     LeavesNoSocket, Reached, Over, Serving, Leaving
<1>21. ASSUME NEW c \in Shutdowns, ListSessions(c) PROVE [Server!Next]_<<Reached, Over>>
  BY <1>21 DEF ListSessions, Move, Handle, Tell, SocketInv, TypeOK, HandlersServed,
     LeavesNoSocket, Reached, Over, Serving, Leaving
<1>22. ASSUME NEW c \in Shutdowns, TerminateSession(c) PROVE [Server!Next]_<<Reached, Over>>
  BY <1>22 DEF TerminateSession, Move, Handle, Tell, SocketInv, TypeOK, HandlersServed,
     LeavesNoSocket, Reached, Over, Serving, Leaving
<1>23. ASSUME NEW c \in Shutdowns, MarkStopped(c) PROVE [Server!Next]_<<Reached, Over>>
  BY <1>23 DEF MarkStopped, Move, Handle, Tell, SocketInv, TypeOK, HandlersServed,
     LeavesNoSocket, Reached, Over, Serving, Leaving
<1>24. ASSUME NEW c \in Shutdowns, AlreadyStopped(c) PROVE [Server!Next]_<<Reached, Over>>
  BY <1>24 DEF AlreadyStopped, Move, Handle, Tell, SocketInv, TypeOK, HandlersServed,
     LeavesNoSocket, Reached, Over, Serving, Leaving
<1>25. ASSUME NEW c \in Shutdowns, SessionResists(c) PROVE [Server!Next]_<<Reached, Over>>
  BY <1>25 DEF SessionResists, Move, Handle, Tell, SocketInv, TypeOK, HandlersServed,
     LeavesNoSocket, Reached, Over, Serving, Leaving
<1>26. ASSUME NEW c \in Shutdowns, RemoveSocket(c) PROVE [Server!Next]_<<Reached, Over>>
  <2>1. Serving(server[c]) /\ sock' = None /\ UNCHANGED <<daemon, server>>
    BY <1>26 DEF RemoveSocket, SocketInv, HandlersServed
  <2>2. /\ at'[c] = "exit" /\ at[c] = "stop"
        /\ \A h \in Shutdowns \ {c} : at'[h] = at[h]
    BY <1>26 DEF RemoveSocket, Handle, SocketInv, TypeOK
  <2>3. Over' = Over \cup {server[c]}
    BY <2>1, <2>2 DEF Over, Leaving, Serving
  <2>4. Reached \in {None, server[c]} /\ Reached' = None
    BY <2>1 DEF Reached, Serving, SocketInv, TypeOK
  <2> QED
    BY <2>1, <2>3, <2>4, Leaves DEF Server!Next, Serving
<1>27. ASSUME NEW c \in Shutdowns, Exit(c) PROVE [Server!Next]_<<Reached, Over>>
  BY <1>27, ServerEnds DEF Exit, Serving, Server!Next
<1>28. CASE UNCHANGED vars
  BY <1>28 DEF vars, SocketInv, TypeOK, HandlersServed, LeavesNoSocket, Reached, Over,
     Serving, Leaving
<1> QED
    BY <1>1, <1>2, <1>3, <1>4, <1>5, <1>6, <1>7, <1>8, <1>9, <1>10, <1>11, <1>12,
     <1>13, <1>14, <1>15, <1>16, <1>17, <1>18, <1>19, <1>20, <1>21, <1>22, <1>23,
     <1>24, <1>25, <1>26, <1>27, <1>28
     DEF Next, DaemonStarts, ClientSteps, StartSteps, RunSteps, ShutdownSteps

\* run_daemon, try_send_daemon_request: to clients the daemons are one server
\* that comes and goes, reached from when it serves until it is over.
THEOREM OneServer == Spec => ServerImplemented
<1>1. SocketInv /\ [Next]_vars => [Server!Next]_<<Reached, Over>>
  BY ServerStep
<1> QED
  BY SocketInvariant, ServerInit, <1>1, PTL DEF Spec, ServerImplemented, Server!Spec

-----------------------------------------------------------------------------
(* What shutdowns owe *)

\* A pid on record is that of a child that has been spawned.
LEMMA RunsStep ==
  ASSUME TypeOK, HandlersServed, RunsInOrder, DueInv, [Next]_vars
  PROVE  RunsInOrder'
<1> USE DaemonAssumption DEF daemonVars, requestVars, sessionVars, haltVars, Clients
<1>1. ASSUME NEW d \in Daemons, TakeLock(d) PROVE RunsInOrder'
  BY <1>1 DEF TakeLock, Move, Handle, Tell, TypeOK, HandlersServed, RunsInOrder,
     Serving, Supervisor
<1>2. ASSUME NEW d \in Daemons, LookAtSocket(d) PROVE RunsInOrder'
  BY <1>2 DEF LookAtSocket, Move, Handle, Tell, TypeOK, HandlersServed, RunsInOrder,
     Serving, Supervisor
<1>3. ASSUME NEW d \in Daemons, RemoveStale(d) PROVE RunsInOrder'
  BY <1>3 DEF RemoveStale, Move, Handle, Tell, TypeOK, HandlersServed, RunsInOrder,
     Serving, Supervisor
<1>4. ASSUME NEW d \in Daemons, Bind(d) PROVE RunsInOrder'
  BY <1>4 DEF Bind, Move, Handle, Tell, TypeOK, HandlersServed, RunsInOrder, Serving,
     Supervisor
<1>5. ASSUME NEW d \in Daemons, DaemonDies(d) PROVE RunsInOrder'
  BY <1>5 DEF DaemonDies, Ends, Move, Handle, Tell, TypeOK, HandlersServed, RunsInOrder,
     Serving, Supervisor
<1>6. ASSUME NEW c \in Clients, Connect(c) PROVE RunsInOrder'
  BY <1>6 DEF Connect, Move, Handle, Tell, TypeOK, HandlersServed, RunsInOrder, Serving,
     Supervisor
<1>7. ASSUME NEW c \in Clients, StartDirect(c) PROVE RunsInOrder'
  BY <1>7 DEF StartDirect, Move, Handle, Tell, TypeOK, HandlersServed, RunsInOrder,
     Serving, Supervisor
<1>8. ASSUME NEW c \in Clients, FindNoDaemon(c) PROVE RunsInOrder'
  BY <1>8 DEF FindNoDaemon, Move, Handle, Tell, TypeOK, HandlersServed, RunsInOrder,
     Serving, Supervisor
<1>9. ASSUME NEW c \in Clients, ClientGoes(c) PROVE RunsInOrder'
  BY <1>9 DEF ClientGoes, Move, Handle, Tell, TypeOK, HandlersServed, RunsInOrder,
     Serving, Supervisor
<1>10. ASSUME NEW c \in Clients, ReadRequest(c) PROVE RunsInOrder'
  BY <1>10 DEF ReadRequest, Move, Handle, Tell, TypeOK, HandlersServed, RunsInOrder,
     Serving, Supervisor
<1>11. ASSUME NEW s \in Starts, InitializeSession(s) PROVE RunsInOrder'
  BY <1>11 DEF InitializeSession, Move, Handle, Tell, TypeOK, HandlersServed,
     RunsInOrder, Serving, Supervisor
<1>12. ASSUME NEW s \in Starts, StartFails(s) PROVE RunsInOrder'
  BY <1>12 DEF StartFails, Move, Handle, Tell, TypeOK, HandlersServed, RunsInOrder,
     Serving, Supervisor
<1>13. ASSUME NEW s \in Starts, StartAnswered(s) PROVE RunsInOrder'
  BY <1>13 DEF StartAnswered, Move, Handle, Tell, TypeOK, HandlersServed, RunsInOrder,
     Serving, Supervisor
<1>14. ASSUME NEW s \in Starts, RunSpawns(s) PROVE RunsInOrder'
  BY <1>14 DEF RunSpawns, Move, Handle, Tell, TypeOK, HandlersServed, RunsInOrder,
     Serving, Supervisor
<1>15. ASSUME NEW s \in Starts, RunRecords(s) PROVE RunsInOrder'
  BY <1>15 DEF RunRecords, Move, Handle, Tell, TypeOK, HandlersServed, RunsInOrder,
     Serving, Supervisor
<1>16. ASSUME NEW s \in Starts, RunPromotes(s) PROVE RunsInOrder'
  BY <1>16 DEF RunPromotes, Move, Handle, Tell, TypeOK, HandlersServed, RunsInOrder,
     Serving, Supervisor
<1>17. ASSUME NEW s \in Starts, RunAborts(s) PROVE RunsInOrder'
  BY <1>17 DEF RunAborts, Move, Handle, Tell, TypeOK, HandlersServed, RunsInOrder,
     Serving, Supervisor
<1>18. ASSUME NEW s \in Starts, RunEnds(s) PROVE RunsInOrder'
  BY <1>18 DEF RunEnds, Move, Handle, Tell, TypeOK, HandlersServed, RunsInOrder,
     Serving, Supervisor
<1>19. ASSUME NEW s \in Starts, ChildExits(s) PROVE RunsInOrder'
  BY <1>19 DEF ChildExits, Move, Handle, Tell, TypeOK, HandlersServed, RunsInOrder,
     Serving, Supervisor
<1>20. ASSUME NEW c \in Shutdowns, Acknowledge(c) PROVE RunsInOrder'
  BY <1>20 DEF Acknowledge, Move, Handle, Tell, TypeOK, HandlersServed, RunsInOrder,
     Serving, Supervisor
<1>21. ASSUME NEW c \in Shutdowns, ListSessions(c) PROVE RunsInOrder'
  BY <1>21 DEF ListSessions, Move, Handle, Tell, TypeOK, HandlersServed, RunsInOrder,
     Serving, Supervisor
<1>22. ASSUME NEW c \in Shutdowns, TerminateSession(c) PROVE RunsInOrder'
  BY <1>22 DEF TerminateSession, Move, Handle, Tell, TypeOK, HandlersServed,
     RunsInOrder, Serving, Supervisor
<1>23. ASSUME NEW c \in Shutdowns, MarkStopped(c) PROVE RunsInOrder'
  BY <1>23 DEF DueInv, MarkStopped, Move, Handle, Tell, TypeOK, HandlersServed,
     RunsInOrder, Serving, Supervisor
<1>24. ASSUME NEW c \in Shutdowns, AlreadyStopped(c) PROVE RunsInOrder'
  BY <1>24 DEF AlreadyStopped, Move, Handle, Tell, TypeOK, HandlersServed, RunsInOrder,
     Serving, Supervisor
<1>25. ASSUME NEW c \in Shutdowns, SessionResists(c) PROVE RunsInOrder'
  BY <1>25 DEF SessionResists, Move, Handle, Tell, TypeOK, HandlersServed, RunsInOrder,
     Serving, Supervisor
<1>26. ASSUME NEW c \in Shutdowns, RemoveSocket(c) PROVE RunsInOrder'
  BY <1>26 DEF RemoveSocket, Move, Handle, Tell, TypeOK, HandlersServed, RunsInOrder,
     Serving, Supervisor
<1>27. ASSUME NEW c \in Shutdowns, Exit(c) PROVE RunsInOrder'
  BY <1>27 DEF Exit, Ends, Move, Handle, Tell, TypeOK, HandlersServed, RunsInOrder,
     Serving, Supervisor
<1>28. CASE UNCHANGED vars
  BY <1>28 DEF vars, TypeOK, HandlersServed, RunsInOrder, Serving, Supervisor
<1> QED
    BY <1>1, <1>2, <1>3, <1>4, <1>5, <1>6, <1>7, <1>8, <1>9, <1>10, <1>11, <1>12,
     <1>13, <1>14, <1>15, <1>16, <1>17, <1>18, <1>19, <1>20, <1>21, <1>22, <1>23,
     <1>24, <1>25, <1>26, <1>27, <1>28
     DEF Next, DaemonStarts, ClientSteps, StartSteps, RunSteps, ShutdownSteps

\* A session that is owed a stop stays recorded until it is down.
LEMMA DueStep ==
  ASSUME TypeOK, HandlersServed, RunsInOrder, DueInv, [Next]_vars
  PROVE  DueInv'
<1> USE DaemonAssumption DEF daemonVars, requestVars, sessionVars, haltVars, Clients
<1>1. ASSUME NEW d \in Daemons, TakeLock(d) PROVE DueInv'
  BY <1>1 DEF TakeLock, Move, Handle, Tell, TypeOK, HandlersServed, RunsInOrder, DueInv,
     Owed, Down, Halting, Recorded, Serving, Supervisor
<1>2. ASSUME NEW d \in Daemons, LookAtSocket(d) PROVE DueInv'
  BY <1>2 DEF LookAtSocket, Move, Handle, Tell, TypeOK, HandlersServed, RunsInOrder,
     DueInv, Owed, Down, Halting, Recorded, Serving, Supervisor
<1>3. ASSUME NEW d \in Daemons, RemoveStale(d) PROVE DueInv'
  BY <1>3 DEF RemoveStale, Move, Handle, Tell, TypeOK, HandlersServed, RunsInOrder,
     DueInv, Owed, Down, Halting, Recorded, Serving, Supervisor
<1>4. ASSUME NEW d \in Daemons, Bind(d) PROVE DueInv'
  BY <1>4 DEF Bind, Move, Handle, Tell, TypeOK, HandlersServed, RunsInOrder, DueInv,
     Owed, Down, Halting, Recorded, Serving, Supervisor
<1>5. ASSUME NEW d \in Daemons, DaemonDies(d) PROVE DueInv'
  BY <1>5 DEF DaemonDies, Ends, Move, Handle, Tell, TypeOK, HandlersServed, RunsInOrder,
     DueInv, Owed, Down, Halting, Recorded, Serving, Supervisor
<1>6. ASSUME NEW c \in Clients, Connect(c) PROVE DueInv'
  BY <1>6 DEF Connect, Move, Handle, Tell, TypeOK, HandlersServed, RunsInOrder, DueInv,
     Owed, Down, Halting, Recorded, Serving, Supervisor
<1>7. ASSUME NEW c \in Clients, StartDirect(c) PROVE DueInv'
  BY <1>7 DEF StartDirect, Move, Handle, Tell, TypeOK, HandlersServed, RunsInOrder,
     DueInv, Owed, Down, Halting, Recorded, Serving, Supervisor
<1>8. ASSUME NEW c \in Clients, FindNoDaemon(c) PROVE DueInv'
  BY <1>8 DEF FindNoDaemon, Move, Handle, Tell, TypeOK, HandlersServed, RunsInOrder,
     DueInv, Owed, Down, Halting, Recorded, Serving, Supervisor
<1>9. ASSUME NEW c \in Clients, ClientGoes(c) PROVE DueInv'
  BY <1>9 DEF ClientGoes, Move, Handle, Tell, TypeOK, HandlersServed, RunsInOrder,
     DueInv, Owed, Down, Halting, Recorded, Serving, Supervisor
<1>10. ASSUME NEW c \in Clients, ReadRequest(c) PROVE DueInv'
  BY <1>10 DEF ReadRequest, Move, Handle, Tell, TypeOK, HandlersServed, RunsInOrder,
     DueInv, Owed, Down, Halting, Recorded, Serving, Supervisor
<1>11. ASSUME NEW s \in Starts, InitializeSession(s) PROVE DueInv'
  BY <1>11 DEF InitializeSession, Move, Handle, Tell, TypeOK, HandlersServed,
     RunsInOrder, DueInv, Owed, Down, Halting, Recorded, Serving, Supervisor
<1>12. ASSUME NEW s \in Starts, StartFails(s) PROVE DueInv'
  BY <1>12 DEF StartFails, Move, Handle, Tell, TypeOK, HandlersServed, RunsInOrder,
     DueInv, Owed, Down, Halting, Recorded, Serving, Supervisor
<1>13. ASSUME NEW s \in Starts, StartAnswered(s) PROVE DueInv'
  BY <1>13 DEF StartAnswered, Move, Handle, Tell, TypeOK, HandlersServed, RunsInOrder,
     DueInv, Owed, Down, Halting, Recorded, Serving, Supervisor
<1>14. ASSUME NEW s \in Starts, RunSpawns(s) PROVE DueInv'
  BY <1>14 DEF RunSpawns, Move, Handle, Tell, TypeOK, HandlersServed, RunsInOrder,
     DueInv, Owed, Down, Halting, Recorded, Serving, Supervisor
<1>15. ASSUME NEW s \in Starts, RunRecords(s) PROVE DueInv'
  BY <1>15 DEF RunRecords, Move, Handle, Tell, TypeOK, HandlersServed, RunsInOrder,
     DueInv, Owed, Down, Halting, Recorded, Serving, Supervisor
<1>16. ASSUME NEW s \in Starts, RunPromotes(s) PROVE DueInv'
  BY <1>16 DEF RunPromotes, Move, Handle, Tell, TypeOK, HandlersServed, RunsInOrder,
     DueInv, Owed, Down, Halting, Recorded, Serving, Supervisor
<1>17. ASSUME NEW s \in Starts, RunAborts(s) PROVE DueInv'
  BY <1>17 DEF RunAborts, Move, Handle, Tell, TypeOK, HandlersServed, RunsInOrder,
     DueInv, Owed, Down, Halting, Recorded, Serving, Supervisor
<1>18. ASSUME NEW s \in Starts, RunEnds(s) PROVE DueInv'
  BY <1>18 DEF RunEnds, Move, Handle, Tell, TypeOK, HandlersServed, RunsInOrder, DueInv,
     Owed, Down, Halting, Recorded, Serving, Supervisor
<1>19. ASSUME NEW s \in Starts, ChildExits(s) PROVE DueInv'
  BY <1>19 DEF ChildExits, Move, Handle, Tell, TypeOK, HandlersServed, RunsInOrder,
     DueInv, Owed, Down, Halting, Recorded, Serving, Supervisor
<1>20. ASSUME NEW c \in Shutdowns, Acknowledge(c) PROVE DueInv'
  BY <1>20 DEF Acknowledge, Move, Handle, Tell, TypeOK, HandlersServed, RunsInOrder,
     DueInv, Owed, Down, Halting, Recorded, Serving, Supervisor
<1>21. ASSUME NEW c \in Shutdowns, ListSessions(c) PROVE DueInv'
  BY <1>21 DEF ListSessions, Move, Handle, Tell, TypeOK, HandlersServed, RunsInOrder,
     DueInv, Owed, Down, Halting, Recorded, Serving, Supervisor
<1>22. ASSUME NEW c \in Shutdowns, TerminateSession(c) PROVE DueInv'
  <2>1. PICK s \in todo[c] : /\ status[s] # "stopped"
                             /\ aim' = [aim EXCEPT ![c] = s]
                             /\ \/ child[s] = "alive" /\ (pid[s] \/ Supervisor(s))
                                   /\ child' = [child EXCEPT ![s] = "ended"]
                                \/ ~pid[s] /\ UNCHANGED child
                                \/ child[s] # "alive" /\ UNCHANGED child
    BY <1>22 DEF TerminateSession
  <2>2. /\ at[c] = "stop" /\ at' = [at EXCEPT ![c] = "mark"]
        /\ UNCHANGED <<status, pid, todo, due, resisted>>
    BY <1>22 DEF TerminateSession, Handle
  <2>3. s \in Starts /\ (pid[s] => child'[s] = "ended")
    BY <2>1 DEF TypeOK, RunsInOrder
  <2>4. \A u \in Starts : child[u] = "ended" => child'[u] = "ended"
    BY <2>1 DEF TypeOK
  <2>5. \A u \in Starts : Down(u) => Down(u)'
    BY <2>2, <2>4 DEF Down
  <2>6. /\ at'[c] = "mark" /\ aim'[c] = s
        /\ \A h \in Shutdowns \ {c} : at'[h] = at[h] /\ aim'[h] = aim[h]
    BY <2>1, <2>2 DEF TypeOK
  <2>7. \A u \in Starts : Owed(u) => Owed(u)'
    BY <2>2, <2>3, <2>4, <2>5, <2>6 DEF Owed
  <2>8. \A h \in Shutdowns : due[h] \subseteq Starts
    BY DEF TypeOK
  <2>9. \A h \in Shutdowns : Halting(h)' => Halting(h)
    BY <2>2, <2>6 DEF Halting
  <2>10. status[s] # "none"
    BY <2>1, <2>2 DEF DueInv
  <2> QED
    BY <2>2, <2>5, <2>6, <2>7, <2>8, <2>9, <2>10 DEF DueInv
<1>23. ASSUME NEW c \in Shutdowns, MarkStopped(c) PROVE DueInv'
  BY <1>23 DEF MarkStopped, Move, Handle, Tell, TypeOK, HandlersServed, RunsInOrder,
     DueInv, Owed, Down, Halting, Recorded, Serving, Supervisor
<1>24. ASSUME NEW c \in Shutdowns, AlreadyStopped(c) PROVE DueInv'
  BY <1>24 DEF AlreadyStopped, Move, Handle, Tell, TypeOK, HandlersServed, RunsInOrder,
     DueInv, Owed, Down, Halting, Recorded, Serving, Supervisor
<1>25. ASSUME NEW c \in Shutdowns, SessionResists(c) PROVE DueInv'
  BY <1>25 DEF SessionResists, Move, Handle, Tell, TypeOK, HandlersServed, RunsInOrder,
     DueInv, Owed, Down, Halting, Recorded, Serving, Supervisor
<1>26. ASSUME NEW c \in Shutdowns, RemoveSocket(c) PROVE DueInv'
  BY <1>26 DEF RemoveSocket, Move, Handle, Tell, TypeOK, HandlersServed, RunsInOrder,
     DueInv, Owed, Down, Halting, Recorded, Serving, Supervisor
<1>27. ASSUME NEW c \in Shutdowns, Exit(c) PROVE DueInv'
  BY <1>27 DEF Exit, Ends, Move, Handle, Tell, TypeOK, HandlersServed, RunsInOrder,
     DueInv, Owed, Down, Halting, Recorded, Serving, Supervisor
<1>28. CASE UNCHANGED vars
  BY <1>28 DEF vars, TypeOK, HandlersServed, RunsInOrder, DueInv, Owed, Down, Halting,
     Recorded, Serving, Supervisor
<1> QED
    BY <1>1, <1>2, <1>3, <1>4, <1>5, <1>6, <1>7, <1>8, <1>9, <1>10, <1>11, <1>12,
     <1>13, <1>14, <1>15, <1>16, <1>17, <1>18, <1>19, <1>20, <1>21, <1>22, <1>23,
     <1>24, <1>25, <1>26, <1>27, <1>28
     DEF Next, DaemonStarts, ClientSteps, StartSteps, RunSteps, ShutdownSteps

LEMMA StopInitially == Init => StopInv
BY DaemonAssumption, SocketInitially DEF Init, StopInv, SocketInv, RunsInOrder, DueInv,
   Halting,
   Clients

LEMMA StopInvariant == Spec => []StopInv
<1>1. StopInv /\ [Next]_vars => StopInv'
  BY TypeStep, HandlersStep, RunsStep, DueStep DEF StopInv
<1> QED
  BY StopInitially, <1>1, PTL DEF Spec

\* shutdown_sessions_for_daemon: every session whose child was on record when
\* the shutdown was acknowledged is stopped, and its child has ended, when the
\* daemon leaves, unless its child could not be killed.
THEOREM DueAreStopped == Spec => []AcknowledgedIsStopped
<1>1. StopInv => AcknowledgedIsStopped
  BY DEF StopInv, DueInv, Down, AcknowledgedIsStopped
<1> QED
  BY StopInvariant, <1>1, PTL
=============================================================================
