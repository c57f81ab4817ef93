----------------------------- MODULE AtomicFile -----------------------------
(***************************************************************************)
(* write_atomic and create_private_file (paths.rs) on one file of a        *)
(* session, metadata.json or screen.txt: threads of several processes that *)
(* replace it, readers that read it piece by piece, calls that fail, and   *)
(* processes that are killed at any step and whose pid is used again.      *)
(***************************************************************************)
EXTENDS Naturals

CONSTANTS
  Threads,    \* that call write_atomic
  Pids,       \* process numbers
  ProcessOf,  \* the process that each thread belongs to
  Readers,    \* read_to_string calls, one at a time each
  Contents,   \* what is written
  Inodes,     \* bound: files that exist at once, open or in the directory
  PIECES,     \* bound: writes and reads that a content takes
  MaxCalls,   \* bound: calls per process (TMP_COUNTER)
  None        \* no inode; no data; no file to read

ASSUME FileAssumption ==
  /\ ProcessOf \in [Threads -> Pids]
  /\ None \notin Contents \cup Inodes
  /\ PIECES \in Nat \ {0} /\ MaxCalls \in Nat

VARIABLES
  path,     \* the inode under the file's name
  tmp,      \* the inodes under the temporary names <<pid, unique>>
  data,     \* for each inode its pieces, None after the end of the file
  counter,  \* TMP_COUNTER of each process
  call,     \* the write_atomic of each thread
  reader    \* the read_to_string of each reader

vars == <<path, tmp, data, counter, call, reader>>

Names == Pids \X (0 .. MaxCalls)
Nowhere == [k \in 1 .. PIECES |-> None]
Whole(v) == [k \in 1 .. PIECES |-> v]
NameOf(t) == <<ProcessOf[t], call[t].unique>>
Called(at, unique, contents) ==
  [at |-> at, unique |-> unique, contents |-> contents, inode |-> None, written |-> 0]
Idle == Called("idle", 0, None)

\* Inodes that no name and no descriptor refers to.
Free ==
  {i \in Inodes : /\ i # path
                  /\ \A n \in Names : tmp[n] # i
                  /\ \A t \in Threads : call[t].inode # i
                  /\ \A r \in Readers : reader[r].inode # i}

-----------------------------------------------------------------------------
(* write_atomic *)

\* Mutant: one temporary name per process.
BeginShared(t) ==
  /\ call[t].at = "idle" /\ counter[ProcessOf[t]] < MaxCalls
  /\ \E v \in Contents :
       call' = [call EXCEPT ![t] = Called("create", 0, v)]
  /\ counter' = [counter EXCEPT ![ProcessOf[t]] = @ + 1]
  /\ UNCHANGED <<path, tmp, data, reader>>

\* TMP_COUNTER gives the call a temporary name of its own.
Begin(t) ==
  LET unique == counter[ProcessOf[t]]
  IN /\ call[t].at = "idle" /\ unique < MaxCalls
     /\ \E v \in Contents :
          call' = [call EXCEPT ![t] = Called("create", unique, v)]
     /\ counter' = [counter EXCEPT ![ProcessOf[t]] = unique + 1]
     /\ UNCHANGED <<path, tmp, data, reader>>

\* create_private_file(tmp): what a process of the same number has left under
\* this name is truncated.
Create(t) ==
  LET old == tmp[NameOf(t)]
  IN /\ call[t].at = "create"
     /\ \E i \in IF old = None THEN Free ELSE {old} :
          /\ tmp' = [tmp EXCEPT ![NameOf(t)] = i]
          /\ data' = [data EXCEPT ![i] = Nowhere]
          /\ call' = [call EXCEPT ![t].at = "write", ![t].inode = i]
     /\ UNCHANGED <<path, counter, reader>>

Write(t) ==
  LET c == call[t]
  IN /\ c.at = "write" /\ c.written < PIECES
     /\ data' = [data EXCEPT ![c.inode] = [@ EXCEPT ![c.written + 1] = c.contents]]
     /\ call' = [call EXCEPT ![t].written = c.written + 1]
     /\ UNCHANGED <<path, tmp, counter, reader>>

\* Mutant: the temporary file is renamed before all is written.
RenameEarly(t) ==
  /\ call[t].at = "write"
  /\ path' = tmp[NameOf(t)]
  /\ tmp' = [tmp EXCEPT ![NameOf(t)] = None]
  /\ call' = [call EXCEPT ![t] = Idle]
  /\ UNCHANGED <<data, counter, reader>>

\* rename(tmp, path); the descriptor has been closed before.
Rename(t) ==
  /\ call[t].at = "write" /\ call[t].written = PIECES
  /\ path' = tmp[NameOf(t)]
  /\ tmp' = [tmp EXCEPT ![NameOf(t)] = None]
  /\ call' = [call EXCEPT ![t] = Idle]
  /\ UNCHANGED <<data, counter, reader>>

\* Mutant: the destination is removed on an error.
FailRemovesPath(t) ==
  /\ call[t].at \in {"create", "write"}
  /\ path' = None
  /\ call' = [call EXCEPT ![t] = Idle]
  /\ UNCHANGED <<tmp, data, counter, reader>>

\* Creating, writing or renaming fails: the temporary file is removed.
Fail(t) ==
  /\ call[t].at \in {"create", "write"}
  /\ tmp' = [tmp EXCEPT ![NameOf(t)] = None]
  /\ call' = [call EXCEPT ![t] = Idle]
  /\ UNCHANGED <<path, data, counter, reader>>

\* A process dies, its temporary files stay, its number is used again.
Killed(p) ==
  /\ counter[p] > 0
  /\ counter' = [counter EXCEPT ![p] = 0]
  /\ call' = [t \in Threads |-> IF ProcessOf[t] = p THEN Idle ELSE call[t]]
  /\ UNCHANGED <<path, tmp, data, reader>>

-----------------------------------------------------------------------------
(* initialize_session_files creates screen.txt, or truncates it in place   *)

Reset ==
  /\ \E i \in IF path = None THEN Free ELSE {path} :
       /\ path' = i
       /\ data' = [data EXCEPT ![i] = Nowhere]
  /\ UNCHANGED <<tmp, counter, call, reader>>

-----------------------------------------------------------------------------
(* load_metadata, read_screen_text: fs::read_to_string                     *)

Opened(at, inode) == [at |-> at, inode |-> inode, got |-> Nowhere, next |-> 1]
NotRead == Opened("done", None)

Open(r) ==
  /\ reader[r].at = "done"
  /\ reader' = [reader EXCEPT ![r] =
       IF path = None THEN NotRead ELSE Opened("read", path)]
  /\ UNCHANGED <<path, tmp, data, counter, call>>

ReadPiece(r) ==
  LET rd == reader[r]
  IN /\ rd.at = "read" /\ rd.next <= PIECES
     /\ data[rd.inode][rd.next] # None
     /\ reader' = [reader EXCEPT ![r] =
          [rd EXCEPT !.got = [@ EXCEPT ![rd.next] = data[rd.inode][rd.next]],
                     !.next = rd.next + 1]]
     /\ UNCHANGED <<path, tmp, data, counter, call>>

Finish(r) ==
  LET rd == reader[r]
  IN /\ rd.at = "read"
     /\ rd.next <= PIECES => data[rd.inode][rd.next] = None
     /\ reader' = [reader EXCEPT ![r] = [rd EXCEPT !.at = "done", !.inode = None]]
     /\ UNCHANGED <<path, tmp, data, counter, call>>

-----------------------------------------------------------------------------
Init ==
  /\ path = None /\ tmp = [n \in Names |-> None]
  /\ data = [i \in Inodes |-> Nowhere]
  /\ counter = [p \in Pids |-> 0]
  /\ call = [t \in Threads |-> Idle]
  /\ reader = [r \in Readers |-> NotRead]

Next ==
  \/ \E t \in Threads : Begin(t) \/ Create(t) \/ Write(t) \/ Rename(t) \/ Fail(t)
  \/ \E p \in Pids : Killed(p)
  \/ \E r \in Readers : Open(r) \/ ReadPiece(r) \/ Finish(r)

Spec == Init /\ [][Next]_vars

\* metadata.json is written by write_atomic alone; screen.txt is also reset.
ScreenSpec == Init /\ [][Next \/ Reset]_vars

-----------------------------------------------------------------------------
(* Properties *)

Calls == [at : {"idle", "create", "write"}, unique : 0 .. MaxCalls,
          contents : Contents \cup {None}, inode : Inodes \cup {None},
          written : 0 .. PIECES]
Reads == [at : {"done", "read"}, inode : Inodes \cup {None},
          got : [1 .. PIECES -> Contents \cup {None}], next : 1 .. PIECES + 1]

TypeOK ==
  /\ path \in Inodes \cup {None}
  /\ tmp \in [Names -> Inodes \cup {None}]
  /\ data \in [Inodes -> [1 .. PIECES -> Contents \cup {None}]]
  /\ counter \in [Pids -> 0 .. MaxCalls]
  /\ call \in [Threads -> Calls]
  /\ reader \in [Readers -> Reads]

\* The file a call writes and renames is its own: no other thread of the
\* process and no reader has the file open, so that what is renamed is what
\* was written.
OwnFile ==
  \A t \in Threads : call[t].at = "write" =>
    /\ tmp[NameOf(t)] = call[t].inode /\ call[t].inode # path
    /\ \A u \in Threads \ {t} : call[u].inode # call[t].inode
    /\ \A r \in Readers : reader[r].inode # call[t].inode

\* What a reader has got is one whole content (paths.rs:137-139, and for the
\* screen docs/HOW-IT-WORKS.md:139, "a concurrent screen never sees a torn
\* snapshot").  An empty answer counts as whole: a session that has shown
\* nothing yet.
NeverTorn ==
  \A r \in Readers : reader[r].at = "done" =>
    \E v \in Contents \cup {None} : reader[r].got = Whole(v)

\* The file is an atomic register: a read sees what the file held when it was
\* opened, a call that fails or is killed changes nothing.
Register == INSTANCE AtomicRegister WITH
  Absent <- None,
  value <- IF path = None THEN None ELSE data[path][1],
  answers <- [r \in Readers |-> IF reader[r].at = "read" THEN data[reader[r].inode][1]
                                ELSE reader[r].got[1]]

RegisterImplemented == Register!Spec
=============================================================================
