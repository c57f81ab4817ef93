-------------------------- MODULE AtomicFileProofs --------------------------
(***************************************************************************)
(* Proofs about AtomicFile: a call has its temporary file to itself, a     *)
(* read is never torn, and the file implements an atomic register.         *)
(***************************************************************************)
EXTENDS AtomicFile, TLAPS

Active(t) == call[t].at \in {"create", "write"}

\* Whose inode is whose: a call that writes has the file under its name open,
\* names and inodes are not shared, and no reader has a temporary file open.
HasFile ==
  \A t \in Threads : IF call[t].at = "write"
                      THEN call[t].inode \in Inodes /\ tmp[NameOf(t)] = call[t].inode
                      ELSE call[t].inode = None
HasName ==
  \A t \in Threads : Active(t) =>
    call[t].contents \in Contents /\ call[t].unique < counter[ProcessOf[t]]
NamesApart ==
  \A t, u \in Threads : Active(t) /\ Active(u) /\ t # u => NameOf(t) # NameOf(u)
InodesApart ==
  \A n \in Names : tmp[n] # None =>
    /\ tmp[n] # path
    /\ \A m \in Names \ {n} : tmp[m] # tmp[n]
    /\ \A r \in Readers : reader[r].inode # tmp[n]
ReadersOpen ==
  \A r \in Readers : IF reader[r].at = "read" THEN reader[r].inode \in Inodes
                      ELSE reader[r].inode = None

Ownership == HasFile /\ HasName /\ NamesApart /\ InodesApart /\ ReadersOpen

Inv1 == TypeOK /\ Ownership

\* What the inodes and the readers hold.
Written ==
  \A t \in Threads :
    /\ call[t].at = "create" => call[t].written = 0
    /\ call[t].at = "write" =>
         \A k \in 1 .. call[t].written : data[call[t].inode][k] = call[t].contents
Holds(i, v) == data[i] = Whole(v)
PathWhole == path # None => \E v \in Contents : Holds(path, v)
Reading(r, v) ==
  /\ Holds(reader[r].inode, v)
  /\ \A k \in 1 .. PIECES : reader[r].got[k] = IF k < reader[r].next THEN v ELSE None
ReadersWhole ==
  /\ \A r \in Readers : reader[r].at = "read" => \E v \in Contents : Reading(r, v)
  /\ \A r \in Readers : reader[r].at = "done" =>
       \E v \in Contents \cup {None} : reader[r].got = Whole(v)

Inv2 == Written /\ PathWhole /\ ReadersWhole

-----------------------------------------------------------------------------
LEMMA NameOfType ==
  ASSUME TypeOK, NEW t \in Threads
  PROVE  NameOf(t) \in Names
BY FileAssumption DEF TypeOK, Calls, NameOf, Names

LEMMA Init1 == Init => Inv1
BY FileAssumption DEF Init, Inv1, TypeOK, Ownership, HasFile, HasName, NamesApart,
   InodesApart, ReadersOpen, Active, Idle, Called, NotRead, Opened, Nowhere,
   Calls, Reads, Names

\* The type invariant.
LEMMA TypeStep == TypeOK /\ Ownership /\ [Next \/ Reset]_vars => TypeOK'
<1> SUFFICES ASSUME TypeOK, Ownership, [Next \/ Reset]_vars PROVE TypeOK'
  OBVIOUS
<1> USE FileAssumption
<1>1. ASSUME NEW t \in Threads, Begin(t) PROVE TypeOK'
  <2> DEFINE unique == counter[ProcessOf[t]]
  <2>1. unique \in 0 .. MaxCalls /\ unique + 1 \in 0 .. MaxCalls
    BY <1>1 DEF Begin, TypeOK
  <2>2. PICK v \in Contents : call' = [call EXCEPT ![t] = Called("create", unique, v)]
    BY <1>1 DEF Begin
  <2>3. Called("create", unique, v) \in Calls
    BY <2>1 DEF Called, Calls
  <2> QED
    BY <1>1, <2>1, <2>2, <2>3 DEF Begin, TypeOK
<1>2. ASSUME NEW t \in Threads, Create(t) PROVE TypeOK'
  <2>1. NameOf(t) \in Names
    BY NameOfType
  <2>2. PICK i \in IF tmp[NameOf(t)] = None THEN Free ELSE {tmp[NameOf(t)]} :
          /\ tmp' = [tmp EXCEPT ![NameOf(t)] = i]
          /\ data' = [data EXCEPT ![i] = Nowhere]
          /\ call' = [call EXCEPT ![t].at = "write", ![t].inode = i]
    BY <1>2 DEF Create
  <2>3. i \in Inodes
    BY <2>1, <2>2 DEF Free, TypeOK
  <2>4. Nowhere \in [1 .. PIECES -> Contents \cup {None}]
    BY DEF Nowhere
  <2>5. [call[t] EXCEPT !.at = "write", !.inode = i] \in Calls
    BY <2>3 DEF TypeOK, Calls
  <2>6. call' \in [Threads -> Calls]
    BY <2>2, <2>5 DEF TypeOK
  <2> QED
    BY <2>6, <1>2, <2>1, <2>2, <2>3, <2>4, <2>5 DEF TypeOK, Create
<1>3. ASSUME NEW t \in Threads, Write(t) PROVE TypeOK'
  <2>1. call[t].inode \in Inodes /\ call[t].contents \in Contents
    BY <1>3 DEF Write, Ownership, HasFile, HasName, Active
  <2>2. call[t].written + 1 \in 1 .. PIECES /\ call[t].written + 1 \in 0 .. PIECES
    BY <1>3 DEF Write, TypeOK, Calls
  <2>3. data' \in [Inodes -> [1 .. PIECES -> Contents \cup {None}]]
    BY <1>3, <2>1, <2>2 DEF Write, TypeOK
  <2>4. [call[t] EXCEPT !.written = call[t].written + 1] \in Calls
    BY <2>2 DEF TypeOK, Calls
  <2> QED
    BY <1>3, <2>3, <2>4 DEF Write, TypeOK
<1>4. ASSUME NEW t \in Threads, Rename(t) PROVE TypeOK'
  <2>1. NameOf(t) \in Names
    BY NameOfType
  <2> QED
    BY <1>4, <2>1 DEF Rename, TypeOK, Calls, Idle, Called
<1>5. ASSUME NEW t \in Threads, Fail(t) PROVE TypeOK'
  <2>1. NameOf(t) \in Names
    BY NameOfType
  <2> QED
    BY <1>5, <2>1 DEF Fail, TypeOK, Calls, Idle, Called
<1>6. ASSUME NEW p \in Pids, Killed(p) PROVE TypeOK'
  BY <1>6 DEF Killed, TypeOK, Calls, Idle, Called
<1>7. CASE Reset
  BY <1>7 DEF Reset, TypeOK, Free, Nowhere
<1>8. ASSUME NEW r \in Readers, Open(r) PROVE TypeOK'
  <2>1. Nowhere \in [1 .. PIECES -> Contents \cup {None}] /\ 1 \in 1 .. PIECES + 1
    BY DEF Nowhere
  <2>2. NotRead \in Reads /\ Opened("read", path) \in Reads
    BY <2>1 DEF NotRead, Opened, Reads, TypeOK
  <2> QED
    BY <1>8, <2>2 DEF Open, TypeOK
<1>9. ASSUME NEW r \in Readers, ReadPiece(r) PROVE TypeOK'
  <2>1. reader[r].inode \in Inodes
    BY <1>9 DEF ReadPiece, Ownership, ReadersOpen
  <2>2. reader[r].next \in 1 .. PIECES
    BY <1>9 DEF ReadPiece, TypeOK, Reads
  <2>3. data[reader[r].inode][reader[r].next] \in Contents \cup {None}
    BY <2>1, <2>2 DEF TypeOK
  <2>4. [reader[r].got EXCEPT ![reader[r].next] = data[reader[r].inode][reader[r].next]]
          \in [1 .. PIECES -> Contents \cup {None}]
    BY <2>2, <2>3 DEF TypeOK, Reads
  <2>5. reader[r].next + 1 \in 1 .. PIECES + 1
    BY <2>2
  <2>6. [reader[r] EXCEPT
           !.got = [@ EXCEPT ![reader[r].next] = data[reader[r].inode][reader[r].next]],
           !.next = reader[r].next + 1] \in Reads
    <3>1. reader[r] \in Reads
      BY DEF TypeOK
    <3> QED
      BY <2>4, <2>5, <3>1 DEF Reads
  <2> QED
    BY <1>9, <2>6 DEF ReadPiece, TypeOK
<1>10. ASSUME NEW r \in Readers, Finish(r) PROVE TypeOK'
  <2>1. [reader[r] EXCEPT !.at = "done", !.inode = None] \in Reads
    BY DEF TypeOK, Reads
  <2> QED
    BY <1>10, <2>1 DEF Finish, TypeOK
<1>11. CASE UNCHANGED vars
  BY <1>11 DEF vars, TypeOK
<1> QED
  BY <1>1, <1>2, <1>3, <1>4, <1>5, <1>6, <1>7, <1>8, <1>9, <1>10, <1>11 DEF Next

\* Ownership, action by action.
LEMMA OwnershipStep == TypeOK /\ Ownership /\ [Next \/ Reset]_vars => Ownership'
<1> SUFFICES ASSUME TypeOK, Ownership, [Next \/ Reset]_vars PROVE Ownership'
  OBVIOUS
<1> USE FileAssumption
<1>0. \A t \in Threads : NameOf(t) \in Names
  BY NameOfType
<1>1. ASSUME NEW t \in Threads, Begin(t) PROVE Ownership'
  <2> DEFINE unique == counter[ProcessOf[t]]
  <2>1. PICK v \in Contents : call' = [call EXCEPT ![t] = Called("create", unique, v)]
    BY <1>1 DEF Begin
  <2>2. unique \in Nat /\ counter' = [counter EXCEPT ![ProcessOf[t]] = unique + 1]
    BY <1>1 DEF Begin, TypeOK
  <2>3. /\ call'[t].at = "create" /\ call'[t].unique = unique
        /\ call'[t].contents = v /\ call'[t].inode = None
        /\ \A u \in Threads \ {t} : call'[u] = call[u] /\ NameOf(u)' = NameOf(u)
    BY <2>1 DEF TypeOK, Called, NameOf
  <2>4. HasFile'
    BY <1>1, <2>3 DEF Begin, Ownership, HasFile
  <2>5. HasName'
    <3>1. \A p \in Pids : counter[p] \in Nat /\ counter'[p] >= counter[p]
      BY <2>2 DEF TypeOK
    <3>2. counter'[ProcessOf[t]] = unique + 1
      BY <2>2 DEF TypeOK
    <3>3. \A u \in Threads : call[u].unique \in Nat /\ ProcessOf[u] \in Pids
      BY DEF TypeOK, Calls
    <3> QED
      BY <2>2, <2>3, <3>1, <3>2, <3>3 DEF Ownership, HasName, Active
  <2>6. NamesApart'
    <3>1. ASSUME NEW u \in Threads \ {t}, Active(u) PROVE NameOf(u) # <<ProcessOf[t], unique>>
      BY <2>2, <3>1 DEF Ownership, HasName, NameOf, TypeOK, Calls
    <3>2. NameOf(t)' = <<ProcessOf[t], unique>>
      BY <2>3 DEF NameOf
    <3> QED
      BY <2>3, <3>1, <3>2 DEF Ownership, NamesApart, Active
  <2> QED
    BY <1>1, <2>4, <2>5, <2>6 DEF Begin, Ownership, InodesApart, ReadersOpen
<1>2. ASSUME NEW t \in Threads, Create(t) PROVE Ownership'
  <2>1. PICK i \in IF tmp[NameOf(t)] = None THEN Free ELSE {tmp[NameOf(t)]} :
          /\ tmp' = [tmp EXCEPT ![NameOf(t)] = i]
          /\ call' = [call EXCEPT ![t].at = "write", ![t].inode = i]
    BY <1>2 DEF Create
  <2>2. /\ i \in Inodes /\ i # None /\ i # path
        /\ \A n \in Names \ {NameOf(t)} : tmp[n] # i
        /\ \A r \in Readers : reader[r].inode # i
    BY <1>0, <2>1 DEF Free, TypeOK, Ownership, InodesApart
  <2>3. /\ call[t].at = "create" /\ call'[t].at = "write" /\ call'[t].inode = i
        /\ call'[t].contents = call[t].contents /\ call'[t].unique = call[t].unique
        /\ \A u \in Threads \ {t} : call'[u] = call[u]
        /\ \A u \in Threads : NameOf(u)' = NameOf(u)
    <3>1. call[t].at = "create" /\ call[t] \in Calls
      BY <1>2 DEF Create, TypeOK
    <3>2. call'[t] = [call[t] EXCEPT !.at = "write", !.inode = i]
      BY <2>1 DEF TypeOK
    <3>3. /\ call'[t].at = "write" /\ call'[t].inode = i
          /\ call'[t].contents = call[t].contents /\ call'[t].unique = call[t].unique
      BY <3>1, <3>2 DEF Calls
    <3>4. \A u \in Threads \ {t} : call'[u] = call[u]
      BY <2>1 DEF TypeOK
    <3> QED
      BY <3>1, <3>3, <3>4 DEF NameOf
  <2>4. tmp'[NameOf(t)] = i /\ \A n \in Names \ {NameOf(t)} : tmp'[n] = tmp[n]
    BY <1>0, <2>1 DEF TypeOK
  <2>5. HasFile'
    <3>1. ASSUME NEW u \in Threads \ {t}, call[u].at = "write" PROVE NameOf(u) # NameOf(t)
      BY <2>3, <3>1 DEF Ownership, NamesApart, Active
    <3> QED
      BY <1>0, <2>2, <2>3, <2>4, <3>1 DEF Ownership, HasFile
  <2>6. HasName' /\ NamesApart'
    <3>1. /\ \A u \in Threads : Active(u)' => Active(u)
          /\ \A u \in Threads : /\ call'[u].contents = call[u].contents
                               /\ call'[u].unique = call[u].unique
      BY <2>3 DEF Active
    <3>2. UNCHANGED counter
      BY <1>2 DEF Create
    <3>3. HasName'
      BY <3>1, <3>2 DEF Ownership, HasName
    <3>4. NamesApart'
      BY <2>3, <3>1 DEF Ownership, NamesApart
    <3> QED
      BY <3>3, <3>4
  <2>7. InodesApart'
    BY <1>2, <2>2, <2>4 DEF Create, Ownership, InodesApart
  <2> QED
    BY <1>2, <2>5, <2>6, <2>7 DEF Create, Ownership, ReadersOpen
<1>3. ASSUME NEW t \in Threads, Write(t) PROVE Ownership'
  <2>1. \A u \in Threads : /\ call'[u].at = call[u].at /\ call'[u].inode = call[u].inode
                           /\ call'[u].contents = call[u].contents
                           /\ call'[u].unique = call[u].unique
                           /\ NameOf(u)' = NameOf(u)
    BY <1>3 DEF Write, TypeOK, Calls, NameOf
  <2> QED
    BY <1>3, <2>1 DEF Write, Ownership, HasFile, HasName, NamesApart, InodesApart,
       ReadersOpen, Active
<1>4. ASSUME NEW t \in Threads, Rename(t) \/ Fail(t) PROVE Ownership'
  <2>1. /\ call'[t].at = "idle" /\ call'[t].inode = None
        /\ \A u \in Threads \ {t} : call'[u] = call[u] /\ NameOf(u)' = NameOf(u)
    BY <1>4 DEF Rename, Fail, TypeOK, Idle, Called, NameOf
  <2>2. /\ tmp'[NameOf(t)] = None /\ \A n \in Names \ {NameOf(t)} : tmp'[n] = tmp[n]
        /\ path' \in {path, tmp[NameOf(t)]}
        /\ UNCHANGED <<counter, reader>>
    BY <1>0, <1>4 DEF Rename, Fail, TypeOK
  <2>3. \A u \in Threads \ {t} : call[u].at = "write" => NameOf(u) # NameOf(t)
    BY <1>4 DEF Rename, Fail, Ownership, NamesApart, Active
  <2>4. HasFile'
    BY <1>0, <2>1, <2>2, <2>3 DEF Ownership, HasFile
  <2>5. HasName' /\ NamesApart'
    BY <2>1, <2>2 DEF Ownership, HasName, NamesApart, Active
  <2>6. InodesApart'
    BY <1>0, <2>2 DEF Ownership, InodesApart
  <2> QED
    BY <2>2, <2>4, <2>5, <2>6 DEF Ownership, ReadersOpen
<1>5. ASSUME NEW p \in Pids, Killed(p) PROVE Ownership'
  <2>1. \A u \in Threads : IF ProcessOf[u] = p
                            THEN call'[u].at = "idle" /\ call'[u].inode = None
                            ELSE call'[u] = call[u] /\ NameOf(u)' = NameOf(u)
    BY <1>5 DEF Killed, Idle, Called, NameOf
  <2>2. \A u \in Threads : ProcessOf[u] # p => counter'[ProcessOf[u]] = counter[ProcessOf[u]]
    BY <1>5 DEF Killed, TypeOK
  <2> QED
    BY <1>5, <2>1, <2>2 DEF Killed, Ownership, HasFile, HasName, NamesApart, InodesApart,
       ReadersOpen, Active
<1>6. CASE Reset
  <2>1. /\ path' = path \/ path' \in Free
        /\ \A u \in Threads : NameOf(u)' = NameOf(u)
    BY <1>6 DEF Reset, NameOf
  <2> QED
    BY <1>6, <2>1 DEF Reset, Free, Ownership, HasFile, HasName, NamesApart, InodesApart,
       ReadersOpen, Active
<1>7. ASSUME NEW r \in Readers, Open(r) \/ ReadPiece(r) \/ Finish(r) PROVE Ownership'
  <2>1. /\ reader'[r].inode \in {reader[r].inode, path, None}
        /\ IF reader'[r].at = "read" THEN reader'[r].inode \in Inodes
           ELSE reader'[r].inode = None
        /\ \A s \in Readers \ {r} : reader'[s] = reader[s]
    <3>1. \A s \in Readers \ {r} : reader'[s] = reader[s]
      BY <1>7 DEF Open, ReadPiece, Finish, TypeOK
    <3>2. CASE Open(r)
      BY <3>1, <3>2 DEF Open, TypeOK, Opened, NotRead
    <3>3. CASE ReadPiece(r)
      <4>1. reader'[r].at = "read" /\ reader'[r].inode = reader[r].inode
        BY <3>3 DEF ReadPiece, TypeOK, Reads
      <4> QED
        BY <3>1, <3>3, <4>1 DEF ReadPiece, Ownership, ReadersOpen
    <3>4. CASE Finish(r)
      BY <3>1, <3>4 DEF Finish, TypeOK, Reads
    <3> QED
      BY <1>7, <3>2, <3>3, <3>4
  <2>2. UNCHANGED <<path, tmp, call, counter>> /\ \A u \in Threads : NameOf(u)' = NameOf(u)
    BY <1>7 DEF Open, ReadPiece, Finish, NameOf
  <2> QED
    BY <2>1, <2>2 DEF Ownership, HasFile, HasName, NamesApart, InodesApart, ReadersOpen, Active
<1>8. CASE UNCHANGED vars
  BY <1>8 DEF vars, Ownership, HasFile, HasName, NamesApart, InodesApart, ReadersOpen,
     Active, NameOf
<1> QED
  BY <1>1, <1>2, <1>3, <1>4, <1>5, <1>6, <1>7, <1>8 DEF Next

-----------------------------------------------------------------------------
\* A call has the file it writes to itself (OwnFile).
LEMMA OwnershipGivesOwnFile == Inv1 => OwnFile
<1> SUFFICES ASSUME Inv1, NEW t \in Threads, call[t].at = "write"
             PROVE  /\ tmp[NameOf(t)] = call[t].inode /\ call[t].inode # path
                    /\ \A u \in Threads \ {t} : call[u].inode # call[t].inode
                    /\ \A r \in Readers : reader[r].inode # call[t].inode
  BY DEF OwnFile
<1>1. /\ call[t].inode \in Inodes /\ call[t].inode # None
      /\ tmp[NameOf(t)] = call[t].inode /\ NameOf(t) \in Names
  BY NameOfType, FileAssumption DEF Inv1, Ownership, HasFile
<1>2. ASSUME NEW u \in Threads \ {t}, call[u].at = "write"
      PROVE  call[u].inode # call[t].inode
  <2>1. NameOf(u) # NameOf(t) /\ NameOf(u) \in Names
    BY <1>2, NameOfType DEF Inv1, Ownership, NamesApart, Active
  <2>2. tmp[NameOf(u)] = call[u].inode
    BY <1>2 DEF Inv1, Ownership, HasFile
  <2> QED
    BY <1>1, <2>1, <2>2 DEF Inv1, Ownership, InodesApart
<1>3. ASSUME NEW u \in Threads, call[u].at # "write" PROVE call[u].inode # call[t].inode
  BY <1>1, <1>3 DEF Inv1, Ownership, HasFile
<1> QED
  BY <1>1, <1>2, <1>3 DEF Inv1, Ownership, InodesApart

LEMMA InvariantStep == Inv1 /\ [Next \/ Reset]_vars => Inv1'
BY TypeStep, OwnershipStep DEF Inv1

LEMMA Invariant1 == Spec => []Inv1
<1>1. Inv1 /\ [Next]_vars => Inv1'
  BY InvariantStep
<1> QED
  BY Init1, <1>1, PTL DEF Spec

\* Whatever is killed, fails or is truncated, the variables have their types.
THEOREM TypeCorrect == Spec => []TypeOK
<1>1. Inv1 => TypeOK
  BY DEF Inv1
<1> QED
  BY Invariant1, <1>1, PTL

\* write_atomic: the file that a call writes under its temporary name is its
\* own until it renames it, in spite of threads, dead processes and their pids.
THEOREM FilesAreOwn == Spec => []OwnFile
BY Invariant1, OwnershipGivesOwnFile, PTL

\* The same for screen.txt, which a start truncates in place.
THEOREM ScreenFilesAreOwn == ScreenSpec => []OwnFile
<1>1. Inv1 /\ [Next \/ Reset]_vars => Inv1'
  BY InvariantStep
<1> QED
  BY Init1, <1>1, OwnershipGivesOwnFile, PTL DEF ScreenSpec

-----------------------------------------------------------------------------
LEMMA Init2 == Init => Inv2
<1> SUFFICES ASSUME Init PROVE Inv2
  OBVIOUS
<1>1. Nowhere = Whole(None)
  BY DEF Nowhere, Whole
<1> QED
  BY <1>1 DEF Init, Inv2, Written, PathWhole, ReadersWhole, Idle, Called, NotRead, Opened

\* What is not written in a step keeps what it holds.
LEMMA Kept ==
  ASSUME Inv1, Inv2, UNCHANGED <<path, reader>>,
         path # None => data'[path] = data[path],
         \A r \in Readers : reader[r].at = "read" =>
           data'[reader[r].inode] = data[reader[r].inode]
  PROVE  PathWhole' /\ ReadersWhole'
<1>1. PathWhole'
  BY DEF Inv2, PathWhole, Holds
<1>2. ASSUME NEW r \in Readers, reader[r].at = "read"
      PROVE  \E v \in Contents : Reading(r, v)'
  <2>1. PICK v \in Contents : Reading(r, v)
    BY <1>2 DEF Inv2, ReadersWhole
  <2> QED
    BY <1>2, <2>1 DEF Reading, Holds
<1>3. ReadersWhole'
  BY <1>2 DEF Inv2, ReadersWhole
<1> QED
  BY <1>1, <1>3

\* Whole contents in every file that readers can come by (which
\* Reset would not keep).
LEMMA ContentsStep ==
  ASSUME Inv1, Inv2, [Next]_vars
  PROVE  Inv2'
<1> USE FileAssumption
<1>0. TypeOK /\ OwnFile /\ Written /\ PathWhole /\ ReadersWhole
  BY OwnershipGivesOwnFile DEF Inv1, Inv2
<1>1. ASSUME NEW t \in Threads, Begin(t) PROVE Inv2'
  <2>1. Written'
    BY <1>0, <1>1 DEF Begin, Written, Called, TypeOK
  <2>2. PathWhole' /\ ReadersWhole'
    BY <1>1, Kept DEF Begin
  <2> QED
    BY <2>1, <2>2 DEF Inv2
<1>2. ASSUME NEW t \in Threads, Create(t) PROVE Inv2'
  <2>1. PICK i \in IF tmp[NameOf(t)] = None THEN Free ELSE {tmp[NameOf(t)]} :
          /\ data' = [data EXCEPT ![i] = Nowhere]
          /\ call' = [call EXCEPT ![t].at = "write", ![t].inode = i]
    BY <1>2 DEF Create
  <2>2. NameOf(t) \in Names
    BY <1>0, NameOfType
  <2>3. /\ i \in Inodes /\ i # path /\ \A r \in Readers : reader[r].inode # i
        /\ \A u \in Threads \ {t} : call[u].at = "write" => call[u].inode # i
    <3>1. CASE tmp[NameOf(t)] = None
      BY <2>1, <3>1 DEF Free
    <3>2. CASE tmp[NameOf(t)] # None
      <4>1. i = tmp[NameOf(t)] /\ i \in Inodes
        BY <1>0, <2>1, <2>2, <3>2 DEF TypeOK
      <4>2. \A u \in Threads \ {t} : call[u].at = "write" =>
              NameOf(u) # NameOf(t) /\ NameOf(u) \in Names /\ tmp[NameOf(u)] = call[u].inode
        BY <1>0, <1>2, NameOfType DEF Create, Inv1, Ownership, NamesApart, HasFile, Active
      <4> QED
        BY <2>2, <3>2, <4>1, <4>2 DEF Inv1, Ownership, InodesApart
    <3> QED
      BY <3>1, <3>2
  <2>4. \A j \in Inodes \ {i} : data'[j] = data[j]
    BY <1>0, <2>1 DEF TypeOK
  <2>5. Written'
    <3>1. call'[t].at = "write" /\ call'[t].written = 0
      <4>1. call[t].written = 0 /\ call[t] \in Calls
        BY <1>0, <1>2 DEF Create, Written, TypeOK
      <4>2. call'[t] = [call[t] EXCEPT !.at = "write", !.inode = i]
        BY <1>0, <2>1 DEF TypeOK
      <4> QED
        BY <4>1, <4>2 DEF Calls
    <3>2. \A u \in Threads \ {t} : call'[u] = call[u]
      BY <1>0, <2>1 DEF TypeOK
    <3>3. \A u \in Threads : call[u].at = "write" => call[u].inode \in Inodes
      BY DEF Inv1, Ownership, HasFile
    <3> QED
      BY <1>0, <2>3, <2>4, <3>1, <3>2, <3>3 DEF Written
  <2>6. /\ path # None => data'[path] = data[path]
        /\ \A r \in Readers : reader[r].at = "read" =>
             data'[reader[r].inode] = data[reader[r].inode]
    BY <1>0, <2>3, <2>4 DEF TypeOK, Inv1, Ownership, ReadersOpen
  <2>7. PathWhole' /\ ReadersWhole'
    BY <1>2, <2>6, Kept DEF Create
  <2> QED
    BY <2>5, <2>7 DEF Inv2
<1>3. ASSUME NEW t \in Threads, Write(t) PROVE Inv2'
  <2> DEFINE i == call[t].inode
             n == call[t].written
  <2>1. /\ i \in Inodes /\ i # path /\ \A r \in Readers : reader[r].inode # i
        /\ \A u \in Threads \ {t} : call[u].inode # i
        /\ n \in 0 .. PIECES /\ n < PIECES
    BY <1>0, <1>3 DEF Write, OwnFile, Inv1, Ownership, HasFile, TypeOK, Calls
  <2>2. /\ \A j \in Inodes \ {i} : data'[j] = data[j]
        /\ data'[i] = [data[i] EXCEPT ![n + 1] = call[t].contents]
        /\ data[i] \in [1 .. PIECES -> Contents \cup {None}]
    BY <1>0, <1>3, <2>1 DEF Write, TypeOK
  <2>3. Written'
    <3>1. /\ call'[t].at = "write" /\ call'[t].written = n + 1
          /\ call'[t].inode = i /\ call'[t].contents = call[t].contents
          /\ \A u \in Threads \ {t} : call'[u] = call[u]
      BY <1>0, <1>3 DEF Write, TypeOK, Calls
    <3>2. \A k \in 1 .. n + 1 : data'[i][k] = call[t].contents
      <4>1. \A k \in 1 .. n : data[i][k] = call[t].contents
        BY <1>0, <1>3 DEF Write, Written
      <4>2. ASSUME NEW k \in 1 .. n + 1 PROVE data'[i][k] = call[t].contents
        <5>1. k \in 1 .. PIECES /\ (k # n + 1 => k \in 1 .. n)
          BY <2>1
        <5>2. data'[i][k] = IF k = n + 1 THEN call[t].contents ELSE data[i][k]
          BY <2>2, <5>1
        <5> QED
          BY <4>1, <5>1, <5>2
      <4> QED
        BY <4>2
    <3>3. \A u \in Threads : call[u].at = "write" => call[u].inode \in Inodes
      BY DEF Inv1, Ownership, HasFile
    <3>4. ASSUME NEW u \in Threads \ {t}, call[u].at = "write"
          PROVE  data'[call[u].inode] = data[call[u].inode]
      BY <2>1, <2>2, <3>3, <3>4
    <3> HIDE DEF i, n
    <3> QED
      BY <1>0, <3>1, <3>2, <3>4 DEF Written
  <2>4. /\ path # None => data'[path] = data[path]
        /\ \A r \in Readers : reader[r].at = "read" =>
             data'[reader[r].inode] = data[reader[r].inode]
    BY <1>0, <2>1, <2>2 DEF TypeOK, Inv1, Ownership, ReadersOpen
  <2>5. PathWhole' /\ ReadersWhole'
    BY <1>3, <2>4, Kept DEF Write
  <2> QED
    BY <2>3, <2>5 DEF Inv2
<1>4. ASSUME NEW t \in Threads, Rename(t) PROVE Inv2'
  <2>1. /\ call[t].contents \in Contents /\ call[t].inode \in Inodes
        /\ path' = call[t].inode
    BY <1>4 DEF Rename, Inv1, Ownership, HasName, HasFile, Active
  <2>2. data[call[t].inode] = Whole(call[t].contents)
    <3>1. data[call[t].inode] \in [1 .. PIECES -> Contents \cup {None}]
      BY <1>0, <2>1 DEF TypeOK
    <3>2. \A k \in 1 .. PIECES : data[call[t].inode][k] = call[t].contents
      BY <1>0, <1>4 DEF Rename, Written
    <3> QED
      BY <3>1, <3>2 DEF Whole
  <2>3. PathWhole'
    BY <1>4, <2>1, <2>2 DEF Rename, PathWhole, Holds, Whole
  <2>4. ReadersWhole'
    BY <1>0, <1>4 DEF Rename, ReadersWhole, Reading, Holds, Whole
  <2>5. Written'
    BY <1>0, <1>4 DEF Rename, Written, Idle, Called, TypeOK
  <2> QED
    BY <2>3, <2>4, <2>5 DEF Inv2
<1>5. ASSUME NEW t \in Threads, Fail(t) PROVE Inv2'
  <2>1. Written'
    BY <1>0, <1>5 DEF Fail, Written, Idle, Called, TypeOK
  <2>2. PathWhole' /\ ReadersWhole'
    BY <1>5, Kept DEF Fail
  <2> QED
    BY <2>1, <2>2 DEF Inv2
<1>6. ASSUME NEW p \in Pids, Killed(p) PROVE Inv2'
  <2>1. Written'
    BY <1>0, <1>6 DEF Killed, Written, Idle, Called, TypeOK
  <2>2. PathWhole' /\ ReadersWhole'
    BY <1>6, Kept DEF Killed
  <2> QED
    BY <2>1, <2>2 DEF Inv2
<1>8. ASSUME NEW r \in Readers, Open(r) \/ ReadPiece(r) \/ Finish(r) PROVE Inv2'
  <2>1. /\ UNCHANGED <<path, data, call>>
        /\ \A s \in Readers \ {r} : reader'[s] = reader[s]
    BY <1>0, <1>8 DEF Open, ReadPiece, Finish, TypeOK
  <2>2. Written' /\ PathWhole'
    BY <1>0, <2>1 DEF Written, PathWhole, Holds, Whole
  <2>3. \A s \in Readers \ {r} : \A v : Reading(s, v)' <=> Reading(s, v)
    BY <2>1 DEF Reading, Holds, Whole
  <2>4. /\ reader'[r].at = "read" => \E v \in Contents : Reading(r, v)'
        /\ reader'[r].at = "done" =>
             \E v \in Contents \cup {None} : reader'[r].got = Whole(v)
    <3>1. CASE Open(r)
      <4>1. CASE path = None
        <5>1. reader'[r] = NotRead /\ Nowhere = Whole(None)
          BY <1>0, <3>1, <4>1 DEF Open, TypeOK, Nowhere, Whole
        <5> QED
          BY <5>1 DEF NotRead, Opened
      <4>2. CASE path # None
        <5>1. reader'[r] = Opened("read", path)
          BY <1>0, <3>1, <4>2 DEF Open, TypeOK
        <5>2. PICK v \in Contents : data[path] = Whole(v)
          BY <1>0, <4>2 DEF PathWhole, Holds
        <5>3. /\ reader'[r].at = "read" /\ reader'[r].inode = path
              /\ reader'[r].next = 1 /\ reader'[r].got = Nowhere
          BY <5>1 DEF Opened
        <5>4. Reading(r, v)'
          BY <2>1, <5>2, <5>3 DEF Reading, Holds, Nowhere, Whole
        <5> QED
          BY <5>3, <5>4
      <4> QED
        BY <4>1, <4>2
    <3>2. CASE ReadPiece(r)
      <4>1. PICK v \in Contents : Reading(r, v)
        BY <1>0, <3>2 DEF ReadPiece, ReadersWhole
      <4>2. /\ reader[r].next \in 1 .. PIECES
            /\ reader[r].got \in [1 .. PIECES -> Contents \cup {None}]
        BY <1>0, <3>2 DEF ReadPiece, TypeOK, Reads
      <4>3. /\ reader'[r].at = "read" /\ reader'[r].inode = reader[r].inode
            /\ reader'[r].next = reader[r].next + 1
            /\ reader'[r].got = [reader[r].got EXCEPT ![reader[r].next] = v]
        <5>1. data[reader[r].inode][reader[r].next] = v
          BY <4>1, <4>2 DEF Reading, Holds, Whole
        <5>2. reader[r].at = "read" /\ reader[r] \in Reads
          BY <1>0, <3>2 DEF ReadPiece, TypeOK
        <5>3. reader'[r] = [reader[r] EXCEPT
                !.got = [reader[r].got EXCEPT ![reader[r].next] = v], !.next = reader[r].next + 1]
          BY <1>0, <3>2, <5>1 DEF ReadPiece, TypeOK
        <5> QED
          BY <5>2, <5>3 DEF Reads
      <4>4. Reading(r, v)'
        BY <2>1, <4>1, <4>2, <4>3 DEF Reading, Holds, Whole
      <4> QED
        BY <4>3, <4>4
    <3>3. CASE Finish(r)
      <4>1. PICK v \in Contents : Reading(r, v)
        BY <1>0, <3>3 DEF Finish, ReadersWhole
      <4>2. /\ reader[r].next \in 1 .. PIECES + 1
            /\ reader[r].got \in [1 .. PIECES -> Contents \cup {None}]
        BY <1>0 DEF TypeOK, Reads
      <4>3. reader[r].next > PIECES
        BY <3>3, <4>1, <4>2 DEF Finish, Reading, Holds, Whole
      <4>4. reader[r].got = Whole(v)
        BY <4>1, <4>2, <4>3 DEF Reading, Whole
      <4>5. reader'[r].at = "done" /\ reader'[r].got = reader[r].got
        BY <1>0, <3>3 DEF Finish, TypeOK, Reads
      <4> QED
        BY <4>4, <4>5
    <3> QED
      BY <1>8, <3>1, <3>2, <3>3
  <2>5. ReadersWhole'
    BY <1>0, <2>1, <2>3, <2>4 DEF ReadersWhole
  <2> QED
    BY <2>2, <2>5 DEF Inv2
<1>9. CASE UNCHANGED vars
  BY <1>0, <1>9 DEF vars, Inv2, Written, PathWhole, ReadersWhole, Reading, Holds, Whole
<1> QED
  BY <1>1, <1>2, <1>3, <1>4, <1>5, <1>6, <1>8, <1>9 DEF Next

LEMMA Invariant2 == Spec => [](Inv1 /\ Inv2)
<1>1. (Inv1 /\ Inv2) /\ [Next]_vars => (Inv1 /\ Inv2)'
  BY InvariantStep, ContentsStep
<1> QED
  BY Init1, Init2, <1>1, PTL DEF Spec

\* write_atomic, for a file that is not also truncated in place, such as
\* metadata.json: concurrent readers see the complete old or the complete new
\* file, even if writers are killed.
THEOREM ReadsAreWhole == Spec => []NeverTorn
<1>1. Inv1 /\ Inv2 => NeverTorn
  BY DEF Inv2, ReadersWhole, NeverTorn
<1> QED
  BY Invariant2, <1>1, PTL

-----------------------------------------------------------------------------
(* The refinement *)

Value == IF path = None THEN None ELSE data[path][1]
Answer(r) == IF reader[r].at = "read" THEN data[reader[r].inode][1] ELSE reader[r].got[1]
Answers == [r \in Readers |-> Answer(r)]

LEMMA RegisterInit == Init => Register!Init
<1> SUFFICES ASSUME Init PROVE Register!Init
  OBVIOUS
<1>1. Nowhere[1] = None
  BY FileAssumption DEF Nowhere
<1>2. \A r \in Readers : reader[r].at = "done" /\ reader[r].got = Nowhere
  BY DEF Init, NotRead, Opened
<1> QED
  BY <1>1, <1>2 DEF Init, Register!Init

LEMMA RegisterStep ==
  ASSUME Inv1, Inv2, Inv2', [Next]_vars
  PROVE  [Register!Next]_<<Value, Answers>>
<1> USE FileAssumption
<1>0. TypeOK /\ OwnFile /\ PathWhole /\ ReadersWhole
  BY OwnershipGivesOwnFile DEF Inv1, Inv2
<1> DEFINE Stutters == Value' = Value /\ Answers' = Answers
<1>1. ASSUME UNCHANGED <<path, reader>>,
             path # None => data'[path] = data[path],
             \A r \in Readers : reader[r].at = "read" =>
               data'[reader[r].inode] = data[reader[r].inode]
      PROVE  Stutters
  BY <1>1 DEF Value, Answers, Answer
<1>2. ASSUME NEW t \in Threads, Begin(t) \/ Fail(t) PROVE Stutters
  BY <1>1, <1>2 DEF Begin, Fail
<1>3. ASSUME NEW t \in Threads, Create(t) \/ Write(t) PROVE Stutters
  <2>1. \E i \in Inodes :
          /\ \A j \in Inodes \ {i} : data'[j] = data[j]
          /\ i # path /\ \A r \in Readers : reader[r].inode # i
    <3>1. CASE Write(t)
      <4>1. call[t].inode \in Inodes
        BY <3>1 DEF Write, Inv1, Ownership, HasFile
      <4> QED
        BY <1>0, <3>1, <4>1 DEF Write, OwnFile, TypeOK
    <3>2. CASE Create(t)
      <4>1. NameOf(t) \in Names
        BY <1>0, NameOfType
      <4>2. PICK i \in IF tmp[NameOf(t)] = None THEN Free ELSE {tmp[NameOf(t)]} :
              data' = [data EXCEPT ![i] = Nowhere]
        BY <3>2 DEF Create
      <4>3. i \in Inodes /\ i # path /\ \A r \in Readers : reader[r].inode # i
        BY <1>0, <4>1, <4>2 DEF Free, TypeOK, Inv1, Ownership, InodesApart
      <4> QED
        BY <1>0, <4>2, <4>3 DEF TypeOK
    <3> QED
      BY <1>3, <3>1, <3>2
  <2>2. UNCHANGED <<path, reader>>
    BY <1>3 DEF Create, Write
  <2>3. /\ path # None => data'[path] = data[path]
        /\ \A r \in Readers : reader[r].at = "read" =>
             data'[reader[r].inode] = data[reader[r].inode]
    BY <1>0, <2>1 DEF TypeOK, Inv1, Ownership, ReadersOpen
  <2> QED
    BY <1>1, <2>2, <2>3
<1>4. ASSUME NEW t \in Threads, Rename(t) PROVE Value' \in Contents /\ Answers' = Answers
  <2>1. path' # None
    BY <1>4 DEF Rename, Inv1, Ownership, HasFile
  <2>2. PICK v \in Contents : data'[path'] = Whole(v)'
    BY <2>1 DEF Inv2, PathWhole, Holds
  <2>3. Value' = v
    BY <2>1, <2>2 DEF Value, Whole
  <2> QED
    BY <1>4, <2>3 DEF Rename, Answers, Answer
<1>5. ASSUME NEW p \in Pids, Killed(p) PROVE Stutters
  BY <1>1, <1>5 DEF Killed
<1>7. ASSUME NEW r \in Readers, Open(r)
      PROVE  Answers' = [Answers EXCEPT ![r] = Value] /\ Value' = Value
  <2>1. /\ reader'[r] = IF path = None THEN NotRead ELSE Opened("read", path)
        /\ \A s \in Readers \ {r} : reader'[s] = reader[s]
    BY <1>0, <1>7 DEF Open, TypeOK
  <2>2. UNCHANGED <<path, data>>
    BY <1>7 DEF Open
  <2>3. Answer(r)' = Value
    BY <2>1, <2>2 DEF Answer, Value, NotRead, Opened, Nowhere
  <2>4. \A s \in Readers \ {r} : Answer(s)' = Answer(s)
    BY <2>1, <2>2 DEF Answer
  <2> QED
    BY <2>2, <2>3, <2>4 DEF Answers, Value
<1>8. ASSUME NEW r \in Readers, ReadPiece(r) \/ Finish(r) PROVE Stutters
  <2>1. /\ UNCHANGED <<path, data>> /\ reader[r].at = "read"
        /\ \A s \in Readers \ {r} : reader'[s] = reader[s]
    BY <1>0, <1>8 DEF ReadPiece, Finish, TypeOK
  <2>2. Answer(r)' = Answer(r)
    <3>1. CASE ReadPiece(r)
      <4>1. reader'[r].at = "read" /\ reader'[r].inode = reader[r].inode
        BY <1>0, <3>1 DEF ReadPiece, TypeOK, Reads
      <4> QED
        BY <2>1, <4>1 DEF Answer
    <3>2. CASE Finish(r)
      <4>1. PICK v \in Contents : Reading(r, v)
        BY <1>0, <2>1 DEF ReadersWhole
      <4>2. data[reader[r].inode][1] = v
        BY <4>1 DEF Reading, Holds, Whole
      <4>3. reader'[r].at = "done"
        BY <1>0, <3>2 DEF Finish, TypeOK, Reads
      <4>4. reader'[r].got[1] = v
        <5>1. reader[r].next > 1
          BY <1>0, <3>2, <4>2 DEF Finish, TypeOK, Reads
        <5>2. reader'[r].got = reader[r].got
          BY <1>0, <3>2 DEF Finish, TypeOK, Reads
        <5> QED
          BY <4>1, <5>1, <5>2 DEF Reading
      <4> QED
        BY <2>1, <4>2, <4>3, <4>4 DEF Answer
    <3> QED
      BY <1>8, <3>1, <3>2
  <2>3. \A s \in Readers \ {r} : Answer(s)' = Answer(s)
    BY <2>1 DEF Answer
  <2> QED
    BY <2>1, <2>2, <2>3 DEF Answers, Value
<1>9. CASE UNCHANGED vars
  BY <1>9 DEF vars, Value, Answers, Answer
<1>10. Stutters => [Register!Next]_<<Value, Answers>>
  OBVIOUS
<1>11. Value' \in Contents /\ Answers' = Answers => Register!Next
  BY DEF Register!Next, Register!Write, Value, Answers, Answer
<1>12. ASSUME NEW r \in Readers, Answers' = [Answers EXCEPT ![r] = Value], Value' = Value
       PROVE  Register!Next
  BY <1>12 DEF Register!Next, Register!Read, Value, Answers, Answer
<1> HIDE DEF Stutters
<1> QED
  BY <1>2, <1>3, <1>4, <1>5, <1>7, <1>8, <1>9, <1>10, <1>11, <1>12 DEF Next, Stutters

\* write_atomic makes the file an atomic register: a read sees what the file
\* held when it was opened, and a call takes effect as a whole or not at all.
THEOREM FileIsARegister == Spec => RegisterImplemented
<1>1. (Inv1 /\ Inv2) /\ (Inv1 /\ Inv2)' /\ [Next]_vars => [Register!Next]_<<Value, Answers>>
  BY RegisterStep
<1>2. Init => Register!Init
  BY RegisterInit
<1> QED
  BY Invariant2, <1>1, <1>2, PTL DEF Spec, RegisterImplemented, Register!Spec, Value, Answers,
     Answer
=============================================================================
