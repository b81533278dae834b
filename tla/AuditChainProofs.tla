-------------------------- MODULE AuditChainProofs --------------------------
(***************************************************************************)
(* Proofs about AuditChain, for any number of threads, events and tenants: *)
(* the types; that the two writers never fork the chain, whatever happens  *)
(* in between; that a rotation deletes only what it has selected; that the *)
(* history is one chain and verify_chain raises no false alarm; what its   *)
(* checkpoint lets it skip; and that the locks are not waited for in a     *)
(* cycle.  Each invariant rests on the ones before it:                     *)
(* TypeInv, ChainInv, Duty, Selected, Line, Points, Owners.                *)
(***************************************************************************)
EXTENDS AuditChain, TLAPS

-----------------------------------------------------------------------------
(* The first and the last row of a set of rows.                            *)

\* Every nonempty part of R has a least and a largest rowid.  A finite set of
\* rows is like that, and the steps of the store keep a table like that.
Ends(R) ==
  \A S \in SUBSET R : S # {} =>
    /\ \E r \in S : \A q \in S : r.rowid <= q.rowid
    /\ \E r \in S : \A q \in S : q.rowid <= r.rowid

\* FirstRow picks a row with the least rowid.
LEMMA FirstRowFact ==
  ASSUME NEW R, R # {}, Ends(R)
  PROVE  FirstRow(R) \in R /\ \A q \in R : FirstRow(R).rowid <= q.rowid
<1>1. \E r \in R : \A q \in R : r.rowid <= q.rowid
  BY Zenon DEF Ends
<1> QED BY Zenon, <1>1 DEF FirstRow

\* LastRow picks a row with the largest rowid.
LEMMA LastRowFact ==
  ASSUME NEW R, R # {}, Ends(R)
  PROVE  LastRow(R) \in R /\ \A q \in R : q.rowid <= LastRow(R).rowid
<1>1. \E r \in R : \A q \in R : q.rowid <= r.rowid
  BY Zenon DEF Ends
<1> QED BY Zenon, <1>1 DEF LastRow

\* A part of such a set is such a set.
LEMMA EndsSubset ==
  ASSUME NEW R, NEW S \in SUBSET R, Ends(R)
  PROVE  Ends(S)
BY Zenon DEF Ends

\* Such a set stays so when a row with a larger rowid is added.
LEMMA EndsAdd ==
  ASSUME NEW R \in SUBSET Row, NEW n \in Row, \A q \in R : q.rowid < n.rowid, Ends(R)
  PROVE  Ends(R \cup {n})
<1>1. \A q \in R \cup {n} : q.rowid \in Nat
  BY Zenon DEF Row
<1> SUFFICES ASSUME NEW S \in SUBSET (R \cup {n}), S # {}
             PROVE  /\ \E r \in S : \A q \in S : r.rowid <= q.rowid
                    /\ \E r \in S : \A q \in S : q.rowid <= r.rowid
  BY Zenon DEF Ends
<1> DEFINE T == S \ {n}
<1>2. CASE T = {}
  BY <1>1, <1>2
<1>3. CASE T # {}
  <2>1. T \in SUBSET R
    BY Zenon
  <2>2. PICK a \in T, b \in T : \A q \in T : a.rowid <= q.rowid /\ q.rowid <= b.rowid
    BY Zenon, <1>3, <2>1 DEF Ends
  <2>3. a \in S /\ \A q \in S : a.rowid <= q.rowid
    BY <1>1, <2>1, <2>2
  <2>4. n \notin S => b \in S /\ \A q \in S : q.rowid <= b.rowid
    BY Zenon, <2>2
  <2>5. \A q \in S : q.rowid <= n.rowid
    BY <1>1
  <2> QED BY Zenon, <2>3, <2>4, <2>5
<1> QED BY Zenon, <1>2, <1>3

\* The hash of a row is a sequence of ids one longer than its prev_hash.
LEMMA HashFact ==
  ASSUME NEW r \in Row
  PROVE  /\ Hash(r) \in Seq(Events)
         /\ Len(Hash(r)) = Len(r.prev) + 1
         /\ Hash(r)[Len(r.prev) + 1] = r.id
         /\ \A i \in 1 .. Len(r.prev) : Hash(r)[i] = r.prev[i]
BY DEF Hash, Row

-----------------------------------------------------------------------------
(* Types.                                                                  *)

\* The table, and every part of it, has its ends; a rotation past its SELECT
\* holds a nonempty selection; an open transaction inserts a real event.
TypeInv ==
  /\ TypeOK
  /\ Ends(rows)
  /\ \A t \in Threads : Ends(sel[t])
  /\ \A t \in Threads : pc[t] \in {"archive", "delete", "anchor"} => sel[t] # {}
  /\ \A p \in Procs : pc[p] = "commit" => job[p].ev \in Events

\* The predecessor and the rowid of the next insert have their types.
LEMMA InsertTypes ==
  ASSUME TypeInv
  PROVE  PrevHash \in Seq(Events) /\ NextRowid \in Nat \ {0}
<1>1. rows # {} => LastRow(rows) \in Row
  BY Zenon, LastRowFact DEF TypeInv, TypeOK
<1>2. rows # {} => Hash(LastRow(rows)) \in Seq(Events)
  BY Zenon, <1>1, HashFact
<1>3. cp.ahash \in Seq(Events)
  BY Zenon DEF TypeInv, TypeOK, Checkpoint
<1> QED BY <1>1, <1>2, <1>3 DEF PrevHash, NextRowid, Row

\* The next rowid is larger than the rowids of the table.
LEMMA NextRowidFact ==
  ASSUME TypeInv
  PROVE  \A q \in rows : q.rowid < NextRowid
<1>1. \A q \in rows : q.rowid \in Nat
  BY Zenon DEF TypeInv, TypeOK, Row
<1>2. rows # {} => LastRow(rows) \in rows /\ \A q \in rows : q.rowid <= LastRow(rows).rowid
  BY Zenon, LastRowFact DEF TypeInv
<1> QED BY <1>1, <1>2 DEF NextRowid

\* VACUUM keeps the ids, the predecessors and the order of the rows.
LEMMA RenumberedTable ==
  ASSUME TypeInv, NEW R \in Renumberings
  PROVE  /\ R \subseteq Row /\ Ends(R)
         /\ \E f \in [rows -> R] :
              /\ R = {f[r] : r \in rows}
              /\ \A r \in rows : f[r].id = r.id /\ f[r].prev = r.prev /\ Hash(f[r]) = Hash(r)
              /\ \A q, r \in rows : q.rowid < r.rowid <=> f[q].rowid < f[r].rowid
<1>1. \A r \in rows : r \in Row
  BY Zenon DEF TypeInv, TypeOK
<1>2. PICK g \in [rows -> 1 .. NextRowid - 1] :
        /\ R = {[r EXCEPT !.rowid = g[r]] : r \in rows}
        /\ \A q, r \in rows : q.rowid < r.rowid <=> g[q] < g[r]
  BY Zenon DEF Renumberings
<1>3. \A r \in rows : g[r] \in Nat \ {0}
  BY InsertTypes
<1> DEFINE f == [r \in rows |-> [r EXCEPT !.rowid = g[r]]]
<1>4. \A r \in rows : f[r] \in Row /\ f[r].rowid = g[r] /\ f[r].id = r.id /\ f[r].prev = r.prev
  BY Zenon, <1>1, <1>3 DEF Row
<1>5. f \in [rows -> R] /\ R = {f[r] : r \in rows}
  BY Zenon, <1>2
<1> HIDE DEF f
<1>6. \A r \in rows : Hash(f[r]) = Hash(r)
  BY Zenon, <1>4 DEF Hash
<1>7. \A q, r \in rows : q.rowid < r.rowid <=> f[q].rowid < f[r].rowid
  BY Zenon, <1>2, <1>4
<1>8. Ends(R)
  <2> SUFFICES ASSUME NEW S \in SUBSET R, S # {}
               PROVE  /\ \E x \in S : \A y \in S : x.rowid <= y.rowid
                      /\ \E x \in S : \A y \in S : y.rowid <= x.rowid
    BY Zenon DEF Ends
  <2> DEFINE T == {r \in rows : f[r] \in S}
  <2>1. T \in SUBSET rows /\ T # {} /\ \A y \in S : \E r \in T : y = f[r]
    BY <1>5
  <2>2. PICK a \in T, b \in T : \A q \in T : a.rowid <= q.rowid /\ q.rowid <= b.rowid
    BY Zenon, <2>1 DEF TypeInv, Ends
  <2>3. \A q \in T : f[a].rowid <= f[q].rowid /\ f[q].rowid <= f[b].rowid
    BY <1>1, <1>4, <1>7, <2>2 DEF Row
  <2> QED BY <2>1, <2>3
<1>9. R \subseteq Row
  BY Zenon, <1>4, <1>5
<1> QED BY Zenon, <1>4, <1>5, <1>6, <1>7, <1>8, <1>9

\* An empty database with idle threads is well typed.
LEMMA TypeInvInit == Init => TypeInv
<1> SUFFICES ASSUME Init PROVE TypeInv
  BY Zenon
<1>1. NoCheckpoint \in Checkpoint
  BY DEF NoCheckpoint, Checkpoint, Genesis
<1>2. TypeOK
  BY <1>1, ChainAssumption DEF Init, TypeOK, NoVer, NoJob, Secs, Scopes, Procs, Genesis
<1>3. Ends({})
  BY Zenon DEF Ends
<1>4. rows = {} /\ \A t \in Threads : sel[t] = {}
  BY Zenon DEF Init
<1>5. \A p \in Procs : pc[p] = "idle"
  BY Zenon DEF Init
<1>6. \A t \in Threads : pc[t] = "idle"
  BY Zenon, <1>5 DEF Procs
<1> QED BY Zenon, <1>2, <1>3, <1>4, <1>5, <1>6 DEF TypeInv

\* An insert or an aborted insert keeps the types.
LEMMA TypeInsertion ==
  ASSUME TypeInv, UNCHANGED env, NEW p \in Procs, Insertion(p)
  PROVE  TypeInv'
<1> USE DEF disk, locks, locals, ghosts
<1>1. CASE Commit(p)
  <2>1. NewRow(p) \in Row /\ [id |-> job[p].ev, prev |-> job[p].prev] \in [id : Events, prev : Seq(Events)]
    BY Zenon, <1>1, InsertTypes DEF TypeInv, TypeOK, NewRow, Row, Commit
  <2>2. TypeOK'
    BY SMTT(90), <1>1, <2>1, ChainAssumption DEF TypeInv, TypeOK, Commit, NoJob, Genesis, Procs
  <2>3. \A q \in rows : q.rowid < NewRow(p).rowid
    BY Zenon, <2>1, NextRowidFact DEF NewRow
  <2>4. Ends(rows')
    BY Zenon, <1>1, <2>1, <2>3, EndsAdd DEF TypeInv, TypeOK, Commit
  <2>5. \A t \in Threads : Ends(sel'[t])
    BY Zenon, <1>1 DEF TypeInv, Commit
  <2>6. \A t \in Threads : pc'[t] \in {"archive", "delete", "anchor"} => sel'[t] # {}
    BY Zenon, <1>1 DEF TypeInv, TypeOK, Commit, Procs
  <2>7. \A q \in Procs : pc'[q] = "commit" => job'[q].ev \in Events
    BY Zenon, <1>1 DEF TypeInv, TypeOK, Commit, Procs
  <2> QED BY Zenon, <2>2, <2>4, <2>5, <2>6, <2>7 DEF TypeInv
<1>2. CASE Rollback(p)
  <2>1. TypeOK'
    BY SMTT(90), <1>2, ChainAssumption DEF TypeInv, TypeOK, Rollback, NoJob, Genesis, Procs
  <2>2. \A t \in Threads : pc'[t] \in {"archive", "delete", "anchor"} => sel'[t] # {}
    BY Zenon, <1>2 DEF TypeInv, TypeOK, Rollback, Procs
  <2>3. \A q \in Procs : pc'[q] = "commit" => job'[q].ev \in Events
    BY Zenon, <1>2 DEF TypeInv, TypeOK, Rollback, Procs
  <2>4. UNCHANGED <<rows, sel>>
    BY Zenon, <1>2 DEF Rollback
  <2> QED BY Zenon, <2>1, <2>2, <2>3, <2>4 DEF TypeInv
<1> QED BY Zenon, <1>1, <1>2 DEF Insertion

\* Starting a transaction keeps the types.
LEMMA TypeBegin ==
  ASSUME TypeInv, UNCHANGED env, NEW p \in Procs, NEW e \in Events, Begin(p, e),
         writerLock' \in Threads \cup {Nil}
  PROVE  TypeInv'
<1> USE DEF disk, locks, locals, ghosts
<1>1. TypeOK'
  BY Zenon, InsertTypes DEF TypeInv, TypeOK, Begin, BeginImmediate
<1>2. \A t \in Threads : pc'[t] \in {"archive", "delete", "anchor"} => sel'[t] # {}
  BY Zenon DEF TypeInv, TypeOK, Begin, Procs
<1>3. \A q \in Procs : pc'[q] = "commit" => job'[q].ev \in Events
  BY Zenon DEF TypeInv, TypeOK, Begin
<1>4. UNCHANGED <<rows, sel>>
  BY Zenon DEF Begin
<1> QED BY Zenon, <1>1, <1>2, <1>3, <1>4 DEF TypeInv

\* A selection of the oldest rows is a nonempty set of rows that has its ends.
LEMMA OldestFact ==
  ASSUME TypeInv, NEW R \in Oldest
  PROVE  R \in SUBSET Row /\ R # {} /\ Ends(R)
BY Zenon, EndsSubset DEF Oldest, TypeInv, TypeOK

\* The checkpoint a rotation writes has its type.
LEMMA AnchoredType ==
  ASSUME TypeInv, NEW S \in SUBSET Row, S # {}, Ends(S)
  PROVE  Anchored(rows, LastRow(S)) \in Checkpoint
<1>1. LastRow(S) \in Row
  BY Zenon, LastRowFact
<1>2. rows # {} => FirstRow(rows) \in Row
  BY Zenon, FirstRowFact DEF TypeInv, TypeOK
<1>3. Hash(LastRow(S)) \in Seq(Events) /\ (rows # {} => Hash(FirstRow(rows)) \in Seq(Events))
  BY Zenon, <1>1, <1>2, HashFact
<1>4. rows # {} => FirstRow(rows).id \in Events
  BY Zenon, <1>2 DEF Row
<1> QED BY <1>3, <1>4 DEF Anchored, Checkpoint, Genesis

\* The checkpoint of a database that has none (read_checkpoint: no row).
LEMMA NoCheckpointType == NoCheckpoint \in Checkpoint
BY DEF NoCheckpoint, Checkpoint, Genesis

\* A step of enforce_retention keeps the types.
LEMMA TypeRotation ==
  ASSUME TypeInv, UNCHANGED env, NEW t \in Threads, Retain(t) \/ Rotation(t)
  PROVE  TypeInv'
<1> USE DEF disk, locks, locals, ghosts
<1>1. t \in Procs /\ Threads \subseteq Procs /\ 0 \in Secs
  BY ChainAssumption DEF Procs, Secs
<1>a. ASSUME UNCHANGED rows, TypeOK',
             \A u \in Threads : u # t => pc'[u] = pc[u] /\ sel'[u] = sel[u],
             Ends(sel'[t]),
             pc'[t] \in {"archive", "delete", "anchor"} => sel'[t] # {},
             \A q \in Procs : pc'[q] = "commit" => pc[q] = "commit" /\ job'[q] = job[q]
      PROVE  TypeInv'
  BY Zenon, <1>a DEF TypeInv
<1>b. Ends({})
  BY Zenon DEF Ends
<1>2. CASE Retain(t)
  <2>1. TypeOK'
    <3>1. pruned' \subseteq Events
      BY <1>2 DEF Retain, TypeInv, TypeOK, Ids, Row
    <3> QED BY Zenon, <1>1, <1>2, <3>1 DEF TypeInv, TypeOK, Retain
  <2> QED BY Zenon, <1>1, <1>2, <1>a, <2>1 DEF TypeInv, TypeOK, Retain
<1>3. CASE SkipRotation(t)
  <2>1. TypeOK'
    BY Zenon, <1>1, <1>3 DEF TypeInv, TypeOK, SkipRotation
  <2> QED BY Zenon, <1>1, <1>3, <1>a, <2>1 DEF TypeInv, TypeOK, SkipRotation
<1>4. CASE SelectOldest(t)
  <2>1. PICK R \in Oldest : sel' = [sel EXCEPT ![t] = R]
    BY Zenon, <1>4 DEF SelectOldest
  <2>2. R \in SUBSET Row /\ R # {} /\ Ends(R)
    BY Zenon, OldestFact
  <2>3. TypeOK'
    BY Zenon, <1>1, <1>4, <2>1, <2>2 DEF TypeInv, TypeOK, SelectOldest
  <2> QED BY Zenon, <1>1, <1>4, <1>a, <2>1, <2>2, <2>3 DEF TypeInv, TypeOK, SelectOldest
<1>5. CASE WriteArchive(t)
  <2>1. PICK R \in SUBSET Row : archives' = [archives EXCEPT ![now[t]] = R]
    BY Zenon, <1>5 DEF WriteArchive, TypeInv, TypeOK
  <2>2. TypeOK'
    BY Zenon, <1>1, <1>5, <2>1 DEF TypeInv, TypeOK, WriteArchive
  <2> QED BY Zenon, <1>1, <1>5, <1>a, <2>2 DEF TypeInv, TypeOK, WriteArchive
<1>6. CASE RotationFails(t)
  <2>1. TypeOK'
    BY Zenon, <1>1, <1>6 DEF TypeInv, TypeOK, RotationFails, Abandon
  <2> QED BY Zenon, <1>1, <1>6, <1>a, <1>b, <2>1 DEF TypeInv, TypeOK, RotationFails, Abandon
<1>7. CASE DeleteRange(t)
  <2>1. TypeOK'
    BY Zenon, <1>1, <1>7 DEF TypeInv, TypeOK, DeleteRange
  <2>2. rows' \in SUBSET rows
    BY Zenon, <1>7 DEF DeleteRange
  <2>3. Ends(rows')
    BY Zenon, <2>2, EndsSubset DEF TypeInv
  <2> QED BY Zenon, <1>1, <1>7, <2>1, <2>3 DEF TypeInv, TypeOK, DeleteRange
<1>8. CASE ReadFirstRemaining(t)
  <2>1. Anchored(rows, LastRow(sel[t])) \in Checkpoint
    BY Zenon, <1>8, AnchoredType DEF ReadFirstRemaining, TypeInv, TypeOK
  <2>2. TypeOK'
    BY Zenon, <1>1, <1>8, <2>1 DEF TypeInv, TypeOK, ReadFirstRemaining
  <2> QED BY Zenon, <1>1, <1>8, <1>a, <2>2 DEF TypeInv, TypeOK, ReadFirstRemaining
<1>9. CASE StampRotation(t)
  <2>1. cp' \in Checkpoint
    BY <1>9 DEF StampRotation, TypeInv, TypeOK
  <2>2. TypeOK'
    BY Zenon, <1>1, <1>9, <2>1, NoCheckpointType DEF TypeInv, TypeOK, StampRotation
  <2> QED BY Zenon, <1>1, <1>9, <1>a, <1>b, <2>2 DEF TypeInv, TypeOK, StampRotation
<1>10. CASE Vacuum(t)
  <2>1. rows' \in Renumberings
    BY Zenon, <1>10 DEF Vacuum
  <2>2. rows' \subseteq Row /\ Ends(rows')
    BY Zenon, <2>1, RenumberedTable
  <2>3. TypeOK'
    BY Zenon, <1>1, <1>10, <2>2 DEF TypeInv, TypeOK, Vacuum
  <2> QED BY Zenon, <1>1, <1>10, <2>2, <2>3 DEF TypeInv, TypeOK, Vacuum
<1> QED BY Zenon, <1>2, <1>3, <1>4, <1>5, <1>6, <1>7, <1>8, <1>9, <1>10 DEF Rotation

\* Where a scan starts has its type, and so has the rowid that is looked up.
LEMMA StartType ==
  ASSUME TypeInv, NEW c \in Checkpoint, NEW rid \in Nat
  PROVE  Start(c, rid).from \in Nat /\ Start(c, rid).base \in Seq(Events)
<1>1. c.ahash \in Seq(Events) /\ c.vhash \in Seq(Events) /\ Genesis \in Seq(Events)
  BY DEF Checkpoint, Genesis
<1> QED BY Zenon, <1>1 DEF Start

\* The checkpoint a scan leaves is well typed.
LEMMA NewCheckpointType ==
  ASSUME TypeInv, NEW t \in Threads
  PROVE  NewCheckpoint(t) \in Checkpoint
<1>1. Scanned(t) \in SUBSET Row /\ Ends(Scanned(t))
  BY Zenon, EndsSubset DEF Scanned, TypeInv, TypeOK
<1>2. Scanned(t) # {} => LastRow(Scanned(t)) \in Row
  BY Zenon, <1>1, LastRowFact
<1>3. Scanned(t) # {} => /\ Hash(LastRow(Scanned(t))) \in Seq(Events)
                        /\ LastRow(Scanned(t)).id \in Events
  BY Zenon, <1>2, HashFact DEF Row
<1>4. ver[t].cp.ahash \in Seq(Events) /\ Genesis \in Seq(Events)
  BY Zenon, NoCheckpointType DEF TypeInv, TypeOK, Checkpoint, NoCheckpoint
<1> QED BY Zenon, <1>3, <1>4, NoCheckpointType DEF NewCheckpoint, Checkpoint

\* A step of verify_chain keeps the types.
LEMMA TypeVerification ==
  ASSUME TypeInv, UNCHANGED env, NEW t \in Threads,
         Verification(t) \/ \E s \in Scopes : ReadCheckpoint(t, s)
  PROVE  TypeInv'
<1> USE DEF disk, locks, locals, ghosts
<1>1. t \in Procs /\ Threads \subseteq Procs
  BY Zenon DEF Procs
<1>a. ASSUME UNCHANGED <<rows, sel>>, TypeOK',
             \A u \in Procs : u # t => pc'[u] = pc[u],
             pc'[t] \in {"idle", "lookup", "compare", "scan", "cache"},
             UNCHANGED job
      PROVE  TypeInv'
  BY Zenon, <1>1, <1>a DEF TypeInv
<1>b. NoVer \in [cp : Checkpoint, from : Nat, base : Seq(Events), scope : Scopes]
  BY SMTT(90), NoCheckpointType DEF NoVer, Scopes, Genesis
<1>2. ASSUME NEW s \in Scopes, ReadCheckpoint(t, s)
      PROVE  TypeInv'
  <2>1. [NoVer EXCEPT !.cp = cp, !.scope = s]
          \in [cp : Checkpoint, from : Nat, base : Seq(Events), scope : Scopes]
    BY Zenon, <1>b DEF TypeInv, TypeOK
  <2>2. TypeOK'
    BY Zenon, <1>1, <1>2, <2>1 DEF TypeInv, TypeOK, ReadCheckpoint
  <2> QED BY Zenon, <1>1, <1>2, <1>a, <2>2 DEF TypeInv, TypeOK, ReadCheckpoint
<1>3. CASE LookupAnchor(t)
  <2> DEFINE named == {r \in rows : r.id = ver[t].cp.vid}
             rid == IF named = {} THEN 0 ELSE LastRow(named).rowid
  <2>1. named \in SUBSET Row /\ Ends(named)
    BY Zenon, EndsSubset DEF TypeInv, TypeOK
  <2>2. named # {} => LastRow(named) \in Row
    BY Zenon, <2>1, LastRowFact
  <2>3. rid \in Nat
    BY <2>2 DEF Row
  <2>4. ver' = [ver EXCEPT ![t].from = rid]
    BY Zenon, <1>3 DEF LookupAnchor
  <2> HIDE DEF rid
  <2>5. TypeOK'
    BY ZenonT(60), <1>1, <1>3, <2>3, <2>4 DEF TypeInv, TypeOK, LookupAnchor
  <2> QED BY Zenon, <1>1, <1>3, <1>a, <2>5 DEF TypeInv, TypeOK, LookupAnchor
<1>6. CASE CompareAnchor(t)
  <2>1. /\ Start(ver[t].cp, ver[t].from).from \in Nat
        /\ Start(ver[t].cp, ver[t].from).base \in Seq(Events)
    BY Zenon, StartType DEF TypeInv, TypeOK
  <2>2. TypeOK'
    BY ZenonT(60), <1>1, <1>6, <2>1 DEF TypeInv, TypeOK, CompareAnchor
  <2> QED BY Zenon, <1>1, <1>6, <1>a, <2>2 DEF TypeInv, TypeOK, CompareAnchor
<1>4. CASE Scan(t)
  <2>1. NewCheckpoint(t) \in Checkpoint
    BY Zenon, NewCheckpointType
  <2>2. TypeOK'
    BY ZenonT(60), <1>1, <1>b, <1>4, <2>1 DEF TypeInv, TypeOK, Scan
  <2>3. pc' = [pc EXCEPT ![t] = "cache"] \/ pc' = [pc EXCEPT ![t] = "idle"]
    BY Zenon, <1>4 DEF Scan
  <2>4. pc'[t] \in {"idle", "lookup", "compare", "scan", "cache"} /\ \A u \in Procs : u # t => pc'[u] = pc[u]
    BY Zenon, <1>1, <2>3 DEF TypeInv, TypeOK
  <2>5. UNCHANGED <<rows, sel, job>>
    BY Zenon, <1>4 DEF Scan
  <2> QED BY Zenon, <1>a, <2>2, <2>4, <2>5
<1>5. CASE CacheCheckpoint(t)
  <2>1. cp' \in Checkpoint
    BY <1>5 DEF CacheCheckpoint, TypeInv, TypeOK
  <2>2. TypeOK'
    BY Zenon, <1>1, <1>b, <1>5, <2>1, NoCheckpointType DEF TypeInv, TypeOK, CacheCheckpoint
  <2> QED BY Zenon, <1>1, <1>5, <1>a, <2>2 DEF TypeInv, TypeOK, CacheCheckpoint
<1> QED BY Zenon, <1>2, <1>3, <1>4, <1>5, <1>6 DEF Verification

\* The environment keeps the types.
LEMMA TypeEnvironment ==
  ASSUME TypeInv, UNCHANGED env,
         Tick \/ (\E e \in Events : Corrupt(e)) \/ Crash \/ UNCHANGED vars
  PROVE  TypeInv'
<1> USE DEF disk, locks, locals, ghosts
<1>1. CASE Tick
  <2>1. env \in Environment
    BY Zenon, ChainAssumption DEF TypeInv, TypeOK
  <2>a. env.end \in Secs
    BY Zenon, <2>1 DEF Environment, Secs
  <2>2. sec' \in Secs
    BY <1>1, <2>a, ChainAssumption DEF Tick, TypeInv, TypeOK, Secs
  <2>3. TypeOK'
    BY Zenon, <1>1, <2>2 DEF Tick, TypeInv, TypeOK
  <2> QED BY Zenon, <1>1, <2>3 DEF Tick, TypeInv
<1>2. ASSUME NEW e \in Events, Corrupt(e)
      PROVE  TypeInv'
  <2>1. TypeOK'
    BY Zenon, <1>2 DEF Corrupt, TypeInv, TypeOK
  <2> QED BY Zenon, <1>2, <2>1 DEF Corrupt, TypeInv
<1>3. CASE Crash
  <2>1. NoVer \in [cp : Checkpoint, from : Nat, base : Seq(Events), scope : Scopes]
    BY NoCheckpointType DEF NoVer, Scopes, Genesis
  <2>a. 0 \in Secs
    BY ChainAssumption DEF Secs
  <2>b. NoJob \in [ev : Events \cup {Nil}, prev : Seq(Events)]
    BY DEF NoJob, Genesis
  <2>2. TypeOK'
    BY Zenon, <1>3, <2>1, <2>a, <2>b, NoCheckpointType DEF Crash, TypeInv, TypeOK
  <2>3. /\ UNCHANGED rows
        /\ \A t \in Threads : sel'[t] = {} /\ pc'[t] = "idle"
        /\ \A p \in Procs : pc'[p] = "idle"
    BY Zenon, <1>3 DEF Crash, Procs
  <2>4. Ends({})
    BY Zenon DEF Ends
  <2> QED BY Zenon, <2>2, <2>3, <2>4 DEF TypeInv
<1>4. CASE UNCHANGED vars
  BY Zenon, <1>4 DEF vars, TypeInv, TypeOK
<1> QED BY Zenon, <1>1, <1>2, <1>3, <1>4

\* What the environment allows is within the constants, and a step of Next is
\* a step of some thread, of the drain or of the environment.
LEMMA NextCases ==
  ASSUME TypeInv, [Next]_vars
  PROVE  /\ UNCHANGED env
         /\ \/ \E p \in Procs : Insertion(p)
            \/ \E e \in Events : AppendLow(e)
            \/ \E t \in Threads : \E e \in Events : AppendHigh(t, e)
            \/ \E t \in Threads : Retain(t) \/ Rotation(t)
            \/ \E t \in Threads : Verification(t) \/ \E s \in Scopes : ReadCheckpoint(t, s)
            \/ Tick \/ (\E e \in Events : Corrupt(e)) \/ Crash \/ UNCHANGED vars
<1>1. env \in Environment
  BY Zenon, ChainAssumption DEF TypeInv, TypeOK
<1>2. /\ env.threads \subseteq Threads /\ env.low \subseteq Events
      /\ env.high \subseteq Events /\ env.scopes \subseteq Scopes
  BY Zenon, <1>1 DEF Environment, Scopes
<1>3. CASE UNCHANGED vars
  BY Zenon, <1>3 DEF vars
<1>4. CASE Next
  BY Zenon, <1>2, <1>4 DEF Next
<1> QED BY Zenon, <1>3, <1>4

\* Every step keeps the types.
LEMMA TypeNext == TypeInv /\ [Next]_vars => TypeInv'
<1> SUFFICES ASSUME TypeInv, [Next]_vars PROVE TypeInv'
  BY Zenon
<1>1. UNCHANGED env
  BY Zenon, NextCases
<1>2. ASSUME NEW p \in Procs, Insertion(p) PROVE TypeInv'
  BY Zenon, <1>1, <1>2, TypeInsertion
<1>3. ASSUME NEW e \in Events, AppendLow(e) PROVE TypeInv'
  <2>1. Drain \in Procs /\ writerLock' \in Threads \cup {Nil}
    BY Zenon, <1>3 DEF Procs, AppendLow, TypeInv, TypeOK
  <2> QED BY Zenon, <1>1, <1>3, <2>1, TypeBegin DEF AppendLow
<1>4. ASSUME NEW t \in Threads, NEW e \in Events, AppendHigh(t, e) PROVE TypeInv'
  <2>1. t \in Procs /\ writerLock' \in Threads \cup {Nil}
    BY Zenon, <1>4 DEF Procs, AppendHigh
  <2> QED BY Zenon, <1>1, <1>4, <2>1, TypeBegin DEF AppendHigh
<1>5. ASSUME NEW t \in Threads, Retain(t) \/ Rotation(t) PROVE TypeInv'
  BY Zenon, <1>1, <1>5, TypeRotation
<1>6. ASSUME NEW t \in Threads,
             Verification(t) \/ \E s \in Scopes : ReadCheckpoint(t, s)
      PROVE  TypeInv'
  BY Zenon, <1>1, <1>6, TypeVerification
<1>7. CASE Tick \/ (\E e \in Events : Corrupt(e)) \/ Crash \/ UNCHANGED vars
  BY Zenon, <1>1, <1>7, TypeEnvironment
<1> QED BY Zenon, <1>2, <1>3, <1>4, <1>5, <1>6, <1>7, NextCases

\* Every variable of the audit store keeps its type, in every behaviour.
THEOREM TypeCorrect == Spec => []TypeOK
<1>1. TypeInv => TypeOK
  BY Zenon DEF TypeInv
<1> QED BY <1>1, TypeInvInit, TypeNext, PTL DEF Spec

-----------------------------------------------------------------------------
(* The chain is never forked.                                              *)

\* A hash covers committed events only.
Over(h) == \A i \in 1 .. Len(h) : h[i] \in Ids(written)

\* The transaction in progress holds SQLite's write lock, its event is new, and
\* its predecessor covers committed events only and, unless an event_hash was
\* emptied, is still the one it would read now.
OpenTx ==
  \A p \in Procs : pc[p] = "commit" =>
    /\ dbLock = p /\ Fresh(job[p].ev)
    /\ Over(job[p].prev) /\ (blank = {} => job[p].prev = PrevHash)

\* Everything a predecessor can be taken from covers committed events only.
Grounded ==
  /\ \A r \in rows : r.id \in Ids(written) /\ Over(r.prev)
  /\ \A t \in Threads : \A r \in sel[t] : r.id \in Ids(written) /\ Over(r.prev)
  /\ Over(cp.ahash)
  /\ \A t \in Threads : Over(stamp[t].ahash) /\ Over(ver[t].cp.ahash)

\* A row that continues another one comes after it.
Ordered == \A a, b \in rows : b.prev = Hash(a) => a.rowid < b.rowid

\* An event has one row.
Distinct == \A a, b \in rows : a.id = b.id => a = b

ChainInv == OpenTx /\ Grounded /\ Ordered /\ Distinct /\ NoFork

\* The hash of a grounded row covers committed events only.
LEMMA OverHash ==
  ASSUME NEW r \in Row, r.id \in Ids(written), Over(r.prev)
  PROVE  Over(Hash(r))
<1>1. Len(r.prev) \in Nat
  BY DEF Row
<1> QED BY <1>1, HashFact DEF Over

\* The chain invariant holds of the empty database.
LEMMA ChainInit == Init => ChainInv
<1> SUFFICES ASSUME Init PROVE ChainInv
  BY Zenon
<1>1. OpenTx
  BY Zenon DEF Init, OpenTx
<1>2. Over(Genesis)
  BY DEF Over, Genesis
<1>3. Grounded
  BY Zenon, <1>2 DEF Init, Grounded, NoCheckpoint, NoVer
<1>4. Ordered /\ Distinct /\ NoFork
  BY Zenon DEF Init, Ordered, Distinct, NoFork
<1> QED BY Zenon, <1>1, <1>3, <1>4 DEF ChainInv

\* COMMIT: the new row continues the newest row and nothing else does.
LEMMA ChainCommit ==
  ASSUME TypeInv, ChainInv, NEW p \in Procs, Commit(p)
  PROVE  ChainInv'
<1> DEFINE n == NewRow(p)
<1>1. /\ pc[p] = "commit" /\ rows' = rows \cup {n}
      /\ written' = written \cup {[id |-> n.id, prev |-> n.prev]}
      /\ Over(n.prev) /\ n.rowid = NextRowid /\ n.id = job[p].ev
      /\ blank = {} => n.prev = PrevHash
  BY Zenon DEF Commit, NewRow, ChainInv, OpenTx
<1>2. n \in Row
  BY Zenon, InsertTypes DEF Commit, NewRow, Row, TypeInv, TypeOK
<1>3. n.id \notin Ids(written)
  BY Zenon DEF Commit, NewRow, ChainInv, OpenTx, Fresh, Ids
<1>4. Ids(written') = Ids(written) \cup {n.id}
  <2> DEFINE w == [id |-> n.id, prev |-> n.prev]
  <2>1. w.id = n.id /\ written' = written \cup {w}
    BY Zenon, <1>1
  <2> HIDE DEF w, n
  <2> QED BY Zenon, <2>1 DEF Ids
<1>last. rows # {} => LastRow(rows) \in rows /\ \A q \in rows : q.rowid <= LastRow(rows).rowid
  BY Zenon, LastRowFact DEF TypeInv, TypeOK
<1>rowt. \A q \in rows : q \in Row /\ q.rowid \in Nat
  BY Zenon DEF TypeInv, TypeOK, Row
<1>6. \A q \in rows : q.rowid < n.rowid
  BY <1>1, <1>last, <1>rowt DEF NextRowid
<1> HIDE DEF n
<1>7. OpenTx'
  <2>1. \A q \in Procs : pc'[q] = "commit" => q # p /\ pc[q] = "commit"
    BY Zenon DEF Commit, TypeInv, TypeOK
  <2>2. \A q \in Procs : pc[q] = "commit" => q = p
    BY Zenon, <1>1 DEF ChainInv, OpenTx
  <2> QED BY Zenon, <2>1, <2>2 DEF OpenTx
<1>8. Grounded'
  <2>1. \A h \in Seq(Events) : Over(h) => Over(h)'
    BY Zenon, <1>4 DEF Over
  <2>2. \A r \in rows' : r.id \in Ids(written') /\ Over(r.prev)'
    BY Zenon, <1>1, <1>2, <1>4, <1>rowt, <2>1 DEF ChainInv, Grounded, Row, Over
  <2>3. \A t \in Threads : \A r \in sel'[t] : r.id \in Ids(written') /\ Over(r.prev)'
    BY Zenon, <1>4 DEF ChainInv, Grounded, Commit, Over
  <2>4. Over(cp.ahash)'
    BY Zenon, <1>4 DEF ChainInv, Grounded, Commit, Over
  <2>5. \A t \in Threads : Over(stamp[t].ahash)' /\ Over(ver[t].cp.ahash)'
    BY Zenon, <1>4 DEF ChainInv, Grounded, Commit, Over
  <2> QED BY Zenon, <2>2, <2>3, <2>4, <2>5 DEF Grounded
<1>9. \A b \in rows' : b.prev # Hash(n)
  <2>1. Len(n.prev) + 1 \in 1 .. Len(Hash(n)) /\ Hash(n)[Len(n.prev) + 1] = n.id
    BY <1>2, HashFact DEF Row
  <2>2. \A b \in rows' : Over(b.prev)
    BY Zenon, <1>1 DEF ChainInv, Grounded
  <2> QED BY Zenon, <1>3, <2>1, <2>2 DEF Over
<1>10. Ordered'
  <2>1. \A a, b \in rows : b.prev = Hash(a) => a.rowid < b.rowid
    BY Zenon DEF ChainInv, Ordered
  <2> QED BY Zenon, <1>1, <1>6, <1>9, <2>1 DEF Ordered
<1>11. NoFork'
  <2> SUFFICES ASSUME blank = {} PROVE \A a, b \in rows' : a.prev = b.prev => a = b
    BY Zenon DEF NoFork, Commit
  <2>1. \A b \in rows : b.prev # n.prev
    BY <1>1, <1>last, <1>rowt DEF PrevHash, ChainInv, Ordered
  <2>2. \A a, b \in rows : a.prev = b.prev => a = b
    BY Zenon DEF ChainInv, NoFork
  <2> QED BY Zenon, <1>1, <2>1, <2>2
<1>12. Distinct'
  <2>1. \A a \in rows : a.id # n.id
    BY Zenon, <1>3 DEF ChainInv, Grounded
  <2> QED BY Zenon, <1>1, <2>1 DEF ChainInv, Distinct
<1> QED BY Zenon, <1>7, <1>8, <1>10, <1>11, <1>12 DEF ChainInv

\* Without the write lock nobody is inside a transaction.
LEMMA Unlocked ==
  ASSUME ChainInv, dbLock = Nil, NEW p \in Procs
  PROVE  pc[p] # "commit"
BY Zenon, ChainAssumption DEF ChainInv, OpenTx, Procs

\* BEGIN IMMEDIATE and the read of the predecessor.
LEMMA ChainBegin ==
  ASSUME TypeInv, ChainInv, NEW p \in Procs, NEW e \in Events, Begin(p, e)
  PROVE  ChainInv'
<1> USE DEF disk, locks, locals, ghosts
<1>1. OpenTx'
  <2>1. \A q \in Procs : pc[q] # "commit"
    BY Zenon, Unlocked DEF Begin, BeginImmediate
  <2>2. dbLock' = p /\ job'[p].prev = PrevHash /\ job'[p].ev = e /\ Fresh(e)
    BY Zenon DEF Begin, BeginImmediate, TypeInv, TypeOK
  <2>3. PrevHash' = PrevHash /\ written' = written
    BY Zenon DEF PrevHash, Begin
  <2>5. Over(PrevHash)
    <3>1. rows # {} => LastRow(rows) \in rows /\ LastRow(rows) \in Row
      BY Zenon, LastRowFact DEF TypeInv, TypeOK
    <3>2. rows # {} => Over(Hash(LastRow(rows)))
      BY Zenon, <3>1, OverHash DEF ChainInv, Grounded
    <3> QED BY Zenon, <3>2 DEF PrevHash, ChainInv, Grounded
  <2>4. \A q \in Procs : pc'[q] = "commit" => q = p
    BY Zenon, <2>1 DEF Begin, TypeInv, TypeOK
  <2> QED BY Zenon, <2>2, <2>3, <2>4, <2>5 DEF OpenTx, Fresh, Over
<1>2. UNCHANGED <<rows, written, blank, cp, sel, stamp, ver>>
  BY Zenon DEF Begin
<1> QED BY Zenon, <1>1, <1>2 DEF ChainInv, Grounded, Over, Ordered, Distinct, NoFork

\* A step that keeps the table and adds only grounded hashes to what threads
\* and checkpoint remember keeps the chain.
LEMMA ChainFrame ==
  ASSUME ChainInv, OpenTx', UNCHANGED <<rows, written>>, blank \subseteq blank',
         \A t \in Threads : sel'[t] \subseteq sel[t] \cup rows,
         Over(cp'.ahash),
         \A t \in Threads : Over(stamp'[t].ahash) /\ Over(ver'[t].cp.ahash)
  PROVE  ChainInv'
<1>1. Grounded'
  BY Zenon DEF ChainInv, Grounded, Over
<1>2. Ordered' /\ Distinct' /\ NoFork'
  BY Zenon DEF ChainInv, Ordered, Distinct, NoFork
<1> QED BY Zenon, <1>1, <1>2 DEF ChainInv

\* A step that touches neither table nor checkpoint nor the write lock keeps
\* the open transaction as it is.
LEMMA OpenTxFrame ==
  ASSUME ChainInv, UNCHANGED <<rows, written, cp, dbLock, job>>, blank \subseteq blank',
         \A q \in Procs : pc'[q] = "commit" => pc[q] = "commit"
  PROVE  OpenTx'
<1>1. blank' = {} => blank = {} /\ PrevHash' = PrevHash
  BY Zenon DEF PrevHash
<1> QED BY Zenon, <1>1 DEF ChainInv, OpenTx, Fresh, Over

\* The genesis hash covers nothing.
LEMMA OverGenesis == Over(Genesis)
BY DEF Over, Genesis

\* ROLLBACK.
LEMMA ChainRollback ==
  ASSUME TypeInv, ChainInv, NEW p \in Procs, Rollback(p)
  PROVE  ChainInv'
<1> USE DEF disk, locks, locals, ghosts
<1>1. \A q \in Procs : pc'[q] # "commit"
  BY Zenon DEF Rollback, ChainInv, OpenTx, TypeInv, TypeOK
<1>2. OpenTx'
  BY Zenon, <1>1 DEF OpenTx
<1> QED BY Zenon, <1>2 DEF Rollback, ChainInv, Grounded, Over, Ordered, Distinct, NoFork

\* VACUUM keeps the rows and their order.
LEMMA RenumberedChain ==
  ASSUME TypeInv, ChainInv, OpenTx', rows' \in Renumberings,
         UNCHANGED <<written, blank, cp, sel, stamp, ver>>
  PROVE  ChainInv'
<1>1. PICK f \in [rows -> rows'] :
        /\ rows' = {f[r] : r \in rows}
        /\ \A r \in rows : f[r].id = r.id /\ f[r].prev = r.prev /\ Hash(f[r]) = Hash(r)
        /\ \A q, r \in rows : q.rowid < r.rowid <=> f[q].rowid < f[r].rowid
  BY Zenon, RenumberedTable
<1>a. \A x \in rows' : \E r \in rows : x.id = r.id /\ x.prev = r.prev
  BY <1>1
<1>2. Grounded'
  BY ZenonT(60), <1>a DEF ChainInv, Grounded, Over
<1>3. Ordered'
  BY <1>1 DEF ChainInv, Ordered
<1>4. NoFork'
  BY <1>1 DEF ChainInv, NoFork
<1>5. Distinct'
  BY <1>1 DEF ChainInv, Distinct
<1> QED BY Zenon, <1>2, <1>3, <1>4, <1>5 DEF ChainInv

\* A step of enforce_retention: what it deletes or renumbers leaves the order
\* of the remaining rows, and the hash it remembers is one of theirs.
LEMMA ChainRotation ==
  ASSUME TypeInv, ChainInv, NEW t \in Threads, Retain(t) \/ Rotation(t)
  PROVE  ChainInv'
<1> USE DEF disk, locks, locals, ghosts
<1>1. t \in Procs /\ DOMAIN pc = Procs
  BY Zenon DEF Procs, TypeInv, TypeOK
<1>g. /\ Over(cp.ahash)
      /\ \A u \in Threads : Over(stamp[u].ahash) /\ Over(ver[u].cp.ahash)
      /\ Over(NoCheckpoint.ahash)
  BY Zenon, OverGenesis DEF ChainInv, Grounded, NoCheckpoint
<1>2. CASE Retain(t)
  <2>1. OpenTx'
    BY Zenon, <1>1, <1>2, OpenTxFrame DEF Retain
  <2> QED BY Zenon, <1>2, <1>g, <2>1, ChainFrame DEF Retain
<1>3. CASE SkipRotation(t)
  <2>1. OpenTx'
    BY Zenon, <1>1, <1>3, OpenTxFrame DEF SkipRotation
  <2> QED BY Zenon, <1>3, <1>g, <2>1, ChainFrame DEF SkipRotation
<1>4. CASE SelectOldest(t)
  <2>1. OpenTx'
    BY Zenon, <1>1, <1>4, OpenTxFrame DEF SelectOldest
  <2>2. \A u \in Threads : sel'[u] \subseteq sel[u] \cup rows
    BY Zenon, <1>4 DEF SelectOldest, Oldest, TypeInv, TypeOK
  <2> QED BY Zenon, <1>4, <1>g, <2>1, <2>2, ChainFrame DEF SelectOldest
<1>5. CASE WriteArchive(t)
  <2>1. OpenTx'
    BY Zenon, <1>1, <1>5, OpenTxFrame DEF WriteArchive
  <2> QED BY Zenon, <1>5, <1>g, <2>1, ChainFrame DEF WriteArchive
<1>6. CASE RotationFails(t)
  <2>1. OpenTx'
    BY Zenon, <1>1, <1>6, OpenTxFrame DEF RotationFails, Abandon
  <2>2. \A u \in Threads : sel'[u] \subseteq sel[u] \cup rows
    BY Zenon, <1>6 DEF RotationFails, Abandon, TypeInv, TypeOK
  <2> QED BY Zenon, <1>6, <1>g, <2>1, <2>2, ChainFrame DEF RotationFails, Abandon
<1>7. CASE DeleteRange(t)
  <2>1. OpenTx'
    BY Zenon, <1>1, <1>7, Unlocked DEF DeleteRange, OpenTx
  <2>2. rows' \subseteq rows
    BY Zenon, <1>7 DEF DeleteRange
  <2> QED BY Zenon, <1>7, <2>1, <2>2 DEF DeleteRange, ChainInv, Grounded, Over, Ordered, Distinct, NoFork
<1>8. CASE ReadFirstRemaining(t)
  <2>1. OpenTx'
    BY Zenon, <1>1, <1>8, OpenTxFrame DEF ReadFirstRemaining
  <2>2. LastRow(sel[t]) \in sel[t] /\ LastRow(sel[t]) \in Row
    BY Zenon, <1>8, LastRowFact DEF ReadFirstRemaining, TypeInv, TypeOK
  <2>3. Over(Hash(LastRow(sel[t])))
    BY Zenon, <2>2, OverHash DEF ChainInv, Grounded
  <2>4. Anchored(rows, LastRow(sel[t])).ahash = Hash(LastRow(sel[t]))
    BY Zenon DEF Anchored
  <2>5. \A u \in Threads : Over(stamp'[u].ahash) /\ Over(ver'[u].cp.ahash)
    BY Zenon, <1>8, <1>g, <2>3, <2>4 DEF ReadFirstRemaining, TypeInv, TypeOK
  <2> QED BY Zenon, <1>8, <1>g, <2>1, <2>5, ChainFrame DEF ReadFirstRemaining
<1>9. CASE StampRotation(t)
  <2>1. OpenTx'
    BY Zenon, <1>1, <1>9, Unlocked DEF StampRotation, OpenTx
  <2>2. Over(cp'.ahash) /\ \A u \in Threads : Over(stamp'[u].ahash) /\ Over(ver'[u].cp.ahash)
    BY Zenon, <1>9, <1>g DEF StampRotation, TypeInv, TypeOK
  <2>3. \A u \in Threads : sel'[u] \subseteq sel[u] \cup rows
    BY Zenon, <1>9 DEF StampRotation, TypeInv, TypeOK
  <2> QED BY Zenon, <1>9, <2>1, <2>2, <2>3, ChainFrame DEF StampRotation
<1>10. CASE Vacuum(t)
  <2>1. OpenTx'
    BY Zenon, <1>1, <1>10, Unlocked DEF Vacuum, OpenTx
  <2> QED BY Zenon, <1>10, <2>1, RenumberedChain DEF Vacuum
<1> QED BY Zenon, <1>2, <1>3, <1>4, <1>5, <1>6, <1>7, <1>8, <1>9, <1>10 DEF Rotation

\* A step of verify_chain: it only remembers the archived hash it has read.
LEMMA ChainVerification ==
  ASSUME TypeInv, ChainInv, NEW t \in Threads,
         Verification(t) \/ \E s \in Scopes : ReadCheckpoint(t, s)
  PROVE  ChainInv'
<1> USE DEF disk, locks, locals, ghosts
<1>1. t \in Procs /\ DOMAIN pc = Procs /\ DOMAIN ver = Threads /\ DOMAIN stamp = Threads
  BY Zenon DEF Procs, TypeInv, TypeOK
<1>g. /\ Over(cp.ahash)
      /\ \A u \in Threads : Over(stamp[u].ahash) /\ Over(ver[u].cp.ahash)
      /\ Over(NoCheckpoint.ahash) /\ Over(NoVer.cp.ahash)
  BY Zenon, OverGenesis DEF ChainInv, Grounded, NoCheckpoint, NoVer
<1>2. ASSUME NEW s \in Scopes, ReadCheckpoint(t, s)
      PROVE  ChainInv'
  <2>1. OpenTx'
    BY Zenon, <1>1, <1>2, OpenTxFrame DEF ReadCheckpoint
  <2>2. [NoVer EXCEPT !.cp = cp, !.scope = s].cp = cp
    BY Zenon DEF NoVer
  <2>3. \A u \in Threads : Over(stamp'[u].ahash) /\ Over(ver'[u].cp.ahash)
    BY Zenon, <1>1, <1>2, <1>g, <2>2 DEF ReadCheckpoint
  <2> QED BY Zenon, <1>2, <1>g, <2>1, <2>3, ChainFrame DEF ReadCheckpoint
<1>3. CASE LookupAnchor(t)
  <2>1. OpenTx'
    BY Zenon, <1>1, <1>3, OpenTxFrame DEF LookupAnchor
  <2>2. \A u \in Threads : ver'[u].cp = ver[u].cp
    BY <1>1, <1>3 DEF LookupAnchor, TypeInv, TypeOK
  <2> QED BY Zenon, <1>3, <1>g, <2>1, <2>2, ChainFrame DEF LookupAnchor
<1>6. CASE CompareAnchor(t)
  <2>1. OpenTx'
    BY Zenon, <1>1, <1>6, OpenTxFrame DEF CompareAnchor
  <2>2. \A u \in Threads : ver'[u].cp = ver[u].cp
    BY <1>1, <1>6 DEF CompareAnchor, TypeInv, TypeOK
  <2> QED BY Zenon, <1>6, <1>g, <2>1, <2>2, ChainFrame DEF CompareAnchor
<1>4. CASE Scan(t)
  <2>1. OpenTx'
    BY Zenon, <1>1, <1>4, OpenTxFrame DEF Scan
  <2>2. Over(NewCheckpoint(t).ahash)
    BY Zenon, <1>g DEF NewCheckpoint
  <2>3. \A u \in Threads : Over(stamp'[u].ahash) /\ Over(ver'[u].cp.ahash)
    BY Zenon, <1>1, <1>4, <1>g, <2>2 DEF Scan
  <2> QED BY Zenon, <1>4, <1>g, <2>1, <2>3, ChainFrame DEF Scan
<1>5. CASE CacheCheckpoint(t)
  <2>1. OpenTx'
    BY Zenon, <1>1, <1>5, Unlocked DEF CacheCheckpoint, OpenTx
  <2>2. Over(cp'.ahash) /\ \A u \in Threads : Over(stamp'[u].ahash) /\ Over(ver'[u].cp.ahash)
    BY Zenon, <1>1, <1>5, <1>g DEF CacheCheckpoint
  <2> QED BY Zenon, <1>5, <2>1, <2>2, ChainFrame DEF CacheCheckpoint
<1> QED BY Zenon, <1>2, <1>3, <1>4, <1>5, <1>6 DEF Verification

\* The clock, a change of stored content, a crash.
LEMMA ChainEnvironment ==
  ASSUME TypeInv, ChainInv,
         Tick \/ (\E e \in Events : Corrupt(e)) \/ Crash \/ UNCHANGED vars
  PROVE  ChainInv'
<1> USE DEF disk, locks, locals, ghosts
<1>1. CASE Tick
  BY Zenon, <1>1, OpenTxFrame, ChainFrame DEF Tick, ChainInv, Grounded
<1>2. ASSUME NEW e \in Events, Corrupt(e) PROVE ChainInv'
  BY Zenon, <1>2, OpenTxFrame, ChainFrame DEF Corrupt, ChainInv, Grounded
<1>3. CASE Crash
  <2>1. OpenTx'
    BY Zenon, <1>3 DEF Crash, OpenTx
  <2>2. \A u \in Threads : sel'[u] = {} /\ stamp'[u].ahash = Genesis /\ ver'[u].cp.ahash = Genesis
    BY Zenon, <1>3 DEF Crash, NoCheckpoint, NoVer
  <2>3. UNCHANGED <<rows, written, blank, cp>>
    BY Zenon, <1>3 DEF Crash
  <2> QED BY Zenon, <2>1, <2>2, <2>3, OverGenesis, ChainFrame DEF ChainInv, Grounded
<1>4. CASE UNCHANGED vars
  BY Zenon, <1>4, OpenTxFrame, ChainFrame DEF vars, ChainInv, Grounded
<1> QED BY Zenon, <1>1, <1>2, <1>3, <1>4

\* Every step of every thread keeps the chain invariant.
LEMMA ChainNext == TypeInv /\ ChainInv /\ [Next]_vars => ChainInv'
<1> SUFFICES ASSUME TypeInv, ChainInv, [Next]_vars PROVE ChainInv'
  BY Zenon
<1>1. ASSUME NEW p \in Procs, Insertion(p) PROVE ChainInv'
  BY Zenon, <1>1, ChainCommit, ChainRollback DEF Insertion
<1>2. ASSUME NEW e \in Events, AppendLow(e) PROVE ChainInv'
  BY Zenon, <1>2, ChainBegin DEF AppendLow, Procs
<1>3. ASSUME NEW t \in Threads, NEW e \in Events, AppendHigh(t, e) PROVE ChainInv'
  BY Zenon, <1>3, ChainBegin DEF AppendHigh, Procs
<1>4. ASSUME NEW t \in Threads, Retain(t) \/ Rotation(t) PROVE ChainInv'
  BY Zenon, <1>4, ChainRotation
<1>5. ASSUME NEW t \in Threads,
             Verification(t) \/ \E s \in Scopes : ReadCheckpoint(t, s)
      PROVE  ChainInv'
  BY Zenon, <1>5, ChainVerification
<1>6. CASE Tick \/ (\E e \in Events : Corrupt(e)) \/ Crash \/ UNCHANGED vars
  BY Zenon, <1>6, ChainEnvironment
<1> QED BY Zenon, <1>1, <1>2, <1>3, <1>4, <1>5, <1>6, NextCases

\* insert_audit_event never forks the chain: with any number of threads, with
\* the drain thread writing through its own connection, and with rotations,
\* verifications, faults and crashes in between, no two rows of audit_events
\* continue the same predecessor, unless an event_hash was emptied.
THEOREM ChainNeverForks == Spec => []NoFork
<1>1. ChainInv => NoFork
  BY Zenon DEF ChainInv
<1> QED BY <1>1, TypeInvInit, TypeNext, ChainInit, ChainNext, PTL DEF Spec

-----------------------------------------------------------------------------
(* Who is at work, and with which rowids.                                  *)

Verifying == {"lookup", "compare", "scan", "cache"}
Rotating == {"archive", "delete", "anchor", "stamp", "vacuum"}

Unique == \A a, b \in rows : a.rowid = b.rowid => a = b

\* Only the threads of the environment work, the drain only if it has events,
\* nobody rotates below the thresholds, and read_conn has one user at a time.
Duty ==
  /\ \A t \in Threads : pc[t] # "idle" => t \in env.threads
  /\ pc[Drain] # "idle" => env.low # {}
  /\ ~env.rotates => \A t \in Threads : pc[t] \notin Rotating
  /\ \A t \in Threads : pc[t] \in Verifying => readLock = t
  /\ Unique

\* A step of Next, with what the environment has to allow for it.
LEMMA NextSteps ==
  ASSUME TypeInv, [Next]_vars
  PROVE  /\ UNCHANGED env
         /\ \/ \E p \in Procs : Commit(p) \/ Rollback(p)
            \/ \E e \in Events : env.low # {} /\ AppendLow(e)
            \/ \E t \in Threads : /\ t \in env.threads
                                  /\ \/ \E e \in Events : AppendHigh(t, e)
                                     \/ Retain(t) \/ Rotation(t) \/ Verification(t)
                                     \/ \E s \in Scopes : s \in env.scopes /\ ReadCheckpoint(t, s)
            \/ Tick \/ (\E e \in Events : Corrupt(e)) \/ Crash \/ UNCHANGED vars
<1>1. env \in Environment
  BY Zenon, ChainAssumption DEF TypeInv, TypeOK
<1>2. /\ env.threads \subseteq Threads /\ env.low \subseteq Events
      /\ env.high \subseteq Events /\ env.scopes \subseteq Scopes
  BY Zenon, <1>1 DEF Environment, Scopes
<1>3. CASE UNCHANGED vars
  BY Zenon, <1>3 DEF vars
<1>4. CASE Next
  BY Zenon, <1>2, <1>4 DEF Next, Insertion
<1> QED BY Zenon, <1>3, <1>4

\* A new row has a larger rowid than every other.
LEMMA NewestRow ==
  ASSUME TypeInv, NEW p \in Procs, Commit(p)
  PROVE  /\ NewRow(p) \in Row /\ \A q \in rows : q.rowid < NewRow(p).rowid
         /\ rows' = rows \cup {NewRow(p)}
<1>1. /\ NewRow(p) \in Row /\ NewRow(p).rowid = NextRowid
  BY Zenon, InsertTypes DEF Commit, NewRow, Row, TypeInv, TypeOK
<1>2. \A q \in rows : q.rowid \in Nat
  BY Zenon DEF TypeInv, TypeOK, Row
<1>3. rows # {} => LastRow(rows) \in rows /\ \A q \in rows : q.rowid <= LastRow(rows).rowid
  BY Zenon, LastRowFact DEF TypeInv, TypeOK
<1>4. rows' = rows \cup {NewRow(p)}
  BY Zenon DEF Commit
<1> QED BY <1>1, <1>2, <1>3, <1>4 DEF NextRowid


\* The rowids stay different when a row is added.
LEMMA UniqueCommit ==
  ASSUME TypeInv, Unique, NEW p \in Procs, Commit(p)
  PROVE  Unique'
<1>1. \A q \in rows : q.rowid \in Nat
  BY Zenon DEF TypeInv, TypeOK, Row
<1> QED BY <1>1, NewestRow DEF Unique, Row

\* The rowids stay different when rows are renumbered.
LEMMA UniqueRenumbered ==
  ASSUME TypeInv, Unique, rows' \in Renumberings
  PROVE  Unique'
<1>1. PICK f \in [rows -> rows'] :
        /\ rows' = {f[r] : r \in rows}
        /\ \A q, r \in rows : q.rowid < r.rowid <=> f[q].rowid < f[r].rowid
  BY Zenon, RenumberedTable
<1>2. \A r \in rows : r.rowid \in Nat /\ f[r].rowid \in Nat
  <2>1. \A x \in rows' : x.rowid \in Nat
    BY Zenon, RenumberedTable DEF Row
  <2> QED BY Zenon, <1>1, <2>1 DEF TypeInv, TypeOK, Row
<1>3. \A a, b \in rows : f[a].rowid = f[b].rowid => a = b
  <2> SUFFICES ASSUME NEW a \in rows, NEW b \in rows, f[a].rowid = f[b].rowid PROVE a = b
    BY Zenon
  <2>1. ~(a.rowid < b.rowid) /\ ~(b.rowid < a.rowid)
    BY <1>1, <1>2
  <2>2. a.rowid = b.rowid
    BY <1>2, <2>1
  <2> QED BY Zenon, <2>2 DEF Unique
<1> QED BY <1>1, <1>3 DEF Unique

\* A thread moves to another point of its work.
LEMMA DutyStep ==
  ASSUME TypeInv, Duty, UNCHANGED env, Unique', NEW t \in Threads, NEW k,
         pc' = [pc EXCEPT ![t] = k], t \in env.threads \/ k = "idle",
         k \in Rotating => env.rotates, k \in Verifying => readLock' = t,
         readLock' # readLock => (readLock = Nil \/ readLock = t)
  PROVE  Duty'
<1>1. t \in Procs /\ Threads \subseteq Procs /\ DOMAIN pc = Procs /\ t # Drain /\ Nil \notin Threads
  BY Zenon, ChainAssumption DEF Procs, TypeInv, TypeOK
<1>2. pc'[t] = k /\ \A q \in Procs : q # t => pc'[q] = pc[q]
  BY Zenon, <1>1
<1>3. pc'[Drain] = pc[Drain]
  BY Zenon, <1>1, <1>2 DEF Procs
<1>4. \A u \in Threads : pc'[u] \in Verifying => readLock' = u
  BY <1>1, <1>2 DEF Duty
<1> QED BY Zenon, <1>1, <1>2, <1>3, <1>4 DEF Duty, Rotating

\* A step that leaves the rows alone and moves one thread on.
LEMMA DutyQuiet ==
  ASSUME TypeInv, Duty, UNCHANGED <<env, rows, readLock>>, NEW t \in env.threads, t \in Threads,
         NEW k, pc' = [pc EXCEPT ![t] = k], k \in Rotating => env.rotates, k \notin Verifying
  PROVE  Duty'
<1>1. Unique'
  BY Zenon DEF Duty, Unique
<1> QED BY Zenon, <1>1, DutyStep

\* An insertion keeps Duty.
LEMMA DutyInsertion ==
  ASSUME TypeInv, Duty, UNCHANGED env,
         \/ \E p \in Procs : Commit(p) \/ Rollback(p)
         \/ \E e \in Events : env.low # {} /\ AppendLow(e)
         \/ \E t \in Threads : t \in env.threads /\ \E e \in Events : AppendHigh(t, e)
  PROVE  Duty'
<1> USE DEF disk, locks, locals, ghosts
<1>1. DOMAIN pc = Procs /\ Threads \subseteq Procs /\ Drain \in Procs /\ Drain \notin Threads
  BY Zenon, ChainAssumption DEF TypeInv, TypeOK, Procs
<1>2. ASSUME NEW k, pc' = [pc EXCEPT ![Drain] = k], k = "idle" \/ env.low # {},
             UNCHANGED readLock, Unique'
      PROVE  Duty'
  <2>1. pc'[Drain] = k /\ \A t \in Threads : pc'[t] = pc[t]
    BY Zenon, <1>1, <1>2
  <2> QED BY Zenon, <1>2, <2>1 DEF Duty
<1>3. ASSUME NEW p \in Procs, Commit(p) PROVE Duty'
  <2>1. Unique' /\ UNCHANGED readLock
    BY Zenon, <1>3, UniqueCommit DEF Duty, Commit
  <2>2. CASE p \in Threads
    <3>1. pc' = [pc EXCEPT ![p] = "retain"] /\ p \in env.threads
      BY Zenon, <1>3, <2>2 DEF Commit, Duty
    <3> QED BY Zenon, <2>1, <2>2, <3>1, DutyStep DEF Rotating, Verifying
  <2>3. CASE p = Drain
    <3>1. pc' = [pc EXCEPT ![Drain] = "idle"]
      BY Zenon, <1>1, <1>3, <2>3 DEF Commit
    <3> QED BY Zenon, <1>2, <2>1, <3>1
  <2> QED BY Zenon, <2>2, <2>3 DEF Procs
<1>4. ASSUME NEW p \in Procs, Rollback(p) PROVE Duty'
  <2>1. Unique' /\ UNCHANGED readLock /\ pc' = [pc EXCEPT ![p] = "idle"]
    BY Zenon, <1>4 DEF Duty, Rollback, Unique
  <2>2. CASE p \in Threads
    BY Zenon, <2>1, <2>2, DutyStep DEF Rotating, Verifying
  <2>3. CASE p = Drain
    BY Zenon, <1>2, <2>1, <2>3
  <2> QED BY Zenon, <2>2, <2>3 DEF Procs
<1>5. ASSUME NEW e \in Events, env.low # {}, AppendLow(e) PROVE Duty'
  <2>1. Unique' /\ UNCHANGED readLock /\ pc' = [pc EXCEPT ![Drain] = "commit"]
    BY Zenon, <1>5 DEF Duty, AppendLow, Begin, Unique
  <2> QED BY Zenon, <1>2, <1>5, <2>1
<1>6. ASSUME NEW t \in Threads, t \in env.threads, NEW e \in Events, AppendHigh(t, e) PROVE Duty'
  <2>1. UNCHANGED <<rows, readLock>> /\ pc' = [pc EXCEPT ![t] = "commit"]
    BY Zenon, <1>6 DEF AppendHigh, Begin
  <2> QED BY Zenon, <1>6, <2>1, DutyQuiet DEF Rotating, Verifying
<1> QED BY Zenon, <1>3, <1>4, <1>5, <1>6

\* A step of enforce_retention keeps Duty.
LEMMA DutyRotation ==
  ASSUME TypeInv, Duty, UNCHANGED env, NEW t \in Threads, t \in env.threads, Retain(t) \/ Rotation(t)
  PROVE  Duty'
<1> USE DEF disk, locks, locals, ghosts
<1>1. pc[t] \in Rotating => env.rotates
  BY Zenon DEF Duty
<1>2. CASE Retain(t)
  BY Zenon, <1>2, DutyQuiet DEF Retain, Rotating, Verifying
<1>3. CASE SkipRotation(t)
  BY Zenon, <1>3, DutyQuiet DEF SkipRotation, Rotating, Verifying
<1>4. CASE SelectOldest(t)
  BY Zenon, <1>4, DutyQuiet DEF SelectOldest, Rotating, Verifying
<1>5. CASE WriteArchive(t)
  BY Zenon, <1>1, <1>5, DutyQuiet DEF WriteArchive, Rotating, Verifying
<1>6. CASE RotationFails(t)
  BY Zenon, <1>6, DutyQuiet DEF RotationFails, Abandon, Rotating, Verifying
<1>7. CASE DeleteRange(t)
  <2>1. Unique'
    BY Zenon, <1>7 DEF DeleteRange, Duty, Unique
  <2> QED BY Zenon, <1>1, <1>7, <2>1, DutyStep DEF DeleteRange, Rotating, Verifying
<1>8. CASE ReadFirstRemaining(t)
  BY Zenon, <1>1, <1>8, DutyQuiet DEF ReadFirstRemaining, Rotating, Verifying
<1>9. CASE StampRotation(t)
  BY Zenon, <1>1, <1>9, DutyQuiet DEF StampRotation, Rotating, Verifying
<1>10. CASE Vacuum(t)
  <2>1. Unique'
    BY Zenon, <1>10, UniqueRenumbered DEF Vacuum, Duty, Unique
  <2> QED BY Zenon, <1>10, <2>1, DutyStep DEF Vacuum, Rotating, Verifying
<1> QED BY Zenon, <1>2, <1>3, <1>4, <1>5, <1>6, <1>7, <1>8, <1>9, <1>10 DEF Rotation

\* A step of verify_chain keeps Duty.
LEMMA DutyVerification ==
  ASSUME TypeInv, Duty, UNCHANGED env, NEW t \in Threads, t \in env.threads,
         Verification(t) \/ \E s \in Scopes : ReadCheckpoint(t, s)
  PROVE  Duty'
<1> USE DEF disk, locks, locals, ghosts
<1>1. pc[t] \in Verifying => readLock = t
  BY Zenon DEF Duty
<1>2. UNCHANGED rows
  BY Zenon DEF Verification, LookupAnchor, CompareAnchor, Scan, CacheCheckpoint, ReadCheckpoint
<1>3. Unique'
  BY Zenon, <1>2 DEF Duty, Unique
<1>4. ASSUME NEW s \in Scopes, ReadCheckpoint(t, s) PROVE Duty'
  BY Zenon, <1>3, <1>4, DutyStep DEF ReadCheckpoint, Rotating, Verifying
<1>5. CASE LookupAnchor(t)
  BY Zenon, <1>1, <1>3, <1>5, DutyStep DEF LookupAnchor, Rotating, Verifying
<1>8. CASE CompareAnchor(t)
  BY Zenon, <1>1, <1>3, <1>8, DutyStep DEF CompareAnchor, Rotating, Verifying
<1>6. CASE Scan(t)
  <2>1. readLock = t
    BY Zenon, <1>1, <1>6 DEF Scan, Verifying
  <2>2. CASE Caches(t)
    BY Zenon, <1>3, <1>6, <2>1, <2>2, DutyStep DEF Scan, Rotating, Verifying
  <2>3. CASE ~Caches(t)
    BY Zenon, <1>3, <1>6, <2>1, <2>3, DutyStep DEF Scan, Rotating, Verifying
  <2> QED BY Zenon, <2>2, <2>3
<1>7. CASE CacheCheckpoint(t)
  BY Zenon, <1>1, <1>3, <1>7, DutyStep DEF CacheCheckpoint, Rotating, Verifying
<1> QED BY Zenon, <1>4, <1>5, <1>6, <1>7, <1>8 DEF Verification

\* Every step keeps Duty.
LEMMA DutyNext == TypeInv /\ Duty /\ [Next]_vars => Duty'
<1> SUFFICES ASSUME TypeInv, Duty, [Next]_vars PROVE Duty'
  BY Zenon
<1> USE DEF disk, locks, locals, ghosts
<1>1. CASE Tick \/ (\E e \in Events : Corrupt(e)) \/ UNCHANGED vars
  <2>1. UNCHANGED <<env, rows, readLock, pc>>
    BY Zenon, <1>1, NextSteps DEF Tick, Corrupt, vars
  <2> QED BY Zenon, <2>1 DEF Duty, Unique
<1>2. CASE Crash
  <2>1. UNCHANGED <<env, rows>> /\ \A p \in Procs : pc'[p] = "idle"
    BY Zenon, <1>2, NextSteps DEF Crash
  <2> QED BY Zenon, <2>1 DEF Duty, Unique, Rotating, Verifying, Procs
<1> QED BY Zenon, <1>1, <1>2, NextSteps, DutyInsertion, DutyRotation, DutyVerification

\* At the start nobody works.
LEMMA DutyInit == Init => Duty
BY Zenon DEF Init, Duty, Unique, Rotating, Verifying, Procs

-----------------------------------------------------------------------------
(* One rotating thread deletes what it has selected and archived.          *)

\* Between SELECT and DELETE the only rotating thread holds the oldest rows of
\* the table, whatever the drain adds, and has archived them at the DELETE.
Selected ==
  OneCaller =>
    \A t \in Threads :
      /\ pc[t] \in {"archive", "delete"} => sel[t] \in Oldest
      /\ pc[t] = "delete" /\ ~env.faults => archives[now[t]] = sel[t]

\* With one caller the others are idle.
LEMMA Alone ==
  ASSUME Duty, OneCaller, NEW t \in Threads, t \in env.threads, NEW u \in Threads, pc[u] # "idle"
  PROVE  u = t
BY Zenon DEF Duty, OneCaller

\* The rows up to the newest of the oldest rows are those rows.
LEMMA OldestRange ==
  ASSUME TypeInv, NEW R \in Oldest, NEW r \in rows
  PROVE  Between(r, R) <=> r \in R
<1>1. R \in SUBSET Row /\ R \in SUBSET rows /\ R # {} /\ Ends(R)
  BY Zenon, EndsSubset DEF Oldest, TypeInv, TypeOK
<1>2. /\ FirstRow(R) \in R /\ \A q \in R : FirstRow(R).rowid <= q.rowid
      /\ LastRow(R) \in R /\ \A q \in R : q.rowid <= LastRow(R).rowid
  BY Zenon, <1>1, FirstRowFact, LastRowFact
<1>3. r \in R => Between(r, R)
  BY Zenon, <1>2 DEF Between
<1>4. Between(r, R) => r \in R
  BY Zenon, <1>2 DEF Between, Oldest
<1> QED BY Zenon, <1>3, <1>4

\* A step that leaves table, archives and selections alone keeps Selected.
LEMMA SelectedQuiet ==
  ASSUME Selected, UNCHANGED <<env, rows, archives, sel, now>>,
         \A t \in Threads : pc'[t] \in {"archive", "delete"} => pc'[t] = pc[t]
  PROVE  Selected'
<1>1. Oldest' = Oldest /\ (OneCaller' <=> OneCaller)
  BY Zenon DEF Oldest, OneCaller
<1> QED BY Zenon, <1>1 DEF Selected

\* A step of the only caller that does not lead to a deletion keeps Selected.
LEMMA SelectedAlone ==
  ASSUME TypeInv, Duty, UNCHANGED env, NEW t \in Threads, t \in env.threads,
         NEW k, pc' = [pc EXCEPT ![t] = k], k \notin {"archive", "delete"}
  PROVE  Selected'
<1>1. OneCaller' <=> OneCaller
  BY Zenon DEF OneCaller
<1>2. ASSUME OneCaller, NEW u \in Threads PROVE pc'[u] \notin {"archive", "delete"}
  <2>1. t \in DOMAIN pc /\ u \in DOMAIN pc
    BY Zenon DEF TypeInv, TypeOK, Procs
  <2>2. pc[u] # "idle" => u = t
    BY Zenon, <1>2, Alone
  <2> QED BY Zenon, <2>1, <2>2
<1> QED BY Zenon, <1>1, <1>2 DEF Selected

\* An insertion, by a thread or by the drain, keeps Selected.
LEMMA SelectedInsertion ==
  ASSUME TypeInv, Duty, Selected, UNCHANGED env,
         \/ \E p \in Procs : Commit(p) \/ Rollback(p)
         \/ \E e \in Events : env.low # {} /\ AppendLow(e)
         \/ \E t \in Threads : t \in env.threads /\ \E e \in Events : AppendHigh(t, e)
  PROVE  Selected'
<1> USE DEF disk, locks, locals, ghosts
<1>1. DOMAIN pc = Procs /\ Threads \subseteq Procs /\ Drain \in Procs /\ Drain \notin Threads
  BY Zenon, ChainAssumption DEF TypeInv, TypeOK, Procs
<1>2. ASSUME NEW p \in Procs, Commit(p) PROVE Selected'
  <2>1. /\ UNCHANGED <<archives, sel, now>>
        /\ \A t \in Threads : pc'[t] \in {"archive", "delete"} => pc'[t] = pc[t]
    BY Zenon, <1>1, <1>2 DEF Commit
  <2>2. \A R : R \in Oldest => R \in Oldest'
    <3> SUFFICES ASSUME NEW R \in Oldest PROVE R \in Oldest'
      BY Zenon
    <3>1. rows' = rows \cup {NewRow(p)} /\ \A q \in rows : ~(NewRow(p).rowid <= q.rowid)
      <4>1. rows' = rows \cup {NewRow(p)} /\ NewRow(p) \in Row /\ \A q \in rows : q.rowid < NewRow(p).rowid
        BY Zenon, <1>2, NewestRow
      <4>2. \A q \in rows : q.rowid \in Nat
        BY Zenon DEF TypeInv, TypeOK, Row
      <4> QED BY <4>1, <4>2 DEF Row
    <3>2. R \subseteq rows /\ R # {} /\ \A r \in R, q \in rows : q.rowid <= r.rowid => q \in R
      BY Zenon DEF Oldest
    <3> QED BY Zenon, <3>1, <3>2 DEF Oldest
  <2>3. OneCaller' <=> OneCaller
    BY Zenon DEF OneCaller
  <2> QED BY Zenon, <2>1, <2>2, <2>3 DEF Selected
<1>3. ASSUME NEW p \in Procs, Rollback(p) PROVE Selected'
  BY Zenon, <1>1, <1>3, SelectedQuiet DEF Rollback
<1>4. ASSUME NEW e \in Events, AppendLow(e) PROVE Selected'
  BY Zenon, <1>1, <1>4, SelectedQuiet DEF AppendLow, Begin
<1>5. ASSUME NEW t \in Threads, t \in env.threads, NEW e \in Events, AppendHigh(t, e) PROVE Selected'
  BY Zenon, <1>1, <1>5, SelectedQuiet DEF AppendHigh, Begin
<1> QED BY Zenon, <1>2, <1>3, <1>4, <1>5

\* A step of enforce_retention keeps Selected.
LEMMA SelectedRotation ==
  ASSUME TypeInv, Duty, Selected, UNCHANGED env, NEW t \in Threads, t \in env.threads,
         Retain(t) \/ Rotation(t)
  PROVE  Selected'
<1> USE DEF disk, locks, locals, ghosts
<1>1. DOMAIN pc = Procs /\ Threads \subseteq Procs /\ t \in DOMAIN sel
  BY Zenon DEF TypeInv, TypeOK, Procs
<1>2. CASE SelectOldest(t)
  <2>1. PICK R \in Oldest : sel' = [sel EXCEPT ![t] = R]
    BY Zenon, <1>2 DEF SelectOldest
  <2>2. Oldest' = Oldest /\ (OneCaller' <=> OneCaller) /\ pc' = [pc EXCEPT ![t] = "archive"]
    BY Zenon, <1>2 DEF SelectOldest, Oldest, OneCaller
  <2>3. ASSUME OneCaller, NEW u \in Threads, pc'[u] \in {"archive", "delete"} PROVE u = t
    BY Zenon, <1>1, <2>2, <2>3, Alone
  <2>4. sel'[t] = R /\ pc'[t] = "archive"
    BY Zenon, <1>1, <2>1, <2>2
  <2> QED BY <2>1, <2>2, <2>3, <2>4 DEF Selected
<1>3. CASE WriteArchive(t)
  <2>1. Oldest' = Oldest /\ (OneCaller' <=> OneCaller) /\ pc' = [pc EXCEPT ![t] = "delete"]
    BY Zenon, <1>3 DEF WriteArchive, Oldest, OneCaller
  <2>2. ASSUME OneCaller, NEW u \in Threads, pc'[u] \in {"archive", "delete"} PROVE u = t
    BY Zenon, <1>1, <2>1, <2>2, Alone
  <2>3. UNCHANGED <<sel, now>> /\ pc[t] = "archive" /\ pc'[t] = "delete"
    BY Zenon, <1>1, <1>3 DEF WriteArchive
  <2>4. ~env.faults => archives' = [archives EXCEPT ![now[t]] = sel[t]]
    BY Zenon, <1>3 DEF WriteArchive
  <2>5. ~env.faults => archives'[now[t]] = sel[t]
    BY Zenon, <2>4 DEF TypeInv, TypeOK
  <2> QED BY Zenon, <2>1, <2>2, <2>3, <2>5 DEF Selected
<1>4. CASE Retain(t) \/ SkipRotation(t) \/ RotationFails(t) \/ DeleteRange(t)
           \/ ReadFirstRemaining(t) \/ StampRotation(t) \/ Vacuum(t)
  <2>1. \E k \in {"select", "idle", "anchor", "stamp", "vacuum"} : pc' = [pc EXCEPT ![t] = k]
    BY Zenon, <1>4 DEF Retain, SkipRotation, RotationFails, Abandon, DeleteRange,
                ReadFirstRemaining, StampRotation, Vacuum
  <2> QED BY Zenon, <2>1, SelectedAlone
<1> QED BY Zenon, <1>2, <1>3, <1>4 DEF Rotation

\* Every step keeps Selected.
LEMMA SelectedNext == TypeInv /\ Duty /\ Selected /\ [Next]_vars => Selected'
<1> SUFFICES ASSUME TypeInv, Duty, Selected, [Next]_vars PROVE Selected'
  BY Zenon
<1> USE DEF disk, locks, locals, ghosts
<1>1. UNCHANGED env
  BY Zenon, NextSteps
<1>2. CASE Tick \/ (\E e \in Events : Corrupt(e)) \/ UNCHANGED vars
  <2>1. UNCHANGED <<env, rows, archives, sel, now, pc>>
    BY Zenon, <1>1, <1>2 DEF Tick, Corrupt, vars
  <2> QED BY Zenon, <2>1, SelectedQuiet
<1>3. CASE Crash
  <2>1. \A t \in Threads : pc'[t] = "idle"
    BY Zenon, <1>3 DEF Crash, Procs
  <2> QED BY Zenon, <2>1 DEF Selected
<1>4. ASSUME NEW t \in Threads, t \in env.threads,
             Verification(t) \/ \E s \in Scopes : ReadCheckpoint(t, s)
      PROVE  Selected'
  <2>1. \E k \in {"idle", "lookup", "compare", "scan", "cache"} : pc' = [pc EXCEPT ![t] = k]
    BY Zenon, <1>4 DEF Verification, LookupAnchor, CompareAnchor, Scan, CacheCheckpoint, ReadCheckpoint
  <2> QED BY Zenon, <1>1, <1>4, <2>1, SelectedAlone
<1> QED BY Zenon, <1>1, <1>2, <1>3, <1>4, NextSteps, SelectedInsertion, SelectedRotation

\* At the start nothing is selected.
LEMMA SelectedInit == Init => Selected
BY Zenon DEF Init, Selected, Procs

\* Rows leave the table by DELETE only.
LEMMA RowsLeave ==
  ASSUME TypeInv, [Next]_vars, NEW r \in rows, r.id \notin Ids(rows')
  PROVE  \E t \in Threads : t \in env.threads /\ DeleteRange(t) /\ r \notin rows'
<1> USE DEF disk, locks, locals, ghosts
<1>1. r \notin rows' /\ ~(rows \subseteq rows')
  BY Zenon DEF Ids
<1>2. ASSUME NEW t \in Threads, Vacuum(t) PROVE FALSE
  <2>1. rows' \in Renumberings
    BY Zenon, <1>1, <1>2 DEF Vacuum
  <2>2. PICK f \in [rows -> rows'] :
          /\ rows' = {f[q] : q \in rows}
          /\ \A q \in rows : f[q].id = q.id
    BY Zenon, <2>1, RenumberedTable
  <2>3. f[r] \in rows' /\ f[r].id = r.id
    BY Zenon, <2>1, <2>2
  <2> QED BY Zenon, <2>3 DEF Ids
<1>3. ~(\E p \in Procs : Commit(p) \/ Rollback(p))
  BY Zenon, <1>1 DEF Commit, Rollback
<1>4. ~(\E e \in Events : AppendLow(e)) /\ ~(\E t \in Threads, e \in Events : AppendHigh(t, e))
  BY Zenon, <1>1 DEF AppendLow, AppendHigh, Begin
<1>5. ~(Tick \/ (\E e \in Events : Corrupt(e)) \/ Crash \/ UNCHANGED vars)
  BY Zenon, <1>1 DEF Tick, Corrupt, Crash, vars
<1>6. ~(\E t \in Threads : Retain(t) \/ Verification(t) \/ \E s \in Scopes : ReadCheckpoint(t, s))
  BY Zenon, <1>1 DEF Retain, Verification, LookupAnchor, CompareAnchor, Scan, CacheCheckpoint, ReadCheckpoint
<1>7. ASSUME NEW t \in Threads, Rotation(t) PROVE DeleteRange(t)
  BY Zenon, <1>1, <1>2, <1>7 DEF Rotation, SkipRotation, SelectOldest, WriteArchive, RotationFails,
                          Abandon, ReadFirstRemaining, StampRotation
<1> QED BY Zenon, <1>1, <1>3, <1>4, <1>5, <1>6, <1>7, NextSteps

\* A single rotating thread beside the drain deletes only rows it has selected
\* and, unless file writes fail, archived: the TOCTOU remark in rotate_old_rows
\* holds for any number of events and any interleaving with the drain.
THEOREM DeletionsAreSelected == Spec => DeletesOnlySelected
<1> DEFINE Keeps ==
             OneCaller =>
               \A r \in rows : r.id \notin Ids(rows') =>
                 /\ \E t \in Threads : /\ pc[t] = "delete" /\ pc'[t] = "anchor"
                                       /\ r.id \in Ids(sel[t])
                 /\ env.faults \/ \E s \in Secs : r.id \in Ids(archives[s])
<1>1. TypeInv /\ Duty /\ Selected /\ [Next]_vars => Keeps
  <2> SUFFICES ASSUME TypeInv, Selected, [Next]_vars, OneCaller,
                      NEW r \in rows, r.id \notin Ids(rows')
               PROVE  /\ \E t \in Threads : /\ pc[t] = "delete" /\ pc'[t] = "anchor"
                                            /\ r.id \in Ids(sel[t])
                      /\ env.faults \/ \E s \in Secs : r.id \in Ids(archives[s])
    BY Zenon
  <2>1. PICK t \in Threads : DeleteRange(t) /\ r \notin rows'
    BY Zenon, RowsLeave
  <2>2. pc[t] = "delete" /\ pc'[t] = "anchor" /\ Between(r, sel[t])
    BY Zenon, <2>1 DEF DeleteRange, TypeInv, TypeOK, Procs
  <2>3. sel[t] \in Oldest /\ (~env.faults => archives[now[t]] = sel[t])
    BY Zenon, <2>2 DEF Selected
  <2>4. r \in sel[t]
    BY Zenon, <2>2, <2>3, OldestRange
  <2>5. now[t] \in Secs
    BY Zenon DEF TypeInv, TypeOK
  <2> QED BY Zenon, <2>2, <2>3, <2>4, <2>5 DEF Ids
<1>2. DeletesOnlySelected <=> [][Keeps]_vars
  BY Zenon DEF DeletesOnlySelected
<1> HIDE DEF Keeps
<1> QED BY <1>1, <1>2, TypeInvInit, TypeNext, DutyInit, DutyNext, SelectedInit, SelectedNext, PTL DEF Spec

-----------------------------------------------------------------------------
(* The table is one unbroken chain, and verify_chain knows where it starts. *)

Moving == {"anchor", "stamp"}

\* No rotation, or rotation by the only thread of a store in which nothing fails.
Steady == env.rotates => Sequential

IsFirst(r) == \A q \in rows : r.rowid <= q.rowid
Adjacent(a, b) == a.rowid < b.rowid /\ ~\E q \in rows : a.rowid < q.rowid /\ q.rowid < b.rowid
Links == \A a, b \in rows : Adjacent(a, b) => b.prev = Hash(a)

\* The committed event w is on the chain that the hash h covers.
On(w, h) == /\ Len(w.prev) < Len(h) /\ h[Len(w.prev) + 1] = w.id
            /\ \A i \in 1 .. Len(w.prev) : h[i] = w.prev[i]
Tip(h) == IF rows # {} THEN Hash(LastRow(rows)) ELSE h

\* The first row continues h, and everything ever committed is on the chain
\* that ends with the newest row (with h, when the table is empty).
Rooted(h) == /\ \A r \in rows : IsFirst(r) => r.prev = h
             /\ \A w \in written : On(w, Tip(h))

Anchors(c) == c.vid # Nil => \E r \in rows : r.id = c.vid /\ Hash(r) = c.vhash

\* The chain starts where the checkpoint says, or, while a rotation has deleted
\* rows and not yet written its checkpoint, where that rotation will say.
Table ==
  /\ Links
  /\ (\A t \in Threads : pc[t] \notin Moving) => Rooted(cp.ahash) /\ Anchors(cp)
  /\ \A t \in Threads : pc[t] = "anchor" => Rooted(Hash(LastRow(sel[t])))
  /\ \A t \in Threads : pc[t] = "stamp" => Rooted(stamp[t].ahash) /\ Anchors(stamp[t])

\* A verification works with the checkpoint as it is, starts at the root or
\* behind the anchor, and will cache a checkpoint of this table.
Checked(t) ==
  /\ pc[t] \in Verifying => ver[t].cp = cp /\ ver[t].scope \in env.scopes
  /\ pc[t] = "compare" /\ cp.vid # Nil => \E a \in AnchorRows(cp) : a.rowid = ver[t].from
  /\ pc[t] = "scan" =>
       \/ ver[t].from = 0 /\ ver[t].base = cp.ahash
       \/ \E a \in AnchorRows(cp) : a.rowid = ver[t].from /\ Hash(a) = ver[t].base
  /\ pc[t] = "cache" => Anchors(stamp[t]) /\ stamp[t].ahash = cp.ahash
  /\ report[t] = "tampered" => bad # {}

\* All of this as long as no event_hash was emptied.
Line == Steady /\ blank = {} => Table /\ \A t \in Threads : Checked(t)

\* LastRow is the row with the largest rowid.
LEMMA LastIs ==
  ASSUME NEW R \in SUBSET Row, NEW r \in R, \A q \in R : q # r => q.rowid < r.rowid
  PROVE  LastRow(R) = r
<1>1. \A q \in R : q.rowid \in Nat
  BY Zenon DEF Row
<1>2. \A q \in R : q.rowid <= r.rowid
  BY <1>1
<1>3. LastRow(R) \in R /\ r.rowid <= LastRow(R).rowid
  BY Zenon, <1>2 DEF LastRow
<1> QED BY <1>1, <1>3

\* Who is on the chain of h is on the chain that continues it.
LEMMA OnAppend ==
  ASSUME NEW w, w.prev \in Seq(Events), NEW h \in Seq(Events), NEW e \in Events, On(w, h)
  PROVE  On(w, Append(h, e))
BY DEF On

\* While one is at work elsewhere, nobody is in the middle of a rotation.
LEMMA NobodyMoves ==
  ASSUME Duty, Steady, NEW p \in Procs, pc[p] # "idle", pc[p] \notin Moving
  PROVE  \A u \in Threads : pc[u] \notin Moving
<1> SUFFICES ASSUME NEW u \in Threads, pc[u] \in Moving PROVE FALSE
  BY Zenon
<1>1. env.rotates /\ u \in env.threads
  BY Zenon DEF Duty, Moving, Rotating
<1>2. OneCaller /\ env.low = {}
  BY Zenon, <1>1 DEF Steady, Sequential
<1>3. p \in Threads
  BY Zenon, <1>2 DEF Duty, Procs
<1> QED BY Zenon, <1>1, <1>2, <1>3 DEF Duty, OneCaller

\* A step that leaves the table and the rotations in progress alone.
LEMMA TableQuiet ==
  ASSUME Table, UNCHANGED <<rows, written, cp>>,
         \A u \in Threads : pc[u] \in Moving \/ pc'[u] \in Moving =>
            pc'[u] = pc[u] /\ sel'[u] = sel[u] /\ stamp'[u] = stamp[u]
  PROVE  Table'
<1>1. \A h : Rooted(h)' <=> Rooted(h)
  BY Zenon DEF Rooted, IsFirst, Tip, On
<1>2. Links' <=> Links
  BY Zenon DEF Links, Adjacent
<1>3. Anchors(cp)' <=> Anchors(cp)
  BY Zenon DEF Anchors
<1>4. (\A t \in Threads : pc'[t] \notin Moving) => \A t \in Threads : pc[t] \notin Moving
  BY Zenon
<1>5. \A t \in Threads : pc'[t] = "anchor" => Rooted(Hash(LastRow(sel[t])))'
  <2> SUFFICES ASSUME NEW t \in Threads, pc'[t] = "anchor" PROVE Rooted(Hash(LastRow(sel[t])))'
    BY Zenon
  <2>1. pc[t] = "anchor" /\ sel'[t] = sel[t]
    BY Zenon DEF Moving
  <2>2. PICK h : h = Hash(LastRow(sel[t])) /\ h = Hash(LastRow(sel'[t])) /\ Rooted(h)
    BY Zenon, <2>1 DEF Table
  <2>3. Rooted(h)'
    BY Zenon, <1>1, <2>2
  <2> QED BY <2>2, <2>3 DEF Rooted, IsFirst, Tip, On
<1>6. \A t \in Threads : pc'[t] = "stamp" => Rooted(stamp[t].ahash)' /\ Anchors(stamp[t])'
  <2> SUFFICES ASSUME NEW t \in Threads, pc'[t] = "stamp"
               PROVE  Rooted(stamp[t].ahash)' /\ Anchors(stamp[t])'
    BY Zenon
  <2>1. pc[t] = "stamp" /\ stamp'[t] = stamp[t]
    BY Zenon DEF Moving
  <2>2. Rooted(stamp[t].ahash) /\ Anchors(stamp[t])
    BY Zenon, <2>1 DEF Table
  <2> QED BY <2>1, <2>2 DEF Rooted, IsFirst, Tip, On, Anchors
<1>7. Rooted(cp.ahash)' <=> Rooted(cp.ahash)
  BY Zenon DEF Rooted, IsFirst, Tip, On
<1> QED BY Zenon, <1>2, <1>3, <1>4, <1>5, <1>6, <1>7 DEF Table

\* COMMIT adds a row that continues the newest one, or the root.
LEMMA TableCommit ==
  ASSUME TypeInv, ChainInv, Duty, Steady, blank = {}, Table, NEW p \in Procs, Commit(p)
  PROVE  Table'
<1> DEFINE n == NewRow(p)
<1>1. pc[p] = "commit" /\ UNCHANGED cp
  BY Zenon DEF Commit
<1>2. /\ \A u \in Threads : pc[u] \notin Moving
      /\ \A u \in Threads : pc'[u] \notin Moving
  <2>1. \A u \in Threads : pc[u] \notin Moving
    BY Zenon, <1>1, NobodyMoves DEF Moving
  <2> QED BY Zenon, <2>1 DEF Commit, Moving, TypeInv, TypeOK, Procs
<1>3. Rooted(cp.ahash) /\ Anchors(cp)
  BY Zenon, <1>2 DEF Table
<1>4. n \in Row /\ (\A q \in rows : q.rowid < n.rowid) /\ rows' = rows \cup {n}
  BY Zenon, NewestRow
<1>5. /\ n.prev = Tip(cp.ahash) /\ n.prev \in Seq(Events) /\ n.id \in Events
      /\ Hash(n) = Append(Tip(cp.ahash), n.id)
      /\ written' = written \cup {[id |-> n.id, prev |-> n.prev]}
  <2>1. n.prev = job[p].prev /\ n.id = job[p].ev /\ job[p].prev = PrevHash
    BY Zenon, <1>1 DEF NewRow, ChainInv, OpenTx
  <2>2. PrevHash = Tip(cp.ahash)
    BY Zenon DEF PrevHash, Tip
  <2> QED BY Zenon, <1>4, <2>1, <2>2 DEF Commit, Hash, Row
<1>t. \A q \in rows : q \in Row /\ q.rowid \in Nat
  BY Zenon DEF TypeInv, TypeOK, Row
<1>l. rows # {} => LastRow(rows) \in rows /\ \A q \in rows : q.rowid <= LastRow(rows).rowid
  BY Zenon, LastRowFact DEF TypeInv, TypeOK
<1> HIDE DEF n
<1>n. n.rowid \in Nat /\ n \notin rows
  BY <1>4, <1>t DEF Row
<1>6. Links'
  <2> SUFFICES ASSUME NEW a \in rows', NEW b \in rows', Adjacent(a, b)' PROVE b.prev = Hash(a)
    BY Zenon DEF Links
  <2>1. a.rowid < b.rowid /\ \A q \in rows' : ~(a.rowid < q.rowid /\ q.rowid < b.rowid)
    BY Zenon DEF Adjacent
  <2>2. a \in rows
    BY <1>4, <1>n, <1>t, <2>1
  <2>3. CASE b \in rows
    <3>1. Adjacent(a, b)
      BY Zenon, <1>4, <2>1 DEF Adjacent
    <3> QED BY Zenon, <2>2, <2>3, <3>1 DEF Table, Links
  <2>4. CASE b = n
    <3> DEFINE l == LastRow(rows)
    <3>1. l \in rows /\ a.rowid <= l.rowid /\ l.rowid < n.rowid /\ l \in rows'
      BY Zenon, <1>4, <1>l, <2>2
    <3>2. l.rowid = a.rowid
      BY <1>t, <1>n, <2>1, <2>2, <2>4, <3>1
    <3>3. l = a
      BY Zenon, <2>2, <3>1, <3>2 DEF Duty, Unique
    <3> QED BY Zenon, <1>5, <2>2, <2>4, <3>3 DEF Tip
  <2> QED BY Zenon, <1>4, <2>3, <2>4
<1>7. \A r \in rows' : IsFirst(r)' => r.prev = cp.ahash
  <2> SUFFICES ASSUME NEW r \in rows', IsFirst(r)' PROVE r.prev = cp.ahash
    BY Zenon
  <2>1. CASE r \in rows
    BY Zenon, <1>3, <1>4, <2>1 DEF IsFirst, Rooted
  <2>2. CASE r = n
    <3>1. rows = {}
      BY <1>4, <1>n, <1>t, <2>2 DEF IsFirst
    <3> QED BY Zenon, <1>5, <2>2, <3>1 DEF Tip
  <2> QED BY Zenon, <1>4, <2>1, <2>2
<1>8. \A w \in written' : On(w, Hash(n))
  <2> SUFFICES ASSUME NEW w \in written' PROVE On(w, Hash(n))
    BY Zenon
  <2>1. CASE w \in written
    <3>1. On(w, Tip(cp.ahash)) /\ w.prev \in Seq(Events)
      BY Zenon, <1>3, <2>1 DEF Rooted, TypeInv, TypeOK
    <3>2. Tip(cp.ahash) \in Seq(Events)
      BY Zenon, <1>5
    <3>3. On(w, Append(Tip(cp.ahash), n.id))
      BY Zenon, <1>5, <3>1, <3>2, OnAppend
    <3> QED BY Zenon, <1>5, <3>3
  <2>2. CASE w = [id |-> n.id, prev |-> n.prev]
    <3>1. w.prev = n.prev /\ w.id = n.id
      BY Zenon, <2>2
    <3>2. /\ Len(Hash(n)) = Len(n.prev) + 1 /\ Hash(n)[Len(n.prev) + 1] = n.id
          /\ \A i \in 1 .. Len(n.prev) : Hash(n)[i] = n.prev[i]
      BY Zenon, <1>4, HashFact
    <3>3. Len(n.prev) \in Nat
      BY <1>5
    <3> QED BY <3>1, <3>2, <3>3 DEF On
  <2> QED BY Zenon, <1>5, <2>1, <2>2
<1>9. Rooted(cp.ahash)'
  <2>1. LastRow(rows') = n /\ rows' # {}
    <3>1. rows' \in SUBSET Row
      BY Zenon, <1>4, <1>t
    <3> QED BY Zenon, <1>4, <3>1, LastIs
  <2>2. \A w \in written' : On(w, Tip(cp.ahash)')
    BY Zenon, <1>8, <2>1 DEF Tip, Hash
  <2> QED BY Zenon, <1>1, <1>7, <2>2 DEF Rooted, On
<1>10. Anchors(cp)'
  BY Zenon, <1>1, <1>3, <1>4 DEF Anchors
<1> QED BY Zenon, <1>2, <1>6, <1>9, <1>10 DEF Table, Moving

\* DELETE of the oldest rows: the first remaining row continues the last one.
LEMMA TableDelete ==
  ASSUME TypeInv, Duty, Selected, Steady, Table, UNCHANGED env,
         NEW t \in Threads, t \in env.threads, DeleteRange(t)
  PROVE  Table'
<1> USE DEF locals, ghosts
<1> DEFINE R == sel[t]
<1>1. pc[t] = "delete" /\ env.rotates
  BY Zenon DEF DeleteRange, Duty, Rotating
<1>2. OneCaller /\ R \in Oldest
  BY Zenon, <1>1 DEF Steady, Sequential, Selected
<1>3. rows' = rows \ R
  BY Zenon, <1>2, OldestRange DEF DeleteRange
<1>4. /\ pc'[t] = "anchor" /\ UNCHANGED <<sel, written>>
      /\ \A u \in Threads : u # t => pc'[u] = "idle"
  <2>1. \A u \in Threads : pc[u] # "idle" => u = t
    BY Zenon, <1>2, Alone
  <2> QED BY Zenon, <2>1 DEF DeleteRange, TypeInv, TypeOK, Procs
<1>5. Rooted(cp.ahash)
  <2>1. \A u \in Threads : pc[u] \notin Moving
    BY Zenon, <1>1, NobodyMoves DEF Moving, Procs
  <2> QED BY Zenon, <2>1 DEF Table
<1>6. R \subseteq rows /\ R # {} /\ \A r \in R, q \in rows : q.rowid <= r.rowid => q \in R
  BY Zenon, <1>2 DEF Oldest
<1>t. \A q \in rows : q \in Row /\ q.rowid \in Nat
  BY Zenon DEF TypeInv, TypeOK, Row
<1>7. PICK s : s = LastRow(R) /\ s \in R /\ \A q \in R : q.rowid <= s.rowid
  <2>1. R \in SUBSET Row /\ Ends(R)
    BY Zenon, <1>6, EndsSubset DEF TypeInv, TypeOK
  <2> QED BY Zenon, <1>6, <2>1, LastRowFact
<1>l. LastRow(rows) \in rows /\ \A q \in rows : q.rowid <= LastRow(rows).rowid
  BY Zenon, <1>6, LastRowFact DEF TypeInv, TypeOK
<1> HIDE DEF R
<1>8. \A a \in rows' : s.rowid < a.rowid
  BY <1>3, <1>6, <1>7, <1>t
<1>9. Links'
  <2> SUFFICES ASSUME NEW a \in rows', NEW b \in rows', Adjacent(a, b)' PROVE b.prev = Hash(a)
    BY Zenon DEF Links
  <2>1. a \in rows /\ b \in rows
    BY Zenon, <1>3
  <2>2. Adjacent(a, b)
    <3>1. a.rowid < b.rowid /\ \A q \in rows' : ~(a.rowid < q.rowid /\ q.rowid < b.rowid)
      BY Zenon DEF Adjacent
    <3>2. \A q \in R : ~(a.rowid < q.rowid)
      BY <1>6, <1>7, <1>8, <1>t, <2>1
    <3> QED BY Zenon, <1>3, <3>1, <3>2 DEF Adjacent
  <2> QED BY Zenon, <2>1, <2>2 DEF Table, Links
<1>10. \A r \in rows' : IsFirst(r)' => r.prev = Hash(s)
  <2> SUFFICES ASSUME NEW r \in rows', IsFirst(r)' PROVE r.prev = Hash(s)
    BY Zenon
  <2>1. \A q \in rows' : r.rowid <= q.rowid
    BY Zenon DEF IsFirst
  <2>2. r \in rows /\ s \in rows /\ s.rowid < r.rowid
    BY Zenon, <1>3, <1>6, <1>7, <1>8
  <2>3. \A q \in rows : ~(s.rowid < q.rowid /\ q.rowid < r.rowid)
    <3> TAKE q \in rows
    <3>1. CASE q \in R
      BY <1>7, <1>t, <2>2, <3>1
    <3>2. CASE q \in rows'
      BY <1>t, <2>1, <2>2, <3>2
    <3> QED BY Zenon, <1>3, <3>1, <3>2
  <2>4. Adjacent(s, r)
    BY Zenon, <2>2, <2>3 DEF Adjacent
  <2> QED BY Zenon, <2>2, <2>4 DEF Table, Links
<1>11. Tip(Hash(s))' = Tip(cp.ahash)
  <2> DEFINE l == LastRow(rows)
  <2>1. Tip(cp.ahash) = Hash(l)
    BY Zenon, <1>l DEF Tip
  <2>2. CASE l \in rows'
    <3>1. \A q \in rows' : q # l => q.rowid < l.rowid
      BY <1>3, <1>l, <1>t DEF Duty, Unique
    <3>2. rows' \in SUBSET Row
      BY Zenon, <1>3, <1>t
    <3>3. LastRow(rows') = l
      BY Zenon, <2>2, <3>1, <3>2, LastIs
    <3> QED BY Zenon, <2>1, <2>2, <3>3 DEF Tip, Hash
  <2>3. CASE l \in R
    <3>1. rows' = {}
      BY Zenon, <1>3, <1>6, <1>l, <2>3
    <3>2. s.rowid = l.rowid
      BY Zenon, <1>6, <1>7, <1>l, <1>t, <2>3
    <3>3. s = l
      BY Zenon, <1>6, <1>7, <1>l, <3>2 DEF Duty, Unique
    <3> QED BY Zenon, <2>1, <3>1, <3>3 DEF Tip, Hash
  <2> QED BY Zenon, <1>3, <1>l, <2>2, <2>3
<1>12. Rooted(Hash(LastRow(sel[t])))'
  <2>1. LastRow(sel[t])' = s
    BY Zenon, <1>4, <1>7 DEF R
  <2>2. Hash(LastRow(sel[t]))' = Hash(s)
    BY Zenon, <2>1 DEF Hash
  <2>3. \A w \in written : On(w, Tip(cp.ahash))
    BY Zenon, <1>5 DEF Rooted
  <2>4. \A w \in written' : On(w, Tip(Hash(s)))'
    BY Zenon, <1>4, <1>11, <2>3 DEF On
  <2>5. Rooted(Hash(s))'
    BY Zenon, <1>10, <2>4 DEF Rooted, Hash
  <2> QED BY Zenon, <2>2, <2>5 DEF Rooted, Tip, On
<1> QED BY Zenon, <1>4, <1>9, <1>12 DEF Table, Moving

\* The rotation reads the first remaining row and writes the checkpoint.
LEMMA TableAnchor ==
  ASSUME TypeInv, Duty, Steady, Table, UNCHANGED env,
         NEW t \in Threads, t \in env.threads, ReadFirstRemaining(t)
  PROVE  Table'
<1> USE DEF disk, ghosts
<1> DEFINE s == LastRow(sel[t])
           c == Anchored(rows, s)
<1>1. pc[t] = "anchor" /\ env.rotates
  BY Zenon DEF ReadFirstRemaining, Duty, Rotating
<1>2. OneCaller
  BY Zenon, <1>1 DEF Steady, Sequential
<1>3. /\ pc'[t] = "stamp" /\ stamp'[t] = c /\ UNCHANGED <<rows, written>>
      /\ \A u \in Threads : u # t => pc'[u] = "idle"
  <2>1. \A u \in Threads : pc[u] # "idle" => u = t
    BY Zenon, <1>2, Alone
  <2> QED BY Zenon, <2>1 DEF ReadFirstRemaining, TypeInv, TypeOK, Procs
<1>4. c.ahash = Hash(s)
  BY Zenon DEF Anchored
<1>5. Anchors(c)
  <2>1. rows # {} => FirstRow(rows) \in rows
    BY Zenon, FirstRowFact DEF TypeInv, TypeOK
  <2> QED BY Zenon, <2>1 DEF Anchors, Anchored
<1>6. Rooted(Hash(s))
  BY Zenon, <1>1 DEF Table
<1> HIDE DEF s, c
<1>7. Rooted(stamp[t].ahash)' /\ Anchors(stamp[t])'
  BY Zenon, <1>3, <1>4, <1>5, <1>6 DEF Rooted, IsFirst, Tip, On, Anchors
<1>8. Links'
  BY Zenon, <1>3 DEF Table, Links, Adjacent
<1> QED BY Zenon, <1>3, <1>7, <1>8 DEF Table, Moving

\* The checkpoint of a rotation: the chain starts where the new checkpoint says.
LEMMA TableStamp ==
  ASSUME TypeInv, Duty, Steady, Table, UNCHANGED env,
         NEW t \in Threads, t \in env.threads, StampRotation(t)
  PROVE  Table'
<1> USE DEF ghosts
<1>1. pc[t] = "stamp" /\ env.rotates
  BY Zenon DEF StampRotation, Duty, Rotating
<1>2. OneCaller /\ ~env.faults
  BY Zenon, <1>1 DEF Steady, Sequential
<1>3. /\ pc'[t] = "vacuum" /\ cp' = stamp[t] /\ UNCHANGED <<rows, written>>
      /\ \A u \in Threads : u # t => pc'[u] = "idle"
  <2>1. \A u \in Threads : pc[u] # "idle" => u = t
    BY Zenon, <1>2, Alone
  <2> QED BY Zenon, <1>2, <2>1 DEF StampRotation, TypeInv, TypeOK, Procs
<1>4. Rooted(stamp[t].ahash) /\ Anchors(stamp[t])
  BY Zenon, <1>1 DEF Table
<1>5. Rooted(cp.ahash)' /\ Anchors(cp)'
  BY Zenon, <1>3, <1>4 DEF Rooted, IsFirst, Tip, On, Anchors
<1>6. Links'
  BY Zenon, <1>3 DEF Table, Links, Adjacent
<1> QED BY Zenon, <1>3, <1>5, <1>6 DEF Table, Moving

\* VACUUM keeps the chain.
LEMMA TableVacuum ==
  ASSUME TypeInv, Duty, Steady, Table, UNCHANGED env, NEW t \in Threads, t \in env.threads, Vacuum(t)
  PROVE  Table'
<1> USE DEF locals, ghosts
<1>1. /\ \A u \in Threads : pc[u] \notin Moving
      /\ \A u \in Threads : pc'[u] \notin Moving
  <2>1. pc[t] = "vacuum" /\ t \in Procs
    BY Zenon DEF Vacuum, Procs
  <2>2. \A u \in Threads : pc[u] \notin Moving
    BY Zenon, <2>1, NobodyMoves DEF Moving
  <2> QED BY Zenon, <2>2 DEF Vacuum, Moving, TypeInv, TypeOK, Procs
<1>2. UNCHANGED <<cp, written>>
  BY Zenon DEF Vacuum
<1>3. CASE rows' \in Renumberings
  <2>1. PICK f \in [rows -> rows'] :
          /\ rows' = {f[r] : r \in rows}
          /\ \A r \in rows : f[r].id = r.id /\ f[r].prev = r.prev /\ Hash(f[r]) = Hash(r)
          /\ \A a, b \in rows : a.rowid < b.rowid <=> f[a].rowid < f[b].rowid
    BY Zenon, <1>3, RenumberedTable
  <2>2. Rooted(cp.ahash) /\ Anchors(cp) /\ Links
    BY Zenon, <1>1 DEF Table
  <2>3. \A r \in rows : r \in Row /\ r.rowid \in Nat /\ f[r] \in Row /\ f[r].rowid \in Nat
    <3>1. \A x \in rows' : x \in Row /\ x.rowid \in Nat
      BY Zenon, <1>3, RenumberedTable DEF Row
    <3> QED BY Zenon, <2>1, <3>1 DEF TypeInv, TypeOK, Row
  <2>4. Links'
    <3> SUFFICES ASSUME NEW x \in rows', NEW y \in rows', Adjacent(x, y)' PROVE y.prev = Hash(x)
      BY Zenon DEF Links
    <3>1. PICK a \in rows, b \in rows : x = f[a] /\ y = f[b]
      BY Zenon, <1>3, <2>1
    <3>2. f[a].rowid < f[b].rowid /\ \A q \in rows : ~(f[a].rowid < f[q].rowid /\ f[q].rowid < f[b].rowid)
      BY Zenon, <1>3, <2>1, <3>1 DEF Adjacent
    <3>3. Adjacent(a, b)
      BY Zenon, <2>1, <3>2 DEF Adjacent
    <3>4. b.prev = Hash(a) /\ f[b].prev = b.prev /\ Hash(f[a]) = Hash(a)
      BY Zenon, <2>1, <2>2, <3>3 DEF Links
    <3> QED BY Zenon, <3>1, <3>4
  <2>5. \A x \in rows' : IsFirst(x)' => x.prev = cp.ahash
    <3> SUFFICES ASSUME NEW x \in rows', IsFirst(x)' PROVE x.prev = cp.ahash
      BY Zenon
    <3>1. PICK r \in rows : x = f[r]
      BY Zenon, <1>3, <2>1
    <3>2. \A q \in rows : f[r].rowid <= f[q].rowid
      BY Zenon, <1>3, <2>1, <3>1 DEF IsFirst
    <3>3. \A q \in rows : r.rowid <= q.rowid
      BY <2>1, <2>3, <3>2
    <3> QED BY Zenon, <2>1, <2>2, <3>1, <3>3 DEF Rooted, IsFirst
  <2>6. Tip(cp.ahash)' = Tip(cp.ahash)
    <3>1. CASE rows = {}
      BY Zenon, <1>2, <1>3, <2>1, <3>1 DEF Tip
    <3>2. CASE rows # {}
      <4> DEFINE l == LastRow(rows)
      <4>1. l \in rows /\ \A q \in rows : q.rowid <= l.rowid
        BY Zenon, <3>2, LastRowFact DEF TypeInv, TypeOK
      <4>2. \A q \in rows : q # l => q.rowid < l.rowid
        BY <2>3, <4>1 DEF Duty, Unique
      <4> HIDE DEF l
      <4>3. \A x \in rows' : x # f[l] => x.rowid < f[l].rowid
        BY <1>3, <2>1, <4>1, <4>2
      <4>4. f[l] \in rows' /\ rows' \in SUBSET Row
        BY Zenon, <1>3, <2>1, <2>3, <4>1
      <4>5. LastRow(rows') = f[l]
        BY Zenon, <4>3, <4>4, LastIs
      <4>6. Tip(cp.ahash)' = Hash(f[l])
        BY Zenon, <4>4, <4>5 DEF Tip, Hash
      <4> QED BY Zenon, <2>1, <3>2, <4>1, <4>6 DEF Tip, l
    <3> QED BY Zenon, <3>1, <3>2
  <2>7. Rooted(cp.ahash)'
    BY Zenon, <1>2, <2>2, <2>5, <2>6 DEF Rooted, On
  <2>8. Anchors(cp)'
    BY <1>2, <1>3, <2>1, <2>2 DEF Anchors, Hash
  <2> QED BY Zenon, <1>1, <2>4, <2>7, <2>8 DEF Table, Moving
<1> QED BY Zenon, <1>3 DEF Vacuum

\* Caching a checkpoint of this table keeps its root.
LEMMA TableCache ==
  ASSUME TypeInv, Duty, Steady, Table, NEW t \in Threads, Checked(t), CacheCheckpoint(t)
  PROVE  Table'
<1> USE DEF ghosts
<1>1. pc[t] = "cache" /\ t \in Procs
  BY Zenon DEF CacheCheckpoint, Procs
<1>2. /\ \A u \in Threads : pc[u] \notin Moving
      /\ \A u \in Threads : pc'[u] \notin Moving
  <2>1. \A u \in Threads : pc[u] \notin Moving
    BY Zenon, <1>1, NobodyMoves DEF Moving
  <2> QED BY Zenon, <2>1 DEF CacheCheckpoint, Moving, TypeInv, TypeOK, Procs
<1>3. Rooted(cp.ahash) /\ Anchors(cp) /\ Links
  BY Zenon, <1>2 DEF Table
<1>4. UNCHANGED <<rows, written>> /\ (cp' = cp \/ cp' = stamp[t])
  BY Zenon DEF CacheCheckpoint
<1>5. cp'.ahash = cp.ahash /\ Anchors(cp')
  BY Zenon, <1>1, <1>3, <1>4 DEF Checked
<1>6. Rooted(cp.ahash)' /\ Anchors(cp)' /\ Links'
  BY Zenon, <1>3, <1>4, <1>5 DEF Rooted, IsFirst, Tip, On, Anchors, Links, Adjacent
<1> QED BY Zenon, <1>2, <1>6 DEF Table, Moving

-----------------------------------------------------------------------------
(* A verification of an unaltered table finds nothing.                     *)

\* While a rotation is allowed and one thread verifies, no thread rotates.
LEMMA NobodyRotates ==
  ASSUME Duty, Steady, NEW t \in Threads, pc[t] \in Verifying
  PROVE  \A u \in Threads : pc[u] \notin Rotating
<1> SUFFICES ASSUME NEW u \in Threads, pc[u] \in Rotating PROVE FALSE
  BY Zenon
<1>1. env.rotates /\ u \in env.threads /\ t \in env.threads
  BY Zenon DEF Duty, Verifying, Rotating
<1>2. u = t
  BY Zenon, <1>1 DEF Steady, Sequential, OneCaller
<1> QED BY Zenon, <1>2 DEF Verifying, Rotating

\* What a verification relies on stays as it was.
LEMMA CheckedKept ==
  ASSUME NEW u \in Threads, Checked(u), UNCHANGED env, report'[u] = report[u], bad \subseteq bad',
         blank' = {},
         pc'[u] \in Verifying => /\ pc'[u] = pc[u] /\ ver'[u] = ver[u] /\ stamp'[u] = stamp[u]
                                 /\ cp' = cp /\ rows \subseteq rows'
  PROVE  Checked(u)'
<1>1. report'[u] = "tampered" => bad' # {}
  BY Zenon DEF Checked
<1>2. CASE pc'[u] \notin Verifying
  BY Zenon, <1>1, <1>2 DEF Checked, Verifying
<1>3. CASE pc'[u] \in Verifying
  <2>1. /\ pc'[u] = pc[u] /\ ver'[u] = ver[u] /\ stamp'[u] = stamp[u]
        /\ cp' = cp /\ rows \subseteq rows'
    BY Zenon, <1>3
  <2>2. ver'[u].cp = cp' /\ ver'[u].scope \in env'.scopes
    BY Zenon, <1>3, <2>1 DEF Checked
  <2>a. AnchorRows(cp) \subseteq AnchorRows(cp)'
    BY Zenon, <2>1 DEF AnchorRows
  <2>3. pc'[u] = "scan" => \/ ver'[u].from = 0 /\ ver'[u].base = cp'.ahash
                           \/ \E a \in AnchorRows(cp)' : a.rowid = ver'[u].from /\ Hash(a) = ver'[u].base
    BY Zenon, <2>1, <2>a DEF Checked
  <2>5. pc'[u] = "compare" /\ cp'.vid # Nil => \E a \in AnchorRows(cp)' : a.rowid = ver'[u].from
    BY Zenon, <2>1, <2>a DEF Checked
  <2>4. pc'[u] = "cache" => Anchors(stamp[u])' /\ stamp'[u].ahash = cp'.ahash
    BY Zenon, <2>1 DEF Checked, Anchors
  <2> QED BY Zenon, <1>1, <2>2, <2>3, <2>4, <2>5 DEF Checked, Hash
<1> QED BY Zenon, <1>2, <1>3

\* verify_chain finds every row of the scan where it expects it.
LEMMA ScanFindsLinks ==
  ASSUME TypeInv, Duty, Steady, blank = {}, Table, NEW t \in Threads, Checked(t), pc[t] = "scan",
         NEW r \in Scanned(t)
  PROVE  r.prev = Expected(Scanned(t), ver[t].base, r)
<1>1. t \in Procs /\ pc[t] # "idle" /\ pc[t] \notin Moving
  BY Zenon DEF Procs, Moving
<1>2. Links /\ Rooted(cp.ahash)
  BY Zenon, <1>1, NobodyMoves DEF Table
<1>3. \A q \in rows : q.rowid \in Nat \ {0}
  BY Zenon DEF TypeInv, TypeOK, Row
<1>4. PICK from \in Nat : from = ver[t].from
  BY Zenon DEF TypeInv, TypeOK
<1>5. Scanned(t) = {q \in rows : q.rowid > from}
  BY Zenon, <1>4 DEF Scanned
<1>6. PICK before : /\ before = {q \in Scanned(t) : q.rowid < r.rowid}
                    /\ before = {q \in Scanned(t) : q.rowid < r.rowid /\ q.id \notin blank}
  BY Zenon
<1>7. r \in rows /\ r.rowid > from
  BY Zenon, <1>5
<1>8. CASE before # {}
  <2>1. before \in SUBSET rows
    BY Zenon, <1>5, <1>6
  <2>2. Ends(before)
    BY Zenon, <2>1, EndsSubset DEF TypeInv
  <2>3. PICK l : l = LastRow(before) /\ l \in before /\ \A q \in before : q.rowid <= l.rowid
    BY Zenon, <1>8, <2>2, LastRowFact
  <2>4. l \in rows /\ l.rowid > from /\ l.rowid < r.rowid
    BY Zenon, <1>5, <1>6, <2>3
  <2>5. ~\E q \in rows : l.rowid < q.rowid /\ q.rowid < r.rowid
    <3> SUFFICES ASSUME NEW q \in rows, l.rowid < q.rowid, q.rowid < r.rowid PROVE FALSE
      BY Zenon
    <3>1. q \in before
      BY <1>3, <1>5, <1>6, <2>4
    <3> QED BY <1>3, <2>3, <2>4, <3>1
  <2>6. r.prev = Hash(l)
    BY Zenon, <1>2, <1>7, <2>4, <2>5 DEF Links, Adjacent
  <2> QED BY Zenon, <1>6, <1>8, <2>3, <2>6 DEF Expected
<1>9. CASE before = {}
  <2>1. \A q \in rows : q.rowid > from => r.rowid <= q.rowid
    BY <1>3, <1>5, <1>6, <1>7, <1>9
  <2>2. Expected(Scanned(t), ver[t].base, r) = ver[t].base
    BY Zenon, <1>6, <1>9 DEF Expected
  <2>3. CASE from = 0 /\ ver[t].base = cp.ahash
    <3>1. \A q \in rows : r.rowid <= q.rowid
      <4>1. \A q \in rows : q.rowid > 0
        BY <1>3
      <4> QED BY Zenon, <2>1, <2>3, <4>1
    <3>2. IsFirst(r)
      BY Zenon, <3>1 DEF IsFirst
    <3> QED BY Zenon, <1>2, <1>7, <2>2, <2>3, <3>2 DEF Rooted
  <2>4. ASSUME NEW a \in AnchorRows(cp), a.rowid = from, Hash(a) = ver[t].base
        PROVE  r.prev = ver[t].base
    <3>1. a \in rows
      BY Zenon DEF AnchorRows
    <3>2. Adjacent(a, r)
      BY <1>3, <1>7, <2>1, <2>4 DEF Adjacent
    <3> QED BY Zenon, <1>2, <1>7, <2>4, <3>1, <3>2 DEF Links
  <2> QED BY Zenon, <1>4, <2>2, <2>3, <2>4 DEF Checked
<1> QED BY Zenon, <1>8, <1>9

\* The scan: no alarm unless a row was altered, and the checkpoint it will
\* cache names a row of the table.
LEMMA CheckedScan ==
  ASSUME TypeInv, Duty, Steady, blank = {}, Table, UNCHANGED env, NEW t \in Threads, Checked(t), Scan(t)
  PROVE  Checked(t)'
<1> USE DEF disk, ghosts
<1>1. /\ pc[t] = "scan" /\ t \in Procs /\ UNCHANGED <<rows, cp, bad>>
      /\ DOMAIN pc = Procs /\ DOMAIN ver = Threads /\ DOMAIN stamp = Threads /\ DOMAIN report = Threads
  BY Zenon DEF Scan, Procs, TypeInv, TypeOK
<1>2. Tampered(t) => bad # {}
  BY Zenon, <1>1, ScanFindsLinks DEF Tampered, Broken
<1>3. report'[t] = "tampered" => bad' # {}
  BY Zenon, <1>1, <1>2 DEF Scan
<1>4. CASE Caches(t)
  <2>1. stamp'[t] = NewCheckpoint(t) /\ pc'[t] = "cache" /\ ver'[t] = ver[t]
    BY Zenon, <1>1, <1>4 DEF Scan
  <2>2. ver[t].cp = cp /\ ver[t].scope \in env.scopes
    BY Zenon, <1>1 DEF Checked, Verifying
  <2>3. CASE Scanned(t) = {}
    <3>1. cp = NoCheckpoint /\ NewCheckpoint(t) = NoCheckpoint
      BY Zenon, <1>4, <2>2, <2>3 DEF Caches, NewCheckpoint
    <3>2. stamp'[t].vid = Nil /\ stamp'[t].ahash = cp'.ahash
      BY <1>1, <2>1, <3>1 DEF NoCheckpoint
    <3> QED BY Zenon, <1>1, <1>3, <2>1, <2>2, <3>2 DEF Checked, Anchors
  <2>4. CASE Scanned(t) # {}
    <3>1. Scanned(t) \in SUBSET rows /\ Ends(Scanned(t))
      BY Zenon, EndsSubset DEF Scanned, TypeInv
    <3>2. PICK l \in rows : l = LastRow(Scanned(t))
      BY Zenon, <2>4, <3>1, LastRowFact
    <3>3. stamp'[t] = [vid |-> l.id, vhash |-> Hash(l), ahash |-> cp.ahash]
      BY Zenon, <2>1, <2>2, <2>4, <3>2 DEF NewCheckpoint
    <3>a. stamp'[t].vid = l.id /\ stamp'[t].vhash = Hash(l) /\ stamp'[t].ahash = cp'.ahash
      BY <1>1, <3>3
    <3>4. Anchors(stamp[t])'
      BY Zenon, <1>1, <3>a DEF Anchors, Hash
    <3> QED BY Zenon, <1>1, <1>3, <2>1, <2>2, <3>a, <3>4 DEF Checked
  <2> QED BY Zenon, <2>3, <2>4
<1>5. CASE ~Caches(t)
  <2>1. pc'[t] = "idle"
    BY Zenon, <1>1, <1>5 DEF Scan
  <2> QED BY Zenon, <1>3, <2>1 DEF Checked, Verifying
<1> QED BY Zenon, <1>4, <1>5

\* Reading the checkpoint and looking up its row: the scan will start at the
\* root of the chain, or behind the row the checkpoint names.
LEMMA CheckedRead ==
  ASSUME TypeInv, ChainInv, Duty, Steady, blank = {}, Table, UNCHANGED env, NEW t \in Threads, Checked(t),
         \/ LookupAnchor(t) \/ CompareAnchor(t)
         \/ \E s \in Scopes : s \in env.scopes /\ ReadCheckpoint(t, s)
  PROVE  Checked(t)'
<1> USE DEF disk, ghosts
<1>1. t \in Procs /\ DOMAIN pc = Procs /\ DOMAIN ver = Threads /\ DOMAIN report = Threads
  BY Zenon DEF Procs, TypeInv, TypeOK
<1>2. ASSUME NEW s \in Scopes, s \in env.scopes, ReadCheckpoint(t, s)
      PROVE  Checked(t)'
  <2>1. pc'[t] = "lookup" /\ report'[t] = "none" /\ cp' = cp
    BY Zenon, <1>1, <1>2 DEF ReadCheckpoint
  <2>2. ver'[t].cp = cp /\ ver'[t].scope = s
    BY Zenon, <1>1, <1>2 DEF ReadCheckpoint, NoVer
  <2> QED BY Zenon, <1>2, <2>1, <2>2 DEF Checked
<1>3. CASE LookupAnchor(t)
  <2>1. pc[t] = "lookup" /\ pc'[t] = "compare" /\ UNCHANGED <<rows, cp, bad, blank, report>>
    BY Zenon, <1>1, <1>3 DEF LookupAnchor
  <2>2. ver[t].cp = cp /\ ver[t].scope \in env.scopes
    BY Zenon, <2>1 DEF Checked, Verifying
  <2> DEFINE named == {r \in rows : r.id = cp.vid}
             rid == IF named = {} THEN 0 ELSE LastRow(named).rowid
  <2>a. ver' = [ver EXCEPT ![t].from = rid]
    BY Zenon, <1>3, <2>2 DEF LookupAnchor
  <2> HIDE DEF rid
  <2>3. ver'[t].cp = ver[t].cp /\ ver'[t].scope = ver[t].scope /\ ver'[t].from = rid
    BY <1>1, <2>a DEF TypeInv, TypeOK
  <2>4. Anchors(cp)
    BY Zenon, <1>1, <2>1, NobodyMoves DEF Table, Moving
  <2>5. cp'.vid # Nil => \E a \in AnchorRows(cp)' : a.rowid = ver'[t].from
    <3> SUFFICES ASSUME cp.vid # Nil PROVE \E a \in AnchorRows(cp)' : a.rowid = rid
      BY Zenon, <2>1, <2>3
    <3>1. PICK r \in rows : r.id = cp.vid /\ Hash(r) = cp.vhash
      BY Zenon, <2>4 DEF Anchors
    <3>2. named = {r}
      BY Zenon, <3>1 DEF ChainInv, Distinct
    <3>3. rid = r.rowid
      <4>1. \A x, y \in named : x = y
        BY Zenon, <3>2
      <4>2. r.rowid <= r.rowid
        BY DEF TypeInv, TypeOK, Row
      <4>3. LastRow(named) \in named
        BY Zenon, <3>2, <4>2 DEF LastRow
      <4> QED BY Zenon, <3>2, <4>1, <4>3 DEF rid
    <3>4. r \in AnchorRows(cp)'
      BY Zenon, <2>1, <3>1 DEF AnchorRows
    <3> QED BY Zenon, <3>3, <3>4
  <2>6. report'[t] = "tampered" => bad' # {}
    BY Zenon, <2>1 DEF Checked
  <2> QED BY Zenon, <2>1, <2>2, <2>3, <2>5, <2>6 DEF Checked
<1>4. CASE CompareAnchor(t)
  <2>1. pc[t] = "compare" /\ pc'[t] = "scan" /\ UNCHANGED <<rows, cp, bad, blank, report>>
    BY Zenon, <1>1, <1>4 DEF CompareAnchor
  <2>2. ver[t].cp = cp /\ ver[t].scope \in env.scopes
    BY Zenon, <2>1 DEF Checked, Verifying
  <2>3. /\ ver'[t].cp = ver[t].cp /\ ver'[t].scope = ver[t].scope
        /\ ver'[t].from = Start(cp, ver[t].from).from /\ ver'[t].base = Start(cp, ver[t].from).base
    BY <1>1, <1>4, <2>2 DEF CompareAnchor, TypeInv, TypeOK
  <2>4. \/ ver'[t].from = 0 /\ ver'[t].base = cp'.ahash
        \/ \E a \in AnchorRows(cp)' : a.rowid = ver'[t].from /\ Hash(a) = ver'[t].base
    <3>1. CASE cp.vid = Nil
      BY Zenon, <2>1, <2>3, <3>1 DEF Start
    <3>2. CASE cp.vid # Nil
      <4>1. PICK a \in AnchorRows(cp) : a.rowid = ver[t].from
        BY Zenon, <2>1, <3>2 DEF Checked
      <4>2. ver'[t].from = a.rowid /\ ver'[t].base = cp.vhash /\ Hash(a) = cp.vhash
        BY Zenon, <2>3, <3>2, <4>1 DEF Start, AnchorRows
      <4>3. a \in AnchorRows(cp)'
        BY Zenon, <2>1 DEF AnchorRows
      <4> QED BY Zenon, <4>2, <4>3
    <3> QED BY Zenon, <3>1, <3>2
  <2>5. report'[t] = "tampered" => bad' # {}
    BY Zenon, <2>1 DEF Checked
  <2> QED BY Zenon, <2>1, <2>2, <2>3, <2>4, <2>5 DEF Checked, Hash
<1> QED BY Zenon, <1>2, <1>3, <1>4

\* A step outside the verifications and the table leaves Line as it is.
LEMMA LineQuiet ==
  ASSUME Table, \A u \in Threads : Checked(u), UNCHANGED <<env, rows, written, cp, report>>,
         bad \subseteq bad', blank' = {},
         \A u \in Threads : /\ pc[u] \in Moving \/ pc'[u] \in Moving =>
                                 pc'[u] = pc[u] /\ sel'[u] = sel[u] /\ stamp'[u] = stamp[u]
                            /\ pc'[u] \in Verifying =>
                                 pc'[u] = pc[u] /\ ver'[u] = ver[u] /\ stamp'[u] = stamp[u]
  PROVE  Table' /\ \A u \in Threads : Checked(u)'
<1>1. Table'
  BY Zenon, TableQuiet
<1>2. ASSUME NEW u \in Threads PROVE Checked(u)'
  BY Zenon, CheckedKept
<1> QED BY Zenon, <1>1, <1>2

\* An insert, its start and its rollback.
LEMMA LineInsertion ==
  ASSUME TypeInv, ChainInv, Duty, Steady, blank = {}, Table, \A u \in Threads : Checked(u), UNCHANGED env,
         \/ \E p \in Procs : Commit(p) \/ Rollback(p)
         \/ \E p \in Procs, e \in Events : Begin(p, e)
  PROVE  Table' /\ \A u \in Threads : Checked(u)'
<1> USE DEF disk, ghosts
<1>1. DOMAIN pc = Procs /\ Threads \subseteq Procs
  BY Zenon DEF TypeInv, TypeOK, Procs
<1>2. ASSUME NEW p \in Procs, Commit(p) PROVE Table' /\ \A u \in Threads : Checked(u)'
  <2>1. Table'
    BY Zenon, <1>2, TableCommit
  <2>2. /\ UNCHANGED <<cp, ver, stamp, report, bad, blank>> /\ rows \subseteq rows'
        /\ \A u \in Threads : pc'[u] \in Verifying => pc'[u] = pc[u]
    BY Zenon, <1>1, <1>2 DEF Commit, Verifying
  <2>3. ASSUME NEW u \in Threads PROVE Checked(u)'
    BY Zenon, <2>2, CheckedKept
  <2> QED BY Zenon, <2>1, <2>3
<1>3. ASSUME NEW p \in Procs, Rollback(p) \/ \E e \in Events : Begin(p, e)
      PROVE  Table' /\ \A u \in Threads : Checked(u)'
  <2>1. UNCHANGED <<rows, written, cp, ver, stamp, sel, report, bad, blank>>
    BY Zenon, <1>3 DEF Rollback, Begin
  <2>2. \A u \in Threads : /\ pc[u] \in Moving \/ pc'[u] \in Moving => pc'[u] = pc[u]
                           /\ pc'[u] \in Verifying => pc'[u] = pc[u]
    BY Zenon, <1>1, <1>3 DEF Rollback, Begin, Moving, Verifying
  <2> QED BY Zenon, <2>1, <2>2, LineQuiet
<1> QED BY Zenon, <1>2, <1>3

\* A step of enforce_retention.
LEMMA LineRotation ==
  ASSUME TypeInv, Duty, Selected, Steady, blank = {}, Table, \A u \in Threads : Checked(u), UNCHANGED env,
         NEW t \in Threads, t \in env.threads, Retain(t) \/ Rotation(t)
  PROVE  Table' /\ \A u \in Threads : Checked(u)'
<1> USE DEF disk, locks, locals, ghosts
<1>1. /\ t \in Procs /\ Threads \subseteq Procs /\ DOMAIN pc = Procs
      /\ DOMAIN sel = Threads /\ DOMAIN stamp = Threads
  BY Zenon DEF TypeInv, TypeOK, Procs
<1>2. CASE Retain(t) \/ SkipRotation(t) \/ SelectOldest(t) \/ WriteArchive(t) \/ RotationFails(t)
  <2>1. UNCHANGED <<rows, written, cp, ver, stamp, report, bad, blank>>
    BY Zenon, <1>2 DEF Retain, SkipRotation, SelectOldest, WriteArchive, RotationFails, Abandon
  <2>2. PICK k \in {"select", "idle", "archive", "delete"} : pc' = [pc EXCEPT ![t] = k]
    BY Zenon, <1>2 DEF Retain, SkipRotation, SelectOldest, WriteArchive, RotationFails, Abandon
  <2>3. pc[t] \notin Moving /\ \A u \in Threads : u # t => sel'[u] = sel[u]
    BY Zenon, <1>1, <1>2 DEF Retain, SkipRotation, SelectOldest, WriteArchive, RotationFails, Abandon, Moving
  <2>4. \A u \in Threads : /\ pc[u] \in Moving \/ pc'[u] \in Moving => pc'[u] = pc[u] /\ sel'[u] = sel[u]
                           /\ pc'[u] \in Verifying => pc'[u] = pc[u]
    BY Zenon, <1>1, <2>2, <2>3 DEF Moving, Verifying
  <2> QED BY Zenon, <2>1, <2>4, LineQuiet
<1>3. CASE DeleteRange(t) \/ ReadFirstRemaining(t) \/ StampRotation(t) \/ Vacuum(t)
  <2>1. Table'
    BY Zenon, <1>3, TableDelete, TableAnchor, TableStamp, TableVacuum
  <2>2. /\ UNCHANGED <<report, bad, blank>>
        /\ pc[t] \in Rotating
        /\ \E k \in {"anchor", "stamp", "vacuum", "idle"} : pc' = [pc EXCEPT ![t] = k]
    BY Zenon, <1>3 DEF DeleteRange, ReadFirstRemaining, StampRotation, Vacuum, Rotating
  <2>3. \A u \in Threads : pc'[u] \notin Verifying
    <3>1. \A u \in Threads : pc[u] \notin Verifying
      BY Zenon, <2>2, NobodyRotates
    <3> QED BY Zenon, <1>1, <2>2, <3>1 DEF Verifying
  <2>4. ASSUME NEW u \in Threads PROVE Checked(u)'
    BY Zenon, <2>2, <2>3, CheckedKept
  <2> QED BY Zenon, <2>1, <2>4
<1> QED BY Zenon, <1>2, <1>3 DEF Rotation

\* A step of verify_chain: the mutex of read_conn keeps every other thread
\* from verifying at the same time.
LEMMA LineVerification ==
  ASSUME TypeInv, ChainInv, Duty, Steady, blank = {}, Table, \A u \in Threads : Checked(u), UNCHANGED env,
         NEW t \in Threads,
         Verification(t) \/ \E s \in Scopes : s \in env.scopes /\ ReadCheckpoint(t, s)
  PROVE  Table' /\ \A u \in Threads : Checked(u)'
<1> USE DEF disk, locks, locals, ghosts
<1>1. /\ t \in Procs /\ Threads \subseteq Procs /\ DOMAIN pc = Procs /\ Nil \notin Threads
      /\ DOMAIN ver = Threads /\ DOMAIN stamp = Threads /\ DOMAIN report = Threads
  BY Zenon, ChainAssumption DEF TypeInv, TypeOK, Procs
<1>2. \A u \in Threads : u # t => pc'[u] = pc[u] /\ ver'[u] = ver[u] /\ report'[u] = report[u]
                                  /\ stamp'[u] = stamp[u]
  BY Zenon, <1>1 DEF Verification, LookupAnchor, CompareAnchor, Scan, CacheCheckpoint, ReadCheckpoint
<1>3. UNCHANGED <<rows, written, sel, bad, blank>>
  BY Zenon DEF Verification, LookupAnchor, CompareAnchor, Scan, CacheCheckpoint, ReadCheckpoint
<1>4. (UNCHANGED cp) \/ CacheCheckpoint(t)
  BY Zenon DEF Verification, LookupAnchor, CompareAnchor, Scan, ReadCheckpoint
<1>5. pc[t] \notin Moving /\ pc'[t] \notin Moving
  BY Zenon, <1>1 DEF Verification, LookupAnchor, CompareAnchor, Scan, CacheCheckpoint, ReadCheckpoint, Moving
<1>6. Table'
  <2>1. CASE UNCHANGED cp
    BY Zenon, <1>2, <1>3, <1>5, <2>1, TableQuiet
  <2>2. CASE CacheCheckpoint(t)
    BY Zenon, <2>2, TableCache
  <2> QED BY Zenon, <1>4, <2>1, <2>2
<1>7. ASSUME NEW u \in Threads, u # t PROVE Checked(u)'
  <2>1. CASE UNCHANGED cp
    BY Zenon, <1>2, <1>3, <1>7, <2>1, CheckedKept
  <2>2. CASE CacheCheckpoint(t)
    <3>1. readLock = t
      BY Zenon, <2>2 DEF CacheCheckpoint, Duty, Verifying
    <3>2. pc'[u] \notin Verifying
      BY Zenon, <1>2, <1>7, <3>1 DEF Duty
    <3> QED BY Zenon, <1>2, <1>3, <1>7, <3>2, CheckedKept
  <2> QED BY Zenon, <1>4, <2>1, <2>2
<1>8. Checked(t)'
  <2>1. CASE CacheCheckpoint(t)
    <3>1. pc'[t] = "idle" /\ report' = report
      BY Zenon, <1>1, <2>1 DEF CacheCheckpoint
    <3> QED BY Zenon, <1>3, <3>1, CheckedKept DEF Verifying
  <2>2. CASE Scan(t)
    BY Zenon, <2>2, CheckedScan
  <2>3. CASE \/ LookupAnchor(t) \/ CompareAnchor(t)
             \/ \E s \in Scopes : s \in env.scopes /\ ReadCheckpoint(t, s)
    BY Zenon, <2>3, CheckedRead
  <2> QED BY Zenon, <2>1, <2>2, <2>3 DEF Verification
<1> QED BY Zenon, <1>6, <1>7, <1>8

\* An emptied event_hash stays empty.
LEMMA BlankGrows ==
  ASSUME TypeInv, [Next]_vars
  PROVE  blank \subseteq blank'
<1> USE DEF ghosts
<1>1. ASSUME \/ \E p \in Procs : Commit(p) \/ Rollback(p)
             \/ \E p \in Procs, e \in Events : Begin(p, e)
      PROVE  blank' = blank
  BY Zenon, <1>1 DEF Commit, Rollback, Begin
<1>2. ASSUME NEW t \in Threads, Retain(t) \/ Rotation(t) PROVE blank' = blank
  BY Zenon, <1>2 DEF Retain, Rotation, SkipRotation, SelectOldest, WriteArchive, RotationFails, Abandon,
                     DeleteRange, ReadFirstRemaining, StampRotation, Vacuum
<1>3. ASSUME NEW t \in Threads, Verification(t) \/ \E s \in Scopes : ReadCheckpoint(t, s)
      PROVE  blank' = blank
  BY Zenon, <1>3 DEF Verification, LookupAnchor, CompareAnchor, Scan, CacheCheckpoint, ReadCheckpoint
<1>4. ASSUME Tick \/ (\E e \in Events : Corrupt(e)) \/ Crash \/ UNCHANGED vars
      PROVE  blank \subseteq blank'
  BY Zenon, <1>4 DEF Tick, Corrupt, Crash, vars
<1> QED BY Zenon, <1>1, <1>2, <1>3, <1>4, NextCases DEF Insertion, AppendLow, AppendHigh, Procs

\* The chain and what the verifications rely on are kept by every step.
LEMMA LineNext ==
  TypeInv /\ ChainInv /\ Duty /\ Selected /\ Line /\ [Next]_vars => Line'
<1> SUFFICES ASSUME TypeInv, ChainInv, Duty, Selected, Line, [Next]_vars, Steady', blank' = {}
             PROVE  Table' /\ \A u \in Threads : Checked(u)'
  BY Zenon DEF Line
<1>1. UNCHANGED env
  BY Zenon, NextSteps
<1>b. blank = {}
  <2>1. blank \subseteq blank'
    BY Zenon, BlankGrows
  <2> QED BY Zenon, <2>1
<1>2. Steady
  BY Zenon, <1>1 DEF Steady, Sequential, OneCaller
<1>3. Table /\ \A u \in Threads : Checked(u)
  BY Zenon, <1>2, <1>b DEF Line
<1>4. ASSUME \/ \E p \in Procs : Commit(p) \/ Rollback(p)
             \/ \E e \in Events : AppendLow(e)
             \/ \E t \in Threads, e \in Events : AppendHigh(t, e)
      PROVE  Table' /\ \A u \in Threads : Checked(u)'
  <2>1. \/ \E p \in Procs : Commit(p) \/ Rollback(p)
        \/ \E p \in Procs, e \in Events : Begin(p, e)
    BY Zenon, <1>4 DEF AppendLow, AppendHigh, Procs
  <2> QED BY Zenon, <1>1, <1>2, <1>3, <1>b, <2>1, LineInsertion
<1>5. ASSUME NEW t \in Threads, t \in env.threads, Retain(t) \/ Rotation(t)
      PROVE  Table' /\ \A u \in Threads : Checked(u)'
  BY Zenon, <1>1, <1>2, <1>3, <1>5, <1>b, LineRotation
<1>6. ASSUME NEW t \in Threads,
             Verification(t) \/ \E s \in Scopes : s \in env.scopes /\ ReadCheckpoint(t, s)
      PROVE  Table' /\ \A u \in Threads : Checked(u)'
  BY Zenon, <1>1, <1>2, <1>3, <1>6, <1>b, LineVerification
<1>7. CASE Tick \/ (\E e \in Events : Corrupt(e)) \/ UNCHANGED vars
  <2>1. UNCHANGED <<rows, written, cp, report, pc, sel, stamp, ver>> /\ bad \subseteq bad'
    BY Zenon, <1>7 DEF Tick, Corrupt, vars, disk, locals, ghosts
  <2> QED BY Zenon, <1>1, <1>3, <2>1, LineQuiet
<1>8. CASE Crash
  <2>1. UNCHANGED <<rows, written, cp, bad>>
    BY Zenon, <1>8 DEF Crash, disk, ghosts
  <2>2. \A u \in Threads : pc'[u] = "idle" /\ report'[u] = "none"
    BY Zenon, <1>8 DEF Crash, Procs
  <2>3. \A u \in Threads : pc[u] \notin Moving
    BY Zenon, <1>2, <1>8 DEF Crash, Steady, Sequential, Duty, Moving, Rotating
  <2>4. Table'
    BY Zenon, <1>3, <2>1, <2>2, <2>3, TableQuiet DEF Moving
  <2>5. ASSUME NEW u \in Threads PROVE Checked(u)'
    BY Zenon, <2>2 DEF Checked, Verifying
  <2> QED BY Zenon, <2>4, <2>5
<1> QED BY Zenon, <1>4, <1>5, <1>6, <1>7, <1>8, NextSteps

\* An empty table is a chain.
LEMMA LineInit == Init => Line
<1> SUFFICES ASSUME Init PROVE Table /\ \A t \in Threads : Checked(t)
  BY Zenon DEF Line
<1>1. rows = {} /\ written = {} /\ cp.vid = Nil
  BY Zenon DEF Init, NoCheckpoint
<1>2. \A t \in Threads : pc[t] = "idle" /\ report[t] = "none"
  BY Zenon DEF Init, Procs
<1>3. \A h : Rooted(h)
  BY Zenon, <1>1 DEF Rooted
<1>4. Table
  BY Zenon, <1>1, <1>2, <1>3 DEF Table, Links, Anchors
<1> QED BY Zenon, <1>2, <1>4 DEF Checked, Verifying

\* Along every behaviour the chain is whole wherever rotations are orderly.
LEMMA LineAlways == Spec => [](TypeInv /\ Duty /\ Line)
<1>1. Init => TypeInv /\ ChainInv /\ Duty /\ Selected /\ Line
  BY Zenon, TypeInvInit, ChainInit, DutyInit, SelectedInit, LineInit
<1>2. TypeInv /\ ChainInv /\ Duty /\ Selected /\ Line /\ [Next]_vars
        => TypeInv' /\ ChainInv' /\ Duty' /\ Selected' /\ Line'
  BY Zenon, TypeNext, ChainNext, DutyNext, SelectedNext, LineNext
<1> QED BY <1>1, <1>2, PTL DEF Spec

\* Without rotations, or with rotations by the only caller of a store in which
\* nothing fails, every event ever committed lies on one chain: an insert goes
\* on from the newest row or from the archived tail (insert_audit_event with
\* the checkpoint of rotate_old_rows), whatever is inserted, archived and
\* verified, and however often.
THEOREM HistoryIsLinear == Spec => []LinearHistory
<1>1. TypeInv /\ Line => LinearHistory
  <2> SUFFICES ASSUME TypeInv, Line, Steady, blank = {}, NEW a \in written, NEW b \in written, a.prev = b.prev
               PROVE  a.id = b.id
    BY Zenon DEF LinearHistory, OneHistory, Steady
  <2>1. Table
    BY Zenon DEF Line
  <2>2. PICK h : Rooted(h)
    <3>1. CASE \A t \in Threads : pc[t] \notin Moving
      BY Zenon, <2>1, <3>1 DEF Table
    <3>2. CASE \E t \in Threads : pc[t] \in Moving
      BY Zenon, <2>1, <3>2 DEF Table, Moving
    <3> QED BY Zenon, <3>1, <3>2
  <2> QED BY Zenon, <2>2 DEF Rooted, On
<1> QED BY <1>1, LineAlways, PTL

\* In the same environments verify_chain raises no false alarm: whatever its
\* scope, the checkpoint it starts from and the inserts between its reads, it
\* reports tampering only if a stored row was altered.
THEOREM AlarmsAreReal == Spec => []NoFalseAlarm
<1>1. TypeInv /\ Line => NoFalseAlarm
  BY Zenon DEF Line, Steady, Checked, NoFalseAlarm, TypeInv, TypeOK
<1> QED BY <1>1, LineAlways, PTL

-----------------------------------------------------------------------------
(* What the checkpoint lets later verifications skip.                      *)

\* The rows a scan from the checkpoint c does not visit, and that those among
\* them that were altered were altered too late to be noticed.
Seen(c) == {r \in rows : \E a \in AnchorRows(c) : r.rowid <= a.rowid}
Pure(c) == \A r \in Seen(c) : r.id \in bad => r.id \in missed

\* Every verification reads the whole table, and nothing is archived.
Whole == env.scopes = {Everyone} /\ ~env.rotates

\* The row that c names, if it names one, was committed.
Earned(c) == Pure(c) /\ (c.vid = Nil \/ c.vid \in Ids(written))

\* What a scan from this rowid skips: the rows up to one that exists, and those
\* among them that were altered were altered too late to be noticed.
Behind(from) ==
  /\ from = 0 \/ \E a \in rows : a.rowid = from
  /\ \A r \in rows : r.rowid <= from /\ r.id \in bad => r.id \in missed

\* A verification works with the checkpoint as it is, and neither where its
\* scan starts nor what it will cache skips an alteration it could have noticed.
Point(t) ==
  /\ pc[t] \in Verifying => ver[t].cp = cp /\ ver[t].scope = Everyone
  /\ pc[t] = "scan" => Behind(ver[t].from)
  /\ pc[t] = "cache" => Earned(stamp[t])

Points == Whole => Earned(cp) /\ \A t \in Threads : Point(t)

\* A step that leaves the table alone, and alters at most what is too late.
LEMMA EarnedKept ==
  ASSUME NEW c, Earned(c), UNCHANGED <<rows, written>>, blank \subseteq blank', missed \subseteq missed',
         \A r \in Seen(c) : r.id \in bad' => r.id \in bad \/ r.id \in missed'
  PROVE  Earned(c)'
<1>1. Seen(c)' \subseteq Seen(c)
  BY Zenon DEF Seen, AnchorRows
<1> QED BY Zenon, <1>1 DEF Earned, Pure

\* The anchor of a checkpoint stays where it is when a row is added.
LEMMA EarnedCommit ==
  ASSUME TypeInv, ChainInv, TypeInv', NEW p \in Procs, Commit(p), NEW c, Earned(c)
  PROVE  Earned(c)'
<1> DEFINE n == NewRow(p)
<1>1. n \in Row /\ (\A q \in rows : q.rowid < n.rowid) /\ rows' = rows \cup {n}
  BY Zenon, NewestRow
<1>2. UNCHANGED <<bad, blank, missed>> /\ written \subseteq written'
  BY Zenon DEF Commit
<1>n. n.id \notin Ids(written) /\ n.id # Nil
  <2>1. n.id = job[p].ev /\ Fresh(job[p].ev)
    BY Zenon DEF Commit, NewRow, ChainInv, OpenTx
  <2>2. n.id \in Events
    BY Zenon, <1>1 DEF Row
  <2> QED BY Zenon, <2>1, <2>2, ChainAssumption DEF Fresh, Ids
<1> HIDE DEF n
<1>3. \A q \in rows' : q.rowid \in Nat
  BY Zenon DEF TypeInv, TypeOK, Row
<1>4. AnchorRows(c)' \subseteq AnchorRows(c)
  BY Zenon, <1>1, <1>2, <1>n DEF AnchorRows, Earned
<1>5. Seen(c)' \subseteq Seen(c)
  <2> SUFFICES ASSUME NEW r \in Seen(c)' PROVE r \in Seen(c)
    BY Zenon
  <2>1. PICK a \in AnchorRows(c)' : r.rowid <= a.rowid
    BY Zenon DEF Seen
  <2>2. a \in AnchorRows(c) /\ a \in rows
    BY Zenon, <1>4, <2>1 DEF AnchorRows
  <2>3. r \in rows' /\ r # n
    BY <1>1, <1>3, <2>1, <2>2 DEF Seen
  <2> QED BY Zenon, <1>1, <2>1, <2>2, <2>3 DEF Seen
<1>6. Pure(c)'
  BY Zenon, <1>2, <1>5 DEF Earned, Pure
<1>7. Ids(written) \subseteq Ids(written')
  BY Zenon, <1>2 DEF Ids
<1> QED BY Zenon, <1>6, <1>7 DEF Earned

\* A new row is not behind a scan that has started.
LEMMA BehindCommit ==
  ASSUME TypeInv, TypeInv', NEW p \in Procs, Commit(p), NEW from \in Nat, Behind(from)
  PROVE  Behind(from)'
<1> DEFINE n == NewRow(p)
<1>1. n \in Row /\ (\A q \in rows : q.rowid < n.rowid) /\ rows' = rows \cup {n}
  BY Zenon, NewestRow
<1>2. UNCHANGED <<bad, missed>>
  BY Zenon DEF Commit
<1> HIDE DEF n
<1>3. n.rowid \in Nat \ {0} /\ \A q \in rows : q.rowid \in Nat
  BY Zenon, <1>1 DEF TypeInv, TypeOK, Row
<1>4. ~(n.rowid <= from)
  <2>1. CASE from = 0
    BY <1>3, <2>1
  <2>2. ASSUME NEW a \in rows, a.rowid = from PROVE ~(n.rowid <= from)
    BY <1>1, <1>3, <2>2
  <2> QED BY Zenon, <2>1, <2>2 DEF Behind
<1> QED BY Zenon, <1>1, <1>2, <1>4 DEF Behind

\* A scan of all tenants that finds nothing leaves only altered rows that were
\* behind it.
LEMMA CleanScan ==
  ASSUME TypeInv, NEW t \in Threads, ver[t].scope = Everyone, Behind(ver[t].from), Caches(t),
         NEW r \in rows, r.id \in bad
  PROVE  r.id \in missed
<1>1. r.rowid \in Nat
  BY Zenon DEF TypeInv, TypeOK, Row
<1>2. PICK from \in Nat : from = ver[t].from
  BY Zenon DEF TypeInv, TypeOK
<1>3. r \notin Scanned(t)
  BY Zenon DEF Caches, Tampered, Broken, InScope
<1>4. ~(r.rowid > from)
  BY Zenon, <1>2, <1>3 DEF Scanned
<1>5. r.rowid <= from
  BY <1>1, <1>4
<1> QED BY Zenon, <1>2, <1>5 DEF Behind

\* What holds of checkpoints and scans in use is kept by a step of somebody else.
LEMMA PointsKept ==
  ASSUME TypeInv, Earned(cp), \A t \in Threads : Point(t), UNCHANGED cp,
         \A c : Earned(c) /\ (c = cp \/ \E t \in Threads : pc[t] = "cache" /\ c = stamp[t]) => Earned(c)',
         \A n \in Nat : Behind(n) /\ (\E t \in Threads : pc[t] = "scan" /\ n = ver[t].from) => Behind(n)',
         \A t \in Threads : pc'[t] \in Verifying =>
            pc'[t] = pc[t] /\ ver'[t] = ver[t] /\ stamp'[t] = stamp[t]
  PROVE  Earned(cp)' /\ \A t \in Threads : Point(t)'
<1>1. Earned(cp)'
  <2>1. PICK c : c = cp /\ c = cp'
    BY Zenon
  <2>2. Earned(c)'
    BY Zenon, <2>1
  <2> QED BY Zenon, <2>1, <2>2 DEF Earned, Pure, Seen, AnchorRows
<1>2. ASSUME NEW t \in Threads, pc'[t] = "scan" PROVE Behind(ver[t].from)'
  <2>1. pc[t] = "scan" /\ ver'[t] = ver[t]
    BY Zenon, <1>2 DEF Verifying
  <2>2. PICK n \in Nat : n = ver[t].from /\ n = ver'[t].from
    BY Zenon, <2>1 DEF TypeInv, TypeOK
  <2>3. Behind(n)'
    BY Zenon, <2>1, <2>2 DEF Point
  <2> QED BY Zenon, <2>2, <2>3 DEF Behind
<1>3. ASSUME NEW t \in Threads, pc'[t] = "cache" PROVE Earned(stamp[t])'
  <2>1. pc[t] = "cache" /\ stamp'[t] = stamp[t]
    BY Zenon, <1>3 DEF Verifying
  <2>2. PICK c : c = stamp[t] /\ c = stamp'[t]
    BY Zenon, <2>1
  <2>3. Earned(c)'
    BY Zenon, <2>1, <2>2 DEF Point
  <2> QED BY Zenon, <2>2, <2>3 DEF Earned, Pure, Seen, AnchorRows
<1>4. \A t \in Threads : pc'[t] \in Verifying => ver'[t].cp = cp' /\ ver'[t].scope = Everyone
  BY Zenon DEF Point
<1> QED BY Zenon, <1>1, <1>2, <1>3, <1>4 DEF Point

\* A step of verify_chain.
LEMMA PointsVerification ==
  ASSUME TypeInv, ChainInv, Duty, Whole, Earned(cp), \A u \in Threads : Point(u), NEW t \in Threads,
         Verification(t) \/ \E s \in Scopes : s \in env.scopes /\ ReadCheckpoint(t, s)
  PROVE  Earned(cp)' /\ \A u \in Threads : Point(u)'
<1> USE DEF disk, locks, locals, ghosts
<1>1. /\ t \in Procs /\ Threads \subseteq Procs /\ DOMAIN pc = Procs /\ Nil \notin Threads
      /\ DOMAIN ver = Threads /\ DOMAIN stamp = Threads
  BY Zenon, ChainAssumption DEF TypeInv, TypeOK, Procs
<1>2. UNCHANGED <<rows, written, bad, blank, missed>>
  BY Zenon DEF Verification, LookupAnchor, CompareAnchor, Scan, CacheCheckpoint, ReadCheckpoint
<1>3. \A c : Earned(c) => Earned(c)'
  BY Zenon, <1>2 DEF Earned, Pure, Seen, AnchorRows
<1>4. ASSUME NEW u \in Threads, u # t PROVE Point(u)'
  <2>1. readLock = Nil \/ readLock = t
    BY Zenon DEF Verification, LookupAnchor, CompareAnchor, Scan, CacheCheckpoint, ReadCheckpoint,
                 Duty, Verifying
  <2>2. pc'[u] = pc[u] /\ pc[u] \notin Verifying
    <3>1. pc'[u] = pc[u]
      BY Zenon, <1>1, <1>4
         DEF Verification, LookupAnchor, CompareAnchor, Scan, CacheCheckpoint, ReadCheckpoint
    <3> QED BY Zenon, <1>1, <1>4, <2>1, <3>1 DEF Duty
  <2> QED BY Zenon, <2>2 DEF Point, Verifying
<1>5. Earned(cp)'
  <2>1. cp' = cp \/ (pc[t] = "cache" /\ cp' = stamp[t])
    BY Zenon DEF Verification, LookupAnchor, CompareAnchor, Scan, CacheCheckpoint, ReadCheckpoint
  <2>2. PICK c : c = cp' /\ Earned(c)
    BY Zenon, <2>1 DEF Point
  <2> QED BY Zenon, <1>3, <2>2 DEF Earned, Pure, Seen, AnchorRows
<1>6. ASSUME NEW s \in Scopes, s \in env.scopes, ReadCheckpoint(t, s) PROVE Point(t)'
  <2>1. pc'[t] = "lookup" /\ cp' = cp
    BY Zenon, <1>1, <1>6 DEF ReadCheckpoint
  <2>2. ver'[t].cp = cp /\ ver'[t].scope = s
    BY Zenon, <1>1, <1>6 DEF ReadCheckpoint, NoVer
  <2>3. s = Everyone
    BY Zenon, <1>6 DEF Whole
  <2> QED BY Zenon, <2>1, <2>2, <2>3 DEF Point
<1>7. ASSUME LookupAnchor(t) PROVE Point(t)'
  <2>1. pc[t] = "lookup" /\ pc'[t] = "compare" /\ cp' = cp
    BY Zenon, <1>1, <1>7 DEF LookupAnchor
  <2>2. ver'[t].cp = ver[t].cp /\ ver'[t].scope = ver[t].scope
    BY <1>1, <1>7 DEF LookupAnchor, TypeInv, TypeOK
  <2> QED BY Zenon, <2>1, <2>2 DEF Point, Verifying
<1>8. ASSUME CompareAnchor(t) PROVE Point(t)'
  <2>1. pc[t] = "compare" /\ pc'[t] = "scan" /\ cp' = cp
    BY Zenon, <1>1, <1>8 DEF CompareAnchor
  <2>2. ver[t].cp = cp /\ ver[t].scope = Everyone
    BY Zenon, <2>1 DEF Point, Verifying
  <2>3. /\ ver'[t].cp = ver[t].cp /\ ver'[t].scope = ver[t].scope
        /\ ver'[t].from = Start(cp, ver[t].from).from
    BY <1>1, <1>8, <2>2 DEF CompareAnchor, TypeInv, TypeOK
  <2>4. PICK n : n = ver'[t].from
    BY Zenon
  <2>5. n = 0 \/ \E a \in AnchorRows(cp) : a.rowid = n
    BY Zenon, <2>3, <2>4 DEF Start
  <2>6. Behind(n)
    <3>1. CASE n = 0
      <4>1. \A r \in rows : ~(r.rowid <= 0)
        BY DEF TypeInv, TypeOK, Row
      <4> QED BY Zenon, <3>1, <4>1 DEF Behind
    <3>2. ASSUME NEW a \in AnchorRows(cp), a.rowid = n PROVE Behind(n)
      <4>1. a \in rows
        BY Zenon DEF AnchorRows
      <4>2. \A r \in rows : r.rowid <= n => r \in Seen(cp)
        BY Zenon, <3>2 DEF Seen
      <4> QED BY Zenon, <3>2, <4>1, <4>2 DEF Behind, Earned, Pure
    <3> QED BY Zenon, <2>5, <3>1, <3>2
  <2>7. Behind(ver[t].from)'
    BY Zenon, <1>2, <2>4, <2>6 DEF Behind
  <2> QED BY Zenon, <2>1, <2>2, <2>3, <2>7 DEF Point
<1>9. ASSUME Scan(t) PROVE Point(t)'
  <2>1. pc[t] = "scan" /\ cp' = cp
    BY Zenon, <1>9 DEF Scan
  <2>2. ver[t].cp = cp /\ ver[t].scope = Everyone /\ Behind(ver[t].from)
    BY Zenon, <2>1 DEF Point, Verifying
  <2>3. CASE Caches(t)
    <3>1. pc'[t] = "cache" /\ ver' = ver /\ stamp'[t] = NewCheckpoint(t)
      BY Zenon, <1>1, <1>9, <2>3 DEF Scan
    <3>2. \A r \in rows : r.id \in bad => r.id \in missed
      BY Zenon, <2>2, <2>3, CleanScan
    <3>3. NewCheckpoint(t).vid = Nil \/ NewCheckpoint(t).vid \in Ids(written)
      <4>1. CASE Scanned(t) = {}
        BY Zenon, <4>1 DEF NewCheckpoint, NoCheckpoint
      <4>2. CASE Scanned(t) # {}
        <5>1. Scanned(t) \in SUBSET rows /\ Ends(Scanned(t))
          BY Zenon, EndsSubset DEF Scanned, TypeInv
        <5>2. LastRow(Scanned(t)) \in rows
          BY Zenon, <4>2, <5>1, LastRowFact
        <5>3. NewCheckpoint(t).vid = LastRow(Scanned(t)).id
          BY Zenon, <4>2 DEF NewCheckpoint
        <5> QED BY Zenon, <5>2, <5>3 DEF ChainInv, Grounded
      <4> QED BY Zenon, <4>1, <4>2
    <3>4. PICK c : c = NewCheckpoint(t) /\ c = stamp'[t]
      BY Zenon, <3>1
    <3>5. Earned(c)
      BY Zenon, <3>2, <3>3, <3>4 DEF Earned, Pure, Seen
    <3>6. Earned(stamp[t])'
      BY Zenon, <1>3, <3>4, <3>5 DEF Earned, Pure, Seen, AnchorRows
    <3> QED BY Zenon, <2>1, <2>2, <3>1, <3>6 DEF Point
  <2>4. CASE ~Caches(t)
    <3>1. pc'[t] = "idle"
      BY Zenon, <1>1, <1>9, <2>4 DEF Scan
    <3> QED BY Zenon, <3>1 DEF Point, Verifying
  <2> QED BY Zenon, <2>3, <2>4
<1>10. ASSUME CacheCheckpoint(t) PROVE Point(t)'
  <2>1. pc'[t] = "idle"
    BY Zenon, <1>1, <1>10 DEF CacheCheckpoint
  <2> QED BY Zenon, <2>1 DEF Point, Verifying
<1> QED BY Zenon, <1>4, <1>5, <1>6, <1>7, <1>8, <1>9, <1>10 DEF Verification

\* The checkpoint, where a scan starts and what it will cache cover no
\* alteration that a scan could have noticed.
LEMMA PointsNext ==
  TypeInv /\ ChainInv /\ Duty /\ Points /\ [Next]_vars /\ TypeInv' => Points'
<1> SUFFICES ASSUME TypeInv, ChainInv, Duty, Points, [Next]_vars, TypeInv', Whole'
             PROVE  Earned(cp)' /\ \A t \in Threads : Point(t)'
  BY Zenon DEF Points
<1> USE DEF disk, locks, locals, ghosts
<1>1. UNCHANGED env /\ Whole
  BY Zenon, NextSteps DEF Whole
<1>2. Earned(cp) /\ \A t \in Threads : Point(t)
  BY Zenon, <1>1 DEF Points
<1>d. Threads \subseteq Procs /\ DOMAIN pc = Procs
  BY Zenon DEF Procs, TypeInv, TypeOK
<1>3. ASSUME NEW p \in Procs, Commit(p) PROVE Earned(cp)' /\ \A t \in Threads : Point(t)'
  <2>1. UNCHANGED <<cp, stamp, ver>> /\ \A t \in Threads : pc'[t] \in Verifying => pc'[t] = pc[t]
    BY Zenon, <1>3, <1>d DEF Commit, Verifying
  <2>2. ASSUME NEW c, Earned(c) PROVE Earned(c)'
    BY Zenon, <1>3, <2>2, EarnedCommit
  <2>3. ASSUME NEW n \in Nat, Behind(n) PROVE Behind(n)'
    BY Zenon, <1>3, <2>3, BehindCommit
  <2> QED BY Zenon, <1>2, <2>1, <2>2, <2>3, PointsKept
<1>4. ASSUME UNCHANGED <<rows, written, bad, blank, missed, cp>>,
             \A t \in Threads : pc'[t] \in Verifying => pc'[t] = pc[t] /\ ver'[t] = ver[t] /\ stamp'[t] = stamp[t]
      PROVE  Earned(cp)' /\ \A t \in Threads : Point(t)'
  <2>1. \A c : Earned(c) => Earned(c)'
    BY Zenon, <1>4 DEF Earned, Pure, Seen, AnchorRows
  <2>2. \A n \in Nat : Behind(n) => Behind(n)'
    BY Zenon, <1>4 DEF Behind
  <2> QED BY Zenon, <1>2, <1>4, <2>1, <2>2, PointsKept
<1>5. ASSUME \/ \E p \in Procs : Rollback(p)
             \/ \E p \in Procs, e \in Events : Begin(p, e)
      PROVE  Earned(cp)' /\ \A t \in Threads : Point(t)'
  <2>1. UNCHANGED <<rows, written, bad, blank, missed, cp, stamp, ver>>
    BY Zenon, <1>5 DEF Rollback, Begin
  <2>2. \A t \in Threads : pc'[t] \in Verifying => pc'[t] = pc[t]
    BY Zenon, <1>5, <1>d DEF Rollback, Begin, Verifying
  <2> QED BY Zenon, <1>4, <2>1, <2>2
<1>6. ASSUME NEW t \in Threads, Retain(t) \/ Rotation(t)
      PROVE  Earned(cp)' /\ \A u \in Threads : Point(u)'
  <2>1. pc[t] \notin Rotating /\ ~env.rotates
    BY Zenon, <1>1 DEF Whole, Duty
  <2>2. Retain(t) \/ SkipRotation(t)
    BY Zenon, <1>6, <2>1 DEF Rotation, Rotating, SelectOldest, WriteArchive, RotationFails,
                             DeleteRange, ReadFirstRemaining, StampRotation, Vacuum
  <2>3. UNCHANGED <<rows, written, bad, blank, missed, cp, stamp, ver>>
    BY Zenon, <2>2 DEF Retain, SkipRotation
  <2>4. \A u \in Threads : pc'[u] \in Verifying => pc'[u] = pc[u]
    BY Zenon, <1>d, <2>2 DEF Retain, SkipRotation, Verifying
  <2> QED BY Zenon, <1>4, <2>3, <2>4
<1>7. ASSUME NEW t \in Threads,
             Verification(t) \/ \E s \in Scopes : s \in env.scopes /\ ReadCheckpoint(t, s)
      PROVE  Earned(cp)' /\ \A u \in Threads : Point(u)'
  BY Zenon, <1>1, <1>2, <1>7, PointsVerification
<1>8. ASSUME NEW e \in Events, Corrupt(e)
      PROVE  Earned(cp)' /\ \A t \in Threads : Point(t)'
  <2>1. /\ UNCHANGED <<rows, written, cp, pc, ver, stamp>> /\ bad' = bad \cup {e}
        /\ missed \subseteq missed' /\ blank \subseteq blank'
    BY Zenon, <1>8 DEF Corrupt
  <2>2. ASSUME NEW c, Earned(c), c = cp \/ \E t \in Threads : pc[t] = "cache" /\ c = stamp[t]
        PROVE  Earned(c)'
    <3>1. (\E t \in Threads : pc[t] = "cache") => e \in missed'
      BY Zenon, <1>8 DEF Corrupt, Passed
    <3>2. \A r \in Seen(cp) : r.id = e => e \in missed'
      BY Zenon, <1>8 DEF Corrupt, Seen, Covered, Ids
    <3>3. \A r \in Seen(c) : r.id \in bad' => r.id \in bad \/ r.id \in missed'
      BY Zenon, <2>1, <2>2, <3>1, <3>2
    <3> QED BY Zenon, <2>1, <2>2, <3>3, EarnedKept
  <2>3. ASSUME NEW n \in Nat, Behind(n), \E t \in Threads : pc[t] = "scan" /\ n = ver[t].from
        PROVE  Behind(n)'
    <3>1. \A r \in rows : r.id = e /\ r.rowid <= n => e \in missed'
      BY Zenon, <1>8, <2>3 DEF Corrupt, Passed
    <3> QED BY Zenon, <2>1, <2>3, <3>1 DEF Behind
  <2> QED BY Zenon, <1>2, <2>1, <2>2, <2>3, PointsKept
<1>9. CASE Tick \/ Crash \/ UNCHANGED vars
  <2>1. UNCHANGED <<rows, written, bad, blank, missed, cp>>
    BY Zenon, <1>9 DEF Tick, Crash, vars
  <2>2. \A t \in Threads : pc'[t] \in Verifying => pc'[t] = pc[t] /\ ver'[t] = ver[t] /\ stamp'[t] = stamp[t]
    BY Zenon, <1>9, <1>d DEF Tick, Crash, vars, Verifying
  <2> QED BY Zenon, <1>4, <2>1, <2>2
<1> QED BY Zenon, <1>3, <1>5, <1>6, <1>7, <1>8, <1>9, NextSteps DEF AppendLow, AppendHigh, Procs

\* When every verification covers all tenants and nothing is archived, the
\* checkpoint of verify_chain never moves past a row that was altered before a
\* scan read it: the incremental scans skip nothing they could have noticed.
THEOREM CheckpointIsEarned == Spec => []NoBadPointCached
<1>1. Init => Points
  <2> SUFFICES ASSUME Init PROVE Earned(cp) /\ \A t \in Threads : pc[t] = "idle"
    BY Zenon DEF Points, Point, Verifying
  <2> QED BY Zenon DEF Init, Earned, Pure, Seen, NoCheckpoint, Procs
<1>2. Points => NoBadPointCached
  BY Zenon DEF Points, Whole, Earned, Pure, Seen, Covered, NoBadPointCached
<1>3. Init => TypeInv /\ ChainInv /\ Duty /\ Points
  BY Zenon, <1>1, TypeInvInit, ChainInit, DutyInit
<1>4. TypeInv /\ ChainInv /\ Duty /\ Points /\ [Next]_vars
        => TypeInv' /\ ChainInv' /\ Duty' /\ Points'
  BY Zenon, TypeNext, ChainNext, DutyNext, PointsNext
<1> QED BY <1>2, <1>3, <1>4, PTL DEF Spec

-----------------------------------------------------------------------------
(* The locks.                                                              *)

\* A lock is held by a thread that is at work under it.
Writing == {"commit", "anchor", "stamp"}
Owners ==
  /\ dbLock # Nil => pc[dbLock] = "commit"
  /\ writerLock # Nil => pc[writerLock] \in Writing
  /\ readLock # Nil => pc[readLock] \in Verifying

\* The locks that the next step of p has to find free, are free.
Ready(p) ==
  \/ pc[p] \in {"commit", "retain", "archive", "anchor", "lookup", "compare", "scan"}
  \/ pc[p] = "select" /\ readLock = Nil
  \/ pc[p] \in {"delete", "vacuum", "cache"} /\ writerLock = Nil /\ dbLock = Nil
  \/ pc[p] = "stamp" /\ dbLock = Nil

\* Whenever an operation is under way, one of those under way waits for no lock.
SomeoneReady == (\E p \in Procs : pc[p] # "idle") => \E p \in Procs : Ready(p)

\* One process goes on to k, and takes or releases locks as it does.
LEMMA OwnersStep ==
  ASSUME TypeInv, Owners, NEW p \in Procs, NEW k, pc' = [pc EXCEPT ![p] = k],
         dbLock' \in {Nil, p, dbLock}, writerLock' \in {Nil, p, writerLock},
         readLock' \in {Nil, p, readLock},
         dbLock' = p => k = "commit", writerLock' = p => k \in Writing, readLock' = p => k \in Verifying
  PROVE  Owners'
<1>1. /\ pc'[p] = k /\ \A q \in Procs : q # p => pc'[q] = pc[q]
      /\ dbLock \in Procs \cup {Nil} /\ writerLock \in Procs \cup {Nil} /\ readLock \in Procs \cup {Nil}
  BY Zenon DEF TypeInv, TypeOK, Procs
<1>2. dbLock' # Nil => pc'[dbLock'] = "commit"
  BY Zenon, <1>1 DEF Owners
<1>3. writerLock' # Nil => pc'[writerLock'] \in Writing
  BY Zenon, <1>1 DEF Owners
<1>4. readLock' # Nil => pc'[readLock'] \in Verifying
  BY Zenon, <1>1 DEF Owners
<1> QED BY Zenon, <1>2, <1>3, <1>4 DEF Owners

\* Every step leaves the locks with threads that work under them.
LEMMA OwnersNext == TypeInv /\ Owners /\ [Next]_vars => Owners'
<1> SUFFICES ASSUME TypeInv, Owners, [Next]_vars PROVE Owners'
  BY Zenon
<1> USE DEF locks, Writing, Verifying
<1>1. Threads \subseteq Procs
  BY Zenon DEF Procs
<1>a. Nil \notin Procs /\ \A p \in Procs : /\ dbLock = p => pc[p] = "commit"
                                           /\ writerLock = p => pc[p] \in Writing
                                           /\ readLock = p => pc[p] \in Verifying
  BY ChainAssumption DEF Owners, Procs
<1>2. ASSUME NEW p \in Procs, Commit(p) \/ Rollback(p) PROVE Owners'
  <2>1. PICK k \in {"retain", "idle"} : pc' = [pc EXCEPT ![p] = k]
    BY Zenon, <1>2 DEF Commit, Rollback
  <2>2. /\ pc[p] = "commit" /\ dbLock' = Nil /\ readLock' = readLock
        /\ writerLock' \in {Nil, writerLock} /\ writerLock' # p
    BY Zenon, <1>2, <1>a DEF Commit, Rollback
  <2>3. readLock # p
    BY Zenon, <1>a, <2>2
  <2> QED BY Zenon, <1>a, <2>1, <2>2, <2>3, OwnersStep
<1>3. ASSUME NEW p \in Procs, NEW e \in Events, Begin(p, e), writerLock' = p \/ UNCHANGED writerLock
      PROVE  Owners'
  <2>1. /\ pc' = [pc EXCEPT ![p] = "commit"] /\ pc[p] = "idle" /\ dbLock' = p /\ readLock' = readLock
    BY Zenon, <1>3 DEF Begin, BeginImmediate
  <2>2. readLock # p
    BY Zenon, <1>a, <2>1
  <2> QED BY Zenon, <1>3, <2>1, <2>2, OwnersStep
<1>4. ASSUME NEW e \in Events, AppendLow(e) PROVE Owners'
  BY Zenon, <1>3, <1>4 DEF AppendLow, Procs
<1>5. ASSUME NEW t \in Threads, NEW e \in Events, AppendHigh(t, e) PROVE Owners'
  BY Zenon, <1>1, <1>3, <1>5 DEF AppendHigh
<1>6. ASSUME NEW t \in Threads, NEW k, pc' = [pc EXCEPT ![t] = k],
             UNCHANGED <<dbLock, writerLock, readLock>>,
             pc[t] # "commit", pc[t] \in Writing => k \in Writing, pc[t] \in Verifying => k \in Verifying
      PROVE  Owners'
  BY Zenon, <1>1, <1>a, <1>6, OwnersStep
<1>7. ASSUME NEW t \in Threads, Retain(t) \/ Rotation(t) PROVE Owners'
  <2>1. CASE \/ Retain(t) \/ SkipRotation(t) \/ SelectOldest(t) \/ WriteArchive(t) \/ RotationFails(t)
             \/ Vacuum(t)
    <3>1. \E k \in {"select", "idle", "archive", "delete"} : pc' = [pc EXCEPT ![t] = k]
      BY Zenon, <2>1 DEF Retain, SkipRotation, SelectOldest, WriteArchive, RotationFails, Abandon, Vacuum
    <3>2. UNCHANGED <<dbLock, writerLock, readLock>> /\ pc[t] \notin Writing /\ pc[t] \notin Verifying
      BY Zenon, <2>1 DEF Retain, SkipRotation, SelectOldest, WriteArchive, RotationFails, Abandon, Vacuum
    <3> QED BY Zenon, <1>6, <3>1, <3>2
  <2>2. CASE DeleteRange(t)
    <3>1. /\ pc' = [pc EXCEPT ![t] = "anchor"] /\ pc[t] = "delete" /\ writerLock' = t
          /\ UNCHANGED <<dbLock, readLock>>
      BY Zenon, <2>2 DEF DeleteRange
    <3>2. dbLock # t /\ readLock # t
      BY Zenon, <1>1, <1>a, <3>1
    <3> QED BY Zenon, <1>1, <3>1, <3>2, OwnersStep
  <2>3. CASE ReadFirstRemaining(t)
    <3>1. /\ pc' = [pc EXCEPT ![t] = "stamp"] /\ pc[t] = "anchor"
          /\ UNCHANGED <<dbLock, writerLock, readLock>>
      BY Zenon, <2>3 DEF ReadFirstRemaining
    <3> QED BY Zenon, <1>6, <3>1
  <2>4. CASE StampRotation(t)
    <3>1. /\ pc' = [pc EXCEPT ![t] = "vacuum"] /\ pc[t] = "stamp" /\ writerLock' = Nil
          /\ UNCHANGED <<dbLock, readLock>>
      BY Zenon, <2>4 DEF StampRotation
    <3>2. dbLock # t /\ readLock # t /\ t # Nil
      BY Zenon, <1>1, <1>a, <3>1
    <3> QED BY Zenon, <1>1, <3>1, <3>2, OwnersStep
  <2> QED BY Zenon, <1>7, <2>1, <2>2, <2>3, <2>4 DEF Rotation
<1>8. ASSUME NEW t \in Threads, Verification(t) \/ \E s \in Scopes : ReadCheckpoint(t, s) PROVE Owners'
  <2>1. UNCHANGED <<dbLock, writerLock>> /\ pc[t] \notin Writing
    BY Zenon, <1>8 DEF Verification, LookupAnchor, CompareAnchor, Scan, CacheCheckpoint, ReadCheckpoint
  <2>2. dbLock # t /\ writerLock # t /\ t # Nil
    BY Zenon, <1>1, <1>a, <2>1
  <2>3. PICK k \in {"lookup", "compare", "scan", "cache", "idle"} : pc' = [pc EXCEPT ![t] = k]
    BY Zenon, <1>8 DEF Verification, LookupAnchor, CompareAnchor, Scan, CacheCheckpoint, ReadCheckpoint
  <2>4. readLock' = Nil \/ (k # "idle" /\ readLock' \in {t, readLock})
    <3>1. CASE k # "idle"
      BY Zenon, <1>8, <3>1 DEF Verification, LookupAnchor, CompareAnchor, Scan, CacheCheckpoint, ReadCheckpoint
    <3>2. CASE k = "idle"
      <4>1. pc'[t] = "idle"
        BY Zenon, <1>1, <2>3, <3>2 DEF TypeInv, TypeOK
      <4> QED BY Zenon, <1>1, <1>8, <4>1
              DEF Verification, LookupAnchor, CompareAnchor, Scan, CacheCheckpoint, ReadCheckpoint, TypeInv, TypeOK
    <3> QED BY Zenon, <3>1, <3>2
  <2> QED BY Zenon, <1>1, <2>1, <2>2, <2>3, <2>4, OwnersStep
<1>9. CASE Tick \/ (\E e \in Events : Corrupt(e)) \/ Crash \/ UNCHANGED vars
  BY Zenon, <1>9 DEF Tick, Corrupt, Crash, vars, Owners
<1> QED BY Zenon, <1>2, <1>4, <1>5, <1>7, <1>9, <1>8, NextSteps

\* audit_writer, read_conn and SQLite's write lock are never waited for in a
\* cycle: while an operation is under way, some operation under way finds every
\* lock of its next step free.  (NoDeadlock says so with ENABLED.)
THEOREM NobodyWaitsForEver == Spec => []SomeoneReady
<1>1. Init => Owners
  BY Zenon DEF Init, Owners
<1>2. TypeInv /\ ChainInv /\ Owners => SomeoneReady
  <2> SUFFICES ASSUME TypeInv, ChainInv, Owners, NEW p \in Procs, pc[p] # "idle"
               PROVE  \E q \in Procs : Ready(q)
    BY Zenon DEF SomeoneReady
  <2>1. dbLock \in Procs \cup {Nil} /\ writerLock \in Procs \cup {Nil} /\ readLock \in Procs \cup {Nil}
    BY Zenon DEF TypeInv, TypeOK, Procs
  <2>2. CASE dbLock # Nil
    BY Zenon, <2>1, <2>2 DEF Owners, Ready
  <2>3. CASE dbLock = Nil /\ writerLock # Nil
    BY Zenon, <2>1, <2>3 DEF Owners, Ready, Writing
  <2>4. CASE dbLock = Nil /\ writerLock = Nil /\ readLock # Nil
    BY Zenon, <2>1, <2>4 DEF Owners, Ready, Verifying
  <2>5. CASE dbLock = Nil /\ writerLock = Nil /\ readLock = Nil
    BY Zenon, <2>5 DEF Ready, TypeInv, TypeOK
  <2> QED BY Zenon, <2>2, <2>3, <2>4, <2>5
<1> QED BY <1>1, <1>2, TypeInvInit, TypeNext, ChainInit, ChainNext, OwnersNext, PTL DEF Spec
=============================================================================
