----------------------------- MODULE AuditChain -----------------------------
(***************************************************************************)
(* The HMAC-chained audit table of fg-store (AuditStore): high-risk        *)
(* inserts through the audit_writer connection, low-risk inserts of the    *)
(* drain thread through low_writer, the rotation that archives and deletes *)
(* the oldest rows, and verify_chain with its incremental checkpoint.      *)
(*                                                                         *)
(* A row is [rowid, id, prev].  Its event_hash is the HMAC over prev_hash  *)
(* and the payload; taken to be collision free it is represented by the    *)
(* sequence of ids it covers, so GENESIS is <<>> and a row's hash is       *)
(* Append(prev, id).  Every step below is one SQLite statement or          *)
(* transaction, or one file operation, of one thread.                      *)
(***************************************************************************)
EXTENDS Integers, Sequences

CONSTANTS
  Events,             \* audit ids (one UUID per event)
  Threads,            \* request threads and the retention monitor
  Drain,              \* the fg-audit-drain thread
  Nil,                \* no id / no lock owner
  Tenants,            \* tenant ids
  Everyone,           \* verify_chain(None): all tenants
  tenantOf,           \* tenantOf[e]: the tenant of an event
  MaxSec,             \* bound of the wall clock
  RetainSecs,         \* RETENTION_DAYS, in clock units
  Environments        \* the environments considered, see env

\* What may happen around the store in one behaviour.
Environment == [
  threads : SUBSET Threads,  \* the threads that call the store
  high    : SUBSET Events,   \* events of L3/L4 or Block verdicts
  low     : SUBSET Events,   \* the other events: written by the drain
  scopes  : SUBSET (Tenants \cup {Everyone}),  \* the scopes of verify_chain
  rotates : BOOLEAN,         \* are the rotation thresholds reached?
  altered : SUBSET Events,   \* events whose stored row may change in place
  faults  : BOOLEAN,         \* may file writes and SQLite writes fail?
  crashes : BOOLEAN,         \* may the process crash?
  end     : 0 .. MaxSec]     \* bound: the wall clock stops at this second

ASSUME ChainAssumption ==
  /\ Drain \notin Threads
  /\ Nil \notin Events /\ Nil \notin Threads /\ Nil # Drain
  /\ Everyone \notin Tenants
  /\ tenantOf \in [Events -> Tenants]
  /\ MaxSec \in Nat /\ RetainSecs \in Nat
  /\ Environments \subseteq Environment

VARIABLES
  env,         \* the environment of this behaviour, fixed from the start
  rows,        \* table audit_events
  cp,          \* table chain_checkpoint: [vid, vhash, ahash]
  archives,    \* archive files by the second in their name
  sec,         \* wall clock
  dbLock,      \* SQLite's write lock on audit.db
  writerLock,  \* Mutex around the audit_writer connection
  readLock,    \* Mutex around read_conn
  pc,          \* next step of each thread
  job,         \* the event a thread inserts and the prev_hash it has read
  sel,         \* rows a rotation has selected
  now,         \* the time a rotation has read
  ver,         \* what a verification has read so far
  stamp,       \* the checkpoint a thread is about to write
  report,      \* the last answer of verify_chain, per thread
  bad,         \* ids of rows whose stored content was altered
  blank,       \* ids of rows whose event_hash was emptied
  missed,      \* history: altered when already verified, or already scanned
  written,     \* history: every [id, prev] ever committed
  pruned       \* history: ids whose archive file expired

vars == <<env, rows, cp, archives, sec, dbLock, writerLock, readLock, pc, job, sel,
          now, ver, stamp, report, bad, blank, missed, written, pruned>>

disk == <<rows, cp, archives>>
locks == <<dbLock, writerLock, readLock>>
locals == <<job, sel, now, ver, stamp>>
ghosts == <<bad, blank, missed, written, pruned>>

Procs == Threads \cup {Drain}
Secs == 0 .. MaxSec
Scopes == Tenants \cup {Everyone}
Genesis == << >>
Hash(r) == Append(r.prev, r.id)
Row == [rowid : Nat \ {0}, id : Events, prev : Seq(Events)]
Checkpoint == [vid : Events \cup {Nil}, vhash : Seq(Events), ahash : Seq(Events)]

\* read_checkpoint returning None: no row, or neither anchor nor archived hash.
NoCheckpoint == [vid |-> Nil, vhash |-> Genesis, ahash |-> Genesis]

NoJob == [ev |-> Nil, prev |-> Genesis]
NoVer == [cp |-> NoCheckpoint, from |-> 0, base |-> Genesis, scope |-> Everyone]

FirstRow(R) == CHOOSE r \in R : \A q \in R : r.rowid <= q.rowid
LastRow(R) == CHOOSE r \in R : \A q \in R : q.rowid <= r.rowid
Ids(R) == {r.id : r \in R}

Init ==
  /\ env \in Environments
  /\ rows = {} /\ cp = NoCheckpoint
  /\ archives = [s \in Secs |-> {}]
  /\ sec = 0
  /\ dbLock = Nil /\ writerLock = Nil /\ readLock = Nil
  /\ pc = [p \in Procs |-> "idle"]
  /\ job = [p \in Procs |-> NoJob]
  /\ sel = [t \in Threads |-> {}] /\ now = [t \in Threads |-> 0]
  /\ ver = [t \in Threads |-> NoVer]
  /\ stamp = [t \in Threads |-> NoCheckpoint]
  /\ report = [t \in Threads |-> "none"]
  /\ bad = {} /\ blank = {} /\ missed = {} /\ written = {} /\ pruned = {}

-----------------------------------------------------------------------------
(* insert_audit_event: BEGIN IMMEDIATE, read the predecessor, INSERT, COMMIT. *)

PrevHash_forgetsArchive == IF rows # {} THEN Hash(LastRow(rows)) ELSE Genesis

\* The hash of the newest row; on an empty table, or when that hash is empty,
\* the archived tail, or GENESIS.
PrevHash == IF rows # {} /\ LastRow(rows).id \notin blank THEN Hash(LastRow(rows)) ELSE cp.ahash

\* SQLite's rowid of a new row: one more than the largest, 1 on an empty table.
NextRowid == IF rows # {} THEN LastRow(rows).rowid + 1 ELSE 1

Fresh(e) == \A r \in written : r.id # e
Unclaimed(e) == \A p \in Procs : job[p].ev # e

BeginImmediate_deferred(p) == dbLock = Nil /\ dbLock' = dbLock

\* BEGIN IMMEDIATE takes the write lock or waits for it (busy_timeout).
BeginImmediate(p) == dbLock = Nil /\ dbLock' = p

Begin(p, e) ==
  /\ pc[p] = "idle" /\ Fresh(e) /\ Unclaimed(e)
  /\ BeginImmediate(p)
  /\ job' = [job EXCEPT ![p] = [ev |-> e, prev |-> PrevHash]]
  /\ pc' = [pc EXCEPT ![p] = "commit"]
  /\ UNCHANGED <<disk, sec, readLock, sel, now, ver, stamp, report, ghosts>>

\* append_event of an L3/L4 or Block verdict: audit_writer, synchronous.
AppendHigh(t, e) == writerLock = Nil /\ writerLock' = t /\ Begin(t, e)

\* One event of the drain thread's batch, through low_writer.
AppendLow(e) == UNCHANGED writerLock /\ Begin(Drain, e)

NewRow(p) == [rowid |-> NextRowid, id |-> job[p].ev, prev |-> job[p].prev]

\* COMMIT.  append_event goes on to enforce_retention, the drain loop does not.
Commit(p) ==
  /\ pc[p] = "commit"
  /\ rows' = rows \cup {NewRow(p)}
  /\ written' = written \cup {[id |-> job[p].ev, prev |-> job[p].prev]}
  /\ dbLock' = Nil
  /\ writerLock' = IF writerLock = p THEN Nil ELSE writerLock
  /\ job' = [job EXCEPT ![p] = NoJob]
  /\ pc' = [pc EXCEPT ![p] = IF p \in Threads THEN "retain" ELSE "idle"]
  /\ UNCHANGED <<cp, archives, sec, readLock, sel, now, ver, stamp, report, bad, blank, missed, pruned>>

\* The INSERT or COMMIT fails: rolled back, append_event returns the error
\* before enforce_retention; the drain thread spools the event instead.
Rollback(p) ==
  /\ env.faults /\ pc[p] = "commit"
  /\ dbLock' = Nil
  /\ writerLock' = IF writerLock = p THEN Nil ELSE writerLock
  /\ job' = [job EXCEPT ![p] = NoJob]
  /\ pc' = [pc EXCEPT ![p] = "idle"]
  /\ UNCHANGED <<disk, sec, readLock, sel, now, ver, stamp, report, ghosts>>

-----------------------------------------------------------------------------
(* enforce_retention: prune_expired_archives, then rotate_old_rows.           *)

Expired(s) == s < sec - RetainSecs

\* Called after a high-risk commit, by the monitor thread, and after a
\* low-risk event was queued.  The archive name uses the time read here.
Retain(t) ==
  /\ pc[t] \in {"idle", "retain"}
  /\ archives' = [s \in Secs |-> IF Expired(s) THEN {} ELSE archives[s]]
  /\ pruned' = pruned \cup UNION {Ids(archives[s]) : s \in {x \in Secs : Expired(x)}}
  /\ now' = [now EXCEPT ![t] = sec]
  /\ pc' = [pc EXCEPT ![t] = "select"]
  /\ UNCHANGED <<rows, cp, sec, locks, job, sel, ver, stamp, report, bad, blank, missed, written>>

\* What ORDER BY rowid LIMIT n can return, for n > 0.
Oldest == {R \in SUBSET rows :
             R # {} /\ \A r \in R, q \in rows : q.rowid <= r.rowid => q \in R}

\* Under the read_conn lock: neither threshold reached, or nothing to archive.
SkipRotation(t) ==
  /\ pc[t] = "select" /\ readLock = Nil
  /\ now' = [now EXCEPT ![t] = 0]
  /\ pc' = [pc EXCEPT ![t] = "idle"]
  /\ UNCHANGED <<disk, sec, locks, job, sel, ver, stamp, report, ghosts>>

\* LIMIT is the number of rows past the age cutoff, or 50000 when the file is
\* too large: any number of rows, as ages and sizes are not modelled.
SelectOldest(t) ==
  /\ env.rotates
  /\ pc[t] = "select" /\ readLock = Nil
  /\ \E R \in Oldest : sel' = [sel EXCEPT ![t] = R]
  /\ pc' = [pc EXCEPT ![t] = "archive"]
  /\ UNCHANGED <<disk, sec, locks, job, now, ver, stamp, report, ghosts>>

\* The file is opened with truncate(true) under a name with one-second
\* granularity.  A failed write_all is only logged; the rotation goes on.
WriteArchive(t) ==
  /\ pc[t] = "archive"
  /\ \E R \in {sel[t]} \cup (IF env.faults THEN {{}} ELSE {}) :
       archives' = [archives EXCEPT ![now[t]] = R]
  /\ pc' = [pc EXCEPT ![t] = "delete"]
  /\ UNCHANGED <<rows, cp, sec, locks, locals, report, ghosts>>

Abandon(t) ==
  /\ sel' = [sel EXCEPT ![t] = {}] /\ now' = [now EXCEPT ![t] = 0]
  /\ pc' = [pc EXCEPT ![t] = "idle"]
  /\ UNCHANGED <<disk, sec, locks, job, ver, stamp, report, ghosts>>

\* The archive file cannot be opened, or the DELETE fails: the rows stay.
RotationFails(t) == env.faults /\ pc[t] \in {"archive", "delete"} /\ Abandon(t)

Between_noUpperBound(r, R) == FirstRow(R).rowid <= r.rowid
Between(r, R) == FirstRow(R).rowid <= r.rowid /\ r.rowid <= LastRow(R).rowid

\* DELETE ... WHERE rowid >= min AND rowid <= max, committed on its own.
DeleteRange(t) ==
  /\ pc[t] = "delete" /\ writerLock = Nil /\ dbLock = Nil
  /\ writerLock' = t
  /\ rows' = {r \in rows : ~Between(r, sel[t])}
  /\ pc' = [pc EXCEPT ![t] = "anchor"]
  /\ UNCHANGED <<cp, archives, sec, dbLock, readLock, locals, report, ghosts>>

\* Reads the first remaining row; none gives the empty sentinel.
Anchored(R, tail) ==
  IF R = {} THEN [vid |-> Nil, vhash |-> Genesis, ahash |-> Hash(tail)]
  ELSE [vid |-> FirstRow(R).id, vhash |-> Hash(FirstRow(R)), ahash |-> Hash(tail)]

ReadFirstRemaining_readConn(t) ==
  /\ pc[t] = "anchor" /\ readLock = Nil
  /\ stamp' = [stamp EXCEPT ![t] = Anchored(rows, LastRow(sel[t]))]
  /\ pc' = [pc EXCEPT ![t] = "stamp"]
  /\ UNCHANGED <<disk, sec, locks, job, sel, now, ver, report, ghosts>>

ReadFirstRemaining(t) ==
  /\ pc[t] = "anchor"
  /\ stamp' = [stamp EXCEPT ![t] = Anchored(rows, LastRow(sel[t]))]
  /\ pc' = [pc EXCEPT ![t] = "stamp"]
  /\ UNCHANGED <<disk, sec, locks, job, sel, now, ver, report, ghosts>>

\* write_checkpoint, then the audit_writer guard is dropped.
StampRotation(t) ==
  /\ pc[t] = "stamp" /\ dbLock = Nil
  /\ cp' = stamp[t] \/ (env.faults /\ cp' = cp)
  /\ writerLock' = Nil
  /\ stamp' = [stamp EXCEPT ![t] = NoCheckpoint]
  /\ sel' = [sel EXCEPT ![t] = {}] /\ now' = [now EXCEPT ![t] = 0]
  /\ pc' = [pc EXCEPT ![t] = "vacuum"]
  /\ UNCHANGED <<rows, archives, sec, dbLock, readLock, job, ver, report, ghosts>>

\* The table with other rowids, in the same order.
Renumberings ==
  {{[r EXCEPT !.rowid = f[r]] : r \in rows} :
     f \in {g \in [rows -> 1 .. NextRowid - 1] :
             \A q, r \in rows : q.rowid < r.rowid <=> g[q] < g[r]}}

\* VACUUM, under the lock taken again.  SQLite may renumber rowids, in order;
\* a VACUUM that fails is only logged.
Vacuum(t) ==
  /\ pc[t] = "vacuum" /\ writerLock = Nil /\ dbLock = Nil
  /\ rows' \in Renumberings
  /\ pc' = [pc EXCEPT ![t] = "idle"]
  /\ UNCHANGED <<cp, archives, sec, locks, locals, report, ghosts>>

-----------------------------------------------------------------------------
(* verify_chain(scope): read_conn is locked from the first read to the end,   *)
(* but each read is a statement of its own.                                   *)

ReadCheckpoint(t, s) ==
  /\ pc[t] = "idle" /\ readLock = Nil
  /\ readLock' = t
  /\ ver' = [ver EXCEPT ![t] = [NoVer EXCEPT !.cp = cp, !.scope = s]]
  /\ report' = [report EXCEPT ![t] = "none"]
  /\ pc' = [pc EXCEPT ![t] = "lookup"]
  /\ UNCHANGED <<disk, sec, dbLock, writerLock, job, sel, now, stamp, ghosts>>

\* The row the checkpoint names, if it is still there with the same hash.
AnchorRows(c) == {r \in rows : r.id = c.vid /\ r.id \notin blank /\ Hash(r) = c.vhash}

\* rowid_of_audit, unless the checkpoint is the empty sentinel.
LookupAnchor(t) ==
  LET named == {r \in rows : r.id = ver[t].cp.vid} IN
  /\ pc[t] = "lookup"
  /\ ver' = [ver EXCEPT ![t].from = IF named = {} THEN 0 ELSE LastRow(named).rowid]
  /\ pc' = [pc EXCEPT ![t] = "compare"]
  /\ UNCHANGED <<disk, sec, locks, job, sel, now, stamp, report, ghosts>>

Start_sentinelAtGenesis(c, rid) ==
  IF \E r \in AnchorRows(c) : r.rowid = rid
  THEN [from |-> rid, base |-> c.vhash] ELSE [from |-> 0, base |-> Genesis]

\* Incremental from the anchor, if the row of that rowid has its hash; from the
\* archived tail when the checkpoint is the empty sentinel; otherwise a full
\* scan from GENESIS.
Start(c, rid) ==
  IF c.vid = Nil THEN [from |-> 0, base |-> c.ahash]
  ELSE IF \E r \in AnchorRows(c) : r.rowid = rid
       THEN [from |-> rid, base |-> c.vhash] ELSE [from |-> 0, base |-> Genesis]

CompareAnchor(t) ==
  /\ pc[t] = "compare"
  /\ LET s == Start(ver[t].cp, ver[t].from) IN
     ver' = [ver EXCEPT ![t].from = s.from, ![t].base = s.base]
  /\ pc' = [pc EXCEPT ![t] = "scan"]
  /\ UNCHANGED <<disk, sec, locks, job, sel, now, stamp, report, ghosts>>

\* expected_prev when the scan of R, started from base, reaches r: an empty
\* hash does not move it.
Expected(R, base, r) ==
  LET before == {q \in R : q.rowid < r.rowid /\ q.id \notin blank}
  IN  IF before = {} THEN base ELSE Hash(LastRow(before))

InScope(r, s) == s = Everyone \/ tenantOf[r.id] = s

\* The rows the scan counts as tampered: only rows in scope are counted.  A row
\* with an empty hash is one of those altered.
Broken(R, base, s) ==
  {r \in R : InScope(r, s) /\ (r.prev # Expected(R, base, r) \/ r.id \in bad)}

Scanned(t) == {r \in rows : r.rowid > ver[t].from}

\* The new checkpoint: the tail of the scan, with the archived hash that was
\* read at the start.
NewCheckpoint(t) ==
  LET R == Scanned(t) IN
  IF R = {} THEN NoCheckpoint
  ELSE [vid |-> LastRow(R).id,
        vhash |-> IF LastRow(R).id \in blank THEN Genesis ELSE Hash(LastRow(R)),
        ahash |-> ver[t].cp.ahash]

Tampered(t) == Broken(Scanned(t), ver[t].base, ver[t].scope) # {}
Caches_evenTampered(t) == Scanned(t) # {} \/ ver[t].cp = NoCheckpoint
Caches(t) == ~Tampered(t) /\ (Scanned(t) # {} \/ ver[t].cp = NoCheckpoint)

Scan(t) ==
  /\ pc[t] = "scan"
  /\ report' = [report EXCEPT ![t] = IF Tampered(t) THEN "tampered" ELSE "clean"]
  /\ IF Caches(t)
     THEN /\ stamp' = [stamp EXCEPT ![t] = NewCheckpoint(t)]
          /\ pc' = [pc EXCEPT ![t] = "cache"]
          /\ UNCHANGED <<readLock, ver>>
     ELSE /\ readLock' = Nil
          /\ ver' = [ver EXCEPT ![t] = NoVer]
          /\ pc' = [pc EXCEPT ![t] = "idle"]
          /\ UNCHANGED stamp
  /\ UNCHANGED <<disk, sec, dbLock, writerLock, job, sel, now, ghosts>>

\* write_checkpoint under the audit_writer lock; a failure is only logged.
CacheCheckpoint(t) ==
  /\ pc[t] = "cache" /\ writerLock = Nil /\ dbLock = Nil
  /\ cp' = stamp[t] \/ (env.faults /\ cp' = cp)
  /\ readLock' = Nil
  /\ ver' = [ver EXCEPT ![t] = NoVer]
  /\ stamp' = [stamp EXCEPT ![t] = NoCheckpoint]
  /\ pc' = [pc EXCEPT ![t] = "idle"]
  /\ UNCHANGED <<rows, archives, sec, dbLock, writerLock, job, sel, now, report, ghosts>>

-----------------------------------------------------------------------------
(* The environment.                                                           *)

Tick ==
  /\ sec < env.end
  /\ sec' = sec + 1
  /\ UNCHANGED <<disk, locks, pc, locals, report, ghosts>>

\* The rows up to the checkpoint's anchor: later scans start after them.
Covered == {r \in rows : \E a \in AnchorRows(cp) : r.rowid <= a.rowid}

\* A scan under way started after the row, or has passed it.
Passed(e) ==
  \E t \in Threads : \/ pc[t] = "cache"
                     \/ pc[t] = "scan" /\ \E r \in rows : r.id = e /\ r.rowid <= ver[t].from

\* The stored content of a row changes behind the store's back; where nothing
\* is archived, its event_hash may be emptied.
Corrupt(e) ==
  /\ e \in env.altered \ bad /\ e \in Ids(rows)
  /\ bad' = bad \cup {e}
  /\ blank' = blank \/ (~env.rotates /\ blank' = blank \cup {e})
  /\ missed' = IF e \in Ids(Covered) \/ Passed(e) THEN missed \cup {e} ELSE missed
  /\ UNCHANGED <<disk, sec, locks, pc, locals, report, written, pruned>>

\* The process dies and is started again: open transactions roll back.
Crash ==
  /\ env.crashes
  /\ \E p \in Procs : pc[p] # "idle"
  /\ dbLock' = Nil /\ writerLock' = Nil /\ readLock' = Nil
  /\ pc' = [p \in Procs |-> "idle"]
  /\ job' = [p \in Procs |-> NoJob]
  /\ sel' = [t \in Threads |-> {}] /\ now' = [t \in Threads |-> 0]
  /\ ver' = [t \in Threads |-> NoVer]
  /\ stamp' = [t \in Threads |-> NoCheckpoint]
  /\ report' = [t \in Threads |-> "none"]
  /\ UNCHANGED <<disk, sec, ghosts>>

Insertion(p) == Commit(p) \/ Rollback(p)
Rotation(t) ==
  \/ SkipRotation(t) \/ SelectOldest(t) \/ WriteArchive(t) \/ RotationFails(t)
  \/ DeleteRange(t) \/ ReadFirstRemaining(t) \/ StampRotation(t) \/ Vacuum(t)
Verification(t) == LookupAnchor(t) \/ CompareAnchor(t) \/ Scan(t) \/ CacheCheckpoint(t)

Next ==
  /\ UNCHANGED env
  /\ \/ \E p \in Procs : Insertion(p)
     \/ \E e \in env.low : AppendLow(e)
     \/ \E t \in env.threads :
          \/ \E e \in env.high : AppendHigh(t, e)
          \/ Retain(t)
          \/ Rotation(t)
          \/ \E s \in env.scopes : ReadCheckpoint(t, s)
          \/ Verification(t)
     \/ Tick
     \/ \E e \in Events : Corrupt(e)
     \/ Crash

Spec == Init /\ [][Next]_vars

-----------------------------------------------------------------------------
(* Properties.                                                                *)

\* Some thread in the middle of an operation can take its next step.
Progress ==
  \/ \E p \in Procs : Insertion(p)
  \/ \E t \in Threads : (pc[t] = "retain" /\ Retain(t)) \/ Rotation(t) \/ Verification(t)

\* Every variable keeps its type: rows, checkpoint and the locals of each
\* thread stay within the shapes the code gives them.
TypeOK ==
  /\ env \in Environments
  /\ rows \subseteq Row /\ cp \in Checkpoint
  /\ archives \in [Secs -> SUBSET Row] /\ sec \in Secs
  /\ dbLock \in Procs \cup {Nil}
  /\ writerLock \in Threads \cup {Nil} /\ readLock \in Threads \cup {Nil}
  /\ pc \in [Procs -> {"idle", "commit", "retain", "select", "archive", "delete",
                       "anchor", "stamp", "vacuum", "lookup", "compare", "scan", "cache"}]
  /\ job \in [Procs -> [ev : Events \cup {Nil}, prev : Seq(Events)]]
  /\ sel \in [Threads -> SUBSET Row] /\ now \in [Threads -> Secs]
  /\ ver \in [Threads -> [cp : Checkpoint, from : Nat, base : Seq(Events), scope : Scopes]]
  /\ stamp \in [Threads -> Checkpoint]
  /\ report \in [Threads -> {"none", "clean", "tampered"}]
  /\ bad \subseteq Events /\ blank \subseteq bad /\ missed \subseteq bad /\ pruned \subseteq Events
  /\ written \subseteq [id : Events, prev : Seq(Events)]

\* No two rows of the table continue the same predecessor: the two writers
\* never fork the chain (the comment on insert_audit_event), whatever
\* rotations, verifications, faults and crashes come in between.  (After a row
\* whose event_hash somebody emptied an insert starts over.)
NoFork == blank = {} => \A a, b \in rows : a.prev = b.prev => a = b

\* Only one thread calls the store; the drain may write beside it.
OneCaller == \A t, u \in env.threads : t = u

\* One thread does everything and nothing fails: no second caller, no drain.
Sequential == OneCaller /\ env.low = {} /\ ~env.faults /\ ~env.crashes

\* Every event ever committed, archived ones included, lies on one chain:
\* no predecessor is continued twice, so an insert after a rotation goes on
\* from the archived tail and GENESIS starts a chain only once.
OneHistory == \A a, b \in written : a.prev = b.prev => a.id = b.id

\* Without rotations, or with rotations by the only thread of a store in which
\* nothing fails, every event ever committed lies on one chain, as long as no
\* event_hash was emptied from outside.
LinearHistory == (env.rotates => Sequential) /\ blank = {} => OneHistory

\* In the same environments verify_chain, whatever its scope and checkpoint,
\* reports tampering only if some stored row was really altered.
NoFalseAlarm ==
  (env.rotates => Sequential) => \A t \in Threads : report[t] = "tampered" => bad # {}

\* A single rotating thread deletes only rows it has selected and, unless a
\* file write may have failed, archived: an insert of the drain between select
\* and delete is never swept away by the range.
DeletesOnlySelected ==
  [][OneCaller =>
       \A r \in rows : r.id \notin Ids(rows') =>
         /\ \E t \in Threads : /\ pc[t] = "delete" /\ pc'[t] = "anchor"
                               /\ r.id \in Ids(sel[t])
         /\ env.faults \/ \E s \in Secs : r.id \in Ids(archives[s])]_vars

\* When every verification covers all tenants and none of the table is archived,
\* a row altered before a scan reached it is not cached as verified: the
\* checkpoint never moves past it.  (A rotation anchors the checkpoint at the
\* first remaining row, which it does not verify.)
NoBadPointCached ==
  env.scopes = {Everyone} /\ ~env.rotates => \A r \in Covered : r.id \in bad => r.id \in missed

\* The audit_writer and read_conn mutexes and SQLite's write lock are never
\* waited for in a cycle: whenever an operation is under way, one can go on.
NoDeadlock == (\E p \in Procs : pc[p] # "idle") => ENABLED Progress
=============================================================================
