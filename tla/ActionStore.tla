----------------------------- MODULE ActionStore ----------------------------
(***************************************************************************)
(* The pending actions of fg-store (action.db) and the confirm flow of the *)
(* audit engine: put, evict_expired, and confirm_atomic, which decides an  *)
(* action by inserting an audit row (audit.db) and setting consumed        *)
(* (action.db, ATTACHed) in one BEGIN IMMEDIATE transaction.               *)
(***************************************************************************)
EXTENDS Integers, Sequences

CONSTANTS
  Actions,      \* action ids (one UUID per verdict)
  Callers,      \* threads that serve guard.confirm
  Tenants,
  Nil,          \* no lock owner, no action
  Ttl,          \* ACTION_TTL_SECS
  MaxTime,      \* bound on the clock
  MaxDecided,   \* bound: calls about an action end after so many decisions
  Environments  \* the environments considered, see env

\* What may happen around the store in one behaviour.
Environment == [
  alterable : SUBSET Actions,  \* whose risk_level column may be altered in place
  faults    : BOOLEAN,         \* may SQLite statements fail?
  split     : BOOLEAN,         \* may a crash or an I/O error separate the commit
                               \* of audit.db from the commit of action.db?
  end       : 0 .. MaxTime]    \* the clock stops here

ASSUME ActionAssumption ==
  /\ Nil \notin Actions /\ Nil \notin Callers /\ Tenants # {}
  /\ Ttl \in Nat /\ MaxTime \in Nat /\ MaxDecided \in Nat
  /\ Environments \subseteq Environment

VARIABLES
  env,       \* the environment of this behaviour, fixed from the start
  live,      \* actions with a row in pending_actions
  row,       \* their rows (kept after a deletion, for the properties)
  decided,   \* the confirm rows of audit_events, per action
  clock,     \* wall clock, seconds
  writer,    \* owner of the audit_writer mutex and of both write locks
  pc,        \* next step of each caller
  call,      \* the arguments of its call
  evictAt,   \* the time evict_expired has read
  reply,     \* the answer to its last call
  issued,    \* history: actions that were put
  evicted    \* history: actions deleted before they were decided

vars == <<env, live, row, decided, clock, writer, pc, call, evictAt, reply, issued, evicted>>
db == <<live, row, decided>>
caller == <<pc, call, evictAt, reply>>
history == <<issued, evicted>>

Risks == {"L3", "L4"}
Outcomes == {"approved", "rejected"}
Row == [risk : Risks, json : Risks, tenant : Tenants, created : 0 .. MaxTime, consumed : BOOLEAN]
Calls == [action : Actions, outcome : Outcomes, tenant : Tenants]
ActionError == {"not found", "absolute block", "risk tampered", "cross tenant",
                "consumed", "expired", "failed"}

NoRow == [risk |-> "L4", json |-> "L4", tenant |-> CHOOSE u \in Tenants : TRUE,
          created |-> 0, consumed |-> FALSE]
NoCall == [action |-> Nil]

Init ==
  /\ env \in Environments
  /\ live = {} /\ row = [a \in Actions |-> NoRow]
  /\ decided = [a \in Actions |-> << >>]
  /\ clock = 0 /\ writer = Nil
  /\ pc = [c \in Callers |-> "idle"] /\ call = [c \in Callers |-> NoCall]
  /\ evictAt = [c \in Callers |-> 0] /\ reply = [c \in Callers |-> "none"]
  /\ issued = {} /\ evicted = {}

\* ActionStore::put, called by evaluate with a fresh action_id.  Its own
\* connection waits while a confirm transaction holds action.db; the time is
\* read before the wait.
Put(a, r, u) ==
  /\ a \notin issued /\ writer = Nil
  /\ live' = live \cup {a}
  /\ \E t \in 0 .. clock :
       row' = [row EXCEPT ![a] = [risk |-> r, json |-> r, tenant |-> u,
                                  created |-> t, consumed |-> FALSE]]
  /\ issued' = issued \cup {a}
  /\ UNCHANGED <<decided, clock, writer, caller, evicted>>

\* AuditEngine::confirm is called; evict_expired reads the clock first.
Confirm(c, k) ==
  /\ pc[c] = "idle" /\ Len(decided[k.action]) < MaxDecided
  /\ call' = [call EXCEPT ![c] = k]
  /\ evictAt' = [evictAt EXCEPT ![c] = clock]
  /\ reply' = [reply EXCEPT ![c] = "none"]
  /\ pc' = [pc EXCEPT ![c] = "evict"]
  /\ UNCHANGED <<db, clock, writer, history>>

Overdue(a, now) == row[a].created + Ttl < now

Evict_unlocked(c) ==
  /\ pc[c] = "evict"
  /\ live' = {a \in live : ~Overdue(a, evictAt[c])}
  /\ evicted' = evicted \cup {a \in live : Overdue(a, evictAt[c]) /\ decided[a] = << >>}
  /\ pc' = [pc EXCEPT ![c] = "begin"]
  /\ evictAt' = [evictAt EXCEPT ![c] = 0]
  /\ UNCHANGED <<row, decided, clock, writer, call, reply, issued>>

\* DELETE FROM pending_actions WHERE created_ts + ttl_secs < now.
Evict(c) ==
  /\ pc[c] = "evict" /\ writer = Nil
  /\ live' = {a \in live : ~Overdue(a, evictAt[c])}
  /\ evicted' = evicted \cup {a \in live : Overdue(a, evictAt[c]) /\ decided[a] = << >>}
  /\ pc' = [pc EXCEPT ![c] = "begin"]
  /\ evictAt' = [evictAt EXCEPT ![c] = 0]
  /\ UNCHANGED <<row, decided, clock, writer, call, reply, issued>>

\* confirm ignores an error of evict_expired.
EvictFails(c) ==
  /\ env.faults /\ pc[c] = "evict"
  /\ pc' = [pc EXCEPT ![c] = "begin"]
  /\ evictAt' = [evictAt EXCEPT ![c] = 0]
  /\ UNCHANGED <<db, clock, writer, call, reply, history>>

\* The checks of confirm_atomic, in their order; "none" lets the call through.
Refusal(k) ==
  LET a == k.action IN
  IF a \notin live THEN "not found"
  ELSE IF row[a].risk = "L4" THEN "absolute block"
  ELSE IF row[a].risk # row[a].json THEN "risk tampered"
  ELSE IF row[a].tenant # k.tenant THEN "cross tenant"
  ELSE IF row[a].consumed THEN "consumed"
  ELSE IF Overdue(a, clock) THEN "expired"
  ELSE "none"

Answer(c, r) ==
  /\ reply' = [reply EXCEPT ![c] = r]
  /\ pc' = [pc EXCEPT ![c] = "idle"]
  /\ call' = [call EXCEPT ![c] = NoCall]

\* Lock audit_writer, BEGIN IMMEDIATE, SELECT, and an early return.
Refuse(c) ==
  /\ pc[c] = "begin" /\ writer = Nil
  /\ Refusal(call[c]) # "none"
  /\ Answer(c, Refusal(call[c]))
  /\ UNCHANGED <<db, clock, writer, evictAt, history>>

Begin_autocommit(c) ==
  /\ pc[c] = "begin" /\ writer = Nil
  /\ Refusal(call[c]) = "none"
  /\ writer' = writer
  /\ pc' = [pc EXCEPT ![c] = "commit audit"]
  /\ UNCHANGED <<db, clock, call, evictAt, reply, history>>

\* The checks pass; the audit row and consumed = 1 are written in the
\* transaction, which keeps both databases locked.
Begin(c) ==
  /\ pc[c] = "begin" /\ writer = Nil
  /\ Refusal(call[c]) = "none"
  /\ writer' = c
  /\ pc' = [pc EXCEPT ![c] = "commit audit"]
  /\ UNCHANGED <<db, clock, call, evictAt, reply, history>>

\* BEGIN, the audit insert or the UPDATE fails: the transaction is rolled
\* back and the action can be confirmed again.
Fail(c) ==
  /\ env.faults /\ pc[c] \in {"begin", "commit audit"}
  /\ writer' = IF writer = c THEN Nil ELSE writer
  /\ Answer(c, "failed")
  /\ UNCHANGED <<db, clock, evictAt, history>>

CommitAudit_consumeOnly(c) ==
  /\ pc[c] = "commit audit"
  /\ row' = [row EXCEPT ![call[c].action].consumed = TRUE]
  /\ pc' = [pc EXCEPT ![c] = "commit action"]
  /\ UNCHANGED <<live, decided, clock, writer, call, evictAt, reply, history>>

\* COMMIT.  In WAL mode SQLite commits the files one after the other, the
\* main one (audit.db) first ...
CommitAudit(c) ==
  /\ pc[c] = "commit audit"
  /\ decided' = [decided EXCEPT ![call[c].action] =
                   Append(@, [outcome |-> call[c].outcome, tenant |-> call[c].tenant])]
  /\ pc' = [pc EXCEPT ![c] = "commit action"]
  /\ UNCHANGED <<live, row, clock, writer, call, evictAt, reply, history>>

CommitAction_keepsLock(c) ==
  /\ pc[c] = "commit action"
  /\ row' = [row EXCEPT ![call[c].action].consumed = TRUE]
  /\ Answer(c, call[c].outcome)
  /\ UNCHANGED <<live, decided, clock, writer, evictAt, history>>

\* ... then the ATTACHed action.db.
CommitAction(c) ==
  /\ pc[c] = "commit action"
  /\ row' = [row EXCEPT ![call[c].action].consumed = TRUE]
  /\ writer' = Nil
  /\ Answer(c, call[c].outcome)
  /\ UNCHANGED <<live, decided, clock, evictAt, history>>

\* The commit of the second file fails when the first is already committed.
CommitActionFails(c) ==
  /\ env.split /\ env.faults /\ pc[c] = "commit action"
  /\ writer' = Nil
  /\ Answer(c, "failed")
  /\ UNCHANGED <<db, clock, evictAt, history>>

-----------------------------------------------------------------------------
(* The environment.                                                           *)

Tick ==
  /\ clock < env.end /\ clock' = clock + 1
  /\ UNCHANGED <<db, writer, caller, history>>

\* The risk_level column of a row changes behind the store's back.
Alter(a) ==
  /\ a \in env.alterable \cap live /\ writer = Nil
  /\ \E r \in Risks \ {row[a].risk} : row' = [row EXCEPT ![a].risk = r]
  /\ UNCHANGED <<live, decided, clock, writer, caller, history>>

\* The process dies and is started again; an open transaction is rolled back.
Crash ==
  /\ \E c \in Callers : pc[c] # "idle"
  /\ env.split \/ \A c \in Callers : pc[c] # "commit action"
  /\ writer' = Nil
  /\ pc' = [c \in Callers |-> "idle"] /\ call' = [c \in Callers |-> NoCall]
  /\ evictAt' = [c \in Callers |-> 0] /\ reply' = [c \in Callers |-> "none"]
  /\ UNCHANGED <<db, clock, history>>

Step(c) ==
  \/ Evict(c) \/ EvictFails(c) \/ Refuse(c) \/ Begin(c) \/ Fail(c)
  \/ CommitAudit(c) \/ CommitAction(c) \/ CommitActionFails(c)

Next ==
  /\ UNCHANGED env
  /\ \/ \E a \in Actions, r \in Risks, u \in Tenants : Put(a, r, u)
     \/ \E c \in Callers : Step(c) \/ \E k \in Calls : Confirm(c, k)
     \/ Tick
     \/ \E a \in Actions : Alter(a)
     \/ Crash

Spec == Init /\ [][Next]_vars

\* A thread that can go on is scheduled; a lock that is free is obtained.
FairSpec == Spec /\ \A c \in Callers : WF_vars(UNCHANGED env /\ Step(c))

-----------------------------------------------------------------------------
(* Properties.                                                                *)

DbType ==
  /\ live \subseteq issued /\ issued \subseteq Actions /\ evicted \subseteq issued
  /\ row \in [Actions -> Row] /\ clock \in 0 .. MaxTime
  /\ decided \in [Actions -> Seq([outcome : Outcomes, tenant : Tenants])]

CallerType ==
  /\ pc \in [Callers -> {"idle", "evict", "begin", "commit audit", "commit action"}]
  /\ call \in [Callers -> Calls \cup {NoCall}]
  /\ evictAt \in [Callers -> 0 .. MaxTime]
  /\ reply \in [Callers -> {"none"} \cup Outcomes \cup ActionError]
  /\ \A c \in Callers : call[c] \in Calls <=> pc[c] # "idle"

LockType ==
  /\ writer \in Callers \cup {Nil}
  /\ \A c \in Callers : pc[c] \in {"commit audit", "commit action"} <=> writer = c

\* Rows, calls and replies keep the shapes the code gives them, and the
\* caller inside the transaction, and only that one, owns the writer.
TypeOK == env \in Environments /\ DbType /\ CallerType /\ LockType

\* An action is decided at most once: concurrent confirms, retries and
\* restarts never leave two confirm rows for one action_id.
OneDecision == \A a \in Actions : Len(decided[a]) <= 1

\* As long as the two files commit together, an action is decided at most once,
\* whatever confirms, evictions, failed statements and crashes interleave.
DecidedOnce == env.split \/ OneDecision

\* With no transaction open, and commits never split, a stored action is
\* marked consumed exactly when a confirm row exists: no consumption without
\* audit, no audit that can be replayed.
ConsumedIffAudited ==
  (writer = Nil /\ ~env.split) =>
    \A a \in live : row[a].consumed <=> decided[a] # << >>

\* Consumption is never recorded before its audit row, not even when a crash
\* separates the two files (the audit-then-consume order of confirm_atomic).
NoUnauditedConsumption == \A a \in Actions : row[a].consumed => decided[a] # << >>

\* Only the tenant an action was issued to decides it, and an action issued
\* as L4 is never decided, even if its risk column is altered later.
DecisionsAuthorised ==
  \A a \in Actions : \A i \in 1 .. Len(decided[a]) :
    decided[a][i].tenant = row[a].tenant /\ row[a].json # "L4"

\* An action that was evicted undecided stays undecided: an eviction never
\* slips between the checks of a confirm and its commit.
EvictedStaysUndecided == \A a \in evicted : decided[a] = << >>

Status(a) ==
  IF decided[a] # << >> THEN decided[a][Len(decided[a])].outcome
  ELSE IF a \in evicted THEN "expired"
  ELSE IF a \in issued THEN "pending" ELSE "none"

Gate == INSTANCE ApprovalGate WITH
          status <- [a \in Actions |-> Status(a)],
          absolute <- {a \in issued : row[a].json = "L4"}

\* The confirm flow implements the abstract approval gate as long as the two
\* files commit together: what evaluate issues is decided or expires, once and
\* for all.
ImplementsGate ==
  Gate!Init /\ [][env.split \/ Gate!Next]_<<[a \in Actions |-> Status(a)],
                                            {a \in issued : row[a].json = "L4"}>>

\* Every guard.confirm call is answered.  Another caller holds the locks only
\* to decide an action, and each action is decided once.
CallsAnswered == \A c \in Callers : pc[c] # "idle" ~> pc[c] = "idle"
=============================================================================
