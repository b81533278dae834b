------------------------------ MODULE RuleStore -----------------------------
(***************************************************************************)
(* The rule set and its epoch: the in-memory RuleEngine (fg-rules), the    *)
(* tables rules, rule_meta and rule_mutations (fg-store), and the          *)
(* add/update/remove orchestration of AuditEngine, next to callers that    *)
(* list rules, mutate them and evaluate content.                           *)
(*                                                                         *)
(* A rule is its name and its pattern.  Every store call is two SQLite     *)
(* autocommits: the table write, then the row of rule_mutations.           *)
(***************************************************************************)
EXTENDS Integers, FiniteSets, Sequences

CONSTANTS
  Names,        \* rule names: numbers, for ORDER BY name
  Patterns,
  BadPatterns,  \* patterns that do not compile
  Seed,         \* the rule of default_ruleset
  Nil,
  Admins,       \* threads that serve rule mutations
  Evaluators,   \* threads that serve guard.evaluate
  Environments  \* the environments considered, see env

Rule == [name : Names, pat : Patterns]
Request ==
  [kind : {"add"}, rule : Rule] \cup
  [kind : {"update"}, name : Names, rule : Rule] \cup
  [kind : {"remove"}, name : Names]

\* What may happen around the rule store in one behaviour.
Environment == [
  admins     : SUBSET Admins,      \* the threads that mutate
  evaluators : SUBSET Evaluators,  \* the threads that evaluate
  requests   : SUBSET Request,     \* the mutations callers send
  careful    : BOOLEAN,            \* only mutations the engine will accept?
  stops      : {"never", "clean", "crash"},  \* how the daemon stops
  faults     : BOOLEAN,            \* may SQLite writes fail?
  end        : Nat \ {0}]          \* bound: no mutation from this epoch on

ASSUME RuleAssumption ==
  /\ Names \subseteq Nat /\ IsFiniteSet(Names) /\ Cardinality(Names) \in Nat
  /\ BadPatterns \subseteq Patterns
  /\ Seed \in Rule /\ Seed.pat \notin BadPatterns
  /\ Nil \notin Patterns /\ Nil \notin Admins
  /\ Environments \subseteq Environment

VARIABLES
  env,      \* the environment of this behaviour, fixed from the start
  table,    \* table rules: name -> pattern
  depoch,   \* rule_meta 'epoch' (0: no row)
  log,      \* what replaying rule_mutations gives: [rules, epoch]
  phase,    \* of the daemon: "down", "seeding", "up", "refused"
  mem,      \* RuleEngine.rules
  epoch,    \* RuleEngine.epoch
  orch,     \* owner of rule_orch_lock
  pc,       \* next step of each admin thread
  op,       \* the mutation it serves, and the epoch the caller gave
  half,     \* is the table written but not the mutation row?
  held,     \* the last rule list an admin's caller has got
  reply,    \* the result of its last mutation
  acked,    \* history: highest epoch returned by a mutation
  reseeded, \* history: a start has seeded again, after all rules were removed
  eval      \* per evaluator: step, caller epoch, epoch of the rules, label

vars == <<env, table, depoch, log, phase, mem, epoch, orch, pc, op, half, held, reply, acked, reseeded, eval>>
disk == <<table, depoch, log>>
engine == <<phase, mem, epoch>>

Compiles(p) == p \notin BadPatterns
Stored == {r \in Rule : table[r.name] = r.pat}
InMemory == {mem[i] : i \in DOMAIN mem}
Empty == [n \in Names |-> Nil]
NoOp == [req |-> Nil, ask |-> 0]
NoEval == [at |-> "idle", asked |-> 0, used |-> 0, label |-> 0]

Init ==
  /\ env \in Environments
  /\ table = Empty /\ depoch = 0 /\ log = [rules |-> Empty, epoch |-> 0]
  /\ phase = "down" /\ mem = << >> /\ epoch = 0
  /\ orch = Nil /\ half = FALSE
  /\ pc = [c \in Admins |-> "idle"] /\ op = [c \in Admins |-> NoOp]
  /\ held = [c \in Admins |-> [epoch |-> 0, rules |-> {}]]
  /\ reply = [c \in Admins |-> "none"]
  /\ acked = 0 /\ reseeded = FALSE /\ eval = [v \in Evaluators |-> NoEval]

-----------------------------------------------------------------------------
(* AuditEngine::new.                                                          *)

\* SELECT ... ORDER BY name: the sorted list, the only member of the set.
ByName(R) ==
  {s \in UNION {[1 .. n -> R] : n \in 0 .. Cardinality(Names)} :
    /\ R = {s[i] : i \in DOMAIN s}
    /\ \A i, j \in DOMAIN s : i < j => s[i].name < s[j].name}

\* load_rules has found no epoch, or no rule.
NothingStored == depoch = 0 \/ Stored = {}
Seeding ==
  /\ table' = [table EXCEPT ![Seed.name] = Seed.pat]
  /\ reseeded' = (reseeded \/ depoch # 0)

Boot_ignoresEpoch ==
  /\ phase = "down"
  /\ IF ~NothingStored
     THEN /\ IF \A r \in Stored : Compiles(r.pat)
             THEN phase' = "up" /\ mem' \in ByName(Stored) /\ epoch' = 1
             ELSE phase' = "refused" /\ UNCHANGED <<mem, epoch>>
          /\ UNCHANGED <<table, log, reseeded>>
     ELSE /\ Seeding
          /\ log' = [log EXCEPT !.rules[Seed.name] = Seed.pat]
          /\ phase' = "seeding" /\ UNCHANGED <<mem, epoch>>
  /\ UNCHANGED <<depoch, orch, pc, op, half, held, reply, acked, eval>>

\* A pattern that does not compile refuses the start; where nothing is stored
\* the default rule set is saved ...
Boot ==
  /\ phase = "down"
  /\ IF ~NothingStored
     THEN /\ IF \A r \in Stored : Compiles(r.pat)
             THEN phase' = "up" /\ mem' \in ByName(Stored) /\ epoch' = depoch
             ELSE phase' = "refused" /\ UNCHANGED <<mem, epoch>>
          /\ UNCHANGED <<table, log, reseeded>>
     ELSE /\ Seeding
          /\ log' = [log EXCEPT !.rules[Seed.name] = Seed.pat]
          /\ phase' = "seeding" /\ UNCHANGED <<mem, epoch>>
  /\ UNCHANGED <<depoch, orch, pc, op, half, held, reply, acked, eval>>

\* ... and its epoch, which is 1 whatever the epoch was.
SeedEpoch ==
  /\ phase = "seeding"
  /\ depoch' = 1 /\ log' = [log EXCEPT !.epoch = 1]
  /\ phase' = "up" /\ mem' = <<Seed>> /\ epoch' = 1
  /\ UNCHANGED <<table, orch, pc, op, half, held, reply, acked, reseeded, eval>>

\* save_rule or save_epoch fails, before or after the first of its two writes,
\* and refuses the start.
SeedFails ==
  /\ env.faults
  /\ \/ /\ phase = "down" /\ NothingStored /\ UNCHANGED depoch
        /\ Seeding \/ UNCHANGED <<table, reseeded>>
     \/ phase = "seeding" /\ depoch' \in {depoch, 1} /\ UNCHANGED <<table, reseeded>>
  /\ phase' = "refused"
  /\ UNCHANGED <<log, mem, epoch, orch, pc, op, half, held, reply, acked, eval>>

-----------------------------------------------------------------------------
(* guard.rule.add / update / remove.                                          *)

\* guard.rule.list.
List(c) ==
  /\ phase = "up" /\ pc[c] = "idle"
  /\ held' = [held EXCEPT ![c] = [epoch |-> epoch, rules |-> InMemory]]
  /\ UNCHANGED <<disk, engine, orch, pc, op, half, reply, acked, reseeded, eval>>

HasName(n) == \E r \in InMemory : r.name = n

\* A caller that knows the rules: no duplicate, no rename onto another rule
\* and no update with a pattern that does not compile.
Sensible(q) ==
  /\ q.kind = "add" => ~HasName(q.rule.name)
  /\ q.kind = "update" => /\ HasName(q.name) /\ Compiles(q.rule.pat)
                          /\ q.rule.name = q.name \/ ~HasName(q.rule.name)
  /\ q.kind = "remove" => HasName(q.name)

\* check_epoch: no epoch given, or the current one.
CheckEpoch(e) == e = 0 \/ e = epoch

\* The IPC handler checks the caller's epoch, then calls the engine.
Mutate(c, q, e) ==
  /\ phase = "up" /\ pc[c] = "idle" /\ CheckEpoch(e) /\ epoch < env.end
  /\ env.careful => Sensible(q)
  /\ op' = [op EXCEPT ![c] = [req |-> q, ask |-> e]]
  /\ pc' = [pc EXCEPT ![c] = "lock"]
  /\ reply' = [reply EXCEPT ![c] = "none"]
  /\ UNCHANGED <<disk, engine, orch, half, held, acked, reseeded, eval>>

\* rule_orch_lock is held until the call returns.
Lock(c) ==
  /\ pc[c] = "lock" /\ orch = Nil
  /\ orch' = c
  /\ pc' = [pc EXCEPT ![c] = IF op[c].req.kind = "remove" THEN "drop" ELSE "save"]
  /\ UNCHANGED <<disk, engine, op, half, held, reply, acked, reseeded, eval>>

Renames(q) == q.kind = "update" /\ q.name # q.rule.name

After_keepsOldName(stage, q) ==
  CASE stage \in {"save", "drop"} -> "engine"
    [] stage = "epoch" -> "ok"
    [] stage = "undo" -> "error"
    [] stage = "revert" -> "unadd"

\* Where a call goes on after a store call has succeeded ...
After(stage, q) ==
  CASE stage = "save" -> IF Renames(q) THEN "drop" ELSE "engine"
    [] stage = "drop" -> "engine"
    [] stage = "epoch" -> "ok"
    [] stage = "undo" -> "error"
    [] stage = "revert" -> "unadd"

\* ... and after it has failed.  What undoes an earlier step ignores errors.
OnError(stage, q) ==
  CASE stage = "save" -> "error"
    [] stage = "drop" -> IF q.kind = "remove" THEN "error" ELSE "engine"
    [] stage = "epoch" -> IF q.kind = "add" THEN "revert" ELSE "error"
    [] stage = "undo" -> "error"
    [] stage = "revert" -> "unadd"

Goto(c, to) ==
  IF to \in {"ok", "error"}
  THEN /\ pc' = [pc EXCEPT ![c] = "idle"] /\ op' = [op EXCEPT ![c] = NoOp]
       /\ orch' = Nil
       /\ reply' = [reply EXCEPT ![c] = to]
       /\ acked' = IF to = "ok" /\ epoch > acked THEN epoch ELSE acked
  ELSE pc' = [pc EXCEPT ![c] = to] /\ UNCHANGED <<op, orch, reply, acked>>

\* The table and the epoch row after a stage's write.
Target(stage, q) ==
  IF stage = "drop" THEN q.name ELSE q.rule.name

Written(stage, q, T) ==
  IF stage = "epoch" THEN T
  ELSE [T EXCEPT ![Target(stage, q)] = IF stage = "save" THEN q.rule.pat ELSE Nil]

Stages == {"save", "drop", "epoch", "undo", "revert"}

\* The first autocommit of save_rule, delete_rule or save_epoch ...
Write(c) ==
  /\ pc[c] \in Stages /\ ~half
  /\ table' = Written(pc[c], op[c].req, table)
  /\ depoch' = IF pc[c] = "epoch" THEN epoch ELSE depoch
  /\ half' = TRUE
  /\ UNCHANGED <<log, engine, orch, pc, op, held, reply, acked, reseeded, eval>>

AppendMutation_savesOnly(c) ==
  /\ pc[c] \in Stages /\ half
  /\ log' = [rules |-> IF pc[c] = "save" THEN Written(pc[c], op[c].req, log.rules) ELSE log.rules,
             epoch |-> IF pc[c] = "epoch" THEN epoch ELSE log.epoch]
  /\ half' = FALSE
  /\ Goto(c, After(pc[c], op[c].req))
  /\ UNCHANGED <<table, depoch, engine, held, reseeded, eval>>

\* ... and the second, append_rule_mutation.
AppendMutation(c) ==
  /\ pc[c] \in Stages /\ half
  /\ log' = [rules |-> Written(pc[c], op[c].req, log.rules),
             epoch |-> IF pc[c] = "epoch" THEN epoch ELSE log.epoch]
  /\ half' = FALSE
  /\ Goto(c, After(pc[c], op[c].req))
  /\ UNCHANGED <<table, depoch, engine, held, reseeded, eval>>

\* Either of them fails.
WriteFails(c) ==
  /\ env.faults /\ pc[c] \in Stages
  /\ half' = FALSE
  /\ Goto(c, OnError(pc[c], op[c].req))
  /\ UNCHANGED <<disk, engine, held, reseeded, eval>>

Position(n) == CHOOSE i \in DOMAIN mem : mem[i].name = n /\ \A j \in 1 .. i - 1 : mem[j].name # n
Without(i) == [k \in 1 .. Len(mem) - 1 |-> IF k < i THEN mem[k] ELSE mem[k + 1]]

\* RuleEngine::add, update and remove: do they succeed, and the new rules.
Accepts(q) ==
  CASE q.kind = "add" -> Compiles(q.rule.pat) /\ ~HasName(q.rule.name)
    [] q.kind = "update" -> Compiles(q.rule.pat) /\ HasName(q.name)
    [] q.kind = "remove" -> HasName(q.name)

Applied(q) ==
  CASE q.kind = "add" -> Append(mem, q.rule)
    [] q.kind = "update" -> [mem EXCEPT ![Position(q.name)] = q.rule]
    [] q.kind = "remove" -> Without(Position(q.name))

Apply_skipsSave(c) ==
  LET q == op[c].req IN
  /\ pc[c] = "engine"
  /\ IF Accepts(q)
     THEN mem' = Applied(q) /\ epoch' = epoch + 1 /\ Goto(c, "ok")
     ELSE /\ UNCHANGED <<mem, epoch>>
          /\ Goto(c, IF q.kind = "add" \/ Renames(q) THEN "undo" ELSE "error")
  /\ UNCHANGED <<disk, phase, half, held, reseeded, eval>>

\* The in-memory step.  When it refuses, add deletes what it had saved, and
\* so does an update that renames; the others leave the table as it is.
Apply(c) ==
  LET q == op[c].req IN
  /\ pc[c] = "engine"
  /\ IF Accepts(q)
     THEN mem' = Applied(q) /\ epoch' = epoch + 1 /\ Goto(c, "epoch")
     ELSE /\ UNCHANGED <<mem, epoch>>
          /\ Goto(c, IF q.kind = "add" \/ Renames(q) THEN "undo" ELSE "error")
  /\ UNCHANGED <<disk, phase, half, held, reseeded, eval>>

\* add_rule, when save_epoch failed: the rule is removed from memory, which
\* bumps the epoch again.
Unadd(c) ==
  /\ pc[c] = "unadd"
  /\ mem' = Without(Position(op[c].req.rule.name)) /\ epoch' = epoch + 1
  /\ Goto(c, "error")
  /\ UNCHANGED <<disk, phase, half, held, reseeded, eval>>

-----------------------------------------------------------------------------
(* AuditEngine::evaluate takes the read lock three times.                     *)

Check(v, e) ==
  /\ phase = "up" /\ eval[v].at = "idle" /\ CheckEpoch(e)
  /\ eval' = [eval EXCEPT ![v] = [NoEval EXCEPT !.at = "hits", !.asked = e]]
  /\ UNCHANGED <<disk, engine, orch, pc, op, half, held, reply, acked, reseeded>>

Hits_labelFirst(v) ==
  /\ eval[v].at = "hits"
  /\ eval' = [eval EXCEPT ![v].at = "label", ![v].label = epoch]
  /\ UNCHANGED <<disk, engine, orch, pc, op, half, held, reply, acked, reseeded>>

\* evaluate_full_typed sees the rules of this moment.
Hits(v) ==
  /\ eval[v].at = "hits"
  /\ eval' = [eval EXCEPT ![v].at = "label", ![v].used = epoch]
  /\ UNCHANGED <<disk, engine, orch, pc, op, half, held, reply, acked, reseeded>>

Label_hitsLast(v) ==
  /\ eval[v].at = "label"
  /\ eval' = [eval EXCEPT ![v].at = "done", ![v].used = epoch]
  /\ UNCHANGED <<disk, engine, orch, pc, op, half, held, reply, acked, reseeded>>

\* verdict_from_hits(&hits, self.rules.epoch()).
Label(v) ==
  /\ eval[v].at = "label"
  /\ eval' = [eval EXCEPT ![v].at = "done", ![v].label = epoch]
  /\ UNCHANGED <<disk, engine, orch, pc, op, half, held, reply, acked, reseeded>>

Reply(v) ==
  /\ eval[v].at = "done"
  /\ eval' = [eval EXCEPT ![v] = NoEval]
  /\ UNCHANGED <<disk, engine, orch, pc, op, half, held, reply, acked, reseeded>>

-----------------------------------------------------------------------------
\* The daemon stops, in the middle of anything if it crashes, or is to be
\* started again after a start that was refused.
Stop ==
  /\ phase # "down" /\ env.stops # "never"
  /\ env.stops = "crash" \/ (phase # "seeding" /\ \A c \in Admins : pc[c] = "idle")
  /\ phase' = "down" /\ mem' = << >> /\ epoch' = 0
  /\ orch' = Nil /\ half' = FALSE
  /\ pc' = [c \in Admins |-> "idle"] /\ op' = [c \in Admins |-> NoOp]
  /\ reply' = [c \in Admins |-> "none"]
  /\ eval' = [v \in Evaluators |-> NoEval]
  /\ UNCHANGED <<disk, held, acked, reseeded>>

Mutation(c) ==
  \/ Lock(c) \/ Write(c) \/ AppendMutation(c) \/ WriteFails(c) \/ Apply(c) \/ Unadd(c)
Evaluation_labelFirst(v) == Hits_labelFirst(v) \/ Label_hitsLast(v) \/ Reply(v)
Evaluation(v) == Hits(v) \/ Label(v) \/ Reply(v)

Next ==
  /\ UNCHANGED env
  /\ \/ Boot \/ SeedEpoch \/ SeedFails \/ Stop
     \/ \E c \in env.admins :
          \/ List(c) \/ Mutation(c)
          \/ \E q \in env.requests, e \in {0, held[c].epoch} : Mutate(c, q, e)
     \/ \E v \in env.evaluators : Evaluation(v) \/ \E e \in {0, epoch} : Check(v, e)

Spec == Init /\ [][Next]_vars

-----------------------------------------------------------------------------
(* Properties.                                                                *)

\* Tables, memory and the locals of the threads keep their shapes, and a
\* thread between Lock and its return, and no other, owns rule_orch_lock.
TypeOK ==
  /\ env \in Environments
  /\ table \in [Names -> Patterns \cup {Nil}] /\ depoch \in Nat
  /\ log \in [rules : [Names -> Patterns \cup {Nil}], epoch : Nat]
  /\ phase \in {"down", "seeding", "up", "refused"}
  /\ mem \in Seq(Rule) /\ epoch \in Nat
  /\ orch \in Admins \cup {Nil} /\ half \in BOOLEAN
  /\ \A c \in Admins : pc[c] \notin {"idle", "lock"} <=> orch = c
  /\ pc \in [Admins -> Stages \cup {"idle", "lock", "engine", "unadd"}]
  /\ op \in [Admins -> [req : Request \cup {Nil}, ask : Nat]]
  /\ held \in [Admins -> [epoch : Nat, rules : SUBSET Rule]]
  /\ reply \in [Admins -> {"none", "ok", "error"}]
  /\ acked \in Nat /\ reseeded \in BOOLEAN
  /\ eval \in [Evaluators -> [at : {"idle", "hits", "label", "done"}, asked : Nat,
                              used : Nat, label : Nat]]

\* One caller, who knows the rules, and no write fails.
Accepted == env.careful /\ ~env.faults /\ \A c, d \in env.admins : c = d

\* No write fails and no crash separates two of them.
Whole == env.stops # "crash" /\ ~env.faults

\* With no mutation under way, the rules in force are the rules stored: those
\* a restart would load, or none, when a restart would seed.
RulesPersist == phase = "up" /\ orch = Nil => Stored = InMemory

\* With one caller who knows the rules, the rules in force are those stored,
\* wherever in a mutation the daemon crashed.
RulesSurviveRestart == Accepted => RulesPersist

\* An epoch that a mutation has returned to its caller is kept: the daemon, once
\* up again after a crash, is at that epoch or past it.  README.md:307 and
\* CHANGELOG.md:105 have the epoch persisted and monotone without exception; the
\* code has one, and no other.  When all rules were removed, the next start
\* takes the empty table for a first start and sets the epoch to 1.
AckedEpochsKept == Accepted /\ phase = "up" /\ epoch < acked => reseeded

\* The stale-epoch check does its work, with concurrent mutations and across
\* clean restarts: a caller whose epoch is the current one holds the current
\* rules, until a start that seeds again gives old epochs to other rules.
EpochNamesRules ==
  Whole /\ (Accepted \/ env.stops = "never") /\ ~reseeded =>
    \A c \in Admins : phase = "up" /\ held[c].epoch = epoch => held[c].rules = InMemory

\* A verdict is computed with rules no older than the caller's epoch and
\* labelled with an epoch no older than the rules.
VerdictNotStale ==
  \A v \in Evaluators : eval[v].at = "done" =>
    eval[v].asked <= eval[v].used /\ eval[v].used <= eval[v].label

\* Replaying rule_mutations gives the stored rules and epoch whenever no
\* mutation is under way.
LogRecordsEveryMutation ==
  Whole /\ phase = "up" /\ orch = Nil => log.rules = table /\ log.epoch = depoch
=============================================================================
