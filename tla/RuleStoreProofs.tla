-------------------------- MODULE RuleStoreProofs ---------------------------
(***************************************************************************)
(* Proofs about RuleStore, for any sets of names, patterns, threads and    *)
(* environments.                                                           *)
(***************************************************************************)
EXTENDS RuleStore, TLAPS

\* What a thread that serves a mutation may be doing, and to which request.
Working(c) ==
  LET q == op[c].req IN
  /\ c \in env.admins /\ q \in Request /\ phase = "up"
  /\ pc[c] = "save" => q.kind # "remove"
  /\ pc[c] = "drop" => q.kind = "remove" \/ Renames(q)
  /\ pc[c] = "undo" => q.kind = "add" \/ Renames(q)
  /\ pc[c] \in {"revert", "unadd"} => q.kind = "add"
  /\ pc[c] \in {"epoch", "revert", "unadd"} /\ q.kind = "add" => HasName(q.rule.name)

Shape ==
  /\ \A c \in Admins : pc[c] # "idle" => Working(c)
  /\ half => orch # Nil /\ pc[orch] \in Stages
  /\ \A v \in Evaluators : eval[v].at # "idle" => phase = "up"
  /\ phase = "up" => epoch > 0

Sound == TypeOK /\ Shape

\* An evaluation under way has seen epochs in order.
Fresh ==
  \A v \in Evaluators :
    /\ eval[v].at # "idle" => eval[v].asked <= epoch
    /\ eval[v].at \in {"label", "done"} => eval[v].asked <= eval[v].used /\ eval[v].used <= epoch
    /\ eval[v].at = "done" => eval[v].used <= eval[v].label

\* The mutation log lags by at most the write of the lock's owner.
Logged ==
  Whole =>
    /\ ~half => log.rules = table /\ log.epoch = depoch
    /\ half => /\ table = Written(pc[orch], op[orch].req, log.rules)
               /\ depoch = IF pc[orch] = "epoch" THEN epoch ELSE log.epoch

-----------------------------------------------------------------------------
(* One caller, accepted mutations.                                            *)

Distinct == \A i, j \in DOMAIN mem : mem[i].name = mem[j].name => i = j

Named(n) == {r \in Rule : r.name = n}
With(R, r) == (R \ Named(r.name)) \cup {r}

\* The table when a request has gone through: what Apply makes of the memory.
Goal(q) ==
  CASE q.kind = "add" -> With(InMemory, q.rule)
    [] q.kind = "update" -> With(InMemory \ Named(q.name), q.rule)
    [] q.kind = "remove" -> InMemory \ Named(q.name)

\* What the table holds at each step of the only caller's mutation.
Stage(c) ==
  LET q == op[c].req IN
  /\ pc[c] \in {"lock", "save", "drop", "engine"} => Sensible(q)
  /\ pc[c] = "lock" => Stored = InMemory
  /\ pc[c] = "save" => Stored = IF half THEN With(InMemory, q.rule) ELSE InMemory
  /\ pc[c] = "drop" => Stored = IF half THEN Goal(q)
                                ELSE IF q.kind = "remove" THEN InMemory ELSE With(InMemory, q.rule)
  /\ pc[c] = "engine" => Stored = Goal(q)
  /\ pc[c] = "undo" => /\ q.kind = "add" /\ ~HasName(q.rule.name)
                       /\ Stored = IF half THEN InMemory ELSE With(InMemory, q.rule)
  /\ pc[c] = "epoch" => Stored = InMemory
  /\ pc[c] \notin {"revert", "unadd"}
  /\ IF pc[c] = "epoch" /\ ~half THEN epoch = depoch + 1 ELSE epoch = depoch

InStep ==
  Accepted =>
    /\ reseeded \/ acked <= depoch
    /\ depoch = 0 => acked = 0 /\ Stored \subseteq {Seed}
    /\ phase = "seeding" => Stored = {Seed} /\ (reseeded \/ depoch = 0)
    /\ phase = "up" => /\ depoch # 0 /\ Distinct
                       /\ orch = Nil => Stored = InMemory /\ depoch = epoch
    /\ \A c \in Admins : pc[c] # "idle" => Stage(c)

\* What callers hold is of the past, or what is in force.
Known ==
  Whole /\ (Accepted \/ env.stops = "never") /\ ~reseeded =>
    \A c \in Admins :
      /\ phase = "up" => /\ held[c].epoch <= epoch
                         /\ held[c].epoch = epoch => held[c].rules = InMemory
      /\ phase # "up" => /\ held[c].epoch <= depoch
                         /\ depoch # 0 /\ held[c].epoch = depoch => held[c].rules = Stored
                         /\ env.stops = "never" => depoch = 0

-----------------------------------------------------------------------------
(* Requests, tables and rule lists.                                           *)

\* The fields of a request, by kind.
LEMMA RequestFields ==
  ASSUME NEW q \in Request
  PROVE  /\ q.kind \in {"add", "update", "remove"}
         /\ q.kind # "remove" => q.rule \in Rule /\ q.rule.name \in Names /\ q.rule.pat \in Patterns
         /\ q.kind # "add" => q.name \in Names
  BY Zenon DEF Request, Rule

\* A store call writes a table, given a request of the right kind.
LEMMA WrittenIsTable ==
  ASSUME NEW q \in Request, NEW stage \in Stages, NEW T \in [Names -> Patterns \cup {Nil}],
         stage = "save" => q.kind # "remove",
         stage = "drop" => q.kind # "add",
         stage \in {"undo", "revert"} => q.kind # "remove"
  PROVE  Written(stage, q, T) \in [Names -> Patterns \cup {Nil}]
  BY Zenon, RequestFields DEF Written, Target, Stages

\* A list that is not empty has a first place.
LEMMA FilledLen ==
  ASSUME mem \in Seq(Rule), mem # << >>
  PROVE  Len(mem) \in Nat /\ Len(mem) >= 1 /\ 1 \in DOMAIN mem
<1>1. Len(mem) \in Nat /\ DOMAIN mem = 1 .. Len(mem)
  OBVIOUS
<1>2. Len(mem) # 0
  OBVIOUS
<1>3. QED
  BY <1>1, <1>2

\* Stored is finite, and boot reads it as a list.
LEMMA StoredIsList ==
  ASSUME NEW s \in ByName(Stored)
  PROVE  s \in Seq(Rule)
<1>1. PICK n \in 0 .. Cardinality(Names) : s \in [1 .. n -> Stored]
  BY Zenon DEF ByName
<1>2. n \in Nat /\ Stored \subseteq Rule
  BY <1>1, RuleAssumption DEF Stored
<1>3. QED
  BY <1>1, <1>2

\* Position finds the rule of a name, when no other has it.
LEMMA PositionFound ==
  ASSUME mem \in Seq(Rule), Distinct, NEW n, HasName(n)
  PROVE  Position(n) \in DOMAIN mem /\ mem[Position(n)].name = n
<1>1. PICK p \in DOMAIN mem : mem[p].name = n
  BY Zenon DEF HasName, InMemory
<1>2. ASSUME NEW j \in 1 .. p - 1 PROVE mem[j].name # n
  <2>1. j \in DOMAIN mem /\ j # p
    BY <1>1
  <2>2. QED
    BY Zenon, <1>1, <2>1 DEF Distinct
<1>3. \E i \in DOMAIN mem : mem[i].name = n /\ \A j \in 1 .. i - 1 : mem[j].name # n
  BY Zenon, <1>1, <1>2
<1>4. QED
  BY Zenon, <1>3 DEF Position

\* A rule list without a place is a rule list.
LEMMA WithoutList ==
  ASSUME mem \in Seq(Rule), mem # << >>, NEW i
  PROVE  Without(i) \in Seq(Rule) /\ Len(Without(i)) = Len(mem) - 1
<1>1. Len(mem) \in Nat /\ Len(mem) - 1 \in Nat
  BY FilledLen
<1>2. \A k \in 1 .. Len(mem) - 1 : mem[k] \in Rule /\ mem[k + 1] \in Rule
  BY <1>1
<1>3. Without(i) \in [1 .. Len(mem) - 1 -> Rule]
  BY Zenon, <1>2 DEF Without
<1>4. QED
  BY <1>1, <1>3

-----------------------------------------------------------------------------
(* Types, and what the threads may be doing.                                  *)

Active == Stages \cup {"engine", "unadd"}

\* What Working asks of the owner of the lock at step `to', in the memory m.
Fits(to, q, m) ==
  /\ to = "save" => q.kind # "remove"
  /\ to = "drop" => q.kind = "remove" \/ Renames(q)
  /\ to = "undo" => q.kind = "add" \/ Renames(q)
  /\ to \in {"revert", "unadd"} => q.kind = "add"
  /\ to \in {"epoch", "revert", "unadd"} /\ q.kind = "add" =>
       \E i \in DOMAIN m : m[i].name = q.rule.name

\* A thread in the middle of a mutation owns the lock; the others wait.
LEMMA Owner ==
  ASSUME Sound, NEW c \in Admins, pc[c] \in Active
  PROVE  /\ orch = c /\ c # Nil /\ Working(c) /\ op[c].req \in Request
         /\ phase = "up" /\ Fits(pc[c], op[c].req, mem)
         /\ \A d \in Admins : d # c => pc[d] \in {"idle", "lock"}
<1>1. pc[c] \notin {"idle", "lock"}
  BY Zenon DEF Active, Stages
<1>2. orch = c /\ Working(c)
  BY Zenon, <1>1 DEF Sound, TypeOK, Shape
<1>3. Fits(pc[c], op[c].req, mem)
  BY Zenon, <1>2 DEF Working, Fits, HasName, InMemory
<1>4. QED
  BY Zenon, <1>2, <1>3, RuleAssumption DEF Sound, TypeOK, Working

\* Goto keeps Sound, if the rest of the step keeps the types and the next step
\* suits the request.
LEMMA GotoSound ==
  ASSUME Sound, NEW c \in Admins, pc[c] \in Active,
         NEW to \in Active \cup {"ok", "error"}, Goto(c, to),
         to \in Active => Fits(to, op[c].req, mem'),
         UNCHANGED <<env, phase, held, reseeded, eval>>, half' = FALSE,
         table' \in [Names -> Patterns \cup {Nil}], depoch' \in Nat,
         log' \in [rules : [Names -> Patterns \cup {Nil}], epoch : Nat],
         mem' \in Seq(Rule), epoch' \in Nat, epoch' >= epoch
  PROVE  Sound'
<1>1. /\ orch = c /\ c # Nil /\ Working(c) /\ op[c].req \in Request /\ phase = "up"
      /\ \A d \in Admins : d # c => pc[d] \in {"idle", "lock"}
  BY Zenon, Owner
<1>2. to \in Active => to \notin {"ok", "error", "idle", "lock"}
  BY Zenon DEF Active, Stages
<1>3. CASE to \in Active
  <2>1. pc' = [pc EXCEPT ![c] = to] /\ UNCHANGED <<op, orch, reply, acked>>
    BY Zenon, <1>2, <1>3 DEF Goto
  <2>2. TypeOK'
    BY Zenon, <1>1, <1>2, <1>3, <2>1 DEF Sound, TypeOK, Active
  <2>3. Working(c)'
    BY Zenon, <1>1, <1>3, <2>1 DEF Working, Fits, HasName, InMemory, Renames, Sound, TypeOK
  <2>4. ASSUME NEW d \in Admins, d # c, pc'[d] # "idle" PROVE Working(d)'
    <3>1. pc'[d] = pc[d] /\ pc[d] = "lock" /\ op'[d] = op[d] /\ Working(d)
      BY Zenon, <1>1, <2>1, <2>4 DEF Sound, Shape, TypeOK
    <3>2. QED
      BY Zenon, <3>1 DEF Working
  <2>5. Shape'
    BY <1>1, <2>1, <2>3, <2>4 DEF Sound, Shape, TypeOK
  <2>6. QED
    BY Zenon, <2>2, <2>5 DEF Sound
<1>4. CASE to \in {"ok", "error"}
  <2>1. /\ pc' = [pc EXCEPT ![c] = "idle"] /\ op' = [op EXCEPT ![c] = NoOp]
        /\ orch' = Nil /\ reply' = [reply EXCEPT ![c] = to]
        /\ acked' = IF to = "ok" /\ epoch > acked THEN epoch ELSE acked
    BY Zenon, <1>4 DEF Goto
  <2>2. TypeOK'
    BY Zenon, <1>1, <1>4, <2>1, RuleAssumption DEF Sound, TypeOK, NoOp
  <2>3. ASSUME NEW d \in Admins, pc'[d] # "idle" PROVE Working(d)'
    <3>1. d # c /\ pc'[d] = pc[d] /\ pc[d] = "lock" /\ op'[d] = op[d] /\ Working(d)
      BY Zenon, <1>1, <2>1, <2>3 DEF Sound, Shape, TypeOK
    <3>2. QED
      BY Zenon, <3>1 DEF Working
  <2>4. Shape'
    BY <1>1, <2>1, <2>3 DEF Sound, Shape, TypeOK
  <2>5. QED
    BY Zenon, <2>2, <2>4 DEF Sound
<1>5. QED
  BY Zenon, <1>3, <1>4

\* The in-memory step gives a list of rules, with the added rule in it.
LEMMA AppliedIsList ==
  ASSUME mem \in Seq(Rule), NEW q \in Request, Accepts(q)
  PROVE  /\ Applied(q) \in Seq(Rule)
         /\ q.kind = "add" => \E i \in DOMAIN Applied(q) : Applied(q)[i].name = q.rule.name
<1>1. CASE q.kind = "add"
  <2>1. Applied(q) = Append(mem, q.rule) /\ q.rule \in Rule
    BY Zenon, <1>1, RequestFields DEF Applied
  <2>2. /\ Append(mem, q.rule) \in Seq(Rule) /\ Len(mem) + 1 \in DOMAIN Append(mem, q.rule)
        /\ Append(mem, q.rule)[Len(mem) + 1] = q.rule
    BY <2>1
  <2>3. QED
    BY Zenon, <2>1, <2>2
<1>2. CASE q.kind = "update"
  <2>1. q.rule \in Rule /\ HasName(q.name) /\ Applied(q) = [mem EXCEPT ![Position(q.name)] = q.rule]
    BY Zenon, <1>2, RequestFields DEF Applied, Accepts
  <2>2. [mem EXCEPT ![Position(q.name)] = q.rule] \in [1 .. Len(mem) -> Rule]
    <3>1. PICK D, p : D = 1 .. Len(mem) /\ p = Position(q.name) /\ mem \in [D -> Rule]
      OBVIOUS
    <3>2. [mem EXCEPT ![p] = q.rule] \in [D -> Rule]
      BY <2>1, <3>1
    <3>3. QED
      BY Zenon, <3>1, <3>2
  <2>3. QED
    BY <1>2, <2>1, <2>2
<1>3. CASE q.kind = "remove"
  <2>1. HasName(q.name) /\ Applied(q) = Without(Position(q.name))
    BY Zenon, <1>3, RequestFields DEF Applied, Accepts
  <2>2. mem # << >>
    BY <2>1 DEF HasName, InMemory
  <2>3. QED
    BY Zenon, <1>3, <2>1, <2>2, WithoutList
<1>4. QED
  BY Zenon, <1>1, <1>2, <1>3, RequestFields

\* While the daemon is not up, no thread is at work.
LEMMA Quiet ==
  ASSUME Sound, phase # "up"
  PROVE  /\ \A c \in Admins : pc[c] = "idle"
         /\ orch = Nil /\ half = FALSE /\ \A v \in Evaluators : eval[v].at = "idle"
<1>1. \A c \in Admins : pc[c] = "idle"
  BY Zenon DEF Sound, Shape, Working
<1>2. orch = Nil
  BY Zenon, <1>1 DEF Sound, TypeOK
<1>3. QED
  BY Zenon, <1>1, <1>2 DEF Sound, Shape, TypeOK

\* Boot keeps Sound.
LEMMA BootSound ==
  ASSUME Sound, Boot, UNCHANGED env
  PROVE  Sound'
<1>1. /\ \A c \in Admins : pc[c] = "idle"
      /\ orch = Nil /\ half = FALSE /\ \A v \in Evaluators : eval[v].at = "idle"
  BY Zenon, Quiet DEF Boot
<1>2. /\ table' \in [Names -> Patterns \cup {Nil}] /\ epoch' \in Nat
      /\ log' \in [rules : [Names -> Patterns \cup {Nil}], epoch : Nat]
      /\ phase' \in {"up", "refused", "seeding"} /\ mem' \in Seq(Rule)
      /\ phase' = "up" => epoch' > 0
      /\ reseeded' \in BOOLEAN
  <2>1. CASE ~NothingStored
    <3>1. /\ depoch # 0 /\ UNCHANGED <<table, log, reseeded>>
          /\ \/ phase' = "up" /\ mem' \in ByName(Stored) /\ epoch' = depoch
             \/ phase' = "refused" /\ UNCHANGED <<mem, epoch>>
      BY Zenon, <2>1 DEF Boot, NothingStored
    <3>2. QED
      BY <3>1, StoredIsList DEF Sound, TypeOK
  <2>2. CASE NothingStored
    <3>1. /\ table' = [table EXCEPT ![Seed.name] = Seed.pat]
          /\ log' = [log EXCEPT !.rules[Seed.name] = Seed.pat]
          /\ phase' = "seeding" /\ UNCHANGED <<mem, epoch>>
          /\ reseeded' = (reseeded \/ depoch # 0)
      BY Zenon, <2>2 DEF Boot, Seeding
    <3>2. Seed.name \in Names /\ Seed.pat \in Patterns
      BY Zenon, RuleAssumption DEF Rule
    <3>3. log' = [rules |-> [log.rules EXCEPT ![Seed.name] = Seed.pat], epoch |-> log.epoch]
      BY Zenon, <3>1 DEF Sound, TypeOK
    <3>4. /\ table' \in [Names -> Patterns \cup {Nil}]
          /\ [log.rules EXCEPT ![Seed.name] = Seed.pat] \in [Names -> Patterns \cup {Nil}]
          /\ log.epoch \in Nat /\ mem \in Seq(Rule) /\ epoch \in Nat
      BY Zenon, <3>1, <3>2 DEF Sound, TypeOK
    <3>5. QED
      BY Zenon, <3>1, <3>3, <3>4
  <2>3. QED
    BY Zenon, <2>1, <2>2
<1>3. TypeOK'
  BY Zenon, <1>2 DEF Boot, Sound, TypeOK
<1>4. Shape'
  BY Zenon, <1>1, <1>2 DEF Boot, Shape
<1>5. QED
  BY Zenon, <1>3, <1>4 DEF Sound

\* SeedEpoch keeps Sound.
LEMMA SeedEpochSound ==
  ASSUME Sound, SeedEpoch, UNCHANGED env
  PROVE  Sound'
<1>1. /\ \A c \in Admins : pc[c] = "idle"
      /\ orch = Nil /\ half = FALSE /\ \A v \in Evaluators : eval[v].at = "idle"
  BY Zenon, Quiet DEF SeedEpoch
<1>2. mem' \in Seq(Rule) /\ log' \in [rules : [Names -> Patterns \cup {Nil}], epoch : Nat]
  <2>1. log' = [rules |-> log.rules, epoch |-> 1]
    BY Zenon DEF SeedEpoch, Sound, TypeOK
  <2>2. mem' \in Seq(Rule)
    BY RuleAssumption DEF SeedEpoch
  <2>3. QED
    BY Zenon, <2>1, <2>2 DEF Sound, TypeOK
<1>3. TypeOK'
  BY Zenon, <1>2 DEF SeedEpoch, Sound, TypeOK
<1>4. Shape'
  BY <1>1 DEF SeedEpoch, Shape
<1>5. QED
  BY Zenon, <1>3, <1>4 DEF Sound

\* SeedFails keeps Sound.
LEMMA SeedFailsSound ==
  ASSUME Sound, SeedFails, UNCHANGED env
  PROVE  Sound'
<1>1. /\ \A c \in Admins : pc[c] = "idle"
      /\ orch = Nil /\ half = FALSE /\ \A v \in Evaluators : eval[v].at = "idle"
  BY Zenon, Quiet DEF SeedFails
<1>2. table' \in [Names -> Patterns \cup {Nil}] /\ reseeded' \in BOOLEAN
  <2>1. Seed.name \in Names /\ Seed.pat \in Patterns
    BY Zenon, RuleAssumption DEF Rule
  <2>2. QED
    BY Zenon, <2>1 DEF SeedFails, Seeding, Sound, TypeOK
<1>3. depoch' \in Nat
  <2>1. depoch' \in {depoch, 1} /\ depoch \in Nat
    BY Zenon DEF SeedFails, Sound, TypeOK
  <2>2. QED
    BY <2>1
<1>4. TypeOK'
  BY Zenon, <1>2, <1>3 DEF SeedFails, Sound, TypeOK
<1>5. Shape'
  BY Zenon, <1>1 DEF SeedFails, Shape
<1>6. QED
  BY Zenon, <1>4, <1>5 DEF Sound

\* Stop keeps Sound.
LEMMA StopSound ==
  ASSUME Sound, Stop, UNCHANGED env
  PROVE  Sound'
<1>1. NoOp \in [req : Request \cup {Nil}, ask : Nat]
  BY Zenon DEF NoOp
<1>2. NoEval \in [at : {"idle", "hits", "label", "done"}, asked : Nat, used : Nat, label : Nat]
  BY Zenon DEF NoEval
<1>3. << >> \in Seq(Rule)
  OBVIOUS
<1>4. TypeOK'
  BY Zenon, <1>1, <1>2, <1>3, RuleAssumption DEF Stop, disk, Sound, TypeOK
<1>5. Shape'
  BY Zenon DEF Stop, Shape, NoEval
<1>6. QED
  BY Zenon, <1>4, <1>5 DEF Sound

\* Steps that leave the lock, the daemon and its threads as they are.
LEMMA AsideSound ==
  ASSUME Sound, UNCHANGED <<env, disk, engine, orch, pc, op, half, reply, acked, reseeded>>,
         held' \in [Admins -> [epoch : Nat, rules : SUBSET Rule]],
         eval' \in [Evaluators -> [at : {"idle", "hits", "label", "done"}, asked : Nat,
                                   used : Nat, label : Nat]],
         \A v \in Evaluators : eval'[v].at # "idle" => phase = "up"
  PROVE  Sound'
<1>1. TypeOK'
  BY Zenon DEF Sound, TypeOK, disk, engine
<1>2. \A c \in Admins : Working(c) => Working(c)'
  BY DEF Working, HasName, InMemory, engine
<1>3. Shape'
  BY Zenon, <1>2 DEF Sound, Shape, disk, engine
<1>4. QED
  BY Zenon, <1>1, <1>3 DEF Sound

\* List keeps Sound.
LEMMA ListSound ==
  ASSUME Sound, NEW c \in Admins, List(c), UNCHANGED env
  PROVE  Sound'
<1>1. InMemory \subseteq Rule /\ epoch \in Nat
  BY DEF InMemory, Sound, TypeOK
<1>2. held' \in [Admins -> [epoch : Nat, rules : SUBSET Rule]]
  BY Zenon, <1>1 DEF List, Sound, TypeOK
<1>3. /\ eval' \in [Evaluators -> [at : {"idle", "hits", "label", "done"}, asked : Nat,
                                   used : Nat, label : Nat]]
      /\ \A v \in Evaluators : eval'[v].at # "idle" => phase = "up"
  BY Zenon DEF List, Sound, TypeOK, Shape
<1>4. QED
  BY Zenon, <1>2, <1>3, AsideSound DEF List

\* What an evaluation starts from.
LEMMA EvalStarts ==
  ASSUME NEW e \in Nat
  PROVE  LET n == [NoEval EXCEPT !.at = "hits", !.asked = e] IN
         /\ n \in [at : {"idle", "hits", "label", "done"}, asked : Nat, used : Nat, label : Nat]
         /\ n.at = "hits" /\ n.asked = e
<1>1. NoEval \in [at : {"idle", "hits", "label", "done"}, asked : Nat, used : Nat, label : Nat]
  BY Zenon DEF NoEval
<1>2. QED
  BY Zenon, <1>1

\* The steps of an evaluation keep Sound.
LEMMA EvaluationSound ==
  ASSUME Sound, NEW v \in Evaluators, UNCHANGED env,
         Evaluation(v) \/ \E e \in {0, epoch} : Check(v, e)
  PROVE  Sound'
<1>1. /\ UNCHANGED <<env, disk, engine, orch, pc, op, half, reply, acked, reseeded>> /\ UNCHANGED held
      /\ held' \in [Admins -> [epoch : Nat, rules : SUBSET Rule]]
  BY Zenon DEF Evaluation, Hits, Label, Reply, Check, Sound, TypeOK
<1>2. eval' \in [Evaluators -> [at : {"idle", "hits", "label", "done"}, asked : Nat,
                                used : Nat, label : Nat]]
  <2>1. CASE Hits(v)
    BY ZenonT(40), <2>1 DEF Hits, Sound, TypeOK
  <2>2. CASE Label(v)
    BY Zenon, <2>2 DEF Label, Sound, TypeOK
  <2>3. CASE Reply(v)
    BY Zenon, <2>3 DEF Reply, Sound, TypeOK, NoEval
  <2>4. ASSUME NEW e \in {0, epoch}, Check(v, e)
        PROVE  eval' \in [Evaluators -> [at : {"idle", "hits", "label", "done"}, asked : Nat,
                                         used : Nat, label : Nat]]
    <3>1. e \in Nat
      BY DEF Sound, TypeOK
    <3>2. [NoEval EXCEPT !.at = "hits", !.asked = e]
            \in [at : {"idle", "hits", "label", "done"}, asked : Nat, used : Nat, label : Nat]
      BY Zenon, <3>1, EvalStarts
    <3>3. QED
      BY Zenon, <2>4, <3>2 DEF Check, Sound, TypeOK
  <2>5. QED
    BY Zenon, <2>1, <2>2, <2>3, <2>4 DEF Evaluation
<1>3. phase = "up"
  BY Zenon DEF Evaluation, Hits, Label, Reply, Check, Sound, Shape
<1>4. QED
  BY Zenon, <1>1, <1>2, <1>3, AsideSound

\* Mutate keeps Sound.
LEMMA MutateSound ==
  ASSUME Sound, NEW c \in env.admins, NEW q \in env.requests, NEW e \in {0, held[c].epoch},
         Mutate(c, q, e), UNCHANGED env
  PROVE  Sound'
<1>1. c \in Admins /\ q \in Request /\ e \in Nat
  BY RuleAssumption DEF Sound, TypeOK, Environment
<1>2. TypeOK'
  BY Zenon, <1>1 DEF Mutate, Sound, TypeOK, disk, engine
<1>3. Working(c)'
  BY Zenon, <1>1 DEF Mutate, Working, Sound, TypeOK, engine
<1>4. ASSUME NEW d \in Admins, d # c, pc'[d] # "idle" PROVE Working(d)'
  <2>1. pc'[d] = pc[d] /\ op'[d] = op[d] /\ Working(d)
    BY Zenon, <1>1, <1>4 DEF Mutate, Sound, Shape, TypeOK
  <2>2. QED
    BY Zenon, <2>1 DEF Mutate, Working, HasName, InMemory, engine
<1>5. orch # c
  BY Zenon, <1>1 DEF Mutate, Sound, TypeOK
<1>6. Shape'
  BY Zenon, <1>1, <1>3, <1>4, <1>5 DEF Mutate, Sound, Shape, TypeOK, engine
<1>7. QED
  BY Zenon, <1>2, <1>6 DEF Sound

\* Lock keeps Sound.
LEMMA LockSound ==
  ASSUME Sound, NEW c \in Admins, Lock(c), UNCHANGED env
  PROVE  Sound'
<1>1. c # Nil /\ Working(c) /\ op[c].req \in Request
  BY Zenon, RuleAssumption DEF Lock, Sound, Shape, Working
<1>2. \A d \in Admins : pc[d] \in {"idle", "lock"}
  BY Zenon, RuleAssumption DEF Lock, Sound, TypeOK
<1>3. TypeOK'
  BY Zenon, <1>1, <1>2 DEF Lock, Sound, TypeOK, disk, engine, Stages
<1>4. Working(c)'
  BY Zenon, <1>1, RequestFields DEF Lock, Working, Sound, TypeOK, engine
<1>5. ASSUME NEW d \in Admins, d # c, pc'[d] # "idle" PROVE Working(d)'
  <2>1. pc'[d] = pc[d] /\ op'[d] = op[d] /\ Working(d)
    BY Zenon, <1>5 DEF Lock, Sound, Shape, TypeOK
  <2>2. QED
    BY Zenon, <2>1 DEF Lock, Working, HasName, InMemory, engine
<1>6. Shape'
  BY Zenon, <1>1, <1>4, <1>5 DEF Lock, Sound, Shape, TypeOK, engine
<1>7. QED
  BY Zenon, <1>3, <1>6 DEF Sound

\* Write keeps Sound.
LEMMA WriteSound ==
  ASSUME Sound, NEW c \in Admins, Write(c), UNCHANGED env
  PROVE  Sound'
<1>1. pc[c] \in Stages /\ pc[c] \in Active
  BY Zenon DEF Write, Active
<1>2. /\ orch = c /\ c # Nil /\ op[c].req \in Request /\ phase = "up"
      /\ Fits(pc[c], op[c].req, mem)
  BY Zenon, <1>1, Owner
<1>3. table' \in [Names -> Patterns \cup {Nil}] /\ depoch' \in Nat
  BY Zenon, <1>1, <1>2, WrittenIsTable, RequestFields DEF Write, Fits, Sound, TypeOK, Renames
<1>4. TypeOK'
  BY Zenon, <1>3 DEF Write, Sound, TypeOK, engine
<1>5. \A d \in Admins : Working(d) => Working(d)'
  BY Zenon DEF Write, Working, HasName, InMemory, engine
<1>6. Shape'
  BY Zenon, <1>1, <1>2, <1>5 DEF Write, Sound, Shape, engine
<1>7. QED
  BY Zenon, <1>4, <1>6 DEF Sound

\* AppendMutation keeps Sound.
LEMMA AppendMutationSound ==
  ASSUME Sound, NEW c \in Admins, AppendMutation(c), UNCHANGED env
  PROVE  Sound'
<1>1. pc[c] \in Stages /\ pc[c] \in Active
  BY Zenon DEF AppendMutation, Active
<1>2. op[c].req \in Request /\ Fits(pc[c], op[c].req, mem)
  BY Zenon, <1>1, Owner
<1>3. log' \in [rules : [Names -> Patterns \cup {Nil}], epoch : Nat]
  <2>1. Written(pc[c], op[c].req, log.rules) \in [Names -> Patterns \cup {Nil}]
    BY Zenon, <1>1, <1>2, WrittenIsTable, RequestFields DEF Fits, Sound, TypeOK, Renames
  <2>2. QED
    BY Zenon, <2>1 DEF AppendMutation, Sound, TypeOK
<1>4. After(pc[c], op[c].req) \in Active \cup {"ok", "error"}
  BY Zenon, <1>1 DEF After, Active, Stages
<1>5. After(pc[c], op[c].req) \in Active => Fits(After(pc[c], op[c].req), op[c].req, mem)
  BY Zenon, <1>1, <1>2, RequestFields DEF After, Active, Stages, Fits, Renames
<1>6. /\ UNCHANGED <<env, phase, held, reseeded, eval>> /\ half' = FALSE
      /\ table' \in [Names -> Patterns \cup {Nil}] /\ depoch' \in Nat
      /\ mem' \in Seq(Rule) /\ mem' = mem /\ epoch' \in Nat /\ epoch' >= epoch
      /\ Goto(c, After(pc[c], op[c].req))
  BY DEF AppendMutation, engine, Sound, TypeOK
<1> DEFINE to == After(pc[c], op[c].req)
<1>7. to \in Active \cup {"ok", "error"} /\ Goto(c, to) /\ (to \in Active => Fits(to, op[c].req, mem'))
  BY Zenon, <1>4, <1>5, <1>6
<1> HIDE DEF to
<1>8. QED
  BY Zenon, <1>1, <1>3, <1>6, <1>7, GotoSound

\* WriteFails keeps Sound.
LEMMA WriteFailsSound ==
  ASSUME Sound, NEW c \in Admins, WriteFails(c), UNCHANGED env
  PROVE  Sound'
<1>1. pc[c] \in Stages /\ pc[c] \in Active
  BY Zenon DEF WriteFails, Active
<1>2. op[c].req \in Request /\ Fits(pc[c], op[c].req, mem)
  BY Zenon, <1>1, Owner
<1>3. OnError(pc[c], op[c].req) \in Active \cup {"ok", "error"}
  BY Zenon, <1>1 DEF OnError, Active, Stages
<1>4. OnError(pc[c], op[c].req) \in Active => Fits(OnError(pc[c], op[c].req), op[c].req, mem)
  BY Zenon, <1>1, <1>2, RequestFields DEF OnError, Active, Stages, Fits, Renames
<1>5. /\ UNCHANGED <<env, phase, held, reseeded, eval>> /\ half' = FALSE
      /\ table' \in [Names -> Patterns \cup {Nil}] /\ depoch' \in Nat
      /\ log' \in [rules : [Names -> Patterns \cup {Nil}], epoch : Nat]
      /\ mem' \in Seq(Rule) /\ mem' = mem /\ epoch' \in Nat /\ epoch' >= epoch
      /\ Goto(c, OnError(pc[c], op[c].req))
  BY DEF WriteFails, disk, engine, Sound, TypeOK
<1> DEFINE to == OnError(pc[c], op[c].req)
<1>6. to \in Active \cup {"ok", "error"} /\ Goto(c, to) /\ (to \in Active => Fits(to, op[c].req, mem'))
  BY Zenon, <1>3, <1>4, <1>5
<1> HIDE DEF to
<1>7. QED
  BY Zenon, <1>1, <1>5, <1>6, GotoSound

\* Apply keeps Sound.
LEMMA ApplySound ==
  ASSUME Sound, NEW c \in Admins, Apply(c), UNCHANGED env
  PROVE  Sound'
<1> DEFINE q == op[c].req
           to == IF Accepts(q) THEN "epoch" ELSE IF q.kind = "add" \/ Renames(q) THEN "undo" ELSE "error"
<1>1. pc[c] \in Active /\ pc[c] \notin Stages
  BY Zenon DEF Apply, Active, Stages
<1>2. q \in Request /\ orch = c
  BY Zenon, <1>1, Owner
<1>3. half' = FALSE
  BY Zenon, <1>1, <1>2 DEF Apply, Sound, Shape, TypeOK
<1>4. mem' \in Seq(Rule) /\ epoch' \in Nat /\ epoch' >= epoch
  BY <1>2, AppliedIsList DEF Apply, Sound, TypeOK
<1>5. to \in Active \cup {"ok", "error"} /\ Goto(c, to)
  BY Zenon DEF Apply, Active, Stages
<1>6. to \in Active => Fits(to, q, mem')
  BY ZenonT(40), <1>2, AppliedIsList DEF Apply, Active, Stages, Fits, Sound, TypeOK
<1> HIDE DEF to
<1>7. QED
  BY Zenon, <1>1, <1>3, <1>4, <1>5, <1>6, GotoSound DEF Apply, disk, Sound, TypeOK

\* Unadd keeps Sound.
LEMMA UnaddSound ==
  ASSUME Sound, NEW c \in Admins, Unadd(c), UNCHANGED env
  PROVE  Sound'
<1>1. pc[c] \in Active /\ pc[c] \notin Stages
  BY Zenon DEF Unadd, Active, Stages
<1>2. op[c].req \in Request /\ orch = c /\ HasName(op[c].req.rule.name)
  BY Zenon, <1>1, Owner DEF Fits, Unadd, HasName, InMemory
<1>3. half' = FALSE
  BY Zenon, <1>1, <1>2 DEF Unadd, Sound, Shape, TypeOK
<1>4. mem' \in Seq(Rule) /\ epoch' \in Nat /\ epoch' >= epoch
  <2>1. mem # << >> /\ mem \in Seq(Rule)
    BY <1>2 DEF HasName, InMemory, Sound, TypeOK
  <2>2. Without(Position(op[c].req.rule.name)) \in Seq(Rule)
    BY Zenon, <2>1, WithoutList
  <2>3. QED
    BY <2>2 DEF Unadd, Sound, TypeOK
<1>5. QED
  BY Zenon, <1>1, <1>3, <1>4, GotoSound DEF Unadd, disk, Sound, TypeOK, Active, Stages

\* Sound is an invariant.
LEMMA SoundKept ==
  ASSUME Sound, [Next]_vars
  PROVE  Sound'
<1>1. CASE UNCHANGED vars
  BY Zenon, <1>1, AsideSound DEF vars, disk, engine, Sound, TypeOK, Shape
<1>2. CASE Next
  <2>1. env.admins \subseteq Admins /\ env.evaluators \subseteq Evaluators
    BY Zenon, RuleAssumption DEF Sound, TypeOK, Environment
  <2>2. ASSUME NEW c \in env.admins, Mutation(c) PROVE Sound'
    BY Zenon, <1>2, <2>1, <2>2, LockSound, WriteSound, AppendMutationSound, WriteFailsSound,
       ApplySound, UnaddSound DEF Mutation, Next
  <2>3. QED
    BY Zenon, <1>2, <2>1, <2>2, BootSound, SeedEpochSound, SeedFailsSound, StopSound, ListSound,
       MutateSound, EvaluationSound DEF Next
<1>3. QED
  BY Zenon, <1>1, <1>2

\* Sound holds at the start.
LEMMA SoundInit ==
  Init => Sound
<1> SUFFICES ASSUME Init PROVE Sound
  BY Zenon
<1>1. NoOp \in [req : Request \cup {Nil}, ask : Nat]
  BY Zenon DEF NoOp
<1>2. NoEval \in [at : {"idle", "hits", "label", "done"}, asked : Nat, used : Nat, label : Nat]
  BY Zenon DEF NoEval
<1>3. << >> \in Seq(Rule) /\ Empty \in [Names -> Patterns \cup {Nil}]
  BY DEF Empty
<1>4. TypeOK
  BY Zenon, <1>1, <1>2, <1>3, RuleAssumption DEF Init, TypeOK
<1>5. Shape
  BY Zenon DEF Init, Shape, NoEval
<1>6. QED
  BY Zenon, <1>4, <1>5 DEF Sound

-----------------------------------------------------------------------------
(* Evaluations and the mutation log.                                          *)

\* The epoch only grows while the daemon is up.
LEMMA EpochGrows ==
  ASSUME Sound, Next, UNCHANGED eval, phase = "up"
  PROVE  (phase' = "up" /\ epoch' >= epoch) \/ Stop
<1>1. epoch \in Nat
  BY Zenon DEF Sound, TypeOK
<1>2. ASSUME NEW c, Mutation(c) PROVE phase' = phase /\ epoch' \in {epoch, epoch + 1}
  BY Zenon, <1>2 DEF Mutation, Lock, Write, AppendMutation, WriteFails, Apply, Unadd, engine
<1>3. ASSUME NEW c, NEW q, NEW e, Mutate(c, q, e) PROVE phase' = phase /\ epoch' = epoch
  BY Zenon, <1>3 DEF Mutate, engine
<1>4. ASSUME NEW v, NEW e, Evaluation(v) \/ Check(v, e) PROVE phase' = phase /\ epoch' = epoch
  BY Zenon, <1>4 DEF Evaluation, Hits, Label, Reply, Check, engine
<1>5. ASSUME NEW c, List(c) PROVE phase' = phase /\ epoch' = epoch
  BY Zenon, <1>5 DEF List, engine
<1>6. ~Boot /\ ~SeedEpoch /\ ~SeedFails
  BY Zenon DEF Boot, SeedEpoch, SeedFails
<1>7. (phase' = phase /\ epoch' \in {epoch, epoch + 1}) \/ Stop
  BY Zenon, <1>2, <1>3, <1>4, <1>5, <1>6 DEF Next
<1>8. QED
  BY <1>1, <1>7

\* Every step keeps Fresh.
LEMMA FreshKept ==
  ASSUME Sound, Fresh, [Next]_vars
  PROVE  Fresh'
<1>1. CASE UNCHANGED <<eval, epoch>>
  BY Zenon, <1>1 DEF Fresh
<1>2. CASE Stop
  BY Zenon, <1>2 DEF Fresh, Stop, NoEval
<1>3. CASE Next /\ UNCHANGED eval
  <2>1. CASE phase # "up"
    BY Zenon, <1>3, <2>1, Quiet DEF Fresh
  <2>2. CASE phase = "up" /\ ~Stop
    <3>1. epoch' >= epoch /\ epoch \in Nat /\ epoch' \in Nat
      BY Zenon, <1>3, <2>2, EpochGrows, SoundKept DEF Sound, TypeOK
    <3>2. \A v \in Evaluators : eval[v].asked \in Nat /\ eval[v].used \in Nat
      BY Zenon DEF Sound, TypeOK
    <3>3. QED
      BY <1>3, <3>1, <3>2 DEF Fresh
  <2>3. QED
    BY Zenon, <1>2, <2>1, <2>2
<1>4. ASSUME NEW v \in Evaluators, Evaluation(v) \/ \E e \in {0, epoch} : Check(v, e)
      PROVE  Fresh'
  <2>1. epoch' = epoch /\ epoch \in Nat /\ eval[v].asked \in Nat /\ eval[v].used \in Nat
    BY Zenon, <1>4 DEF Evaluation, Hits, Label, Reply, Check, engine, Sound, TypeOK
  <2>2. CASE Hits(v)
    BY <2>1, <2>2 DEF Hits, Fresh, Sound, TypeOK
  <2>3. CASE Label(v)
    BY Zenon, <2>1, <2>3 DEF Label, Fresh, Sound, TypeOK
  <2>4. CASE Reply(v)
    BY Zenon, <2>1, <2>4 DEF Reply, Fresh, Sound, TypeOK, NoEval
  <2>5. ASSUME NEW e \in {0, epoch}, Check(v, e) PROVE Fresh'
    <3>1. e \in Nat /\ e <= epoch
      BY <2>1
    <3> DEFINE n == [NoEval EXCEPT !.at = "hits", !.asked = e]
    <3>2. n.at = "hits" /\ n.asked = e /\ eval' = [eval EXCEPT ![v] = n]
      BY Zenon, <2>5, <3>1, EvalStarts DEF Check
    <3> HIDE DEF n
    <3>3. QED
      BY Zenon, <2>1, <3>1, <3>2 DEF Fresh, Sound, TypeOK
  <2>6. QED
    BY Zenon, <1>4, <2>2, <2>3, <2>4, <2>5 DEF Evaluation
<1>5. CASE UNCHANGED vars
  BY Zenon, <1>1, <1>5 DEF vars
<1>6. CASE Next /\ ~UNCHANGED eval /\ ~Stop
  <2>1. env.evaluators \subseteq Evaluators
    BY Zenon, RuleAssumption DEF Sound, TypeOK, Environment
  <2>2. \E v \in env.evaluators : Evaluation(v) \/ \E e \in {0, epoch} : Check(v, e)
    BY Zenon, <1>6 DEF Next, Boot, SeedEpoch, SeedFails, List, Mutation, Lock, Write, AppendMutation, WriteFails,
       Apply, Unadd, Mutate
  <2>3. QED
    BY Zenon, <1>4, <2>1, <2>2
<1>7. QED
  BY Zenon, <1>2, <1>3, <1>5, <1>6

\* Every step keeps Logged.
LEMMA LoggedKept ==
  ASSUME Sound, Logged, [Next]_vars
  PROVE  Logged'
<1> SUFFICES ASSUME Whole'
    PROVE  /\ ~half' => log'.rules = table' /\ log'.epoch = depoch'
           /\ half' => /\ table' = Written(pc'[orch'], op'[orch'].req, log'.rules)
                       /\ depoch' = IF pc'[orch'] = "epoch" THEN epoch' ELSE log'.epoch
  BY Zenon DEF Logged
<1>1. Whole
  BY Zenon DEF Whole, Next, vars
<1>2. /\ ~half => log.rules = table /\ log.epoch = depoch
      /\ half => /\ table = Written(pc[orch], op[orch].req, log.rules)
                 /\ depoch = IF pc[orch] = "epoch" THEN epoch ELSE log.epoch
  BY Zenon, <1>1 DEF Logged
<1>3. log.rules \in [Names -> Patterns \cup {Nil}] /\ half \in BOOLEAN
  BY Zenon DEF Sound, TypeOK
<1>4. CASE UNCHANGED <<disk, epoch, orch, half, pc, op>>
  BY Zenon, <1>2, <1>4 DEF disk
<1>5. CASE Boot
  <2>1. ~half /\ ~half'
    BY Zenon, <1>5, Quiet DEF Boot
  <2>2. \/ log' = log /\ table' = table
        \/ log'.rules = table' /\ log'.epoch = log.epoch
    <3>1. CASE log' = [log EXCEPT !.rules[Seed.name] = Seed.pat]
               /\ table' = [table EXCEPT ![Seed.name] = Seed.pat]
      <4>1. /\ log'.rules = [log.rules EXCEPT ![Seed.name] = Seed.pat]
            /\ log'.epoch = log.epoch
        BY Zenon, <3>1 DEF Sound, TypeOK
      <4>2. QED
        BY Zenon, <1>2, <2>1, <3>1, <4>1
    <3>2. QED
      BY Zenon, <1>5, <3>1 DEF Boot, Seeding
  <2>3. depoch' = depoch
    BY Zenon, <1>5 DEF Boot
  <2>4. QED
    BY Zenon, <1>2, <2>1, <2>2, <2>3
<1>6. CASE SeedEpoch
  <2>1. ~half /\ ~half'
    BY Zenon, <1>6, Quiet DEF SeedEpoch
  <2>2. log'.rules = log.rules /\ log'.epoch = 1 /\ table' = table /\ depoch' = 1
    BY Zenon, <1>6 DEF SeedEpoch, Sound, TypeOK
  <2>3. QED
    BY Zenon, <1>2, <2>1, <2>2
<1>7. CASE Stop
  <2>1. \A c \in Admins : pc[c] = "idle"
    BY Zenon, <1>1, <1>7 DEF Stop, Whole
  <2>2. ~half
    BY Zenon, <2>1 DEF Sound, Shape, TypeOK, Stages
  <2>3. QED
    BY Zenon, <1>2, <1>7, <2>2 DEF Stop, disk
<1>8. ASSUME NEW c \in Admins, Lock(c) \/ Apply(c) \/ Unadd(c)
      PROVE  ~half /\ ~half' /\ UNCHANGED disk
  <2>1. CASE Lock(c)
    BY Zenon, <1>3, <2>1 DEF Lock, Sound, Shape
  <2>2. CASE Apply(c) \/ Unadd(c)
    <3>1. pc[c] \in {"engine", "unadd"} /\ pc[c] \in Active
      BY Zenon, <2>2 DEF Apply, Unadd, Active
    <3>2. orch = c /\ pc[c] \notin Stages
      BY Zenon, <3>1, Owner DEF Stages
    <3>3. QED
      BY SMTT(30), <1>3, <2>2, <3>2 DEF Apply, Unadd, Sound, Shape
  <2>3. QED
    BY Zenon, <1>8, <2>1, <2>2
<1>9. ASSUME NEW c \in Admins, Mutation(c)
      PROVE  /\ ~half' => log'.rules = table' /\ log'.epoch = depoch'
             /\ half' => /\ table' = Written(pc'[orch'], op'[orch'].req, log'.rules)
                         /\ depoch' = IF pc'[orch'] = "epoch" THEN epoch' ELSE log'.epoch
  <2>1. CASE Lock(c) \/ Apply(c) \/ Unadd(c)
    BY Zenon, <1>2, <1>8, <2>1 DEF disk
  <2>2. CASE Write(c)
    <3>1. orch = c
      BY Zenon, <2>2, Owner DEF Write, Active
    <3>2. QED
      BY Zenon, <1>2, <2>2, <3>1 DEF Write, engine
  <2>3. CASE AppendMutation(c)
    <3>1. orch = c
      BY Zenon, <2>3, Owner DEF AppendMutation, Active
    <3>2. QED
      BY Zenon, <1>2, <2>3, <3>1 DEF AppendMutation, engine
  <2>4. CASE WriteFails(c)
    BY Zenon, <1>1, <2>4 DEF WriteFails, Whole
  <2>5. QED
    BY Zenon, <1>9, <2>1, <2>2, <2>3, <2>4 DEF Mutation
<1>10. ASSUME NEW c \in Admins, NEW q, NEW e, Mutate(c, q, e)
       PROVE  /\ ~half' => log'.rules = table' /\ log'.epoch = depoch'
              /\ half' => /\ table' = Written(pc'[orch'], op'[orch'].req, log'.rules)
                          /\ depoch' = IF pc'[orch'] = "epoch" THEN epoch' ELSE log'.epoch
  <2>1. UNCHANGED <<disk, epoch, orch, half>>
    BY Zenon, <1>10 DEF Mutate, engine
  <2>2. CASE half
    <3>1. orch \in Admins /\ orch # c
      BY Zenon, <1>10, <2>2 DEF Mutate, Sound, TypeOK, Shape, Stages
    <3>2. pc'[orch] = pc[orch] /\ op'[orch] = op[orch]
      BY Zenon, <1>10, <3>1 DEF Mutate, Sound, TypeOK
    <3>3. QED
      BY Zenon, <1>2, <2>1, <2>2, <3>2 DEF disk
  <2>3. QED
    BY Zenon, <1>2, <1>3, <2>1, <2>2 DEF disk
<1>11. env.admins \subseteq Admins
  BY Zenon, RuleAssumption DEF Sound, TypeOK, Environment
<1>12. CASE \/ UNCHANGED vars
            \/ \E c \in env.admins : List(c)
            \/ \E v \in env.evaluators : Evaluation(v) \/ \E e \in {0, epoch} : Check(v, e)
  BY Zenon, <1>4, <1>12 DEF vars, disk, engine, List, Evaluation, Hits, Label, Reply, Check
<1>13. ~SeedFails
  BY Zenon, <1>1 DEF SeedFails, Whole
<1>14. QED
  BY Zenon, <1>5, <1>6, <1>7, <1>9, <1>10, <1>11, <1>12, <1>13 DEF Next

-----------------------------------------------------------------------------
(* What the store calls do to Stored, and the engine calls to InMemory.       *)

\* save_rule puts the rule in the place of the one of its name.
LEMMA StoredSaved ==
  ASSUME table \in [Names -> Patterns \cup {Nil}], NEW r \in Rule,
         table' = [table EXCEPT ![r.name] = r.pat]
  PROVE  Stored' = With(Stored, r)
<1>1. r.name \in Names /\ r.pat \in Patterns
  BY Zenon DEF Rule
<1>2. ASSUME NEW x \in Rule
      PROVE  table'[x.name] = x.pat <=> x = r \/ (table[x.name] = x.pat /\ x.name # r.name)
  <2>1. x.name \in Names /\ (x = r <=> x.name = r.name /\ x.pat = r.pat)
    BY DEF Rule
  <2>2. QED
    BY Zenon, <1>1, <2>1
<1>3. QED
  BY Zenon, <1>2 DEF Stored, With, Named

\* delete_rule takes out the rule of that name.
LEMMA StoredDropped ==
  ASSUME table \in [Names -> Patterns \cup {Nil}], NEW n \in Names,
         table' = [table EXCEPT ![n] = Nil]
  PROVE  Stored' = Stored \ Named(n)
<1>1. ASSUME NEW x \in Rule
      PROVE  table'[x.name] = x.pat <=> table[x.name] = x.pat /\ x.name # n
  <2>1. x.name \in Names /\ x.pat # Nil
    BY Zenon, RuleAssumption DEF Rule
  <2>2. QED
    BY Zenon, <2>1
<1>2. QED
  BY Zenon, <1>1 DEF Stored, Named

\* Boot loads what is stored, one rule for each name.
LEMMA Loaded ==
  ASSUME table \in [Names -> Patterns \cup {Nil}], mem' \in ByName(Stored)
  PROVE  InMemory' = Stored /\ Distinct'
<1>1. /\ Stored = {mem'[i] : i \in DOMAIN mem'}
      /\ \A i, j \in DOMAIN mem' : i < j => mem'[i].name < mem'[j].name
      /\ mem' \in Seq(Rule)
  BY Zenon, StoredIsList DEF ByName
<1>2. \A i \in DOMAIN mem' : mem'[i].name \in Nat
  <2>1. \A i \in DOMAIN mem' : mem'[i] \in Rule
    BY <1>1
  <2>2. \A r \in Rule : r.name \in Nat
    BY Zenon, RuleAssumption DEF Rule
  <2>3. QED
    BY Zenon, <2>1, <2>2
<1>3. ASSUME NEW i \in DOMAIN mem', NEW j \in DOMAIN mem', mem'[i].name = mem'[j].name
      PROVE  i = j
  <2>1. i \in Nat /\ j \in Nat
    BY <1>1
  <2>2. ~(i < j) /\ ~(j < i)
    BY <1>1, <1>2, <1>3
  <2>3. QED
    BY <2>1, <2>2
<1>4. QED
  BY <1>1, <1>3 DEF InMemory, Distinct

\* RuleEngine::add, for a name that is new.
LEMMA Added ==
  ASSUME mem \in Seq(Rule), Distinct, NEW r \in Rule, ~HasName(r.name), mem' = Append(mem, r)
  PROVE  InMemory' = With(InMemory, r) /\ Distinct'
<1>1. /\ DOMAIN mem = 1 .. Len(mem) /\ Len(mem) \in Nat
      /\ DOMAIN mem' = 1 .. Len(mem) + 1 /\ mem'[Len(mem) + 1] = r
      /\ \A i \in 1 .. Len(mem) : mem'[i] = mem[i]
  OBVIOUS
<1>2. \A i \in DOMAIN mem : mem[i] \in Rule /\ mem[i].name # r.name
  BY DEF HasName, InMemory
<1>3. \A i \in DOMAIN mem' : i \in DOMAIN mem \/ i = Len(mem) + 1
  BY <1>1
<1>4. InMemory' = InMemory \cup {r}
  BY <1>1, <1>3 DEF InMemory
<1>5. With(InMemory, r) = InMemory \cup {r}
  BY Zenon, <1>2 DEF With, Named, InMemory
<1>6. Distinct'
  BY <1>1, <1>2, <1>3 DEF Distinct
<1>7. QED
  BY <1>1, <1>4, <1>5, <1>6

\* RuleEngine::update, to a name no other rule has.
LEMMA Updated ==
  ASSUME mem \in Seq(Rule), Distinct, NEW n, HasName(n), NEW r \in Rule,
         r.name = n \/ ~HasName(r.name), mem' = [mem EXCEPT ![Position(n)] = r]
  PROVE  InMemory' = With(InMemory \ Named(n), r) /\ Distinct'
<1>1. PICK p \in DOMAIN mem : mem[p].name = n /\ p = Position(n)
  BY Zenon, PositionFound
<1>2. /\ DOMAIN mem' = DOMAIN mem /\ mem'[p] = r
      /\ \A i \in DOMAIN mem : i # p => mem'[i] = mem[i]
  BY Zenon, <1>1
<1>3. \A i \in DOMAIN mem : mem[i] \in Rule /\ (mem[i].name = n <=> i = p)
  BY <1>1 DEF Distinct
<1>4. \A i \in DOMAIN mem : i # p => mem[i].name # r.name
  BY Zenon, <1>3 DEF HasName, InMemory
<1>5. InMemory' = {mem[i] : i \in DOMAIN mem \ {p}} \cup {r}
  BY Zenon, <1>1, <1>2 DEF InMemory
<1>6. InMemory \ Named(n) = {mem[i] : i \in DOMAIN mem \ {p}}
  BY Zenon, <1>3 DEF InMemory, Named
<1>7. {mem[i] : i \in DOMAIN mem \ {p}} \ Named(r.name) = {mem[i] : i \in DOMAIN mem \ {p}}
  BY Zenon, <1>4 DEF Named
<1>8. Distinct'
  BY <1>2, <1>3, <1>4 DEF Distinct
<1>9. QED
  BY <1>1, <1>2, <1>5, <1>6, <1>7, <1>8 DEF With

\* RuleEngine::remove.
LEMMA Removed ==
  ASSUME mem \in Seq(Rule), Distinct, NEW n, HasName(n), mem' = Without(Position(n))
  PROVE  InMemory' = InMemory \ Named(n) /\ Distinct'
<1>1. PICK p \in DOMAIN mem : mem[p].name = n /\ p = Position(n)
  BY Zenon, PositionFound
<1>2. /\ mem' \in Seq(Rule) /\ Len(mem') = Len(mem) - 1
      /\ \A k \in 1 .. Len(mem) - 1 : mem'[k] = IF k < p THEN mem[k] ELSE mem[k + 1]
  <2>1. mem # << >>
    BY <1>1
  <2>2. mem' \in Seq(Rule) /\ Len(mem') = Len(mem) - 1
    BY Zenon, <2>1, WithoutList
  <2>3. \A k \in 1 .. Len(mem) - 1 : mem'[k] = IF k < p THEN mem[k] ELSE mem[k + 1]
    BY Zenon, <1>1 DEF Without
  <2>4. QED
    BY Zenon, <2>2, <2>3
<1>3. /\ DOMAIN mem = 1 .. Len(mem) /\ Len(mem) \in Nat /\ p \in 1 .. Len(mem)
      /\ DOMAIN mem' = 1 .. Len(mem) - 1
  BY <1>1, <1>2
<1> DEFINE from(k) == IF k < p THEN k ELSE k + 1
<1>4. \A k \in DOMAIN mem' : from(k) \in DOMAIN mem /\ from(k) # p /\ mem'[k] = mem[from(k)]
  BY <1>2, <1>3
<1>5. ASSUME NEW i \in DOMAIN mem, i # p PROVE \E k \in DOMAIN mem' : mem'[k] = mem[i]
  <2>1. CASE i < p
    <3>1. i \in DOMAIN mem' /\ from(i) = i
      BY <1>3, <2>1
    <3>2. QED
      BY Zenon, <1>4, <3>1
  <2>2. CASE i > p
    <3>1. i - 1 \in DOMAIN mem' /\ from(i - 1) = i
      BY <1>3, <2>2
    <3>2. QED
      BY Zenon, <1>4, <3>1
  <2>3. QED
    BY <1>3, <1>5, <2>1, <2>2
<1>6. \A i \in DOMAIN mem : mem[i] \in Rule /\ (mem[i].name = n <=> i = p)
  BY <1>1 DEF Distinct
<1>7. \A k, l \in DOMAIN mem' : from(k) = from(l) => k = l
  BY <1>3
<1> HIDE DEF from
<1>8. InMemory' \subseteq InMemory \ Named(n)
  BY <1>4, <1>6 DEF InMemory, Named
<1>9. InMemory \ Named(n) \subseteq InMemory'
  BY <1>5, <1>6 DEF InMemory, Named
<1>10. Distinct'
  BY <1>4, <1>7 DEF Distinct
<1>11. QED
  BY <1>2, <1>3, <1>8, <1>9, <1>10

-----------------------------------------------------------------------------
(* One caller, accepted mutations: memory, table and epochs in step.          *)

\* With one caller, nobody else is at work.
LEMMA OneCaller ==
  ASSUME Sound, Accepted, NEW c \in env.admins
  PROVE  /\ c \in Admins /\ orch \in {Nil, c} /\ \A d \in Admins : d # c => pc[d] = "idle"
         /\ pc[c] \in {"idle", "lock"} => orch = Nil
<1>1. c \in Admins
  BY Zenon, RuleAssumption DEF Sound, TypeOK, Environment
<1>2. \A d \in Admins : d # c => pc[d] = "idle"
  BY Zenon DEF Sound, Shape, Working, Accepted
<1>3. QED
  BY Zenon, <1>1, <1>2 DEF Sound, TypeOK

\* Sets with a rule put in, in either order of the writes.
LEMMA PutIn ==
  ASSUME NEW R, NEW r \in Rule, NEW n
  PROVE  /\ r.name = n => With(R \ Named(n), r) = With(R, r)
         /\ r.name # n => With(R, r) \ Named(n) = With(R \ Named(n), r)
         /\ (\A x \in R : x.name # r.name) => With(R, r) \ Named(r.name) = R
  BY Zenon DEF With, Named

\* Apply makes of the memory what the store calls have made of the table.
LEMMA GoalReached ==
  ASSUME mem \in Seq(Rule), Distinct, NEW q \in Request, Sensible(q), Accepts(q),
         mem' = Applied(q)
  PROVE  InMemory' = Goal(q) /\ Distinct'
<1>1. CASE q.kind = "add"
  <2>1. q.rule \in Rule /\ ~HasName(q.rule.name) /\ mem' = Append(mem, q.rule)
        /\ Goal(q) = With(InMemory, q.rule)
    BY Zenon, <1>1, RequestFields DEF Applied, Sensible, Goal
  <2>2. QED
    BY Zenon, <2>1, Added
<1>2. CASE q.kind = "update"
  <2>1. /\ q.rule \in Rule /\ HasName(q.name) /\ (q.rule.name = q.name \/ ~HasName(q.rule.name))
        /\ mem' = [mem EXCEPT ![Position(q.name)] = q.rule]
        /\ Goal(q) = With(InMemory \ Named(q.name), q.rule)
    BY Zenon, <1>2, RequestFields DEF Applied, Sensible, Goal
  <2>2. QED
    BY Zenon, <2>1, Updated
<1>3. CASE q.kind = "remove"
  <2>1. /\ HasName(q.name) /\ mem' = Without(Position(q.name))
        /\ Goal(q) = InMemory \ Named(q.name)
    BY Zenon, <1>3, RequestFields DEF Applied, Sensible, Goal
  <2>2. QED
    BY Zenon, <2>1, Removed
<1>4. QED
  BY Zenon, <1>1, <1>2, <1>3, RequestFields

\* InStep at a step of the caller's mutation ...
LEMMA StageStep ==
  ASSUME Sound, InStep, Accepted, NEW c \in env.admins, phase = "up",
         UNCHANGED <<env, phase, acked, reseeded>>, pc' = [pc EXCEPT ![c] = pc'[c]],
         pc'[c] # "idle", orch' = Nil => Stored' = InMemory' /\ depoch' = epoch',
         Stage(c)', Distinct', depoch' \in {depoch, depoch + 1}
  PROVE  InStep'
<1>1. c \in Admins /\ \A d \in Admins : d # c => pc'[d] = "idle"
  BY SMTT(40), OneCaller DEF Sound, TypeOK
<1>2. depoch \in Nat /\ acked \in Nat /\ (reseeded \/ acked <= depoch) /\ depoch # 0
  BY Zenon DEF Sound, TypeOK, InStep
<1>3. (reseeded' \/ acked' <= depoch') /\ depoch' # 0
  BY <1>2
<1>4. \A d \in Admins : pc'[d] # "idle" => Stage(d)'
  BY Zenon, <1>1
<1>5. QED
  BY Zenon, <1>3, <1>4 DEF InStep

\* ... and at its end.
LEMMA StageEnd ==
  ASSUME Sound, InStep, Accepted, NEW c \in env.admins, phase = "up", Goto(c, "ok") \/ Goto(c, "error"),
         UNCHANGED <<env, phase, depoch, epoch, mem, reseeded>>, Stored' = InMemory, depoch = epoch
  PROVE  InStep'
<1>1. c \in Admins /\ \A d \in Admins : d # c => pc[d] = "idle"
  BY Zenon, OneCaller
<1>2. /\ pc' = [pc EXCEPT ![c] = "idle"] /\ orch' = Nil
      /\ acked' = acked \/ acked' = epoch
  BY Zenon DEF Goto
<1>3. depoch \in Nat /\ acked \in Nat /\ (reseeded \/ acked <= depoch) /\ depoch # 0 /\ Distinct
  BY Zenon DEF Sound, TypeOK, InStep
<1>4. \A d \in Admins : pc'[d] = "idle"
  BY Zenon, <1>1, <1>2 DEF Sound, TypeOK
<1>5. reseeded' \/ acked' <= depoch'
  BY <1>2, <1>3
<1>6. InMemory' = InMemory /\ Distinct'
  BY Zenon, <1>3 DEF InMemory, Distinct
<1>7. QED
  BY Zenon, <1>2, <1>3, <1>4, <1>5, <1>6 DEF InStep

\* Boot keeps InStep.
LEMMA BootInStep ==
  ASSUME Sound, InStep, Accepted, Boot, UNCHANGED env
  PROVE  InStep'
<1>1. table \in [Names -> Patterns \cup {Nil}] /\ (\A c \in Admins : pc'[c] = "idle") /\ orch' = Nil
  BY Zenon, Quiet DEF Boot, Sound, TypeOK
<1>2. /\ reseeded \/ acked <= depoch
      /\ depoch = 0 => acked = 0 /\ Stored \subseteq {Seed}
      /\ UNCHANGED <<depoch, acked>>
  BY Zenon DEF InStep, Boot
<1>3. CASE ~NothingStored
  <2>1. Stored' = Stored /\ depoch # 0 /\ UNCHANGED reseeded
    BY Zenon, <1>3 DEF Boot, Stored, NothingStored
  <2>2. phase' = "up" => mem' \in ByName(Stored) /\ epoch' = depoch
    BY Zenon, <1>3 DEF Boot
  <2>3. phase' = "up" => InMemory' = Stored /\ Distinct'
    BY Zenon, <1>1, <1>3, <2>2, Loaded
  <2>4. phase' # "seeding"
    BY Zenon, <1>3 DEF Boot
  <2>5. QED
    BY Zenon, <1>1, <1>2, <1>3, <2>1, <2>2, <2>3, <2>4 DEF InStep
<1>4. CASE NothingStored
  <2>1. /\ phase' = "seeding" /\ table' = [table EXCEPT ![Seed.name] = Seed.pat]
        /\ reseeded' = (reseeded \/ depoch # 0) /\ Stored \subseteq {Seed}
    BY Zenon, <1>2, <1>4 DEF Boot, Seeding, NothingStored
  <2>2. Stored' = With(Stored, Seed)
    BY Zenon, <1>1, <2>1, StoredSaved, RuleAssumption
  <2>3. Stored' = {Seed}
    BY Zenon, <1>2, <2>1, <2>2, RuleAssumption DEF With, Named
  <2>4. (reseeded' \/ depoch' = 0) /\ (reseeded' \/ acked' <= depoch')
    BY Zenon, <1>2, <2>1 DEF Sound, TypeOK
  <2>5. QED
    BY Zenon, <1>1, <1>2, <2>1, <2>3, <2>4 DEF InStep
<1>5. QED
  BY Zenon, <1>3, <1>4

\* SeedEpoch keeps InStep.
LEMMA SeedEpochInStep ==
  ASSUME Sound, InStep, Accepted, SeedEpoch, UNCHANGED env
  PROVE  InStep'
<1>1. (\A c \in Admins : pc'[c] = "idle") /\ orch' = Nil
  BY Zenon, Quiet DEF SeedEpoch
<1>2. (reseeded \/ acked = 0) /\ Stored = {Seed} /\ Stored' = Stored
  BY Zenon DEF InStep, SeedEpoch, Stored
<1>3. /\ mem' = <<Seed>> /\ phase' = "up" /\ depoch' = 1 /\ epoch' = 1
      /\ acked' = acked /\ reseeded' = reseeded
  BY Zenon DEF SeedEpoch
<1>4. DOMAIN mem' = {1} /\ mem'[1] = Seed
  BY <1>3
<1>5. InMemory' = {Seed} /\ Distinct'
  BY Zenon, <1>4 DEF InMemory, Distinct
<1>6. QED
  BY <1>1, <1>2, <1>3, <1>4, <1>5 DEF InStep

\* Stop keeps InStep.
LEMMA StopInStep ==
  ASSUME Sound, InStep, Accepted, Stop, UNCHANGED env
  PROVE  InStep'
<1>1. Stored' = Stored /\ phase' = "down" /\ \A c \in Admins : pc'[c] = "idle"
  BY Zenon DEF Stop, Stored, disk
<1>2. QED
  BY Zenon, <1>1 DEF InStep, Stop, disk

\* Steps that leave the mutation alone.
LEMMA AsideInStep ==
  ASSUME Sound, InStep, UNCHANGED <<env, disk, engine, orch, pc, op, half, acked, reseeded>>
  PROVE  InStep'
<1>1. Stored' = Stored /\ InMemory' = InMemory /\ (Distinct' <=> Distinct) /\ (Accepted' <=> Accepted)
  BY Zenon DEF Stored, InMemory, Distinct, Accepted, disk, engine
<1>2. ASSUME NEW c \in Admins, Stage(c) PROVE Stage(c)'
  <2>1. UNCHANGED <<table, mem, op, pc, half, epoch, depoch>>
    BY Zenon DEF disk, engine
  <2>2. PICK q, p, R, M, h : /\ q = op[c].req /\ p = pc[c] /\ R = Stored /\ M = InMemory /\ h = half
    BY Zenon
  <2>3. op'[c].req = q /\ pc'[c] = p /\ Stored' = R /\ InMemory' = M /\ half' = h
    BY Zenon, <1>1, <2>1, <2>2
  <2>4. /\ Sensible(op[c].req)' <=> Sensible(q)
        /\ Goal(op[c].req)' = Goal(q)
        /\ HasName(op[c].req.rule.name)' <=> HasName(q.rule.name)
        /\ With(M, q.rule)' = With(M, q.rule)
    BY Zenon, <1>1, <2>1, <2>2, <2>3 DEF Sensible, HasName, Goal, With
  <2>5. QED
    BY SMTT(30), <1>2, <2>1, <2>2, <2>3, <2>4 DEF Stage
<1>3. QED
  BY Zenon, <1>1, <1>2 DEF InStep, disk, engine

\* Mutate keeps InStep.
LEMMA MutateInStep ==
  ASSUME Sound, InStep, Accepted, NEW c \in env.admins, NEW q, NEW e, Mutate(c, q, e), UNCHANGED env
  PROVE  InStep'
<1>1. c \in Admins /\ orch = Nil /\ pc[c] = "idle" /\ phase = "up"
  BY Zenon, OneCaller DEF Mutate
<1>2. /\ Stored = InMemory /\ depoch = epoch /\ depoch # 0 /\ Distinct
  BY Zenon, <1>1 DEF InStep
<1>3. /\ pc' = [pc EXCEPT ![c] = "lock"] /\ pc'[c] = "lock" /\ op'[c].req = q /\ Sensible(q)
      /\ UNCHANGED <<disk, engine, orch, acked, reseeded>>
  BY Zenon, <1>1 DEF Mutate, Accepted, Sound, TypeOK
<1>4. /\ Stored' = Stored /\ InMemory' = InMemory /\ Distinct' /\ Sensible(q)'
      /\ UNCHANGED <<phase, epoch, depoch>>
  BY SMTT(30), <1>2, <1>3 DEF Stored, InMemory, Distinct, Sensible, HasName, disk, engine
<1>5. Stage(c)'
  <2>1. pc'[c] = "lock" /\ Sensible(op[c].req)' /\ Stored' = InMemory' /\ epoch' = depoch'
    BY Zenon, <1>2, <1>3, <1>4
  <2>2. QED
    BY Zenon, <2>1 DEF Stage
<1>6. depoch' \in {depoch, depoch + 1}
  BY Zenon, <1>4
<1>7. QED
  BY Zenon, <1>1, <1>2, <1>3, <1>4, <1>5, <1>6, StageStep

\* Lock keeps InStep.
LEMMA LockInStep ==
  ASSUME Sound, InStep, Accepted, NEW c \in env.admins, Lock(c), UNCHANGED env
  PROVE  InStep'
<1>1. c \in Admins /\ pc[c] = "lock" /\ Working(c) /\ Stage(c) /\ c # Nil
  BY Zenon, OneCaller, RuleAssumption DEF Lock, Sound, Shape, InStep
<1>2. /\ Stored = InMemory /\ depoch = epoch /\ depoch # 0 /\ Distinct
      /\ Sensible(op[c].req) /\ phase = "up" /\ op[c].req \in Request /\ ~half
  BY Zenon, <1>1 DEF InStep, Lock, Stage, Working, Sound, Shape, TypeOK
<1>3. /\ pc'[c] = IF op[c].req.kind = "remove" THEN "drop" ELSE "save"
      /\ pc' = [pc EXCEPT ![c] = pc'[c]]
      /\ op' = op /\ orch' = c /\ half' = half /\ UNCHANGED <<disk, engine, acked, reseeded>>
  BY Zenon, <1>1 DEF Lock, Sound, TypeOK
<1>4. /\ Stored' = Stored /\ InMemory' = InMemory /\ Distinct' /\ Sensible(op[c].req)'
      /\ UNCHANGED <<phase, epoch, depoch>>
  <2>1. UNCHANGED <<table, mem, phase, epoch, depoch>> /\ op' = op
    BY Zenon, <1>3 DEF disk, engine
  <2>2. Stored' = Stored /\ InMemory' = InMemory
    BY Zenon, <2>1 DEF Stored, InMemory
  <2>3. Distinct'
    BY Zenon, <1>2, <2>1 DEF Distinct
  <2>4. Sensible(op[c].req)'
    BY Zenon, <1>2, <2>1, <2>2 DEF Sensible, HasName
  <2>5. QED
    BY Zenon, <2>1, <2>2, <2>3, <2>4
<1>5. Stage(c)'
  <2>1. /\ pc'[c] = IF op'[c].req.kind = "remove" THEN "drop" ELSE "save"
        /\ Sensible(op[c].req)' /\ Stored' = InMemory' /\ epoch' = depoch' /\ ~half'
    BY Zenon, <1>2, <1>3, <1>4
  <2>2. QED
    BY Zenon, <2>1 DEF Stage
<1>6. depoch' \in {depoch, depoch + 1}
  BY Zenon, <1>4
<1>7. QED
  BY Zenon, <1>1, <1>2, <1>3, <1>4, <1>5, <1>6, StageStep

\* Write keeps InStep.
LEMMA WriteInStep ==
  ASSUME Sound, InStep, Accepted, NEW c \in env.admins, Write(c), UNCHANGED env
  PROVE  InStep'
<1> DEFINE q == op[c].req
<1>1. /\ c \in Admins /\ pc[c] \in Stages /\ ~half /\ Stage(c) /\ orch = c /\ c # Nil
      /\ q \in Request /\ phase = "up" /\ Fits(pc[c], q, mem)
  BY Zenon, OneCaller, Owner DEF Write, InStep, Stages, Active
<1>2. /\ depoch # 0 /\ Distinct /\ mem \in Seq(Rule)
      /\ table \in [Names -> Patterns \cup {Nil}] /\ epoch \in Nat /\ depoch \in Nat
  BY Zenon, <1>1 DEF InStep, Sound, TypeOK
<1>3. /\ pc' = pc /\ op' = op /\ orch' = orch /\ half' /\ UNCHANGED <<engine, acked, reseeded>>
      /\ table' = Written(pc[c], q, table)
      /\ depoch' = IF pc[c] = "epoch" THEN epoch ELSE depoch
  BY Zenon DEF Write
<1>4. /\ InMemory' = InMemory /\ Distinct' /\ UNCHANGED <<phase, epoch>>
      /\ (Sensible(q) => Sensible(q)') /\ Goal(q)' = Goal(q)
      /\ (~HasName(q.rule.name) => ~HasName(q.rule.name)')
  BY Zenon, <1>2, <1>3 DEF InMemory, Distinct, Sensible, HasName, Goal, engine
<1>b. /\ pc' = [pc EXCEPT ![c] = pc'[c]] /\ pc'[c] # "idle" /\ orch' # Nil /\ UNCHANGED <<acked, reseeded>>
      /\ (pc[c] # "epoch" => depoch' \in {depoch, depoch + 1})
  <2>1. pc' = [pc EXCEPT ![c] = pc'[c]]
    BY Zenon, <1>1, <1>3 DEF Sound, TypeOK
  <2>2. pc'[c] # "idle" /\ orch' # Nil /\ UNCHANGED <<acked, reseeded>>
    BY Zenon, <1>1, <1>3 DEF Stages
  <2>3. pc[c] # "epoch" => depoch' \in {depoch, depoch + 1}
    BY Zenon, <1>3
  <2>4. QED
    BY Zenon, <2>1, <2>2, <2>3
<1>5. CASE pc[c] = "save"
  <2>1. q.rule \in Rule /\ table' = [table EXCEPT ![q.rule.name] = q.rule.pat]
        /\ Stored = InMemory /\ Sensible(q) /\ epoch = depoch
    BY Zenon, <1>1, <1>3, <1>5, RequestFields DEF Written, Target, Stage, Fits
  <2>2. Stored' = With(InMemory, q.rule)
    BY Zenon, <1>2, <2>1, StoredSaved
  <2>3. Stage(c)'
    BY Zenon, <1>3, <1>4, <1>5, <2>1, <2>2 DEF Stage
  <2>4. QED
    BY Zenon, <1>1, <1>4, <1>b, <2>3, <1>5, StageStep
<1>6. CASE pc[c] = "drop"
  <2>1. /\ q.name \in Names /\ table' = [table EXCEPT ![q.name] = Nil]
        /\ Stored = IF q.kind = "remove" THEN InMemory ELSE With(InMemory, q.rule)
        /\ Sensible(q) /\ epoch = depoch
    BY Zenon, <1>1, <1>3, <1>6, RequestFields DEF Written, Target, Stage, Fits, Renames
  <2>2. Stored' = Stored \ Named(q.name)
    BY Zenon, <1>2, <2>1, StoredDropped
  <2>3. Stored' = Goal(q)
    <3>1. CASE q.kind = "remove"
      BY Zenon, <2>1, <2>2, <3>1 DEF Goal
    <3>2. CASE q.kind # "remove"
      <4>1. q.rule \in Rule /\ q.kind = "update" /\ q.rule.name # q.name
        BY Zenon, <1>1, <1>6, <3>2, RequestFields DEF Fits, Renames
      <4>2. QED
        BY <2>1, <2>2, <4>1, PutIn DEF Goal
    <3>3. QED
      BY Zenon, <3>1, <3>2
  <2>4. Stage(c)'
    BY Zenon, <1>3, <1>4, <1>6, <2>1, <2>3 DEF Stage
  <2>5. QED
    BY Zenon, <1>1, <1>4, <1>b, <2>4, <1>6, StageStep
<1>7. CASE pc[c] = "undo"
  <2>1. /\ q.rule \in Rule /\ q.rule.name \in Names /\ table' = [table EXCEPT ![q.rule.name] = Nil]
        /\ Stored = With(InMemory, q.rule) /\ q.kind = "add" /\ ~HasName(q.rule.name)
        /\ epoch = depoch
    BY Zenon, <1>1, <1>3, <1>7, RequestFields DEF Written, Target, Stage
  <2>2. Stored' = InMemory
    <3>1. Stored' = With(InMemory, q.rule) \ Named(q.rule.name)
      BY Zenon, <1>2, <2>1, StoredDropped
    <3>2. \A x \in InMemory : x.name # q.rule.name
      BY Zenon, <2>1 DEF HasName
    <3>3. QED
      BY Zenon, <2>1, <3>1, <3>2, PutIn
  <2>3. Stage(c)'
    BY Zenon, <1>3, <1>4, <1>7, <2>1, <2>2 DEF Stage
  <2>4. QED
    BY Zenon, <1>1, <1>4, <1>b, <2>3, <1>7, StageStep
<1>8. CASE pc[c] = "epoch"
  <2>1. Stored = InMemory /\ Stored' = Stored /\ epoch = depoch + 1 /\ depoch' = epoch
    BY Zenon, <1>1, <1>3, <1>8 DEF Written, Stage, Stored
  <2>2. Stage(c)'
    BY Zenon, <1>3, <1>4, <1>8, <2>1 DEF Stage
  <2>3. depoch' \in {depoch, depoch + 1}
    BY Zenon, <1>2, <2>1
  <2>4. QED
    BY Zenon, <1>1, <1>4, <1>b, <2>2, <2>3, <1>8, StageStep
<1>9. pc[c] # "revert"
  BY Zenon, <1>1 DEF Stage
<1>10. QED
  BY Zenon, <1>1, <1>5, <1>6, <1>7, <1>8, <1>9 DEF Stages

\* AppendMutation keeps InStep.
LEMMA AppendMutationInStep ==
  ASSUME Sound, InStep, Accepted, NEW c \in env.admins, AppendMutation(c), UNCHANGED env
  PROVE  InStep'
<1> DEFINE q == op[c].req
<1>1. /\ c \in Admins /\ pc[c] \in Stages /\ half /\ Stage(c) /\ orch = c /\ c # Nil
      /\ q \in Request /\ phase = "up" /\ Fits(pc[c], q, mem)
  BY Zenon, OneCaller, Owner DEF AppendMutation, InStep, Stages, Active
<1>2. /\ depoch # 0 /\ Distinct /\ mem \in Seq(Rule)
      /\ epoch \in Nat /\ depoch \in Nat /\ epoch = depoch
  BY Zenon, <1>1 DEF InStep, Sound, TypeOK, Stage
<1>3. UNCHANGED <<table, depoch, phase, mem, epoch, reseeded>> /\ half' = FALSE /\ Goto(c, After(pc[c], q))
  BY DEF AppendMutation, engine
<1>4. InMemory' = InMemory /\ Distinct' /\ Stored' = Stored
  BY Zenon, <1>2, <1>3 DEF InMemory, Distinct, Stored
<1>5. CASE pc[c] \in {"save", "drop"}
  <2>1. /\ After(pc[c], q) = IF pc[c] = "save" /\ Renames(q) THEN "drop" ELSE "engine"
        /\ Sensible(q)
    BY Zenon, <1>1, <1>5 DEF After, Stage
  <2>2. /\ pc' = [pc EXCEPT ![c] = After(pc[c], q)] /\ UNCHANGED <<op, orch, acked>>
    BY Zenon, <1>3, <2>1 DEF Goto
  <2>3. pc'[c] = After(pc[c], q) /\ pc'[c] \in {"drop", "engine"} /\ pc' = [pc EXCEPT ![c] = pc'[c]]
    BY Zenon, <1>1, <2>1, <2>2 DEF Sound, TypeOK
  <2>4. pc'[c] = "drop" => Stored = With(InMemory, q.rule) /\ q.kind # "remove"
    BY Zenon, <1>1, <1>5, <2>1, <2>3 DEF Stage, Renames
  <2>5. pc'[c] = "engine" => Stored = Goal(q)
    <3>1. CASE pc[c] = "drop"
      BY Zenon, <1>1, <3>1 DEF Stage
    <3>2. CASE pc[c] = "save" /\ ~Renames(q)
      <4>1. Stored = With(InMemory, q.rule) /\ q.kind # "remove" /\ q.rule \in Rule
        BY Zenon, <1>1, <3>2, RequestFields DEF Stage, Fits
      <4>2. CASE q.kind = "add"
        BY Zenon, <4>1, <4>2 DEF Goal
      <4>3. CASE q.kind = "update"
        <5>1. q.rule.name = q.name
          BY Zenon, <3>2, <4>3 DEF Renames
        <5>2. With(InMemory \ Named(q.name), q.rule) = With(InMemory, q.rule)
          BY Zenon, <4>1, <5>1 DEF With, Named
        <5>3. QED
          BY Zenon, <4>1, <4>3, <5>2 DEF Goal
      <4>4. QED
        BY Zenon, <1>1, <4>1, <4>2, <4>3, RequestFields
    <3>3. QED
      BY Zenon, <1>5, <2>1, <2>3, <3>1, <3>2
  <2>6. Stage(c)'
    <3>1. pc'[c] \in {"drop", "engine"} /\ op' = op /\ epoch' = depoch' /\ ~half'
      BY Zenon, <1>2, <1>3, <2>2, <2>3
    <3>a. Sensible(q)' /\ Goal(q)' = Goal(q)
      BY Zenon, <1>3, <1>4, <2>1, <3>1 DEF Sensible, HasName, Goal
    <3>2. pc'[c] = "drop" => Stored' = With(InMemory', q.rule) /\ q.kind # "remove"
      BY Zenon, <1>4, <2>4
    <3>3. pc'[c] = "engine" => Stored' = Goal(q)'
      BY Zenon, <1>4, <2>5, <3>a
    <3>4. QED
      BY Zenon, <3>1, <3>a, <3>2, <3>3 DEF Stage, With
  <2>7. depoch' \in {depoch, depoch + 1} /\ orch' # Nil /\ UNCHANGED <<phase, acked, reseeded>>
    BY SMTT(30), <1>1, <1>2, <1>3, <1>4, <2>2
  <2>8. QED
    BY Zenon, <1>1, <1>4, <2>3, <2>6, <2>7, StageStep
<1>6. CASE pc[c] \in {"epoch", "undo"}
  <2>1. After(pc[c], q) \in {"ok", "error"} /\ Stored = InMemory
    BY Zenon, <1>1, <1>6 DEF After, Stage
  <2>2. QED
    BY Zenon, <1>1, <1>2, <1>3, <1>4, <2>1, StageEnd
<1>7. pc[c] # "revert"
  BY Zenon, <1>1 DEF Stage
<1>8. QED
  BY Zenon, <1>1, <1>5, <1>6, <1>7 DEF Stages

\* Apply keeps InStep.
LEMMA ApplyInStep ==
  ASSUME Sound, InStep, Accepted, NEW c \in env.admins, Apply(c), UNCHANGED env
  PROVE  InStep'
<1> DEFINE q == op[c].req
<1>1. /\ c \in Admins /\ pc[c] = "engine" /\ Stage(c) /\ orch = c /\ c # Nil
      /\ q \in Request /\ phase = "up"
  BY Zenon, OneCaller, Owner DEF Apply, InStep, Stages, Active
<1>2. /\ depoch # 0 /\ Distinct /\ mem \in Seq(Rule)
      /\ epoch \in Nat /\ depoch \in Nat /\ epoch = depoch /\ Stored = Goal(q) /\ Sensible(q)
  BY Zenon, <1>1 DEF InStep, Sound, TypeOK, Stage
<1>3. /\ UNCHANGED <<table, depoch, phase, half, reseeded>> /\ ~half
  BY Zenon, <1>1 DEF Apply, disk, Sound, Shape, TypeOK, Stages
<1>4. Stored' = Stored
  BY Zenon, <1>3 DEF Stored
<1>5. CASE Accepts(q)
  <2>1. mem' = Applied(q) /\ epoch' = epoch + 1 /\ Goto(c, "epoch")
    BY Zenon, <1>5 DEF Apply
  <2>2. InMemory' = Goal(q) /\ Distinct'
    BY Zenon, <1>1, <1>2, <1>5, <2>1, GoalReached
  <2>3. pc' = [pc EXCEPT ![c] = "epoch"] /\ UNCHANGED <<op, orch, acked>> /\ pc'[c] = "epoch"
    BY Zenon, <1>1, <2>1 DEF Goto, Sound, TypeOK
  <2>4. Stage(c)'
    <3>1. pc'[c] = "epoch" /\ Stored' = InMemory' /\ ~half' /\ epoch' = depoch' + 1
      BY Zenon, <1>2, <1>3, <1>4, <2>1, <2>2, <2>3
    <3>2. QED
      BY <3>1 DEF Stage
  <2>5. depoch' \in {depoch, depoch + 1} /\ orch' # Nil
    BY Zenon, <1>1, <1>2, <1>3, <1>4, <2>3
  <2>6. QED
    BY Zenon, <1>1, <1>3, <2>2, <2>3, <2>4, <2>5, StageStep
<1>6. CASE ~Accepts(q)
  <2>1. q.kind = "add" /\ ~HasName(q.rule.name)
    BY Zenon, <1>1, <1>2, <1>6, RequestFields DEF Accepts, Sensible
  <2>2. UNCHANGED <<mem, epoch>> /\ Goto(c, "undo")
    BY Zenon, <1>6, <2>1 DEF Apply
  <2>3. pc' = [pc EXCEPT ![c] = "undo"] /\ UNCHANGED <<op, orch, acked>> /\ pc'[c] = "undo"
    BY Zenon, <1>1, <2>2 DEF Goto, Sound, TypeOK
  <2>4. InMemory' = InMemory /\ Distinct' /\ ~HasName(q.rule.name)'
    BY Zenon, <1>2, <2>1, <2>2, <2>3 DEF InMemory, Distinct, HasName
  <2>5. Stored' = With(InMemory, q.rule)'
    <3>1. Goal(q) = With(InMemory, q.rule)
      BY Zenon, <2>1 DEF Goal
    <3>2. With(InMemory, q.rule)' = With(InMemory, q.rule)
      BY Zenon, <2>3, <2>4 DEF With
    <3>3. QED
      BY Zenon, <1>2, <1>4, <3>1, <3>2
  <2>6. Stage(c)'
    <3>1. /\ pc'[c] = "undo" /\ op'[c].req.kind = "add" /\ ~HasName(op[c].req.rule.name)'
          /\ Stored' = With(InMemory, op[c].req.rule)' /\ ~half' /\ epoch' = depoch'
      BY Zenon, <1>2, <1>3, <2>1, <2>2, <2>3, <2>4, <2>5
    <3>2. QED
      BY Zenon, <3>1 DEF Stage
  <2>7. depoch' \in {depoch, depoch + 1} /\ orch' # Nil
    BY Zenon, <1>1, <1>2, <1>3, <1>4, <2>3
  <2>8. QED
    BY Zenon, <1>1, <1>3, <2>3, <2>4, <2>6, <2>7, StageStep
<1>7. QED
  BY Zenon, <1>5, <1>6

\* Every step keeps InStep.
LEMMA InStepKept ==
  ASSUME Sound, InStep, [Next]_vars
  PROVE  InStep'
<1>1. CASE UNCHANGED vars
  BY Zenon, <1>1, AsideInStep DEF vars, disk, engine
<1>2. CASE ~Accepted'
  BY Zenon, <1>2 DEF InStep
<1>3. CASE Accepted' /\ Next
  <2>1. Accepted /\ UNCHANGED env
    BY Zenon, <1>3 DEF Accepted, Next
  <2>2. ASSUME NEW c \in env.admins, Mutation(c) PROVE InStep'
    <3>1. ~WriteFails(c)
      BY Zenon, <2>1 DEF WriteFails, Accepted
    <3>2. ~Unadd(c)
      BY Zenon, <2>1, OneCaller DEF Unadd, InStep, Stage
    <3>3. QED
      BY Zenon, <2>1, <2>2, <3>1, <3>2, LockInStep, WriteInStep, AppendMutationInStep, ApplyInStep DEF Mutation
  <2>3. ASSUME NEW c \in env.admins, List(c) PROVE InStep'
    BY Zenon, <2>1, <2>3, AsideInStep DEF List
  <2>4. ASSUME NEW v, NEW e, Evaluation(v) \/ Check(v, e) PROVE InStep'
    BY Zenon, <2>1, <2>4, AsideInStep DEF Evaluation, Hits, Label, Reply, Check
  <2>5. QED
    BY Zenon, <1>3, <2>1, <2>2, <2>3, <2>4, BootInStep, SeedEpochInStep, StopInStep, MutateInStep
       DEF Next, SeedFails, Accepted
<1>4. QED
  BY Zenon, <1>1, <1>2, <1>3

\* InStep holds at the start.
LEMMA InStepInit ==
  Init => InStep
<1> SUFFICES ASSUME Init PROVE InStep
  BY Zenon
<1>1. Stored = {}
  BY Zenon, RuleAssumption DEF Init, Stored, Empty, Rule
<1>2. QED
  BY <1>1 DEF Init, InStep

-----------------------------------------------------------------------------
(* What the callers hold.                                                     *)

\* Known for one caller.
Knows(c) ==
  /\ phase = "up" => /\ held[c].epoch <= epoch
                     /\ held[c].epoch = epoch => held[c].rules = InMemory
  /\ phase # "up" => /\ held[c].epoch <= depoch
                     /\ depoch # 0 /\ held[c].epoch = depoch => held[c].rules = Stored
                     /\ env.stops = "never" => depoch = 0

\* Every step keeps Known.
LEMMA KnownKept ==
  ASSUME Sound, InStep, Known, [Next]_vars
  PROVE  Known'
<1> SUFFICES ASSUME Whole', (Accepted \/ env.stops = "never")', ~reseeded', NEW d \in Admins
    PROVE  Knows(d)'
  BY Zenon DEF Known, Knows
<1>0. ~reseeded
  BY Zenon DEF Next, vars, Boot, Seeding, SeedEpoch, SeedFails, Stop, List, Mutate, Mutation, Lock, Write,
     AppendMutation, WriteFails, Apply, Unadd, Evaluation, Hits, Label, Reply, Check
<1>1. Whole /\ (Accepted \/ env.stops = "never") /\ ~reseeded /\ UNCHANGED env
  BY Zenon, <1>0 DEF Whole, Accepted, Next, vars
<1>2. Knows(d)
  BY Zenon, <1>1 DEF Known, Knows
<1>3. /\ held[d].epoch \in Nat /\ depoch \in Nat /\ epoch \in Nat
      /\ table \in [Names -> Patterns \cup {Nil}]
  BY Zenon DEF Sound, TypeOK
<1>4. ASSUME UNCHANGED <<phase, held, epoch, mem>>, phase = "up" PROVE Knows(d)'
  BY Zenon, <1>2, <1>4 DEF Knows, InMemory
<1>5. ASSUME phase = "up", phase' = "up", UNCHANGED held, epoch' = epoch + 1 PROVE Knows(d)'
  <2>1. held'[d].epoch <= epoch /\ epoch' = epoch + 1
    BY Zenon, <1>2, <1>5 DEF Knows
  <2>2. held'[d].epoch <= epoch' /\ held'[d].epoch # epoch'
    BY <1>3, <1>5, <2>1
  <2>3. QED
    BY Zenon, <1>5, <2>2 DEF Knows
<1>6. CASE Boot
  <2>1. phase = "down" /\ UNCHANGED <<held, depoch>>
    BY Zenon, <1>6 DEF Boot
  <2>2. CASE ~NothingStored
    <3>1. Stored' = Stored
      BY Zenon, <1>6, <2>2 DEF Boot, Stored
    <3>2. phase' = "up" => mem' \in ByName(Stored) /\ epoch' = depoch
      BY Zenon, <1>6, <2>2 DEF Boot
    <3>3. phase' = "up" => InMemory' = Stored
      BY Zenon, <1>3, <3>2, Loaded
    <3>4. QED
      BY Zenon, <1>1, <1>2, <2>1, <2>2, <3>1, <3>2, <3>3 DEF Knows, NothingStored
  <2>3. CASE NothingStored
    <3>1. phase' = "seeding" /\ reseeded' = (reseeded \/ depoch # 0)
      BY Zenon, <1>6, <2>3 DEF Boot, Seeding
    <3>2. depoch = 0
      BY <3>1
    <3>3. QED
      BY Zenon, <1>2, <2>1, <3>1, <3>2 DEF Knows
  <2>4. QED
    BY Zenon, <2>2, <2>3
<1>7. CASE SeedEpoch
  <2>1. phase = "seeding" /\ phase' = "up" /\ epoch' = 1 /\ UNCHANGED held
    BY Zenon, <1>7 DEF SeedEpoch
  <2>2. depoch = 0 /\ held[d].epoch <= 0
    BY Zenon, <1>1, <1>2, <2>1 DEF Knows, InStep
  <2>3. held'[d].epoch <= epoch' /\ held'[d].epoch # epoch'
    BY <1>3, <2>1, <2>2
  <2>4. QED
    BY Zenon, <2>1, <2>3 DEF Knows
<1>8. CASE Stop
  <2>1. Accepted /\ \A c \in Admins : pc[c] = "idle"
    BY Zenon, <1>1, <1>8 DEF Stop, Whole
  <2>2. orch = Nil
    BY Zenon, <2>1 DEF Sound, TypeOK
  <2>3. phase = "up" => Stored = InMemory /\ depoch = epoch
    BY Zenon, <2>1, <2>2 DEF InStep
  <2>4. Stored' = Stored /\ UNCHANGED <<depoch, held>> /\ phase' = "down" /\ env.stops # "never"
    BY Zenon, <1>8 DEF Stop, disk, Stored
  <2>5. QED
    BY Zenon, <1>1, <1>2, <2>1, <2>3, <2>4 DEF Knows
<1>9. ASSUME NEW c \in Admins, List(c) PROVE Knows(d)'
  <2>1. /\ phase = "up" /\ held' = [held EXCEPT ![c] = [epoch |-> epoch, rules |-> InMemory]]
        /\ UNCHANGED <<phase, epoch, mem>>
    BY Zenon, <1>9 DEF List, engine
  <2>2. InMemory' = InMemory
    BY Zenon, <2>1 DEF InMemory
  <2>3. CASE d = c
    <3>1. held'[d] = [epoch |-> epoch, rules |-> InMemory]
      BY Zenon, <2>1, <2>3 DEF Sound, TypeOK
    <3>2. QED
      BY <1>3, <2>1, <2>2, <3>1 DEF Knows
  <2>4. CASE d # c
    <3>1. held'[d] = held[d]
      BY Zenon, <2>1, <2>4 DEF Sound, TypeOK
    <3>2. QED
      BY Zenon, <1>2, <2>1, <2>2, <3>1 DEF Knows
  <2>5. QED
    BY Zenon, <2>3, <2>4
<1>10. ASSUME NEW c \in env.admins, Mutation(c) PROVE Knows(d)'
  <2>1. phase = "up"
    <3>1. c \in Admins /\ pc[c] # "idle"
      BY Zenon, <1>10, RuleAssumption DEF Mutation, Lock, Write, AppendMutation, WriteFails, Apply, Unadd,
         Stages, Sound, TypeOK, Environment
    <3>2. QED
      BY Zenon, <3>1 DEF Sound, Shape, Working
  <2>2. CASE Lock(c) \/ Write(c) \/ AppendMutation(c) \/ WriteFails(c)
    BY Zenon, <1>4, <2>1, <2>2 DEF Lock, Write, AppendMutation, WriteFails, engine
  <2>3. CASE Apply(c) \/ Unadd(c)
    <3>1. UNCHANGED <<phase, held>> /\ (epoch' = epoch + 1 \/ UNCHANGED <<epoch, mem>>)
      BY Zenon, <2>3 DEF Apply, Unadd
    <3>2. QED
      BY Zenon, <1>4, <1>5, <2>1, <3>1
  <2>4. QED
    BY Zenon, <1>10, <2>2, <2>3 DEF Mutation
<1>11. ASSUME NEW c, NEW q, NEW e, Mutate(c, q, e) PROVE Knows(d)'
  BY Zenon, <1>4, <1>11 DEF Mutate, engine
<1>12. CASE UNCHANGED <<env, disk, engine, held>>
  <2>1. Stored' = Stored /\ InMemory' = InMemory
    BY Zenon, <1>12 DEF Stored, InMemory, disk, engine
  <2>2. QED
    BY Zenon, <1>2, <1>12, <2>1 DEF Knows, disk, engine
<1>13. ASSUME NEW v, NEW e, Evaluation(v) \/ Check(v, e) PROVE Knows(d)'
  BY Zenon, <1>1, <1>12, <1>13 DEF Evaluation, Hits, Label, Reply, Check
<1>14. env.admins \subseteq Admins
  BY Zenon, RuleAssumption DEF Sound, TypeOK, Environment
<1>15. CASE UNCHANGED vars
  BY Zenon, <1>12, <1>15 DEF vars, disk, engine
<1>16. ~SeedFails
  BY Zenon, <1>1 DEF SeedFails, Whole
<1>17. QED
  BY Zenon, <1>16, <1>6, <1>7, <1>8, <1>9, <1>10, <1>11, <1>13, <1>14, <1>15 DEF Next

-----------------------------------------------------------------------------
(* Theorems.                                                                  *)

\* The inductive invariant: types and the lock, evaluations in order, the log
\* one write behind at most, table and memory in step, and what callers hold.
IInv == Sound /\ Fresh /\ Logged /\ InStep /\ Known

\* It holds in every behaviour.
LEMMA Inductive ==
  Spec => []IInv
<1>1. Init => IInv
  <2> SUFFICES ASSUME Init PROVE IInv
    BY Zenon
  <2>1. Fresh
    BY Zenon DEF Init, Fresh, NoEval
  <2>2. Logged
    BY Zenon DEF Init, Logged
  <2>3. Known
    BY DEF Init, Known
  <2>4. QED
    BY Zenon, <2>1, <2>2, <2>3, SoundInit, InStepInit DEF IInv
<1>2. IInv /\ [Next]_vars => IInv'
  BY Zenon, SoundKept, FreshKept, LoggedKept, InStepKept, KnownKept DEF IInv
<1>3. QED
  BY <1>1, <1>2, PTL DEF Spec

\* The tables, the engine and the threads keep their types, and exactly the
\* thread between taking rule_orch_lock and its return owns it.
THEOREM TypesAndLock ==
  Spec => []TypeOK
<1>1. IInv => TypeOK
  BY Zenon DEF IInv, Sound
<1>2. QED
  BY <1>1, Inductive, PTL

\* An evaluation that runs next to rule mutations uses rules no older than the
\* caller's epoch, and labels the verdict with an epoch no older than them.
THEOREM VerdictsAreFresh ==
  Spec => []VerdictNotStale
<1>1. IInv => VerdictNotStale
  BY Zenon DEF IInv, Fresh, VerdictNotStale
<1>2. QED
  BY <1>1, Inductive, PTL

\* rule_mutations replays to the stored rules and epoch whenever no mutation is
\* under way, if no write failed and no crash fell between two writes.
THEOREM LogReplays ==
  Spec => []LogRecordsEveryMutation
<1>1. IInv => LogRecordsEveryMutation
  BY Zenon DEF IInv, Logged, LogRecordsEveryMutation, Sound, Shape, TypeOK
<1>2. QED
  BY <1>1, Inductive, PTL

\* With one caller who knows the rules and no failing write, a crash anywhere
\* in a mutation leaves a table that boot loads into the rules in force, or an
\* empty one where it seeds.
THEOREM RulesReload ==
  Spec => []RulesSurviveRestart
<1>1. IInv => RulesSurviveRestart
  BY Zenon DEF IInv, InStep, RulesSurviveRestart, RulesPersist
<1>2. QED
  BY <1>1, Inductive, PTL

\* Under the same conditions an epoch that a caller was given is lost only when
\* a start has seeded again, after all rules were removed.
THEOREM EpochsReload ==
  Spec => []AckedEpochsKept
<1>1. IInv => AckedEpochsKept
  <2> SUFFICES ASSUME Sound, InStep, Accepted, phase = "up", ~reseeded PROVE ~(epoch < acked)
    BY Zenon DEF IInv, AckedEpochsKept
  <2>1. acked \in Nat /\ depoch \in Nat /\ epoch \in Nat /\ acked <= depoch
    BY Zenon DEF Sound, TypeOK, InStep
  <2>2. CASE orch = Nil
    <3>1. depoch = epoch
      BY Zenon, <2>2 DEF InStep
    <3>2. QED
      BY <2>1, <3>1
  <2>3. CASE orch # Nil
    <3>1. orch \in Admins /\ pc[orch] # "idle"
      BY Zenon, <2>3 DEF Sound, TypeOK
    <3>2. Stage(orch)
      BY Zenon, <3>1 DEF InStep
    <3>3. epoch = depoch \/ epoch = depoch + 1
      BY Zenon, <3>2 DEF Stage
    <3>4. QED
      BY <2>1, <3>3
  <2>4. QED
    BY Zenon, <2>2, <2>3
<1>2. QED
  BY <1>1, Inductive, PTL

\* A caller whose epoch passes the stale-epoch check holds the rules in force,
\* until a start seeds again.
THEOREM EpochsName ==
  Spec => []EpochNamesRules
<1>1. IInv => EpochNamesRules
  BY Zenon DEF IInv, Known, EpochNamesRules
<1>2. QED
  BY <1>1, Inductive, PTL
=============================================================================
