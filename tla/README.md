# Verification of fusion-guard in TLA+

fusion-guard is a local daemon that judges commands and content before an agent
runs them. It keeps a tamper-evident audit chain, a store of actions that wait
for a human, reversible redaction tokens and a rule set, all in SQLite, and
serves them over a Unix socket. This directory models the parts of it that have
state, concurrency or failures, checks them with TLC on small instances, and
proves the safety results for every value of the constants with TLAPS.

`PROJECT.json` lists components, runs, mutants, theorems, findings and hazards,
and maps every definition to the lines it models.

## The system

| Part | Source | State | Operations | What is hard |
|---|---|---|---|---|
| Audit chain | `fg-store/src/lib.rs` | `audit_events`, `chain_checkpoint`, archives; three connections and their mutexes | append (high-risk, drain), rotation, pruning, verify | two writers, rotation in several transactions, cached verification, crashes |
| Approval | `fg-store/src/action_store.rs`, `fg-audit-engine` | `pending_actions` (action.db), confirm rows (audit.db) | put, confirm, evict | commit over two databases, expiry, concurrent confirms |
| Rules | `fg-audit-engine`, `fg-rules/src/lib.rs` | `rules`, `rule_meta`, `rule_mutations`, memory | seed, start, add, update, remove, list, evaluate | disk, memory and epoch changed one after the other |
| IPC | `fg-ipc/src/lib.rs`, `fg-pyo3/src/lib.rs` | connections, three semaphores, blocking pool, client stream | accept, dispatch, answer, time out, retry | late effects, lost answers, leaked permits |
| Audit ingest | `fg-store/src/lib.rs` | bounded queue, drain batch, dead-letter file | enqueue, drain, spool, reimport | overload, unlocked file, partial import |
| Tokens | `fg-store/src/token_store.rs`, `fg-audit-engine` | `tokens` with expiry and in-flight flag | redact, reveal, evict | eviction during a reveal, boundary of the TTL |
| Master key | `fg-store/src/token_store.rs`, `fg-store/src/lib.rs` | Keychain item, `key_versions` with anchors | start, mint, rotate, verify | key loss and restore against real tampering |
| Verdict | `fg-rules`, `fg-audit-engine`, tokenizer, semantic analysis, redactor | one evaluation | scan, judge, redact, put, audit | combination of stages, hint and redaction; two writes behind one answer |
| Access | `fg-ipc`, secret store, daemon entry point, cluster client | secret and Keychain item, identities of connections, tenant bindings, local and cluster epoch | start, connect, bind, unbind, handle, synchronise, fetch | what was read before and is used after: the gate, the identity, the epoch |

The parts meet in `AuditEngine`: an IPC handler evaluates content against the
rules, puts a pending action, appends an audit event through the high-risk
writer or the low-risk queue, and answers. `confirm` writes to both the
approval store and the audit chain. Chain, side chains and tokens share one
master key and its versions.

Modelled in part: the tokenizer, the semantic analysis and the redactor (their
control is in `ScanStages` and `Redactor`; what a lexer, a grammar or a regular
expression finds in a text is an input), the cluster client (`confirm.relay` and
`confirm.list` pass their arguments through and are left out; the master itself
is external), the TCC monitor (its chained rows are the side rows of
`KeyLifecycle`), the Python bindings (transport only), the daemon entry point
(start gate, starts and stops), and audit queries with tenant bindings (listings
are read-only and left out). Not modelled: the endpoint-security bridge, which
keeps no state, and the idempotent schema migration.

## The modules

Each component has a module `X`, a module `MCX` that gives TLC its bounds and
environments, and one `.cfg` per run. The theorems are in `XProofs`, but for the
queue, the keys and the tokens, which share `DurableProofs`, and the evaluation,
whose proofs are split into `RedactionProofs` (fg-redact) and `VerdictProofs`.

Most modules have a variable `env` (`tokenEnv` in `TokenStore`, `site` in
`KeyLifecycle`) that is chosen in the initial state from the constant `Environments` and never changes. It says which threads
run, what callers send, and what may fail: write faults, crashes, altered rows,
rotations, lost keys. One run so covers several settings, from an undisturbed
single thread to everything at once, and a property that the code guarantees
only in some of them names the condition (`Sequential`, `OneCaller`, `Alone`,
`Accepted`, `Whole`, `Plain`, or a field of `env`) in its own statement. The
theorems then speak of every environment, since `Environments` is any set of
them. An operator with a suffix, such as `Caches_evenTampered`, is a deliberate
fault of the operator it is named after; no specification uses it.

**AuditChain.** A row is its id, `prev_hash` and rowid; a hash is the sequence
of event ids it covers, so that two hashes are equal only if their histories
are. `job` is the transaction of a writer, `dbLock` SQLite's write lock,
`writerLock` and `readLock` the mutexes. A rotation is one action per step
outside a transaction: `Retain`, `SelectOldest`, `WriteArchive`, `DeleteRange`,
`ReadFirstRemaining`, `StampRotation`, `Vacuum`. A verification is
`ReadCheckpoint`, `LookupAnchor` and `CompareAnchor` (two SELECTs with a gap
between them), `Scan`, `CacheCheckpoint`. A row may be altered from outside, its
`event_hash` emptied included, after which an insert starts over from the
archived tail or GENESIS and a scan counts the row as broken. `written`, `missed` and `pruned` are history
variables.

**ApprovalGate / ActionStore.** The gate is the promise: an action is decided
at most once, an L4 action never, an expired one never again. `ActionStore`
has the steps of a confirm call: evict, `Begin` (all checks inside BEGIN
IMMEDIATE), `CommitAudit`, `CommitAction`. `env.split` says whether a crash may
fall between the commits of the two attached WAL databases. SQLite documents
that it may; the code's comments assume it may not, so both are checked.

**RuleStore.** A rule is a name and a pattern. Every store call is two
autocommits, the table and then `rule_mutations`, and so is every write of the
seeding, which a fault or a crash may interrupt. Admin threads follow the
orchestration of `add_rule`, `update_rule` and `remove_rule`, undo included;
evaluators take the engine's read lock three times, as `evaluate` does.

**IpcServer.** Streams, permits, blocking tasks and the persistent client
stream with its single retry. A method may fail after its effect. `applied`
records the effects, `unconfirmed` the attempts whose success nobody will hear
of: the answer was lost, or the method failed late.

**AuditIngest.** The bounded queue, the drain's batch, and `spool_dead_letter`
as a read and a later append, which may leave part of a line; a line appended
behind one is unreadable. The drain fills its batch event by event, and may die:
the queue goes with it, and later events are spooled. An HMAC is the sequence of
events it covers.

**TokenStore.** redact and reveal step by step, with eviction at their start and
the in-flight flag around each read. Where the callers ignore a failing
statement, it may fail (`MayFail`). The clock is an action.

**KeyLifecycle.** Which master key signed a row, and which key each anchor was
made from. Start follows `open_checked` (resolution order, refusal, minting,
backfill), and the query behind `allow_mint` may fail, which lets a mint pass.
`Verify` covers all chains, the side tables and the dead-letter file included,
and classifies mismatches as `classify_break` does. `used` is the history of
masters that daemons ran with, `returned` says that one came back.

**Verdict, ScanStages, Redactor, Flatten.** One request through the stages of its type,
`verdict_from_hits`, the hint floor, redaction and the two writes. `ScanStages`
has the order of tests and the early returns of `tokenize_check` and
`semantic_check`; `Redactor` collects the spans of the patterns, resolves
overlaps and applies each redact function. Rule kinds contain every action and
every risk level, since the code ties neither to the other. The loops are
recursive functions, and `Flatten` has the concatenation of a sequence of
sequences that a loop pushing onto a vector builds: proofs can reason about both
(see below). `ByStart` is the sorted vector, characterised by its order, since
the starts of accepted spans differ.

**Access, Cluster.** The start gate `require_shared_secret_for_release` and the
later load of the secret, with its minting as a step of its own; the identity a connection resolves
once; the method table, the comparison of secrets and the scope of a tenant;
bindings that change below open connections; `epoch.sync` as a read, a comparison
and an advance, which the master applies to whatever its epoch is by then.
`given` is the secret clients have found in the Keychain, `stray` counts the
advances of the cluster epoch that no handler could foresee. `Cluster` judges a segment of remote audit records as
`verify_chain_segment` does, next to a reference definition.

## The runs

Runs that pass:

| Run | Environments | Shows |
|---|---|---|
| `chain` | one thread that rotates over three seconds; one rotating thread beside the drain with write faults; two threads and the drain with faults and crashes; with rotations; with rotations and crashes; altered rows and emptied hashes | everywhere: no two live rows continue one predecessor, unless a hash was emptied (`NoFork`), no circle of lock waits (`NoDeadlock`). Without rotation or in a sequential store: one history, no false alarm (`LinearHistory`, `NoFalseAlarm`). One rotating thread: deletes only what it selected and, without write faults, archived (`DeletesOnlySelected`). Full verifications: the checkpoint moves past no altered row it could have noticed (`NoBadPointCached`) |
| `action` | altered risk columns; failing statements; also split commits | unless commits are split, one decision per action and refinement of the gate (`DecidedOnce`, `ImplementsGate`); always, no consumption without its confirm row (`NoUnauditedConsumption`) and every call answered (`CallsAnswered`) |
| `rules` | one careful caller with clean restarts or with crashes; two callers and an evaluation with refused mutations; adds with failing writes; a first start whose writes fail | rules survive, and acknowledged epochs do until a start seeds again (`RulesSurviveRestart`, `AckedEpochsKept`); the epoch names the rules (`EpochNamesRules`); verdicts are not stale (`VerdictNotStale`); `rule_mutations` replays to the tables (`LogRecordsEveryMutation`) |
| `ipc` | one client with retries and crashes, with one or two slots; two calls on one stream; a slow and a fast client | permits conserved, tasks without one only where their connection gave it up (`PermitsConserved`), answers matched to requests (`AnswersOwnRequest`), success means applied (`SuccessMeansApplied`), repeats only of what was not confirmed (`RepeatedOnlyIfUnconfirmed`), admission recovers (`AdmissionRecovers`) |
| `ingest` | two threads with failing inserts; also failing files and crashes; also reimports; one thread that reimports, nothing failing | no accepted event is dropped (`NothingDropped`) or on its way twice (`NotInsertedTwice`), every event is delivered (`Delivered`), each under the failures its statement allows |
| `token` | two tenants and two overlapping reveals (`Foreign`); one revealing thread with several tokens (`Flight`); two overlapping reveals with failing statements and crashes (`Failing`) | plaintext only to its owner and in time (`RevealAuthorised`); the owner is not told before the TTL that a token is gone (`OwnerRestores`); flags are cleared, or a crash or a failing UPDATE left them (`FlagReleased`) |
| `keys` | lost and restored Keychain item with rotated versions and altered rows (`Losing`); the same with a side chain and archives (`Archiving`); replaced items, failing queries and dead letters (`Replacing`); environment keys (`Overridden`) | in plain installations readable history, checkpoints only over verified rows (`HistoryReadable`, `CheckpointVouched`); in all, anchors before use (`AnchorBeforeUse`), and no false tamper until an environment key brings an earlier master back (`NoFalseTamper`) |
| `verdict` | rule hits with every type, hint and stage (`Mixed`); all commands of two segments and sources of two grammars (`Scanned`); all contents of three bytes (`Redacted`) | what a stage blocks stays blocked (`BlockPrevails`), order does not matter (`OrderFree`), the answer is backed by its rows (`AnswerBacked`), redaction replaces the accepted spans only and can be undone (`RedactionExact`) |
| `access` | every way to start (`Starts`); callers of every kind (`Callers`); bindings that come and go (`Rebinding`); remote records (`Fetching`); overlapping epoch synchronisation, alone or beside other nodes (`Syncs`) | gate and load agree (`SecretEnforced`), later starts keep the secret clients found (`SecretStays`), what is handled was allowed (`RequestsAuthorised`), a removed binding falls out of use (`RevocationEffective`), the cluster epoch passes the local one only by advances nobody could foresee (`EpochNotOvertaken`), segments are judged as the reference says (`SegmentsJudged`) |

Runs that end in a violation show where the code departs from what its
documentation or comments say; `findings` in `PROJECT.json` quotes the lines.

| Run | Property | Departure |
|---|---|---|
| `v_drain_gap` | `OneHistory` | the drain appends between a rotation's delete and its checkpoint and starts a second chain at genesis |
| `v_double_confirm` | `OneDecision` | a crash between the commits of audit.db and action.db lets an action be decided twice |
| `v_rule_add_rollback` | `RulesPersist` | the undo of a refused duplicate add deletes the stored original, which a restart then misses |

### Departures without a run of their own

These came up while modelling. The models have the behaviour described, unless
it says otherwise, and the condition in the property named keeps it out of the
passing runs; it is not proved or checked further here.

- Rotation (`NoFalseAlarm`, `DeletesOnlySelected`): a verify between the delete
  and the checkpoint reports an untouched chain as tampered. Two overlapping
  rotations may delete rows that were not archived, since rowids start again
  after the table was emptied. Two rotations within one second write the same
  archive file. A failing `write_all` is logged and the rows are deleted.
- Verification (`NoBadPointCached`): one scoped to a tenant moves the global
  checkpoint over altered rows of other tenants, and a rotation anchors the
  checkpoint at the first remaining row without verifying it.
- Rules (`RulesSurviveRestart`, `EpochNamesRules`, `LogRecordsEveryMutation`,
  `AckedEpochsKept`): a refused update does not restore the row it replaced; a
  failing `save_epoch` in update and remove leaves the change in memory; after a
  crash between `save_rule` and `save_epoch` new rules run under the old epoch;
  the caller's epoch is checked before the orchestration lock is taken; a crash
  between a table write and its `rule_mutations` row leaves a gap; removing all
  rules makes the next start seed the table again with the first epoch.
- IPC (`PermitsConserved`, `RepeatedOnlyIfUnconfirmed`): the slow permit is
  released by the handler timeout while the task runs on, against the comments at
  `fg-ipc/src/lib.rs:32`, 362 and 379; the client retries on RPC errors too, also
  on those of a method that has had its effect; the rejection frame ends in the
  digits `10` where a newline was meant.
- Ingest (`NothingDropped`): two spoolers may link to the same line, and reimport
  then refuses the file, as it does after a partly written line; a line spooled
  during a reimport is erased with the file; a failing insert leaves a reimport
  half done, and the next one stops at the lines already imported; what is queued
  is lost in a crash or with the drain thread.
- Tokens (`FlagReleased`): expired tokens are evicted by redact and reveal calls
  only; the flag is shared by all reveals of a token; one left by a crash or a
  failing UPDATE is never cleared.
- Keys (`Plain`, `NoFalseTamper`, `CheckpointVouched`): a lost key is minted anew
  if only side chains have rows, or if the query for rows fails; rows signed under
  an environment key look tampered once a start is back at the earlier master; a key that was lost before anything was stored leaves its
  anchor at version 1, and an altered row then passes for one whose key is lost.
- Verdict: redaction sets L2 on an Allow verdict that had an L3 hit; nothing ties
  L4 to Block; of hits with equal keys the last one pushed gives the reason.
- Start (`SecretEnforced`, `SecretStays`): a first start of a release build
  never mints, since the gate runs before the load; an empty variable with the
  insecure flag passes the gate and loads no secret; a failing read of the
  Keychain counts as a missing item, so that a failure between gate and load
  mints over the one clients hold, and an item that appears between the load and
  the mint is replaced.
- Requests (`RequestsAuthorised`): `audit.verify` of a caller with no bound
  tenant and no tenant parameter has the global scope, against the comments at
  `fg-ipc/src/lib.rs:906` and 912. A removed binding stays in
  use until the connection ends, at the latest at its deadline.
- Cluster (`EpochNotOvertaken`, `SegmentsJudged`): overlapping `epoch.sync`
  handlers drive the cluster's epoch past the local one, since an advance
  increments whatever the master holds by then; `verify_chain_segment`
  counts too few breaks after a reset anchor and cannot see records missing at
  the ends of a segment. The reference allows both: it asks that a break is
  reported exactly when there is one, at its first place, and that every record
  is counted once.

### Bounds

- AuditChain: three events (four for the rotation beside the drain, two for
  crashes during rotations) and two threads give two appends, an archive and a
  row after it, with one more actor. `MaxSec` and `env.end` bound the clock used
  for archive names and retention (`RetainSecs = 1`).
- ActionStore: one action and two callers suffice for double decisions; `MaxTime`
  and `env.end` past `Ttl` make expiry happen; `MaxDecided = 2` stops after two
  decisions of an action, which only split commits reach.
- RuleStore: two names and three patterns, one of which does not compile, reach
  duplicates, renames and refusals; `env.end` bounds the epoch.
- IpcServer: one permit of each kind, two pool threads and two streams exhaust
  every semaphore; `env.calls` bounds the calls of a client.
- AuditIngest: four events overflow a queue of two and a batch of two; with five
  the file of a single spooler has three lines.
- TokenStore: one or two tokens, `MaxTime` past `Ttl`.
- KeyLifecycle: two masters, up to three versions and three rows; three masters,
  enough for one to be followed and to return, with one row.
- Verdict: `MaxHits = 2`, enough for every pairwise preference; two segments, two
  grammars of at most two calls; three bytes and three patterns give adjacent,
  nested and crossing matches.
- Access: two connections, two tenants, three secrets (of the environment, of the
  item, minted), `MaxEpoch` = 3 for rule changes and other nodes; segments of
  three records.

Deadlock is checked in `chain`, `keys`, `v_drain_gap` and `v_rule_add_rollback`.
In the others the system may stop: all calls or events are used up, the clock or
the epoch has reached its bound, or the daemon refused to start.

Symmetry is used for the threads of `chain` and `v_drain_gap`, whose
environments are closed under exchanging them; neither has a liveness property.

### Fairness

Weak fairness of the steps of the threads themselves: the operating system and
the tokio runtime schedule a thread that can run, mutexes are released by their
holders, and SQLite's busy timeout ends a wait. This is what `action` and
`token` assume of every call, and `ingest` of the drain and of a spool that was
begun. In `ipc` only the connection deadline is assumed to fire, since time
passes: it alone makes admission recover, whatever clients, handlers and the
handler timeout do. `access` adds that a handler that was
started ends (`Work`) and that the deadline closes a connection
(`Disconnect`). Nothing is assumed of callers: nobody has to connect, reimport,
reveal or redact. The other runs have no fairness and no liveness property.

## The proofs

A proof module has the theorems of its components for every set of events,
threads, tenants, actions, names, streams, requests and so on, every bound, and
every set of environments, from the one named assumption of each component's
module: that markers such as `Nil` and `Drain` are not members of the sets, that
bounds are naturals, that clients and streams are finite sets; for an evaluation
that the pattern list names each pattern once and that the matches of one pattern
lie in the content, in order and apart, as `captures_iter` gives them. All proofs are by an
inductive invariant: the property itself is hardly ever inductive, and what is
added says what a thread in the middle of an operation may rely on.

| Theorem | States | Invariant |
|---|---|---|
| **AuditChainProofs** | | each invariant rests on those before it |
| `TypeCorrect` | `TypeOK` | `TypeInv`: tables and selections have a first and a last row |
| `ChainNeverForks` | `NoFork` | `ChainInv`: an open transaction holds the write lock and, unless a hash was emptied, its predecessor is still the one it would read (`OpenTx`); every hash a predecessor may come from covers committed events only (`Grounded`); a row comes after the one it continues (`Ordered`), and an event has one row (`Distinct`) |
| `DeletionsAreSelected` | `DeletesOnlySelected` | `Duty` (who is at work, unique rowids), `Selected`: between SELECT and DELETE the only rotating thread holds the oldest rows, whatever the drain adds |
| `HistoryIsLinear` | `LinearHistory` | `Line`, as long as no hash was emptied: neighbouring rows are linked; the first row continues the checkpoint's archived hash, or the one a rotation under way is about to write; everything ever committed is on the chain that ends with the newest row |
| `AlarmsAreReal` | `NoFalseAlarm` | `Line`: a verification works with the current checkpoint and starts at the root of the table or behind an anchor row that exists |
| `CheckpointIsEarned` | `NoBadPointCached` | `Points`: neither the checkpoint, nor where a scan starts, nor a checkpoint about to be cached skips a row altered before its scan (`Earned`, `Behind`), whatever was altered, the anchor row between its two SELECTs included |
| `NobodyWaitsForEver` | `SomeoneReady`: while operations are under way, one of them finds every lock of its next step free | `Owners`: a lock is held by a thread that is at work under it |
| **ActionStoreProofs** | | |
| `TypeCorrect` | `TypeOK` | itself |
| `OnlyAuthorisedDecisions`, `AuditPrecedesConsumption`, `EvictionIsFinal` | `DecisionsAuthorised`, `NoUnauditedConsumption`, `EvictedStaysUndecided`, split commits included | `Safe`: what a call inside its transaction has checked stays true |
| `NeverDecidedTwice`, `ConsumptionMatchesAudit` | `DecidedOnce`, `ConsumedIffAudited` | `Once`: a call in its transaction is the first to decide, and a decided action is consumed or about to be; kept unless commits are split |
| `ConfirmImplementsGate` | `ImplementsGate` | both; every step is a step of `ApprovalGate` or a stutter |
| **RuleStoreProofs** | | |
| `TypesAndLock` | `TypeOK`, with the owner of `rule_orch_lock` | `Sound` |
| `VerdictsAreFresh` | `VerdictNotStale` | `Fresh`: the three reads of an evaluation see epochs in order |
| `LogReplays` | `LogRecordsEveryMutation` | `Logged`: the log lags by at most the write of the lock's owner |
| `RulesReload`, `EpochsReload` | `RulesSurviveRestart`, `AckedEpochsKept` | `InStep`: what the table holds at each step of a mutation, as a function of the memory and the request; an acknowledged epoch is stored, or a start has seeded since |
| `EpochsName` | `EpochNamesRules` | `Known`: what callers hold is of an earlier epoch or is in force |
| **IpcServerProofs** | | |
| `TypeCorrect`, `NoPermitLeaks` | `TypeOK`, `PermitsConserved` | `Sound`: a task has a request exactly while it is dispatched; `Attended`: a pool task nobody awaits was given up |
| `AnswersMatch`, `SuccessIsReal` | `AnswersOwnRequest`, `SuccessMeansApplied` | `IInv`: no two clients share a stream, and a stream its server has not closed holds one copy of the client's request or one answer to it |
| `RetriesRepeatUnconfirmedOnly` | `RepeatedOnlyIfUnconfirmed` | `RInv`: an attempt is in one place at a time (socket, dispatch, queue, pool, effect); an error frame means it is over; once a call is tried again its first attempt has no effect and never will, or is unconfirmed |
| **DurableProofs** | | |
| `TypeCorrect`, `NoEventDropped`, `EventsMoveOnce` | `TypeOK`, `NothingDropped`, `NotInsertedTwice` | `IInv`: an event on its way is in one place, not in the table or the file, and not in what a reimport has read |
| `TokensTypeCorrect`, `RevealsAreAuthorised`, `OwnersRestore` | `TokenTypeOK`, `RevealAuthorised`, `OwnerRestores` | `TokenInv`: ids of a redact call are unknown to others until it returns, a stored row is the one that was put, and one that is gone had expired |
| `KeysTypeCorrect`, `AnchorsPrecedeUse` | `KeyTypeOK`, `AnchorBeforeUse` | `Versioned`: versions are an initial segment that ends at the counter or one further; `Anchored` |
| `NoFalseAlarm` | `NoFalseTamper` | `InOrder`, `WellStored`: the anchor of a version is by a master in use before the one that signed a row of it, as long as no start went back; `Onward`: without environment keys none does |
| `HistoryStaysReadable`, `CheckpointIsVouched` | `HistoryReadable`, `CheckpointVouched` | `OneKey`: in a plain installation the key exported last is the only one in use |
| **AccessProofs** | | |
| `TypeCorrect`, `RequestsAreAuthorised` | `TypeOK`, `RequestsAuthorised` | `Identified`: what an identity claims was bound while its connection was open, and a request under way passed `authorize_method` |
| `GateHolds` | `SecretEnforced` | `Gated`: between gate and load nothing the gate relied on has changed |
| `SecretIsKept` | `SecretStays` | `GivenInv`: the secret clients hold is the Keychain item, and none is being generated |
| `NeverOvertaken` | `EpochNotOvertaken` | `SyncInv`: a handler about to advance read a value below the local epoch, which never falls |
| `SegmentsAreJudged` | `SegmentsJudged` | `RightUpTo`, the invariant of the loop of `verify_chain_segment`: right about the first i records, with the anchor that the next one needs; the lemma `SegmentRight` carries it to segments of any length |
| **VerdictProofs**, on the lemmas of **RedactionProofs** | | |
| `BlocksPrevail`, `OrderIsFree` | `BlockPrevails`, `OrderFree` | `EvalInv`: hits and verdict are those of the request; what was promised for an answer is stored before it is given |
| `AnswersAreBacked` | `AnswerBacked` | `EvalInv` |
| `RedactionIsExact` | `RedactionExact` | `EvalInv`, and what redaction computes for one content |

The type invariants are proved and not model-checked again. `Verdict` computes
one answer and has no type invariant.

How the argument about one evaluation goes:

- The hits. `HitsAre` says which hits block: those of the rules, one for each
  segment of a command that is not clean, and those of the grammar that
  `semantic_check` believes. `MaxByIs` and `KeyTells` say that the head hit has
  the greatest action, level and stage, so that it is the same for every order.
  Hint, redaction and `action_id` then change neither a block nor the outcome for
  another order (`EvaluateBlocks`, `EvaluateSame`).
- The spans. `AllSettled` follows the loop of `collect_spans_filtered`: after each
  match no two accepted spans overlap, and a match was accepted exactly when it
  meets no earlier one that was (`Settled`). Spans that do not overlap have
  different starts and one sorted order (`ByStartRight`).
- The rebuilt content. The reference `LeftToRight` reads the content byte by byte.
  `RebuildShows` goes the way of the code, from the last span to the first: what
  is replaced so far shows the marks of those spans, and everything in front of
  them is still the content, which is why the offsets stay good.
- Reveal. Every token has a number of its own, so that replacing the placeholders
  one after the other is one substitution (`Sub`), which turns the marks into the
  values they stand for, or into the unrecoverable mark.

Only model-checked:

- Liveness, which is outside this prover's reach: `CallsAnswered`,
  `AdmissionRecovers`, `Delivered`, `FlagReleased`, `RevocationEffective`.
- `NoDeadlock`, because it is stated with ENABLED. `SomeoneReady` is its form
  without: it lists the locks that the guard of each next step asks for.

The library's induction theorems take an operator as a parameter, which the
provers cannot instantiate. `SegmentRight` and the lemmas on loops, sequences and
spans therefore argue with sets: `Least` (a nonempty set of naturals has a least
element, from their well-foundedness), `Inductive` (a set with 0 and every
successor is all of them), and `LoopExists` (a loop has a run of every length, so
that a recursive function is what its equation says). For this the loops are
recursive functions over an interval and not the folds of the community modules.

## Abstractions

- SQLite is a store of committed rows with one write lock per database. Power
  loss and lost unsynced writes are not modelled, neither is a torn archive file.
- Taking the mutex of a writer connection and BEGIN IMMEDIATE on it are one step
  (`AppendHigh`, `Begin`): who holds the mutex without the write lock only waits.
- An emptied `event_hash` is considered where nothing is archived.
- `Access` has no restart that seeds the rules anew; that the local epoch then
  falls back is the subject of `RuleStore`.
- HMACs and hashes are injective, represented by what they cover.
- Encryption is the identity of the key that was used.
- Secrets are compared by equality; that the comparison takes constant time is
  not modelled.
- Regular expressions are a flag (compiles or not) and a hit or no hit; in
  `Redactor` they are the spans they match.
- One clock; it does not run backwards.
- A peer's uid is root's, the daemon's or another one.
