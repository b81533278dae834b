---------------------------- MODULE KeyLifecycle ----------------------------
(***************************************************************************)
(* The master key of fg-store over the life of an installation: where a    *)
(* start takes it from, when a start may make a new one, the versions      *)
(* rotate_key derives and anchors, and how verification tells a row that   *)
(* was altered from a row whose key is gone.                               *)
(*                                                                         *)
(* A row is known by the master that signed it, the version it records and *)
(* whether it is still what was written.  A version's anchor is an HMAC    *)
(* under the derived key, so it equals the recomputed one exactly when the *)
(* masters are equal: it is represented by the master that wrote it.  The  *)
(* links between rows, and the races of writers, rotation and verification *)
(* over them, are the subject of AuditChain and AuditIngest; verification  *)
(* is one step here.                                                       *)
(***************************************************************************)
EXTENDS Integers, Sequences

CONSTANTS
  Masters,      \* 32-byte master keys
  NoKey,        \* no key; a version without an anchor (NULL)
  Absent,       \* no row in key_versions
  MaxVersion, MaxRows,   \* bounds
  Sites         \* the installations considered, see site

\* The chains beside audit_events: rule_mutations and tcc_events, which only
\* grow, and the dead-letter file, which a reimport empties.
Chains == {"table", "file"}

\* What may happen to an installation in one behaviour.
Site == [
  fresh    : SUBSET Masters,  \* masters that may be minted
  envKeys  : SUBSET Masters,  \* masters an operator may put into
                              \* FUSION_GUARD_TOKEN_KEY; {}: not admitted
  losses   : BOOLEAN,         \* may the Keychain item disappear?
  replaces : BOOLEAN,         \* may an operator write another master there?
  faults   : BOOLEAN,         \* may the queries before a mint, and the write
                              \* that empties the dead-letter file, fail?
  archives : BOOLEAN,         \* may rotation archive all of audit_events?
  altered  : BOOLEAN,         \* may a stored row be altered?
  versions : 1 .. MaxVersion, \* bounds
  rows     : 0 .. MaxRows,
  tokens   : BOOLEAN,         \* are tokens stored?
  lines    : SUBSET Chains]   \* the side chains written

ASSUME KeyAssumption ==
  /\ NoKey \notin Masters /\ Absent \notin Masters \cup {NoKey}
  /\ MaxVersion \in Nat \ {0} /\ MaxRows \in Nat
  /\ Sites \subseteq Site

VARIABLES
  site,               \* the installation of this behaviour, fixed
  keychain, envKey,   \* the Keychain item and the environment variable
  escrow,             \* masters that were minted and exported, in order
  up, master,         \* is the daemon running, and with which key
  anchors,            \* key_versions.key_anchor
  tver, aver,         \* current_version of TokenStore and of AuditStore
  rotating,           \* progress of rotate_key
  rows,               \* audit_events
  side,               \* what is in the other chains, in no order
  tokens,             \* keys of the stored tokens
  cp,                 \* audit_events rows up to the checkpoint
  report,             \* the last guard.audit.verify
  used,               \* history: the masters in the order of their first use
  returned,           \* history: a start has gone back to a master given up
  touched             \* history: a stored row or line has been altered

keys == <<keychain, envKey, escrow>>
memory == <<up, master, tver, aver, rotating>>
data == <<rows, side, tokens, cp>>
past == <<used, returned, touched>>
keyVars == <<site, keys, memory, anchors, data, report, past>>

Versions == 1 .. MaxVersion
Known == {v \in Versions : anchors[v] # Absent}
NoReport == [tampered |-> FALSE, unknown |-> 0]

KeyInit ==
  /\ site \in Sites
  /\ keychain = NoKey /\ envKey = NoKey /\ escrow = << >>
  /\ up = FALSE /\ master = NoKey /\ tver = 1 /\ aver = 1 /\ rotating = "no"
  /\ anchors = [v \in Versions |-> Absent]
  /\ rows = << >> /\ side = {} /\ tokens = {} /\ cp = 0
  /\ report = NoReport
  /\ used = << >> /\ returned = FALSE /\ touched = FALSE

-----------------------------------------------------------------------------
(* Opening the store.                                                         *)

\* token_db_is_virgin: no token, and no version but the seed.
Virgin == tokens = {} /\ \A v \in Known : v = 1

AllowMint_always == TRUE
\* AuditStore::open passes !audit_has_rows, open_checked adds the token side.
\* Each of the queries that fails counts as nothing found.
AllowMint == site.faults \/ (rows = << >> /\ Virgin)

InUse(m) == \E i \in DOMAIN used : used[i] = m
Exported(m) == \E i \in DOMAIN escrow : escrow[i] = m
NewMasters == {m \in site.fresh : ~Exported(m)}

\* CREATE TABLE ... INSERT OR IGNORE version 1, without an anchor.
Seeded == [anchors EXCEPT ![1] = IF @ = Absent THEN NoKey ELSE @]

\* backfill_key_anchors: NULL anchors only.
Backfilled(m) ==
  [v \in Versions |-> IF Seeded[v] = NoKey THEN m ELSE Seeded[v]]

\* load_or_create_key: the environment first, then the Keychain, then a fresh
\* key that goes to the Keychain.
Loads(m) ==
  \/ envKey # NoKey /\ m = envKey /\ UNCHANGED <<keychain, escrow>>
  \/ envKey = NoKey /\ keychain # NoKey /\ m = keychain /\ UNCHANGED <<keychain, escrow>>
  \/ /\ envKey = NoKey /\ keychain = NoKey /\ AllowMint
     /\ m \in NewMasters /\ keychain' = m /\ escrow' = Append(escrow, m)

Start(m) ==
  LET known == {v \in Versions : Seeded[v] # Absent}
      newest == CHOOSE v \in known : \A w \in known : w <= v IN
  /\ ~up /\ Loads(m)
  /\ up' = TRUE /\ master' = m /\ anchors' = Backfilled(m)
  /\ tver' = newest /\ aver' = newest
  /\ used' = IF InUse(m) THEN used ELSE Append(used, m)
  /\ returned' = (returned \/ (InUse(m) /\ m # used[Len(used)]))
  /\ UNCHANGED <<envKey, rotating, data, report, touched>>

\* No key and no right to make one, or the Keychain does not store it.  The
\* version table has been seeded by then.
StartRefused ==
  /\ ~up /\ envKey = NoKey /\ keychain = NoKey
  /\ anchors' = Seeded
  /\ UNCHANGED <<keys, memory, data, report, past>>

\* Shutdown or crash, also in the middle of rotate_key.
Stop ==
  /\ up /\ up' = FALSE /\ master' = NoKey /\ rotating' = "no"
  /\ UNCHANGED <<keys, tver, aver, anchors, data, report, past>>

-----------------------------------------------------------------------------
(* The operator and the Keychain, outside the code.                           *)

LoseKey ==
  /\ site.losses /\ keychain # NoKey /\ keychain' = NoKey
  /\ UNCHANGED <<envKey, escrow, memory, anchors, data, report, past>>

\* The key exported last is put back: DEPLOYMENT.md's escrow procedure.
RestoreKey ==
  /\ ~up /\ keychain = NoKey /\ escrow # << >> /\ keychain' = escrow[Len(escrow)]
  /\ UNCHANGED <<envKey, escrow, memory, anchors, data, report, past>>

SetEnv(m) ==
  /\ ~up /\ m \in site.envKeys \cup {NoKey} /\ m # envKey /\ envKey' = m
  /\ UNCHANGED <<keychain, escrow, memory, anchors, data, report, past>>

\* Another master is made, exported and written over the item.
ReplaceKey(m) ==
  /\ site.replaces /\ ~up /\ m \in NewMasters
  /\ keychain' = m /\ escrow' = Append(escrow, m)
  /\ UNCHANGED <<envKey, memory, anchors, data, report, past>>

Alter(i) ==
  /\ site.altered /\ i \in DOMAIN rows /\ rows[i].ok
  /\ rows' = [rows EXCEPT ![i].ok = FALSE] /\ touched' = TRUE
  /\ UNCHANGED <<keys, memory, anchors, side, tokens, cp, report, used, returned>>

AlterSide(l) ==
  /\ site.altered /\ l \in side /\ l.ok
  /\ side' = (side \ {l}) \cup {[l EXCEPT !.ok = FALSE]} /\ touched' = TRUE
  /\ UNCHANGED <<keys, memory, anchors, rows, tokens, cp, report, used, returned>>

\* The HMAC recomputed with the current master at the row's own version.
Mismatch_currentVersion(r) == ~r.ok \/ r.key # master \/ r.kv # aver
Mismatch(r) == ~r.ok \/ r.key # master

-----------------------------------------------------------------------------
(* Writers: each records the version it signs or encrypts with.               *)

Row(v) == [kv |-> v, key |-> master, ok |-> TRUE, vouched |-> FALSE]

AppendRow ==
  /\ up /\ Len(rows) < site.rows /\ rows' = Append(rows, Row(aver))
  /\ UNCHANGED <<keys, memory, anchors, side, tokens, cp, report, past>>

\* save_rule, delete_rule and save_epoch, which AuditEngine::new also calls for
\* the default rules of a first start, report_tcc_event, spool_dead_letter.
AppendSide(c) ==
  /\ up /\ c \in site.lines
  /\ side' = side \cup {[chain |-> c, kv |-> aver, key |-> master, ok |-> TRUE]}
  /\ UNCHANGED <<keys, memory, anchors, rows, tokens, cp, report, past>>

PutToken ==
  /\ up /\ site.tokens /\ tokens' = tokens \cup {[kv |-> tver, key |-> master]}
  /\ UNCHANGED <<keys, memory, anchors, rows, side, cp, report, past>>

EvictTokens ==
  /\ up /\ tokens # {} /\ tokens' = {}
  /\ UNCHANGED <<keys, memory, anchors, rows, side, cp, report, past>>

\* reimport_dead_letter: a line that does not verify ends it; else the events
\* become rows signed now, one row here for all of them, and the file is
\* emptied unless that fails.
ReimportFile ==
  LET dead == {l \in side : l.chain = "file"} IN
  /\ up /\ dead # {} /\ Len(rows) < site.rows /\ \A l \in dead : ~Mismatch(l)
  /\ rows' = Append(rows, Row(aver))
  /\ side' = side \ dead \/ (site.faults /\ side' = side)
  /\ UNCHANGED <<keys, memory, anchors, tokens, cp, report, past>>

\* rotate_archive of every row: the checkpoint becomes the empty sentinel.
Archive ==
  /\ site.archives /\ up /\ rows # << >>
  /\ rows' = << >> /\ cp' = 0
  /\ UNCHANGED <<keys, memory, anchors, side, tokens, report, past>>

-----------------------------------------------------------------------------
(* rotate_key: the version row, TokenStore's counter, AuditStore's counter.   *)

RotateInsert_bumpFirst ==
  /\ up /\ rotating = "no" /\ tver < site.versions
  /\ rotating' = "inserted"
  /\ UNCHANGED <<keys, up, master, tver, aver, anchors, data, report, past>>

RotateInsert ==
  /\ up /\ rotating = "no" /\ tver < site.versions
  /\ anchors' = [anchors EXCEPT ![tver + 1] = master] /\ rotating' = "inserted"
  /\ UNCHANGED <<keys, up, master, tver, aver, data, report, past>>

RotateBump ==
  /\ rotating = "inserted" /\ tver' = tver + 1 /\ rotating' = "bumped"
  /\ UNCHANGED <<keys, up, master, aver, anchors, data, report, past>>

RotatePublish ==
  /\ rotating = "bumped" /\ aver' = tver /\ rotating' = "no"
  /\ UNCHANGED <<keys, up, master, tver, anchors, data, report, past>>

-----------------------------------------------------------------------------
(* verify_all_chains.                                                         *)

\* classify_break: the stored anchor against the recomputed one.
Classify(v) ==
  IF anchors[v] \in Masters
  THEN IF anchors[v] = master THEN "tamper" ELSE "key loss"
  ELSE "tamper"     \* MissingAnchor

Caches_always(tampered) == TRUE
\* A checkpoint is cached unless something was altered.
Caches(tampered) == ~tampered

\* verify_tcc_chain, verify_rules_chain and verify_dead_letter scan from the
\* start every time.
BrokenSide == {l \in side : Mismatch(l)}

Verify ==
  LET scanned == {i \in DOMAIN rows : i > cp}
      broken == {rows[i] : i \in {j \in scanned : Mismatch(rows[j])}}
      Is(kind, R) == \E r \in R : Classify(r.kv) = kind
      tampered == Is("tamper", broken)
      loss == Is("key loss", broken \cup BrokenSide) IN
  /\ up
  /\ report' = [tampered |-> tampered \/ Is("tamper", BrokenSide),
                unknown |-> IF loss THEN 1 ELSE 0]
  /\ cp' = IF Caches(tampered) THEN Len(rows) ELSE cp
  /\ rows' = [i \in DOMAIN rows |->
                IF i \in scanned /\ ~Mismatch(rows[i])
                THEN [rows[i] EXCEPT !.vouched = TRUE] ELSE rows[i]]
  /\ UNCHANGED <<keys, memory, anchors, side, tokens, past>>

Operator ==
  \/ LoseKey \/ RestoreKey
  \/ \E m \in Masters \cup {NoKey} : SetEnv(m)
  \/ \E m \in Masters : ReplaceKey(m)

KeyNext ==
  /\ UNCHANGED site
  /\ \/ \E m \in Masters : Start(m)
     \/ StartRefused \/ Stop \/ Operator
     \/ \E i \in 1 .. MaxRows : Alter(i)
     \/ \E l \in side : AlterSide(l)
     \/ \E c \in Chains : AppendSide(c)
     \/ AppendRow \/ PutToken \/ EvictTokens \/ ReimportFile \/ Archive
     \/ RotateInsert \/ RotateBump \/ RotatePublish
     \/ Verify

KeySpec == KeyInit /\ [][KeyNext]_keyVars

-----------------------------------------------------------------------------
(* Properties.                                                                *)

RowType == [kv : Versions, key : Masters, ok : BOOLEAN, vouched : BOOLEAN]
LineType == [chain : Chains, kv : Versions, key : Masters, ok : BOOLEAN]
TokenType == [kv : Versions, key : Masters]

\* Keys, versions, rows and reports keep their shapes; a running daemon has a
\* key, its versions are rows of key_versions and every version has an anchor.
KeyTypeOK ==
  /\ site \in Sites
  /\ keychain \in Masters \cup {NoKey} /\ envKey \in Masters \cup {NoKey} /\ escrow \in Seq(Masters)
  /\ up \in BOOLEAN /\ (up <=> master \in Masters) /\ master \in Masters \cup {NoKey}
  /\ anchors \in [Versions -> Masters \cup {NoKey, Absent}]
  /\ tver \in Versions /\ aver \in Versions /\ rotating \in {"no", "inserted", "bumped"}
  /\ up => \A v \in Versions : v <= tver => anchors[v] \in Masters
  /\ rows \in Seq(RowType) /\ side \subseteq LineType /\ cp \in 0 .. Len(rows)
  /\ tokens \subseteq TokenType
  /\ report \in [tampered : BOOLEAN, unknown : 0 .. 1]
  /\ used \in Seq(Masters) /\ returned \in BOOLEAN /\ touched \in BOOLEAN

\* Every key in use was minted by a start: the environment gives none, nobody
\* replaces the item, and the queries before a mint do not fail.
Plain == site.envKeys = {} /\ ~site.replaces /\ ~site.faults

\* A daemon of a plain installation holds the key that signed or encrypted
\* every row and token: no start replaces a lost key by a new one while data of
\* the old one exists, whatever was archived or evicted before.  Rows of the
\* side chains do not hold a mint back.
HistoryReadable ==
  Plain /\ up =>
    (\A i \in DOMAIN rows : rows[i].key = master) /\ \A t \in tokens : t.key = master

\* guard.audit.verify, over all chains, reports tampering only when something
\* stored was altered: a rotated, lost, restored, newly minted or replaced
\* master never raises the alarm, nor does one from the environment, until a
\* start goes back to a master that another one had followed.  What the other
\* one signed is then taken for altered, since its version has the anchor of
\* the first; a start can go back only where the environment gives the key.
NoFalseTamper ==
  report.tampered => touched \/ (returned /\ site.envKeys # {})

\* In a plain installation every row up to the checkpoint was once verified
\* with the key that signed it, so that incremental verification never skips an
\* unverified row.  The exception is a row whose version has the anchor of
\* another key: a key made before anything was stored and lost leaves its
\* anchor at version 1, and classify_break then takes an altered row for one
\* whose key is lost.
CheckpointVouched ==
  Plain => \A i \in 1 .. cp : rows[i].vouched \/ anchors[rows[i].kv] # rows[i].key

\* A version has its anchor in key_versions before any row, line or token
\* records it, wherever a stop cuts rotate_key and whichever key the next start
\* takes: classify_break never meets a missing anchor.
AnchorBeforeUse ==
  /\ \A i \in DOMAIN rows : anchors[rows[i].kv] \in Masters
  /\ \A l \in side : anchors[l.kv] \in Masters
  /\ \A t \in tokens : anchors[t.kv] \in Masters

=============================================================================
