----------------------------- MODULE TokenStore -----------------------------
(***************************************************************************)
(* Reversible redaction: the tokens table of fg-store with its TTL and its *)
(* in_flight flag, and the redact_tenant and reveal_tenant calls of        *)
(* fg-audit-engine that use it.  A call takes the table's lock once per    *)
(* statement, so calls interleave between the statements.                  *)
(*                                                                         *)
(* The plaintext of a token is known by its identity; which master key     *)
(* encrypts it is the subject of KeyLifecycle.                             *)
(***************************************************************************)
EXTENDS Integers, FiniteSets

CONSTANTS
  Tokens,     \* token ids (fresh uuids)
  Tenants,
  Redactors, Revealers,   \* threads that serve guard.redact, guard.reveal
  None,       \* no tenant, no token
  Ttl,        \* TOKEN_TTL_SECS
  MaxTime,    \* bound on the clock
  TokenEnvironments  \* the environments considered, see tokenEnv

\* What may happen around the token store in one behaviour.
TokenEnvironment == [
  tokens    : SUBSET Tokens,     \* the ids redact calls make
  tenants   : SUBSET Tenants,    \* the tenants that call
  revealers : SUBSET Revealers,  \* the threads that reveal
  crashes   : BOOLEAN,           \* may the process die?
  faults    : BOOLEAN]           \* may a statement on the table fail?

ASSUME TokenAssumption ==
  /\ Ttl \in Nat /\ MaxTime \in Nat
  /\ Redactors \cap Revealers = {} /\ None \notin Tokens \cup Tenants
  /\ TokenEnvironments \subseteq TokenEnvironment

VARIABLES
  tokenEnv,  \* the environment of this behaviour, fixed from the start
  tok,       \* the tokens table: [Tokens -> row or NoRow]
  clock,
  call,      \* the call each thread serves
  given,     \* tokens whose placeholders a caller has received
  origin,    \* history: tenant and time of each stored token
  answers,   \* history: what reveal answered
  stuck      \* history: tokens whose flag a failed UPDATE or a crash has left

tokenVars == <<tokenEnv, tok, clock, call, given, origin, answers, stuck>>
TokenThreads == Redactors \cup Revealers
NoRow == [tenant |-> None, created |-> 0, flying |-> FALSE]
Idle == [at |-> "idle", by |-> None, ids |-> {}, todo |-> {}, cur |-> None]

Stored(id) == tok[id] # NoRow
Expired(row) == row.created + Ttl < clock

TokenInit ==
  /\ tokenEnv \in TokenEnvironments
  /\ tok = [id \in Tokens |-> NoRow] /\ clock = 0
  /\ call = [t \in TokenThreads |-> Idle] /\ given = {}
  /\ origin = [id \in Tokens |-> NoRow] /\ answers = {} /\ stuck = {}

-----------------------------------------------------------------------------
Evicted_atTtl ==
  [id \in Tokens |-> IF Stored(id) /\ tok[id].created + Ttl <= clock /\ ~tok[id].flying
                     THEN NoRow ELSE tok[id]]

\* evict_expired
Evicted ==
  [id \in Tokens |-> IF Stored(id) /\ Expired(tok[id]) /\ ~tok[id].flying
                     THEN NoRow ELSE tok[id]]

\* Both callers ignore a failing statement: the table is as it was.
MayFail(new) == tok' = new \/ (tokenEnv.faults /\ tok' = tok)

\* redact_tenant, reversible: evict, then put_tenant for every match.
Redact(t, ids, tenant) ==
  /\ call[t] = Idle
  /\ MayFail(Evicted)
  /\ call' = [call EXCEPT ![t] = [at |-> "put", by |-> tenant, ids |-> ids,
                                  todo |-> ids, cur |-> None]]
  /\ UNCHANGED <<clock, given, origin, answers, stuck>>

Put(t, id) ==
  LET row == [tenant |-> call[t].by, created |-> clock, flying |-> FALSE] IN
  /\ call[t].at = "put" /\ id \in call[t].todo
  /\ tok' = [tok EXCEPT ![id] = row] /\ origin' = [origin EXCEPT ![id] = row]
  /\ call' = [call EXCEPT ![t].todo = @ \ {id}]
  /\ UNCHANGED <<clock, given, answers, stuck>>

\* A failed put is logged; the placeholder is handed out all the same.
PutFails(t, id) ==
  /\ call[t].at = "put" /\ id \in call[t].todo
  /\ call' = [call EXCEPT ![t].todo = @ \ {id}]
  /\ UNCHANGED <<tok, clock, given, origin, answers, stuck>>

RedactReturns(t) ==
  /\ call[t].at = "put" /\ call[t].todo = {}
  /\ given' = given \cup call[t].ids /\ call' = [call EXCEPT ![t] = Idle]
  /\ UNCHANGED <<tok, clock, origin, answers, stuck>>

-----------------------------------------------------------------------------
\* reveal_tenant: evict, then flag, get and unflag each placeholder.
Reveal(t, ids, tenant) ==
  /\ call[t] = Idle
  /\ MayFail(Evicted)
  /\ call' = [call EXCEPT ![t] = [at |-> "flag", by |-> tenant, ids |-> {},
                                  todo |-> ids, cur |-> None]]
  /\ UNCHANGED <<clock, given, origin, answers, stuck>>

WithFlag(id, b) == IF Stored(id) THEN [tok EXCEPT ![id].flying = b] ELSE tok

SetInFlight(t, id) ==
  /\ call[t].at = "flag" /\ id \in call[t].todo
  /\ MayFail(WithFlag(id, TRUE))
  /\ call' = [call EXCEPT ![t].at = "get", ![t].cur = id]
  /\ UNCHANGED <<clock, given, origin, answers, stuck>>

GetTenant_anyTenant(id, tenant) ==
  IF ~Stored(id) THEN "not found" ELSE IF Expired(tok[id]) THEN "expired" ELSE "plain"

GetTenant(id, tenant) ==
  CASE ~Stored(id) -> "not found"
    [] Stored(id) /\ tok[id].tenant # tenant -> "not found"
    [] Stored(id) /\ tok[id].tenant = tenant /\ Expired(tok[id]) -> "expired"
    [] OTHER -> "plain"

\* get_tenant; an expired row is deleted only while its flag is clear.  The
\* SELECT and the decryption may fail.
Get(t) ==
  LET id == call[t].cur IN
  /\ call[t].at = "get"
  /\ \E got \in {GetTenant(id, call[t].by)} \cup (IF tokenEnv.faults THEN {"error"} ELSE {}) :
       /\ MayFail(IF got = "expired" /\ ~tok[id].flying THEN [tok EXCEPT ![id] = NoRow] ELSE tok)
       /\ answers' = answers \cup {[id |-> id, by |-> call[t].by, got |-> got, time |-> clock]}
  /\ call' = [call EXCEPT ![t].at = "unflag"]
  /\ UNCHANGED <<clock, given, origin, stuck>>

ClearInFlight_onSuccess(t) ==
  LET id == call[t].cur IN
  /\ call[t].at = "unflag"
  /\ tok' = IF GetTenant(id, call[t].by) = "plain" THEN WithFlag(id, FALSE) ELSE tok
  /\ call' = [call EXCEPT ![t].at = "flag", ![t].cur = None, ![t].todo = @ \ {id}]
  /\ UNCHANGED <<clock, given, origin, answers, stuck>>

ClearInFlight(t) ==
  LET id == call[t].cur IN
  /\ call[t].at = "unflag"
  /\ \/ tok' = WithFlag(id, FALSE) /\ stuck' = stuck \ {id}
     \/ tokenEnv.faults /\ tok[id].flying /\ tok' = tok /\ stuck' = stuck \cup {id}
  /\ call' = [call EXCEPT ![t].at = "flag", ![t].cur = None, ![t].todo = @ \ {id}]
  /\ UNCHANGED <<clock, given, origin, answers>>

RevealReturns(t) ==
  /\ call[t].at = "flag" /\ call[t].todo = {}
  /\ call' = [call EXCEPT ![t] = Idle]
  /\ UNCHANGED <<tok, clock, given, origin, answers, stuck>>

-----------------------------------------------------------------------------
Tick ==
  /\ clock < MaxTime /\ clock' = clock + 1
  /\ UNCHANGED <<tok, call, given, origin, answers, stuck>>

\* token.db survives, flags included.
TokenCrash ==
  /\ tokenEnv.crashes /\ \E t \in TokenThreads : call[t] # Idle
  /\ call' = [t \in TokenThreads |-> Idle]
  /\ stuck' = {id \in Tokens : tok[id].flying}
  /\ UNCHANGED <<tok, clock, given, origin, answers>>

\* redact makes fresh ids; reveal is asked for placeholders handed out before.
Fresh == {id \in tokenEnv.tokens : /\ origin[id] = NoRow /\ id \notin given
                          /\ \A t \in TokenThreads : id \notin call[t].ids}
Starts(t) ==
  \E tenant \in tokenEnv.tenants :
    \/ t \in Redactors /\ \E ids \in SUBSET Fresh \ {{}} : Redact(t, ids, tenant)
    \/ t \in tokenEnv.revealers /\ \E ids \in SUBSET given \ {{}} : Reveal(t, ids, tenant)

Serves(t) ==
  \/ \E id \in Tokens : Put(t, id) \/ PutFails(t, id) \/ SetInFlight(t, id)
  \/ RedactReturns(t) \/ Get(t) \/ ClearInFlight(t) \/ RevealReturns(t)

TokenNext ==
  /\ UNCHANGED tokenEnv
  /\ Tick \/ TokenCrash \/ \E t \in TokenThreads : Starts(t) \/ Serves(t)

TokenSpec == TokenInit /\ [][TokenNext]_tokenVars

\* Calls that have begun are served; nobody has to call.
TokenFairSpec == TokenSpec /\ \A t \in TokenThreads : WF_tokenVars(UNCHANGED tokenEnv /\ Serves(t))

-----------------------------------------------------------------------------
(* Properties.                                                                *)

Rows == [tenant : Tenants, created : 0 .. MaxTime, flying : BOOLEAN] \cup {NoRow}
CallRecord == [at : {"idle", "put", "flag", "get", "unflag"}, by : Tenants \cup {None},
               ids : SUBSET Tokens, todo : SUBSET Tokens, cur : Tokens \cup {None}]

\* Rows, calls and histories keep their shapes, and a call names a current
\* token exactly between setting and clearing its flag.
TokenTypeOK ==
  /\ tokenEnv \in TokenEnvironments
  /\ tok \in [Tokens -> Rows] /\ clock \in 0 .. MaxTime
  /\ call \in [TokenThreads -> CallRecord]
  /\ \A t \in TokenThreads : call[t].cur # None <=> call[t].at \in {"get", "unflag"}
  /\ given \subseteq Tokens /\ origin \in [Tokens -> Rows]
  /\ answers \subseteq [id : Tokens, by : Tenants,
                        got : {"plain", "expired", "not found", "error"}, time : 0 .. MaxTime]
  /\ stuck \subseteq Tokens

\* A plaintext goes only to the tenant whose redact call stored the token, and
\* not after the token's TTL, whatever evictions and puts run in between.
RevealAuthorised ==
  \A a \in answers : a.got = "plain" =>
    /\ origin[a.id].tenant = a.by
    /\ a.time <= origin[a.id].created + Ttl

\* Until the TTL is over the tenant that stored a token is never told that it
\* is expired or unknown: no eviction, foreign reveal, crash or failed statement
\* takes it away earlier.  What get_tenant may answer instead of the plaintext
\* is an error of its SELECT or of the decryption.
OwnerRestores ==
  \A a \in answers :
    (origin[a.id] # NoRow /\ a.by = origin[a.id].tenant /\ a.got \in {"expired", "not found"})
      => a.time > origin[a.id].created + Ttl

\* Every in_flight flag is cleared again, also when the token could not be
\* revealed and beside other reveals of it, unless a crash came in between or
\* the clearing UPDATE failed, which reveal_tenant ignores.
FlagReleased ==
  \A id \in Tokens : tok[id].flying ~> (~tok[id].flying \/ id \in stuck)
=============================================================================
