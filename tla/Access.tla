------------------------------- MODULE Access -------------------------------
(***************************************************************************)
(* Who may ask the daemon for what: the start gate on the shared secret    *)
(* (require_shared_secret_for_release, load_shared_secret), the identity a *)
(* connection gets from its peer credentials (resolve_identity), the check *)
(* of every request (authorize_method) and the checks of the handlers      *)
(* (tenant_allowed, is_admin, the scope of audit.verify), beside an        *)
(* operator who changes the Keychain item and the tenant bindings.         *)
(*                                                                         *)
(* The handlers that talk to the cluster master run to the end; the work   *)
(* of the others is the subject of other modules.  The master is outside   *)
(* the repository: it holds an epoch in memory, which an advance           *)
(* increments, for this daemon or for another node, and a restart sets to  *)
(* zero.                                                                   *)
(***************************************************************************)
EXTENDS Cluster, FiniteSets

CONSTANTS
  Conns,        \* connections
  Root,         \* uid 0
  Daemon,       \* the uid of the daemon
  Other,        \* any other uid
  Tenants,      \* tenants
  Default,      \* DEFAULT_TENANT
  Secrets,      \* secret strings
  Nil,          \* None
  MaxEpoch,     \* bound: rule mutations and other nodes stop here
  Environments  \* the environments considered, see env

\* What a Keychain item may hold; "garbled" is not UTF-8.
Items == Secrets \cup {Nil, "garbled"}

\* getpeereid fails or names a uid.
PeerUid == {Root, Daemon, Other, "fail"}

\* guard.ping; the methods for one tenant (evaluate, audit, redact, reveal,
\* confirm, audit.list); audit.verify; guard.rule.add, update and remove;
\* what any authorised caller may read; epoch.sync and audit.fetch.
Methods == {"ping", "scoped", "verify", "mutate", "read", "sync", "fetch"}

Request == [method : Methods, tenant : Tenants \cup {Nil}, secret : Secrets \cup {Nil}]

Environment == [
  debug : BOOLEAN,     \* debug_assertions
  macos : BOOLEAN,
  var : Secrets \cup {"unset", "empty"},  \* FUSION_GUARD_SHARED_SECRET
  insecure : BOOLEAN,  \* FUSION_GUARD_ALLOW_INSECURE_SECRET
  noSecret : BOOLEAN,  \* FUSION_GUARD_ALLOW_NO_SECRET
  faults : BOOLEAN,    \* may Keychain calls and SQLite statements fail?
  meddling : BOOLEAN,  \* may the Keychain item change during a start?
  nodes : BOOLEAN,     \* do other nodes advance the cluster epoch?
  conns : SUBSET Conns, peers : SUBSET PeerUid,       \* who connects
  requests : SUBSET Request,                          \* what they ask
  items : SUBSET Items, rebound : SUBSET Tenants]     \* what the operator changes

ASSUME AccessAssumption ==
  /\ Default \in Tenants /\ Nil \notin Secrets /\ Nil \notin Tenants
  /\ Daemon # Other /\ Root # Other
  /\ "fail" \notin {Root, Daemon, Other}
  /\ {"unset", "empty", "garbled"} \cap (Secrets \cup {Nil}) = {}
  /\ MaxEpoch \in Nat
  /\ Environments \subseteq Environment

VARIABLES
  env,       \* the environment of this behaviour, fixed from the start
  item,      \* the Keychain item fusion-guard/shared-secret
  daemon,    \* "down", "starting" (past the gate), "minting" or "up"
  secret,    \* PeerAuthorizer.shared_secret
  bindings,  \* table tenant_bindings, pairs of uid and tenant
  conn,      \* per connection: the CallerIdentity, or Closed
  pc,        \* per connection: where its request is
  who, req,  \* that request's copy of the identity, and its text
  out,       \* what its handler has obtained or computed
  epoch,     \* the daemon's rule epoch
  hub,       \* the cluster master's rule epoch
  held,      \* history: the bindings that held at some time since conn[c] opened
  given,     \* history: the secret that clients find in the Keychain since a
             \* daemon first served with it, Nil once it is changed or not read
  stray      \* history: advances of hub, since the master's start, by other
             \* nodes or upon a value that was no longer hub

site == <<item, daemon, secret, bindings, given>>
epochs == <<epoch, hub, stray>>
task == <<pc, who, req, out>>
vars == <<env, site, conn, task, epochs, held>>

Closed == [uid |-> Nil, ok |-> FALSE, admin |-> FALSE, tenants |-> {}]

NoRequest == [method |-> Nil, tenant |-> Nil, secret |-> Nil]

-----------------------------------------------------------------------------
(* Starting.                                                                  *)

EnvPresent == env.var # "unset"
EnvSecret == IF env.var = "empty" THEN Nil ELSE env.var

\* The results keychain_secret_get may return: an error reads as None.
KeychainGet ==
  IF ~env.macos THEN {Nil} ELSE {item} \cup (IF env.faults THEN {Nil} ELSE {})

Gate_envSuffices(got) ==
  \/ env.debug \/ env.noSecret \/ EnvPresent \/ got \in Secrets

\* require_shared_secret_for_release lets the start go on.
Gate(got) ==
  \/ env.debug \/ env.noSecret
  \/ EnvPresent /\ env.insecure
  \/ got \in Secrets

\* resolve_shared_secret in a release build.
FromEnv == EnvPresent /\ env.insecure

\* generate_shared_secret: a string nobody has used.
Minted == Secrets \ {item, env.var}

\* load_shared_secret is to look into the Keychain.
UsesKeychain == ~env.debug /\ ~FromEnv /\ ~(env.noSecret /\ ~EnvPresent)

Mints_always(got) == UsesKeychain /\ env.macos /\ ~EnvPresent

\* Neither the Keychain nor the environment has a secret: one is generated.
Mints(got) == UsesKeychain /\ env.macos /\ ~EnvPresent /\ got = Nil

\* What load_shared_secret returns otherwise.
Settled(got) ==
  IF UsesKeychain THEN IF got \in Secrets THEN got ELSE Nil
  ELSE IF EnvPresent THEN EnvSecret ELSE Nil

\* run_server up to the gate; a refused start exits.
Start ==
  /\ daemon = "down"
  /\ \E got \in KeychainGet : Gate(got)
  /\ daemon' = "starting"
  /\ UNCHANGED <<item, secret, bindings, given, conn, task, epochs, held>>

\* A daemon serves with a secret that is in the Keychain.
Publish(s) == given' = IF given = Nil THEN s ELSE given

\* IpcServer::new binds the daemon's uid to the default tenant, a failure is
\* only logged, and PeerAuthorizer::new looks for the secret; serve follows
\* unless one has to be generated first.
Serve ==
  /\ daemon = "starting"
  /\ \/ bindings' = bindings \cup {<<Daemon, Default>>}
     \/ env.faults /\ bindings' = bindings
  /\ \E got \in KeychainGet :
       /\ daemon' = IF Mints(got) THEN "minting" ELSE "up"
       /\ secret' = IF Mints(got) THEN Nil ELSE Settled(got)
       /\ IF UsesKeychain /\ got \in Secrets THEN Publish(got)
          ELSE given' = IF UsesKeychain /\ got # item THEN Nil ELSE given
  /\ UNCHANGED <<item, conn, task, epochs, held>>

\* generate_shared_secret and keychain_secret_store: the item is replaced,
\* whatever it is by now, or the daemon serves without a secret.
Mint ==
  /\ daemon = "minting" /\ daemon' = "up"
  /\ \/ \E m \in Minted : item' = m /\ secret' = m /\ Publish(m)
     \/ env.faults /\ UNCHANGED <<item, secret, given>>
  /\ UNCHANGED <<bindings, conn, task, epochs, held>>

\* The process ends, in whatever state; bindings and epochs are on disk.
Stop ==
  /\ daemon # "down" /\ daemon' = "down"
  /\ secret' = Nil
  /\ conn' = [c \in Conns |-> Closed] /\ pc' = [c \in Conns |-> "idle"]
  /\ who' = [c \in Conns |-> Closed] /\ req' = [c \in Conns |-> NoRequest]
  /\ out' = [c \in Conns |-> Nil] /\ held' = [c \in Conns |-> {}]
  /\ UNCHANGED <<item, bindings, given, epochs>>

-----------------------------------------------------------------------------
(* Connections and requests.                                                  *)

\* peer_allowed with allow_root.
PeerAllowed(p) == p \in {Root, Daemon}

TenantsFor(u) == {t \in Tenants : <<u, t>> \in bindings}

\* resolve_identity, with what tenants_for_uid found.
Identity(p, found) ==
  IF PeerAllowed(p)
  THEN [uid |-> p, ok |-> TRUE, admin |-> p = Root,
        tenants |-> IF p = Root THEN {} ELSE found]
  ELSE [uid |-> p, ok |-> FALSE, admin |-> FALSE, tenants |-> {}]

\* handle_conn; tenants_for_uid leaves out the rows it fails to read.
Accept(c, p) ==
  /\ daemon = "up" /\ conn[c] = Closed /\ pc[c] = "idle"
  /\ \E found \in IF env.faults THEN SUBSET TenantsFor(p) ELSE {TenantsFor(p)} :
       conn' = [conn EXCEPT ![c] = Identity(p, found)]
  /\ held' = [held EXCEPT ![c] = bindings]
  /\ UNCHANGED <<site, task, epochs>>

Disconnect_perRequest(c) ==
  /\ conn[c] # Closed /\ pc[c] # "idle"
  /\ conn' = [conn EXCEPT ![c] = Closed]
  /\ UNCHANGED <<site, task, epochs, held>>

\* The peer hangs up or the connection deadline passes.  A handler that runs
\* on the blocking pool goes on, with its copy of the identity.
Disconnect(c) ==
  /\ conn[c] # Closed
  /\ conn' = [conn EXCEPT ![c] = Closed]
  /\ UNCHANGED <<site, task, epochs, held>>

AuthorizeMethod_skipsSecretForRoot(id, r) ==
  \/ r.method = "ping"
  \/ id.ok /\ (id.admin \/ secret = Nil \/ r.secret = secret)

\* authorize_method says Allow.
AuthorizeMethod(id, r) ==
  \/ r.method = "ping"
  \/ id.ok /\ (secret = Nil \/ r.secret = secret)

\* dispatch_arc: a denied request is answered at once, another is handed to
\* the blocking pool.
Dispatch(c, r) ==
  /\ conn[c] # Closed /\ pc[c] = "idle"
  /\ AuthorizeMethod(conn[c], r)
  /\ r.method = "mutate" => epoch < MaxEpoch
  /\ pc' = [pc EXCEPT ![c] = "admitted"]
  /\ who' = [who EXCEPT ![c] = conn[c]] /\ req' = [req EXCEPT ![c] = r]
  /\ UNCHANGED <<site, conn, out, epochs, held>>

TenantAllowed(id, t) == id.admin \/ t \in id.tenants

\* The tenant a request works for; the wire parameter defaults to Default.
Wire(r) == IF r.tenant = Nil THEN Default ELSE r.tenant

Handling(c, ms) == pc[c] = "admitted" /\ req[c].method \in ms

Goto(c, l, o) ==
  /\ pc' = [pc EXCEPT ![c] = l] /\ out' = [out EXCEPT ![c] = o]
  /\ UNCHANGED <<who, req>>

Run(c, o) == Goto(c, "running", o)

Done(c) ==
  /\ pc' = [pc EXCEPT ![c] = "idle"] /\ out' = [out EXCEPT ![c] = Nil]
  /\ who' = [who EXCEPT ![c] = Closed] /\ req' = [req EXCEPT ![c] = NoRequest]

\* The handlers of methods for one tenant.
HandleScoped(c) ==
  LET t == Wire(req[c]) IN
  /\ Handling(c, {"scoped"})
  /\ IF TenantAllowed(who[c], t) THEN Run(c, t) ELSE Done(c)
  /\ UNCHANGED <<site, conn, epochs, held>>

\* audit.verify takes the scope asked for; without one an admin verifies
\* everything, another one of its tenants (the first by name), and everything
\* if it has none.
HandleVerify(c) ==
  LET t == req[c].tenant  id == who[c] IN
  /\ Handling(c, {"verify"})
  /\ \/ t # Nil /\ TenantAllowed(id, t) /\ Run(c, t)
     \/ t # Nil /\ ~TenantAllowed(id, t) /\ Done(c)
     \/ t = Nil /\ (id.admin \/ id.tenants = {}) /\ Run(c, Nil)
     \/ t = Nil /\ ~id.admin /\ \E u \in id.tenants : Run(c, u)
  /\ UNCHANGED <<site, conn, epochs, held>>

\* guard.rule.add, update and remove: an admin's change is refused by the engine
\* or moves the epoch.
HandleMutate(c) ==
  /\ Handling(c, {"mutate"})
  /\ \/ who[c].admin /\ Run(c, Nil) /\ epoch' = epoch + 1
     \/ Done(c) /\ epoch' = epoch
  /\ UNCHANGED <<site, conn, hub, stray, held>>

\* What any caller that got this far may read.
HandleRead(c) ==
  /\ Handling(c, {"ping", "read"}) /\ Run(c, Nil)
  /\ UNCHANGED <<site, conn, epochs, held>>

\* The answer is written, or nobody is there to read it.
Answer(c) ==
  /\ pc[c] = "running" /\ Done(c)
  /\ UNCHANGED <<site, conn, epochs, held>>

\* No cluster token, no answer in time, or not a 2xx answer.
ClusterFails(c) ==
  /\ Handling(c, {"sync", "fetch"}) /\ Done(c)
  /\ UNCHANGED <<site, conn, epochs, held>>

\* fetch_audit_chain returns some segment, which is judged.
Fetch(c) ==
  /\ Handling(c, {"fetch"})
  /\ \E n \in 0 .. MaxSegment : \E seg \in [1 .. n -> Received] :
       Run(c, [seg |-> seg, verdict |-> VerifySegment(seg)])
  /\ UNCHANGED <<site, conn, epochs, held>>

\* get_rule_epoch returns.
GetEpoch(c) ==
  /\ Handling(c, {"sync"})
  /\ Goto(c, "got epoch", hub)
  /\ UNCHANGED <<site, conn, epochs, held>>

SyncEpoch_orEqual(c) ==
  /\ pc[c] = "got epoch"
  /\ IF epoch >= out[c] THEN Goto(c, "advancing", out[c]) ELSE Run(c, Nil)
  /\ UNCHANGED <<site, conn, epochs, held>>

\* The local epoch is read and compared with the answer.
SyncEpoch(c) ==
  /\ pc[c] = "got epoch"
  /\ IF Reconcile(epoch, out[c]) = "advance" THEN Goto(c, "advancing", out[c]) ELSE Run(c, Nil)
  /\ UNCHANGED <<site, conn, epochs, held>>

\* advance_rule_epoch: the master increments its epoch, whatever it is by now,
\* or refuses, or does not get the request.
Advance(c) ==
  /\ pc[c] = "advancing" /\ Run(c, Nil)
  /\ \/ hub' = hub + 1 /\ stray' = IF hub = out[c] THEN stray ELSE stray + 1
     \/ UNCHANGED <<hub, stray>>
  /\ UNCHANGED <<site, conn, epoch, held>>

-----------------------------------------------------------------------------
(* The cluster master and the operator.                                       *)

MasterRestarts ==
  /\ hub # 0 /\ hub' = 0 /\ stray' = 0
  /\ UNCHANGED <<site, conn, task, epoch, held>>

\* Another node advances the cluster epoch.
NodeAdvances ==
  /\ env.nodes /\ hub < MaxEpoch
  /\ hub' = hub + 1 /\ stray' = stray + 1
  /\ UNCHANGED <<site, conn, task, epoch, held>>

\* `security add-generic-password` or delete.
Provision(i) ==
  /\ env.macos /\ (env.meddling \/ daemon \notin {"starting", "minting"})
  /\ item' = i /\ given' = Nil
  /\ UNCHANGED <<daemon, secret, bindings, conn, task, epochs, held>>

\* bind_tenant.
Bind(u, t) ==
  /\ bindings' = bindings \cup {<<u, t>>}
  /\ held' = [c \in Conns |-> IF conn[c] = Closed /\ pc[c] = "idle"
                              THEN held[c] ELSE held[c] \cup {<<u, t>>}]
  /\ UNCHANGED <<item, daemon, secret, given, conn, task, epochs>>

\* unbind_tenant.
Unbind(u, t) ==
  /\ bindings' = bindings \ {<<u, t>>}
  /\ UNCHANGED <<item, daemon, secret, given, conn, task, epochs, held>>

-----------------------------------------------------------------------------
Init ==
  /\ env \in Environments
  /\ item \in IF env.macos THEN Items ELSE {Nil}
  /\ daemon = "down" /\ secret = Nil /\ bindings = {}
  /\ conn = [c \in Conns |-> Closed] /\ pc = [c \in Conns |-> "idle"]
  /\ who = [c \in Conns |-> Closed] /\ req = [c \in Conns |-> NoRequest]
  /\ out = [c \in Conns |-> Nil]
  /\ epoch = 1 /\ hub \in {0, 1}
  /\ given = Nil /\ stray = 0
  /\ held = [c \in Conns |-> {}]

\* A handler once admitted goes on.
Work(c) ==
  \/ HandleScoped(c) \/ HandleVerify(c) \/ HandleMutate(c) \/ HandleRead(c)
  \/ ClusterFails(c) \/ Fetch(c) \/ GetEpoch(c) \/ SyncEpoch(c) \/ Advance(c) \/ Answer(c)

Next ==
  /\ UNCHANGED env
  /\ \/ Start \/ Serve \/ Mint \/ Stop
     \/ \E c \in env.conns :
          \/ \E p \in env.peers : Accept(c, p)
          \/ \E r \in env.requests : Dispatch(c, r)
          \/ Disconnect(c) \/ Work(c)
     \/ MasterRestarts \/ NodeAdvances
     \/ \E i \in env.items : Provision(i)
     \/ \E t \in env.rebound : Bind(Daemon, t) \/ Unbind(Daemon, t)

Spec == Init /\ [][Next]_vars

\* The blocking pool runs its tasks, and the timer of a connection fires.
FairSpec ==
  /\ Spec
  /\ \A c \in Conns : /\ WF_vars(UNCHANGED env /\ Work(c))
                      /\ WF_vars(UNCHANGED env /\ Disconnect(c))

-----------------------------------------------------------------------------
(* Properties.                                                                *)

IdentityType == [uid : PeerUid \cup {Nil}, ok : BOOLEAN, admin : BOOLEAN, tenants : SUBSET Tenants]

\* The variables keep their types; while the daemon is not up no secret is
\* loaded, no connection is open and no request is handled.
TypeOK ==
  /\ env \in Environments /\ item \in Items /\ secret \in Secrets \cup {Nil}
  /\ daemon \in {"down", "starting", "minting", "up"} /\ given \in Secrets \cup {Nil}
  /\ bindings \subseteq PeerUid \X Tenants /\ held \in [Conns -> SUBSET (PeerUid \X Tenants)]
  /\ conn \in [Conns -> IdentityType] /\ who \in [Conns -> IdentityType]
  /\ pc \in [Conns -> {"idle", "admitted", "got epoch", "advancing", "running"}]
  /\ req \in [Conns -> Request \cup {NoRequest}] /\ DOMAIN out = Conns
  /\ \A c \in Conns : pc[c] # "idle" => req[c] \in Request
  /\ daemon # "up" => secret = Nil /\ \A c \in Conns : conn[c] = Closed /\ pc[c] = "idle"
  /\ epoch \in Nat /\ hub \in Nat /\ stray \in Nat

\* A release daemon that serves without ALLOW_NO_SECRET compares a secret: the
\* gate before AuditStore::open and the later load in PeerAuthorizer::new
\* agree.  They do not for an empty variable, a failing Keychain, or an item
\* that disappears between the two.
SecretEnforced ==
  (daemon = "up" /\ ~env.debug /\ ~env.noSecret /\ env.var # "empty"
     /\ ~env.faults /\ ~env.meddling) => secret # Nil

\* Clients keep the secret they found in the Keychain: once a daemon has served
\* with it, every later start comes up with it, until the operator changes the
\* item or a read of the Keychain fails.  A failing read looks like a missing
\* item, and the secret generated then replaces the one clients hold.
SecretStays == (daemon = "up" /\ given # Nil) => secret = given

\* What is handled was asked by root or the daemon's own uid with the secret of
\* this daemon; rules are changed by root only; work for a tenant is done for
\* root or for a binding that held at some time since the connection was opened,
\* and so is audit.verify for a caller that has a tenant.  A caller without one
\* verifies all chains: `tenants.first()` is None, although the comments at
\* fg-ipc lib.rs:906 and 912 confine everybody but root to a tenant of theirs.
RequestsAuthorised ==
  \A c \in Conns :
    LET r == req[c]  id == who[c] IN
    (pc[c] # "idle" /\ r.method # "ping") =>
      /\ id.uid \in {Root, Daemon} /\ (secret # Nil => r.secret = secret)
      /\ (pc[c] = "running" /\ r.method = "mutate") => id.uid = Root
      /\ (pc[c] = "running" /\ (r.method = "scoped" \/ (r.method = "verify" /\ id.tenants # {}))) =>
           id.uid = Root \/ <<id.uid, out[c]>> \in held[c]

\* Work for tenant t that somebody other than root asked for.
Serving(t) ==
  \E c \in Conns : /\ pc[c] = "running" /\ req[c].method = "scoped"
                   /\ out[c] = t /\ ~who[c].admin

\* Identities are resolved once per connection, but a binding that is removed
\* for good is out of use eventually: the connection deadline ends every
\* connection that still carries it.
RevocationEffective ==
  \A t \in Tenants : <>[](<<Daemon, t>> \notin bindings) => <>[]~Serving(t)

\* The cluster's rule epoch gets past the local one by no more than the advances
\* that epoch.sync cannot know of: those of other nodes, and its own that reach
\* the master after another one, or a restart, has changed the value it read.
EpochNotOvertaken == hub <= epoch + stray

\* Every segment of remote audit records is judged as the reference says.
SegmentsJudged ==
  \A c \in Conns : (pc[c] = "running" /\ req[c].method = "fetch") =>
    JudgedRight(out[c].seg, out[c].verdict)
=============================================================================
