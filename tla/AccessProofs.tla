---------------------------- MODULE AccessProofs ----------------------------
(***************************************************************************)
(* Proofs about Access, for any sets of connections, tenants and secrets   *)
(* and any set of environments.                                            *)
(***************************************************************************)
EXTENDS Access, NaturalsInduction, WellFoundedInduction, TLAPS

\* What an identity that connection c uses may claim.
Sound(id, c) ==
  /\ id.ok => id.uid \in {Root, Daemon}
  /\ id.admin => id.uid = Root
  /\ \A t \in id.tenants : <<id.uid, t>> \in held[c]

\* A request that is being handled passed authorize_method, and its work is
\* within what its identity may do.
Cleared(c) ==
  /\ pc[c] \in {"got epoch", "advancing"} => req[c].method = "sync"
  /\ (pc[c] # "idle" /\ req[c].method # "ping") =>
    /\ who[c].ok /\ (secret # Nil => req[c].secret = secret)
    /\ (pc[c] = "running" /\ req[c].method = "mutate") => who[c].admin
    /\ (pc[c] = "running" /\ req[c].method \in {"scoped", "verify"}) =>
         \/ who[c].admin \/ out[c] \in who[c].tenants
         \/ req[c].method = "verify" /\ out[c] = Nil /\ who[c].tenants = {}

Identified ==
  \A c \in Conns : /\ Sound(conn[c], c) /\ Sound(who[c], c) /\ Cleared(c)
                   /\ pc[c] = "idle" => who[c] = Closed

\* The empty identity claims nothing.
LEMMA EmptyIdentity == Closed \in IdentityType /\ \A c \in Conns : Sound(Closed, c)
  BY Zenon DEF Closed, IdentityType, Sound

\* The initial state has the types of TypeOK.
LEMMA TypeInit == Init => TypeOK
<1> SUFFICES ASSUME Init PROVE TypeOK
  BY Zenon
<1>1. /\ conn \in [Conns -> IdentityType] /\ who \in [Conns -> IdentityType]
      /\ req \in [Conns -> Request \cup {NoRequest}] /\ DOMAIN out = Conns
      /\ pc \in [Conns -> {"idle", "admitted", "got epoch", "advancing", "running"}]
  BY Zenon, EmptyIdentity DEF Init
<1>2. item \in Items
  BY Zenon DEF Init, Items
<1>3. bindings \subseteq PeerUid \X Tenants /\ held \in [Conns -> SUBSET (PeerUid \X Tenants)]
  BY Zenon DEF Init
<1>4. /\ epoch \in Nat /\ hub \in Nat /\ stray \in Nat /\ env \in Environments
      /\ secret \in Secrets \cup {Nil} /\ given \in Secrets \cup {Nil}
  BY DEF Init
<1>5. QED
  BY Zenon, <1>1, <1>2, <1>3, <1>4 DEF Init, TypeOK

\* What the parts of TypeOK that only starts and stops, only connections, or
\* only handlers touch need to stay true.
SiteType ==
  /\ item \in Items /\ secret \in Secrets \cup {Nil} /\ given \in Secrets \cup {Nil}
  /\ daemon \in {"down", "starting", "minting", "up"}
  /\ bindings \subseteq PeerUid \X Tenants
ConnType ==
  /\ conn \in [Conns -> IdentityType] /\ held \in [Conns -> SUBSET (PeerUid \X Tenants)]
TaskType ==
  /\ who \in [Conns -> IdentityType] /\ DOMAIN out = Conns
  /\ pc \in [Conns -> {"idle", "admitted", "got epoch", "advancing", "running"}]
  /\ req \in [Conns -> Request \cup {NoRequest}]
  /\ \A c \in Conns : pc[c] # "idle" => req[c] \in Request
DownType ==
  daemon # "up" => secret = Nil /\ \A c \in Conns : conn[c] = Closed /\ pc[c] = "idle"
EpochType == epoch \in Nat /\ hub \in Nat /\ stray \in Nat

\* TypeOK is made of these parts.
LEMMA TypeParts ==
  TypeOK <=> env \in Environments /\ SiteType /\ ConnType /\ TaskType /\ DownType /\ EpochType
  BY Zenon DEF TypeOK, SiteType, ConnType, TaskType, DownType, EpochType

\* A handler that goes on keeps the types of the requests.
LEMMA GotoType ==
  ASSUME TaskType, NEW c \in Conns, pc[c] # "idle", NEW o,
         NEW l \in {"got epoch", "advancing", "running"}, Goto(c, l, o)
  PROVE  TaskType'
  BY Zenon DEF TaskType, Goto

\* So does one that ends.
LEMMA DoneType ==
  ASSUME TaskType, NEW c \in Conns, Done(c) PROVE TaskType'
  BY Zenon, EmptyIdentity DEF TaskType, Done

\* A step of a handler moves its request on, or ends it.
LEMMA WorkMoves ==
  ASSUME NEW c \in Conns, Work(c)
  PROVE  /\ UNCHANGED <<site, conn, held>> /\ pc[c] # "idle"
         /\ Done(c) \/ \E o : \E l \in {"got epoch", "advancing", "running"} : Goto(c, l, o)
<1>1. CASE HandleScoped(c)
  BY Zenon, <1>1 DEF HandleScoped, Handling, Run
<1>2. CASE HandleVerify(c)
  BY Zenon, <1>2 DEF HandleVerify, Handling, Run
<1>3. CASE HandleMutate(c)
  BY Zenon, <1>3 DEF HandleMutate, Handling, Run
<1>4. CASE HandleRead(c) \/ ClusterFails(c) \/ GetEpoch(c) \/ SyncEpoch(c) \/ Advance(c) \/ Answer(c)
  BY Zenon, <1>4 DEF HandleRead, ClusterFails, GetEpoch, SyncEpoch, Advance, Answer, Handling, Run
<1>5. CASE Fetch(c)
  <2>1. PICK v : Run(c, v)
    BY Zenon, <1>5 DEF Fetch
  <2>2. QED
    BY Zenon, <1>5, <2>1 DEF Fetch, Handling, Run
<1>6. QED
  BY Zenon, <1>1, <1>2, <1>3, <1>4, <1>5 DEF Work

\* Every handler keeps the epochs natural numbers.
LEMMA WorkEpochs ==
  ASSUME EpochType, NEW c \in Conns, Work(c) PROVE EpochType'
<1>1. CASE HandleMutate(c)
  BY <1>1 DEF EpochType, HandleMutate
<1>2. CASE Advance(c)
  <2>1. hub' \in {hub, hub + 1} /\ stray' \in {stray, stray + 1} /\ epoch' = epoch
    BY <1>2, Zenon DEF Advance
  <2>2. QED
    BY <2>1 DEF EpochType
<1>3. CASE HandleScoped(c) \/ HandleVerify(c) \/ HandleRead(c) \/ Fetch(c)
  BY Zenon, <1>3 DEF EpochType, HandleScoped, HandleVerify, HandleRead, Fetch, epochs
<1>4. CASE ClusterFails(c) \/ GetEpoch(c) \/ SyncEpoch(c) \/ Answer(c)
  BY Zenon, <1>4 DEF EpochType, ClusterFails, GetEpoch, SyncEpoch, Answer, epochs
<1>5. QED
  BY Zenon, <1>1, <1>2, <1>3, <1>4 DEF Work

\* The identity a connection gets has its type.
LEMMA IdentityTyped ==
  ASSUME NEW p \in PeerUid, NEW f \in SUBSET Tenants PROVE Identity(p, f) \in IdentityType
  BY Zenon DEF Identity, IdentityType, PeerAllowed

\* Every step keeps the types of TypeOK.
LEMMA TypeNext == TypeOK /\ [Next]_vars => TypeOK'
<1> SUFFICES ASSUME TypeOK, [Next]_vars PROVE TypeOK'
  BY Zenon
<1> USE AccessAssumption
<1>t. env \in Environments /\ SiteType /\ ConnType /\ TaskType /\ DownType /\ EpochType
  BY Zenon, TypeParts
<1>e. env' = env /\ env.peers \subseteq PeerUid /\ env.requests \subseteq Request
      /\ env.items \subseteq Items /\ env.rebound \subseteq Tenants /\ env.conns \subseteq Conns
      /\ env.var \in Secrets \cup {"unset", "empty"}
  BY Zenon, <1>t DEF Next, vars, Environment
<1> SUFFICES SiteType' /\ ConnType' /\ TaskType' /\ DownType' /\ EpochType'
  BY Zenon, <1>e, <1>t DEF TypeOK, SiteType, ConnType, TaskType, DownType, EpochType
<1>1. CASE Start
  BY Zenon, <1>1, <1>t DEF Start, SiteType, ConnType, TaskType, DownType, EpochType, task, epochs
<1>2. CASE Serve
  <2>1. secret' \in Secrets \cup {Nil} /\ given' \in Secrets \cup {Nil} /\ daemon' \in {"minting", "up"}
    <3>1. PICK got \in KeychainGet :
            /\ daemon' = IF Mints(got) THEN "minting" ELSE "up"
            /\ secret' = IF Mints(got) THEN Nil ELSE Settled(got)
            /\ given' \in {given, Nil} \/ (got \in Secrets /\ given' = got)
      BY Zenon, <1>2 DEF Serve, Publish
    <3>2. Settled(got) \in Secrets \cup {Nil}
      <4>1. EnvPresent => EnvSecret \in Secrets \cup {Nil}
        BY Zenon, <1>e DEF EnvSecret, EnvPresent
      <4>2. QED
        BY Zenon, <4>1 DEF Settled
    <3>3. QED
      BY Zenon, <1>t, <3>1, <3>2 DEF SiteType
  <2>2. bindings' \subseteq PeerUid \X Tenants
    BY <1>2, <1>t DEF Serve, SiteType, PeerUid
  <2>3. SiteType'
    BY Zenon, <1>2, <1>t, <2>1, <2>2 DEF Serve, SiteType
  <2>4. DownType'
    <3>1. daemon' # "up" => secret' = Nil
      BY Zenon, <1>2 DEF Serve
    <3>2. QED
      BY Zenon, <1>2, <1>t, <3>1 DEF Serve, DownType, task
  <2>5. QED
    BY Zenon, <1>2, <1>t, <2>3, <2>4 DEF Serve, ConnType, TaskType, EpochType, task, epochs
<1>3. CASE Stop
  <2>1. ConnType' /\ TaskType'
    BY Zenon, <1>3, EmptyIdentity DEF Stop, ConnType, TaskType
  <2>2. QED
    BY Zenon, <1>3, <1>t, <2>1 DEF Stop, SiteType, DownType, EpochType, epochs
<1>4. ASSUME NEW c \in Conns, NEW p \in PeerUid, Accept(c, p)
      PROVE  SiteType' /\ ConnType' /\ TaskType' /\ DownType' /\ EpochType'
  <2>1. PICK f \in SUBSET Tenants : conn' = [conn EXCEPT ![c] = Identity(p, f)]
    BY Zenon, <1>4 DEF Accept, TenantsFor
  <2>2. Identity(p, f) \in IdentityType
    BY Zenon, IdentityTyped
  <2>3. ConnType'
    BY Zenon, <1>4, <1>t, <2>1, <2>2 DEF Accept, ConnType, SiteType
  <2>4. QED
    BY Zenon, <1>4, <1>t, <2>3 DEF Accept, SiteType, TaskType, DownType, EpochType, site, task, epochs
<1>5. ASSUME NEW c \in Conns, NEW r \in Request, Dispatch(c, r)
      PROVE  SiteType' /\ ConnType' /\ TaskType' /\ DownType' /\ EpochType'
  BY Zenon, <1>5, <1>t
  DEF Dispatch, SiteType, ConnType, TaskType, DownType, EpochType, site, epochs
<1>6. ASSUME NEW c \in Conns, Disconnect(c)
      PROVE  SiteType' /\ ConnType' /\ TaskType' /\ DownType' /\ EpochType'
  BY Zenon, <1>6, <1>t, EmptyIdentity
  DEF Disconnect, SiteType, ConnType, TaskType, DownType, EpochType, site, task, epochs
<1>7. ASSUME NEW c \in Conns, Work(c)
      PROVE  SiteType' /\ ConnType' /\ TaskType' /\ DownType' /\ EpochType'
  <2>1. TaskType'
    BY Zenon, <1>7, <1>t, WorkMoves, GotoType, DoneType
  <2>2. DownType'
    BY Zenon, <1>7, <1>t, WorkMoves DEF DownType, site
  <2>3. QED
    BY Zenon, <1>7, <1>t, <2>1, <2>2, WorkMoves, WorkEpochs DEF SiteType, ConnType, site
<1>8. ASSUME NEW i \in Items, Provision(i)
      PROVE  SiteType' /\ ConnType' /\ TaskType' /\ DownType' /\ EpochType'
  BY Zenon, <1>8, <1>t
  DEF Provision, SiteType, ConnType, TaskType, DownType, EpochType, task, epochs
<1>9. ASSUME NEW t \in Tenants, Bind(Daemon, t) \/ Unbind(Daemon, t)
      PROVE  SiteType' /\ ConnType' /\ TaskType' /\ DownType' /\ EpochType'
  <2>1. <<Daemon, t>> \in PeerUid \X Tenants
    BY Zenon DEF PeerUid
  <2>2. SiteType' /\ ConnType'
    BY <1>9, <1>t, <2>1 DEF Bind, Unbind, SiteType, ConnType
  <2>3. QED
    BY Zenon, <1>9, <1>t, <2>2 DEF Bind, Unbind, TaskType, DownType, EpochType, task, epochs
<1>10. CASE UNCHANGED vars
  BY Zenon, <1>10, <1>t DEF vars, SiteType, ConnType, TaskType, DownType, EpochType, site, task, epochs
<1>11. CASE MasterRestarts \/ NodeAdvances
  <2>1. EpochType'
    <3>1. hub' \in {0, hub + 1} /\ stray' \in {0, stray + 1} /\ epoch' = epoch
      BY Zenon, <1>11 DEF MasterRestarts, NodeAdvances
    <3>2. QED
      BY <1>t, <3>1 DEF EpochType
  <2>2. QED
    BY Zenon, <1>11, <1>t, <2>1
    DEF MasterRestarts, NodeAdvances, SiteType, ConnType, TaskType, DownType, site, task
<1>12. CASE Mint
  <2>1. item' \in Items /\ secret' \in Secrets \cup {Nil} /\ given' \in Secrets \cup {Nil}
    <3>1. CASE \E m \in Minted : item' = m /\ secret' = m /\ Publish(m)
      BY Zenon, <1>t, <3>1 DEF Minted, Publish, Items, SiteType
    <3>2. QED
      BY Zenon, <1>12, <1>t, <3>1 DEF Mint, SiteType
  <2>2. QED
    BY Zenon, <1>12, <1>t, <2>1
    DEF Mint, SiteType, ConnType, TaskType, DownType, EpochType, task, epochs
<1>13. QED
  BY Zenon, <1>1, <1>2, <1>3, <1>4, <1>5, <1>6, <1>7, <1>8, <1>9, <1>10, <1>11, <1>12, <1>e DEF Next

\* The variables keep their types, and a daemon that is not up holds no secret,
\* no connection and no request (TypeOK).
THEOREM TypeCorrect == Spec => []TypeOK
<1>1. QED
  BY TypeInit, TypeNext, PTL DEF Spec

-----------------------------------------------------------------------------
(* Starting.                                                                  *)

\* Between the gate and the load nothing the gate relied on has changed, and
\* no secret has to be generated.
Gated ==
  (~env.debug /\ ~env.noSecret /\ ~env.faults /\ ~env.meddling) =>
    /\ daemon = "starting" => FromEnv \/ (env.macos /\ item \in Secrets)
    /\ daemon # "minting"

GateInv == Gated /\ SecretEnforced

\* Only starts, stops and the operator touch what GateInv is about.
LEMMA GateUntouched ==
  ASSUME GateInv, UNCHANGED <<env, item, daemon, secret>> PROVE GateInv'
  BY Zenon DEF GateInv, Gated, SecretEnforced, FromEnv, EnvPresent

\* Every step keeps GateInv.
LEMMA GateNext == TypeOK /\ GateInv /\ [Next]_vars => GateInv'
<1> SUFFICES ASSUME TypeOK, GateInv, [Next]_vars PROVE GateInv'
  BY Zenon
<1> USE AccessAssumption
<1>e. env' = env /\ env \in Environment
  BY Zenon DEF Next, vars, TypeOK
<1>1. CASE Start
  <2>1. Gated'
    <3>1. PICK got \in KeychainGet : Gate(got)
      BY Zenon, <1>1 DEF Start
    <3>2. QED
      BY Zenon, <1>1, <1>e, <3>1 DEF Start, Gate, Gated, KeychainGet, FromEnv, EnvPresent
  <2>2. QED
    BY Zenon, <1>1, <2>1 DEF Start, GateInv, SecretEnforced
<1>2. CASE Serve
  <2>1. PICK got \in KeychainGet :
          /\ daemon' = IF Mints(got) THEN "minting" ELSE "up"
          /\ secret' = IF Mints(got) THEN Nil ELSE Settled(got)
    BY Zenon, <1>2 DEF Serve
  <2>2. SUFFICES ASSUME ~env.debug, ~env.noSecret, ~env.faults, ~env.meddling
                 PROVE  ~Mints(got) /\ (env.var # "empty" => Settled(got) # Nil)
    BY Zenon, <1>e, <2>1 DEF GateInv, Gated, SecretEnforced
  <2>3. FromEnv \/ (env.macos /\ item \in Secrets)
    BY Zenon, <1>2, <2>2 DEF Serve, GateInv, Gated
  <2>4. CASE FromEnv
    <3>1. EnvPresent /\ ~UsesKeychain /\ (env.var # "empty" => EnvSecret \in Secrets)
      BY Zenon, <1>e, <2>4 DEF FromEnv, EnvPresent, EnvSecret, UsesKeychain, Environment
    <3>2. QED
      BY Zenon, <3>1 DEF Mints, Settled
  <2>5. CASE ~FromEnv
    <3>1. got = item /\ got \in Secrets /\ got # Nil
      BY Zenon, <2>1, <2>2, <2>3, <2>5 DEF KeychainGet
    <3>2. UsesKeychain
      BY Zenon, <2>2, <2>5 DEF UsesKeychain
    <3>3. QED
      BY Zenon, <3>1, <3>2 DEF Mints, Settled
  <2>6. QED
    BY Zenon, <2>3, <2>4, <2>5
<1>3. CASE Stop
  BY Zenon, <1>3 DEF Stop, GateInv, Gated, SecretEnforced
<1>4. ASSUME NEW i \in Items, Provision(i) PROVE GateInv'
  BY Zenon, <1>4, <1>e DEF Provision, GateInv, Gated, SecretEnforced, FromEnv, EnvPresent
<1>5. ASSUME NEW c \in Conns, NEW p, NEW r,
             Accept(c, p) \/ Dispatch(c, r) \/ Disconnect(c) \/ Work(c)
      PROVE  GateInv'
  <2>1. UNCHANGED site
    BY Zenon, <1>5, WorkMoves DEF Accept, Dispatch, Disconnect
  <2>2. QED
    BY Zenon, <2>1, <1>e, GateUntouched DEF site
<1>6. ASSUME NEW t, Bind(Daemon, t) \/ Unbind(Daemon, t) PROVE GateInv'
  BY Zenon, <1>6, <1>e, GateUntouched DEF Bind, Unbind
<1>7. CASE UNCHANGED vars
  BY Zenon, <1>7, GateUntouched DEF vars, site
<1>8. CASE MasterRestarts \/ NodeAdvances
  BY Zenon, <1>8, <1>e, GateUntouched DEF MasterRestarts, NodeAdvances, site
<1>9. CASE Mint
  BY Zenon, <1>9, <1>e DEF Mint, GateInv, Gated, SecretEnforced
<1>10. env.items \subseteq Items /\ env.conns \subseteq Conns
  BY Zenon, <1>e DEF Environment
<1>11. QED
  BY Zenon, <1>1, <1>2, <1>3, <1>4, <1>5, <1>6, <1>7, <1>8, <1>9, <1>10 DEF Next

\* The gate and the later load agree (SecretEnforced): a release daemon that
\* serves without ALLOW_NO_SECRET compares a secret, unless the variable is
\* empty, the Keychain fails or its item changes between the two.
THEOREM GateHolds == Spec => []SecretEnforced
<1>1. Init => GateInv
  BY Zenon DEF Init, GateInv, Gated, SecretEnforced
<1>2. GateInv => SecretEnforced
  BY Zenon DEF GateInv
<1>3. QED
  BY <1>1, <1>2, GateNext, TypeCorrect, PTL DEF Spec

\* A secret is generated only for the Keychain.  The one that clients hold is the
\* Keychain item, a running daemon compares it, and none is being generated.
GivenInv ==
  /\ daemon = "minting" => UsesKeychain /\ env.macos
  /\ given # Nil => /\ given = item /\ given \in Secrets /\ UsesKeychain /\ env.macos
                    /\ daemon # "minting" /\ (daemon = "up" => secret = given)

\* Only starts, stops and the operator touch what GivenInv is about.
LEMMA GivenUntouched ==
  ASSUME GivenInv, UNCHANGED <<env, item, daemon, secret, given>> PROVE GivenInv'
  BY Zenon DEF GivenInv, UsesKeychain, FromEnv, EnvPresent

\* Every step keeps GivenInv.
LEMMA GivenNext == TypeOK /\ GivenInv /\ [Next]_vars => GivenInv'
<1> SUFFICES ASSUME TypeOK, GivenInv, [Next]_vars PROVE GivenInv'
  BY Zenon
<1> USE AccessAssumption
<1>e. env' = env /\ env.conns \subseteq Conns
  BY Zenon DEF Next, vars, TypeOK, Environment
<1>u. UsesKeychain' = UsesKeychain
  BY Zenon, <1>e DEF UsesKeychain, FromEnv, EnvPresent
<1>1. CASE Start \/ Stop
  BY Zenon, <1>1, <1>e, <1>u DEF Start, Stop, GivenInv
<1>2. CASE Serve
  <2>1. PICK got \in KeychainGet :
          /\ daemon' = IF Mints(got) THEN "minting" ELSE "up"
          /\ secret' = IF Mints(got) THEN Nil ELSE Settled(got)
          /\ IF UsesKeychain /\ got \in Secrets THEN Publish(got)
             ELSE given' = IF UsesKeychain /\ got # item THEN Nil ELSE given
    BY Zenon, <1>2 DEF Serve
  <2>2. item' = item
    BY Zenon, <1>2 DEF Serve
  <2>3. CASE UsesKeychain /\ got \in Secrets
    <3>1. got # Nil /\ got = item /\ env.macos
      BY Zenon, <2>3 DEF KeychainGet
    <3>2. given' = got
      BY Zenon, <2>1, <2>3, <3>1 DEF Publish, GivenInv
    <3>3. daemon' = "up" /\ secret' = got
      BY Zenon, <2>1, <2>3, <3>1 DEF Mints, Settled
    <3>4. QED
      BY Zenon, <1>e, <1>u, <2>2, <2>3, <3>1, <3>2, <3>3 DEF GivenInv
  <2>4. CASE ~(UsesKeychain /\ got \in Secrets)
    <3>1. given' # Nil => given # Nil /\ (UsesKeychain => got = item) /\ given' = given
      BY Zenon, <2>1, <2>4
    <3>2. given' = Nil
      BY Zenon, <2>4, <3>1 DEF GivenInv
    <3>3. daemon' = "minting" => UsesKeychain /\ env.macos
      BY Zenon, <2>1 DEF Mints
    <3>4. QED
      BY Zenon, <1>e, <1>u, <3>2, <3>3 DEF GivenInv
  <2>5. QED
    BY Zenon, <2>3, <2>4
<1>3. CASE Mint
  <2>1. daemon = "minting" /\ daemon' = "up" /\ given = Nil
    BY Zenon, <1>3 DEF Mint, GivenInv
  <2>2. CASE UNCHANGED <<item, secret, given>>
    BY Zenon, <2>1, <2>2 DEF GivenInv
  <2>3. CASE \E m \in Minted : item' = m /\ secret' = m /\ Publish(m)
    <3>1. PICK m \in Minted : item' = m /\ secret' = m /\ given' = m
      BY Zenon, <2>1, <2>3 DEF Publish
    <3>2. UsesKeychain /\ env.macos
      BY Zenon, <2>1 DEF GivenInv
    <3>3. QED
      BY Zenon, <1>e, <1>u, <2>1, <3>1, <3>2 DEF GivenInv, Minted
  <2>4. QED
    BY Zenon, <1>3, <2>2, <2>3 DEF Mint
<1>4. ASSUME NEW i, Provision(i) PROVE GivenInv'
  BY Zenon, <1>4, <1>e, <1>u DEF Provision, GivenInv
<1>5. ASSUME NEW c \in Conns, NEW p, NEW r,
             Accept(c, p) \/ Dispatch(c, r) \/ Disconnect(c) \/ Work(c)
      PROVE  GivenInv'
  <2>1. UNCHANGED site
    BY Zenon, <1>5, WorkMoves DEF Accept, Dispatch, Disconnect
  <2>2. QED
    BY Zenon, <2>1, <1>e, GivenUntouched DEF site
<1>6. ASSUME NEW t, Bind(Daemon, t) \/ Unbind(Daemon, t) PROVE GivenInv'
  BY Zenon, <1>6, <1>e, GivenUntouched DEF Bind, Unbind
<1>7. CASE UNCHANGED vars \/ MasterRestarts \/ NodeAdvances
  BY Zenon, <1>7, <1>e, GivenUntouched DEF vars, MasterRestarts, NodeAdvances, site
<1>8. QED
  BY Zenon, <1>1, <1>2, <1>3, <1>4, <1>5, <1>6, <1>7, <1>e DEF Next

\* A secret that a daemon served with from the Keychain survives every restart,
\* up to a change of the item or a failing read (SecretStays).
THEOREM SecretIsKept == Spec => []SecretStays
<1>1. Init => GivenInv
  BY Zenon DEF Init, GivenInv
<1>2. GivenInv => SecretStays
  BY Zenon DEF GivenInv, SecretStays
<1>3. QED
  BY <1>1, <1>2, GivenNext, TypeCorrect, PTL DEF Spec

-----------------------------------------------------------------------------
(* Requests.                                                                  *)

\* An identity that a connection gets now claims what holds now.
LEMMA IdentitySound ==
  ASSUME NEW c \in Conns, NEW p \in PeerUid, NEW f \in SUBSET TenantsFor(p),
         held'[c] = bindings
  PROVE  Sound(Identity(p, f), c)'
<1>1. \A t \in f : <<p, t>> \in held'[c]
  BY Zenon DEF TenantsFor
<1>2. Sound(Identity(p, f), c)' <=>
        LET id == Identity(p, f) IN
        /\ id.ok => id.uid \in {Root, Daemon}
        /\ id.admin => id.uid = Root
        /\ \A t \in id.tenants : <<id.uid, t>> \in held'[c]
  BY DEF Sound, Identity, PeerAllowed
<1>3. QED
  BY Zenon, <1>1, <1>2 DEF Identity, PeerAllowed

\* The initial state is Identified.
LEMMA IdentifiedInit == Init => Identified
  BY EmptyIdentity DEF Init, Identified, Cleared

\* Steps that leave connections, requests and the secret alone, and take
\* nothing from held, keep Identified.
LEMMA IdentifiedStays ==
  ASSUME TypeOK, Identified, UNCHANGED <<conn, task, secret>>,
         \A c \in Conns : held[c] \subseteq held'[c]
  PROVE  Identified'
<1> SUFFICES ASSUME NEW c \in Conns
             PROVE  /\ Sound(conn[c], c)' /\ Sound(who[c], c)' /\ Cleared(c)'
                    /\ pc'[c] = "idle" => who'[c] = Closed
  BY Zenon DEF Identified
<1>1. Sound(conn[c], c)' /\ Sound(who[c], c)'
  BY Zenon DEF Identified, Sound, task
<1>2. QED
  BY Zenon, <1>1 DEF Identified, Cleared, task

\* Every step keeps Identified.
LEMMA IdentifiedNext == TypeOK /\ Identified /\ [Next]_vars => Identified'
<1> SUFFICES ASSUME TypeOK, Identified, [Next]_vars PROVE Identified'
  BY Zenon
<1> USE AccessAssumption
<1>e. env \in Environment /\ env.peers \subseteq PeerUid /\ env.requests \subseteq Request
      /\ env.conns \subseteq Conns
  BY Zenon DEF TypeOK, Environment
<1>1. CASE Start \/ MasterRestarts \/ NodeAdvances \/ \E i \in env.items : Provision(i)
  <2>1. UNCHANGED <<conn, task, secret, held>>
    BY Zenon, <1>1 DEF Start, MasterRestarts, NodeAdvances, Provision, site
  <2>2. QED
    BY Zenon, <2>1, IdentifiedStays
<1>2. CASE Serve \/ Mint
  <2>1. \A c \in Conns : pc'[c] = "idle" /\ who'[c] = Closed /\ conn'[c] = Closed
    BY Zenon, <1>2 DEF Serve, Mint, TypeOK, Identified, task
  <2>2. \A c \in Conns : Sound(Closed, c)'
    BY EmptyIdentity DEF Sound, Closed
  <2>3. QED
    BY Zenon, <2>1, <2>2 DEF Identified, Cleared, Sound
<1>3. CASE Stop
  <2>1. \A c \in Conns : pc'[c] = "idle" /\ who'[c] = Closed /\ conn'[c] = Closed
    BY Zenon, <1>3 DEF Stop
  <2>2. \A c \in Conns : Sound(Closed, c)'
    BY Zenon, EmptyIdentity DEF Sound, Closed
  <2>3. QED
    BY Zenon, <2>1, <2>2 DEF Identified, Cleared, Sound
<1>4. ASSUME NEW t \in Tenants, Bind(Daemon, t) \/ Unbind(Daemon, t) PROVE Identified'
  <2>1. UNCHANGED <<conn, task, secret>> /\ \A c \in Conns : held[c] \subseteq held'[c]
    BY Zenon, <1>4 DEF Bind, Unbind
  <2>2. QED
    BY Zenon, <2>1, IdentifiedStays
<1>5. CASE UNCHANGED vars
  <2>1. UNCHANGED <<conn, task, secret, held>>
    BY Zenon, <1>5 DEF vars, site
  <2>2. QED
    BY Zenon, <2>1, IdentifiedStays
<1>6. ASSUME NEW a \in Conns, NEW p \in PeerUid, Accept(a, p) PROVE Identified'
  <2>1. PICK f \in SUBSET TenantsFor(p) : conn' = [conn EXCEPT ![a] = Identity(p, f)]
    BY Zenon, <1>6 DEF Accept
  <2>2. held' = [held EXCEPT ![a] = bindings] /\ UNCHANGED <<task, secret>> /\ pc[a] = "idle"
    BY Zenon, <1>6 DEF Accept, site
  <2>3. SUFFICES ASSUME NEW c \in Conns
                 PROVE  /\ Sound(conn[c], c)' /\ Sound(who[c], c)' /\ Cleared(c)'
                        /\ pc'[c] = "idle" => who'[c] = Closed
    BY Zenon DEF Identified
  <2>4. CASE c = a
    <3>1. conn'[a] = Identity(p, f) /\ held'[a] = bindings /\ who'[a] = Closed /\ pc'[a] = "idle"
      BY Zenon, <2>1, <2>2 DEF TypeOK, Identified, task
    <3>2. Sound(Closed, a)'
      BY Zenon, EmptyIdentity DEF Sound, Closed
    <3>3. Sound(Identity(p, f), a)'
      BY Zenon, <3>1, IdentitySound
    <3>4. QED
      BY Zenon, <2>4, <3>1, <3>2, <3>3 DEF Sound, Cleared
  <2>5. CASE c # a
    <3>1. conn'[c] = conn[c] /\ held'[c] = held[c] /\ who'[c] = who[c] /\ pc'[c] = pc[c]
          /\ req'[c] = req[c] /\ out'[c] = out[c]
      BY Zenon, <2>1, <2>2, <2>5 DEF TypeOK, task
    <3>2. Sound(conn[c], c) /\ Sound(who[c], c) /\ Cleared(c) /\ (pc[c] = "idle" => who[c] = Closed)
      BY Zenon DEF Identified
    <3>3. QED
      BY Zenon, <3>1, <3>2, <2>2 DEF Sound, Cleared
  <2>6. QED
    BY Zenon, <2>4, <2>5
<1>7. ASSUME NEW a \in Conns, Disconnect(a) PROVE Identified'
  <2>1. UNCHANGED <<task, secret, held>> /\ conn' = [conn EXCEPT ![a] = Closed]
    BY Zenon, <1>7 DEF Disconnect, site
  <2>2. SUFFICES ASSUME NEW c \in Conns
                 PROVE  /\ Sound(conn[c], c)' /\ Sound(who[c], c)' /\ Cleared(c)'
                        /\ pc'[c] = "idle" => who'[c] = Closed
    BY Zenon DEF Identified
  <2>3. Sound(who[c], c)' /\ Cleared(c)' /\ (pc'[c] = "idle" => who'[c] = Closed)
    BY Zenon, <2>1 DEF Identified, Sound, Cleared, task
  <2>4. Sound(Closed, c)'
    BY Zenon, EmptyIdentity DEF Sound, Closed
  <2>5. conn'[c] = conn[c] \/ conn'[c] = Closed
    BY Zenon, <2>1 DEF TypeOK
  <2>6. QED
    BY Zenon, <2>1, <2>3, <2>4, <2>5 DEF Identified, Sound
<1>8. ASSUME NEW a \in Conns, NEW r \in Request, Dispatch(a, r) PROVE Identified'
  <2>1. /\ UNCHANGED <<conn, out, secret, held>> /\ AuthorizeMethod(conn[a], r)
        /\ pc' = [pc EXCEPT ![a] = "admitted"] /\ who' = [who EXCEPT ![a] = conn[a]]
        /\ req' = [req EXCEPT ![a] = r]
    BY Zenon, <1>8 DEF Dispatch, site
  <2>2. SUFFICES ASSUME NEW c \in Conns
                 PROVE  /\ Sound(conn[c], c)' /\ Sound(who[c], c)' /\ Cleared(c)'
                        /\ pc'[c] = "idle" => who'[c] = Closed
    BY Zenon DEF Identified
  <2>3. CASE c = a
    <3>1. who'[a] = conn[a] /\ pc'[a] = "admitted" /\ req'[a] = r
      BY Zenon, <2>1 DEF TypeOK
    <3>2. QED
      BY Zenon, <2>1, <2>3, <3>1 DEF Identified, Sound, Cleared, AuthorizeMethod
  <2>4. CASE c # a
    <3>1. who'[c] = who[c] /\ pc'[c] = pc[c] /\ req'[c] = req[c]
      BY Zenon, <2>1, <2>4 DEF TypeOK
    <3>2. Sound(conn[c], c) /\ Sound(who[c], c) /\ Cleared(c) /\ (pc[c] = "idle" => who[c] = Closed)
      BY Zenon DEF Identified
    <3>3. QED
      BY Zenon, <2>1, <3>1, <3>2 DEF Sound, Cleared
  <2>5. QED
    BY Zenon, <2>3, <2>4
<1>9. ASSUME NEW a \in Conns, Work(a) PROVE Identified'
  <2>1. UNCHANGED <<conn, secret, held>> /\ pc[a] # "idle"
    BY Zenon, <1>9, WorkMoves DEF site
  <2>2. ASSUME NEW c \in Conns
        PROVE  Sound(conn[c], c)'
    BY Zenon, <2>1 DEF Identified, Sound
  <2>3. ASSUME Done(a) PROVE Identified'
    <3> SUFFICES ASSUME NEW c \in Conns
                 PROVE  Sound(who[c], c)' /\ Cleared(c)' /\ (pc'[c] = "idle" => who'[c] = Closed)
      BY Zenon, <2>2 DEF Identified
    <3>1. CASE c = a
      <4>1. who'[a] = Closed /\ pc'[a] = "idle"
        BY Zenon, <2>3 DEF Done, TypeOK
      <4>2. Sound(Closed, c)'
        BY Zenon, EmptyIdentity DEF Sound, Closed
      <4>3. QED
        BY Zenon, <3>1, <4>1, <4>2 DEF Sound, Cleared
    <3>2. CASE c # a
      <4>1. who'[c] = who[c] /\ pc'[c] = pc[c] /\ req'[c] = req[c] /\ out'[c] = out[c]
        BY Zenon, <2>3, <3>2 DEF Done, TypeOK
      <4>2. QED
        BY Zenon, <2>1, <4>1 DEF Identified, Sound, Cleared
    <3>3. QED
      BY Zenon, <3>1, <3>2
  <2>4. ASSUME NEW l \in {"got epoch", "advancing", "running"}, NEW o, Goto(a, l, o),
               l # "running" => req[a].method = "sync",
               req[a].method = "mutate" => who[a].admin,
               req[a].method \in {"scoped", "verify"} =>
                 \/ who[a].admin \/ o \in who[a].tenants
                 \/ req[a].method = "verify" /\ o = Nil /\ who[a].tenants = {}
        PROVE  Identified'
    <3> SUFFICES ASSUME NEW c \in Conns
                 PROVE  Sound(who[c], c)' /\ Cleared(c)' /\ (pc'[c] = "idle" => who'[c] = Closed)
      BY Zenon, <2>2 DEF Identified
    <3>1. who'[c] = who[c] /\ req'[c] = req[c]
      BY Zenon, <2>4 DEF Goto
    <3>2. Sound(who[c], c)'
      BY Zenon, <2>1, <3>1 DEF Identified, Sound
    <3>3. CASE c = a
      <4>1. pc'[a] = l /\ out'[a] = o
        BY Zenon, <2>4 DEF Goto, TypeOK
      <4>2. QED
        BY Zenon, <2>1, <2>4, <3>1, <3>2, <3>3, <4>1 DEF Identified, Cleared
    <3>4. CASE c # a
      <4>1. pc'[c] = pc[c] /\ out'[c] = out[c]
        BY Zenon, <2>4, <3>4 DEF Goto, TypeOK
      <4>2. QED
        BY Zenon, <2>1, <3>1, <3>2, <4>1 DEF Identified, Cleared
    <3>5. QED
      BY Zenon, <3>3, <3>4
  <2>5. CASE HandleScoped(a)
    BY Zenon, <2>3, <2>4, <2>5 DEF HandleScoped, Handling, Run, TenantAllowed
  <2>6. CASE HandleVerify(a)
    BY Zenon, <2>3, <2>4, <2>6 DEF HandleVerify, Handling, Run, TenantAllowed
  <2>7. CASE HandleMutate(a)
    BY Zenon, <2>3, <2>4, <2>7 DEF HandleMutate, Handling, Run
  <2>8. CASE HandleRead(a) \/ ClusterFails(a) \/ GetEpoch(a)
    BY Zenon, <2>3, <2>4, <2>8 DEF HandleRead, ClusterFails, GetEpoch, Handling, Run
  <2>9. CASE Fetch(a)
    BY Zenon, <2>3, <2>4, <2>9 DEF Fetch, Handling, Run
  <2>10. CASE Answer(a)
    BY Zenon, <2>3, <2>10 DEF Answer
  <2>11. CASE SyncEpoch(a) \/ Advance(a)
    <3>1. req[a].method = "sync"
      BY Zenon, <2>11 DEF SyncEpoch, Advance, Identified, Cleared
    <3>2. Goto(a, "running", Nil) \/ Goto(a, "advancing", out[a])
      BY Zenon, <2>11 DEF SyncEpoch, Advance, Run
    <3>3. QED
      BY Zenon, <2>4, <3>1, <3>2
  <2>12. QED
    BY Zenon, <1>9, <2>5, <2>6, <2>7, <2>8, <2>9, <2>10, <2>11 DEF Work
<1>10. env.rebound \subseteq Tenants
  BY Zenon, <1>e DEF Environment
<1>11. QED
  BY Zenon, <1>1, <1>2, <1>3, <1>4, <1>5, <1>6, <1>7, <1>8, <1>9, <1>10, <1>e DEF Next

\* Every request that is handled was allowed (RequestsAuthorised): by the
\* caller's uid, by the daemon's secret, and by a binding that held while the
\* connection was open.
THEOREM RequestsAreAuthorised == Spec => []RequestsAuthorised
<1>1. TypeOK /\ Identified => RequestsAuthorised
  BY Zenon DEF Identified, Sound, Cleared, RequestsAuthorised
<1>2. QED
  BY <1>1, IdentifiedInit, IdentifiedNext, TypeCorrect, PTL DEF Spec

-----------------------------------------------------------------------------
(* Epochs.                                                                    *)

\* What epoch.sync has read is a number, below the local epoch once it advances.
Pending(c) ==
  /\ pc[c] = "got epoch" => out[c] \in Nat
  /\ pc[c] = "advancing" => out[c] \in Nat /\ out[c] < epoch

SyncInv == EpochNotOvertaken /\ \A c \in Conns : Pending(c)

\* The handler of connection a changes nobody else's request, and the local
\* epoch never falls.
LEMMA PendingOthers ==
  ASSUME TypeOK, SyncInv, NEW a \in Conns, Pending(a)', epoch' \in {epoch, epoch + 1},
         \A c \in Conns : c # a => pc'[c] = pc[c] /\ out'[c] = out[c]
  PROVE  \A c \in Conns : Pending(c)'
<1> SUFFICES ASSUME NEW c \in Conns, c # a PROVE Pending(c)'
  BY Zenon
<1>1. epoch \in Nat /\ Pending(c) /\ pc'[c] = pc[c] /\ out'[c] = out[c]
  BY Zenon DEF TypeOK, SyncInv
<1>2. QED
  <2>1. pc'[c] = "advancing" => out'[c] \in Nat /\ out'[c] < epoch'
    <3>1. ASSUME pc[c] = "advancing" PROVE out[c] \in Nat /\ out[c] < epoch
      BY Zenon, <1>1, <3>1 DEF Pending
    <3>2. QED
      BY <1>1, <3>1
  <2>2. QED
    BY Zenon, <1>1, <2>1 DEF Pending

\* A handler keeps SyncInv.
LEMMA SyncWork ==
  ASSUME TypeOK, SyncInv, NEW a \in Conns, Work(a) PROVE SyncInv'
<1>1. \A c \in Conns : c # a => pc'[c] = pc[c] /\ out'[c] = out[c]
  <2>1. CASE Done(a)
    BY Zenon, <2>1 DEF Done, TypeOK
  <2>2. ASSUME NEW o, NEW l, Goto(a, l, o)
        PROVE  \A c \in Conns : c # a => pc'[c] = pc[c] /\ out'[c] = out[c]
    BY Zenon, <2>2 DEF Goto, TypeOK
  <2>3. QED
    BY Zenon, <2>1, <2>2, WorkMoves
<1>2. epoch \in Nat /\ hub \in Nat /\ stray \in Nat /\ hub <= epoch + stray
  BY Zenon DEF TypeOK, SyncInv, EpochNotOvertaken
<1>3. CASE HandleScoped(a) \/ HandleVerify(a) \/ HandleRead(a) \/ Fetch(a) \/ HandleMutate(a)
           \/ ClusterFails(a) \/ Answer(a)
  <2>1. Done(a) \/ \E o : Run(a, o)
    BY Zenon, <1>3 DEF HandleScoped, HandleVerify, HandleRead, Fetch, HandleMutate, ClusterFails, Answer
  <2>2. pc'[a] \in {"idle", "running"}
    BY Zenon, <2>1 DEF Done, Run, Goto, TypeOK
  <2>3. hub' = hub /\ stray' = stray /\ epoch' \in {epoch, epoch + 1}
    <3>1. CASE HandleMutate(a)
      BY Zenon, <3>1 DEF HandleMutate
    <3>2. QED
      BY Zenon, <1>3, <3>1 DEF HandleScoped, HandleVerify, HandleRead, Fetch, ClusterFails, Answer, epochs
  <2>4. EpochNotOvertaken'
    <3>1. epoch' = epoch \/ epoch' = epoch + 1
      BY Zenon, <2>3
    <3>2. hub <= epoch' + stray
      BY <1>2, <3>1
    <3>3. QED
      BY Zenon, <2>3, <3>2 DEF EpochNotOvertaken
  <2>5. Pending(a)'
    BY Zenon, <2>2 DEF Pending
  <2>6. QED
    BY Zenon, <1>1, <2>3, <2>4, <2>5, PendingOthers DEF SyncInv
<1>4. CASE GetEpoch(a)
  <2>1. UNCHANGED epochs /\ pc'[a] = "got epoch" /\ out'[a] = hub
    BY Zenon, <1>4 DEF GetEpoch, Goto, TypeOK
  <2>2. Pending(a)'
    BY Zenon, <1>2, <2>1 DEF Pending
  <2>3. QED
    BY Zenon, <1>1, <2>1, <2>2, PendingOthers DEF SyncInv, EpochNotOvertaken, epochs
<1>5. CASE SyncEpoch(a)
  <2>1. UNCHANGED epochs /\ pc[a] = "got epoch"
    BY Zenon, <1>5 DEF SyncEpoch
  <2>2. Pending(a)'
    <3>1. CASE Reconcile(epoch, out[a]) = "advance"
      <4>1. pc'[a] = "advancing" /\ out'[a] = out[a]
        BY Zenon, <1>5, <3>1 DEF SyncEpoch, Goto, TypeOK
      <4>2. epoch > out[a] /\ out[a] \in Nat
        BY Zenon, <2>1, <3>1 DEF Reconcile, SyncInv, Pending
      <4>3. epoch' = epoch
        BY Zenon, <2>1 DEF epochs
      <4>4. out[a] < epoch
        BY <1>2, <4>2
      <4>5. QED
        BY Zenon, <4>1, <4>2, <4>3, <4>4 DEF Pending
    <3>2. CASE Reconcile(epoch, out[a]) # "advance"
      <4>1. pc'[a] = "running"
        BY Zenon, <1>5, <3>2 DEF SyncEpoch, Run, Goto, TypeOK
      <4>2. QED
        BY Zenon, <4>1 DEF Pending
    <3>3. QED
      BY Zenon, <3>1, <3>2
  <2>3. QED
    BY Zenon, <1>1, <2>1, <2>2, PendingOthers DEF SyncInv, EpochNotOvertaken, epochs
<1>6. CASE Advance(a)
  <2>1. pc[a] = "advancing" /\ epoch' = epoch /\ Run(a, Nil)
    BY Zenon, <1>6 DEF Advance
  <2>2. pc'[a] = "running"
    BY Zenon, <2>1 DEF Run, Goto, TypeOK
  <2>3. Pending(a)'
    BY Zenon, <2>2 DEF Pending
  <2>4. out[a] \in Nat /\ out[a] < epoch
    BY Zenon, <2>1 DEF SyncInv, Pending
  <2>5. \/ hub' = hub /\ stray' = stray
        \/ hub' = hub + 1 /\ hub = out[a] /\ stray' = stray
        \/ hub' = hub + 1 /\ stray' = stray + 1
    BY Zenon, <1>6 DEF Advance
  <2>6. EpochNotOvertaken'
    BY <1>2, <2>1, <2>4, <2>5 DEF EpochNotOvertaken
  <2>7. QED
    BY Zenon, <1>1, <2>1, <2>3, <2>6, PendingOthers DEF SyncInv
<1>7. QED
  BY Zenon, <1>3, <1>4, <1>5, <1>6 DEF Work

\* Every step keeps SyncInv.
LEMMA SyncNext == TypeOK /\ SyncInv /\ [Next]_vars => SyncInv'
<1> SUFFICES ASSUME TypeOK, SyncInv, [Next]_vars PROVE SyncInv'
  BY Zenon
<1>e. env.conns \subseteq Conns
  BY Zenon, AccessAssumption DEF TypeOK, Environment
<1>1. CASE UNCHANGED <<pc, out, epoch, hub, stray>>
  BY Zenon, <1>1 DEF SyncInv, Pending, EpochNotOvertaken
<1>2. CASE Start \/ Serve \/ Mint \/ (\E i \in env.items : Provision(i))
           \/ (\E t \in env.rebound : Bind(Daemon, t) \/ Unbind(Daemon, t)) \/ UNCHANGED vars
  BY Zenon, <1>1, <1>2 DEF Start, Serve, Mint, Provision, Bind, Unbind, vars, task, epochs
<1>3. ASSUME NEW a \in Conns, NEW p, Accept(a, p) \/ Disconnect(a) PROVE SyncInv'
  BY Zenon, <1>1, <1>3 DEF Accept, Disconnect, task, epochs
<1>4. CASE Stop
  <2>1. (\A c \in Conns : pc'[c] = "idle") /\ UNCHANGED epochs
    BY Zenon, <1>4 DEF Stop
  <2>2. QED
    BY Zenon, <2>1 DEF SyncInv, Pending, EpochNotOvertaken, epochs
<1>5. ASSUME NEW a \in Conns, NEW r, Dispatch(a, r) PROVE SyncInv'
  <2>1. /\ pc'[a] = "admitted" /\ out' = out /\ UNCHANGED epochs
        /\ \A c \in Conns : c # a => pc'[c] = pc[c]
    BY Zenon, <1>5 DEF Dispatch, TypeOK
  <2>2. Pending(a)'
    BY Zenon, <2>1 DEF Pending
  <2>3. QED
    BY Zenon, <2>1, <2>2, PendingOthers DEF SyncInv, EpochNotOvertaken, epochs
<1>6. CASE MasterRestarts \/ NodeAdvances
  <2>1. /\ UNCHANGED <<pc, out, epoch>>
        /\ (hub' = 0 /\ stray' = 0) \/ (hub' = hub + 1 /\ stray' = stray + 1)
    BY Zenon, <1>6 DEF MasterRestarts, NodeAdvances, task
  <2>2. epoch \in Nat /\ hub \in Nat /\ stray \in Nat /\ hub <= epoch + stray
    BY Zenon DEF TypeOK, SyncInv, EpochNotOvertaken
  <2>3. EpochNotOvertaken'
    BY <2>1, <2>2 DEF EpochNotOvertaken
  <2>4. QED
    BY Zenon, <2>1, <2>3 DEF SyncInv, Pending
<1>7. QED
  BY Zenon, <1>2, <1>3, <1>4, <1>5, <1>6, <1>e, SyncWork DEF Next

\* The cluster's epoch gets past the daemon's own by no more than the advances
\* of other nodes and those it applied after the value read had changed
\* (EpochNotOvertaken), however many epoch.sync handlers overlap.
THEOREM NeverOvertaken == Spec => []EpochNotOvertaken
<1>1. Init => SyncInv
  BY DEF Init, SyncInv, Pending, EpochNotOvertaken
<1>2. SyncInv => EpochNotOvertaken
  BY Zenon DEF SyncInv
<1>3. QED
  BY <1>1, <1>2, SyncNext, TypeCorrect, PTL DEF Spec

-----------------------------------------------------------------------------
(* Remote segments.                                                           *)

\* A nonempty set of naturals has a least element.  What holds of 0 and passes from
\* i - 1 to i holds of every number: consider the least one of which it does not.
LEMMA Least ==
  ASSUME NEW T, T \subseteq Nat, T # {}
  PROVE  \E x \in T : \A y \in T : x <= y
<1> DEFINE R == OpToRel(<, Nat)
<1>1. IsWellFoundedOn(R, Nat)
  BY Zenon, NatLessThanWellFounded
<1>2. \A x, y \in Nat : x < y => <<x, y>> \in R
  BY Zenon DEF OpToRel
<1> HIDE DEF R
<1>3. PICK x \in T : \A y \in T : <<y, x>> \notin R
  BY <1>1, WFMin, Zenon
<1>4. ASSUME NEW y \in T PROVE x <= y
  <2>1. x \in Nat /\ y \in Nat
    BY Zenon
  <2>2. ~(y < x)
    BY <1>2, <1>3, <2>1, Zenon
  <2>3. QED
    BY <2>1, <2>2
<1>5. QED
  BY Zenon, <1>4

\* The judgement before the first record, and after record i of seg when f holds
\* the judgements before it.
Unjudged ==
  [anchor |-> NoAnchor, verified |-> 0, broken |-> 0, baseline |-> 0, first |-> 0, at |-> 0]
Turn(seg, f, i) == IF i = 0 THEN Unjudged ELSE Judge([f[i - 1] EXCEPT !.at = i], seg[i])
Runs(seg, f, n) == f = [i \in 0 .. n |-> Turn(seg, f, i)]

\* The recursion that VerifySegment writes down has a solution for any length.
LEMMA LoopRuns ==
  ASSUME NEW seg, NEW n \in Nat PROVE \E f : Runs(seg, f, n)
<1> DEFINE T == {k \in Nat : ~\E f : Runs(seg, f, k)}
<1>1. SUFFICES ASSUME T # {} PROVE FALSE
  BY Zenon
<1>2. PICK k \in T : \A m \in T : k <= m
  <2> T \subseteq Nat  BY Zenon
  <2> HIDE DEF T
  <2> QED BY <1>1, Least, Zenon
<1>3. CASE k = 0
  <2> DEFINE f == [i \in 0 .. 0 |-> Unjudged]
  <2>1. Runs(seg, f, 0)
    BY DEF Runs, Turn
  <2>2. QED
    BY Zenon, <1>2, <1>3, <2>1
<1>4. CASE k # 0
  <2>1. k - 1 \in Nat /\ k - 1 \notin T
    BY <1>2, <1>4
  <2>2. PICK g : Runs(seg, g, k - 1)
    BY Zenon, <2>1
  <2> DEFINE f == [i \in 0 .. k |-> IF i = k THEN Turn(seg, g, k) ELSE g[i]]
  <2>3. ASSUME NEW i \in 0 .. k PROVE f[i] = Turn(seg, f, i)
    <3>1. i # 0 => f[i - 1] = g[i - 1]
      OBVIOUS
    <3>2. Turn(seg, f, i) = Turn(seg, g, i)
      <4> HIDE DEF f
      <4> QED BY <3>1, Zenon DEF Turn
    <3>3. CASE i = k
      BY Zenon, <3>2, <3>3
    <3>4. CASE i # k
      <4>1. g[i] = Turn(seg, g, i)
        BY <2>2, <3>4 DEF Runs
      <4>2. QED
        BY Zenon, <3>2, <3>4, <4>1
    <3>5. QED
      BY Zenon, <3>3, <3>4
  <2>4. Runs(seg, f, k)
    BY <2>3, Zenon DEF Runs
  <2>5. QED
    BY Zenon, <1>2, <2>4
<1>5. QED
  BY Zenon, <1>3, <1>4

\* verify_chain_segment's answer is the last judgement of such a solution.
LEMMA LoopOf ==
  ASSUME NEW seg, Len(seg) \in Nat
  PROVE  \E f : Runs(seg, f, Len(seg)) /\ VerifySegment(seg) = f[Len(seg)]
<1> DEFINE h == CHOOSE f : Runs(seg, f, Len(seg))
<1>1. Runs(seg, h, Len(seg))
  BY LoopRuns, Zenon
<1>2. VerifySegment(seg) = h[Len(seg)]
  BY Zenon DEF VerifySegment, Runs, Turn, Unjudged
<1>3. QED
  BY <1>1, <1>2, Zenon

\* Record i is one that the reference objects to.
Bad(seg, i) == (seg[i].chained /\ ~seg[i].intact) \/ Mislinked(seg, i)

\* The judgement s is right about the first i records.
Judgement ==
  [anchor : Int, verified : Nat, broken : Nat, baseline : Nat, first : Nat, at : Nat]
RightUpTo(seg, s, i) ==
  /\ s \in Judgement /\ s.verified + s.broken + s.baseline = i
  /\ s.broken = 0 =>
       /\ s.first = 0 /\ \A j \in 1 .. i : ~Bad(seg, j)
       /\ s.anchor = IF i > 0 /\ seg[i].chained THEN seg[i].id ELSE NoAnchor
  /\ s.broken > 0 =>
       s.first \in 1 .. i /\ Bad(seg, s.first) /\ \A j \in 1 .. i : Bad(seg, j) => s.first <= j

\* Record r, judged when the judgement is t, counts as broken.
Hit(t, r) == ~r.intact \/ (t.anchor # NoAnchor /\ PrevHash(r) \notin {0, t.anchor})

\* Ids are positive, flags are Booleans.
LEMMA ReceivedType ==
  ASSUME NEW r \in Received
  PROVE  r.id \in Nat /\ r.id > 0 /\ r.intact \in BOOLEAN /\ r.chained \in BOOLEAN
<1>1. CASE r = [id |-> 1, intact |-> TRUE, chained |-> FALSE]
  BY <1>1
<1>2. CASE r \in [id : 1 .. MaxSegment, intact : BOOLEAN, chained : {TRUE}]
  <2>1. r.id \in 1 .. MaxSegment /\ r.intact \in BOOLEAN /\ r.chained \in {TRUE}
    BY <1>2, Zenon
  <2>2. r.id \in Nat /\ r.id > 0
    BY <2>1, SegmentAssumption
  <2>3. QED
    BY <2>1, <2>2, Zenon
<1>3. QED
  BY <1>1, <1>2, Zenon DEF Received

\* What one turn of the loop does to each field: t before, v after record r.
Turns(t, r, v) ==
  /\ v \in Judgement
  /\ ~r.chained =>
       /\ v.anchor = NoAnchor /\ v.verified = t.verified /\ v.broken = t.broken
       /\ v.baseline = t.baseline + 1 /\ v.first = t.first
  /\ r.chained /\ Hit(t, r) =>
       /\ v.anchor = NoAnchor /\ v.verified = t.verified /\ v.broken = t.broken + 1
       /\ v.baseline = t.baseline /\ v.first = IF t.first = 0 THEN t.at ELSE t.first
  /\ r.chained /\ ~Hit(t, r) =>
       /\ v.anchor = r.id /\ v.verified = t.verified + 1 /\ v.broken = t.broken
       /\ v.baseline = t.baseline /\ v.first = t.first

\* The loop body of verify does this to its counters.
LEMMA JudgeTurn ==
  ASSUME NEW t \in Judgement, NEW r \in Received, NEW v, v = Judge(t, r)
  PROVE  Turns(t, r, v)
<1>1. /\ t.verified + 1 \in Nat /\ t.broken + 1 \in Nat /\ t.baseline + 1 \in Nat
      /\ (IF t.first = 0 THEN t.at ELSE t.first) \in Nat
      /\ NoAnchor \in Int /\ r.id \in Int
  BY ReceivedType DEF Judgement, NoAnchor
<1>2. CASE ~r.chained
  <2>1. v = [t EXCEPT !.baseline = t.baseline + 1, !.anchor = NoAnchor]
    BY <1>2, Zenon DEF Judge
  <2>2. v \in Judgement
    BY <1>1, <2>1, Zenon DEF Judgement
  <2>3. /\ v.anchor = NoAnchor /\ v.verified = t.verified /\ v.broken = t.broken
        /\ v.baseline = t.baseline + 1 /\ v.first = t.first
    BY <2>1, Zenon DEF Judgement
  <2>4. QED
    BY <1>2, <2>2, <2>3, Zenon DEF Turns
<1>3. CASE r.chained /\ Hit(t, r)
  <2>1. v = [t EXCEPT !.broken = t.broken + 1, !.anchor = NoAnchor,
                      !.first = IF t.first = 0 THEN t.at ELSE t.first]
    BY <1>3, Zenon DEF Judge, Hit
  <2>2. v \in Judgement
    BY <1>1, <2>1, Zenon DEF Judgement
  <2>3. /\ v.anchor = NoAnchor /\ v.verified = t.verified /\ v.broken = t.broken + 1
        /\ v.baseline = t.baseline /\ v.first = IF t.first = 0 THEN t.at ELSE t.first
    BY <2>1, Zenon DEF Judgement
  <2>4. QED
    BY <1>3, <2>2, <2>3, Zenon DEF Turns
<1>4. CASE r.chained /\ ~Hit(t, r)
  <2>1. v = [t EXCEPT !.verified = t.verified + 1, !.anchor = r.id]
    BY <1>4, Zenon DEF Judge, Hit
  <2>2. v \in Judgement
    BY <1>1, <2>1, Zenon DEF Judgement
  <2>3. /\ v.anchor = r.id /\ v.verified = t.verified + 1 /\ v.broken = t.broken
        /\ v.baseline = t.baseline /\ v.first = t.first
    BY <2>1, Zenon DEF Judgement
  <2>4. QED
    BY <1>4, <2>2, <2>3, Zenon DEF Turns
<1>5. QED
  BY <1>2, <1>3, <1>4, Zenon

\* Every record is counted once.
LEMMA Counted ==
  ASSUME NEW s, NEW v, NEW k \in Int,
         s.verified \in Nat, s.broken \in Nat, s.baseline \in Nat,
         s.verified + s.broken + s.baseline = k - 1,
         \/ v.verified = s.verified /\ v.broken = s.broken /\ v.baseline = s.baseline + 1
         \/ v.verified = s.verified /\ v.broken = s.broken + 1 /\ v.baseline = s.baseline
         \/ v.verified = s.verified + 1 /\ v.broken = s.broken /\ v.baseline = s.baseline
  PROVE  v.verified + v.broken + v.baseline = k
OBVIOUS

\* One turn of the loop: a judgement that was right stays right.
LEMMA TurnRight ==
  ASSUME NEW n \in Nat, NEW seg \in [1 .. n -> Received], NEW i \in 1 .. n, NEW s,
         RightUpTo(seg, s, i - 1)
  PROVE  RightUpTo(seg, Judge([s EXCEPT !.at = i], seg[i]), i)
<1> DEFINE t == [s EXCEPT !.at = i]
           r == seg[i]
           v == Judge(t, r)
<1>1. r \in Received /\ s \in Judgement
  BY Zenon DEF RightUpTo
<1>2. /\ t \in Judgement /\ t.at = i /\ t.anchor = s.anchor /\ t.verified = s.verified
      /\ t.broken = s.broken /\ t.baseline = s.baseline /\ t.first = s.first
  BY <1>1 DEF Judgement
<1>3. \A j \in 1 .. n : /\ seg[j].id \in Nat /\ seg[j].id > 0
                        /\ seg[j].intact \in BOOLEAN /\ seg[j].chained \in BOOLEAN
  BY Zenon, ReceivedType
<1> HIDE DEF t, v
<1>4. /\ v \in Judgement
      /\ ~r.chained =>
           /\ v.anchor = NoAnchor /\ v.verified = s.verified /\ v.broken = s.broken
           /\ v.baseline = s.baseline + 1 /\ v.first = s.first
      /\ r.chained /\ Hit(s, r) =>
           /\ v.anchor = NoAnchor /\ v.verified = s.verified /\ v.broken = s.broken + 1
           /\ v.baseline = s.baseline /\ v.first = IF s.first = 0 THEN i ELSE s.first
      /\ r.chained /\ ~Hit(s, r) =>
           /\ v.anchor = r.id /\ v.verified = s.verified + 1 /\ v.broken = s.broken
           /\ v.baseline = s.baseline /\ v.first = s.first
  <2>1. Hit(t, r) <=> Hit(s, r)
    BY Zenon, <1>2 DEF Hit
  <2>2. v = Judge(t, r)
    BY Zenon DEF v
  <2>3. Turns(t, r, v)
    BY <1>1, <1>2, <2>2, JudgeTurn, Zenon
  <2>4. QED
    BY <1>2, <2>1, <2>3, Zenon DEF Turns
<1>5. s.broken = 0 => (Bad(seg, i) <=> r.chained /\ Hit(s, r))
  <2>1. SUFFICES ASSUME s.broken = 0, r.chained, r.intact
                 PROVE  Mislinked(seg, i) <=> Hit(s, r)
    BY Zenon, <1>3 DEF Bad, Hit, Mislinked
  <2>2. CASE i > 1 /\ seg[i - 1].chained
    <3>1. i - 1 \in 1 .. n /\ s.anchor = seg[i - 1].id /\ ~Bad(seg, i - 1)
      BY <2>1, <2>2 DEF RightUpTo
    <3>2. seg[i - 1].intact
      BY Zenon, <1>3, <2>2, <3>1 DEF Bad
    <3>3. seg[i - 1].id \in Nat /\ r.id \in Nat
      BY Zenon, <1>3, <3>1
    <3>4. QED
      BY <2>1, <2>2, <3>1, <3>2, <3>3 DEF Mislinked, Hit, PrevHash, NoAnchor
  <2>3. CASE ~(i > 1 /\ seg[i - 1].chained)
    BY <2>1, <2>3 DEF RightUpTo, Mislinked, Hit
  <2>4. QED
    BY Zenon, <2>2, <2>3
<1>6. s.verified \in Nat /\ s.broken \in Nat /\ s.baseline \in Nat /\ s.first \in Nat
      /\ v.verified \in Nat /\ v.broken \in Nat /\ v.baseline \in Nat /\ v.first \in Nat
      /\ s.verified + s.broken + s.baseline = i - 1
  BY Zenon, <1>1, <1>4 DEF Judgement, RightUpTo
<1>7. v.verified + v.broken + v.baseline = i
  <2>1. \/ v.verified = s.verified /\ v.broken = s.broken /\ v.baseline = s.baseline + 1
        \/ v.verified = s.verified /\ v.broken = s.broken + 1 /\ v.baseline = s.baseline
        \/ v.verified = s.verified + 1 /\ v.broken = s.broken /\ v.baseline = s.baseline
    BY <1>4, Zenon
  <2>2. i \in Int
    OBVIOUS
  <2>3. QED
    BY <1>6, <2>1, <2>2, Counted, Zenon
<1>8. ASSUME v.broken = 0
      PROVE  /\ v.first = 0 /\ \A j \in 1 .. i : ~Bad(seg, j)
             /\ v.anchor = IF i > 0 /\ r.chained THEN r.id ELSE NoAnchor
  <2>1. s.broken = 0 /\ ~(r.chained /\ Hit(s, r))
    <3>1. /\ v.broken = s.broken \/ v.broken = s.broken + 1
          /\ r.chained /\ Hit(s, r) => v.broken = s.broken + 1
      BY <1>4, Zenon
    <3>2. s.broken \in Nat
      BY <1>1 DEF Judgement
    <3>3. s.broken = 0 /\ v.broken # s.broken + 1
      BY <1>8, <3>1, <3>2
    <3>4. QED
      BY <3>1, <3>3, Zenon
  <2>2. s.first = 0 /\ \A j \in 1 .. i - 1 : ~Bad(seg, j)
    BY Zenon, <2>1 DEF RightUpTo
  <2>3. ~Bad(seg, i)
    BY Zenon, <1>5, <2>1
  <2>4. \A j \in 1 .. i : ~Bad(seg, j)
    BY <2>2, <2>3
  <2>5. QED
    BY <1>3, <1>4, <2>1, <2>2, <2>4
<1>9. ASSUME v.broken > 0
      PROVE  v.first \in 1 .. i /\ Bad(seg, v.first)
             /\ \A j \in 1 .. i : Bad(seg, j) => v.first <= j
  <2>1. CASE s.broken = 0
    <3>1. r.chained /\ Hit(s, r)
      BY <1>3, <1>4, <1>6, <1>9, <2>1
    <3>2. s.first = 0 /\ \A j \in 1 .. i - 1 : ~Bad(seg, j)
      BY Zenon, <2>1 DEF RightUpTo
    <3>3. v.first = i /\ Bad(seg, i)
      BY Zenon, <1>4, <1>5, <2>1, <3>1, <3>2
    <3>4. QED
      BY <3>2, <3>3
  <2>2. CASE s.broken > 0
    <3>1. s.first \in 1 .. i - 1 /\ Bad(seg, s.first)
          /\ \A j \in 1 .. i - 1 : Bad(seg, j) => s.first <= j
      BY Zenon, <2>2 DEF RightUpTo
    <3>2. v.first = s.first
      BY <1>3, <1>4, <3>1
    <3>3. QED
      BY <3>1, <3>2
  <2>3. QED
    BY <1>6, <2>1, <2>2
<1>10. RightUpTo(seg, v, i)
  BY <1>4, <1>7, <1>8, <1>9 DEF RightUpTo
<1>11. QED
  BY Zenon, <1>10 DEF v, t

\* So the last judgement is right about the whole segment.
LEMMA LoopRight ==
  ASSUME NEW n \in Nat, NEW seg \in [1 .. n -> Received], NEW f, Runs(seg, f, n)
  PROVE  RightUpTo(seg, f[n], n)
<1> DEFINE T == {k \in 0 .. n : ~RightUpTo(seg, f[k], k)}
<1>1. SUFFICES ASSUME T # {} PROVE FALSE
  OBVIOUS
<1>2. PICK k \in T : \A m \in T : k <= m
  <2> T \subseteq Nat  OBVIOUS
  <2> HIDE DEF T
  <2> QED BY <1>1, Least, Zenon
<1>3. f[k] = Turn(seg, f, k)
  BY Zenon DEF Runs
<1>4. CASE k = 0
  BY <1>2, <1>3, <1>4 DEF Turn, Unjudged, RightUpTo, Judgement, NoAnchor
<1>5. CASE k # 0
  <2>1. k \in 1 .. n /\ RightUpTo(seg, f[k - 1], k - 1)
    BY <1>2, <1>5
  <2>2. RightUpTo(seg, Judge([f[k - 1] EXCEPT !.at = k], seg[k]), k)
    BY Zenon, <2>1, TurnRight
  <2>3. QED
    BY Zenon, <1>2, <1>3, <1>5, <2>2 DEF Turn
<1>6. QED
  BY Zenon, <1>4, <1>5

\* verify_chain_segment agrees with the reference on segments of any length.
LEMMA SegmentRight ==
  ASSUME NEW n \in Nat, NEW seg \in [1 .. n -> Received]
  PROVE  JudgedRight(seg, VerifySegment(seg))
<1>1. Len(seg) = n
  OBVIOUS
<1>2. PICK f : Runs(seg, f, n) /\ VerifySegment(seg) = f[n]
  BY Zenon, <1>1, LoopOf
<1> DEFINE v == VerifySegment(seg)
           B == {i \in 1 .. Len(seg) : (seg[i].chained /\ ~seg[i].intact) \/ Mislinked(seg, i)}
<1>3. RightUpTo(seg, v, n)
  BY Zenon, <1>2, LoopRight
<1>4. \A i \in 1 .. n : i \in B <=> Bad(seg, i)
  BY Zenon, <1>1 DEF Bad
<1>5. B \subseteq 1 .. n
  BY Zenon, <1>1
<1> HIDE DEF v, B
<1>6. v.broken \in Nat /\ v.verified \in Nat /\ v.baseline \in Nat
  BY Zenon, <1>3 DEF RightUpTo, Judgement
<1>7. CASE v.broken = 0
  <2>1. B = {}
    BY Zenon, <1>3, <1>4, <1>5, <1>7 DEF RightUpTo
  <2>2. QED
    BY <1>1, <1>3, <1>6, <1>7, <2>1 DEF JudgedRight, RightUpTo, B, v
<1>8. CASE v.broken > 0
  <2>1. v.first \in B /\ \A j \in B : v.first <= j
    BY Zenon, <1>3, <1>4, <1>5, <1>8 DEF RightUpTo
  <2>2. v.first = CHOOSE i \in B : \A j \in B : i <= j
    <3> DEFINE w == CHOOSE i \in B : \A j \in B : i <= j
    <3>1. w \in B /\ \A j \in B : w <= j
      BY Zenon, <2>1
    <3> HIDE DEF w
    <3>2. w <= v.first /\ v.first <= w
      BY <2>1, <3>1, Zenon
    <3>3. w \in 1 .. n /\ v.first \in 1 .. n
      BY <1>5, <2>1, <3>1, Zenon
    <3>4. v.first = w
      BY <3>2, <3>3
    <3>5. QED
      BY Zenon, <3>4 DEF w
  <2>3. v.broken <= n /\ v.verified + v.broken + v.baseline = n
    BY <1>3, <1>6 DEF RightUpTo
  <2>4. (v.broken > 0 <=> B # {}) /\ v.first = IF B = {} THEN 0 ELSE CHOOSE i \in B : \A j \in B : i <= j
    BY Zenon, <1>8, <2>1, <2>2
  <2>5. QED
    BY <1>1, <2>3, <2>4, Zenon DEF JudgedRight, B, v
<1>9. QED
  BY <1>6, <1>7, <1>8

\* A handler that ends, or goes on with another method, leaves no verdict.
LEMMA JudgedElsewhere ==
  ASSUME TypeOK, SegmentsJudged, NEW a \in Conns,
         \/ Done(a)
         \/ req[a].method # "fetch" /\ \E l, o : Goto(a, l, o)
  PROVE  SegmentsJudged'
<1>1. \A c \in Conns : c # a => pc'[c] = pc[c] /\ req'[c] = req[c] /\ out'[c] = out[c]
  BY Zenon DEF Done, Goto, TypeOK
<1>2. pc'[a] = "idle" \/ req'[a].method # "fetch"
  BY Zenon DEF Done, Goto, TypeOK
<1>3. ASSUME NEW c \in Conns, pc'[c] = "running", req'[c].method = "fetch"
      PROVE  JudgedRight(out'[c].seg, out'[c].verdict)
  <2>1. c # a
    BY Zenon, <1>2, <1>3
  <2>2. QED
    BY <1>1, <1>3, <2>1, Zenon DEF SegmentsJudged
<1>4. QED
  BY <1>3, Zenon DEF SegmentsJudged

\* Every step keeps the verdicts of the segments that are being answered right.
LEMMA JudgedNext == TypeOK /\ Identified /\ SegmentsJudged /\ [Next]_vars => SegmentsJudged'
<1> SUFFICES ASSUME TypeOK, Identified, SegmentsJudged, [Next]_vars PROVE SegmentsJudged'
  BY Zenon
<1>e. env.conns \subseteq Conns
  BY Zenon, AccessAssumption DEF TypeOK, Environment
<1>1. CASE UNCHANGED task
  BY Zenon, <1>1 DEF SegmentsJudged, task
<1>2. CASE Stop
  BY <1>2 DEF Stop, SegmentsJudged
<1>3. ASSUME NEW a \in Conns, Fetch(a) PROVE SegmentsJudged'
  <2>1. PICK n \in 0 .. MaxSegment : \E seg \in [1 .. n -> Received] :
             Run(a, [seg |-> seg, verdict |-> VerifySegment(seg)])
    BY <1>3, Zenon DEF Fetch
  <2>2. PICK seg \in [1 .. n -> Received] :
             Run(a, [seg |-> seg, verdict |-> VerifySegment(seg)])
    BY Zenon, <2>1
  <2>3. /\ out'[a].seg = seg /\ out'[a].verdict = VerifySegment(seg) /\ req' = req
        /\ \A c \in Conns : c # a => pc'[c] = pc[c] /\ out'[c] = out[c]
    BY Zenon, <2>2 DEF Run, Goto, TypeOK
  <2>4. n \in Nat
    OBVIOUS
  <2>5. JudgedRight(out'[a].seg, out'[a].verdict)
    BY <2>3, <2>4, SegmentRight, Zenon
  <2>6. ASSUME NEW c \in Conns, pc'[c] = "running", req'[c].method = "fetch", c # a
        PROVE  JudgedRight(out'[c].seg, out'[c].verdict)
    BY <2>3, <2>6, Zenon DEF SegmentsJudged
  <2>7. QED
    BY <2>5, <2>6, Zenon DEF SegmentsJudged
<1>4. ASSUME NEW a \in Conns, Work(a), ~Fetch(a) PROVE SegmentsJudged'
  <2>1. CASE HandleScoped(a) \/ HandleVerify(a) \/ HandleRead(a)
    <3>1. Done(a) \/ (req[a].method # "fetch" /\ \E o : Run(a, o))
      BY <2>1 DEF HandleScoped, HandleVerify, HandleRead, Handling
    <3>2. QED
      BY <3>1, JudgedElsewhere, Zenon DEF Run
  <2>2. CASE HandleMutate(a) \/ ClusterFails(a) \/ Answer(a)
    <3>1. Done(a) \/ (req[a].method # "fetch" /\ Run(a, Nil))
      BY Zenon, <2>2 DEF HandleMutate, ClusterFails, Answer, Handling
    <3>2. QED
      BY <3>1, JudgedElsewhere, Zenon DEF Run
  <2>3. CASE GetEpoch(a)
    <3>1. req[a].method # "fetch" /\ Goto(a, "got epoch", hub)
      BY Zenon, <2>3 DEF GetEpoch, Handling
    <3>2. QED
      BY <3>1, JudgedElsewhere, Zenon
  <2>4. CASE SyncEpoch(a) \/ Advance(a)
    <3>1. pc[a] \in {"got epoch", "advancing"} /\ \E l, o : Goto(a, l, o)
      BY <2>4, Zenon DEF SyncEpoch, Advance, Run
    <3>2. req[a].method # "fetch"
      BY Zenon, <3>1 DEF Identified, Cleared
    <3>3. QED
      BY <3>1, <3>2, JudgedElsewhere, Zenon
  <2>5. QED
    BY <1>4, <2>1, <2>2, <2>3, <2>4, Zenon DEF Work
<1>5. CASE Start \/ Serve \/ Mint \/ MasterRestarts \/ NodeAdvances \/ (\E i \in env.items : Provision(i))
           \/ (\E t \in env.rebound : Bind(Daemon, t) \/ Unbind(Daemon, t)) \/ UNCHANGED vars
  BY Zenon, <1>1, <1>5 DEF Start, Serve, Mint, MasterRestarts, NodeAdvances, Provision, Bind, Unbind, vars
<1>6. ASSUME NEW a \in Conns, NEW p, Accept(a, p) \/ Disconnect(a) PROVE SegmentsJudged'
  BY <1>1, <1>6 DEF Accept, Disconnect
<1>7. ASSUME NEW a \in Conns, NEW r, Dispatch(a, r) PROVE SegmentsJudged'
  <2>1. pc'[a] = "admitted" /\ out' = out
        /\ \A c \in Conns : c # a => pc'[c] = pc[c] /\ req'[c] = req[c]
    BY Zenon, <1>7 DEF Dispatch, TypeOK
  <2>2. ASSUME NEW c \in Conns, pc'[c] = "running", req'[c].method = "fetch"
        PROVE  JudgedRight(out'[c].seg, out'[c].verdict)
    <3>1. c # a
      BY Zenon, <2>1, <2>2
    <3>2. QED
      BY <2>1, <2>2, <3>1, Zenon DEF SegmentsJudged
  <2>3. QED
    BY <2>2, Zenon DEF SegmentsJudged
<1>8. QED
  BY <1>2, <1>3, <1>4, <1>5, <1>6, <1>7, <1>e, Zenon DEF Next

\* audit.fetch judges every segment of remote records as the reference says
\* (SegmentsJudged), however long it is and whatever was altered, dropped,
\* repeated or reordered in it.
THEOREM SegmentsAreJudged == Spec => []SegmentsJudged
<1>1. Init => SegmentsJudged
  BY Zenon DEF Init, SegmentsJudged
<1>2. QED
  BY <1>1, JudgedNext, IdentifiedInit, IdentifiedNext, TypeCorrect, PTL DEF Spec
=============================================================================
