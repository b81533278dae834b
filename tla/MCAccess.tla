------------------------------ MODULE MCAccess ------------------------------
EXTENDS Access

CONSTANTS s1, s2, s3, tb, c1

\* Every way to start, with nobody connecting.
Starts == [debug : BOOLEAN, macos : BOOLEAN, var : {"unset", "empty", s1},
           insecure : BOOLEAN, noSecret : BOOLEAN, faults : BOOLEAN,
           meddling : BOOLEAN, nodes : {FALSE}, conns : {{}}, peers : {{}}, requests : {{}},
           items : {{Nil, s2, "garbled"}}, rebound : {{}}]

\* A release daemon whose secret is in the environment.
Plain == [debug |-> FALSE, macos |-> FALSE, var |-> s1, insecure |-> TRUE,
          noSecret |-> FALSE, faults |-> FALSE, meddling |-> FALSE, nodes |-> FALSE,
          conns |-> Conns, peers |-> {Daemon}, requests |-> {}, items |-> {}, rebound |-> {}]

Ask(m, t, s) == [method |-> m, tenant |-> t, secret |-> s]

\* Callers of every kind, failing statements; the default binding comes and goes.
Callers ==
  [Plain EXCEPT !.peers = PeerUid, !.faults = TRUE, !.rebound = {Default},
                !.requests = {Ask("ping", Nil, Nil), Ask("scoped", Nil, s2),
                              Ask("mutate", Nil, s1), Ask("read", Nil, s1)}]

\* Bindings of two tenants come and go below open connections.
Rebinding ==
  [Plain EXCEPT !.rebound = Tenants,
                !.requests = {Ask("scoped", Nil, s1), Ask("scoped", tb, s1),
                              Ask("verify", Nil, s1), Ask("verify", tb, s1)}]

\* Root changes rules and synchronises epochs, alone or beside other nodes.
Syncs == {[Plain EXCEPT !.peers = {Root}, !.nodes = n,
                        !.requests = {Ask("mutate", Nil, s1), Ask("sync", Nil, s1)}]
          : n \in BOOLEAN}

\* One connection asks for remote audit records.
Fetching == [Plain EXCEPT !.conns = {c1}, !.requests = {Ask("fetch", Nil, s1)}]

MCEnvironments == Starts \cup {Callers, Rebinding, Fetching} \cup Syncs
=============================================================================
