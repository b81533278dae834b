---------------------------- MODULE MCAuditChain ----------------------------
(* AuditChain for TLC: e2 is an event of tenant tb, the others of ta.       *)
EXTENDS AuditChain, TLC

CONSTANTS ta, tb, e1, e2, e3, e4

MCTenantOf == [e \in Events |-> IF e = e2 THEN tb ELSE ta]

\* Nothing fails and nothing is archived; the clock stands still.
Calm(threads, high, low) ==
  [threads |-> threads, high |-> high, low |-> low, scopes |-> {Everyone},
   rotates |-> FALSE, altered |-> {}, faults |-> FALSE, crashes |-> FALSE, end |-> 0]

\* One thread appends, rotates and verifies over three seconds.
SequentialRotation(t) ==
  [Calm({t}, {e1, e2, e3}, {}) EXCEPT !.rotates = TRUE, !.scopes = Scopes, !.end = MaxSec]

\* One thread rotates beside the drain, and writes fail.
DrainRotation(t) ==
  [Calm({t}, {e3, e4}, {e1, e2}) EXCEPT !.rotates = TRUE, !.scopes = {}, !.faults = TRUE]

\* All threads and the drain append and verify; writes fail, the process dies.
Writers ==
  [Calm(Threads, {e2, e3}, {e1}) EXCEPT !.scopes = Scopes, !.faults = TRUE, !.crashes = TRUE]

\* All threads and the drain append, rotate and verify; with fewer events the
\* process dies as well.
RotatingWriters == [Calm(Threads, {e2, e3}, {e1}) EXCEPT !.rotates = TRUE]
DyingRotations == [RotatingWriters EXCEPT !.high = {e2}, !.crashes = TRUE]

\* Stored rows change while all tenants are verified.
Alterations == [Calm(Threads, {e2, e3}, {e1}) EXCEPT !.altered = Events, !.crashes = TRUE]

MCEnvironments ==
  {SequentialRotation(t) : t \in Threads} \cup {DrainRotation(t) : t \in Threads}
    \cup {Writers, RotatingWriters, DyingRotations, Alterations}

\* A drain that writes while the only thread rotates, and nothing else.
DrainBesideRotation ==
  {[Calm({t}, {e3, e4}, {e1, e2}) EXCEPT !.rotates = TRUE] : t \in Threads}

\* The threads run the same code, and the environments are closed under
\* exchanging them.
MCSymmetry == Permutations(Threads)
=============================================================================
