--------------------------- MODULE MCKeyLifecycle ---------------------------
EXTENDS KeyLifecycle

CONSTANTS a, b, c

\* The Keychain item may be lost and restored from escrow, versions are rotated
\* and rows altered.
Losing ==
  [fresh |-> {a, b}, envKeys |-> {}, losses |-> TRUE, replaces |-> FALSE,
   faults |-> FALSE, archives |-> FALSE, altered |-> TRUE, versions |-> 3,
   rows |-> 3, tokens |-> TRUE, lines |-> {}]

\* The same, shorter, with a side chain and an archive of audit_events.
Archiving ==
  [Losing EXCEPT !.archives = TRUE, !.versions = 2, !.rows = 1, !.lines = {"table"}]

\* Three masters: the item is replaced, and a mint does not see what is stored.
Replacing ==
  [Archiving EXCEPT !.fresh = {a, b, c}, !.replaces = TRUE, !.faults = TRUE,
                    !.altered = FALSE, !.tokens = FALSE,
                    !.lines = {"file"}]

\* All chains, and the operator sets and unsets a key in the environment.
Overridden ==
  [Archiving EXCEPT !.fresh = {a}, !.envKeys = {b}, !.altered = FALSE,
                    !.tokens = FALSE, !.lines = Chains]

MCSites == {Losing, Archiving, Replacing, Overridden}
=============================================================================
