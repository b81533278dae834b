---------------------------- MODULE MCTokenStore ----------------------------
EXTENDS TokenStore

CONSTANTS k1, n1, v1

\* Two tenants and two reveals at once about one token.
Foreign ==
  [tokens |-> {k1}, tenants |-> Tenants, revealers |-> Revealers, crashes |-> FALSE,
   faults |-> FALSE]

\* One thread reveals several tokens of a call, beside redact calls.
Flight ==
  [tokens |-> Tokens, tenants |-> {n1}, revealers |-> {v1}, crashes |-> FALSE,
   faults |-> FALSE]

\* Statements fail, and the process may die, during the reveals of one token.
Failing ==
  [tokens |-> {k1}, tenants |-> {n1}, revealers |-> Revealers, crashes |-> TRUE,
   faults |-> TRUE]

MCEnvironments == {Foreign, Flight, Failing}
=============================================================================
