---------------------------- MODULE MCIpcServer -----------------------------
EXTENDS IpcServer

CONSTANTS c1, c2

\* One client calls methods of the given kinds.
Alone(kinds) == [c \in Clients |-> IF c = c1 THEN kinds ELSE {}]

\* Calls of one client, repeated on a fresh stream while the server still works
\* on the abandoned one; the daemon may die.
Retries(slots) == [kinds |-> Alone(BOOLEAN), calls |-> 1, slots |-> slots, crashes |-> TRUE]

\* A second call on the stream that the first has left.
TwoCalls == [kinds |-> Alone({TRUE}), calls |-> 2, slots |-> 1, crashes |-> FALSE]

\* Two clients, one with a slow and one with a fast method.
TwoClients ==
  [kinds |-> [c \in Clients |-> {c = c1}], calls |-> 1, slots |-> 1, crashes |-> FALSE]

MCEnvironments == {Retries(1), Retries(2), TwoCalls, TwoClients}
=============================================================================
