--------------------------- MODULE MCAuditIngest ----------------------------
EXTENDS AuditIngest

CONSTANTS t1, e1, e2, e3, e4

\* Two threads fill the queue while inserts fail.
Delivery ==
  [threads |-> Threads, events |-> {e1, e2, e3, e4}, inserts |-> TRUE, files |-> FALSE,
   reimports |-> FALSE, crashes |-> FALSE]

\* Everything else may fail as well.
Overload == [Delivery EXCEPT !.files = TRUE, !.crashes = TRUE]

\* Reimports run beside the drain and the other thread, and anything may fail.
Race == [Overload EXCEPT !.reimports = TRUE, !.events = {e1, e2, e3}]

\* The only thread appends and reimports, and nothing fails.
Reimporting ==
  [Delivery EXCEPT !.threads = {t1}, !.events = Events, !.inserts = FALSE, !.reimports = TRUE]

MCEnvironments == {Delivery, Overload, Race, Reimporting}
=============================================================================
