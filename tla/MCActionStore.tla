---------------------------- MODULE MCActionStore ---------------------------
EXTENDS ActionStore

\* Statements succeed, commits are atomic; the risk column is altered.
Altered == [alterable |-> Actions, faults |-> FALSE, split |-> FALSE, end |-> MaxTime]

\* Statements fail.
Faulty == [alterable |-> {}, faults |-> TRUE, split |-> FALSE, end |-> 2]

\* Statements fail, and commits may be split.
Torn == [Faulty EXCEPT !.split = TRUE]

MCEnvironments == {Altered, Faulty, Torn}

\* One caller, no failing statement, a crash between the commits.
MCSplit == {[Torn EXCEPT !.faults = FALSE]}
=============================================================================
