----------------------------- MODULE MCRuleStore ----------------------------
EXTENDS RuleStore

CONSTANTS c1, c2, v1

MCSeed == [name |-> 1, pat |-> "p"]

Adds == [kind : {"add"}, rule : Rule]
Updates == [kind : {"update"}, name : Names, rule : Rule]
Removes == [kind : {"remove"}, name : Names]

\* Enough to reach every order of two concurrent mutations.
FewRequests ==
  {[kind |-> "add", rule |-> [name |-> 2, pat |-> "q"]],
   [kind |-> "update", name |-> 1, rule |-> [name |-> 2, pat |-> "p"]],
   [kind |-> "update", name |-> 2, rule |-> [name |-> 2, pat |-> "bad"]],
   [kind |-> "remove", name |-> 1]}

\* One thread serves every mutation that the engine will accept.
Orderly ==
  [admins |-> {c1}, evaluators |-> {}, requests |-> Adds \cup Updates \cup Removes,
   careful |-> TRUE, stops |-> "clean", faults |-> FALSE, end |-> 4]

\* The same with crashes; the pattern "p" suffices.
Crashing ==
  [Orderly EXCEPT !.stops = "crash",
                  !.requests = {q \in @ : q.kind = "remove" \/ q.rule.pat # "q"}]

\* Two threads serve mutations, refused ones included, beside an evaluation.
Concurrent ==
  [admins |-> {c1, c2}, evaluators |-> {v1}, requests |-> FewRequests,
   careful |-> FALSE, stops |-> "never", faults |-> FALSE, end |-> 3]

\* One thread serves adds, refused ones included; with and without faults.
RefusedAdds ==
  [admins |-> {c1}, evaluators |-> {}, requests |-> Adds, careful |-> FALSE,
   stops |-> "never", faults |-> FALSE, end |-> 3]
FailingAdds == [RefusedAdds EXCEPT !.faults = TRUE]

\* The writes of a first start may fail, and it is tried again.
FailingSeeds ==
  [FailingAdds EXCEPT !.requests = {[kind |-> "add", rule |-> [name |-> 2, pat |-> "q"]]},
                      !.stops = "crash", !.end = 2]

MCEnvironments == {Orderly, Crashing, Concurrent, FailingAdds, FailingSeeds}
RefusedAddsOnly == {RefusedAdds}
=============================================================================
