-------------------------- MODULE ActionStoreProofs -------------------------
(***************************************************************************)
(* Proofs about ActionStore, for any sets of actions, callers and tenants  *)
(* and any TTL.  Safe is inductive whatever crashes and faults do; Once    *)
(* needs the commit of the two database files not to be split.             *)
(***************************************************************************)
EXTENDS ActionStore, TLAPS

InTx(c) == pc[c] \in {"commit audit", "commit action"}

\* What a call has passed stays true while it holds the locks.
Held ==
  \A c \in Callers : InTx(c) =>
    LET a == call[c].action IN
    /\ a \in live
    /\ row[a].tenant = call[c].tenant /\ row[a].json # "L4"

\* Between the two commits the audit row is there.
Recorded == \A c \in Callers : pc[c] = "commit action" => decided[call[c].action] # << >>

\* An action has no history before it is put, and no row after its eviction.
Pristine ==
  /\ \A a \in Actions \ issued : decided[a] = << >>
  /\ live \cap evicted = {}

Safe == Held /\ Recorded /\ Pristine
        /\ NoUnauditedConsumption /\ DecisionsAuthorised /\ EvictedStaysUndecided

\* A call in its transaction is the first to decide its action.
First == \A c \in Callers : pc[c] = "commit audit" => decided[call[c].action] = << >>

\* A decided action is consumed, or about to be.
Settled ==
  \A a \in live : decided[a] # << >> =>
    row[a].consumed \/ \E c \in Callers : pc[c] = "commit action" /\ call[c].action = a

Once == OneDecision /\ First /\ Settled

\* The default row is a row.
LEMMA NoRowType == NoRow \in Row
<1>1. (CHOOSE u \in Tenants : TRUE) \in Tenants
  BY ActionAssumption
<1>2. 0 \in 0 .. MaxTime
  BY ActionAssumption
<1>3. QED
  BY <1>1, <1>2 DEF NoRow, Row, Risks

\* A call is not the empty call.
LEMMA NoCallIsNoCall == NoCall \notin Calls
  BY ActionAssumption DEF NoCall, Calls

\* The initial state has the types of TypeOK.
LEMMA TypeInit == Init => TypeOK
  BY NoRowType, NoCallIsNoCall, ActionAssumption DEF Init, TypeOK, DbType, CallerType, LockType

\* A call that is let through names a stored action of its own tenant that is
\* neither L4 nor consumed.
LEMMA PassedChecks ==
  ASSUME NEW k, Refusal(k) = "none"
  PROVE  /\ k.action \in live
         /\ row[k.action].tenant = k.tenant
         /\ row[k.action].json # "L4"
         /\ ~row[k.action].consumed
  BY DEF Refusal

\* Every refusal is an ActionError.
LEMMA RefusalType == ASSUME NEW k PROVE Refusal(k) \in ActionError \cup {"none"}
  BY DEF Refusal, ActionError

\* Every step keeps the types of TypeOK.
LEMMA TypeNext == TypeOK /\ [Next]_vars => TypeOK'
<1> SUFFICES ASSUME TypeOK, [Next]_vars PROVE TypeOK'
  OBVIOUS
<1> USE ActionAssumption, NoCallIsNoCall
<1>t. DbType /\ CallerType /\ LockType
  BY DEF TypeOK
<1>e. env \in Environments /\ env' = env
  BY DEF TypeOK, Next, vars
<1>z. 0 \in 0 .. MaxTime
  OBVIOUS
<1>1. ASSUME NEW a \in Actions, NEW r \in Risks, NEW u \in Tenants, Put(a, r, u) PROVE TypeOK'
  <2>1. DbType'
    <3>1. PICK t \in 0 .. clock :
            row' = [row EXCEPT ![a] = [risk |-> r, json |-> r, tenant |-> u,
                                       created |-> t, consumed |-> FALSE]]
      BY <1>1 DEF Put
    <3>2. clock \in 0 .. MaxTime
      BY <1>t DEF DbType
    <3>3. t \in 0 .. MaxTime
      BY <3>1, <3>2
    <3>4. row' \in [Actions -> Row]
      BY <1>t, <3>1, <3>3 DEF DbType, Row
    <3>5. QED
      BY <1>1, <1>t, <3>4 DEF Put, DbType
  <2>2. CallerType'
    BY <1>1, <1>t DEF Put, CallerType, caller
  <2>3. LockType'
    BY <1>1, <1>t DEF Put, LockType, caller
  <2>4. QED
    BY <1>e, <2>1, <2>2, <2>3 DEF TypeOK
<1>2. ASSUME NEW c \in Callers, NEW k \in Calls, Confirm(c, k) PROVE TypeOK'
  <2>1. DbType'
    BY <1>2, <1>t DEF Confirm, DbType, db, history
  <2>2. CallerType'
    BY <1>2, <1>t DEF Confirm, CallerType, DbType
  <2>3. LockType'
    BY <1>2, <1>t DEF Confirm, LockType, CallerType
  <2>4. QED
    BY <1>e, <2>1, <2>2, <2>3 DEF TypeOK
<1>3. ASSUME NEW c \in Callers, Evict(c) PROVE TypeOK'
  <2>1. DbType'
    BY <1>3, <1>t DEF Evict, DbType
  <2>2. CallerType'
    BY <1>3, <1>t, <1>z DEF Evict, CallerType
  <2>3. LockType'
    BY <1>3, <1>t DEF Evict, LockType, CallerType
  <2>4. QED
    BY <1>e, <2>1, <2>2, <2>3 DEF TypeOK
<1>4. ASSUME NEW c \in Callers, EvictFails(c) PROVE TypeOK'
  <2>1. DbType'
    BY <1>4, <1>t DEF EvictFails, DbType, db, history
  <2>2. CallerType'
    BY <1>4, <1>t, <1>z DEF EvictFails, CallerType
  <2>3. LockType'
    BY <1>4, <1>t DEF EvictFails, LockType, CallerType
  <2>4. QED
    BY <1>e, <2>1, <2>2, <2>3 DEF TypeOK
<1>5. ASSUME NEW c \in Callers, Refuse(c) PROVE TypeOK'
  <2>1. DbType'
    BY <1>5, <1>t DEF Refuse, DbType, db, history
  <2>2. CallerType'
    <3>1. Refusal(call[c]) \in ActionError
      BY <1>5, RefusalType DEF Refuse
    <3>2. QED
      BY <1>5, <1>t, <3>1 DEF Refuse, Answer, CallerType
  <2>3. LockType'
    BY <1>5, <1>t DEF Refuse, Answer, LockType, CallerType
  <2>4. QED
    BY <1>e, <2>1, <2>2, <2>3 DEF TypeOK
<1>6. ASSUME NEW c \in Callers, Begin(c) PROVE TypeOK'
  <2>1. DbType'
    BY <1>6, <1>t DEF Begin, DbType, db, history
  <2>2. CallerType'
    BY <1>6, <1>t DEF Begin, CallerType
  <2>3. LockType'
    BY <1>6, <1>t DEF Begin, LockType, CallerType
  <2>4. QED
    BY <1>e, <2>1, <2>2, <2>3 DEF TypeOK
<1>7. ASSUME NEW c \in Callers, Fail(c) PROVE TypeOK'
  <2>1. DbType'
    BY <1>7, <1>t DEF Fail, DbType, db, history
  <2>2. CallerType'
    BY <1>7, <1>t DEF Fail, Answer, CallerType, ActionError
  <2>3. LockType'
    BY <1>7, <1>t DEF Fail, Answer, LockType, CallerType
  <2>4. QED
    BY <1>e, <2>1, <2>2, <2>3 DEF TypeOK
<1>8. ASSUME NEW c \in Callers, CommitAudit(c) PROVE TypeOK'
  <2>1. DbType'
    <3>1. call[c] \in Calls
      BY <1>8, <1>t DEF CommitAudit, CallerType
    <3>2. DEFINE a == call[c].action
                 d == [outcome |-> call[c].outcome, tenant |-> call[c].tenant]
                 D == [outcome : Outcomes, tenant : Tenants]
    <3>3. a \in Actions /\ d \in D
      BY <3>1 DEF Calls
    <3>4. decided \in [Actions -> Seq(D)] /\ decided' = [decided EXCEPT ![a] = Append(decided[a], d)]
      BY <1>8, <1>t DEF CommitAudit, DbType
    <3> HIDE DEF a, d, D
    <3>5. Append(decided[a], d) \in Seq(D)
      BY <3>3, <3>4
    <3>6. decided' \in [Actions -> Seq(D)]
      BY <3>3, <3>4, <3>5
    <3>7. QED
      BY <1>8, <1>t, <3>6 DEF CommitAudit, DbType, history, D
  <2>2. CallerType'
    BY <1>8, <1>t DEF CommitAudit, CallerType
  <2>3. LockType'
    BY <1>8, <1>t DEF CommitAudit, LockType, CallerType
  <2>4. QED
    BY <1>e, <2>1, <2>2, <2>3 DEF TypeOK
<1>9. ASSUME NEW c \in Callers, CommitAction(c) PROVE TypeOK'
  <2>1. DbType'
    <3>1. call[c] \in Calls
      BY <1>9, <1>t DEF CommitAction, CallerType
    <3>2. DEFINE a == call[c].action
                 r == [row[a] EXCEPT !.consumed = TRUE]
    <3>3. a \in Actions
      BY <3>1 DEF Calls
    <3>4. row \in [Actions -> Row] /\ row' = [row EXCEPT ![a] = r]
      BY <1>9, <1>t DEF CommitAction, DbType
    <3>5. r \in Row
      BY <3>3, <3>4 DEF Row
    <3> HIDE DEF a, r
    <3>6. row' \in [Actions -> Row]
      BY <3>3, <3>4, <3>5
    <3>7. QED
      BY <1>9, <1>t, <3>6 DEF CommitAction, DbType, history
  <2>2. CallerType'
    <3>1. call[c] \in Calls
      BY <1>9, <1>t DEF CommitAction, CallerType
    <3>2. call[c].outcome \in Outcomes
      BY <3>1 DEF Calls
    <3>3. QED
      BY <1>9, <1>t, <3>2 DEF CommitAction, Answer, CallerType
  <2>3. LockType'
    BY <1>9, <1>t DEF CommitAction, Answer, LockType, CallerType
  <2>4. QED
    BY <1>e, <2>1, <2>2, <2>3 DEF TypeOK
<1>10. ASSUME NEW c \in Callers, CommitActionFails(c) PROVE TypeOK'
  <2>1. DbType'
    BY <1>10, <1>t DEF CommitActionFails, DbType, db, history
  <2>2. CallerType'
    BY <1>10, <1>t DEF CommitActionFails, Answer, CallerType, ActionError
  <2>3. LockType'
    BY <1>10, <1>t DEF CommitActionFails, Answer, LockType, CallerType
  <2>4. QED
    BY <1>e, <2>1, <2>2, <2>3 DEF TypeOK
<1>11. CASE Tick
  <2>1. DbType'
    <3>1. env.end \in 0 .. MaxTime
      BY <1>e DEF Environment
    <3>2. clock' \in 0 .. MaxTime
      BY <1>11, <1>t, <3>1 DEF Tick, DbType
    <3>3. QED
      BY <1>11, <1>t, <3>2 DEF Tick, DbType, db, history
  <2>2. CallerType'
    BY <1>11, <1>t DEF Tick, CallerType, caller
  <2>3. LockType'
    BY <1>11, <1>t DEF Tick, LockType, caller
  <2>4. QED
    BY <1>e, <2>1, <2>2, <2>3 DEF TypeOK
<1>12. ASSUME NEW a \in Actions, Alter(a) PROVE TypeOK'
  <2>1. DbType'
    <3>1. PICK r \in Risks : row' = [row EXCEPT ![a].risk = r]
      BY <1>12 DEF Alter
    <3>2. DEFINE q == [row[a] EXCEPT !.risk = r]
    <3>3. row \in [Actions -> Row] /\ row' = [row EXCEPT ![a] = q]
      BY <1>t, <3>1 DEF DbType
    <3>4. q \in Row
      BY <3>3 DEF Row
    <3> HIDE DEF q
    <3>5. row' \in [Actions -> Row]
      BY <3>3, <3>4
    <3>6. QED
      BY <1>12, <1>t, <3>5 DEF Alter, DbType, history
  <2>2. CallerType'
    BY <1>12, <1>t DEF Alter, CallerType, caller
  <2>3. LockType'
    BY <1>12, <1>t DEF Alter, LockType, caller
  <2>4. QED
    BY <1>e, <2>1, <2>2, <2>3 DEF TypeOK
<1>13. CASE Crash
  <2>1. DbType'
    BY <1>13, <1>t DEF Crash, DbType, db, history
  <2>2. CallerType'
    BY <1>13, <1>t, <1>z DEF Crash, CallerType
  <2>3. LockType'
    BY <1>13, <1>t DEF Crash, LockType
  <2>4. QED
    BY <1>e, <2>1, <2>2, <2>3 DEF TypeOK
<1>14. CASE UNCHANGED vars
  BY <1>14, <1>e, <1>t DEF vars, TypeOK, DbType, CallerType, LockType
<1>15. QED
  BY <1>1, <1>2, <1>3, <1>4, <1>5, <1>6, <1>7, <1>8, <1>9, <1>10, <1>11, <1>12, <1>13, <1>14
  DEF Next, Step

\* Rows, calls, replies and locks keep their types (TypeOK).
THEOREM TypeCorrect == Spec => []TypeOK
<1>1. QED
  BY TypeInit, TypeNext, PTL DEF Spec

-----------------------------------------------------------------------------
\* Nothing is decided, consumed or evicted at the start.
LEMMA SafeInit == Init => Safe
  BY NoRowType DEF Init, Safe, Held, InTx, Recorded, Pristine, NoUnauditedConsumption,
     DecisionsAuthorised, EvictedStaysUndecided, NoRow

\* Steps that leave the databases alone and put no caller in a transaction
\* keep Safe.
LEMMA SafeQuiet ==
  ASSUME TypeOK, Safe, UNCHANGED <<live, row, decided, issued, evicted>>,
         \A c \in Callers : pc'[c] \in {"commit audit", "commit action"} =>
            pc'[c] = pc[c] /\ call'[c] = call[c]
  PROVE  Safe'
<1>1. Held' /\ Recorded'
  BY DEF Safe, Held, InTx, Recorded
<1>2. Pristine' /\ NoUnauditedConsumption' /\ DecisionsAuthorised' /\ EvictedStaysUndecided'
  BY DEF Safe, Pristine, NoUnauditedConsumption, DecisionsAuthorised, EvictedStaysUndecided
<1>3. QED
  BY <1>1, <1>2 DEF Safe

\* Every step keeps Safe, with split commits and faults or without.
LEMMA SafeNext == TypeOK /\ Safe /\ [Next]_vars => Safe'
<1> SUFFICES ASSUME TypeOK, Safe, [Next]_vars PROVE Safe'
  OBVIOUS
<1> USE ActionAssumption
<1>t. DbType /\ CallerType /\ LockType
  BY DEF TypeOK
<1>s. Held /\ Recorded /\ Pristine
      /\ NoUnauditedConsumption /\ DecisionsAuthorised /\ EvictedStaysUndecided
  BY DEF Safe
<1>1. ASSUME NEW a \in Actions, NEW r \in Risks, NEW u \in Tenants, Put(a, r, u) PROVE Safe'
  <2>1. PICK t \in 0 .. clock :
          row' = [row EXCEPT ![a] = [risk |-> r, json |-> r, tenant |-> u,
                                     created |-> t, consumed |-> FALSE]]
    BY <1>1 DEF Put
  <2>2. /\ a \notin issued /\ a \notin live /\ a \notin evicted /\ decided[a] = << >>
        /\ live' = live \cup {a} /\ issued' = issued \cup {a}
        /\ UNCHANGED <<decided, pc, call, evicted>>
    BY <1>1, <1>t, <1>s DEF Put, DbType, Pristine, caller
  <2>3. \A b \in Actions : b # a => row'[b] = row[b]
    BY <2>1, <1>t DEF DbType
  <2>4. row'[a].consumed = FALSE
    BY <2>1, <1>t DEF DbType
  <2>5. Held'
    BY <1>s, <1>t, <2>2, <2>3 DEF Held, InTx, DbType
  <2>6. NoUnauditedConsumption'
    BY <1>s, <2>2, <2>3, <2>4 DEF NoUnauditedConsumption
  <2>7. Len(decided[a]) = 0
    BY <2>2
  <2>8. DecisionsAuthorised'
    BY <1>s, <2>2, <2>3, <2>7 DEF DecisionsAuthorised
  <2>9. Recorded' /\ Pristine' /\ EvictedStaysUndecided'
    BY <1>s, <2>2 DEF Recorded, Pristine, EvictedStaysUndecided
  <2>10. QED
    BY <2>5, <2>6, <2>8, <2>9 DEF Safe
<1>2. ASSUME NEW c \in Callers, NEW k \in Calls, Confirm(c, k) PROVE Safe'
  BY <1>2, <1>t, SafeQuiet DEF Confirm, CallerType, db, history
<1>3. ASSUME NEW c \in Callers, Evict(c) PROVE Safe'
  <2>1. \A d \in Callers : ~InTx(d) /\ ~InTx(d)'
    BY <1>3, <1>t DEF Evict, InTx, LockType, CallerType
  <2>2. Held' /\ Recorded'
    BY <2>1 DEF Held, Recorded, InTx
  <2>3. Pristine'
    BY <1>3, <1>t, <1>s DEF Evict, Pristine, DbType
  <2>4. EvictedStaysUndecided'
    BY <1>3, <1>s DEF Evict, EvictedStaysUndecided
  <2>5. NoUnauditedConsumption' /\ DecisionsAuthorised'
    BY <1>3, <1>s DEF Evict, NoUnauditedConsumption, DecisionsAuthorised
  <2>6. QED
    BY <2>2, <2>3, <2>4, <2>5 DEF Safe
<1>4. ASSUME NEW c \in Callers, EvictFails(c) PROVE Safe'
  BY <1>4, <1>t, SafeQuiet DEF EvictFails, CallerType, db, history
<1>5. ASSUME NEW c \in Callers, Refuse(c) PROVE Safe'
  BY <1>5, <1>t, SafeQuiet DEF Refuse, Answer, CallerType, db, history
<1>6. ASSUME NEW c \in Callers, Begin(c) PROVE Safe'
  <2>1. LET a == call[c].action IN
        a \in live /\ row[a].tenant = call[c].tenant /\ row[a].json # "L4"
    BY <1>6, PassedChecks DEF Begin
  <2>2. UNCHANGED <<live, row, decided, call, issued, evicted>>
    BY <1>6 DEF Begin, db, history
  <2>3. pc' = [pc EXCEPT ![c] = "commit audit"]
    BY <1>6 DEF Begin
  <2>4. Held'
    BY <1>s, <1>t, <2>1, <2>2, <2>3 DEF Held, InTx, CallerType
  <2>5. Recorded'
    BY <1>s, <1>t, <2>2, <2>3 DEF Recorded, CallerType
  <2>6. Pristine' /\ NoUnauditedConsumption' /\ DecisionsAuthorised' /\ EvictedStaysUndecided'
    BY <1>s, <2>2 DEF Pristine, NoUnauditedConsumption, DecisionsAuthorised, EvictedStaysUndecided
  <2>7. QED
    BY <2>4, <2>5, <2>6 DEF Safe
<1>7. ASSUME NEW c \in Callers, Fail(c) PROVE Safe'
  BY <1>7, <1>t, SafeQuiet DEF Fail, Answer, CallerType, db, history
<1>8. ASSUME NEW c \in Callers, CommitAudit(c) PROVE Safe'
  <2> DEFINE a == call[c].action
             d == [outcome |-> call[c].outcome, tenant |-> call[c].tenant]
  <2>1. call[c] \in Calls /\ a \in Actions
    BY <1>8, <1>t DEF CommitAudit, CallerType, Calls
  <2>2. a \in live /\ row[a].tenant = d.tenant /\ row[a].json # "L4"
    BY <1>8, <1>s DEF CommitAudit, Held, InTx
  <2>3. /\ decided' = [decided EXCEPT ![a] = Append(decided[a], d)]
        /\ pc' = [pc EXCEPT ![c] = "commit action"]
        /\ UNCHANGED <<live, row, call, issued, evicted>>
    BY <1>8 DEF CommitAudit, history
  <2>d. d \in [outcome : Outcomes, tenant : Tenants]
    BY <2>1 DEF Calls
  <2> HIDE DEF d
  <2>4. /\ decided[a] \in Seq([outcome : Outcomes, tenant : Tenants])
        /\ decided'[a] = Append(decided[a], d)
        /\ \A b \in Actions : b # a => decided'[b] = decided[b]
    BY <2>1, <2>3, <1>t DEF DbType
  <2>5. decided'[a] # << >>
    <3>1. Len(decided'[a]) = Len(decided[a]) + 1 /\ Len(decided[a]) \in Nat
      BY <2>4, <2>d
    <3>2. Len(<< >>) = 0
      OBVIOUS
    <3>3. QED
      BY <3>1, <3>2
  <2>6. \A i \in 1 .. Len(decided'[a]) :
           decided'[a][i] = IF i = Len(decided[a]) + 1 THEN d ELSE decided[a][i]
    BY <2>4, <2>d
  <2>7. Len(decided'[a]) = Len(decided[a]) + 1 /\ Len(decided[a]) \in Nat
    BY <2>4, <2>d
  <2>8. Held'
    BY <1>s, <1>t, <1>8, <2>3 DEF Held, InTx, CallerType, CommitAudit
  <2>9. Recorded'
    <3>1. SUFFICES ASSUME NEW e \in Callers, pc'[e] = "commit action"
                   PROVE  decided'[call[e].action] # << >>
      BY <2>3 DEF Recorded
    <3>2. writer = c /\ (e # c => writer = e)
      BY <1>8, <1>t, <2>3, <3>1 DEF LockType, CallerType, CommitAudit
    <3>3. QED
      BY <3>2, <2>5
  <2>10. Pristine'
    <3>1. a \in issued
      BY <1>t, <2>2 DEF DbType
    <3>2. \A b \in Actions \ issued' : decided'[b] = << >>
      BY <1>s, <2>3, <2>4, <3>1 DEF Pristine
    <3>3. live' \cap evicted' = {}
      BY <1>s, <2>3 DEF Pristine
    <3>4. QED
      BY <3>2, <3>3 DEF Pristine
  <2>11. NoUnauditedConsumption'
    BY <1>s, <2>3, <2>4, <2>5 DEF NoUnauditedConsumption
  <2>12. DecisionsAuthorised'
    <3>1. SUFFICES ASSUME NEW b \in Actions, NEW i \in 1 .. Len(decided'[b])
                   PROVE  decided'[b][i].tenant = row[b].tenant /\ row[b].json # "L4"
      BY <2>3 DEF DecisionsAuthorised
    <3>2. CASE b # a
      BY <1>s, <2>4, <3>1, <3>2 DEF DecisionsAuthorised
    <3>3. CASE b = a /\ i = Len(decided[a]) + 1
      BY <2>2, <2>6, <3>1, <3>3
    <3>4. CASE b = a /\ i # Len(decided[a]) + 1
      <4>1. i \in 1 .. Len(decided[a])
        BY <3>1, <3>4, <2>7
      <4>2. decided'[b][i] = decided[b][i]
        BY <2>6, <3>1, <3>4
      <4>3. decided[b][i].tenant = row[b].tenant /\ row[b].json # "L4"
        BY <1>s, <2>1, <3>4, <4>1 DEF DecisionsAuthorised
      <4>4. QED
        BY <4>2, <4>3
    <3>5. QED
      BY <3>2, <3>3, <3>4
  <2>13. EvictedStaysUndecided'
    BY <1>s, <1>t, <2>2, <2>3, <2>4 DEF EvictedStaysUndecided, Pristine, DbType
  <2>14. QED
    BY <2>8, <2>9, <2>10, <2>11, <2>12, <2>13 DEF Safe
<1>9. ASSUME NEW c \in Callers, CommitAction(c) PROVE Safe'
  <2> DEFINE a == call[c].action
             r == [row[a] EXCEPT !.consumed = TRUE]
  <2>1. a \in Actions
    BY <1>9, <1>t DEF CommitAction, CallerType, Calls
  <2>2. row' = [row EXCEPT ![a] = r] /\ UNCHANGED <<live, decided, issued, evicted>>
    BY <1>9 DEF CommitAction, history
  <2>3. row[a] \in Row /\ row \in [Actions -> Row]
    BY <2>1, <1>t DEF DbType
  <2>4. r.tenant = row[a].tenant /\ r.json = row[a].json
    BY <2>3 DEF Row
  <2> HIDE DEF r
  <2>5. \A b \in Actions : /\ row'[b].tenant = row[b].tenant /\ row'[b].json = row[b].json
                           /\ b # a => row'[b] = row[b]
    BY <2>1, <2>2, <2>3, <2>4
  <2>6. decided[a] # << >>
    BY <1>9, <1>s DEF CommitAction, Recorded
  <2>7. \A e \in Callers : ~InTx(e)'
    BY <1>9, <1>t DEF CommitAction, Answer, InTx, LockType, CallerType
  <2>8. Held' /\ Recorded'
    BY <2>7 DEF Held, Recorded, InTx
  <2>9. Pristine' /\ EvictedStaysUndecided'
    BY <1>s, <2>2 DEF Pristine, EvictedStaysUndecided
  <2>10. NoUnauditedConsumption'
    BY <1>s, <2>2, <2>5, <2>6 DEF NoUnauditedConsumption
  <2>11. DecisionsAuthorised'
    BY <1>s, <2>2, <2>5 DEF DecisionsAuthorised
  <2>12. QED
    BY <2>8, <2>9, <2>10, <2>11 DEF Safe
<1>10. ASSUME NEW c \in Callers, CommitActionFails(c) PROVE Safe'
  BY <1>10, <1>t, SafeQuiet DEF CommitActionFails, Answer, CallerType, db, history
<1>11. CASE Tick
  BY <1>11, SafeQuiet DEF Tick, db, caller, history
<1>12. ASSUME NEW a \in Actions, Alter(a) PROVE Safe'
  <2>1. PICK q \in Risks : row' = [row EXCEPT ![a].risk = q]
    BY <1>12 DEF Alter
  <2> DEFINE r == [row[a] EXCEPT !.risk = q]
  <2>2. row' = [row EXCEPT ![a] = r] /\ row[a] \in Row /\ row \in [Actions -> Row]
    BY <2>1, <1>t DEF DbType
  <2>3. r.tenant = row[a].tenant /\ r.json = row[a].json /\ r.consumed = row[a].consumed
    BY <2>2 DEF Row
  <2> HIDE DEF r
  <2>4. \A b \in Actions : /\ row'[b].tenant = row[b].tenant /\ row'[b].json = row[b].json
                           /\ row'[b].consumed = row[b].consumed
    BY <2>2, <2>3
  <2>5. UNCHANGED <<live, decided, pc, call, issued, evicted>>
    BY <1>12 DEF Alter, caller, history
  <2>6. Held'
    BY <1>s, <1>t, <2>4, <2>5 DEF Held, InTx, DbType
  <2>7. Recorded' /\ Pristine' /\ EvictedStaysUndecided'
    BY <1>s, <2>5 DEF Recorded, Pristine, EvictedStaysUndecided
  <2>8. NoUnauditedConsumption' /\ DecisionsAuthorised'
    BY <1>s, <2>4, <2>5 DEF NoUnauditedConsumption, DecisionsAuthorised
  <2>9. QED
    BY <2>6, <2>7, <2>8 DEF Safe
<1>13. CASE Crash
  BY <1>13, SafeQuiet DEF Crash, db, history
<1>14. CASE UNCHANGED vars
  BY <1>14, SafeQuiet DEF vars
<1>15. QED
  BY <1>1, <1>2, <1>3, <1>4, <1>5, <1>6, <1>7, <1>8, <1>9, <1>10, <1>11, <1>12, <1>13, <1>14
  DEF Next, Step

\* TypeOK and Safe hold in every reachable state.
LEMMA SafeAlways == Spec => [](TypeOK /\ Safe)
<1>1. QED
  BY TypeInit, TypeNext, SafeInit, SafeNext, PTL DEF Spec

\* Only the issuing tenant decides an action, and never an L4 one
\* (DecisionsAuthorised), whatever crashes and faults do.
THEOREM OnlyAuthorisedDecisions == Spec => []DecisionsAuthorised
<1>1. Safe => DecisionsAuthorised
  BY DEF Safe
<1>2. QED
  BY <1>1, SafeAlways, PTL

\* Nothing is consumed without its audit row (NoUnauditedConsumption), even
\* when the commit of the two files is split.
THEOREM AuditPrecedesConsumption == Spec => []NoUnauditedConsumption
<1>1. Safe => NoUnauditedConsumption
  BY DEF Safe
<1>2. QED
  BY <1>1, SafeAlways, PTL

\* An evicted action stays undecided (EvictedStaysUndecided).
THEOREM EvictionIsFinal == Spec => []EvictedStaysUndecided
<1>1. Safe => EvictedStaysUndecided
  BY DEF Safe
<1>2. QED
  BY <1>1, SafeAlways, PTL

-----------------------------------------------------------------------------
\* Nothing is decided at the start.
LEMMA OnceInit == Init => Once
  BY DEF Init, Once, OneDecision, First, Settled

\* Steps that neither decide nor consume, and move no caller into or out of
\* the second commit, keep Once.
LEMMA OnceQuiet ==
  ASSUME TypeOK, Once, UNCHANGED <<row, decided>>,
         live' \subseteq live,
         \A c \in Callers :
           /\ pc'[c] = "commit audit" => pc[c] = "commit audit" /\ call'[c] = call[c]
           /\ pc[c] = "commit action" => pc'[c] = "commit action" /\ call'[c] = call[c]
  PROVE  Once'
<1>1. OneDecision' /\ First'
  BY DEF Once, OneDecision, First
<1>2. Settled'
  <2> SUFFICES ASSUME NEW a \in live', decided'[a] # << >>, ~row'[a].consumed
               PROVE  \E c \in Callers : pc'[c] = "commit action" /\ call'[c].action = a
    BY DEF Settled
  <2>1. a \in live /\ decided[a] # << >> /\ ~row[a].consumed
    OBVIOUS
  <2>2. PICK c \in Callers : pc[c] = "commit action" /\ call[c].action = a
    BY <2>1 DEF Once, Settled
  <2>3. QED
    BY <2>2
<1>3. QED
  BY <1>1, <1>2 DEF Once

\* Every step keeps Once when the commit of the two files is never split.
LEMMA OnceNext ==
  ASSUME TypeOK, Safe, Once, [Next]_vars, ~env.split
  PROVE  Once'
<1> USE ActionAssumption
<1>t. DbType /\ CallerType /\ LockType
  BY DEF TypeOK
<1>s. Held /\ Recorded /\ Pristine
  BY DEF Safe
<1>o. OneDecision /\ First /\ Settled
  BY DEF Once
<1>1. ASSUME NEW a \in Actions, NEW r \in Risks, NEW u \in Tenants, Put(a, r, u) PROVE Once'
  <2>1. \A b \in Actions : b # a => row'[b] = row[b]
    BY <1>1, <1>t DEF Put, DbType
  <2>2. /\ decided[a] = << >> /\ live' = live \cup {a}
        /\ UNCHANGED <<decided, pc, call>>
    BY <1>1, <1>s DEF Put, Pristine, caller
  <2>3. Settled'
    BY <1>o, <1>t, <2>1, <2>2 DEF Settled, DbType
  <2>4. OneDecision' /\ First'
    BY <1>o, <2>2 DEF OneDecision, First
  <2>5. QED
    BY <2>3, <2>4 DEF Once
<1>2. ASSUME NEW c \in Callers, NEW k \in Calls, Confirm(c, k) PROVE Once'
  BY <1>2, <1>t, OnceQuiet DEF Confirm, CallerType, db, history
<1>3. ASSUME NEW c \in Callers, Evict(c) PROVE Once'
  BY <1>3, <1>t, OnceQuiet DEF Evict, CallerType
<1>4. ASSUME NEW c \in Callers, EvictFails(c) PROVE Once'
  BY <1>4, <1>t, OnceQuiet DEF EvictFails, CallerType, db, history
<1>5. ASSUME NEW c \in Callers, Refuse(c) PROVE Once'
  BY <1>5, <1>t, OnceQuiet DEF Refuse, Answer, CallerType, db, history
<1>6. ASSUME NEW c \in Callers, Begin(c) PROVE Once'
  <2>1. call[c].action \in live /\ ~row[call[c].action].consumed
    BY <1>6, PassedChecks DEF Begin
  <2>2. \A e \in Callers : pc[e] # "commit action"
    BY <1>6, <1>t DEF Begin, LockType
  <2>3. decided[call[c].action] = << >>
    BY <1>o, <2>1, <2>2 DEF Settled
  <2>4. UNCHANGED <<live, row, decided, call>> /\ pc' = [pc EXCEPT ![c] = "commit audit"]
    BY <1>6 DEF Begin, db
  <2>5. First'
    BY <1>o, <1>t, <2>3, <2>4 DEF First, CallerType
  <2>6. OneDecision' /\ Settled'
    BY <1>o, <1>t, <2>2, <2>4 DEF OneDecision, Settled, CallerType
  <2>7. QED
    BY <2>5, <2>6 DEF Once
<1>7. ASSUME NEW c \in Callers, Fail(c) PROVE Once'
  BY <1>7, <1>t, OnceQuiet DEF Fail, Answer, CallerType, db, history
<1>8. ASSUME NEW c \in Callers, CommitAudit(c) PROVE Once'
  <2> DEFINE a == call[c].action
             d == [outcome |-> call[c].outcome, tenant |-> call[c].tenant]
  <2>1. a \in Actions /\ decided[a] = << >>
    BY <1>8, <1>t, <1>o DEF CommitAudit, CallerType, Calls, First
  <2>2. /\ decided' = [decided EXCEPT ![a] = Append(decided[a], d)]
        /\ pc' = [pc EXCEPT ![c] = "commit action"]
        /\ UNCHANGED <<live, row, call>>
    BY <1>8 DEF CommitAudit
  <2>d. d \in [outcome : Outcomes, tenant : Tenants]
    BY <1>8, <1>t DEF CommitAudit, CallerType, Calls
  <2> HIDE DEF d
  <2>a. /\ decided'[a] = Append(<< >>, d)
        /\ \A b \in Actions : b # a => decided'[b] = decided[b]
    BY <2>1, <2>2, <1>t DEF DbType
  <2>3. /\ Len(decided'[a]) = 1 /\ decided'[a] # << >>
        /\ \A b \in Actions : b # a => decided'[b] = decided[b]
    BY <2>a, <2>d
  <2>4. OneDecision'
    <3>1. \A b \in Actions : Len(decided[b]) <= 1
      BY <1>o DEF OneDecision
    <3> SUFFICES ASSUME NEW b \in Actions PROVE Len(decided'[b]) <= 1
      BY DEF OneDecision
    <3>2. CASE b = a
      BY <3>2, <2>3
    <3>3. CASE b # a
      BY <3>1, <3>3, <2>3
    <3>4. QED
      BY <3>2, <3>3
  <2>5. \A e \in Callers : pc'[e] # "commit audit"
    BY <1>8, <1>t, <2>2 DEF CommitAudit, LockType, CallerType
  <2>6. First'
    BY <2>5 DEF First
  <2>7. pc'[c] = "commit action" /\ call'[c].action = a
    BY <2>2, <1>t DEF CallerType
  <2>8. \A e \in Callers : pc[e] = "commit action" => pc'[e] = "commit action"
    BY <2>2, <1>t DEF CallerType
  <2>9. Settled'
    <3>1. SUFFICES ASSUME NEW b \in live, decided'[b] # << >>
                   PROVE  row[b].consumed \/ \E e \in Callers : pc'[e] = "commit action"
                                                              /\ call[e].action = b
      BY <2>2 DEF Settled
    <3>2. CASE b = a
      BY <3>2, <2>7, <2>2
    <3>3. CASE b # a
      <4>1. b \in Actions
        BY <1>t DEF DbType
      <4>2. decided[b] # << >>
        BY <3>1, <3>3, <4>1, <2>3
      <4>3. QED
        BY <4>2, <1>o, <2>8 DEF Settled
    <3>4. QED
      BY <3>2, <3>3
  <2>10. QED
    BY <2>4, <2>6, <2>9 DEF Once
<1>9. ASSUME NEW c \in Callers, CommitAction(c) PROVE Once'
  <2> DEFINE a == call[c].action
             r == [row[a] EXCEPT !.consumed = TRUE]
  <2>1. a \in Actions
    BY <1>9, <1>t DEF CommitAction, CallerType, Calls
  <2>2. row' = [row EXCEPT ![a] = r] /\ UNCHANGED <<live, decided>>
    BY <1>9 DEF CommitAction
  <2>3. row[a] \in Row /\ row \in [Actions -> Row]
    BY <2>1, <1>t DEF DbType
  <2>4. r.consumed
    BY <2>3 DEF Row
  <2> HIDE DEF r
  <2>5. row'[a].consumed /\ \A b \in Actions : b # a => row'[b] = row[b]
    BY <2>1, <2>2, <2>3, <2>4
  <2>6. \A e \in Callers : pc[e] = "commit action" => e = c
    BY <1>9, <1>t DEF CommitAction, LockType
  <2>7. \A e \in Callers : pc'[e] # "commit audit"
    BY <1>9, <1>t DEF CommitAction, Answer, LockType, CallerType
  <2>8. Settled'
    BY ZenonT(60), <1>o, <1>t, <2>2, <2>5, <2>6 DEF Settled, DbType
  <2>9. OneDecision' /\ First'
    BY <1>o, <2>2, <2>7 DEF OneDecision, First
  <2>10. QED
    BY <2>8, <2>9 DEF Once
<1>10. ASSUME NEW c \in Callers, CommitActionFails(c) PROVE Once'
  BY <1>10 DEF CommitActionFails
<1>11. CASE Tick
  BY <1>11, OnceQuiet DEF Tick, db, caller
<1>12. ASSUME NEW a \in Actions, Alter(a) PROVE Once'
  <2>1. PICK q \in Risks : row' = [row EXCEPT ![a].risk = q]
    BY <1>12 DEF Alter
  <2> DEFINE r == [row[a] EXCEPT !.risk = q]
  <2>2. row' = [row EXCEPT ![a] = r] /\ row[a] \in Row /\ row \in [Actions -> Row]
    BY <2>1, <1>t DEF DbType
  <2>3. r.consumed = row[a].consumed
    BY <2>2 DEF Row
  <2> HIDE DEF r
  <2>4. \A b \in Actions : row'[b].consumed = row[b].consumed
    BY <2>2, <2>3
  <2>5. UNCHANGED <<live, decided, pc, call>>
    BY <1>12 DEF Alter, caller
  <2>6. Settled'
    BY <1>o, <1>t, <2>4, <2>5 DEF Settled, DbType
  <2>7. OneDecision' /\ First'
    BY <1>o, <2>5 DEF OneDecision, First
  <2>8. QED
    BY <2>6, <2>7 DEF Once
<1>13. CASE Crash
  BY <1>13, OnceQuiet DEF Crash, db
<1>14. CASE UNCHANGED vars
  BY <1>14, OnceQuiet DEF vars
<1>15. QED
  BY <1>1, <1>2, <1>3, <1>4, <1>5, <1>6, <1>7, <1>8, <1>9, <1>10, <1>11, <1>12, <1>13, <1>14
  DEF Next, Step

\* env never changes, so a behaviour without split commits keeps Once.
OnceUnlessSplit == env.split \/ Once

\* The whole inductive invariant holds in every reachable state.
LEMMA OnceAlways == Spec => [](TypeOK /\ Safe /\ OnceUnlessSplit)
<1>1. Init => OnceUnlessSplit
  BY OnceInit DEF OnceUnlessSplit
<1>2. TypeOK /\ Safe /\ OnceUnlessSplit /\ [Next]_vars => OnceUnlessSplit'
  <2> SUFFICES ASSUME TypeOK, Safe, OnceUnlessSplit, [Next]_vars PROVE OnceUnlessSplit'
    OBVIOUS
  <2>1. env' = env
    BY DEF Next, vars
  <2>2. CASE env.split
    BY <2>1, <2>2 DEF OnceUnlessSplit
  <2>3. CASE ~env.split
    BY <2>1, <2>3, OnceNext DEF OnceUnlessSplit
  <2>4. QED
    BY <2>2, <2>3
<1>3. QED
  BY <1>1, <1>2, TypeInit, TypeNext, SafeInit, SafeNext, PTL DEF Spec

\* If SQLite commits the two files together, no action is ever decided twice
\* (DecidedOnce): the one-time consumption confirm_atomic claims.
THEOREM NeverDecidedTwice == Spec => []DecidedOnce
<1>1. OnceUnlessSplit => DecidedOnce
  BY DEF OnceUnlessSplit, Once, DecidedOnce
<1>2. QED
  BY <1>1, OnceAlways, PTL

\* Under the same assumption a stored action is consumed exactly when it has
\* a confirm row, whenever no transaction is open (ConsumedIffAudited).
THEOREM ConsumptionMatchesAudit == Spec => []ConsumedIffAudited
<1>1. TypeOK /\ Safe /\ OnceUnlessSplit => ConsumedIffAudited
  <2> SUFFICES ASSUME TypeOK, Safe, Once, writer = Nil, NEW a \in live
               PROVE  row[a].consumed <=> decided[a] # << >>
    BY DEF ConsumedIffAudited, OnceUnlessSplit
  <2>1. a \in Actions /\ row[a].consumed \in BOOLEAN
    BY DEF TypeOK, DbType, Row
  <2>2. \A c \in Callers : pc[c] # "commit action"
    BY ActionAssumption DEF TypeOK, LockType
  <2>3. row[a].consumed => decided[a] # << >>
    BY <2>1 DEF Safe, NoUnauditedConsumption
  <2>4. decided[a] # << >> => row[a].consumed
    BY <2>2 DEF Once, Settled
  <2>5. QED
    BY <2>1, <2>3, <2>4
<1>2. QED
  BY <1>1, OnceAlways, PTL

-----------------------------------------------------------------------------
(* Refinement of ApprovalGate.                                                *)

StatusOf == [a \in Actions |-> Status(a)]
AbsoluteOf == {a \in issued : row[a].json = "L4"}

\* A step that changes neither the audit rows nor the histories nor a stored
\* verdict is a stuttering step of the gate.
LEMMA GateStutter ==
  ASSUME UNCHANGED <<decided, issued, evicted>>,
         \A a \in issued : row'[a].json = row[a].json
  PROVE  UNCHANGED <<StatusOf, AbsoluteOf>>
<1>1. StatusOf' = StatusOf
  BY DEF StatusOf, Status
<1>2. AbsoluteOf' = AbsoluteOf
  BY DEF AbsoluteOf
<1>3. QED
  BY <1>1, <1>2

\* Every step of the confirm flow is a step of the gate or a stutter.
LEMMA GateStep ==
  ASSUME TypeOK, Safe, Once, [Next]_vars
  PROVE  [Gate!Next]_<<StatusOf, AbsoluteOf>>
<1> USE ActionAssumption
<1>t. DbType /\ CallerType /\ LockType
  BY DEF TypeOK
<1>s. Held /\ Recorded /\ Pristine /\ EvictedStaysUndecided
  BY DEF Safe
<1>o. OneDecision /\ First /\ Settled
  BY DEF Once
<1>1. ASSUME NEW a \in Actions, NEW r \in Risks, NEW u \in Tenants, Put(a, r, u)
      PROVE  Gate!Issue(a)
  <2>1. \A b \in Actions : b # a => row'[b] = row[b]
    BY <1>1, <1>t DEF Put, DbType
  <2>2. /\ decided[a] = << >> /\ a \notin issued /\ a \notin evicted
        /\ issued' = issued \cup {a} /\ UNCHANGED <<decided, evicted>>
    BY <1>1, <1>s, <1>t DEF Put, Pristine, DbType
  <2>3. StatusOf[a] = "none"
    BY <2>2 DEF StatusOf, Status
  <2>4. StatusOf' = [StatusOf EXCEPT ![a] = "pending"]
    BY <2>2 DEF StatusOf, Status
  <2>5. AbsoluteOf' = AbsoluteOf \/ AbsoluteOf' = AbsoluteOf \cup {a}
    BY <1>t, <2>1, <2>2 DEF AbsoluteOf, DbType
  <2>6. QED
    BY <2>3, <2>4, <2>5 DEF Gate!Issue, StatusOf, AbsoluteOf
<1>2. ASSUME NEW c \in Callers, CommitAudit(c)
      PROVE  Gate!Decide(call[c].action)
  <2> DEFINE a == call[c].action
             d == [outcome |-> call[c].outcome, tenant |-> call[c].tenant]
  <2>1. a \in Actions /\ decided[a] = << >> /\ call[c].outcome \in Outcomes
    BY <1>2, <1>t, <1>o DEF CommitAudit, CallerType, Calls, First
  <2>2. /\ decided' = [decided EXCEPT ![a] = Append(decided[a], d)]
        /\ UNCHANGED <<row, issued, evicted>>
    BY <1>2 DEF CommitAudit, history
  <2>3. a \in live /\ a \in issued /\ a \notin evicted /\ row[a].json # "L4"
    BY <1>2, <1>s, <1>t DEF CommitAudit, Held, InTx, Pristine, DbType
  <2>4. d \in [outcome : Outcomes, tenant : Tenants] /\ d.outcome = call[c].outcome
    BY <1>2, <1>t DEF CommitAudit, CallerType, Calls
  <2> HIDE DEF d
  <2>5. /\ decided'[a] = Append(<< >>, d)
        /\ \A b \in Actions : b # a => decided'[b] = decided[b]
    BY <2>1, <2>2, <1>t DEF DbType
  <2>6. Len(decided'[a]) = 1 /\ decided'[a] # << >> /\ decided'[a][1] = d
    BY <2>5, <2>4
  <2>7. StatusOf[a] = "pending" /\ a \notin AbsoluteOf
    BY <2>1, <2>3 DEF StatusOf, Status, AbsoluteOf
  <2>8. \A b \in Actions : b = a => Status(b)' = call[c].outcome
    BY <2>4, <2>6 DEF Status
  <2>9. \A b \in Actions : b # a => Status(b)' = Status(b)
    BY <2>2, <2>5 DEF Status
  <2>10. StatusOf' = [StatusOf EXCEPT ![a] = call[c].outcome]
    BY <2>1, <2>8, <2>9 DEF StatusOf
  <2>11. AbsoluteOf' = AbsoluteOf
    BY <2>2 DEF AbsoluteOf
  <2>12. QED
    BY <2>1, <2>7, <2>10, <2>11 DEF Gate!Decide, StatusOf, AbsoluteOf, Outcomes
<1>3. ASSUME NEW c \in Callers, Evict(c)
      PROVE  Gate!Expire
  <2> DEFINE E == {a \in live : Overdue(a, evictAt[c]) /\ decided[a] = << >>}
  <2>1. evicted' = evicted \cup E /\ UNCHANGED <<row, decided, issued>>
    BY <1>3 DEF Evict
  <2>2. \A a \in E : a \in issued /\ a \in Actions /\ a \notin evicted /\ decided[a] = << >>
    BY <1>s, <1>t DEF Pristine, DbType
  <2> HIDE DEF E
  <2>3. E \in SUBSET {a \in Actions : StatusOf[a] = "pending"}
    BY <2>2 DEF StatusOf, Status
  <2>4. StatusOf' = [a \in Actions |-> IF a \in E THEN "expired" ELSE StatusOf[a]]
    BY <2>1, <2>2 DEF StatusOf, Status
  <2>5. AbsoluteOf' = AbsoluteOf
    BY <2>1 DEF AbsoluteOf
  <2>6. QED
    BY <2>3, <2>4, <2>5 DEF Gate!Expire, StatusOf, AbsoluteOf
<1>4. ASSUME NEW c \in Callers, CommitAction(c) PROVE UNCHANGED <<StatusOf, AbsoluteOf>>
  <2> DEFINE a == call[c].action
             r == [row[a] EXCEPT !.consumed = TRUE]
  <2>1. row' = [row EXCEPT ![a] = r] /\ UNCHANGED <<decided, issued, evicted>>
    BY <1>4 DEF CommitAction, history
  <2>2. row \in [Actions -> Row] /\ issued \subseteq Actions
    BY <1>t DEF DbType
  <2>3. a \in Actions => r.json = row[a].json
    BY <2>2 DEF Row
  <2> HIDE DEF r, a
  <2>4. \A b \in issued : row'[b].json = row[b].json
    BY <2>1, <2>2, <2>3
  <2>5. QED
    BY <2>1, <2>4, GateStutter
<1>5. ASSUME NEW a \in Actions, Alter(a) PROVE UNCHANGED <<StatusOf, AbsoluteOf>>
  <2>1. PICK q \in Risks : row' = [row EXCEPT ![a].risk = q]
    BY <1>5 DEF Alter
  <2> DEFINE r == [row[a] EXCEPT !.risk = q]
  <2>2. row' = [row EXCEPT ![a] = r] /\ row \in [Actions -> Row] /\ issued \subseteq Actions
    BY <2>1, <1>t DEF DbType
  <2>3. r.json = row[a].json
    BY <2>2 DEF Row
  <2> HIDE DEF r
  <2>4. \A b \in issued : row'[b].json = row[b].json
    BY <2>2, <2>3
  <2>5. QED
    BY <1>5, <2>4, GateStutter DEF Alter, history
<1>6. ASSUME NEW c \in Callers,
             \/ EvictFails(c) \/ Refuse(c) \/ Begin(c) \/ Fail(c) \/ CommitActionFails(c)
             \/ \E k \in Calls : Confirm(c, k)
      PROVE  UNCHANGED <<StatusOf, AbsoluteOf>>
  <2>1. UNCHANGED <<row, decided, issued, evicted>>
    BY <1>6 DEF EvictFails, Refuse, Begin, Fail, CommitActionFails, Confirm, db, history
  <2>2. QED
    BY <2>1, GateStutter
<1>7. CASE Tick \/ Crash \/ UNCHANGED vars
  <2>1. UNCHANGED <<row, decided, issued, evicted>>
    BY <1>7 DEF Tick, Crash, vars, db, history
  <2>2. QED
    BY <2>1, GateStutter
<1>8. ASSUME NEW c \in Callers, CommitAudit(c) PROVE call[c].action \in Actions
  BY <1>8, <1>t DEF CommitAudit, CallerType, Calls
<1>9. QED
  BY <1>1, <1>2, <1>3, <1>4, <1>5, <1>6, <1>7, <1>8 DEF Next, Step, Gate!Next

\* The confirm flow implements the approval gate (ImplementsGate) if SQLite
\* commits the two files together.
THEOREM ConfirmImplementsGate == Spec => ImplementsGate
<1>1. Init => Gate!Init
  BY DEF Init, Gate!Init, Status
<1>2. TypeOK /\ Safe /\ OnceUnlessSplit /\ [Next]_vars
        => [env.split \/ Gate!Next]_<<StatusOf, AbsoluteOf>>
  BY GateStep DEF OnceUnlessSplit
<1>3. QED
  BY <1>1, <1>2, OnceAlways, PTL DEF Spec, ImplementsGate, StatusOf, AbsoluteOf
=============================================================================
