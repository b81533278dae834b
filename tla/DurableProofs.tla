---------------------------- MODULE DurableProofs ----------------------------
(***************************************************************************)
(* Proofs about three things the daemon keeps across restarts: the queue   *)
(* and the spool of low-risk events (AuditIngest), for any sets of events  *)
(* and threads, any capacity, batch size and environments; the key         *)
(* versions (KeyLifecycle), for any master keys and installations and any  *)
(* number of versions and rows; and the tokens of reversible redactions    *)
(* (TokenStore), for any tokens, tenants, callers, TTL and environments.   *)
(***************************************************************************)
EXTENDS AuditIngest, KeyLifecycle, TokenStore, TLAPS

-----------------------------------------------------------------------------
(* AuditIngest: what happens to an accepted event.                            *)

Distinct(s) == \A i, j \in DOMAIN s : s[i] = s[j] => i = j

\* An event on its way to the table is in one place only.
OnePlace ==
  /\ Distinct(queue) /\ Distinct(batch)
  /\ Elements(queue) \cap Elements(batch) = {}
  /\ \A p \in Procs : held[p] \notin Elements(queue) \cup Elements(batch)
  /\ \A p, q \in Procs : held[p] = held[q] /\ held[p] # Nil => p = q

\* It is not in the table or the file yet, nor was it when a reimport read the
\* file.
OnTheWay(e) ==
  e \in Elements(queue) \/ e \in Elements(batch) \/ \E p \in Procs : e = held[p]
Arrived(e) ==
  e \in table \/ e \in Spooled \/ \E t \in Threads : e \in Elements(lines[t])
Settled == \A e \in Events : ~(OnTheWay(e) /\ Arrived(e))

\* All of it was accepted once.
Taken == \A e \in Events : OnTheWay(e) \/ Arrived(e) => e \in accepted

\* Who may be busy with what, and what the only caller's reimport still has to
\* insert: everything in the file that is not in the table.
Callers ==
  /\ \A t \in Threads : pc[t] # "idle" => t \in env.threads
  /\ pc[Drain] \in {"idle", "fill", "dead"} \/ (env.inserts /\ pc[Drain] \in {"spool", "write"})
  /\ \A t \in Threads : pc[t] \in {"lock", "import"} =>
       /\ env.reimports
       /\ Alone => Spooled \subseteq table \cup Elements(lines[t])

\* NothingDropped, event by event.
Tracked ==
  (env.reimports => Alone) =>
    \A e \in accepted : OnTheWay(e) \/ e \in table \/ e \in Spooled \/ e \in dropped

\* A batch that still grows is not full.
Growing == pc[Drain] = "fill" => Len(batch) < BatchMax

IInv == TypeOK /\ OnePlace /\ Settled /\ Taken /\ Callers /\ Tracked /\ Growing

-----------------------------------------------------------------------------
(* Sequences and their elements.                                             *)

\* Append adds one element, a new one if the sequence is to stay distinct.
LEMMA AppendElements ==
  ASSUME NEW S, NEW s \in Seq(S), NEW e
  PROVE  /\ Elements(Append(s, e)) = Elements(s) \cup {e}
         /\ Distinct(s) /\ e \notin Elements(s) => Distinct(Append(s, e))
<1>1. /\ DOMAIN Append(s, e) = 1 .. Len(s) + 1 /\ Len(s) \in Nat /\ DOMAIN s = 1 .. Len(s)
      /\ \A i \in 1 .. Len(s) : Append(s, e)[i] = s[i]
      /\ Append(s, e)[Len(s) + 1] = e
  OBVIOUS
<1>2. Elements(Append(s, e)) = Elements(s) \cup {e}
  BY <1>1 DEF Elements
<1>3. Distinct(s) /\ e \notin Elements(s) => Distinct(Append(s, e))
  BY <1>1 DEF Elements, Distinct
<1>4. QED
  BY Zenon, <1>2, <1>3

\* A sequence has the elements of its head and of its tail, and if it is
\* distinct the two do not meet.
LEMMA HeadTailElements ==
  ASSUME NEW S, NEW s \in Seq(S), s # << >>
  PROVE  /\ Elements(s) = {Head(s)} \cup Elements(Tail(s))
         /\ Head(s) \in S /\ Tail(s) \in Seq(S) /\ Len(Tail(s)) = Len(s) - 1
         /\ Distinct(s) => Distinct(Tail(s)) /\ Head(s) \notin Elements(Tail(s))
<1>1. /\ DOMAIN Tail(s) = 1 .. Len(s) - 1 /\ Len(s) \in Nat \ {0} /\ DOMAIN s = 1 .. Len(s)
      /\ \A i \in 1 .. Len(s) - 1 : Tail(s)[i] = s[i + 1]
      /\ Head(s) = s[1] /\ Head(s) \in S /\ Tail(s) \in Seq(S) /\ Len(Tail(s)) = Len(s) - 1
  OBVIOUS
<1>2. Elements(s) \subseteq {Head(s)} \cup Elements(Tail(s))
  <2> SUFFICES ASSUME NEW i \in 1 .. Len(s), i # 1 PROVE s[i] \in Elements(Tail(s))
    BY <1>1 DEF Elements
  <2>1. i - 1 \in 1 .. Len(s) - 1 /\ (i - 1) + 1 = i
    BY <1>1
  <2>2. QED
    BY Zenon, <1>1, <2>1 DEF Elements
<1>3. {Head(s)} \cup Elements(Tail(s)) \subseteq Elements(s)
  BY <1>1 DEF Elements
<1>4. Distinct(s) => Distinct(Tail(s)) /\ Head(s) \notin Elements(Tail(s))
  BY <1>1 DEF Elements, Distinct
<1>5. QED
  BY Zenon, <1>1, <1>2, <1>3, <1>4

\* The empty sequence has no elements.
LEMMA EmptyElements == Elements(<< >>) = {} /\ Distinct(<< >>)
  BY DEF Elements, Distinct

-----------------------------------------------------------------------------
(* Initial states and steps.                                                 *)

\* The initial state satisfies the inductive invariant.
LEMMA InitInv == Init => IInv
<1> SUFFICES ASSUME Init PROVE IInv
  BY Zenon
<1>1. Spooled = {}
  BY Zenon, EmptyElements DEF Init, Spooled
<1>2. TypeOK
  <2>1. torn \in BOOLEAN /\ env \in Environments
    BY Zenon DEF Init
  <2>2. /\ << >> \in Seq(Events) /\ << >> \in Seq(DeadLetter)
        /\ Len(<< >>) <= QueueCap /\ Len(<< >>) <= BatchMax
    BY IngestAssumption
  <2>3. QED
    BY Zenon, <2>1, <2>2 DEF Init, TypeOK, Genesis
<1>3. \A e \in Events : ~OnTheWay(e) /\ ~Arrived(e)
  BY Zenon, <1>1, EmptyElements, IngestAssumption DEF Init, OnTheWay, Arrived
<1>4. OnePlace
  BY Zenon, EmptyElements DEF Init, OnePlace
<1>5. Callers
  BY Zenon, IngestAssumption DEF Init, Callers, Procs
<1>6. Settled /\ Taken
  BY Zenon, <1>3 DEF Settled, Taken
<1>7. Tracked
  BY Zenon DEF Init, Tracked
<1>8. Growing
  BY Zenon DEF Init, Growing, Procs
<1>9. QED
  BY Zenon, <1>2, <1>4, <1>5, <1>6, <1>7, <1>8 DEF IInv

\* What a step that leaves the file alone leaves alone.
LEMMA SameFile == ASSUME UNCHANGED file PROVE Spooled' = Spooled
  BY Zenon DEF Spooled

\* Alone is about the environment only.
LEMMA SameEnv == ASSUME UNCHANGED env PROVE Alone' = Alone
  BY Zenon DEF Alone

\* append_event keeps the invariant, whether the queue is full or not.
LEMMA AppendLowInv ==
  ASSUME IInv, UNCHANGED env, NEW t \in env.threads, NEW e \in Events, AppendLow(t, e)
  PROVE  IInv'
<1> USE DEF IInv
<1>1. t \in Threads /\ t \in Procs /\ t # Drain
  BY IngestAssumption DEF TypeOK, Environment, Procs
<1>2. Spooled' = Spooled /\ Alone' = Alone
  BY Zenon, SameFile, SameEnv DEF AppendLow, disk
<1>3. ~OnTheWay(e) /\ ~Arrived(e) /\ e # Nil
  BY Zenon, IngestAssumption DEF Taken, AppendLow
<1>4. CASE pc[Drain] # "dead" /\ Len(queue) < QueueCap
  <2>1. queue' = Append(queue, e) /\ UNCHANGED <<batch, table, file, torn, pc, held, prev, lines, writer, dropped>>
    BY Zenon, <1>4 DEF AppendLow, disk
  <2>2. TypeOK'
    BY <1>4, <2>1, IngestAssumption DEF TypeOK, AppendLow
  <2>3. Elements(queue') = Elements(queue) \cup {e} /\ Distinct(queue')
    BY Zenon, <1>3, <2>1, AppendElements DEF TypeOK, OnePlace, OnTheWay
  <2>4. OnePlace'
    BY Zenon, <1>3, <2>1, <2>3 DEF OnePlace, OnTheWay
  <2>5. Settled' /\ Taken'
    BY Zenon, <1>2, <1>3, <2>1, <2>3 DEF Settled, Taken, OnTheWay, Arrived, AppendLow
  <2>6. Tracked'
    BY Zenon, <1>2, <1>3, <2>1, <2>3 DEF Tracked, OnTheWay, AppendLow
  <2>7. Callers'
    BY Zenon, <1>2, <2>1 DEF Callers
  <2>8. Growing'
    BY Zenon, <2>1 DEF Growing
  <2>9. QED
    BY Zenon, <2>2, <2>4, <2>5, <2>6, <2>7, <2>8
<1>5. CASE ~(pc[Drain] # "dead" /\ Len(queue) < QueueCap)
  <2>1. /\ held' = [held EXCEPT ![t] = e] /\ pc' = [pc EXCEPT ![t] = "spool"]
        /\ UNCHANGED <<queue, batch, table, file, torn, prev, lines, writer, dropped>>
    BY Zenon, <1>5 DEF AppendLow, disk
  <2>2. TypeOK'
    BY Zenon, <1>1, <1>3, <2>1 DEF TypeOK, AppendLow
  <2>3. held[t] = Nil /\ pc[t] = "idle"
    BY Zenon, <1>1 DEF TypeOK, AppendLow
  <2>4. \A p \in Procs : held'[p] = IF p = t THEN e ELSE held[p]
    BY Zenon, <2>1 DEF TypeOK
  <2>5. OnePlace'
    BY <1>1, <1>3, <2>1, <2>4 DEF OnePlace, OnTheWay
  <2>6. \A x \in Events : (OnTheWay(x)' <=> OnTheWay(x) \/ x = e) /\ (Arrived(x)' <=> Arrived(x))
    BY Zenon, <1>1, <1>2, <2>1, <2>3, <2>4, IngestAssumption DEF OnTheWay, Arrived
  <2>7. Settled' /\ Taken' /\ Tracked'
    BY Zenon, <1>2, <1>3, <2>1, <2>6 DEF Settled, Taken, Tracked, AppendLow, TypeOK
  <2>8. Callers'
    BY <1>1, <1>2, <2>1, <2>3 DEF Callers, TypeOK
  <2>9. Growing'
    <3>1. pc'[Drain] = pc[Drain]
      BY Zenon, <1>1, <2>1 DEF TypeOK, Procs
    <3>2. QED
      BY Zenon, <2>1, <3>1 DEF Growing
  <2>10. QED
    BY Zenon, <2>2, <2>5, <2>7, <2>8, <2>9
<1>6. QED
  BY Zenon, <1>4, <1>5

\* Moving the first event of the queue to the end of the batch.
LEMMA Moved ==
  ASSUME IInv, UNCHANGED env, queue # << >>, Len(batch) < BatchMax,
         batch' = Append(batch, Head(queue)), queue' = Tail(queue),
         pc' \in {pc, [pc EXCEPT ![Drain] = "fill"], [pc EXCEPT ![Drain] = "idle"]},
         pc[Drain] \in {"idle", "fill"},
         UNCHANGED <<table, file, torn, held, prev, lines, writer, accepted, dropped>>
  PROVE  TypeOK' /\ OnePlace' /\ Settled' /\ Taken' /\ Callers' /\ Tracked'
<1> USE DEF IInv
<1> DEFINE h == Head(queue)
<1>1. /\ h \in Events /\ queue' \in Seq(Events) /\ Len(queue') = Len(queue) - 1
      /\ Elements(queue) = {h} \cup Elements(queue')
      /\ Distinct(queue') /\ h \notin Elements(queue')
  BY Zenon, HeadTailElements DEF TypeOK, OnePlace
<1>2. batch \in Seq(Events) /\ h \notin Elements(batch)
  BY Zenon, <1>1 DEF TypeOK, OnePlace
<1>3. Elements(batch') = Elements(batch) \cup {h} /\ Distinct(batch')
  BY Zenon, <1>2, AppendElements DEF OnePlace
<1> HIDE DEF h
<1>4. batch' \in Seq(Events) /\ Len(batch') <= BatchMax /\ Len(queue') <= QueueCap
  <2>1. /\ Len(queue) \in Nat /\ Len(queue) <= QueueCap /\ QueueCap \in Nat /\ BatchMax \in Nat
        /\ Len(batch) \in Nat
    BY IngestAssumption DEF TypeOK
  <2>2. batch' = Append(batch, h)
    BY DEF h
  <2>3. QED
    BY <1>1, <1>2, <2>1, <2>2
<1>5. Drain \in Procs /\ Drain \notin Threads
  BY Zenon, IngestAssumption DEF Procs
<1>6. /\ pc' \in [Procs -> {"idle", "fill", "dead", "spool", "write", "lock", "import"}]
      /\ \A p \in Procs : p # Drain => pc'[p] = pc[p]
      /\ pc'[Drain] \in {"idle", "fill"}
  BY <1>5 DEF TypeOK
<1>7. Spooled' = Spooled /\ Alone' = Alone
  BY Zenon, SameFile, SameEnv
<1>8. TypeOK'
  <2>1. \A p \in Procs : held'[p] # Nil <=> pc'[p] \in {"spool", "write"}
    <3>1. held[Drain] = Nil
      BY Zenon, <1>5 DEF TypeOK
    <3>2. QED
      BY <1>6, <3>1 DEF TypeOK
  <2>2. QED
    BY Zenon, <1>1, <1>4, <1>6, <2>1 DEF TypeOK
<1>9. OnePlace'
  <2>1. Elements(queue') \cap Elements(batch') = {}
    BY Zenon, <1>1, <1>3 DEF OnePlace
  <2>2. \A p \in Procs : held'[p] \notin Elements(queue') \cup Elements(batch')
    BY Zenon, <1>1, <1>3 DEF OnePlace
  <2>3. QED
    BY Zenon, <1>1, <1>3, <2>1, <2>2 DEF OnePlace
<1>10. \A e \in Events : (OnTheWay(e)' <=> OnTheWay(e)) /\ (Arrived(e)' <=> Arrived(e))
  BY Zenon, <1>1, <1>3, <1>7 DEF OnTheWay, Arrived
<1>11. Settled' /\ Taken' /\ Tracked'
  BY Zenon, <1>7, <1>10 DEF Settled, Taken, Tracked, TypeOK
<1>12. Callers'
  <2>1. \A t \in Threads : pc'[t] = pc[t]
    BY Zenon, <1>5, <1>6 DEF Procs
  <2>2. QED
    BY Zenon, <1>6, <1>7, <2>1 DEF Callers
<1>13. QED
  BY Zenon, <1>8, <1>9, <1>11, <1>12

\* recv starts a batch.
LEMMA ReceiveInv ==
  ASSUME IInv, UNCHANGED env, Receive PROVE IInv'
<1> USE DEF IInv
<1>1. /\ batch = << >> /\ queue # << >> /\ pc[Drain] = "idle"
      /\ batch' = <<Head(queue)>> /\ queue' = Tail(queue)
      /\ pc' = [pc EXCEPT ![Drain] = "fill"]
      /\ UNCHANGED <<table, file, torn, held, prev, lines, writer, accepted, dropped>>
  BY Zenon DEF Receive, history, disk
<1>2. batch' = Append(batch, Head(queue)) /\ Len(batch) = 0 /\ Len(batch') = 1
  BY <1>1
<1>3. Len(batch) < BatchMax /\ Len(batch') < BatchMax
  BY <1>2, IngestAssumption
<1>4. TypeOK' /\ OnePlace' /\ Settled' /\ Taken' /\ Callers' /\ Tracked'
  BY Zenon, <1>1, <1>2, <1>3, Moved
<1>5. QED
  BY Zenon, <1>3, <1>4 DEF Growing

\* try_recv goes on, and stops when the batch is full.
LEMMA FillInv ==
  ASSUME IInv, UNCHANGED env, Fill PROVE IInv'
<1> USE DEF IInv
<1>1. /\ pc[Drain] = "fill" /\ Len(batch) < BatchMax
      /\ UNCHANGED <<table, file, torn, held, prev, lines, writer, accepted, dropped>>
  BY Zenon DEF Fill, Growing, history, disk
<1>2. Drain \in Procs /\ Drain \notin Threads
  BY Zenon, IngestAssumption DEF Procs
<1>3. CASE queue # << >>
  <2>1. /\ batch' = Append(batch, Head(queue)) /\ queue' = Tail(queue)
        /\ pc' = IF Len(batch') < BatchMax THEN pc ELSE [pc EXCEPT ![Drain] = "idle"]
    BY Zenon, <1>3 DEF Fill
  <2>2. TypeOK' /\ OnePlace' /\ Settled' /\ Taken' /\ Callers' /\ Tracked'
    BY Zenon, <1>1, <1>3, <2>1, Moved
  <2>3. Growing'
    BY Zenon, <1>2, <2>1 DEF Growing, TypeOK
  <2>4. QED
    BY Zenon, <2>2, <2>3
<1>4. CASE queue = << >>
  <2>1. UNCHANGED <<batch, queue>> /\ pc' = [pc EXCEPT ![Drain] = "idle"]
    BY Zenon, <1>4 DEF Fill
  <2>2. Spooled' = Spooled /\ Alone' = Alone
    BY Zenon, <1>1, SameFile, SameEnv
  <2>3. TypeOK'
    BY Zenon, <1>1, <1>2, <2>1 DEF TypeOK
  <2>4. OnePlace' /\ Settled' /\ Taken' /\ Tracked'
    BY Zenon, <1>1, <2>1, <2>2 DEF OnePlace, Settled, Taken, Tracked, OnTheWay, Arrived
  <2>5. pc'[Drain] = "idle" /\ \A t \in Threads : pc'[t] = pc[t]
    BY Zenon, <1>2, <2>1 DEF TypeOK, Procs
  <2>6. Callers'
    BY Zenon, <1>1, <2>2, <2>5 DEF Callers
  <2>7. QED
    BY Zenon, <2>3, <2>4, <2>5, <2>6 DEF Growing
<1>5. QED
  BY Zenon, <1>3, <1>4

\* An insert moves the first event of the batch to the table.
LEMMA DrainInsertInv ==
  ASSUME IInv, UNCHANGED env, DrainInsert PROVE IInv'
<1> USE DEF IInv
<1> DEFINE h == Head(batch)
<1>1. /\ table' = table \cup {h} /\ batch' = Tail(batch) /\ batch # << >>
      /\ UNCHANGED <<queue, file, torn, pc, held, prev, lines, writer, accepted, dropped>>
  BY Zenon DEF DrainInsert, spool, history, disk
<1>2. /\ h \in Events /\ Tail(batch) \in Seq(Events) /\ Len(Tail(batch)) = Len(batch) - 1
      /\ Elements(batch) = {h} \cup Elements(batch')
      /\ Distinct(batch') /\ h \notin Elements(batch')
  BY Zenon, <1>1, HeadTailElements DEF TypeOK, OnePlace
<1> HIDE DEF h
<1>3. Spooled' = Spooled /\ Alone' = Alone
  BY Zenon, <1>1, SameFile, SameEnv
<1>4. Len(batch') <= BatchMax
  <2>1. Len(batch) \in Nat /\ Len(batch) <= BatchMax /\ BatchMax \in Nat
    BY IngestAssumption DEF TypeOK
  <2>2. QED
    BY <1>1, <1>2, <2>1
<1>5. TypeOK'
  BY Zenon, <1>1, <1>2, <1>4 DEF TypeOK
<1>6. OnePlace'
  BY Zenon, <1>1, <1>2 DEF OnePlace
<1>7. h \notin Elements(queue) /\ \A p \in Procs : held[p] # h
  BY Zenon, <1>2 DEF OnePlace
<1>8. \A e \in Events : OnTheWay(e)' <=> (OnTheWay(e) /\ e # h)
  BY Zenon, <1>1, <1>2, <1>7 DEF OnTheWay
<1>9. \A e \in Events : Arrived(e)' <=> (Arrived(e) \/ e = h)
  BY Zenon, <1>1, <1>3 DEF Arrived
<1>10. OnTheWay(h)
  BY Zenon, <1>2 DEF OnTheWay
<1>11. Settled' /\ Taken' /\ Tracked'
  <2>1. Settled'
    BY Zenon, <1>8, <1>9 DEF Settled
  <2>2. Taken'
    BY Zenon, <1>1, <1>2, <1>8, <1>9, <1>10 DEF Taken
  <2>3. Tracked'
    BY Zenon, <1>1, <1>2, <1>3, <1>8 DEF Tracked, TypeOK
  <2>4. QED
    BY Zenon, <2>1, <2>2, <2>3
<1>12. Callers'
  BY Zenon, <1>1, <1>3 DEF Callers
<1>13. Growing'
  BY Zenon, <1>1 DEF Growing, DrainInsert
<1>14. QED
  BY Zenon, <1>5, <1>6, <1>11, <1>12, <1>13

\* A failed insert moves it to the drain's hands instead.
LEMMA DrainInsertFailsInv ==
  ASSUME IInv, UNCHANGED env, DrainInsertFails PROVE IInv'
<1> USE DEF IInv
<1> DEFINE h == Head(batch)
<1>1. /\ held' = [held EXCEPT ![Drain] = h] /\ batch' = Tail(batch) /\ batch # << >>
      /\ pc' = [pc EXCEPT ![Drain] = "spool"] /\ pc[Drain] = "idle" /\ env.inserts
      /\ UNCHANGED <<queue, table, file, torn, prev, lines, writer, accepted, dropped>>
  BY Zenon DEF DrainInsertFails, history, disk
<1>2. /\ h \in Events /\ Tail(batch) \in Seq(Events) /\ Len(Tail(batch)) = Len(batch) - 1
      /\ Elements(batch) = {h} \cup Elements(batch')
      /\ Distinct(batch') /\ h \notin Elements(batch')
  BY Zenon, <1>1, HeadTailElements DEF TypeOK, OnePlace
<1> HIDE DEF h
<1>3. Spooled' = Spooled /\ Alone' = Alone
  BY Zenon, <1>1, SameFile, SameEnv
<1>4. Len(batch') <= BatchMax
  <2>1. Len(batch) \in Nat /\ Len(batch) <= BatchMax /\ BatchMax \in Nat
    BY IngestAssumption DEF TypeOK
  <2>2. QED
    BY <1>1, <1>2, <2>1
<1>5. Drain \in Procs /\ Drain \notin Threads /\ h # Nil
  BY Zenon, <1>2, IngestAssumption DEF Procs
<1>6. TypeOK'
  BY Zenon, <1>1, <1>2, <1>4, <1>5 DEF TypeOK
<1>7. held[Drain] = Nil /\ \A p \in Procs : held'[p] = IF p = Drain THEN h ELSE held[p]
  BY Zenon, <1>1, <1>5 DEF TypeOK
<1>8. OnePlace'
  BY <1>1, <1>2, <1>5, <1>7 DEF OnePlace
<1>9. \A e \in Events : (OnTheWay(e)' <=> OnTheWay(e)) /\ (Arrived(e)' <=> Arrived(e))
  BY Zenon, <1>1, <1>2, <1>3, <1>5, <1>7, IngestAssumption DEF OnTheWay, Arrived
<1>10. Settled' /\ Taken' /\ Tracked'
  BY Zenon, <1>1, <1>3, <1>9 DEF Settled, Taken, Tracked, TypeOK
<1>11. Callers'
  BY Zenon, <1>1, <1>3, <1>5 DEF Callers, TypeOK, Procs
<1>12. Growing'
  BY Zenon, <1>1, <1>5 DEF Growing, TypeOK
<1>13. QED
  BY Zenon, <1>6, <1>8, <1>10, <1>11, <1>12

\* Reading the last hmac touches only prev and pc.
LEMMA SpoolReadInv ==
  ASSUME IInv, UNCHANGED env, NEW p \in Procs, SpoolRead(p) PROVE IInv'
<1> USE DEF IInv
<1>1. /\ \E x \in {LastHmac, Genesis} : prev' = [prev EXCEPT ![p] = x]
      /\ pc' = [pc EXCEPT ![p] = "write"]
      /\ pc[p] = "spool"
      /\ UNCHANGED <<queue, batch, table, file, torn, held, lines, writer, accepted, dropped>>
  BY Zenon DEF SpoolRead, history, disk
<1>2. LastHmac \in Seq(Events) /\ Genesis \in Seq(Events)
  <2>1. CASE file = << >> \/ file[Len(file)].ev = Nil
    BY <2>1 DEF LastHmac, Genesis
  <2>2. CASE ~(file = << >> \/ file[Len(file)].ev = Nil)
    <3>1. file[Len(file)] \in DeadLetter
      BY <2>2 DEF TypeOK
    <3>2. file[Len(file)].ev \in Events /\ file[Len(file)].prev \in Seq(Events)
      BY Zenon, <2>2, <3>1 DEF DeadLetter
    <3>3. LastHmac = Append(file[Len(file)].prev, file[Len(file)].ev)
      BY Zenon, <2>2 DEF LastHmac, Hmac
    <3>4. QED
      BY <3>2, <3>3 DEF Genesis
  <2>3. QED
    BY Zenon, <2>1, <2>2
<1>3. Spooled' = Spooled /\ Alone' = Alone
  BY Zenon, <1>1, SameFile, SameEnv
<1>4. TypeOK'
  <2>1. prev' \in [Procs -> Seq(Events)]
    BY Zenon, <1>1, <1>2 DEF TypeOK
  <2>2. QED
    BY Zenon, <1>1, <2>1 DEF TypeOK
<1>5. OnePlace' /\ Settled' /\ Taken' /\ Tracked'
  BY Zenon, <1>1, <1>3 DEF OnePlace, Settled, Taken, Tracked, OnTheWay, Arrived
<1>6. Callers'
  BY Zenon, <1>1, <1>3 DEF Callers, TypeOK, Procs
<1>7. Growing'
  BY Zenon, <1>1 DEF Growing, TypeOK, Procs
<1>8. QED
  BY Zenon, <1>4, <1>5, <1>6, <1>7

\* What both ends of spool_dead_letter do to the thread that spools.
LEMMA SpoolDoneFacts ==
  ASSUME IInv, NEW p \in Procs, pc[p] = "write", SpoolDone(p)
  PROVE  /\ held[p] \in Events
         /\ pc' \in [Procs -> {"idle", "fill", "dead", "spool", "write", "lock", "import"}]
         /\ held' \in [Procs -> Events \cup {Nil}] /\ prev' \in [Procs -> Seq(Events)]
         /\ \A q \in Procs : /\ held'[q] = IF q = p THEN Nil ELSE held[q]
                             /\ pc'[q] = IF q = p THEN "idle" ELSE pc[q]
                             /\ held'[q] # Nil <=> pc'[q] \in {"spool", "write"}
  BY DEF IInv, TypeOK, SpoolDone, Genesis

\* The file grows by the event that was being spooled.
LEMMA WriteInv ==
  ASSUME IInv, UNCHANGED env, NEW p \in Procs, ~torn, SpoolWrite(p) PROVE IInv'
<1> USE DEF IInv
<1> DEFINE line == [ev |-> held[p], prev |-> prev[p]]
<1>1. /\ file' = Append(file, line) /\ torn' = FALSE /\ pc[p] = "write" /\ SpoolDone(p)
      /\ UNCHANGED <<queue, batch, table, lines, writer, accepted, dropped>>
  BY Zenon DEF SpoolWrite
<1>2. /\ held[p] \in Events
      /\ pc' \in [Procs -> {"idle", "fill", "dead", "spool", "write", "lock", "import"}]
      /\ held' \in [Procs -> Events \cup {Nil}] /\ prev' \in [Procs -> Seq(Events)]
      /\ \A q \in Procs : /\ held'[q] = IF q = p THEN Nil ELSE held[q]
                          /\ pc'[q] = IF q = p THEN "idle" ELSE pc[q]
                          /\ held'[q] # Nil <=> pc'[q] \in {"spool", "write"}
  BY Zenon, <1>1, SpoolDoneFacts
<1>3. line \in DeadLetter /\ line.ev = held[p]
  BY Zenon, <1>2 DEF TypeOK, DeadLetter
<1> HIDE DEF line
<1>4. file' \in Seq(DeadLetter)
  BY <1>1, <1>3 DEF TypeOK
<1>5. Spooled' = Spooled \cup {held[p]}
  <2>1. Elements(file') = Elements(file) \cup {line}
    BY Zenon, <1>1, AppendElements DEF TypeOK
  <2>2. held[p] # Nil
    BY Zenon, <1>2, IngestAssumption
  <2>3. QED
    BY Zenon, <1>3, <2>1, <2>2 DEF Spooled
<1>6. Alone' = Alone
  BY Zenon, SameEnv
<1>7. TypeOK'
  BY Zenon, <1>1, <1>2, <1>4 DEF TypeOK
<1>8. OnePlace'
  <2>1. Nil \notin Elements(queue) \cup Elements(batch)
    BY IngestAssumption DEF TypeOK, Elements
  <2>2. QED
    BY Zenon, <1>1, <1>2, <2>1 DEF OnePlace
<1>9. OnTheWay(held[p])
  BY Zenon DEF OnTheWay
<1>10. \A e \in Events : OnTheWay(e)' <=> (OnTheWay(e) /\ e # held[p])
  <2>1. held[p] \notin Elements(queue) \cup Elements(batch)
    BY Zenon DEF OnePlace
  <2>2. \A q \in Procs : q # p => held[q] # held[p]
    BY Zenon, <1>2, IngestAssumption DEF OnePlace
  <2>3. QED
    BY Zenon, <1>1, <1>2, <2>1, <2>2, IngestAssumption DEF OnTheWay
<1>11. \A e \in Events : Arrived(e)' <=> (Arrived(e) \/ e = held[p])
  BY Zenon, <1>1, <1>5 DEF Arrived
<1>12. Settled'
  BY Zenon, <1>10, <1>11 DEF Settled
<1>13. Taken'
  BY Zenon, <1>1, <1>2, <1>9, <1>10, <1>11 DEF Taken
<1>14. Tracked'
  BY Zenon, <1>1, <1>2, <1>5, <1>6, <1>10 DEF Tracked, TypeOK
<1>15. Callers'
  <2>1. ASSUME NEW t \in Threads, pc'[t] \in {"lock", "import"}
        PROVE  env.reimports /\ (Alone => Spooled' \subseteq table \cup Elements(lines[t]))
    <3>1. t \in Procs /\ t # p /\ pc[t] = pc'[t] /\ t \in env.threads
      BY Zenon, <1>2, <2>1 DEF Procs, Callers
    <3>2. env.reimports
      BY Zenon, <2>1, <3>1 DEF Callers
    <3>3. ASSUME Alone PROVE FALSE
      BY <1>1, <3>1, <3>3 DEF Alone, Callers, Procs
    <3>4. QED
      BY Zenon, <3>2, <3>3
  <2>2. \A t \in Threads : pc'[t] # "idle" => t \in env.threads
    BY Zenon, <1>2 DEF Callers, Procs
  <2>3. \/ pc'[Drain] \in {"idle", "fill", "dead"}
        \/ env.inserts /\ pc'[Drain] \in {"spool", "write"}
    BY Zenon, <1>2 DEF Callers, Procs
  <2>4. QED
    BY Zenon, <1>1, <1>6, <2>1, <2>2, <2>3 DEF Callers
<1>16. Growing'
  BY Zenon, <1>1, <1>2 DEF Growing, Procs
<1>17. QED
  BY Zenon, <1>7, <1>8, <1>12, <1>13, <1>14, <1>15, <1>16

\* A line that does not parse adds no event to the file.
LEMMA TearFacts ==
  ASSUME IInv, Tear PROVE file' \in Seq(DeadLetter) /\ torn' \in BOOLEAN /\ Spooled' = Spooled
<1>1. Garbled \in DeadLetter /\ Garbled.ev = Nil
  BY DEF Garbled, DeadLetter, Genesis
<1>2. file \in Seq(DeadLetter)
  BY Zenon DEF IInv, TypeOK
<1>3. CASE torn
  BY Zenon, <1>2, <1>3, SameFile DEF Tear
<1>4. CASE ~torn
  <2>1. file' = Append(file, Garbled)
    BY Zenon, <1>4 DEF Tear
  <2>2. file' \in Seq(DeadLetter)
    BY <1>1, <1>2, <2>1
  <2>3. Elements(file') = Elements(file) \cup {Garbled}
    BY Zenon, <1>2, <2>1, AppendElements
  <2>4. Spooled' = Spooled
    BY Zenon, <1>1, <2>3 DEF Spooled
  <2>5. QED
    BY Zenon, <2>2, <2>4 DEF Tear
<1>5. QED
  BY Zenon, <1>3, <1>4

\* The event is dropped, and recorded as such.
LEMMA GivenUp ==
  ASSUME IInv, UNCHANGED env, NEW p \in Procs, pc[p] = "write", SpoolDone(p),
         dropped' = dropped \cup {held[p]},
         file' \in Seq(DeadLetter), torn' \in BOOLEAN, Spooled' = Spooled,
         UNCHANGED <<queue, batch, table, lines, writer, accepted>>
  PROVE  IInv'
<1> USE DEF IInv
<1>1. /\ dropped' = dropped \cup {held[p]} /\ pc[p] = "write" /\ SpoolDone(p)
      /\ UNCHANGED <<queue, batch, table, lines, writer, accepted>>
  OBVIOUS
<1>2. /\ held[p] \in Events
      /\ pc' \in [Procs -> {"idle", "fill", "dead", "spool", "write", "lock", "import"}]
      /\ held' \in [Procs -> Events \cup {Nil}] /\ prev' \in [Procs -> Seq(Events)]
      /\ \A q \in Procs : /\ held'[q] = IF q = p THEN Nil ELSE held[q]
                          /\ pc'[q] = IF q = p THEN "idle" ELSE pc[q]
                          /\ held'[q] # Nil <=> pc'[q] \in {"spool", "write"}
  BY Zenon, <1>1, SpoolDoneFacts
<1>3. Spooled' = Spooled /\ Alone' = Alone
  BY Zenon, SameEnv
<1>4. OnTheWay(held[p]) /\ held[p] \in accepted
  BY Zenon, <1>2 DEF OnTheWay, Taken
<1>5. TypeOK'
  BY Zenon, <1>1, <1>2, <1>4 DEF TypeOK
<1>6. OnePlace'
  <2>1. Nil \notin Elements(queue) \cup Elements(batch)
    BY IngestAssumption DEF TypeOK, Elements
  <2>2. QED
    BY Zenon, <1>1, <1>2, <2>1 DEF OnePlace
<1>7. \A e \in Events : /\ OnTheWay(e)' => OnTheWay(e)
                        /\ OnTheWay(e) => OnTheWay(e)' \/ e = held[p]
                        /\ Arrived(e)' <=> Arrived(e)
  BY Zenon, <1>1, <1>2, <1>3, IngestAssumption DEF OnTheWay, Arrived
<1>8. Settled' /\ Taken'
  BY Zenon, <1>1, <1>7 DEF Settled, Taken
<1>9. Tracked'
  <2>1. ASSUME env.reimports => Alone, NEW e \in accepted
        PROVE  OnTheWay(e)' \/ e \in table \/ e \in Spooled \/ e \in dropped'
    <3>1. e \in Events /\ (OnTheWay(e) \/ e \in table \/ e \in Spooled \/ e \in dropped)
      BY Zenon, <2>1 DEF Tracked, TypeOK
    <3>2. QED
      BY Zenon, <1>1, <1>7, <3>1
  <2>2. QED
    BY Zenon, <1>1, <1>3, <2>1 DEF Tracked
<1>10. Callers'
  <2>1. \A t \in Threads : pc'[t] # "idle" => pc'[t] = pc[t]
    BY Zenon, <1>2 DEF Procs
  <2>2. pc'[Drain] # "idle" => pc'[Drain] = pc[Drain]
    BY Zenon, <1>2 DEF Procs
  <2>3. QED
    BY Zenon, <1>1, <1>3, <2>1, <2>2 DEF Callers
<1>11. Growing'
  BY Zenon, <1>1, <1>2 DEF Growing, Procs
<1>12. QED
  BY Zenon, <1>5, <1>6, <1>8, <1>9, <1>10, <1>11

\* A write that fails, or that lands behind a torn line.
LEMMA SpoolWriteInv ==
  ASSUME IInv, UNCHANGED env, NEW p \in Procs, SpoolWrite(p) \/ SpoolFails(p) PROVE IInv'
<1>1. CASE SpoolWrite(p) /\ ~torn
  BY Zenon, <1>1, WriteInv
<1>2. CASE SpoolWrite(p) /\ torn
  <2>1. /\ pc[p] = "write" /\ SpoolDone(p) /\ dropped' = dropped \cup {held[p]}
        /\ file' = file /\ torn' = FALSE /\ UNCHANGED <<queue, batch, table, lines, writer, accepted>>
    BY Zenon, <1>2 DEF SpoolWrite
  <2>2. file' \in Seq(DeadLetter) /\ torn' \in BOOLEAN /\ Spooled' = Spooled
    BY Zenon, <2>1, SameFile DEF IInv, TypeOK
  <2>3. QED
    BY Zenon, <2>1, <2>2, GivenUp
<1>3. CASE SpoolFails(p)
  <2>1. /\ pc[p] = "write" /\ SpoolDone(p) /\ dropped' = dropped \cup {held[p]}
        /\ (file' = file /\ torn' = torn) \/ Tear
        /\ UNCHANGED <<queue, batch, table, lines, writer, accepted>>
    BY Zenon, <1>3 DEF SpoolFails, disk
  <2>2. file' \in Seq(DeadLetter) /\ torn' \in BOOLEAN /\ Spooled' = Spooled
    BY Zenon, <2>1, SameFile, TearFacts DEF IInv, TypeOK
  <2>3. QED
    BY Zenon, <2>1, <2>2, GivenUp
<1>4. QED
  BY Zenon, <1>1, <1>2, <1>3

\* A reimport reads events that are in the file.
LEMMA ReimportReadInv ==
  ASSUME IInv, UNCHANGED env, NEW t \in env.threads, ReimportRead(t) PROVE IInv'
<1> USE DEF IInv
<1> DEFINE read == [i \in DOMAIN file |-> file[i].ev]
<1>1. /\ lines' = [lines EXCEPT ![t] = read] /\ pc' = [pc EXCEPT ![t] = "lock"]
      /\ pc[t] = "idle" /\ env.reimports /\ Linked
      /\ UNCHANGED <<queue, batch, table, file, torn, held, prev, writer, accepted, dropped>>
  BY Zenon DEF ReimportRead, history, disk
<1>2. t \in Threads /\ t \in Procs /\ t # Drain
  BY IngestAssumption DEF TypeOK, Environment, Procs
<1>3. read \in Seq(Events)
  <2>1. DOMAIN file = 1 .. Len(file) /\ Len(file) \in Nat
    BY DEF TypeOK
  <2>2. \A i \in DOMAIN file : file[i] \in DeadLetter
    BY DEF TypeOK
  <2>3. \A i \in DOMAIN file : file[i].ev \in Events
    BY Zenon, <1>1, <2>2 DEF DeadLetter, Linked
  <2>4. QED
    BY <2>1, <2>3
<1>4. Elements(read) = Spooled
  <2>1. \A i \in DOMAIN file : file[i].ev # Nil
    BY Zenon, <1>1 DEF Linked
  <2>2. Elements(read) = {file[i].ev : i \in DOMAIN file}
    BY Zenon DEF Elements
  <2>3. QED
    BY Zenon, <2>1, <2>2 DEF Elements, Spooled
<1> HIDE DEF read
<1>5. Spooled' = Spooled /\ Alone' = Alone
  BY Zenon, <1>1, SameFile, SameEnv
<1>6. TypeOK'
  BY Zenon, <1>1, <1>2, <1>3 DEF TypeOK
<1>7. \A u \in Threads : lines'[u] = IF u = t THEN read ELSE lines[u]
  BY Zenon, <1>1, <1>2 DEF TypeOK
<1>8. \A e \in Events : (OnTheWay(e)' <=> OnTheWay(e)) /\ (Arrived(e)' => Arrived(e))
  BY Zenon, <1>1, <1>2, <1>4, <1>5, <1>7 DEF OnTheWay, Arrived
<1>9. OnePlace'
  BY Zenon, <1>1 DEF OnePlace
<1>10. Settled' /\ Taken'
  BY Zenon, <1>1, <1>8 DEF Settled, Taken
<1>11. Tracked'
  BY Zenon, <1>1, <1>5, <1>8 DEF Tracked, TypeOK
<1>12. Callers'
  BY Zenon, <1>1, <1>2, <1>4, <1>5, <1>7 DEF Callers, TypeOK, Procs
<1>13. Growing'
  BY Zenon, <1>1, <1>2 DEF Growing, TypeOK, Procs
<1>14. QED
  BY Zenon, <1>6, <1>9, <1>10, <1>11, <1>12, <1>13

\* Taking the writer lock changes nothing the invariant is about but pc.
LEMMA ReimportLockInv ==
  ASSUME IInv, UNCHANGED env, NEW t \in env.threads, ReimportLock(t) PROVE IInv'
<1> USE DEF IInv
<1>1. /\ writer' = t /\ pc' = [pc EXCEPT ![t] = "import"] /\ pc[t] = "lock"
      /\ UNCHANGED <<queue, batch, table, file, torn, held, prev, lines, accepted, dropped>>
  BY Zenon DEF ReimportLock, history, disk
<1>2. t \in Threads /\ t \in Procs /\ t # Drain
  BY IngestAssumption DEF TypeOK, Environment, Procs
<1>3. Spooled' = Spooled /\ Alone' = Alone
  BY Zenon, <1>1, SameFile, SameEnv
<1>4. TypeOK'
  BY Zenon, <1>1, <1>2 DEF TypeOK
<1>5. OnePlace' /\ Settled' /\ Taken' /\ Tracked'
  BY Zenon, <1>1, <1>3 DEF OnePlace, Settled, Taken, Tracked, OnTheWay, Arrived
<1>6. Callers'
  BY <1>1, <1>2, <1>3 DEF Callers, TypeOK, Procs
<1>7. Growing'
  BY Zenon, <1>1, <1>2 DEF Growing, TypeOK, Procs
<1>8. QED
  BY Zenon, <1>4, <1>5, <1>6, <1>7

\* An import moves an event from the lines to the table.
LEMMA ImportInv ==
  ASSUME IInv, UNCHANGED env, NEW t \in env.threads, Import(t) PROVE IInv'
<1> USE DEF IInv
<1> DEFINE h == Head(lines[t])
           rest == Tail(lines[t])
<1>1. t \in Threads /\ t \in Procs /\ t # Drain
  BY IngestAssumption DEF TypeOK, Environment, Procs
<1>2. /\ table' = table \cup {h} /\ lines' = [lines EXCEPT ![t] = rest]
      /\ pc[t] = "import" /\ lines[t] # << >>
      /\ UNCHANGED <<queue, batch, file, torn, pc, held, prev, writer, accepted, dropped>>
  BY Zenon, <1>1 DEF Import, spool, history, disk, TypeOK
<1>3. h \in Events /\ rest \in Seq(Events) /\ Elements(lines[t]) = {h} \cup Elements(rest)
  BY Zenon, <1>1, <1>2, HeadTailElements DEF TypeOK
<1> HIDE DEF h, rest
<1>4. Spooled' = Spooled /\ Alone' = Alone
  BY Zenon, <1>2, SameFile, SameEnv
<1>5. TypeOK'
  BY Zenon, <1>1, <1>2, <1>3 DEF TypeOK
<1>6. \A u \in Threads : lines'[u] = IF u = t THEN rest ELSE lines[u]
  BY Zenon, <1>1, <1>2 DEF TypeOK
<1>7. \A e \in Events : (OnTheWay(e)' <=> OnTheWay(e)) /\ (Arrived(e)' => Arrived(e))
  BY Zenon, <1>1, <1>2, <1>3, <1>4, <1>6 DEF OnTheWay, Arrived
<1>8. OnePlace'
  BY Zenon, <1>2 DEF OnePlace
<1>9. Settled' /\ Taken'
  BY Zenon, <1>2, <1>7 DEF Settled, Taken
<1>10. Tracked'
  BY Zenon, <1>2, <1>4, <1>7 DEF Tracked, TypeOK
<1>11. Callers'
  <2>1. ASSUME NEW u \in Threads, pc[u] \in {"lock", "import"}, Alone
        PROVE  Spooled \subseteq table' \cup Elements(lines'[u])
    <3>1. Spooled \subseteq table \cup Elements(lines[u])
      BY Zenon, <2>1 DEF Callers
    <3>2. QED
      BY Zenon, <1>2, <1>3, <1>6, <3>1
  <2>2. QED
    BY Zenon, <1>2, <1>4, <2>1 DEF Callers
<1>12. Growing'
  BY Zenon, <1>2 DEF Growing
<1>13. QED
  BY Zenon, <1>5, <1>8, <1>9, <1>10, <1>11, <1>12

\* The end of a reimport forgets its lines.
LEMMA ReimportReturnsFacts ==
  ASSUME IInv, NEW t \in env.threads, pc[t] = "import", ReimportReturns(t)
  PROVE  /\ t \in Threads /\ t \in Procs /\ t # Drain
         /\ writer' = Nil /\ lines' \in [Threads -> Seq(Events)]
         /\ pc' \in [Procs -> {"idle", "fill", "dead", "spool", "write", "lock", "import"}]
         /\ \A u \in Threads : lines'[u] = IF u = t THEN << >> ELSE lines[u]
         /\ \A p \in Procs : pc'[p] = IF p = t THEN "idle" ELSE pc[p]
         /\ \A e : \A u \in Threads : e \in Elements(lines'[u]) => e \in Elements(lines[u])
<1>1. t \in Threads /\ t \in Procs /\ t # Drain
  BY IngestAssumption DEF IInv, TypeOK, Environment, Procs
<1>2. /\ writer' = Nil /\ lines' \in [Threads -> Seq(Events)]
      /\ pc' \in [Procs -> {"idle", "fill", "dead", "spool", "write", "lock", "import"}]
      /\ \A u \in Threads : lines'[u] = IF u = t THEN << >> ELSE lines[u]
      /\ \A p \in Procs : pc'[p] = IF p = t THEN "idle" ELSE pc[p]
  BY <1>1 DEF IInv, TypeOK, ReimportReturns
<1>3. QED
  BY Zenon, <1>1, <1>2, EmptyElements

\* A refused insert ends the reimport and leaves table and file.
LEMMA ImportFailsInv ==
  ASSUME IInv, UNCHANGED env, NEW t \in env.threads, ImportFails(t) PROVE IInv'
<1> USE DEF IInv
<1>1. /\ pc[t] = "import" /\ ReimportReturns(t)
      /\ UNCHANGED <<queue, batch, table, file, torn, held, prev, accepted, dropped>>
  BY Zenon DEF ImportFails, history, disk
<1>2. /\ t \in Threads /\ t \in Procs /\ t # Drain
      /\ writer' = Nil /\ lines' \in [Threads -> Seq(Events)]
      /\ pc' \in [Procs -> {"idle", "fill", "dead", "spool", "write", "lock", "import"}]
      /\ \A u \in Threads : lines'[u] = IF u = t THEN << >> ELSE lines[u]
      /\ \A p \in Procs : pc'[p] = IF p = t THEN "idle" ELSE pc[p]
      /\ \A e : \A u \in Threads : e \in Elements(lines'[u]) => e \in Elements(lines[u])
  BY Zenon, <1>1, ReimportReturnsFacts
<1>3. Spooled' = Spooled /\ Alone' = Alone
  BY Zenon, <1>1, SameFile, SameEnv
<1>4. TypeOK'
  BY Zenon, <1>1, <1>2 DEF TypeOK
<1>5. \A e \in Events : (OnTheWay(e)' <=> OnTheWay(e)) /\ (Arrived(e)' => Arrived(e))
  BY Zenon, <1>1, <1>2, <1>3 DEF OnTheWay, Arrived
<1>6. OnePlace'
  BY Zenon, <1>1 DEF OnePlace
<1>7. Settled' /\ Taken'
  BY Zenon, <1>1, <1>5 DEF Settled, Taken
<1>8. Tracked'
  BY Zenon, <1>1, <1>3, <1>5 DEF Tracked, TypeOK
<1>9. Callers'
  <2>1. \A u \in Threads : pc'[u] # "idle" => pc'[u] = pc[u] /\ lines'[u] = lines[u]
    BY Zenon, <1>2 DEF Procs
  <2>2. pc'[Drain] = pc[Drain]
    BY Zenon, <1>2 DEF Procs
  <2>3. QED
    BY Zenon, <1>1, <1>3, <2>1, <2>2 DEF Callers
<1>10. Growing'
  BY Zenon, <1>1, <1>2 DEF Growing, Procs
<1>11. QED
  BY Zenon, <1>4, <1>6, <1>7, <1>8, <1>9, <1>10

\* Clearing the file loses nothing when the reimport runs alone: all that is
\* in the file by then is in the table.
LEMMA ClearFileInv ==
  ASSUME IInv, UNCHANGED env, NEW t \in env.threads, ClearFile(t) PROVE IInv'
<1> USE DEF IInv
<1>1. /\ pc[t] = "import" /\ ReimportReturns(t) /\ lines[t] = << >>
      /\ (file' = << >> /\ torn' = FALSE) \/ (file' = file /\ torn' = torn)
      /\ UNCHANGED <<queue, batch, table, held, prev, accepted, dropped>>
  BY Zenon DEF ClearFile, history, disk
<1>2. /\ t \in Threads /\ t \in Procs /\ t # Drain
      /\ writer' = Nil /\ lines' \in [Threads -> Seq(Events)]
      /\ pc' \in [Procs -> {"idle", "fill", "dead", "spool", "write", "lock", "import"}]
      /\ \A u \in Threads : lines'[u] = IF u = t THEN << >> ELSE lines[u]
      /\ \A p \in Procs : pc'[p] = IF p = t THEN "idle" ELSE pc[p]
      /\ \A e : \A u \in Threads : e \in Elements(lines'[u]) => e \in Elements(lines[u])
  BY Zenon, <1>1, ReimportReturnsFacts
<1>3. Spooled' \subseteq Spooled /\ Alone' = Alone
  BY Zenon, <1>1, SameEnv, EmptyElements DEF Spooled
<1>4. Alone => Spooled \subseteq table
  BY Zenon, <1>1, <1>2, EmptyElements DEF Callers
<1>5. env.reimports
  BY Zenon, <1>1, <1>2 DEF Callers
<1>6. TypeOK'
  <2>1. file \in Seq(DeadLetter) /\ << >> \in Seq(DeadLetter)
    BY DEF TypeOK
  <2>2. file' \in Seq(DeadLetter) /\ torn' \in BOOLEAN
    BY Zenon, <1>1, <2>1 DEF TypeOK
  <2>3. QED
    BY Zenon, <1>1, <1>2, <2>2 DEF TypeOK
<1>7. \A e \in Events : (OnTheWay(e)' <=> OnTheWay(e)) /\ (Arrived(e)' => Arrived(e))
  BY <1>1, <1>2, <1>3 DEF OnTheWay, Arrived
<1>8. OnePlace'
  BY Zenon, <1>1 DEF OnePlace
<1>9. Settled' /\ Taken'
  BY Zenon, <1>1, <1>7 DEF Settled, Taken
<1>10. Tracked'
  BY Zenon, <1>1, <1>3, <1>4, <1>5, <1>7 DEF Tracked, TypeOK
<1>11. Callers'
  <2>1. \A u \in Threads : pc'[u] # "idle" => pc'[u] = pc[u] /\ lines'[u] = lines[u]
    BY Zenon, <1>2 DEF Procs
  <2>2. pc'[Drain] = pc[Drain]
    BY Zenon, <1>2 DEF Procs
  <2>3. QED
    BY Zenon, <1>1, <1>3, <2>1, <2>2 DEF Callers
<1>12. Growing'
  BY Zenon, <1>1, <1>2 DEF Growing, Procs
<1>13. QED
  BY Zenon, <1>6, <1>8, <1>9, <1>10, <1>11, <1>12

\* A crash drops what was on its way, and records it.
LEMMA CrashInv ==
  ASSUME IInv, UNCHANGED env, Crash PROVE IInv'
<1> USE DEF IInv
<1>1. /\ dropped' = dropped \cup Elements(queue) \cup Elements(batch)
                            \cup ({held[p] : p \in Procs} \ {Nil})
      /\ queue' = << >> /\ batch' = << >> /\ writer' = Nil
      /\ pc' = [p \in Procs |-> "idle"] /\ held' = [p \in Procs |-> Nil]
      /\ prev' = [p \in Procs |-> << >>] /\ lines' = [t \in Threads |-> << >>]
      /\ (file' = file /\ torn' = torn) \/ Tear
      /\ UNCHANGED <<table, accepted>>
  BY Zenon DEF Crash, Genesis, disk
<1>2. Spooled' = Spooled /\ file' \in Seq(DeadLetter) /\ torn' \in BOOLEAN
  BY Zenon, <1>1, SameFile, TearFacts DEF TypeOK
<1>3. dropped' \subseteq accepted
  <2>1. Elements(queue) \subseteq Events /\ Elements(batch) \subseteq Events
    BY DEF TypeOK, Elements
  <2>2. \A p \in Procs : held[p] # Nil => held[p] \in Events
    BY Zenon DEF TypeOK
  <2>3. QED
    BY Zenon, <1>1, <2>1, <2>2 DEF Taken, OnTheWay, TypeOK
<1>4. TypeOK'
  <2>1. queue' \in Seq(Events) /\ batch' \in Seq(Events) /\ Len(queue') = 0 /\ Len(batch') = 0
    BY <1>1
  <2>2. Len(queue') <= QueueCap /\ Len(batch') <= BatchMax
    BY <2>1, IngestAssumption
  <2>3. QED
    BY Zenon, <1>1, <1>2, <1>3, <2>1, <2>2 DEF TypeOK
<1>5. \A e \in Events : ~OnTheWay(e)' /\ (Arrived(e)' => Arrived(e))
  BY Zenon, <1>1, <1>2, EmptyElements, IngestAssumption DEF OnTheWay, Arrived
<1>6. OnePlace'
  BY Zenon, <1>1, EmptyElements DEF OnePlace
<1>7. Settled' /\ Taken'
  BY Zenon, <1>1, <1>5 DEF Settled, Taken
<1>8. Tracked'
  <2>1. \A e \in accepted : OnTheWay(e) => e \in dropped'
    BY Zenon, <1>1, IngestAssumption DEF OnTheWay, TypeOK
  <2>2. Alone' = Alone
    BY Zenon, SameEnv
  <2>3. QED
    BY Zenon, <1>1, <1>2, <2>1, <2>2 DEF Tracked
<1>9. Callers' /\ Growing'
  BY Zenon, <1>1 DEF Callers, Growing, Procs
<1>10. QED
  BY Zenon, <1>4, <1>6, <1>7, <1>8, <1>9

\* So does the end of the drain thread.
LEMMA DrainDiesInv ==
  ASSUME IInv, UNCHANGED env, DrainDies PROVE IInv'
<1> USE DEF IInv
<1>1. /\ dropped' = dropped \cup Elements(queue) \cup Elements(batch)
      /\ queue' = << >> /\ batch' = << >> /\ pc[Drain] \in {"idle", "fill"}
      /\ pc' = [pc EXCEPT ![Drain] = "dead"]
      /\ UNCHANGED <<table, file, torn, held, prev, lines, writer, accepted>>
  BY Zenon DEF DrainDies, disk
<1>2. Spooled' = Spooled /\ Alone' = Alone
  BY Zenon, <1>1, SameFile, SameEnv
<1>3. Drain \in Procs /\ Drain \notin Threads
  BY Zenon, IngestAssumption DEF Procs
<1>4. dropped' \subseteq accepted
  <2>1. Elements(queue) \subseteq Events /\ Elements(batch) \subseteq Events
    BY DEF TypeOK, Elements
  <2>2. QED
    BY Zenon, <1>1, <2>1 DEF Taken, OnTheWay, TypeOK
<1>5. pc'[Drain] = "dead" /\ \A p \in Procs : p # Drain => pc'[p] = pc[p]
  BY Zenon, <1>1, <1>3 DEF TypeOK
<1>6. TypeOK'
  <2>1. queue' \in Seq(Events) /\ batch' \in Seq(Events) /\ Len(queue') = 0 /\ Len(batch') = 0
    BY <1>1
  <2>2. Len(queue') <= QueueCap /\ Len(batch') <= BatchMax
    BY <2>1, IngestAssumption
  <2>3. held[Drain] = Nil
    BY Zenon, <1>1, <1>3 DEF TypeOK
  <2>4. pc' \in [Procs -> {"idle", "fill", "dead", "spool", "write", "lock", "import"}]
    BY Zenon, <1>1 DEF TypeOK
  <2>5. \A p \in Procs : held'[p] # Nil <=> pc'[p] \in {"spool", "write"}
    BY Zenon, <1>1, <1>5, <2>3 DEF TypeOK
  <2>6. QED
    BY Zenon, <1>1, <1>4, <2>1, <2>2, <2>4, <2>5 DEF TypeOK
<1>7. OnePlace'
  BY Zenon, <1>1, EmptyElements DEF OnePlace
<1>8. \A e \in Events : /\ OnTheWay(e)' => OnTheWay(e)
                        /\ OnTheWay(e) => OnTheWay(e)' \/ e \in dropped'
                        /\ Arrived(e)' => Arrived(e)
  BY Zenon, <1>1, <1>2, EmptyElements DEF OnTheWay, Arrived
<1>9. Settled' /\ Taken'
  BY Zenon, <1>1, <1>8 DEF Settled, Taken
<1>10. Tracked'
  <2>1. ASSUME env.reimports => Alone, NEW e \in accepted
        PROVE  OnTheWay(e)' \/ e \in table \/ e \in Spooled \/ e \in dropped'
    <3>1. e \in Events /\ (OnTheWay(e) \/ e \in table \/ e \in Spooled \/ e \in dropped)
      BY Zenon, <2>1 DEF Tracked, TypeOK
    <3>2. QED
      BY Zenon, <1>1, <1>8, <3>1
  <2>2. QED
    BY Zenon, <1>1, <1>2, <2>1 DEF Tracked
<1>11. Callers'
  <2>1. \A t \in Threads : pc'[t] = pc[t]
    BY Zenon, <1>3, <1>5 DEF Procs
  <2>2. QED
    BY Zenon, <1>1, <1>2, <1>5, <2>1 DEF Callers
<1>12. QED
  BY Zenon, <1>5, <1>6, <1>7, <1>9, <1>10, <1>11 DEF Growing

\* Every step keeps the inductive invariant.
LEMMA StepInv == IInv /\ [Next]_vars => IInv'
<1> SUFFICES ASSUME IInv, [Next]_vars PROVE IInv'
  BY Zenon
<1>1. CASE UNCHANGED vars
  <2>1. UNCHANGED <<env, queue, batch, table, file, torn, pc, held, prev, lines, writer, accepted, dropped>>
    BY Zenon, <1>1 DEF vars
  <2>2. Spooled' = Spooled /\ Alone' = Alone
    BY Zenon, <2>1, SameFile, SameEnv
  <2>3. TypeOK' /\ OnePlace' /\ Growing'
    BY Zenon, <2>1 DEF IInv, TypeOK, OnePlace, Growing
  <2>4. Settled' /\ Taken' /\ Tracked' /\ Callers'
    BY Zenon, <2>1, <2>2 DEF IInv, Settled, Taken, Tracked, Callers, OnTheWay, Arrived
  <2>5. QED
    BY Zenon, <2>3, <2>4 DEF IInv
<1>2. CASE Next
  <2>1. UNCHANGED env /\ env.events \subseteq Events
    BY Zenon, <1>2, IngestAssumption DEF Next, IInv, TypeOK, Environment
  <2>2. ASSUME NEW t \in env.threads, Reimport(t) PROVE IInv'
    BY Zenon, <2>1, <2>2, ReimportReadInv, ReimportLockInv, ImportInv, ImportFailsInv, ClearFileInv
    DEF Reimport
  <2>3. ASSUME NEW t \in env.threads, NEW e \in env.events, AppendLow(t, e) PROVE IInv'
    BY Zenon, <2>1, <2>3, AppendLowInv
  <2>4. ASSUME NEW p \in Procs, Spooling(p) PROVE IInv'
    BY Zenon, <2>1, <2>4, SpoolReadInv, SpoolWriteInv DEF Spooling
  <2>5. ASSUME Draining PROVE IInv'
    BY Zenon, <2>1, <2>5, ReceiveInv, FillInv, DrainInsertInv, DrainInsertFailsInv DEF Draining
  <2>6. ASSUME Crash \/ DrainDies PROVE IInv'
    BY Zenon, <2>1, <2>6, CrashInv, DrainDiesInv
  <2>7. QED
    BY Zenon, <1>2, <2>2, <2>3, <2>4, <2>5, <2>6 DEF Next
<1>3. QED
  BY Zenon, <1>1, <1>2

\* The inductive invariant implies what the properties say.
LEMMA InvImplies == IInv => TypeOK /\ NothingDropped /\ NotInsertedTwice
<1> SUFFICES ASSUME IInv PROVE NothingDropped /\ NotInsertedTwice
  BY Zenon DEF IInv
<1>1. NothingDropped
  BY Zenon DEF IInv, Tracked, OnTheWay, NothingDropped
<1>2. /\ Elements(queue) \subseteq Events /\ Elements(batch) \subseteq Events
      /\ table \subseteq Events /\ Elements(file) \subseteq DeadLetter
  BY DEF IInv, TypeOK, Elements
<1>3. Spooled \subseteq Events
  BY Zenon, <1>2 DEF Spooled, DeadLetter
<1>4. ASSUME NEW e \in table \cup Spooled,
             e \in Elements(queue) \cup Elements(batch) \cup {held[p] : p \in Procs}
      PROVE  FALSE
  <2>1. e \in Events /\ Arrived(e)
    BY Zenon, <1>2, <1>3 DEF Arrived
  <2>2. OnTheWay(e)
    BY Zenon, <1>4 DEF OnTheWay
  <2>3. QED
    BY Zenon, <2>1, <2>2 DEF IInv, Settled
<1>5. NotInsertedTwice
  BY Zenon, <1>4 DEF NotInsertedTwice
<1>6. QED
  BY Zenon, <1>1, <1>5

\* The inductive invariant holds throughout.
LEMMA Inductive == Spec => []IInv
  BY InitInv, StepInv, PTL DEF Spec

\* Types: the queue never exceeds its capacity nor a batch its size, and a
\* thread holds an event exactly while spool_dead_letter runs.
THEOREM TypeCorrect == Spec => []TypeOK
  BY Inductive, InvImplies, PTL

\* An accepted event is in the table, in the dead-letter file or on its way to
\* them, unless a crash or an unwritable file took it: append_event, the drain
\* and spool_dead_letter drop nothing, nor does reimport_dead_letter when its
\* caller is the only one.
THEOREM NoEventDropped == Spec => []NothingDropped
  BY Inductive, InvImplies, PTL

\* No event is in the table or the file while it is still on its way there,
\* for any number of callers, reimports, failures and crashes.
THEOREM EventsMoveOnce == Spec => []NotInsertedTwice
  BY Inductive, InvImplies, PTL

-----------------------------------------------------------------------------
(* KeyLifecycle: what the keys of stored rows and tokens are.                 *)

\* The versions are an initial segment of the positive numbers that ends at
\* TokenStore's counter, one further between RotateInsert and RotateBump.  Only
\* the seed may lack its anchor, and only until the first successful start.
Versioned ==
  /\ up /\ rotating # "inserted" => Known = 1 .. tver
  /\ rotating = "inserted" => up /\ tver + 1 \in Versions /\ Known = 1 .. tver + 1
  /\ ~up => rotating = "no" /\ \E n \in 0 .. MaxVersion : Known = 1 .. n
  /\ up => aver <= tver /\ \A v \in Known : anchors[v] \in Masters
  /\ \A v \in Known : v # 1 => anchors[v] \in Masters

\* x was in use no later than y.
Before(x, y) == \E i, j \in DOMAIN used : i <= j /\ used[i] = x /\ used[j] = y

\* A row or line records a version that has its anchor, by a master in use
\* before the one that signed it as long as no start has gone back, and is what
\* was written unless something has been altered.
Fits(r) ==
  /\ anchors[r.kv] \in Masters
  /\ returned \/ Before(anchors[r.kv], r.key)
  /\ touched \/ r.ok

WellStored ==
  /\ \A i \in DOMAIN rows : Fits(rows[i])
  /\ \A l \in side : Fits(l)
  /\ \A t \in tokens : anchors[t.kv] \in Masters

\* The order of use: anchors are by masters that were in use, and a running
\* daemon has the latest one as long as no start has gone back.
InOrder ==
  /\ \A i, j \in DOMAIN used : used[i] = used[j] => i = j
  /\ \A v \in Versions : anchors[v] \in Masters => InUse(anchors[v])
  /\ up => InUse(master)
  /\ up /\ ~returned => master = used[Len(used)]

\* Where the environment gives no key, the Keychain holds the key exported last
\* or none, so that no start goes back.
Last == escrow[Len(escrow)]
Onward ==
  /\ envKey = NoKey /\ ~returned
  /\ keychain # NoKey => escrow # << >> /\ keychain = Last
  /\ \A i \in DOMAIN used : Exported(used[i])
  /\ escrow # << >> /\ InUse(Last) => Last = used[Len(used)]

\* In a plain installation the key exported last is the only one in use.
OneKey ==
  /\ up => escrow # << >> /\ master = Last
  /\ \A i \in DOMAIN rows : escrow # << >> /\ rows[i].key = Last
  /\ \A t \in tokens : escrow # << >> /\ t.key = Last

KeyInv ==
  /\ KeyTypeOK /\ Versioned /\ WellStored /\ InOrder
  /\ (site.envKeys = {} => Onward) /\ (Plain => OneKey)
  /\ NoFalseTamper /\ CheckpointVouched

-----------------------------------------------------------------------------

\* The initial state satisfies the inductive invariant.
LEMMA KeyInitInv == KeyInit => KeyInv
<1> SUFFICES ASSUME KeyInit PROVE KeyInv
  BY Zenon
<1>1. KeyTypeOK
  <2>1. 1 \in Versions
    BY KeyAssumption DEF Versions
  <2>2. anchors \in [Versions -> Masters \cup {NoKey, Absent}]
    BY Zenon DEF KeyInit
  <2>3. /\ rows \in Seq(RowType) /\ escrow \in Seq(Masters) /\ used \in Seq(Masters)
        /\ cp \in 0 .. Len(rows)
    BY DEF KeyInit
  <2>4. report \in [tampered : BOOLEAN, unknown : 0 .. 1]
    BY DEF KeyInit, NoReport
  <2>5. QED
    BY Zenon, <2>1, <2>2, <2>3, <2>4, KeyAssumption DEF KeyInit, KeyTypeOK
<1>2. Known = {} /\ 1 .. 0 = {}
  BY DEF KeyInit, Known
<1>3. Versioned
  BY <1>2, KeyAssumption DEF KeyInit, Versioned
<1>4. WellStored /\ OneKey /\ InOrder /\ Onward
  <2>1. DOMAIN rows = {} /\ DOMAIN used = {}
    BY DEF KeyInit
  <2>2. \A v \in Versions : anchors[v] \notin Masters
    BY Zenon, KeyAssumption DEF KeyInit
  <2>3. QED
    BY Zenon, <2>1, <2>2 DEF KeyInit, WellStored, OneKey, InOrder, Onward, InUse
<1>5. NoFalseTamper /\ CheckpointVouched
  BY DEF KeyInit, NoFalseTamper, CheckpointVouched, NoReport
<1>6. QED
  BY Zenon, <1>1, <1>3, <1>4, <1>5 DEF KeyInv

\* What is stored has the types of its rows.
LEMMA StoredTypes ==
  ASSUME KeyTypeOK
  PROVE  /\ \A i \in DOMAIN rows : /\ rows[i] \in RowType /\ rows[i].kv \in Versions
                                   /\ rows[i].key \in Masters /\ rows[i].ok \in BOOLEAN
         /\ \A l \in side : l.kv \in Versions /\ l.key \in Masters /\ l.ok \in BOOLEAN
         /\ \A t \in tokens : t.kv \in Versions
<1>1. \A i \in DOMAIN rows : rows[i] \in RowType
  BY DEF KeyTypeOK
<1>2. \A l \in side : l \in LineType
  BY Zenon DEF KeyTypeOK
<1>3. \A t \in tokens : t \in TokenType
  BY Zenon DEF KeyTypeOK
<1>4. QED
  BY Zenon, <1>1, <1>2, <1>3 DEF RowType, LineType, TokenType

\* Plain is about the installation.
LEMMA SameSite == ASSUME UNCHANGED site PROVE Plain' = Plain
  BY Zenon DEF Plain

\* Known is about the anchors.
LEMMA SameAnchors == ASSUME UNCHANGED anchors PROVE Known' = Known
  BY Zenon DEF Known

\* The order of use is about the anchors, the master and the history.
LEMMA OrderStays ==
  ASSUME InOrder, UNCHANGED <<anchors, used, returned>>,
         up' => up /\ master' = master
  PROVE  InOrder'
  BY Zenon DEF InOrder, InUse

\* That no start goes back is about the keys and the history.
LEMMA OnwardStays ==
  ASSUME Onward, UNCHANGED <<keychain, envKey, escrow, used, returned>> PROVE Onward'
  BY Zenon DEF Onward, Last, InUse, Exported

\* What is stored stays so when anchors are only added, the order of use only
\* grows at its end, and nothing is taken back.
LEMMA StoredStays ==
  ASSUME KeyInv, UNCHANGED <<rows, side, tokens, touched>>,
         \A v \in Versions : anchors[v] \in Masters => anchors'[v] = anchors[v],
         \A i \in DOMAIN used : i \in DOMAIN used' /\ used'[i] = used[i],
         returned => returned'
  PROVE  WellStored'
<1>1. ASSUME NEW x, NEW y, Before(x, y) PROVE Before(x, y)'
  <2>1. PICK i, j \in DOMAIN used : i <= j /\ used[i] = x /\ used[j] = y
    BY Zenon, <1>1 DEF Before
  <2>2. i \in DOMAIN used' /\ j \in DOMAIN used' /\ used'[i] = x /\ used'[j] = y
    BY Zenon, <2>1
  <2>3. QED
    BY Zenon, <2>1, <2>2 DEF Before
<1>2. \A r : r.kv \in Versions /\ Fits(r) => Fits(r)'
  BY Zenon, <1>1 DEF Fits
<1>3. QED
  BY Zenon, <1>2, StoredTypes DEF KeyInv, WellStored

\* An installation that is not running: its versions end at some n, and a
\* start finds the newest of them, or the seed.
LEMMA SeededFacts ==
  ASSUME KeyInv, ~up
  PROVE  /\ Seeded \in [Versions -> Masters \cup {NoKey, Absent}]
         /\ \E n \in Versions : {v \in Versions : Seeded[v] # Absent} = 1 .. n
         /\ \A v \in Known : Seeded[v] = anchors[v]
         /\ \A v \in Versions : Seeded[v] # Absent /\ v # 1 => Seeded[v] \in Masters
<1> USE DEF KeyInv
<1>1. 1 \in Versions /\ MaxVersion \in Nat
  BY KeyAssumption DEF Versions
<1>2. /\ Seeded \in [Versions -> Masters \cup {NoKey, Absent}]
      /\ \A v \in Versions : v # 1 => Seeded[v] = anchors[v]
      /\ Seeded[1] = IF anchors[1] = Absent THEN NoKey ELSE anchors[1]
  BY Zenon, <1>1 DEF KeyTypeOK, Seeded
<1>3. Seeded[1] # Absent
  BY Zenon, <1>2, KeyAssumption
<1>4. PICK n \in 0 .. MaxVersion : Known = 1 .. n
  BY Zenon DEF Versioned
<1>5. CASE n = 0
  <2>1. \A v \in Versions : anchors[v] = Absent
    BY <1>4, <1>5 DEF Known
  <2>2. {v \in Versions : Seeded[v] # Absent} = {1}
    BY Zenon, <1>1, <1>2, <1>3, <2>1
  <2>3. {1} = 1 .. 1
    OBVIOUS
  <2>4. QED
    BY Zenon, <1>1, <1>2, <2>1, <2>2, <2>3 DEF Known
<1>6. CASE n # 0
  <2>1. 1 \in Known /\ n \in Versions
    BY <1>1, <1>4, <1>6 DEF Versions
  <2>2. \A v \in Versions : Seeded[v] = anchors[v]
    BY Zenon, <1>2, <2>1 DEF Known
  <2>3. {v \in Versions : Seeded[v] # Absent} = Known
    BY Zenon, <2>2 DEF Known
  <2>4. QED
    BY Zenon, <1>2, <1>4, <2>1, <2>2, <2>3 DEF Known, Versioned
<1>7. QED
  BY Zenon, <1>5, <1>6

\* A start takes a key, fills in missing anchors and continues with the newest
\* version.
LEMMA StartInv ==
  ASSUME KeyInv, UNCHANGED site, NEW m \in Masters, Start(m) PROVE KeyInv'
<1> USE DEF KeyInv
<1> DEFINE known == {v \in Versions : Seeded[v] # Absent}
           newest == CHOOSE v \in known : \A w \in known : w <= v
<1>1. /\ ~up /\ Loads(m) /\ up' = TRUE /\ master' = m /\ anchors' = Backfilled(m)
      /\ tver' = newest /\ aver' = newest
      /\ used' = IF InUse(m) THEN used ELSE Append(used, m)
      /\ returned' = (returned \/ (InUse(m) /\ m # used[Len(used)]))
      /\ UNCHANGED <<envKey, rotating, rows, side, tokens, cp, report, touched>>
  BY Zenon DEF Start, data
<1>2. /\ Seeded \in [Versions -> Masters \cup {NoKey, Absent}]
      /\ \A v \in Known : Seeded[v] = anchors[v]
      /\ \A v \in Versions : Seeded[v] # Absent /\ v # 1 => Seeded[v] \in Masters
  BY Zenon, <1>1, SeededFacts
<1>3. PICK n \in Versions : known = 1 .. n
  BY Zenon, <1>1, SeededFacts
<1>4. newest = n
  <2>1. n \in known /\ \A w \in known : w <= n
    BY <1>3 DEF Versions
  <2>2. newest \in known /\ \A w \in known : w <= newest
    BY Zenon, <2>1
  <2>3. n <= newest /\ newest <= n /\ n \in Nat /\ newest \in Nat
    BY <1>3, <2>1, <2>2 DEF Versions
  <2>4. QED
    BY <2>3
<1>5. /\ anchors' \in [Versions -> Masters \cup {Absent}]
      /\ \A v \in Versions : anchors'[v] = IF Seeded[v] = NoKey THEN m ELSE Seeded[v]
  BY Zenon, <1>1, <1>2 DEF Backfilled
<1>6. Known' = 1 .. n
  <2>1. \A v \in Versions : anchors'[v] # Absent <=> Seeded[v] # Absent
    BY Zenon, <1>5, KeyAssumption
  <2>2. Known' = known
    BY Zenon, <2>1 DEF Known
  <2>3. QED
    BY Zenon, <1>3, <2>2
<1>7. \A v \in Versions : anchors[v] \in Masters => anchors'[v] = anchors[v]
  <2>1. \A v \in Versions : anchors[v] \in Masters => v \in Known /\ anchors[v] # NoKey
    BY Zenon, KeyAssumption DEF Known
  <2>2. QED
    BY Zenon, <1>2, <1>5, <2>1
<1>8. tver' = n /\ aver' = n
  BY Zenon, <1>1, <1>4
<1> HIDE DEF known, newest
<1>9. /\ keychain' \in Masters \cup {NoKey} /\ escrow' \in Seq(Masters)
  <2>1. Append(escrow, m) \in Seq(Masters) /\ escrow \in Seq(Masters)
    BY DEF KeyTypeOK
  <2>2. QED
    BY Zenon, <1>1, <2>1 DEF Loads, KeyTypeOK
<1>10. \A v \in Known' : anchors'[v] \in Masters
  BY Zenon, <1>5 DEF Known
<1>11. KeyTypeOK'
  <2>1. \A v \in Versions : v <= tver' => anchors'[v] \in Masters
    BY <1>3, <1>6, <1>8, <1>10 DEF Versions
  <2>2. used' \in Seq(Masters) /\ returned' \in BOOLEAN
    BY <1>1 DEF KeyTypeOK
  <2>3. QED
    BY Zenon, <1>1, <1>3, <1>5, <1>8, <1>9, <2>1, <2>2 DEF KeyTypeOK
<1>12. Versioned'
  <2>1. n <= n
    BY <1>3 DEF Versions
  <2>2. rotating' # "inserted"
    BY Zenon, <1>1 DEF Versioned
  <2>3. QED
    BY Zenon, <1>1, <1>6, <1>8, <1>10, <2>1, <2>2 DEF Versioned
<1>13. /\ \A i \in DOMAIN used : i \in DOMAIN used' /\ used'[i] = used[i]
       /\ \E k \in DOMAIN used' : used'[k] = m
       /\ ~InUse(m) => Len(used') = Len(used) + 1 /\ used'[Len(used')] = m
                       /\ DOMAIN used' = DOMAIN used \cup {Len(used')}
       /\ InUse(m) => used' = used
  <2>1. CASE InUse(m)
    BY Zenon, <1>1, <2>1 DEF InUse
  <2>2. CASE ~InUse(m)
    <3>1. used' = Append(used, m) /\ used \in Seq(Masters)
      BY Zenon, <1>1, <2>2 DEF KeyTypeOK
    <3>2. Len(used') \in DOMAIN used' /\ used'[Len(used')] = m
      BY <3>1
    <3>3. QED
      BY <2>2, <3>1, <3>2
  <2>3. QED
    BY Zenon, <2>1, <2>2
<1>20. WellStored'
  BY Zenon, <1>1, <1>7, <1>13, StoredStays
<1>21. InOrder'
  <2>1. \A i, j \in DOMAIN used' : used'[i] = used'[j] => i = j
    <3>1. CASE InUse(m)
      BY Zenon, <1>13, <3>1 DEF InOrder
    <3>2. CASE ~InUse(m)
      <4>1. \A i \in DOMAIN used : used'[i] = used[i] /\ used[i] # m
        BY Zenon, <1>13, <3>2 DEF InUse
      <4>2. used'[Len(used')] = m /\ DOMAIN used' = DOMAIN used \cup {Len(used')}
        BY Zenon, <1>13, <3>2
      <4>3. \A i, j \in DOMAIN used : used[i] = used[j] => i = j
        BY Zenon DEF InOrder
      <4>4. QED
        BY Zenon, <4>1, <4>2, <4>3
    <3>3. QED
      BY Zenon, <3>1, <3>2
  <2>2. ASSUME NEW v \in Versions, anchors'[v] \in Masters PROVE InUse(anchors[v])'
    <3>1. CASE anchors'[v] = m
      BY Zenon, <1>13, <3>1 DEF InUse
    <3>2. CASE anchors'[v] # m
      <4>1. anchors'[v] = Seeded[v] /\ Seeded[v] \in Masters
        BY Zenon, <1>5, <2>2, <3>2
      <4>2. Seeded[v] = anchors[v]
        BY Zenon, <4>1, KeyAssumption DEF Seeded, KeyTypeOK
      <4>3. InUse(anchors[v])
        BY Zenon, <4>1, <4>2 DEF InOrder
      <4>4. QED
        BY Zenon, <1>13, <4>1, <4>2, <4>3 DEF InUse
    <3>3. QED
      BY Zenon, <3>1, <3>2
  <2>3. InUse(master)'
    BY Zenon, <1>1, <1>13 DEF InUse
  <2>4. ~returned' => m = used'[Len(used')]
    BY Zenon, <1>1, <1>13
  <2>5. QED
    BY Zenon, <1>1, <2>1, <2>2, <2>3, <2>4 DEF InOrder
<1>22. ASSUME site.envKeys = {} PROVE Onward'
  <2>1. Onward
    BY Zenon, <1>22
  <2>2. CASE UNCHANGED <<keychain, escrow>> /\ keychain # NoKey /\ m = keychain
    <3>1. escrow # << >> /\ m = Last /\ ~returned' /\ Last' = Last
      BY Zenon, <1>1, <2>1, <2>2 DEF Onward, Last
    <3>2. Exported(m)
      <4>1. Len(escrow) \in DOMAIN escrow
        BY <3>1 DEF KeyTypeOK
      <4>2. QED
        BY Zenon, <3>1, <4>1 DEF Exported, Last
    <3>3. \A i \in DOMAIN used' : Exported(used'[i])
      BY Zenon, <1>13, <2>1, <3>2 DEF Onward
    <3>4. m = used'[Len(used')]
      BY Zenon, <1>13, <2>1, <3>1 DEF Onward
    <3>5. QED
      BY Zenon, <1>1, <2>1, <2>2, <3>1, <3>3, <3>4 DEF Onward, Last, Exported
  <2>3. CASE keychain' = m /\ escrow' = Append(escrow, m) /\ m \in NewMasters
    <3>1. /\ escrow' # << >> /\ escrow'[Len(escrow')] = m
          /\ \A i \in DOMAIN escrow : i \in DOMAIN escrow' /\ escrow'[i] = escrow[i]
          /\ Len(escrow') \in DOMAIN escrow'
      BY <2>3 DEF KeyTypeOK
    <3>2. ~InUse(m)
      BY Zenon, <2>1, <2>3 DEF Onward, NewMasters, InUse
    <3>3. m = used'[Len(used')] /\ ~returned'
      BY Zenon, <1>1, <1>13, <2>1, <3>2 DEF Onward
    <3>4. \A i \in DOMAIN used' : Exported(used[i])'
      <4>1. ASSUME NEW x, Exported(x) PROVE \E i \in DOMAIN escrow' : escrow'[i] = x
        BY Zenon, <3>1, <4>1 DEF Exported
      <4>2. \A i \in DOMAIN used' : used'[i] = m \/ Exported(used'[i])
        BY Zenon, <1>13, <2>1, <3>2 DEF Onward
      <4>3. QED
        BY Zenon, <3>1, <4>1, <4>2 DEF Exported
    <3>5. QED
      BY Zenon, <1>1, <2>1, <2>3, <3>1, <3>3, <3>4 DEF Onward, Last
  <2>4. envKey = NoKey
    BY Zenon, <2>1 DEF Onward
  <2>5. QED
    BY Zenon, <1>1, <2>2, <2>3, <2>4 DEF Loads
<1>14. Plain' = Plain
  BY Zenon, SameSite
<1>15. ASSUME Plain PROVE OneKey'
  <2>5. site.envKeys = {}
    BY Zenon, <1>15 DEF Plain
  <2>1. CASE UNCHANGED <<keychain, escrow>> /\ keychain # NoKey /\ m = keychain
    BY Zenon, <1>1, <1>15, <2>1, <2>5 DEF OneKey, Onward, Last
  <2>2. CASE /\ keychain' = m /\ escrow' = Append(escrow, m) /\ AllowMint
    <3>1. escrow' # << >> /\ escrow'[Len(escrow')] = m
      BY <2>2 DEF KeyTypeOK
    <3>2. rows = << >> /\ tokens = {}
      BY Zenon, <1>15, <2>2 DEF AllowMint, Virgin, Plain
    <3>3. QED
      BY <1>1, <1>15, <2>2, <3>1, <3>2 DEF OneKey, Last
  <2>3. envKey = NoKey
    BY Zenon, <2>5 DEF Onward
  <2>4. QED
    BY Zenon, <1>1, <2>1, <2>2, <2>3 DEF Loads
<1>16. NoFalseTamper'
  BY Zenon, <1>1, <1>14 DEF NoFalseTamper
<1>17. CheckpointVouched'
  <2>1. ASSUME NEW i \in 1 .. cp PROVE anchors'[rows[i].kv] = anchors[rows[i].kv]
    <3>1. i \in DOMAIN rows /\ rows[i] \in RowType
      BY DEF KeyTypeOK
    <3>2. QED
      BY Zenon, <1>7, <3>1 DEF WellStored, Fits, RowType
  <2>2. QED
    BY Zenon, <1>1, <1>14, <2>1 DEF CheckpointVouched
<1>18. QED
  BY Zenon, <1>11, <1>12, <1>14, <1>15, <1>16, <1>17, <1>20, <1>21, <1>22

\* A refused start may seed the version table, and nothing else.
LEMMA StartRefusedInv ==
  ASSUME KeyInv, UNCHANGED site, StartRefused PROVE KeyInv'
<1> USE DEF KeyInv
<1>1. /\ ~up /\ anchors' = Seeded
      /\ UNCHANGED <<keychain, envKey, escrow, up, master, tver, aver, rotating, rows, side,
                     tokens, cp, report, used, returned, touched>>
  BY Zenon DEF StartRefused, keys, memory, data, past
<1>2. /\ Seeded \in [Versions -> Masters \cup {NoKey, Absent}]
      /\ \A v \in Known : Seeded[v] = anchors[v]
      /\ \A v \in Versions : Seeded[v] # Absent /\ v # 1 => Seeded[v] \in Masters
  BY Zenon, <1>1, SeededFacts
<1>3. PICK n \in Versions : Known' = 1 .. n
  BY Zenon, <1>1, SeededFacts DEF Known
<1>4. \A v \in Versions : anchors[v] \in Masters => anchors'[v] = anchors[v]
  BY Zenon, <1>1, <1>2, KeyAssumption DEF Known
<1>5. KeyTypeOK'
  BY Zenon, <1>1, <1>2 DEF KeyTypeOK
<1>6. Versioned'
  <2>1. n \in 0 .. MaxVersion
    BY <1>3, KeyAssumption DEF Versions
  <2>2. \A v \in Known' : v # 1 => anchors'[v] \in Masters
    BY Zenon, <1>1, <1>2 DEF Known
  <2>3. rotating' = "no"
    BY Zenon, <1>1 DEF Versioned
  <2>4. QED
    BY Zenon, <1>1, <1>3, <2>1, <2>2, <2>3 DEF Versioned
<1>7. WellStored'
  BY Zenon, <1>1, <1>4, StoredStays
<1>8. Plain' = Plain
  BY Zenon, SameSite
<1>9. (Plain => OneKey)' /\ NoFalseTamper'
  BY Zenon, <1>1, <1>8 DEF OneKey, Last, NoFalseTamper
<1>12. InOrder'
  <2>1. \A v \in Versions : anchors'[v] \in Masters => anchors'[v] = anchors[v]
    BY Zenon, <1>1, KeyAssumption DEF Seeded, KeyTypeOK
  <2>2. QED
    BY Zenon, <1>1, <2>1 DEF InOrder, InUse
<1>13. (site.envKeys = {} => Onward)'
  BY Zenon, <1>1, OnwardStays
<1>10. CheckpointVouched'
  <2>1. ASSUME NEW i \in 1 .. cp PROVE anchors'[rows[i].kv] = anchors[rows[i].kv]
    <3>1. i \in DOMAIN rows
      BY DEF KeyTypeOK
    <3>2. QED
      BY Zenon, <1>4, <3>1, StoredTypes DEF WellStored, Fits
  <2>2. QED
    BY Zenon, <1>1, <1>8, <2>1 DEF CheckpointVouched
<1>11. QED
  BY Zenon, <1>5, <1>6, <1>7, <1>8, <1>9, <1>10, <1>12, <1>13

\* A stop, also in the middle of a rotation, leaves the versions a segment.
LEMMA StopInv == ASSUME KeyInv, UNCHANGED site, Stop PROVE KeyInv'
<1> USE DEF KeyInv
<1>1. /\ up /\ up' = FALSE /\ master' = NoKey /\ rotating' = "no"
      /\ UNCHANGED <<keychain, envKey, escrow, tver, aver, anchors, rows, side, tokens, cp, report,
                     used, returned, touched>>
  BY Zenon DEF Stop, keys, data, past
<1>2. Known' = Known /\ Plain' = Plain
  BY Zenon, <1>1, SameAnchors, SameSite
<1>3. KeyTypeOK'
  BY Zenon, <1>1, KeyAssumption DEF KeyTypeOK
<1>4. Versioned'
  <2>1. \E n \in 0 .. MaxVersion : Known = 1 .. n
    <3>1. tver \in 0 .. MaxVersion
      BY KeyAssumption DEF KeyTypeOK, Versions
    <3>2. tver + 1 \in Versions => tver + 1 \in 0 .. MaxVersion
      BY KeyAssumption DEF Versions
    <3>3. QED
      BY <1>1, <3>1, <3>2, Zenon DEF Versioned
  <2>2. QED
    BY Zenon, <1>1, <1>2, <2>1 DEF Versioned
<1>5. (Plain => OneKey)' /\ NoFalseTamper' /\ CheckpointVouched'
  BY Zenon, <1>1, <1>2 DEF OneKey, Last, NoFalseTamper, CheckpointVouched
<1>6. WellStored' /\ InOrder' /\ (site.envKeys = {} => Onward)'
  BY Zenon, <1>1, StoredStays, OrderStays, OnwardStays
<1>7. QED
  BY Zenon, <1>3, <1>4, <1>5, <1>6

\* The operator changes the Keychain, what was exported and the environment
\* only; where the environment gives no key, what is in the Keychain is the
\* last key, and one that is new has not been in use.
LEMMA OperatorInv == ASSUME KeyInv, UNCHANGED site, Operator PROVE KeyInv'
<1> USE DEF KeyInv
<1>1. /\ keychain' \in Masters \cup {NoKey} /\ envKey' \in Masters \cup {NoKey}
      /\ escrow' \in Seq(Masters)
      /\ UNCHANGED <<up, master, tver, aver, rotating, anchors, rows, side, tokens, cp, report,
                     used, returned, touched>>
  <2>1. CASE LoseKey
    BY Zenon, <2>1 DEF LoseKey, memory, data, past, KeyTypeOK
  <2>2. CASE RestoreKey
    BY <2>2 DEF RestoreKey, memory, data, past, KeyTypeOK
  <2>3. ASSUME NEW m \in Masters \cup {NoKey}, SetEnv(m) PROVE <1>1
    BY Zenon, <2>3 DEF SetEnv, memory, data, past, KeyTypeOK
  <2>4. ASSUME NEW m \in Masters, ReplaceKey(m) PROVE <1>1
    <3>1. Append(escrow, m) \in Seq(Masters)
      BY DEF KeyTypeOK
    <3>2. QED
      BY Zenon, <2>4, <3>1 DEF ReplaceKey, memory, data, past, KeyTypeOK
  <2>5. QED
    BY Zenon, <2>1, <2>2, <2>3, <2>4 DEF Operator
<1>2. Known' = Known /\ Plain' = Plain
  BY Zenon, <1>1, SameAnchors, SameSite
<1>3. KeyTypeOK' /\ Versioned'
  BY Zenon, <1>1, <1>2 DEF KeyTypeOK, Versioned
<1>4. NoFalseTamper' /\ CheckpointVouched'
  BY Zenon, <1>1, <1>2 DEF NoFalseTamper, CheckpointVouched
<1>5. WellStored' /\ InOrder'
  BY Zenon, <1>1, StoredStays, OrderStays
<1>6. ASSUME site.envKeys = {} PROVE Onward'
  <2>1. Onward
    BY Zenon, <1>6
  <2>2. CASE LoseKey \/ RestoreKey
    BY Zenon, <1>1, <2>1, <2>2 DEF Onward, LoseKey, RestoreKey, Last, InUse, Exported
  <2>3. ASSUME NEW m \in Masters \cup {NoKey}, SetEnv(m) PROVE Onward'
    <3>1. m = NoKey
      BY Zenon, <1>6, <2>3 DEF SetEnv
    <3>2. QED
      BY Zenon, <2>1, <2>3, <3>1 DEF SetEnv, Onward
  <2>4. ASSUME NEW m \in Masters, ReplaceKey(m) PROVE Onward'
    <3>1. keychain' = m /\ escrow' = Append(escrow, m) /\ m \in NewMasters /\ envKey' = envKey
      BY Zenon, <2>4 DEF ReplaceKey
    <3>2. /\ escrow' # << >> /\ escrow'[Len(escrow')] = m
          /\ \A i \in DOMAIN escrow : i \in DOMAIN escrow' /\ escrow'[i] = escrow[i]
      BY <3>1 DEF KeyTypeOK
    <3>3. ~InUse(m)
      BY Zenon, <2>1, <3>1 DEF Onward, NewMasters, InUse
    <3>4. \A i \in DOMAIN used : Exported(used[i])'
      BY Zenon, <1>1, <2>1, <3>2 DEF Onward, Exported
    <3>5. QED
      BY Zenon, <1>1, <2>1, <3>1, <3>2, <3>3, <3>4 DEF Onward, Last, InUse
  <2>5. QED
    BY Zenon, <2>2, <2>3, <2>4 DEF Operator
<1>7. ASSUME Plain PROVE OneKey'
  <2>1. site.envKeys = {} /\ escrow' = escrow
    BY Zenon, <1>7 DEF Plain, Operator, LoseKey, RestoreKey, SetEnv, ReplaceKey
  <2>2. QED
    BY Zenon, <1>1, <1>7, <2>1 DEF OneKey, Last
<1>8. QED
  BY Zenon, <1>2, <1>3, <1>4, <1>5, <1>6, <1>7

\* The writers, when nothing else changes: what is stored stays in order, and
\* the rows up to the checkpoint stay.
LEMMA WriterInv ==
  ASSUME KeyInv, UNCHANGED <<site, keychain, envKey, escrow, up, master, tver, aver, rotating,
                           anchors, report, used, returned>>,
         rows' \in Seq(RowType), side' \subseteq LineType, tokens' \subseteq TokenType,
         touched' \in BOOLEAN, touched => touched',
         cp' \in 0 .. Len(rows'), WellStored', Plain => OneKey',
         Plain => \A i \in 1 .. cp' : i \in 1 .. cp /\ rows'[i].kv = rows[i].kv
                                     /\ rows'[i].key = rows[i].key
                                     /\ rows'[i].vouched = rows[i].vouched
  PROVE  KeyInv'
<1> USE DEF KeyInv
<1>1. Known' = Known /\ Plain' = Plain
  BY Zenon, SameAnchors, SameSite
<1>2. KeyTypeOK' /\ Versioned'
  BY Zenon, <1>1 DEF KeyTypeOK, Versioned
<1>3. NoFalseTamper'
  BY Zenon DEF NoFalseTamper
<1>4. CheckpointVouched'
  BY Zenon, <1>1 DEF CheckpointVouched
<1>5. InOrder' /\ (site.envKeys = {} => Onward)'
  BY Zenon, OrderStays, OnwardStays
<1>6. QED
  BY Zenon, <1>1, <1>2, <1>3, <1>4, <1>5

\* What a running daemon writes fits: the version it records has its anchor, by
\* a master that was in use before the daemon's own or is that.
LEMMA CurrentFits ==
  ASSUME KeyInv, up, NEW v \in {aver, tver}
  PROVE  /\ v \in Versions /\ master \in Masters /\ anchors[v] \in Masters
         /\ returned \/ Before(anchors[v], master)
<1>1. aver \in Versions /\ tver \in Versions /\ master \in Masters
  BY Zenon DEF KeyInv, KeyTypeOK
<1>2. aver <= tver /\ tver <= tver
  BY <1>1 DEF KeyInv, Versioned, Versions
<1>3. anchors[v] \in Masters /\ v \in Versions
  BY Zenon, <1>1, <1>2 DEF KeyInv, KeyTypeOK
<1>4. ASSUME ~returned PROVE Before(anchors[v], master)
  <2>1. PICK i \in DOMAIN used : used[i] = anchors[v]
    BY Zenon, <1>3 DEF KeyInv, InOrder, InUse
  <2>2. i <= Len(used) /\ Len(used) \in DOMAIN used
    BY <2>1 DEF KeyInv, KeyTypeOK
  <2>3. used[Len(used)] = master
    BY Zenon, <1>4 DEF KeyInv, InOrder
  <2>4. QED
    BY Zenon, <2>1, <2>2, <2>3 DEF Before
<1>5. QED
  BY Zenon, <1>1, <1>3, <1>4

\* Fits is about the row, the anchors and the history.
LEMMA FitsStays ==
  ASSUME UNCHANGED <<anchors, used, returned>>, touched => touched', NEW r, Fits(r)
  PROVE  Fits(r)'
  BY Zenon DEF Fits, Before

\* What was altered still says the same of its version and key.
LEMMA AlteredFits ==
  ASSUME UNCHANGED <<anchors, used, returned>>, touched', NEW q, Fits(q),
         NEW r, r.kv = q.kv, r.key = q.key
  PROVE  Fits(r)'
  BY Zenon DEF Fits, Before

\* A row appended by a running daemon, whatever becomes of the side chains.
LEMMA AppendedInv ==
  ASSUME KeyInv, up, rows' = Append(rows, Row(aver)), side' \subseteq side,
         UNCHANGED <<site, keychain, envKey, escrow, up, master, tver, aver, rotating, anchors,
                     tokens, cp, report, used, returned, touched>>
  PROVE  KeyInv'
<1> USE DEF KeyInv
<1> DEFINE r == Row(aver)
<1>1. rows' = Append(rows, r)
  OBVIOUS
<1>2. r \in RowType /\ r.kv = aver /\ r.key = master /\ r.ok
  BY Zenon, CurrentFits DEF Row, RowType
<1>3. Fits(r)
  BY Zenon, <1>2, CurrentFits DEF Fits
<1> HIDE DEF r
<1>4. /\ rows' \in Seq(RowType) /\ Len(rows') = Len(rows) + 1 /\ Len(rows) \in Nat
      /\ DOMAIN rows = 1 .. Len(rows) /\ DOMAIN rows' = 1 .. Len(rows) + 1
      /\ \A i \in 1 .. Len(rows) : rows'[i] = rows[i]
      /\ rows'[Len(rows) + 1] = r
  BY <1>1, <1>2 DEF KeyTypeOK
<1>5. cp' \in 0 .. Len(rows') /\ \A i \in 1 .. cp : i \in DOMAIN rows
  BY <1>4 DEF KeyTypeOK
<1>6. \A i \in DOMAIN rows' : rows'[i] = r \/ (i \in DOMAIN rows /\ rows'[i] = rows[i])
  BY <1>4
<1>7. \A i \in DOMAIN rows : i \in DOMAIN rows' /\ rows'[i] = rows[i]
  BY <1>4
<1>8. WellStored'
  <2>1. \A i \in DOMAIN rows' : Fits(rows'[i])
    BY Zenon, <1>3, <1>6 DEF WellStored
  <2>2. \A l \in side' : Fits(l)
    BY Zenon DEF WellStored
  <2>3. QED
    BY Zenon, <2>1, <2>2, FitsStays DEF WellStored
<1>9. Plain => OneKey'
  BY Zenon, <1>2, <1>6 DEF OneKey, Last
<1>10. side' \subseteq LineType /\ tokens' \subseteq TokenType /\ touched' \in BOOLEAN
  BY Zenon DEF KeyTypeOK
<1>11. QED
  BY Zenon, <1>4, <1>5, <1>7, <1>8, <1>9, <1>10, WriterInv

\* append_event and reimport_dead_letter append such a row.
LEMMA AppendRowInv == ASSUME KeyInv, UNCHANGED site, AppendRow \/ ReimportFile PROVE KeyInv'
<1>1. side' \subseteq side
  BY Zenon DEF AppendRow, ReimportFile
<1>2. QED
  BY Zenon, <1>1, AppendedInv DEF AppendRow, ReimportFile, keys, memory, past

\* save_rule, delete_rule, save_epoch, report_tcc_event and spool_dead_letter
\* append a line that fits.
LEMMA AppendSideInv ==
  ASSUME KeyInv, UNCHANGED site, NEW c \in Chains, AppendSide(c) PROVE KeyInv'
<1> USE DEF KeyInv
<1> DEFINE l == [chain |-> c, kv |-> aver, key |-> master, ok |-> TRUE]
<1>1. /\ up /\ side' = side \cup {l}
      /\ UNCHANGED <<keychain, envKey, escrow, up, master, tver, aver, rotating, anchors, rows,
                     tokens, cp, report, used, returned, touched>>
  BY Zenon DEF AppendSide, keys, memory, past
<1>2. l \in LineType /\ l.kv = aver /\ l.key = master /\ l.ok
  BY Zenon, <1>1, CurrentFits DEF LineType
<1>3. Fits(l)
  BY Zenon, <1>1, <1>2, CurrentFits DEF Fits
<1> HIDE DEF l
<1>4. WellStored'
  BY Zenon, <1>1, <1>3, FitsStays DEF WellStored
<1>5. Plain => OneKey'
  BY Zenon, <1>1 DEF OneKey, Last
<1>6. /\ rows' \in Seq(RowType) /\ side' \subseteq LineType /\ tokens' \subseteq TokenType
      /\ cp' \in 0 .. Len(rows') /\ touched' \in BOOLEAN
  BY Zenon, <1>1, <1>2 DEF KeyTypeOK
<1>7. QED
  BY Zenon, <1>1, <1>4, <1>5, <1>6, WriterInv

\* So does put_tenant, with TokenStore's own counter.
LEMMA PutTokenInv == ASSUME KeyInv, UNCHANGED site, PutToken PROVE KeyInv'
<1> USE DEF KeyInv
<1> DEFINE t == [kv |-> tver, key |-> master]
<1>1. /\ up /\ tokens' = tokens \cup {t}
      /\ UNCHANGED <<keychain, envKey, escrow, up, master, tver, aver, rotating, anchors, rows,
                     side, cp, report, used, returned, touched>>
  BY Zenon DEF PutToken, keys, memory, past
<1>2. t \in TokenType /\ t.kv = tver /\ t.key = master
  BY Zenon, <1>1, CurrentFits DEF TokenType
<1> HIDE DEF t
<1>3. WellStored'
  BY Zenon, <1>1, <1>2, CurrentFits, FitsStays DEF WellStored
<1>4. Plain => OneKey'
  BY Zenon, <1>1, <1>2 DEF OneKey, Last
<1>5. /\ rows' \in Seq(RowType) /\ side' \subseteq LineType /\ tokens' \subseteq TokenType
      /\ cp' \in 0 .. Len(rows') /\ touched' \in BOOLEAN
  BY Zenon, <1>1, <1>2 DEF KeyTypeOK
<1>6. QED
  BY Zenon, <1>1, <1>3, <1>4, <1>5, WriterInv

\* Evicting tokens and archiving rows add nothing.
LEMMA RemovalInv == ASSUME KeyInv, UNCHANGED site, EvictTokens \/ Archive PROVE KeyInv'
<1> USE DEF KeyInv
<1>1. /\ (tokens' = {} /\ UNCHANGED <<rows, cp>>) \/ (rows' = << >> /\ cp' = 0 /\ UNCHANGED tokens)
      /\ UNCHANGED <<keychain, envKey, escrow, up, master, tver, aver, rotating, anchors,
                     side, report, used, returned, touched>>
  BY Zenon DEF EvictTokens, Archive, keys, memory, past
<1>2. /\ rows' = rows \/ DOMAIN rows' = {}
      /\ cp' = cp \/ 1 .. cp' = {}
      /\ rows' \in Seq(RowType) /\ cp' \in 0 .. Len(rows') /\ tokens' \subseteq tokens
      /\ 1 .. cp' # {} => rows' = rows
  <2>1. CASE tokens' = {} /\ UNCHANGED <<rows, cp>>
    BY <2>1 DEF KeyTypeOK
  <2>2. CASE rows' = << >> /\ cp' = 0 /\ UNCHANGED tokens
    BY <2>2
  <2>3. QED
    BY Zenon, <1>1, <2>1, <2>2
<1>3. WellStored' /\ (Plain => OneKey')
  BY Zenon, <1>1, <1>2, FitsStays DEF WellStored, OneKey, Last
<1>4. side' \subseteq LineType /\ tokens' \subseteq TokenType /\ touched' \in BOOLEAN
  BY Zenon, <1>1, <1>2 DEF KeyTypeOK
<1>5. \A i \in 1 .. cp' : i \in 1 .. cp /\ rows'[i] = rows[i]
  BY Zenon, <1>2
<1>6. QED
  BY Zenon, <1>1, <1>2, <1>3, <1>4, <1>5, WriterInv

\* Altering a row keeps what it says of its version and key.
LEMMA AlterInv ==
  ASSUME KeyInv, UNCHANGED site, NEW j \in 1 .. MaxRows, Alter(j) PROVE KeyInv'
<1> USE DEF KeyInv
<1> DEFINE r == [rows[j] EXCEPT !.ok = FALSE]
<1>1. /\ j \in DOMAIN rows /\ rows' = [rows EXCEPT ![j] = r] /\ touched' = TRUE
      /\ UNCHANGED <<keychain, envKey, escrow, up, master, tver, aver, rotating, anchors, side,
                     tokens, cp, report, used, returned>>
  BY Zenon DEF Alter, keys, memory
<1>2. /\ r \in RowType /\ r.kv = rows[j].kv /\ r.key = rows[j].key
      /\ r.vouched = rows[j].vouched
  BY Zenon, <1>1, StoredTypes DEF RowType
<1> HIDE DEF r
<1>4. /\ rows' \in Seq(RowType) /\ Len(rows') = Len(rows) /\ DOMAIN rows' = DOMAIN rows
      /\ \A i \in DOMAIN rows : rows'[i] = IF i = j THEN r ELSE rows[i]
  BY <1>1, <1>2 DEF KeyTypeOK
<1>5. \A i \in DOMAIN rows : /\ rows'[i].kv = rows[i].kv /\ rows'[i].key = rows[i].key
                             /\ rows'[i].vouched = rows[i].vouched
  BY Zenon, <1>2, <1>4
<1>6. WellStored'
  BY Zenon, <1>1, <1>2, <1>4, AlteredFits, FitsStays DEF WellStored
<1>7. Plain => OneKey'
  BY Zenon, <1>1, <1>4, <1>5 DEF OneKey, Last
<1>8. /\ side' \subseteq LineType /\ tokens' \subseteq TokenType /\ cp' \in 0 .. Len(rows')
      /\ \A i \in 1 .. cp : i \in DOMAIN rows
  BY <1>1, <1>4 DEF KeyTypeOK
<1>9. QED
  BY Zenon, <1>1, <1>4, <1>5, <1>6, <1>7, <1>8, WriterInv

\* So it is with a line of another chain.
LEMMA AlterSideInv ==
  ASSUME KeyInv, UNCHANGED site, NEW l \in side, AlterSide(l) PROVE KeyInv'
<1> USE DEF KeyInv
<1> DEFINE r == [l EXCEPT !.ok = FALSE]
<1>1. /\ side' = (side \ {l}) \cup {r} /\ touched' = TRUE
      /\ UNCHANGED <<keychain, envKey, escrow, up, master, tver, aver, rotating, anchors, rows,
                     tokens, cp, report, used, returned>>
  BY Zenon DEF AlterSide, keys, memory
<1>2. r \in LineType /\ r.kv = l.kv /\ r.key = l.key
  <2>1. l \in LineType
    BY Zenon DEF KeyTypeOK
  <2>2. QED
    BY Zenon, <2>1 DEF LineType
<1> HIDE DEF r
<1>4. WellStored'
  BY Zenon, <1>1, <1>2, AlteredFits, FitsStays DEF WellStored
<1>5. Plain => OneKey'
  BY Zenon, <1>1 DEF OneKey, Last
<1>6. /\ rows' \in Seq(RowType) /\ side' \subseteq LineType /\ tokens' \subseteq TokenType
      /\ cp' \in 0 .. Len(rows') /\ touched' \in BOOLEAN
  BY Zenon, <1>1, <1>2 DEF KeyTypeOK
<1>7. QED
  BY Zenon, <1>1, <1>4, <1>5, <1>6, WriterInv

\* rotate_key, first step: the new version's row, with its anchor.
LEMMA RotateInsertInv == ASSUME KeyInv, UNCHANGED site, RotateInsert PROVE KeyInv'
<1> USE DEF KeyInv
<1>1. /\ up /\ rotating = "no" /\ tver < site.versions /\ rotating' = "inserted"
      /\ anchors' = [anchors EXCEPT ![tver + 1] = master]
      /\ UNCHANGED <<keychain, envKey, escrow, up, master, tver, aver, rows, side, tokens, cp, report,
                     used, returned, touched>>
  BY Zenon DEF RotateInsert, keys, data, past
<1>2. tver \in Versions /\ tver + 1 \in Versions /\ master \in Masters
  <2>1. site.versions \in 1 .. MaxVersion /\ tver \in Versions /\ MaxVersion \in Nat
    BY Zenon, KeyAssumption DEF KeyTypeOK, Site
  <2>2. tver + 1 \in Versions
    BY <1>1, <2>1 DEF Versions
  <2>3. QED
    BY Zenon, <1>1, <2>1, <2>2 DEF KeyTypeOK
<1>3. \A v \in Versions : anchors'[v] = IF v = tver + 1 THEN master ELSE anchors[v]
  BY Zenon, <1>1, <1>2 DEF KeyTypeOK
<1>4. Known = 1 .. tver
  BY Zenon, <1>1 DEF Versioned
<1>5. Known' = 1 .. tver + 1
  <2>1. Known' = Known \cup {tver + 1}
    BY Zenon, <1>2, <1>3, KeyAssumption DEF Known
  <2>2. (1 .. tver) \cup {tver + 1} = 1 .. tver + 1
    BY <1>2 DEF Versions
  <2>3. QED
    BY Zenon, <1>4, <2>1, <2>2
<1>6. \A v \in Versions : anchors[v] \in Masters => anchors'[v] = anchors[v]
  <2>1. tver + 1 \notin Known
    BY <1>2, <1>4 DEF Versions
  <2>2. \A v \in Versions : anchors[v] \in Masters => v # tver + 1
    BY Zenon, <2>1, KeyAssumption DEF Known
  <2>3. QED
    BY Zenon, <1>3, <2>2
<1>7. KeyTypeOK'
  <2>1. anchors' \in [Versions -> Masters \cup {NoKey, Absent}]
    BY Zenon, <1>1, <1>2 DEF KeyTypeOK
  <2>2. \A v \in Versions : v <= tver => anchors'[v] \in Masters
    BY Zenon, <1>1, <1>6 DEF KeyTypeOK
  <2>3. QED
    BY Zenon, <1>1, <2>1, <2>2 DEF KeyTypeOK
<1>8. Versioned'
  <2>1. \A v \in Known' : anchors'[v] \in Masters
    <3>1. \A v \in Known : anchors[v] \in Masters
      BY Zenon, <1>1 DEF Versioned
    <3>2. QED
      BY Zenon, <1>2, <1>3, <3>1 DEF Known
  <2>2. aver <= tver
    BY Zenon, <1>1 DEF Versioned
  <2>3. QED
    BY Zenon, <1>1, <1>2, <1>5, <2>1, <2>2 DEF Versioned
<1>9. WellStored'
  BY Zenon, <1>1, <1>6, StoredStays
<1>10. Plain' = Plain
  BY Zenon, SameSite
<1>11. (Plain => OneKey)' /\ NoFalseTamper'
  BY Zenon, <1>1, <1>10 DEF OneKey, Last, NoFalseTamper
<1>12. CheckpointVouched'
  <2>1. ASSUME NEW i \in 1 .. cp PROVE anchors'[rows[i].kv] = anchors[rows[i].kv]
    <3>1. i \in DOMAIN rows
      BY DEF KeyTypeOK
    <3>2. QED
      BY Zenon, <1>6, <3>1, StoredTypes DEF WellStored, Fits
  <2>2. QED
    BY Zenon, <1>1, <1>10, <2>1 DEF CheckpointVouched
<1>13. InOrder'
  BY Zenon, <1>1, <1>3 DEF InOrder, InUse
<1>14. (site.envKeys = {} => Onward)'
  BY Zenon, <1>1, OnwardStays
<1>15. QED
  BY Zenon, <1>7, <1>8, <1>9, <1>10, <1>11, <1>12, <1>13, <1>14

\* Then TokenStore's counter and at last AuditStore's.
LEMMA RotateRestInv ==
  ASSUME KeyInv, UNCHANGED site, RotateBump \/ RotatePublish PROVE KeyInv'
<1> USE DEF KeyInv
<1>1. /\ up
      /\ UNCHANGED <<keychain, envKey, escrow, up, master, anchors, rows, side, tokens, cp, report,
                     used, returned, touched>>
  BY Zenon DEF RotateBump, RotatePublish, keys, data, past, Versioned
<1>2. Known' = Known /\ Plain' = Plain
  BY Zenon, <1>1, SameAnchors, SameSite
<1>3. tver \in Nat /\ aver \in Nat /\ aver <= tver /\ \A v \in Known : anchors[v] \in Masters
  BY <1>1 DEF KeyTypeOK, Versioned, Versions
<1>4. tver' \in Versions /\ aver' \in Versions /\ aver' <= tver' /\ Known = 1 .. tver'
      /\ rotating' \in {"no", "bumped"}
  <2>1. CASE RotateBump
    BY <1>3, <2>1 DEF RotateBump, Versioned, KeyTypeOK
  <2>2. CASE RotatePublish
    <3>1. rotating = "bumped" /\ aver' = tver /\ tver' = tver /\ rotating' = "no"
      BY Zenon, <2>2 DEF RotatePublish
    <3>2. QED
      BY <1>1, <1>3, <3>1 DEF Versioned, KeyTypeOK
  <2>3. QED
    BY Zenon, <2>1, <2>2
<1>5. KeyTypeOK'
  <2>1. \A v \in Versions : v <= tver' => anchors[v] \in Masters
    BY <1>3, <1>4 DEF Versions
  <2>2. QED
    BY Zenon, <1>1, <1>4, <2>1 DEF KeyTypeOK
<1>6. Versioned'
  BY Zenon, <1>1, <1>2, <1>3, <1>4 DEF Versioned
<1>7. (Plain => OneKey)' /\ NoFalseTamper' /\ CheckpointVouched'
  BY Zenon, <1>1, <1>2 DEF OneKey, Last, NoFalseTamper, CheckpointVouched
<1>8. WellStored' /\ InOrder' /\ (site.envKeys = {} => Onward)'
  BY Zenon, <1>1, StoredStays, OrderStays, OnwardStays
<1>9. QED
  BY Zenon, <1>5, <1>6, <1>7, <1>8

\* A verification reports, marks rows and moves the checkpoint.  What does not
\* match though it is as written was signed before the current master, so that
\* its version's anchor is not the current master's.  In a plain installation a
\* mismatch is an altered row; if the checkpoint moves over it, its version has
\* the anchor of another key.
LEMMA VerifyInv == ASSUME KeyInv, UNCHANGED site, Verify PROVE KeyInv'
<1> USE DEF KeyInv
<1> DEFINE scanned == {i \in DOMAIN rows : i > cp}
           broken == {rows[i] : i \in {j \in scanned : Mismatch(rows[j])}}
           Is(kind, R) == \E r \in R : Classify(r.kv) = kind
           tampered == Is("tamper", broken)
           loss == Is("key loss", broken \cup BrokenSide)
           mark(i) == [rows[i] EXCEPT !.vouched = TRUE]
<1>1. /\ up
      /\ report' = [tampered |-> tampered \/ Is("tamper", BrokenSide),
                    unknown |-> IF loss THEN 1 ELSE 0]
      /\ cp' = IF ~tampered THEN Len(rows) ELSE cp
      /\ rows' = [i \in DOMAIN rows |->
                    IF i \in scanned /\ ~Mismatch(rows[i]) THEN mark(i) ELSE rows[i]]
      /\ UNCHANGED <<keychain, envKey, escrow, up, master, tver, aver, rotating, anchors, side, tokens,
                     used, returned, touched>>
  BY Zenon DEF Verify, Caches, keys, memory, past
<1>2. Known' = Known /\ Plain' = Plain
  BY Zenon, <1>1, SameAnchors, SameSite
<1>3. \A i \in DOMAIN rows : /\ mark(i) \in RowType /\ mark(i).kv = rows[i].kv
                             /\ mark(i).key = rows[i].key /\ mark(i).ok = rows[i].ok
                             /\ mark(i).vouched
  BY Zenon, StoredTypes DEF RowType
<1> HIDE DEF mark
<1>4. /\ DOMAIN rows' = DOMAIN rows
      /\ \A i \in DOMAIN rows :
           rows'[i] = IF i \in scanned /\ ~Mismatch(rows[i]) THEN mark(i) ELSE rows[i]
  BY Zenon, <1>1
<1>5. \A i \in DOMAIN rows : /\ rows'[i].kv = rows[i].kv /\ rows'[i].key = rows[i].key
                             /\ rows'[i].ok = rows[i].ok /\ rows'[i] \in RowType
  BY Zenon, <1>3, <1>4, StoredTypes
<1>6. Len(rows') = Len(rows) /\ rows' \in Seq(RowType)
  <2>1. DOMAIN rows = 1 .. Len(rows) /\ Len(rows) \in Nat
    BY DEF KeyTypeOK
  <2>2. rows' \in [1 .. Len(rows) -> RowType]
    BY Zenon, <1>1, <1>4, <1>5, <2>1
  <2>3. QED
    BY <2>1, <2>2
<1>7. (cp' = Len(rows) \/ cp' = cp) /\ (cp' # cp => ~tampered)
  BY <1>1, Zenon
<1>8. cp' \in 0 .. Len(rows')
  <2>1. cp \in 0 .. Len(rows) /\ Len(rows) \in Nat
    BY DEF KeyTypeOK
  <2>2. QED
    BY <1>6, <1>7, <2>1
<1>9. report' \in [tampered : BOOLEAN, unknown : 0 .. 1]
  <2>1. (tampered \/ Is("tamper", BrokenSide)) \in BOOLEAN
    BY Zenon
  <2>2. (IF loss THEN 1 ELSE 0) \in 0 .. 1
    OBVIOUS
  <2> HIDE DEF tampered, loss, Is
  <2>3. QED
    BY Zenon, <1>1, <2>1, <2>2
<1>10. KeyTypeOK' /\ Versioned'
  <2>1. KeyTypeOK'
    BY Zenon, <1>1, <1>6, <1>8, <1>9 DEF KeyTypeOK
  <2>2. Versioned'
    BY Zenon, <1>1, <1>2 DEF Versioned
  <2>3. QED
    BY Zenon, <2>1, <2>2
<1>11. (Plain => OneKey)'
  BY Zenon, <1>1, <1>2, <1>4, <1>5 DEF OneKey, Last
<1>15. WellStored'
  <2>1. \A i \in DOMAIN rows : Fits(rows'[i])
    BY Zenon, <1>5 DEF WellStored, Fits
  <2>2. QED
    BY Zenon, <1>1, <1>4, <2>1, FitsStays DEF WellStored
<1>16. InOrder' /\ (site.envKeys = {} => Onward)'
  BY Zenon, <1>1, OrderStays, OnwardStays
<1>12. NoFalseTamper'
  <2> SUFFICES ASSUME report'.tampered, ~touched, ~returned PROVE FALSE
    <3>1. returned => site.envKeys # {}
      BY Zenon DEF Onward
    <3>2. QED
      BY Zenon, <1>1, <3>1 DEF NoFalseTamper
  <2>1. PICK r : Fits(r) /\ Mismatch(r) /\ Classify(r.kv) = "tamper"
    <3>1. tampered \/ Is("tamper", BrokenSide)
      BY Zenon, <1>1
    <3>2. CASE tampered
      BY Zenon, <3>2 DEF WellStored
    <3>3. CASE Is("tamper", BrokenSide)
      BY Zenon, <3>3 DEF WellStored, BrokenSide
    <3>4. QED
      BY Zenon, <3>1, <3>2, <3>3
  <2>2. r.key # master /\ anchors[r.kv] = master /\ Before(anchors[r.kv], r.key)
    BY Zenon, <2>1 DEF Fits, Mismatch, Classify
  <2>3. PICK i, j \in DOMAIN used : i <= j /\ used[i] = master /\ used[j] = r.key
    BY Zenon, <2>2 DEF Before
  <2>4. Len(used) \in DOMAIN used /\ used[Len(used)] = master
    <3>1. used[Len(used)] = master
      BY Zenon, <1>1 DEF InOrder
    <3>2. QED
      BY <2>3, <3>1 DEF KeyTypeOK
  <2>5. i = Len(used)
    BY Zenon, <2>3, <2>4 DEF InOrder
  <2>6. j = Len(used)
    BY <2>3, <2>5 DEF KeyTypeOK
  <2>7. QED
    BY Zenon, <2>2, <2>3, <2>4, <2>6
<1>13. CheckpointVouched'
  <2> SUFFICES ASSUME Plain, NEW i \in 1 .. cp'
               PROVE  rows'[i].vouched \/ anchors[rows[i].kv] # rows[i].key
    <3>1. \A i \in 1 .. cp' : i \in DOMAIN rows
      BY <1>6, <1>8 DEF KeyTypeOK
    <3>2. QED
      BY Zenon, <1>1, <1>2, <1>5, <3>1 DEF CheckpointVouched
  <2>1. i \in DOMAIN rows /\ DOMAIN rows = 1 .. Len(rows) /\ cp \in Nat /\ i \in Nat
    BY <1>6, <1>8 DEF KeyTypeOK
  <2>2. CASE i \in scanned
    <3>1. CASE ~Mismatch(rows[i])
      BY Zenon, <1>3, <1>4, <2>1, <2>2, <3>1
    <3>2. CASE Mismatch(rows[i])
      <4>1. rows[i] \in broken
        BY Zenon, <2>2, <3>2
      <4>2. ~tampered
        <5>1. i > cp /\ i <= cp'
          BY <2>2, <1>8, <2>1
        <5>2. cp' # cp
          BY <2>1, <5>1
        <5>3. QED
          BY Zenon, <1>7, <5>2
      <4>3. Classify(rows[i].kv) # "tamper"
        BY Zenon, <4>1, <4>2
      <4>4. anchors[rows[i].kv] # master
        BY Zenon, <2>1, <4>3 DEF Classify, WellStored, Fits
      <4>5. rows[i].key = master
        BY Zenon, <1>1, <2>1 DEF OneKey
      <4>6. QED
        BY Zenon, <4>4, <4>5
    <3>3. QED
      BY Zenon, <3>1, <3>2
  <2>3. CASE i \notin scanned
    <3>1. i \in 1 .. cp /\ rows'[i] = rows[i]
      BY <1>4, <2>1, <2>3
    <3>2. QED
      BY Zenon, <3>1 DEF CheckpointVouched
  <2>4. QED
    BY Zenon, <2>2, <2>3
<1>14. QED
  BY Zenon, <1>2, <1>10, <1>11, <1>12, <1>13, <1>15, <1>16

\* Every step keeps the inductive invariant.
LEMMA KeyStepInv == KeyInv /\ [KeyNext]_keyVars => KeyInv'
<1> SUFFICES ASSUME KeyInv, [KeyNext]_keyVars PROVE KeyInv'
  BY Zenon
<1>1. CASE UNCHANGED keyVars
  <2>1. UNCHANGED <<site, keychain, envKey, escrow, up, master, tver, aver, rotating, anchors,
                    rows, side, tokens, cp, report, used, returned, touched>>
    BY Zenon, <1>1 DEF keyVars, keys, memory, data, past
  <2>2. Known' = Known /\ Plain' = Plain
    BY Zenon, <2>1, SameAnchors, SameSite
  <2>3. KeyTypeOK' /\ Versioned'
    BY Zenon, <2>1, <2>2 DEF KeyInv, KeyTypeOK, Versioned
  <2>4. (Plain => OneKey)' /\ NoFalseTamper' /\ CheckpointVouched'
    BY Zenon, <2>1, <2>2 DEF KeyInv, OneKey, Last, NoFalseTamper, CheckpointVouched
  <2>5. WellStored' /\ InOrder' /\ (site.envKeys = {} => Onward)'
    BY Zenon, <2>1, StoredStays, OrderStays, OnwardStays DEF KeyInv
  <2>6. QED
    BY Zenon, <2>3, <2>4, <2>5 DEF KeyInv
<1>2. CASE KeyNext
  <2>1. UNCHANGED site
    BY Zenon, <1>2 DEF KeyNext
  <2>2. ASSUME NEW m \in Masters, Start(m) PROVE KeyInv'
    BY Zenon, <2>1, <2>2, StartInv
  <2>3. ASSUME NEW i \in 1 .. MaxRows, Alter(i) PROVE KeyInv'
    BY Zenon, <2>1, <2>3, AlterInv
  <2>4. CASE StartRefused \/ Stop \/ Operator \/ Verify
    BY Zenon, <2>1, <2>4, StartRefusedInv, StopInv, OperatorInv, VerifyInv
  <2>5. CASE AppendRow \/ ReimportFile \/ PutToken \/ EvictTokens \/ Archive
    BY Zenon, <2>1, <2>5, AppendRowInv, PutTokenInv, RemovalInv
  <2>6. ASSUME NEW l \in side, AlterSide(l) PROVE KeyInv'
    BY Zenon, <2>1, <2>6, AlterSideInv
  <2>7. ASSUME NEW c \in Chains, AppendSide(c) PROVE KeyInv'
    BY Zenon, <2>1, <2>7, AppendSideInv
  <2>8. CASE RotateInsert \/ RotateBump \/ RotatePublish
    BY Zenon, <2>1, <2>8, RotateInsertInv, RotateRestInv
  <2>9. QED
    BY Zenon, <1>2, <2>2, <2>3, <2>4, <2>5, <2>6, <2>7, <2>8 DEF KeyNext
<1>3. QED
  BY Zenon, <1>1, <1>2

\* The inductive invariant implies what the properties say.
LEMMA KeyInvImplies ==
  KeyInv => KeyTypeOK /\ HistoryReadable /\ NoFalseTamper /\ CheckpointVouched /\ AnchorBeforeUse
<1> SUFFICES ASSUME KeyInv PROVE HistoryReadable /\ AnchorBeforeUse
  BY Zenon DEF KeyInv
<1>1. HistoryReadable
  BY Zenon DEF KeyInv, OneKey, HistoryReadable
<1>2. AnchorBeforeUse
  BY Zenon DEF KeyInv, WellStored, Fits, AnchorBeforeUse
<1>3. QED
  BY Zenon, <1>1, <1>2

\* The inductive invariant holds throughout.
LEMMA KeyInductive == KeySpec => []KeyInv
  BY KeyInitInv, KeyStepInv, PTL DEF KeySpec

\* Types, and that a running daemon has an anchor for every version up to its
\* current one.
THEOREM KeysTypeCorrect == KeySpec => []KeyTypeOK
  BY KeyInductive, KeyInvImplies, PTL

\* In a plain installation a running daemon holds the key of all that is
\* stored: open_checked never mints over data, however often the Keychain item
\* is lost and restored.
THEOREM HistoryStaysReadable == KeySpec => []HistoryReadable
  BY KeyInductive, KeyInvImplies, PTL

\* In every installation, verify_all_chains reports tampering only when something
\* stored was altered, or after a start that went back to an earlier master,
\* which takes a master from the environment.
THEOREM NoFalseAlarm == KeySpec => []NoFalseTamper
  BY KeyInductive, KeyInvImplies, PTL

\* In a plain installation the checkpoint covers only rows that were verified
\* with their key, or whose version has the anchor of another key.
THEOREM CheckpointIsVouched == KeySpec => []CheckpointVouched
  BY KeyInductive, KeyInvImplies, PTL

\* In every installation a version has its anchor before rotate_key's counters
\* let a row, a line or a token record it.
THEOREM AnchorsPrecedeUse == KeySpec => []AnchorBeforeUse
  BY KeyInductive, KeyInvImplies, PTL

-----------------------------------------------------------------------------
(* TokenStore: who may reveal a token, and until when.                        *)

\* What a call c holds when the tokens g were handed out and org are the
\* origins: the ids of a redact call are stored at most once and not handed out
\* before it returns, and a reveal call works on tokens that were handed out.
Holds(c, g, org) ==
  /\ c \in CallRecord /\ (c.cur # None <=> c.at \in {"get", "unflag"})
  /\ c.ids \cap g = {} /\ (c.at # "idle" => c.by \in Tenants)
  /\ c.at = "put" => c.todo \subseteq c.ids /\ \A id \in c.todo : org[id] = NoRow
  /\ c.at # "put" => c.ids = {}
  /\ c.at \in {"flag", "get", "unflag"} => c.todo \subseteq g /\ c.cur \in g \cup {None}

\* Every call holds what it should, and no two redact calls share an id.
Calls ==
  /\ \A t \in TokenThreads : Holds(call[t], given, origin)
  /\ \A t, u \in TokenThreads : u # t => call[t].ids \cap call[u].ids = {}

\* A stored row is the one that was put, and one that was put and is gone had
\* expired.
Backed(row, org, now) ==
  /\ row \in Rows /\ org \in Rows
  /\ row # NoRow => org # NoRow /\ row.tenant = org.tenant /\ row.created = org.created
  /\ (row = NoRow /\ org # NoRow) => org.created + Ttl < now
Table ==
  /\ DOMAIN tok = Tokens /\ DOMAIN origin = Tokens
  /\ \A id \in Tokens : Backed(tok[id], origin[id], clock)

Answered == \A a \in answers : a.id \in given

TokenInv == TokenTypeOK /\ Calls /\ Table /\ Answered /\ RevealAuthorised /\ OwnerRestores

CallType ==
  /\ call \in [TokenThreads -> CallRecord]
  /\ \A t \in TokenThreads : call[t].cur # None <=> call[t].at \in {"get", "unflag"}

\* The initial state satisfies the inductive invariant.
LEMMA TokenInitInv == TokenInit => TokenInv
<1> SUFFICES ASSUME TokenInit PROVE TokenInv
  BY Zenon
<1> USE TokenAssumption
<1>1. Holds(Idle, {}, origin)
  BY Zenon DEF Holds, Idle, CallRecord
<1>2. TokenTypeOK
  <2>1. 0 \in 0 .. MaxTime
    OBVIOUS
  <2>2. QED
    BY Zenon, <1>1, <2>1 DEF TokenInit, TokenTypeOK, Holds, Rows, Idle
<1>3. Calls
  BY Zenon, <1>1 DEF TokenInit, Calls, Idle
<1>4. Table
  BY Zenon DEF TokenInit, Table, Backed, Rows
<1>5. QED
  BY Zenon, <1>2, <1>3, <1>4 DEF TokenInit, TokenInv, Answered, RevealAuthorised, OwnerRestores

\* One thread's call changes; the others keep what they hold.
LEMMA CallStep ==
  ASSUME TokenInv, NEW t \in TokenThreads, NEW c, call' = [call EXCEPT ![t] = c],
         Holds(c, given', origin'),
         \A u \in TokenThreads : u # t => /\ Holds(call[u], given', origin')
                                     /\ c.ids \cap call[u].ids = {}
  PROVE  Calls' /\ CallType'
<1>1. call \in [TokenThreads -> CallRecord]
  BY Zenon DEF TokenInv, TokenTypeOK
<1>2. \A u \in TokenThreads : call'[u] = IF u = t THEN c ELSE call[u]
  BY Zenon, <1>1
<1>3. \A u \in TokenThreads : Holds(call'[u], given', origin')
  BY Zenon, <1>2
<1>4. \A u, v \in TokenThreads : v # u => call'[u].ids \cap call'[v].ids = {}
  BY <1>2 DEF TokenInv, Calls
<1>5. \A u \in TokenThreads : call'[u] \in CallRecord
                         /\ (call'[u].cur # None <=> call'[u].at \in {"get", "unflag"})
  BY Zenon, <1>3 DEF Holds
<1>6. call' \in [TokenThreads -> CallRecord]
  BY Zenon, <1>1, <1>5
<1>7. QED
  BY Zenon, <1>3, <1>4, <1>5, <1>6 DEF Calls, CallType

\* The answers stay right as long as the origins of tokens handed out stay.
LEMMA AnswersKept ==
  ASSUME TokenInv, UNCHANGED answers, given \subseteq given',
         \A id \in given : origin'[id] = origin[id]
  PROVE  Answered' /\ RevealAuthorised' /\ OwnerRestores'
  BY Zenon DEF TokenInv, Answered, RevealAuthorised, OwnerRestores

\* The parts make the invariant.
LEMMA Assemble ==
  ASSUME TokenInv, UNCHANGED tokenEnv, clock' \in 0 .. MaxTime, given' \subseteq Tokens,
         tok' \in [Tokens -> Rows], origin' \in [Tokens -> Rows], CallType', Calls',
         \A id \in Tokens : Backed(tok'[id], origin'[id], clock'),
         UNCHANGED answers, given \subseteq given', \A id \in given : origin'[id] = origin[id],
         stuck' \subseteq Tokens
  PROVE  TokenInv'
<1>1. TokenTypeOK'
  BY Zenon DEF TokenInv, TokenTypeOK, CallType
<1>2. Table'
  BY Zenon DEF Table
<1>3. QED
  BY Zenon, <1>1, <1>2, AnswersKept DEF TokenInv

\* Eviction removes only rows that expired, and leaves all when it fails.
LEMMA EvictionBacked ==
  ASSUME TokenInv, MayFail(Evicted)
  PROVE  tok' \in [Tokens -> Rows] /\ \A id \in Tokens : Backed(tok'[id], origin[id], clock)
<1>0. SUFFICES ASSUME tok' = Evicted PROVE /\ tok' \in [Tokens -> Rows]
                                           /\ \A id \in Tokens : Backed(tok'[id], origin[id], clock)
  BY Zenon DEF MayFail, TokenInv, TokenTypeOK, Table
<1>1. ASSUME NEW id \in Tokens PROVE Backed(tok'[id], origin[id], clock)
  <2>1. tok'[id] = IF Stored(id) /\ Expired(tok[id]) /\ ~tok[id].flying THEN NoRow ELSE tok[id]
    BY Zenon, <1>0 DEF Evicted
  <2>2. Backed(tok[id], origin[id], clock) /\ NoRow \in Rows
    BY Zenon DEF TokenInv, Table, Rows
  <2>3. QED
    BY Zenon, <2>1, <2>2 DEF Backed, Stored, Expired
<1>2. tok' \in [Tokens -> Rows]
  BY Zenon, <1>0, <1>1 DEF Evicted, Backed
<1>3. QED
  BY Zenon, <1>1, <1>2

\* Setting or clearing a flag leaves tenant and time alone.
LEMMA FlagBacked ==
  ASSUME TokenInv, NEW i \in Tokens, NEW b \in BOOLEAN, tok' = WithFlag(i, b) \/ tok' = tok
  PROVE  tok' \in [Tokens -> Rows] /\ \A id \in Tokens : Backed(tok'[id], origin[id], clock)
<1>1. tok \in [Tokens -> Rows] /\ \A id \in Tokens : Backed(tok[id], origin[id], clock)
  BY Zenon DEF TokenInv, TokenTypeOK, Table
<1>2. CASE tok' = tok
  BY Zenon, <1>1, <1>2
<1>3. CASE Stored(i) /\ tok' = [tok EXCEPT ![i].flying = b]
  <2>1. tok[i] \in [tenant : Tenants, created : 0 .. MaxTime, flying : BOOLEAN]
    BY Zenon, <1>1, <1>3 DEF Stored, Rows
  <2> DEFINE r == [tenant |-> tok[i].tenant, created |-> tok[i].created, flying |-> b]
  <2>2. r \in Rows /\ r # NoRow /\ r.tenant = tok[i].tenant /\ r.created = tok[i].created
    BY Zenon, <2>1, TokenAssumption DEF Rows, NoRow
  <2>3. tok'[i] = r
    BY Zenon, <1>1, <1>3, <2>1
  <2> HIDE DEF r
  <2>4. Backed(tok'[i], origin[i], clock)
    BY Zenon, <1>1, <1>3, <2>2, <2>3 DEF Backed, Stored
  <2>5. \A id \in Tokens : id # i => tok'[id] = tok[id]
    BY Zenon, <1>1, <1>3
  <2>6. \A id \in Tokens : Backed(tok'[id], origin[id], clock)
    BY Zenon, <1>1, <2>4, <2>5
  <2>7. DOMAIN tok' = Tokens /\ tok' = [id \in Tokens |-> tok'[id]]
    BY Zenon, <1>1, <1>3
  <2>8. QED
    BY Zenon, <2>6, <2>7 DEF Backed
<1>4. QED
  BY Zenon, <1>2, <1>3 DEF WithFlag

\* A redact or reveal call begins.
LEMMA StartsInv ==
  ASSUME TokenInv, NEW t \in TokenThreads, Starts(t), UNCHANGED tokenEnv PROVE TokenInv'
<1> USE TokenAssumption
<1>e. tokenEnv.tokens \subseteq Tokens /\ tokenEnv.tenants \subseteq Tenants
  BY Zenon DEF TokenInv, TokenTypeOK, TokenEnvironment
<1>1. PICK n \in Tenants : \/ \E ids \in SUBSET Fresh \ {{}} : Redact(t, ids, n)
                           \/ \E ids \in SUBSET given \ {{}} : Reveal(t, ids, n)
  BY Zenon, <1>e DEF Starts
<1>2. MayFail(Evicted) /\ UNCHANGED <<clock, given, origin, answers, stuck>>
  BY Zenon, <1>1 DEF Redact, Reveal
<1>3. tok' \in [Tokens -> Rows] /\ \A id \in Tokens : Backed(tok'[id], origin'[id], clock')
  BY Zenon, <1>2, EvictionBacked
<1>4. Fresh \subseteq Tokens /\ given \subseteq Tokens /\ n # None
  BY Zenon, <1>e DEF Fresh, TokenInv, TokenTypeOK
<1>5. \A u \in TokenThreads : Holds(call[u], given', origin')
  BY Zenon, <1>2 DEF TokenInv, Calls
<1>6. Calls' /\ CallType'
  <2>1. CASE \E ids \in SUBSET Fresh \ {{}} : Redact(t, ids, n)
    <3>1. PICK ids \in SUBSET Fresh : Redact(t, ids, n)
      BY Zenon, <2>1
    <3> DEFINE c == [at |-> "put", by |-> n, ids |-> ids, todo |-> ids, cur |-> None]
    <3>2. call' = [call EXCEPT ![t] = c]
      BY Zenon, <3>1 DEF Redact
    <3>3. \A id \in ids : origin[id] = NoRow /\ id \notin given /\ \A u \in TokenThreads : id \notin call[u].ids
      BY Zenon, <3>1 DEF Fresh
    <3>4. Holds(c, given', origin')
      BY Zenon, <1>2, <1>4, <3>3 DEF Holds, CallRecord
    <3>5. \A u \in TokenThreads : u # t => c.ids \cap call[u].ids = {}
      BY Zenon, <3>3
    <3> HIDE DEF c
    <3>6. QED
      BY Zenon, <1>5, <3>2, <3>4, <3>5, CallStep
  <2>2. CASE \E ids \in SUBSET given \ {{}} : Reveal(t, ids, n)
    <3>1. PICK ids \in SUBSET given : Reveal(t, ids, n)
      BY Zenon, <2>2
    <3> DEFINE c == [at |-> "flag", by |-> n, ids |-> {}, todo |-> ids, cur |-> None]
    <3>2. call' = [call EXCEPT ![t] = c]
      BY Zenon, <3>1 DEF Reveal
    <3>3. Holds(c, given', origin')
      BY Zenon, <1>2, <1>4 DEF Holds, CallRecord
    <3>4. \A u \in TokenThreads : u # t => c.ids \cap call[u].ids = {}
      BY Zenon
    <3> HIDE DEF c
    <3>5. QED
      BY Zenon, <1>5, <3>2, <3>3, <3>4, CallStep
  <2>3. QED
    BY Zenon, <1>1, <2>1, <2>2
<1>7. QED
  BY Zenon, <1>2, <1>3, <1>6, Assemble DEF TokenInv, TokenTypeOK

\* put_tenant stores a token once, or fails.
LEMMA PutInv ==
  ASSUME TokenInv, NEW t \in TokenThreads, NEW i \in Tokens, Put(t, i) \/ PutFails(t, i), UNCHANGED tokenEnv
  PROVE  TokenInv'
<1> USE TokenAssumption
<1>1. /\ call[t].at = "put" /\ i \in call[t].todo /\ UNCHANGED <<clock, given, answers, stuck>>
      /\ call' = [call EXCEPT ![t].todo = @ \ {i}]
  BY Zenon DEF Put, PutFails
<1>2. Holds(call[t], given, origin) /\ call[t] \in CallRecord
  BY Zenon DEF TokenInv, Calls, Holds
<1>3. call[t].by \in Tenants /\ i \in call[t].ids /\ i \notin given /\ origin[i] = NoRow
  BY Zenon, <1>1, <1>2 DEF Holds
<1> DEFINE row == [tenant |-> call[t].by, created |-> clock, flying |-> FALSE]
           c == [call[t] EXCEPT !.todo = @ \ {i}]
<1>4. row \in Rows /\ row # NoRow /\ NoRow \in Rows /\ clock \in 0 .. MaxTime
  BY Zenon, <1>3 DEF TokenInv, TokenTypeOK, Rows, NoRow
<1>5. \/ tok' = [tok EXCEPT ![i] = row] /\ origin' = [origin EXCEPT ![i] = row]
      \/ UNCHANGED <<tok, origin>>
  BY Zenon DEF Put, PutFails
<1> HIDE DEF row
<1>6. \A id \in Tokens : id # i => tok'[id] = tok[id] /\ origin'[id] = origin[id]
  BY Zenon, <1>5 DEF TokenInv, TokenTypeOK
<1>7. tok' \in [Tokens -> Rows] /\ origin' \in [Tokens -> Rows]
  BY Zenon, <1>4, <1>5 DEF TokenInv, TokenTypeOK
<1>8. \A id \in Tokens : Backed(tok'[id], origin'[id], clock')
  <2>1. Backed(tok'[i], origin'[i], clock')
    <3>1. CASE tok'[i] = row /\ origin'[i] = row
      BY Zenon, <1>4, <3>1 DEF Backed
    <3>2. CASE UNCHANGED <<tok, origin>>
      BY Zenon, <1>1, <3>2 DEF TokenInv, Table
    <3>3. QED
      BY Zenon, <1>5, <3>1, <3>2 DEF TokenInv, TokenTypeOK
  <2>2. QED
    BY Zenon, <1>1, <1>6, <2>1 DEF TokenInv, Table
<1>9. Calls' /\ CallType'
  <2>1. call' = [call EXCEPT ![t] = c]
    BY Zenon, <1>1 DEF TokenInv, TokenTypeOK
  <2>2. c \in CallRecord /\ c.at = call[t].at /\ c.by = call[t].by /\ c.ids = call[t].ids
        /\ c.cur = call[t].cur /\ c.todo = call[t].todo \ {i}
    BY Zenon, <1>2 DEF CallRecord
  <2> HIDE DEF c
  <2>3. Holds(c, given', origin')
    <3>1. \A id \in c.todo : origin'[id] = NoRow
      BY Zenon, <1>1, <1>2, <1>6, <2>2 DEF Holds, CallRecord
    <3>2. QED
      BY Zenon, <1>1, <1>2, <2>2, <3>1 DEF Holds
  <2>4. \A u \in TokenThreads : u # t => c.ids \cap call[u].ids = {}
    BY Zenon, <2>2 DEF TokenInv, Calls
  <2>5. ASSUME NEW u \in TokenThreads, u # t PROVE Holds(call[u], given', origin')
    <3>1. Holds(call[u], given, origin) /\ i \notin call[u].ids
      BY Zenon, <1>3, <2>5 DEF TokenInv, Calls
    <3>2. call[u].at = "put" => \A id \in call[u].todo : origin'[id] = NoRow
      BY Zenon, <1>6, <3>1 DEF Holds, CallRecord
    <3>3. QED
      BY Zenon, <1>1, <3>1, <3>2 DEF Holds
  <2>6. QED
    BY Zenon, <2>1, <2>3, <2>4, <2>5, CallStep
<1>10. given \subseteq Tokens
  BY Zenon DEF TokenInv, TokenTypeOK
<1>11. \A id \in given : origin'[id] = origin[id]
  BY Zenon, <1>3, <1>6, <1>10
<1>12. stuck' \subseteq Tokens
  BY Zenon, <1>1 DEF TokenInv, TokenTypeOK
<1>13. QED
  BY Zenon, <1>1, <1>4, <1>7, <1>8, <1>9, <1>10, <1>11, <1>12, Assemble

\* Flags are set and cleared.
LEMMA FlagInv ==
  ASSUME TokenInv, NEW t \in TokenThreads, NEW i \in Tokens, SetInFlight(t, i) \/ ClearInFlight(t),
         UNCHANGED tokenEnv
  PROVE  TokenInv'
<1> USE TokenAssumption
<1>1. UNCHANGED <<clock, given, origin, answers>>
  BY Zenon DEF SetInFlight, ClearInFlight
<1>2. \A u \in TokenThreads : Holds(call[u], given', origin')
  BY Zenon, <1>1 DEF TokenInv, Calls
<1>3. Holds(call[t], given, origin) /\ call[t] \in CallRecord
  BY Zenon DEF TokenInv, Calls, Holds
<1>4. CASE SetInFlight(t, i)
  <2>1. tok' \in [Tokens -> Rows] /\ \A id \in Tokens : Backed(tok'[id], origin'[id], clock')
    BY Zenon, <1>1, <1>4, FlagBacked DEF SetInFlight, MayFail
  <2>2. call[t].at = "flag" /\ i \in call[t].todo
        /\ call' = [call EXCEPT ![t].at = "get", ![t].cur = i]
    BY Zenon, <1>4 DEF SetInFlight
  <2> DEFINE c == [call[t] EXCEPT !.at = "get", !.cur = i]
  <2>3. call' = [call EXCEPT ![t] = c]
    BY Zenon, <2>2 DEF TokenInv, TokenTypeOK
  <2>4. c \in CallRecord /\ c.at = "get" /\ c.by = call[t].by /\ c.ids = call[t].ids
        /\ c.cur = i /\ c.todo = call[t].todo
    BY Zenon, <1>3 DEF CallRecord
  <2> HIDE DEF c
  <2>5. Holds(c, given', origin')
    BY Zenon, <1>1, <1>3, <2>4, <2>2 DEF Holds
  <2>6. \A u \in TokenThreads : u # t => c.ids \cap call[u].ids = {}
    BY Zenon, <2>4 DEF TokenInv, Calls
  <2>7. Calls' /\ CallType'
    BY Zenon, <1>2, <2>3, <2>5, <2>6, CallStep
  <2>8. UNCHANGED stuck
    BY Zenon, <1>4 DEF SetInFlight
  <2>9. QED
    BY Zenon, <1>1, <2>1, <2>7, <2>8, Assemble DEF TokenInv, TokenTypeOK
<1>5. CASE ClearInFlight(t)
  <2>1. call[t].at = "unflag"
        /\ call' = [call EXCEPT ![t].at = "flag", ![t].cur = None, ![t].todo = @ \ {call[t].cur}]
    BY Zenon, <1>5 DEF ClearInFlight
  <2>2. call[t].cur \in Tokens
    BY Zenon, <1>3, <2>1 DEF Holds, CallRecord
  <2>3. tok' \in [Tokens -> Rows] /\ \A id \in Tokens : Backed(tok'[id], origin'[id], clock')
    BY Zenon, <1>1, <1>5, <2>2, FlagBacked DEF ClearInFlight
  <2> DEFINE c == [call[t] EXCEPT !.at = "flag", !.cur = None, !.todo = @ \ {call[t].cur}]
  <2>4. call' = [call EXCEPT ![t] = c]
    BY Zenon, <2>1 DEF TokenInv, TokenTypeOK
  <2>5. c \in CallRecord /\ c.at = "flag" /\ c.by = call[t].by /\ c.ids = call[t].ids
        /\ c.cur = None /\ c.todo = call[t].todo \ {call[t].cur}
    BY Zenon, <1>3 DEF CallRecord
  <2> HIDE DEF c
  <2>6. Holds(c, given', origin')
    BY Zenon, <1>1, <1>3, <2>5, <2>1 DEF Holds
  <2>7. \A u \in TokenThreads : u # t => c.ids \cap call[u].ids = {}
    BY Zenon, <2>5 DEF TokenInv, Calls
  <2>8. Calls' /\ CallType'
    BY Zenon, <1>2, <2>4, <2>6, <2>7, CallStep
  <2>9. stuck' \subseteq Tokens
    BY Zenon, <1>5, <2>2 DEF ClearInFlight, TokenInv, TokenTypeOK
  <2>10. QED
    BY Zenon, <1>1, <2>3, <2>8, <2>9, Assemble DEF TokenInv, TokenTypeOK
<1>6. QED
  BY Zenon, <1>4, <1>5

\* get_tenant answers the owner before the TTL, and nobody else.
LEMMA GetInv ==
  ASSUME TokenInv, NEW t \in TokenThreads, Get(t), UNCHANGED tokenEnv PROVE TokenInv'
<1> USE TokenAssumption
<1> DEFINE i == call[t].cur
           c == [call[t] EXCEPT !.at = "unflag"]
<1>0. PICK got \in {GetTenant(i, call[t].by), "error"} :
        /\ answers' = answers \cup {[id |-> i, by |-> call[t].by, got |-> got, time |-> clock]}
        /\ MayFail(IF got = "expired" /\ ~tok[i].flying THEN [tok EXCEPT ![i] = NoRow] ELSE tok)
  BY Zenon DEF Get
<1> DEFINE a == [id |-> i, by |-> call[t].by, got |-> got, time |-> clock]
<1>1. /\ call[t].at = "get" /\ UNCHANGED <<clock, given, origin, stuck>>
      /\ answers' = answers \cup {a}
      /\ (got = "expired" /\ tok' = [tok EXCEPT ![i] = NoRow]) \/ tok' = tok
  BY Zenon, <1>0 DEF Get, MayFail
<1>2. call' = [call EXCEPT ![t] = c]
  BY Zenon DEF Get, TokenInv, TokenTypeOK
<1>3. Holds(call[t], given, origin) /\ call[t] \in CallRecord
  BY Zenon DEF TokenInv, Calls, Holds
<1>4. i \in given /\ i \in Tokens /\ call[t].by \in Tenants
  BY Zenon, <1>1, <1>3 DEF Holds, CallRecord
<1>5. /\ got \in {"plain", "expired", "not found", "error"}
      /\ got = "plain" => Stored(i) /\ tok[i].tenant = call[t].by /\ ~Expired(tok[i])
      /\ got = "expired" => Stored(i) /\ Expired(tok[i])
      /\ got = "not found" => ~Stored(i) \/ tok[i].tenant # call[t].by
  BY Zenon, <1>0 DEF GetTenant
<1>6. c \in CallRecord /\ c.at = "unflag" /\ c.by = call[t].by /\ c.ids = call[t].ids
      /\ c.cur = call[t].cur /\ c.todo = call[t].todo
  BY Zenon, <1>3 DEF CallRecord
<1> HIDE DEF i, c
<1>7. Backed(tok[i], origin[i], clock) /\ NoRow \in Rows
  BY Zenon, <1>4 DEF TokenInv, Table, Rows
<1>8. clock \in Nat /\ Ttl \in Nat /\ (origin[i] # NoRow => origin[i].created \in Nat)
  <2>1. clock \in 0 .. MaxTime
    BY Zenon DEF TokenInv, TokenTypeOK
  <2>2. origin[i] # NoRow => origin[i].created \in 0 .. MaxTime
    BY Zenon, <1>7 DEF Rows, Backed
  <2>3. QED
    BY <2>1, <2>2
<1>9. Calls' /\ CallType'
  <2>1. Holds(c, given', origin')
    BY Zenon, <1>1, <1>3, <1>6 DEF Holds
  <2>2. \A u \in TokenThreads : u # t => c.ids \cap call[u].ids = {}
    BY Zenon, <1>6 DEF TokenInv, Calls
  <2>3. \A u \in TokenThreads : Holds(call[u], given', origin')
    BY Zenon, <1>1 DEF TokenInv, Calls
  <2>4. QED
    BY Zenon, <1>2, <2>1, <2>2, <2>3, CallStep
<1>10. tok' \in [Tokens -> Rows] /\ \A id \in Tokens : id # i => tok'[id] = tok[id]
  BY Zenon, <1>1, <1>4, <1>7 DEF TokenInv, TokenTypeOK
<1>11. Table'
  <2>1. Backed(tok'[i], origin'[i], clock')
    <3>1. CASE tok'[i] = NoRow /\ got = "expired"
      BY Zenon, <1>1, <1>5, <1>7, <3>1 DEF Backed, Stored, Expired
    <3>2. CASE tok' = tok
      BY Zenon, <1>1, <1>7, <3>2
    <3>3. QED
      BY Zenon, <1>1, <1>4, <3>1, <3>2 DEF TokenInv, TokenTypeOK
  <2>2. \A id \in Tokens : Backed(tok'[id], origin'[id], clock')
    BY Zenon, <1>1, <1>10, <2>1 DEF TokenInv, Table
  <2>3. QED
    BY Zenon, <1>1, <1>10, <2>2 DEF TokenInv, Table
<1>12. a \in [id : Tokens, by : Tenants, got : {"plain", "expired", "not found", "error"},
            time : 0 .. MaxTime]
  BY Zenon, <1>4, <1>5 DEF TokenInv, TokenTypeOK
<1>13. TokenTypeOK'
  BY Zenon, <1>1, <1>9, <1>10, <1>12 DEF TokenInv, TokenTypeOK, CallType
<1>14. a.id = i /\ a.by = call[t].by /\ a.got = got /\ a.time = clock
  BY Zenon
<1> HIDE DEF a
<1>15. Answered'
  BY Zenon, <1>1, <1>4, <1>14 DEF TokenInv, Answered
<1>16. RevealAuthorised'
  <2>1. got = "plain" => origin[i].tenant = call[t].by /\ clock <= origin[i].created + Ttl
    BY <1>5, <1>7, <1>8 DEF Backed, Stored, Expired
  <2>2. QED
    BY Zenon, <1>1, <1>14, <2>1 DEF TokenInv, RevealAuthorised
<1>17. OwnerRestores'
  <2>1. (origin[i] # NoRow /\ call[t].by = origin[i].tenant /\ got \in {"expired", "not found"})
           => clock > origin[i].created + Ttl
    BY Zenon, <1>5, <1>7, <1>8 DEF Backed, Stored, Expired
  <2>2. QED
    BY Zenon, <1>1, <1>14, <2>1 DEF TokenInv, OwnerRestores
<1>18. QED
  BY Zenon, <1>9, <1>11, <1>13, <1>15, <1>16, <1>17 DEF TokenInv

\* A redact call hands its placeholders out, or a reveal call ends.
LEMMA ReturnInv ==
  ASSUME TokenInv, NEW t \in TokenThreads, RedactReturns(t) \/ RevealReturns(t), UNCHANGED tokenEnv
  PROVE  TokenInv'
<1> USE TokenAssumption
<1>1. /\ UNCHANGED <<tok, clock, origin, answers, stuck>> /\ given \subseteq given'
      /\ call' = [call EXCEPT ![t] = Idle] /\ given' \subseteq given \cup call[t].ids
  BY Zenon DEF RedactReturns, RevealReturns
<1>2. Holds(Idle, given', origin') /\ Idle.ids = {}
  BY Zenon DEF Holds, Idle, CallRecord
<1>3. ASSUME NEW u \in TokenThreads, u # t
      PROVE  Holds(call[u], given', origin') /\ Idle.ids \cap call[u].ids = {}
  <2>1. Holds(call[u], given, origin) /\ call[u].ids \cap call[t].ids = {}
    BY Zenon, <1>3 DEF TokenInv, Calls
  <2>2. QED
    BY <1>1, <1>2, <2>1 DEF Holds
<1>4. Calls' /\ CallType'
  BY Zenon, <1>1, <1>2, <1>3, CallStep
<1>5. given' \subseteq Tokens
  BY Zenon, <1>1 DEF TokenInv, TokenTypeOK, CallRecord
<1>6. QED
  BY Zenon, <1>1, <1>4, <1>5, Assemble DEF TokenInv, TokenTypeOK, Table

\* All calls end in a crash.
LEMMA TokenCrashInv ==
  ASSUME TokenInv, TokenCrash, UNCHANGED tokenEnv PROVE TokenInv'
<1>1. UNCHANGED <<tok, clock, given, origin, answers>> /\ call' = [t \in TokenThreads |-> Idle]
  BY Zenon DEF TokenCrash
<1>2. stuck' \subseteq Tokens
  BY Zenon DEF TokenCrash
<1>3. Holds(Idle, given', origin') /\ Idle.ids = {}
  BY Zenon, TokenAssumption DEF Holds, Idle, CallRecord
<1>4. Calls' /\ CallType'
  BY Zenon, <1>1, <1>3 DEF Calls, CallType, Holds
<1>5. QED
  BY Zenon, <1>1, <1>4, <1>2, Assemble DEF TokenInv, TokenTypeOK, Table

\* Time passes, or nothing happens.
LEMMA TickInv ==
  ASSUME TokenInv, (Tick /\ UNCHANGED tokenEnv) \/ UNCHANGED tokenVars PROVE TokenInv'
<1> USE TokenAssumption
<1>1. UNCHANGED <<tokenEnv, tok, call, given, origin, answers, stuck>>
  BY Zenon DEF Tick, tokenVars
<1>2. clock' \in 0 .. MaxTime /\ clock \in Nat /\ clock <= clock'
  <2>1. clock \in 0 .. MaxTime
    BY Zenon DEF TokenInv, TokenTypeOK
  <2>2. (clock < MaxTime /\ clock' = clock + 1) \/ clock' = clock
    BY Zenon DEF Tick, tokenVars
  <2>3. QED
    BY <2>1, <2>2
<1>3. CallType' /\ Calls'
  BY Zenon, <1>1 DEF TokenInv, TokenTypeOK, CallType, Calls
<1>4. ASSUME NEW id \in Tokens PROVE Backed(tok'[id], origin'[id], clock')
  <2>1. Backed(tok[id], origin[id], clock)
    BY Zenon DEF TokenInv, Table
  <2>2. origin[id] # NoRow => origin[id].created \in Nat
    BY <2>1 DEF Backed, Rows
  <2>3. tok[id] = NoRow /\ origin[id] # NoRow => origin[id].created + Ttl < clock'
    <3>1. tok[id] = NoRow /\ origin[id] # NoRow => origin[id].created + Ttl < clock
      BY Zenon, <2>1 DEF Backed
    <3>2. \A x \in Nat : x + Ttl < clock => x + Ttl < clock'
      BY <1>2
    <3>3. QED
      BY Zenon, <2>2, <3>1, <3>2
  <2>4. QED
    BY Zenon, <1>1, <2>1, <2>3 DEF Backed
<1>5. QED
  BY Zenon, <1>1, <1>2, <1>3, <1>4, Assemble DEF TokenInv, TokenTypeOK

\* Every step keeps the inductive invariant.
LEMMA NextInv == TokenInv /\ [TokenNext]_tokenVars => TokenInv'
<1> SUFFICES ASSUME TokenInv, [TokenNext]_tokenVars PROVE TokenInv'
  BY Zenon
<1>1. ASSUME NEW t \in TokenThreads, Serves(t), UNCHANGED tokenEnv PROVE TokenInv'
  <2>1. ASSUME NEW i \in Tokens, Put(t, i) \/ PutFails(t, i) PROVE TokenInv'
    BY Zenon, <1>1, <2>1, PutInv
  <2>2. ASSUME NEW i \in Tokens, SetInFlight(t, i) PROVE TokenInv'
    BY Zenon, <1>1, <2>2, FlagInv
  <2>3. CASE ClearInFlight(t)
    <3>1. Holds(call[t], given, origin) /\ call[t].at = "unflag"
      BY Zenon, <2>3 DEF ClearInFlight, TokenInv, Calls
    <3>2. call[t].cur \in Tokens
      BY Zenon, <3>1 DEF Holds, CallRecord
    <3>3. QED
      BY Zenon, <1>1, <2>3, <3>2, FlagInv
  <2>4. QED
    BY Zenon, <1>1, <2>1, <2>2, <2>3, GetInv, ReturnInv DEF Serves
<1>2. QED
  BY Zenon, <1>1, StartsInv, TokenCrashInv, TickInv DEF TokenNext

\* The tokens table, the calls and the histories keep their types (TokenTypeOK).
THEOREM TokensTypeCorrect == TokenSpec => []TokenTypeOK
<1>1. TokenInv => TokenTypeOK
  BY Zenon DEF TokenInv
<1>2. QED
  BY <1>1, TokenInitInv, NextInv, PTL DEF TokenSpec

\* A plaintext goes only to the tenant that stored the token and not after its
\* TTL (RevealAuthorised), whatever evictions, puts, reveals and crashes run in
\* between.
THEOREM RevealsAreAuthorised == TokenSpec => []RevealAuthorised
<1>1. TokenInv => RevealAuthorised
  BY Zenon DEF TokenInv
<1>2. QED
  BY <1>1, TokenInitInv, NextInv, PTL DEF TokenSpec

\* Until the TTL is over the owner of a stored token is never told that it is
\* expired or unknown (OwnerRestores), whichever statements fail.
THEOREM OwnersRestore == TokenSpec => []OwnerRestores
<1>1. TokenInv => OwnerRestores
  BY Zenon DEF TokenInv
<1>2. QED
  BY <1>1, TokenInitInv, NextInv, PTL DEF TokenSpec
=============================================================================
