--------------------------- MODULE IpcServerProofs --------------------------
(***************************************************************************)
(* Proofs about IpcServer, for any finite sets of clients and streams, any *)
(* capacity of the semaphores and the pool, and any set of environments.   *)
(***************************************************************************)
EXTENDS IpcServer, FiniteSetTheorems, TLAPS

Busy == {"parsed", "wantReq", "running"}

\* A connection task has a request exactly while dispatch_arc runs, and a call
\* that is under way has a number.
Serving ==
  /\ \A s \in Streams : srv[s] \in Busy <=> cur[s] # Nil
  /\ \A c \in Clients : client[c].at # "idle" => client[c].n \in 1 .. MaxCalls

\* Stream s accounts for a connection permit.
HoldsSlot(s) == srv[s] \notin {"closed", "backlog"}

\* TypeOK but for the bounds of the permits, which follow from their
\* conservation.
Shapes ==
  /\ env \in Environments /\ client \in [Clients -> ClientRecord]
  /\ srv \in [Streams -> {"closed", "backlog", "reading"} \cup Busy]
  /\ cur \in [Streams -> Attempt \cup {Nil}]
  /\ inbuf \in [Streams -> Attempt \cup {Nil}] /\ outbuf \in [Streams -> Seq(Frame)]
  /\ queued \subseteq Attempt /\ running \subseteq Attempt
  /\ joined \subseteq [to : Attempt, result : Results]
  /\ applied \subseteq Attempt /\ unconfirmed \subseteq Attempt
Counters == connFree \in Nat /\ slowFree \in Nat /\ reqFree \in Nat

Sound == Shapes /\ Serving /\ Counters /\ Balanced

-----------------------------------------------------------------------------
(* Counting.                                                                 *)

\* A set that differs from another in one element at most has as many elements,
\* one more or one less.
LEMMA OneChanges ==
  ASSUME NEW S, IsFiniteSet(S), NEW A \in SUBSET S, NEW B \in SUBSET S, NEW s \in S,
         \A t \in S : t # s => (t \in A <=> t \in B)
  PROVE  /\ Cardinality(A) \in Nat /\ Cardinality(B) \in Nat
         /\ s \in A /\ s \notin B => Cardinality(B) = Cardinality(A) - 1
         /\ s \notin A /\ s \in B => Cardinality(B) = Cardinality(A) + 1
         /\ (s \in A <=> s \in B) => Cardinality(B) = Cardinality(A)
<1>1. IsFiniteSet(A) /\ IsFiniteSet(B)
  BY Zenon, FS_Subset
<1>2. Cardinality(A) \in Nat /\ Cardinality(B) \in Nat
  BY Zenon, <1>1, FS_CardinalityType
<1>3. CASE s \in A /\ s \notin B
  <2>1. B = A \ {s}
    BY Zenon, <1>3
  <2>2. QED
    BY Zenon, <1>1, <1>2, <1>3, <2>1, FS_RemoveElement
<1>4. CASE s \notin A /\ s \in B
  <2>1. B = A \cup {s}
    BY Zenon, <1>4
  <2>2. QED
    BY Zenon, <1>1, <1>2, <1>4, <2>1, FS_AddElement
<1>5. CASE s \in A <=> s \in B
  <2>1. A = B
    BY <1>5
  <2>2. QED
    BY Zenon, <1>2, <1>5, <2>1
<1>6. QED
  BY Zenon, <1>2, <1>3, <1>4, <1>5

\* A step of one connection task that gives and takes the permits it accounts
\* for conserves them.
LEMMA PermitsStep ==
  ASSUME Sound, UNCHANGED env, NEW s \in Streams, Counters',
         \A t \in Streams : t # s => srv'[t] = srv[t] /\ cur'[t] = cur[t],
         connFree' = IF HoldsSlot(s) THEN IF HoldsSlot(s)' THEN connFree ELSE connFree + 1
                              ELSE IF HoldsSlot(s)' THEN connFree - 1 ELSE connFree,
         slowFree' = IF HoldsSlow(s) THEN IF HoldsSlow(s)' THEN slowFree ELSE slowFree + 1
                              ELSE IF HoldsSlow(s)' THEN slowFree - 1 ELSE slowFree,
         reqFree' = IF HoldsReq(s) THEN IF HoldsReq(s)' THEN reqFree ELSE reqFree + 1
                              ELSE IF HoldsReq(s)' THEN reqFree - 1 ELSE reqFree
  PROVE  Balanced'
<1> DEFINE L == {t \in Streams : HoldsSlot(t)}
           W == {t \in Streams : HoldsSlow(t)}
           R == {t \in Streams : HoldsReq(t)}
<1>1. IsFiniteSet(Streams) /\ s \in Streams
  BY Zenon, IpcAssumption
<1>2. connFree' + Cardinality(L') = env.slots
  <2>1. connFree + Cardinality(L) = env.slots /\ connFree \in Nat /\ connFree' \in Nat
    BY Zenon DEF Sound, Balanced, Counters, HoldsSlot
  <2>2. \A t \in Streams : t # s => (t \in L <=> t \in L')
    BY Zenon DEF HoldsSlot
  <2>3. (s \in L <=> HoldsSlot(s)) /\ (s \in L' <=> HoldsSlot(s)')
    BY Zenon DEF HoldsSlot
  <2>4. L \in SUBSET Streams /\ L' \in SUBSET Streams
    BY Zenon
  <2> HIDE DEF L
  <2>5. /\ Cardinality(L) \in Nat /\ Cardinality(L') \in Nat
        /\ s \in L /\ s \notin L' => Cardinality(L') = Cardinality(L) - 1
        /\ s \notin L /\ s \in L' => Cardinality(L') = Cardinality(L) + 1
        /\ (s \in L <=> s \in L') => Cardinality(L') = Cardinality(L)
    BY <1>1, <2>2, <2>4, OneChanges
  <2>6. connFree' = IF s \in L THEN IF s \in L' THEN connFree ELSE connFree + 1
                                 ELSE IF s \in L' THEN connFree - 1 ELSE connFree
    BY Zenon, <2>3
  <2>7. QED
    BY ONLY <2>1, <2>5, <2>6
<1>3. slowFree' + Cardinality(W') = MaxSlow
  <2>1. slowFree + Cardinality(W) = MaxSlow /\ slowFree \in Nat /\ slowFree' \in Nat
    BY Zenon DEF Sound, Balanced, Counters, HoldsSlot
  <2>2. \A t \in Streams : t # s => (t \in W <=> t \in W')
    BY Zenon DEF HoldsSlow
  <2>3. (s \in W <=> HoldsSlow(s)) /\ (s \in W' <=> HoldsSlow(s)')
    BY Zenon DEF HoldsSlow
  <2>4. W \in SUBSET Streams /\ W' \in SUBSET Streams
    BY Zenon
  <2> HIDE DEF W
  <2>5. /\ Cardinality(W) \in Nat /\ Cardinality(W') \in Nat
        /\ s \in W /\ s \notin W' => Cardinality(W') = Cardinality(W) - 1
        /\ s \notin W /\ s \in W' => Cardinality(W') = Cardinality(W) + 1
        /\ (s \in W <=> s \in W') => Cardinality(W') = Cardinality(W)
    BY <1>1, <2>2, <2>4, OneChanges
  <2>6. slowFree' = IF s \in W THEN IF s \in W' THEN slowFree ELSE slowFree + 1
                                 ELSE IF s \in W' THEN slowFree - 1 ELSE slowFree
    BY Zenon, <2>3
  <2>7. QED
    BY ONLY <2>1, <2>5, <2>6
<1>4. reqFree' + Cardinality(R') = MaxReqs
  <2>1. reqFree + Cardinality(R) = MaxReqs /\ reqFree \in Nat /\ reqFree' \in Nat
    BY Zenon DEF Sound, Balanced, Counters, HoldsSlot
  <2>2. \A t \in Streams : t # s => (t \in R <=> t \in R')
    BY Zenon DEF HoldsReq
  <2>3. (s \in R <=> HoldsReq(s)) /\ (s \in R' <=> HoldsReq(s)')
    BY Zenon DEF HoldsReq
  <2>4. R \in SUBSET Streams /\ R' \in SUBSET Streams
    BY Zenon
  <2> HIDE DEF R
  <2>5. /\ Cardinality(R) \in Nat /\ Cardinality(R') \in Nat
        /\ s \in R /\ s \notin R' => Cardinality(R') = Cardinality(R) - 1
        /\ s \notin R /\ s \in R' => Cardinality(R') = Cardinality(R) + 1
        /\ (s \in R <=> s \in R') => Cardinality(R') = Cardinality(R)
    BY <1>1, <2>2, <2>4, OneChanges
  <2>6. reqFree' = IF s \in R THEN IF s \in R' THEN reqFree ELSE reqFree + 1
                                 ELSE IF s \in R' THEN reqFree - 1 ELSE reqFree
    BY Zenon, <2>3
  <2>7. QED
    BY ONLY <2>1, <2>5, <2>6
<1>5. QED
  BY Zenon, <1>2, <1>3, <1>4 DEF Balanced, HoldsSlot

-----------------------------------------------------------------------------
(* Types and permits.                                                        *)

\* With the permits conserved, their counters are within bounds.
LEMMA SoundIsTyped == Sound => TypeOK
<1> SUFFICES ASSUME Sound PROVE TypeOK
  BY Zenon
<1>1. /\ Cardinality({s \in Streams : srv[s] \notin {"closed", "backlog"}}) \in Nat
      /\ Cardinality({s \in Streams : HoldsSlow(s)}) \in Nat
      /\ Cardinality({s \in Streams : HoldsReq(s)}) \in Nat
  BY Zenon, FS_Subset, FS_CardinalityType, IpcAssumption
<1>2. env.slots \in Nat /\ MaxSlow \in Nat /\ MaxReqs \in Nat
  BY Zenon, IpcAssumption DEF Sound, Shapes, Environment
<1>3. connFree <= env.slots /\ slowFree <= MaxSlow /\ reqFree <= MaxReqs
  <2>1. /\ connFree + Cardinality({s \in Streams : srv[s] \notin {"closed", "backlog"}}) = env.slots
        /\ slowFree + Cardinality({s \in Streams : HoldsSlow(s)}) = MaxSlow
        /\ reqFree + Cardinality({s \in Streams : HoldsReq(s)}) = MaxReqs
        /\ Counters
    BY Zenon DEF Sound, Balanced
  <2>2. QED
    BY <1>1, <1>2, <2>1 DEF Counters
<1>4. connFree \in 0 .. env.slots /\ slowFree \in 0 .. MaxSlow /\ reqFree \in 0 .. MaxReqs
  BY <1>2, <1>3 DEF Sound, Counters
<1>5. QED
  BY Zenon, <1>4 DEF Sound, Shapes, Busy, TypeOK

\* Permits are free, clients idle and streams closed at the start.
LEMMA SoundInit == Init => Sound
<1> SUFFICES ASSUME Init PROVE Sound
  BY Zenon
<1>1. env.slots \in Nat /\ MaxSlow \in Nat /\ MaxReqs \in Nat
  BY Zenon, IpcAssumption DEF Init, Environment
<1>2. Idle \in ClientRecord /\ Idle.at = "idle"
  BY IpcAssumption DEF Idle, ClientRecord
<1>3. Shapes
  BY <1>2 DEF Init, Shapes
<1>4. Serving
  BY Zenon, <1>2 DEF Init, Serving, Busy
<1>5. Counters
  BY Zenon, <1>1 DEF Init, Counters
<1>6. /\ {s \in Streams : srv[s] \notin {"closed", "backlog"}} = {}
      /\ {s \in Streams : HoldsSlow(s)} = {} /\ {s \in Streams : HoldsReq(s)} = {}
  BY Zenon DEF Init, HoldsSlow, HoldsReq
<1>7. Balanced
  <2>1. /\ Cardinality({s \in Streams : srv[s] \notin {"closed", "backlog"}}) = 0
        /\ Cardinality({s \in Streams : HoldsSlow(s)}) = 0
        /\ Cardinality({s \in Streams : HoldsReq(s)}) = 0
    BY <1>6, FS_EmptySet, Zenon
  <2>2. connFree = env.slots /\ slowFree = MaxSlow /\ reqFree = MaxReqs
    BY Zenon DEF Init
  <2>3. QED
    BY <1>1, <2>1, <2>2 DEF Balanced
<1>8. QED
  BY Zenon, <1>3, <1>4, <1>5, <1>7 DEF Sound

\* Nothing the permits depend on changes.
LEMMA PermitsSame ==
  ASSUME Sound, UNCHANGED <<env, connFree, slowFree, reqFree>>,
         \A s \in Streams : /\ HoldsSlow(s)' <=> HoldsSlow(s)
                            /\ HoldsReq(s)' <=> HoldsReq(s)
                            /\ srv'[s] \in {"closed", "backlog"} <=> srv[s] \in {"closed", "backlog"}
  PROVE  Balanced' /\ Counters'
<1>1. /\ {s \in Streams : srv'[s] \notin {"closed", "backlog"}}
            = {s \in Streams : srv[s] \notin {"closed", "backlog"}}
  BY Zenon
<1>2. {s \in Streams : HoldsSlow(s)'} = {s \in Streams : HoldsSlow(s)}
  BY Zenon
<1>3. {s \in Streams : HoldsReq(s)'} = {s \in Streams : HoldsReq(s)}
  BY Zenon
<1>4. QED
  BY <1>1, <1>2, <1>3 DEF Sound, Balanced, Counters

\* What AfterFailure returns.
LEMMA AfterFailureFacts ==
  ASSUME Sound, NEW c \in Clients, NEW keep \in Streams \cup {Nil}, NEW why \in {"rpc", "io", "parse"}
  PROVE  LET r == AfterFailure(c, keep, why) IN
         /\ r \in ClientRecord /\ r.stream = keep /\ r.n = client[c].n /\ r.last = why
         /\ r.at \in {"idle", "send"} /\ r.slow = client[c].slow
         /\ r.at = "send" => client[c].try = 1 /\ r.try = 2
<1>1. client[c] \in ClientRecord
  BY Zenon DEF Sound, Shapes
<1>2. CASE client[c].try = 1
  <2> DEFINE r == [client[c] EXCEPT !.at = "send", !.try = 2, !.stream = keep, !.last = why]
  <2>1. /\ r.stream = keep /\ r.n = client[c].n /\ r.last = why
        /\ r.at = "send" /\ r.slow = client[c].slow /\ r.try = 2
    BY Zenon, <1>1 DEF ClientRecord
  <2>2. r \in ClientRecord
    <3>1. 2 \in 1 .. 2
      OBVIOUS
    <3>2. QED
      BY Zenon, <1>1, <3>1 DEF ClientRecord
  <2>3. AfterFailure(c, keep, why) = r
    BY Zenon, <1>2 DEF AfterFailure
  <2> HIDE DEF r
  <2>4. QED
    BY Zenon, <1>2, <2>1, <2>3, <2>2
<1>3. CASE client[c].try # 1
  <2> DEFINE r == [client[c] EXCEPT !.at = "idle", !.stream = keep, !.last = why]
  <2>1. /\ r \in ClientRecord /\ r.stream = keep /\ r.n = client[c].n /\ r.last = why
        /\ r.at = "idle" /\ r.slow = client[c].slow
    BY Zenon, <1>1 DEF ClientRecord
  <2>2. AfterFailure(c, keep, why) = r
    BY Zenon, <1>3 DEF AfterFailure
  <2> HIDE DEF r
  <2>3. QED
    BY Zenon, <2>1, <2>2
<1>4. QED
  BY Zenon, <1>2, <1>3

\* The part of it that Read needs.
LEMMA AfterFailureMoves ==
  ASSUME Sound, NEW c \in Clients, NEW keep \in Streams \cup {Nil}, NEW why \in {"rpc", "io", "parse"}
  PROVE  /\ AfterFailure(c, keep, why).at \in {"idle", "send"}
         /\ AfterFailure(c, keep, why).stream = keep
         /\ AfterFailure(c, keep, why).last # "ok"
<1>1. /\ AfterFailure(c, keep, why).at \in {"idle", "send"}
      /\ AfterFailure(c, keep, why).stream = keep /\ AfterFailure(c, keep, why).last = why
  BY AfterFailureFacts
<1>2. why # "ok"
  BY Zenon
<1>3. QED
  BY Zenon, <1>1, <1>2

\* A request under way is an attempt.
LEMMA RequestType ==
  ASSUME Sound, NEW c \in Clients, client[c].at # "idle" PROVE Request(c) \in Attempt
<1>1. client[c] \in ClientRecord /\ client[c].n \in 1 .. MaxCalls
  BY Zenon DEF Sound, Shapes, Serving
<1>2. QED
  BY Zenon, <1>1 DEF Request, Attempt, ClientRecord

\* A client step that leaves the server alone.
LEMMA ClientSound ==
  ASSUME Sound, NEW c \in Clients, NEW r \in ClientRecord, r.at # "idle" => r.n \in 1 .. MaxCalls,
         client' = [client EXCEPT ![c] = r],
         UNCHANGED <<env, srv, cur, connFree, slowFree, reqFree, queued, running, joined, applied>>,
         inbuf' \in [Streams -> Attempt \cup {Nil}], outbuf' \in [Streams -> Seq(Frame)],
         unconfirmed' \subseteq Attempt
  PROVE  Sound'
<1>1. Shapes'
  BY Zenon DEF Sound, Shapes
<1>2. Serving'
  BY Zenon DEF Sound, Shapes, Serving
<1>3. Balanced' /\ Counters'
  BY Zenon DEF Sound, Balanced, Counters, HoldsSlow, HoldsReq
<1>4. QED
  BY Zenon, <1>1, <1>2, <1>3 DEF Sound

\* The next call number, below the bound.
LEMMA NextNumber ==
  ASSUME NEW m \in Nat, NEW e \in 0 .. m, NEW n \in 0 .. m, n < e PROVE n + 1 \in 1 .. m
OBVIOUS

\* Every step of a UdsClient.
LEMMA ClientStepSound ==
  ASSUME Sound, UNCHANGED env, NEW c \in Clients, ClientStep(c) PROVE Sound'
<1>1. /\ client[c] \in ClientRecord /\ env.calls \in 0 .. MaxCalls /\ MaxCalls \in Nat
      /\ env.kinds[c] \subseteq BOOLEAN
  BY IpcAssumption DEF Sound, Shapes, Environment
<1>2. /\ inbuf \in [Streams -> Attempt \cup {Nil}] /\ outbuf \in [Streams -> Seq(Frame)]
      /\ unconfirmed \subseteq Attempt
  BY Zenon DEF Sound, Shapes
<1>3. client[c].at # "idle" => client[c].n \in 1 .. MaxCalls
  BY Zenon DEF Sound, Serving
<1>4. ASSUME NEW slow \in env.kinds[c], Call(c, slow) PROVE Sound'
  <2>1. client[c].n \in 0 .. MaxCalls /\ client[c].n < env.calls
    BY Zenon, <1>1, <1>4 DEF Call, ClientRecord
  <2>2. PICK k \in 1 .. MaxCalls : k = client[c].n + 1
    BY <1>1, <2>1, NextNumber, Zenon
  <2> DEFINE r == [client[c] EXCEPT !.at = "send", !.n = k, !.try = 1, !.slow = slow, !.last = "none"]
  <2>3. r \in ClientRecord /\ r.n \in 1 .. MaxCalls
    <3>1. k \in 0 .. MaxCalls /\ 1 \in 1 .. 2 /\ slow \in BOOLEAN
      BY <1>1, <1>4, <2>2
    <3>2. QED
      BY Zenon, <1>1, <2>2, <3>1 DEF ClientRecord
  <2>4. client' = [client EXCEPT ![c] = r] /\ UNCHANGED <<srv, cur, wire, sems, pool, applied, unconfirmed>>
    <3>1. client' = [client EXCEPT ![c] = [client[c] EXCEPT !.at = "send", !.n = client[c].n + 1,
                                             !.try = 1, !.slow = slow, !.last = "none"]]
      BY Zenon, <1>4 DEF Call
    <3>2. QED
      BY <1>4, <2>2, <3>1, Zenon DEF Call
  <2> HIDE DEF r
  <2>5. QED
    BY Zenon, <1>2, <2>3, <2>4, ClientSound DEF wire, sems, pool
<1>5. CASE Connect(c)
  <2>1. PICK s \in Streams :
          /\ srv[s] = "closed" /\ client' = [client EXCEPT ![c].stream = s]
          /\ srv' = [srv EXCEPT ![s] = "backlog"]
          /\ inbuf' = [inbuf EXCEPT ![s] = Nil] /\ outbuf' = [outbuf EXCEPT ![s] = << >>]
    BY Zenon, <1>5 DEF Connect
  <2>2. UNCHANGED <<env, cur, connFree, slowFree, reqFree, queued, running, joined, applied, unconfirmed>>
    BY Zenon, <1>5 DEF Connect, sems, pool
  <2> DEFINE r == [client[c] EXCEPT !.stream = s]
  <2>3. r \in ClientRecord /\ r.at = client[c].at /\ r.n = client[c].n
    BY Zenon, <1>1 DEF ClientRecord
  <2>4. client' = [client EXCEPT ![c] = r]
    BY Zenon, <2>1
  <2> HIDE DEF r
  <2>5. Shapes'
    <3>1. /\ srv' \in [Streams -> {"closed", "backlog", "reading"} \cup Busy]
          /\ inbuf' \in [Streams -> Attempt \cup {Nil}]
      BY Zenon, <2>1 DEF Sound, Shapes
    <3>2. outbuf' \in [Streams -> Seq(Frame)]
      <4>1. << >> \in Seq(Frame)
        OBVIOUS
      <4>2. QED
        BY <1>2, <2>1, <4>1, Zenon
    <3>3. client' \in [Clients -> ClientRecord]
      BY Zenon, <2>3, <2>4 DEF Sound, Shapes
    <3>4. QED
      BY Zenon, <2>2, <3>1, <3>2, <3>3 DEF Sound, Shapes
  <2>6. Serving'
    <3>1. \A d \in Clients : client'[d].at = client[d].at /\ client'[d].n = client[d].n
      BY Zenon, <2>3, <2>4 DEF Sound, Shapes
    <3>2. \A t \in Streams : srv'[t] \in Busy <=> srv[t] \in Busy
      BY Zenon, <2>1 DEF Sound, Shapes, Busy
    <3>3. QED
      BY Zenon, <2>2, <3>1, <3>2 DEF Sound, Serving
  <2>7. Balanced' /\ Counters'
    <3>1. \A t \in Streams : /\ HoldsSlow(t)' <=> HoldsSlow(t)
                             /\ HoldsReq(t)' <=> HoldsReq(t)
                             /\ srv'[t] \in {"closed", "backlog"} <=> srv[t] \in {"closed", "backlog"}
      BY Zenon, <2>1, <2>2 DEF Sound, Shapes, HoldsSlow, HoldsReq
    <3>2. QED
      BY Zenon, <2>2, <3>1, PermitsSame
  <2>8. QED
    BY Zenon, <2>5, <2>6, <2>7 DEF Sound
<1>6. CASE ConnectFails(c) \/ WriteFails(c)
  <2> DEFINE r == AfterFailure(c, Nil, "io")
  <2>1. /\ client' = [client EXCEPT ![c] = r] /\ client[c].at = "send"
        /\ UNCHANGED <<srv, cur, inbuf, outbuf, connFree, slowFree, reqFree, queued, running, joined, applied, unconfirmed>>
    BY Zenon, <1>6 DEF ConnectFails, WriteFails, wire, sems, pool
  <2>2. r \in ClientRecord /\ r.n = client[c].n
    BY AfterFailureFacts
  <2> HIDE DEF r
  <2>3. QED
    BY Zenon, <1>2, <1>3, <2>1, <2>2, ClientSound
<1>7. CASE Write(c)
  <2> DEFINE s == client[c].stream
             r == [client[c] EXCEPT !.at = "wait"]
  <2>1. /\ client' = [client EXCEPT ![c] = r] /\ inbuf' = [inbuf EXCEPT ![s] = Request(c)]
        /\ client[c].at = "send" /\ s # Nil
        /\ UNCHANGED <<srv, cur, outbuf, connFree, slowFree, reqFree, queued, running, joined, applied, unconfirmed>>
    BY Zenon, <1>7 DEF Write, sems, pool
  <2>2. r \in ClientRecord /\ r.n = client[c].n
    BY Zenon, <1>1 DEF ClientRecord
  <2>3. s \in Streams /\ Request(c) \in Attempt
    BY Zenon, <1>1, <2>1, RequestType DEF ClientRecord
  <2>4. inbuf' \in [Streams -> Attempt \cup {Nil}]
    BY Zenon, <1>2, <2>1, <2>3
  <2> HIDE DEF r, s
  <2>5. QED
    BY Zenon, <1>2, <1>3, <2>1, <2>2, <2>4, ClientSound
<1>8. CASE Read(c)
  <2> DEFINE s == client[c].stream
             frame == Head(outbuf[s])
             ok == [client[c] EXCEPT !.at = "idle", !.last = "ok"]
             r == IF Succeeds(frame) THEN ok ELSE AfterFailure(c, s, Complaint(frame))
  <2>1. /\ client' = [client EXCEPT ![c] = r] /\ outbuf' = [outbuf EXCEPT ![s] = Tail(@)]
        /\ client[c].at = "wait" /\ outbuf[s] # << >>
        /\ UNCHANGED <<srv, cur, inbuf, connFree, slowFree, reqFree, queued, running, joined, applied, unconfirmed>>
    BY Zenon, <1>8 DEF Read, sems, pool
  <2>2. ok \in ClientRecord /\ ok.at = "idle"
    BY Zenon, <1>1 DEF ClientRecord
  <2>3. s \in Streams \cup {Nil} /\ Complaint(frame) \in {"rpc", "io", "parse"}
    BY Zenon, <1>1 DEF ClientRecord, Complaint
  <2>4. /\ AfterFailure(c, s, Complaint(frame)) \in ClientRecord
        /\ AfterFailure(c, s, Complaint(frame)).n = client[c].n
    BY <2>3, AfterFailureFacts
  <2>5. r \in ClientRecord /\ (r.at # "idle" => r.n = client[c].n)
    BY Zenon, <2>2, <2>4
  <2>6. outbuf' \in [Streams -> Seq(Frame)]
    <3>1. CASE s \in Streams
      <4>1. Tail(outbuf[s]) \in Seq(Frame)
        BY <1>2, <2>1, <3>1
      <4>2. QED
        BY Zenon, <1>2, <2>1, <3>1, <4>1
    <3>2. CASE s \notin Streams
      BY Zenon, <1>2, <2>1, <3>2
    <3>3. QED
      BY Zenon, <3>1, <3>2
  <2> HIDE DEF r, s
  <2>7. QED
    BY Zenon, <1>2, <1>3, <2>1, <2>5, <2>6, ClientSound
<1>9. CASE ReadFails(c)
  <2> DEFINE r == AfterFailure(c, Nil, "io")
  <2>1. /\ client' = [client EXCEPT ![c] = r] /\ client[c].at = "wait"
        /\ unconfirmed' = unconfirmed \cup {Request(c)}
        /\ UNCHANGED <<srv, cur, inbuf, outbuf, connFree, slowFree, reqFree, queued, running, joined, applied>>
    BY Zenon, <1>9 DEF ReadFails, wire, sems, pool
  <2>2. r \in ClientRecord /\ r.n = client[c].n
    BY AfterFailureFacts
  <2>3. unconfirmed' \subseteq Attempt
    BY Zenon, <1>2, <2>1, RequestType
  <2> HIDE DEF r
  <2>4. QED
    BY Zenon, <1>2, <1>3, <2>1, <2>2, <2>3, ClientSound
<1>10. QED
  BY Zenon, <1>4, <1>5, <1>6, <1>7, <1>8, <1>9 DEF ClientStep

\* A step of the connection task of stream s, to state v and request q.
LEMMA ServerSound ==
  ASSUME Sound, UNCHANGED <<env, client>>, NEW s \in Streams,
         NEW v \in {"closed", "backlog", "reading"} \cup Busy, NEW q \in Attempt \cup {Nil},
         v \in Busy <=> q # Nil,
         srv' = [srv EXCEPT ![s] = v], cur' = [cur EXCEPT ![s] = q],
         Counters',
         connFree' = IF HoldsSlot(s) THEN IF v \notin {"closed", "backlog"} THEN connFree ELSE connFree + 1
                              ELSE IF v \notin {"closed", "backlog"} THEN connFree - 1 ELSE connFree,
         slowFree' = IF HoldsSlow(s)
                       THEN IF v \in {"wantReq", "running"} /\ q.slow THEN slowFree ELSE slowFree + 1
                       ELSE IF v \in {"wantReq", "running"} /\ q.slow THEN slowFree - 1 ELSE slowFree,
         reqFree' = IF HoldsReq(s) THEN IF v = "running" THEN reqFree ELSE reqFree + 1
                              ELSE IF v = "running" THEN reqFree - 1 ELSE reqFree,
         inbuf' \in [Streams -> Attempt \cup {Nil}], outbuf' \in [Streams -> Seq(Frame)],
         queued' \subseteq Attempt, UNCHANGED running,
         joined' \subseteq joined, UNCHANGED applied, unconfirmed' \subseteq Attempt
  PROVE  Sound'
<1>1. srv \in [Streams -> {"closed", "backlog", "reading"} \cup Busy] /\ cur \in [Streams -> Attempt \cup {Nil}]
  BY Zenon DEF Sound, Shapes
<1>2. srv'[s] = v /\ cur'[s] = q
  BY Zenon, <1>1
<1>3. \A t \in Streams : t # s => srv'[t] = srv[t] /\ cur'[t] = cur[t]
  BY Zenon, <1>1
<1>4. /\ HoldsSlot(s)' <=> v \notin {"closed", "backlog"}
      /\ HoldsSlow(s)' <=> v \in {"wantReq", "running"} /\ q.slow
      /\ HoldsReq(s)' <=> v = "running"
  BY Zenon, <1>2 DEF HoldsSlot, HoldsSlow, HoldsReq
<1>5. /\ connFree' = IF HoldsSlot(s) THEN IF HoldsSlot(s)' THEN connFree ELSE connFree + 1
                               ELSE IF HoldsSlot(s)' THEN connFree - 1 ELSE connFree
      /\ slowFree' = IF HoldsSlow(s) THEN IF HoldsSlow(s)' THEN slowFree ELSE slowFree + 1
                               ELSE IF HoldsSlow(s)' THEN slowFree - 1 ELSE slowFree
      /\ reqFree' = IF HoldsReq(s) THEN IF HoldsReq(s)' THEN reqFree ELSE reqFree + 1
                              ELSE IF HoldsReq(s)' THEN reqFree - 1 ELSE reqFree
  BY Zenon, <1>4
<1>6. Balanced'
  BY <1>3, <1>5, PermitsStep
<1>7. Shapes'
  BY Zenon, <1>1 DEF Sound, Shapes
<1>8. Serving'
  BY Zenon, <1>2, <1>3 DEF Sound, Serving
<1>9. QED
  BY Zenon, <1>6, <1>7, <1>8 DEF Sound

\* dispatch_arc returns.
LEMMA ReplySound ==
  ASSUME Sound, UNCHANGED <<env, client>>, NEW s \in Streams, srv[s] \in Busy,
         NEW result \in Results, Reply(s, result), UNCHANGED <<inbuf, queued, running, applied>>,
         joined' \subseteq joined, unconfirmed' \subseteq Attempt
  PROVE  Sound'
<1>1. /\ outbuf \in [Streams -> Seq(Frame)] /\ queued \subseteq Attempt
      /\ inbuf \in [Streams -> Attempt \cup {Nil}] /\ Counters /\ cur[s] \in Attempt
  BY Zenon DEF Sound, Shapes, Serving
<1>2. HoldsSlot(s)
  BY Zenon DEF Busy, HoldsSlot
<1>3. /\ slowFree' = IF HoldsSlow(s) THEN slowFree + 1 ELSE slowFree
      /\ reqFree' = IF HoldsReq(s) THEN reqFree + 1 ELSE reqFree
      /\ cur' = [cur EXCEPT ![s] = Nil]
  <2>1. DropPermits(s) /\ cur' = [cur EXCEPT ![s] = Nil]
    BY Zenon DEF Reply
  <2>2. slowFree \in Nat /\ reqFree \in Nat
    BY Zenon, <1>1 DEF Counters
  <2>3. QED
    BY <2>1, <2>2 DEF DropPermits
<1>4. slowFree' \in Nat /\ reqFree' \in Nat
  BY <1>1, <1>3 DEF Counters
<1>5. CASE HeldByClient(s)
  <2> DEFINE f == [to |-> cur[s], result |-> result]
  <2>1. /\ outbuf' = [outbuf EXCEPT ![s] = Append(@, f)]
        /\ srv' = [srv EXCEPT ![s] = "reading"] /\ UNCHANGED connFree
    BY Zenon, <1>5 DEF Reply
  <2>2. f \in Frame
    BY Zenon, <1>1 DEF Frame
  <2> HIDE DEF f
  <2>3. Append(outbuf[s], f) \in Seq(Frame)
    BY <1>1, <2>2
  <2>4. outbuf' \in [Streams -> Seq(Frame)]
    BY Zenon, <1>1, <2>1, <2>3
  <2>5. "reading" \notin Busy
    BY Zenon DEF Busy
  <2>6. Counters'
    BY Zenon, <1>1, <1>4, <2>1 DEF Counters
  <2>7. QED
    BY Zenon, <1>1, <1>2, <1>3, <2>1, <2>4, <2>5, <2>6, ServerSound
<1>6. CASE ~HeldByClient(s)
  <2>1. srv' = [srv EXCEPT ![s] = "closed"] /\ connFree' = connFree + 1 /\ UNCHANGED outbuf
    BY Zenon, <1>6 DEF Reply
  <2>2. "closed" \notin Busy
    BY Zenon DEF Busy
  <2>3. Counters'
    BY <1>1, <1>4, <2>1 DEF Counters
  <2>4. QED
    BY Zenon, <1>1, <1>2, <1>3, <2>1, <2>2, <2>3, ServerSound
<1>7. QED
  BY Zenon, <1>5, <1>6

\* Every step of a connection task.
LEMMA ServerStepSound ==
  ASSUME Sound, UNCHANGED env, NEW s \in Streams, ServerStep(s) PROVE Sound'
<1>1. /\ outbuf \in [Streams -> Seq(Frame)] /\ queued \subseteq Attempt /\ unconfirmed \subseteq Attempt
      /\ inbuf \in [Streams -> Attempt \cup {Nil}] /\ cur \in [Streams -> Attempt \cup {Nil}]
      /\ connFree \in Nat /\ slowFree \in Nat /\ reqFree \in Nat
      /\ srv[s] \in Busy <=> cur[s] # Nil
  BY Zenon DEF Sound, Shapes, Serving, Counters
<1>2. cur[s] \in Attempt \cup {Nil} /\ inbuf[s] \in Attempt \cup {Nil} /\ cur = [cur EXCEPT ![s] = cur[s]]
  BY Zenon, <1>1
<1>3. CASE Accept(s)
  <2>1. /\ srv[s] = "backlog" /\ connFree > 0 /\ connFree' = connFree - 1
        /\ srv' = [srv EXCEPT ![s] = "reading"]
        /\ UNCHANGED <<client, cur, inbuf, outbuf, slowFree, reqFree, queued, running, joined, applied, unconfirmed>>
    BY Zenon, <1>3 DEF Accept, wire, pool
  <2>2. ~HoldsSlot(s) /\ ~HoldsSlow(s) /\ ~HoldsReq(s) /\ "reading" \notin Busy /\ srv[s] \notin Busy
    BY Zenon, <2>1 DEF HoldsSlot, HoldsSlow, HoldsReq, Busy
  <2>3. Counters'
    BY <1>1, <2>1 DEF Counters
  <2>4. QED
    BY Zenon, <1>1, <1>2, <2>1, <2>2, <2>3, ServerSound
<1>4. CASE Reject(s)
  <2> DEFINE f == [to |-> Nil, result |-> "garbled"]
  <2>1. /\ srv[s] = "backlog" /\ srv' = [srv EXCEPT ![s] = "closed"]
        /\ outbuf' = [outbuf EXCEPT ![s] = Append(@, f)]
        /\ UNCHANGED <<client, cur, inbuf, connFree, slowFree, reqFree, queued, running, joined, applied, unconfirmed>>
    BY Zenon, <1>4 DEF Reject, sems, pool
  <2>2. f \in Frame
    BY Zenon DEF Frame
  <2> HIDE DEF f
  <2>3. Append(outbuf[s], f) \in Seq(Frame)
    BY <1>1, <2>2
  <2>4. outbuf' \in [Streams -> Seq(Frame)]
    BY Zenon, <1>1, <2>1, <2>3
  <2>5. ~HoldsSlot(s) /\ ~HoldsSlow(s) /\ ~HoldsReq(s) /\ "closed" \notin Busy /\ srv[s] \notin Busy
    BY Zenon, <2>1 DEF HoldsSlot, HoldsSlow, HoldsReq, Busy
  <2>6. Counters'
    BY Zenon, <1>1, <2>1 DEF Counters
  <2>7. QED
    BY Zenon, <1>1, <1>2, <2>1, <2>4, <2>5, <2>6, ServerSound
<1>5. CASE Receive(s)
  <2>1. /\ srv[s] = "reading" /\ inbuf[s] # Nil /\ srv' = [srv EXCEPT ![s] = "parsed"]
        /\ cur' = [cur EXCEPT ![s] = inbuf[s]] /\ inbuf' = [inbuf EXCEPT ![s] = Nil]
        /\ UNCHANGED <<client, outbuf, connFree, slowFree, reqFree, queued, running, joined, applied, unconfirmed>>
    BY Zenon, <1>5 DEF Receive, sems, pool
  <2>2. HoldsSlot(s) /\ ~HoldsSlow(s) /\ ~HoldsReq(s) /\ "parsed" \in Busy
    BY Zenon, <2>1 DEF HoldsSlot, HoldsSlow, HoldsReq, Busy
  <2>3. Counters' /\ inbuf' \in [Streams -> Attempt \cup {Nil}]
    BY Zenon, <1>1, <2>1 DEF Counters
  <2>4. QED
    BY Zenon, <1>1, <1>2, <2>1, <2>2, <2>3, ServerSound
<1>6. CASE HangUp(s)
  <2>1. /\ srv[s] = "reading" /\ srv' = [srv EXCEPT ![s] = "closed"] /\ connFree' = connFree + 1
        /\ UNCHANGED <<client, cur, inbuf, outbuf, slowFree, reqFree, queued, running, joined, applied, unconfirmed>>
    BY Zenon, <1>6 DEF HangUp, wire, pool
  <2>2. HoldsSlot(s) /\ ~HoldsSlow(s) /\ ~HoldsReq(s) /\ "closed" \notin Busy /\ srv[s] \notin Busy
    BY Zenon, <2>1 DEF HoldsSlot, HoldsSlow, HoldsReq, Busy
  <2>3. Counters'
    BY <1>1, <2>1 DEF Counters
  <2>4. QED
    BY Zenon, <1>1, <1>2, <2>1, <2>2, <2>3, ServerSound
<1>7. CASE Deadline(s)
  <2>1. /\ srv[s] \in {"reading", "parsed", "wantReq", "running"} /\ DropPermits(s)
        /\ connFree' = connFree + 1 /\ srv' = [srv EXCEPT ![s] = "closed"]
        /\ cur' = [cur EXCEPT ![s] = Nil] /\ joined' \subseteq joined
        /\ unconfirmed' = unconfirmed \cup ({cur[s]} \ {Nil})
        /\ UNCHANGED <<client, inbuf, outbuf, queued, running, applied>>
    BY Zenon, <1>7 DEF Deadline, wire
  <2>2. HoldsSlot(s) /\ "closed" \notin Busy
    BY Zenon, <2>1 DEF HoldsSlot, Busy
  <2>3. /\ slowFree' = IF HoldsSlow(s) THEN slowFree + 1 ELSE slowFree
        /\ reqFree' = IF HoldsReq(s) THEN reqFree + 1 ELSE reqFree
    BY <1>1, <2>1 DEF DropPermits
  <2>4. Counters' /\ unconfirmed' \subseteq Attempt
    BY <1>1, <1>2, <2>1, <2>3 DEF Counters
  <2>5. QED
    BY Zenon, <1>1, <1>2, <2>1, <2>2, <2>3, <2>4, ServerSound
<1>8. CASE Deny(s) \/ SlowLimited(s) \/ ReqLimited(s)
  <2>1. /\ srv[s] \in Busy /\ Reply(s, "error")
        /\ UNCHANGED <<client, inbuf, queued, running, joined, applied, unconfirmed>>
    BY Zenon, <1>8 DEF Deny, SlowLimited, ReqLimited, pool, Busy
  <2>2. QED
    BY Zenon, <1>1, <2>1, ReplySound DEF Results
<1>9. CASE Join(s)
  <2>1. PICK j \in joined : Reply(s, j.result) /\ joined' = joined \ {j}
    BY Zenon, <1>9 DEF Join
  <2>2. srv[s] \in Busy /\ UNCHANGED <<client, inbuf, queued, running, applied, unconfirmed>>
    BY Zenon, <1>9 DEF Join, Busy
  <2>3. j.result \in Results
    BY Zenon, <2>1 DEF Sound, Shapes
  <2>4. QED
    BY Zenon, <1>1, <2>1, <2>2, <2>3, ReplySound
<1>10. CASE Timeout(s)
  <2>1. /\ srv[s] \in Busy /\ Reply(s, "error") /\ joined' \subseteq joined
        /\ unconfirmed' = unconfirmed \cup {cur[s]} /\ UNCHANGED <<client, inbuf, queued, running, applied>>
    BY Zenon, <1>10 DEF Timeout, Busy
  <2>2. unconfirmed' \subseteq Attempt
    BY Zenon, <1>1, <1>2, <2>1
  <2>3. QED
    BY Zenon, <2>1, <2>2, ReplySound DEF Results
<1>11. CASE TakeSlow(s)
  <2>1. /\ srv[s] = "parsed" /\ cur[s].slow /\ slowFree > 0 /\ slowFree' = slowFree - 1
        /\ srv' = [srv EXCEPT ![s] = "wantReq"]
        /\ UNCHANGED <<client, cur, inbuf, outbuf, connFree, reqFree, queued, running, joined, applied, unconfirmed>>
    BY Zenon, <1>11 DEF TakeSlow, wire, pool
  <2>2. HoldsSlot(s) /\ ~HoldsSlow(s) /\ ~HoldsReq(s) /\ "wantReq" \in Busy /\ srv[s] \in Busy
    BY Zenon, <2>1 DEF HoldsSlot, HoldsSlow, HoldsReq, Busy
  <2>3. Counters'
    BY <1>1, <2>1 DEF Counters
  <2>4. QED
    BY Zenon, <1>1, <1>2, <2>1, <2>2, <2>3, ServerSound
<1>12. CASE SkipSlow(s)
  <2>1. /\ srv[s] = "parsed" /\ ~cur[s].slow /\ srv' = [srv EXCEPT ![s] = "wantReq"]
        /\ UNCHANGED <<client, cur, inbuf, outbuf, connFree, slowFree, reqFree, queued, running, joined, applied, unconfirmed>>
    BY Zenon, <1>12 DEF SkipSlow, wire, sems, pool
  <2>2. HoldsSlot(s) /\ ~HoldsSlow(s) /\ ~HoldsReq(s) /\ "wantReq" \in Busy /\ srv[s] \in Busy
    BY Zenon, <2>1 DEF HoldsSlot, HoldsSlow, HoldsReq, Busy
  <2>3. Counters'
    BY Zenon, <1>1, <2>1 DEF Counters
  <2>4. QED
    BY Zenon, <1>1, <1>2, <2>1, <2>2, <2>3, ServerSound
<1>13. CASE TakeReq(s)
  <2>1. /\ srv[s] = "wantReq" /\ reqFree > 0 /\ reqFree' = reqFree - 1
        /\ queued' = queued \cup {cur[s]} /\ srv' = [srv EXCEPT ![s] = "running"]
        /\ UNCHANGED <<client, cur, inbuf, outbuf, connFree, slowFree, running, joined, applied, unconfirmed>>
    BY Zenon, <1>13 DEF TakeReq, wire
  <2>2. /\ HoldsSlot(s) /\ ~HoldsReq(s) /\ (HoldsSlow(s) <=> cur[s].slow)
        /\ "running" \in Busy /\ srv[s] \in Busy
    BY Zenon, <2>1 DEF HoldsSlot, HoldsSlow, HoldsReq, Busy
  <2>3. Counters' /\ queued' \subseteq Attempt
    BY <1>1, <1>2, <2>1, <2>2 DEF Counters
  <2>4. QED
    BY Zenon, <1>1, <1>2, <2>1, <2>2, <2>3, ServerSound
<1>14. QED
  BY Zenon, <1>3, <1>4, <1>5, <1>6, <1>7, <1>8, <1>9, <1>10, <1>11, <1>12, <1>13 DEF ServerStep

\* A blocking task starts or finishes: no permit moves.
LEMMA PoolSound ==
  ASSUME Sound, UNCHANGED env, (\E t \in queued : Start(t)) \/ (\E t \in running : Finish(t))
  PROVE  Sound'
<1>1. UNCHANGED <<env, client, srv, cur, inbuf, outbuf, connFree, slowFree, reqFree>>
  BY Zenon DEF Start, Finish, wire, sems
<1>2. queued' \subseteq Attempt /\ running' \subseteq Attempt
  BY Zenon DEF Sound, Shapes, Start, Finish
<1>3. /\ applied' \subseteq Attempt /\ unconfirmed' \subseteq Attempt
      /\ joined' \subseteq [to : Attempt, result : Results]
  <2>1. ASSUME NEW t \in queued, Start(t) PROVE UNCHANGED <<applied, joined, unconfirmed>>
    BY Zenon, <2>1 DEF Start
  <2>2. ASSUME NEW t \in running, Finish(t)
        PROVE  /\ applied' \subseteq Attempt /\ unconfirmed' \subseteq Attempt
               /\ joined' \subseteq [to : Attempt, result : Results]
    <3>1. t \in Attempt
      BY Zenon DEF Sound, Shapes
    <3>2. PICK result \in Results : /\ applied' \subseteq applied \cup {t}
                                    /\ unconfirmed' \subseteq unconfirmed \cup {t}
                                    /\ joined' \subseteq joined \cup {[to |-> t, result |-> result]}
      BY Zenon, <2>2 DEF Finish
    <3>3. QED
      BY <3>1, <3>2 DEF Sound, Shapes
  <2>3. QED
    BY Zenon, <2>1, <2>2 DEF Sound, Shapes
<1>4. Shapes' /\ Serving'
  BY Zenon, <1>1, <1>2, <1>3 DEF Sound, Shapes, Serving
<1>5. Balanced' /\ Counters'
  BY Zenon, <1>1 DEF Sound, Balanced, Counters, HoldsSlow, HoldsReq
<1>6. QED
  BY Zenon, <1>4, <1>5 DEF Sound

\* A restart closes every stream and frees every permit.
LEMMA CrashSound ==
  ASSUME Sound, UNCHANGED env, Crash PROVE Sound'
<1>1. /\ srv' = [s \in Streams |-> "closed"] /\ cur' = [s \in Streams |-> Nil]
      /\ connFree' = env.slots /\ slowFree' = MaxSlow /\ reqFree' = MaxReqs
      /\ queued' = {} /\ running' = {} /\ joined' = {}
      /\ unconfirmed' = unconfirmed \cup ({cur[s] : s \in Streams} \ {Nil})
      /\ UNCHANGED <<client, inbuf, outbuf, applied>>
  BY Zenon DEF Crash, wire
<1>2. env.slots \in Nat /\ MaxSlow \in Nat /\ MaxReqs \in Nat
  BY Zenon, IpcAssumption DEF Sound, Shapes, Environment
<1>3. Shapes'
  BY Zenon, <1>1 DEF Sound, Shapes
<1>4. Serving'
  BY Zenon, <1>1 DEF Sound, Serving, Busy
<1>5. Balanced'
  <2>1. /\ {s \in Streams : srv'[s] \notin {"closed", "backlog"}} = {}
        /\ {s \in Streams : HoldsSlow(s)'} = {} /\ {s \in Streams : HoldsReq(s)'} = {}
    BY Zenon, <1>1 DEF HoldsSlow, HoldsReq
  <2>2. /\ Cardinality({s \in Streams : srv'[s] \notin {"closed", "backlog"}}) = 0
        /\ Cardinality({s \in Streams : HoldsSlow(s)'}) = 0
        /\ Cardinality({s \in Streams : HoldsReq(s)'}) = 0
    BY <2>1, FS_EmptySet, Zenon
  <2>3. QED
    BY <1>1, <1>2, <2>2 DEF Balanced
<1>6. Counters'
  BY Zenon, <1>1, <1>2 DEF Counters
<1>7. QED
  BY Zenon, <1>3, <1>4, <1>5, <1>6 DEF Sound

\* Sound is inductive.
LEMMA SoundStep == Sound /\ [Next]_vars => Sound'
<1> SUFFICES ASSUME Sound, [Next]_vars PROVE Sound'
  BY Zenon
<1>1. CASE Next
  BY Zenon, <1>1, ClientStepSound, ServerStepSound, PoolSound, CrashSound DEF Next
<1>2. CASE UNCHANGED vars
  BY Zenon, <1>2 DEF vars, Sound, Shapes, Serving, Counters, Balanced, HoldsSlow, HoldsReq
<1>3. QED
  BY Zenon, <1>1, <1>2

\* Type correctness: in particular each semaphore stays between zero and its
\* capacity.
THEOREM TypeCorrect == Spec => []TypeOK
<1>1. Spec => []Sound
  BY SoundInit, SoundStep, PTL DEF Spec
<1>2. QED
  BY <1>1, SoundIsTyped, PTL

-----------------------------------------------------------------------------
(* Whose answer a client reads.                                              *)

\* What a client at step at, with request q, may find on its stream: nothing
\* before it writes, and then one copy of its request or one answer, as long as
\* the server has not closed the stream.
Mine(at, q, sv, cr, in, out) ==
  /\ at # "wait" /\ sv # "closed" => in = Nil /\ cr = Nil /\ out = << >>
  /\ at = "wait" =>
       /\ in \in {q, Nil} /\ cr \in {q, Nil}
       /\ out # << >> => \E f \in Frame : out = << f >> /\ f.to \in {q, Nil}
       /\ sv # "closed" => (out # << >> => in = Nil /\ cr = Nil) /\ (cr # Nil => in = Nil)
       /\ sv = "backlog" => out = << >>
Own(c) ==
  LET s == client[c].stream IN
  /\ client[c].at = "wait" => s # Nil
  /\ s # Nil => Mine(client[c].at, Request(c), srv[s], cur[s], inbuf[s], outbuf[s])

\* Two clients never share a stream.
Single ==
  \A c, d \in Clients : client[c].stream # Nil /\ client[c].stream = client[d].stream => c = d

\* A result "ok" on its way to a client belongs to a request that took effect.
Ok(out, done) == \A i \in DOMAIN out : out[i].result = "ok" => out[i].to \in done
OkApplied ==
  /\ \A j \in joined : j.result = "ok" => j.to \in applied
  /\ \A s \in Streams : Ok(outbuf[s], applied)

IInv == Sound /\ Single /\ (\A c \in Clients : Own(c)) /\ OkApplied /\ SuccessMeansApplied

\* What the steps of the client do to its view of the stream.
LEMMA MineClient ==
  ASSUME NEW q, NEW p, NEW sv, NEW cr, NEW in, NEW out
  PROVE  /\ Mine("send", q, "backlog", Nil, Nil, << >>)
         /\ Mine("idle", q, sv, cr, in, out) => Mine("send", p, sv, cr, in, out)
         /\ Mine("send", q, sv, cr, in, out) /\ sv # "closed" => Mine("wait", q, sv, cr, q, out)
         /\ \A at \in {"idle", "send"} :
              Mine("wait", q, sv, cr, in, out) /\ out # << >> => Mine(at, p, sv, cr, in, Tail(out))
<1>1. /\ Mine("send", q, "backlog", Nil, Nil, << >>)
      /\ Mine("idle", q, sv, cr, in, out) => Mine("send", p, sv, cr, in, out)
      /\ Mine("send", q, sv, cr, in, out) /\ sv # "closed" => Mine("wait", q, sv, cr, q, out)
  BY Zenon DEF Mine
<1>2. ASSUME NEW at \in {"idle", "send"}, Mine("wait", q, sv, cr, in, out), out # << >>
      PROVE  Mine(at, p, sv, cr, in, Tail(out))
  <2>1. PICK f \in Frame : out = << f >>
    BY Zenon, <1>2 DEF Mine
  <2>2. Tail(out) = << >>
    BY <2>1
  <2>3. QED
    BY Zenon, <1>2, <2>2 DEF Mine
<1>3. QED
  BY Zenon, <1>1, <1>2

\* What the steps of the server do to it.
LEMMA MineServer ==
  ASSUME NEW at, NEW q, NEW sv, NEW cr, NEW in, NEW out, Mine(at, q, sv, cr, in, out)
  PROVE  /\ sv # "closed" => Mine(at, q, "closed", cr, in, out) /\ Mine(at, q, "closed", Nil, in, out)
         /\ \A v : sv # "closed" /\ v # "backlog" => Mine(at, q, v, cr, in, out)
         /\ sv # "closed" /\ in # Nil => Mine(at, q, "parsed", in, Nil, out)
         /\ \A f \in Frame : sv = "backlog" /\ f.to = Nil => Mine(at, q, "closed", cr, in, Append(out, f))
         /\ \A f \in Frame : sv # "closed" /\ cr # Nil /\ f.to = cr
                               => Mine(at, q, "reading", Nil, in, Append(out, f))
<1>1. /\ sv # "closed" => Mine(at, q, "closed", cr, in, out) /\ Mine(at, q, "closed", Nil, in, out)
      /\ \A v : sv # "closed" /\ v # "backlog" => Mine(at, q, v, cr, in, out)
      /\ sv # "closed" /\ in # Nil => Mine(at, q, "parsed", in, Nil, out)
  BY Zenon DEF Mine
<1>2. ASSUME NEW f \in Frame, sv = "backlog", f.to = Nil PROVE Mine(at, q, "closed", cr, in, Append(out, f))
  <2>1. at = "wait" => out = << >>
    BY Zenon, <1>2 DEF Mine
  <2>2. at = "wait" => Append(out, f) = << f >>
    BY <2>1
  <2>3. QED
    BY Zenon, <1>2, <2>2 DEF Mine
<1>3. ASSUME NEW f \in Frame, sv # "closed", cr # Nil, f.to = cr
      PROVE  Mine(at, q, "reading", Nil, in, Append(out, f))
  <2>1. at = "wait" /\ out = << >> /\ in = Nil /\ cr = q
    BY Zenon, <1>3 DEF Mine
  <2>2. Append(out, f) = << f >>
    BY <2>1
  <2>3. QED
    BY Zenon, <1>3, <2>1, <2>2 DEF Mine
<1>4. QED
  BY Zenon, <1>1, <1>2, <1>3

\* Reading a frame and adding one.
LEMMA OkFrames ==
  ASSUME NEW out \in Seq(Frame), NEW done, Ok(out, done)
  PROVE  /\ out # << >> => Ok(Tail(out), done) /\ (Head(out).result = "ok" => Head(out).to \in done)
         /\ \A f \in Frame : (f.result = "ok" => f.to \in done) => Ok(Append(out, f), done)
         /\ \A more : Ok(out, done \cup more)
<1>1. ASSUME out # << >> PROVE Ok(Tail(out), done) /\ (Head(out).result = "ok" => Head(out).to \in done)
  <2>1. Len(out) \in Nat /\ Len(out) >= 1 /\ DOMAIN out = 1 .. Len(out)
    BY <1>1
  <2>2. Head(out) = out[1] /\ DOMAIN Tail(out) = 1 .. (Len(out) - 1)
        /\ \A i \in 1 .. (Len(out) - 1) : Tail(out)[i] = out[i + 1]
    BY <1>1, <2>1
  <2>3. \A i \in 1 .. (Len(out) - 1) : i + 1 \in DOMAIN out
    BY <2>1
  <2>4. 1 \in DOMAIN out
    BY <2>1
  <2>5. QED
    BY Zenon, <2>2, <2>3, <2>4 DEF Ok
<1>2. ASSUME NEW f \in Frame, f.result = "ok" => f.to \in done PROVE Ok(Append(out, f), done)
  <2>1. /\ DOMAIN Append(out, f) = 1 .. (Len(out) + 1) /\ DOMAIN out = 1 .. Len(out) /\ Len(out) \in Nat
        /\ Append(out, f)[Len(out) + 1] = f
        /\ \A i \in 1 .. Len(out) : Append(out, f)[i] = out[i]
    OBVIOUS
  <2>2. \A i \in 1 .. (Len(out) + 1) : i = Len(out) + 1 \/ i \in 1 .. Len(out)
    BY <2>1
  <2>3. QED
    BY Zenon, <1>2, <2>1, <2>2 DEF Ok
<1>3. \A more : Ok(out, done \cup more)
  BY Zenon DEF Ok
<1>4. QED
  BY Zenon, <1>1, <1>2, <1>3

\* A client that keeps away from the others' streams.
LEMMA ClientKeeps ==
  ASSUME IInv, Sound', NEW c \in Clients, NEW r \in ClientRecord,
         client' = [client EXCEPT ![c] = r], UNCHANGED <<joined, applied>>,
         \A d \in Clients : d # c /\ client[d].stream # Nil =>
           /\ client[d].stream # r.stream
           /\ srv'[client[d].stream] = srv[client[d].stream]
           /\ cur'[client[d].stream] = cur[client[d].stream]
           /\ inbuf'[client[d].stream] = inbuf[client[d].stream]
           /\ outbuf'[client[d].stream] = outbuf[client[d].stream],
         Own(c)', \A t \in Streams : Ok(outbuf'[t], applied),
         r.last = "ok" => \E a \in applied : a.cl = c /\ a.n = r.n
  PROVE  IInv'
<1>1. client'[c] = r /\ \A d \in Clients : d # c => client'[d] = client[d]
  BY Zenon DEF IInv, Sound, Shapes
<1>2. Single'
  BY <1>1 DEF IInv, Single
<1>3. ASSUME NEW d \in Clients PROVE Own(d)'
  <2>1. CASE d = c
    BY Zenon, <2>1
  <2>2. CASE d # c
    <3>1. Own(d) /\ client'[d] = client[d]
      BY Zenon, <1>1, <2>2 DEF IInv
    <3>2. Request(d)' = Request(d)
      BY Zenon, <3>1 DEF Request
    <3>3. CASE client[d].stream = Nil
      BY <3>1, <3>3 DEF Own
    <3>4. CASE client[d].stream # Nil
      <4> DEFINE t == client[d].stream
      <4>1. srv'[t] = srv[t] /\ cur'[t] = cur[t] /\ inbuf'[t] = inbuf[t] /\ outbuf'[t] = outbuf[t]
        BY <2>2, <3>4
      <4>2. Mine(client[d].at, Request(d), srv[t], cur[t], inbuf[t], outbuf[t])
        BY <3>1, <3>4 DEF Own
      <4>3. QED
        BY <3>1, <3>2, <3>4, <4>1, <4>2 DEF Own
    <3>5. QED
      BY Zenon, <3>3, <3>4
  <2>3. QED
    BY Zenon, <2>1, <2>2
<1>4. OkApplied'
  BY Zenon DEF IInv, OkApplied
<1>5. SuccessMeansApplied'
  BY <1>1 DEF IInv, SuccessMeansApplied
<1>6. QED
  BY Zenon, <1>2, <1>3, <1>4, <1>5 DEF IInv

\* Every step of a UdsClient.
LEMMA ClientStepKeeps ==
  ASSUME IInv, UNCHANGED env, NEW c \in Clients, ClientStep(c) PROVE IInv'
<1> DEFINE s == client[c].stream
<1>1. Sound /\ Sound' /\ Single /\ Own(c) /\ OkApplied
  BY Zenon, ClientStepSound DEF IInv
<1>2. /\ client[c] \in ClientRecord /\ client \in [Clients -> ClientRecord]
      /\ srv \in [Streams -> {"closed", "backlog", "reading"} \cup Busy]
      /\ cur \in [Streams -> Attempt \cup {Nil}]
      /\ inbuf \in [Streams -> Attempt \cup {Nil}] /\ outbuf \in [Streams -> Seq(Frame)]
  BY Zenon, <1>1 DEF Sound, Shapes
<1>3. /\ s \in Streams \cup {Nil} /\ client'[c] \in ClientRecord /\ client' \in [Clients -> ClientRecord]
      /\ Nil \notin Streams /\ Nil \notin Attempt
  BY Zenon, <1>1, <1>2, IpcAssumption DEF Sound, Shapes, ClientRecord
<1>4. \A t \in Streams : Ok(outbuf[t], applied)
  BY Zenon, <1>1 DEF OkApplied
<1>5. \A d \in Clients : d # c /\ client[d].stream # Nil => client[d].stream # s
  BY Zenon, <1>1 DEF Single
<1>6. client[c].last = "ok" => \E a \in applied : a.cl = c /\ a.n = client[c].n
  BY Zenon DEF IInv, SuccessMeansApplied
<1>7. ASSUME NEW slow \in env.kinds[c], Call(c, slow) PROVE IInv'
  <2> DEFINE r == [client[c] EXCEPT !.at = "send", !.n = client[c].n + 1, !.try = 1, !.slow = slow, !.last = "none"]
  <2>1. /\ client' = [client EXCEPT ![c] = r] /\ client[c].at = "idle"
        /\ UNCHANGED <<srv, cur, inbuf, outbuf, joined, applied>>
    BY Zenon, <1>7 DEF Call, wire, pool
  <2>2. r.at = "send" /\ r.stream = s /\ r.last = "none"
    BY Zenon, <1>2 DEF ClientRecord
  <2> HIDE DEF r
  <2>3. client'[c] = r /\ r \in ClientRecord
    BY Zenon, <1>2, <1>3, <2>1
  <2>4. Own(c)'
    <3>1. s # Nil => Mine("idle", Request(c), srv[s], cur[s], inbuf[s], outbuf[s])
      BY Zenon, <1>1, <2>1 DEF Own
    <3>2. s # Nil => Mine("send", Request(c)', srv[s], cur[s], inbuf[s], outbuf[s])
      BY Zenon, <3>1, MineClient
    <3>3. QED
      BY Zenon, <2>1, <2>2, <2>3, <3>2 DEF Own
  <2>5. QED
    BY Zenon, <1>1, <1>4, <1>5, <2>1, <2>2, <2>3, <2>4, ClientKeeps
<1>8. CASE Connect(c)
  <2>1. PICK t \in Streams :
          /\ srv[t] = "closed" /\ ~HeldByClient(t) /\ client' = [client EXCEPT ![c].stream = t]
          /\ srv' = [srv EXCEPT ![t] = "backlog"]
          /\ inbuf' = [inbuf EXCEPT ![t] = Nil] /\ outbuf' = [outbuf EXCEPT ![t] = << >>]
    BY Zenon, <1>8 DEF Connect
  <2>2. client[c].at = "send" /\ UNCHANGED <<cur, joined, applied>>
    BY Zenon, <1>8 DEF Connect, pool
  <2> DEFINE r == [client[c] EXCEPT !.stream = t]
  <2>3. client' = [client EXCEPT ![c] = r]
    BY Zenon, <2>1
  <2>4. r.at = "send" /\ r.stream = t /\ r.last = client[c].last /\ r.n = client[c].n
    BY Zenon, <1>2, <2>2 DEF ClientRecord
  <2> HIDE DEF r
  <2>5. client'[c] = r /\ r \in ClientRecord
    BY Zenon, <1>2, <1>3, <2>3
  <2>6. srv'[t] = "backlog" /\ inbuf'[t] = Nil /\ outbuf'[t] = << >> /\ cur'[t] = Nil
    BY Zenon, <1>1, <1>2, <2>1, <2>2 DEF Sound, Serving, Busy
  <2>7. Own(c)'
    BY Zenon, <1>3, <2>4, <2>5, <2>6, MineClient DEF Own
  <2>8. \A d \in Clients : client[d].stream # t
    BY Zenon, <2>1 DEF HeldByClient
  <2>9. \A d \in Clients : d # c /\ client[d].stream # Nil =>
          /\ client[d].stream # r.stream
          /\ srv'[client[d].stream] = srv[client[d].stream]
          /\ cur'[client[d].stream] = cur[client[d].stream]
          /\ inbuf'[client[d].stream] = inbuf[client[d].stream]
          /\ outbuf'[client[d].stream] = outbuf[client[d].stream]
    <3>1. \A d \in Clients : client[d].stream \in Streams \cup {Nil}
      BY Zenon, <1>2 DEF ClientRecord
    <3>2. QED
      BY Zenon, <1>2, <2>1, <2>2, <2>4, <2>8, <3>1
  <2>10. \A u \in Streams : Ok(outbuf'[u], applied)
    BY <1>2, <1>4, <2>1 DEF Ok
  <2>11. r.last = "ok" => \E a \in applied : a.cl = c /\ a.n = r.n
    BY Zenon, <1>6, <2>4
  <2>12. QED
    BY Zenon, <1>1, <2>2, <2>3, <2>5, <2>7, <2>9, <2>10, <2>11, ClientKeeps
<1>9. CASE ConnectFails(c) \/ WriteFails(c) \/ ReadFails(c)
  <2> DEFINE r == AfterFailure(c, Nil, "io")
  <2>1. client' = [client EXCEPT ![c] = r] /\ UNCHANGED <<srv, cur, inbuf, outbuf, joined, applied>>
    BY Zenon, <1>9 DEF ConnectFails, WriteFails, ReadFails, wire, pool
  <2>2. r \in ClientRecord /\ r.stream = Nil /\ r.last = "io" /\ r.at \in {"idle", "send"}
    <3>1. Nil \in Streams \cup {Nil} /\ "io" \in {"rpc", "io", "parse"}
      BY Zenon
    <3>2. QED
      BY <1>1, <3>1, AfterFailureFacts, Zenon
  <2> HIDE DEF r
  <2>3. client'[c] = r
    BY Zenon, <1>2, <2>1
  <2>4. Own(c)'
    BY Zenon, <2>2, <2>3 DEF Own
  <2>5. QED
    BY Zenon, <1>1, <1>4, <2>1, <2>2, <2>4, ClientKeeps
<1>10. CASE Write(c)
  <2> DEFINE r == [client[c] EXCEPT !.at = "wait"]
  <2>1. /\ client[c].at = "send" /\ s # Nil /\ srv[s] # "closed"
        /\ inbuf' = [inbuf EXCEPT ![s] = Request(c)] /\ client' = [client EXCEPT ![c] = r]
        /\ UNCHANGED <<srv, cur, outbuf, joined, applied>>
    BY Zenon, <1>10 DEF Write, pool
  <2>2. /\ r.at = "wait" /\ r.stream = s /\ r.last = client[c].last /\ r.n = client[c].n
        /\ r.try = client[c].try /\ r.slow = client[c].slow
    BY Zenon, <1>2 DEF ClientRecord
  <2> HIDE DEF r
  <2>3. client'[c] = r /\ r \in ClientRecord
    BY <1>2, <1>3, <2>1
  <2>4. Request(c)' = Request(c) /\ inbuf'[s] = Request(c) /\ s \in Streams
    BY Zenon, <1>2, <1>3, <2>1, <2>2, <2>3 DEF Request
  <2>5. Mine("wait", Request(c), srv[s], cur[s], Request(c), outbuf[s])
    BY Zenon, <1>1, <2>1, MineClient DEF Own
  <2>6. Own(c)'
    BY <2>1, <2>2, <2>3, <2>4, <2>5 DEF Own
  <2>7. \A d \in Clients : d # c /\ client[d].stream # Nil =>
          inbuf'[client[d].stream] = inbuf[client[d].stream]
    BY Zenon, <1>2, <1>5, <2>1, <2>4 DEF ClientRecord
  <2>8. r.last = "ok" => \E a \in applied : a.cl = c /\ a.n = r.n
    BY Zenon, <1>6, <2>2
  <2>9. \A d \in Clients : d # c /\ client[d].stream # Nil =>
          /\ client[d].stream # r.stream
          /\ srv'[client[d].stream] = srv[client[d].stream]
          /\ cur'[client[d].stream] = cur[client[d].stream]
          /\ inbuf'[client[d].stream] = inbuf[client[d].stream]
          /\ outbuf'[client[d].stream] = outbuf[client[d].stream]
    BY Zenon, <1>5, <2>1, <2>2, <2>7
  <2>10. (\A t \in Streams : Ok(outbuf'[t], applied)) /\ UNCHANGED <<joined, applied>>
    BY Zenon, <1>4, <2>1
  <2>11. client' = [client EXCEPT ![c] = r]
    BY Zenon, <2>1
  <2> HIDE DEF s
  <2>12. QED
    BY Zenon, <1>1, <2>3, <2>6, <2>8, <2>9, <2>10, <2>11, ClientKeeps
<1>11. CASE Read(c)
  <2> DEFINE frame == Head(outbuf[s])
             ok == [client[c] EXCEPT !.at = "idle", !.last = "ok"]
             r == IF Succeeds(frame) THEN ok ELSE AfterFailure(c, s, Complaint(frame))
  <2>1. /\ client[c].at = "wait" /\ outbuf[s] # << >> /\ outbuf' = [outbuf EXCEPT ![s] = Tail(@)]
        /\ client' = [client EXCEPT ![c] = r]
        /\ UNCHANGED <<srv, cur, inbuf, joined, applied>>
    BY Zenon, <1>11 DEF Read, pool
  <2>2. /\ s \in Streams /\ Mine("wait", Request(c), srv[s], cur[s], inbuf[s], outbuf[s])
    BY Zenon, <1>1, <1>3, <2>1 DEF Own
  <2>3. ok.at = "idle" /\ ok.stream = s /\ ok.n = client[c].n /\ ok.last = "ok"
    BY Zenon, <1>2 DEF ClientRecord
  <2>4. /\ AfterFailure(c, s, Complaint(frame)).at \in {"idle", "send"}
        /\ AfterFailure(c, s, Complaint(frame)).stream = s
        /\ AfterFailure(c, s, Complaint(frame)).last # "ok"
    <3>1. Complaint(frame) \in {"rpc", "io", "parse"}
      BY Zenon DEF Complaint
    <3>2. Sound /\ s \in Streams \cup {Nil}
      BY Zenon, <1>1, <1>3
    <3> HIDE DEF s, frame
    <3>3. QED
      BY <3>1, <3>2, AfterFailureMoves
  <2>5. PICK f \in Frame : outbuf[s] = << f >> /\ f.to \in {Request(c), Nil}
    <3> HIDE DEF s, r, ok
    <3>1. QED
      BY Zenon, <2>1, <2>2 DEF Mine
  <2>6. frame = f
    BY <2>5
  <2>7. Succeeds(frame) => Request(c) \in applied
    <3>1. frame.result = "ok" => frame.to \in applied
      BY Zenon, <1>2, <1>4, <2>1, <2>2, OkFrames
    <3>2. f.result = "ok" => f.to # Nil
      BY Zenon, <1>3 DEF Frame, Results
    <3>3. QED
      BY Zenon, <2>5, <2>6, <3>1, <3>2 DEF Succeeds
  <2>8. r.at \in {"idle", "send"} /\ r.stream = s
        /\ (r.last = "ok" => \E a \in applied : a.cl = c /\ a.n = r.n)
    <3>1. Request(c).cl = c /\ Request(c).n = client[c].n
      BY Zenon DEF Request
    <3>2. QED
      BY Zenon, <2>3, <2>4, <2>7, <3>1
  <2> HIDE DEF r
  <2>9. client'[c] = r /\ r \in ClientRecord
    BY Zenon, <1>2, <1>3, <2>1
  <2>10. outbuf'[s] = Tail(outbuf[s]) /\ \A u \in Streams : u # s => outbuf'[u] = outbuf[u]
    BY Zenon, <1>2, <2>1, <2>2
  <2>11. Own(c)'
    <3>1. Mine(r.at, Request(c)', srv[s], cur[s], inbuf[s], Tail(outbuf[s]))
      BY Zenon, <2>1, <2>2, <2>8, MineClient
    <3>2. QED
      BY <2>1, <2>8, <2>9, <2>10, <3>1 DEF Own
  <2>12. \A u \in Streams : Ok(outbuf'[u], applied)
    <3>1. outbuf[s] \in Seq(Frame) /\ Ok(outbuf[s], applied)
      BY Zenon, <1>2, <1>4, <2>2
    <3>2. Ok(Tail(outbuf[s]), applied)
      BY <2>1, <3>1, OkFrames, Zenon
    <3>3. QED
      BY Zenon, <1>4, <2>10, <3>2
  <2>13. \A d \in Clients : d # c /\ client[d].stream # Nil =>
           outbuf'[client[d].stream] = outbuf[client[d].stream]
    BY Zenon, <1>2, <1>5, <2>10 DEF ClientRecord
  <2>14. QED
    <3>1. \A d \in Clients : d # c /\ client[d].stream # Nil =>
            /\ client[d].stream # r.stream
            /\ srv'[client[d].stream] = srv[client[d].stream]
            /\ cur'[client[d].stream] = cur[client[d].stream]
            /\ inbuf'[client[d].stream] = inbuf[client[d].stream]
            /\ outbuf'[client[d].stream] = outbuf[client[d].stream]
      BY Zenon, <1>5, <2>1, <2>8, <2>13
    <3>2. client' = [client EXCEPT ![c] = r] /\ UNCHANGED <<joined, applied>>
      BY Zenon, <2>1
    <3>3. r \in ClientRecord /\ (r.last = "ok" => \E a \in applied : a.cl = c /\ a.n = r.n)
      BY Zenon, <2>8, <2>9
    <3> HIDE DEF s
    <3>4. QED
      BY Zenon, <1>1, <2>11, <2>12, <3>1, <3>2, <3>3, ClientKeeps
<1>12. QED
  BY Zenon, <1>7, <1>8, <1>9, <1>10, <1>11 DEF ClientStep

\* A connection task keeps to its stream.
LEMMA ServerKeeps ==
  ASSUME IInv, Sound', UNCHANGED <<client, applied>>, joined' \subseteq joined, NEW s \in Streams,
         \A t \in Streams : t # s => /\ srv'[t] = srv[t] /\ cur'[t] = cur[t]
                                   /\ inbuf'[t] = inbuf[t] /\ outbuf'[t] = outbuf[t],
         \A d \in Clients : client[d].stream = s =>
           Mine(client[d].at, Request(d), srv'[s], cur'[s], inbuf'[s], outbuf'[s]),
         Ok(outbuf'[s], applied)
  PROVE  IInv'
<1>1. Single' /\ SuccessMeansApplied'
  BY DEF IInv, Single, SuccessMeansApplied
<1>2. OkApplied'
  BY Zenon DEF IInv, OkApplied
<1>3. ASSUME NEW d \in Clients PROVE Own(d)'
  <2>1. Request(d)' = Request(d) /\ client[d].stream \in Streams \cup {Nil} /\ Own(d)
    BY Zenon DEF Request, IInv, Sound, Shapes, ClientRecord
  <2>2. QED
    BY <2>1 DEF Own
<1>4. QED
  BY <1>1, <1>2, <1>3 DEF IInv

\* The answer of dispatch_arc.
LEMMA ReplyKeeps ==
  ASSUME IInv, Sound', UNCHANGED <<client, applied, inbuf>>, joined' \subseteq joined, NEW s \in Streams,
         srv[s] \in Busy, NEW result \in Results, Reply(s, result), result = "ok" => cur[s] \in applied
  PROVE  IInv'
<1>1. /\ srv \in [Streams -> {"closed", "backlog", "reading"} \cup Busy]
      /\ cur \in [Streams -> Attempt \cup {Nil}] /\ cur[s] # Nil /\ cur[s] \in Attempt
      /\ outbuf \in [Streams -> Seq(Frame)]
  BY Zenon DEF IInv, Sound, Shapes, Serving
<1>2. cur' = [cur EXCEPT ![s] = Nil]
  BY Zenon DEF Reply
<1>3. srv[s] # "closed" /\ Nil \notin Streams
  BY Zenon, IpcAssumption DEF Busy
<1>4. /\ Ok(outbuf[s], applied)
      /\ \A d \in Clients : client[d].stream = s =>
           Mine(client[d].at, Request(d), srv[s], cur[s], inbuf[s], outbuf[s])
  BY <1>3 DEF IInv, OkApplied, Own
<1>5. CASE HeldByClient(s)
  <2> DEFINE f == [to |-> cur[s], result |-> result]
  <2>1. outbuf' = [outbuf EXCEPT ![s] = Append(@, f)] /\ srv' = [srv EXCEPT ![s] = "reading"]
    BY Zenon, <1>5 DEF Reply
  <2>2. f \in Frame /\ f.to = cur[s] /\ f.result = result
    BY Zenon, <1>1 DEF Frame
  <2> HIDE DEF f
  <2>3. outbuf'[s] = Append(outbuf[s], f) /\ srv'[s] = "reading" /\ cur'[s] = Nil
    BY Zenon, <1>1, <1>2, <2>1
  <2>4. \A d \in Clients : client[d].stream = s =>
          Mine(client[d].at, Request(d), "reading", Nil, inbuf[s], Append(outbuf[s], f))
    BY <1>1, <1>3, <1>4, <2>2, MineServer
  <2>5. Ok(Append(outbuf[s], f), applied)
    BY <1>1, <1>4, <2>2, OkFrames
  <2>6. \A t \in Streams : t # s => /\ srv'[t] = srv[t] /\ cur'[t] = cur[t]
                                   /\ inbuf'[t] = inbuf[t] /\ outbuf'[t] = outbuf[t]
    BY Zenon, <1>1, <1>2, <2>1
  <2>7. QED
    BY Zenon, <2>3, <2>4, <2>5, <2>6, ServerKeeps
<1>6. CASE ~HeldByClient(s)
  <2>1. srv' = [srv EXCEPT ![s] = "closed"] /\ UNCHANGED outbuf /\ \A d \in Clients : client[d].stream # s
    BY Zenon, <1>6 DEF Reply, HeldByClient
  <2>2. \A t \in Streams : t # s => /\ srv'[t] = srv[t] /\ cur'[t] = cur[t]
                                   /\ inbuf'[t] = inbuf[t] /\ outbuf'[t] = outbuf[t]
    BY Zenon, <1>1, <1>2, <2>1
  <2>3. QED
    BY <1>4, <2>1, <2>2, ServerKeeps
<1>7. QED
  BY Zenon, <1>5, <1>6

\* Every step of a connection task.
LEMMA ServerStepKeeps ==
  ASSUME IInv, UNCHANGED env, NEW s \in Streams, ServerStep(s) PROVE IInv'
<1>1. Sound /\ Sound' /\ OkApplied
  BY Zenon, ServerStepSound DEF IInv
<1>2. /\ srv \in [Streams -> {"closed", "backlog", "reading"} \cup Busy]
      /\ cur \in [Streams -> Attempt \cup {Nil}] /\ (srv[s] \notin Busy => cur[s] = Nil)
      /\ inbuf \in [Streams -> Attempt \cup {Nil}] /\ outbuf \in [Streams -> Seq(Frame)]
  BY Zenon, <1>1 DEF Sound, Shapes, Serving
<1>3. /\ Ok(outbuf[s], applied)
      /\ \A d \in Clients : client[d].stream = s =>
           Mine(client[d].at, Request(d), srv[s], cur[s], inbuf[s], outbuf[s])
  <2>1. Nil \notin Streams
    BY Zenon, IpcAssumption
  <2>2. QED
    BY <1>1, <2>1 DEF IInv, OkApplied, Own
<1>4. ASSUME NEW v, srv[s] # "closed", v # "backlog", srv' = [srv EXCEPT ![s] = v],
             UNCHANGED <<client, cur, inbuf, outbuf, applied, joined>>
      PROVE  IInv'
  <2>1. srv'[s] = v /\ \A t \in Streams : t # s => srv'[t] = srv[t]
    BY Zenon, <1>2, <1>4
  <2>2. \A d \in Clients : client[d].stream = s =>
          Mine(client[d].at, Request(d), v, cur[s], inbuf[s], outbuf[s])
    BY <1>3, <1>4, MineServer
  <2>3. QED
    BY <1>1, <1>3, <1>4, <2>1, <2>2, ServerKeeps
<1>5. CASE Accept(s)
  BY Zenon, <1>4, <1>5 DEF Accept, wire, pool
<1>6. CASE HangUp(s)
  BY Zenon, <1>4, <1>6 DEF HangUp, wire, pool
<1>7. CASE TakeSlow(s) \/ SkipSlow(s)
  BY Zenon, <1>4, <1>7 DEF TakeSlow, SkipSlow, wire, pool
<1>8. CASE TakeReq(s)
  BY Zenon, <1>4, <1>8 DEF TakeReq, wire
<1>9. CASE Reject(s)
  <2> DEFINE f == [to |-> Nil, result |-> "garbled"]
  <2>1. /\ srv[s] = "backlog" /\ srv' = [srv EXCEPT ![s] = "closed"]
        /\ outbuf' = [outbuf EXCEPT ![s] = Append(@, f)]
        /\ UNCHANGED <<client, cur, inbuf, joined, applied>>
    BY Zenon, <1>9 DEF Reject, pool
  <2>2. f \in Frame /\ f.to = Nil /\ f.result # "ok"
    BY Zenon DEF Frame
  <2> HIDE DEF f
  <2>3. outbuf'[s] = Append(outbuf[s], f) /\ srv'[s] = "closed"
    BY Zenon, <1>2, <2>1
  <2>4. \A d \in Clients : client[d].stream = s =>
          Mine(client[d].at, Request(d), "closed", cur[s], inbuf[s], Append(outbuf[s], f))
    BY <1>3, <2>1, <2>2, MineServer
  <2>5. Ok(Append(outbuf[s], f), applied)
    BY <1>2, <1>3, <2>2, OkFrames
  <2>6. \A t \in Streams : t # s => srv'[t] = srv[t] /\ outbuf'[t] = outbuf[t]
    BY Zenon, <1>2, <2>1
  <2>7. QED
    BY <1>1, <2>1, <2>3, <2>4, <2>5, <2>6, ServerKeeps
<1>10. CASE Receive(s)
  <2>1. /\ srv[s] = "reading" /\ inbuf[s] # Nil /\ srv' = [srv EXCEPT ![s] = "parsed"]
        /\ cur' = [cur EXCEPT ![s] = inbuf[s]] /\ inbuf' = [inbuf EXCEPT ![s] = Nil]
        /\ UNCHANGED <<client, outbuf, joined, applied>>
    BY Zenon, <1>10 DEF Receive, pool
  <2>2. srv'[s] = "parsed" /\ cur'[s] = inbuf[s] /\ inbuf'[s] = Nil
    BY Zenon, <1>2, <2>1
  <2>3. \A d \in Clients : client[d].stream = s =>
          Mine(client[d].at, Request(d), "parsed", inbuf[s], Nil, outbuf[s])
    BY <1>3, <2>1, MineServer
  <2>4. \A t \in Streams : t # s => srv'[t] = srv[t] /\ cur'[t] = cur[t] /\ inbuf'[t] = inbuf[t]
    BY Zenon, <1>2, <2>1
  <2>5. QED
    BY <1>1, <1>3, <2>1, <2>2, <2>3, <2>4, ServerKeeps
<1>11. CASE Deadline(s)
  <2>1. /\ srv[s] # "closed" /\ srv' = [srv EXCEPT ![s] = "closed"]
        /\ cur' = [cur EXCEPT ![s] = Nil] /\ joined' \subseteq joined
        /\ UNCHANGED <<client, inbuf, outbuf, applied>>
    BY <1>11 DEF Deadline, wire
  <2>2. srv'[s] = "closed" /\ cur'[s] = Nil
    BY Zenon, <1>2, <2>1
  <2>3. \A d \in Clients : client[d].stream = s =>
          Mine(client[d].at, Request(d), "closed", Nil, inbuf[s], outbuf[s])
    BY <1>3, <2>1, MineServer
  <2>4. \A t \in Streams : t # s => srv'[t] = srv[t] /\ cur'[t] = cur[t]
    BY Zenon, <1>2, <2>1
  <2>5. QED
    BY <1>1, <1>3, <2>1, <2>2, <2>3, <2>4, ServerKeeps
<1>12. CASE Deny(s) \/ SlowLimited(s) \/ ReqLimited(s) \/ Timeout(s)
  <2>1. /\ srv[s] \in Busy /\ Reply(s, "error") /\ joined' \subseteq joined
        /\ UNCHANGED <<client, inbuf, applied>>
    BY Zenon, <1>12 DEF Deny, SlowLimited, ReqLimited, Timeout, pool, Busy
  <2>2. QED
    BY Zenon, <1>1, <2>1, ReplyKeeps DEF Results
<1>13. CASE Join(s)
  <2>1. PICK j \in joined : j.to = cur[s] /\ Reply(s, j.result) /\ joined' = joined \ {j}
    BY Zenon, <1>13 DEF Join
  <2>2. srv[s] \in Busy /\ UNCHANGED <<client, inbuf, applied>>
    BY Zenon, <1>13 DEF Join, Busy
  <2>3. j.result \in Results /\ (j.result = "ok" => cur[s] \in applied)
    BY Zenon, <1>1, <2>1 DEF Sound, Shapes, OkApplied
  <2>4. QED
    BY Zenon, <1>1, <2>1, <2>2, <2>3, ReplyKeeps
<1>14. QED
  BY Zenon, <1>5, <1>6, <1>7, <1>8, <1>9, <1>10, <1>11, <1>12, <1>13 DEF ServerStep

\* A task starts or ends, or the daemon dies.
LEMMA RestKeeps ==
  ASSUME IInv, UNCHANGED env,
         (\E t \in queued : Start(t)) \/ (\E t \in running : Finish(t)) \/ Crash
  PROVE  IInv'
<1>1. Sound' /\ UNCHANGED <<client, inbuf, outbuf>>
  BY Zenon, PoolSound, CrashSound DEF IInv, Start, Finish, Crash, wire
<1>2. Single' /\ \A d \in Clients : Request(d)' = Request(d)
  BY Zenon, <1>1 DEF IInv, Single, Request
<1>3. PICK more : applied' = applied \cup more
  <2>1. applied' = applied \/ \E t \in running : applied' = applied \cup {t}
    BY Zenon DEF Start, Finish, Crash
  <2>2. applied = applied \cup {}
    BY Zenon
  <2>3. QED
    BY Zenon, <2>1, <2>2
<1>4. \A t \in Streams : Ok(outbuf'[t], applied')
  BY Zenon, <1>1, <1>3, OkFrames DEF IInv, Sound, Shapes, OkApplied
<1>5. \A j \in joined' : j.result = "ok" => j.to \in applied'
  BY DEF IInv, OkApplied, Start, Finish, Crash
<1>6. \A d \in Clients : Own(d)'
  <2>1. CASE Crash
    <3>1. ASSUME NEW d \in Clients, client[d].stream # Nil
          PROVE  Mine(client[d].at, Request(d), "closed", Nil, inbuf[client[d].stream], outbuf[client[d].stream])
      <4> DEFINE s == client[d].stream
      <4>1. Mine(client[d].at, Request(d), srv[s], cur[s], inbuf[s], outbuf[s])
        BY <3>1 DEF IInv, Own
      <4>2. QED
        BY <4>1 DEF Mine
    <3>2. \A d \in Clients : client[d].stream \in Streams \cup {Nil}
      BY Zenon DEF IInv, Sound, Shapes, ClientRecord
    <3>3. QED
      BY <1>1, <1>2, <2>1, <3>1, <3>2 DEF IInv, Own, Crash
  <2>2. CASE ~Crash
    <3>1. UNCHANGED <<srv, cur>>
      BY Zenon, <2>2 DEF Start, Finish
    <3>2. QED
      BY Zenon, <1>1, <1>2, <3>1 DEF IInv, Own
  <2>3. QED
    BY Zenon, <2>1, <2>2
<1>7. SuccessMeansApplied'
  BY Zenon, <1>1, <1>3 DEF IInv, SuccessMeansApplied
<1>8. QED
  BY <1>1, <1>2, <1>4, <1>5, <1>6, <1>7 DEF IInv, OkApplied

\* IInv holds at the start.
LEMMA InitInv == Init => IInv
<1> SUFFICES ASSUME Init PROVE IInv
  BY Zenon
<1>1. Sound
  BY Zenon, SoundInit
<1>2. \A c \in Clients : client[c].stream = Nil /\ client[c].at = "idle" /\ client[c].last = "none"
  BY Zenon DEF Init, Idle
<1>3. Single /\ SuccessMeansApplied /\ \A c \in Clients : Own(c)
  BY <1>2 DEF Single, SuccessMeansApplied, Own
<1>4. OkApplied
  BY DEF Init, OkApplied, Ok
<1>5. QED
  BY Zenon, <1>1, <1>3, <1>4 DEF IInv

\* IInv is inductive.
LEMMA StepInv == IInv /\ [Next]_vars => IInv'
<1> SUFFICES ASSUME IInv, [Next]_vars PROVE IInv'
  BY Zenon
<1>1. CASE Next
  <2>1. UNCHANGED env
    BY Zenon, <1>1 DEF Next
  <2>2. CASE \E c \in Clients : ClientStep(c)
    BY Zenon, <2>1, <2>2, ClientStepKeeps
  <2>3. CASE \E s \in Streams : ServerStep(s)
    BY Zenon, <2>1, <2>3, ServerStepKeeps
  <2>4. CASE (\E t \in queued : Start(t)) \/ (\E t \in running : Finish(t)) \/ Crash
    BY Zenon, <2>1, <2>4, RestKeeps
  <2>5. QED
    BY Zenon, <1>1, <2>2, <2>3, <2>4 DEF Next
<1>2. CASE UNCHANGED vars
  <2>1. Sound'
    BY Zenon, <1>2, SoundStep DEF IInv
  <2>2. QED
    BY <1>2, <2>1 DEF vars, IInv, Single, Own, Request, OkApplied, SuccessMeansApplied
<1>3. QED
  BY Zenon, <1>1, <1>2

\* A client reads only the answer to the request it has just written, or
\* reject_conn's frame, although call_once never looks at the id.
THEOREM AnswersMatch == Spec => []AnswersOwnRequest
<1>1. IInv => AnswersOwnRequest
  <2> SUFFICES ASSUME IInv, NEW c \in Clients, client[c].at = "wait", outbuf[client[c].stream] # << >>
               PROVE  Head(outbuf[client[c].stream]).to \in {Request(c), Nil}
    BY Zenon DEF AnswersOwnRequest
  <2>1. PICK f \in Frame : outbuf[client[c].stream] = << f >> /\ f.to \in {Request(c), Nil}
    BY Zenon DEF IInv, Own, Mine
  <2>2. QED
    BY <2>1
<1>2. QED
  BY <1>1, InitInv, StepInv, PTL DEF Spec

\* Success is never reported for a call without effect, over retries, timeouts,
\* dropped connections and restarts of the daemon.
THEOREM SuccessIsReal == Spec => []SuccessMeansApplied
<1>1. IInv => SuccessMeansApplied
  BY Zenon DEF IInv
<1>2. QED
  BY <1>1, InitInv, StepInv, PTL DEF Spec

-----------------------------------------------------------------------------
(* What a repeated effect says of the first attempt.                         *)

\* Attempt x waits unread on stream s; the blocking pool has it or had it; it may
\* still take effect or has done so; its result or an answer to it is there.
Waiting(x, s) == srv[s] # "closed" /\ inbuf[s] = x
Pooled(x) == x \in queued \/ x \in running \/ x \in applied
Live(x) == Pooled(x) \/ \E s \in Streams : cur[s] = x \/ Waiting(x, s)
Joinable(x) == \E j \in joined : j.to = x
In(f, out) == \E i \in DOMAIN out : out[i] = f
Framed(x) == \E s \in Streams : \E f \in Frame : In(f, outbuf[s]) /\ f.to = x

\* The client of attempt x has written it.
Written(x) ==
  \/ x.n < client[x.cl].n
  \/ /\ x.n = client[x.cl].n /\ x.slow = client[x.cl].slow
     /\ x.try < client[x.cl].try \/ (x.try = client[x.cl].try /\ client[x.cl].at # "send")

\* Only what was written is anywhere.
Fresh == \A x \in Attempt : Live(x) \/ Joinable(x) \/ Framed(x) => Written(x)

\* An attempt is in one place at a time.
Placed ==
  /\ \A s, t \in Streams : cur[s] # Nil /\ cur[s] = cur[t] => s = t
  /\ \A x \in Attempt : \A s \in Streams : Waiting(x, s) =>
       /\ ~Pooled(x) /\ ~Joinable(x)
       /\ \A t \in Streams : cur[t] # x /\ (Waiting(x, t) => s = t)
  /\ \A s \in Streams : \A x \in Attempt :
       srv[s] \in {"parsed", "wantReq"} /\ cur[s] = x => ~Pooled(x) /\ ~Joinable(x)
  /\ \A x \in queued : x \notin running /\ x \notin applied /\ ~Joinable(x)
  /\ \A x \in running : x \notin applied /\ ~Joinable(x)
  /\ \A j \in joined : j.result = "error" => j.to \notin applied \/ j.to \in unconfirmed

\* Attempt x has not taken effect and never will, or its success stays unsaid.
Over(x) == x \in unconfirmed \/ ~Live(x)

\* An attempt that was answered with an error is over.
ErrorsFinal ==
  \A s \in Streams : \A f \in Frame : In(f, outbuf[s]) /\ f.result = "error" => Over(f.to)

\* A stream that is not accepted yet keeps its client's request; one that was
\* rejected never delivers it.
Garbled(s) == \E f \in Frame : In(f, outbuf[s]) /\ f.result = "garbled"
Asks(c, s, q) == client[c].at = "wait" /\ client[c].stream = s /\ Request(c) = q
Unaccepted ==
  \A s \in Streams :
    /\ Garbled(s) => srv[s] = "closed"
    /\ \A c \in Clients : \A q \in Attempt : Asks(c, s, q) =>
         (srv[s] = "backlog" => inbuf[s] = q) /\ (Garbled(s) => ~Live(q))

\* Once a call is tried again its first attempt is over.
Retried(a) == client[a.cl].n = a.n /\ client[a.cl].try = 2
RetriedOver ==
  \A a, b \in Attempt :
    a.cl = b.cl /\ a.n = b.n /\ a.try = 1 /\ b.try = 2 /\ (Live(b) \/ Retried(a)) => Over(a)

RInv == Fresh /\ Placed /\ ErrorsFinal /\ Unaccepted /\ RetriedOver

\* Reading a frame, adding one, and the empty stream.
LEMMA InSteps ==
  ASSUME NEW out \in Seq(Frame), NEW f \in Frame, NEW g
  PROVE  /\ In(g, Append(out, f)) => In(g, out) \/ g = f
         /\ out # << >> => In(Head(out), out) /\ (In(g, Tail(out)) => In(g, out))
         /\ ~In(g, << >>)
<1>1. /\ DOMAIN Append(out, f) = 1 .. (Len(out) + 1) /\ DOMAIN out = 1 .. Len(out) /\ Len(out) \in Nat
      /\ Append(out, f)[Len(out) + 1] = f
      /\ \A i \in 1 .. Len(out) : Append(out, f)[i] = out[i]
  OBVIOUS
<1>2. \A i \in 1 .. (Len(out) + 1) : i = Len(out) + 1 \/ i \in 1 .. Len(out)
  BY <1>1
<1>3. In(g, Append(out, f)) => In(g, out) \/ g = f
  BY <1>1, <1>2, Zenon DEF In
<1>4. ASSUME out # << >> PROVE In(Head(out), out) /\ (In(g, Tail(out)) => In(g, out))
  <2>1. Len(out) >= 1
    BY <1>4
  <2>2. Head(out) = out[1] /\ 1 \in DOMAIN out /\ DOMAIN Tail(out) = 1 .. (Len(out) - 1)
    BY <1>4, <2>1
  <2>3. \A i \in 1 .. (Len(out) - 1) : Tail(out)[i] = out[i + 1] /\ i + 1 \in DOMAIN out
    BY <1>1, <1>4, <2>1
  <2>4. QED
    BY <2>2, <2>3, Zenon DEF In
<1>5. ~In(g, << >>)
  BY DEF In
<1>6. QED
  BY <1>3, <1>4, <1>5, Zenon

\* A frame that is not garbled answers an attempt.
LEMMA FrameKinds ==
  ASSUME NEW f \in Frame
  PROVE  /\ f.result = "garbled" => f.to = Nil /\ f.to \notin Attempt
         /\ f.result # "garbled" => f.to \in Attempt
<1>1. Nil \notin Attempt
  BY Zenon, IpcAssumption
<1>2. CASE f \in [to : Attempt, result : Results]
  <2>1. f.to \in Attempt /\ f.result \in Results
    BY Zenon, <1>2
  <2>2. QED
    BY Zenon, <2>1 DEF Results
<1>3. CASE f \in [to : {Nil}, result : {"garbled"}]
  BY Zenon, <1>1, <1>3
<1>4. QED
  BY <1>2, <1>3, Zenon DEF Frame

\* A step of the daemon that makes nothing live, and answers with an error only
\* what is over.
LEMMA DaemonRest ==
  ASSUME RInv, UNCHANGED client, unconfirmed \subseteq unconfirmed',
         \A x \in Attempt : Live(x)' => Live(x),
         \A x \in Attempt : Joinable(x)' => Joinable(x) \/ Live(x),
         \A s \in Streams : \A f \in Frame : In(f, outbuf'[s]) =>
           \/ In(f, outbuf[s]) \/ f.result = "garbled"
           \/ Live(f.to) /\ (f.result = "error" => Over(f.to)')
  PROVE  Fresh' /\ ErrorsFinal' /\ RetriedOver'
<1>1. \A x \in Attempt : Written(x)' <=> Written(x)
  BY Zenon DEF Written
<1>2. \A x \in Attempt : Over(x) => Over(x)'
  BY Zenon DEF Over
<1>3. ASSUME NEW x \in Attempt, Framed(x)' PROVE Framed(x) \/ Live(x)
  <2>1. PICK s \in Streams, f \in Frame : In(f, outbuf'[s]) /\ f.to = x
    BY <1>3, Zenon DEF Framed
  <2>2. f.result # "garbled"
    BY <2>1, FrameKinds, Zenon
  <2>3. QED
    BY <2>1, <2>2, Zenon DEF Framed
<1>4. Fresh'
  BY <1>1, <1>3, Zenon DEF RInv, Fresh
<1>5. ErrorsFinal'
  <2> SUFFICES ASSUME NEW s \in Streams, NEW f \in Frame, In(f, outbuf'[s]), f.result = "error"
               PROVE  Over(f.to)'
    BY Zenon DEF ErrorsFinal
  <2>1. f.result # "garbled" /\ f.to \in Attempt
    BY FrameKinds, "error" # "garbled", Zenon
  <2>2. QED
    BY <1>2, <2>1, Zenon DEF RInv, ErrorsFinal
<1>6. RetriedOver'
  BY <1>2, Zenon DEF RInv, RetriedOver, Retried
<1>7. QED
  BY <1>4, <1>5, <1>6, Zenon

\* The facts about types that the following proofs use.
LEMMA RepeatTypes ==
  ASSUME IInv
  PROVE  /\ srv \in [Streams -> {"closed", "backlog", "reading"} \cup Busy]
         /\ cur \in [Streams -> Attempt \cup {Nil}] /\ inbuf \in [Streams -> Attempt \cup {Nil}]
         /\ outbuf \in [Streams -> Seq(Frame)] /\ client \in [Clients -> ClientRecord]
         /\ queued \subseteq Attempt /\ running \subseteq Attempt
         /\ joined \subseteq [to : Attempt, result : Results]
         /\ Nil \notin Attempt /\ Nil \notin Streams
         /\ \A s \in Streams : srv[s] \in Busy <=> cur[s] # Nil
         /\ \A c \in Clients : client[c].at = "wait" =>
              client[c].stream \in Streams /\ Request(c) \in Attempt
<1>1. Sound
  BY Zenon DEF IInv
<1>2. ASSUME NEW c \in Clients, client[c].at = "wait"
      PROVE  client[c].stream \in Streams /\ Request(c) \in Attempt
  <2>1. client[c].stream # Nil
    BY <1>2, Zenon DEF IInv, Own
  <2>2. client[c].stream \in Streams \cup {Nil}
    BY Zenon, <1>1 DEF Sound, Shapes, ClientRecord
  <2>3. Request(c) \in Attempt
    BY <1>1, <1>2, RequestType, "wait" # "idle", Zenon
  <2>4. QED
    BY <2>1, <2>2, <2>3, Zenon
<1>3. Nil \notin Attempt /\ Nil \notin Streams
  BY IpcAssumption, Zenon
<1>4. QED
  BY <1>1, <1>2, <1>3, Zenon DEF Sound, Shapes, Serving

\* A step of one connection task that makes nothing live.
LEMMA UnacceptedServer ==
  ASSUME RInv, UNCHANGED client, NEW s \in Streams, srv'[s] # "backlog",
         \A x \in Attempt : Live(x)' => Live(x),
         \A t \in Streams : t # s => srv'[t] = srv[t] /\ inbuf'[t] = inbuf[t] /\ outbuf'[t] = outbuf[t],
         Garbled(s)' => /\ srv'[s] = "closed"
                        /\ \A c \in Clients : \A q \in Attempt : Asks(c, s, q) => ~Live(q)'
  PROVE  Unaccepted'
<1>1. \A t \in Streams : t # s => (Garbled(t)' <=> Garbled(t))
  BY Zenon DEF Garbled
<1>2. \A c \in Clients : \A t \in Streams : \A q \in Attempt : Asks(c, t, q)' <=> Asks(c, t, q)
  BY Zenon DEF Asks, Request
<1>3. ASSUME NEW t \in Streams, t # s
      PROVE  /\ Garbled(t)' => srv'[t] = "closed"
             /\ \A c \in Clients : \A q \in Attempt : Asks(c, t, q)' =>
                  (srv'[t] = "backlog" => inbuf'[t] = q) /\ (Garbled(t)' => ~Live(q)')
  BY <1>1, <1>2, <1>3, Zenon DEF RInv, Unaccepted
<1>4. /\ Garbled(s)' => srv'[s] = "closed"
      /\ \A c \in Clients : \A q \in Attempt : Asks(c, s, q)' =>
           (srv'[s] = "backlog" => inbuf'[s] = q) /\ (Garbled(s)' => ~Live(q)')
  BY <1>2, Zenon
<1>5. QED
  BY <1>3, <1>4, Zenon DEF Unaccepted

\* A connection task moves on, and nothing else changes: Accept, TakeSlow and
\* SkipSlow.
LEMMA MoveRepeat ==
  ASSUME IInv, RInv, NEW s \in Streams, NEW v, srv' = [srv EXCEPT ![s] = v],
         v = "reading" \/ (v = "wantReq" /\ srv[s] = "parsed"), srv[s] # "closed",
         UNCHANGED <<client, cur, inbuf, outbuf, queued, running, joined, applied, unconfirmed>>
  PROVE  RInv'
<1>1. srv'[s] = v /\ v # "closed" /\ v # "backlog" /\ \A t \in Streams : t # s => srv'[t] = srv[t]
  BY Zenon, RepeatTypes
<1>2. \A x : \A t \in Streams : Waiting(x, t)' <=> Waiting(x, t)
  BY <1>1, Zenon DEF Waiting
<1>3. /\ \A x : Pooled(x)' <=> Pooled(x)
      /\ \A x : Joinable(x)' <=> Joinable(x)
  BY Zenon DEF Pooled, Joinable
<1>4. \A x : Live(x)' <=> Live(x)
  BY <1>2, <1>3, Zenon DEF Live
<1>5. \A t \in Streams : srv'[t] \in {"parsed", "wantReq"} => srv[t] \in {"parsed", "wantReq"}
  BY Zenon, <1>1
<1>6. \A t \in Streams : \A x \in Attempt :
        srv'[t] \in {"parsed", "wantReq"} /\ cur'[t] = x => ~Pooled(x)' /\ ~Joinable(x)'
  BY <1>3, <1>5, Zenon DEF RInv, Placed
<1>7. Placed'
  BY <1>2, <1>3, <1>6, Zenon DEF RInv, Placed
<1>8. ~Garbled(s)'
  BY Zenon DEF RInv, Unaccepted, Garbled
<1>9. Unaccepted'
  BY <1>1, <1>4, <1>8, UnacceptedServer, Zenon
<1>10. Fresh' /\ ErrorsFinal' /\ RetriedOver'
  BY <1>3, <1>4, DaemonRest, Zenon
<1>11. QED
  BY <1>7, <1>9, <1>10, Zenon DEF RInv

\* Reject: the request that waits on the stream is never delivered.
LEMMA RejectRepeat ==
  ASSUME IInv, RInv, NEW s \in Streams, Reject(s) PROVE RInv'
<1>1. PICK f \in Frame : /\ srv[s] = "backlog" /\ srv' = [srv EXCEPT ![s] = "closed"]
                         /\ f.result = "garbled"
                         /\ outbuf' = [outbuf EXCEPT ![s] = Append(@, f)]
  <2>1. [to |-> Nil, result |-> "garbled"] \in Frame
    BY Zenon DEF Frame
  <2>2. [to |-> Nil, result |-> "garbled"].result = "garbled"
    BY Zenon
  <2>3. QED
    BY <2>1, <2>2, Zenon DEF Reject
<1>2. UNCHANGED <<client, cur, inbuf, queued, running, joined, applied, unconfirmed>>
  BY Zenon DEF Reject, sems, pool
<1>3. /\ srv'[s] = "closed" /\ outbuf'[s] = Append(outbuf[s], f)
      /\ \A t \in Streams : t # s => srv'[t] = srv[t] /\ outbuf'[t] = outbuf[t]
  BY <1>1, RepeatTypes, Zenon
<1>4. \A x : \A t \in Streams : Waiting(x, t)' => Waiting(x, t) /\ t # s
  BY <1>2, <1>3, Zenon DEF Waiting
<1>5. /\ \A x : Pooled(x)' <=> Pooled(x)
      /\ \A x : Joinable(x)' <=> Joinable(x)
  BY <1>2, Zenon DEF Pooled, Joinable
<1>6. \A x : Live(x)' => Live(x)
  BY <1>2, <1>4, <1>5, Zenon DEF Live
<1>7. \A t \in Streams : srv'[t] \in {"parsed", "wantReq"} => srv[t] \in {"parsed", "wantReq"}
  BY Zenon, <1>3
<1>8. \A t \in Streams : \A x \in Attempt :
        srv'[t] \in {"parsed", "wantReq"} /\ cur'[t] = x => ~Pooled(x)' /\ ~Joinable(x)'
  BY <1>2, <1>5, <1>7, Zenon DEF RInv, Placed
<1>9. Placed'
  BY <1>2, <1>4, <1>5, <1>8, Zenon DEF RInv, Placed
<1>10. ASSUME NEW c \in Clients, NEW q \in Attempt, Asks(c, s, q) PROVE ~Live(q)'
  <2>1. Waiting(q, s)
    BY <1>1, <1>10, "backlog" # "closed", Zenon DEF RInv, Unaccepted, Waiting
  <2>2. ~Pooled(q) /\ \A t \in Streams : cur[t] # q /\ (Waiting(q, t) => s = t)
    BY <2>1, Zenon DEF RInv, Placed
  <2>3. QED
    BY <1>2, <1>4, <1>5, <2>2, Zenon DEF Live
<1>11. Unaccepted'
  BY <1>2, <1>3, <1>6, <1>10, "closed" # "backlog", UnacceptedServer, Zenon
<1>12. \A t \in Streams : \A g \in Frame : In(g, outbuf'[t]) => In(g, outbuf[t]) \/ g.result = "garbled"
  <2>1. \A g \in Frame : In(g, Append(outbuf[s], f)) => In(g, outbuf[s]) \/ g = f
    BY RepeatTypes, InSteps, Zenon
  <2>2. QED
    BY <1>1, <1>3, <2>1, Zenon
<1>13. Fresh' /\ ErrorsFinal' /\ RetriedOver'
  BY <1>2, <1>5, <1>6, <1>12, DaemonRest, Zenon
<1>14. QED
  BY <1>9, <1>11, <1>13, Zenon DEF RInv

\* Receive: the request moves from the stream to the connection task.
LEMMA ReceiveRepeat ==
  ASSUME IInv, RInv, NEW s \in Streams, Receive(s) PROVE RInv'
<1>1. PICK q : q = inbuf[s]
  BY Zenon
<1>2. /\ srv[s] = "reading" /\ srv' = [srv EXCEPT ![s] = "parsed"]
      /\ q # Nil /\ cur' = [cur EXCEPT ![s] = q] /\ inbuf' = [inbuf EXCEPT ![s] = Nil]
      /\ UNCHANGED <<client, outbuf, queued, running, joined, applied, unconfirmed>>
  BY <1>1, Zenon DEF Receive, pool
<1>3. /\ srv'[s] = "parsed" /\ cur'[s] = q /\ inbuf'[s] = Nil /\ q \in Attempt
      /\ \A t \in Streams : t # s => srv'[t] = srv[t] /\ cur'[t] = cur[t] /\ inbuf'[t] = inbuf[t]
  BY <1>1, <1>2, RepeatTypes, Zenon
<1>4. Waiting(q, s) /\ ~Pooled(q) /\ ~Joinable(q)
      /\ \A t \in Streams : cur[t] # q /\ (Waiting(q, t) => s = t)
  BY <1>1, <1>2, <1>3, "reading" # "closed", Zenon DEF RInv, Placed, Waiting
<1>5. \A x \in Attempt : \A t \in Streams : Waiting(x, t)' => Waiting(x, t) /\ t # s
  BY <1>2, <1>3, RepeatTypes, Zenon DEF Waiting
<1>6. /\ \A x : Pooled(x)' <=> Pooled(x)
      /\ \A x : Joinable(x)' <=> Joinable(x)
  BY <1>2, Zenon DEF Pooled, Joinable
<1>7. \A x \in Attempt : Live(x)' => Live(x)
  BY <1>3, <1>4, <1>5, <1>6, Zenon DEF Live
<1>8. \A t \in Streams : \A x \in Attempt :
        srv'[t] \in {"parsed", "wantReq"} /\ cur'[t] = x => ~Pooled(x)' /\ ~Joinable(x)'
  BY <1>3, <1>4, <1>6, Zenon DEF RInv, Placed
<1>9. \A t, u \in Streams : cur'[t] # Nil /\ cur'[t] = cur'[u] => t = u
  <2>1. \A t, u \in Streams : cur[t] # Nil /\ cur[t] = cur[u] => t = u
    BY Zenon DEF RInv, Placed
  <2>2. QED
    BY <1>3, <1>4, <2>1
<1>10. ASSUME NEW x \in Attempt, NEW t \in Streams, Waiting(x, t)'
       PROVE  ~Pooled(x)' /\ ~Joinable(x)' /\ \A u \in Streams : cur'[u] # x /\ (Waiting(x, u)' => t = u)
  <2>1. Waiting(x, t) /\ t # s
    BY <1>5, <1>10, Zenon
  <2>2. ~Pooled(x) /\ ~Joinable(x) /\ \A u \in Streams : cur[u] # x /\ (Waiting(x, u) => t = u)
    BY <2>1, Zenon DEF RInv, Placed
  <2>3. x # q
    BY <1>4, <2>1, Zenon
  <2>4. QED
    BY <1>3, <1>5, <1>6, <2>2, <2>3, Zenon
<1>11. Placed'
  BY <1>2, <1>6, <1>8, <1>9, <1>10, Zenon DEF RInv, Placed
<1>12. ~Garbled(s)'
  BY <1>2, "reading" # "closed", Zenon DEF RInv, Unaccepted, Garbled
<1>13. Unaccepted'
  BY <1>2, <1>3, <1>7, <1>12, "parsed" # "backlog", UnacceptedServer, Zenon
<1>14. Fresh' /\ ErrorsFinal' /\ RetriedOver'
  BY <1>2, <1>6, <1>7, DaemonRest, Zenon
<1>15. QED
  BY <1>11, <1>13, <1>14, Zenon DEF RInv

\* A connection task is done with its request: it has answered or been cut off.
\* Nothing becomes live, and its stream is open again or closed.
LEMMA LeavePlaced ==
  ASSUME IInv, RInv, NEW s \in Streams, NEW v \in {"reading", "closed"}, srv[s] # "closed",
         srv' = [srv EXCEPT ![s] = v], cur' = [cur EXCEPT ![s] = Nil], joined' \subseteq joined,
         unconfirmed \subseteq unconfirmed', UNCHANGED <<inbuf, queued, running, applied>>
  PROVE  /\ Placed' /\ \A x \in Attempt : Live(x)' => Live(x)
         /\ \A x \in Attempt : Joinable(x)' => Joinable(x)
         /\ cur[s] \in Attempt /\ ~Pooled(cur[s]) => \A x \in Attempt : x = cur[s] => ~Live(x)'
<1>1. /\ srv'[s] = v /\ cur'[s] = Nil /\ Nil \notin Attempt
      /\ \A t \in Streams : t # s => srv'[t] = srv[t] /\ cur'[t] = cur[t]
  BY RepeatTypes, Zenon
<1>2. \A x : \A t \in Streams : Waiting(x, t)' => Waiting(x, t)
  BY <1>1, Zenon DEF Waiting
<1>3. /\ \A x : Pooled(x)' <=> Pooled(x)
      /\ \A x : Joinable(x)' => Joinable(x)
  BY Zenon DEF Pooled, Joinable
<1>4. \A x \in Attempt : \A t \in Streams : cur'[t] = x => cur[t] = x /\ t # s
  BY <1>1, Zenon
<1>5. \A x \in Attempt : Live(x)' => Live(x)
  BY <1>2, <1>3, <1>4, Zenon DEF Live
<1>6. ASSUME cur[s] \in Attempt, ~Pooled(cur[s]), NEW x \in Attempt, x = cur[s] PROVE ~Live(x)'
  <2>1. x # Nil /\ ~Pooled(x)'
    BY <1>1, <1>3, <1>6, Zenon
  <2>2. \A t \in Streams : ~Waiting(x, t)
    BY <1>6, Zenon DEF RInv, Placed
  <2>3. \A t \in Streams : cur[t] = x => t = s
    BY <1>6, <2>1, Zenon DEF RInv, Placed
  <2>4. QED
    BY <1>2, <1>4, <2>1, <2>2, <2>3, Zenon DEF Live
<1>7. \A t \in Streams : \A x \in Attempt :
        srv'[t] \in {"parsed", "wantReq"} /\ cur'[t] = x => ~Pooled(x)' /\ ~Joinable(x)'
  BY <1>1, <1>3, <1>4, Zenon DEF RInv, Placed
<1>8. \A t, u \in Streams : cur'[t] # Nil /\ cur'[t] = cur'[u] => t = u
  <2>1. \A t, u \in Streams : cur[t] # Nil /\ cur[t] = cur[u] => t = u
    BY Zenon DEF RInv, Placed
  <2>2. QED
    BY <1>1, <2>1
<1>9. ASSUME NEW x \in Attempt, NEW t \in Streams, Waiting(x, t)'
      PROVE  ~Pooled(x)' /\ ~Joinable(x)' /\ \A u \in Streams : cur'[u] # x /\ (Waiting(x, u)' => t = u)
  <2>1. Waiting(x, t)
    BY <1>2, <1>9, Zenon
  <2>2. ~Pooled(x) /\ ~Joinable(x) /\ \A u \in Streams : cur[u] # x /\ (Waiting(x, u) => t = u)
    BY <2>1, Zenon DEF RInv, Placed
  <2>3. QED
    BY <1>2, <1>3, <1>4, <2>2, Zenon
<1>10. Placed'
  BY <1>3, <1>7, <1>8, <1>9, Zenon DEF RInv, Placed
<1>11. QED
  BY <1>3, <1>5, <1>6, <1>10, Zenon

\* HangUp and Deadline.
LEMMA CutRepeat ==
  ASSUME IInv, RInv, NEW s \in Streams, HangUp(s) \/ Deadline(s) PROVE RInv'
<1>1. /\ srv[s] # "closed" /\ srv' = [srv EXCEPT ![s] = "closed"]
      /\ joined' \subseteq joined /\ unconfirmed \subseteq unconfirmed'
      /\ UNCHANGED <<client, inbuf, outbuf, queued, running, applied>>
  BY Zenon DEF HangUp, Deadline, wire, pool
<1>2. cur' = [cur EXCEPT ![s] = Nil]
  <2>1. CASE HangUp(s)
    <3>1. srv[s] \notin Busy /\ UNCHANGED cur
      BY Zenon, <2>1 DEF HangUp, Busy
    <3>2. cur[s] = Nil
      BY <3>1, RepeatTypes, Zenon
    <3>3. QED
      BY Zenon, <3>1, <3>2, RepeatTypes
  <2>2. CASE Deadline(s)
    BY <2>2, Zenon DEF Deadline
  <2>3. QED
    BY <2>1, <2>2, Zenon
<1>3. /\ Placed' /\ \A x \in Attempt : Live(x)' => Live(x)
      /\ \A x \in Attempt : Joinable(x)' => Joinable(x)
  BY <1>1, <1>2, LeavePlaced, Zenon
<1>4. ~Garbled(s)'
  BY <1>1, Zenon DEF RInv, Unaccepted, Garbled
<1>5. srv'[s] = "closed" /\ \A t \in Streams : t # s => srv'[t] = srv[t]
  BY <1>1, RepeatTypes, Zenon
<1>6. Unaccepted'
  BY <1>1, <1>3, <1>4, <1>5, "closed" # "backlog", UnacceptedServer, Zenon
<1>7. Fresh' /\ ErrorsFinal' /\ RetriedOver'
  BY <1>1, <1>3, DaemonRest, Zenon
<1>8. QED
  BY <1>3, <1>6, <1>7, Zenon DEF RInv

\* Reply: an error is the answer to a request that never reached the pool or
\* failed there before its effect, or the request is recorded as unconfirmed.
LEMMA ReplyRepeat ==
  ASSUME IInv, RInv, NEW s \in Streams, srv[s] \in Busy, NEW result \in Results, Reply(s, result),
         joined' \subseteq joined, unconfirmed \subseteq unconfirmed',
         result = "error" => ~Pooled(cur[s]) \/ cur[s] \in unconfirmed',
         UNCHANGED <<client, inbuf, queued, running, applied>>
  PROVE  RInv'
<1>1. PICK q : q = cur[s]
  BY Zenon
<1>2. PICK f \in Frame : f = [to |-> q, result |-> result] /\ f.to = q /\ f.result = result
  <2>1. q \in Attempt
    BY <1>1, RepeatTypes, Zenon
  <2>2. [to |-> q, result |-> result] \in Frame
    BY Zenon, <2>1 DEF Frame
  <2>3. [to |-> q, result |-> result].to = q /\ [to |-> q, result |-> result].result = result
    BY Zenon
  <2>4. QED
    BY <2>2, <2>3, Zenon
<1>3. PICK v \in {"reading", "closed"} :
        /\ srv' = [srv EXCEPT ![s] = v] /\ cur' = [cur EXCEPT ![s] = Nil]
        /\ outbuf' = outbuf \/ outbuf' = [outbuf EXCEPT ![s] = Append(@, f)]
  BY <1>1, <1>2, Zenon DEF Reply
<1>4. srv[s] # "closed" /\ v # "backlog" /\ result # "garbled" /\ q \in Attempt
  BY Zenon, <1>1, RepeatTypes DEF Busy, Results
<1>5. /\ Placed' /\ \A x \in Attempt : Live(x)' => Live(x)
      /\ \A x \in Attempt : Joinable(x)' => Joinable(x)
      /\ ~Pooled(cur[s]) => ~Live(q)'
  BY <1>1, <1>3, <1>4, LeavePlaced, Zenon
<1>6. result = "error" => Over(q)'
  BY <1>1, <1>5, Zenon DEF Over
<1>7. Live(q)
  BY <1>1, Zenon DEF Live
<1>8. /\ srv'[s] = v /\ \A t \in Streams : t # s => srv'[t] = srv[t] /\ outbuf'[t] = outbuf[t]
      /\ outbuf'[s] = outbuf[s] \/ outbuf'[s] = Append(outbuf[s], f)
  BY <1>3, RepeatTypes, Zenon
<1>9. \A g \in Frame : In(g, outbuf'[s]) => In(g, outbuf[s]) \/ g = f
  <2>1. \A g \in Frame : In(g, Append(outbuf[s], f)) => In(g, outbuf[s]) \/ g = f
    BY RepeatTypes, InSteps, Zenon
  <2>2. QED
    BY <1>8, <2>1, Zenon
<1>10. ~Garbled(s)'
  <2>1. ~Garbled(s)
    BY <1>4, Zenon DEF RInv, Unaccepted
  <2>2. QED
    BY <1>2, <1>4, <1>9, <2>1, Zenon DEF Garbled
<1>11. Unaccepted'
  BY <1>4, <1>5, <1>8, <1>10, UnacceptedServer, Zenon
<1>12. \A t \in Streams : \A g \in Frame : In(g, outbuf'[t]) =>
         In(g, outbuf[t]) \/ (Live(g.to) /\ (g.result = "error" => Over(g.to)'))
  <2>1. f.result = "error" => Over(f.to)'
    BY <1>2, <1>6, Zenon
  <2>2. Live(f.to)
    BY <1>2, <1>7, Zenon
  <2>3. QED
    BY <1>8, <1>9, <2>1, <2>2, Zenon
<1>13. Fresh' /\ ErrorsFinal' /\ RetriedOver'
  BY <1>5, <1>12, DaemonRest, Zenon
<1>14. QED
  BY <1>5, <1>11, <1>13, Zenon DEF RInv

\* TakeReq: the request of the task goes to the pool.
LEMMA TakeReqRepeat ==
  ASSUME IInv, RInv, NEW s \in Streams, TakeReq(s) PROVE RInv'
<1>1. PICK q : q = cur[s]
  BY Zenon
<1>2. /\ srv[s] = "wantReq" /\ srv' = [srv EXCEPT ![s] = "running"] /\ queued' = queued \cup {q}
      /\ UNCHANGED <<client, cur, inbuf, outbuf, running, joined, applied, unconfirmed>>
  BY <1>1, Zenon DEF TakeReq, wire
<1>3. /\ srv'[s] = "running" /\ \A t \in Streams : t # s => srv'[t] = srv[t]
      /\ srv[s] # "closed" /\ srv'[s] # "backlog" /\ srv'[s] # "closed"
  BY Zenon, <1>2, RepeatTypes
<1>4. q # Nil /\ q \in Attempt /\ ~Pooled(q) /\ ~Joinable(q)
  <2>1. q # Nil /\ q \in Attempt
    BY Zenon, <1>1, <1>2, RepeatTypes DEF Busy
  <2>2. QED
    BY <1>1, <1>2, <2>1, Zenon DEF RInv, Placed
<1>5. /\ \A x : \A t \in Streams : Waiting(x, t)' <=> Waiting(x, t)
      /\ \A x : Joinable(x)' <=> Joinable(x)
      /\ \A x : Pooled(x)' <=> Pooled(x) \/ x = q
  <2>1. \A x : \A t \in Streams : Waiting(x, t)' <=> Waiting(x, t)
    BY <1>2, <1>3, Zenon DEF Waiting
  <2>2. \A x : Joinable(x)' <=> Joinable(x)
    BY <1>2, Zenon DEF Joinable
  <2>3. \A x : Pooled(x)' <=> Pooled(x) \/ x = q
    BY <1>2, Zenon DEF Pooled
  <2>4. QED
    BY <2>1, <2>2, <2>3, Zenon
<1>6. \A x \in Attempt : Live(x)' => Live(x)
  BY <1>1, <1>2, <1>5, Zenon DEF Live
<1>7. ASSUME NEW x \in Attempt, NEW t \in Streams, Waiting(x, t)'
      PROVE  ~Pooled(x)' /\ ~Joinable(x)' /\ \A u \in Streams : cur'[u] # x /\ (Waiting(x, u)' => t = u)
  <2>1. ~Pooled(x) /\ ~Joinable(x) /\ \A u \in Streams : cur[u] # x /\ (Waiting(x, u) => t = u)
    BY <1>5, <1>7, Zenon DEF RInv, Placed
  <2>2. QED
    BY <1>1, <1>2, <1>5, <2>1, Zenon
<1>8. ASSUME NEW t \in Streams, NEW x \in Attempt, srv'[t] \in {"parsed", "wantReq"}, cur'[t] = x
      PROVE  ~Pooled(x)' /\ ~Joinable(x)'
  <2>1. t # s
    BY Zenon, <1>3, <1>8
  <2>2. x # q
    BY <1>1, <1>2, <1>4, <1>8, <2>1, Zenon DEF RInv, Placed
  <2>3. QED
    BY <1>2, <1>3, <1>5, <1>8, <2>1, <2>2, Zenon DEF RInv, Placed
<1>9. \A x \in queued' : x \notin running' /\ x \notin applied' /\ ~Joinable(x)'
  <2>1. \A x \in queued : x \notin running /\ x \notin applied /\ ~Joinable(x)
    BY Zenon DEF RInv, Placed
  <2>2. q \notin running /\ q \notin applied
    BY <1>4, Zenon DEF Pooled
  <2>3. \A x \in queued' : x \in queued \/ x = q
    BY Zenon, <1>2
  <2>4. QED
    BY <1>2, <1>4, <1>5, <2>1, <2>2, <2>3, Zenon
<1>10. Placed'
  BY <1>2, <1>5, <1>7, <1>8, <1>9, Zenon DEF RInv, Placed
<1>11. ~Garbled(s)'
  BY <1>2, <1>3, Zenon DEF RInv, Unaccepted, Garbled
<1>12. Unaccepted'
  BY <1>2, <1>3, <1>6, <1>11, UnacceptedServer, Zenon
<1>13. Fresh' /\ ErrorsFinal' /\ RetriedOver'
  BY <1>2, <1>5, <1>6, DaemonRest, Zenon
<1>14. QED
  BY <1>10, <1>12, <1>13, Zenon DEF RInv

\* Every step of a connection task.
LEMMA ServerStepRepeat ==
  ASSUME IInv, RInv, NEW s \in Streams, ServerStep(s) PROVE RInv'
<1>1. CASE Accept(s) \/ TakeSlow(s) \/ SkipSlow(s)
  <2>1. \E v : /\ v = "reading" \/ (v = "wantReq" /\ srv[s] = "parsed")
               /\ srv' = [srv EXCEPT ![s] = v] /\ srv[s] # "closed"
               /\ UNCHANGED <<client, cur, inbuf, outbuf, queued, running, joined, applied, unconfirmed>>
    BY Zenon, <1>1 DEF Accept, TakeSlow, SkipSlow, wire, pool
  <2>2. QED
    BY <2>1, MoveRepeat, Zenon
<1>2. CASE Reject(s) \/ Receive(s) \/ HangUp(s) \/ Deadline(s) \/ TakeReq(s)
  BY <1>2, RejectRepeat, ReceiveRepeat, CutRepeat, TakeReqRepeat, Zenon
<1>3. CASE Deny(s) \/ SlowLimited(s) \/ ReqLimited(s)
  <2>1. /\ srv[s] \in Busy /\ srv[s] \in {"parsed", "wantReq"} /\ Reply(s, "error") /\ "error" \in Results
        /\ UNCHANGED <<client, inbuf, queued, running, joined, applied, unconfirmed>>
    BY Zenon, <1>3 DEF Deny, SlowLimited, ReqLimited, pool, Busy, Results
  <2>2. ~Pooled(cur[s])
    BY <2>1, RepeatTypes, Zenon DEF RInv, Placed
  <2>3. joined' \subseteq joined /\ unconfirmed \subseteq unconfirmed'
    BY Zenon, <2>1
  <2>4. QED
    BY <2>1, <2>2, <2>3, ReplyRepeat, Zenon
<1>4. CASE Timeout(s)
  <2>1. /\ srv[s] \in Busy /\ Reply(s, "error") /\ "error" \in Results
        /\ joined' \subseteq joined /\ unconfirmed \subseteq unconfirmed' /\ cur[s] \in unconfirmed'
        /\ UNCHANGED <<client, inbuf, queued, running, applied>>
    BY Zenon, <1>4 DEF Timeout, Busy, Results
  <2>2. QED
    BY <2>1, ReplyRepeat, Zenon
<1>5. CASE Join(s)
  <2>1. PICK j \in joined : j.to = cur[s] /\ Reply(s, j.result) /\ joined' = joined \ {j}
    BY <1>5, Zenon DEF Join
  <2>2. srv[s] \in Busy /\ UNCHANGED <<client, inbuf, queued, running, applied, unconfirmed>>
    BY Zenon, <1>5 DEF Join, Busy
  <2>3. j.result \in Results
    BY Zenon, RepeatTypes
  <2>4. joined' \subseteq joined /\ unconfirmed \subseteq unconfirmed'
    BY Zenon, <2>1, <2>2
  <2>5. Joinable(cur[s])
    BY <2>1, Zenon DEF Joinable
  <2>6. j.result = "error" => ~Pooled(cur[s]) \/ cur[s] \in unconfirmed'
    BY <2>1, <2>2, <2>5, Zenon DEF RInv, Placed, Pooled
  <2>7. QED
    BY <2>1, <2>2, <2>3, <2>4, <2>6, ReplyRepeat, Zenon
<1>6. QED
  BY <1>1, <1>2, <1>3, <1>4, <1>5, Zenon DEF ServerStep

\* A step that leaves the clients, the streams and their tasks alone.
LEMMA UnacceptedPool ==
  ASSUME RInv, UNCHANGED <<client, inbuf, outbuf>>,
         \A s \in Streams : srv'[s] \in {srv[s], "closed"},
         \A x \in Attempt : Live(x)' => Live(x)
  PROVE  Unaccepted'
<1>1. \A t \in Streams : Garbled(t)' <=> Garbled(t)
  BY Zenon DEF Garbled
<1>2. \A c \in Clients : \A t \in Streams : \A q \in Attempt : Asks(c, t, q)' <=> Asks(c, t, q)
  BY Zenon DEF Asks, Request
<1>3. \A t \in Streams : srv'[t] = "backlog" => srv[t] = "backlog"
  BY Zenon
<1>4. QED
  BY <1>1, <1>2, <1>3, Zenon DEF RInv, Unaccepted

\* A blocking task starts or finishes, or the daemon dies.
LEMMA PoolRepeat ==
  ASSUME IInv, RInv, (\E t \in queued : Start(t)) \/ (\E t \in running : Finish(t)) \/ Crash
  PROVE  RInv'
<1>1. ASSUME NEW t \in queued, Start(t) PROVE RInv'
  <2>1. /\ queued' = queued \ {t} /\ running' = running \cup {t}
        /\ UNCHANGED <<client, srv, cur, inbuf, outbuf, joined, applied, unconfirmed>>
    BY <1>1, Zenon DEF Start, wire
  <2>2. t \notin applied /\ ~Joinable(t)
    BY <1>1, Zenon DEF RInv, Placed
  <2>3. \A x : Pooled(x)' <=> Pooled(x)
    BY <1>1, <2>1, Zenon DEF Pooled
  <2>4. (\A x : Joinable(x)' <=> Joinable(x)) /\ \A x : \A u \in Streams : Waiting(x, u)' <=> Waiting(x, u)
    BY <2>1, Zenon DEF Joinable, Waiting
  <2>5. \A x \in Attempt : Live(x)' => Live(x)
    BY <2>1, <2>3, <2>4, Zenon DEF Live
  <2>6. /\ \A x \in queued' : x \notin running' /\ x \notin applied' /\ ~Joinable(x)'
        /\ \A x \in running' : x \notin applied' /\ ~Joinable(x)'
    <3>1. \A x \in queued : x \notin running /\ x \notin applied /\ ~Joinable(x)
      BY Zenon DEF RInv, Placed
    <3>2. \A x \in running : x \notin applied /\ ~Joinable(x)
      BY Zenon DEF RInv, Placed
    <3>3. \A x : (x \in queued' <=> x \in queued /\ x # t) /\ (x \in running' <=> x \in running \/ x = t)
      BY Zenon, <2>1
    <3>4. QED
      BY <2>1, <2>2, <2>4, <3>1, <3>2, <3>3, Zenon
  <2>7. Placed'
    BY <2>1, <2>3, <2>4, <2>6, Zenon DEF RInv, Placed
  <2>8. unconfirmed \subseteq unconfirmed' /\ \A u \in Streams : srv'[u] \in {srv[u], "closed"}
    BY Zenon, <2>1
  <2>9. QED
    BY <2>1, <2>4, <2>5, <2>7, <2>8, UnacceptedPool, DaemonRest, Zenon DEF RInv
<1>2. ASSUME NEW t \in running, Finish(t) PROVE RInv'
  <2>1. /\ running' = running \ {t} /\ UNCHANGED <<client, srv, cur, inbuf, outbuf, queued>>
    BY <1>2, Zenon DEF Finish, wire
  <2>2. PICK j : /\ j.to = t /\ (j.result = "error" => applied' = applied \/ t \in unconfirmed')
                 /\ joined' = joined \/ joined' = joined \cup {j}
                 /\ applied' = applied \/ applied' = applied \cup {t}
                 /\ unconfirmed \subseteq unconfirmed'
    <3>1. PICK result \in Results :
            /\ applied' = applied \/ applied' = applied \cup {t}
            /\ result = "error" => applied' = applied \/ t \in unconfirmed'
            /\ unconfirmed \subseteq unconfirmed'
            /\ joined' = joined \/ joined' = joined \cup {[to |-> t, result |-> result]}
      BY <1>2, Zenon DEF Finish
    <3>2. /\ [to |-> t, result |-> result].to = t
          /\ [to |-> t, result |-> result].result = result
      BY Zenon
    <3>3. QED
      BY <3>1, <3>2, Zenon
  <2>3. t \notin applied /\ ~Joinable(t) /\ t \in Attempt /\ t \notin queued
    BY <1>2, RepeatTypes, Zenon DEF RInv, Placed
  <2>4. \A x : Pooled(x)' => Pooled(x)
    BY <1>2, <2>1, <2>2, Zenon DEF Pooled
  <2>5. \A x : Joinable(x)' => Joinable(x) \/ x = t
    BY <2>2, Zenon DEF Joinable
  <2>6. Pooled(t) /\ Live(t) /\ \A x : \A u \in Streams : Waiting(x, u)' <=> Waiting(x, u)
    BY <1>2, <2>1, Zenon DEF Waiting, Pooled, Live
  <2>7. \A x \in Attempt : Live(x)' => Live(x)
    BY <2>1, <2>4, <2>6, Zenon DEF Live
  <2>8. /\ \A x \in queued' : x \notin running' /\ x \notin applied' /\ ~Joinable(x)'
        /\ \A x \in running' : x \notin applied' /\ ~Joinable(x)'
    <3>1. \A x \in queued : x \notin running /\ x \notin applied /\ ~Joinable(x)
      BY Zenon DEF RInv, Placed
    <3>2. \A x \in running : x \notin applied /\ ~Joinable(x)
      BY Zenon DEF RInv, Placed
    <3>3. \A x : (x \in running' <=> x \in running /\ x # t) /\ (x \in applied' => x \in applied \/ x = t)
      BY Zenon, <2>1, <2>2
    <3>4. QED
      BY <2>1, <2>3, <2>5, <3>1, <3>2, <3>3, Zenon
  <2>9. \A k \in joined' : k.result = "error" => k.to \notin applied' \/ k.to \in unconfirmed'
    <3>1. \A k \in joined : k.to # t /\ (k.result = "error" => k.to \notin applied \/ k.to \in unconfirmed')
      BY <2>2, <2>3, Zenon DEF RInv, Placed, Joinable
    <3>2. j.result = "error" => t \notin applied' \/ t \in unconfirmed'
      BY <2>2, <2>3, Zenon
    <3>3. \A k \in joined' : k \in joined \/ k = j
      BY <2>2, Zenon
    <3>4. \A x : x \in applied' => x \in applied \/ x = t
      BY <2>2, Zenon
    <3>5. QED
      BY <2>2, <3>1, <3>2, <3>3, <3>4, Zenon
  <2>10. ASSUME NEW x \in Attempt, ~Pooled(x), ~Joinable(x) PROVE ~Pooled(x)' /\ ~Joinable(x)'
    BY <2>4, <2>5, <2>6, <2>10, Zenon
  <2>11. Placed'
    BY <2>1, <2>6, <2>8, <2>9, <2>10, Zenon DEF RInv, Placed
  <2>12. \A x \in Attempt : Joinable(x)' => Joinable(x) \/ Live(x)
    BY <2>5, <2>6, Zenon
  <2>13. unconfirmed \subseteq unconfirmed' /\ \A u \in Streams : srv'[u] \in {srv[u], "closed"}
    BY Zenon, <2>1, <2>2
  <2>14. QED
    BY <2>1, <2>7, <2>11, <2>12, <2>13, UnacceptedPool, DaemonRest, Zenon DEF RInv
<1>3. CASE Crash
  <2>1. /\ srv' = [s \in Streams |-> "closed"] /\ cur' = [s \in Streams |-> Nil]
        /\ queued' = {} /\ running' = {} /\ joined' = {} /\ unconfirmed \subseteq unconfirmed'
        /\ UNCHANGED <<client, inbuf, outbuf, applied>>
    BY Zenon, <1>3 DEF Crash, wire
  <2>2. \A s \in Streams : srv'[s] = "closed" /\ cur'[s] = Nil
    BY <2>1, Zenon
  <2>3. (\A x : ~Joinable(x)') /\ \A x : \A s \in Streams : ~Waiting(x, s)'
    BY Zenon, <2>1, <2>2 DEF Joinable, Waiting
  <2>4. \A x \in Attempt : Live(x)' => Live(x)
    <3>1. \A x : Pooled(x)' => Pooled(x)
      BY Zenon, <2>1 DEF Pooled
    <3>2. QED
      BY <2>2, <2>3, <3>1, RepeatTypes, Zenon DEF Live
  <2>5. Placed'
    BY <2>1, <2>2, <2>3 DEF Placed
  <2>6. \A u \in Streams : srv'[u] \in {srv[u], "closed"}
    BY Zenon, <2>2
  <2>7. QED
    BY <2>1, <2>3, <2>4, <2>5, <2>6, UnacceptedPool, DaemonRest, Zenon DEF RInv
<1>4. QED
  BY <1>1, <1>2, <1>3, Zenon

\* How a client's record may change without a request being written: the next
\* call, the end of this one, or its second attempt.
Advances(o, r) ==
  /\ r.at # "wait"
  /\ \/ r.n = o.n + 1 /\ r.try = 1
     \/ r.n = o.n /\ r.slow = o.slow /\ r.try = o.try /\ r.at # "send"
     \/ r.n = o.n /\ r.slow = o.slow /\ o.try = 1 /\ r.try = 2

\* What was written stays written.
LEMMA WrittenStays ==
  ASSUME NEW c \in Clients, client \in [Clients -> ClientRecord], NEW r \in ClientRecord,
         client' = [client EXCEPT ![c] = r], Advances(client[c], r)
  PROVE  \A x \in Attempt : Written(x) => Written(x)'
<1> SUFFICES ASSUME NEW x \in Attempt, Written(x) PROVE Written(x)'
  BY Zenon
<1>1. x.n \in Nat /\ x.try \in {1, 2} /\ x.cl \in Clients
  BY DEF Attempt
<1>2. client[c].n \in Nat /\ client[c].try \in {1, 2} /\ r.n \in Nat /\ r.try \in {1, 2}
  BY IpcAssumption DEF ClientRecord
<1>3. CASE x.cl # c
  BY <1>1, <1>3, Zenon DEF Written
<1>4. CASE x.cl = c
  <2>1. client'[x.cl] = r
    BY <1>4, Zenon
  <2>2. \/ x.n < client[c].n
        \/ /\ x.n = client[c].n /\ x.slow = client[c].slow
           /\ x.try < client[c].try \/ (x.try = client[c].try /\ client[c].at # "send")
    BY <1>4, Zenon DEF Written
  <2>3. \/ x.n < r.n
        \/ /\ x.n = r.n /\ x.slow = r.slow
           /\ x.try < r.try \/ (x.try = r.try /\ r.at # "send")
    BY <1>1, <1>2, <2>2 DEF Advances
  <2>4. QED
    BY <2>1, <2>3, Zenon DEF Written
<1>5. QED
  BY <1>3, <1>4, Zenon

\* A client step that writes nothing and opens no stream.  The first attempt of a
\* call that it tries again is over.
LEMMA ClientQuiet ==
  ASSUME IInv, RInv, NEW c \in Clients, NEW r \in ClientRecord, client' = [client EXCEPT ![c] = r],
         Advances(client[c], r), unconfirmed \subseteq unconfirmed',
         UNCHANGED <<srv, cur, inbuf, queued, running, joined, applied>>,
         \A s \in Streams : \A f \in Frame : In(f, outbuf'[s]) => In(f, outbuf[s]),
         \A a \in Attempt :
           a.cl = c /\ a.n = client[c].n /\ a.try = 1 /\ client[c].try = 1 /\ r.try = 2 => Over(a)'
  PROVE  RInv'
<1>1. client \in [Clients -> ClientRecord] /\ client'[c] = r
      /\ \A d \in Clients : d # c => client'[d] = client[d]
  BY RepeatTypes, Zenon
<1>2. \A x : (Pooled(x)' <=> Pooled(x)) /\ (Joinable(x)' <=> Joinable(x))
  BY Zenon DEF Pooled, Joinable
<1>3. \A x : \A s \in Streams : Waiting(x, s)' <=> Waiting(x, s)
  BY Zenon DEF Waiting
<1>4. \A x : Live(x)' <=> Live(x)
  BY <1>2, <1>3, Zenon DEF Live
<1>5. \A x : Over(x) => Over(x)'
  BY <1>4, Zenon DEF Over
<1>6. Fresh'
  <2>1. \A x \in Attempt : Written(x) => Written(x)'
    BY <1>1, WrittenStays, Zenon
  <2>2. \A x \in Attempt : Framed(x)' => Framed(x)
    BY Zenon DEF Framed
  <2>3. QED
    BY <1>2, <1>4, <2>1, <2>2, Zenon DEF RInv, Fresh
<1>7. Placed'
  BY <1>2, <1>3, Zenon DEF RInv, Placed
<1>8. ErrorsFinal'
  BY <1>5, Zenon DEF RInv, ErrorsFinal
<1>9. Unaccepted'
  <2>1. \A s \in Streams : Garbled(s)' => Garbled(s)
    BY Zenon DEF Garbled
  <2>2. \A d \in Clients : \A s \in Streams : \A q \in Attempt : Asks(d, s, q)' => Asks(d, s, q)
    <3>1. \A s \in Streams : \A q \in Attempt : ~Asks(c, s, q)'
      BY <1>1, Zenon DEF Asks, Advances
    <3>2. \A d \in Clients : d # c => Request(d)' = Request(d)
      BY <1>1, Zenon DEF Request
    <3>3. \A d \in Clients : d # c => \A s \in Streams : \A q \in Attempt : Asks(d, s, q)' => Asks(d, s, q)
      BY <1>1, <3>2, Zenon DEF Asks
    <3>4. QED
      BY <3>1, <3>3, Zenon
  <2>3. QED
    BY <1>4, <2>1, <2>2, Zenon DEF RInv, Unaccepted
<1>10. ASSUME NEW a \in Attempt, NEW b \in Attempt, a.cl = b.cl, a.n = b.n, a.try = 1, b.try = 2,
              Live(b)' \/ Retried(a)'
       PROVE  Over(a)'
  <2>1. CASE Live(b) \/ Retried(a)
    BY <1>5, <1>10, <2>1, Zenon DEF RInv, RetriedOver
  <2>2. CASE ~Live(b) /\ ~Retried(a)
    <3>1. Retried(a)'
      BY <1>4, <1>10, <2>2, Zenon
    <3>2. a.cl \in Clients
      BY Zenon DEF Attempt
    <3>3. a.cl = c
      BY <1>1, <2>2, <3>1, <3>2, Zenon DEF Retried
    <3>4. r.n = a.n /\ r.try = 2
      BY <1>1, <3>1, <3>3, Zenon DEF Retried
    <3>5. ~(client[c].n = a.n /\ client[c].try = 2)
      BY <2>2, <3>3, Zenon DEF Retried
    <3>6. client[c].n = a.n /\ client[c].try = 1
      BY <3>4, <3>5 DEF Advances
    <3>7. QED
      BY <1>10, <3>3, <3>4, <3>6, Zenon
  <2>3. QED
    BY <2>1, <2>2, Zenon
<1>11. RetriedOver'
  BY <1>10, Zenon DEF RetriedOver
<1>12. QED
  BY <1>6, <1>7, <1>8, <1>9, <1>11, Zenon DEF RInv

\* Connect: the stream is fresh.
LEMMA ConnectRepeat ==
  ASSUME IInv, RInv, NEW c \in Clients, Connect(c) PROVE RInv'
<1>1. PICK s \in Streams :
        /\ srv[s] = "closed" /\ ~HeldByClient(s)
        /\ client' = [client EXCEPT ![c].stream = s] /\ srv' = [srv EXCEPT ![s] = "backlog"]
        /\ inbuf' = [inbuf EXCEPT ![s] = Nil] /\ outbuf' = [outbuf EXCEPT ![s] = << >>]
  BY Zenon DEF Connect
<1>2. client[c].at = "send" /\ UNCHANGED <<cur, queued, running, joined, applied, unconfirmed>>
  BY Zenon DEF Connect, pool
<1>3. /\ srv'[s] = "backlog" /\ inbuf'[s] = Nil /\ outbuf'[s] = << >>
      /\ \A t \in Streams : t # s => srv'[t] = srv[t] /\ inbuf'[t] = inbuf[t] /\ outbuf'[t] = outbuf[t]
  BY <1>1, RepeatTypes, Zenon
<1>4. \A d \in Clients : /\ client'[d].at = client[d].at /\ client'[d].n = client[d].n
                         /\ client'[d].try = client[d].try /\ client'[d].slow = client[d].slow
                         /\ d # c => client'[d] = client[d]
  BY <1>1, RepeatTypes DEF ClientRecord
<1>5. \A x : (Pooled(x)' <=> Pooled(x)) /\ (Joinable(x)' <=> Joinable(x))
  BY <1>2, Zenon DEF Pooled, Joinable
<1>6. \A x \in Attempt : \A t \in Streams : Waiting(x, t)' <=> Waiting(x, t)
  BY <1>1, <1>3, RepeatTypes, Zenon DEF Waiting
<1>7. \A x \in Attempt : Live(x)' <=> Live(x)
  BY <1>2, <1>5, <1>6, Zenon DEF Live
<1>8. \A t \in Streams : \A f \in Frame : In(f, outbuf'[t]) => In(f, outbuf[t]) /\ t # s
  <2>1. \A f \in Frame : ~In(f, << >>)
    BY RepeatTypes, InSteps, Zenon
  <2>2. QED
    BY <1>3, <2>1, Zenon
<1>9. \A x \in Attempt : Over(x) => Over(x)'
  BY <1>2, <1>7, Zenon DEF Over
<1>10. Fresh'
  <2>1. \A x \in Attempt : x.cl \in Clients
    BY Zenon DEF Attempt
  <2>2. \A x \in Attempt : Written(x)' <=> Written(x)
    BY <1>4, <2>1, Zenon DEF Written
  <2>3. \A x \in Attempt : Framed(x)' => Framed(x)
    BY <1>8, Zenon DEF Framed
  <2>4. QED
    BY <1>5, <1>7, <2>2, <2>3, Zenon DEF RInv, Fresh
<1>11. Placed'
  <2>1. \A t \in Streams : srv'[t] \in {"parsed", "wantReq"} => srv[t] \in {"parsed", "wantReq"}
    BY Zenon, <1>3
  <2>2. QED
    BY <1>2, <1>5, <1>6, <2>1, Zenon DEF RInv, Placed
<1>12. ErrorsFinal'
  <2> SUFFICES ASSUME NEW t \in Streams, NEW f \in Frame, In(f, outbuf'[t]), f.result = "error"
               PROVE  Over(f.to)'
    BY Zenon DEF ErrorsFinal
  <2>1. f.to \in Attempt
    BY FrameKinds, "error" # "garbled", Zenon
  <2>2. QED
    BY <1>8, <1>9, <2>1, Zenon DEF RInv, ErrorsFinal
<1>13. Unaccepted'
  <2>1. \A t \in Streams : Garbled(t)' => Garbled(t) /\ t # s
    BY <1>8, Zenon DEF Garbled
  <2>2. \A d \in Clients : \A t \in Streams : \A q \in Attempt : Asks(d, t, q)' => Asks(d, t, q) /\ t # s
    <3>1. \A t \in Streams : \A q \in Attempt : ~Asks(c, t, q)'
      BY <1>2, <1>4, "send" # "wait", Zenon DEF Asks
    <3>2. \A d \in Clients : d # c => Request(d)' = Request(d) /\ client[d].stream # s
      BY <1>1, <1>4, Zenon DEF Request, HeldByClient
    <3>3. \A d \in Clients : d # c =>
            \A t \in Streams : \A q \in Attempt : Asks(d, t, q)' => Asks(d, t, q) /\ t # s
      BY <1>4, <3>2, Zenon DEF Asks
    <3>4. QED
      BY <3>1, <3>3, Zenon
  <2>3. QED
    BY <1>3, <1>7, <2>1, <2>2, Zenon DEF RInv, Unaccepted
<1>14. RetriedOver'
  <2>1. \A a \in Attempt : a.cl \in Clients
    BY Zenon DEF Attempt
  <2>2. \A a \in Attempt : Retried(a)' <=> Retried(a)
    BY <1>4, <2>1, Zenon DEF Retried
  <2>3. QED
    BY <1>7, <1>9, <2>2, Zenon DEF RInv, RetriedOver
<1>15. QED
  BY <1>10, <1>11, <1>12, <1>13, <1>14, Zenon DEF RInv

\* Write: the request is new, so nothing else names it.
LEMMA WriteRepeat ==
  ASSUME IInv, RInv, NEW c \in Clients, Write(c) PROVE RInv'
<1>1. PICK s : s = client[c].stream
  BY Zenon
<1>2. PICK q : q = Request(c)
  BY Zenon
<1>3. /\ client[c].at = "send" /\ s # Nil /\ srv[s] # "closed"
      /\ inbuf' = [inbuf EXCEPT ![s] = q] /\ client' = [client EXCEPT ![c].at = "wait"]
      /\ UNCHANGED <<srv, cur, outbuf, queued, running, joined, applied, unconfirmed>>
  BY <1>1, <1>2, Zenon DEF Write, pool
<1>4. client[c] \in ClientRecord /\ s \in Streams /\ q \in Attempt
  <2>1. client[c] \in ClientRecord
    BY RepeatTypes, Zenon
  <2>2. s \in Streams
    BY Zenon, <1>1, <1>3, <2>1 DEF ClientRecord
  <2>3. q \in Attempt
    BY <1>2, <1>3, RequestType, "send" # "idle", Zenon DEF IInv
  <2>4. QED
    BY <2>1, <2>2, <2>3, Zenon
<1>5. q.cl = c /\ q.n = client[c].n /\ q.try = client[c].try /\ q.slow = client[c].slow
  BY Zenon, <1>2 DEF Request
<1>6. ~Written(q)
  <2>1. client[c].n \in Nat /\ client[c].try \in Nat
    BY <1>4, IpcAssumption DEF ClientRecord
  <2>2. ~(q.n < client[c].n) /\ ~(q.try < client[c].try)
    BY <1>5, <2>1
  <2>3. QED
    BY <1>3, <1>5, <2>2, Zenon DEF Written
<1>7. ~Live(q) /\ ~Joinable(q) /\ ~Framed(q)
  BY <1>4, <1>6, Zenon DEF RInv, Fresh
<1>8. /\ inbuf'[s] = q /\ \A t \in Streams : t # s => inbuf'[t] = inbuf[t]
      /\ \A d \in Clients : d # c => client'[d] = client[d]
      /\ client'[c].at = "wait" /\ client'[c].stream = s /\ client'[c].n = client[c].n
      /\ client'[c].try = client[c].try /\ client'[c].slow = client[c].slow
  BY Zenon, <1>1, <1>3, <1>4, RepeatTypes DEF ClientRecord
<1>9. \A d \in Clients : Request(d)' = Request(d)
  BY <1>8, Zenon DEF Request
<1>10. /\ \A x : (Pooled(x)' <=> Pooled(x)) /\ (Joinable(x)' <=> Joinable(x)) /\ (Framed(x)' <=> Framed(x))
       /\ \A t \in Streams : Garbled(t)' <=> Garbled(t)
  BY <1>3, Zenon DEF Pooled, Joinable, Framed, Garbled
<1>11. \A x : \A t \in Streams : Waiting(x, t)' => (Waiting(x, t) /\ t # s) \/ (x = q /\ t = s)
  BY <1>3, <1>8, Zenon DEF Waiting
<1>12. \A x : Live(x)' => Live(x) \/ x = q
  BY <1>3, <1>10, <1>11, Zenon DEF Live
<1>13. \A x \in Attempt : x # q /\ Over(x) => Over(x)'
  BY <1>3, <1>12, Zenon DEF Over
<1>14. Fresh'
  <2>1. \A x \in Attempt : x.cl \in Clients
    BY Zenon DEF Attempt
  <2>2. \A x \in Attempt : Written(x) => Written(x)'
    <3>1. \A d \in Clients : client'[d].n = client[d].n /\ client'[d].try = client[d].try
                             /\ client'[d].slow = client[d].slow
                             /\ (client[d].at # "send" => client'[d].at # "send")
      BY <1>3, <1>8, Zenon
    <3>2. QED
      BY <2>1, <3>1, Zenon DEF Written
  <2>3. Written(q)'
    BY <1>5, <1>8, "wait" # "send", Zenon DEF Written
  <2>4. QED
    BY <1>10, <1>12, <2>2, <2>3, Zenon DEF RInv, Fresh
<1>15. Placed'
  <2>1. ASSUME NEW x \in Attempt, NEW t \in Streams, Waiting(x, t)'
        PROVE  ~Pooled(x)' /\ ~Joinable(x)' /\ \A u \in Streams : cur'[u] # x /\ (Waiting(x, u)' => t = u)
    <3>1. CASE x = q
      <4>1. ~Pooled(q) /\ \A u \in Streams : cur[u] # q /\ ~Waiting(q, u)
        BY <1>7, Zenon DEF Live
      <4>2. QED
        BY <1>3, <1>7, <1>10, <1>11, <2>1, <3>1, <4>1, Zenon
    <3>2. CASE x # q
      <4>1. Waiting(x, t)
        BY <1>11, <2>1, <3>2, Zenon
      <4>2. ~Pooled(x) /\ ~Joinable(x) /\ \A u \in Streams : cur[u] # x /\ (Waiting(x, u) => t = u)
        BY <4>1, Zenon DEF RInv, Placed
      <4>3. QED
        BY <1>3, <1>10, <1>11, <3>2, <4>2, Zenon
    <3>3. QED
      BY <3>1, <3>2, Zenon
  <2>2. QED
    BY <1>3, <1>10, <2>1, Zenon DEF RInv, Placed
<1>16. ErrorsFinal'
  <2> SUFFICES ASSUME NEW t \in Streams, NEW f \in Frame, In(f, outbuf'[t]), f.result = "error"
               PROVE  Over(f.to)'
    BY Zenon DEF ErrorsFinal
  <2>1. f.to \in Attempt /\ In(f, outbuf[t])
    BY <1>3, FrameKinds, "error" # "garbled", Zenon
  <2>2. f.to # q
    BY <1>7, <2>1, Zenon DEF Framed
  <2>3. QED
    BY <1>13, <2>1, <2>2, Zenon DEF RInv, ErrorsFinal
<1>17. Unaccepted'
  <2>1. ~Garbled(s)
    BY <1>3, <1>4, Zenon DEF RInv, Unaccepted
  <2>2. \A t \in Streams : \A p \in Attempt : Asks(c, t, p)' => t = s /\ p = q
    BY <1>2, <1>8, <1>9, Zenon DEF Asks
  <2>3. ASSUME NEW d \in Clients, d # c, NEW t \in Streams, NEW p \in Attempt, Asks(d, t, p)'
        PROVE  Asks(d, t, p) /\ t # s /\ p # q
    <3>1. Asks(d, t, p)
      BY <1>8, <1>9, <2>3, Zenon DEF Asks
    <3>2. t # s
      BY <1>1, <1>3, <2>3, <3>1, Zenon DEF Asks, IInv, Single
    <3>3. p.cl = d
      BY Zenon, <3>1 DEF Asks, Request
    <3>4. QED
      BY <1>5, <2>3, <3>1, <3>2, <3>3, Zenon
  <2>4. \A t \in Streams : Garbled(t)' => srv'[t] = "closed"
    BY <1>3, <1>10, Zenon DEF RInv, Unaccepted
  <2>5. ASSUME NEW d \in Clients, NEW t \in Streams, NEW p \in Attempt, Asks(d, t, p)'
        PROVE  (srv'[t] = "backlog" => inbuf'[t] = p) /\ (Garbled(t)' => ~Live(p)')
    <3>1. CASE d = c
      BY <1>8, <1>10, <2>1, <2>2, <2>5, <3>1, Zenon
    <3>2. CASE d # c
      <4>1. Asks(d, t, p) /\ t # s /\ p # q
        BY <2>3, <2>5, <3>2, Zenon
      <4>2. (srv[t] = "backlog" => inbuf[t] = p) /\ (Garbled(t) => ~Live(p))
        BY <4>1, Zenon DEF RInv, Unaccepted
      <4>3. QED
        BY <1>3, <1>8, <1>10, <1>12, <4>1, <4>2, Zenon
    <3>3. QED
      BY <3>1, <3>2, Zenon
  <2>6. QED
    BY <2>4, <2>5, Zenon DEF Unaccepted
<1>18. ASSUME NEW a \in Attempt, NEW b \in Attempt, a.cl = b.cl, a.n = b.n, a.try = 1, b.try = 2,
              Live(b)' \/ Retried(a)'
       PROVE  Over(a)'
  <2>1. a.cl \in Clients
    BY Zenon DEF Attempt
  <2>2. Retried(a)' <=> Retried(a)
    BY <1>8, <2>1, Zenon DEF Retried
  <2>3. Live(b) \/ Retried(a)
    <3>1. CASE b = q
      BY <1>5, <1>18, <3>1, Zenon DEF Retried
    <3>2. CASE b # q
      BY <1>12, <1>18, <2>2, <3>2, Zenon
    <3>3. QED
      BY <3>1, <3>2, Zenon
  <2>4. a # q
    <3> SUFFICES ASSUME a = q PROVE FALSE
      BY Zenon
    <3>1. client[c].try = 1 /\ client[c].n = b.n /\ b.cl = c
      BY <1>5, <1>18, Zenon
    <3>2. ~Retried(a)
      BY <1>5, <3>1, 1 # 2 DEF Retried
    <3>3. Written(b)
      BY <2>3, <3>2, Zenon DEF RInv, Fresh
    <3>4. b.n \in Nat /\ b.try = 2
      BY <1>18 DEF Attempt
    <3>5. QED
      BY <3>1, <3>3, <3>4 DEF Written
  <2>5. QED
    BY <1>13, <1>18, <2>3, <2>4, Zenon DEF RInv, RetriedOver
<1>19. RetriedOver'
  BY <1>18, Zenon DEF RetriedOver
<1>20. QED
  BY <1>14, <1>15, <1>16, <1>17, <1>19, Zenon DEF RInv

\* An attempt of the call under way that is live is the one its client waits for,
\* and before the client writes there is none.
LEMMA FirstAttempt ==
  ASSUME IInv, RInv, NEW c \in Clients, client[c].try = 1,
         NEW a \in Attempt, a.cl = c, a.n = client[c].n, a.try = 1, Live(a)
  PROVE  client[c].at # "send" /\ a = Request(c)
<1>1. Written(a) /\ a.n \in Nat
  BY DEF RInv, Fresh, Attempt
<1>2. a.slow = client[c].slow /\ client[c].at # "send"
  BY <1>1 DEF Written
<1>3. a = [cl |-> a.cl, n |-> a.n, try |-> a.try, slow |-> a.slow]
  BY Zenon DEF Attempt
<1>4. QED
  BY <1>2, <1>3, Zenon DEF Request

\* The first attempt of a call is over when its client tries again.
LEMMA RetryRepeat ==
  ASSUME IInv, RInv, NEW c \in Clients, NEW keep \in Streams \cup {Nil}, NEW why \in {"rpc", "io", "parse"},
         client' = [client EXCEPT ![c] = AfterFailure(c, keep, why)], unconfirmed \subseteq unconfirmed',
         UNCHANGED <<srv, cur, inbuf, queued, running, joined, applied>>,
         \A s \in Streams : \A f \in Frame : In(f, outbuf'[s]) => In(f, outbuf[s]),
         client[c].at # "send" => \A a \in Attempt : a = Request(c) => a \in unconfirmed' \/ ~Live(a)
  PROVE  RInv'
<1>1. PICK r : r = AfterFailure(c, keep, why)
  BY Zenon
<1>2. /\ r \in ClientRecord /\ r.n = client[c].n /\ r.slow = client[c].slow /\ r.at # "wait"
      /\ \/ r.try = client[c].try /\ r.at # "send"
         \/ client[c].try = 1 /\ r.try = 2
  <2>1. client[c] \in ClientRecord /\ Sound
    BY RepeatTypes, Zenon DEF IInv
  <2>2. /\ r \in ClientRecord /\ r.n = client[c].n /\ r.slow = client[c].slow /\ r.at \in {"idle", "send"}
        /\ r.at = "send" => client[c].try = 1 /\ r.try = 2
    BY <1>1, <2>1, AfterFailureFacts
  <2>3. client[c].try # 1 => r.try = client[c].try
    BY Zenon, <1>1, <2>1 DEF AfterFailure, ClientRecord
  <2>4. client[c].try = 1 => r.at = "send"
    BY Zenon, <1>1, <2>1 DEF AfterFailure, ClientRecord
  <2>5. QED
    BY Zenon, <2>2, <2>3, <2>4
<1>3. Advances(client[c], r)
  BY <1>2, Zenon DEF Advances
<1>4. ASSUME NEW a \in Attempt, a.cl = c, a.n = client[c].n, a.try = 1, client[c].try = 1 PROVE Over(a)'
  <2>1. Live(a)' => Live(a)
    BY Zenon DEF Live, Pooled, Waiting
  <2>2. Live(a) => a \in unconfirmed'
    BY <1>4, FirstAttempt, Zenon
  <2>3. QED
    BY <2>1, <2>2, Zenon DEF Over
<1>5. QED
  BY <1>1, <1>2, <1>3, <1>4, ClientQuiet, Zenon

\* Every step of a UdsClient.
LEMMA ClientStepRepeat ==
  ASSUME IInv, RInv, UNCHANGED env, NEW c \in Clients, ClientStep(c) PROVE RInv'
<1>1. client[c] \in ClientRecord /\ client'[c] \in ClientRecord
  BY Zenon, ClientStepSound DEF IInv, Sound, Shapes
<1>2. ASSUME NEW slow \in env.kinds[c], Call(c, slow) PROVE RInv'
  <2>1. PICK r : r = [client[c] EXCEPT !.at = "send", !.n = client[c].n + 1, !.try = 1, !.slow = slow, !.last = "none"]
    BY Zenon
  <2>2. /\ client' = [client EXCEPT ![c] = r]
        /\ UNCHANGED <<srv, cur, inbuf, outbuf, queued, running, joined, applied, unconfirmed>>
    BY Zenon, <1>2, <2>1 DEF Call, wire, pool
  <2>3. r.at = "send" /\ r.n = client[c].n + 1 /\ r.try = 1
    BY Zenon, <1>1, <2>1 DEF ClientRecord
  <2>4. r \in ClientRecord /\ r.try # 2 /\ Advances(client[c], r) /\ unconfirmed \subseteq unconfirmed'
    BY <1>1, <2>2, <2>3, RepeatTypes DEF Advances
  <2>5. QED
    BY <2>2, <2>4, ClientQuiet, Zenon
<1>3. CASE ConnectFails(c) \/ WriteFails(c)
  <2>1. /\ client[c].at = "send" /\ client' = [client EXCEPT ![c] = AfterFailure(c, Nil, "io")]
        /\ UNCHANGED <<srv, cur, inbuf, outbuf, queued, running, joined, applied, unconfirmed>>
    BY <1>3, Zenon DEF ConnectFails, WriteFails, wire, pool
  <2>2. unconfirmed \subseteq unconfirmed' /\ Nil \in Streams \cup {Nil} /\ "io" \in {"rpc", "io", "parse"}
    BY Zenon, <2>1
  <2>3. QED
    BY <2>1, <2>2, RetryRepeat, Zenon
<1>4. CASE ReadFails(c)
  <2>1. /\ client' = [client EXCEPT ![c] = AfterFailure(c, Nil, "io")] /\ unconfirmed' = unconfirmed \cup {Request(c)}
        /\ UNCHANGED <<srv, cur, inbuf, outbuf, queued, running, joined, applied>>
    BY <1>4, Zenon DEF ReadFails, wire, pool
  <2>2. /\ unconfirmed \subseteq unconfirmed' /\ Nil \in Streams \cup {Nil} /\ "io" \in {"rpc", "io", "parse"}
        /\ \A a \in Attempt : a = Request(c) => a \in unconfirmed' \/ ~Live(a)
    BY Zenon, <2>1
  <2>3. QED
    BY <2>1, <2>2, RetryRepeat, Zenon
<1>5. CASE Read(c)
  <2>1. PICK s : s = client[c].stream
    BY Zenon
  <2>2. PICK f : f = Head(outbuf[s])
    BY Zenon
  <2>3. /\ client[c].at = "wait" /\ outbuf[s] # << >> /\ outbuf' = [outbuf EXCEPT ![s] = Tail(@)]
        /\ client' = [client EXCEPT ![c] = IF Succeeds(f) THEN [@ EXCEPT !.at = "idle", !.last = "ok"]
                                           ELSE AfterFailure(c, s, Complaint(f))]
        /\ UNCHANGED <<srv, cur, inbuf, queued, running, joined, applied, unconfirmed>>
    BY <1>5, <2>1, <2>2, Zenon DEF Read, pool
  <2>4. s \in Streams /\ Request(c) \in Attempt
    BY <2>1, <2>3, RepeatTypes, Zenon
  <2>5. f \in Frame /\ f.to \in {Request(c), Nil}
    <3>1. PICK g \in Frame : outbuf[s] = << g >> /\ g.to \in {Request(c), Nil}
      BY Zenon, <2>1, <2>3, <2>4, RepeatTypes DEF IInv, Own, Mine
    <3>2. f = g
      BY <2>2, <3>1
    <3>3. QED
      BY <3>1, <3>2, Zenon
  <2>6. In(f, outbuf[s]) /\ \A t \in Streams : \A g \in Frame : In(g, outbuf'[t]) => In(g, outbuf[t])
    <3>1. In(f, outbuf[s]) /\ \A g \in Frame : In(g, Tail(outbuf[s])) => In(g, outbuf[s])
      BY <2>2, <2>3, <2>4, <2>5, RepeatTypes, InSteps, Zenon
    <3>2. outbuf'[s] = Tail(outbuf[s]) /\ \A t \in Streams : t # s => outbuf'[t] = outbuf[t]
      BY <2>3, <2>4, RepeatTypes, Zenon
    <3>3. QED
      BY <3>1, <3>2, Zenon
  <2>7. CASE Succeeds(f)
    <3>1. PICK r : r = [client[c] EXCEPT !.at = "idle", !.last = "ok"]
      BY Zenon
    <3>2. client' = [client EXCEPT ![c] = r]
      BY <2>3, <2>7, <3>1, Zenon
    <3>3. r \in ClientRecord /\ r.at = "idle" /\ r.n = client[c].n /\ r.try = client[c].try /\ r.slow = client[c].slow
      BY Zenon, <1>1, <3>1 DEF ClientRecord
    <3>4. Advances(client[c], r) /\ unconfirmed \subseteq unconfirmed' /\ ~(client[c].try = 1 /\ r.try = 2)
      BY <2>3, <3>3 DEF Advances
    <3>5. QED
      BY <2>3, <2>6, <3>2, <3>3, <3>4, ClientQuiet, Zenon
  <2>8. CASE ~Succeeds(f)
    <3>1. client' = [client EXCEPT ![c] = AfterFailure(c, s, Complaint(f))]
      BY <2>3, <2>8, Zenon
    <3>2. /\ Complaint(f) \in {"rpc", "io", "parse"} /\ s \in Streams \cup {Nil} /\ unconfirmed \subseteq unconfirmed'
      BY Zenon, <2>3, <2>4 DEF Complaint
    <3>3. ASSUME NEW a \in Attempt, a = Request(c) PROVE a \in unconfirmed' \/ ~Live(a)
      <4>1. CASE f.result = "garbled"
        <5>1. Asks(c, s, a) /\ Garbled(s)
          BY <2>1, <2>3, <2>5, <2>6, <3>3, <4>1, Zenon DEF Asks, Garbled
        <5>2. QED
          BY <2>4, <5>1, Zenon DEF RInv, Unaccepted
      <4>2. CASE f.result # "garbled"
        <5>1. f.to \in Attempt /\ f.to = a
          BY <2>5, <3>3, <4>2, FrameKinds, RepeatTypes, Zenon
        <5>2. f.result \in Results
          BY Zenon, <2>5, <4>2 DEF Frame
        <5>3. f.result = "error"
          BY Zenon, <2>8, <5>2 DEF Succeeds, Results
        <5>4. Over(f.to)
          BY <2>4, <2>5, <2>6, <5>3, Zenon DEF RInv, ErrorsFinal
        <5>5. QED
          BY <2>3, <5>1, <5>4, Zenon DEF Over
      <4>3. QED
        BY <4>1, <4>2, Zenon
    <3>4. QED
      BY <2>3, <2>6, <3>1, <3>2, <3>3, RetryRepeat, Zenon
  <2>9. QED
    BY <2>7, <2>8, Zenon
<1>6. QED
  BY <1>2, <1>3, <1>4, <1>5, ConnectRepeat, WriteRepeat, Zenon DEF ClientStep

\* RInv holds at the start.
LEMMA RepeatInit == Init => RInv
<1> SUFFICES ASSUME Init PROVE RInv
  BY Zenon
<1>1. /\ \A s \in Streams : srv[s] = "closed" /\ cur[s] = Nil /\ outbuf[s] = << >>
      /\ \A c \in Clients : client[c].at = "idle" /\ client[c].try = 1
      /\ queued = {} /\ running = {} /\ joined = {} /\ applied = {} /\ Nil \notin Attempt
  BY Zenon, IpcAssumption DEF Init, Idle
<1>2. \A f : ~In(f, << >>)
  BY DEF In
<1>3. \A x \in Attempt : ~Live(x) /\ ~Joinable(x) /\ ~Framed(x)
  BY Zenon, <1>1, <1>2 DEF Live, Pooled, Waiting, Joinable, Framed
<1>4. Fresh /\ ErrorsFinal
  BY <1>1, <1>2, <1>3, Zenon DEF Fresh, ErrorsFinal
<1>5. Placed
  BY Zenon, <1>1 DEF Placed, Waiting
<1>6. Unaccepted
  BY Zenon, <1>1, <1>2 DEF Unaccepted, Garbled, Asks
<1>7. RetriedOver
  BY <1>3, Zenon DEF RetriedOver, Over
<1>8. QED
  BY <1>4, <1>5, <1>6, <1>7, Zenon DEF RInv

\* RInv is preserved.
LEMMA RepeatStep == IInv /\ RInv /\ [Next]_vars => RInv'
<1> SUFFICES ASSUME IInv, RInv, [Next]_vars PROVE RInv'
  BY Zenon
<1>1. CASE Next
  BY <1>1, ClientStepRepeat, ServerStepRepeat, PoolRepeat, Zenon DEF Next
<1>2. CASE UNCHANGED vars
  <2>1. UNCHANGED <<client, srv, cur, inbuf, outbuf, queued, running, joined, applied, unconfirmed>>
    BY <1>2, Zenon DEF vars
  <2>2. /\ \A x : (Pooled(x)' <=> Pooled(x)) /\ (Joinable(x)' <=> Joinable(x))
        /\ \A x : \A s \in Streams : Waiting(x, s)' <=> Waiting(x, s)
    BY <2>1, Zenon DEF Pooled, Joinable, Waiting
  <2>3. \A x : Live(x)' <=> Live(x)
    BY <2>1, <2>2, Zenon DEF Live
  <2>4. Placed'
    BY <2>1, <2>2, Zenon DEF RInv, Placed
  <2>5. unconfirmed \subseteq unconfirmed' /\ \A s \in Streams : srv'[s] \in {srv[s], "closed"}
    BY Zenon, <2>1
  <2>6. QED
    BY <2>1, <2>2, <2>3, <2>4, <2>5, UnacceptedPool, DaemonRest, Zenon DEF RInv
<1>3. QED
  BY <1>1, <1>2, Zenon

\* The retry of UdsClient::call never repeats an effect that was answered with
\* success: when both attempts took effect, the answer to the first was lost to a
\* timeout, a deadline, a crash or a broken stream, or was an error of a method
\* that had already changed something.
THEOREM RetriesRepeatUnconfirmedOnly == Spec => []RepeatedOnlyIfUnconfirmed
<1>1. IInv /\ RInv => RepeatedOnlyIfUnconfirmed
  <2> SUFFICES ASSUME IInv, RInv, NEW a \in applied, NEW b \in applied,
                      a.cl = b.cl, a.n = b.n, a.try = 1, b.try = 2
               PROVE  a \in unconfirmed
    BY Zenon DEF RepeatedOnlyIfUnconfirmed
  <2>1. Live(a) /\ Live(b) /\ a \in Attempt /\ b \in Attempt
    BY Zenon DEF Live, Pooled, IInv, Sound, Shapes
  <2>2. QED
    BY <2>1, Zenon DEF RInv, RetriedOver, Over
<1>2. QED
  BY <1>1, InitInv, StepInv, RepeatInit, RepeatStep, PTL DEF Spec

-----------------------------------------------------------------------------
(* Permits and the tasks they were taken for.                                *)

\* A task of the pool that no connection task awaits was given up.
Attended == \A t \in queued \cup running : Awaited(t) \/ t \in unconfirmed

\* A connection task that leaves its request alone, or notes it as given up,
\* keeps Attended.
LEMMA AttendedServer ==
  ASSUME Attended, NEW s \in Streams, unconfirmed \subseteq unconfirmed', UNCHANGED <<queued, running>>,
         \A u \in Streams : u # s => srv'[u] = srv[u] /\ cur'[u] = cur[u],
         srv[s] = "running" => cur[s] \in unconfirmed' \/ cur[s] \notin queued \cup running
  PROVE  Attended'
BY Zenon DEF Attended, Awaited

\* Attended is preserved.
LEMMA AttendedStep == IInv /\ RInv /\ Attended /\ [Next]_vars => Attended'
<1> SUFFICES ASSUME IInv, RInv, Attended, [Next]_vars PROVE Attended'
  BY Zenon
<1>1. /\ srv \in [Streams -> {"closed", "backlog", "reading"} \cup Busy]
      /\ cur \in [Streams -> Attempt \cup {Nil}]
  BY Zenon, RepeatTypes
<1>2. ASSUME UNCHANGED <<srv, cur, queued, running>>, unconfirmed \subseteq unconfirmed' PROVE Attended'
  BY Zenon, <1>2 DEF Attended, Awaited
<1>3. ASSUME NEW c \in Clients, ClientStep(c) PROVE Attended'
  <2>1. CASE Connect(c)
    <3>1. PICK s \in Streams : srv[s] = "closed" /\ srv' = [srv EXCEPT ![s] = "backlog"]
      BY Zenon, <2>1 DEF Connect
    <3>2. UNCHANGED <<cur, queued, running, unconfirmed>>
      BY Zenon, <2>1 DEF Connect, pool
    <3>3. QED
      BY Zenon, <1>1, <3>1, <3>2, AttendedServer, "closed" # "running"
  <2>2. CASE ~Connect(c)
    BY Zenon, <1>2, <1>3, <2>2 DEF ClientStep, Call, ConnectFails, Write, WriteFails, Read, ReadFails, pool
  <2>3. QED
    BY Zenon, <2>1, <2>2
<1>4. ASSUME NEW s \in Streams, ServerStep(s) PROVE Attended'
  <2>1. \A u \in Streams : u # s => srv'[u] = srv[u] /\ cur'[u] = cur[u]
    BY Zenon, <1>1, <1>4 DEF ServerStep, Accept, Reject, Receive, HangUp, Deadline, Deny, TakeSlow,
       SkipSlow, SlowLimited, TakeReq, ReqLimited, Join, Timeout, Reply
  <2>2. CASE Deadline(s) \/ Timeout(s)
    <3>1. UNCHANGED <<queued, running>> /\ unconfirmed \subseteq unconfirmed'
      BY Zenon, <2>2 DEF Deadline, Timeout
    <3>2. cur[s] # Nil => cur[s] \in unconfirmed'
      BY Zenon, <2>2 DEF Deadline, Timeout
    <3>3. srv[s] = "running" => cur[s] # Nil
      BY Zenon, RepeatTypes DEF Busy
    <3>4. QED
      BY Zenon, <2>1, <3>1, <3>2, <3>3, AttendedServer
  <2>3. CASE Join(s)
    <3>1. UNCHANGED <<queued, running, unconfirmed>> /\ Joinable(cur[s])
      BY Zenon, <2>3 DEF Join, Joinable
    <3>2. cur[s] \notin queued \cup running
      BY Zenon, <3>1 DEF RInv, Placed
    <3>3. QED
      BY Zenon, <2>1, <3>1, <3>2, AttendedServer
  <2>4. CASE TakeReq(s)
    <3>1. /\ srv[s] = "wantReq" /\ queued' = queued \cup {cur[s]} /\ srv'[s] = "running"
          /\ UNCHANGED <<cur, running, unconfirmed>>
      BY Zenon, <1>1, <2>4 DEF TakeReq
    <3>2. \A t : Awaited(t) => Awaited(t)'
      BY Zenon, <2>1, <3>1, "wantReq" # "running" DEF Awaited
    <3>3. Awaited(cur[s])'
      BY Zenon, <3>1 DEF Awaited
    <3>4. QED
      BY Zenon, <3>1, <3>2, <3>3 DEF Attended
  <2>5. CASE ~(Deadline(s) \/ Timeout(s) \/ Join(s) \/ TakeReq(s))
    <3>1. srv[s] # "running" /\ UNCHANGED <<queued, running, unconfirmed>>
      BY <1>4, <2>5, Zenon DEF ServerStep, Accept, Reject, Receive, HangUp, Deny, TakeSlow, SkipSlow,
         SlowLimited, ReqLimited, pool
    <3>2. QED
      BY Zenon, <2>1, <3>1, AttendedServer
  <2>6. QED
    BY Zenon, <2>2, <2>3, <2>4, <2>5
<1>5. ASSUME NEW t \in queued, Start(t) PROVE Attended'
  BY Zenon, <1>5 DEF Start, Attended, Awaited
<1>6. ASSUME NEW t \in running, Finish(t) PROVE Attended'
  <2>1. UNCHANGED <<srv, cur, queued>> /\ running' \subseteq running /\ unconfirmed \subseteq unconfirmed'
    BY Zenon, <1>6 DEF Finish
  <2>2. QED
    BY Zenon, <2>1 DEF Attended, Awaited
<1>7. CASE Crash
  BY Zenon, <1>7 DEF Crash, Attended
<1>8. QED
  BY Zenon, <1>2, <1>3, <1>4, <1>5, <1>6, <1>7 DEF Next, vars

\* No path of handle_conn or dispatch_arc leaks a permit or gives one back
\* twice, and a task outlives its permits only after a timeout, a deadline or
\* an error of its connection, for any number of streams and any capacity.
THEOREM NoPermitLeaks == Spec => []PermitsConserved
<1>1. Init => Attended
  BY Zenon DEF Init, Attended
<1>2. IInv /\ Attended => PermitsConserved
  BY Zenon DEF IInv, Sound, Attended, PermitsConserved
<1>3. QED
  BY <1>1, <1>2, InitInv, StepInv, RepeatInit, RepeatStep, AttendedStep, PTL DEF Spec
=============================================================================
