----------------------------- MODULE IpcServer ------------------------------
(***************************************************************************)
(* The Unix-socket JSON-RPC boundary: IpcServer (fg-ipc) with its three    *)
(* semaphores, its timers and the blocking thread pool, and the UdsClient  *)
(* of fg-pyo3 that keeps one stream open and retries a failed call once.   *)
(*                                                                         *)
(* A request is an attempt: caller, call number, attempt number, and       *)
(* whether is_slow_method holds.  What the method does is one step of its  *)
(* blocking task; frames, parsing and authorization are the outcome        *)
(* "denied" or not.                                                        *)
(***************************************************************************)
EXTENDS Integers, FiniteSets, Sequences

CONSTANTS
  Clients,        \* UdsClient values, each used by one thread
  Streams,        \* sockets
  Nil,
  MaxReqs,        \* MAX_CONCURRENT_REQS
  MaxSlow,        \* MAX_CONCURRENT_SLOW
  Threads,        \* max_blocking_threads
  MaxCalls,       \* bound: calls per client
  Environments    \* the environments considered, see env

\* What may happen around the socket in one behaviour.
Environment == [
  kinds   : [Clients -> SUBSET BOOLEAN],  \* is_slow_method of each one's calls
  calls   : 0 .. MaxCalls,                \* bound: calls per client
  slots   : Nat \ {0},                    \* MAX_CONNECTIONS
  crashes : BOOLEAN]                      \* may the daemon be killed?

Attempt == [cl : Clients, n : 1 .. MaxCalls, try : 1 .. 2, slow : BOOLEAN]
Results == {"ok", "error"}
Frame == [to : Attempt, result : Results] \cup [to : {Nil}, result : {"garbled"}]

ASSUME IpcAssumption ==
  /\ IsFiniteSet(Clients) /\ IsFiniteSet(Streams)
  /\ Nil \notin Clients \cup Streams \cup Attempt
  /\ MaxReqs \in Nat \ {0} /\ MaxSlow \in Nat \ {0}
  /\ Threads \in Nat \ {0} /\ MaxCalls \in Nat
  /\ Environments \subseteq Environment

VARIABLES
  env,       \* the environment of this behaviour, fixed from the start
  client,    \* UdsClient: step, call number, attempt, kind, stream, outcome
  srv,       \* per stream: where its connection task is
  cur,       \* the request that task serves
  inbuf,     \* bytes from the client not yet read by the server
  outbuf,    \* bytes from the server not yet read by the client
  connFree, slowFree, reqFree,   \* permits left in the three semaphores
  queued, running,               \* blocking tasks
  joined,    \* results of tasks whose JoinHandle is still awaited
  applied,   \* history: requests whose method took effect
  unconfirmed \* history: requests whose caller is not told what they did: the
             \* answer is lost, or is an error that came after the effect

vars == <<env, client, srv, cur, inbuf, outbuf, connFree, slowFree, reqFree, queued, running, joined, applied, unconfirmed>>
sems == <<connFree, slowFree, reqFree>>
pool == <<queued, running, joined>>
wire == <<inbuf, outbuf>>

Idle == [at |-> "idle", n |-> 0, try |-> 1, slow |-> FALSE, stream |-> Nil, last |-> "none"]

Init ==
  /\ env \in Environments
  /\ client = [c \in Clients |-> Idle]
  /\ srv = [s \in Streams |-> "closed"] /\ cur = [s \in Streams |-> Nil]
  /\ inbuf = [s \in Streams |-> Nil] /\ outbuf = [s \in Streams |-> << >>]
  /\ connFree = env.slots /\ slowFree = MaxSlow /\ reqFree = MaxReqs
  /\ queued = {} /\ running = {} /\ joined = {}
  /\ applied = {} /\ unconfirmed = {}

HeldByClient(s) == \E c \in Clients : client[c].stream = s
Request(c) == [cl |-> c, n |-> client[c].n, try |-> client[c].try, slow |-> client[c].slow]

-----------------------------------------------------------------------------
(* UdsClient::call and call_once.                                            *)

Call(c, slow) ==
  /\ client[c].at = "idle" /\ client[c].n < env.calls
  /\ client' = [client EXCEPT ![c] =
                  [@ EXCEPT !.at = "send", !.n = client[c].n + 1, !.try = 1, !.slow = slow, !.last = "none"]]
  /\ UNCHANGED <<srv, cur, wire, sems, pool, applied, unconfirmed>>

\* The first failure of a call, of whatever kind, is retried; the second is
\* returned.  keep is the stream that call_once leaves in self.conn.
AfterFailure(c, keep, why) ==
  IF client[c].try = 1
    THEN [client[c] EXCEPT !.at = "send", !.try = 2, !.stream = keep, !.last = why]
    ELSE [client[c] EXCEPT !.at = "idle", !.stream = keep, !.last = why]

Connect(c) ==
  /\ client[c].at = "send" /\ client[c].stream = Nil
  /\ \E s \in Streams :
       /\ srv[s] = "closed" /\ ~HeldByClient(s)
       /\ client' = [client EXCEPT ![c].stream = s]
       /\ srv' = [srv EXCEPT ![s] = "backlog"]
       /\ inbuf' = [inbuf EXCEPT ![s] = Nil] /\ outbuf' = [outbuf EXCEPT ![s] = << >>]
  /\ UNCHANGED <<cur, sems, pool, applied, unconfirmed>>

ConnectFails(c) ==
  /\ env.crashes
  /\ client[c].at = "send" /\ client[c].stream = Nil
  /\ client' = [client EXCEPT ![c] = AfterFailure(c, Nil, "io")]
  /\ UNCHANGED <<srv, cur, wire, sems, pool, applied, unconfirmed>>

Write(c) ==
  LET s == client[c].stream IN
  /\ client[c].at = "send" /\ s # Nil /\ srv[s] # "closed"
  /\ inbuf' = [inbuf EXCEPT ![s] = Request(c)]
  /\ client' = [client EXCEPT ![c].at = "wait"]
  /\ UNCHANGED <<srv, cur, outbuf, sems, pool, applied, unconfirmed>>

WriteFails(c) ==
  LET s == client[c].stream IN
  /\ client[c].at = "send" /\ s # Nil /\ srv[s] = "closed"
  /\ client' = [client EXCEPT ![c] = AfterFailure(c, Nil, "io")]
  /\ UNCHANGED <<srv, cur, wire, sems, pool, applied, unconfirmed>>

Succeeds_anyErrorField(frame) == FALSE

\* "error": null counts as success.
Succeeds(frame) == frame.result = "ok"

\* call_once's error for a frame: the server's, or its own when the bytes are
\* not JSON.
Complaint(frame) == IF frame.result = "garbled" THEN "parse" ELSE "rpc"

Read(c) ==
  LET s == client[c].stream
      frame == Head(outbuf[s])
  IN
  /\ client[c].at = "wait" /\ outbuf[s] # << >>
  /\ outbuf' = [outbuf EXCEPT ![s] = Tail(@)]
  /\ client' = [client EXCEPT ![c] =
                  IF Succeeds(frame) THEN [@ EXCEPT !.at = "idle", !.last = "ok"]
                                     ELSE AfterFailure(c, s, Complaint(frame))]
  /\ UNCHANGED <<srv, cur, inbuf, sems, pool, applied, unconfirmed>>

ReadFails_keepsStream(c) ==
  /\ client[c].at = "wait"
  /\ client' = [client EXCEPT ![c] = AfterFailure(c, client[c].stream, "io")]
  /\ unconfirmed' = unconfirmed \cup {Request(c)}
  /\ UNCHANGED <<srv, cur, wire, sems, pool, applied>>

\* The read timed out, failed or hit the end of the stream, or the answer is
\* too large: the stream is dropped.
ReadFails(c) ==
  /\ client[c].at = "wait"
  /\ client' = [client EXCEPT ![c] = AfterFailure(c, Nil, "io")]
  /\ unconfirmed' = unconfirmed \cup {Request(c)}
  /\ UNCHANGED <<srv, cur, wire, sems, pool, applied>>

-----------------------------------------------------------------------------
(* serve, handle_conn, conn_loop.                                            *)

Accept(s) ==
  /\ srv[s] = "backlog" /\ connFree > 0
  /\ connFree' = connFree - 1
  /\ srv' = [srv EXCEPT ![s] = "reading"]
  /\ UNCHANGED <<client, cur, wire, slowFree, reqFree, pool, applied, unconfirmed>>

\* reject_conn: a frame without an id, then the end of the stream.  format!
\* prints FRAMING_BYTE, a u8, as the digits 10: the frame does not parse.
Reject(s) ==
  /\ srv[s] = "backlog" /\ connFree = 0
  /\ srv' = [srv EXCEPT ![s] = "closed"]
  /\ outbuf' = [outbuf EXCEPT ![s] = Append(@, [to |-> Nil, result |-> "garbled"])]
  /\ UNCHANGED <<client, cur, inbuf, sems, pool, applied, unconfirmed>>

\* The permits a connection task holds in dispatch_arc, dropped when it returns
\* and when the future is cancelled.
HoldsSlow(s) == srv[s] \in {"wantReq", "running"} /\ cur[s].slow
HoldsReq(s) == srv[s] = "running"
DropPermits_reqOnly(s) ==
  /\ slowFree' = slowFree + (IF HoldsReq(s) /\ cur[s].slow THEN 1 ELSE 0)
  /\ reqFree' = reqFree + (IF HoldsReq(s) THEN 1 ELSE 0)
DropPermits(s) ==
  /\ slowFree' = slowFree + (IF HoldsSlow(s) THEN 1 ELSE 0)
  /\ reqFree' = reqFree + (IF HoldsReq(s) THEN 1 ELSE 0)

\* dispatch_arc returns result; conn_loop writes it and reads on, or ends when
\* the client has closed its end.
Reply(s, result) ==
  /\ DropPermits(s)
  /\ cur' = [cur EXCEPT ![s] = Nil]
  /\ \/ /\ HeldByClient(s)
        /\ outbuf' = [outbuf EXCEPT ![s] = Append(@, [to |-> cur[s], result |-> result])]
        /\ srv' = [srv EXCEPT ![s] = "reading"] /\ UNCHANGED connFree
     \/ /\ ~HeldByClient(s)
        /\ srv' = [srv EXCEPT ![s] = "closed"] /\ connFree' = connFree + 1
        /\ UNCHANGED outbuf

Receive(s) ==
  /\ srv[s] = "reading" /\ inbuf[s] # Nil
  /\ cur' = [cur EXCEPT ![s] = inbuf[s]] /\ inbuf' = [inbuf EXCEPT ![s] = Nil]
  /\ srv' = [srv EXCEPT ![s] = "parsed"]
  /\ UNCHANGED <<client, outbuf, sems, pool, applied, unconfirmed>>

\* End of stream: the client has closed its end.
HangUp(s) ==
  /\ srv[s] = "reading" /\ inbuf[s] = Nil /\ ~HeldByClient(s)
  /\ srv' = [srv EXCEPT ![s] = "closed"] /\ connFree' = connFree + 1
  /\ UNCHANGED <<client, cur, wire, slowFree, reqFree, pool, applied, unconfirmed>>

\* The connection deadline drops the whole future: the permits go, the blocking
\* task stays, and nobody joins it.
Deadline_forgetsSlot(s) ==
  /\ srv[s] \in {"reading", "parsed", "wantReq", "running"}
  /\ DropPermits(s)
  /\ srv' = [srv EXCEPT ![s] = "closed"] /\ cur' = [cur EXCEPT ![s] = Nil]
  /\ joined' = {j \in joined : j.to # cur[s]}
  /\ unconfirmed' = unconfirmed \cup ({cur[s]} \ {Nil})
  /\ UNCHANGED <<client, wire, connFree, queued, running, applied>>
Deadline(s) ==
  /\ srv[s] \in {"reading", "parsed", "wantReq", "running"}
  /\ DropPermits(s)
  /\ connFree' = connFree + 1
  /\ srv' = [srv EXCEPT ![s] = "closed"] /\ cur' = [cur EXCEPT ![s] = Nil]
  /\ joined' = {j \in joined : j.to # cur[s]}
  /\ unconfirmed' = unconfirmed \cup ({cur[s]} \ {Nil})
  /\ UNCHANGED <<client, wire, queued, running, applied>>

-----------------------------------------------------------------------------
(* dispatch_arc.                                                             *)

\* Parse error, wrong version or authorization: answered without any permit.
Deny(s) ==
  /\ srv[s] = "parsed" /\ Reply(s, "error")
  /\ UNCHANGED <<client, inbuf, pool, applied, unconfirmed>>

TakeSlow(s) ==
  /\ srv[s] = "parsed" /\ cur[s].slow /\ slowFree > 0
  /\ slowFree' = slowFree - 1
  /\ srv' = [srv EXCEPT ![s] = "wantReq"]
  /\ UNCHANGED <<client, cur, wire, connFree, reqFree, pool, applied, unconfirmed>>

\* A method that is not slow goes straight to the request semaphore.
SkipSlow(s) ==
  /\ srv[s] = "parsed" /\ ~cur[s].slow
  /\ srv' = [srv EXCEPT ![s] = "wantReq"]
  /\ UNCHANGED <<client, cur, wire, sems, pool, applied, unconfirmed>>

SlowLimited(s) ==
  /\ srv[s] = "parsed" /\ cur[s].slow /\ slowFree = 0
  /\ Reply(s, "error")
  /\ UNCHANGED <<client, inbuf, pool, applied, unconfirmed>>

\* The request permit, then spawn_blocking.
TakeReq(s) ==
  /\ srv[s] = "wantReq" /\ reqFree > 0
  /\ reqFree' = reqFree - 1
  /\ queued' = queued \cup {cur[s]}
  /\ srv' = [srv EXCEPT ![s] = "running"]
  /\ UNCHANGED <<client, cur, wire, connFree, slowFree, running, joined, applied, unconfirmed>>

ReqLimited(s) ==
  /\ srv[s] = "wantReq" /\ reqFree = 0
  /\ Reply(s, "error")
  /\ UNCHANGED <<client, inbuf, pool, applied, unconfirmed>>

Join(s) ==
  /\ srv[s] = "running"
  /\ \E j \in joined :
       /\ j.to = cur[s] /\ Reply(s, j.result)
       /\ joined' = joined \ {j}
  /\ UNCHANGED <<client, inbuf, queued, running, applied, unconfirmed>>

\* The 2 s timeout answers and drops the JoinHandle.
Timeout_ok(s) ==
  /\ srv[s] = "running" /\ Reply(s, "ok")
  /\ joined' = {j \in joined : j.to # cur[s]}
  /\ unconfirmed' = unconfirmed \cup {cur[s]}
  /\ UNCHANGED <<client, inbuf, queued, running, applied>>
Timeout(s) ==
  /\ srv[s] = "running" /\ Reply(s, "error")
  /\ joined' = {j \in joined : j.to # cur[s]}
  /\ unconfirmed' = unconfirmed \cup {cur[s]}
  /\ UNCHANGED <<client, inbuf, queued, running, applied>>

-----------------------------------------------------------------------------
(* The blocking pool.                                                        *)

Start(t) ==
  /\ t \in queued /\ Cardinality(running) < Threads
  /\ queued' = queued \ {t} /\ running' = running \cup {t}
  /\ UNCHANGED <<client, srv, cur, wire, sems, joined, applied, unconfirmed>>

\* A connection task still awaits task t, and holds its permits.
Awaited(t) == \E s \in Streams : srv[s] = "running" /\ cur[s] = t

\* handle_method returns: Ok after its effect, Err (or a panic) before it, or
\* after it when a later write of the same method fails.
Finish(t) ==
  /\ t \in running /\ running' = running \ {t}
  /\ \E result \in Results, effect \in BOOLEAN :
       /\ result = "ok" => effect
       /\ applied' = IF effect THEN applied \cup {t} ELSE applied
       /\ unconfirmed' = IF effect /\ result = "error" THEN unconfirmed \cup {t} ELSE unconfirmed
       /\ joined' = IF Awaited(t) THEN joined \cup {[to |-> t, result |-> result]} ELSE joined
  /\ UNCHANGED <<client, srv, cur, wire, sems, queued>>

\* The daemon dies and is started again: its sockets close, its tasks and its
\* semaphores are gone.
Crash ==
  /\ env.crashes
  /\ srv' = [s \in Streams |-> "closed"] /\ cur' = [s \in Streams |-> Nil]
  /\ connFree' = env.slots /\ slowFree' = MaxSlow /\ reqFree' = MaxReqs
  /\ queued' = {} /\ running' = {} /\ joined' = {}
  /\ unconfirmed' = unconfirmed \cup ({cur[s] : s \in Streams} \ {Nil})
  /\ UNCHANGED <<client, wire, applied>>

ClientStep(c) ==
  \/ \E slow \in env.kinds[c] : Call(c, slow)
  \/ Connect(c) \/ ConnectFails(c) \/ Write(c) \/ WriteFails(c) \/ Read(c) \/ ReadFails(c)

ServerStep(s) ==
  \/ Accept(s) \/ Reject(s) \/ Receive(s) \/ HangUp(s) \/ Deadline(s)
  \/ Deny(s) \/ TakeSlow(s) \/ SkipSlow(s) \/ SlowLimited(s)
  \/ TakeReq(s) \/ ReqLimited(s) \/ Join(s) \/ Timeout(s)

Next ==
  /\ UNCHANGED env
  /\ \/ \E c \in Clients : ClientStep(c)
     \/ \E s \in Streams : ServerStep(s)
     \/ \E t \in queued : Start(t)
     \/ \E t \in running : Finish(t)
     \/ Crash

Spec == Init /\ [][Next]_vars

\* The runtime polls the timer of every connection task.  Nothing else is
\* assumed: a client may never read, a handler may hang for ever.
FairSpec ==
  /\ Spec
  /\ \A s \in Streams : WF_vars(UNCHANGED env /\ Deadline(s))

-----------------------------------------------------------------------------
(* Properties.                                                               *)

ClientRecord ==
  [at : {"idle", "send", "wait"}, n : 0 .. MaxCalls, try : 1 .. 2, slow : BOOLEAN,
   stream : Streams \cup {Nil}, last : {"none", "ok", "rpc", "io", "parse"}]

\* Clients, connections, permits and tasks keep the shapes the code gives them.
TypeOK ==
  /\ env \in Environments
  /\ client \in [Clients -> ClientRecord]
  /\ srv \in [Streams -> {"closed", "backlog", "reading", "parsed", "wantReq", "running"}]
  /\ cur \in [Streams -> Attempt \cup {Nil}]
  /\ inbuf \in [Streams -> Attempt \cup {Nil}] /\ outbuf \in [Streams -> Seq(Frame)]
  /\ connFree \in 0 .. env.slots /\ slowFree \in 0 .. MaxSlow /\ reqFree \in 0 .. MaxReqs
  /\ queued \subseteq Attempt /\ running \subseteq Attempt
  /\ joined \subseteq [to : Attempt, result : Results]
  /\ applied \subseteq Attempt /\ unconfirmed \subseteq Attempt

\* On every path of dispatch_arc and handle_conn (answer, rate limit, timeout,
\* connection deadline, client gone) each semaphore has exactly the permits that
\* live connection tasks do not hold.
Balanced ==
  /\ connFree + Cardinality({s \in Streams : srv[s] \notin {"closed", "backlog"}}) = env.slots
  /\ slowFree + Cardinality({s \in Streams : HoldsSlow(s)}) = MaxSlow
  /\ reqFree + Cardinality({s \in Streams : HoldsReq(s)}) = MaxReqs

\* No permit leaks, and a blocking task works without one only after its
\* connection task gave it up.  The comments at fg-ipc lib.rs:32, 362 and 379
\* promise more, a slow permit kept until the task ends; dispatch_arc keeps it
\* outside the closure, and a timeout or a deadline frees it before.
PermitsConserved ==
  /\ Balanced
  /\ \A t \in queued \cup running : Awaited(t) \/ t \in unconfirmed

\* The frame a UdsClient is about to read answers the request it has just
\* written, or is reject_conn's.  call_once never looks at the id: only dropping
\* the stream on every read failure keeps late answers of earlier requests away.
AnswersOwnRequest ==
  \A c \in Clients :
    (client[c].at = "wait" /\ outbuf[client[c].stream] # << >>) =>
      Head(outbuf[client[c].stream]).to \in {Request(c), Nil}

\* A call that returned success took effect in the daemon, retries, timeouts
\* and restarts notwithstanding.
SuccessMeansApplied ==
  \A c \in Clients :
    client[c].last = "ok" => \E a \in applied : a.cl = c /\ a.n = client[c].n

\* The retry of UdsClient::call repeats an effect only if the first attempt's
\* success was never answered: the answer was lost (timeout, deadline, crash,
\* broken stream), or the method failed after its effect.
RepeatedOnlyIfUnconfirmed ==
  \A a, b \in applied :
    (a.cl = b.cl /\ a.n = b.n /\ a.try = 1 /\ b.try = 2) => a \in unconfirmed

\* Admission recovers: again and again a connection slot and a request permit
\* are free, though handlers may hang for ever.  Slow permits are left out: the
\* comments want them kept by a handler that hangs.
AdmissionRecovers == []<>(connFree > 0 /\ reqFree > 0)
=============================================================================
