---------------------------- MODULE AuditIngest -----------------------------
(***************************************************************************)
(* The path of low-risk audit events in fg-store: the bounded low_queue,   *)
(* the drain thread that inserts batches, the dead-letter file that takes  *)
(* what the queue or the table refuses, and its verification and reimport. *)
(*                                                                         *)
(* A dead-letter line is [ev, prev]; its hmac covers prev and the event    *)
(* and is represented by Append(prev, ev), as in AuditChain.  The chain of *)
(* audit_events itself is the subject of AuditChain: here it is a set.  A  *)
(* line that does not parse is Garbled.                                    *)
(***************************************************************************)
EXTENDS Integers, Sequences

CONSTANTS
  Events,        \* low-risk events
  Threads,       \* request threads and operators that call reimport
  Drain,         \* the drain thread
  Nil,
  QueueCap,      \* sync_channel(8192)
  BatchMax,      \* 100 events per batch
  Environments   \* the environments considered, see env

\* What may happen around the queue in one behaviour.
Environment == [
  threads   : SUBSET Threads,  \* the threads that call the store
  events    : SUBSET Events,   \* the events they append
  inserts   : BOOLEAN,         \* may inserts into audit_events fail?
  files     : BOOLEAN,         \* may the dead-letter file fail?
  reimports : BOOLEAN,         \* may reimport_dead_letter be called?
  crashes   : BOOLEAN]         \* may the process or the drain thread die?

ASSUME IngestAssumption ==
  /\ Drain \notin Threads /\ Nil \notin Events /\ Nil \notin Threads
  /\ QueueCap \in Nat \ {0} /\ BatchMax \in Nat \ {0, 1}
  /\ Environments \subseteq Environment

VARIABLES
  env,       \* the environment of this behaviour, fixed from the start
  queue,     \* low_queue
  batch,     \* the events the drain thread has taken and not yet handled
  table,     \* audit_events
  file,      \* the lines of the dead-letter file
  torn,      \* does its last line lack the newline?
  pc, held, prev,   \* spool_dead_letter, per thread: step, event, prev_hmac
  lines,     \* the events a reimport has still to insert
  writer,    \* owner of the audit_writer mutex
  accepted,  \* history: events append_event has taken
  dropped    \* history: events lost by a crash or a failed file write

vars == <<env, queue, batch, table, file, torn, pc, held, prev, lines, writer, accepted, dropped>>
spool == <<pc, held, prev>>
disk == <<file, torn>>
history == <<accepted, dropped>>

Procs == Threads \cup {Drain}
Elements(s) == {s[i] : i \in DOMAIN s}
Spooled == {l.ev : l \in Elements(file)} \ {Nil}
Hmac(line) == Append(line.prev, line.ev)
Genesis == << >>
Garbled == [ev |-> Nil, prev |-> Genesis]

Init ==
  /\ env \in Environments
  /\ queue = << >> /\ batch = << >> /\ table = {} /\ file = << >> /\ torn = FALSE
  /\ pc = [p \in Procs |-> "idle"] /\ held = [p \in Procs |-> Nil]
  /\ prev = [p \in Procs |-> Genesis] /\ lines = [t \in Threads |-> << >>]
  /\ writer = Nil /\ accepted = {} /\ dropped = {}

-----------------------------------------------------------------------------
(* append_event of a low-risk verdict, and the drain thread.                 *)

AppendLow_dropsWhenFull(t, e) ==
  /\ pc[t] = "idle" /\ e \notin accepted
  /\ accepted' = accepted \cup {e}
  /\ queue' = IF Len(queue) < QueueCap THEN Append(queue, e) ELSE queue
  /\ UNCHANGED <<batch, table, disk, spool, lines, writer, dropped>>

\* try_send; a full queue, or one the drain thread has left for good, sends the
\* event to the dead-letter file.
AppendLow(t, e) ==
  /\ pc[t] = "idle" /\ e \notin accepted
  /\ accepted' = accepted \cup {e}
  /\ IF pc[Drain] # "dead" /\ Len(queue) < QueueCap
     THEN queue' = Append(queue, e) /\ UNCHANGED <<pc, held>>
     ELSE /\ held' = [held EXCEPT ![t] = e] /\ pc' = [pc EXCEPT ![t] = "spool"]
          /\ UNCHANGED queue
  /\ UNCHANGED <<batch, table, disk, prev, lines, writer, dropped>>

\* recv.
Receive ==
  /\ pc[Drain] = "idle" /\ batch = << >> /\ queue # << >>
  /\ batch' = <<Head(queue)>> /\ queue' = Tail(queue)
  /\ pc' = [pc EXCEPT ![Drain] = "fill"]
  /\ UNCHANGED <<table, disk, held, prev, lines, writer, history>>

\* try_recv, until the batch is full or the queue is empty.
Fill ==
  /\ pc[Drain] = "fill"
  /\ \/ /\ queue # << >>
        /\ batch' = Append(batch, Head(queue)) /\ queue' = Tail(queue)
        /\ pc' = IF Len(batch') < BatchMax THEN pc ELSE [pc EXCEPT ![Drain] = "idle"]
     \/ /\ queue = << >> /\ UNCHANGED <<batch, queue>>
        /\ pc' = [pc EXCEPT ![Drain] = "idle"]
  /\ UNCHANGED <<table, disk, held, prev, lines, writer, history>>

DrainInsert ==
  /\ pc[Drain] = "idle" /\ batch # << >>
  /\ table' = table \cup {Head(batch)} /\ batch' = Tail(batch)
  /\ UNCHANGED <<queue, disk, spool, lines, writer, history>>

DrainInsertFails_retries ==
  /\ env.inserts /\ pc[Drain] = "idle" /\ batch # << >>
  /\ held' = [held EXCEPT ![Drain] = Head(batch)]
  /\ pc' = [pc EXCEPT ![Drain] = "spool"]
  /\ UNCHANGED <<queue, batch, table, disk, prev, lines, writer, history>>

DrainInsertFails ==
  /\ env.inserts /\ pc[Drain] = "idle" /\ batch # << >>
  /\ held' = [held EXCEPT ![Drain] = Head(batch)] /\ batch' = Tail(batch)
  /\ pc' = [pc EXCEPT ![Drain] = "spool"]
  /\ UNCHANGED <<queue, table, disk, prev, lines, writer, history>>

-----------------------------------------------------------------------------
(* spool_dead_letter: read the last hmac, then append a line.  No lock.       *)

LastHmac ==
  IF file = << >> \/ file[Len(file)].ev = Nil THEN Genesis ELSE Hmac(file[Len(file)])

\* A file that cannot be read counts as empty.
SpoolRead(p) ==
  /\ pc[p] = "spool"
  /\ \/ prev' = [prev EXCEPT ![p] = LastHmac]
     \/ env.files /\ prev' = [prev EXCEPT ![p] = Genesis]
  /\ pc' = [pc EXCEPT ![p] = "write"]
  /\ UNCHANGED <<queue, batch, table, disk, held, lines, writer, history>>

SpoolDone(p) ==
  /\ held' = [held EXCEPT ![p] = Nil] /\ prev' = [prev EXCEPT ![p] = Genesis]
  /\ pc' = [pc EXCEPT ![p] = "idle"]

\* The line is appended.  Behind one without its newline it is not readable,
\* and neither is the other.
SpoolWrite(p) ==
  /\ pc[p] = "write" /\ torn' = FALSE
  /\ IF torn
     THEN dropped' = dropped \cup {held[p]} /\ UNCHANGED file
     ELSE file' = Append(file, [ev |-> held[p], prev |-> prev[p]]) /\ UNCHANGED dropped
  /\ SpoolDone(p)
  /\ UNCHANGED <<queue, batch, table, lines, writer, accepted>>

\* Part of a line is written.
Tear ==
  /\ torn' = TRUE
  /\ file' = IF torn THEN file ELSE Append(file, Garbled)

\* The file cannot be opened or written: only a log line remains.
SpoolFails(p) ==
  /\ env.files /\ pc[p] = "write"
  /\ dropped' = dropped \cup {held[p]}
  /\ UNCHANGED disk \/ Tear
  /\ SpoolDone(p)
  /\ UNCHANGED <<queue, batch, table, lines, writer, accepted>>

-----------------------------------------------------------------------------
(* verify_dead_letter and reimport_dead_letter.                               *)

\* Every line parses and continues the line before it.
Linked == \A i \in DOMAIN file :
            /\ file[i].ev # Nil
            /\ file[i].prev = IF i = 1 THEN Genesis ELSE Hmac(file[i - 1])

\* The file is read and verified as a whole; a broken line ends the call.
ReimportRead(t) ==
  /\ env.reimports /\ pc[t] = "idle" /\ file # << >> /\ Linked
  /\ lines' = [lines EXCEPT ![t] = [i \in DOMAIN file |-> file[i].ev]]
  /\ pc' = [pc EXCEPT ![t] = "lock"]
  /\ UNCHANGED <<queue, batch, table, disk, held, prev, writer, history>>

ReimportLock(t) ==
  /\ pc[t] = "lock" /\ writer = Nil
  /\ writer' = t /\ pc' = [pc EXCEPT ![t] = "import"]
  /\ UNCHANGED <<queue, batch, table, disk, held, prev, lines, history>>

ReimportReturns(t) ==
  /\ writer' = Nil /\ lines' = [lines EXCEPT ![t] = << >>]
  /\ pc' = [pc EXCEPT ![t] = "idle"]

Import(t) ==
  /\ pc[t] = "import" /\ lines[t] # << >> /\ Head(lines[t]) \notin table
  /\ table' = table \cup {Head(lines[t])}
  /\ lines' = [lines EXCEPT ![t] = Tail(@)]
  /\ UNCHANGED <<queue, batch, disk, spool, writer, history>>

\* An insert fails; audit_id is the primary key, so an event that is already
\* in the table fails too.  What was inserted before stays.
ImportFails(t) ==
  /\ pc[t] = "import" /\ lines[t] # << >>
  /\ env.inserts \/ Head(lines[t]) \in table
  /\ ReimportReturns(t)
  /\ UNCHANGED <<queue, batch, table, disk, held, prev, history>>

\* fs::write(path, ""): whatever the file holds by now.
ClearFile(t) ==
  /\ pc[t] = "import" /\ lines[t] = << >>
  /\ (file' = << >> /\ torn' = FALSE) \/ (env.files /\ UNCHANGED disk)
  /\ ReimportReturns(t)
  /\ UNCHANGED <<queue, batch, table, held, prev, history>>

\* The process dies: the queue, the batch and events being spooled are gone.
Crash ==
  /\ env.crashes
  /\ dropped' = dropped \cup Elements(queue) \cup Elements(batch)
                        \cup ({held[p] : p \in Procs} \ {Nil})
  /\ queue' = << >> /\ batch' = << >> /\ writer' = Nil
  /\ UNCHANGED disk \/ (Tear /\ \E p \in Procs : pc[p] = "write")
  /\ pc' = [p \in Procs |-> "idle"] /\ held' = [p \in Procs |-> Nil]
  /\ prev' = [p \in Procs |-> Genesis] /\ lines' = [t \in Threads |-> << >>]
  /\ UNCHANGED <<table, accepted>>

\* The drain thread panics: the queue goes with its receiver.
DrainDies ==
  /\ env.crashes /\ pc[Drain] \in {"idle", "fill"}
  /\ dropped' = dropped \cup Elements(queue) \cup Elements(batch)
  /\ queue' = << >> /\ batch' = << >>
  /\ pc' = [pc EXCEPT ![Drain] = "dead"]
  /\ UNCHANGED <<table, disk, held, prev, lines, writer, accepted>>

Spooling(p) == SpoolRead(p) \/ SpoolWrite(p) \/ SpoolFails(p)
Draining == Receive \/ Fill \/ DrainInsert \/ DrainInsertFails
Reimport(t) ==
  ReimportRead(t) \/ ReimportLock(t) \/ Import(t) \/ ImportFails(t) \/ ClearFile(t)

Next ==
  /\ UNCHANGED env
  /\ \/ \E t \in env.threads : Reimport(t) \/ \E e \in env.events : AppendLow(t, e)
     \/ \E p \in Procs : Spooling(p)
     \/ Draining \/ DrainDies \/ Crash

Spec == Init /\ [][Next]_vars

\* Threads that can go on are scheduled; nobody has to call reimport.
FairSpec ==
  /\ Spec
  /\ WF_vars(UNCHANGED env /\ Draining)
  /\ \A p \in Procs : WF_vars(UNCHANGED env /\ Spooling(p))

-----------------------------------------------------------------------------
(* Properties.                                                                *)

DeadLetter == [ev : Events \cup {Nil}, prev : Seq(Events)]

\* Queue, batch and file keep their shapes, the queue its bound, and a thread
\* holds an event exactly while it spools one.
TypeOK ==
  /\ env \in Environments
  /\ queue \in Seq(Events) /\ Len(queue) <= QueueCap
  /\ batch \in Seq(Events) /\ Len(batch) <= BatchMax
  /\ table \subseteq Events /\ file \in Seq(DeadLetter) /\ torn \in BOOLEAN
  /\ pc \in [Procs -> {"idle", "fill", "dead", "spool", "write", "lock", "import"}]
  /\ held \in [Procs -> Events \cup {Nil}] /\ prev \in [Procs -> Seq(Events)]
  /\ \A p \in Procs : held[p] # Nil <=> pc[p] \in {"spool", "write"}
  /\ lines \in [Threads -> Seq(Events)] /\ writer \in Threads \cup {Nil}
  /\ accepted \subseteq Events /\ dropped \subseteq accepted

\* One thread calls the store and nothing fails: the drain never spools.
Alone ==
  /\ \E t \in Threads : env.threads = {t}
  /\ ~env.inserts /\ ~env.files /\ ~env.crashes

\* An accepted event is queued, in the drain thread's hands, being spooled, in
\* the dead-letter file or in the table: a full queue or a failed insert
\* never drops it, nor does a reimport by the only caller.  Only a crash or an
\* unwritable file may.
NothingDropped ==
  (env.reimports => Alone) =>
    accepted \subseteq table \cup Spooled \cup Elements(queue) \cup Elements(batch)
                       \cup {held[p] : p \in Procs} \cup dropped

\* An event is inserted or spooled once: it is never in the table while it is
\* still on its way there, whatever fails, crashes or is reimported meanwhile.
NotInsertedTwice ==
  (Elements(queue) \cup Elements(batch) \cup {held[p] : p \in Procs}) \cap (table \cup Spooled) = {}

\* Every accepted event reaches the table or the dead-letter file, unless the
\* process dies or the file cannot be written.
Delivered ==
  \A e \in Events :
    (e \in accepted /\ ~env.files /\ ~env.crashes) ~> (e \in table \cup Spooled)
=============================================================================
