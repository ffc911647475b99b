----------------------------- MODULE EventQueue -----------------------------
(***************************************************************************)
(* POST /events, the pending-writes queue in front of PostgreSQL and the   *)
(* background drain (api/handlers/events.rs, queue/mod.rs, main.rs).       *)
(*                                                                         *)
(* Every request handler and the drain task are workers of one tokio       *)
(* process; each `.await` of the code is a boundary between two actions.   *)
(* One request carries one event, so requests are named by their event.    *)
(* SQLite and PostgreSQL outlive the process; everything else is lost when *)
(* it crashes.                                                             *)
(***************************************************************************)
EXTENDS Naturals, FiniteSets

CONSTANTS
    Events,         \* the requests clients may send
    Poison,         \* those PostgreSQL rejects for ever (unknown agent_id, NUL byte)
    Drain,          \* the drain task
    MaxQueued,      \* MAX_QUEUED_ROWS
    Batch,          \* BATCH, rows read per tick
    SchemaChange,   \* may an upgrade make queued rows unreadable?
    MaxFaults       \* bound on faults of all kinds together

ASSUME EventAssumption ==
    /\ Poison \subseteq Events
    /\ Drain \notin Events
    /\ MaxQueued \in Nat /\ Batch \in Nat \ {0}
    /\ SchemaChange \in BOOLEAN
    /\ MaxFaults \in Nat

VARIABLES
    queue,      \* table pending_events (SQLite)
    lastId,     \* its AUTOINCREMENT counter (sqlite_sequence)
    stored,     \* number of memories rows per event (PostgreSQL)
    pgUp,       \* is PostgreSQL reachable?
    serverUp,   \* is the process running?
    pc,         \* where each worker is
    row,        \* queue_id of each request, 0 for None
    reply,      \* EventResponse.status, "none" until it is sent
    batch,      \* the rows drain_pending still has to process
    job,        \* the row it is processing
    discarded,  \* events logged as "dropping unreadable queued event"
    slow,       \* events whose row turned 30 s old under a live request
    faults      \* how many faults of each kind have happened

disk     == <<queue, lastId>>
postgres == <<stored, pgUp>>
memory   == <<pc, row, batch, job>>
ghosts   == <<discarded, slow>>
vars == <<queue, lastId, stored, pgUp, serverUp, pc, row, reply,
          batch, job, discarded, slow, faults>>

Workers == Events \cup {Drain}
Row     == [id : Nat \ {0}, event : Events, stale : BOOLEAN, readable : BOOLEAN]
NoJob   == [id |-> 0, event |-> Drain, stale |-> TRUE, readable |-> TRUE]
PC      == {"idle", "insert", "lost", "vector", "stored", "done", "gone", "next"}
Replies == {"none", "accepted", "queued", "error"}
Faults  == {"crash", "outage", "disk", "disconnect"}
InFlight == {"insert", "lost", "vector", "stored"}

TypeOK ==
    /\ queue \in SUBSET Row
    /\ lastId \in Nat
    /\ stored \in [Events -> Nat]
    /\ pgUp \in BOOLEAN /\ serverUp \in BOOLEAN
    /\ pc \in [Workers -> PC]
    /\ row \in [Events -> Nat]
    /\ reply \in [Events -> Replies]
    /\ batch \in SUBSET Row
    /\ job \in Row \cup {NoJob}
    /\ discarded \in SUBSET Events /\ slow \in SUBSET Events
    /\ faults \in [Faults -> Nat]

Init ==
    /\ queue = {} /\ lastId = 0
    /\ stored = [e \in Events |-> 0]
    /\ pgUp = TRUE /\ serverUp = TRUE
    /\ pc = [w \in Workers |-> "idle"]
    /\ row = [e \in Events |-> 0]
    /\ reply = [e \in Events |-> "none"]
    /\ batch = {} /\ job = NoJob
    /\ discarded = {} /\ slow = {}
    /\ faults = [f \in Faults |-> 0]

-----------------------------------------------------------------------------
(* Faults: a crash of the process, an outage of PostgreSQL, an I/O error   *)
(* of the queue's disk, a client that hangs up.                            *)

Fault(f) ==
    /\ faults["crash"] + faults["outage"] + faults["disk"] + faults["disconnect"]
         < MaxFaults
    /\ faults' = [faults EXCEPT ![f] = @ + 1]

Step(w, from, to) == pc[w] = from /\ pc' = [pc EXCEPT ![w] = to]

-----------------------------------------------------------------------------
(* PendingWriteQueue.                                                      *)

(* Mutants of NextRowId: the id read before the insert, and INTEGER        *)
(* PRIMARY KEY without AUTOINCREMENT, which hands out a freed top id again. *)
NextRowIdUncounted == lastId
NextRowIdReused ==
    CHOOSE n \in 1 .. lastId + 1 :
      /\ \A q \in queue : q.id < n
      /\ n = 1 \/ \E q \in queue : q.id = n - 1

(* AUTOINCREMENT: an id is never given out twice, not even after DELETE.   *)
NextRowId == lastId + 1

(* The cap is checked and the row inserted by one statement.               *)
EnqueueRow(e) ==
    /\ Cardinality(queue) < MaxQueued
    /\ lastId' = NextRowId
    /\ row' = [row EXCEPT ![e] = NextRowId]
    /\ queue' = queue \cup
         {[id |-> NextRowId, event |-> e, stale |-> FALSE, readable |-> TRUE]}

(* Mutant: the delete takes every row up to the id. *)
RemoveRowAndOlder(id) == queue' = {q \in queue : q.id > id}

(* DELETE FROM pending_events WHERE id = ? *)
RemoveRow(id) == queue' = {q \in queue : q.id # id}

(* Mutants: oldest() instead of stale(), and the text comparison of two     *)
(* time formats that stale's comment warns of, which matches no row.       *)
StaleRowsOfAnyAge == {q \in queue : Cardinality({p \in queue : p.id < q.id}) < Batch}
StaleRowsNone == {}

(* stale(limit, age): the oldest `limit` rows past the age, in id order.   *)
StaleRows ==
    LET old == {q \in queue : q.stale}
    IN  {q \in old : Cardinality({p \in old : p.id < q.id}) < Batch}

(* Thirty seconds pass for the oldest row that was younger.                *)
Age ==
    \E q \in queue :
      /\ ~q.stale
      /\ \A p \in queue : p.id < q.id => p.stale
      /\ queue' = (queue \ {q}) \cup {[q EXCEPT !.stale = TRUE]}
      /\ slow' = IF pc[q.event] \in InFlight THEN slow \cup {q.event} ELSE slow
      /\ UNCHANGED <<lastId, postgres, serverUp, memory, reply, discarded, faults>>

-----------------------------------------------------------------------------
(* store_event, run by request handlers and by the drain task alike.       *)
(* embed_passage comes first; it changes nothing and is never an error, so *)
(* "insert" stands for the wait on the embedder and on the INSERT, and the *)
(* embedder's answer is chosen when the INSERT ends.                       *)

EventOf(w) == IF w = Drain THEN job.event ELSE w

(* drain_pending ends its tick.                                            *)
EndTick ==
    /\ pc' = [pc EXCEPT ![Drain] = "idle"]
    /\ batch' = {} /\ job' = NoJob

(* store_event returned Err.  ingest_event answers at once: "queued" if the *)
(* row is there for the drain, "error" if not.  drain_pending breaks,      *)
(* leaving the rest of the batch for another tick.                         *)
Fail(w) ==
    \/ /\ w = Drain
       /\ EndTick
       /\ UNCHANGED reply
    \/ /\ w # Drain
       /\ pc' = [pc EXCEPT ![w] = "done"]
       /\ reply' = [reply EXCEPT ![w] = IF row[w] # 0 THEN "queued" ELSE "error"]
       /\ UNCHANGED <<batch, job>>

Storable(w) == EventOf(w) \in Events \ Poison

(* INSERT INTO memories commits and the reply arrives.  Without a vector   *)
(* store_event is done; with one there is a second statement to run.       *)
InsertMemory(w) ==
    /\ serverUp /\ pgUp /\ Storable(w)
    /\ \E embedded \in BOOLEAN :
         Step(w, "insert", IF embedded THEN "vector" ELSE "stored")
    /\ stored' = [stored EXCEPT ![EventOf(w)] = @ + 1]
    /\ UNCHANGED <<disk, pgUp, serverUp, row, reply, batch, job, ghosts, faults>>

(* It commits, but the connection breaks before the reply.                 *)
InsertReplyLost(w) ==
    /\ serverUp /\ pgUp /\ Storable(w)
    /\ Step(w, "insert", "lost")
    /\ Fault("outage")
    /\ stored' = [stored EXCEPT ![EventOf(w)] = @ + 1]
    /\ pgUp' = FALSE
    /\ UNCHANGED <<disk, serverUp, row, reply, batch, job, ghosts>>

(* Mutant: an error of the INSERT is taken for success. *)
InsertFailsUnnoticed(w) ==
    /\ serverUp
    /\ pc[w] = "insert" /\ (~pgUp \/ EventOf(w) \in Poison)
    /\ Step(w, "insert", "stored")
    /\ UNCHANGED <<disk, postgres, serverUp, row, reply, batch, job, ghosts, faults>>

(* sqlx returns Err: the reply is lost, PostgreSQL is unreachable, or it   *)
(* rejects the row (foreign key, NUL byte).                                *)
InsertFails(w) ==
    /\ serverUp
    /\ \/ pc[w] = "lost"
       \/ pc[w] = "insert" /\ (~pgUp \/ EventOf(w) \in Poison)
    /\ Fail(w)
    /\ UNCHANGED <<disk, postgres, serverUp, row, ghosts, faults>>

(* store_embedding, a second statement outside any transaction.            *)
StoreEmbedding(w) ==
    /\ serverUp /\ pgUp
    /\ Step(w, "vector", "stored")
    /\ UNCHANGED <<disk, postgres, serverUp, row, reply, batch, job, ghosts, faults>>

(* If it fails, store_memory returns Err although its row is committed.    *)
StoreEmbeddingFails(w) ==
    /\ serverUp /\ ~pgUp
    /\ pc[w] = "vector"
    /\ Fail(w)
    /\ UNCHANGED <<disk, postgres, serverUp, row, ghosts, faults>>

-----------------------------------------------------------------------------
(* ingest_event.                                                           *)

(* enqueue succeeds ...                                                    *)
Enqueue(e) ==
    /\ serverUp
    /\ Step(e, "idle", "insert")
    /\ EnqueueRow(e)
    /\ UNCHANGED <<postgres, serverUp, reply, batch, job, ghosts, faults>>

(* ... or the queue is full, or its disk is: ingestion proceeds inline.    *)
EnqueueFails(e) ==
    /\ serverUp
    /\ Step(e, "idle", "insert")
    /\ \/ Cardinality(queue) >= MaxQueued /\ UNCHANGED faults
       \/ Fault("disk")
    /\ UNCHANGED <<disk, postgres, serverUp, row, reply, batch, job, ghosts>>

(* Ok(m): clear the queue row (a failure to is only logged), answer.       *)
Accept(e) ==
    /\ serverUp
    /\ Step(e, "stored", "done")
    /\ \/ row[e] # 0 /\ RemoveRow(row[e]) /\ UNCHANGED faults
       \/ row[e] # 0 /\ Fault("disk") /\ UNCHANGED queue
       \/ row[e] = 0 /\ UNCHANGED <<queue, faults>>
    /\ reply' = [reply EXCEPT ![e] = "accepted"]
    /\ UNCHANGED <<lastId, postgres, serverUp, row, batch, job, ghosts>>

(* The client hangs up: hyper drops the handler at whatever await it is.   *)
Disconnect(e) ==
    /\ serverUp
    /\ pc[e] \in InFlight
    /\ Fault("disconnect")
    /\ pc' = [pc EXCEPT ![e] = "gone"]
    /\ UNCHANGED <<disk, postgres, serverUp, row, reply, batch, job, ghosts>>

-----------------------------------------------------------------------------
(* drain_pending, called every 30 s by the loop in main.                   *)

ReadBatch ==
    /\ serverUp
    /\ Step(Drain, "idle", "next")
    /\ batch' = StaleRows
    /\ UNCHANGED <<disk, postgres, serverUp, row, reply, job, ghosts, faults>>

(* The next row of the batch, as it was when the batch was read.           *)
TakeRow ==
    /\ serverUp
    /\ Step(Drain, "next", "insert")
    /\ \E q \in batch :
         /\ q.readable
         /\ \A p \in batch : q.id <= p.id
         /\ job' = q
         /\ batch' = batch \ {q}
    /\ UNCHANGED <<disk, postgres, serverUp, row, reply, ghosts, faults>>

(* An unreadable row is removed; a failure to remove it ends the tick.     *)
DropUnreadable ==
    /\ serverUp
    /\ pc[Drain] = "next"
    /\ \E q \in batch :
         /\ ~q.readable
         /\ \A p \in batch : q.id <= p.id
         /\ \/ /\ RemoveRow(q.id)
               /\ batch' = batch \ {q}
               /\ discarded' = discarded \cup {q.event}
               /\ UNCHANGED <<pc, job, faults>>
            \/ Fault("disk") /\ EndTick /\ UNCHANGED <<queue, discarded>>
    /\ UNCHANGED <<lastId, postgres, serverUp, row, reply, slow>>

(* Ok(_): remove the row and go on; a failure to remove it ends the tick.  *)
DrainStored ==
    /\ serverUp
    /\ pc[Drain] = "stored"
    /\ \/ /\ Step(Drain, "stored", "next")
          /\ RemoveRow(job.id)
          /\ job' = NoJob
          /\ UNCHANGED <<batch, faults>>
       \/ Fault("disk") /\ EndTick /\ UNCHANGED queue
    /\ UNCHANGED <<lastId, postgres, serverUp, row, reply, ghosts>>

DrainDone ==
    /\ serverUp
    /\ pc[Drain] = "next" /\ batch = {}
    /\ EndTick
    /\ UNCHANGED <<disk, postgres, serverUp, row, reply, ghosts, faults>>

-----------------------------------------------------------------------------
(* The environment.                                                        *)

Crash ==
    /\ serverUp
    /\ Fault("crash")
    /\ serverUp' = FALSE
    /\ pc' = [w \in Workers |->
                IF w = Drain THEN "idle"
                ELSE IF pc[w] \in InFlight THEN "gone" ELSE pc[w]]
    /\ batch' = {} /\ job' = NoJob
    /\ UNCHANGED <<disk, postgres, row, reply, ghosts>>

(* connect_with_retry waits for PostgreSQL and gives up after two minutes, *)
(* then the supervisor starts the process again.  A newer binary may not   *)
(* understand a row an older one queued.                                   *)
Restart ==
    /\ ~serverUp /\ pgUp
    /\ serverUp' = TRUE
    /\ \/ UNCHANGED queue
       \/ /\ SchemaChange
          /\ \E q \in queue :
               queue' = (queue \ {q}) \cup {[q EXCEPT !.readable = FALSE]}
    /\ UNCHANGED <<lastId, postgres, memory, reply, ghosts, faults>>

Outage ==
    /\ pgUp
    /\ Fault("outage")
    /\ pgUp' = FALSE
    /\ UNCHANGED <<disk, stored, serverUp, memory, reply, ghosts>>

Recover ==
    /\ ~pgUp
    /\ pgUp' = TRUE
    /\ UNCHANGED <<disk, stored, serverUp, memory, reply, ghosts, faults>>

-----------------------------------------------------------------------------

StoreEvent(w) ==
    \/ InsertMemory(w) \/ InsertReplyLost(w) \/ InsertFails(w)
    \/ StoreEmbedding(w) \/ StoreEmbeddingFails(w)

Handler(e) ==
    \/ Enqueue(e) \/ EnqueueFails(e) \/ StoreEvent(e)
    \/ Accept(e) \/ Disconnect(e)

DrainTask ==
    \/ ReadBatch \/ TakeRow \/ DropUnreadable \/ StoreEvent(Drain)
    \/ DrainStored \/ DrainDone

Environment == Age \/ Crash \/ Restart \/ Outage \/ Recover

Next == (\E e \in Events : Handler(e)) \/ DrainTask \/ Environment

Spec == Init /\ [][Next]_vars

(* The drain loop never exits, each of its awaits ends (the embedder's     *)
(* requests time out), time passes, the supervisor restarts the process,   *)
(* and an outage is momentary.  Nothing is assumed of a request handler.   *)
Fairness ==
    /\ WF_vars(DrainTask) /\ WF_vars(Age) /\ WF_vars(Restart) /\ WF_vars(Recover)

FairSpec == Spec /\ Fairness
=============================================================================
