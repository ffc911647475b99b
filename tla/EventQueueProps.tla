-------------------------- MODULE EventQueueProps --------------------------
(***************************************************************************)
(* What EventQueue guarantees.                                             *)
(***************************************************************************)
EXTENDS EventQueue

Queued(e)   == \E q \in queue : q.event = e
Captured(e) == row[e] # 0

(* Once enqueue has returned, the event is on disk or in PostgreSQL until  *)
(* the end of time, whatever crashes, fails or hangs up in between, unless *)
(* the drain logged that it could not read it (ingest_event,               *)
(* drain_pending: a row goes only after store_event returned Ok).          *)
NoSilentLoss ==
    \A e \in Events : Captured(e) => Queued(e) \/ stored[e] > 0 \/ e \in discarded

(* The status a client reads is true: "accepted" events have a memories    *)
(* row, "queued" ones were captured (the two match arms of ingest_event).  *)
ReplyIsTrue ==
    \A e \in Events :
      /\ reply[e] = "accepted" => stored[e] > 0
      /\ reply[e] = "queued" => Captured(e)

(* A queue row belongs to one request and an id is never used for another  *)
(* row, so that a remove by id, issued long after the id was read, can     *)
(* only hit the row it was meant for (remove, AUTOINCREMENT).              *)
RowsHaveOneOwner ==
    /\ \A q \in queue \cup batch : row[q.event] = q.id
    /\ \A e, f \in Events : Captured(e) /\ row[e] = row[f] => e = f

(* An event is stored twice only if something went wrong on the way: the   *)
(* process or PostgreSQL failed, the queue's disk did, the client hung up, *)
(* or the handler was still at work when its row turned 30 s old.  In      *)
(* particular the drain and a prompt handler never both store an event     *)
(* (stale's age filter, drain_pending's remove).                           *)
DuplicateHasCause ==
    \A e \in Events : stored[e] > 1 =>
      e \in slow \/ \E f \in Faults : faults[f] > 0

(* Refinement: the status of each event, as DurableIngest sees it. *)
phase == [e \in Events |->
            IF stored[e] > 0 THEN "stored" ELSE
            IF Queued(e) THEN "captured" ELSE
            IF e \in discarded THEN "discarded" ELSE "absent"]

Ingest == INSTANCE DurableIngest

(* Every step of the handlers, the drain and their faults is a step that   *)
(* the promise allows (or none at all).                                    *)
ImplementsDurableIngest == Ingest!Spec

(* drain_pending retries a queued event until it is stored, provided no    *)
(* row that PostgreSQL always rejects is queued ahead of it.               *)
Ahead(e) == {q \in queue : \E p \in queue : p.event = e /\ q.id < p.id}
Retriable(e) == Queued(e) /\ \A q \in Ahead(e) : q.event \notin Poison

QueuedIsEventuallyStored ==
    \A e \in Events \ Poison : Retriable(e) ~> (stored[e] > 0 \/ e \in discarded)

(* What the comment in ingest_event says of every "queued" event that      *)
(* could be stored at all: "a background drain task will retry it".        *)
QueuedIsEventuallyRetried ==
    \A e \in Events \ Poison : reply[e] = "queued" ~> (stored[e] > 0 \/ e \in discarded)

(* What drain_pending's comment says of duplicates once the handler has    *)
(* been prompt: a "residual, crash-only case".                             *)
DuplicatesOnlyByCrash ==
    \A e \in Events : stored[e] > 1 => faults["crash"] > 0 \/ e \in slow
=============================================================================
