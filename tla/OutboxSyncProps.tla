--------------------------- MODULE OutboxSyncProps ---------------------------
(***************************************************************************)
(* What neon-sync guarantees.                                              *)
(***************************************************************************)
EXTENDS OutboxSync

(* What the target should show of a key. *)
Projected(k) == IF k \in active THEN local[k] ELSE None

(* Outbox entries are the marks of Mirror. *)
activeRows == [k \in Keys |-> Projected(k)]

Mirrored == INSTANCE Mirror WITH
    source <- activeRows, projection <- target, marked <- Pending, lost <- dropped

(* The target shows the key as it is.  A vector that was cleared at home   *)
(* stays on the target: apply_batch writes the embedding only if there is  *)
(* one, and audit_page does not compare it.                                *)
Agrees(k) == Mirrored!Shows(target[k], Projected(k))

(* With one pusher at a time, a key without an outbox entry is mirrored    *)
(* (but for a vector cleared at home), unless the target's own foreign     *)
(* keys took its row or a reference: no change of the local database is    *)
(* ever forgotten, whatever writes, failures, lost replies and restarts    *)
(* come between reading a row and acknowledging it (run_queue,             *)
(* acknowledge).                                                           *)
NoChangeForgotten ==
    \A k \in Keys : k \notin Pending \cup dropped => Agrees(k)

(* A committed batch holds what its entries stand for: an entry of an      *)
(* unchanged generation goes with the very row that reached the target     *)
(* (by_key and source_rows in run_queue).                                  *)
BatchIsCurrent ==
    \A p \in Pushers : pc[p] \in {"ackDelete", "ack"} =>
      \A r \in batch[p] : r.gen = outbox[r.key].gen => Agrees(r.key)

(* The names of active rows stay apart on the target as they do at home,   *)
(* although rows reach it one by one and in any order, renamed or swapped  *)
(* (the natural_key branch of apply_batch).                                *)
NamesAreUnique ==
    \A j, k \in Keys : SameName(j, k) /\ target[j] # None /\ target[k] # None =>
      target[j].value # target[k].value

(* Refinement: every step of the applications, the pushers and the audit   *)
(* is a step that Mirror allows (or none at all).                          *)
ImplementsMirror == Mirrored!Spec

(* An entry that no push can acknowledge: the audit read the row, it went, *)
(* and the audit then queued it for upsert (audit_page, source_rows).      *)
Orphaned(k) == k \in Pending /\ outbox[k].op = "upsert" /\ k \notin active

(* A row that the target rejects for ever, and so every run ends at it:    *)
(* one it references is not there, and is archived, or of the same table   *)
(* and written after it, or younger than it and beyond the LIMIT.          *)
Blocked(j) ==
    /\ j \in Pending \cap active
    /\ \E i \in Keys :
         /\ i = ParentOf[j] \/ i \in local[j].refs
         /\ target[i] = None
         /\ \/ i \notin active
            \/ TableOf[i] = TableOf[j] /\ Limit > 1
            \/ outbox[i].at >= outbox[j].at /\ Cardinality(Pending) > Limit

(* The queue does not move: its head is a row the target rejects, or       *)
(* orphans fill the LIMIT of the read.                                     *)
Stuck ==
    \/ \E j \in Keys : Blocked(j)
    \/ Cardinality({k \in Keys : Orphaned(k)}) >= Limit

(* Once the applications pause, pushes empty the outbox but for orphans,   *)
(* and the target shows the local rows but for those its own foreign keys  *)
(* took, unless the queue is stuck for one of the reasons above.           *)
EventuallyMirrored ==
    <>[](Stuck \/ \A k \in Keys :
           Orphaned(k) \/ (k \notin Pending /\ (k \in dropped \/ Agrees(k))))

(* "A target-side lease provides a fencing token"                          *)
(* (migrations/010_shared_event_sync.sql): a run that has lost the lease   *)
(* to a later one no longer changes the target.                            *)
FencedWrites ==
    [][target' # target => \A p \in Pushers : pc'[p] # pc[p] => owner = p]_vars

(* "Neon holds the active searchable projection"                           *)
(* (docs/OPERATIONS_STATUS.md): when nothing is queued and nothing runs,   *)
(* the target is the projection of the local database.                     *)
QuietTargetIsProjection ==
    Pending = {} /\ (\A p \in Pushers : pc[p] = "idle") =>
      \A k \in Keys : Agrees(k)
=============================================================================
