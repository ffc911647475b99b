----------------------------- MODULE OutboxSync -----------------------------
(***************************************************************************)
(* neon-sync: the capture trigger, the outbox and the push of one device's *)
(* local PostgreSQL to the sync target (bin/neon-sync.rs), with the audit  *)
(* that queues repairs.  Applications write the local database meanwhile.  *)
(*                                                                         *)
(* A pusher is a process running push_once; the timer starts one, and so   *)
(* may a person.  Each transaction on either database is one action.  The  *)
(* archive, the run log and the attempt counters of the outbox are left    *)
(* out: nothing reads them back.                                           *)
(***************************************************************************)
EXTENDS Naturals, FiniteSets

CONSTANTS
    Keys,           \* the rows (table and key) that may exist
    Values,         \* what a row may say; a named row's value is its name
    Vectors,        \* what an embedding column may hold
    None,           \* no row, no vector, no parent
    TableOf,        \* position of a key's table in TABLES
    ParentOf,       \* the row it references ON DELETE CASCADE
    Named,          \* keys of tables with a natural_key, UNIQUE in the schema
    MayHold,        \* the rows that may be written under a key
    Archivable,     \* keys whose storage_tier may become 'archived'
    Pushers,
    Limit,          \* LIMIT of the outbox read
    BatchRows,      \* DEFAULT_BATCH_ROWS
    MaxRetries,     \* MAX_RETRIES
    WithAudit,      \* is the audit run?
    MaxChanges,     \* bound on the captures
    MaxFaults       \* bound on the faults

(* A row with its embedding and the rows it references ON DELETE SET NULL. *)
Row == [value : Values, vector : Vectors \cup {None}, refs : SUBSET Keys]

ASSUME OutboxAssumption ==
    /\ None \notin Keys \cup Values \cup Vectors \cup Pushers /\ None \notin Row
    /\ TableOf \in [Keys -> Nat]
    /\ ParentOf \in [Keys -> Keys \cup {None}]
    /\ \A k \in Keys : ParentOf[k] # None =>
         TableOf[ParentOf[k]] < TableOf[k] /\ ParentOf[ParentOf[k]] = None
    /\ MayHold \in [Keys -> SUBSET Row]
    /\ \A k \in Keys : \A row \in MayHold[k] : \A i \in row.refs :
         TableOf[i] < TableOf[k] \/ (TableOf[i] = TableOf[k] /\ i # k /\ k \notin Named)
    /\ Named \subseteq Keys /\ Archivable \subseteq Keys
    /\ \A j, k \in Keys : TableOf[j] = TableOf[k] => (j \in Named <=> k \in Named)
    /\ Limit \in Nat \ {0} /\ BatchRows \in Nat \ {0} /\ MaxRetries \in Nat \ {0}
    /\ WithAudit \in BOOLEAN
    /\ MaxChanges \in Nat /\ MaxFaults \in Nat

VARIABLES
    local,      \* the local rows
    active,     \* keys whose storage_tier is 'active'
    outbox,     \* sync_meta.outbox; generation 0 means no entry
    target,     \* the rows of the target
    owner,      \* whose run has the latest generation of the lease
    live,       \* is expires_at in the future?
    pc,         \* where each pusher is
    items,      \* outbox entries it has read and not yet turned to
    todo,       \* batches of rows it has read and not yet acknowledged
    batch,      \* the batch in its hands, {} if none
    attempt,    \* failed attempts at it
    page,       \* rows audit_page has read and not yet compared
    dropped,    \* keys whose row the target's own foreign keys deleted or changed
    clock,      \* now(), counted in captures
    faults

source == <<local, active>>
lease  == <<owner, live>>
run    == <<pc, items, todo, batch, attempt>>
vars == <<local, active, outbox, target, lease, run, page, dropped, clock, faults>>

Content == [value : Values, refs : SUBSET Keys]
Op    == {"none", "upsert", "delete"}
Entry == [gen : Nat, op : Op, at : Nat]
NoEntry == [gen |-> 0, op |-> "none", at |-> 0]
Item  == [key : Keys, gen : Nat \ {0}, op : Op]
SourceRow == [key : Keys, gen : Nat \ {0}, row : Row]
PC    == {"idle", "renew", "read", "table", "ackDelete", "apply", "ack"}

TypeOK ==
    /\ local \in [Keys -> Row \cup {None}]
    /\ active \in SUBSET Keys
    /\ outbox \in [Keys -> Entry]
    /\ target \in [Keys -> Row \cup {None}]
    /\ owner \in Pushers \cup {None} /\ live \in BOOLEAN
    /\ pc \in [Pushers -> PC]
    /\ items \in [Pushers -> SUBSET Item]
    /\ todo \in [Pushers -> SUBSET SUBSET SourceRow]
    /\ batch \in [Pushers -> SUBSET (Item \cup SourceRow)]
    /\ attempt \in [Pushers -> Nat]
    /\ page \in SUBSET [key : Keys, content : Content]
    /\ dropped \in SUBSET Keys
    /\ clock \in Nat /\ faults \in Nat

Init ==
    /\ local = [k \in Keys |-> None] /\ active = {}
    /\ outbox = [k \in Keys |-> NoEntry]
    /\ target = [k \in Keys |-> None]
    /\ owner = None /\ live = FALSE
    /\ pc = [p \in Pushers |-> "idle"]
    /\ items = [p \in Pushers |-> {}] /\ todo = [p \in Pushers |-> {}]
    /\ batch = [p \in Pushers |-> {}] /\ attempt = [p \in Pushers |-> 0]
    /\ page = {} /\ dropped = {}
    /\ clock = 0 /\ faults = 0

Fault == faults < MaxFaults /\ faults' = faults + 1

Pending == {k \in Keys : outbox[k].gen # 0}

Children(K) == {c \in Keys : ParentOf[c] \in K}

SameName(j, k) == j # k /\ TableOf[j] = TableOf[k] /\ k \in Named

(* The rows T once those of K are deleted: rows that reference them go too *)
(* or lose the reference.                                                  *)
Without(T, K) ==
    [k \in Keys |->
       IF k \in K \cup Children(K) \/ T[k] = None THEN None
       ELSE [T[k] EXCEPT !.refs = @ \ (K \cup Children(K))]]

(* The other rows this touches.                                            *)
Touched(T, K) == {k \in Keys \ K : Without(T, K)[k] # T[k]}

-----------------------------------------------------------------------------
(* The local database.                                                     *)

(* Mutant: the conflicting entry keeps its generation. *)
CaptureSameGeneration(K, U) ==
    /\ clock < MaxChanges /\ clock' = clock + 1
    /\ outbox' = [k \in Keys |->
         IF k \in K
         THEN [gen |-> IF k \in Pending THEN outbox[k].gen ELSE 1,
               op |-> IF k \in U THEN "upsert" ELSE "delete", at |-> clock']
         ELSE outbox[k]]

(* INSERT INTO outbox ... ON CONFLICT DO UPDATE SET generation + 1, for    *)
(* upsert at the keys of U and for deletion at the others.                 *)
Capture(K, U) ==
    /\ clock < MaxChanges /\ clock' = clock + 1
    /\ outbox' = [k \in Keys |->
         IF k \in K
         THEN [gen |-> outbox[k].gen + 1,
               op |-> IF k \in U THEN "upsert" ELSE "delete", at |-> clock']
         ELSE outbox[k]]

(* INSERT or UPDATE of a row; the trigger queues an upsert, or a delete if *)
(* the row is no longer active.  An UPDATE that changes nothing is ignored. *)
WriteRow(k, row, isActive) ==
    /\ <<local[k], k \in active>> # <<row, isActive>>
    /\ isActive \/ (local[k] # None /\ k \in Archivable)
    /\ ParentOf[k] # None => local[ParentOf[k]] # None
    /\ \A i \in row.refs : local[i] # None
    /\ \A j \in Keys : SameName(j, k) /\ local[j] # None => local[j].value # row.value
    /\ local' = [local EXCEPT ![k] = row]
    /\ active' = IF isActive THEN active \cup {k} ELSE active \ {k}
    /\ Capture({k}, IF isActive THEN {k} ELSE {})
    /\ UNCHANGED <<target, lease, run, page, dropped, faults>>

(* DELETE of a row: those that reference it go or change with it, and the  *)
(* trigger sees them all.                                                  *)
DeleteRow(k) ==
    LET gone == {k} \cup Children({k})
    IN  /\ local[k] # None
        /\ local' = Without(local, {k})
        /\ active' = active \ gone
        /\ Capture({k} \cup Touched(local, {k}), active \ gone)
        /\ UNCHANGED <<target, lease, run, page, dropped, faults>>

-----------------------------------------------------------------------------
(* push_once and run_queue.                                                *)

Goto(p, l) == pc' = [pc EXCEPT ![p] = l]

(* The run ends, well or badly, and what it held in memory is gone.        *)
EndRun(p) ==
    /\ Goto(p, "idle")
    /\ items' = [items EXCEPT ![p] = {}]
    /\ todo' = [todo EXCEPT ![p] = {}]
    /\ batch' = [batch EXCEPT ![p] = {}]
    /\ attempt' = [attempt EXCEPT ![p] = 0]

(* release_target_lease                                                    *)
Release(p) ==
    /\ live' = (live /\ owner # p)
    /\ UNCHANGED owner

(* acquire_target_lease raises the generation; the device that holds the   *)
(* lease always gets it, so an older run of the same device loses it.      *)
AcquireLease(p) ==
    /\ pc[p] = "idle"
    /\ Goto(p, "renew")
    /\ owner' = p /\ live' = TRUE
    /\ UNCHANGED <<source, outbox, target, items, todo, batch, attempt, page,
                   dropped, clock, faults>>

(* renew_target_lease, at the head of run_queue's loop.                    *)
RenewLease(p) ==
    /\ pc[p] = "renew"
    /\ live /\ owner = p
    /\ Goto(p, "read")
    /\ UNCHANGED <<source, outbox, target, lease, items, todo, batch,
                   attempt, page, dropped, clock, faults>>

LeaseLost(p) ==
    /\ pc[p] = "renew"
    /\ ~(live /\ owner = p)
    /\ EndRun(p) /\ Release(p)
    /\ UNCHANGED <<source, outbox, target, page, dropped, clock, faults>>

(* SELECT ... FROM outbox ORDER BY changed_at LIMIT 200                    *)
Oldest(K) ==
    /\ K \subseteq Pending
    /\ Cardinality(K) <= Limit
    /\ K # Pending => Cardinality(K) = Limit
    /\ \A k \in K, j \in Pending \ K : outbox[k].at <= outbox[j].at

ReadQueue(p) ==
    /\ pc[p] = "read" /\ Pending # {}
    /\ \E K \in SUBSET Pending :
         /\ Oldest(K)
         /\ items' = [items EXCEPT ![p] =
              {[key |-> k, gen |-> outbox[k].gen, op |-> outbox[k].op] : k \in K}]
    /\ Goto(p, "table")
    /\ UNCHANGED <<source, outbox, target, lease, todo, batch, attempt, page,
                   dropped, clock, faults>>

(* The queue is empty.                                                     *)
QueueEmpty(p) ==
    /\ pc[p] = "read" /\ Pending = {}
    /\ EndRun(p) /\ Release(p)
    /\ UNCHANGED <<source, outbox, target, page, dropped, clock, faults>>

(* What is left of the first table of the group.                           *)
CurrentTable(p) ==
    {i \in items[p] : \A j \in items[p] : TableOf[i.key] <= TableOf[j.key]}

(* Mutant: every entry of the table is taken for a delete. *)
DeletesOfAnyOp(p) == CurrentTable(p)

Deletes(p) == {i \in CurrentTable(p) : i.op = "delete"}
Upserts(p) == {i \in CurrentTable(p) : i.op # "delete"}

KeysOf(rows) == {r.key : r \in rows}

(* The target drops the rows of K; its foreign keys see to those that      *)
(* reference them.                                                         *)
Drop(K) ==
    /\ target' = Without(target, K)
    /\ dropped' = (dropped \cup Touched(target, K)) \ K

(* archive_and_delete_many, one transaction.                               *)
ArchiveAndDelete(p) ==
    /\ pc[p] = "table"
    /\ \E D \in SUBSET Deletes(p) :
         /\ D # {} /\ Cardinality(D) <= BatchRows
         /\ batch' = [batch EXCEPT ![p] = D]
         /\ Drop(KeysOf(D))
    /\ Goto(p, "ackDelete")
    /\ UNCHANGED <<source, outbox, lease, items, todo, attempt, page, clock, faults>>

(* Mutants: the entry is deleted whatever its generation, or unless it has *)
(* the generation that was pushed.                                         *)
AcknowledgeByKey(rows) ==
    outbox' = [k \in Keys |-> IF k \in KeysOf(rows) THEN NoEntry ELSE outbox[k]]

AcknowledgeOlder(rows) ==
    outbox' = [k \in Keys |->
       IF \E r \in rows : r.key = k /\ r.gen < outbox[k].gen THEN NoEntry ELSE outbox[k]]

(* DELETE FROM outbox WHERE ... AND generation = $3, one transaction.      *)
Acknowledge(rows) ==
    outbox' = [k \in Keys |->
       IF \E r \in rows : r.key = k /\ r.gen = outbox[k].gen THEN NoEntry ELSE outbox[k]]

AcknowledgeDeletes(p) ==
    /\ pc[p] = "ackDelete"
    /\ Acknowledge(batch[p])
    /\ items' = [items EXCEPT ![p] = @ \ batch[p]]
    /\ batch' = [batch EXCEPT ![p] = {}]
    /\ Goto(p, "table")
    /\ UNCHANGED <<source, target, lease, todo, attempt, page, dropped, clock, faults>>

RowOf(i) == [key |-> i.key, gen |-> i.gen, row |-> local[i.key]]

(* Mutant: a row that is gone or archived is pushed as well. *)
SourceRowsOfAnyTier(I) == {RowOf(i) : i \in I}

(* source_rows: the rows of the entries I that are there and active, with  *)
(* the generations read before.                                            *)
SourceRows(I) == {RowOf(i) : i \in {j \in I : j.key \in active}}

(* batches: cut by number of rows, and by bytes.                           *)
IsBatching(B, rows) ==
    /\ UNION B = rows /\ {} \notin B
    /\ \A b \in B : Cardinality(b) <= BatchRows
    /\ \A b, c \in B : b # c => b \cap c = {}

ReadRows(p) ==
    /\ pc[p] = "table" /\ items[p] # {} /\ Deletes(p) = {}
    /\ \E B \in SUBSET SUBSET SourceRows(Upserts(p)) :
         /\ IsBatching(B, SourceRows(Upserts(p)))
         /\ todo' = [todo EXCEPT ![p] = B]
         /\ Goto(p, IF B = {} THEN "table" ELSE "apply")
    /\ items' = [items EXCEPT ![p] = @ \ Upserts(p)]
    /\ UNCHANGED <<source, outbox, target, lease, batch, attempt, page, dropped,
                   clock, faults>>

(* All tables are done: round the loop again, unless RUN_BUDGET is spent.  *)
NextRound(p) ==
    /\ pc[p] = "table" /\ items[p] = {}
    /\ \/ Goto(p, "renew") /\ UNCHANGED <<lease, items, todo, batch, attempt>>
       \/ EndRun(p) /\ Release(p)
    /\ UNCHANGED <<source, outbox, target, page, dropped, clock, faults>>

(* pending_batches.pop(), or the batch of the last attempt.                *)
Candidates(p) == IF batch[p] = {} THEN todo[p] ELSE {batch[p]}

(* The order in which apply_batch writes the rows: any, SELECT gives none. *)
Ranks(rows) ==
    {rank \in [KeysOf(rows) -> 1 .. Cardinality(rows)] :
       \A j, k \in KeysOf(rows) : j # k => rank[j] # rank[k]}

(* Foreign keys of the target: a row comes after those it references.      *)
Accepted(rows, rank) ==
    \A r \in rows :
      /\ ParentOf[r.key] # None => target[ParentOf[r.key]] # None
      /\ \A i \in r.row.refs :
           target[i] # None \/ (i \in KeysOf(rows) /\ rank[i] < rank[r.key])

(* Mutant: the natural key is not looked at. *)
DisplacedNever(rows, rank) == {}

(* Rows of the target that have the name a row of the batch brings, and    *)
(* are not themselves written before it.                                   *)
Displaced(rows, rank) ==
    {k \in Keys : target[k] # None /\ \E r \in rows :
       /\ SameName(r.key, k) /\ target[k].value = r.row.value
       /\ k \in KeysOf(rows) => rank[r.key] < rank[k]}

(* The row that is there when row has been written over old: the embedding *)
(* is written only if there is one.                                        *)
Over(old, row) ==
    IF row.vector # None \/ old = None THEN row ELSE [row EXCEPT !.vector = old.vector]

(* apply_batch, one transaction: rows one by one, each after those it      *)
(* displaces have been deleted.                                            *)
ApplyRows(rows, rank) ==
    LET gone == Displaced(rows, rank)
        left == Without(target, gone)
    IN  /\ target' = [k \in Keys |->
             IF k \in KeysOf(rows)
             THEN Over(left[k], (CHOOSE r \in rows : r.key = k).row)
             ELSE left[k]]
        /\ dropped' = (dropped \cup Touched(target, gone)) \ KeysOf(rows)

ApplyBatch(p) ==
    /\ pc[p] = "apply"
    /\ \E b \in Candidates(p) : \E rank \in Ranks(b) :
         /\ Accepted(b, rank) /\ ApplyRows(b, rank)
         /\ batch' = [batch EXCEPT ![p] = b]
    /\ Goto(p, "ack")
    /\ UNCHANGED <<source, outbox, lease, items, todo, attempt, page, clock, faults>>

(* The next batch; a spent budget leaves the rest of the table for later.  *)
Continue(p, B) ==
    \E C \in {B, {}} :
      /\ todo' = [todo EXCEPT ![p] = C]
      /\ batch' = [batch EXCEPT ![p] = {}]
      /\ attempt' = [attempt EXCEPT ![p] = 0]
      /\ Goto(p, IF C = {} THEN "table" ELSE "apply")

(* The batch fails.  It is tried again; after MAX_RETRIES it is split in   *)
(* two, and if it is a single row the run fails.                           *)
Retry(p, b) ==
    \/ /\ attempt[p] + 1 < MaxRetries
       /\ attempt' = [attempt EXCEPT ![p] = @ + 1]
       /\ batch' = [batch EXCEPT ![p] = b]
       /\ UNCHANGED <<pc, items, todo, lease>>
    \/ /\ attempt[p] + 1 >= MaxRetries /\ Cardinality(b) > 1
       /\ \E h \in SUBSET b :
            /\ Cardinality(h) = Cardinality(b) \div 2
            /\ Continue(p, (todo[p] \ {b}) \cup {h, b \ h})
       /\ UNCHANGED <<items, lease>>
    \/ /\ attempt[p] + 1 >= MaxRetries /\ Cardinality(b) <= 1
       /\ EndRun(p) /\ Release(p)

ApplyFails(p) ==
    /\ pc[p] = "apply"
    /\ \E b \in Candidates(p) : \E rank \in Ranks(b) :
         /\ Retry(p, b)
         /\ \/ ~Accepted(b, rank) /\ UNCHANGED <<target, dropped, faults>>
            \/ Fault /\ UNCHANGED <<target, dropped>>
            \/ Fault /\ Accepted(b, rank) /\ ApplyRows(b, rank)  \* the reply is lost
    /\ UNCHANGED <<source, outbox, page, clock>>

AcknowledgeBatch(p) ==
    /\ pc[p] = "ack"
    /\ Acknowledge(batch[p])
    /\ Continue(p, todo[p] \ {batch[p]})
    /\ UNCHANGED <<source, target, lease, items, page, dropped, clock, faults>>

(* A query fails or times out and `?` ends the run, or the process dies    *)
(* and leaves the lease as it is.                                          *)
RunFails(p) ==
    /\ pc[p] # "idle"
    /\ Fault
    /\ EndRun(p)
    /\ Release(p) \/ UNCHANGED lease
    /\ UNCHANGED <<source, outbox, target, page, dropped, clock>>

(* Ten minutes without a renewal.                                          *)
LeaseExpires ==
    /\ live
    /\ Fault
    /\ live' = FALSE
    /\ UNCHANGED <<source, outbox, target, owner, run, page, dropped, clock>>

-----------------------------------------------------------------------------
(* audit_page: read a page of one table, then compare and repair row by    *)
(* row.  The embedding is not part of what is compared.                    *)

ContentOf(row) == [value |-> row.value, refs |-> row.refs]

AuditRead ==
    /\ WithAudit /\ page = {}
    /\ \E K \in SUBSET active :
         /\ K # {} /\ \A j, k \in K : TableOf[j] = TableOf[k]
         /\ page' = {[key |-> k, content |-> ContentOf(local[k])] : k \in K}
    /\ UNCHANGED <<source, outbox, target, lease, run, dropped, clock, faults>>

SameHash(r) == target[r.key] # None /\ ContentOf(target[r.key]) = r.content

AuditRow ==
    /\ \E r \in page :
         /\ page' = page \ {r}
         /\ \/ SameHash(r) /\ UNCHANGED <<outbox, clock>>
            \/ ~SameHash(r) /\ Capture({r.key}, {r.key})
    /\ UNCHANGED <<source, target, lease, run, dropped, faults>>

-----------------------------------------------------------------------------

Application ==
    \E k \in Keys :
      \/ \E row \in MayHold[k], isActive \in BOOLEAN : WriteRow(k, row, isActive)
      \/ DeleteRow(k)

Push(p) ==
    \/ AcquireLease(p) \/ RenewLease(p) \/ LeaseLost(p) \/ ReadQueue(p) \/ QueueEmpty(p)
    \/ ArchiveAndDelete(p) \/ AcknowledgeDeletes(p) \/ ReadRows(p)
    \/ NextRound(p) \/ ApplyBatch(p) \/ ApplyFails(p) \/ AcknowledgeBatch(p)

Audit == AuditRead \/ AuditRow

Next ==
    \/ Application \/ Audit \/ LeaseExpires
    \/ \E p \in Pushers : Push(p) \/ RunFails(p)

Spec == Init /\ [][Next]_vars

(* A timer starts pushes and every statement returns or times out.         *)
Fairness == \A p \in Pushers : WF_vars(Push(p))

FairSpec == Spec /\ Fairness
=============================================================================
