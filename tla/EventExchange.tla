---------------------------- MODULE EventExchange ----------------------------
(***************************************************************************)
(* neon-sync: how devices exchange sync_meta.events through the target     *)
(* (push_event_batch, pull_events, bootstrap in bin/neon-sync.rs).         *)
(*                                                                         *)
(* Each device has a local database, one push and one pull at a time.      *)
(* Each statement or transaction on a database is one action, but for the  *)
(* transaction that publishes a batch: its inserts take their numbers one  *)
(* by one and become visible together.                                     *)
(***************************************************************************)
EXTENDS Naturals, FiniteSets, Sequences

CONSTANTS
    Devices,
    Keys,           \* the rows (table and key) that may exist
    None,           \* no row, no device, no event
    Legacy,         \* a row written before the triggers were installed
    LegacyRows,     \* <<device, key>> of such rows
    Excluded,       \* keys MEMORY_SYNC_INCLUDE/EXCLUDE keep from the target
    Limit,          \* DEFAULT_BATCH_ROWS
    MaxLag,         \* how many commits may overlap one transaction
    LeaseMayLapse,  \* may a transaction outlast the lease?
    MaxEvents,      \* bound on the captures
    MaxFaults       \* bound on the faults

Ops == {"upsert", "archive", "delete"}

(* id stands for event_id and logical_time, created for created_at: the    *)
(* time a transaction commits and the time it began, counted in captures.  *)
Event == [id : Nat \ {0}, created : Nat, device : Devices, key : Keys, op : Ops]

ASSUME ExchangeAssumption ==
    /\ None \notin Devices \cup Event
    /\ LegacyRows \subseteq Devices \X Keys
    /\ Excluded \subseteq Keys
    /\ Limit \in Nat \ {0} /\ MaxLag \in Nat
    /\ LeaseMayLapse \in BOOLEAN
    /\ MaxEvents \in Nat /\ MaxFaults \in Nat

VARIABLES
    clock,      \* how many events were captured, anywhere
    rows,       \* local rows: the event that wrote each, Legacy or None
    known,      \* local sync_meta.events
    unpushed,   \* those with pushed_at IS NULL
    baseline,   \* keys bootstrap_events has read and not yet turned to
    target,     \* sync_meta.events of the target, with neon_seq
    nextSeq,    \* its sequence
    holder,     \* the device with an unexpired lease
    pc,         \* where each push is
    out,        \* to_push
    todo,       \* events of it not yet inserted
    tx,         \* what its open transaction has inserted
    cursor,     \* cursors.neon_pull
    newest,     \* highest neon_seq of the page being pulled, 0 for no pull
    page,       \* its entries not yet turned to
    hand,       \* the event inserted and not yet applied
    replayed,   \* the events applied on each device, in order
    faults

ledger == <<rows, known, unpushed, baseline, clock>>
neon   == <<target, nextSeq>>
push   == <<pc, out, todo, tx>>
pull   == <<cursor, newest, page, hand, replayed>>
vars == <<ledger, neon, holder, push, pull, faults>>

Entry == [event : Event, seq : Nat \ {0}]
PC    == {"idle", "read", "renew", "insert", "stamp", "queue"}

TypeOK ==
    /\ clock \in Nat
    /\ rows \in [Devices -> [Keys -> Event \cup {None, Legacy}]]
    /\ known \in [Devices -> SUBSET Event]
    /\ unpushed \in [Devices -> SUBSET Event]
    /\ baseline \in [Devices -> SUBSET Keys]
    /\ target \in SUBSET Entry /\ nextSeq \in Nat \ {0}
    /\ holder \in Devices \cup {None}
    /\ pc \in [Devices -> PC]
    /\ out \in [Devices -> SUBSET Event] /\ todo \in [Devices -> SUBSET Event]
    /\ tx \in [Devices -> SUBSET Entry]
    /\ cursor \in [Devices -> Nat] /\ newest \in [Devices -> Nat]
    /\ page \in [Devices -> SUBSET Entry]
    /\ hand \in [Devices -> Event \cup {None}]
    /\ replayed \in [Devices -> Seq(Event)]
    /\ faults \in Nat

Init ==
    /\ clock = 0
    /\ rows = [d \in Devices |-> [k \in Keys |->
                 IF <<d, k>> \in LegacyRows THEN Legacy ELSE None]]
    /\ known = [d \in Devices |-> {}] /\ unpushed = [d \in Devices |-> {}]
    /\ baseline = [d \in Devices |-> {}]
    /\ target = {} /\ nextSeq = 1 /\ holder = None
    /\ pc = [d \in Devices |-> "idle"]
    /\ out = [d \in Devices |-> {}] /\ todo = [d \in Devices |-> {}]
    /\ tx = [d \in Devices |-> {}]
    /\ cursor = [d \in Devices |-> 0] /\ newest = [d \in Devices |-> 0]
    /\ page = [d \in Devices |-> {}] /\ hand = [d \in Devices |-> None]
    /\ replayed = [d \in Devices |-> <<>>]
    /\ faults = 0

Fault == faults < MaxFaults /\ faults' = faults + 1

EventsOf(entries) == {r.event : r \in entries}

(* The first of S, at most Limit of them, in the order of Rank.            *)
IsFirst(B, S, Rank(_)) ==
    /\ B \subseteq S
    /\ Cardinality(B) <= Limit
    /\ B # S => Cardinality(B) = Limit
    /\ \A e \in B, f \in S \ B : Rank(e) <= Rank(f)

-----------------------------------------------------------------------------
(* The local database: capture_change and bootstrap.                       *)

(* A row of sync_meta.events joins those of a device, unpushed.            *)
Capture(d, e) ==
    /\ clock < MaxEvents /\ clock' = clock + 1
    /\ known' = [known EXCEPT ![d] = @ \cup {e}]
    /\ unpushed' = [unpushed EXCEPT ![d] = @ \cup {e}]

(* created_at DEFAULT now() is the time the transaction began, so it may    *)
(* lie before the commits of others that overlap it.                       *)
Began == {t \in 0 .. clock : clock <= t + MaxLag}

IsArchived(row) == row \notin {None, Legacy} /\ row.op = "archive"

(* A writer changes or deletes a row; a change that leaves it in another   *)
(* tier than the active one is an archive.                                 *)
Write(d, k, op) ==
    /\ op # "upsert" => rows[d][k] # None
    /\ \E t \in Began :
         LET e == [id |-> clock + 1, created |-> t, device |-> d, key |-> k, op |-> op]
         IN  /\ Capture(d, e)
             /\ rows' = [rows EXCEPT ![d][k] = IF op = "delete" THEN None ELSE e]
    /\ UNCHANGED <<baseline, neon, holder, push, pull, faults>>

HasUpsert(d, k) == \E e \in known[d] : e.key = k /\ e.op = "upsert"

(* bootstrap_events: active rows without an upsert event, a page at a time. *)
BootstrapRead(d) ==
    /\ baseline[d] = {}
    /\ \E K \in SUBSET {k \in Keys : /\ rows[d][k] # None
                                     /\ ~IsArchived(rows[d][k])
                                     /\ ~HasUpsert(d, k)} :
         /\ K # {}
         /\ Cardinality(K) <= Limit
         /\ baseline' = [baseline EXCEPT ![d] = K]
    /\ UNCHANGED <<rows, known, unpushed, clock, neon, holder, push, pull, faults>>

(* The insert looks again; the payload is the row as it was read.          *)
BootstrapRow(d) ==
    /\ \E k \in baseline[d] :
         /\ baseline' = [baseline EXCEPT ![d] = @ \ {k}]
         /\ \/ HasUpsert(d, k) /\ UNCHANGED <<known, unpushed, clock>>
            \/ /\ ~HasUpsert(d, k)
               /\ Capture(d, [id |-> clock + 1, created |-> clock, device |-> d,
                              key |-> k, op |-> "upsert"])
    /\ UNCHANGED <<rows, neon, holder, push, pull, faults>>

-----------------------------------------------------------------------------
(* push_event_batch, within push_once.                                     *)

Goto(d, l) == pc' = [pc EXCEPT ![d] = l]

Release(d) == holder' = IF holder = d THEN None ELSE holder

(* What push_event_batch holds is gone; run_queue comes next.              *)
EndBatch(d, l) ==
    /\ Goto(d, l)
    /\ out' = [out EXCEPT ![d] = {}]
    /\ todo' = [todo EXCEPT ![d] = {}]
    /\ tx' = [tx EXCEPT ![d] = {}]

(* Mutant: the lease is taken from its owner. *)
AcquireLeaseOfOther(d) ==
    /\ pc[d] = "idle"
    /\ holder' = d
    /\ Goto(d, "read")
    /\ UNCHANGED <<ledger, neon, out, todo, tx, pull, faults>>

(* acquire_target_lease                                                    *)
AcquireLease(d) ==
    /\ pc[d] = "idle"
    /\ holder \in {None, d}
    /\ holder' = d
    /\ Goto(d, "read")
    /\ UNCHANGED <<ledger, neon, out, todo, tx, pull, faults>>

(* skip_ids: the events of excluded categories.                            *)
Unshared(B) == {e \in B : e.key \in Excluded}

(* to_push, unless nothing is left.                                        *)
TakeAllowed(d, B) ==
    /\ out' = [out EXCEPT ![d] = B \ Unshared(B)]
    /\ Goto(d, IF B = Unshared(B) THEN "queue" ELSE "renew")

(* Mutant: what is read is stamped at once. *)
ReadAndStamp(d) ==
    /\ pc[d] = "read" /\ unpushed[d] # {}
    /\ \E B \in SUBSET unpushed[d] :
         /\ IsFirst(B, unpushed[d], LAMBDA e : e.created)
         /\ TakeAllowed(d, B)
         /\ unpushed' = [unpushed EXCEPT ![d] = @ \ B]
    /\ UNCHANGED <<rows, known, baseline, clock, neon, holder, todo, tx, pull, faults>>

(* SELECT ... WHERE pushed_at IS NULL ORDER BY created_at LIMIT 25, and    *)
(* the UPDATE that stamps what goes nowhere: nothing but this push looks   *)
(* at those events in between.                                             *)
ReadUnpushed(d) ==
    /\ pc[d] = "read" /\ unpushed[d] # {}
    /\ \E B \in SUBSET unpushed[d] :
         /\ IsFirst(B, unpushed[d], LAMBDA e : e.created)
         /\ TakeAllowed(d, B)
         /\ unpushed' = [unpushed EXCEPT ![d] = @ \ Unshared(B)]
    /\ UNCHANGED <<rows, known, baseline, clock, neon, holder, todo, tx, pull, faults>>

NothingToPush(d) ==
    /\ pc[d] = "read" /\ unpushed[d] = {}
    /\ EndBatch(d, "queue")
    /\ UNCHANGED <<ledger, neon, holder, pull, faults>>

(* renew_target_lease, then BEGIN.                                         *)
RenewLease(d) ==
    /\ pc[d] = "renew"
    /\ \/ /\ holder = d
          /\ todo' = [todo EXCEPT ![d] = out[d]]
          /\ Goto(d, "insert")
          /\ UNCHANGED <<out, tx, holder>>
       \/ holder # d /\ EndBatch(d, "idle") /\ UNCHANGED holder
    /\ UNCHANGED <<ledger, neon, pull, faults>>

(* Mutant: the batch is inserted in any order. *)
InsertInAnyOrder(d) ==
    /\ pc[d] = "insert"
    /\ \E e \in todo[d] :
         /\ todo' = [todo EXCEPT ![d] = @ \ {e}]
         /\ tx' = [tx EXCEPT ![d] =
              @ \cup {[event |-> x, seq |-> nextSeq] : x \in {e} \ EventsOf(target)}]
    /\ nextSeq' = nextSeq + 1
    /\ UNCHANGED <<ledger, target, holder, pc, out, pull, faults>>

(* INSERT ... ON CONFLICT(event_id) DO NOTHING, in the order of out; the   *)
(* number is drawn even when there is a conflict.                          *)
InsertEvent(d) ==
    /\ pc[d] = "insert"
    /\ \E e \in todo[d] :
         /\ \A f \in todo[d] : e.created <= f.created
         /\ todo' = [todo EXCEPT ![d] = @ \ {e}]
         /\ tx' = [tx EXCEPT ![d] =
              @ \cup {[event |-> x, seq |-> nextSeq] : x \in {e} \ EventsOf(target)}]
    /\ nextSeq' = nextSeq + 1
    /\ UNCHANGED <<ledger, target, holder, pc, out, pull, faults>>

CommitBatch(d) ==
    /\ pc[d] = "insert" /\ todo[d] = {}
    /\ target' = target \cup tx[d]
    /\ tx' = [tx EXCEPT ![d] = {}]
    /\ Goto(d, "stamp")
    /\ UNCHANGED <<ledger, nextSeq, holder, out, todo, pull, faults>>

(* UPDATE ... SET pushed_at = now()                                        *)
StampPushed(d) ==
    /\ pc[d] = "stamp"
    /\ unpushed' = [unpushed EXCEPT ![d] = @ \ out[d]]
    /\ EndBatch(d, "queue")
    /\ UNCHANGED <<rows, known, baseline, clock, neon, holder, pull, faults>>

(* run_queue (OutboxSync) is over: release_target_lease                    *)
ReleaseLease(d) ==
    /\ pc[d] = "queue"
    /\ Release(d)
    /\ Goto(d, "idle")
    /\ UNCHANGED <<ledger, neon, out, todo, tx, pull, faults>>

(* A statement fails or times out, or the process dies: the transaction is *)
(* rolled back, unless only the reply to COMMIT was lost.                  *)
PushFails(d) ==
    /\ pc[d] # "idle"
    /\ Fault
    /\ EndBatch(d, "idle")
    /\ Release(d) \/ UNCHANGED holder
    /\ \/ UNCHANGED target
       \/ pc[d] = "insert" /\ todo[d] = {} /\ target' = target \cup tx[d]
    /\ UNCHANGED <<ledger, nextSeq, pull>>

(* Ten minutes after the renewal.  The transaction that follows it has     *)
(* ended by then (25 inserts and a COMMIT of 20 seconds at the most),      *)
(* unless the machine slept; the rest of the push may take any time.       *)
LeaseExpires ==
    /\ holder # None
    /\ pc[holder] = "insert" => LeaseMayLapse
    /\ holder' = None
    /\ UNCHANGED <<ledger, neon, push, pull, faults>>

-----------------------------------------------------------------------------
(* pull_events.                                                            *)

(* SELECT ... WHERE neon_seq > cursor ORDER BY neon_seq LIMIT 25           *)
PullRead(d) ==
    LET unread == {r \in target : r.seq > cursor[d]}
    IN  /\ newest[d] = 0
        /\ \E B \in SUBSET unread : \E last \in B :
             /\ IsFirst(B, unread, LAMBDA r : r.seq)
             /\ \A r \in B : r.seq <= last.seq
             /\ page' = [page EXCEPT ![d] = B]
             /\ newest' = [newest EXCEPT ![d] = last.seq]
        /\ UNCHANGED <<ledger, neon, holder, push, cursor, hand, replayed, faults>>

(* The next entry of the page is inserted locally, marked as pushed; what  *)
(* was there already is not applied, and neither is an archive or delete.  *)
(* Mutants: applied although known, or applied for any other operation.    *)
AppliesKnown(d, e) == e.op = "upsert"
AppliesOthers(d, e) == e \notin known[d] /\ e.op # "upsert"
Applies(d, e) == e \notin known[d] /\ e.op = "upsert"

PullInsert(d) ==
    /\ hand[d] = None
    /\ \E r \in page[d] :
         /\ \A s \in page[d] : r.seq <= s.seq
         /\ page' = [page EXCEPT ![d] = @ \ {r}]
         /\ known' = [known EXCEPT ![d] = @ \cup {r.event}]
         /\ hand' = [hand EXCEPT ![d] = IF Applies(d, r.event) THEN r.event ELSE None]
    /\ UNCHANGED <<rows, unpushed, baseline, clock, neon, holder, push, cursor,
                   newest, replayed, faults>>

(* Mutant: the hand is emptied first. *)
ApplyFromEmptyHand(d) ==
    /\ hand[d] # None
    /\ hand' = [hand EXCEPT ![d] = None]
    /\ rows' = [rows EXCEPT ![d][hand[d].key] = hand[d]]
    /\ replayed' = [replayed EXCEPT ![d] = Append(@, hand'[d])]
    /\ UNCHANGED <<known, unpushed, baseline, clock, neon, holder, push, cursor,
                   newest, page, faults>>

(* apply_remote_event, a transaction of its own that captures nothing.     *)
PullApply(d) ==
    /\ hand[d] # None
    /\ rows' = [rows EXCEPT ![d][hand[d].key] = hand[d]]
    /\ replayed' = [replayed EXCEPT ![d] = Append(@, hand[d])]
    /\ hand' = [hand EXCEPT ![d] = None]
    /\ UNCHANGED <<known, unpushed, baseline, clock, neon, holder, push, cursor,
                   newest, page, faults>>

(* Mutant: the cursor goes to the end of the target's log. *)
MoveCursorToEnd(d) ==
    /\ newest[d] > 0 /\ page[d] = {} /\ hand[d] = None
    /\ \E r \in target :
         /\ \A s \in target : s.seq <= r.seq
         /\ cursor' = [cursor EXCEPT ![d] = r.seq]
    /\ newest' = [newest EXCEPT ![d] = 0]
    /\ UNCHANGED <<ledger, neon, holder, push, page, hand, replayed, faults>>

MoveCursor(d) ==
    /\ newest[d] > 0 /\ page[d] = {} /\ hand[d] = None
    /\ cursor' = [cursor EXCEPT ![d] = newest[d]]
    /\ newest' = [newest EXCEPT ![d] = 0]
    /\ UNCHANGED <<ledger, neon, holder, push, page, hand, replayed, faults>>

(* A pull fails or dies; the cursor stays.                                 *)
PullFails(d) ==
    /\ newest[d] > 0
    /\ Fault
    /\ newest' = [newest EXCEPT ![d] = 0]
    /\ page' = [page EXCEPT ![d] = {}]
    /\ hand' = [hand EXCEPT ![d] = None]
    /\ UNCHANGED <<ledger, neon, holder, push, cursor, replayed>>

-----------------------------------------------------------------------------

Local(d) ==
    \/ \E k \in Keys, op \in Ops : Write(d, k, op)
    \/ BootstrapRead(d) \/ BootstrapRow(d)

Push(d) ==
    \/ AcquireLease(d) \/ ReadUnpushed(d) \/ NothingToPush(d)
    \/ RenewLease(d) \/ InsertEvent(d) \/ CommitBatch(d) \/ StampPushed(d)
    \/ ReleaseLease(d)

Pull(d) == PullRead(d) \/ PullInsert(d) \/ PullApply(d) \/ MoveCursor(d)

Next ==
    \/ \E d \in Devices : Local(d) \/ Push(d) \/ PushFails(d) \/ Pull(d) \/ PullFails(d)
    \/ LeaseExpires

Spec == Init /\ [][Next]_vars
=============================================================================
