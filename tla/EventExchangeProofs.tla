------------------------- MODULE EventExchangeProofs -------------------------
(***************************************************************************)
(* For any devices, rows, page size and number of events and faults:       *)
(* nothing captured goes unpublished and no event is applied twice; and as *)
(* long as no transaction outlasts the lease, neon_seq is commit order,    *)
(* cursors are safe, events are applied in order, and the exchange         *)
(* implements SharedLog.                                                   *)
(***************************************************************************)
EXTENDS EventExchangeProps, TLAPS

(* What a device has captured and not pushed is its own.                   *)
Events(d) ==
    /\ \A e \in known[d] : e.id <= clock /\ e.created < e.id
    /\ unpushed[d] \subseteq known[d]
    /\ \A e \in unpushed[d] : e.device = d

(* A push on its way: each of its events waits locally, and is still to be *)
(* inserted, inserted, or on the target.                                   *)
Batch(d) ==
    /\ out[d] \subseteq unpushed[d]
    /\ \A e \in out[d] : e.key \notin Excluded
    /\ todo[d] \subseteq out[d] /\ EventsOf(tx[d]) \subseteq out[d]
    /\ pc[d] = "insert" =>
         out[d] \subseteq todo[d] \cup EventsOf(tx[d]) \cup EventsOf(target)
    /\ pc[d] # "insert" => tx[d] = {} /\ todo[d] = {}
    /\ pc[d] = "stamp" => out[d] \subseteq EventsOf(target)
    /\ \A r \in tx[d] : r.event \notin todo[d] /\ r.event \notin EventsOf(target)

(* Entries with one number or one event are one, committed or not.         *)
Entries == target \cup UNION {tx[d] : d \in Devices}

Ledger ==
    /\ \A r \in Entries : r.seq < nextSeq
    /\ \A r, s \in Entries : r.seq = s.seq \/ r.event = s.event => r = s
    /\ \A r \in target : r.event \in known[r.event.device]

Replayed(d) == {replayed[d][i] : i \in DOMAIN replayed[d]}

(* Events applied, and the one about to be.                                *)
Turned(d) == Replayed(d) \cup ({hand[d]} \ {None})

Applied(d) ==
    /\ page[d] \subseteq target
    /\ \A e \in Turned(d) : e \in known[d] /\ e \in EventsOf(target) /\ e.device # d
    /\ hand[d] \notin Replayed(d) /\ None \notin Replayed(d)
    /\ \A i, j \in DOMAIN replayed[d] : i # j => replayed[d][i] # replayed[d][j]

IInv ==
    /\ TypeOK
    /\ NothingUnpublished
    /\ Ledger
    /\ \A d \in Devices : Events(d) /\ Batch(d) /\ Applied(d)

(* Only the holder of the lease inserts, above what is committed.          *)
Serial(d) ==
    /\ pc[d] = "insert" => holder = d
    /\ \A r \in tx[d], s \in target : s.seq < r.seq

(* A pull on its way: up to its newest entry, what is unknown is at hand.  *)
Reading(d) ==
    /\ \A r \in page[d] : r.seq <= newest[d]
    /\ newest[d] = 0 => page[d] = {} /\ hand[d] = None
    /\ newest[d] # 0 => cursor[d] < newest[d] /\ \E r \in target : r.seq = newest[d]
    /\ cursor[d] # 0 => \E r \in target : r.seq = cursor[d]
    /\ \A r \in target : r.seq <= newest[d] => r \in page[d] \/ r.event \in known[d]
    /\ \A r \in target : r.seq <= cursor[d] => r.event \in known[d]

JInv == IInv /\ \A d \in Devices : Serial(d) /\ Reading(d)

(* The order of the entries a device has on the target or in its           *)
(* transaction, and of those it still has to push.                         *)
Pushed(d) == {r \in target \cup tx[d] : r.event.device = d}

PushOrder(d) ==
    /\ \A r, s \in Pushed(d) : r.seq < s.seq => r.event.created < s.event.id
    /\ \A r \in Pushed(d), f \in unpushed[d] :
         f \notin EventsOf(Pushed(d)) /\ f.key \notin Excluded => r.event.created < f.id
    /\ \A e \in out[d], f \in unpushed[d] :
         f \notin out[d] /\ f.key \notin Excluded => e.created < f.id

PullOrder(d) ==
    \A r, s \in target :
      /\ r.event \in Turned(d) /\ s.event \notin known[d] => r.seq < s.seq
      /\ r.event \in Replayed(d) /\ s.event = hand[d] => r.seq < s.seq
      /\ \A i, j \in DOMAIN replayed[d] :
           i < j /\ r.event = replayed[d][i] /\ s.event = replayed[d][j] => r.seq < s.seq

OInv == JInv /\ \A d \in Devices : PushOrder(d) /\ PullOrder(d)

USE DEF ledger, neon, push, pull

-----------------------------------------------------------------------------
(* Type correctness.                                                       *)

LEMMA InitType == Init => TypeOK
BY DEF Init, TypeOK, PC

LEMMA LocalType ==
    ASSUME TypeOK, NEW d \in Devices, Local(d)
    PROVE  TypeOK'
<1>1. ASSUME NEW k \in Keys, NEW op \in Ops, Write(d, k, op) PROVE TypeOK'
  <2>1. PICK t \in Began :
          LET e == [id |-> clock + 1, created |-> t, device |-> d, key |-> k, op |-> op]
          IN  /\ Capture(d, e)
              /\ rows' = [rows EXCEPT ![d][k] = IF op = "delete" THEN None ELSE e]
    BY <1>1 DEF Write
  <2> DEFINE e == [id |-> clock + 1, created |-> t, device |-> d, key |-> k, op |-> op]
  <2>2. e \in Event
    BY DEF TypeOK, Event, Began
  <2>3. Capture(d, e) /\ rows' = [rows EXCEPT ![d][k] = IF op = "delete" THEN None ELSE e]
    BY <2>1
  <2> HIDE DEF e
  <2> QED
    BY <1>1, <2>2, <2>3 DEF Write, Capture, TypeOK
<1>2. CASE BootstrapRead(d)
  BY <1>2 DEF BootstrapRead, TypeOK
<1>3. CASE BootstrapRow(d)
  <2>1. PICK k \in baseline[d] :
          /\ baseline' = [baseline EXCEPT ![d] = @ \ {k}]
          /\ \/ UNCHANGED <<known, unpushed, clock>>
             \/ Capture(d, [id |-> clock + 1, created |-> clock, device |-> d,
                            key |-> k, op |-> "upsert"])
    BY <1>3 DEF BootstrapRow
  <2> DEFINE e == [id |-> clock + 1, created |-> clock, device |-> d,
                   key |-> k, op |-> "upsert"]
  <2>2. e \in Event
    BY DEF TypeOK, Event, Ops
  <2>3. UNCHANGED <<known, unpushed, clock>> \/ Capture(d, e)
    BY <2>1
  <2> HIDE DEF e
  <2>4. baseline' \in [Devices -> SUBSET Keys]
    BY <2>1 DEF TypeOK
  <2>5. CASE UNCHANGED <<known, unpushed, clock>>
    BY <1>3, <2>4, <2>5 DEF BootstrapRow, TypeOK
  <2>6. CASE Capture(d, e)
    BY <1>3, <2>2, <2>4, <2>6 DEF BootstrapRow, Capture, TypeOK
  <2> QED
    BY <2>3, <2>5, <2>6
<1> QED
  BY <1>1, <1>2, <1>3 DEF Local

LEMMA PushType ==
    ASSUME TypeOK, NEW d \in Devices, Push(d)
    PROVE  TypeOK'
<1>1. CASE AcquireLease(d)
  BY <1>1 DEF AcquireLease, Goto, TypeOK, PC
<1>2. CASE ReadUnpushed(d)
  BY <1>2 DEF ReadUnpushed, TakeAllowed, Goto, Unshared, TypeOK, PC
<1>3. CASE NothingToPush(d)
  BY <1>3 DEF NothingToPush, EndBatch, Goto, TypeOK, PC
<1>4. CASE RenewLease(d)
  BY <1>4 DEF RenewLease, EndBatch, Goto, TypeOK, PC
<1>5. CASE InsertEvent(d)
  <2>1. PICK e \in todo[d] :
          /\ todo' = [todo EXCEPT ![d] = @ \ {e}]
          /\ tx' = [tx EXCEPT ![d] =
               @ \cup {[event |-> x, seq |-> nextSeq] : x \in {e} \ EventsOf(target)}]
    BY <1>5 DEF InsertEvent
  <2>2. {[event |-> x, seq |-> nextSeq] : x \in {e} \ EventsOf(target)} \subseteq Entry
    BY DEF TypeOK, Entry
  <2> QED
    BY <1>5, <2>1, <2>2 DEF InsertEvent, TypeOK
<1>6. CASE CommitBatch(d)
  BY <1>6 DEF CommitBatch, Goto, TypeOK, PC
<1>7. CASE StampPushed(d)
  BY <1>7 DEF StampPushed, EndBatch, Goto, TypeOK, PC
<1>8. CASE ReleaseLease(d)
  BY <1>8 DEF ReleaseLease, Release, Goto, TypeOK, PC
<1> QED
  BY <1>1, <1>2, <1>3, <1>4, <1>5, <1>6, <1>7, <1>8 DEF Push

LEMMA PullType ==
    ASSUME TypeOK, NEW d \in Devices, Pull(d)
    PROVE  TypeOK'
<1>1. CASE PullRead(d)
  BY <1>1 DEF PullRead, TypeOK, Entry
<1>2. CASE PullInsert(d)
  BY <1>2 DEF PullInsert, TypeOK, Entry
<1>3. CASE PullApply(d)
  <2>1. hand[d] \in Event
    BY <1>3 DEF PullApply, TypeOK
  <2>2. hand[d].key \in Keys
    BY <2>1 DEF Event
  <2>3. Append(replayed[d], hand[d]) \in Seq(Event)
    BY <2>1 DEF TypeOK
  <2> QED
    BY <1>3, <2>1, <2>2, <2>3 DEF PullApply, TypeOK
<1>4. CASE MoveCursor(d)
  BY <1>4 DEF MoveCursor, TypeOK
<1> QED
  BY <1>1, <1>2, <1>3, <1>4 DEF Pull

LEMMA FaultType ==
    ASSUME TypeOK, NEW d \in Devices, PushFails(d) \/ PullFails(d) \/ LeaseExpires
    PROVE  TypeOK'
<1>1. CASE PushFails(d)
  BY <1>1 DEF PushFails, EndBatch, Release, Goto, Fault, TypeOK, PC
<1>2. CASE PullFails(d)
  BY <1>2 DEF PullFails, Fault, TypeOK
<1>3. CASE LeaseExpires
  BY <1>3 DEF LeaseExpires, TypeOK
<1> QED
  BY <1>1, <1>2, <1>3

LEMMA NextType == TypeOK /\ [Next]_vars => TypeOK'
<1> SUFFICES ASSUME TypeOK, [Next]_vars PROVE TypeOK'
  OBVIOUS
<1>1. CASE LeaseExpires
  BY <1>1 DEF LeaseExpires, TypeOK
<1>2. CASE UNCHANGED vars
  BY <1>2 DEF vars, TypeOK
<1> QED
  BY <1>1, <1>2, LocalType, PushType, PullType, FaultType DEF Next

(* Every state is well-typed: what the variables hold is what the tables    *)
(* and the local variables of neon-sync can hold.                          *)
THEOREM TypeCorrect == Spec => []TypeOK
BY InitType, NextType, PTL DEF Spec

-----------------------------------------------------------------------------
(* Nothing unpublished, nothing applied twice.                             *)

LEMMA InitIInv == Init => IInv
<1> SUFFICES ASSUME Init PROVE IInv
  OBVIOUS
<1>1. TypeOK
  BY InitType
<1>2. NothingUnpublished /\ Ledger
  BY DEF Init, NothingUnpublished, Ledger, Entries
<1>3. ASSUME NEW d \in Devices PROVE Events(d) /\ Batch(d) /\ Applied(d)
  <2>1. Events(d)
    BY DEF Init, Events
  <2>2. Batch(d)
    BY DEF Init, Batch, EventsOf
  <2>3. Replayed(d) = {} /\ Turned(d) = {}
    BY DEF Init, Replayed, Turned
  <2> QED
    BY <2>1, <2>2, <2>3 DEF Init, Applied
<1> QED
  BY <1>1, <1>2, <1>3 DEF IInv

(* Steps that change neither events nor what was done with them.           *)
LEMMA QuietIInv ==
    ASSUME IInv, TypeOK', UNCHANGED <<known, unpushed, clock, neon, push, hand, replayed>>,
           \A c \in Devices : page'[c] \subseteq target
    PROVE  IInv'
<1>1. NothingUnpublished' /\ Ledger'
  BY DEF IInv, NothingUnpublished, Ledger, Entries, EventsOf
<1>2. ASSUME NEW c \in Devices PROVE (Events(c) /\ Batch(c) /\ Applied(c))'
  <2>1. Events(c)' /\ Batch(c)'
    BY DEF IInv, Events, Batch, EventsOf
  <2>2. Turned(c)' = Turned(c) /\ Replayed(c)' = Replayed(c)
    BY DEF Turned, Replayed
  <2>3. EventsOf(target)' = EventsOf(target)
    BY DEF EventsOf
  <2> QED
    BY <2>1, <2>2, <2>3 DEF IInv, Applied
<1> QED
  BY <1>1, <1>2 DEF IInv

(* A capture adds an event of the device's own, newer than all of them.    *)
LEMMA CaptureIInv ==
    ASSUME IInv, TypeOK', NEW d \in Devices, NEW e \in Event, Capture(d, e),
           e.id = clock + 1, e.created < e.id, e.device = d,
           UNCHANGED <<neon, push, pull>>
    PROVE  IInv'
<1>1. /\ known' = [known EXCEPT ![d] = @ \cup {e}]
      /\ unpushed' = [unpushed EXCEPT ![d] = @ \cup {e}]
      /\ clock' = clock + 1
  BY DEF Capture
<1>2. \A c \in Devices : known[c] \subseteq known'[c] /\ unpushed[c] \subseteq unpushed'[c]
  BY <1>1 DEF IInv, TypeOK
<1>3. \A c \in Devices : /\ known'[c] = IF c = d THEN known[d] \cup {e} ELSE known[c]
                         /\ unpushed'[c] = IF c = d THEN unpushed[d] \cup {e} ELSE unpushed[c]
  BY <1>1 DEF IInv, TypeOK
<1>4. NothingUnpublished'
  BY <1>3 DEF IInv, NothingUnpublished, EventsOf
<1>5. Ledger'
  <2>1. Entries' = Entries /\ target' = target /\ nextSeq' = nextSeq
    BY DEF Entries
  <2>2. \A r \in target : r.event.device \in Devices
    BY DEF IInv, TypeOK, Entry, Event
  <2> QED
    BY <1>2, <2>1, <2>2 DEF IInv, Ledger
<1>6. ASSUME NEW c \in Devices PROVE (Events(c) /\ Batch(c) /\ Applied(c))'
  <2>1. Events(c) /\ Batch(c) /\ Applied(c)
    BY DEF IInv
  <2>2. known[c] \subseteq Event /\ clock \in Nat
    BY DEF IInv, TypeOK
  <2>3. Events(c)'
    BY <1>1, <1>3, <2>1, <2>2 DEF Events, Event
  <2>4. Batch(c)'
    BY <1>2, <2>1 DEF Batch, EventsOf
  <2>5. Turned(c)' = Turned(c) /\ Replayed(c)' = Replayed(c)
    BY DEF Turned, Replayed
  <2> QED
    BY <1>2, <2>1, <2>3, <2>4, <2>5 DEF Applied, EventsOf
<1> QED
  BY <1>4, <1>5, <1>6 DEF IInv

LEMMA LocalIInv ==
    ASSUME IInv, TypeOK', NEW d \in Devices, Local(d)
    PROVE  IInv'
<1> USE DEF IInv
<1>1. ASSUME NEW k \in Keys, NEW op \in Ops, Write(d, k, op) PROVE IInv'
  <2>1. PICK t \in Began :
          Capture(d, [id |-> clock + 1, created |-> t, device |-> d, key |-> k, op |-> op])
    BY <1>1 DEF Write
  <2> DEFINE e == [id |-> clock + 1, created |-> t, device |-> d, key |-> k, op |-> op]
  <2>2. e \in Event /\ e.id = clock + 1 /\ e.created < e.id /\ e.device = d
    <3>1. clock \in Nat /\ t \in Nat /\ t <= clock
      BY DEF TypeOK, Began
    <3>2. e \in Event
      BY <3>1 DEF Event
    <3> QED
      BY <3>1, <3>2
  <2>3. Capture(d, e) /\ UNCHANGED <<neon, push, pull>>
    BY <1>1, <2>1 DEF Write
  <2> HIDE DEF e
  <2> QED
    BY <2>2, <2>3, CaptureIInv
<1>2. CASE UNCHANGED <<known, unpushed, clock, neon, push, pull>>
  BY <1>2, QuietIInv DEF Applied
<1>3. CASE BootstrapRow(d)
  <2>1. PICK k \in baseline[d] :
          \/ UNCHANGED <<known, unpushed, clock>>
          \/ Capture(d, [id |-> clock + 1, created |-> clock, device |-> d,
                         key |-> k, op |-> "upsert"])
    BY <1>3 DEF BootstrapRow
  <2> DEFINE e == [id |-> clock + 1, created |-> clock, device |-> d,
                   key |-> k, op |-> "upsert"]
  <2>2. e \in Event /\ e.id = clock + 1 /\ e.created < e.id /\ e.device = d
    <3>1. clock \in Nat /\ k \in Keys
      BY DEF TypeOK
    <3>2. e \in Event
      BY <3>1 DEF Event, Ops
    <3> QED
      BY <3>1, <3>2
  <2>3. UNCHANGED <<known, unpushed, clock>> \/ Capture(d, e)
    BY <2>1
  <2>4. UNCHANGED <<neon, push, pull>>
    BY <1>3 DEF BootstrapRow
  <2> HIDE DEF e
  <2>5. CASE UNCHANGED <<known, unpushed, clock>>
    BY <1>2, <2>4, <2>5
  <2> QED
    BY <2>2, <2>3, <2>4, <2>5, CaptureIInv
<1>4. CASE BootstrapRead(d)
  BY <1>2, <1>4 DEF BootstrapRead
<1> QED
  BY <1>1, <1>3, <1>4 DEF Local

(* What a push does not touch, and what others hold.                       *)
LEMMA OthersIInv ==
    ASSUME IInv, NEW c \in Devices,
           UNCHANGED <<known, clock, page, hand, replayed>>, target \subseteq target',
           unpushed'[c] \subseteq unpushed[c]
    PROVE  Events(c)' /\ Applied(c)'
<1>1. Events(c) /\ Applied(c)
  BY DEF IInv
<1>2. Events(c)'
  BY <1>1 DEF Events
<1>3. Turned(c)' = Turned(c) /\ Replayed(c)' = Replayed(c)
  BY DEF Turned, Replayed
<1> QED
  BY <1>1, <1>2, <1>3 DEF Applied, EventsOf

(* A push between two batches, or one that gives its batch up or ends it.  *)
LEMMA EndBatchIInv ==
    ASSUME IInv, TypeOK', NEW d \in Devices, NEW l \in {"idle", "queue"}, EndBatch(d, l),
           UNCHANGED <<rows, known, baseline, clock, target, nextSeq, pull>>,
           \A c \in Devices : /\ unpushed'[c] \subseteq unpushed[c]
                              /\ unpushed[c] \ unpushed'[c] \subseteq EventsOf(target)
                              /\ c # d => unpushed'[c] = unpushed[c]
    PROVE  IInv'
<1>1. /\ pc' = [pc EXCEPT ![d] = l]
      /\ out' = [out EXCEPT ![d] = {}]
      /\ todo' = [todo EXCEPT ![d] = {}]
      /\ tx' = [tx EXCEPT ![d] = {}]
  BY DEF EndBatch, Goto
<1> USE DEF IInv
<1>2. \A c \in Devices : tx'[c] \subseteq tx[c]
  BY <1>1 DEF TypeOK
<1>3. NothingUnpublished'
  <2>1. EventsOf(target)' = EventsOf(target) /\ known' = known
    BY DEF EventsOf
  <2> QED
    BY <2>1 DEF NothingUnpublished
<1>4. Ledger'
  <2>1. Entries' \subseteq Entries
    BY <1>2 DEF Entries
  <2> QED
    BY <2>1 DEF Ledger
<1>5. Batch(d)'
  BY <1>1 DEF Batch, TypeOK, EventsOf
<1>6. ASSUME NEW c \in Devices, c # d PROVE Batch(c)'
  <2>1. /\ pc'[c] = pc[c] /\ out'[c] = out[c] /\ todo'[c] = todo[c] /\ tx'[c] = tx[c]
    BY <1>1, <1>6 DEF TypeOK
  <2>2. Batch(c) /\ unpushed'[c] = unpushed[c] /\ target' = target
    BY <1>6
  <2> HIDE DEF IInv
  <2> QED
    BY <2>1, <2>2 DEF Batch, EventsOf
<1> QED
  BY <1>2, <1>3, <1>4, <1>5, <1>6, OthersIInv

LEMMA GiveUpIInv ==
    ASSUME IInv, TypeOK', NEW d \in Devices, NEW l \in {"idle", "queue"}, EndBatch(d, l),
           UNCHANGED <<rows, known, unpushed, baseline, clock, target, nextSeq, pull>>
    PROVE  IInv'
BY EndBatchIInv

LEMMA InsertIInv ==
    ASSUME IInv, TypeOK', NEW d \in Devices, InsertEvent(d)
    PROVE  IInv'
<1> USE DEF IInv
<1>1. PICK e \in todo[d] :
        /\ todo' = [todo EXCEPT ![d] = @ \ {e}]
        /\ tx' = [tx EXCEPT ![d] =
             @ \cup {[event |-> x, seq |-> nextSeq] : x \in {e} \ EventsOf(target)}]
  BY DEF InsertEvent
<1> DEFINE new == {[event |-> x, seq |-> nextSeq] : x \in {e} \ EventsOf(target)}
<1>2. /\ nextSeq' = nextSeq + 1 /\ pc[d] = "insert"
      /\ UNCHANGED <<ledger, target, holder, pc, out, pull, faults>>
  BY DEF InsertEvent
<1>3. /\ todo'[d] = todo[d] \ {e} /\ tx'[d] = tx[d] \cup new
      /\ \A c \in Devices : c # d => todo'[c] = todo[c] /\ tx'[c] = tx[c]
  BY <1>1 DEF TypeOK
<1>4. \A r \in new : r.event = e /\ r.seq = nextSeq /\ e \notin EventsOf(target)
  OBVIOUS
<1>5. NothingUnpublished'
  BY <1>2 DEF NothingUnpublished, EventsOf
<1>6. \A c \in Devices : \A r \in tx[c] : r.event.device = c
  BY DEF Batch, Events, EventsOf
<1>7. e.device = d
  BY DEF Batch, Events
<1>8. \A r \in Entries, s \in new : r.seq < s.seq /\ r.event # s.event
  <2>1. \A r \in Entries : r.seq < nextSeq
    BY DEF Ledger
  <2>2. \A r \in tx[d] : r.event # e
    BY DEF Batch
  <2>3. \A c \in Devices : \A r \in tx[c] : r.event # e
    BY <1>6, <1>7, <2>2
  <2>4. \A r \in target : e \notin EventsOf(target) => r.event # e
    BY DEF EventsOf
  <2> QED
    BY <1>4, <2>1, <2>3, <2>4 DEF Entries
<1>9. Ledger'
  <2>1. Entries' = Entries \cup new
    BY <1>2, <1>3 DEF Entries
  <2>2. \A r \in Entries : r.seq \in Nat
    BY DEF Entries, TypeOK, Entry
  <2>3. nextSeq \in Nat
    BY DEF TypeOK
  <2>4. \A r \in Entries' : r.seq < nextSeq'
    BY <1>2, <1>4, <2>1, <2>2, <2>3 DEF Ledger
  <2>5. \A r, s \in new : r = s
    OBVIOUS
  <2>6. \A r, s \in Entries' : r.seq = s.seq \/ r.event = s.event => r = s
    BY <1>8, <2>1, <2>2, <2>5 DEF Ledger
  <2> QED
    BY <1>2, <2>4, <2>6 DEF Ledger
<1>10. Batch(d)'
  <2>1. Batch(d)
    OBVIOUS
  <2>2. EventsOf(tx[d] \cup new) = EventsOf(tx[d]) \cup ({e} \ EventsOf(target))
    <3>1. EventsOf(new) = {e} \ EventsOf(target)
      <4>1. CASE e \in EventsOf(target)
        BY <4>1 DEF EventsOf
      <4>2. CASE e \notin EventsOf(target)
        <5> DEFINE r == [event |-> e, seq |-> nextSeq]
        <5>1. new = {r} /\ r.event = e
          BY <4>2
        <5> HIDE DEF r, new
        <5> QED
          BY <4>2, <5>1 DEF EventsOf
      <4> QED
        BY <4>1, <4>2
    <3> HIDE DEF new
    <3>2. EventsOf(tx[d] \cup new) = EventsOf(tx[d]) \cup EventsOf(new)
      BY DEF EventsOf
    <3> QED
      BY <3>1, <3>2
  <2>3. \A r \in tx[d] \cup new : r.event \notin todo[d] \ {e} /\ r.event \notin EventsOf(target)
    BY <1>4, <2>1 DEF Batch
  <2> HIDE DEF new
  <2>4. EventsOf(tx[d])' = EventsOf(tx[d] \cup new) /\ EventsOf(target)' = EventsOf(target)
    BY <1>2, <1>3 DEF EventsOf
  <2> QED
    BY <1>2, <1>3, <2>1, <2>2, <2>3, <2>4 DEF Batch
<1>11. ASSUME NEW c \in Devices, c # d PROVE Batch(c)'
  BY <1>2, <1>3, <1>11 DEF Batch, EventsOf
<1> QED
  BY <1>2, <1>5, <1>9, <1>10, <1>11, OthersIInv

(* The transaction's entries appear on the target.                         *)
LEMMA CommitIInv ==
    ASSUME IInv, TypeOK', NEW d \in Devices, pc[d] = "insert", todo[d] = {},
           target' = target \cup tx[d], tx' = [tx EXCEPT ![d] = {}],
           todo' = [todo EXCEPT ![d] = {}],
           UNCHANGED <<ledger, nextSeq, pull>>,
           NEW l \in {"idle", "stamp"}, pc' = [pc EXCEPT ![d] = l],
           out' = IF l = "stamp" THEN out ELSE [out EXCEPT ![d] = {}]
    PROVE  IInv'
<1> USE DEF IInv
<1>1. NothingUnpublished'
  BY DEF NothingUnpublished, EventsOf
<1>2. \A c \in Devices : \A r \in tx[c] : r.event.device = c
  BY DEF Batch, Events, EventsOf
<1>3. Ledger'
  <2>1. Entries' \subseteq Entries
    BY DEF Entries, TypeOK
  <2>2. \A r \in tx[d] : r.event \in known[r.event.device]
    BY <1>2 DEF Batch, Events, EventsOf
  <2> QED
    BY <2>1, <2>2 DEF Ledger
<1>4. EventsOf(target') = EventsOf(target) \cup EventsOf(tx[d])
  BY DEF EventsOf
<1>5. Batch(d)'
  <2>1. /\ tx'[d] = {} /\ todo'[d] = {} /\ pc'[d] = l
        /\ out'[d] = out[d] \/ (l = "idle" /\ out'[d] = {})
    BY DEF TypeOK
  <2>2. out[d] \subseteq EventsOf(target')
    BY <1>4 DEF Batch
  <2> QED
    BY <2>1, <2>2 DEF Batch, EventsOf
<1>6. ASSUME NEW c \in Devices, c # d PROVE Batch(c)'
  <2>1. pc'[c] = pc[c] /\ out'[c] = out[c] /\ todo'[c] = todo[c] /\ tx'[c] = tx[c]
    BY <1>6 DEF TypeOK
  <2>2. \A r \in tx[c] : r.event \notin EventsOf(tx[d])
    BY <1>2, <1>6 DEF EventsOf
  <2>3. EventsOf(target)' = EventsOf(target) \cup EventsOf(tx[d]) /\ EventsOf(tx[c])' = EventsOf(tx[c])
    BY <1>4, <2>1 DEF EventsOf
  <2> QED
    BY <2>1, <2>2, <2>3 DEF Batch
<1> QED
  BY <1>1, <1>3, <1>5, <1>6, OthersIInv

LEMMA PushIInv ==
    ASSUME IInv, TypeOK', NEW d \in Devices, Push(d)
    PROVE  IInv'
<1> USE DEF IInv
<1>1. ASSUME NEW l \in {"idle", "read"}, pc[d] \in {"idle", "queue"},
             pc' = [pc EXCEPT ![d] = l],
             UNCHANGED <<ledger, neon, out, todo, tx, pull>>
      PROVE  IInv'
  <2>1. NothingUnpublished' /\ Ledger'
    BY <1>1 DEF NothingUnpublished, Ledger, Entries, EventsOf
  <2>2. \A c \in Devices : Batch(c)'
    BY <1>1 DEF Batch, EventsOf, TypeOK
  <2> QED
    BY <1>1, <2>1, <2>2, OthersIInv
<1>2. CASE AcquireLease(d)
  BY <1>1, <1>2 DEF AcquireLease, Goto
<1>3. CASE ReleaseLease(d)
  BY <1>1, <1>3 DEF ReleaseLease, Goto
<1>4. CASE ReadUnpushed(d)
  <2>1. PICK B \in SUBSET unpushed[d] :
          TakeAllowed(d, B) /\ unpushed' = [unpushed EXCEPT ![d] = @ \ Unshared(B)]
    BY <1>4 DEF ReadUnpushed
  <2>2. /\ pc[d] = "read"
        /\ UNCHANGED <<rows, known, baseline, clock, neon, holder, todo, tx, pull, faults>>
    BY <1>4 DEF ReadUnpushed
  <2>3. /\ out'[d] = B \ Unshared(B) /\ unpushed'[d] = unpushed[d] \ Unshared(B)
        /\ pc'[d] \in {"queue", "renew"}
        /\ \A c \in Devices : c # d => /\ out'[c] = out[c] /\ unpushed'[c] = unpushed[c]
                                       /\ pc'[c] = pc[c]
    BY <2>1 DEF TakeAllowed, Goto, TypeOK
  <2>4. NothingUnpublished'
    BY <2>2, <2>3 DEF NothingUnpublished, Unshared, EventsOf
  <2>5. Ledger'
    BY <2>2 DEF Ledger, Entries
  <2>6. ASSUME NEW c \in Devices PROVE Batch(c)'
    <3>1. Batch(c) /\ tx' = tx /\ todo' = todo /\ target' = target
      BY <2>2
    <3>2. \A e \in out'[d] : e.key \notin Excluded
      BY <2>3 DEF Unshared
    <3> HIDE DEF IInv
    <3> QED
      BY <2>2, <2>3, <3>1, <3>2 DEF Batch, EventsOf
  <2> QED
    BY <2>2, <2>3, <2>4, <2>5, <2>6, OthersIInv
<1>5. CASE NothingToPush(d)
  BY <1>5, GiveUpIInv DEF NothingToPush
<1>6. CASE RenewLease(d)
  <2>1. CASE EndBatch(d, "idle") /\ UNCHANGED <<ledger, neon, pull>>
    BY <2>1, GiveUpIInv
  <2>2. CASE /\ todo' = [todo EXCEPT ![d] = out[d]]
             /\ Goto(d, "insert")
             /\ UNCHANGED <<out, tx, holder>>
    <3>1. UNCHANGED <<ledger, neon, pull>> /\ pc[d] = "renew"
      BY <1>6 DEF RenewLease
    <3>2. NothingUnpublished' /\ Ledger'
      BY <2>2, <3>1 DEF NothingUnpublished, Ledger, Entries, EventsOf
    <3>3. ASSUME NEW c \in Devices PROVE Batch(c)'
      BY <2>2, <3>1 DEF Batch, EventsOf, TypeOK, Goto
    <3> QED
      BY <2>2, <3>1, <3>2, <3>3, OthersIInv
  <2> QED
    BY <1>6, <2>1, <2>2 DEF RenewLease
<1>7. CASE InsertEvent(d)
  BY <1>7, InsertIInv
<1>8. CASE CommitBatch(d)
  <2>1. todo' = [todo EXCEPT ![d] = {}]
    BY <1>8 DEF CommitBatch, TypeOK
  <2> QED
    BY <1>8, <2>1, CommitIInv DEF CommitBatch, Goto
<1>9. CASE StampPushed(d)
  <2>1. out[d] \subseteq EventsOf(target)
    BY <1>9 DEF StampPushed, Batch
  <2>2. \A c \in Devices : unpushed'[c] = IF c = d THEN unpushed[d] \ out[d] ELSE unpushed[c]
    BY <1>9 DEF StampPushed, TypeOK
  <2> QED
    BY <1>9, <2>1, <2>2, EndBatchIInv DEF StampPushed
<1> QED
  BY <1>2, <1>3, <1>4, <1>5, <1>6, <1>7, <1>8, <1>9 DEF Push

LEMMA PullIInv ==
    ASSUME IInv, TypeOK', NEW d \in Devices, Pull(d)
    PROVE  IInv'
<1> USE DEF IInv
<1>2. CASE PullRead(d)
  BY <1>2, QuietIInv DEF PullRead, TypeOK, Applied
<1>3. CASE PullInsert(d)
  <2>1. PICK r \in page[d] :
          /\ page' = [page EXCEPT ![d] = @ \ {r}]
          /\ known' = [known EXCEPT ![d] = @ \cup {r.event}]
          /\ hand' = [hand EXCEPT ![d] = IF Applies(d, r.event) THEN r.event ELSE None]
    BY <1>3 DEF PullInsert
  <2>2. hand[d] = None /\ UNCHANGED <<rows, unpushed, baseline, clock, neon, holder, push,
                                     cursor, newest, replayed, faults>>
    BY <1>3 DEF PullInsert
  <2>3. r \in target /\ r \in Entry
    BY DEF Applied, TypeOK
  <2>4. r.event \in EventsOf(target) /\ r.event.device \in Devices
    BY <2>3 DEF EventsOf, Entry, Event
  <2>5. r.event \in known[r.event.device]
    BY <2>3 DEF Ledger
  <2>6. /\ page'[d] = page[d] \ {r} /\ known'[d] = known[d] \cup {r.event}
        /\ hand'[d] = IF Applies(d, r.event) THEN r.event ELSE None
        /\ \A c \in Devices : c # d => page'[c] = page[c] /\ known'[c] = known[c] /\ hand'[c] = hand[c]
    BY <2>1 DEF TypeOK
  <2>7. \A c \in Devices : known[c] \subseteq known'[c]
    BY <2>6
  <2>8. NothingUnpublished'
    <3>1. EventsOf(target)' = EventsOf(target)
      BY <2>2 DEF EventsOf
    <3> QED
      BY <2>2, <2>4, <2>6, <3>1 DEF NothingUnpublished
  <2>9. Ledger'
    <3>1. Entries' = Entries
      BY <2>2 DEF Entries
    <3>2. \A s \in target : s.event.device \in Devices
      BY DEF TypeOK, Entry, Event
    <3> QED
      BY <2>2, <2>7, <3>1, <3>2 DEF Ledger
  <2>10. ASSUME NEW c \in Devices PROVE Events(c)'
    BY <2>2, <2>4, <2>5, <2>6 DEF Events
  <2>11. ASSUME NEW c \in Devices PROVE Batch(c)'
    BY <2>2 DEF Batch, EventsOf
  <2>12. ASSUME NEW c \in Devices PROVE Applied(c)'
    <3>1. Replayed(c)' = Replayed(c)
      BY <2>2 DEF Replayed
    <3>2. Turned(c)' \subseteq Turned(c) \cup (IF c = d /\ Applies(d, r.event) THEN {r.event} ELSE {})
      BY <2>6, <3>1 DEF Turned
    <3>3. Applies(d, r.event) => r.event.device # d /\ r.event \notin Replayed(d)
      BY <2>5 DEF Applies, Applied, Turned
    <3>4. EventsOf(target)' = EventsOf(target)
      BY <2>2 DEF EventsOf
    <3>5. \A e \in Turned(c)' : e \in known'[c] /\ e \in EventsOf(target) /\ e.device # c
      BY <2>4, <2>6, <2>7, <3>2, <3>3 DEF Applied
    <3>6. None \notin Replayed(c)
      BY DEF Applied
    <3>7. hand'[c] \notin Replayed(c)
      BY <2>6, <3>3, <3>6 DEF Applied
    <3> QED
      BY <2>2, <2>6, <3>1, <3>4, <3>5, <3>6, <3>7 DEF Applied
  <2> QED
    BY <2>8, <2>9, <2>10, <2>11, <2>12
<1>4. CASE PullApply(d)
  <2>1. /\ hand[d] # None
        /\ replayed' = [replayed EXCEPT ![d] = Append(@, hand[d])]
        /\ hand' = [hand EXCEPT ![d] = None]
        /\ UNCHANGED <<known, unpushed, baseline, clock, neon, holder, push, cursor,
                       newest, page, faults>>
    BY <1>4 DEF PullApply
  <2>2. NothingUnpublished' /\ Ledger'
    BY <2>1 DEF NothingUnpublished, Ledger, Entries, EventsOf
  <2>3. ASSUME NEW c \in Devices PROVE (Events(c) /\ Batch(c))'
    BY <2>1 DEF Events, Batch, EventsOf
  <2>4. ASSUME NEW c \in Devices, c # d PROVE Applied(c)'
    <3>1. hand'[c] = hand[c] /\ replayed'[c] = replayed[c]
      BY <2>1, <2>4 DEF TypeOK
    <3>2. Turned(c)' = Turned(c) /\ Replayed(c)' = Replayed(c)
      BY <3>1 DEF Turned, Replayed
    <3>3. EventsOf(target)' = EventsOf(target)
      BY <2>1 DEF EventsOf
    <3>4. Applied(c) /\ page'[c] = page[c] /\ known'[c] = known[c] /\ target' = target
      BY <2>1
    <3> HIDE DEF IInv
    <3> QED
      BY <3>1, <3>2, <3>3, <3>4 DEF Applied
  <2>5. Applied(d)'
    <3> DEFINE q == replayed[d]
    <3>1. q \in Seq(Event) /\ hand[d] \in Event
      BY <2>1 DEF TypeOK
    <3>2. hand'[d] = None /\ replayed'[d] = Append(q, hand[d])
      BY <2>1 DEF TypeOK
    <3>3. /\ DOMAIN Append(q, hand[d]) = DOMAIN q \cup {Len(q) + 1}
          /\ Append(q, hand[d])[Len(q) + 1] = hand[d]
          /\ \A i \in DOMAIN q : Append(q, hand[d])[i] = q[i]
      BY <3>1
    <3>4. Replayed(d)' = Replayed(d) \cup {hand[d]}
      BY <3>2, <3>3 DEF Replayed
    <3>5. Turned(d)' = Turned(d)
      BY <2>1, <3>2, <3>4 DEF Turned
    <3>6. None \notin Replayed(d) \cup {hand[d]}
      BY <2>1 DEF Applied
    <3>7. \A i \in DOMAIN q : q[i] # hand[d]
      BY DEF Applied, Replayed
    <3>8. \A i, j \in DOMAIN replayed'[d] : i # j => replayed'[d][i] # replayed'[d][j]
      BY <3>2, <3>3, <3>7 DEF Applied
    <3>9. \A e \in Turned(d)' : e \in known'[d] /\ e \in EventsOf(target)' /\ e.device # d
      BY <2>1, <3>5 DEF Applied, EventsOf
    <3> QED
      BY <2>1, <3>2, <3>4, <3>6, <3>8, <3>9 DEF Applied
  <2> QED
    BY <2>2, <2>3, <2>4, <2>5
<1>5. CASE MoveCursor(d)
  BY <1>5, QuietIInv DEF MoveCursor, Applied
<1> QED
  BY <1>2, <1>3, <1>4, <1>5 DEF Pull

LEMMA FaultIInv ==
    ASSUME IInv, TypeOK', NEW d \in Devices, PushFails(d) \/ PullFails(d) \/ LeaseExpires
    PROVE  IInv'
<1> USE DEF IInv
<1>1. CASE PushFails(d)
  <2>1. EndBatch(d, "idle") /\ UNCHANGED <<ledger, nextSeq, pull>>
    BY <1>1 DEF PushFails
  <2>2. CASE UNCHANGED target
    BY <2>1, <2>2, GiveUpIInv
  <2>3. CASE pc[d] = "insert" /\ todo[d] = {} /\ target' = target \cup tx[d]
    BY <2>1, <2>3, CommitIInv DEF EndBatch, Goto
  <2> QED
    BY <1>1, <2>2, <2>3 DEF PushFails
<1>2. CASE PullFails(d)
  <2>1. /\ page' = [page EXCEPT ![d] = {}] /\ hand' = [hand EXCEPT ![d] = None]
        /\ UNCHANGED <<ledger, neon, holder, push, cursor, replayed>>
    BY <1>2 DEF PullFails
  <2>2. NothingUnpublished' /\ Ledger'
    BY <2>1 DEF NothingUnpublished, Ledger, Entries, EventsOf
  <2>3. ASSUME NEW c \in Devices PROVE (Events(c) /\ Batch(c))'
    BY <2>1 DEF Events, Batch, EventsOf
  <2>4. ASSUME NEW c \in Devices PROVE Applied(c)'
    <3>1. page'[c] \subseteq page[c] /\ hand'[c] \in {hand[c], None} /\ replayed'[c] = replayed[c]
      BY <2>1 DEF TypeOK
    <3>2. Replayed(c)' = Replayed(c) /\ Turned(c)' \subseteq Turned(c)
      BY <3>1 DEF Turned, Replayed
    <3> QED
      BY <2>1, <3>1, <3>2 DEF Applied, EventsOf
  <2> QED
    BY <2>2, <2>3, <2>4
<1>3. CASE LeaseExpires
  BY <1>3, QuietIInv DEF LeaseExpires, Applied
<1> QED
  BY <1>1, <1>2, <1>3

LEMMA NextIInv == IInv /\ [Next]_vars => IInv'
<1> SUFFICES ASSUME IInv, [Next]_vars PROVE IInv'
  OBVIOUS
<1>1. TypeOK'
  BY NextType DEF IInv
<1>2. CASE LeaseExpires
  BY <1>1, <1>2, QuietIInv DEF LeaseExpires, IInv, Applied
<1>3. CASE UNCHANGED vars
  BY <1>1, <1>3, QuietIInv DEF vars, IInv, Applied
<1> QED
  BY <1>1, <1>2, <1>3, LocalIInv, PushIInv, PullIInv, FaultIInv DEF Next

LEMMA Wellformed == Spec => []IInv
BY InitIInv, NextIInv, PTL DEF Spec

(* A captured event of a shared category is on the target or waits to be   *)
(* pushed, for any page size, faults and leases (push_event_batch).        *)
THEOREM Published == Spec => []NothingUnpublished
<1>1. IInv => NothingUnpublished
  BY DEF IInv
<1> QED
  BY <1>1, Wellformed, PTL

(* No device applies an event twice, or one of its own (pull_events).      *)
THEOREM Once == Spec => []AppliedOnce
<1>1. IInv => AppliedOnce
  BY DEF IInv, Applied, Turned, Replayed, AppliedOnce
<1> QED
  BY <1>1, Wellformed, PTL

-----------------------------------------------------------------------------
(* Numbers become visible in order, and cursors are safe, as long as no    *)
(* transaction outlasts the lease.                                         *)

ShortTransactions == ~LeaseMayLapse

LEMMA LocalFrame ==
    ASSUME IInv, TypeOK', NEW d \in Devices, Local(d)
    PROVE  /\ UNCHANGED <<neon, holder, push, pull>>
           /\ \A c \in Devices : known[c] \subseteq known'[c]
<1>1. UNCHANGED <<neon, holder, push, pull>>
  BY DEF Local, Write, BootstrapRead, BootstrapRow
<1>2. \A c \in Devices : known[c] \subseteq known'[c]
  <2>1. UNCHANGED known \/ \E e : known' = [known EXCEPT ![d] = @ \cup {e}]
    BY DEF Local, Write, BootstrapRead, BootstrapRow, Capture
  <2>2. known \in [Devices -> SUBSET Event]
    BY DEF IInv, TypeOK
  <2> QED
    BY <2>1, <2>2
<1> QED
  BY <1>1, <1>2

LEMMA PullFrame ==
    ASSUME NEW d \in Devices, Pull(d) \/ PullFails(d)
    PROVE  UNCHANGED <<unpushed, baseline, clock, neon, holder, push>>
BY DEF Pull, PullRead, PullInsert, PullApply, MoveCursor, PullFails

LEMMA PushFrame ==
    ASSUME NEW d \in Devices, Push(d) \/ PushFails(d)
    PROVE  UNCHANGED <<rows, known, baseline, clock, pull>>
BY DEF Push, AcquireLease, ReadUnpushed, NothingToPush, RenewLease, InsertEvent,
       CommitBatch, StampPushed, ReleaseLease, PushFails

(* Two pushes never insert at the same time.                               *)
LEMMA OneInserts ==
    ASSUME JInv, NEW c \in Devices, NEW d \in Devices, pc[c] = "insert", pc[d] = "insert"
    PROVE  c = d
BY DEF JInv, Serial

LEMMA PushSerial ==
    ASSUME ShortTransactions, JInv, TypeOK', NEW d \in Devices, Push(d)
    PROVE  \A c \in Devices : Serial(c)'
<1> SUFFICES ASSUME NEW c \in Devices PROVE Serial(c)'
  OBVIOUS
<1>1. TypeOK /\ Serial(c) /\ Batch(c) /\ Batch(d)
  BY DEF JInv, IInv
<1>2. CASE AcquireLease(d)
  <2>1. /\ pc[d] = "idle" /\ holder \in {None, d} /\ holder' = d
        /\ pc'[c] = IF c = d THEN "read" ELSE pc[c]
        /\ UNCHANGED <<tx, target>>
    BY <1>1, <1>2 DEF AcquireLease, Goto, TypeOK
  <2>2. pc'[c] = "insert" => holder = c /\ c # d
    BY <1>1, <2>1 DEF Serial
  <2>3. c # None
    BY ExchangeAssumption
  <2> QED
    BY <1>1, <2>1, <2>2, <2>3 DEF Serial
<1>8. CASE ReleaseLease(d)
  <2>1. /\ holder' = IF holder = d THEN None ELSE holder
        /\ pc'[c] = IF c = d THEN "idle" ELSE pc[c]
        /\ UNCHANGED <<tx, target>>
    BY <1>1, <1>8 DEF ReleaseLease, Release, Goto, TypeOK
  <2> QED
    BY <1>1, <2>1 DEF Serial
<1>3. CASE ReadUnpushed(d)
  BY <1>1, <1>3 DEF ReadUnpushed, TakeAllowed, Goto, Serial, TypeOK
<1>4. CASE NothingToPush(d) \/ StampPushed(d)
  BY <1>1, <1>4 DEF NothingToPush, StampPushed, EndBatch, Goto, Serial, TypeOK
<1>5. CASE RenewLease(d)
  BY <1>1, <1>5 DEF RenewLease, EndBatch, Goto, Serial, TypeOK
<1>6. CASE InsertEvent(d)
  <2>1. PICK e \in todo[d] : tx' = [tx EXCEPT ![d] =
               @ \cup {[event |-> x, seq |-> nextSeq] : x \in {e} \ EventsOf(target)}]
    BY <1>6 DEF InsertEvent
  <2>2. UNCHANGED <<target, holder, pc>>
    BY <1>6 DEF InsertEvent
  <2>3. \A r \in tx'[c] : r \in tx[c] \/ r.seq = nextSeq
    BY <1>1, <2>1 DEF TypeOK
  <2>4. \A s \in target : s.seq < nextSeq
    BY DEF JInv, IInv, Ledger, Entries
  <2> QED
    BY <1>1, <2>2, <2>3, <2>4 DEF Serial
<1>7. CASE CommitBatch(d)
  <2>1. /\ pc[d] = "insert" /\ pc' = [pc EXCEPT ![d] = "stamp"]
        /\ tx' = [tx EXCEPT ![d] = {}] /\ holder' = holder
    BY <1>7 DEF CommitBatch, Goto
  <2>2. tx'[c] = {} /\ pc'[c] # "insert"
    BY <1>1, <2>1, OneInserts DEF TypeOK, Batch
  <2> QED
    BY <2>2 DEF Serial
<1> QED
  BY <1>2, <1>3, <1>4, <1>5, <1>6, <1>7, <1>8 DEF Push

LEMMA FailSerial ==
    ASSUME ShortTransactions, JInv, TypeOK', NEW d \in Devices, PushFails(d)
    PROVE  \A c \in Devices : Serial(c)'
<1> SUFFICES ASSUME NEW c \in Devices PROVE Serial(c)'
  OBVIOUS
<1>1. TypeOK /\ Serial(c) /\ Batch(c)
  BY DEF JInv, IInv
<1>2. /\ pc' = [pc EXCEPT ![d] = "idle"] /\ tx' = [tx EXCEPT ![d] = {}]
      /\ holder' \in {holder, IF holder = d THEN None ELSE holder}
  BY DEF PushFails, EndBatch, Goto, Release
<1>3. CASE UNCHANGED target
  BY <1>1, <1>2, <1>3 DEF Serial, TypeOK
<1>4. CASE pc[d] = "insert"
  <2>1. tx'[c] = {} /\ pc'[c] # "insert"
    BY <1>1, <1>2, <1>4, OneInserts DEF TypeOK, Batch
  <2> QED
    BY <2>1 DEF Serial
<1> QED
  BY <1>3, <1>4 DEF PushFails

(* What a step adds to the target is above what it held.                   *)
LEMMA TargetGrows ==
    ASSUME JInv, TypeOK', NEW d \in Devices, Push(d) \/ PushFails(d)
    PROVE  /\ target' = target \/ target' = target \cup tx[d]
           /\ \A r \in target' : r \notin target =>
                /\ r \in tx[d] /\ r.seq > 0
                /\ \A s \in target : s.seq < r.seq
<1>1. target' = target \/ target' = target \cup tx[d]
  BY DEF Push, AcquireLease, ReadUnpushed, NothingToPush, RenewLease, InsertEvent,
         CommitBatch, StampPushed, ReleaseLease, PushFails
<1>2. \A r \in tx[d] : r.seq > 0
  BY DEF JInv, IInv, TypeOK, Entry
<1>3. \A r \in tx[d], s \in target : s.seq < r.seq
  BY DEF JInv, Serial
<1> QED
  BY <1>1, <1>2, <1>3

LEMMA PushReading ==
    ASSUME JInv, TypeOK', NEW d \in Devices, Push(d) \/ PushFails(d)
    PROVE  \A c \in Devices : Reading(c)'
<1> SUFFICES ASSUME NEW c \in Devices PROVE Reading(c)'
  OBVIOUS
<1>1. UNCHANGED <<known, pull>>
  BY PushFrame
<1>2. target \subseteq target' /\ \A r \in target' : r \notin target =>
        r.seq > 0 /\ \A s \in target : s.seq < r.seq
  BY TargetGrows
<1>3. Reading(c) /\ cursor[c] \in Nat /\ newest[c] \in Nat
  BY DEF JInv, IInv, TypeOK
<1>4. \A r \in target' : r.seq \in Nat
  BY DEF TypeOK, Entry
<1>5. \A r \in target' : r \notin target => r.seq > newest[c] /\ r.seq > cursor[c]
  BY <1>2, <1>3 DEF Reading
<1> QED
  BY <1>1, <1>2, <1>3, <1>4, <1>5 DEF Reading

LEMMA PullReading ==
    ASSUME JInv, TypeOK', NEW d \in Devices, Pull(d) \/ PullFails(d)
    PROVE  \A c \in Devices : Reading(c)'
<1> SUFFICES ASSUME NEW c \in Devices PROVE Reading(c)'
  OBVIOUS
<1>1. TypeOK /\ Reading(c) /\ Reading(d) /\ page[d] \subseteq target
  BY DEF JInv, IInv, Applied
<1>2. target' = target
  BY PullFrame
<1>3. \A r \in target : r.seq \in Nat \ {0}
  BY <1>1 DEF TypeOK, Entry
<1>4. CASE PullRead(d)
  <2> DEFINE unread == {r \in target : r.seq > cursor[d]}
  <2>1. PICK B \in SUBSET unread : \E last \in B :
          /\ IsFirst(B, unread, LAMBDA r : r.seq)
          /\ \A r \in B : r.seq <= last.seq
          /\ page' = [page EXCEPT ![d] = B]
          /\ newest' = [newest EXCEPT ![d] = last.seq]
    BY <1>4 DEF PullRead
  <2>2. PICK last \in B :
          /\ \A e \in B, f \in unread \ B : e.seq <= f.seq
          /\ \A r \in B : r.seq <= last.seq
          /\ page' = [page EXCEPT ![d] = B]
          /\ newest' = [newest EXCEPT ![d] = last.seq]
    BY <2>1 DEF IsFirst
  <2>3. newest[d] = 0 /\ UNCHANGED <<known, cursor, hand>>
    BY <1>4 DEF PullRead
  <2>4. /\ page'[d] = B /\ newest'[d] = last.seq
        /\ c # d => page'[c] = page[c] /\ newest'[c] = newest[c]
    BY <1>1, <2>2 DEF TypeOK
  <2>5. last \in target /\ last.seq > cursor[d]
    OBVIOUS
  <2>6. \A r \in target : r.seq <= last.seq => r \in B \/ r.event \in known[d]
    <3> SUFFICES ASSUME NEW r \in target, r.seq <= last.seq, r \notin B
                 PROVE  r.event \in known[d]
      OBVIOUS
    <3> r.seq \in Nat /\ last.seq \in Nat /\ cursor[d] \in Nat
      BY <1>1, <1>3, <2>5 DEF TypeOK
    <3>1. CASE r.seq <= cursor[d]
      BY <1>1, <3>1 DEF Reading
    <3>2. CASE r.seq > cursor[d]
      <4>1. last.seq <= r.seq
        BY <2>2, <3>2
      <4>2. r = last
        BY <1>3, <2>5, <4>1 DEF JInv, IInv, Ledger, Entries
      <4> QED
        BY <4>2
    <3> QED
      BY <3>1, <3>2
  <2> HIDE DEF unread
  <2>7. CASE c = d
    BY <1>1, <1>2, <1>3, <2>2, <2>3, <2>4, <2>5, <2>6, <2>7 DEF Reading
  <2>8. CASE c # d
    BY <1>1, <1>2, <2>3, <2>4, <2>8 DEF Reading
  <2> QED
    BY <2>7, <2>8
<1>5. CASE PullInsert(d)
  <2>1. PICK r \in page[d] :
          /\ page' = [page EXCEPT ![d] = @ \ {r}]
          /\ known' = [known EXCEPT ![d] = @ \cup {r.event}]
          /\ hand' = [hand EXCEPT ![d] = IF Applies(d, r.event) THEN r.event ELSE None]
    BY <1>5 DEF PullInsert
  <2>2. UNCHANGED <<cursor, newest>>
    BY <1>5 DEF PullInsert
  <2>3. /\ page'[d] = page[d] \ {r} /\ known'[d] = known[d] \cup {r.event}
        /\ c # d => page'[c] = page[c] /\ known'[c] = known[c] /\ hand'[c] = hand[c]
    BY <1>1, <2>1 DEF TypeOK
  <2> QED
    BY <1>1, <1>2, <2>2, <2>3 DEF Reading
<1>6. CASE PullApply(d)
  <2>1. hand'[c] \in {None, hand[c]} /\ UNCHANGED <<known, cursor, newest, page>>
    BY <1>1, <1>6 DEF PullApply, TypeOK
  <2> QED
    BY <1>1, <1>2, <2>1 DEF Reading
<1>7. CASE MoveCursor(d)
  <2>1. /\ newest[d] > 0 /\ page[d] = {} /\ hand[d] = None
        /\ UNCHANGED <<known, page, hand>>
        /\ cursor'[c] = IF c = d THEN newest[d] ELSE cursor[c]
        /\ newest'[c] = IF c = d THEN 0 ELSE newest[c]
    BY <1>1, <1>7 DEF MoveCursor, TypeOK
  <2> QED
    BY <1>1, <1>2, <1>3, <2>1 DEF Reading
<1>8. CASE PullFails(d)
  <2>1. /\ UNCHANGED <<known, cursor>>
        /\ newest'[c] = IF c = d THEN 0 ELSE newest[c]
        /\ page'[c] = IF c = d THEN {} ELSE page[c]
        /\ hand'[c] = IF c = d THEN None ELSE hand[c]
    BY <1>1, <1>8 DEF PullFails, TypeOK
  <2> QED
    BY <1>1, <1>2, <1>3, <2>1 DEF Reading
<1> QED
  BY <1>4, <1>5, <1>6, <1>7, <1>8 DEF Pull

LEMMA InitJInv == Init => JInv
<1> SUFFICES ASSUME Init PROVE JInv
  OBVIOUS
<1>1. ASSUME NEW d \in Devices PROVE Serial(d) /\ Reading(d)
  BY DEF Init, Serial, Reading
<1> QED
  BY <1>1, InitIInv DEF JInv

LEMMA NextJInv == ShortTransactions /\ JInv /\ [Next]_vars => JInv'
<1> SUFFICES ASSUME ShortTransactions, JInv, [Next]_vars PROVE JInv'
  OBVIOUS
<1>1. IInv' /\ TypeOK'
  BY NextIInv DEF JInv, IInv
<1>2. ASSUME NEW d \in Devices, Local(d) PROVE JInv'
  <2>1. /\ UNCHANGED <<neon, holder, push, pull>>
        /\ \A c \in Devices : known[c] \subseteq known'[c]
    BY <1>1, <1>2, LocalFrame DEF JInv
  <2>2. ASSUME NEW c \in Devices PROVE (Serial(c) /\ Reading(c))'
    BY <2>1 DEF JInv, Serial, Reading
  <2> QED
    BY <1>1, <2>2 DEF JInv
<1>3. ASSUME NEW d \in Devices, Push(d) \/ PushFails(d) PROVE JInv'
  <2>1. \A c \in Devices : Serial(c)'
    BY <1>1, <1>3, PushSerial, FailSerial
  <2>2. \A c \in Devices : Reading(c)'
    BY <1>1, <1>3, PushReading
  <2> QED
    BY <1>1, <2>1, <2>2 DEF JInv
<1>4. ASSUME NEW d \in Devices, Pull(d) \/ PullFails(d) PROVE JInv'
  <2>1. \A c \in Devices : Serial(c)'
    BY <1>4, PullFrame DEF JInv, Serial
  <2>2. \A c \in Devices : Reading(c)'
    BY <1>1, <1>4, PullReading
  <2> QED
    BY <1>1, <2>1, <2>2 DEF JInv
<1>5. CASE LeaseExpires
  <2>1. /\ pc[holder] # "insert" /\ holder' = None
        /\ UNCHANGED <<known, neon, push, pull>>
    BY <1>5 DEF LeaseExpires, ShortTransactions
  <2>2. ASSUME NEW c \in Devices PROVE (Serial(c) /\ Reading(c))'
    BY <2>1 DEF JInv, Serial, Reading
  <2> QED
    BY <1>1, <2>2 DEF JInv
<1>6. CASE UNCHANGED vars
  <2>1. ASSUME NEW c \in Devices PROVE (Serial(c) /\ Reading(c))'
    BY <1>6 DEF vars, JInv, Serial, Reading
  <2> QED
    BY <1>1, <2>1 DEF JInv
<1> QED
  BY <1>2, <1>3, <1>4, <1>5, <1>6 DEF Next

LEMMA InOrder == ASSUME ShortTransactions PROVE Spec => []JInv
<1>1. JInv /\ [Next]_vars => JInv'
  BY NextJInv
<1> QED
  BY <1>1, InitJInv, PTL DEF Spec

(* No event ever appears below a cursor that has passed it, as long as no  *)
(* transaction outlasts the lease (neon_seq, pull_events).                 *)
THEOREM SafeCursor == ASSUME ShortTransactions PROVE Spec => []CursorIsSafe
<1>1. JInv => CursorIsSafe
  BY DEF JInv, Reading, CursorIsSafe
<1> QED
  BY <1>1, InOrder, PTL

-----------------------------------------------------------------------------
(* The exchange implements SharedLog.                                      *)

LEMMA LogInit == Init => Log!Init
BY DEF Init, Log!Init

LEMMA LogNext ==
    ASSUME JInv, JInv', [Next]_vars
    PROVE  [Log!Next]_(Log!logVars)
<1> USE DEF Log!logVars
<1>1. ASSUME NEW d \in Devices, Local(d) PROVE [Log!Next]_(Log!logVars)
  <2>1. UNCHANGED <<target, cursor>>
    BY <1>1 DEF Local, Write, BootstrapRead, BootstrapRow
  <2>2. UNCHANGED known \/ \E e : known' = [known EXCEPT ![d] = @ \cup {e}]
    BY <1>1 DEF Local, Write, BootstrapRead, BootstrapRow, Capture
  <2>3. CASE UNCHANGED known
    BY <2>1, <2>3
  <2>4. ASSUME NEW e, known' = [known EXCEPT ![d] = @ \cup {e}] PROVE Log!Next
    <3>1. e \in known'[d]
      BY <2>4 DEF JInv, IInv, TypeOK
    <3>2. Log!Record(d)
      BY <2>1, <2>4, <3>1 DEF Log!Record
    <3> QED
      BY <3>2 DEF Log!Next
  <2> QED
    BY <2>2, <2>3, <2>4
<1>2. ASSUME NEW d \in Devices, Push(d) \/ PushFails(d) PROVE [Log!Next]_(Log!logVars)
  <2>1. UNCHANGED <<known, cursor>>
    BY <1>2, PushFrame
  <2>2. /\ target = target' \/ target' = target \cup tx[d]
        /\ \A r \in target' : r \notin target =>
             /\ r \in tx[d] /\ r.seq > 0
             /\ \A s \in target : s.seq < r.seq
    BY <1>2, TargetGrows DEF JInv, IInv
  <2>3. ASSUME NEW r \in target' \ target
        PROVE  /\ r.event \in known[d]
               /\ \A s \in target' : s # r => s.event # r.event /\ s.seq # r.seq
               /\ \A s \in target : s.seq < r.seq
               /\ \A c \in Devices : cursor[c] < r.seq
    <3>1. r \in tx[d] /\ r.seq > 0 /\ \A s \in target : s.seq < r.seq
      BY <2>2, <2>3
    <3>2. r.event \in known[d]
      BY <3>1 DEF JInv, IInv, Batch, Events, EventsOf
    <3>3. \A s \in target' : s # r => s.event # r.event /\ s.seq # r.seq
      BY <2>3 DEF JInv, IInv, Ledger, Entries
    <3>4. \A c \in Devices : cursor[c] < r.seq
      BY <3>1 DEF JInv, IInv, TypeOK, Reading
    <3> QED
      BY <3>1, <3>2, <3>3, <3>4
  <2>4. Log!Append(d)
    BY <2>1, <2>2, <2>3 DEF Log!Append
  <2> QED
    BY <2>4 DEF Log!Next
<1>3. ASSUME NEW d \in Devices, Pull(d) \/ PullFails(d) PROVE [Log!Next]_(Log!logVars)
  <2>1. UNCHANGED target
    BY <1>3, PullFrame
  <2>2. CASE PullRead(d) \/ PullApply(d) \/ PullFails(d)
    BY <2>1, <2>2 DEF PullRead, PullApply, PullFails
  <2>3. CASE PullInsert(d)
    <3>1. PICK r \in page[d] : known' = [known EXCEPT ![d] = @ \cup {r.event}]
      BY <2>3 DEF PullInsert
    <3>2. r \in target /\ UNCHANGED cursor
      BY <2>3 DEF PullInsert, JInv, IInv, Applied
    <3>3. Log!Deliver(d)
      BY <2>1, <3>1, <3>2 DEF Log!Deliver
    <3> QED
      BY <3>3 DEF Log!Next
  <2>4. CASE MoveCursor(d)
    <3>1. /\ newest[d] > 0 /\ page[d] = {} /\ UNCHANGED known
          /\ cursor' = [cursor EXCEPT ![d] = newest[d]]
      BY <2>4 DEF MoveCursor
    <3>2. PICK r \in target : r.seq = newest[d]
      <4>1. newest[d] # 0
        BY <3>1 DEF JInv, IInv, TypeOK
      <4> QED
        BY <4>1 DEF JInv, Reading
    <3>3. cursor[d] < r.seq /\ \A s \in target : s.seq <= r.seq => s.event \in known[d]
      BY <3>1, <3>2 DEF JInv, Reading
    <3>4. Log!Advance(d)
      BY <2>1, <3>1, <3>2, <3>3 DEF Log!Advance
    <3> QED
      BY <3>4 DEF Log!Next
  <2> QED
    BY <1>3, <2>2, <2>3, <2>4 DEF Pull
<1>4. CASE LeaseExpires
  BY <1>4 DEF LeaseExpires
<1>5. CASE UNCHANGED vars
  BY <1>5 DEF vars
<1> QED
  BY <1>1, <1>2, <1>3, <1>4, <1>5 DEF Next

(* Every step of the devices is a step of SharedLog, as long as no         *)
(* transaction outlasts the lease: one log that grows at its end, from     *)
(* which a device that has read to a position knows everything.            *)
THEOREM Refinement == ASSUME ShortTransactions PROVE Spec => ImplementsSharedLog
<1>1. JInv /\ JInv' /\ [Next]_vars => [Log!Next]_(Log!logVars)
  BY LogNext
<1> QED
  BY <1>1, LogInit, InOrder, PTL DEF Spec, ImplementsSharedLog, Log!Spec

-----------------------------------------------------------------------------
(* Without faults, what a device knows it has applied.                     *)

KInv == IInv /\ KnownIsApplied

LEMMA NextKInv == KInv /\ [Next]_vars => KInv'
<1> SUFFICES ASSUME KInv, [Next]_vars, faults' = 0 PROVE KInv'
  <2>1. KInv /\ [Next]_vars => IInv'
    BY NextIInv DEF KInv
  <2> QED
    BY <2>1 DEF KInv, KnownIsApplied
<1>1. IInv /\ IInv' /\ TypeOK'
  BY NextIInv DEF KInv, IInv
<1> DEFINE Done(c, e) == e = hand[c] \/ \E i \in DOMAIN replayed[c] : replayed[c][i] = e
<1>2. faults = 0
  <2>1. faults \in Nat
    BY <1>1 DEF IInv, TypeOK
  <2>2. ASSUME NEW d \in Devices, Local(d) \/ Push(d) \/ Pull(d) PROVE faults' = faults
    <3>1. CASE Local(d)
      BY <3>1 DEF Local, Write, BootstrapRead, BootstrapRow
    <3>2. CASE Push(d)
      BY <3>2 DEF Push, AcquireLease, ReadUnpushed, NothingToPush, RenewLease,
         InsertEvent, CommitBatch, StampPushed, ReleaseLease
    <3>3. CASE Pull(d)
      BY <3>3 DEF Pull, PullRead, PullInsert, PullApply, MoveCursor
    <3> QED
      BY <2>2, <3>1, <3>2, <3>3
  <2>3. ASSUME NEW d \in Devices, PushFails(d) \/ PullFails(d) PROVE faults' = faults + 1
    BY <2>3 DEF PushFails, PullFails, Fault
  <2>4. CASE LeaseExpires \/ UNCHANGED vars
    BY <2>4 DEF LeaseExpires, vars
  <2> QED
    BY <2>1, <2>2, <2>3, <2>4 DEF Next
<1>3. \A c \in Devices : \A e \in known[c] :
        e.device # c /\ e.op = "upsert" => Done(c, e)
  BY <1>2 DEF KInv, KnownIsApplied
<1> SUFFICES ASSUME NEW c \in Devices, NEW e \in known'[c], e.device # c, e.op = "upsert"
             PROVE  Done(c, e)'
  BY <1>1 DEF KInv, KnownIsApplied
<1>4. CASE UNCHANGED <<hand, replayed>> /\ (e \notin known[c] => e.device = c \/ e.op # "upsert")
  BY <1>3, <1>4
<1>5. ASSUME NEW d \in Devices, Local(d) PROVE Done(c, e)'
  <2>1. UNCHANGED <<hand, replayed>>
    BY <1>5 DEF Local, Write, BootstrapRead, BootstrapRow
  <2>2. UNCHANGED known \/ \E f : f.device = d /\ known' = [known EXCEPT ![d] = @ \cup {f}]
    BY <1>5 DEF Local, Write, BootstrapRead, BootstrapRow, Capture
  <2>3. e \notin known[c] => e.device = c
    <3>1. known \in [Devices -> SUBSET Event]
      BY <1>1 DEF IInv, TypeOK
    <3> QED
      BY <2>2, <3>1
  <2> QED
    BY <1>4, <2>1, <2>3
<1>6. ASSUME NEW d \in Devices, Push(d) \/ PushFails(d) PROVE Done(c, e)'
  BY <1>4, <1>6, PushFrame
<1>7. ASSUME NEW d \in Devices, PullRead(d) \/ MoveCursor(d) PROVE Done(c, e)'
  BY <1>4, <1>7 DEF PullRead, MoveCursor
<1>8. ASSUME NEW d \in Devices, PullInsert(d) PROVE Done(c, e)'
  <2>1. PICK r \in page[d] :
          /\ known' = [known EXCEPT ![d] = @ \cup {r.event}]
          /\ hand' = [hand EXCEPT ![d] = IF Applies(d, r.event) THEN r.event ELSE None]
    BY <1>8 DEF PullInsert
  <2>2. hand[d] = None /\ UNCHANGED replayed
    BY <1>8 DEF PullInsert
  <2>3. CASE c = d /\ e \notin known[d]
    BY <1>1, <2>1, <2>3 DEF Applies, IInv, TypeOK
  <2>4. CASE c = d /\ e \in known[d]
    <3>1. e # None
      BY <1>1, <2>4, ExchangeAssumption DEF IInv, TypeOK
    <3> QED
      BY <1>3, <2>2, <2>4, <3>1
  <2>5. CASE c # d
    BY <1>1, <1>3, <2>1, <2>2, <2>5 DEF IInv, TypeOK
  <2> QED
    BY <2>3, <2>4, <2>5
<1>9. ASSUME NEW d \in Devices, PullApply(d) PROVE Done(c, e)'
  <2>1. /\ replayed' = [replayed EXCEPT ![d] = Append(@, hand[d])]
        /\ hand' = [hand EXCEPT ![d] = None] /\ UNCHANGED known
    BY <1>9 DEF PullApply
  <2>2. CASE c # d
    BY <1>1, <1>3, <2>1, <2>2 DEF IInv, TypeOK
  <2>3. CASE c = d
    <3> DEFINE q == replayed[d]
    <3>1. q \in Seq(Event) /\ hand[d] \in Event
      BY <1>1, <1>9 DEF PullApply, IInv, TypeOK
    <3>2. replayed'[d] = Append(q, hand[d])
      BY <1>1, <2>1 DEF IInv, TypeOK
    <3>3. /\ DOMAIN Append(q, hand[d]) = DOMAIN q \cup {Len(q) + 1}
          /\ Append(q, hand[d])[Len(q) + 1] = hand[d]
          /\ \A i \in DOMAIN q : Append(q, hand[d])[i] = q[i]
      BY <3>1
    <3> QED
      BY <1>3, <2>1, <2>3, <3>2, <3>3
  <2> QED
    BY <2>2, <2>3
<1>10. ASSUME NEW d \in Devices, PullFails(d) PROVE FALSE
  BY <1>1, <1>2, <1>10 DEF PullFails, Fault
<1>11. CASE LeaseExpires \/ UNCHANGED vars
  BY <1>4, <1>11 DEF LeaseExpires, vars
<1> QED
  BY <1>5, <1>6, <1>7, <1>8, <1>9, <1>10, <1>11 DEF Next, Pull

(* As long as nothing fails, every foreign upsert a device knows has been  *)
(* applied or is about to be (pull_events).                                *)
THEOREM NothingSkipped == Spec => []KnownIsApplied
<1>1. Init => KInv
  BY InitIInv DEF Init, KInv, KnownIsApplied
<1>2. KInv => KnownIsApplied
  BY DEF KInv
<1> QED
  BY <1>1, <1>2, NextKInv, PTL DEF Spec

-----------------------------------------------------------------------------
(* A device's events of one row are applied in the order it wrote them.    *)

(* Another device's push leaves a device's entries and events alone.       *)
LEMMA OthersPushOrder ==
    ASSUME OInv, JInv', NEW d \in Devices, NEW c \in Devices, c # d, Push(d) \/ PushFails(d)
    PROVE  PushOrder(c)'
<1>1. TypeOK /\ PushOrder(c)
  BY DEF OInv, JInv, IInv
<1>2. /\ tx'[c] = tx[c] /\ out'[c] = out[c] /\ unpushed'[c] = unpushed[c]
  <2>1. CASE Push(d)
    BY <1>1, <2>1 DEF Push, AcquireLease, ReadUnpushed, TakeAllowed, NothingToPush,
       RenewLease, InsertEvent, CommitBatch, StampPushed, ReleaseLease, EndBatch, TypeOK
  <2>2. CASE PushFails(d)
    BY <1>1, <2>2 DEF PushFails, EndBatch, TypeOK
  <2> QED
    BY <2>1, <2>2
<1>3. \A r \in tx[d] : r.event.device = d
  BY DEF OInv, JInv, IInv, Batch, Events, EventsOf
<1>4. target' = target \/ target' = target \cup tx[d]
  BY TargetGrows DEF OInv, JInv, IInv
<1>5. Pushed(c)' = Pushed(c)
  BY <1>2, <1>3, <1>4 DEF Pushed
<1> QED
  BY <1>1, <1>2, <1>5 DEF PushOrder, EventsOf

(* A transaction given up takes back entries that come after all others.   *)
LEMMA EndBatchPushOrder ==
    ASSUME OInv, NEW d \in Devices, NEW l, EndBatch(d, l), target' = target,
           unpushed'[d] \subseteq unpushed[d]
    PROVE  PushOrder(d)'
<1>1. TypeOK /\ PushOrder(d) /\ Serial(d)
  BY DEF OInv, JInv, IInv
<1>2. tx'[d] = {} /\ out'[d] = {}
  BY <1>1 DEF EndBatch, TypeOK
<1>3. Pushed(d)' = {r \in target : r.event.device = d}
  BY <1>2 DEF Pushed
<1>4. Pushed(d)' \subseteq Pushed(d)
  BY <1>3 DEF Pushed
<1>5. ASSUME NEW r \in Pushed(d)', NEW f \in unpushed[d],
             f \notin EventsOf(Pushed(d)'), f.key \notin Excluded
      PROVE  r.event.created < f.id
  <2>1. CASE f \notin EventsOf(Pushed(d))
    BY <1>1, <1>4, <1>5, <2>1 DEF PushOrder
  <2>2. CASE f \in EventsOf(Pushed(d))
    <3>1. PICK s \in Pushed(d) : s.event = f
      BY <2>2 DEF EventsOf
    <3>2. s \notin Pushed(d)'
      BY <1>5, <3>1 DEF EventsOf
    <3>3. s \in tx[d] /\ r \in target
      BY <1>3, <3>2 DEF Pushed
    <3>4. r.seq < s.seq
      BY <1>1, <3>3 DEF Serial
    <3> QED
      BY <1>1, <1>4, <3>1, <3>4 DEF PushOrder
  <2> QED
    BY <2>1, <2>2
<1>6. EventsOf(Pushed(d))' = EventsOf(Pushed(d)')
  BY DEF EventsOf
<1> QED
  BY <1>1, <1>2, <1>4, <1>5, <1>6 DEF PushOrder

LEMMA InsertPushOrder ==
    ASSUME OInv, NEW d \in Devices, InsertEvent(d)
    PROVE  PushOrder(d)'
<1>1. /\ TypeOK /\ NothingUnpublished /\ Ledger /\ Events(d) /\ Batch(d)
      /\ PushOrder(d) /\ Serial(d)
  BY DEF OInv, JInv, IInv
<1>2. PICK e \in todo[d] :
        /\ \A f \in todo[d] : e.created <= f.created
        /\ tx' = [tx EXCEPT ![d] =
             @ \cup {[event |-> x, seq |-> nextSeq] : x \in {e} \ EventsOf(target)}]
  BY DEF InsertEvent
<1>3. UNCHANGED <<ledger, target, out>> /\ pc[d] = "insert"
  BY DEF InsertEvent
<1>4. CASE e \in EventsOf(target)
  <2>1. tx'[d] = tx[d]
    BY <1>1, <1>2, <1>4 DEF TypeOK
  <2>2. Pushed(d)' = Pushed(d)
    BY <1>3, <2>1 DEF Pushed
  <2> QED
    BY <1>1, <1>3, <2>2 DEF PushOrder, EventsOf
<1>5. CASE e \notin EventsOf(target)
  <2> DEFINE n == [event |-> e, seq |-> nextSeq]
  <2>1. n.event = e /\ n.seq = nextSeq /\ tx'[d] = tx[d] \cup {n}
    <3>1. {[event |-> x, seq |-> nextSeq] : x \in {e} \ EventsOf(target)} = {n}
      BY <1>5
    <3> HIDE DEF n
    <3>2. tx' = [tx EXCEPT ![d] = @ \cup {n}]
      BY <1>2, <3>1
    <3> QED
      BY <1>1, <3>2 DEF n, TypeOK
  <2> HIDE DEF n
  <2>2. /\ e \in out[d] /\ e \in unpushed[d] /\ e \in known[d] /\ e.device = d
        /\ e.created < e.id /\ e.key \notin Excluded
    BY <1>1 DEF Batch, Events
  <2>3. Pushed(d)' = Pushed(d) \cup {n}
    BY <1>3, <2>1, <2>2 DEF Pushed
  <2>4. \A r \in Pushed(d) : r.seq < nextSeq /\ r.event # e
    <3>1. \A r \in target : r.event # e
      BY <1>5 DEF EventsOf
    <3>2. \A r \in tx[d] : r.event # e
      BY <1>1 DEF Batch
    <3> QED
      BY <1>1, <3>1, <3>2 DEF Pushed, Ledger, Entries
  <2>5. \A r \in Pushed(d) : r.event.created < e.id
    <3>1. e \notin EventsOf(Pushed(d))
      BY <2>4 DEF EventsOf
    <3> QED
      BY <1>1, <2>2, <3>1 DEF PushOrder
  <2>6. \A r \in Pushed(d) : r.seq \in Nat
    BY <1>1 DEF Pushed, TypeOK, Entry
  <2>7. nextSeq \in Nat
    BY <1>1 DEF TypeOK
  <2>8. \A r, s \in Pushed(d)' : r.seq < s.seq => r.event.created < s.event.id
    BY <1>1, <2>1, <2>3, <2>4, <2>5, <2>6, <2>7 DEF PushOrder
  <2>9. EventsOf(Pushed(d))' = EventsOf(Pushed(d)) \cup {e}
    BY <2>1, <2>3 DEF EventsOf
  <2>10. ASSUME NEW f \in unpushed[d], f # e, f \notin EventsOf(Pushed(d)), f.key \notin Excluded
         PROVE  e.created < f.id
    <3>1. CASE f \notin out[d]
      BY <1>1, <2>2, <2>10, <3>1 DEF PushOrder
    <3>2. CASE f \in out[d]
      <4>1. f.device = d /\ f \in known[d] /\ f.created < f.id
        BY <1>1 DEF Events
      <4>2. f \in todo[d]
        <5>1. \A r \in tx[d] : r.event.device = d
          BY <1>1 DEF Batch, Events, EventsOf
        <5>2. f \notin EventsOf(tx[d]) /\ f \notin EventsOf(target)
          BY <2>10, <4>1, <5>1 DEF EventsOf, Pushed
        <5> QED
          BY <1>1, <1>3, <3>2, <5>2 DEF Batch
      <4>3. e \in Event /\ f \in Event
        BY <1>1, <2>2, <4>1 DEF TypeOK
      <4> QED
        BY <1>2, <4>1, <4>2, <4>3 DEF Event
    <3> QED
      BY <3>1, <3>2
  <2> QED
    BY <1>1, <1>3, <2>1, <2>3, <2>8, <2>9, <2>10 DEF PushOrder
<1> QED
  BY <1>4, <1>5

LEMMA OwnPushOrder ==
    ASSUME OInv, JInv', NEW d \in Devices, Push(d) \/ PushFails(d)
    PROVE  PushOrder(d)'
<1>1. TypeOK /\ Events(d) /\ Batch(d) /\ PushOrder(d)
  BY DEF OInv, JInv, IInv
<1>2. CASE UNCHANGED <<target, tx, out, unpushed>>
  BY <1>1, <1>2 DEF PushOrder, Pushed, EventsOf
<1>3. CASE AcquireLease(d) \/ ReleaseLease(d)
  BY <1>2, <1>3 DEF AcquireLease, ReleaseLease
<1>4. CASE ReadUnpushed(d)
  <2>1. PICK B \in SUBSET unpushed[d] :
          /\ IsFirst(B, unpushed[d], LAMBDA e : e.created)
          /\ TakeAllowed(d, B)
          /\ unpushed' = [unpushed EXCEPT ![d] = @ \ Unshared(B)]
    BY <1>4 DEF ReadUnpushed
  <2>2. \A e \in B, f \in unpushed[d] \ B : e.created <= f.created
    BY <2>1 DEF IsFirst
  <2>3. UNCHANGED <<target, tx>>
    BY <1>4 DEF ReadUnpushed
  <2>4. out'[d] = B \ Unshared(B) /\ unpushed'[d] = unpushed[d] \ Unshared(B)
    BY <1>1, <2>1 DEF TakeAllowed, TypeOK
  <2>5. ASSUME NEW e \in out'[d], NEW f \in unpushed'[d], f \notin out'[d], f.key \notin Excluded
        PROVE  e.created < f.id
    <3>1. e \in B /\ f \in unpushed[d] \ B
      BY <2>4, <2>5 DEF Unshared
    <3>2. f.created < f.id /\ e \in Event /\ f \in Event
      BY <1>1, <3>1 DEF Events, TypeOK
    <3> QED
      BY <2>2, <3>1, <3>2 DEF Event
  <2>6. Pushed(d)' = Pushed(d)
    BY <2>3 DEF Pushed
  <2> QED
    BY <1>1, <2>4, <2>5, <2>6 DEF PushOrder, EventsOf
<1>5. CASE NothingToPush(d)
  BY <1>5, EndBatchPushOrder DEF NothingToPush
<1>6. CASE RenewLease(d)
  BY <1>2, <1>6, EndBatchPushOrder DEF RenewLease
<1>7. CASE InsertEvent(d)
  BY <1>7, InsertPushOrder
<1>8. ASSUME target' = target \cup tx[d], tx'[d] = {}, unpushed' = unpushed,
             out'[d] = out[d] \/ out'[d] = {}
      PROVE  PushOrder(d)'
  <2>1. Pushed(d)' = Pushed(d)
    BY <1>8 DEF Pushed
  <2> QED
    BY <1>1, <1>8, <2>1 DEF PushOrder, EventsOf
<1>9. CASE CommitBatch(d)
  BY <1>1, <1>8, <1>9 DEF CommitBatch, TypeOK
<1>10. CASE StampPushed(d)
  <2>1. unpushed'[d] \subseteq unpushed[d]
    BY <1>1, <1>10 DEF StampPushed, TypeOK
  <2> QED
    BY <1>10, <2>1, EndBatchPushOrder DEF StampPushed
<1>11. CASE PushFails(d)
  <2>1. EndBatch(d, "idle") /\ unpushed' = unpushed
    BY <1>11 DEF PushFails
  <2>2. CASE target' = target
    BY <2>1, <2>2, EndBatchPushOrder
  <2>3. CASE target' = target \cup tx[d]
    BY <1>1, <1>8, <2>1, <2>3 DEF EndBatch, TypeOK
  <2> QED
    BY <1>11, <2>2, <2>3 DEF PushFails
<1> QED
  BY <1>3, <1>4, <1>5, <1>6, <1>7, <1>9, <1>10, <1>11 DEF Push

(* A new event is newer than every other.                                  *)
LEMMA LocalPushOrder ==
    ASSUME OInv, NEW d \in Devices, NEW c \in Devices, Local(d)
    PROVE  PushOrder(c)'
<1>1. TypeOK /\ Ledger /\ Events(c) /\ Batch(c) /\ PushOrder(c)
  BY DEF OInv, JInv, IInv
<1>2. UNCHANGED <<target, tx, out>>
  BY DEF Local, Write, BootstrapRead, BootstrapRow
<1>3. UNCHANGED unpushed \/ \E e : e.id = clock + 1 /\ unpushed' = [unpushed EXCEPT ![d] = @ \cup {e}]
  BY DEF Local, Write, BootstrapRead, BootstrapRow, Capture
<1>4. Pushed(c)' = Pushed(c)
  BY <1>2 DEF Pushed
<1>5. \A f \in unpushed'[c] : f \in unpushed[c] \/ f.id = clock + 1
  <2>1. unpushed \in [Devices -> SUBSET Event]
    BY <1>1 DEF TypeOK
  <2> QED
    BY <1>3, <2>1
<1>6. \A f \in known[c] : f.created < clock + 1
  BY <1>1 DEF Events, TypeOK, Event
<1>7. \A r \in Pushed(c) : r.event \in known[c]
  BY <1>1 DEF Pushed, Ledger, Batch, Events, EventsOf
<1>8. \A e \in out[c] : e \in known[c]
  BY <1>1 DEF Batch, Events
<1>9. EventsOf(Pushed(c))' = EventsOf(Pushed(c))
  BY <1>4 DEF EventsOf
<1> QED
  BY <1>1, <1>2, <1>4, <1>5, <1>6, <1>7, <1>8, <1>9 DEF PushOrder

LEMMA PushPullOrder ==
    ASSUME OInv, TypeOK', NEW d \in Devices, NEW c \in Devices, Push(d) \/ PushFails(d)
    PROVE  PullOrder(c)'
<1>1. Applied(c) /\ PullOrder(c) /\ Batch(d)
  BY DEF OInv, JInv, IInv
<1>2. UNCHANGED <<known, hand, replayed>>
  BY PushFrame
<1>3. Turned(c)' = Turned(c) /\ Replayed(c)' = Replayed(c)
  BY <1>2 DEF Turned, Replayed
<1>4. \A r \in target' : r \notin target => r \in tx[d] /\ \A s \in target : s.seq < r.seq
  BY TargetGrows DEF OInv
<1>5. \A r \in target' : r.event \in Turned(c) => r \in target
  BY <1>1, <1>4 DEF Applied, Batch
<1>6. Replayed(c) \subseteq Turned(c) /\ \A i \in DOMAIN replayed[c] : replayed[c][i] \in Turned(c)
  BY DEF Turned, Replayed
<1> QED
  BY <1>1, <1>2, <1>3, <1>4, <1>5, <1>6 DEF PullOrder

LEMMA PullPullOrder ==
    ASSUME OInv, TypeOK', NEW d \in Devices, NEW c \in Devices, Pull(d) \/ PullFails(d)
    PROVE  PullOrder(c)'
<1>1. TypeOK /\ Ledger /\ Applied(c) /\ PullOrder(c) /\ Applied(d) /\ PullOrder(d)
  BY DEF OInv, JInv, IInv
<1>2. target' = target
  BY PullFrame
<1>3. \A r \in target : r.event # None /\ r.seq \in Nat
  BY <1>1, ExchangeAssumption DEF TypeOK, Entry
<1>4. ASSUME known'[c] = known[c], replayed'[c] = replayed[c], hand'[c] \in {hand[c], None}
      PROVE  PullOrder(c)'
  <2>1. Replayed(c)' = Replayed(c) /\ Turned(c)' \subseteq Turned(c)
    BY <1>4 DEF Turned, Replayed
  <2> QED
    BY <1>1, <1>2, <1>3, <1>4, <2>1 DEF PullOrder
<1>5. CASE PullRead(d) \/ MoveCursor(d)
  BY <1>4, <1>5 DEF PullRead, MoveCursor
<1>6. CASE PullFails(d)
  BY <1>1, <1>4, <1>6 DEF PullFails, TypeOK
<1>7. CASE PullInsert(d)
  <2>1. PICK n \in page[d] :
          /\ \A s \in page[d] : n.seq <= s.seq
          /\ known' = [known EXCEPT ![d] = @ \cup {n.event}]
          /\ hand' = [hand EXCEPT ![d] = IF Applies(d, n.event) THEN n.event ELSE None]
    BY <1>7 DEF PullInsert
  <2>2. hand[d] = None /\ replayed' = replayed
    BY <1>7 DEF PullInsert
  <2>3. CASE c # d
    BY <1>1, <1>4, <2>1, <2>2, <2>3 DEF TypeOK
  <2>4. CASE c = d
    <3>1. /\ known'[d] = known[d] \cup {n.event}
          /\ hand'[d] = IF Applies(d, n.event) THEN n.event ELSE None
          /\ Replayed(d)' = Replayed(d)
      BY <1>1, <2>1, <2>2 DEF TypeOK, Replayed
    <3>2. Turned(d)' \subseteq Turned(d) \cup {n.event} /\ Replayed(d) \subseteq Turned(d)
      BY <3>1 DEF Turned
    <3>3. n \in target
      BY <1>1 DEF Applied
    <3>4. \A s \in target : s.event \notin known'[d] => n.seq < s.seq
      <4> SUFFICES ASSUME NEW s \in target, s.event \notin known'[d] PROVE n.seq < s.seq
        OBVIOUS
      <4>1. s.event # n.event /\ s.event \notin known[d]
        BY <3>1
      <4>2. s # n /\ s.seq # n.seq
        BY <1>1, <3>3, <4>1 DEF Ledger, Entries
      <4>3. n.seq <= newest[d] /\ (s.seq <= newest[d] => s \in page[d])
        BY <4>1 DEF OInv, JInv, Reading
      <4>4. newest[d] \in Nat /\ n.seq \in Nat /\ s.seq \in Nat
        BY <1>1, <1>3, <3>3 DEF TypeOK
      <4> QED
        BY <2>1, <4>2, <4>3, <4>4
    <3>5. \A r \in target : r.event = n.event => r = n
      BY <1>1, <3>3 DEF Ledger, Entries
    <3>6. ASSUME NEW r \in target, NEW s \in target
          PROVE  /\ r.event \in Turned(d)' /\ s.event \notin known'[d] => r.seq < s.seq
                 /\ r.event \in Replayed(d)' /\ s.event = hand'[d] => r.seq < s.seq
      <4>1. ASSUME r.event \in Turned(d)', s.event \notin known'[d] PROVE r.seq < s.seq
        BY <1>1, <3>1, <3>2, <3>4, <3>5, <4>1 DEF PullOrder
      <4>2. ASSUME r.event \in Replayed(d)', s.event = hand'[d] PROVE r.seq < s.seq
        <5>1. s.event = n.event /\ n.event \notin known[d]
          BY <1>3, <3>1, <4>2 DEF Applies
        <5> QED
          BY <1>1, <3>1, <3>2, <4>2, <5>1 DEF PullOrder
      <4> QED
        BY <4>1, <4>2
    <3> QED
      BY <1>1, <1>2, <2>2, <2>4, <3>6 DEF PullOrder
  <2> QED
    BY <2>3, <2>4
<1>8. CASE PullApply(d)
  <2>1. /\ hand[d] # None /\ known' = known
        /\ replayed' = [replayed EXCEPT ![d] = Append(@, hand[d])]
        /\ hand' = [hand EXCEPT ![d] = None]
    BY <1>8 DEF PullApply
  <2>2. CASE c # d
    BY <1>1, <1>4, <2>1, <2>2 DEF TypeOK
  <2>3. CASE c = d
    <3> DEFINE q == replayed[d]
    <3>1. q \in Seq(Event) /\ hand[d] \in Event
      BY <1>1, <2>1 DEF TypeOK
    <3>2. hand'[d] = None /\ replayed'[d] = Append(q, hand[d])
      BY <1>1, <2>1 DEF TypeOK
    <3>3. /\ DOMAIN Append(q, hand[d]) = 1 .. Len(q) + 1 /\ DOMAIN q = 1 .. Len(q)
          /\ Len(q) \in Nat
          /\ Append(q, hand[d])[Len(q) + 1] = hand[d]
          /\ \A i \in DOMAIN q : Append(q, hand[d])[i] = q[i]
      BY <3>1
    <3>4. Replayed(d)' = Replayed(d) \cup {hand[d]}
      BY <3>2, <3>3 DEF Replayed
    <3>5. Turned(d)' = Turned(d)
      BY <2>1, <3>2, <3>4 DEF Turned
    <3>6. ASSUME NEW r \in target, NEW s \in target,
                 NEW i \in DOMAIN replayed'[d], NEW j \in DOMAIN replayed'[d],
                 i < j, r.event = replayed'[d][i], s.event = replayed'[d][j]
          PROVE  r.seq < s.seq
      <4>1. i \in DOMAIN q /\ r.event = q[i] /\ r.event \in Replayed(d)
        BY <3>2, <3>3, <3>6 DEF Replayed
      <4>2. CASE j \in DOMAIN q
        BY <1>1, <3>2, <3>3, <3>6, <4>1, <4>2 DEF PullOrder
      <4>3. CASE j = Len(q) + 1
        BY <1>1, <3>2, <3>3, <3>6, <4>1, <4>3 DEF PullOrder
      <4> QED
        BY <3>2, <3>3, <4>2, <4>3
    <3> HIDE DEF q
    <3> QED
      BY <1>1, <1>2, <1>3, <2>1, <2>3, <3>2, <3>5, <3>6 DEF PullOrder
  <2> QED
    BY <2>2, <2>3
<1> QED
  BY <1>5, <1>6, <1>7, <1>8 DEF Pull

LEMMA NextOInv == ShortTransactions /\ OInv /\ [Next]_vars => OInv'
<1> SUFFICES ASSUME ShortTransactions, OInv, [Next]_vars PROVE OInv'
  OBVIOUS
<1>1. JInv' /\ TypeOK' /\ IInv
  BY NextJInv DEF OInv, JInv, IInv
<1>2. ASSUME NEW c \in Devices, UNCHANGED <<target, tx, out, unpushed>> PROVE PushOrder(c)'
  <2>1. Pushed(c)' = Pushed(c)
    BY <1>2 DEF Pushed
  <2> QED
    BY <1>2, <2>1 DEF OInv, PushOrder, EventsOf
<1>3. ASSUME NEW c \in Devices, UNCHANGED <<target, hand, replayed>>,
             known[c] \subseteq known'[c]
      PROVE  PullOrder(c)'
  <2>1. Turned(c)' = Turned(c) /\ Replayed(c)' = Replayed(c)
    BY <1>3 DEF Turned, Replayed
  <2> QED
    BY <1>3, <2>1 DEF OInv, PullOrder
<1>4. ASSUME NEW d \in Devices, Local(d) PROVE OInv'
  <2>1. UNCHANGED <<target, hand, replayed>> /\ \A c \in Devices : known[c] \subseteq known'[c]
    BY <1>1, <1>4, LocalFrame
  <2> QED
    BY <1>1, <1>3, <1>4, <2>1, LocalPushOrder DEF OInv
<1>5. ASSUME NEW d \in Devices, Push(d) \/ PushFails(d) PROVE OInv'
  <2>1. \A c \in Devices : PushOrder(c)'
    BY <1>1, <1>5, OwnPushOrder, OthersPushOrder
  <2>2. \A c \in Devices : PullOrder(c)'
    BY <1>1, <1>5, PushPullOrder
  <2> QED
    BY <1>1, <2>1, <2>2 DEF OInv
<1>6. ASSUME NEW d \in Devices, Pull(d) \/ PullFails(d) PROVE OInv'
  <2>1. \A c \in Devices : PushOrder(c)'
    BY <1>2, <1>6, PullFrame
  <2>2. \A c \in Devices : PullOrder(c)'
    BY <1>1, <1>6, PullPullOrder
  <2> QED
    BY <1>1, <2>1, <2>2 DEF OInv
<1>7. CASE LeaseExpires \/ UNCHANGED vars
  <2>1. UNCHANGED <<known, unpushed, target, tx, out, hand, replayed>>
    BY <1>7 DEF LeaseExpires, vars
  <2> QED
    BY <1>1, <1>2, <1>3, <2>1 DEF OInv
<1> QED
  BY <1>4, <1>5, <1>6, <1>7 DEF Next

(* Of two events of one device for one row, the one written after the      *)
(* other was committed is never applied before it, as long as no           *)
(* transaction outlasts the lease (created_at orders the push, neon_seq    *)
(* the pull).                                                              *)
THEOREM Sorted == ASSUME ShortTransactions PROVE Spec => []NoRegression
<1>1. Init => OInv
  <2> SUFFICES ASSUME Init PROVE OInv
    OBVIOUS
  <2>1. ASSUME NEW d \in Devices PROVE PushOrder(d) /\ PullOrder(d)
    BY DEF Init, PushOrder, Pushed, PullOrder
  <2> QED
    BY <2>1, InitJInv DEF OInv
<1>2. OInv /\ [Next]_vars => OInv'
  BY NextOInv
<1>3. OInv => NoRegression
  <2> SUFFICES ASSUME OInv, NEW d \in Devices,
                      NEW i \in DOMAIN replayed[d], NEW j \in DOMAIN replayed[d], i < j,
                      replayed[d][i].device = replayed[d][j].device
               PROVE  replayed[d][i].created < replayed[d][j].id
    BY DEF NoRegression
  <2>1. /\ replayed[d][i] \in Turned(d) /\ replayed[d][j] \in Turned(d)
    BY DEF Turned, Replayed
  <2>2. replayed[d][i] \in EventsOf(target) /\ replayed[d][j] \in EventsOf(target)
    BY <2>1 DEF OInv, JInv, IInv, Applied
  <2>3. PICK r \in target, s \in target : r.event = replayed[d][i] /\ s.event = replayed[d][j]
    BY <2>2 DEF EventsOf
  <2>4. r.seq < s.seq
    BY <2>3 DEF OInv, PullOrder
  <2>5. r.event.device \in Devices
    BY DEF OInv, JInv, IInv, TypeOK, Entry, Event
  <2>6. r \in Pushed(r.event.device) /\ s \in Pushed(r.event.device)
    BY <2>3 DEF Pushed
  <2> QED
    BY <2>3, <2>4, <2>5, <2>6 DEF OInv, PushOrder
<1> QED
  BY <1>1, <1>2, <1>3, PTL DEF Spec
=============================================================================
