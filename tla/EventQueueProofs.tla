-------------------------- MODULE EventQueueProofs --------------------------
(***************************************************************************)
(* Type correctness of EventQueue, its durability invariant, and the proof *)
(* that it implements DurableIngest, for every number of events, every     *)
(* queue and batch size and every number of faults.                        *)
(***************************************************************************)
EXTENDS EventQueueProps, TLAPS

(* What the durability invariant rests on.  A request's row is the only    *)
(* one with its id, and every copy of a row (in the queue, in the batch,   *)
(* in the drain's hands) still names it.                                   *)
Owners ==
    /\ \A q \in queue : row[q.event] = q.id
    /\ \A q \in batch : row[q.event] = q.id
    /\ job # NoJob => row[job.event] = job.id
    /\ \A e \in Events : row[e] <= lastId
    /\ \A e, f \in Events : row[e] # 0 /\ row[e] = row[f] => e = f

(* A worker that got past the INSERT has put its event in memories.        *)
PastInsert == {"lost", "vector", "stored"}

Progress ==
    /\ pc[Drain] \in {"idle", "insert", "next"} \cup PastInsert
    /\ pc[Drain] \in {"insert"} \cup PastInsert => job # NoJob
    /\ pc[Drain] \in PastInsert => stored[job.event] > 0
    /\ \A e \in Events :
         /\ pc[e] \in {"idle", "insert", "done", "gone"} \cup PastInsert
         /\ pc[e] \in PastInsert => stored[e] > 0
         /\ pc[e] = "idle" => row[e] = 0 /\ stored[e] = 0
         /\ reply[e] # "none" => pc[e] = "done"
         /\ e \in discarded => row[e] # 0

IInv == TypeOK /\ Owners /\ Progress /\ NoSilentLoss /\ ReplyIsTrue

USE DEF disk, postgres, memory, ghosts

-----------------------------------------------------------------------------
(* Type correctness.                                                       *)

LEMMA InitType == Init => TypeOK
BY EventAssumption DEF Init, TypeOK, Workers, PC, Replies, Faults, Row

(* The workers' common code keeps the types; w is a handler or the drain.  *)
LEMMA StoreEventType ==
    ASSUME NEW w \in Workers, TypeOK, StoreEvent(w)
    PROVE  TypeOK'
<1> USE EventAssumption DEF Workers
<1>1. \A d \in PC : [pc EXCEPT ![w] = d] \in [Workers -> PC]
  BY DEF TypeOK
<1>2. \A f \in Faults : [faults EXCEPT ![f] = @ + 1] \in [Faults -> Nat]
  BY DEF TypeOK, Faults
<1>3. \A e \in Events : [stored EXCEPT ![e] = @ + 1] \in [Events -> Nat]
  BY DEF TypeOK
<1>4. ASSUME Fail(w) PROVE /\ pc' \in [Workers -> PC]
                          /\ reply' \in [Events -> Replies]
                          /\ batch' \in SUBSET Row
                          /\ job' \in Row \cup {NoJob}
  BY <1>1, <1>4 DEF Fail, EndTick, TypeOK, PC, Replies
<1>5. CASE InsertMemory(w)
  BY <1>1, <1>3, <1>5 DEF InsertMemory, Storable, Step, TypeOK, PC
<1>6. CASE InsertReplyLost(w)
  BY <1>1, <1>2, <1>3, <1>6 DEF InsertReplyLost, Storable, Step, Fault, TypeOK, PC, Faults
<1>7. CASE InsertFails(w)
  BY <1>4, <1>7 DEF InsertFails, TypeOK
<1>8. CASE StoreEmbedding(w)
  BY <1>1, <1>8 DEF StoreEmbedding, Step, TypeOK, PC
<1>9. CASE StoreEmbeddingFails(w)
  BY <1>4, <1>9 DEF StoreEmbeddingFails, TypeOK
<1> QED
  BY <1>5, <1>6, <1>7, <1>8, <1>9 DEF StoreEvent

LEMMA HandlerType ==
    ASSUME NEW e \in Events, TypeOK, Handler(e)
    PROVE  TypeOK'
<1> USE EventAssumption DEF Workers
<1>1. \A d \in PC : [pc EXCEPT ![e] = d] \in [Workers -> PC]
  BY DEF TypeOK
<1>2. \A f \in Faults : [faults EXCEPT ![f] = @ + 1] \in [Faults -> Nat]
  BY DEF TypeOK, Faults
<1>3. CASE Enqueue(e)
  <2>1. NextRowId \in Nat \ {0}
    BY DEF NextRowId, TypeOK
  <2>2. [id |-> NextRowId, event |-> e, stale |-> FALSE, readable |-> TRUE] \in Row
    BY <2>1 DEF Row
  <2>3. lastId' \in Nat /\ row' \in [Events -> Nat]
    BY <1>3, <2>1 DEF Enqueue, EnqueueRow, TypeOK
  <2>4. queue' \in SUBSET Row
    BY <1>3, <2>2 DEF Enqueue, EnqueueRow, TypeOK
  <2> QED
    BY <1>1, <1>3, <2>3, <2>4 DEF Enqueue, Step, TypeOK, PC
<1>4. CASE EnqueueFails(e)
  BY <1>1, <1>2, <1>4 DEF EnqueueFails, Step, Fault, TypeOK, PC, Faults
<1>5. CASE StoreEvent(e)
  BY <1>5, StoreEventType
<1>6. CASE Accept(e)
  BY <1>1, <1>2, <1>6 DEF Accept, RemoveRow, Step, Fault, TypeOK, PC, Faults, Replies
<1>7. CASE Disconnect(e)
  BY <1>1, <1>2, <1>7 DEF Disconnect, Fault, TypeOK, PC, Faults
<1> QED
  BY <1>3, <1>4, <1>5, <1>6, <1>7 DEF Handler

LEMMA DrainType ==
    ASSUME TypeOK, DrainTask
    PROVE  TypeOK'
<1> USE EventAssumption DEF Workers
<1>1. \A d \in PC : [pc EXCEPT ![Drain] = d] \in [Workers -> PC]
  BY DEF TypeOK
<1>2. \A f \in Faults : [faults EXCEPT ![f] = @ + 1] \in [Faults -> Nat]
  BY DEF TypeOK, Faults
<1>3. CASE ReadBatch
  <2>1. StaleRows \subseteq queue
    BY DEF StaleRows
  <2> QED
    BY <1>1, <1>3, <2>1 DEF ReadBatch, Step, TypeOK, PC
<1>4. CASE TakeRow
  BY <1>1, <1>4 DEF TakeRow, Step, TypeOK, PC
<1>5. CASE DropUnreadable
  <2>1. PICK q \in batch :
          \/ /\ RemoveRow(q.id)
             /\ batch' = batch \ {q}
             /\ discarded' = discarded \cup {q.event}
             /\ UNCHANGED <<pc, job, faults>>
          \/ Fault("disk") /\ EndTick /\ UNCHANGED <<queue, discarded>>
    BY <1>5 DEF DropUnreadable
  <2>2. q.event \in Events
    BY DEF TypeOK, Row
  <2> QED
    BY <1>1, <1>2, <1>5, <2>1, <2>2
    DEF DropUnreadable, RemoveRow, EndTick, Fault, TypeOK, PC, Faults
<1>6. CASE StoreEvent(Drain)
  BY <1>6, StoreEventType
<1>7. CASE DrainStored
  BY <1>1, <1>2, <1>7 DEF DrainStored, RemoveRow, Step, EndTick, Fault, TypeOK, PC, Faults
<1>8. CASE DrainDone
  BY <1>1, <1>8 DEF DrainDone, EndTick, TypeOK, PC
<1> QED
  BY <1>3, <1>4, <1>5, <1>6, <1>7, <1>8 DEF DrainTask

LEMMA EnvironmentType ==
    ASSUME TypeOK, Environment
    PROVE  TypeOK'
<1> USE EventAssumption DEF Workers
<1>1. \A f \in Faults : [faults EXCEPT ![f] = @ + 1] \in [Faults -> Nat]
  BY DEF TypeOK, Faults
<1>2. CASE Age
  <2>1. PICK q \in queue :
          /\ queue' = (queue \ {q}) \cup {[q EXCEPT !.stale = TRUE]}
          /\ slow' = IF pc[q.event] \in InFlight THEN slow \cup {q.event} ELSE slow
    BY <1>2 DEF Age
  <2>2. q.event \in Events /\ [q EXCEPT !.stale = TRUE] \in Row
    BY DEF TypeOK, Row
  <2> QED
    BY <1>2, <2>1, <2>2 DEF Age, TypeOK
<1>3. CASE Crash
  BY <1>1, <1>3 DEF Crash, Fault, TypeOK, PC, Faults
<1>4. CASE Restart
  <2>1. ASSUME NEW q \in queue PROVE [q EXCEPT !.readable = FALSE] \in Row
    BY DEF TypeOK, Row
  <2> QED
    BY <1>4, <2>1 DEF Restart, TypeOK
<1>5. CASE Outage
  BY <1>1, <1>5 DEF Outage, Fault, TypeOK, Faults
<1>6. CASE Recover
  BY <1>6 DEF Recover, TypeOK
<1> QED
  BY <1>2, <1>3, <1>4, <1>5, <1>6 DEF Environment

LEMMA NextType == TypeOK /\ [Next]_vars => TypeOK'
<1> SUFFICES ASSUME TypeOK, [Next]_vars PROVE TypeOK'
  OBVIOUS
<1>1. CASE UNCHANGED vars
  BY <1>1 DEF vars, TypeOK
<1>2. CASE Next
  BY <1>2, HandlerType, DrainType, EnvironmentType DEF Next
<1> QED
  BY <1>1, <1>2

(* Every variable keeps its type, whatever the constants. *)
THEOREM TypeCorrect == Spec => []TypeOK
BY InitType, NextType, PTL DEF Spec

-----------------------------------------------------------------------------
(* Durability.                                                             *)

Inv == Owners /\ Progress /\ NoSilentLoss /\ ReplyIsTrue

LEMMA InitInv == Init => Inv
BY EventAssumption
DEF Init, Inv, Owners, Progress, PastInsert, NoSilentLoss, ReplyIsTrue, Captured,
    Queued, Workers

(* While the queue and the drain's copies of its rows stay as they are, a  *)
(* step of store_event can only disturb Progress and the replies.          *)
LEMMA InsertInv ==
    ASSUME NEW w \in Workers, TypeOK, Inv, InsertMemory(w) \/ InsertReplyLost(w)
    PROVE  Inv'
<1> DEFINE e == EventOf(w)
<1>1. /\ e \in Events
      /\ w = Drain => e = job.event
      /\ w # Drain => e = w
      /\ stored' = [stored EXCEPT ![e] = @ + 1]
      /\ \E d \in PastInsert : pc' = [pc EXCEPT ![w] = d]
      /\ pc[w] = "insert"
      /\ UNCHANGED <<queue, lastId, row, reply, batch, job, discarded>>
  BY DEF InsertMemory, InsertReplyLost, Storable, EventOf, Step, PastInsert
<1>2. \A f \in Events : /\ stored[f] > 0 => stored'[f] > 0
                        /\ f = e => stored'[f] > 0
  BY <1>1 DEF TypeOK
<1>3. Owners' /\ ReplyIsTrue'
  BY <1>1, <1>2 DEF Inv, Owners, ReplyIsTrue, Captured, TypeOK
<1>4. NoSilentLoss'
  BY <1>1, <1>2 DEF Inv, NoSilentLoss, Captured, Queued, TypeOK
<1>5. Progress'
  <2>1. pc \in [Workers -> PC] /\ pc' \in [Workers -> PC]
    BY <1>1 DEF TypeOK, PC, PastInsert
  <2>2. CASE w = Drain
    <3>1. pc'[Drain] \in PastInsert /\ job # NoJob /\ stored'[job.event] > 0
      BY <1>1, <1>2, <2>1, <2>2 DEF Inv, Progress, Workers
    <3>2. \A f \in Events : pc'[f] = pc[f] /\ pc[f] \in PC
      BY <1>1, <2>1, <2>2, EventAssumption DEF Workers
    <3>3. row[e] # 0
      BY <1>1, <2>2, <3>1 DEF Inv, Owners, TypeOK, Row
    <3>4. \A f \in Events : pc[f] = "idle" => stored'[f] = 0
      BY <1>1, <3>3 DEF Inv, Progress, TypeOK
    <3> QED
      BY <1>1, <1>2, <3>1, <3>2, <3>4 DEF Inv, Progress, PastInsert, TypeOK
  <2>3. CASE w # Drain
    <3>1. w = e /\ w \in Events /\ pc'[w] \in PastInsert /\ pc'[Drain] = pc[Drain]
      BY <1>1, <2>1, <2>3, EventAssumption DEF Workers
    <3>2. \A f \in Events \ {w} : pc'[f] = pc[f] /\ stored'[f] = stored[f]
      BY <1>1, <2>1, <2>3, <3>1 DEF TypeOK
    <3>3. job # NoJob => job.event \in Events
      BY DEF TypeOK, Row
    <3>4. pc[Drain] \in PastInsert => stored'[job.event] > 0
      BY <1>2, <3>3 DEF Inv, Progress, PastInsert
    <3> QED
      BY <1>1, <1>2, <3>1, <3>2, <3>4 DEF Inv, Progress, PastInsert, TypeOK
  <2> QED
    BY <2>2, <2>3
<1> QED
  BY <1>3, <1>4, <1>5 DEF Inv

(* A failure of store_event leaves queue and store alone: what a handler   *)
(* then answers is true because its row is still there or its event is.    *)
LEMMA FailInv ==
    ASSUME NEW w \in Workers, TypeOK, Inv, Fail(w),
           pc[w] \in {"insert"} \cup PastInsert,
           UNCHANGED <<queue, lastId, stored, row, discarded>>
    PROVE  Inv'
<1> USE EventAssumption
<1>1. CASE w = Drain
  BY <1>1 DEF Fail, EndTick, Inv, Owners, Progress, PastInsert, NoSilentLoss,
              ReplyIsTrue, Captured, Queued, TypeOK, Workers, Row
<1>2. CASE w # Drain
  <2>1. w \in Events /\ pc[w] # "idle"
    BY <1>2 DEF Workers, PastInsert
  <2>2. Owners' /\ NoSilentLoss'
    BY <1>2 DEF Fail, Inv, Owners, NoSilentLoss, Captured, Queued
  <2>3. Progress'
    BY <1>2, <2>1 DEF Fail, Inv, Progress, PastInsert, TypeOK, Workers, Replies
  <2>4. ReplyIsTrue'
    BY <1>2, <2>1 DEF Fail, Inv, ReplyIsTrue, Captured, TypeOK, Replies
  <2> QED
    BY <2>2, <2>3, <2>4 DEF Inv
<1> QED
  BY <1>1, <1>2

LEMMA StoreEventInv ==
    ASSUME NEW w \in Workers, TypeOK, Inv, StoreEvent(w)
    PROVE  Inv'
<1>1. CASE InsertMemory(w) \/ InsertReplyLost(w)
  BY <1>1, InsertInv
<1>2. CASE InsertFails(w)
  BY <1>2, FailInv DEF InsertFails, PastInsert
<1>3. CASE StoreEmbeddingFails(w)
  BY <1>3, FailInv DEF StoreEmbeddingFails, PastInsert
<1>4. CASE StoreEmbedding(w)
  BY <1>4, EventAssumption
  DEF StoreEmbedding, Step, Inv, Owners, Progress, PastInsert, NoSilentLoss,
      ReplyIsTrue, Captured, Queued, TypeOK, Workers
<1> QED
  BY <1>1, <1>2, <1>3, <1>4 DEF StoreEvent

(* Removing a row whose event is stored, or dropping one that nobody can   *)
(* read: no other event's row goes with it, for a row has one owner.       *)
LEMMA RemoveInv ==
    ASSUME NEW e \in Events, TypeOK, Inv, row[e] # 0, RemoveRow(row[e]),
           UNCHANGED <<row, stored>>,
           discarded \subseteq discarded',
           stored[e] > 0 \/ e \in discarded'
    PROVE  NoSilentLoss'
<1> SUFFICES ASSUME NEW f \in Events, Captured(f)
             PROVE  (Queued(f) \/ stored[f] > 0 \/ f \in discarded)'
  BY DEF NoSilentLoss, Captured
<1>1. CASE f = e
  BY <1>1
<1>2. CASE f # e
  <2>1. row[f] # row[e]
    BY <1>2 DEF Inv, Owners, Captured
  <2>2. CASE Queued(f)
    <3>1. PICK q \in queue : q.event = f
      BY <2>2 DEF Queued
    <3>2. q.id = row[f]
      BY <3>1 DEF Inv, Owners
    <3> QED
      BY <2>1, <3>1, <3>2 DEF RemoveRow, Queued
  <2> QED
    BY <2>2 DEF Inv, NoSilentLoss
<1> QED
  BY <1>1, <1>2

LEMMA HandlerInv ==
    ASSUME NEW e \in Events, TypeOK, Inv, Handler(e)
    PROVE  Inv'
<1> USE EventAssumption DEF Workers
<1>1. CASE Enqueue(e)
  <2>1. /\ pc[e] = "idle" /\ pc' = [pc EXCEPT ![e] = "insert"]
        /\ lastId' = lastId + 1
        /\ row' = [row EXCEPT ![e] = lastId + 1]
        /\ row[e] = 0 /\ stored[e] = 0
        /\ UNCHANGED <<stored, reply, batch, job, discarded>>
    BY <1>1 DEF Enqueue, EnqueueRow, NextRowId, Step, Inv, Progress
  <2>2. \E q : q.event = e /\ q.id = lastId + 1 /\ queue' = queue \cup {q}
    <3> WITNESS [id |-> lastId + 1, event |-> e, stale |-> FALSE, readable |-> TRUE]
    <3> QED
      BY <1>1 DEF Enqueue, EnqueueRow, NextRowId
  <2>3. \A q \in queue \cup batch : q.event # e /\ q.event \in Events
    BY <2>1 DEF Inv, Owners, TypeOK, Row
  <2>4. job # NoJob => job.event # e /\ job.event \in Events
    BY <2>1 DEF Inv, Owners, TypeOK, Row
  <2>5. Owners'
    BY <2>1, <2>2, <2>3, <2>4 DEF Inv, Owners, TypeOK
  <2>6. Progress'
    BY <2>1 DEF Inv, Progress, PastInsert, TypeOK
  <2>7. NoSilentLoss'
    BY <2>1, <2>2 DEF Inv, NoSilentLoss, Captured, Queued, TypeOK
  <2>8. ReplyIsTrue'
    BY <2>1 DEF Inv, ReplyIsTrue, Captured, TypeOK
  <2> QED
    BY <2>5, <2>6, <2>7, <2>8 DEF Inv
<1>2. CASE EnqueueFails(e)
  <2>1. /\ pc[e] = "idle" /\ pc' = [pc EXCEPT ![e] = "insert"]
        /\ UNCHANGED <<queue, lastId, stored, row, reply, batch, job, discarded>>
    BY <1>2 DEF EnqueueFails, Step, disk, postgres, ghosts
  <2> QED
    BY <2>1 DEF Inv, Owners, Progress, PastInsert, NoSilentLoss, ReplyIsTrue,
                Captured, Queued, TypeOK
<1>3. CASE StoreEvent(e)
  BY <1>3, StoreEventInv
<1>4. CASE Accept(e)
  <2>1. /\ pc[e] = "stored" /\ pc' = [pc EXCEPT ![e] = "done"]
        /\ reply' = [reply EXCEPT ![e] = "accepted"]
        /\ stored[e] > 0
        /\ queue' \subseteq queue
        /\ queue' = queue \/ (row[e] # 0 /\ RemoveRow(row[e]))
        /\ UNCHANGED <<lastId, stored, row, batch, job, discarded>>
    BY <1>4 DEF Accept, RemoveRow, Step, Inv, Progress, PastInsert
  <2>2. Owners' /\ ReplyIsTrue'
    BY <2>1 DEF Inv, Owners, ReplyIsTrue, Captured, TypeOK
  <2>3. Progress'
    BY <2>1 DEF Inv, Progress, PastInsert, TypeOK
  <2>4. NoSilentLoss'
    <3>1. CASE queue' = queue
      BY <2>1, <3>1 DEF Inv, NoSilentLoss, Captured, Queued
    <3>2. CASE row[e] # 0 /\ RemoveRow(row[e])
      BY <2>1, <3>2, RemoveInv
    <3> QED
      BY <2>1, <3>1, <3>2
  <2> QED
    BY <2>2, <2>3, <2>4 DEF Inv
<1>5. CASE Disconnect(e)
  BY <1>5 DEF Disconnect, InFlight, Inv, Owners, Progress, PastInsert, NoSilentLoss,
              ReplyIsTrue, Captured, Queued, TypeOK
<1> QED
  BY <1>1, <1>2, <1>3, <1>4, <1>5 DEF Handler

LEMMA DrainInv ==
    ASSUME TypeOK, Inv, DrainTask
    PROVE  Inv'
<1> USE EventAssumption DEF Workers
<1>1. CASE ReadBatch
  <2>1. StaleRows \subseteq queue
    BY DEF StaleRows
  <2> QED
    BY <1>1, <2>1 DEF ReadBatch, Step, Inv, Owners, Progress, PastInsert, NoSilentLoss,
                      ReplyIsTrue, Captured, Queued, TypeOK
<1>2. CASE TakeRow
  <2>1. PICK q \in batch : job' = q /\ batch' = batch \ {q}
    BY <1>2 DEF TakeRow
  <2>2. q \in Row /\ q # NoJob /\ row[q.event] = q.id
    BY DEF TypeOK, Inv, Owners, Row, NoJob
  <2>3. /\ pc[Drain] = "next" /\ pc' = [pc EXCEPT ![Drain] = "insert"]
        /\ UNCHANGED <<queue, lastId, stored, row, reply, discarded>>
    BY <1>2 DEF TakeRow, Step
  <2> QED
    BY <2>1, <2>2, <2>3 DEF Inv, Owners, Progress, PastInsert, NoSilentLoss,
                            ReplyIsTrue, Captured, Queued, TypeOK
<1>3. CASE DropUnreadable
  <2>1. PICK q \in batch :
          \/ /\ RemoveRow(q.id)
             /\ batch' = batch \ {q}
             /\ discarded' = discarded \cup {q.event}
             /\ UNCHANGED <<pc, job, faults>>
          \/ Fault("disk") /\ EndTick /\ UNCHANGED <<queue, discarded>>
    BY <1>3 DEF DropUnreadable
  <2>2. q.event \in Events /\ row[q.event] = q.id /\ q.id # 0
    BY DEF TypeOK, Inv, Owners, Row
  <2>3. UNCHANGED <<lastId, stored, row, reply>>
    BY <1>3 DEF DropUnreadable
  <2>4. CASE RemoveRow(q.id) /\ batch' = batch \ {q} /\ UNCHANGED <<pc, job>>
             /\ discarded' = discarded \cup {q.event}
    <3>1. NoSilentLoss'
      BY <2>2, <2>3, <2>4, RemoveInv
    <3>2. Owners' /\ Progress' /\ ReplyIsTrue'
      BY <2>2, <2>3, <2>4
      DEF RemoveRow, Inv, Owners, Progress, PastInsert, ReplyIsTrue, Captured, TypeOK
    <3> QED
      BY <3>1, <3>2 DEF Inv
  <2>5. CASE EndTick /\ UNCHANGED <<queue, discarded>>
    BY <2>3, <2>5 DEF EndTick, Inv, Owners, Progress, PastInsert, NoSilentLoss,
                      ReplyIsTrue, Captured, Queued, TypeOK
  <2> QED
    BY <2>1, <2>4, <2>5
<1>4. CASE StoreEvent(Drain)
  BY <1>4, StoreEventInv
<1>5. CASE DrainStored
  <2>1. /\ pc[Drain] = "stored" /\ job # NoJob /\ stored[job.event] > 0
        /\ job \in Row /\ job.event \in Events /\ row[job.event] = job.id /\ job.id # 0
        /\ UNCHANGED <<lastId, stored, row, reply, discarded>>
    BY <1>5 DEF DrainStored, Inv, Progress, PastInsert, Owners, TypeOK, Row
  <2>2. CASE /\ pc' = [pc EXCEPT ![Drain] = "next"] /\ RemoveRow(job.id)
             /\ job' = NoJob /\ batch' = batch
    <3>1. NoSilentLoss'
      BY <2>1, <2>2, RemoveInv
    <3>2. Owners' /\ Progress' /\ ReplyIsTrue'
      BY <2>1, <2>2
      DEF RemoveRow, Inv, Owners, Progress, PastInsert, ReplyIsTrue, Captured, TypeOK
    <3> QED
      BY <3>1, <3>2 DEF Inv
  <2>3. CASE EndTick /\ UNCHANGED queue
    BY <2>1, <2>3 DEF EndTick, Inv, Owners, Progress, PastInsert, NoSilentLoss,
                      ReplyIsTrue, Captured, Queued, TypeOK
  <2> QED
    BY <1>5, <2>2, <2>3 DEF DrainStored, Step
<1>6. CASE DrainDone
  BY <1>6 DEF DrainDone, EndTick, Inv, Owners, Progress, PastInsert, NoSilentLoss,
              ReplyIsTrue, Captured, Queued, TypeOK
<1> QED
  BY <1>1, <1>2, <1>3, <1>4, <1>5, <1>6 DEF DrainTask

LEMMA EnvironmentInv ==
    ASSUME TypeOK, Inv, Environment
    PROVE  Inv'
<1> USE EventAssumption DEF Workers
<1>1. ASSUME NEW q \in queue, NEW p \in Row, p.id = q.id, p.event = q.event,
             queue' = (queue \ {q}) \cup {p},
             UNCHANGED <<lastId, stored, memory, reply, discarded>>
      PROVE  Inv'
  <2>1. Owners' /\ Progress' /\ ReplyIsTrue'
    BY <1>1 DEF Inv, Owners, Progress, PastInsert, ReplyIsTrue, Captured
  <2>2. \A e \in Events : Queued(e) => Queued(e)'
    BY <1>1 DEF Queued
  <2>3. NoSilentLoss'
    BY <1>1, <2>2 DEF Inv, NoSilentLoss, Captured
  <2> QED
    BY <2>1, <2>3 DEF Inv
<1>2. ASSUME UNCHANGED <<queue, lastId, stored, memory, reply, discarded>>
      PROVE  Inv'
  BY <1>2 DEF Inv, Owners, Progress, PastInsert, NoSilentLoss, ReplyIsTrue, Captured,
              Queued
<1>3. CASE Age
  <2>1. PICK q \in queue : queue' = (queue \ {q}) \cup {[q EXCEPT !.stale = TRUE]}
    BY <1>3 DEF Age
  <2>2. /\ [q EXCEPT !.stale = TRUE] \in Row
        /\ [q EXCEPT !.stale = TRUE].id = q.id
        /\ [q EXCEPT !.stale = TRUE].event = q.event
    BY DEF TypeOK, Row
  <2> QED
    BY <1>1, <1>3, <2>1, <2>2 DEF Age
<1>4. CASE Crash
  BY <1>4 DEF Crash, InFlight, Inv, Owners, Progress, PastInsert, NoSilentLoss,
              ReplyIsTrue, Captured, Queued, TypeOK
<1>5. CASE Restart
  <2>1. ASSUME NEW q \in queue
        PROVE  /\ [q EXCEPT !.readable = FALSE] \in Row
               /\ [q EXCEPT !.readable = FALSE].id = q.id
               /\ [q EXCEPT !.readable = FALSE].event = q.event
    BY DEF TypeOK, Row
  <2> QED
    BY <1>1, <1>2, <1>5, <2>1 DEF Restart
<1>6. CASE Outage \/ Recover
  BY <1>2, <1>6 DEF Outage, Recover
<1> QED
  BY <1>3, <1>4, <1>5, <1>6 DEF Environment

LEMMA NextInv == TypeOK /\ Inv /\ [Next]_vars => Inv'
<1> SUFFICES ASSUME TypeOK, Inv, [Next]_vars PROVE Inv'
  OBVIOUS
<1>1. CASE UNCHANGED vars
  BY <1>1 DEF vars, Inv, Owners, Progress, PastInsert, NoSilentLoss, ReplyIsTrue,
              Captured, Queued
<1>2. CASE Next
  BY <1>2, HandlerInv, DrainInv, EnvironmentInv DEF Next
<1> QED
  BY <1>1, <1>2

LEMMA InvCorrect == Spec => []Inv
BY InitType, NextType, InitInv, NextInv, PTL DEF Spec

(* An event that reached the queue is never lost: it is on the queue's     *)
(* disk, in PostgreSQL, or logged as unreadable, in every reachable state. *)
THEOREM Durability == Spec => []NoSilentLoss
BY InvCorrect, PTL DEF Inv

(* No client is told more than what has happened to its event. *)
THEOREM TruthfulReplies == Spec => []ReplyIsTrue
BY InvCorrect, PTL DEF Inv

(* A remove by id can only hit the row whose id was read. *)
THEOREM OneOwner == Spec => []RowsHaveOneOwner
<1>1. Inv => RowsHaveOneOwner
  BY DEF Inv, Owners, RowsHaveOneOwner, Captured
<1> QED
  BY <1>1, InvCorrect, PTL

-----------------------------------------------------------------------------
(* Duplicates.  As long as nothing has failed, an event whose row was      *)
(* never too old for its handler is out of the drain's reach: while the    *)
(* handler is at work its row is young and in no batch, and afterwards     *)
(* there is no row.                                                        *)
Calm == \A f \in Faults : faults[f] = 0

Undrained(e) == /\ \A q \in queue : q.event = e => ~q.stale
                /\ \A q \in batch : q.event # e
                /\ job.event # e

Prompt(e) ==
    /\ pc[e] \in {"idle", "insert", "vector", "stored", "done"}
    /\ (pc[e] \in {"idle", "insert"}) => (stored[e] = 0)
    /\ stored[e] <= 1
    /\ (e \in Poison) => (stored[e] = 0)
    /\ (e \notin Poison) => Undrained(e)
    /\ (e \notin Poison /\ pc[e] = "done") => (\A q \in queue : q.event # e)

DInv == Calm => (pgUp /\ serverUp /\ \A e \in Events \ slow : Prompt(e))

LEMMA InitDInv == Init => DInv
  BY EventAssumption DEF Init, DInv, Calm, Prompt, Undrained, NoJob, Workers

(* A fault ends the calm for good. *)
LEMMA FaultEnds == ASSUME TypeOK, NEW f \in Faults, Fault(f) PROVE ~Calm'
<1>1. faults' = [faults EXCEPT ![f] = @ + 1] /\ faults \in [Faults -> Nat]
  BY DEF Fault, TypeOK
<1>2. faults'[f] = faults[f] + 1 /\ faults[f] \in Nat
  BY <1>1
<1> QED
  BY <1>2 DEF Calm

LEMMA FaultKinds == /\ "crash" \in Faults /\ "outage" \in Faults
                    /\ "disk" \in Faults /\ "disconnect" \in Faults
  BY DEF Faults

(* What one event sees of a step that is not about it. *)
LEMMA NotAbout ==
    ASSUME TypeOK, NEW e \in Events, Prompt(e), pc'[e] = pc[e], stored'[e] = stored[e],
           \A q \in queue' : q.event = e => q \in queue,
           \A q \in batch' : q.event = e => (q \in batch \/ (q \in queue /\ q.stale)),
           job'.event = e => (job.event = e \/ \E q \in batch : q.event = e)
    PROVE  Prompt(e)'
  BY DEF Prompt, Undrained

LEMMA StoreEventDInv ==
    ASSUME TypeOK, Inv, DInv, NEW w \in Workers, StoreEvent(w), Calm', Calm,
           NEW e \in Events \ slow, Prompt(e), pgUp
    PROVE  Prompt(e)'
<1> USE EventAssumption DEF Workers
<1>0. pc \in [Workers -> PC] /\ stored \in [Events -> Nat] /\ e \in Workers
  BY DEF TypeOK
<1>1. CASE InsertMemory(w)
  <2>1. PICK to \in {"vector", "stored"} : pc[w] = "insert" /\ pc' = [pc EXCEPT ![w] = to]
    BY <1>1 DEF InsertMemory, Step
  <2>2. /\ stored' = [stored EXCEPT ![EventOf(w)] = @ + 1] /\ EventOf(w) \in Events \ Poison
        /\ UNCHANGED <<queue, batch, job>>
    BY <1>1 DEF InsertMemory, Storable
  <2>3. CASE w = e
    <3>1. EventOf(w) = e /\ pc'[e] = to /\ stored'[e] = stored[e] + 1
      BY <1>0, <2>1, <2>2, <2>3 DEF EventOf
    <3>2. stored[e] = 0 /\ e \notin Poison
      BY <2>1, <2>2, <2>3, <3>1 DEF Prompt
    <3> QED
      BY <2>1, <2>2, <3>1, <3>2 DEF Prompt, Undrained
  <2>4. CASE w # e
    <3>1. EventOf(w) # e
      BY <2>2, <2>4 DEF EventOf, Prompt, Undrained
    <3>2. pc'[e] = pc[e] /\ stored'[e] = stored[e]
      BY <1>0, <2>1, <2>2, <2>4, <3>1
    <3> QED
      BY <2>2, <3>2, NotAbout
  <2> QED
    BY <2>3, <2>4
<1>2. ~InsertReplyLost(w)
  BY FaultEnds, FaultKinds DEF InsertReplyLost
<1>3. CASE StoreEmbedding(w)
  <2>1. /\ pc[w] = "vector" /\ pc' = [pc EXCEPT ![w] = "stored"]
        /\ UNCHANGED <<queue, stored, batch, job>>
    BY <1>3 DEF StoreEmbedding, Step
  <2> QED
    BY <1>0, <2>1 DEF Prompt, Undrained
<1>4. ~StoreEmbeddingFails(w)
  BY DEF StoreEmbeddingFails
<1>5. CASE InsertFails(w)
  <2>1. UNCHANGED <<queue, stored>> /\ Fail(w)
    BY <1>5 DEF InsertFails
  <2>2. CASE w = Drain
    <3>1. pc'[e] = pc[e] /\ batch' = {} /\ job' = NoJob
      BY <1>0, <2>1, <2>2 DEF Fail, EndTick
    <3> QED
      BY <2>1, <3>1, NotAbout DEF NoJob
  <2>3. CASE w # Drain /\ w # e
    <3>1. pc'[e] = pc[e] /\ batch' = batch /\ job' = job
      BY <1>0, <2>1, <2>3 DEF Fail
    <3> QED
      BY <2>1, <3>1, NotAbout
  <2>4. CASE w = e
    <3>1. pc[e] = "insert" /\ e \in Poison
      BY <1>5, <2>4 DEF InsertFails, EventOf, Prompt
    <3>2. pc'[e] = "done" /\ UNCHANGED <<batch, job>>
      BY <1>0, <2>1, <2>4 DEF Fail
    <3> QED
      BY <2>1, <3>1, <3>2 DEF Prompt
  <2> QED
    BY <2>2, <2>3, <2>4
<1> QED
  BY <1>1, <1>2, <1>3, <1>4, <1>5 DEF StoreEvent

LEMMA HandlerDInv ==
    ASSUME TypeOK, Inv, DInv, NEW d \in Events, Handler(d), Calm', Calm,
           NEW e \in Events \ slow, Prompt(e), pgUp
    PROVE  Prompt(e)'
<1> USE EventAssumption DEF Workers
<1>0. pc \in [Workers -> PC] /\ stored \in [Events -> Nat] /\ e \in Workers /\ queue \in SUBSET Row
  BY DEF TypeOK
<1>1. CASE Enqueue(d)
  <2>1. PICK r : r = [id |-> NextRowId, event |-> d, stale |-> FALSE, readable |-> TRUE]
    OBVIOUS
  <2>2. /\ pc[d] = "idle" /\ pc' = [pc EXCEPT ![d] = "insert"] /\ queue' = queue \cup {r}
        /\ UNCHANGED <<stored, batch, job>>
    BY <1>1, <2>1 DEF Enqueue, EnqueueRow, Step
  <2>3. r.event = d /\ r.stale = FALSE
    BY <2>1
  <2>4. CASE d = e
    BY <1>0, <2>2, <2>3, <2>4 DEF Prompt, Undrained
  <2>5. CASE d # e
    BY <1>0, <2>2, <2>3, <2>5, NotAbout
  <2> QED
    BY <2>4, <2>5
<1>2. CASE EnqueueFails(d)
  <2>1. /\ pc[d] = "idle" /\ pc' = [pc EXCEPT ![d] = "insert"]
        /\ UNCHANGED <<queue, stored, batch, job>>
    BY <1>2 DEF EnqueueFails, Step
  <2> QED
    BY <1>0, <2>1 DEF Prompt, Undrained
<1>3. CASE StoreEvent(d)
  BY <1>3, StoreEventDInv
<1>4. CASE Accept(d)
  <2>1. /\ pc[d] = "stored" /\ pc' = [pc EXCEPT ![d] = "done"] /\ UNCHANGED <<stored, batch, job>>
        /\ queue' \subseteq queue
    BY <1>4 DEF Accept, Step, RemoveRow
  <2>2. (row[d] # 0 /\ RemoveRow(row[d])) \/ (row[d] = 0 /\ queue' = queue)
    BY <1>4, FaultEnds, FaultKinds DEF Accept
  <2>3. \A q \in queue' : q.event # d
    <3>1. \A q \in queue : q.event = d => q.id = row[d] /\ q.id # 0
      BY <1>0 DEF Inv, Owners, Row
    <3> QED
      BY <2>1, <2>2, <3>1 DEF RemoveRow
  <2>4. CASE d = e
    BY <1>0, <2>1, <2>3, <2>4 DEF Prompt, Undrained
  <2>5. CASE d # e
    BY <1>0, <2>1, <2>5, NotAbout
  <2> QED
    BY <2>4, <2>5
<1>5. ~Disconnect(d)
  BY FaultEnds, FaultKinds DEF Disconnect
<1> QED
  BY <1>1, <1>2, <1>3, <1>4, <1>5 DEF Handler

LEMMA DrainDInv ==
    ASSUME TypeOK, Inv, DInv, DrainTask, Calm', Calm, NEW e \in Events \ slow, Prompt(e), pgUp
    PROVE  Prompt(e)'
<1> USE EventAssumption DEF Workers
<1>0. pc \in [Workers -> PC] /\ e \in Workers /\ e # Drain
  BY DEF TypeOK
<1>1. CASE ReadBatch
  <2>1. \A q \in StaleRows : q \in queue /\ q.stale
    BY DEF StaleRows
  <2>2. pc'[e] = pc[e] /\ batch' = StaleRows /\ UNCHANGED <<queue, stored, job>>
    BY <1>0, <1>1 DEF ReadBatch, Step
  <2> QED
    BY <2>1, <2>2, NotAbout
<1>2. CASE TakeRow
  <2>1. PICK q \in batch : job' = q /\ batch' = batch \ {q}
    BY <1>2 DEF TakeRow
  <2>2. pc'[e] = pc[e] /\ UNCHANGED <<queue, stored>>
    BY <1>0, <1>2 DEF TakeRow, Step
  <2> QED
    BY <2>1, <2>2, NotAbout
<1>3. CASE DropUnreadable
  <2>1. /\ pc' = pc /\ job' = job /\ stored' = stored
        /\ queue' \subseteq queue /\ batch' \subseteq batch
    BY <1>3, FaultEnds, FaultKinds DEF DropUnreadable, RemoveRow
  <2> QED
    BY <2>1, NotAbout
<1>4. CASE StoreEvent(Drain)
  BY <1>4, StoreEventDInv
<1>5. CASE DrainStored
  <2>1. /\ pc'[e] = pc[e] /\ job' = NoJob /\ stored' = stored
        /\ queue' \subseteq queue /\ batch' = batch
    BY <1>0, <1>5, FaultEnds, FaultKinds DEF DrainStored, RemoveRow, Step
  <2> QED
    BY <2>1, NotAbout DEF NoJob
<1>6. CASE DrainDone
  <2>1. pc'[e] = pc[e] /\ job' = NoJob /\ batch' = {} /\ UNCHANGED <<queue, stored>>
    BY <1>0, <1>6 DEF DrainDone, EndTick
  <2> QED
    BY <2>1, NotAbout DEF NoJob
<1> QED
  BY <1>1, <1>2, <1>3, <1>4, <1>5, <1>6 DEF DrainTask

LEMMA AgeDInv ==
    ASSUME TypeOK, Inv, Age, NEW e \in Events \ slow', Prompt(e)
    PROVE  Prompt(e)'
<1>1. PICK q \in queue :
        /\ queue' = (queue \ {q}) \cup {[q EXCEPT !.stale = TRUE]}
        /\ slow' = IF pc[q.event] \in InFlight THEN slow \cup {q.event} ELSE slow
  BY DEF Age
<1>2. UNCHANGED <<stored, pc, batch, job>>
  BY DEF Age
<1>3. q \in Row /\ q.event \in Events /\ row[q.event] = q.id /\ q.id # 0
  BY DEF TypeOK, Inv, Owners, Row
<1>4. PICK p : p = [q EXCEPT !.stale = TRUE]
  OBVIOUS
<1>5. p.event = q.event /\ queue' = (queue \ {q}) \cup {p}
  BY <1>1, <1>3, <1>4 DEF Row
<1>6. CASE q.event # e
  BY <1>2, <1>5, <1>6, NotAbout
<1>7. CASE q.event = e
  <2>1. pc[e] \notin InFlight
    BY <1>1, <1>7
  <2>2. pc[e] # "idle"
    BY <1>3, <1>7 DEF Inv, Progress
  <2>3. pc[e] = "done"
    BY <2>1, <2>2 DEF Prompt, InFlight
  <2>4. e \in Poison
    BY <1>7, <2>3 DEF Prompt
  <2> QED
    BY <1>2, <2>4 DEF Prompt
<1> QED
  BY <1>6, <1>7

LEMMA NextDInv == TypeOK /\ Inv /\ DInv /\ [Next]_vars => DInv'
<1> SUFFICES ASSUME TypeOK, Inv, DInv, [Next]_vars, Calm'
             PROVE  pgUp' /\ serverUp' /\ \A e \in Events \ slow' : Prompt(e)'
  BY DEF DInv
<1>1. Calm
  <2>1. faults' = faults \/ \E f \in Faults : Fault(f)
    BY FaultKinds
    DEF Next, vars, Handler, DrainTask, Environment, StoreEvent, Enqueue, EnqueueFails, Accept,
        Disconnect, InsertMemory, InsertReplyLost, InsertFails, StoreEmbedding,
        StoreEmbeddingFails, ReadBatch, TakeRow, DropUnreadable, DrainStored, DrainDone, Age,
        Crash, Restart, Outage, Recover
  <2> QED
    BY <2>1, FaultEnds DEF Calm
<1>2. pgUp /\ serverUp /\ \A e \in Events \ slow : Prompt(e)
  BY <1>1 DEF DInv
<1>3. CASE UNCHANGED vars
  BY <1>2, <1>3 DEF vars, Prompt, Undrained
<1>4. ~Crash /\ ~Restart /\ ~Outage /\ ~Recover
  BY <1>2, FaultEnds, FaultKinds DEF Crash, Restart, Outage, Recover
<1>5. ASSUME NEW d \in Events, Handler(d)
      PROVE  pgUp' /\ serverUp' /\ \A e \in Events \ slow' : Prompt(e)'
  <2>1. pgUp' = pgUp /\ serverUp' = serverUp /\ slow' = slow
    BY <1>5, FaultEnds, FaultKinds
    DEF Handler, StoreEvent, Enqueue, EnqueueFails, Accept, Disconnect, InsertMemory,
        InsertReplyLost, InsertFails, StoreEmbedding, StoreEmbeddingFails
  <2> QED
    BY <1>1, <1>2, <1>5, <2>1, HandlerDInv
<1>6. CASE DrainTask
  <2>1. pgUp' = pgUp /\ serverUp' = serverUp /\ slow' = slow
    BY <1>6, FaultEnds, FaultKinds
    DEF DrainTask, StoreEvent, InsertMemory, InsertReplyLost, InsertFails, StoreEmbedding,
        StoreEmbeddingFails, ReadBatch, TakeRow, DropUnreadable, DrainStored, DrainDone
  <2> QED
    BY <1>1, <1>2, <1>6, <2>1, DrainDInv
<1>7. CASE Age
  <2>1. pgUp' = pgUp /\ serverUp' = serverUp /\ slow \subseteq slow'
    BY <1>7 DEF Age
  <2> QED
    BY <1>2, <1>7, <2>1, AgeDInv
<1> QED
  BY <1>3, <1>4, <1>5, <1>6, <1>7 DEF Next, Environment

(* No event is stored twice without a failure, a client that hung up or a  *)
(* handler slower than the age at which the drain takes rows, for any      *)
(* number of events and any queue (stale's age, drain_pending's remove).   *)
THEOREM NoDuplicates == Spec => []DuplicateHasCause
<1>1. TypeOK /\ DInv => DuplicateHasCause
  <2> SUFFICES ASSUME TypeOK, DInv, NEW e \in Events, stored[e] > 1, e \notin slow,
                      \A f \in Faults : ~(faults[f] > 0)
               PROVE  FALSE
    BY DEF DuplicateHasCause
  <2>1. Calm
    BY DEF Calm, TypeOK
  <2>2. stored[e] <= 1 /\ stored[e] \in Nat
    BY <2>1 DEF DInv, Prompt, TypeOK
  <2> QED
    BY <2>2
<1>2. Spec => []DInv
  BY InitDInv, NextDInv, TypeCorrect, InvCorrect, PTL DEF Spec
<1> QED
  BY <1>1, <1>2, TypeCorrect, PTL

-----------------------------------------------------------------------------
(* Refinement: each step moves the phase of at most one event, by a move   *)
(* DurableIngest has, and answers at most one client, truthfully.          *)

Moves(e) ==
    /\ phase' = [phase EXCEPT ![e] = phase'[e]]
    /\ UNCHANGED reply
    /\ \/ phase[e] = "absent" /\ phase'[e] = "captured" /\ reply[e] = "none"
       \/ phase[e] # "stored" /\ phase'[e] = "stored"
       \/ phase[e] = "captured" /\ phase'[e] = "discarded"

LEMMA MoveIsAllowed ==
    ASSUME NEW e \in Events, Moves(e)
    PROVE  Ingest!Next
BY DEF Moves, Ingest!Next, Ingest!Capture, Ingest!Store, Ingest!Discard, phase

(* Nothing moves if every event keeps its row, its store and its log line. *)
LEMMA PhaseStays ==
    ASSUME \A e \in Events : /\ stored'[e] > 0 <=> stored[e] > 0
                             /\ stored[e] > 0 \/ (Queued(e)' <=> Queued(e))
                             /\ e \in discarded' <=> e \in discarded
    PROVE  phase' = phase
BY DEF phase

(* An answer that does not move a phase is one DurableIngest may give. *)
LEMMA AnswerIsAllowed ==
    ASSUME NEW e \in Events, TypeOK, Inv, TypeOK', Inv', phase' = phase,
           pc[e] # "done", reply'[e] # "none",
           reply' = [reply EXCEPT ![e] = reply'[e]], row'[e] = row[e]
    PROVE  Ingest!Next
<1>1. reply[e] = "none"
  BY DEF Inv, Progress, TypeOK, Replies
<1>2. reply'[e] \in Replies \ {"none"}
  BY DEF TypeOK
<1>3. reply'[e] = "accepted" => phase[e] = "stored"
  <2>1. reply'[e] = "accepted" => phase'[e] = "stored"
    BY DEF Inv, ReplyIsTrue, phase
  <2> QED
    BY <2>1
<1>4. reply'[e] = "queued" => phase[e] # "absent"
  <2>1. reply'[e] = "queued" => phase'[e] # "absent"
    BY DEF Inv, ReplyIsTrue, NoSilentLoss, phase
  <2> QED
    BY <2>1
<1> QED
  BY <1>1, <1>2, <1>3, <1>4 DEF Ingest!Next, Ingest!Answer, Ingest!Replies, Replies

LEMMA InitRefines == Init => Ingest!Init
BY DEF Init, Ingest!Init, phase, Queued

LEMMA StoreEventRefines ==
    ASSUME NEW w \in Workers, TypeOK, Inv, TypeOK', Inv', StoreEvent(w)
    PROVE  Ingest!Next \/ UNCHANGED <<phase, reply>>
<1>1. CASE InsertMemory(w) \/ InsertReplyLost(w)
  <2> DEFINE e == EventOf(w)
  <2>1. /\ e \in Events
        /\ stored' = [stored EXCEPT ![e] = @ + 1]
        /\ UNCHANGED <<queue, reply, discarded>>
    BY <1>1 DEF InsertMemory, InsertReplyLost, Storable
  <2>2. /\ \A f \in Events \ {e} : stored'[f] = stored[f]
        /\ stored'[e] > 0
    BY <2>1 DEF TypeOK
  <2>3. phase'[e] = "stored" /\ \A f \in Events \ {e} : phase'[f] = phase[f]
    BY <2>1, <2>2 DEF phase, Queued
  <2>4. phase' = [phase EXCEPT ![e] = phase'[e]]
    BY <2>3 DEF phase
  <2>5. CASE phase[e] = "stored"
    BY <2>1, <2>3, <2>4, <2>5 DEF phase
  <2>6. CASE phase[e] # "stored"
    BY <2>1, <2>3, <2>4, <2>6, MoveIsAllowed DEF Moves
  <2> QED
    BY <2>5, <2>6
<1>2. CASE InsertFails(w) \/ StoreEmbeddingFails(w)
  <2>1. UNCHANGED <<queue, stored, row, discarded>> /\ Fail(w)
    BY <1>2 DEF InsertFails, StoreEmbeddingFails
  <2>2. phase' = phase
    BY <2>1, PhaseStays DEF Queued
  <2>3. pc[w] # "done"
    BY <1>2 DEF InsertFails, StoreEmbeddingFails
  <2>4. CASE w = Drain
    BY <2>1, <2>2, <2>4 DEF Fail
  <2>5. CASE w # Drain
    BY <2>1, <2>2, <2>3, <2>5, AnswerIsAllowed DEF Fail, Workers, TypeOK
  <2> QED
    BY <2>4, <2>5
<1>3. CASE StoreEmbedding(w)
  BY <1>3, PhaseStays DEF StoreEmbedding, Queued
<1> QED
  BY <1>1, <1>2, <1>3 DEF StoreEvent

(* A stored event may lose its row, an unreadable one becomes discarded.   *)
LEMMA RemoveStays ==
    ASSUME NEW e \in Events, TypeOK, Inv, row[e] # 0, RemoveRow(row[e]),
           UNCHANGED <<stored, discarded>>, stored[e] > 0
    PROVE  phase' = phase
<1>1. ASSUME NEW f \in Events \ {e}, NEW q \in queue, q.event = f
      PROVE  q \in queue'
  BY <1>1 DEF RemoveRow, Inv, Owners
<1>2. \A f \in Events \ {e} : Queued(f)' <=> Queued(f)
  BY <1>1 DEF RemoveRow, Queued
<1> QED
  BY <1>2, PhaseStays

LEMMA HandlerRefines ==
    ASSUME NEW e \in Events, TypeOK, Inv, TypeOK', Inv', Handler(e)
    PROVE  Ingest!Next \/ UNCHANGED <<phase, reply>>
<1>1. CASE Enqueue(e)
  <2>1. /\ pc[e] = "idle" /\ row[e] = 0 /\ stored[e] = 0 /\ e \notin discarded
        /\ reply[e] = "none"
        /\ UNCHANGED <<stored, discarded, reply>>
    BY <1>1 DEF Enqueue, Step, Inv, Progress, TypeOK
  <2>2. \E q : q.event = e /\ queue' = queue \cup {q}
    BY <1>1 DEF Enqueue, EnqueueRow
  <2>3. ~ Queued(e)
    BY <2>1 DEF Queued, Inv, Owners, TypeOK, Row
  <2>4. phase[e] = "absent" /\ phase'[e] = "captured"
    BY <2>1, <2>2, <2>3 DEF phase, Queued
  <2>5. \A f \in Events \ {e} : phase'[f] = phase[f]
    BY <2>1, <2>2 DEF phase, Queued
  <2>6. phase' = [phase EXCEPT ![e] = phase'[e]]
    BY <2>5 DEF phase
  <2> QED
    BY <2>1, <2>4, <2>6, MoveIsAllowed DEF Moves
<1>2. CASE EnqueueFails(e)
  BY <1>2, PhaseStays DEF EnqueueFails, Queued
<1>3. CASE StoreEvent(e)
  BY <1>3, StoreEventRefines DEF Workers
<1>4. CASE Accept(e)
  <2>1. /\ pc[e] = "stored" /\ stored[e] > 0
        /\ reply' = [reply EXCEPT ![e] = "accepted"] /\ reply'[e] = "accepted"
        /\ queue' = queue \/ (row[e] # 0 /\ RemoveRow(row[e]))
        /\ UNCHANGED <<stored, row, discarded>>
    BY <1>4 DEF Accept, Step, Inv, Progress, PastInsert, TypeOK
  <2>2. phase' = phase
    <3>1. CASE queue' = queue
      BY <2>1, <3>1, PhaseStays DEF Queued
    <3>2. CASE row[e] # 0 /\ RemoveRow(row[e])
      BY <2>1, <3>2, RemoveStays
    <3> QED
      BY <2>1, <3>1, <3>2
  <2> QED
    BY <2>1, <2>2, AnswerIsAllowed
<1>5. CASE Disconnect(e)
  BY <1>5, PhaseStays DEF Disconnect, Queued
<1> QED
  BY <1>1, <1>2, <1>3, <1>4, <1>5 DEF Handler

LEMMA DrainRefines ==
    ASSUME TypeOK, Inv, TypeOK', Inv', DrainTask
    PROVE  Ingest!Next \/ UNCHANGED <<phase, reply>>
<1>1. CASE ReadBatch \/ TakeRow \/ DrainDone
  BY <1>1, PhaseStays DEF ReadBatch, TakeRow, DrainDone, Queued
<1>2. CASE DropUnreadable
  <2>1. PICK q \in batch :
          \/ /\ RemoveRow(q.id)
             /\ batch' = batch \ {q}
             /\ discarded' = discarded \cup {q.event}
             /\ UNCHANGED <<pc, job, faults>>
          \/ Fault("disk") /\ EndTick /\ UNCHANGED <<queue, discarded>>
    BY <1>2 DEF DropUnreadable
  <2> DEFINE e == q.event
  <2>2. e \in Events /\ row[e] = q.id /\ q.id # 0
    BY DEF TypeOK, Inv, Owners, Row
  <2>3. UNCHANGED <<stored, reply>>
    BY <1>2 DEF DropUnreadable
  <2>4. CASE UNCHANGED <<queue, discarded>>
    BY <2>3, <2>4, PhaseStays DEF Queued
  <2>5. CASE RemoveRow(q.id) /\ discarded' = discarded \cup {e}
    <3>1. ASSUME NEW f \in Events \ {e} PROVE phase'[f] = phase[f]
      <4>1. \A p \in queue : p.event = f => p \in queue'
        BY <2>2, <2>5 DEF RemoveRow, Inv, Owners
      <4>2. Queued(f)' <=> Queued(f)
        BY <2>5, <4>1 DEF RemoveRow, Queued
      <4> QED
        BY <2>3, <2>5, <4>2 DEF phase
    <3>2. phase' = [phase EXCEPT ![e] = phase'[e]]
      BY <3>1 DEF phase
    <3>3. ~ Queued(e)' /\ e \in discarded'
      BY <2>2, <2>5 DEF RemoveRow, Queued, Inv, Owners
    <3>4. Queued(e) \/ stored[e] > 0 \/ e \in discarded
      BY <2>2 DEF Inv, NoSilentLoss, Captured
    <3>5. phase'[e] = phase[e] \/ (phase[e] = "captured" /\ phase'[e] = "discarded")
      BY <2>2, <2>3, <3>3, <3>4 DEF phase
    <3>6. CASE phase'[e] = phase[e]
      BY <2>2, <2>3, <3>2, <3>6 DEF phase
    <3>7. CASE phase[e] = "captured" /\ phase'[e] = "discarded"
      BY <2>2, <2>3, <3>2, <3>7, MoveIsAllowed DEF Moves
    <3> QED
      BY <3>5, <3>6, <3>7
  <2> QED
    BY <2>1, <2>4, <2>5
<1>3. CASE StoreEvent(Drain)
  BY <1>3, StoreEventRefines DEF Workers
<1>4. CASE DrainStored
  <2>1. /\ job # NoJob /\ stored[job.event] > 0 /\ job.event \in Events
        /\ row[job.event] = job.id /\ job.id # 0
        /\ UNCHANGED <<stored, reply, discarded>>
        /\ queue' = queue \/ RemoveRow(job.id)
    BY <1>4 DEF DrainStored, Step, Inv, Progress, PastInsert, Owners, TypeOK, Row
  <2>2. CASE queue' = queue
    BY <2>1, <2>2, PhaseStays DEF Queued
  <2>3. CASE RemoveRow(job.id)
    BY <2>1, <2>3, RemoveStays
  <2> QED
    BY <2>1, <2>2, <2>3
<1> QED
  BY <1>1, <1>2, <1>3, <1>4 DEF DrainTask

LEMMA EnvironmentRefines ==
    ASSUME TypeOK, Inv, Environment
    PROVE  UNCHANGED <<phase, reply>>
<1>1. UNCHANGED <<stored, discarded, reply>>
  BY DEF Environment, Age, Crash, Restart, Outage, Recover
<1>2. \/ queue' = queue
      \/ \E q \in queue, p \in Row : /\ p.event = q.event
                                     /\ queue' = (queue \ {q}) \cup {p}
  <2>1. ASSUME NEW q \in queue
        PROVE  /\ [q EXCEPT !.stale = TRUE] \in Row
               /\ [q EXCEPT !.stale = TRUE].event = q.event
               /\ [q EXCEPT !.readable = FALSE] \in Row
               /\ [q EXCEPT !.readable = FALSE].event = q.event
    BY DEF TypeOK, Row
  <2> QED
    BY <2>1 DEF Environment, Age, Crash, Restart, Outage, Recover
<1>3. \A e \in Events : Queued(e)' <=> Queued(e)
  BY <1>2 DEF Queued
<1> QED
  BY <1>1, <1>3, PhaseStays

LEMMA NextRefines ==
    TypeOK /\ Inv /\ TypeOK' /\ Inv' /\ [Next]_vars
      => [Ingest!Next]_(Ingest!abstractVars)
<1> SUFFICES ASSUME TypeOK, Inv, TypeOK', Inv', [Next]_vars
             PROVE  Ingest!Next \/ UNCHANGED <<phase, reply>>
  BY DEF Ingest!abstractVars
<1>1. CASE UNCHANGED vars
  BY <1>1, PhaseStays DEF vars, Queued
<1>2. CASE Next
  BY <1>2, HandlerRefines, DrainRefines, EnvironmentRefines DEF Next
<1> QED
  BY <1>1, <1>2

(* EventQueue implements DurableIngest. *)
THEOREM Refinement == Spec => ImplementsDurableIngest
BY InitRefines, NextRefines, InitType, NextType, InvCorrect, TypeCorrect, PTL
DEF Spec, ImplementsDurableIngest, Ingest!Spec
=============================================================================
