-------------------------- MODULE OutboxSyncProofs --------------------------
(***************************************************************************)
(* Type correctness of OutboxSync, and, as long as pushers do not overlap, *)
(* that no change is forgotten and that the push implements Mirror: for    *)
(* every set of tables, keys and references, every batch size, every limit *)
(* and every number of changes and faults.                                 *)
(***************************************************************************)
EXTENDS OutboxSyncProps, TLAPS

(* The local database keeps its constraints, and an entry for deletion     *)
(* means that the row is not active.                                       *)
LocalOK ==
    /\ \A k \in active : local[k] # None
    /\ \A j, k \in Keys : 
         SameName(j, k) /\ local[j] # None /\ local[k] # None =>
           local[j].value # local[k].value
    /\ \A k \in Pending : outbox[k].op = "delete" => k \notin active

RowsOf(p) == UNION todo[p]

(* What a run holds at each of its steps; no key is held twice.            *)
Shape(p) ==
    /\ pc[p] \notin {"apply", "ack"} => todo[p] = {}
    /\ pc[p] \notin {"apply", "ack", "ackDelete"} => batch[p] = {}
    /\ pc[p] \in {"idle", "renew", "read"} => items[p] = {}
    /\ pc[p] = "apply" => batch[p] = {} \/ batch[p] \in todo[p]
    /\ pc[p] = "ack" => batch[p] \in todo[p]
    /\ pc[p] = "ackDelete" => batch[p] \subseteq items[p] /\ \A i \in batch[p] : i.op = "delete"
    /\ \A i, j \in items[p] : i.key = j.key => i = j
    /\ \A r, s \in RowsOf(p) : r.key = s.key => r = s
    /\ \A i \in items[p], r \in RowsOf(p) : i.key # r.key
    /\ \A b, c \in todo[p] : b # c => b \cap c = {}
    /\ \A r, s \in RowsOf(p) : SameName(r.key, s.key) => r.row.value # s.row.value

IInv == TypeOK /\ LocalOK /\ (\A p \in Pushers : Shape(p)) /\ NamesAreUnique

USE DEF source, run, lease

-----------------------------------------------------------------------------
(* Type correctness and shape.                                             *)

LEMMA InitIInv == Init => IInv
<1> SUFFICES ASSUME Init PROVE IInv
  OBVIOUS
<1>1. TypeOK
  BY DEF Init, TypeOK, Entry, NoEntry, Op, PC
<1>2. LocalOK
  BY DEF Init, LocalOK, Pending, NoEntry
<1>3. ASSUME NEW p \in Pushers PROVE Shape(p)
  <2>1. pc[p] = "idle" /\ items[p] = {} /\ todo[p] = {} /\ batch[p] = {}
    BY DEF Init
  <2> QED
    BY <2>1 DEF Shape, RowsOf
<1>4. NamesAreUnique
  BY DEF Init, NamesAreUnique
<1> QED
  BY <1>1, <1>2, <1>3, <1>4 DEF IInv

LEMMA SameNameSymmetric ==
    ASSUME NEW j \in Keys, NEW k \in Keys, SameName(j, k)
    PROVE  SameName(k, j)
BY OutboxAssumption DEF SameName

LEMMA CaptureType ==
    ASSUME TypeOK, NEW K \in SUBSET Keys, NEW U \in SUBSET Keys, Capture(K, U)
    PROVE  /\ clock' \in Nat /\ outbox' \in [Keys -> Entry]
           /\ \A k \in Keys \ K : outbox'[k] = outbox[k]
           /\ \A k \in K : outbox'[k].gen = outbox[k].gen + 1
                            /\ outbox'[k].op = IF k \in U THEN "upsert" ELSE "delete"
BY DEF Capture, TypeOK, Entry, Op

(* What a DELETE does to the rows of either database.                      *)
LEMMA WithoutEffect ==
    ASSUME NEW T \in [Keys -> Row \cup {None}], NEW K \in SUBSET Keys
    PROVE  /\ Without(T, K) \in [Keys -> Row \cup {None}] /\ Touched(T, K) \in SUBSET Keys
           /\ \A k \in K \cup Children(K) : Without(T, K)[k] = None
           /\ \A k \in Keys : Mirrored!Reduced(Without(T, K)[k], T[k])
           /\ \A k \in Keys \ (K \cup Touched(T, K)) : Without(T, K)[k] = T[k]
<1> DEFINE gone == K \cup Children(K)
<1>1. gone \in SUBSET Keys
  BY DEF Children
<1>2. \A k \in Keys : Without(T, K)[k] =
        IF k \in gone \/ T[k] = None THEN None ELSE [T[k] EXCEPT !.refs = @ \ gone]
  BY DEF Without
<1>3. Touched(T, K) \in SUBSET Keys /\ \A k \in Keys \ (K \cup Touched(T, K)) : Without(T, K)[k] = T[k]
  BY DEF Touched
<1> HIDE DEF gone
<1>4. ASSUME NEW k \in Keys
      PROVE  Without(T, K)[k] \in Row \cup {None} /\ Mirrored!Reduced(Without(T, K)[k], T[k])
  <2>1. CASE k \in gone \/ T[k] = None
    BY <1>2, <2>1 DEF Mirrored!Reduced
  <2>2. CASE k \notin gone /\ T[k] # None
    <3>1. PICK row : row = [T[k] EXCEPT !.refs = @ \ gone]
      OBVIOUS
    <3>2. T[k] \in Row
      BY <2>2
    <3>3. row \in Row /\ row.value = T[k].value /\ row.vector = T[k].vector /\ row.refs \subseteq T[k].refs
      BY <3>1, <3>2 DEF Row
    <3> QED
      BY <1>2, <2>2, <3>1, <3>3 DEF Mirrored!Reduced
  <2> QED
    BY <2>1, <2>2
<1>5. \A k \in gone : Without(T, K)[k] = None
  BY <1>1, <1>2
<1>6. Without(T, K) = [k \in Keys |-> Without(T, K)[k]]
  BY DEF Without
<1>7. Without(T, K) \in [Keys -> Row \cup {None}]
  BY <1>4, <1>6
<1> QED
  BY <1>3, <1>4, <1>5, <1>7 DEF gone

(* Applications change the local database and the outbox.                  *)
LEMMA ApplicationIInv ==
    ASSUME IInv, Application
    PROVE  IInv'
<1> USE OutboxAssumption DEF IInv
<1>1. PICK k \in Keys :
        \/ \E row \in MayHold[k], isActive \in BOOLEAN : WriteRow(k, row, isActive)
        \/ DeleteRow(k)
  BY DEF Application
<1>2. UNCHANGED <<target, pc, items, todo, batch>>
  BY <1>1 DEF WriteRow, DeleteRow
<1>3. NamesAreUnique' /\ \A p \in Pushers : Shape(p)'
  BY <1>2 DEF NamesAreUnique, Shape, RowsOf, SameName
<1>4. ASSUME NEW row \in MayHold[k], NEW isActive \in BOOLEAN, WriteRow(k, row, isActive)
      PROVE  TypeOK' /\ LocalOK'
  <2>1. Capture({k}, IF isActive THEN {k} ELSE {})
    BY <1>4 DEF WriteRow
  <2>2. /\ clock' \in Nat /\ outbox' \in [Keys -> Entry]
        /\ \A j \in Keys \ {k} : outbox'[j] = outbox[j]
        /\ outbox'[k].op = IF isActive THEN "upsert" ELSE "delete"
    <3> DEFINE K == {k}
               U == IF isActive THEN {k} ELSE {}
    <3>1. K \in SUBSET Keys /\ U \in SUBSET Keys
      OBVIOUS
    <3>2. Capture(K, U)
      BY <2>1
    <3>3. k \in K /\ (\A j \in Keys \ {k} : j \notin K) /\ (k \in U <=> isActive)
      OBVIOUS
    <3> HIDE DEF K, U
    <3>4. /\ clock' \in Nat /\ outbox' \in [Keys -> Entry]
          /\ \A j \in Keys \ K : outbox'[j] = outbox[j]
          /\ \A j \in K : outbox'[j].op = IF j \in U THEN "upsert" ELSE "delete"
      BY <3>1, <3>2, CaptureType
    <3> QED
      BY <3>3, <3>4
  <2>3. /\ row \in Row /\ row # None
        /\ local' = [local EXCEPT ![k] = row] /\ local \in [Keys -> Row \cup {None}]
        /\ active' = (IF isActive THEN active \cup {k} ELSE active \ {k})
        /\ UNCHANGED <<target, lease, run, page, dropped, faults>>
        /\ \A j \in Keys : SameName(j, k) /\ local[j] # None => local[j].value # row.value
    BY <1>4 DEF WriteRow, TypeOK
  <2>4. TypeOK'
    BY <2>2, <2>3 DEF TypeOK
  <2>5. LocalOK'
    <3>1. \A j \in active' : local'[j] # None
      BY <2>3 DEF LocalOK, TypeOK
    <3>2. \A j \in Keys \ {k} : local'[j] = local[j]
      BY <2>3
    <3>3. local'[k] = row
      BY <2>3
    <3>4. ASSUME NEW i \in Keys, NEW j \in Keys, SameName(i, j), local'[i] # None, local'[j] # None
          PROVE  local'[i].value # local'[j].value
      <4>1. SameName(j, i) /\ i # j
        BY <3>4, SameNameSymmetric DEF SameName
      <4>2. CASE i = k
        BY <2>3, <3>2, <3>3, <3>4, <4>1, <4>2
      <4>3. CASE j = k
        BY <2>3, <3>2, <3>3, <3>4, <4>1, <4>3
      <4>4. CASE i # k /\ j # k
        BY <3>2, <3>4, <4>4 DEF LocalOK
      <4> QED
        BY <4>2, <4>3, <4>4
    <3>5. \A j \in Pending' : outbox'[j].op = "delete" => j \notin active'
      BY <2>2, <2>3 DEF LocalOK, Pending
    <3> QED
      BY <3>1, <3>4, <3>5 DEF LocalOK, SameName
  <2> QED
    BY <2>4, <2>5
<1>5. ASSUME DeleteRow(k)
      PROVE  TypeOK' /\ LocalOK'
  <2> DEFINE gone == {k} \cup Children({k})
             changed == {k} \cup Touched(local, {k})
  <2>1. local \in [Keys -> Row \cup {None}] /\ {k} \in SUBSET Keys
    BY DEF TypeOK
  <2>2. /\ local' = Without(local, {k}) /\ active' = active \ gone
        /\ Capture(changed, active \ gone)
        /\ UNCHANGED <<target, lease, run, page, dropped, faults>>
    BY <1>5 DEF DeleteRow
  <2>3. /\ local' \in [Keys -> Row \cup {None}] /\ changed \in SUBSET Keys
        /\ \A j \in Keys : Mirrored!Reduced(local'[j], local[j])
        /\ \A j \in Keys \ changed : local'[j] = local[j]
    BY <2>1, <2>2, WithoutEffect
  <2>4. \A j \in Keys \ gone : local'[j] = None => local[j] = None
    <3>1. TAKE j \in Keys \ gone
    <3>2. SUFFICES ASSUME local[j] # None PROVE local'[j] # None
      OBVIOUS
    <3>3. PICK row : row = [local[j] EXCEPT !.refs = @ \ gone]
      OBVIOUS
    <3>4. local[j] \in Row
      BY <2>1, <3>2
    <3>5. row \in Row
      BY <3>3, <3>4 DEF Row
    <3>6. local'[j] = row
      BY <2>2, <3>1, <3>2, <3>3 DEF Without
    <3> QED
      BY <3>5, <3>6
  <2> HIDE DEF gone, changed
  <2> DEFINE kept == active \ gone
  <2>5. kept \in SUBSET Keys
    <3>1. active \in SUBSET Keys
      BY DEF TypeOK
    <3> QED
      BY <3>1
  <2>6. active' = kept /\ (\A j \in gone : j \notin kept) /\ \A j \in kept : j \in active
    BY <2>2
  <2>7. Capture(changed, kept)
    BY <2>2
  <2> HIDE DEF kept
  <2>8. /\ clock' \in Nat /\ outbox' \in [Keys -> Entry]
        /\ \A j \in Keys \ changed : outbox'[j] = outbox[j]
        /\ \A j \in changed : outbox'[j].op = IF j \in kept THEN "upsert" ELSE "delete"
    BY <2>3, <2>5, <2>7, CaptureType
  <2>9. TypeOK'
    BY <2>2, <2>3, <2>5, <2>6, <2>8 DEF TypeOK
  <2>10. LocalOK'
    <3>1. \A j \in active' : local'[j] # None
      BY <2>2, <2>4 DEF LocalOK, TypeOK
    <3>2. ASSUME NEW i \in Keys, NEW j \in Keys, SameName(i, j), local'[i] # None, local'[j] # None
          PROVE  local'[i].value # local'[j].value
      <4>1. /\ local[i] # None /\ local'[i].value = local[i].value
            /\ local[j] # None /\ local'[j].value = local[j].value
        BY <2>3, <3>2 DEF Mirrored!Reduced
      <4> QED
        BY <3>2, <4>1 DEF LocalOK
    <3>3. \A j \in Pending' : outbox'[j].op = "delete" => j \notin active'
      BY <2>6, <2>8 DEF LocalOK, Pending
    <3> QED
      BY <3>1, <3>2, <3>3 DEF LocalOK, SameName
  <2> QED
    BY <2>9, <2>10
<1> QED
  BY <1>1, <1>3, <1>4, <1>5

(* The audit changes the outbox only.                                      *)
LEMMA AuditIInv ==
    ASSUME IInv, Audit
    PROVE  IInv'
<1> USE OutboxAssumption DEF IInv
<1>1. UNCHANGED <<local, active, target, lease, pc, items, todo, batch, attempt, dropped, faults>>
  BY DEF Audit, AuditRead, AuditRow
<1>2. NamesAreUnique' /\ \A p \in Pushers : Shape(p)'
  BY <1>1 DEF NamesAreUnique, Shape, RowsOf, SameName
<1>3. TypeOK' /\ LocalOK'
  <2>1. CASE AuditRead
    <3>1. PICK K \in SUBSET active :
            page' = {[key |-> k, content |-> ContentOf(local[k])] : k \in K}
      BY <2>1 DEF AuditRead
    <3>2. ASSUME NEW k \in K
          PROVE  [key |-> k, content |-> ContentOf(local[k])] \in [key : Keys, content : Content]
      <4>1. k \in Keys /\ local[k] \in Row
        BY DEF TypeOK, LocalOK
      <4> QED
        BY <4>1 DEF ContentOf, Content, Row
    <3>3. page' \in SUBSET [key : Keys, content : Content]
      BY <3>1, <3>2
    <3> QED
      BY <1>1, <2>1, <3>3 DEF AuditRead, TypeOK, LocalOK, Pending, SameName
  <2>2. CASE AuditRow
    <3>1. PICK r \in page :
            /\ page' = page \ {r}
            /\ \/ UNCHANGED <<outbox, clock>>
               \/ Capture({r.key}, {r.key})
      BY <2>2 DEF AuditRow
    <3>2. r.key \in Keys
      BY DEF TypeOK
    <3>3. CASE UNCHANGED <<outbox, clock>>
      BY <1>1, <3>1, <3>3 DEF TypeOK, LocalOK, Pending, SameName
    <3>4. CASE Capture({r.key}, {r.key})
      <4>1. /\ clock' \in Nat /\ outbox' \in [Keys -> Entry]
            /\ \A k \in Keys \ {r.key} : outbox'[k] = outbox[k]
            /\ outbox'[r.key].op = "upsert"
        <5> DEFINE K == {r.key}
        <5>1. K \in SUBSET Keys /\ r.key \in K /\ \A k \in Keys \ {r.key} : k \notin K
          BY <3>2
        <5>2. Capture(K, K)
          BY <3>4
        <5> HIDE DEF K
        <5>3. /\ clock' \in Nat /\ outbox' \in [Keys -> Entry]
              /\ \A k \in Keys \ K : outbox'[k] = outbox[k]
              /\ \A k \in K : outbox'[k].op = IF k \in K THEN "upsert" ELSE "delete"
          BY <5>1, <5>2, CaptureType
        <5> QED
          BY <3>2, <5>1, <5>3
      <4> QED
        BY <1>1, <3>1, <3>2, <4>1 DEF TypeOK, LocalOK, Pending, SameName
    <3> QED
      BY <3>1, <3>3, <3>4
  <2> QED
    BY <2>1, <2>2 DEF Audit
<1> QED
  BY <1>2, <1>3

(* A run that ends holds nothing.                                          *)
LEMMA EndRunShape ==
    ASSUME TypeOK, \A q \in Pushers : Shape(q), NEW p \in Pushers, EndRun(p)
    PROVE  /\ pc' \in [Pushers -> PC]
           /\ items' \in [Pushers -> SUBSET Item]
           /\ todo' \in [Pushers -> SUBSET SUBSET SourceRow]
           /\ batch' \in [Pushers -> SUBSET (Item \cup SourceRow)]
           /\ attempt' \in [Pushers -> Nat]
           /\ \A q \in Pushers : Shape(q)'
<1>1. pc' \in [Pushers -> PC] /\ items' \in [Pushers -> SUBSET Item]
  BY DEF EndRun, Goto, TypeOK, PC
<1>2. todo' \in [Pushers -> SUBSET SUBSET SourceRow]
  BY DEF EndRun, TypeOK
<1>3. batch' \in [Pushers -> SUBSET (Item \cup SourceRow)] /\ attempt' \in [Pushers -> Nat]
  BY DEF EndRun, TypeOK
<1>4. ASSUME NEW q \in Pushers PROVE Shape(q)'
  <2>1. CASE q = p
    <3>1. pc'[q] = "idle" /\ items'[q] = {} /\ todo'[q] = {} /\ batch'[q] = {}
      BY <2>1 DEF EndRun, Goto, TypeOK
    <3> QED
      BY <3>1 DEF Shape, RowsOf
  <2>2. CASE q # p
    <3>1. UNCHANGED <<pc[q], items[q], todo[q], batch[q]>>
      BY <2>2 DEF EndRun, Goto, TypeOK
    <3> QED
      BY <3>1 DEF Shape, RowsOf, SameName
  <2> QED
    BY <2>1, <2>2
<1> QED
  BY <1>1, <1>2, <1>3, <1>4

(* Another pusher's shape is none of p's business.                         *)
LEMMA OthersShape ==
    ASSUME NEW p \in Pushers, NEW q \in Pushers, Shape(q),
           UNCHANGED <<pc[q], items[q], todo[q], batch[q]>>
    PROVE  Shape(q)'
BY DEF Shape, RowsOf, SameName

(* Acknowledging keeps the outbox well formed.                             *)
LEMMA AcknowledgeOutbox ==
    ASSUME TypeOK, LocalOK, NEW R, Acknowledge(R), UNCHANGED <<local, active>>
    PROVE  outbox' \in [Keys -> Entry] /\ LocalOK'
BY DEF Acknowledge, TypeOK, LocalOK, Entry, NoEntry, Op, Pending, SameName

(* Going on with some of the rows held.                                    *)
LEMMA ContinueShape ==
    ASSUME TypeOK, NEW p \in Pushers, Shape(p), pc[p] \in {"apply", "ack"},
           NEW B \in SUBSET SUBSET SourceRow, Continue(p, B), items'[p] = items[p],
           UNION B \subseteq RowsOf(p),
           \A b, c \in B : b # c => b \cap c = {}
    PROVE  /\ pc' \in [Pushers -> PC]
           /\ todo' \in [Pushers -> SUBSET SUBSET SourceRow]
           /\ batch' \in [Pushers -> SUBSET (Item \cup SourceRow)]
           /\ attempt' \in [Pushers -> Nat]
           /\ Shape(p)'
           /\ \A q \in Pushers \ {p} : UNCHANGED <<pc[q], todo[q], batch[q]>>
           /\ RowsOf(p)' \subseteq UNION B
           /\ batch'[p] = {} /\ pc'[p] \in {"table", "apply"}
<1>1. PICK C \in {B, {}} :
        /\ todo' = [todo EXCEPT ![p] = C]
        /\ Goto(p, IF C = {} THEN "table" ELSE "apply")
  BY DEF Continue
<1>2. batch' = [batch EXCEPT ![p] = {}] /\ attempt' = [attempt EXCEPT ![p] = 0]
  BY DEF Continue
<1>3. pc' = [pc EXCEPT ![p] = IF C = {} THEN "table" ELSE "apply"]
  BY <1>1 DEF Goto
<1>4. /\ todo'[p] = C /\ batch'[p] = {}
      /\ pc'[p] = IF C = {} THEN "table" ELSE "apply"
  BY <1>1, <1>2, <1>3 DEF TypeOK
<1>5. /\ pc' \in [Pushers -> PC]
      /\ batch' \in [Pushers -> SUBSET (Item \cup SourceRow)]
      /\ attempt' \in [Pushers -> Nat]
  BY <1>2, <1>3 DEF TypeOK, PC
<1>6. todo' \in [Pushers -> SUBSET SUBSET SourceRow]
  BY <1>1 DEF TypeOK
<1>7. RowsOf(p)' \subseteq UNION B /\ RowsOf(p)' \subseteq RowsOf(p)
  BY <1>4 DEF RowsOf
<1>8. \A b, c \in todo'[p] : b # c => b \cap c = {}
  BY <1>4
<1>9. Shape(p)'
  BY <1>4, <1>7, <1>8 DEF Shape, SameName
<1> QED
  BY <1>1, <1>2, <1>3, <1>4, <1>5, <1>6, <1>7, <1>9 DEF TypeOK

(* What a row written by apply_batch shows.                                *)
LEMMA OverShows ==
    ASSUME NEW old \in Row \cup {None}, NEW row \in Row
    PROVE  /\ Over(old, row) \in Row /\ Over(old, row).value = row.value
           /\ Mirrored!Shows(Over(old, row), row)
<1>1. row # None
  BY OutboxAssumption
<1>2. CASE row.vector # None \/ old = None
  BY <1>1, <1>2 DEF Over, Mirrored!Shows
<1>3. CASE row.vector = None /\ old # None
  <2>1. PICK new : new = [row EXCEPT !.vector = old.vector]
    OBVIOUS
  <2>2. old \in Row
    BY <1>3
  <2>3. /\ new \in Row /\ new.value = row.value /\ new.refs = row.refs
    BY <2>1, <2>2 DEF Row
  <2>4. new # None
    BY <2>3, OutboxAssumption
  <2>5. Over(old, row) = new
    BY <1>3, <2>1 DEF Over
  <2> QED
    BY <1>1, <1>3, <2>3, <2>4, <2>5 DEF Mirrored!Shows
<1> QED
  BY <1>2, <1>3

(* What apply_batch does to the target: its rows are there, and of the     *)
(* others only rows of the same name go, and with them what referenced     *)
(* them.                                                                   *)
LEMMA ApplyRowsEffect ==
    ASSUME TypeOK, NamesAreUnique, NEW p \in Pushers, Shape(p),
           NEW b \in todo[p], NEW rank \in Ranks(b), ApplyRows(b, rank)
    PROVE  /\ target' \in [Keys -> Row \cup {None}] /\ dropped' \in SUBSET Keys
           /\ \A r \in b : Mirrored!Shows(target'[r.key], r.row)
           /\ \A k \in Keys \ KeysOf(b) :
                \/ target'[k] = target[k]
                \/ k \in dropped' /\ Mirrored!Reduced(target'[k], target[k])
                \/ /\ target[k] # None /\ Mirrored!Reduced(target'[k], target[k])
                   /\ \E r \in b : SameName(r.key, k) /\ target[k].value = r.row.value
           /\ dropped \ dropped' \subseteq KeysOf(b)
           /\ NamesAreUnique'
<1> USE OutboxAssumption
<1> DEFINE gone == Displaced(b, rank)
           left == Without(target, gone)
<1>1. /\ target' = [k \in Keys |->
             IF k \in KeysOf(b) THEN Over(left[k], (CHOOSE r \in b : r.key = k).row) ELSE left[k]]
      /\ dropped' = (dropped \cup Touched(target, gone)) \ KeysOf(b)
  BY DEF ApplyRows
<1>2. gone \in SUBSET Keys /\ target \in [Keys -> Row \cup {None}]
  BY DEF Displaced, TypeOK
<1>3. /\ left \in [Keys -> Row \cup {None}] /\ Touched(target, gone) \in SUBSET Keys
      /\ \A k \in gone : left[k] = None
      /\ \A k \in Keys : Mirrored!Reduced(left[k], target[k])
      /\ \A k \in Keys \ (gone \cup Touched(target, gone)) : left[k] = target[k]
  BY <1>2, WithoutEffect
<1>4. \A k \in Keys : target[k] # None =>
        (k \in gone <=> \E r \in b : /\ SameName(r.key, k) /\ target[k].value = r.row.value
                                     /\ k \in KeysOf(b) => rank[r.key] < rank[k])
  BY DEF Displaced
<1>5. gone \subseteq {k \in Keys : target[k] # None}
  BY DEF Displaced
<1>6. \A k \in KeysOf(b) : \E r \in b : r.key = k
  BY DEF KeysOf
<1>7. \A r \in b : r.key \in KeysOf(b)
  BY DEF KeysOf
<1>8. b \subseteq SourceRow /\ b \subseteq RowsOf(p)
  BY DEF TypeOK, RowsOf
<1>9. \A r \in b : r.key \in Keys /\ r.row \in Row /\ r.row # None
  BY <1>8 DEF SourceRow
<1>10. \A r \in b : (CHOOSE s \in b : s.key = r.key) = r
  BY <1>8 DEF Shape
<1> HIDE DEF gone, left
<1>11. ASSUME NEW r \in b
       PROVE  /\ target'[r.key] \in Row /\ target'[r.key].value = r.row.value
              /\ Mirrored!Shows(target'[r.key], r.row)
  <2>1. target'[r.key] = Over(left[r.key], r.row)
    BY <1>1, <1>7, <1>9, <1>10
  <2>2. left[r.key] \in Row \cup {None}
    BY <1>3, <1>9
  <2> QED
    BY <1>9, <2>1, <2>2, OverShows
<1>12. \A k \in Keys \ KeysOf(b) : target'[k] = left[k]
  BY <1>1
<1>13. target' \in [Keys -> Row \cup {None}]
  <2>1. \A k \in Keys : target'[k] \in Row \cup {None}
    BY <1>3, <1>6, <1>11, <1>12
  <2>2. target' = [k \in Keys |-> target'[k]]
    BY <1>1
  <2> QED
    BY <2>1, <2>2
<1>14. dropped' \in SUBSET Keys /\ dropped \ dropped' \subseteq KeysOf(b)
  BY <1>1, <1>3 DEF TypeOK
<1>15. ASSUME NEW k \in Keys \ KeysOf(b)
       PROVE  \/ target'[k] = target[k]
              \/ k \in dropped' /\ Mirrored!Reduced(target'[k], target[k])
              \/ /\ target[k] # None /\ Mirrored!Reduced(target'[k], target[k])
                 /\ \E r \in b : SameName(r.key, k) /\ target[k].value = r.row.value
  <2>1. CASE k \in gone
    BY <1>3, <1>4, <1>5, <1>12, <2>1
  <2>2. CASE k \in Touched(target, gone)
    BY <1>1, <1>3, <1>12, <2>2
  <2>3. CASE k \notin gone \cup Touched(target, gone)
    BY <1>3, <1>12, <2>3
  <2> QED
    BY <2>1, <2>2, <2>3
<1>16. ASSUME NEW r \in b, NEW k \in Keys \ KeysOf(b), SameName(r.key, k), target'[k] # None
       PROVE  target'[k].value # r.row.value
  <2>1. target[k] # None /\ target'[k].value = target[k].value /\ k \notin gone
    BY <1>3, <1>12, <1>16 DEF Mirrored!Reduced
  <2> QED
    BY <1>4, <1>16, <2>1
<1>17. NamesAreUnique'
  <2>1. SUFFICES ASSUME NEW j \in Keys, NEW k \in Keys, SameName(j, k),
                        target'[j] # None, target'[k] # None
                 PROVE  target'[j].value # target'[k].value
    BY DEF NamesAreUnique, SameName
  <2>2. SameName(k, j)
    BY <2>1, SameNameSymmetric
  <2>3. CASE j \in KeysOf(b) /\ k \in KeysOf(b)
    BY <1>6, <1>8, <1>11, <2>1, <2>3 DEF Shape
  <2>4. CASE j \in KeysOf(b) /\ k \notin KeysOf(b)
    BY <1>6, <1>11, <1>16, <2>1, <2>4
  <2>5. CASE j \notin KeysOf(b) /\ k \in KeysOf(b)
    BY <1>6, <1>11, <1>16, <2>1, <2>2, <2>5
  <2>6. CASE j \notin KeysOf(b) /\ k \notin KeysOf(b)
    <3>1. /\ target[j] # None /\ target'[j].value = target[j].value
          /\ target[k] # None /\ target'[k].value = target[k].value
      BY <1>3, <1>12, <2>1, <2>6 DEF Mirrored!Reduced
    <3> QED
      BY <2>1, <3>1 DEF NamesAreUnique
  <2> QED
    BY <2>3, <2>4, <2>5, <2>6
<1> QED
  BY <1>11, <1>13, <1>14, <1>15, <1>17

(* What archive_and_delete_many does to it.                                *)
LEMMA DropEffect ==
    ASSUME TypeOK, NamesAreUnique, NEW K \in SUBSET Keys, Drop(K)
    PROVE  /\ target' \in [Keys -> Row \cup {None}] /\ dropped' \in SUBSET Keys
           /\ \A k \in K : target'[k] = None
           /\ \A k \in Keys \ K :
                \/ target'[k] = target[k]
                \/ k \in dropped' /\ Mirrored!Reduced(target'[k], target[k])
           /\ dropped \ dropped' \subseteq K
           /\ NamesAreUnique'
<1>1. target \in [Keys -> Row \cup {None}] /\ dropped \in SUBSET Keys
  BY DEF TypeOK
<1>2. target' = Without(target, K) /\ dropped' = (dropped \cup Touched(target, K)) \ K
  BY DEF Drop
<1>3. /\ target' \in [Keys -> Row \cup {None}] /\ Touched(target, K) \in SUBSET Keys
      /\ \A k \in K : target'[k] = None
      /\ \A k \in Keys : Mirrored!Reduced(target'[k], target[k])
      /\ \A k \in Keys \ (K \cup Touched(target, K)) : target'[k] = target[k]
  BY <1>1, <1>2, WithoutEffect
<1>4. ASSUME NEW j \in Keys, NEW k \in Keys, SameName(j, k), target'[j] # None, target'[k] # None
      PROVE  target'[j].value # target'[k].value
  <2>1. /\ target[j] # None /\ target'[j].value = target[j].value
        /\ target[k] # None /\ target'[k].value = target[k].value
    BY <1>3, <1>4 DEF Mirrored!Reduced
  <2> QED
    BY <1>4, <2>1 DEF NamesAreUnique
<1>5. NamesAreUnique'
  BY <1>4 DEF NamesAreUnique, SameName
<1> QED
  BY <1>1, <1>2, <1>3, <1>5

(* The steps of a push.                                                    *)
LEMMA PushIInv ==
    ASSUME IInv, NEW p \in Pushers, Push(p) \/ RunFails(p)
    PROVE  IInv'
<1> USE OutboxAssumption DEF IInv
<1>1. ASSUME EndRun(p),
             UNCHANGED <<local, active, outbox, target, page, dropped, clock>>,
             owner' \in Pushers \cup {None}, live' \in BOOLEAN, faults' \in Nat
      PROVE  IInv'
  <2>1. TypeOK' /\ \A q \in Pushers : Shape(q)'
    BY <1>1, EndRunShape DEF TypeOK
  <2>2. LocalOK' /\ NamesAreUnique'
    BY <1>1 DEF LocalOK, NamesAreUnique, Pending, SameName
  <2> QED
    BY <2>1, <2>2
<1>2. Release(p) => owner' \in Pushers \cup {None} /\ live' \in BOOLEAN
  BY DEF Release, TypeOK
<1>3. Fault => faults' \in Nat
  BY DEF Fault, TypeOK
<1>4. ASSUME NEW l \in {"renew", "read"}, Goto(p, l), pc[p] \in {"idle", "renew"},
             UNCHANGED <<local, active, outbox, target, items, todo, batch, attempt, page,
                         dropped, clock, faults>>,
             owner' \in Pushers \cup {None}, live' \in BOOLEAN
      PROVE  IInv'
  <2>1. TypeOK' /\ LocalOK' /\ NamesAreUnique'
    BY <1>4 DEF Goto, TypeOK, PC, LocalOK, NamesAreUnique, Pending, SameName
  <2>2. ASSUME NEW q \in Pushers PROVE Shape(q)'
    BY <1>4, OthersShape DEF Goto, TypeOK, Shape, RowsOf, SameName
  <2> QED
    BY <2>1, <2>2
<1>5. CASE AcquireLease(p)
  BY <1>4, <1>5 DEF AcquireLease
<1>6. CASE RenewLease(p)
  BY <1>4, <1>6 DEF RenewLease, TypeOK
<1>7. CASE LeaseLost(p)
  BY <1>1, <1>2, <1>7 DEF LeaseLost, TypeOK
<1>8. CASE QueueEmpty(p)
  BY <1>1, <1>2, <1>8 DEF QueueEmpty, TypeOK
<1>9. CASE RunFails(p)
  BY <1>1, <1>2, <1>3, <1>9 DEF RunFails, TypeOK
<1>10. CASE ReadQueue(p)
  <2>1. PICK K \in SUBSET Pending :
          items' = [items EXCEPT ![p] =
              {[key |-> k, gen |-> outbox[k].gen, op |-> outbox[k].op] : k \in K}]
    BY <1>10 DEF ReadQueue
  <2>2. \A k \in K : [key |-> k, gen |-> outbox[k].gen, op |-> outbox[k].op] \in Item
    BY DEF Pending, TypeOK, Entry, Item
  <2>3. pc' = [pc EXCEPT ![p] = "table"] /\ pc[p] = "read"
    BY <1>10 DEF ReadQueue, Goto
  <2>4. UNCHANGED <<local, active, outbox, target, owner, live, todo, batch, attempt, page,
                    dropped, clock, faults>>
    BY <1>10 DEF ReadQueue
  <2>5. items' \in [Pushers -> SUBSET Item] /\ pc' \in [Pushers -> PC]
    BY <2>1, <2>2, <2>3 DEF TypeOK, PC
  <2>6. TypeOK' /\ LocalOK' /\ NamesAreUnique'
    BY <2>4, <2>5 DEF TypeOK, LocalOK, NamesAreUnique, Pending, SameName
  <2>7. Shape(p)'
    <3>1. /\ pc'[p] = "table" /\ todo'[p] = {} /\ batch'[p] = {}
          /\ \A i, j \in items'[p] : i.key = j.key => i = j
      BY <2>1, <2>3, <2>4 DEF TypeOK, Shape
    <3> QED
      BY <3>1 DEF Shape, RowsOf
  <2>8. ASSUME NEW q \in Pushers, q # p PROVE Shape(q)'
    BY <2>1, <2>3, <2>4, <2>8, OthersShape DEF TypeOK
  <2> QED
    BY <2>6, <2>7, <2>8
<1>11. CASE ArchiveAndDelete(p)
  <2>1. PICK D \in SUBSET Deletes(p) : batch' = [batch EXCEPT ![p] = D] /\ Drop(KeysOf(D))
    BY <1>11 DEF ArchiveAndDelete
  <2>2. D \subseteq items[p] /\ D \subseteq Item /\ \A i \in D : i.op = "delete"
    BY DEF Deletes, CurrentTable, TypeOK
  <2>3. KeysOf(D) \in SUBSET Keys
    BY <2>2 DEF KeysOf, Item
  <2>4. target' \in [Keys -> Row \cup {None}] /\ dropped' \in SUBSET Keys /\ NamesAreUnique'
    BY <2>1, <2>3, DropEffect
  <2>5. /\ pc' = [pc EXCEPT ![p] = "ackDelete"] /\ pc[p] = "table"
        /\ UNCHANGED <<local, active, outbox, owner, live, items, todo, attempt, page,
                       clock, faults>>
    BY <1>11 DEF ArchiveAndDelete, Goto
  <2>6. pc' \in [Pushers -> PC] /\ batch' \in [Pushers -> SUBSET (Item \cup SourceRow)]
    BY <2>1, <2>2, <2>5 DEF TypeOK, PC
  <2>7. TypeOK' /\ LocalOK'
    BY <2>4, <2>5, <2>6 DEF TypeOK, LocalOK, Pending, SameName
  <2>8. Shape(p)'
    <3>1. pc'[p] = "ackDelete" /\ batch'[p] = D /\ todo'[p] = {} /\ items'[p] = items[p]
      BY <2>1, <2>5 DEF TypeOK, Shape
    <3> QED
      BY <2>2, <3>1 DEF Shape, RowsOf
  <2>9. ASSUME NEW q \in Pushers, q # p PROVE Shape(q)'
    BY <2>1, <2>5, <2>9, OthersShape DEF TypeOK
  <2> QED
    BY <2>4, <2>7, <2>8, <2>9
<1>12. CASE AcknowledgeDeletes(p)
  <2>1. /\ pc' = [pc EXCEPT ![p] = "table"] /\ pc[p] = "ackDelete"
        /\ Acknowledge(batch[p])
        /\ items' = [items EXCEPT ![p] = @ \ batch[p]]
        /\ batch' = [batch EXCEPT ![p] = {}]
        /\ UNCHANGED <<local, active, target, owner, live, todo, attempt, page, dropped,
                       clock, faults>>
    BY <1>12 DEF AcknowledgeDeletes, Goto
  <2>2. outbox' \in [Keys -> Entry] /\ LocalOK'
    BY <2>1, AcknowledgeOutbox
  <2>3. /\ pc' \in [Pushers -> PC] /\ items' \in [Pushers -> SUBSET Item]
        /\ batch' \in [Pushers -> SUBSET (Item \cup SourceRow)]
    BY <2>1 DEF TypeOK, PC
  <2>4. TypeOK' /\ NamesAreUnique'
    BY <2>1, <2>2, <2>3 DEF TypeOK, NamesAreUnique, SameName
  <2>5. Shape(p)'
    <3>1. /\ pc'[p] = "table" /\ batch'[p] = {} /\ todo'[p] = {}
          /\ items'[p] \subseteq items[p]
      BY <2>1 DEF TypeOK, Shape
    <3> QED
      BY <3>1 DEF Shape, RowsOf
  <2>6. ASSUME NEW q \in Pushers, q # p PROVE Shape(q)'
    BY <2>1, <2>6, OthersShape DEF TypeOK
  <2> QED
    BY <2>2, <2>4, <2>5, <2>6
<1>13. CASE ReadRows(p)
  <2> DEFINE rows == SourceRows(Upserts(p))
  <2>1. PICK B \in SUBSET SUBSET rows :
          /\ IsBatching(B, rows)
          /\ todo' = [todo EXCEPT ![p] = B]
          /\ Goto(p, IF B = {} THEN "table" ELSE "apply")
    BY <1>13 DEF ReadRows
  <2>2. /\ pc[p] = "table"
        /\ items' = [items EXCEPT ![p] = @ \ Upserts(p)]
        /\ UNCHANGED <<local, active, outbox, target, owner, live, batch, attempt, page,
                       dropped, clock, faults>>
    BY <1>13 DEF ReadRows
  <2>3. Upserts(p) \subseteq items[p] /\ items[p] \subseteq Item
    BY DEF Upserts, CurrentTable, TypeOK
  <2>4. \A r \in rows : \E i \in Upserts(p) :
          i.key \in active /\ r = [key |-> i.key, gen |-> i.gen, row |-> local[i.key]]
    BY DEF SourceRows, RowOf
  <2>5. rows \subseteq SourceRow
    BY <2>3, <2>4 DEF LocalOK, TypeOK, Item, SourceRow
  <2>6. UNION B = rows /\ \A b, c \in B : b # c => b \cap c = {}
    BY <2>1 DEF IsBatching
  <2> HIDE DEF rows
  <2>7. /\ todo' \in [Pushers -> SUBSET SUBSET SourceRow]
        /\ pc' \in [Pushers -> PC] /\ items' \in [Pushers -> SUBSET Item]
    BY <2>1, <2>2, <2>5 DEF TypeOK, Goto, PC
  <2>8. TypeOK' /\ LocalOK' /\ NamesAreUnique'
    BY <2>2, <2>7 DEF TypeOK, LocalOK, NamesAreUnique, Pending, SameName
  <2>9. Shape(p)'
    <3>1. /\ pc'[p] = IF B = {} THEN "table" ELSE "apply"
          /\ todo'[p] = B /\ batch'[p] = {} /\ items'[p] = items[p] \ Upserts(p)
      BY <2>1, <2>2 DEF TypeOK, Shape, Goto
    <3>2. RowsOf(p)' = rows
      BY <2>6, <3>1 DEF RowsOf
    <3>3. \A i, j \in items'[p] : i.key = j.key => i = j
      BY <3>1 DEF Shape
    <3>4. \A r, s \in rows : r.key = s.key => r = s
      BY <2>3, <2>4 DEF Shape
    <3>5. \A i \in items'[p], r \in rows : i.key # r.key
      BY <2>3, <2>4, <3>1 DEF Shape
    <3>6. \A r, s \in rows : SameName(r.key, s.key) => r.row.value # s.row.value
      BY <2>3, <2>4 DEF LocalOK, TypeOK, Item
    <3> QED
      BY <2>6, <3>1, <3>2, <3>3, <3>4, <3>5, <3>6 DEF Shape, SameName
  <2>10. ASSUME NEW q \in Pushers, q # p PROVE Shape(q)'
    BY <2>1, <2>2, <2>10, OthersShape DEF TypeOK, Goto
  <2> QED
    BY <2>8, <2>9, <2>10
<1>14. CASE NextRound(p)
  <2>1. CASE EndRun(p) /\ Release(p)
    BY <1>1, <1>2, <1>14, <2>1 DEF NextRound, TypeOK
  <2>2. CASE Goto(p, "renew") /\ UNCHANGED <<owner, live, items, todo, batch, attempt>>
    <3>1. /\ pc' = [pc EXCEPT ![p] = "renew"] /\ pc[p] = "table" /\ items[p] = {}
          /\ UNCHANGED <<local, active, outbox, target, owner, live, items, todo, batch,
                         attempt, page, dropped, clock, faults>>
      BY <1>14, <2>2 DEF NextRound, Goto
    <3>2. TypeOK' /\ LocalOK' /\ NamesAreUnique'
      BY <3>1 DEF TypeOK, PC, LocalOK, NamesAreUnique, Pending, SameName
    <3>3. Shape(p)'
      BY <3>1 DEF Shape, RowsOf, TypeOK, SameName
    <3>4. ASSUME NEW q \in Pushers, q # p PROVE Shape(q)'
      BY <3>1, <3>4, OthersShape DEF TypeOK
    <3> QED
      BY <3>2, <3>3, <3>4
  <2> QED
    BY <1>14, <2>1, <2>2 DEF NextRound
<1>15. CASE ApplyBatch(p)
  <2>1. PICK b \in Candidates(p) :
          (\E rank \in Ranks(b) : ApplyRows(b, rank)) /\ batch' = [batch EXCEPT ![p] = b]
    BY <1>15 DEF ApplyBatch
  <2>2. /\ pc[p] = "apply" /\ pc' = [pc EXCEPT ![p] = "ack"]
        /\ UNCHANGED <<local, active, outbox, owner, live, items, todo, attempt, page,
                       clock, faults>>
    BY <1>15 DEF ApplyBatch, Goto
  <2>3. b \in todo[p] /\ b \subseteq SourceRow
    BY <2>2 DEF Candidates, Shape, TypeOK
  <2>4. target' \in [Keys -> Row \cup {None}] /\ dropped' \in SUBSET Keys /\ NamesAreUnique'
    BY <2>1, <2>3, ApplyRowsEffect
  <2>5. pc' \in [Pushers -> PC] /\ batch' \in [Pushers -> SUBSET (Item \cup SourceRow)]
    BY <2>1, <2>2, <2>3 DEF TypeOK, PC
  <2>6. TypeOK' /\ LocalOK'
    BY <2>2, <2>4, <2>5 DEF TypeOK, LocalOK, Pending, SameName
  <2>7. Shape(p)'
    <3>1. /\ pc'[p] = "ack" /\ batch'[p] = b
          /\ items'[p] = items[p] /\ todo'[p] = todo[p]
      BY <2>1, <2>2 DEF TypeOK
    <3> QED
      BY <2>2, <2>3, <3>1 DEF Shape, RowsOf, SameName
  <2>8. ASSUME NEW q \in Pushers, q # p PROVE Shape(q)'
    BY <2>1, <2>2, <2>8, OthersShape DEF TypeOK
  <2> QED
    BY <2>4, <2>6, <2>7, <2>8
<1>16. CASE ApplyFails(p)
  <2>1. PICK b \in Candidates(p) :
          /\ Retry(p, b)
          /\ \/ UNCHANGED <<target, dropped, faults>>
             \/ Fault /\ UNCHANGED <<target, dropped>>
             \/ Fault /\ \E rank \in Ranks(b) : ApplyRows(b, rank)
    BY <1>16 DEF ApplyFails
  <2>2. pc[p] = "apply" /\ UNCHANGED <<local, active, outbox, page, clock>>
    BY <1>16 DEF ApplyFails
  <2>3. b \in todo[p] /\ b \subseteq SourceRow /\ b \subseteq RowsOf(p)
    BY <2>2 DEF Candidates, Shape, TypeOK, RowsOf
  <2>4. /\ target' \in [Keys -> Row \cup {None}] /\ dropped' \in SUBSET Keys
        /\ faults' \in Nat
    BY <1>3, <2>1, <2>3, ApplyRowsEffect DEF TypeOK
  <2>5. NamesAreUnique'
    BY <2>1, <2>3, ApplyRowsEffect DEF NamesAreUnique, SameName
  <2>6. LocalOK'
    BY <2>2 DEF LocalOK, Pending, SameName
  <2>7. ASSUME attempt' = [attempt EXCEPT ![p] = @ + 1], batch' = [batch EXCEPT ![p] = b],
               UNCHANGED <<pc, items, todo, owner, live>>
        PROVE  TypeOK' /\ \A q \in Pushers : Shape(q)'
    <3>1. TypeOK'
      BY <2>2, <2>3, <2>4, <2>7 DEF TypeOK
    <3>2. Shape(p)'
      BY <2>2, <2>3, <2>7 DEF Shape, RowsOf, SameName, TypeOK
    <3>3. ASSUME NEW q \in Pushers, q # p PROVE Shape(q)'
      BY <2>7, <3>3, OthersShape DEF TypeOK
    <3> QED
      BY <3>1, <3>2, <3>3
  <2>8. ASSUME NEW h \in SUBSET b, Continue(p, (todo[p] \ {b}) \cup {h, b \ h}),
               UNCHANGED <<items, owner, live>>
        PROVE  TypeOK' /\ \A q \in Pushers : Shape(q)'
    <3> DEFINE B == (todo[p] \ {b}) \cup {h, b \ h}
    <3>1. UNION B \subseteq RowsOf(p) /\ B \in SUBSET SUBSET SourceRow
      BY <2>3 DEF RowsOf, TypeOK
    <3>2. \A c, d \in todo[p] : c # d => c \cap d = {}
      BY DEF Shape
    <3>3. ASSUME NEW c \in B, NEW d \in B, c # d PROVE c \cap d = {}
      <4>1. \A e \in todo[p] \ {b} : e \cap b = {}
        BY <2>3, <3>2
      <4>2. h \subseteq b /\ h \cap (b \ h) = {}
        OBVIOUS
      <4>3. CASE c \in todo[p] \ {b} /\ d \in todo[p] \ {b}
        BY <3>2, <3>3, <4>3
      <4>4. CASE c \in todo[p] \ {b} /\ d \in {h, b \ h}
        BY <4>1, <4>2, <4>4
      <4>5. CASE c \in {h, b \ h} /\ d \in todo[p] \ {b}
        BY <4>1, <4>2, <4>5
      <4>6. CASE c \in {h, b \ h} /\ d \in {h, b \ h}
        BY <3>3, <4>2, <4>6
      <4> QED
        BY <4>3, <4>4, <4>5, <4>6
    <3> HIDE DEF B
    <3>4. /\ pc' \in [Pushers -> PC]
          /\ todo' \in [Pushers -> SUBSET SUBSET SourceRow]
          /\ batch' \in [Pushers -> SUBSET (Item \cup SourceRow)]
          /\ attempt' \in [Pushers -> Nat]
          /\ Shape(p)'
          /\ \A q \in Pushers \ {p} : UNCHANGED <<pc[q], todo[q], batch[q]>>
      BY <2>2, <2>8, <3>1, <3>3, ContinueShape DEF B
    <3>5. TypeOK'
      BY <2>2, <2>4, <2>8, <3>4 DEF TypeOK
    <3>6. ASSUME NEW q \in Pushers, q # p PROVE Shape(q)'
      BY <2>8, <3>4, <3>6, OthersShape
    <3> QED
      BY <3>4, <3>5, <3>6
  <2>9. ASSUME EndRun(p), Release(p)
        PROVE  TypeOK' /\ \A q \in Pushers : Shape(q)'
    BY <1>2, <2>2, <2>4, <2>9, EndRunShape DEF TypeOK
  <2> QED
    BY <2>1, <2>5, <2>6, <2>7, <2>8, <2>9 DEF Retry
<1>17. CASE AcknowledgeBatch(p)
  <2> DEFINE B == todo[p] \ {batch[p]}
  <2>1. /\ pc[p] = "ack" /\ Acknowledge(batch[p]) /\ Continue(p, B)
        /\ UNCHANGED <<local, active, target, owner, live, items, page, dropped, clock, faults>>
    BY <1>17 DEF AcknowledgeBatch
  <2>2. outbox' \in [Keys -> Entry] /\ LocalOK'
    BY <2>1, AcknowledgeOutbox
  <2>3. UNION B \subseteq RowsOf(p) /\ B \in SUBSET SUBSET SourceRow
    BY DEF RowsOf, TypeOK
  <2>4. \A c, d \in B : c # d => c \cap d = {}
    BY DEF Shape
  <2> HIDE DEF B
  <2>5. /\ pc' \in [Pushers -> PC]
        /\ todo' \in [Pushers -> SUBSET SUBSET SourceRow]
        /\ batch' \in [Pushers -> SUBSET (Item \cup SourceRow)]
        /\ attempt' \in [Pushers -> Nat]
        /\ Shape(p)'
        /\ \A q \in Pushers \ {p} : UNCHANGED <<pc[q], todo[q], batch[q]>>
    BY <2>1, <2>3, <2>4, ContinueShape
  <2>6. TypeOK' /\ NamesAreUnique'
    BY <2>1, <2>2, <2>5 DEF TypeOK, NamesAreUnique, SameName
  <2>7. ASSUME NEW q \in Pushers, q # p PROVE Shape(q)'
    BY <2>1, <2>5, <2>7, OthersShape
  <2> QED
    BY <2>2, <2>5, <2>6, <2>7
<1> QED
  BY <1>5, <1>6, <1>7, <1>8, <1>9, <1>10, <1>11, <1>12, <1>13, <1>14, <1>15, <1>16, <1>17
  DEF Push

LEMMA StutterIInv == IInv /\ UNCHANGED vars => IInv'
BY DEF IInv, vars, TypeOK, LocalOK, Shape, RowsOf, NamesAreUnique, Pending, SameName

LEMMA NextIInv == IInv /\ [Next]_vars => IInv'
<1> SUFFICES ASSUME IInv, [Next]_vars PROVE IInv'
  OBVIOUS
<1>1. CASE LeaseExpires
  <2>1. /\ UNCHANGED <<local, active, outbox, target, owner, page, dropped, clock>>
        /\ UNCHANGED <<pc, items, todo, batch, attempt>>
        /\ live' = FALSE /\ faults' = faults + 1
    BY <1>1 DEF LeaseExpires, Fault
  <2>2. TypeOK'
    <3>1. live' \in BOOLEAN
      BY <2>1, Zenon
    <3>2. faults' \in Nat
      BY <2>1 DEF IInv, TypeOK
    <3> QED
      BY <2>1, <3>1, <3>2 DEF IInv, TypeOK
  <2>3. LocalOK' /\ NamesAreUnique'
    BY <2>1 DEF IInv, LocalOK, NamesAreUnique, Pending, SameName
  <2>4. ASSUME NEW p \in Pushers PROVE Shape(p)'
    BY <2>1, OthersShape DEF IInv
  <2> QED
    BY <2>2, <2>3, <2>4 DEF IInv
<1>2. CASE \E p \in Pushers : Push(p) \/ RunFails(p)
  BY <1>2, PushIInv
<1> QED
  BY <1>1, <1>2, ApplicationIInv, AuditIInv, StutterIInv DEF Next

LEMMA Wellformed == Spec => []IInv
BY InitIInv, NextIInv, PTL DEF Spec

(* Every variable of OutboxSync keeps its type, whoever pushes.            *)
THEOREM TypeCorrect == Spec => []TypeOK
<1>1. IInv => TypeOK
  BY DEF IInv
<1> QED
  BY <1>1, Wellformed, PTL

(* No two rows of a table on the target have the same natural key, even if *)
(* pushers overlap.                                                        *)
THEOREM UniqueNames == Spec => []NamesAreUnique
<1>1. IInv => NamesAreUnique
  BY DEF IInv
<1> QED
  BY <1>1, Wellformed, PTL

-----------------------------------------------------------------------------
(* Pushers that do not overlap.                                            *)

OnePusher == \A p, q \in Pushers : p = q

(* An entry does not go while a run holds it.  As long as its generation   *)
(* is the one the run read, so is its operation, and so is the row.  A     *)
(* name that the run is about to write is either still the row's own, or   *)
(* the row that has it since is queued.                                    *)
Fresh(p) ==
    /\ \A i \in items[p] :
         /\ i.gen <= outbox[i.key].gen
         /\ i.gen = outbox[i.key].gen => i.op = outbox[i.key].op
    /\ \A r \in RowsOf(p) :
         /\ r.gen <= outbox[r.key].gen
         /\ r.gen = outbox[r.key].gen => r.key \in active /\ local[r.key] = r.row
    /\ \A r \in RowsOf(p), k \in active :
         SameName(r.key, k) /\ local[k].value = r.row.value => k \in Pending

Committed(p) ==
    /\ pc[p] = "ack" => \A r \in batch[p] : Mirrored!Shows(target[r.key], r.row)
    /\ pc[p] = "ackDelete" => \A i \in batch[p] : target[i.key] = None

JInv == IInv /\ (\A p \in Pushers : Fresh(p) /\ Committed(p)) /\ NoChangeForgotten

LEMMA InitJInv == Init => JInv
<1> SUFFICES ASSUME Init PROVE JInv
  OBVIOUS
<1>1. IInv
  BY InitIInv
<1>2. ASSUME NEW p \in Pushers PROVE Fresh(p) /\ Committed(p)
  <2>1. pc[p] = "idle" /\ items[p] = {} /\ todo[p] = {}
    BY DEF Init
  <2> QED
    BY <2>1 DEF Fresh, Committed, RowsOf
<1>3. NoChangeForgotten
  BY DEF Init, NoChangeForgotten, Agrees, Mirrored!Shows, Projected
<1> QED
  BY <1>1, <1>2, <1>3 DEF JInv

(* The rows and entries a run holds are of keys that are queued.           *)
LEMMA HeldIsPending ==
    ASSUME TypeOK, NEW p \in Pushers, Fresh(p)
    PROVE  /\ \A i \in items[p] : i.key \in Pending
           /\ \A r \in RowsOf(p) : r.key \in Pending
<1>1. items[p] \subseteq Item /\ RowsOf(p) \subseteq SourceRow
  BY DEF TypeOK, RowsOf
<1> QED
  BY <1>1 DEF Fresh, TypeOK, Entry, Item, SourceRow, Pending

(* Changes at home: at the keys K, which are queued anew.                  *)
LEMMA CaptureFresh ==
    ASSUME JInv, NEW K \in SUBSET Keys, NEW U \in SUBSET Keys, Capture(K, U), IInv',
           UNCHANGED <<target, pc, items, todo, batch, dropped>>,
           \A k \in Keys \ K : local'[k] = local[k] /\ (k \in active' <=> k \in active)
    PROVE  /\ JInv'
           /\ Pending' = Pending \cup K
<1>1. /\ \A k \in Keys \ K : outbox'[k] = outbox[k]
      /\ \A k \in K : outbox'[k].gen = outbox[k].gen + 1
  BY CaptureType DEF JInv, IInv
<1>2. TypeOK /\ \A k \in Keys : outbox[k].gen \in Nat
  BY DEF JInv, IInv, TypeOK, Entry
<1>3. Pending' = Pending \cup K
  BY <1>1, <1>2 DEF Pending
<1>4. ASSUME NEW p \in Pushers PROVE Fresh(p)' /\ Committed(p)'
  <2>1. items[p] \subseteq Item /\ RowsOf(p) \subseteq SourceRow /\ RowsOf(p)' = RowsOf(p)
    BY <1>2 DEF TypeOK, RowsOf
  <2>2. Fresh(p) /\ Committed(p)
    BY DEF JInv
  <2>3. Committed(p)'
    BY <2>2 DEF Committed
  <2>4. ASSUME NEW i \in items[p]
        PROVE  /\ i.gen <= outbox'[i.key].gen
               /\ i.gen = outbox'[i.key].gen => i.op = outbox'[i.key].op
    BY <1>1, <1>2, <2>1, <2>2 DEF Fresh, Item
  <2>5. ASSUME NEW r \in RowsOf(p)
        PROVE  /\ r.gen <= outbox'[r.key].gen
               /\ r.gen = outbox'[r.key].gen => r.key \in active' /\ local'[r.key] = r.row
    BY <1>1, <1>2, <2>1, <2>2 DEF Fresh, SourceRow
  <2>6. ASSUME NEW r \in RowsOf(p), NEW k \in active', SameName(r.key, k),
               local'[k].value = r.row.value
        PROVE  k \in Pending'
    <3>1. k \in Keys
      BY DEF IInv, TypeOK
    <3> QED
      BY <1>3, <2>2, <2>6, <3>1 DEF Fresh
  <2> QED
    BY <2>1, <2>3, <2>4, <2>5, <2>6 DEF Fresh, SameName
<1>5. NoChangeForgotten'
  BY <1>3 DEF JInv, NoChangeForgotten, Agrees, Projected
<1> QED
  BY <1>3, <1>4, <1>5 DEF JInv

(* apply_batch: the keys it writes are queued, and a row it displaces that *)
(* is not queued would be one whose name it rightly has.                   *)
LEMMA ApplyFresh ==
    ASSUME JInv, NEW p \in Pushers, NEW b \in todo[p], NEW rank \in Ranks(b), ApplyRows(b, rank),
           UNCHANGED <<local, active, outbox>>
    PROVE  /\ NoChangeForgotten'
           /\ \A k \in Keys \ Pending :
                \/ target'[k] = target[k]
                \/ k \in dropped' /\ Mirrored!Reduced(target'[k], target[k])
           /\ dropped \ dropped' \subseteq Pending
           /\ \A r \in b : Mirrored!Shows(target'[r.key], r.row)
<1>1. TypeOK /\ NamesAreUnique /\ Shape(p) /\ Fresh(p)
  BY DEF JInv, IInv
<1>2. b \subseteq RowsOf(p) /\ b \subseteq SourceRow
  BY <1>1 DEF RowsOf, TypeOK
<1>3. KeysOf(b) \subseteq Pending
  BY <1>1, <1>2, HeldIsPending DEF KeysOf
<1>4. /\ \A r \in b : Mirrored!Shows(target'[r.key], r.row)
      /\ \A k \in Keys \ KeysOf(b) :
           \/ target'[k] = target[k]
           \/ k \in dropped' /\ Mirrored!Reduced(target'[k], target[k])
           \/ /\ target[k] # None /\ Mirrored!Reduced(target'[k], target[k])
              /\ \E r \in b : SameName(r.key, k) /\ target[k].value = r.row.value
      /\ dropped \ dropped' \subseteq KeysOf(b)
  BY <1>1, ApplyRowsEffect
<1>5. ASSUME NEW k \in Keys \ Pending
      PROVE  \/ target'[k] = target[k]
             \/ k \in dropped' /\ Mirrored!Reduced(target'[k], target[k])
  <2>1. k \notin KeysOf(b)
    BY <1>3
  <2>2. ASSUME NEW r \in b, SameName(r.key, k), target[k] # None, target[k].value = r.row.value
        PROVE  k \in dropped'
    <3>1. SUFFICES ASSUME k \notin dropped' PROVE FALSE
      OBVIOUS
    <3>2. Agrees(k)
      BY <1>4, <2>1, <3>1 DEF JInv, NoChangeForgotten
    <3>3. k \in active /\ local[k].value = r.row.value
      BY <2>2, <3>2 DEF Agrees, Mirrored!Shows, Projected
    <3> QED
      BY <1>1, <1>2, <2>2, <3>3 DEF Fresh
  <2> QED
    BY <1>4, <2>1, <2>2
<1>6. NoChangeForgotten'
  <2>1. ASSUME NEW k \in Keys \ (Pending \cup dropped') PROVE Agrees(k)'
    <3>1. target'[k] = target[k] /\ k \notin dropped
      BY <1>3, <1>4, <1>5, <2>1
    <3> QED
      BY <2>1, <3>1 DEF JInv, NoChangeForgotten, Agrees, Projected
  <2> QED
    BY <2>1 DEF NoChangeForgotten, Pending
<1> QED
  BY <1>3, <1>4, <1>5, <1>6

(* archive_and_delete_many: the keys it deletes are queued.                *)
LEMMA DropFresh ==
    ASSUME JInv, NEW p \in Pushers, NEW D \in SUBSET items[p], Drop(KeysOf(D)),
           UNCHANGED <<local, active, outbox>>
    PROVE  /\ NoChangeForgotten'
           /\ \A k \in Keys \ Pending :
                \/ target'[k] = target[k]
                \/ k \in dropped' /\ Mirrored!Reduced(target'[k], target[k])
           /\ dropped \ dropped' \subseteq Pending
           /\ \A i \in D : target'[i.key] = None
<1>1. TypeOK /\ NamesAreUnique /\ Fresh(p)
  BY DEF JInv, IInv
<1>2. KeysOf(D) \subseteq Pending
  BY <1>1, HeldIsPending DEF KeysOf
<1>3. KeysOf(D) \in SUBSET Keys /\ \A i \in D : i.key \in KeysOf(D)
  BY <1>2 DEF Pending, KeysOf
<1>4. /\ \A k \in KeysOf(D) : target'[k] = None
      /\ \A k \in Keys \ KeysOf(D) :
           \/ target'[k] = target[k]
           \/ k \in dropped' /\ Mirrored!Reduced(target'[k], target[k])
      /\ dropped \ dropped' \subseteq KeysOf(D)
  BY <1>1, <1>3, DropEffect
<1>5. NoChangeForgotten'
  <2>1. ASSUME NEW k \in Keys \ (Pending \cup dropped') PROVE Agrees(k)'
    <3>1. target'[k] = target[k] /\ k \notin dropped
      BY <1>2, <1>4, <2>1
    <3> QED
      BY <2>1, <3>1 DEF JInv, NoChangeForgotten, Agrees, Projected
  <2> QED
    BY <2>1 DEF NoChangeForgotten, Pending
<1> QED
  BY <1>2, <1>3, <1>4, <1>5

LEMMA CurrentBatch == JInv => BatchIsCurrent
<1> SUFFICES ASSUME JInv, NEW p \in Pushers, pc[p] \in {"ackDelete", "ack"},
                    NEW r \in batch[p], r.gen = outbox[r.key].gen
             PROVE  Agrees(r.key)
  BY DEF BatchIsCurrent
<1>1. TypeOK /\ LocalOK /\ Shape(p) /\ Fresh(p) /\ Committed(p)
  BY DEF JInv, IInv
<1>2. CASE pc[p] = "ack"
  <2>1. r \in RowsOf(p) /\ Mirrored!Shows(target[r.key], r.row)
    BY <1>1, <1>2 DEF Shape, RowsOf, Committed
  <2> QED
    BY <1>1, <2>1 DEF Fresh, Agrees, Projected
<1>3. CASE pc[p] = "ackDelete"
  <2>1. r \in items[p] /\ r.op = "delete" /\ target[r.key] = None
    BY <1>1, <1>3 DEF Shape, Committed
  <2>2. r.key \in Pending /\ outbox[r.key].op = "delete"
    BY <1>1, <2>1, HeldIsPending DEF Fresh
  <2> QED
    BY <1>1, <2>1, <2>2 DEF LocalOK, Agrees, Mirrored!Shows, Projected
<1> QED
  BY <1>2, <1>3

(* acknowledge: what is no longer queued is mirrored.                      *)
LEMMA AcknowledgeFresh ==
    ASSUME JInv, NEW p \in Pushers, pc[p] \in {"ackDelete", "ack"},
           Acknowledge(batch[p]), UNCHANGED <<local, active, target, dropped>>
    PROVE  /\ Pending' \subseteq Pending
           /\ \A k \in Pending \ Pending' : Agrees(k)
           /\ NoChangeForgotten'
           /\ \A k \in Keys : (\A r \in batch[p] : r.key # k) => outbox'[k] = outbox[k]
<1>1. \A k \in Keys :
        \/ outbox'[k] = outbox[k]
        \/ \E r \in batch[p] : r.key = k /\ r.gen = outbox[k].gen /\ outbox'[k].gen = 0
  BY DEF Acknowledge, NoEntry
<1>2. BatchIsCurrent
  BY CurrentBatch
<1>3. Pending' \subseteq Pending /\ \A k \in Pending \ Pending' : Agrees(k)
  BY <1>1, <1>2 DEF Pending, BatchIsCurrent
<1>4. NoChangeForgotten'
  BY <1>3 DEF JInv, NoChangeForgotten, Agrees, Projected, Pending
<1> QED
  BY <1>1, <1>3, <1>4 DEF Acknowledge

(* Fresh survives if the run holds less and nothing else moves.            *)
LEMMA LessHeldFresh ==
    ASSUME NEW p \in Pushers, Fresh(p), UNCHANGED <<local, active, outbox>>,
           items'[p] \subseteq items[p], RowsOf(p)' \subseteq RowsOf(p)
    PROVE  Fresh(p)'
BY DEF Fresh, Pending, SameName

LEMMA PushJInv ==
    ASSUME OnePusher, JInv, NEW p \in Pushers, Push(p) \/ RunFails(p)
    PROVE  JInv'
<1>1. IInv' /\ IInv /\ TypeOK /\ LocalOK /\ Shape(p) /\ Shape(p)' /\ Fresh(p) /\ Committed(p)
  BY PushIInv DEF JInv, IInv
<1>2. SUFFICES Fresh(p)' /\ Committed(p)' /\ NoChangeForgotten'
  BY <1>1 DEF JInv, OnePusher
<1>3. ASSUME UNCHANGED <<local, active, outbox, target, dropped>>
      PROVE  NoChangeForgotten'
  BY <1>3 DEF JInv, NoChangeForgotten, Agrees, Projected, Pending
<1>4. ASSUME EndRun(p) PROVE Fresh(p)' /\ Committed(p)'
  <2>1. pc'[p] = "idle" /\ items'[p] = {} /\ todo'[p] = {}
    BY <1>1, <1>4 DEF EndRun, Goto, TypeOK
  <2> QED
    BY <2>1 DEF Fresh, Committed, RowsOf
<1>5. ASSUME UNCHANGED <<local, active, outbox, items, todo>>
      PROVE  Fresh(p)'
  BY <1>1, <1>5, LessHeldFresh DEF RowsOf
<1>6. CASE AcquireLease(p)
  BY <1>1, <1>3, <1>5, <1>6 DEF AcquireLease, Goto, Committed, TypeOK
<1>7. CASE RenewLease(p)
  BY <1>1, <1>3, <1>5, <1>7 DEF RenewLease, Goto, Committed, TypeOK
<1>8. CASE LeaseLost(p)
  BY <1>3, <1>4, <1>8 DEF LeaseLost
<1>9. CASE QueueEmpty(p)
  BY <1>3, <1>4, <1>9 DEF QueueEmpty
<1>10. CASE RunFails(p)
  BY <1>3, <1>4, <1>10 DEF RunFails
<1>11. CASE ReadQueue(p)
  <2>1. PICK K \in SUBSET Pending :
          items' = [items EXCEPT ![p] =
              {[key |-> k, gen |-> outbox[k].gen, op |-> outbox[k].op] : k \in K}]
    BY <1>11 DEF ReadQueue
  <2>2. /\ pc'[p] = "table" /\ todo'[p] = {}
        /\ items'[p] = {[key |-> k, gen |-> outbox[k].gen, op |-> outbox[k].op] : k \in K}
        /\ UNCHANGED <<local, active, outbox, target, dropped>>
    BY <1>1, <1>11, <2>1 DEF ReadQueue, Goto, TypeOK, Shape
  <2>3. \A k \in Keys : outbox[k].gen \in Nat
    BY <1>1 DEF TypeOK, Entry
  <2>4. Fresh(p)'
    BY <2>2, <2>3 DEF Fresh, RowsOf, Pending
  <2> QED
    BY <1>3, <2>2, <2>4 DEF Committed
<1>12. CASE ArchiveAndDelete(p)
  <2>1. PICK D \in SUBSET Deletes(p) : batch' = [batch EXCEPT ![p] = D] /\ Drop(KeysOf(D))
    BY <1>12 DEF ArchiveAndDelete
  <2>2. D \in SUBSET items[p]
    BY DEF Deletes, CurrentTable
  <2>3. /\ pc' = [pc EXCEPT ![p] = "ackDelete"]
        /\ UNCHANGED <<local, active, outbox, items, todo>>
    BY <1>12 DEF ArchiveAndDelete, Goto
  <2>4. NoChangeForgotten' /\ \A i \in D : target'[i.key] = None
    BY <2>1, <2>2, <2>3, DropFresh
  <2>5. pc'[p] = "ackDelete" /\ batch'[p] = D
    BY <1>1, <2>1, <2>3 DEF TypeOK
  <2> QED
    BY <1>5, <2>3, <2>4, <2>5 DEF Committed
<1>13. CASE AcknowledgeDeletes(p)
  <2>1. /\ pc[p] = "ackDelete" /\ Acknowledge(batch[p])
        /\ pc' = [pc EXCEPT ![p] = "table"]
        /\ items' = [items EXCEPT ![p] = @ \ batch[p]]
        /\ UNCHANGED <<local, active, target, dropped, todo>>
    BY <1>13 DEF AcknowledgeDeletes, Goto
  <2>2. /\ pc'[p] = "table" /\ todo'[p] = {} /\ items'[p] = items[p] \ batch[p]
        /\ batch[p] \subseteq items[p] /\ items[p] \subseteq Item
    BY <1>1, <2>1 DEF TypeOK, Shape
  <2>3. NoChangeForgotten'
        /\ \A k \in Keys : (\A r \in batch[p] : r.key # k) => outbox'[k] = outbox[k]
    BY <2>1, AcknowledgeFresh
  <2>4. \A i \in items'[p] : i.key \in Keys /\ \A r \in batch[p] : r.key # i.key
    BY <1>1, <2>2 DEF Shape, Item
  <2>5. Fresh(p)'
    BY <1>1, <2>2, <2>3, <2>4 DEF Fresh, RowsOf
  <2> QED
    BY <2>2, <2>3, <2>5 DEF Committed
<1>14. CASE ReadRows(p)
  <2> DEFINE rows == SourceRows(Upserts(p))
  <2>1. PICK B \in SUBSET SUBSET rows :
          /\ UNION B = rows
          /\ todo' = [todo EXCEPT ![p] = B]
          /\ Goto(p, IF B = {} THEN "table" ELSE "apply")
    BY <1>14 DEF ReadRows, IsBatching
  <2>2. /\ items' = [items EXCEPT ![p] = @ \ Upserts(p)]
        /\ UNCHANGED <<local, active, outbox, target, dropped>>
    BY <1>14 DEF ReadRows
  <2>3. Upserts(p) \subseteq items[p] /\ items[p] \subseteq Item
    BY <1>1 DEF Upserts, CurrentTable, TypeOK
  <2>4. \A r \in rows : \E i \in items[p] :
          i.key \in active /\ r = [key |-> i.key, gen |-> i.gen, row |-> local[i.key]]
    BY <2>3 DEF SourceRows, RowOf
  <2> HIDE DEF rows
  <2>5. /\ RowsOf(p)' = rows /\ items'[p] \subseteq items[p]
        /\ pc'[p] \in {"table", "apply"}
    BY <1>1, <2>1, <2>2 DEF TypeOK, RowsOf, Goto
  <2>6. \A r \in rows : r.key \in active /\ r.row = local[r.key]
                        /\ r.gen <= outbox[r.key].gen
    BY <1>1, <2>4 DEF Fresh
  <2>7. ASSUME NEW r \in rows, NEW k \in active, SameName(r.key, k),
               local[k].value = r.row.value
        PROVE  FALSE
    BY <1>1, <2>6, <2>7 DEF LocalOK, TypeOK
  <2>8. Fresh(p)'
    BY <1>1, <2>2, <2>5, <2>6, <2>7 DEF Fresh, SameName
  <2> QED
    BY <1>3, <2>2, <2>5, <2>8 DEF Committed
<1>15. CASE NextRound(p)
  <2>1. UNCHANGED <<local, active, outbox, target, dropped>>
    BY <1>15 DEF NextRound
  <2>2. CASE EndRun(p)
    BY <1>3, <1>4, <2>1, <2>2
  <2>3. CASE Goto(p, "renew") /\ UNCHANGED <<items, todo>>
    BY <1>1, <1>3, <1>5, <2>1, <2>3 DEF Goto, Committed, TypeOK
  <2> QED
    BY <1>15, <2>2, <2>3 DEF NextRound
<1>16. CASE ApplyBatch(p)
  <2>1. PICK b \in Candidates(p) :
          (\E rank \in Ranks(b) : ApplyRows(b, rank)) /\ batch' = [batch EXCEPT ![p] = b]
    BY <1>16 DEF ApplyBatch
  <2>2. /\ pc[p] = "apply" /\ pc' = [pc EXCEPT ![p] = "ack"]
        /\ UNCHANGED <<local, active, outbox, items, todo>>
    BY <1>16 DEF ApplyBatch, Goto
  <2>3. b \in todo[p]
    BY <1>1, <2>2 DEF Candidates, Shape
  <2>4. NoChangeForgotten' /\ \A r \in b : Mirrored!Shows(target'[r.key], r.row)
    BY <2>1, <2>2, <2>3, ApplyFresh
  <2>5. pc'[p] = "ack" /\ batch'[p] = b
    BY <1>1, <2>1, <2>2 DEF TypeOK
  <2> QED
    BY <1>5, <2>2, <2>4, <2>5 DEF Committed
<1>17. CASE ApplyFails(p)
  <2>1. PICK b \in Candidates(p) :
          /\ Retry(p, b)
          /\ UNCHANGED <<target, dropped>> \/ \E rank \in Ranks(b) : ApplyRows(b, rank)
    BY <1>17 DEF ApplyFails
  <2>2. pc[p] = "apply" /\ UNCHANGED <<local, active, outbox>>
    BY <1>17 DEF ApplyFails
  <2>3. b \in todo[p]
    BY <1>1, <2>2 DEF Candidates, Shape
  <2>4. NoChangeForgotten'
    BY <1>3, <2>1, <2>2, <2>3, ApplyFresh
  <2>5. CASE EndRun(p)
    BY <1>4, <2>4, <2>5
  <2>6. CASE UNCHANGED <<pc, items, todo>>
    BY <1>5, <2>2, <2>4, <2>6 DEF Committed
  <2>7. CASE UNCHANGED items /\ \E h \in SUBSET b : Continue(p, (todo[p] \ {b}) \cup {h, b \ h})
    <3>1. PICK h \in SUBSET b : Continue(p, (todo[p] \ {b}) \cup {h, b \ h})
      BY <2>7
    <3>2. RowsOf(p)' \subseteq RowsOf(p) /\ pc'[p] \in {"table", "apply"}
      BY <1>1, <2>3, <3>1 DEF Continue, Goto, RowsOf, TypeOK
    <3> QED
      BY <1>1, <2>2, <2>4, <2>7, <3>2, LessHeldFresh DEF Committed
  <2> QED
    BY <2>1, <2>5, <2>6, <2>7 DEF Retry
<1>18. CASE AcknowledgeBatch(p)
  <2>1. /\ pc[p] = "ack" /\ Acknowledge(batch[p])
        /\ Continue(p, todo[p] \ {batch[p]})
        /\ UNCHANGED <<local, active, target, items, dropped>>
    BY <1>18 DEF AcknowledgeBatch
  <2>2. NoChangeForgotten' /\ Pending' \subseteq Pending
        /\ \A k \in Keys : (\A r \in batch[p] : r.key # k) => outbox'[k] = outbox[k]
    BY <2>1, AcknowledgeFresh
  <2>3. /\ RowsOf(p)' \subseteq UNION (todo[p] \ {batch[p]})
        /\ pc'[p] \in {"table", "apply"}
    BY <1>1, <2>1 DEF Continue, Goto, RowsOf, TypeOK
  <2>4. /\ batch[p] \in todo[p] /\ batch[p] \subseteq RowsOf(p) /\ RowsOf(p) \subseteq SourceRow
        /\ items[p] \subseteq Item /\ RowsOf(p)' \subseteq RowsOf(p)
    BY <1>1, <2>1, <2>3 DEF Shape, RowsOf, TypeOK
  <2>5. \A r \in RowsOf(p)' : r.key \in Keys /\ \A s \in batch[p] : s.key # r.key
    <3>1. \A c \in todo[p] \ {batch[p]} : c \cap batch[p] = {}
      BY <1>1, <2>4 DEF Shape
    <3>2. \A r \in RowsOf(p)' : r \notin batch[p]
      BY <2>3, <3>1
    <3> QED
      BY <1>1, <2>4, <3>2 DEF Shape, SourceRow
  <2>6. \A i \in items[p] : i.key \in Keys /\ \A s \in batch[p] : s.key # i.key
    BY <1>1, <2>4 DEF Shape, Item
  <2>7. ASSUME NEW r \in RowsOf(p)', NEW k \in active, SameName(r.key, k),
               local[k].value = r.row.value
        PROVE  k \in Pending'
    <3>1. k \in Pending
      BY <1>1, <2>4, <2>7 DEF Fresh
    <3>2. CASE \A s \in batch[p] : s.key # k
      BY <2>2, <3>1, <3>2 DEF Pending
    <3>3. ASSUME NEW s \in batch[p], s.key = k PROVE k \in Pending'
      <4>1. s.row.value # r.row.value
        BY <1>1, <2>4, <2>7, <3>3 DEF Shape
      <4>2. s.gen # outbox[k].gen
        BY <1>1, <2>4, <2>7, <3>3, <4>1 DEF Fresh
      <4>3. \A t \in batch[p] : t.key = k => t = s
        BY <1>1, <2>4, <3>3 DEF Shape
      <4>4. outbox'[k] = outbox[k]
        BY <2>1, <3>1, <4>2, <4>3 DEF Acknowledge, Pending
      <4> QED
        BY <3>1, <4>4 DEF Pending
    <3> QED
      BY <3>2, <3>3
  <2>8. Fresh(p)'
    BY <1>1, <2>1, <2>2, <2>4, <2>5, <2>6, <2>7 DEF Fresh, SameName
  <2> QED
    BY <2>2, <2>3, <2>8 DEF Committed
<1> QED
  BY <1>6, <1>7, <1>8, <1>9, <1>10, <1>11, <1>12, <1>13, <1>14, <1>15, <1>16, <1>17, <1>18
  DEF Push

(* Steps that touch neither the rows nor the outbox nor a run.             *)
LEMMA QuietJInv ==
    ASSUME JInv, IInv',
           UNCHANGED <<local, active, outbox, target, pc, items, todo, batch, dropped>>
    PROVE  JInv'
<1>1. ASSUME NEW p \in Pushers PROVE Fresh(p)' /\ Committed(p)'
  <2>1. Fresh(p) /\ Committed(p) /\ RowsOf(p)' = RowsOf(p)
    BY DEF JInv, RowsOf
  <2> QED
    BY <2>1, LessHeldFresh DEF Committed
<1>2. NoChangeForgotten'
  BY DEF JInv, NoChangeForgotten, Agrees, Projected, Pending
<1> QED
  BY <1>1, <1>2 DEF JInv

LEMMA ApplicationJInv ==
    ASSUME JInv, Application, IInv'
    PROVE  /\ JInv' /\ UNCHANGED <<target, dropped>>
           /\ \E K \in SUBSET Keys :
                /\ Pending' = Pending \cup K
                /\ \A k \in Keys \ K : Projected(k)' = Projected(k)
<1>1. PICK k \in Keys :
        \/ \E row \in MayHold[k], isActive \in BOOLEAN : WriteRow(k, row, isActive)
        \/ DeleteRow(k)
  BY DEF Application
<1>2. PICK K \in SUBSET Keys, U \in SUBSET Keys :
        /\ Capture(K, U)
        /\ \A j \in Keys \ K : local'[j] = local[j] /\ (j \in active' <=> j \in active)
  <2>1. ASSUME NEW row \in MayHold[k], NEW isActive \in BOOLEAN, WriteRow(k, row, isActive)
        PROVE  /\ Capture({k}, IF isActive THEN {k} ELSE {})
               /\ \A j \in Keys \ {k} : local'[j] = local[j] /\ (j \in active' <=> j \in active)
    BY <2>1 DEF WriteRow, JInv, IInv, TypeOK
  <2>2. {k} \in SUBSET Keys /\ (IF TRUE THEN {k} ELSE {}) \in SUBSET Keys /\ {} \in SUBSET Keys
    OBVIOUS
  <2>3. CASE \E row \in MayHold[k], isActive \in BOOLEAN : WriteRow(k, row, isActive)
    <3>1. PICK row \in MayHold[k], isActive \in BOOLEAN : WriteRow(k, row, isActive)
      BY <2>3
    <3>2. (IF isActive THEN {k} ELSE {}) \in SUBSET Keys
      OBVIOUS
    <3> QED
      BY <2>1, <2>2, <3>1, <3>2
  <2>4. CASE DeleteRow(k)
    <3> DEFINE changed == {k} \cup Touched(local, {k})
               gone == {k} \cup Children({k})
    <3>1. local \in [Keys -> Row \cup {None}] /\ {k} \in SUBSET Keys /\ active \in SUBSET Keys
      BY DEF JInv, IInv, TypeOK
    <3>2. /\ local' = Without(local, {k}) /\ active' = active \ gone
          /\ Capture(changed, active \ gone)
      BY <2>4 DEF DeleteRow
    <3>3. /\ changed \in SUBSET Keys /\ \A j \in Keys \ changed : local'[j] = local[j]
          /\ \A j \in gone : local'[j] = None
      BY <3>1, <3>2, WithoutEffect
    <3>4. \A j \in active : local[j] # None
      BY DEF JInv, IInv, LocalOK
    <3>5. \A j \in Keys \ changed : j \in active' <=> j \in active
      BY <3>2, <3>3, <3>4
    <3>6. active \ gone \in SUBSET Keys
      BY <3>1
    <3> HIDE DEF changed, gone
    <3> QED
      BY <3>2, <3>3, <3>5, <3>6
  <2> QED
    BY <1>1, <2>3, <2>4
<1>3. UNCHANGED <<target, pc, items, todo, batch, dropped>>
  BY <1>1 DEF WriteRow, DeleteRow
<1>4. JInv' /\ Pending' = Pending \cup K
  BY <1>2, <1>3, CaptureFresh
<1>5. \A j \in Keys \ K : Projected(j)' = Projected(j)
  BY <1>2 DEF Projected
<1> QED
  BY <1>3, <1>4, <1>5

LEMMA AuditJInv ==
    ASSUME JInv, Audit, IInv'
    PROVE  /\ JInv' /\ UNCHANGED <<local, active, target, dropped>>
           /\ \E K \in SUBSET Keys : Pending' = Pending \cup K
<1>1. UNCHANGED <<local, active, target, pc, items, todo, batch, dropped>>
  BY DEF Audit, AuditRead, AuditRow
<1>2. CASE UNCHANGED outbox
  BY <1>1, <1>2, QuietJInv DEF Pending
<1>3. CASE \E r \in page : Capture({r.key}, {r.key})
  <2>1. PICK r \in page : Capture({r.key}, {r.key})
    BY <1>3
  <2>2. {r.key} \in SUBSET Keys
    BY DEF JInv, IInv, TypeOK
  <2> QED
    BY <1>1, <2>1, <2>2, CaptureFresh
<1> QED
  BY <1>2, <1>3 DEF Audit, AuditRead, AuditRow

LEMMA NextJInv == OnePusher /\ JInv /\ [Next]_vars => JInv'
<1> SUFFICES ASSUME OnePusher, JInv, [Next]_vars PROVE JInv'
  OBVIOUS
<1>1. IInv /\ IInv'
  BY NextIInv DEF JInv
<1>2. CASE LeaseExpires
  BY <1>1, <1>2, QuietJInv DEF LeaseExpires
<1>3. CASE UNCHANGED vars
  BY <1>1, <1>3, QuietJInv DEF vars
<1>4. CASE \E p \in Pushers : Push(p) \/ RunFails(p)
  BY <1>4, PushJInv
<1> QED
  BY <1>1, <1>2, <1>3, <1>4, ApplicationJInv, AuditJInv DEF Next

LEMMA Lossless == ASSUME OnePusher PROVE Spec => []JInv
BY InitJInv, NextJInv, PTL DEF Spec

(* No change of the local database is forgotten, if pushers do not         *)
(* overlap: a key without an entry is mirrored, unless the target itself   *)
(* dropped its row.                                                        *)
THEOREM NothingForgotten == ASSUME OnePusher PROVE Spec => []NoChangeForgotten
<1>1. JInv => NoChangeForgotten
  BY DEF JInv
<1> QED
  BY <1>1, Lossless, PTL

(* An entry is acknowledged with the very row that reached the target, if  *)
(* pushers do not overlap.                                                 *)
THEOREM AcknowledgedIsCurrent == ASSUME OnePusher PROVE Spec => []BatchIsCurrent
BY CurrentBatch, Lossless, PTL

-----------------------------------------------------------------------------
(* Refinement.                                                             *)

LEMMA MirrorInit == Init => Mirrored!Init
BY DEF Init, Mirrored!Init, activeRows, Projected, Pending, NoEntry

LEMMA RowsTyped ==
    ASSUME TypeOK
    PROVE  activeRows \in Mirrored!Table /\ target \in Mirrored!Table
BY DEF TypeOK, activeRows, Projected, Mirrored!Table, Mirrored!Row, Row

LEMMA PushMirrored ==
    ASSUME JInv, JInv', NEW p \in Pushers, Push(p) \/ RunFails(p)
    PROVE  [Mirrored!Next]_(Mirrored!vars)
<1>1. TypeOK /\ TypeOK' /\ Shape(p)
  BY DEF JInv, IInv
<1>2. UNCHANGED <<local, active>>
  BY DEF Push, RunFails, AcquireLease, RenewLease, LeaseLost, ReadQueue, QueueEmpty,
     ArchiveAndDelete, AcknowledgeDeletes, ReadRows, NextRound, ApplyBatch, ApplyFails,
     AcknowledgeBatch
<1>3. activeRows' = activeRows
  BY <1>2 DEF activeRows, Projected
<1>4. ASSUME UNCHANGED outbox,
             \A k \in Keys \ Pending :
               \/ target'[k] = target[k]
               \/ k \in dropped' /\ Mirrored!Reduced(target'[k], target[k]),
             dropped \ dropped' \subseteq Pending
      PROVE  Mirrored!Write
  <2>1. target' \in Mirrored!Table /\ dropped' \subseteq Keys
    BY <1>1 DEF TypeOK, Mirrored!Table, Mirrored!Row, Row
  <2>2. UNCHANGED <<activeRows, Pending>>
    BY <1>3, <1>4 DEF Pending
  <2> QED
    BY <1>4, <2>1, <2>2 DEF Mirrored!Write
<1>5. ASSUME pc[p] \in {"ackDelete", "ack"}, Acknowledge(batch[p]), UNCHANGED <<target, dropped>>
      PROVE  Mirrored!Clear
  <2>1. Pending' \subseteq Pending /\ \A k \in Pending \ Pending' : Agrees(k)
    BY <1>2, <1>5, AcknowledgeFresh
  <2> QED
    BY <1>3, <1>5, <2>1 DEF Mirrored!Clear, activeRows, Agrees, Pending
<1>6. CASE ArchiveAndDelete(p)
  <2>1. PICK D \in SUBSET Deletes(p) : Drop(KeysOf(D))
    BY <1>6 DEF ArchiveAndDelete
  <2>2. D \in SUBSET items[p] /\ UNCHANGED outbox
    BY <1>6 DEF ArchiveAndDelete, Deletes, CurrentTable
  <2> QED
    BY <1>2, <1>4, <2>1, <2>2, DropFresh DEF Mirrored!Next
<1>7. CASE \E b \in Candidates(p) : \E rank \in Ranks(b) :
             pc[p] = "apply" /\ ApplyRows(b, rank) /\ UNCHANGED outbox
  <2>1. PICK b \in Candidates(p) :
          pc[p] = "apply" /\ UNCHANGED outbox /\ \E rank \in Ranks(b) : ApplyRows(b, rank)
    BY <1>7
  <2>2. b \in todo[p]
    BY <1>1, <2>1 DEF Candidates, Shape
  <2> QED
    BY <1>2, <1>4, <2>1, <2>2, ApplyFresh DEF Mirrored!Next
<1>8. CASE AcknowledgeDeletes(p)
  BY <1>5, <1>8 DEF AcknowledgeDeletes, Mirrored!Next
<1>9. CASE AcknowledgeBatch(p)
  BY <1>5, <1>9 DEF AcknowledgeBatch, Mirrored!Next
<1>10. CASE UNCHANGED <<outbox, target, dropped>>
  BY <1>3, <1>10 DEF Mirrored!vars, Pending
<1> QED
  BY <1>6, <1>7, <1>8, <1>9, <1>10 DEF Push, RunFails, AcquireLease, RenewLease, LeaseLost,
     ReadQueue, QueueEmpty, ReadRows, NextRound, ApplyBatch, ApplyFails

LEMMA NextMirrored ==
    ASSUME OnePusher, JInv, JInv', [Next]_vars
    PROVE  [Mirrored!Next]_(Mirrored!vars)
<1>1. IInv' /\ TypeOK'
  BY DEF JInv, IInv
<1>2. CASE Application
  <2>1. PICK K \in SUBSET Keys :
          /\ Pending' = Pending \cup K
          /\ \A k \in Keys \ K : Projected(k)' = Projected(k)
    BY <1>1, <1>2, ApplicationJInv
  <2>2. UNCHANGED <<target, dropped>>
    BY <1>1, <1>2, ApplicationJInv
  <2>3. activeRows' \in Mirrored!Table
    BY <1>1 DEF TypeOK, activeRows, Projected, Mirrored!Table, Mirrored!Row, Row
  <2>4. \A k \in Keys \ K : activeRows'[k] = activeRows[k]
    BY <2>1 DEF activeRows
  <2> QED
    BY <2>1, <2>2, <2>3, <2>4 DEF Mirrored!Next, Mirrored!Change
<1>3. CASE Audit
  <2>1. PICK K \in SUBSET Keys : Pending' = Pending \cup K
    BY <1>1, <1>3, AuditJInv
  <2>2. UNCHANGED <<local, active, target, dropped>>
    BY <1>1, <1>3, AuditJInv
  <2>3. activeRows' = activeRows
    BY <2>2 DEF activeRows, Projected
  <2>4. activeRows' \in Mirrored!Table
    BY <1>1 DEF TypeOK, activeRows, Projected, Mirrored!Table, Mirrored!Row, Row
  <2> QED
    BY <2>1, <2>2, <2>3, <2>4 DEF Mirrored!Next, Mirrored!Change
<1>4. CASE LeaseExpires \/ UNCHANGED vars
  BY <1>4 DEF LeaseExpires, vars, Mirrored!vars, activeRows, Projected, Pending
<1>5. CASE \E p \in Pushers : Push(p) \/ RunFails(p)
  BY <1>5, PushMirrored
<1> QED
  BY <1>2, <1>3, <1>4, <1>5 DEF Next

(* neon-sync implements Mirror, if pushers do not overlap.                 *)
THEOREM Refinement == ASSUME OnePusher PROVE Spec => ImplementsMirror
<1>1. Init => Mirrored!Init
  BY MirrorInit
<1>2. JInv /\ JInv' /\ [Next]_vars => [Mirrored!Next]_(Mirrored!vars)
  BY NextMirrored
<1> QED
  BY <1>1, <1>2, Lossless, PTL DEF ImplementsMirror, Mirrored!Spec, Spec
=============================================================================
