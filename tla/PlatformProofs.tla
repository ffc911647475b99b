----------------------------- MODULE PlatformProofs --------------------------
(***************************************************************************)
(* Theorems about Migrations, Embeddings, McpServer and Search, and about  *)
(* Platform, where every service runs beside the others: what is proved of *)
(* one of them alone holds of it there.                                    *)
(***************************************************************************)
EXTENDS Platform, MemoriesProofs, ProceduresProofs, DocumentsProofs, TranscriptsProofs,
        FiniteSetTheorems, SequenceTheorems, TLAPS

-----------------------------------------------------------------------------
(* Migrations: any number of programs that start at any time.              *)

Prefix(n) == {embedded[i] : i \in 1 .. n}

(* A program at work knows the first k versions and has dealt with those   *)
(* before the next; the first n are recorded.                              *)
MigratorAt(p, n) ==
    /\ migrator[p] = [at |-> migrator[p].at, applied |-> migrator[p].applied,
                      next |-> migrator[p].next]
    /\ migrator[p].at \in {"execute", "record"}
    /\ migrator[p].next \in Position /\ migrator[p].next <= n + 1
    /\ \E k \in 0 .. n : migrator[p].applied = Prefix(k) /\ k < migrator[p].next

(* Versions are recorded in order, by however many programs. *)
RecordedInOrder(n) ==
    /\ recorded = Prefix(n)
    /\ \A p \in Migrators :
         \/ migrator[p] = Stopped
         \/ migrator[p] = Serving /\ n = 7
         \/ MigratorAt(p, n)

(* The i-th script has been executed, by a program that may yet record it. *)
Done(i) ==
    \/ embedded[i] \in recorded
    \/ \E p \in Migrators : migrator[p].at = "record" /\ migrator[p].next = i

(* What the later scripts did stays done, or is undone by a named one.     *)
Lasting ==
    /\ Done(6) => schema.fts = "guarded" \/ Undone({"001", "002"})
    /\ Done(7) => schema.source = "none" \/ Undone({"001", "004", "005", "011"})
    /\ Done(7) => (schema.dimension = "any" /\ schema.model = "unique") \/ Undone({"005", "011"})
    /\ current \subseteq embeddings \/ Undone({"004", "005", "011"})
    /\ current # {} => embedded[5] \in recorded

MigrationsTyped ==
    /\ schema \in Schemas /\ overtaken \subseteq AllVersions
    /\ embeddings \subseteq Models /\ current \subseteq Models
    /\ starts \in 0 .. MaxStarts

MigrationsIInv ==
    /\ migrator = [p \in Migrators |-> migrator[p]]
    /\ \E n \in 0 .. 7 : RecordedInOrder(n)
    /\ Lasting /\ MigrationsTyped

-----------------------------------------------------------------------------
(* The scripts.                                                            *)

Db(d, s, m, f) == [dimension |-> d, source |-> s, model |-> m, fts |-> f]

Table == [n \in 0 .. 7 |->
    IF n = 0 THEN Db("none", "none", "none", "none")
    ELSE IF n < 3 THEN Db("2048", "plain", "none", "plain")
    ELSE IF n < 6 THEN Db("2048", "unique", "none", "plain")
    ELSE IF n = 6 THEN Db("2048", "unique", "none", "guarded")
    ELSE Db("any", "none", "unique", "guarded")]

LEMMA SevenVersions ==
    /\ Len(embedded) = 7 /\ Position = 1 .. 7
    /\ embedded[1] = "001" /\ embedded[2] = "002" /\ embedded[3] = "004"
    /\ embedded[4] = "005" /\ embedded[5] = "011" /\ embedded[6] = "012"
    /\ embedded[7] = "015"
BY DEF embedded, Position

LEMMA VersionsDiffer ==
    \A i, j \in Position : embedded[i] = embedded[j] => i = j
<1> SUFFICES ASSUME NEW i \in 1 .. 7, NEW j \in 1 .. 7, embedded[i] = embedded[j]
             PROVE  i = j
  BY SevenVersions
<1>1. i \in {1, 2, 3, 4, 5, 6, 7} /\ j \in {1, 2, 3, 4, 5, 6, 7}
  OBVIOUS
<1> QED
  BY <1>1, SevenVersions

LEMMA ScriptTable ==
    ASSUME NEW n \in 1 .. 7 PROVE Script(embedded[n], Table[n - 1]) = Table[n]
<1>1. n \in {1, 2, 3, 4, 5, 6, 7}
  OBVIOUS
<1>2. CASE n = 1
  <2>1. Table[0] = Db("none", "none", "none", "none") /\ Table[1] = Db("2048", "plain", "none", "plain")
    BY DEF Table
  <2>2. Script("001", Db("none", "none", "none", "none")) = Db("2048", "plain", "none", "plain")
    BY DEF Script, Db
  <2> QED
    BY <1>2, <2>1, <2>2, SevenVersions
<1>3. CASE n = 2
  BY <1>3, SevenVersions DEF Table, Db, Script
<1>4. CASE n = 3
  BY <1>4, SevenVersions DEF Table, Db, Script
<1>5. CASE n = 4
  <2>1. Table[3] = Db("2048", "unique", "none", "plain") /\ Table[4] = Db("2048", "unique", "none", "plain")
    BY DEF Table
  <2>2. Script("005", Db("2048", "unique", "none", "plain")) = Db("2048", "unique", "none", "plain")
    BY DEF Script, Db
  <2> QED
    BY <1>5, <2>1, <2>2, SevenVersions
<1>6. CASE n = 5
  <2>1. Table[4] = Db("2048", "unique", "none", "plain") /\ Table[5] = Db("2048", "unique", "none", "plain")
    BY DEF Table
  <2>2. Script("011", Db("2048", "unique", "none", "plain")) = Db("2048", "unique", "none", "plain")
    BY DEF Script, Db
  <2> QED
    BY <1>6, <2>1, <2>2, SevenVersions
<1>7. CASE n = 6
  BY <1>7, SevenVersions DEF Table, Db, Script
<1>8. CASE n = 7
  <2>1. Table[6] = Db("2048", "unique", "none", "guarded") /\ Table[7] = Db("any", "none", "unique", "guarded")
    BY DEF Table
  <2>2. Script("015", Db("2048", "unique", "none", "guarded")) = Db("any", "none", "unique", "guarded")
    BY DEF Script, Db
  <2> QED
    BY <1>8, <2>1, <2>2, SevenVersions
<1> QED
  BY <1>1, <1>2, <1>3, <1>4, <1>5, <1>6, <1>7, <1>8

LEMMA BuiltTable == Built = Table
<1> DEFINE F(g) == [n \in 0 .. Len(embedded) |->
                      IF n = 0 THEN Empty ELSE Script(embedded[n], g[n - 1])]
<1>1. Table = F(Table)
  <2>1. Table[0] = Empty
    BY DEF Table, Db, Empty
  <2>2. \A n \in 1 .. 7 : Table[n] = Script(embedded[n], Table[n - 1])
    BY ScriptTable
  <2>3. \A n \in 0 .. 7 : n # 0 => n \in 1 .. 7
    OBVIOUS
  <2>4. Table = [n \in 0 .. 7 |-> Table[n]]
    BY DEF Table
  <2>5. \A n \in 0 .. 7 : Table[n] = F(Table)[n]
    BY <2>1, <2>2, <2>3, SevenVersions
  <2> QED
    BY <2>4, <2>5, SevenVersions
<1>2. ASSUME NEW g, g = F(g) PROVE g = Table
  <2>1. \A n \in 0 .. 7 : g[n] = IF n = 0 THEN Empty ELSE Script(embedded[n], g[n - 1])
    BY <1>2, SevenVersions
  <2>2. \A n \in 0 .. 7 : Table[n] = IF n = 0 THEN Empty ELSE Script(embedded[n], Table[n - 1])
    BY <1>1, SevenVersions
  <2> HIDE DEF F
  <2>3. g[0] = Table[0]
    BY <2>1, <2>2
  <2>4. \A n \in 1 .. 7 : g[n - 1] = Table[n - 1] => g[n] = Table[n]
    BY <2>1, <2>2
  <2>5. g[1] = Table[1] /\ g[2] = Table[2]
    BY <2>3, <2>4
  <2>6. g[3] = Table[3] /\ g[4] = Table[4]
    BY <2>4, <2>5
  <2>7. g[5] = Table[5] /\ g[6] = Table[6]
    BY <2>4, <2>6
  <2>8. g[7] = Table[7]
    BY <2>4, <2>7
  <2>9. \A n \in 0 .. 7 : n \in {0, 1, 2, 3, 4, 5, 6, 7}
    OBVIOUS
  <2>10. \A n \in 0 .. 7 : g[n] = Table[n]
    BY <2>3, <2>5, <2>6, <2>7, <2>8, <2>9
  <2>11. g = [n \in 0 .. 7 |-> g[n]]
    BY <1>2, SevenVersions DEF F
  <2>12. Table = [n \in 0 .. 7 |-> Table[n]]
    BY DEF Table
  <2> QED
    BY <2>10, <2>11, <2>12
<1>3. Built = CHOOSE g : g = F(g)
  BY DEF Built
<1> HIDE DEF F
<1> QED
  BY <1>1, <1>2, <1>3

LEMMA ScriptTyped ==
    ASSUME NEW s \in Schemas, NEW v \in AllVersions PROVE Script(v, s) \in Schemas
<1>1. v \in {"001", "002", "004", "005", "011", "012", "015"}
  <2>1. PICK i \in 1 .. 7 : v = embedded[i]
    BY SevenVersions DEF AllVersions
  <2>2. i \in {1, 2, 3, 4, 5, 6, 7}
    OBVIOUS
  <2> QED
    BY <2>1, <2>2, SevenVersions
<1>2. CASE v = "001"
  BY <1>2 DEF Script, Schemas
<1>3. CASE v = "002"
  BY <1>3 DEF Script, Schemas
<1>4. CASE v = "004"
  BY <1>4 DEF Script, Schemas
<1>5. CASE v \in {"005", "011"}
  BY <1>5 DEF Script, Schemas
<1>6. CASE v = "012"
  BY <1>6 DEF Script, Schemas
<1>7. CASE v = "015"
  BY <1>7 DEF Script, Schemas
<1> QED
  BY <1>1, <1>2, <1>3, <1>4, <1>5, <1>6, <1>7

-----------------------------------------------------------------------------
(* What a program looks for.                                               *)

LEMMA PrefixMember ==
    ASSUME NEW n \in 0 .. 7, NEW i \in 1 .. 7
    PROVE  embedded[i] \in Prefix(n) <=> i <= n
<1>1. i <= n => embedded[i] \in Prefix(n)
  BY DEF Prefix
<1>2. ASSUME embedded[i] \in Prefix(n) PROVE i <= n
  <2> PICK j \in 1 .. n : embedded[i] = embedded[j]
    BY <1>2 DEF Prefix
  <2>1. j \in 1 .. 7
    OBVIOUS
  <2> QED
    BY <2>1, VersionsDiffer, SevenVersions
<1> QED
  BY <1>1, <1>2

LEMMA SeekFrom ==
    ASSUME NEW k \in 0 .. 7, NEW m \in 1 .. 8, NEW first \in 1 .. 8,
           first = IF m > k THEN m ELSE k + 1
    PROVE  Seek(Prefix(k), m) =
             IF first = 8 THEN Serving
             ELSE [at |-> "execute", applied |-> Prefix(k), next |-> first]
<1> DEFINE pending == {i \in Position : i >= m /\ embedded[i] \notin Prefix(k)}
<1>1. pending = {i \in 1 .. 7 : i >= first}
  <2>1. \A i \in 1 .. 7 : (i >= m /\ embedded[i] \notin Prefix(k)) <=> i >= first
    BY PrefixMember
  <2> QED
    BY <2>1, SevenVersions
<1>2. CASE first = 8
  <2>1. pending = {}
    BY <1>1, <1>2
  <2> QED
    BY <1>2, <2>1 DEF Seek
<1>3. CASE first # 8
  <2>1. first \in pending /\ \A j \in pending : first <= j
    BY <1>1, <1>3
  <2>2. \A i \in pending : (\A j \in pending : i <= j) => i = first
    BY <1>1, <2>1
  <2> HIDE DEF pending
  <2>3. (CHOOSE i \in pending : \A j \in pending : i <= j) = first
    BY <2>1, <2>2
  <2>4. pending # {}
    BY <2>1
  <2>5. Order[1] = "execute"
    BY DEF Order
  <2> QED
    BY <1>3, <2>3, <2>4, <2>5 DEF Seek, pending
<1> QED
  BY <1>2, <1>3

(* Where a program goes after a version it executed or recorded. *)
LEMMA OnwardGoes ==
    ASSUME NEW p \in Migrators, NEW n \in 0 .. 7, MigratorAt(p, n)
    PROVE  Onward(p) =
             IF migrator[p].at = "execute" THEN [migrator[p] EXCEPT !.at = "record"]
             ELSE IF migrator[p].next = 7 THEN Serving
             ELSE [at |-> "execute", applied |-> migrator[p].applied,
                   next |-> migrator[p].next + 1]
<1>1. Order[1] = "execute" /\ Order[2] = "record"
  BY DEF Order
<1>2. migrator[p].next \in 1 .. 7
  BY SevenVersions DEF MigratorAt
<1>3. CASE migrator[p].at = "execute"
  BY <1>1, <1>3 DEF Onward
<1>4. CASE migrator[p].at # "execute" /\ migrator[p].next = 7
  BY <1>1, <1>4, SevenVersions DEF Onward
<1>5. CASE migrator[p].at # "execute" /\ migrator[p].next # 7
  <2>1. PICK k \in 0 .. n : migrator[p].applied = Prefix(k) /\ k < migrator[p].next
    BY DEF MigratorAt
  <2> DEFINE m == migrator[p].next + 1
  <2>2. k \in 0 .. 7 /\ m \in 1 .. 8 /\ m # 8 /\ m > k
    BY <1>2, <1>5, <2>1
  <2>3. Seek(Prefix(k), m) = [at |-> "execute", applied |-> Prefix(k), next |-> m]
    BY <2>2, SeekFrom
  <2> QED
    BY <1>1, <1>5, <2>1, <2>3, SevenVersions DEF Onward
<1> QED
  BY <1>3, <1>4, <1>5

-----------------------------------------------------------------------------
LEMMA MigrationsInitIInv == MigrationsInit => MigrationsIInv
<1> SUFFICES ASSUME MigrationsInit PROVE MigrationsIInv
  OBVIOUS
<1>1. PICK n \in 0 .. 7 :
        /\ recorded = Prefix(n)
        /\ schema = Built[n] \/ (n \in 1 .. 4 /\ schema = [Built[n] EXCEPT !.dimension = "other"])
        /\ embeddings \subseteq Models
        /\ current = IF n >= 5 THEN embeddings ELSE {}
  BY SevenVersions DEF MigrationsInit, Prefix
<1>2. \A p \in Migrators : migrator[p] = Stopped /\ migrator[p].at = "stopped"
  BY DEF MigrationsInit, Stopped
<1>3. RecordedInOrder(n)
  BY <1>1, <1>2 DEF RecordedInOrder
<1>4. migrator = [p \in Migrators |-> migrator[p]] /\ overtaken = {} /\ starts = 0
  BY DEF MigrationsInit
<1>5. Built[n] = Table[n] /\ Built[n] \in Schemas
  BY BuiltTable DEF Table, Db, Schemas
<1>6. schema \in Schemas
  BY <1>1, <1>5 DEF Schemas
<1>7. ASSUME NEW i \in 1 .. 7, Done(i) PROVE i <= n
  BY <1>1, <1>2, <1>7, PrefixMember DEF Done
<1>8. Done(6) => schema.fts = "guarded"
  BY <1>1, <1>5, <1>7 DEF Table, Db
<1>9. Done(7) => schema.source = "none" /\ schema.dimension = "any" /\ schema.model = "unique"
  BY <1>1, <1>5, <1>7 DEF Table, Db
<1>10. current \subseteq embeddings /\ (current # {} => embedded[5] \in recorded)
  BY <1>1, PrefixMember
<1>11. Lasting
  BY <1>8, <1>9, <1>10 DEF Lasting
<1>12. MigrationsTyped
  BY <1>1, <1>4, <1>6, MigrationsAssumption DEF MigrationsTyped
<1> QED
  BY <1>3, <1>4, <1>11, <1>12 DEF MigrationsIInv

(* The database is as it was, and nothing more is done. *)
LEMMA StillLasting ==
    ASSUME Lasting, UNCHANGED <<schema, embeddings, current, overtaken>>,
           recorded \subseteq recorded', \A i \in 1 .. 7 : Done(i)' => Done(i)
    PROVE  Lasting'
<1>1. (Done(6)' => Done(6)) /\ (Done(7)' => Done(7))
  OBVIOUS
<1>2. \A S : Undone(S)' <=> Undone(S)
  BY DEF Undone
<1> QED
  BY <1>1, <1>2 DEF Lasting

(* One program goes on, or stops; the database is as it was. *)
LEMMA SameDatabase ==
    ASSUME MigrationsIInv, NEW p \in Migrators, NEW x, migrator' = [migrator EXCEPT ![p] = x],
           UNCHANGED <<recorded, schema, embeddings, current, overtaken>>, MigrationsTyped',
           \A n \in 0 .. 7 : RecordedInOrder(n) =>
             /\ x = Stopped \/ (x = Serving /\ n = 7) \/ MigratorAt(p, n)'
             /\ x.at # "record"
    PROVE  MigrationsIInv'
<1>1. /\ migrator' = [q \in Migrators |-> migrator'[q]] /\ migrator'[p] = x
      /\ \A q \in Migrators \ {p} : migrator'[q] = migrator[q]
  BY DEF MigrationsIInv
<1>2. ASSUME NEW n \in 0 .. 7, RecordedInOrder(n) PROVE RecordedInOrder(n)'
  <2>1. \A q \in Migrators \ {p} : MigratorAt(q, n) => MigratorAt(q, n)'
    BY <1>1 DEF MigratorAt
  <2> QED
    BY <1>1, <1>2, <2>1 DEF RecordedInOrder
<1>3. ASSUME NEW i \in 1 .. 7, Done(i)' PROVE Done(i)
  <2>1. x.at # "record"
    BY DEF MigrationsIInv
  <2> QED
    BY <1>1, <1>3, <2>1 DEF Done
<1>4. Lasting'
  BY <1>3, StillLasting DEF MigrationsIInv
<1> QED
  BY <1>1, <1>2, <1>4 DEF MigrationsIInv

LEMMA StartIInv == ASSUME MigrationsIInv, NEW p \in Migrators, StartMigrator(p) PROVE MigrationsIInv'
<1> DEFINE x == Seek(recorded, 1)
<1>1. /\ migrator' = [migrator EXCEPT ![p] = x]
      /\ UNCHANGED <<recorded, schema, embeddings, current, overtaken>>
  BY DEF StartMigrator
<1>2. migrator'[p] = x
  BY <1>1 DEF MigrationsIInv
<1>3. ASSUME NEW n \in 0 .. 7, RecordedInOrder(n)
      PROVE  (x = Stopped \/ (x = Serving /\ n = 7) \/ MigratorAt(p, n)') /\ x.at # "record"
  <2>1. x = IF n = 7 THEN Serving
            ELSE [at |-> "execute", applied |-> Prefix(n), next |-> n + 1]
    <3>1. recorded = Prefix(n)
      BY <1>3 DEF RecordedInOrder
    <3>2. n + 1 \in 1 .. 8 /\ (n + 1 = 8 <=> n = 7)
          /\ n + 1 = (IF 1 > n THEN 1 ELSE n + 1) /\ 1 \in 1 .. 8
      OBVIOUS
    <3> QED
      BY <3>1, <3>2, SeekFrom
  <2>2. CASE n = 7
    BY <2>1, <2>2 DEF Serving
  <2>3. CASE n # 7
    BY <1>2, <2>1, <2>3, SevenVersions DEF MigratorAt
  <2> QED
    BY <2>2, <2>3
<1>4. MigrationsTyped'
  BY MigrationsAssumption DEF StartMigrator, MigrationsIInv, MigrationsTyped
<1> HIDE DEF x
<1> QED
  BY <1>1, <1>3, <1>4, SameDatabase

LEMMA AbortIInv == ASSUME MigrationsIInv, NEW p \in Migrators, Abort(p) PROVE MigrationsIInv'
<1>1. Stopped.at # "record"
  BY DEF Stopped
<1>2. MigrationsTyped'
  BY DEF Abort, MigrationsIInv, MigrationsTyped
<1> QED
  BY <1>1, <1>2, SameDatabase DEF Abort

LEMMA StoreIInv ==
    ASSUME MigrationsIInv, NEW p \in Migrators, NEW m \in Models, StoreEmbedding(p, m)
    PROVE  MigrationsIInv'
<1>1. /\ migrator[p] = Serving
      /\ embeddings' = embeddings \cup {m} /\ current' = current \cup {m}
      /\ UNCHANGED <<recorded, schema, migrator, overtaken, starts>>
  BY DEF StoreEmbedding
<1>2. PICK n \in 0 .. 7 : RecordedInOrder(n)
  BY DEF MigrationsIInv
<1>3. n = 7
  BY <1>1, <1>2 DEF RecordedInOrder, MigratorAt, Serving, Stopped
<1>4. embedded[5] \in recorded'
  BY <1>1, <1>2, <1>3, PrefixMember DEF RecordedInOrder
<1>5. RecordedInOrder(n)'
  BY <1>1, <1>2 DEF RecordedInOrder, MigratorAt
<1>6. Lasting'
  <2>1. (Done(6)' <=> Done(6)) /\ (Done(7)' <=> Done(7))
    BY <1>1 DEF Done
  <2>2. \A S : Undone(S)' <=> Undone(S)
    BY <1>1 DEF Undone
  <2> QED
    BY <1>1, <1>4, <2>1, <2>2 DEF Lasting, MigrationsIInv
<1>7. MigrationsTyped'
  BY <1>1 DEF MigrationsIInv, MigrationsTyped
<1> QED
  BY <1>1, <1>5, <1>6, <1>7 DEF MigrationsIInv

(* The version a program is at is recorded already, or the next to be.     *)
LEMMA AtVersion ==
    ASSUME NEW n \in 0 .. 7, RecordedInOrder(n), NEW p \in Migrators,
           migrator[p].at \in {"execute", "record"}
    PROVE  /\ MigratorAt(p, n) /\ migrator[p].next \in 1 .. 7
           /\ embedded[migrator[p].next] \in recorded <=> migrator[p].next <= n
           /\ embedded[migrator[p].next] \notin recorded =>
                n \in 0 .. 6 /\ migrator[p].next = n + 1
<1>1. MigratorAt(p, n)
  BY DEF RecordedInOrder, Stopped, Serving
<1>2. migrator[p].next \in 1 .. 7 /\ migrator[p].next <= n + 1
  BY <1>1, SevenVersions DEF MigratorAt
<1>3. embedded[migrator[p].next] \in recorded <=> migrator[p].next <= n
  BY <1>2, PrefixMember DEF RecordedInOrder
<1> QED
  BY <1>1, <1>2, <1>3

LEMMA ExecuteIInv == ASSUME MigrationsIInv, NEW p \in Migrators, Execute(p) PROVE MigrationsIInv'
<1> DEFINE j == migrator[p].next
           v == embedded[j]
<1>1. /\ migrator[p].at = "execute" /\ schema' = Script(v, schema)
      /\ embeddings' \in Left(v, embeddings) /\ current' = current
      /\ overtaken' = overtaken \cup ({v} \cap recorded)
      /\ migrator' = [migrator EXCEPT ![p] = Onward(p)]
      /\ recorded' = recorded /\ starts' = starts
  BY DEF Execute
<1>2. PICK n \in 0 .. 7 : RecordedInOrder(n)
  BY DEF MigrationsIInv
<1>3. /\ MigratorAt(p, n) /\ j \in 1 .. 7
      /\ v \notin recorded => n \in 0 .. 6 /\ j = n + 1
  BY <1>1, <1>2, AtVersion
<1>4. /\ migrator' = [q \in Migrators |-> migrator'[q]] /\ migrator'[p] = Onward(p)
      /\ \A q \in Migrators \ {p} : migrator'[q] = migrator[q]
  BY <1>1 DEF MigrationsIInv
<1>5. Onward(p) = [at |-> "record", applied |-> migrator[p].applied, next |-> j]
  <2>1. Onward(p) = [migrator[p] EXCEPT !.at = "record"]
    BY <1>1, <1>3, OnwardGoes
  <2> QED
    BY <1>3, <2>1 DEF MigratorAt
<1>6. RecordedInOrder(n)'
  <2>1. MigratorAt(p, n)'
    BY <1>3, <1>4, <1>5 DEF MigratorAt
  <2>2. \A q \in Migrators \ {p} : MigratorAt(q, n) => MigratorAt(q, n)'
    BY <1>4 DEF MigratorAt
  <2> QED
    BY <1>1, <1>2, <1>4, <2>1, <2>2 DEF RecordedInOrder
<1>7. ASSUME NEW i \in 1 .. 7, Done(i)' PROVE (Done(i) \/ i = j) /\ (v \notin recorded => i <= j)
  <2>1. Done(i) \/ i = j
    BY <1>1, <1>4, <1>5, <1>7 DEF Done
  <2>2. Done(i) => i <= n + 1
    <3>1. embedded[i] \in recorded => i <= n
      BY <1>2, PrefixMember DEF RecordedInOrder
    <3>2. ASSUME NEW q \in Migrators, migrator[q].at = "record", migrator[q].next = i
          PROVE  i <= n + 1
      BY <1>2, <3>2, AtVersion DEF MigratorAt
    <3> QED
      BY <3>1, <3>2 DEF Done
  <2> QED
    BY <1>3, <2>1, <2>2
<1>8. v \in {"001", "002", "004", "005", "011", "012", "015"}
      /\ (v = "001" => j = 1) /\ (v = "002" => j = 2) /\ (v = "004" => j = 3)
      /\ (v = "005" => j = 4) /\ (v = "011" => j = 5) /\ (v = "012" => j = 6)
      /\ (v = "015" => j = 7)
  <2>1. j \in {1, 2, 3, 4, 5, 6, 7}
    BY <1>3
  <2> QED
    BY <2>1, SevenVersions
<1>9. \A S : v \in S /\ v \in recorded => Undone(S)'
  BY <1>1 DEF Undone
<1>10. \A S : Undone(S) => Undone(S)'
  BY <1>1 DEF Undone
<1>11. schema \in Schemas /\ Lasting /\ MigrationsTyped
  BY DEF MigrationsIInv, MigrationsTyped
<1> HIDE DEF v, j
<1>12. Done(6)' => schema'.fts = "guarded" \/ Undone({"001", "002"})'
  <2> SUFFICES ASSUME Done(6)' PROVE schema'.fts = "guarded" \/ Undone({"001", "002"})'
    OBVIOUS
  <2>1. (Done(6) \/ 6 = j) /\ (v \notin recorded => 6 <= j)
    BY <1>7
  <2>2. CASE v \in {"001", "002"}
    BY <1>8, <1>9, <2>1, <2>2
  <2>3. CASE v = "012"
    BY <1>1, <1>11, <2>3 DEF Script, Schemas
  <2>4. CASE v \in {"004", "005", "011", "015"}
    <3>1. schema'.fts = schema.fts
      BY <1>1, <1>11, <2>4 DEF Script, Schemas
    <3>2. Done(6)
      BY <1>8, <2>1, <2>4
    <3> QED
      BY <1>10, <1>11, <3>1, <3>2 DEF Lasting
  <2> QED
    BY <1>8, <2>2, <2>3, <2>4
<1>13. Done(7)' => schema'.source = "none" \/ Undone({"001", "004", "005", "011"})'
  <2> SUFFICES ASSUME Done(7)'
               PROVE  schema'.source = "none" \/ Undone({"001", "004", "005", "011"})'
    OBVIOUS
  <2>1. (Done(7) \/ 7 = j) /\ (v \notin recorded => 7 <= j)
    BY <1>7
  <2>2. CASE v \in {"001", "004", "005", "011"}
    BY <1>8, <1>9, <2>1, <2>2
  <2>3. CASE v = "015"
    BY <1>1, <1>11, <2>3 DEF Script, Schemas
  <2>4. CASE v \in {"002", "012"}
    <3>1. schema'.source = schema.source
      BY <1>1, <1>11, <2>4 DEF Script, Schemas
    <3>2. Done(7)
      BY <1>8, <2>1, <2>4
    <3> QED
      BY <1>10, <1>11, <3>1, <3>2 DEF Lasting
  <2> QED
    BY <1>8, <2>2, <2>3, <2>4
<1>14. Done(7)' => (schema'.dimension = "any" /\ schema'.model = "unique") \/ Undone({"005", "011"})'
  <2> SUFFICES ASSUME Done(7)'
               PROVE  (schema'.dimension = "any" /\ schema'.model = "unique") \/ Undone({"005", "011"})'
    OBVIOUS
  <2>1. (Done(7) \/ 7 = j) /\ (v \notin recorded => 7 <= j)
    BY <1>7
  <2>2. CASE v \in {"005", "011"}
    BY <1>8, <1>9, <2>1, <2>2
  <2>3. CASE v = "015"
    BY <1>1, <1>11, <2>3 DEF Script, Schemas
  <2>4. CASE v \in {"001", "002", "004", "012"}
    <3>1. /\ schema.dimension # "none" => schema'.dimension = schema.dimension
          /\ schema'.model = schema.model
      BY <1>1, <1>11, <2>4 DEF Script, Schemas
    <3>2. Done(7)
      BY <1>8, <2>1, <2>4
    <3> QED
      BY <1>10, <1>11, <3>1, <3>2 DEF Lasting
  <2> QED
    BY <1>8, <2>2, <2>3, <2>4
<1>15. current' \subseteq embeddings' \/ Undone({"004", "005", "011"})'
  <2>1. CASE v \in {"004", "005", "011"} /\ v \in recorded
    BY <1>9, <2>1
  <2>2. CASE v \in {"004", "005", "011"} /\ v \notin recorded
    <3>1. n <= 4
      BY <1>3, <1>8, <2>2
    <3>2. embedded[5] \notin recorded
      BY <1>2, <3>1, PrefixMember DEF RecordedInOrder
    <3> QED
      BY <1>1, <1>11, <3>2 DEF Lasting
  <2>3. CASE v \notin {"004", "005", "011"}
    <3>1. embeddings' = embeddings
      BY <1>1, <2>3 DEF Left
    <3> QED
      BY <1>1, <1>10, <1>11, <3>1 DEF Lasting
  <2> QED
    BY <2>1, <2>2, <2>3
<1>16. Lasting'
  BY <1>1, <1>11, <1>12, <1>13, <1>14, <1>15 DEF Lasting
<1>17. MigrationsTyped'
  <2>1. v \in AllVersions
    BY <1>3, SevenVersions DEF v, AllVersions
  <2>2. schema' \in Schemas
    BY <1>1, <1>11, <2>1, ScriptTyped
  <2>3. embeddings' \subseteq embeddings
    BY <1>1 DEF Left
  <2> QED
    BY <1>1, <1>11, <2>1, <2>2, <2>3 DEF MigrationsTyped
<1> QED
  BY <1>4, <1>6, <1>16, <1>17 DEF MigrationsIInv

LEMMA RecordIInv == ASSUME MigrationsIInv, NEW p \in Migrators, Record(p) PROVE MigrationsIInv'
<1> DEFINE v == embedded[migrator[p].next]
<1>1. /\ migrator[p].at = "record" /\ recorded' = recorded \cup {v}
      /\ migrator' = [migrator EXCEPT ![p] = IF v \in recorded THEN Stopped ELSE Onward(p)]
      /\ UNCHANGED <<schema, embeddings, current, overtaken, starts>>
  BY DEF Record
<1>2. MigrationsTyped'
  BY <1>1 DEF MigrationsIInv, MigrationsTyped
<1>3. CASE v \in recorded
  <2>1. recorded' = recorded /\ migrator' = [migrator EXCEPT ![p] = Stopped]
    BY <1>1, <1>3
  <2>2. Stopped.at # "record"
    BY DEF Stopped
  <2> QED
    BY <1>1, <1>2, <2>1, <2>2, SameDatabase
<1>4. CASE v \notin recorded
  <2>1. PICK n \in 0 .. 7 : RecordedInOrder(n)
    BY DEF MigrationsIInv
  <2>2. MigratorAt(p, n) /\ n \in 0 .. 6 /\ migrator[p].next = n + 1
    BY <1>1, <1>4, <2>1, AtVersion
  <2>3. recorded' = Prefix(n + 1)
    <3>1. 1 .. (n + 1) = (1 .. n) \cup {n + 1}
      BY <2>2
    <3> QED
      BY <1>1, <2>1, <2>2, <3>1 DEF RecordedInOrder, Prefix
  <2>4. /\ migrator' = [q \in Migrators |-> migrator'[q]] /\ migrator'[p] = Onward(p)
        /\ \A q \in Migrators \ {p} : migrator'[q] = migrator[q]
    BY <1>1, <1>4 DEF MigrationsIInv
  <2>5. Onward(p) = IF n + 1 = 7 THEN Serving
                    ELSE [at |-> "execute", applied |-> migrator[p].applied, next |-> n + 2]
    BY <1>1, <2>2, OnwardGoes
  <2>6. n + 1 \in 0 .. 7 /\ n + 1 + 1 = n + 2
    BY <2>2
  <2>7. \/ migrator'[p] = Serving /\ n + 1 = 7
        \/ MigratorAt(p, n + 1)' /\ migrator'[p].at = "execute"
    <3>1. CASE n + 1 = 7
      BY <2>4, <2>5, <3>1
    <3>2. CASE n + 1 # 7
      <4>1. migrator'[p] = [at |-> "execute", applied |-> migrator[p].applied, next |-> n + 2]
        BY <2>4, <2>5, <3>2
      <4>2. PICK k \in 0 .. n : migrator[p].applied = Prefix(k) /\ k < n + 1
        BY <2>2 DEF MigratorAt
      <4>3. k \in 0 .. (n + 1) /\ k < n + 2 /\ n + 2 \in Position
        BY <2>2, <3>2, SevenVersions
      <4> QED
        BY <2>6, <4>1, <4>2, <4>3 DEF MigratorAt
    <3> QED
      BY <3>1, <3>2
  <2>8. \A q \in Migrators \ {p} : migrator'[q] = Stopped \/ MigratorAt(q, n + 1)'
    <3> SUFFICES ASSUME NEW q \in Migrators \ {p}, MigratorAt(q, n) PROVE MigratorAt(q, n + 1)'
      BY <2>1, <2>2, <2>4 DEF RecordedInOrder
    <3>1. migrator[q].next <= n + 2
      BY SevenVersions, <2>2 DEF MigratorAt
    <3>2. \A k \in 0 .. n : k \in 0 .. (n + 1)
      BY <2>2
    <3> QED
      BY <2>4, <2>6, <3>1, <3>2 DEF MigratorAt
  <2>9. RecordedInOrder(n + 1)'
    BY <2>3, <2>6, <2>7, <2>8 DEF RecordedInOrder
  <2>10. ASSUME NEW i \in 1 .. 7, Done(i)' PROVE Done(i)
    <3>1. CASE embedded[i] \in recorded'
      <4>1. CASE embedded[i] = v
        <5>1. i = migrator[p].next
          BY <2>2, <4>1, SevenVersions, VersionsDiffer
        <5> QED
          BY <1>1, <5>1 DEF Done
      <4> QED
        BY <1>1, <3>1, <4>1 DEF Done
    <3>2. ASSUME NEW q \in Migrators, migrator'[q].at = "record", migrator'[q].next = i
          PROVE  Done(i)
      <4>1. q # p
        BY <2>7, <3>2 DEF Serving
      <4> QED
        BY <2>4, <3>2, <4>1 DEF Done
    <3> QED
      BY <2>10, <3>1, <3>2 DEF Done
  <2>11. Lasting'
    BY <1>1, <2>10, StillLasting DEF MigrationsIInv
  <2> QED
    BY <1>2, <2>4, <2>6, <2>9, <2>11 DEF MigrationsIInv
<1> QED
  BY <1>3, <1>4

LEMMA MigrationsNextIInv == MigrationsIInv /\ [MigrationsNext]_migrationsVars => MigrationsIInv'
<1> SUFFICES ASSUME MigrationsIInv, [MigrationsNext]_migrationsVars PROVE MigrationsIInv'
  OBVIOUS
<1>1. CASE UNCHANGED migrationsVars
  BY <1>1 DEF migrationsVars, MigrationsIInv, RecordedInOrder, MigratorAt, Lasting, Done, Undone,
              MigrationsTyped
<1>2. ASSUME NEW p \in Migrators, StartMigrator(p) \/ Execute(p) \/ Record(p) \/ Abort(p)
      PROVE  MigrationsIInv'
  BY <1>2, StartIInv, ExecuteIInv, RecordIInv, AbortIInv
<1>3. ASSUME NEW p \in Migrators, NEW m \in Models, StoreEmbedding(p, m) PROVE MigrationsIInv'
  BY <1>3, StoreIInv
<1> QED
  BY <1>1, <1>2, <1>3 DEF MigrationsNext

LEMMA MigrationsInductive == MigrationsSpec => []MigrationsIInv
BY MigrationsInitIInv, MigrationsNextIInv, PTL DEF MigrationsSpec

(* Whatever release a database comes from and however many programs        *)
(* upgrade it, dying where they may or overtaking one another: once every  *)
(* version is recorded the schema is the current one and no vector cached  *)
(* since 011 is lost, but for what the scripts that overtake undo, each    *)
(* part of it by those that are named (Migrator::run).                     *)
THEOREM Upgrades == MigrationsSpec => []UpgradeIsSafe
<1>1. MigrationsIInv => UpgradeIsSafe
  <2> SUFFICES ASSUME MigrationsIInv PROVE UpgradeIsSafe
    OBVIOUS
  <2>1. recorded = AllVersions => Done(6) /\ Done(7)
    BY SevenVersions DEF AllVersions, Done
  <2> QED
    BY <2>1 DEF MigrationsIInv, Lasting, UpgradeIsSafe
<1> QED
  BY <1>1, MigrationsInductive, PTL

(* The state of the migrations keeps its type: the programs look for and   *)
(* record embedded versions only.                                          *)
THEOREM MigrationsTypeCorrect == MigrationsSpec => []MigrationsTypeOK
<1>1. MigrationsIInv => MigrationsTypeOK
  <2> SUFFICES ASSUME MigrationsIInv PROVE MigrationsTypeOK
    OBVIOUS
  <2>1. PICK n \in 0 .. 7 : RecordedInOrder(n)
    BY DEF MigrationsIInv
  <2>2. \A k \in 0 .. 7 : Prefix(k) \subseteq AllVersions
    BY SevenVersions DEF Prefix, AllVersions
  <2>3. ASSUME NEW p \in Migrators
        PROVE  /\ migrator[p].at \in {"stopped", "execute", "record", "serving"}
               /\ migrator[p].next \in Position /\ migrator[p].applied \subseteq AllVersions
    <3>1. CASE migrator[p] = Stopped \/ migrator[p] = Serving
      BY <3>1, SevenVersions DEF Stopped, Serving
    <3>2. CASE MigratorAt(p, n)
      <4>1. PICK k \in 0 .. n : migrator[p].applied = Prefix(k)
        BY <3>2 DEF MigratorAt
      <4>2. k \in 0 .. 7
        OBVIOUS
      <4> QED
        BY <2>2, <3>2, <4>1, <4>2 DEF MigratorAt
    <3> QED
      BY <2>1, <3>1, <3>2 DEF RecordedInOrder
  <2>4. recorded \subseteq AllVersions
    BY <2>1, <2>2 DEF RecordedInOrder
  <2> QED
    BY <2>3, <2>4 DEF MigrationsIInv, MigrationsTyped, MigrationsTypeOK
<1> QED
  BY <1>1, MigrationsInductive, PTL

-----------------------------------------------------------------------------
(* Embeddings: any number of concurrent calls.                             *)

CacheKeys  == EmbeddableTexts \X (Purposes \cup {"any"})
CacheRows  == [key : CacheKeys, vector : Vectors]
Tasks      == [at : {"idle", "request", "put", "done", "failed"}, text : EmbeddableTexts \cup {""},
               purpose : Purposes \cup {"any"}, pieces : Nat, attempt : 0 .. MaxAttempts,
               vector : Vectors \cup {NoVector}]

EmbeddingsShaped ==
    /\ config \in Configs
    /\ backend \in {"none", "refused", "keyword-only", "nvidia", "llama-cpp"}
    /\ cache \in Seq(CacheRows)
    /\ task \in [Clients -> Tasks]
    /\ calls \in 0 .. MaxCalls

(* A program that embeds has been started with a configuration that was    *)
(* accepted, and one that has not been started has embedded nothing.       *)
Started ==
    /\ backend = "none" => cache = <<>> /\ \A c \in Clients : task[c].at = "idle"
    /\ backend \in {"nvidia", "llama-cpp"} => Accepted(config) /\ backend = config.model

(* What a vector made for this text and purpose is. *)
MadeFor(v, text, purpose) ==
    /\ v.text = text /\ v.purpose = purpose /\ v.pieces = Pieces[text]
    /\ config.localOnly => v.from = "loopback"

OneEntryEach == /\ Len(cache) <= CacheSize
                /\ \A i, j \in DOMAIN cache : cache[i].key = cache[j].key => i = j
TrueEntries  == \A i \in DOMAIN cache : MadeFor(cache[i].vector, cache[i].key[1], cache[i].key[2])

CallOK(c) ==
    /\ task[c].at # "idle" => task[c].text \in EmbeddableTexts /\ task[c].purpose \in Purposes
    /\ task[c].at = "request" => task[c].attempt < MaxAttempts
    /\ task[c].at \in {"put", "done"}
         => MadeFor(task[c].vector, task[c].text, PurposeOf(task[c].purpose))
    /\ task[c].at \notin {"idle", "failed"} => backend \in {"nvidia", "llama-cpp"}

EmbeddingsIInv ==
    EmbeddingsShaped /\ Started /\ OneEntryEach /\ TrueEntries /\ \A c \in Clients : CallOK(c)
-----------------------------------------------------------------------------
LEMMA Bounds == CacheSize \in Nat \ {0} /\ MaxAttempts \in Nat \ {0} /\ MaxCalls \in Nat
  BY EmbeddingsAssumption

(* The local variables of a call that has just begun. *)
Opening(x, at, text, purpose) ==
    x \in Tasks /\ x.at = at /\ x.text = text /\ x.purpose = purpose /\ x.attempt = 0

LEMMA Begun ==
    ASSUME NEW text \in EmbeddableTexts, NEW purpose \in Purposes
    PROVE  Opening([NoTask EXCEPT !.text = text, !.purpose = purpose], "idle", text, purpose)
<1>1. 0 \in 0 .. MaxAttempts
  BY Bounds
<1>2. NoTask \in Tasks /\ NoTask.attempt = 0 /\ NoTask.at = "idle"
  BY <1>1 DEF NoTask, Tasks
<1> QED
  BY <1>2 DEF Tasks, Opening

LEMMA BegunAt ==
    ASSUME NEW text, NEW purpose, NEW this, Opening(this, "idle", text, purpose),
           NEW at \in {"failed", "request"}, NEW x, x = [this EXCEPT !.at = at]
    PROVE  Opening(x, at, text, purpose)
  BY DEF Tasks, Opening

LEMMA BegunWith ==
    ASSUME NEW text, NEW purpose, NEW this, Opening(this, "idle", text, purpose),
           NEW v \in Vectors
    PROVE  Opening([this EXCEPT !.at = "done", !.vector = v], "done", text, purpose)
  BY DEF Tasks, Opening

(* Moving an entry to the front of a sequence, over place i, keeps the     *)
(* others, each once.                                                      *)
ToFront(e, s, i) == <<e>> \o SubSeq(s, 1, i - 1) \o SubSeq(s, i + 1, Len(s))

LEMMA OneToFront ==
    ASSUME NEW S, NEW s \in Seq(S), NEW i \in Nat \ {0}, i <= Len(s) + 1, NEW e \in S
    PROVE  /\ ToFront(e, s, i) \in Seq(S)
           /\ ToFront(e, s, i)[1] = e
           /\ Len(ToFront(e, s, i)) = IF i <= Len(s) THEN Len(s) ELSE Len(s) + 1
           /\ \A j \in 2 .. Len(ToFront(e, s, i)) :
                ToFront(e, s, i)[j] = IF j - 1 < i THEN s[j - 1] ELSE s[j]
<1>0. PICK n \in Nat : n = Len(s) /\ \A j \in 1 .. n : s[j] \in S
  OBVIOUS
<1>1. PICK a : a = SubSeq(s, 1, i - 1)
  OBVIOUS
<1>2. PICK b : b = SubSeq(s, i + 1, Len(s))
  OBVIOUS
<1>3. a \in Seq(S) /\ Len(a) = i - 1 /\ \A j \in 1 .. i - 1 : a[j] = s[j]
  BY <1>0, <1>1, SubSeqProperties
<1>4. /\ b \in Seq(S) /\ Len(b) = (IF i + 1 <= n THEN n - i ELSE 0)
      /\ \A j \in 1 .. n - i : b[j] = s[i + j]
  BY <1>0, <1>2, SubSeqProperties
<1>5. <<e>> \in Seq(S) /\ Len(<<e>>) = 1 /\ <<e>>[1] = e
  OBVIOUS
<1>6. PICK u : u = <<e>> \o a
  OBVIOUS
<1>7. u \in Seq(S) /\ Len(u) = i /\ u[1] = e /\ \A j \in 2 .. i : u[j] = a[j - 1]
  BY <1>3, <1>5, <1>6, ConcatProperties
<1>8. PICK t : t = u \o b
  OBVIOUS
<1>9. t = ToFront(e, s, i)
  BY <1>8, <1>6, <1>1, <1>2 DEF ToFront
<1>10. PICK m \in Nat : m = Len(b)
  <2>1. b \in Seq(S)
    BY <1>4
  <2> QED
    BY <2>1, LenProperties
<1>11. m = IF i <= n THEN n - i ELSE 0
  <2>1. i \in Nat /\ i <= n + 1 /\ m = IF i + 1 <= n THEN n - i ELSE 0
    BY <1>4, <1>10, <1>0
  <2> QED
    BY <2>1, <1>0
<1>12. /\ t \in Seq(S) /\ Len(t) = i + m
       /\ \A j \in 1 .. i + m : t[j] = IF j <= i THEN u[j] ELSE b[j - i]
  <2>1. b \in Seq(S)
    BY <1>4
  <2>2. /\ u \o b \in Seq(S) /\ Len(u \o b) = Len(u) + Len(b)
        /\ \A j \in 1 .. Len(u) + Len(b) : (u \o b)[j] = IF j <= Len(u) THEN u[j] ELSE b[j - Len(u)]
    BY <1>7, <2>1, ConcatProperties
  <2> QED
    BY <2>2, <1>7, <1>8, <1>10
<1>13. /\ Len(t) = (IF i <= n THEN n ELSE n + 1)
       /\ \A j \in 2 .. Len(t) : t[j] = IF j - 1 < i THEN s[j - 1] ELSE s[j]
  <2>1. i + m = IF i <= n THEN n ELSE n + 1
    BY <1>11, <1>0
  <2>2. ASSUME NEW j \in 2 .. i + m
        PROVE  t[j] = IF j - 1 < i THEN s[j - 1] ELSE s[j]
    <3>1. CASE j <= i
      <4>1. j - 1 < i /\ j - 1 \in 1 .. i - 1
        BY <3>1
      <4>2. t[j] = u[j] /\ u[j] = a[j - 1] /\ a[j - 1] = s[j - 1]
        BY <4>1, <3>1, <1>12, <1>7, <1>3
      <4> QED
        BY <4>1, <4>2
    <3>2. CASE j > i
      <4>1. i <= n /\ j - i \in 1 .. n - i /\ i + (j - i) = j /\ ~(j - 1 < i)
        <5>1. i \in Nat /\ j \in Nat /\ j <= i + m
          BY <1>10
        <5> QED
          BY <5>1, <3>2, <1>11, <1>0
      <4>2. t[j] = b[j - i] /\ b[j - i] = s[i + (j - i)]
        <5>1. t[j] = b[j - i]
          BY <3>2, <1>12
        <5>2. b[j - i] = s[i + (j - i)]
          BY <4>1, <1>4
        <5> QED
          BY <5>1, <5>2
      <4> QED
        BY <4>1, <4>2
    <3> QED
      BY <3>1, <3>2
  <2> QED
    BY <2>1, <2>2, <1>12
<1>14. t[1] = e
  <2>1. 1 \in 1 .. i + m /\ 1 <= i
    BY <1>10
  <2> QED
    BY <2>1, <1>7, <1>12
<1>15. /\ t \in Seq(S) /\ t[1] = e
       /\ Len(t) = IF i <= Len(s) THEN Len(s) ELSE Len(s) + 1
       /\ \A j \in 2 .. Len(t) : t[j] = IF j - 1 < i THEN s[j - 1] ELSE s[j]
  BY <1>0, <1>12, <1>13, <1>14
<1> QED
  BY <1>9, <1>15

LEMMA RefreshedCache ==
    ASSUME EmbeddingsIInv, NEW e \in CacheRows
    PROVE  /\ Refreshed(e) \in Seq(CacheRows) /\ Len(Refreshed(e)) <= CacheSize
           /\ \A j, k \in DOMAIN Refreshed(e) :
                Refreshed(e)[j].key = Refreshed(e)[k].key => j = k
           /\ \A j \in DOMAIN Refreshed(e) :
                Refreshed(e)[j] = e \/ \E k \in DOMAIN cache : Refreshed(e)[j] = cache[k]
<1>1. /\ cache \in Seq(CacheRows) /\ Len(cache) \in Nat /\ Len(cache) <= CacheSize
      /\ DOMAIN cache = 1 .. Len(cache) /\ CacheSize \in Nat \ {0}
      /\ \A j, k \in DOMAIN cache : cache[j].key = cache[k].key => j = k
  BY EmbeddingsAssumption DEF EmbeddingsIInv, EmbeddingsShaped, OneEntryEach
<1>2. PICK n \in Nat : n = Len(cache)
  BY <1>1
<1>3. PICK i : i = IF CacheHit(e.key) # {} THEN CHOOSE h \in CacheHit(e.key) : TRUE
                   ELSE IF n < CacheSize THEN n + 1 ELSE CacheSize
  OBVIOUS
<1>4. Refreshed(e) = ToFront(e, cache, i)
  BY <1>2, <1>3 DEF Refreshed, ToFront
<1>5. \/ i \in 1 .. n /\ cache[i].key = e.key
      \/ /\ \A h \in 1 .. n : cache[h].key # e.key
         /\ i \in Nat \ {0} /\ ((i = n + 1 /\ n < CacheSize) \/ i = n)
  <2>1. CASE CacheHit(e.key) # {}
    BY <2>1, <1>1, <1>2, <1>3 DEF CacheHit
  <2>2. CASE CacheHit(e.key) = {}
    <3>1. \A h \in 1 .. n : cache[h].key # e.key
      BY <2>2, <1>1, <1>2 DEF CacheHit
    <3>2. i = IF n < CacheSize THEN n + 1 ELSE CacheSize
      BY <2>2, <1>3
    <3>3. n <= CacheSize /\ CacheSize \in Nat \ {0}
      BY <1>1, <1>2
    <3>4. i \in Nat \ {0} /\ ((i = n + 1 /\ n < CacheSize) \/ i = n)
      BY <3>2, <3>3
    <3> QED
      BY <3>1, <3>4
  <2> QED
    BY <2>1, <2>2
<1>6. PICK t : t = ToFront(e, cache, i)
  OBVIOUS
<1>7. /\ t \in Seq(CacheRows) /\ t[1] = e /\ Len(t) = IF i <= n THEN n ELSE n + 1
      /\ \A j \in 2 .. Len(t) : t[j] = IF j - 1 < i THEN cache[j - 1] ELSE cache[j]
  <2>1. i \in Nat \ {0} /\ i <= Len(cache) + 1
    BY <1>2, <1>5
  <2>2. cache \in Seq(CacheRows)
    BY <1>1
  <2>3. /\ ToFront(e, cache, i) \in Seq(CacheRows) /\ ToFront(e, cache, i)[1] = e
        /\ Len(ToFront(e, cache, i)) = IF i <= Len(cache) THEN Len(cache) ELSE Len(cache) + 1
        /\ \A j \in 2 .. Len(ToFront(e, cache, i)) :
             ToFront(e, cache, i)[j] = IF j - 1 < i THEN cache[j - 1] ELSE cache[j]
    BY <2>1, <2>2, OneToFront
  <2> QED
    BY <2>3, <1>2, <1>6
<1>8. PICK p \in [2 .. Len(t) -> Nat] :
        /\ \A j \in 2 .. Len(t) : p[j] \in 1 .. n /\ p[j] # i /\ t[j] = cache[p[j]]
        /\ \A j, k \in 2 .. Len(t) : p[j] = p[k] => j = k
  <2>1. PICK p : p = [j \in 2 .. Len(t) |-> IF j - 1 < i THEN j - 1 ELSE j]
    OBVIOUS
  <2>2. Len(t) \in Nat /\ i \in Nat \ {0} /\ Len(t) = IF i <= n THEN n ELSE n + 1
    BY <1>5, <1>7
  <2>3. \A j \in 2 .. Len(t) : p[j] = IF j - 1 < i THEN j - 1 ELSE j
    BY <2>1
  <2>4. p \in [2 .. Len(t) -> Nat]
    BY <2>1, <2>2
  <2>5. \A j \in 2 .. Len(t) : p[j] \in 1 .. n /\ p[j] # i
    BY <2>2, <2>3, <1>5
  <2>6. \A j, k \in 2 .. Len(t) : p[j] = p[k] => j = k
    BY <2>2, <2>3
  <2>7. \A j \in 2 .. Len(t) : t[j] = cache[p[j]]
    BY <2>3, <1>7
  <2> QED
    BY <2>4, <2>5, <2>6, <2>7
<1>9. Len(t) \in Nat /\ Len(t) <= CacheSize /\ DOMAIN t = 1 .. Len(t)
  BY <1>1, <1>2, <1>5, <1>7
<1>10. \A j \in 2 .. Len(t) : t[j].key # e.key
  BY <1>1, <1>2, <1>5, <1>8
<1>11. \A j, k \in 2 .. Len(t) : t[j].key = t[k].key => j = k
  BY <1>1, <1>2, <1>8
<1>12. \A j \in 1 .. Len(t) : j = 1 \/ j \in 2 .. Len(t)
  BY <1>9
<1>13. \A j, k \in DOMAIN t : t[j].key = t[k].key => j = k
  BY <1>7, <1>9, <1>10, <1>11, <1>12
<1>14. \A j \in DOMAIN t : t[j] = e \/ \E k \in DOMAIN cache : t[j] = cache[k]
  BY <1>1, <1>2, <1>7, <1>8, <1>9, <1>12
<1> QED
  BY <1>4, <1>6, <1>7, <1>9, <1>13, <1>14

-----------------------------------------------------------------------------
LEMMA EmbeddingsInitIInv == EmbeddingsInit => EmbeddingsIInv
<1> SUFFICES ASSUME EmbeddingsInit PROVE EmbeddingsIInv
  OBVIOUS
<1>1. Unset \in Configs
  BY DEF Unset, Configs
<1>2. NoTask \in Tasks /\ NoTask.at = "idle"
  BY EmbeddingsAssumption DEF NoTask, Tasks
<1>3. EmbeddingsShaped
  BY <1>1, <1>2, EmbeddingsAssumption DEF EmbeddingsInit, EmbeddingsShaped
<1>4. Started /\ \A c \in Clients : CallOK(c)
  BY <1>2 DEF EmbeddingsInit, Started, CallOK
<1>5. OneEntryEach /\ TrueEntries
  BY EmbeddingsAssumption DEF EmbeddingsInit, OneEntryEach, TrueEntries
<1> QED
  BY <1>3, <1>4, <1>5 DEF EmbeddingsIInv

(* The cache after a step: as it was, or with one true entry in front. *)
CacheStays == /\ cache' \in Seq(CacheRows) /\ Len(cache') <= CacheSize
              /\ \A j, k \in DOMAIN cache' : cache'[j].key = cache'[k].key => j = k
              /\ \A j \in DOMAIN cache' :
                   MadeFor(cache'[j].vector, cache'[j].key[1], cache'[j].key[2])

LEMMA CacheUnchanged == EmbeddingsIInv /\ UNCHANGED cache => CacheStays
  BY DEF EmbeddingsIInv, EmbeddingsShaped, OneEntryEach, TrueEntries, CacheStays

LEMMA CacheRefreshed ==
    ASSUME EmbeddingsIInv, NEW e \in CacheRows, MadeFor(e.vector, e.key[1], e.key[2]),
           cache' = Refreshed(e)
    PROVE  CacheStays
<1>1. PICK t : t = Refreshed(e)
  OBVIOUS
<1>2. /\ t \in Seq(CacheRows) /\ Len(t) <= CacheSize
      /\ \A j, k \in DOMAIN t : t[j].key = t[k].key => j = k
      /\ \A j \in DOMAIN t : t[j] = e \/ \E k \in DOMAIN cache : t[j] = cache[k]
  BY <1>1, RefreshedCache
<1>3. \A k \in DOMAIN cache : MadeFor(cache[k].vector, cache[k].key[1], cache[k].key[2])
  BY DEF EmbeddingsIInv, TrueEntries
<1>4. \A j \in DOMAIN t : MadeFor(t[j].vector, t[j].key[1], t[j].key[2])
  BY <1>2, <1>3
<1> QED
  BY <1>1, <1>2, <1>4 DEF CacheStays

(* What a call is told of itself. *)
Told(x) ==
    /\ x.at # "idle" /\ x.text \in EmbeddableTexts /\ x.purpose \in Purposes
    /\ x.at = "request" => x.attempt < MaxAttempts
    /\ x.at \in {"put", "done"} => MadeFor(x.vector, x.text, PurposeOf(x.purpose))

LEMMA CallStep ==
    ASSUME EmbeddingsIInv, NEW c \in Clients, NEW x \in Tasks, Told(x), CacheStays,
           backend \in {"nvidia", "llama-cpp"}, UNCHANGED <<config, backend>>,
           calls' \in 0 .. MaxCalls, task' = [task EXCEPT ![c] = x]
    PROVE  EmbeddingsIInv'
<1>1. task \in [Clients -> Tasks]
  BY DEF EmbeddingsIInv, EmbeddingsShaped
<1>2. task' \in [Clients -> Tasks] /\ task'[c] = x /\ \A d \in Clients \ {c} : task'[d] = task[d]
  BY <1>1
<1>3. EmbeddingsShaped'
  BY <1>2 DEF EmbeddingsIInv, EmbeddingsShaped, CacheStays
<1>4. Started'
  BY DEF EmbeddingsIInv, Started, Accepted
<1>5. OneEntryEach' /\ TrueEntries'
  BY DEF CacheStays, OneEntryEach, TrueEntries, MadeFor
<1>6. \A d \in Clients \ {c} : CallOK(d)'
  BY <1>2 DEF EmbeddingsIInv, CallOK, MadeFor, PurposeOf
<1>7. CallOK(c)'
  BY <1>2 DEF CallOK, Told, MadeFor, PurposeOf
<1> QED
  BY <1>3, <1>4, <1>5, <1>6, <1>7 DEF EmbeddingsIInv

LEMMA StartEmbeddingIInv == EmbeddingsIInv /\ (StartApi \/ StartMcp) => EmbeddingsIInv'
<1> SUFFICES ASSUME EmbeddingsIInv, StartApi \/ StartMcp PROVE EmbeddingsIInv'
  OBVIOUS
<1>1. backend = "none" /\ UNCHANGED <<cache, task, calls>>
  BY DEF StartApi, StartMcp
<1>2. cache = <<>> /\ \A c \in Clients : task[c].at = "idle"
  BY <1>1 DEF EmbeddingsIInv, Started
<1>3. /\ config' \in Configs
      /\ backend' \in {"refused", "keyword-only"} \/ (backend' = config'.model /\ Accepted(config'))
  BY DEF StartApi, StartMcp, Configs
<1>4. config'.model \in {"local", "nvidia", "llama-cpp"}
  BY <1>3 DEF Configs
<1>5. backend' \in {"refused", "keyword-only", "nvidia", "llama-cpp"}
  BY <1>3, <1>4 DEF StartApi, StartMcp
<1>6. backend' \in {"nvidia", "llama-cpp"} => Accepted(config') /\ backend' = config'.model
  BY <1>3
<1>7. EmbeddingsShaped' /\ Started'
  BY <1>1, <1>3, <1>5, <1>6 DEF EmbeddingsIInv, EmbeddingsShaped, Started, Accepted
<1>8. OneEntryEach' /\ TrueEntries'
  BY <1>1, <1>2, EmbeddingsAssumption DEF OneEntryEach, TrueEntries
<1>9. \A c \in Clients : CallOK(c)'
  BY <1>1, <1>2 DEF CallOK
<1> QED
  BY <1>7, <1>8, <1>9 DEF EmbeddingsIInv

LEMMA BeginEmbedIInv ==
    ASSUME EmbeddingsIInv, NEW c \in Clients, BeginEmbed(c)
    PROVE  EmbeddingsIInv'
<1>1. /\ backend \in {"nvidia", "llama-cpp"} /\ UNCHANGED <<config, backend>>
      /\ calls' \in 0 .. MaxCalls
  <2>1. calls \in 0 .. MaxCalls
    BY DEF EmbeddingsIInv, EmbeddingsShaped
  <2>2. /\ calls < MaxCalls /\ calls' = calls + 1
        /\ backend \in {"nvidia", "llama-cpp"} /\ UNCHANGED <<config, backend>>
    BY DEF BeginEmbed
  <2> QED
    BY <2>1, <2>2, Bounds
<1>2. PICK text \in EmbeddableTexts, purpose \in Purposes :
        \/ /\ task' = [task EXCEPT ![c] = [[NoTask EXCEPT !.text = text, !.purpose = purpose]
                                                    EXCEPT !.at = "failed"]]
           /\ UNCHANGED cache
        \/ /\ task' = [task EXCEPT ![c] = [[NoTask EXCEPT !.text = text, !.purpose = purpose]
                                                    EXCEPT !.at = "request"]]
           /\ UNCHANGED cache
        \/ \E i \in CacheHit(CacheKey(text, purpose)) :
              /\ task' = [task EXCEPT ![c] = [[NoTask EXCEPT !.text = text, !.purpose = purpose]
                                                       EXCEPT !.at = "done", !.vector = cache[i].vector]]
              /\ cache' = Refreshed(cache[i])
  BY DEF BeginEmbed
<1>3. PICK this : /\ this = [NoTask EXCEPT !.text = text, !.purpose = purpose]
                  /\ Opening(this, "idle", text, purpose)
  BY Begun
<1>4. ASSUME NEW at \in {"failed", "request"}, UNCHANGED cache,
             task' = [task EXCEPT ![c] = [this EXCEPT !.at = at]]
      PROVE  EmbeddingsIInv'
  <2>1. PICK x : x = [this EXCEPT !.at = at]
    OBVIOUS
  <2>2. x \in Tasks /\ x.at = at /\ x.text = text /\ x.purpose = purpose /\ x.attempt = 0
    <3>1. Opening(x, at, text, purpose)
      BY <1>3, <2>1, BegunAt
    <3> QED
      BY <3>1 DEF Opening
  <2>3. Told(x)
    BY <2>2, Bounds DEF Told
  <2>4. CacheStays
    BY <1>4, CacheUnchanged
  <2> QED
    BY <1>1, <1>4, <2>1, <2>2, <2>3, <2>4, CallStep
<1>5. ASSUME NEW i \in CacheHit(CacheKey(text, purpose)), cache' = Refreshed(cache[i]),
             task' = [task EXCEPT ![c] = [this EXCEPT !.at = "done", !.vector = cache[i].vector]]
      PROVE  EmbeddingsIInv'
  <2>1. PICK e : e = cache[i]
    OBVIOUS
  <2>2. /\ e \in CacheRows /\ MadeFor(e.vector, e.key[1], e.key[2])
        /\ e.key = CacheKey(text, purpose)
    BY <2>1 DEF EmbeddingsIInv, EmbeddingsShaped, TrueEntries, CacheHit
  <2>3. e.vector \in Vectors /\ MadeFor(e.vector, text, PurposeOf(purpose))
    BY <2>2 DEF CacheRows, CacheKey
  <2>4. PICK v \in Vectors : v = e.vector
    BY <2>3
  <2>5. PICK x : x = [this EXCEPT !.at = "done", !.vector = v]
    OBVIOUS
  <2>6. /\ x \in Tasks /\ x.at = "done" /\ x.text = text /\ x.purpose = purpose
        /\ x.vector = e.vector
    <3>1. Opening(this, "idle", text, purpose)
      BY <1>3
    <3>2. Opening(x, "done", text, purpose)
      BY <3>1, <2>5, BegunWith
    <3>3. x.vector = v
      BY <3>1, <2>5 DEF Opening, Tasks
    <3> QED
      BY <2>4, <3>2, <3>3 DEF Opening
  <2>7. Told(x)
    BY <2>3, <2>6 DEF Told
  <2>8. CacheStays
    BY <1>5, <2>1, <2>2, CacheRefreshed
  <2>9. task' = [task EXCEPT ![c] = x]
    BY <1>5, <2>1, <2>5, <2>4
  <2> QED
    BY <1>1, <2>6, <2>7, <2>8, <2>9, CallStep
<1> QED
  BY <1>2, <1>3, <1>4, <1>5

(* In local-only mode the requests go to this machine. *)
LEMMA LocalEndpoint ==
    EmbeddingsIInv /\ backend \in {"nvidia", "llama-cpp"} /\ config.localOnly => Endpoint = "loopback"
  BY DEF EmbeddingsIInv, Started, Accepted, Endpoint

LEMMA PieceEmbeddedIInv ==
    ASSUME EmbeddingsIInv, NEW c \in Clients, PieceEmbedded(c)
    PROVE  EmbeddingsIInv'
<1>1. /\ task[c] \in Tasks /\ CallOK(c) /\ task[c].at = "request"
      /\ UNCHANGED <<config, backend, cache, calls>> /\ calls \in 0 .. MaxCalls
      /\ task \in [Clients -> Tasks]
  BY DEF PieceEmbedded, EmbeddingsIInv, EmbeddingsShaped
<1>2. /\ backend \in {"nvidia", "llama-cpp"}
      /\ task[c].text \in EmbeddableTexts /\ task[c].purpose \in Purposes
  BY <1>1 DEF CallOK
<1>3. PICK n \in Nat : n = task[c].pieces + 1
  <2>1. task[c].pieces \in Nat
    BY <1>1 DEF Tasks
  <2> QED
    BY <2>1
<1>4. PICK v : v = [text |-> task[c].text, purpose |-> PurposeOf(task[c].purpose),
                    pieces |-> n, from |-> Endpoint]
  OBVIOUS
<1>5. v \in Vectors
  BY <1>2, <1>4 DEF Vectors, PurposeOf, Endpoint
<1>6. PICK at : at = IF n = Pieces[task[c].text] THEN "put" ELSE "request"
  OBVIOUS
<1>7. PICK x : x = [task[c] EXCEPT !.pieces = n, !.attempt = 0, !.at = at, !.vector = v]
  OBVIOUS
<1>8. task' = [task EXCEPT ![c] = x]
  <2>1. task' = [task EXCEPT ![c].pieces = n, ![c].attempt = 0, ![c].at = at, ![c].vector = v]
    BY <1>3, <1>4, <1>6 DEF PieceEmbedded
  <2> QED
    BY <1>1, <1>7, <2>1
<1>9. /\ x \in Tasks /\ x.at = at /\ x.attempt = 0 /\ x.vector = v
      /\ x.text = task[c].text /\ x.purpose = task[c].purpose
  <2>1. 0 \in 0 .. MaxAttempts
    BY Bounds
  <2> QED
    BY <1>1, <1>5, <1>6, <1>7, <2>1 DEF Tasks
<1>10. at = "put" => MadeFor(v, task[c].text, PurposeOf(task[c].purpose))
  BY <1>2, <1>4, <1>6, LocalEndpoint DEF MadeFor
<1>11. Told(x)
  BY <1>2, <1>6, <1>9, <1>10, Bounds DEF Told
<1> QED
  BY <1>1, <1>2, <1>8, <1>9, <1>11, CallStep, CacheUnchanged

LEMMA PieceRetriedIInv ==
    ASSUME EmbeddingsIInv, NEW c \in Clients, PieceRetried(c) \/ PieceRefused(c)
    PROVE  EmbeddingsIInv'
<1>1. /\ task[c] \in Tasks /\ CallOK(c) /\ task[c].at = "request"
      /\ UNCHANGED <<config, backend, cache, calls>> /\ calls \in 0 .. MaxCalls
      /\ task \in [Clients -> Tasks]
  BY DEF PieceRetried, PieceRefused, EmbeddingsIInv, EmbeddingsShaped
<1>2. /\ backend \in {"nvidia", "llama-cpp"} /\ task[c].attempt < MaxAttempts
      /\ task[c].text \in EmbeddableTexts /\ task[c].purpose \in Purposes
  BY <1>1 DEF CallOK
<1>3. PICK at \in {"request", "failed"}, a \in 0 .. MaxAttempts :
        /\ task' = [task EXCEPT ![c] = [task[c] EXCEPT !.attempt = a, !.at = at]]
        /\ at = "request" => a < MaxAttempts
  <2>1. CASE PieceRetried(c)
    <3>1. task[c].attempt + 1 \in 0 .. MaxAttempts
      <4>1. task[c].attempt \in 0 .. MaxAttempts /\ task[c].attempt < MaxAttempts
        BY <1>1, <1>2 DEF Tasks
      <4> QED
        BY <4>1, Bounds
    <3>2. task' = [task EXCEPT ![c] = [task[c] EXCEPT !.attempt = task[c].attempt + 1,
                        !.at = IF task[c].attempt + 1 = MaxAttempts THEN "failed" ELSE "request"]]
      BY <1>1, <2>1 DEF PieceRetried, Tasks
    <3> QED
      <4>1. task[c].attempt + 1 # MaxAttempts => task[c].attempt + 1 < MaxAttempts
        BY <3>1, Bounds
      <4>2. CASE task[c].attempt + 1 = MaxAttempts
        BY <3>1, <3>2, <4>2
      <4>3. CASE task[c].attempt + 1 # MaxAttempts
        BY <3>1, <3>2, <4>1, <4>3
      <4> QED
        BY <4>2, <4>3
  <2>2. CASE PieceRefused(c)
    <3>1. task' = [task EXCEPT ![c] = [task[c] EXCEPT !.attempt = task[c].attempt, !.at = "failed"]]
      BY <1>1, <2>2 DEF PieceRefused, Tasks
    <3> QED
      BY <1>1, <3>1 DEF Tasks
  <2> QED
    BY <2>1, <2>2
<1>4. PICK x : x = [task[c] EXCEPT !.attempt = a, !.at = at]
  OBVIOUS
<1>5. x \in Tasks /\ Told(x)
  BY <1>1, <1>2, <1>3, <1>4 DEF Tasks, Told
<1> QED
  BY <1>1, <1>2, <1>3, <1>4, <1>5, CallStep, CacheUnchanged

LEMMA PutInCacheIInv ==
    ASSUME EmbeddingsIInv, NEW c \in Clients, PutInCache(c)
    PROVE  EmbeddingsIInv'
<1>1. /\ task[c] \in Tasks /\ CallOK(c) /\ task[c].at = "put"
      /\ UNCHANGED <<config, backend, calls>> /\ calls \in 0 .. MaxCalls
      /\ task \in [Clients -> Tasks]
  BY DEF PutInCache, EmbeddingsIInv, EmbeddingsShaped
<1>2. /\ backend \in {"nvidia", "llama-cpp"}
      /\ task[c].text \in EmbeddableTexts /\ task[c].purpose \in Purposes
      /\ MadeFor(task[c].vector, task[c].text, PurposeOf(task[c].purpose))
  BY <1>1 DEF CallOK
<1>3. PICK e : e = [key |-> CacheKey(task[c].text, task[c].purpose), vector |-> task[c].vector]
  OBVIOUS
<1>4. PICK key : key = <<task[c].text, PurposeOf(task[c].purpose)>>
  OBVIOUS
<1>5. key \in CacheKeys /\ key[1] = task[c].text /\ key[2] = PurposeOf(task[c].purpose)
  BY <1>2, <1>4 DEF CacheKeys, PurposeOf
<1>6. e.key = key /\ e.vector = task[c].vector /\ e = [key |-> key, vector |-> task[c].vector]
  BY <1>3, <1>4 DEF CacheKey
<1>7. MadeFor(e.vector, e.key[1], e.key[2])
  BY <1>2, <1>5, <1>6
<1>8. task[c].vector \in Vectors
  <2>1. task[c].vector \in Vectors \cup {NoVector} /\ task[c].vector.pieces = Pieces[task[c].text]
    BY <1>1, <1>2 DEF Tasks, MadeFor
  <2>2. task[c].vector = NoVector => task[c].vector \in Vectors
    <3>1. ASSUME NEW v, v = NoVector, v.text \in EmbeddableTexts PROVE v \in Vectors
      BY <3>1 DEF NoVector, Vectors
    <3> QED
      BY <3>1, <1>2 DEF MadeFor
  <2> QED
    BY <2>1, <2>2
<1>9. e \in CacheRows
  BY <1>5, <1>6, <1>8 DEF CacheRows
<1>10. CacheStays
  BY <1>3, <1>7, <1>9, CacheRefreshed DEF PutInCache
<1>11. PICK x : x = [task[c] EXCEPT !.at = "done"]
  OBVIOUS
<1>12. x \in Tasks /\ Told(x)
  BY <1>1, <1>2, <1>11 DEF Tasks, Told
<1>13. task' = [task EXCEPT ![c] = x]
  BY <1>11 DEF PutInCache
<1> QED
  BY <1>1, <1>2, <1>10, <1>12, <1>13, CallStep

LEMMA EmbeddingsNextIInv == EmbeddingsIInv /\ [EmbeddingsNext]_embeddingsVars => EmbeddingsIInv'
<1> SUFFICES ASSUME EmbeddingsIInv, [EmbeddingsNext]_embeddingsVars PROVE EmbeddingsIInv'
  OBVIOUS
<1>1. CASE UNCHANGED embeddingsVars
  BY <1>1 DEF embeddingsVars, EmbeddingsIInv, EmbeddingsShaped, Started, Accepted, OneEntryEach,
              TrueEntries, MadeFor, CallOK, PurposeOf
<1>2. CASE StartApi \/ StartMcp
  BY <1>2, StartEmbeddingIInv
<1>3. ASSUME NEW c \in Clients,
             \/ BeginEmbed(c) \/ PieceEmbedded(c) \/ PieceRetried(c) \/ PieceRefused(c)
             \/ PutInCache(c)
      PROVE  EmbeddingsIInv'
  BY <1>3, BeginEmbedIInv, PieceEmbeddedIInv, PieceRetriedIInv, PutInCacheIInv
<1> QED
  BY <1>1, <1>2, <1>3 DEF EmbeddingsNext

LEMMA EmbeddingsWellformed == EmbeddingsSpec => []EmbeddingsIInv
  BY EmbeddingsInitIInv, EmbeddingsNextIInv, PTL DEF EmbeddingsSpec

(* Every variable keeps its type, the cache its size and one entry a key. *)
THEOREM EmbeddingsTypeCorrect == EmbeddingsSpec => []EmbeddingsTypeOK
<1>1. EmbeddingsIInv => EmbeddingsTypeOK
  BY DEF EmbeddingsIInv, EmbeddingsShaped, OneEntryEach, EmbeddingsTypeOK, Tasks
<1> QED
  BY <1>1, EmbeddingsWellformed, PTL

(* A call returns the vector of its own text and purpose, whole, and in    *)
(* local-only mode from this machine, for any number of concurrent calls,  *)
(* texts of any number of pieces, any cache size and number of attempts    *)
(* (embed_as, Config::from_env).                                           *)
THEOREM OwnVector == EmbeddingsSpec => []VectorIsWhatWasAsked
<1>1. EmbeddingsIInv => VectorIsWhatWasAsked
  BY DEF EmbeddingsIInv, VectorIsWhatWasAsked, CallOK, MadeFor
<1> QED
  BY <1>1, EmbeddingsWellformed, PTL

-----------------------------------------------------------------------------
(* McpServer: sessions of any length.                                      *)

Posts == [line : Line, reply : Reply \cup {Pending, NoContent}]

McpServerShaped ==
    /\ inbox \in Seq(Line) /\ due \in Seq(Line) /\ replies \in Seq(Reply)
    /\ posts \subseteq Posts
    /\ listening \in BOOLEAN /\ requests \in 0 .. MaxRequests

IdOfAnswer(line) == IF line.kind \in WellFormed THEN line.id ELSE NoId

RepliesInOrder ==
    /\ Len(replies) <= Len(due)
    /\ Len(due) - Len(replies) <= IF listening THEN 0 ELSE 1
    /\ \A i \in 1 .. Len(replies) : replies[i].id = IdOfAnswer(due[i])

OwnId == \A p \in posts : p.line.kind # "oversize" /\ p.reply.id \in {p.line.id, NoId}

McpServerIInv == McpServerShaped /\ RepliesInOrder /\ OwnId

(* What may be written for a line: one answer with its id when it calls    *)
(* for one, and nothing when it does not.                                  *)
LEMMA WrittenIsAnswer ==
    ASSUME NEW line \in Line, NEW out \in Written(line)
    PROVE  \/ out = <<>> /\ ~CallsForAnswer(line)
           \/ /\ CallsForAnswer(line)
              /\ \E r \in Reply : out = <<r>> /\ r.id = IdOfAnswer(line)
<1>1. line.kind \in Kinds /\ line.id \in 0 .. MaxRequests
  BY DEF Line
<1>2. 0 \in 0 .. MaxRequests
  BY McpServerAssumption
<1>3. CASE line.kind = "oversize" \/ line.kind = "garbage"
  <2>1. PICK b \in Bodies : out = <<[id |-> NoId, body |-> b]>>
    BY <1>3 DEF Written, Bodies
  <2>2. [id |-> NoId, body |-> b] \in Reply
    BY <1>2 DEF Reply, NoId
  <2>3. line.kind \notin WellFormed
    BY <1>3 DEF WellFormed
  <2> QED
    BY <1>3, <2>1, <2>2, <2>3 DEF IdOfAnswer, CallsForAnswer
<1>4. CASE line.kind \in Parsed
  <2>1. line.kind # "oversize" /\ line.kind # "garbage"
    BY <1>4 DEF Parsed, WellFormed
  <2>2. CASE line.id = NoId
    BY <1>4, <2>1, <2>2 DEF Written, IsNotification, CallsForAnswer
  <2>3. CASE line.id # NoId
    <3>1. PICK b \in Outcomes(line.kind) : out = <<Response(line, b)>>
      BY <1>4, <2>1, <2>3 DEF Written, IsNotification
    <3>2. b \in Bodies
      BY <1>4, <3>1 DEF Outcomes, Bodies, Parsed, WellFormed
    <3>3. Response(line, b) \in Reply /\ Response(line, b).id = IdOfAnswer(line)
      BY <1>1, <1>2, <3>2 DEF Response, Reply, IdOfAnswer, NoId
    <3> QED
      BY <2>3, <3>1, <3>3 DEF CallsForAnswer
  <2> QED
    BY <2>2, <2>3
<1> QED
  BY <1>1, <1>3, <1>4 DEF Kinds

LEMMA AnsweredIsOwn ==
    ASSUME NEW line \in Line, line.kind # "oversize", NEW r \in Answered(line)
    PROVE  r \in Reply \cup {NoContent} /\ r.id \in {line.id, NoId}
<1>1. line.kind \in Kinds /\ line.id \in 0 .. MaxRequests
  BY DEF Line
<1>2. 0 \in 0 .. MaxRequests
  BY McpServerAssumption
<1>3. CASE line.kind \in {"garbage", "invalid"}
  <2>1. r = [id |-> NoId, body |-> "internalError"]
    BY <1>3 DEF Answered
  <2> QED
    BY <1>2, <2>1 DEF Reply, Bodies, NoId
<1>4. CASE line.kind \notin {"garbage", "invalid"} /\ IsNotification(line)
  BY <1>4 DEF Answered, NoContent
<1>5. CASE line.kind \notin {"garbage", "invalid"} /\ ~IsNotification(line)
  <2>1. PICK b \in Outcomes(line.kind) : r = Response(line, b)
    BY <1>5 DEF Answered
  <2>2. line.kind \in Parsed
    BY <1>1, <1>5 DEF Kinds
  <2>3. b \in Bodies
    BY <2>1, <2>2 DEF Outcomes, Bodies, Parsed, WellFormed
  <2> QED
    BY <1>1, <1>2, <2>1, <2>3 DEF Response, Reply, NoId
<1> QED
  BY <1>3, <1>4, <1>5

-----------------------------------------------------------------------------
LEMMA McpServerInitIInv == McpServerInit => McpServerIInv
<1> SUFFICES ASSUME McpServerInit PROVE McpServerIInv
  OBVIOUS
<1>1. McpServerShaped
  BY McpServerAssumption DEF McpServerInit, McpServerShaped
<1>2. RepliesInOrder /\ OwnId
  BY DEF McpServerInit, RepliesInOrder, OwnId
<1> QED
  BY <1>1, <1>2 DEF McpServerIInv

LEMMA ClientWritesIInv == McpServerIInv /\ ClientWrites => McpServerIInv'
<1> SUFFICES ASSUME McpServerIInv, ClientWrites PROVE McpServerIInv'
  OBVIOUS
<1>1. requests + 1 \in 0 .. MaxRequests
  BY McpServerAssumption DEF ClientWrites, McpServerIInv, McpServerShaped
<1>2. PICK line \in Line : inbox' = Append(inbox, line)
  BY <1>1, McpServerAssumption DEF ClientWrites, Line, NoId
<1>3. inbox' \in Seq(Line)
  BY <1>2 DEF McpServerIInv, McpServerShaped
<1>4. McpServerShaped'
  BY <1>1, <1>3 DEF ClientWrites, McpServerIInv, McpServerShaped
<1>5. RepliesInOrder' /\ OwnId'
  BY DEF ClientWrites, McpServerIInv, RepliesInOrder, OwnId
<1> QED
  BY <1>4, <1>5 DEF McpServerIInv

LEMMA ServeIInv == McpServerIInv /\ Serve => McpServerIInv'
<1> SUFFICES ASSUME McpServerIInv, Serve PROVE McpServerIInv'
  OBVIOUS
<1>1. /\ inbox \in Seq(Line) /\ inbox # <<>> /\ due \in Seq(Line) /\ replies \in Seq(Reply)
      /\ listening = TRUE /\ UNCHANGED <<posts, requests>>
  BY DEF Serve, McpServerIInv, McpServerShaped
<1>2. PICK line \in Line : line = Head(inbox)
  BY <1>1
<1>3. inbox' \in Seq(Line)
  BY <1>1 DEF Serve
<1>4. due' = IF CallsForAnswer(line) THEN Append(due, line) ELSE due
  BY <1>2 DEF Serve
<1>5. PICK n \in Nat, m \in Nat : n = Len(due) /\ m = Len(replies)
  BY <1>1
<1>6. n = m /\ \A i \in 1 .. m : replies[i].id = IdOfAnswer(due[i])
  BY <1>1, <1>5 DEF McpServerIInv, RepliesInOrder
<1>7. PICK out \in Written(line) :
        \/ replies' = replies \o out /\ UNCHANGED listening
        \/ out # <<>> /\ listening' = FALSE /\ UNCHANGED replies
  BY <1>2 DEF Serve
<1>8. CASE out = <<>> /\ ~CallsForAnswer(line)
  <2>1. due' = due /\ replies' = replies /\ listening' = listening
    BY <1>1, <1>4, <1>7, <1>8, ConcatEmptySeq
  <2> QED
    BY <1>1, <1>3, <2>1 DEF McpServerIInv, McpServerShaped, RepliesInOrder, OwnId
<1>9. CASE CallsForAnswer(line) /\ \E r \in Reply : out = <<r>> /\ r.id = IdOfAnswer(line)
  <2>1. PICK r \in Reply : out = <<r>> /\ r.id = IdOfAnswer(line)
    BY <1>9
  <2>2. PICK d : d = Append(due, line)
    OBVIOUS
  <2>3. /\ d \in Seq(Line) /\ Len(d) = n + 1 /\ d[n + 1] = line
        /\ \A i \in 1 .. n : d[i] = due[i]
    BY <1>1, <1>5, <2>2
  <2>4. due' = d
    BY <1>4, <1>9, <2>2
  <2>5. CASE replies' = replies \o out /\ UNCHANGED listening
    <3>1. PICK t : t = Append(replies, r)
      OBVIOUS
    <3>2. /\ t \in Seq(Reply) /\ Len(t) = m + 1 /\ t[m + 1] = r
          /\ \A i \in 1 .. m : t[i] = replies[i]
      BY <1>1, <1>5, <3>1
    <3>3. replies' = t
      BY <1>1, <2>1, <2>5, <3>1
    <3>4. \A i \in 1 .. m + 1 : t[i].id = IdOfAnswer(d[i])
      <4>1. \A i \in 1 .. m + 1 : i \in 1 .. m \/ i = m + 1
        OBVIOUS
      <4> QED
        BY <1>6, <2>1, <2>3, <3>2, <4>1
    <3>5. McpServerShaped'
      BY <1>1, <1>3, <2>3, <2>4, <2>5, <3>2, <3>3 DEF McpServerIInv, McpServerShaped
    <3>6. RepliesInOrder'
      BY <1>1, <1>6, <2>3, <2>4, <2>5, <3>2, <3>3, <3>4 DEF RepliesInOrder, IdOfAnswer
    <3> QED
      BY <1>1, <3>5, <3>6 DEF McpServerIInv, OwnId
  <2>6. CASE listening' = FALSE /\ UNCHANGED replies
    <3>1. McpServerShaped'
      BY <1>1, <1>3, <2>3, <2>4, <2>6 DEF McpServerIInv, McpServerShaped
    <3>2. Len(replies') = m /\ Len(due') = n + 1
      BY <1>5, <2>3, <2>4, <2>6
    <3>3. \A i \in 1 .. m : replies'[i].id = IdOfAnswer(due'[i])
      BY <1>6, <2>3, <2>4, <2>6
    <3>4. RepliesInOrder'
      BY <1>6, <2>6, <3>2, <3>3 DEF RepliesInOrder, IdOfAnswer
    <3> QED
      BY <1>1, <3>1, <3>4 DEF McpServerIInv, OwnId
  <2> QED
    BY <1>7, <2>5, <2>6
<1> QED
  BY <1>7, <1>8, <1>9, WrittenIsAnswer

LEMMA StopListeningIInv == McpServerIInv /\ StopListening => McpServerIInv'
<1> SUFFICES ASSUME McpServerIInv, StopListening PROVE McpServerIInv'
  OBVIOUS
<1>1. /\ inbox' = inbox /\ due' = due /\ replies' = replies /\ posts' = posts
      /\ requests' = requests /\ listening = TRUE /\ listening' = FALSE
  BY DEF StopListening
<1>2. McpServerShaped' /\ OwnId'
  BY <1>1 DEF McpServerIInv, McpServerShaped, OwnId
<1>3. Len(due) \in Nat /\ Len(replies) \in Nat
  BY DEF McpServerIInv, McpServerShaped
<1>4. RepliesInOrder'
  BY <1>1, <1>3 DEF McpServerIInv, RepliesInOrder, IdOfAnswer
<1> QED
  BY <1>2, <1>4 DEF McpServerIInv

LEMMA ClientPostsIInv == McpServerIInv /\ ClientPosts => McpServerIInv'
<1> SUFFICES ASSUME McpServerIInv, ClientPosts PROVE McpServerIInv'
  OBVIOUS
<1>1. requests + 1 \in 0 .. MaxRequests
  BY McpServerAssumption DEF ClientPosts, McpServerIInv, McpServerShaped
<1>2. PICK line \in Line : /\ line.kind # "oversize"
                          /\ posts' = posts \cup {[line |-> line, reply |-> Pending]}
  <2>1. PICK kind \in Kinds \ {"oversize"}, id \in {NoId, requests + 1} :
          posts' = posts \cup {[line |-> [kind |-> kind, id |-> id], reply |-> Pending]}
    BY DEF ClientPosts
  <2>2. id \in 0 .. MaxRequests
    BY <1>1, <2>1, McpServerAssumption DEF NoId
  <2>3. PICK line : line = [kind |-> kind, id |-> id]
    OBVIOUS
  <2>4. line \in Line /\ line.kind # "oversize"
    BY <2>2, <2>3 DEF Line
  <2> QED
    BY <2>1, <2>3, <2>4
<1>3. PICK p : p = [line |-> line, reply |-> Pending]
  OBVIOUS
<1>4. p \in Posts /\ p.line.kind # "oversize" /\ p.reply.id \in {p.line.id, NoId}
  BY <1>2, <1>3 DEF Posts, Pending
<1>5. posts' = posts \cup {p}
  BY <1>2, <1>3
<1>6. McpServerShaped'
  BY <1>1, <1>4, <1>5 DEF ClientPosts, McpServerIInv, McpServerShaped
<1>7. OwnId'
  BY <1>4, <1>5 DEF McpServerIInv, OwnId
<1>8. RepliesInOrder'
  BY DEF ClientPosts, McpServerIInv, RepliesInOrder
<1> QED
  BY <1>6, <1>7, <1>8 DEF McpServerIInv

LEMMA AnswerPostIInv == McpServerIInv /\ AnswerPost => McpServerIInv'
<1> SUFFICES ASSUME McpServerIInv, AnswerPost PROVE McpServerIInv'
  OBVIOUS
<1>1. PICK p \in posts :
        \E r \in Answered(p.line) : posts' = (posts \ {p}) \cup {[p EXCEPT !.reply = r]}
  BY DEF AnswerPost
<1>2. PICK r \in Answered(p.line) : posts' = (posts \ {p}) \cup {[p EXCEPT !.reply = r]}
  BY <1>1
<1>3. p \in Posts /\ p.line \in Line /\ p.line.kind # "oversize"
  BY DEF McpServerIInv, McpServerShaped, OwnId, Posts
<1>4. r \in Reply \cup {NoContent} /\ r.id \in {p.line.id, NoId}
  BY <1>3, <1>2, AnsweredIsOwn
<1>5. PICK q : q = [p EXCEPT !.reply = r]
  OBVIOUS
<1>6. q \in Posts /\ q.line = p.line /\ q.reply = r
  BY <1>3, <1>4, <1>5 DEF Posts
<1>7. posts' = (posts \ {p}) \cup {q}
  BY <1>2, <1>5
<1>8. McpServerShaped'
  BY <1>6, <1>7 DEF AnswerPost, McpServerIInv, McpServerShaped
<1>9. OwnId'
  BY <1>3, <1>4, <1>6, <1>7 DEF McpServerIInv, OwnId
<1>10. RepliesInOrder'
  BY DEF AnswerPost, McpServerIInv, RepliesInOrder
<1> QED
  BY <1>8, <1>9, <1>10 DEF McpServerIInv

LEMMA McpServerNextIInv == McpServerIInv /\ [McpServerNext]_mcpServerVars => McpServerIInv'
<1>1. McpServerIInv /\ UNCHANGED mcpServerVars => McpServerIInv'
  BY DEF mcpServerVars, McpServerIInv, McpServerShaped, RepliesInOrder, OwnId
<1> QED
  BY <1>1, ClientWritesIInv, ServeIInv, StopListeningIInv, ClientPostsIInv, AnswerPostIInv
     DEF McpServerNext

LEMMA McpServerWellformed == McpServerSpec => []McpServerIInv
  BY McpServerInitIInv, McpServerNextIInv, PTL DEF McpServerSpec

(* Every line, answer and post keeps its form. *)
THEOREM McpServerTypeCorrect == McpServerSpec => []McpServerTypeOK
<1>1. McpServerIInv => McpServerTypeOK
  <2> SUFFICES ASSUME McpServerIInv PROVE McpServerTypeOK
    OBVIOUS
  <2>1. /\ \A i \in DOMAIN inbox : inbox[i] \in Line
        /\ \A i \in DOMAIN due : due[i] \in Line
        /\ \A i \in DOMAIN replies : replies[i] \in Reply
    BY DEF McpServerIInv, McpServerShaped
  <2>2. \A p \in posts : p.line \in Line /\ p.reply \in Reply \cup {Pending, NoContent}
    BY DEF McpServerIInv, McpServerShaped, Posts
  <2> QED
    BY <2>1, <2>2 DEF McpServerIInv, McpServerShaped, McpServerTypeOK
<1> QED
  BY <1>1, McpServerWellformed, PTL

(* Requests are answered once each, in order and with their own id, and    *)
(* notifications never, in sessions of any length (listen).                *)
THEOREM Answers == McpServerSpec => []AnsweredOnceInOrder
<1>1. McpServerIInv => AnsweredOnceInOrder
  <2> SUFFICES ASSUME McpServerIInv PROVE AnsweredOnceInOrder
    OBVIOUS
  <2>1. DOMAIN replies = 1 .. Len(replies)
    BY DEF McpServerIInv, McpServerShaped
  <2> QED
    BY <2>1 DEF McpServerIInv, RepliesInOrder, OwnId, IdOfAnswer, AnsweredOnceInOrder
<1> QED
  BY <1>1, McpServerWellformed, PTL

-----------------------------------------------------------------------------
(* Search: any rows, weights and page.                                     *)

(* A stable sort is a permutation that puts the better score first.        *)
LEMMA Sorting ==
    ASSUME NEW H, \A h \in H : h.score \in Nat, NEW s \in Seq(H)
    PROVE  \E f \in [DOMAIN s -> DOMAIN s] :
             /\ \A p, q \in DOMAIN s : f[p] = f[q] => p = q
             /\ Sorted(s) = [p \in DOMAIN s |-> s[f[p]]]
             /\ \A p, q \in DOMAIN s : p < q => s[f[p]].score >= s[f[q]].score
<1> DEFINE Before(i, j) == s[i].score > s[j].score \/ (s[i].score = s[j].score /\ i < j)
           Ahead(j)     == {i \in DOMAIN s : Before(i, j)}
           Place(j)     == Cardinality(Ahead(j)) + 1
           f            == [p \in DOMAIN s |-> CHOOSE j \in DOMAIN s : Place(j) = p]
<1>1. PICK n \in Nat : n = Len(s) /\ DOMAIN s = 1 .. n
  BY LenProperties
<1>2. IsFiniteSet(DOMAIN s) /\ Cardinality(DOMAIN s) = n
  <2>1. IsFiniteSet(1 .. n) /\ Cardinality(1 .. n) = IF 1 > n THEN 0 ELSE n - 1 + 1
    BY FS_Interval
  <2> QED
    BY <1>1, <2>1
<1>3. \A i \in DOMAIN s : s[i].score \in Nat /\ i \in Nat
  BY <1>1, ElementOfSeq
<1>4. /\ \A i \in DOMAIN s : ~Before(i, i)
      /\ \A i, j, k \in DOMAIN s : Before(i, j) /\ Before(j, k) => Before(i, k)
      /\ \A i, j \in DOMAIN s : i # j => Before(i, j) \/ Before(j, i)
  BY <1>3
<1> HIDE DEF Before
<1>5. ASSUME NEW j \in DOMAIN s
      PROVE  IsFiniteSet(Ahead(j)) /\ Cardinality(Ahead(j)) \in Nat /\ Place(j) \in DOMAIN s
  <2>1. Ahead(j) \in SUBSET DOMAIN s /\ Ahead(j) # DOMAIN s
    BY <1>4
  <2>2. IsFiniteSet(Ahead(j)) /\ Cardinality(Ahead(j)) <= n /\ Cardinality(Ahead(j)) # n
    BY <1>2, <2>1, FS_Subset
  <2>3. Cardinality(Ahead(j)) \in Nat
    BY <2>2, FS_CardinalityType
  <2> QED
    BY <1>1, <2>2, <2>3
<1>6. ASSUME NEW i \in DOMAIN s, NEW j \in DOMAIN s, Before(i, j) PROVE Place(i) < Place(j)
  <2>1. Ahead(i) \in SUBSET Ahead(j) /\ Ahead(i) # Ahead(j)
    BY <1>4, <1>6
  <2>2. IsFiniteSet(Ahead(j)) /\ Cardinality(Ahead(i)) \in Nat /\ Cardinality(Ahead(j)) \in Nat
    BY <1>5
  <2> HIDE DEF Ahead
  <2>3. Cardinality(Ahead(i)) <= Cardinality(Ahead(j)) /\ Cardinality(Ahead(i)) # Cardinality(Ahead(j))
    BY <2>1, <2>2, FS_Subset
  <2> QED
    BY <2>2, <2>3
<1> HIDE DEF Ahead, Place
<1>7. \A i, j \in DOMAIN s : Place(i) = Place(j) => i = j
  <2> SUFFICES ASSUME NEW i \in DOMAIN s, NEW j \in DOMAIN s, Place(i) = Place(j), i # j PROVE FALSE
    OBVIOUS
  <2>1. Place(i) < Place(j) \/ Place(j) < Place(i)
    BY <1>4, <1>6
  <2>2. Place(i) \in Nat /\ Place(j) \in Nat
    BY <1>1, <1>5
  <2> QED
    BY <2>1, <2>2
<1>8. ASSUME NEW p \in DOMAIN s PROVE \E j \in DOMAIN s : Place(j) = p
  <2> SUFFICES ASSUME \A j \in DOMAIN s : Place(j) # p PROVE FALSE
    OBVIOUS
  <2>1. PICK others : others = DOMAIN s \ {p}
    OBVIOUS
  <2>2. IsFiniteSet(others) /\ Cardinality(others) = n - 1
    BY <1>2, <2>1, FS_RemoveElement
  <2>3. PICK g \in [DOMAIN s -> others] : \A j \in DOMAIN s : g[j] = Place(j)
    <3>1. [j \in DOMAIN s |-> Place(j)] \in [DOMAIN s -> others]
      BY <1>5, <2>1
    <3> QED
      BY <3>1
  <2>4. Cardinality(others) < Cardinality(DOMAIN s)
    BY <1>2, <2>2
  <2>5. \E i, j \in DOMAIN s : i # j /\ g[i] = g[j]
    BY <1>2, <2>2, <2>4, FS_PigeonHole
  <2> QED
    BY <1>7, <2>3, <2>5
<1>9. \A p \in DOMAIN s : f[p] \in DOMAIN s /\ Place(f[p]) = p
  BY <1>8
<1>10. Sorted(s) = [p \in DOMAIN s |-> s[f[p]]]
  BY DEF Sorted, Before, Ahead, Place
<1>11. \A p, q \in DOMAIN s : f[p] = f[q] => p = q
  BY <1>9
<1>12. ASSUME NEW p \in DOMAIN s, NEW q \in DOMAIN s, p < q
       PROVE  s[f[p]].score >= s[f[q]].score
  <2> HIDE DEF f
  <2>1. f[p] \in DOMAIN s /\ f[q] \in DOMAIN s /\ Place(f[p]) = p /\ Place(f[q]) = q
    BY <1>9
  <2>2. p \in Nat /\ q \in Nat
    BY <1>1
  <2>3. ~Before(f[q], f[p])
    <3>1. Before(f[q], f[p]) => q < p
      BY <1>6, <2>1
    <3> QED
      BY <1>12, <2>2, <3>1
  <2>4. f[p] # f[q]
    BY <1>12, <2>1, <2>2
  <2>5. Before(f[p], f[q])
    BY <1>4, <2>1, <2>3, <2>4
  <2> QED
    BY <1>3, <2>1, <2>5 DEF Before
<1>13. f \in [DOMAIN s -> DOMAIN s]
  BY <1>9
<1> HIDE DEF f
<1> QED
  BY <1>10, <1>11, <1>12, <1>13

-----------------------------------------------------------------------------
(* Arithmetic of the scores. *)
LEMMA Monotone ==
    ASSUME NEW a \in Nat, NEW b \in Nat, NEW c \in Nat, b <= c
    PROVE  a * b \in Nat /\ a * b <= a * c
OBVIOUS

LEMMA RoundedNat ==
    ASSUME NEW n \in Nat, NEW d \in Nat, d # 0 PROVE Rounded(n, d) \in Nat
<1>1. PICK m \in Nat, e \in Nat : m = 2 * n + d /\ e = 2 * d /\ e > 0
  OBVIOUS
<1>2. m \div e \in Nat
  BY <1>1
<1> QED
  BY <1>1, <1>2 DEF Rounded

LEMMA ReciprocalNat ==
    ASSUME NEW v \in Nat, NEW k \in Nat, v # 0 \/ k # 0 PROVE Reciprocal(v, k) \in Nat
<1>1. /\ K + v \in Nat /\ K + k \in Nat
      /\ 100 * VectorWeight \in Nat /\ 100 * KeywordWeight \in Nat
      /\ v # 0 => K + v # 0
      /\ k # 0 => K + k # 0
  BY SearchAssumption
<1>2. CASE v # 0 /\ k # 0
  <2>1. PICK d \in Nat : d = (K + v) * (K + k) /\ d # 0
    BY <1>1, <1>2
  <2>2. PICK n \in Nat : n = 100 * (VectorWeight * (K + k) + KeywordWeight * (K + v))
    <3>1. VectorWeight * (K + k) \in Nat /\ KeywordWeight * (K + v) \in Nat
      BY <1>1, SearchAssumption
    <3> QED
      BY <3>1
  <2> QED
    BY <1>2, <2>1, <2>2, RoundedNat DEF Reciprocal
<1>3. CASE ~(v # 0 /\ k # 0)
  BY <1>1, <1>3, RoundedNat DEF Reciprocal
<1> QED
  BY <1>2, <1>3

LEMMA MultiplierBounds ==
    ASSUME NEW c \in Composites PROVE Multiplier(c) \in Floor .. 100
<1>1. Floor \in 0 .. 100 /\ c \in 0 .. 100
  BY SearchAssumption
<1>2. PICK a \in Nat, m \in Nat : a = 100 - Floor /\ m = a * c
  BY <1>1, Monotone
<1>3. m <= a * 100
  BY <1>1, <1>2, Monotone
<1>4. m \div 100 \in Nat /\ m \div 100 <= a
  BY <1>2, <1>3
<1> QED
  BY <1>1, <1>2, <1>4 DEF Multiplier

-----------------------------------------------------------------------------
(* The results, and how far decay and dates have moved them.               *)
HitRecords == [id : Found, score : Nat, vec : Nat, kw : Nat, critical : BOOLEAN, boosted : BOOLEAN]

EachOnce(s) == \A i, j \in DOMAIN s : s[i].id = s[j].id => i = j
Ranking(s)   == \A i, j \in DOMAIN s : i < j => s[i].score >= s[j].score

InAList(h)    == h.vec # 0 \/ h.kw # 0
Unadjusted(h) == h.score = Fused(h) /\ ~h.critical /\ ~h.boosted

Decayed(h) ==
    /\ Floor * Fused(h) <= h.score /\ h.score <= 100 * Fused(h)
    /\ h.critical => h.score = 100 * Fused(h)
    /\ ~h.boosted

(* A score is in units of one u-th of what the fusion gives.               *)
Adjusted(h, u) ==
    /\ Floor * Fused(h) * u <= 100 * h.score /\ 100 * h.score <= Boost * Fused(h) * u
    /\ ~h.boosted => h.score <= Fused(h) * u
    /\ h.critical => IF h.boosted THEN 100 * h.score >= Boost * Fused(h) * u
                     ELSE h.score >= Fused(h) * u

SearchShaped ==
    /\ query \in [table : Tables, mode : Modes, timed : BOOLEAN]
    /\ stage \in Stages
    /\ hits \in Seq(HitRecords) /\ EachOnce(hits)

HybridInv ==
    query.mode = "hybrid" =>
      /\ Ranking(hits) /\ \A i \in DOMAIN hits : InAList(hits[i])
      /\ stage = "fetch" => hits = <<>>
      /\ stage = "decay" => \A i \in DOMAIN hits : Unadjusted(hits[i])
      /\ stage = "boost" => \A i \in DOMAIN hits : Decayed(hits[i])
      /\ stage \in {"truncate", "idle"} =>
           \E u \in {1, 10000} : \A i \in DOMAIN hits : Adjusted(hits[i], u)

SearchIInv == SearchShaped /\ HybridInv

LEMMA SearchInitIInv == SearchInit => SearchIInv
<1> SUFFICES ASSUME SearchInit PROVE SearchIInv
  OBVIOUS
<1>1. SearchShaped
  BY DEF SearchInit, SearchShaped, Tables, Modes, Stages, EachOnce
<1>2. HybridInv
  BY DEF SearchInit, HybridInv, Ranking
<1> QED
  BY <1>1, <1>2 DEF SearchIInv

LEMMA FusedNat ==
    ASSUME NEW h \in HitRecords, InAList(h) PROVE Fused(h) \in Nat
BY ReciprocalNat DEF HitRecords, InAList, Fused

(* Sorting moves results, no more. *)
LEMMA Resorted ==
    ASSUME NEW s \in Seq(HitRecords), EachOnce(s)
    PROVE  /\ Sorted(s) \in Seq(HitRecords) /\ EachOnce(Sorted(s)) /\ Ranking(Sorted(s))
           /\ \A p \in DOMAIN Sorted(s) : \E i \in DOMAIN s : Sorted(s)[p] = s[i]
<1>1. PICK f \in [DOMAIN s -> DOMAIN s] :
        /\ \A p, q \in DOMAIN s : f[p] = f[q] => p = q
        /\ Sorted(s) = [p \in DOMAIN s |-> s[f[p]]]
        /\ \A p, q \in DOMAIN s : p < q => s[f[p]].score >= s[f[q]].score
  BY Sorting DEF HitRecords
<1>2. DOMAIN s = 1 .. Len(s) /\ Len(s) \in Nat /\ \A i \in DOMAIN s : s[i] \in HitRecords
  BY LenProperties, ElementOfSeq
<1>3. PICK t : t = Sorted(s)
  OBVIOUS
<1>4. DOMAIN t = DOMAIN s /\ \A p \in DOMAIN s : f[p] \in DOMAIN s /\ t[p] = s[f[p]]
  BY <1>1, <1>3
<1>5. t \in Seq(HitRecords)
  <2>1. t \in [1 .. Len(s) -> HitRecords]
    BY <1>1, <1>2, <1>3
  <2> QED
    BY <1>2, <2>1, SeqDef
<1>6. EachOnce(t)
  BY <1>1, <1>4 DEF EachOnce
<1>7. Ranking(t)
  BY <1>1, <1>4 DEF Ranking
<1> QED
  BY <1>3, <1>4, <1>5, <1>6, <1>7

-----------------------------------------------------------------------------
(* What the lists give. *)
LEMMA Listed ==
    ASSUME NEW limit, NEW l \in ListsUpTo(limit)
    PROVE  /\ \E n \in Nat : l \in [1 .. n -> [id : Found, score : RawScores]]
           /\ \A i, j \in DOMAIN l : l[i].id = l[j].id => i = j
           /\ IdsIn(l) \subseteq Found
<1>1. PICK n \in 0 .. limit : l \in Lists(n)
  BY DEF ListsUpTo
<1>2. n \in Nat
  OBVIOUS
<1>3. /\ l \in [1 .. n -> [id : Found, score : RawScores]]
      /\ \A i, j \in 1 .. n : i < j => l[i].id # l[j].id
  BY <1>1 DEF Lists
<1>4. \A i, j \in 1 .. n : l[i].id = l[j].id => i = j
  BY <1>2, <1>3
<1> QED
  BY <1>2, <1>3, <1>4 DEF IdsIn

LEMMA RankInList ==
    ASSUME NEW limit, NEW l \in ListsUpTo(limit), NEW m
    PROVE  /\ RankIn(l, m) \in Nat
           /\ m \in IdsIn(l) => RankIn(l, m) \in DOMAIN l /\ RankIn(l, m) # 0
<1>1. PICK n \in Nat : DOMAIN l = 1 .. n
  BY Listed
<1>2. m \in IdsIn(l) => RankIn(l, m) \in DOMAIN l
  BY DEF IdsIn, RankIn
<1>3. m \notin IdsIn(l) => RankIn(l, m) = 0
  BY DEF RankIn
<1> QED
  BY <1>1, <1>2, <1>3

LEMMA ShareNat ==
    ASSUME NEW limit, NEW l \in ListsUpTo(limit), NEW m PROVE Share(l, m) \in Nat
<1>1. PICK n \in Nat : l \in [1 .. n -> [id : Found, score : RawScores]]
  BY Listed
<1>2. CASE m \in IdsIn(l)
  <2>1. PICK r \in 1 .. n : r = RankIn(l, m)
    BY <1>1, <1>2, RankInList
  <2>2. 1 \in 1 .. n
    OBVIOUS
  <2>3. \A i \in 1 .. n : l[i].score \in 1 .. 100
    BY <1>1, SearchAssumption
  <2>4. PICK x \in 1 .. 100, y \in 1 .. 100 : x = l[r].score /\ y = l[1].score
    BY <2>2, <2>3
  <2>5. (100 * x) \div y \in Nat
    OBVIOUS
  <2> QED
    BY <1>2, <2>1, <2>4, <2>5 DEF Share
<1>3. CASE m \notin IdsIn(l)
  BY <1>3 DEF Share, Absent
<1> QED
  BY <1>2, <1>3

LEMMA FoundFinite ==
    ASSUME NEW limit, NEW vec \in ListsUpTo(limit), NEW kw \in ListsUpTo(limit)
    PROVE  IsFiniteSet(IdsIn(vec) \cup IdsIn(kw)) /\ IdsIn(vec) \cup IdsIn(kw) \subseteq Found
<1>1. IdsIn(vec) \cup IdsIn(kw) \in SUBSET Found
  BY Listed
<1> QED
  BY <1>1, SearchAssumption, FS_Subset

(* The fused rows in an order are results. *)
LEMMA Ordered ==
    ASSUME NEW S, IsFiniteSet(S), NEW f \in [S -> HitRecords], \A m \in S : f[m].id = m,
           NEW entries, entries = {f[m] : m \in S}, NEW s \in Orders(entries)
    PROVE  /\ s \in Seq(HitRecords) /\ EachOnce(s) /\ Ranking(s)
           /\ \A i \in DOMAIN s : s[i] \in entries
<1>1. f \in Surjection(S, entries)
  BY DEF Surjection
<1>2. IsFiniteSet(entries)
  BY <1>1, FS_Surjection
<1>3. PICK n \in Nat : n = Cardinality(entries)
  BY <1>2, FS_CardinalityType
<1>4. /\ s \in [1 .. n -> entries]
      /\ \A i, j \in 1 .. n : i < j => s[i] # s[j] /\ s[i].score >= s[j].score
  BY <1>3 DEF Orders
<1>5. entries \subseteq HitRecords /\ \A g, h \in entries : g.id = h.id => g = h
  OBVIOUS
<1>6. s \in Seq(HitRecords)
  <2>1. s \in [1 .. n -> HitRecords]
    BY <1>4, <1>5
  <2> QED
    BY <2>1, SeqDef
<1>7. EachOnce(s)
  <2> SUFFICES ASSUME NEW i \in 1 .. n, NEW j \in 1 .. n, s[i].id = s[j].id, i # j PROVE FALSE
    BY <1>4 DEF EachOnce
  <2>1. s[i] = s[j]
    BY <1>4, <1>5
  <2> QED
    BY <1>4, <2>1
<1> QED
  BY <1>4, <1>6, <1>7 DEF Ranking

LEMMA Fusions ==
    ASSUME NEW limit, NEW vec \in ListsUpTo(limit), NEW kw \in ListsUpTo(limit)
    PROVE  /\ \A s \in Orders(RrfFuse(vec, kw)) :
                /\ s \in Seq(HitRecords) /\ EachOnce(s) /\ Ranking(s)
                /\ \A i \in DOMAIN s : InAList(s[i]) /\ Unadjusted(s[i])
           /\ \A s \in Orders(RsfFuse(vec, kw)) : s \in Seq(HitRecords) /\ EachOnce(s)
<1>1. PICK S : S = IdsIn(vec) \cup IdsIn(kw) /\ IsFiniteSet(S) /\ S \subseteq Found
  BY FoundFinite
<1>2. \A m : RankIn(vec, m) \in Nat /\ RankIn(kw, m) \in Nat
  BY RankInList
<1>3. \A m \in S : RankIn(vec, m) # 0 \/ RankIn(kw, m) # 0
  BY <1>1, RankInList
<1>4. ASSUME NEW s \in Orders(RrfFuse(vec, kw))
      PROVE  /\ s \in Seq(HitRecords) /\ EachOnce(s) /\ Ranking(s)
             /\ \A i \in DOMAIN s : InAList(s[i]) /\ Unadjusted(s[i])
  <2>1. PICK f : f = [m \in S |-> Hit(m, Reciprocal(RankIn(vec, m), RankIn(kw, m)),
                                     RankIn(vec, m), RankIn(kw, m))]
    OBVIOUS
  <2>2. ASSUME NEW m \in S
        PROVE  /\ f[m] \in HitRecords /\ f[m].id = m
               /\ InAList(f[m]) /\ Unadjusted(f[m])
    <3>1. PICK v \in Nat, k \in Nat : v = RankIn(vec, m) /\ k = RankIn(kw, m) /\ (v # 0 \/ k # 0)
      BY <1>2, <1>3
    <3>2. PICK r \in Nat : r = Reciprocal(v, k)
      BY <3>1, ReciprocalNat
    <3>3. f[m] = [id |-> m, score |-> r, vec |-> v, kw |-> k, critical |-> FALSE, boosted |-> FALSE]
      BY <2>1, <3>1, <3>2 DEF Hit
    <3>4. f[m] \in HitRecords
      BY <1>1, <3>3 DEF HitRecords
    <3>5. /\ f[m].id = m /\ f[m].vec = v /\ f[m].kw = k /\ f[m].score = r
          /\ ~f[m].critical /\ ~f[m].boosted
      BY <3>3
    <3> QED
      BY <3>1, <3>2, <3>4, <3>5 DEF InAList, Unadjusted, Fused
  <2>3. RrfFuse(vec, kw) = {f[m] : m \in S}
    BY <1>1, <2>1 DEF RrfFuse
  <2>4. f \in [S -> HitRecords]
    BY <2>1, <2>2
  <2>5. /\ s \in Seq(HitRecords) /\ EachOnce(s) /\ Ranking(s)
        /\ \A i \in DOMAIN s : s[i] \in RrfFuse(vec, kw)
    BY <1>1, <2>2, <2>3, <2>4, Ordered
  <2> QED
    BY <2>2, <2>3, <2>5
<1>5. ASSUME NEW s \in Orders(RsfFuse(vec, kw)) PROVE s \in Seq(HitRecords) /\ EachOnce(s)
  <2> DEFINE rank(m) == IF m \in IdsIn(vec) THEN RankIn(vec, m) ELSE RankIn(kw, m)
  <2>1. PICK f : f = [m \in S |->
          Hit(m, Share(vec, m) * VectorWeight + Share(kw, m) * KeywordWeight,
              rank(m), IF m \in IdsIn(kw) THEN rank(m) ELSE 0)]
    OBVIOUS
  <2>2. ASSUME NEW m \in S PROVE f[m] \in HitRecords /\ f[m].id = m
    <3>1. PICK r \in Nat, k \in Nat : r = rank(m) /\ k = IF m \in IdsIn(kw) THEN rank(m) ELSE 0
      BY <1>2
    <3>2. PICK score \in Nat : score = Share(vec, m) * VectorWeight + Share(kw, m) * KeywordWeight
      <4>1. PICK a \in Nat, b \in Nat : a = Share(vec, m) /\ b = Share(kw, m)
        BY ShareNat
      <4>2. a * VectorWeight \in Nat /\ b * KeywordWeight \in Nat
        BY SearchAssumption
      <4> QED
        BY <4>1, <4>2
    <3> HIDE DEF rank
    <3>3. f[m] = [id |-> m, score |-> score, vec |-> r, kw |-> k, critical |-> FALSE,
                  boosted |-> FALSE]
      BY <2>1, <3>1, <3>2 DEF Hit
    <3>4. f[m] \in HitRecords
      BY <1>1, <3>3 DEF HitRecords
    <3> QED
      BY <3>3, <3>4
  <2>3. RsfFuse(vec, kw) = {f[m] : m \in S}
    BY <1>1, <2>1 DEF RsfFuse
  <2>4. f \in [S -> HitRecords]
    BY <2>1, <2>2
  <2> QED
    BY <1>1, <2>2, <2>3, <2>4, Ordered
<1> QED
  BY <1>4, <1>5

-----------------------------------------------------------------------------
(* A result whose score is adjusted. *)
LEMMA Rescored ==
    ASSUME NEW h \in HitRecords, NEW x \in HitRecords, x.vec = h.vec, x.kw = h.kw
    PROVE  Fused(x) = Fused(h) /\ (InAList(h) => InAList(x))
BY DEF Fused, InAList

LEMMA AskIInv == ASSUME Ask PROVE SearchIInv'
<1>1. hits' = <<>> /\ stage' = "fetch" /\ query' \in [table : Tables, mode : Modes, timed : BOOLEAN]
  BY DEF Ask, Modes
<1>2. SearchShaped'
  BY <1>1 DEF SearchShaped, EachOnce, Stages
<1>3. HybridInv'
  BY <1>1 DEF HybridInv, Ranking
<1> QED
  BY <1>2, <1>3 DEF SearchIInv

LEMMA FailsIInv == ASSUME SearchIInv, SearchFails PROVE SearchIInv'
<1>1. hits' = <<>> /\ stage' = "idle" /\ query' = query
  BY DEF SearchFails
<1>2. SearchShaped'
  BY <1>1 DEF SearchIInv, SearchShaped, EachOnce, Stages
<1>3. HybridInv'
  BY <1>1 DEF HybridInv, Ranking
<1> QED
  BY <1>2, <1>3 DEF SearchIInv

LEMMA FetchOneIInv == ASSUME SearchIInv, FetchOne PROVE SearchIInv'
<1>1. PICK l \in ListsUpTo(Page) : hits' = [i \in DOMAIN l |-> Hit(l[i].id, l[i].score, 0, 0)]
  BY DEF FetchOne, VectorLists
<1>2. query' = query /\ query.mode \in {"vector", "keyword"} /\ stage' \in {"boost", "idle"}
  BY DEF FetchOne
<1>3. PICK n \in Nat : l \in [1 .. n -> [id : Found, score : RawScores]]
  BY Listed
<1>4. ASSUME NEW i \in 1 .. n PROVE hits'[i] \in HitRecords /\ hits'[i].id = l[i].id
  <2>1. PICK x \in [id : Found, score : RawScores] : x = l[i]
    BY <1>3
  <2>2. x.id \in Found /\ x.score \in RawScores /\ \A r \in RawScores : r \in Nat
    BY SearchAssumption
  <2>3. PICK m \in Found, r \in Nat : m = l[i].id /\ r = l[i].score
    BY <2>1, <2>2
  <2>4. hits'[i] = [id |-> m, score |-> r, vec |-> 0, kw |-> 0, critical |-> FALSE,
                    boosted |-> FALSE]
    BY <1>1, <1>3, <2>3 DEF Hit
  <2>5. hits'[i] \in HitRecords
    BY <2>4 DEF HitRecords
  <2> QED
    BY <2>3, <2>4, <2>5
<1>5. hits' \in [1 .. n -> HitRecords]
  BY <1>1, <1>3, <1>4
<1>6. hits' \in Seq(HitRecords)
  BY <1>5, SeqDef
<1>7. EachOnce(hits)'
  <2>1. DOMAIN hits' = DOMAIN l /\ DOMAIN l = 1 .. n
    BY <1>1, <1>3
  <2>2. \A i, j \in DOMAIN l : l[i].id = l[j].id => i = j
    BY Listed
  <2> QED
    BY <1>4, <2>1, <2>2 DEF EachOnce
<1>8. SearchShaped'
  BY <1>2, <1>6, <1>7 DEF SearchIInv, SearchShaped, Stages
<1>9. HybridInv'
  BY <1>2 DEF HybridInv
<1> QED
  BY <1>8, <1>9 DEF SearchIInv

(* At a unit of one, nothing is adjusted yet. *)
LEMMA UnitOne ==
    ASSUME NEW h \in HitRecords, InAList(h), Unadjusted(h) PROVE Adjusted(h, 1)
<1>1. PICK n \in Nat, m \in Nat : n = Fused(h) /\ m = Floor * n /\ m <= 100 * n
  <2>1. Fused(h) \in Nat /\ Floor \in Nat /\ Floor <= 100
    BY FusedNat, SearchAssumption
  <2>2. PICK n \in Nat : n = Fused(h)
    BY <2>1
  <2>3. n * Floor \in Nat /\ n * Floor <= n * 100
    BY <2>1, Monotone
  <2> QED
    BY <2>1, <2>2, <2>3
<1>2. h.score = n /\ ~h.critical /\ ~h.boosted
  BY <1>1 DEF Unadjusted
<1> QED
  BY <1>1, <1>2 DEF Adjusted, Boost

LEMMA FetchBothIInv == ASSUME SearchIInv, FetchBoth PROVE SearchIInv'
<1>1. PICK vec \in ListsUpTo(2 * Page), kw \in ListsUpTo(2 * Page) :
        \/ query.mode = "hybrid" /\ hits' \in Orders(RrfFuse(vec, kw))
        \/ query.mode = "rsf" /\ hits' \in Orders(RsfFuse(vec, kw))
  BY DEF FetchBoth, Unscored, VectorLists
<1>2. query' = query /\ stage' \in {"decay", "truncate"}
  BY DEF FetchBoth
<1>3. hits' \in Seq(HitRecords) /\ EachOnce(hits')
  BY <1>1, Fusions
<1>4. SearchShaped'
  BY <1>2, <1>3 DEF SearchIInv, SearchShaped, Stages
<1>5. ASSUME query.mode = "hybrid" PROVE HybridInv'
  <2>1. /\ Ranking(hits') /\ \A i \in DOMAIN hits' : InAList(hits'[i]) /\ Unadjusted(hits'[i])
    BY <1>1, <1>5, Fusions
  <2>2. \A i \in DOMAIN hits' : hits'[i] \in HitRecords
    BY <1>3, ElementOfSeq, LenProperties
  <2>3. \A i \in DOMAIN hits' : Adjusted(hits'[i], 1)
    BY <2>1, <2>2, UnitOne
  <2> QED
    BY <1>2, <2>1, <2>3 DEF HybridInv
<1> QED
  BY <1>2, <1>4, <1>5 DEF SearchIInv, HybridInv

LEMMA TruncateIInv == ASSUME SearchIInv, Truncate PROVE SearchIInv'
<1>1. query' = query /\ stage = "truncate" /\ stage' = "idle"
  BY DEF Truncate
<1>2. hits \in Seq(HitRecords) /\ Len(hits) \in Nat /\ Page \in Nat /\ DOMAIN hits = 1 .. Len(hits)
  BY SearchAssumption, LenProperties DEF SearchIInv, SearchShaped
<1>3. /\ hits' \in Seq(HitRecords) /\ DOMAIN hits' \subseteq DOMAIN hits
      /\ \A i \in DOMAIN hits' : hits'[i] = hits[i]
  <2>1. CASE Len(hits) > Page
    <3>1. hits' = SubSeq(hits, 1, Page)
      BY <2>1 DEF Truncate
    <3>2. /\ SubSeq(hits, 1, Page) \in Seq(HitRecords) /\ Len(SubSeq(hits, 1, Page)) = Page
          /\ \A i \in 1 .. Page : SubSeq(hits, 1, Page)[i] = hits[i]
      BY <1>2, <2>1
    <3>3. DOMAIN hits' = 1 .. Page
      BY <3>1, <3>2, LenProperties
    <3> QED
      BY <1>2, <2>1, <3>1, <3>2, <3>3
  <2>2. CASE ~(Len(hits) > Page)
    BY <1>2, <2>2 DEF Truncate
  <2> QED
    BY <2>1, <2>2
<1>4. EachOnce(hits)'
  BY <1>3 DEF SearchIInv, SearchShaped, EachOnce
<1>5. SearchShaped'
  BY <1>1, <1>3, <1>4 DEF SearchIInv, SearchShaped, Stages
<1>6. HybridInv'
  BY <1>1, <1>3 DEF SearchIInv, HybridInv, Ranking
<1> QED
  BY <1>5, <1>6 DEF SearchIInv

(* Decay takes no more than the floor leaves, and nothing of a critical    *)
(* memory.                                                                 *)
LEMMA DecayBounds ==
    ASSUME NEW h \in HitRecords, InAList(h), Unadjusted(h), NEW f \in Floor .. 100,
           NEW c \in BOOLEAN, c => f = 100,
           NEW x \in HitRecords, x.score = h.score * f, Fused(x) = Fused(h),
           x.critical = c, x.boosted = h.boosted
    PROVE  Decayed(x)
<1>1. PICK n \in Nat : n = Fused(h) /\ h.score = n /\ Fused(x) = n
  BY FusedNat DEF Unadjusted
<1>2. Floor \in Nat /\ f \in Nat /\ Floor <= f /\ f <= 100
  BY SearchAssumption
<1>3. n * Floor <= n * f /\ n * f <= n * 100
  BY <1>2, Monotone
<1>4. x.score = n * f /\ (x.critical => f = 100) /\ ~x.boosted
  BY <1>1 DEF Unadjusted
<1>5. n * Floor = Floor * n /\ n * 100 = 100 * n
  BY <1>2
<1> QED
  BY <1>1, <1>3, <1>4, <1>5 DEF Decayed

(* The results after every score has been multiplied and they were sorted. *)
LEMMA AllRescored ==
    ASSUME SearchShaped, NEW s, DOMAIN s = DOMAIN hits, hits' = Sorted(s),
           \A i \in DOMAIN hits : s[i] \in HitRecords /\ s[i].id = hits[i].id,
           s = [i \in DOMAIN s |-> s[i]]
    PROVE  /\ hits' \in Seq(HitRecords) /\ EachOnce(hits)' /\ Ranking(hits)'
           /\ \A p \in DOMAIN hits' : \E i \in DOMAIN hits : hits'[p] = s[i]
<1>1. PICK n \in Nat : DOMAIN hits = 1 .. n
  BY LenProperties DEF SearchShaped
<1>2. s \in [1 .. n -> HitRecords]
  BY <1>1
<1>3. s \in Seq(HitRecords)
  BY <1>2, SeqDef
<1>4. EachOnce(s)
  BY DEF SearchShaped, EachOnce
<1>5. /\ Sorted(s) \in Seq(HitRecords) /\ EachOnce(Sorted(s)) /\ Ranking(Sorted(s))
      /\ \A p \in DOMAIN Sorted(s) : \E i \in DOMAIN s : Sorted(s)[p] = s[i]
  BY <1>3, <1>4, Resorted
<1> QED
  BY <1>5 DEF EachOnce, Ranking

LEMMA ApplyDecayIInv == ASSUME SearchIInv, ApplyDecay PROVE SearchIInv'
<1>1. PICK critical \in SUBSET Found, c \in [IdsIn(hits) -> Composites] :
        hits' = Sorted([i \in DOMAIN hits |->
                  [hits[i] EXCEPT
                     !.score = @ * DecayFactor(hits[i].id \in critical, c[hits[i].id]),
                     !.critical = hits[i].id \in critical]])
  BY DEF ApplyDecay
<1>2. query' = query /\ stage = "decay" /\ stage' \in {"boost", "truncate"}
      /\ (query.mode = "hybrid" => stage' = "boost")
  BY DEF ApplyDecay
<1>3. PICK s : s = [i \in DOMAIN hits |->
                  [hits[i] EXCEPT
                     !.score = @ * DecayFactor(hits[i].id \in critical, c[hits[i].id]),
                     !.critical = hits[i].id \in critical]]
  OBVIOUS
<1>4. hits \in Seq(HitRecords) /\ \A i \in DOMAIN hits : hits[i] \in HitRecords
  BY ElementOfSeq, LenProperties DEF SearchIInv, SearchShaped
<1>5. ASSUME NEW i \in DOMAIN hits
      PROVE  /\ s[i] \in HitRecords /\ s[i].id = hits[i].id
             /\ query.mode = "hybrid" => InAList(s[i]) /\ Decayed(s[i])
  <2>1. PICK h \in HitRecords : h = hits[i]
    BY <1>4
  <2>2. PICK b \in BOOLEAN : b = (h.id \in critical)
    <3>1. (h.id \in critical) \in BOOLEAN
      OBVIOUS
    <3> QED
      BY <3>1, Zenon
  <2>3. c[h.id] \in Composites
    BY <2>1 DEF IdsIn
  <2>4. PICK f : f = DecayFactor(b, c[h.id])
    OBVIOUS
  <2>5. f \in Floor .. 100 /\ (b => f = 100) /\ f \in Nat
    <3>1. Floor \in 0 .. 100 /\ Multiplier(c[h.id]) \in Floor .. 100
      BY <2>3, MultiplierBounds, SearchAssumption
    <3>2. CASE b = TRUE
      <4>1. f = 100
        BY <2>4, <3>2 DEF DecayFactor
      <4> QED
        BY <3>1, <4>1
    <3>3. CASE b = FALSE
      <4>1. f = Multiplier(c[h.id])
        BY <2>4, <3>3 DEF DecayFactor
      <4> QED
        BY <3>1, <3>3, <4>1
    <3> QED
      BY <3>2, <3>3
  <2>6. s[i] = [h EXCEPT !.score = h.score * f, !.critical = b]
    BY <1>3, <2>1, <2>2, <2>4
  <2>7. PICK t, x : t \in Nat /\ t = h.score * f /\ x = s[i] /\ x = [h EXCEPT !.score = t, !.critical = b]
    <3>1. h.score * f \in Nat
      BY <2>5 DEF HitRecords
    <3> QED
      BY <2>6, <3>1
  <2>8. /\ x \in HitRecords /\ x.id = h.id /\ x.score = h.score * f /\ Fused(x) = Fused(h)
      /\ x.critical = b /\ x.boosted = h.boosted /\ (InAList(h) => InAList(x))
    <3>1. /\ x \in HitRecords /\ x.id = h.id /\ x.score = t /\ x.vec = h.vec /\ x.kw = h.kw
          /\ x.critical = b /\ x.boosted = h.boosted
      BY <2>7 DEF HitRecords
    <3> QED
      BY <2>7, <3>1, Rescored
  <2>9. ASSUME query.mode = "hybrid" PROVE InAList(x) /\ Decayed(x)
    <3>1. InAList(h) /\ Unadjusted(h)
      BY <1>2, <2>1, <2>9 DEF SearchIInv, HybridInv
    <3> QED
      BY <2>5, <2>8, <3>1, DecayBounds
  <2> QED
    BY <2>1, <2>7, <2>8, <2>9
<1>6. /\ hits' \in Seq(HitRecords) /\ EachOnce(hits)' /\ Ranking(hits)'
      /\ \A p \in DOMAIN hits' : \E i \in DOMAIN hits : hits'[p] = s[i]
  <2>1. DOMAIN s = DOMAIN hits /\ s = [i \in DOMAIN s |-> s[i]] /\ hits' = Sorted(s)
    BY <1>1, <1>3
  <2> QED
    BY <1>5, <2>1, AllRescored DEF SearchIInv
<1>7. SearchShaped'
  BY <1>2, <1>6 DEF SearchIInv, SearchShaped, Stages
<1>8. HybridInv'
  BY <1>2, <1>5, <1>6 DEF HybridInv
<1> QED
  BY <1>7, <1>8 DEF SearchIInv

LEMMA BoostIInv == ASSUME SearchIInv, ApplyRelativeTimeBoost PROVE SearchIInv'
<1>1. PICK recent \in SUBSET IdsIn(hits) :
        hits' = Sorted([i \in DOMAIN hits |->
                  LET in == hits[i].id \in recent
                  IN  [hits[i] EXCEPT !.score = @ * (IF in THEN Boost ELSE 100), !.boosted = in]])
  BY DEF ApplyRelativeTimeBoost
<1>2. query' = query /\ stage = "boost" /\ stage' \in {"truncate", "idle"}
  BY DEF ApplyRelativeTimeBoost
<1>3. PICK s : s = [i \in DOMAIN hits |->
                  LET in == hits[i].id \in recent
                  IN  [hits[i] EXCEPT !.score = @ * (IF in THEN Boost ELSE 100), !.boosted = in]]
  OBVIOUS
<1>4. hits \in Seq(HitRecords) /\ \A i \in DOMAIN hits : hits[i] \in HitRecords
  BY ElementOfSeq, LenProperties DEF SearchIInv, SearchShaped
<1>5. ASSUME NEW i \in DOMAIN hits
      PROVE  /\ s[i] \in HitRecords /\ s[i].id = hits[i].id
             /\ query.mode = "hybrid" => InAList(s[i]) /\ Adjusted(s[i], 10000)
  <2>1. PICK h \in HitRecords : h = hits[i]
    BY <1>4
  <2>2. PICK b \in BOOLEAN : b = (h.id \in recent)
    <3>1. (h.id \in recent) \in BOOLEAN
      OBVIOUS
    <3> QED
      BY <3>1, Zenon
  <2>3. PICK f \in Nat : f = IF b THEN 115 ELSE 100
    OBVIOUS
  <2>4. s[i] = [h EXCEPT !.score = h.score * f, !.boosted = b]
    BY <1>3, <2>1, <2>2, <2>3 DEF Boost
  <2>5. PICK t, x : t \in Nat /\ t = h.score * f /\ x = s[i] /\ x = [h EXCEPT !.score = t, !.boosted = b]
    <3>1. h.score * f \in Nat
      BY DEF HitRecords
    <3> QED
      BY <2>4, <3>1
  <2>6. /\ x \in HitRecords /\ x.id = h.id /\ x.score = h.score * f /\ Fused(x) = Fused(h)
      /\ x.critical = h.critical /\ x.boosted = b /\ (InAList(h) => InAList(x))
    <3>1. /\ x \in HitRecords /\ x.id = h.id /\ x.score = t /\ x.vec = h.vec /\ x.kw = h.kw
          /\ x.boosted = b /\ x.critical = h.critical
      BY <2>5 DEF HitRecords
    <3> QED
      BY <2>5, <3>1, Rescored
  <2>7. ASSUME query.mode = "hybrid" PROVE InAList(x) /\ Adjusted(x, 10000)
    <3>1. InAList(h) /\ Decayed(h)
      BY <1>2, <2>1, <2>7 DEF SearchIInv, HybridInv
    <3>2. PICK n \in Nat, m \in Nat, r \in Nat :
            n = Fused(h) /\ m = Floor * n /\ r = h.score /\ Fused(x) = n
      <4>1. Fused(h) \in Nat /\ Floor \in Nat /\ h.score \in Nat
        BY <3>1, FusedNat, SearchAssumption DEF HitRecords
      <4>2. PICK n \in Nat : n = Fused(h)
        BY <4>1
      <4>3. Floor * n \in Nat
        BY <4>1
      <4>4. Fused(x) = n
        BY <2>6, <4>2
      <4> QED
        BY <4>1, <4>2, <4>3, <4>4
    <3>3. m <= r /\ r <= 100 * n /\ (h.critical => r = 100 * n)
      BY <3>1, <3>2 DEF Decayed
    <3>4. x.score = r * f
      BY <2>6, <3>2
    <3>5. /\ m * 10000 <= 100 * x.score /\ 100 * x.score <= 115 * n * 10000
          /\ ~x.boosted => x.score <= n * 10000
          /\ x.critical => IF x.boosted THEN 100 * x.score >= 115 * n * 10000
                           ELSE x.score >= n * 10000
      <4>1. CASE b
        <5>1. x.score = r * 115 /\ x.boosted
          BY <2>3, <2>6, <3>4, <4>1
        <5> QED
          BY <2>6, <3>3, <5>1
      <4>2. CASE ~b
        <5>1. x.score = r * 100 /\ ~x.boosted
          BY <2>3, <2>6, <3>4, <4>2
        <5> QED
          BY <2>6, <3>3, <5>1
      <4> QED
        BY <4>1, <4>2
    <3> QED
      BY <2>6, <3>1, <3>2, <3>5 DEF Adjusted, Boost
  <2> QED
    BY <2>1, <2>5, <2>6, <2>7
<1>6. /\ hits' \in Seq(HitRecords) /\ EachOnce(hits)' /\ Ranking(hits)'
      /\ \A p \in DOMAIN hits' : \E i \in DOMAIN hits : hits'[p] = s[i]
  <2>1. DOMAIN s = DOMAIN hits /\ s = [i \in DOMAIN s |-> s[i]] /\ hits' = Sorted(s)
    BY <1>1, <1>3
  <2> QED
    BY <1>5, <2>1, AllRescored DEF SearchIInv
<1>7. SearchShaped'
  BY <1>2, <1>6 DEF SearchIInv, SearchShaped, Stages
<1>8. HybridInv'
  BY <1>2, <1>5, <1>6 DEF HybridInv
<1> QED
  BY <1>7, <1>8 DEF SearchIInv

LEMMA SearchNextIInv == SearchIInv /\ [SearchNext]_searchVars => SearchIInv'
<1> SUFFICES ASSUME SearchIInv, [SearchNext]_searchVars PROVE SearchIInv'
  OBVIOUS
<1>1. CASE UNCHANGED searchVars
  BY <1>1 DEF searchVars, SearchIInv, SearchShaped, HybridInv, Ranking, EachOnce
<1> QED
  BY <1>1, AskIInv, FetchOneIInv, FetchBothIInv, ApplyDecayIInv, BoostIInv, TruncateIInv,
     FailsIInv DEF SearchNext

(* Results have ids of rows, each once, and scores, after every sort and   *)
(* cut (hybrid_search_filtered).                                           *)
THEOREM SearchTypeCorrect == SearchSpec => []SearchTypeOK
<1>1. SearchIInv => SearchTypeOK
  <2> SUFFICES ASSUME SearchIInv PROVE SearchTypeOK
    OBVIOUS
  <2>1. \A i \in DOMAIN hits : hits[i] \in HitRecords
    BY ElementOfSeq, LenProperties DEF SearchIInv, SearchShaped
  <2> QED
    BY <2>1 DEF SearchIInv, SearchShaped, SearchTypeOK, EachOnce, HitRecords
<1> QED
  BY <1>1, SearchInitIInv, SearchNextIInv, PTL DEF SearchSpec

(* For any rrf_k, weights, floor and page: whatever age, use and dates do, *)
(* a row the fusion scored more than Boost / Floor times higher comes      *)
(* first, and a critical memory is not passed by a row the fusion scored   *)
(* lower, unless that one alone is from the time the query named           *)
(* (apply_decay, apply_relative_time_boost).                               *)
THEOREM OnlyAdjusted == SearchSpec => []SecondarySignalsOnlyAdjust
<1>1. SearchIInv => SecondarySignalsOnlyAdjust
  <2> SUFFICES ASSUME SearchIInv, query.mode = "hybrid", NEW i \in DOMAIN hits,
                      NEW j \in DOMAIN hits, i < j
               PROVE  /\ Floor * Fused(hits[j]) <= Boost * Fused(hits[i])
                      /\ hits[j].critical /\ (hits[i].boosted => hits[j].boosted) =>
                           Fused(hits[j]) <= Fused(hits[i])
    BY DEF SecondarySignalsOnlyAdjust
  <2>1. PICK g \in HitRecords, h \in HitRecords : g = hits[i] /\ h = hits[j]
    BY ElementOfSeq, LenProperties DEF SearchIInv, SearchShaped
  <2>2. InAList(g) /\ InAList(h) /\ g.score >= h.score
    BY <2>1 DEF SearchIInv, HybridInv, Ranking
  <2>3. PICK a \in Nat, b \in Nat, m \in Nat, k \in Nat :
          a = Fused(g) /\ b = Fused(h) /\ m = Floor * b /\ k = Floor * a
    <3>1. Fused(g) \in Nat /\ Fused(h) \in Nat /\ Floor \in Nat
      BY <2>2, FusedNat, SearchAssumption
    <3>2. Fused(h) * Floor \in Nat /\ Fused(g) * Floor \in Nat
      BY <3>1, Monotone
    <3> QED
      BY <3>1, <3>2
  <2>4. g.score \in Nat /\ h.score \in Nat
    BY DEF HitRecords
  <2>5. m <= 115 * a /\ (h.critical /\ (g.boosted => h.boosted) => b <= a)
    <3>1. ASSUME NEW u \in {1, 10000}, Adjusted(g, u), Adjusted(h, u)
          PROVE  m <= 115 * a /\ (h.critical /\ (g.boosted => h.boosted) => b <= a)
      <4>1. /\ m * u <= 100 * h.score /\ 100 * g.score <= 115 * a * u
            /\ ~g.boosted => g.score <= a * u
            /\ h.critical => IF h.boosted THEN 100 * h.score >= 115 * b * u ELSE h.score >= b * u
        BY <2>3, <3>1 DEF Adjusted, Boost
      <4>2. CASE u = 1
        BY <2>2, <2>4, <4>1, <4>2
      <4>3. CASE u = 10000
        BY <2>2, <2>4, <4>1, <4>3
      <4> QED
        BY <4>2, <4>3
    <3>2. CASE stage = "fetch"
      BY <3>2 DEF SearchIInv, HybridInv
    <3>3. CASE stage = "decay"
      <4>1. Unadjusted(g) /\ Unadjusted(h)
        BY <2>1, <3>3 DEF SearchIInv, HybridInv
      <4> QED
        BY <2>2, <3>1, <4>1, UnitOne
    <3>4. CASE stage = "boost"
      <4>1. /\ m <= h.score /\ g.score <= 100 * a /\ (h.critical => h.score = 100 * b)
        BY <2>1, <2>3, <3>4 DEF SearchIInv, HybridInv, Decayed
      <4> QED
        BY <2>2, <2>4, <4>1
    <3>5. CASE stage \in {"truncate", "idle"}
      <4>1. PICK u \in {1, 10000} : Adjusted(g, u) /\ Adjusted(h, u)
        BY <2>1, <3>5 DEF SearchIInv, HybridInv
      <4> QED
        BY <3>1, <4>1
    <3> QED
      BY <3>2, <3>3, <3>4, <3>5 DEF SearchIInv, SearchShaped, Stages
  <2> QED
    BY <2>1, <2>3, <2>5 DEF Boost
<1> QED
  BY <1>1, SearchInitIInv, SearchNextIInv, PTL DEF SearchSpec

-----------------------------------------------------------------------------
(* Platform: the services side by side.                                    *)

(* Each service takes its own steps, and the others leave it alone.        *)
LEMMA MemoriesAlone == PlatformSpec => MemoriesSpec
<1>1. PlatformInit => MemoriesInit
  BY DEF PlatformInit
<1>2. [PlatformNext]_platformVars => [MemoriesNext]_memoriesVars
  BY DEF platformVars, PlatformNext, MemoriesStep, ProceduresStep, DocumentsStep, TranscriptsStep, MigrationsStep, SearchStep, EmbeddingsStep, McpServerStep
<1> QED
  BY <1>1, <1>2, PTL DEF PlatformSpec, MemoriesSpec

LEMMA ProceduresAlone == PlatformSpec => ProceduresSpec
<1>1. PlatformInit => ProceduresInit
  BY DEF PlatformInit
<1>2. [PlatformNext]_platformVars => [ProceduresNext]_proceduresVars
  BY DEF platformVars, PlatformNext, MemoriesStep, ProceduresStep, DocumentsStep, TranscriptsStep, MigrationsStep, SearchStep, EmbeddingsStep, McpServerStep
<1> QED
  BY <1>1, <1>2, PTL DEF PlatformSpec, ProceduresSpec

LEMMA DocumentsAlone == PlatformSpec => DocumentsSpec
<1>1. PlatformInit => DocumentsInit
  BY DEF PlatformInit
<1>2. [PlatformNext]_platformVars => [DocumentsNext]_documentsVars
  BY DEF platformVars, PlatformNext, MemoriesStep, ProceduresStep, DocumentsStep, TranscriptsStep, MigrationsStep, SearchStep, EmbeddingsStep, McpServerStep
<1> QED
  BY <1>1, <1>2, PTL DEF PlatformSpec, DocumentsSpec

LEMMA TranscriptsAlone == PlatformSpec => TranscriptsSpec
<1>1. PlatformInit => TranscriptsInit
  BY DEF PlatformInit
<1>2. [PlatformNext]_platformVars => [TranscriptsNext]_transcriptsVars
  BY DEF platformVars, PlatformNext, MemoriesStep, ProceduresStep, DocumentsStep, TranscriptsStep, MigrationsStep, SearchStep, EmbeddingsStep, McpServerStep
<1> QED
  BY <1>1, <1>2, PTL DEF PlatformSpec, TranscriptsSpec

LEMMA MigrationsAlone == PlatformSpec => MigrationsSpec
<1>1. PlatformInit => MigrationsInit
  BY DEF PlatformInit
<1>2. [PlatformNext]_platformVars => [MigrationsNext]_migrationsVars
  BY DEF platformVars, PlatformNext, MemoriesStep, ProceduresStep, DocumentsStep, TranscriptsStep, MigrationsStep, SearchStep, EmbeddingsStep, McpServerStep
<1> QED
  BY <1>1, <1>2, PTL DEF PlatformSpec, MigrationsSpec

LEMMA SearchAlone == PlatformSpec => SearchSpec
<1>1. PlatformInit => SearchInit
  BY DEF PlatformInit
<1>2. [PlatformNext]_platformVars => [SearchNext]_searchVars
  BY DEF platformVars, PlatformNext, MemoriesStep, ProceduresStep, DocumentsStep, TranscriptsStep, MigrationsStep, SearchStep, EmbeddingsStep, McpServerStep
<1> QED
  BY <1>1, <1>2, PTL DEF PlatformSpec, SearchSpec

LEMMA EmbeddingsAlone == PlatformSpec => EmbeddingsSpec
<1>1. PlatformInit => EmbeddingsInit
  BY DEF PlatformInit
<1>2. [PlatformNext]_platformVars => [EmbeddingsNext]_embeddingsVars
  BY DEF platformVars, PlatformNext, MemoriesStep, ProceduresStep, DocumentsStep, TranscriptsStep, MigrationsStep, SearchStep, EmbeddingsStep, McpServerStep
<1> QED
  BY <1>1, <1>2, PTL DEF PlatformSpec, EmbeddingsSpec

LEMMA McpServerAlone == PlatformSpec => McpServerSpec
<1>1. PlatformInit => McpServerInit
  BY DEF PlatformInit
<1>2. [PlatformNext]_platformVars => [McpServerNext]_mcpServerVars
  BY DEF platformVars, PlatformNext, MemoriesStep, ProceduresStep, DocumentsStep, TranscriptsStep, MigrationsStep, SearchStep, EmbeddingsStep, McpServerStep
<1> QED
  BY <1>1, <1>2, PTL DEF PlatformSpec, McpServerSpec

(* Whatever the other services do, every table, cache, queue and running   *)
(* call of the platform keeps its type, and with it the keys: one row per  *)
(* path, one result per id, one cached vector per key.                     *)
THEOREM PlatformTypeCorrect == PlatformSpec => []PlatformTypeOK
<1>1. PlatformSpec => [](/\ MemoriesTypeOK /\ ProceduresTypeOK /\ DocumentsTypeOK
                         /\ TranscriptsTypeOK /\ MigrationsTypeOK /\ SearchTypeOK
                         /\ EmbeddingsTypeOK /\ McpServerTypeOK)
  BY MemoriesAlone, ProceduresAlone, DocumentsAlone, TranscriptsAlone,
     MigrationsAlone, SearchAlone, EmbeddingsAlone, McpServerAlone,
     MemoriesTypeCorrect, ProceduresTypeCorrect, DocumentsTypeCorrect, TranscriptsTypeCorrect,
     MigrationsTypeCorrect, SearchTypeCorrect, EmbeddingsTypeCorrect, McpServerTypeCorrect, PTL
<1> QED
  BY <1>1, PTL DEF PlatformTypeOK

(* The properties of the services hold while all of them run: a memory is  *)
(* served until something replaces it, copies do not pile up, what is gone *)
(* is not served and can be brought back, a procedure is promoted once,    *)
(* files, rows and vectors agree, transcripts are whole, an upgrade loses  *)
(* nothing, ranking is only adjusted, requests get their own answers and   *)
(* texts their own vectors.                                                *)
THEOREM PlatformSafe ==
    PlatformSpec =>
      /\ [](SomethingStands /\ NoCopiesPileUp /\ GoneIsNotServed /\ ForgetIsReversible
             /\ ResolvedMeansHidden)
      /\ [](PromotedOnce /\ StuckHasCause)
      /\ []VectorsMatchText /\ SyncedMeansMirrored /\ RepairedIsFound
      /\ [](ArchiveIsWhole /\ NoSecondRow /\ ConversationOnce)
      /\ [](UpgradeIsSafe /\ SecondarySignalsOnlyAdjust /\ AnsweredOnceInOrder
             /\ VectorIsWhatWasAsked)
<1>1. PlatformSpec => [](SomethingStands /\ NoCopiesPileUp /\ GoneIsNotServed
                         /\ ForgetIsReversible /\ ResolvedMeansHidden)
  BY MemoriesAlone, Stands, NoPile, StaysGone, Reversible, Resolved, PTL
<1>2. PlatformSpec => [](PromotedOnce /\ StuckHasCause)
  BY ProceduresAlone, Promotions, Causes, PTL
<1>3. PlatformSpec => []VectorsMatchText /\ SyncedMeansMirrored /\ RepairedIsFound
  BY DocumentsAlone, VectorsMatch, Mirrored, Repaired
<1>4. PlatformSpec => [](ArchiveIsWhole /\ NoSecondRow /\ ConversationOnce)
  BY TranscriptsAlone, ArchivesWhole, OneRowPerSource, Conversed, PTL
<1>5. PlatformSpec => [](UpgradeIsSafe /\ SecondarySignalsOnlyAdjust /\ AnsweredOnceInOrder
                         /\ VectorIsWhatWasAsked)
  BY MigrationsAlone, SearchAlone, McpServerAlone, EmbeddingsAlone, Upgrades, OnlyAdjusted,
     Answers, OwnVector, PTL
<1> QED
  BY <1>1, <1>2, <1>3, <1>4, <1>5
=============================================================================
