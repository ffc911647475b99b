--------------------------- MODULE MemoriesProofs ---------------------------
(***************************************************************************)
(* Theorems about Memories, for any memories, callers, dates and faults.   *)
(***************************************************************************)
EXTENDS MemoriesProps, FiniteSetTheorems, TLAPS

MemoryRows == [text : Texts, valid : Nat, created : Nat, by : Ids \cup {None}, invalid : BOOLEAN,
         cached : BOOLEAN, expires : Nat, forgotten : BOOLEAN, stash : Nat, given : Nat,
         tagged : BOOLEAN, unchecked : BOOLEAN]
Jobs == [op : Ops, text : Texts, id : Ids \cup {None}, other : Ids \cup {None},
         lapsed : BOOLEAN, todo : SUBSET Ids, embeds : BOOLEAN, unchecked : BOOLEAN]

MemoriesShaped ==
    /\ mem \in [Ids -> MemoryRows]
    /\ pc \in [Callers -> PC]
    /\ job \in [Callers -> Jobs]
    /\ today \in Nat /\ today >= 2

(* A row is invalid when it is superseded; only what is stored is; and the *)
(* date a row was given is its date or in its metadata.                    *)
MemoryOK(r) ==
    /\ r.invalid <=> r.by # None
    /\ r.by # None => r.created # None
    /\ r.expires # r.given => r.forgotten /\ r.stash = r.given

(* What a call works on is stored; a contradiction about to be marked has  *)
(* its loser superseded.                                                   *)
JobOK(c) ==
    /\ pc[c] \in {"insert", "embed"} => job[c].other \in Stored \cup {None}
    /\ pc[c] \in {"embed", "restated", "detect", "pairs", "read_b", "supersede", "mark"} =>
         job[c].id \in Stored
    /\ pc[c] \in {"restated", "read_b", "supersede", "mark"} => job[c].other \in Stored
    /\ pc[c] = "pairs" => job[c].todo \subseteq Stored
    /\ pc[c] = "mark" /\ job[c].op # "note" => mem[job[c].other].by # None

PairsStored ==
    /\ DOMAIN contradiction = Pairs
    /\ \A p \in Pairs : contradiction[p] # "none" => p \subseteq Stored

(* Superseded, forgotten, or tagged so by the one who stored it. *)
Hides(r, day) == \/ r.by # None \/ r.tagged
                 \/ r.forgotten /\ r.expires # None /\ r.expires < day

Hidden(m) == m \in Stored /\ Hides(mem[m], today)

MemoriesIInv ==
    /\ MemoriesShaped
    /\ \A m \in Ids : MemoryOK(mem[m])
    /\ \A c \in Callers : JobOK(c)
    /\ PairsStored
    /\ \A m \in Stored : mem[m].forgotten => Hidden(m)
    /\ \A m \in gone : Hidden(m)
    /\ \A k \in kept : \A m \in k[1] \ {k[2]} : m \in Ids /\ mem[m].by # None

(* No step unstores a memory, stands a superseded one up again or changes  *)
(* the date of a forgotten one; what it forgets, it hides.                 *)
GrowsTo(old, new) ==
    /\ new.created # None /\ (old.by # None => new.by # None) /\ (old.tagged => new.tagged)
    /\ old.forgotten => new.forgotten /\ new.expires = old.expires
    /\ new.forgotten => old.forgotten \/ Hides(new, today')

Grows ==
    /\ \A m \in Stored : m \in Ids /\ GrowsTo(mem[m], mem'[m])
    /\ \A m \in Stored' \ Stored : mem'[m].forgotten => mem'[m].tagged

-----------------------------------------------------------------------------
LEMMA IdsAreNotNone == None \notin Ids /\ \A m \in Ids : m # None /\ m \in Nat
BY MemoriesAssumption DEF None

LEMMA NothingYet ==
    /\ NoRow \in MemoryRows /\ NoRow.by = None /\ NoRow.created = None /\ MemoryOK(NoRow)
    /\ NoRow.invalid = FALSE /\ NoRow.stash = None
    /\ NoJob \in Jobs
<1>0. (CHOOSE t \in Texts : TRUE) \in Texts
  BY MemoriesAssumption
<1>1. NoRow \in MemoryRows
  BY <1>0 DEF NoRow, MemoryRows, None
<1>2. /\ NoRow.by = None /\ NoRow.created = None /\ MemoryOK(NoRow)
      /\ NoRow.invalid = FALSE /\ NoRow.stash = None
  BY DEF NoRow, MemoryOK, None
<1>3. NoRow.text \in Texts
  BY <1>0 DEF NoRow
<1>4. NoJob \in Jobs
  BY <1>3 DEF NoJob, Jobs, Ops, None
<1> QED
  BY <1>1, <1>2, <1>4

LEMMA MemoriesInitIInv == MemoriesInit => MemoriesIInv
<1> SUFFICES ASSUME MemoriesInit PROVE MemoriesIInv
  OBVIOUS
<1>1. MemoriesShaped
  BY NothingYet DEF MemoriesInit, MemoriesShaped, PC
<1>2. \A m \in Ids : MemoryOK(mem[m])
  BY NothingYet DEF MemoriesInit
<1>3. \A c \in Callers : JobOK(c)
  BY DEF MemoriesInit, JobOK
<1>4. Stored = {}
  BY NothingYet DEF MemoriesInit, Stored
<1> QED
  BY <1>1, <1>2, <1>3, <1>4 DEF MemoriesInit, MemoriesIInv, PairsStored

(* One row changes. *)
LEMMA RowStep ==
    ASSUME MemoriesIInv, NEW m \in Ids, NEW x \in MemoryRows, mem' = [mem EXCEPT ![m] = x], MemoryOK(x),
           x.created # None,
           IF m \in Stored THEN GrowsTo(mem[m], x) ELSE x.forgotten => x.tagged
    PROVE  /\ mem' \in [Ids -> MemoryRows] /\ \A n \in Ids : MemoryOK(mem'[n])
           /\ Grows /\ Stored' = Stored \cup {m} /\ mem'[m] = x
<1>1. mem \in [Ids -> MemoryRows] /\ \A n \in Ids : MemoryOK(mem[n])
  BY DEF MemoriesIInv, MemoriesShaped
<1>2. /\ mem' \in [Ids -> MemoryRows] /\ mem'[m] = x
      /\ \A n \in Ids \ {m} : mem'[n] = mem[n]
  BY <1>1
<1>3. \A n \in Ids : MemoryOK(mem'[n])
  BY <1>1, <1>2
<1>4. Stored' = Stored \cup {m}
  BY <1>2 DEF Stored
<1>5. \A n \in Stored : n \in Ids /\ GrowsTo(mem[n], mem'[n])
  BY <1>2 DEF Stored, GrowsTo
<1>6. \A n \in Stored' \ Stored : mem'[n].forgotten => mem'[n].tagged
  BY <1>2, <1>4
<1> QED
  BY <1>2, <1>3, <1>4, <1>5, <1>6 DEF Grows

LEMMA NoRowStep ==
    ASSUME MemoriesIInv, mem' = mem
    PROVE  /\ mem' \in [Ids -> MemoryRows] /\ \A n \in Ids : MemoryOK(mem'[n])
           /\ Grows /\ Stored' = Stored
BY DEF MemoriesIInv, MemoriesShaped, Grows, GrowsTo, Stored

LEMMA Superseding ==
    ASSUME MemoriesIInv, NEW old \in Stored, NEW new \in Ids, Supersede(old, new)
    PROVE  \E x \in MemoryRows : /\ mem' = [mem EXCEPT ![old] = x] /\ MemoryOK(x)
                                 /\ x.by = new /\ x.invalid /\ x.created # None
                                 /\ GrowsTo(mem[old], x)
<1> DEFINE x == [mem[old] EXCEPT !.by = new, !.invalid = TRUE]
<1>1. /\ old \in Ids /\ mem \in [Ids -> MemoryRows] /\ mem[old] \in MemoryRows
      /\ MemoryOK(mem[old]) /\ mem[old].created # None /\ new # None
  BY IdsAreNotNone DEF MemoriesIInv, MemoriesShaped, Stored
<1>2. mem' = [mem EXCEPT ![old] = x]
  BY <1>1 DEF Supersede
<1>3. /\ x \in MemoryRows /\ x.by = new /\ x.invalid = TRUE /\ x.created = mem[old].created
      /\ x.forgotten = mem[old].forgotten /\ x.expires = mem[old].expires
      /\ x.stash = mem[old].stash /\ x.given = mem[old].given /\ x.tagged = mem[old].tagged
  BY <1>1 DEF MemoryRows
<1> HIDE DEF x
<1>4. MemoryOK(x) /\ GrowsTo(mem[old], x)
  BY <1>1, <1>3 DEF MemoryOK, GrowsTo
<1> QED
  BY <1>1, <1>2, <1>3, <1>4

(* What the rest of the invariant needs, once the rows are settled.        *)
LEMMA Settled ==
    ASSUME MemoriesIInv, mem' \in [Ids -> MemoryRows], \A m \in Ids : MemoryOK(mem'[m]), Grows,
           today' \in Nat, today' >= today,
           NEW c \in Callers, NEW to \in PC, NEW j \in Jobs,
           pc' = [pc EXCEPT ![c] = to], job' = [job EXCEPT ![c] = j],
           JobOK(c)',
           PairsStored',
           \A m \in gone' : m \in gone \/ Hidden(m)',
           \A k \in kept' : k \in kept \/ \A m \in k[1] \ {k[2]} : m \in Ids /\ mem'[m].by # None
    PROVE  MemoriesIInv'
<1>1. /\ pc' \in [Callers -> PC] /\ job' \in [Callers -> Jobs]
      /\ \A d \in Callers \ {c} : pc'[d] = pc[d] /\ job'[d] = job[d]
  BY DEF MemoriesIInv, MemoriesShaped
<1>2. MemoriesShaped'
  BY <1>1 DEF MemoriesIInv, MemoriesShaped
<1>3. Stored \subseteq Stored'
  BY DEF Grows, GrowsTo, Stored
<1>4. ASSUME NEW d \in Callers \ {c} PROVE JobOK(d)'
  <2>1. JobOK(d) /\ pc'[d] = pc[d] /\ job'[d] = job[d]
    BY <1>1 DEF MemoriesIInv
  <2> QED
    BY <1>3, <2>1 DEF JobOK, Grows, GrowsTo
<1>5. ASSUME NEW m, Hidden(m) PROVE Hidden(m)'
  <2>1. m \in Stored /\ Hides(mem[m], today) /\ today \in Nat
    BY <1>5 DEF Hidden, MemoriesIInv, MemoriesShaped
  <2>2. m \in Ids /\ mem[m] \in MemoryRows /\ mem'[m] \in MemoryRows
    BY <2>1 DEF Stored, MemoriesIInv, MemoriesShaped
  <2>3. mem[m].expires \in Nat /\ GrowsTo(mem[m], mem'[m])
    BY <2>1, <2>2 DEF MemoryRows, Grows
  <2>4. Hides(mem'[m], today')
    BY <2>1, <2>3 DEF Hides, GrowsTo
  <2> QED
    BY <1>3, <2>1, <2>4 DEF Hidden
<1>7. ASSUME NEW m \in Stored', mem'[m].forgotten PROVE Hidden(m)'
  <2>1. CASE m \in Stored /\ mem[m].forgotten
    BY <1>5, <2>1 DEF MemoriesIInv
  <2>2. CASE m \in Stored /\ ~mem[m].forgotten
    BY <1>7, <2>2 DEF Hidden, Grows, GrowsTo
  <2>3. CASE m \notin Stored
    BY <1>7, <2>3 DEF Hidden, Hides, Grows
  <2> QED
    BY <2>1, <2>2, <2>3
<1>6. ASSUME NEW k \in kept, NEW m \in k[1] \ {k[2]} PROVE m \in Ids /\ mem'[m].by # None
  <2>1. m \in Ids /\ mem[m].by # None /\ MemoryOK(mem[m])
    BY DEF MemoriesIInv
  <2>2. m \in Stored
    BY <2>1 DEF MemoryOK, Stored
  <2> QED
    BY <2>1, <2>2 DEF Grows, GrowsTo
<1> QED
  BY <1>2, <1>4, <1>5, <1>6, <1>7 DEF MemoriesIInv

(* Steps of one call that change no table but contradictions. *)
LEMMA MemoriesLocalStep ==
    ASSUME MemoriesIInv, UNCHANGED <<mem, today, gone, kept>>, PairsStored',
           NEW c \in Callers, NEW to \in PC, NEW j \in Jobs,
           pc' = [pc EXCEPT ![c] = to], job' = [job EXCEPT ![c] = IF to = "idle" THEN NoJob ELSE j],
           to # "idle" => JobOK(c)'
    PROVE  MemoriesIInv'
<1>1. PICK i \in Jobs : job' = [job EXCEPT ![c] = i]
  BY NothingYet
<1>2. pc'[c] = to
  BY DEF MemoriesIInv, MemoriesShaped
<1>3. JobOK(c)'
  BY <1>2 DEF JobOK
<1>4. today' \in Nat /\ today' >= today
  BY DEF MemoriesIInv, MemoriesShaped
<1> QED
  BY <1>1, <1>3, <1>4, NoRowStep, Settled

(* What a call's new place and variables are. *)
LEMMA Gone ==
    ASSUME MemoriesIInv, NEW c \in Callers, NEW to, NEW j, Goto(c, to, j)
    PROVE  /\ pc' = [pc EXCEPT ![c] = to] /\ pc'[c] = to
           /\ job' = [job EXCEPT ![c] = IF to = "idle" THEN NoJob ELSE j]
           /\ to # "idle" => job'[c] = j
BY DEF MemoriesIInv, MemoriesShaped, Goto

LEMMA SamePairs == ASSUME MemoriesIInv, contradiction' = contradiction, Stored \subseteq Stored'
                   PROVE  PairsStored'
BY DEF MemoriesIInv, PairsStored

LEMMA StoredSame == mem' = mem => Stored' = Stored
BY DEF Stored

-----------------------------------------------------------------------------
LEMMA BeginMemoryStoreIInv ==
    ASSUME MemoriesIInv, NEW c \in Callers, BeginMemoryStore(c)
    PROVE  MemoriesIInv'
<1>1. PICK t \in Texts, embeds \in BOOLEAN, unchecked \in BOOLEAN,
           old \in VectorSearch \cup {None} :
        Goto(c, "insert", [NoJob EXCEPT !.op = "memory_store", !.text = t, !.other = old,
                                        !.embeds = embeds, !.unchecked = unchecked])
  BY DEF BeginMemoryStore, NearDuplicate, Begin, Busy
<1> DEFINE j == [NoJob EXCEPT !.op = "memory_store", !.text = t, !.other = old,
                              !.embeds = embeds, !.unchecked = unchecked]
<1>2. UNCHANGED <<mem, contradiction, today, gone, kept>>
  BY DEF BeginMemoryStore, tables
<1>3. old \in Stored \cup {None} /\ old \in Ids \cup {None}
  BY DEF VectorSearch, Stored
<1>4. j \in Jobs /\ j.other = old
  BY <1>3, NothingYet DEF Jobs, Ops
<1>5. Goto(c, "insert", j)
  BY <1>1
<1> HIDE DEF j
<1>6. JobOK(c)'
  BY <1>2, <1>3, <1>4, <1>5, Gone, StoredSame DEF JobOK
<1> QED
  BY <1>2, <1>4, <1>5, <1>6, Gone, MemoriesLocalStep, SamePairs, StoredSame DEF PC

LEMMA BeginPostIInv == ASSUME MemoriesIInv, NEW c \in Callers, BeginPost(c) PROVE MemoriesIInv'
<1>1. PICK t \in Texts, embeds \in BOOLEAN :
        Goto(c, "insert", [NoJob EXCEPT !.op = "POST", !.text = t, !.embeds = embeds,
                                        !.unchecked = TRUE])
  BY DEF BeginPost, Begin
<1> DEFINE j == [NoJob EXCEPT !.op = "POST", !.text = t, !.embeds = embeds, !.unchecked = TRUE]
<1>2. UNCHANGED <<mem, contradiction, today, gone, kept>>
  BY DEF BeginPost, tables
<1>3. NoJob.other = None
  BY DEF NoJob
<1>4. j \in Jobs /\ j.other = None
  BY <1>3, NothingYet DEF Jobs, Ops
<1>5. Goto(c, "insert", j)
  BY <1>1
<1> HIDE DEF j
<1>6. JobOK(c)'
  BY <1>4, <1>5, Gone DEF JobOK
<1> QED
  BY <1>2, <1>4, <1>5, <1>6, Gone, MemoriesLocalStep, SamePairs, StoredSame DEF PC

LEMMA StoredCount == MemoriesIInv => Epoch + 1 + Cardinality(Stored) \in Nat \ {0}
<1> SUFFICES ASSUME MemoriesIInv PROVE Epoch + 1 + Cardinality(Stored) \in Nat \ {0}
  OBVIOUS
<1>1. IsFiniteSet(Stored)
  BY MemoriesAssumption, FS_Subset DEF Stored
<1>2. Cardinality(Stored) \in Nat
  BY <1>1, FS_CardinalityType
<1> QED
  BY <1>2, MemoriesAssumption

LEMMA InsertMemoryIInv == ASSUME MemoriesIInv, NEW c \in Callers, InsertMemory(c) PROVE MemoriesIInv'
<1>1. PICK m \in Ids \ Stored, v \in ValidAts \cup {None}, d \in Dates \cup {None},
           tagged \in BOOLEAN :
        /\ job[c].op = "POST" => v = None /\ d = None
        /\ mem' = [mem EXCEPT ![m] =
             [NoRow EXCEPT !.text = job[c].text, !.valid = v, !.expires = d, !.given = d,
                           !.created = Epoch + 1 + Cardinality(Stored),
                           !.forgotten = tagged, !.tagged = tagged,
                           !.unchecked = job[c].unchecked]]
        /\ Goto(c, IF job[c].embeds THEN "embed" ELSE "idle", [job[c] EXCEPT !.id = m])
  BY DEF InsertMemory
<1> DEFINE x == [NoRow EXCEPT !.text = job[c].text, !.valid = v, !.expires = d, !.given = d,
                              !.created = Epoch + 1 + Cardinality(Stored),
                              !.forgotten = tagged, !.tagged = tagged,
                              !.unchecked = job[c].unchecked]
           j == [job[c] EXCEPT !.id = m]
           to == IF job[c].embeds THEN "embed" ELSE "idle"
<1>2. UNCHANGED <<contradiction, today, gone, kept>> /\ pc[c] = "insert"
  BY DEF InsertMemory, ghosts
<1>3. v \in Nat /\ d \in Nat
  BY MemoriesAssumption DEF None
<1>4. job[c] \in Jobs /\ job[c].text \in Texts /\ job[c].other \in Stored \cup {None}
      /\ job[c].unchecked \in BOOLEAN
  <2>1. job[c] \in Jobs /\ JobOK(c)
    BY DEF MemoriesIInv, MemoriesShaped
  <2> QED
    BY <1>2, <2>1 DEF Jobs, JobOK
<1>5. /\ x \in MemoryRows /\ x.by = None /\ x.invalid = FALSE /\ x.created # None
      /\ x.expires = x.given /\ x.forgotten = x.tagged
  BY <1>3, <1>4, NothingYet, StoredCount DEF MemoryRows, None
<1>6. j \in Jobs /\ j.id = m /\ j.other = job[c].other
  BY <1>4 DEF Jobs
<1>11. to \in {"embed", "idle"}
  OBVIOUS
<1> HIDE DEF x, j, to
<1>7. MemoryOK(x)
  BY <1>5 DEF MemoryOK
<1>8. mem' = [mem EXCEPT ![m] = x] /\ Goto(c, to, j)
  BY <1>1 DEF x, j, to
<1>9. /\ mem' \in [Ids -> MemoryRows] /\ \A n \in Ids : MemoryOK(mem'[n])
      /\ Grows /\ Stored' = Stored \cup {m}
  BY <1>5, <1>7, <1>8, RowStep
<1>10. JobOK(c)'
  BY <1>4, <1>6, <1>8, <1>9, <1>11, Gone DEF JobOK
<1>12. PICK i \in Jobs : job' = [job EXCEPT ![c] = i]
  BY <1>6, <1>8, Gone, NothingYet
<1>13. to \in PC /\ pc' = [pc EXCEPT ![c] = to]
  BY <1>8, <1>11, Gone DEF PC
<1>14. today' \in Nat /\ today' >= today
  BY <1>2 DEF MemoriesIInv, MemoriesShaped
<1>15. PairsStored'
  BY <1>2, <1>9, SamePairs
<1> QED
  BY <1>2, <1>9, <1>10, <1>12, <1>13, <1>14, <1>15, Settled

LEMMA CacheVectorIInv == ASSUME MemoriesIInv, NEW c \in Callers, CacheVector(c) PROVE MemoriesIInv'
<1> DEFINE m == job[c].id
           x == [mem[m] EXCEPT !.cached = TRUE]
           to == IF job[c].op = "POST" THEN "detect"
                 ELSE IF job[c].other # None THEN "restated" ELSE "idle"
<1>1. /\ pc[c] = "embed" /\ mem' = [mem EXCEPT ![m].cached = TRUE] /\ Goto(c, to, job[c])
      /\ UNCHANGED <<contradiction, today, gone, kept>>
  BY DEF CacheVector, ghosts
<1>2. /\ m \in Stored /\ m \in Ids /\ job[c].other \in Stored \cup {None}
      /\ job[c] \in Jobs /\ mem \in [Ids -> MemoryRows] /\ mem[m] \in MemoryRows /\ MemoryOK(mem[m])
      /\ mem[m].created # None
  BY <1>1 DEF MemoriesIInv, MemoriesShaped, JobOK, Stored
<1>3. mem' = [mem EXCEPT ![m] = x]
  BY <1>1, <1>2
<1>4. /\ x \in MemoryRows /\ x.by = mem[m].by /\ x.invalid = mem[m].invalid
      /\ x.created = mem[m].created /\ x.expires = mem[m].expires
      /\ x.forgotten = mem[m].forgotten /\ x.stash = mem[m].stash /\ x.given = mem[m].given
      /\ x.tagged = mem[m].tagged
  BY <1>2 DEF MemoryRows
<1> HIDE DEF x, m, to
<1>5. MemoryOK(x) /\ GrowsTo(mem[m], x)
  BY <1>2, <1>4 DEF MemoryOK, GrowsTo
<1>6. /\ mem' \in [Ids -> MemoryRows] /\ \A n \in Ids : MemoryOK(mem'[n])
      /\ Grows /\ Stored' = Stored \cup {m}
  BY <1>2, <1>3, <1>4, <1>5, RowStep
<1>7. PICK j \in Jobs : job' = [job EXCEPT ![c] = j]
  BY <1>1, <1>2, Gone, NothingYet
<1>8. JobOK(c)'
  BY <1>1, <1>2, <1>6, Gone DEF JobOK, to, m
<1>9. to \in PC /\ pc' = [pc EXCEPT ![c] = to]
  BY <1>1, Gone DEF to, PC
<1>10. today' \in Nat /\ today' >= today
  BY <1>1 DEF MemoriesIInv, MemoriesShaped
<1>11. PairsStored'
  BY <1>1, <1>6, SamePairs
<1> QED
  BY <1>1, <1>6, <1>7, <1>8, <1>9, <1>10, <1>11, Settled

(* A caller whose loser or duplicate is superseded. *)
LEMMA SupersededStep ==
    ASSUME MemoriesIInv, NEW c \in Callers, job[c].id \in Stored, job[c].other \in Stored,
           Supersede(job[c].other, job[c].id),
           \/ Goto(c, "idle", NoJob) /\ gone' = gone \cup {job[c].other}
           \/ Goto(c, "mark", job[c]) /\ gone' = gone,
           UNCHANGED <<contradiction, today, kept>>
    PROVE  MemoriesIInv'
<1>0. PICK old \in Stored : old = job[c].other
  OBVIOUS
<1>1. job[c].id \in Ids /\ old \in Ids /\ job[c] \in Jobs
  BY DEF MemoriesIInv, MemoriesShaped, Stored
<1>2. PICK x \in MemoryRows : /\ mem' = [mem EXCEPT ![old] = x] /\ MemoryOK(x)
                              /\ x.by = job[c].id /\ x.invalid /\ x.created # None
                              /\ GrowsTo(mem[old], x)
  BY <1>0, <1>1, Superseding
<1>3. job[c].id # None
  BY <1>1, IdsAreNotNone
<1>4. /\ mem' \in [Ids -> MemoryRows] /\ \A n \in Ids : MemoryOK(mem'[n])
      /\ Grows /\ Stored' = Stored \cup {old} /\ mem'[old] = x
  BY <1>1, <1>2, <1>3, RowStep
<1>5. Hidden(old)'
  <2>1. old \in Stored' /\ mem'[old].by # None
    BY <1>2, <1>3, <1>4
  <2> QED
    BY <2>1 DEF Hidden, Hides
<1>6. \A m \in gone' : m \in gone \/ Hidden(m)'
  BY <1>0, <1>5
<1>7. PairsStored'
  BY <1>4, SamePairs
<1>8. today' \in Nat /\ today' >= today
  BY DEF MemoriesIInv, MemoriesShaped
<1>9. CASE Goto(c, "idle", NoJob)
  <2>1. JobOK(c)'
    BY <1>9, Gone DEF JobOK
  <2>2. pc' = [pc EXCEPT ![c] = "idle"] /\ job' = [job EXCEPT ![c] = NoJob]
    BY <1>9 DEF Goto
  <2> QED
    BY <1>4, <1>6, <1>7, <1>8, <2>1, <2>2, NothingYet, Settled DEF PC
<1>10. CASE Goto(c, "mark", job[c])
  <2>1. JobOK(c)'
    BY <1>0, <1>1, <1>2, <1>3, <1>4, <1>10, Gone DEF JobOK
  <2>2. pc' = [pc EXCEPT ![c] = "mark"] /\ job' = [job EXCEPT ![c] = job[c]]
    BY <1>10 DEF Goto
  <2> QED
    BY <1>1, <1>4, <1>6, <1>7, <1>8, <2>1, <2>2, Settled DEF PC
<1> QED
  BY <1>9, <1>10

LEMMA SupersedeRestatedIInv ==
    ASSUME MemoriesIInv, NEW c \in Callers, SupersedeRestated(c) PROVE MemoriesIInv'
<1>1. job[c].id \in Stored /\ job[c].other \in Stored
  BY DEF SupersedeRestated, MemoriesIInv, JobOK
<1>2. /\ Supersede(job[c].other, job[c].id)
      /\ Goto(c, "idle", NoJob) /\ gone' = gone \cup {job[c].other}
      /\ UNCHANGED <<contradiction, today, kept>>
  BY DEF SupersedeRestated
<1> QED
  BY <1>1, <1>2, SupersededStep

LEMMA SupersedeLoserIInv ==
    ASSUME MemoriesIInv, NEW c \in Callers, SupersedeLoser(c)
    PROVE  MemoriesIInv'
<1>1. job[c].id \in Stored /\ job[c].other \in Stored
  BY DEF SupersedeLoser, MemoriesIInv, JobOK
<1>2. /\ Supersede(job[c].other, job[c].id)
      /\ Goto(c, "mark", job[c]) /\ gone' = gone
      /\ UNCHANGED <<contradiction, today, kept>>
  BY DEF SupersedeLoser, ghosts
<1> QED
  BY <1>1, <1>2, SupersededStep

LEMMA DetectIInv == ASSUME MemoriesIInv, NEW c \in Callers, Detect(c) PROVE MemoriesIInv'
<1> DEFINE Found(m) == IF mem[m].cached THEN Candidates(m) ELSE {}
           To(m)    == IF Found(m) = {} THEN "idle" ELSE "pairs"
           J(m)     == [NoJob EXCEPT !.op = "detect", !.id = m, !.todo = Found(m)]
<1>1. PICK m \in IF pc[c] = "detect" THEN {job[c].id} ELSE Stored : Goto(c, To(m), J(m))
  BY DEF Detect, Begin
<1>2. UNCHANGED <<mem, contradiction, today, gone, kept>>
  BY DEF Detect, tables
<1>3. m \in Stored /\ m \in Ids
  BY <1>1 DEF MemoriesIInv, JobOK, Stored
<1>4. Found(m) \subseteq Stored /\ Found(m) \subseteq Ids
  BY DEF Candidates, VectorSearch, Stored
<1> HIDE DEF Found
<1>5. J(m) \in Jobs /\ J(m).id = m /\ J(m).todo = Found(m)
  BY <1>3, <1>4, NothingYet DEF Jobs, Ops
<1>6. To(m) \in PC /\ To(m) \in {"idle", "pairs"}
  BY DEF PC
<1> HIDE DEF To, J
<1>7. To(m) # "idle" => JobOK(c)'
  BY <1>1, <1>2, <1>3, <1>4, <1>5, <1>6, Gone, StoredSame DEF JobOK
<1> QED
  BY <1>1, <1>2, <1>5, <1>6, <1>7, Gone, MemoriesLocalStep, SamePairs, StoredSame

LEMMA StorePairIInv == ASSUME MemoriesIInv, NEW c \in Callers, StorePair(c) PROVE MemoriesIInv'
<1>1. PICK o \in job[c].todo :
        /\ UpsertPair({job[c].id, o})
        /\ Goto(c, IF job[c].todo \ {o} = {} THEN "idle" ELSE "pairs",
                [job[c] EXCEPT !.todo = job[c].todo \ {o}])
  BY DEF StorePair
<1> DEFINE j == [job[c] EXCEPT !.todo = job[c].todo \ {o}]
           to == IF job[c].todo \ {o} = {} THEN "idle" ELSE "pairs"
<1>2. UNCHANGED <<mem, today, gone, kept>> /\ pc[c] = "pairs"
  BY DEF StorePair, ghosts
<1>3. job[c].id \in Stored /\ job[c].todo \subseteq Stored /\ job[c] \in Jobs
  BY <1>2 DEF MemoriesIInv, JobOK, MemoriesShaped
<1>4. PairsStored'
  <2>1. contradiction' = [contradiction EXCEPT ![{job[c].id, o}] = IF @ = "none" THEN "open" ELSE @]
    BY <1>1 DEF UpsertPair
  <2>2. {job[c].id, o} \subseteq Stored
    BY <1>3
  <2> QED
    BY <1>2, <2>1, <2>2, StoredSame DEF MemoriesIInv, PairsStored
<1>5. j \in Jobs /\ j.id = job[c].id /\ j.todo = job[c].todo \ {o}
  BY <1>3 DEF Jobs
<1>6. to \in PC /\ to \in {"idle", "pairs"} /\ Goto(c, to, j)
  BY <1>1 DEF PC
<1> HIDE DEF j, to
<1>7. to # "idle" => JobOK(c)'
  BY <1>2, <1>3, <1>5, <1>6, Gone, StoredSame DEF JobOK
<1> QED
  BY <1>2, <1>4, <1>5, <1>6, <1>7, Gone, MemoriesLocalStep

LEMMA BeginResolveIInv == ASSUME MemoriesIInv, NEW c \in Callers, BeginResolve(c) PROVE MemoriesIInv'
<1>0. PICK p \in Pairs, keep \in Ids \cup {None} :
        /\ contradiction[p] # "none"
        /\ \E a \in p, b \in p :
             Goto(c, IF keep = None THEN "mark" ELSE "supersede",
                  [NoJob EXCEPT !.op = IF keep = None THEN "note" ELSE "keep",
                                !.id = a, !.other = b])
  BY DEF BeginResolve, Begin
<1>1. PICK a \in p, b \in p :
        Goto(c, IF keep = None THEN "mark" ELSE "supersede",
             [NoJob EXCEPT !.op = IF keep = None THEN "note" ELSE "keep",
                           !.id = a, !.other = b])
  BY <1>0
<1> DEFINE op == IF keep = None THEN "note" ELSE "keep"
           to == IF keep = None THEN "mark" ELSE "supersede"
           j == [NoJob EXCEPT !.op = op, !.id = a, !.other = b]
<1>2. UNCHANGED <<mem, contradiction, today, gone, kept>>
  BY DEF BeginResolve, tables
<1>3. a \in Stored /\ b \in Stored /\ a \in Ids /\ b \in Ids
  BY <1>0, <1>1 DEF MemoriesIInv, PairsStored, Stored, Pairs
<1>4. /\ op \in Ops /\ to \in {"mark", "supersede"} /\ (to = "mark" => op = "note")
      /\ to \in PC
  BY DEF Ops, PC
<1> HIDE DEF op, to
<1>5. j \in Jobs /\ j.id = a /\ j.other = b /\ j.op = op
  BY <1>3, <1>4, NothingYet DEF Jobs
<1>6. Goto(c, to, j)
  BY <1>1 DEF op, to
<1> HIDE DEF j
<1>7. JobOK(c)'
  BY <1>2, <1>3, <1>4, <1>5, <1>6, Gone, StoredSame DEF JobOK
<1> QED
  BY <1>2, <1>4, <1>5, <1>6, <1>7, Gone, MemoriesLocalStep, SamePairs, StoredSame

LEMMA BeginAutoIInv == ASSUME MemoriesIInv, NEW c \in Callers, BeginAuto(c) PROVE MemoriesIInv'
<1>0. PICK p \in Pairs :
        /\ contradiction[p] # "none"
        /\ \E a \in p, b \in p :
             Goto(c, "read_b", [NoJob EXCEPT !.op = "auto", !.id = a, !.other = b,
                                             !.lapsed = mem[a].invalid])
  BY DEF BeginAuto, Begin
<1>1. PICK a \in p, b \in p :
        Goto(c, "read_b", [NoJob EXCEPT !.op = "auto", !.id = a, !.other = b,
                                        !.lapsed = mem[a].invalid])
  BY <1>0
<1> DEFINE j == [NoJob EXCEPT !.op = "auto", !.id = a, !.other = b, !.lapsed = mem[a].invalid]
<1>2. UNCHANGED <<mem, contradiction, today, gone, kept>>
  BY DEF BeginAuto, tables
<1>3. /\ a \in Stored /\ b \in Stored /\ a \in Ids /\ b \in Ids
  BY <1>0, <1>1 DEF MemoriesIInv, PairsStored, Stored, Pairs
<1>4. mem[a].invalid \in BOOLEAN
  BY <1>3 DEF MemoriesIInv, MemoriesShaped, MemoryRows
<1>5. j \in Jobs /\ j.id = a /\ j.other = b
  BY <1>3, <1>4, NothingYet DEF Jobs, Ops
<1>6. Goto(c, "read_b", j)
  BY <1>1
<1> HIDE DEF j
<1>7. JobOK(c)'
  BY <1>2, <1>3, <1>5, <1>6, Gone, StoredSame DEF JobOK
<1> QED
  BY <1>2, <1>5, <1>6, <1>7, Gone, MemoriesLocalStep, SamePairs, StoredSame DEF PC

LEMMA ReadBIInv == ASSUME MemoriesIInv, NEW c \in Callers, ReadB(c) PROVE MemoriesIInv'
<1> DEFINE a == job[c].id
           b == job[c].other
           w == PickWinner(a, b, job[c].lapsed)
           l == IF w = a THEN b ELSE a
           j == [job[c] EXCEPT !.id = w, !.other = l]
<1>1. /\ pc[c] = "read_b" /\ Goto(c, "supersede", j)
      /\ UNCHANGED <<mem, contradiction, today, gone, kept>>
  BY DEF ReadB, tables, ghosts
<1>2. a \in Stored /\ b \in Stored /\ a \in Ids /\ b \in Ids /\ job[c] \in Jobs
  BY <1>1 DEF MemoriesIInv, JobOK, MemoriesShaped, Stored
<1>3. w \in {a, b} /\ l \in {a, b}
  BY DEF PickWinner
<1> HIDE DEF w, l
<1>4. j \in Jobs /\ j.id = w /\ j.other = l
  BY <1>2, <1>3 DEF Jobs
<1> HIDE DEF j, a, b
<1>5. JobOK(c)'
  BY <1>1, <1>2, <1>3, <1>4, Gone, StoredSame DEF JobOK
<1> QED
  BY <1>1, <1>4, <1>5, Gone, MemoriesLocalStep, SamePairs, StoredSame DEF PC

LEMMA MarkResolvedIInv == ASSUME MemoriesIInv, NEW c \in Callers, MarkResolved(c) PROVE MemoriesIInv'
<1> DEFINE pair == {job[c].id, job[c].other}
<1>1. /\ pc[c] = "mark" /\ Goto(c, "idle", NoJob) /\ UNCHANGED <<mem, today>>
      /\ contradiction' = [contradiction EXCEPT ![pair] = "resolved"]
      /\ IF job[c].op # "note"
         THEN /\ gone' = gone \cup {job[c].other}
              /\ kept' = {k \in kept : k[1] # pair} \cup {<<pair, job[c].id>>}
         ELSE UNCHANGED <<gone, kept>>
  BY DEF MarkResolved
<1>2. /\ job[c].id \in Stored /\ job[c].other \in Stored /\ job[c].other \in Ids
      /\ job[c].op # "note" => mem[job[c].other].by # None
  BY <1>1 DEF MemoriesIInv, JobOK, Stored
<1>3. PairsStored'
  <2>1. pair \subseteq Stored
    BY <1>2
  <2> QED
    BY <1>1, <2>1, StoredSame DEF MemoriesIInv, PairsStored
<1>4. \A m \in gone' : m \in gone \/ Hidden(m)'
  BY <1>1, <1>2, StoredSame DEF Hidden, Hides
<1>5. \A k \in kept' : k \in kept \/ \A m \in k[1] \ {k[2]} : m \in Ids /\ mem'[m].by # None
  BY <1>1, <1>2
<1>6. JobOK(c)'
  BY <1>1, Gone DEF JobOK
<1>7. pc' = [pc EXCEPT ![c] = "idle"] /\ job' = [job EXCEPT ![c] = NoJob]
  BY <1>1 DEF Goto
<1>8. today' \in Nat /\ today' >= today
  BY <1>1 DEF MemoriesIInv, MemoriesShaped
<1> QED
  BY <1>1, <1>3, <1>4, <1>5, <1>6, <1>7, <1>8, NoRowStep, NothingYet, Settled DEF PC

LEMMA ForgetIInv == ASSUME MemoriesIInv, NEW c \in Callers, Forget(c) PROVE MemoriesIInv'
<1>1. PICK m \in Stored : ForgetRow(m) /\ gone' = gone \cup {m}
  BY DEF Forget
<1>2. UNCHANGED <<contradiction, today, pc, job, kept>>
  BY DEF Forget, local
<1>3. /\ m \in Ids /\ mem \in [Ids -> MemoryRows] /\ mem[m] \in MemoryRows /\ MemoryOK(mem[m])
      /\ mem[m].created # None /\ today \in Nat /\ today >= 2
      /\ pc \in [Callers -> PC] /\ job \in [Callers -> Jobs]
  BY DEF MemoriesIInv, MemoriesShaped, Stored
<1>4. pc' = [pc EXCEPT ![c] = pc[c]] /\ job' = [job EXCEPT ![c] = job[c]]
      /\ pc[c] \in PC /\ job[c] \in Jobs /\ today' \in Nat /\ today' >= today
  BY <1>2, <1>3
<1>5. CASE mem[m].forgotten
  <2>1. mem' = mem
    BY <1>1, <1>5 DEF ForgetRow
  <2>3. Hidden(m)'
    BY <1>2, <1>5, <2>1 DEF MemoriesIInv, Hidden, Stored
  <2>2. JobOK(c)'
    BY <1>2, <2>1, StoredSame DEF MemoriesIInv, JobOK
  <2> QED
    BY <1>1, <1>2, <1>4, <2>1, <2>2, <2>3, NoRowStep, SamePairs, Settled
<1>6. CASE ~mem[m].forgotten
  <2> DEFINE x == [mem[m] EXCEPT !.stash = mem[m].expires, !.expires = today - 1,
                                 !.forgotten = TRUE]
  <2>1. mem' = [mem EXCEPT ![m] = x] /\ gone' = gone \cup {m}
    BY <1>1, <1>3, <1>6 DEF ForgetRow
  <2>2. mem[m].expires = mem[m].given /\ mem[m].expires \in Nat /\ today - 1 \in Nat
    BY <1>3, <1>6 DEF MemoryOK, MemoryRows
  <2>3. /\ x \in MemoryRows /\ x.stash = mem[m].expires /\ x.expires = today - 1
        /\ x.forgotten = TRUE /\ x.by = mem[m].by /\ x.invalid = mem[m].invalid
        /\ x.created = mem[m].created /\ x.given = mem[m].given /\ x.tagged = mem[m].tagged
    BY <1>3, <2>2 DEF MemoryRows
  <2> HIDE DEF x
  <2>8. Hides(x, today)
    BY <1>3, <2>3 DEF Hides, None
  <2>4. MemoryOK(x) /\ GrowsTo(mem[m], x)
    BY <1>2, <1>3, <1>6, <2>2, <2>3, <2>8 DEF MemoryOK, GrowsTo
  <2>5. /\ mem' \in [Ids -> MemoryRows] /\ \A n \in Ids : MemoryOK(mem'[n])
        /\ Grows /\ Stored' = Stored \cup {m} /\ mem'[m] = x
    BY <1>3, <1>6, <2>1, <2>3, <2>4, RowStep
  <2>6. Hidden(m)'
    BY <1>2, <2>5, <2>8 DEF Hidden
  <2>7. JobOK(c)'
    BY <1>2, <2>5 DEF MemoriesIInv, JobOK, Grows, GrowsTo
  <2> QED
    BY <1>2, <1>4, <2>1, <2>5, <2>6, <2>7, SamePairs, Settled
<1> QED
  BY <1>5, <1>6

LEMMA FailIInv == ASSUME MemoriesIInv, NEW c \in Callers, Fail(c) PROVE MemoriesIInv'
<1>1. UNCHANGED <<mem, contradiction, today, gone, kept>> /\ Goto(c, "idle", NoJob)
  BY DEF Fail, tables, ghosts
<1> QED
  BY <1>1, NothingYet, MemoriesLocalStep, SamePairs, StoredSame DEF Goto, PC

LEMMA NextDayIInv == ASSUME MemoriesIInv, NextDay PROVE MemoriesIInv'
<1>1. UNCHANGED <<mem, contradiction, pc, job, gone, kept>> /\ today' = today + 1
  BY DEF NextDay, local, ghosts
<1>2. MemoriesShaped'
  BY <1>1 DEF MemoriesIInv, MemoriesShaped
<1>3. \A c \in Callers : JobOK(c)'
  BY <1>1, StoredSame DEF MemoriesIInv, JobOK
<1>4. PairsStored'
  BY <1>1, StoredSame DEF MemoriesIInv, PairsStored
<1>5. ASSUME NEW m, Hidden(m) PROVE Hidden(m)'
  <2>1. m \in Stored /\ Hides(mem[m], today) /\ today \in Nat
    BY <1>5 DEF Hidden, MemoriesIInv, MemoriesShaped
  <2>2. mem[m].expires \in Nat
    BY <2>1 DEF Stored, MemoriesIInv, MemoriesShaped, MemoryRows
  <2> QED
    BY <1>1, <2>1, <2>2, StoredSame DEF Hidden, Hides
<1>6. \A m \in Stored' : mem'[m].forgotten => Hidden(m)'
  BY <1>1, <1>5, StoredSame DEF MemoriesIInv
<1> QED
  BY <1>1, <1>2, <1>3, <1>4, <1>5, <1>6 DEF MemoriesIInv

LEMMA MemoriesNextIInv == MemoriesIInv /\ [MemoriesNext]_memoriesVars => MemoriesIInv'
<1> SUFFICES ASSUME MemoriesIInv, [MemoriesNext]_memoriesVars PROVE MemoriesIInv'
  OBVIOUS
<1>1. CASE UNCHANGED memoriesVars
  BY <1>1 DEF memoriesVars, MemoriesIInv, MemoriesShaped, JobOK, PairsStored, Hidden, Hides, Stored
<1>2. ASSUME NEW c \in Callers, Operation(c) PROVE MemoriesIInv'
  BY <1>2, BeginMemoryStoreIInv, BeginPostIInv, InsertMemoryIInv, CacheVectorIInv,
     SupersedeRestatedIInv, DetectIInv, StorePairIInv, BeginResolveIInv, BeginAutoIInv,
     ReadBIInv, SupersedeLoserIInv, MarkResolvedIInv, ForgetIInv, FailIInv DEF Operation
<1> QED
  BY <1>1, <1>2, NextDayIInv DEF MemoriesNext

LEMMA MemoriesWellformed == MemoriesSpec => []MemoriesIInv
<1> QED
  BY MemoriesInitIInv, MemoriesNextIInv, PTL DEF MemoriesSpec

-----------------------------------------------------------------------------
(* What was called superseded or forgotten is not served again, but for    *)
(* what its own caller had tagged 'forgotten', for any callers, dates and  *)
(* failures (resolve, memory_store, forget, the filters of every query).   *)
THEOREM StaysGone == MemoriesSpec => []GoneIsNotServed
<1>1. MemoriesIInv => GoneIsNotServed
  <2> SUFFICES ASSUME MemoriesIInv, NEW m \in gone, ~mem[m].tagged
               PROVE  m \notin SearchServes \cup CoreServes \cup PreviewServes
    BY DEF GoneIsNotServed
  <2>1. Hidden(m) /\ today \in Nat /\ mem[m].expires \in Nat
    BY DEF MemoriesIInv, MemoriesShaped, Hidden, Stored, MemoryRows
  <2>2. mem[m].by # None \/ ~Unexpired(m)
    BY <2>1 DEF Hidden, Hides, Unexpired
  <2> QED
    BY <2>2 DEF SearchServes, VectorSearch, KeywordSearch, CoreServes, PreviewServes
<1> QED
  BY <1>1, MemoriesWellformed, PTL

(* Forgetting can be undone, however often a memory is forgotten and       *)
(* whatever tags its caller gave it (forget).                              *)
THEOREM Reversible == MemoriesSpec => []ForgetIsReversible
<1>1. MemoriesIInv => ForgetIsReversible
  BY DEF MemoriesIInv, MemoryOK, Stored, ForgetIsReversible
<1> QED
  BY <1>1, MemoriesWellformed, PTL

(* A finished resolution has hidden its loser, for any callers that        *)
(* resolve at once and any failures between the two statements (resolve).  *)
THEOREM Resolved == MemoriesSpec => []ResolvedMeansHidden
<1>1. MemoriesIInv => ResolvedMeansHidden
  BY DEF MemoriesIInv, ResolvedMeansHidden, Standing
<1> QED
  BY <1>1, MemoriesWellformed, PTL

-----------------------------------------------------------------------------
(* One operation at a time.                                                *)

(* What a call is about to supersede is not the memory it will leave       *)
(* standing, and that one stands unless the other is superseded already.   *)
LeavesOne(c) ==
    /\ pc[c] \in {"embed", "restated"} =>
         mem[job[c].id].by = None /\ job[c].id # job[c].other
    /\ pc[c] = "read_b" =>
         job[c].id # job[c].other /\ job[c].lapsed = mem[job[c].id].invalid
    /\ pc[c] = "supersede" =>
         /\ job[c].id # job[c].other
         /\ mem[job[c].id].by = None \/ mem[job[c].other].by # None

OneAtWork == \A c, d \in Callers : pc[c] # "idle" /\ pc[d] # "idle" => c = d

InTurn ==
    /\ OneAtWork
    /\ \A c \in Callers : LeavesOne(c)
    /\ Stored # {} => \E m \in Stored : mem[m].by = None

TurnInv == ~named /\ ~overlapped => InTurn

(* Nothing is superseded. *)
NoLoss ==
    /\ Stored \subseteq Stored'
    /\ \A m \in Stored : mem'[m].by = mem[m].by /\ mem'[m].invalid = mem[m].invalid
    /\ \A m \in Stored' \ Stored : mem'[m].by = None

LEMMA NoLossUnchanged == mem' = mem => NoLoss
BY DEF NoLoss, Stored

LEMMA MovesOne ==
    ASSUME MemoriesIInv, NEW c \in Callers, NEW to, NEW j, Goto(c, to, j)
    PROVE  /\ pc'[c] = to /\ (to # "idle" => job'[c] = j)
           /\ \A d \in Callers \ {c} : pc'[d] = pc[d] /\ job'[d] = job[d]
BY DEF MemoriesIInv, MemoriesShaped, Goto

LEMMA MemoriesQuietStep ==
    ASSUME MemoriesIInv, InTurn, NoLoss, NEW c \in Callers,
           \A d \in Callers \ {c} : pc'[d] = pc[d] /\ job'[d] = job[d],
           pc'[c] # "idle" => \A d \in Callers \ {c} : pc[d] = "idle",
           LeavesOne(c)'
    PROVE  InTurn'
<1>1. OneAtWork'
  BY DEF InTurn, OneAtWork
<1>2. ASSUME NEW d \in Callers \ {c} PROVE LeavesOne(d)'
  <2>1. LeavesOne(d) /\ JobOK(d) /\ pc'[d] = pc[d] /\ job'[d] = job[d]
    BY DEF InTurn, MemoriesIInv
  <2> QED
    BY <2>1 DEF LeavesOne, JobOK, NoLoss
<1>3. Stored' # {} => \E m \in Stored' : mem'[m].by = None
  BY DEF InTurn, NoLoss
<1> QED
  BY <1>1, <1>2, <1>3 DEF InTurn

(* A call at work is the only one. *)
LEMMA WorksAlone ==
    ASSUME InTurn, NEW c \in Callers, pc[c] # "idle"
    PROVE  \A d \in Callers \ {c} : pc[d] = "idle"
BY DEF InTurn, OneAtWork

LEMMA BeginsAlone ==
    ASSUME NEW c \in Callers, NEW to, NEW j, Begin(c, to, j), ~overlapped', to # "idle"
    PROVE  \A d \in Callers \ {c} : pc[d] = "idle"
BY DEF Begin, Busy

(* The call starts, or goes on, and supersedes nothing. *)
LEMMA QuietGoto ==
    ASSUME MemoriesIInv, InTurn, NoLoss, NEW c \in Callers, NEW to, NEW j, Goto(c, to, j),
           pc[c] # "idle" \/ (Begin(c, to, j) /\ ~overlapped'),
           LeavesOne(c)'
    PROVE  InTurn'
<1>1. /\ pc'[c] = to
      /\ \A d \in Callers \ {c} : pc'[d] = pc[d] /\ job'[d] = job[d]
  BY MovesOne
<1>2. to # "idle" => \A d \in Callers \ {c} : pc[d] = "idle"
  BY WorksAlone, BeginsAlone
<1> QED
  BY <1>1, <1>2, MemoriesQuietStep

LEMMA BeginMemoryStoreTurn ==
    ASSUME MemoriesIInv, InTurn, NEW c \in Callers, BeginMemoryStore(c), ~overlapped' PROVE InTurn'
<1>1. mem' = mem /\ \E j : Begin(c, "insert", j)
  BY DEF BeginMemoryStore, tables
<1>2. PICK j : Begin(c, "insert", j) /\ Goto(c, "insert", j)
  BY <1>1 DEF Begin
<1>3. LeavesOne(c)'
  BY <1>2, MovesOne DEF LeavesOne
<1> QED
  BY <1>1, <1>2, <1>3, NoLossUnchanged, QuietGoto

LEMMA BeginPostTurn ==
    ASSUME MemoriesIInv, InTurn, NEW c \in Callers, BeginPost(c), ~overlapped' PROVE InTurn'
<1>1. mem' = mem /\ \E j : Begin(c, "insert", j)
  BY DEF BeginPost, tables
<1>2. PICK j : Begin(c, "insert", j) /\ Goto(c, "insert", j)
  BY <1>1 DEF Begin
<1>3. LeavesOne(c)'
  BY <1>2, MovesOne DEF LeavesOne
<1> QED
  BY <1>1, <1>2, <1>3, NoLossUnchanged, QuietGoto

LEMMA InsertMemoryTurn ==
    ASSUME MemoriesIInv, InTurn, NEW c \in Callers, InsertMemory(c) PROVE InTurn'
<1>1. PICK m \in Ids \ Stored, v \in ValidAts \cup {None}, d \in Dates \cup {None},
           tagged \in BOOLEAN :
        /\ job[c].op = "POST" => v = None /\ d = None
        /\ mem' = [mem EXCEPT ![m] =
             [NoRow EXCEPT !.text = job[c].text, !.valid = v, !.expires = d, !.given = d,
                           !.created = Epoch + 1 + Cardinality(Stored),
                           !.forgotten = tagged, !.tagged = tagged,
                           !.unchecked = job[c].unchecked]]
        /\ Goto(c, IF job[c].embeds THEN "embed" ELSE "idle", [job[c] EXCEPT !.id = m])
  BY DEF InsertMemory
<1> DEFINE x == [NoRow EXCEPT !.text = job[c].text, !.valid = v, !.expires = d, !.given = d,
                              !.created = Epoch + 1 + Cardinality(Stored),
                              !.forgotten = tagged, !.tagged = tagged,
                              !.unchecked = job[c].unchecked]
           j == [job[c] EXCEPT !.id = m]
           to == IF job[c].embeds THEN "embed" ELSE "idle"
<1>2. pc[c] = "insert"
  BY DEF InsertMemory
<1>3. x.by = None
  BY DEF NoRow
<1>4. /\ mem \in [Ids -> MemoryRows] /\ job[c] \in Jobs /\ job[c].other \in Stored \cup {None}
  BY <1>2 DEF MemoriesIInv, MemoriesShaped, JobOK
<1>5. j.id = m /\ j.other = job[c].other
  BY <1>4 DEF Jobs
<1>6. mem' = [mem EXCEPT ![m] = x] /\ Goto(c, to, j)
  BY <1>1
<1>10. to \in {"embed", "idle"}
  OBVIOUS
<1> HIDE DEF x, j, to
<1>7. mem'[m] = x /\ \A n \in Ids \ {m} : mem'[n] = mem[n]
  BY <1>4, <1>6
<1>8. NoLoss
  BY <1>3, <1>7 DEF NoLoss, Stored
<1>9. LeavesOne(c)'
  <2>1. pc'[c] = to /\ (to # "idle" => job'[c] = j)
    BY <1>6, MovesOne
  <2>2. m # job[c].other
    BY <1>4, IdsAreNotNone
  <2> QED
    BY <1>3, <1>5, <1>7, <1>10, <2>1, <2>2 DEF LeavesOne
<1> QED
  BY <1>2, <1>6, <1>8, <1>9, QuietGoto

LEMMA CacheVectorTurn ==
    ASSUME MemoriesIInv, InTurn, NEW c \in Callers, CacheVector(c) PROVE InTurn'
<1> DEFINE m == job[c].id
           to == IF job[c].op = "POST" THEN "detect"
                 ELSE IF job[c].other # None THEN "restated" ELSE "idle"
<1>1. pc[c] = "embed" /\ mem' = [mem EXCEPT ![m].cached = TRUE] /\ Goto(c, to, job[c])
  BY DEF CacheVector
<1>2. m \in Ids /\ mem \in [Ids -> MemoryRows] /\ mem[m] \in MemoryRows
      /\ mem[m].by = None /\ m # job[c].other
  BY <1>1 DEF MemoriesIInv, MemoriesShaped, JobOK, Stored, InTurn, LeavesOne
<1>3. \A n \in Ids : /\ mem'[n].by = mem[n].by /\ mem'[n].invalid = mem[n].invalid
                     /\ mem'[n].created = mem[n].created
  BY <1>1, <1>2 DEF MemoryRows
<1>4. NoLoss
  BY <1>3 DEF NoLoss, Stored
<1>5. to \in {"detect", "restated", "idle"}
  OBVIOUS
<1>6. PICK n \in Ids : n = m
  BY <1>2
<1> HIDE DEF to
<1>7. LeavesOne(c)'
  <2>1. pc'[c] = to /\ (to # "idle" => job'[c] = job[c])
    BY <1>1, MovesOne
  <2> QED
    BY <1>2, <1>3, <1>5, <1>6, <2>1 DEF LeavesOne
<1> QED
  BY <1>1, <1>4, <1>7, QuietGoto

(* A loser is superseded, the other stands or the loser did not. *)
LEMMA LossStep ==
    ASSUME MemoriesIInv, InTurn, NEW c \in Callers, NEW old \in Stored, NEW new \in Stored, old # new,
           mem[new].by = None \/ mem[old].by # None, Supersede(old, new),
           pc[c] # "idle", NEW to \in {"idle", "mark"}, NEW j, Goto(c, to, j)
    PROVE  InTurn'
<1>1. PICK x \in MemoryRows : mem' = [mem EXCEPT ![old] = x] /\ x.created # None
  BY Superseding DEF Stored
<1>2. /\ old \in Ids /\ new \in Ids /\ \A n \in Ids \ {old} : mem'[n] = mem[n]
      /\ Stored' = Stored
  BY <1>1 DEF MemoriesIInv, MemoriesShaped, Stored
<1>3. \E m \in Stored' : mem'[m].by = None
  <2>1. PICK m \in Stored : mem[m].by = None /\ m # old
    BY DEF InTurn
  <2> QED
    BY <1>2, <2>1 DEF Stored
<1>4. /\ pc'[c] \in {"idle", "mark"}
      /\ \A d \in Callers \ {c} : pc'[d] = "idle"
  BY MovesOne, WorksAlone
<1>5. OneAtWork' /\ \A d \in Callers : LeavesOne(d)'
  BY <1>4 DEF OneAtWork, LeavesOne
<1> QED
  BY <1>3, <1>5 DEF InTurn

LEMMA SupersedeRestatedTurn ==
    ASSUME MemoriesIInv, InTurn, NEW c \in Callers, SupersedeRestated(c) PROVE InTurn'
<1>1. /\ pc[c] = "restated" /\ Supersede(job[c].other, job[c].id) /\ Goto(c, "idle", NoJob)
  BY DEF SupersedeRestated
<1>2. /\ job[c].id \in Stored /\ job[c].other \in Stored
      /\ job[c].id # job[c].other /\ mem[job[c].id].by = None
  BY <1>1 DEF MemoriesIInv, JobOK, InTurn, LeavesOne
<1> QED
  BY <1>1, <1>2, LossStep

LEMMA SupersedeLoserTurn ==
    ASSUME MemoriesIInv, InTurn, NEW c \in Callers, SupersedeLoser(c) PROVE InTurn'
<1>1. /\ pc[c] = "supersede" /\ Supersede(job[c].other, job[c].id) /\ Goto(c, "mark", job[c])
  BY DEF SupersedeLoser
<1>2. /\ job[c].id \in Stored /\ job[c].other \in Stored
      /\ job[c].id # job[c].other
      /\ mem[job[c].id].by = None \/ mem[job[c].other].by # None
  BY <1>1 DEF MemoriesIInv, JobOK, InTurn, LeavesOne
<1> QED
  BY <1>1, <1>2, LossStep

LEMMA DetectTurn ==
    ASSUME MemoriesIInv, InTurn, NEW c \in Callers, Detect(c), ~overlapped' PROVE InTurn'
<1> DEFINE Found(m) == IF mem[m].cached THEN Candidates(m) ELSE {}
           To(m)    == IF Found(m) = {} THEN "idle" ELSE "pairs"
           J(m)     == [NoJob EXCEPT !.op = "detect", !.id = m, !.todo = Found(m)]
<1>1. PICK m \in IF pc[c] = "detect" THEN {job[c].id} ELSE Stored :
        \/ pc[c] = "detect" /\ Goto(c, To(m), J(m))
        \/ Begin(c, To(m), J(m))
  BY DEF Detect
<1>2. mem' = mem /\ To(m) \in {"idle", "pairs"}
  BY DEF Detect, tables
<1> HIDE DEF To, J
<1>3. Goto(c, To(m), J(m)) /\ (pc[c] # "idle" \/ (Begin(c, To(m), J(m)) /\ ~overlapped'))
  BY <1>1 DEF Begin
<1>4. LeavesOne(c)'
  BY <1>2, <1>3, MovesOne DEF LeavesOne
<1> QED
  BY <1>2, <1>3, <1>4, NoLossUnchanged, QuietGoto

LEMMA StorePairTurn ==
    ASSUME MemoriesIInv, InTurn, NEW c \in Callers, StorePair(c) PROVE InTurn'
<1>1. PICK o \in job[c].todo :
        Goto(c, IF job[c].todo \ {o} = {} THEN "idle" ELSE "pairs",
             [job[c] EXCEPT !.todo = job[c].todo \ {o}])
  BY DEF StorePair
<1> DEFINE j == [job[c] EXCEPT !.todo = job[c].todo \ {o}]
           to == IF job[c].todo \ {o} = {} THEN "idle" ELSE "pairs"
<1>2. mem' = mem /\ pc[c] = "pairs" /\ to \in {"idle", "pairs"} /\ Goto(c, to, j)
  BY <1>1 DEF StorePair
<1> HIDE DEF j, to
<1>3. LeavesOne(c)'
  BY <1>2, MovesOne DEF LeavesOne
<1> QED
  BY <1>2, <1>3, NoLossUnchanged, QuietGoto

(* A resolution that names nothing supersedes nothing. *)
LEMMA BeginResolveTurn ==
    ASSUME MemoriesIInv, InTurn, NEW c \in Callers, BeginResolve(c), ~named', ~overlapped'
    PROVE  InTurn'
<1>1. PICK p \in Pairs, keep \in Ids \cup {None} :
        /\ \E a \in p, b \in p :
             Begin(c, IF keep = None THEN "mark" ELSE "supersede",
                   [NoJob EXCEPT !.op = IF keep = None THEN "note" ELSE "keep",
                                 !.id = a, !.other = b])
        /\ named' = (named \/ keep # None)
        /\ mem' = mem
  BY DEF BeginResolve, tables
<1>2. keep = None
  BY <1>1
<1>3. PICK j : Begin(c, "mark", j)
  BY <1>1, <1>2
<1>4. Goto(c, "mark", j)
  BY <1>3 DEF Begin
<1>5. LeavesOne(c)'
  BY <1>4, MovesOne DEF LeavesOne
<1> QED
  BY <1>1, <1>3, <1>4, <1>5, NoLossUnchanged, QuietGoto

LEMMA BeginAutoTurn ==
    ASSUME MemoriesIInv, InTurn, NEW c \in Callers, BeginAuto(c), ~overlapped' PROVE InTurn'
<1>1. PICK p \in Pairs :
        \E a \in p, b \in p :
          /\ a < b
          /\ Begin(c, "read_b", [NoJob EXCEPT !.op = "auto", !.id = a, !.other = b,
                                              !.lapsed = mem[a].invalid])
  BY DEF BeginAuto
<1>2. PICK a \in p, b \in p :
        /\ a < b
        /\ Begin(c, "read_b", [NoJob EXCEPT !.op = "auto", !.id = a, !.other = b,
                                            !.lapsed = mem[a].invalid])
  BY <1>1
<1> DEFINE j == [NoJob EXCEPT !.op = "auto", !.id = a, !.other = b, !.lapsed = mem[a].invalid]
<1>3. mem' = mem
  BY DEF BeginAuto, tables
<1>4. a # b
  <2>1. a \in Nat /\ b \in Nat
    BY IdsAreNotNone DEF Pairs
  <2> QED
    BY <1>2, <2>1
<1>5. j.id = a /\ j.other = b /\ j.lapsed = mem[a].invalid
  BY DEF NoJob
<1>6. Begin(c, "read_b", j) /\ Goto(c, "read_b", j)
  BY <1>2 DEF Begin
<1> HIDE DEF j
<1>7. LeavesOne(c)'
  BY <1>3, <1>4, <1>5, <1>6, MovesOne DEF LeavesOne
<1> QED
  BY <1>3, <1>6, <1>7, NoLossUnchanged, QuietGoto

(* The memory that wins stands, or neither does. *)
LEMMA ReadBTurn == ASSUME MemoriesIInv, InTurn, NEW c \in Callers, ReadB(c) PROVE InTurn'
<1>1. PICK a, b, w, l, j :
        /\ a = job[c].id /\ b = job[c].other
        /\ w = PickWinner(a, b, job[c].lapsed) /\ l = IF w = a THEN b ELSE a
        /\ j = [job[c] EXCEPT !.id = w, !.other = l]
  OBVIOUS
<1>2. pc[c] = "read_b" /\ Goto(c, "supersede", j) /\ mem' = mem
  BY <1>1 DEF ReadB, tables
<1>3. /\ a \in Ids /\ b \in Ids /\ job[c] \in Jobs /\ a # b
      /\ job[c].lapsed = mem[a].invalid
  BY <1>1, <1>2 DEF MemoriesIInv, JobOK, MemoriesShaped, Stored, InTurn, LeavesOne
<1>4. /\ mem[a].invalid <=> mem[a].by # None
      /\ mem[b].invalid <=> mem[b].by # None
      /\ mem[a].invalid \in BOOLEAN /\ mem[b].invalid \in BOOLEAN
  BY <1>3 DEF MemoriesIInv, MemoryOK, MemoriesShaped, MemoryRows
<1>5. w \in {a, b} /\ w # l /\ (mem[w].by = None \/ mem[l].by # None)
  BY <1>1, <1>3, <1>4 DEF PickWinner
<1>6. j.id = w /\ j.other = l
  BY <1>1, <1>3 DEF Jobs
<1>7. LeavesOne(c)'
  <2>1. pc'[c] = "supersede" /\ job'[c] = j
    BY <1>2, MovesOne
  <2> QED
    BY <1>2, <1>5, <1>6, <2>1 DEF LeavesOne
<1> QED
  BY <1>2, <1>7, NoLossUnchanged, QuietGoto

LEMMA EndTurn ==
    ASSUME MemoriesIInv, InTurn, NEW c \in Callers, MarkResolved(c) \/ Fail(c) PROVE InTurn'
<1>1. pc[c] # "idle" /\ Goto(c, "idle", NoJob) /\ mem' = mem
  BY DEF MarkResolved, Fail, tables
<1>2. LeavesOne(c)'
  BY <1>1, MovesOne DEF LeavesOne
<1> QED
  BY <1>1, <1>2, NoLossUnchanged, QuietGoto

LEMMA ForgetTurn == ASSUME MemoriesIInv, InTurn, NEW c \in Callers, Forget(c) PROVE InTurn'
<1>1. PICK m \in Stored : ForgetRow(m)
  BY DEF Forget
<1>2. UNCHANGED <<pc, job>> /\ pc[c] = "idle"
  BY DEF Forget, local
<1>3. m \in Ids /\ mem \in [Ids -> MemoryRows] /\ mem[m] \in MemoryRows
  BY DEF MemoriesIInv, MemoriesShaped, Stored
<1>4. \A n \in Ids : /\ mem'[n].by = mem[n].by /\ mem'[n].invalid = mem[n].invalid
                     /\ mem'[n].created = mem[n].created
  BY <1>1, <1>3 DEF ForgetRow, MemoryRows
<1>5. NoLoss
  BY <1>4 DEF NoLoss, Stored
<1>6. LeavesOne(c)'
  BY <1>2 DEF LeavesOne
<1> QED
  BY <1>2, <1>5, <1>6, MemoriesQuietStep

LEMMA InitTurn == MemoriesInit => TurnInv
<1> SUFFICES ASSUME MemoriesInit PROVE InTurn
  BY DEF TurnInv
<1>1. Stored = {}
  BY NothingYet DEF MemoriesInit, Stored
<1> QED
  BY <1>1 DEF MemoriesInit, InTurn, OneAtWork, LeavesOne

LEMMA NextTurn == MemoriesIInv /\ TurnInv /\ [MemoriesNext]_memoriesVars => TurnInv'
<1> SUFFICES ASSUME MemoriesIInv, TurnInv, [MemoriesNext]_memoriesVars, ~named', ~overlapped'
             PROVE  InTurn'
  BY DEF TurnInv
<1>1. CASE UNCHANGED memoriesVars \/ NextDay
  <2>1. UNCHANGED <<mem, pc, job, named, overlapped>>
    BY <1>1 DEF memoriesVars, NextDay, local, ghosts
  <2> QED
    BY <2>1 DEF TurnInv, InTurn, OneAtWork, LeavesOne, Stored
<1>2. ASSUME NEW c \in Callers, Operation(c) PROVE InTurn'
  <2>1. CASE BeginMemoryStore(c)
    <3>1. ~named /\ ~overlapped
      <4>1. UNCHANGED named /\ \E j : Begin(c, "insert", j)
        BY <2>1 DEF BeginMemoryStore
      <4> QED
        BY <4>1 DEF Begin
    <3> QED
      BY <2>1, <3>1, BeginMemoryStoreTurn DEF TurnInv
  <2>2. CASE BeginPost(c)
    <3>1. ~named /\ ~overlapped
      <4>1. UNCHANGED named /\ \E j : Begin(c, "insert", j)
        BY <2>2 DEF BeginPost
      <4> QED
        BY <4>1 DEF Begin
    <3> QED
      BY <2>2, <3>1, BeginPostTurn DEF TurnInv
  <2>3. CASE Detect(c)
    <3>1. ~named /\ ~overlapped
      BY <2>3 DEF Detect, Begin
    <3> QED
      BY <2>3, <3>1, DetectTurn DEF TurnInv
  <2>4. CASE BeginResolve(c)
    <3>1. ~named /\ ~overlapped
      <4>1. /\ \E keep : named' = (named \/ keep # None)
            /\ \E to, j : Begin(c, to, j)
        BY <2>4 DEF BeginResolve
      <4> QED
        BY <4>1 DEF Begin
    <3> QED
      BY <2>4, <3>1, BeginResolveTurn DEF TurnInv
  <2>5. CASE BeginAuto(c)
    <3>1. ~named /\ ~overlapped
      <4>1. UNCHANGED named /\ \E j : Begin(c, "read_b", j)
        BY <2>5 DEF BeginAuto
      <4> QED
        BY <4>1 DEF Begin
    <3> QED
      BY <2>5, <3>1, BeginAutoTurn DEF TurnInv
  <2>6. ASSUME \/ InsertMemory(c) \/ CacheVector(c) \/ SupersedeRestated(c) \/ StorePair(c)
               \/ ReadB(c) \/ SupersedeLoser(c) \/ MarkResolved(c) \/ Forget(c) \/ Fail(c)
        PROVE  InTurn'
    <3>1. UNCHANGED <<named, overlapped>>
      BY <2>6 DEF InsertMemory, CacheVector, SupersedeRestated, StorePair, ReadB,
                  SupersedeLoser, MarkResolved, Forget, Fail, ghosts
    <3>2. InTurn
      BY <3>1 DEF TurnInv
    <3> QED
      BY <2>6, <3>2, InsertMemoryTurn, CacheVectorTurn, SupersedeRestatedTurn, StorePairTurn,
         ReadBTurn, SupersedeLoserTurn, EndTurn, ForgetTurn
  <2> QED
    BY <1>2, <2>1, <2>2, <2>3, <2>4, <2>5, <2>6 DEF Operation
<1> QED
  BY <1>1, <1>2 DEF MemoriesNext

(* Something that was stored still stands, for any number of memories,     *)
(* restatements and automatic resolutions one after another, failures      *)
(* half-way included (auto_resolve, pick_winner, memory_store).            *)
THEOREM Stands == MemoriesSpec => []SomethingStands
<1>1. TurnInv => SomethingStands
  BY DEF TurnInv, InTurn, SomethingStands, Standing
<1> QED
  BY <1>1, MemoriesInitIInv, InitTurn, MemoriesNextIInv, NextTurn, PTL DEF MemoriesSpec

-----------------------------------------------------------------------------
(* Types.  A resolution is of two memories, so that what it notes is a     *)
(* pair.                                                                   *)
Distinct(c) == pc[c] \in {"read_b", "supersede", "mark"} => job[c].id # job[c].other

TypeInv ==
    /\ contradiction \in [Pairs -> {"none", "open", "resolved"}]
    /\ today <= LastDay
    /\ kept \in SUBSET (Pairs \X Ids)
    /\ named \in BOOLEAN /\ overlapped \in BOOLEAN
    /\ faults \in 0 .. MaxFaults
    /\ \A c \in Callers : Distinct(c)

LEMMA TwoArePair == ASSUME NEW a \in Ids, NEW b \in Ids, a # b PROVE {a, b} \in Pairs
<1>1. IsFiniteSet({b}) /\ Cardinality({b}) = 1
  BY FS_Singleton
<1>2. Cardinality({b} \cup {a}) = 2
  BY <1>1, FS_AddElement
<1>3. {b} \cup {a} = {a, b}
  OBVIOUS
<1> QED
  BY <1>2, <1>3 DEF Pairs

LEMMA InitTypeInv == MemoriesInit => TypeInv
<1> SUFFICES ASSUME MemoriesInit PROVE TypeInv
  OBVIOUS
<1>1. today <= LastDay /\ faults \in 0 .. MaxFaults
  BY MemoriesAssumption DEF MemoriesInit
<1>2. contradiction \in [Pairs -> {"none", "open", "resolved"}]
  BY DEF MemoriesInit
<1> QED
  BY <1>1, <1>2 DEF MemoriesInit, TypeInv, Distinct

LEMMA OperationTypeInv ==
    ASSUME MemoriesIInv, TypeInv, NEW c \in Callers, Operation(c) PROVE TypeInv'
<1>0. job[c] \in Jobs
  BY DEF MemoriesIInv, MemoriesShaped
<1>1. contradiction' \in [Pairs -> {"none", "open", "resolved"}]
  <2>1. CASE UNCHANGED contradiction
    BY <2>1 DEF TypeInv
  <2>2. CASE StorePair(c)
    <3>1. PICK o : UpsertPair({job[c].id, o})
      BY <2>2 DEF StorePair
    <3> QED
      BY <3>1 DEF UpsertPair, TypeInv
  <2>3. CASE MarkResolved(c)
    BY <2>3 DEF MarkResolved, TypeInv
  <2> QED
    BY <2>1, <2>2, <2>3
    DEF Operation, BeginMemoryStore, BeginPost, InsertMemory, CacheVector, SupersedeRestated,
        Detect, BeginResolve, BeginAuto, ReadB, SupersedeLoser, Forget, Fail, tables
<1>2. today' = today
  BY DEF Operation, BeginMemoryStore, BeginPost, InsertMemory, CacheVector, SupersedeRestated,
         Detect, StorePair, BeginResolve, BeginAuto, ReadB, SupersedeLoser, MarkResolved, Forget,
         Fail, tables
<1>3. kept' \in SUBSET (Pairs \X Ids)
  <2>1. CASE UNCHANGED kept
    BY <2>1 DEF TypeInv
  <2>2. CASE MarkResolved(c)
    <3>1. /\ pc[c] = "mark"
          /\ kept' \subseteq kept \cup {<<{job[c].id, job[c].other}, job[c].id>>}
      BY <2>2 DEF MarkResolved
    <3>2. job[c].id \in Ids /\ job[c].other \in Ids /\ job[c].id # job[c].other
      BY <3>1 DEF MemoriesIInv, JobOK, Stored, TypeInv, Distinct
    <3>3. {job[c].id, job[c].other} \in Pairs
      BY <3>2, TwoArePair
    <3>4. <<{job[c].id, job[c].other}, job[c].id>> \in Pairs \X Ids
      BY <3>2, <3>3
    <3>5. kept \subseteq Pairs \X Ids
      BY DEF TypeInv
    <3> QED
      BY <3>1, <3>4, <3>5
  <2> QED
    BY <2>1, <2>2
    DEF Operation, BeginMemoryStore, BeginPost, InsertMemory, CacheVector, SupersedeRestated,
        Detect, StorePair, BeginResolve, BeginAuto, ReadB, SupersedeLoser, Forget, Fail, ghosts
<1>4. named' \in BOOLEAN /\ overlapped' \in BOOLEAN
  BY DEF TypeInv, Operation, BeginMemoryStore, BeginPost, InsertMemory, CacheVector,
         SupersedeRestated, Detect, StorePair, BeginResolve, BeginAuto, ReadB, SupersedeLoser,
         MarkResolved, Forget, Fail, ghosts, Begin
<1>5. faults' \in 0 .. MaxFaults
  <2>1. CASE UNCHANGED faults
    BY <2>1 DEF TypeInv
  <2>2. CASE Fail(c)
    BY <2>2, MemoriesAssumption DEF Fail, TypeInv
  <2> QED
    BY <2>1, <2>2
    DEF Operation, BeginMemoryStore, BeginPost, InsertMemory, CacheVector, SupersedeRestated,
        Detect, StorePair, BeginResolve, BeginAuto, ReadB, SupersedeLoser, MarkResolved, Forget
<1>6. ASSUME NEW d \in Callers \ {c} PROVE Distinct(d)'
  <2>1. CASE Forget(c)
    BY <2>1 DEF Forget, local, TypeInv, Distinct
  <2>2. CASE \E to, j : Goto(c, to, j)
    BY <2>2, MovesOne DEF TypeInv, Distinct
  <2> QED
    BY <2>1, <2>2
    DEF Operation, BeginMemoryStore, BeginPost, InsertMemory, CacheVector, SupersedeRestated,
        Detect, StorePair, BeginResolve, BeginAuto, ReadB, SupersedeLoser, MarkResolved, Fail,
        Begin
<1>7. Distinct(c)'
  <2>1. CASE BeginResolve(c)
    <3>1. PICK p \in Pairs, keep \in Ids \cup {None} :
            \E a \in p, b \in p :
              /\ a # b
              /\ Begin(c, IF keep = None THEN "mark" ELSE "supersede",
                       [NoJob EXCEPT !.op = IF keep = None THEN "note" ELSE "keep",
                                     !.id = a, !.other = b])
      BY <2>1 DEF BeginResolve
    <3>2. PICK a \in p, b \in p :
            /\ a # b
            /\ Begin(c, IF keep = None THEN "mark" ELSE "supersede",
                     [NoJob EXCEPT !.op = IF keep = None THEN "note" ELSE "keep",
                                   !.id = a, !.other = b])
      BY <3>1
    <3> DEFINE to == IF keep = None THEN "mark" ELSE "supersede"
               j == [NoJob EXCEPT !.op = IF keep = None THEN "note" ELSE "keep",
                                  !.id = a, !.other = b]
    <3>3. j.id = a /\ j.other = b
      BY DEF NoJob
    <3>4. to # "idle" /\ Goto(c, to, j)
      BY <3>2 DEF Begin
    <3> HIDE DEF to, j
    <3> QED
      BY <3>2, <3>3, <3>4, MovesOne DEF Distinct
  <2>2. CASE BeginAuto(c)
    <3>1. PICK p \in Pairs :
            \E a \in p, b \in p :
              /\ a < b
              /\ Begin(c, "read_b", [NoJob EXCEPT !.op = "auto", !.id = a, !.other = b,
                                                  !.lapsed = mem[a].invalid])
      BY <2>2 DEF BeginAuto
    <3>2. PICK a \in p, b \in p :
            /\ a < b
            /\ Begin(c, "read_b", [NoJob EXCEPT !.op = "auto", !.id = a, !.other = b,
                                                !.lapsed = mem[a].invalid])
      BY <3>1
    <3> DEFINE j == [NoJob EXCEPT !.op = "auto", !.id = a, !.other = b,
                                  !.lapsed = mem[a].invalid]
    <3>3. j.id = a /\ j.other = b /\ Goto(c, "read_b", j)
      BY <3>2 DEF NoJob, Begin
    <3>4. a # b
      <4>1. a \in Nat /\ b \in Nat
        BY IdsAreNotNone DEF Pairs
      <4> QED
        BY <3>2, <4>1
    <3> HIDE DEF j
    <3> QED
      BY <3>3, <3>4, MovesOne DEF Distinct
  <2>3. CASE ReadB(c)
    <3>1. PICK a, b, w, l, j :
            /\ a = job[c].id /\ b = job[c].other
            /\ w = PickWinner(a, b, job[c].lapsed) /\ l = IF w = a THEN b ELSE a
            /\ j = [job[c] EXCEPT !.id = w, !.other = l]
      OBVIOUS
    <3>2. pc[c] = "read_b" /\ Goto(c, "supersede", j)
      BY <2>3, <3>1 DEF ReadB
    <3>3. a # b
      BY <3>1, <3>2 DEF TypeInv, Distinct
    <3>4. j.id = w /\ j.other = l /\ w # l
      BY <1>0, <3>1, <3>3 DEF Jobs, PickWinner
    <3> QED
      BY <3>2, <3>4, MovesOne DEF Distinct
  <2>4. CASE SupersedeLoser(c)
    <3>1. pc[c] = "supersede" /\ Goto(c, "mark", job[c])
      BY <2>4 DEF SupersedeLoser
    <3> QED
      BY <3>1, MovesOne DEF TypeInv, Distinct
  <2>5. CASE Forget(c)
    BY <2>5 DEF Forget, local, TypeInv, Distinct
  <2>6. ASSUME NEW to \in {"idle", "insert", "embed", "detect", "restated", "pairs"}, NEW j,
               Goto(c, to, j)
        PROVE  Distinct(c)'
    BY <2>6, MovesOne DEF Distinct
  <2>7. CASE Detect(c) \/ CacheVector(c) \/ StorePair(c)
    BY <2>6, <2>7 DEF Detect, CacheVector, StorePair, Begin
  <2> QED
    BY <2>1, <2>2, <2>3, <2>4, <2>5, <2>6, <2>7
    DEF Operation, BeginMemoryStore, BeginPost, InsertMemory, SupersedeRestated, MarkResolved,
        Fail, Begin
<1> QED
  BY <1>1, <1>2, <1>3, <1>4, <1>5, <1>6, <1>7 DEF TypeInv

LEMMA NextTypeInv == MemoriesIInv /\ TypeInv /\ [MemoriesNext]_memoriesVars => TypeInv'
<1>1. ASSUME MemoriesIInv, TypeInv, NextDay PROVE TypeInv'
  <2>1. today' <= LastDay
    BY <1>1, MemoriesAssumption DEF NextDay, MemoriesIInv, MemoriesShaped
  <2> QED
    BY <1>1, <2>1 DEF NextDay, local, ghosts, TypeInv, Distinct
<1>2. ASSUME TypeInv, UNCHANGED memoriesVars PROVE TypeInv'
  BY <1>2 DEF memoriesVars, TypeInv, Distinct
<1> QED
  BY <1>1, <1>2, OperationTypeInv DEF MemoriesNext

(* Every table and every call keeps its type. *)
THEOREM MemoriesTypeCorrect == MemoriesSpec => []MemoriesTypeOK
<1>1. MemoriesIInv /\ TypeInv => MemoriesTypeOK
  <2> SUFFICES ASSUME MemoriesIInv, TypeInv PROVE MemoriesTypeOK
    OBVIOUS
  <2>1. today \in 2 .. LastDay
    BY MemoriesAssumption DEF MemoriesIInv, MemoriesShaped, TypeInv
  <2>2. gone \in SUBSET Ids
    BY DEF MemoriesIInv, Hidden, Stored
  <2> QED
    BY <2>1, <2>2 DEF MemoriesIInv, MemoriesShaped, TypeInv, MemoriesTypeOK, MemoryRows, Jobs
<1> QED
  BY <1>1, MemoriesInitIInv, InitTypeInv, MemoriesNextIInv, NextTypeInv, PTL DEF MemoriesSpec

-----------------------------------------------------------------------------
(* Copies of a fact: whatever calls overlap or fail, at most one call at a *)
(* time adds a memory that nothing excuses.                                *)
Copies(t)  == {m \in Stored : mem[m].text = t}
Served(t)  == {m \in Copies(t) : mem[m].by = None /\ Unexpired(m)}
Excused(t) == {m \in Copies(t) : mem[m].unchecked}

(* A memory_store that looked for duplicates with nobody else at work.     *)
Checked(c) == pc[c] \in {"insert", "embed", "restated"} /\ ~job[c].unchecked
OneChecked == \A c, d \in Callers : Checked(c) /\ Checked(d) => c = d

(* Memories about to be superseded by one that is in the table already.    *)
Restating(c) == Checked(c) /\ pc[c] # "insert"
Leaving      == {job[c].other : c \in {d \in Callers : Restating(d)}}

(* Memories whose call failed before it cached the vector.                 *)
InHand(m) == \E c \in Callers : pc[c] = "embed" /\ job[c].id = m
Lost == {m \in Stored : ~mem[m].cached /\ ~mem[m].unchecked /\ ~InHand(m)}

(* The memory a memory_store is about to add has room, once the one it     *)
(* found is gone.                                                          *)
Room(c) ==
    pc[c] = "insert" /\ Checked(c) =>
      Cardinality(Served(job[c].text) \ {job[c].other})
        <= Cardinality(Excused(job[c].text)) + faults

Few(t) == Cardinality(Served(t) \ Leaving) <= 1 + Cardinality(Excused(t)) + faults

Orderly ==
    /\ OneChecked
    /\ \A c \in Callers : Checked(c) => job[c].embeds /\ job[c].op # "POST"
    /\ Cardinality(Lost) <= faults
    /\ \A c \in Callers : Room(c)
    /\ \A t \in Texts : Few(t)

(* No row is served that was not, none is lost, and none says another      *)
(* thing.                                                                  *)
NoneAdded ==
    /\ Stored' = Stored
    /\ \A m \in Stored : /\ mem'[m].text = mem[m].text /\ mem'[m].unchecked = mem[m].unchecked
                         /\ mem[m].cached => mem'[m].cached
                         /\ mem'[m].by = None /\ Unexpired(m)' =>
                              mem[m].by = None /\ Unexpired(m)

LEMMA NoneAddedSets ==
    ASSUME NoneAdded, NEW t PROVE Served(t)' \subseteq Served(t) /\ Excused(t)' = Excused(t)
BY DEF NoneAdded, Served, Excused, Copies

LEMMA FiniteCopies ==
    ASSUME NEW t
    PROVE  /\ IsFiniteSet(Served(t)) /\ IsFiniteSet(Excused(t)) /\ IsFiniteSet(Lost)
           /\ Cardinality(Excused(t)) \in Nat /\ Cardinality(Served(t)) \in Nat
           /\ Cardinality(Lost) \in Nat
<1>1. IsFiniteSet(Ids) /\ Served(t) \subseteq Ids /\ Excused(t) \subseteq Ids /\ Lost \subseteq Ids
  BY MemoriesAssumption DEF Served, Excused, Copies, Stored, Lost
<1> QED
  BY <1>1, FS_Subset, FS_CardinalityType

LEMMA FewerStill ==
    ASSUME NEW S, NEW T, S \subseteq T, IsFiniteSet(T)
    PROVE  IsFiniteSet(S) /\ Cardinality(S) <= Cardinality(T)
           /\ Cardinality(S) \in Nat /\ Cardinality(T) \in Nat
BY FS_Subset, FS_CardinalityType

LEMMA OneMore ==
    ASSUME NEW S, IsFiniteSet(S), NEW x
    PROVE  /\ IsFiniteSet(S \cup {x}) /\ Cardinality(S) \in Nat
           /\ Cardinality(S \cup {x}) <= Cardinality(S) + 1
           /\ x \notin S => Cardinality(S \cup {x}) = Cardinality(S) + 1
<1>1. Cardinality(S) \in Nat /\ IsFiniteSet(S \cup {x})
  BY FS_CardinalityType, FS_AddElement
<1>2. Cardinality(S \cup {x}) = IF x \in S THEN Cardinality(S) ELSE Cardinality(S) + 1
  BY FS_AddElement
<1> QED
  BY <1>1, <1>2

(* A set that grew by one member at most. *)
LEMMA AtMostOneMore ==
    ASSUME NEW S, IsFiniteSet(S), NEW x, NEW T, T \subseteq S \cup {x}
    PROVE  /\ Cardinality(T) \in Nat /\ Cardinality(S) \in Nat
           /\ Cardinality(T) <= Cardinality(S) + 1
<1>1. /\ IsFiniteSet(S \cup {x}) /\ Cardinality(S) \in Nat
      /\ Cardinality(S \cup {x}) <= Cardinality(S) + 1
  BY OneMore
<1>2. /\ Cardinality(T) <= Cardinality(S \cup {x})
      /\ Cardinality(T) \in Nat /\ Cardinality(S \cup {x}) \in Nat
  BY <1>1, FewerStill
<1> QED
  BY <1>1, <1>2

(* A set with no new member. *)
LEMMA RoomStays ==
    ASSUME NEW c \in Callers, NEW f \in Nat, NEW t,
           pc'[c] = pc[c] /\ job'[c] = job[c], Checked(c), pc[c] = "insert", t = job[c].text,
           Room(c), faults' \in Nat, faults \in Nat, faults <= faults',
           \/ Served(t)' \subseteq Served(t) /\ Excused(t)' = Excused(t)
           \/ \E m : /\ Served(t)' \subseteq Served(t) \cup {m}
                     /\ m \notin Excused(t) /\ Excused(t)' = Excused(t) \cup {m}
    PROVE  Room(c)'
<1>1. PICK old : old = job[c].other
  OBVIOUS
<1> DEFINE S == Served(t) \ {old}
           T == Served(t)' \ {old}
<1>2. /\ IsFiniteSet(S) /\ IsFiniteSet(Excused(t)) /\ Cardinality(Excused(t)) \in Nat
      /\ Cardinality(S) \in Nat
  BY FiniteCopies, FS_Subset, FS_CardinalityType
<1>3. Cardinality(S) <= Cardinality(Excused(t)) + faults
  BY <1>1 DEF Room
<1>4. CASE Served(t)' \subseteq Served(t) /\ Excused(t)' = Excused(t)
  <2>1. T \subseteq S
    BY <1>4
  <2>2. Cardinality(T) <= Cardinality(S) /\ Cardinality(T) \in Nat
    BY <1>2, <2>1, FewerStill
  <2> HIDE DEF S, T
  <2>3. Cardinality(T) <= Cardinality(Excused(t)') + faults'
    BY <1>2, <1>3, <1>4, <2>2
  <2> QED
    BY <1>1, <2>3 DEF Room, T
<1>5. ASSUME NEW m, Served(t)' \subseteq Served(t) \cup {m}, m \notin Excused(t),
             Excused(t)' = Excused(t) \cup {m}
      PROVE  Room(c)'
  <2>1. T \subseteq S \cup {m}
    BY <1>5
  <2> HIDE DEF S, T
  <2>2. Cardinality(T) <= Cardinality(S) + 1 /\ Cardinality(T) \in Nat
    BY <1>2, <2>1, AtMostOneMore
  <2>3. Cardinality(Excused(t)') = Cardinality(Excused(t)) + 1
    BY <1>2, <1>5, OneMore
  <2>4. Cardinality(T) <= Cardinality(Excused(t)') + faults'
    BY <1>2, <1>3, <2>2, <2>3
  <2> QED
    BY <1>1, <2>4 DEF Room, T
<1> QED
  BY <1>4, <1>5

(* The memory a call is about to make leave goes on leaving, or has left.  *)
Stays(c) == \/ Restating(c)' /\ job'[c].other = job[c].other
            \/ \A t \in Texts : job[c].other \notin Served(t)'

LEMMA FewStays ==
    ASSUME NEW t \in Texts, Few(t), NoneAdded, faults' = faults, faults \in Nat,
           \A d \in Callers : Restating(d) => Stays(d)
    PROVE  Few(t)'
<1>1. Served(t)' \subseteq Served(t) /\ Excused(t)' = Excused(t)
  BY NoneAddedSets
<1>2. Served(t)' \ Leaving' \subseteq Served(t) \ Leaving
  <2> SUFFICES ASSUME NEW d \in Callers, Restating(d), job[d].other \in Served(t)'
               PROVE  job[d].other \in Leaving'
    BY <1>1 DEF Leaving
  <2>1. Restating(d)' /\ job'[d].other = job[d].other
    BY DEF Stays
  <2> QED
    BY <2>1 DEF Leaving
<1>3. IsFiniteSet(Served(t) \ Leaving) /\ Cardinality(Excused(t)) \in Nat
  BY FiniteCopies, FS_Subset
<1>4. /\ Cardinality(Served(t)' \ Leaving') <= Cardinality(Served(t) \ Leaving)
      /\ Cardinality(Served(t)' \ Leaving') \in Nat
      /\ Cardinality(Served(t) \ Leaving) \in Nat
  BY <1>2, <1>3, FewerStill
<1>5. Cardinality(Served(t) \ Leaving) <= 1 + Cardinality(Excused(t)) + faults
  BY DEF Few
<1>6. Cardinality(Served(t)' \ Leaving') <= 1 + Cardinality(Excused(t)') + faults'
  BY <1>1, <1>3, <1>4, <1>5
<1> QED
  BY <1>6 DEF Few

LEMMA LostStays ==
    ASSUME Cardinality(Lost) <= faults, faults' = faults, faults \in Nat, Lost' \subseteq Lost
    PROVE  Cardinality(Lost') <= faults'
BY FiniteCopies, FewerStill

(* A call goes on and adds no memory. *)
LEMMA NoneAddedStep ==
    ASSUME Orderly, NoneAdded, faults' = faults, faults \in Nat, NEW c \in Callers,
           \A d \in Callers \ {c} : pc'[d] = pc[d] /\ job'[d] = job[d],
           Checked(c)' => /\ job'[c].embeds /\ job'[c].op # "POST"
                          /\ Checked(c) \/ \A d \in Callers \ {c} : pc[d] = "idle",
           Lost' \subseteq Lost, Room(c)', Restating(c) => Stays(c)
    PROVE  Orderly'
<1>1. OneChecked' /\ \A d \in Callers : Checked(d)' => job'[d].embeds /\ job'[d].op # "POST"
  BY DEF Orderly, OneChecked, Checked
<1>2. ASSUME NEW d \in Callers \ {c} PROVE Room(d)'
  <2>1. CASE Checked(d) /\ pc[d] = "insert"
    <3>1. PICK t : t = job[d].text
      OBVIOUS
    <3>2. Served(t)' \subseteq Served(t) /\ Excused(t)' = Excused(t)
      BY NoneAddedSets
    <3> QED
      BY <2>1, <3>1, <3>2, RoomStays DEF Orderly
  <2>2. CASE ~(Checked(d) /\ pc[d] = "insert")
    BY <2>2 DEF Room, Checked
  <2> QED
    BY <2>1, <2>2
<1>3. \A d \in Callers : Restating(d) => Stays(d)
  BY DEF Stays, Restating, Checked
<1>4. \A t \in Texts : Few(t)'
  BY <1>3, FewStays DEF Orderly
<1>5. Cardinality(Lost') <= faults'
  BY LostStays DEF Orderly
<1> QED
  BY <1>1, <1>2, <1>4, <1>5 DEF Orderly

(* Nothing becomes lost when no call drops the memory in its hands. *)
LEMMA LostStill ==
    ASSUME NoneAdded, \A m \in Stored : InHand(m) => InHand(m)' \/ mem'[m].cached
    PROVE  Lost' \subseteq Lost
BY DEF NoneAdded, Lost

LEMMA StillInHand ==
    ASSUME NEW c \in Callers, pc[c] # "embed",
           \A d \in Callers \ {c} : pc'[d] = pc[d] /\ job'[d] = job[d]
    PROVE  \A m : InHand(m) => InHand(m)'
BY DEF InHand

LEMMA MemSame == ASSUME mem' = mem, today' = today PROVE NoneAdded
BY DEF NoneAdded, Stored, Unexpired

(* A call that changes no memory goes on, or one begins that stores none.  *)
LEMMA ReadOnlyStep ==
    ASSUME MemoriesIInv, Orderly, mem' = mem, today' = today, faults' = faults, faults \in Nat,
           NEW c \in Callers, NEW to \in PC \ {"insert", "embed", "restated"}, NEW j, Goto(c, to, j),
           pc[c] \notin {"embed", "restated"}
    PROVE  Orderly'
<1>1. pc'[c] = to /\ \A d \in Callers \ {c} : pc'[d] = pc[d] /\ job'[d] = job[d]
  BY MovesOne
<1>2. ~Checked(c)' /\ Room(c)' /\ ~Restating(c)
  BY <1>1 DEF Room, Restating, Checked
<1>3. NoneAdded /\ Lost' \subseteq Lost
  BY <1>1, MemSame, LostStill, StillInHand
<1> QED
  BY <1>1, <1>2, <1>3, NoneAddedStep

(* What the search finds makes room: what it overlooks is excused or lost. *)
LEMMA FindsRoom ==
    ASSUME Orderly, faults \in Nat, \A c \in Callers : pc[c] = "idle", NEW t \in Texts,
           NEW old \in NearDuplicate(t)
    PROVE  Cardinality(Served(t) \ {old}) <= Cardinality(Excused(t)) + faults
<1>1. /\ IsFiniteSet(Served(t)) /\ IsFiniteSet(Excused(t)) /\ IsFiniteSet(Lost)
      /\ Cardinality(Excused(t)) \in Nat
      /\ Cardinality(Served(t)) \in Nat /\ Cardinality(Lost) \in Nat
  BY FiniteCopies
<1>2. Cardinality(Served(t)) <= 1 + Cardinality(Excused(t)) + faults /\ Cardinality(Lost) <= faults
  <2>1. Leaving = {}
    BY DEF Leaving, Restating, Checked
  <2>2. Served(t) \ Leaving = Served(t)
    BY <2>1
  <2> QED
    BY <2>2 DEF Orderly, Few
<1>3. CASE old \in Served(t)
  <2>1. Cardinality(Served(t) \ {old}) = Cardinality(Served(t)) - 1
    BY <1>1, <1>3, FS_RemoveElement
  <2> QED
    BY <1>1, <1>2, <2>1
<1>4. CASE old \notin Served(t)
  <2>1. ASSUME NEW m \in Served(t) PROVE m \in Excused(t) \cup Lost
    <3>1. ~mem[m].cached
      <4> SUFFICES ASSUME mem[m].cached PROVE FALSE
        OBVIOUS
      <4>1. m \in VectorSearch /\ mem[m].text = t /\ <<t, t>> \in Near
        BY MemoriesAssumption DEF Served, Copies, VectorSearch
      <4>2. old \in VectorSearch /\ mem[old].text = t
        BY <4>1 DEF NearDuplicate
      <4> QED
        BY <1>4, <4>2 DEF Served, Copies, VectorSearch
    <3>2. ~InHand(m)
      BY DEF InHand
    <3> QED
      BY <3>1, <3>2 DEF Served, Copies, Excused, Lost
  <2>2. Served(t) \ {old} \subseteq Excused(t) \cup Lost
    BY <2>1
  <2>3. /\ IsFiniteSet(Excused(t) \cup Lost)
        /\ Cardinality(Excused(t) \cup Lost) <= Cardinality(Excused(t)) + Cardinality(Lost)
    <3>1. /\ IsFiniteSet(Excused(t) \cup Lost)
          /\ Cardinality(Excused(t) \cup Lost)
               = Cardinality(Excused(t)) + Cardinality(Lost) - Cardinality(Excused(t) \cap Lost)
      BY <1>1, FS_Union
    <3>2. Cardinality(Excused(t) \cap Lost) \in Nat
      BY <1>1, FS_Subset, FS_CardinalityType
    <3> QED
      BY <1>1, <3>1, <3>2
  <2>4. /\ Cardinality(Served(t) \ {old}) <= Cardinality(Excused(t) \cup Lost)
        /\ Cardinality(Served(t) \ {old}) \in Nat /\ Cardinality(Excused(t) \cup Lost) \in Nat
    BY <2>2, <2>3, FewerStill
  <2> QED
    BY <1>1, <1>2, <2>3, <2>4
<1> QED
  BY <1>3, <1>4

LEMMA BeginMemoryStoreCopies ==
    ASSUME MemoriesIInv, Orderly, faults \in Nat, NEW c \in Callers, BeginMemoryStore(c)
    PROVE  Orderly'
<1>1. PICK t \in Texts, embeds \in BOOLEAN :
        \E old \in IF embeds THEN NearDuplicate(t) ELSE {None} :
          Begin(c, "insert", [NoJob EXCEPT !.op = "memory_store", !.text = t, !.other = old,
                                           !.embeds = embeds, !.unchecked = ~embeds \/ Busy(c)])
  BY DEF BeginMemoryStore
<1>2. PICK old : /\ embeds => old \in NearDuplicate(t)
                 /\ Begin(c, "insert", [NoJob EXCEPT !.op = "memory_store", !.text = t, !.other = old,
                                           !.embeds = embeds, !.unchecked = ~embeds \/ Busy(c)])
  BY <1>1
<1> DEFINE j == [NoJob EXCEPT !.op = "memory_store", !.text = t, !.other = old,
                              !.embeds = embeds, !.unchecked = ~embeds \/ Busy(c)]
<1>3. /\ j.text = t /\ j.other = old /\ j.embeds = embeds /\ j.op # "POST"
      /\ ~j.unchecked => embeds /\ ~Busy(c)
  BY DEF NoJob
<1>4. /\ mem' = mem /\ today' = today /\ faults' = faults /\ pc[c] = "idle"
      /\ Goto(c, "insert", j)
  BY <1>2 DEF BeginMemoryStore, tables, Begin
<1> HIDE DEF j
<1>5. /\ pc'[c] = "insert" /\ job'[c] = j
      /\ \A d \in Callers \ {c} : pc'[d] = pc[d] /\ job'[d] = job[d]
  BY <1>4, MovesOne
<1>6. Checked(c)' => embeds /\ \A d \in Callers \ {c} : pc[d] = "idle"
  BY <1>3, <1>5 DEF Checked, Busy
<1>7. Served(t)' = Served(t) /\ Excused(t)' = Excused(t)
  BY <1>4 DEF Served, Excused, Copies, Stored, Unexpired
<1>8. Room(c)'
  <2>1. CASE Checked(c)'
    <3>1. embeds /\ \A d \in Callers : pc[d] = "idle"
      BY <1>4, <1>6, <2>1
    <3>2. Cardinality(Served(t) \ {old}) <= Cardinality(Excused(t)) + faults
      BY <1>2, <3>1, FindsRoom
    <3> QED
      BY <1>3, <1>4, <1>5, <1>7, <3>2 DEF Room
  <2>2. CASE ~Checked(c)'
    BY <2>2 DEF Room
  <2> QED
    BY <2>1, <2>2
<1>9. NoneAdded /\ Lost' \subseteq Lost /\ ~Restating(c)
  BY <1>4, <1>5, MemSame, LostStill, StillInHand DEF Restating, Checked
<1>10. Checked(c)' => job'[c].embeds /\ job'[c].op # "POST"
  BY <1>3, <1>5, <1>6
<1> QED
  BY <1>4, <1>5, <1>6, <1>8, <1>9, <1>10, NoneAddedStep

LEMMA BeginPostCopies ==
    ASSUME MemoriesIInv, Orderly, faults \in Nat, NEW c \in Callers, BeginPost(c) PROVE Orderly'
<1>1. PICK t \in Texts, embeds \in BOOLEAN :
        Begin(c, "insert", [NoJob EXCEPT !.op = "POST", !.text = t, !.embeds = embeds,
                                         !.unchecked = TRUE])
  BY DEF BeginPost
<1> DEFINE j == [NoJob EXCEPT !.op = "POST", !.text = t, !.embeds = embeds, !.unchecked = TRUE]
<1>2. j.unchecked
  BY DEF NoJob
<1>3. /\ mem' = mem /\ today' = today /\ faults' = faults /\ pc[c] = "idle" /\ Goto(c, "insert", j)
  BY <1>1 DEF BeginPost, tables, Begin
<1> HIDE DEF j
<1>4. /\ pc'[c] = "insert" /\ job'[c] = j
      /\ \A d \in Callers \ {c} : pc'[d] = pc[d] /\ job'[d] = job[d]
  BY <1>3, MovesOne
<1>5. ~Checked(c)' /\ Room(c)' /\ ~Restating(c)
  BY <1>2, <1>3, <1>4 DEF Room, Restating, Checked
<1>6. NoneAdded /\ Lost' \subseteq Lost
  BY <1>3, <1>4, MemSame, LostStill, StillInHand
<1> QED
  BY <1>3, <1>4, <1>5, <1>6, NoneAddedStep

LEMMA InsertMemoryCopies ==
    ASSUME MemoriesIInv, Orderly, faults \in Nat, NEW c \in Callers, InsertMemory(c) PROVE Orderly'
<1>1. PICK m \in Ids \ Stored, v \in ValidAts \cup {None}, d \in Dates \cup {None},
           tagged \in BOOLEAN :
        /\ job[c].op = "POST" => v = None /\ d = None
        /\ mem' = [mem EXCEPT ![m] =
             [NoRow EXCEPT !.text = job[c].text, !.valid = v, !.expires = d, !.given = d,
                           !.created = Epoch + 1 + Cardinality(Stored),
                           !.forgotten = tagged, !.tagged = tagged,
                           !.unchecked = job[c].unchecked]]
        /\ Goto(c, IF job[c].embeds THEN "embed" ELSE "idle", [job[c] EXCEPT !.id = m])
  BY DEF InsertMemory
<1> DEFINE x == [NoRow EXCEPT !.text = job[c].text, !.valid = v, !.expires = d, !.given = d,
                              !.created = Epoch + 1 + Cardinality(Stored),
                              !.forgotten = tagged, !.tagged = tagged,
                              !.unchecked = job[c].unchecked]
           j == [job[c] EXCEPT !.id = m]
           to == IF job[c].embeds THEN "embed" ELSE "idle"
           u == job[c].text
<1>2. pc[c] = "insert" /\ today' = today /\ faults' = faults
  BY DEF InsertMemory
<1>3. job[c] \in Jobs /\ mem \in [Ids -> MemoryRows]
  BY DEF MemoriesIInv, MemoriesShaped
<1>4. x.text = u /\ x.unchecked = job[c].unchecked /\ x.created # None
  BY StoredCount DEF NoRow, None
<1>5. /\ j.id = m /\ j.op = job[c].op /\ j.other = job[c].other /\ j.text = u
      /\ j.embeds = job[c].embeds /\ j.unchecked = job[c].unchecked
  BY <1>3 DEF Jobs
<1>6. mem' = [mem EXCEPT ![m] = x] /\ Goto(c, to, j)
  BY <1>1
<1>7. (job[c].embeds => to = "embed") /\ (~job[c].embeds => to = "idle")
  OBVIOUS
<1> HIDE DEF x, j, to
<1>8. mem'[m] = x /\ \A n \in Ids \ {m} : mem'[n] = mem[n]
  BY <1>3, <1>6
<1>9. Stored' = Stored \cup {m}
  BY <1>4, <1>8 DEF Stored
<1>10. /\ pc'[c] = to /\ (to # "idle" => job'[c] = j)
       /\ \A e \in Callers \ {c} : pc'[e] = pc[e] /\ job'[e] = job[e]
  BY <1>6, MovesOne
<1>11. /\ Checked(c) => to = "embed" /\ job[c].embeds
       /\ Checked(c)' <=> Checked(c)
       /\ Checked(c)' => /\ job'[c].embeds /\ job'[c].op # "POST"
                         /\ job'[c].other = job[c].other
  <2>1. Checked(c) => job[c].embeds /\ job[c].op # "POST"
    BY DEF Orderly
  <2>2. CASE job[c].embeds
    <3>1. to = "embed" /\ pc'[c] = "embed" /\ job'[c] = j
      BY <1>7, <1>10, <2>2
    <3>2. Checked(c)' <=> Checked(c)
      BY <1>2, <1>5, <3>1, Zenon DEF Checked
    <3> QED
      BY <1>5, <2>1, <3>1, <3>2
  <2>3. CASE ~job[c].embeds
    BY <1>7, <1>10, <2>1, <2>3 DEF Checked
  <2> QED
    BY <2>1, <2>2, <2>3, <1>7
<1>12. OneChecked' /\ \A e \in Callers : Checked(e)' => job'[e].embeds /\ job'[e].op # "POST"
  BY <1>10, <1>11 DEF Orderly, OneChecked, Checked
<1>13. /\ ~Restating(c)
       /\ Checked(c) => Leaving = {} /\ Leaving' = {job[c].other}
       /\ ~Checked(c) => Leaving' = Leaving
  <2>1. ~Restating(c) /\ (Restating(c)' <=> Checked(c))
    BY <1>2, <1>10, <1>11 DEF Restating
  <2>2. \A e \in Callers \ {c} : Restating(e)' = Restating(e) /\ job'[e] = job[e]
    BY <1>10 DEF Restating, Checked
  <2>3. ASSUME Checked(c) PROVE Leaving = {} /\ Leaving' = {job[c].other}
    <3>1. \A e \in Callers \ {c} : ~Restating(e) /\ ~Restating(e)'
      BY <2>2, <2>3 DEF Orderly, OneChecked, Restating
    <3> QED
      BY <1>11, <2>1, <2>3, <3>1 DEF Leaving
  <2>4. ASSUME ~Checked(c) PROVE Leaving' = Leaving
    <3>1. {e \in Callers : Restating(e)}' = {e \in Callers : Restating(e)}
      BY <2>1, <2>2, <2>4
    <3>2. \A e \in Callers : Restating(e) => job'[e] = job[e]
      BY <2>1, <2>2
    <3> QED
      BY <3>1, <3>2 DEF Leaving
  <2> QED
    BY <2>1, <2>3, <2>4
<1>14. Cardinality(Lost') <= faults'
  <2>1. ASSUME NEW n \in Stored' , ~mem'[n].cached, ~mem'[n].unchecked, ~InHand(n)'
        PROVE  n \in Lost
    <3>1. CASE n = m
      <4>2. to # "embed"
        BY <1>5, <1>10, <2>1, <3>1 DEF InHand
      <4>3. job[c].unchecked
        BY <1>2, <1>11, <4>2 DEF Checked
      <4> QED
        BY <1>4, <1>8, <2>1, <3>1, <4>3
    <3>2. CASE n # m
      <4>1. n \in Stored /\ mem'[n] = mem[n]
        BY <1>8, <1>9, <3>2 DEF Stored
      <4>2. ~InHand(n)
        BY <1>2, <1>10, <2>1 DEF InHand
      <4> QED
        BY <2>1, <4>1, <4>2 DEF Lost
    <3> QED
      BY <3>1, <3>2
  <2>2. Lost' \subseteq Lost
    BY <2>1 DEF Lost
  <2> QED
    BY <1>2, <2>2, LostStays DEF Orderly
<1>15. ASSUME NEW t \in Texts
       PROVE  /\ m \notin Excused(t)
              /\ Excused(t)' = IF t = u /\ job[c].unchecked THEN Excused(t) \cup {m} ELSE Excused(t)
              /\ Served(t)' \subseteq IF t = u THEN Served(t) \cup {m} ELSE Served(t)
  <2>1. m \notin Excused(t) /\ Excused(t)' = IF t = u /\ job[c].unchecked
                                            THEN Excused(t) \cup {m} ELSE Excused(t)
    BY <1>4, <1>8, <1>9 DEF Excused, Copies, Stored
  <2>2. Served(t)' \subseteq IF t = u THEN Served(t) \cup {m} ELSE Served(t)
    BY <1>2, <1>4, <1>8, <1>9 DEF Served, Copies, Stored, Unexpired
  <2> QED
    BY <2>1, <2>2
<1>16. ASSUME NEW e \in Callers PROVE Room(e)'
  <2>1. CASE e = c
    BY <1>7, <1>10, <2>1 DEF Room
  <2>2. CASE e # c /\ ~(Checked(e) /\ pc[e] = "insert")
    BY <1>10, <2>2 DEF Room, Checked
  <2>3. CASE e # c /\ Checked(e) /\ pc[e] = "insert"
    <3>1. PICK t : t = job[e].text
      OBVIOUS
    <3>2. t \in Texts /\ pc'[e] = pc[e] /\ job'[e] = job[e] /\ Room(e)
      BY <1>10, <2>3, <3>1 DEF MemoriesIInv, MemoriesShaped, Jobs, Orderly
    <3>3. job[c].unchecked
      BY <1>2, <2>3 DEF Orderly, OneChecked, Checked
    <3>4. \/ Served(t)' \subseteq Served(t) /\ Excused(t)' = Excused(t)
          \/ /\ Served(t)' \subseteq Served(t) \cup {m} /\ m \notin Excused(t)
             /\ Excused(t)' = Excused(t) \cup {m}
      BY <1>15, <3>2, <3>3
    <3> QED
      BY <1>2, <2>3, <3>1, <3>2, <3>4, RoomStays
  <2> QED
    BY <2>1, <2>2, <2>3
<1>17. ASSUME NEW t \in Texts PROVE Few(t)'
  <2>1. /\ IsFiniteSet(Served(t)) /\ IsFiniteSet(Excused(t))
        /\ Cardinality(Excused(t)) \in Nat /\ Cardinality(Served(t)) \in Nat
    BY FiniteCopies
  <2>2. Few(t)
    BY DEF Orderly
  <2>3. CASE t # u
    <3>1. Served(t)' \ Leaving' \subseteq Served(t) \ Leaving /\ Excused(t)' = Excused(t)
      BY <1>13, <1>15, <2>3
    <3>2. /\ Cardinality(Served(t)' \ Leaving') <= Cardinality(Served(t) \ Leaving)
          /\ Cardinality(Served(t)' \ Leaving') \in Nat /\ Cardinality(Served(t) \ Leaving) \in Nat
      BY <2>1, <3>1, FS_Subset, FewerStill
    <3>3. Cardinality(Served(t)' \ Leaving') <= 1 + Cardinality(Excused(t)') + faults'
      BY <1>2, <2>1, <2>2, <3>1, <3>2 DEF Few
    <3> QED
      BY <3>3 DEF Few
  <2>4. CASE t = u /\ job[c].unchecked
    <3>1. /\ Served(t)' \ Leaving' \subseteq (Served(t) \ Leaving) \cup {m}
          /\ Excused(t)' = Excused(t) \cup {m} /\ m \notin Excused(t)
      <4>1. Leaving' = Leaving
        BY <1>13, <2>4 DEF Checked
      <4> QED
        BY <1>15, <2>4, <4>1
    <3>2. Cardinality(Excused(t)') = Cardinality(Excused(t)) + 1
      BY <2>1, <3>1, OneMore
    <3>3. /\ Cardinality(Served(t)' \ Leaving') <= Cardinality(Served(t) \ Leaving) + 1
          /\ Cardinality(Served(t)' \ Leaving') \in Nat /\ Cardinality(Served(t) \ Leaving) \in Nat
      BY <2>1, <3>1, FS_Subset, AtMostOneMore
    <3>4. Cardinality(Served(t)' \ Leaving') <= 1 + Cardinality(Excused(t)') + faults'
      BY <1>2, <2>1, <2>2, <3>2, <3>3 DEF Few
    <3> QED
      BY <3>4 DEF Few
  <2>5. CASE t = u /\ ~job[c].unchecked
    <3> DEFINE rest == Served(t) \ {job[c].other}
    <3>1. Served(t)' \ Leaving' \subseteq rest \cup {m} /\ Excused(t)' = Excused(t)
      BY <1>2, <1>13, <1>15, <2>5 DEF Checked
    <3>2. Cardinality(rest) <= Cardinality(Excused(t)) + faults /\ IsFiniteSet(rest)
      BY <1>2, <2>1, <2>5, FS_Subset DEF Orderly, Room, Checked
    <3> HIDE DEF rest
    <3>3. /\ Cardinality(Served(t)' \ Leaving') <= Cardinality(rest) + 1
          /\ Cardinality(Served(t)' \ Leaving') \in Nat /\ Cardinality(rest) \in Nat
      BY <3>1, <3>2, AtMostOneMore
    <3>4. Cardinality(Served(t)' \ Leaving') <= 1 + Cardinality(Excused(t)') + faults'
      BY <1>2, <2>1, <3>1, <3>2, <3>3
    <3> QED
      BY <3>4 DEF Few
  <2> QED
    BY <2>3, <2>4, <2>5
<1> QED
  BY <1>12, <1>14, <1>16, <1>17 DEF Orderly

LEMMA CacheVectorCopies ==
    ASSUME MemoriesIInv, Orderly, faults \in Nat, NEW c \in Callers, CacheVector(c) PROVE Orderly'
<1> DEFINE to == IF job[c].op = "POST" THEN "detect"
                 ELSE IF job[c].other # None THEN "restated" ELSE "idle"
<1>1. PICK m : m = job[c].id
  OBVIOUS
<1>2. /\ pc[c] = "embed" /\ today' = today /\ mem' = [mem EXCEPT ![m].cached = TRUE]
      /\ Goto(c, to, job[c]) /\ faults' = faults
  BY <1>1 DEF CacheVector
<1>3. m \in Ids /\ mem \in [Ids -> MemoryRows] /\ mem[m] \in MemoryRows
  BY <1>1, <1>2 DEF MemoriesIInv, MemoriesShaped, JobOK, Stored
<1>4. mem'[m].cached /\ \A n \in Ids :
        /\ mem'[n].text = mem[n].text /\ mem'[n].unchecked = mem[n].unchecked
        /\ mem'[n].by = mem[n].by /\ mem'[n].expires = mem[n].expires
        /\ mem'[n].created = mem[n].created /\ (mem[n].cached => mem'[n].cached)
  BY <1>2, <1>3 DEF MemoryRows
<1>5. NoneAdded
  BY <1>2, <1>4 DEF NoneAdded, Stored, Unexpired
<1>6. to \in {"detect", "restated", "idle"}
  OBVIOUS
<1>7. /\ pc'[c] = to /\ (to # "idle" => job'[c] = job[c])
      /\ \A d \in Callers \ {c} : pc'[d] = pc[d] /\ job'[d] = job[d]
  BY <1>2, MovesOne
<1>8. Lost' \subseteq Lost
  <2>1. \A n \in Stored : InHand(n) => InHand(n)' \/ mem'[n].cached
    BY <1>1, <1>4, <1>7 DEF InHand
  <2> QED
    BY <1>5, <2>1, LostStill
<1>9. Checked(c)' => Checked(c) /\ job'[c].embeds /\ job'[c].op # "POST"
  <2>1. Checked(c)' => Checked(c) /\ job'[c] = job[c]
    BY <1>2, <1>6, <1>7 DEF Checked
  <2> QED
    BY <2>1 DEF Orderly
<1>10. Room(c)'
  BY <1>6, <1>7 DEF Room
<1>11. Restating(c) => Stays(c)
  <2>1. CASE job[c].other = None
    BY <2>1, IdsAreNotNone DEF Stays, Served, Copies, Stored
  <2>2. CASE job[c].other # None
    <3> SUFFICES ASSUME Restating(c) PROVE Stays(c)
      OBVIOUS
    <3>1. to = "restated"
      BY <2>2 DEF Restating, Orderly
    <3> QED
      BY <1>2, <1>7, <3>1 DEF Stays, Restating, Checked
  <2> QED
    BY <2>1, <2>2
<1> HIDE DEF to
<1> QED
  BY <1>2, <1>5, <1>7, <1>8, <1>9, <1>10, <1>11, NoneAddedStep

(* A memory is superseded, or forgotten. *)
LEMMA SupersededCopies ==
    ASSUME MemoriesIInv, Orderly, faults \in Nat, NEW c \in Callers,
           SupersedeRestated(c) \/ SupersedeLoser(c)
    PROVE  Orderly'
<1>1. PICK old, new, to, j :
        /\ old = job[c].other /\ new = job[c].id /\ Supersede(old, new) /\ Goto(c, to, j)
        /\ to \in {"idle", "mark"} /\ pc[c] \in {"restated", "supersede"} /\ today' = today
        /\ faults' = faults
  BY DEF SupersedeRestated, SupersedeLoser
<1>2. old \in Stored /\ old \in Ids /\ new \in Ids /\ new # None
      /\ mem \in [Ids -> MemoryRows] /\ mem[old] \in MemoryRows
  BY <1>1, IdsAreNotNone DEF MemoriesIInv, MemoriesShaped, JobOK, Stored
<1>3. mem'[old].by = new /\ \A n \in Ids :
        /\ mem'[n].text = mem[n].text /\ mem'[n].unchecked = mem[n].unchecked
        /\ (n # old => mem'[n].by = mem[n].by) /\ mem'[n].expires = mem[n].expires
        /\ mem'[n].created = mem[n].created /\ mem'[n].cached = mem[n].cached
  BY <1>1, <1>2 DEF Supersede, MemoryRows
<1>4. NoneAdded
  BY <1>1, <1>2, <1>3 DEF NoneAdded, Stored, Unexpired
<1>5. /\ pc'[c] = to /\ \A d \in Callers \ {c} : pc'[d] = pc[d] /\ job'[d] = job[d]
  BY <1>1, MovesOne
<1>6. Lost' \subseteq Lost
  BY <1>1, <1>4, <1>5, LostStill, StillInHand
<1>7. ~Checked(c)' /\ Room(c)' /\ Stays(c)
  BY <1>1, <1>2, <1>3, <1>5 DEF Room, Stays, Served, Checked
<1> QED
  BY <1>1, <1>4, <1>5, <1>6, <1>7, NoneAddedStep

LEMMA ForgetCopies ==
    ASSUME MemoriesIInv, Orderly, faults \in Nat, NEW c \in Callers, Forget(c) PROVE Orderly'
<1>1. PICK m \in Stored : ForgetRow(m)
  BY DEF Forget
<1>2. /\ UNCHANGED <<pc, job, today, faults>> /\ pc[c] = "idle" /\ today \in Nat /\ today >= 2
  BY DEF Forget, local, MemoriesIInv, MemoriesShaped
<1>3. m \in Ids /\ mem \in [Ids -> MemoryRows] /\ mem[m] \in MemoryRows
  BY DEF MemoriesIInv, MemoriesShaped, Stored
<1>4. \A n \in Ids :
        /\ mem'[n].text = mem[n].text /\ mem'[n].unchecked = mem[n].unchecked
        /\ mem'[n].by = mem[n].by
        /\ mem'[n].created = mem[n].created /\ mem'[n].cached = mem[n].cached
        /\ mem'[n].expires \in {mem[n].expires, today - 1}
  BY <1>1, <1>3 DEF ForgetRow, MemoryRows
<1>5. today - 1 # None /\ ~(today - 1 >= today)
  BY <1>2 DEF None
<1>6. NoneAdded
  BY <1>2, <1>4, <1>5 DEF NoneAdded, Stored, Unexpired
<1>7. ~Checked(c)' /\ Room(c)' /\ ~Restating(c)
  BY <1>2 DEF Room, Restating, Checked
<1>8. Lost' \subseteq Lost
  BY <1>2, <1>6, LostStill, StillInHand
<1> QED
  BY <1>2, <1>6, <1>7, <1>8, NoneAddedStep

(* Nobody moves. *)
LEMMA NobodyMoves ==
    ASSUME Orderly, faults \in Nat, NoneAdded, UNCHANGED <<pc, job, faults>> PROVE Orderly'
<1>1. OneChecked' /\ \A c \in Callers : Checked(c)' => job'[c].embeds /\ job'[c].op # "POST"
  BY DEF Orderly, OneChecked, Checked
<1>2. ASSUME NEW c \in Callers PROVE Room(c)'
  <2>1. PICK t : t = job[c].text
    OBVIOUS
  <2>2. Served(t)' \subseteq Served(t) /\ Excused(t)' = Excused(t)
    BY NoneAddedSets
  <2>3. CASE Checked(c) /\ pc[c] = "insert"
    BY <2>1, <2>2, <2>3, RoomStays DEF Orderly
  <2>4. CASE ~(Checked(c) /\ pc[c] = "insert")
    BY <2>4 DEF Room, Checked
  <2> QED
    BY <2>3, <2>4
<1>3. \A c \in Callers : Restating(c) => Stays(c)
  BY DEF Stays, Restating, Checked
<1>4. \A t \in Texts : Few(t)'
  BY <1>3, FewStays DEF Orderly
<1>5. Lost' \subseteq Lost
  BY LostStill DEF InHand
<1> QED
  BY <1>1, <1>2, <1>4, <1>5, LostStays DEF Orderly

LEMMA NextDayCopies == ASSUME MemoriesIInv, Orderly, faults \in Nat, NextDay PROVE Orderly'
<1>1. UNCHANGED <<mem, pc, job, faults>> /\ today' = today + 1 /\ today \in Nat
  BY DEF NextDay, local, MemoriesIInv, MemoriesShaped
<1>2. NoneAdded
  <2> SUFFICES ASSUME NEW m \in Stored, Unexpired(m)' PROVE Unexpired(m)
    BY <1>1 DEF NoneAdded, Stored
  <2>1. mem[m].expires \in Nat
    BY DEF Stored, MemoriesIInv, MemoriesShaped, MemoryRows
  <2> QED
    BY <1>1, <2>1 DEF Unexpired
<1> QED
  BY <1>1, <1>2, NobodyMoves

LEMMA ReadOnlyCopies ==
    ASSUME MemoriesIInv, Orderly, faults \in Nat, NEW c \in Callers,
           Detect(c) \/ StorePair(c) \/ BeginResolve(c) \/ BeginAuto(c) \/ ReadB(c) \/ MarkResolved(c)
    PROVE  Orderly'
<1>1. mem' = mem /\ today' = today /\ faults' = faults
  BY DEF Detect, StorePair, BeginResolve, BeginAuto, ReadB, MarkResolved, tables
<1>2. \E to \in PC \ {"insert", "embed", "restated"} : \E j :
        Goto(c, to, j) /\ pc[c] \notin {"embed", "restated"}
  <2>1. CASE Detect(c) \/ StorePair(c)
    BY <2>1 DEF Detect, StorePair, Begin, PC
  <2>2. CASE BeginResolve(c)
    BY <2>2 DEF BeginResolve, Begin, PC
  <2>3. CASE BeginAuto(c)
    BY <2>3 DEF BeginAuto, Begin, PC
  <2>4. CASE ReadB(c) \/ MarkResolved(c)
    BY <2>4 DEF ReadB, MarkResolved, PC
  <2> QED
    BY <2>1, <2>2, <2>3, <2>4
<1> QED
  BY <1>1, <1>2, ReadOnlyStep

(* A call that ends half-way leaves at most one memory that is lost, or    *)
(* one that is not superseded.                                             *)
LEMMA FailCopies ==
    ASSUME MemoriesIInv, Orderly, faults \in Nat, NEW c \in Callers, Fail(c) PROVE Orderly'
<1>1. mem' = mem /\ today' = today /\ faults' = faults + 1 /\ Goto(c, "idle", NoJob)
  BY DEF Fail, tables
<1>2. pc'[c] = "idle" /\ \A d \in Callers \ {c} : pc'[d] = pc[d] /\ job'[d] = job[d]
  BY <1>1, MovesOne
<1>3. \A t : Served(t)' = Served(t) /\ Excused(t)' = Excused(t)
  BY <1>1 DEF Served, Excused, Copies, Stored, Unexpired
<1>4. OneChecked' /\ \A d \in Callers : Checked(d)' => job'[d].embeds /\ job'[d].op # "POST"
  BY <1>2 DEF Orderly, OneChecked, Checked
<1>5. Cardinality(Lost') <= faults'
  <2>1. Lost' \subseteq Lost \cup {job[c].id}
    BY <1>1, <1>2 DEF Lost, InHand, Stored
  <2>2. IsFiniteSet(Lost) /\ Cardinality(Lost) <= faults
    BY FiniteCopies DEF Orderly
  <2>3. Cardinality(Lost') <= Cardinality(Lost) + 1 /\ Cardinality(Lost') \in Nat
        /\ Cardinality(Lost) \in Nat
    BY <2>1, <2>2, AtMostOneMore
  <2> QED
    BY <1>1, <2>2, <2>3
<1>6. ASSUME NEW d \in Callers PROVE Room(d)'
  <2>1. CASE d # c /\ Checked(d) /\ pc[d] = "insert"
    <3>1. PICK t : t = job[d].text
      OBVIOUS
    <3> QED
      BY <1>1, <1>2, <1>3, <2>1, <3>1, RoomStays DEF Orderly
  <2>2. CASE d = c \/ ~(Checked(d) /\ pc[d] = "insert")
    BY <1>2, <2>2 DEF Room, Checked
  <2> QED
    BY <2>1, <2>2
<1>7. ASSUME NEW t \in Texts PROVE Few(t)'
  <2>1. Leaving \subseteq Leaving' \cup {job[c].other}
    BY <1>2 DEF Leaving, Restating, Checked
  <2>2. Served(t)' \ Leaving' \subseteq (Served(t) \ Leaving) \cup {job[c].other}
    BY <1>3, <2>1
  <2>3. IsFiniteSet(Served(t) \ Leaving) /\ Cardinality(Excused(t)) \in Nat
    BY FiniteCopies, FS_Subset
  <2>4. /\ Cardinality(Served(t)' \ Leaving') <= Cardinality(Served(t) \ Leaving) + 1
        /\ Cardinality(Served(t)' \ Leaving') \in Nat /\ Cardinality(Served(t) \ Leaving) \in Nat
    BY <2>2, <2>3, AtMostOneMore
  <2>5. Cardinality(Served(t) \ Leaving) <= 1 + Cardinality(Excused(t)) + faults
    BY DEF Orderly, Few
  <2>6. Cardinality(Served(t)' \ Leaving') <= 1 + Cardinality(Excused(t)') + faults'
    BY <1>1, <1>3, <2>3, <2>4, <2>5
  <2> QED
    BY <2>6 DEF Few
<1> QED
  BY <1>4, <1>5, <1>6, <1>7 DEF Orderly

LEMMA InitOrderly == MemoriesInit => Orderly
<1> SUFFICES ASSUME MemoriesInit PROVE Orderly
  OBVIOUS
<1>1. Stored = {}
  BY NothingYet DEF MemoriesInit, Stored
<1>2. ASSUME NEW t \in Texts PROVE Few(t)
  <2>1. Served(t) \ Leaving = {} /\ Excused(t) = {}
    BY <1>1 DEF Served, Excused, Copies
  <2> QED
    BY <2>1, FS_EmptySet DEF Few, MemoriesInit
<1>3. Cardinality(Lost) <= faults
  <2>1. Lost = {}
    BY <1>1 DEF Lost
  <2> QED
    BY <2>1, FS_EmptySet DEF MemoriesInit
<1> QED
  BY <1>2, <1>3 DEF MemoriesInit, Orderly, OneChecked, Checked, Room

LEMMA NextOrderly == MemoriesIInv /\ TypeInv /\ Orderly /\ [MemoriesNext]_memoriesVars => Orderly'
<1> SUFFICES ASSUME MemoriesIInv, TypeInv, Orderly, [MemoriesNext]_memoriesVars PROVE Orderly'
  OBVIOUS
<1>1. faults \in Nat
  BY MemoriesAssumption DEF TypeInv
<1>2. CASE UNCHANGED memoriesVars
  <2>1. UNCHANGED <<mem, pc, job, today, faults>>
    BY <1>2 DEF memoriesVars
  <2> QED
    BY <1>1, <2>1, MemSame, NobodyMoves
<1>3. ASSUME NEW c \in Callers, Operation(c) PROVE Orderly'
  BY <1>1, <1>3, BeginMemoryStoreCopies, BeginPostCopies, InsertMemoryCopies, CacheVectorCopies,
     SupersededCopies, ForgetCopies, ReadOnlyCopies, FailCopies DEF Operation
<1> QED
  BY <1>1, <1>2, <1>3, NextDayCopies DEF MemoriesNext

(* Restating a fact does not pile up its copies, for any number of         *)
(* memories and callers that overlap and fail as they may, whatever is     *)
(* resolved, forgotten or expires in between: each memory beyond the first *)
(* is accounted for by a call that could not look, was disturbed or failed *)
(* (the near-duplicate search of memory_store).                            *)
THEOREM NoPile == MemoriesSpec => []NoCopiesPileUp
<1>1. Orderly => NoCopiesPileUp
  <2> SUFFICES ASSUME Orderly, \A c \in Callers : pc[c] = "idle", NEW t \in Texts
               PROVE  Cardinality({m \in Stored : mem[m].text = t} \cap SearchServes)
                        <= 1 + Cardinality({m \in {n \in Stored : mem[n].text = t} :
                                              mem[m].unchecked}) + faults
    BY DEF NoCopiesPileUp
  <2>1. Leaving = {}
    BY DEF Leaving, Restating, Checked
  <2>2. Served(t) \ Leaving = {m \in Stored : mem[m].text = t} \cap SearchServes
    BY <2>1 DEF Served, Copies, SearchServes, VectorSearch, KeywordSearch
  <2>3. Excused(t) = {m \in {n \in Stored : mem[n].text = t} : mem[m].unchecked}
    BY DEF Excused, Copies
  <2> QED
    BY <2>2, <2>3 DEF Orderly, Few
<1> QED
  BY <1>1, MemoriesInitIInv, InitTypeInv, InitOrderly, MemoriesNextIInv, NextTypeInv, NextOrderly, PTL
  DEF MemoriesSpec
=============================================================================
