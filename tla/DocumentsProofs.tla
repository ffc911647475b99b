-------------------------- MODULE DocumentsProofs --------------------------
(***************************************************************************)
(* Theorems about Documents, for any files, texts, models, programs and    *)
(* faults.                                                                 *)
(***************************************************************************)
EXTENDS Documents, TLAPS

Text    == Contents \cup {Missing}
RowVectors == [Backends -> Text]
DocumentRows == [path : Paths \cup {Missing}, text : Text, column : Text, vectors : RowVectors]
Items   == [row : RowIds \cup {0}, path : Paths, text : Contents \ {Missing}]
ProgramKinds   == {"none", "sync", "import", "reindex", "repair"}
ProgramPlaces  == {"idle", "next", "rename", "write", "update", "insert", "cache"}
Records == [kind : ProgramKinds, at : ProgramPlaces, backend : Backends \cup {"none"},
            seen : SUBSET VaultPaths, todo : SUBSET Items, item : Items \cup {NoItem},
            alone : BOOLEAN]

DocumentsShaped ==
    /\ disk \in [Files -> Text]
    /\ documents \in [RowIds -> DocumentRows]
    /\ worker \in [Workers -> Records]

(* A row without a path was never written, and a path has one row.         *)
Blanks ==
    \A r \in RowIds : IF documents[r].path = Missing
                      THEN documents[r].text = Missing /\ documents[r].column = Missing
                           /\ documents[r].vectors = NoVectors
                      ELSE documents[r].text # Missing

OneRowPerPath ==
    \A r, q \in RowIds :
      documents[r].path # Missing /\ documents[r].path = documents[q].path => r = q

(* The vectors of a row are of its text, or it is known why not. *)
OfText(row) ==
    /\ row.column \in {row.text, Missing}
    /\ \A m \in Backends : row.vectors[m] \in {row.text, Missing}

Matches(r) == r \in late \cup pulled \/ OfText(documents[r])

InUse(r) == r \in RowIds /\ documents[r].path # Missing

(* What program variables x are about. *)
Knows(x) ==
    /\ x.at \in {"rename", "cache"} => InUse(x.item.row)
    /\ x.at \in {"rename", "write", "update", "insert", "cache"} => x.item \in Items
    /\ x.at = "cache" => x.kind \in {"reindex", "repair"}
    /\ x.kind \in {"reindex", "repair"} => x.backend \in Backends
    /\ x.kind = "repair" => \A i \in x.todo : InUse(i.row)

DocumentsIInv ==
    /\ DocumentsShaped /\ Blanks /\ OneRowPerPath
    /\ \A r \in RowIds : Matches(r)
    /\ \A w \in Workers : Knows(worker[w])

-----------------------------------------------------------------------------
LEMMA NoPath == Missing \notin Paths /\ NoItem \notin Items /\ Files \subseteq Paths
BY DocumentsAssumption DEF Missing, Paths, Files, NoItem, Items

LEMMA IdleKnows == Idle \in Records /\ Knows(Idle)
<1>1. Idle \in Records
  BY DEF Idle, Records, ProgramKinds, ProgramPlaces
<1> QED
  BY <1>1 DEF Idle, Knows

LEMMA BlankRow == Blank \in DocumentRows /\ LegacyRows \subseteq DocumentRows
<1>1. NoVectors \in RowVectors
  BY DEF NoVectors, RowVectors, Text
<1>2. Blank \in DocumentRows
  BY <1>1 DEF Blank, DocumentRows, Text
<1>3. LegacyRows \subseteq DocumentRows
  BY <1>1 DEF LegacyRows, DocumentRows, Text, Paths
<1> QED
  BY <1>2, <1>3

LEMMA LegacyRow ==
    ASSUME NEW row \in LegacyRows
    PROVE  /\ row.path # Missing /\ row.text # Missing /\ row.column = Missing
           /\ row.vectors = NoVectors
BY DocumentsAssumption DEF LegacyRows, Missing

LEMMA DocumentsInitIInv == DocumentsInit => DocumentsIInv
<1> SUFFICES ASSUME DocumentsInit PROVE DocumentsIInv
  OBVIOUS
<1>0. documents \in [RowIds -> {Blank} \cup LegacyRows]
  BY DEF DocumentsInit
<1>1. DocumentsShaped
  <2>1. documents \in [RowIds -> DocumentRows]
    BY <1>0, BlankRow
  <2>2. disk \in [Files -> Text] /\ worker \in [Workers -> Records]
    BY IdleKnows DEF DocumentsInit, Text
  <2> QED
    BY <2>1, <2>2 DEF DocumentsShaped
<1>2. ASSUME NEW r \in RowIds
      PROVE  /\ documents[r].column = Missing /\ documents[r].vectors = NoVectors
             /\ (documents[r].path = Missing <=> documents[r].text = Missing)
  <2>1. CASE documents[r] = Blank
    BY <2>1 DEF Blank
  <2>2. CASE documents[r] \in LegacyRows
    BY <2>2, LegacyRow
  <2> QED
    BY <1>0, <2>1, <2>2
<1>3. Blanks
  BY <1>2 DEF Blanks
<1>4. OneRowPerPath
  BY DEF DocumentsInit, OneRowPerPath, StoredRows
<1>5. \A r \in RowIds : Matches(r)
  BY <1>2 DEF Matches, OfText, NoVectors
<1>6. \A w \in Workers : worker[w] = Idle
  BY DEF DocumentsInit
<1> QED
  BY <1>1, <1>3, <1>4, <1>5, <1>6, IdleKnows DEF DocumentsIInv

LEMMA Typed ==
    ASSUME DocumentsIInv
    PROVE  /\ disk \in [Files -> Text] /\ documents \in [RowIds -> DocumentRows]
           /\ worker \in [Workers -> Records]
BY DEF DocumentsIInv, DocumentsShaped

LEMMA Fields ==
    ASSUME NEW x \in Records
    PROVE  /\ x.kind \in ProgramKinds /\ x.at \in ProgramPlaces /\ x.todo \subseteq Items
           /\ x.item \in Items \cup {NoItem} /\ x.alone \in BOOLEAN
           /\ x.seen \subseteq VaultPaths /\ x.backend \in Backends \cup {"none"}
BY DEF Records

(* The same program, but for its being alone. *)
Same(x, y) ==
    /\ y \in Records /\ y.kind = x.kind /\ y.at = x.at /\ y.backend = x.backend
    /\ y.seen = x.seen /\ y.todo = x.todo /\ y.item = x.item

LEMMA KnowsOn ==
    ASSUME NEW x, NEW y, Same(x, y), Knows(x), \A q : InUse(q) => InUse(q)'
    PROVE  Knows(y)'
BY DEF Same, Knows

(* One program has gone on to x. *)
Moves(w, x) ==
    /\ worker' \in [Workers -> Records] /\ worker'[w] = x
    /\ \A v \in Workers \ {w} : Same(worker[v], worker'[v])

LEMMA AllKnow ==
    ASSUME DocumentsIInv, \A q : InUse(q) => InUse(q)',
           NEW w \in Workers, NEW x \in Records, Moves(w, x), Knows(x)'
    PROVE  \A v \in Workers : Knows(worker[v])'
<1> SUFFICES ASSUME NEW v \in Workers PROVE Knows(worker[v])'
  OBVIOUS
<1>1. CASE v = w
  BY <1>1 DEF Moves, Knows, InUse
<1>2. CASE v # w
  <2>1. PICK o, y : o = worker[v] /\ y = worker'[v] /\ Same(o, y) /\ Knows(o)
    BY <1>2 DEF Moves, DocumentsIInv
  <2>2. Knows(y)'
    BY <2>1, KnowsOn
  <2> QED
    BY <2>1, <2>2 DEF Knows, InUse
<1> QED
  BY <1>1, <1>2

LEMMA AllSame ==
    ASSUME DocumentsIInv, \A q : InUse(q) => InUse(q)',
           \A v \in Workers : Same(worker[v], worker'[v])
    PROVE  \A v \in Workers : Knows(worker[v])'
<1> SUFFICES ASSUME NEW v \in Workers PROVE Knows(worker[v])'
  OBVIOUS
<1>1. PICK o, y : o = worker[v] /\ y = worker'[v] /\ Same(o, y) /\ Knows(o)
  BY DEF DocumentsIInv
<1>2. Knows(y)'
  BY <1>1, KnowsOn
<1> QED
  BY <1>1, <1>2 DEF Knows, InUse

(* The rows stay as they are. *)
LEMMA RowsStay ==
    ASSUME DocumentsIInv, disk' \in [Files -> Text], documents' = documents,
           late \cup pulled \subseteq late' \cup pulled',
           worker' \in [Workers -> Records], \A v \in Workers : Knows(worker[v])'
    PROVE  DocumentsIInv'
<1>1. DocumentsShaped' /\ Blanks' /\ OneRowPerPath'
  BY DEF DocumentsIInv, DocumentsShaped, Blanks, OneRowPerPath
<1>2. \A r \in RowIds : Matches(r)'
  BY DEF DocumentsIInv, Matches, OfText
<1> QED
  BY <1>1, <1>2 DEF DocumentsIInv

LEMMA LocalStep ==
    ASSUME DocumentsIInv, NEW w \in Workers, NEW x \in Records, worker' = [worker EXCEPT ![w] = x]
    PROVE  Moves(w, x)
BY Typed DEF Moves, Same

LEMMA QuietStep ==
    ASSUME DocumentsIInv, disk' \in [Files -> Text], documents' = documents,
           late \cup pulled \subseteq late' \cup pulled',
           NEW w \in Workers, NEW x \in Records, Moves(w, x), Knows(x)
    PROVE  DocumentsIInv'
<1>1. \A q : InUse(q) => InUse(q)'
  BY DEF InUse
<1>2. Knows(x)'
  BY <1>1 DEF Knows
<1>3. worker' \in [Workers -> Records]
  BY DEF Moves
<1> QED
  BY <1>1, <1>2, <1>3, AllKnow, RowsStay

(* Row r becomes row. *)
Puts(r, row) == documents' = [documents EXCEPT ![r] = row]

LEMMA PutStep ==
    ASSUME DocumentsIInv, NEW r \in RowIds, NEW row \in DocumentRows, Puts(r, row),
           row.path \in Paths, row.text # Missing,
           \A q \in RowIds \ {r} : documents[q].path # row.path
    PROVE  /\ documents'[r] = row /\ \A q \in RowIds \ {r} : documents'[q] = documents[q]
           /\ documents' \in [RowIds -> DocumentRows] /\ Blanks' /\ OneRowPerPath'
           /\ \A q : InUse(q) => InUse(q)'
           /\ InUse(r)'
<1>1. documents'[r] = row /\ \A q \in RowIds \ {r} : documents'[q] = documents[q]
  BY Typed DEF Puts
<1>2. documents' \in [RowIds -> DocumentRows]
  BY Typed DEF Puts
<1>3. Blanks'
  BY <1>1, NoPath DEF DocumentsIInv, Blanks
<1>4. OneRowPerPath'
  BY <1>1 DEF DocumentsIInv, OneRowPerPath
<1>5. \A q : InUse(q) => InUse(q)'
  BY <1>1, NoPath DEF InUse
<1>6. InUse(r)'
  BY <1>1, NoPath DEF InUse
<1> QED
  BY <1>1, <1>2, <1>3, <1>4, <1>5, <1>6

LEMMA PutIInv ==
    ASSUME DocumentsIInv, NEW r \in RowIds, NEW row \in DocumentRows, Puts(r, row),
           row.path \in Paths, row.text # Missing,
           \A q \in RowIds \ {r} : documents[q].path # row.path,
           \A q \in RowIds \ {r} : q \in late \cup pulled => q \in late' \cup pulled',
           r \in late' \cup pulled' \/ OfText(row),
           disk' = disk, worker' \in [Workers -> Records], \A v \in Workers : Knows(worker[v])'
    PROVE  DocumentsIInv'
<1>1. /\ documents'[r] = row /\ \A q \in RowIds \ {r} : documents'[q] = documents[q]
      /\ documents' \in [RowIds -> DocumentRows] /\ Blanks' /\ OneRowPerPath'
  BY PutStep
<1>2. DocumentsShaped'
  BY <1>1, Typed DEF DocumentsShaped
<1>3. \A q \in RowIds : Matches(q)'
  BY <1>1 DEF DocumentsIInv, Matches, OfText
<1> QED
  BY <1>1, <1>2, <1>3 DEF DocumentsIInv

-----------------------------------------------------------------------------
(* Program variables that change. *)
LEMMA Others ==
    ASSUME DocumentsIInv, NEW w \in Workers
    PROVE  /\ Disturbed(w) \in [Workers -> Records] /\ Disturbed(w)[w] = worker[w]
           /\ \A v \in Workers \ {w} : Same(worker[v], Disturbed(w)[v])
<1>1. ASSUME NEW v \in Workers
      PROVE  /\ Disturbed(w)[v] \in Records /\ Same(worker[v], Disturbed(w)[v])
             /\ v = w => Disturbed(w)[v] = worker[v]
  <2>1. PICK x \in Records : x = worker[v]
    BY Typed
  <2>2. Disturbed(w)[v] = [x EXCEPT !.alone = x.alone /\ v = w]
    BY <2>1 DEF Disturbed
  <2>3. (x.alone /\ v = w) \in BOOLEAN /\ (v = w => (x.alone /\ v = w) = x.alone)
    BY Fields
  <2>4. [x EXCEPT !.alone = x.alone /\ v = w] \in Records
    BY <2>3 DEF Records
  <2>5. v = w => [x EXCEPT !.alone = x.alone /\ v = w] = x
    BY <2>3 DEF Records
  <2> QED
    BY <2>1, <2>2, <2>4, <2>5 DEF Same, Records
<1>2. Disturbed(w) = [v \in Workers |-> Disturbed(w)[v]]
  BY DEF Disturbed
<1> QED
  BY <1>1, <1>2

LEMMA DisturbTo ==
    ASSUME DocumentsIInv, NEW w \in Workers, NEW x \in Records, worker' = [Disturbed(w) EXCEPT ![w] = x]
    PROVE  Moves(w, x)
BY Others DEF Moves

(* Nobody is alone any more. *)
LEMMA NobodyAlone ==
    ASSUME DocumentsIInv, worker' = [v \in Workers |-> [worker[v] EXCEPT !.alone = FALSE]]
    PROVE  /\ worker' \in [Workers -> Records]
           /\ \A v \in Workers : Same(worker[v], worker'[v]) /\ ~worker'[v].alone
<1>1. ASSUME NEW v \in Workers
      PROVE  worker'[v] \in Records /\ Same(worker[v], worker'[v]) /\ ~worker'[v].alone
  <2>1. PICK x \in Records : x = worker[v]
    BY Typed
  <2>2. worker'[v] = [x EXCEPT !.alone = FALSE]
    BY <2>1
  <2> QED
    BY <2>1, <2>2 DEF Same, Records
<1> QED
  BY <1>1

(* The program is done with an item. *)
LEMMA NextItem ==
    ASSUME NEW o \in Records, Knows(o)
    PROVE  \E x \in Records :
             /\ x = [o EXCEPT !.at = "next", !.item = NoItem]
             /\ x.kind = o.kind /\ x.at = "next" /\ x.backend = o.backend /\ x.seen = o.seen
             /\ x.todo = o.todo /\ x.alone = o.alone /\ Knows(x)
<1>1. PICK x : x = [o EXCEPT !.at = "next", !.item = NoItem]
  OBVIOUS
<1>2. /\ x \in Records /\ x.kind = o.kind /\ x.at = "next" /\ x.backend = o.backend
      /\ x.seen = o.seen /\ x.todo = o.todo /\ x.alone = o.alone
  BY <1>1 DEF Records, ProgramPlaces
<1>3. Knows(x)
  BY <1>2 DEF Knows
<1> QED
  BY <1>1, <1>2, <1>3

LEMMA WithRow ==
    ASSUME NEW i \in Items, NEW r \in RowIds
    PROVE  \E new \in Items : /\ new = [i EXCEPT !.row = r] /\ new.row = r
                              /\ new.path = i.path /\ new.text = i.text
<1>1. PICK new : new = [i EXCEPT !.row = r]
  OBVIOUS
<1>2. new \in Items /\ new.row = r /\ new.path = i.path /\ new.text = i.text
  BY <1>1 DEF Items
<1> QED
  BY <1>1, <1>2

(* The row a text is written to. *)
LEMMA Targets ==
    ASSUME DocumentsIInv, NEW p \in Paths, NEW r \in Target(p)
    PROVE  /\ r \in RowIds /\ \A q \in RowIds \ {r} : documents[q].path # p
           /\ documents[r].path \in {p, Missing}
BY NoPath DEF DocumentsIInv, OneRowPerPath, Target, RowsAt, StoredRows

-----------------------------------------------------------------------------
LEMMA ChangeDiskIInv ==
    ASSUME DocumentsIInv, NEW new \in [Files -> Text], ChangeDisk(new) PROVE DocumentsIInv'
<1>1. /\ worker' = [v \in Workers |-> [worker[v] EXCEPT !.alone = FALSE]]
      /\ disk' = new /\ UNCHANGED <<documents, late, pulled>>
  BY DEF ChangeDisk
<1>2. worker' \in [Workers -> Records] /\ \A v \in Workers : Same(worker[v], worker'[v])
  BY <1>1, NobodyAlone
<1>3. \A q : InUse(q) => InUse(q)'
  BY <1>1 DEF InUse
<1> QED
  BY <1>1, <1>2, <1>3, AllSame, RowsStay

LEMMA DisksIInv ==
    ASSUME DocumentsIInv,
           \/ \E p \in Files, t \in Contents \cup {Missing} : Edit(p, t)
           \/ \E p, q \in VaultPaths : Move(p, q)
    PROVE  DocumentsIInv'
<1>1. CASE \E p \in Files, t \in Contents \cup {Missing} : Edit(p, t)
  <2>1. PICK p \in Files, t \in Text : ChangeDisk([disk EXCEPT ![p] = t])
    BY <1>1 DEF Edit, Text
  <2>2. [disk EXCEPT ![p] = t] \in [Files -> Text]
    BY Typed
  <2> QED
    BY <2>1, <2>2, ChangeDiskIInv
<1>2. CASE \E p, q \in VaultPaths : Move(p, q)
  <2>1. PICK p \in Files, q \in Files : ChangeDisk([disk EXCEPT ![p] = Missing, ![q] = disk[p]])
    BY <1>2 DEF Move, Files
  <2>2. [disk EXCEPT ![p] = Missing, ![q] = disk[p]] \in [Files -> Text]
    BY Typed DEF Text
  <2> QED
    BY <2>1, <2>2, ChangeDiskIInv
<1> QED
  BY <1>1, <1>2

(* A row that arrives keeps the vectors it had. *)
LEMMA PullIInv ==
    ASSUME DocumentsIInv, NEW r \in RowIds, NEW p \in Paths, NEW t \in Contents \ {Missing},
           Pull(r, p, t)
    PROVE  DocumentsIInv'
<1>1. /\ documents' = [documents EXCEPT ![r].path = p, ![r].text = t]
      /\ pulled' = IF documents[r].text = t \/ (documents[r].column = Missing
                                                /\ documents[r].vectors = NoVectors)
                   THEN pulled ELSE pulled \cup {r}
      /\ worker' = [v \in Workers |-> [worker[v] EXCEPT !.alone = FALSE]]
      /\ RowsAt(p) \subseteq {r} /\ UNCHANGED <<disk, late>>
  BY DEF Pull
<1>2. PICK row : row = [documents[r] EXCEPT !.path = p, !.text = t]
  OBVIOUS
<1>3. documents[r] \in DocumentRows /\ Matches(r)
  BY Typed DEF DocumentsIInv
<1>4. /\ row \in DocumentRows /\ row.path = p /\ row.text = t
      /\ row.column = documents[r].column /\ row.vectors = documents[r].vectors
  BY <1>2, <1>3 DEF DocumentRows, Text
<1>5. Puts(r, row)
  BY <1>1, <1>2, Typed DEF Puts
<1>6. \A q \in RowIds \ {r} : documents[q].path # row.path
  BY <1>1, <1>4, NoPath DEF RowsAt, StoredRows
<1>7. \A q : InUse(q) => InUse(q)'
  BY <1>4, <1>5, <1>6, PutStep
<1>8. worker' \in [Workers -> Records] /\ \A v \in Workers : Same(worker[v], worker'[v])
  BY <1>1, NobodyAlone
<1>9. \A v \in Workers : Knows(worker[v])'
  BY <1>7, <1>8, AllSame
<1>10. r \in late' \cup pulled' \/ OfText(row)
  <2>1. CASE documents[r].text = t
    BY <1>1, <1>3, <1>4, <2>1 DEF Matches, OfText
  <2>2. CASE documents[r].column = Missing /\ documents[r].vectors = NoVectors
    BY <1>4, <2>2 DEF OfText, NoVectors
  <2> QED
    BY <1>1, <2>1, <2>2
<1>11. \A q \in RowIds \ {r} : q \in late \cup pulled => q \in late' \cup pulled'
  BY <1>1
<1>12. row.path \in Paths /\ row.text # Missing /\ disk' = disk
  BY <1>1, <1>4
<1> QED
  BY <1>4, <1>5, <1>6, <1>8, <1>9, <1>10, <1>11, <1>12, PutIInv

LEMMA Scans ==
    ASSUME DocumentsIInv, NEW w \in Workers, NEW notes \in SUBSET VaultPaths, BeginSync(w, notes)
    PROVE  \E x \in Records :
             /\ worker' = [worker EXCEPT ![w] = x] /\ Knows(x)
             /\ x.kind = "sync" /\ x.at = "next" /\ x.seen = notes
             /\ x.todo = {[row |-> 0, path |-> p, text |-> disk[p]] : p \in notes}
<1>1. PICK todo : todo = {[row |-> 0, path |-> p, text |-> disk[p]] : p \in notes}
  OBVIOUS
<1>2. \A p \in notes : p \in Paths /\ disk[p] \in Contents \ {Missing}
  BY Typed DEF BeginSync, Paths, Files, Text
<1>3. todo \subseteq Items
  BY <1>1, <1>2 DEF Items
<1>4. PICK x : x = [kind |-> "sync", at |-> "next", backend |-> "none", seen |-> notes,
                    todo |-> todo, item |-> NoItem, alone |-> TRUE]
  OBVIOUS
<1>5. x \in Records
  BY <1>3, <1>4 DEF Records, ProgramKinds, ProgramPlaces
<1>6. worker' = [worker EXCEPT ![w] = x]
  BY <1>1, <1>4 DEF BeginSync, Start
<1>7. Knows(x)
  BY <1>4 DEF Knows
<1> QED
  BY <1>1, <1>4, <1>5, <1>6, <1>7

LEMMA BeginSyncIInv ==
    ASSUME DocumentsIInv, NEW w \in Workers, NEW notes \in SUBSET VaultPaths, BeginSync(w, notes)
    PROVE  DocumentsIInv'
<1>1. PICK x \in Records : worker' = [worker EXCEPT ![w] = x] /\ Knows(x)
  BY Scans
<1>2. UNCHANGED <<disk, documents, late, pulled>>
  BY DEF BeginSync
<1> QED
  BY <1>1, <1>2, Typed, LocalStep, QuietStep

(* What a comparison leads to. *)
LEMMA Compares ==
    ASSUME DocumentsIInv, NEW w \in Workers, NEW i \in worker[w].todo, Compare(w, i)
    PROVE  \E x \in Records :
             /\ worker' = [worker EXCEPT ![w] = x] /\ Knows(x)
             /\ x.kind = "sync" /\ x.seen = worker[w].seen /\ x.todo = worker[w].todo \ {i}
             /\ x.alone = worker[w].alone
             /\ \/ x.at = "write" /\ x.item = i
                \/ x.at = "next" /\ SameText(i) \cap RowsAt(i.path) # {}
                \/ /\ x.at = "rename" /\ x.item.path = i.path /\ x.item.text = i.text
                   /\ x.item.row \in SameText(i) /\ Moved(x.item.row)
<1>1. PICK o \in Records : o = worker[w] /\ o.kind = "sync" /\ o.at = "next" /\ Knows(o)
  BY Typed DEF Compare, Is, DocumentsIInv
<1>2. i \in Items
  BY <1>1, Fields
<1>3. CASE Take(w, i, "write")
  <2>1. PICK x : x = [o EXCEPT !.todo = o.todo \ {i}, !.item = i, !.at = "write"]
    OBVIOUS
  <2>2. /\ x \in Records /\ x.kind = o.kind /\ x.at = "write" /\ x.seen = o.seen
        /\ x.todo = o.todo \ {i} /\ x.item = i /\ x.alone = o.alone
    BY <1>2, <2>1 DEF Records, ProgramPlaces
  <2>3. worker' = [worker EXCEPT ![w] = x]
    BY <1>1, <1>3, <2>1, Typed DEF Take
  <2>4. Knows(x)
    BY <1>1, <1>2, <2>2 DEF Knows
  <2> QED
    BY <1>1, <2>2, <2>3, <2>4
<1>4. CASE /\ SameText(i) \cap RowsAt(i.path) # {}
           /\ worker' = [worker EXCEPT ![w].todo = @ \ {i}]
  <2>1. PICK x : x = [o EXCEPT !.todo = o.todo \ {i}]
    OBVIOUS
  <2>2. /\ x \in Records /\ x.kind = "sync" /\ x.at = "next" /\ x.todo = o.todo \ {i}
        /\ x.alone = o.alone /\ x.seen = o.seen
    BY <1>1, <2>1 DEF Records
  <2>3. worker' = [worker EXCEPT ![w] = x]
    BY <1>1, <1>4, <2>1, Typed
  <2>4. Knows(x)
    BY <2>2 DEF Knows
  <2> QED
    BY <1>1, <1>4, <2>2, <2>3, <2>4
<1>5. ASSUME NEW r \in SameText(i), Moved(r),
             worker' = [worker EXCEPT ![w].todo = @ \ {i}, ![w].item = [i EXCEPT !.row = r],
                                      ![w].at = "rename"]
      PROVE  \E x \in Records :
               /\ worker' = [worker EXCEPT ![w] = x] /\ Knows(x)
               /\ x.kind = "sync" /\ x.seen = worker[w].seen /\ x.todo = worker[w].todo \ {i}
               /\ x.alone = worker[w].alone
               /\ x.at = "rename" /\ x.item.path = i.path /\ x.item.text = i.text
               /\ x.item.row \in SameText(i) /\ Moved(x.item.row)
  <2>1. InUse(r) /\ r \in RowIds
    BY DEF SameText, StoredRows, InUse
  <2>2. PICK new \in Items : /\ new = [i EXCEPT !.row = r] /\ new.row = r
                             /\ new.path = i.path /\ new.text = i.text
    BY <1>2, <2>1, WithRow
  <2>3. PICK x : x = [o EXCEPT !.todo = o.todo \ {i}, !.item = new, !.at = "rename"]
    OBVIOUS
  <2>4. /\ x \in Records /\ x.kind = o.kind /\ x.at = "rename" /\ x.seen = o.seen
        /\ x.todo = o.todo \ {i} /\ x.item = new /\ x.alone = o.alone
    BY <2>3 DEF Records, ProgramPlaces
  <2>5. worker' = [worker EXCEPT ![w] = x]
    <3>1. worker' = [worker EXCEPT ![w].todo = @ \ {i}, ![w].item = new, ![w].at = "rename"]
      BY <1>5, <2>2
    <3> QED
      BY <1>1, <2>3, <3>1, Typed
  <2>6. Knows(x)
    BY <1>1, <2>1, <2>2, <2>4 DEF Knows
  <2>7. x.item.row = r /\ x.item.path = i.path /\ x.item.text = i.text
    BY <2>2, <2>4
  <2>8. x.item.row \in SameText(i) /\ Moved(x.item.row)
    BY <1>5, <2>7
  <2>9. x \in Records /\ x.kind = "sync" /\ x.at = "rename" /\ x.seen = worker[w].seen
        /\ x.todo = worker[w].todo \ {i} /\ x.alone = worker[w].alone
    BY <1>1, <2>4
  <2> QED
    BY <2>5, <2>6, <2>7, <2>8, <2>9
<1> QED
  BY <1>3, <1>4, <1>5 DEF Compare

LEMMA CompareIInv ==
    ASSUME DocumentsIInv, NEW w \in Workers, NEW i \in worker[w].todo, Compare(w, i)
    PROVE  DocumentsIInv'
<1>1. PICK x \in Records : worker' = [worker EXCEPT ![w] = x] /\ Knows(x)
  BY Compares
<1>2. UNCHANGED <<disk, documents, late, pulled>>
  BY DEF Compare
<1> QED
  BY <1>1, <1>2, Typed, LocalStep, QuietStep

LEMMA Renames ==
    ASSUME DocumentsIInv, NEW w \in Workers, Rename(w)
    PROVE  \E i \in Items, x \in Records :
             /\ i = worker[w].item /\ InUse(i.row) /\ worker[w].kind = "sync"
             /\ \/ /\ RowsAt(i.path) = {} /\ worker' = [Disturbed(w) EXCEPT ![w] = x]
                   /\ x.kind = "sync" /\ x.at = "next" /\ x.todo = worker[w].todo
                   /\ x.alone = worker[w].alone /\ x.seen = worker[w].seen
                   /\ \E row \in DocumentRows :
                        /\ Puts(i.row, row) /\ row.path = i.path
                        /\ row.text = documents[i.row].text
                        /\ row.column = documents[i.row].column
                        /\ row.vectors = documents[i.row].vectors
                \/ worker' = [worker EXCEPT ![w] = Idle] /\ documents' = documents
<1>1. PICK o \in Records : o = worker[w] /\ o.kind = "sync" /\ o.at = "rename" /\ Knows(o)
  BY Typed DEF Rename, Is, DocumentsIInv
<1>2. PICK i \in Items : i = o.item /\ i = Item(w) /\ InUse(i.row)
  BY <1>1 DEF Knows, Item
<1>3. PICK x \in Records :
        /\ x = [o EXCEPT !.at = "next", !.item = NoItem]
        /\ x.kind = o.kind /\ x.at = "next" /\ x.seen = o.seen
        /\ x.todo = o.todo /\ x.alone = o.alone
  BY <1>1, NextItem
<1>4. CASE RowsAt(i.path) = {}
  <2>1. PICK row : row = [documents[i.row] EXCEPT !.path = i.path]
    OBVIOUS
  <2>2. documents[i.row] \in DocumentRows /\ i.path \in Paths /\ i.row \in RowIds
    BY <1>2, Typed DEF InUse, Items
  <2>3. /\ row \in DocumentRows /\ row.path = i.path /\ row.text = documents[i.row].text
        /\ row.column = documents[i.row].column /\ row.vectors = documents[i.row].vectors
    BY <2>1, <2>2 DEF DocumentRows
  <2>4. Puts(i.row, row)
    BY <1>2, <1>4, <2>1, Typed DEF Rename, Puts
  <2>5. worker' = [Disturbed(w) EXCEPT ![w] = x]
    <3>1. worker' = [Disturbed(w) EXCEPT ![w].at = "next", ![w].item = NoItem]
      BY <1>2, <1>4 DEF Rename
    <3> QED
      BY <1>1, <1>3, <3>1, Others
  <2> QED
    BY <1>1, <1>2, <1>3, <1>4, <2>3, <2>4, <2>5
<1>5. CASE RowsAt(i.path) # {}
  <2>1. worker' = [worker EXCEPT ![w] = Idle] /\ documents' = documents
    BY <1>2, <1>5 DEF Rename
  <2> QED
    BY <1>1, <1>2, <1>3, <2>1
<1> QED
  BY <1>4, <1>5

LEMMA RenameIInv == ASSUME DocumentsIInv, NEW w \in Workers, Rename(w) PROVE DocumentsIInv'
<1>1. PICK i \in Items, x \in Records :
        /\ i = worker[w].item /\ InUse(i.row)
        /\ \/ /\ RowsAt(i.path) = {} /\ worker' = [Disturbed(w) EXCEPT ![w] = x]
              /\ x.kind = "sync" /\ x.at = "next"
              /\ \E row \in DocumentRows :
                   /\ Puts(i.row, row) /\ row.path = i.path
                   /\ row.text = documents[i.row].text
                   /\ row.column = documents[i.row].column
                   /\ row.vectors = documents[i.row].vectors
           \/ worker' = [worker EXCEPT ![w] = Idle] /\ documents' = documents
  BY Renames
<1>2. UNCHANGED <<disk, late, pulled>>
  BY DEF Rename
<1>3. CASE /\ RowsAt(i.path) = {} /\ worker' = [Disturbed(w) EXCEPT ![w] = x]
           /\ x.kind = "sync" /\ x.at = "next"
           /\ \E row \in DocumentRows :
                /\ Puts(i.row, row) /\ row.path = i.path
                /\ row.text = documents[i.row].text
                /\ row.column = documents[i.row].column
                /\ row.vectors = documents[i.row].vectors
  <2>1. PICK row \in DocumentRows :
          /\ Puts(i.row, row) /\ row.path = i.path /\ row.text = documents[i.row].text
          /\ row.column = documents[i.row].column /\ row.vectors = documents[i.row].vectors
    BY <1>3
  <2>2. i.row \in RowIds /\ row.path \in Paths /\ row.text # Missing
    BY <1>1, <2>1 DEF InUse, Items, DocumentsIInv, Blanks
  <2>3. \A q \in RowIds \ {i.row} : documents[q].path # row.path
    BY <1>3, <2>1, <2>2, NoPath DEF RowsAt, StoredRows
  <2>4. \A q : InUse(q) => InUse(q)'
    BY <2>1, <2>2, <2>3, PutStep
  <2>5. Moves(w, x)
    BY <1>3, DisturbTo
  <2>6. Knows(x)'
    BY <1>3 DEF Knows
  <2>7. worker' \in [Workers -> Records] /\ \A v \in Workers : Knows(worker[v])'
    BY <2>4, <2>5, <2>6, AllKnow DEF Moves
  <2>8. i.row \in late' \cup pulled' \/ OfText(row)
    BY <1>2, <2>1, <2>2 DEF DocumentsIInv, Matches, OfText
  <2>9. disk' = disk /\ \A q \in RowIds \ {i.row} : q \in late \cup pulled => q \in late' \cup pulled'
    BY <1>2
  <2> QED
    BY <2>1, <2>2, <2>3, <2>7, <2>8, <2>9, PutIInv
<1>4. CASE worker' = [worker EXCEPT ![w] = Idle] /\ documents' = documents
  BY <1>2, <1>4, IdleKnows, Typed, LocalStep, QuietStep
<1> QED
  BY <1>1, <1>3, <1>4

-----------------------------------------------------------------------------
LEMMA Freshly ==
    ASSUME NEW i \in Items, NEW r
    PROVE  \E row \in DocumentRows :
             /\ row = Fresh(r, i.path, i.text) /\ row.path = i.path /\ row.text = i.text
             /\ row.column = Missing /\ row.vectors = NoVectors
<1>1. i.path \in Paths /\ i.text \in Text
  BY DEF Items, Text
<1>2. PICK row : row = [path |-> i.path, text |-> i.text, column |-> Missing, vectors |-> NoVectors]
  OBVIOUS
<1>3. row \in DocumentRows
  BY <1>1, <1>2 DEF DocumentRows, Text, RowVectors, NoVectors
<1>4. row = Fresh(r, i.path, i.text)
  BY <1>2 DEF Fresh
<1>5. /\ row.path = i.path /\ row.text = i.text
      /\ row.column = Missing /\ row.vectors = NoVectors
  BY <1>2
<1> QED
  BY <1>3, <1>4, <1>5

(* A row gets a text, and no vectors. *)
LEMMA FreshRow ==
    ASSUME DocumentsIInv, NEW i \in Items, NEW r \in Target(i.path), Replace(r, i.path, i.text)
    PROVE  \E row \in DocumentRows :
             /\ Puts(r, row) /\ row.path = i.path /\ row.text = i.text
             /\ row.column = Missing /\ row.vectors = NoVectors /\ OfText(row)
             /\ r \in RowIds /\ row.path \in Paths /\ row.text # Missing
             /\ \A q \in RowIds \ {r} : documents[q].path # row.path
<1>1. PICK row \in DocumentRows :
        /\ row = Fresh(r, i.path, i.text) /\ row.path = i.path /\ row.text = i.text
        /\ row.column = Missing /\ row.vectors = NoVectors
  BY Freshly
<1>2. OfText(row)
  BY <1>1 DEF OfText, NoVectors
<1>3. Puts(r, row)
  BY <1>1 DEF Replace, Puts
<1>4. i.path \in Paths /\ i.text # Missing
  BY DEF Items
<1>5. r \in RowIds /\ \A q \in RowIds \ {r} : documents[q].path # i.path
  BY <1>4, Targets
<1> QED
  BY <1>1, <1>2, <1>3, <1>4, <1>5

LEMMA FreshStep ==
    ASSUME DocumentsIInv, NEW i \in Items, NEW r \in Target(i.path), Replace(r, i.path, i.text),
           disk' = disk, NEW w \in Workers, NEW x \in Records, Moves(w, x),
           x.at \in {"idle", "next"}, x.kind \in {"none", "sync"}
    PROVE  DocumentsIInv'
<1>1. PICK row \in DocumentRows :
        /\ Puts(r, row) /\ OfText(row)
        /\ r \in RowIds /\ row.path \in Paths /\ row.text # Missing
        /\ \A q \in RowIds \ {r} : documents[q].path # row.path
  BY FreshRow
<1>2. \A q : InUse(q) => InUse(q)'
  BY <1>1, PutStep
<1>3. Knows(x)'
  BY DEF Knows
<1>4. worker' \in [Workers -> Records] /\ \A v \in Workers : Knows(worker[v])'
  BY <1>2, <1>3, AllKnow DEF Moves
<1>5. \A q \in RowIds \ {r} : q \in late \cup pulled => q \in late' \cup pulled'
  BY DEF Replace
<1> QED
  BY <1>1, <1>4, <1>5, PutIInv

LEMMA WritesNote ==
    ASSUME DocumentsIInv, NEW w \in Workers, WriteNote(w)
    PROVE  \E i \in Items, x \in Records :
             /\ i = worker[w].item /\ worker[w].kind = "sync" /\ worker[w].at = "write"
             /\ worker' = [Disturbed(w) EXCEPT ![w] = x]
             /\ x.kind = "sync" /\ x.at = "next" /\ x.todo = worker[w].todo
             /\ x.alone = worker[w].alone /\ x.seen = worker[w].seen
             /\ \E r \in Target(i.path) : Replace(r, i.path, i.text)
<1>1. PICK o \in Records : o = worker[w] /\ o.kind = "sync" /\ o.at = "write" /\ Knows(o)
  BY Typed DEF WriteNote, Is, DocumentsIInv
<1>2. PICK i \in Items : i = o.item /\ i = Item(w)
  BY <1>1 DEF Knows, Item
<1>3. PICK x \in Records :
        /\ x = [o EXCEPT !.at = "next", !.item = NoItem]
        /\ x.kind = o.kind /\ x.at = "next" /\ x.seen = o.seen
        /\ x.todo = o.todo /\ x.alone = o.alone
  BY <1>1, NextItem
<1>4. worker' = [Disturbed(w) EXCEPT ![w] = x]
  BY <1>1, <1>3, Others DEF WriteNote
<1>5. \E r \in Target(i.path) : Replace(r, i.path, i.text)
  BY <1>2 DEF WriteNote
<1> QED
  BY <1>1, <1>2, <1>3, <1>4, <1>5

LEMMA WriteNoteIInv == ASSUME DocumentsIInv, NEW w \in Workers, WriteNote(w) PROVE DocumentsIInv'
<1>1. PICK i \in Items, x \in Records :
        /\ worker' = [Disturbed(w) EXCEPT ![w] = x] /\ x.kind = "sync" /\ x.at = "next"
        /\ \E r \in Target(i.path) : Replace(r, i.path, i.text)
  BY WritesNote
<1>2. PICK r \in Target(i.path) : Replace(r, i.path, i.text)
  BY <1>1
<1>3. Moves(w, x) /\ disk' = disk
  BY <1>1, DisturbTo DEF WriteNote
<1> QED
  BY <1>1, <1>2, <1>3, FreshStep

LEMMA BeginsImport ==
    ASSUME DocumentsIInv, NEW w \in Workers, NEW p \in OtherPaths, BeginImport(w, p)
    PROVE  \E x \in Records : /\ worker' = [worker EXCEPT ![w] = x] /\ Knows(x)
                              /\ x.kind = "import"
<1>1. PICK i : i = [row |-> 0, path |-> p, text |-> disk[p]]
  OBVIOUS
<1>2. i \in Items
  <2>1. p \in Paths /\ disk[p] \in Text /\ disk[p] # Missing
    BY Typed DEF BeginImport, Paths, Files
  <2> QED
    BY <1>1, <2>1 DEF Items, Text
<1>3. PICK place \in {"insert", "update"} : place = IF RowsAt(p) = {} THEN "insert" ELSE "update"
  OBVIOUS
<1>4. PICK x : x = [Idle EXCEPT !.kind = "import", !.at = place, !.item = i]
  OBVIOUS
<1>5. worker' = [worker EXCEPT ![w] = x]
  BY <1>1, <1>3, <1>4 DEF BeginImport
<1>6. x \in Records /\ x.kind = "import" /\ x.at = place /\ x.item = i
  BY <1>2, <1>4 DEF Idle, Records, ProgramKinds, ProgramPlaces
<1>7. Knows(x)
  BY <1>2, <1>6 DEF Knows
<1> QED
  BY <1>5, <1>6, <1>7

LEMMA BeginImportIInv ==
    ASSUME DocumentsIInv, NEW w \in Workers, NEW p \in OtherPaths, BeginImport(w, p)
    PROVE  DocumentsIInv'
<1>1. PICK x \in Records : worker' = [worker EXCEPT ![w] = x] /\ Knows(x)
  BY BeginsImport
<1>2. UNCHANGED <<disk, documents, late, pulled>>
  BY DEF BeginImport
<1> QED
  BY <1>1, <1>2, Typed, LocalStep, QuietStep

LEMMA Imports ==
    ASSUME DocumentsIInv, NEW w \in Workers, ImportUpdate(w) \/ ImportInsert(w)
    PROVE  /\ worker' = [Disturbed(w) EXCEPT ![w] = Idle] /\ disk' = disk
           /\ worker[w].kind = "import" /\ worker[w].at # "cache"
           /\ \/ UNCHANGED <<documents, torn, late, pulled>>
              \/ \E i \in Items : \E r \in Target(i.path) : Replace(r, i.path, i.text)
<1>1. worker[w].kind = "import" /\ worker[w].at \in {"update", "insert"}
  BY DEF ImportUpdate, ImportInsert, Is
<1>2. PICK i \in Items : i = Item(w)
  BY <1>1 DEF DocumentsIInv, Knows, Item
<1>3. worker' = [Disturbed(w) EXCEPT ![w] = Idle] /\ disk' = disk
  BY DEF ImportUpdate, ImportInsert
<1>4. \/ UNCHANGED <<documents, torn, late, pulled>>
      \/ \E r \in Target(i.path) : Replace(r, i.path, i.text)
  BY <1>2 DEF ImportUpdate, ImportInsert, Target
<1> QED
  BY <1>1, <1>3, <1>4

LEMMA ImportIInv ==
    ASSUME DocumentsIInv, NEW w \in Workers, ImportUpdate(w) \/ ImportInsert(w) PROVE DocumentsIInv'
<1>1. Moves(w, Idle) /\ disk' = disk
  BY Imports, IdleKnows, DisturbTo
<1>2. Idle.at = "idle" /\ Idle.kind = "none"
  BY DEF Idle
<1>3. CASE UNCHANGED <<documents, late, pulled>>
  BY <1>1, <1>3, IdleKnows, Typed, QuietStep
<1>4. CASE \E i \in Items : \E r \in Target(i.path) : Replace(r, i.path, i.text)
  <2>1. PICK i \in Items : \E r \in Target(i.path) : Replace(r, i.path, i.text)
    BY <1>4
  <2>2. PICK r \in Target(i.path) : Replace(r, i.path, i.text)
    BY <2>1
  <2> QED
    BY <1>1, <1>2, <2>2, IdleKnows, FreshStep
<1> QED
  BY <1>3, <1>4, Imports

-----------------------------------------------------------------------------
(* What reindex and repair embed: the rows with no vector in the column.   *)
LEMMA Embeds ==
    ASSUME DocumentsIInv
    PROVE  /\ Unembedded \subseteq Items
           /\ \A i \in Unembedded : InUse(i.row)
           /\ \A r \in RowIds : InUse(r) /\ documents[r].column = Missing =>
                \E i \in Unembedded : i.row = r
<1>1. ASSUME NEW i \in Unembedded PROVE i \in Items /\ InUse(i.row)
  <2>1. PICK r \in RowIds :
          /\ i = [row |-> r, path |-> documents[r].path, text |-> documents[r].text]
          /\ documents[r].path # Missing
    BY DEF Unembedded, StoredRows
  <2>2. documents[r] \in DocumentRows /\ documents[r].text # Missing
    BY <2>1, Typed DEF DocumentsIInv, Blanks
  <2>3. documents[r].path \in Paths /\ documents[r].text \in Contents \ {Missing}
    BY <2>1, <2>2 DEF DocumentRows, Text
  <2> QED
    BY <2>1, <2>3 DEF Items, InUse
<1>2. ASSUME NEW r \in RowIds, InUse(r), documents[r].column = Missing
      PROVE  \E i \in Unembedded : i.row = r
  <2>1. [row |-> r, path |-> documents[r].path, text |-> documents[r].text] \in Unembedded
    BY <1>2 DEF Unembedded, StoredRows, InUse
  <2> QED
    BY <2>1
<1> QED
  BY <1>1, <1>2

LEMMA BeginsEmbedding ==
    ASSUME DocumentsIInv, NEW w \in Workers, NEW m \in Backends, BeginReindex(w, m) \/ BeginRepair(w, m)
    PROVE  \E x \in Records :
             /\ worker' = [worker EXCEPT ![w] = x] /\ Knows(x)
             /\ x.kind \in {"reindex", "repair"} /\ x.at = "next" /\ x.todo = Unembedded
<1>1. PICK kind \in {"reindex", "repair"} : Start(w, kind, m, {}, Unembedded)
  BY DEF BeginReindex, BeginRepair
<1>2. PICK todo : todo = Unembedded
  OBVIOUS
<1>3. PICK x : x = [kind |-> kind, at |-> "next", backend |-> m, seen |-> {},
                    todo |-> todo, item |-> NoItem, alone |-> TRUE]
  OBVIOUS
<1>4. worker' = [worker EXCEPT ![w] = x]
  BY <1>1, <1>2, <1>3 DEF Start
<1>5. x \in Records
  BY <1>2, <1>3, Embeds DEF Records, ProgramKinds, ProgramPlaces
<1>6. Knows(x)
  BY <1>2, <1>3, Embeds DEF Knows
<1> QED
  BY <1>2, <1>3, <1>4, <1>5, <1>6

LEMMA BeginEmbeddingIInv ==
    ASSUME DocumentsIInv, NEW w \in Workers, NEW m \in Backends, BeginReindex(w, m) \/ BeginRepair(w, m)
    PROVE  DocumentsIInv'
<1>1. PICK x \in Records : worker' = [worker EXCEPT ![w] = x] /\ Knows(x)
  BY BeginsEmbedding
<1>2. UNCHANGED <<disk, documents, late, pulled>>
  BY DEF BeginReindex, BeginRepair
<1> QED
  BY <1>1, <1>2, Typed, LocalStep, QuietStep

(* reindex writes the text it read, with its vector or none in the column. *)
LEMMA Upserts ==
    ASSUME DocumentsIInv, NEW w \in Workers, NEW i \in worker[w].todo, Upsert(w, i)
    PROVE  \E r \in RowIds, row \in DocumentRows, x \in Records :
             /\ r \in Target(i.path) /\ Puts(r, row) /\ row.path = i.path /\ row.text = i.text
             /\ row.column = (IF InColumn(w) THEN i.text ELSE Missing)
             /\ row.vectors = documents[r].vectors /\ late' = Later(r, i.text)
             /\ i.path \in Paths /\ i.text # Missing
             /\ torn' = (IF InColumn(w) THEN torn ELSE torn \ {r})
             /\ worker' = [Disturbed(w) EXCEPT ![w] = x] /\ Knows(worker[w])
             /\ worker[w].kind = "reindex" /\ worker[w].at = "next"
             /\ x.kind = "reindex" /\ x.at = "cache" /\ x.backend = worker[w].backend
             /\ x.item \in Items /\ x.item.row = r
<1>1. PICK o \in Records : o = worker[w] /\ o.kind = "reindex" /\ o.at = "next" /\ Knows(o)
  BY Typed DEF Upsert, Is, DocumentsIInv
<1>2. i \in Items
  BY <1>1, Fields
<1>3. PICK r \in Target(i.path) :
        /\ documents' = [documents EXCEPT ![r] =
                           [path |-> i.path, text |-> i.text,
                            column |-> IF InColumn(w) THEN i.text ELSE Missing,
                            vectors |-> documents[r].vectors]]
        /\ torn' = (IF InColumn(w) THEN torn ELSE torn \ {r})
        /\ late' = Later(r, i.text)
        /\ worker' = [Disturbed(w) EXCEPT ![w].todo = @ \ {i},
                        ![w].item = [i EXCEPT !.row = r], ![w].at = "cache"]
  BY DEF Upsert
<1>4. r \in RowIds /\ documents[r] \in DocumentRows
  BY <1>2, <1>3, Targets, Typed DEF Items
<1>5. PICK column \in Text : column = (IF InColumn(w) THEN i.text ELSE Missing)
  BY <1>2 DEF Items, Text
<1>6. PICK row : row = [path |-> i.path, text |-> i.text, column |-> column,
                        vectors |-> documents[r].vectors]
  OBVIOUS
<1>7. row \in DocumentRows
  BY <1>2, <1>4, <1>6 DEF DocumentRows, Items, Text
<1>8. Puts(r, row)
  BY <1>3, <1>5, <1>6 DEF Puts
<1>9. PICK new \in Items : /\ new = [i EXCEPT !.row = r] /\ new.row = r
  BY <1>2, <1>4, WithRow
<1>10. PICK x : x = [o EXCEPT !.todo = o.todo \ {i}, !.item = new, !.at = "cache"]
  OBVIOUS
<1>11. /\ x \in Records /\ x.kind = o.kind /\ x.at = "cache" /\ x.backend = o.backend
       /\ x.item = new
  BY <1>10 DEF Records, ProgramPlaces
<1>12. worker' = [Disturbed(w) EXCEPT ![w] = x]
  <2>1. worker' = [Disturbed(w) EXCEPT ![w].todo = @ \ {i}, ![w].item = new, ![w].at = "cache"]
    BY <1>3, <1>9
  <2> QED
    BY <1>1, <1>10, <2>1, Others
<1>13. /\ row.path = i.path /\ row.text = i.text /\ row.column = column
       /\ row.vectors = documents[r].vectors /\ i.path \in Paths /\ i.text # Missing
  BY <1>2, <1>6 DEF Items
<1>14. /\ row.column = (IF InColumn(w) THEN i.text ELSE Missing)
       /\ torn' = (IF InColumn(w) THEN torn ELSE torn \ {r})
       /\ Puts(r, row) /\ late' = Later(r, i.text)
       /\ Knows(worker[w]) /\ worker[w].kind = "reindex" /\ worker[w].at = "next"
       /\ x.kind = "reindex" /\ x.at = "cache" /\ x.backend = worker[w].backend
       /\ x.item \in Items /\ x.item.row = r
  BY <1>1, <1>3, <1>5, <1>8, <1>9, <1>11, <1>13
<1>15. r \in RowIds /\ row \in DocumentRows /\ x \in Records /\ r \in Target(i.path)
  BY <1>3, <1>4, <1>7, <1>11
<1> QED
  BY <1>12, <1>13, <1>14, <1>15

LEMMA UpsertIInv ==
    ASSUME DocumentsIInv, NEW w \in Workers, NEW i \in worker[w].todo, Upsert(w, i)
    PROVE  DocumentsIInv'
<1>1. PICK r \in RowIds, row \in DocumentRows, x \in Records :
        /\ r \in Target(i.path) /\ Puts(r, row) /\ row.path = i.path /\ row.text = i.text
        /\ row.column = (IF InColumn(w) THEN i.text ELSE Missing)
        /\ row.vectors = documents[r].vectors /\ late' = Later(r, i.text)
        /\ i.path \in Paths /\ i.text # Missing
        /\ worker' = [Disturbed(w) EXCEPT ![w] = x] /\ Knows(worker[w])
        /\ worker[w].kind = "reindex"
        /\ x.kind = "reindex" /\ x.at = "cache" /\ x.backend = worker[w].backend
        /\ x.item \in Items /\ x.item.row = r
  BY Upserts
<1>2. \A q \in RowIds \ {r} : documents[q].path # row.path
  BY <1>1, Targets
<1>3. InUse(r)' /\ \A q : InUse(q) => InUse(q)'
  BY <1>1, <1>2, PutStep
<1>4. Moves(w, x)
  BY <1>1, DisturbTo
<1>5. Knows(x)'
  BY <1>1, <1>3 DEF Knows
<1>6. worker' \in [Workers -> Records] /\ \A v \in Workers : Knows(worker[v])'
  BY <1>3, <1>4, <1>5, AllKnow DEF Moves
<1>7. UNCHANGED <<disk, pulled>>
  BY DEF Upsert
<1>8. r \in late' \cup pulled' \/ OfText(row)
  <2>1. CASE documents[r].text = i.text
    BY <1>1, <1>7, <2>1 DEF Later, DocumentsIInv, Matches, OfText
  <2>2. CASE documents[r].text = Missing
    <3>1. documents[r].vectors = NoVectors
      BY <2>2 DEF DocumentsIInv, Blanks
    <3> QED
      BY <1>1, <3>1 DEF OfText, NoVectors
  <2>3. CASE documents[r].text \notin {i.text, Missing}
    BY <1>1, <2>3 DEF Later
  <2> QED
    BY <2>1, <2>2, <2>3
<1>9. \A q \in RowIds \ {r} : q \in late \cup pulled => q \in late' \cup pulled'
  BY <1>1, <1>7 DEF Later
<1>10. row.path \in Paths /\ row.text # Missing /\ disk' = disk
  BY <1>1, <1>7
<1> QED
  BY <1>1, <1>2, <1>6, <1>8, <1>9, <1>10, PutIInv

(* A vector of text t goes to a row, whatever its text is now. *)
LEMMA VectorStep ==
    ASSUME DocumentsIInv, NEW r \in RowIds, InUse(r), NEW row \in DocumentRows, Puts(r, row), NEW t,
           row.path = documents[r].path, row.text = documents[r].text,
           row.column \in {documents[r].column, t},
           \A m \in Backends : row.vectors[m] \in {documents[r].vectors[m], t},
           late' = Later(r, t), UNCHANGED <<disk, pulled>>,
           NEW w \in Workers, NEW x \in Records, worker' = [worker EXCEPT ![w] = x], Knows(x)
    PROVE  DocumentsIInv'
<1>1. documents[r] \in DocumentRows /\ row.path # Missing /\ documents[r].text # Missing
  BY Typed DEF InUse, DocumentsIInv, Blanks
<1>2. row.path \in Paths /\ row.text # Missing
  BY <1>1 DEF DocumentRows
<1>3. \A q \in RowIds \ {r} : documents[q].path # row.path
  BY <1>1 DEF DocumentsIInv, OneRowPerPath
<1>4. \A q : InUse(q) => InUse(q)'
  BY <1>2, <1>3, PutStep
<1>5. Moves(w, x)
  BY LocalStep
<1>6. Knows(x)'
  BY <1>4 DEF Knows
<1>7. worker' \in [Workers -> Records] /\ \A v \in Workers : Knows(worker[v])'
  BY <1>4, <1>5, <1>6, AllKnow DEF Moves
<1>8. r \in late' \cup pulled' \/ OfText(row)
  <2>1. CASE documents[r].text = t
    BY <2>1 DEF Later, DocumentsIInv, Matches, OfText
  <2>2. CASE documents[r].text # t
    BY <1>1, <2>2 DEF Later
  <2> QED
    BY <2>1, <2>2
<1>9. \A q \in RowIds \ {r} : q \in late \cup pulled => q \in late' \cup pulled'
  BY DEF Later
<1> QED
  BY <1>2, <1>3, <1>7, <1>8, <1>9, PutIInv

LEMMA WritesColumn ==
    ASSUME DocumentsIInv, NEW w \in Workers, NEW i \in worker[w].todo, WriteColumn(w, i)
    PROVE  \E x \in Records :
             /\ i \in Items /\ InUse(i.row) /\ worker[w].kind = "repair" /\ worker[w].at = "next"
             /\ worker' = [worker EXCEPT ![w] = x] /\ Knows(x)
             /\ x.kind = "repair" /\ x.at = "cache" /\ x.backend = worker[w].backend
             /\ x.todo = worker[w].todo \ {i} /\ x.item = i /\ x.alone = worker[w].alone
             /\ IF InColumn(w)
                THEN /\ late' = Later(i.row, i.text)
                     /\ \E row \in DocumentRows :
                          /\ Puts(i.row, row) /\ row.path = documents[i.row].path
                          /\ row.text = documents[i.row].text /\ row.column = i.text
                          /\ row.vectors = documents[i.row].vectors
                ELSE documents' = documents /\ late' = late
<1>1. PICK o \in Records : o = worker[w] /\ o.kind = "repair" /\ o.at = "next" /\ Knows(o)
  BY Typed DEF WriteColumn, Is, DocumentsIInv
<1>2. i \in Items /\ InUse(i.row)
  BY <1>1, Fields DEF Knows
<1>3. PICK x : x = [o EXCEPT !.todo = o.todo \ {i}, !.item = i, !.at = "cache"]
  OBVIOUS
<1>4. /\ x \in Records /\ x.kind = o.kind /\ x.at = "cache" /\ x.backend = o.backend
      /\ x.todo = o.todo \ {i} /\ x.item = i /\ x.alone = o.alone
  BY <1>2, <1>3 DEF Records, ProgramPlaces
<1>5. worker' = [worker EXCEPT ![w] = x]
  BY <1>1, <1>3, Typed DEF WriteColumn, Take
<1>6. Knows(x)
  BY <1>1, <1>2, <1>4 DEF Knows
<1>7. CASE InColumn(w)
  <2>1. PICK row : row = [documents[i.row] EXCEPT !.column = i.text]
    OBVIOUS
  <2>2. i.row \in RowIds /\ documents[i.row] \in DocumentRows /\ i.text \in Text
    BY <1>2, Typed DEF InUse, Items, Text
  <2>3. /\ row \in DocumentRows /\ row.path = documents[i.row].path
        /\ row.text = documents[i.row].text /\ row.column = i.text
        /\ row.vectors = documents[i.row].vectors
    BY <2>1, <2>2 DEF DocumentRows
  <2>4. Puts(i.row, row) /\ late' = Later(i.row, i.text)
    BY <1>7, <2>1, <2>2, Typed DEF WriteColumn, Puts
  <2> QED
    BY <1>1, <1>2, <1>4, <1>5, <1>6, <1>7, <2>3, <2>4
<1>8. CASE ~InColumn(w)
  <2>1. documents' = documents /\ late' = late
    BY <1>8 DEF WriteColumn
  <2> QED
    BY <1>1, <1>2, <1>4, <1>5, <1>6, <1>8, <2>1
<1> QED
  BY <1>7, <1>8

LEMMA WriteColumnIInv ==
    ASSUME DocumentsIInv, NEW w \in Workers, NEW i \in worker[w].todo, WriteColumn(w, i)
    PROVE  DocumentsIInv'
<1>1. PICK x \in Records :
        /\ i \in Items /\ InUse(i.row) /\ worker' = [worker EXCEPT ![w] = x] /\ Knows(x)
        /\ IF InColumn(w)
           THEN /\ late' = Later(i.row, i.text)
                /\ \E row \in DocumentRows :
                     /\ Puts(i.row, row) /\ row.path = documents[i.row].path
                     /\ row.text = documents[i.row].text /\ row.column = i.text
                     /\ row.vectors = documents[i.row].vectors
           ELSE documents' = documents /\ late' = late
  BY WritesColumn
<1>2. UNCHANGED <<disk, pulled>>
  BY DEF WriteColumn
<1>3. CASE InColumn(w)
  <2>1. PICK row \in DocumentRows :
          /\ Puts(i.row, row) /\ row.path = documents[i.row].path
          /\ row.text = documents[i.row].text /\ row.column = i.text
          /\ row.vectors = documents[i.row].vectors
    BY <1>1, <1>3
  <2>2. i.row \in RowIds /\ late' = Later(i.row, i.text)
    BY <1>1, <1>3 DEF InUse
  <2> QED
    BY <1>1, <1>2, <2>1, <2>2, VectorStep
<1>4. CASE ~InColumn(w)
  BY <1>1, <1>2, <1>4, Typed, LocalStep, QuietStep
<1> QED
  BY <1>3, <1>4

LEMMA Caches ==
    ASSUME DocumentsIInv, NEW w \in Workers, Cache(w)
    PROVE  \E i \in Items, x \in Records, row \in DocumentRows :
             /\ i = worker[w].item /\ InUse(i.row) /\ worker[w].at = "cache"
             /\ worker[w].backend \in Backends /\ worker[w].kind \in {"reindex", "repair"}
             /\ worker' = [worker EXCEPT ![w] = x] /\ Knows(x)
             /\ x.kind = worker[w].kind /\ x.at = "next" /\ x.backend = worker[w].backend
             /\ x.todo = worker[w].todo /\ x.alone = worker[w].alone
             /\ Puts(i.row, row) /\ row.path = documents[i.row].path
             /\ row.text = documents[i.row].text /\ row.column = documents[i.row].column
             /\ row.vectors = [documents[i.row].vectors EXCEPT ![worker[w].backend] = i.text]
             /\ late' = Later(i.row, i.text)
             /\ torn' = (IF InColumn(w) THEN torn \ {i.row} ELSE torn)
<1>1. PICK o \in Records : o = worker[w] /\ o.at = "cache" /\ Knows(o)
  BY Typed DEF Cache, DocumentsIInv
<1>2. PICK i \in Items : i = o.item /\ i = Item(w) /\ InUse(i.row)
  BY <1>1 DEF Knows, Item
<1>3. PICK x \in Records :
        /\ x = [o EXCEPT !.at = "next", !.item = NoItem] /\ Knows(x)
        /\ x.kind = o.kind /\ x.at = "next" /\ x.backend = o.backend
        /\ x.todo = o.todo /\ x.alone = o.alone
  BY <1>1, NextItem
<1>4. worker' = [worker EXCEPT ![w] = x]
  BY <1>1, <1>3, Typed DEF Cache
<1>5. PICK vectors : vectors = [documents[i.row].vectors EXCEPT ![o.backend] = i.text]
  OBVIOUS
<1>6. PICK row : row = [documents[i.row] EXCEPT !.vectors = vectors]
  OBVIOUS
<1>7. i.row \in RowIds /\ documents[i.row] \in DocumentRows /\ i.text \in Text
  BY <1>2, Typed DEF InUse, Items, Text
<1>8. vectors \in RowVectors
  BY <1>5, <1>7 DEF DocumentRows, RowVectors
<1>9. /\ row \in DocumentRows /\ row.path = documents[i.row].path
      /\ row.text = documents[i.row].text /\ row.column = documents[i.row].column
      /\ row.vectors = vectors
  BY <1>6, <1>7, <1>8 DEF DocumentRows
<1>10. Puts(i.row, row)
  <2>1. documents' = [documents EXCEPT ![i.row].vectors[o.backend] = i.text]
    BY <1>1, <1>2 DEF Cache, Cached
  <2>2. documents' = [documents EXCEPT ![i.row] = row]
    BY <1>5, <1>6, <1>7, <2>1, Typed
  <2> QED
    BY <2>2 DEF Puts
<1>11. /\ late' = Later(i.row, i.text)
       /\ torn' = (IF InColumn(w) THEN torn \ {i.row} ELSE torn)
  BY <1>2 DEF Cache
<1>12. o.backend \in Backends /\ o.kind \in {"reindex", "repair"}
  BY <1>1 DEF Knows
<1>13. row.vectors = [documents[i.row].vectors EXCEPT ![worker[w].backend] = i.text]
  BY <1>1, <1>5, <1>9
<1> QED
  BY <1>1, <1>2, <1>3, <1>4, <1>9, <1>10, <1>11, <1>12, <1>13

LEMMA CacheIInv == ASSUME DocumentsIInv, NEW w \in Workers, Cache(w) PROVE DocumentsIInv'
<1>1. PICK i \in Items, x \in Records, row \in DocumentRows :
        /\ InUse(i.row) /\ worker' = [worker EXCEPT ![w] = x] /\ Knows(x)
        /\ Puts(i.row, row) /\ row.path = documents[i.row].path
        /\ row.text = documents[i.row].text /\ row.column = documents[i.row].column
        /\ row.vectors = [documents[i.row].vectors EXCEPT ![worker[w].backend] = i.text]
        /\ late' = Later(i.row, i.text)
  BY Caches
<1>2. UNCHANGED <<disk, pulled>>
  BY DEF Cache
<1>3. i.row \in RowIds /\ documents[i.row].vectors \in RowVectors
  BY <1>1, Typed DEF InUse, DocumentRows
<1>4. \A m \in Backends : row.vectors[m] \in {documents[i.row].vectors[m], i.text}
  BY <1>1, <1>3 DEF RowVectors
<1>5. row.column \in {documents[i.row].column, i.text}
  BY <1>1
<1> QED
  BY <1>1, <1>2, <1>3, <1>4, <1>5, VectorStep

LEMMA EndIInv == ASSUME DocumentsIInv, NEW w \in Workers, Exit(w) \/ Die(w) PROVE DocumentsIInv'
<1>1. worker' = [worker EXCEPT ![w] = Idle] /\ UNCHANGED <<disk, documents, late, pulled>>
  BY DEF Exit, Die
<1> QED
  BY <1>1, IdleKnows, Typed, LocalStep, QuietStep

LEMMA PassesOver ==
    ASSUME DocumentsIInv, NEW w \in Workers, PassOver(w)
    PROVE  \E x \in Records : /\ worker' = [worker EXCEPT ![w] = x] /\ Knows(x) /\ ~x.alone
<1>1. PICK o \in Records : o = worker[w] /\ Knows(o)
  BY Typed DEF DocumentsIInv
<1>2. CASE /\ worker[w].at = "next"
           /\ \E i \in worker[w].todo :
                worker' = [worker EXCEPT ![w].todo = @ \ {i}, ![w].alone = FALSE]
  <2>1. PICK i \in o.todo : worker' = [worker EXCEPT ![w].todo = @ \ {i}, ![w].alone = FALSE]
    BY <1>1, <1>2
  <2>2. PICK x : x = [o EXCEPT !.todo = o.todo \ {i}, !.alone = FALSE]
    OBVIOUS
  <2>3. /\ x \in Records /\ x.kind = o.kind /\ x.at = "next" /\ x.backend = o.backend
        /\ x.todo = o.todo \ {i} /\ ~x.alone
    BY <1>1, <1>2, <2>2 DEF Records
  <2>4. worker' = [worker EXCEPT ![w] = x]
    BY <1>1, <2>1, <2>2, Typed
  <2>5. Knows(x)
    BY <1>1, <2>3 DEF Knows
  <2> QED
    BY <2>3, <2>4, <2>5
<1>3. CASE worker' = [worker EXCEPT ![w].at = "next", ![w].item = NoItem, ![w].alone = FALSE]
  <2>1. PICK x : x = [o EXCEPT !.at = "next", !.item = NoItem, !.alone = FALSE]
    OBVIOUS
  <2>2. /\ x \in Records /\ x.kind = o.kind /\ x.at = "next" /\ x.backend = o.backend
        /\ x.todo = o.todo /\ ~x.alone
    BY <2>1 DEF Records, ProgramPlaces
  <2>3. worker' = [worker EXCEPT ![w] = x]
    BY <1>1, <1>3, <2>1, Typed
  <2>4. Knows(x)
    BY <1>1, <2>2 DEF Knows
  <2> QED
    BY <2>2, <2>3, <2>4
<1> QED
  BY <1>2, <1>3 DEF PassOver

LEMMA PassOverIInv == ASSUME DocumentsIInv, NEW w \in Workers, PassOver(w) PROVE DocumentsIInv'
<1>1. PICK x \in Records : worker' = [worker EXCEPT ![w] = x] /\ Knows(x)
  BY PassesOver
<1>2. UNCHANGED <<disk, documents, late, pulled>>
  BY DEF PassOver
<1> QED
  BY <1>1, <1>2, Typed, LocalStep, QuietStep

-----------------------------------------------------------------------------
(* What one program does. *)
ProgramStep(w) ==
    \/ \E notes \in SUBSET VaultPaths : BeginSync(w, notes)
    \/ Rename(w) \/ WriteNote(w)
    \/ \E p \in OtherPaths : BeginImport(w, p)
    \/ ImportUpdate(w) \/ ImportInsert(w)
    \/ \E m \in Backends : BeginReindex(w, m) \/ BeginRepair(w, m)
    \/ Cache(w)
    \/ \E i \in worker[w].todo : Compare(w, i) \/ Upsert(w, i) \/ WriteColumn(w, i)
    \/ Exit(w) \/ Die(w) \/ PassOver(w)

LEMMA DocumentsNextIInv == DocumentsIInv /\ [DocumentsNext]_documentsVars => DocumentsIInv'
<1> SUFFICES ASSUME DocumentsIInv, [DocumentsNext]_documentsVars PROVE DocumentsIInv'
  OBVIOUS
<1>1. CASE UNCHANGED documentsVars
  <2>1. UNCHANGED <<disk, documents, worker, late, pulled>>
    BY <1>1 DEF documentsVars
  <2>2. worker' \in [Workers -> Records] /\ \A v \in Workers : Same(worker[v], worker'[v])
    BY <2>1, Typed DEF Same
  <2>3. \A q : InUse(q) => InUse(q)'
    BY <2>1 DEF InUse
  <2> QED
    BY <2>1, <2>2, <2>3, Typed, AllSame, RowsStay
<1>2. CASE \/ \E p \in Files, t \in Contents \cup {Missing} : Edit(p, t)
           \/ \E p, q \in VaultPaths : Move(p, q)
  BY <1>2, DisksIInv
<1>3. ASSUME NEW r \in RowIds, NEW p \in Paths, NEW t \in Contents \ {Missing}, Pull(r, p, t)
      PROVE  DocumentsIInv'
  BY <1>3, PullIInv
<1>4. ASSUME NEW w \in Workers, ProgramStep(w) PROVE DocumentsIInv'
  BY <1>4, BeginSyncIInv, RenameIInv, WriteNoteIInv, BeginImportIInv, ImportIInv,
     BeginEmbeddingIInv, CacheIInv, CompareIInv, UpsertIInv, WriteColumnIInv, EndIInv,
     PassOverIInv DEF ProgramStep
<1> QED
  BY <1>1, <1>2, <1>3, <1>4 DEF DocumentsNext, ProgramStep

(* A search meets the vector of another text, for any number of files,     *)
(* models and programs, only where reindex or repair stored what it had    *)
(* read before a change (upsert_document, store_embedding), or another     *)
(* device changed a row (apply_remote_event).                              *)
THEOREM VectorsMatch == DocumentsSpec => []VectorsMatchText
<1>1. DocumentsIInv => VectorsMatchText
  BY DEF DocumentsIInv, Matches, OfText, VectorsMatchText, StoredRows
<1> QED
  BY <1>1, DocumentsInitIInv, DocumentsNextIInv, PTL DEF DocumentsSpec


-----------------------------------------------------------------------------
(* Runs that nothing changes under.  A note a sync has read has its row,   *)
(* or is still to be looked at.                                            *)
Covered(p) == \E r \in RowIds : documents[r].path = p /\ documents[r].text = disk[p]
NoteOf(i)  == i.path \in VaultPaths /\ i.text = disk[i.path]

Syncing(x) ==
    x.kind = "sync" /\ x.alone =>
      /\ x.at \in {"next", "rename", "write"}
      /\ \A i \in x.todo : NoteOf(i)
      /\ x.at # "next" => NoteOf(x.item)
      /\ x.at = "rename" => documents[x.item.row].text = x.item.text /\ Moved(x.item.row)
      /\ \A p \in x.seen : /\ disk[p] # Missing
                           /\ \/ Covered(p) \/ \E i \in x.todo : i.path = p
                              \/ x.at # "next" /\ x.item.path = p

(* A repair has met a row without a vector of its model, or will. *)
Repairing(x) ==
    x.kind = "repair" /\ x.alone =>
      \A r \in RowIds : InUse(r) =>
        \/ documents[r].column # Missing
        \/ documents[r].vectors[x.backend] = documents[r].text \/ r \in late \cup pulled
        \/ \E i \in x.todo : i.row = r
        \/ x.at = "cache" /\ x.item.row = r

(* A column comes with the vector of its model, or that is on its way. *)
CachesInto(x, r) == x.at = "cache" /\ x.backend = "nvidia" /\ x.item.row = r
ColumnKept(r) ==
    documents[r].column # Missing =>
      \/ "nvidia" \in Backends /\ documents[r].vectors["nvidia"] = documents[r].text
      \/ r \in torn \cup late \cup pulled
      \/ \E v \in Workers : CachesInto(worker[v], r)

RunInv ==
    /\ \A r \in RowIds : ColumnKept(r)
    /\ \A w \in Workers : Syncing(worker[w]) /\ Repairing(worker[w])

LEMMA RunInit == DocumentsInit => RunInv
<1> SUFFICES ASSUME DocumentsInit PROVE RunInv
  OBVIOUS
<1>1. \A r \in RowIds : documents[r] = Blank \/ documents[r] \in LegacyRows
  BY DEF DocumentsInit
<1>2. \A r \in RowIds : documents[r].column = Missing
  BY <1>1, LegacyRow DEF Blank
<1>3. \A w \in Workers : worker[w].kind = "none"
  BY DEF DocumentsInit, Idle
<1> QED
  BY <1>2, <1>3 DEF RunInv, ColumnKept, Syncing, Repairing

(* Steps after which a run still has what it had. *)
Improves ==
    /\ disk' = disk /\ late \subseteq late' /\ pulled \subseteq pulled'
    /\ \A r \in RowIds :
         /\ documents'[r].path = documents[r].path /\ documents'[r].text = documents[r].text
         /\ documents[r].column # Missing => documents'[r].column # Missing
         /\ \A m \in Backends : documents[r].vectors[m] = documents[r].text =>
              documents'[r].vectors[m] = documents[r].text \/ r \in late'

LEMMA SyncingOn ==
    ASSUME Improves, NEW x, Knows(x), Syncing(x) PROVE Syncing(x)'
<1> SUFFICES ASSUME x.kind = "sync", x.alone PROVE Syncing(x)'
  BY DEF Syncing
<1>1. \A p \in x.seen : Covered(p) => Covered(p)'
  BY DEF Covered, Improves
<1>2. \A i : NoteOf(i) => NoteOf(i)'
  BY DEF NoteOf, Improves
<1>3. x.at = "rename" => /\ documents'[x.item.row].text = x.item.text /\ Moved(x.item.row)'
  BY DEF Syncing, Knows, InUse, Moved, Improves
<1>4. \A p \in x.seen : disk'[p] = disk[p]
  BY DEF Improves
<1> QED
  BY <1>1, <1>2, <1>3, <1>4 DEF Syncing

LEMMA RepairingOn ==
    ASSUME Improves, NEW x, Knows(x), Repairing(x) PROVE Repairing(x)'
<1> SUFFICES ASSUME x.kind = "repair", x.alone, NEW r \in RowIds, InUse(r)'
             PROVE  \/ documents'[r].column # Missing
                    \/ documents'[r].vectors[x.backend] = documents'[r].text
                    \/ r \in late' \cup pulled'
                    \/ \E i \in x.todo : i.row = r
                    \/ x.at = "cache" /\ x.item.row = r
  BY DEF Repairing
<1>1. InUse(r) /\ x.backend \in Backends
  BY DEF InUse, Improves, Knows
<1>2. \/ documents[r].column # Missing
      \/ documents[r].vectors[x.backend] = documents[r].text \/ r \in late \cup pulled
      \/ \E i \in x.todo : i.row = r
      \/ x.at = "cache" /\ x.item.row = r
  BY <1>1 DEF Repairing
<1> QED
  BY <1>1, <1>2 DEF Improves

LEMMA LocalRun ==
    ASSUME DocumentsIInv, RunInv, Improves, NEW w \in Workers, NEW x \in Records,
           worker' = [worker EXCEPT ![w] = x], Syncing(x)', Repairing(x)',
           \A r \in RowIds : ColumnKept(r)'
    PROVE  RunInv'
<1> SUFFICES ASSUME NEW v \in Workers PROVE Syncing(worker[v])' /\ Repairing(worker[v])'
  BY DEF RunInv
<1>1. CASE v = w
  <2>1. worker'[v] = x
    BY <1>1, Typed
  <2>2. PICK y : y = worker'[v] /\ Syncing(y)' /\ Repairing(y)'
    BY <2>1
  <2> QED
    BY <2>2 DEF Syncing, Repairing
<1>2. CASE v # w
  <2>1. PICK y : y = worker[v] /\ y = worker'[v]
    BY <1>2, Typed
  <2>2. Knows(y) /\ Syncing(y) /\ Repairing(y)
    BY <2>1 DEF RunInv, DocumentsIInv
  <2>3. Syncing(y)' /\ Repairing(y)'
    BY <2>2, SyncingOn, RepairingOn
  <2> QED
    BY <2>1, <2>3 DEF Syncing, Repairing
<1> QED
  BY <1>1, <1>2

LEMMA NotAlone == ASSUME NEW x, ~x.alone PROVE Syncing(x)' /\ Repairing(x)'
BY DEF Syncing, Repairing

LEMMA DisturbRun ==
    ASSUME DocumentsIInv, NEW w \in Workers, NEW x \in Records,
           worker' = [Disturbed(w) EXCEPT ![w] = x], Syncing(x)', Repairing(x)',
           \A r \in RowIds : ColumnKept(r)'
    PROVE  RunInv'
<1> SUFFICES ASSUME NEW v \in Workers PROVE Syncing(worker[v])' /\ Repairing(worker[v])'
  BY DEF RunInv
<1>1. CASE v = w
  <2>1. worker'[v] = x
    BY <1>1, Others
  <2>2. PICK y : y = worker'[v] /\ Syncing(y)' /\ Repairing(y)'
    BY <2>1
  <2> QED
    BY <2>2 DEF Syncing, Repairing
<1>2. CASE v # w
  <2>1. PICK y : y = worker'[v] /\ y = Disturbed(w)[v]
    BY <1>2, Others
  <2>2. PICK o \in Records : o = worker[v]
    BY Typed
  <2>3. y = [o EXCEPT !.alone = o.alone /\ v = w]
    BY <2>1, <2>2 DEF Disturbed
  <2>4. ~y.alone
    BY <1>2, <2>3 DEF Records
  <2> QED
    BY <2>1, <2>4 DEF Syncing, Repairing
<1> QED
  BY <1>1, <1>2

LEMMA CachingOn ==
    ASSUME NEW w \in Workers, NEW x, Moves(w, x), NEW r,
           \E v \in Workers : CachesInto(worker[v], r)
    PROVE  CachesInto(worker[w], r) \/ \E v \in Workers : CachesInto(worker'[v], r)
<1>1. PICK v \in Workers : CachesInto(worker[v], r)
  OBVIOUS
<1>2. v # w => CachesInto(worker'[v], r)
  BY <1>1 DEF Moves, Same, CachesInto
<1> QED
  BY <1>1, <1>2

LEMMA KeptStep ==
    ASSUME RunInv, NEW w \in Workers, NEW x, Moves(w, x), NEW r \in RowIds,
           documents'[r].column = documents[r].column, documents'[r].text = documents[r].text,
           "nvidia" \in Backends => documents'[r].vectors["nvidia"] = documents[r].vectors["nvidia"],
           r \in torn \cup late \cup pulled => r \in torn' \cup late' \cup pulled',
           ~CachesInto(worker[w], r)
    PROVE  ColumnKept(r)'
<1>1. ColumnKept(r)
  BY DEF RunInv
<1>2. (\E v \in Workers : CachesInto(worker[v], r)) => \E v \in Workers : CachesInto(worker'[v], r)
  BY CachingOn
<1>3. (\E v \in Workers : CachesInto(worker'[v], r)) <=> (\E v \in Workers : CachesInto(worker[v], r))'
  BY DEF CachesInto
<1> QED
  BY <1>1, <1>2, <1>3 DEF ColumnKept

LEMMA RowsKept ==
    ASSUME DocumentsIInv, RunInv, documents' = documents, torn \subseteq torn', late \subseteq late',
           pulled \subseteq pulled', NEW w \in Workers, NEW x, Moves(w, x),
           \A r : ~CachesInto(worker[w], r)
    PROVE  \A r \in RowIds : ColumnKept(r)'
BY KeptStep

LEMMA NobodyRun ==
    ASSUME DocumentsIInv, worker' = [v \in Workers |-> [worker[v] EXCEPT !.alone = FALSE]],
           \A r \in RowIds : ColumnKept(r)'
    PROVE  RunInv'
<1> SUFFICES ASSUME NEW v \in Workers PROVE Syncing(worker[v])' /\ Repairing(worker[v])'
  BY DEF RunInv
<1>1. ~worker'[v].alone
  BY NobodyAlone
<1> QED
  BY <1>1 DEF Syncing, Repairing

LEMMA NobodyCaching ==
    ASSUME DocumentsIInv, worker' = [v \in Workers |-> [worker[v] EXCEPT !.alone = FALSE]],
           NEW r, \E v \in Workers : CachesInto(worker[v], r)
    PROVE  (\E v \in Workers : CachesInto(worker[v], r))'
<1>1. PICK v \in Workers : CachesInto(worker[v], r)
  OBVIOUS
<1>2. Same(worker[v], worker'[v])
  BY NobodyAlone
<1>3. CachesInto(worker'[v], r)
  BY <1>1, <1>2 DEF Same, CachesInto
<1> QED
  BY <1>3 DEF CachesInto

LEMMA DisksRun ==
    ASSUME DocumentsIInv, RunInv,
           \/ \E p \in Files, t \in Contents \cup {Missing} : Edit(p, t)
           \/ \E p, q \in VaultPaths : Move(p, q)
    PROVE  RunInv'
<1>1. /\ worker' = [v \in Workers |-> [worker[v] EXCEPT !.alone = FALSE]]
      /\ UNCHANGED <<documents, torn, late, pulled>>
  BY DEF Edit, Move, ChangeDisk
<1>2. ASSUME NEW r \in RowIds PROVE ColumnKept(r)'
  BY <1>1, NobodyCaching DEF RunInv, ColumnKept
<1> QED
  BY <1>1, <1>2, NobodyRun

LEMMA PullRun ==
    ASSUME DocumentsIInv, RunInv, NEW r \in RowIds, NEW p \in Paths, NEW t \in Contents \ {Missing},
           Pull(r, p, t)
    PROVE  RunInv'
<1>1. /\ documents' = [documents EXCEPT ![r].path = p, ![r].text = t]
      /\ pulled' = IF documents[r].text = t \/ (documents[r].column = Missing
                                                /\ documents[r].vectors = NoVectors)
                   THEN pulled ELSE pulled \cup {r}
      /\ worker' = [v \in Workers |-> [worker[v] EXCEPT !.alone = FALSE]]
      /\ UNCHANGED <<torn, late>>
  BY DEF Pull
<1>2. ASSUME NEW q \in RowIds PROVE ColumnKept(q)'
  <2>1. ColumnKept(q) /\ documents[q] \in DocumentRows
    BY Typed DEF RunInv
  <2>2. documents'[q].column = documents[q].column /\ documents'[q].vectors = documents[q].vectors
    <3>1. CASE q = r
      <4>1. documents'[q] = [documents[q] EXCEPT !.path = p, !.text = t]
        BY <1>1, <3>1, Typed
      <4> QED
        BY <2>1, <4>1 DEF DocumentRows
    <3>2. CASE q # r
      BY <1>1, <3>2, Typed
    <3> QED
      BY <3>1, <3>2
  <2>3. documents'[q].text = documents[q].text \/ q \in pulled' \/ documents[q].column = Missing
    <3>1. CASE q = r
      <4>1. documents'[q] = [documents[q] EXCEPT !.path = p, !.text = t]
        BY <1>1, <3>1, Typed
      <4>2. documents'[q].text = t
        BY <2>1, <4>1 DEF DocumentRows
      <4> QED
        BY <1>1, <3>1, <4>2
    <3>2. CASE q # r
      BY <1>1, <3>2, Typed
    <3> QED
      BY <3>1, <3>2
  <2>4. q \in torn \cup late \cup pulled => q \in torn' \cup late' \cup pulled'
    BY <1>1
  <2> QED
    BY <1>1, <2>1, <2>2, <2>3, <2>4, NobodyCaching DEF ColumnKept
<1> QED
  BY <1>1, <1>2, NobodyRun

LEMMA RowsUntouched ==
    ASSUME disk' = disk, documents' = documents, late \subseteq late', pulled \subseteq pulled'
    PROVE  Improves
BY DEF Improves

LEMMA BeginSyncRun ==
    ASSUME DocumentsIInv, RunInv, NEW w \in Workers, NEW notes \in SUBSET VaultPaths, BeginSync(w, notes)
    PROVE  RunInv'
<1>1. PICK x \in Records :
        /\ worker' = [worker EXCEPT ![w] = x] /\ Knows(x)
        /\ x.kind = "sync" /\ x.at = "next" /\ x.seen = notes
        /\ x.todo = {[row |-> 0, path |-> p, text |-> disk[p]] : p \in notes}
  BY Scans
<1>2. /\ UNCHANGED <<disk, documents, torn, late, pulled>>
      /\ worker[w].at = "idle" /\ \A p \in notes : disk[p] # Missing
  BY DEF BeginSync, Idle
<1>3. Improves
  BY <1>2, RowsUntouched
<1>4. \A i \in x.todo : NoteOf(i)
  BY <1>1 DEF NoteOf
<1>5. \A p \in x.seen : \E i \in x.todo : i.path = p
  <2>1. ASSUME NEW p \in notes PROVE \E i \in x.todo : i.path = p
    <3>1. [row |-> 0, path |-> p, text |-> disk[p]] \in x.todo
      BY <1>1
    <3> QED
      BY <3>1
  <2> QED
    BY <1>1, <2>1
<1>6. Syncing(x) /\ Repairing(x)
  BY <1>1, <1>2, <1>4, <1>5 DEF Syncing, Repairing
<1>7. Syncing(x)' /\ Repairing(x)'
  BY <1>1, <1>3, <1>6, SyncingOn, RepairingOn
<1>8. \A r \in RowIds : ColumnKept(r)'
  BY <1>1, <1>2, LocalStep, RowsKept DEF CachesInto
<1> QED
  BY <1>1, <1>3, <1>7, <1>8, LocalRun

LEMMA CompareRun ==
    ASSUME DocumentsIInv, RunInv, NEW w \in Workers, NEW i \in worker[w].todo, Compare(w, i)
    PROVE  RunInv'
<1>1. PICK x \in Records :
        /\ worker' = [worker EXCEPT ![w] = x] /\ Knows(x)
        /\ x.kind = "sync" /\ x.seen = worker[w].seen /\ x.todo = worker[w].todo \ {i}
        /\ x.alone = worker[w].alone
        /\ \/ x.at = "write" /\ x.item = i
           \/ x.at = "next" /\ SameText(i) \cap RowsAt(i.path) # {}
           \/ /\ x.at = "rename" /\ x.item.path = i.path /\ x.item.text = i.text
              /\ x.item.row \in SameText(i) /\ Moved(x.item.row)
  BY Compares
<1>2. /\ UNCHANGED <<disk, documents, torn, late, pulled>>
      /\ worker[w].at = "next" /\ worker[w].kind = "sync"
  BY DEF Compare, Is
<1>3. Improves
  BY <1>2, RowsUntouched
<1>4. Syncing(x)
  <2> SUFFICES ASSUME x.alone PROVE Syncing(x)
    BY DEF Syncing
  <2>1. /\ \A j \in worker[w].todo : NoteOf(j)
        /\ \A p \in x.seen : /\ disk[p] # Missing
                             /\ Covered(p) \/ \E j \in worker[w].todo : j.path = p
    BY <1>1, <1>2 DEF RunInv, Syncing
  <2>2. /\ x.at \in {"next", "rename", "write"} /\ \A j \in x.todo : NoteOf(j)
        /\ x.at # "next" => NoteOf(x.item) /\ x.item.path = i.path
    BY <1>1, <2>1 DEF NoteOf
  <2>3. x.at = "rename" => documents[x.item.row].text = x.item.text /\ Moved(x.item.row)
    BY <1>1 DEF SameText
  <2>4. x.at = "next" => Covered(i.path)
    BY <1>1, <2>1 DEF SameText, RowsAt, StoredRows, Covered, NoteOf
  <2>5. \A p \in x.seen : \/ Covered(p) \/ \E j \in x.todo : j.path = p
                          \/ x.at # "next" /\ x.item.path = p
    <3> SUFFICES ASSUME NEW p \in x.seen, NEW j \in worker[w].todo, j.path = p
                 PROVE  \/ Covered(p) \/ \E k \in x.todo : k.path = p
                        \/ x.at # "next" /\ x.item.path = p
      BY <2>1
    <3>1. CASE j = i
      BY <2>2, <2>4, <3>1
    <3>2. CASE j # i
      BY <1>1, <3>2
    <3> QED
      BY <3>1, <3>2
  <2> QED
    BY <2>1, <2>2, <2>3, <2>5 DEF Syncing
<1>5. Syncing(x)' /\ Repairing(x)'
  BY <1>1, <1>3, <1>4, SyncingOn DEF Repairing
<1>6. \A r \in RowIds : ColumnKept(r)'
  BY <1>1, <1>2, LocalStep, RowsKept DEF CachesInto
<1> QED
  BY <1>1, <1>3, <1>5, <1>6, LocalRun

LEMMA RenameRun == ASSUME DocumentsIInv, RunInv, NEW w \in Workers, Rename(w) PROVE RunInv'
<1>1. PICK i \in Items, x \in Records :
        /\ i = worker[w].item /\ InUse(i.row) /\ worker[w].kind = "sync"
        /\ \/ /\ RowsAt(i.path) = {} /\ worker' = [Disturbed(w) EXCEPT ![w] = x]
              /\ x.kind = "sync" /\ x.at = "next" /\ x.todo = worker[w].todo
              /\ x.alone = worker[w].alone /\ x.seen = worker[w].seen
              /\ \E row \in DocumentRows :
                   /\ Puts(i.row, row) /\ row.path = i.path
                   /\ row.text = documents[i.row].text
                   /\ row.column = documents[i.row].column
                   /\ row.vectors = documents[i.row].vectors
           \/ worker' = [worker EXCEPT ![w] = Idle] /\ documents' = documents
  BY Renames
<1>2. UNCHANGED <<disk, torn, late, pulled>> /\ worker[w].at = "rename"
  BY DEF Rename, Is
<1>3. CASE /\ RowsAt(i.path) = {} /\ worker' = [Disturbed(w) EXCEPT ![w] = x]
           /\ x.kind = "sync" /\ x.at = "next" /\ x.todo = worker[w].todo
           /\ x.alone = worker[w].alone /\ x.seen = worker[w].seen
           /\ \E row \in DocumentRows :
                /\ Puts(i.row, row) /\ row.path = i.path
                /\ row.text = documents[i.row].text
                /\ row.column = documents[i.row].column
                /\ row.vectors = documents[i.row].vectors
  <2>1. PICK row \in DocumentRows :
          /\ Puts(i.row, row) /\ row.path = i.path /\ row.text = documents[i.row].text
          /\ row.column = documents[i.row].column /\ row.vectors = documents[i.row].vectors
    BY <1>3
  <2>2. /\ i.row \in RowIds /\ documents'[i.row] = row
        /\ \A q \in RowIds \ {i.row} : documents'[q] = documents[q]
    BY <1>1, <2>1, Typed DEF InUse, Puts
  <2>3. Moves(w, x)
    BY <1>3, DisturbTo
  <2>4. ASSUME NEW q \in RowIds PROVE ColumnKept(q)'
    <3>1. /\ documents'[q].column = documents[q].column /\ documents'[q].text = documents[q].text
          /\ documents'[q].vectors = documents[q].vectors
      BY <2>1, <2>2
    <3>2. ~CachesInto(worker[w], q)
      BY <1>2 DEF CachesInto
    <3> QED
      BY <1>2, <2>3, <3>1, <3>2, KeptStep
  <2>5. Syncing(x)'
    <3> SUFFICES ASSUME x.alone PROVE Syncing(x)'
      BY DEF Syncing
    <3>1. /\ \A j \in x.todo : NoteOf(j)
          /\ NoteOf(i) /\ documents[i.row].text = i.text /\ Moved(i.row)
          /\ \A p \in x.seen : /\ disk[p] # Missing
                               /\ Covered(p) \/ (\E j \in x.todo : j.path = p) \/ i.path = p
      BY <1>1, <1>2, <1>3 DEF RunInv, Syncing
    <3>2. Covered(i.path)'
      BY <1>2, <2>1, <2>2, <3>1 DEF Covered, NoteOf
    <3>3. ASSUME NEW p \in x.seen, Covered(p) PROVE Covered(p)'
      <4>1. PICK q \in RowIds : documents[q].path = p /\ documents[q].text = disk[p]
        BY <3>3 DEF Covered
      <4>2. p \in Files /\ disk[p] # Missing
        BY <3>1, Fields DEF Files
      <4>3. q # i.row
        BY <3>1, <4>1, <4>2 DEF Moved
      <4> QED
        BY <1>2, <2>2, <4>1, <4>3 DEF Covered
    <3>4. \A j \in x.todo : NoteOf(j)'
      BY <1>2, <3>1 DEF NoteOf
    <3>5. \A p \in x.seen : disk'[p] # Missing /\ (Covered(p)' \/ \E j \in x.todo : j.path = p)
      BY <1>2, <3>1, <3>2, <3>3
    <3> QED
      BY <1>3, <3>4, <3>5 DEF Syncing
  <2>6. Repairing(x)'
    BY <1>3 DEF Repairing
  <2> QED
    BY <1>3, <2>4, <2>5, <2>6, DisturbRun
<1>4. CASE worker' = [worker EXCEPT ![w] = Idle] /\ documents' = documents
  <2>1. Improves
    BY <1>2, <1>4, RowsUntouched
  <2>2. Syncing(Idle)' /\ Repairing(Idle)'
    BY DEF Idle, Syncing, Repairing
  <2>3. \A r \in RowIds : ColumnKept(r)'
    BY <1>2, <1>4, IdleKnows, LocalStep, RowsKept DEF CachesInto
  <2> QED
    BY <1>4, <2>1, <2>2, <2>3, IdleKnows, LocalRun
<1> QED
  BY <1>1, <1>3, <1>4

LEMMA FreshKept ==
    ASSUME DocumentsIInv, RunInv, NEW i \in Items, NEW r \in Target(i.path),
           Replace(r, i.path, i.text), NEW w \in Workers, NEW x, Moves(w, x), worker[w].at # "cache"
    PROVE  \A q \in RowIds : ColumnKept(q)'
<1>1. PICK row \in DocumentRows : Puts(r, row) /\ row.column = Missing /\ r \in RowIds
  BY FreshRow
<1>2. documents'[r] = row /\ \A q \in RowIds \ {r} : documents'[q] = documents[q]
  BY <1>1, Typed DEF Puts
<1>3. ColumnKept(r)'
  BY <1>1, <1>2 DEF ColumnKept
<1>4. ASSUME NEW q \in RowIds \ {r} PROVE ColumnKept(q)'
  <2>1. documents'[q] = documents[q] /\ ~CachesInto(worker[w], q)
    BY <1>2 DEF CachesInto
  <2>2. q \in torn \cup late \cup pulled => q \in torn' \cup late' \cup pulled'
    BY DEF Replace
  <2> QED
    BY <2>1, <2>2, KeptStep
<1> QED
  BY <1>3, <1>4

LEMMA WriteNoteRun == ASSUME DocumentsIInv, RunInv, NEW w \in Workers, WriteNote(w) PROVE RunInv'
<1>1. PICK i \in Items, x \in Records :
        /\ i = worker[w].item /\ worker[w].kind = "sync" /\ worker[w].at = "write"
        /\ worker' = [Disturbed(w) EXCEPT ![w] = x]
        /\ x.kind = "sync" /\ x.at = "next" /\ x.todo = worker[w].todo
        /\ x.alone = worker[w].alone /\ x.seen = worker[w].seen
        /\ \E r \in Target(i.path) : Replace(r, i.path, i.text)
  BY WritesNote
<1>2. PICK r \in Target(i.path) : Replace(r, i.path, i.text)
  BY <1>1
<1>3. PICK row \in DocumentRows :
        /\ Puts(r, row) /\ row.path = i.path /\ row.text = i.text /\ r \in RowIds
  BY <1>2, FreshRow
<1>4. documents'[r] = row /\ \A q \in RowIds \ {r} : documents'[q] = documents[q]
  BY <1>3, Typed DEF Puts
<1>5. disk' = disk
  BY DEF WriteNote
<1>6. \A q \in RowIds : ColumnKept(q)'
  BY <1>1, <1>2, DisturbTo, FreshKept
<1>7. Syncing(x)'
  <2> SUFFICES ASSUME x.alone PROVE Syncing(x)'
    BY DEF Syncing
  <2>1. /\ \A j \in x.todo : NoteOf(j)
        /\ NoteOf(i)
        /\ \A p \in x.seen : /\ disk[p] # Missing
                             /\ Covered(p) \/ (\E j \in x.todo : j.path = p) \/ i.path = p
    BY <1>1 DEF RunInv, Syncing
  <2>2. Covered(i.path)'
    BY <1>3, <1>4, <1>5, <2>1 DEF Covered, NoteOf
  <2>3. ASSUME NEW p \in x.seen, Covered(p) PROVE Covered(p)'
    <3>1. PICK q \in RowIds : documents[q].path = p /\ documents[q].text = disk[p]
      BY <2>3 DEF Covered
    <3>2. p \in Paths
      BY Fields DEF Paths, Files
    <3>3. CASE q = r
      <4>1. i.path \in Paths /\ documents[r].path \in {i.path, Missing}
        BY <1>2, Targets DEF Items
      <4> QED
        BY <2>2, <3>1, <3>2, <3>3, <4>1, NoPath
    <3>4. CASE q # r
      BY <1>4, <1>5, <3>1, <3>4 DEF Covered
    <3> QED
      BY <3>3, <3>4
  <2>4. \A j \in x.todo : NoteOf(j)'
    BY <1>5, <2>1 DEF NoteOf
  <2>5. \A p \in x.seen : disk'[p] # Missing /\ (Covered(p)' \/ \E j \in x.todo : j.path = p)
    BY <1>5, <2>1, <2>2, <2>3
  <2> QED
    BY <1>1, <2>4, <2>5 DEF Syncing
<1>8. Repairing(x)'
  BY <1>1 DEF Repairing
<1> QED
  BY <1>1, <1>6, <1>7, <1>8, DisturbRun

LEMMA BeginImportRun ==
    ASSUME DocumentsIInv, RunInv, NEW w \in Workers, NEW p \in OtherPaths, BeginImport(w, p)
    PROVE  RunInv'
<1>1. PICK x \in Records : worker' = [worker EXCEPT ![w] = x] /\ x.kind = "import"
  BY BeginsImport
<1>2. UNCHANGED <<disk, documents, torn, late, pulled>> /\ worker[w].at = "idle"
  BY DEF BeginImport, Idle
<1>3. Syncing(x)' /\ Repairing(x)'
  BY <1>1 DEF Syncing, Repairing
<1>4. \A r \in RowIds : ColumnKept(r)'
  BY <1>1, <1>2, LocalStep, RowsKept DEF CachesInto
<1> QED
  BY <1>1, <1>2, <1>3, <1>4, RowsUntouched, LocalRun

LEMMA ImportRun ==
    ASSUME DocumentsIInv, RunInv, NEW w \in Workers, ImportUpdate(w) \/ ImportInsert(w) PROVE RunInv'
<1>1. /\ worker' = [Disturbed(w) EXCEPT ![w] = Idle] /\ worker[w].at # "cache"
      /\ \/ UNCHANGED <<documents, torn, late, pulled>>
         \/ \E i \in Items : \E r \in Target(i.path) : Replace(r, i.path, i.text)
  BY Imports
<1>2. Moves(w, Idle)
  BY <1>1, IdleKnows, DisturbTo
<1>3. Syncing(Idle)' /\ Repairing(Idle)'
  BY DEF Idle, Syncing, Repairing
<1>4. \A r \in RowIds : ColumnKept(r)'
  <2>1. CASE UNCHANGED <<documents, torn, late, pulled>>
    BY <1>1, <1>2, <2>1, RowsKept DEF CachesInto
  <2>2. CASE \E i \in Items : \E r \in Target(i.path) : Replace(r, i.path, i.text)
    <3>1. PICK i \in Items : \E r \in Target(i.path) : Replace(r, i.path, i.text)
      BY <2>2
    <3>2. PICK r \in Target(i.path) : Replace(r, i.path, i.text)
      BY <3>1
    <3> QED
      BY <1>1, <1>2, <3>2, FreshKept
  <2> QED
    BY <1>1, <2>1, <2>2
<1> QED
  BY <1>1, <1>3, <1>4, IdleKnows, DisturbRun

LEMMA BeginEmbeddingRun ==
    ASSUME DocumentsIInv, RunInv, NEW w \in Workers, NEW m \in Backends,
           BeginReindex(w, m) \/ BeginRepair(w, m)
    PROVE  RunInv'
<1>1. PICK x \in Records :
        /\ worker' = [worker EXCEPT ![w] = x] /\ Knows(x)
        /\ x.kind \in {"reindex", "repair"} /\ x.at = "next" /\ x.todo = Unembedded
  BY BeginsEmbedding
<1>2. UNCHANGED <<disk, documents, torn, late, pulled>> /\ worker[w].at = "idle"
  BY DEF BeginReindex, BeginRepair, Idle
<1>3. Improves
  BY <1>2, RowsUntouched
<1>4. Syncing(x) /\ Repairing(x)
  BY <1>1, Embeds DEF Syncing, Repairing
<1>5. Syncing(x)' /\ Repairing(x)'
  BY <1>1, <1>3, <1>4, SyncingOn, RepairingOn
<1>6. \A r \in RowIds : ColumnKept(r)'
  BY <1>1, <1>2, LocalStep, RowsKept DEF CachesInto
<1> QED
  BY <1>1, <1>3, <1>5, <1>6, LocalRun

LEMMA UpsertRun ==
    ASSUME DocumentsIInv, RunInv, NEW w \in Workers, NEW i \in worker[w].todo, Upsert(w, i)
    PROVE  RunInv'
<1>1. PICK r \in RowIds, row \in DocumentRows, x \in Records :
        /\ Puts(r, row)
        /\ row.column = (IF InColumn(w) THEN i.text ELSE Missing) /\ late' = Later(r, i.text)
        /\ torn' = (IF InColumn(w) THEN torn ELSE torn \ {r})
        /\ worker' = [Disturbed(w) EXCEPT ![w] = x]
        /\ worker[w].at = "next"
        /\ x.kind = "reindex" /\ x.at = "cache" /\ x.backend = worker[w].backend
        /\ x.item.row = r
  BY Upserts
<1>2. documents'[r] = row /\ \A q \in RowIds \ {r} : documents'[q] = documents[q]
  BY <1>1, Typed DEF Puts
<1>3. Moves(w, x)
  BY <1>1, DisturbTo
<1>4. ColumnKept(r)'
  <2>1. CASE InColumn(w)
    <3>1. CachesInto(worker'[w], r)
      BY <1>1, <1>3, <2>1 DEF Moves, CachesInto, InColumn
    <3>2. (\E v \in Workers : CachesInto(worker[v], r))'
      BY <3>1 DEF CachesInto
    <3> QED
      BY <3>2 DEF ColumnKept
  <2>2. CASE ~InColumn(w)
    BY <1>1, <1>2, <2>2 DEF ColumnKept
  <2> QED
    BY <2>1, <2>2
<1>5. ASSUME NEW q \in RowIds \ {r} PROVE ColumnKept(q)'
  <2>1. documents'[q] = documents[q] /\ ~CachesInto(worker[w], q)
    BY <1>1, <1>2 DEF CachesInto
  <2>2. pulled' = pulled /\ late \subseteq late' /\ (q \in torn => q \in torn')
    BY <1>1 DEF Upsert, Later
  <2> QED
    BY <1>3, <2>1, <2>2, KeptStep
<1>6. Syncing(x)' /\ Repairing(x)'
  BY <1>1 DEF Syncing, Repairing
<1> QED
  BY <1>1, <1>4, <1>5, <1>6, DisturbRun

LEMMA WriteColumnRun ==
    ASSUME DocumentsIInv, RunInv, NEW w \in Workers, NEW i \in worker[w].todo, WriteColumn(w, i)
    PROVE  RunInv'
<1>1. PICK x \in Records :
        /\ i \in Items /\ InUse(i.row) /\ worker[w].kind = "repair" /\ worker[w].at = "next"
        /\ worker' = [worker EXCEPT ![w] = x] /\ Knows(x)
        /\ x.kind = "repair" /\ x.at = "cache" /\ x.backend = worker[w].backend
        /\ x.todo = worker[w].todo \ {i} /\ x.item = i /\ x.alone = worker[w].alone
        /\ IF InColumn(w)
           THEN /\ late' = Later(i.row, i.text)
                /\ \E row \in DocumentRows :
                     /\ Puts(i.row, row) /\ row.path = documents[i.row].path
                     /\ row.text = documents[i.row].text /\ row.column = i.text
                     /\ row.vectors = documents[i.row].vectors
           ELSE documents' = documents /\ late' = late
  BY WritesColumn
<1>2. UNCHANGED <<disk, torn, pulled>> /\ late \subseteq late'
  BY <1>1 DEF WriteColumn, Later
<1>3. Moves(w, x)
  BY <1>1, LocalStep
<1>4. Improves /\ \A r \in RowIds : ColumnKept(r)'
  <2>1. CASE InColumn(w)
    <3>1. PICK row \in DocumentRows :
            /\ Puts(i.row, row) /\ row.path = documents[i.row].path
            /\ row.text = documents[i.row].text /\ row.column = i.text
            /\ row.vectors = documents[i.row].vectors
      BY <1>1, <2>1
    <3>2. /\ documents'[i.row] = row /\ \A q \in RowIds \ {i.row} : documents'[q] = documents[q]
      BY <1>1, <3>1, Typed DEF Puts, InUse
    <3>3. Improves
      BY <1>1, <1>2, <3>1, <3>2 DEF Improves, Items
    <3>4. ColumnKept(i.row)'
      <4>1. CachesInto(worker'[w], i.row)
        BY <1>1, <1>3, <2>1 DEF Moves, CachesInto, InColumn
      <4>2. (\E v \in Workers : CachesInto(worker[v], i.row))'
        BY <4>1 DEF CachesInto
      <4> QED
        BY <4>2 DEF ColumnKept
    <3>5. ASSUME NEW q \in RowIds \ {i.row} PROVE ColumnKept(q)'
      <4>1. documents'[q] = documents[q] /\ ~CachesInto(worker[w], q)
        BY <1>1, <3>2 DEF CachesInto
      <4> QED
        BY <1>2, <1>3, <4>1, KeptStep
    <3> QED
      BY <3>3, <3>4, <3>5
  <2>2. CASE ~InColumn(w)
    <3>1. documents' = documents /\ \A r : ~CachesInto(worker[w], r)
      BY <1>1, <2>2 DEF CachesInto
    <3> QED
      BY <1>2, <1>3, <3>1, RowsUntouched, RowsKept
  <2> QED
    BY <2>1, <2>2
<1>5. Syncing(x)'
  BY <1>1 DEF Syncing
<1>6. Repairing(x)
  <2> SUFFICES ASSUME x.alone, NEW r \in RowIds, InUse(r)
               PROVE  \/ documents[r].column # Missing
                      \/ documents[r].vectors[x.backend] = documents[r].text
                      \/ r \in late \cup pulled
                      \/ \E j \in x.todo : j.row = r
                      \/ x.at = "cache" /\ x.item.row = r
    BY DEF Repairing
  <2>1. \/ documents[r].column # Missing
        \/ documents[r].vectors[x.backend] = documents[r].text \/ r \in late \cup pulled
        \/ \E j \in worker[w].todo : j.row = r
    BY <1>1 DEF RunInv, Repairing
  <2>2. ASSUME NEW j \in worker[w].todo, j.row = r
        PROVE  (\E k \in x.todo : k.row = r) \/ (x.at = "cache" /\ x.item.row = r)
    <3>1. CASE j = i
      BY <1>1, <2>2, <3>1
    <3>2. CASE j # i
      BY <1>1, <2>2, <3>2
    <3> QED
      BY <3>1, <3>2
  <2> QED
    BY <2>1, <2>2
<1>7. Repairing(x)'
  BY <1>1, <1>4, <1>6, RepairingOn
<1> QED
  BY <1>1, <1>4, <1>5, <1>7, LocalRun

LEMMA CacheRun == ASSUME DocumentsIInv, RunInv, NEW w \in Workers, Cache(w) PROVE RunInv'
<1>1. PICK i \in Items, x \in Records, row \in DocumentRows :
        /\ i = worker[w].item /\ InUse(i.row) /\ worker[w].at = "cache"
        /\ worker[w].backend \in Backends /\ worker[w].kind \in {"reindex", "repair"}
        /\ worker' = [worker EXCEPT ![w] = x] /\ Knows(x)
        /\ x.kind = worker[w].kind /\ x.at = "next" /\ x.backend = worker[w].backend
        /\ x.todo = worker[w].todo /\ x.alone = worker[w].alone
        /\ Puts(i.row, row) /\ row.path = documents[i.row].path
        /\ row.text = documents[i.row].text /\ row.column = documents[i.row].column
        /\ row.vectors = [documents[i.row].vectors EXCEPT ![worker[w].backend] = i.text]
        /\ late' = Later(i.row, i.text)
        /\ torn' = (IF InColumn(w) THEN torn \ {i.row} ELSE torn)
  BY Caches
<1>2. UNCHANGED <<disk, pulled>> /\ late \subseteq late'
  BY <1>1 DEF Cache, Later
<1>3. /\ i.row \in RowIds /\ documents'[i.row] = row
      /\ \A q \in RowIds \ {i.row} : documents'[q] = documents[q]
      /\ documents[i.row].vectors \in RowVectors /\ documents[i.row].text # Missing
  BY <1>1, Typed DEF Puts, InUse, DocumentRows, DocumentsIInv, Blanks
<1>4. /\ row.vectors[worker[w].backend] = i.text
      /\ \A m \in Backends \ {worker[w].backend} : row.vectors[m] = documents[i.row].vectors[m]
  BY <1>1, <1>3 DEF RowVectors
<1>5. i.text = documents[i.row].text \/ i.row \in late'
  BY <1>1, <1>3 DEF Later
<1>6. Improves
  <2>1. \A m \in Backends : documents[i.row].vectors[m] = documents[i.row].text =>
          row.vectors[m] = documents[i.row].text \/ i.row \in late'
    BY <1>4, <1>5
  <2>2. ASSUME NEW r \in RowIds
        PROVE  /\ documents'[r].path = documents[r].path /\ documents'[r].text = documents[r].text
               /\ documents[r].column # Missing => documents'[r].column # Missing
               /\ \A m \in Backends : documents[r].vectors[m] = documents[r].text =>
                    documents'[r].vectors[m] = documents[r].text \/ r \in late'
    <3>1. CASE r = i.row
      <4>1. PICK o : o = documents[i.row] /\ o = documents[r] /\ documents'[r] = row
        BY <1>3, <3>1
      <4>2. /\ row.path = o.path /\ row.text = o.text /\ row.column = o.column
            /\ \A m \in Backends : o.vectors[m] = o.text => row.vectors[m] = o.text \/ r \in late'
        BY <1>1, <2>1, <3>1, <4>1
      <4> QED
        BY <4>1, <4>2
    <3>2. CASE r # i.row
      BY <1>3, <3>2
    <3> QED
      BY <3>1, <3>2
  <2> QED
    BY <1>2, <2>2 DEF Improves
<1>7. Moves(w, x)
  BY <1>1, LocalStep
<1>8. ASSUME NEW q \in RowIds PROVE ColumnKept(q)'
  <2>1. CASE q # i.row
    <3>1. documents'[q] = documents[q] /\ ~CachesInto(worker[w], q)
      BY <1>1, <1>3, <2>1 DEF CachesInto
    <3>2. q \in torn \cup late \cup pulled => q \in torn' \cup late' \cup pulled'
      BY <1>1, <1>2, <2>1
    <3> QED
      BY <1>7, <3>1, <3>2, KeptStep
  <2>2. CASE q = i.row /\ InColumn(w)
    BY <1>1, <1>3, <1>4, <1>5, <2>2 DEF ColumnKept, InColumn
  <2>3. CASE q = i.row /\ ~InColumn(w)
    <3>1. /\ documents'[q].column = documents[q].column /\ documents'[q].text = documents[q].text
          /\ "nvidia" \in Backends => documents'[q].vectors["nvidia"] = documents[q].vectors["nvidia"]
          /\ ~CachesInto(worker[w], q)
      BY <1>1, <1>3, <1>4, <2>3 DEF InColumn, CachesInto
    <3>2. q \in torn \cup late \cup pulled => q \in torn' \cup late' \cup pulled'
      BY <1>1, <1>2, <2>3
    <3> QED
      BY <1>7, <3>1, <3>2, KeptStep
  <2> QED
    BY <2>1, <2>2, <2>3
<1>9. Syncing(x)'
  BY <1>1 DEF Syncing
<1>10. Repairing(x)'
  <2> SUFFICES ASSUME x.kind = "repair", x.alone, NEW r \in RowIds, InUse(r)'
               PROVE  \/ documents'[r].column # Missing
                      \/ documents'[r].vectors[x.backend] = documents'[r].text
                      \/ r \in late' \cup pulled'
                      \/ \E j \in x.todo : j.row = r
    BY DEF Repairing
  <2>1. CASE r = i.row
    <3>1. documents'[r] = row /\ row.text = documents[i.row].text
      BY <1>1, <1>3, <2>1
    <3>2. row.vectors[x.backend] = i.text
      BY <1>1, <1>4
    <3>3. row.vectors[x.backend] = row.text \/ r \in late'
      BY <1>5, <2>1, <3>1, <3>2
    <3> QED
      BY <3>1, <3>3
  <2>2. CASE r # i.row
    <3>1. documents'[r] = documents[r] /\ InUse(r)
      BY <1>3, <2>2 DEF InUse
    <3>2. \/ documents[r].column # Missing
          \/ documents[r].vectors[x.backend] = documents[r].text \/ r \in late \cup pulled
          \/ \E j \in x.todo : j.row = r
      BY <1>1, <2>2, <3>1 DEF RunInv, Repairing
    <3> QED
      BY <1>2, <3>1, <3>2
  <2> QED
    BY <2>1, <2>2
<1> QED
  BY <1>1, <1>6, <1>8, <1>9, <1>10, LocalRun

(* A program that dies between the two writes leaves its row torn. *)
LEMMA LeftTorn ==
    ASSUME DocumentsIInv, RunInv, NEW w \in Workers, NEW x \in Records,
           worker' = [worker EXCEPT ![w] = x], documents' = documents, torn' = torn \cup TornBy(w),
           UNCHANGED <<disk, late, pulled>>, Syncing(x)', Repairing(x)'
    PROVE  RunInv'
<1>1. Moves(w, x)
  BY LocalStep
<1>2. ASSUME NEW r \in RowIds PROVE ColumnKept(r)'
  <2>1. CASE ~CachesInto(worker[w], r)
    BY <1>1, <2>1, KeptStep
  <2>2. CASE CachesInto(worker[w], r)
    <3>1. r \in TornBy(w) \/ documents[r].column = Missing \/ documents[r].vectors["nvidia"] # Missing
      <4>1. documents[r].path = Missing => documents[r].column = Missing
        BY DEF DocumentsIInv, Blanks
      <4> QED
        BY <2>2, <4>1 DEF TornBy, CachesInto, InColumn, Item, StoredRows
    <3>2. "nvidia" \in Backends
      BY <2>2 DEF CachesInto, DocumentsIInv, Knows
    <3>3. r \in late \cup pulled \/ documents[r].vectors["nvidia"] \in {documents[r].text, Missing}
      BY <3>2 DEF DocumentsIInv, Matches, OfText
    <3> QED
      BY <3>1, <3>2, <3>3 DEF ColumnKept
  <2> QED
    BY <2>1, <2>2
<1> QED
  BY <1>2, RowsUntouched, LocalRun

LEMMA EndRun == ASSUME DocumentsIInv, RunInv, NEW w \in Workers, Exit(w) \/ Die(w) PROVE RunInv'
<1>1. Syncing(Idle)' /\ Repairing(Idle)'
  BY DEF Idle, Syncing, Repairing
<1>2. worker' = [worker EXCEPT ![w] = Idle] /\ UNCHANGED <<disk, documents, late, pulled>>
  BY DEF Exit, Die
<1>3. CASE Exit(w)
  <2>1. torn' = torn /\ \A r : ~CachesInto(worker[w], r)
    BY <1>3 DEF Exit, CachesInto
  <2>2. \A r \in RowIds : ColumnKept(r)'
    BY <1>2, <2>1, IdleKnows, LocalStep, RowsKept
  <2> QED
    BY <1>1, <1>2, <2>2, IdleKnows, RowsUntouched, LocalRun
<1>4. CASE Die(w)
  <2>1. torn' = torn \cup TornBy(w)
    BY <1>4 DEF Die
  <2> QED
    BY <1>1, <1>2, <2>1, IdleKnows, LeftTorn
<1> QED
  BY <1>3, <1>4

LEMMA PassOverRun == ASSUME DocumentsIInv, RunInv, NEW w \in Workers, PassOver(w) PROVE RunInv'
<1>1. PICK x \in Records : worker' = [worker EXCEPT ![w] = x] /\ ~x.alone
  BY PassesOver
<1>2. torn' = torn \cup TornBy(w) /\ UNCHANGED <<disk, documents, late, pulled>>
  BY DEF PassOver
<1>3. Syncing(x)' /\ Repairing(x)'
  BY <1>1, NotAlone
<1> QED
  BY <1>1, <1>2, <1>3, LeftTorn

LEMMA NextRunInv == DocumentsIInv /\ RunInv /\ [DocumentsNext]_documentsVars => RunInv'
<1> SUFFICES ASSUME DocumentsIInv, RunInv, [DocumentsNext]_documentsVars PROVE RunInv'
  OBVIOUS
<1>1. CASE UNCHANGED documentsVars
  BY <1>1 DEF documentsVars, RunInv, ColumnKept, CachesInto, Syncing, Repairing, Covered, NoteOf,
     Moved, InUse
<1>2. CASE \/ \E p \in Files, t \in Contents \cup {Missing} : Edit(p, t)
           \/ \E p, q \in VaultPaths : Move(p, q)
  BY <1>2, DisksRun
<1>3. ASSUME NEW r \in RowIds, NEW p \in Paths, NEW t \in Contents \ {Missing}, Pull(r, p, t)
      PROVE  RunInv'
  BY <1>3, PullRun
<1>4. ASSUME NEW w \in Workers, ProgramStep(w) PROVE RunInv'
  BY <1>4, BeginSyncRun, RenameRun, WriteNoteRun, BeginImportRun, ImportRun, BeginEmbeddingRun,
     CacheRun, CompareRun, UpsertRun, WriteColumnRun, EndRun, PassOverRun DEF ProgramStep
<1> QED
  BY <1>1, <1>2, <1>3, <1>4 DEF DocumentsNext, ProgramStep

(* A sync that nothing changed under and that reports no error leaves      *)
(* every note it has read its own row with its own text, for any notes and *)
(* texts: equal, moved, swapped, or kept under paths of an earlier version *)
(* (sync_vault).                                                           *)
THEOREM Mirrored == DocumentsSpec => SyncedMeansMirrored
<1>1. DocumentsIInv /\ RunInv =>
        \A w \in Workers : Is(w, "sync", "next") /\ worker[w].alone /\ worker[w].todo = {} =>
          \A p \in worker[w].seen : \E r \in RowsAt(p) : documents[r].text = disk[p]
  <2> SUFFICES ASSUME DocumentsIInv, RunInv, NEW w \in Workers, Is(w, "sync", "next"),
                      worker[w].alone, worker[w].todo = {}, NEW p \in worker[w].seen
               PROVE  \E r \in RowsAt(p) : documents[r].text = disk[p]
    OBVIOUS
  <2>1. Covered(p)
    BY DEF RunInv, Syncing, Is
  <2>2. p # Missing
    BY Typed, Fields, NoPath DEF Files
  <2> QED
    BY <2>1, <2>2 DEF Covered, RowsAt, StoredRows
<1>2. DocumentsIInv /\ RunInv =>
        [\A w \in Workers : Is(w, "sync", "next") /\ worker'[w] = Idle /\ worker[w].alone
           /\ worker[w].todo = {} /\ workerErrors' = workerErrors =>
           \A p \in worker[w].seen :
             \E r \in RowsAt(p) : documents[r].text = disk[p]]_documentsVars
  BY <1>1
<1> QED
  BY <1>2, DocumentsInitIInv, RunInit, DocumentsNextIInv, NextRunInv, PTL
     DEF DocumentsSpec, SyncedMeansMirrored

(* When a repair that nothing changed under ends without an error, a row   *)
(* lacks the vector of its text, of the model of the repair, for the       *)
(* reasons RepairedIsFound names only (repair_null_embeddings), for any    *)
(* rows, models and programs.                                              *)
THEOREM Repaired == DocumentsSpec => RepairedIsFound
<1>1. DocumentsIInv /\ RunInv =>
        \A w \in Workers : Is(w, "repair", "next") /\ worker[w].alone /\ worker[w].todo = {} =>
          \A r \in StoredRows :
            \/ documents[r].vectors[worker[w].backend] = documents[r].text
            \/ r \in late \cup pulled
            \/ /\ documents[r].column # Missing
               /\ \/ ~InColumn(w) \/ r \in torn
                  \/ \E v \in Workers \ {w} : /\ worker[v].at = "cache" /\ InColumn(v)
                                              /\ worker[v].item.row = r
  <2> SUFFICES ASSUME DocumentsIInv, RunInv, NEW w \in Workers, Is(w, "repair", "next"),
                      worker[w].alone, worker[w].todo = {}, NEW r \in StoredRows
               PROVE  \/ documents[r].vectors[worker[w].backend] = documents[r].text
                      \/ r \in late \cup pulled
                      \/ /\ documents[r].column # Missing
                         /\ \/ ~InColumn(w) \/ r \in torn
                            \/ \E v \in Workers \ {w} : /\ worker[v].at = "cache" /\ InColumn(v)
                                                        /\ worker[v].item.row = r
    OBVIOUS
  <2>1. r \in RowIds /\ InUse(r) /\ worker[w].at = "next"
    BY DEF StoredRows, InUse, Is
  <2>2. \/ documents[r].column # Missing
        \/ documents[r].vectors[worker[w].backend] = documents[r].text \/ r \in late \cup pulled
    BY <2>1 DEF RunInv, Repairing, Is
  <2>3. CASE documents[r].column # Missing /\ InColumn(w)
    <3>1. \/ documents[r].vectors["nvidia"] = documents[r].text
          \/ r \in torn \cup late \cup pulled
          \/ \E v \in Workers : CachesInto(worker[v], r)
      BY <2>1, <2>3 DEF RunInv, ColumnKept
    <3>2. (\E v \in Workers : CachesInto(worker[v], r)) =>
            \E v \in Workers \ {w} : /\ worker[v].at = "cache" /\ InColumn(v)
                                     /\ worker[v].item.row = r
      BY <2>1 DEF CachesInto, InColumn
    <3> QED
      BY <2>3, <3>1, <3>2 DEF InColumn
  <2> QED
    BY <2>2, <2>3
<1>2. DocumentsIInv /\ RunInv =>
        [\A w \in Workers : Is(w, "repair", "next") /\ worker'[w] = Idle /\ worker[w].alone
           /\ worker[w].todo = {} /\ workerErrors' = workerErrors =>
           \A r \in StoredRows :
             \/ documents[r].vectors[worker[w].backend] = documents[r].text
             \/ r \in late \cup pulled
             \/ /\ documents[r].column # Missing
                /\ \/ ~InColumn(w) \/ r \in torn
                   \/ \E v \in Workers \ {w} : /\ worker[v].at = "cache" /\ InColumn(v)
                                               /\ worker[v].item.row = r
        ]_documentsVars
  BY <1>1
<1> QED
  BY <1>2, DocumentsInitIInv, RunInit, DocumentsNextIInv, NextRunInv, PTL
     DEF DocumentsSpec, RepairedIsFound

-----------------------------------------------------------------------------
(* What the type invariant adds. *)
Bounded ==
    /\ torn \subseteq RowIds /\ late \subseteq RowIds /\ pulled \subseteq RowIds
    /\ edits \in 0 .. MaxEdits /\ workerErrors \in 0 .. MaxWorkerErrors

LEMMA ReplaceBounded ==
    ASSUME Bounded, NEW r, NEW p, NEW t, Replace(r, p, t), UNCHANGED <<edits, workerErrors>>
    PROVE  Bounded'
BY DEF Replace, Bounded

LEMMA NextBounded == DocumentsIInv /\ Bounded /\ [DocumentsNext]_documentsVars => Bounded'
<1> SUFFICES ASSUME DocumentsIInv, Bounded, [DocumentsNext]_documentsVars PROVE Bounded'
  OBVIOUS
<1>1. CASE UNCHANGED documentsVars
  BY <1>1 DEF documentsVars, Bounded
<1>2. CASE \/ \E p \in Files, t \in Contents \cup {Missing} : Edit(p, t)
           \/ \E p, q \in VaultPaths : Move(p, q)
  BY <1>2, DocumentsAssumption DEF Edit, Move, ChangeDisk, Bounded
<1>3. ASSUME NEW r \in RowIds, NEW p \in Paths, NEW t \in Contents \ {Missing}, Pull(r, p, t)
      PROVE  Bounded'
  BY <1>3, DocumentsAssumption DEF Pull, Bounded
<1>4. ASSUME NEW w \in Workers, ProgramStep(w) PROVE Bounded'
  <2>1. CASE \/ \E notes \in SUBSET VaultPaths : BeginSync(w, notes)
             \/ \E p \in OtherPaths : BeginImport(w, p)
             \/ \E m \in Backends : BeginReindex(w, m) \/ BeginRepair(w, m)
             \/ \E i \in worker[w].todo : Compare(w, i)
             \/ Rename(w) \/ Exit(w)
    BY <2>1 DEF BeginSync, BeginImport, BeginReindex, BeginRepair, Compare, Rename, Exit, Bounded
  <2>2. CASE WriteNote(w)
    BY <2>2, ReplaceBounded DEF WriteNote
  <2>3. CASE ImportUpdate(w)
    <3>1. CASE UNCHANGED <<documents, torn, late, pulled>>
      BY <2>3, <3>1 DEF ImportUpdate, Bounded
    <3> QED
      BY <2>3, <3>1, ReplaceBounded DEF ImportUpdate
  <2>4. CASE ImportInsert(w)
    <3>1. CASE UNCHANGED <<documents, torn, late, pulled>>
      BY <2>4, <3>1 DEF ImportInsert, Bounded
    <3> QED
      BY <2>4, <3>1, ReplaceBounded DEF ImportInsert
  <2>5. CASE \E i \in worker[w].todo : Upsert(w, i)
    <3>1. PICK i \in worker[w].todo : Upsert(w, i)
      BY <2>5
    <3>2. PICK r \in RowIds : late' = Later(r, i.text) /\ torn' \subseteq torn
      BY <3>1, Upserts
    <3> QED
      BY <3>1, <3>2 DEF Upsert, Later, Bounded
  <2>6. CASE \E i \in worker[w].todo : WriteColumn(w, i)
    <3>1. PICK i \in worker[w].todo : WriteColumn(w, i)
      BY <2>6
    <3>2. i.row \in RowIds /\ (late' = Later(i.row, i.text) \/ late' = late)
      BY <3>1, WritesColumn DEF InUse
    <3> QED
      BY <3>1, <3>2 DEF WriteColumn, Later, Bounded
  <2>7. CASE Cache(w)
    <3>1. PICK i \in Items : /\ i.row \in RowIds /\ late' = Later(i.row, i.text)
                             /\ torn' \subseteq torn
      BY <2>7, Caches DEF InUse
    <3> QED
      BY <2>7, <3>1 DEF Cache, Later, Bounded
  <2>8. CASE Die(w) \/ PassOver(w)
    BY <2>8, DocumentsAssumption DEF Die, PassOver, TornBy, StoredRows, Bounded
  <2> QED
    BY <1>4, <2>1, <2>2, <2>3, <2>4, <2>5, <2>6, <2>7, <2>8 DEF ProgramStep
<1> QED
  BY <1>1, <1>2, <1>3, <1>4 DEF DocumentsNext, ProgramStep

(* The type invariant, one row per path included, for any number of files, *)
(* models, programs and faults.                                            *)
THEOREM DocumentsTypeCorrect == DocumentsSpec => []DocumentsTypeOK
<1>1. DocumentsInit => Bounded
  BY DocumentsAssumption DEF DocumentsInit, Bounded
<1>2. DocumentsIInv /\ Bounded => DocumentsTypeOK
  <2> SUFFICES ASSUME DocumentsIInv, Bounded PROVE DocumentsTypeOK
    OBVIOUS
  <2>1. disk \in [Files -> Contents \cup {Missing}]
    BY Typed DEF Text
  <2>2. \A r \in RowIds :
          /\ documents[r].path \in Paths \cup {Missing}
          /\ {documents[r].text, documents[r].column} \subseteq Contents \cup {Missing}
          /\ documents[r].vectors \in [Backends -> Contents \cup {Missing}]
    <3>1. \A r \in RowIds : documents[r] \in DocumentRows
      BY Typed
    <3> QED
      BY <3>1 DEF DocumentRows, Text, RowVectors
  <2>3. \A r, s \in StoredRows : documents[r].path = documents[s].path => r = s
    BY DEF DocumentsIInv, OneRowPerPath, StoredRows
  <2>4. ASSUME NEW w \in Workers
        PROVE  /\ worker[w].kind \in {"none", "sync", "import", "reindex", "repair"}
               /\ worker[w].at \in {"idle", "next", "rename", "write", "update", "insert", "cache"}
               /\ worker[w].item.row \in RowIds \cup {0}
               /\ worker[w].backend \in Backends \cup {"none"} /\ worker[w].seen \subseteq VaultPaths
    <3>1. PICK x \in Records : x = worker[w]
      BY Typed
    <3>2. x.item.row \in RowIds \cup {0}
      BY <3>1, Fields DEF Items, NoItem
    <3> QED
      BY <3>1, <3>2, Fields DEF ProgramKinds, ProgramPlaces
  <2> QED
    BY <2>1, <2>2, <2>3, <2>4 DEF Bounded, DocumentsTypeOK
<1> QED
  BY <1>1, <1>2, DocumentsInitIInv, DocumentsNextIInv, NextBounded, PTL DEF DocumentsSpec
=============================================================================
