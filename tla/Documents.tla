----------------------------- MODULE Documents -----------------------------
(***************************************************************************)
(* The table documents and the vectors of its rows: files of the vault are *)
(* synchronised (ingest/vault.rs), logs and configuration files imported   *)
(* (ingest/mod.rs), rows changed on another device pulled (neon-sync.rs),  *)
(* rows without a vector re-embedded by two other programs (reindex and    *)
(* repair-embeddings, services/ingestion.rs).                              *)
(*                                                                         *)
(* A vector is the text it was computed from.  A row may have one in its   *)
(* own column, and in the table embeddings one of each model, of which a   *)
(* search reads the one of its own model.  A checksum stands for its text. *)
(* Each program is a worker; between two of its transactions everything    *)
(* else may run, or it may die.                                            *)
(***************************************************************************)
EXTENDS Naturals, FiniteSets

CONSTANTS
    VaultPaths,     \* notes of the vault
    OtherPaths,     \* logs, configuration, rules and skills
    LegacyPaths,    \* paths that notes had in rows of an earlier version
    Backends,       \* embedding models a program may be configured with
    Contents,
    Workers,        \* programs that run at once
    MaxEdits,       \* bound on the changes of files
    MaxWorkerErrors \* bound on the failures

ASSUME DocumentsAssumption ==
    /\ VaultPaths \cap OtherPaths = {} /\ LegacyPaths \cap (VaultPaths \cup OtherPaths) = {}
    /\ "missing" \notin VaultPaths \cup OtherPaths \cup LegacyPaths
    /\ IsFiniteSet(VaultPaths \cup OtherPaths \cup LegacyPaths)
    /\ MaxEdits \in Nat /\ MaxWorkerErrors \in Nat

VARIABLES
    disk,           \* the text of each file
    documents,      \* the rows: path, text, column, vectors by model
    worker,         \* the local variables of each program
    torn,           \* rows with the column written and the vector not
    late,           \* rows that got a vector of, or went back to, a text read before
    pulled,         \* rows with vectors whose text another device changed
    edits, workerErrors

documentsVars == <<disk, documents, worker, torn, late, pulled, edits, workerErrors>>

Missing   == "missing"
Files     == VaultPaths \cup OtherPaths
Paths     == Files \cup LegacyPaths
RowIds    == 1 .. Cardinality(Paths)   \* the path is UNIQUE and no row is deleted
NoVectors == [m \in Backends |-> Missing]
Blank     == [path |-> Missing, text |-> Missing, column |-> Missing, vectors |-> NoVectors]
NoItem    == [row |-> 0, path |-> Missing, text |-> Missing]
Idle      == [kind |-> "none", at |-> "idle", backend |-> "none", seen |-> {}, todo |-> {},
              item |-> NoItem, alone |-> FALSE]
StoredRows == {r \in RowIds : documents[r].path # Missing}
RowsAt(p)  == {r \in StoredRows : documents[r].path = p}

DocumentsTypeOK ==
    /\ disk \in [Files -> Contents \cup {Missing}]
    /\ \A r \in RowIds :
         /\ documents[r].path \in Paths \cup {Missing}
         /\ {documents[r].text, documents[r].column} \subseteq Contents \cup {Missing}
         /\ documents[r].vectors \in [Backends -> Contents \cup {Missing}]
    /\ \A r, s \in StoredRows : documents[r].path = documents[s].path => r = s
    /\ \A w \in Workers :
         /\ worker[w].kind \in {"none", "sync", "import", "reindex", "repair"}
         /\ worker[w].at \in {"idle", "next", "rename", "write", "update", "insert", "cache"}
         /\ worker[w].item.row \in RowIds \cup {0}
         /\ worker[w].backend \in Backends \cup {"none"} /\ worker[w].seen \subseteq VaultPaths
    /\ torn \subseteq RowIds /\ late \subseteq RowIds /\ pulled \subseteq RowIds
    /\ edits \in 0 .. MaxEdits /\ workerErrors \in 0 .. MaxWorkerErrors

(* Nothing but rows of an earlier version of the program.                  *)
LegacyRows ==
    [path : LegacyPaths, text : Contents \ {Missing}, column : {Missing}, vectors : {NoVectors}]

DocumentsInit ==
    /\ disk \in [Files -> Contents \cup {Missing}]
    /\ documents \in [RowIds -> {Blank} \cup LegacyRows]
    /\ \A r, s \in StoredRows : documents[r].path = documents[s].path => r = s
    /\ worker = [w \in Workers |-> Idle]
    /\ torn = {} /\ late = {} /\ pulled = {} /\ edits = 0 /\ workerErrors = 0

-----------------------------------------------------------------------------
(* What every program does to its own variables.                           *)

Is(w, kind, at) == worker[w].kind = kind /\ worker[w].at = at
Item(w)         == worker[w].item

InColumn(w)     == worker[w].backend = "nvidia"   \* embedding_belongs_in_source_column

Start(w, kind, model, seen, todo) ==
    worker' = [worker EXCEPT ![w] = [kind |-> kind, at |-> "next", backend |-> model,
                 seen |-> seen, todo |-> todo, item |-> NoItem, alone |-> TRUE]]

(* The item picked next, and where the program goes with it.               *)
Take(w, i, at) ==
    worker' = [worker EXCEPT ![w].todo = @ \ {i}, ![w].item = i, ![w].at = at]

(* The rows or files changed: a program that started before is not alone.  *)
Disturbed(w) == [v \in Workers |-> [worker[v] EXCEPT !.alone = @ /\ v = w]]

(* A text read before goes to row r, or its vector does. *)
Later(r, t) == IF documents[r].text \in {t, Missing} THEN late ELSE late \cup {r}

(* The row of a path, or a new one.  Inserts of one path wait for each     *)
(* other: pg_advisory_xact_lock in sync_vault and upsert_document.         *)
Target(p) ==
    IF RowsAt(p) # {} THEN RowsAt(p)
    ELSE {r \in RowIds \ StoredRows : \A q \in RowIds \ StoredRows : r <= q}

(* Mutant: only the vector of the usual model goes. *)
FreshForOne(r, p, t) ==
    [path |-> p, text |-> t, column |-> Missing,
     vectors |-> [m \in Backends |-> IF m = "nvidia" THEN Missing ELSE documents[r].vectors[m]]]

(* New content has no vector in either place. *)
Fresh(r, p, t) == [path |-> p, text |-> t, column |-> Missing, vectors |-> NoVectors]

Replace(r, p, t) ==
    /\ documents' = [documents EXCEPT ![r] = Fresh(r, p, t)]
    /\ torn' = torn \ {r} /\ late' = late \ {r} /\ pulled' = pulled \ {r}

-----------------------------------------------------------------------------
(* Somebody writes or deletes a file, or gives it another name. *)
ChangeDisk(new) ==
    /\ edits < MaxEdits /\ new # disk
    /\ edits' = edits + 1
    /\ disk' = new
    /\ worker' = [w \in Workers |-> [worker[w] EXCEPT !.alone = FALSE]]
    /\ UNCHANGED <<documents, torn, late, pulled, workerErrors>>

Edit(p, t) == ChangeDisk([disk EXCEPT ![p] = t])
Move(p, q) == ChangeDisk([disk EXCEPT ![p] = Missing, ![q] = disk[p]])

-----------------------------------------------------------------------------
(* A change of another device arrives: apply_remote_event inserts the row  *)
(* or, by its id, overwrites it, all but the column of its vector, and     *)
(* leaves the table embeddings alone.  A path of another row is an error.  *)
Pull(r, p, t) ==
    /\ edits < MaxEdits
    /\ r \in StoredRows \/ (r \in Target(p) /\ RowsAt(p) = {})
    /\ RowsAt(p) \subseteq {r} /\ <<p, t>> # <<documents[r].path, documents[r].text>>
    /\ edits' = edits + 1
    /\ documents' = [documents EXCEPT ![r].path = p, ![r].text = t]
    /\ pulled' = IF documents[r].text = t \/ (documents[r].column = Missing
                                               /\ documents[r].vectors = NoVectors)
                 THEN pulled ELSE pulled \cup {r}
    /\ worker' = [w \in Workers |-> [worker[w] EXCEPT !.alone = FALSE]]
    /\ UNCHANGED <<disk, torn, late, workerErrors>>

-----------------------------------------------------------------------------
(* sync_vault: scan_vault reads the notes before the first statement; what *)
(* cannot be read, is not UTF-8 or is older than the newest `limit` notes  *)
(* it passes over in silence.                                              *)
BeginSync(w, notes) ==
    /\ worker[w] = Idle
    /\ \A p \in notes : disk[p] # Missing
    /\ Start(w, "sync", "none", notes, {[row |-> 0, path |-> p, text |-> disk[p]] : p \in notes})
    /\ UNCHANGED <<disk, documents, torn, late, pulled, edits, workerErrors>>

(* The query for rows of the vault with this checksum. *)
SameText(i) ==
    {r \in StoredRows : /\ documents[r].text = i.text
                        /\ documents[r].path \in VaultPaths \cup LegacyPaths
                        /\ documents[r].path = i.path \/ RowsAt(i.path) = {}}

(* Mutant: a file that still exists loses its row. *)
MovedAnywhere(r) == TRUE

(* The file of row r is no longer there; of a legacy path it never is. *)
Moved(r) == documents[r].path \in Files => disk[documents[r].path] = Missing

(* A note that has its row is skipped, one that was moved keeps the row it *)
(* had (the query returns any one of the candidates), others are written.  *)
Compare(w, i) ==
    /\ Is(w, "sync", "next") /\ i \in worker[w].todo
    /\ IF SameText(i) = {} THEN Take(w, i, "write")
       ELSE IF SameText(i) \cap RowsAt(i.path) # {}
       THEN worker' = [worker EXCEPT ![w].todo = @ \ {i}]
       ELSE \E r \in SameText(i) :
              IF Moved(r)
              THEN worker' = [worker EXCEPT ![w].todo = @ \ {i}, ![w].item = [i EXCEPT !.row = r],
                                            ![w].at = "rename"]
              ELSE Take(w, i, "write")
    /\ UNCHANGED <<disk, documents, torn, late, pulled, edits, workerErrors>>

(* Mutant: no UNIQUE on documents.path. *)
Renamed(w) ==
    /\ Is(w, "sync", "rename")
    /\ documents' = [documents EXCEPT ![Item(w).row].path = Item(w).path]
    /\ worker' = [Disturbed(w) EXCEPT ![w].at = "next", ![w].item = NoItem]
    /\ UNCHANGED <<disk, torn, late, pulled, edits, workerErrors>>

(* UPDATE documents SET path; a path taken meanwhile ends the run. *)
Rename(w) ==
    /\ Is(w, "sync", "rename")
    /\ IF RowsAt(Item(w).path) = {}
       THEN /\ documents' = [documents EXCEPT ![Item(w).row].path = Item(w).path]
            /\ worker' = [Disturbed(w) EXCEPT ![w].at = "next", ![w].item = NoItem]
       ELSE /\ worker' = [worker EXCEPT ![w] = Idle]
            /\ UNCHANGED documents
    /\ UNCHANGED <<disk, torn, late, pulled, edits, workerErrors>>

(* The transaction that updates or inserts the row. *)
WriteNote(w) ==
    /\ Is(w, "sync", "write")
    /\ \E r \in Target(Item(w).path) : Replace(r, Item(w).path, Item(w).text)
    /\ worker' = [Disturbed(w) EXCEPT ![w].at = "next", ![w].item = NoItem]
    /\ UNCHANGED <<disk, edits, workerErrors>>

-----------------------------------------------------------------------------
(* ingest_logs, ingest_config: insert_document looks first and writes then.*)
BeginImport(w, p) ==
    /\ worker[w] = Idle /\ disk[p] # Missing
    /\ worker' = [worker EXCEPT ![w] =
         [Idle EXCEPT !.kind = "import",
                      !.at = IF RowsAt(p) = {} THEN "insert" ELSE "update",
                      !.item = [row |-> 0, path |-> p, text |-> disk[p]]]]
    /\ UNCHANGED <<disk, documents, torn, late, pulled, edits, workerErrors>>

(* UPDATE: the vectors go only if the content IS DISTINCT. *)
ImportUpdate(w) ==
    /\ Is(w, "import", "update")
    /\ \E r \in RowsAt(Item(w).path) :
         IF documents[r].text = Item(w).text
         THEN UNCHANGED <<documents, torn, late, pulled>>
         ELSE Replace(r, Item(w).path, Item(w).text)
    /\ worker' = [Disturbed(w) EXCEPT ![w] = Idle]
    /\ UNCHANGED <<disk, edits, workerErrors>>

(* INSERT: a path taken meanwhile is an error. *)
ImportInsert(w) ==
    /\ Is(w, "import", "insert")
    /\ \E r \in Target(Item(w).path) :
         IF RowsAt(Item(w).path) # {}
         THEN UNCHANGED <<documents, torn, late, pulled>>
         ELSE Replace(r, Item(w).path, Item(w).text)
    /\ worker' = [Disturbed(w) EXCEPT ![w] = Idle]
    /\ UNCHANGED <<disk, edits, workerErrors>>

-----------------------------------------------------------------------------
(* reindex_all and repair_null_embeddings begin alike. *)
Unembedded ==
    {[row |-> r, path |-> documents[r].path, text |-> documents[r].text] :
       r \in {s \in StoredRows : documents[s].column = Missing}}

BeginReindex(w, m) ==
    /\ worker[w] = Idle /\ Unembedded # {}
    /\ Start(w, "reindex", m, {}, Unembedded)
    /\ UNCHANGED <<disk, documents, torn, late, pulled, edits, workerErrors>>

BeginRepair(w, m) ==
    /\ worker[w] = Idle /\ Unembedded # {}
    /\ Start(w, "repair", m, {}, Unembedded)
    /\ UNCHANGED <<disk, documents, torn, late, pulled, edits, workerErrors>>

(* reindex_all embeds the text it read and upserts both under the path it  *)
(* read (upsert_document); the vector follows after the transaction.       *)
Upsert(w, i) ==
    /\ Is(w, "reindex", "next") /\ i \in worker[w].todo
    /\ \E r \in Target(i.path) :
         /\ documents' = [documents EXCEPT ![r] =
                            [path |-> i.path, text |-> i.text,
                             column |-> IF InColumn(w) THEN i.text ELSE Missing,
                             vectors |-> documents[r].vectors]]
         /\ torn' = IF InColumn(w) THEN torn ELSE torn \ {r}
         /\ late' = Later(r, i.text)
         /\ worker' = [Disturbed(w) EXCEPT ![w].todo = @ \ {i},
                             ![w].item = [i EXCEPT !.row = r], ![w].at = "cache"]
    /\ UNCHANGED <<disk, pulled, edits, workerErrors>>

(* repair_null_embeddings: the column of the row, whatever its text is now.*)
WriteColumn(w, i) ==
    /\ Is(w, "repair", "next") /\ i \in worker[w].todo
    /\ IF InColumn(w)
       THEN /\ documents' = [documents EXCEPT ![i.row].column = i.text]
            /\ late' = Later(i.row, i.text)
       ELSE UNCHANGED <<documents, late>>
    /\ Take(w, i, "cache")
    /\ UNCHANGED <<disk, torn, pulled, edits, workerErrors>>

(* Mutant: only a vector that belongs in the column is stored. *)
CachedIfInColumn(w, i) == IF InColumn(w) THEN i.text ELSE documents[i.row].vectors[worker[w].backend]

Cached(w, i) == i.text

(* store_embedding: ON CONFLICT (source_table, source_id, model). *)
Cache(w) ==
    /\ worker[w].at = "cache"
    /\ documents' = [documents EXCEPT ![Item(w).row].vectors[worker[w].backend] =
                                         Cached(w, Item(w))]
    /\ torn' = IF InColumn(w) THEN torn \ {Item(w).row} ELSE torn
    /\ late' = Later(Item(w).row, Item(w).text)
    /\ worker' = [worker EXCEPT ![w].at = "next", ![w].item = NoItem]
    /\ UNCHANGED <<disk, pulled, edits, workerErrors>>

-----------------------------------------------------------------------------
Exit(w) ==
    /\ worker[w].at = "next" /\ worker[w].todo = {}
    /\ worker' = [worker EXCEPT ![w] = Idle]
    /\ UNCHANGED <<disk, documents, torn, late, pulled, edits, workerErrors>>

(* The column of a row stays written with no vector to follow. *)
TornBy(w) ==
    {r \in StoredRows : /\ worker[w].at = "cache" /\ InColumn(w) /\ Item(w).row = r
                        /\ documents[r].column # Missing
                        /\ documents[r].vectors["nvidia"] = Missing}

(* The program dies, or a statement whose error ends the run fails. *)
Die(w) ==
    /\ worker[w].at # "idle" /\ workerErrors < MaxWorkerErrors
    /\ workerErrors' = workerErrors + 1
    /\ torn' = torn \cup TornBy(w)
    /\ worker' = [worker EXCEPT ![w] = Idle]
    /\ UNCHANGED <<disk, documents, late, pulled, edits>>

(* A text that cannot be embedded in time, a note that cannot be written,  *)
(* a vector that reindex cannot store: counted and passed over.            *)
PassOver(w) ==
    /\ workerErrors < MaxWorkerErrors
    /\ workerErrors' = workerErrors + 1
    /\ \/ /\ worker[w].kind \in {"reindex", "repair"} /\ worker[w].at = "next"
          /\ \E i \in worker[w].todo :
               worker' = [worker EXCEPT ![w].todo = @ \ {i}, ![w].alone = FALSE]
       \/ /\ Is(w, "sync", "write") \/ Is(w, "reindex", "cache")
          /\ worker' = [worker EXCEPT ![w].at = "next", ![w].item = NoItem, ![w].alone = FALSE]
    /\ torn' = torn \cup TornBy(w)
    /\ UNCHANGED <<disk, documents, late, pulled, edits>>

DocumentsNext ==
    \/ \E p \in Files, t \in Contents \cup {Missing} : Edit(p, t)
    \/ \E p, q \in VaultPaths : Move(p, q)
    \/ \E r \in RowIds, p \in Paths, t \in Contents \ {Missing} : Pull(r, p, t)
    \/ \E w \in Workers :
         \/ \E notes \in SUBSET VaultPaths : BeginSync(w, notes)
         \/ Rename(w) \/ WriteNote(w)
         \/ \E p \in OtherPaths : BeginImport(w, p)
         \/ ImportUpdate(w) \/ ImportInsert(w)
         \/ \E m \in Backends : BeginReindex(w, m) \/ BeginRepair(w, m)
         \/ Cache(w)
         \/ \E i \in worker[w].todo : Compare(w, i) \/ Upsert(w, i) \/ WriteColumn(w, i)
         \/ Exit(w) \/ Die(w) \/ PassOver(w)

DocumentsSpec == DocumentsInit /\ [][DocumentsNext]_documentsVars

-----------------------------------------------------------------------------
(* A search meets the vector of another text, of any model, for two       *)
(* reasons only: reindex or repair-embeddings stored a vector, or wrote    *)
(* back a text, read before the row changed (nothing checks it:            *)
(* ingestion.rs, postgres.rs upsert_document), or another device changed   *)
(* the text of a row that had vectors (neon-sync.rs apply_remote_event).   *)
(* A sync or an import, whatever runs with it, never leaves one; nor does  *)
(* upsert_document between its two writes.                                 *)
VectorsMatchText ==
    \A r \in StoredRows \ (late \cup pulled) :
      {documents[r].column} \cup {documents[r].vectors[m] : m \in Backends}
        \subseteq {documents[r].text, Missing}

(* A sync that nothing changed under and that reports no error leaves every*)
(* note it has read its own row with its own text: notes with the same     *)
(* content, moved notes and swapped notes included (the comment in         *)
(* sync_vault).                                                            *)
SyncedMeansMirrored ==
    [][\A w \in Workers : Is(w, "sync", "next") /\ worker'[w] = Idle /\ worker[w].alone
         /\ worker[w].todo = {} /\ workerErrors' = workerErrors =>
         \A p \in worker[w].seen :
           \E r \in RowsAt(p) : documents[r].text = disk[p]]_documentsVars

(* When repair-embeddings ends without an error, with no text changed      *)
(* under it, a row still lacks the vector of its text for these reasons    *)
(* only: it has one in its column, so it was passed over, and that one is  *)
(* of another model than the program's, or of a program that died, or is,  *)
(* between column and vector; or its text changed as above.                *)
RepairedIsFound ==
    [][\A w \in Workers : Is(w, "repair", "next") /\ worker'[w] = Idle /\ worker[w].alone
         /\ worker[w].todo = {} /\ workerErrors' = workerErrors =>
         \A r \in StoredRows :
           \/ documents[r].vectors[worker[w].backend] = documents[r].text
           \/ r \in late \cup pulled
           \/ /\ documents[r].column # Missing
              /\ \/ ~InColumn(w) \/ r \in torn
                 \/ \E v \in Workers \ {w} : /\ worker[v].at = "cache" /\ InColumn(v)
                                             /\ worker[v].item.row = r
      ]_documentsVars
=============================================================================
