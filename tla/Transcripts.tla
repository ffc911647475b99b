---------------------------- MODULE Transcripts ----------------------------
(***************************************************************************)
(* Ingestion of agent transcripts (ingest/codex_sessions.rs,               *)
(* ingest/sessions.rs, the inserts of ingest/mod.rs).  A Codex archive     *)
(* grows and is ingested again when its checksum differs from the one      *)
(* stored with its document; an OpenCode session grows too, but is         *)
(* ingested only while no memory names it.  One transcript takes several   *)
(* statements and no transaction.                                          *)
(***************************************************************************)
EXTENDS Naturals, Sequences

CONSTANTS
    Archives,           \* Codex session files, of one session each
    Conversations,      \* OpenCode sessions
    Ingestors,          \* ingest processes that run at once
    MaxGrowth,          \* bound on the versions of a transcript
    MaxRowsEach,        \* bound on the rows of one kind for one transcript
    MaxBreaks           \* bound on processes that die and statements that fail

ASSUME TranscriptsAssumption ==
    /\ Archives \cap Conversations = {}
    /\ MaxGrowth \in Nat \ {0} /\ MaxRowsEach \in Nat \ {0} /\ MaxBreaks \in Nat

VARIABLES
    transcript,         \* the version of each; of an archive, its checksum; of a
                        \* conversation, the number of the user's prompts
    codexDocument,      \* the checksum stored, 0 for no document
    sessionRows,        \* sessions with a source_key
    experienceRows,     \* of each transcript, in the order of their insertion: the version
    memoryRows,
    ingestor,           \* local variables of each process
    contended,          \* transcripts that two processes worked on at once
    incomplete,         \* transcripts whose last run stopped half-way
    breaks

transcriptsVars == <<transcript, codexDocument, sessionRows, experienceRows, memoryRows,
                     ingestor, contended, incomplete, breaks>>
rowsOfAll == <<codexDocument, sessionRows, experienceRows, memoryRows>>

Sources  == Archives \cup Conversations
Resting  == [at |-> "idle", source |-> "none", version |-> 0, prompts |-> 0]
Versions == 0 .. MaxGrowth
Step(w, place)  == ingestor[w].at = place
Goes(w, place)  == ingestor' = [ingestor EXCEPT ![w].at = place]
Source(w)       == ingestor[w].source

(* Every row of a transcript gets version v; n rows of version v. *)
All(rows, v)  == [i \in DOMAIN rows |-> v]
Rows(n, v)    == [i \in 1 .. n |-> v]

TranscriptsTypeOK ==
    /\ transcript \in [Sources -> Versions] /\ codexDocument \in [Archives -> Versions]
    /\ sessionRows \subseteq Sources
    /\ \A s \in Sources : \A rows \in {experienceRows[s], memoryRows[s]} :
         /\ Len(rows) <= MaxRowsEach
         /\ \A i \in DOMAIN rows : rows[i] \in Versions \ {0}
    /\ \A w \in Ingestors :
         /\ {ingestor[w].version, ingestor[w].prompts} \subseteq Versions
         /\ ingestor[w].at # "idle" => Source(w) \in Sources
    /\ contended \subseteq Sources /\ incomplete \subseteq Sources
    /\ breaks \in 0 .. MaxBreaks

TranscriptsInit ==
    /\ transcript = [s \in Sources |-> 1]
    /\ codexDocument = [f \in Archives |-> 0]
    /\ sessionRows = {}
    /\ experienceRows = [s \in Sources |-> <<>>]
    /\ memoryRows = [s \in Sources |-> <<>>]
    /\ ingestor = [w \in Ingestors |-> Resting]
    /\ contended = {} /\ incomplete = {} /\ breaks = 0

-----------------------------------------------------------------------------
(* A process takes up a transcript; it goes on beside those already at it. *)
BeginWork(w, s, place, v) ==
    /\ ingestor' = [ingestor EXCEPT ![w] =
         [Resting EXCEPT !.at = place, !.source = s, !.version = v]]
    /\ contended' = IF \E o \in Ingestors \ {w} : ingestor[o].source = s
                     THEN contended \cup {s} ELSE contended

(* The last statement for a transcript. *)
Finish(w) ==
    /\ ingestor' = [ingestor EXCEPT ![w] = Resting]
    /\ incomplete' = IF Source(w) \in contended THEN incomplete ELSE incomplete \ {Source(w)}

Insert(rows, s, v) ==
    /\ Len(rows[s]) < MaxRowsEach
    /\ rows' = [rows EXCEPT ![s] = Append(@, v)]

-----------------------------------------------------------------------------
(* The agent and its user go on talking. *)
Grow(s) ==
    /\ transcript[s] < MaxGrowth
    /\ transcript' = [transcript EXCEPT ![s] = @ + 1]
    /\ UNCHANGED <<rowsOfAll, ingestor, contended, incomplete, breaks>>

(* scan_sessions reads the archives, all before the first is ingested. *)
ScanArchive(w, f) ==
    /\ Step(w, "idle") /\ BeginWork(w, f, "compare", transcript[f])
    /\ UNCHANGED <<transcript, rowsOfAll, incomplete, breaks>>

(* The checksum of the document: the same means nothing to do. *)
CompareArchive(w) ==
    /\ Step(w, "compare")
    /\ ingestor' = [ingestor EXCEPT ![w] =
         IF codexDocument[Source(w)] = ingestor[w].version THEN Resting
         ELSE [@ EXCEPT !.at = "look"]]
    /\ UNCHANGED <<transcript, rowsOfAll, contended, incomplete, breaks>>

(* insert_document looks for the path, then writes. *)
LookForDocument(w) ==
    /\ Step(w, "look")
    /\ Goes(w, IF codexDocument[Source(w)] = 0 THEN "insert" ELSE "update")
    /\ UNCHANGED <<transcript, rowsOfAll, contended, incomplete, breaks>>

(* Mutant: only a new archive gets the rest. *)
AfterUpdate == "idle"

(* An archive that grew is brought up to date everywhere. *)
AfterDocument == "session"

(* The document has the new checksum before the rest is written; an insert *)
(* of a path taken meanwhile is reported and the rest left out.            *)
WriteDocument(w) ==
    /\ Step(w, "insert") \/ Step(w, "update")
    /\ IF Step(w, "insert") /\ codexDocument[Source(w)] # 0
       THEN /\ ingestor' = [ingestor EXCEPT ![w] = Resting]
            /\ UNCHANGED codexDocument
       ELSE /\ codexDocument' = [codexDocument EXCEPT ![Source(w)] = ingestor[w].version]
            /\ IF Step(w, "update") /\ AfterDocument = "idle"
               THEN ingestor' = [ingestor EXCEPT ![w] = Resting]
               ELSE Goes(w, "session")
    /\ UNCHANGED <<transcript, sessionRows, experienceRows, memoryRows, contended, incomplete,
                   breaks>>

(* upsert_source_session *)
UpsertSession(w) ==
    /\ Step(w, "session")
    /\ sessionRows' = sessionRows \cup {Source(w)}
    /\ Goes(w, "experience")
    /\ UNCHANGED <<transcript, codexDocument, experienceRows, memoryRows, contended, incomplete,
                   breaks>>

(* Mutant: the UPDATE is left out. *)
NeverThere(rows) == FALSE

(* rows_affected() of the UPDATE is not 0. *)
Updated(rows) == rows # <<>>

(* UPDATE experiences of the session; INSERT if there was none.            *)
UpdateExperience(w) ==
    /\ Step(w, "experience")
    /\ IF Updated(experienceRows[Source(w)])
       THEN /\ experienceRows' = [experienceRows EXCEPT ![Source(w)] = All(@, ingestor[w].version)]
            /\ Goes(w, "memory")
       ELSE Goes(w, "newExperience") /\ UNCHANGED experienceRows
    /\ UNCHANGED <<transcript, codexDocument, sessionRows, memoryRows, contended, incomplete, breaks>>

InsertExperience(w) ==
    /\ Step(w, "newExperience")
    /\ Insert(experienceRows, Source(w), ingestor[w].version)
    /\ Goes(w, "memory")
    /\ UNCHANGED <<transcript, codexDocument, sessionRows, memoryRows, contended, incomplete, breaks>>

UpdateMemory(w) ==
    /\ Step(w, "memory")
    /\ IF Updated(memoryRows[Source(w)])
       THEN /\ memoryRows' = [memoryRows EXCEPT ![Source(w)] = All(@, ingestor[w].version)]
            /\ Finish(w)
       ELSE Goes(w, "newMemory") /\ UNCHANGED <<memoryRows, incomplete>>
    /\ UNCHANGED <<transcript, codexDocument, sessionRows, experienceRows, contended, breaks>>

InsertTranscriptMemory(w) ==
    /\ Step(w, "newMemory")
    /\ Insert(memoryRows, Source(w), ingestor[w].version)
    /\ Finish(w)
    /\ UNCHANGED <<transcript, codexDocument, sessionRows, experienceRows, contended, breaks>>

-----------------------------------------------------------------------------
(* process_session.  A query for the memory that fails is taken for "no";  *)
(* every statement after it may fail and the next is tried all the same.   *)

(* extract_sessions.py prints the sessions it finds, those still going on  *)
(* included; process_session gets them some lines later.                   *)
ExtractConversation(w, s) ==
    /\ Step(w, "idle") /\ BeginWork(w, s, "ocLook", transcript[s])
    /\ UNCHANGED <<transcript, rowsOfAll, incomplete, breaks>>

(* Mutant: no look for the memory. *)
NotLooked(s) == FALSE

(* session_already_ingested *)
AlreadyIngested(s) == memoryRows[s] # <<>>

(* A session known is skipped, whatever it says by now; so is one without  *)
(* timestamps, known or not, which leaves no trace.                        *)
LookForConversation(w, failed) ==
    /\ Step(w, "ocLook") /\ (failed => breaks < MaxBreaks)
    /\ breaks' = IF failed THEN breaks + 1 ELSE breaks
    /\ incomplete' = IF failed THEN incomplete \cup {Source(w)} ELSE incomplete
    /\ IF AlreadyIngested(Source(w)) /\ ~failed
       THEN ingestor' = [ingestor EXCEPT ![w] = Resting]
       ELSE Goes(w, "ocSession")
    /\ UNCHANGED <<transcript, rowsOfAll, contended>>

(* The statements in their order: session, experience, each of the user's  *)
(* prompts, the summary (which is a memory as they are).                   *)
After(run) ==
    CASE run.at = "ocSession"    -> [run EXCEPT !.at = "ocExperience"]
      [] run.at = "ocExperience" -> [run EXCEPT !.at = "ocPrompt"]
      [] run.at = "ocPrompt"     -> IF run.prompts + 1 < run.version
                                    THEN [run EXCEPT !.prompts = @ + 1]
                                    ELSE [run EXCEPT !.at = "ocSummary"]
      [] run.at = "ocSummary"    -> Resting

Conversing(w) == ingestor[w].at \in {"ocSession", "ocExperience", "ocPrompt", "ocSummary"}

Succeed(w) ==
    /\ Conversing(w)
    /\ sessionRows' = IF Step(w, "ocSession") THEN sessionRows \cup {Source(w)} ELSE sessionRows
    /\ IF Step(w, "ocExperience") THEN Insert(experienceRows, Source(w), ingestor[w].version)
       ELSE UNCHANGED experienceRows
    /\ IF Step(w, "ocPrompt") \/ Step(w, "ocSummary")
       THEN Insert(memoryRows, Source(w), ingestor[w].version)
       ELSE UNCHANGED memoryRows
    /\ ingestor' = [ingestor EXCEPT ![w] = After(@)]
    /\ UNCHANGED <<transcript, codexDocument, contended, incomplete, breaks>>

IgnoreError(w) ==
    /\ Conversing(w) /\ breaks < MaxBreaks
    /\ breaks' = breaks + 1
    /\ incomplete' = incomplete \cup {Source(w)}
    /\ ingestor' = [ingestor EXCEPT ![w] = After(@)]
    /\ UNCHANGED <<transcript, rowsOfAll, contended>>

-----------------------------------------------------------------------------
(* Until here a run has left nothing that keeps a later one from all of it.*)
NoRowYet ==
    {"compare", "look", "insert", "update", "ocLook", "ocSession", "ocExperience"}

(* The process dies, or an error of a Codex statement ends the run. *)
Break(w) ==
    /\ ~Step(w, "idle") /\ breaks < MaxBreaks
    /\ breaks' = breaks + 1
    /\ incomplete' = IF ingestor[w].at \in NoRowYet THEN incomplete
                     ELSE incomplete \cup {Source(w)}
    /\ ingestor' = [ingestor EXCEPT ![w] = Resting]
    /\ UNCHANGED <<transcript, rowsOfAll, contended>>

TranscriptsNext ==
    \/ \E s \in Sources : Grow(s)
    \/ \E w \in Ingestors :
         \/ \E f \in Archives : ScanArchive(w, f)
         \/ CompareArchive(w) \/ LookForDocument(w) \/ WriteDocument(w) \/ UpsertSession(w)
         \/ UpdateExperience(w) \/ InsertExperience(w)
         \/ UpdateMemory(w) \/ InsertTranscriptMemory(w)
         \/ \E s \in Conversations : ExtractConversation(w, s)
         \/ \E failed \in BOOLEAN : LookForConversation(w, failed)
         \/ Succeed(w) \/ IgnoreError(w) \/ Break(w)

TranscriptsSpec == TranscriptsInit /\ [][TranscriptsNext]_transcriptsVars

-----------------------------------------------------------------------------
AtWork(s) == \E w \in Ingestors : Source(w) = s

(* An archive counts as ingested when its document has its checksum.  Then *)
(* its session, experience and memory are there and of that version, unless*)
(* a run stopped between them (nothing looks at it again until the archive *)
(* grows) or two runs overlapped; a run of its own on a grown archive     *)
(* makes it whole again (ingest_codex_sessions).                           *)
ArchiveIsWhole ==
    \A f \in Archives : codexDocument[f] # 0 =>
      \/ AtWork(f) \/ f \in incomplete \cup contended
      \/ /\ f \in sessionRows
         /\ experienceRows[f] = <<codexDocument[f]>> /\ memoryRows[f] = <<codexDocument[f]>>

(* However often an archive grows and runs die, it has one experience and  *)
(* one memory ("insert only the first time"); two rows are the work of two *)
(* runs at once.                                                           *)
NoSecondRow ==
    \A f \in Archives : Len(experienceRows[f]) > 1 \/ Len(memoryRows[f]) > 1 => f \in contended

(* An OpenCode session has one experience, its prompts and one summary, all*)
(* of it as it was at one time: never parts of two, though it grows between*)
(* the runs and during them.  (That time is when a run first met it: what  *)
(* it says later never gets in.)  Rows missing or doubled are those of a   *)
(* statement that failed, a process that died, or two processes at once    *)
(* (process_session).                                                      *)
ConversationOnce ==
    \A s \in Conversations \ (incomplete \cup contended) :
      ~AtWork(s) /\ memoryRows[s] # <<>> =>
        /\ s \in sessionRows
        /\ \E v \in 1 .. transcript[s] :
             experienceRows[s] = <<v>> /\ memoryRows[s] = Rows(v + 1, v)
=============================================================================
