----------------------------- MODULE MCPlatform -----------------------------
(* One service at a time moves, whichever focus names: they share no state. *)
EXTENDS Platform, MCMemories, TLC

CONSTANTS p1, p2, note1, note2, log, old

VARIABLE focus

PiecesOf    == [short |-> 1, long |-> 2, blank |-> 0]
Goals       == [e \in Experiences |-> IF e = 1 THEN "g" ELSE IF e = 2 THEN "h" ELSE "gh"]
Alike       == {<<1, 2>>, <<1, 3>>, <<2, 3>>}
Containment == {<<n, n>> : n \in Names} \cup {<<"gh", "g">>, <<"gh", "h">>}

Nothing     == [x \in Files |-> Missing]

(* A database where something is stored only for the service that moves,   *)
(* no files of both kinds, and a row of an earlier version only with the   *)
(* note that it is of.                                                     *)
MCInit ==
    /\ focus \in {"memories", "procedures", "documents", "transcripts", "migrations",
                  "search", "embeddings", "mcp"}
    /\ PlatformInit
    /\ focus = "documents" => disk[log] = Missing \/ \A x \in VaultPaths : disk[x] = Missing
    /\ \A r \in RowIds \ {1} : documents[r] = Blank
    /\ \E x \in VaultPaths : documents[1] # Blank => disk = [Nothing EXCEPT ![x] = documents[1].text]
    /\ focus # "documents" => documents[1] = Blank /\ disk = Nothing
    /\ focus # "migrations" => recorded = {}

(* What does not interact is not combined: ratings with promotions,        *)
(* executions with promotions; vault notes with the other files, a changed *)
(* file with a failure, nor, unless one sync follows another, with a second*)
(* note, a second change or two programs on another backend;               *)
(* archives with conversations; standard input with posts;                 *)
(* and of the configurations that embed alike, one.                        *)
ProceduresBound ==
    /\ (ratings > 0 \/ \E e \in Experiences : experience[e].confidence # 0) =>
         procedures = {} /\ \A c \in Users : call[c] = NoCall
    /\ (uses > 0 \/ \E c \in Users : At(c, "record")) =>
         \A e \in Experiences : experience[e].result = "none"
SyncsOnly ==
    /\ \E w \in Workers : worker[w] = Idle
    /\ \A w \in Workers : worker[w].kind \in {"none", "sync"}
    /\ \A r \in RowIds : documents[r].column = Missing /\ documents[r].vectors = NoVectors
Embeds ==
    \/ \E w \in Workers : worker[w].kind \in {"reindex", "repair"}
    \/ \E r \in RowIds : documents[r].column # Missing \/ documents[r].vectors # NoVectors
Switched ==
    \/ \E w \in Workers : worker[w].backend = "local"
    \/ \E r \in RowIds : documents[r].vectors["local"] # Missing
OneNote == \E x \in VaultPaths : disk[x] = Missing
DocumentsBound ==
    /\ (disk[log] # Missing \/ RowsAt(log) # {}) =>
         \A x \in VaultPaths : disk[x] = Missing /\ RowsAt(x) = {}
    /\ edits > 0 => workerErrors = 0 /\ (SyncsOnly \/ (edits = 1 /\ OneNote))
    /\ Embeds /\ ~OneNote => ~Switched /\ \E w \in Workers : worker[w] = Idle
    /\ Switched => \E w \in Workers : worker[w] = Idle
TranscriptsBound ==
    (\E s \in Conversations : AtWork(s) \/ s \in sessionRows \cup incomplete \/ transcript[s] > 1) =>
      \A f \in Archives : /\ ~AtWork(f) /\ codexDocument[f] = 0 /\ transcript[f] = 1
                          /\ f \notin incomplete \cup contended
EmbeddingsBound ==
    calls > 0 => ~config.mixed /\ (backend = "nvidia" => config.loopback)
McpServerBound ==
    posts # {} => inbox = <<>> /\ due = <<>> /\ Cardinality(posts) <= 2

Bound ==
    CASE focus = "memories"    -> MemoriesBound
      [] focus = "procedures"  -> ProceduresBound
      [] focus = "documents"   -> DocumentsBound
      [] focus = "transcripts" -> TranscriptsBound
      [] focus = "embeddings"  -> EmbeddingsBound
      [] focus = "mcp"         -> McpServerBound
      [] OTHER                 -> TRUE

MCNext ==
    /\ \/ focus = "memories" /\ MemoriesStep
       \/ focus = "procedures" /\ ProceduresStep
       \/ focus = "documents" /\ DocumentsStep
       \/ focus = "transcripts" /\ TranscriptsStep
       \/ focus = "migrations" /\ MigrationsStep
       \/ focus = "search" /\ SearchStep
       \/ focus = "embeddings" /\ EmbeddingsStep
       \/ focus = "mcp" /\ McpServerStep
    /\ UNCHANGED focus
    /\ Bound'

MCSpec == MCInit /\ [][MCNext]_<<platformVars, focus>>

(* The calls and programs of every service have the same two names.        *)
Symmetry == Permutations(Users) \cup Permutations(VaultPaths)
=============================================================================
