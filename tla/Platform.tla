------------------------------ MODULE Platform ------------------------------
(***************************************************************************)
(* The services around the database, side by side: memories, procedures    *)
(* and their experiences, documents and their vectors, transcripts,        *)
(* migrations, searches, embeddings and the MCP server (AppState).         *)
(* Each works on its own tables, rows and processes, so a step of one      *)
(* leaves the others alone.                                                *)
(***************************************************************************)
EXTENDS MemoriesProps, Procedures, Documents, Transcripts, Migrations, Search, Embeddings, McpServer

platformVars == <<memoriesVars, proceduresVars, documentsVars, transcriptsVars, migrationsVars,
                  searchVars, embeddingsVars, mcpServerVars>>

PlatformInit ==
    /\ MemoriesInit /\ ProceduresInit /\ DocumentsInit /\ TranscriptsInit /\ MigrationsInit
    /\ SearchInit /\ EmbeddingsInit /\ McpServerInit

MemoriesStep ==
    /\ MemoriesNext
    /\ UNCHANGED <<proceduresVars, documentsVars, transcriptsVars, migrationsVars, searchVars,
                   embeddingsVars, mcpServerVars>>

ProceduresStep ==
    /\ ProceduresNext
    /\ UNCHANGED <<memoriesVars, documentsVars, transcriptsVars, migrationsVars, searchVars,
                   embeddingsVars, mcpServerVars>>

DocumentsStep ==
    /\ DocumentsNext
    /\ UNCHANGED <<memoriesVars, proceduresVars, transcriptsVars, migrationsVars, searchVars,
                   embeddingsVars, mcpServerVars>>

TranscriptsStep ==
    /\ TranscriptsNext
    /\ UNCHANGED <<memoriesVars, proceduresVars, documentsVars, migrationsVars, searchVars,
                   embeddingsVars, mcpServerVars>>

MigrationsStep ==
    /\ MigrationsNext
    /\ UNCHANGED <<memoriesVars, proceduresVars, documentsVars, transcriptsVars, searchVars,
                   embeddingsVars, mcpServerVars>>

SearchStep ==
    /\ SearchNext
    /\ UNCHANGED <<memoriesVars, proceduresVars, documentsVars, transcriptsVars, migrationsVars,
                   embeddingsVars, mcpServerVars>>

EmbeddingsStep ==
    /\ EmbeddingsNext
    /\ UNCHANGED <<memoriesVars, proceduresVars, documentsVars, transcriptsVars, migrationsVars,
                   searchVars, mcpServerVars>>

McpServerStep ==
    /\ McpServerNext
    /\ UNCHANGED <<memoriesVars, proceduresVars, documentsVars, transcriptsVars, migrationsVars,
                   searchVars, embeddingsVars>>

PlatformNext ==
    \/ MemoriesStep \/ ProceduresStep \/ DocumentsStep \/ TranscriptsStep \/ MigrationsStep
    \/ SearchStep \/ EmbeddingsStep \/ McpServerStep

PlatformSpec == PlatformInit /\ [][PlatformNext]_platformVars

(* Every variable keeps its type; with it, the keys of the tables: no two  *)
(* documents have one path, no two results one id, no two cached vectors   *)
(* one key.                                                                *)
PlatformTypeOK ==
    /\ MemoriesTypeOK /\ ProceduresTypeOK /\ DocumentsTypeOK /\ TranscriptsTypeOK /\ MigrationsTypeOK
    /\ SearchTypeOK /\ EmbeddingsTypeOK /\ McpServerTypeOK
=============================================================================
