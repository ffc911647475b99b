----------------------------- MODULE Embeddings -----------------------------
(***************************************************************************)
(* The embedding service (services/embedding.rs), from the configuration   *)
(* that chooses its backend (Config::from_env) and the start of a program  *)
(* (main.rs, bin/mcp-server.rs) to concurrent calls that share the cache.  *)
(* The provider is external: it answers, refuses, fails or is silent.      *)
(***************************************************************************)
EXTENDS Naturals, Sequences

CONSTANTS
    Clients,        \* concurrent calls
    Pieces,         \* number of requests a text is split into
    CacheSize, MaxAttempts,
    MaxCalls        \* bound on the calls

ASSUME EmbeddingsAssumption ==
    /\ \A t \in DOMAIN Pieces : Pieces[t] \in Nat
    /\ CacheSize \in Nat \ {0} /\ MaxAttempts \in Nat \ {0} /\ MaxCalls \in Nat

VARIABLES
    config,         \* what the environment says
    backend,        \* of the running program
    cache,          \* most recently used first
    task,           \* the local variables of each call
    calls

embeddingsVars == <<config, backend, cache, task, calls>>

EmbeddableTexts == DOMAIN Pieces
Purposes        == {"query", "passage"}

(* local, nvidia, llama-cpp: EMBEDDING_MODEL.  cloudKey: a key of a cloud  *)
(* provider is set.  loopback: of LLAMA_CPP_URL.  open: API_BIND is not    *)
(* loopback and there is no API key.  width: of the provider's vectors,    *)
(* against EMBEDDING_DIM.  mixed: active vectors of several dimensions.    *)
Configs == [model : {"local", "nvidia", "llama-cpp"}, localOnly : BOOLEAN, cloudKey : BOOLEAN,
            loopback : BOOLEAN, open : BOOLEAN, width : {"short", "exact", "long"},
            mixed : BOOLEAN]
Unset   == [model |-> "local", localOnly |-> FALSE, cloudKey |-> FALSE, loopback |-> TRUE,
            open |-> FALSE, width |-> "exact", mixed |-> FALSE]

(* A vector is known by what it was made of. *)
Vectors  == [text : EmbeddableTexts, purpose : Purposes \cup {"any"}, pieces : Nat,
             from : {"cloud", "loopback"}]
NoVector == [text |-> "", purpose |-> "any", pieces |-> 0, from |-> "loopback"]
NoTask   == [at |-> "idle", text |-> "", purpose |-> "any", pieces |-> 0, attempt |-> 0,
             vector |-> NoVector]

EmbeddingsTypeOK ==
    /\ config \in Configs
    /\ backend \in {"none", "refused", "keyword-only", "nvidia", "llama-cpp"}
    /\ Len(cache) <= CacheSize
    /\ \A i, j \in DOMAIN cache : cache[i].key = cache[j].key => i = j
    /\ \A c \in Clients : /\ task[c].at \in {"idle", "request", "put", "done", "failed"}
                          /\ task[c].attempt \in 0 .. MaxAttempts
    /\ calls \in 0 .. MaxCalls

EmbeddingsInit ==
    /\ config = Unset /\ backend = "none" /\ cache = <<>>
    /\ task = [c \in Clients |-> NoTask] /\ calls = 0

-----------------------------------------------------------------------------
(* Config::from_env: an open bind, or anything that could leave the        *)
(* machine in local-only mode, is refused.                                 *)
Accepted(c) ==
    /\ ~c.open
    /\ c.localOnly => c.model = "llama-cpp" /\ ~c.cloudKey /\ c.loopback

(* parse_embedding_response, parse_llamacpp_response: one wants the width, *)
(* the other truncates what is longer.                                     *)
Fits(model, width) == width = "exact" \/ (model = "llama-cpp" /\ width = "long")

(* EmbeddingServiceFactory::new.  main.rs passes no empty key on, and does *)
(* not probe.                                                              *)
StartApi ==
    /\ backend = "none"
    /\ \E c \in Configs :
         /\ config' = c
         /\ backend' = IF ~Accepted(c) THEN "refused"
                       ELSE IF c.model = "local" \/ (c.model = "nvidia" /\ ~c.cloudKey)
                       THEN "keyword-only" ELSE c.model
    /\ UNCHANGED <<cache, task, calls>>

(* bin/mcp-server.rs embeds a probe, which may fail for other reasons.     *)
StartMcp ==
    /\ backend = "none"
    /\ \E c \in Configs, answered \in BOOLEAN :
         /\ config' = c
         /\ backend' = IF ~Accepted(c) THEN "refused"
                       ELSE IF /\ c.model # "local" /\ answered /\ ~c.mixed
                               /\ Fits(c.model, c.width) /\ (c.model = "nvidia" => c.cloudKey)
                       THEN c.model ELSE "keyword-only"
    /\ UNCHANGED <<cache, task, calls>>

-----------------------------------------------------------------------------
(* Only the vectors of nvidia depend on what they are for. *)
PurposeOf(purpose) == IF backend = "nvidia" THEN purpose ELSE "any"

(* Mutant: the text alone is the key, whatever the vector is for. *)
TextKey(text, purpose) == <<text, "any">>

CacheKey(text, purpose) == <<text, PurposeOf(purpose)>>

CacheHit(key) == {i \in DOMAIN cache : cache[i].key = key}

(* LruCache::get, LruCache::put: the entry comes first; its old place is   *)
(* freed or, when it had none and all are taken, the last one.             *)
Refreshed(entry) ==
    LET hit   == CacheHit(entry.key)
        place == IF hit # {} THEN CHOOSE i \in hit : TRUE
                 ELSE IF Len(cache) < CacheSize THEN Len(cache) + 1 ELSE CacheSize
    IN  <<entry>> \o SubSeq(cache, 1, place - 1) \o SubSeq(cache, place + 1, Len(cache))

(* embed, embed_passage: blank text is an error.                           *)
BeginEmbed(c) ==
    /\ backend \in {"nvidia", "llama-cpp"}
    /\ task[c].at \in {"idle", "done", "failed"} /\ calls < MaxCalls
    /\ calls' = calls + 1
    /\ \E text \in EmbeddableTexts, purpose \in Purposes :
         LET hit  == CacheHit(CacheKey(text, purpose))
             this == [NoTask EXCEPT !.text = text, !.purpose = purpose]
         IN  \/ /\ Pieces[text] = 0
                /\ task' = [task EXCEPT ![c] = [this EXCEPT !.at = "failed"]]
                /\ UNCHANGED cache
             \/ /\ Pieces[text] > 0 /\ hit = {}
                /\ task' = [task EXCEPT ![c] = [this EXCEPT !.at = "request"]]
                /\ UNCHANGED cache
             \/ \E i \in hit :
                  /\ task' = [task EXCEPT ![c] = [this EXCEPT !.at = "done",
                                                              !.vector = cache[i].vector]]
                  /\ cache' = Refreshed(cache[i])
    /\ UNCHANGED <<config, backend>>

Endpoint == IF backend = "llama-cpp" /\ config.loopback THEN "loopback" ELSE "cloud"

(* The next piece is answered; the vectors of all pieces are averaged.     *)
PieceEmbedded(c) ==
    LET n == task[c].pieces + 1
    IN  /\ task[c].at = "request" /\ Fits(backend, config.width)
        /\ task' = [task EXCEPT
                      ![c].pieces = n, ![c].attempt = 0,
                      ![c].at = IF n = Pieces[task[c].text] THEN "put" ELSE "request",
                      ![c].vector = [text |-> task[c].text, purpose |-> PurposeOf(task[c].purpose),
                                     pieces |-> n, from |-> Endpoint]]
        /\ UNCHANGED <<config, backend, cache, calls>>

(* A 5xx status or no answer is retried.                                   *)
PieceRetried(c) ==
    /\ task[c].at = "request"
    /\ task' = [task EXCEPT ![c].attempt = @ + 1,
                            ![c].at = IF task[c].attempt + 1 = MaxAttempts THEN "failed" ELSE @]
    /\ UNCHANGED <<config, backend, cache, calls>>

(* Any other status, or an answer that does not fit, is an error at once.  *)
PieceRefused(c) ==
    /\ task[c].at = "request"
    /\ task' = [task EXCEPT ![c].at = "failed"]
    /\ UNCHANGED <<config, backend, cache, calls>>

PutInCache(c) ==
    /\ task[c].at = "put"
    /\ cache' = Refreshed([key |-> CacheKey(task[c].text, task[c].purpose),
                           vector |-> task[c].vector])
    /\ task' = [task EXCEPT ![c].at = "done"]
    /\ UNCHANGED <<config, backend, calls>>

EmbeddingsNext ==
    \/ StartApi \/ StartMcp
    \/ \E c \in Clients :
         BeginEmbed(c) \/ PieceEmbedded(c) \/ PieceRetried(c) \/ PieceRefused(c) \/ PutInCache(c)

EmbeddingsSpec == EmbeddingsInit /\ [][EmbeddingsNext]_embeddingsVars

-----------------------------------------------------------------------------
(* A call returns the vector of its own text, whole and for its own        *)
(* purpose, whether it asked the provider or found what another call had   *)
(* put in the cache after failures and evictions; and in local-only mode   *)
(* it was made on this machine (embed_as, Config::from_env).               *)
VectorIsWhatWasAsked ==
    \A c \in Clients : task[c].at = "done" =>
      /\ task[c].vector.text = task[c].text
      /\ task[c].vector.purpose = PurposeOf(task[c].purpose)
      /\ task[c].vector.pieces = Pieces[task[c].text]
      /\ config.localOnly => task[c].vector.from = "loopback"
=============================================================================
