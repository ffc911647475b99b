------------------------------ MODULE Memories ------------------------------
(***************************************************************************)
(* The life of a memory: stored (MCP memory_store, REST POST /memories),   *)
(* restated, contradicted, resolved by hand or by date, forgotten, expired *)
(* (mcp/tools.rs, services/contradiction.rs, db/postgres.rs).              *)
(*                                                                         *)
(* Callers run concurrently, each one statement of PostgreSQL at a time;   *)
(* an operation may end with an error at any statement, and what it wrote  *)
(* stays.  A memory's text is a model value: Near relates texts that       *)
(* embed within 0.95 of each other, Opposed those within 0.85 that match   *)
(* a negation pair.  LIMITs other than near-duplicate search's 1 are       *)
(* larger than the instances.                                              *)
(***************************************************************************)
EXTENDS Naturals, FiniteSets

CONSTANTS
    Ids,        \* the UUIDs new memories may get, in their order
    Callers,    \* concurrent MCP and REST calls
    Texts, Near, Opposed,
    ValidAts,   \* valid_at a caller may give, beside none at all
    Epoch,      \* created_at of the rows is later than this
    Dates,      \* expiration_date a caller may give, beside none at all
    LastDay,    \* bound on the days that pass, the first being day 2
    MaxFaults   \* bound on operations that end half-way

ASSUME MemoriesAssumption ==
    /\ Ids \subseteq Nat \ {0} /\ IsFiniteSet(Ids)
    /\ Texts # {} /\ Opposed \subseteq Texts \X Texts
    /\ Near \subseteq Texts \X Texts /\ \A t \in Texts : <<t, t>> \in Near
    /\ ValidAts \subseteq Nat \ {0} /\ Epoch \in Nat
    /\ Dates \subseteq Nat \ {0} /\ LastDay \in Nat \ {0, 1} /\ MaxFaults \in Nat

VARIABLES
    mem,            \* table memories; absent rows have created = 0
    contradiction,  \* table contradictions: a state for each pair of ids
    today,          \* CURRENT_DATE
    pc, job,        \* where each caller is, and its local variables
    gone,           \* memories some reply called superseded or forgotten
    kept,           \* pairs a finished resolve named a winner for, with that winner
    named,          \* has a caller named the memory to keep?
    overlapped,     \* have two operations overlapped?
    faults

tables == <<mem, contradiction, today>>
local  == <<pc, job>>
ghosts == <<gone, kept, named, overlapped>>
memoriesVars   == <<mem, contradiction, today, pc, job, gone, kept, named, overlapped, faults>>

(* Three fields of a row are for the properties alone: the date and the    *)
(* 'forgotten' tag its caller gave it, and whether it was stored without   *)
(* an undisturbed near-duplicate search before it.                         *)
None   == 0     \* NULL, for an id, a date or an instant
Pairs  == {p \in SUBSET Ids : Cardinality(p) = 2}
NoRow  == [text |-> CHOOSE t \in Texts : TRUE, valid |-> None, created |-> None,
           by |-> None, invalid |-> FALSE, cached |-> FALSE, expires |-> None,
           forgotten |-> FALSE, stash |-> None, given |-> None, tagged |-> FALSE,
           unchecked |-> FALSE]
NoJob  == [op |-> "none", text |-> NoRow.text, id |-> None, other |-> None,
           lapsed |-> FALSE, todo |-> {}, embeds |-> FALSE, unchecked |-> FALSE]
Ops    == {"none", "memory_store", "POST", "detect", "note", "keep", "auto"}
PC     == {"idle", "insert", "embed", "restated", "detect", "pairs", "read_b",
           "supersede", "mark"}
Stored == {m \in Ids : mem[m].created # None}

MemoriesTypeOK ==
    /\ mem \in [Ids -> [text : Texts, valid : Nat, created : Nat, by : Ids \cup {None},
                        invalid : BOOLEAN, cached : BOOLEAN, expires : Nat,
                        forgotten : BOOLEAN, stash : Nat, given : Nat, tagged : BOOLEAN,
                        unchecked : BOOLEAN]]
    /\ contradiction \in [Pairs -> {"none", "open", "resolved"}]
    /\ today \in 2 .. LastDay
    /\ pc \in [Callers -> PC]
    /\ job \in [Callers -> [op : Ops, text : Texts, id : Ids \cup {None},
                            other : Ids \cup {None}, lapsed : BOOLEAN, todo : SUBSET Ids,
                            embeds : BOOLEAN, unchecked : BOOLEAN]]
    /\ gone \in SUBSET Ids
    /\ kept \in SUBSET (Pairs \X Ids)
    /\ named \in BOOLEAN /\ overlapped \in BOOLEAN
    /\ faults \in 0 .. MaxFaults

MemoriesInit ==
    /\ mem = [m \in Ids |-> NoRow]
    /\ contradiction = [p \in Pairs |-> "none"]
    /\ today = 2
    /\ pc = [c \in Callers |-> "idle"] /\ job = [c \in Callers |-> NoJob]
    /\ gone = {} /\ kept = {} /\ named = FALSE /\ overlapped = FALSE
    /\ faults = 0

-----------------------------------------------------------------------------
(* What each way to read serves.  The filters are written out in every     *)
(* query of the code; so they are here.                                    *)

Unexpired(m) == mem[m].expires = None \/ mem[m].expires >= today

(* vector_search("memories"): joined with the cache of the active model.   *)
VectorSearch == {m \in Stored : mem[m].cached /\ mem[m].by = None /\ Unexpired(m)}

(* bm25_search("memories"), by tsvector or, when that finds none, trigrams. *)
KeywordSearch == {m \in Stored : mem[m].by = None /\ Unexpired(m)}

(* memory_search, memory_context and memory_initialize merge the two.      *)
SearchServes == VectorSearch \cup KeywordSearch

(* core_memory, of the memories tagged critical. *)
CoreServes == {m \in Stored : Unexpired(m) /\ mem[m].by = None}

(* The previews of memory_graph. *)
PreviewServes == {m \in Stored : Unexpired(m) /\ mem[m].by = None}

(* memory://recent, memory://tag and memory://tags know no supersession.   *)
ResourceServes == {m \in Stored : Unexpired(m)}

-----------------------------------------------------------------------------
Goto(c, to, j) ==
    /\ pc' = [pc EXCEPT ![c] = to]
    /\ job' = [job EXCEPT ![c] = IF to = "idle" THEN NoJob ELSE j]

Busy(c) == \E d \in Callers \ {c} : pc[d] # "idle"

Begin(c, to, j) ==
    /\ pc[c] = "idle"
    /\ Goto(c, to, j)
    /\ overlapped' = (overlapped \/ (to # "idle" /\ Busy(c)))

(* A statement fails, or the process dies: the rest never happens.         *)
Fail(c) ==
    /\ pc[c] # "idle" /\ faults < MaxFaults
    /\ faults' = faults + 1
    /\ Goto(c, "idle", NoJob)
    /\ UNCHANGED <<tables, ghosts>>

NextDay ==
    /\ today < LastDay
    /\ today' = today + 1
    /\ UNCHANGED <<mem, contradiction, local, ghosts, faults>>

(* Mutant: the keeper is made standing again at the loser's expense. *)
SupersedeSwapping(old, new) ==
    mem' = [mem EXCEPT ![old].by = new, ![old].invalid = TRUE, ![new].by = None]

(* UPDATE memories SET superseded_by = new, superseded_at = now(),         *)
(* invalid_at = COALESCE(invalid_at, now()).                               *)
Supersede(old, new) ==
    mem' = [mem EXCEPT ![old].by = new, ![old].invalid = TRUE]

-----------------------------------------------------------------------------
(* Storing.                                                                *)

(* Mutant: any hit, LIMIT 1 without the ORDER BY. *)
NearDuplicateUnordered(t) ==
    LET hits == {m \in VectorSearch : <<t, mem[m].text>> \in Near}
    IN  IF hits # {} THEN hits ELSE {None}

(* The near-duplicate search (threshold 0.95, ORDER BY score DESC, limit   *)
(* 1): the same text scores highest.                                       *)
NearDuplicate(t) ==
    LET hits == {m \in VectorSearch : <<t, mem[m].text>> \in Near}
        same == {m \in hits : mem[m].text = t}
    IN  IF same # {} THEN same ELSE IF hits # {} THEN hits ELSE {None}

(* memory_store, up to the embedding of its text and that search; a        *)
(* process without an embedding service does neither.                      *)
BeginMemoryStore(c) ==
    /\ \E t \in Texts, embeds \in BOOLEAN :
         \E old \in IF embeds THEN NearDuplicate(t) ELSE {None} :
           Begin(c, "insert", [NoJob EXCEPT !.op = "memory_store", !.text = t, !.other = old,
                                            !.embeds = embeds,
                                            !.unchecked = ~embeds \/ Busy(c)])
    /\ UNCHANGED <<tables, gone, kept, named, faults>>

(* POST /memories looks for no duplicate. *)
BeginPost(c) ==
    /\ \E t \in Texts, embeds \in BOOLEAN :
         Begin(c, "insert", [NoJob EXCEPT !.op = "POST", !.text = t, !.embeds = embeds,
                                          !.unchecked = TRUE])
    /\ UNCHANGED <<tables, gone, kept, named, faults>>

(* PostgresDb::store_memory: the row commits, then its vector is cached,   *)
(* if there is one; without, neither caller has more to do.                *)
(* The tags are the caller's, 'forgotten' among them or not.               *)
InsertMemory(c) ==
    /\ pc[c] = "insert"
    /\ \E m \in Ids \ Stored, v \in ValidAts \cup {None},
          d \in Dates \cup {None}, tagged \in BOOLEAN :
         /\ job[c].op = "POST" => v = None /\ d = None
         /\ mem' = [mem EXCEPT ![m] =
              [NoRow EXCEPT !.text = job[c].text, !.valid = v, !.expires = d, !.given = d,
                            !.created = Epoch + 1 + Cardinality(Stored),
                            !.forgotten = tagged, !.tagged = tagged,
                            !.unchecked = job[c].unchecked]]
         /\ Goto(c, IF job[c].embeds THEN "embed" ELSE "idle", [job[c] EXCEPT !.id = m])
    /\ UNCHANGED <<contradiction, today, ghosts, faults>>

CacheVector(c) ==
    /\ pc[c] = "embed"
    /\ mem' = [mem EXCEPT ![job[c].id].cached = TRUE]
    /\ Goto(c, IF job[c].op = "POST" THEN "detect"
               ELSE IF job[c].other # None THEN "restated" ELSE "idle", job[c])
    /\ UNCHANGED <<contradiction, today, ghosts, faults>>

(* memory_store supersedes the memory its text restates, and reports it.   *)
SupersedeRestated(c) ==
    /\ pc[c] = "restated"
    /\ Supersede(job[c].other, job[c].id)
    /\ gone' = gone \cup {job[c].other}
    /\ Goto(c, "idle", NoJob)
    /\ UNCHANGED <<contradiction, today, kept, named, overlapped, faults>>

-----------------------------------------------------------------------------
(* ContradictionDetector.                                                  *)

(* find_candidates: what vector search serves, itself excepted, whose text *)
(* pairs a word with its opposite; a text may hold both words of a pair.   *)
Candidates(m) ==
    {o \in VectorSearch \ {m} : <<mem[m].text, mem[o].text>> \in Opposed}

(* detect, after a POST or for contradiction_scan: a memory without a      *)
(* cached vector is an error, which POST ignores.                          *)
Detect(c) ==
    \E m \in IF pc[c] = "detect" THEN {job[c].id} ELSE Stored :
      LET found == IF mem[m].cached THEN Candidates(m) ELSE {}
          next  == IF found = {} THEN "idle" ELSE "pairs"
          j     == [NoJob EXCEPT !.op = "detect", !.id = m, !.todo = found]
      IN  /\ \/ pc[c] = "detect" /\ Goto(c, next, j) /\ UNCHANGED overlapped
             \/ Begin(c, next, j)
          /\ UNCHANGED <<tables, gone, kept, named, faults>>

(* store_contradiction: one row for a pair, found from either side; a row  *)
(* that exists is returned as it is.                                       *)
UpsertPair(p) ==
    contradiction' = [contradiction EXCEPT ![p] = IF @ = "none" THEN "open" ELSE @]

StorePair(c) ==
    /\ pc[c] = "pairs"
    /\ \E o \in job[c].todo :
         LET rest == job[c].todo \ {o}
         IN  /\ UpsertPair({job[c].id, o})
             /\ Goto(c, IF rest = {} THEN "idle" ELSE "pairs", [job[c] EXCEPT !.todo = rest])
    /\ UNCHANGED <<mem, today, ghosts, faults>>

(* resolve, with the memory to keep named or none.  It does not ask        *)
(* whether the contradiction is resolved already.                          *)
BeginResolve(c) ==
    \E p \in Pairs, keep \in Ids \cup {None} :
      /\ contradiction[p] # "none" /\ keep \in p \cup {None}
      /\ \E a \in p, b \in p :
           /\ a # b /\ keep \in {a, None}
           /\ Begin(c, IF keep = None THEN "mark" ELSE "supersede",
                    [NoJob EXCEPT !.op = IF keep = None THEN "note" ELSE "keep",
                                  !.id = a, !.other = b])
      /\ named' = (named \/ keep # None)
      /\ UNCHANGED <<tables, gone, kept, faults>>

(* auto_resolve reads the validity of a, the smaller id, then of b.        *)
BeginAuto(c) ==
    \E p \in Pairs : \E a \in p, b \in p :
      /\ contradiction[p] # "none" /\ a < b
      /\ Begin(c, "read_b", [NoJob EXCEPT !.op = "auto", !.id = a, !.other = b,
                                          !.lapsed = mem[a].invalid])
      /\ UNCHANGED <<tables, gone, kept, named, faults>>

EffectiveValidAt(m) == IF mem[m].valid = None THEN mem[m].created ELSE mem[m].valid

(* Mutants: by date alone; the lapsed memory wins. *)
PickWinnerByDate(a, b, aLapsed) ==
    IF EffectiveValidAt(a) >= EffectiveValidAt(b) THEN a ELSE b

(* pick_winner: an invalid memory loses; else the later fact wins.         *)
PickWinner(a, b, aLapsed) ==
    IF aLapsed # mem[b].invalid
    THEN IF aLapsed THEN b ELSE a
    ELSE IF EffectiveValidAt(a) >= EffectiveValidAt(b) THEN a ELSE b

ReadB(c) ==
    LET a == job[c].id
        b == job[c].other
        w == PickWinner(a, b, job[c].lapsed)
    IN  /\ pc[c] = "read_b"
        /\ Goto(c, "supersede", [job[c] EXCEPT !.id = w, !.other = IF w = a THEN b ELSE a])
        /\ UNCHANGED <<tables, ghosts, faults>>

(* Mutant: the error of the first UPDATE is dropped (let _ = ...). *)
SupersedeLoserOrNot(c) ==
    /\ pc[c] = "supersede"
    /\ \/ Supersede(job[c].other, job[c].id) /\ UNCHANGED faults
       \/ faults < MaxFaults /\ faults' = faults + 1 /\ UNCHANGED mem
    /\ Goto(c, "mark", job[c])
    /\ UNCHANGED <<contradiction, today, ghosts>>

(* The two UPDATEs of resolve. *)
SupersedeLoser(c) ==
    /\ pc[c] = "supersede"
    /\ Supersede(job[c].other, job[c].id)
    /\ Goto(c, "mark", job[c])
    /\ UNCHANGED <<contradiction, today, ghosts, faults>>

MarkResolved(c) ==
    /\ pc[c] = "mark"
    /\ contradiction' = [contradiction EXCEPT ![{job[c].id, job[c].other}] = "resolved"]
    /\ IF job[c].op # "note"
       THEN /\ gone' = gone \cup {job[c].other}
            /\ kept' = {k \in kept : k[1] # {job[c].id, job[c].other}}
                         \cup {<<{job[c].id, job[c].other}, job[c].id>>}
       ELSE UNCHANGED <<gone, kept>>
    /\ Goto(c, "idle", NoJob)
    /\ UNCHANGED <<mem, today, named, overlapped, faults>>

-----------------------------------------------------------------------------
(* Mutant: without the guard, a repeated forget stashes its own date.      *)
ForgetRowAgain(m) ==
    mem' = [mem EXCEPT ![m].stash = mem[m].expires,
                       ![m].expires = today - 1, ![m].forgotten = TRUE]

(* forget's UPDATE: hides a memory that does not carry the tag yet.        *)
ForgetRow(m) ==
    mem' = IF mem[m].forgotten THEN mem
           ELSE [mem EXCEPT ![m].stash = mem[m].expires,
                            ![m].expires = today - 1, ![m].forgotten = TRUE]

(* The reply is "forgotten", whether the UPDATE found a row to hide or not. *)
Forget(c) ==
    /\ pc[c] = "idle"
    /\ \E m \in Stored : ForgetRow(m) /\ gone' = gone \cup {m}
    /\ UNCHANGED <<contradiction, today, local, kept, named, overlapped, faults>>

-----------------------------------------------------------------------------
Operation(c) ==
    \/ BeginMemoryStore(c) \/ BeginPost(c)
    \/ InsertMemory(c) \/ CacheVector(c) \/ SupersedeRestated(c)
    \/ Detect(c) \/ StorePair(c)
    \/ BeginResolve(c) \/ BeginAuto(c) \/ ReadB(c)
    \/ SupersedeLoser(c) \/ MarkResolved(c)
    \/ Forget(c)
    \/ Fail(c)

MemoriesNext == (\E c \in Callers : Operation(c)) \/ NextDay

MemoriesSpec == MemoriesInit /\ [][MemoriesNext]_memoriesVars
=============================================================================
