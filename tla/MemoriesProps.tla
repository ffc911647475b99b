--------------------------- MODULE MemoriesProps ---------------------------
(***************************************************************************)
(* What the life of a memory guarantees.                                   *)
(***************************************************************************)
EXTENDS Memories

Standing(m) == m \in Stored /\ mem[m].by = None

(* Opposed memories are resolved by date so that one of them goes on being *)
(* believed: as long as no caller named a memory to keep and no two        *)
(* operations overlapped, something that was stored still stands, however  *)
(* restatements and automatic resolutions follow each other, failures      *)
(* half-way included (auto_resolve, pick_winner, memory_store).            *)
SomethingStands ==
    Stored # {} /\ ~named /\ ~overlapped => \E m \in Stored : Standing(m)

(* memory_store does not pile up copies of a fact: of the memories that    *)
(* say the same, search serves at most one, and one more for each that was *)
(* stored without looking (a POST, a process without embeddings), or with  *)
(* another call at work since before it looked, and for each failure       *)
(* half-way; whatever calls overlap, each of them costs one copy at most   *)
(* (the near-duplicate search, of limit 1, hits a memory that still        *)
(* stands, or one that another call superseded since).                     *)
NoCopiesPileUp ==
    (\A c \in Callers : pc[c] = "idle") =>
      \A t \in Texts :
        LET copies == {m \in Stored : mem[m].text = t}
        IN  Cardinality(copies \cap SearchServes)
              <= 1 + Cardinality({m \in copies : mem[m].unchecked}) + faults

(* What a reply called superseded or forgotten is never served again, by   *)
(* search, context, core memory or the previews of the graph, whatever     *)
(* other callers do meanwhile or later; but for a memory stored with the   *)
(* tag 'forgotten', of which forget says the same and which it leaves as   *)
(* it is (the filters of vector_search, bm25_search, core_memory,          *)
(* fetch_memory_previews; resolve, forget).                                *)
GoneIsNotServed ==
    \A m \in gone \cap (SearchServes \cup CoreServes \cup PreviewServes) : mem[m].tagged

(* forget loses nothing: the date a forgotten memory was given can be read *)
(* back from its metadata, however often and by whomever it is forgotten,  *)
(* and a memory nobody forgot keeps its date (forget's WHERE guard).       *)
ForgetIsReversible ==
    \A m \in Stored :
      mem[m].expires # mem[m].given => mem[m].forgotten /\ mem[m].stash = mem[m].given

(* A finished resolution that names a winner has hidden the loser: the row *)
(* is marked after the memory, so a failure in between leaves the pair     *)
(* open and the resolution can be repeated (the two UPDATEs of resolve).   *)
ResolvedMeansHidden ==
    \A k \in kept : \A m \in k[1] \ {k[2]} : ~Standing(m)

(* Whoever resolves a contradiction is obeyed: the memory named last is    *)
(* what is "true now" (resolve's doc comment), so it is among those that   *)
(* search serves until it expires or is itself superseded by a third.      *)
KeptIsServed ==
    \A k \in kept :
      /\ ~overlapped
      /\ \A c \in Callers : pc[c] = "idle"
      => ~(mem[k[2]].by \in k[1])
=============================================================================
