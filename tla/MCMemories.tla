----------------------------- MODULE MCMemories -----------------------------
(***************************************************************************)
(* Two texts that contradict each other, near enough to be taken for       *)
(* restatements, one of which holds both words of a negation pair; three   *)
(* memories, of which the third, or a backfilled valid_at, comes only      *)
(* where operations follow one another.                                    *)
(***************************************************************************)
EXTENDS MemoriesProps

CONSTANTS up, down

MCNear    == Texts \X Texts
MCOpposed == {<<up, up>>, <<up, down>>, <<down, up>>}

Dated == today > 2 \/ \E m \in Stored : mem[m].forgotten \/ mem[m].expires # None
Three == Stored = Ids
Given == \E m \in Stored : mem[m].valid # None
Plain == /\ \A p \in Pairs : contradiction[p] = "none"
         /\ \A c \in Callers : job[c].op \in {"none", "memory_store"}
         /\ \A m \in Stored : ~mem[m].tagged

(* Dates, overlapping operations, a third memory and a valid_at given by   *)
(* the caller are explored one at a time, and half-way failures with none, *)
(* but for calls of memory_store, which overlap and fail with three;       *)
(* overlapping resolutions are of memories stored without a search.        *)
MemoriesBound ==
    /\ ~(Dated /\ overlapped) /\ ~(Three /\ Dated)
    /\ ~(Given /\ (Dated \/ overlapped \/ Three))
    /\ overlapped /\ Three => Plain
    /\ overlapped /\ named => \A m \in Stored : mem[m].unchecked
    /\ Dated \/ Given => faults = 0
    /\ (overlapped \/ Three) /\ ~Plain => faults = 0
    /\ Dated => \A p \in Pairs : contradiction[p] = "none"
    /\ Three \/ Given => ~named
    /\ Three \/ Dated => \A m, n \in Ids : n \in Stored /\ m < n =>
         m \in Stored /\ mem[m].created < mem[n].created
=============================================================================
