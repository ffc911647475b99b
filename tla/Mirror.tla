------------------------------- MODULE Mirror -------------------------------
(***************************************************************************)
(* What neon-sync promises about the target (header of bin/neon-sync.rs):  *)
(* the local database is authoritative, every key whose projection may be  *)
(* out of date is marked, and a mark goes only when source and projection  *)
(* agree.  Rows the target drops on its own are lost to the projection.    *)
(***************************************************************************)
CONSTANTS Keys, Values, Vectors, None

VARIABLES
    source,     \* the active row of each key, None if there is none
    projection, \* the row the target has
    marked,     \* keys to be brought up to date
    lost        \* keys the target's own foreign keys deleted or changed

vars == <<source, projection, marked, lost>>

Row == [value : Values, vector : Vectors \cup {None}, refs : SUBSET Keys]
Table == [Keys -> Row \cup {None}]

(* The copy shows the row: it has what the row has, and its vector if the  *)
(* row has one.                                                            *)
Shows(copy, row) ==
    IF row = None THEN copy = None
    ELSE /\ copy # None
         /\ copy.value = row.value /\ copy.refs = row.refs
         /\ row.vector \in {None, copy.vector}

(* A foreign key takes the row, or references the row has.                 *)
Reduced(after, before) ==
    after # None =>
      /\ before # None
      /\ after.value = before.value /\ after.vector = before.vector
      /\ after.refs \subseteq before.refs

Init ==
    /\ source = [k \in Keys |-> None]
    /\ projection = source
    /\ marked = {} /\ lost = {}

(* The source changes at some keys and marks them in the same step.        *)
Change ==
    \E K \in SUBSET Keys :
      /\ source' \in Table
      /\ \A k \in Keys \ K : source'[k] = source[k]
      /\ marked' = marked \cup K
      /\ UNCHANGED <<projection, lost>>

(* The target changes at marked keys, or loses what it should have kept.   *)
Write ==
    /\ projection' \in Table
    /\ lost' \subseteq Keys
    /\ \A k \in Keys \ marked :
         projection'[k] = projection[k]
           \/ (k \in lost' /\ Reduced(projection'[k], projection[k]))
    /\ lost \ lost' \subseteq marked
    /\ UNCHANGED <<source, marked>>

(* A mark goes.                                                            *)
Clear ==
    /\ marked' \subseteq marked
    /\ \A k \in marked \ marked' : Shows(projection[k], source[k])
    /\ UNCHANGED <<source, projection, lost>>

Next == Change \/ Write \/ Clear

Spec == Init /\ [][Next]_vars
=============================================================================
