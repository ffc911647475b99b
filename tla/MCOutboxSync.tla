---------------------------- MODULE MCOutboxSync ----------------------------
(***************************************************************************)
(* Instances of OutboxSync.  Two agents, whose name is UNIQUE, a session   *)
(* of the first and a summary of the session; two memories that may        *)
(* supersede each other and a contradiction of the first.                  *)
(***************************************************************************)
EXTENDS OutboxSyncProps, TLC

CONSTANTS agent1, agent2, session, summary, memory1, memory2, contradiction, Names

MCTableOf ==
    [k \in Keys |-> CASE k \in {agent1, agent2} -> 1 [] k = session -> 4
                      [] k \in {memory1, memory2} -> 6 [] k = summary -> 9
                      [] k = contradiction -> 12]

MCParentOf ==
    [k \in Keys |-> CASE k = summary -> session [] k = contradiction -> memory1
                      [] OTHER -> None]

MCRefs(k) ==
    {i \in Keys : <<k, i>> \in {<<session, agent1>>, <<memory1, memory2>>, <<memory2, memory1>>}}

(* What a row says matters where it is a name.                             *)
MCMayHold ==
    [k \in Keys |->
       [value : IF k \in Named THEN Names ELSE Values \ Names,
        vector : IF k \in {session, memory1} THEN Vectors \cup {None} ELSE {None},
        refs : SUBSET MCRefs(k)]]

(* A name is only ever compared with another.                              *)
MCSymmetry == Permutations(Names)
=============================================================================
