---------------------------- MODULE MCEventQueue ----------------------------
(***************************************************************************)
(* An instance of EventQueue: events that PostgreSQL treats alike are      *)
(* interchangeable.                                                        *)
(***************************************************************************)
EXTENDS EventQueueProps, TLC

MCSymmetry == Permutations(Events \ Poison)
=============================================================================
