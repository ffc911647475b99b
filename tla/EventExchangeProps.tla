-------------------------- MODULE EventExchangeProps --------------------------
(***************************************************************************)
(* What the exchange of events guarantees.                                 *)
(***************************************************************************)
EXTENDS EventExchange

(* An event captured on a device is on the target or still waits to be     *)
(* pushed, whatever fails between COMMIT and the stamp, unless its         *)
(* category stays at home (push_event_batch).                              *)
NothingUnpublished ==
    \A d \in Devices : \A e \in known[d] :
      e.device = d => e \in unpushed[d] \cup EventsOf(target) \/ e.key \in Excluded

(* A device has every event up to its cursor: since numbers become visible *)
(* in order, none appears below a cursor that has passed it (neon_seq,     *)
(* migration 013; pull_events).                                            *)
CursorIsSafe ==
    \A d \in Devices : \A r \in target : r.seq <= cursor[d] => r.event \in known[d]

(* A device applies an event at most once, however often it is pulled, and *)
(* never its own (the inserted == 1 guard of pull_events).                 *)
AppliedOnce ==
    \A d \in Devices : \A i \in DOMAIN replayed[d] :
      /\ replayed[d][i].device # d
      /\ \A j \in DOMAIN replayed[d] : i # j => replayed[d][i] # replayed[d][j]

(* Of two events of one device for one row, the second of a transaction    *)
(* that began after the first had committed, the first is never applied    *)
(* after the second (created_at orders the push, neon_seq the pull).       *)
NoRegression ==
    \A d \in Devices : \A i, j \in DOMAIN replayed[d] :
      LET early == replayed[d][i]
          late  == replayed[d][j]
      IN  i < j /\ early.device = late.device /\ early.key = late.key
            => early.created < late.id

(* As long as nothing fails, every foreign upsert that a device knows has   *)
(* been applied or is about to be (pull_events).                           *)
KnownIsApplied ==
    faults = 0 =>
      \A d \in Devices : \A e \in known[d] :
        e.device # d /\ e.op = "upsert" =>
          e = hand[d] \/ \E i \in DOMAIN replayed[d] : replayed[d][i] = e

(* Refinement: the target's ledger is the log. *)
Log == INSTANCE SharedLog WITH log <- target, delivered <- known, position <- cursor

(* Every step of the devices is a step that SharedLog allows.              *)
ImplementsSharedLog == Log!Spec

(* "newer events supersede older events"                                   *)
(* (IMPLEMENTATIONS_AND_IMPROVEMENTS.md): a pull never replaces a row by   *)
(* one that was written before it.                                         *)
NewerSupersedesOlder ==
    [][\A d \in Devices : hand[d] # None /\ hand'[d] = None /\ rows'[d] # rows[d] =>
         LET row == rows[d][hand[d].key]
         IN  row \in Event => row.id < hand[d].id]_vars
=============================================================================
