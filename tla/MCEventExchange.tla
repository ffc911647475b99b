--------------------------- MODULE MCEventExchange ---------------------------
(***************************************************************************)
(* Two devices, a shared category and one that stays at home, and a row    *)
(* that one device had before its triggers were installed.                 *)
(***************************************************************************)
EXTENDS EventExchangeProps

CONSTANTS mac, vps, k1, k2

MCLegacyRows == {<<mac, k1>>}

(* Transactions that overlap and batches of two are explored with the rows *)
(* of one device that are shared; the rows that stay at home, with nothing *)
(* that fails.                                                             *)
Overlapped == \E d \in Devices : \E e \in known[d] : e.created + 1 < e.id
BatchOfTwo == \E d \in Devices : Cardinality(out[d]) = 2 \/ Cardinality(page[d]) = 2
StaysHome  == \E d \in Devices : \E e \in known[d] : e.key \in Excluded
OneAtATime ==
    /\ Overlapped \/ BatchOfTwo =>
         faults = 0 /\ \A d \in Devices :
           baseline[d] = {} /\ \A e \in known[d] : e.key = k1 /\ e.device = mac
    /\ StaysHome => faults = 0

MCNext == Next /\ OneAtATime'

MCSpec == Init /\ [][MCNext]_vars
=============================================================================
