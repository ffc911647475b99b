--------------------------- MODULE DurableIngest ---------------------------
(***************************************************************************)
(* What POST /events promises, without the machinery: an event a client    *)
(* sends is absent, then captured (durably queued on local disk), then     *)
(* stored (a row of memories).  It never moves backwards, a reply never    *)
(* claims more than has happened, and the only way a captured event goes   *)
(* away without being stored is that the program, after an upgrade, can no *)
(* longer read it and says so in its log.  EventQueue implements this.     *)
(***************************************************************************)
CONSTANT Events          \* the requests clients send, one event each

VARIABLES phase,         \* how durable each event is
          reply          \* what the client of each event was told

abstractVars == <<phase, reply>>

Phases  == {"absent", "captured", "stored", "discarded"}
Replies == {"none", "accepted", "queued", "error"}

Init ==
    /\ phase = [e \in Events |-> "absent"]
    /\ reply = [e \in Events |-> "none"]

(* The queue insert of one event committed. *)
Capture(e) ==
    /\ phase[e] = "absent"
    /\ reply[e] = "none"
    /\ phase' = [phase EXCEPT ![e] = "captured"]
    /\ UNCHANGED reply

(* The first memories row of an event committed, queued before or not. *)
Store(e) ==
    /\ phase[e] # "stored"
    /\ phase' = [phase EXCEPT ![e] = "stored"]
    /\ UNCHANGED reply

(* A queued event nobody can read any more is dropped. *)
Discard(e) ==
    /\ phase[e] = "captured"
    /\ phase' = [phase EXCEPT ![e] = "discarded"]
    /\ UNCHANGED reply

(* "accepted" needs a stored event, "queued" one that was captured. *)
Answer(e) ==
    /\ reply[e] = "none"
    /\ \E r \in Replies \ {"none"} :
          /\ r = "accepted" => phase[e] = "stored"
          /\ r = "queued"   => phase[e] # "absent"
          /\ reply' = [reply EXCEPT ![e] = r]
    /\ UNCHANGED phase

Next == \E e \in Events : Capture(e) \/ Store(e) \/ Discard(e) \/ Answer(e)

Spec == Init /\ [][Next]_abstractVars
=============================================================================
