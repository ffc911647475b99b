----------------------------- MODULE SharedLog -----------------------------
(***************************************************************************)
(* What the exchange of events promises (migrations/013_neon_event_seq):   *)
(* one log on the target that only grows at its end and holds an event     *)
(* once, and on each device a set of delivered events that contains        *)
(* everything up to the position the device has read to.                   *)
(***************************************************************************)
EXTENDS Naturals

CONSTANT Devices

VARIABLES
    log,        \* pairs of an event and its number
    delivered,  \* the events each device knows
    position    \* the number each device has read to

logVars == <<log, delivered, position>>

Init ==
    /\ log = {}
    /\ delivered = [d \in Devices |-> {}]
    /\ position = [d \in Devices |-> 0]

(* A device records an event of its own. *)
Record(d) ==
    /\ \E e \in delivered'[d] : delivered' = [delivered EXCEPT ![d] = @ \cup {e}]
    /\ UNCHANGED <<log, position>>

(* Events a device knows are appended, each at most once, in one step. *)
Append(d) ==
    /\ log \subseteq log'
    /\ \A r \in log' \ log :
         /\ r.event \in delivered[d]
         /\ \A s \in log' : s # r => s.event # r.event /\ s.seq # r.seq
         /\ \A s \in log : s.seq < r.seq
         /\ \A c \in Devices : position[c] < r.seq
    /\ UNCHANGED <<delivered, position>>

(* An event of the log reaches a device. *)
Deliver(d) ==
    /\ \E r \in log : delivered' = [delivered EXCEPT ![d] = @ \cup {r.event}]
    /\ UNCHANGED <<log, position>>

(* A device moves on past what it knows. *)
Advance(d) ==
    /\ \E r \in log :
         /\ position[d] < r.seq
         /\ \A s \in log : s.seq <= r.seq => s.event \in delivered[d]
         /\ position' = [position EXCEPT ![d] = r.seq]
    /\ UNCHANGED <<log, delivered>>

Next == \E d \in Devices : Record(d) \/ Append(d) \/ Deliver(d) \/ Advance(d)

Spec == Init /\ [][Next]_logVars
=============================================================================
