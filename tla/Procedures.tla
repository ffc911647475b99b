----------------------------- MODULE Procedures -----------------------------
(***************************************************************************)
(* Experiences, their confidence, and the procedures made of them: stored  *)
(* experiences that resemble each other are promoted in pairs, procedures  *)
(* are looked up by name and their executions counted                      *)
(* (services/procedure.rs, services/experience.rs, the handlers and MCP    *)
(* tools in front of them).                                                *)
(*                                                                         *)
(* A call is one statement at a time; several run at once, and any may     *)
(* end with an error after a statement that stays.                         *)
(***************************************************************************)
EXTENDS Naturals, FiniteSets

CONSTANTS
    Experiences,    \* ids, in their order
    Users,          \* concurrent calls
    Names,          \* of procedures; goals of experiences
    GoalOf,         \* the goal of each experience
    Confidences,    \* an experience may be stored with, in percent
    Similar,        \* pairs of experiences within the threshold
    Contains,       \* pairs <<n, q>> where a row named n matches ILIKE %q%
    CandidateLimit, \* LIMIT of find_candidates
    MaxUses,        \* bound on the executions
    MaxRatings,     \* bound on the updates of a confidence
    MaxErrors       \* bound on calls that end half-way

ASSUME ProceduresAssumption ==
    /\ Experiences \subseteq Nat \ {0}
    /\ GoalOf \in [Experiences -> Names]
    /\ Confidences \subseteq 0 .. 100
    /\ Similar \subseteq Experiences \X Experiences
    /\ Contains \subseteq Names \X Names
    /\ CandidateLimit \in Nat \ {0}
    /\ MaxUses \in Nat /\ MaxRatings \in Nat /\ MaxErrors \in Nat

VARIABLES
    experience,     \* table experiences: result, is_procedurized, confidence in percent
    procedures,     \* table procedures: a set of rows
    call,           \* the local variables of each call
    uses, ratings, errors

proceduresVars == <<experience, procedures, call, uses, ratings, errors>>

NoCall    == [at |-> "idle", pairs |-> {}, pair |-> <<0, 0>>, name |-> ""]
Evidence  == Experiences \X Experiences
NoSource  == <<0, 0>>
Row(n, s) == [id |-> Cardinality(procedures) + 1, name |-> n, source |-> s, used |-> 0]

ProceduresTypeOK ==
    /\ experience \in [Experiences -> [result : {"none", "success", "failure"},
                                       procedurized : BOOLEAN, confidence : 0 .. 100]]
    /\ \A p \in procedures :
         /\ p.id \in Nat /\ p.name \in Names /\ p.used \in 0 .. MaxUses
         /\ p.source \in Evidence \cup {NoSource}
    /\ \A c \in Users :
         /\ call[c].at \in {"idle", "promote", "mark", "record"}
         /\ call[c].pairs \in SUBSET Evidence
         /\ call[c].pair \in Evidence \cup {NoSource}
    /\ uses \in 0 .. MaxUses /\ ratings \in 0 .. MaxRatings /\ errors \in 0 .. MaxErrors

ProceduresInit ==
    /\ experience = [e \in Experiences |->
                       [result |-> "none", procedurized |-> FALSE, confidence |-> 0]]
    /\ procedures = {}
    /\ call = [c \in Users |-> NoCall]
    /\ uses = 0 /\ ratings = 0 /\ errors = 0

At(c, place) == call[c].at = place

-----------------------------------------------------------------------------
(* record_interaction, store_experience.                                   *)
StoreExperience(e) ==
    /\ experience[e].result = "none"
    /\ \E r \in {"success", "failure"}, v \in Confidences :
         experience' = [experience EXCEPT ![e].result = r, ![e].confidence = v]
    /\ UNCHANGED <<procedures, call, uses, ratings, errors>>

(* GREATEST(0, LEAST(1, confidence + delta)), the deltas 0.05 and -0.15.   *)
Rated(v, success) ==
    IF success THEN IF v > 95 THEN 100 ELSE v + 5
    ELSE IF v < 15 THEN 0 ELSE v - 15

(* POST /experiences/{id}/confidence: only the sign of the delta counts.   *)
RateExperience(e, success) ==
    /\ experience[e].result # "none" /\ ratings < MaxRatings
    /\ ratings' = ratings + 1
    /\ experience' = [experience EXCEPT ![e].confidence = Rated(@, success)]
    /\ UNCHANGED <<procedures, call, uses, errors>>

-----------------------------------------------------------------------------
(* promote_from_experiences, by procedure_promote and by                   *)
(* POST /procedures/detect.                                                *)

Promotable(e) == experience[e].result = "success" /\ ~experience[e].procedurized

(* find_similar_experiences: read once, in no order. *)
SimilarPairs == {p \in Similar : p[1] < p[2] /\ Promotable(p[1]) /\ Promotable(p[2])}

BeginPromote(c) ==
    /\ At(c, "idle") /\ SimilarPairs # {}
    /\ call' = [call EXCEPT ![c] = [NoCall EXCEPT !.at = "promote", !.pairs = SimilarPairs]]
    /\ UNCHANGED <<experience, procedures, uses, ratings, errors>>

(* Mutant: no UNIQUE on procedures.name. *)
NameAlwaysFree(n) == TRUE

(* UNIQUE (name) of procedures. *)
NameFree(n) == \A p \in procedures : p.name # n

(* create_procedure for the next pair; a name that exists ends the call.   *)
CreatePromoted(c) ==
    /\ At(c, "promote")
    /\ \E p \in call[c].pairs :
         IF NameFree(GoalOf[p[1]])
         THEN /\ procedures' = procedures \cup {Row(GoalOf[p[1]], p)}
              /\ call' = [call EXCEPT ![c].at = "mark", ![c].pair = p]
         ELSE /\ call' = [call EXCEPT ![c] = NoCall]
              /\ UNCHANGED procedures
    /\ UNCHANGED <<experience, uses, ratings, errors>>

(* Mutant: the pair's first experience is not marked. *)
MarkedSecond(p) == {p[2]}

(* mark_experiences_procedurized(&[id1, id2]) *)
Marked(p) == {p[1], p[2]}

MarkPair(c) ==
    LET rest == call[c].pairs \ {call[c].pair}
    IN  /\ At(c, "mark")
        /\ experience' = [e \in Experiences |->
             IF e \in Marked(call[c].pair)
             THEN [experience[e] EXCEPT !.procedurized = TRUE] ELSE experience[e]]
        /\ call' = [call EXCEPT ![c] =
             IF rest = {} THEN NoCall
             ELSE [NoCall EXCEPT !.at = "promote", !.pairs = rest]]
        /\ UNCHANGED <<procedures, uses, ratings, errors>>

-----------------------------------------------------------------------------
(* POST /procedures. *)
CreateProcedure(n) ==
    /\ NameFree(n)
    /\ procedures' = procedures \cup {Row(n, NoSource)}
    /\ UNCHANGED <<experience, call, uses, ratings, errors>>

(* search_procedures: ILIKE, ORDER BY times_used DESC LIMIT 5; rows used   *)
(* alike come in any order, so there may be several answers.               *)
CandidateSets(q) ==
    LET hits == {p \in procedures : <<p.name, q>> \in Contains}
    IN  {s \in SUBSET hits :
           /\ Cardinality(s) <= CandidateLimit
           /\ s # hits => Cardinality(s) = CandidateLimit
           /\ \A p \in s, o \in hits \ s : p.used >= o.used}

(* procedure_run and POST /procedures/execute: the candidate of that very  *)
(* name; if it is not among them the answer is "Procedure not found".      *)
FindByName(c) ==
    /\ At(c, "idle")
    /\ \E n \in Names : \E s \in CandidateSets(n) :
         /\ \E p \in s : p.name = n
         /\ call' = [call EXCEPT ![c] = [NoCall EXCEPT !.at = "record", !.name = n]]
    /\ UNCHANGED <<experience, procedures, uses, ratings, errors>>

(* record_procedure_execution: times_used + 1, in one statement.           *)
RecordExecution(c) ==
    /\ At(c, "record") /\ uses < MaxUses
    /\ uses' = uses + 1
    /\ procedures' = {IF p.name = call[c].name THEN [p EXCEPT !.used = @ + 1] ELSE p :
                        p \in procedures}
    /\ call' = [call EXCEPT ![c] = NoCall]
    /\ UNCHANGED <<experience, ratings, errors>>

(* A statement fails or the process dies. *)
CallFails(c) ==
    /\ ~At(c, "idle") /\ errors < MaxErrors
    /\ errors' = errors + 1
    /\ call' = [call EXCEPT ![c] = NoCall]
    /\ UNCHANGED <<experience, procedures, uses, ratings>>

ProceduresNext ==
    \/ \E e \in Experiences :
         StoreExperience(e) \/ \E success \in BOOLEAN : RateExperience(e, success)
    \/ \E c \in Users :
         \/ BeginPromote(c) \/ CreatePromoted(c) \/ MarkPair(c)
         \/ FindByName(c) \/ RecordExecution(c) \/ CallFails(c)
    \/ \E n \in Names : CreateProcedure(n)

ProceduresSpec == ProceduresInit /\ [][ProceduresNext]_proceduresVars

-----------------------------------------------------------------------------
(* A pair of experiences is never promoted twice, by one call after        *)
(* another or by two at once, marks lost to a failure included             *)
(* (promote_from_experiences).                                             *)
PromotedOnce ==
    \A p, q \in procedures : p.source = q.source /\ p.source # NoSource => p = q

(* A pair that will be found for ever, and fail for ever on the name it    *)
(* needs, is the work of a call that ended between procedure and marks, of *)
(* a caller who took the name, or of another experience with the same      *)
(* goal; two promotions at once do not bring it about.                     *)
StuckHasCause ==
    \A p \in SimilarPairs :
      ~NameFree(GoalOf[p[1]]) =>
        \/ errors > 0
        \/ \E q \in procedures : q.name = GoalOf[p[1]] /\ q.source = NoSource
        \/ \E e \in Experiences \ {p[1]} : GoalOf[e] = GoalOf[p[1]]
        \/ \E c \in Users : At(c, "mark") /\ call[c].pair[1] = p[1]
=============================================================================
