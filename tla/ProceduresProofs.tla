-------------------------- MODULE ProceduresProofs --------------------------
(***************************************************************************)
(* Theorems about Procedures, for any experiences, callers and faults.     *)
(***************************************************************************)
EXTENDS Procedures, FiniteSetTheorems, TLAPS

(* Rows and calls are records with these fields. *)
ExperienceRecords == [result : {"none", "success", "failure"}, procedurized : BOOLEAN,
                      confidence : 0 .. 100]
CallRecords == [at : {"idle", "promote", "mark", "record"}, pairs : SUBSET Evidence,
                pair : Evidence \cup {NoSource}, name : Names \cup {""}]
IsRow(p)    == p = [id |-> p.id, name |-> p.name, source |-> p.source, used |-> p.used]

ProceduresShaped ==
    /\ experience \in [Experiences -> ExperienceRecords]
    /\ call \in [Users -> CallRecords]
    /\ \A p \in procedures : IsRow(p)
    /\ errors \in Nat

(* UNIQUE (name): a name belongs to one row. *)
NamesDiffer == \A p, q \in procedures : p.name = q.name => p = q

(* A promoted procedure is named for the goal of its first experience.     *)
NamedForGoal ==
    \A p \in procedures :
      p.source # NoSource => p.source \in Evidence /\ p.name = GoalOf[p.source[1]]

(* The first experience behind a procedure is marked, or some call is      *)
(* about to mark it, or a call failed.                                     *)
Accounted ==
    \A p \in procedures :
      p.source # NoSource =>
        \/ errors > 0
        \/ experience[p.source[1]].procedurized
        \/ \E c \in Users : At(c, "mark") /\ call[c].pair = p.source

ProceduresIInv == ProceduresShaped /\ NamesDiffer /\ NamedForGoal /\ Accounted

USE DEF At

LEMMA CallShapes ==
    /\ NoCall \in CallRecords /\ NoCall.at = "idle"
    /\ \A s \in SUBSET Evidence :
         [NoCall EXCEPT !.at = "promote", !.pairs = s] \in CallRecords
    /\ \A n \in Names : [NoCall EXCEPT !.at = "record", !.name = n] \in CallRecords
<1>1. NoSource \in Evidence \cup {NoSource} /\ {} \in SUBSET Evidence
  OBVIOUS
<1> QED
  BY <1>1 DEF NoCall, CallRecords, NoSource

LEMMA ProceduresInitIInv == ProceduresInit => ProceduresIInv
<1> SUFFICES ASSUME ProceduresInit PROVE ProceduresIInv
  OBVIOUS
<1>1. ProceduresShaped
  <2>1. [result |-> "none", procedurized |-> FALSE, confidence |-> 0] \in ExperienceRecords
    BY DEF ExperienceRecords
  <2> QED
    BY <2>1, CallShapes DEF ProceduresInit, ProceduresShaped
<1>2. NamesDiffer /\ NamedForGoal /\ Accounted
  BY DEF ProceduresInit, NamesDiffer, NamedForGoal, Accounted
<1> QED
  BY <1>1, <1>2 DEF ProceduresIInv

(* Steps that leave the procedures alone and unmark nothing.               *)
LEMMA SameProcedures ==
    ASSUME ProceduresIInv, ProceduresShaped', procedures' = procedures, errors' >= errors,
           \A e \in Experiences :
             experience[e].procedurized => experience'[e].procedurized,
           \/ errors' > 0
           \/ \A c \in Users : At(c, "mark") => call'[c] = call[c]
    PROVE  ProceduresIInv'
<1>1. NamesDiffer' /\ NamedForGoal'
  BY DEF ProceduresIInv, NamesDiffer, NamedForGoal
<1>2. Accounted'
  <2> SUFFICES ASSUME NEW p \in procedures, p.source # NoSource, ~(errors' > 0)
               PROVE  \/ experience'[p.source[1]].procedurized
                      \/ \E c \in Users : At(c, "mark")' /\ call'[c].pair = p.source
    BY DEF Accounted
  <2>1. p.source \in Evidence /\ p.source[1] \in Experiences
    BY DEF ProceduresIInv, NamedForGoal, Evidence
  <2>2. CASE experience[p.source[1]].procedurized
    BY <2>1, <2>2
  <2>3. CASE \E c \in Users : At(c, "mark") /\ call[c].pair = p.source
    BY <2>3
  <2>4. ~(errors > 0)
    <3>1. errors \in Nat /\ errors' \in Nat
      BY DEF ProceduresIInv, ProceduresShaped
    <3> QED
      BY <3>1
  <2> QED
    BY <2>2, <2>3, <2>4 DEF ProceduresIInv, Accounted
<1> QED
  BY <1>1, <1>2 DEF ProceduresIInv

(* One experience changes, its mark does not. *)
LEMMA SameExperiences ==
    ASSUME ProceduresIInv, NEW e \in Experiences, NEW x \in ExperienceRecords,
           x.procedurized = experience[e].procedurized,
           experience' = [experience EXCEPT ![e] = x],
           procedures' = procedures, call' = call, errors' = errors
    PROVE  ProceduresIInv'
<1>1. experience \in [Experiences -> ExperienceRecords]
  BY DEF ProceduresIInv, ProceduresShaped
<1>2. /\ experience' \in [Experiences -> ExperienceRecords]
      /\ \A d \in Experiences : experience[d].procedurized => experience'[d].procedurized
  BY <1>1
<1>3. ProceduresShaped'
  BY <1>2 DEF ProceduresIInv, ProceduresShaped
<1>4. errors' >= errors
  BY DEF ProceduresIInv, ProceduresShaped
<1> QED
  BY <1>2, <1>3, <1>4, SameProcedures

(* One call goes on that has nothing to mark. *)
LEMMA SameRows ==
    ASSUME ProceduresIInv, NEW c \in Users, NEW x \in CallRecords, call[c].at # "mark",
           call' = [call EXCEPT ![c] = x],
           procedures' = procedures, experience' = experience, errors' = errors
    PROVE  ProceduresIInv'
<1>1. call \in [Users -> CallRecords]
  BY DEF ProceduresIInv, ProceduresShaped
<1>2. /\ call' \in [Users -> CallRecords]
      /\ \A d \in Users : At(d, "mark") => call'[d] = call[d]
  BY <1>1
<1>3. ProceduresShaped'
  BY <1>2 DEF ProceduresIInv, ProceduresShaped
<1>4. errors' >= errors
  BY DEF ProceduresIInv, ProceduresShaped
<1> QED
  BY <1>2, <1>3, <1>4, SameProcedures

LEMMA StoreExperienceIInv ==
    ASSUME ProceduresIInv, NEW e \in Experiences, StoreExperience(e) PROVE ProceduresIInv'
<1> PICK r \in {"success", "failure"}, v \in Confidences :
       experience' = [experience EXCEPT ![e].result = r, ![e].confidence = v]
  BY DEF StoreExperience
<1> DEFINE x == [experience[e] EXCEPT !.result = r, !.confidence = v]
<1>0. experience \in [Experiences -> ExperienceRecords] /\ experience[e] \in ExperienceRecords
  BY DEF ProceduresIInv, ProceduresShaped
<1>1. experience' = [experience EXCEPT ![e] = x]
  BY <1>0
<1>2. x \in ExperienceRecords /\ x.procedurized = experience[e].procedurized
  BY <1>0, ProceduresAssumption DEF ExperienceRecords
<1> QED
  BY <1>0, <1>1, <1>2, SameExperiences DEF StoreExperience

LEMMA RateExperienceIInv ==
    ASSUME ProceduresIInv, NEW e \in Experiences, NEW success \in BOOLEAN, RateExperience(e, success)
    PROVE  ProceduresIInv'
<1>0. \A v \in 0 .. 100 : Rated(v, success) \in 0 .. 100
  BY DEF Rated
<1> DEFINE x == [experience[e] EXCEPT !.confidence = Rated(@, success)]
<1>1. experience \in [Experiences -> ExperienceRecords] /\ experience[e] \in ExperienceRecords
  BY DEF ProceduresIInv, ProceduresShaped
<1>2. experience' = [experience EXCEPT ![e] = x]
  BY DEF RateExperience
<1>3. x \in ExperienceRecords /\ x.procedurized = experience[e].procedurized
  <2>1. experience[e].confidence \in 0 .. 100
    BY <1>1 DEF ExperienceRecords
  <2> QED
    BY <1>0, <1>1, <2>1 DEF ExperienceRecords
<1> QED
  BY <1>1, <1>2, <1>3, SameExperiences DEF RateExperience

LEMMA BeginPromoteIInv ==
    ASSUME ProceduresIInv, NEW c \in Users, BeginPromote(c) PROVE ProceduresIInv'
<1>0. SimilarPairs \subseteq Evidence
  BY ProceduresAssumption DEF SimilarPairs, Evidence
<1> QED
  BY <1>0, CallShapes, SameRows DEF BeginPromote

(* A row with a name that was free. *)
LEMMA NewRow ==
    ASSUME ProceduresIInv, ProceduresShaped', NEW n \in Names,
           NEW s \in Evidence \cup {NoSource}, NameFree(n),
           s # NoSource => n = GoalOf[s[1]] /\ \E c \in Users : At(c, "mark")' /\ call'[c].pair = s,
           procedures' = procedures \cup {Row(n, s)},
           experience' = experience, errors' = errors,
           \A c \in Users : At(c, "mark") => call'[c] = call[c]
    PROVE  ProceduresIInv'
<1> DEFINE r == Row(n, s)
<1>0. r.name = n /\ r.source = s
  BY DEF Row
<1>1. NamesDiffer'
  BY <1>0 DEF ProceduresIInv, NamesDiffer, NameFree
<1>2. NamedForGoal'
  BY <1>0 DEF ProceduresIInv, NamedForGoal
<1>3. Accounted'
  <2> SUFFICES ASSUME NEW p \in procedures', p.source # NoSource, ~(errors > 0)
               PROVE  \/ experience[p.source[1]].procedurized
                      \/ \E c \in Users : At(c, "mark")' /\ call'[c].pair = p.source
    BY DEF Accounted
  <2>1. CASE p = r
    BY <1>0, <2>1
  <2>2. CASE p \in procedures
    BY <2>2 DEF ProceduresIInv, Accounted
  <2> QED
    BY <2>1, <2>2
<1> QED
  BY <1>1, <1>2, <1>3 DEF ProceduresIInv

LEMMA CreatePromotedIInv ==
    ASSUME ProceduresIInv, NEW c \in Users, CreatePromoted(c) PROVE ProceduresIInv'
<1> PICK p \in call[c].pairs :
       IF NameFree(GoalOf[p[1]])
       THEN /\ procedures' = procedures \cup {Row(GoalOf[p[1]], p)}
            /\ call' = [call EXCEPT ![c].at = "mark", ![c].pair = p]
       ELSE call' = [call EXCEPT ![c] = NoCall] /\ UNCHANGED procedures
  BY DEF CreatePromoted
<1>0. /\ p \in Evidence /\ p[1] \in Experiences /\ GoalOf[p[1]] \in Names
      /\ call[c].at = "promote" /\ experience' = experience /\ errors' = errors
  <2>1. call[c].at = "promote" /\ experience' = experience /\ errors' = errors
    BY DEF CreatePromoted
  <2>2. call[c] \in CallRecords
    BY DEF ProceduresIInv, ProceduresShaped
  <2>3. p \in Evidence
    BY <2>2 DEF CallRecords
  <2> QED
    BY <2>1, <2>3, ProceduresAssumption DEF Evidence
<1>1. CASE NameFree(GoalOf[p[1]])
  <2>1. /\ call' = [call EXCEPT ![c].at = "mark", ![c].pair = p]
        /\ procedures' = procedures \cup {Row(GoalOf[p[1]], p)}
    BY <1>1
  <2>2. /\ call' \in [Users -> CallRecords] /\ call'[c].at = "mark" /\ call'[c].pair = p
        /\ \A d \in Users \ {c} : call'[d] = call[d]
    <3> DEFINE x == [call[c] EXCEPT !.at = "mark", !.pair = p]
    <3>1. call \in [Users -> CallRecords] /\ call[c] \in CallRecords
      BY DEF ProceduresIInv, ProceduresShaped
    <3>2. x \in CallRecords /\ x.at = "mark" /\ x.pair = p
      BY <1>0, <3>1 DEF CallRecords
    <3>3. call' = [call EXCEPT ![c] = x]
      BY <2>1, <3>1
    <3> HIDE DEF x
    <3> QED
      BY <3>1, <3>2, <3>3
  <2>3. ProceduresShaped'
    <3>1. call' \in [Users -> CallRecords]
      BY <2>2
    <3>2. \A q \in procedures' : IsRow(q)
      BY <2>1 DEF ProceduresIInv, ProceduresShaped, Row, IsRow
    <3> QED
      BY <1>0, <3>1, <3>2 DEF ProceduresIInv, ProceduresShaped
  <2>4. \A d \in Users : At(d, "mark") => call'[d] = call[d]
    BY <1>0, <2>2
  <2> QED
    BY <1>0, <1>1, <2>1, <2>2, <2>3, <2>4, NewRow
<1>2. CASE ~NameFree(GoalOf[p[1]])
  <2>1. call' = [call EXCEPT ![c] = NoCall] /\ procedures' = procedures
    BY <1>2
  <2> QED
    BY <1>0, <2>1, CallShapes, SameRows
<1> QED
  BY <1>1, <1>2

LEMMA MarkPairIInv ==
    ASSUME ProceduresIInv, NEW c \in Users, MarkPair(c) PROVE ProceduresIInv'
<1> DEFINE rest == call[c].pairs \ {call[c].pair}
           pair == call[c].pair
<1>1. /\ call[c].at = "mark" /\ procedures' = procedures /\ errors' = errors
      /\ experience' = [e \in Experiences |->
           IF e \in Marked(pair)
           THEN [experience[e] EXCEPT !.procedurized = TRUE] ELSE experience[e]]
      /\ call' = [call EXCEPT ![c] =
           IF rest = {} THEN NoCall ELSE [NoCall EXCEPT !.at = "promote", !.pairs = rest]]
  BY DEF MarkPair
<1>0. /\ experience \in [Experiences -> ExperienceRecords]
      /\ call \in [Users -> CallRecords] /\ call[c] \in CallRecords
  BY DEF ProceduresIInv, ProceduresShaped
<1>2. rest \subseteq Evidence
  BY <1>0 DEF CallRecords
<1>3. ProceduresShaped'
  <2>1. call' \in [Users -> CallRecords]
    BY <1>0, <1>1, <1>2, CallShapes
  <2>2. \A e \in Experiences :
          [experience[e] EXCEPT !.procedurized = TRUE] \in ExperienceRecords
    BY <1>0 DEF ExperienceRecords
  <2>3. experience' \in [Experiences -> ExperienceRecords]
    BY <1>0, <1>1, <2>2
  <2> QED
    BY <1>1, <2>1, <2>3 DEF ProceduresIInv, ProceduresShaped
<1>4. \A e \in Experiences :
        /\ experience[e].procedurized => experience'[e].procedurized
        /\ e \in Marked(pair) => experience'[e].procedurized
  <2> SUFFICES ASSUME NEW e \in Experiences
               PROVE  /\ experience[e].procedurized => experience'[e].procedurized
                      /\ e \in Marked(pair) => experience'[e].procedurized
    OBVIOUS
  <2>1. [experience[e] EXCEPT !.procedurized = TRUE].procedurized
    BY <1>0 DEF ExperienceRecords
  <2> QED
    BY <1>1, <2>1
<1>5. NamesDiffer' /\ NamedForGoal'
  BY <1>1 DEF ProceduresIInv, NamesDiffer, NamedForGoal
<1>6. Accounted'
  <2> SUFFICES ASSUME NEW p \in procedures, p.source # NoSource, ~(errors > 0)
               PROVE  \/ experience'[p.source[1]].procedurized
                      \/ \E d \in Users : At(d, "mark")' /\ call'[d].pair = p.source
    BY <1>1 DEF Accounted
  <2>1. p.source[1] \in Experiences
    BY DEF ProceduresIInv, NamedForGoal, Evidence
  <2>2. CASE experience[p.source[1]].procedurized
    BY <1>4, <2>1, <2>2
  <2>3. ASSUME NEW d \in Users, At(d, "mark"), call[d].pair = p.source
        PROVE  \/ experience'[p.source[1]].procedurized
               \/ \E b \in Users : At(b, "mark")' /\ call'[b].pair = p.source
    <3>1. CASE d = c
      BY <1>4, <2>1, <2>3, <3>1 DEF Marked
    <3>2. CASE d # c
      BY <1>0, <1>1, <2>3, <3>2
    <3> QED
      BY <3>1, <3>2
  <2> QED
    BY <2>2, <2>3 DEF ProceduresIInv, Accounted
<1> QED
  BY <1>3, <1>5, <1>6 DEF ProceduresIInv

LEMMA CreateProcedureIInv ==
    ASSUME ProceduresIInv, NEW n \in Names, CreateProcedure(n) PROVE ProceduresIInv'
<1>1. ProceduresShaped'
  BY DEF ProceduresIInv, ProceduresShaped, CreateProcedure, Row, IsRow
<1> QED
  BY <1>1, NewRow DEF CreateProcedure

LEMMA FindByNameIInv ==
    ASSUME ProceduresIInv, NEW c \in Users, FindByName(c) PROVE ProceduresIInv'
<1>1. PICK n \in Names : call' = [call EXCEPT ![c] = [NoCall EXCEPT !.at = "record", !.name = n]]
  BY DEF FindByName
<1>2. PICK x \in CallRecords : call' = [call EXCEPT ![c] = x]
  BY <1>1, CallShapes
<1> QED
  BY <1>2, SameRows DEF FindByName

LEMMA RecordExecutionIInv ==
    ASSUME ProceduresIInv, NEW c \in Users, RecordExecution(c) PROVE ProceduresIInv'
<1> DEFINE Counted(p) == IF p.name = call[c].name THEN [p EXCEPT !.used = @ + 1] ELSE p
<1>1. procedures' = {Counted(p) : p \in procedures}
  BY DEF RecordExecution
<1>2. \A p \in procedures :
        /\ Counted(p).name = p.name /\ Counted(p).source = p.source
        /\ IsRow(Counted(p))
  BY DEF ProceduresIInv, ProceduresShaped, IsRow
<1> HIDE DEF Counted
<1>3. ProceduresShaped'
  <2>1. /\ call' = [call EXCEPT ![c] = NoCall]
        /\ experience' = experience /\ errors' = errors
    BY DEF RecordExecution
  <2>2. \A p \in procedures' : IsRow(p)
    BY <1>1, <1>2
  <2> QED
    BY <2>1, <2>2, CallShapes DEF ProceduresIInv, ProceduresShaped
<1>4. NamesDiffer'
  BY <1>1, <1>2 DEF ProceduresIInv, NamesDiffer
<1>5. NamedForGoal'
  BY <1>1, <1>2 DEF ProceduresIInv, NamedForGoal
<1>6. \A d \in Users : At(d, "mark") => call'[d] = call[d]
  BY DEF ProceduresIInv, ProceduresShaped, RecordExecution
<1>7. Accounted'
  BY <1>1, <1>2, <1>6 DEF ProceduresIInv, Accounted, RecordExecution
<1> QED
  BY <1>3, <1>4, <1>5, <1>7 DEF ProceduresIInv

LEMMA CallFailsIInv ==
    ASSUME ProceduresIInv, NEW c \in Users, CallFails(c) PROVE ProceduresIInv'
<1>1. ProceduresShaped'
  <2>1. call' \in [Users -> CallRecords]
    BY CallShapes DEF ProceduresIInv, ProceduresShaped, CallFails
  <2>2. errors' \in Nat
    BY DEF ProceduresIInv, ProceduresShaped, CallFails
  <2> QED
    BY <2>1, <2>2 DEF ProceduresIInv, ProceduresShaped, CallFails
<1>2. errors' > 0 /\ errors' >= errors
  BY DEF ProceduresIInv, ProceduresShaped, CallFails
<1> QED
  BY <1>1, <1>2, SameProcedures DEF CallFails

LEMMA ProceduresNextIInv == ProceduresIInv /\ [ProceduresNext]_proceduresVars => ProceduresIInv'
<1> SUFFICES ASSUME ProceduresIInv, [ProceduresNext]_proceduresVars PROVE ProceduresIInv'
  OBVIOUS
<1>1. CASE UNCHANGED proceduresVars
  BY <1>1 DEF ProceduresIInv, ProceduresShaped, NamesDiffer, NamedForGoal, Accounted, proceduresVars
<1>2. ASSUME NEW e \in Experiences,
             StoreExperience(e) \/ \E success \in BOOLEAN : RateExperience(e, success)
      PROVE  ProceduresIInv'
  BY <1>2, StoreExperienceIInv, RateExperienceIInv
<1>3. ASSUME NEW c \in Users,
             \/ BeginPromote(c) \/ CreatePromoted(c) \/ MarkPair(c)
             \/ FindByName(c) \/ RecordExecution(c) \/ CallFails(c)
      PROVE  ProceduresIInv'
  BY <1>3, BeginPromoteIInv, CreatePromotedIInv, MarkPairIInv, FindByNameIInv,
     RecordExecutionIInv, CallFailsIInv
<1>4. ASSUME NEW n \in Names, CreateProcedure(n) PROVE ProceduresIInv'
  BY <1>4, CreateProcedureIInv
<1> QED
  BY <1>1, <1>2, <1>3, <1>4 DEF ProceduresNext

LEMMA InvariantIInv == ProceduresSpec => []ProceduresIInv
<1> QED
  BY ProceduresInitIInv, ProceduresNextIInv, PTL DEF ProceduresSpec

-----------------------------------------------------------------------------
(* Whatever calls run at once and however they end, no pair of experiences *)
(* becomes two procedures (promote_from_experiences).                      *)
THEOREM Promotions == ProceduresSpec => []PromotedOnce
<1>1. ProceduresIInv => PromotedOnce
  BY DEF ProceduresIInv, NamesDiffer, NamedForGoal, PromotedOnce
<1> QED
  BY <1>1, InvariantIInv, PTL

(* A pair that promotion finds again and again without being able to use   *)
(* it goes back to a failure, a name taken by a caller or by another       *)
(* experience of that goal, or a call not finished yet                     *)
(* (promote_from_experiences).                                             *)
THEOREM Causes == ProceduresSpec => []StuckHasCause
<1>1. ProceduresIInv => StuckHasCause
  <2> SUFFICES ASSUME ProceduresIInv, NEW p \in SimilarPairs, ~NameFree(GoalOf[p[1]]), ~(errors > 0),
                      ~\E q \in procedures : q.name = GoalOf[p[1]] /\ q.source = NoSource,
                      ~\E e \in Experiences \ {p[1]} : GoalOf[e] = GoalOf[p[1]]
               PROVE  \E c \in Users : At(c, "mark") /\ call[c].pair[1] = p[1]
    BY DEF StuckHasCause
  <2>1. PICK q \in procedures : q.name = GoalOf[p[1]]
    BY DEF NameFree
  <2>2. /\ q.source # NoSource /\ q.source[1] \in Experiences
        /\ GoalOf[q.source[1]] = GoalOf[p[1]]
    BY <2>1 DEF ProceduresIInv, NamedForGoal, Evidence
  <2>3. q.source[1] = p[1]
    BY <2>2
  <2>4. ~experience[p[1]].procedurized
    BY DEF SimilarPairs, Promotable
  <2> QED
    BY <2>2, <2>3, <2>4 DEF ProceduresIInv, Accounted
<1> QED
  BY <1>1, InvariantIInv, PTL

-----------------------------------------------------------------------------
(* There are finitely many rows, and no row was used more often than all.  *)
ProcedureOK(p) == /\ p.id \in Nat /\ p.name \in Names /\ p.source \in Evidence \cup {NoSource}
                  /\ p.used \in Nat /\ p.used <= uses
Counters == uses \in 0 .. MaxUses /\ ratings \in 0 .. MaxRatings /\ errors \in 0 .. MaxErrors

CInv == IsFiniteSet(procedures) /\ (\A p \in procedures : ProcedureOK(p)) /\ Counters

LEMMA Limits == MaxUses \in Nat /\ MaxRatings \in Nat /\ MaxErrors \in Nat
  BY ProceduresAssumption

LEMMA InitCInv == ProceduresInit => CInv
<1> SUFFICES ASSUME ProceduresInit PROVE CInv
  OBVIOUS
<1>1. IsFiniteSet(procedures) /\ \A p \in procedures : ProcedureOK(p)
  BY FS_EmptySet DEF ProceduresInit
<1>2. Counters
  BY Limits DEF ProceduresInit, Counters
<1> QED
  BY <1>1, <1>2 DEF CInv

LEMMA AddedRow ==
    ASSUME CInv, NEW n \in Names, NEW s \in Evidence \cup {NoSource}, uses' = uses,
           procedures' = procedures \cup {Row(n, s)}
    PROVE  IsFiniteSet(procedures') /\ \A p \in procedures' : ProcedureOK(p)'
<1>1. IsFiniteSet(procedures) /\ Cardinality(procedures) \in Nat
  BY FS_CardinalityType DEF CInv
<1>2. PICK r : r = Row(n, s)
  OBVIOUS
<1>3. r.id \in Nat /\ r.name = n /\ r.source = s /\ r.used = 0
  BY <1>1, <1>2 DEF Row
<1>4. uses \in Nat
  BY Limits DEF CInv, Counters
<1>5. ProcedureOK(r)'
  BY <1>3, <1>4 DEF ProcedureOK
<1>6. \A p \in procedures : ProcedureOK(p)'
  BY DEF CInv, ProcedureOK
<1> QED
  BY <1>1, <1>2, <1>5, <1>6, FS_AddElement

LEMMA CountedRows ==
    ASSUME ProceduresIInv, CInv, NEW c \in Users, RecordExecution(c)
    PROVE  CInv'
<1>1. /\ uses < MaxUses /\ uses' = uses + 1 /\ ratings' = ratings /\ errors' = errors
      /\ call' = [call EXCEPT ![c] = NoCall]
      /\ procedures' = {IF p.name = call[c].name THEN [p EXCEPT !.used = @ + 1] ELSE p : p \in procedures}
  BY DEF RecordExecution
<1>2. PICK f : f = [p \in procedures |->
                     IF p.name = call[c].name THEN [p EXCEPT !.used = p.used + 1] ELSE p]
  OBVIOUS
<1>3. procedures' = {f[p] : p \in procedures}
  BY <1>1, <1>2
<1>4. f \in Surjection(procedures, procedures')
  BY <1>2, <1>3 DEF Surjection
<1>5. IsFiniteSet(procedures')
  BY <1>4, FS_Surjection DEF CInv
<1>6. uses \in 0 .. MaxUses /\ uses' \in 0 .. MaxUses
  BY <1>1, Limits DEF CInv, Counters
<1>7. ASSUME NEW p \in procedures
      PROVE  ProcedureOK(f[p])'
  <2>1. IsRow(p) /\ ProcedureOK(p)
    BY DEF ProceduresIInv, ProceduresShaped, CInv
  <2>2. f[p] = p \/ f[p] = [p EXCEPT !.used = p.used + 1]
    BY <1>2
  <2>3. f[p].id = p.id /\ f[p].name = p.name /\ f[p].source = p.source
        /\ (f[p].used = p.used \/ f[p].used = p.used + 1)
    BY <2>1, <2>2 DEF IsRow
  <2> QED
    BY <1>1, <1>6, <2>1, <2>3 DEF ProcedureOK
<1>8. Counters'
  BY <1>1, <1>6 DEF CInv, Counters
<1> QED
  BY <1>3, <1>5, <1>7, <1>8 DEF CInv

LEMMA NextCInv == ProceduresIInv /\ CInv /\ [ProceduresNext]_proceduresVars => CInv'
<1> SUFFICES ASSUME ProceduresIInv, CInv, [ProceduresNext]_proceduresVars PROVE CInv'
  OBVIOUS
<1>0. /\ call \in [Users -> CallRecords] /\ (\A p \in procedures : IsRow(p))
      /\ uses \in Nat /\ ratings \in Nat /\ errors \in Nat
  BY Limits DEF ProceduresIInv, ProceduresShaped, CInv, Counters
<1>1. CASE UNCHANGED proceduresVars
  BY <1>1 DEF proceduresVars, CInv, Counters, ProcedureOK
<1>2. ASSUME NEW e \in Experiences, StoreExperience(e) PROVE CInv'
  BY <1>2 DEF StoreExperience, CInv, Counters, ProcedureOK
<1>3. ASSUME NEW e \in Experiences, NEW success \in BOOLEAN, RateExperience(e, success)
      PROVE  CInv'
  <2>1. /\ procedures' = procedures /\ call' = call /\ uses' = uses /\ errors' = errors
        /\ ratings' = ratings + 1 /\ ratings < MaxRatings
    BY <1>3 DEF RateExperience
  <2>2. Counters'
    BY <1>0, <2>1, Limits DEF CInv, Counters
  <2> QED
    BY <2>1, <2>2 DEF CInv, ProcedureOK
<1>4. ASSUME UNCHANGED <<procedures, uses, ratings>>, errors' \in 0 .. MaxErrors
      PROVE  CInv'
  BY <1>4 DEF CInv, Counters, ProcedureOK
<1>5. ASSUME NEW c \in Users, BeginPromote(c) \/ MarkPair(c) \/ CallFails(c) PROVE CInv'
  <2>1. errors' = errors \/ (errors' = errors + 1 /\ errors < MaxErrors)
    BY <1>5 DEF BeginPromote, MarkPair, CallFails
  <2>2. errors' \in 0 .. MaxErrors /\ UNCHANGED <<procedures, uses, ratings>>
    BY <1>0, <1>5, <2>1, Limits DEF BeginPromote, MarkPair, CallFails, CInv, Counters
  <2> QED
    BY <1>4, <2>2
<1>6. ASSUME NEW c \in Users, CreatePromoted(c) PROVE CInv'
  <2>1. /\ call[c].at = "promote" /\ call[c] \in CallRecords
        /\ uses' = uses /\ ratings' = ratings /\ errors' = errors /\ errors \in 0 .. MaxErrors
    BY <1>0, <1>6 DEF CreatePromoted, CInv, Counters
  <2>2. PICK p \in call[c].pairs :
          \/ /\ procedures' = procedures \cup {Row(GoalOf[p[1]], p)}
             /\ call' = [call EXCEPT ![c].at = "mark", ![c].pair = p]
          \/ call' = [call EXCEPT ![c] = NoCall] /\ UNCHANGED procedures
    BY <1>6 DEF CreatePromoted
  <2>3. p \in Evidence /\ GoalOf[p[1]] \in Names
    BY <2>1, ProceduresAssumption DEF CallRecords, Evidence
  <2>4. CASE /\ procedures' = procedures \cup {Row(GoalOf[p[1]], p)}
             /\ call' = [call EXCEPT ![c].at = "mark", ![c].pair = p]
    <3>1. IsFiniteSet(procedures') /\ \A q \in procedures' : ProcedureOK(q)'
      BY <2>1, <2>3, <2>4, AddedRow
    <3> QED
      BY <2>1, <3>1 DEF CInv, Counters
  <2>5. CASE call' = [call EXCEPT ![c] = NoCall] /\ UNCHANGED procedures
    BY <1>4, <2>1, <2>5
  <2> QED
    BY <2>2, <2>4, <2>5
<1>7. ASSUME NEW c \in Users, FindByName(c) PROVE CInv'
  BY <1>4, <1>7 DEF FindByName, CInv, Counters
<1>8. ASSUME NEW n \in Names, CreateProcedure(n) PROVE CInv'
  <2>1. /\ procedures' = procedures \cup {Row(n, NoSource)}
        /\ UNCHANGED <<call, uses, ratings, errors>>
    BY <1>8 DEF CreateProcedure
  <2>2. IsFiniteSet(procedures') /\ \A q \in procedures' : ProcedureOK(q)'
    BY <2>1, AddedRow
  <2> QED
    BY <2>1, <2>2 DEF CInv, Counters
<1> QED
  BY <1>1, <1>2, <1>3, <1>5, <1>6, <1>7, <1>8, CountedRows DEF ProceduresNext

LEMMA BothInvariants == ProceduresSpec => [](ProceduresIInv /\ CInv)
  BY ProceduresInitIInv, ProceduresNextIInv, InitCInv, NextCInv, PTL DEF ProceduresSpec

(* Every procedure, experience and call keeps its type. *)
THEOREM ProceduresTypeCorrect == ProceduresSpec => []ProceduresTypeOK
<1>1. ProceduresIInv /\ CInv => ProceduresTypeOK
  <2> SUFFICES ASSUME ProceduresIInv, CInv PROVE ProceduresTypeOK
    OBVIOUS
  <2>1. \A p \in procedures : /\ p.id \in Nat /\ p.name \in Names /\ p.used \in 0 .. MaxUses
                              /\ p.source \in Evidence \cup {NoSource}
    BY Limits DEF CInv, ProcedureOK, Counters
  <2>2. \A c \in Users : /\ call[c].at \in {"idle", "promote", "mark", "record"}
                         /\ call[c].pairs \in SUBSET Evidence
                         /\ call[c].pair \in Evidence \cup {NoSource}
    BY DEF ProceduresIInv, ProceduresShaped, CallRecords
  <2> QED
    BY <2>1, <2>2 DEF ProceduresIInv, ProceduresShaped, ExperienceRecords, CInv, Counters,
       ProceduresTypeOK
<1> QED
  BY <1>1, BothInvariants, PTL
=============================================================================
