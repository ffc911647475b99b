------------------------------- MODULE Search -------------------------------
(***************************************************************************)
(* A search (search/mod.rs, rrf.rs, rsf.rs, relative_time.rs,              *)
(* services/decay.rs): two ranked lists are fetched and fused, decay and   *)
(* the time the query named adjust the scores, and the page is cut.        *)
(*                                                                         *)
(* Scores are integers: a fused score is in ten-thousandths, to which the  *)
(* code rounds it; each later factor, in percent, multiplies all of them.  *)
(***************************************************************************)
EXTENDS Naturals, Sequences, FiniteSets

CONSTANTS
    Found,          \* ids of the rows a query can find
    RawScores,      \* of a row in one list, in percent
    Composites,     \* what recency, frequency and importance come to, in percent
    K, VectorWeight, KeywordWeight,     \* rrf_k, and the weights in percent
    Floor,          \* decay_multiplier_floor, in percent
    Page            \* limit

ASSUME SearchAssumption ==
    /\ Found \subseteq Nat \ {0} /\ IsFiniteSet(Found)
    /\ RawScores \subseteq 1 .. 100 /\ Composites \subseteq 0 .. 100
    /\ K \in Nat /\ VectorWeight \in 1 .. 100 /\ KeywordWeight \in 1 .. 100
    /\ Floor \in 0 .. 100 /\ Page \in Nat \ {0}

VARIABLES
    query,          \* the request
    hits,           \* its results, in order
    stage           \* what runs next

searchVars == <<query, hits, stage>>

Absent  == 10       \* missing_default of RSF, in percent
Boost   == 115      \* BOOST, in percent
Modes   == {"vector", "keyword", "rsf", "hybrid"}
Tables  == {"memories", "documents"}
Stages  == {"idle", "fetch", "decay", "boost", "truncate"}

(* vec and kw are ranks, 0 for none; critical is the row's tag and boosted *)
(* whether its date is in the window, which the code does not keep.        *)
Hit(m, s, v, k) == [id |-> m, score |-> s, vec |-> v, kw |-> k,
                    critical |-> FALSE, boosted |-> FALSE]

SearchTypeOK ==
    /\ query \in [table : Tables, mode : Modes, timed : BOOLEAN]
    /\ stage \in Stages
    /\ \A i, j \in DOMAIN hits : hits[i].id = hits[j].id => i = j
    /\ \A i \in DOMAIN hits : hits[i].id \in Found /\ hits[i].score \in Nat

SearchInit ==
    /\ query = [table |-> "memories", mode |-> "hybrid", timed |-> FALSE]
    /\ hits = <<>> /\ stage = "idle"

-----------------------------------------------------------------------------
(* A list of n distinct rows, best score first.  In the vector list they   *)
(* come in the order of their ids, which are arbitrary.                    *)
Lists(n) ==
    {l \in [1 .. n -> [id : Found, score : RawScores]] :
       \A i, j \in 1 .. n : i < j => l[i].id # l[j].id /\ l[i].score >= l[j].score}
ListsUpTo(limit)   == UNION {Lists(n) : n \in {n \in 0 .. limit : n <= Cardinality(Found)}}
VectorLists(limit) == {l \in ListsUpTo(limit) : \A i, j \in DOMAIN l : i < j => l[i].id < l[j].id}
(* RRF reads the order of a list only, so one score stands for all.        *)
Unscored(lists) == {l \in lists : \A i \in DOMAIN l : \A s \in RawScores : l[i].score >= s}

IdsIn(l)     == {l[i].id : i \in DOMAIN l}
RankIn(l, m) == IF m \in IdsIn(l) THEN CHOOSE i \in DOMAIN l : l[i].id = m ELSE 0

(* sort_by is stable: equal scores keep their order.                       *)
Sorted(s) ==
    LET Before(i, j) == s[i].score > s[j].score \/ (s[i].score = s[j].score /\ i < j)
        Place(j)     == Cardinality({i \in DOMAIN s : Before(i, j)}) + 1
    IN  [p \in DOMAIN s |-> s[CHOOSE j \in DOMAIN s : Place(j) = p]]

(* A HashMap yields its entries in any order before they are sorted.       *)
Orders(entries) ==
    {s \in [1 .. Cardinality(entries) -> entries] :
       \A i, j \in DOMAIN s : i < j => s[i] # s[j] /\ s[i].score >= s[j].score}

Rounded(n, d) == (2 * n + d) \div (2 * d)

(* weight / (k + rank), summed over the lists the row is in.               *)
Reciprocal(v, k) ==
    IF v # 0 /\ k # 0
    THEN Rounded(100 * (VectorWeight * (K + k) + KeywordWeight * (K + v)), (K + v) * (K + k))
    ELSE IF v # 0 THEN Rounded(100 * VectorWeight, K + v) ELSE Rounded(100 * KeywordWeight, K + k)

RrfFuse(vec, kw) ==
    {Hit(m, Reciprocal(RankIn(vec, m), RankIn(kw, m)), RankIn(vec, m), RankIn(kw, m)) :
       m \in IdsIn(vec) \cup IdsIn(kw)}

(* The share of the best score of the list; one list only counts Absent    *)
(* for the other.  The ranks are those RSF reports: its entry keeps one.   *)
Share(l, m) == IF m \in IdsIn(l) THEN (100 * l[RankIn(l, m)].score) \div l[1].score ELSE Absent

RsfFuse(vec, kw) ==
    LET rank(m) == IF m \in IdsIn(vec) THEN RankIn(vec, m) ELSE RankIn(kw, m)
    IN  {Hit(m, Share(vec, m) * VectorWeight + Share(kw, m) * KeywordWeight,
             rank(m), IF m \in IdsIn(kw) THEN rank(m) ELSE 0) :
           m \in IdsIn(vec) \cup IdsIn(kw)}

-----------------------------------------------------------------------------
(* Without an embedding of the query the handlers ask for keywords only;   *)
(* an unknown mode is hybrid.                                              *)
Ask ==
    /\ stage = "idle"
    /\ \E table \in Tables, mode \in Modes, timed, embeds \in BOOLEAN :
         query' = [table |-> table, timed |-> timed, mode |-> IF embeds THEN mode ELSE "keyword"]
    /\ hits' = <<>> /\ stage' = "fetch"

(* Vector or keyword alone: the list as the database ranks it.             *)
FetchOne ==
    /\ stage = "fetch" /\ query.mode \in {"vector", "keyword"}
    /\ \E l \in VectorLists(Page) :
         hits' = [i \in DOMAIN l |-> Hit(l[i].id, l[i].score, 0, 0)]
    /\ stage' = IF query.mode = "keyword" /\ query.table = "memories" THEN "boost" ELSE "idle"
    /\ UNCHANGED query

FetchBoth ==
    /\ stage = "fetch" /\ query.mode \in {"rsf", "hybrid"}
    /\ \/ /\ query.mode = "hybrid"
          /\ \E vec \in Unscored(VectorLists(2 * Page)), kw \in Unscored(ListsUpTo(2 * Page)) :
               hits' \in Orders(RrfFuse(vec, kw))
       \/ /\ query.mode = "rsf"
          /\ \E vec \in VectorLists(2 * Page), kw \in ListsUpTo(2 * Page) :
               hits' \in Orders(RsfFuse(vec, kw))
    /\ stage' = IF query.table = "memories" THEN "decay" ELSE "truncate"
    /\ UNCHANGED query

(* score_recency_frequency, between the floor and 1.                       *)
Multiplier(c) == Floor + ((100 - Floor) * c) \div 100

(* Mutant: critical memories decay as well. *)
DecayFactorOfAll(critical, c) == Multiplier(c)

DecayFactor(critical, c) == IF critical THEN 100 ELSE Multiplier(c)

(* apply_decay, each row as it is now.                                     *)
ApplyDecay ==
    /\ stage = "decay"
    /\ \E critical \in SUBSET Found, c \in [IdsIn(hits) -> Composites] :
         /\ critical \subseteq IdsIn(hits)
         /\ hits' = Sorted([i \in DOMAIN hits |->
                             [hits[i] EXCEPT
                                !.score = @ * DecayFactor(hits[i].id \in critical, c[hits[i].id]),
                                !.critical = hits[i].id \in critical]])
    /\ stage' = IF query.mode = "hybrid" THEN "boost" ELSE "truncate"
    /\ UNCHANGED query

(* apply_relative_time_boost; without a time in the query nothing happens. *)
ApplyRelativeTimeBoost ==
    /\ stage = "boost"
    /\ \E recent \in SUBSET IdsIn(hits) :
         /\ query.timed \/ recent = {}
         /\ hits' = Sorted([i \in DOMAIN hits |->
                             LET in == hits[i].id \in recent
                             IN  [hits[i] EXCEPT !.score = @ * (IF in THEN Boost ELSE 100),
                                                 !.boosted = in]])
    /\ stage' = IF query.mode = "hybrid" THEN "truncate" ELSE "idle"
    /\ UNCHANGED query

Truncate ==
    /\ stage = "truncate"
    /\ hits' = IF Len(hits) > Page THEN SubSeq(hits, 1, Page) ELSE hits
    /\ stage' = "idle"
    /\ UNCHANGED query

(* A statement or the embedding of the query fails: the request does.      *)
SearchFails ==
    /\ stage \in {"fetch", "decay", "boost"}
    /\ hits' = <<>> /\ stage' = "idle"
    /\ UNCHANGED query

SearchNext ==
    \/ Ask \/ FetchOne \/ FetchBoth
    \/ ApplyDecay \/ ApplyRelativeTimeBoost \/ Truncate \/ SearchFails

SearchSpec == SearchInit /\ [][SearchNext]_searchVars

-----------------------------------------------------------------------------
(* What the fusion gave a row, before age, use and dates.                  *)
Fused(h) == Reciprocal(h.vec, h.kw)

(* Decay and the named time adjust the ranking of a hybrid search and do   *)
(* not replace it (the comments at apply_relative_time_boost and           *)
(* apply_decay): a row the fusion scored more than Boost / Floor times     *)
(* higher than another comes first, whatever their age, use and dates; and *)
(* a critical memory, which does not decay, comes before every one the     *)
(* fusion scored lower, unless that one alone is from the time the query   *)
(* named.                                                                  *)
SecondarySignalsOnlyAdjust ==
    query.mode = "hybrid" =>
      \A i, j \in DOMAIN hits : i < j =>
        /\ Floor * Fused(hits[j]) <= Boost * Fused(hits[i])
        /\ hits[j].critical /\ (hits[i].boosted => hits[j].boosted) =>
             Fused(hits[j]) <= Fused(hits[i])
=============================================================================
