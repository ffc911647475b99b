-------------------------- MODULE TranscriptsProofs --------------------------
(***************************************************************************)
(* Theorems about Transcripts, for any transcripts, processes and faults.  *)
(***************************************************************************)
EXTENDS Transcripts, TLAPS

Early  == {"compare", "look", "insert", "update"}
Late   == {"session", "experience", "newExperience", "memory", "newMemory"}
Talk   == {"ocLook", "ocSession", "ocExperience", "ocPrompt", "ocSummary"}
Places == Early \cup Late \cup Talk
Runs   == [at : Places \cup {"idle"}, source : Sources \cup {"none"}, version : Nat,
           prompts : Nat]

Works(w, s) == ingestor[w].at # "idle" /\ Source(w) = s

TranscriptsShaped ==
    /\ ingestor \in [Ingestors -> Runs]
    /\ transcript \in [Sources -> Nat \ {0}] /\ codexDocument \in [Archives -> Nat]
    /\ experienceRows \in [Sources -> Seq(Nat)] /\ memoryRows \in [Sources -> Seq(Nat)]
    /\ \A w \in Ingestors :
         /\ ingestor[w].at \in Early \cup Late => Source(w) \in Archives
         /\ ingestor[w].at \in Talk => Source(w) \in Conversations

(* Two processes at one transcript are noticed. *)
Noticed ==
    \A w, o \in Ingestors, s \in Sources :
      Works(w, s) /\ Works(o, s) => w = o \/ s \in contended

(* Between runs, a transcript is absent or whole, or known not to be.      *)
Whole(s) ==
    IF s \in Archives
    THEN /\ s \in sessionRows
         /\ experienceRows[s] = <<codexDocument[s]>> /\ memoryRows[s] = <<codexDocument[s]>>
    ELSE /\ s \in sessionRows
         /\ \E v \in 1 .. transcript[s] :
              experienceRows[s] = <<v>> /\ memoryRows[s] = Rows(v + 1, v)

NothingOf(s) ==
    IF s \in Archives THEN codexDocument[s] = 0
    ELSE experienceRows[s] = <<>> /\ memoryRows[s] = <<>>

Rests(s) == s \in incomplete \/ Whole(s) \/ NothingOf(s)

(* An archive has at most one row of each kind. *)
Short(s) == s \in Archives => Len(experienceRows[s]) <= 1 /\ Len(memoryRows[s]) <= 1

(* What the only process at a transcript has written so far. *)
ArchiveSoFar(at, v, s) ==
    /\ at \in Early => Rests(s)
    /\ at \in Late => codexDocument[s] = v
    /\ at \in Late \ {"session"} => s \in sessionRows
    /\ at = "newExperience" => experienceRows[s] = <<>>
    /\ at \in {"memory", "newMemory"} => experienceRows[s] = <<v>>
    /\ at = "newMemory" => memoryRows[s] = <<>>

TalkSoFar(run, s) ==
    \/ s \in incomplete
    \/ /\ run.version \in 1 .. transcript[s]
       /\ run.at = "ocLook" => Rests(s)
       /\ run.at \in {"ocSession", "ocExperience"} => NothingOf(s)
       /\ run.at \in {"ocLook", "ocSession", "ocExperience"} => run.prompts = 0
       /\ run.at \in {"ocExperience", "ocPrompt", "ocSummary"} => s \in sessionRows
       /\ run.at \in {"ocPrompt", "ocSummary"} => experienceRows[s] = <<run.version>>
       /\ run.at = "ocPrompt" => /\ run.prompts < run.version
                                /\ memoryRows[s] = Rows(run.prompts, run.version)
       /\ run.at = "ocSummary" => memoryRows[s] = Rows(run.version, run.version)

SoFar(w, s) ==
    /\ s \in Archives => ArchiveSoFar(ingestor[w].at, ingestor[w].version, s)
    /\ s \in Conversations => TalkSoFar(ingestor[w], s)

Sound(s) ==
    \/ s \in contended
    \/ /\ Short(s)
       /\ \A w \in Ingestors : Works(w, s) => SoFar(w, s)
       /\ (\A w \in Ingestors : ~Works(w, s)) => Rests(s)

TranscriptsIInv == TranscriptsShaped /\ Noticed /\ \A s \in Sources : Sound(s)

-----------------------------------------------------------------------------
LEMMA PlacesDiffer == Places \cap {"idle"} = {} /\ Early \cap Late = {} /\ Talk \cap (Early \cup Late) = {}
BY DEF Places, Early, Late, Talk

LEMMA RestingRun == Resting \in Runs /\ Resting.at = "idle"
BY DEF Resting, Runs

LEMMA TranscriptsInitIInv == TranscriptsInit => TranscriptsIInv
<1> SUFFICES ASSUME TranscriptsInit PROVE TranscriptsIInv
  OBVIOUS
<1>1. TranscriptsShaped
  <2>1. transcript \in [Sources -> Nat \ {0}] /\ codexDocument \in [Archives -> Nat]
    BY DEF TranscriptsInit
  <2> QED
    BY <2>1, RestingRun, PlacesDiffer DEF TranscriptsInit, TranscriptsShaped, Places
<1>2. \A w \in Ingestors, s \in Sources : ~Works(w, s)
  BY RestingRun DEF TranscriptsInit, Works
<1>3. \A s \in Sources : Short(s) /\ NothingOf(s)
  BY DEF TranscriptsInit, Short, NothingOf, Sources
<1> QED
  BY <1>1, <1>2, <1>3 DEF TranscriptsIInv, Noticed, Sound, Rests

(* Rows that one value replaces. *)
LEMMA Replaced ==
    ASSUME NEW rows \in Seq(Nat), NEW v \in Nat
    PROVE  /\ All(rows, v) \in Seq(Nat) /\ Len(All(rows, v)) = Len(rows)
           /\ rows # <<>> /\ Len(rows) <= 1 => All(rows, v) = <<v>>
<1>1. DOMAIN rows = 1 .. Len(rows) /\ Len(rows) \in Nat
  OBVIOUS
<1>2. /\ All(rows, v) \in Seq(Nat) /\ Len(All(rows, v)) = Len(rows)
      /\ \A i \in 1 .. Len(rows) : All(rows, v)[i] = v
  BY <1>1 DEF All
<1>3. ASSUME rows # <<>>, Len(rows) <= 1 PROVE All(rows, v) = <<v>>
  <2>1. Len(rows) = 1
    BY <1>1, <1>3
  <2>2. Len(<<v>>) = 1 /\ <<v>>[1] = v /\ <<v>> \in Seq(Nat)
    OBVIOUS
  <2> QED
    BY <1>2, <2>1, <2>2
<1> QED
  BY <1>2, <1>3

(* A process takes a step at the one transcript it is at. *)
LEMMA StepAt ==
    ASSUME TranscriptsIInv, NEW w \in Ingestors, NEW s \in Sources, Works(w, s), NEW i \in Runs,
           ingestor' = [ingestor EXCEPT ![w] = i],
           i.at # "idle" => /\ i.source = s
                            /\ i.at \in Early \cup Late => s \in Archives
                            /\ i.at \in Talk => s \in Conversations,
           transcript' = transcript, codexDocument' \in [Archives -> Nat],
           experienceRows' \in [Sources -> Seq(Nat)], memoryRows' \in [Sources -> Seq(Nat)],
           \A r \in Sources \ {s} :
             /\ r \in sessionRows' <=> r \in sessionRows
             /\ r \in incomplete' <=> r \in incomplete
             /\ experienceRows'[r] = experienceRows[r] /\ memoryRows'[r] = memoryRows[r],
           \A r \in Archives \ {s} : codexDocument'[r] = codexDocument[r],
           contended' = contended,
           s \notin contended =>
             Short(s)' /\ IF i.at = "idle" THEN Rests(s)' ELSE SoFar(w, s)'
    PROVE  TranscriptsIInv'
<1>1. ingestor'[w] = i /\ \A o \in Ingestors \ {w} : ingestor'[o] = ingestor[o]
  BY DEF TranscriptsIInv, TranscriptsShaped
<1>2. TranscriptsShaped'
  <2>1. ingestor' \in [Ingestors -> Runs]
    BY DEF TranscriptsIInv, TranscriptsShaped
  <2>2. \A o \in Ingestors : /\ ingestor'[o].at \in Early \cup Late => ingestor'[o].source \in Archives
                             /\ ingestor'[o].at \in Talk => ingestor'[o].source \in Conversations
    BY <1>1 DEF TranscriptsIInv, TranscriptsShaped, Source, Early, Late, Talk
  <2> QED
    BY <2>1, <2>2 DEF TranscriptsIInv, TranscriptsShaped, Source
<1>3. \A o \in Ingestors, r \in Sources : Works(o, r)' => Works(o, r)
  BY <1>1 DEF Works, Source
<1>4. Noticed'
  BY <1>3 DEF TranscriptsIInv, Noticed
<1>5. ASSUME NEW r \in Sources \ {s} PROVE Sound(r)'
  <2>1. \A o \in Ingestors : /\ Works(o, r)' <=> Works(o, r)
                             /\ Works(o, r) => ingestor'[o] = ingestor[o]
    BY <1>1 DEF Works, Source
  <2>2. /\ Short(r)' <=> Short(r)
        /\ Rests(r)' <=> Rests(r)
    BY DEF Short, Rests, Whole, NothingOf
  <2>3. ASSUME NEW o \in Ingestors, Works(o, r), SoFar(o, r) PROVE SoFar(o, r)'
    <3>1. ingestor'[o] = ingestor[o]
      BY <2>1, <2>3
    <3>2. r \in Archives => ArchiveSoFar(ingestor[o].at, ingestor[o].version, r)'
      BY <2>2, <2>3, <3>1 DEF SoFar, ArchiveSoFar
    <3>3. r \in Conversations => TalkSoFar(ingestor[o], r)'
      BY <2>2, <2>3, <3>1 DEF SoFar, TalkSoFar, NothingOf
    <3> QED
      BY <3>2, <3>3 DEF SoFar
  <2> QED
    BY <2>1, <2>2, <2>3 DEF TranscriptsIInv, Sound
<1>6. Sound(s)'
  <2>1. CASE s \in contended
    BY <2>1 DEF Sound
  <2>2. CASE s \notin contended
    <3>1. \A o \in Ingestors : Works(o, s)' => o = w
      BY <1>3, <2>2 DEF TranscriptsIInv, Noticed
    <3>2. Works(w, s)' <=> i.at # "idle"
      BY <1>1 DEF Works, Source
    <3> QED
      BY <2>2, <3>1, <3>2 DEF Sound
  <2> QED
    BY <2>1, <2>2
<1> QED
  BY <1>2, <1>4, <1>5, <1>6 DEF TranscriptsIInv

(* A process takes up a transcript. *)
LEMMA StepTo ==
    ASSUME TranscriptsIInv, NEW w \in Ingestors, NEW s \in Sources, Step(w, "idle"),
           NEW place \in Early \cup Talk, NEW v \in Nat, BeginWork(w, s, place, v),
           place \in Early => s \in Archives, place \in Talk => s \in Conversations,
           transcript' = transcript, UNCHANGED rowsOfAll,
           incomplete' = incomplete, v = transcript[s],
           place \in Talk => place = "ocLook"
    PROVE  TranscriptsIInv'
<1> DEFINE i == [Resting EXCEPT !.at = place, !.source = s, !.version = v]
<1>1. /\ i \in Runs /\ i.at = place /\ i.source = s /\ i.version = v /\ i.prompts = 0
      /\ place # "idle"
  BY PlacesDiffer DEF Runs, Places, Resting
<1>2. ingestor' = [ingestor EXCEPT ![w] = i]
  BY DEF BeginWork
<1> HIDE DEF i
<1>3. ingestor'[w] = i /\ \A o \in Ingestors \ {w} : ingestor'[o] = ingestor[o]
  BY <1>2 DEF TranscriptsIInv, TranscriptsShaped
<1>4. UNCHANGED <<transcript, codexDocument, sessionRows, experienceRows, memoryRows>>
  BY DEF rowsOfAll
<1>5. TranscriptsShaped'
  <2>1. ingestor' \in [Ingestors -> Runs]
    BY <1>1, <1>2 DEF TranscriptsIInv, TranscriptsShaped
  <2>2. \A o \in Ingestors : /\ ingestor'[o].at \in Early \cup Late => ingestor'[o].source \in Archives
                             /\ ingestor'[o].at \in Talk => ingestor'[o].source \in Conversations
    BY <1>1, <1>3, PlacesDiffer DEF TranscriptsIInv, TranscriptsShaped, Source
  <2> QED
    BY <1>4, <2>1, <2>2 DEF TranscriptsIInv, TranscriptsShaped, Source
<1>6. /\ contended \subseteq contended' /\ contended' \subseteq contended \cup {s}
      /\ s \notin contended' => \A o \in Ingestors \ {w} : Source(o) # s
  BY DEF BeginWork, Source
<1>7. \A o \in Ingestors, r \in Sources :
        Works(o, r)' <=> IF o = w THEN r = s ELSE Works(o, r)
  BY <1>1, <1>3 DEF Works, Source
<1>8. Noticed'
  <2> SUFFICES ASSUME NEW o \in Ingestors, NEW p \in Ingestors, NEW r \in Sources,
                      Works(o, r)', Works(p, r)', o # p
               PROVE  r \in contended'
    BY DEF Noticed
  <2>1. CASE o # w /\ p # w
    BY <1>6, <1>7, <2>1 DEF TranscriptsIInv, Noticed
  <2>2. CASE o = w \/ p = w
    BY <1>6, <1>7, <2>2 DEF Works
  <2> QED
    BY <2>1, <2>2
<1>9. ASSUME NEW r \in Sources PROVE /\ Short(r)' <=> Short(r)
                                     /\ Whole(r)' <=> Whole(r)
                                     /\ NothingOf(r)' <=> NothingOf(r)
  BY <1>4 DEF Short, Whole, NothingOf
<1>10. ASSUME NEW r \in Sources \ {s} PROVE Sound(r)'
  <2>1. \A o \in Ingestors : /\ Works(o, r)' <=> Works(o, r)
                             /\ Works(o, r) => ingestor'[o] = ingestor[o]
    BY <1>3, <1>7, Works(w, r) <=> FALSE DEF Works, Step
  <2>2. Rests(r)' <=> Rests(r)
    BY <1>9 DEF Rests
  <2>3. ASSUME NEW o \in Ingestors, Works(o, r), SoFar(o, r) PROVE SoFar(o, r)'
    BY <1>4, <1>9, <2>1, <2>2, <2>3 DEF SoFar, ArchiveSoFar, TalkSoFar
  <2> QED
    BY <1>6, <1>9, <2>1, <2>2, <2>3 DEF TranscriptsIInv, Sound
<1>11. Sound(s)'
  <2>1. CASE s \in contended'
    BY <2>1 DEF Sound
  <2>2. CASE s \notin contended'
    <3>1. \A o \in Ingestors : ~Works(o, s)
      BY <1>6, <2>2 DEF Works, Step
    <3>2. Short(s) /\ Rests(s)
      BY <1>6, <2>2, <3>1 DEF TranscriptsIInv, Sound
    <3>3. SoFar(w, s)'
      <4>1. CASE place \in Early
        <5>1. Rests(s)' /\ s \notin Conversations
          BY <1>9, <3>2, <4>1, TranscriptsAssumption DEF Rests
        <5> QED
          BY <1>1, <1>3, <4>1, <5>1, PlacesDiffer DEF SoFar, ArchiveSoFar, Early, Late
      <4>2. CASE place \in Talk
        <5>1. place = "ocLook" /\ s \in Conversations /\ s \notin Archives
          BY <4>2, TranscriptsAssumption
        <5>2. Rests(s)' /\ v \in 1 .. transcript'[s]
          BY <1>4, <1>9, <3>2 DEF Rests, TranscriptsIInv, TranscriptsShaped
        <5> QED
          BY <1>1, <1>3, <5>1, <5>2 DEF SoFar, TalkSoFar
      <4> QED
        BY <4>1, <4>2
    <3> QED
      BY <1>7, <1>9, <2>2, <3>1, <3>2, <3>3 DEF Sound
  <2> QED
    BY <2>1, <2>2
<1> QED
  BY <1>5, <1>8, <1>10, <1>11 DEF TranscriptsIInv

-----------------------------------------------------------------------------
(* The steps of an archive.                                                *)

LEMMA ScanIInv ==
    ASSUME TranscriptsIInv, NEW w \in Ingestors, NEW f \in Archives, ScanArchive(w, f)
    PROVE  TranscriptsIInv'
<1>1. /\ Step(w, "idle") /\ BeginWork(w, f, "compare", transcript[f])
      /\ UNCHANGED <<transcript, rowsOfAll, incomplete>>
  BY DEF ScanArchive
<1>2. f \in Sources /\ f \notin Conversations /\ transcript[f] \in Nat
  BY TranscriptsAssumption DEF TranscriptsIInv, TranscriptsShaped, Sources
<1>3. "compare" \in Early /\ "compare" \notin Talk
  BY DEF Early, Talk
<1> QED
  BY <1>1, <1>2, <1>3, StepTo

(* What a process at an archive knows. *)
LEMMA AtArchive ==
    ASSUME TranscriptsIInv, NEW w \in Ingestors, ingestor[w].at \in Early \cup Late
    PROVE  \E f \in Archives :
             /\ f = Source(w) /\ f \in Sources /\ f \notin Conversations /\ Works(w, f)
             /\ ingestor[w] \in Runs /\ ingestor[w].version \in Nat
             /\ f \notin contended =>
                  Short(f) /\ ArchiveSoFar(ingestor[w].at, ingestor[w].version, f)
<1>1. PICK f \in Archives : f = Source(w)
  BY DEF TranscriptsIInv, TranscriptsShaped
<1>2. f \in Sources /\ f \notin Conversations
  BY TranscriptsAssumption DEF Sources
<1>3. ingestor[w] \in Runs /\ ingestor[w].version \in Nat
  BY DEF TranscriptsIInv, TranscriptsShaped, Runs
<1>4. Works(w, f)
  BY <1>1 DEF Works, Early, Late
<1> QED
  BY <1>1, <1>2, <1>3, <1>4 DEF TranscriptsIInv, Sound, SoFar

(* The place of a process and nothing else changes. *)
LEMMA Going ==
    ASSUME NEW i \in Runs, NEW place \in Places
    PROVE  /\ [i EXCEPT !.at = place] \in Runs
           /\ [i EXCEPT !.at = place].at = place
           /\ [i EXCEPT !.at = place].source = i.source
           /\ [i EXCEPT !.at = place].version = i.version
           /\ [i EXCEPT !.at = place].prompts = i.prompts
BY DEF Runs

LEMMA Unchanged ==
    ASSUME TranscriptsIInv
    PROVE  /\ transcript \in [Sources -> Nat \ {0}] /\ codexDocument \in [Archives -> Nat]
           /\ experienceRows \in [Sources -> Seq(Nat)] /\ memoryRows \in [Sources -> Seq(Nat)]
           /\ ingestor \in [Ingestors -> Runs]
BY DEF TranscriptsIInv, TranscriptsShaped

LEMMA GoesTo ==
    ASSUME TranscriptsIInv, NEW w \in Ingestors, NEW place \in Places, Goes(w, place)
    PROVE  \E i \in Runs :
             /\ ingestor' = [ingestor EXCEPT ![w] = i] /\ ingestor'[w] = i
             /\ i.at = place /\ i.source = Source(w) /\ i.version = ingestor[w].version
<1>1. ingestor' = [ingestor EXCEPT ![w] = [ingestor[w] EXCEPT !.at = place]]
  BY Unchanged DEF Goes
<1>2. PICK i : i = [ingestor[w] EXCEPT !.at = place]
  OBVIOUS
<1>3. ingestor[w] \in Runs
  BY Unchanged
<1>4. i \in Runs /\ i.at = place /\ i.source = Source(w) /\ i.version = ingestor[w].version
  BY <1>2, <1>3, Going DEF Source
<1> QED
  BY <1>1, <1>2, <1>4, Unchanged

LEMMA CompareArchiveIInv ==
    ASSUME TranscriptsIInv, NEW w \in Ingestors, CompareArchive(w)
    PROVE  TranscriptsIInv'
<1>1. ingestor[w].at = "compare" /\ "compare" \in Early /\ {"look", "compare"} \subseteq Early
  BY DEF CompareArchive, Step, Early
<1>2. PICK f \in Archives :
        /\ f = Source(w) /\ f \in Sources /\ f \notin Conversations /\ Works(w, f)
        /\ ingestor[w] \in Runs /\ ingestor[w].version \in Nat
        /\ f \notin contended =>
             Short(f) /\ ArchiveSoFar(ingestor[w].at, ingestor[w].version, f)
  BY <1>1, AtArchive
<1>3. PICK i \in Runs :
        /\ ingestor' = [ingestor EXCEPT ![w] = i]
        /\ i.at = "idle" \/ (i.at = "look" /\ i.source = f)
  <2>1. ingestor' = [ingestor EXCEPT ![w] = IF codexDocument[Source(w)] = ingestor[w].version
                                            THEN Resting ELSE [ingestor[w] EXCEPT !.at = "look"]]
    BY DEF CompareArchive
  <2>2. "look" \in Places
    BY DEF Places, Early
  <2> QED
    BY <1>2, <2>1, <2>2, Going, RestingRun DEF Source
<1>4. UNCHANGED <<transcript, codexDocument, sessionRows, experienceRows, memoryRows, contended,
                  incomplete>>
  BY DEF CompareArchive, rowsOfAll
<1>5. f \notin contended => Short(f)' /\ Rests(f)'
  BY <1>1, <1>2, <1>4 DEF ArchiveSoFar, Short, Rests, Whole, NothingOf
<1>6. i.at = "look" => (f \notin contended => SoFar(w, f)')
  <2>1. ingestor'[w] = i
    BY <1>3, Unchanged
  <2> QED
    BY <1>2, <1>5, <2>1 DEF SoFar, ArchiveSoFar, Early, Late
<1> QED
  BY <1>2, <1>3, <1>4, <1>5, <1>6, StepAt, Unchanged DEF Early, Late, Talk

LEMMA LookIInv ==
    ASSUME TranscriptsIInv, NEW w \in Ingestors, LookForDocument(w)
    PROVE  TranscriptsIInv'
<1>1. ingestor[w].at = "look" /\ "look" \in Early
  BY DEF LookForDocument, Step, Early
<1>2. PICK f \in Archives :
        /\ f = Source(w) /\ f \in Sources /\ f \notin Conversations /\ Works(w, f)
        /\ ingestor[w] \in Runs /\ ingestor[w].version \in Nat
        /\ f \notin contended =>
             Short(f) /\ ArchiveSoFar(ingestor[w].at, ingestor[w].version, f)
  BY <1>1, AtArchive
<1>3. PICK i \in Runs :
        /\ ingestor' = [ingestor EXCEPT ![w] = i]
        /\ i.at \in {"insert", "update"} /\ i.source = f
  <2>1. PICK place \in {"insert", "update"} : Goes(w, place)
    BY DEF LookForDocument
  <2>2. place \in Places
    BY DEF Places, Early
  <2> QED
    BY <1>2, <2>1, <2>2, GoesTo
<1>4. UNCHANGED <<transcript, codexDocument, sessionRows, experienceRows, memoryRows, contended,
                  incomplete>>
  BY DEF LookForDocument, rowsOfAll
<1>5. f \notin contended => Short(f)' /\ Rests(f)'
  BY <1>1, <1>2, <1>4 DEF ArchiveSoFar, Short, Rests, Whole, NothingOf
<1>6. f \notin contended => SoFar(w, f)'
  <2>1. ingestor'[w] = i
    BY <1>3, Unchanged
  <2> QED
    BY <1>2, <1>3, <1>5, <2>1 DEF SoFar, ArchiveSoFar, Early, Late
<1> QED
  BY <1>2, <1>3, <1>4, <1>5, <1>6, StepAt, Unchanged DEF Early, Late, Talk

LEMMA WriteDocumentIInv ==
    ASSUME TranscriptsIInv, NEW w \in Ingestors, WriteDocument(w)
    PROVE  TranscriptsIInv'
<1>1. ingestor[w].at \in {"insert", "update"} /\ {"insert", "update"} \subseteq Early
  BY DEF WriteDocument, Step, Early
<1>2. PICK f \in Archives :
        /\ f = Source(w) /\ f \in Sources /\ f \notin Conversations /\ Works(w, f)
        /\ ingestor[w] \in Runs /\ ingestor[w].version \in Nat
        /\ f \notin contended =>
             Short(f) /\ ArchiveSoFar(ingestor[w].at, ingestor[w].version, f)
  BY <1>1, AtArchive
<1>3. UNCHANGED <<transcript, sessionRows, experienceRows, memoryRows, contended, incomplete>>
  BY DEF WriteDocument
<1>4. f \notin contended => Short(f)'
  BY <1>2, <1>3 DEF Short
<1>5. CASE Step(w, "insert") /\ codexDocument[Source(w)] # 0
  <2>1. codexDocument' = codexDocument /\ ingestor' = [ingestor EXCEPT ![w] = Resting]
    BY <1>5 DEF WriteDocument
  <2>2. f \notin contended => Rests(f)'
    BY <1>1, <1>2, <1>3, <2>1 DEF ArchiveSoFar, Rests, Whole, NothingOf
  <2> QED
    BY <1>2, <1>3, <1>4, <2>1, <2>2, StepAt, Unchanged, RestingRun
<1>6. CASE ~(Step(w, "insert") /\ codexDocument[Source(w)] # 0)
  <2>1. /\ codexDocument' = [codexDocument EXCEPT ![f] = ingestor[w].version]
        /\ ingestor' = [ingestor EXCEPT ![w] = [ingestor[w] EXCEPT !.at = "session"]]
    BY <1>2, <1>6, Unchanged DEF WriteDocument, Goes, AfterDocument
  <2>2. "session" \in Places /\ "session" \in Late /\ "session" \notin Early \cup Talk
    BY DEF Places, Late, Early, Talk
  <2>3. PICK i \in Runs :
          /\ ingestor' = [ingestor EXCEPT ![w] = i]
          /\ i.at = "session" /\ i.source = f /\ i.version = ingestor[w].version
    BY <1>2, <2>1, <2>2, Going DEF Source
  <2>4. /\ codexDocument' \in [Archives -> Nat] /\ codexDocument'[f] = ingestor[w].version
        /\ \A r \in Archives \ {f} : codexDocument'[r] = codexDocument[r]
    BY <1>2, <2>1, Unchanged
  <2>5. f \notin contended => SoFar(w, f)'
    <3>1. ingestor'[w] = i
      BY <2>3, Unchanged
    <3> QED
      BY <1>2, <2>2, <2>3, <2>4, <3>1 DEF SoFar, ArchiveSoFar
  <2> QED
    BY <1>2, <1>3, <1>4, <2>2, <2>3, <2>4, <2>5, StepAt, Unchanged
<1> QED
  BY <1>5, <1>6

LEMMA Inserted ==
    ASSUME NEW rows \in Seq(Nat), NEW v \in Nat
    PROVE  /\ Append(rows, v) \in Seq(Nat) /\ Len(Append(rows, v)) = Len(rows) + 1
           /\ rows = <<>> => Append(rows, v) = <<v>>
<1>1. Append(rows, v) \in Seq(Nat) /\ Len(Append(rows, v)) = Len(rows) + 1
  OBVIOUS
<1>2. Append(<<>>, v) = <<v>>
  OBVIOUS
<1> QED
  BY <1>1, <1>2

LEMMA UpsertSessionIInv ==
    ASSUME TranscriptsIInv, NEW w \in Ingestors, UpsertSession(w)
    PROVE  TranscriptsIInv'
<1>1. ingestor[w].at = "session" /\ "session" \in Late /\ "session" \notin Early
  BY DEF UpsertSession, Step, Late, Early
<1>2. PICK f \in Archives :
        /\ f = Source(w) /\ f \in Sources /\ f \notin Conversations /\ Works(w, f)
        /\ ingestor[w] \in Runs /\ ingestor[w].version \in Nat
        /\ f \notin contended =>
             Short(f) /\ ArchiveSoFar(ingestor[w].at, ingestor[w].version, f)
  BY <1>1, AtArchive
<1>3. /\ UNCHANGED <<transcript, codexDocument, experienceRows, memoryRows, contended, incomplete>>
      /\ sessionRows' = sessionRows \cup {f}
  BY <1>2 DEF UpsertSession
<1>4. "experience" \in Places /\ "experience" \in Late /\ "experience" \notin Early \cup Talk
  BY DEF Places, Late, Early, Talk
<1>5. PICK i \in Runs :
        /\ ingestor' = [ingestor EXCEPT ![w] = i] /\ ingestor'[w] = i
        /\ i.at = "experience" /\ i.source = f /\ i.version = ingestor[w].version
  BY <1>2, <1>4, GoesTo DEF UpsertSession
<1>6. f \notin contended => Short(f)' /\ SoFar(w, f)'
  BY <1>1, <1>2, <1>3, <1>4, <1>5 DEF SoFar, ArchiveSoFar, Short
<1> QED
  BY <1>2, <1>3, <1>4, <1>5, <1>6, StepAt, Unchanged

LEMMA UpdateExperienceIInv ==
    ASSUME TranscriptsIInv, NEW w \in Ingestors, UpdateExperience(w)
    PROVE  TranscriptsIInv'
<1>1. ingestor[w].at = "experience" /\ "experience" \in Late /\ "experience" \notin Early
  BY DEF UpdateExperience, Step, Late, Early
<1>2. PICK f \in Archives :
        /\ f = Source(w) /\ f \in Sources /\ f \notin Conversations /\ Works(w, f)
        /\ ingestor[w] \in Runs /\ ingestor[w].version \in Nat
        /\ f \notin contended =>
             Short(f) /\ ArchiveSoFar(ingestor[w].at, ingestor[w].version, f)
  BY <1>1, AtArchive
<1>3. UNCHANGED <<transcript, codexDocument, sessionRows, memoryRows, contended, incomplete>>
  BY DEF UpdateExperience
<1>4. /\ {"memory", "newExperience"} \subseteq Places /\ {"memory", "newExperience"} \subseteq Late
      /\ {"memory", "newExperience"} \cap (Early \cup Talk) = {}
  BY DEF Places, Late, Early, Talk
<1>5. CASE Updated(experienceRows[f])
  <2>1. /\ experienceRows' = [experienceRows EXCEPT ![f] = All(experienceRows[f], ingestor[w].version)]
        /\ Goes(w, "memory")
    BY <1>2, <1>5 DEF UpdateExperience
  <2>2. PICK i \in Runs :
          /\ ingestor' = [ingestor EXCEPT ![w] = i] /\ ingestor'[w] = i
          /\ i.at = "memory" /\ i.source = f /\ i.version = ingestor[w].version
    BY <1>2, <1>4, <2>1, GoesTo
  <2>3. /\ experienceRows' \in [Sources -> Seq(Nat)]
        /\ Len(experienceRows'[f]) = Len(experienceRows[f])
        /\ \A r \in Sources \ {f} : experienceRows'[r] = experienceRows[r]
        /\ f \notin contended => experienceRows'[f] = <<ingestor[w].version>>
    <3>1. /\ experienceRows' \in [Sources -> Seq(Nat)]
          /\ Len(experienceRows'[f]) = Len(experienceRows[f])
          /\ \A r \in Sources \ {f} : experienceRows'[r] = experienceRows[r]
          /\ experienceRows[f] # <<>> /\ Len(experienceRows[f]) <= 1 =>
               experienceRows'[f] = <<ingestor[w].version>>
      <4>1. f \in Sources /\ ingestor[w].version \in Nat /\ experienceRows \in [Sources -> Seq(Nat)]
        BY <1>2, Unchanged
      <4>2. PICK new \in Seq(Nat) :
              /\ new = All(experienceRows[f], ingestor[w].version) /\ Len(new) = Len(experienceRows[f])
              /\ experienceRows[f] # <<>> /\ Len(experienceRows[f]) <= 1 => new = <<ingestor[w].version>>
        BY <4>1, Replaced
      <4> QED
        BY <2>1, <4>1, <4>2
    <3> QED
      BY <1>2, <1>5, <3>1 DEF Updated, Short
  <2>4. f \notin contended => Short(f)' /\ SoFar(w, f)'
    BY <1>1, <1>2, <1>3, <1>4, <2>2, <2>3 DEF SoFar, ArchiveSoFar, Short
  <2> QED
    BY <1>2, <1>3, <1>4, <2>2, <2>3, <2>4, StepAt, Unchanged
<1>6. CASE ~Updated(experienceRows[f])
  <2>1. experienceRows' = experienceRows /\ Goes(w, "newExperience") /\ experienceRows[f] = <<>>
    BY <1>2, <1>6 DEF UpdateExperience, Updated
  <2>2. PICK i \in Runs :
          /\ ingestor' = [ingestor EXCEPT ![w] = i] /\ ingestor'[w] = i
          /\ i.at = "newExperience" /\ i.source = f /\ i.version = ingestor[w].version
    BY <1>2, <1>4, <2>1, GoesTo
  <2>3. f \notin contended => Short(f)' /\ SoFar(w, f)'
    BY <1>1, <1>2, <1>3, <1>4, <2>1, <2>2 DEF SoFar, ArchiveSoFar, Short
  <2> QED
    BY <1>2, <1>3, <1>4, <2>1, <2>2, <2>3, StepAt, Unchanged
<1> QED
  BY <1>5, <1>6

LEMMA InsertExperienceIInv ==
    ASSUME TranscriptsIInv, NEW w \in Ingestors, InsertExperience(w)
    PROVE  TranscriptsIInv'
<1>1. ingestor[w].at = "newExperience" /\ "newExperience" \in Late /\ "newExperience" \notin Early
  BY DEF InsertExperience, Step, Late, Early
<1>2. PICK f \in Archives :
        /\ f = Source(w) /\ f \in Sources /\ f \notin Conversations /\ Works(w, f)
        /\ ingestor[w] \in Runs /\ ingestor[w].version \in Nat
        /\ f \notin contended =>
             Short(f) /\ ArchiveSoFar(ingestor[w].at, ingestor[w].version, f)
  BY <1>1, AtArchive
<1>3. /\ UNCHANGED <<transcript, codexDocument, sessionRows, memoryRows, contended, incomplete>>
      /\ experienceRows' = [experienceRows EXCEPT ![f] = Append(experienceRows[f], ingestor[w].version)]
  BY <1>2 DEF InsertExperience, Insert
<1>4. "memory" \in Places /\ "memory" \in Late /\ "memory" \notin Early \cup Talk
  BY DEF Places, Late, Early, Talk
<1>5. PICK i \in Runs :
        /\ ingestor' = [ingestor EXCEPT ![w] = i] /\ ingestor'[w] = i
        /\ i.at = "memory" /\ i.source = f /\ i.version = ingestor[w].version
  BY <1>2, <1>4, GoesTo DEF InsertExperience
<1>6. /\ experienceRows' \in [Sources -> Seq(Nat)]
      /\ \A r \in Sources \ {f} : experienceRows'[r] = experienceRows[r]
      /\ f \notin contended => experienceRows'[f] = <<ingestor[w].version>>
  <2>1. f \in Sources /\ ingestor[w].version \in Nat /\ experienceRows \in [Sources -> Seq(Nat)]
    BY <1>2, Unchanged
  <2>2. /\ experienceRows' \in [Sources -> Seq(Nat)]
        /\ \A r \in Sources \ {f} : experienceRows'[r] = experienceRows[r]
        /\ experienceRows[f] = <<>> => experienceRows'[f] = <<ingestor[w].version>>
    <3>1. PICK new \in Seq(Nat) :
            /\ new = Append(experienceRows[f], ingestor[w].version)
            /\ experienceRows[f] = <<>> => new = <<ingestor[w].version>>
      BY <2>1, Inserted
    <3> QED
      BY <1>3, <2>1, <3>1
  <2> QED
    BY <1>1, <1>2, <2>2 DEF ArchiveSoFar
<1>7. f \notin contended => Short(f)' /\ SoFar(w, f)'
  BY <1>1, <1>2, <1>3, <1>4, <1>5, <1>6 DEF SoFar, ArchiveSoFar, Short
<1> QED
  BY <1>2, <1>3, <1>4, <1>5, <1>6, <1>7, StepAt, Unchanged

(* The last statement of a run leaves the archive whole. *)
LEMMA Finishing ==
    ASSUME TranscriptsIInv, NEW w \in Ingestors, Finish(w)
    PROVE  /\ ingestor' = [ingestor EXCEPT ![w] = Resting]
           /\ \A r \in Sources : r # Source(w) => (r \in incomplete' <=> r \in incomplete)
BY DEF Finish

LEMMA UpdateMemoryIInv ==
    ASSUME TranscriptsIInv, NEW w \in Ingestors, UpdateMemory(w)
    PROVE  TranscriptsIInv'
<1>1. ingestor[w].at = "memory" /\ "memory" \in Late /\ "memory" \notin Early
  BY DEF UpdateMemory, Step, Late, Early
<1>2. PICK f \in Archives :
        /\ f = Source(w) /\ f \in Sources /\ f \notin Conversations /\ Works(w, f)
        /\ ingestor[w] \in Runs /\ ingestor[w].version \in Nat
        /\ f \notin contended =>
             Short(f) /\ ArchiveSoFar(ingestor[w].at, ingestor[w].version, f)
  BY <1>1, AtArchive
<1>3. UNCHANGED <<transcript, codexDocument, sessionRows, experienceRows, contended>>
  BY DEF UpdateMemory
<1>4. "newMemory" \in Places /\ "newMemory" \in Late /\ "newMemory" \notin Early \cup Talk
  BY DEF Places, Late, Early, Talk
<1>5. CASE Updated(memoryRows[f])
  <2>1. /\ memoryRows' = [memoryRows EXCEPT ![f] = All(memoryRows[f], ingestor[w].version)]
        /\ Finish(w)
    BY <1>2, <1>5 DEF UpdateMemory
  <2>2. /\ memoryRows' \in [Sources -> Seq(Nat)]
        /\ Len(memoryRows'[f]) = Len(memoryRows[f])
        /\ \A r \in Sources \ {f} : memoryRows'[r] = memoryRows[r]
        /\ f \notin contended => memoryRows'[f] = <<ingestor[w].version>>
    <3>1. /\ memoryRows' \in [Sources -> Seq(Nat)]
          /\ Len(memoryRows'[f]) = Len(memoryRows[f])
          /\ \A r \in Sources \ {f} : memoryRows'[r] = memoryRows[r]
          /\ memoryRows[f] # <<>> /\ Len(memoryRows[f]) <= 1 =>
               memoryRows'[f] = <<ingestor[w].version>>
      <4>1. f \in Sources /\ ingestor[w].version \in Nat /\ memoryRows \in [Sources -> Seq(Nat)]
        BY <1>2, Unchanged
      <4>2. PICK new \in Seq(Nat) :
              /\ new = All(memoryRows[f], ingestor[w].version) /\ Len(new) = Len(memoryRows[f])
              /\ memoryRows[f] # <<>> /\ Len(memoryRows[f]) <= 1 => new = <<ingestor[w].version>>
        BY <4>1, Replaced
      <4> QED
        BY <2>1, <4>1, <4>2
    <3> QED
      BY <1>2, <1>5, <3>1 DEF Updated, Short
  <2>3. f \notin contended => Short(f)' /\ Rests(f)'
    BY <1>1, <1>2, <1>3, <2>2 DEF ArchiveSoFar, Short, Rests, Whole
  <2> QED
    BY <1>2, <1>3, <2>1, <2>2, <2>3, Finishing, RestingRun, StepAt, Unchanged
<1>6. CASE ~Updated(memoryRows[f])
  <2>1. /\ memoryRows' = memoryRows /\ incomplete' = incomplete /\ Goes(w, "newMemory")
        /\ memoryRows[f] = <<>>
    BY <1>2, <1>6 DEF UpdateMemory, Updated
  <2>2. PICK i \in Runs :
          /\ ingestor' = [ingestor EXCEPT ![w] = i] /\ ingestor'[w] = i
          /\ i.at = "newMemory" /\ i.source = f /\ i.version = ingestor[w].version
    BY <1>2, <1>4, <2>1, GoesTo
  <2>3. f \notin contended => Short(f)' /\ SoFar(w, f)'
    BY <1>1, <1>2, <1>3, <1>4, <2>1, <2>2 DEF SoFar, ArchiveSoFar, Short
  <2> QED
    BY <1>2, <1>3, <1>4, <2>1, <2>2, <2>3, StepAt, Unchanged
<1> QED
  BY <1>5, <1>6

LEMMA InsertTranscriptMemoryIInv ==
    ASSUME TranscriptsIInv, NEW w \in Ingestors, InsertTranscriptMemory(w)
    PROVE  TranscriptsIInv'
<1>1. ingestor[w].at = "newMemory" /\ "newMemory" \in Late /\ "newMemory" \notin Early
  BY DEF InsertTranscriptMemory, Step, Late, Early
<1>2. PICK f \in Archives :
        /\ f = Source(w) /\ f \in Sources /\ f \notin Conversations /\ Works(w, f)
        /\ ingestor[w] \in Runs /\ ingestor[w].version \in Nat
        /\ f \notin contended =>
             Short(f) /\ ArchiveSoFar(ingestor[w].at, ingestor[w].version, f)
  BY <1>1, AtArchive
<1>3. /\ UNCHANGED <<transcript, codexDocument, sessionRows, experienceRows, contended>>
      /\ memoryRows' = [memoryRows EXCEPT ![f] = Append(memoryRows[f], ingestor[w].version)]
      /\ Finish(w)
  BY <1>2 DEF InsertTranscriptMemory, Insert
<1>4. /\ memoryRows' \in [Sources -> Seq(Nat)]
      /\ \A r \in Sources \ {f} : memoryRows'[r] = memoryRows[r]
      /\ f \notin contended => memoryRows'[f] = <<ingestor[w].version>>
  <2>1. f \in Sources /\ ingestor[w].version \in Nat /\ memoryRows \in [Sources -> Seq(Nat)]
    BY <1>2, Unchanged
  <2>2. /\ memoryRows' \in [Sources -> Seq(Nat)]
        /\ \A r \in Sources \ {f} : memoryRows'[r] = memoryRows[r]
        /\ memoryRows[f] = <<>> => memoryRows'[f] = <<ingestor[w].version>>
    <3>1. PICK new \in Seq(Nat) :
            /\ new = Append(memoryRows[f], ingestor[w].version)
            /\ memoryRows[f] = <<>> => new = <<ingestor[w].version>>
      BY <2>1, Inserted
    <3> QED
      BY <1>3, <2>1, <3>1
  <2> QED
    BY <1>1, <1>2, <2>2 DEF ArchiveSoFar
<1>5. f \notin contended => Short(f)' /\ Rests(f)'
  BY <1>1, <1>2, <1>3, <1>4 DEF ArchiveSoFar, Short, Rests, Whole
<1> QED
  BY <1>2, <1>3, <1>4, <1>5, Finishing, RestingRun, StepAt, Unchanged

-----------------------------------------------------------------------------
(* The steps of a conversation.                                            *)

LEMMA ExtractIInv ==
    ASSUME TranscriptsIInv, NEW w \in Ingestors, NEW s \in Conversations, ExtractConversation(w, s)
    PROVE  TranscriptsIInv'
<1>1. /\ Step(w, "idle") /\ BeginWork(w, s, "ocLook", transcript[s])
      /\ UNCHANGED <<transcript, rowsOfAll, incomplete>>
  BY DEF ExtractConversation
<1>2. s \in Sources /\ s \notin Archives /\ transcript[s] \in Nat
  BY TranscriptsAssumption DEF TranscriptsIInv, TranscriptsShaped, Sources
<1>3. "ocLook" \in Talk /\ "ocLook" \notin Early
  BY DEF Early, Talk
<1> QED
  BY <1>1, <1>2, <1>3, StepTo

(* What a process at a conversation knows. *)
LEMMA AtTalk ==
    ASSUME TranscriptsIInv, NEW w \in Ingestors, ingestor[w].at \in Talk
    PROVE  \E s \in Conversations :
             /\ s = Source(w) /\ s \in Sources /\ s \notin Archives /\ Works(w, s)
             /\ ingestor[w] \in Runs
             /\ s \notin contended => TalkSoFar(ingestor[w], s)
<1>1. PICK s \in Conversations : s = Source(w)
  BY DEF TranscriptsIInv, TranscriptsShaped
<1>2. s \in Sources /\ s \notin Archives
  BY TranscriptsAssumption DEF Sources
<1>3. Works(w, s)
  BY <1>1 DEF Works, Talk
<1> QED
  BY <1>1, <1>2, <1>3 DEF TranscriptsIInv, TranscriptsShaped, Sound, SoFar

LEMMA LookForConversationIInv ==
    ASSUME TranscriptsIInv, NEW w \in Ingestors, NEW failed \in BOOLEAN,
           LookForConversation(w, failed)
    PROVE  TranscriptsIInv'
<1>1. ingestor[w].at = "ocLook" /\ ingestor[w].at \in Talk
  BY DEF LookForConversation, Step, Talk
<1>2. PICK s \in Conversations :
        /\ s = Source(w) /\ s \in Sources /\ s \notin Archives /\ Works(w, s)
        /\ ingestor[w] \in Runs
        /\ s \notin contended => TalkSoFar(ingestor[w], s)
  BY <1>1, AtTalk
<1>3. /\ UNCHANGED <<transcript, codexDocument, sessionRows, experienceRows, memoryRows, contended>>
      /\ incomplete' = IF failed THEN incomplete \cup {s} ELSE incomplete
  BY <1>2 DEF LookForConversation, rowsOfAll
<1>4. CASE AlreadyIngested(s) /\ ~failed
  <2>1. ingestor' = [ingestor EXCEPT ![w] = Resting]
    BY <1>2, <1>4 DEF LookForConversation
  <2>2. s \notin contended => Short(s)' /\ Rests(s)'
    BY <1>1, <1>2, <1>3, <1>4 DEF TalkSoFar, Short, Rests, Whole, NothingOf
  <2> QED
    BY <1>2, <1>3, <1>4, <2>1, <2>2, RestingRun, StepAt, Unchanged
<1>5. CASE ~(AlreadyIngested(s) /\ ~failed)
  <2>1. ingestor' = [ingestor EXCEPT ![w] = [ingestor[w] EXCEPT !.at = "ocSession"]]
    BY <1>2, <1>5 DEF LookForConversation, Goes
  <2>2. PICK i \in Runs : /\ i = [ingestor[w] EXCEPT !.at = "ocSession"]
                          /\ i.at = "ocSession" /\ i.source = ingestor[w].source
                          /\ i.version = ingestor[w].version /\ i.prompts = ingestor[w].prompts
    <3>1. "ocSession" \in Places
      BY DEF Places, Talk
    <3> QED
      BY <1>2, <3>1, Going
  <2>3. ingestor' = [ingestor EXCEPT ![w] = i] /\ ingestor'[w] = i
    BY <2>1, <2>2, Unchanged
  <2>4. s \notin contended => Short(s)' /\ SoFar(w, s)'
    <3> SUFFICES ASSUME s \notin contended, s \notin incomplete' PROVE TalkSoFar(i, s)'
      BY <1>2, <2>3 DEF Short, SoFar, TalkSoFar
    <3>1. ~failed /\ s \notin incomplete /\ memoryRows[s] = <<>>
      BY <1>3, <1>5 DEF AlreadyIngested
    <3>2. TalkSoFar(ingestor[w], s) /\ Rests(s) /\ i.prompts = 0 /\ i.version \in 1 .. transcript[s]
      BY <1>1, <1>2, <2>2, <3>1 DEF TalkSoFar
    <3>3. ASSUME Whole(s) PROVE FALSE
      <4>1. PICK v \in 1 .. transcript[s] : memoryRows[s] = Rows(v + 1, v)
        BY <1>2, <3>3 DEF Whole
      <4>2. Rows(v + 1, v)[1] = v /\ DOMAIN Rows(v + 1, v) = 1 .. (v + 1) /\ 1 \in 1 .. (v + 1)
        BY <1>2, Unchanged DEF Rows
      <4>3. DOMAIN <<>> = {}
        OBVIOUS
      <4> QED
        BY <3>1, <4>1, <4>2, <4>3
    <3>4. NothingOf(s)'
      BY <1>2, <1>3, <3>1, <3>2, <3>3 DEF Rests, NothingOf
    <3> QED
      BY <1>3, <2>2, <3>2, <3>4 DEF TalkSoFar
  <2>5. i.at \in Talk /\ i.at \notin Early \cup Late /\ i.source = s
    BY <1>2, <2>2 DEF Talk, Early, Late, Source
  <2>6. i.at # "idle" /\ \A r \in Sources \ {s} : r \in incomplete' <=> r \in incomplete
    BY <1>3, <2>2
  <2> QED
    BY <1>2, <1>3, <2>3, <2>4, <2>5, <2>6, StepAt, Unchanged
<1> QED
  BY <1>4, <1>5

(* One more row of a version. *)
LEMMA RowsAppend ==
    ASSUME NEW n \in Nat, NEW v \in Nat
    PROVE  /\ Rows(n, v) \in Seq(Nat) /\ Append(Rows(n, v), v) = Rows(n + 1, v)
           /\ Rows(0, v) = <<>>
<1>1. Rows(n, v) \in Seq(Nat) /\ Len(Rows(n, v)) = n
  BY DEF Rows
<1>2. /\ Append(Rows(n, v), v) \in Seq(Nat) /\ Len(Append(Rows(n, v), v)) = n + 1
      /\ \A i \in 1 .. n + 1 : Append(Rows(n, v), v)[i] = v
  BY <1>1 DEF Rows
<1>3. /\ Rows(n + 1, v) \in Seq(Nat) /\ Len(Rows(n + 1, v)) = n + 1
      /\ \A i \in 1 .. n + 1 : Rows(n + 1, v)[i] = v
  BY DEF Rows
<1>4. Rows(0, v) \in Seq(Nat) /\ Len(Rows(0, v)) = 0
  BY DEF Rows
<1> QED
  BY <1>1, <1>2, <1>3, <1>4

(* Where it goes next. *)
LEMMA NextStatement ==
    ASSUME TranscriptsIInv, NEW w \in Ingestors, Conversing(w),
           ingestor' = [ingestor EXCEPT ![w] = After(@)]
    PROVE  \E i \in Runs :
             /\ ingestor' = [ingestor EXCEPT ![w] = i] /\ ingestor'[w] = i
             /\ \/ ingestor[w].at = "ocSummary" /\ i.at = "idle"
                \/ /\ i.source = Source(w) /\ i.version = ingestor[w].version
                   /\ \/ /\ ingestor[w].at = "ocSession" /\ i.at = "ocExperience"
                         /\ i.prompts = ingestor[w].prompts
                      \/ /\ ingestor[w].at = "ocExperience" /\ i.at = "ocPrompt"
                         /\ i.prompts = ingestor[w].prompts
                      \/ /\ ingestor[w].at = "ocPrompt" /\ i.at = "ocPrompt"
                         /\ i.prompts = ingestor[w].prompts + 1 /\ i.prompts < i.version
                      \/ /\ ingestor[w].at = "ocPrompt" /\ i.at = "ocSummary"
                         /\ ~(ingestor[w].prompts + 1 < i.version)
<1>1. ingestor[w] \in Runs /\ ingestor \in [Ingestors -> Runs]
  BY Unchanged
<1>2. PICK i : i = After(ingestor[w])
  OBVIOUS
<1>3. ingestor' = [ingestor EXCEPT ![w] = i] /\ ingestor'[w] = i
  BY <1>1, <1>2
<1>4. CASE ingestor[w].at = "ocSummary"
  BY <1>2, <1>3, <1>4, RestingRun DEF After
<1>5. CASE ingestor[w].at = "ocSession"
  <2>1. i = [ingestor[w] EXCEPT !.at = "ocExperience"]
    BY <1>2, <1>5 DEF After
  <2> QED
    BY <1>1, <1>3, <1>5, <2>1 DEF Runs, Places, Talk, Source
<1>6. CASE ingestor[w].at = "ocExperience"
  <2>1. i = [ingestor[w] EXCEPT !.at = "ocPrompt"]
    BY <1>2, <1>6 DEF After
  <2> QED
    BY <1>1, <1>3, <1>6, <2>1 DEF Runs, Places, Talk, Source
<1>7. CASE ingestor[w].at = "ocPrompt"
  <2>1. CASE ingestor[w].prompts + 1 < ingestor[w].version
    <3>1. i = [ingestor[w] EXCEPT !.prompts = ingestor[w].prompts + 1]
      BY <1>2, <1>7, <2>1 DEF After
    <3>2. ingestor[w].prompts + 1 \in Nat
      BY <1>1 DEF Runs
    <3>3. /\ i \in Runs /\ i.at = ingestor[w].at /\ i.source = ingestor[w].source
          /\ i.version = ingestor[w].version /\ i.prompts = ingestor[w].prompts + 1
      BY <1>1, <3>1, <3>2 DEF Runs
    <3> QED
      BY <1>3, <1>7, <2>1, <3>3 DEF Source
  <2>2. CASE ~(ingestor[w].prompts + 1 < ingestor[w].version)
    <3>1. i = [ingestor[w] EXCEPT !.at = "ocSummary"]
      BY <1>2, <1>7, <2>2 DEF After
    <3> QED
      BY <1>1, <1>3, <1>7, <2>2, <3>1 DEF Runs, Places, Talk, Source
  <2> QED
    BY <2>1, <2>2
<1> QED
  BY <1>4, <1>5, <1>6, <1>7 DEF Conversing

LEMMA SucceedIInv == ASSUME TranscriptsIInv, NEW w \in Ingestors, Succeed(w) PROVE TranscriptsIInv'
<1> DEFINE v == ingestor[w].version
           n == ingestor[w].prompts
<1>1. PICK s \in Conversations :
        /\ s = Source(w) /\ s \in Sources /\ s \notin Archives /\ Works(w, s)
        /\ ingestor[w] \in Runs
        /\ s \notin contended => TalkSoFar(ingestor[w], s)
  BY AtTalk DEF Succeed, Conversing, Talk
<1>2. PICK i \in Runs :
        /\ ingestor' = [ingestor EXCEPT ![w] = i] /\ ingestor'[w] = i
        /\ \/ ingestor[w].at = "ocSummary" /\ i.at = "idle"
           \/ /\ i.source = Source(w) /\ i.version = ingestor[w].version
              /\ \/ /\ ingestor[w].at = "ocSession" /\ i.at = "ocExperience"
                    /\ i.prompts = ingestor[w].prompts
                 \/ /\ ingestor[w].at = "ocExperience" /\ i.at = "ocPrompt"
                    /\ i.prompts = ingestor[w].prompts
                 \/ /\ ingestor[w].at = "ocPrompt" /\ i.at = "ocPrompt"
                    /\ i.prompts = ingestor[w].prompts + 1 /\ i.prompts < i.version
                 \/ /\ ingestor[w].at = "ocPrompt" /\ i.at = "ocSummary"
                    /\ ~(ingestor[w].prompts + 1 < i.version)
  BY NextStatement DEF Succeed
<1>3. UNCHANGED <<transcript, codexDocument, contended, incomplete>>
  BY DEF Succeed
<1>4. sessionRows' = IF ingestor[w].at = "ocSession" THEN sessionRows \cup {s} ELSE sessionRows
  BY <1>1 DEF Succeed, Step
<1>5. v \in Nat /\ n \in Nat /\ experienceRows[s] \in Seq(Nat) /\ memoryRows[s] \in Seq(Nat)
  BY <1>1, Unchanged DEF Runs
<1> HIDE DEF v, n
<1>6. /\ experienceRows' \in [Sources -> Seq(Nat)]
      /\ \A r \in Sources \ {s} : experienceRows'[r] = experienceRows[r]
      /\ experienceRows'[s] = IF ingestor[w].at = "ocExperience"
                              THEN Append(experienceRows[s], v) ELSE experienceRows[s]
  <2>1. CASE ingestor[w].at = "ocExperience"
    <3>1. experienceRows' = [experienceRows EXCEPT ![Source(w)] =
                             Append(experienceRows[Source(w)], ingestor[w].version)]
      BY <2>1 DEF Succeed, Step, Insert
    <3>3. s = Source(w) /\ v = ingestor[w].version
      BY <1>1 DEF v
    <3>4. experienceRows' = [experienceRows EXCEPT ![s] = Append(experienceRows[s], v)]
      BY <3>1, <3>3
    <3>2. Append(experienceRows[s], v) \in Seq(Nat)
      BY <1>5
    <3> QED
      BY <1>1, <2>1, <3>2, <3>4, Unchanged
  <2>2. CASE ingestor[w].at # "ocExperience"
    BY <2>2, Unchanged DEF Succeed, Step
  <2> QED
    BY <2>1, <2>2
<1>7. /\ memoryRows' \in [Sources -> Seq(Nat)]
      /\ \A r \in Sources \ {s} : memoryRows'[r] = memoryRows[r]
      /\ memoryRows'[s] = IF ingestor[w].at \in {"ocPrompt", "ocSummary"}
                          THEN Append(memoryRows[s], v) ELSE memoryRows[s]
  <2>1. CASE ingestor[w].at \in {"ocPrompt", "ocSummary"}
    <3>1. memoryRows' = [memoryRows EXCEPT ![Source(w)] =
                             Append(memoryRows[Source(w)], ingestor[w].version)]
      BY <2>1 DEF Succeed, Step, Insert
    <3>3. s = Source(w) /\ v = ingestor[w].version
      BY <1>1 DEF v
    <3>4. memoryRows' = [memoryRows EXCEPT ![s] = Append(memoryRows[s], v)]
      BY <3>1, <3>3
    <3>2. Append(memoryRows[s], v) \in Seq(Nat)
      BY <1>5
    <3> QED
      BY <1>1, <2>1, <3>2, <3>4, Unchanged
  <2>2. CASE ingestor[w].at \notin {"ocPrompt", "ocSummary"}
    BY <2>2, Unchanged DEF Succeed, Step
  <2> QED
    BY <2>1, <2>2
<1>8. s \notin contended => IF i.at = "idle" THEN Rests(s)' ELSE SoFar(w, s)'
  <2> SUFFICES ASSUME s \notin contended, s \notin incomplete
               PROVE  IF i.at = "idle" THEN Whole(s)' ELSE TalkSoFar(i, s)'
    BY <1>1, <1>2, <1>3 DEF Rests, SoFar, TalkSoFar
  <2>1. /\ v \in 1 .. transcript[s]
        /\ ingestor[w].at \in {"ocSession", "ocExperience"} =>
             experienceRows[s] = <<>> /\ memoryRows[s] = <<>> /\ n = 0
        /\ ingestor[w].at \in {"ocExperience", "ocPrompt", "ocSummary"} => s \in sessionRows
        /\ ingestor[w].at \in {"ocPrompt", "ocSummary"} => experienceRows[s] = <<v>>
        /\ ingestor[w].at = "ocPrompt" => n < v /\ memoryRows[s] = Rows(n, v)
        /\ ingestor[w].at = "ocSummary" => memoryRows[s] = Rows(v, v)
    BY <1>1 DEF TalkSoFar, NothingOf, v, n
  <2>2. CASE ingestor[w].at = "ocSession"
    <3>1. /\ i.at = "ocExperience" /\ s \in sessionRows' /\ i.prompts = 0 /\ i.version = v
          /\ experienceRows'[s] = <<>> /\ memoryRows'[s] = <<>>
      BY <1>2, <1>4, <1>6, <1>7, <2>1, <2>2 DEF v, n
    <3> QED
      BY <1>1, <1>3, <2>1, <3>1 DEF TalkSoFar, NothingOf
  <2>3. CASE ingestor[w].at = "ocExperience"
    <3>1. i.at = "ocPrompt" /\ s \in sessionRows' /\ i.prompts = 0 /\ i.version = v
      BY <1>2, <1>4, <2>1, <2>3 DEF v, n
    <3>2. experienceRows'[s] = <<v>> /\ memoryRows'[s] = Rows(0, v)
      <4>1. Append(<<>>, v) = <<v>> /\ Rows(0, v) = <<>>
        BY <1>5, RowsAppend
      <4> QED
        BY <1>6, <1>7, <2>1, <2>3, <4>1
    <3> QED
      BY <1>3, <2>1, <3>1, <3>2 DEF TalkSoFar
  <2>4. CASE ingestor[w].at = "ocPrompt"
    <3>1. /\ s \in sessionRows' /\ i.version = v /\ experienceRows'[s] = <<v>>
          /\ memoryRows'[s] = Rows(n + 1, v)
      BY <1>2, <1>4, <1>5, <1>6, <1>7, <2>1, <2>4, RowsAppend DEF v
    <3>2. CASE i.at = "ocPrompt"
      <4>1. i.prompts = n + 1 /\ n + 1 < v
        BY <1>2, <2>4, <3>1, <3>2 DEF n
      <4> QED
        BY <1>3, <2>1, <3>1, <3>2, <4>1 DEF TalkSoFar
    <3>3. CASE i.at = "ocSummary"
      <4>1. n + 1 = v
        BY <1>2, <1>5, <2>1, <2>4, <3>1, <3>3 DEF n
      <4> QED
        BY <1>3, <2>1, <3>1, <3>3, <4>1 DEF TalkSoFar
    <3> QED
      BY <1>2, <2>4, <3>2, <3>3
  <2>5. CASE ingestor[w].at = "ocSummary"
    <3>1. /\ i.at = "idle" /\ s \in sessionRows' /\ experienceRows'[s] = <<v>>
          /\ memoryRows'[s] = Rows(v + 1, v) /\ v \in 1 .. transcript'[s]
      BY <1>2, <1>3, <1>4, <1>5, <1>6, <1>7, <2>1, <2>5, RowsAppend
    <3> QED
      BY <1>1, <3>1 DEF Whole
  <2> QED
    BY <2>2, <2>3, <2>4, <2>5 DEF Succeed, Conversing
<1>9. Short(s)' /\ (i.at # "idle" => i.at \in Talk /\ i.at \notin Early \cup Late)
  BY <1>1, <1>2 DEF Short, Talk, Early, Late
<1>10. codexDocument' \in [Archives -> Nat]
  BY <1>3, Unchanged
<1>11. \A r \in Sources \ {s} : r \in sessionRows' <=> r \in sessionRows
  BY <1>4
<1> QED
  BY <1>1, <1>2, <1>3, <1>6, <1>7, <1>8, <1>9, <1>10, <1>11, StepAt

LEMMA IgnoreErrorIInv ==
    ASSUME TranscriptsIInv, NEW w \in Ingestors, IgnoreError(w)
    PROVE  TranscriptsIInv'
<1>1. PICK s \in Conversations :
        /\ s = Source(w) /\ s \in Sources /\ s \notin Archives /\ Works(w, s)
        /\ ingestor[w] \in Runs
  BY AtTalk DEF IgnoreError, Conversing, Talk
<1>2. PICK i \in Runs :
        /\ ingestor' = [ingestor EXCEPT ![w] = i] /\ ingestor'[w] = i
        /\ \/ i.at = "idle"
           \/ i.source = Source(w) /\ i.at \in Talk
  BY NextStatement DEF IgnoreError, Talk
<1>3. /\ UNCHANGED <<transcript, codexDocument, sessionRows, experienceRows, memoryRows, contended>>
      /\ incomplete' = incomplete \cup {s}
  BY <1>1 DEF IgnoreError, rowsOfAll
<1>4. Rests(s)' /\ SoFar(w, s)' /\ Short(s)'
  BY <1>1, <1>3 DEF Rests, SoFar, TalkSoFar, Short
<1>5. i.at # "idle" => i.at \in Talk /\ i.at \notin Early \cup Late
  BY <1>2, PlacesDiffer
<1> QED
  BY <1>1, <1>2, <1>3, <1>4, <1>5, StepAt, Unchanged

LEMMA BreakIInv == ASSUME TranscriptsIInv, NEW w \in Ingestors, Break(w) PROVE TranscriptsIInv'
<1>1. /\ ingestor[w].at # "idle" /\ ingestor' = [ingestor EXCEPT ![w] = Resting]
      /\ UNCHANGED <<transcript, codexDocument, sessionRows, experienceRows, memoryRows, contended>>
      /\ incomplete' = IF ingestor[w].at \in NoRowYet THEN incomplete
                       ELSE incomplete \cup {Source(w)}
  BY DEF Break, Step, rowsOfAll
<1>2. PICK s \in Sources : s = Source(w)
  BY <1>1 DEF TranscriptsIInv, TranscriptsShaped, Runs, Places, Sources
<1>3. Works(w, s)
  BY <1>1, <1>2 DEF Works
<1>4. s \notin contended => Short(s)' /\ Rests(s)'
  <2> SUFFICES ASSUME s \notin contended PROVE Short(s)' /\ Rests(s)'
    OBVIOUS
  <2>1. Short(s) /\ SoFar(w, s)
    BY <1>3 DEF TranscriptsIInv, Sound
  <2>2. CASE ingestor[w].at \in Early
    <3>1. s \in Archives /\ ingestor[w].at \in NoRowYet
      BY <1>2, <2>2 DEF TranscriptsIInv, TranscriptsShaped, Early, NoRowYet
    <3> QED
      BY <1>1, <2>1, <2>2, <3>1 DEF SoFar, ArchiveSoFar, Rests, Whole, NothingOf, Short
  <2>3. CASE ingestor[w].at \in NoRowYet \ Early
    <3>1. s \in Conversations /\ s \notin Archives
      BY <1>2, <2>3, TranscriptsAssumption DEF TranscriptsIInv, TranscriptsShaped, Early, NoRowYet, Talk
    <3>2. TalkSoFar(ingestor[w], s)
      BY <2>1, <3>1 DEF SoFar
    <3>3. s \in incomplete \/ Rests(s) \/ NothingOf(s)
      BY <2>3, <3>2 DEF TalkSoFar, NoRowYet, Early
    <3> QED
      BY <1>1, <2>1, <2>3, <3>1, <3>3 DEF Rests, Whole, NothingOf, Short
  <2>4. CASE ingestor[w].at \notin NoRowYet
    BY <1>1, <1>2, <2>1, <2>4 DEF Rests, Short
  <2> QED
    BY <2>2, <2>3, <2>4
<1> QED
  BY <1>1, <1>2, <1>3, <1>4, StepAt, RestingRun, Unchanged

LEMMA GrowIInv == ASSUME TranscriptsIInv, NEW g \in Sources, Grow(g) PROVE TranscriptsIInv'
<1>1. /\ transcript' = [transcript EXCEPT ![g] = transcript[g] + 1]
      /\ UNCHANGED <<codexDocument, sessionRows, experienceRows, memoryRows, ingestor, contended,
                     incomplete>>
  BY DEF Grow, rowsOfAll
<1>2. /\ transcript' \in [Sources -> Nat \ {0}]
      /\ \A s \in Sources : 1 .. transcript[s] \subseteq 1 .. transcript'[s]
  BY <1>1, Unchanged
<1>3. TranscriptsShaped' /\ Noticed'
  BY <1>1, <1>2 DEF TranscriptsIInv, TranscriptsShaped, Noticed, Works, Source
<1>4. ASSUME NEW s \in Sources PROVE Sound(s)'
  <2>1. /\ Short(s)' <=> Short(s)
        /\ NothingOf(s)' <=> NothingOf(s)
        /\ \A w \in Ingestors : Works(w, s)' <=> Works(w, s)
    BY <1>1 DEF Short, NothingOf, Works, Source
  <2>2. Rests(s) => Rests(s)'
    BY <1>1, <1>2, <2>1 DEF Rests, Whole
  <2>3. ASSUME NEW w \in Ingestors, SoFar(w, s) PROVE SoFar(w, s)'
    <3>1. s \in Archives => ArchiveSoFar(ingestor[w].at, ingestor[w].version, s)'
      BY <1>1, <2>2, <2>3 DEF SoFar, ArchiveSoFar
    <3>2. s \in Conversations => TalkSoFar(ingestor[w], s)'
      BY <1>1, <1>2, <2>1, <2>2, <2>3 DEF SoFar, TalkSoFar
    <3> QED
      BY <1>1, <3>1, <3>2 DEF SoFar
  <2> QED
    BY <1>1, <2>1, <2>2, <2>3 DEF TranscriptsIInv, Sound
<1> QED
  BY <1>3, <1>4 DEF TranscriptsIInv

LEMMA TranscriptsNextIInv == TranscriptsIInv /\ [TranscriptsNext]_transcriptsVars => TranscriptsIInv'
<1> SUFFICES ASSUME TranscriptsIInv, [TranscriptsNext]_transcriptsVars PROVE TranscriptsIInv'
  OBVIOUS
<1>1. CASE UNCHANGED transcriptsVars
  <2>1. UNCHANGED <<transcript, codexDocument, sessionRows, experienceRows, memoryRows, ingestor,
                    contended, incomplete>>
    BY <1>1 DEF transcriptsVars
  <2> QED
    BY <2>1 DEF TranscriptsIInv, TranscriptsShaped, Noticed, Works, Source, Sound, SoFar,
       ArchiveSoFar, TalkSoFar, Short, Rests, Whole, NothingOf
<1>2. ASSUME NEW w \in Ingestors,
             \/ \E f \in Archives : ScanArchive(w, f)
             \/ CompareArchive(w) \/ LookForDocument(w) \/ WriteDocument(w) \/ UpsertSession(w)
             \/ UpdateExperience(w) \/ InsertExperience(w)
             \/ UpdateMemory(w) \/ InsertTranscriptMemory(w)
             \/ \E s \in Conversations : ExtractConversation(w, s)
             \/ \E failed \in BOOLEAN : LookForConversation(w, failed)
             \/ Succeed(w) \/ IgnoreError(w) \/ Break(w)
      PROVE  TranscriptsIInv'
  BY <1>2, ScanIInv, CompareArchiveIInv, LookIInv, WriteDocumentIInv, UpsertSessionIInv,
     UpdateExperienceIInv, InsertExperienceIInv, UpdateMemoryIInv, InsertTranscriptMemoryIInv,
     ExtractIInv, LookForConversationIInv, SucceedIInv, IgnoreErrorIInv, BreakIInv
<1> QED
  BY <1>1, <1>2, GrowIInv DEF TranscriptsNext

LEMMA TranscriptsWellformed == TranscriptsSpec => []TranscriptsIInv
<1> QED
  BY TranscriptsInitIInv, TranscriptsNextIInv, PTL DEF TranscriptsSpec

-----------------------------------------------------------------------------
(* What the property calls at work is what the invariant does, or less.    *)
LEMMA NobodyThere ==
    ASSUME NEW s \in Sources, ~AtWork(s) PROVE \A w \in Ingestors : ~Works(w, s)
BY DEF AtWork, Works

(* A Codex archive whose checksum is stored has its session, experience    *)
(* and memory, of that version, for any number of archives and processes   *)
(* and any failures (ingest_codex_sessions).                               *)
THEOREM ArchivesWhole == TranscriptsSpec => []ArchiveIsWhole
<1>1. TranscriptsIInv => ArchiveIsWhole
  <2> SUFFICES ASSUME TranscriptsIInv, NEW f \in Archives, codexDocument[f] # 0, ~AtWork(f),
                      f \notin incomplete \cup contended
               PROVE  Whole(f)
    BY DEF ArchiveIsWhole, Whole
  <2>1. f \in Sources
    BY DEF Sources
  <2> QED
    BY <2>1, NobodyThere DEF TranscriptsIInv, Sound, Rests, NothingOf
<1> QED
  BY <1>1, TranscriptsWellformed, PTL

(* However often an archive grows and runs die, a second experience or     *)
(* memory is the work of two runs at once (ingest_codex_sessions).         *)
THEOREM OneRowPerSource == TranscriptsSpec => []NoSecondRow
<1>1. TranscriptsIInv => NoSecondRow
  <2> SUFFICES ASSUME TranscriptsIInv, NEW f \in Archives, f \notin contended
               PROVE  ~(Len(experienceRows[f]) > 1 \/ Len(memoryRows[f]) > 1)
    BY DEF NoSecondRow
  <2>1. f \in Sources
    BY DEF Sources
  <2>2. Len(experienceRows[f]) \in Nat /\ Len(memoryRows[f]) \in Nat
    BY <2>1, Unchanged
  <2> QED
    BY <2>1, <2>2 DEF TranscriptsIInv, Sound, Short
<1> QED
  BY <1>1, TranscriptsWellformed, PTL

(* What is stored of an OpenCode session is all of it as it was at one     *)
(* time, once, for any number of sessions that grow while any number of    *)
(* processes ingest them, unless a statement failed, a process died or two *)
(* were at it (process_session).                                           *)
THEOREM Conversed == TranscriptsSpec => []ConversationOnce
<1>1. TranscriptsIInv => ConversationOnce
  <2> SUFFICES ASSUME TranscriptsIInv, NEW s \in Conversations, s \notin incomplete \cup contended,
                      ~AtWork(s), memoryRows[s] # <<>>
               PROVE  /\ s \in sessionRows
                      /\ \E v \in 1 .. transcript[s] :
                           experienceRows[s] = <<v>> /\ memoryRows[s] = Rows(v + 1, v)
    BY DEF ConversationOnce
  <2>1. s \in Sources /\ s \notin Archives
    BY TranscriptsAssumption DEF Sources
  <2> QED
    BY <2>1, NobodyThere DEF TranscriptsIInv, Sound, Rests, NothingOf, Whole
<1> QED
  BY <1>1, TranscriptsWellformed, PTL

-----------------------------------------------------------------------------
(* The bounds of the versions and of the rows of each kind. *)
AnyVersion == Versions \ {0}
RowLists   == {rows \in Seq(AnyVersion) : Len(rows) <= MaxRowsEach}
WorkRecords ==
    [at : Places \cup {"idle"}, source : Sources \cup {"none"}, version : Versions,
     prompts : Versions]

TranscriptsTyped ==
    /\ transcript \in [Sources -> AnyVersion] /\ codexDocument \in [Archives -> Versions]
    /\ sessionRows \subseteq Sources
    /\ experienceRows \in [Sources -> RowLists] /\ memoryRows \in [Sources -> RowLists]
    /\ ingestor \in [Ingestors -> WorkRecords]
    /\ \A w \in Ingestors :
         ingestor[w].at # "idle" => Source(w) \in Sources /\ ingestor[w].version \in AnyVersion
    /\ contended \subseteq Sources /\ incomplete \subseteq Sources
    /\ breaks \in 0 .. MaxBreaks

LEMMA VersionsTyped ==
    /\ 0 \in Versions /\ 1 \in AnyVersion /\ AnyVersion \subseteq Versions
    /\ \A v \in AnyVersion : v < MaxGrowth => v + 1 \in AnyVersion
    /\ <<>> \in RowLists /\ Resting \in WorkRecords
<1>1. 0 \in Versions /\ 1 \in AnyVersion /\ \A v \in AnyVersion : v < MaxGrowth => v + 1 \in AnyVersion
  BY TranscriptsAssumption DEF Versions, AnyVersion
<1>2. <<>> \in RowLists
  BY TranscriptsAssumption DEF RowLists
<1> QED
  BY <1>1, <1>2 DEF AnyVersion, Resting, WorkRecords

LEMMA OneMoreRow ==
    ASSUME NEW rows \in RowLists, NEW v \in AnyVersion, Len(rows) < MaxRowsEach
    PROVE  Append(rows, v) \in RowLists
<1>1. rows \in Seq(AnyVersion) /\ Len(rows) \in Nat
  BY DEF RowLists
<1>2. Append(rows, v) \in Seq(AnyVersion) /\ Len(Append(rows, v)) = Len(rows) + 1
  BY <1>1
<1> QED
  BY <1>1, <1>2, TranscriptsAssumption DEF RowLists

LEMMA AllTyped ==
    ASSUME NEW rows \in RowLists, NEW v \in AnyVersion PROVE All(rows, v) \in RowLists
<1>1. rows \in Seq(AnyVersion) /\ Len(rows) <= MaxRowsEach /\ DOMAIN rows = 1 .. Len(rows)
      /\ Len(rows) \in Nat
  BY DEF RowLists
<1>2. All(rows, v) \in Seq(AnyVersion) /\ Len(All(rows, v)) = Len(rows)
  BY <1>1 DEF All
<1> QED
  BY <1>1, <1>2 DEF RowLists

(* A process at work goes on to another statement, or rests. *)
LEMMA WorkGoesOn ==
    ASSUME TranscriptsTyped, NEW w \in Ingestors, NEW i \in WorkRecords,
           ingestor' = [ingestor EXCEPT ![w] = i],
           i.at # "idle" => i.source \in Sources /\ i.version \in AnyVersion
    PROVE  /\ ingestor' \in [Ingestors -> WorkRecords]
           /\ \A o \in Ingestors : ingestor'[o].at # "idle" =>
                Source(o)' \in Sources /\ ingestor'[o].version \in AnyVersion
BY DEF TranscriptsTyped, Source

LEMMA GoesTyped ==
    ASSUME TranscriptsTyped, NEW w \in Ingestors, ingestor[w].at # "idle", NEW place \in Places,
           ingestor' = [ingestor EXCEPT ![w] = [ingestor[w] EXCEPT !.at = place]]
    PROVE  /\ ingestor' \in [Ingestors -> WorkRecords]
           /\ \A o \in Ingestors : ingestor'[o].at # "idle" =>
                Source(o)' \in Sources /\ ingestor'[o].version \in AnyVersion
<1>1. ingestor[w] \in WorkRecords
  BY DEF TranscriptsTyped
<1>2. PICK i : i = [ingestor[w] EXCEPT !.at = place]
  OBVIOUS
<1>3. i \in WorkRecords /\ i.source = Source(w) /\ i.version = ingestor[w].version
  BY <1>1, <1>2 DEF WorkRecords, Source
<1> QED
  BY <1>2, <1>3, WorkGoesOn DEF TranscriptsTyped

LEMMA RestsTyped ==
    ASSUME TranscriptsTyped, NEW w \in Ingestors, ingestor' = [ingestor EXCEPT ![w] = Resting]
    PROVE  /\ ingestor' \in [Ingestors -> WorkRecords]
           /\ \A o \in Ingestors : ingestor'[o].at # "idle" =>
                Source(o)' \in Sources /\ ingestor'[o].version \in AnyVersion
BY VersionsTyped, RestingRun, WorkGoesOn

LEMMA BeginTyped ==
    ASSUME TranscriptsTyped, NEW w \in Ingestors, NEW s \in Sources, NEW place \in Places,
           NEW v \in AnyVersion, BeginWork(w, s, place, v)
    PROVE  /\ ingestor' \in [Ingestors -> WorkRecords]
           /\ \A o \in Ingestors : ingestor'[o].at # "idle" =>
                Source(o)' \in Sources /\ ingestor'[o].version \in AnyVersion
           /\ contended' \subseteq Sources
<1>1. PICK i : i = [Resting EXCEPT !.at = place, !.source = s, !.version = v]
  OBVIOUS
<1>2. i \in WorkRecords /\ i.source \in Sources /\ i.version \in AnyVersion
  BY <1>1, VersionsTyped DEF WorkRecords, Resting
<1>3. ingestor' = [ingestor EXCEPT ![w] = i]
  BY <1>1 DEF BeginWork
<1>4. contended' \subseteq Sources
  BY DEF BeginWork, TranscriptsTyped
<1> QED
  BY <1>2, <1>3, <1>4, WorkGoesOn

LEMMA InsertTyped ==
    ASSUME TranscriptsTyped, NEW w \in Ingestors, ingestor[w].at # "idle", NEW v \in AnyVersion
    PROVE  /\ Insert(experienceRows, Source(w), v) => experienceRows' \in [Sources -> RowLists]
           /\ Insert(memoryRows, Source(w), v) => memoryRows' \in [Sources -> RowLists]
<1>1. Source(w) \in Sources
  BY DEF TranscriptsTyped
<1>2. ASSUME Insert(experienceRows, Source(w), v) PROVE experienceRows' \in [Sources -> RowLists]
  <2>1. Append(experienceRows[Source(w)], v) \in RowLists
    BY <1>1, <1>2, OneMoreRow DEF Insert, TranscriptsTyped
  <2> QED
    BY <1>1, <1>2, <2>1 DEF Insert, TranscriptsTyped
<1>3. ASSUME Insert(memoryRows, Source(w), v) PROVE memoryRows' \in [Sources -> RowLists]
  <2>1. Append(memoryRows[Source(w)], v) \in RowLists
    BY <1>1, <1>3, OneMoreRow DEF Insert, TranscriptsTyped
  <2> QED
    BY <1>1, <1>3, <2>1 DEF Insert, TranscriptsTyped
<1> QED
  BY <1>2, <1>3

LEMMA ReplaceTyped ==
    ASSUME TranscriptsTyped, NEW w \in Ingestors, ingestor[w].at # "idle"
    PROVE  /\ [experienceRows EXCEPT ![Source(w)] =
                 All(experienceRows[Source(w)], ingestor[w].version)] \in [Sources -> RowLists]
           /\ [memoryRows EXCEPT ![Source(w)] =
                 All(memoryRows[Source(w)], ingestor[w].version)] \in [Sources -> RowLists]
<1>1. Source(w) \in Sources /\ ingestor[w].version \in AnyVersion
  BY DEF TranscriptsTyped
<1>2. /\ All(experienceRows[Source(w)], ingestor[w].version) \in RowLists
      /\ All(memoryRows[Source(w)], ingestor[w].version) \in RowLists
  BY <1>1, AllTyped DEF TranscriptsTyped
<1> QED
  BY <1>1, <1>2 DEF TranscriptsTyped

LEMMA TranscriptsInitTyped == TranscriptsInit => TranscriptsTyped
BY VersionsTyped, RestingRun, TranscriptsAssumption DEF TranscriptsInit, TranscriptsTyped

LEMMA ArchiveStepTyped ==
    ASSUME TranscriptsTyped, NEW w \in Ingestors,
           \/ \E f \in Archives : ScanArchive(w, f)
           \/ CompareArchive(w) \/ LookForDocument(w) \/ WriteDocument(w) \/ UpsertSession(w)
    PROVE  TranscriptsTyped'
<1>1. ASSUME NEW f \in Archives, ScanArchive(w, f) PROVE TranscriptsTyped'
  <2>1. f \in Sources /\ "compare" \in Places /\ transcript[f] \in AnyVersion
    BY DEF Sources, Places, Early, TranscriptsTyped
  <2>2. BeginWork(w, f, "compare", transcript[f])
        /\ UNCHANGED <<transcript, rowsOfAll, incomplete, breaks>>
    BY <1>1 DEF ScanArchive
  <2> QED
    BY <2>1, <2>2, BeginTyped DEF TranscriptsTyped, rowsOfAll
<1>2. CASE CompareArchive(w)
  <2>1. ingestor[w].at # "idle" /\ "look" \in Places
    BY <1>2 DEF CompareArchive, Step, Places, Early
  <2>2. \/ ingestor' = [ingestor EXCEPT ![w] = Resting]
        \/ ingestor' = [ingestor EXCEPT ![w] = [ingestor[w] EXCEPT !.at = "look"]]
    BY <1>2 DEF CompareArchive
  <2> QED
    BY <1>2, <2>1, <2>2, RestsTyped, GoesTyped DEF CompareArchive, TranscriptsTyped, rowsOfAll
<1>3. CASE LookForDocument(w)
  <2>1. ingestor[w].at # "idle" /\ "insert" \in Places /\ "update" \in Places
    BY <1>3 DEF LookForDocument, Step, Places, Early
  <2>2. PICK place \in Places : ingestor' = [ingestor EXCEPT ![w] = [ingestor[w] EXCEPT !.at = place]]
    BY <1>3, <2>1 DEF LookForDocument, Goes
  <2> QED
    BY <1>3, <2>1, <2>2, GoesTyped DEF LookForDocument, TranscriptsTyped, rowsOfAll
<1>4. CASE WriteDocument(w)
  <2>1. ingestor[w].at # "idle" /\ "session" \in Places
    BY <1>4 DEF WriteDocument, Step, Places, Late
  <2>2. \/ ingestor' = [ingestor EXCEPT ![w] = Resting]
        \/ ingestor' = [ingestor EXCEPT ![w] = [ingestor[w] EXCEPT !.at = "session"]]
    BY <1>4 DEF WriteDocument, Goes
  <2>3. codexDocument' \in [Archives -> Versions]
    <3>1. ingestor[w].version \in Versions
      BY DEF TranscriptsTyped, WorkRecords
    <3>2. \/ codexDocument' = codexDocument
          \/ codexDocument' = [codexDocument EXCEPT ![Source(w)] = ingestor[w].version]
      BY <1>4 DEF WriteDocument
    <3> QED
      BY <3>1, <3>2 DEF TranscriptsTyped
  <2> QED
    BY <1>4, <2>1, <2>2, <2>3, RestsTyped, GoesTyped DEF WriteDocument, TranscriptsTyped
<1>5. CASE UpsertSession(w)
  <2>1. ingestor[w].at # "idle" /\ "experience" \in Places /\ Source(w) \in Sources
    BY <1>5 DEF UpsertSession, Step, Places, Late, TranscriptsTyped
  <2>2. ingestor' = [ingestor EXCEPT ![w] = [ingestor[w] EXCEPT !.at = "experience"]]
    BY <1>5 DEF UpsertSession, Goes
  <2> QED
    BY <1>5, <2>1, <2>2, GoesTyped DEF UpsertSession, TranscriptsTyped
<1> QED
  BY <1>1, <1>2, <1>3, <1>4, <1>5

LEMMA RowStepTyped ==
    ASSUME TranscriptsTyped, NEW w \in Ingestors,
           \/ UpdateExperience(w) \/ InsertExperience(w)
           \/ UpdateMemory(w) \/ InsertTranscriptMemory(w)
    PROVE  TranscriptsTyped'
<1>1. /\ ingestor[w].at # "idle" /\ Source(w) \in Sources /\ ingestor[w].version \in AnyVersion
      /\ {"newExperience", "memory", "newMemory"} \subseteq Places
  BY DEF UpdateExperience, InsertExperience, UpdateMemory, InsertTranscriptMemory, Step, Places,
     Late, TranscriptsTyped
<1>2. CASE UpdateExperience(w)
  <2>1. PICK place \in Places : ingestor' = [ingestor EXCEPT ![w] = [ingestor[w] EXCEPT !.at = place]]
    BY <1>1, <1>2 DEF UpdateExperience, Goes
  <2>2. experienceRows' \in [Sources -> RowLists]
    <3>1. \/ experienceRows' = experienceRows
          \/ experienceRows' = [experienceRows EXCEPT ![Source(w)] =
                                  All(experienceRows[Source(w)], ingestor[w].version)]
      BY <1>2 DEF UpdateExperience
    <3> QED
      BY <1>1, <3>1, ReplaceTyped DEF TranscriptsTyped
  <2> QED
    BY <1>1, <1>2, <2>1, <2>2, GoesTyped DEF UpdateExperience, TranscriptsTyped
<1>3. CASE InsertExperience(w)
  <2>1. ingestor' = [ingestor EXCEPT ![w] = [ingestor[w] EXCEPT !.at = "memory"]]
    BY <1>3 DEF InsertExperience, Goes
  <2>2. experienceRows' \in [Sources -> RowLists]
    BY <1>1, <1>3, InsertTyped DEF InsertExperience
  <2> QED
    BY <1>1, <1>3, <2>1, <2>2, GoesTyped DEF InsertExperience, TranscriptsTyped
<1>4. CASE UpdateMemory(w)
  <2>1. \/ ingestor' = [ingestor EXCEPT ![w] = Resting]
        \/ ingestor' = [ingestor EXCEPT ![w] = [ingestor[w] EXCEPT !.at = "newMemory"]]
    BY <1>4 DEF UpdateMemory, Finish, Goes
  <2>2. memoryRows' \in [Sources -> RowLists]
    <3>1. \/ memoryRows' = memoryRows
          \/ memoryRows' = [memoryRows EXCEPT ![Source(w)] =
                              All(memoryRows[Source(w)], ingestor[w].version)]
      BY <1>4 DEF UpdateMemory
    <3> QED
      BY <1>1, <3>1, ReplaceTyped DEF TranscriptsTyped
  <2>3. incomplete' \subseteq Sources
    BY <1>4 DEF UpdateMemory, Finish, TranscriptsTyped
  <2> QED
    BY <1>1, <1>4, <2>1, <2>2, <2>3, RestsTyped, GoesTyped DEF UpdateMemory, TranscriptsTyped
<1>5. CASE InsertTranscriptMemory(w)
  <2>1. ingestor' = [ingestor EXCEPT ![w] = Resting] /\ incomplete' \subseteq Sources
    BY <1>5 DEF InsertTranscriptMemory, Finish, TranscriptsTyped
  <2>2. memoryRows' \in [Sources -> RowLists]
    BY <1>1, <1>5, InsertTyped DEF InsertTranscriptMemory
  <2> QED
    BY <1>1, <1>5, <2>1, <2>2, RestsTyped DEF InsertTranscriptMemory, TranscriptsTyped
<1> QED
  BY <1>2, <1>3, <1>4, <1>5

LEMMA AfterTyped ==
    ASSUME TranscriptsTyped, NEW w \in Ingestors, Conversing(w),
           ingestor' = [ingestor EXCEPT ![w] = After(@)]
    PROVE  /\ ingestor' \in [Ingestors -> WorkRecords]
           /\ \A o \in Ingestors : ingestor'[o].at # "idle" =>
                Source(o)' \in Sources /\ ingestor'[o].version \in AnyVersion
<1>1. ingestor[w] \in WorkRecords /\ ingestor \in [Ingestors -> WorkRecords]
      /\ ingestor[w].at # "idle"
  BY DEF TranscriptsTyped, Conversing
<1>2. PICK i : i = After(ingestor[w])
  OBVIOUS
<1>3. ingestor' = [ingestor EXCEPT ![w] = i]
  BY <1>1, <1>2
<1>4. ASSUME NEW place \in Places, i = [ingestor[w] EXCEPT !.at = place]
      PROVE  /\ ingestor' \in [Ingestors -> WorkRecords]
             /\ \A o \in Ingestors : ingestor'[o].at # "idle" =>
                  Source(o)' \in Sources /\ ingestor'[o].version \in AnyVersion
  <2>1. ingestor' = [ingestor EXCEPT ![w] = [ingestor[w] EXCEPT !.at = place]]
    BY <1>3, <1>4
  <2> QED
    BY <1>1, <2>1, GoesTyped
<1>5. CASE i = Resting
  BY <1>3, <1>5, RestsTyped
<1>6. CASE /\ ingestor[w].prompts + 1 < ingestor[w].version
           /\ i = [ingestor[w] EXCEPT !.prompts = ingestor[w].prompts + 1]
  <2>1. ingestor[w].prompts + 1 \in Versions
    BY <1>1, <1>6, TranscriptsAssumption DEF WorkRecords, Versions
  <2>2. i \in WorkRecords /\ i.source = Source(w) /\ i.version = ingestor[w].version
    BY <1>1, <1>6, <2>1 DEF WorkRecords, Source
  <2> QED
    BY <1>1, <1>3, <2>2, WorkGoesOn DEF TranscriptsTyped
<1>7. {"ocExperience", "ocPrompt", "ocSummary"} \subseteq Places
  BY DEF Places, Talk
<1>8. CASE ingestor[w].at = "ocPrompt"
  <2>1. i = IF ingestor[w].prompts + 1 < ingestor[w].version
            THEN [ingestor[w] EXCEPT !.prompts = ingestor[w].prompts + 1]
            ELSE [ingestor[w] EXCEPT !.at = "ocSummary"]
    BY <1>2, <1>8 DEF After
  <2> QED
    BY <1>4, <1>6, <1>7, <2>1
<1>9. CASE ingestor[w].at # "ocPrompt"
  <2>1. \/ i = [ingestor[w] EXCEPT !.at = "ocExperience"]
        \/ i = [ingestor[w] EXCEPT !.at = "ocPrompt"]
        \/ i = Resting
    BY <1>2, <1>9 DEF After, Conversing
  <2> QED
    BY <1>4, <1>5, <1>7, <2>1
<1> QED
  BY <1>8, <1>9

LEMMA TalkStepTyped ==
    ASSUME TranscriptsTyped, NEW w \in Ingestors, Succeed(w) \/ IgnoreError(w)
    PROVE  TranscriptsTyped'
<1>1. ingestor[w].at # "idle" /\ Source(w) \in Sources /\ ingestor[w].version \in AnyVersion
  BY DEF Succeed, IgnoreError, Conversing, TranscriptsTyped
<1>3. /\ ingestor' \in [Ingestors -> WorkRecords]
      /\ \A o \in Ingestors : ingestor'[o].at # "idle" =>
           Source(o)' \in Sources /\ ingestor'[o].version \in AnyVersion
  BY AfterTyped DEF Succeed, IgnoreError
<1>4. CASE Succeed(w)
  <2>1. sessionRows' \subseteq Sources
    BY <1>1, <1>4 DEF Succeed, TranscriptsTyped
  <2>2. experienceRows' \in [Sources -> RowLists] /\ memoryRows' \in [Sources -> RowLists]
    <3>1. /\ \/ experienceRows' = experienceRows
             \/ Insert(experienceRows, Source(w), ingestor[w].version)
          /\ memoryRows' = memoryRows \/ Insert(memoryRows, Source(w), ingestor[w].version)
      BY <1>4 DEF Succeed
    <3> QED
      BY <1>1, <3>1, InsertTyped DEF TranscriptsTyped
  <2> QED
    BY <1>3, <1>4, <2>1, <2>2 DEF Succeed, TranscriptsTyped
<1>5. CASE IgnoreError(w)
  <2>1. breaks' \in 0 .. MaxBreaks
    BY <1>5, TranscriptsAssumption DEF IgnoreError, TranscriptsTyped
  <2> QED
    BY <1>1, <1>3, <1>5, <2>1 DEF IgnoreError, TranscriptsTyped, rowsOfAll
<1> QED
  BY <1>4, <1>5

LEMMA TranscriptsNextTyped ==
    TranscriptsTyped /\ [TranscriptsNext]_transcriptsVars => TranscriptsTyped'
<1> SUFFICES ASSUME TranscriptsTyped, [TranscriptsNext]_transcriptsVars PROVE TranscriptsTyped'
  OBVIOUS
<1>1. CASE UNCHANGED transcriptsVars
  BY <1>1 DEF transcriptsVars, TranscriptsTyped, Source
<1>2. ASSUME NEW f \in Sources, Grow(f) PROVE TranscriptsTyped'
  <2>1. transcript[f] + 1 \in AnyVersion
    BY <1>2, VersionsTyped DEF Grow, TranscriptsTyped
  <2> QED
    BY <1>2, <2>1 DEF Grow, TranscriptsTyped, rowsOfAll, Source
<1>3. ASSUME NEW w \in Ingestors, NEW s \in Conversations, ExtractConversation(w, s)
      PROVE  TranscriptsTyped'
  <2>1. s \in Sources /\ "ocLook" \in Places /\ transcript[s] \in AnyVersion
    BY DEF Sources, Places, Talk, TranscriptsTyped
  <2>2. /\ BeginWork(w, s, "ocLook", transcript[s])
        /\ UNCHANGED <<transcript, rowsOfAll, incomplete, breaks>>
    BY <1>3 DEF ExtractConversation
  <2> QED
    BY <2>1, <2>2, BeginTyped DEF TranscriptsTyped, rowsOfAll
<1>5. ASSUME NEW w \in Ingestors, NEW failed \in BOOLEAN, LookForConversation(w, failed)
      PROVE  TranscriptsTyped'
  <2>1. ingestor[w].at # "idle" /\ Source(w) \in Sources /\ "ocSession" \in Places
    BY <1>5 DEF LookForConversation, Step, Places, Talk, TranscriptsTyped
  <2>2. breaks' \in 0 .. MaxBreaks /\ incomplete' \subseteq Sources
    BY <1>5, <2>1, TranscriptsAssumption DEF LookForConversation, TranscriptsTyped
  <2>3. \/ ingestor' = [ingestor EXCEPT ![w] = Resting]
        \/ ingestor' = [ingestor EXCEPT ![w] = [ingestor[w] EXCEPT !.at = "ocSession"]]
    BY <1>5 DEF LookForConversation, Goes
  <2> QED
    BY <1>5, <2>1, <2>2, <2>3, RestsTyped, GoesTyped DEF LookForConversation, TranscriptsTyped, rowsOfAll
<1>4. ASSUME NEW w \in Ingestors, Break(w) PROVE TranscriptsTyped'
  <2>1. breaks' \in 0 .. MaxBreaks
    BY <1>4, TranscriptsAssumption DEF Break, TranscriptsTyped
  <2>2. incomplete' \subseteq Sources
    BY <1>4 DEF Break, Step, TranscriptsTyped
  <2> QED
    BY <1>4, <2>1, <2>2, RestsTyped DEF Break, TranscriptsTyped, rowsOfAll
<1> QED
  BY <1>1, <1>2, <1>3, <1>4, <1>5, ArchiveStepTyped, RowStepTyped, TalkStepTyped
     DEF TranscriptsNext

(* Documents, rows and processes only ever have versions a transcript had, *)
(* and what is called contended or incomplete is a transcript.             *)
THEOREM TranscriptsTypeCorrect == TranscriptsSpec => []TranscriptsTypeOK
<1>1. TranscriptsTyped => TranscriptsTypeOK
  <2> SUFFICES ASSUME TranscriptsTyped PROVE TranscriptsTypeOK
    OBVIOUS
  <2>1. \A s \in Sources : \A rows \in {experienceRows[s], memoryRows[s]} :
          /\ Len(rows) <= MaxRowsEach
          /\ \A i \in DOMAIN rows : rows[i] \in Versions \ {0}
    <3>1. \A rows \in RowLists : /\ Len(rows) <= MaxRowsEach
                                 /\ \A i \in DOMAIN rows : rows[i] \in Versions \ {0}
      BY DEF RowLists, AnyVersion
    <3> QED
      BY <3>1 DEF TranscriptsTyped
  <2> QED
    BY <2>1, VersionsTyped DEF TranscriptsTyped, TranscriptsTypeOK, WorkRecords
<1> QED
  BY <1>1, TranscriptsInitTyped, TranscriptsNextTyped, PTL DEF TranscriptsSpec
=============================================================================
