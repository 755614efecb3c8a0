------------------------- MODULE ToolBatchProofs -------------------------
(***************************************************************************)
(* What a batch of tool calls promises, for every batch: an inductive      *)
(* invariant of ToolBatch and the four properties it carries.              *)
(***************************************************************************)
EXTENDS ToolBatch, FiniteSetTheorems, WellFoundedInduction, TLAPS

\* The calls of the waves to come.
Beyond == Past(ThisWave)

\* Its journals and its publishers were told of call i.
Heard(i) == seen[i] = {known[i]} /\ {"settled", "result"} \subseteq acked[i]

\* What earlier waves answered is certain and has been heard.
Earlier ==
  \A k \in Scheduled : k < first =>
    Heard(k) /\ known[k] \notin {"none", "indeterminate"}

\* Where a start may have been attempted.
Tried ==
  /\ \A i \in attempted : i < first \/ i \in ready
  /\ pc \in {"wave", "prepared"} => \A i \in attempted : i < first
  /\ exclusive => ready = {} /\ attempted = {}
  /\ handoff # 0 =>
       /\ handoff <= first
       /\ \A i \in attempted \cup ready : i <= handoff
       /\ pc = "wave" => handoff < first

\* The journals were told what the batch knows, and it knows what a wave said.
Story ==
  \A i \in Calls :
    /\ seen[i] \subseteq {known[i]}
    /\ known[i] = "none" => seen[i] = {} /\ acked[i] = {}
    /\ "settled" \in acked[i] => seen[i] = {known[i]}
    /\ truth[i] # "none" => i \in Scheduled /\ known[i] = truth[i]
    /\ i \in ran => known[i] \notin {"notrun", "refused"}

\* A call whose wave has not run has no outcome.
Fresh ==
  /\ pc \in {"wave", "prepared"} => \A i \in Remaining : known[i] = "none"
  /\ pc = "publish" /\ after \in {"wave", "cut"} => \A i \in Beyond : known[i] = "none"

\* What has left the queue has been heard.
Published ==
  /\ pc = "publish" /\ after \in {"wave", "cut"} =>
       \A i \in ThisWave : known[i] # "none" /\ (i \notin queue => Heard(i))
  /\ pc = "publish" /\ after = "end" =>
       \A i \in Scheduled : known[i] # "none" /\ (i \notin queue => Heard(i))
  /\ pc \in {"twins", "returned"} =>
       \A i \in Scheduled : known[i] # "none" /\ Heard(i)

\* Twins are answered when all other calls are.
TwinsLast ==
  /\ \A i \in Twins : known[i] # "none" =>
       /\ pc \in {"twins", "returned", "raised"}
       /\ pc # "raised" => Heard(i)
  /\ pc = "returned" => \A i \in Twins : known[i] # "none"

\* An interrupt leaves no attempted start open.
Closed ==
  pc = "interrupted" =>
    \A i \in attempted \ deaf : known[i] # "none" /\ seen[i] = {known[i]}

Inv ==
  /\ TypeOK /\ Earlier /\ Tried /\ Story /\ Fresh /\ Published /\ TwinsLast /\ Closed

----------------------------------------------------------------------------
(* Facts about calls and waves *)

\* A batch numbers its calls from 1.
LEMMA CallsAreNumbered ==
  ASSUME batch \in Batches
  PROVE  /\ batch \in Seq(Kinds) /\ Len(batch) \in Nat /\ Calls = 1..Len(batch)
         /\ 1 \in Calls /\ Calls \subseteq Nat
         /\ Twins \subseteq Calls /\ Scheduled \subseteq Calls
         /\ 1 \in Scheduled
<1>1. batch \in Seq(Kinds) /\ batch # <<>>
  BY BatchesAssumption
<1>2. Len(batch) \in Nat /\ Calls = 1..Len(batch) /\ Len(batch) # 0
  BY <1>1 DEF Calls
<1>3. 1 \in Calls
  BY <1>2
<1>4. batch[1] # "twin"
  BY <1>3, BatchesAssumption DEF Calls
<1> QED BY <1>1, <1>2, <1>3, <1>4 DEF Twins, Scheduled

\* A set of calls has a first one.
LEMMA FrontIsFirst ==
  ASSUME NEW S, S \subseteq Nat, S # {}
  PROVE  Front(S) \in S /\ \A k \in S : Front(S) <= k
<1>1. PICK i \in S : \A k \in S : <<k, i>> \notin OpToRel(<, Nat)
  BY WFMin, NatLessThanWellFounded
<1>2. \A k \in S : ~(k < i)
  BY <1>1, Zenon DEF OpToRel
<1>3. \A k \in S : i <= k
  BY <1>2
<1> QED BY <1>3 DEF Front

\* A wave is a stretch of the scheduled calls from its first one on.
LEMMA WaveShape ==
  ASSUME batch \in Batches, NEW i \in Scheduled
  PROVE  /\ i \in WaveAt(i) /\ WaveAt(i) \subseteq Scheduled
         /\ \A k \in WaveAt(i) : i <= k
         /\ \A k \in WaveAt(i), m \in Scheduled : i <= m /\ m <= k => m \in WaveAt(i)
<1>1. i \in Nat /\ Scheduled \subseteq Nat
  BY CallsAreNumbered
<1>2. CASE batch[i] \in {"read", "child"}
  <2>1. WaveAt(i) = {k \in Scheduled : k >= i /\ \A n \in i..k : batch[n] \in {batch[i], "twin"}}
    BY <1>2 DEF WaveAt
  <2>2. i \in WaveAt(i)
    <3>1. \A n \in i..i : n = i BY <1>1
    <3> QED BY <1>1, <2>1, <3>1
  <2>3. ASSUME NEW k \in WaveAt(i), NEW m \in Scheduled, i <= m, m <= k
        PROVE  m \in WaveAt(i)
    <3>1. k \in Nat /\ m \in Nat BY <1>1, <2>1
    <3>2. \A n \in i..m : n \in i..k BY <1>1, <2>3, <3>1
    <3> QED BY <1>1, <2>1, <2>3, <3>1, <3>2
  <2> QED BY <1>1, <2>1, <2>2, <2>3
<1>3. CASE batch[i] \notin {"read", "child"}
  <2>1. WaveAt(i) = {i}
    BY <1>3 DEF WaveAt
  <2> QED BY <1>1, <2>1
<1> QED BY <1>2, <1>3

\* What is left are the wave at hand and what lies beyond it.
LEMMA RemainingIsWaveAndBeyond ==
  ASSUME batch \in Batches, first \in Scheduled
  PROVE  /\ Remaining = ThisWave \cup Beyond /\ ThisWave \cap Beyond = {}
         /\ first \in ThisWave /\ ThisWave \subseteq Scheduled /\ Beyond \subseteq Scheduled
         /\ Remaining \subseteq Scheduled
         /\ \A k \in ThisWave : first <= k
         /\ \A k \in Beyond : first < k
         /\ \A k \in Scheduled : k < first \/ k \in ThisWave \/ k \in Beyond
         /\ first \in Nat /\ Scheduled \subseteq Nat
<1>1. Scheduled \subseteq Nat
  BY CallsAreNumbered
<1>2. /\ first \in ThisWave /\ ThisWave \subseteq Scheduled
      /\ \A k \in ThisWave : first <= k
      /\ \A k \in ThisWave, m \in Scheduled : first <= m /\ m <= k => m \in ThisWave
  BY WaveShape DEF ThisWave
<1>3. Beyond = {i \in Scheduled : \A k \in ThisWave : i > k}
  BY DEF Beyond, Past
<1>4. ASSUME NEW m \in Scheduled, first <= m, m \notin ThisWave
      PROVE  m \in Beyond
  <2>1. \A k \in ThisWave : ~(m <= k) BY <1>2, <1>4
  <2>2. \A k \in ThisWave : m > k BY <1>1, <1>2, <2>1
  <2> QED BY <1>3, <2>2
<1>5. \A k \in Beyond : first < k /\ first <= k /\ k \notin ThisWave
  BY <1>1, <1>2, <1>3
<1>6. \A k \in Scheduled : k < first \/ first <= k
  BY <1>1
<1>7. Remaining = {k \in Scheduled : first <= k}
  BY <1>1 DEF Remaining
<1>8. \A k \in Scheduled : first <= k => k \in ThisWave \/ k \in Beyond
  BY <1>4
<1>9. Remaining = ThisWave \cup Beyond
  <2>1. Remaining \subseteq ThisWave \cup Beyond BY <1>7, <1>8
  <2>2. Beyond \subseteq Scheduled BY <1>3
  <2>3. ThisWave \cup Beyond \subseteq Remaining BY <1>2, <1>5, <1>7, <2>2
  <2> QED BY <2>1, <2>3
<1> QED BY <1>1, <1>2, <1>3, <1>5, <1>6, <1>7, <1>8, <1>9

\* What lies behind a call of an earlier wave, or of this one, is earlier.
LEMMA BehindIsEarlier ==
  ASSUME batch \in Batches, first \in Scheduled, NEW i \in Scheduled, NEW k \in Scheduled,
         i < first \/ i \in ThisWave, Behind(i, k)
  PROVE  k < first
<1>1. i > k /\ ~SameWave(k, i)
  BY DEF Behind
<1>2. first \in Nat /\ i \in Nat /\ k \in Nat
  BY CallsAreNumbered
<1>3. CASE i < first
  BY <1>1, <1>2, <1>3
<1>4. CASE i \in ThisWave
  <2>1. k \notin ThisWave
    BY <1>1, <1>4 DEF SameWave, ThisWave
  <2>2. k <= i
    BY <1>1, <1>2
  <2>3. ~(first <= k)
    BY <1>4, <2>1, <2>2, WaveShape DEF ThisWave
  <2> QED BY <1>2, <2>3
<1> QED BY <1>3, <1>4

\* The next wave begins right behind this one.
LEMMA NextIsAdjacent ==
  ASSUME batch \in Batches, first \in Scheduled, Beyond # {}
  PROVE  /\ Front(Beyond) \in Beyond /\ first < Front(Beyond)
         /\ \A k \in Scheduled : k < Front(Beyond) => k < first \/ k \in ThisWave
         /\ \A k \in Scheduled : k >= Front(Beyond) => k \in Beyond
         /\ \A k \in ThisWave : k < Front(Beyond)
<1>1. Beyond \subseteq Nat /\ Scheduled \subseteq Nat
  BY RemainingIsWaveAndBeyond
<1>2. Front(Beyond) \in Beyond /\ \A k \in Beyond : Front(Beyond) <= k
  BY <1>1, FrontIsFirst
<1> DEFINE m == Front(Beyond)
<1> HIDE DEF m
<1>3. m \in Beyond /\ m \in Nat /\ \A k \in Beyond : m <= k
  BY <1>1, <1>2 DEF m
<1>4. \A k \in ThisWave : k < m
  BY <1>1, <1>3, RemainingIsWaveAndBeyond DEF Beyond, Past
<1>5. \A k \in Scheduled : k < m => k < first \/ k \in ThisWave
  BY <1>1, <1>3, RemainingIsWaveAndBeyond
<1>6. \A k \in Scheduled : k >= m => k \in Beyond
  BY <1>1, <1>3, <1>4, RemainingIsWaveAndBeyond
<1>7. first < m
  BY <1>3, RemainingIsWaveAndBeyond
<1> QED BY <1>3, <1>4, <1>5, <1>6, <1>7 DEF m

\* A twin repeats a read.
LEMMA SourceIsScheduled ==
  ASSUME batch \in Batches, NEW i \in Twins
  PROVE  Source(i) \in Scheduled
<1>1. i \in Calls /\ i \in Nat /\ batch[i] = "twin" /\ Calls = 1..Len(batch) /\ Len(batch) \in Nat
  BY CallsAreNumbered DEF Twins
<1> DEFINE R == {k \in 1..(i - 1) : batch[k] = "read"}
           D == {i - k : k \in R}
<1>2. R # {}
  BY <1>1, BatchesAssumption DEF Calls
<1>3. D \subseteq Nat /\ D # {}
  BY <1>1, <1>2
<1>4. Front(D) \in D /\ \A d \in D : Front(D) <= d
  BY <1>3, FrontIsFirst
<1>5. PICK k \in R : \A d \in D : i - k <= d
  BY <1>4
<1>6. k \in 1..(i - 1) /\ batch[k] = "read" /\ \A n \in (k + 1)..(i - 1) : batch[n] # "read"
  <2>1. ASSUME NEW n \in (k + 1)..(i - 1), batch[n] = "read" PROVE FALSE
    <3>1. n \in R BY <1>1, <2>1
    <3>2. i - k <= i - n BY <1>5, <3>1
    <3> QED BY <1>1, <3>2
  <2> QED BY <2>1
<1>7. Source(i) \in 1..(i - 1) /\ batch[Source(i)] = "read"
  BY <1>6 DEF Source
<1> QED BY <1>1, <1>7 DEF Scheduled, Twins

----------------------------------------------------------------------------
(* What every step does to the books *)

Outcomes == Status \cup {"none"}

\* No step takes an outcome, an edge or a report back, and each adds what fits.
Truthful ==
  /\ known' \in [Calls -> Outcomes] /\ truth' \in [Calls -> Outcomes]
  /\ acked' \in [Calls -> SUBSET EdgeSet] /\ seen' \in [Calls -> SUBSET Status]
  /\ \A i \in Calls :
       /\ known[i] # "none" => known'[i] = known[i]
       /\ i \in Twins => known'[i] = known[i] \/ pc = "twins"
       /\ seen[i] \subseteq seen'[i] /\ seen'[i] \subseteq seen[i] \cup {known'[i]}
       /\ acked[i] \subseteq acked'[i]
       /\ known'[i] = "none" => seen'[i] = seen[i] /\ acked'[i] = acked[i]
       /\ "settled" \in acked'[i] => "settled" \in acked[i] \/ known'[i] \in seen'[i]
       /\ truth'[i] = truth[i] \/ (i \in Scheduled /\ truth'[i] = known'[i])
       /\ i \in ran' => \/ i \in ran /\ known[i] # "none"
                        \/ known'[i] \notin {"notrun", "refused"}

LEMMA SameCalls ==
  ASSUME batch' = batch
  PROVE  /\ Calls' = Calls /\ Twins' = Twins /\ Scheduled' = Scheduled
         /\ first' = first => /\ ThisWave' = ThisWave /\ Beyond' = Beyond
                              /\ Remaining' = Remaining
BY DEF Calls, Twins, Scheduled, ThisWave, Beyond, Past, Remaining, WaveAt

LEMMA TruthfulStep ==
  ASSUME Inv, batch' = batch, Truthful
  PROVE  Story' /\ \A i \in Calls : Heard(i) => seen'[i] = {known'[i]} /\
                                    {"settled", "result"} \subseteq acked'[i]
<1>0. Calls' = Calls /\ Scheduled' = Scheduled
  BY SameCalls
<1>1. ASSUME NEW i \in Calls
      PROVE  /\ seen'[i] \subseteq {known'[i]}
             /\ known'[i] = "none" => seen'[i] = {} /\ acked'[i] = {}
             /\ "settled" \in acked'[i] => seen'[i] = {known'[i]}
             /\ truth'[i] # "none" => i \in Scheduled /\ known'[i] = truth'[i]
             /\ i \in ran' => known'[i] \notin {"notrun", "refused"}
             /\ Heard(i) => seen'[i] = {known'[i]} /\ {"settled", "result"} \subseteq acked'[i]
  <2>1. /\ seen[i] \subseteq {known[i]}
        /\ known[i] = "none" => seen[i] = {} /\ acked[i] = {}
        /\ "settled" \in acked[i] => seen[i] = {known[i]}
        /\ truth[i] # "none" => i \in Scheduled /\ known[i] = truth[i]
        /\ i \in ran => known[i] \notin {"notrun", "refused"}
    BY <1>1 DEF Inv, Story
  <2>2. /\ known[i] # "none" => known'[i] = known[i]
        /\ seen[i] \subseteq seen'[i] /\ seen'[i] \subseteq seen[i] \cup {known'[i]}
        /\ acked[i] \subseteq acked'[i]
        /\ known'[i] = "none" => seen'[i] = seen[i] /\ acked'[i] = acked[i]
        /\ "settled" \in acked'[i] => "settled" \in acked[i] \/ known'[i] \in seen'[i]
        /\ truth'[i] = truth[i] \/ (i \in Scheduled /\ truth'[i] = known'[i])
        /\ i \in ran' => \/ i \in ran /\ known[i] # "none"
                         \/ known'[i] \notin {"notrun", "refused"}
    BY <1>1 DEF Truthful
  <2>3. seen[i] \subseteq {known'[i]}
    BY <2>1, <2>2
  <2>4. seen'[i] \subseteq {known'[i]}
    BY <2>2, <2>3
  <2>5. known'[i] = "none" => known[i] = "none"
    BY <2>2
  <2>6. "settled" \in acked'[i] => seen'[i] = {known'[i]}
    BY <2>1, <2>2, <2>4
  <2>7. Heard(i) => seen'[i] = {known'[i]} /\ {"settled", "result"} \subseteq acked'[i]
    BY <2>2, <2>4, <2>6 DEF Heard
  <2> QED BY <2>1, <2>2, <2>4, <2>5, <2>6, <2>7
<1> QED BY <1>0, <1>1 DEF Story

\* What is learnt of some calls is added to what is known of the others.
LEMMA Learnt ==
  ASSUME TypeOK, NEW S \in SUBSET Calls, NEW f \in [S -> Outcomes], Learn(f)
  PROVE  /\ known' = [i \in Calls |-> IF i \in S THEN f[i] ELSE known[i]]
         /\ known' \in [Calls -> Outcomes]
BY DEF TypeOK, Learn, Over, Outcomes

LEMMA NextEdgeIsDue ==
  ASSUME NEW i, DueEdges(i) # {}
  PROVE  NextEdge(i) \in DueEdges(i)
<1>1. DueEdges(i) \subseteq {"rejected", "settled", "result"}
  BY DEF DueEdges, EdgesOf, EdgeSet
<1>2. Edges[1] = "rejected" /\ Edges[2] = "settled" /\ Edges[3] = "result"
  BY DEF Edges
<1>3. \E n \in 1..3 : Edges[n] \in DueEdges(i) /\ \A k \in 1..(n - 1) : Edges[k] \notin DueEdges(i)
  <2>1. CASE "rejected" \in DueEdges(i)
    BY <1>2, <2>1
  <2>2. CASE "rejected" \notin DueEdges(i) /\ "settled" \in DueEdges(i)
    <3>1. \A k \in 1..(2 - 1) : k = 1 OBVIOUS
    <3> QED BY <1>2, <2>2, <3>1
  <2>3. CASE "rejected" \notin DueEdges(i) /\ "settled" \notin DueEdges(i)
    <3>1. \A k \in 1..(3 - 1) : k = 1 \/ k = 2 OBVIOUS
    <3>2. "result" \in DueEdges(i) BY <1>1, <2>3
    <3> QED BY <1>2, <2>3, <3>1, <3>2
  <2> QED BY <2>1, <2>2, <2>3
<1> QED BY <1>3 DEF NextEdge

\* A wave that teaches the batch f of the calls of S.
LEMMA LearningIsTruthful ==
  ASSUME Inv, NEW S \in SUBSET Scheduled, NEW f \in [S -> Outcomes], Learn(f),
         \A i \in S : known[i] = "none",
         acked' = acked, seen' = seen, truth' \in [Calls -> Outcomes],
         \A i \in Calls : truth'[i] = truth[i] \/ (i \in S /\ truth'[i] = f[i]),
         \A i \in ran' : (i \in ran /\ i \notin S) \/ (i \in S /\ f[i] \notin {"notrun", "refused"})
  PROVE  Truthful
<1>1. TypeOK /\ S \subseteq Calls
  BY DEF Inv, Scheduled
<1>2. /\ known' = [i \in Calls |-> IF i \in S THEN f[i] ELSE known[i]]
      /\ known' \in [Calls -> Outcomes]
  BY <1>1, Learnt
<1>3. acked' \in [Calls -> SUBSET EdgeSet] /\ seen' \in [Calls -> SUBSET Status]
  BY <1>1 DEF TypeOK
<1>4. ASSUME NEW i \in Calls
      PROVE  /\ known[i] # "none" => known'[i] = known[i]
             /\ i \in Twins => known'[i] = known[i]
             /\ truth'[i] = truth[i] \/ (i \in Scheduled /\ truth'[i] = known'[i])
             /\ i \in ran' => \/ i \in ran /\ known[i] # "none"
                              \/ known'[i] \notin {"notrun", "refused"}
  <2>1. known'[i] = IF i \in S THEN f[i] ELSE known[i]
    BY <1>2, <1>4
  <2>2. i \in Twins => i \notin S
    BY DEF Scheduled
  <2> QED BY <1>4, <2>1, <2>2
<1> QED BY <1>2, <1>3, <1>4 DEF Truthful

\* What holds of the call at hand, and of a step that keeps the books.
LEMMA QuietIsTruthful ==
  ASSUME Inv, known' = known, truth' = truth, acked' = acked, seen' = seen,
         \A i \in ran' \ ran : known[i] = "none"
  PROVE  Truthful
<1>1. \A i \in Calls : i \in ran' => \/ i \in ran /\ known[i] # "none"
                                     \/ known'[i] \notin {"notrun", "refused"}
  OBVIOUS
<1>2. /\ known' \in [Calls -> Outcomes] /\ truth' \in [Calls -> Outcomes]
      /\ acked' \in [Calls -> SUBSET EdgeSet] /\ seen' \in [Calls -> SUBSET Status]
  BY DEF Inv, TypeOK, Outcomes
<1> QED BY <1>1, <1>2 DEF Truthful

LEMMA TellingIsTruthful ==
  ASSUME Inv, known' = known, truth' = truth, ran' = ran, NEW i \in Calls, NEW e \in EdgeSet,
         known[i] # "none", Told(i, e) \/ seen' = seen,
         acked' = acked \/ (Ack(i, e) /\ Told(i, e))
  PROVE  Truthful
<1>1. known[i] \in Status /\ known \in [Calls -> Outcomes] /\ truth \in [Calls -> Outcomes]
      /\ acked \in [Calls -> SUBSET EdgeSet] /\ seen \in [Calls -> SUBSET Status]
  BY DEF Inv, TypeOK, Outcomes
<1>2. seen' \in [Calls -> SUBSET Status] /\ acked' \in [Calls -> SUBSET EdgeSet]
  BY <1>1 DEF Told, Ack
<1>3. ASSUME NEW k \in Calls
      PROVE  /\ seen[k] \subseteq seen'[k] /\ seen'[k] \subseteq seen[k] \cup {known'[k]}
             /\ acked[k] \subseteq acked'[k]
             /\ known'[k] = "none" => seen'[k] = seen[k] /\ acked'[k] = acked[k]
             /\ "settled" \in acked'[k] => "settled" \in acked[k] \/ known'[k] \in seen'[k]
  <2>1. CASE k # i
    <3>1. seen'[k] = seen[k] BY <1>1, <1>3, <2>1 DEF Told
    <3>2. acked'[k] = acked[k] BY <1>1, <1>3, <2>1 DEF Ack
    <3> QED BY <3>1, <3>2
  <2>2. CASE k = i
    <3>1. seen'[i] = seen[i] \/ seen'[i] = seen[i] \cup {known[i]} BY <1>1 DEF Told
    <3>2. acked'[i] = acked[i] \/ (acked'[i] = acked[i] \cup {e} /\ Told(i, e))
      BY <1>1 DEF Ack
    <3>3. Told(i, e) /\ e = "settled" => known[i] \in seen'[i] BY <1>1 DEF Told
    <3> QED BY <2>2, <3>1, <3>2, <3>3
  <2> QED BY <2>1, <2>2
<1>4. \A k \in Calls : k \in ran => known[k] # "none" \/ known[k] \notin {"notrun", "refused"}
  OBVIOUS
<1> QED BY <1>1, <1>2, <1>3, <1>4 DEF Truthful

\* The calls of the wave at hand are open until it answers.
LEMMA ReadyIsOpen ==
  ASSUME Inv, pc \in {"wave", "prepared"}
  PROVE  /\ \A i \in Remaining : known[i] = "none" /\ i \notin attempted /\ i \notin ran
         /\ Remaining \in SUBSET Scheduled /\ ThisWave \in SUBSET Remaining
         /\ Remaining \subseteq Calls /\ ready \in SUBSET ThisWave
<1>1. batch \in Batches /\ first \in Scheduled /\ ran \subseteq attempted /\ ready \subseteq ThisWave
  BY DEF Inv, TypeOK
<1>2. Remaining = ThisWave \cup Beyond /\ Remaining \subseteq Scheduled /\ first \in Nat /\ Scheduled \subseteq Nat
  BY <1>1, RemainingIsWaveAndBeyond
<1>3. \A i \in attempted : i < first
  BY DEF Inv, Tried
<1>4. \A i \in Remaining : i >= first /\ i \in Nat
  BY <1>2 DEF Remaining
<1>5. \A i \in Remaining : i \notin attempted
  BY <1>2, <1>3, <1>4
<1>6. \A i \in Remaining : known[i] = "none"
  BY DEF Inv, Fresh
<1> QED BY <1>1, <1>2, <1>5, <1>6 DEF Scheduled

LEMMA CancelRestIsTruthful ==
  ASSUME Inv, CancelRest PROVE Truthful
<1> DEFINE f == NotRun(Remaining)
<1>1. /\ Learn(f) /\ acked' = acked /\ seen' = seen /\ truth' = truth /\ ran' = ran
      /\ pc = "wave"
  BY DEF CancelRest, Publishing, run
<1>2. f \in [Remaining -> Outcomes]
  BY DEF NotRun, Outcomes, Status
<1>3. truth' \in [Calls -> Outcomes]
  BY <1>1 DEF Inv, TypeOK, Outcomes
<1> HIDE DEF f
<1> QED BY <1>1, <1>2, <1>3, LearningIsTruthful, ReadyIsOpen

LEMMA CancelPreparedIsTruthful ==
  ASSUME Inv, CancelPrepared PROVE Truthful
<1> DEFINE f == Over(Refused, NotRun(ready))
<1>1. /\ Learn(f) /\ acked' = acked /\ seen' = seen /\ truth' = truth /\ ran' = ran
      /\ pc = "prepared"
  BY DEF CancelPrepared, Publishing, run
<1>2. ready \subseteq ThisWave /\ ThisWave \in SUBSET Scheduled
      /\ \A i \in ThisWave : known[i] = "none" /\ i \notin ran
  BY <1>1, ReadyIsOpen
<1>3. f \in [ThisWave -> Outcomes]
  BY <1>2 DEF Over, Refused, NotRun, Outcomes, Status
<1>4. truth' \in [Calls -> Outcomes]
  BY <1>1 DEF Inv, TypeOK, Outcomes
<1> HIDE DEF f
<1> QED BY <1>1, <1>2, <1>3, <1>4, LearningIsTruthful

\* Until its wave is published, what lies beyond it is open.
LEMMA CloseTailIsTruthful ==
  ASSUME Inv, CloseTail PROVE Truthful
<1> DEFINE f == NotRun(Beyond)
<1>1. /\ Learn(f) /\ acked' = acked /\ seen' = seen /\ truth' = truth /\ ran' = ran
      /\ pc = "publish" /\ after \in {"wave", "cut"}
  BY DEF CloseTail, Publishing, run, Beyond
<1>2. f \in [Beyond -> Outcomes]
  BY DEF NotRun, Outcomes, Status
<1>3. batch \in Batches /\ first \in Scheduled /\ ran \subseteq attempted
      /\ truth' \in [Calls -> Outcomes] /\ ready \subseteq ThisWave
  BY <1>1 DEF Inv, TypeOK, Outcomes
<1>4. Beyond \in SUBSET Scheduled /\ Beyond \cap ThisWave = {}
      /\ (\A i \in Beyond : first < i) /\ first \in Nat /\ Beyond \subseteq Nat
  BY <1>3, RemainingIsWaveAndBeyond
<1>5. \A i \in Beyond : known[i] = "none"
  BY <1>1 DEF Inv, Fresh
<1>6. \A i \in ran : i \notin Beyond
  <2>1. \A i \in attempted : i < first \/ i \in ready BY DEF Inv, Tried
  <2>2. \A i \in Beyond : ~(i < first) BY <1>4
  <2>3. \A i \in Beyond : i \notin ready BY <1>3, <1>4
  <2> QED BY <1>3, <2>1, <2>2, <2>3
<1> HIDE DEF f
<1> QED BY <1>1, <1>2, <1>3, <1>4, <1>5, <1>6, LearningIsTruthful

\* The wave answers: what it started, and what it says.
LEMMA RunWaveShape ==
  ASSUME Inv, RunWave
  PROVE  \E w \in Ways, f \in [ready -> Status] :
           /\ \A i \in ready : f[i] \in AnswersOf(i \in w.begun)
           /\ truth' = Over(f, truth)
           /\ ran' = ran \cup w.begun /\ attempted' = attempted \cup w.tried
           /\ w.begun \in SUBSET w.tried /\ w.tried \in SUBSET ready
           /\ Learn(Over(Refused, f))
BY DEF RunWave, Started, Ways

LEMMA RunWaveIsTruthful ==
  ASSUME Inv, RunWave PROVE Truthful
<1>1. /\ acked' = acked /\ seen' = seen /\ pc = "prepared"
  BY DEF RunWave, Publishing
<1>2. /\ ready \in SUBSET ThisWave /\ ThisWave \in SUBSET Scheduled
      /\ \A i \in ThisWave : known[i] = "none" /\ i \notin ran
  BY <1>1, ReadyIsOpen
<1>3. PICK w \in Ways, a \in [ready -> Status] :
           /\ \A i \in ready : a[i] \in AnswersOf(i \in w.begun)
           /\ truth' = Over(a, truth)
           /\ ran' = ran \cup w.begun
           /\ w.begun \in SUBSET w.tried /\ w.tried \in SUBSET ready
           /\ Learn(Over(Refused, a))
  BY RunWaveShape
<1> DEFINE f == Over(Refused, a)
<1>4. /\ f \in [ThisWave -> Outcomes]
      /\ \A i \in ready : f[i] = a[i]
  BY <1>2 DEF Over, Refused, Outcomes, Status
<1>5. truth \in [Calls -> Outcomes] /\ ready \subseteq Calls
  BY <1>2 DEF Inv, TypeOK, Outcomes, Scheduled
<1>6. truth' = [i \in Calls |-> IF i \in ready THEN a[i] ELSE truth[i]]
  BY <1>3, <1>5 DEF Over
<1>7. truth' \in [Calls -> Outcomes]
      /\ \A i \in Calls : truth'[i] = truth[i] \/ (i \in ThisWave /\ truth'[i] = f[i])
  <2>1. truth' \in [Calls -> Outcomes] BY <1>5, <1>6 DEF Outcomes
  <2>2. ASSUME NEW i \in Calls
        PROVE  truth'[i] = truth[i] \/ (i \in ThisWave /\ truth'[i] = f[i])
    BY <1>2, <1>4, <1>6, <2>2
  <2> QED BY <2>1, <2>2
<1>8. \A i \in w.begun : a[i] \notin {"notrun", "refused"}
  <2>1. ASSUME NEW i \in w.begun PROVE a[i] \notin {"notrun", "refused"}
    <3>1. i \in ready /\ a[i] \in AnswersOf(TRUE)
      BY <1>3, <2>1
    <3> QED BY <3>1 DEF AnswersOf, Wave!Ran, Status
  <2> QED BY <2>1
<1>9. \A i \in ran' : (i \in ran /\ i \notin ThisWave) \/ (i \in ThisWave /\ f[i] \notin {"notrun", "refused"})
  BY <1>2, <1>3, <1>4, <1>8
<1>10. Learn(f)
  BY <1>3
<1> HIDE DEF f
<1> QED BY <1>1, <1>2, <1>4, <1>7, <1>9, <1>10, LearningIsTruthful

LEMMA WaveRaisesShape ==
  ASSUME Inv, WaveRaises
  PROVE  \E w \in [tried : SUBSET ready, begun : SUBSET ready] :
           /\ ran' = ran \cup w.begun /\ attempted' = attempted \cup w.tried
           /\ w.begun \in SUBSET w.tried /\ w.tried \in SUBSET ready
BY DEF WaveRaises, Started

LEMMA WaveRaisesIsTruthful ==
  ASSUME Inv, WaveRaises PROVE Truthful
<1>1. /\ acked' = acked /\ seen' = seen /\ pc = "prepared" /\ known' = known /\ truth' = truth
  BY DEF WaveRaises, books
<1>2. ready \subseteq ThisWave /\ \A i \in ThisWave : known[i] = "none"
  BY <1>1, ReadyIsOpen
<1>3. \A i \in ran' \ ran : known[i] = "none"
  BY <1>2, WaveRaisesShape
<1> QED BY <1>1, <1>3, QuietIsTruthful

LEMMA WaveInterruptedShape ==
  ASSUME Inv, WaveInterrupted
  PROVE  \E w \in [tried : SUBSET ready, begun : SUBSET ready],
            f \in [ready -> {"succeeded", "indeterminate", "none"}] :
           /\ \A i \in ready : f[i] # "none" => i \in w.tried
           /\ truth' = Over(f, truth)
           /\ ran' = ran \cup w.begun /\ attempted' = attempted \cup w.tried
           /\ w.begun \in SUBSET w.tried /\ w.tried \in SUBSET ready
           /\ HandOver(f)
BY DEF WaveInterrupted, Started

LEMMA WaveInterruptedIsTruthful ==
  ASSUME Inv, WaveInterrupted PROVE Truthful
<1>1. PICK w \in [tried : SUBSET ready, begun : SUBSET ready],
           f \in [ready -> {"succeeded", "indeterminate", "none"}] :
           /\ truth' = Over(f, truth) /\ ran' = ran \cup w.begun
           /\ w.begun \in SUBSET w.tried /\ w.tried \in SUBSET ready
           /\ HandOver(f)
  BY WaveInterruptedShape
<1>2. /\ acked' = acked /\ seen' = seen /\ pc = "prepared" /\ Learn(f)
  BY <1>1 DEF WaveInterrupted, HandOver, Publishing
<1>3. /\ ready \in SUBSET Scheduled
      /\ \A i \in ready : known[i] = "none" /\ i \notin ran
  BY <1>2, ReadyIsOpen
<1>4. f \in [ready -> Outcomes]
  BY DEF Outcomes, Status
<1>5. truth \in [Calls -> Outcomes] /\ ready \subseteq Calls
  BY <1>3 DEF Inv, TypeOK, Outcomes, Scheduled
<1>6. truth' = [i \in Calls |-> IF i \in ready THEN f[i] ELSE truth[i]]
  BY <1>1, <1>4, <1>5 DEF Over
<1>7. truth' \in [Calls -> Outcomes]
      /\ \A i \in Calls : truth'[i] = truth[i] \/ (i \in ready /\ truth'[i] = f[i])
  BY <1>4, <1>5, <1>6
<1>8. \A i \in ran' : (i \in ran /\ i \notin ready) \/ (i \in ready /\ f[i] \notin {"notrun", "refused"})
  BY <1>1, <1>3
<1> QED BY <1>2, <1>3, <1>4, <1>7, <1>8, LearningIsTruthful

\* The call in front of the queue has an outcome.
LEMMA FrontOfQueue ==
  ASSUME Inv, queue # {}
  PROVE  Front(queue) \in queue /\ Front(queue) \in Calls /\ known[Front(queue)] # "none"
<1>1. batch \in Batches /\ queue \subseteq Scheduled /\ \A i \in queue : known[i] # "none"
  BY DEF Inv, TypeOK
<1>2. Scheduled \subseteq Nat /\ Scheduled \subseteq Calls
  BY <1>1, CallsAreNumbered
<1> QED BY <1>1, <1>2, FrontIsFirst

LEMMA PublishingIsTruthful ==
  ASSUME Inv, PublishEdge \/ PublishRaises \/ PublishInterrupted
  PROVE  Truthful
<1> DEFINE i == Front(queue)
           e == NextEdge(i)
<1>1. queue # {} /\ known' = known /\ truth' = truth /\ ran' = ran
  BY DEF PublishEdge, PublishRaises, PublishInterrupted, run
<1>2. i \in Calls /\ known[i] # "none"
  BY <1>1, FrontOfQueue
<1>3. DueEdges(i) # {} => e \in EdgeSet
  BY NextEdgeIsDue DEF DueEdges, EdgesOf, EdgeSet
<1>4. \/ seen' = seen /\ acked' = acked
      \/ DueEdges(i) # {} /\ Told(i, e) /\ (acked' = acked \/ Ack(i, e))
  BY DEF PublishEdge, PublishRaises, PublishInterrupted
<1> HIDE DEF e, i
<1>5. CASE seen' = seen /\ acked' = acked
  BY <1>1, <1>5, QuietIsTruthful
<1>6. CASE DueEdges(i) # {} /\ Told(i, e) /\ (acked' = acked \/ Ack(i, e))
  BY <1>1, <1>2, <1>3, <1>6, TellingIsTruthful
<1> QED BY <1>4, <1>5, <1>6

\* Every call has its outcome and its result published.
LEMMA EdgesOfStatus ==
  ASSUME NEW s PROVE EdgesOf(s) \in SUBSET EdgeSet /\ {"settled", "result"} \subseteq EdgesOf(s)
BY DEF EdgesOf, EdgeSet

LEMMA AnswerTwinShape ==
  ASSUME Inv, AnswerTwin
  PROVE  \E i \in Twins :
           /\ known[i] = "none" /\ known' = [known EXCEPT ![i] = known[Source(i)]]
           /\ known[Source(i)] \in Status /\ pc = "twins" /\ i \in Calls
           /\ \/ /\ seen' = [seen EXCEPT ![i] = @ \cup {known'[i]}]
                 /\ acked' = [acked EXCEPT ![i] = EdgesOf(known'[i])]
                 /\ pc' = pc
              \/ /\ seen' = [seen EXCEPT ![i] = @ \cup {known'[i]}] \/ seen' = seen
                 /\ pc' = "raised" /\ acked' = acked
<1>1. PICK i \in Twins :
           /\ known[i] = "none" /\ known' = [known EXCEPT ![i] = known[Source(i)]]
           /\ \/ /\ seen' = [seen EXCEPT ![i] = @ \cup {known'[i]}]
                 /\ acked' = [acked EXCEPT ![i] = EdgesOf(known'[i])]
                 /\ pc' = pc
              \/ /\ seen' = [seen EXCEPT ![i] = @ \cup {known'[i]}] \/ seen' = seen
                 /\ pc' = "raised" /\ acked' = acked
  BY DEF AnswerTwin
<1>2. pc = "twins" /\ batch \in Batches /\ known \in [Calls -> Outcomes]
  BY DEF AnswerTwin, Inv, TypeOK, Outcomes
<1>3. Source(i) \in Scheduled /\ Source(i) \in Calls
  BY <1>2, SourceIsScheduled DEF Scheduled
<1>4. known[Source(i)] # "none"
  BY <1>2, <1>3 DEF Inv, Published
<1> QED BY <1>1, <1>2, <1>3, <1>4 DEF Outcomes, Twins

LEMMA AnswerTwinIsTruthful ==
  ASSUME Inv, AnswerTwin PROVE Truthful
<1>1. PICK i \in Twins :
           /\ known[i] = "none" /\ known' = [known EXCEPT ![i] = known[Source(i)]]
           /\ known[Source(i)] \in Status /\ i \in Calls
           /\ \/ /\ seen' = [seen EXCEPT ![i] = @ \cup {known'[i]}]
                 /\ acked' = [acked EXCEPT ![i] = EdgesOf(known'[i])]
              \/ /\ seen' = [seen EXCEPT ![i] = @ \cup {known'[i]}] \/ seen' = seen
                 /\ acked' = acked
  BY AnswerTwinShape
<1>2. /\ known \in [Calls -> Outcomes] /\ truth' \in [Calls -> Outcomes] /\ truth' = truth
      /\ acked \in [Calls -> SUBSET EdgeSet] /\ seen \in [Calls -> SUBSET Status]
      /\ ran' = ran /\ i \notin ran /\ pc = "twins"
  BY DEF AnswerTwin, run, Inv, TypeOK, Outcomes, Scheduled
<1>3. known' \in [Calls -> Outcomes] /\ known'[i] \in Status /\ known'[i] # "none"
  BY <1>1, <1>2 DEF Outcomes, Status
<1>4. seen' \in [Calls -> SUBSET Status] /\ acked' \in [Calls -> SUBSET EdgeSet]
  BY <1>1, <1>2, <1>3, EdgesOfStatus
<1>5. acked[i] = {}
  BY <1>1 DEF Inv, Story
<1>6. ASSUME NEW k \in Calls
      PROVE  /\ known[k] # "none" => known'[k] = known[k]
             /\ seen[k] \subseteq seen'[k] /\ seen'[k] \subseteq seen[k] \cup {known'[k]}
             /\ acked[k] \subseteq acked'[k]
             /\ known'[k] = "none" => seen'[k] = seen[k] /\ acked'[k] = acked[k]
             /\ "settled" \in acked'[k] => "settled" \in acked[k] \/ known'[k] \in seen'[k]
             /\ k \in ran' => \/ k \in ran /\ known[k] # "none"
                              \/ known'[k] \notin {"notrun", "refused"}
  <2>1. CASE k # i
    <3>1. known'[k] = known[k] /\ seen'[k] = seen[k] /\ acked'[k] = acked[k]
      BY <1>1, <1>2, <1>6, <2>1
    <3> QED BY <1>2, <3>1
  <2>2. CASE k = i
    <3>1. \/ seen'[i] = seen[i] \cup {known'[i]} /\ (acked'[i] = EdgesOf(known'[i]) \/ acked'[i] = acked[i])
          \/ seen'[i] = seen[i] /\ acked'[i] = acked[i]
      BY <1>1, <1>2
    <3> QED BY <1>1, <1>2, <1>3, <1>5, <2>2, <3>1
  <2> QED BY <2>1, <2>2
<1> QED BY <1>2, <1>3, <1>4, <1>6 DEF Truthful

LEMMA RecoverIsTruthful ==
  ASSUME Inv, Recover PROVE Truthful
<1>1. /\ known \in [Calls -> Outcomes] /\ truth' \in [Calls -> Outcomes] /\ truth' = truth
      /\ acked \in [Calls -> SUBSET EdgeSet] /\ seen \in [Calls -> SUBSET Status]
      /\ ran' = ran /\ acked' = acked /\ attempted \subseteq Scheduled
  BY DEF Recover, run, Inv, TypeOK, Outcomes
<1>2. known' = [i \in Calls |-> IF known[i] = "none" /\ i \in attempted THEN "indeterminate"
                               ELSE known[i]]
  BY DEF Recover
<1>3. seen' = [i \in Calls |->
                IF known'[i] # "none" /\ "settled" \notin acked[i] /\ i \notin deaf'
                THEN seen[i] \cup {known'[i]} ELSE seen[i]]
  BY DEF Recover
<1>4. known' \in [Calls -> Outcomes]
  BY <1>1, <1>2 DEF Outcomes, Status
<1>5. seen' \in [Calls -> SUBSET Status]
  BY <1>1, <1>3, <1>4 DEF Outcomes
<1>6. ASSUME NEW k \in Calls
      PROVE  /\ known[k] # "none" => known'[k] = known[k]
             /\ k \in Twins => known'[k] = known[k]
             /\ seen[k] \subseteq seen'[k] /\ seen'[k] \subseteq seen[k] \cup {known'[k]}
             /\ known'[k] = "none" => seen'[k] = seen[k]
             /\ k \in ran' => \/ k \in ran /\ known[k] # "none"
                              \/ known'[k] \notin {"notrun", "refused"}
  <2>1. /\ known'[k] = known[k] \/ (known[k] = "none" /\ known'[k] = "indeterminate")
        /\ k \in Twins => known'[k] = known[k]
    BY <1>1, <1>2, <1>6 DEF Scheduled
  <2>2. seen'[k] = seen[k] \/ (known'[k] # "none" /\ seen'[k] = seen[k] \cup {known'[k]})
    BY <1>3, <1>6
  <2> QED BY <1>1, <2>1, <2>2
<1> QED BY <1>1, <1>4, <1>5, <1>6 DEF Truthful

LEMMA EveryStepIsTruthful ==
  ASSUME Inv, Next PROVE Truthful /\ batch' = batch /\ exclusive' = exclusive
<1>1. CASE CancelRest \/ CancelPrepared \/ CloseTail
  BY <1>1, CancelRestIsTruthful, CancelPreparedIsTruthful, CloseTailIsTruthful
     DEF CancelRest, CancelPrepared, CloseTail, Same
<1>2. CASE RunWave \/ WaveRaises \/ WaveInterrupted
  BY <1>2, RunWaveIsTruthful, WaveRaisesIsTruthful, WaveInterruptedIsTruthful
     DEF RunWave, WaveRaises, WaveInterrupted, Same
<1>3. CASE PublishEdge \/ PublishRaises \/ PublishInterrupted
  BY <1>3, PublishingIsTruthful DEF PublishEdge, PublishRaises, PublishInterrupted, Same
<1>4. CASE AnswerTwin \/ Recover
  BY <1>4, AnswerTwinIsTruthful, RecoverIsTruthful DEF AnswerTwin, Recover, Same
<1>5. CASE Prepare \/ PublishNext \/ NextWave \/ AllPublished \/ HandedOver \/ Return
             \/ Interrupted \/ CancelTurn
  <2>1. /\ known' = known /\ truth' = truth /\ acked' = acked /\ seen' = seen /\ ran' = ran
        /\ batch' = batch /\ exclusive' = exclusive
    BY <1>5 DEF Prepare, PublishNext, NextWave, AllPublished, HandedOver, Return, Interrupted,
                CancelTurn, Same, run, books
  <2> QED BY <2>1, QuietIsTruthful
<1> QED BY <1>1, <1>2, <1>3, <1>4, <1>5 DEF Next

----------------------------------------------------------------------------
(* Where a step leads, and what it starts *)

\* Only preparing and moving on change the place in the batch.
LEMMA Places ==
  ASSUME Next, ~Prepare, ~NextWave
  PROVE  /\ first' = first /\ ready' = ready /\ handoff' = handoff
         /\ pc' \in {"wave", "prepared"} => pc' = pc /\ UNCHANGED <<known, attempted>>
<1>1. CASE CancelRest \/ CancelPrepared \/ CloseTail \/ WaveInterrupted
  BY <1>1 DEF CancelRest, CancelPrepared, CloseTail, WaveInterrupted, HandOver, Publishing, run
<1>2. CASE RunWave \/ WaveRaises
  BY <1>2 DEF RunWave, WaveRaises, Publishing
<1>3. CASE PublishEdge \/ PublishNext \/ PublishRaises \/ PublishInterrupted
  BY <1>3 DEF PublishEdge, PublishNext, PublishRaises, PublishInterrupted, run
<1>4. CASE AllPublished \/ HandedOver \/ Return \/ Interrupted \/ CancelTurn \/ AnswerTwin \/ Recover
  BY <1>4 DEF AllPublished, HandedOver, Return, Interrupted, CancelTurn, AnswerTwin, Recover, run
<1> QED BY <1>1, <1>2, <1>3, <1>4 DEF Next

\* Only the calls that were admitted are started, and then the wave is over.
LEMMA Starts ==
  ASSUME Inv, Next
  PROVE  \/ ran' = ran /\ attempted' = attempted
         \/ /\ pc = "prepared" /\ pc' \in {"publish", "raised"}
            /\ first' = first /\ ready' = ready /\ handoff' = handoff
            /\ \E T \in SUBSET ready, B \in SUBSET ready :
                 B \subseteq T /\ ran' = ran \cup B /\ attempted' = attempted \cup T
<1>1. CASE RunWave
  <2>1. pc = "prepared" /\ pc' = "publish" /\ first' = first /\ ready' = ready /\ handoff' = handoff
    BY <1>1 DEF RunWave, Publishing
  <2>2. PICK w \in Ways :
           /\ ran' = ran \cup w.begun /\ attempted' = attempted \cup w.tried
           /\ w.begun \in SUBSET w.tried /\ w.tried \in SUBSET ready
    BY <1>1, RunWaveShape
  <2> QED BY <2>1, <2>2
<1>2. CASE WaveRaises
  <2>1. pc = "prepared" /\ pc' = "raised" /\ first' = first /\ ready' = ready /\ handoff' = handoff
    BY <1>2 DEF WaveRaises
  <2>2. PICK w \in [tried : SUBSET ready, begun : SUBSET ready] :
           /\ ran' = ran \cup w.begun /\ attempted' = attempted \cup w.tried
           /\ w.begun \in SUBSET w.tried /\ w.tried \in SUBSET ready
    BY <1>2, WaveRaisesShape
  <2> QED BY <2>1, <2>2
<1>3. CASE WaveInterrupted
  <2>1. PICK w \in [tried : SUBSET ready, begun : SUBSET ready],
             f \in [ready -> {"succeeded", "indeterminate", "none"}] :
           /\ ran' = ran \cup w.begun /\ attempted' = attempted \cup w.tried
           /\ w.begun \in SUBSET w.tried /\ w.tried \in SUBSET ready
           /\ HandOver(f)
    BY <1>3, WaveInterruptedShape
  <2>2. pc = "prepared" /\ pc' = "publish" /\ first' = first /\ ready' = ready /\ handoff' = handoff
    BY <1>3, <2>1 DEF WaveInterrupted, HandOver, Publishing
  <2> QED BY <2>1, <2>2
<1>4. CASE ~RunWave /\ ~WaveRaises /\ ~WaveInterrupted
  <2>1. CASE CancelRest \/ Prepare \/ CancelPrepared \/ CloseTail \/ NextWave
    BY <2>1 DEF CancelRest, Prepare, CancelPrepared, CloseTail, NextWave, run
  <2>2. CASE PublishEdge \/ PublishNext \/ PublishRaises \/ PublishInterrupted
    BY <2>2 DEF PublishEdge, PublishNext, PublishRaises, PublishInterrupted, run
  <2>3. CASE AllPublished \/ HandedOver \/ Return \/ Interrupted \/ CancelTurn \/ AnswerTwin \/ Recover
    BY <2>3 DEF AllPublished, HandedOver, Return, Interrupted, CancelTurn, AnswerTwin, Recover, run
  <2> QED BY <1>4, <2>1, <2>2, <2>3 DEF Next
<1> QED BY <1>1, <1>2, <1>3, <1>4

LEMMA PrepareShape ==
  ASSUME Inv, Prepare
  PROVE  /\ first' = first /\ attempted' = attempted /\ known' = known
         /\ pc = "wave" /\ pc' = "prepared"
         /\ ready' \in SUBSET ThisWave
         /\ exclusive \/ handoff # 0 => ready' = {}
         /\ \/ handoff' = handoff
            \/ handoff' = first /\ ready' \subseteq {first}
<1>1. PICK S \in SUBSET ThisWave :
         /\ exclusive \/ (handoff # 0 /\ first > handoff) => S = {}
         /\ ready' = S
         /\ handoff' = IF S # {} /\ batch[first] = "handoff" THEN first ELSE handoff
  BY DEF Prepare
<1>2. first' = first /\ attempted' = attempted /\ known' = known /\ pc = "wave" /\ pc' = "prepared"
  BY DEF Prepare
<1>3. handoff # 0 => first > handoff
  <2>1. batch \in Batches /\ first \in Scheduled /\ handoff \in 0..Len(batch) BY DEF Inv, TypeOK
  <2>2. first \in Nat /\ handoff \in Nat BY <2>1, CallsAreNumbered
  <2> QED BY <1>2, <2>2 DEF Inv, Tried
<1>4. batch[first] = "handoff" => ThisWave = {first}
  BY DEF ThisWave, WaveAt
<1> QED BY <1>1, <1>2, <1>3, <1>4

LEMMA NextWaveShape ==
  ASSUME Inv, NextWave
  PROVE  /\ Beyond # {} /\ first' = Front(Beyond) /\ ready' = {} /\ handoff' = handoff
         /\ attempted' = attempted /\ known' = known /\ acked' = acked /\ seen' = seen
         /\ queue' = queue /\ after' = after /\ deaf' = deaf
         /\ pc = "publish" /\ after = "wave" /\ queue = {} /\ pc' = "wave"
         /\ \A i \in ThisWave : known[i] # "indeterminate"
BY DEF NextWave, Beyond, Unresolved, books

LEMMA TriedStep ==
  ASSUME Inv, Next PROVE Tried'
<1>1. /\ batch \in Batches /\ first \in Scheduled /\ ready \subseteq ThisWave
      /\ attempted \subseteq Scheduled /\ handoff \in 0..Len(batch)
  BY DEF Inv, TypeOK
<1>2. first \in Nat /\ Scheduled \subseteq Nat /\ handoff \in Nat /\ ThisWave \subseteq Scheduled
      /\ (\A k \in ThisWave : k >= first)
  BY <1>1, RemainingIsWaveAndBeyond, CallsAreNumbered
<1>3. exclusive' = exclusive
  BY EveryStepIsTruthful
<1>4. Tried
  BY DEF Inv
<1>5. CASE Prepare
  <2>1. \A i \in attempted : i < first
    BY <1>4, <1>5, PrepareShape DEF Tried
  <2>2. handoff' # 0 => /\ handoff' <= first'
                        /\ \A i \in attempted' \cup ready' : i <= handoff'
    <3>1. CASE handoff' = first /\ ready' \subseteq {first}
      <4>1. \A i \in attempted : i <= first
        BY <1>1, <1>2, <2>1
      <4>2. \A i \in attempted' \cup ready' : i <= first
        BY <1>2, <1>5, <3>1, <4>1, PrepareShape
      <4> QED BY <1>2, <1>5, <3>1, <4>2, PrepareShape
    <3>2. CASE handoff' = handoff /\ handoff # 0
      <4>1. ready' = {} BY <1>5, <3>2, PrepareShape
      <4> QED BY <1>4, <1>5, <3>2, <4>1, PrepareShape DEF Tried
    <3> QED BY <1>5, <3>1, <3>2, PrepareShape
  <2>3. exclusive' => ready' = {} /\ attempted' = {}
    BY <1>3, <1>4, <1>5, PrepareShape DEF Tried
  <2> QED BY <1>5, <2>1, <2>2, <2>3, PrepareShape DEF Tried
<1>6. CASE NextWave
  <2>1. /\ Beyond # {} /\ first' = Front(Beyond) /\ ready' = {} /\ handoff' = handoff
        /\ attempted' = attempted /\ pc' = "wave"
    BY <1>6, NextWaveShape
  <2>2. /\ first < first' /\ (\A k \in ThisWave : k < first') /\ first' \in Nat
    <3>1. Front(Beyond) \in Beyond /\ first < Front(Beyond) /\ \A k \in ThisWave : k < Front(Beyond)
      BY <1>1, <2>1, NextIsAdjacent
    <3>2. Beyond \subseteq Nat
      BY <1>1, RemainingIsWaveAndBeyond
    <3> QED BY <2>1, <3>1, <3>2
  <2>3. \A i \in attempted : i < first'
    <3> SUFFICES ASSUME NEW i \in attempted PROVE i < first'
      OBVIOUS
    <3>1. i \in Nat /\ (i < first \/ i \in ready) BY <1>1, <1>2, <1>4 DEF Tried
    <3> QED BY <1>1, <1>2, <2>2, <3>1
  <2>4. handoff' # 0 => handoff' < first' /\ handoff' <= first'
    BY <1>2, <1>4, <2>1, <2>2 DEF Tried
  <2> QED BY <1>3, <1>4, <2>1, <2>3, <2>4 DEF Tried
<1>7. CASE ~Prepare /\ ~NextWave
  <2>1. /\ first' = first /\ ready' = ready /\ handoff' = handoff
        /\ pc' \in {"wave", "prepared"} => pc' = pc /\ attempted' = attempted
    BY <1>7, Places
  <2>2. PICK T \in SUBSET ready : attempted' = attempted \cup T
    <3>1. attempted = attempted \cup {} OBVIOUS
    <3> QED BY <3>1, Starts
  <2>3. pc' = "wave" => pc = "wave"
    BY <2>1
  <2> QED BY <1>3, <1>4, <2>1, <2>2, <2>3 DEF Tried
<1> QED BY <1>5, <1>6, <1>7

\* What a step learns it queues, and it queues only what has an outcome.
LEMMA LearntIsQueued ==
  ASSUME Inv, Next
  PROVE  /\ \A i \in queue' : known'[i] # "none"
         /\ pc' = "publish" => \A i \in Calls : known'[i] = known[i] \/ i \in queue'
<1>1. /\ TypeOK /\ batch \in Batches /\ first \in Scheduled /\ ready \subseteq ThisWave
      /\ queue \subseteq Scheduled /\ \A i \in queue : known[i] # "none"
  BY DEF Inv, TypeOK
<1>2. /\ ThisWave \in SUBSET Calls /\ Beyond \in SUBSET Calls /\ Remaining \in SUBSET Calls
      /\ Scheduled \subseteq Calls /\ ready \in SUBSET Calls
  BY <1>1, CallsAreNumbered, RemainingIsWaveAndBeyond
<1>3. ASSUME NEW S \in SUBSET Calls, NEW f \in [S -> Outcomes], Learn(f),
             queue' = {i \in S : f[i] # "none"}, \A i \in S : known[i] = "none"
      PROVE  /\ \A i \in queue' : known'[i] # "none"
             /\ \A i \in Calls : known'[i] = known[i] \/ i \in queue'
  <2>1. known' = [i \in Calls |-> IF i \in S THEN f[i] ELSE known[i]]
    BY <1>1, <1>3, Learnt
  <2> QED BY <1>3, <2>1
<1>4. CASE CancelRest
  <2> DEFINE f == NotRun(Remaining)
  <2>1. Learn(f) /\ queue' = Remaining /\ pc = "wave" BY <1>4 DEF CancelRest, Publishing
  <2>2. f \in [Remaining -> Outcomes] /\ \A i \in Remaining : f[i] # "none"
    BY DEF NotRun, Outcomes, Status
  <2>3. \A i \in Remaining : known[i] = "none" BY <2>1, ReadyIsOpen
  <2> HIDE DEF f
  <2>4. queue' = {i \in Remaining : f[i] # "none"} BY <2>1, <2>2
  <2> QED BY <1>2, <1>3, <2>1, <2>2, <2>3, <2>4
<1>5. CASE CancelPrepared
  <2> DEFINE f == Over(Refused, NotRun(ready))
  <2>1. Learn(f) /\ queue' = ThisWave /\ pc = "prepared" BY <1>5 DEF CancelPrepared, Publishing
  <2>2. f \in [ThisWave -> Outcomes] /\ \A i \in ThisWave : f[i] # "none"
    BY <1>1 DEF Over, Refused, NotRun, Outcomes, Status
  <2>3. \A i \in ThisWave : known[i] = "none" BY <2>1, ReadyIsOpen
  <2> HIDE DEF f
  <2>4. queue' = {i \in ThisWave : f[i] # "none"} BY <2>1, <2>2
  <2> QED BY <1>2, <1>3, <2>1, <2>2, <2>3, <2>4
<1>6. CASE CloseTail
  <2> DEFINE f == NotRun(Beyond)
  <2>1. Learn(f) /\ queue' = Beyond /\ pc = "publish" /\ after \in {"wave", "cut"}
    BY <1>6 DEF CloseTail, Publishing, Beyond
  <2>2. f \in [Beyond -> Outcomes] /\ \A i \in Beyond : f[i] # "none"
    BY DEF NotRun, Outcomes, Status
  <2>3. \A i \in Beyond : known[i] = "none" BY <2>1 DEF Inv, Fresh
  <2> HIDE DEF f
  <2>4. queue' = {i \in Beyond : f[i] # "none"} BY <2>1, <2>2
  <2> QED BY <1>2, <1>3, <2>1, <2>2, <2>3, <2>4
<1>7. CASE RunWave
  <2>1. PICK a \in [ready -> Status] : Learn(Over(Refused, a))
    BY <1>7, RunWaveShape
  <2> DEFINE f == Over(Refused, a)
  <2>2. f \in [ThisWave -> Outcomes] /\ \A i \in ThisWave : f[i] # "none"
    BY <1>1 DEF Over, Refused, Outcomes, Status
  <2>3. Learn(f) /\ queue' = ThisWave /\ pc = "prepared" BY <1>7, <2>1 DEF RunWave, Publishing
  <2>4. \A i \in ThisWave : known[i] = "none" BY <2>3, ReadyIsOpen
  <2> HIDE DEF f
  <2>5. queue' = {i \in ThisWave : f[i] # "none"} BY <2>2, <2>3
  <2> QED BY <1>2, <1>3, <2>2, <2>3, <2>4, <2>5
<1>8. CASE WaveInterrupted
  <2>1. PICK w \in [tried : SUBSET ready, begun : SUBSET ready],
             f \in [ready -> {"succeeded", "indeterminate", "none"}] : HandOver(f)
    BY <1>8, WaveInterruptedShape
  <2>2. Learn(f) /\ queue' = {i \in ready : f[i] # "none"}
    BY <2>1 DEF HandOver, Publishing
  <2>3. f \in [ready -> Outcomes] BY DEF Outcomes, Status
  <2>4. \A i \in ready : known[i] = "none"
    BY <1>8, ReadyIsOpen DEF WaveInterrupted
  <2> QED BY <1>2, <1>3, <2>2, <2>3, <2>4
<1>9. CASE PublishInterrupted
  <2>1. /\ known' = known /\ pc = "publish"
        /\ IF after = "wave" THEN queue' = ThisWave ELSE queue' = queue
    BY <1>9 DEF PublishInterrupted
  <2>2. after = "wave" => \A i \in ThisWave : known[i] # "none"
    BY <2>1 DEF Inv, Published
  <2> QED BY <1>1, <2>1, <2>2
<1>10. CASE PublishEdge \/ PublishNext \/ PublishRaises \/ WaveRaises \/ Prepare \/ NextWave
              \/ AllPublished \/ HandedOver \/ Return \/ Interrupted \/ CancelTurn
  <2>1. queue' \subseteq queue /\ known' = known
    BY <1>10 DEF PublishEdge, PublishNext, PublishRaises, WaveRaises, Prepare, NextWave,
       AllPublished, HandedOver, Return, Interrupted, CancelTurn, books
  <2> QED BY <1>1, <2>1
<1>11. CASE AnswerTwin \/ Recover
  <2>1. queue' = queue /\ pc' # "publish"
    BY <1>11 DEF AnswerTwin, Recover
  <2>2. \A i \in queue : known'[i] = known[i]
    BY <1>1, <1>2, EveryStepIsTruthful DEF Truthful
  <2> QED BY <1>1, <2>1, <2>2
<1> QED BY <1>4, <1>5, <1>6, <1>7, <1>8, <1>9, <1>10, <1>11 DEF Next

\* Every step keeps the types.
LEMMA TypeStep ==
  ASSUME Inv, Next PROVE TypeOK'
<1>1. /\ batch \in Batches /\ first \in Scheduled /\ ready \subseteq ThisWave
      /\ ran \subseteq attempted /\ attempted \subseteq Scheduled /\ handoff \in 0..Len(batch)
      /\ queue \subseteq Scheduled /\ deaf \subseteq Calls
      /\ exclusive \in BOOLEAN /\ cancelled \in BOOLEAN
      /\ pc \in {"wave", "prepared", "publish", "recover", "twins"} \cup Final
      /\ after \in {"none", "wave", "cut", "end", "recover"}
      /\ \A i \in queue : known[i] # "none"
  BY DEF Inv, TypeOK
<1>2. /\ Truthful /\ batch' = batch /\ exclusive' = exclusive
  BY EveryStepIsTruthful
<1>3. /\ Calls' = Calls /\ Scheduled' = Scheduled /\ Scheduled \subseteq Calls
      /\ (first' = first => ThisWave' = ThisWave)
      /\ ThisWave \subseteq Scheduled /\ Beyond \subseteq Scheduled /\ Remaining \subseteq Scheduled
      /\ Scheduled \subseteq Nat /\ Len(batch) \in Nat /\ Calls = 1..Len(batch)
  BY <1>1, <1>2, SameCalls, CallsAreNumbered, RemainingIsWaveAndBeyond
<1>4. first' \in Scheduled /\ ready' \subseteq ThisWave' /\ handoff' \in 0..Len(batch)
  <2>1. CASE Prepare
    <3>1. handoff' = handoff \/ handoff' = first BY <2>1, PrepareShape
    <3>2. first \in 0..Len(batch) BY <1>1, <1>3
    <3> QED BY <1>1, <1>3, <2>1, <3>1, <3>2, PrepareShape
  <2>2. CASE NextWave
    <3>1. /\ Beyond # {} /\ first' = Front(Beyond) /\ ready' = {} /\ handoff' = handoff
      BY <2>2, NextWaveShape
    <3> QED BY <1>1, <1>3, <3>1, NextIsAdjacent
  <2>3. CASE ~Prepare /\ ~NextWave
    BY <1>1, <1>3, <2>3, Places
  <2> QED BY <2>1, <2>2, <2>3
<1>5. ran' \subseteq attempted' /\ attempted' \subseteq Scheduled
  BY <1>1, <1>3, Starts
<1>6. /\ cancelled' \in BOOLEAN /\ deaf' \subseteq Calls
      /\ pc' \in {"wave", "prepared", "publish", "recover", "twins"} \cup Final
      /\ after' \in {"none", "wave", "cut", "end", "recover"}
      /\ queue' \subseteq Scheduled
  <2>1. CASE CancelRest \/ CancelPrepared \/ CloseTail \/ RunWave \/ WaveRaises
    BY <1>1, <1>3, <2>1
       DEF CancelRest, CancelPrepared, CloseTail, RunWave, WaveRaises, Publishing, Same, Beyond, Final, books
  <2>2. CASE WaveInterrupted
    <3>1. PICK w \in [tried : SUBSET ready, begun : SUBSET ready],
               f \in [ready -> {"succeeded", "indeterminate", "none"}] : HandOver(f)
      BY <2>2, WaveInterruptedShape
    <3>2. queue' \subseteq ready /\ after' = "recover" /\ pc' = "publish" /\ deaf' = deaf
      BY <3>1 DEF HandOver, Publishing
    <3>3. cancelled' = cancelled BY <2>2 DEF WaveInterrupted, Same
    <3> QED BY <1>1, <1>3, <3>2, <3>3
  <2>3. CASE PublishEdge \/ PublishNext \/ PublishRaises \/ PublishInterrupted
    BY <1>1, <1>3, <2>3
       DEF PublishEdge, PublishNext, PublishRaises, PublishInterrupted, Same, Final
  <2>4. CASE Prepare \/ NextWave \/ AllPublished \/ HandedOver \/ Return \/ Interrupted \/ CancelTurn
    BY <1>1, <2>4
       DEF Prepare, NextWave, AllPublished, HandedOver, Return, Interrupted, CancelTurn, Same, Final, books
  <2>5. CASE AnswerTwin \/ Recover
    BY <1>1, <2>5 DEF AnswerTwin, Recover, Same, Final
  <2> QED BY <2>1, <2>2, <2>3, <2>4, <2>5 DEF Next
<1>7. \A i \in queue' : known'[i] # "none"
  BY LearntIsQueued
<1> QED BY <1>1, <1>2, <1>3, <1>4, <1>5, <1>6, <1>7 DEF TypeOK, Truthful, Outcomes

----------------------------------------------------------------------------
(* What has been heard stays so, and grows by waves *)

\* What a call's journals were told stays.
LEMMA Stays ==
  ASSUME Inv, Next
  PROVE  /\ Story' /\ batch' = batch
         /\ Calls' = Calls /\ Scheduled' = Scheduled /\ Twins' = Twins
         /\ (first' = first => ThisWave' = ThisWave /\ Beyond' = Beyond /\ Remaining' = Remaining)
         /\ \A i \in Calls :
              /\ known[i] # "none" => known'[i] = known[i]
              /\ Heard(i) => seen'[i] = {known'[i]} /\ {"settled", "result"} \subseteq acked'[i]
BY EveryStepIsTruthful, TruthfulStep, SameCalls DEF Truthful

\* The waves of a well typed state.
LEMMA Layout ==
  ASSUME Inv
  PROVE  /\ batch \in Batches /\ first \in Scheduled /\ Scheduled \subseteq Calls
         /\ Twins \subseteq Calls /\ ready \subseteq ThisWave
         /\ ThisWave \subseteq Scheduled /\ Beyond \subseteq Scheduled
         /\ Remaining = ThisWave \cup Beyond /\ ThisWave \cap Beyond = {}
         /\ Remaining \subseteq Scheduled
         /\ \A k \in Scheduled : k < first \/ k \in ThisWave \/ k \in Beyond
<1>1. batch \in Batches /\ first \in Scheduled /\ ready \subseteq ThisWave
  BY DEF Inv, TypeOK
<1> QED BY <1>1, RemainingIsWaveAndBeyond, CallsAreNumbered

LEMMA EarlierStep ==
  ASSUME Inv, Next PROVE Earlier'
<1>1. CASE NextWave
  <2>1. /\ Beyond # {} /\ first' = Front(Beyond) /\ known' = known /\ acked' = acked /\ seen' = seen
        /\ pc = "publish" /\ after = "wave" /\ queue = {}
        /\ \A i \in ThisWave : known[i] # "indeterminate"
    BY <1>1, NextWaveShape
  <2>2. \A i \in ThisWave : Heard(i) /\ known[i] # "none"
    BY <2>1 DEF Inv, Published
  <2>3. \A k \in Scheduled : k < first' => k < first \/ k \in ThisWave
    BY <2>1, Layout, NextIsAdjacent
  <2> QED BY <2>1, <2>2, <2>3, Stays DEF Inv, Earlier, Heard
<1>2. CASE ~NextWave
  <2>1. first' = first
    BY <1>2, Places, PrepareShape
  <2>2. ASSUME NEW k \in Scheduled, k < first
        PROVE  /\ seen'[k] = {known'[k]} /\ {"settled", "result"} \subseteq acked'[k]
               /\ known'[k] \notin {"none", "indeterminate"}
    <3>1. Heard(k) /\ known[k] \notin {"none", "indeterminate"} /\ k \in Calls
      BY <2>2, Layout DEF Inv, Earlier
    <3> QED BY <3>1, Stays
  <2> QED BY <2>1, <2>2, Stays DEF Earlier, Heard
<1> QED BY <1>1, <1>2

LEMMA FreshStep ==
  ASSUME Inv, Next PROVE Fresh'
<1>1. pc' \in {"wave", "prepared"} => \A i \in Remaining' : known'[i] = "none"
  <2>1. CASE NextWave
    <3>1. /\ Beyond # {} /\ first' = Front(Beyond) /\ known' = known /\ pc = "publish" /\ after = "wave"
      BY <2>1, NextWaveShape
    <3>2. \A i \in Beyond : known[i] = "none"
      BY <3>1 DEF Inv, Fresh
    <3>3. \A i \in Scheduled : i >= first' => i \in Beyond
      BY <3>1, Layout, NextIsAdjacent
    <3> QED BY <3>1, <3>2, <3>3, Stays DEF Remaining
  <2>2. CASE Prepare
    BY <2>2, PrepareShape, Stays DEF Inv, Fresh
  <2>3. CASE ~NextWave /\ ~Prepare
    BY <2>3, Places, Stays DEF Inv, Fresh
  <2> QED BY <2>1, <2>2, <2>3
<1>2. pc' = "publish" /\ after' \in {"wave", "cut"} => \A i \in Beyond' : known'[i] = "none"
  <2> SUFFICES ASSUME pc' = "publish", after' \in {"wave", "cut"}
               PROVE  \A i \in Beyond' : known'[i] = "none"
    OBVIOUS
  <2>1. CASE CancelPrepared \/ RunWave
    <3>1. pc = "prepared" /\ first' = first /\ queue' = ThisWave
      BY <2>1 DEF CancelPrepared, RunWave, Publishing, run
    <3>2. \A i \in Beyond : known[i] = "none"
      BY <3>1, Layout DEF Inv, Fresh
    <3>3. \A i \in Beyond : known'[i] = known[i]
      BY <3>1, Layout, LearntIsQueued
    <3> QED BY <3>1, <3>2, <3>3, Stays
  <2>2. CASE PublishEdge \/ PublishNext \/ PublishRaises \/ PublishInterrupted \/ CancelTurn
    <3>1. pc = "publish" /\ after' = after /\ known' = known /\ first' = first
      BY <2>2 DEF PublishEdge, PublishNext, PublishRaises, PublishInterrupted, CancelTurn, run, books
    <3> QED BY <3>1, Stays DEF Inv, Fresh
  <2>3. CASE CancelRest \/ CloseTail \/ Prepare \/ NextWave \/ WaveRaises \/ AllPublished
             \/ HandedOver \/ Return \/ Interrupted \/ AnswerTwin \/ Recover
    BY <2>3 DEF CancelRest, CloseTail, Prepare, NextWave, WaveRaises, AllPublished, HandedOver,
                Return, Interrupted, AnswerTwin, Recover, Publishing
  <2>4. CASE WaveInterrupted
    BY <2>4, WaveInterruptedShape DEF HandOver, Publishing
  <2> QED BY <2>1, <2>2, <2>3, <2>4 DEF Next
<1> QED BY <1>1, <1>2 DEF Fresh

\* A call leaves the queue when all that was due of it is acknowledged.
LEMMA DoneIsHeard ==
  ASSUME Inv, NEW i \in Calls, DueEdges(i) = {} PROVE Heard(i)
<1>1. {"settled", "result"} \subseteq acked[i]
  BY DEF DueEdges, EdgesOf, EdgeSet
<1> QED BY <1>1 DEF Heard, Inv, Story

LEMMA PublishedStep ==
  ASSUME Inv, Next PROVE Published'
<1> DEFINE Done(i) == known'[i] # "none" /\ seen'[i] = {known'[i]}
                        /\ {"settled", "result"} \subseteq acked'[i]
           Ok(i) == known'[i] # "none" /\ (i \notin queue' => Done(i))
<1>1. \A i \in Calls : Heard(i) /\ known[i] # "none" => Done(i)
  BY Stays
<1>2. \A i \in queue' : Ok(i)
  BY LearntIsQueued
<1>3. \A i \in Calls : Done(i) => Ok(i)
  OBVIOUS
<1>4. \A i \in Scheduled : i < first => Done(i)
  BY <1>1, Layout DEF Inv, Earlier
<1> HIDE DEF Done, Ok
<1>5. pc' = "publish" /\ after' \in {"wave", "cut"} => \A i \in ThisWave' : Ok(i)
  <2> SUFFICES ASSUME pc' = "publish", after' \in {"wave", "cut"}
               PROVE  \A i \in ThisWave' : Ok(i)
    OBVIOUS
  <2>1. CASE CancelPrepared \/ RunWave
    <3>1. first' = first /\ queue' = ThisWave
      BY <2>1 DEF CancelPrepared, RunWave, Publishing, run
    <3> QED BY <1>2, <3>1, Stays
  <2>2. CASE PublishEdge \/ PublishRaises \/ PublishInterrupted \/ CancelTurn
    <3>1. pc = "publish" /\ after' = after /\ first' = first /\ queue' = queue
      BY <2>2 DEF PublishEdge, PublishRaises, PublishInterrupted, CancelTurn, run, books
    <3>2. ASSUME NEW i \in ThisWave PROVE Ok(i)
      BY <1>1, <1>2, <1>3, <3>1, <3>2, Layout DEF Inv, Published
    <3> QED BY <3>1, <3>2, Stays
  <2>3. CASE PublishNext
    <3>1. /\ pc = "publish" /\ after' = after /\ first' = first
          /\ queue # {} /\ queue' = queue \ {Front(queue)} /\ DueEdges(Front(queue)) = {}
      BY <2>3 DEF PublishNext, run
    <3>2. Heard(Front(queue)) /\ known[Front(queue)] # "none" /\ Front(queue) \in Calls
      BY <3>1, FrontOfQueue, DoneIsHeard
    <3>3. ASSUME NEW i \in ThisWave PROVE Ok(i)
      <4>1. i \in queue' \/ i = Front(queue) \/ i \notin queue BY <3>1
      <4> QED BY <1>1, <1>2, <1>3, <3>1, <3>2, <4>1, Layout DEF Inv, Published
    <3> QED BY <3>1, <3>3, Stays
  <2>4. CASE CancelRest \/ CloseTail \/ Prepare \/ NextWave \/ WaveRaises \/ AllPublished
             \/ HandedOver \/ Return \/ Interrupted \/ AnswerTwin \/ Recover
    BY <2>4 DEF CancelRest, CloseTail, Prepare, NextWave, WaveRaises, AllPublished, HandedOver,
                Return, Interrupted, AnswerTwin, Recover, Publishing
  <2>5. CASE WaveInterrupted
    BY <2>5, WaveInterruptedShape DEF HandOver, Publishing
  <2> QED BY <2>1, <2>2, <2>3, <2>4, <2>5 DEF Next
<1>6. pc' = "publish" /\ after' = "end" => \A i \in Scheduled : Ok(i)
  <2> SUFFICES ASSUME pc' = "publish", after' = "end", NEW i \in Scheduled
               PROVE  Ok(i)
    OBVIOUS
  <2>0. i \in Calls
    BY Layout
  <2>1. CASE CancelRest
    <3>1. queue' = Remaining
      BY <2>1 DEF CancelRest, Publishing
    <3> QED BY <1>2, <1>3, <1>4, <2>0, <3>1, Layout
  <2>2. CASE CloseTail
    <3>1. queue' = Beyond /\ queue = {} /\ pc = "publish" /\ after \in {"wave", "cut"}
      BY <2>2 DEF CloseTail, Publishing, Beyond
    <3>2. i \in ThisWave => Ok(i)
      BY <1>1, <1>3, <2>0, <3>1 DEF Inv, Published
    <3> QED BY <1>2, <1>3, <1>4, <2>0, <3>1, <3>2, Layout
  <2>3. CASE PublishEdge \/ PublishRaises \/ PublishInterrupted \/ CancelTurn
    <3>1. pc = "publish" /\ after = "end" /\ queue' = queue
      BY <2>3 DEF PublishEdge, PublishRaises, PublishInterrupted, CancelTurn, books
    <3> QED BY <1>1, <1>2, <1>3, <2>0, <3>1 DEF Inv, Published
  <2>4. CASE PublishNext
    <3>1. /\ pc = "publish" /\ after = "end"
          /\ queue # {} /\ queue' = queue \ {Front(queue)} /\ DueEdges(Front(queue)) = {}
      BY <2>4 DEF PublishNext
    <3>2. Heard(Front(queue)) /\ known[Front(queue)] # "none" /\ Front(queue) \in Calls
      BY <3>1, FrontOfQueue, DoneIsHeard
    <3>3. i \in queue' \/ i = Front(queue) \/ i \notin queue
      BY <3>1
    <3> QED BY <1>1, <1>2, <1>3, <2>0, <3>1, <3>2, <3>3 DEF Inv, Published
  <2>5. CASE CancelPrepared \/ RunWave \/ Prepare \/ NextWave \/ WaveRaises \/ AllPublished
             \/ HandedOver \/ Return \/ Interrupted \/ AnswerTwin \/ Recover
    BY <2>5 DEF CancelPrepared, RunWave, Prepare, NextWave, WaveRaises, AllPublished, HandedOver,
                Return, Interrupted, AnswerTwin, Recover, Publishing
  <2>6. CASE WaveInterrupted
    BY <2>6, WaveInterruptedShape DEF HandOver, Publishing
  <2> QED BY <2>1, <2>2, <2>3, <2>4, <2>5, <2>6 DEF Next
<1>7. pc' \in {"twins", "returned"} => \A i \in Scheduled : Done(i)
  <2> SUFFICES ASSUME pc' \in {"twins", "returned"}, NEW i \in Scheduled
               PROVE  Done(i)
    OBVIOUS
  <2>0. i \in Calls
    BY Layout
  <2>1. CASE AllPublished
    <3>1. /\ pc = "publish" /\ queue = {}
          /\ after = "end" \/ (after = "wave" /\ Beyond = {})
      BY <2>1 DEF AllPublished, Beyond
    <3>2. i < first \/ (Heard(i) /\ known[i] # "none")
      BY <3>1, Layout DEF Inv, Published
    <3> QED BY <1>1, <1>4, <2>0, <3>2
  <2>2. CASE AnswerTwin \/ Return
    <3>1. pc = "twins"
      BY <2>2 DEF AnswerTwin, Return
    <3> QED BY <1>1, <2>0, <3>1 DEF Inv, Published
  <2>3. CASE CancelRest \/ CancelPrepared \/ CloseTail \/ Prepare \/ NextWave \/ RunWave \/ WaveRaises
             \/ HandedOver \/ Interrupted \/ Recover
    BY <2>3 DEF CancelRest, CancelPrepared, CloseTail, Prepare, NextWave, RunWave, WaveRaises,
                HandedOver, Interrupted, Recover, Publishing
  <2>4. CASE PublishEdge \/ PublishNext \/ PublishRaises \/ PublishInterrupted \/ CancelTurn
    BY <2>4 DEF PublishEdge, PublishNext, PublishRaises, PublishInterrupted, CancelTurn
  <2>5. CASE WaveInterrupted
    BY <2>5, WaveInterruptedShape DEF HandOver, Publishing
  <2> QED BY <2>1, <2>2, <2>3, <2>4, <2>5 DEF Next
<1> QED BY <1>5, <1>6, <1>7, Stays DEF Published, Heard, Done, Ok

LEMMA TwinsLastStep ==
  ASSUME Inv, Next PROVE TwinsLast'
<1>1. ASSUME NEW i \in Twins, known'[i] # "none"
      PROVE  /\ pc' \in {"twins", "returned", "raised"}
             /\ pc' # "raised" => seen'[i] = {known'[i]} /\ {"settled", "result"} \subseteq acked'[i]
  <2>0. i \in Calls
    BY Layout
  <2>1. known[i] # "none" \/ pc = "twins"
    BY <1>1, <2>0, EveryStepIsTruthful DEF Truthful
  <2>2. pc \in {"twins", "returned", "raised"} /\ (known[i] # "none" /\ pc # "raised" => Heard(i))
    BY <2>1 DEF Inv, TwinsLast
  <2>3. AnswerTwin \/ Return
    <3>1. CASE CancelRest \/ CancelPrepared \/ CloseTail \/ Prepare \/ NextWave \/ RunWave
               \/ WaveRaises \/ WaveInterrupted
      BY <2>2, <3>1 DEF CancelRest, CancelPrepared, CloseTail, Prepare, NextWave, RunWave,
                        WaveRaises, WaveInterrupted
    <3>2. CASE PublishEdge \/ PublishNext \/ PublishRaises \/ PublishInterrupted \/ AllPublished
               \/ HandedOver \/ Interrupted \/ Recover \/ CancelTurn
      BY <2>2, <3>2 DEF PublishEdge, PublishNext, PublishRaises, PublishInterrupted, AllPublished,
                        HandedOver, Interrupted, Recover, CancelTurn
    <3> QED BY <3>1, <3>2 DEF Next
  <2>4. CASE Return
    <3>1. pc = "twins" /\ pc' = "returned" /\ known' = known /\ seen' = seen /\ acked' = acked
      BY <2>4 DEF Return, books
    <3> QED BY <1>1, <2>2, <3>1 DEF Heard
  <2>5. CASE AnswerTwin
    <3>1. PICK t \in Twins :
             /\ known[t] = "none" /\ pc = "twins" /\ t \in Calls
             /\ known' = [known EXCEPT ![t] = known[Source(t)]]
             /\ \/ /\ seen' = [seen EXCEPT ![t] = @ \cup {known'[t]}]
                   /\ acked' = [acked EXCEPT ![t] = EdgesOf(known'[t])]
                   /\ pc' = pc
                \/ pc' = "raised"
      BY <2>5, AnswerTwinShape
    <3>2. /\ known \in [Calls -> Outcomes] /\ seen \in [Calls -> SUBSET Status]
          /\ acked \in [Calls -> SUBSET EdgeSet] /\ seen[t] = {}
      BY <3>1 DEF Inv, TypeOK, Outcomes, Story
    <3>3. CASE i = t
      <4>1. {"settled", "result"} \subseteq EdgesOf(known'[t])
        BY EdgesOfStatus
      <4> QED BY <2>0, <3>1, <3>2, <3>3, <4>1
    <3>4. CASE i # t
      <4>1. known'[i] = known[i]
        BY <2>0, <3>1, <3>2, <3>4
      <4>2. Heard(i)
        BY <1>1, <2>2, <3>1, <4>1
      <4> QED BY <2>0, <3>1, <4>2, Stays
    <3> QED BY <3>3, <3>4
  <2> QED BY <2>3, <2>4, <2>5
<1>2. pc' = "returned" => \A i \in Twins : known'[i] # "none"
  <2>1. CASE Return
    BY <2>1 DEF Return
  <2>2. CASE CancelRest \/ CancelPrepared \/ CloseTail \/ Prepare \/ NextWave \/ RunWave \/ WaveRaises
             \/ AllPublished \/ HandedOver \/ Interrupted \/ Recover
    BY <2>2 DEF CancelRest, CancelPrepared, CloseTail, Prepare, NextWave, RunWave, WaveRaises,
                AllPublished, HandedOver, Interrupted, Recover, Publishing
  <2>3. CASE PublishEdge \/ PublishNext \/ PublishRaises \/ PublishInterrupted \/ CancelTurn \/ AnswerTwin
    BY <2>3 DEF PublishEdge, PublishNext, PublishRaises, PublishInterrupted, CancelTurn, AnswerTwin
  <2>4. CASE WaveInterrupted
    BY <2>4, WaveInterruptedShape DEF HandOver, Publishing
  <2> QED BY <2>1, <2>2, <2>3, <2>4 DEF Next
<1> QED BY <1>1, <1>2, Stays DEF TwinsLast, Heard

LEMMA ClosedStep ==
  ASSUME Inv, Next PROVE Closed'
<1>1. CASE Recover
  <2>1. known' = [i \in Calls |-> IF known[i] = "none" /\ i \in attempted THEN "indeterminate"
                                 ELSE known[i]]
    BY <1>1 DEF Recover
  <2>2. seen' = [i \in Calls |->
                  IF known'[i] # "none" /\ "settled" \notin acked[i] /\ i \notin deaf'
                  THEN seen[i] \cup {known'[i]} ELSE seen[i]]
    BY <1>1 DEF Recover
  <2>3. attempted' = attempted /\ attempted \subseteq Calls
    BY <1>1, Layout DEF Recover, run, Inv, TypeOK
  <2>4. ASSUME NEW i \in attempted, i \notin deaf'
        PROVE  known'[i] # "none" /\ seen'[i] = {known'[i]}
    <3>1. i \in Calls /\ known'[i] # "none"
      BY <2>1, <2>3, <2>4
    <3>2. seen'[i] \subseteq {known'[i]}
      BY <3>1, Stays DEF Story
    <3>3. CASE "settled" \in acked[i]
      BY <1>1, <3>1, <3>3, Stays DEF Recover, Story
    <3>4. CASE "settled" \notin acked[i]
      BY <2>2, <2>4, <3>1, <3>2, <3>4
    <3> QED BY <3>3, <3>4
  <2> QED BY <2>3, <2>4 DEF Closed
<1>2. CASE ~Recover
  <2>1. pc' # "interrupted"
    <3>1. CASE CancelRest \/ CancelPrepared \/ CloseTail \/ Prepare \/ NextWave \/ RunWave \/ WaveRaises
               \/ AllPublished \/ HandedOver \/ Interrupted \/ Return
      BY <3>1 DEF CancelRest, CancelPrepared, CloseTail, Prepare, NextWave, RunWave, WaveRaises,
                  AllPublished, HandedOver, Interrupted, Return, Publishing
    <3>2. CASE PublishEdge \/ PublishNext \/ PublishRaises \/ PublishInterrupted \/ CancelTurn \/ AnswerTwin
      BY <3>2 DEF PublishEdge, PublishNext, PublishRaises, PublishInterrupted, CancelTurn, AnswerTwin
    <3>3. CASE WaveInterrupted
      BY <3>3, WaveInterruptedShape DEF HandOver, Publishing
    <3> QED BY <1>2, <3>1, <3>2, <3>3 DEF Next
  <2> QED BY <2>1 DEF Closed
<1> QED BY <1>1, <1>2

----------------------------------------------------------------------------
(* The inductive invariant *)

LEMMA InitInv == Init => Inv
<1> SUFFICES ASSUME Init PROVE Inv
  OBVIOUS
<1>1. /\ batch \in Batches /\ first = 1 /\ ready = {} /\ handoff = 0 /\ pc = "wave"
      /\ known = [i \in Calls |-> "none"] /\ truth = [i \in Calls |-> "none"]
      /\ ran = {} /\ attempted = {} /\ queue = {} /\ after = "none" /\ deaf = {}
      /\ acked = [i \in Calls |-> {}] /\ seen = [i \in Calls |-> {}]
      /\ exclusive \in BOOLEAN /\ cancelled \in BOOLEAN
  BY DEF Init
<1>2. /\ 1 \in Scheduled /\ Len(batch) \in Nat /\ Calls \subseteq Nat /\ Scheduled \subseteq Calls
      /\ Twins \subseteq Calls /\ Calls = 1..Len(batch)
  BY <1>1, CallsAreNumbered
<1>3. TypeOK
  BY <1>1, <1>2 DEF TypeOK, Status
<1>4. Remaining \subseteq Scheduled
  BY DEF Remaining
<1>5. Earlier
  <2>1. \A k \in Scheduled : ~(k < first)
    BY <1>1, <1>2
  <2> QED BY <2>1 DEF Earlier
<1>6. Tried /\ Closed /\ Published
  BY <1>1 DEF Tried, Closed, Published
<1>7. Story /\ Fresh /\ TwinsLast
  BY <1>1, <1>2, <1>4 DEF Story, Fresh, TwinsLast
<1> QED BY <1>3, <1>5, <1>6, <1>7 DEF Inv

LEMMA NextInv == Inv /\ [Next]_vars => Inv'
<1> SUFFICES ASSUME Inv, [Next]_vars PROVE Inv'
  OBVIOUS
<1>1. CASE Next
  BY <1>1, TypeStep, EarlierStep, TriedStep, Stays, FreshStep, PublishedStep, TwinsLastStep, ClosedStep
     DEF Inv
<1>2. CASE UNCHANGED vars
  <2>1. UNCHANGED <<batch, exclusive, cancelled, pc, first, ready, handoff, known, truth, ran,
                    attempted, queue, after, acked, seen, deaf>>
    BY <1>2 DEF vars, run, books
  <2>2. /\ Calls' = Calls /\ Twins' = Twins /\ Scheduled' = Scheduled /\ ThisWave' = ThisWave
        /\ Beyond' = Beyond /\ Remaining' = Remaining
    BY <2>1, SameCalls
  <2>3. TypeOK' /\ Tried' /\ Story'
    BY <2>1, <2>2 DEF Inv, TypeOK, Tried, Story
  <2>4. Earlier' /\ Fresh' /\ Published' /\ TwinsLast' /\ Closed'
    BY <2>1, <2>2 DEF Inv, Earlier, Fresh, Published, TwinsLast, Closed, Heard
  <2> QED BY <2>3, <2>4 DEF Inv
<1> QED BY <1>1, <1>2

LEMMA AlwaysInv == Spec => []Inv
BY InitInv, NextInv, PTL DEF Spec

----------------------------------------------------------------------------
(* What it carries *)

LEMMA InvTellsOneStory == Inv => OneTrueStory
<1> SUFFICES ASSUME Inv PROVE OneTrueStory
  OBVIOUS
<1>1. ASSUME NEW i \in Calls
      PROVE  /\ Cardinality(seen[i]) <= 1
             /\ truth[i] # "none" => seen[i] \subseteq {truth[i]}
             /\ i \in ran => seen[i] \cap {"notrun", "refused"} = {}
  <2>1. /\ seen[i] \subseteq {known[i]}
        /\ truth[i] # "none" => known[i] = truth[i]
        /\ i \in ran => known[i] \notin {"notrun", "refused"}
    BY <1>1 DEF Inv, Story
  <2>2. seen[i] = {} \/ seen[i] = {known[i]}
    BY <2>1
  <2>3. Cardinality(seen[i]) <= 1
    <3>1. Cardinality({}) = 0 BY FS_EmptySet
    <3>2. Cardinality({known[i]}) = 1 BY FS_Singleton
    <3> QED BY <2>2, <3>1, <3>2
  <2> QED BY <2>1, <2>3
<1> QED BY <1>1 DEF OneTrueStory, Inv

\* What lies behind a call that was started is certain and has been heard.
LEMMA BehindIsHeard ==
  ASSUME Inv, NEW i \in attempted, NEW k \in Scheduled, Behind(i, k)
  PROVE  Heard(k) /\ known[k] # "indeterminate"
<1>1. i \in Scheduled /\ (i < first \/ i \in ThisWave)
  BY Layout DEF Inv, TypeOK, Tried
<1>2. k < first
  BY <1>1, Layout, BehindIsEarlier
<1> QED BY <1>2 DEF Inv, Earlier

LEMMA InvBarsRuns == Inv => NothingRunsPastABar
<1> SUFFICES ASSUME Inv, NEW i \in ran
             PROVE  /\ ~exclusive
                    /\ handoff # 0 => i <= handoff
                    /\ \A k \in Scheduled : Behind(i, k) => known[k] # "indeterminate"
  BY DEF NothingRunsPastABar
<1>1. i \in attempted
  BY DEF Inv, TypeOK
<1> QED BY <1>1, BehindIsHeard DEF Inv, Tried

LEMMA InvPublishesFirst == Inv => PublishedBeforeNext
BY BehindIsHeard DEF PublishedBeforeNext, Heard

LEMMA InvAnswers == Inv => EveryCallAnswered
<1> SUFFICES ASSUME Inv PROVE EveryCallAnswered
  OBVIOUS
<1>1. ASSUME pc = "returned", NEW i \in Calls
      PROVE  known[i] # "none" /\ Heard(i)
  <2>1. CASE i \in Scheduled
    BY <1>1, <2>1 DEF Inv, Published
  <2>2. CASE i \in Twins
    BY <1>1, <2>2 DEF Inv, TwinsLast
  <2> QED BY <1>1, <2>1, <2>2 DEF Scheduled
<1>2. pc = "interrupted" => \A i \in attempted \ deaf : known[i] # "none" /\ seen[i] = {known[i]}
  BY DEF Inv, Closed
<1> QED BY <1>1, <1>2 DEF EveryCallAnswered, Heard

\* In every batch, however it is cut short, the journals are told one outcome
\* of a call, and the one its wave answered.
THEOREM OneStoryIsTold == Spec => []OneTrueStory
BY AlwaysInv, InvTellsOneStory, PTL

\* In every batch nothing runs behind a call whose outcome is uncertain, behind
\* a scheduled switch, or beside a turn-exclusive call.
THEOREM BarsHold == Spec => []NothingRunsPastABar
BY AlwaysInv, InvBarsRuns, PTL

\* In every batch no start is attempted before all earlier waves are published.
THEOREM WavesArePublishedFirst == Spec => []PublishedBeforeNext
BY AlwaysInv, InvPublishesFirst, PTL

\* Every batch that returns has answered all its calls, and every one that was
\* interrupted has closed the starts it attempted.
THEOREM CallsAreAnswered == Spec => []EveryCallAnswered
BY AlwaysInv, InvAnswers, PTL
=============================================================================
