------------------------- MODULE SteerDeliveryProofs -------------------------
(***************************************************************************)
(* What the queues between a running turn and its host keep, for any lines,*)
(* follow-ups and children, any number of turns, steps and segments: that  *)
(* nothing is lost, doubled or turned into something else, and that what a *)
(* user typed is acknowledged in the order it was typed in.                *)
(***************************************************************************)
EXTENDS SteerDelivery, SequenceTheorems, WellFoundedInduction, TLAPS

----------------------------------------------------------------------------
(* What every reachable state keeps *)

\* Nothing is in a place twice.
Single ==
  /\ Once(stash) /\ Once(flushing) /\ Once(carried) /\ Once(steerq) /\ Once(followq)
  /\ Once(swept) /\ Once(acked) /\ Once(returned) /\ Once(dropped) /\ WrittenOnce(handback)

\* Nothing is in two places, and under the live composer all that was sent is in one.
Placed ==
  /\ Apart(Holding)
  /\ Content(Holding) \subseteq Range(sent)
  /\ ~inline => Range(sent) \subseteq Content(Holding)

\* Where no child can find a queue.
Detached == IF inline THEN {"idle", "prepare", "attach", "seal"} ELSE {"idle", "attach", "retire"}

\* Which queues can hold something at which label.
Control ==
  /\ flushing # <<>> => pc = "flush"
  /\ swept # <<>> =>
       pc \in {"sweepsteers"} \cup (IF inline THEN {"reclaim", "detach"} ELSE {"restore"})
  /\ pc \notin (IF inline THEN {"restore", "retire"} ELSE {"reclaim"})
  /\ pc \in Detached => ~bound
  /\ (inline /\ pc \in Detached) \/ pc = "idle" => steerq = <<>>
  /\ inline \/ pc = "idle" => followq = <<>>
  /\ inline => carried = <<>>

\* Each item is sent once, a child's completion when it ends, prose only to the
\* live composer.
Senders ==
  /\ Once(sent)
  /\ \A p \in children : Unsent(p)
  /\ inline => Range(sent) \subseteq Peer

\* Follow-ups are acknowledged in the order they were typed in.
FollowUpsInOrder == InOrder(acked, FollowUp, sent)

\* The labels of a segment whose follow-ups may already have been swept.
Ending == {"sweepsteers", "restore", "seal", "detach", "retire"}

\* While more follow-ups may be acknowledged, they wait in order: those that an
\* earlier segment left are steers now, and gone when the follow-ups are drained.
FollowUpsWait ==
  /\ FollowUpsInOrder
  /\ clean \/ pc \notin Ending =>
       InOrder(acked \o swept \o steerq \o followq, FollowUp, sent)
  /\ pc \in {"checks", "followups"} \/ (clean /\ pc = "sweep") => Range(steerq) \cap FollowUp = {}

IInv == TypeOK /\ Single /\ Placed /\ Control /\ Senders /\ LinesInOrder /\ FollowUpsWait

----------------------------------------------------------------------------
(* Sequences *)

LEMMA RangeJoined ==
  ASSUME NEW S, NEW s \in Seq(S), NEW t \in Seq(S)
  PROVE  Range(s \o t) = Range(s) \cup Range(t)
<1>1. \A n \in 1..Len(s) + Len(t) : (s \o t)[n] = IF n <= Len(s) THEN s[n] ELSE t[n - Len(s)]
  OBVIOUS
<1>2. DOMAIN s = 1..Len(s) /\ DOMAIN t = 1..Len(t) /\ DOMAIN (s \o t) = 1..Len(s) + Len(t)
  OBVIOUS
<1>3. Len(s) \in Nat /\ Len(t) \in Nat OBVIOUS
<1>4. \A n \in 1..Len(s) : (s \o t)[n] = s[n] /\ n \in 1..Len(s) + Len(t) BY <1>1, <1>3
<1>5. \A n \in 1..Len(t) : (s \o t)[n + Len(s)] = t[n] /\ n + Len(s) \in 1..Len(s) + Len(t)
  BY <1>1, <1>3
<1>6. Range(s) \cup Range(t) \subseteq Range(s \o t) BY <1>2, <1>4, <1>5 DEF Range
<1>7. ASSUME NEW x \in Range(s \o t) PROVE x \in Range(s) \cup Range(t)
  <2>1. PICK n \in 1..Len(s) + Len(t) : x = (s \o t)[n] BY <1>2, <1>7 DEF Range
  <2>2. CASE n <= Len(s) BY <2>1, <2>2, <1>1, <1>2, <1>3 DEF Range
  <2>3. CASE ~(n <= Len(s))
    <3>1. n - Len(s) \in 1..Len(t) /\ x = t[n - Len(s)] BY <2>1, <2>3, <1>1, <1>3
    <3> QED BY <3>1, <1>2 DEF Range
  <2> QED BY <2>2, <2>3
<1> QED BY <1>6, <1>7

LEMMA RangeOfEmpty == Range(<<>>) = {} BY DEF Range

LEMMA RangeAppended ==
  ASSUME NEW S, NEW s \in Seq(S), NEW e \in S
  PROVE  Range(Append(s, e)) = Range(s) \cup {e}
<1>1. Append(s, e) = s \o <<e>> OBVIOUS
<1>2. <<e>> \in Seq(S) /\ Range(<<e>>) = {e} BY DEF Range
<1> DEFINE t == <<e>>
<1>3. t \in Seq(S) BY <1>2
<1> HIDE DEF t
<1>4. Range(s \o t) = Range(s) \cup Range(t) BY <1>3, RangeJoined
<1> QED BY <1>1, <1>2, <1>4 DEF t

LEMMA RangeTyped ==
  ASSUME NEW S, NEW s \in Seq(S)
  PROVE  Range(s) \subseteq S
BY DEF Range

LEMMA RangeIsTyped ==
  ASSUME NEW S, NEW U, NEW s \in Seq(S), Range(s) \subseteq U
  PROVE  s \in Seq(U)
<1>1. \A n \in 1..Len(s) : s[n] \in U BY DEF Range
<1> QED BY <1>1, IsASeq

LEMMA EmptyRange ==
  ASSUME NEW S, NEW s \in Seq(S), Range(s) = {}
  PROVE  s = <<>>
<1>1. \A n \in 1..Len(s) : s[n] \in Range(s) BY DEF Range
<1>2. Len(s) = 0 BY <1>1
<1> QED BY <1>2

\* The first of a queue and the rest.
LEMMA HeadAndTail ==
  ASSUME NEW S, NEW s \in Seq(S), s # <<>>
  PROVE  /\ Head(s) \in S /\ Tail(s) \in Seq(S)
         /\ Range(s) = {Head(s)} \cup Range(Tail(s))
         /\ s = <<Head(s)>> \o Tail(s)
<1>1. Head(s) \in S /\ Tail(s) \in Seq(S) /\ s = <<Head(s)>> \o Tail(s)
  BY HeadTailProperties
<1>2. <<Head(s)>> \in Seq(S) /\ Range(<<Head(s)>>) = {Head(s)} BY <1>1 DEF Range
<1> DEFINE h == <<Head(s)>>
<1>3. h \in Seq(S) BY <1>2
<1> DEFINE r == Tail(s)
<1>4. r \in Seq(S) BY <1>1
<1> HIDE DEF h, r
<1>5. Range(h \o r) = Range(h) \cup Range(r) BY <1>3, <1>4, RangeJoined
<1> QED BY <1>1, <1>2, <1>5 DEF h, r

LEMMA OnceJoined ==
  ASSUME NEW S, NEW s \in Seq(S), NEW t \in Seq(S)
  PROVE  Once(s \o t) <=> Once(s) /\ Once(t) /\ Range(s) \cap Range(t) = {}
<1>1. \A n \in 1..Len(s) + Len(t) : (s \o t)[n] = IF n <= Len(s) THEN s[n] ELSE t[n - Len(s)]
  OBVIOUS
<1>2. DOMAIN s = 1..Len(s) /\ DOMAIN t = 1..Len(t) /\ DOMAIN (s \o t) = 1..Len(s) + Len(t)
  OBVIOUS
<1>3. Len(s) \in Nat /\ Len(t) \in Nat OBVIOUS
<1>4. \A n \in 1..Len(s) : (s \o t)[n] = s[n] /\ n \in 1..Len(s) + Len(t) BY <1>1, <1>3
<1>5. \A n \in 1..Len(t) : (s \o t)[n + Len(s)] = t[n] /\ n + Len(s) \in 1..Len(s) + Len(t)
  BY <1>1, <1>3
<1>6. ASSUME Once(s \o t) PROVE Once(s) /\ Once(t) /\ Range(s) \cap Range(t) = {}
  <2>1. Once(s) BY <1>2, <1>4, <1>6 DEF Once
  <2>2. \A m, n \in 1..Len(t) : t[m] = t[n] => m + Len(s) = n + Len(s) BY <1>2, <1>5, <1>6 DEF Once
  <2>3. Once(t) BY <2>2, <1>2, <1>3 DEF Once
  <2>4. \A m \in 1..Len(s), n \in 1..Len(t) : s[m] = t[n] => m = n + Len(s)
    BY <1>2, <1>4, <1>5, <1>6 DEF Once
  <2>5. \A m \in 1..Len(s), n \in 1..Len(t) : s[m] # t[n] BY <2>4, <1>3
  <2> QED BY <2>1, <2>3, <2>5, <1>2 DEF Range
<1>7. ASSUME Once(s), Once(t), Range(s) \cap Range(t) = {} PROVE Once(s \o t)
  <2>1. \A m \in 1..Len(s), n \in 1..Len(t) : s[m] # t[n] BY <1>7, <1>2 DEF Range
  <2>2. SUFFICES ASSUME NEW m \in 1..Len(s) + Len(t), NEW n \in 1..Len(s) + Len(t),
                        (s \o t)[m] = (s \o t)[n]
                 PROVE  m = n
    BY <1>2 DEF Once
  <2>3. CASE m <= Len(s) /\ n <= Len(s) BY <2>2, <2>3, <1>1, <1>2, <1>3, <1>7 DEF Once
  <2>4. CASE m <= Len(s) /\ ~(n <= Len(s))
    <3>1. m \in 1..Len(s) /\ n - Len(s) \in 1..Len(t) BY <2>4, <1>3
    <3> QED BY <3>1, <2>1, <2>2, <2>4, <1>1
  <2>5. CASE ~(m <= Len(s)) /\ n <= Len(s)
    <3>1. n \in 1..Len(s) /\ m - Len(s) \in 1..Len(t) BY <2>5, <1>3
    <3> QED BY <3>1, <2>1, <2>2, <2>5, <1>1
  <2>6. CASE ~(m <= Len(s)) /\ ~(n <= Len(s))
    <3>1. m - Len(s) \in 1..Len(t) /\ n - Len(s) \in 1..Len(t) BY <2>6, <1>3
    <3>2. t[m - Len(s)] = t[n - Len(s)] BY <2>2, <2>6, <1>1
    <3>3. m - Len(s) = n - Len(s) BY <3>1, <3>2, <1>2, <1>7 DEF Once
    <3> QED BY <3>3, <1>3
  <2> QED BY <2>3, <2>4, <2>5, <2>6
<1> QED BY <1>6, <1>7

LEMMA OnceSingle ==
  ASSUME NEW e
  PROVE  Once(<<>>) /\ Once(<<e>>)
BY DEF Once

LEMMA OnceAppended ==
  ASSUME NEW S, NEW s \in Seq(S), NEW e \in S
  PROVE  Once(Append(s, e)) <=> Once(s) /\ e \notin Range(s)
<1>1. Append(s, e) = s \o <<e>> OBVIOUS
<1>2. <<e>> \in Seq(S) /\ Range(<<e>>) = {e} BY DEF Range
<1> DEFINE t == <<e>>
<1>3. t \in Seq(S) BY <1>2
<1>4. Once(t) BY OnceSingle
<1> HIDE DEF t
<1>5. Once(s \o t) <=> Once(s) /\ Once(t) /\ Range(s) \cap Range(t) = {} BY <1>3, OnceJoined
<1>6. Range(t) = {e} BY <1>2 DEF t
<1>7. Range(s) \cap {e} = {} <=> e \notin Range(s) OBVIOUS
<1> QED BY <1>1, <1>4, <1>5, <1>6, <1>7 DEF t

LEMMA OnceTail ==
  ASSUME NEW S, NEW s \in Seq(S), s # <<>>, Once(s)
  PROVE  Once(Tail(s)) /\ Head(s) \notin Range(Tail(s))
<1>1. Head(s) \in S /\ Tail(s) \in Seq(S) /\ s = <<Head(s)>> \o Tail(s) BY HeadAndTail
<1>2. <<Head(s)>> \in Seq(S) /\ Range(<<Head(s)>>) = {Head(s)} BY <1>1 DEF Range
<1> DEFINE h == <<Head(s)>>
<1>3. h \in Seq(S) /\ Range(h) = {Head(s)} /\ Once(h \o Tail(s)) BY <1>1, <1>2
<1> HIDE DEF h
<1>4. Once(Tail(s)) /\ Range(h) \cap Range(Tail(s)) = {} BY <1>1, <1>3, OnceJoined
<1> QED BY <1>3, <1>4

----------------------------------------------------------------------------
(* Orders *)

\* Whatever of one kind lies in A was sent before what lies in B.
Ahead(A, B, kind, log) == \A i \in A \cap kind, j \in B \cap kind : Before(log, i, j)

LEMMA InOrderJoined ==
  ASSUME NEW S, NEW s \in Seq(S), NEW t \in Seq(S), NEW kind, NEW log
  PROVE  InOrder(s \o t, kind, log) <=>
           /\ InOrder(s, kind, log) /\ InOrder(t, kind, log)
           /\ Ahead(Range(s), Range(t), kind, log)
<1> DEFINE b(i, j) == Before(log, i, j)
<1> HIDE DEF b
<1>1. \A n \in 1..Len(s) + Len(t) : (s \o t)[n] = IF n <= Len(s) THEN s[n] ELSE t[n - Len(s)]
  OBVIOUS
<1>2. DOMAIN s = 1..Len(s) /\ DOMAIN t = 1..Len(t) /\ DOMAIN (s \o t) = 1..Len(s) + Len(t)
  OBVIOUS
<1>3. Len(s) \in Nat /\ Len(t) \in Nat OBVIOUS
<1>4. \A n \in 1..Len(s) : (s \o t)[n] = s[n] /\ n \in 1..Len(s) + Len(t) BY <1>1, <1>3
<1>5. \A n \in 1..Len(t) : (s \o t)[n + Len(s)] = t[n] /\ n + Len(s) \in 1..Len(s) + Len(t)
  BY <1>1, <1>3
<1>6. /\ InOrder(s, kind, log) <=> \A m, n \in 1..Len(s) : m < n /\ {s[m], s[n]} \subseteq kind => b(s[m], s[n])
      /\ InOrder(t, kind, log) <=> \A m, n \in 1..Len(t) : m < n /\ {t[m], t[n]} \subseteq kind => b(t[m], t[n])
      /\ InOrder(s \o t, kind, log) <=>
           \A m, n \in 1..Len(s) + Len(t) :
             m < n /\ {(s \o t)[m], (s \o t)[n]} \subseteq kind => b((s \o t)[m], (s \o t)[n])
  BY <1>2 DEF InOrder, b
<1>7. Ahead(Range(s), Range(t), kind, log) <=>
        \A m \in 1..Len(s), n \in 1..Len(t) : {s[m], t[n]} \subseteq kind => b(s[m], t[n])
  BY <1>2 DEF Ahead, Range, b
<1>8. ASSUME InOrder(s \o t, kind, log)
      PROVE  InOrder(s, kind, log) /\ InOrder(t, kind, log) /\ Ahead(Range(s), Range(t), kind, log)
  <2>1. InOrder(s, kind, log) BY <1>4, <1>6, <1>8
  <2>2. \A m, n \in 1..Len(t) : m < n => m + Len(s) < n + Len(s) BY <1>3
  <2>3. InOrder(t, kind, log) BY <2>2, <1>5, <1>6, <1>8
  <2>4. \A m \in 1..Len(s), n \in 1..Len(t) : m < n + Len(s) BY <1>3
  <2>5. ASSUME NEW m \in 1..Len(s), NEW n \in 1..Len(t), {s[m], t[n]} \subseteq kind
        PROVE  b(s[m], t[n])
    <3>1. /\ (s \o t)[m] = s[m] /\ m \in 1..Len(s) + Len(t)
          /\ (s \o t)[n + Len(s)] = t[n] /\ n + Len(s) \in 1..Len(s) + Len(t)
      BY <1>4, <1>5
    <3>2. \A i, j \in 1..Len(s) + Len(t) :
            i < j /\ {(s \o t)[i], (s \o t)[j]} \subseteq kind => b((s \o t)[i], (s \o t)[j])
      BY <1>6, <1>8
    <3>3. m < n + Len(s) BY <2>4
    <3> QED BY <2>5, <3>1, <3>2, <3>3
  <2>6. Ahead(Range(s), Range(t), kind, log) BY <1>7, <2>5
  <2> QED BY <2>1, <2>3, <2>6
<1>9. ASSUME InOrder(s, kind, log), InOrder(t, kind, log), Ahead(Range(s), Range(t), kind, log)
      PROVE  InOrder(s \o t, kind, log)
  <2>1. SUFFICES ASSUME NEW m \in 1..Len(s) + Len(t), NEW n \in 1..Len(s) + Len(t), m < n,
                        {(s \o t)[m], (s \o t)[n]} \subseteq kind
                 PROVE  b((s \o t)[m], (s \o t)[n])
    BY <1>6
  <2>2. CASE n <= Len(s)
    <3>1. m \in 1..Len(s) /\ n \in 1..Len(s) /\ (s \o t)[m] = s[m] /\ (s \o t)[n] = s[n]
      BY <2>1, <2>2, <1>1, <1>3
    <3> QED BY <3>1, <2>1, <1>6, <1>9
  <2>3. CASE m <= Len(s) /\ ~(n <= Len(s))
    <3>1. m \in 1..Len(s) /\ n - Len(s) \in 1..Len(t) /\ (s \o t)[m] = s[m] /\ (s \o t)[n] = t[n - Len(s)]
      BY <2>1, <2>3, <1>1, <1>3
    <3> QED BY <3>1, <2>1, <1>7, <1>9
  <2>4. CASE ~(m <= Len(s)) /\ ~(n <= Len(s))
    <3>1. /\ m - Len(s) \in 1..Len(t) /\ n - Len(s) \in 1..Len(t) /\ m - Len(s) < n - Len(s)
          /\ (s \o t)[m] = t[m - Len(s)] /\ (s \o t)[n] = t[n - Len(s)]
      BY <2>1, <2>4, <1>1, <1>3
    <3> QED BY <3>1, <2>1, <1>6, <1>9
  <2>5. m <= Len(s) \/ ~(n <= Len(s)) BY <2>1, <1>3
  <2> QED BY <2>2, <2>3, <2>4, <2>5
<1> QED BY <1>8, <1>9

\* Nothing of the kind, nothing out of order.
LEMMA InOrderOthers ==
  ASSUME NEW s, NEW kind, NEW log, Range(s) \cap kind = {}
  PROVE  InOrder(s, kind, log)
<1>1. \A n \in DOMAIN s : s[n] \in Range(s) BY DEF Range
<1> QED BY <1>1 DEF InOrder

LEMMA AheadOf ==
  ASSUME NEW A, NEW B, NEW C, NEW kind, NEW log
  PROVE  /\ Ahead(A \cup B, C, kind, log) <=> Ahead(A, C, kind, log) /\ Ahead(B, C, kind, log)
         /\ Ahead(A, B \cup C, kind, log) <=> Ahead(A, B, kind, log) /\ Ahead(A, C, kind, log)
         /\ A \cap kind = {} \/ B \cap kind = {} => Ahead(A, B, kind, log)
BY DEF Ahead

\* The order of one kind along three queues, and along four.
LEMMA InOrderThree ==
  ASSUME NEW S, NEW s \in Seq(S), NEW t \in Seq(S), NEW u \in Seq(S), NEW kind, NEW log
  PROVE  InOrder(s \o t \o u, kind, log) <=>
           /\ InOrder(s, kind, log) /\ InOrder(t, kind, log) /\ InOrder(u, kind, log)
           /\ Ahead(Range(s), Range(t), kind, log) /\ Ahead(Range(s), Range(u), kind, log)
           /\ Ahead(Range(t), Range(u), kind, log)
<1> DEFINE st == s \o t
<1>1. st \in Seq(S) /\ Range(st) = Range(s) \cup Range(t) BY RangeJoined
<1>2. InOrder(st, kind, log) <=> InOrder(s, kind, log) /\ InOrder(t, kind, log)
                                   /\ Ahead(Range(s), Range(t), kind, log)
  BY InOrderJoined
<1> HIDE DEF st
<1>3. InOrder(st \o u, kind, log) <=> InOrder(st, kind, log) /\ InOrder(u, kind, log)
                                        /\ Ahead(Range(st), Range(u), kind, log)
  BY <1>1, InOrderJoined
<1>4. Ahead(Range(s) \cup Range(t), Range(u), kind, log) <=>
        Ahead(Range(s), Range(u), kind, log) /\ Ahead(Range(t), Range(u), kind, log)
  BY AheadOf, Zenon
<1> QED BY <1>1, <1>2, <1>3, <1>4 DEF st

LEMMA InOrderFour ==
  ASSUME NEW S, NEW s \in Seq(S), NEW t \in Seq(S), NEW u \in Seq(S), NEW v \in Seq(S),
         NEW kind, NEW log
  PROVE  InOrder(s \o t \o u \o v, kind, log) <=>
           /\ InOrder(s, kind, log) /\ InOrder(t, kind, log)
           /\ InOrder(u, kind, log) /\ InOrder(v, kind, log)
           /\ Ahead(Range(s), Range(t), kind, log) /\ Ahead(Range(s), Range(u), kind, log)
           /\ Ahead(Range(s), Range(v), kind, log) /\ Ahead(Range(t), Range(u), kind, log)
           /\ Ahead(Range(t), Range(v), kind, log) /\ Ahead(Range(u), Range(v), kind, log)
<1> DEFINE st == s \o t
<1>1. st \in Seq(S) /\ Range(st) = Range(s) \cup Range(t) BY RangeJoined
<1>2. InOrder(st, kind, log) <=> InOrder(s, kind, log) /\ InOrder(t, kind, log)
                                   /\ Ahead(Range(s), Range(t), kind, log)
  BY InOrderJoined
<1> HIDE DEF st
<1>3. InOrder(st \o u \o v, kind, log) <=>
        /\ InOrder(st, kind, log) /\ InOrder(u, kind, log) /\ InOrder(v, kind, log)
        /\ Ahead(Range(st), Range(u), kind, log) /\ Ahead(Range(st), Range(v), kind, log)
        /\ Ahead(Range(u), Range(v), kind, log)
  BY <1>1, InOrderThree
<1>4. /\ Ahead(Range(s) \cup Range(t), Range(u), kind, log) <=>
           Ahead(Range(s), Range(u), kind, log) /\ Ahead(Range(t), Range(u), kind, log)
      /\ Ahead(Range(s) \cup Range(t), Range(v), kind, log) <=>
           Ahead(Range(s), Range(v), kind, log) /\ Ahead(Range(t), Range(v), kind, log)
  BY AheadOf, Zenon
<1> QED BY <1>1, <1>2, <1>3, <1>4 DEF st

\* One more item is sent: it comes after all that were.
LEMMA LogGrows ==
  ASSUME NEW S, NEW log \in Seq(S), NEW e \in S, NEW new, new = Append(log, e)
  PROVE  /\ \A i, j : Before(log, i, j) => Before(new, i, j)
         /\ \A i \in Range(log) : Before(new, i, e)
<1>1. /\ DOMAIN log = 1..Len(log) /\ Len(log) \in Nat /\ DOMAIN new = 1..Len(log) + 1
      /\ \A n \in 1..Len(log) : new[n] = log[n]
      /\ new[Len(log) + 1] = e
  OBVIOUS
<1>2. \A i, j : Before(log, i, j) => Before(new, i, j) BY <1>1 DEF Before
<1>3. ASSUME NEW i \in Range(log) PROVE Before(new, i, e)
  <2>1. PICK n \in 1..Len(log) : log[n] = i BY <1>1 DEF Range
  <2>2. n < Len(log) + 1 /\ n \in DOMAIN new /\ Len(log) + 1 \in DOMAIN new BY <1>1
  <2> QED BY <2>1, <2>2, <1>1 DEF Before
<1> QED BY <1>2, <1>3

LEMMA OrderKept ==
  ASSUME NEW kind, NEW log, NEW new, \A i, j : Before(log, i, j) => Before(new, i, j)
  PROVE  /\ \A s : InOrder(s, kind, log) => InOrder(s, kind, new)
         /\ \A A, B : Ahead(A, B, kind, log) => Ahead(A, B, kind, new)
BY DEF InOrder, Ahead

\* A queue that takes what has just been sent.
LEMMA OrderTaken ==
  ASSUME NEW S, NEW log \in Seq(S), NEW e \in S, NEW new, new = Append(log, e), NEW kind,
         NEW s \in Seq(S), Range(s) \subseteq Range(log), InOrder(s, kind, log)
  PROVE  InOrder(Append(s, e), kind, new)
<1> DEFINE t == <<e>>
<1>1. t \in Seq(S) /\ Range(t) = {e} /\ Append(s, e) = s \o t BY DEF Range
<1>2. \A m, n \in DOMAIN t : ~(m < n) OBVIOUS
<1>3. InOrder(t, kind, new) BY <1>2 DEF InOrder
<1>4. InOrder(s, kind, new) BY LogGrows, OrderKept
<1>5. \A i \in Range(s) : Before(new, i, e) BY LogGrows
<1>6. Ahead(Range(s), Range(t), kind, new) BY <1>1, <1>5 DEF Ahead
<1> HIDE DEF t
<1>7. InOrder(s \o t, kind, new) BY <1>1, <1>3, <1>4, <1>6, InOrderJoined
<1> QED BY <1>1, <1>7

----------------------------------------------------------------------------
(* What a split keeps *)

\* Induction over the numbers, on sets.
LEMMA AllNumbers ==
  ASSUME NEW T, 0 \in T, \A n \in Nat : n \in T => n + 1 \in T
  PROVE  Nat \subseteq T
<1> DEFINE F == Nat \ T
<1>1. SUFFICES ASSUME F # {} PROVE FALSE OBVIOUS
<1>2. F \subseteq Nat OBVIOUS
<1> HIDE DEF F
<1>3. PICK m \in F : \A k \in F : <<k, m>> \notin OpToRel(<, Nat)
  BY <1>1, <1>2, WFMin, NatLessThanWellFounded
<1>4. \A k \in F : ~(k < m) BY <1>2, <1>3, Zenon DEF OpToRel
<1>5. m \in Nat /\ m # 0 /\ m \notin T BY DEF F
<1>6. m - 1 \in Nat /\ m - 1 < m /\ (m - 1) + 1 = m BY <1>5
<1>7. m - 1 \in T BY <1>4, <1>6 DEF F
<1> QED BY <1>5, <1>6, <1>7

\* The function Only folds the sequence with.
Keeps(s, kind, g, n) ==
  IF n = 0 THEN <<>> ELSE IF s[n] \in kind THEN Append(g[n - 1], s[n]) ELSE g[n - 1]

LEMMA OnlyFolds ==
  ASSUME NEW S, NEW s \in Seq(S), NEW kind
  PROVE  \E g : /\ g = [n \in 0..Len(s) |-> Keeps(s, kind, g, n)]
                /\ Only(s, kind) = g[Len(s)]
<1> DEFINE is(g, m) == g = [n \in 0..m |-> Keeps(s, kind, g, n)]
           T == {m \in Nat : \E g : is(g, m)}
<1>1. 0 \in T
  <2> DEFINE g == [n \in 0..0 |-> <<>>]
  <2>1. \A n \in 0..0 : Keeps(s, kind, g, n) = <<>> BY DEF Keeps
  <2>2. is(g, 0) BY <2>1
  <2> QED BY <2>2
<1>2. ASSUME NEW m \in Nat, m \in T PROVE m + 1 \in T
  <2>1. PICK g : is(g, m) BY <1>2
  <2> DEFINE h == [n \in 0..m + 1 |-> IF n = m + 1 THEN Keeps(s, kind, g, n) ELSE g[n]]
  <2>2. \A n \in 0..m : g[n] = Keeps(s, kind, g, n) BY <2>1
  <2>3. \A n \in 0..m : h[n] = g[n] OBVIOUS
  <2>4. ASSUME NEW n \in 0..m + 1 PROVE h[n] = Keeps(s, kind, h, n)
    <3>1. h[n] = Keeps(s, kind, g, n) BY <2>2
    <3>2. n = 0 \/ n - 1 \in 0..m OBVIOUS
    <3> HIDE DEF h
    <3>3. n = 0 \/ h[n - 1] = g[n - 1] BY <2>3, <3>2
    <3>4. Keeps(s, kind, h, n) = Keeps(s, kind, g, n) BY <3>3 DEF Keeps
    <3> QED BY <3>1, <3>4
  <2>5. h = [n \in 0..m + 1 |-> h[n]] OBVIOUS
  <2> HIDE DEF h
  <2>6. h = [n \in 0..m + 1 |-> Keeps(s, kind, h, n)] BY <2>4, <2>5
  <2>7. is(h, m + 1) BY <2>6
  <2> QED BY <2>7
<1> HIDE DEF T
<1>3. Len(s) \in T BY <1>1, <1>2, AllNumbers
<1> DEFINE kept == CHOOSE g : is(g, Len(s))
<1>4. is(kept, Len(s)) BY <1>3 DEF T
<1>5. Only(s, kind) = kept[Len(s)] BY Zenon DEF Only, Keeps
<1> HIDE DEF kept
<1> QED BY <1>4, <1>5

\* t is what the first m elements of s have of a kind.
Thinned(t, s, m, kind) ==
  /\ Range(t) = {s[n] : n \in 1..m} \cap kind
  /\ \A a, b \in DOMAIN t : a < b => \E i, j \in 1..m : i < j /\ s[i] = t[a] /\ s[j] = t[b]

LEMMA OnlyThins ==
  ASSUME NEW S, NEW s \in Seq(S), NEW kind
  PROVE  Only(s, kind) \in Seq(S \cap kind) /\ Thinned(Only(s, kind), s, Len(s), kind)
<1>1. PICK g : g = [n \in 0..Len(s) |-> Keeps(s, kind, g, n)] /\ Only(s, kind) = g[Len(s)]
  BY OnlyFolds
<1>2. \A n \in 0..Len(s) : g[n] = Keeps(s, kind, g, n) BY <1>1
<1> DEFINE good(n) == g[n] \in Seq(S \cap kind) /\ Thinned(g[n], s, n, kind)
           T == {n \in Nat : n <= Len(s) => good(n)}
<1>3. Len(s) \in Nat /\ \A n \in 1..Len(s) : s[n] \in S OBVIOUS
<1>4. 0 \in T
  <2>1. g[0] = <<>> BY <1>2, <1>3 DEF Keeps
  <2>2. Thinned(<<>>, s, 0, kind) BY RangeOfEmpty DEF Thinned
  <2>3. <<>> \in Seq(S \cap kind) OBVIOUS
  <2> QED BY <2>1, <2>2, <2>3
<1>5. ASSUME NEW m \in Nat, m \in T PROVE m + 1 \in T
  <2>1. SUFFICES ASSUME m + 1 <= Len(s) PROVE good(m + 1) OBVIOUS
  <2>2. good(m) /\ m + 1 \in 1..Len(s) /\ m + 1 \in 0..Len(s) /\ (m + 1) - 1 = m /\ m + 1 # 0
    BY <1>3, <1>5, <2>1
  <2> DEFINE t == g[m]
             e == s[m + 1]
  <2>3. g[m + 1] = IF e \in kind THEN Append(t, e) ELSE t BY <1>2, <2>2 DEF Keeps
  <2>4. t \in Seq(S \cap kind) /\ Thinned(t, s, m, kind) /\ e \in S BY <1>3, <2>2
  <2>5. {s[n] : n \in 1..m + 1} = {s[n] : n \in 1..m} \cup {e}
    <3>1. \A n \in 1..m + 1 : n \in 1..m \/ n = m + 1 OBVIOUS
    <3>2. 1..m \subseteq 1..m + 1 /\ m + 1 \in 1..m + 1 OBVIOUS
    <3> QED BY <3>1, <3>2
  <2>6. \A i \in 1..m : i \in 1..m + 1 /\ i < m + 1 OBVIOUS
  <2> HIDE DEF t
  <2>7. CASE e \in kind
    <3>1. e \in S \cap kind BY <2>4, <2>7
    <3>2. Append(t, e) \in Seq(S \cap kind) /\ Range(Append(t, e)) = Range(t) \cup {e}
      BY <2>4, <3>1, RangeAppended
    <3>3. Range(Append(t, e)) = {s[n] : n \in 1..m + 1} \cap kind
      BY <2>4, <2>5, <3>1, <3>2 DEF Thinned
    <3>4. /\ DOMAIN t = 1..Len(t) /\ Len(t) \in Nat /\ DOMAIN Append(t, e) = 1..Len(t) + 1
          /\ \A a \in 1..Len(t) : Append(t, e)[a] = t[a]
          /\ Append(t, e)[Len(t) + 1] = e
      BY <2>4
    <3>5. ASSUME NEW a \in 1..Len(t) + 1, NEW b \in 1..Len(t) + 1, a < b
          PROVE  \E i, j \in 1..m + 1 : i < j /\ s[i] = Append(t, e)[a] /\ s[j] = Append(t, e)[b]
      <4>1. a \in 1..Len(t) BY <3>4, <3>5
      <4>2. CASE b \in 1..Len(t)
        <5>1. \A x, y \in DOMAIN t : x < y => \E i, j \in 1..m : i < j /\ s[i] = t[x] /\ s[j] = t[y]
          BY <2>4, Zenon DEF Thinned
        <5>2. a \in DOMAIN t /\ b \in DOMAIN t BY <3>4, <4>1, <4>2
        <5>3. PICK i, j \in 1..m : i < j /\ s[i] = t[a] /\ s[j] = t[b] BY <3>5, <5>1, <5>2, Zenon
        <5> QED BY <5>3, <2>6, <3>4, <4>1, <4>2
      <4>3. CASE b = Len(t) + 1
        <5>1. t[a] \in Range(t) BY <3>4, <4>1 DEF Range
        <5>2. PICK i \in 1..m : s[i] = t[a] BY <2>4, <5>1 DEF Thinned
        <5>3. m + 1 \in 1..m + 1 /\ s[m + 1] = Append(t, e)[b] BY <3>4, <4>3
        <5> QED BY <5>2, <5>3, <2>6, <3>4, <4>1
      <4> QED BY <4>2, <4>3, <3>4
    <3>6. Thinned(Append(t, e), s, m + 1, kind) BY <3>3, <3>4, <3>5 DEF Thinned
    <3> QED BY <2>3, <2>7, <3>2, <3>6
  <2>8. CASE e \notin kind
    <3>1. Range(t) = {s[n] : n \in 1..m + 1} \cap kind BY <2>4, <2>5, <2>8 DEF Thinned
    <3>2. Thinned(t, s, m + 1, kind) BY <2>4, <2>6, <3>1 DEF Thinned
    <3> QED BY <2>3, <2>4, <2>8, <3>2
  <2> QED BY <2>7, <2>8
<1> HIDE DEF T
<1>6. Len(s) \in T BY <1>3, <1>4, <1>5, AllNumbers
<1>7. good(Len(s)) BY <1>3, <1>6 DEF T
<1> QED BY <1>1, <1>7

\* What the end of a turn makes of its queues: a part of each kind, as often and
\* in the order it was there.
LEMMA OnlyGives ==
  ASSUME NEW S, NEW s \in Seq(S), NEW kind, kind \subseteq S, NEW t, t = Only(s, kind)
  PROVE  /\ t \in Seq(kind) /\ Range(t) = Range(s) \cap kind
         /\ Once(s) => Once(t)
         /\ \A of, log : InOrder(s, of, log) => InOrder(t, of, log)
<1>1. t \in Seq(S \cap kind) /\ Thinned(t, s, Len(s), kind) BY OnlyThins
<1>2. t \in Seq(kind)
  <2>1. S \cap kind = kind OBVIOUS
  <2> QED BY <1>1, <2>1
<1>3. DOMAIN s = 1..Len(s) /\ DOMAIN t = 1..Len(t) /\ Len(t) \in Nat BY <1>2
<1>4. Range(t) = Range(s) \cap kind BY <1>1, <1>3 DEF Thinned, Range
<1>5. \A a, b \in DOMAIN t : a < b => \E i, j \in DOMAIN s : i < j /\ s[i] = t[a] /\ s[j] = t[b]
  <2>1. \A a, b \in DOMAIN t : a < b => \E i, j \in 1..Len(s) : i < j /\ s[i] = t[a] /\ s[j] = t[b]
    BY <1>1, Zenon DEF Thinned
  <2>2. SUFFICES ASSUME NEW a \in DOMAIN t, NEW b \in DOMAIN t, a < b
                 PROVE  \E i, j \in DOMAIN s : i < j /\ s[i] = t[a] /\ s[j] = t[b]
    OBVIOUS
  <2>3. PICK i, j \in 1..Len(s) : i < j /\ s[i] = t[a] /\ s[j] = t[b] BY <2>1, <2>2, Zenon
  <2>4. i \in DOMAIN s /\ j \in DOMAIN s BY <1>3
  <2> QED BY <2>3, <2>4, Zenon
<1>6. ASSUME Once(s) PROVE Once(t)
  <2>1. \A i, j \in DOMAIN s : i < j => s[i] # s[j]
    <3>1. \A i, j \in DOMAIN s : i < j => i # j BY <1>3
    <3> QED BY <3>1, <1>6 DEF Once
  <2>2. \A a, b \in DOMAIN t : a < b => t[a] # t[b] BY <1>5, <2>1
  <2>3. \A a, b \in DOMAIN t : a < b \/ b < a \/ a = b BY <1>3
  <2> QED BY <2>2, <2>3 DEF Once
<1>7. ASSUME NEW of, NEW log, InOrder(s, of, log) PROVE InOrder(t, of, log)
  BY <1>5, <1>7 DEF InOrder
<1> QED BY <1>2, <1>4, <1>6, <1>7

----------------------------------------------------------------------------
(* Drafts *)

LEMMA WrittenAppended ==
  ASSUME NEW S, NEW hb \in Seq(Seq(S)), NEW d \in Seq(S)
  PROVE  /\ Append(hb, d) \in Seq(Seq(S))
         /\ Written(Append(hb, d)) = Written(hb) \cup Range(d)
         /\ WrittenOnce(hb) /\ Once(d) /\ Written(hb) \cap Range(d) = {}
              => WrittenOnce(Append(hb, d))
         /\ \A kind, log : (\A i \in DOMAIN hb : InOrder(hb[i], kind, log)) /\ InOrder(d, kind, log)
              => \A i \in DOMAIN Append(hb, d) : InOrder(Append(hb, d)[i], kind, log)
<1> DEFINE new == Append(hb, d)
<1>1. new \in Seq(Seq(S)) OBVIOUS
<1>2. /\ DOMAIN hb = 1..Len(hb) /\ Len(hb) \in Nat /\ DOMAIN new = 1..Len(hb) + 1
      /\ \A i \in 1..Len(hb) : new[i] = hb[i]
      /\ new[Len(hb) + 1] = d
  OBVIOUS
<1>3. \A i \in 1..Len(hb) + 1 : i \in 1..Len(hb) \/ i = Len(hb) + 1 BY <1>2
<1>4. \A i \in 1..Len(hb) : i \in 1..Len(hb) + 1 BY <1>2
<1>5. Len(hb) + 1 \in 1..Len(hb) + 1 BY <1>2
<1> HIDE DEF new
<1>6. Written(new) = Written(hb) \cup Range(d)
  <2>1. \A x : x \in Written(new) <=> \E i \in 1..Len(hb) + 1 : x \in Range(new[i])
    BY <1>2 DEF Written
  <2>2. \A x : x \in Written(hb) <=> \E i \in 1..Len(hb) : x \in Range(hb[i])
    BY <1>2 DEF Written
  <2>3. \A x : x \in Written(new) <=> x \in Written(hb) \/ x \in Range(d)
    BY <1>2, <1>3, <1>4, <1>5, <2>1, <2>2
  <2> QED BY <2>3
<1>7. ASSUME WrittenOnce(hb), Once(d), Written(hb) \cap Range(d) = {} PROVE WrittenOnce(new)
  <2>1. \A i \in 1..Len(hb) : \A m \in DOMAIN hb[i], n \in DOMAIN d : hb[i][m] # d[n]
    <3>1. \A i \in 1..Len(hb) : Range(hb[i]) \cap Range(d) = {} BY <1>2, <1>7 DEF Written
    <3> QED BY <3>1 DEF Range
  <2>2. SUFFICES ASSUME NEW i \in DOMAIN new, NEW j \in DOMAIN new,
                        NEW m \in DOMAIN new[i], NEW n \in DOMAIN new[j], new[i][m] = new[j][n]
                 PROVE  i = j /\ m = n
    BY Zenon DEF WrittenOnce
  <2>3. CASE i \in 1..Len(hb) /\ j \in 1..Len(hb)
    <3>1. new[i] = hb[i] /\ new[j] = hb[j] BY <2>3, <1>2
    <3> QED BY <3>1, <2>2, <2>3, <1>2, <1>7 DEF WrittenOnce
  <2>4. CASE i \in 1..Len(hb) /\ j = Len(hb) + 1
    <3>1. new[i] = hb[i] /\ new[j] = d BY <2>4, <1>2
    <3> QED BY <3>1, <2>1, <2>2, <2>4
  <2>5. CASE i = Len(hb) + 1 /\ j \in 1..Len(hb)
    <3>1. new[i] = d /\ new[j] = hb[j] BY <2>5, <1>2
    <3>2. hb[j][n] # d[m] BY <3>1, <2>1, <2>2, <2>5
    <3> QED BY <3>1, <3>2, <2>2
  <2>6. CASE i = Len(hb) + 1 /\ j = Len(hb) + 1
    <3>1. new[i] = d /\ new[j] = d BY <2>6, <1>2
    <3> QED BY <3>1, <2>2, <2>6, <1>7 DEF Once
  <2> QED BY <2>2, <2>3, <2>4, <2>5, <2>6, <1>2, <1>3
<1>8. ASSUME NEW kind, NEW log, \A i \in DOMAIN hb : InOrder(hb[i], kind, log), InOrder(d, kind, log)
      PROVE  \A i \in DOMAIN new : InOrder(new[i], kind, log)
  <2>1. SUFFICES ASSUME NEW i \in DOMAIN new PROVE InOrder(new[i], kind, log) OBVIOUS
  <2>2. CASE i \in 1..Len(hb) BY <2>2, <1>2, <1>8
  <2>3. CASE i = Len(hb) + 1 BY <2>3, <1>2, <1>8
  <2> QED BY <2>2, <2>3, <1>2, <1>3
<1> QED BY <1>1, <1>6, <1>7, <1>8, Zenon DEF new

LEMMA WrittenTail ==
  ASSUME NEW S, NEW hb \in Seq(Seq(S)), hb # <<>>
  PROVE  /\ Head(hb) \in Seq(S) /\ Tail(hb) \in Seq(Seq(S))
         /\ Written(hb) = Range(Head(hb)) \cup Written(Tail(hb))
         /\ WrittenOnce(hb) => /\ WrittenOnce(Tail(hb)) /\ Once(Head(hb))
                               /\ Range(Head(hb)) \cap Written(Tail(hb)) = {}
         /\ \A kind, log : (\A i \in DOMAIN hb : InOrder(hb[i], kind, log))
              => \A i \in DOMAIN Tail(hb) : InOrder(Tail(hb)[i], kind, log)
<1> DEFINE d == Head(hb)
           new == Tail(hb)
<1>1. d \in Seq(S) /\ new \in Seq(Seq(S)) /\ d = hb[1] BY HeadTailProperties
<1>2. /\ DOMAIN hb = 1..Len(hb) /\ Len(hb) \in Nat \ {0} /\ DOMAIN new = 1..Len(hb) - 1
      /\ \A i \in 1..Len(hb) - 1 : new[i] = hb[i + 1]
  BY HeadTailProperties
<1>3. \A i \in 1..Len(hb) : i = 1 \/ (i - 1 \in 1..Len(hb) - 1 /\ hb[i] = new[i - 1]) BY <1>2
<1>4. \A i \in 1..Len(hb) - 1 : i + 1 \in 1..Len(hb) /\ i + 1 # 1 /\ new[i] = hb[i + 1] BY <1>2
<1>5. 1 \in 1..Len(hb) BY <1>2
<1> HIDE DEF new, d
<1>6. Written(hb) = Range(d) \cup Written(new)
  <2>1. \A x : x \in Written(new) <=> \E i \in 1..Len(hb) - 1 : x \in Range(new[i])
    BY <1>2 DEF Written
  <2>2. \A x : x \in Written(hb) <=> \E i \in 1..Len(hb) : x \in Range(hb[i])
    BY <1>2 DEF Written
  <2>3. ASSUME NEW x, x \in Written(hb) PROVE x \in Written(new) \/ x \in Range(d)
    <3>1. PICK i \in 1..Len(hb) : x \in Range(hb[i]) BY <2>2, <2>3
    <3>2. CASE i = 1 BY <1>1, <3>1, <3>2
    <3>3. CASE i # 1 BY <1>3, <2>1, <3>1, <3>3
    <3> QED BY <3>2, <3>3
  <2>4. ASSUME NEW x, x \in Written(new) PROVE x \in Written(hb)
    <3>1. PICK i \in 1..Len(hb) - 1 : x \in Range(new[i]) BY <2>1, <2>4
    <3>2. i + 1 \in 1..Len(hb) /\ new[i] = hb[i + 1] BY <1>4
    <3> QED BY <2>2, <3>1, <3>2
  <2>5. \A x : x \in Range(d) => x \in Written(hb) BY <1>1, <1>5, <2>2
  <2> QED BY <2>3, <2>4, <2>5
<1>7. ASSUME WrittenOnce(hb)
      PROVE  WrittenOnce(new) /\ Once(d) /\ Range(d) \cap Written(new) = {}
  <2>1. \A i, j \in 1..Len(hb) : \A m \in DOMAIN hb[i], n \in DOMAIN hb[j] :
          hb[i][m] = hb[j][n] => i = j /\ m = n
    BY <1>2, <1>7 DEF WrittenOnce
  <2>2. \A m, n \in DOMAIN d : d[m] = d[n] => m = n BY <1>1, <1>5, <2>1
  <2>3. WrittenOnce(new)
    <3>1. SUFFICES ASSUME NEW i \in DOMAIN new, NEW j \in DOMAIN new,
                          NEW m \in DOMAIN new[i], NEW n \in DOMAIN new[j], new[i][m] = new[j][n]
                   PROVE  i = j /\ m = n
      BY Zenon DEF WrittenOnce
    <3>2. /\ i \in 1..Len(hb) - 1 /\ i + 1 \in 1..Len(hb) /\ new[i] = hb[i + 1]
          /\ j \in 1..Len(hb) - 1 /\ j + 1 \in 1..Len(hb) /\ new[j] = hb[j + 1]
      BY <1>2, <1>4, <3>1
    <3>3. \A o \in DOMAIN hb[i + 1], p \in DOMAIN hb[j + 1] :
            hb[i + 1][o] = hb[j + 1][p] => i + 1 = j + 1 /\ o = p
      BY <2>1, <3>2
    <3>4. \A o \in DOMAIN new[i], p \in DOMAIN new[j] :
            new[i][o] = new[j][p] => i + 1 = j + 1 /\ o = p
      BY <3>2, <3>3, Zenon
    <3>5. i + 1 = j + 1 /\ m = n BY <3>1, <3>4
    <3> QED BY <3>2, <3>5
  <2>4. ASSUME NEW x \in Range(d), x \in Written(new) PROVE FALSE
    <3>1. PICK m \in DOMAIN d : d[m] = x BY <2>4 DEF Range
    <3>2. PICK i \in 1..Len(hb) - 1 : x \in Range(new[i]) BY <2>4, <1>2 DEF Written
    <3>3. PICK n \in DOMAIN new[i] : new[i][n] = x BY <3>2 DEF Range
    <3>4. i + 1 \in 1..Len(hb) /\ i + 1 # 1 /\ new[i] = hb[i + 1] BY <1>4
    <3>5. 1 = i + 1 BY <3>1, <3>3, <3>4, <2>1, <1>1, <1>5
    <3> QED BY <3>4, <3>5
  <2> QED BY <2>2, <2>3, <2>4 DEF Once
<1>8. ASSUME NEW kind, NEW log, \A i \in DOMAIN hb : InOrder(hb[i], kind, log)
      PROVE  \A i \in DOMAIN new : InOrder(new[i], kind, log)
  BY <1>2, <1>4, <1>8
<1> QED BY <1>1, <1>6, <1>7, <1>8, Zenon DEF new, d

----------------------------------------------------------------------------
(* Places *)

\* Where things lie.
Place == {"stash", "flushing", "carried", "steerq", "followq", "swept", "drafts", "acked",
          "returned", "dropped"}

\* M goes from one place to another.
LEMMA Moved ==
  ASSUME NEW R, NEW T, DOMAIN T = DOMAIN R, NEW a \in DOMAIN R, NEW b \in DOMAIN R, a # b, NEW M,
         R[a] = M \cup T[a], T[a] \cap M = {}, T[b] = R[b] \cup M,
         \A p \in DOMAIN R : p # a /\ p # b => T[p] = R[p],
         Apart(R)
  PROVE  Apart(T) /\ Content(T) = Content(R)
<1>1. \A p, q \in DOMAIN R : p # q => \A x : ~(x \in R[p] /\ x \in R[q]) BY DEF Apart
<1>2. ASSUME NEW p \in DOMAIN R, NEW q \in DOMAIN R, p # q, NEW x, x \in T[p], x \in T[q]
      PROVE  FALSE
  <2>1. CASE p = b /\ q = a BY <1>1, <1>2, <2>1
  <2>2. CASE p = a /\ q = b BY <1>1, <1>2, <2>2
  <2>3. CASE p = b /\ q # a BY <1>1, <1>2, <2>3
  <2>4. CASE p # a /\ q = b BY <1>1, <1>2, <2>4
  <2>5. CASE p # b /\ q # b
    <3>1. x \in R[p] /\ x \in R[q] BY <1>2, <2>5
    <3> QED BY <3>1, <1>1, <1>2
  <2> QED BY <2>1, <2>2, <2>3, <2>4, <2>5
<1>3. Apart(T) BY <1>2 DEF Apart
<1>4. \A x : (\E p \in DOMAIN R : x \in T[p]) <=> (\E p \in DOMAIN R : x \in R[p])
  <2>1. ASSUME NEW x, NEW p \in DOMAIN R, x \in T[p] PROVE \E q \in DOMAIN R : x \in R[q]
    <3>1. CASE p = a BY <2>1, <3>1
    <3>2. CASE p = b BY <2>1, <3>2
    <3>3. CASE p # a /\ p # b BY <2>1, <3>3
    <3> QED BY <3>1, <3>2, <3>3
  <2>2. ASSUME NEW x, NEW p \in DOMAIN R, x \in R[p] PROVE \E q \in DOMAIN R : x \in T[q]
    <3>1. CASE p = a BY <2>2, <3>1
    <3>2. CASE p = b BY <2>2, <3>2
    <3>3. CASE p # a /\ p # b BY <2>2, <3>3
    <3> QED BY <3>1, <3>2, <3>3
  <2> QED BY <2>1, <2>2
<1>5. \A x : x \in Content(T) <=> \E p \in DOMAIN R : x \in T[p] BY DEF Content
<1>6. \A x : x \in Content(R) <=> \E p \in DOMAIN R : x \in R[p] BY DEF Content
<1>7. Content(T) = Content(R) BY <1>4, <1>5, <1>6
<1> QED BY <1>3, <1>7

\* Something that lay nowhere comes to a place.
LEMMA Arrived ==
  ASSUME NEW R, NEW T, DOMAIN T = DOMAIN R, NEW b \in DOMAIN R, NEW e, e \notin Content(R),
         T[b] = R[b] \cup {e}, \A p \in DOMAIN R : p # b => T[p] = R[p],
         Apart(R)
  PROVE  Apart(T) /\ Content(T) = Content(R) \cup {e}
<1>1. \A p, q \in DOMAIN R : p # q => \A x : ~(x \in R[p] /\ x \in R[q]) BY DEF Apart
<1>2. \A p \in DOMAIN R : e \notin R[p] BY DEF Content
<1>3. ASSUME NEW p \in DOMAIN R, NEW q \in DOMAIN R, p # q, NEW x, x \in T[p], x \in T[q]
      PROVE  FALSE
  <2>1. CASE p = b BY <1>1, <1>2, <1>3, <2>1
  <2>2. CASE q = b BY <1>1, <1>2, <1>3, <2>2
  <2>3. CASE p # b /\ q # b BY <1>1, <1>3, <2>3
  <2> QED BY <2>1, <2>2, <2>3
<1>4. Apart(T) BY <1>3 DEF Apart
<1>5. \A x : (\E p \in DOMAIN R : x \in T[p]) <=> (\E p \in DOMAIN R : x \in R[p]) \/ x = e
  <2>1. ASSUME NEW x, NEW p \in DOMAIN R, x \in T[p]
        PROVE  (\E q \in DOMAIN R : x \in R[q]) \/ x = e
    <3>1. CASE p = b BY <2>1, <3>1
    <3>2. CASE p # b BY <2>1, <3>2
    <3> QED BY <3>1, <3>2
  <2>2. ASSUME NEW x, NEW p \in DOMAIN R, x \in R[p] PROVE \E q \in DOMAIN R : x \in T[q]
    <3>1. CASE p = b BY <2>2, <3>1
    <3>2. CASE p # b BY <2>2, <3>2
    <3> QED BY <3>1, <3>2
  <2>3. e \in T[b] OBVIOUS
  <2> QED BY <2>1, <2>2, <2>3
<1>6. \A x : x \in Content(T) <=> \E p \in DOMAIN R : x \in T[p] BY DEF Content
<1>7. \A x : x \in Content(R) <=> \E p \in DOMAIN R : x \in R[p] BY DEF Content
<1>8. Content(T) = Content(R) \cup {e} BY <1>5, <1>6, <1>7
<1> QED BY <1>4, <1>8

\* A place is emptied into nowhere.
LEMMA Left ==
  ASSUME NEW R, NEW T, DOMAIN T = DOMAIN R, \A p \in DOMAIN R : T[p] \subseteq R[p], Apart(R)
  PROVE  Apart(T) /\ Content(T) \subseteq Content(R)
<1>1. \A p, q \in DOMAIN R : p # q => R[p] \cap R[q] = {} BY DEF Apart
<1>2. Apart(T) BY <1>1 DEF Apart
<1>3. Content(T) \subseteq Content(R) BY DEF Content
<1> QED BY <1>2, <1>3

LEMMA HoldingIs ==
  /\ DOMAIN Holding = Place
  /\ Holding["stash"] = Range(stash) /\ Holding["flushing"] = Range(flushing)
  /\ Holding["carried"] = Range(carried) /\ Holding["steerq"] = Range(steerq)
  /\ Holding["followq"] = Range(followq) /\ Holding["swept"] = Range(swept)
  /\ Holding["drafts"] = Written(handback) /\ Holding["acked"] = Range(acked)
  /\ Holding["returned"] = Range(returned) /\ Holding["dropped"] = Range(dropped)
BY DEF Holding, Place

LEMMA HoldingIsThen ==
  /\ DOMAIN Holding' = Place
  /\ Holding'["stash"] = Range(stash') /\ Holding'["flushing"] = Range(flushing')
  /\ Holding'["carried"] = Range(carried') /\ Holding'["steerq"] = Range(steerq')
  /\ Holding'["followq"] = Range(followq') /\ Holding'["swept"] = Range(swept')
  /\ Holding'["drafts"] = Written(handback') /\ Holding'["acked"] = Range(acked')
  /\ Holding'["returned"] = Range(returned') /\ Holding'["dropped"] = Range(dropped')
BY DEF Holding, Place

\* All but one or two places hold what they held.
Same(p) == Holding'[p] = Holding[p]

\* A step that takes M from a to b.
LEMMA PlacedMoved ==
  ASSUME Placed, NEW a \in Place, NEW b \in Place, a # b, NEW M,
         Holding[a] = M \cup Holding'[a], Holding'[a] \cap M = {}, Holding'[b] = Holding[b] \cup M,
         \A p \in Place : p # a /\ p # b => Same(p),
         sent' = sent, inline' = inline
  PROVE  Placed'
<1>1. DOMAIN Holding = Place /\ DOMAIN Holding' = Place BY HoldingIs, HoldingIsThen
<1>2. \A p \in DOMAIN Holding : p # a /\ p # b => Holding'[p] = Holding[p] BY <1>1 DEF Same
<1> DEFINE R == Holding
           T == Holding'
<1>3. DOMAIN T = DOMAIN R /\ a \in DOMAIN R /\ b \in DOMAIN R BY <1>1
<1>4. R[a] = M \cup T[a] /\ T[a] \cap M = {} /\ T[b] = R[b] \cup M
      /\ \A p \in DOMAIN R : p # a /\ p # b => T[p] = R[p]
  BY <1>2
<1>5. Apart(R) /\ Content(R) \subseteq Range(sent) /\ (~inline => Range(sent) \subseteq Content(R))
  BY DEF Placed
<1> HIDE DEF R, T
<1>6. Apart(T) /\ Content(T) = Content(R) BY <1>3, <1>4, <1>5, Moved
<1>7. Apart(T) /\ Content(T) \subseteq Range(sent) /\ (~inline => Range(sent) \subseteq Content(T))
  BY <1>5, <1>6
<1> QED BY <1>7 DEF Placed, T

\* A step that sends e to b.
LEMMA PlacedArrived ==
  ASSUME TypeOK, Placed, NEW b \in Place, NEW e \in Item, Unsent(e), Send(e),
         Holding'[b] = Holding[b] \cup {e}, \A p \in Place : p # b => Same(p),
         inline' = inline
  PROVE  Placed'
<1>1. DOMAIN Holding = Place /\ DOMAIN Holding' = Place BY HoldingIs, HoldingIsThen
<1>2. \A p \in DOMAIN Holding : p # b => Holding'[p] = Holding[p] BY <1>1 DEF Same
<1>3. Range(sent') = Range(sent) \cup {e}
  <2>1. sent \in Seq(Item) /\ sent' = Append(sent, e) BY DEF TypeOK, Send
  <2> QED BY <2>1, RangeAppended
<1> DEFINE R == Holding
           T == Holding'
<1>4. DOMAIN T = DOMAIN R /\ b \in DOMAIN R BY <1>1
<1>5. T[b] = R[b] \cup {e} /\ \A p \in DOMAIN R : p # b => T[p] = R[p] BY <1>2
<1>6. Apart(R) /\ Content(R) \subseteq Range(sent) /\ (~inline => Range(sent) \subseteq Content(R))
  BY DEF Placed
<1>7. e \notin Content(R) BY <1>6 DEF Unsent
<1> HIDE DEF R, T
<1>8. Apart(T) /\ Content(T) = Content(R) \cup {e} BY <1>4, <1>5, <1>6, <1>7, Arrived
<1>9. Apart(T) /\ Content(T) \subseteq Range(sent') /\ (~inline => Range(sent') \subseteq Content(T))
  BY <1>3, <1>6, <1>8
<1> QED BY <1>9 DEF Placed, T

\* A step that leaves everything where it is.
Data == <<stash, flushing, carried, steerq, followq, swept, handback, acked, returned, dropped,
          sent, inline>>
LEMMA PlacedStill ==
  ASSUME Single, Placed, LinesInOrder, UNCHANGED Data
  PROVE  Single' /\ Placed' /\ LinesInOrder'
<1>1. Holding' = Holding BY DEF Data, Holding
<1>2. Placed' BY <1>1 DEF Placed, Data
<1>3. Single' BY DEF Single, Data
<1>4. LinesInOrder' BY DEF LinesInOrder, Data
<1> QED BY <1>2, <1>3, <1>4

\* Every item is prose or a completion, and no prose is a completion.
LEMMA ItemKinds ==
  /\ Item = Prose \cup Peer /\ Prose \cap Peer = {} /\ Line \cap FollowUp = {}
  /\ Line \cap Peer = {} /\ FollowUp \cap Peer = {}
  /\ Line \subseteq Item /\ FollowUp \subseteq Item /\ Peer \subseteq Item
  /\ Prose = Line \cup FollowUp /\ Prose \subseteq Item
BY Kinds DEF Item, Prose

LEMMA QueuesTyped ==
  ASSUME TypeOK
  PROVE  /\ stash \in Seq(Item) /\ flushing \in Seq(Item) /\ carried \in Seq(Item)
         /\ steerq \in Seq(Item) /\ followq \in Seq(Item) /\ swept \in Seq(Item)
         /\ acked \in Seq(Item) /\ sent \in Seq(Item)
         /\ followq \in Seq(Prose)
BY ItemKinds, SeqMonotonic DEF TypeOK

LEMMA RangesSent ==
  ASSUME TypeOK, Placed
  PROVE  /\ Range(stash) \subseteq Range(sent) /\ Range(flushing) \subseteq Range(sent)
         /\ Range(carried) \subseteq Range(sent) /\ Range(steerq) \subseteq Range(sent)
         /\ Range(followq) \subseteq Range(sent) /\ Range(swept) \subseteq Range(sent)
         /\ Range(acked) \subseteq Range(sent)
<1>1. \A p \in Place : Holding[p] \subseteq Range(sent)
  BY HoldingIs DEF Placed, Content
<1> QED BY <1>1, HoldingIs DEF Place

LEMMA RangesApart ==
  ASSUME Placed
  PROVE  /\ Range(stash) \cap Range(flushing) = {} /\ Range(stash) \cap Range(swept) = {}
         /\ Range(flushing) \cap Range(steerq) = {} /\ Range(carried) \cap Range(steerq) = {}
         /\ Range(carried) \cap Range(followq) = {} /\ Range(steerq) \cap Range(followq) = {}
         /\ Range(steerq) \cap Range(swept) = {} /\ Range(steerq) \cap Range(acked) = {}
         /\ Range(followq) \cap Range(swept) = {} /\ Range(followq) \cap Range(acked) = {}
         /\ Written(handback) \cap Range(steerq) = {} /\ Written(handback) \cap Range(followq) = {}
         /\ Written(handback) \cap Range(returned) = {} /\ Written(handback) \cap Range(dropped) = {}
<1>1. \A p, q \in Place : p # q => Holding[p] \cap Holding[q] = {}
  BY HoldingIs DEF Placed, Apart
<1> QED BY <1>1, HoldingIs DEF Place

\* Orders of sequences in a row, with something of another kind put in or moved.
LEMMA InOrderPut ==
  ASSUME NEW S, NEW s \in Seq(S), NEW t \in Seq(S), NEW u \in Seq(S), NEW kind, NEW log,
         Range(t) \cap kind = {}
  PROVE  /\ InOrder(s \o u, kind, log) => InOrder(s \o t \o u, kind, log)
         /\ InOrder(s \o t \o u, kind, log) => InOrder(s \o u \o t, kind, log)
         /\ InOrder(s \o t \o u, kind, log) => InOrder(s \o u, kind, log)
<1>1. InOrder(s \o u, kind, log) <=>
        InOrder(s, kind, log) /\ InOrder(u, kind, log) /\ Ahead(Range(s), Range(u), kind, log)
  BY InOrderJoined
<1>2. InOrder(s \o t \o u, kind, log) <=>
        /\ InOrder(s, kind, log) /\ InOrder(t, kind, log) /\ InOrder(u, kind, log)
        /\ Ahead(Range(s), Range(t), kind, log) /\ Ahead(Range(s), Range(u), kind, log)
        /\ Ahead(Range(t), Range(u), kind, log)
  BY InOrderThree
<1>3. InOrder(s \o u \o t, kind, log) <=>
        /\ InOrder(s, kind, log) /\ InOrder(u, kind, log) /\ InOrder(t, kind, log)
        /\ Ahead(Range(s), Range(u), kind, log) /\ Ahead(Range(s), Range(t), kind, log)
        /\ Ahead(Range(u), Range(t), kind, log)
  BY InOrderThree
<1>4. InOrder(t, kind, log) BY InOrderOthers
<1>5. /\ Ahead(Range(s), Range(t), kind, log) /\ Ahead(Range(t), Range(u), kind, log)
      /\ Ahead(Range(u), Range(t), kind, log)
  BY DEF Ahead
<1> QED BY <1>1, <1>2, <1>3, <1>4, <1>5

LEMMA InOrderPeers ==
  ASSUME NEW s \in Seq(Item), Range(s) \subseteq Peer, NEW log
  PROVE  InOrder(s, Line, log) /\ InOrder(s, FollowUp, log)
<1>1. Range(s) \cap Line = {} /\ Range(s) \cap FollowUp = {} BY ItemKinds
<1> QED BY <1>1, InOrderOthers

LEMMA Joins ==
  ASSUME NEW S, NEW s \in Seq(S), NEW t \in Seq(S), NEW u \in Seq(S)
  PROVE  /\ s \o t \in Seq(S) /\ s \o <<>> = s /\ <<>> \o s = s
         /\ s \o (t \o u) = s \o t \o u
<1>1. s \o t \in Seq(S) BY ConcatProperties
<1>2. s \o <<>> = s /\ <<>> \o s = s BY ConcatEmptySeq
<1>3. (s \o t) \o u = s \o (t \o u) BY ConcatAssociative, SMTT(30)
<1>4. s \o (t \o u) = (s \o t) \o u BY <1>3, Zenon
<1> QED BY <1>1, <1>2, <1>4, Zenon

----------------------------------------------------------------------------
(* Something is sent *)

LEMMA JoinsAppend ==
  ASSUME NEW S, NEW s \in Seq(S), NEW t \in Seq(S), NEW e \in S
  PROVE  s \o Append(t, e) = Append(s \o t, e)
<1>1. Append(t, e) = t \o <<e>> /\ Append(s \o t, e) = s \o t \o <<e>> OBVIOUS
<1> DEFINE v == <<e>>
<1>2. v \in Seq(S) OBVIOUS
<1> HIDE DEF v
<1>3. \A x \in Seq(S) : s \o (t \o x) = s \o t \o x BY Joins
<1>4. s \o (t \o v) = s \o t \o v BY <1>2, <1>3, Zenon
<1> QED BY <1>1, <1>4 DEF v

\* What is of another kind may join anywhere.
LEMMA InOrderJoins ==
  ASSUME NEW S, NEW s \in Seq(S), NEW t \in Seq(S), NEW u \in Seq(S), NEW e \in S,
         NEW kind, e \notin kind, NEW log, InOrder(s \o t \o u, kind, log),
         NEW new, new = Append(t, e)
  PROVE  InOrder(s \o new \o u, kind, log)
<1> DEFINE v == <<e>>
           w == s \o t
<1>1. v \in Seq(S) /\ Range(v) = {e} BY DEF Range
<1>2. s \o Append(t, e) = Append(w, e) BY JoinsAppend
<1>3. w \in Seq(S) BY Joins
<1>4. Append(w, e) = w \o v OBVIOUS
<1> HIDE DEF v
<1>5. InOrder(w \o u, kind, log) OBVIOUS
<1> HIDE DEF w
<1>6. Range(v) \cap kind = {} BY <1>1
<1>7. InOrder(w \o v \o u, kind, log) BY <1>1, <1>3, <1>5, <1>6, InOrderPut
<1>8. s \o new = w \o v BY <1>2, <1>4
<1> QED BY <1>7, <1>8

LEMMA SendGives ==
  ASSUME TypeOK, Once(sent), NEW e \in Item, Unsent(e), Send(e)
  PROVE  /\ sent' \in Seq(Item) /\ Once(sent') /\ Range(sent') = Range(sent) \cup {e}
         /\ \A i, j : Before(sent, i, j) => Before(sent', i, j)
<1>1. sent \in Seq(Item) /\ sent' = Append(sent, e) /\ e \notin Range(sent) BY DEF TypeOK, Send, Unsent
<1>2. sent' \in Seq(Item) BY <1>1
<1>3. Once(sent') BY <1>1, OnceAppended
<1>4. Range(sent') = Range(sent) \cup {e} BY <1>1, RangeAppended
<1>5. \A i, j : Before(sent, i, j) => Before(sent', i, j) BY <1>1, LogGrows
<1> QED BY <1>2, <1>3, <1>4, <1>5

\* A queue with its kind in order takes what has just been sent.
LEMMA SendLast ==
  ASSUME TypeOK, NEW e \in Item, Send(e), NEW kind,
         NEW s \in Seq(Item), Range(s) \subseteq Range(sent), InOrder(s, kind, sent)
  PROVE  InOrder(Append(s, e), kind, sent')
<1>1. sent \in Seq(Item) /\ sent' = Append(sent, e) BY DEF TypeOK, Send
<1> QED BY <1>1, OrderTaken

\* The trajectory and the queues behind it, of what was sent.
LEMMA WaitingSent ==
  ASSUME TypeOK, Placed
  PROVE  /\ acked \o swept \in Seq(Item) /\ acked \o swept \o steerq \in Seq(Item)
         /\ acked \o swept \o steerq \o followq \in Seq(Item)
         /\ Range(acked \o swept \o steerq) \subseteq Range(sent)
         /\ Range(acked \o swept \o steerq \o followq) \subseteq Range(sent)
<1>1. acked \in Seq(Item) /\ swept \in Seq(Item) /\ steerq \in Seq(Item) /\ followq \in Seq(Item)
  BY QueuesTyped
<1> DEFINE v == acked \o swept
           w == v \o steerq
           x == w \o followq
<1>2. v \in Seq(Item) /\ Range(v) = Range(acked) \cup Range(swept)
  BY <1>1, RangeJoined
<1> HIDE DEF v
<1>3. w \in Seq(Item) /\ Range(w) = Range(v) \cup Range(steerq)
  BY <1>1, <1>2, RangeJoined
<1> HIDE DEF w
<1>4. x \in Seq(Item) /\ Range(x) = Range(w) \cup Range(followq)
  BY <1>1, <1>3, RangeJoined
<1> HIDE DEF x
<1>5. Range(w) \subseteq Range(sent) /\ Range(x) \subseteq Range(sent)
  BY <1>2, <1>3, <1>4, RangesSent
<1> QED BY <1>2, <1>3, <1>4, <1>5 DEF v, w, x

LEMMA SteerStep ==
  ASSUME IInv, NEW l \in Line, Steer(l)
  PROVE  IInv'
<1> USE DEF IInv
<1>1. /\ ~inline /\ Unsent(l) /\ Send(l) /\ pc # "idle"
      /\ steerq' = Append(steerq, l)
      /\ UNCHANGED <<children, bound, stash, flushing, followq, pc, steps, segment, clean, swept, fresh,
                     inline, signal, carried, handback, turns, acked, returned, dropped>>
  BY DEF Steer, Upcoming, Running, manager, loop
<1>2. l \in Item /\ l \notin FollowUp /\ l \notin Peer BY ItemKinds
<1>3. /\ sent' \in Seq(Item) /\ Once(sent') /\ Range(sent') = Range(sent) \cup {l}
      /\ \A i, j : Before(sent, i, j) => Before(sent', i, j)
  BY <1>1, <1>2, SendGives DEF Senders
<1>4. steerq \in Seq(Item) /\ steerq' \in Seq(Item) /\ Range(steerq') = Range(steerq) \cup {l}
  BY <1>1, <1>2, RangeAppended DEF TypeOK
<1>5. TypeOK' BY <1>1, <1>3, <1>4 DEF TypeOK
<1>6. Single'
  <2>1. Once(steerq')
    BY <1>1, <1>2, <1>4, OnceAppended, RangesSent DEF Single, Unsent
  <2> QED BY <1>1, <2>1 DEF Single
<1>7. Placed'
  <2>1. Holding'["steerq"] = Holding["steerq"] \cup {l} BY <1>4, HoldingIs, HoldingIsThen
  <2>2. \A p \in Place : p # "steerq" => Same(p)
    BY <1>1, HoldingIs, HoldingIsThen DEF Place, Same
  <2>3. "steerq" \in Place BY DEF Place
  <2> QED BY <1>1, <1>2, <2>1, <2>2, <2>3, PlacedArrived
<1>8. Control' BY <1>1 DEF Control, Detached
<1>9. Senders' BY <1>1, <1>2, <1>3 DEF Senders, Unsent, TypeOK
<1> DEFINE w == acked \o swept
<1>10. /\ w \in Seq(Item) /\ w \o steerq \in Seq(Item) /\ followq \in Seq(Item)
       /\ Range(w \o steerq) \subseteq Range(sent)
  BY WaitingSent, QueuesTyped
<1>11. acked' \o swept' = w /\ followq' = followq BY <1>1
<1> HIDE DEF w
<1>12. w \o steerq' = Append(w \o steerq, l)
  BY <1>1, <1>2, <1>4, <1>10, JoinsAppend
<1>13. LinesInOrder'
  <2>1. InOrder(w \o steerq, Line, sent) /\ \A d \in DOMAIN handback : InOrder(handback[d], Line, sent)
    BY DEF LinesInOrder, w
  <2>2. InOrder(w \o steerq', Line, sent')
    BY <1>1, <1>2, <1>10, <1>12, <2>1, SendLast
  <2>3. \A d \in DOMAIN handback' : InOrder(handback'[d], Line, sent')
    BY <1>1, <1>3, <2>1, OrderKept
  <2> QED BY <1>11, <2>2, <2>3 DEF LinesInOrder
<1>14. FollowUpsWait'
  <2>1. InOrder(acked', FollowUp, sent') BY <1>1, <1>3, OrderKept DEF FollowUpsWait, FollowUpsInOrder
  <2>2. ASSUME InOrder(w \o steerq \o followq, FollowUp, sent)
        PROVE  InOrder(w \o steerq' \o followq, FollowUp, sent')
    <3>1. InOrder(w \o steerq \o followq, FollowUp, sent') BY <1>3, <2>2, OrderKept
    <3> QED BY <1>1, <1>2, <1>4, <1>10, <3>1, InOrderJoins
  <2>3. Range(steerq') \cap FollowUp = Range(steerq) \cap FollowUp BY <1>2, <1>4
  <2>4. clean' \/ pc' \notin Ending => InOrder(w \o steerq' \o followq, FollowUp, sent')
    BY <1>1, <2>2 DEF FollowUpsWait, w
  <2> QED BY <1>1, <1>11, <2>1, <2>3, <2>4 DEF FollowUpsWait, FollowUpsInOrder
<1> QED BY <1>5, <1>6, <1>7, <1>8, <1>9, <1>13, <1>14

LEMMA QueueFollowUpStep ==
  ASSUME IInv, NEW f \in FollowUp, QueueFollowUp(f)
  PROVE  IInv'
<1> USE DEF IInv
<1>1. /\ ~inline /\ Unsent(f) /\ Send(f) /\ pc # "idle"
      /\ followq' = Append(followq, f)
      /\ UNCHANGED <<children, bound, stash, flushing, steerq, pc, steps, segment, clean, swept, fresh,
                     inline, signal, carried, handback, turns, acked, returned, dropped>>
  BY DEF QueueFollowUp, Upcoming, Running, manager, loop
<1>2. f \in Item /\ f \notin Line /\ f \notin Peer BY ItemKinds
<1>3. /\ sent' \in Seq(Item) /\ Once(sent') /\ Range(sent') = Range(sent) \cup {f}
      /\ \A i, j : Before(sent, i, j) => Before(sent', i, j)
  BY <1>1, <1>2, SendGives DEF Senders
<1>4. followq \in Seq(FollowUp) /\ followq' \in Seq(FollowUp) /\ Range(followq') = Range(followq) \cup {f}
  BY <1>1, RangeAppended DEF TypeOK
<1>5. TypeOK' BY <1>1, <1>3, <1>4 DEF TypeOK
<1>6. Single'
  <2>1. Once(followq')
    BY <1>1, <1>4, OnceAppended, RangesSent DEF Single, Unsent
  <2> QED BY <1>1, <2>1 DEF Single
<1>7. Placed'
  <2>1. Holding'["followq"] = Holding["followq"] \cup {f} BY <1>4, HoldingIs, HoldingIsThen
  <2>2. \A p \in Place : p # "followq" => Same(p)
    BY <1>1, HoldingIs, HoldingIsThen DEF Place, Same
  <2>3. "followq" \in Place BY DEF Place
  <2> QED BY <1>1, <1>2, <2>1, <2>2, <2>3, PlacedArrived
<1>8. Control' BY <1>1 DEF Control, Detached
<1>9. Senders' BY <1>1, <1>2, <1>3 DEF Senders, Unsent, TypeOK
<1> DEFINE w == acked \o swept \o steerq
<1>10. w \in Seq(Item) /\ w \o followq \in Seq(Item) /\ followq \in Seq(Item)
       /\ Range(w \o followq) \subseteq Range(sent)
  BY WaitingSent, QueuesTyped
<1>11. acked' \o swept' \o steerq' = w BY <1>1
<1> HIDE DEF w
<1>12. w \o followq' = Append(w \o followq, f) BY <1>1, <1>2, <1>10, JoinsAppend
<1>13. LinesInOrder'
  <2>1. InOrder(w, Line, sent) /\ \A d \in DOMAIN handback : InOrder(handback[d], Line, sent)
    BY DEF LinesInOrder, w
  <2>2. InOrder(w, Line, sent') BY <1>3, <2>1, OrderKept
  <2>3. \A d \in DOMAIN handback' : InOrder(handback'[d], Line, sent')
    BY <1>1, <1>3, <2>1, OrderKept
  <2> QED BY <1>11, <2>2, <2>3 DEF LinesInOrder
<1>14. FollowUpsWait'
  <2>1. InOrder(acked', FollowUp, sent') BY <1>1, <1>3, OrderKept DEF FollowUpsWait, FollowUpsInOrder
  <2>2. ASSUME InOrder(w \o followq, FollowUp, sent)
        PROVE  InOrder(w \o followq', FollowUp, sent')
    BY <1>1, <1>2, <1>10, <1>12, <2>2, SendLast
  <2>3. clean' \/ pc' \notin Ending => InOrder(w \o followq', FollowUp, sent')
    BY <1>1, <2>2 DEF FollowUpsWait, w
  <2> QED BY <1>1, <1>11, <2>1, <2>3 DEF FollowUpsWait, FollowUpsInOrder
<1> QED BY <1>5, <1>6, <1>7, <1>8, <1>9, <1>13, <1>14

\* The inline host sends no prose, so whatever lies in its queues is in order.
LEMMA InlineOrders ==
  ASSUME TypeOK', Placed', Senders', inline'
  PROVE  LinesInOrder' /\ FollowUpsWait'
<1>1. \A p \in Place : Holding'[p] \subseteq Peer
  <2>1. Content(Holding') \subseteq Range(sent') BY DEF Placed
  <2>2. Range(sent') \subseteq Peer BY DEF Senders
  <2>3. \A p \in DOMAIN Holding' : Holding'[p] \subseteq Content(Holding') BY DEF Content
  <2> QED BY <2>1, <2>2, <2>3, HoldingIsThen
<1>2. /\ Range(acked') \subseteq Peer /\ Range(swept') \subseteq Peer
      /\ Range(steerq') \subseteq Peer /\ Range(followq') \subseteq Peer
      /\ Written(handback') \subseteq Peer
  BY <1>1, HoldingIsThen DEF Place
<1>3. acked' \in Seq(Item) /\ swept' \in Seq(Item) /\ steerq' \in Seq(Item) /\ followq' \in Seq(Item)
  BY ItemKinds, SeqMonotonic DEF TypeOK
<1> DEFINE v == acked' \o swept'
           w == v \o steerq'
           x == w \o followq'
<1>4. v \in Seq(Item) /\ Range(v) = Range(acked') \cup Range(swept') BY <1>3, RangeJoined
<1> HIDE DEF v
<1>5. w \in Seq(Item) /\ Range(w) = Range(v) \cup Range(steerq') BY <1>3, <1>4, RangeJoined
<1> HIDE DEF w
<1>6. x \in Seq(Item) /\ Range(x) = Range(w) \cup Range(followq') BY <1>3, <1>5, RangeJoined
<1> HIDE DEF x
<1>7. InOrder(w, Line, sent') /\ InOrder(x, FollowUp, sent') /\ InOrder(acked', FollowUp, sent')
  BY <1>2, <1>3, <1>4, <1>5, <1>6, InOrderPeers
<1>8. \A d \in DOMAIN handback' : InOrder(handback'[d], Line, sent')
  <2>1. \A d \in DOMAIN handback' : Range(handback'[d]) \cap Line = {}
    BY <1>2, ItemKinds DEF Written
  <2> QED BY <2>1, InOrderOthers
<1>9. Range(steerq') \cap FollowUp = {} BY <1>2, ItemKinds
<1>10. InOrder(acked' \o swept' \o steerq', Line, sent')
       /\ InOrder(acked' \o swept' \o steerq' \o followq', FollowUp, sent')
  BY <1>7 DEF v, w, x
<1> QED BY <1>7, <1>8, <1>9, <1>10 DEF LinesInOrder, FollowUpsWait, FollowUpsInOrder

LEMMA Concluded ==
  ASSUME TypeOK', Single', Placed', Control', Senders', inline' = inline,
         ~inline => LinesInOrder' /\ FollowUpsWait'
  PROVE  IInv'
BY InlineOrders DEF IInv

----------------------------------------------------------------------------
(* Steps that move nothing *)

LEMMA QuietStep ==
  ASSUME IInv, UNCHANGED Data, TypeOK', Control', Senders',
         ~inline /\ (clean' \/ pc' \notin Ending) => clean \/ pc \notin Ending,
         ~inline /\ (pc' \in {"checks", "followups"} \/ (clean' /\ pc' = "sweep"))
           => pc \in {"checks", "followups"} \/ (clean /\ pc = "sweep")
  PROVE  IInv'
<1>1. Single' /\ Placed' /\ LinesInOrder' BY PlacedStill DEF IInv
<1>2. ~inline => FollowUpsWait' BY DEF IInv, FollowUpsWait, FollowUpsInOrder, Data
<1>3. inline' = inline BY DEF Data
<1> QED BY <1>1, <1>2, <1>3, Concluded

LEMMA CancelStep == IInv /\ Cancel => IInv'
<1> SUFFICES ASSUME IInv, Cancel PROVE IInv' OBVIOUS
<1> USE DEF Cancel, manager, queues, loop, history
<1>1. UNCHANGED Data BY DEF Data
<1>2. TypeOK' BY DEF IInv, TypeOK
<1>3. Control' BY DEF IInv, Control, Detached
<1>4. Senders' BY DEF IInv, Senders, Unsent
<1> QED BY <1>1, <1>2, <1>3, <1>4, QuietStep

LEMMA StartChildStep == ASSUME IInv, NEW p \in Peer, StartChild(p) PROVE IInv'
<1> USE DEF StartChild, queues, loop, ui, history
<1>1. UNCHANGED Data BY DEF Data
<1>2. TypeOK' BY DEF IInv, TypeOK
<1>3. Control' BY DEF IInv, Control, Detached
<1>4. Senders' BY DEF IInv, Senders, Unsent
<1> QED BY <1>1, <1>2, <1>3, <1>4, QuietStep

LEMMA FlushDoneStep == IInv /\ FlushDone => IInv'
<1> SUFFICES ASSUME IInv, FlushDone PROVE IInv' OBVIOUS
<1> USE DEF FlushDone, Route, manager, queues, loop, ui, history
<1>1. UNCHANGED Data BY DEF Data
<1>2. TypeOK' BY DEF IInv, TypeOK, Label
<1>3. Control' BY DEF IInv, Control, Detached
<1>4. Senders' BY DEF IInv, Senders, Unsent
<1> QED BY <1>1, <1>2, <1>3, <1>4, QuietStep DEF Ending

LEMMA PrepareStep == IInv /\ Prepare => IInv'
<1> SUFFICES ASSUME IInv, Prepare PROVE IInv' OBVIOUS
<1> USE DEF Prepare, Go, Stay, Route, manager, queues, ui
<1>1. UNCHANGED Data BY DEF Data
<1>2. TypeOK' BY DEF IInv, TypeOK, Label
<1>3. Control' BY DEF IInv, Control, Detached
<1>4. Senders' BY DEF IInv, Senders, Unsent
<1> QED BY <1>1, <1>2, <1>3, <1>4, QuietStep DEF Ending

LEMMA GateStep == IInv /\ Gate => IInv'
<1> SUFFICES ASSUME IInv, Gate PROVE IInv' OBVIOUS
<1> USE DEF Gate, Fail, Go, Stay, manager, queues, ui
<1>1. UNCHANGED Data BY DEF Data
<1>2. TypeOK'
  <2>1. steps \in 0..MaxSteps /\ MaxSteps \in Nat BY Limits DEF IInv, TypeOK
  <2>2. steps' = steps \/ (steps' = steps + 1 /\ steps < MaxSteps) OBVIOUS
  <2>3. steps' \in 0..MaxSteps BY <2>1, <2>2
  <2> QED BY <2>3 DEF IInv, TypeOK, Label
<1>3. Control' BY DEF IInv, Control, Detached
<1>4. Senders' BY DEF IInv, Senders, Unsent
<1> QED BY <1>1, <1>2, <1>3, <1>4, QuietStep DEF Ending

LEMMA CompactStep == IInv /\ Compact => IInv'
<1> SUFFICES ASSUME IInv, Compact PROVE IInv' OBVIOUS
<1> USE DEF Compact, Go, Stay, manager, queues, ui
<1>1. UNCHANGED Data BY DEF Data
<1>2. TypeOK'
  <2>1. fresh' \in Seq(Item) BY HeadAndTail DEF IInv, TypeOK
  <2> QED BY <2>1 DEF IInv, TypeOK, Label
<1>3. Control' BY DEF IInv, Control, Detached
<1>4. Senders' BY DEF IInv, Senders, Unsent
<1> QED BY <1>1, <1>2, <1>3, <1>4, QuietStep DEF Ending

LEMMA CallStep == IInv /\ Call => IInv'
<1> SUFFICES ASSUME IInv, Call PROVE IInv' OBVIOUS
<1> USE DEF Call, Fail, Go, Stay, manager, queues, ui
<1>1. UNCHANGED Data BY DEF Data
<1>2. pc' \in {"tools", "final", "sweep"} /\ (pc' = "sweep" => ~clean') OBVIOUS
<1>3. TypeOK'
  <2>1. fresh' = fresh \/ fresh' = <<>> OBVIOUS
  <2>4. fresh \in Seq(Item) /\ <<>> \in Seq(Item) BY DEF IInv, TypeOK
  <2>2. fresh' \in Seq(Item) BY <2>1, <2>4, Zenon
  <2>3. UNCHANGED <<children, bound, stash, flushing, steerq, followq, steps, segment, swept, inline,
                    signal, carried, handback, turns, sent, acked, returned, dropped>>
        /\ clean' \in BOOLEAN
    BY DEF IInv, TypeOK
  <2> QED BY <1>2, <2>2, <2>3 DEF IInv, TypeOK, Label
<1>4. Control' BY DEF IInv, Control, Detached
<1>5. Senders' BY DEF IInv, Senders, Unsent
<1> QED BY <1>1, <1>2, <1>3, <1>4, <1>5, QuietStep DEF Ending

LEMMA ToolsStep == IInv /\ Tools => IInv'
<1> SUFFICES ASSUME IInv, Tools PROVE IInv' OBVIOUS
<1> USE DEF Tools, Fail, Go, Stay, manager, queues, ui
<1>1. UNCHANGED Data BY DEF Data
<1>2. TypeOK' BY DEF IInv, TypeOK, Label
<1>3. Control' BY DEF IInv, Control, Detached
<1>4. Senders' BY DEF IInv, Senders, Unsent
<1> QED BY <1>1, <1>2, <1>3, <1>4, QuietStep DEF Ending

LEMMA ChecksStep == IInv /\ Checks => IInv'
<1> SUFFICES ASSUME IInv, Checks PROVE IInv' OBVIOUS
<1> USE DEF Checks, Fail, Go, Stay, manager, queues, ui
<1>1. UNCHANGED Data BY DEF Data
<1>2. pc' \in {"followups", "gate", "sweep"} /\ (pc' = "sweep" => ~clean') OBVIOUS
<1>3. TypeOK' BY <1>2 DEF IInv, TypeOK, Label
<1>4. Control' BY <1>2 DEF IInv, Control, Detached
<1>5. Senders' BY DEF IInv, Senders, Unsent
<1> QED BY <1>1, <1>2, <1>3, <1>4, <1>5, QuietStep DEF Ending

LEMMA SealStep == IInv /\ Seal => IInv'
<1> SUFFICES ASSUME IInv, Seal PROVE IInv' OBVIOUS
<1> USE DEF Seal, Go, Route, manager, queues, ui
<1>1. UNCHANGED Data BY DEF Data
<1>2. TypeOK'
  <2>1. segment \in 0..MaxSegments /\ MaxSegments \in Nat BY Limits DEF IInv, TypeOK
  <2>2. segment' = 0 \/ (segment' = segment + 1 /\ segment < MaxSegments) OBVIOUS
  <2>3. segment' \in 0..MaxSegments BY <2>1, <2>2
  <2> QED BY <2>3 DEF IInv, TypeOK, Label
<1>3. Control' BY DEF IInv, Control, Detached
<1>4. Senders' BY DEF IInv, Senders, Unsent
<1> QED BY <1>1, <1>2, <1>3, <1>4, QuietStep DEF Ending

LEMMA StutterStep == IInv /\ UNCHANGED vars => IInv'
<1> SUFFICES ASSUME IInv, UNCHANGED vars PROVE IInv' OBVIOUS
<1> USE DEF vars, manager, queues, loop, ui, history
<1>1. UNCHANGED Data BY DEF Data
<1>2. TypeOK' BY DEF IInv, TypeOK
<1>3. Control' BY DEF IInv, Control, Detached
<1>4. Senders' BY DEF IInv, Senders, Unsent
<1> QED BY <1>1, <1>2, <1>3, <1>4, QuietStep

----------------------------------------------------------------------------
(* Completions of children *)

\* Something of another kind at the end changes no order.
LEMMA InOrderGains ==
  ASSUME NEW S, NEW s \in Seq(S), NEW t \in Seq(S), NEW kind, NEW log,
         InOrder(s, kind, log), Range(t) \cap kind = {}
  PROVE  InOrder(s \o t, kind, log)
<1>1. InOrder(t, kind, log) BY InOrderOthers
<1>2. Ahead(Range(s), Range(t), kind, log) BY DEF Ahead
<1> QED BY <1>1, <1>2, InOrderJoined

LEMMA InOrderGainsOne ==
  ASSUME NEW S, NEW s \in Seq(S), NEW t \in Seq(S), NEW e \in S, NEW kind, e \notin kind, NEW log,
         InOrder(s \o t, kind, log), NEW new, new = Append(t, e)
  PROVE  InOrder(s \o new, kind, log)
<1> DEFINE v == <<e>>
           w == s \o t
<1>1. v \in Seq(S) /\ Range(v) = {e} BY DEF Range
<1>2. s \o new = Append(w, e) BY JoinsAppend
<1>3. w \in Seq(S) BY Joins
<1>4. Append(w, e) = w \o v OBVIOUS
<1> HIDE DEF v
<1>5. InOrder(w, kind, log) OBVIOUS
<1> HIDE DEF w
<1>6. Range(v) \cap kind = {} BY <1>1
<1>7. InOrder(w \o v, kind, log) BY <1>1, <1>3, <1>5, <1>6, InOrderGains
<1> QED BY <1>2, <1>4, <1>7

LEMMA DeliverStep ==
  ASSUME IInv, NEW p \in Peer, Deliver(p)
  PROVE  IInv'
<1> USE DEF IInv
<1>1. /\ p \in children /\ children' = children \ {p} /\ Send(p) /\ Unsent(p)
      /\ (bound /\ steerq' = Append(steerq, p) /\ stash' = stash)
         \/ (~bound /\ stash' = Append(stash, p) /\ steerq' = steerq)
      /\ UNCHANGED <<bound, flushing, followq, pc, steps, segment, clean, swept, fresh, inline,
                     signal, carried, handback, turns, acked, returned, dropped>>
  BY DEF Deliver, loop, ui, Senders
<1>2. p \in Item /\ p \notin Line /\ p \notin FollowUp BY ItemKinds
<1>3. /\ sent' \in Seq(Item) /\ Once(sent') /\ Range(sent') = Range(sent) \cup {p}
      /\ \A i, j : Before(sent, i, j) => Before(sent', i, j)
  BY <1>1, <1>2, SendGives DEF Senders
<1>4. /\ steerq \in Seq(Item) /\ stash \in Seq(Peer)
      /\ Append(steerq, p) \in Seq(Item) /\ Append(stash, p) \in Seq(Peer)
      /\ Range(Append(steerq, p)) = Range(steerq) \cup {p}
      /\ Range(Append(stash, p)) = Range(stash) \cup {p}
  <2>1. steerq \in Seq(Item) /\ stash \in Seq(Peer) BY DEF TypeOK
  <2>2. Append(steerq, p) \in Seq(Item) /\ Range(Append(steerq, p)) = Range(steerq) \cup {p}
    BY <1>2, <2>1, RangeAppended
  <2>3. Append(stash, p) \in Seq(Peer) /\ Range(Append(stash, p)) = Range(stash) \cup {p}
    BY <2>1, RangeAppended
  <2> QED BY <2>1, <2>2, <2>3
<1>5. TypeOK'
  <2>1. steerq' \in Seq(Item) /\ stash' \in Seq(Peer) /\ children' \subseteq Peer
    BY <1>1, <1>4 DEF TypeOK
  <2> QED BY <1>1, <1>3, <2>1 DEF TypeOK
<1>6. Single'
  <2>1. p \notin Range(steerq) /\ p \notin Range(stash) BY <1>1, RangesSent DEF Unsent
  <2>2. Once(Append(steerq, p)) /\ Once(Append(stash, p))
    BY <1>2, <1>4, <2>1, OnceAppended DEF Single
  <2>3. Once(steerq') /\ Once(stash') BY <1>1, <2>2 DEF Single
  <2> QED BY <1>1, <2>3 DEF Single
<1>7. Placed'
  <2>1. "steerq" \in Place /\ "stash" \in Place BY DEF Place
  <2>2. CASE steerq' = Append(steerq, p) /\ stash' = stash
    <3>1. Holding'["steerq"] = Holding["steerq"] \cup {p} BY <1>4, <2>2, HoldingIs, HoldingIsThen
    <3>2. \A q \in Place : q # "steerq" => Same(q)
      BY <1>1, <2>2, HoldingIs, HoldingIsThen DEF Place, Same
    <3> QED BY <1>1, <1>2, <2>1, <3>1, <3>2, PlacedArrived
  <2>3. CASE stash' = Append(stash, p) /\ steerq' = steerq
    <3>1. Holding'["stash"] = Holding["stash"] \cup {p} BY <1>4, <2>3, HoldingIs, HoldingIsThen
    <3>2. \A q \in Place : q # "stash" => Same(q)
      BY <1>1, <2>3, HoldingIs, HoldingIsThen DEF Place, Same
    <3> QED BY <1>1, <1>2, <2>1, <3>1, <3>2, PlacedArrived
  <2> QED BY <1>1, <2>2, <2>3
<1>8. Control' BY <1>1 DEF Control, Detached
<1>9. Senders' BY <1>1, <1>3 DEF Senders, Unsent
<1> DEFINE w == acked \o swept
<1>10. w \in Seq(Item) /\ w \o steerq \in Seq(Item) /\ followq \in Seq(Item)
  BY WaitingSent, QueuesTyped
<1>11. acked' \o swept' = w /\ followq' = followq BY <1>1
<1> HIDE DEF w
<1>12. steerq' = Append(steerq, p) \/ steerq' = steerq BY <1>1
<1>13. LinesInOrder'
  <2>1. InOrder(w \o steerq, Line, sent) /\ \A d \in DOMAIN handback : InOrder(handback[d], Line, sent)
    BY DEF LinesInOrder, w
  <2>2. InOrder(w \o steerq, Line, sent') /\ \A d \in DOMAIN handback : InOrder(handback[d], Line, sent')
    BY <1>3, <2>1, OrderKept
  <2>3. CASE steerq' = Append(steerq, p)
    <3>1. InOrder(w \o steerq', Line, sent') BY <1>2, <1>4, <1>10, <2>2, <2>3, InOrderGainsOne
    <3> QED BY <1>1, <1>11, <2>2, <3>1 DEF LinesInOrder
  <2>4. CASE steerq' = steerq BY <1>1, <1>11, <2>2, <2>4 DEF LinesInOrder
  <2> QED BY <1>12, <2>3, <2>4
<1>14. FollowUpsWait'
  <2>1. InOrder(acked', FollowUp, sent') BY <1>1, <1>3, OrderKept DEF FollowUpsWait, FollowUpsInOrder
  <2>2. ASSUME InOrder(w \o steerq \o followq, FollowUp, sent)
        PROVE  InOrder(w \o steerq' \o followq, FollowUp, sent')
    <3>1. InOrder(w \o steerq \o followq, FollowUp, sent') BY <1>3, <2>2, OrderKept
    <3>2. CASE steerq' = Append(steerq, p) BY <1>2, <1>4, <1>10, <3>1, <3>2, InOrderJoins
    <3>3. CASE steerq' = steerq BY <3>1, <3>3
    <3> QED BY <1>12, <3>2, <3>3
  <2>3. Range(steerq') \cap FollowUp = Range(steerq) \cap FollowUp BY <1>2, <1>4, <1>12
  <2>4. clean' \/ pc' \notin Ending => InOrder(w \o steerq' \o followq, FollowUp, sent')
    BY <1>1, <2>2 DEF FollowUpsWait, w
  <2> QED BY <1>1, <1>11, <2>1, <2>3, <2>4 DEF FollowUpsWait, FollowUpsInOrder
<1> QED BY <1>5, <1>6, <1>7, <1>8, <1>9, <1>13, <1>14

LEMMA AttachStep == IInv /\ Attach => IInv'
<1> SUFFICES ASSUME IInv, Attach PROVE IInv' OBVIOUS
<1> USE DEF IInv
<1>1. /\ pc = "attach" /\ pc' = "flush" /\ bound' = TRUE /\ flushing' = stash /\ stash' = <<>>
      /\ UNCHANGED <<children, steerq, followq, steps, segment, clean, swept, fresh, inline, signal,
                     carried, handback, turns, sent, acked, returned, dropped>>
  BY DEF Attach, queues, loop, ui, history
<1>2. flushing = <<>> BY <1>1 DEF Control
<1>3. TypeOK' BY <1>1 DEF TypeOK, Label
<1>4. Single' BY <1>1, OnceSingle DEF Single
<1>5. Placed'
  <2>1. "stash" \in Place /\ "flushing" \in Place BY DEF Place
  <2>2. Holding["flushing"] = {} /\ Holding'["stash"] = {} /\ Holding'["flushing"] = Holding["stash"]
    BY <1>1, <1>2, HoldingIs, HoldingIsThen, RangeOfEmpty
  <2>3. \A p \in Place : p # "stash" /\ p # "flushing" => Same(p)
    BY <1>1, HoldingIs, HoldingIsThen DEF Place, Same
  <2> DEFINE M == Holding["stash"]
  <2>4. /\ Holding["stash"] = M \cup Holding'["stash"] /\ Holding'["stash"] \cap M = {}
        /\ Holding'["flushing"] = Holding["flushing"] \cup M
    BY <2>2
  <2> HIDE DEF M
  <2> QED BY <1>1, <2>1, <2>3, <2>4, PlacedMoved
<1>6. Control' BY <1>1 DEF Control, Detached
<1>7. Senders' BY <1>1 DEF Senders, Unsent
<1>8. LinesInOrder' /\ FollowUpsWait'
  BY <1>1 DEF LinesInOrder, FollowUpsWait, FollowUpsInOrder, Ending
<1> QED BY <1>3, <1>4, <1>5, <1>6, <1>7, <1>8

LEMMA FlushStep == IInv /\ Flush => IInv'
<1> SUFFICES ASSUME IInv, Flush PROVE IInv' OBVIOUS
<1> USE DEF IInv
<1> DEFINE e == Head(flushing)
<1>1. /\ pc = "flush" /\ flushing # <<>> /\ steerq' = Append(steerq, e) /\ flushing' = Tail(flushing)
      /\ UNCHANGED <<children, bound, stash, followq, pc, steps, segment, clean, swept, fresh, inline,
                     signal, carried, handback, turns, sent, acked, returned, dropped>>
  BY DEF Flush, loop, ui, history
<1>2. /\ e \in Peer /\ flushing' \in Seq(Peer) /\ Range(flushing) = {e} \cup Range(flushing')
      /\ Once(flushing') /\ e \notin Range(flushing')
  BY <1>1, HeadAndTail, OnceTail DEF TypeOK, Single
<1> HIDE DEF e
<1>3. e \in Item /\ e \notin Line /\ e \notin FollowUp BY <1>2, ItemKinds
<1>4. steerq \in Seq(Item) /\ steerq' \in Seq(Item) /\ Range(steerq') = Range(steerq) \cup {e}
  BY <1>1, <1>3, RangeAppended DEF TypeOK
<1>5. TypeOK' BY <1>1, <1>2, <1>4 DEF TypeOK
<1>6. Single'
  <2>1. e \notin Range(steerq) BY <1>2, RangesApart
  <2>2. Once(steerq') BY <1>1, <1>3, <1>4, <2>1, OnceAppended DEF Single
  <2> QED BY <1>1, <1>2, <2>2 DEF Single
<1>7. Placed'
  <2>1. "steerq" \in Place /\ "flushing" \in Place BY DEF Place
  <2>2. /\ Holding["flushing"] = {e} \cup Holding'["flushing"]
        /\ Holding'["flushing"] \cap {e} = {}
        /\ Holding'["steerq"] = Holding["steerq"] \cup {e}
    BY <1>2, <1>4, HoldingIs, HoldingIsThen
  <2>3. \A p \in Place : p # "steerq" /\ p # "flushing" => Same(p)
    BY <1>1, HoldingIs, HoldingIsThen DEF Place, Same
  <2> QED BY <1>1, <2>1, <2>2, <2>3, PlacedMoved
<1>8. Control' BY <1>1 DEF Control, Detached
<1>9. Senders' BY <1>1 DEF Senders, Unsent
<1> DEFINE w == acked \o swept
<1>10. w \in Seq(Item) /\ followq \in Seq(Item) BY WaitingSent, QueuesTyped
<1>11. acked' \o swept' = w /\ followq' = followq BY <1>1
<1>12. InOrder(w \o steerq, Line, sent) /\ InOrder(w \o steerq \o followq, FollowUp, sent)
  BY <1>1 DEF LinesInOrder, FollowUpsWait, Ending
<1> HIDE DEF w
<1>13. InOrder(w \o steerq', Line, sent) BY <1>1, <1>3, <1>4, <1>10, <1>12, InOrderGainsOne
<1>14. InOrder(w \o steerq' \o followq, FollowUp, sent)
  BY <1>1, <1>3, <1>4, <1>10, <1>12, InOrderJoins
<1>15. LinesInOrder' BY <1>1, <1>11, <1>13 DEF LinesInOrder
<1>16. FollowUpsWait'
  <2>1. InOrder(acked', FollowUp, sent') BY <1>1 DEF FollowUpsWait, FollowUpsInOrder
  <2> QED BY <1>1, <1>11, <1>14, <2>1 DEF FollowUpsWait, FollowUpsInOrder
<1> QED BY <1>5, <1>6, <1>7, <1>8, <1>9, <1>15, <1>16

----------------------------------------------------------------------------
(* The user's side *)

LEMMA StartTurnStep == IInv /\ StartTurn => IInv'
<1> SUFFICES ASSUME IInv, StartTurn PROVE IInv' OBVIOUS
<1> USE DEF IInv
<1>1. /\ pc = "idle" /\ turns < MaxTurns /\ turns' = turns + 1 /\ signal' = FALSE
      /\ steerq' = carried /\ carried' = <<>> /\ followq' = <<>> /\ segment' = 1
      /\ pc' = IF inline THEN "prepare" ELSE "attach"
      /\ UNCHANGED <<children, bound, stash, flushing, steps, clean, swept, fresh, inline, handback,
                     sent, acked, returned, dropped>>
  BY DEF StartTurn, Running, Route, manager, history
<1>2. steerq = <<>> /\ followq = <<>> /\ swept = <<>> /\ (inline => carried = <<>>)
  BY <1>1 DEF Control
<1>3. TypeOK'
  <2>1. turns \in 0..MaxTurns /\ MaxTurns \in Nat /\ MaxSegments \in Nat \ {0} BY Limits DEF TypeOK
  <2>2. turns' \in 0..MaxTurns /\ segment' \in 0..MaxSegments BY <1>1, <2>1
  <2>3. steerq' \in Seq(Item) /\ carried' \in Seq(Peer) /\ followq' \in Seq(FollowUp)
    BY <1>1, QueuesTyped
  <2>4. pc' \in Label /\ signal' \in BOOLEAN BY <1>1 DEF Label
  <2> QED BY <1>1, <2>2, <2>3, <2>4 DEF TypeOK
<1>4. Single' BY <1>1, OnceSingle DEF Single
<1>5. Placed'
  <2>1. "carried" \in Place /\ "steerq" \in Place BY DEF Place
  <2>2. Holding["steerq"] = {} /\ Holding'["carried"] = {} /\ Holding'["steerq"] = Holding["carried"]
    BY <1>1, <1>2, HoldingIs, HoldingIsThen, RangeOfEmpty
  <2>3. \A p \in Place : p # "carried" /\ p # "steerq" => Same(p)
    BY <1>1, <1>2, HoldingIs, HoldingIsThen DEF Place, Same
  <2> DEFINE M == Holding["carried"]
  <2>4. /\ Holding["carried"] = M \cup Holding'["carried"] /\ Holding'["carried"] \cap M = {}
        /\ Holding'["steerq"] = Holding["steerq"] \cup M
    BY <2>2
  <2> HIDE DEF M
  <2> QED BY <1>1, <2>1, <2>3, <2>4, PlacedMoved
<1>6. Control' BY <1>1, <1>2 DEF Control, Detached
<1>7. Senders' BY <1>1 DEF Senders, Unsent
<1> DEFINE w == acked \o swept
<1>8. w \in Seq(Item) /\ carried \in Seq(Item) /\ followq \in Seq(Item) BY WaitingSent, QueuesTyped
<1>9. acked' \o swept' = w BY <1>1
<1>10. InOrder(w \o <<>>, Line, sent) /\ InOrder(w \o <<>> \o <<>>, FollowUp, sent)
  BY <1>1, <1>2 DEF LinesInOrder, FollowUpsWait, Ending
<1>11. \A d \in DOMAIN handback' : InOrder(handback'[d], Line, sent') BY <1>1 DEF LinesInOrder
<1>12. InOrder(acked', FollowUp, sent') BY <1>1 DEF FollowUpsWait, FollowUpsInOrder
<1> HIDE DEF w
<1>13. w \o <<>> = w BY <1>8, Joins
<1>14. Range(carried) \cap Line = {} /\ Range(carried) \cap FollowUp = {}
  BY RangeTyped, ItemKinds DEF TypeOK
<1>15. InOrder(w \o carried, Line, sent) /\ InOrder(w \o carried, FollowUp, sent)
  BY <1>8, <1>10, <1>13, <1>14, InOrderGains
<1> DEFINE x == w \o carried
<1>16. x \o <<>> = x BY <1>8, Joins
<1>17. LinesInOrder' BY <1>1, <1>9, <1>11, <1>15 DEF LinesInOrder
<1>18. FollowUpsWait' BY <1>1, <1>9, <1>12, <1>15, <1>16 DEF FollowUpsWait, FollowUpsInOrder
<1> QED BY <1>3, <1>4, <1>5, <1>6, <1>7, <1>17, <1>18

LEMMA RestoreDraftStep == IInv /\ RestoreDraft => IInv'
<1> SUFFICES ASSUME IInv, RestoreDraft PROVE IInv' OBVIOUS
<1> USE DEF IInv
<1> DEFINE d == Head(handback)
<1>1. /\ handback # <<>> /\ handback' = Tail(handback)
      /\ (returned' = returned \o d /\ dropped' = dropped)
         \/ (dropped' = dropped \o d /\ returned' = returned)
      /\ UNCHANGED <<children, bound, stash, flushing, steerq, followq, pc, steps, segment, clean,
                     swept, fresh, inline, signal, carried, turns, sent, acked>>
  BY DEF RestoreDraft, manager, queues, loop
<1>2. handback \in Seq(Seq(Prose)) /\ returned \in Seq(Prose) /\ dropped \in Seq(Prose) BY DEF TypeOK
<1>3. /\ d \in Seq(Prose) /\ handback' \in Seq(Seq(Prose))
      /\ Written(handback) = Range(d) \cup Written(handback')
      /\ WrittenOnce(handback') /\ Once(d) /\ Range(d) \cap Written(handback') = {}
  BY <1>1, <1>2, WrittenTail DEF Single
<1>4. \A i \in DOMAIN handback' : InOrder(handback'[i], Line, sent)
  BY <1>1, <1>2, WrittenTail DEF LinesInOrder
<1> HIDE DEF d
<1>5. /\ returned \o d \in Seq(Prose) /\ Range(returned \o d) = Range(returned) \cup Range(d)
      /\ dropped \o d \in Seq(Prose) /\ Range(dropped \o d) = Range(dropped) \cup Range(d)
  BY <1>2, <1>3, RangeJoined
<1>6. TypeOK'
  <2>1. returned' \in Seq(Prose) /\ dropped' \in Seq(Prose) BY <1>1, <1>2, <1>5
  <2> QED BY <1>1, <1>3, <2>1 DEF TypeOK
<1>7. Single'
  <2>1. Range(returned) \cap Range(d) = {} /\ Range(dropped) \cap Range(d) = {}
    BY <1>3, RangesApart
  <2>2. Once(returned \o d) /\ Once(dropped \o d)
    BY <1>2, <1>3, <2>1, OnceJoined DEF Single
  <2>3. Once(returned') /\ Once(dropped') BY <1>1, <2>2 DEF Single
  <2> QED BY <1>1, <1>3, <2>3 DEF Single
<1>8. Placed'
  <2>1. "drafts" \in Place /\ "returned" \in Place /\ "dropped" \in Place BY DEF Place
  <2>2. Holding["drafts"] = Range(d) \cup Holding'["drafts"] /\ Holding'["drafts"] \cap Range(d) = {}
    BY <1>3, HoldingIs, HoldingIsThen
  <2>3. CASE returned' = returned \o d /\ dropped' = dropped
    <3>1. Holding'["returned"] = Holding["returned"] \cup Range(d)
      BY <1>5, <2>3, HoldingIs, HoldingIsThen
    <3>2. \A p \in Place : p # "drafts" /\ p # "returned" => Same(p)
      BY <1>1, <2>3, HoldingIs, HoldingIsThen DEF Place, Same
    <3> QED BY <1>1, <2>1, <2>2, <3>1, <3>2, PlacedMoved
  <2>4. CASE dropped' = dropped \o d /\ returned' = returned
    <3>1. Holding'["dropped"] = Holding["dropped"] \cup Range(d)
      BY <1>5, <2>4, HoldingIs, HoldingIsThen
    <3>2. \A p \in Place : p # "drafts" /\ p # "dropped" => Same(p)
      BY <1>1, <2>4, HoldingIs, HoldingIsThen DEF Place, Same
    <3> QED BY <1>1, <2>1, <2>2, <3>1, <3>2, PlacedMoved
  <2> QED BY <1>1, <2>3, <2>4
<1>9. Control' BY <1>1 DEF Control, Detached
<1>10. Senders' BY <1>1 DEF Senders, Unsent
<1>11. LinesInOrder' BY <1>1, <1>4 DEF LinesInOrder
<1>12. FollowUpsWait' BY <1>1 DEF FollowUpsWait, FollowUpsInOrder
<1> QED BY <1>6, <1>7, <1>8, <1>9, <1>10, <1>11, <1>12

----------------------------------------------------------------------------
(* The turn drains its queues *)

\* What the drains of the steer queue have in common.
LEMMA TakeSteersStep ==
  ASSUME IInv, TakeSteers, UNCHANGED <<manager, ui, sent, returned, dropped>>,
         pc \in {"drain", "final"}, pc' \in {"call", "gate", "checks"}
  PROVE  IInv'
<1> USE DEF IInv
<1>1. /\ acked' = acked \o steerq /\ fresh' = fresh \o steerq /\ steerq' = <<>>
      /\ UNCHANGED <<children, bound, stash, flushing, followq, steps, segment, clean, swept, inline,
                     signal, carried, handback, turns, sent, returned, dropped>>
  BY DEF TakeSteers, manager, ui
<1>2. swept = <<>> /\ pc \notin Ending BY DEF Control, Ending
<1>3. acked \in Seq(Item) /\ steerq \in Seq(Item) /\ fresh \in Seq(Item) /\ followq \in Seq(Item)
  BY QueuesTyped DEF TypeOK
<1>4. /\ acked' \in Seq(Item) /\ fresh' \in Seq(Item)
      /\ Range(acked') = Range(acked) \cup Range(steerq)
  BY <1>1, <1>3, RangeJoined
<1>5. TypeOK'
  <2>1. pc' \in Label /\ steerq' \in Seq(Item) BY <1>1 DEF Label
  <2> QED BY <1>1, <1>4, <2>1 DEF TypeOK
<1>6. Single'
  <2>1. Range(acked) \cap Range(steerq) = {} BY RangesApart
  <2>2. Once(acked') BY <1>1, <1>3, <2>1, OnceJoined DEF Single
  <2> QED BY <1>1, <2>2, OnceSingle DEF Single
<1>7. Placed'
  <2>1. "steerq" \in Place /\ "acked" \in Place BY DEF Place
  <2> DEFINE M == Holding["steerq"]
  <2>2. Holding'["steerq"] = {} /\ Holding'["acked"] = Holding["acked"] \cup M
    BY <1>1, <1>4, HoldingIs, HoldingIsThen, RangeOfEmpty
  <2>3. \A p \in Place : p # "steerq" /\ p # "acked" => Same(p)
    BY <1>1, HoldingIs, HoldingIsThen DEF Place, Same
  <2>4. /\ Holding["steerq"] = M \cup Holding'["steerq"] /\ Holding'["steerq"] \cap M = {}
    BY <2>2
  <2> HIDE DEF M
  <2> QED BY <1>1, <2>1, <2>2, <2>3, <2>4, PlacedMoved
<1>8. Control' BY <1>1, <1>2 DEF Control, Detached
<1>9. Senders' BY <1>1 DEF Senders, Unsent
<1>10. acked \o <<>> = acked /\ acked' \o <<>> = acked' /\ acked' \o followq \in Seq(Item)
  BY <1>3, <1>4, Joins
<1>11. InOrder(acked \o <<>> \o steerq, Line, sent)
       /\ InOrder(acked \o <<>> \o steerq \o followq, FollowUp, sent)
  BY <1>2 DEF LinesInOrder, FollowUpsWait
<1>12. InOrder(acked', Line, sent) /\ InOrder(acked' \o followq, FollowUp, sent)
  BY <1>1, <1>10, <1>11
<1>13. InOrder(acked', FollowUp, sent) BY <1>3, <1>4, <1>12, InOrderJoined
<1>14. LinesInOrder' BY <1>1, <1>2, <1>10, <1>12 DEF LinesInOrder
<1>15. FollowUpsWait'
  BY <1>1, <1>2, <1>10, <1>12, <1>13, RangeOfEmpty DEF FollowUpsWait, FollowUpsInOrder
<1> QED BY <1>5, <1>6, <1>7, <1>8, <1>9, <1>14, <1>15

LEMMA DrainStep == IInv /\ Drain => IInv'
BY TakeSteersStep DEF Drain, Go

LEMMA FinalDrainStep == IInv /\ FinalDrain => IInv'
<1>1. FinalDrain => pc' \in {"gate", "checks"} BY DEF FinalDrain, Go
<1> QED BY <1>1, TakeSteersStep DEF FinalDrain, Go

LEMMA DrainFollowUpsStep == IInv /\ DrainFollowUps => IInv'
<1> SUFFICES ASSUME IInv, DrainFollowUps PROVE IInv' OBVIOUS
<1> USE DEF IInv
<1>1. /\ pc = "followups" /\ pc' \in {"gate", "sweep"} /\ clean' \in BOOLEAN
      /\ acked' = acked \o followq /\ fresh' = fresh \o followq /\ followq' = <<>>
      /\ UNCHANGED <<children, bound, stash, flushing, steerq, steps, segment, swept, inline,
                     signal, carried, handback, turns, sent, returned, dropped>>
  BY DEF DrainFollowUps, Go, manager, ui
<1>2. swept = <<>> /\ pc \notin Ending BY <1>1 DEF Control, Ending
<1>3. acked \in Seq(Item) /\ steerq \in Seq(Item) /\ fresh \in Seq(Item) /\ followq \in Seq(Item)
  BY QueuesTyped DEF TypeOK
<1>4. /\ acked' \in Seq(Item) /\ fresh' \in Seq(Item)
      /\ Range(acked') = Range(acked) \cup Range(followq)
  BY <1>1, <1>3, RangeJoined
<1>5. TypeOK'
  <2>1. pc' \in Label /\ followq' \in Seq(FollowUp) BY <1>1 DEF Label
  <2> QED BY <1>1, <1>4, <2>1 DEF TypeOK
<1>6. Single'
  <2>1. Range(acked) \cap Range(followq) = {} BY RangesApart
  <2>2. Once(acked') BY <1>1, <1>3, <2>1, OnceJoined DEF Single
  <2> QED BY <1>1, <2>2, OnceSingle DEF Single
<1>7. Placed'
  <2>1. "followq" \in Place /\ "acked" \in Place BY DEF Place
  <2> DEFINE M == Holding["followq"]
  <2>2. Holding'["followq"] = {} /\ Holding'["acked"] = Holding["acked"] \cup M
    BY <1>1, <1>4, HoldingIs, HoldingIsThen, RangeOfEmpty
  <2>3. \A p \in Place : p # "followq" /\ p # "acked" => Same(p)
    BY <1>1, HoldingIs, HoldingIsThen DEF Place, Same
  <2>4. /\ Holding["followq"] = M \cup Holding'["followq"] /\ Holding'["followq"] \cap M = {}
    BY <2>2
  <2> HIDE DEF M
  <2> QED BY <1>1, <2>1, <2>2, <2>3, <2>4, PlacedMoved
<1>8. Control' BY <1>1, <1>2 DEF Control, Detached
<1>9. Senders' BY <1>1 DEF Senders, Unsent
<1>10. acked \o <<>> = acked /\ acked' \o <<>> = acked' /\ acked' \o steerq \in Seq(Item)
  BY <1>3, <1>4, Joins
<1>11. InOrder(acked \o steerq, Line, sent) /\ InOrder(acked \o steerq \o followq, FollowUp, sent)
  BY <1>2, <1>10 DEF LinesInOrder, FollowUpsWait
<1>12. Range(followq) \cap Line = {} /\ Range(steerq) \cap FollowUp = {}
  BY <1>1, RangeTyped, ItemKinds DEF TypeOK, FollowUpsWait
<1>13. InOrder(acked \o followq \o steerq, Line, sent)
       /\ InOrder(acked \o followq \o steerq, FollowUp, sent)
  BY <1>3, <1>11, <1>12, InOrderPut
<1>14. InOrder(acked', FollowUp, sent) BY <1>1, <1>3, <1>4, <1>13, InOrderJoined
<1> DEFINE x == acked' \o steerq
<1>15. x \in Seq(Item) /\ InOrder(x, Line, sent) /\ InOrder(x, FollowUp, sent)
  BY <1>1, <1>10, <1>13
<1>16. x \o <<>> = x BY <1>10, Joins
<1>17. acked' \o swept' \o steerq' = x BY <1>1, <1>2, <1>10
<1> HIDE DEF x
<1>18. LinesInOrder' BY <1>1, <1>15, <1>17 DEF LinesInOrder
<1>19. FollowUpsWait'
  BY <1>1, <1>12, <1>14, <1>15, <1>16, <1>17 DEF FollowUpsWait, FollowUpsInOrder
<1> QED BY <1>5, <1>6, <1>7, <1>8, <1>9, <1>18, <1>19

----------------------------------------------------------------------------
(* What nobody drained goes back to the host *)

LEMMA SweepFollowUpsStep == IInv /\ SweepFollowUps => IInv'
<1> SUFFICES ASSUME IInv, SweepFollowUps PROVE IInv' OBVIOUS
<1> USE DEF IInv
<1>1. /\ pc = "sweep" /\ pc' = "sweepsteers" /\ swept' = followq /\ followq' = <<>>
      /\ UNCHANGED <<children, bound, stash, flushing, steerq, steps, segment, clean, fresh, inline,
                     signal, carried, handback, turns, sent, acked, returned, dropped>>
  BY DEF SweepFollowUps, Go, manager, ui
<1>2. swept = <<>> /\ pc \notin Ending BY <1>1 DEF Control, Ending
<1>3. acked \in Seq(Item) /\ steerq \in Seq(Item) /\ followq \in Seq(Item) BY QueuesTyped
<1>4. TypeOK' BY <1>1, <1>3 DEF TypeOK, Label
<1>5. Single' BY <1>1, OnceSingle DEF Single
<1>6. Placed'
  <2>1. "followq" \in Place /\ "swept" \in Place BY DEF Place
  <2> DEFINE M == Holding["followq"]
  <2>2. Holding["swept"] = {} /\ Holding'["followq"] = {} /\ Holding'["swept"] = M
    BY <1>1, <1>2, HoldingIs, HoldingIsThen, RangeOfEmpty
  <2>3. \A p \in Place : p # "followq" /\ p # "swept" => Same(p)
    BY <1>1, HoldingIs, HoldingIsThen DEF Place, Same
  <2>4. /\ Holding["followq"] = M \cup Holding'["followq"] /\ Holding'["followq"] \cap M = {}
        /\ Holding'["swept"] = Holding["swept"] \cup M
    BY <2>2
  <2> HIDE DEF M
  <2> QED BY <1>1, <2>1, <2>3, <2>4, PlacedMoved
<1>7. Control' BY <1>1, <1>2 DEF Control, Detached
<1>8. Senders' BY <1>1 DEF Senders, Unsent
<1>9. acked \o <<>> = acked /\ acked \o followq \o steerq \in Seq(Item) BY <1>3, Joins
<1>10. InOrder(acked \o steerq, Line, sent) /\ InOrder(acked \o steerq \o followq, FollowUp, sent)
  BY <1>2, <1>9 DEF LinesInOrder, FollowUpsWait
<1>11. Range(followq) \cap Line = {} /\ (clean => Range(steerq) \cap FollowUp = {})
  BY <1>1, RangeTyped, ItemKinds DEF TypeOK, FollowUpsWait
<1>12. InOrder(acked \o followq \o steerq, Line, sent) BY <1>3, <1>10, <1>11, InOrderPut
<1>13. clean => InOrder(acked \o followq \o steerq, FollowUp, sent)
  <2>1. ASSUME Range(steerq) \cap FollowUp = {}
        PROVE  InOrder(acked \o followq \o steerq, FollowUp, sent)
    BY <1>3, <1>10, <2>1, InOrderPut
  <2> QED BY <1>11, <2>1
<1> DEFINE x == acked \o followq \o steerq
<1>14. x \o <<>> = x BY <1>9, Joins
<1>15. acked' \o swept' \o steerq' = x BY <1>1
<1>16. InOrder(x, Line, sent) /\ (clean => InOrder(x, FollowUp, sent)) BY <1>12, <1>13
<1> HIDE DEF x
<1>17. LinesInOrder' BY <1>1, <1>15, <1>16 DEF LinesInOrder
<1>18. FollowUpsWait'
  BY <1>1, <1>14, <1>15, <1>16 DEF FollowUpsWait, FollowUpsInOrder, Ending
<1> QED BY <1>4, <1>5, <1>6, <1>7, <1>8, <1>17, <1>18

LEMMA ItemsJoin == \A s, t, u \in Seq(Item) : s \o (t \o u) = s \o t \o u
BY Joins

LEMMA SweptJoins ==
  ASSUME TypeOK
  PROVE  acked \o (swept \o steerq) = acked \o swept \o steerq
<1>1. acked \in Seq(Item) /\ steerq \in Seq(Item) /\ swept \in Seq(Item) BY QueuesTyped
<1> QED BY <1>1, ItemsJoin, Zenon

\* The rest of the steer queue is taken out of it, behind what was swept.
LEMMA SteersSwept ==
  ASSUME IInv, swept' = swept \o steerq, steerq' = <<>>,
         UNCHANGED <<manager, followq, segment, clean, acked, ui, sent, returned, dropped>>,
         steps' \in {steps, 0}, fresh' \in {fresh, <<>>},
         (pc = "sweepsteers" /\ pc' \in (IF inline THEN {"reclaim"} ELSE {"restore"}))
           \/ (pc = "reclaim" /\ pc' = "detach")
  PROVE  IInv'
<1> USE DEF IInv
<1>1. UNCHANGED <<children, bound, stash, flushing, followq, segment, clean, inline,
                  signal, carried, handback, turns, sent, acked, returned, dropped>>
  BY DEF manager, ui
<1>2. /\ acked \in Seq(Item) /\ steerq \in Seq(Item) /\ followq \in Seq(Item) /\ swept \in Seq(Item)
      /\ fresh \in Seq(Item)
  BY QueuesTyped DEF TypeOK
<1>3. swept' \in Seq(Item) /\ Range(swept') = Range(swept) \cup Range(steerq) BY <1>2, RangeJoined
<1>4. TypeOK'
  <2>1. steps' \in 0..MaxSteps BY Limits DEF TypeOK
  <2>2. fresh' \in Seq(Item) /\ steerq' \in Seq(Item)
    <3>1. <<>> \in Seq(Item) /\ fresh \in Seq(Item) BY <1>2
    <3>2. steerq' = <<>> /\ (fresh' = fresh \/ fresh' = <<>>) OBVIOUS
    <3> QED BY <3>1, <3>2, Zenon
  <2>3. pc' \in Label BY DEF Label
  <2> QED BY <1>1, <1>3, <2>1, <2>2, <2>3 DEF TypeOK
<1>5. Single'
  <2>1. Range(swept) \cap Range(steerq) = {} BY RangesApart
  <2>2. Once(swept') BY <1>2, <2>1, OnceJoined DEF Single
  <2> QED BY <1>1, <2>2, OnceSingle DEF Single
<1>6. Placed'
  <2>1. "steerq" \in Place /\ "swept" \in Place BY DEF Place
  <2> DEFINE M == Holding["steerq"]
  <2>2. Holding'["steerq"] = {} /\ Holding'["swept"] = Holding["swept"] \cup M
    BY <1>3, HoldingIs, HoldingIsThen, RangeOfEmpty
  <2>3. \A p \in Place : p # "steerq" /\ p # "swept" => Same(p)
    BY <1>1, HoldingIs, HoldingIsThen DEF Place, Same
  <2>4. Holding["steerq"] = M \cup Holding'["steerq"] /\ Holding'["steerq"] \cap M = {}
    BY <2>2
  <2> HIDE DEF M
  <2> QED BY <1>1, <2>1, <2>2, <2>3, <2>4, PlacedMoved
<1>7. Control' BY <1>1 DEF Control, Detached
<1>8. Senders' BY <1>1 DEF Senders, Unsent
<1> DEFINE x == acked \o swept \o steerq
<1>9. x \in Seq(Item) BY <1>2, Joins
<1>10. acked \o (swept \o steerq) = x BY SweptJoins, Zenon
<1>11. InOrder(x, Line, sent) /\ \A d \in DOMAIN handback : InOrder(handback[d], Line, sent)
  BY DEF LinesInOrder
<1>12. ~inline /\ clean => InOrder(x \o followq, FollowUp, sent) BY DEF FollowUpsWait
<1> HIDE DEF x
<1>13. x \o <<>> = x BY <1>9, Joins
<1>14. acked' \o swept' \o steerq' = x BY <1>1, <1>10, <1>13
<1>15. LinesInOrder' BY <1>1, <1>11, <1>14 DEF LinesInOrder
<1>16. ~inline => FollowUpsWait'
  <2> SUFFICES ASSUME ~inline PROVE FollowUpsWait' OBVIOUS
  <2>1. pc' \in Ending /\ pc' \notin {"checks", "followups", "sweep"} BY DEF Ending
  <2>2. InOrder(acked', FollowUp, sent') BY <1>1 DEF FollowUpsWait, FollowUpsInOrder
  <2>3. clean' => InOrder(acked' \o swept' \o steerq' \o followq', FollowUp, sent')
    <3> DEFINE y == acked' \o swept' \o steerq'
    <3>1. y = x BY <1>14
    <3>2. clean' = clean /\ followq' = followq /\ sent' = sent BY <1>1
    <3>3. clean => InOrder(x \o followq, FollowUp, sent) BY <1>12
    <3> HIDE DEF y
    <3>4. clean' => InOrder(y \o followq', FollowUp, sent') BY <3>1, <3>2, <3>3
    <3> QED BY <3>4, Zenon DEF y
  <2> QED BY <2>1, <2>2, <2>3, Zenon DEF FollowUpsWait, FollowUpsInOrder
<1>17. inline' = inline BY <1>1
<1> HIDE DEF IInv
<1> QED BY <1>4, <1>5, <1>6, <1>7, <1>8, <1>15, <1>16, <1>17, Concluded

LEMMA SweepSteersStep == IInv /\ SweepSteers => IInv'
<1> SUFFICES ASSUME IInv, SweepSteers PROVE IInv' OBVIOUS
<1>1. /\ swept' = swept \o steerq /\ steerq' = <<>> /\ steps' = 0 /\ fresh' = <<>>
      /\ UNCHANGED <<manager, followq, segment, clean, acked, ui, sent, returned, dropped>>
      /\ pc = "sweepsteers" /\ pc' \in (IF inline THEN {"reclaim"} ELSE {"restore"})
  BY DEF SweepSteers, Go, Route
<1> QED BY <1>1, SteersSwept

LEMMA ReclaimStep == IInv /\ Reclaim => IInv'
<1> SUFFICES ASSUME IInv, Reclaim PROVE IInv' OBVIOUS
<1>1. /\ swept' = swept \o steerq /\ steerq' = <<>> /\ steps' = steps /\ fresh' = fresh
      /\ UNCHANGED <<manager, followq, segment, clean, acked, ui, sent, returned, dropped>>
      /\ pc = "reclaim" /\ pc' = "detach"
  BY DEF Reclaim, Go
<1> QED BY <1>1, SteersSwept

LEMMA RestoreStep == IInv /\ Restore => IInv'
<1> SUFFICES ASSUME IInv, Restore PROVE IInv' OBVIOUS
<1> USE DEF IInv
<1>1. /\ pc = "restore" /\ pc' = "seal" /\ steerq' = swept \o steerq /\ swept' = <<>>
      /\ UNCHANGED <<children, bound, stash, flushing, followq, steps, segment, clean, fresh, inline,
                     signal, carried, handback, turns, sent, acked, returned, dropped>>
  BY DEF Restore, Go, manager, ui
<1>2. ~inline BY <1>1 DEF Control
<1>3. acked \in Seq(Item) /\ steerq \in Seq(Item) /\ followq \in Seq(Item) /\ swept \in Seq(Item)
  BY QueuesTyped
<1>4. steerq' \in Seq(Item) /\ Range(steerq') = Range(swept) \cup Range(steerq)
  BY <1>1, <1>3, RangeJoined
<1>5. TypeOK' BY <1>1, <1>4 DEF TypeOK, Label
<1>6. Single'
  <2>1. Range(swept) \cap Range(steerq) = {} BY RangesApart
  <2>2. Once(steerq') BY <1>1, <1>3, <2>1, OnceJoined DEF Single
  <2> QED BY <1>1, <2>2, OnceSingle DEF Single
<1>7. Placed'
  <2>1. "steerq" \in Place /\ "swept" \in Place BY DEF Place
  <2> DEFINE M == Holding["swept"]
  <2>2. Holding'["swept"] = {} /\ Holding'["steerq"] = Holding["steerq"] \cup M
    BY <1>1, <1>4, HoldingIs, HoldingIsThen, RangeOfEmpty
  <2>3. \A p \in Place : p # "steerq" /\ p # "swept" => Same(p)
    BY <1>1, HoldingIs, HoldingIsThen DEF Place, Same
  <2>4. Holding["swept"] = M \cup Holding'["swept"] /\ Holding'["swept"] \cap M = {}
    BY <2>2
  <2> HIDE DEF M
  <2> QED BY <1>1, <2>1, <2>2, <2>3, <2>4, PlacedMoved
<1>8. Control' BY <1>1, <1>2 DEF Control, Detached
<1>9. Senders' BY <1>1 DEF Senders, Unsent
<1> DEFINE x == acked \o swept \o steerq
<1>10. acked \o (swept \o steerq) = x /\ acked \o <<>> = acked
  <2>1. acked \o (swept \o steerq) = x BY SweptJoins, Zenon
  <2> QED BY <1>3, <2>1, Joins
<1>11. InOrder(x, Line, sent) /\ \A d \in DOMAIN handback : InOrder(handback[d], Line, sent)
  BY DEF LinesInOrder
<1>12. clean => InOrder(x \o followq, FollowUp, sent) BY DEF FollowUpsWait
<1> HIDE DEF x
<1>13. acked' \o swept' \o steerq' = x BY <1>1, <1>10
<1>14. LinesInOrder' BY <1>1, <1>11, <1>13 DEF LinesInOrder
<1>15. FollowUpsWait'
  <2>1. pc' \in Ending /\ pc' \notin {"checks", "followups", "sweep"} BY <1>1 DEF Ending
  <2>2. InOrder(acked', FollowUp, sent') BY <1>1 DEF FollowUpsWait, FollowUpsInOrder
  <2> QED BY <1>1, <1>12, <1>13, <2>1, <2>2 DEF FollowUpsWait, FollowUpsInOrder
<1> QED BY <1>5, <1>6, <1>7, <1>8, <1>9, <1>14, <1>15

LEMMA DetachInline == IInv /\ inline /\ Detach => IInv'
<1> SUFFICES ASSUME IInv, inline, Detach PROVE IInv' OBVIOUS
<1> USE DEF IInv
<1>1. /\ pc = "detach" /\ pc' = "seal" /\ bound' = FALSE
      /\ stash' = stash \o swept /\ swept' = <<>> /\ steerq' = <<>>
      /\ UNCHANGED <<children, flushing, followq, steps, segment, clean, fresh, inline, signal,
                     carried, handback, turns, sent, acked, returned, dropped>>
  BY DEF Detach, Route, ui, history
<1>2. stash \in Seq(Peer) /\ swept \in Seq(Peer)
  <2>1. Range(swept) \subseteq Peer BY RangesSent DEF Senders
  <2> QED BY <2>1, RangeIsTyped DEF TypeOK
<1>3. stash' \in Seq(Peer) /\ Range(stash') = Range(stash) \cup Range(swept)
  BY <1>1, <1>2, RangeJoined
<1>4. TypeOK'
  <2>1. pc' \in Label /\ bound' \in BOOLEAN BY <1>1 DEF Label
  <2>2. swept' \in Seq(Item) /\ steerq' \in Seq(Item) BY <1>1
  <2> QED BY <1>1, <1>3, <2>1, <2>2 DEF TypeOK
<1>5. Single'
  <2>1. Range(stash) \cap Range(swept) = {} BY RangesApart
  <2>2. Once(stash') BY <1>1, <1>2, <2>1, OnceJoined DEF Single
  <2> QED BY <1>1, <2>2, OnceSingle DEF Single
<1>6. Placed'
  <2> DEFINE R == Holding
             T == Holding'
             M == Range(swept)
             Y == [p \in Place |-> IF p = "swept" THEN {}
                                   ELSE IF p = "stash" THEN R[p] \cup M ELSE R[p]]
  <2>1. /\ DOMAIN Y = Place /\ DOMAIN R = Place /\ DOMAIN T = Place
        /\ "swept" \in Place /\ "stash" \in Place
    BY HoldingIs, HoldingIsThen DEF Place
  <2>2. /\ Y["swept"] = {} /\ Y["stash"] = R["stash"] \cup M
        /\ \A p \in Place : p # "swept" /\ p # "stash" => Y[p] = R[p]
    BY <2>1
  <2>3. R["swept"] = M BY HoldingIs
  <2>4. /\ T["swept"] = {} /\ T["steerq"] = {} /\ T["stash"] = R["stash"] \cup M
        /\ \A p \in Place : p # "swept" /\ p # "stash" /\ p # "steerq" => T[p] = R[p]
    BY <1>1, <1>3, HoldingIs, HoldingIsThen, RangeOfEmpty DEF Place
  <2>5. Apart(R) /\ Content(R) \subseteq Range(sent) BY DEF Placed
  <2> HIDE DEF R, T, Y, M
  <2>6. R["swept"] = M \cup Y["swept"] /\ Y["swept"] \cap M = {} BY <2>2, <2>3
  <2>7. \A p \in DOMAIN R : p # "swept" /\ p # "stash" => Y[p] = R[p] BY <2>1, <2>2
  <2>8. Apart(Y) /\ Content(Y) = Content(R) BY <2>1, <2>2, <2>5, <2>6, <2>7, Moved
  <2>9. \A p \in DOMAIN Y : T[p] \subseteq Y[p] BY <2>1, <2>2, <2>4
  <2>10. Apart(T) /\ Content(T) \subseteq Content(Y) BY <2>1, <2>8, <2>9, Left
  <2>11. Apart(T) /\ Content(T) \subseteq Range(sent') BY <1>1, <2>5, <2>8, <2>10
  <2> QED BY <1>1, <2>11 DEF Placed, T
<1>7. Control' BY <1>1 DEF Control, Detached
<1>8. Senders' BY <1>1 DEF Senders, Unsent
<1>9. inline' = inline BY <1>1
<1> HIDE DEF IInv
<1> QED BY <1>4, <1>5, <1>6, <1>7, <1>8, <1>9, Concluded

LEMMA DetachLive == IInv /\ ~inline /\ Detach => IInv'
<1> SUFFICES ASSUME IInv, ~inline, Detach PROVE IInv' OBVIOUS
<1>1. /\ pc = "detach" /\ pc' = "retire" /\ bound' = FALSE
      /\ stash' = stash \o swept /\ swept' = <<>> /\ steerq' = steerq
      /\ UNCHANGED <<children, flushing, followq, steps, segment, clean, fresh, inline, signal,
                     carried, handback, turns, sent, acked, returned, dropped>>
  BY DEF Detach, Route, ui, history
<1>2. swept = <<>> /\ stash \in Seq(Peer) BY <1>1 DEF IInv, Control, TypeOK
<1>3. stash \o <<>> = stash BY <1>2, ConcatEmptySeq
<1>4. stash' = stash /\ swept' = swept BY <1>1, <1>2, <1>3
<1>5. UNCHANGED Data BY <1>1, <1>4 DEF Data
<1>6. TypeOK' BY <1>1, <1>4 DEF IInv, TypeOK, Label
<1>7. Control' BY <1>1, <1>4 DEF IInv, Control, Detached
<1>8. Senders' BY <1>1 DEF IInv, Senders, Unsent
<1>9. /\ clean' \/ pc' \notin Ending => clean \/ pc \notin Ending
      /\ ~(pc' \in {"checks", "followups"} \/ (clean' /\ pc' = "sweep"))
  BY <1>1 DEF Ending
<1> QED BY <1>5, <1>6, <1>7, <1>8, <1>9, QuietStep

LEMMA DetachStep == IInv /\ Detach => IInv'
BY DetachInline, DetachLive

\* What the retired turn leaves is shared out: prose to a draft, completions to
\* the next turn.
LEMMA SharedOut ==
  ASSUME Apart(Holding), NEW A, NEW B, NEW C, NEW T, DOMAIN T = Place,
         Holding["steerq"] = A \cup C, A \cap C = {}, Holding["followq"] = B,
         T["steerq"] = {}, T["followq"] = {},
         T["drafts"] = Holding["drafts"] \cup A \cup B, T["carried"] = Holding["carried"] \cup C,
         \A p \in Place \ {"steerq", "followq", "drafts", "carried"} : T[p] = Holding[p]
  PROVE  Apart(T) /\ Content(T) = Content(Holding)
<1> DEFINE R == Holding
           Y == [p \in Place |-> IF p = "steerq" THEN C
                                 ELSE IF p = "drafts" THEN R[p] \cup A ELSE R[p]]
           Z == [p \in Place |-> IF p = "followq" THEN {}
                                 ELSE IF p = "drafts" THEN Y[p] \cup B ELSE Y[p]]
<1>1. DOMAIN R = Place /\ DOMAIN Y = Place /\ DOMAIN Z = Place BY HoldingIs
<1>2. {"steerq", "followq", "drafts", "carried"} \subseteq Place BY DEF Place
<1>3. /\ Y["steerq"] = C /\ Y["drafts"] = R["drafts"] \cup A
      /\ \A p \in Place : p # "steerq" /\ p # "drafts" => Y[p] = R[p]
  BY <1>2
<1> HIDE DEF Y
<1>4. /\ Z["followq"] = {} /\ Z["drafts"] = Y["drafts"] \cup B
      /\ \A p \in Place : p # "followq" /\ p # "drafts" => Z[p] = Y[p]
  BY <1>2
<1> HIDE DEF Z
<1>5. /\ Apart(R) /\ R["steerq"] = A \cup C /\ R["followq"] = B
      /\ T["drafts"] = R["drafts"] \cup A \cup B /\ T["carried"] = R["carried"] \cup C
      /\ \A p \in Place \ {"steerq", "followq", "drafts", "carried"} : T[p] = R[p]
  OBVIOUS
<1> HIDE DEF R
<1>6. Apart(Y) /\ Content(Y) = Content(R)
  <2>1. R["steerq"] = A \cup Y["steerq"] /\ Y["steerq"] \cap A = {} BY <1>3, <1>5
  <2>2. \A p \in DOMAIN R : p # "steerq" /\ p # "drafts" => Y[p] = R[p] BY <1>1, <1>3
  <2>3. DOMAIN Y = DOMAIN R /\ "steerq" \in DOMAIN R /\ "drafts" \in DOMAIN R BY <1>1, <1>2
  <2> QED BY <1>3, <1>5, <2>1, <2>2, <2>3, Moved
<1>7. Apart(Z) /\ Content(Z) = Content(Y)
  <2>1. Y["followq"] = B \cup Z["followq"] /\ Z["followq"] \cap B = {} BY <1>2, <1>3, <1>4, <1>5
  <2>2. \A p \in DOMAIN Y : p # "followq" /\ p # "drafts" => Z[p] = Y[p] BY <1>1, <1>4
  <2>3. DOMAIN Z = DOMAIN Y /\ "followq" \in DOMAIN Y /\ "drafts" \in DOMAIN Y BY <1>1, <1>2
  <2> QED BY <1>4, <1>6, <2>1, <2>2, <2>3, Moved
<1>8. Apart(T) /\ Content(T) = Content(Z)
  <2>1. Z["steerq"] = C \cup T["steerq"] /\ T["steerq"] \cap C = {} BY <1>2, <1>3, <1>4
  <2>2. T["carried"] = Z["carried"] \cup C BY <1>2, <1>3, <1>4, <1>5
  <2>3. \A p \in DOMAIN Z : p # "steerq" /\ p # "carried" => T[p] = Z[p]
    <3>1. T["followq"] = Z["followq"] /\ T["drafts"] = Z["drafts"] BY <1>2, <1>3, <1>4, <1>5
    <3>2. \A p \in Place \ {"steerq", "followq", "drafts", "carried"} : T[p] = Z[p]
      BY <1>3, <1>4, <1>5
    <3> QED BY <1>1, <3>1, <3>2
  <2>4. DOMAIN T = DOMAIN Z /\ "steerq" \in DOMAIN Z /\ "carried" \in DOMAIN Z BY <1>1, <1>2
  <2> QED BY <1>7, <2>1, <2>2, <2>3, <2>4, Moved
<1> QED BY <1>6, <1>7, <1>8 DEF R

LEMMA RetireStep == IInv /\ Retire => IInv'
<1> SUFFICES ASSUME IInv, Retire PROVE IInv' OBVIOUS
<1> USE DEF IInv
<1> DEFINE left == steerq \o followq
           draft == Only(left, Prose)
           rest == Only(left, Peer)
<1>1. /\ pc = "retire" /\ pc' = "idle" /\ steerq' = <<>> /\ followq' = <<>>
      /\ handback' = (IF draft = <<>> THEN handback ELSE Append(handback, draft))
      /\ carried' = carried \o rest /\ signal' = FALSE /\ segment' = 0
      /\ UNCHANGED <<children, bound, stash, flushing, steps, clean, swept, fresh, inline, turns,
                     sent, acked, returned, dropped>>
  BY DEF Retire, manager, history
<1>2. ~inline /\ swept = <<>> /\ ~bound /\ flushing = <<>>
  BY <1>1 DEF Control, Detached
<1>3. acked \in Seq(Item) /\ steerq \in Seq(Item) /\ followq \in Seq(Item) BY QueuesTyped
<1>4. left \in Seq(Item) /\ Range(left) = Range(steerq) \cup Range(followq) BY <1>3, RangeJoined
<1>5. Once(left)
  <2>1. Range(steerq) \cap Range(followq) = {} BY RangesApart
  <2> QED BY <1>3, <2>1, OnceJoined DEF Single
<1>6. InOrder(left, Line, sent)
  <2>1. InOrder(steerq, Line, sent)
    <3>1. acked \o swept \in Seq(Item) BY WaitingSent
    <3>2. InOrder((acked \o swept) \o steerq, Line, sent) BY DEF LinesInOrder
    <3> QED BY <1>3, <3>1, <3>2, InOrderJoined
  <2>2. Range(followq) \cap Line = {} BY RangeTyped, ItemKinds DEF TypeOK
  <2> QED BY <1>3, <2>1, <2>2, InOrderGains
<1> HIDE DEF left
<1>7. /\ draft \in Seq(Prose) /\ Range(draft) = Range(left) \cap Prose /\ Once(draft)
      /\ InOrder(draft, Line, sent)
  <2>1. /\ draft \in Seq(Prose) /\ Range(draft) = Range(left) \cap Prose
        /\ Once(left) => Once(draft)
        /\ \A of, log : InOrder(left, of, log) => InOrder(draft, of, log)
    BY <1>4, ItemKinds, OnlyGives
  <2> QED BY <1>5, <1>6, <2>1
<1>8. rest \in Seq(Peer) /\ Range(rest) = Range(left) \cap Peer /\ Once(rest)
  <2>1. /\ rest \in Seq(Peer) /\ Range(rest) = Range(left) \cap Peer
        /\ Once(left) => Once(rest)
    BY <1>4, ItemKinds, OnlyGives
  <2> QED BY <1>5, <2>1
<1> HIDE DEF draft, rest
<1>9. Range(followq) \subseteq Prose BY RangeTyped, ItemKinds DEF TypeOK
<1> DEFINE A == Range(steerq) \cap Prose
           B == Range(followq)
           C == Range(steerq) \cap Peer
<1>10. /\ Range(steerq) = A \cup C /\ A \cap C = {}
       /\ Range(draft) = A \cup B /\ Range(rest) = C
  <2>1. Range(steerq) \subseteq Prose \cup Peer BY <1>3, RangeTyped, ItemKinds
  <2> QED BY <1>4, <1>7, <1>8, <1>9, <2>1, ItemKinds
<1>11. /\ carried' \in Seq(Peer) /\ Range(carried') = Range(carried) \cup C
       /\ Once(carried')
  <2>1. carried \in Seq(Peer) BY DEF TypeOK
  <2>2. Range(carried) \cap Range(rest) = {} BY <1>10, RangesApart
  <2> QED BY <1>1, <1>8, <1>10, <2>1, <2>2, RangeJoined, OnceJoined DEF Single
<1>12. /\ handback' \in Seq(Seq(Prose))
       /\ Written(handback') = Written(handback) \cup A \cup B
       /\ WrittenOnce(handback')
       /\ \A d \in DOMAIN handback' : InOrder(handback'[d], Line, sent)
  <2>1. handback \in Seq(Seq(Prose)) /\ WrittenOnce(handback)
        /\ \A d \in DOMAIN handback : InOrder(handback[d], Line, sent)
    BY DEF TypeOK, Single, LinesInOrder
  <2>2. CASE draft = <<>>
    <3>1. A \cup B = {} BY <1>10, <2>2, RangeOfEmpty
    <3> QED BY <1>1, <2>1, <2>2, <3>1
  <2>3. CASE draft # <<>>
    <3>1. handback' = Append(handback, draft) BY <1>1, <2>3
    <3>2. Written(handback) \cap Range(draft) = {} BY <1>10, RangesApart
    <3>3. /\ Append(handback, draft) \in Seq(Seq(Prose))
          /\ Written(Append(handback, draft)) = Written(handback) \cup Range(draft)
          /\ WrittenOnce(Append(handback, draft))
          /\ \A d \in DOMAIN Append(handback, draft) : InOrder(Append(handback, draft)[d], Line, sent)
      BY <1>7, <2>1, <3>2, WrittenAppended
    <3> QED BY <1>10, <3>1, <3>3
  <2> QED BY <2>2, <2>3
<1>13. TypeOK'
  <2>1. pc' \in Label /\ signal' \in BOOLEAN BY <1>1 DEF Label
  <2>2. segment' = 0 /\ 0 \in 0..MaxSegments BY <1>1, Limits
  <2>3. steerq' \in Seq(Item) /\ followq' \in Seq(FollowUp) BY <1>1
  <2> QED BY <1>1, <1>11, <1>12, <2>1, <2>2, <2>3 DEF TypeOK
<1>14. Single' BY <1>1, <1>11, <1>12, OnceSingle DEF Single
<1>15. Placed'
  <2> DEFINE T == Holding'
  <2>1. /\ DOMAIN T = Place /\ T["steerq"] = {} /\ T["followq"] = {}
        /\ T["drafts"] = Holding["drafts"] \cup A \cup B
        /\ T["carried"] = Holding["carried"] \cup C
    BY <1>1, <1>11, <1>12, HoldingIs, HoldingIsThen, RangeOfEmpty
  <2>2. \A p \in Place \ {"steerq", "followq", "drafts", "carried"} : T[p] = Holding[p]
    BY <1>1, HoldingIs, HoldingIsThen DEF Place
  <2>3. Holding["steerq"] = A \cup C /\ A \cap C = {} /\ Holding["followq"] = B
    BY <1>10, HoldingIs
  <2>4. /\ Apart(Holding) /\ Content(Holding) \subseteq Range(sent)
        /\ (~inline => Range(sent) \subseteq Content(Holding))
    BY DEF Placed
  <2> HIDE DEF T, A, B, C
  <2>5. Apart(T) /\ Content(T) = Content(Holding) BY <2>1, <2>2, <2>3, <2>4, SharedOut
  <2>6. /\ Apart(T) /\ Content(T) \subseteq Range(sent')
        /\ (~inline' => Range(sent') \subseteq Content(T))
    BY <1>1, <2>4, <2>5
  <2> QED BY <2>6 DEF Placed, T
<1>16. Control' BY <1>1, <1>2 DEF Control, Detached
<1>17. Senders' BY <1>1 DEF Senders, Unsent
<1>18. acked \o <<>> = acked BY <1>3, Joins
<1>19. InOrder(acked, Line, sent) /\ InOrder(acked, FollowUp, sent)
  <2>1. InOrder(acked \o steerq, Line, sent) BY <1>2, <1>18 DEF LinesInOrder
  <2> QED BY <1>3, <2>1, InOrderJoined DEF FollowUpsWait, FollowUpsInOrder
<1>20. LinesInOrder' BY <1>1, <1>2, <1>12, <1>18, <1>19 DEF LinesInOrder
<1>21. FollowUpsWait'
  BY <1>1, <1>2, <1>18, <1>19, RangeOfEmpty DEF FollowUpsWait, FollowUpsInOrder
<1> QED BY <1>13, <1>14, <1>15, <1>16, <1>17, <1>20, <1>21

----------------------------------------------------------------------------
(* The invariant and what follows from it *)

LEMMA Initially == Init => IInv
<1> SUFFICES ASSUME Init PROVE IInv OBVIOUS
<1> USE DEF Init
<1>1. TypeOK
  <2>1. 0 \in 0..MaxSteps /\ 0 \in 0..MaxSegments /\ 0 \in 0..MaxTurns BY Limits
  <2>2. \A S : <<>> \in Seq(S) OBVIOUS
  <2>3. "idle" \in Label BY DEF Label
  <2> QED BY <2>1, <2>2, <2>3 DEF TypeOK
<1>2. WrittenOnce(handback) /\ Written(handback) = {} BY DEF WrittenOnce, Written
<1>3. Single BY <1>2, OnceSingle DEF Single
<1>4. \A p \in Place : Holding[p] = {} BY <1>2, HoldingIs, RangeOfEmpty DEF Place
<1>5. Apart(Holding) /\ Content(Holding) = {} BY <1>4, HoldingIs DEF Apart, Content
<1>6. Range(sent) = {} BY RangeOfEmpty
<1>7. Placed BY <1>5, <1>6 DEF Placed
<1>8. Control BY DEF Control, Detached
<1>9. Senders BY <1>6, OnceSingle DEF Senders
<1>10. \A kind : InOrder(<<>>, kind, sent) BY RangeOfEmpty, InOrderOthers
<1>11. <<>> \o <<>> = <<>> OBVIOUS
<1>12. LinesInOrder BY <1>10, <1>11 DEF LinesInOrder
<1>13. FollowUpsWait BY <1>10, <1>11, RangeOfEmpty DEF FollowUpsWait, FollowUpsInOrder
<1> QED BY <1>1, <1>3, <1>7, <1>8, <1>9, <1>12, <1>13 DEF IInv

LEMMA Stepwise == IInv /\ [Next]_vars => IInv'
<1> SUFFICES ASSUME IInv, [Next]_vars PROVE IInv' OBVIOUS
<1>1. CASE TurnThread
  BY <1>1, AttachStep, FlushStep, FlushDoneStep, PrepareStep, GateStep, DrainStep, CallStep,
     ToolsStep, FinalDrainStep, ChecksStep, DrainFollowUpsStep, SweepFollowUpsStep,
     SweepSteersStep, RestoreStep, SealStep, ReclaimStep, DetachStep, RetireStep
     DEF TurnThread
<1>2. CASE Compact BY <1>2, CompactStep
<1>3. CASE User BY <1>3, StartTurnStep, CancelStep, SteerStep, QueueFollowUpStep DEF User
<1>4. CASE RestoreDraft BY <1>4, RestoreDraftStep
<1>5. ASSUME NEW p \in Peer, StartChild(p) \/ Deliver(p) PROVE IInv'
  BY <1>5, StartChildStep, DeliverStep
<1>6. CASE UNCHANGED vars BY <1>6, StutterStep
<1> QED BY <1>1, <1>2, <1>3, <1>4, <1>5, <1>6 DEF Next

\* What the turn thread, the user interface and the children keep between them in
\* every state of every execution, whatever their interleaving.
THEOREM QueuesKept == Spec => []IInv
BY Initially, Stepwise, PTL DEF Spec

\* Everything the user or a child sent into a turn is in exactly one place, in no
\* place twice, and nothing that was acknowledged is handed back; text becomes no
\* completion and a completion no text (loop.py, background.py, tui.py).
THEOREM NothingLost == Spec => []AccountedFor
<1>1. ASSUME IInv PROVE AccountedFor
  <2>1. Written(handback) \cup Range(returned) \cup Range(dropped) \subseteq Prose
    <3>1. Range(returned) \subseteq Prose /\ Range(dropped) \subseteq Prose
      BY <1>1, RangeTyped DEF IInv, TypeOK
    <3>2. \A d \in DOMAIN handback : handback[d] \in Seq(Prose) BY <1>1 DEF IInv, TypeOK
    <3>3. \A d \in DOMAIN handback : Range(handback[d]) \subseteq Prose BY <3>2, RangeTyped
    <3> QED BY <3>1, <3>3 DEF Written
  <2>2. Range(carried) \cup Range(stash) \subseteq Peer BY <1>1, RangeTyped DEF IInv, TypeOK
  <2> QED BY <1>1, <2>1, <2>2 DEF IInv, Single, Placed, AccountedFor
<1> QED BY <1>1, QueuesKept, PTL

\* Lines are acknowledged in the order they were typed in, and those that still
\* wait are behind them in that order, through sweeps, restores and workspace
\* segments; each draft has its lines in order (_drain_steers, _sweep_leftovers,
\* _prepend_leftover_steers, _split_steer_handback).
THEOREM LinesKeepTheirOrder == Spec => []LinesInOrder
<1>1. IInv => LinesInOrder BY DEF IInv
<1> QED BY <1>1, QueuesKept, PTL

\* Follow-ups that the turn takes are taken in the order they were typed in, also
\* when an earlier segment swept some of them (_drain_followups).
THEOREM FollowUpsKeepTheirOrder == Spec => []FollowUpsInOrder
<1>1. IInv => FollowUpsInOrder BY DEF IInv, FollowUpsWait
<1> QED BY <1>1, QueuesKept, PTL
=============================================================================
