--------------------------- MODULE TurnLoopProofs ---------------------------
(***************************************************************************)
(* What run_turn promises of one turn, for every batch of results, every   *)
(* limit and any number of steers and follow-ups: an inductive invariant   *)
(* of TurnLoop and the three properties it carries.                        *)
(***************************************************************************)
EXTENDS TurnLoop, FiniteSetTheorems, SequenceTheorems, WellFoundedInduction, TLAPS

Kinds   == {"crumb", "host", "text", "item", "calls", "tool"}
Things  == Steer \cup FollowUp \cup (Nat \X Nat)
Message == [kind : Kinds, of : SUBSET Things, body : BOOLEAN]

\* PromptsWellFormed and CompactionHonest of any trajectory s.
RepliesIn(s, n) == {k \in n + 1 .. Len(s) : \A j \in n + 1 .. k : IsTool(s[j])}
Paired(s) ==
  /\ \A n \in 1..Len(s) : s[n].kind = "calls" =>
       UNION {s[k].of : k \in RepliesIn(s, n)} = s[n].of
  /\ \A k \in 1..Len(s) : IsTool(s[k]) =>
       \E n \in 1 .. k - 1 : s[n].kind = "calls" /\ k \in RepliesIn(s, n)
CrumbFirst(s) == \A n \in 1..Len(s) : s[n].kind = "crumb" => n = 1
InFull(s, r) == \E n \in 1..Len(s) : IsTool(s[n]) /\ s[n].of = {r} /\ s[n].body

\* A message that neither calls nor answers; t is s with such messages added.
Inert(m) == m.kind \notin {"crumb", "calls", "tool"}
Extends(t, s) == Len(s) <= Len(t) /\ \A i \in 1..Len(s) : t[i] = s[i]
Grown(s, t) == Extends(t, s) /\ \A i \in Len(s) + 1 .. Len(t) : Inert(t[i])

Typed ==
  /\ TypeOK
  /\ messages \in Seq(Message) /\ reports \subseteq Nat \X Nat
  /\ IsFiniteSet(waiting)

\* Behind these places no request is made any more.
Over == {"turnend", "announce", "done", "raised"}
\* A response was accepted, so far.
Answering == {"final", "checks", "followups", "publish"}
\* The answer that counts was given by a model that knew all there was.
Knowing == ~spent /\ reports \subseteq seen /\ (shed \/ receipts \subseteq seen)

\* The trajectory: what a request needs, and what compaction must leave.
Trajectory ==
  /\ pc \notin Over => Paired(messages)
  /\ shed => HasCrumb
  /\ CrumbFirst(messages)
  /\ \A r \in reports : InFull(messages, r)
  /\ shed \/ receipts \subseteq Carried

\* Where the turn is, and why.
Ladder ==
  /\ pc \in Answering => Knowing
  /\ pc \in {"followups", "publish"} => stop = "end_turn"
  /\ pc = "closeout" => stop \in {"max_steps", "indeterminate"}
  /\ pc = "turnend" => stop = (IF final THEN "end_turn" ELSE "waiting_peer")
  /\ pc = "announce" => stop # "end_turn"
  /\ pc = "done" /\ stop = "end_turn" => final
  /\ final => pc \in Over /\ stop \in {"end_turn", "aborted", "error"} /\ Knowing /\ ~unsure
  /\ unsure => pc \in {"closeout", "announce", "done", "raised"}
                 /\ stop \in {"indeterminate", "aborted", "error"}

Inv == Typed /\ Trajectory /\ Ladder

-----------------------------------------------------------------------------
(* Trajectories *)

\* A queue is drained whole, in some order.
LEMMA QueueInOrder ==
  ASSUME NEW q, IsFiniteSet(q)
  PROVE  /\ SetToSeq(q) \in [1..Cardinality(q) -> q]
         /\ Cardinality(q) \in Nat
         /\ \A i \in q : \E n \in 1..Cardinality(q) : SetToSeq(q)[n] = i
  <1> DEFINE c == Cardinality(q)
             s == SetToSeq(q)
  <1>1. c \in Nat /\ ExistsBijection(1..c, q)
    BY FS_CardinalityType
  <1>2. \E f \in [1..c -> q] : IsInjective(f)
    BY <1>1 DEF ExistsBijection, Bijection, Injection
  <1>3. s \in [1..c -> q] /\ IsInjective(s)
    BY <1>2 DEF SetToSeq
  <1>4. s \in Injection(1..c, q)
    BY <1>3 DEF Injection
  <1>5. Cardinality(1..c) = c
    BY <1>1, FS_Interval
  <1>6. s \in Surjection(1..c, q)
    BY <1>4, <1>5, FS_Injection
  <1> QED
    BY <1>1, <1>3, <1>6 DEF Surjection

\* What is added behind a trajectory changes no reply, unless it is a reply.
LEMMA RepliesKept ==
  ASSUME NEW s \in Seq(Message), NEW t \in Seq(Message), Extends(t, s), Paired(s),
         Len(s) < Len(t) => t[Len(s) + 1].kind # "tool"
  PROVE  /\ \A n \in 1..Len(s) : RepliesIn(t, n) = RepliesIn(s, n)
         /\ \A n \in 1..Len(s) : t[n].kind = "calls" =>
              UNION {t[k].of : k \in RepliesIn(t, n)} = t[n].of
         /\ \A k \in 1..Len(s) : IsTool(t[k]) =>
              \E n \in 1 .. k - 1 : t[n].kind = "calls" /\ k \in RepliesIn(t, n)
  <1> DEFINE L == Len(s)
  <1>0. L \in Nat /\ Len(t) \in Nat /\ L <= Len(t)
    BY DEF Extends
  <1>1. \A i \in 1..L : t[i] = s[i]
    BY DEF Extends
  <1>2. L < Len(t) => ~IsTool(t[L + 1])
    BY DEF IsTool
  <1> HIDE DEF L
  <1>3. \A n \in 1..L : RepliesIn(t, n) = RepliesIn(s, n)
    <2> SUFFICES ASSUME NEW n \in 1..L PROVE RepliesIn(t, n) = RepliesIn(s, n)
      OBVIOUS
    <2>1. ASSUME NEW k \in RepliesIn(t, n) PROVE k \in RepliesIn(s, n)
      <3>1. k \in n + 1 .. Len(t) /\ \A j \in n + 1 .. k : IsTool(t[j])
        BY <2>1 DEF RepliesIn
      <3>2. k <= L
        <4> SUFFICES ASSUME k > L PROVE FALSE
          BY <1>0, <3>1
        <4>1. L + 1 \in n + 1 .. k /\ L < Len(t)
          BY <1>0, <3>1
        <4> QED
          BY <1>2, <3>1, <4>1
      <3>3. \A j \in n + 1 .. k : j \in 1..L /\ IsTool(t[j])
        BY <1>0, <3>1, <3>2
      <3>4. \A j \in n + 1 .. k : IsTool(s[j])
        BY <1>1, <3>3
      <3> QED
        BY <1>0, <3>1, <3>2, <3>4 DEF RepliesIn, L
    <2>2. ASSUME NEW k \in RepliesIn(s, n) PROVE k \in RepliesIn(t, n)
      <3>1. k \in n + 1 .. L /\ \A j \in n + 1 .. k : IsTool(s[j])
        BY <2>2 DEF RepliesIn, L
      <3>2. \A j \in n + 1 .. k : j \in 1..L
        BY <1>0, <3>1
      <3> QED
        BY <1>0, <1>1, <3>1, <3>2 DEF RepliesIn
    <2> QED
      BY <2>1, <2>2
  <1>4. ASSUME NEW n \in 1..L, t[n].kind = "calls"
        PROVE  UNION {t[k].of : k \in RepliesIn(t, n)} = t[n].of
    <2>1. \A k \in RepliesIn(s, n) : t[k] = s[k]
      BY <1>0, <1>1 DEF RepliesIn, L
    <2>2. {t[k].of : k \in RepliesIn(t, n)} = {s[k].of : k \in RepliesIn(s, n)}
      BY <1>3, <2>1
    <2> QED
      BY <1>1, <1>4, <2>2 DEF Paired, L
  <1>5. ASSUME NEW k \in 1..L, IsTool(t[k])
        PROVE  \E n \in 1 .. k - 1 : t[n].kind = "calls" /\ k \in RepliesIn(t, n)
    <2>1. IsTool(s[k])
      BY <1>1, <1>5
    <2>2. PICK n \in 1 .. k - 1 : s[n].kind = "calls" /\ k \in RepliesIn(s, n)
      BY <2>1 DEF Paired, L
    <2>3. n \in 1..L
      BY <1>0
    <2> QED
      BY <1>1, <1>3, <2>2, <2>3
  <1> QED
    BY <1>3, <1>4, <1>5 DEF L

\* The trajectory stays well formed when host, text and item messages are added,
LEMMA PairedGrown ==
  ASSUME NEW s \in Seq(Message), NEW t \in Seq(Message), Grown(s, t), Paired(s)
  PROVE  Paired(t)
  <1>1. Extends(t, s) /\ Len(s) \in Nat /\ Len(t) \in Nat /\ Len(s) <= Len(t)
    BY DEF Grown, Extends
  <1>2. \A i \in 1..Len(t) : i \in 1..Len(s) \/ (t[i].kind # "calls" /\ t[i].kind # "tool")
    BY <1>1 DEF Grown, Inert
  <1>3. Len(s) < Len(t) => t[Len(s) + 1].kind # "tool"
    BY <1>1, <1>2
  <1>4. /\ \A n \in 1..Len(s) : t[n].kind = "calls" =>
              UNION {t[k].of : k \in RepliesIn(t, n)} = t[n].of
        /\ \A k \in 1..Len(s) : IsTool(t[k]) =>
              \E n \in 1 .. k - 1 : t[n].kind = "calls" /\ k \in RepliesIn(t, n)
    BY <1>1, <1>3, RepliesKept
  <1> QED
    BY <1>2, <1>4 DEF Paired, IsTool

\* and when a batch is, with a reply to each of its calls.
LEMMA PairedBatch ==
  ASSUME NEW s \in Seq(Message), NEW t \in Seq(Message), Extends(t, s), Paired(s),
         Len(s) < Len(t),
         t[Len(s) + 1].kind = "calls",
         \A i \in Len(s) + 2 .. Len(t) : IsTool(t[i]),
         UNION {t[k].of : k \in Len(s) + 2 .. Len(t)} = t[Len(s) + 1].of
  PROVE  Paired(t)
  <1> DEFINE c == Len(s) + 1
  <1>1. Len(s) \in Nat /\ Len(t) \in Nat /\ c \in 1..Len(t)
    OBVIOUS
  <1>2. RepliesIn(t, c) = c + 1 .. Len(t)
    BY <1>1 DEF RepliesIn
  <1>3. \A i \in 1..Len(t) : i \in 1..Len(s) \/ i = c \/ i \in c + 1 .. Len(t)
    BY <1>1
  <1>4. \A i \in c + 1 .. Len(t) : t[i].kind = "tool" /\ c \in 1 .. i - 1
    BY <1>1 DEF IsTool
  <1>5. UNION {t[k].of : k \in RepliesIn(t, c)} = t[c].of /\ t[c].kind = "calls"
    BY <1>1, <1>2
  <1> HIDE DEF c
  <1>6. \A n \in 1..Len(t) : t[n].kind = "calls" => UNION {t[k].of : k \in RepliesIn(t, n)} = t[n].of
    BY <1>3, <1>4, <1>5, RepliesKept
  <1>7. \A k \in 1..Len(t) : IsTool(t[k]) =>
          \E n \in 1 .. k - 1 : t[n].kind = "calls" /\ k \in RepliesIn(t, n)
    <2> TAKE k \in 1..Len(t)
    <2>1. CASE k \in 1..Len(s)
      BY <2>1, RepliesKept
    <2>2. CASE k = c
      BY <1>5, <2>2 DEF IsTool
    <2>3. CASE k \in c + 1 .. Len(t)
      BY <1>2, <1>4, <1>5, <2>3
    <2> QED
      BY <1>3, <2>1, <2>2, <2>3
  <1> QED
    BY <1>6, <1>7 DEF Paired

\* So it does when its front is cut off, or replaced, up to a message that is
\* no reply: d messages fewer, the first p of them new.
LEMMA PairedCut ==
  ASSUME NEW s \in Seq(Message), NEW t \in Seq(Message), Paired(s),
         NEW p \in Nat, NEW d \in Int, p + d >= 0, p <= Len(t),
         Len(t) = Len(s) - d,
         \A i \in 1..p : t[i].kind # "calls" /\ ~IsTool(t[i]),
         \A i \in p + 1 .. Len(t) : t[i].kind = s[i + d].kind /\ t[i].of = s[i + d].of,
         p < Len(t) => ~IsTool(t[p + 1])
  PROVE  Paired(t)
  <1>0. Len(s) \in Nat /\ Len(t) \in Nat
    OBVIOUS
  <1>1. \A i \in p + 1 .. Len(t) : i + d \in 1..Len(s) /\ (IsTool(t[i]) <=> IsTool(s[i + d]))
    BY <1>0 DEF IsTool
  <1>2. \A n \in p + 1 .. Len(t) : \A k \in 1..Len(t) :
          k \in RepliesIn(t, n) <=> k + d \in RepliesIn(s, n + d)
    <2> SUFFICES ASSUME NEW n \in p + 1 .. Len(t), NEW k \in 1..Len(t)
                 PROVE  k \in RepliesIn(t, n) <=> k + d \in RepliesIn(s, n + d)
      OBVIOUS
    <2>1. CASE k <= n
      BY <1>0, <2>1 DEF RepliesIn
    <2>2. CASE k > n
      <3>1. k \in n + 1 .. Len(t) /\ k + d \in n + d + 1 .. Len(s)
        BY <1>0, <2>2
      <3>2. ASSUME \A j \in n + 1 .. k : IsTool(t[j])
            PROVE  \A j \in n + d + 1 .. k + d : IsTool(s[j])
        <4> TAKE j \in n + d + 1 .. k + d
        <4>1. j - d \in n + 1 .. k /\ j - d \in p + 1 .. Len(t) /\ (j - d) + d = j
          BY <1>0, <3>1
        <4> QED
          BY <1>1, <3>2, <4>1
      <3>3. ASSUME \A j \in n + d + 1 .. k + d : IsTool(s[j])
            PROVE  \A j \in n + 1 .. k : IsTool(t[j])
        <4> TAKE j \in n + 1 .. k
        <4>1. j + d \in n + d + 1 .. k + d /\ j \in p + 1 .. Len(t)
          BY <1>0, <3>1
        <4> QED
          BY <1>1, <3>3, <4>1
      <3> QED
        BY <3>1, <3>2, <3>3 DEF RepliesIn
    <2> QED
      BY <1>0, <2>1, <2>2
  <1>3. ASSUME NEW n \in 1..Len(t), t[n].kind = "calls"
        PROVE  UNION {t[k].of : k \in RepliesIn(t, n)} = t[n].of
    <2>1. n \in p + 1 .. Len(t)
      BY <1>0, <1>3
    <2>2. \A k \in RepliesIn(t, n) : k \in p + 1 .. Len(t) /\ k \in 1..Len(t)
      BY <1>0, <2>1 DEF RepliesIn
    <2>3. ASSUME NEW k \in RepliesIn(t, n)
          PROVE  t[k].of \in {s[j].of : j \in RepliesIn(s, n + d)}
      <3>1. k + d \in RepliesIn(s, n + d)
        BY <1>2, <2>1, <2>2
      <3>2. t[k].of = s[k + d].of
        BY <2>2
      <3> QED
        BY <3>1, <3>2
    <2>4. ASSUME NEW j \in RepliesIn(s, n + d)
          PROVE  s[j].of \in {t[k].of : k \in RepliesIn(t, n)}
      <3>1. j \in n + d + 1 .. Len(s)
        BY DEF RepliesIn
      <3>2. j - d \in p + 1 .. Len(t) /\ (j - d) + d = j
        BY <1>0, <2>1, <3>1
      <3>3. PICK i \in p + 1 .. Len(t) : i + d = j
        BY <3>2
      <3>4. i \in RepliesIn(t, n)
        BY <1>0, <1>2, <2>1, <3>3
      <3>5. t[i].of = s[j].of
        BY <3>3
      <3> QED
        BY <3>4, <3>5
    <2>5. {t[k].of : k \in RepliesIn(t, n)} = {s[j].of : j \in RepliesIn(s, n + d)}
      BY <2>3, <2>4
    <2>6. n + d \in 1..Len(s) /\ s[n + d].kind = "calls" /\ s[n + d].of = t[n].of
      BY <1>1, <1>3, <2>1
    <2> QED
      BY <2>5, <2>6 DEF Paired
  <1>4. ASSUME NEW k \in 1..Len(t), IsTool(t[k])
        PROVE  \E n \in 1 .. k - 1 : t[n].kind = "calls" /\ k \in RepliesIn(t, n)
    <2>1. k \in p + 1 .. Len(t)
      BY <1>0, <1>4 DEF IsTool
    <2>2. k + d \in 1..Len(s) /\ IsTool(s[k + d])
      <3>1. k + d \in 1..Len(s)
        BY <1>1, <2>1
      <3>2. t[k].kind = s[k + d].kind
        BY <2>1
      <3> QED
        BY <1>4, <3>1, <3>2 DEF IsTool
    <2>3. PICK m \in 1 .. k + d - 1 : s[m].kind = "calls" /\ k + d \in RepliesIn(s, m)
      <3>1. \A i \in 1..Len(s) : IsTool(s[i]) =>
              \E n \in 1 .. i - 1 : s[n].kind = "calls" /\ i \in RepliesIn(s, n)
        BY DEF Paired
      <3> QED
        BY <2>2, <3>1
    <2>4. ~IsTool(s[p + 1 + d])
      <3>1. p < Len(t) /\ p + 1 \in p + 1 .. Len(t)
        BY <1>0, <2>1
      <3>2. t[p + 1].kind = s[p + 1 + d].kind
        BY <3>1
      <3> QED
        BY <3>1, <3>2 DEF IsTool
    <2>5. m >= p + 1 + d
      <3> SUFFICES ASSUME m < p + 1 + d PROVE FALSE
        BY <1>0
      <3>1. p + 1 + d \in m + 1 .. k + d
        BY <1>0, <2>1
      <3> QED
        BY <2>3, <2>4, <3>1 DEF RepliesIn
    <2>6. /\ m - d \in p + 1 .. Len(t) /\ m - d \in 1 .. k - 1 /\ (m - d) + d = m
      BY <1>0, <2>1, <2>5
    <2>7. t[m - d].kind = "calls" /\ k \in RepliesIn(t, m - d)
      BY <1>2, <2>3, <2>6
    <2> QED
      BY <2>6, <2>7
  <1> QED
    BY <1>3, <1>4 DEF Paired

-----------------------------------------------------------------------------
(* Compaction *)

\* The note at the head of the trajectory, and where everything else is then.
LEMMA NoteAtHead ==
  ASSUME messages \in Seq(Message), NEW u \in Seq(Message),
         HasCrumb => Len(u) > 0 /\ u[1].kind = "crumb",
         \A n \in 1..Len(u) : u[n].kind = "crumb" => HasCrumb /\ n = 1
  PROVE  /\ WithCrumb(u) \in Seq(Message)
         /\ Len(WithCrumb(u)) = Len(u) + (1 - Floor)
         /\ \A n \in 1..Len(u) : WithCrumb(u)[n + (1 - Floor)] = u[n]
         /\ Len(WithCrumb(u)) > 0 /\ WithCrumb(u)[1].kind = "crumb"
         /\ CrumbFirst(WithCrumb(u))
  <1>1. CASE HasCrumb
    <2>1. WithCrumb(u) = u /\ Floor = 1
      BY <1>1 DEF WithCrumb, Floor
    <2> QED
      BY <1>1, <2>1 DEF CrumbFirst
  <1>2. CASE ~HasCrumb
    <2> DEFINE w == <<Crumb>> \o u
    <2>1. WithCrumb(u) = w /\ Floor = 0
      BY <1>2 DEF WithCrumb, Floor
    <2>2. Crumb \in Message /\ Crumb.kind = "crumb"
      BY DEF Crumb, Message, Kinds
    <2>3. w \in Seq(Message) /\ Len(w) = Len(u) + 1 /\ w[1] = Crumb
      BY <2>2
    <2>4. \A n \in 1..Len(u) : w[n + 1] = u[n]
      BY <2>2
    <2>5. \A n \in 1..Len(w) : n = 1 \/ w[n].kind # "crumb"
      <3> TAKE n \in 1..Len(w)
      <3>1. CASE n # 1
        <4>1. n - 1 \in 1..Len(u) /\ (n - 1) + 1 = n
          BY <2>3, <3>1
        <4> QED
          BY <1>2, <2>4, <4>1
      <3> QED
        BY <3>1
    <2> HIDE DEF w
    <2> QED
      BY <2>1, <2>2, <2>3, <2>4, <2>5 DEF CrumbFirst
  <1> QED
    BY <1>1, <1>2

\* The oldest exchange is a message with the tool replies behind it, all of them.
LEMMA OldestIsWhole ==
  ASSUME messages \in Seq(Message), Len(messages) > Floor
  PROVE  /\ OldestEnd \in Floor + 1 .. Len(messages)
         /\ OldestEnd = Len(messages) \/ ~IsTool(messages[OldestEnd + 1])
  <1> DEFINE L == Len(messages)
             Ends == {n \in Floor + 1 .. L : n = L \/ ~IsTool(messages[n + 1])}
  <1>1. L \in Nat /\ Floor \in Nat
    BY DEF Floor
  <1>2. L \in Ends
    BY <1>1
  <1>3. Ends \subseteq Nat
    BY <1>1
  <1> HIDE DEF Ends
  <1>4. PICK e \in Ends : \A k \in Ends : <<k, e>> \notin OpToRel(<, Nat)
    BY <1>2, <1>3, WFMin, NatLessThanWellFounded
  <1>5. \A k \in Ends : ~(k < e)
    BY <1>3, <1>4, Zenon DEF OpToRel
  <1>6. e \in Floor + 1 .. L /\ (e = L \/ ~IsTool(messages[e + 1]))
    BY <1>4 DEF Ends
  <1>7. \A k \in Floor + 2 .. e : IsTool(messages[k])
    <2> TAKE k \in Floor + 2 .. e
    <2>1. k - 1 \in Floor + 1 .. L /\ k - 1 < e /\ k - 1 # L /\ (k - 1) + 1 = k
      BY <1>1, <1>6
    <2>2. k - 1 \notin Ends
      BY <1>5, <2>1
    <2> QED
      BY <2>1, <2>2 DEF Ends
  <1> QED
    BY <1>6, <1>7 DEF OldestEnd

\* Clearing keeps every message in its place, and each child's report in full.
LEMMA ClearedShape ==
  ASSUME messages \in Seq(Message)
  PROVE  /\ Cleared \in Seq(Message) /\ Len(Cleared) = Len(messages)
         /\ \A n \in 1..Len(messages) :
              /\ Cleared[n].kind = messages[n].kind /\ Cleared[n].of = messages[n].of
              /\ messages[n].of \cap reports # {} => Cleared[n] = messages[n]
  <1> DEFINE L == Len(messages)
             at(n) == IF n \in Clearable THEN [messages[n] EXCEPT !.body = FALSE] ELSE messages[n]
  <1>1. L \in Nat
    OBVIOUS
  <1>2. Cleared = [n \in 1..L |-> at(n)]
    BY DEF Cleared
  <1>3. ASSUME NEW n \in 1..L
        PROVE  /\ at(n) \in Message
               /\ at(n).kind = messages[n].kind /\ at(n).of = messages[n].of
               /\ messages[n].of \cap reports # {} => at(n) = messages[n]
    <2>1. messages[n] \in Message
      OBVIOUS
    <2>2. messages[n].of \cap reports # {} => n \notin Clearable
      BY DEF Clearable
    <2> QED
      BY <2>1, <2>2 DEF Message
  <1> HIDE DEF at
  <1>4. Cleared \in [1..L -> Message]
    BY <1>2, <1>3
  <1>5. Cleared \in Seq(Message) /\ Len(Cleared) = L
    BY <1>1, <1>4
  <1> QED
    BY <1>2, <1>3, <1>5

\* Dropping takes the oldest exchange out and leaves the rest as it is.
LEMMA DroppedShape ==
  ASSUME messages \in Seq(Message), Len(messages) > Floor
  PROVE  /\ Dropped \in Seq(Message)
         /\ Len(Dropped) = Len(messages) - (OldestEnd - Floor)
         /\ HasCrumb => Len(Dropped) > 0 /\ Dropped[1] = messages[1]
         /\ \A n \in Floor + 1 .. Len(Dropped) : Dropped[n] = messages[n + (OldestEnd - Floor)]
  <1> DEFINE L == Len(messages)
             f == Floor
             e == OldestEnd
             a == SubSeq(messages, 1, f)
             b == SubSeq(messages, e + 1, L)
  <1>1. L \in Nat /\ f \in {0, 1} /\ e \in f + 1 .. L /\ (HasCrumb => f = 1)
    BY OldestIsWhole DEF Floor
  <1>2. Dropped = a \o b
    BY DEF Dropped
  <1> HIDE DEF f, e
  <1>3. a \in Seq(Message) /\ Len(a) = f /\ (f = 1 => a[1] = messages[1])
    <2>1. \A i \in 1..f : messages[i] \in Message
      BY <1>1
    <2>2. \A i \in 1..f : a[i] = messages[i]
      BY <1>1, <2>1, SubSeqProperties
    <2> QED
      BY <1>1, <2>1, <2>2, SubSeqProperties
  <1>4. b \in Seq(Message) /\ Len(b) = L - e
    BY <1>1
  <1>5. \A n \in 1 .. L - e : b[n] = messages[n + e]
    BY <1>1
  <1> HIDE DEF a, b
  <1>6. Dropped \in Seq(Message) /\ Len(Dropped) = f + (L - e)
    <2>1. a \o b \in Seq(Message) /\ Len(a \o b) = Len(a) + Len(b)
      BY <1>3, <1>4, ConcatProperties
    <2> QED
      BY <1>2, <1>3, <1>4, <2>1
  <1>7. f = 1 => Dropped[1] = messages[1]
    <2> SUFFICES ASSUME f = 1 PROVE Dropped[1] = messages[1]
      OBVIOUS
    <2>1. 1 \in 1 .. Len(a) + Len(b) /\ 1 <= Len(a)
      BY <1>1, <1>3, <1>4
    <2> QED
      BY <1>2, <1>3, <1>4, <2>1, ConcatProperties
  <1>8. ASSUME NEW n \in f + 1 .. f + (L - e)
        PROVE  Dropped[n] = messages[n + (e - f)]
    <2>1. n - f \in 1 .. L - e /\ (n - f) + e = n + (e - f)
      BY <1>1
    <2>2. n \in 1 .. Len(a) + Len(b) /\ ~(n <= Len(a))
      BY <1>1, <1>3, <1>4
    <2>3. Dropped[n] = b[n - f]
      BY <1>2, <1>3, <1>4, <2>2, ConcatProperties
    <2> QED
      BY <1>5, <2>1, <2>3
  <1> QED
    BY <1>1, <1>6, <1>7, <1>8 DEF f, e

\* So the one loses nothing a request or the turn's honesty needs,
LEMMA ClearedKeeps ==
  ASSUME messages \in Seq(Message), CrumbFirst(messages), Paired(messages),
         NEW w, w = WithCrumb(Cleared)
  PROVE  /\ w \in Seq(Message) /\ Len(w) > 0 /\ w[1].kind = "crumb" /\ CrumbFirst(w)
         /\ Paired(w)
         /\ \A r \in reports : InFull(messages, r) => InFull(w, r)
  <1> DEFINE L == Len(messages)
             e == 1 - Floor
             u == Cleared
  <1>1. L \in Nat /\ e \in {0, 1} /\ (HasCrumb <=> e = 0)
    BY DEF Floor
  <1>2. HasCrumb => L > 0 /\ messages[1].kind = "crumb"
    BY DEF HasCrumb
  <1>3. u \in Seq(Message) /\ Len(u) = L
    BY ClearedShape
  <1>4. \A n \in 1..L : u[n].kind = messages[n].kind /\ u[n].of = messages[n].of
    BY ClearedShape
  <1>5. \A n \in 1..L : messages[n].of \cap reports # {} => u[n] = messages[n]
    BY ClearedShape
  <1>6. \A n \in 1..L : messages[n].kind = "crumb" => HasCrumb /\ n = 1
    <2>1. \A n \in 1..L : messages[n].kind = "crumb" => n = 1
      BY DEF CrumbFirst
    <2>2. L > 0 /\ messages[1].kind = "crumb" => HasCrumb
      BY DEF HasCrumb
    <2> QED
      BY <1>1, <2>1, <2>2
  <1> HIDE DEF e, u
  <1>7. /\ w \in Seq(Message) /\ Len(w) = L + e
        /\ \A n \in 1..L : w[n + e] = u[n]
        /\ Len(w) > 0 /\ w[1].kind = "crumb" /\ CrumbFirst(w)
    <2>1. HasCrumb => Len(u) > 0 /\ u[1].kind = "crumb"
      BY <1>2, <1>3, <1>4
    <2>2. \A n \in 1..Len(u) : u[n].kind = "crumb" => HasCrumb /\ n = 1
      BY <1>3, <1>4, <1>6
    <2> QED
      BY <1>3, <2>1, <2>2, NoteAtHead DEF u, e
  <1>8. Paired(w)
    <2>1. Len(w) = L - (0 - e) /\ e + (0 - e) >= 0 /\ e <= Len(w) /\ e \in Nat /\ 0 - e \in Int
      BY <1>1, <1>7
    <2>2. \A i \in 1..e : w[i].kind # "calls" /\ ~IsTool(w[i])
      BY <1>1, <1>7 DEF IsTool
    <2>3. \A i \in e + 1 .. Len(w) : /\ i + (0 - e) \in 1..L
                                     /\ w[i] = u[i + (0 - e)]
      BY <1>1, <1>7
    <2>4. \A i \in e + 1 .. Len(w) : /\ w[i].kind = messages[i + (0 - e)].kind
                                     /\ w[i].of = messages[i + (0 - e)].of
      BY <1>4, <2>3
    <2>5. e < Len(w) => ~IsTool(w[e + 1])
      <3>1. L > 0 => ~IsTool(messages[1])
        BY <1>1 DEF Paired
      <3>2. e < Len(w) => w[e + 1] = u[1] /\ L > 0
        BY <1>1, <1>7
      <3> QED
        BY <1>1, <1>4, <3>1, <3>2 DEF IsTool
    <2> QED
      BY <1>7, <2>1, <2>2, <2>4, <2>5, PairedCut
  <1>9. ASSUME NEW r \in reports, InFull(messages, r) PROVE InFull(w, r)
    <2>1. PICK n \in 1..L : IsTool(messages[n]) /\ messages[n].of = {r} /\ messages[n].body
      BY <1>9 DEF InFull
    <2>2. w[n + e] = messages[n] /\ n + e \in 1..Len(w)
      BY <1>1, <1>5, <1>7, <2>1
    <2> QED
      BY <2>1, <2>2 DEF InFull
  <1> QED
    BY <1>7, <1>8, <1>9

\* and neither does the other, as long as no report is in the oldest exchange.
LEMMA DroppedKeeps ==
  ASSUME messages \in Seq(Message), CrumbFirst(messages), Paired(messages),
         Len(messages) > Floor, \A n \in Oldest : messages[n].of \cap reports = {},
         NEW w, w = WithCrumb(Dropped)
  PROVE  /\ w \in Seq(Message) /\ Len(w) > 0 /\ w[1].kind = "crumb" /\ CrumbFirst(w)
         /\ Paired(w)
         /\ \A r \in reports : InFull(messages, r) => InFull(w, r)
  <1> DEFINE L == Len(messages)
             f == Floor
             g == OldestEnd
             u == Dropped
  <1>1. L \in Nat /\ f \in {0, 1} /\ (HasCrumb <=> f = 1) /\ g \in f + 1 .. L
    BY OldestIsWhole DEF Floor
  <1>2. g = L \/ ~IsTool(messages[g + 1])
    BY OldestIsWhole
  <1>3. HasCrumb => L > 0 /\ messages[1].kind = "crumb"
    BY DEF HasCrumb
  <1>4. /\ u \in Seq(Message) /\ Len(u) = L - (g - f)
        /\ HasCrumb => Len(u) > 0 /\ u[1] = messages[1]
        /\ \A n \in f + 1 .. Len(u) : u[n] = messages[n + (g - f)]
    BY DroppedShape
  <1>5. \A n \in 2..L : messages[n].kind # "crumb"
    BY DEF CrumbFirst
  <1>6. \A n \in Oldest : messages[n].of \cap reports = {}
    OBVIOUS
  <1>7. Oldest = f + 1 .. g
    BY DEF Oldest
  <1> HIDE DEF f, g, u
  <1>8. /\ w \in Seq(Message) /\ Len(w) = Len(u) + (1 - f)
        /\ \A n \in 1..Len(u) : w[n + (1 - f)] = u[n]
        /\ Len(w) > 0 /\ w[1].kind = "crumb" /\ CrumbFirst(w)
    <2>1. \A n \in 1..Len(u) : u[n].kind = "crumb" => HasCrumb /\ n = 1
      <3> SUFFICES ASSUME NEW n \in 1..Len(u), u[n].kind = "crumb" PROVE HasCrumb /\ n = 1
        OBVIOUS
      <3>1. ~(n \in f + 1 .. Len(u))
        <4> SUFFICES ASSUME n \in f + 1 .. Len(u) PROVE FALSE
          OBVIOUS
        <4>1. n + (g - f) \in 2..L
          BY <1>1, <1>4
        <4> QED
          BY <1>4, <1>5, <4>1
      <3> QED
        BY <1>1, <1>4, <3>1
    <2> QED
      BY <1>3, <1>4, <2>1, NoteAtHead DEF u, f
  <1>9. Len(w) = L - (g - 1)
    BY <1>1, <1>4, <1>8
  <1>10. \A i \in 2..Len(w) : i + (g - 1) \in g + 1 .. L /\ w[i] = messages[i + (g - 1)]
    <2> TAKE i \in 2..Len(w)
    <2>1. i - (1 - f) \in f + 1 .. Len(u) /\ i - (1 - f) \in 1..Len(u) /\ (i - (1 - f)) + (1 - f) = i
      BY <1>1, <1>4, <1>8
    <2>2. (i - (1 - f)) + (g - f) = i + (g - 1) /\ i + (g - 1) \in g + 1 .. L
      BY <1>1, <1>9
    <2>3. PICK j \in f + 1 .. Len(u) : j = i - (1 - f)
      BY <2>1
    <2>4. w[i] = u[j] /\ u[j] = messages[i + (g - 1)]
      BY <1>4, <1>8, <2>1, <2>2, <2>3
    <2> QED
      BY <2>2, <2>4
  <1>11. Paired(w)
    <2>1. 1 + (g - 1) >= 0 /\ 1 <= Len(w) /\ g - 1 \in Int
      BY <1>1, <1>8
    <2>2. \A i \in 1..1 : w[i].kind # "calls" /\ ~IsTool(w[i])
      BY <1>8 DEF IsTool
    <2>3. \A i \in 1 + 1 .. Len(w) : /\ w[i].kind = messages[i + (g - 1)].kind
                                     /\ w[i].of = messages[i + (g - 1)].of
      BY <1>10
    <2>4. 1 < Len(w) => ~IsTool(w[1 + 1])
      <3>1. 1 < Len(w) => 2 \in 2..Len(w)
        BY <1>1, <1>9
      <3>2. 1 < Len(w) => w[2] = messages[2 + (g - 1)]
        BY <1>10, <3>1
      <3>3. 2 + (g - 1) = g + 1 /\ 1 + 1 = 2 /\ (1 < Len(w) => g # L)
        BY <1>1, <1>9
      <3> QED
        BY <1>2, <3>2, <3>3
    <2> QED
      BY <1>8, <1>9, <2>1, <2>2, <2>3, <2>4, PairedCut
  <1>12. ASSUME NEW r \in reports, InFull(messages, r) PROVE InFull(w, r)
    <2>1. PICK n \in 1..L : IsTool(messages[n]) /\ messages[n].of = {r} /\ messages[n].body
      BY <1>12 DEF InFull
    <2>2. n \notin f + 1 .. g
      BY <1>6, <1>7, <2>1
    <2>3. n > g
      BY <1>1, <1>3, <2>1, <2>2 DEF IsTool
    <2>4. n - (g - 1) \in 2..Len(w) /\ (n - (g - 1)) + (g - 1) = n
      BY <1>1, <1>9, <2>3
    <2>5. PICK i \in 2..Len(w) : i = n - (g - 1)
      BY <2>4
    <2>6. w[i] = messages[n] /\ i \in 1..Len(w)
      BY <1>8, <1>10, <2>4, <2>5
    <2> QED
      BY <2>1, <2>6 DEF InFull
  <1> QED
    BY <1>8, <1>11, <1>12

-----------------------------------------------------------------------------
(* What each step does to the trajectory *)

LEMMA Added ==
  ASSUME NEW s \in Seq(Message), NEW u \in Seq(Message)
  PROVE  /\ s \o u \in Seq(Message) /\ Len(s \o u) = Len(s) + Len(u) /\ Extends(s \o u, s)
         /\ \A i \in 1..Len(u) : (s \o u)[Len(s) + i] = u[i]
         /\ \A i \in Len(s) + 1 .. Len(s) + Len(u) :
              i - Len(s) \in 1..Len(u) /\ (s \o u)[i] = u[i - Len(s)]
  <1> DEFINE t == s \o u
  <1>1. Len(s) \in Nat /\ Len(u) \in Nat
    OBVIOUS
  <1>2. t \in Seq(Message) /\ Len(t) = Len(s) + Len(u)
    BY ConcatProperties
  <1>3. \A i \in 1 .. Len(s) + Len(u) : t[i] = IF i <= Len(s) THEN s[i] ELSE u[i - Len(s)]
    BY ConcatProperties
  <1>4. Extends(t, s)
    BY <1>1, <1>2, <1>3 DEF Extends
  <1>5. \A i \in Len(s) + 1 .. Len(s) + Len(u) : i - Len(s) \in 1..Len(u) /\ t[i] = u[i - Len(s)]
    BY <1>1, <1>2, <1>3
  <1>6. \A i \in 1..Len(u) : t[Len(s) + i] = u[i]
    <2> TAKE i \in 1..Len(u)
    <2>1. Len(s) + i \in 1 .. Len(s) + Len(u) /\ ~(Len(s) + i <= Len(s)) /\ (Len(s) + i) - Len(s) = i
      BY <1>1
    <2> QED
      BY <1>3, <2>1
  <1> QED
    BY <1>2, <1>4, <1>5, <1>6

LEMMA Appended ==
  ASSUME NEW s \in Seq(Message), NEW m \in Message
  PROVE  /\ Append(s, m) \in Seq(Message) /\ Extends(Append(s, m), s)
         /\ \A i \in Len(s) + 1 .. Len(Append(s, m)) : Append(s, m)[i] = m
  <1>1. Append(s, m) \in Seq(Message) /\ Len(Append(s, m)) = Len(s) + 1 /\ Len(s) \in Nat
    OBVIOUS
  <1>2. \A i \in 1..Len(s) : Append(s, m)[i] = s[i]
    OBVIOUS
  <1>3. Append(s, m)[Len(s) + 1] = m
    OBVIOUS
  <1> QED
    BY <1>1, <1>2, <1>3 DEF Extends

\* What the trajectory has in full.
LEMMA CarriedBy ==
  ASSUME NEW s \in Seq(Message), NEW x
  PROVE  x \in UNION {m.of : m \in {k \in Range(s) : k.kind \in {"item", "tool"} /\ k.body}}
           <=> \E n \in 1..Len(s) : s[n].kind \in {"item", "tool"} /\ s[n].body /\ x \in s[n].of
  <1>1. Range(s) = {s[n] : n \in 1..Len(s)}
    BY DEF Range
  <1> QED
    BY <1>1

LEMMA MessageTypes ==
  /\ Crumb \in Message /\ Host \in Message /\ Prose \in Message
  /\ \A i \in Steer \cup FollowUp : Item(i) \in Message
  /\ \A ids \in SUBSET (Nat \X Nat) : Asks(ids) \in Message
  /\ \A id \in Nat \X Nat : Tool(id) \in Message
  BY DEF Crumb, Host, Prose, Item, Asks, Tool, Message, Kinds, Things

\* A trajectory that only grew keeps what it promised, if the new part does.
LEMMA Extended ==
  ASSUME Typed, Trajectory, messages' \in Seq(Message), Extends(messages', messages),
         \A i \in Len(messages) + 1 .. Len(messages') : messages'[i].kind # "crumb",
         pc' \notin Over => Paired(messages'),
         \A r \in reports' : r \in reports \/ InFull(messages', r),
         \A x \in receipts' : x \in receipts \/ \E n \in 1..Len(messages') : messages'[n] = Item(x),
         shed' = shed
  PROVE  Trajectory'
  <1>1. /\ messages \in Seq(Message) /\ Len(messages) \in Nat /\ Len(messages') \in Nat
        /\ Len(messages) <= Len(messages')
        /\ \A i \in 1..Len(messages) : messages'[i] = messages[i]
    BY DEF Typed, Extends
  <1>2. shed' => HasCrumb'
    BY <1>1 DEF Trajectory, HasCrumb
  <1>3. CrumbFirst(messages')
    BY <1>1 DEF Trajectory, CrumbFirst
  <1>4. \A r : InFull(messages, r) => InFull(messages', r)
    BY <1>1 DEF InFull
  <1>5. \A r \in reports' : InFull(messages', r)
    BY <1>4 DEF Trajectory
  <1>6. ASSUME NEW x \in receipts', ~shed' PROVE x \in Carried'
    <2>1. CASE x \in receipts
      <3>1. x \in Carried
        BY <1>6, <2>1 DEF Trajectory
      <3>2. PICK n \in 1..Len(messages) :
              messages[n].kind \in {"item", "tool"} /\ messages[n].body /\ x \in messages[n].of
        BY <1>1, <3>1, CarriedBy DEF Carried
      <3>3. n \in 1..Len(messages') /\ messages'[n] = messages[n]
        BY <1>1
      <3> QED
        BY <3>2, <3>3, CarriedBy DEF Carried
    <2>2. CASE x \notin receipts
      <3>1. PICK n \in 1..Len(messages') : messages'[n] = Item(x)
        BY <2>2
      <3>2. messages'[n].kind \in {"item", "tool"} /\ messages'[n].body /\ x \in messages'[n].of
        BY <3>1 DEF Item
      <3> QED
        BY <3>2, CarriedBy DEF Carried
    <2> QED
      BY <2>1, <2>2
  <1> QED
    BY <1>2, <1>3, <1>5, <1>6 DEF Trajectory

\* Nothing added, or host, text and item messages.
LEMMA ExtendedInert ==
  ASSUME Typed, Trajectory, messages' \in Seq(Message), Grown(messages, messages'),
         pc' \notin Over => pc \notin Over,
         reports' = reports, shed' = shed,
         \A x \in receipts' : x \in receipts \/ \E n \in 1..Len(messages') : messages'[n] = Item(x)
  PROVE  Trajectory'
  <1>1. messages \in Seq(Message)
    BY DEF Typed
  <1>2. pc' \notin Over => Paired(messages')
    BY <1>1, PairedGrown DEF Trajectory
  <1> QED
    BY <1>2, Extended DEF Grown, Inert

LEMMA ExtendedNot ==
  ASSUME Typed, Trajectory, messages' = messages, receipts' = receipts,
         pc' \notin Over => pc \notin Over,
         reports' = reports, shed' = shed
  PROVE  Trajectory'
  <1>1. messages \in Seq(Message)
    BY DEF Typed
  <1>2. Grown(messages, messages')
    BY <1>1 DEF Grown, Extends
  <1> QED
    BY <1>1, <1>2, ExtendedInert

\* A drain adds its items, each of them.
LEMMA TakeGrows ==
  ASSUME Typed, NEW q, q \subseteq Steer \cup FollowUp, Take(q)
  PROVE  /\ messages' \in Seq(Message) /\ Grown(messages, messages')
         /\ \A x \in receipts' : x \in receipts \/ \E n \in 1..Len(messages') : messages'[n] = Item(x)
  <1> DEFINE w == waiting \cap q
             c == Cardinality(w)
             s == SetToSeq(w)
             u == Items(w)
  <1>1. messages \in Seq(Message) /\ IsFiniteSet(w)
    BY FS_Subset DEF Typed
  <1>2. c \in Nat /\ s \in [1..c -> w] /\ \A i \in w : \E n \in 1..c : s[n] = i
    BY <1>1, QueueInOrder
  <1>3. Len(s) = c
    BY <1>2
  <1>4. u = [n \in 1..c |-> Item(s[n])]
    BY <1>3 DEF Items
  <1>5. \A n \in 1..c : s[n] \in Steer \cup FollowUp
    BY <1>2
  <1> HIDE DEF w, c, s, u
  <1>6. u \in [1..c -> Message]
    BY <1>4, <1>5, MessageTypes
  <1>7. u \in Seq(Message) /\ Len(u) = c
    BY <1>2, <1>6
  <1>8. messages' = messages \o u /\ receipts' = receipts \cup w
    BY DEF Take, u, w
  <1>9. /\ messages' \in Seq(Message) /\ Len(messages') = Len(messages) + c /\ Extends(messages', messages)
        /\ \A i \in 1..c : messages'[Len(messages) + i] = u[i]
        /\ \A i \in Len(messages) + 1 .. Len(messages') :
             i - Len(messages) \in 1..c /\ messages'[i] = u[i - Len(messages)]
    <2>1. /\ messages \o u \in Seq(Message) /\ Len(messages \o u) = Len(messages) + Len(u)
          /\ Extends(messages \o u, messages)
          /\ \A i \in 1..Len(u) : (messages \o u)[Len(messages) + i] = u[i]
          /\ \A i \in Len(messages) + 1 .. Len(messages) + Len(u) :
               i - Len(messages) \in 1..Len(u) /\ (messages \o u)[i] = u[i - Len(messages)]
      BY <1>1, <1>7, Added
    <2> QED
      BY <1>2, <1>7, <1>8, <2>1
  <1>10. \A i \in 1..c : u[i].kind = "item"
    BY <1>4 DEF Item
  <1>11. Grown(messages, messages')
    BY <1>9, <1>10 DEF Grown, Inert
  <1>12. ASSUME NEW x \in w PROVE \E n \in 1..Len(messages') : messages'[n] = Item(x)
    <2>1. PICK n \in 1..c : s[n] = x
      BY <1>2
    <2>2. Len(messages) + n \in 1..Len(messages') /\ messages'[Len(messages) + n] = Item(x)
      BY <1>1, <1>2, <1>4, <1>9, <2>1
    <2> QED
      BY <2>2
  <1> QED
    BY <1>8, <1>9, <1>11, <1>12

\* A host message, and the text of a response.
LEMMA HostGrows ==
  ASSUME messages \in Seq(Message), messages' = Append(messages, Host)
  PROVE  messages' \in Seq(Message) /\ Grown(messages, messages')
  <1>1. Host \in Message /\ Inert(Host)
    BY MessageTypes DEF Host, Inert
  <1> QED
    BY <1>1, Appended DEF Grown

LEMMA SayGrows ==
  ASSUME messages \in Seq(Message), NEW t \in BOOLEAN, messages' = messages \o Say(t)
  PROVE  messages' \in Seq(Message) /\ Grown(messages, messages')
  <1>1. Prose \in Message /\ Inert(Prose)
    BY MessageTypes DEF Prose, Inert
  <1>2. Say(t) \in Seq(Message) /\ \A i \in 1..Len(Say(t)) : Say(t)[i] = Prose
    BY <1>1 DEF Say
  <1>3. /\ messages \o Say(t) \in Seq(Message) /\ Len(messages \o Say(t)) = Len(messages) + Len(Say(t))
        /\ Extends(messages \o Say(t), messages)
        /\ \A i \in 1..Len(Say(t)) : (messages \o Say(t))[Len(messages) + i] = Say(t)[i]
        /\ \A i \in Len(messages) + 1 .. Len(messages) + Len(Say(t)) :
             i - Len(messages) \in 1..Len(Say(t)) /\ (messages \o Say(t))[i] = Say(t)[i - Len(messages)]
    BY <1>1, <1>2, Added
  <1> QED
    BY <1>1, <1>2, <1>3 DEF Grown

\* A batch adds its calls with a reply each, and each child's report in full.
LEMMA ToolsGrow ==
  ASSUME LoopAssumption, Typed, NEW b \in Batches, Tools(b), Paired(messages)
  PROVE  /\ messages' \in Seq(Message) /\ Extends(messages', messages) /\ Paired(messages')
         /\ \A i \in Len(messages) + 1 .. Len(messages') : messages'[i].kind # "crumb"
         /\ \A r \in reports' : r \in reports \/ InFull(messages', r)
         /\ reports' \subseteq Nat \X Nat
  <1> DEFINE L == Len(messages)
             k == Len(b)
             replies == [n \in 1..k |-> Tool(<<steps, n>>)]
             asks == <<Asks(Ids(b))>>
             m1 == messages \o asks
             m2 == m1 \o replies
  <1>1. messages \in Seq(Message) /\ L \in Nat /\ steps \in Nat /\ k \in Nat /\ b \in Seq(Results) /\ k > 0
    BY DEF Typed, TypeOK, LoopAssumption
  <1>2. \A n \in 1..k : <<steps, n>> \in Nat \X Nat
    BY <1>1
  <1>3. Ids(b) \in SUBSET (Nat \X Nat)
    BY <1>2 DEF Ids
  <1>4. asks \in Seq(Message) /\ Len(asks) = 1 /\ asks[1] = Asks(Ids(b))
    BY <1>3, MessageTypes
  <1>5. replies \in [1..k -> Message] /\ \A n \in 1..k : replies[n] = Tool(<<steps, n>>)
    BY <1>2, MessageTypes
  <1>6. replies \in Seq(Message) /\ Len(replies) = k
    BY <1>1, <1>5
  <1>7. PICK advice \in {<<>>, <<Host>>} : messages' = messages \o asks \o replies \o advice
    BY DEF Tools
  <1>8. advice \in Seq(Message) /\ Len(advice) \in Nat /\ \A i \in 1..Len(advice) : advice[i] = Host
    <2>1. CASE advice = <<>>
      BY <2>1
    <2>2. CASE advice = <<Host>>
      BY <2>2, MessageTypes
    <2> QED
      BY <1>7, <2>1, <2>2
  <1> HIDE DEF asks, replies
  <1>9. /\ m1 \in Seq(Message) /\ Len(m1) = L + 1 /\ Extends(m1, messages)
        /\ m1[L + 1] = Asks(Ids(b))
    <2>1. /\ m1 \in Seq(Message) /\ Len(m1) = L + 1 /\ Extends(m1, messages)
          /\ \A i \in 1..1 : m1[L + i] = asks[i]
      <3> HIDE DEF m1
      <3>1. /\ messages \o asks \in Seq(Message) /\ Len(messages \o asks) = Len(messages) + Len(asks)
            /\ Extends(messages \o asks, messages)
            /\ \A i \in 1..Len(asks) : (messages \o asks)[Len(messages) + i] = asks[i]
            /\ \A i \in Len(messages) + 1 .. Len(messages) + Len(asks) :
                 i - Len(messages) \in 1..Len(asks) /\ (messages \o asks)[i] = asks[i - Len(messages)]
        BY <1>1, <1>4, Added
      <3> QED
        BY <1>1, <1>4, <3>1 DEF m1
    <2> QED
      BY <1>4, <2>1
  <1> HIDE DEF m1
  <1>10. /\ m2 \in Seq(Message) /\ Len(m2) = L + 1 + k /\ Extends(m2, m1)
         /\ \A n \in 1..k : m2[L + 1 + n] = Tool(<<steps, n>>)
         /\ \A i \in L + 2 .. L + 1 + k : i - (L + 1) \in 1..k /\ m2[i] = Tool(<<steps, i - (L + 1)>>)
    <2>1. /\ m2 \in Seq(Message) /\ Len(m2) = L + 1 + k /\ Extends(m2, m1)
          /\ \A n \in 1..k : m2[L + 1 + n] = replies[n]
          /\ \A i \in L + 1 + 1 .. L + 1 + k : i - (L + 1) \in 1..k /\ m2[i] = replies[i - (L + 1)]
      <3>1. /\ m1 \o replies \in Seq(Message) /\ Len(m1 \o replies) = Len(m1) + Len(replies)
            /\ Extends(m1 \o replies, m1)
            /\ \A i \in 1..Len(replies) : (m1 \o replies)[Len(m1) + i] = replies[i]
            /\ \A i \in Len(m1) + 1 .. Len(m1) + Len(replies) :
                 i - Len(m1) \in 1..Len(replies) /\ (m1 \o replies)[i] = replies[i - Len(m1)]
        BY <1>6, <1>9, Added
      <3> QED
        BY <1>1, <1>6, <1>9, <3>1
    <2>2. \A i \in L + 2 .. L + 1 + k : i - (L + 1) \in 1..k /\ m2[i] = replies[i - (L + 1)]
      BY <1>1, <2>1
    <2> QED
      BY <1>5, <2>1, <2>2
  <1>11. messages' = m2 \o advice
    BY <1>7 DEF m1
  <1> HIDE DEF m2
  <1>12. /\ messages' \in Seq(Message) /\ Len(messages') = L + 1 + k + Len(advice) /\ Extends(messages', m2)
         /\ \A i \in L + 1 + k + 1 .. Len(messages') : messages'[i] = Host
    <2>1. m2 \in Seq(Message) /\ advice \in Seq(Message)
      BY <1>8, <1>10
    <2>2. /\ m2 \o advice \in Seq(Message) /\ Len(m2 \o advice) = Len(m2) + Len(advice)
          /\ Extends(m2 \o advice, m2)
          /\ \A i \in 1..Len(advice) : (m2 \o advice)[Len(m2) + i] = advice[i]
          /\ \A i \in Len(m2) + 1 .. Len(m2) + Len(advice) :
               i - Len(m2) \in 1..Len(advice) /\ (m2 \o advice)[i] = advice[i - Len(m2)]
      BY <2>1, Added
    <2>3. Len(m2) = L + 1 + k
      BY <1>10
    <2>4. messages' \in Seq(Message) /\ Len(messages') = L + 1 + k + Len(advice) /\ Extends(messages', m2)
      BY <1>11, <2>2, <2>3
    <2>5. \A i \in Len(m2) + 1 .. Len(messages') :
            i - Len(m2) \in 1..Len(advice) /\ messages'[i] = advice[i - Len(m2)]
      BY <1>11, <2>2, <2>3, <2>4
    <2> QED
      BY <1>8, <2>3, <2>4, <2>5
  <1>13. Extends(m2, messages) /\ Extends(messages', messages)
    <2>1. \A i \in 1..L : i \in 1..Len(m1) /\ i \in 1..Len(m2)
      BY <1>1, <1>9, <1>10
    <2>2. \A i \in 1..L : m1[i] = messages[i]
      BY <1>9 DEF Extends
    <2>3. \A i \in 1..L : m2[i] = messages[i]
      BY <1>10, <2>1, <2>2 DEF Extends
    <2>4. \A i \in 1..L : messages'[i] = messages[i]
      BY <1>12, <2>1, <2>3 DEF Extends
    <2>5. L <= Len(m2) /\ L <= Len(messages')
      <3>1. Len(m2) = L + 1 + k /\ Len(messages') = L + 1 + k + Len(advice) /\ Len(advice) \in Nat
        BY <1>8, <1>10, <1>12
      <3> QED
        BY <1>1, <3>1
    <2> QED
      BY <2>3, <2>4, <2>5 DEF Extends
  <1>14. m2[L + 1] = Asks(Ids(b)) /\ m2[L + 1].kind = "calls" /\ m2[L + 1].of = Ids(b)
    BY <1>1, <1>9, <1>10 DEF Extends, Asks
  <1>15. \A i \in L + 2 .. L + 1 + k : m2[i].kind = "tool" /\ m2[i].of = {<<steps, i - (L + 1)>>} /\ m2[i].body
    <2> TAKE i \in L + 2 .. L + 1 + k
    <2>1. m2[i] = Tool(<<steps, i - (L + 1)>>)
      BY <1>10
    <2> QED
      BY <2>1 DEF Tool
  <1>16. UNION {m2[i].of : i \in L + 2 .. L + 1 + k} = Ids(b)
    <2>1. ASSUME NEW x \in Ids(b) PROVE x \in UNION {m2[i].of : i \in L + 2 .. L + 1 + k}
      <3>1. PICK n \in 1..k : x = <<steps, n>>
        BY DEF Ids
      <3>2. L + 1 + n \in L + 2 .. L + 1 + k /\ m2[L + 1 + n].of = {x}
        <4>1. m2[L + 1 + n] = Tool(x)
          BY <1>10, <3>1
        <4> QED
          BY <1>1, <4>1 DEF Tool
      <3> QED
        BY <3>2
    <2>2. ASSUME NEW i \in L + 2 .. L + 1 + k PROVE m2[i].of \subseteq Ids(b)
      BY <1>10, <1>15 DEF Ids
    <2> QED
      BY <2>1, <2>2
  <1>17. Paired(m2)
    <2>1. \A i \in L + 2 .. Len(m2) : IsTool(m2[i])
      BY <1>10, <1>15 DEF IsTool
    <2>2. L < Len(m2) /\ UNION {m2[i].of : i \in L + 2 .. Len(m2)} = m2[L + 1].of
      BY <1>1, <1>10, <1>14, <1>16
    <2> QED
      BY <1>1, <1>10, <1>13, <1>14, <2>1, <2>2, PairedBatch
  <1>18. Paired(messages')
    <2>1. Grown(m2, messages')
      BY <1>10, <1>12 DEF Grown, Inert, Host
    <2> QED
      BY <1>10, <1>12, <1>17, <2>1, PairedGrown
  <1>19. \A i \in L + 1 .. Len(messages') : messages'[i].kind # "crumb"
    <2> TAKE i \in L + 1 .. Len(messages')
    <2>1. CASE i <= L + 1 + k
      <3>1. messages'[i] = m2[i] /\ (i = L + 1 \/ i \in L + 2 .. L + 1 + k)
        <4>1. i \in 1..Len(m2) /\ (i = L + 1 \/ i \in L + 2 .. L + 1 + k)
          BY <1>1, <1>10, <2>1
        <4>2. \A j \in 1..Len(m2) : messages'[j] = m2[j]
          BY <1>12 DEF Extends
        <4> QED
          BY <4>1, <4>2
      <3> QED
        BY <1>14, <1>15, <3>1
    <2>2. CASE i > L + 1 + k
      <3>1. i \in L + 1 + k + 1 .. Len(messages')
        BY <1>1, <1>8, <1>12, <2>2
      <3> QED
        BY <1>12, <3>1 DEF Host
    <2> QED
      BY <1>1, <2>1, <2>2
  <1>20. ASSUME NEW r \in Of(b, "report") PROVE InFull(messages', r) /\ r \in Nat \X Nat
    <2>1. PICK n \in 1..k : r = <<steps, n>>
      BY DEF Of
    <2>2. m2[L + 1 + n] = Tool(r) /\ L + 1 + n \in 1..Len(m2) /\ L + 1 + n \in 1..Len(messages')
      <3>1. m2[L + 1 + n] = Tool(r)
        BY <1>10, <2>1
      <3>2. L + 1 + n \in 1 .. L + 1 + k
        BY <1>1
      <3> QED
        BY <1>1, <1>8, <1>10, <1>12, <3>1, <3>2
    <2>3. messages'[L + 1 + n] = Tool(r)
      BY <1>12, <2>2 DEF Extends
    <2>4. IsTool(Tool(r)) /\ Tool(r).of = {r} /\ Tool(r).body
      BY DEF IsTool, Tool
    <2>5. InFull(messages', r)
      BY <2>2, <2>3, <2>4 DEF InFull
    <2> QED
      BY <1>2, <2>1, <2>5
  <1>21. reports' = reports \cup Of(b, "report") /\ reports \subseteq Nat \X Nat
    BY DEF Tools, Typed
  <1> QED
    BY <1>12, <1>13, <1>18, <1>19, <1>20, <1>21

\* A batch that is interrupted leaves calls without replies.
LEMMA UnansweredGrows ==
  ASSUME Typed, Unanswered
  PROVE  /\ messages' \in Seq(Message) /\ Extends(messages', messages)
         /\ \A i \in Len(messages) + 1 .. Len(messages') : messages'[i].kind # "crumb"
  <1>1. messages \in Seq(Message) /\ steps \in Nat
    BY DEF Typed, TypeOK
  <1> DEFINE m == Asks({<<steps, 1>>})
  <1>2. m \in Message /\ m.kind # "crumb"
    <2>1. {<<steps, 1>>} \in SUBSET (Nat \X Nat)
      BY <1>1
    <2> QED
      BY <2>1, MessageTypes DEF Asks
  <1> HIDE DEF m
  <1>3. messages' = messages \/ messages' = Append(messages, m)
    BY DEF Unanswered, m
  <1>4. CASE messages' = messages
    BY <1>1, <1>4 DEF Extends
  <1>5. CASE messages' = Append(messages, m)
    BY <1>1, <1>2, <1>5, Appended
  <1> QED
    BY <1>3, <1>4, <1>5

-----------------------------------------------------------------------------
(* The trajectory, step by step *)

LEMMA TrajectoryTakes ==
  ASSUME Typed, Trajectory, Drain \/ FinalDrain \/ FollowUps
  PROVE  messages' \in Seq(Message) /\ Trajectory'
  <1>1. PICK q \in {Steer, FollowUp} : Take(q)
    BY DEF Drain, FinalDrain, FollowUps
  <1>2. pc \notin Over /\ reports' = reports /\ shed' = shed
    BY DEF Drain, FinalDrain, FollowUps, Take, Rest, Over
  <1> QED
    BY <1>1, <1>2, TakeGrows, ExtendedInert

LEMMA TrajectorySpeaks ==
  ASSUME Typed, Trajectory, Call \/ Hook \/ Nudge \/ CutShort
  PROVE  messages' \in Seq(Message) /\ Trajectory'
  <1>1. messages \in Seq(Message)
    BY DEF Typed
  <1>2. pc \notin Over /\ reports' = reports /\ shed' = shed /\ receipts' = receipts
    BY DEF Call, Hook, Nudge, CutShort, Rest, past, Over
  <1>3. \/ messages' = messages
        \/ \E t \in BOOLEAN : messages' = messages \o Say(t)
        \/ messages' = Append(messages, Host)
    BY DEF Call, Respond, Hook, Nudge, CutShort, GoOn
  <1>4. CASE messages' = messages
    BY <1>1, <1>2, <1>4, ExtendedNot
  <1>5. CASE \E t \in BOOLEAN : messages' = messages \o Say(t)
    BY <1>1, <1>2, <1>5, SayGrows, ExtendedInert
  <1>6. CASE messages' = Append(messages, Host)
    BY <1>1, <1>2, <1>6, HostGrows, ExtendedInert
  <1> QED
    BY <1>3, <1>4, <1>5, <1>6

LEMMA TrajectoryTools ==
  ASSUME LoopAssumption, Typed, Trajectory, NEW b \in Batches, Tools(b)
  PROVE  messages' \in Seq(Message) /\ Trajectory'
  <1>1. Paired(messages)
    BY DEF Tools, Trajectory, Over
  <1>2. receipts' = receipts /\ shed' = shed
    BY DEF Tools
  <1> QED
    BY <1>1, <1>2, ToolsGrow, Extended

LEMMA TrajectoryBreaks ==
  ASSUME Typed, Trajectory, Interrupt \/ Raise
  PROVE  messages' \in Seq(Message) /\ Trajectory'
  <1>1. pc' \in Over /\ receipts' = receipts /\ shed' = shed /\ reports' = reports /\ Unanswered
    BY DEF Interrupt, Raise, Rest, past, Over
  <1> QED
    BY <1>1, UnansweredGrows, Extended

LEMMA TrajectoryShrinks ==
  ASSUME Typed, Trajectory, Overflow
  PROVE  messages' \in Seq(Message) /\ Trajectory'
  <1>1. /\ messages \in Seq(Message) /\ Len(messages) \in Nat /\ pc = "call"
        /\ Paired(messages) /\ CrumbFirst(messages) /\ \A r \in reports : InFull(messages, r)
    BY DEF Typed, Trajectory, Overflow, Over
  <1>2. reports' = reports
    BY DEF Overflow
  <1>3. \/ Shrink(Cleared)
        \/ /\ Shrink(Dropped) /\ Len(messages) # Floor
           /\ \A n \in Oldest : messages[n].of \cap reports = {}
        \/ messages' = messages /\ shed' = shed /\ receipts' = receipts
    BY DEF Overflow, SwapModel, ParkOverflow, past
  <1>4. ASSUME NEW w, messages' = w, shed' = TRUE,
               w \in Seq(Message), Len(w) > 0, w[1].kind = "crumb", CrumbFirst(w), Paired(w),
               \A r \in reports : InFull(messages, r) => InFull(w, r)
        PROVE  messages' \in Seq(Message) /\ Trajectory'
    <2>1. HasCrumb'
      BY <1>4 DEF HasCrumb
    <2> QED
      BY <1>1, <1>2, <1>4, <2>1 DEF Trajectory
  <1>5. CASE Shrink(Cleared)
    <2>1. messages' = WithCrumb(Cleared) /\ shed' = TRUE
      BY <1>5 DEF Shrink
    <2> QED
      BY <1>1, <1>4, <2>1, ClearedKeeps
  <1>6. CASE /\ Shrink(Dropped) /\ Len(messages) # Floor
             /\ \A n \in Oldest : messages[n].of \cap reports = {}
    <2>1. messages' = WithCrumb(Dropped) /\ shed' = TRUE
      BY <1>6 DEF Shrink
    <2>2. Len(messages) > Floor
      <3>1. HasCrumb => Len(messages) > 0
        BY <1>1 DEF HasCrumb
      <3> QED
        BY <1>1, <1>6, <3>1 DEF Floor
    <2> QED
      BY <1>1, <1>4, <1>6, <2>1, <2>2, DroppedKeeps
  <1>7. CASE messages' = messages /\ shed' = shed /\ receipts' = receipts
    <2>1. pc \notin Over
      BY <1>1 DEF Over
    <2> QED
      BY <1>1, <1>2, <1>7, <2>1, ExtendedNot
  <1> QED
    BY <1>3, <1>5, <1>6, <1>7

\* Every step keeps the trajectory honest.
LEMMA TrajectoryStep ==
  ASSUME LoopAssumption, Typed, Trajectory, [Next]_vars
  PROVE  messages' \in Seq(Message) /\ Trajectory'
  <1>1. CASE Drain \/ FinalDrain \/ FollowUps
    BY <1>1, TrajectoryTakes
  <1>2. CASE Call \/ Hook \/ Nudge \/ CutShort
    BY <1>2, TrajectorySpeaks
  <1>3. CASE \E b \in Batches : Tools(b)
    BY <1>3, TrajectoryTools
  <1>4. CASE Interrupt \/ Raise
    BY <1>4, TrajectoryBreaks
  <1>5. CASE Overflow
    BY <1>5, TrajectoryShrinks
  <1>6. CASE \/ Setup \/ Gate \/ Tighten \/ CallCancelled \/ Accepted \/ Publish \/ Closeout \/ Return
             \/ Cancel \/ (\E i \in Steer \cup FollowUp : Send(i)) \/ UNCHANGED vars
    <2>1. messages' = messages /\ receipts' = receipts /\ reports' = reports /\ shed' = shed
      BY <1>6 DEF Setup, Gate, Tighten, CallCancelled, Accepted, Publish, Closeout, Return, Cancel, Send,
                  vars, Rest, past
    <2>2. pc' \notin Over => pc \notin Over
      BY <1>6 DEF Setup, Gate, Tighten, CallCancelled, Accepted, Publish, Closeout, Return, Cancel, Send,
                  vars, Go, Over
    <2> QED
      BY <2>1, <2>2, ExtendedNot DEF Typed
  <1> QED
    BY <1>1, <1>2, <1>3, <1>4, <1>5, <1>6 DEF Next, Loop

-----------------------------------------------------------------------------
(* Types *)

LEMMA ReportsTyped ==
  ASSUME LoopAssumption, Typed, [Next]_vars
  PROVE  reports' \subseteq Nat \X Nat
  <1>1. reports \subseteq Nat \X Nat /\ steps \in Nat
    BY DEF Typed, TypeOK
  <1>2. ASSUME NEW b \in Batches, Tools(b) PROVE reports' \subseteq Nat \X Nat
    <2>1. Len(b) \in Nat
      BY <1>2 DEF LoopAssumption
    <2>2. Of(b, "report") \subseteq Nat \X Nat
      BY <1>1, <2>1 DEF Of
    <2> QED
      BY <1>1, <1>2, <2>2 DEF Tools
  <1>3. (\E b \in Batches : Tools(b)) \/ reports' = reports
    BY DEF Next, Loop, Setup, Gate, Drain, Call, Tighten, Overflow, CallCancelled, FinalDrain, Hook, Nudge,
           CutShort, Accepted, FollowUps, Publish, Closeout, Return, Interrupt, Raise, Cancel, Send, vars, Rest
  <1> QED
    BY <1>1, <1>2, <1>3

LEMMA WaitingFinite ==
  ASSUME Typed, [Next]_vars
  PROVE  IsFiniteSet(waiting') /\ waiting' \cup receipts' \subseteq Steer \cup FollowUp
  <1>1. /\ IsFiniteSet(waiting) /\ waiting \subseteq Steer \cup FollowUp
        /\ receipts \subseteq Steer \cup FollowUp
    BY DEF Typed, TypeOK
  <1>2. \/ waiting' = waiting /\ receipts' = receipts
        \/ \E q \in {Steer, FollowUp} : Take(q)
        \/ \E i \in Steer \cup FollowUp : waiting' = waiting \cup {i} /\ receipts' = receipts
        \/ waiting' = {} /\ receipts' = receipts
    BY DEF Next, Loop, Setup, Gate, Drain, Call, Tighten, Overflow, Shrink, SwapModel, ParkOverflow, CallCancelled,
           Tools, FinalDrain, Hook, Nudge, CutShort, Accepted, FollowUps, Publish, Closeout, Return, Interrupt,
           Raise, Cancel, Send, vars, Rest, past
  <1>3. CASE waiting' = waiting /\ receipts' = receipts
    BY <1>1, <1>3
  <1>4. CASE \E q \in {Steer, FollowUp} : Take(q)
    <2>1. PICK q : waiting' = waiting \ q /\ receipts' = receipts \cup (waiting \cap q)
      BY <1>4 DEF Take
    <2>2. IsFiniteSet(waiting \ q)
      BY <1>1, FS_Subset
    <2> QED
      BY <1>1, <2>1, <2>2
  <1>5. CASE \E i \in Steer \cup FollowUp : waiting' = waiting \cup {i} /\ receipts' = receipts
    BY <1>1, <1>5, FS_AddElement
  <1>6. CASE waiting' = {} /\ receipts' = receipts
    BY <1>1, <1>6, FS_EmptySet
  <1> QED
    BY <1>2, <1>3, <1>4, <1>5, <1>6

\* The type invariant, apart from the trajectory and the queues.
Places ==
  /\ pc \in {"setup", "gate", "drain", "call", "tools", "final", "checks", "followups", "publish",
             "turnend", "closeout", "announce", "done", "raised"}
  /\ guard \in 0..2
  /\ stop \in Cuts \cup {"none", "end_turn", "waiting_peer", "aborted", "max_steps", "token_budget",
                         "overflow", "indeterminate", "error", "blocked"}
Counts ==
  /\ steps \in 0..MaxSteps /\ resumes \in 0..MaxResumes /\ hinted \subseteq {"repeat", "deliverable"}
  /\ tight \in 0..MaxTight
Flags ==
  /\ fellback \in BOOLEAN /\ spent \in BOOLEAN /\ signal \in BOOLEAN
  /\ shed \in BOOLEAN /\ unsure \in BOOLEAN /\ final \in BOOLEAN

LEMMA PlacesKept ==
  ASSUME LoopAssumption, Places, [Next]_vars
  PROVE  Places'
  <1> USE DEF Places
  <1>1. CASE Setup \/ Gate \/ Drain
    BY <1>1 DEF Setup, Gate, Drain, Take, Go, Park, ParkCloseout, ParkAt, Rest, past, step, fit, Cuts
  <1>2. CASE Call
    BY <1>2 DEF Call, Respond, Spend, Heard, Go, Park, ParkCloseout, ParkAt, Rest, past, step, fit, Cuts
  <1>3. CASE Tighten \/ Overflow \/ CallCancelled
    BY <1>3 DEF Tighten, Overflow, Shrink, SwapModel, ParkOverflow, CallCancelled, Go, Park, ParkCloseout, ParkAt,
           Rest, past, step, fit, Cuts
  <1>4. ASSUME NEW b \in Batches, Tools(b) PROVE Places'
    BY <1>4 DEF Tools, AfterBatch, Spend, Hint, Go, Park, ParkCloseout, ParkAt, Rest, past, step, fit, Cuts
  <1>5. CASE FinalDrain \/ FollowUps \/ Accepted \/ Publish
    BY <1>5 DEF FinalDrain, FollowUps, Accepted, Publish, Take, Go, Park, ParkCloseout, ParkAt, Rest, past, step,
           fit, Cuts
  <1>6. CASE Hook \/ Nudge \/ CutShort
    BY <1>6 DEF Hook, Nudge, CutShort, Resumable, GoOn, Hint, Go, Park, ParkCloseout, ParkAt, Rest, past, step, fit,
           Cuts
  <1>7. CASE Closeout \/ Return
    BY <1>7 DEF Closeout, Return, Go, Rest, Cuts
  <1>8. CASE Interrupt \/ Raise
    BY <1>8 DEF Interrupt, Raise, Ended, Go, Park, ParkCloseout, ParkAt, Rest, past, step, fit, Cuts
  <1>9. CASE Cancel \/ (\E i \in Steer \cup FollowUp : Send(i)) \/ UNCHANGED vars
    BY <1>9 DEF Cancel, Send, vars, Go, Park, ParkCloseout, ParkAt, Rest, past, step, fit, Cuts
  <1> QED
    BY <1>1, <1>2, <1>3, <1>4, <1>5, <1>6, <1>7, <1>8, <1>9 DEF Next, Loop

LEMMA CountsKept ==
  ASSUME LoopAssumption, Counts, [Next]_vars
  PROVE  Counts'
  <1> USE DEF Counts
  <1>0. MaxSteps \in Nat /\ MaxResumes \in Nat /\ MaxTight \in Nat
    BY DEF LoopAssumption
  <1>1. CASE Setup \/ Gate \/ Drain
    <2>1. CASE Setup \/ Drain
      BY <2>1 DEF Setup, Drain, Rest, step, fit
    <2>2. CASE Gate
      <3>1. resumes' = resumes /\ hinted' = hinted /\ tight' = tight
        BY <2>2 DEF Gate, fit
      <3>2. steps' = steps \/ (steps < MaxSteps /\ steps' = steps + 1)
        BY <2>2 DEF Gate
      <3> QED
        BY <1>0, <3>1, <3>2
    <2> QED
      BY <1>1, <2>1, <2>2
  <1>2. CASE Call
    BY <1>0, <1>2 DEF Call, step, fit
  <1>3. CASE Tighten \/ Overflow \/ CallCancelled
    <2>1. steps' = steps /\ resumes' = resumes /\ hinted' = hinted
      BY <1>3 DEF Tighten, Overflow, CallCancelled, Rest, step
    <2>2. tight' = tight \/ tight' = MaxTight \/ (tight > 0 /\ tight' = tight - 1)
      BY <1>3 DEF Tighten, Overflow, Shrink, SwapModel, ParkOverflow, CallCancelled, Rest, fit
    <2> QED
      BY <1>0, <2>1, <2>2
  <1>4. ASSUME NEW b \in Batches, Tools(b) PROVE Counts'
    BY <1>0, <1>4 DEF Tools, AfterBatch, Spend, Hint, Rest, past, step, fit
  <1>5. CASE FinalDrain \/ FollowUps \/ Accepted \/ Publish
    BY <1>0, <1>5 DEF FinalDrain, FollowUps, Accepted, Publish, Take, Rest, past, step, fit
  <1>6. CASE Hook \/ Nudge \/ CutShort
    <2>1. CASE Hook
      BY <2>1 DEF Hook, Rest, step, fit
    <2>2. CASE Nudge
      BY <2>2 DEF Nudge, Hint, fit
    <2>3. CASE CutShort
      BY <1>0, <2>3 DEF CutShort, Resumable, fit
    <2> QED
      BY <1>6, <2>1, <2>2, <2>3
  <1>7. CASE Closeout \/ Return
    BY <1>0, <1>7 DEF Closeout, Return, Heard, Spend, Rest, past, step, fit
  <1>8. CASE Interrupt \/ Raise
    BY <1>0, <1>8 DEF Interrupt, Raise, Ended, Rest, past, step, fit
  <1>9. CASE Cancel \/ (\E i \in Steer \cup FollowUp : Send(i)) \/ UNCHANGED vars
    BY <1>0, <1>9 DEF Cancel, Send, vars, Rest, past, step, fit
  <1> QED
    BY <1>1, <1>2, <1>3, <1>4, <1>5, <1>6, <1>7, <1>8, <1>9 DEF Next, Loop

LEMMA FlagsKept ==
  ASSUME LoopAssumption, Flags, [Next]_vars
  PROVE  Flags'
  <1> USE DEF Flags
  <1>1. CASE Setup \/ Gate \/ Drain
    BY <1>1 DEF Setup, Gate, Drain, Take, Rest, past, step, fit
  <1>2. CASE Call
    BY <1>2 DEF Call, Respond, Spend, Heard, Rest, past, step, fit
  <1>3. CASE Tighten \/ Overflow \/ CallCancelled
    BY <1>3 DEF Tighten, Overflow, Shrink, SwapModel, ParkOverflow, CallCancelled, Rest, past, step, fit
  <1>4. ASSUME NEW b \in Batches, Tools(b) PROVE Flags'
    BY <1>4 DEF Tools, AfterBatch, Spend, Hint, Rest, past, step, fit
  <1>5. CASE FinalDrain \/ FollowUps \/ Accepted \/ Publish
    BY <1>5 DEF FinalDrain, FollowUps, Accepted, Publish, Take, Rest, past, step, fit
  <1>6. CASE Hook \/ Nudge \/ CutShort
    BY <1>6 DEF Hook, Nudge, CutShort, Resumable, GoOn, Hint, Rest, past, step, fit
  <1>7. CASE Closeout \/ Return
    BY <1>7 DEF Closeout, Return, Heard, Spend, Rest, past, step, fit
  <1>8. CASE Interrupt \/ Raise
    BY <1>8 DEF Interrupt, Raise, Ended, Rest, past, step, fit
  <1>9. CASE Cancel \/ (\E i \in Steer \cup FollowUp : Send(i)) \/ UNCHANGED vars
    BY <1>9 DEF Cancel, Send, vars, Rest, past, step, fit
  <1> QED
    BY <1>1, <1>2, <1>3, <1>4, <1>5, <1>6, <1>7, <1>8, <1>9 DEF Next, Loop

LEMMA TypedStep ==
  ASSUME LoopAssumption, Typed, Trajectory, [Next]_vars
  PROVE  Typed'
  <1>1. messages' \in Seq(Message)
    BY TrajectoryStep
  <1>2. \A m \in Range(messages') : m.kind \in Kinds /\ m.body \in BOOLEAN
    <2>1. \A m \in Range(messages') : m \in Message
      BY <1>1 DEF Range
    <2> QED
      BY <2>1 DEF Message
  <1>3. Places /\ Counts /\ Flags
    BY DEF Typed, TypeOK, Places, Counts, Flags
  <1>4. Places' /\ Counts' /\ Flags'
    BY <1>3, PlacesKept, CountsKept, FlagsKept
  <1>5. \A m \in Range(messages') :
          m.kind \in {"crumb", "host", "text", "item", "calls", "tool"} /\ m.body \in BOOLEAN
    BY <1>2 DEF Kinds
  <1>6. waiting' \cup receipts' \subseteq Steer \cup FollowUp
    BY WaitingFinite
  <1>7. TypeOK'
    BY <1>4, <1>5, <1>6 DEF TypeOK, Places, Counts, Flags
  <1> QED
    BY <1>1, <1>7, ReportsTyped, WaitingFinite DEF Typed

-----------------------------------------------------------------------------
(* Where the turn is, and why *)

\* A response was given by a model that had every report, and every item unless
\* something was shed.
LEMMA AnsweredKnowing ==
  ASSUME Typed, Trajectory, Heard
  PROVE  reports \subseteq seen' /\ (shed \/ receipts \subseteq seen')
  <1>1. messages \in Seq(Message)
    BY DEF Typed
  <1>2. reports \subseteq Carried
    <2> SUFFICES ASSUME NEW r \in reports PROVE r \in Carried
      OBVIOUS
    <2>1. PICK n \in 1..Len(messages) : IsTool(messages[n]) /\ messages[n].of = {r} /\ messages[n].body
      BY DEF Trajectory, InFull
    <2> QED
      BY <1>1, <2>1, CarriedBy DEF Carried, IsTool
  <1> QED
    BY <1>2 DEF Heard, Trajectory

LEMMA LadderStep ==
  ASSUME LoopAssumption, Typed, Trajectory, Ladder, [Next]_vars
  PROVE  Ladder'
  <1>1. spent \in BOOLEAN /\ shed \in BOOLEAN /\ unsure \in BOOLEAN /\ final \in BOOLEAN /\ guard \in 0..2
    BY DEF Typed, TypeOK
  <1>2. CASE Setup \/ Gate \/ Drain
    BY <1>1, <1>2 DEF Ladder, Over, Answering, Knowing,
       Setup, Gate, Drain, Take, Go, Park, ParkCloseout, ParkAt, Rest, past, step, fit
  <1>3. CASE Call
    <2>1. reports \subseteq seen' /\ (shed \/ receipts \subseteq seen')
      BY <1>3, AnsweredKnowing DEF Call, Respond
    <2> QED
      BY <1>1, <1>3, <2>1 DEF Ladder, Over, Answering, Knowing,
         Call, Respond, Spend, Cuts, Go, Park, ParkAt, step, fit
  <1>4. CASE Tighten \/ Overflow \/ CallCancelled
    BY <1>1, <1>4 DEF Ladder, Over, Answering, Knowing,
       Tighten, Overflow, Shrink, SwapModel, ParkOverflow, CallCancelled, Park, ParkAt, Rest, past, step, fit
  <1>5. ASSUME NEW b \in Batches, Tools(b) PROVE Ladder'
    BY <1>1, <1>5 DEF Ladder, Over, Answering, Knowing,
       Tools, AfterBatch, Spend, Go, Park, ParkCloseout, ParkAt, fit
  <1>6. CASE FinalDrain \/ FollowUps
    BY <1>1, <1>6 DEF Ladder, Over, Answering, Knowing, FinalDrain, FollowUps, Take, Go, Rest, step, fit
  <1>7. CASE Accepted \/ Publish
    BY <1>1, <1>7 DEF Ladder, Over, Answering, Knowing, Accepted, Publish, Go, Rest, past, step, fit
  <1>8. CASE Hook \/ Nudge \/ CutShort
    BY <1>1, <1>8 DEF Ladder, Over, Answering, Knowing,
       Hook, Nudge, CutShort, GoOn, Cuts, Go, Park, ParkAt, Rest, past, step, fit
  <1>9. CASE Closeout
    BY <1>1, <1>9 DEF Ladder, Over, Answering, Knowing, Closeout, step, fit
  <1>10. CASE Return
    BY <1>1, <1>10 DEF Ladder, Over, Answering, Knowing, Return, Go, Rest, past, step, fit
  <1>11. CASE Interrupt
    BY <1>1, <1>11 DEF Ladder, Over, Answering, Knowing, Interrupt, Ended, Rest, past, step, fit
  <1>12. CASE Raise
    BY <1>1, <1>12 DEF Ladder, Over, Answering, Knowing, Raise, Ended, Rest, past, step, fit
  <1>13. CASE Cancel \/ (\E i \in Steer \cup FollowUp : Send(i)) \/ UNCHANGED vars
    BY <1>1, <1>13 DEF Ladder, Over, Answering, Knowing, Cancel, Send, vars, Rest, past, step, fit
  <1> QED
    BY <1>2, <1>3, <1>4, <1>5, <1>6, <1>7, <1>8, <1>9, <1>10, <1>11, <1>12, <1>13 DEF Next, Loop

-----------------------------------------------------------------------------
(* The theorems *)

LEMMA InvInit ==
  ASSUME LoopAssumption, Init
  PROVE  Inv
  <1>1. messages = <<>> /\ messages \in Seq(Message) /\ Range(messages) = {}
    BY DEF Init, Range
  <1>2. Typed
    <2>1. MaxTight \in Nat /\ MaxSteps \in Nat /\ MaxResumes \in Nat
      BY DEF LoopAssumption
    <2>2. Places /\ Counts /\ Flags
      <3>1. Places
        BY DEF Init, Places
      <3>2. Counts
        BY <2>1 DEF Init, Counts
      <3>3. Flags
        BY DEF Init, Flags
      <3> QED
        BY <3>1, <3>2, <3>3
    <2>3. waiting \cup receipts \subseteq Steer \cup FollowUp /\ reports \subseteq Nat \X Nat
      BY DEF Init
    <2>4. TypeOK
      BY <1>1, <2>2, <2>3 DEF TypeOK, Places, Counts, Flags
    <2>5. IsFiniteSet(waiting)
      BY FS_EmptySet DEF Init
    <2> QED
      BY <1>1, <2>3, <2>4, <2>5 DEF Typed
  <1>3. Trajectory
    BY <1>1 DEF Init, Trajectory, Paired, CrumbFirst
  <1>4. Ladder
    BY DEF Init, Ladder, Answering
  <1> QED
    BY <1>2, <1>3, <1>4 DEF Inv

LEMMA InvHolds == Spec => []Inv
  <1> USE LoopAssumption
  <1>1. Init => Inv
    BY InvInit
  <1>2. Inv /\ [Next]_vars => Inv'
    BY TypedStep, TrajectoryStep, LadderStep DEF Inv
  <1> QED
    BY <1>1, <1>2, PTL DEF Spec

\* Every request of a turn is one a provider accepts: each call is answered by
\* the tool messages right behind it and each tool message answers a call
\* (run_turn's messages, _micro_compact and _snip_oldest).
THEOREM RequestsAreWellFormed == Spec => []PromptsWellFormed
  <1>1. Inv => PromptsWellFormed
    <2> SUFFICES ASSUME Inv PROVE PromptsWellFormed
      OBVIOUS
    <2>1. TypeOK
      BY DEF Inv, Typed
    <2>2. \A n : Replies(n) = RepliesIn(messages, n)
      BY DEF Replies, RepliesIn
    <2>3. pc \in {"call", "closeout"} => Paired(messages)
      BY DEF Inv, Trajectory, Over
    <2> QED
      BY <2>1, <2>2, <2>3 DEF PromptsWellFormed, Paired
  <1> QED
    BY <1>1, InvHolds, PTL

\* Compaction is never silent and costs no child's report (_micro_compact,
\* _snip_oldest and the overflow rungs of run_turn).
THEOREM CompactionIsHonest == Spec => []CompactionHonest
  <1>1. Inv => CompactionHonest
    <2> SUFFICES ASSUME Inv PROVE CompactionHonest
      OBVIOUS
    <2> DEFINE crumbs == {n \in 1..Len(messages) : messages[n].kind = "crumb"}
    <2>1. shed => HasCrumb
      BY DEF Inv, Trajectory
    <2>2. crumbs \subseteq {1}
      BY DEF Inv, Trajectory, CrumbFirst
    <2>3. Cardinality(crumbs) <= 1
      <3>1. IsFiniteSet({1}) /\ Cardinality({1}) = 1
        BY FS_Singleton
      <3>2. crumbs \in SUBSET {1}
        BY <2>2
      <3> HIDE DEF crumbs
      <3>3. Cardinality(crumbs) <= Cardinality({1})
        BY <3>1, <3>2, FS_Subset
      <3> QED
        BY <3>1, <3>3
    <2>4. \A r \in reports : InFull(messages, r)
      BY DEF Inv, Trajectory
    <2> QED
      BY <2>1, <2>3, <2>4 DEF CompactionHonest, InFull
  <1> QED
    BY <1>1, InvHolds, PTL

\* A turn that ends with its answer gave a whole one, within the budget, by a
\* model that knew all there was; an unknown outcome is never reported as an
\* end (the ladders of run_turn and _park).
THEOREM TheEndIsHonest == Spec => []EndIsHonest
  <1>1. Inv => EndIsHonest
    BY DEF Inv, Ladder, Knowing, EndIsHonest
  <1> QED
    BY <1>1, InvHolds, PTL

=============================================================================
