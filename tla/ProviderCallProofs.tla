-------------------------- MODULE ProviderCallProofs --------------------------
(***************************************************************************)
(* What holds of ProviderCall for any number of callers, slots, attempts   *)
(* and ticks.                                                              *)
(***************************************************************************)
EXTENDS ProviderCall, FiniteSetTheorems, TLAPS

Busy == {"acquiring", "admitted", "submitted", "polling", "closing"}
Holding == {"admitted", "submitted", "polling", "closing"}

\* The worker of q will open its request when it runs.
Pending(q) == q.task = "queued" /\ q.handoff = "owned" /\ ~q.kill /\ q.adm = "pending"

\* q is a live request, or may become one.
Live(q) == q.socket \/ Pending(q)

\* A worker will give q's slot back, or nobody has seen its end.
SlotKept(q) ==
  \/ q.task = "queued" /\ q.kind = "daemon"
  \/ q.task \in {"open", "unwinding", "retiring"} \/ q.result = "unconfirmed"

\* How the worker, the two decisions, the slot and the socket of a request agree.
RequestBooks(q) ==
  /\ q.task \in {"none", "queued"} =>
       /\ q.adm \in {"pending", "cancelled"} /\ ~q.socket
       /\ q.kill => q.adm = "cancelled"
  /\ q.task = "none" => q.handoff # "owned"
  /\ q.task \in {"open", "unwinding"} => q.adm = "admitted"
  /\ q.task = "unwinding" => q.kind = "stream"
  /\ q.task = "retiring" => q.adm \in {"admitted", "closed"} /\ ~q.socket
  /\ q.task = "done" => q.result # "none" /\ (q.result # "unconfirmed" => ~q.socket /\ q.lease < 0)
  /\ q.task = "done" => q.adm # "pending"
  /\ q.result = "unconfirmed" => q.task = "done" /\ q.adm = "admitted" /\ q.kind = "stream"
  /\ q.adm = "cancelled" => q.lease < 0 /\ ~q.socket
  /\ q.adm = "closed" => q.task \in {"retiring", "done"}
  /\ Live(q) => q.lease # Free
  /\ q.lease >= 0 => q.lease >= q.left
  /\ q.lease = Reaped => q.left = 0

CallerBooks(r) ==
  /\ r.pc = "idle" => r.cur = None /\ r.tries = 0
  /\ r.pc = "ready" => r.tries < MaxTries
  /\ r.pc \in Busy => r.cur # None
  /\ r.pc = "closing" => r.cause # "none"

\* How a caller r and its current request q agree.
PairBooks(r, q) ==
  /\ r.pc # "over" => q.kind = r.kind
  /\ r.pc \in {"acquiring", "admitted"} => q.task = "none"
  /\ r.pc = "acquiring" => q.lease = Free
  /\ r.pc \in {"acquiring", "admitted", "submitted"} =>
       q.handoff = "undecided" /\ q.adm = "pending" /\ ~q.kill
  /\ r.pc \in {"admitted", "submitted"} => q.lease # Free
  /\ r.pc = "submitted" => q.task = "queued"
  /\ r.pc = "polling" =>
       /\ q.task # "none" /\ q.handoff = "owned"
       /\ q.task = "queued" => q.adm = "pending" /\ q.lease # Free /\ ~q.kill
  /\ r.pc = "closing" => r.kind = "stream" /\ q.adm # "pending"
  /\ Live(q) => r.pc \in {"polling", "closing"} \/ (r.pc = "over" /\ r.outcome = "indeterminate")

Unborn == \A a \in Call : a > used => req[a] = Unused
Requests == \A a \in Call : RequestBooks(req[a])
Callers == \A c \in Caller : CallerBooks(call[c])
Pairs == \A c \in Caller : Cur(c) # None => Cur(c) <= used /\ req[Cur(c)].owner = c /\ PairBooks(call[c], req[Cur(c)])
Orphans == \A a \in Call : (\A c \in Caller : Cur(c) # a) => ~Live(req[a])
Slots == \A a \in Held(req) : SlotKept(req[a]) \/ \E c \in Caller : Cur(c) = a /\ call[c].pc \in Holding
SlotsBounded == Cardinality(Held(req)) <= Capacity

Books == Unborn /\ Requests /\ Callers /\ Pairs /\ Orphans /\ Slots /\ SlotsBounded

Inv == TypeOK /\ Books

-----------------------------------------------------------------------------
(* Facts about the data.                                                   *)

LEMMA CallFinite == IsFiniteSet(Call) /\ \A S \in SUBSET Call : IsFiniteSet(S) /\ Cardinality(S) \in Nat
<1>1. IsFiniteSet(Call)
  BY FS_Interval, ProviderAssumption DEF Call
<1> QED
  BY <1>1, FS_Subset, FS_CardinalityType

LEMMA HeldShrinks ==
  ASSUME NEW r, NEW s, Held(s) \subseteq Held(r), Cardinality(Held(r)) <= Capacity
  PROVE  Cardinality(Held(s)) <= Capacity
<1>1. Held(r) \in SUBSET Call /\ Held(s) \in SUBSET Call
  BY DEF Held
<1>2. IsFiniteSet(Held(r)) /\ Cardinality(Held(s)) \in Nat /\ Cardinality(Held(r)) \in Nat
  BY <1>1, CallFinite
<1>3. Cardinality(Held(s)) <= Cardinality(Held(r))
  BY <1>2, FS_Subset
<1> QED BY <1>2, <1>3, ProviderAssumption

\* Reaping changes no more than the lease of a request whose time is over.
LEMMA ReapKeeps ==
  ASSUME TypeOK, Books, NEW r, r = req \/ r = Reap(req)
  PROVE  /\ r \in [Call -> RequestType]
         /\ \A a \in Call : /\ r[a] = req[a] \/ (r[a] = [req[a] EXCEPT !.lease = Reaped] /\ req[a].lease = 0)
                            /\ RequestBooks(r[a])
                            /\ a > used => r[a] = Unused
                            /\ Live(r[a]) = Live(req[a]) /\ SlotKept(r[a]) = SlotKept(req[a])
                            /\ \A x \in CallerType : PairBooks(x, req[a]) => PairBooks(x, r[a])
         /\ Held(r) \subseteq Held(req)
<1>1. CASE r = req
  BY <1>1 DEF TypeOK, Books, Requests, Unborn
<1>2. CASE r = Reap(req)
  <2> SUFFICES ASSUME NEW a \in Call
      PROVE /\ r[a] \in RequestType
            /\ r[a] = req[a] \/ (r[a] = [req[a] EXCEPT !.lease = Reaped] /\ req[a].lease = 0)
            /\ RequestBooks(r[a])
            /\ a > used => r[a] = Unused
            /\ Live(r[a]) = Live(req[a]) /\ SlotKept(r[a]) = SlotKept(req[a])
            /\ \A x \in CallerType : PairBooks(x, req[a]) => PairBooks(x, r[a])
            /\ r[a].lease >= 0 => req[a].lease >= 0
    BY <1>2 DEF Reap, Held
  <2>1. req[a] \in RequestType /\ RequestBooks(req[a]) /\ (a > used => req[a] = Unused)
    BY DEF TypeOK, Books, Requests, Unborn
  <2>2. CASE req[a].lease = 0
    <3>1. r[a] = [req[a] EXCEPT !.lease = Reaped]
      BY <1>2, <2>2 DEF Reap
    <3>2. r[a] \in RequestType /\ r[a].lease = Reaped
      BY <3>1, <2>1, ProviderAssumption DEF RequestType, Reaped
    <3>3. a <= used
      BY <2>1, <2>2 DEF Unused, Free, TypeOK, Call
    <3>4. req[a].left = 0
      BY <2>1, <2>2, ProviderAssumption DEF RequestBooks, RequestType
    <3>5. RequestBooks(r[a])
      BY <3>1, <3>2, <3>4, <2>1, <2>2 DEF RequestBooks, RequestType, Reaped, Free
    <3>6. Live(r[a]) = Live(req[a]) /\ SlotKept(r[a]) = SlotKept(req[a])
      BY <3>1, <2>1 DEF Live, Pending, SlotKept, RequestType
    <3>7. \A x \in CallerType : PairBooks(x, req[a]) => PairBooks(x, r[a])
      BY <3>1, <3>6, <2>1, <2>2 DEF PairBooks, RequestType, Reaped, Free
    <3> QED BY <3>1, <3>2, <3>3, <3>5, <3>6, <3>7, <2>2 DEF Reaped, TypeOK, Call
  <2>3. CASE req[a].lease # 0
    BY <1>2, <2>1, <2>3 DEF Reap
  <2> QED BY <2>2, <2>3
<1> QED BY <1>1, <1>2

-----------------------------------------------------------------------------
(* The shapes of a step.                                                   *)

\* A caller moves and its request stays as it is.
LEMMA CallerStep ==
  ASSUME Inv, NEW c \in Caller, NEW v \in CallerType,
         call' = [call EXCEPT ![c] = v], UNCHANGED <<req, used>>,
         CallerBooks(v), v.cur = Cur(c),
         Cur(c) # None => PairBooks(v, req[Cur(c)]),
         Cur(c) # None /\ req[Cur(c)].lease >= 0 =>
           v.pc \in Holding \/ call[c].pc \notin Holding \/ SlotKept(req[Cur(c)])
  PROVE  Inv'
<1>1. TypeOK' /\ call'[c] = v /\ \A d \in Caller \ {c} : call'[d] = call[d]
  BY DEF Inv, TypeOK
<1>2. Unborn' /\ Requests' /\ SlotsBounded'
  BY DEF Inv, Books, Unborn, Requests, SlotsBounded
<1>3. Callers'
  BY <1>1 DEF Inv, Books, Callers
<1>4. Pairs'
  BY <1>1 DEF Inv, Books, Pairs, Cur
<1>5. Orphans'
  BY <1>1 DEF Inv, Books, Orphans, Cur
<1>6. Slots'
  <2> SUFFICES ASSUME NEW b \in Held(req)
      PROVE SlotKept(req[b]) \/ \E d \in Caller : call'[d].cur = b /\ call'[d].pc \in Holding
    BY DEF Slots, Cur
  <2>1. CASE \E d \in Caller \ {c} : Cur(d) = b /\ call[d].pc \in Holding
    BY <2>1, <1>1 DEF Cur
  <2>2. CASE Cur(c) = b /\ call[c].pc \in Holding
    BY <2>2, <1>1, ProviderAssumption DEF Cur, Held, Call, None
  <2> QED BY <2>1, <2>2 DEF Inv, Books, Slots
<1> QED BY <1>1, <1>2, <1>3, <1>4, <1>5, <1>6 DEF Inv, Books

\* A caller and its request move together; the gate may have reaped first.
LEMMA OwnStep ==
  ASSUME Inv, NEW c \in Caller, NEW a \in Call, Cur(c) = a,
         NEW v \in CallerType, NEW w \in RequestType, NEW r, r = req \/ r = Reap(req),
         call' = [call EXCEPT ![c] = v], req' = [r EXCEPT ![a] = w], used' = used,
         v.cur = a, w.owner = c, CallerBooks(v), PairBooks(v, w), RequestBooks(w),
         w.lease >= 0 => SlotKept(w) \/ v.pc \in Holding,
         w.lease >= 0 => req[a].lease >= 0 \/ Cardinality(Held(r)) < Capacity
  PROVE  Inv'
<1>0. /\ r \in [Call -> RequestType] /\ Held(r) \subseteq Held(req)
      /\ \A b \in Call : /\ r[b] = req[b] \/ (r[b] = [req[b] EXCEPT !.lease = Reaped] /\ req[b].lease = 0)
                         /\ RequestBooks(r[b]) /\ (b > used => r[b] = Unused)
                         /\ Live(r[b]) = Live(req[b]) /\ SlotKept(r[b]) = SlotKept(req[b])
                         /\ \A x \in CallerType : PairBooks(x, req[b]) => PairBooks(x, r[b])
  BY ReapKeeps DEF Inv
<1>1. /\ TypeOK' /\ call'[c] = v /\ \A d \in Caller \ {c} : call'[d] = call[d]
      /\ req'[a] = w /\ \A b \in Call \ {a} : req'[b] = r[b]
  BY <1>0 DEF Inv, TypeOK
<1>2. a # None /\ a <= used /\ \A d \in Caller \ {c} : Cur(d) # a
  BY ProviderAssumption DEF Call, None, Inv, Books, Pairs
<1>3. Unborn' /\ Requests' /\ Callers'
  <2>1. Unborn'
    BY <1>0, <1>1, <1>2 DEF Inv, TypeOK, Unborn, Call
  <2>2. Requests'
    BY <1>0, <1>1 DEF Requests
  <2>3. Callers'
    BY <1>1 DEF Inv, Books, Callers
  <2> QED BY <2>1, <2>2, <2>3
<1>4. Pairs'
  <2> SUFFICES ASSUME NEW d \in Caller, call'[d].cur # None
      PROVE  call'[d].cur <= used /\ req'[call'[d].cur].owner = d /\ PairBooks(call'[d], req'[call'[d].cur])
    BY DEF Pairs, Cur
  <2>1. CASE d = c
    BY <2>1, <1>1, <1>2
  <2>2. CASE d # c
    <3>1. call'[d] = call[d] /\ call[d] \in CallerType /\ Cur(d) # a /\ Cur(d) # None
      BY <2>2, <1>1, <1>2 DEF Inv, TypeOK, Cur
    <3>2. Cur(d) \in Call
      BY <3>1, ProviderAssumption DEF CallerType, Call, None, Cur
    <3>3. Cur(d) <= used /\ req[Cur(d)].owner = d /\ PairBooks(call[d], req[Cur(d)])
      BY <3>1 DEF Inv, Books, Pairs
    <3>4. r[Cur(d)].owner = d
      BY <3>2, <3>3, <1>0 DEF Inv, TypeOK, RequestType
    <3> QED BY <3>1, <3>2, <3>3, <3>4, <1>0, <1>1 DEF Cur
  <2> QED BY <2>1, <2>2
<1>5. Orphans'
  BY <1>0, <1>1, <1>2 DEF Inv, Books, Orphans, Cur
<1>6. Slots'
  <2> SUFFICES ASSUME NEW b \in Call, req'[b].lease >= 0
      PROVE SlotKept(req'[b]) \/ \E d \in Caller : call'[d].cur = b /\ call'[d].pc \in Holding
    BY DEF Slots, Held, Cur
  <2>1. CASE b = a
    BY <2>1, <1>1
  <2>2. CASE b # a
    <3>1. req'[b] = r[b] /\ b \in Held(req) /\ SlotKept(r[b]) = SlotKept(req[b])
      BY <2>2, <1>0, <1>1 DEF Held
    <3>2. SlotKept(req[b]) \/ \E d \in Caller \ {c} : Cur(d) = b /\ call[d].pc \in Holding
      BY <3>1, <2>2 DEF Inv, Books, Slots
    <3> QED BY <3>1, <3>2, <1>1 DEF Cur
  <2> QED BY <2>1, <2>2
<1>7. SlotsBounded'
  <2>1. CASE w.lease >= 0 => req[a].lease >= 0
    <3>1. Held(req') \subseteq Held(req)
      BY <2>1, <1>0, <1>1 DEF Held
    <3> QED BY <3>1, HeldShrinks DEF Inv, Books, SlotsBounded
  <2>2. CASE Cardinality(Held(r)) < Capacity
    <3>1. Held(r) \in SUBSET Call /\ Held(r) \cup {a} \in SUBSET Call /\ Held(req') \subseteq Held(r) \cup {a}
      BY <1>0, <1>1 DEF Held
    <3>2. Cardinality(Held(r) \cup {a}) <= Capacity
      BY <3>1, <2>2, CallFinite, FS_AddElement, ProviderAssumption
    <3>3. Cardinality(Held(req')) <= Cardinality(Held(r) \cup {a})
      BY <3>1, CallFinite, FS_Subset
    <3>4. Held(req') \in SUBSET Call
      BY DEF Held
    <3>5. Cardinality(Held(req')) \in Nat /\ Cardinality(Held(r) \cup {a}) \in Nat
      BY <3>1, <3>4, CallFinite
    <3>6. Cardinality(Held(req')) <= Capacity
      BY <3>2, <3>3, <3>5, ProviderAssumption
    <3> QED BY <3>6 DEF SlotsBounded
  <2> QED BY <2>1, <2>2
<1> QED BY <1>1, <1>3, <1>4, <1>5, <1>6, <1>7 DEF Inv, Books

\* A worker moves.
LEMMA WorkerStep ==
  ASSUME Inv, NEW a \in Call, a <= used, NEW w \in RequestType,
         req' = [req EXCEPT ![a] = w], UNCHANGED <<call, used>>,
         w.owner = req[a].owner, RequestBooks(w),
         \A x \in CallerType : PairBooks(x, req[a]) => PairBooks(x, w),
         Live(w) => Live(req[a]),
         w.lease >= 0 => req[a].lease >= 0 /\ SlotKept(w)
  PROVE  Inv'
<1>1. TypeOK' /\ req'[a] = w /\ \A b \in Call \ {a} : req'[b] = req[b]
  BY DEF Inv, TypeOK
<1>2. Unborn' /\ Requests' /\ Callers'
  BY <1>1 DEF Inv, Books, Unborn, Requests, Callers, TypeOK, Call
<1>3. Pairs'
  <2> SUFFICES ASSUME NEW d \in Caller, Cur(d) # None
      PROVE  Cur(d) <= used /\ req'[Cur(d)].owner = d /\ PairBooks(call[d], req'[Cur(d)])
    BY DEF Pairs, Cur
  <2>1. call[d] \in CallerType /\ Cur(d) \in Call
    BY ProviderAssumption DEF Inv, TypeOK, CallerType, Cur, Call, None
  <2>2. Cur(d) <= used /\ req[Cur(d)].owner = d /\ PairBooks(call[d], req[Cur(d)])
    BY DEF Inv, Books, Pairs
  <2> QED BY <2>1, <2>2, <1>1
<1>4. Orphans'
  BY <1>1 DEF Inv, Books, Orphans, Cur
<1>5. Slots'
  BY <1>1 DEF Inv, Books, Slots, Held, Cur
<1>6. SlotsBounded'
  <2>1. Held(req') \subseteq Held(req)
    BY <1>1 DEF Held
  <2> QED BY <2>1, HeldShrinks DEF Inv, Books, SlotsBounded
<1> QED BY <1>1, <1>2, <1>3, <1>4, <1>5, <1>6 DEF Inv, Books

-----------------------------------------------------------------------------
(* Ends and retries.                                                       *)

Outcome == {"answer", "failed", "indeterminate"}

\* What the books say of a caller and of its request, at hand for the steps.
LEMMA Known ==
  ASSUME Inv, NEW c \in Caller
  PROVE  /\ call[c] \in CallerType /\ CallerBooks(call[c])
         /\ Cur(c) # None =>
              /\ Cur(c) \in Call /\ Cur(c) <= used
              /\ req[Cur(c)] \in RequestType /\ RequestBooks(req[Cur(c)])
              /\ req[Cur(c)].owner = c /\ PairBooks(call[c], req[Cur(c)])
<1>1. call[c] \in CallerType /\ CallerBooks(call[c])
  BY DEF Inv, TypeOK, Books, Callers
<1>2. Cur(c) # None => Cur(c) \in Call
  BY <1>1, ProviderAssumption DEF CallerType, Cur, Call, None
<1> QED BY <1>1, <1>2 DEF Inv, TypeOK, Books, Requests, Pairs

\* A call that is over holds no slot and lets nothing live on, unless it says so.
LEMMA OverRecord ==
  ASSUME NEW n \in 0..MaxCalls, NEW o \in Outcome
  PROVE  LET v == [Idle EXCEPT !.pc = "over", !.cur = n, !.outcome = o]
         IN /\ v \in CallerType /\ v.cur = n /\ v.pc = "over" /\ CallerBooks(v)
            /\ \A q : ~Live(q) \/ o = "indeterminate" => PairBooks(v, q)
<1> DEFINE v == [Idle EXCEPT !.pc = "over", !.cur = n, !.outcome = o]
<1>1. Idle \in CallerType
  BY ProviderAssumption DEF Idle, CallerType, None
<1>2. v \in CallerType
  BY <1>1 DEF CallerType, Outcome
<1>3. v.pc = "over" /\ v.cur = n /\ v.outcome = o
  BY <1>1 DEF CallerType
<1> HIDE DEF v
<1>4. CallerBooks(v) /\ \A q : ~Live(q) \/ o = "indeterminate" => PairBooks(v, q)
  BY <1>3 DEF CallerBooks, PairBooks, Busy
<1> QED BY <1>2, <1>3, <1>4 DEF v

LEMMA Ends ==
  ASSUME Inv, NEW c \in Caller, NEW o \in Outcome, Over(c, o), UNCHANGED <<req, used>>,
         Cur(c) # None =>
           /\ ~Live(req[Cur(c)]) \/ o = "indeterminate"
           /\ req[Cur(c)].lease >= 0 => SlotKept(req[Cur(c)]) \/ call[c].pc \notin Holding
  PROVE  Inv'
<1> DEFINE v == [Idle EXCEPT !.pc = "over", !.cur = Cur(c), !.outcome = o]
<1>1. Cur(c) \in 0..MaxCalls
  BY Known DEF CallerType, Cur
<1>2. v \in CallerType /\ v.cur = Cur(c) /\ CallerBooks(v)
      /\ \A q : ~Live(q) \/ o = "indeterminate" => PairBooks(v, q)
  BY <1>1, OverRecord
<1>3. call' = [call EXCEPT ![c] = v]
  BY DEF Over
<1> HIDE DEF v
<1> QED BY <1>2, <1>3, CallerStep

\* Nothing of the request can become live, and its slot has another keeper.
Settled(q) == ~Live(q) /\ (q.lease >= 0 => SlotKept(q))

LEMMA GoesRound ==
  ASSUME Inv, NEW c \in Caller, NEW why \in {"silent", "plain", "fatal"}, RetryOn(c, why),
         UNCHANGED <<req, used>>, call[c].pc \in {"polling", "closing"}, Settled(req[Cur(c)])
  PROVE  Inv'
<1>1. /\ call[c] \in CallerType /\ Cur(c) \in Call /\ Cur(c) # None
      /\ req[Cur(c)] \in RequestType /\ PairBooks(call[c], req[Cur(c)])
  BY Known DEF CallerBooks, Busy, Cur
<1>2. CASE Over(c, "failed")
  BY <1>2, <1>1, Ends DEF Outcome, Settled, RequestType
<1>3. CASE ~Over(c, "failed")
  <2> DEFINE v == [call[c] EXCEPT !.pc = "ready", !.silent = Silent(c, why), !.said = "nothing",
                                  !.cause = "none", !.patience = 0]
  <2>1. call' = [call EXCEPT ![c] = v] /\ call[c].tries # MaxTries
        /\ ~(why = "silent" /\ Silent(c, why) >= MaxSilent)
    BY <1>3, <1>1 DEF RetryOn, Again
  <2>2. Silent(c, why) \in 0..MaxSilent
    BY <2>1, <1>1, ProviderAssumption DEF Silent, CallerType
  <2> DEFINE u == [call[c] EXCEPT !.pc = "ready", !.silent = Silent(c, why)]
  <2>u. u \in CallerType
    BY <2>2, <1>1 DEF CallerType
  <2>a. v \in CallerType
    <3>1. [u EXCEPT !.said = "nothing", !.cause = "none"] \in CallerType
      BY <2>u DEF CallerType
    <3>2. \A x \in CallerType : [x EXCEPT !.patience = 0] \in CallerType
      BY ProviderAssumption DEF CallerType
    <3>3. v = [[u EXCEPT !.said = "nothing", !.cause = "none"] EXCEPT !.patience = 0]
      OBVIOUS
    <3> HIDE DEF u, v
    <3> QED BY <3>1, <3>2, <3>3
  <2>3. v.cur = Cur(c) /\ v.pc = "ready" /\ v.kind = call[c].kind /\ v.tries = call[c].tries
    BY <1>1 DEF CallerType, Cur
  <2>4. CallerBooks(v)
    BY <2>1, <2>3, <1>1, ProviderAssumption DEF CallerBooks, CallerType, Busy
  <2>5. PairBooks(v, req[Cur(c)])
    BY <2>3, <1>1 DEF PairBooks, Settled
  <2>6. req[Cur(c)].lease >= 0 => SlotKept(req[Cur(c)])
    BY DEF Settled
  <2> HIDE DEF v
  <2> QED BY <2>1, <2>a, <2>3, <2>4, <2>5, <2>6, CallerStep
<1> QED BY <1>2, <1>3

LEMMA Decides ==
  ASSUME Inv, NEW c \in Caller, UNCHANGED <<req, used>>, call[c].pc \in {"polling", "closing"},
         Settled(req[Cur(c)]),
         \/ \E o \in Outcome : Over(c, o)
         \/ \E why \in {"silent", "plain", "fatal"} : RetryOn(c, why)
  PROVE  Inv'
<1>2. CASE \E o \in Outcome : Over(c, o)
  BY <1>2, Ends DEF Settled
<1>3. CASE \E why \in {"silent", "plain", "fatal"} : RetryOn(c, why)
  BY <1>3, GoesRound
<1> QED BY <1>2, <1>3

-----------------------------------------------------------------------------
(* The steps that leave every request as it is.                            *)

LEMMA BeginKeeps == ASSUME Inv, NEW c \in Caller, Begin(c) PROVE Inv'
<1>1. PICK k \in {"stream", "daemon"} : call' = [call EXCEPT ![c].pc = "ready", ![c].kind = k]
  BY DEF Begin
<1>2. /\ call[c] \in CallerType /\ call[c].pc = "idle" /\ Cur(c) = None /\ call[c].tries = 0
      /\ UNCHANGED <<req, used>>
  BY Known DEF Begin, At, Cur, CallerBooks
<1> DEFINE v == [call[c] EXCEPT !.pc = "ready", !.kind = k]
<1>3. call' = [call EXCEPT ![c] = v]
  BY <1>1 DEF Inv, TypeOK
<1>4. v \in CallerType /\ v.pc = "ready" /\ v.cur = Cur(c) /\ v.tries = 0
  BY <1>2 DEF CallerType, Cur
<1> HIDE DEF v
<1>5. CallerBooks(v)
  BY <1>4, ProviderAssumption DEF CallerBooks, Busy
<1> QED BY <1>2, <1>3, <1>4, <1>5, CallerStep

LEMMA NoAttemptKeeps ==
  ASSUME Inv, NEW c \in Caller, call[c].pc = "ready", Over(c, "failed"), UNCHANGED <<req, used>>
  PROVE  Inv'
<1>1. Cur(c) # None => ~Live(req[Cur(c)])
  BY Known DEF PairBooks
<1> QED BY <1>1, Ends DEF Outcome, Holding

LEMMA SaysKeeps == ASSUME Inv, NEW c \in Caller, Says(c) PROVE Inv'
<1>1. PICK s \in {"byte", "semantic"} : call' = [call EXCEPT ![c].said = s]
  BY DEF Says
<1>2. call[c] \in CallerType /\ call[c].pc \in {"polling", "closing"} /\ UNCHANGED <<req, used>>
  BY Known DEF Says
<1> DEFINE v == [call[c] EXCEPT !.said = s]
<1>3. call' = [call EXCEPT ![c] = v]
  BY <1>1 DEF Inv, TypeOK
<1>4. /\ v \in CallerType /\ v.pc = call[c].pc /\ v.cur = Cur(c) /\ v.kind = call[c].kind
      /\ v.tries = call[c].tries /\ v.outcome = call[c].outcome /\ v.cause = call[c].cause
  BY <1>2 DEF CallerType, Cur
<1> HIDE DEF v
<1>5. CallerBooks(call[c]) /\ (Cur(c) # None => PairBooks(call[c], req[Cur(c)]))
  BY Known
<1>6. CallerBooks(v)
  BY <1>4, <1>5 DEF CallerBooks, Cur
<1>7. Cur(c) # None => PairBooks(v, req[Cur(c)])
  BY <1>4, <1>5 DEF PairBooks
<1> QED BY <1>2, <1>3, <1>4, <1>6, <1>7, CallerStep

\* A request that is done, but for an unconfirmed teardown, is settled.
LEMMA DoneSettled ==
  ASSUME NEW q \in RequestType, RequestBooks(q), q.task = "done", q.result # "unconfirmed"
  PROVE  Settled(q)
  BY DEF RequestBooks, Settled, Live, Pending, RequestType, Reaped

LEMMA CollectKeeps == ASSUME Inv, NEW c \in Caller, Collect(c) PROVE Inv'
<1>1. /\ call[c].pc = "polling" /\ req[Cur(c)].task = "done" /\ req[Cur(c)].result # "unconfirmed"
      /\ UNCHANGED <<req, used>>
  BY DEF Collect, At
<1>2. Settled(req[Cur(c)])
  BY <1>1, Known, DoneSettled DEF CallerBooks, Busy, Cur
<1>3. \/ \E o \in Outcome : Over(c, o)
      \/ \E why \in {"silent", "plain", "fatal"} : RetryOn(c, why)
  BY DEF Collect, Answered, TimedOut, Broke, Outcome
<1> QED BY <1>1, <1>2, <1>3, Decides

LEMMA ClosedKeeps == ASSUME Inv, NEW c \in Caller, Closed(c) PROVE Inv'
<1>1. /\ call[c].pc = "closing" /\ UNCHANGED <<req, used>>
      /\ req[Cur(c)].adm \in {"cancelled", "closed"}
  BY DEF Closed, At, Shut
<1>2. /\ call[c] \in CallerType /\ CallerBooks(call[c])
      /\ req[Cur(c)] \in RequestType /\ RequestBooks(req[Cur(c)])
  BY <1>1, Known DEF CallerBooks, Busy, Cur
<1>3. Settled(req[Cur(c)])
  BY <1>1, <1>2 DEF RequestBooks, Settled, Live, Pending, SlotKept, RequestType, Reaped
<1>4. \/ \E o \in Outcome : Over(c, o)
      \/ \E why \in {"silent", "plain", "fatal"} : RetryOn(c, why)
  <2>1. CASE call[c].cause = "deadline"
    BY <2>1 DEF Closed, TimedOut, Outcome
  <2>2. CASE call[c].cause = "failed"
    BY <2>2 DEF Closed, Outcome
  <2> QED BY <2>1, <2>2, <1>1, <1>2 DEF CallerType, CallerBooks
<1> QED BY <1>1, <1>3, <1>4, Decides

\* The caller returns before closure is acknowledged, and says so.
LEMMA LeavesOpenKeeps ==
  ASSUME Inv, NEW c \in Caller, At(c, "closing"), ~Shut(Cur(c)), Over(c, "indeterminate"),
         UNCHANGED <<req, used>>
  PROVE  Inv'
<1>1. /\ call[c].pc = "closing" /\ UNCHANGED <<req, used>> /\ Over(c, "indeterminate")
      /\ req[Cur(c)].adm \notin {"cancelled", "closed"}
  BY DEF At, Shut
<1>2. /\ req[Cur(c)] \in RequestType /\ RequestBooks(req[Cur(c)]) /\ PairBooks(call[c], req[Cur(c)])
  BY <1>1, Known DEF CallerBooks, Busy, Cur
<1>3. req[Cur(c)].lease >= 0 => SlotKept(req[Cur(c)])
  BY <1>1, <1>2 DEF RequestBooks, PairBooks, SlotKept, RequestType, Reaped
<1> QED BY <1>1, <1>3, Ends DEF Outcome

LEMMA NotClosedKeeps == ASSUME Inv, NEW c \in Caller, NotClosed(c) PROVE Inv'
  BY LeavesOpenKeeps DEF NotClosed

LEMMA AwaitDaemonKeeps == ASSUME Inv, NEW c \in Caller, AwaitDaemon(c) PROVE Inv'
<1>1. call[c].pc = "polling" /\ UNCHANGED <<req, used>> /\ call[c].kind # "stream"
  BY DEF AwaitDaemon, At, Streams
<1>2. /\ call[c] \in CallerType /\ req[Cur(c)] \in RequestType
      /\ RequestBooks(req[Cur(c)]) /\ PairBooks(call[c], req[Cur(c)])
  BY <1>1, Known DEF CallerBooks, Busy, Cur
<1>3. CASE req[Cur(c)].task = "done"
  <2>1. Settled(req[Cur(c)])
    BY <1>1, <1>2, <1>3, DoneSettled DEF RequestBooks, PairBooks
  <2>2. \/ \E o \in Outcome : Over(c, o)
        \/ \E why \in {"silent", "plain", "fatal"} : RetryOn(c, why)
    BY <1>3 DEF AwaitDaemon, Answered, Outcome
  <2> QED BY <1>1, <2>1, <2>2, Decides
<1>4. CASE req[Cur(c)].task # "done"
  <2>1. Over(c, "indeterminate")
    BY <1>4 DEF AwaitDaemon
  <2>2. req[Cur(c)].lease >= 0 => SlotKept(req[Cur(c)])
    BY <1>1, <1>2, <1>4 DEF PairBooks, SlotKept, RequestType, CallerType
  <2> QED BY <1>1, <2>1, <2>2, Ends DEF Outcome
<1> QED BY <1>3, <1>4

-----------------------------------------------------------------------------
(* The caller's steps on its own request.                                  *)

\* A caller that moves on and changes nothing else of itself.
LEMMA Moved ==
  ASSUME Inv, NEW c \in Caller, NEW l \in {"admitted", "submitted", "polling"}, Cur(c) # None, Goto(c, l)
  PROVE  \E v \in CallerType :
           /\ call' = [call EXCEPT ![c] = v] /\ v.pc = l /\ v.cur = Cur(c) /\ v.kind = call[c].kind
           /\ CallerBooks(v)
<1> DEFINE v == [call[c] EXCEPT !.pc = l]
<1>1. call[c] \in CallerType
  BY Known
<1>2. call' = [call EXCEPT ![c] = v]
  BY DEF Goto, Inv, TypeOK
<1>3. v \in CallerType /\ v.pc = l /\ v.cur = Cur(c) /\ v.kind = call[c].kind
  BY <1>1 DEF CallerType, Cur
<1> HIDE DEF v
<1>4. CallerBooks(v)
  BY <1>3 DEF CallerBooks
<1> QED BY <1>2, <1>3, <1>4

LEMMA AdmitKeeps == ASSUME Inv, NEW c \in Caller, Admit(c) PROVE Inv'
<1> DEFINE a == Cur(c)
           w == [req[a] EXCEPT !.lease = Horizon(a)]
<1>1. /\ call[c].pc = "acquiring" /\ Goto(c, "admitted") /\ used' = used
      /\ Cardinality(Held(Reap(req))) < Capacity
      /\ req' = [Reap(req) EXCEPT ![a].lease = Horizon(a)]
  BY DEF Admit, At
<1>2. /\ a \in Call /\ a # None /\ req[a] \in RequestType /\ RequestBooks(req[a])
      /\ req[a].owner = c /\ PairBooks(call[c], req[a])
  BY <1>1, Known DEF CallerBooks, Busy, Cur
<1>3. Reap(req)[a] = req[a]
  BY <1>1, <1>2 DEF Reap, PairBooks, Free
<1>4. req' = [Reap(req) EXCEPT ![a] = w]
  BY <1>1, <1>2, <1>3 DEF Reap
<1>5. Horizon(a) \in 1..(Budget + Grace + Margin + 1) /\ Horizon(a) >= req[a].left
  BY <1>2, ProviderAssumption DEF Horizon, RequestType
<1>6. /\ w \in RequestType /\ w.owner = c /\ w.lease = Horizon(a) /\ w.task = req[a].task
      /\ w.kind = req[a].kind /\ w.adm = req[a].adm /\ w.handoff = req[a].handoff /\ w.kill = req[a].kill
      /\ w.socket = req[a].socket /\ w.result = req[a].result /\ w.left = req[a].left
  BY <1>2, <1>5, ProviderAssumption DEF RequestType, Reaped
<1>7. PICK v \in CallerType : /\ call' = [call EXCEPT ![c] = v] /\ v.pc = "admitted" /\ v.cur = a
                              /\ v.kind = call[c].kind /\ CallerBooks(v)
  BY <1>1, <1>2, Moved
<1> HIDE DEF w
<1>8. RequestBooks(w) /\ PairBooks(v, w)
  BY <1>1, <1>2, <1>5, <1>6, <1>7 DEF RequestBooks, PairBooks, Live, Pending, Free, Reaped
<1>9. v.pc \in Holding
  BY <1>7 DEF Holding
<1> HIDE DEF a
<1> QED BY <1>1, <1>2, <1>4, <1>6, <1>7, <1>8, <1>9, OwnStep DEF a

\* A request that was withdrawn before it was confirmed.
LEMMA AbandonedRecord ==
  ASSUME NEW q \in RequestType, RequestBooks(q), q.task \in {"none", "queued"}
  PROVE  LET w == Abandoned(q)
         IN /\ w \in RequestType /\ RequestBooks(w) /\ w.owner = q.owner /\ w.kind = q.kind
            /\ w.adm = "cancelled" /\ w.lease < 0 /\ ~Live(w) /\ w.task = q.task
            /\ w.handoff = Refuse(q.handoff) /\ w.kill = q.kill /\ w.socket = q.socket /\ w.result = q.result
<1> DEFINE w == Abandoned(q)
<1>1. /\ Released(q.lease) \in Reaped..(Budget + Grace + Margin + 1) /\ Released(q.lease) < 0
      /\ Released(q.lease) = Reaped => q.lease = Reaped
  BY ProviderAssumption DEF Released, RequestType, Reaped, Free
<1>2. Refuse(q.handoff) \in {"owned", "refused"} /\ (Refuse(q.handoff) = "owned" => q.handoff = "owned")
  BY DEF Refuse, RequestType
<1>3. Withdraw(q.adm) = "cancelled"
  BY DEF Withdraw, RequestBooks
<1>4. w = [q EXCEPT !.lease = Released(q.lease), !.handoff = Refuse(q.handoff), !.adm = "cancelled"]
  BY <1>3 DEF Abandoned
<1>5. /\ w \in RequestType /\ w.lease = Released(q.lease) /\ w.handoff = Refuse(q.handoff) /\ w.adm = "cancelled"
      /\ w.owner = q.owner /\ w.kind = q.kind /\ w.task = q.task /\ w.kill = q.kill /\ w.left = q.left
      /\ w.socket = q.socket /\ w.result = q.result
  BY <1>1, <1>2, <1>4 DEF RequestType
<1> HIDE DEF w
<1>6. RequestBooks(w) /\ ~Live(w)
  BY <1>1, <1>2, <1>5 DEF RequestBooks, Live, Pending, Reaped
<1> QED BY <1>1, <1>5, <1>6 DEF w

\* The call is over and its request was withdrawn.
LEMMA Withdraws ==
  ASSUME Inv, NEW c \in Caller, Cur(c) # None, NEW r, r = req \/ r = Reap(req),
         req[Cur(c)].task \in {"none", "queued"}, Over(c, "failed"),
         req' = [r EXCEPT ![Cur(c)] = Abandoned(r[Cur(c)])], used' = used
  PROVE  Inv'
<1> DEFINE a == Cur(c)
           v == [Idle EXCEPT !.pc = "over", !.cur = a, !.outcome = "failed"]
           w == Abandoned(r[a])
<1>1. a \in Call /\ req[a].owner = c /\ req[a] \in RequestType
  BY Known
<1>2. r[a] \in RequestType /\ RequestBooks(r[a]) /\ r[a].owner = c /\ r[a].task = req[a].task
  <2>1. /\ r \in [Call -> RequestType] /\ RequestBooks(r[a])
        /\ r[a] = req[a] \/ r[a] = [req[a] EXCEPT !.lease = Reaped]
    BY <1>1, ReapKeeps DEF Inv
  <2> QED BY <1>1, <2>1 DEF RequestType
<1>3. w \in RequestType /\ RequestBooks(w) /\ w.owner = c /\ ~Live(w) /\ ~(w.lease >= 0)
  <2>1. w \in RequestType /\ RequestBooks(w) /\ w.owner = c /\ ~Live(w) /\ w.lease < 0
    BY <1>2, AbandonedRecord
  <2> QED BY <2>1 DEF RequestType, Reaped
<1>4. v \in CallerType /\ v.cur = a /\ CallerBooks(v) /\ PairBooks(v, w)
  <2>1. a \in 0..MaxCalls
    BY <1>1, ProviderAssumption DEF Call
  <2> HIDE DEF a, w
  <2> QED BY <2>1, <1>3, OverRecord DEF Outcome
<1>5. call' = [call EXCEPT ![c] = v]
  BY DEF Over
<1> HIDE DEF a, v, w
<1> QED BY <1>1, <1>3, <1>4, <1>5, OwnStep DEF a, w

LEMMA NotAdmittedKeeps == ASSUME Inv, NEW c \in Caller, NotAdmitted(c) PROVE Inv'
<1>1. /\ call[c].pc = "acquiring" /\ Over(c, "failed") /\ used' = used
      /\ req' = [Reap(req) EXCEPT ![Cur(c)] = Abandoned(@)]
  BY DEF NotAdmitted, At
<1>2. Cur(c) # None /\ Cur(c) \in Call /\ req[Cur(c)].task = "none"
  BY <1>1, Known DEF CallerBooks, Busy, Cur, PairBooks
<1>3. req' = [Reap(req) EXCEPT ![Cur(c)] = Abandoned(Reap(req)[Cur(c)])]
  BY <1>1, <1>2 DEF Reap
<1> QED BY <1>1, <1>2, <1>3, Withdraws

LEMMA AdmittedLateKeeps == ASSUME Inv, NEW c \in Caller, AdmittedLate(c) PROVE Inv'
<1>1. /\ call[c].pc = "admitted" /\ Over(c, "failed") /\ used' = used
      /\ req' = [req EXCEPT ![Cur(c)] = Abandoned(@)]
  BY DEF AdmittedLate, At
<1>2. Cur(c) # None /\ Cur(c) \in Call /\ req[Cur(c)].task = "none"
  BY <1>1, Known DEF CallerBooks, Busy, Cur, PairBooks
<1>3. req' = [req EXCEPT ![Cur(c)] = Abandoned(req[Cur(c)])]
  BY <1>1, <1>2 DEF Inv, TypeOK
<1> QED BY <1>1, <1>2, <1>3, Withdraws

LEMMA SubmitKeeps == ASSUME Inv, NEW c \in Caller, Submit(c) PROVE Inv'
<1> DEFINE a == Cur(c)
           w == [req[a] EXCEPT !.task = "queued"]
<1>1. /\ call[c].pc = "admitted" /\ Goto(c, "submitted") /\ used' = used
      /\ req' = [req EXCEPT ![a].task = "queued"]
  BY DEF Submit, At
<1>2. /\ a \in Call /\ a # None /\ req[a] \in RequestType /\ RequestBooks(req[a])
      /\ req[a].owner = c /\ PairBooks(call[c], req[a])
  BY <1>1, Known DEF CallerBooks, Busy, Cur
<1>3. req' = [req EXCEPT ![a] = w]
  BY <1>1, <1>2 DEF Inv, TypeOK
<1>4. /\ w \in RequestType /\ w.owner = c /\ w.lease = req[a].lease /\ w.task = "queued"
      /\ w.kind = req[a].kind /\ w.adm = req[a].adm /\ w.handoff = req[a].handoff /\ w.kill = req[a].kill
      /\ w.socket = req[a].socket /\ w.result = req[a].result /\ w.left = req[a].left
  BY <1>2 DEF RequestType
<1>5. PICK v \in CallerType : /\ call' = [call EXCEPT ![c] = v] /\ v.pc = "submitted" /\ v.cur = a
                              /\ v.kind = call[c].kind /\ CallerBooks(v)
  BY <1>1, <1>2, Moved
<1> HIDE DEF w
<1>6. RequestBooks(w) /\ PairBooks(v, w)
  BY <1>1, <1>2, <1>4, <1>5 DEF RequestBooks, PairBooks, Live, Pending
<1>7. v.pc \in Holding
  BY <1>5 DEF Holding
<1> HIDE DEF a
<1> QED BY <1>1, <1>2, <1>3, <1>4, <1>5, <1>6, <1>7, OwnStep DEF a

LEMMA ConfirmKeeps == ASSUME Inv, NEW c \in Caller, Confirm(c) PROVE Inv'
<1> DEFINE a == Cur(c)
           w == [req[a] EXCEPT !.handoff = "owned"]
<1>1. /\ call[c].pc = "submitted" /\ Goto(c, "polling") /\ used' = used
      /\ req' = [req EXCEPT ![a].handoff = "owned"]
  BY DEF Confirm, At
<1>2. /\ a \in Call /\ a # None /\ req[a] \in RequestType /\ RequestBooks(req[a])
      /\ req[a].owner = c /\ PairBooks(call[c], req[a])
  BY <1>1, Known DEF CallerBooks, Busy, Cur
<1>3. req' = [req EXCEPT ![a] = w]
  BY <1>1, <1>2 DEF Inv, TypeOK
<1>4. /\ w \in RequestType /\ w.owner = c /\ w.lease = req[a].lease /\ w.task = req[a].task
      /\ w.kind = req[a].kind /\ w.adm = req[a].adm /\ w.handoff = "owned" /\ w.kill = req[a].kill
      /\ w.socket = req[a].socket /\ w.result = req[a].result /\ w.left = req[a].left
  BY <1>2 DEF RequestType
<1>5. PICK v \in CallerType : /\ call' = [call EXCEPT ![c] = v] /\ v.pc = "polling" /\ v.cur = a
                              /\ v.kind = call[c].kind /\ CallerBooks(v)
  BY <1>1, <1>2, Moved
<1> HIDE DEF w
<1>6. RequestBooks(w) /\ PairBooks(v, w)
  BY <1>1, <1>2, <1>4, <1>5 DEF RequestBooks, PairBooks, Live, Pending
<1>7. v.pc \in Holding
  BY <1>5 DEF Holding
<1> HIDE DEF a
<1> QED BY <1>1, <1>2, <1>3, <1>4, <1>5, <1>6, <1>7, OwnStep DEF a

LEMMA StartedLateKeeps == ASSUME Inv, NEW c \in Caller, StartedLate(c) PROVE Inv'
<1> DEFINE a == Cur(c)
           v == [Idle EXCEPT !.pc = "over", !.cur = a, !.outcome = "failed"]
           w == [req[a] EXCEPT !.handoff = Refuse(req[a].handoff), !.lease = Released(req[a].lease)]
<1>1. /\ call[c].pc = "submitted" /\ Over(c, "failed") /\ used' = used
      /\ req' = [req EXCEPT ![a].handoff = Refuse(@), ![a].lease = Released(@)]
  BY DEF StartedLate, At
<1>2. /\ a \in Call /\ a # None /\ req[a] \in RequestType /\ RequestBooks(req[a])
      /\ req[a].owner = c /\ PairBooks(call[c], req[a])
  BY <1>1, Known DEF CallerBooks, Busy, Cur
<1>3. req' = [req EXCEPT ![a] = w]
  BY <1>1, <1>2 DEF Inv, TypeOK, RequestType
<1>4. /\ Refuse(req[a].handoff) = "refused"
      /\ Released(req[a].lease) \in Reaped..(Budget + Grace + Margin + 1) /\ Released(req[a].lease) < 0
      /\ Released(req[a].lease) = Reaped => req[a].lease = Reaped
  BY <1>1, <1>2, ProviderAssumption DEF PairBooks, Refuse, Released, RequestType, Reaped, Free
<1>5. /\ w \in RequestType /\ w.owner = c /\ w.lease = Released(req[a].lease) /\ w.task = "queued" /\ req[a].task = "queued"
      /\ w.kind = req[a].kind /\ w.adm = req[a].adm /\ w.handoff = "refused" /\ w.kill = req[a].kill
      /\ w.socket = req[a].socket /\ w.result = req[a].result /\ w.left = req[a].left
  BY <1>1, <1>2, <1>4 DEF RequestType, PairBooks
<1> HIDE DEF w
<1>6. RequestBooks(w) /\ ~Live(w) /\ ~(w.lease >= 0)
  BY <1>2, <1>4, <1>5, ProviderAssumption DEF RequestBooks, Live, Pending, RequestType, Reaped, Free
<1>7. v \in CallerType /\ v.cur = a /\ CallerBooks(v) /\ PairBooks(v, w)
  <2>1. a \in 0..MaxCalls
    BY <1>2, ProviderAssumption DEF Call
  <2> HIDE DEF a
  <2> QED BY <2>1, <1>6, OverRecord DEF Outcome
<1>8. call' = [call EXCEPT ![c] = v]
  BY <1>1 DEF Over
<1> HIDE DEF a, v
<1> QED BY <1>1, <1>2, <1>3, <1>5, <1>6, <1>7, <1>8, OwnStep DEF a

LEMMA CutKeeps ==
  ASSUME Inv, NEW c \in Caller, NEW why \in {"deadline", "failed"}, Cut(c, why), used' = used,
         call[c].pc \in {"acquiring", "admitted", "submitted", "polling"}, Streams(c)
  PROVE  Inv'
<1> DEFINE a == Cur(c)
<1>1. /\ a \in Call /\ a # None /\ req[a] \in RequestType /\ RequestBooks(req[a])
      /\ req[a].owner = c /\ PairBooks(call[c], req[a]) /\ call[c] \in CallerType /\ CallerBooks(call[c])
  BY Known DEF CallerBooks, Busy, Cur
<1>2. CASE req[a].adm = "pending"
  <2> DEFINE v == [Idle EXCEPT !.pc = "over", !.cur = a, !.outcome = "failed"]
             u == Abandoned(req[a])
             w == [u EXCEPT !.kill = TRUE]
  <2>1. req[a].task \in {"none", "queued"}
    BY <1>1, <1>2 DEF RequestBooks, RequestType
  <2>2. /\ u \in RequestType /\ RequestBooks(u) /\ u.owner = c /\ u.adm = "cancelled" /\ u.lease < 0
        /\ ~Live(u) /\ u.task = req[a].task
    BY <1>1, <2>1, AbandonedRecord
  <2>3. /\ call' = [call EXCEPT ![c] = v]
        /\ req' = [req EXCEPT ![a] = [Abandoned(@) EXCEPT !.kill = TRUE]]
    BY <1>2 DEF Cut, Over
  <2>4. req' = [req EXCEPT ![a] = w]
    BY <2>3
  <2> HIDE DEF u
  <2>5. /\ w \in RequestType /\ w.kill = TRUE /\ w.owner = c /\ w.adm = "cancelled" /\ w.lease = u.lease
        /\ w.task = u.task /\ w.kind = u.kind /\ w.handoff = u.handoff /\ w.socket = u.socket
        /\ w.result = u.result /\ w.left = u.left
    BY <2>2 DEF RequestType
  <2> HIDE DEF w
  <2>6. RequestBooks(w) /\ ~Live(w) /\ ~(w.lease >= 0)
    BY <2>1, <2>2, <2>5 DEF RequestBooks, Live, Pending, RequestType, Reaped
  <2>7. v \in CallerType /\ v.cur = a /\ CallerBooks(v) /\ PairBooks(v, w)
    <3>1. a \in 0..MaxCalls
      BY <1>1, ProviderAssumption DEF Call
    <3> HIDE DEF a
    <3> QED BY <3>1, <2>6, OverRecord DEF Outcome
  <2> HIDE DEF v, a
  <2> QED BY <1>1, <2>3, <2>4, <2>5, <2>6, <2>7, OwnStep DEF a
<1>3. CASE req[a].adm # "pending"
  <2> DEFINE s == IF why = "deadline" THEN call[c].said ELSE "nothing"
             v == [call[c] EXCEPT !.pc = "closing", !.patience = Grace, !.cause = why, !.said = s]
             w == [req[a] EXCEPT !.kill = TRUE]
  <2>1. call[c].pc = "polling" /\ call[c].kind = "stream"
    BY <1>1, <1>3 DEF PairBooks, Streams
  <2>2. req' = [req EXCEPT ![a].kill = TRUE] /\ Closing(c, why)
    BY <1>3 DEF Cut
  <2>3. call' = [call EXCEPT ![c] = v] /\ req' = [req EXCEPT ![a] = w]
    BY <2>2, <1>1 DEF Closing, Inv, TypeOK, CallerType
  <2>s. s \in {"nothing", "byte", "semantic"} /\ Grace \in 0..Grace
    BY <1>1, ProviderAssumption DEF CallerType
  <2> HIDE DEF s
  <2>4. v \in CallerType
    <3> DEFINE u == [call[c] EXCEPT !.pc = "closing", !.patience = Grace]
    <3>1. u \in CallerType
      BY <1>1, <2>s DEF CallerType
    <3>2. v = [u EXCEPT !.cause = why, !.said = s]
      OBVIOUS
    <3> HIDE DEF u, v
    <3> QED BY <2>s, <3>1, <3>2 DEF CallerType
  <2>5. v.pc = "closing" /\ v.cur = a /\ v.kind = "stream" /\ v.cause = why
    BY <1>1, <2>1 DEF CallerType, Cur
  <2>6. /\ w \in RequestType /\ w.owner = c /\ w.lease = req[a].lease /\ w.task = req[a].task
        /\ w.kind = req[a].kind /\ w.adm = req[a].adm /\ w.handoff = req[a].handoff /\ w.kill = TRUE
        /\ w.socket = req[a].socket /\ w.result = req[a].result /\ w.left = req[a].left
    BY <1>1 DEF RequestType
  <2> HIDE DEF v, w
  <2>7. RequestBooks(w)
    BY <1>1, <1>3, <2>1, <2>6 DEF RequestBooks, PairBooks, Live, Pending
  <2>8. PairBooks(v, w) /\ CallerBooks(v)
    BY <1>1, <1>3, <2>1, <2>5, <2>6 DEF PairBooks, CallerBooks, Live, Pending, Busy
  <2>9. v.pc \in Holding
    BY <2>5 DEF Holding
  <2> HIDE DEF a
  <2> QED BY <1>1, <2>3, <2>4, <2>5, <2>6, <2>7, <2>8, <2>9, OwnStep DEF a
<1> QED BY <1>2, <1>3

LEMMA CollectUnconfirmedKeeps == ASSUME Inv, NEW c \in Caller, CollectUnconfirmed(c) PROVE Inv'
<1>1. /\ call[c].pc = "polling" /\ used' = used /\ Cut(c, "failed") /\ req[Cur(c)].result = "unconfirmed"
  BY DEF CollectUnconfirmed, At
<1>2. Streams(c)
  BY <1>1, Known DEF CallerBooks, Busy, Cur, PairBooks, RequestBooks, Streams
<1> QED BY <1>1, <1>2, CutKeeps

LEMMA CutOffKeeps == ASSUME Inv, NEW c \in Caller, CutOff(c) PROVE Inv'
  BY CutKeeps DEF CutOff, At

LEMMA GivenUpKeeps == ASSUME Inv, NEW c \in Caller, GivenUp(c) PROVE Inv'
<1>1. CASE At(c, "ready") /\ Over(c, "failed") /\ UNCHANGED req
  BY <1>1, NoAttemptKeeps DEF GivenUp, At
<1>2. CASE call[c].pc \in {"acquiring", "admitted", "submitted", "polling"} /\ Streams(c) /\ Cut(c, "failed")
  BY <1>2, CutKeeps DEF GivenUp
<1>3. CASE At(c, "closing") /\ ~Shut(Cur(c)) /\ Over(c, "indeterminate") /\ UNCHANGED req
  BY <1>3, LeavesOpenKeeps DEF GivenUp
<1> QED BY <1>1, <1>2, <1>3 DEF GivenUp

\* A new request; the old one of the caller is settled.
LEMMA AttemptKeeps == ASSUME Inv, NEW c \in Caller, Attempt(c) PROVE Inv'
<1> DEFINE n == used + 1
           v == [call[c] EXCEPT !.pc = "acquiring", !.cur = n, !.tries = call[c].tries + 1]
           w == [Unused EXCEPT !.owner = c, !.kind = call[c].kind, !.left = Budget + Grace]
<1>1. /\ call[c].pc = "ready" /\ used < MaxCalls /\ used' = n
      /\ call' = [call EXCEPT ![c].pc = "acquiring", ![c].cur = n, ![c].tries = @ + 1]
      /\ req' = [req EXCEPT ![n] = w]
  BY DEF Attempt, At
<1>2. n \in Call /\ n # None /\ used \in 0..MaxCalls
  BY <1>1, ProviderAssumption DEF Inv, TypeOK, Call, None
<1>3. call[c] \in CallerType /\ CallerBooks(call[c]) /\ call[c].tries < MaxTries
  BY <1>1, Known DEF CallerBooks
<1>4. call' = [call EXCEPT ![c] = v]
  BY <1>1, <1>3 DEF Inv, TypeOK
<1>5. v \in CallerType /\ v.pc = "acquiring" /\ v.cur = n /\ v.kind = call[c].kind
  <2>1. n \in 0..MaxCalls /\ call[c].tries + 1 \in 0..MaxTries
    BY <1>1, <1>2, <1>3, ProviderAssumption DEF CallerType
  <2> HIDE DEF n
  <2> QED BY <1>3, <2>1 DEF CallerType
<1>6. /\ Unused \in RequestType
      /\ w \in RequestType /\ w.owner = c /\ w.lease = Free /\ w.task = "none"
      /\ w.kind = call[c].kind /\ w.adm = "pending" /\ w.handoff = "undecided" /\ w.kill = FALSE
      /\ w.socket = FALSE /\ w.result = "none"
  <2>1. Unused \in RequestType
    BY ProviderAssumption DEF Unused, RequestType, Free, Reaped, Nobody
  <2>2. Budget + Grace \in 0..(Budget + Grace) /\ call[c].kind \in {"stream", "daemon"}
    BY <1>3, ProviderAssumption DEF CallerType
  <2>3. w \in RequestType
    BY <2>1, <2>2 DEF RequestType
  <2> QED BY <2>1, <2>3 DEF Unused
<1> HIDE DEF v, w
<1>7. RequestBooks(w) /\ PairBooks(v, w) /\ CallerBooks(v) /\ ~Live(w)
  BY <1>2, <1>5, <1>6 DEF RequestBooks, PairBooks, CallerBooks, Live, Pending, Busy, Free, Reaped
<1>8. /\ TypeOK' /\ call'[c] = v /\ \A d \in Caller \ {c} : call'[d] = call[d]
      /\ req'[n] = w /\ \A b \in Call \ {n} : req'[b] = req[b]
  <2>1. used' \in 0..MaxCalls
    BY <1>1, <1>2, ProviderAssumption
  <2>2. call \in [Caller -> CallerType] /\ req \in [Call -> RequestType]
    BY DEF Inv, TypeOK
  <2>3. call' \in [Caller -> CallerType] /\ call'[c] = v /\ \A d \in Caller \ {c} : call'[d] = call[d]
    BY <2>2, <1>4, <1>5
  <2> HIDE DEF n
  <2>4. req' \in [Call -> RequestType] /\ req'[n] = w /\ \A b \in Call \ {n} : req'[b] = req[b]
    BY <2>2, <1>1, <1>2, <1>6
  <2> QED BY <2>1, <2>3, <2>4 DEF TypeOK
<1>9. Unborn' /\ Requests' /\ Callers'
  <2>1. Unborn'
    BY <1>1, <1>2, <1>8 DEF Inv, Books, Unborn, Call
  <2>2. Requests' /\ Callers'
    BY <1>7, <1>8 DEF Inv, Books, Requests, Callers
  <2> QED BY <2>1, <2>2
<1>10. Pairs'
  <2> SUFFICES ASSUME NEW d \in Caller, call'[d].cur # None
      PROVE  call'[d].cur <= used' /\ req'[call'[d].cur].owner = d /\ PairBooks(call'[d], req'[call'[d].cur])
    BY DEF Pairs, Cur
  <2>1. CASE d = c
    BY <2>1, <1>1, <1>2, <1>5, <1>6, <1>7, <1>8
  <2>2. CASE d # c
    <3>1. call'[d] = call[d] /\ Cur(d) # None
      BY <2>2, <1>8 DEF Cur
    <3>2. Cur(d) \in Call /\ Cur(d) <= used /\ req[Cur(d)].owner = d /\ PairBooks(call[d], req[Cur(d)])
      BY <3>1, Known
    <3>3. Cur(d) # n /\ Cur(d) <= used'
      BY <3>2, <1>1, <1>2 DEF Call
    <3> QED BY <3>1, <3>2, <3>3, <1>8 DEF Cur
  <2> QED BY <2>1, <2>2
<1>11. Cur(c) # None => ~Live(req[Cur(c)]) /\ Cur(c) # n
  BY <1>1, <1>2, Known DEF PairBooks, Call
<1>12. Orphans'
  <2> SUFFICES ASSUME NEW b \in Call, \A d \in Caller : call'[d].cur # b, Live(req'[b])
      PROVE  FALSE
    BY DEF Orphans, Cur
  <2>1. b # n
    BY <1>5, <1>8
  <2>2. Live(req[b]) /\ \A d \in Caller \ {c} : Cur(d) # b
    BY <2>1, <1>8 DEF Cur
  <2>3. b # None
    BY ProviderAssumption DEF Call, None
  <2> QED BY <2>2, <2>3, <1>11 DEF Inv, Books, Orphans
<1>13. Slots'
  <2> SUFFICES ASSUME NEW b \in Call, req'[b].lease >= 0
      PROVE SlotKept(req'[b]) \/ \E d \in Caller : call'[d].cur = b /\ call'[d].pc \in Holding
    BY DEF Slots, Held, Cur
  <2>1. b # n
    BY <1>6, <1>8 DEF Free
  <2>2. req'[b] = req[b] /\ b \in Held(req)
    BY <2>1, <1>8 DEF Held
  <2>3. SlotKept(req[b]) \/ \E d \in Caller \ {c} : Cur(d) = b /\ call[d].pc \in Holding
    BY <2>2, <1>1 DEF Inv, Books, Slots, Holding
  <2> QED BY <2>2, <2>3, <1>8 DEF Cur
<1>14. SlotsBounded'
  <2>1. Held(req') \subseteq Held(req)
    BY <1>6, <1>8 DEF Held, Free
  <2> QED BY <2>1, HeldShrinks DEF Inv, Books, SlotsBounded
<1> QED BY <1>8, <1>9, <1>10, <1>12, <1>13, <1>14 DEF Inv, Books

-----------------------------------------------------------------------------
(* The workers.                                                            *)

\* A worker is there only for a request that was submitted.
LEMMA Submitted ==
  ASSUME Inv, NEW a \in Call, req[a].task # "none"
  PROVE  a <= used /\ req[a] \in RequestType /\ RequestBooks(req[a])
<1>1. a \in Int /\ used \in Int
  BY ProviderAssumption DEF Call, Inv, TypeOK
<1>2. ~(a > used)
  BY DEF Inv, Books, Unborn, Unused
<1> QED BY <1>1, <1>2 DEF Inv, TypeOK, Books, Requests

LEMMA RetiresKeeps == ASSUME Inv, NEW a \in Call, Retires(a) PROVE Inv'
<1> DEFINE l == IF req[a].handoff = "refused" THEN Released(req[a].lease) ELSE req[a].lease
           m == Withdraw(req[a].adm)
           w == [req[a] EXCEPT !.task = "done", !.result = "cancelled", !.adm = m, !.lease = l]
<1>1. /\ req[a].task = "queued" /\ (req[a].handoff = "refused" \/ req[a].kill) /\ UNCHANGED <<call, used>>
      /\ req' = [Wake(a, "done", "cancelled") EXCEPT ![a].adm = Withdraw(@),
                    ![a].lease = IF req[a].handoff = "refused" THEN Released(@) ELSE @]
  BY DEF Retires
<1>2. a <= used /\ req[a] \in RequestType /\ RequestBooks(req[a])
  BY <1>1, Submitted
<1>3. req' = [req EXCEPT ![a] = w]
  BY <1>1, <1>2 DEF Wake, Inv, TypeOK, RequestType
<1>4. m = "cancelled"
  BY <1>1, <1>2 DEF Withdraw, RequestBooks
<1>5. l \in Reaped..(Budget + Grace + Margin + 1) /\ l < 0 /\ (l = Reaped => req[a].lease = Reaped)
  BY <1>1, <1>2, ProviderAssumption DEF Released, RequestBooks, RequestType, Reaped, Free
<1> HIDE DEF l, m
<1>6. /\ w \in RequestType /\ w.task = "done" /\ w.result = "cancelled" /\ w.adm = "cancelled" /\ w.lease = l
      /\ w.owner = req[a].owner /\ w.kind = req[a].kind /\ w.handoff = req[a].handoff /\ w.kill = req[a].kill
      /\ w.socket = req[a].socket /\ w.left = req[a].left
  BY <1>2, <1>4, <1>5 DEF RequestType
<1> HIDE DEF w
<1>7. RequestBooks(w) /\ ~Live(w) /\ ~(w.lease >= 0)
  BY <1>1, <1>2, <1>5, <1>6 DEF RequestBooks, Live, Pending, RequestType, Reaped
<1>8. \A x \in CallerType : PairBooks(x, req[a]) => PairBooks(x, w)
  BY <1>1, <1>6, <1>7 DEF PairBooks
<1> QED BY <1>1, <1>2, <1>3, <1>6, <1>7, <1>8, WorkerStep

LEMMA WakesLateKeeps == ASSUME Inv, NEW a \in Call, WakesLate(a) PROVE Inv'
<1> DEFINE u == [req[a] EXCEPT !.task = "done", !.result = "late"]
           w == Abandoned(u)
<1>1. /\ req[a].task = "queued" /\ req[a].handoff = "owned" /\ ~req[a].kill /\ UNCHANGED <<call, used>>
      /\ req' = [Wake(a, "done", "late") EXCEPT ![a] = Abandoned(@)]
  BY DEF WakesLate, Goes
<1>2. a <= used /\ req[a] \in RequestType /\ RequestBooks(req[a])
  BY <1>1, Submitted
<1>3. req' = [req EXCEPT ![a] = w]
  BY <1>1, <1>2 DEF Wake, Inv, TypeOK, RequestType
<1> DEFINE l == Released(req[a].lease)
<1>4. l \in Reaped..(Budget + Grace + Margin + 1) /\ l < 0 /\ (l = Reaped => req[a].lease = Reaped)
  BY <1>2, ProviderAssumption DEF Released, RequestType, Reaped, Free
<1>5. Withdraw(req[a].adm) = "cancelled" /\ Refuse("owned") = "owned"
  BY <1>1, <1>2 DEF Withdraw, Refuse, RequestBooks
<1>6. /\ u \in RequestType /\ u.task = "done" /\ u.result = "late" /\ u.lease = req[a].lease
      /\ u.adm = req[a].adm /\ u.owner = req[a].owner /\ u.kind = req[a].kind /\ u.handoff = "owned"
      /\ u.kill = req[a].kill /\ u.socket = req[a].socket /\ u.left = req[a].left
  BY <1>1, <1>2 DEF RequestType
<1> HIDE DEF u, l
<1>7. w = [u EXCEPT !.lease = l, !.handoff = "owned", !.adm = "cancelled"]
  BY <1>5, <1>6 DEF Abandoned, l
<1>8. /\ w \in RequestType /\ w.task = "done" /\ w.result = "late" /\ w.lease = l /\ w.adm = "cancelled"
      /\ w.owner = req[a].owner /\ w.kind = req[a].kind /\ w.handoff = "owned"
      /\ w.kill = req[a].kill /\ w.socket = req[a].socket /\ w.left = req[a].left
  BY <1>4, <1>6, <1>7 DEF RequestType
<1> HIDE DEF w
<1>9. RequestBooks(w) /\ ~Live(w) /\ ~(w.lease >= 0)
  BY <1>1, <1>2, <1>4, <1>8 DEF RequestBooks, Live, Pending, RequestType, Reaped
<1>10. \A x \in CallerType : PairBooks(x, req[a]) => PairBooks(x, w)
  BY <1>1, <1>8, <1>9 DEF PairBooks
<1> QED BY <1>1, <1>2, <1>3, <1>8, <1>9, <1>10, WorkerStep

LEMMA OpensKeeps == ASSUME Inv, NEW a \in Call, Opens(a) PROVE Inv'
<1> DEFINE w == [req[a] EXCEPT !.task = "open", !.result = "none", !.adm = "admitted", !.socket = TRUE]
<1>1. /\ req[a].task = "queued" /\ req[a].handoff = "owned" /\ ~req[a].kill /\ req[a].adm = "pending"
      /\ UNCHANGED <<call, used>>
      /\ req' = [Wake(a, "open", "none") EXCEPT ![a].adm = "admitted", ![a].socket = TRUE]
  BY DEF Opens, Goes
<1>2. a <= used /\ req[a] \in RequestType /\ RequestBooks(req[a])
  BY <1>1, Submitted
<1>3. req' = [req EXCEPT ![a] = w]
  BY <1>1, <1>2 DEF Wake, Inv, TypeOK, RequestType
<1>4. /\ w \in RequestType /\ w.task = "open" /\ w.result = "none" /\ w.lease = req[a].lease /\ w.adm = "admitted"
      /\ w.owner = req[a].owner /\ w.kind = req[a].kind /\ w.handoff = "owned"
      /\ w.kill = req[a].kill /\ w.socket = TRUE /\ w.left = req[a].left
  BY <1>1, <1>2 DEF RequestType
<1> HIDE DEF w
<1>5. Live(req[a]) /\ SlotKept(w)
  BY <1>1, <1>4 DEF Live, Pending, SlotKept
<1>6. RequestBooks(w)
  BY <1>1, <1>2, <1>4, <1>5 DEF RequestBooks
<1>7. \A x \in CallerType : PairBooks(x, req[a]) => PairBooks(x, w)
  BY <1>1, <1>4, <1>5 DEF PairBooks
<1> QED BY <1>1, <1>2, <1>3, <1>4, <1>5, <1>6, <1>7, WorkerStep

LEMMA BodyEndsKeeps == ASSUME Inv, NEW a \in Call, BodyEnds(a) PROVE Inv'
<1> DEFINE w == [req[a] EXCEPT !.task = "unwinding"]
<1>1. /\ req[a].task = "open" /\ req[a].kind = "stream" /\ UNCHANGED <<call, used>>
      /\ req' = [req EXCEPT ![a].task = "unwinding"]
  BY DEF BodyEnds
<1>2. a <= used /\ req[a] \in RequestType /\ RequestBooks(req[a])
  BY <1>1, Submitted
<1>3. req' = [req EXCEPT ![a] = w]
  BY <1>1, <1>2 DEF Inv, TypeOK
<1>4. /\ w \in RequestType /\ w.task = "unwinding" /\ w.result = req[a].result /\ w.lease = req[a].lease
      /\ w.adm = req[a].adm /\ w.owner = req[a].owner /\ w.kind = req[a].kind /\ w.handoff = req[a].handoff
      /\ w.kill = req[a].kill /\ w.socket = req[a].socket /\ w.left = req[a].left
  BY <1>2 DEF RequestType
<1> HIDE DEF w
<1>5. SlotKept(w) /\ (Live(w) = Live(req[a]))
  BY <1>1, <1>4 DEF Live, Pending, SlotKept
<1>6. RequestBooks(w)
  BY <1>1, <1>2, <1>4, <1>5 DEF RequestBooks
<1>7. \A x \in CallerType : PairBooks(x, req[a]) => PairBooks(x, w)
  BY <1>1, <1>4, <1>5 DEF PairBooks
<1> QED BY <1>1, <1>2, <1>3, <1>4, <1>5, <1>6, <1>7, WorkerStep

LEMMA TeardownKeeps == ASSUME Inv, NEW a \in Call, Teardown(a) PROVE Inv'
<1>1. req[a].task = "unwinding" /\ UNCHANGED <<call, used>>
  BY DEF Teardown
<1>2. a <= used /\ req[a] \in RequestType /\ RequestBooks(req[a])
  BY <1>1, Submitted
<1>3. CASE req' = [req EXCEPT ![a].task = "retiring", ![a].adm = "closed", ![a].socket = FALSE]
  <2> DEFINE w == [req[a] EXCEPT !.task = "retiring", !.adm = "closed", !.socket = FALSE]
  <2>1. req' = [req EXCEPT ![a] = w]
    BY <1>2, <1>3 DEF Inv, TypeOK, RequestType
  <2>2. /\ w \in RequestType /\ w.task = "retiring" /\ w.result = req[a].result /\ w.lease = req[a].lease
        /\ w.adm = "closed" /\ w.owner = req[a].owner /\ w.kind = req[a].kind /\ w.handoff = req[a].handoff
        /\ w.kill = req[a].kill /\ w.socket = FALSE /\ w.left = req[a].left
    BY <1>2 DEF RequestType
  <2> HIDE DEF w
  <2>3. SlotKept(w) /\ ~Live(w)
    BY <2>2 DEF Live, Pending, SlotKept
  <2>4. RequestBooks(w)
    BY <1>1, <1>2, <2>2, <2>3 DEF RequestBooks
  <2>5. \A x \in CallerType : PairBooks(x, req[a]) => PairBooks(x, w)
    BY <1>1, <2>2, <2>3 DEF PairBooks
  <2> QED BY <1>1, <1>2, <2>1, <2>2, <2>3, <2>4, <2>5, WorkerStep
<1>4. CASE req' = Wake(a, "done", "unconfirmed")
  <2> DEFINE w == [req[a] EXCEPT !.task = "done", !.result = "unconfirmed"]
  <2>1. req' = [req EXCEPT ![a] = w]
    BY <1>2, <1>4 DEF Wake, Inv, TypeOK, RequestType
  <2>2. /\ w \in RequestType /\ w.task = "done" /\ w.result = "unconfirmed" /\ w.lease = req[a].lease
        /\ w.adm = req[a].adm /\ w.owner = req[a].owner /\ w.kind = req[a].kind /\ w.handoff = req[a].handoff
        /\ w.kill = req[a].kill /\ w.socket = req[a].socket /\ w.left = req[a].left
    BY <1>2 DEF RequestType
  <2> HIDE DEF w
  <2>3. SlotKept(w) /\ (Live(w) = Live(req[a]))
    BY <1>1, <2>2 DEF Live, Pending, SlotKept
  <2>4. RequestBooks(w)
    BY <1>1, <1>2, <2>2, <2>3 DEF RequestBooks
  <2>5. \A x \in CallerType : PairBooks(x, req[a]) => PairBooks(x, w)
    BY <1>1, <2>2, <2>3 DEF PairBooks
  <2> QED BY <1>1, <1>2, <2>1, <2>2, <2>3, <2>4, <2>5, WorkerStep
<1> QED BY <1>3, <1>4 DEF Teardown

LEMMA DaemonReturnsKeeps == ASSUME Inv, NEW a \in Call, DaemonReturns(a) PROVE Inv'
<1> DEFINE w == [req[a] EXCEPT !.task = "retiring", !.socket = FALSE]
<1>1. /\ req[a].task = "open" /\ UNCHANGED <<call, used>>
      /\ req' = [req EXCEPT ![a].task = "retiring", ![a].socket = FALSE]
  BY DEF DaemonReturns
<1>2. a <= used /\ req[a] \in RequestType /\ RequestBooks(req[a])
  BY <1>1, Submitted
<1>3. req' = [req EXCEPT ![a] = w]
  BY <1>1, <1>2 DEF Inv, TypeOK, RequestType
<1>4. /\ w \in RequestType /\ w.task = "retiring" /\ w.result = req[a].result /\ w.lease = req[a].lease
      /\ w.adm = req[a].adm /\ w.owner = req[a].owner /\ w.kind = req[a].kind /\ w.handoff = req[a].handoff
      /\ w.kill = req[a].kill /\ w.socket = FALSE /\ w.left = req[a].left
  BY <1>2 DEF RequestType
<1> HIDE DEF w
<1>5. SlotKept(w) /\ ~Live(w)
  BY <1>4 DEF Live, Pending, SlotKept
<1>6. RequestBooks(w)
  BY <1>1, <1>2, <1>4, <1>5 DEF RequestBooks
<1>7. \A x \in CallerType : PairBooks(x, req[a]) => PairBooks(x, w)
  BY <1>1, <1>4, <1>5 DEF PairBooks
<1> QED BY <1>1, <1>2, <1>3, <1>4, <1>5, <1>6, <1>7, WorkerStep

LEMMA GivesBackKeeps == ASSUME Inv, NEW a \in Call, GivesBack(a) PROVE Inv'
<1>1. req[a].task = "retiring" /\ UNCHANGED <<call, used>>
  BY DEF GivesBack
<1>2. a <= used /\ req[a] \in RequestType /\ RequestBooks(req[a])
  BY <1>1, Submitted
<1>3. PICK o \in {"cancelled", "answer", "error", "timeout"} :
        req' = [Wake(a, "done", o) EXCEPT ![a].lease = Released(@)]
  BY DEF GivesBack, Results
<1> DEFINE l == Released(req[a].lease)
           w == [req[a] EXCEPT !.task = "done", !.result = o, !.lease = l]
<1>4. req' = [req EXCEPT ![a] = w]
  BY <1>2, <1>3 DEF Wake, Inv, TypeOK, RequestType
<1>5. l \in Reaped..(Budget + Grace + Margin + 1) /\ l < 0 /\ (l = Reaped => req[a].lease = Reaped)
  BY <1>2, ProviderAssumption DEF Released, RequestType, Reaped, Free
<1> HIDE DEF l
<1>6. /\ w \in RequestType /\ w.task = "done" /\ w.result = o /\ w.lease = l
      /\ w.adm = req[a].adm /\ w.owner = req[a].owner /\ w.kind = req[a].kind /\ w.handoff = req[a].handoff
      /\ w.kill = req[a].kill /\ w.socket = req[a].socket /\ w.left = req[a].left
  BY <1>2, <1>5 DEF RequestType
<1> HIDE DEF w
<1>7. RequestBooks(w) /\ ~Live(w) /\ ~(w.lease >= 0)
  BY <1>1, <1>2, <1>5, <1>6 DEF RequestBooks, Live, Pending, RequestType, Reaped
<1>8. \A x \in CallerType : PairBooks(x, req[a]) => PairBooks(x, w)
  BY <1>1, <1>6, <1>7 DEF PairBooks
<1> QED BY <1>1, <1>2, <1>4, <1>6, <1>7, <1>8, WorkerStep

LEMMA SocketDiesKeeps == ASSUME Inv, NEW a \in Call, SocketDies(a) PROVE Inv'
<1> DEFINE w == [req[a] EXCEPT !.socket = FALSE]
<1>1. req[a].task = "done" /\ UNCHANGED <<call, used>> /\ req' = [req EXCEPT ![a].socket = FALSE]
      /\ req[a].socket
  BY DEF SocketDies
<1>2. a <= used /\ req[a] \in RequestType /\ RequestBooks(req[a])
  BY <1>1, Submitted
<1>3. req' = [req EXCEPT ![a] = w]
  BY <1>1, <1>2 DEF Inv, TypeOK
<1>4. /\ w \in RequestType /\ w.task = "done" /\ w.result = req[a].result /\ w.lease = req[a].lease
      /\ w.adm = req[a].adm /\ w.owner = req[a].owner /\ w.kind = req[a].kind /\ w.handoff = req[a].handoff
      /\ w.kill = req[a].kill /\ w.socket = FALSE /\ w.left = req[a].left
  BY <1>1, <1>2 DEF RequestType
<1> HIDE DEF w
<1>5. SlotKept(w) /\ ~Live(w)
  BY <1>1, <1>2, <1>4 DEF Live, Pending, SlotKept, RequestBooks
<1>6. RequestBooks(w)
  BY <1>1, <1>2, <1>4, <1>5 DEF RequestBooks
<1>7. \A x \in CallerType : PairBooks(x, req[a]) => PairBooks(x, w)
  BY <1>1, <1>4, <1>5 DEF PairBooks
<1> QED BY <1>1, <1>2, <1>3, <1>4, <1>5, <1>6, <1>7, WorkerStep

-----------------------------------------------------------------------------
(* Time passes.                                                            *)

LEMMA DownLease == ASSUME NEW m \in Nat, NEW x \in -2..m
                   PROVE  /\ Down(x) \in -2..m
                          /\ (Down(x) >= 0) = (x >= 0)
                          /\ x < 0 => Down(x) = x
  BY DEF Down

LEMMA DownCount == ASSUME NEW m \in Nat, NEW x \in 0..m PROVE Down(x) \in 0..m
  BY DEF Down

LEMMA DownOrder == ASSUME NEW x \in Int, NEW y \in Int, x >= y PROVE Down(x) >= Down(y)
  BY DEF Down

LEMMA TickKeeps == ASSUME Inv, Tick PROVE Inv'
<1>1. \A c \in Caller :
        /\ call'[c] \in CallerType /\ call'[c].pc = call[c].pc /\ call'[c].cur = call[c].cur
        /\ call'[c].kind = call[c].kind /\ call'[c].tries = call[c].tries /\ call'[c].cause = call[c].cause
        /\ call'[c].outcome = call[c].outcome
  <2> SUFFICES ASSUME NEW c \in Caller
      PROVE  /\ call'[c] \in CallerType /\ call'[c].pc = call[c].pc /\ call'[c].cur = call[c].cur
             /\ call'[c].kind = call[c].kind /\ call'[c].tries = call[c].tries /\ call'[c].cause = call[c].cause
             /\ call'[c].outcome = call[c].outcome
    OBVIOUS
  <2>1. call[c] \in CallerType /\ call'[c] = [call[c] EXCEPT !.patience = Down(call[c].patience)]
    BY DEF Tick, Inv, TypeOK
  <2>2. Down(call[c].patience) \in 0..Grace
    BY <2>1, DownCount, ProviderAssumption DEF CallerType
  <2> QED BY <2>1, <2>2 DEF CallerType
<1>2. \A a \in Call :
        /\ req'[a] \in RequestType /\ req'[a].task = req[a].task /\ req'[a].result = req[a].result
        /\ req'[a].lease = Down(req[a].lease) /\ req'[a].left = Down(req[a].left)
        /\ req'[a].adm = req[a].adm /\ req'[a].owner = req[a].owner /\ req'[a].kind = req[a].kind
        /\ req'[a].handoff = req[a].handoff /\ req'[a].kill = req[a].kill /\ req'[a].socket = req[a].socket
        /\ req[a] \in RequestType
        /\ (req'[a].lease >= 0) = (req[a].lease >= 0)
        /\ (req[a].lease < 0 => req'[a].lease = req[a].lease)
  <2> SUFFICES ASSUME NEW a \in Call
      PROVE  /\ req'[a] \in RequestType /\ req'[a].task = req[a].task /\ req'[a].result = req[a].result
             /\ req'[a].lease = Down(req[a].lease) /\ req'[a].left = Down(req[a].left)
             /\ req'[a].adm = req[a].adm /\ req'[a].owner = req[a].owner /\ req'[a].kind = req[a].kind
             /\ req'[a].handoff = req[a].handoff /\ req'[a].kill = req[a].kill /\ req'[a].socket = req[a].socket
             /\ req[a] \in RequestType
             /\ (req'[a].lease >= 0) = (req[a].lease >= 0)
             /\ (req[a].lease < 0 => req'[a].lease = req[a].lease)
    OBVIOUS
  <2>1. /\ req[a] \in RequestType
        /\ req'[a] = [req[a] EXCEPT !.left = Down(req[a].left), !.lease = Down(req[a].lease)]
    BY DEF Tick, Inv, TypeOK
  <2>2. Down(req[a].left) \in 0..(Budget + Grace)
    <3>1. Budget + Grace \in Nat /\ req[a].left \in 0..(Budget + Grace)
      BY <2>1, ProviderAssumption DEF RequestType
    <3> QED BY <3>1, DownCount
  <2>3. /\ Down(req[a].lease) \in Reaped..(Budget + Grace + Margin + 1)
        /\ (Down(req[a].lease) >= 0) = (req[a].lease >= 0)
        /\ req[a].lease < 0 => Down(req[a].lease) = req[a].lease
    <3>1. /\ Budget + Grace + Margin + 1 \in Nat
          /\ req[a].lease \in -2..(Budget + Grace + Margin + 1)
      BY <2>1, ProviderAssumption DEF RequestType, Reaped
    <3> QED BY <3>1, DownLease DEF Reaped
  <2> QED BY <2>1, <2>2, <2>3 DEF RequestType
<1>3. used' = used
  BY DEF Tick
<1>4. TypeOK'
  BY <1>1, <1>2, <1>3 DEF Tick, Inv, TypeOK
<1>5. Unborn'
  <2> SUFFICES ASSUME NEW a \in Call, a > used PROVE req'[a] = Unused
    BY <1>3 DEF Unborn
  <2>1. req[a] = Unused /\ req'[a] = [req[a] EXCEPT !.left = Down(@), !.lease = Down(@)]
    BY DEF Tick, Inv, Books, Unborn
  <2>2. Down(0) = 0 /\ Down(Free) = Free
    BY DEF Down, Free
  <2>3. Unused.left = 0 /\ Unused.lease = Free
    BY DEF Unused
  <2>4. req'[a] = [Unused EXCEPT !.left = 0, !.lease = Free]
    BY <2>1, <2>2, <2>3
  <2>5. [Unused EXCEPT !.left = 0, !.lease = Free] = Unused
    <3>1. Unused \in RequestType
      BY <2>1, <1>2
    <3> QED BY <3>1, <2>3 DEF RequestType
  <2> QED BY <2>4, <2>5
<1>6. Requests'
  <2> SUFFICES ASSUME NEW a \in Call PROVE RequestBooks(req'[a])
    BY DEF Requests
  <2>1. RequestBooks(req[a]) /\ req[a].lease \in Int /\ req[a].left \in Int
    BY <1>2, ProviderAssumption DEF Inv, Books, Requests, RequestType, Reaped
  <2>2. Live(req'[a]) = Live(req[a])
    BY <1>2 DEF Live, Pending
  <2>3. req'[a].lease >= 0 => req'[a].lease >= req'[a].left
    BY <1>2, <2>1, DownOrder DEF RequestBooks
  <2>4. req'[a].lease = Reaped => req'[a].left = 0
    BY <1>2, <2>1 DEF RequestBooks, Reaped, Down
  <2>5. Live(req'[a]) => req'[a].lease # Free
    BY <1>2, <2>1, <2>2 DEF RequestBooks, Free, Down
  <2> QED BY <1>2, <2>1, <2>3, <2>4, <2>5 DEF RequestBooks
<1>7. Callers'
  BY <1>1 DEF Inv, Books, Callers, CallerBooks
<1>8. Pairs'
  <2> SUFFICES ASSUME NEW c \in Caller, Cur(c) # None
      PROVE  Cur(c) <= used /\ req'[Cur(c)].owner = c /\ PairBooks(call'[c], req'[Cur(c)])
    BY <1>1, <1>3 DEF Pairs, Cur
  <2>1. Cur(c) \in Call /\ Cur(c) <= used /\ req[Cur(c)].owner = c /\ PairBooks(call[c], req[Cur(c)])
    BY Known
  <2>2. (req'[Cur(c)].lease = Free) = (req[Cur(c)].lease = Free) /\ Live(req'[Cur(c)]) = Live(req[Cur(c)])
    BY <2>1, <1>2 DEF Live, Pending, Free, RequestType, Reaped
  <2>3. PairBooks(call'[c], req'[Cur(c)])
    BY <1>1, <1>2, <2>1, <2>2 DEF PairBooks
  <2> QED BY <1>2, <2>1, <2>3
<1>9. Orphans'
  BY <1>1, <1>2 DEF Inv, Books, Orphans, Cur, Live, Pending
<1>10. Slots'
  BY <1>1, <1>2 DEF Inv, Books, Slots, Cur, Held, SlotKept
<1>11. SlotsBounded'
  <2>1. Held(req') \subseteq Held(req)
    BY <1>2 DEF Held
  <2> QED BY <2>1, HeldShrinks DEF Inv, Books, SlotsBounded
<1> QED BY <1>4, <1>5, <1>6, <1>7, <1>8, <1>9, <1>10, <1>11 DEF Inv, Books

-----------------------------------------------------------------------------
(* The theorems.                                                           *)

LEMMA InitInv == Init => Inv
<1> SUFFICES ASSUME Init PROVE Inv
  OBVIOUS
<1>1. /\ Idle \in CallerType /\ Unused \in RequestType
      /\ call = [c \in Caller |-> Idle] /\ req = [a \in Call |-> Unused] /\ used = 0
  BY ProviderAssumption DEF Init, Idle, Unused, CallerType, RequestType, None, Free, Reaped, Nobody
<1>2. TypeOK
  BY <1>1, ProviderAssumption DEF TypeOK
<1>3. Unborn /\ Requests /\ Callers /\ Pairs /\ Orphans
  BY <1>1, ProviderAssumption DEF Unborn, Requests, Callers, Pairs, Orphans, RequestBooks, CallerBooks,
     Idle, Unused, Cur, Live, Pending, None, Free, Reaped, Busy
<1>4. Held(req) = {}
  BY <1>1 DEF Held, Unused, Free
<1>5. Slots /\ SlotsBounded
  BY <1>4, FS_EmptySet, ProviderAssumption DEF Slots, SlotsBounded
<1> QED BY <1>2, <1>3, <1>5 DEF Inv, Books

LEMMA NextInv == Inv /\ [Next]_vars => Inv'
<1> SUFFICES ASSUME Inv, [Next]_vars PROVE Inv'
  OBVIOUS
<1>1. ASSUME NEW c \in Caller, Begin(c) \/ GivenUp(c) \/ Says(c) PROVE Inv'
  BY <1>1, BeginKeeps, GivenUpKeeps, SaysKeeps
<1>2. ASSUME NEW c \in Caller, Advances(c) PROVE Inv'
  <2>1. CASE NoAttempt(c)
    BY <2>1, NoAttemptKeeps DEF NoAttempt, At
  <2> QED
    BY <1>2, <2>1, AttemptKeeps, AdmitKeeps, NotAdmittedKeeps, AdmittedLateKeeps, SubmitKeeps, ConfirmKeeps,
       StartedLateKeeps, CutOffKeeps, CollectKeeps, CollectUnconfirmedKeeps, ClosedKeeps, NotClosedKeeps,
       AwaitDaemonKeeps DEF Advances
<1>3. ASSUME NEW a \in Call, Worker(a) PROVE Inv'
  BY <1>3, RetiresKeeps, WakesLateKeeps, OpensKeeps, BodyEndsKeeps, TeardownKeeps, DaemonReturnsKeeps,
     GivesBackKeeps, SocketDiesKeeps DEF Worker
<1>4. CASE UNCHANGED vars
  BY <1>4 DEF vars, Inv, TypeOK, Books, Unborn, Requests, Callers, Pairs, Orphans, Slots, SlotsBounded, Cur
<1> QED BY <1>1, <1>2, <1>3, <1>4, TickKeeps DEF Next

\* Every caller and every request keeps its type; so do countdowns and counters.
THEOREM ProviderTypes == Spec => []TypeOK
<1>1. Inv => TypeOK
  BY DEF Inv
<1> QED BY InitInv, NextInv, <1>1, PTL DEF Spec

LEMMA InvReturns == Inv => ReturnMeansClosed
<1> SUFFICES ASSUME Inv, NEW a \in Call, NEW c \in Caller, req[a].socket, req[a].owner = c
    PROVE  /\ Cur(c) = a
           /\ \/ call[c].pc \in {"polling", "closing"}
              \/ At(c, "over") /\ call[c].outcome = "indeterminate"
  BY DEF ReturnMeansClosed
<1>1. Live(req[a]) /\ a # None
  BY ProviderAssumption DEF Live, Call, None
<1>2. PICK d \in Caller : Cur(d) = a
  BY <1>1 DEF Inv, Books, Orphans
<1>3. req[a].owner = d /\ PairBooks(call[d], req[a])
  BY <1>1, <1>2 DEF Inv, Books, Pairs
<1> QED BY <1>1, <1>2, <1>3 DEF PairBooks, At

\* When a logical call returns anything but "indeterminate", nothing of it is
\* live, and it never has two live requests: for any number of callers, slots
\* and attempts, and any delays.
THEOREM CallsClose == Spec => []ReturnMeansClosed
  BY InitInv, NextInv, InvReturns, PTL DEF Spec

LEMMA InvCeiling == Inv => Ceiling
<1> SUFFICES ASSUME Inv, NEW a \in Call, req[a].socket
    PROVE  req[a].lease >= 0 \/ (req[a].lease = Reaped /\ req[a].left = 0)
  BY DEF Ceiling, Inv, Books, SlotsBounded
<1>1. RequestBooks(req[a]) /\ req[a] \in RequestType
  BY DEF Inv, TypeOK, Books, Requests
<1> QED BY <1>1, ProviderAssumption DEF RequestBooks, Live, RequestType, Free, Reaped

\* The gate's slots are never oversubscribed, and a request outlives its slot
\* only behind its own deadline.
THEOREM GateBounds == Spec => []Ceiling
  BY InitInv, NextInv, InvCeiling, PTL DEF Spec

LEMMA InvSlots == Inv => NoSlotLost
  BY DEF Inv, Books, Slots, NoSlotLost, SlotKept, Holding

\* No slot is held for ever by nobody: who holds it will give it back, or has
\* reported that it cannot.
THEOREM SlotsComeBack == Spec => []NoSlotLost
  BY InitInv, NextInv, InvSlots, PTL DEF Spec
=============================================================================
