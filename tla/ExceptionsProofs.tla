-------------------------- MODULE ExceptionsProofs --------------------------
(***************************************************************************)
(* Episodes, for any number of shipments and workers, any journals and     *)
(* policies: they are well formed and in order whoever evaluates and       *)
(* however the clocks are set, a committed evaluation leaves open exactly  *)
(* what is overdue, and what is closed stays as it was.                    *)
(***************************************************************************)
EXTENDS ExceptionsProperties, SequenceTheorems, FiniteSetTheorems, TLAPS

\* Episodes of which the last assessment was made at that time.
Ordered(e, at) ==
    /\ e.cond.due <= e.first /\ e.first <= e.last /\ at # NoTime /\ e.last <= at
    /\ ~IsOpen(e) => e.last <= e.resolved /\ e.resolved <= at
    /\ IsOpen(e) <=> e.resolution = "none"

Sound(rows, at) ==
    /\ rows \in Seq(Episode) /\ OnePerKind(rows)
    /\ \A i \in 1..Len(rows) : Ordered(rows[i], at)

Local == [now : Time, before : 0..MaxBlock, plans : [Shipments -> Plan], rows : Seq(Episode)]

WorldOK ==
    /\ clock \in Time /\ edits \in 0..MaxEdits /\ cursor \in 0..MaxBlock
    /\ journal \in [Shipments -> Journals] /\ plan \in [Shipments -> Plan]
    /\ policy \in [Shipments -> [values : Policies, revision : 0..MaxEdits]]
    /\ \A s \in Shipments : policy[s].revision <= edits
    /\ health \in [Workers -> 0..MaxBlock \cup {Paused}]

LocksOK ==
    /\ pc \in [Workers -> {"idle", "lock", "recheck", "commit"}] /\ local \in [Workers -> Local]
    /\ holder \in Workers \cup {NoWorker}
    /\ \A w \in Workers : pc[w] \in {"recheck", "commit"} <=> holder = w

EpisodesOK ==
    /\ evaluated \in [at : Time \cup {NoTime}, block : 0..MaxBlock]
    /\ Sound(episodes, evaluated.at)

\* What the holder of the lock is about to write is what an evaluation gives
\* now, with the plans it read: journal, policies and episodes stand still.
HeldOK ==
    \A w \in Workers : holder = w =>
        /\ local[w].rows = Evaluated(local[w].plans, local[w].now)
        /\ ClockAdvanced(local[w].now)

\* The inductive invariant.
ExceptionsIInv == WorldOK /\ LocksOK /\ EpisodesOK /\ HeldOK

----------------------------------------------------------------------------
(* Lemmas about data.                                                      *)

\* The constants' assumptions that every step needs.
LEMMA Numbers ==
    /\ IsFiniteSet(Shipments)
    /\ MaxTime \in Nat /\ MaxBlock \in Nat /\ MaxEdits \in Nat
    /\ DefaultPolicy \in Policies
    /\ Off \notin Nat /\ NoTime \notin Nat /\ Paused \notin Nat /\ NoWorker \notin Workers
BY ExceptionsAssumption

\* SetToSeq lists every element of a finite set once.
LEMMA Listed ==
    ASSUME NEW S, IsFiniteSet(S)
    PROVE  /\ SetToSeq(S) \in Seq(S)
           /\ \A i, j \in 1..Len(SetToSeq(S)) : SetToSeq(S)[i] = SetToSeq(S)[j] => i = j
           /\ \A x \in S : \E i \in 1..Len(SetToSeq(S)) : SetToSeq(S)[i] = x
<1> DEFINE n == Cardinality(S)
           q == SetToSeq(S)
<1>1. n \in Nat /\ ExistsBijection(1..n, S)
  BY FS_CardinalityType
<1>2. \E f \in [1..n -> S] : IsInjective(f)
  BY <1>1 DEF ExistsBijection, Bijection, Injection
<1>3. q \in [1..n -> S] /\ IsInjective(q)
  BY <1>2 DEF SetToSeq
<1> HIDE DEF q
<1>4. q \in Injection(1..n, S)
  BY <1>3 DEF Injection
<1>5. Cardinality(1..n) = n
  BY <1>1, FS_Interval
<1>6. q \in Surjection(1..n, S)
  BY <1>4, <1>5, FS_Injection
<1>7. q \in Seq(S) /\ Len(q) = n
  BY <1>1, <1>3
<1>8. \A i, j \in 1..n : q[i] = q[j] => i = j
  BY <1>3 DEF IsInjective
<1>9. \A x \in S : \E i \in 1..n : q[i] = x
  BY <1>6 DEF Surjection
<1>10. QED
  BY <1>7, <1>8, <1>9 DEF q

\* The rules: each names one log of the journal at most, and each kind of
\* condition comes from one rule.
LEMMA Rules ==
    ASSUME NEW J \in Journals, NEW p \in Policies, NEW planned \in Plan
    PROVE  /\ Arrival(J, p, planned) \cup Activity(J, p) \cup Custody(J, p) \subseteq Condition
           /\ \A c \in Arrival(J, p, planned) :
                 c.kind = "arrival_overdue" /\ \A d \in Arrival(J, p, planned) : d = c
           /\ \A c \in Activity(J, p) :
                 c.kind \in {"checkpoint_wait", "checkpoint_inactivity"} /\ \A d \in Activity(J, p) : d = c
           /\ \A c \in Custody(J, p) :
                 c.kind = "custody_followup" /\ \A d \in Custody(J, p) : d = c
<1> DEFINE A == {e.occ : e \in UNION {Range(K) : K \in Journals}}
<1>1. \A i \in DOMAIN J : J[i].occ \in A
  BY DEF Range
<1>2. /\ \A i \in Checkpoints(J) : J[i].time \in Nat
      /\ \A i \in Transfers(J) : J[i].time \in Nat
  BY ExceptionsAssumption DEF Checkpoints, IsCheckpoint, Transfers, Timed
<1>3. /\ p.inactivity \in Nat \cup {Off} /\ p.checkpoint \in Nat \cup {Off}
      /\ p.custody \in Nat \cup {Off}
  BY ExceptionsAssumption
<1> HIDE DEF A
<1>4. ASSUME NEW kind \in Kinds, NEW i \in DOMAIN J, NEW threshold \in Nat \cup {Off}, NEW due \in Nat
      PROVE  /\ Overdue(kind, J[i], threshold, due) \in Condition
             /\ Overdue(kind, J[i], threshold, due).kind = kind
  BY <1>1 DEF Overdue, Condition, A
<1>5. ASSUME NEW c \in Arrival(J, p, planned)
      PROVE  /\ c \in Condition /\ c.kind = "arrival_overdue"
             /\ c = Overdue("arrival_overdue", J[Min(Departures(J))], Off, planned.at)
  <2>1. PICK i \in Departures(J) : /\ i = Min(Departures(J)) /\ planned # NoPlan
                                   /\ c = Overdue("arrival_overdue", J[i], Off, planned.at)
    BY DEF Arrival
  <2>2. i \in DOMAIN J
    BY DEF Departures, Checkpoints
  <2>3. planned.at \in Nat
    BY <2>1 DEF Plan
  <2>4. "arrival_overdue" \in Kinds /\ Off \in Nat \cup {Off}
    BY DEF Kinds
  <2>5. QED
    BY <1>4, <2>1, <2>2, <2>3, <2>4
<1>6. ASSUME NEW c \in Activity(J, p)
      PROVE  LET i == Max(Checkpoints(J)) IN
             /\ c \in Condition /\ c.kind \in {"checkpoint_wait", "checkpoint_inactivity"}
             /\ c = Overdue(IF J[i].status = 2 THEN "checkpoint_wait" ELSE "checkpoint_inactivity",
                            J[i], Limit(J[i], p), J[i].time + Limit(J[i], p))
  <2>1. PICK i \in Checkpoints(J) :
           /\ i = Max(Checkpoints(J)) /\ Limit(J[i], p) # Off
           /\ c = Overdue(IF J[i].status = 2 THEN "checkpoint_wait" ELSE "checkpoint_inactivity",
                          J[i], Limit(J[i], p), J[i].time + Limit(J[i], p))
    BY DEF Activity
  <2>2. i \in DOMAIN J /\ J[i].time \in Nat
    BY <1>2 DEF Checkpoints
  <2>3. Limit(J[i], p) \in Nat
    BY <1>3, <2>1 DEF Limit
  <2>4. J[i].time + Limit(J[i], p) \in Nat
    BY <2>2, <2>3
  <2> DEFINE kind == IF J[i].status = 2 THEN "checkpoint_wait" ELSE "checkpoint_inactivity"
  <2>5. kind \in Kinds /\ kind \in {"checkpoint_wait", "checkpoint_inactivity"}
    BY DEF Kinds
  <2> HIDE DEF kind
  <2>6. c = Overdue(kind, J[i], Limit(J[i], p), J[i].time + Limit(J[i], p))
    BY <2>1 DEF kind
  <2>7. c \in Condition /\ c.kind = kind
    BY <1>4, <2>2, <2>3, <2>4, <2>5, <2>6
  <2>8. QED
    BY <2>1, <2>5, <2>7
<1>7. ASSUME NEW c \in Custody(J, p)
      PROVE  LET i == Max(Transfers(J)) IN
             /\ c \in Condition /\ c.kind = "custody_followup"
             /\ c = Overdue("custody_followup", J[i], p.custody, J[i].time + p.custody)
  <2>1. PICK i \in Transfers(J) :
           /\ i = Max(Transfers(J)) /\ p.custody # Off
           /\ c = Overdue("custody_followup", J[i], p.custody, J[i].time + p.custody)
    BY DEF Custody
  <2>2. i \in DOMAIN J /\ J[i].time + p.custody \in Nat /\ p.custody \in Nat
    BY <1>2, <1>3, <2>1 DEF Transfers
  <2>3. QED
    BY <1>4, <2>1, <2>2 DEF Kinds
<1>8. Arrival(J, p, planned) \cup Activity(J, p) \cup Custody(J, p) \subseteq Condition
  BY <1>5, <1>6, <1>7
<1>9. QED
  BY <1>5, <1>6, <1>7, <1>8
\* What is overdue: typed, one of a kind, past its time, and finite.
LEMMA ConditionsTyped ==
    ASSUME NEW J \in Journals, NEW p \in Policies, NEW planned \in Plan, NEW now \in Time
    PROVE  LET C == conditions(J, p, planned, now) IN
           /\ C \subseteq Condition /\ IsFiniteSet(C)
           /\ \A c \in C : c.due <= now
           /\ \A c, d \in C : c.kind = d.kind => c = d
<1> DEFINE C == conditions(J, p, planned, now)
<1>1. C \subseteq Arrival(J, p, planned) \cup Activity(J, p) \cup Custody(J, p)
      /\ \A c \in C : c.due <= now
  BY DEF conditions
<1>2. \A c, d \in C : c.kind = d.kind => c = d
  BY <1>1, Rules
<1>3. IsFiniteSet(C)
  <2> DEFINE F == {c.kind : c \in C}
  <2>1. F \subseteq Kinds
    BY <1>1, Rules DEF Condition
  <2>2. IsFiniteSet(Kinds)
    <3>1. IsFiniteSet({"arrival_overdue"} \cup {"checkpoint_inactivity"})
      BY FS_Singleton, FS_AddElement
    <3>2. IsFiniteSet(({"arrival_overdue"} \cup {"checkpoint_inactivity"}) \cup {"checkpoint_wait"})
      BY <3>1, FS_AddElement
    <3>3. IsFiniteSet((({"arrival_overdue"} \cup {"checkpoint_inactivity"}) \cup {"checkpoint_wait"})
                      \cup {"custody_followup"})
      BY <3>2, FS_AddElement
    <3>4. Kinds = (({"arrival_overdue"} \cup {"checkpoint_inactivity"}) \cup {"checkpoint_wait"})
                  \cup {"custody_followup"}
      BY DEF Kinds
    <3>5. QED
      BY <3>3, <3>4
  <2>3. IsFiniteSet(F)
    BY <2>1, <2>2, FS_Subset
  <2> DEFINE g == [k \in F |-> CHOOSE c \in C : c.kind = k]
  <2>4. \A k \in F : g[k] \in C /\ g[k].kind = k
    OBVIOUS
  <2>5. \A c \in C : c.kind \in F /\ g[c.kind] = c
    BY <1>2, <2>4
  <2>6. g \in [F -> C]
    BY <2>4
  <2> HIDE DEF F, g
  <2>7. g \in Surjection(F, C)
    BY <2>5, <2>6 DEF Surjection
  <2>8. QED
    BY <2>3, <2>7, FS_Surjection
<1>4. C \subseteq Condition
  BY <1>1, Rules
<1>5. QED
  BY <1>1, <1>2, <1>3, <1>4

----------------------------------------------------------------------------
(* What an evaluation writes.                                              *)

\* An assessment: what was read of the world, and when.
Assessed(plans, now) ==
    /\ plans \in [Shipments -> Plan] /\ now \in Time /\ ClockAdvanced(now)

\* The conditions that are expected of the shipments that are certain.
LEMMA ExpectedTyped ==
    ASSUME ExceptionsIInv, NEW plans, NEW now, Assessed(plans, now)
    PROVE  LET X == Expected(plans, now) IN
           /\ X = [s \in DOMAIN X |-> X[s]] /\ DOMAIN X = Shipments \ UncertainAt(now)
           /\ DOMAIN X \subseteq Shipments
           /\ \A s \in DOMAIN X :
                 /\ X[s] = conditions(journal[s], policy[s].values, plans[s], now)
                 /\ X[s] \subseteq Condition /\ IsFiniteSet(X[s])
                 /\ \A c \in X[s] : c.due <= now
                 /\ \A c, d \in X[s] : c.kind = d.kind => c = d
           /\ IsFiniteSet(Opened(X))
<1> DEFINE X == Expected(plans, now)
<1>1. /\ X = [s \in DOMAIN X |-> X[s]] /\ DOMAIN X = Shipments \ UncertainAt(now)
      /\ DOMAIN X \subseteq Shipments
      /\ \A s \in DOMAIN X : X[s] = conditions(journal[s], policy[s].values, plans[s], now)
  BY DEF Expected
<1> HIDE DEF X
<1>2. ASSUME NEW s \in DOMAIN X
      PROVE  /\ X[s] \subseteq Condition /\ IsFiniteSet(X[s])
             /\ \A c \in X[s] : c.due <= now
             /\ \A c, d \in X[s] : c.kind = d.kind => c = d
  <2>1. journal[s] \in Journals /\ policy[s].values \in Policies /\ plans[s] \in Plan /\ now \in Time
    BY <1>1 DEF ExceptionsIInv, WorldOK, Assessed
  <2>2. QED
    BY <1>1, <2>1, ConditionsTyped
<1>3. IsFiniteSet(Opened(X))
  <2>1. IsFiniteSet(DOMAIN X)
    BY <1>1, Numbers, FS_Subset
  <2>2. X \in Surjection(DOMAIN X, Range(X))
    BY <1>1 DEF Surjection, Range
  <2>3. IsFiniteSet(Range(X)) /\ \A C \in Range(X) : IsFiniteSet(C)
    BY <1>2, <2>1, <2>2, FS_Surjection DEF Range
  <2>4. IsFiniteSet((DOMAIN X) \X UNION Range(X))
    BY <2>1, <2>3, FS_UNION, FS_Product
  <2>5. Opened(X) \subseteq (DOMAIN X) \X UNION Range(X)
    BY DEF Opened
  <2>6. QED
    BY <2>4, <2>5, FS_Subset
<1>4. QED
  BY <1>1, <1>2, <1>3 DEF X

\* An open episode stays open exactly when its condition is still expected.
LEMMA SettledEpisode ==
    ASSUME NEW e \in Episode, NEW J, NEW X, NEW now \in Time, IsOpen(e)
    PROVE  LET f == Settled(e, X, J, now) IN
           /\ f \in Episode /\ f.shipment = e.shipment /\ f.cond = e.cond
           /\ f.first = e.first /\ f.last \in {e.last, now} /\ f.acknowledged = e.acknowledged
           /\ e.cond \in X => IsOpen(f) /\ f.resolution = e.resolution
           /\ e.cond \notin X => f.resolved = now /\ f.last = e.last /\ f.resolution # "none"
           /\ f.resolution = "evidence_withdrawn" =>
                 e.cond.anchor \notin Occurrences(J) \/ f.resolution = e.resolution
           /\ f.resolution = "condition_cleared" =>
                 e.cond.anchor \in Occurrences(J) \/ f.resolution = e.resolution
<1>1. CASE e.cond \in X
  BY <1>1 DEF Settled, Episode, IsOpen
<1>2. CASE e.cond \notin X /\ \E c \in X : c.kind = e.cond.kind
  BY <1>2 DEF Settled, Episode, IsOpen, Resolutions
<1>3. CASE e.cond \notin X /\ ~\E c \in X : c.kind = e.cond.kind
  <2> DEFINE how == IF e.cond.anchor \in Occurrences(J) THEN "condition_cleared" ELSE "evidence_withdrawn"
             f == [e EXCEPT !.resolved = now, !.resolution = how]
  <2>1. Settled(e, X, J, now) = f
    BY <1>3 DEF Settled
  <2>2. how \in Resolutions /\ how # "none"
    BY DEF Resolutions
  <2>3. how = "evidence_withdrawn" <=> e.cond.anchor \notin Occurrences(J)
    OBVIOUS
  <2>4. how = "condition_cleared" <=> e.cond.anchor \in Occurrences(J)
    OBVIOUS
  <2> HIDE DEF how
  <2>5. QED
    BY <1>3, <2>1, <2>2, <2>3, <2>4 DEF Episode
<1>4. QED
  BY <1>1, <1>2, <1>3

\* An episode through an evaluation.
LEMMA CarriedEpisode ==
    ASSUME ExceptionsIInv, NEW plans, NEW now, Assessed(plans, now), NEW e \in Episode,
           Ordered(e, evaluated.at)
    PROVE  LET X == Expected(plans, now)
               f == Carried(e, X, now) IN
           /\ f \in Episode /\ f.shipment = e.shipment /\ f.cond = e.cond
           /\ f.acknowledged = e.acknowledged
           /\ Ordered(f, now)
           /\ IsOpen(f) <=> /\ IsOpen(e)
                            /\ e.shipment \in DOMAIN X => e.cond \in X[e.shipment]
           /\ ~IsOpen(e) => f = e
           /\ IsOpen(e) /\ ~IsOpen(f) =>
                 /\ f.resolution = "evidence_withdrawn" =>
                       e.cond.anchor \notin Occurrences(journal[e.shipment])
                 /\ f.resolution = "condition_cleared" =>
                       e.cond.anchor \in Occurrences(journal[e.shipment])
<1> DEFINE X == Expected(plans, now)
           f == Carried(e, X, now)
<1> HIDE DEF X
<1>1. /\ now \in Nat /\ now \in Time /\ now # NoTime /\ e.last \in Nat /\ e.first \in Nat
      /\ evaluated.at \in Nat /\ evaluated.at <= now /\ e.cond.due \in Nat
      /\ e.resolved \in Nat \cup {NoTime}
  BY Numbers DEF Assessed, Time, Episode, Condition, ExceptionsIInv, EpisodesOK, Ordered, ClockAdvanced
<1>2. CASE ~(IsOpen(e) /\ e.shipment \in DOMAIN X)
  <2>1. f = e
    BY <1>2 DEF Carried
  <2>2. Ordered(e, now)
    BY <1>1 DEF Ordered, IsOpen
  <2> HIDE DEF f
  <2>3. QED
    BY <1>2, <2>1, <2>2 DEF f, X
<1>3. CASE IsOpen(e) /\ e.shipment \in DOMAIN X
  <2> DEFINE J == journal[e.shipment]
  <2>1. f = Settled(e, X[e.shipment], J, now)
    BY <1>3 DEF Carried
  <2> HIDE DEF f, J
  <2>2. /\ f \in Episode /\ f.shipment = e.shipment /\ f.cond = e.cond
        /\ f.first = e.first /\ f.last \in {e.last, now} /\ f.acknowledged = e.acknowledged
        /\ e.cond \in X[e.shipment] => IsOpen(f) /\ f.resolution = e.resolution
        /\ e.cond \notin X[e.shipment] => f.resolved = now /\ f.last = e.last /\ f.resolution # "none"
        /\ f.resolution = "evidence_withdrawn" =>
              e.cond.anchor \notin Occurrences(J) \/ f.resolution = e.resolution
        /\ f.resolution = "condition_cleared" =>
              e.cond.anchor \in Occurrences(J) \/ f.resolution = e.resolution
    BY <1>1, <1>3, <2>1, SettledEpisode
  <2>3. e.resolution = "none"
    BY <1>3 DEF Ordered
  <2>4. IsOpen(f) <=> e.cond \in X[e.shipment]
    BY <1>1, <2>2 DEF IsOpen
  <2>5. Ordered(f, now)
    BY <1>1, <1>3, <2>2, <2>3, <2>4 DEF Ordered, IsOpen
  <2>6. QED
    BY <1>3, <2>2, <2>3, <2>4, <2>5 DEF f, J, X
<1>4. QED
  BY <1>2, <1>3

\* The rows of an evaluation are those there were, carried on, and one more
\* for every condition that had no open episode.
LEMMA EvaluatedRows ==
    ASSUME ExceptionsIInv, NEW plans, NEW now, Assessed(plans, now)
    PROVE  LET X == Expected(plans, now)
               rows == Evaluated(plans, now)
               n == Len(episodes) IN
           /\ rows \in Seq(Episode) /\ n \in Nat /\ Len(rows) \in Nat /\ n <= Len(rows)
           /\ \A i \in 1..n : rows[i] = Carried(episodes[i], X, now)
           /\ \A i \in (n + 1)..Len(rows) : \E o \in Opened(X) : rows[i] = NewEpisode(o[1], o[2], now)
           /\ \A o \in Opened(X) : \E i \in (n + 1)..Len(rows) : rows[i] = NewEpisode(o[1], o[2], now)
           /\ \A i, j \in (n + 1)..Len(rows) : rows[i] = rows[j] => i = j
<1> DEFINE X == Expected(plans, now)
           n == Len(episodes)
           S == {NewEpisode(o[1], o[2], now) : o \in Opened(X)}
           old == [i \in DOMAIN episodes |-> Carried(episodes[i], X, now)]
           new == SetToSeq(S)
           rows == old \o new
<1>1. episodes \in Seq(Episode) /\ n \in Nat /\ DOMAIN episodes = 1..n
  BY DEF ExceptionsIInv, EpisodesOK, Sound
<1>2. old \in Seq(Episode) /\ Len(old) = n /\ \A i \in 1..n : old[i] = Carried(episodes[i], X, now)
  <2>1. \A i \in 1..n : Carried(episodes[i], X, now) \in Episode
    BY <1>1, CarriedEpisode DEF ExceptionsIInv, EpisodesOK, Sound
  <2>2. old \in [1..n -> Episode]
    BY <1>1, <2>1
  <2>3. QED
    BY <1>1, <2>2
<1>3. IsFiniteSet(S)
  <2> DEFINE g == [o \in Opened(X) |-> NewEpisode(o[1], o[2], now)]
  <2>1. g \in Surjection(Opened(X), S)
    BY DEF Surjection
  <2>2. IsFiniteSet(Opened(X))
    BY ExpectedTyped
  <2> HIDE DEF g, S
  <2>3. QED
    BY <2>1, <2>2, FS_Surjection
<1>4. S \subseteq Episode
  <2>1. ASSUME NEW o \in Opened(X) PROVE o[1] \in Shipments /\ o[2] \in Condition
    BY <2>1, ExpectedTyped DEF Opened
  <2>2. now \in Time
    BY DEF Assessed
  <2>3. QED
    BY <2>1, <2>2 DEF NewEpisode, Episode
<1> HIDE DEF old, S
<1>5. /\ new \in Seq(S) /\ \A i, j \in 1..Len(new) : new[i] = new[j] => i = j
      /\ \A x \in S : \E i \in 1..Len(new) : new[i] = x
  BY <1>3, Listed
<1> HIDE DEF new
<1>6. new \in Seq(Episode) /\ Len(new) \in Nat /\ \A i \in 1..Len(new) : new[i] \in S
  BY <1>4, <1>5
<1>7. /\ rows \in Seq(Episode) /\ Len(rows) = n + Len(new)
      /\ \A i \in 1..(n + Len(new)) : rows[i] = IF i <= n THEN old[i] ELSE new[i - n]
  <2>1. /\ old \o new \in Seq(Episode) /\ Len(old \o new) = Len(old) + Len(new)
        /\ \A i \in 1..(Len(old) + Len(new)) :
              (old \o new)[i] = IF i <= Len(old) THEN old[i] ELSE new[i - Len(old)]
    BY <1>2, <1>6, ConcatProperties
  <2>2. QED
    BY <1>2, <2>1
<1> HIDE DEF rows, n, X
<1>8. \A i \in 1..n : rows[i] = Carried(episodes[i], X, now)
  BY <1>1, <1>2, <1>6, <1>7
<1>9. \A i \in (n + 1)..Len(rows) : i - n \in 1..Len(new) /\ rows[i] = new[i - n]
  BY <1>1, <1>6, <1>7
<1>10. \A i \in (n + 1)..Len(rows) : \E o \in Opened(X) : rows[i] = NewEpisode(o[1], o[2], now)
  BY <1>6, <1>9 DEF S
<1>11. \A o \in Opened(X) : \E i \in (n + 1)..Len(rows) : rows[i] = NewEpisode(o[1], o[2], now)
  <2>1. SUFFICES ASSUME NEW o \in Opened(X)
                 PROVE  \E i \in (n + 1)..Len(rows) : rows[i] = NewEpisode(o[1], o[2], now)
    OBVIOUS
  <2>2. PICK k \in 1..Len(new) : new[k] = NewEpisode(o[1], o[2], now)
    BY <1>5 DEF S
  <2>3. k + n \in (n + 1)..Len(rows) /\ (k + n) - n = k
    BY <1>1, <1>6, <1>7
  <2>4. QED
    BY <1>9, <2>2, <2>3
<1>12. n <= Len(rows) /\ Len(rows) \in Nat
  BY <1>1, <1>6, <1>7
<1>13. \A i, j \in (n + 1)..Len(rows) : rows[i] = rows[j] => i = j
  <2>1. SUFFICES ASSUME NEW i \in (n + 1)..Len(rows), NEW j \in (n + 1)..Len(rows), rows[i] = rows[j]
                 PROVE  i = j
    OBVIOUS
  <2>2. i - n = j - n
    <3>1. /\ i - n \in 1..Len(new) /\ j - n \in 1..Len(new)
          /\ new[i - n] = new[j - n]
      BY <1>9, <2>1
    <3>2. QED
      BY <1>5, <3>1
  <2>3. QED
    BY <1>1, <1>12, <2>2
<1>14. rows = Evaluated(plans, now)
  BY DEF rows, old, new, S, X, Evaluated
<1>15. QED
  BY <1>1, <1>7, <1>8, <1>10, <1>11, <1>12, <1>13, <1>14 DEF n, X

\* A new episode is of a shipment that is certain, of a condition that is
\* expected of it, and in order.
LEMMA OpenedEpisode ==
    ASSUME ExceptionsIInv, NEW plans, NEW now, Assessed(plans, now),
           NEW o \in Opened(Expected(plans, now))
    PROVE  LET X == Expected(plans, now)
               e == NewEpisode(o[1], o[2], now) IN
           /\ o[1] \in DOMAIN X /\ o[2] \in X[o[1]]
           /\ e.shipment = o[1] /\ e.cond = o[2] /\ IsOpen(e) /\ Ordered(e, now)
           /\ \A i \in 1..Len(episodes) :
                 ~(IsOpen(episodes[i]) /\ episodes[i].shipment = o[1] /\ episodes[i].cond = o[2])
<1> DEFINE X == Expected(plans, now)
           e == NewEpisode(o[1], o[2], now)
<1>1. /\ o[1] \in DOMAIN X /\ o[2] \in X[o[1]]
      /\ \A i \in DOMAIN episodes :
            ~(IsOpen(episodes[i]) /\ episodes[i].shipment = o[1] /\ episodes[i].cond = o[2])
  BY DEF Opened
<1>2. o[2].due <= now
  BY <1>1, ExpectedTyped
<1>3. now \in Nat /\ now # NoTime
  BY Numbers DEF Assessed, Time
<1>4. DOMAIN episodes = 1..Len(episodes)
  BY DEF ExceptionsIInv, EpisodesOK, Sound
<1> HIDE DEF X
<1>5. e.shipment = o[1] /\ e.cond = o[2] /\ IsOpen(e) /\ Ordered(e, now)
  BY <1>2, <1>3 DEF NewEpisode, IsOpen, Ordered
<1>6. QED
  BY <1>1, <1>4, <1>5 DEF X

\* Row by row: what was there keeps its shipment and condition, and is open
\* if it was and its shipment is uncertain or still has the condition; what
\* is new was expected and had no open episode.
LEMMA EvaluatedEpisodes ==
    ASSUME ExceptionsIInv, NEW plans, NEW now, Assessed(plans, now)
    PROVE  LET X == Expected(plans, now)
               rows == Evaluated(plans, now)
               n == Len(episodes) IN
           /\ \A i \in 1..n :
                 LET e == episodes[i]
                     f == rows[i] IN
                 /\ f.shipment = e.shipment /\ f.cond = e.cond /\ Ordered(f, now)
                 /\ IsOpen(f) <=> /\ IsOpen(e)
                                  /\ e.shipment \in DOMAIN X => e.cond \in X[e.shipment]
           /\ \A i \in (n + 1)..Len(rows) :
                 LET f == rows[i] IN
                 /\ f.shipment \in DOMAIN X /\ f.cond \in X[f.shipment] /\ Ordered(f, now)
                 /\ f = NewEpisode(f.shipment, f.cond, now)
                 /\ \A k \in 1..n : ~(/\ IsOpen(episodes[k]) /\ episodes[k].shipment = f.shipment
                                      /\ episodes[k].cond = f.cond)
<1> DEFINE X == Expected(plans, now)
           rows == Evaluated(plans, now)
           n == Len(episodes)
<1> HIDE DEF X, rows, n
<1>1. /\ \A i \in 1..n : rows[i] = Carried(episodes[i], X, now)
      /\ \A i \in (n + 1)..Len(rows) : \E o \in Opened(X) : rows[i] = NewEpisode(o[1], o[2], now)
  BY EvaluatedRows DEF X, rows, n
<1>2. ASSUME NEW i \in 1..n
      PROVE  LET e == episodes[i]
                 f == rows[i] IN
             /\ f.shipment = e.shipment /\ f.cond = e.cond /\ Ordered(f, now)
             /\ IsOpen(f) <=> /\ IsOpen(e)
                              /\ e.shipment \in DOMAIN X => e.cond \in X[e.shipment]
  <2>1. episodes[i] \in Episode /\ Ordered(episodes[i], evaluated.at)
    BY DEF ExceptionsIInv, EpisodesOK, Sound, n
  <2>2. QED
    BY <1>1, <2>1, CarriedEpisode DEF X
<1>3. ASSUME NEW i \in (n + 1)..Len(rows)
      PROVE  LET f == rows[i] IN
             /\ f.shipment \in DOMAIN X /\ f.cond \in X[f.shipment] /\ Ordered(f, now)
             /\ f = NewEpisode(f.shipment, f.cond, now)
             /\ \A k \in 1..n : ~(/\ IsOpen(episodes[k]) /\ episodes[k].shipment = f.shipment
                                  /\ episodes[k].cond = f.cond)
  <2>1. PICK o \in Opened(X) : rows[i] = NewEpisode(o[1], o[2], now)
    BY <1>1
  <2>2. QED
    BY <2>1, OpenedEpisode DEF X, n
<1>4. QED
  BY <1>2, <1>3 DEF X, rows, n

\* Whatever the journal, the policies and the clock say, an evaluation keeps
\* the episodes sound.
LEMMA EvaluatedSound ==
    ASSUME ExceptionsIInv, NEW plans, NEW now, Assessed(plans, now)
    PROVE  Sound(Evaluated(plans, now), now)
<1> DEFINE X == Expected(plans, now)
           rows == Evaluated(plans, now)
           n == Len(episodes)
<1> HIDE DEF X, rows, n
<1>1. /\ rows \in Seq(Episode) /\ n \in Nat /\ Len(rows) \in Nat /\ n <= Len(rows)
      /\ \A i \in 1..n : rows[i] = Carried(episodes[i], X, now)
      /\ \A i \in (n + 1)..Len(rows) : \E o \in Opened(X) : rows[i] = NewEpisode(o[1], o[2], now)
      /\ \A i, j \in (n + 1)..Len(rows) : rows[i] = rows[j] => i = j
  BY EvaluatedRows DEF X, rows, n
<1>2. ASSUME NEW i \in 1..n
      PROVE  LET e == episodes[i]
                 f == rows[i] IN
             /\ f.shipment = e.shipment /\ f.cond = e.cond /\ Ordered(f, now)
             /\ IsOpen(f) <=> /\ IsOpen(e)
                              /\ e.shipment \in DOMAIN X => e.cond \in X[e.shipment]
  BY EvaluatedEpisodes DEF X, rows, n
<1>3. ASSUME NEW i \in (n + 1)..Len(rows)
      PROVE  LET f == rows[i] IN
             /\ f.shipment \in DOMAIN X /\ f.cond \in X[f.shipment] /\ Ordered(f, now)
             /\ f = NewEpisode(f.shipment, f.cond, now)
             /\ \A k \in 1..n : ~(/\ IsOpen(episodes[k]) /\ episodes[k].shipment = f.shipment
                                  /\ episodes[k].cond = f.cond)
  BY EvaluatedEpisodes DEF X, rows, n
<1>4. \A i \in 1..Len(rows) : i \in 1..n \/ i \in (n + 1)..Len(rows)
  BY <1>1
<1>5. \A s \in DOMAIN X : \A c, d \in X[s] : c.kind = d.kind => c = d
  BY ExpectedTyped DEF X
<1>6. \A i, j \in 1..n :
         IsOpen(episodes[i]) /\ IsOpen(episodes[j]) /\ episodes[i].shipment = episodes[j].shipment
         /\ episodes[i].cond.kind = episodes[j].cond.kind => i = j
  BY DEF ExceptionsIInv, EpisodesOK, Sound, OnePerKind, n
<1>7. ASSUME NEW i \in 1..Len(rows), NEW j \in 1..Len(rows), IsOpen(rows[i]), IsOpen(rows[j]),
             rows[i].shipment = rows[j].shipment, rows[i].cond.kind = rows[j].cond.kind
      PROVE  i = j
  <2>1. CASE i \in 1..n /\ j \in 1..n
    BY <1>2, <1>6, <1>7, <2>1
  <2>2. CASE i \in (n + 1)..Len(rows) /\ j \in (n + 1)..Len(rows)
    BY <1>1, <1>3, <1>5, <1>7, <2>2
  <2>3. ASSUME NEW k \in 1..n, NEW m \in (n + 1)..Len(rows), IsOpen(rows[k]),
               rows[k].shipment = rows[m].shipment, rows[k].cond.kind = rows[m].cond.kind
        PROVE  FALSE
    <3>1. rows[m].shipment \in DOMAIN X /\ rows[m].cond \in X[rows[m].shipment]
      BY <1>3
    <3>2. IsOpen(episodes[k]) /\ episodes[k].shipment = rows[m].shipment
          /\ episodes[k].cond = rows[k].cond /\ rows[k].cond \in X[rows[m].shipment]
      BY <1>2, <2>3, <3>1
    <3>3. episodes[k].cond = rows[m].cond
      BY <1>5, <2>3, <3>1, <3>2
    <3>4. QED
      BY <1>3, <3>2, <3>3
  <2>4. QED
    BY <1>4, <1>7, <2>1, <2>2, <2>3
<1>8. \A i \in 1..Len(rows) : Ordered(rows[i], now)
  BY <1>2, <1>3, <1>4
<1>9. OnePerKind(rows)
  BY <1>1, <1>7 DEF OnePerKind
<1>10. QED
  BY <1>1, <1>8, <1>9 DEF Sound, rows

----------------------------------------------------------------------------
(* The invariant.                                                          *)

\* At the start nothing was evaluated and nobody holds the lock.
LEMMA ExceptionsInit == Init => ExceptionsIInv
<1> SUFFICES ASSUME Init PROVE ExceptionsIInv
  OBVIOUS
<1>1. WorldOK
  BY Numbers DEF Init, WorldOK, Time, Plan
<1>2. LocksOK
  <2>1. Idle \in Local
    BY Numbers DEF Idle, Local, Time, Plan
  <2>2. QED
    BY <2>1, Numbers DEF Init, LocksOK
<1>3. EpisodesOK
  <2>1. <<>> \in Seq(Episode) /\ Len(<<>>) = 0 /\ DOMAIN <<>> = {}
    OBVIOUS
  <2>2. Sound(<<>>, NoTime)
    BY <2>1 DEF Sound, OnePerKind
  <2>3. QED
    BY <2>2, Numbers DEF Init, EpisodesOK
<1>4. HeldOK
  BY Numbers DEF Init, HeldOK
<1>5. QED
  BY <1>1, <1>2, <1>3, <1>4 DEF ExceptionsIInv

\* While journal, policies and episodes stand still, an evaluation with the
\* same plans at the same time gives the same.
LEMMA StandsStill ==
    ASSUME UNCHANGED <<journal, policy, episodes>>, NEW plans, NEW now
    PROVE  Evaluated(plans, now)' = Evaluated(plans, now)
<1>1. UncertainAt(now)' = UncertainAt(now)
  BY DEF UncertainAt
<1>2. Expected(plans, now)' = Expected(plans, now)
  BY <1>1 DEF Expected
<1> DEFINE X == Expected(plans, now)
<1>3. \A e : Carried(e, X, now)' = Carried(e, X, now)
  BY <1>2 DEF Carried
<1>4. Opened(X)' = Opened(X)
  BY <1>2 DEF Opened
<1>5. QED
  BY <1>2, <1>3, <1>4 DEF Evaluated

\* Nor does what a holder has computed change, unless it gets the lock.
LEMMA HeldStays ==
    ASSUME HeldOK, UNCHANGED <<journal, policy, episodes, evaluated>>,
           \A w \in Workers : holder' = w => holder = w /\ local'[w] = local[w]
    PROVE  HeldOK'
<1>1. ASSUME NEW w \in Workers, holder' = w
      PROVE  (local[w].rows = Evaluated(local[w].plans, local[w].now) /\ ClockAdvanced(local[w].now))'
  <2>1. /\ local'[w] = local[w] /\ ClockAdvanced(local[w].now)
        /\ local[w].rows = Evaluated(local[w].plans, local[w].now)
    BY <1>1 DEF HeldOK
  <2>2. ClockAdvanced(local[w].now)'
    BY <2>1 DEF ClockAdvanced
  <2>3. Evaluated(local[w].plans, local[w].now)' = Evaluated(local[w].plans, local[w].now)
    BY <2>1, StandsStill
  <2>4. QED
    BY <2>1, <2>2, <2>3
<1>2. QED
  BY <1>1 DEF HeldOK

\* The world moves and nobody takes or gives the lock.
LEMMA WorldStep ==
    ASSUME ExceptionsIInv,
           \/ Tick \/ \E w \in Workers : Publish(w) \/ FallBehind(w)
           \/ \E s \in Shipments, at \in Time \cup {NoTime} : update_shipment(s, at)
    PROVE  ExceptionsIInv'
<1>1. UNCHANGED <<journal, policy, episodes, evaluated, holder, pc, local, cursor>>
  BY DEF Tick, Publish, FallBehind, update_shipment, ByOwner, db, worker
<1>2. LocksOK' /\ EpisodesOK'
  BY <1>1 DEF ExceptionsIInv, LocksOK, EpisodesOK
<1>3. HeldOK'
  BY <1>1, HeldStays DEF ExceptionsIInv
<1>4. WorldOK'
  <2>1. CASE Tick
    BY <2>1, Numbers DEF Tick, ExceptionsIInv, WorldOK, db, Time
  <2>2. ASSUME NEW w \in Workers, Publish(w) \/ FallBehind(w) PROVE WorldOK'
    BY <2>2 DEF Publish, FallBehind, ExceptionsIInv, WorldOK, db
  <2>3. ASSUME NEW s \in Shipments, NEW at \in Time \cup {NoTime}, update_shipment(s, at)
        PROVE  WorldOK'
    <3>1. plan[s] \in Plan /\ clock \in Time
      BY DEF ExceptionsIInv, WorldOK
    <3> DEFINE p == IF at = NoTime THEN NoPlan
                    ELSE IF plan[s] # NoPlan /\ plan[s].at = at THEN plan[s]
                    ELSE [at |-> at, recorded |-> clock]
    <3>2. p \in Plan
      BY <3>1, Numbers DEF Plan, Time
    <3>3. plan' = [plan EXCEPT ![s] = p]
      BY <2>3 DEF update_shipment, ExceptionsIInv, WorldOK
    <3> HIDE DEF p
    <3>4. plan' \in [Shipments -> Plan]
      BY <3>2, <3>3 DEF ExceptionsIInv, WorldOK
    <3>5. edits' \in 0..MaxEdits /\ edits <= edits' /\ UNCHANGED <<clock, health>>
      BY <2>3, Numbers DEF update_shipment, Edit, ByOwner, ExceptionsIInv, WorldOK
    <3>6. QED
      BY <1>1, <3>4, <3>5, Numbers DEF ExceptionsIInv, WorldOK
  <2>4. QED
    BY <2>1, <2>2, <2>3
<1>5. QED
  BY <1>2, <1>3, <1>4 DEF ExceptionsIInv

\* Handlers and the indexer that need the lock free.
LEMMA FreeStep ==
    ASSUME ExceptionsIInv,
           \/ IndexerCommit \/ \E s \in Shipments, values \in Policies : update_policy(s, values)
           \/ \E i \in DOMAIN episodes : acknowledge(i)
    PROVE  ExceptionsIInv'
<1>1. holder = NoWorker /\ UNCHANGED <<clock, holder, pc, local, plan, health, evaluated>>
  BY DEF IndexerCommit, update_policy, acknowledge, ByOwner, worker
<1>2. LocksOK'
  BY <1>1 DEF ExceptionsIInv, LocksOK
<1>3. HeldOK'
  BY <1>1, Numbers DEF HeldOK
<1>4. CASE IndexerCommit
  <2>1. UNCHANGED <<policy, episodes, edits>>
    BY <1>4 DEF IndexerCommit
  <2>2. journal' \in [Shipments -> Journals] /\ cursor' \in 0..MaxBlock
    BY <1>4 DEF IndexerCommit, ExceptionsIInv, WorldOK
  <2>3. QED
    BY <1>1, <1>2, <1>3, <2>1, <2>2 DEF ExceptionsIInv, WorldOK, EpisodesOK
<1>5. ASSUME NEW s \in Shipments, NEW values \in Policies, update_policy(s, values)
      PROVE  ExceptionsIInv'
  <2>1. UNCHANGED <<journal, cursor, episodes>> /\ edits' = edits + 1 /\ edits < MaxEdits
        /\ policy' = [policy EXCEPT ![s] = [values |-> values, revision |-> @.revision + 1]]
    BY <1>5 DEF update_policy, Edit, ByOwner
  <2>2. /\ policy' \in [Shipments -> [values : Policies, revision : 0..MaxEdits]]
        /\ \A t \in Shipments : policy'[t].revision <= edits'
    BY <2>1, Numbers DEF ExceptionsIInv, WorldOK
  <2>3. edits' \in 0..MaxEdits
    BY <2>1, Numbers DEF ExceptionsIInv, WorldOK
  <2>4. QED
    BY <1>1, <1>2, <1>3, <2>1, <2>2, <2>3 DEF ExceptionsIInv, WorldOK, EpisodesOK
<1>6. ASSUME NEW i \in DOMAIN episodes, acknowledge(i) PROVE ExceptionsIInv'
  <2>1. UNCHANGED <<journal, cursor, policy, edits>>
        /\ episodes' = [episodes EXCEPT ![i].acknowledged = clock]
    BY <1>6 DEF acknowledge, ByOwner
  <2>2. /\ episodes \in Seq(Episode) /\ clock \in Time
        /\ \A k \in 1..Len(episodes) : Ordered(episodes[k], evaluated.at)
    BY DEF ExceptionsIInv, WorldOK, EpisodesOK, Sound
  <2>3. /\ Len(episodes') = Len(episodes) /\ DOMAIN episodes' = DOMAIN episodes
        /\ \A k \in DOMAIN episodes :
              episodes'[k] = IF k = i THEN [episodes[k] EXCEPT !.acknowledged = clock] ELSE episodes[k]
    BY <2>1, <2>2
  <2>4. \A k \in DOMAIN episodes : episodes[k] \in Episode
    BY <2>2
  <2>5. ASSUME NEW k \in DOMAIN episodes
        PROVE  LET e == episodes[k]
                   f == episodes'[k] IN
               /\ f \in Episode /\ f.shipment = e.shipment /\ f.cond = e.cond /\ f.first = e.first
               /\ f.last = e.last /\ f.resolved = e.resolved /\ f.resolution = e.resolution
    BY <2>2, <2>3, <2>4 DEF Episode
  <2>6. episodes' \in Seq(Episode)
    <3>1. episodes' \in [1..Len(episodes) -> Episode]
      BY <2>1, <2>2, <2>5
    <3>2. Len(episodes) \in Nat
      BY <2>2
    <3>3. QED
      BY <3>1, <3>2
  <2>7. \A k \in DOMAIN episodes : Ordered(episodes'[k], evaluated.at)
    BY <2>2, <2>5 DEF Ordered, IsOpen
  <2>8. OnePerKind(episodes')
    BY <2>3, <2>5 DEF ExceptionsIInv, EpisodesOK, Sound, OnePerKind, IsOpen
  <2>9. Sound(episodes', evaluated.at)
    BY <2>2, <2>3, <2>6, <2>7, <2>8 DEF Sound
  <2>10. EpisodesOK'
    BY <1>1, <2>9 DEF ExceptionsIInv, EpisodesOK
  <2>11. QED
    BY <1>1, <1>2, <1>3, <2>1, <2>10 DEF ExceptionsIInv, WorldOK
<1>7. QED
  BY <1>4, <1>5, <1>6

\* A worker gives up, having written nothing.
LEMMA StopKeeps ==
    ASSUME ExceptionsIInv, NEW w \in Workers, Stop(w),
           UNCHANGED <<clock, journal, cursor, policy, plan, episodes, evaluated, health, edits>>
    PROVE  ExceptionsIInv'
<1>1. WorldOK' /\ EpisodesOK'
  BY DEF ExceptionsIInv, WorldOK, EpisodesOK
<1>2. Idle \in Local
  BY Numbers DEF Idle, Local, Time, Plan
<1>3. LocksOK'
  BY <1>2, Numbers DEF Stop, ExceptionsIInv, LocksOK
<1>4. ASSUME NEW v \in Workers, holder' = v PROVE holder = v /\ local'[v] = local[v]
  <2>1. v # w /\ holder = v
    BY <1>4, Numbers DEF Stop
  <2>2. QED
    BY <2>1 DEF Stop, ExceptionsIInv, LocksOK
<1>5. HeldOK'
  BY <1>4, HeldStays DEF ExceptionsIInv
<1>6. QED
  BY <1>1, <1>3, <1>5 DEF ExceptionsIInv

\* The steps of an evaluation.
LEMMA EvaluationStep ==
    ASSUME ExceptionsIInv, NEW w \in Workers, Step(w) \/ Fail(w)
    PROVE  ExceptionsIInv'
<1>1. CASE Fail(w)
  BY <1>1, StopKeeps DEF Fail, db
<1>2. CASE Begin(w)
  <2> DEFINE l == [Idle EXCEPT !.now = clock, !.before = health[w]]
  <2>1. /\ pc[w] = "idle" /\ pc' = [pc EXCEPT ![w] = "lock"] /\ local' = [local EXCEPT ![w] = l]
        /\ UNCHANGED <<clock, journal, cursor, policy, plan, episodes, evaluated, health, holder, edits>>
    BY <1>2 DEF Begin, db
  <2>2. l \in Local
    <3>1. clock \in Time /\ health[w] \in 0..MaxBlock
      BY <1>2 DEF Begin, ExceptionsIInv, WorldOK
    <3>2. Idle \in Local
      BY Numbers DEF Idle, Local, Time, Plan
    <3>3. [Idle EXCEPT !.now = clock] \in Local
      BY <3>1, <3>2 DEF Local
    <3>4. l = [[Idle EXCEPT !.now = clock] EXCEPT !.before = health[w]]
      OBVIOUS
    <3>5. QED
      BY <3>1, <3>3, <3>4 DEF Local
  <2> HIDE DEF l
  <2>3. LocksOK'
    BY <2>1, <2>2 DEF ExceptionsIInv, LocksOK
  <2>4. \A v \in Workers : holder' = v => holder = v /\ local'[v] = local[v]
    BY <2>1 DEF ExceptionsIInv, LocksOK
  <2>5. HeldOK'
    BY <2>1, <2>4, HeldStays DEF ExceptionsIInv
  <2>6. QED
    BY <2>1, <2>3, <2>5 DEF ExceptionsIInv, WorldOK, EpisodesOK
<1>3. CASE Evaluate(w)
  <2>1. UNCHANGED <<clock, journal, cursor, policy, plan, episodes, evaluated, health, edits>>
    BY <1>3 DEF Evaluate, db
  <2>2. CASE Stop(w)
    BY <2>1, <2>2, StopKeeps
  <2>3. CASE ~Stop(w)
    <3> DEFINE rows == Evaluated(plan, local[w].now)
               l == [local[w] EXCEPT !.plans = plan, !.rows = rows]
    <3>1. /\ holder = NoWorker /\ ClockAdvanced(local[w].now)
          /\ holder' = w /\ pc' = [pc EXCEPT ![w] = "recheck"]
          /\ local' = [local EXCEPT ![w].plans = plan, ![w].rows = rows]
      BY <1>3, <2>3 DEF Evaluate, LockFree
    <3>2. local[w] \in Local /\ plan \in [Shipments -> Plan] /\ local[w].now \in Time
      BY DEF ExceptionsIInv, WorldOK, LocksOK, Local
    <3>3. rows \in Seq(Episode)
      BY <3>1, <3>2, EvaluatedRows DEF Assessed
    <3>4. local' = [local EXCEPT ![w] = l]
      BY <3>1 DEF ExceptionsIInv, LocksOK
    <3> HIDE DEF rows
    <3>5. l \in Local /\ l.plans = plan /\ l.rows = rows /\ l.now = local[w].now
      BY <3>2, <3>3 DEF Local
    <3> HIDE DEF l
    <3>6. LocksOK'
      <4>1. local' \in [Workers -> Local]
        BY <3>4, <3>5 DEF ExceptionsIInv, LocksOK
      <4>2. pc' \in [Workers -> {"idle", "lock", "recheck", "commit"}]
        BY <3>1 DEF ExceptionsIInv, LocksOK
      <4>3. \A v \in Workers : pc'[v] \in {"recheck", "commit"} <=> holder' = v
        BY <3>1, Numbers DEF ExceptionsIInv, LocksOK
      <4>4. QED
        BY <3>1, <4>1, <4>2, <4>3 DEF LocksOK
    <3>7. local'[w] = l
      BY <3>4 DEF ExceptionsIInv, LocksOK
    <3>8. HeldOK'
      <4>1. ASSUME NEW v \in Workers, holder' = v
            PROVE  (local[v].rows = Evaluated(local[v].plans, local[v].now) /\ ClockAdvanced(local[v].now))'
        <5>1. v = w
          BY <3>1, <4>1
        <5>2. Evaluated(local[w].plans, local[w].now)' = rows
          BY <2>1, <3>5, <3>7, StandsStill DEF rows
        <5>3. ClockAdvanced(local[w].now)'
          BY <2>1, <3>1, <3>5, <3>7 DEF ClockAdvanced
        <5>4. QED
          BY <3>5, <3>7, <5>1, <5>2, <5>3
      <4>2. QED
        BY <4>1 DEF HeldOK
    <3>9. QED
      BY <2>1, <3>6, <3>8 DEF ExceptionsIInv, WorldOK, EpisodesOK
  <2>4. QED
    BY <2>2, <2>3
<1>4. CASE Recheck(w)
  <2>1. UNCHANGED <<clock, journal, cursor, policy, plan, episodes, evaluated, health, edits>>
    BY <1>4 DEF Recheck, db
  <2>2. CASE Stop(w)
    BY <2>1, <2>2, StopKeeps
  <2>3. CASE ~Stop(w)
    <3>1. pc[w] = "recheck" /\ pc' = [pc EXCEPT ![w] = "commit"] /\ UNCHANGED <<holder, local>>
      BY <1>4, <2>3 DEF Recheck
    <3>2. LocksOK'
      BY <3>1 DEF ExceptionsIInv, LocksOK
    <3>3. HeldOK'
      BY <2>1, <3>1, HeldStays DEF ExceptionsIInv
    <3>4. QED
      BY <2>1, <3>2, <3>3 DEF ExceptionsIInv, WorldOK, EpisodesOK
  <2>4. QED
    BY <2>2, <2>3
<1>5. CASE Commit(w)
  <2>1. /\ pc[w] = "commit" /\ episodes' = local[w].rows
        /\ evaluated' = [at |-> local[w].now, block |-> cursor] /\ Stop(w)
        /\ UNCHANGED <<clock, journal, cursor, policy, plan, health, edits>>
    BY <1>5 DEF Commit
  <2>2. /\ holder = w /\ local[w] \in Local /\ cursor \in 0..MaxBlock
        /\ local[w].rows = Evaluated(local[w].plans, local[w].now)
        /\ Assessed(local[w].plans, local[w].now)
    BY <2>1 DEF ExceptionsIInv, WorldOK, LocksOK, HeldOK, Assessed, Local
  <2>3. EpisodesOK'
    <3>1. Sound(episodes', local[w].now)
      BY <2>1, <2>2, EvaluatedSound
    <3>2. evaluated' \in [at : Time \cup {NoTime}, block : 0..MaxBlock] /\ evaluated'.at = local[w].now
      BY <2>1, <2>2 DEF Local
    <3>3. QED
      BY <3>1, <3>2 DEF EpisodesOK
  <2>4. Idle \in Local
    BY Numbers DEF Idle, Local, Time, Plan
  <2>5. LocksOK'
    BY <2>1, <2>4, Numbers DEF Stop, ExceptionsIInv, LocksOK
  <2>6. HeldOK'
    BY <2>1, <2>2, Numbers DEF Stop, HeldOK
  <2>7. QED
    BY <2>1, <2>3, <2>5, <2>6 DEF ExceptionsIInv, WorldOK
<1>6. QED
  BY <1>1, <1>2, <1>3, <1>4, <1>5 DEF Step

\* The invariant is inductive.
LEMMA ExceptionsNext == ExceptionsIInv /\ [Next]_vars => ExceptionsIInv'
<1> SUFFICES ASSUME ExceptionsIInv, [Next]_vars PROVE ExceptionsIInv'
  OBVIOUS
<1>1. CASE UNCHANGED vars
  <2>1. UNCHANGED <<clock, journal, cursor, policy, plan, episodes, evaluated, health, edits, holder, pc, local>>
    BY <1>1 DEF vars, db, worker
  <2>2. HeldOK'
    BY <2>1, HeldStays DEF ExceptionsIInv
  <2>3. QED
    BY <2>1, <2>2 DEF ExceptionsIInv, WorldOK, LocksOK, EpisodesOK
<1>2. ASSUME NEW w \in Workers, Step(w) \/ Fail(w) PROVE ExceptionsIInv'
  BY <1>2, EvaluationStep
<1>3. ASSUME NEW w \in Workers, Publish(w) \/ FallBehind(w) PROVE ExceptionsIInv'
  BY <1>3, WorldStep
<1>4. CASE Owner
  BY <1>4, WorldStep, FreeStep DEF Owner
<1>5. CASE IndexerCommit \/ Tick
  BY <1>5, WorldStep, FreeStep
<1>6. QED
  BY <1>1, <1>2, <1>3, <1>4, <1>5 DEF Next

\* It holds in every reachable state.
LEMMA ExceptionsIInvAlways == Spec => []ExceptionsIInv
BY ExceptionsInit, ExceptionsNext, PTL DEF Spec
----------------------------------------------------------------------------
(* Theorems.                                                               *)

\* Episodes are well formed, at most one of a kind is open for a shipment,
\* and overdue, observed and resolved come in that order, although clocks
\* are set back and every process evaluates.
THEOREM EpisodesAreSound == Spec => []ExceptionsTypeOK
<1>1. ASSUME ExceptionsIInv PROVE ExceptionsTypeOK
  <2>1. /\ episodes \in Seq(Episode) /\ OnePerKind(episodes) /\ DOMAIN episodes = 1..Len(episodes)
        /\ \A i \in DOMAIN episodes : Ordered(episodes[i], evaluated.at)
    BY <1>1 DEF ExceptionsIInv, EpisodesOK, Sound
  <2>2. /\ plan \in [Shipments -> Plan] /\ cursor \in 0..MaxBlock
        /\ health \in [Workers -> 0..MaxBlock \cup {Paused}]
        /\ \A s \in Shipments : policy[s].values \in Policies /\ policy[s].revision \in 0..MaxEdits
    BY <1>1 DEF ExceptionsIInv, WorldOK
  <2>3. evaluated.at \in Time \cup {NoTime}
    BY <1>1 DEF ExceptionsIInv, EpisodesOK
  <2>4. holder = NoWorker <=> \A w \in Workers : pc[w] \notin {"recheck", "commit"}
    BY <1>1, Numbers DEF ExceptionsIInv, LocksOK
  <2>5. QED
    BY <2>1, <2>2, <2>3, <2>4 DEF ExceptionsTypeOK, Ordered
<1>2. QED
  BY <1>1, ExceptionsIInvAlways, PTL

\* What a committed evaluation writes was computed with the journal and the
\* policies that are there when it is committed.
LEMMA Committed ==
    ASSUME ExceptionsIInv, NEW w \in Workers, Commit(w)
    PROVE  /\ episodes' = Evaluated(local[w].plans, local[w].now)
           /\ Assessed(local[w].plans, local[w].now)
BY DEF Commit, ExceptionsIInv, LocksOK, HeldOK, Assessed, Local

\* The transaction writes what its moment requires: it leaves open, for each
\* shipment whose logs are not from the future, exactly the conditions that
\* are overdue, whoever edited a plan or set the clock meanwhile.
THEOREM OpenIsAlwaysOverdue == Spec => OpenIsOverdue
<1>1. ASSUME ExceptionsIInv, NEW w \in Workers, Commit(w), NEW s \in Shipments
      PROVE  OpenConditions(episodes', s) =
                 IF Uncertain(journal[s], local[w].now) THEN OpenConditions(episodes, s)
                 ELSE conditions(journal[s], policy[s].values, local[w].plans[s], local[w].now)
  <2> DEFINE now == local[w].now
             plans == local[w].plans
             X == Expected(plans, now)
             rows == Evaluated(plans, now)
             n == Len(episodes)
             new == (n + 1)..Len(rows)
  <2>1. episodes' = rows /\ Assessed(plans, now)
    BY <1>1, Committed
  <2> HIDE DEF X, rows, now, plans, n
  <2>2. /\ \A i \in 1..n :
              /\ rows[i].shipment = episodes[i].shipment /\ rows[i].cond = episodes[i].cond
              /\ IsOpen(rows[i]) <=> /\ IsOpen(episodes[i])
                                     /\ episodes[i].shipment \in DOMAIN X =>
                                           episodes[i].cond \in X[episodes[i].shipment]
        /\ \A i \in new : rows[i].shipment \in DOMAIN X /\ rows[i].cond \in X[rows[i].shipment]
    BY <1>1, <2>1, EvaluatedEpisodes DEF X, rows, n
  <2>3. /\ n \in Nat /\ Len(rows) \in Nat /\ n <= Len(rows) /\ rows \in Seq(Episode)
        /\ \A o \in Opened(X) : \E i \in new : rows[i] = NewEpisode(o[1], o[2], now)
    BY <1>1, <2>1, EvaluatedRows DEF X, rows, n
  <2>4. /\ DOMAIN rows = 1..Len(rows) /\ 1..Len(rows) = 1..n \cup new
        /\ DOMAIN episodes = 1..n
    BY <1>1, <2>3 DEF ExceptionsIInv, EpisodesOK, Sound, n
  <2>5. DOMAIN X = Shipments \ UncertainAt(now)
        /\ \A t \in DOMAIN X : X[t] = conditions(journal[t], policy[t].values, plans[t], now)
    BY <1>1, <2>1, ExpectedTyped DEF X
  <2> HIDE DEF new
  <2>6. CASE Uncertain(journal[s], now)
    <3>1. s \notin DOMAIN X
      BY <2>5, <2>6 DEF UncertainAt
    <3>2. \A i \in new : rows[i].shipment # s
      BY <2>2, <3>1
    <3>3. {i \in DOMAIN rows : IsOpen(rows[i]) /\ rows[i].shipment = s}
            = {i \in DOMAIN episodes : IsOpen(episodes[i]) /\ episodes[i].shipment = s}
      BY <2>2, <2>4, <3>1, <3>2
    <3>4. \A i \in DOMAIN episodes : rows[i].cond = episodes[i].cond
      BY <2>2, <2>4
    <3>5. OpenConditions(rows, s) = OpenConditions(episodes, s)
      BY <3>3, <3>4 DEF OpenConditions
    <3>6. QED
      BY <2>1, <2>6, <3>5 DEF now
  <2>7. CASE ~Uncertain(journal[s], now)
    <3>1. s \in DOMAIN X /\ X[s] = conditions(journal[s], policy[s].values, plans[s], now)
      BY <2>5, <2>7 DEF UncertainAt
    <3>2. ASSUME NEW c \in OpenConditions(rows, s) PROVE c \in X[s]
      <4>1. PICK i \in DOMAIN rows : IsOpen(rows[i]) /\ rows[i].shipment = s /\ c = rows[i].cond
        BY <3>2 DEF OpenConditions
      <4>2. QED
        BY <2>2, <2>4, <3>1, <4>1
    <3>3. ASSUME NEW c \in X[s] PROVE c \in OpenConditions(rows, s)
      <4>1. CASE \E i \in 1..n : IsOpen(episodes[i]) /\ episodes[i].shipment = s /\ episodes[i].cond = c
        <5>1. PICK i \in 1..n : IsOpen(episodes[i]) /\ episodes[i].shipment = s /\ episodes[i].cond = c
          BY <4>1
        <5>2. IsOpen(rows[i]) /\ rows[i].shipment = s /\ rows[i].cond = c /\ i \in DOMAIN rows
          BY <2>2, <2>4, <3>3, <5>1
        <5>3. QED
          BY <5>2 DEF OpenConditions
      <4>2. CASE ~\E i \in 1..n : IsOpen(episodes[i]) /\ episodes[i].shipment = s /\ episodes[i].cond = c
        <5> DEFINE o == <<s, c>>
        <5>1. o \in Opened(X)
          <6>1. c \in UNION Range(X)
            BY <3>1, <3>3 DEF Range
          <6>2. QED
            BY <2>4, <3>1, <3>3, <4>2, <6>1 DEF Opened
        <5>2. PICK i \in new : rows[i] = NewEpisode(s, c, now)
          BY <2>3, <5>1
        <5>3. i \in DOMAIN rows /\ IsOpen(rows[i]) /\ rows[i].shipment = s /\ rows[i].cond = c
          BY <2>4, <5>2 DEF NewEpisode, IsOpen
        <5>4. QED
          BY <5>3 DEF OpenConditions
      <4>3. QED
        BY <4>1, <4>2
    <3>4. OpenConditions(rows, s) = X[s]
      BY <3>2, <3>3
    <3>5. QED
      BY <2>1, <2>7, <3>1, <3>4 DEF now, plans
  <2>8. QED
    BY <2>6, <2>7 DEF now
<1>2. ExceptionsIInv /\ [Next]_vars =>
         [\A w \in Workers : Commit(w) =>
             \A s \in Shipments :
                 OpenConditions(episodes', s) =
                     IF Uncertain(journal[s], local[w].now) THEN OpenConditions(episodes, s)
                     ELSE conditions(journal[s], policy[s].values, local[w].plans[s], local[w].now)
         ]_vars
  BY <1>1
<1>3. QED
  BY <1>2, ExceptionsIInvAlways, PTL DEF Spec, OpenIsOverdue

\* No step loses an episode or touches a closed one; an acknowledgement is
\* never taken back, and only an evaluation closes an episode, for the
\* reason it records.
THEOREM HistoryIsAlwaysKept == Spec => HistoryKept
<1> DEFINE Kept ==
       /\ Len(episodes) <= Len(episodes')
       /\ \A i \in DOMAIN episodes :
             LET e == episodes[i]
                 f == episodes'[i]
                 J == journal[e.shipment] IN
             /\ e.acknowledged # NoTime => f.acknowledged = e.acknowledged
             /\ ~IsOpen(e) => f = e
             /\ IsOpen(e) /\ ~IsOpen(f) =>
                   \E w \in Workers :
                      /\ Commit(w)
                      /\ e.cond \notin conditions(J, policy[e.shipment].values,
                                                  local[w].plans[e.shipment], local[w].now)
                      /\ f.resolution = "evidence_withdrawn" => e.cond.anchor \notin Occurrences(J)
                      /\ f.resolution = "condition_cleared" => e.cond.anchor \in Occurrences(J)
<1>1. ASSUME ExceptionsIInv, UNCHANGED episodes PROVE Kept
  <2>1. Len(episodes) \in Nat
    BY <1>1 DEF ExceptionsIInv, EpisodesOK, Sound
  <2>2. QED
    BY <1>1, <2>1
<1>2. ASSUME ExceptionsIInv, NEW k \in DOMAIN episodes, acknowledge(k) PROVE Kept
  <2>1. /\ episodes \in Seq(Episode) /\ Len(episodes) \in Nat
        /\ episodes' = [episodes EXCEPT ![k].acknowledged = clock]
        /\ IsOpen(episodes[k]) /\ episodes[k].acknowledged = NoTime
    BY <1>2 DEF ExceptionsIInv, EpisodesOK, Sound, acknowledge, Acknowledgeable
  <2>2. /\ Len(episodes') = Len(episodes)
        /\ \A i \in DOMAIN episodes : i # k => episodes'[i] = episodes[i]
        /\ episodes'[k] = [episodes[k] EXCEPT !.acknowledged = clock]
    BY <2>1
  <2>3. episodes'[k].resolved = episodes[k].resolved
    <3>1. episodes[k] \in Episode
      BY <2>1
    <3>2. QED
      BY <2>2, <3>1 DEF Episode
  <2>4. QED
    BY <2>1, <2>2, <2>3 DEF IsOpen
<1>3. ASSUME ExceptionsIInv, NEW w \in Workers, Commit(w) PROVE Kept
  <2> DEFINE now == local[w].now
             plans == local[w].plans
             X == Expected(plans, now)
  <2>1. episodes' = Evaluated(plans, now) /\ Assessed(plans, now)
    BY <1>3, Committed
  <2> HIDE DEF X, now, plans
  <2>2. /\ Len(episodes) <= Len(episodes') /\ DOMAIN episodes = 1..Len(episodes)
        /\ \A i \in DOMAIN episodes : episodes'[i] = Carried(episodes[i], X, now)
    BY <1>3, <2>1, EvaluatedRows DEF X, ExceptionsIInv, EpisodesOK, Sound
  <2>3. ASSUME NEW i \in DOMAIN episodes
        PROVE  LET e == episodes[i]
                   f == episodes'[i]
                   J == journal[e.shipment] IN
               /\ e.acknowledged # NoTime => f.acknowledged = e.acknowledged
               /\ ~IsOpen(e) => f = e
               /\ IsOpen(e) /\ ~IsOpen(f) =>
                      /\ e.cond \notin conditions(J, policy[e.shipment].values, plans[e.shipment], now)
                      /\ f.resolution = "evidence_withdrawn" => e.cond.anchor \notin Occurrences(J)
                      /\ f.resolution = "condition_cleared" => e.cond.anchor \in Occurrences(J)
    <3>1. episodes[i] \in Episode /\ Ordered(episodes[i], evaluated.at)
      BY <1>3, <2>2 DEF ExceptionsIInv, EpisodesOK, Sound
    <3> DEFINE e == episodes[i]
               f == Carried(e, X, now)
    <3>2. /\ f.acknowledged = e.acknowledged
          /\ IsOpen(f) <=> /\ IsOpen(e)
                           /\ e.shipment \in DOMAIN X => e.cond \in X[e.shipment]
          /\ ~IsOpen(e) => f = e
          /\ IsOpen(e) /\ ~IsOpen(f) =>
                /\ f.resolution = "evidence_withdrawn" =>
                      e.cond.anchor \notin Occurrences(journal[e.shipment])
                /\ f.resolution = "condition_cleared" =>
                      e.cond.anchor \in Occurrences(journal[e.shipment])
      BY <1>3, <2>1, <3>1, CarriedEpisode DEF X
    <3>3. \A t \in DOMAIN X : X[t] = conditions(journal[t], policy[t].values, plans[t], now)
      BY <1>3, <2>1, ExpectedTyped DEF X
    <3>4. f = episodes'[i]
      BY <2>2
    <3> HIDE DEF f
    <3>5. QED
      BY <3>2, <3>3, <3>4
  <2>4. QED
    BY <1>3, <2>2, <2>3 DEF now, plans
<1>4. ASSUME ExceptionsIInv, Next PROVE Kept
  <2>1. \/ UNCHANGED episodes
        \/ \E i \in DOMAIN episodes : acknowledge(i)
        \/ \E w \in Workers : Commit(w)
    BY <1>4 DEF Next, Step, Begin, Evaluate, Recheck, Fail, Publish, FallBehind, Owner,
                update_policy, update_shipment, IndexerCommit, Tick, db
  <2>2. QED
    BY <1>1, <1>2, <1>3, <1>4, <2>1
<1>5. ExceptionsIInv /\ [Next]_vars => [Kept]_vars
  BY <1>4
<1> HIDE DEF Kept
<1>6. Spec => [][Kept]_vars
  BY <1>5, ExceptionsIInvAlways, PTL DEF Spec
<1>7. QED
  BY <1>6 DEF Kept, HistoryKept
=============================================================================
