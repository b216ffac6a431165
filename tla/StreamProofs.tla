---------------------------- MODULE StreamProofs ----------------------------
(***************************************************************************)
(* The event stream, for any number of connections and commits and any     *)
(* bounds of the queues: a subscription is held until its generator ends,  *)
(* and for good if it never started, a queue that dropped messages says    *)
(* so, and a page whose connection works is going to hear of what it does  *)
(* not show.                                                               *)
(***************************************************************************)
EXTENDS Stream, SequenceTheorems, FiniteSetTheorems, TLAPS

----------------------------------------------------------------------------
(* Sequences.                                                              *)

\* q has an element in M.
Holds(q, M) == \E i \in DOMAIN q : q[i] \in M

\* Appending adds the element and drops none.
LEMMA AppendHolds ==
    ASSUME NEW S, NEW q \in Seq(S), NEW e \in S, NEW M
    PROVE  Holds(Append(q, e), M) <=> Holds(q, M) \/ e \in M
<1>1. /\ DOMAIN q = 1..Len(q) /\ Len(q) \in Nat
      /\ DOMAIN Append(q, e) = 1..(Len(q) + 1)
  BY AppendProperties, LenProperties
<1>2. \A i \in 1..Len(q) : Append(q, e)[i] = q[i]
  BY AppendProperties
<1>3. Append(q, e)[Len(q) + 1] = e
  BY AppendProperties
<1>4. ASSUME Holds(Append(q, e), M) PROVE Holds(q, M) \/ e \in M
  <2>1. PICK i \in 1..(Len(q) + 1) : Append(q, e)[i] \in M
    BY <1>1, <1>4 DEF Holds
  <2>2. CASE i = Len(q) + 1
    BY <1>3, <2>1, <2>2
  <2>3. CASE i \in 1..Len(q)
    BY <1>1, <1>2, <2>1, <2>3 DEF Holds
  <2>4. QED
    BY <1>1, <2>1, <2>2, <2>3
<1>5. ASSUME Holds(q, M) PROVE Holds(Append(q, e), M)
  <2>1. PICK i \in 1..Len(q) : q[i] \in M
    BY <1>1, <1>5 DEF Holds
  <2>2. i \in 1..(Len(q) + 1)
    BY <1>1
  <2>3. QED
    BY <1>1, <1>2, <2>1, <2>2 DEF Holds
<1>6. ASSUME e \in M PROVE Holds(Append(q, e), M)
  <2>1. Len(q) + 1 \in 1..(Len(q) + 1)
    BY <1>1
  <2>2. QED
    BY <1>1, <1>3, <1>6, <2>1 DEF Holds
<1>7. QED
  BY <1>4, <1>5, <1>6

\* Taking the head drops no other element.
LEMMA TailHolds ==
    ASSUME NEW S, NEW q \in Seq(S), q # <<>>, NEW M, Holds(q, M), Head(q) \notin M
    PROVE  Holds(Tail(q), M)
<1>1. /\ DOMAIN q = 1..Len(q) /\ Len(q) \in Nat \ {0}
      /\ DOMAIN Tail(q) = 1..(Len(q) - 1)
      /\ \A i \in 1..(Len(q) - 1) : Tail(q)[i] = q[i + 1]
  BY HeadTailProperties, LenProperties, EmptySeq
<1>2. PICK i \in 1..Len(q) : q[i] \in M
  BY <1>1 DEF Holds
<1>3. i # 1
  BY <1>2
<1>4. i - 1 \in 1..(Len(q) - 1) /\ (i - 1) + 1 = i
  BY <1>1, <1>2, <1>3
<1>5. Tail(q)[i - 1] = q[i]
  BY <1>1, <1>4
<1>6. QED
  BY <1>1, <1>2, <1>4, <1>5 DEF Holds

----------------------------------------------------------------------------
(* The inductive invariant.                                                *)

\* No more calls are scheduled for a queue than messages were published.
CallsBounded == \A s \in Streams : calls[s] + (IF unpublished THEN 1 ELSE 0) <= revision + breaks

\* Nobody knows of a commit that was not made, and the page does not go back.
KnownIsCommitted ==
    /\ \A s \in Streams : stream[s].revision <= revision
    /\ shown <= revision
    /\ page.query = "answered" => shown <= page.answer /\ page.answer <= revision

\* HeldUntilEnd, by the point of the generator.
HeldWhileBusy ==
    /\ subscribed = {s \in Streams : stream[s].pc # "free"}
    /\ active = Cardinality(subscribed)

\* The properties, what bounds the counters, and what the page relies on.
StreamIInv ==
    /\ StreamTypeOK /\ HeldWhileBusy /\ LossIsTold
    /\ CallsBounded /\ KnownIsCommitted /\ NothingForgotten

LEMMA Bounds ==
    /\ IsFiniteSet(Streams) /\ Cardinality(Streams) \in Nat
    /\ MaxQueue \in Nat \ {0} /\ MaxWire \in Nat \ {0}
    /\ MaxCommits \in Nat /\ MaxBreaks \in Nat
BY StreamAssumption, FS_CardinalityType

\* The broadcaster starts with no stream.
LEMMA StreamInit == Init => StreamIInv
<1> SUFFICES ASSUME Init PROVE StreamIInv
  OBVIOUS
<1> USE DEF Init
<1>1. StreamTypeOK
  <2>1. Idle \in Generator
    BY Bounds DEF Idle, Generator, Points, Revisions, Events, Messages
  <2>2. /\ revision \in Revisions /\ shown \in Revisions /\ 0 \in 0..MaxCommits + MaxBreaks
        /\ active \in 0..Cardinality(Streams) /\ breaks \in 0..MaxBreaks
    BY Bounds DEF Revisions
  <2>3. /\ queue \in [Streams -> Seq(Messages)] /\ wire \in [Streams -> Seq(Events)]
        /\ \A s \in Streams : Len(queue[s]) <= MaxQueue /\ Len(wire[s]) <= MaxWire
    BY Bounds, EmptySeq
  <2>4. page \in [stream : Streams \cup {None}, visible : BOOLEAN,
                  query : {"none", "asked", "answered"}, answer : Revisions]
    BY <2>2 DEF Revisions
  <2>5. QED
    BY <2>1, <2>2, <2>3, <2>4 DEF StreamTypeOK, BroadcasterTypeOK, NetworkTypeOK, PageTypeOK
<1>2. LossIsTold /\ HeldWhileBusy
  BY FS_EmptySet DEF LossIsTold, HeldWhileBusy, Idle
<1>3. CallsBounded /\ KnownIsCommitted /\ NothingForgotten
  BY DEF CallsBounded, KnownIsCommitted, NothingForgotten, Idle
<1>4. QED
  BY <1>1, <1>2, <1>3 DEF StreamIInv

----------------------------------------------------------------------------
(* Types and counters.                                                     *)

\* What the type of a generator, a page and a message is made of.
LEMMA Parts ==
    ASSUME StreamIInv, NEW s \in Streams
    PROVE  /\ queue[s] \in Seq(Messages) /\ wire[s] \in Seq(Events)
           /\ Len(queue[s]) \in Nat /\ Len(wire[s]) \in Nat
           /\ calls[s] \in Nat /\ revision \in Nat
           /\ breaks \in Nat /\ breaks <= MaxBreaks
           /\ stream[s] \in Generator /\ stream[s].revision \in Nat
           /\ Messages \subseteq Events
BY Bounds, LenProperties
   DEF StreamIInv, StreamTypeOK, BroadcasterTypeOK, NetworkTypeOK, PageTypeOK, Messages, Events,
       Generator, Revisions

\* The finally of a stream that was served takes exactly it out.
LEMMA EndStep ==
    ASSUME StreamIInv, NEW s \in Streams, stream[s].pc # "free", End(s)
    PROVE  /\ subscribed' = {t \in Streams : stream'[t].pc # "free"}
           /\ active' = Cardinality(subscribed') /\ active' \in 0..Cardinality(Streams)
           /\ subscribed' \subseteq Streams /\ lost' \subseteq Streams
           /\ queue' \in [Streams -> Seq(Messages)] /\ \A t \in Streams : Len(queue'[t]) <= MaxQueue
           /\ calls' \in [Streams -> 0..MaxCommits + MaxBreaks]
           /\ stream' \in [Streams -> Generator]
           /\ stream' = [stream EXCEPT ![s] = Idle] /\ Idle.pc = "free" /\ Idle.revision = 0
           /\ LossIsTold'
           /\ \A t \in Streams : calls'[t] <= calls[t]
<1> USE DEF StreamIInv
<1>1. /\ subscribed' = subscribed \ {s}
      /\ active' = IF s \in subscribed' THEN active ELSE active - 1
      /\ stream' = [stream EXCEPT ![s] = Idle]
      /\ queue' = [queue EXCEPT ![s] = <<>>] /\ calls' = [calls EXCEPT ![s] = 0]
      /\ lost' = lost \ {s}
  BY DEF End, Remaining
<1>2. Idle \in Generator /\ Idle.pc = "free" /\ Idle.revision = 0
  BY Bounds DEF Idle, Generator, Points, Revisions, Events, Messages
<1>3. /\ stream' \in [Streams -> Generator]
      /\ subscribed' = {t \in Streams : stream'[t].pc # "free"}
  BY <1>1, <1>2 DEF StreamTypeOK, BroadcasterTypeOK, HeldWhileBusy
<1>4. s \in subscribed /\ active = Cardinality(subscribed)
  BY DEF HeldWhileBusy
<1>5. IsFiniteSet(subscribed) /\ IsFiniteSet(subscribed')
  BY <1>1, Bounds, FS_Subset DEF StreamTypeOK, BroadcasterTypeOK, NetworkTypeOK, PageTypeOK
<1>6. active' = Cardinality(subscribed')
  BY <1>1, <1>4, <1>5, FS_RemoveElement
<1>7. active' \in 0..Cardinality(Streams)
  BY <1>1, <1>5, <1>6, Bounds, FS_CardinalityType, FS_Subset DEF StreamTypeOK, BroadcasterTypeOK, NetworkTypeOK, PageTypeOK
<1>8. queue' \in [Streams -> Seq(Messages)] /\ \A t \in Streams : Len(queue'[t]) <= MaxQueue
  BY <1>1, Bounds, EmptySeq DEF StreamTypeOK, BroadcasterTypeOK, NetworkTypeOK, PageTypeOK
<1>9. calls' \in [Streams -> 0..MaxCommits + MaxBreaks] /\ \A t \in Streams : calls'[t] <= calls[t]
  BY <1>1, Bounds DEF StreamTypeOK, BroadcasterTypeOK, NetworkTypeOK, PageTypeOK
<1>10. LossIsTold'
  BY <1>1 DEF LossIsTold, StreamTypeOK, BroadcasterTypeOK
<1>11. QED
  BY <1>1, <1>2, <1>3, <1>6, <1>7, <1>8, <1>9, <1>10 DEF StreamTypeOK, BroadcasterTypeOK, NetworkTypeOK, PageTypeOK

\* Calls that run or go away leave no more than were published.
LEMMA CallsStay ==
    ASSUME StreamIInv, revision' = revision, unpublished' = unpublished, breaks' \in breaks..MaxBreaks,
           \A s \in Streams : calls'[s] \in Nat /\ calls'[s] <= calls[s]
    PROVE  CallsBounded'
<1> SUFFICES ASSUME NEW s \in Streams
             PROVE  calls'[s] + (IF unpublished THEN 1 ELSE 0) <= revision + breaks'
  BY DEF CallsBounded
<1>1. calls[s] + (IF unpublished THEN 1 ELSE 0) <= revision + breaks
  BY DEF StreamIInv, CallsBounded
<1>2. /\ calls[s] \in Nat /\ revision \in Nat /\ breaks \in Nat /\ MaxBreaks \in Nat
      /\ breaks' \in Nat /\ breaks <= breaks'
  BY Parts, Bounds
<1>3. QED
  BY <1>1, <1>2

\* Nothing was scheduled, run or dropped.
LEMMA CallsKept ==
    ASSUME StreamIInv, UNCHANGED <<revision, unpublished, calls>>, breaks' \in breaks..MaxBreaks
    PROVE  CallsBounded'
<1>1. \A s \in Streams : calls'[s] \in Nat /\ calls'[s] <= calls[s]
  <2> SUFFICES ASSUME NEW s \in Streams PROVE calls'[s] \in Nat /\ calls'[s] <= calls[s]
    OBVIOUS
  <2>1. calls[s] \in Nat
    BY Parts
  <2>2. QED
    BY <2>1
<1>2. QED
  BY <1>1, CallsStay

\* What does not touch the counter of breaks may be said to keep its bound.
LEMMA BreaksKept ==
    ASSUME StreamIInv, UNCHANGED breaks
    PROVE  breaks' \in breaks..MaxBreaks
BY Bounds DEF StreamIInv, StreamTypeOK, PageTypeOK

\* What the counters and the page may count on.
Counted == CallsBounded /\ KnownIsCommitted

\* The page closes its connection.
LEMMA LeaveStep ==
    ASSUME StreamIInv, NEW p \in {page, [page EXCEPT !.visible = FALSE]}, Leave(p), breaks' \in breaks..MaxBreaks
    PROVE  StreamTypeOK' /\ Counted' /\ LossIsTold' /\ HeldWhileBusy' /\ page'.stream = None
<1> USE DEF StreamIInv, StreamTypeOK
<1>0. page.stream \in Streams
  BY DEF Leave, PageTypeOK
<1>1. /\ page' = [p EXCEPT !.stream = None] /\ shown' = shown
      /\ p.query = page.query /\ p.answer = page.answer
      /\ p \in [stream : Streams \cup {None}, visible : BOOLEAN,
                query : {"none", "asked", "answered"}, answer : Revisions]
  BY DEF Leave, PageTypeOK
<1>2. PageTypeOK' /\ page'.stream = None /\ page'.query = page.query /\ page'.answer = page.answer
  BY <1>1 DEF PageTypeOK
<1>3. NetworkTypeOK'
  <2>1. wire' = [wire EXCEPT ![page.stream] = <<>>] /\ link' = [link EXCEPT ![page.stream] = "closed"]
    BY DEF Leave
  <2>2. <<>> \in Seq(Events) /\ Len(<<>>) <= MaxWire
    BY EmptySeq, Bounds
  <2>3. QED
    BY <1>0, <2>1, <2>2 DEF NetworkTypeOK
<1>4. UNCHANGED <<revision, unpublished, broadcaster, stream>>
  BY DEF Leave
<1>5. BroadcasterTypeOK' /\ LossIsTold' /\ HeldWhileBusy' /\ stream' = stream
  BY <1>4 DEF BroadcasterTypeOK, broadcaster, LossIsTold, HeldWhileBusy
<1>6. Counted'
  <2>1. CallsBounded'
    BY <1>4, CallsKept DEF broadcaster
  <2>2. KnownIsCommitted'
    BY <1>1, <1>2, <1>4 DEF KnownIsCommitted
  <2>3. QED
    BY <2>1, <2>2 DEF Counted
<1>7. QED
  BY <1>2, <1>3, <1>5, <1>6

\* The generator of s, and no other, goes to a point that it may be at.
Moves(s) ==
    /\ stream' \in [Streams -> Generator]
    /\ stream'[s].revision <= revision
    /\ \A t \in Streams : t # s => stream'[t] = stream[t]

\* An event to send.
LEMMA YieldMoves ==
    ASSUME StreamIInv, NEW s \in Streams, NEW event \in Events, NEW next \in {"get", "compare", "free"},
           NEW known \in Revisions, known <= revision, Yield(s, event, next, known)
    PROVE  /\ Moves(s) /\ stream'[s].pc = "send" /\ stream'[s].out = event
           /\ stream'[s].revision = known /\ stream'[s].next = next
<1> DEFINE g == [pc |-> "send", revision |-> known, out |-> event, next |-> next]
<1>1. g \in Generator
  BY DEF Generator, Points
<1>2. stream' = [stream EXCEPT ![s] = g]
  BY DEF Yield
<1>3. stream \in [Streams -> Generator]
  BY DEF StreamIInv, StreamTypeOK
<1>4. g.revision = known /\ g.pc = "send" /\ g.out = event /\ g.next = next
  OBVIOUS
<1> HIDE DEF g
<1>5. stream' \in [Streams -> Generator] /\ stream'[s] = g
  BY <1>1, <1>2, <1>3
<1>6. \A t \in Streams : t # s => stream'[t] = stream[t]
  BY <1>2, <1>3
<1>7. QED
  BY <1>4, <1>5, <1>6 DEF Moves

\* A generator that goes on without a new event.
LEMMA PointMoves ==
    ASSUME StreamIInv, NEW s \in Streams, NEW point \in Points, NEW g,
           g \in {[stream[s] EXCEPT !.pc = point], [stream[s] EXCEPT !.pc = point, !.next = "get"],
                  [stream[s] EXCEPT !.pc = point, !.revision = revision, !.out = "heartbeat"]},
           stream' = [stream EXCEPT ![s] = g]
    PROVE  Moves(s) /\ stream'[s] = g /\ g.pc = point
<1>1. /\ stream \in [Streams -> Generator] /\ stream[s] \in Generator
      /\ stream[s].revision <= revision /\ revision \in Revisions /\ revision <= revision
  BY Parts DEF StreamIInv, StreamTypeOK, KnownIsCommitted, BroadcasterTypeOK
<1>2. g \in Generator /\ g.pc = point /\ g.revision \in {stream[s].revision, revision}
  BY <1>1 DEF Generator, Events
<1>3. stream' \in [Streams -> Generator] /\ stream'[s] = g
  BY <1>1, <1>2
<1>4. \A t \in Streams : t # s => stream'[t] = stream[t]
  BY <1>1
<1>5. QED
  BY <1>1, <1>2, <1>3, <1>4 DEF Moves

\* A step of a generator that sends nothing, and where it goes on.
LEMMA GeneratorStep ==
    ASSUME StreamIInv, NEW s \in Streams,
           Moves(s), (stream'[s].pc = "free") = (stream[s].pc = "free"),
           UNCHANGED <<revision, unpublished, subscribed, calls, active, network, browser>>,
           breaks' \in breaks..MaxBreaks
    PROVE  /\ stream' \in [Streams -> Generator]
           /\ Counted' /\ HeldWhileBusy'
           /\ NetworkTypeOK' /\ PageTypeOK'
<1> USE DEF StreamIInv, StreamTypeOK
<1>1. stream' \in [Streams -> Generator]
  BY DEF Moves
<1>2. \A t \in Streams : stream'[t].revision <= revision /\ (stream'[t].pc = "free") = (stream[t].pc = "free")
  BY DEF Moves, KnownIsCommitted
<1>3. Counted'
  BY <1>2, Parts DEF Counted, CallsBounded, KnownIsCommitted, browser
<1>4. HeldWhileBusy'
  BY <1>2 DEF HeldWhileBusy
<1>5. NetworkTypeOK' /\ PageTypeOK'
  BY DEF NetworkTypeOK, PageTypeOK, network, browser
<1>6. QED
  BY <1>1, <1>3, <1>4, <1>5

\* The type, the counters and what the broadcaster keeps, step by step.
LEMMA ServingStep ==
    ASSUME StreamIInv, [Next]_vars
    PROVE  StreamTypeOK' /\ Counted' /\ LossIsTold' /\ HeldWhileBusy'
<1> DEFINE Goal == StreamTypeOK' /\ Counted' /\ LossIsTold' /\ HeldWhileBusy'
<1> USE DEF StreamIInv, StreamTypeOK
<1>1. CASE Commit
  <2>1. HeldWhileBusy' /\ LossIsTold'
    BY <1>1 DEF Commit, broadcaster, HeldWhileBusy, LossIsTold
  <2>5. revision' \in Revisions /\ unpublished' \in BOOLEAN
    <3>1. revision \in 0..MaxCommits /\ revision < MaxCommits /\ revision' = revision + 1
      BY <1>1 DEF Commit, BroadcasterTypeOK, Revisions
    <3>2. revision' \in Revisions
      BY <3>1, Bounds DEF Revisions
    <3>3. unpublished' \in BOOLEAN
      BY <1>1 DEF Commit, BroadcasterTypeOK
    <3>4. QED
      BY <3>2, <3>3
  <2>6. BroadcasterTypeOK'
    BY <1>1, <2>5 DEF Commit, BroadcasterTypeOK, broadcaster
  <2>2. stream' \in [Streams -> Generator] /\ NetworkTypeOK' /\ PageTypeOK'
    BY <1>1 DEF Commit, NetworkTypeOK, PageTypeOK, network, browser
  <2>3. Counted'
    BY <1>1, Parts, Bounds DEF Commit, Counted, CallsBounded, KnownIsCommitted, BroadcasterTypeOK,
       PageTypeOK, Revisions, broadcaster, browser
  <2>4. QED
    BY <2>1, <2>2, <2>3, <2>6
<1>2. CASE Publish \/ Announce
  <2>1. /\ \A s \in Streams : calls'[s] = IF s \in subscribed THEN calls[s] + 1 ELSE calls[s]
        /\ calls' = Scheduled
    BY <1>2 DEF Publish, Announce, Scheduled
  <2>2. /\ breaks \in 0..MaxBreaks /\ breaks' \in breaks..MaxBreaks /\ revision \in 0..MaxCommits
        /\ \A s \in Streams : calls[s] \in Nat
    BY <1>2, Parts, Bounds DEF Publish, Announce, PageTypeOK, BroadcasterTypeOK, Revisions
  <2>3. CallsBounded'
    <3>1. CASE Publish
      BY <2>1, <2>2, <3>1, Bounds DEF Publish, CallsBounded
    <3>2. CASE Announce
      BY <2>1, <2>2, <3>2, Bounds DEF Announce, CallsBounded
    <3>3. QED
      BY <1>2, <3>1, <3>2
  <2>4. Counted'
    BY <1>2, <2>3 DEF Publish, Announce, Counted, KnownIsCommitted, browser
  <2>5. revision' = revision /\ unpublished' \in BOOLEAN
    BY <1>2 DEF Publish, Announce, BroadcasterTypeOK
  <2>6. \A s \in Streams : calls'[s] \in 0..MaxCommits + MaxBreaks
    <3>1. \A s \in Streams : calls'[s] + (IF unpublished' THEN 1 ELSE 0) <= revision' + breaks'
      BY <2>3 DEF CallsBounded
    <3>2. \A s \in Streams : calls'[s] \in Nat
      BY <2>1, <2>2
    <3>3. QED
      BY <2>2, <2>5, <3>1, <3>2, Bounds
  <2>7. calls' \in [Streams -> 0..MaxCommits + MaxBreaks]
    BY <2>1, <2>6 DEF Scheduled
  <2>8. BroadcasterTypeOK' /\ HeldWhileBusy' /\ LossIsTold'
    BY <1>2, <2>7, <2>5 DEF Publish, Announce, BroadcasterTypeOK, HeldWhileBusy, LossIsTold
  <2>9. stream' \in [Streams -> Generator] /\ NetworkTypeOK' /\ PageTypeOK'
    BY <1>2, <2>2 DEF Publish, Announce, NetworkTypeOK, PageTypeOK, network, browser
  <2>10. QED
    BY <2>4, <2>8, <2>9
<1>3. ASSUME NEW s \in Streams, Put(s) PROVE Goal
  <2>1. /\ Append(queue[s], "chain_updated") \in Seq(Messages)
        /\ Len(Append(queue[s], "chain_updated")) = Len(queue[s]) + 1
    BY Parts, AppendProperties DEF Messages
  <2>2. Full(s) => /\ Append(Tail(queue[s]), "resync") \in Seq(Messages)
                   /\ Len(Append(Tail(queue[s]), "resync")) = Len(queue[s])
    BY Parts, AppendProperties, HeadTailProperties, EmptySeq, Bounds DEF Messages, Full
  <2>3. queue' \in [Streams -> Seq(Messages)] /\ \A t \in Streams : Len(queue'[t]) <= MaxQueue
    BY <1>3, <2>1, <2>2, Parts, Bounds DEF Put, Overflowed, Full, BroadcasterTypeOK
  <2>4. calls' \in [Streams -> 0..MaxCommits + MaxBreaks] /\ \A t \in Streams : calls'[t] <= calls[t]
    BY <1>3, Bounds DEF Put, BroadcasterTypeOK
  <2>5. BroadcasterTypeOK' /\ HeldWhileBusy'
    BY <1>3, <2>3, <2>4 DEF Put, BroadcasterTypeOK, HeldWhileBusy
  <2>6. ASSUME NEW t \in lost' PROVE Holds(queue'[t], {"resync"})
    <3>1. CASE t # s
      <4>1. t \in lost /\ queue'[t] = queue[t]
        BY <1>3, <3>1 DEF Put, BroadcasterTypeOK
      <4>2. QED
        BY <4>1 DEF LossIsTold, Holds
    <3>2. CASE t = s /\ Full(s)
      <4>1. queue'[s] = Append(Tail(queue[s]), "resync")
        BY <1>3, <3>2 DEF Put, Overflowed, BroadcasterTypeOK
      <4>2. Tail(queue[s]) \in Seq(Messages)
        BY <3>2, Parts, Bounds, HeadTailProperties, EmptySeq DEF Full
      <4>3. "resync" \in Messages /\ "resync" \in {"resync"}
        BY DEF Messages
      <4>4. Holds(Append(Tail(queue[s]), "resync"), {"resync"})
        BY <4>2, <4>3, AppendHolds
      <4>5. QED
        BY <3>2, <4>1, <4>4
    <3>3. CASE t = s /\ ~Full(s)
      <4>1. s \in lost /\ queue'[s] = Append(queue[s], "chain_updated")
        BY <1>3, <2>6, <3>3 DEF Put, BroadcasterTypeOK
      <4>2. Holds(queue[s], {"resync"})
        BY <4>1 DEF LossIsTold, Holds
      <4>3. "chain_updated" \in Messages
        BY DEF Messages
      <4>4. QED
        BY <3>3, <4>1, <4>2, <4>3, Parts, AppendHolds
    <3>4. QED
      BY <3>1, <3>2, <3>3
  <2>7. LossIsTold'
    BY <2>6 DEF LossIsTold, Holds
  <2>8. stream' \in [Streams -> Generator] /\ NetworkTypeOK' /\ PageTypeOK'
    BY <1>3 DEF Put, NetworkTypeOK, PageTypeOK, network, browser
  <2>9. Counted'
    BY <1>3, <2>4, Parts DEF Put, Counted, CallsBounded, KnownIsCommitted, BroadcasterTypeOK, browser
  <2>10. QED
    BY <2>5, <2>7, <2>8, <2>9
<1>4. ASSUME NEW s \in Streams, Begin(s) \/ Heartbeat(s) \/ Compare(s) PROVE Goal
  <2>5. /\ {"heartbeat", "resync", "chain_updated"} \subseteq Events
        /\ revision \in Revisions /\ revision <= revision
        /\ stream[s].revision \in Revisions /\ stream[s].revision <= revision
    BY Parts DEF Events, Messages, KnownIsCommitted, BroadcasterTypeOK, Generator
  <2>1. Moves(s) /\ stream'[s].pc # "free"
    <3>1. CASE Begin(s)
      BY <3>1, <2>5, YieldMoves DEF Begin
    <3>2. CASE Heartbeat(s)
      BY <3>2, <2>5, YieldMoves DEF Heartbeat
    <3>3. CASE Compare(s) /\ Announced(s)
      BY <3>3, <2>5, YieldMoves DEF Compare
    <3>4. CASE Compare(s) /\ ~Announced(s)
      <4>1. stream' = [stream EXCEPT ![s] = [stream[s] EXCEPT !.pc = "get", !.revision = revision, !.out = "heartbeat"]]
        BY <3>4 DEF Compare
      <4>2. "get" \in Points
        BY DEF Points
      <4>3. QED
        BY <4>1, <4>2, PointMoves
    <3>5. QED
      BY <1>4, <3>1, <3>2, <3>3, <3>4
  <2>2. /\ UNCHANGED <<queue, lost, revision, unpublished, subscribed, calls, active, network, browser, breaks>>
        /\ stream[s].pc # "free"
    BY <1>4 DEF Begin, Heartbeat, Compare, ByGenerator
  <2>3. BroadcasterTypeOK' /\ LossIsTold'
    BY <2>2 DEF BroadcasterTypeOK, LossIsTold
  <2>4. breaks' \in breaks..MaxBreaks
    BY <2>2 DEF PageTypeOK
  <2>6. QED
    BY <2>1, <2>2, <2>3, <2>4, GeneratorStep DEF Moves
<1>5. ASSUME NEW s \in Streams, GetMessage(s) PROVE Goal
  <2>1. /\ Head(queue[s]) \in Messages /\ Tail(queue[s]) \in Seq(Messages)
        /\ Len(Tail(queue[s])) = Len(queue[s]) - 1
    BY <1>5, Parts, HeadTailProperties DEF GetMessage
  <2>2. Moves(s) /\ stream'[s].pc # "free"
    <3>1. Head(queue[s]) \in Events /\ stream[s].revision \in Revisions /\ stream[s].revision <= revision
      BY <2>1, Parts DEF Generator, KnownIsCommitted
    <3>2. QED
      BY <1>5, <3>1, YieldMoves DEF GetMessage
  <2>3. /\ UNCHANGED <<revision, unpublished, subscribed, calls, active, network, browser, breaks>>
        /\ stream[s].pc # "free"
        /\ queue' = [queue EXCEPT ![s] = Tail(@)]
        /\ lost' = IF Head(queue[s]) = "resync" THEN lost \ {s} ELSE lost
    BY <1>5 DEF GetMessage, ByGenerator
  <2>4. BroadcasterTypeOK'
    BY <2>1, <2>3, Parts, Bounds DEF BroadcasterTypeOK
  <2>5. ASSUME NEW t \in lost' PROVE Holds(queue'[t], {"resync"})
    <3>1. Holds(queue[t], {"resync"})
      BY <2>3, <2>5 DEF LossIsTold, Holds
    <3>2. CASE t # s
      BY <2>3, <2>5, <3>1, <3>2 DEF BroadcasterTypeOK
    <3>3. CASE t = s
      <4>1. Head(queue[s]) # "resync" /\ queue'[s] = Tail(queue[s]) /\ queue[s] # <<>>
        BY <1>5, <2>3, <2>5, <3>3 DEF BroadcasterTypeOK, GetMessage
      <4>2. QED
        BY <3>1, <3>3, <4>1, Parts, TailHolds
    <3>4. QED
      BY <3>2, <3>3
  <2>6. LossIsTold'
    BY <2>5 DEF LossIsTold, Holds
  <2>7. breaks' \in breaks..MaxBreaks
    BY <2>3 DEF PageTypeOK
  <2>8. QED
    BY <2>2, <2>3, <2>4, <2>6, <2>7, GeneratorStep DEF Moves
<1>6. ASSUME NEW s \in Streams, Unavailable(s) PROVE Goal
  <2>1. Moves(s) /\ stream'[s].pc # "free"
    <3>1. "unavailable" \in Events /\ 0 \in Revisions /\ 0 <= revision
      BY Parts, Bounds DEF Events, Revisions
    <3>2. QED
      BY <1>6, <3>1, YieldMoves DEF Unavailable
  <2>2. /\ UNCHANGED <<revision, unpublished, broadcaster, network, browser>>
        /\ stream[s].pc # "free" /\ breaks' \in breaks..MaxBreaks
    BY <1>6, Bounds DEF Unavailable, PageTypeOK
  <2>3. BroadcasterTypeOK' /\ LossIsTold' /\ UNCHANGED <<subscribed, calls, active>>
    BY <2>2 DEF BroadcasterTypeOK, LossIsTold, broadcaster
  <2>4. QED
    BY <2>1, <2>2, <2>3, GeneratorStep DEF Moves
<1>7. ASSUME NEW s \in Streams, stream[s].pc # "free", End(s), revision' = revision,
             unpublished' = unpublished, UNCHANGED <<browser, breaks, link>>,
             wire' \in [Streams -> Seq(Events)] /\ \A t \in Streams : Len(wire'[t]) <= MaxWire
      PROVE  Goal
  <2>1. BroadcasterTypeOK' /\ HeldWhileBusy'
    BY <1>7, EndStep DEF BroadcasterTypeOK, HeldWhileBusy
  <2>2. NetworkTypeOK' /\ PageTypeOK'
    BY <1>7 DEF NetworkTypeOK, PageTypeOK, browser
  <2>3. \A t \in Streams : stream'[t] = IF t = s THEN Idle ELSE stream[t]
    BY <1>7, EndStep
  <2>4. Counted'
    <3>1. \A t \in Streams : calls'[t] <= calls[t] /\ calls'[t] \in Nat /\ calls[t] \in Nat
      <4>1. calls \in [Streams -> 0..MaxCommits + MaxBreaks] /\ calls' \in [Streams -> 0..MaxCommits + MaxBreaks]
        BY <2>1, Parts DEF BroadcasterTypeOK
      <4>2. \A t \in Streams : calls'[t] <= calls[t]
        BY <1>7, EndStep
      <4>3. QED
        BY <4>1, <4>2, Bounds
    <3>2. Idle.revision = 0 /\ revision \in Nat
      BY Parts DEF Idle
    <3>3. UNCHANGED <<revision, unpublished, page, shown>>
      BY <1>7 DEF browser
    <3>4. CallsBounded'
      BY <1>7, <3>1, <3>3, CallsStay, BreaksKept
    <3>5. KnownIsCommitted'
      BY <2>3, <3>2, <3>3 DEF KnownIsCommitted
    <3>6. QED
      BY <3>4, <3>5 DEF Counted
  <2>5. QED
    BY <1>7, <2>1, <2>2, <2>4, EndStep
<1>8. ASSUME NEW s \in Streams, Send(s) PROVE Goal
  <2>1. /\ Append(wire[s], stream[s].out) \in Seq(Events)
        /\ Len(Append(wire[s], stream[s].out)) = Len(wire[s]) + 1
    BY Parts, AppendProperties DEF Generator
  <2>2. wire' \in [Streams -> Seq(Events)] /\ \A t \in Streams : Len(wire'[t]) <= MaxWire
    BY <1>8, <2>1, Parts, Bounds DEF Send, NetworkTypeOK
  <2>3. CASE stream[s].next = "free"
    BY <1>7, <1>8, <2>2, <2>3 DEF Send
  <2>4. CASE stream[s].next # "free"
    <3>1. Moves(s) /\ stream'[s].pc # "free"
      <4>1. stream' = [stream EXCEPT ![s] = [stream[s] EXCEPT !.pc = stream[s].next, !.next = "get"]]
        BY <1>8, <2>4 DEF Send
      <4>2. stream[s].next \in Points
        BY Parts DEF Generator, Points
      <4>3. QED
        BY <2>4, <4>1, <4>2, PointMoves
    <3>2. UNCHANGED <<revision, unpublished, broadcaster, link, browser, breaks>>
      BY <1>8, <2>4 DEF Send
    <3>3. NetworkTypeOK' /\ PageTypeOK' /\ BroadcasterTypeOK' /\ LossIsTold'
      BY <2>2, <3>2 DEF BroadcasterTypeOK, LossIsTold, NetworkTypeOK, PageTypeOK, broadcaster, browser
    <3>4. Counted' /\ HeldWhileBusy'
      <4>1. \A t \in Streams : /\ stream'[t].revision <= revision
                               /\ (stream'[t].pc = "free") = (stream[t].pc = "free")
        BY <1>8, <3>1 DEF Send, Moves, KnownIsCommitted
      <4>2. UNCHANGED <<revision, unpublished, calls, subscribed, active, page, shown>>
        BY <3>2 DEF broadcaster, browser
      <4>3. QED
        <5>1. CallsBounded'
          BY <3>2, <4>2, CallsKept, BreaksKept
        <5>2. KnownIsCommitted' /\ HeldWhileBusy'
          BY <4>1, <4>2 DEF KnownIsCommitted, HeldWhileBusy
        <5>3. QED
          BY <5>1, <5>2 DEF Counted
    <3>5. QED
      BY <3>1, <3>3, <3>4 DEF Moves
  <2>5. QED
    BY <2>3, <2>4
<1>9. ASSUME NEW s \in Streams, Cancel(s) PROVE Goal
  BY <1>7, <1>9 DEF Cancel, network, NetworkTypeOK
<1>10. ASSUME NEW s \in Streams, Abandon(s) PROVE Goal
  <2>1. Moves(s) /\ stream'[s].pc # "free"
    <3>1. stream' = [stream EXCEPT ![s] = [stream[s] EXCEPT !.pc = "abandoned"]]
      BY <1>10 DEF Abandon
    <3>2. "abandoned" \in Points
      BY DEF Points
    <3>3. QED
      BY <3>1, <3>2, PointMoves
  <2>2. /\ UNCHANGED <<revision, unpublished, broadcaster, network, browser, breaks>>
        /\ stream[s].pc # "free" /\ breaks' \in breaks..MaxBreaks
    BY <1>10 DEF Abandon, PageTypeOK
  <2>3. BroadcasterTypeOK' /\ LossIsTold' /\ UNCHANGED <<subscribed, calls, active>>
    BY <2>2 DEF BroadcasterTypeOK, LossIsTold, broadcaster
  <2>4. QED
    BY <2>1, <2>2, <2>3, GeneratorStep DEF Moves
<1>11. CASE Connect
  <2>1. PICK s \in Streams :
            /\ stream[s].pc = "free"
            /\ page' = [page EXCEPT !.stream = s]
            /\ link' = [link EXCEPT ![s] = "up"] /\ wire' = [wire EXCEPT ![s] = <<>>]
            /\ stream' = [stream EXCEPT ![s].pc = "opened"]
            /\ subscribed' = subscribed \cup {s} /\ active' = active + 1
    BY <1>11 DEF Connect
  <2>2. UNCHANGED <<revision, unpublished, queue, calls, lost, shown, breaks>>
    BY <1>11 DEF Connect
  <2>3. Moves(s) /\ stream'[s].pc = "opened"
    <3>1. stream' = [stream EXCEPT ![s] = [stream[s] EXCEPT !.pc = "opened"]]
      BY <2>1
    <3>2. "opened" \in Points
      BY DEF Points
    <3>3. QED
      BY <3>1, <3>2, PointMoves
  <2>4. \A t \in Streams : /\ stream'[t].revision <= revision
                           /\ stream'[t].pc = IF t = s THEN "opened" ELSE stream[t].pc
    BY <2>3 DEF Moves, KnownIsCommitted
  <2>5. subscribed' = {t \in Streams : stream'[t].pc # "free"}
    BY <2>1, <2>4 DEF HeldWhileBusy
  <2>6. IsFiniteSet(subscribed) /\ s \notin subscribed
    BY <2>1, Bounds, FS_Subset DEF BroadcasterTypeOK, HeldWhileBusy
  <2>7. active' = Cardinality(subscribed')
    BY <2>1, <2>6, FS_AddElement DEF HeldWhileBusy
  <2>8. active' \in 0..Cardinality(Streams)
    <3>1. subscribed' \in SUBSET Streams
      BY <2>5
    <3>2. Cardinality(subscribed') \in Nat /\ Cardinality(subscribed') <= Cardinality(Streams)
      BY <3>1, Bounds, FS_Subset, FS_CardinalityType
    <3>3. QED
      BY <2>7, <3>2, Bounds
  <2>9. BroadcasterTypeOK' /\ LossIsTold'
    BY <2>2, <2>5, <2>8 DEF BroadcasterTypeOK, LossIsTold
  <2>10. NetworkTypeOK'
    BY <2>1, EmptySeq, Bounds DEF NetworkTypeOK
  <2>11. PageTypeOK' /\ page'.query = page.query /\ page'.answer = page.answer
    BY <2>1, <2>2 DEF PageTypeOK
  <2>12. Counted'
    BY <2>2, <2>4, <2>11 DEF Counted, CallsBounded, KnownIsCommitted
  <2>13. QED
    BY <2>3, <2>5, <2>7, <2>9, <2>10, <2>11, <2>12 DEF HeldWhileBusy, Moves
<1>12. ASSUME UNCHANGED <<revision, unpublished, broadcaster, stream>>,
              NetworkTypeOK', PageTypeOK', KnownIsCommitted', breaks' \in breaks..MaxBreaks
       PROVE  Goal
  <2>1. CallsBounded'
    BY <1>12, CallsKept DEF broadcaster
  <2>2. QED
    BY <1>12, <2>1 DEF BroadcasterTypeOK, Counted, broadcaster, LossIsTold, HeldWhileBusy
<1>13. ASSUME NEW s \in Streams, Receive(s) PROVE Goal
  <2>1. CASE Head(wire[s]) = "unavailable"
    BY <1>13, <2>1, LeaveStep DEF Receive, PageTypeOK
  <2>2. CASE Head(wire[s]) # "unavailable"
    <3>1. Tail(wire[s]) \in Seq(Events) /\ Len(Tail(wire[s])) = Len(wire[s]) - 1
      BY <1>13, Parts, HeadTailProperties DEF Receive
    <3>2. /\ wire' = [wire EXCEPT ![s] = Tail(@)]
          /\ page' \in {page, [page EXCEPT !.query = "asked", !.answer = 0]}
          /\ UNCHANGED <<revision, unpublished, broadcaster, stream, link, shown, breaks>>
      BY <1>13, <2>2 DEF Receive
    <3>3. NetworkTypeOK'
      BY <3>1, <3>2, Parts, Bounds DEF NetworkTypeOK
    <3>4. PageTypeOK' /\ KnownIsCommitted'
      <4>1. 0 \in Revisions
        BY Bounds DEF Revisions
      <4>2. /\ page' \in [stream : Streams \cup {None}, visible : BOOLEAN,
                          query : {"none", "asked", "answered"}, answer : Revisions]
            /\ page'.query \in {page.query, "asked"}
            /\ page'.query = "answered" => page'.answer = page.answer
        BY <3>2, <4>1 DEF PageTypeOK
      <4>3. QED
        BY <3>2, <4>2 DEF PageTypeOK, KnownIsCommitted
    <3>5. QED
      BY <1>12, <3>2, <3>3, <3>4, BreaksKept
  <2>3. QED
    BY <2>1, <2>2
<1>14. CASE Answer \/ Show
  <2>1. UNCHANGED <<revision, unpublished, broadcaster, stream, network, breaks>>
    BY <1>14 DEF Answer, Show
  <2>2. NetworkTypeOK'
    BY <2>1 DEF NetworkTypeOK, network
  <2>3. PageTypeOK' /\ KnownIsCommitted'
    <3>1. 0 \in Revisions /\ revision \in Revisions /\ shown <= revision /\ revision <= revision
      BY Parts, Bounds DEF Revisions, BroadcasterTypeOK, KnownIsCommitted
    <3>2. CASE Answer
      <4>1. /\ page' \in [stream : Streams \cup {None}, visible : BOOLEAN,
                          query : {"none", "asked", "answered"}, answer : Revisions]
            /\ page'.answer = revision /\ shown' = shown
        BY <3>1, <3>2 DEF Answer, PageTypeOK
      <4>2. QED
        BY <2>1, <3>1, <4>1 DEF PageTypeOK, KnownIsCommitted
    <3>3. CASE Show
      <4>1. /\ page' \in [stream : Streams \cup {None}, visible : BOOLEAN,
                          query : {"none", "asked", "answered"}, answer : Revisions]
            /\ page'.query = "none" /\ shown' = page.answer
            /\ page.answer \in Revisions /\ page.answer <= revision
        BY <3>1, <3>3 DEF Show, PageTypeOK, KnownIsCommitted
      <4>2. QED
        BY <2>1, <4>1 DEF PageTypeOK, KnownIsCommitted
    <3>4. QED
      BY <1>14, <3>2, <3>3
  <2>4. QED
    BY <1>12, <2>1, <2>2, <2>3, BreaksKept
<1>15. CASE Error \/ Watchdog
  BY <1>15, LeaveStep, Bounds DEF Error, Watchdog, PageTypeOK
<1>16. CASE GoSilent
  <2>1. UNCHANGED <<revision, unpublished, broadcaster, stream, wire, browser>>
    BY <1>16 DEF GoSilent
  <2>2. NetworkTypeOK' /\ PageTypeOK' /\ KnownIsCommitted'
    BY <1>16, <2>1, Bounds DEF GoSilent, NetworkTypeOK, PageTypeOK, KnownIsCommitted, browser
  <2>3. breaks' \in breaks..MaxBreaks
    BY <1>16, Bounds DEF GoSilent, PageTypeOK
  <2>4. QED
    BY <1>12, <2>1, <2>2, <2>3
<1>17. CASE Hide \/ Unhide
  <2>1. CASE page.stream # None /\ Hide
    BY <2>1, LeaveStep, Bounds DEF Hide, PageTypeOK
  <2>2. CASE ~(page.stream # None /\ Hide)
    <3>1. UNCHANGED <<revision, unpublished, broadcaster, stream, network, shown>>
      BY <1>17, <2>2 DEF Hide, Unhide
    <3>2. NetworkTypeOK'
      BY <3>1 DEF NetworkTypeOK, network
    <3>3. PageTypeOK' /\ KnownIsCommitted'
      <4>1. /\ page' \in [stream : Streams \cup {None}, visible : BOOLEAN,
                          query : {"none", "asked", "answered"}, answer : Revisions]
            /\ page'.query = page.query /\ page'.answer = page.answer /\ breaks' \in breaks..MaxBreaks
        <5>1. /\ page' \in {[page EXCEPT !.visible = FALSE], [page EXCEPT !.visible = TRUE]}
              /\ breaks' \in breaks..MaxBreaks
          BY <1>17, <2>2, Bounds DEF Hide, Unhide, PageTypeOK
        <5>2. QED
          BY <5>1 DEF PageTypeOK
      <4>2. QED
        BY <3>1, <4>1 DEF PageTypeOK, KnownIsCommitted
    <3>4. breaks' \in breaks..MaxBreaks
      BY <1>17, <2>2, Bounds DEF Hide, Unhide, PageTypeOK
    <3>5. QED
      BY <1>12, <3>1, <3>2, <3>3, <3>4
  <2>3. QED
    BY <2>1, <2>2
<1>18. CASE UNCHANGED vars
  <2>1. NetworkTypeOK' /\ PageTypeOK' /\ KnownIsCommitted'
    BY <1>18 DEF vars, network, browser, NetworkTypeOK, PageTypeOK, KnownIsCommitted
  <2>2. QED
    BY <1>12, <1>18, <2>1, BreaksKept DEF vars
<1>19. QED
  BY <1>1, <1>2, <1>3, <1>4, <1>5, <1>6, <1>8, <1>9, <1>10, <1>11, <1>13, <1>14,
     <1>15, <1>16, <1>17, <1>18 DEF Next, Browse, Server

----------------------------------------------------------------------------
(* What the page is going to hear of.                                      *)

\* The events that make a page ask again, and the last of a connection.
Telling == Events \ {"heartbeat"}

\* What is on the wire, in the terms of the lemmas on sequences.
LEMMA WireHolds ==
    ASSUME NEW w \in Seq(Events)
    PROVE  (\E i \in DOMAIN w : w[i] # "heartbeat") <=> Holds(w, Telling)
<1>1. \A i \in DOMAIN w : w[i] \in Events
  BY ElementOfSeq, LenProperties
<1>2. QED
  BY <1>1 DEF Holds, Telling

\* A step that leaves the page and its connection alone.
LEMMA StillComing ==
    ASSUME StreamIInv, UNCHANGED <<revision, browser, link>>,
           \A s \in Streams : Coming(s) => Coming(s)'
    PROVE  NothingForgotten'
<1>1. page.stream \in Streams \cup {None} /\ NothingForgotten
  BY DEF StreamIInv, StreamTypeOK, PageTypeOK
<1>2. page' = page /\ shown' = shown /\ revision' = revision /\ link' = link
  BY DEF browser
<1>3. QED
  BY <1>1, <1>2 DEF NothingForgotten

\* A step of the generator s that puts nothing on its wire.
LEMMA GeneratorTells ==
    ASSUME StreamIInv, NEW s \in Streams, Moves(s), UNCHANGED <<revision, browser, network>>,
           Coming(s) => Coming(s)'
    PROVE  NothingForgotten'
<1>1. \A t \in Streams : t # s => (Coming(t)' <=> Coming(t))
  BY DEF Moves, Coming, network
<1>2. \A t \in Streams : Coming(t) => Coming(t)'
  BY <1>1
<1>3. link' = link
  BY DEF network
<1>4. QED
  BY <1>2, <1>3, StillComing

\* Whatever happens, the page will hear of the revision it does not show.
LEMMA ForgottenStep ==
    ASSUME StreamIInv, StreamTypeOK', [Next]_vars
    PROVE  NothingForgotten'
<1>1. /\ StreamTypeOK /\ HeldWhileBusy /\ KnownIsCommitted /\ NothingForgotten
      /\ page \in [stream : Streams \cup {None}, visible : BOOLEAN,
                   query : {"none", "asked", "answered"}, answer : Revisions]
      /\ page.stream \in Streams \cup {None}
      /\ revision \in Nat
  <2>1. StreamTypeOK /\ HeldWhileBusy /\ KnownIsCommitted /\ NothingForgotten
    BY DEF StreamIInv
  <2>2. page \in [stream : Streams \cup {None}, visible : BOOLEAN,
                  query : {"none", "asked", "answered"}, answer : Revisions]
    BY <2>1 DEF StreamTypeOK, PageTypeOK
  <2>3. revision \in Nat
    BY <2>1, Bounds DEF StreamTypeOK, BroadcasterTypeOK, Revisions
  <2>4. QED
    BY <2>1, <2>2, <2>3
<1>2. /\ stream \in [Streams -> Generator] /\ link \in [Streams -> {"up", "silent", "closed"}]
      /\ wire \in [Streams -> Seq(Events)] /\ wire' \in [Streams -> Seq(Events)]
  BY <1>1 DEF StreamTypeOK, NetworkTypeOK
<1>3. CASE Commit
  <2>1. revision' = revision + 1 /\ UNCHANGED <<stream, page, link>>
    BY <1>3 DEF Commit, network, browser
  <2>2. \A s \in Streams : Coming(s)'
    BY <1>1, <2>1, Parts DEF Coming, KnownIsCommitted
  <2>3. QED
    BY <1>1, <2>1, <2>2 DEF NothingForgotten
<1>4. CASE Publish \/ Announce \/ \E s \in Streams : Put(s)
  <2>1. UNCHANGED <<revision, stream, network, browser>>
    BY <1>4 DEF Publish, Announce, Put
  <2>2. link' = link /\ \A s \in Streams : Coming(s) => Coming(s)'
    BY <2>1 DEF Coming, network
  <2>3. QED
    BY <2>1, <2>2, StillComing
<1>5. ASSUME NEW s \in Streams, Begin(s) \/ Heartbeat(s) \/ GetMessage(s) \/ Compare(s) \/ Unavailable(s)
      PROVE  NothingForgotten'
  <2>1. UNCHANGED <<revision, network, browser>>
    BY <1>5 DEF Begin, Heartbeat, GetMessage, Compare, Unavailable, ByGenerator
  <2>2. /\ {"heartbeat", "resync", "chain_updated", "unavailable"} \subseteq Events
        /\ revision \in Revisions /\ revision <= revision /\ 0 \in Revisions /\ 0 <= revision
        /\ stream[s].revision \in Revisions /\ stream[s].revision <= revision
    BY <1>1, Bounds, Parts DEF Events, Messages, KnownIsCommitted, StreamTypeOK, BroadcasterTypeOK, Generator, Revisions
  <2>3. CASE Begin(s)
    <3>1. Moves(s) /\ stream'[s].pc = "send" /\ stream'[s].out = "resync"
      BY <2>2, <2>3, YieldMoves DEF Begin
    <3>2. QED
      BY <2>1, <3>1, GeneratorTells DEF Coming
  <2>4. CASE Heartbeat(s)
    <3>1. Moves(s) /\ stream'[s].revision = stream[s].revision
      BY <2>2, <2>4, YieldMoves DEF Heartbeat
    <3>2. Coming(s) => Coming(s)'
      BY <2>1, <2>4, <3>1 DEF Heartbeat, Coming, network
    <3>3. QED
      BY <2>1, <3>1, <3>2, GeneratorTells
  <2>5. CASE GetMessage(s)
    <3>1. Head(queue[s]) \in Messages
      BY <2>5, Parts, HeadTailProperties DEF GetMessage
    <3>2. Head(queue[s]) \in Events /\ Head(queue[s]) # "heartbeat"
      BY <3>1 DEF Events, Messages
    <3>3. Moves(s) /\ stream'[s].pc = "send" /\ stream'[s].out # "heartbeat"
      BY <2>2, <2>5, <3>2, YieldMoves DEF GetMessage
    <3>4. QED
      BY <2>1, <3>3, GeneratorTells DEF Coming
  <2>6. CASE Compare(s) /\ Announced(s)
    <3>1. Moves(s) /\ stream'[s].pc = "send" /\ stream'[s].out = "chain_updated"
      BY <2>2, <2>6, YieldMoves DEF Compare
    <3>2. QED
      BY <2>1, <3>1, GeneratorTells DEF Coming
  <2>7. CASE Compare(s) /\ ~Announced(s)
    <3>1. stream' = [stream EXCEPT ![s] = [stream[s] EXCEPT !.pc = "get", !.revision = revision, !.out = "heartbeat"]]
      BY <2>7 DEF Compare
    <3>2. Moves(s)
      BY <3>1, PointMoves DEF Points
    <3>3. Coming(s) => Coming(s)'
      BY <2>1, <2>7, <3>1 DEF Compare, Announced, Coming, network
    <3>4. QED
      BY <2>1, <3>2, <3>3, GeneratorTells
  <2>8. CASE Unavailable(s)
    <3>1. Moves(s) /\ stream'[s].pc = "send" /\ stream'[s].out = "unavailable"
      BY <2>2, <2>8, YieldMoves DEF Unavailable
    <3>2. QED
      BY <2>1, <3>1, GeneratorTells DEF Coming
  <2>9. QED
    BY <1>5, <2>3, <2>4, <2>5, <2>6, <2>7, <2>8
<1>6. ASSUME NEW s \in Streams, Send(s) PROVE NothingForgotten'
  <2>1. /\ wire' = [wire EXCEPT ![s] = Append(@, stream[s].out)]
        /\ stream[s].pc = "send" /\ UNCHANGED <<revision, browser, link>>
    BY <1>6 DEF Send
  <2>2. \A t \in Streams : t # s => stream'[t] = stream[t] /\ wire'[t] = wire[t]
    <3>1. CASE stream[s].next = "free"
      BY <1>2, <1>6, <2>1, <3>1 DEF Send, End
    <3>2. CASE stream[s].next # "free"
      BY <1>2, <1>6, <2>1, <3>2 DEF Send
    <3>3. QED
      BY <3>1, <3>2
  <2>3. Coming(s) => Coming(s)'
    <3>1. CASE stream[s].next = "free"
      <4>1. stream'[s].pc = "free"
        BY <1>2, <1>6, <3>1 DEF Send, End, Idle
      <4>2. QED
        BY <4>1 DEF Coming
    <3>2. CASE stream[s].next # "free" /\ (stream[s].revision # revision)
      <4>1. stream'[s].revision = stream[s].revision
        <5>1. stream' = [stream EXCEPT ![s].pc = stream[s].next, ![s].next = "get"]
          BY <1>6, <3>2 DEF Send
        <5>2. QED
          BY <1>2, <5>1, Parts DEF Generator
      <4>2. QED
        BY <2>1, <3>2, <4>1 DEF Coming
    <3>3. CASE stream[s].revision = revision
      <4>1. /\ stream[s].out \in Events /\ wire[s] \in Seq(Events)
            /\ wire'[s] = Append(wire[s], stream[s].out) /\ wire'[s] \in Seq(Events)
        BY <1>2, <2>1, Parts DEF Generator
      <4>2. Coming(s) => stream[s].out # "heartbeat" \/ Holds(wire[s], Telling)
        BY <2>1, <3>3, <4>1, WireHolds DEF Coming
      <4>3. Coming(s) => Holds(wire'[s], Telling)
        BY <4>1, <4>2, AppendHolds DEF Telling
      <4>4. QED
        BY <4>1, <4>3, WireHolds DEF Coming
    <3>4. QED
      BY <3>1, <3>2, <3>3
  <2>4. \A t \in Streams : Coming(t) => Coming(t)'
    BY <2>1, <2>2, <2>3 DEF Coming
  <2>5. QED
    BY <2>1, <2>4, StillComing
<1>7. ASSUME NEW s \in Streams, Cancel(s) \/ Abandon(s) PROVE NothingForgotten'
  <2>1. UNCHANGED <<revision, network, browser>>
    BY <1>7 DEF Cancel, Abandon
  <2>2. stream'[s].pc \in {"free", "abandoned"} /\ \A t \in Streams : t # s => stream'[t] = stream[t]
    <3>1. stream' = [stream EXCEPT ![s] = Idle] \/ stream' = [stream EXCEPT ![s].pc = "abandoned"]
      BY <1>7 DEF Cancel, Abandon, End
    <3>2. Idle.pc = "free"
      BY DEF Idle
    <3>3. QED
      BY <1>2, <3>1, <3>2, Parts DEF Generator
  <2>3. \A t \in Streams : Coming(t) => Coming(t)'
    BY <2>1, <2>2 DEF Coming, network
  <2>4. QED
    BY <2>1, <2>3, StillComing DEF network
<1>8. CASE Connect
  <2>1. PICK s \in Streams : page' = [page EXCEPT !.stream = s] /\ stream' = [stream EXCEPT ![s].pc = "opened"]
    BY <1>8 DEF Connect
  <2>2. page'.stream = s /\ stream'[s].pc = "opened"
    BY <1>1, <1>2, <2>1
  <2>3. QED
    BY <2>2 DEF NothingForgotten, Coming
<1>9. ASSUME page'.stream = None PROVE NothingForgotten'
  BY <1>9 DEF NothingForgotten
<1>10. ASSUME NEW p \in {page, [page EXCEPT !.visible = FALSE]}, Leave(p) PROVE NothingForgotten'
  <2>1. page' = [p EXCEPT !.stream = None] /\ p \in [stream : Streams \cup {None}, visible : BOOLEAN,
                   query : {"none", "asked", "answered"}, answer : Revisions]
    BY <1>1, <1>10 DEF Leave
  <2>2. QED
    BY <1>9, <2>1
<1>11. ASSUME NEW s \in Streams, Receive(s) PROVE NothingForgotten'
  <2>1. CASE Head(wire[s]) = "unavailable"
    BY <1>10, <1>11, <2>1 DEF Receive
  <2>2. CASE Head(wire[s]) \in Messages
    <3>1. page' = [page EXCEPT !.query = "asked", !.answer = 0]
      BY <1>11, <2>2 DEF Receive, Messages
    <3>2. QED
      BY <1>1, <3>1 DEF NothingForgotten
  <2>3. CASE Head(wire[s]) = "heartbeat"
    <3>1. /\ wire' = [wire EXCEPT ![s] = Tail(@)] /\ wire[s] # <<>>
          /\ UNCHANGED <<page, revision, stream, link, shown>>
      BY <1>11, <2>3 DEF Receive, Messages
    <3>2. Holds(wire[s], Telling) => Holds(wire'[s], Telling)
      BY <1>2, <2>3, <3>1, TailHolds DEF Telling
    <3>3. \A t \in Streams : Coming(t) => Coming(t)'
      <4>1. wire[s] \in Seq(Events) /\ wire'[s] \in Seq(Events)
        BY <1>2
      <4>2. Coming(s) => Coming(s)'
        BY <3>1, <3>2, <4>1, WireHolds DEF Coming
      <4>3. \A t \in Streams : t # s => wire'[t] = wire[t]
        BY <1>2, <3>1
      <4>4. QED
        BY <3>1, <4>2, <4>3 DEF Coming
    <3>4. QED
      BY <3>1, <3>3, StillComing DEF browser
  <2>4. QED
    <3>1. Head(wire[s]) \in Events
      BY <1>2, <1>11, HeadTailProperties DEF Receive
    <3>2. QED
      BY <2>1, <2>2, <2>3, <3>1 DEF Events
<1>12. CASE Answer
  <2>1. page' = [page EXCEPT !.query = "answered", !.answer = revision] /\ revision' = revision
    BY <1>12 DEF Answer
  <2>2. QED
    BY <1>1, <2>1 DEF NothingForgotten
<1>13. CASE Show
  <2>1. /\ page.query = "answered" /\ shown' = page.answer /\ page'.stream = page.stream
        /\ UNCHANGED <<revision, stream, network>>
    BY <1>1, <1>13 DEF Show
  <2>2. shown = revision => page.answer = revision
    BY <1>1, <2>1, Bounds DEF KnownIsCommitted, StreamTypeOK, PageTypeOK, Revisions
  <2>3. \A s \in Streams : Coming(s) => Coming(s)'
    BY <2>1 DEF Coming, network
  <2>4. QED
    BY <1>1, <2>1, <2>2, <2>3 DEF NothingForgotten, network
<1>14. CASE Error \/ Watchdog \/ (Hide /\ page.stream # None)
  BY <1>10, <1>14 DEF Error, Watchdog, Hide
<1>15. CASE GoSilent
  <2>1. UNCHANGED <<revision, stream, wire, browser>> /\ link' = [link EXCEPT ![page.stream] = "silent"]
        /\ page.stream \in Streams
    BY <1>1, <1>15 DEF GoSilent
  <2>2. page' = page /\ link'[page.stream] # "up"
    BY <1>2, <2>1 DEF browser
  <2>3. QED
    BY <2>2 DEF NothingForgotten
<1>16. CASE Unhide \/ (Hide /\ page.stream = None)
  <2>1. /\ UNCHANGED <<revision, stream, network, shown>>
        /\ page'.stream = page.stream /\ page'.query = page.query /\ page'.answer = page.answer
    BY <1>1, <1>16 DEF Unhide, Hide
  <2>2. \A s \in Streams : Coming(s) => Coming(s)'
    BY <2>1 DEF Coming, network
  <2>3. QED
    BY <1>1, <2>1, <2>2 DEF NothingForgotten, network
<1>17. CASE UNCHANGED vars
  <2>1. UNCHANGED <<revision, browser, link>> /\ \A s \in Streams : Coming(s) => Coming(s)'
    BY <1>17 DEF vars, network, Coming
  <2>2. QED
    BY <2>1, StillComing
<1>18. QED
  BY <1>3, <1>4, <1>5, <1>6, <1>7, <1>8, <1>11, <1>12, <1>13, <1>14, <1>15, <1>16, <1>17
     DEF Next, Browse, Server

----------------------------------------------------------------------------
\* The inductive invariant of the stream holds in every reachable state.
LEMMA StreamIInvAlways == Spec => []StreamIInv
<1>1. StreamIInv /\ [Next]_vars => StreamIInv'
  BY ServingStep, ForgottenStep DEF StreamIInv, Counted
<1>2. QED
  BY <1>1, StreamInit, PTL DEF Spec

\* A subscription, and its part of the counter, is held from the handler of
\* its connection until the finally of its generator, wherever that was
\* cancelled, and for good when the generator never took its first step: the
\* leak is the whole difference between the counter and the streams that are
\* served.  Every queue and wire stays within its bound.
THEOREM StreamsAreServed == Spec => []StreamInv
<1>1. StreamIInv => StreamInv
  <2>1. \A s \in Streams : stream[s].pc # "free" <=> Running(s) \/ Abandoned(s)
    BY DEF Running, Abandoned
  <2>2. QED
    BY <2>1 DEF StreamIInv, StreamInv, HeldWhileBusy, HeldUntilEnd
<1>2. QED
  BY <1>1, StreamIInvAlways, PTL

\* A queue that dropped messages holds a resync until one is sent, however
\* often it overflows and even when a resync is what it drops.
THEOREM LossesAreTold == Spec => []LossIsTold
<1>1. StreamIInv => LossIsTold
  BY DEF StreamIInv
<1>2. QED
  BY <1>1, StreamIInvAlways, PTL

\* A page whose connection works shows the committed revision or is going to
\* be told of it, whichever process committed and whatever a queue dropped.
THEOREM NothingIsForgotten == Spec => []NothingForgotten
<1>1. StreamIInv => NothingForgotten
  BY DEF StreamIInv
<1>2. QED
  BY <1>1, StreamIInvAlways, PTL
=============================================================================
