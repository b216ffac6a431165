----------------------------- MODULE Exceptions -----------------------------
(***************************************************************************)
(* Shipment exceptions: what backend/app/services/exceptions.py observes   *)
(* of the canonical journal, and the handlers of                           *)
(* backend/app/api/routes/exceptions.py and shipments.py around it.        *)
(*                                                                         *)
(* Every API process runs a worker that evaluates all shipments in one     *)
(* transaction.  It holds the indexer's writer lock while it reads and     *)
(* writes, so the journal, the policies and the episodes stand still; the  *)
(* clock, the health of its process and the arrival plans do not.          *)
(***************************************************************************)
EXTENDS Integers, FiniteSets, SequencesExt

CONSTANTS
    Shipments, Workers,
    Journals,        \* canonical logs a shipment's product may have
    Policies,        \* values of a policy
    DefaultPolicy,
    Off,             \* a rule that is disabled, or has no threshold
    NoPlan, NoTime, NoWorker, Paused,
    MaxTime,         \* bound: the clock
    MaxBlock,        \* bound: the cursor
    MaxCommits,      \* bound: commits of the indexer
    MaxSetbacks,     \* bound: times the clock is set back
    MaxEdits,        \* bound: changes of policies and plans
    MaxFaults        \* bound: evaluations that fail

Kinds == {"arrival_overdue", "checkpoint_inactivity", "checkpoint_wait", "custody_followup"}
Timed == {"CheckpointRecorded", "CustodyTransferred", "DeliveryCompleted"}
Time == 0..MaxTime

\* occ: the occurrence of a log; who: the handler, or the receiver of custody.
ASSUME ExceptionsAssumption ==
    /\ IsFiniteSet(Shipments)
    /\ {MaxTime, MaxBlock, MaxCommits, MaxSetbacks, MaxEdits, MaxFaults} \subseteq Nat
    /\ \A J \in Journals : \A i \in DOMAIN J :
          /\ J[i].type \in Timed \cup {"ProductRegistered"}
          /\ J[i].type \in Timed => J[i].time \in Nat
          /\ J[i].type = "CheckpointRecorded" => J[i].status \in 0..3
    /\ \A p \in Policies : p.arrival \in BOOLEAN /\ p.inactivity \in Nat \cup {Off}
                           /\ p.checkpoint \in Nat \cup {Off} /\ p.custody \in Nat \cup {Off}
    /\ DefaultPolicy \in Policies /\ Off \notin Nat /\ NoTime \notin Nat /\ Paused \notin Nat /\ NoWorker \notin Workers

VARIABLES
    clock, setbacks,
    journal,      \* canonical logs of every shipment's product, in chain order
    cursor,       \* number of the last processed block
    policy,       \* exception_policies: values and revision
    plan,         \* expected_arrival_at and expected_arrival_recorded_at
    episodes,     \* shipment_exceptions
    evaluated,    \* exception_evaluations: when and of which block
    health,       \* last_processed_block of each process, Paused unless its
                  \* indexer is current, with no lag and no gap
    holder,       \* who has the writer lock
    pc, local,    \* the worker of each process
    commits, edits, faults

db == <<journal, cursor, policy, plan, episodes, evaluated>>
worker == <<holder, pc, local>>
vars == <<clock, setbacks, db, health, worker, commits, edits, faults>>

Condition == [kind : Kinds, anchor : {e.occ : e \in UNION {Range(J) : J \in Journals}},
              threshold : Nat \cup {Off}, due : Nat]
Resolutions == {"condition_replaced", "condition_cleared", "evidence_withdrawn"}
Episode == [shipment : Shipments, cond : Condition, first : Time, last : Time,
            resolved : Time \cup {NoTime}, resolution : Resolutions \cup {"none"},
            acknowledged : Time \cup {NoTime}]
Plan == [at : Nat, recorded : Time] \cup {NoPlan}

IsOpen(e) == e.resolved = NoTime

\* At most one episode of a kind is open for a shipment (unique index).
OnePerKind(rows) ==
    \A i, j \in DOMAIN rows :
        IsOpen(rows[i]) /\ IsOpen(rows[j]) /\ rows[i].shipment = rows[j].shipment
        /\ rows[i].cond.kind = rows[j].cond.kind => i = j

Idle == [now |-> 0, before |-> 0, plans |-> [s \in Shipments |-> NoPlan], rows |-> <<>>]

Init ==
    /\ clock = 0 /\ setbacks = 0
    /\ journal \in [Shipments -> Journals] /\ cursor = 0
    /\ policy = [s \in Shipments |-> [values |-> DefaultPolicy, revision |-> 0]]
    /\ plan = [s \in Shipments |-> NoPlan]
    /\ episodes = <<>> /\ evaluated = [at |-> NoTime, block |-> 0]
    /\ health = [w \in Workers |-> Paused]
    /\ holder = NoWorker /\ pc = [w \in Workers |-> "idle"] /\ local = [w \in Workers |-> Idle]
    /\ commits = 0 /\ edits = 0 /\ faults = 0

----------------------------------------------------------------------------
(* conditions: what is overdue, from the logs of one shipment.             *)

IsCheckpoint(e) == e.type = "CheckpointRecorded"
Checkpoints(J) == {i \in DOMAIN J : IsCheckpoint(J[i])}
Departures(J) == {i \in Checkpoints(J) : J[i].status = 1}
Transfers(J) == {i \in DOMAIN J : J[i].type = "CustodyTransferred"}
Registered(J) == \E i \in DOMAIN J : J[i].type = "ProductRegistered"
DeliveredIn(J) ==
    \/ \E i \in DOMAIN J : J[i].type = "DeliveryCompleted"
    \/ \E i \in Checkpoints(J) : J[i].status = 3

\* A log from the future: nothing is known of this shipment.
Uncertain(J, now) ==
    Registered(J) /\ \E i \in DOMAIN J : J[i].type \in Timed /\ J[i].time > now

Overdue(kind, log, threshold, due) ==
    [kind |-> kind, anchor |-> log.occ, threshold |-> threshold, due |-> due]

\* The plan counts if it was recorded before the departure.
Arrival(J, p, planned) ==
    {Overdue("arrival_overdue", J[i], Off, planned.at) :
        i \in {d \in Departures(J) : /\ d = Min(Departures(J))
                                     /\ p.arrival /\ planned # NoPlan
                                     /\ planned.recorded <= J[d].time}}

Limit(log, p) == IF log.status = 2 THEN p.checkpoint ELSE p.inactivity

\* The latest checkpoint has its own threshold while the item is at one.
Activity(J, p) ==
    {Overdue(IF J[i].status = 2 THEN "checkpoint_wait" ELSE "checkpoint_inactivity",
             J[i], Limit(J[i], p), J[i].time + Limit(J[i], p)) :
        i \in {c \in Checkpoints(J) : /\ c = Max(Checkpoints(J))
                                      /\ Limit(J[c], p) # Off
                                      /\ Departures(J) # {} \/ J[c].status = 2}}

FollowedUp(J, t) == \E i \in Checkpoints(J) : i > t /\ J[i].who = J[t].who

Custody(J, p) ==
    {Overdue("custody_followup", J[t], p.custody, J[t].time + p.custody) :
        t \in {i \in Transfers(J) : i = Max(Transfers(J)) /\ p.custody # Off /\ ~FollowedUp(J, i)}}

\* A rule is overdue from its threshold on.
conditions(J, p, planned, now) ==
    IF ~Registered(J) \/ DeliveredIn(J) THEN {}
    ELSE {c \in Arrival(J, p, planned) \cup Activity(J, p) \cup Custody(J, p) : c.due <= now}

----------------------------------------------------------------------------
(* evaluate: one transaction over all shipments.                           *)

Occurrences(J) == {J[i].occ : i \in DOMAIN J}

\* Mutation: whatever is still overdue stays open as it is.
SettledByKind(e, expected, J, now) ==
    IF \E c \in expected : c.kind = e.cond.kind THEN [e EXCEPT !.last = now]
    ELSE [e EXCEPT !.resolved = now, !.resolution = "condition_cleared"]

\* What becomes of an open episode.
Settled(e, expected, J, now) ==
    CASE e.cond \in expected -> [e EXCEPT !.last = now]
      [] e.cond \notin expected /\ \E c \in expected : c.kind = e.cond.kind ->
            [e EXCEPT !.resolved = now, !.resolution = "condition_replaced"]
      [] OTHER ->
            [e EXCEPT !.resolved = now,
                      !.resolution = IF e.cond.anchor \in Occurrences(J)
                                     THEN "condition_cleared" ELSE "evidence_withdrawn"]

NewEpisode(s, c, now) ==
    [shipment |-> s, cond |-> c, first |-> now, last |-> now, resolved |-> NoTime,
     resolution |-> "none", acknowledged |-> NoTime]

UncertainAt(now) == {s \in Shipments : Uncertain(journal[s], now)}

Expected(plans, now) ==
    [s \in Shipments \ UncertainAt(now) |-> conditions(journal[s], policy[s].values, plans[s], now)]

\* An episode that is closed, or whose shipment is uncertain, stays as it is.
Carried(e, expected, now) ==
    IF IsOpen(e) /\ e.shipment \in DOMAIN expected
    THEN Settled(e, expected[e.shipment], journal[e.shipment], now)
    ELSE e

\* What is overdue and has no open episode.
Opened(expected) ==
    {o \in (DOMAIN expected) \X UNION Range(expected) :
        /\ o[2] \in expected[o[1]]
        /\ \A i \in DOMAIN episodes :
              ~(IsOpen(episodes[i]) /\ episodes[i].shipment = o[1] /\ episodes[i].cond = o[2])}

Evaluated(plans, now) ==
    LET expected == Expected(plans, now)
    IN [i \in DOMAIN episodes |-> Carried(episodes[i], expected, now)]
       \o SetToSeq({NewEpisode(o[1], o[2], now) : o \in Opened(expected)})

\* The clock is read first, then the health: pause_reason.
Begin(w) ==
    /\ pc[w] = "idle" /\ health[w] # Paused
    /\ pc' = [pc EXCEPT ![w] = "lock"]
    /\ local' = [local EXCEPT ![w] = [Idle EXCEPT !.now = clock, !.before = health[w]]]
    /\ UNCHANGED <<clock, setbacks, db, health, holder, commits, edits, faults>>

\* Mutation: a return without a rollback keeps the lock.
StopHolding(w) ==
    /\ pc' = [pc EXCEPT ![w] = "idle"] /\ local' = [local EXCEPT ![w] = Idle]
    /\ UNCHANGED holder
Stop(w) ==
    /\ pc' = [pc EXCEPT ![w] = "idle"] /\ local' = [local EXCEPT ![w] = Idle]
    /\ holder' = IF holder = w THEN NoWorker ELSE holder

\* Mutation: an assessment of an earlier time is accepted.
ClockIgnored(now) == TRUE
ClockAdvanced(now) == evaluated.at = NoTime \/ evaluated.at <= now

\* Mutation: the evaluator does not wait for the writer lock.
LockUnused == TRUE
LockFree == holder = NoWorker

\* The lock is tried; with it, everything is read and evaluated.
Evaluate(w) ==
    /\ pc[w] = "lock"
    /\ IF LockFree /\ cursor = local[w].before /\ ClockAdvanced(local[w].now)
       THEN /\ holder' = w /\ pc' = [pc EXCEPT ![w] = "recheck"]
            /\ local' = [local EXCEPT ![w].plans = plan, ![w].rows = Evaluated(plan, local[w].now)]
       ELSE Stop(w)
    /\ UNCHANGED <<clock, setbacks, db, health, commits, edits, faults>>

Recheck(w) ==
    /\ pc[w] = "recheck"
    /\ IF health[w] = local[w].before
       THEN pc' = [pc EXCEPT ![w] = "commit"] /\ UNCHANGED <<holder, local>>
       ELSE Stop(w)
    /\ UNCHANGED <<clock, setbacks, db, health, commits, edits, faults>>

Commit(w) ==
    /\ pc[w] = "commit"
    /\ episodes' = local[w].rows
    /\ evaluated' = [at |-> local[w].now, block |-> cursor]
    /\ Stop(w)
    /\ UNCHANGED <<clock, setbacks, journal, cursor, policy, plan, health, commits, edits, faults>>

\* An exception, or the process dies: nothing is kept.
Fail(w) ==
    /\ pc[w] # "idle" /\ faults < MaxFaults
    /\ faults' = faults + 1
    /\ Stop(w)
    /\ UNCHANGED <<clock, setbacks, db, health, commits, edits>>

----------------------------------------------------------------------------
(* The owner's handlers, in one transaction each.  policy and episodes     *)
(* change under the writer lock; a plan under the product's row lock,      *)
(* which orders it with the indexer's commits.                             *)

Edit == edits < MaxEdits /\ edits' = edits + 1
ByOwner == UNCHANGED <<clock, setbacks, journal, cursor, evaluated, health, worker, commits, faults>>

\* A save that repeats the values, or was made for another revision, changes
\* nothing.
update_policy(s, values) ==
    /\ holder = NoWorker /\ Edit /\ ByOwner
    /\ values # policy[s].values
    /\ policy' = [policy EXCEPT ![s] = [values |-> values, revision |-> @.revision + 1]]
    /\ UNCHANGED <<plan, episodes>>

Acknowledgeable(e) == IsOpen(e) /\ e.acknowledged = NoTime

acknowledge(i) ==
    /\ holder = NoWorker /\ ByOwner
    /\ Acknowledgeable(episodes[i])
    /\ episodes' = [episodes EXCEPT ![i].acknowledged = clock]
    /\ UNCHANGED <<policy, plan, edits>>

\* update_shipment: the plan is locked once a departure is indexed.
update_shipment(s, at) ==
    /\ Edit /\ ByOwner
    /\ Departures(journal[s]) = {} /\ ~DeliveredIn(journal[s])
    /\ plan' = [plan EXCEPT ![s] =
                   IF at = NoTime THEN NoPlan
                   ELSE IF @ # NoPlan /\ @.at = at THEN @
                   ELSE [at |-> at, recorded |-> clock]]
    /\ UNCHANGED <<policy, episodes>>

----------------------------------------------------------------------------
(* The indexers of the processes, and the clock.                           *)

\* A batch or a rewind is committed by one of them.
IndexerCommit ==
    /\ holder = NoWorker /\ commits < MaxCommits
    /\ \E s \in Shipments, J \in Journals : journal' = [journal EXCEPT ![s] = J]
    /\ cursor' \in 0..MaxBlock
    /\ commits' = commits + 1
    /\ UNCHANGED <<clock, setbacks, policy, plan, episodes, evaluated, health, worker, edits, faults>>

\* poll_once ends: the cursor becomes the process's progress.
Publish(w) ==
    /\ health' = [health EXCEPT ![w] = cursor]
    /\ UNCHANGED <<clock, setbacks, db, worker, commits, edits, faults>>

\* A new head, a failed poll, or no poll for too long.
FallBehind(w) ==
    /\ health' = [health EXCEPT ![w] = Paused]
    /\ UNCHANGED <<clock, setbacks, db, worker, commits, edits, faults>>

Tick ==
    /\ \/ clock < MaxTime /\ clock' = clock + 1 /\ UNCHANGED setbacks
       \/ clock > 0 /\ setbacks < MaxSetbacks /\ clock' = clock - 1 /\ setbacks' = setbacks + 1
    /\ UNCHANGED <<db, health, worker, commits, edits, faults>>

Owner == \/ \E s \in Shipments, values \in Policies : update_policy(s, values)
         \/ \E i \in DOMAIN episodes : acknowledge(i)
         \/ \E s \in Shipments, at \in Time \cup {NoTime} : update_shipment(s, at)

Step(w) == Begin(w) \/ Evaluate(w) \/ Recheck(w) \/ Commit(w)

Next == \/ \E w \in Workers : Step(w) \/ Fail(w) \/ Publish(w) \/ FallBehind(w)
        \/ Owner \/ IndexerCommit \/ Tick

Spec == Init /\ [][Next]_vars

=============================================================================
