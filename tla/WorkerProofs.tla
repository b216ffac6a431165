---------------------------- MODULE WorkerProofs ----------------------------
(***************************************************************************)
(* The indexer's thread and what the API says of it, for every setting of  *)
(* its delays and limits and any number of requests: the health published  *)
(* in several steps is consistent whenever it says ready, it is recent,    *)
(* and the flags never call a thread stopped that may still commit.        *)
(***************************************************************************)
EXTENDS Worker, TLAPS

LEMMA Numbers ==
    /\ Confirmations \in Nat /\ StartBlock \in Nat /\ MaxLag \in Nat /\ HeadStaleAfter \in Nat
    /\ MaxHead \in Nat /\ MaxFaults \in Nat /\ MaxStarts \in Nat
    /\ BatchSize \in Nat \ {0} /\ StaleAfter \in Nat \ {0} /\ PollInterval \in Nat \ {0}
    /\ StartupTimeout \in Nat \ {0} /\ RetryInterval \in Nat \ {0} /\ RetryMax \in Nat \ {0}
    /\ MaxFailures \in 1..17 /\ StartBlock + Confirmations <= MaxHead
BY WorkerAssumption

\* None is none of the values that stand next to it.
LEMMA NoneIsNone ==
    /\ \A n \in Nat : n # None
    /\ None \notin Heights /\ None \notin Errors /\ None # "returned" /\ None # "commit"
<1>1. Heights \subseteq Nat
  BY Numbers DEF Heights
<1>2. QED
  BY <1>1, NoneAssumption DEF Stops

LEMMA Limits ==
    /\ StaleLimit \in Nat \ {0} /\ Most(PollInterval, RetryMax) \in Nat
    /\ PollInterval <= Most(PollInterval, RetryMax) /\ RetryMax <= Most(PollInterval, RetryMax)
BY Numbers DEF StaleLimit, Most

\* The delay after a failure is one of the waits.
LEMMA DelayBounded ==
    ASSUME NEW n \in 1..MaxFailures
    PROVE  Delay(n) \in 0..RetryMax
<1>1. n - 1 \in 0..16
  BY Numbers
<1>2. 2^(n - 1) \in Nat
  BY <1>1, PowersOfTwo
<1>3. RetryInterval * 2^(n - 1) \in Nat
  BY <1>2, Numbers
<1>4. QED
  BY <1>3, Numbers DEF Delay, Least

----------------------------------------------------------------------------
(* The inductive invariant.                                                *)

\* A call that hangs is one of those that may; nothing passes between the
\* commit of a batch and its record.
ThreadInv ==
    /\ hung => pc \in {"connect", "connected", "batch", "commit"}
    /\ pc \in {"publish", "record"} => quiet = 0
    /\ pc \in {"batch", "commit", "publish", "record"} => worker.target # None

\* What the flags say.
FlagsInv ==
    /\ Alive => worker.running /\ stoppedAt # "returned"
    /\ StopIsHeeded

\* The numbers of an observed head belong together, and a success is not
\* more recent than the last commit.
HealthInv ==
    /\ (worker.chainHead = None) = (worker.target = None)
    /\ worker.chainHead # None => worker.target = Most(0, worker.chainHead - Confirmations)
    /\ age.success # None => quiet <= age.success

\* Who was told that the database answers waited for that check.
RequestsInv == \A r \in Requests : request[r] = "connected" => checked[r]

WorkerIInv == WorkerTypeOK /\ ThreadInv /\ FlagsInv /\ HealthInv /\ RequestsInv

LEMMA WorkerInit == Init => WorkerIInv
<1> SUFFICES ASSUME Init PROVE WorkerIInv
  OBVIOUS
<1> USE DEF Init
<1>1. ThreadTypeOK
  <2>1. /\ 0 \in 0..MaxFailures /\ 0 \in 0..Most(PollInterval, RetryMax)
    BY Numbers, Limits
  <2>2. QED
    BY <2>1, NoneIsNone DEF ThreadTypeOK, Unborn, Running
<1>2. ClockTypeOK
  BY Limits DEF ClockTypeOK
<1>3. ProbeTypeOK
  BY DEF ProbeTypeOK
<1>4. WorkerTypeOK
  <2>1. head \in Heights /\ faults \in 0..MaxFaults /\ starts \in 0..MaxStarts
    BY Numbers DEF Heights
  <2>2. QED
    BY <1>1, <1>2, <1>3, <2>1 DEF WorkerTypeOK
<1>5. ThreadInv /\ FlagsInv
  BY DEF ThreadInv, FlagsInv, Alive, StopIsHeeded
<1>6. HealthInv /\ RequestsInv
  BY DEF HealthInv, RequestsInv, Unborn
<1>7. QED
  BY <1>4, <1>5, <1>6 DEF WorkerIInv

----------------------------------------------------------------------------
(* Steps of the thread.                                                    *)

\* The fields of EventIndexer.
Fields == [running : BOOLEAN, stop : BOOLEAN, connected : BOOLEAN,
           error : Errors \cup {None}, failures : 0..MaxFailures,
           chainHead : Heights \cup {None}, target : Heights \cup {None},
           processed : Heights \cup {None}, before : Heights \cup {None}]

Ages == [success : 0..StaleLimit \cup {None}, progress : 0..StaleLimit \cup {None},
         started : 0..StartupTimeout \cup {None}, head : 0..HeadStaleAfter \cup {None}]

\* What every step may count on.
LEMMA Typed ==
    ASSUME WorkerIInv
    PROVE  /\ WorkerTypeOK /\ ThreadTypeOK /\ ClockTypeOK /\ ProbeTypeOK
           /\ worker \in Fields /\ age \in Ages
           /\ ThreadInv /\ FlagsInv /\ HealthInv /\ RequestsInv
BY DEF WorkerIInv, WorkerTypeOK, ThreadTypeOK, ClockTypeOK, Fields, Ages

\* A step that leaves the check of the database and its requests alone.
LEMMA ProbeKept ==
    ASSUME WorkerIInv, UNCHANGED probe
    PROVE  ProbeTypeOK' /\ RequestsInv'
BY Typed DEF ProbeTypeOK, RequestsInv, probe

\* A step of the thread to a point where it holds no transaction, without a
\* new observation of the head.
LEMMA PointStep ==
    ASSUME WorkerIInv, UNCHANGED <<head, cursor, database, probe, starts, age, quiet, stoppedAt, hung>>,
           NEW point \in Running \ {"commit", "publish", "record"}, pc' = point, pc # "dead",
           new' = None, ~hung,
           worker' \in Fields, timer' \in 0..Most(PollInterval, RetryMax), faults' \in 0..MaxFaults,
           worker'.running, worker'.chainHead = worker.chainHead, worker'.target = worker.target,
           point = "batch" => worker.target # None
    PROVE  WorkerIInv'
<1>1. ThreadTypeOK'
  BY Typed DEF ThreadTypeOK, Fields
<1>2. ClockTypeOK' /\ HealthInv'
  BY Typed DEF ClockTypeOK, HealthInv
<1>3. WorkerTypeOK'
  BY <1>1, <1>2, ProbeKept, Typed DEF WorkerTypeOK
<1>4. ThreadInv'
  BY Typed DEF ThreadInv
<1>5. FlagsInv'
  BY Typed DEF FlagsInv, StopIsHeeded, Alive
<1>6. QED
  BY <1>2, <1>3, <1>4, <1>5, ProbeKept DEF WorkerIInv

\* start, stop and what its caller is told.
LEMMA ApplicationStep ==
    ASSUME WorkerIInv, start \/ RequestStop \/ Stopped
    PROVE  WorkerIInv'
<1> USE DEF Fields, Ages
<1>1. UNCHANGED <<head, cursor, database, probe, faults, new, timer, hung, quiet>>
  BY DEF start, RequestStop, Stopped, NotThread, bounds
<1>2. /\ worker' \in Fields /\ worker'.chainHead = worker.chainHead /\ worker'.target = worker.target
      /\ stoppedAt' \in Stops \cup {None}
  <2>1. 0 \in 0..MaxFailures
    BY Numbers
  <2>2. QED
    BY <2>1, Typed DEF start, RequestStop, Stopped, Stops
<1>3. CASE start
  <2>1. /\ pc' = "top" /\ pc = "dead" /\ stoppedAt' = None /\ starts' = starts + 1 /\ starts < MaxStarts
        /\ age' = [age EXCEPT !.started = 0, !.success = None, !.progress = None]
        /\ worker'.running = TRUE
    BY <1>3, Typed DEF start, Alive
  <2>2. age' \in Ages /\ age'.success = None
    <3>1. 0 \in 0..StartupTimeout
      BY Numbers
    <3>2. QED
      BY <2>1, <3>1, Typed
  <2>3. ThreadTypeOK' /\ ClockTypeOK'
    BY <1>1, <1>2, <2>1, <2>2, Typed DEF ThreadTypeOK, ClockTypeOK, Running
  <2>4. WorkerTypeOK'
    BY <1>1, <2>1, <2>3, ProbeKept, Typed, Numbers DEF WorkerTypeOK
  <2>5. ThreadInv' /\ FlagsInv' /\ HealthInv'
    BY <1>1, <1>2, <2>1, <2>2, Typed, NoneIsNone DEF ThreadInv, FlagsInv, HealthInv, StopIsHeeded, Alive
  <2>6. QED
    BY <1>1, <2>4, <2>5, ProbeKept DEF WorkerIInv
<1>4. CASE RequestStop \/ Stopped
  <2>1. UNCHANGED <<pc, age, starts>>
    BY <1>4 DEF RequestStop, Stopped, NotThread, bounds
  <2>2. ThreadTypeOK' /\ ClockTypeOK'
    BY <1>1, <1>2, <2>1, Typed DEF ThreadTypeOK, ClockTypeOK
  <2>3. WorkerTypeOK'
    BY <1>1, <2>1, <2>2, ProbeKept, Typed DEF WorkerTypeOK
  <2>4. ThreadInv' /\ HealthInv'
    BY <1>1, <1>2, <2>1, Typed DEF ThreadInv, HealthInv
  <2>5. FlagsInv'
    BY <1>4, <2>1, Typed DEF RequestStop, Stopped, FlagsInv, StopIsHeeded, Alive, Joined
  <2>6. QED
    BY <1>1, <2>3, <2>4, <2>5, ProbeKept DEF WorkerIInv
<1>5. QED
  BY <1>3, <1>4

\* Any failure keeps the fields typed, the flags and what was observed.
LEMMA FailingFields ==
    ASSUME WorkerIInv, NEW error \in Errors, Failing(error)
    PROVE  /\ worker' \in Fields /\ worker'.running = worker.running
           /\ worker'.chainHead = worker.chainHead /\ worker'.target = worker.target
           /\ timer' \in 0..Most(PollInterval, RetryMax) /\ pc' = "retry"
<1> DEFINE n == Least(worker.failures + 1, MaxFailures)
           c == worker.connected /\ error \in {"writer_busy", "reconciliation_required"}
<1>1. worker' = [worker EXCEPT !.error = error, !.failures = n, !.connected = c]
  BY DEF Failing
<1>2. n \in 1..MaxFailures
  BY Typed, Numbers DEF Fields, Least
<1>3. c \in BOOLEAN
  OBVIOUS
<1> HIDE DEF n, c
<1>4. n \in 0..MaxFailures
  BY <1>2, Numbers
<1>5. worker' \in Fields /\ worker'.running = worker.running /\ worker'.failures = n
      /\ worker'.chainHead = worker.chainHead /\ worker'.target = worker.target
  BY <1>1, <1>3, <1>4, Typed DEF Fields
<1>6. timer' \in 0..RetryMax
  BY <1>2, <1>5, DelayBounded DEF Failing
<1>7. QED
  BY <1>5, <1>6, Limits, Numbers DEF Failing, To

\* A transaction that ends without a commit.
LEMMA AbandonStep ==
    ASSUME WorkerIInv, UNCHANGED <<head, cursor, database, probe, starts, age, quiet, stoppedAt>>,
           pc \notin {"dead", "publish", "record"}, new' = None, hung' = FALSE, faults' \in 0..MaxFaults,
           NEW error \in Errors, Failing(error)
    PROVE  WorkerIInv'
<1>1. ThreadTypeOK'
  BY FailingFields, Typed DEF ThreadTypeOK, Fields, Running
<1>2. ClockTypeOK' /\ HealthInv'
  BY FailingFields, Typed DEF ClockTypeOK, HealthInv
<1>3. WorkerTypeOK'
  BY <1>1, <1>2, ProbeKept, Typed DEF WorkerTypeOK
<1>4. ThreadInv' /\ FlagsInv'
  BY FailingFields, Typed DEF ThreadInv, FlagsInv, StopIsHeeded, Alive
<1>5. QED
  BY <1>2, <1>3, <1>4, ProbeKept DEF WorkerIInv

\* The steps of a poll that end before its transaction.
LEMMA PollStep ==
    ASSUME WorkerIInv, Top \/ Connect \/ Wake
    PROVE  WorkerIInv'
<1>1. UNCHANGED <<head, cursor, database, probe, starts, age, quiet, stoppedAt, hung, faults, new>>
  BY DEF Top, Connect, Wake, Local, bounds
<1>2. pc' \in {"leave", "connected", "connect", "top"}
  BY DEF Top, Connect, Wake, To
<1>3. pc \in {"top", "connect", "wait", "retry"} /\ ~hung
  BY Typed DEF Top, Connect, Wake, At, ThreadInv
<1>4. new = None
  BY <1>3, Typed DEF ThreadTypeOK
<1>5. worker' \in Fields /\ worker'.running = worker.running
      /\ worker'.chainHead = worker.chainHead /\ worker'.target = worker.target
  BY Typed DEF Top, Connect, Wake, Fields
<1>6. timer' \in 0..Most(PollInterval, RetryMax)
  BY Typed, Limits DEF Top, Connect, Wake, ThreadTypeOK
<1>7. worker.running /\ faults \in 0..MaxFaults
  BY <1>3, Typed DEF FlagsInv, Alive, WorkerTypeOK
<1>8. QED
  BY <1>1, <1>2, <1>3, <1>4, <1>5, <1>6, <1>7, PointStep DEF Running

\* A head is observed whole: its height, and the target that follows from it.
LEMMA ObserveStep ==
    ASSUME WorkerIInv, ObserveHead
    PROVE  WorkerIInv'
<1>1. /\ pc = "connected" /\ ~hung /\ new = None /\ worker.running
      /\ UNCHANGED <<head, cursor, new, timer, hung, database, probe, starts, quiet, stoppedAt>>
  BY Typed DEF ObserveHead, At, ThreadTypeOK, FlagsInv, Alive
<1>2. CASE Stopping
  <2>1. UNCHANGED <<worker, age, faults>> /\ pc' = "leave"
    BY <1>2 DEF ObserveHead, To
  <2>2. worker' \in Fields /\ timer' \in 0..Most(PollInterval, RetryMax) /\ faults' \in 0..MaxFaults
    BY <1>1, <2>1, Typed DEF WorkerTypeOK, ThreadTypeOK
  <2>3. QED
    BY <1>1, <2>1, <2>2, PointStep DEF Running
<1>3. CASE ~Stopping
  <2>1. PICK h \in Heights :
            /\ \/ h = head /\ UNCHANGED faults
               \/ h < head /\ faults < MaxFaults /\ faults' = faults + 1
            /\ worker' = [Observed(h) EXCEPT !.before = worker.processed]
            /\ age' = [age EXCEPT !.head = IF worker.chainHead = h THEN @ ELSE 0]
            /\ pc' = "batch"
    BY <1>3 DEF ObserveHead, To
  <2>2. Most(0, h - Confirmations) \in Heights /\ h # None /\ Most(0, h - Confirmations) # None
    BY Numbers, NoneIsNone DEF Heights, Most
  <2>3. /\ worker' \in Fields /\ worker'.running /\ worker'.stop = worker.stop
        /\ worker'.chainHead = h /\ worker'.target = Most(0, h - Confirmations)
    BY <1>1, <2>1, <2>2, Typed DEF Fields, Observed
  <2>4. age' \in Ages /\ age'.success = age.success
    <3>1. 0 \in 0..HeadStaleAfter
      BY Numbers
    <3>2. QED
      BY <2>1, <3>1, Typed DEF Ages
  <2>5. faults' \in 0..MaxFaults
    BY <2>1, Typed, Numbers DEF WorkerTypeOK
  <2>6. ThreadTypeOK' /\ ClockTypeOK'
    BY <1>1, <2>1, <2>3, <2>4, Typed DEF ThreadTypeOK, ClockTypeOK, Fields, Ages, Running
  <2>7. WorkerTypeOK'
    BY <1>1, <2>5, <2>6, ProbeKept, Typed DEF WorkerTypeOK
  <2>8. ThreadInv' /\ FlagsInv' /\ HealthInv'
    BY <1>1, <2>1, <2>2, <2>3, <2>4, Typed DEF ThreadInv, FlagsInv, StopIsHeeded, HealthInv, Alive
  <2>9. QED
    BY <1>1, <2>7, <2>8, ProbeKept DEF WorkerIInv
<1>4. QED
  BY <1>2, <1>3

\* Where a batch ends is a height.
LEMMA AdvancedIsHeight ==
    ASSUME WorkerIInv, worker.target # None, NEW base \in Heights
    PROVE  Advanced(base) \in Heights
<1>1. worker.target \in Heights
  BY Typed DEF Fields
<1>2. QED
  BY <1>1, Numbers DEF Advanced, Heights, Most, Least

LEMMA NewCursorsAreHeights ==
    ASSUME WorkerIInv, worker.target # None
    PROVE  NewCursors \subseteq Heights
<1>1. StartBlock \in Heights /\ cursor \in Heights \cup {None}
  BY Typed, Numbers DEF Heights, WorkerTypeOK
<1>2. \A b \in StartBlock..(cursor - 1) : cursor # None => b \in Heights
  BY <1>1, Numbers DEF Heights
<1>3. QED
  BY <1>1, <1>2, AdvancedIsHeight DEF NewCursors

LEMMA BatchStep ==
    ASSUME WorkerIInv, Batch
    PROVE  WorkerIInv'
<1>1. /\ pc = "batch" /\ ~hung /\ new = None /\ worker.running /\ worker.target # None
      /\ UNCHANGED <<head, cursor, age, hung, database, probe, starts, quiet, stoppedAt>>
  BY Typed DEF Batch, At, ThreadTypeOK, FlagsInv, Alive, ThreadInv
<1>2. faults \in 0..MaxFaults
  BY Typed DEF WorkerTypeOK
<1>3. CASE UNCHANGED <<new, faults>> /\ (Failing("poll_failed") \/ Failing("reconciliation_required"))
  <2>1. hung' = FALSE
    BY <1>1, Typed DEF ThreadTypeOK
  <2>2. "poll_failed" \in Errors /\ "reconciliation_required" \in Errors
    BY DEF Errors
  <2>3. pc \notin {"dead", "publish", "record"} /\ new' = None /\ faults' \in 0..MaxFaults
    BY <1>1, <1>2, <1>3
  <2>4. QED
    BY <1>1, <1>3, <2>1, <2>2, <2>3, AbandonStep
<1>4. CASE Stopping /\ UNCHANGED <<worker, timer, new, faults>> /\ pc' = "leave"
  <2>1. worker' \in Fields /\ timer' \in 0..Most(PollInterval, RetryMax)
    BY <1>4, Typed DEF ThreadTypeOK
  <2>2. QED
    BY <1>1, <1>2, <1>4, <2>1, PointStep DEF Running
<1>5. ASSUME ~Stopping, UNCHANGED <<worker, timer>>, pc' = "commit",
             NEW n \in NewCursors, new' = n,
             faults' = IF cursor # None /\ n # Advanced(cursor) THEN faults + 1 ELSE faults
      PROVE  WorkerIInv'
  <2>1. n \in Heights /\ n # None
    BY <1>1, <1>5, NewCursorsAreHeights, NoneIsNone
  <2>2. faults' \in 0..MaxFaults
    <3>1. cursor # None /\ n # Advanced(cursor) => faults < MaxFaults
      BY <1>5 DEF NewCursors
    <3>2. QED
      BY <1>2, <1>5, <3>1, Numbers
  <2>3. ThreadTypeOK' /\ ClockTypeOK'
    BY <1>1, <1>5, <2>1, Typed DEF ThreadTypeOK, ClockTypeOK, Running
  <2>4. WorkerTypeOK'
    BY <1>1, <2>2, <2>3, ProbeKept, Typed DEF WorkerTypeOK
  <2>5. ThreadInv' /\ FlagsInv' /\ HealthInv'
    BY <1>1, <1>5, Typed DEF ThreadInv, FlagsInv, StopIsHeeded, HealthInv, Alive, Stopping
  <2>6. QED
    BY <1>1, <2>4, <2>5, ProbeKept DEF WorkerIInv
<1>6. QED
  BY <1>3, <1>4, <1>5 DEF Batch, To

\* The commit, and its publication under the lock.
LEMMA CommitStep ==
    ASSUME WorkerIInv, Commit \/ Publish
    PROVE  WorkerIInv'
<1>1. /\ UNCHANGED <<head, age, timer, hung, database, probe, faults, starts, stoppedAt>>
      /\ pc \in {"commit", "publish"} /\ ~hung /\ worker.running /\ worker.target # None
      /\ new \in Heights
  BY Typed DEF Commit, Publish, Local, bounds, At, ThreadTypeOK, FlagsInv, Alive, ThreadInv
<1>2. /\ cursor' \in Heights \cup {None} /\ quiet' = 0
  BY <1>1, Typed DEF Commit, Publish, Local, WorkerTypeOK, ThreadInv, At
<1>3. /\ worker' \in Fields /\ worker'.running /\ worker'.stop = worker.stop
      /\ worker'.chainHead = worker.chainHead /\ worker'.target = worker.target
  BY <1>1, Typed DEF Commit, Publish, Fields
<1>4. pc' \in {"publish", "record"} /\ (new' # None <=> pc' \in {"commit", "publish"})
      /\ new' \in Heights \cup {None}
  BY <1>1, NoneIsNone DEF Commit, Publish, To
<1>5. ThreadTypeOK' /\ ClockTypeOK'
  BY <1>1, <1>2, <1>3, <1>4, Typed, Limits DEF ThreadTypeOK, ClockTypeOK, Fields, Running
<1>6. WorkerTypeOK'
  BY <1>1, <1>2, <1>5, ProbeKept, Typed DEF WorkerTypeOK
<1>7. ThreadInv' /\ FlagsInv'
  BY <1>1, <1>2, <1>3, <1>4, Typed DEF ThreadInv, FlagsInv, StopIsHeeded, Alive
<1>8. HealthInv'
  <2>1. age.success # None => 0 <= age.success
    BY Typed, Limits DEF Ages
  <2>2. QED
    BY <1>1, <1>2, <1>3, <2>1, Typed DEF HealthInv
<1>9. QED
  BY <1>1, <1>6, <1>7, <1>8, ProbeKept DEF WorkerIInv

\* A success is recorded in the same moment as the commit it is about.
LEMMA RecordStep ==
    ASSUME WorkerIInv, Record
    PROVE  WorkerIInv'
<1>1. /\ UNCHANGED <<head, cursor, new, hung, database, probe, faults, starts, quiet, stoppedAt>>
      /\ pc = "record" /\ ~hung /\ worker.running /\ quiet = 0 /\ new = None
  BY Typed DEF Record, Local, bounds, At, ThreadTypeOK, FlagsInv, Alive, ThreadInv
<1>2. /\ worker' \in Fields /\ worker'.running /\ worker'.stop = worker.stop
      /\ worker'.chainHead = worker.chainHead /\ worker'.target = worker.target
  <2>1. 0 \in 0..MaxFailures
    BY Numbers
  <2>2. QED
    BY <1>1, <2>1, Typed DEF Record, Recorded, Fields
<1>3. age' \in Ages /\ age'.success = 0
  <2>1. 0 \in 0..StaleLimit
    BY Limits
  <2>2. QED
    BY <2>1, Typed DEF Record, Ages
<1>4. pc' \in {"wait", "top"} /\ timer' \in 0..Most(PollInterval, RetryMax)
  BY Typed, Numbers, Limits DEF Record, To, ThreadTypeOK
<1>5. ThreadTypeOK' /\ ClockTypeOK'
  BY <1>1, <1>2, <1>3, <1>4, Typed DEF ThreadTypeOK, ClockTypeOK, Fields, Ages, Running
<1>6. WorkerTypeOK'
  BY <1>1, <1>5, ProbeKept, Typed DEF WorkerTypeOK
<1>7. ThreadInv' /\ FlagsInv' /\ HealthInv'
  BY <1>1, <1>2, <1>3, <1>4, Typed DEF ThreadInv, FlagsInv, StopIsHeeded, HealthInv, Alive
<1>8. QED
  BY <1>1, <1>6, <1>7, ProbeKept DEF WorkerIInv

\* The thread ends, or its process does.
LEMMA EndStep ==
    ASSUME WorkerIInv, Leave \/ Restart
    PROVE  WorkerIInv'
<1>1. /\ UNCHANGED <<head, cursor, database, faults, starts, quiet>>
      /\ pc' = "dead" /\ new' = None /\ hung' = FALSE
  BY Typed DEF Leave, Restart, Local, bounds, At, To, ThreadTypeOK
<1>2. /\ worker' \in Fields
      /\ \/ worker'.chainHead = worker.chainHead /\ worker'.target = worker.target
         \/ worker'.chainHead = None /\ worker'.target = None
  <2>1. CASE Leave
    BY <2>1, Typed DEF Leave, Fields
  <2>2. CASE Restart
    <3>1. 0 \in 0..MaxFailures
      BY Numbers
    <3>2. worker' = Unborn
      BY <2>2 DEF Restart
    <3>3. QED
      BY <3>1, <3>2 DEF Fields, Unborn
  <2>3. QED
    BY <2>1, <2>2
<1>3. /\ timer' \in 0..Most(PollInterval, RetryMax) /\ stoppedAt' \in Stops \cup {None}
      /\ age' \in Ages /\ age'.success \in {age.success, None}
  BY Typed, Limits DEF Leave, Restart, Local, ThreadTypeOK, Ages
<1>4. ThreadTypeOK' /\ ClockTypeOK'
  BY <1>1, <1>2, <1>3, Typed DEF ThreadTypeOK, ClockTypeOK, Fields, Ages
<1>5. ProbeTypeOK' /\ RequestsInv'
  <2>1. CASE Leave
    BY <2>1, ProbeKept DEF Leave, Local
  <2>2. CASE Restart
    BY <2>2 DEF Restart, ProbeTypeOK, RequestsInv
  <2>3. QED
    BY <2>1, <2>2
<1>6. WorkerTypeOK'
  BY <1>1, <1>4, <1>5, Typed DEF WorkerTypeOK
<1>7. ThreadInv' /\ FlagsInv' /\ HealthInv'
  BY <1>1, <1>2, <1>3, Typed DEF ThreadInv, FlagsInv, StopIsHeeded, HealthInv, Alive
<1>8. QED
  BY <1>5, <1>6, <1>7 DEF WorkerIInv

\* A call of a poll fails, or hangs.
LEMMA FaultStep ==
    ASSUME WorkerIInv, Fault \/ Hang
    PROVE  WorkerIInv'
<1>1. faults' \in 0..MaxFaults
  BY Typed, Numbers DEF Fault, Hang, WorkerTypeOK
<1>2. CASE Fault
  <2>1. PICK error \in Errors : Failing(error)
    BY <1>2 DEF Fault, Errors
  <2>2. QED
    BY <1>1, <1>2, <2>1, AbandonStep DEF Fault
<1>3. CASE Hang
  <2>1. /\ UNCHANGED <<head, cursor, pc, new, worker, age, timer, database, probe, starts, quiet, stoppedAt>>
        /\ hung' = TRUE /\ pc \in {"connect", "connected", "batch", "commit"}
    BY <1>3 DEF Hang
  <2>2. ThreadTypeOK' /\ ClockTypeOK'
    BY <2>1, Typed DEF ThreadTypeOK, ClockTypeOK
  <2>3. WorkerTypeOK'
    BY <1>1, <2>1, <2>2, ProbeKept, Typed DEF WorkerTypeOK
  <2>4. ThreadInv' /\ FlagsInv' /\ HealthInv'
    BY <2>1, Typed DEF ThreadInv, FlagsInv, StopIsHeeded, HealthInv, Alive
  <2>5. QED
    BY <2>1, <2>3, <2>4, ProbeKept DEF WorkerIInv
<1>4. QED
  BY <1>2, <1>3

----------------------------------------------------------------------------
(* Requests, the clock and everybody else.                                 *)

\* A step that leaves the thread and its health alone.
LEMMA ThreadKept ==
    ASSUME WorkerIInv, UNCHANGED <<thread, stoppedAt, quiet>>
    PROVE  ThreadTypeOK' /\ ClockTypeOK' /\ ThreadInv' /\ FlagsInv' /\ HealthInv'
<1>1. UNCHANGED <<pc, new, worker, age, timer, hung, stoppedAt, quiet>>
  BY DEF thread
<1>2. ThreadTypeOK' /\ ClockTypeOK'
  BY <1>1, Typed DEF ThreadTypeOK, ClockTypeOK
<1>3. QED
  BY <1>1, <1>2, Typed DEF ThreadInv, FlagsInv, StopIsHeeded, HealthInv, Alive

LEMMA RequestStep ==
    ASSUME WorkerIInv, CheckEnds \/ \E r \in Requests : Ask(r) \/ TimeOut(r) \/ Respond(r)
    PROVE  WorkerIInv'
<1>1. UNCHANGED <<head, cursor, thread, database, bounds, stoppedAt, quiet>>
  BY DEF CheckEnds, Ask, TimeOut, Respond, NotProbe
<1>2. ProbeTypeOK' /\ RequestsInv'
  <2>1. CASE CheckEnds
    <3>1. checks' = 0 /\ pending' = "done"
      BY <2>1, Typed DEF CheckEnds, ProbeTypeOK
    <3>2. request' \in [Requests -> {"idle", "waiting", "ready"} \cup Answers]
      BY <2>1, Typed DEF CheckEnds, ProbeTypeOK, Answers
    <3>3. checked' = [r \in Requests |-> checked[r] \/ request[r] = "waiting"]
      BY <2>1 DEF CheckEnds
    <3>4. checked' \in [Requests -> BOOLEAN]
      BY <3>3
    <3>5. RequestsInv'
      BY <2>1, <3>3, Typed DEF CheckEnds, RequestsInv
    <3>6. QED
      BY <3>1, <3>2, <3>4, <3>5 DEF ProbeTypeOK
  <2>2. ASSUME NEW r \in Requests, Ask(r) PROVE ProbeTypeOK' /\ RequestsInv'
    <3>1. pending' = "running" /\ checks' = 1
      BY <2>2, Typed DEF Ask, NeedsCheck, ProbeTypeOK
    <3>2. request' = [request EXCEPT ![r] = "waiting"] /\ checked' = checked
      BY <2>2, <3>1 DEF Ask
    <3>3. QED
      BY <3>1, <3>2, Typed DEF ProbeTypeOK, RequestsInv
  <2>3. ASSUME NEW r \in Requests, TimeOut(r) PROVE ProbeTypeOK' /\ RequestsInv'
    BY <2>3, Typed DEF TimeOut, ProbeTypeOK, RequestsInv, Answers
  <2>4. ASSUME NEW r \in Requests, Respond(r) PROVE ProbeTypeOK' /\ RequestsInv'
    <3>1. PICK answer \in {"ready", "idle"} : request' = [request EXCEPT ![r] = answer]
      BY <2>4 DEF Respond
    <3>2. checked' = [checked EXCEPT ![r] = FALSE] /\ UNCHANGED <<checks, pending>>
      BY <2>4 DEF Respond
    <3>3. QED
      BY <3>1, <3>2, Typed DEF ProbeTypeOK, RequestsInv
  <2>5. QED
    BY <2>1, <2>2, <2>3, <2>4
<1>3. WorkerTypeOK'
  BY <1>1, <1>2, ThreadKept, Typed DEF WorkerTypeOK, bounds
<1>4. QED
  BY <1>1, <1>2, <1>3, ThreadKept DEF WorkerIInv

\* A tick, which a limit stops counting.
LEMMA TickStep ==
    ASSUME WorkerIInv, Tick
    PROVE  WorkerIInv'
<1>1. /\ UNCHANGED <<head, cursor, pc, new, worker, hung, database, probe, stoppedAt, faults, starts>>
      /\ pc \notin {"publish", "record"}
  BY Typed DEF Tick, bounds, Alive, ThreadInv
<1>2. ASSUME NEW limit \in Nat, NEW a \in 0..limit \cup {None}
      PROVE  Older(a, limit) \in 0..limit \cup {None}
  BY DEF Older, Least
<1>3. /\ age.success \in 0..StaleLimit \cup {None} /\ age.progress \in 0..StaleLimit \cup {None}
      /\ age.started \in 0..StartupTimeout \cup {None} /\ age.head \in 0..HeadStaleAfter \cup {None}
  BY Typed DEF Ages
<1>4. age' \in Ages /\ age'.success = Older(age.success, StaleLimit)
  BY <1>2, <1>3, Numbers, Limits DEF Tick, Ages
<1>5. timer' \in 0..Most(PollInterval, RetryMax)
  <2>1. timer \in 0..Most(PollInterval, RetryMax) /\ timer' = (IF 0 < timer - 1 THEN timer - 1 ELSE 0)
    BY Typed DEF Tick, Most, ThreadTypeOK
  <2>2. QED
    BY <2>1, Limits
<1>6. quiet' \in 0..StaleLimit /\ quiet' = Least(quiet + 1, StaleLimit)
  BY Typed, Limits DEF Tick, ClockTypeOK, Least
<1>7. ThreadTypeOK' /\ ClockTypeOK'
  BY <1>1, <1>4, <1>5, <1>6, Typed DEF ThreadTypeOK, ClockTypeOK, Ages
<1>8. WorkerTypeOK'
  BY <1>1, <1>7, ProbeKept, Typed DEF WorkerTypeOK
<1>9. ThreadInv' /\ FlagsInv'
  BY <1>1, Typed DEF ThreadInv, FlagsInv, StopIsHeeded, Alive
<1>10. HealthInv'
  <2>1. age'.success # None => quiet' <= age'.success
    <3>1. age.success # None => age.success \in 0..StaleLimit /\ quiet <= age.success
      BY <1>3, Typed DEF HealthInv
    <3>2. quiet \in 0..StaleLimit
      BY Typed DEF ClockTypeOK
    <3>3. QED
      BY <1>4, <1>6, <3>1, <3>2, Limits DEF Older, Least
  <2>2. QED
    BY <1>1, <2>1, Typed DEF HealthInv
<1>11. QED
  BY <1>1, <1>8, <1>9, <1>10, ProbeKept DEF WorkerIInv

LEMMA OthersStep ==
    ASSUME WorkerIInv, Mine \/ SwitchDatabase \/ OtherCommits
    PROVE  WorkerIInv'
<1>1. UNCHANGED <<thread, probe, starts, stoppedAt, quiet>>
  BY DEF Mine, SwitchDatabase, OtherCommits, bounds
<1>2. head' \in Heights /\ cursor' \in Heights \cup {None} /\ faults' \in 0..MaxFaults
  <2>1. CASE Mine
    BY <2>1, Typed, Numbers DEF Mine, Heights, WorkerTypeOK, bounds
  <2>2. CASE SwitchDatabase
    BY <2>2, Typed, Numbers DEF SwitchDatabase, WorkerTypeOK
  <2>3. CASE OtherCommits
    BY <2>3, Typed, Numbers DEF OtherCommits, Heights, WorkerTypeOK, Most
  <2>4. QED
    BY <2>1, <2>2, <2>3
<1>3. database' \in BOOLEAN
  BY Typed DEF Mine, SwitchDatabase, OtherCommits, WorkerTypeOK
<1>4. WorkerTypeOK'
  BY <1>1, <1>2, <1>3, ThreadKept, ProbeKept, Typed DEF WorkerTypeOK
<1>5. QED
  BY <1>1, <1>4, ThreadKept, ProbeKept DEF WorkerIInv

\* The inductive invariant of the worker holds in every reachable state.
LEMMA WorkerIInvAlways == Spec => []WorkerIInv
<1>1. ASSUME WorkerIInv, UNCHANGED vars PROVE WorkerIInv'
  <2>1. UNCHANGED <<head, cursor, thread, database, probe, stoppedAt, quiet, faults, starts>>
    BY <1>1 DEF vars, bounds
  <2>2. WorkerTypeOK'
    BY <1>1, <2>1, ThreadKept, ProbeKept, Typed DEF WorkerTypeOK
  <2>3. QED
    BY <1>1, <2>1, <2>2, ThreadKept, ProbeKept DEF WorkerIInv
<1>2. WorkerIInv /\ [Next]_vars => WorkerIInv'
  BY <1>1, ApplicationStep, PollStep, ObserveStep, BatchStep, CommitStep, RecordStep, EndStep, FaultStep,
     RequestStep, TickStep, OthersStep DEF Next, ThreadStep
<1>3. QED
  BY <1>2, WorkerInit, PTL DEF Spec

----------------------------------------------------------------------------
(* What is said of the worker.                                             *)

\* An instance that says ready has published a head, a target and a cursor.
LEMMA WhenReady ==
    ASSUME WorkerIInv, Ready
    PROVE  /\ worker.running /\ worker.error = None
           /\ age.success \in 0..(StaleLimit - 1)
           /\ worker.target \in Nat /\ worker.processed \in Nat /\ worker.chainHead \in Nat
           /\ ~(Gap > 0) /\ ~(Lag > MaxLag)
<1>1. worker.error \in Errors \cup {None} /\ "current" \notin Errors
  BY Typed DEF Fields, Errors
<1>2. /\ worker.running /\ worker.error = None /\ age.success # None /\ ~SuccessStale
      /\ Known /\ ~(Gap > 0) /\ ~(Lag > MaxLag)
  BY <1>1 DEF Ready, Status
<1>3. age.success \in 0..StaleLimit
  BY <1>2, Typed DEF Ages
<1>4. worker.target \in Heights /\ worker.processed \in Heights /\ worker.chainHead \in Heights
  BY <1>2, Typed DEF Known, Fields, HealthInv
<1>5. QED
  BY <1>2, <1>3, <1>4, Limits, Numbers DEF SuccessStale, Heights

\* A thread that may still commit is never reported as stopped, one check of
\* the database is in flight, and only a transaction that had looked at the
\* flag for the last time commits after stop was called.
THEOREM WorkerIsTold == Spec => []WorkerInv
<1>1. ASSUME WorkerIInv PROVE WorkerInv
  <2>1. SingleFlight
    BY <1>1, Typed DEF SingleFlight, ProbeTypeOK
  <2>2. StatusTells
    <3>1. worker.error \in Errors \cup {None} /\ "worker_stopped" \notin Errors
      BY <1>1, Typed DEF Fields, Errors
    <3>2. Alive => worker.running /\ stoppedAt # "returned"
      BY <1>1, Typed DEF FlagsInv
    <3>3. QED
      BY <3>1, <3>2 DEF StatusTells, Status
  <2>3. QED
    BY <1>1, <2>1, <2>2, Typed DEF WorkerInv, FlagsInv
<1>2. QED
  BY <1>1, WorkerIInvAlways, PTL

\* Whenever the health says ready, the numbers it publishes in several steps
\* fit together as check_health.probe wants them.
THEOREM ReadyIsAlwaysConsistent == Spec => []ReadyIsConsistent
<1>1. ASSUME WorkerIInv, Ready PROVE ProbeAccepts
  <2>1. worker.target = Most(0, worker.chainHead - Confirmations)
    BY <1>1, WhenReady, NoneIsNone, Typed DEF HealthInv
  <2>2. worker.processed <= worker.target /\ worker.target - worker.processed <= MaxLag
    BY <1>1, WhenReady, Numbers DEF Gap, Lag, Most
  <2>3. QED
    BY <1>1, <2>1, <2>2, WhenReady DEF ProbeAccepts
<1>2. QED
  BY <1>1, WorkerIInvAlways, PTL DEF ReadyIsConsistent

\* Whoever is told ready waited for a check of the database, and this worker
\* committed a batch less than StaleLimit ticks ago.
THEOREM ReadyIsAlwaysRecent == Spec => ReadyIsRecent
<1>1. ASSUME WorkerIInv, Next, NEW r \in Requests, request[r] # "ready", request'[r] = "ready"
      PROVE  checked[r] /\ quiet < StaleLimit
  <2>1. request \in [Requests -> {"idle", "waiting", "ready"} \cup Answers]
    BY <1>1, Typed DEF ProbeTypeOK
  <2>2. Respond(r)
    <3>1. CASE UNCHANGED probe
      BY <1>1, <3>1 DEF probe
    <3>2. CASE CheckEnds
      BY <1>1, <3>2 DEF CheckEnds
    <3>3. ASSUME NEW q \in Requests, Ask(q) \/ TimeOut(q) PROVE FALSE
      <4>1. PICK answer \in {"waiting", "connected", "disconnected"} : request' = [request EXCEPT ![q] = answer]
        BY <3>3 DEF Ask, TimeOut
      <4>2. QED
        BY <1>1, <2>1, <4>1
    <3>4. ASSUME NEW q \in Requests, Respond(q) PROVE q = r
      BY <1>1, <2>1, <3>4 DEF Respond
    <3>5. CASE Restart
      BY <1>1, <3>5 DEF Restart
    <3>6. QED
      BY <1>1, <3>1, <3>2, <3>3, <3>4, <3>5 DEF Next, ThreadStep, start, RequestStop, Stopped, NotThread,
         Top, Connect, ObserveHead, Batch, Commit, Publish, Record, Wake, Leave, Local, Fault, Hang,
         Tick, Mine, SwitchDatabase, OtherCommits
  <2>3. request[r] = "connected" /\ Ready
    BY <1>1, <2>1, <2>2 DEF Respond
  <2>4. checked[r]
    BY <1>1, <2>3, Typed DEF RequestsInv
  <2>5. quiet < StaleLimit
    <3>1. quiet <= age.success /\ quiet \in Nat
      BY <1>1, <2>3, WhenReady, NoneIsNone, Typed, Limits DEF HealthInv, ClockTypeOK
    <3>2. QED
      BY <1>1, <2>3, <3>1, WhenReady, Limits
  <2>6. QED
    BY <2>4, <2>5
<1>2. WorkerIInv /\ [Next]_vars =>
          [\A r \in Requests :
              request[r] # "ready" /\ request'[r] = "ready" => checked[r] /\ quiet < StaleLimit]_vars
  BY <1>1
<1>3. QED
  BY <1>2, WorkerIInvAlways, PTL DEF ReadyIsRecent, Spec
=============================================================================
