------------------------------- MODULE Worker -------------------------------
(***************************************************************************)
(* The indexer's thread, the health it publishes and the readiness of the  *)
(* API (backend/app/services/indexer.py, indexer_health.py, health.py,     *)
(* app/main.py; check_health.py reads the answers).                        *)
(*                                                                         *)
(* What a batch writes is left to Indexer.tla; here it moves the cursor.   *)
(* Steps of the thread take no time unless a call hangs: the clock only    *)
(* moves while the thread waits, hangs or is not there.  Another process   *)
(* may poll the same database.                                             *)
(***************************************************************************)
EXTENDS Integers, FiniteSets

CONSTANTS
    Requests,            \* concurrent requests to /health/ready
    Confirmations, BatchSize, StartBlock, MaxLag,
    StaleAfter, PollInterval, StartupTimeout, HeadStaleAfter,
    RetryInterval, RetryMax,
    None,
    MaxFailures,         \* failures counted: the delay is RetryMax from there on
    MaxHead, MaxFaults, MaxStarts  \* bounds

ASSUME WorkerAssumption ==
    /\ {Confirmations, StartBlock, MaxLag, HeadStaleAfter, MaxHead, MaxFaults, MaxStarts} \subseteq Nat
    /\ {BatchSize, StaleAfter, PollInterval, StartupTimeout, RetryInterval, RetryMax} \subseteq Nat \ {0}
    /\ StartBlock + Confirmations <= MaxHead
    /\ MaxFailures \in 1..17 /\ RetryInterval * 2^(MaxFailures - 1) >= RetryMax

\* Stated for the provers, to which 2^n is any value.
ASSUME PowersOfTwo == \A n \in 0..16 : 2^n \in Nat \ {0}

VARIABLES
    head,      \* height the provider serves
    cursor,    \* last_processed_block of the committed cursor
    pc,        \* where the thread is; "dead" before and after it
    new,       \* the cursor an open transaction is about to commit
    worker,    \* fields of EventIndexer
    age,       \* ticks since the monotonic times it keeps
    timer,     \* ticks left of the wait the thread is in
    hung,      \* the thread is in a call that does not return
    database,  \* whether the database answers
    checks, pending, request,        \* DatabaseProbe, and who waits for it
    stoppedAt, quiet, checked,       \* history, see the properties
    faults, starts

thread == <<pc, new, worker, age, timer, hung>>
probe == <<checks, pending, request, checked>>
bounds == <<faults, starts>>
vars == <<head, cursor, thread, database, probe, stoppedAt, quiet, bounds>>

Least(a, b) == IF a < b THEN a ELSE b
Most(a, b) == IF a < b THEN b ELSE a

StaleLimit == Most(StaleAfter, 3 * PollInterval)
Running == {"top", "connect", "connected", "batch", "commit", "publish", "record", "wait", "retry", "leave"}
Alive == pc # "dead"

Errors == {"initialization_failed", "poll_failed", "writer_busy", "reconciliation_required"}
Heights == 0..MaxHead
Answers == {"connected", "disconnected"}  \* of a check

\* When stop was called last, and how it went.
Stops == {"commit", "elsewhere", "returned"}

ASSUME NoneAssumption == None \notin Nat \cup Errors \cup Stops

\* n failures in a row, not more than MaxFailures.
Delay(n) == Least(RetryMax, RetryInterval * 2^(n - 1))

Unborn ==
    [running |-> FALSE, stop |-> FALSE, connected |-> FALSE, error |-> None, failures |-> 0,
     chainHead |-> None, target |-> None, processed |-> None, before |-> None]

ThreadTypeOK ==
    /\ pc \in Running \cup {"dead"} /\ hung \in BOOLEAN
    /\ new \in Heights \cup {None} /\ (new # None <=> pc \in {"commit", "publish"})
    /\ worker \in [running : BOOLEAN, stop : BOOLEAN, connected : BOOLEAN,
                   error : Errors \cup {None}, failures : 0..MaxFailures,
                   chainHead : Heights \cup {None}, target : Heights \cup {None},
                   processed : Heights \cup {None}, before : Heights \cup {None}]
    /\ timer \in 0..Most(PollInterval, RetryMax)
    /\ stoppedAt \in Stops \cup {None}

ClockTypeOK ==
    /\ age \in [success : 0..StaleLimit \cup {None}, progress : 0..StaleLimit \cup {None},
                started : 0..StartupTimeout \cup {None}, head : 0..HeadStaleAfter \cup {None}]
    /\ quiet \in 0..StaleLimit

ProbeTypeOK ==
    /\ pending \in {"none", "running", "done"} /\ checks \in 0..1
    /\ (pending = "running" <=> checks = 1)
    /\ request \in [Requests -> {"idle", "waiting", "ready"} \cup Answers]
    /\ checked \in [Requests -> BOOLEAN]

WorkerTypeOK ==
    /\ head \in Heights /\ cursor \in Heights \cup {None} /\ database \in BOOLEAN
    /\ ThreadTypeOK /\ ClockTypeOK /\ ProbeTypeOK
    /\ faults \in 0..MaxFaults /\ starts \in 0..MaxStarts

Init ==
    /\ head = StartBlock + Confirmations /\ cursor = None
    /\ pc = "dead" /\ new = None /\ worker = Unborn /\ timer = 0 /\ hung = FALSE
    /\ age = [success |-> None, progress |-> None, started |-> None, head |-> None]
    /\ database = TRUE
    /\ checks = 0 /\ pending = "none" /\ request = [r \in Requests |-> "idle"]
    /\ checked = [r \in Requests |-> FALSE]
    /\ stoppedAt = None /\ quiet = StaleLimit
    /\ faults = 0 /\ starts = 0

----------------------------------------------------------------------------
(* health and indexer_state: what a request is told.                       *)

Lag == Most(0, worker.target - worker.processed)
Known == worker.target # None /\ worker.processed # None
\* Mutation: a cursor ahead of the confirmed head counts as current.
GapIgnored == 0
Gap == Most(0, worker.processed - worker.target)

\* Mutation: only the last error counts, not how long ago a poll succeeded.
StaleNever == FALSE
SuccessStale == age.success >= StaleLimit

\* The status and its reason, in the order they are tried.
Status ==
    CASE ~worker.running \/ ~Alive -> "worker_stopped"
      [] worker.stop -> "shutdown_requested"
      [] worker.error # None -> worker.error
      [] age.success = None ->
            IF age.started # None /\ age.started >= StartupTimeout
            THEN "startup_timeout" ELSE "initializing"
      [] SuccessStale -> "poll_stale"
      [] ~Known -> "cursor_unavailable"
      [] HeadStaleAfter > 0 /\ age.head # None /\ age.head >= HeadStaleAfter -> "chain_head_stalled"
      [] Gap > 0 -> "awaiting_confirmation_depth"
      [] Lag > MaxLag ->
            IF age.progress # None /\ age.progress >= StaleLimit THEN "progress_stalled" ELSE "backfill"
      [] OTHER -> "current"

Ready == Status = "current"

\* check_health.probe accepts what it reads: the numbers of one answer fit.
ProbeAccepts ==
    /\ {worker.chainHead, worker.target, worker.processed} \subseteq Nat
    /\ worker.target = Most(0, worker.chainHead - Confirmations)
    /\ worker.processed <= worker.target
    /\ worker.target - worker.processed <= MaxLag
    /\ age.success \in 0..(StaleLimit - 1)

----------------------------------------------------------------------------
(* start and stop, called by the application's lifespan.                   *)

NotThread == UNCHANGED <<head, cursor, database, probe, bounds>>

start ==
    /\ ~Alive /\ starts < MaxStarts
    /\ starts' = starts + 1
    /\ worker' = [worker EXCEPT !.running = TRUE, !.stop = FALSE, !.error = None, !.failures = 0]
    /\ age' = [age EXCEPT !.started = 0, !.success = None, !.progress = None]
    /\ pc' = "top" /\ stoppedAt' = None
    /\ UNCHANGED <<head, cursor, new, timer, hung, database, probe, quiet, faults>>

\* stop asks; the thread may be anywhere.
RequestStop ==
    /\ starts > 0 /\ ~worker.stop
    /\ worker' = [worker EXCEPT !.stop = TRUE]
    /\ stoppedAt' = IF pc = "commit" THEN "commit" ELSE "elsewhere"
    /\ UNCHANGED <<pc, new, age, timer, hung, quiet>> /\ NotThread

\* Mutation: stop gives up waiting, and still says that nothing runs.
JoinedAnyway == TRUE
Joined == ~Alive

\* It has joined the thread.  (If it gives up before that, nothing changes:
\* a thread in a call that hangs goes on, and start refuses.)
Stopped ==
    /\ worker.stop /\ stoppedAt # "returned" /\ Joined
    /\ worker' = [worker EXCEPT !.running = FALSE]
    /\ stoppedAt' = "returned"
    /\ UNCHANGED <<pc, new, age, timer, hung, quiet>> /\ NotThread

----------------------------------------------------------------------------
(* _run: one step for each part between two calls or lock acquisitions.    *)

Stopping == worker.stop

At(point) == pc = point /\ ~hung
To(point) == pc' = point
Local == UNCHANGED <<head, cursor, database, probe, bounds, quiet, stoppedAt>>

\* while not stop: the connection is dropped by most failures.
Top ==
    /\ At("top")
    /\ IF Stopping THEN To("leave") ELSE To(IF worker.connected THEN "connected" ELSE "connect")
    /\ UNCHANGED <<new, worker, age, timer, hung>> /\ Local

\* _connect publishes a validated connection, or nothing.
Connect ==
    /\ At("connect")
    /\ IF Stopping THEN To("leave") /\ UNCHANGED worker
       ELSE To("connected") /\ worker' = [worker EXCEPT !.connected = TRUE]
    /\ UNCHANGED <<new, age, timer, hung>> /\ Local

Observed(h) == [worker EXCEPT !.chainHead = h, !.target = Most(0, h - Confirmations)]

\* _observe_head: a provider that lags serves an older head.
ObserveHead ==
    /\ At("connected")
    /\ IF Stopping THEN To("leave") /\ UNCHANGED <<worker, age, faults>>
       ELSE \E h \in Heights :
              /\ \/ h = head /\ UNCHANGED faults
                 \/ h < head /\ faults < MaxFaults /\ faults' = faults + 1
              /\ worker' = [Observed(h) EXCEPT !.before = worker.processed]
              /\ age' = [age EXCEPT !.head = IF worker.chainHead = h THEN @ ELSE 0]
              /\ To("batch")
    /\ UNCHANGED <<head, cursor, new, timer, hung, database, probe, starts, quiet, stoppedAt>>

\* Any failure of a poll: the delay grows, and only a refusal keeps the
\* connection.
Failing(error) ==
    /\ worker' = [worker EXCEPT
            !.error = error, !.failures = Least(@ + 1, MaxFailures),
            !.connected = @ /\ error \in {"writer_busy", "reconciliation_required"}]
    /\ timer' = Delay(worker'.failures)
    /\ To("retry")

\* Where the batch ends that starts above base.
Advanced(base) == Most(base, Least(worker.target, base + BatchSize))

\* What poll_once is going to commit: a fork may have gone below the cursor.
NewCursors ==
    IF cursor = None THEN {Advanced(StartBlock)}
    ELSE {Advanced(cursor)}
         \cup {Advanced(base) : base \in {b \in StartBlock..(cursor - 1) : faults < MaxFaults}}

\* Mutation: the first batch waits for a block above the deployment anchor.
RefusedAtAnchor ==
    \/ cursor = None /\ StartBlock >= worker.target
    \/ cursor # None /\ worker.chainHead < cursor
Refused ==
    \/ cursor = None /\ StartBlock > worker.target
    \/ cursor # None /\ worker.chainHead < cursor

\* The transaction of poll_once up to its last check of the flag.
Batch ==
    /\ At("batch")
    /\ UNCHANGED <<head, cursor, age, hung, database, probe, starts, quiet, stoppedAt>>
    /\ \/ ~database /\ Failing("poll_failed") /\ UNCHANGED <<new, faults>>
       \/ database /\ Refused /\ Failing("reconciliation_required") /\ UNCHANGED <<new, faults>>
       \/ /\ database /\ ~Refused /\ UNCHANGED <<worker, timer>>
          /\ IF Stopping THEN To("leave") /\ UNCHANGED <<new, faults>>
             ELSE \E n \in NewCursors :
                     /\ new' = n /\ To("commit")
                     /\ faults' = IF cursor # None /\ n # Advanced(cursor) THEN faults + 1 ELSE faults

Commit ==
    /\ At("commit")
    /\ cursor' = new /\ To("publish")
    /\ quiet' = 0
    /\ UNCHANGED <<head, new, worker, age, timer, hung, database, probe, bounds, stoppedAt>>

\* last_processed_block, under the lock and only after the commit.
Publish ==
    /\ At("publish")
    /\ worker' = [worker EXCEPT !.processed = new] /\ new' = None /\ To("record")
    /\ UNCHANGED <<age, timer, hung>> /\ Local

\* What a success publishes besides its age.
Recorded == [worker EXCEPT !.error = None, !.failures = 0]

\* _record_success, and then the wait, if nothing is left to index.
Record ==
    /\ At("record")
    /\ worker' = Recorded
    /\ age' = [age EXCEPT !.success = 0,
                          !.progress = IF worker.processed # worker.before \/ @ = None THEN 0 ELSE @]
    /\ IF worker.processed >= worker.target
       THEN To("wait") /\ timer' = PollInterval
       ELSE To("top") /\ UNCHANGED timer
    /\ UNCHANGED <<new, hung>> /\ Local

\* A wait ends after its time, or when the flag is set.
Wake ==
    /\ pc \in {"wait", "retry"} /\ (timer = 0 \/ worker.stop)
    /\ To("top") /\ timer' = 0
    /\ UNCHANGED <<new, worker, age, hung>> /\ Local

\* The finally of _run.
Leave ==
    /\ At("leave")
    /\ worker' = [worker EXCEPT !.running = FALSE] /\ To("dead")
    /\ UNCHANGED <<new, age, timer, hung>> /\ Local

\* An exception of any call of the poll, or another process that holds the
\* writer lock.
Fault ==
    /\ pc \in {"connect", "connected", "batch", "commit"} /\ faults < MaxFaults
    /\ \/ pc = "connect" /\ Failing("initialization_failed")
       \/ pc # "connect" /\ Failing("poll_failed")
       \/ pc = "batch" /\ ~hung /\ Failing("writer_busy")
    /\ new' = None /\ hung' = FALSE /\ faults' = faults + 1
    /\ UNCHANGED <<head, cursor, age, database, probe, starts, quiet, stoppedAt>>

\* A call of the poll does not return; it may end in a failure much later.
Hang ==
    /\ pc \in {"connect", "connected", "batch", "commit"} /\ ~hung /\ faults < MaxFaults
    /\ hung' = TRUE /\ faults' = faults + 1
    /\ UNCHANGED <<head, cursor, pc, new, worker, age, timer, database, probe, starts, quiet, stoppedAt>>

ThreadStep == Top \/ Connect \/ ObserveHead \/ Batch \/ Commit \/ Publish \/ Record \/ Wake \/ Leave

----------------------------------------------------------------------------
(* DatabaseProbe.status and the handlers that use it.                      *)

NeedsCheck == pending \in {"none", "done"}

NotProbe == UNCHANGED <<head, cursor, thread, database, bounds, stoppedAt, quiet>>

\* A request joins the check in flight, or starts one.  (One that was told
\* ready is kept apart from those told 503 or not asked yet, for ReadyIsRecent.)
Ask(r) ==
    /\ request[r] \in {"idle", "ready"}
    /\ IF NeedsCheck THEN checks' = checks + 1 /\ pending' = "running"
       ELSE UNCHANGED <<checks, pending>>
    /\ request' = [request EXCEPT ![r] = IF pending' = "running" THEN "waiting"
                                         ELSE IF database THEN "connected" ELSE "disconnected"]
    /\ UNCHANGED checked /\ NotProbe

\* The check ends, and everyone who waits for it is told.
CheckEnds ==
    /\ checks > 0
    /\ checks' = checks - 1 /\ pending' = "done"
    /\ request' = [r \in Requests |-> IF request[r] # "waiting" THEN request[r]
                                      ELSE IF database THEN "connected" ELSE "disconnected"]
    /\ checked' = [r \in Requests |-> checked[r] \/ request[r] = "waiting"]
    /\ NotProbe

\* The check goes on without it; timed_out is answered as disconnected is.
TimeOut(r) ==
    /\ request[r] = "waiting"
    /\ request' = [request EXCEPT ![r] = "disconnected"]
    /\ UNCHANGED <<checks, pending, checked>> /\ NotProbe

\* readiness_state reads the worker's health last.
Respond(r) ==
    /\ request[r] \in Answers
    /\ request' = [request EXCEPT ![r] = IF @ = "connected" /\ Ready THEN "ready" ELSE "idle"]
    /\ checked' = [checked EXCEPT ![r] = FALSE]
    /\ UNCHANGED <<checks, pending>> /\ NotProbe

----------------------------------------------------------------------------
(* The clock, the chain, the database, and another process.                *)

Older(a, limit) == IF a = None THEN None ELSE Least(a + 1, limit)

Tick ==
    /\ \/ hung \/ ~Alive
       \/ pc \in {"wait", "retry"} /\ timer > 0 /\ ~worker.stop
    /\ age' = [success |-> Older(age.success, StaleLimit), progress |-> Older(age.progress, StaleLimit),
               started |-> Older(age.started, StartupTimeout), head |-> Older(age.head, HeadStaleAfter)]
    /\ timer' = Most(0, timer - 1)
    /\ quiet' = Least(quiet + 1, StaleLimit)
    /\ UNCHANGED <<head, cursor, pc, new, worker, hung, database, probe, stoppedAt, bounds>>

Mine ==
    /\ head < MaxHead /\ head' = head + 1
    /\ UNCHANGED <<cursor, thread, database, probe, bounds, stoppedAt, quiet>>

SwitchDatabase ==
    /\ (database => faults < MaxFaults)
    /\ database' = ~database /\ faults' = IF database THEN faults + 1 ELSE faults
    /\ UNCHANGED <<head, cursor, thread, probe, starts, stoppedAt, quiet>>

\* The worker of another process commits, while this one has no lock.
OtherCommits ==
    /\ pc # "commit" /\ faults < MaxFaults /\ faults' = faults + 1
    /\ \E n \in StartBlock..Most(0, head - Confirmations) : n # cursor /\ cursor' = n
    /\ UNCHANGED <<head, thread, database, probe, starts, stoppedAt, quiet>>

\* The process ends: shut down, deployed again or killed.
Restart ==
    /\ starts < MaxStarts /\ starts > 0
    /\ pc' = "dead" /\ new' = None /\ worker' = Unborn /\ timer' = 0 /\ hung' = FALSE
    /\ age' = [success |-> None, progress |-> None, started |-> None, head |-> None]
    /\ checks' = 0 /\ pending' = "none" /\ request' = [r \in Requests |-> "idle"]
    /\ checked' = [r \in Requests |-> FALSE] /\ stoppedAt' = None
    /\ UNCHANGED <<head, cursor, database, quiet, bounds>>

Next ==
    \/ start \/ RequestStop \/ Stopped
    \/ ThreadStep \/ Fault \/ Hang
    \/ CheckEnds \/ \E r \in Requests : Ask(r) \/ TimeOut(r) \/ Respond(r)
    \/ Tick \/ Mine \/ SwitchDatabase \/ OtherCommits \/ Restart

Spec == Init /\ [][Next]_vars

----------------------------------------------------------------------------
\* An instance that answers ready passes the checks of check_health.probe,
\* whatever moment of a poll, a rewind or a restart it is asked at: the head,
\* the target, the cursor and the ages it publishes in several steps fit
\* together.
ReadyIsConsistent == Ready => ProbeAccepts

\* A thread that may still commit is never reported as stopped, neither by
\* the health nor by a stop that returned True: the flags that start, stop and
\* the thread's own end set are true of it, through stops that give up
\* waiting, failures and restarts.
StatusTells == Alive => Status # "worker_stopped" /\ stoppedAt # "returned"

\* However many requests are waiting for a database that does not answer,
\* one check is in flight.
SingleFlight == checks <= 1

\* Once stop was called, only a transaction that had already looked at the
\* flag for the last time still commits.
StopIsHeeded == pc = "commit" /\ worker.stop => stoppedAt = "commit"

\* What the flags, the thread and the shared check of the database say of
\* each other is true.
WorkerInv == WorkerTypeOK /\ StatusTells /\ SingleFlight /\ StopIsHeeded

\* Whoever is told ready learns something new: the database was checked
\* while the request was waiting, and this worker committed a batch less
\* than StaleLimit ticks ago, at most MaxLag blocks behind the head it saw.
ReadyIsRecent ==
    [][\A r \in Requests :
          request[r] # "ready" /\ request'[r] = "ready" =>
              checked[r] /\ quiet < StaleLimit]_vars

----------------------------------------------------------------------------
(* Liveness.  A thread that is not in a call that hangs goes on, and so    *)
(* does time.                                                              *)

FairSpec == Spec /\ WF_vars(ThreadStep) /\ WF_vars(Tick)

\* When nothing fails any more, a worker that is not stopped catches up and
\* stays ready, unless the provider serves no new head.
Recovers ==
    <>[](Alive /\ ~worker.stop /\ ~hung /\ database) =>
        <>[](Ready \/ Status \in {"chain_head_stalled", "awaiting_confirmation_depth"})

=============================================================================
