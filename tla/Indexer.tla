------------------------------ MODULE Indexer ------------------------------
(***************************************************************************)
(* EventIndexer.poll_once of backend/app/services/indexer.py: workers that *)
(* copy the logs of the confirmed chain into the database, one batch per   *)
(* transaction, and undo what a reorganization orphaned.                   *)
(*                                                                         *)
(* Every RPC call is a step of its own, answered from the tip served at    *)
(* that moment.  What the code computes between two RPC calls concerns the *)
(* worker's own transaction only and belongs to the step of the call       *)
(* before it.  A worker's transaction is a private copy of the tables,     *)
(* which a commit publishes and a rollback discards.                       *)
(***************************************************************************)
EXTENDS Projection

CONSTANTS
    Workers,        \* processes that run the indexer against one database
    NoWorker,       \* nobody holds the advisory lock
    StartBlock,     \* StartBlock[w]: INDEXER_START_BLOCK of worker w
    Confirmations,  \* INDEXER_CONFIRMATIONS
    MaxBatch,       \* INDEXER_BATCH_SIZE
    MaxReorgDepth,  \* INDEXER_MAX_REORG_DEPTH
    Products,       \* products the database may hold at first
    Histories,      \* history rows the database may hold at first
    HeadLag,        \* bound: how far a reported block number may lag
    MaxFaults       \* bound: failures, crashes and lagging heads

ASSUME IndexerAssumption ==
    /\ NoWorker \notin Workers
    /\ StartBlock \in [Workers -> Nat]
    /\ Confirmations \in Nat /\ HeadLag \in Nat /\ MaxFaults \in Nat
    /\ MaxBatch \in Nat \ {0} /\ MaxReorgDepth \in Nat \ {0}
    /\ Products \subseteq [Keys -> Product \cup {NoProduct}]
    /\ Histories \subseteq SUBSET Row
    /\ \A h \in Histories : UniqueIds(h)

VARIABLES
    db,      \* the committed tables
    holder,  \* who holds the transaction-level advisory lock WRITER_LOCK
    pc,      \* pc[w]: where worker w is in poll_once
    batch,   \* batch[w]: _batch_size
    tx,      \* tx[w]: the tables as w's open transaction sees them
    poll,    \* poll[w]: the locals of w's poll
    faults   \* failures so far

workerVars == <<db, holder, pc, batch, tx, poll, faults>>
vars == <<chainVars, workerVars>>

Points == {"idle", "lock", "create", "check", "scan", "replay", "plan", "fetch",
           "journal", "recheck", "commit"}

\* _fetch_events asks for one kind of log after the other.
Queries == <<"ProductRegistered", "ProductMetadataUpdated",
             "CheckpointRecorded", "CustodyTransferred", "DeliveryCompleted">>
LastQuery == 5

Poll == [head : Nat,                      \* chain_head
         end : Blocks \cup {NoBlock},     \* end_hash
         query : 1..LastQuery + 1,        \* the next query of _fetch_events
         todo : SUBSET Logs,              \* logs still to journal or replay
         details : SUBSET Logs,           \* registrations still to be read
         headers : SUBSET Blocks,         \* headers, a block per number
         scan : SUBSET Blocks,            \* anchors _rewind has not compared
         locked : SUBSET Keys]            \* product rows locked FOR UPDATE

NoPoll == [head |-> 0, end |-> NoBlock, query |-> 1, todo |-> {}, details |-> {},
           headers |-> {}, scan |-> {}, locked |-> {}]

Empty(products, history) ==
    [start |-> 0, cursor |-> NoBlock, anchors |-> {}, canonical |-> {}, orphaned |-> {},
     bind |-> [k \in Keys |-> Unbound], product |-> products,
     ship |-> [k \in Keys |-> NoShipment], hist |-> history]

NoTables == Empty([k \in Keys |-> NoProduct], {})

TypeOK ==
    /\ ChainTypeOK
    /\ db \in Tables
    /\ holder \in Workers \cup {NoWorker}
    /\ pc \in [Workers -> Points]
    /\ batch \in [Workers -> 1..MaxBatch]
    /\ tx \in [Workers -> Tables]
    /\ poll \in [Workers -> Poll]
    /\ faults \in 0..MaxFaults

Init ==
    /\ ChainInit
    /\ \E p \in Products, h \in Histories : db = Empty(p, h)
    /\ holder = NoWorker
    /\ pc = [w \in Workers |-> "idle"]
    /\ batch = [w \in Workers |-> MaxBatch]
    /\ tx = [w \in Workers |-> NoTables]
    /\ poll = [w \in Workers |-> NoPoll]
    /\ faults = 0

----------------------------------------------------------------------------
(* Helpers                                                                 *)

Target(w) == IF poll[w].head > Confirmations THEN poll[w].head - Confirmations ELSE 0
Num(w) == Height[tx[w].cursor]    \* cursor.last_processed_block
EndNum(w) == IF Target(w) <= Num(w) + batch[w] THEN Target(w) ELSE Num(w) + batch[w]

GoTo(w, point) == pc' = [pc EXCEPT ![w] = point]

\* The end of a transaction, and of the poll: the advisory lock goes with it.
Leave(w) ==
    /\ GoTo(w, "idle")
    /\ holder' = IF holder = w THEN NoWorker ELSE holder
    /\ tx' = [tx EXCEPT ![w] = NoTables]
    /\ poll' = [poll EXCEPT ![w] = NoPoll]

\* An exception: rollback, then the next poll starts over.
Fail(w) == Leave(w) /\ UNCHANGED <<db, batch>>

\* Mutation: halved without a lower bound.
HalvedToZero(n) == n \div 2

\* An exception in _fetch_events also halves the batch.
Halved(n) == IF n \div 2 >= 1 THEN n \div 2 ELSE 1
FailFetch(w) == Leave(w) /\ batch' = [batch EXCEPT ![w] = Halved(@)] /\ UNCHANGED db

NoFault == UNCHANGED faults
Fault == faults < MaxFaults /\ faults' = faults + 1

\* Mutations: the advisory lock, and the comparison of the end, dropped.
LockIgnored(w) == TRUE
EndTrusted(w) == TRUE

LockFree(w) == holder = NoWorker
EndStands(w) == Header(Height[poll[w].end]) = poll[w].end
CursorStands(w) == Header(Num(w)) = tx[w].cursor

\* w waits for block number n and the provider answers, or fails (Abort).
Asks(w, point, n) == pc[w] = point /\ Serves(n)

----------------------------------------------------------------------------
(* poll_once, up to the first comparison                                   *)

\* The reported block number may lag behind the tip.
ObserveHead(w) ==
    /\ pc[w] = "idle"
    /\ \E lag \in 0..HeadLag :
          /\ lag <= Height[tip]
          /\ IF lag = 0 THEN NoFault ELSE Fault
          /\ poll' = [poll EXCEPT ![w].head = Height[tip] - lag]
    /\ GoTo(w, "lock")
    /\ UNCHANGED <<chainVars, db, holder, batch, tx>>

\* pg_try_advisory_xact_lock fails: IndexerBusy.
Busy(w) ==
    /\ pc[w] = "lock" /\ ~LockFree(w)
    /\ Fail(w)
    /\ UNCHANGED <<chainVars, faults>>

\* The cursor, the deployment anchor and the head are checked in this order.
Open(w) ==
    /\ pc[w] = "lock" /\ LockFree(w)
    /\ IF db.cursor = NoBlock
       THEN StartBlock[w] <= Target(w)
       ELSE db.start = StartBlock[w] /\ Height[db.cursor] <= poll[w].head
    /\ holder' = w
    /\ tx' = [tx EXCEPT ![w] = db]
    /\ GoTo(w, IF db.cursor = NoBlock THEN "create" ELSE "check")
    /\ UNCHANGED <<chainVars, db, batch, poll, faults>>

\* ReconciliationRequired: deployment anchor ahead of the confirmed chain,
\* deployment anchor changed, or head behind the committed cursor.
Refuse(w) ==
    /\ pc[w] = "lock" /\ LockFree(w)
    /\ \/ db.cursor = NoBlock /\ StartBlock[w] > Target(w)
       \/ db.cursor # NoBlock /\ db.start # StartBlock[w]
       \/ db.cursor # NoBlock /\ Height[db.cursor] > poll[w].head
    /\ Fail(w)
    /\ UNCHANGED <<chainVars, faults>>

\* The first poll of a scope anchors it at its start block.
CreateCursor(w) ==
    /\ Asks(w, "create", StartBlock[w])
    /\ tx' = [tx EXCEPT ![w].start = StartBlock[w],
                        ![w].cursor = Header(StartBlock[w]),
                        ![w].anchors = {Header(StartBlock[w])}]
    /\ GoTo(w, "check")
    /\ UNCHANGED <<chainVars, db, holder, batch, poll, faults>>

\* Mutation: only the cursor's own anchor searched.
WindowOfCursor(t) == {b \in t.anchors : b = t.cursor}

\* Is the committed cursor still on the chain?  If not, _rewind loads the
\* anchors of the recovery window.
Window(t) == {b \in t.anchors : /\ Height[b] <= Height[t.cursor]
                                /\ Height[b] >= t.start
                                /\ Height[b] >= Height[t.cursor] - MaxReorgDepth}

CheckCursor(w) ==
    /\ Asks(w, "check", Num(w))
    /\ IF CursorStands(w)
       THEN GoTo(w, "plan") /\ UNCHANGED poll
       ELSE GoTo(w, "scan") /\ poll' = [poll EXCEPT ![w].scan = Window(tx[w])]
    /\ UNCHANGED <<chainVars, db, holder, batch, tx, faults>>

----------------------------------------------------------------------------
(* _rewind                                                                 *)

Highest(S, b) == b \in S /\ \A c \in S : Height[c] <= Height[b]

\* The highest anchor left is not on the chain any more.
SkipAnchor(w) ==
    \E a \in poll[w].scan :
        /\ Highest(poll[w].scan, a)
        /\ Asks(w, "scan", Height[a])
        /\ Header(Height[a]) # a
        /\ poll' = [poll EXCEPT ![w].scan = @ \ {a}]
        /\ UNCHANGED <<chainVars, db, holder, pc, batch, tx, faults>>

\* It is: everything above it is orphaned, and the affected products go back
\* to their baselines before what remains of their history is replayed.
Rewind(w) ==
    \E a \in poll[w].scan :
        /\ Highest(poll[w].scan, a)
        /\ Asks(w, "scan", Height[a])
        /\ Header(Height[a]) = a
        /\ tx' = [tx EXCEPT ![w] = Restore(@, a)]
        /\ poll' = [poll EXCEPT ![w].scan = {},
                                ![w].todo = Remaining(tx[w], a),
                                ![w].locked = @ \cup Affected(tx[w], a)]
        /\ GoTo(w, "replay")
        /\ UNCHANGED <<chainVars, db, holder, batch, faults>>

\* No anchor in the recovery window is on the chain: ReconciliationRequired.
NoAncestor(w) ==
    /\ pc[w] = "scan" /\ poll[w].scan = {}
    /\ Fail(w)
    /\ UNCHANGED <<chainVars, faults>>

Earliest(S, o) == o \in S /\ \A p \in S : ~Before(p, o)

Replay(w) ==
    /\ pc[w] = "replay"
    /\ \E o \in poll[w].todo :
          /\ Earliest(poll[w].todo, o)
          /\ IF CanProject(tx[w], o)
             THEN /\ tx' = [tx EXCEPT ![w] = Project(@, o)]
                  /\ poll' = [poll EXCEPT ![w].todo = @ \ {o}]
                  /\ UNCHANGED <<db, holder, pc, batch>>
             ELSE Fail(w)
    /\ UNCHANGED <<chainVars, faults>>

Replayed(w) ==
    /\ pc[w] = "replay" /\ poll[w].todo = {}
    /\ GoTo(w, "plan")
    /\ UNCHANGED <<chainVars, db, holder, batch, tx, poll, faults>>

----------------------------------------------------------------------------
(* The batch                                                               *)

\* Nothing confirmed beyond the cursor: only a rewind, if any, commits.
NothingNew(w) ==
    /\ pc[w] = "plan" /\ EndNum(w) <= Num(w)
    /\ GoTo(w, "commit")
    /\ UNCHANGED <<chainVars, db, holder, batch, tx, poll, faults>>

ReadEnd(w) ==
    /\ Asks(w, "plan", EndNum(w))
    /\ EndNum(w) > Num(w)
    /\ poll' = [poll EXCEPT ![w].end = Header(EndNum(w)),
                            ![w].headers = {Header(EndNum(w))}]
    /\ GoTo(w, "fetch")
    /\ UNCHANGED <<chainVars, db, holder, batch, tx, faults>>

\* get_logs answers with what it has of the range, without an error when its
\* tip is lower.
Found(w) == {o \in LogsOn(tip, Num(w), Height[poll[w].end]) :
                o.type = Queries[poll[w].query]}

Query(w) ==
    /\ pc[w] = "fetch" /\ poll[w].query <= LastQuery /\ poll[w].details = {}
    /\ poll' = [poll EXCEPT
                  ![w].todo = @ \cup Found(w),
                  ![w].details = {o \in Found(w) : o.type = "ProductRegistered"},
                  ![w].query = @ + 1]
    /\ UNCHANGED <<chainVars, db, holder, pc, batch, tx, faults>>

\* _registration_details: the contract's state at the block of a registration
\* must match its log.  (Where the provider keeps no old state, the code
\* compares the transaction's inclusion instead; that accepts less.)
DetailsMatch(o) ==
    \E p \in LogsOn(tip, 0, Height[o.block]) :
        /\ p.type = "ProductRegistered" /\ p.key = o.key
        /\ p.who = o.who /\ p.name = o.name
        /\ Height[p.block] = Height[o.block]

ReadDetails(w) ==
    /\ pc[w] = "fetch"
    /\ \E o \in poll[w].details :
          /\ Earliest(poll[w].details, o)
          /\ IF DetailsMatch(o)
             THEN /\ poll' = [poll EXCEPT ![w].details = @ \ {o}]
                  /\ UNCHANGED <<db, holder, pc, batch, tx>>
             ELSE FailFetch(w)
    /\ UNCHANGED <<chainVars, faults>>

\* _validate_delivery_pairs: both logs of a delivery, or neither.
Deliveries(S) == {<<o.tx, o.key>> : o \in {p \in S : p.type = "DeliveryCompleted"}}
LastCheckpoints(S) ==
    {<<o.tx, o.key>> : o \in {p \in S : p.type = "CheckpointRecorded" /\ p.status = 3}}
Paired(S) == Deliveries(S) = LastCheckpoints(S)

Fetched(w) ==
    /\ pc[w] = "fetch" /\ poll[w].query > LastQuery
    /\ IF Paired(poll[w].todo)
       THEN GoTo(w, "journal") /\ UNCHANGED <<db, holder, batch, tx, poll>>
       ELSE Fail(w)
    /\ UNCHANGED <<chainVars, faults>>

\* The header the log's block is compared with: read once per block number.
HeaderFor(w, n) ==
    IF \E b \in poll[w].headers : Height[b] = n
    THEN CHOOSE b \in poll[w].headers : Height[b] = n
    ELSE Header(n)
HeaderKnown(w, n) == Serves(n) \/ \E b \in poll[w].headers : Height[b] = n

\* The next log, in chain order.
JournalLog(w) ==
    /\ pc[w] = "journal"
    /\ \E o \in poll[w].todo :
          LET n == Height[o.block] IN
          /\ Earliest(poll[w].todo, o)
          /\ HeaderKnown(w, n)
          /\ IF HeaderFor(w, n) = o.block /\ CanJournal(tx[w], o)
             THEN /\ tx' = [tx EXCEPT ![w] = Journal(@, o)]
                  /\ poll' = [poll EXCEPT ![w].todo = @ \ {o},
                                          ![w].headers = @ \cup {o.block},
                                          ![w].locked = IF o \in tx[w].canonical
                                                        THEN @ ELSE @ \cup {o.key}]
                  /\ UNCHANGED <<db, holder, pc, batch>>
             ELSE Fail(w)
    /\ UNCHANGED <<chainVars, faults>>

\* The last block of the batch, and then the cursor, are read again.
RecheckEnd(w) ==
    /\ Asks(w, "journal", Height[poll[w].end])
    /\ poll[w].todo = {}
    /\ IF EndStands(w)
       THEN GoTo(w, "recheck") /\ UNCHANGED <<db, holder, batch, tx, poll>>
       ELSE Fail(w)
    /\ UNCHANGED <<chainVars, faults>>

\* Mutation: no anchor for the end of the batch.
AdvancedUnanchored(t, end, headers) ==
    [t EXCEPT !.anchors = @ \cup (headers \ {end}), !.cursor = end]

\* Anchors for every header read, and the cursor, as one batch.
Advanced(t, end, headers) ==
    [t EXCEPT !.anchors = headers \cup
                  {b \in @ : \A h \in headers : Height[h] # Height[b]},
              !.cursor = end]

RecheckCursor(w) ==
    /\ Asks(w, "recheck", Num(w))
    /\ IF /\ CursorStands(w)
          /\ Height[poll[w].end] = Target(w) => Covered(tx[w])
       THEN /\ tx' = [tx EXCEPT ![w] = Advanced(@, poll[w].end, poll[w].headers)]
            /\ GoTo(w, "commit")
            /\ UNCHANGED <<db, holder, batch, poll>>
       ELSE Fail(w)
    /\ UNCHANGED <<chainVars, faults>>

Doubled(n) == IF 2 * n <= MaxBatch THEN 2 * n ELSE MaxBatch

Commit(w) ==
    /\ pc[w] = "commit"
    /\ db' = tx[w]
    /\ Leave(w)
    /\ batch' = [batch EXCEPT ![w] = Doubled(@)]
    /\ UNCHANGED <<chainVars, faults>>

----------------------------------------------------------------------------
(* Failures                                                                *)

\* The commit reaches the database, its answer does not reach the worker.
CommitUnknown(w) ==
    /\ pc[w] = "commit"
    /\ Fault
    /\ db' = tx[w]
    /\ Leave(w)
    /\ UNCHANGED <<chainVars, batch>>

\* An RPC call, a statement or the commit fails, or the worker is stopping.
Abort(w) ==
    /\ pc[w] # "idle"
    /\ Fault
    /\ IF pc[w] = "fetch" /\ poll[w].query <= LastQuery THEN FailFetch(w) ELSE Fail(w)
    /\ UNCHANGED chainVars

\* The provider has no block of the number the worker asks for.
Wanted(w) ==
    CASE pc[w] = "create" -> {StartBlock[w]}
      [] pc[w] \in {"check", "recheck"} -> {Num(w)}
      [] pc[w] = "scan" -> {Height[a] : a \in {b \in poll[w].scan : Highest(poll[w].scan, b)}}
      [] pc[w] = "plan" -> IF EndNum(w) > Num(w) THEN {EndNum(w)} ELSE {}
      [] pc[w] = "journal" /\ poll[w].todo = {} -> {Height[poll[w].end]}
      [] pc[w] = "journal" /\ poll[w].todo # {} ->
            {n \in {Height[o.block] : o \in {p \in poll[w].todo : Earliest(poll[w].todo, p)}} :
                ~HeaderKnown(w, n)}
      [] OTHER -> {}

BlockMissing(w) ==
    /\ \E n \in Wanted(w) : ~Serves(n)
    /\ Fail(w)
    /\ UNCHANGED <<chainVars, faults>>

\* The process dies and is started again: its connection rolls back.
Crash(w) ==
    /\ Fault
    /\ Leave(w)
    /\ batch' = [batch EXCEPT ![w] = MaxBatch]
    /\ UNCHANGED <<chainVars, db>>

----------------------------------------------------------------------------
Opening(w) == ObserveHead(w) \/ Busy(w) \/ Open(w) \/ Refuse(w) \/ CreateCursor(w)
                 \/ CheckCursor(w)
Recovering(w) == SkipAnchor(w) \/ Rewind(w) \/ NoAncestor(w) \/ Replay(w) \/ Replayed(w)
Indexing(w) == NothingNew(w) \/ ReadEnd(w) \/ Query(w) \/ ReadDetails(w) \/ Fetched(w)
                  \/ JournalLog(w) \/ RecheckEnd(w) \/ RecheckCursor(w) \/ Commit(w)
PollStep(w) == Opening(w) \/ Recovering(w) \/ Indexing(w) \/ BlockMissing(w)
Failure(w) == CommitUnknown(w) \/ Abort(w) \/ Crash(w)

ChainMoves == MoveTip /\ UNCHANGED workerVars

Next == ChainMoves \/ \E w \in Workers : PollStep(w) \/ Failure(w)

Spec == Init /\ [][Next]_vars
=============================================================================
