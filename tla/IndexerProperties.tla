------------------------- MODULE IndexerProperties -------------------------
(***************************************************************************)
(* What Indexer.tla promises of the committed tables.                      *)
(***************************************************************************)
EXTENDS Indexer

\* The journal is exact: its canonical logs are those of the branch that
\* ends in the cursor, above the deployment anchor: none missing, none of
\* another fork, however batches, failures, workers and forks interleave.
JournalExact ==
    db.cursor # NoBlock =>
        db.canonical = LogsOn(db.cursor, db.start, Height[db.cursor])

\* The anchors are what a rewind needs: blocks of the cursor's own branch,
\* the cursor and the deployment anchor among them, and no two neighbours
\* further apart than one batch, so that a reorganization of at most
\* MaxReorgDepth - MaxBatch blocks always finds one in its window.
AnchorsUsable ==
    db.cursor # NoBlock =>
        /\ db.anchors \subseteq {b \in Path[db.cursor] : Height[b] >= db.start}
        /\ {db.cursor, At(db.cursor, db.start)} \subseteq db.anchors
        /\ \A n \in db.start..Height[db.cursor] : \E b \in db.anchors :
              n - MaxBatch < Height[b] /\ Height[b] <= n

----------------------------------------------------------------------------
(* The projection, stated from a set of journalled logs alone.             *)

Of(S, k, types) == {o \in S : o.key = k /\ o.type \in types}
Latest(S) == CHOOSE o \in S : \A p \in S : ~Before(o, p)

\* The status and the handler of k according to the last log in S.
StatusLogs(S, k) == Of(S, k, {"CheckpointRecorded", "DeliveryCompleted"})
HandlerLogs(S, k) ==
    Of(S, k, {"CheckpointRecorded", "DeliveryCompleted", "CustodyTransferred"})
Registrars(S, k) == Of(S, k, {"ProductRegistered"})
UriLogs(S, k) == Of(S, k, {"ProductRegistered", "ProductMetadataUpdated"})

ExpectedStatus(S, k) ==
    IF StatusLogs(S, k) = {} THEN 0
    ELSE IF Latest(StatusLogs(S, k)).type = "DeliveryCompleted" THEN 3
    ELSE Latest(StatusLogs(S, k)).status
ExpectedHandler(S, k) ==
    IF HandlerLogs(S, k) = {} THEN Nobody ELSE Latest(HandlerLogs(S, k)).who

\* The product as its registration and last metadata update leave it.
ExpectedProduct(S, k) ==
    LET r == Latest(Registrars(S, k))
    IN [name |-> r.name, uri |-> Latest(UriLogs(S, k)).uri, owner |-> r.who,
        source |-> "chain_event", reg |-> "indexed", height |-> Height[r.block],
        tx |-> r.tx]

\* Product k, its binding and its shipment are what the logs S say.
ShowsLogs(t, S, k) ==
    /\ Of(S, k, EventTypes) # {} => t.bind[k] # Unbound
    /\ Registrars(S, k) # {} => t.product[k] = ExpectedProduct(S, k)
    /\ t.ship[k] \in {NoShipment, ExpectedStatus(S, k)}
    /\ t.bind[k] # Unbound =>
          /\ t.bind[k].status = ExpectedStatus(S, k)
          /\ t.bind[k].handler = ExpectedHandler(S, k)

\* When S has no registration of it, k is what it was before the first.
ShowsBase(t, S, k) ==
    t.bind[k] # Unbound /\ Registrars(S, k) = {} => t.product[k] = t.bind[k].base

\* K: the products only the indexer writes once they are bound.
Shows(t, S, K) ==
    /\ \A k \in Keys : ShowsLogs(t, S, k)
    /\ \A k \in K : ShowsBase(t, S, k)

\* Every registered product, binding and shipment is what the canonical
\* journal says, whatever was projected, rewound and replayed before, and a
\* product whose registration disappeared is what it was before it (_project
\* and _rewind agree with the journal read from the start).
TablesExact == Shows(db, db.canonical, Keys)

\* The history rows of t are those of the logs S, and rows that were there
\* before the journal.
RowsOf(S) == {RowOf(o) : o \in {p \in S : IsRow(p)}}
Told(t, S) ==
    /\ RowsOf(S) \subseteq t.hist
    /\ t.hist \ RowsOf(S) \subseteq UNION Histories
    /\ UniqueIds(t.hist)

\* Checkpoints and transfers are the canonical journal's, each once, with
\* the block they are in now; beside them only rows that were there before.
HistoryExact == Told(db, db.canonical)

\* The committed journal implements the ledger: one branch, published block
\* by block, left only when it was abandoned.  A provider that lags or a
\* second worker never moves the cursor back.
L == INSTANCE Ledger WITH start <- db.start, at <- db.cursor, journal <- db.canonical,
                          Starts <- {StartBlock[w] : w \in Workers}
ImplementsLedger == L!LedgerSpec

\* A product with legacy registration evidence is taken over only if the
\* journal holds the very registration it claims, and what it goes back to
\* grants nobody anything.
Evidenced(p, t, k) ==
    /\ \E o \in t.canonical \cup t.orphaned :
          /\ o.type = "ProductRegistered" /\ o.key = k
          /\ o.tx = p.tx /\ Height[o.block] = p.height
    /\ t.bind[k].base.owner = Nobody
    /\ t.bind[k].base.height = 0
Adopted(p, t) ==
    \A k \in Keys :
        t.bind[k] # Unbound /\ p[k] # NoProduct /\ p[k].height > 0 => Evidenced(p[k], t, k)
AdoptionSound == \A p \in Products : db.product = p => []Adopted(p, db)

----------------------------------------------------------------------------
(* The inductive invariant behind JournalExact.  A branch, once abandoned, *)
(* does not come back, so a block that is served now and was served before *)
(* was served all the time between: what was read of its branch is exact.  *)

\* Every journalled product has its binding and its row.
Bound(t) ==
    /\ \A k \in Keys : t.bind[k] # Unbound => t.product[k] # NoProduct
    /\ \A o \in t.canonical : t.bind[o.key] # Unbound

\* The blocks a step refers to are there.
Located(w) ==
    /\ pc[w] \notin {"idle", "lock", "create"} => tx[w].cursor \in Blocks
    /\ pc[w] \in {"fetch", "journal", "recheck"} => poll[w].end \in Blocks

TypeInv == TypeOK /\ Bound(db) /\ \A w \in Workers : Bound(tx[w]) /\ Located(w)

\* The tables t stand on a branch that is, or was, served.
Rooted(t) ==
    /\ t.cursor \in Blocks
    /\ t.cursor \in Path[tip] \cup dead
    /\ t.start <= Height[t.cursor]
    /\ t.anchors \subseteq Path[t.cursor]
CursorLogs(t) == LogsOn(t.cursor, t.start, Height[t.cursor])
Exact(t) == Rooted(t) /\ t.canonical = CursorLogs(t)
Unused(t) == t.cursor = NoBlock /\ t.canonical = {} /\ t.anchors = {}

\* A poll with tables t and locals q: what its batch ought to fetch, and what
\* it has asked for so far.
BatchLogs(t, q) == LogsOn(q.end, Height[t.cursor], Height[q.end])
Asked(n) == {Queries[i] : i \in 1..(n - 1)}

\* The end of the batch was served after the cursor was.
EndInv(t, q) ==
    /\ q.end \in Blocks
    /\ q.end \in Path[tip] \cup dead
    /\ Height[t.cursor] < Height[q.end]
    /\ t.cursor \in dead \cup Path[q.end]

FetchInv(t, q) ==
    /\ Exact(t) /\ EndInv(t, q)
    /\ q.headers = {q.end}
    /\ q.end \notin dead => q.todo = {o \in BatchLogs(t, q) : o.type \in Asked(q.query)}

JournalInv(t, q) ==
    /\ Rooted(t) /\ EndInv(t, q)
    /\ q.end \notin dead =>
          /\ q.todo \subseteq BatchLogs(t, q)
          /\ q.headers \subseteq Path[q.end]
          /\ t.canonical \cup q.todo = CursorLogs(t) \cup BatchLogs(t, q)

RecheckInv(t, q) ==
    /\ Rooted(t) /\ EndInv(t, q)
    /\ q.headers \subseteq Path[q.end]
    /\ t.canonical = CursorLogs(t) \cup BatchLogs(t, q)

ScanInv(t, q) == \A b \in q.scan : b \in t.anchors /\ t.start <= Height[b]

PollInv(point, t, q) ==
    /\ point \notin {"fetch", "journal", "recheck", "commit"} => q.query = 1
    /\ point \in {"idle", "lock", "create", "check", "scan", "plan"} => q.todo = {}
    /\ point = "create" => Unused(t)
    /\ point \in {"check", "scan", "replay", "plan", "commit"} => Exact(t)
    /\ point = "scan" => ScanInv(t, q)
    /\ point = "fetch" => FetchInv(t, q)
    /\ point = "journal" => JournalInv(t, q)
    /\ point = "recheck" => RecheckInv(t, q)

ChainInv == Path[tip] \cap dead = {}
DbInv == Unused(db) \/ Exact(db)

\* JournalExact, strengthened to an inductive invariant.
IInv == TypeInv /\ ChainInv /\ DbInv /\ \A w \in Workers : PollInv(pc[w], tx[w], poll[w])

(* What ImplementsLedger needs beside it: the holder of the lock alone has *)
(* a transaction open, and its tables go on from the committed ones.       *)

LockInv == \A w \in Workers : pc[w] \notin {"idle", "lock"} => holder = w

\* Tables t may be committed in the place of db: from the same anchor, and
\* along the same branch unless that was abandoned.
Follows(t) ==
    IF db.cursor = NoBlock THEN t.start \in {StartBlock[w] : w \in Workers}
    ELSE t.start = db.start /\ db.cursor \in Path[t.cursor] \cup dead

OpenInv(point, t) ==
    /\ point = "create" => db.cursor = NoBlock
    /\ point \notin {"idle", "lock", "create"} => Follows(t)
    /\ point \in {"check", "scan"} => db.cursor \in {NoBlock, t.cursor}
    /\ point = "scan" => t.cursor \in dead

\* ImplementsLedger, strengthened to an inductive invariant.
LedgerInv == IInv /\ LockInv /\ \A w \in Workers : OpenInv(pc[w], tx[w])

----------------------------------------------------------------------------
(* What HistoryExact, AdoptionSound and TablesExact need beside IInv.      *)

\* The logs of the journal that the tables of a poll show: all of them, but
\* for those _rewind has still to replay.
Projected(point, t, q) == IF point = "replay" THEN t.canonical \ q.todo ELSE t.canonical

RowsInv(point, t, q) ==
    point \notin {"idle", "lock"} =>
        /\ Told(t, Projected(point, t, q))
        /\ point = "replay" => q.todo \subseteq t.canonical

\* HistoryExact, strengthened to an inductive invariant.
HistoryInv ==
    /\ TypeInv
    /\ Told(db, db.canonical)
    /\ \A w \in Workers : RowsInv(pc[w], tx[w], poll[w])

\* A product is untouched until it is bound, and bound by a registration.
Known(t) == \A k \in Keys : t.bind[k] # Unbound => Registrars(t.canonical \cup t.orphaned, k) # {}
Taken(p, t) ==
    /\ Adopted(p, t)
    /\ \A k \in Keys : t.bind[k] = Unbound => t.product[k] = p[k]

\* AdoptionSound, strengthened to an inductive invariant.
AdoptionInv(p) ==
    /\ HistoryInv
    /\ Known(db) /\ Taken(p, db)
    /\ \A w \in Workers : pc[w] \notin {"idle", "lock"} => Known(tx[w]) /\ Taken(p, tx[w])

\* The anchors of t are spaced.
Spaced(t) ==
    /\ \A b \in t.anchors : t.start <= Height[b]
    /\ t.cursor \in t.anchors
    /\ \E b \in t.anchors : Height[b] = t.start
    /\ \A n \in t.start..Height[t.cursor] : \E b \in t.anchors :
          n - MaxBatch < Height[b] /\ Height[b] <= n

\* Whatever was journalled is above one block, that of the deployment anchor.
Origin(t) ==
    IF t.cursor = NoBlock THEN t.canonical = {} /\ t.orphaned = {}
    ELSE \A o \in t.canonical \cup t.orphaned :
            t.start < Height[o.block] /\ At(t.cursor, t.start) \in Path[o.block]

\* What is projected next is later than what was projected of its product.
InOrder(S, todo) == \A p \in S, o \in todo : p.key = o.key => Before(p, o)

HeadersInv(t, q) ==
    /\ q.end \in q.headers
    /\ Height[q.end] <= Height[t.cursor] + MaxBatch
AboveCursor(t, q) == \A b \in q.headers : Height[t.cursor] < Height[b]
Joined(t, q) == t.cursor \in Path[q.end]

ShownInv(point, t, q, K) ==
    /\ point \notin {"idle", "lock"} => Known(t)
    /\ point \notin {"idle", "lock", "create"} => Spaced(t)
    /\ point \in {"create", "check", "scan", "plan", "fetch", "commit"} =>
          Origin(t) /\ Shows(t, t.canonical, K)
    /\ point = "replay" =>
          /\ Origin(t)
          /\ Shows(t, t.canonical \ q.todo, K)
          /\ InOrder(t.canonical \ q.todo, q.todo)
    /\ point \in {"fetch", "journal", "recheck"} => HeadersInv(t, q)
    /\ point = "journal" /\ q.end \notin dead =>
          /\ AboveCursor(t, q)
          /\ Joined(t, q) =>
                Origin(t) /\ Shows(t, t.canonical, K) /\ InOrder(t.canonical, q.todo)
    /\ point = "recheck" =>
          /\ AboveCursor(t, q)
          /\ Joined(t, q) => Origin(t) /\ Shows(t, t.canonical, K)

\* TablesExact and AnchorsUsable, strengthened to an inductive invariant.
ShowsInv(K) ==
    /\ IInv /\ HistoryInv
    /\ Known(db) /\ Origin(db) /\ Shows(db, db.canonical, K)
    /\ db.cursor # NoBlock => Spaced(db)
    /\ \A w \in Workers : ShownInv(pc[w], tx[w], poll[w], K)

----------------------------------------------------------------------------
(* Liveness.  Faults are bounded and the tree is finite, so the chain      *)
(* settles; a running worker keeps polling.                                *)

Fairness == \A w \in Workers : WF_vars(PollStep(w))
FairSpec == Spec /\ Fairness

Confirmed == IF Height[tip] > Confirmations THEN Height[tip] - Confirmations ELSE 0

\* Whatever failed, was orphaned or was contested on the way, the first poll
\* anchors the scope, and the cursor ends on the branch that is served, with
\* nothing confirmed left out, unless that branch stays shorter than what was
\* committed.  (The recovery window must reach the fork.)
Converges ==
    <>[](/\ (\E w \in Workers : StartBlock[w] <= Confirmed) => db.cursor # NoBlock
         /\ db.cursor # NoBlock /\ Height[tip] >= Height[db.cursor] =>
              /\ db.cursor \in Path[tip]
              /\ Height[db.cursor] >= Confirmed)
=============================================================================
