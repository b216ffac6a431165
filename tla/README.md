# Veritras: a verification development

Veritras registers products on a chain (two Solidity contracts), follows them
through checkpoints, custody transfers and delivery, and keeps a PostgreSQL
projection of that history which a FastAPI backend serves to a React frontend.
The chain is the truth; the database is rebuilt from it by an indexer that must
survive reorganizations, crashes, lagging providers and a second instance of
itself. These modules model that machinery, TLC checks them on small instances,
and TLAPS proves what matters most for every instance.

Paths below are relative to `src/backend/app/` unless they start with `src/`.
`PROJECT.json` maps every definition to the lines it stands for.

## 1. Inventory

### 1.1 Modelled parts

**Durable indexer** (`services/indexer.py`, `models/chain.py`).
*State*: per scope one cursor (last indexed block and deployment anchor), the
anchors (headers kept for recovery), the journal of canonical and orphaned
events, one binding per product (baseline, last status, current handler), and the
projected `products`, `shipments`, `checkpoints`, `transfers`; per process the
batch size and a PostgreSQL connection that may hold the advisory lock.
*Operations*: `poll_once`, which observes the head, takes the lock, creates or
checks the cursor, rewinds (`_rewind`) when the cursor's block is not served any
more, reads the five event types in batches (`_fetch_logs`), journals and projects
them (`_journal`, `_project`), reads the two ends again and commits.
*Interactions*: the chain through one RPC call at a time; the API's handlers
through product row locks; other processes through the lock and the tables.
*Hard*: every RPC call may be answered from another branch; a query beyond the
provider's tip is answered short, without an error; a commit whose answer is
lost; crashes; two processes; rows older than the journal.
*Right when*: the committed journal is that of exactly one branch, it is left
only when that branch was abandoned, and the projection is what the journal says.

**Drafts and shipment planning** (`api/routes/products.py`,
`api/routes/shipments.py`, `core/permissions.py`).
*State*: product and shipment rows, shared with the indexer.
*Operations*: `create_product`, `update_product`, `create_shipment`.
*Hard*: a handler commits between any two steps of an open indexer transaction.
*Right when*: a registration that disappears gives the draft back, a shipment
shows its product's indexed status whenever it was planned, a registered product
is changed only by its logs.

**Registration attempts** (`services/registration.py`,
`models/registration.py`, `api/routes/products.py`).
*State*: one row per submitted transaction hash (operation, payload baseline,
status, nonce, block, `replaces`, `replaced_by`) beside the draft.
*Operations*: `submit_registration`, `reconcile_registration`, both of which
`observe` transactions over several RPC calls; `update_product`; the indexer's
commit. *Hard*: forks between the calls of one observation, a provider that has
forgotten a transaction, original and replacement confirmed on competing
branches. *Right when*: links join transactions of one nonce, an attempt is
`indexed` only for its own event and `replaced` only by a confirmed transaction,
and every attempt ends with the status the chain gives it.

**Smart contracts** (`src/blockchain/contracts/ProductRegistry.sol`,
`ShipmentTracker.sol`).
*State*: products, histories, current handler and delivery flags in separate
mappings. *Operations*: `registerProduct`, `updateProductMetadata`,
`recordCheckpoint`, `transferCustody`. *Right when*: the mappings agree, custody
is unbroken, delivery is final, and the indexer rebuilds the contracts' state from
their events alone.

**Shipment exceptions** (`services/exceptions.py`, `api/routes/exceptions.py`,
`services/analytics.py`).
*State*: open and resolved episodes, policies with revisions, acknowledgements,
planned arrivals, the time of the last evaluation; per process a worker thread and
the health its indexer published.
*Operations*: `evaluate` (read progress, try the writer lock, recheck, write),
policy saves, acknowledgements, plan changes.
*Hard*: several processes evaluate, clocks are set back, anchors leave and return
with forks, the cached health is older than the rows. *Right when*: what is open
after an evaluation is exactly what is overdue, episodes keep their times in order,
closed or acknowledged history stays, and what is overdue for good is noticed.

**Indexer thread, health, readiness** (`services/indexer.py` 200-330,
`services/indexer_health.py`, `services/health.py`, `main.py`,
`src/backend/check_health.py`).
*State*: the thread and its stop event, the connection, the last error and the
number of failures in a row, the head, the target and the cursor it published,
four ages; the shared database check and the requests that wait for it.
*Operations*: `start`, `stop`, `_run` with its waits and its back-off, `health`,
`DatabaseProbe.status`, `readiness_state`.
*Hard*: a call that never returns, a `stop` that gives up waiting, a thread that
dies, another process that moves the cursor, ages and counters that are
written in several steps and read in between.
*Right when*: who is told ready reads a projection that was current moments ago;
a thread that may still commit is not reported as stopped; one check is in flight;
a worker whose troubles end becomes ready again.

**Event stream** (`services/events.py`, `api/routes/analytics.py`,
`src/frontend/src/hooks/useSSE.ts`).
*State*: a bounded queue per subscriber, calls scheduled in the event loop, the
generator of each response, the connection, the page with its query.
*Operations*: subscribe, publish from the indexer's thread, `_put` with its
overflow, the generator's loop, cancellation, the page's watchdog and back-off.
*Hard*: a full queue drops messages, another process commits without publishing
here, a connection falls silent, a page is hidden and shown again.
*Right when*: a visible page ends up showing the last commit, a queue that dropped
messages says so, and a subscription is released when its generator ends (one whose
generator never started is not: see section 3).

**Product identity** (`services/identity.py`, `core/product_id.py`,
`src/backend/manage_identity.py`, `src/backend/manage_indexer.py`).
*State*: rows of one chain key under several public IDs, their identity scope,
aliases, the binding and its baseline, shipments and history that point at rows.
*Operations*: the operator's two reconciliations; the indexer's adoption and
rewind and the handlers on the same rows. *Hard*: any database of earlier releases,
rows merged while the chain forks. *Right when*: a public ID keeps its product,
rights are proven, a draft comes back, and what was reconciled can be indexed, with a
history the journal covers.

**Recovery rehearsals** (`src/backend/rehearse_hosted_recovery.py`,
`manage_rehearsal_resources.py`, `replay_private_restore.py`,
`rehearse_recovery_restore.py`, `recovery_evidence.py`).
*State*: the ledger of a run, the provider's branch, the restored database, the
plan and its approval, the archive, the report.
*Operations*: create, verify, restore, reconcile, replay, clean up, retry, reap.
*Hard*: a request that is not repeatable and whose answer is lost, a signal or a
lost runner anywhere, a plan approved in one run and applied in another.
*Right when*: a report is honest about what is left, a result is backed by retained
evidence, nothing is applied under another plan's digest than the approved one, and every
branch goes.

### 1.2 Parts that are not modelled

| Part | State and operations | Hard part | Why not |
|---|---|---|---|
| Authentication (`core/auth.py`, `api/routes/auth.py`, `src/frontend/src/hooks/authSession.ts`, `useAuth.ts`) | challenges, tokens, the browser session; issue, verify, sign in, sign out, wallet change | two verifications of one nonce; the wallet changes while a sign-in waits | next in the plan |
| Outbox and registration panel (`src/frontend/src/hooks/registrationSubmission.ts`, `useRegisterProduct.ts`, `useShipmentTracker.ts`, `src/frontend/src/components/RegistrationPanel.tsx`) | hashes kept in browser storage until the API has them | two tabs, a refused first entry | next in the plan |
| Counters (`services/operations.py`) | request and stream counters; the number of active streams is in `Stream` | none else | sums under one lock |
| Analytics, export, timeline, verification (`services/*.py`) | read only | none of its own | one read transaction each |
| Configuration, limits, logging (`core/*.py`) | settings read at startup | none | validation and formats |
| Migrations (`src/backend/manage_schema.py`, `alembic/versions`) | schema | run offline | what they leave is an initial state of `MCWriters` and `Identity` |
| Release gate, deployment checks (`src/backend/*.py` scripts) | files and responses | reruns | sequential scripts that compare what they read |
| Web application, contract deployment | pages; one-off scripts | layout and wording | not a state machine of its own |

## 2. Modules and their code

```
Chain ── Projection ── Indexer ── IndexerProperties ── Lifecycle ── IndexerProofs
  │          │                          ├─ MCIndexer, MCWriters  └─ MCLifecycle
  │          │                          └─ (refines) Ledger
  │          └── (INSTANCE) Tracker ── TrackerProperties ── MCTracker, TrackerProofs
Registration ── RegistrationProperties ── MCRegistration, RegistrationProofs
Exceptions ── ExceptionsProperties ── MCExceptions, ExceptionsProofs
Worker ── MCWorker, WorkerProofs      Stream ── MCStream, StreamProofs
Identity ── MCIdentity, IdentityProofs  Rehearsal ── MCRehearsal, RehearsalProofs
```

**Chain** (external: the RPC provider as the indexer sees it). A finite tree of
blocks with their logs; `tip` is the end of the branch that is served, `dead` the
blocks of branches it has left. `MoveTip` extends, shortens or switches the
branch. `ForksReturn` says whether an abandoned branch may be served again.

**Projection** is `_journal`, `_binding`, `_project` and the part of `_rewind`
that rebuilds rows, as operators on a record of committed tables (`start`,
`cursor`, `anchors`, `canonical`, `orphaned`, `bind`, `product`, `ship`, `hist`).
`CanJournal` collects the conditions under which those functions raise, `Journal`
is one event, `Orphans`/`Affected`/`Remaining` choose what a rewind undoes and
replays. It knows nothing of workers, so the contracts use it too.

**Indexer** is `poll_once`. `db` holds the committed tables, `tx[w]` those of
w's open transaction, `holder` the advisory lock, `poll[w]` its local variables,
`pc[w]` its place between two RPC calls or statements that others may see.

| Code | Action |
|---|---|
| head, lock, cursor | `ObserveHead`, `Busy`, `Open`, `Refuse`, `CreateCursor`, `CheckCursor` |
| `_rewind` | `SkipAnchor` (one header per call), `NoAncestor`, `Rewind`, `Replay`, `Replayed` |
| `_fetch_logs` | `ReadEnd`, `Query` (one event type per call), `ReadDetails`, `Fetched` |
| journal and projection | `JournalLog` |
| rechecks and commit | `RecheckEnd`, `RecheckCursor`, `NothingNew`, `Commit` |
| failures | `CommitUnknown`, `Abort`, `BlockMissing`, `Crash` |

**IndexerProperties** states what the committed tables promise, the inductive
invariants behind it (section 4), and the refinement of **Ledger**, the abstract promise: a
journal that is published block by block along one branch (`Begin`, `Advance`)
and leaves it only when it was abandoned (`Recover`).

**Lifecycle** composes `Indexer` with the handlers that write drafts and
shipments. A handler locks its product row from its first read to its commit,
so it is one step whose guard is `RowFree`; what it commits is visible to an open
indexer transaction that has not locked the row (READ COMMITTED). `saved` is a
history variable, the last draft of each owner; `stale` the keys edited between two
registrations. `WritersInv` is the inductive invariant of section 4.

**Registration** has the chain as a sequence of blocks with the transactions
they include, the provider's `pool` of transactions it remembers, the indexed
part of the chain, one draft, and one attempt per transaction. `call` is the
handler that holds the product row lock, with one action per RPC call
(`GetTransaction`, `GetReceipt`, `GetBlock`, `GetHead`, `Unavailable`).
**RegistrationProperties** adds the history variable `forked`.

**Tracker** is both contracts: modifiers as guards, the emitted events as the
sequence `log`. **TrackerProperties** says what the events of one product tell
(`Positions`, `HeldBy`, `CustodyOf`, `DeliveryOf`), what the storage has to do with them
(`Reflected`, `UriReflected`, `HistoryReflected`, joined in `TrackerIInv`), and
instantiates `Projection` over the log: `Journalled[n]` is the database after n events.

**Exceptions** has a journal per shipment chosen from a set, policies, plans,
episodes, and a worker per process (`Begin`, `Evaluate`, `Recheck`, `Commit`,
`Fail`). The indexer (`IndexerCommit`, `Publish`, `FallBehind`) and the owner
are its environment.

**Worker** is the thread around `poll_once`: `pc` is its place between two calls
or lock acquisitions (`Top`, `Connect`, `ObserveHead`, `Batch`, `Commit`, `Publish`,
`Record`, `Wake`, `Leave`), `worker` the fields of `EventIndexer`, `age` what the
monotonic times amount to, `timer` the wait it is in. What a batch writes is in
`Indexer`; here it moves `cursor`. `Fault` is any exception of a call or a lock
in other hands, `Hang` a call that does not return. `Status` is `indexer_state`,
`ProbeAccepts` what `check_health` asks of an answer, `Ask`, `CheckEnds`, `TimeOut`
and `Respond` are `DatabaseProbe` and `readiness_state`. `OtherCommits` is another
process's worker, `Restart` the end of this process. `quiet`, `checked` and
`stoppedAt` are history variables.

**Stream** has one step per piece of code between two awaits: the broadcaster
(`Publish` in the indexer's thread, `Put` in the event loop), the generator of each
response (`Begin`, `GetMessage`, `Heartbeat`, `Compare`, `Send`, `Cancel`), the
network (`wire`, `link`) and the page (`Connect`, `Receive`, `Answer`, `Show`,
`Watchdog`, `Error`, `Hide`, `Unhide`). `Commit` is a batch of this process's indexer,
which will publish it, or of another process, which will not. `Announce` is what
`create_product` and `create_shipment` publish, which no revision shows and nothing that listens
tells from the indexer's messages. `Abandon` is a response that is dropped before its body starts.

**Identity** has one row per public ID, chosen at first among everything earlier
releases may have left (`OldRow`; `Past` says which kinds each ID may have). `reconcile_identity` and `reconcile_history` are
the two tools' `--apply`, one transaction under the writer lock each; `index` and
`rewind` are `_binding`, `_project` and `_rewind` reduced to one registration and one
later log per key; `create_product`, `update_product` and `create_shipment` are the
handlers with `resolve_product` and the permission checks. `draft` is a history variable,
the last draft signed for a key; `drifted` the keys whose baseline is not that draft any more.
A history row is `untagged` while it names no log; `tagged[id]` are the blocks of the logs that
the rows of id name. `CanJournal` is what `_binding`, `_assign_scope` and the unique constraints
accept, `Covered` what `_project`'s comparison of rows and `_validate_history_coverage` accept
besides (a batch that does not reach the head commits without the latter, so `index` does
not wait for it). `astray` is a history variable: the keys whose chain changed while history
named a log of it that no batch had journaled.
`IdentityIInv` is the inductive invariant of section 4.

**Rehearsal** has a coordinator per run, whose `pc` follows `execute`, the phases of
`replay_private_restore` and the `finally` (`ReadIntent`, `Archive`, `Cleanup`,
`Report`), then the workflow's own cleanup step (`Cleanup` again). The provider
answers a creation late or never (`Land`, `Decline`), and a branch may appear too
late for its signed name (`late`). `Fails` is a refused check, a failed request
that may have been carried out, a signal, or a lost runner. `Reap` is the hourly
`reap_expired`. A database is known by the `Rows` the two tools of `Identity` would find work
in: products (`Named`) and history rows, some of which no tool may decide about
(`Conflicting`). `PlanOf` is what the plan holds of them: the identity plan names its products,
the history part has only numbers (`src/backend/manage_indexer.py:91`), so the digest
tells no more apart. `Begin` enters any digest, as the workflow's input does: that it is
one of a plan that was reviewed is left to the operator. A branch is `there` once it can be listed, ready or not: the answer that
names it comes before it is ready.

Definitions marked *Mutation* are wrong on purpose: each stands for a plausible
bug, and replacing the definition beside it must break a named property (see
`mutants` in `PROJECT.json`). No specification uses them.

## 3. Runs

| Run | Question | Bounds |
|---|---|---|
| `Writers` | Two processes, rows older than the journal, different deployment anchors: is the journal always that of one branch (`JournalExact`, `ImplementsLedger`), and nothing taken over that it does not hold (`AdoptionSound`, `HistoryExact`)? | two branches of two blocks from genesis, recovery window 1, batches of at most 2, one failure, three product rows times five histories |
| `Forks` | One process: are projection, baselines (`TablesExact`), history and anchors right after rewinds and replays, and does it catch up (`Converges`)? | trunk and fork of three blocks with all five event types, transactions moved to another order, height and log index; window 3, head lag 1, two failures |
| `Lifecycle` | Handlers between the steps of batches and rewinds | three forks: registered, not registered, registered again, not any more; one edit |
| `Registration` | A registration, its cancellation and a metadata update: are links sound, is `indexed` true (`IndexedIsTrue`), when is an attempt retired (`RetiredOnlyByConfirmed`)? | three transactions, two nonces, three blocks, two attempts, one edit |
| `Settles` | Does every attempt end with its true status? | two transactions, three blocks, one failing call |
| `Tracker` | Every sequence of contract calls: custody and delivery (`TrackerInv`); does the indexer accept and rebuild it (`NeverRefused`, `ProjectionShowsContract`)? | two wallets, one product and `bytes32(0)`, seven events in two blocks |
| `Exceptions` | Two evaluators, owner, fork: `OpenIsOverdue`, `HistoryKept` | one shipment, six journals, two policies, clock 0..2, one edit, one commit of the indexer |
| `Noticed` | One evaluator with a clock that is set back: is what is overdue noticed? | one shipment, four journals, one of each disturbance |
| `Identity` | Both reconciliations, handlers, indexer and forks on any old database: do names, references and rights hold (`IdentityInv`, `RightsProven`, `DraftReturns`), and is what both tools accept indexed again, with its history covered by the journal (`ReconciledIsIndexable`)? | two keys: one with its text and two spellings of its hexadecimal form, of ten, two and five pasts, one whose only row belongs to a stranger; two changes of the chain, one edit |
| `Rehearsal` | Two runs beside each other's branches, the first under any digest: are reports honest (`ReportHonest`), results backed (`ResultBacked`), rows reconciled only under the digest of their plan (`AppliedAsApproved`), ledgers and branches consistent (`RehearsalInv`), and does every branch go (`EveryBranchGoes`)? | one environment; a history row, a product and a row in conflict, each of which may come and go in production; the second run starts when nothing is left to reconcile; one fork, one failure, signal or lost runner |
| `Worker` | Health and readiness of a thread that fails, hangs, is stopped and started again: `WorkerInv`, `ReadyIsConsistent`, `ReadyIsRecent`, `Recovers` | heights 0..4, `MaxLag` 1, stale after 3 ticks (three polls), head stalled after 2, back-off up to 2; one fault, two starts, two requests |
| `Stream` | Does a page that stays visible end up with the last commit (`NothingForgotten`, `EndsUpToDate`), is a loss still told when the next overflow drops the resync (`LossIsTold`), and are subscriptions held until their generators end (`StreamInv`)? | two connections, a queue and a wire of one event each, two commits, one break, silence, hiding or message of a handler |

The invariants whose names end in `Inv` join a type invariant to the structural
invariants of its module (`RegistrationInv`, `LifecycleInv`, `TrackerInv`,
`IdentityInv`, `RehearsalInv`, `WorkerInv`, `StreamInv`).

Why the bounds are enough to be of interest. A batch of two blocks over branches
of three makes every batch boundary fall inside, at and after a fork. With a window
of 1 and a fork two blocks deep `Writers` also reaches the refusal for want of an
ancestor (`NoAncestor`); with a window of 3 the search succeeds in `Forks`. Two
processes are all the advisory lock distinguishes. One failure can hit any step,
the commit included, which covers a lost answer and a retry on top of what was
committed. Three forks are the fewest that register, orphan and register again
with an edit between. Registration needs one nonce shared by two transactions and
one that is not, and three blocks to confirm one of them (one confirmation) and
replace its branch. Seven events are a registration, two checkpoints, a transfer, a
delivery (two events) and one more call. Two pasts with a row, one of them
bound, are what a merge distinguishes; a third spelling makes chains of merges. In `Identity` two
changes of the chain move a registration away and back, or to a second block, after its history
was tagged. A queue of one message overflows at the second message, and two commits with a handler's
message are three: the second overflow drops the resync of the first. Two connections are one
the server still serves, or has lost track of, while the page uses another. Two rehearsals are
one that leaves something behind and one that finds it; one fault leaves anything a run can
leave behind. That two history rows may stand for each other under one digest needs more
rows than the run has; the theorem has any set of them. In `Worker` four heights
let the cursor fall behind by more than `MaxLag`, and one fault is a fork, a
lagging provider, another process, a lost database, an exception or a hang; two
starts put a restart after each, and two requests share a check that one of them
began before the other came. The head may be as old as three ticks, so that a poll that
saw a new head and then hangs makes the last success stale first.

The passing runs together take every action of the specifications. `Tracker`,
`Exceptions`, `Noticed`, `Identity`, `Rehearsal`, `Worker` and `Stream` do not check
deadlock: calls, edits, faults or the clock are bounded there and the system may
then stop.

Two processes are not in `Noticed`: the lock is only tried, and under the
fairness below each of two processes can find the lock in the other's hands for ever, so
nothing guarantees that either evaluates. With one process, the indexer gives the lock up
between polls and that suffices.

### Fairness and why the code justifies it

* `Forks`: weak fairness of `PollStep(w)`. The loop around `poll_once` comes
  back after every result or exception; a step of an open poll is never disabled
  by others. Failures are bounded and the tree is finite, so the chain settles.
* `Settles`: weak fairness of an RPC step (a call ends, or times out:
  `Unavailable`), strong fairness of the indexer's commit and of reconciling each
  attempt, since both need the product row lock, which handlers take and give back.
  The panel refreshes attempts while a page is open; `Settles` says what this
  achieves, not that somebody opens the page.
* `Noticed`: weak fairness of the worker's steps (it waits a minute and goes
  on), strong fairness of finding the writer lock free, weak fairness of
  publishing progress. That the process stays current and that its clock is in the
  end not behind the last assessment are hypotheses of the property.
* `Worker`: weak fairness of `ThreadStep` (a thread that is not in a call that hangs
  goes on) and of `Tick`. Nothing makes a hung call return, a stopped worker start,
  or the database come back: `Recovers` supposes them.
* `Stream`: weak fairness of the publisher, of every step of the event loop, of
  delivery over a connection that is up, and of the page's timers (back-off,
  watchdog) and its queries.
* `Rehearsal`: weak fairness of each coordinator's next step (a job ends within
  thirty minutes), of the provider's answer, of time, and of the reaper, which is
  scheduled hourly. The provider's own expiration is not relied on.

### Known disagreements between documents and code

Five promises of documents and tests hold only in a weaker form, which is the one the
properties state; with the form that was promised they fail.

* `src/HOSTED_RECOVERY.md` (line 229) says that any changed plan prevents applying an
  approval, and (line 227) has the operator verify each attribution in it. The plan holds of
  the history rows only `matched_rows`, `conflicts` and `applied`
  (`src/backend/manage_indexer.py:91`, `src/backend/replay_private_restore.py:239`). If one
  history row is reviewed, and production attributes it and gets another, the next run
  attributes that one under the reviewed digest. `AppliedAsApproved` says what does hold: the
  same target, the same products, the same number of history rows, no conflict. That
  the rows applied are those that were retained for review fails with two history rows.
* A test (`src/backend/tests/test_operations.py:294`) says that cancelling a stream releases
  its subscription. It does once the generator has started; but the handler subscribes
  before (`api/routes/analytics.py:121`), and a response that is dropped in between leaves its
  queue subscribed, filled and counted until the process ends. `HeldUntilEnd` says so; with
  `Abandoned(s)` left out of it, `StreamInv` fails.
* `DURABLE_INDEXING.md` (line 7) promises that an inconsistent RPC response
  leaves committed state intact. The batch compares its two ends after the queries
  (`services/indexer.py:399`); when the provider leaves a branch and returns to it
  in between, both match and logs are left out for good. With `ForksReturn = TRUE`
  in `MCWriters.cfg`, `ImplementsLedger` and `JournalExact` fail; both hold, and are
  proved, when abandoned branches do not return.
* The same document (line 27) promises that draft fields are restored when a
  registration disappears. A binding's baseline is taken once
  (`services/indexer.py:592`); an edit made between two registrations is lost when
  the second disappears. With `Keys` for `Keys \ stale`, `DraftGivenBack` fails.
* `REGISTRATION_LIFECYCLE.md` (line 57) promises that an attempt is retired only
  by a confirmed replacement. Block hash and head are read in two calls
  (`services/registration.py:131`); a fork between them counts the depth of an
  abandoned block. Without `~forked =>`, `RetiredOnlyByConfirmed` fails; `Settles`
  shows that later refreshes correct it.

A comment of `ShipmentTracker.sol` (line 95) says the first caller is allowed
while no handler is set; the modifier below it allows the manufacturer only, which
is what `Tracker` has.

### Observations made while modelling

* *Identity*. A row of another configuration under the same public ID blocks the
  indexing of that product, and neither tool repairs it: `ReconciledIsIndexable`
  excepts it. Merging while the journal lags behind the chain, followed by a fork
  below the registration, can leave a product with an older draft than the last
  one signed: `DraftReturns` excepts the keys in `drifted`. A shipment a merge moves
  keeps its own status until the next log of its product. When `manage_indexer` has tagged a
  history row and a fork moves its log to another block before any batch has journaled it,
  no rewind removes the row, every batch that reaches the head refuses
  (`services/indexer.py:751-803`), and neither tool repairs it, since both look at untagged rows
  or at products only: `ReconciledIsIndexable` excepts the keys in `astray`.
  `DURABLE_INDEXING.md` (lines 29 and 33) has such history stop progress until it is reviewed.
* *Rehearsal*. A branch that appeared more than fifteen minutes after its name was
  signed can never be verified: it makes `reap_expired` raise, for what comes
  after it in the list too, and only the provider's expiration removes it.
  `EveryBranchGoes` supposes there is none.
* *Worker*. An age of the head and an age of the last success may both be over
  their limits; the order of the conditions in `indexer_state` decides the reason.

## 4. Proofs

| Theorem | Statement |
|---|---|
| `IndexerProofs!TypeCorrect`, `BoundAlways` | `Spec => []TypeOK`, `Spec => []Bound(db)`: every reachable state of the indexer is well typed, and every journalled product has its binding and its row |
| `IndexerProofs!JournalIsExact` | `ForksReturn = FALSE => (Spec => []JournalExact)` |
| `IndexerProofs!IndexerImplementsLedger` | `ForksReturn = FALSE => (Spec => ImplementsLedger)`: every commit of `poll_once` is a step of `Ledger` |
| `IndexerProofs!HistoryIsExact` | `Spec => []HistoryExact`, also where abandoned branches return |
| `IndexerProofs!AdoptionIsSound` | `Spec => AdoptionSound`, also where abandoned branches return |
| `IndexerProofs!TablesAreExact` | `ForksReturn = FALSE => (Spec => []TablesExact)` |
| `IndexerProofs!AnchorsAreUsable` | `ForksReturn = FALSE => (Spec => []AnchorsUsable)` |
| `IndexerProofs!ShipmentsFollowChain`, `DraftsAreGivenBack`, `RegisteredChangeByChain` | `ForksReturn = FALSE => (LifecycleSpec => []LifecycleInv, []DraftGivenBack, RegisteredOnlyByChain)` (the last an action property) |
| `IndexerProofs!IndexerUndisturbed` | `ForksReturn = FALSE => (LifecycleSpec => [](JournalExact /\ HistoryExact /\ AnchorsUsable))` |
| `IndexerProofs!LedgerUndisturbed` | `ForksReturn = FALSE => (LifecycleSpec => ImplementsLedger)` (a refinement: a handler is a stutter of the ledger) |
| `TrackerProofs!CustodyIsUnbroken`, `LogsAreNeverRefused`, `ContractIsShown` | `Spec => []TrackerInv`, `[]NeverRefused`, `[]ProjectionShowsContract` |
| `IdentityProofs!NamesHold`, `OwnersAreProven`, `DraftsComeBack`, `ReconciledKeysIndex`, `ApplyingTwice` | `Spec => []IdentityInv`, `[]RightsProven`, `[]DraftReturns`, `[]ReconciledIsIndexable`, `Idempotent` (the last an action property) |
| `WorkerProofs!WorkerIsTold`, `ReadyIsAlwaysConsistent`, `ReadyIsAlwaysRecent` | `Spec => []WorkerInv`, `[]ReadyIsConsistent`, `ReadyIsRecent` (an action property) |
| `RegistrationProofs!LinksAlwaysSound`, `IndexedForItsEvent`, `RetiredForGood` | `AllSpec => []RegistrationInv`, `IndexedIsTrue`, `RetiredOnlyByConfirmed` (action properties) |
| `RehearsalProofs!OwnBranchOnly`, `ReportsAreHonest`, `ResultsAreBacked`, `OnlyApprovedIsApplied` | `Spec => []RehearsalInv`, `[]ReportHonest`, `[]ResultBacked`, `[]AppliedAsApproved` |
| `StreamProofs!StreamsAreServed`, `LossesAreTold`, `NothingIsForgotten` | `Spec => []StreamInv`, `[]LossIsTold`, `[]NothingForgotten` |
| `ExceptionsProofs!EpisodesAreSound`, `OpenIsAlwaysOverdue`, `HistoryIsAlwaysKept` | `Spec => []ExceptionsTypeOK`, `OpenIsOverdue`, `HistoryKept` (action properties) |

They hold for every value of the constants that satisfies the named assumptions of
the modules that declare them: any tree of blocks, any set of processes, keys, logs,
runs, requests, streams or transactions, any batch size, window, delay and capacity,
and any bound on faults. The assumptions, and where the code has them:

* `TreeAssumption`: the ancestors of a block are a chain with one block per height.
* `LogAssumption`: logs have positions of their own; an event occurs once on a branch,
  since its transaction does; and it concerns the same product wherever it is included,
  since the product ID is an argument of the transaction's call.
* `ContractAssumption`: on one branch a product is registered once, and before an update
  of its metadata (`src/blockchain/contracts/ProductRegistry.sol:68`, `:133`).
* `ProjectionAssumption`: absent values are not values; arguments are typed.
* `IndexerAssumption`: positive batch size, natural bounds; the history rows the
  database starts with have `source_event_id` unique (`models/shipment.py:29`, `:46`).
* `TrackerAssumption`, `UnregisteredAssumption`, `NullAssumption`: bounds are natural,
  `address(0)` is no wallet, at least one block; absent values are not values.
* `StreamAssumption`: finitely many connections, capacities of at least one.
* `WorkerAssumption`, `NoneAssumption`: positive delays; the failures are counted as far
  as the delay depends on them, at most 17 (`services/indexer.py:304` caps the
  exponent at 16); the deployment anchor can be confirmed. `PowersOfTwo` says for the provers,
  to which a power is any value, that `2^n` is a positive number.
* `ExceptionsAssumption`: finitely many shipments, typed logs and policies, and absent
  values that are not numbers.
* `IdentityAssumption`, `NoRowAssumption`: finitely many public IDs, each of one key and
  ordered by preference (`src/backend/manage_identity.py:149`); the hexadecimal form is one of
  the key's IDs; absent values are not values. `PastAssumption`: a draft was signed for the key's
  text, which is preferred to its hexadecimal forms, since `create_product` makes no other
  ID (`api/routes/products.py:102`); rows the indexer made have the hexadecimal form. A draft
  signed for a spelling that is not preferred would be archived by a merge.
* `RegistrationAssumption`, `NoAttemptAssumption`, `RehearsalAssumption`: typed constants;
  production has finitely many rows to reconcile.

TLC evaluates every one of them on the instances it checks.

### The indexer

**Types.** `TypeOK` alone is not inductive: projecting a log of a product needs
its binding and its row, and reading a header needs a block. `TypeInv` adds
`Bound` for the committed tables and every open transaction, and `Located` for
the locals of a poll. The lemmas on `Projection` say what its operators preserve: one
journalled log, one rewind, one replayed log keep the tables typed and bound.

**The journal.** `JournalExact` says something of the committed tables only, and
they are replaced by an open transaction's. `IInv` therefore says, for each place
`pc[w]` may be at, how far w's transaction is from exact: before the batch it is
exact at its cursor; during it, if the batch's end is still not abandoned, the
logs read so far are those of the end's branch of the types asked for so far, then
those journalled plus those to do are the batch's. The conditional carries the
argument: *an abandoned block is not served again*, so when the recheck finds the
end of the batch served, it was served during every query, and all of them were
answered from branches through it. The end was read after the cursor, and the
second recheck shows the cursor to be an ancestor (`EndInv`). The proof has one
lemma per group of actions, one step per action, and lemmas on the tree
(`LowerIsAncestor`: of two blocks of one branch the lower is on the path of the
higher; `LogsSplit`: a branch's logs are those up to the cursor and those beyond).
`ChainInv` (the served branch is not abandoned) is where `ForksReturn = FALSE`
enters.

**The refinement.** `Ledger` has one variable for each of the committed anchor,
cursor and journal, and only `Commit` and `CommitUnknown` change them
(`OthersStutter`), so a behaviour of `Indexer` maps to one of `Ledger` state by
state. `IInv` says that what is committed is exact at a block that is or was
served, not that it continues what is there: a transaction opened before another
worker's commit would move the cursor back. `LedgerInv` adds that whoever is past
the lock holds it (`LockInv`), and what its transaction knows of the committed
tables (`OpenInv`): they are empty when it creates the cursor; up to the first
comparison its cursor is theirs; a poll that searches for an anchor has seen that
cursor abandoned, since the block served at its number is another; and from then
on `Follows`: the same deployment anchor, and the committed cursor is on the new
cursor's branch or abandoned. `CommitPublishes` then splits on the committed cursor:
`Begin` if there is none, `Advance` if the new cursor's branch goes through it,
`Recover` if it was abandoned.

**The history.** `Told` relates the history rows to a set of logs. It holds of the
committed tables with the whole canonical journal, and of an open transaction with
what it has projected of it: all, or all but the logs a rewind has still to replay
(`Projected`, `RowsInv`). A rewind takes the rows of all logs of the affected
products away, whichever mark they have, and only those (`ToldRestore` needs that
an event is always of one product); a projection finds no row or its own
(`Agrees`). None of this refers to the chain, so returning branches do no harm.

**Adoption.** `Taken(p, t)`: a product is what it was at the start, p, until it
is bound, and it is bound only with the evidence of a journalled registration, which is
never forgotten (an orphaned log stays in the journal). It is carried by every step
(`Keeps`), and so is `Known`: a bound product has a registration in the journal.

**The products.** `Shows(t, S)` says that the rows are those the logs S prescribe, read from
the start. To stay true when a log is projected, the log must come after all those
of S that concern its product: `InOrder`, which a batch and a replay establish and keep
because the logs of one branch are ordered (`Ordered`) and the earliest goes first. Two
things make it inductive. First, an abandoned batch need not be in any order, so during
the batch the claim is conditional on its end not being abandoned and on the cursor being its
ancestor, which the two rechecks establish. Second, a metadata update of a bound
product presumes a registration in S; the contract says there is one on the branch, and it could
only be missing if it were at or below the deployment anchor. `Origin` excludes this:
every log ever journalled is on a branch through the block at the anchor's
height, above it, and one of them is a registration of the product (`Known`), so that
a second one below would be on the same branch (`RegisteredBefore`).

**The anchors.** `Spaced`: neighbouring anchors are at most one batch apart, and the
cursor and a block at the anchor's height are among them. A batch keeps it since its end is
an anchor and every header it read lies above the cursor (`AboveCursor`, again conditional
until the rechecks); a rewind cuts it at an anchor. `ShowsInv(K)` joins all of this, for the
baselines of the products in K: all of them when nobody else writes.

TLC checks the same inductive invariants on `Forks` and `Writers` when they are added to
the configurations (`IInv`, `LedgerInv`, `HistoryInv`, `ShowsInv(Keys)`).

### The other components

**Lifecycle.** The handlers write rows that open transactions have read, so what the indexer proofs
say of a transaction must survive. `LocksInv` is the reason why it does: a row the
transaction has not locked is the same in it and in the committed tables (`SameRow`), so a
handler that finds its row free changes what the transaction will read, and nothing it has
read; and the logs a rewind has still to replay are of locked rows. `WritersInv` joins
it with `LedgerInv`, which handlers cannot touch, with `ShowsInv(Keys \ stale)`, since the
baseline of a product that was edited between two registrations is not the last draft, and with
`DraftsInv`: a saved draft is the product until it is bound, and the baseline then. That an
editable product is not registered on the chain (`isProductRegistered`) is what keeps a saved
draft from overwriting what a log has set. The first version of the model remembered rows
of before the journal in `saved` too; the proof showed that such a row is no draft of its
owner, and `saved` starts with drafts only.

**Tracker.** `TrackerIInv` is one conjunction per product (`ProductInv`): a call emits
events of its own product, and the others' stay at their positions (`OthersKeep`). For the
product of the call, `Reflected` gives the holder by the events as the current handler, or
the manufacturer while there is none, which is what the modifiers compare the sender with;
`HistoryReflected` gives the last status and the number of checkpoints. A delivery is two
events of one call, so `EmitTwo` and `Completed` speak of neighbours. The projection is a recursive
function over the positions of the log. What it is at each position is proved by the
least position where it would be something else (`LeastOf`, from `NatLessThanWellFounded`), for its
existence (`JournalledUnfolds`) and for its value: after n logs the tables are what
those logs tell (`Fits`, `JournalledFits`). The first event of a product is its registration, so the
binding is there for every other; identities of events are positions, so no row is found
tagged; and what the last events of each kind tell is by `TrackerIInv` what the storage holds.

**Worker.** `WorkerIInv` adds to `WorkerInv` which numbers belong together between
the steps that publish them (`HealthInv`: target and head, and a success is not
more recent than the last commit), that nothing can pass between commit and record
(`ThreadInv`), what the flags say (`FlagsInv`: a running thread has `running` set), and that
whoever was told that the database answers waited for that check (`RequestsInv`).
Readiness is then a matter of comparing ages. The attempt to prove `ReadyIsRecent` for more than
one request showed that the history variable `checked` forgot requests that had been
answered before a check ended; it is kept now, and `Worker` runs with two requests.

**Registration.** The handlers learn what they write one call at a time while the chain
moves, so `RegistrationIInv` is about the open call: the rows it was opened for are as they were
(it holds the lock), the nonces and inputs it has read are true (transactions do not
change), and a receipt is of the chain unless that forked since the call was opened
(`ReceiptSound`, with the history variable `forked`). What an attempt needs to be indexed is the
first registration of the journal: a nonempty set of positions has a least one (`LeastOf`),
since `<` on the naturals is well founded (`NatLessThanWellFounded` of `WellFoundedInduction`).

**Rehearsal.** `RehearsalIInv` is one conjunction per run (`RunSound`) and a few facts about what runs
share. A step of one run leaves the others as they were (`Unmoved`), so
each action is checked against one run. `LedgerSound` says what the ledger on disk
implies of the provider's branch at each place, `CleanupSound` what a cleanup that was
reported means, `PlanSound` that the logs are those of the target, which is still canonical
when it is compared and therefore was throughout, since the chain only moves on;
`AppliedSound` that the plan is `PlanOf` the rows it was made from, which are free of
conflicts and are those applied, whatever production became meanwhile; `OutcomeSound` what a result
presupposes. That `PlanOf` fits the digest needs `FS_Subset` (`PlanTyped`).

**Stream.** `NothingForgotten` is almost inductive: whether a page will hear of a commit depends on a
message in its queue or on the wire, a call that is scheduled, a publication that is due,
or a comparison that is going to find the revisions different. `StreamIInv` adds that nobody
knows of a commit that was not made (`KnownIsCommitted`) and bounds the scheduled calls. Lemmas
about sequences say what appending, taking the head and clearing do to the messages a
queue holds (`AppendHolds`, `TailHolds`); `HeldUntilEnd` needs cardinalities of
finite sets: a subscription is there from `Connect` to `End`, whichever step ends it
(`HeldWhileBusy`). `LossIsTold` is inductive: each overflow appends a resync to what is left,
and a queue is not marked `lost` any more once one is taken from it.

**Exceptions.** Whatever happens between evaluation and commit, what is committed must fit
the database of that moment. `HeldOK` is why it does: the rows of whoever holds the writer
lock are what `Evaluated` gives *now*, with the plans it has read, because the journal,
the policies and the episodes only change while the lock is free; and the last assessment
is not later than its time. `Sound` adds that at most one episode of a kind is open, and
the order of times, up to that of the last assessment. It is kept because each kind of
condition comes from one rule, which gives one condition at most (`Rules`), and because an
open episode stays open exactly if its condition is still expected (`SettledEpisode`). That
`Evaluated` opens one episode for each condition left needs what `SetToSeq` of the community
modules does with a finite set (`Listed`), hence that the conditions are finitely many.

**Identity.** Every step but a merge writes one row, and every step works key by key, so
`IdentityIInv` is one conjunction per key (`KeyInv`) and `KeyKeeps` settles the keys a
step does not touch. None of the four properties is inductive. That names resolve needs
`NamesSound`: a row is active or an alias leads, in one step, to an active row of its key, and an
active row has no alias. That rights are proven needs to know where they come from: what the chain
grants is in the bound row (`OwnersSound`), a baseline was never registered, and a baseline that
was signed for is that of the draft's own row (`BindingSound`), or a rewind would give
one wallet's draft to another's row. That a draft comes back needs `DraftSound`: its row is the
preferred one among those of its key, so that no merge archives it; the draft is in that row unless
the row is bound and journalled, and then it is its baseline. A merge may take fields from one row,
the baseline from a second and the binding from a third: `KeyMerged` says what it does to one key,
`ChangedKeyMerged` that the tool does it, `MergedKeySound` that the invariant survives it. The
winner exists because ranks are natural numbers (`WinnerIs`); `MovedIs` says where references go.
`ReconciledIsIndexable` follows from the invariant: a key without changes has one active row,
already reserved, or none, and no reservation or history beside it (`Indexable`). Its history is
covered because of `HistorySound`: unless the key is in `astray`, its history names the log
that is on the chain or the one the journal holds. A rewind takes the rows of the orphaned log, the
tool tags with a log of the chain, and a fork changes the log under tagged history
only while the journal has it, or else the key goes astray. For
`Idempotent` a changed key has one row left, whose fields agree with the registration because
those of the row they were taken from did, and the others were not touched. The invariant was
checked on `Identity` (added to its configuration) before it was proved.

**Only model-checked.** Liveness under fairness (`Converges`, `Settles`, `Noticed`,
`Recovers`, `EndsUpToDate`, `EveryBranchGoes`) is out of the prover's reach and stays
with TLC. Every safety invariant and action property of the runs is the subject of a theorem;
`Idempotent` of `Identity`, which is about one step, is only proved.

## 5. What the models leave out

* **Indexer**: one scope; the published progress and its event; the fallback of
  `_registration_details` for providers that keep no old state (it compares the
  inclusion instead, so the model accepts more); the order in which `_rewind` locks
  several rows (they are locked at once). Blocks that a provider serves from two
  nodes at once appear as `MoveTip` between two calls.
* **Lifecycle**: shipment edits and deletions; the pending-attempt guard of
  `update_product`, which is in `Registration`. A configured RPC is assumed in
  `require_editable_draft`.
* **Registration**: one product, so one hash submitted for two products at once
  is not reached; replacements of replacements; the read-only evidence endpoint;
  the panel, in whose place any attempt may be refreshed at any time.
* **Tracker**: `totalProducts` and `manufacturerProducts`, which no other code
  reads; one call per transaction.
* **Exceptions**: malformed timestamps in payloads, the ownership and revision
  conflicts the API answers with an error, the outer pause around the evaluation loop.
* **Worker**: the labels of phases and the log of their transitions, a thread that
  cannot be started, a disabled indexer, the retry loop of `check_health`,
  `monitor_operations`. The clock moves while the thread waits, hangs or is not
  there: its own steps take no time.
* **Stream**: the types of messages, which nothing that listens tells apart, and the
  indicator of the stream's health.
* **Identity**: the tools' dry run and printed plan, several registries and chains
  at once (they are the scopes `tracker` and `other`), registrations that are mined
  but not confirmed (those are in `Lifecycle`).
* **Rehearsal**: dump, restore and encryption are steps that succeed or fail; the
  comparison of databases, archive formats and HTTP requests are left out, and the
  runs of one environment exclude each other as the workflow's concurrency group has it.
* **Not modelled at all**: see 1.2. Authentication and the outbox are the two parts
  with interleavings of their own that are still missing.

## 6. Plan

Done: the indexer with its abstraction and first proofs, its composition with
drafts, registration attempts, contracts with the projection, exceptions, the
worker with readiness, the event stream, product identity, recovery rehearsals.

Modules left:

1. **AuthSession**: challenges in two concurrent requests; the browser's session
   generation across wallet changes, tabs and expiry.
2. **Outbox**: hashes in the browser's storage between two tabs and the API.
3. In `Registration`: replacements of replacements, and two products.

Theorems: those of the modules above as they are written.
