----------------------------- MODULE Projection -----------------------------
(***************************************************************************)
(* What backend/app/services/indexer.py does to the tables: the journal of *)
(* logs and the projection built from it.  Every operator takes the tables *)
(* a transaction sees and gives them back changed.                         *)
(*                                                                         *)
(* The tables are a record t:                                              *)
(*   start, cursor       indexer_cursors: the deployment anchor and the    *)
(*                       last processed block (its hash; its number is     *)
(*                       Height[cursor]), NoBlock before the first poll    *)
(*   anchors             chain_blocks, at most one hash per block number   *)
(*   canonical, orphaned chain_events: the occurrences of either mark      *)
(*   bind                indexed_products: baseline, status, handler       *)
(*   product             products: the fields the indexer writes           *)
(*   ship                shipments.status, per product                     *)
(*   hist                checkpoints and custody_transfers                 *)
(* One configuration (scope) is modelled; description follows uri, and     *)
(* locations, notes and times follow the event they come with.             *)
(***************************************************************************)
EXTENDS Chain

CONSTANTS
    NoBlock, NoProduct, Unbound, NoShipment, \* "no row"
    Nobody, NoUri, NoTx, NoEvent,            \* SQL NULL, and "0x"
    Texts,                                   \* names and URIs
    Addresses,                               \* wallets
    Txs,                                     \* transaction hashes
    EventIds                                 \* identities of events

Sources == {"none", "signed_draft", "chain_event"}
Registrations == {"draft", "indexed", "unregistered", "legacy_unreconciled"}
Statuses == 0..3    \* Created, InTransit, AtCheckpoint, Delivered

Product == [name : Texts, uri : Texts \cup {NoUri}, owner : Addresses \cup {Nobody},
            source : Sources, reg : Registrations, height : Nat, tx : Txs \cup {NoTx}]
Binding == [base : Product, status : Statuses, handler : Addresses \cup {Nobody}]
Row == [id : EventIds \cup {NoEvent}, key : Keys, type : EventTypes, height : Nat]

\* NULLs and missing rows are told from values, and logs carry values.
ASSUME ProjectionAssumption ==
    /\ NoBlock \notin Blocks /\ NoProduct \notin Product
    /\ Unbound \notin Binding /\ NoShipment \notin Statuses
    /\ Nobody \notin Addresses /\ NoUri \notin Texts
    /\ NoTx \notin Txs /\ NoEvent \notin EventIds
    /\ \A o \in Logs :
          /\ o.id \in EventIds /\ o.tx \in Txs /\ Height[o.block] > 0
          /\ o.type # "ProductMetadataUpdated" => o.who \in Addresses
          /\ o.type = "ProductRegistered" => o.name \in Texts
          /\ o.type \in {"ProductRegistered", "ProductMetadataUpdated"} => o.uri \in Texts
          /\ o.type = "CheckpointRecorded" => o.status \in Statuses

Tables ==
    [start : Nat, cursor : Blocks \cup {NoBlock}, anchors : SUBSET Blocks,
     canonical : SUBSET Logs, orphaned : SUBSET Logs,
     bind : [Keys -> Binding \cup {Unbound}],
     product : [Keys -> Product \cup {NoProduct}],
     ship : [Keys -> Statuses \cup {NoShipment}],
     hist : SUBSET Row]

IsRow(o) == o.type \in {"CheckpointRecorded", "CustodyTransferred"}
RowOf(o) == [id |-> o.id, key |-> o.key, type |-> o.type, height |-> Height[o.block]]

\* source_event_id is unique in its table where it is not NULL, and a log is
\* of one table.
UniqueIds(rows) == \A r, s \in rows : r.id = s.id /\ r.id # NoEvent => r = s

----------------------------------------------------------------------------
(* _binding: the first registration binds a product row to its chain key.  *)

Placeholder(o) ==
    [name |-> o.name, uri |-> NoUri, owner |-> Nobody, source |-> "none",
     reg |-> "unregistered", height |-> 0, tx |-> NoTx]

\* What a product goes back to when its registration disappears.
Baseline(p, o) ==
    IF p = NoProduct THEN Placeholder(o)
    ELSE IF p.height = 0 THEN p
    ELSE [p EXCEPT !.uri = NoUri, !.owner = Nobody, !.source = "none",
                   !.reg = "legacy_unreconciled", !.height = 0, !.tx = NoTx]

\* Mutation: block and transaction of the legacy registration not compared.
AdoptableUnchecked(t, o) ==
    t.product[o.key] # NoProduct => \A r \in t.hist : r.key = o.key => r.id # NoEvent

\* A legacy row is adopted only if it agrees with the log and has no
\* history that no log is known for.
Adoptable(t, o) ==
    LET p == t.product[o.key] IN
    p # NoProduct =>
        /\ \A r \in t.hist : r.key = o.key => r.id # NoEvent
        /\ p.height > 0 => p.height = Height[o.block] /\ p.tx = o.tx

CanBind(t, o) ==
    \/ t.bind[o.key] # Unbound
    \/ o.type = "ProductRegistered" /\ Adoptable(t, o)

Bind(t, o) ==
    IF t.bind[o.key] # Unbound THEN t
    ELSE LET base == Baseline(t.product[o.key], o)
             was  == t.product[o.key]
         IN [t EXCEPT
                !.bind[o.key] = [base |-> base, status |-> 0, handler |-> Nobody],
                !.product[o.key] = IF was = NoProduct THEN base ELSE was]

----------------------------------------------------------------------------
(* _project: one journalled log applied to the product and its lifecycle.  *)

Registered(t, o) ==
    [t EXCEPT !.product[o.key] =
        [name |-> o.name, uri |-> o.uri, owner |-> o.who, source |-> "chain_event",
         reg |-> "indexed", height |-> Height[o.block], tx |-> o.tx]]

MetadataUpdated(t, o) == [t EXCEPT !.product[o.key].uri = o.uri]

CheckpointRecorded(t, o) ==
    [t EXCEPT !.bind[o.key].status = o.status, !.bind[o.key].handler = o.who,
              !.hist = @ \cup {RowOf(o)}]

\* Mutation: a transfer is only history.
CustodyNoted(t, o) == [t EXCEPT !.hist = @ \cup {RowOf(o)}]
CustodyTransferred(t, o) ==
    [t EXCEPT !.bind[o.key].handler = o.who, !.hist = @ \cup {RowOf(o)}]

\* Sets state, never invents a checkpoint.
DeliveryCompleted(t, o) ==
    [t EXCEPT !.bind[o.key].status = 3, !.bind[o.key].handler = o.who]

Effect(t, o) ==
    CASE o.type = "ProductRegistered"      -> Registered(t, o)
      [] o.type = "ProductMetadataUpdated" -> MetadataUpdated(t, o)
      [] o.type = "CheckpointRecorded"     -> CheckpointRecorded(t, o)
      [] o.type = "CustodyTransferred"     -> CustodyTransferred(t, o)
      [] o.type = "DeliveryCompleted"      -> DeliveryCompleted(t, o)

FollowShipment(t, k) ==
    [t EXCEPT !.ship[k] = IF @ = NoShipment THEN NoShipment ELSE t.bind[k].status]

\* Mutation: tagged rows taken as they are.
AgreesAlways(t, o) == TRUE

\* A row already tagged with this event must agree with it.
Agrees(t, o) == IsRow(o) => \A r \in t.hist : r.id = o.id => r = RowOf(o)

CanProject(t, o) == CanBind(t, o) /\ Agrees(t, o)
Project(t, o) == FollowShipment(Effect(Bind(t, o), o), o.key)

----------------------------------------------------------------------------
(* _journal: at most one canonical occurrence of an event (unique index),  *)
(* and an occurrence journalled before is marked canonical again.          *)

CanJournal(t, o) ==
    o \notin t.canonical =>
        /\ \A p \in t.canonical : p.id # o.id
        /\ CanProject(t, o)

Journal(t, o) ==
    IF o \in t.canonical THEN t
    ELSE Project([t EXCEPT !.canonical = @ \cup {o}, !.orphaned = @ \ {o}], o)

----------------------------------------------------------------------------
(* _rewind: back to anchor a.  The remaining logs of the affected products *)
(* (Remaining) are projected again afterwards, in chain order.             *)

Orphans(t, a) == {o \in t.canonical : Height[o.block] > Height[a]}
Affected(t, a) == {o.key : o \in Orphans(t, a)}
\* Mutation: nothing projected again.
RemainingNone(t, a) == {}
Remaining(t, a) == {o \in t.canonical \ Orphans(t, a) : o.key \in Affected(t, a)}

\* Mutation: no history row deleted.
AttributedNone(t, a) == {}

\* History rows the journal of the affected products accounts for.
Attributed(t, a) ==
    {r \in t.hist : \E o \in t.canonical \cup t.orphaned :
                        o.key \in Affected(t, a) /\ o.id = r.id}

Restore(t, a) ==
    LET back == Affected(t, a) IN
    [t EXCEPT
        !.canonical = @ \ Orphans(t, a),
        !.orphaned = @ \cup Orphans(t, a),
        !.product = [k \in Keys |-> IF k \in back THEN t.bind[k].base ELSE @[k]],
        !.bind = [k \in Keys |-> IF k \in back
                                 THEN [t.bind[k] EXCEPT !.status = 0, !.handler = Nobody]
                                 ELSE @[k]],
        !.hist = @ \ Attributed(t, a),
        !.ship = [k \in Keys |-> IF k \in back /\ @[k] # NoShipment THEN 0 ELSE @[k]],
        !.anchors = {b \in @ : Height[b] <= Height[a]},
        !.cursor = a]

\* _validate_history_coverage: every history row of an indexed product is
\* tagged with an event of the canonical journal.
Covered(t) ==
    \A r \in t.hist : t.bind[r.key] # Unbound =>
                          \E o \in t.canonical : o.id = r.id
=============================================================================
