------------------------- MODULE TrackerProperties -------------------------
(***************************************************************************)
(* What the events of the contracts tell somebody who reads nothing else,  *)
(* and what the indexer makes of them.                                     *)
(***************************************************************************)
EXTENDS Tracker

CONSTANTS NoBlock, NoProduct, Unbound, NoShipment, Nobody, NoUri, NoTx, NoEvent

\* Where the log has events of product k with one of the types.
Positions(k, types) == {i \in DOMAIN log : log[i].key = k /\ log[i].type \in types}

Custody == {"ProductRegistered", "CustodyTransferred"}
Handling == {"CheckpointRecorded", "CustodyTransferred", "DeliveryCompleted"}

\* Position i is the last of those in S.
IsLast(i, S) == i \in S /\ \A j \in S : j <= i

\* Who holds product k before position n, according to the events: the
\* manufacturer, then whoever custody was transferred to.
HeldBy(k, n, wallet) ==
    \E i \in Positions(k, Custody) :
        /\ i < n /\ \A j \in Positions(k, Custody) : j < n => j <= i
        /\ log[i].who = wallet

CustodyOf(k) ==
    \A n \in Positions(k, EventTypes) :
        /\ log[n].type = "ProductRegistered" <=> \A m \in Positions(k, EventTypes) : n <= m
        /\ log[n].type \in {"CheckpointRecorded", "DeliveryCompleted"} => HeldBy(k, n, log[n].who)
        /\ log[n].type = "CustodyTransferred" => HeldBy(k, n, log[n].from)

\* The delivery that position n completes.
Completed(k, n) ==
    /\ n + 1 \in DOMAIN log
    /\ log[n + 1] = [log[n] EXCEPT !.type = "CheckpointRecorded", !.text = log[n + 1].text]
    /\ \A m \in Positions(k, EventTypes) :
          m > n + 1 => log[m].type = "ProductMetadataUpdated"
    /\ \E m \in Positions(k, {"CheckpointRecorded"}) :
          m < n /\ log[m].status \in {InTransit, AtCheckpoint}

DeliveryOf(k) ==
    /\ \A n \in Positions(k, {"DeliveryCompleted"}) : Completed(k, n)
    /\ \A n \in Positions(k, {"CheckpointRecorded"}) :
          log[n].status = Delivered => n - 1 \in Positions(k, {"DeliveryCompleted"})

\* The events show an unbroken chain of custody: the first is the
\* registration, and every checkpoint, delivery and transfer is made by the
\* holder.  _project takes the handler of each event without comparing it.
CustodyUnbroken == \A k \in ProductIds : CustodyOf(k)

\* Delivery is the end: after the checkpoint that completes it, which comes
\* with its DeliveryCompleted as _validate_delivery_pairs expects, custody and
\* status stay what they are, and there is no shortcut to it.
DeliveryIsFinal == \A k \in ProductIds : DeliveryOf(k)

\* The mappings agree, and the events tell of them an unbroken chain of
\* custody that ends with the delivery.
TrackerInv == TrackerTypeOK /\ CustodyUnbroken /\ DeliveryIsFinal

\* What the storage of product k and the events of k say of each other.
Reflected(k) ==
    /\ isProductRegistered(k) =>
          \E i \in Positions(k, {"ProductRegistered"}) :
              log[i].who = products[k].manufacturer /\ log[i].text = products[k].name
    /\ ~isProductRegistered(k) => Positions(k, EventTypes) = {}
    /\ isProductRegistered(k) =>
          HeldBy(k, Len(log) + 1,
                 IF currentHandler[k] = Zero THEN products[k].manufacturer ELSE currentHandler[k])
    /\ \A i \in Positions(k, Handling) : IsLast(i, Positions(k, Handling)) => log[i].who = currentHandler[k]
    /\ currentHandler[k] = Zero => Positions(k, Handling) = {}
    /\ delivered[k] <=> Positions(k, {"DeliveryCompleted"}) # {}

\* Its URI, in the storage and at the ends of earlier blocks.
UriReflected(k) ==
    /\ \A i \in Positions(k, {"ProductMetadataUpdated"}) :
          IsLast(i, Positions(k, {"ProductMetadataUpdated"})) =>
              products[k].metadataURI = log[i].text
    /\ \A b \in DOMAIN ended, i \in Positions(k, {"ProductRegistered"}) :
          log[i].block <= b =>
              /\ ended[b][k] # Unregistered
              /\ Positions(k, {"ProductMetadataUpdated"}) = {} => ended[b][k] = products[k]

\* Its checkpoints.
HistoryReflected(k) ==
    /\ \A i \in Positions(k, {"CheckpointRecorded", "DeliveryCompleted"}) :
          IsLast(i, Positions(k, {"CheckpointRecorded", "DeliveryCompleted"})) =>
              log[i].status = Last(productHistory[k]).status
    /\ \A j \in DOMAIN productHistory[k] :
          \E i \in Positions(k, {"CheckpointRecorded"}) : log[i].status = productHistory[k][j].status
    /\ Cardinality(Positions(k, {"CheckpointRecorded"})) = Len(productHistory[k])

\* The inductive invariant.
TrackerIInv ==
    /\ TrackerInv
    /\ \A k \in ProductIds : Reflected(k) /\ UriReflected(k) /\ HistoryReflected(k)

----------------------------------------------------------------------------
(* The indexer reads the events block after block.  A transaction is one   *)
(* call here.  The registration's URI is read from the contract at the end *)
(* of the block (_registration_details).                                   *)

Indexed == INSTANCE Projection WITH
    Blocks <- 0..MaxBlocks, Genesis <- 0, Height <- [b \in 0..MaxBlocks |-> b],
    Path <- [b \in 0..MaxBlocks |-> 0..b], Logs <- {}, Keys <- ProductIds,
    ForksReturn <- FALSE, tip <- BlockNumber, dead <- {},
    Texts <- Names, Addresses <- Wallets, Txs <- 1..MaxEvents, EventIds <- 1..MaxEvents

getProduct(k, n) == IF n < BlockNumber THEN ended[n][k] ELSE products[k]

\* NULLs and missing rows are told from values.
ASSUME NullAssumption ==
    Unbound \notin Indexed!Binding /\ NoProduct \notin Indexed!Product /\ NoShipment \notin Status

Log(n) ==
    LET e == log[n] IN
    [id |-> n, tx |-> n, block |-> e.block, idx |-> n, type |-> e.type, key |-> e.key,
     who |-> e.who, status |-> e.status, name |-> e.text,
     uri |-> IF e.type = "ProductRegistered" THEN getProduct(e.key, e.block).metadataURI
             ELSE e.text]

\* Every product has a planned shipment and no other row.
Before == [start |-> 0, cursor |-> 0, anchors |-> {}, canonical |-> {}, orphaned |-> {},
           bind |-> [k \in ProductIds |-> Unbound],
           product |-> [k \in ProductIds |-> NoProduct],
           ship |-> [k \in ProductIds |-> 0], hist |-> {}]

Journalled == LET tables[n \in 0..Len(log)] ==
                      IF n = 0 THEN Before ELSE Indexed!Journal(tables[n - 1], Log(n))
              IN tables

\* The indexer never refuses a log of the contracts: every product is bound
\* by the time its other events arrive.
NeverRefused ==
    \A n \in DOMAIN log : Indexed!CanJournal(Journalled[n - 1], Log(n))

\* What is indexed is what the contracts hold: manufacturer, name and URI,
\* last status and current handler, whatever calls share a block, and a
\* history row for every checkpoint.
ProjectionShowsContract ==
    \A k \in ProductIds : isProductRegistered(k) =>
        LET t == Journalled[Len(log)] IN
        /\ t.product[k].owner = products[k].manufacturer
        /\ t.product[k].name = products[k].name
        /\ t.product[k].uri = products[k].metadataURI
        /\ t.bind[k].handler = IF currentHandler[k] = Zero THEN Nobody ELSE currentHandler[k]
        /\ t.bind[k].status = IF productHistory[k] = <<>> THEN Created
                              ELSE Last(productHistory[k]).status
        /\ t.ship[k] = t.bind[k].status
        /\ Cardinality({r \in t.hist : r.key = k /\ r.type = "CheckpointRecorded"})
              = Len(productHistory[k])

=============================================================================
