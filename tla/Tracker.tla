------------------------------ MODULE Tracker ------------------------------
(***************************************************************************)
(* The contracts blockchain/contracts/ProductRegistry.sol and              *)
(* ShipmentTracker.sol: products, their checkpoints and custody, and the   *)
(* events the backend indexes.  A call that reverts changes nothing and is *)
(* no step.  Calls are executed one at a time, several to a block.         *)
(***************************************************************************)
EXTENDS Integers, FiniteSets, SequencesExt

CONSTANTS
    ProductIds, ZeroId,     \* bytes32 values; ZeroId is bytes32(0)
    Wallets, Zero,          \* addresses; Zero is address(0)
    Names, EmptyString,     \* names, URIs and locations
    Unregistered,
    MaxEvents,              \* bound: events emitted
    MaxBlocks               \* bound: blocks

ASSUME TrackerAssumption ==
    /\ ZeroId \in ProductIds /\ Zero \notin Wallets /\ EmptyString \in Names
    /\ MaxEvents \in Nat /\ MaxBlocks \in Nat \ {0}

Created == 0
InTransit == 1
AtCheckpoint == 2
Delivered == 3
Status == Created..Delivered

Product == [manufacturer : Wallets, name : Names, metadataURI : Names]
Checkpoint == [status : Status, handler : Wallets]

\* A product that is not registered is told from one that is.
ASSUME UnregisteredAssumption == Unregistered \notin Product

EventTypes == {"ProductRegistered", "ProductMetadataUpdated", "CheckpointRecorded",
               "CustodyTransferred", "DeliveryCompleted"}
EventData == [type : EventTypes, block : 1..MaxBlocks, key : ProductIds,
              who : Wallets \cup {Zero}, from : Wallets \cup {Zero}, text : Names, status : Status]
\* Every event but an update of metadata names a wallet.
Event == {e \in EventData : e.who = Zero <=> e.type = "ProductMetadataUpdated"}

VARIABLES
    products,       \* ProductRegistry.products
    productHistory, \* ShipmentTracker: checkpoints per product
    currentHandler, delivered,
    log,            \* events emitted so far
    ended           \* products at the end of every earlier block

contracts == <<products, productHistory, currentHandler, delivered>>
vars == <<contracts, log, ended>>

\* The storage is well typed, and its mappings agree with each other.
TrackerTypeOK ==
    /\ products \in [ProductIds -> Product \cup {Unregistered}]
    /\ productHistory \in [ProductIds -> Seq(Checkpoint)]
    /\ currentHandler \in [ProductIds -> Wallets \cup {Zero}]
    /\ delivered \in [ProductIds -> BOOLEAN]
    /\ log \in Seq(Event) /\ Len(log) <= MaxEvents
    /\ \A k \in ProductIds :
          /\ currentHandler[k] = Zero <=> productHistory[k] = <<>>
          /\ delivered[k] <=> \E i \in DOMAIN productHistory[k] : productHistory[k][i].status = Delivered
    /\ ended \in Seq([ProductIds -> Product \cup {Unregistered}]) /\ Len(ended) < MaxBlocks

Init ==
    /\ products = [k \in ProductIds |-> Unregistered]
    /\ productHistory = [k \in ProductIds |-> <<>>]
    /\ currentHandler = [k \in ProductIds |-> Zero]
    /\ delivered = [k \in ProductIds |-> FALSE]
    /\ log = <<>> /\ ended = <<>>

BlockNumber == Len(ended) + 1

Emitted(type, k, who, from, text, status) ==
    [type |-> type, block |-> BlockNumber, key |-> k, who |-> who, from |-> from,
     text |-> text, status |-> status]

Emit(events) ==
    /\ Len(log) + Len(events) <= MaxEvents
    /\ log' = log \o events
    /\ UNCHANGED ended

----------------------------------------------------------------------------
(* ProductRegistry *)

isProductRegistered(k) == products[k] # Unregistered

registerProduct(sender, k, name, uri) ==
    /\ k # ZeroId /\ name # EmptyString
    /\ ~isProductRegistered(k)
    /\ products' = [products EXCEPT
                       ![k] = [manufacturer |-> sender, name |-> name, metadataURI |-> uri]]
    /\ Emit(<<Emitted("ProductRegistered", k, sender, Zero, name, Created)>>)
    /\ UNCHANGED <<productHistory, currentHandler, delivered>>

updateProductMetadata(sender, k, uri) ==
    /\ isProductRegistered(k) /\ products[k].manufacturer = sender
    /\ products' = [products EXCEPT ![k].metadataURI = uri]
    /\ Emit(<<Emitted("ProductMetadataUpdated", k, Zero, Zero, uri, Created)>>)
    /\ UNCHANGED <<productHistory, currentHandler, delivered>>

----------------------------------------------------------------------------
(* ShipmentTracker *)

\* Mutation: products that are not registered are tracked.
HandlerOfAny(k, sender) == currentHandler[k] \in {Zero, sender}

onlyCurrentHandler(k, sender) ==
    /\ isProductRegistered(k)
    /\ IF currentHandler[k] = Zero THEN products[k].manufacturer = sender
       ELSE currentHandler[k] = sender

\* Mutation: no check of the delivery.
DeliveryIgnored(k) == TRUE
onlyBeforeDelivery(k) == ~delivered[k]

Following == [s \in Status |->
    CASE s = Created      -> {InTransit, AtCheckpoint}
      [] s = InTransit    -> {AtCheckpoint, Delivered}
      [] s = AtCheckpoint -> {InTransit, Delivered}
      [] s = Delivered    -> {}]

ValidStatusTransition(k, newStatus) ==
    IF productHistory[k] = <<>> THEN newStatus = Created
    ELSE newStatus \in Following[Last(productHistory[k]).status]

HandlerAfter(k, sender) ==
    IF currentHandler[k] = Zero THEN [currentHandler EXCEPT ![k] = sender] ELSE currentHandler

DeliveryEvents(k, sender, status) ==
    IF status = Delivered
    THEN <<Emitted("DeliveryCompleted", k, sender, Zero, EmptyString, Delivered)>>
    ELSE <<>>

recordCheckpoint(sender, k, location, status) ==
    /\ onlyCurrentHandler(k, sender) /\ onlyBeforeDelivery(k)
    /\ k # ZeroId /\ location # EmptyString
    /\ ValidStatusTransition(k, status)
    /\ currentHandler' = HandlerAfter(k, sender)
    /\ productHistory' = [productHistory EXCEPT
                             ![k] = Append(@, [status |-> status, handler |-> sender])]
    /\ delivered' = [delivered EXCEPT ![k] = @ \/ status = Delivered]
    /\ Emit(DeliveryEvents(k, sender, status) \o
            <<Emitted("CheckpointRecorded", k, sender, Zero, location, status)>>)
    /\ UNCHANGED products

transferCustody(sender, k, newHandler) ==
    /\ onlyBeforeDelivery(k)
    /\ k # ZeroId /\ currentHandler[k] = sender /\ newHandler # Zero
    /\ currentHandler' = [currentHandler EXCEPT ![k] = newHandler]
    /\ Emit(<<Emitted("CustodyTransferred", k, newHandler, sender, EmptyString, Created)>>)
    /\ UNCHANGED <<products, productHistory, delivered>>

----------------------------------------------------------------------------
NewBlock ==
    /\ BlockNumber < MaxBlocks
    /\ ended' = Append(ended, products)
    /\ UNCHANGED <<contracts, log>>

Calls(sender, k) ==
    \/ \E name, uri \in Names : registerProduct(sender, k, name, uri)
    \/ \E uri \in Names : updateProductMetadata(sender, k, uri)
    \/ \E location \in Names, status \in Status : recordCheckpoint(sender, k, location, status)
    \/ \E newHandler \in Wallets \cup {Zero} : transferCustody(sender, k, newHandler)

Next == NewBlock \/ \E sender \in Wallets, k \in ProductIds : Calls(sender, k)

Spec == Init /\ [][Next]_vars
=============================================================================
