---------------------------- MODULE TrackerProofs ----------------------------
(***************************************************************************)
(* The contracts' events tell of custody and delivery what the storage     *)
(* holds (TrackerInv), and what the indexer makes of the events is what    *)
(* the contracts hold (NeverRefused, ProjectionShowsContract), for any     *)
(* products, wallets and names, and any number of events and blocks.       *)
(*   1. The inductive invariant is TrackerIInv: a call is checked against  *)
(*      the product it is for (ProductInv), the events of the others are   *)
(*      where they were.                                                   *)
(*   2. After n logs the tables are what those logs tell (Fits), log after *)
(*      log; with TrackerIInv, what they tell is what the storage holds.   *)
(***************************************************************************)
EXTENDS TrackerProperties, SequenceTheorems, FiniteSetTheorems,
        WellFoundedInduction, TLAPS

\* What the inductive invariant says of one product.
ProductInv(k) ==
    CustodyOf(k) /\ DeliveryOf(k) /\ Reflected(k) /\ UriReflected(k) /\ HistoryReflected(k)

LEMMA TrackerIInvIs == TrackerIInv <=> TrackerTypeOK /\ \A k \in ProductIds : ProductInv(k)
BY DEF TrackerIInv, TrackerInv, CustodyUnbroken, DeliveryIsFinal, ProductInv

----------------------------------------------------------------------------
(* What emitting adds to the positions of events.                          *)

\* The log goes on: what was emitted stays where it was.
LogGrows ==
    /\ log' \in Seq(Event) /\ Len(log) \in Nat /\ Len(log') \in Nat /\ Len(log') >= Len(log)
    /\ DOMAIN log = 1..Len(log) /\ DOMAIN log' = 1..Len(log')
    /\ \A i \in DOMAIN log : log'[i] = log[i]

LEMMA EmitOne ==
    ASSUME log \in Seq(Event), NEW e \in Event, log' = log \o <<e>>
    PROVE  /\ LogGrows /\ Len(log') = Len(log) + 1 /\ log'[Len(log) + 1] = e
           /\ \A k, T : Positions(k, T)' =
                 IF e.key = k /\ e.type \in T THEN Positions(k, T) \cup {Len(log) + 1}
                 ELSE Positions(k, T)
<1>1. /\ log' \in Seq(Event) /\ Len(log) \in Nat /\ Len(log') = Len(log) + 1
      /\ DOMAIN log = 1..Len(log) /\ DOMAIN log' = 1..Len(log')
      /\ \A i \in 1..Len(log) : log'[i] = log[i]
      /\ log'[Len(log) + 1] = e
  OBVIOUS
<1>2. DOMAIN log' = DOMAIN log \cup {Len(log) + 1}
  BY <1>1
<1>3. QED
  BY <1>1, <1>2 DEF LogGrows, Positions

LEMMA EmitTwo ==
    ASSUME log \in Seq(Event), NEW d \in Event, NEW e \in Event, log' = log \o <<d, e>>,
           d.key = e.key
    PROVE  /\ LogGrows /\ Len(log') = Len(log) + 2
           /\ log'[Len(log) + 1] = d /\ log'[Len(log) + 2] = e
           /\ \A k, T : Positions(k, T)' =
                 Positions(k, T)
                    \cup (IF d.key = k /\ d.type \in T THEN {Len(log) + 1} ELSE {})
                    \cup (IF e.key = k /\ e.type \in T THEN {Len(log) + 2} ELSE {})
<1>1. /\ log' \in Seq(Event) /\ Len(log) \in Nat /\ Len(log') = Len(log) + 2
      /\ DOMAIN log = 1..Len(log) /\ DOMAIN log' = 1..Len(log')
      /\ \A i \in 1..Len(log) : log'[i] = log[i]
      /\ log'[Len(log) + 1] = d /\ log'[Len(log) + 2] = e
  OBVIOUS
<1>2. DOMAIN log' = DOMAIN log \cup {Len(log) + 1, Len(log) + 2}
  BY <1>1, SMTT(30)
<1>3. QED
  BY <1>1, <1>2 DEF LogGrows, Positions

\* Positions are of the log, and of one product each.
LEMMA PositionsAre ==
    ASSUME NEW k, NEW T, log \in Seq(Event)
    PROVE  \A i \in Positions(k, T) :
              /\ i \in Nat /\ i >= 1 /\ i <= Len(log) /\ log[i] \in Event
              /\ log[i].key = k /\ log[i].type \in T
BY DEF Positions

\* Who held k before a position of the log held it then, whatever follows.
LEMMA HeldStays ==
    ASSUME LogGrows, log \in Seq(Event), NEW k, NEW n \in 1..Len(log) + 1, NEW wallet,
           HeldBy(k, n, wallet),
           \A j \in Positions(k, Custody)' : j <= Len(log) => j \in Positions(k, Custody),
           Positions(k, Custody) \subseteq Positions(k, Custody)'
    PROVE  HeldBy(k, n, wallet)'
<1>1. PICK i \in Positions(k, Custody) :
            /\ i < n /\ \A j \in Positions(k, Custody) : j < n => j <= i
            /\ log[i].who = wallet
  BY DEF HeldBy
<1>2. i \in DOMAIN log /\ log'[i] = log[i]
  BY <1>1, PositionsAre DEF LogGrows
<1>3. \A j \in Positions(k, Custody)' : j \in Nat
  BY DEF LogGrows, Positions
<1>4. \A j \in Positions(k, Custody)' : j < n => j <= i
  BY <1>1, <1>3 DEF LogGrows
<1>5. QED
  BY <1>1, <1>2, <1>4 DEF HeldBy

----------------------------------------------------------------------------
(* A call leaves the other products as they were.                          *)

LEMMA OthersKeep ==
    ASSUME log \in Seq(Event), LogGrows, ended' = ended, NEW k \in ProductIds, ProductInv(k),
           \A T : Positions(k, T)' = Positions(k, T),
           products'[k] = products[k], productHistory'[k] = productHistory[k],
           currentHandler'[k] = currentHandler[k], delivered'[k] = delivered[k]
    PROVE  ProductInv(k)'
<1>1. \A T : \A i \in Positions(k, T) : i \in DOMAIN log /\ log'[i] = log[i]
  BY DEF Positions, LogGrows
<1>2. \A n, wallet : HeldBy(k, n, wallet)' = HeldBy(k, n, wallet)
  BY <1>1 DEF HeldBy
<1>3. CustodyOf(k)'
  BY <1>1, <1>2 DEF ProductInv, CustodyOf
<1>4. DeliveryOf(k)'
  <2>1. ASSUME NEW n \in Positions(k, {"DeliveryCompleted"})
        PROVE  Completed(k, n)'
    <3>1. Completed(k, n)
      BY DEF ProductInv, DeliveryOf
    <3>2. n + 1 \in DOMAIN log' /\ log'[n + 1] = log[n + 1] /\ log'[n] = log[n]
      BY <1>1, <3>1 DEF Completed, LogGrows
    <3>3. QED
      BY <1>1, <3>1, <3>2 DEF Completed
  <2>2. QED
    BY <1>1, <2>1 DEF ProductInv, DeliveryOf
<1>5. \A wallet : HeldBy(k, Len(log) + 1, wallet) => HeldBy(k, Len(log) + 1, wallet)'
  <2>1. \A j \in Positions(k, Custody) : j \in Nat /\ j <= Len(log)
    BY PositionsAre
  <2>2. QED
    BY <1>1, <2>1 DEF HeldBy, LogGrows
<1>6. Reflected(k)'
  BY <1>1, <1>5 DEF ProductInv, Reflected, isProductRegistered, IsLast
<1>7. UriReflected(k)'
  BY <1>1 DEF ProductInv, UriReflected, IsLast
<1>8. HistoryReflected(k)'
  BY <1>1 DEF ProductInv, HistoryReflected, IsLast
<1>9. QED
  BY <1>3, <1>4, <1>6, <1>7, <1>8 DEF ProductInv
----------------------------------------------------------------------------
(* What a call adds for its own product.                                   *)

LEMMA PositionsGrow ==
    ASSUME LogGrows, NEW k, NEW T
    PROVE  /\ Positions(k, T) \subseteq Positions(k, T)'
           /\ \A n \in Positions(k, T)' : n \in Nat /\ (n <= Len(log) => n \in Positions(k, T))
           /\ \A n \in Positions(k, T) : n \in Nat /\ n <= Len(log) /\ log'[n] = log[n]
BY DEF LogGrows, Positions

\* All events are of the five types.
LEMMA AllTypes ==
    ASSUME log \in Seq(Event), NEW k, NEW T
    PROVE  Positions(k, T) \subseteq Positions(k, EventTypes)
BY PositionsAre DEF Positions, Event, EventData

\* Custody stays with its holder as long as it is not transferred.
LEMMA HeldOn ==
    ASSUME LogGrows, NEW k, NEW wallet, HeldBy(k, Len(log) + 1, wallet),
           Positions(k, Custody)' = Positions(k, Custody),
           NEW n \in Nat, n > Len(log)
    PROVE  HeldBy(k, n, wallet)'
BY PositionsGrow DEF HeldBy

\* Custody is unbroken if each new event is made by the holder.
LEMMA CustodyGoesOn ==
    ASSUME log \in Seq(Event), LogGrows, NEW k, CustodyOf(k), Positions(k, EventTypes) # {},
           \A n \in Positions(k, EventTypes)' : n > Len(log) =>
              /\ log'[n].type # "ProductRegistered"
              /\ log'[n].type \in {"CheckpointRecorded", "DeliveryCompleted"} =>
                    HeldBy(k, n, log[n].who)'
              /\ log'[n].type = "CustodyTransferred" => HeldBy(k, n, log[n].from)'
    PROVE  CustodyOf(k)'
<1> SUFFICES ASSUME NEW n \in Positions(k, EventTypes)'
    PROVE  /\ log'[n].type = "ProductRegistered" <=> \A m \in Positions(k, EventTypes)' : n <= m
           /\ log'[n].type \in {"CheckpointRecorded", "DeliveryCompleted"} =>
                 HeldBy(k, n, log[n].who)'
           /\ log'[n].type = "CustodyTransferred" => HeldBy(k, n, log[n].from)'
  BY DEF CustodyOf
<1>1. Len(log) \in Nat
  BY DEF LogGrows
<1>2. CASE n > Len(log)
  <2>1. PICK m \in Positions(k, EventTypes) : TRUE
    OBVIOUS
  <2>2. m < n /\ m \in Positions(k, EventTypes)'
    BY <1>1, <1>2, <2>1, PositionsGrow
  <2>3. ~(n <= m)
    BY <1>1, <1>2, <2>1, PositionsGrow
  <2>4. QED
    BY <1>2, <2>2, <2>3
<1>3. CASE n <= Len(log)
  <2>1. n \in Positions(k, EventTypes) /\ log'[n] = log[n] /\ n \in 1..Len(log) + 1
    BY <1>1, <1>3, PositionsGrow, PositionsAre
  <2>2. /\ log[n].type = "ProductRegistered" <=> \A m \in Positions(k, EventTypes) : n <= m
        /\ log[n].type \in {"CheckpointRecorded", "DeliveryCompleted"} => HeldBy(k, n, log[n].who)
        /\ log[n].type = "CustodyTransferred" => HeldBy(k, n, log[n].from)
    BY <2>1 DEF CustodyOf
  <2>3. \A wallet : HeldBy(k, n, wallet) => HeldBy(k, n, wallet)'
    BY <2>1, HeldStays, PositionsGrow
  <2>4. (\A m \in Positions(k, EventTypes) : n <= m) <=> \A m \in Positions(k, EventTypes)' : n <= m
    BY <1>1, <1>3, PositionsGrow
  <2>5. QED
    BY <2>1, <2>2, <2>3, <2>4
<1>4. QED
  BY <1>1, <1>2, <1>3, PositionsGrow

\* A delivery stays final if only metadata follow.
LEMMA DeliveryGoesOn ==
    ASSUME log \in Seq(Event), LogGrows, NEW k, DeliveryOf(k),
           Positions(k, {"DeliveryCompleted"})' = Positions(k, {"DeliveryCompleted"}),
           \A n \in Positions(k, EventTypes)' : n > Len(log) =>
              \/ log'[n].type = "ProductMetadataUpdated"
              \/ /\ Positions(k, {"DeliveryCompleted"}) = {}
                 /\ log'[n].type = "CheckpointRecorded" => log'[n].status # Delivered
    PROVE  DeliveryOf(k)'
<1>1. Len(log) \in Nat
  BY DEF LogGrows
<1>2. ASSUME NEW n \in Positions(k, {"DeliveryCompleted"})'
      PROVE  Completed(k, n)'
  <2>1. Completed(k, n) /\ n \in Nat /\ n \in DOMAIN log
    BY <1>2, PositionsGrow DEF DeliveryOf, Positions
  <2>2. n + 1 \in DOMAIN log' /\ log'[n + 1] = log[n + 1] /\ log'[n] = log[n]
    BY <2>1 DEF Completed, LogGrows
  <2>3. ASSUME NEW m \in Positions(k, EventTypes)', m > n + 1
        PROVE  log'[m].type = "ProductMetadataUpdated"
    <3>1. CASE m > Len(log)
      BY <1>2, <2>3, <3>1
    <3>2. CASE m <= Len(log)
      BY <2>1, <2>3, <3>2, PositionsGrow DEF Completed
    <3>3. QED
      BY <1>1, <2>3, <3>1, <3>2, PositionsGrow
  <2>4. \E m \in Positions(k, {"CheckpointRecorded"})' :
           m < n /\ log'[m].status \in {InTransit, AtCheckpoint}
    BY <2>1, PositionsGrow DEF Completed
  <2>5. log'[n + 1] = [log'[n] EXCEPT !.type = "CheckpointRecorded", !.text = log'[n + 1].text]
    BY <2>1, <2>2 DEF Completed
  <2>6. QED
    BY <2>2, <2>3, <2>4, <2>5 DEF Completed
<1>3. ASSUME NEW n \in Positions(k, {"CheckpointRecorded"})', log'[n].status = Delivered
      PROVE  n - 1 \in Positions(k, {"DeliveryCompleted"})'
  <2>1. n \in Positions(k, EventTypes)' /\ log'[n].type = "CheckpointRecorded"
    BY <1>3 DEF Positions, EventTypes
  <2>2. n <= Len(log)
    BY <1>1, <1>3, <2>1, PositionsGrow
  <2>3. QED
    BY <1>1, <1>3, <2>2, PositionsGrow DEF DeliveryOf
<1>4. QED
  BY <1>2, <1>3 DEF DeliveryOf
----------------------------------------------------------------------------
(* Types.                                                                  *)

LEMMA BlockTyped == ASSUME TrackerTypeOK PROVE BlockNumber \in 1..MaxBlocks
BY TrackerAssumption DEF TrackerTypeOK, BlockNumber

LEMMA EmittedTyped ==
    ASSUME TrackerTypeOK, NEW type \in EventTypes, NEW k \in ProductIds,
           NEW who \in Wallets \cup {Zero}, NEW from \in Wallets \cup {Zero},
           NEW text \in Names, NEW status \in Status,
           who = Zero <=> type = "ProductMetadataUpdated"
    PROVE  Emitted(type, k, who, from, text, status) \in Event
BY BlockTyped DEF Emitted, Event, EventData

LEMMA TypedValues ==
    /\ Created \in Status /\ Delivered \in Status /\ EmptyString \in Names
    /\ \A sender \in Wallets : sender \in Wallets \cup {Zero} /\ sender # Zero
    /\ Zero \in Wallets \cup {Zero}
    /\ \A type \in {"ProductRegistered", "ProductMetadataUpdated", "CheckpointRecorded",
                    "CustodyTransferred", "DeliveryCompleted"} : type \in EventTypes
BY TrackerAssumption DEF Status, Created, Delivered, EventTypes

LEMMA InitTyped == Init => TrackerTypeOK
BY TrackerAssumption DEF Init, TrackerTypeOK

\* A registration or an update of k's metadata.
LEMMA RegistryTyped ==
    ASSUME TrackerTypeOK, NEW sender \in Wallets, NEW k \in ProductIds, NEW uri \in Names,
           \/ \E name \in Names : registerProduct(sender, k, name, uri)
           \/ updateProductMetadata(sender, k, uri)
    PROVE  /\ TrackerTypeOK'
           /\ \A j \in ProductIds \ {k} : products'[j] = products[j]
           /\ UNCHANGED <<productHistory, currentHandler, delivered, ended>>
<1>1. PICK e \in Event : log' = log \o <<e>> /\ Len(log) + 1 <= MaxEvents
  <2>1. \A name \in Names :
           /\ Emitted("ProductRegistered", k, sender, Zero, name, Created) \in Event
           /\ Emitted("ProductMetadataUpdated", k, Zero, Zero, name, Created) \in Event
    BY EmittedTyped, TypedValues
  <2>2. \A e \in Event : Len(<<e>>) = 1
    OBVIOUS
  <2>3. QED
    BY <2>1, <2>2 DEF registerProduct, updateProductMetadata, Emit
<1>2. log' \in Seq(Event) /\ Len(log') <= MaxEvents
  BY <1>1, EmitOne DEF TrackerTypeOK, LogGrows
<1>3. /\ products' \in [ProductIds -> Product \cup {Unregistered}]
      /\ \A j \in ProductIds \ {k} : products'[j] = products[j]
  <2>1. ASSUME NEW name \in Names, registerProduct(sender, k, name, uri)
        PROVE  /\ products' \in [ProductIds -> Product \cup {Unregistered}]
               /\ \A j \in ProductIds \ {k} : products'[j] = products[j]
    BY <2>1 DEF registerProduct, TrackerTypeOK, Product
  <2>2. ASSUME updateProductMetadata(sender, k, uri)
        PROVE  /\ products' \in [ProductIds -> Product \cup {Unregistered}]
               /\ \A j \in ProductIds \ {k} : products'[j] = products[j]
    <3>1. products[k] \in Product
      BY <2>2 DEF updateProductMetadata, isProductRegistered, TrackerTypeOK
    <3>2. [products[k] EXCEPT !.metadataURI = uri] \in Product
      BY <3>1 DEF Product
    <3>3. QED
      BY <2>2, <3>2 DEF updateProductMetadata, TrackerTypeOK
  <2>3. QED
    BY <2>1, <2>2
<1>4. UNCHANGED <<productHistory, currentHandler, delivered, ended>>
  BY DEF registerProduct, updateProductMetadata, Emit
<1>5. QED
  BY <1>2, <1>3, <1>4 DEF TrackerTypeOK

LEMMA CustodyTyped ==
    ASSUME TrackerTypeOK, NEW sender \in Wallets, NEW k \in ProductIds,
           NEW newHandler \in Wallets \cup {Zero}, transferCustody(sender, k, newHandler)
    PROVE  /\ TrackerTypeOK'
           /\ currentHandler' = [currentHandler EXCEPT ![k] = newHandler]
           /\ UNCHANGED <<products, productHistory, delivered, ended>>
<1>1. PICK e \in Event : log' = log \o <<e>> /\ Len(log) + 1 <= MaxEvents
  <2>1. Emitted("CustodyTransferred", k, newHandler, sender, EmptyString, Created) \in Event
    BY EmittedTyped, TypedValues DEF transferCustody
  <2>2. \A e \in Event : Len(<<e>>) = 1
    OBVIOUS
  <2>3. QED
    BY <2>1, <2>2 DEF transferCustody, Emit
<1>2. log' \in Seq(Event) /\ Len(log') <= MaxEvents
  BY <1>1, EmitOne DEF TrackerTypeOK, LogGrows
<1>3. currentHandler[k] # Zero /\ newHandler # Zero
  BY TrackerAssumption DEF transferCustody
<1>4. QED
  BY <1>2, <1>3 DEF transferCustody, Emit, TrackerTypeOK

\* What a checkpoint emits: the delivery it completes, and itself.
CheckpointOf(k, sender, location, status) ==
    Emitted("CheckpointRecorded", k, sender, Zero, location, status)
DeliveryBy(k, sender) ==
    Emitted("DeliveryCompleted", k, sender, Zero, EmptyString, Delivered)

LEMMA CheckpointEmits ==
    ASSUME TrackerTypeOK, NEW sender \in Wallets, NEW k \in ProductIds, NEW location \in Names,
           NEW status \in Status, recordCheckpoint(sender, k, location, status)
    PROVE  /\ CheckpointOf(k, sender, location, status) \in Event
           /\ DeliveryBy(k, sender) \in Event
           /\ log' = IF status = Delivered
                     THEN log \o <<DeliveryBy(k, sender), CheckpointOf(k, sender, location, status)>>
                     ELSE log \o <<CheckpointOf(k, sender, location, status)>>
           /\ Len(log') <= MaxEvents
           /\ UNCHANGED <<products, ended>>
<1>1. /\ CheckpointOf(k, sender, location, status) \in Event
      /\ DeliveryBy(k, sender) \in Event
  BY EmittedTyped, TypedValues DEF CheckpointOf, DeliveryBy
<1>2. DeliveryEvents(k, sender, status) \o <<CheckpointOf(k, sender, location, status)>>
        = IF status = Delivered
          THEN <<DeliveryBy(k, sender), CheckpointOf(k, sender, location, status)>>
          ELSE <<CheckpointOf(k, sender, location, status)>>
  <2>1. \A d, e \in Event : <<d>> \o <<e>> = <<d, e>> /\ <<>> \o <<e>> = <<e>>
    <3> TAKE d, e \in Event
    <3>1. /\ <<d>> \in Seq(Event) /\ <<e>> \in Seq(Event) /\ <<d, e>> \in Seq(Event)
          /\ Len(<<d, e>>) = 2 /\ Len(<<d>>) = 1 /\ Len(<<e>>) = 1
          /\ <<d, e>>[1] = d /\ <<d, e>>[2] = e /\ <<d>>[1] = d /\ <<e>>[1] = e
      OBVIOUS
    <3>2. /\ <<d>> \o <<e>> \in Seq(Event) /\ Len(<<d>> \o <<e>>) = 2
          /\ \A i \in 1..2 : (<<d>> \o <<e>>)[i] = <<d, e>>[i]
      BY <3>1, ConcatProperties
    <3>3. <<d>> \o <<e>> = <<d, e>>
      BY <3>1, <3>2, SeqEqual
    <3>4. QED
      BY <3>1, <3>3, ConcatEmptySeq
  <2>2. QED
    BY <1>1, <2>1 DEF DeliveryEvents, DeliveryBy
<1>3. /\ Len(log) + Len(DeliveryEvents(k, sender, status)
                           \o <<CheckpointOf(k, sender, location, status)>>) <= MaxEvents
      /\ log' = log \o (DeliveryEvents(k, sender, status)
                           \o <<CheckpointOf(k, sender, location, status)>>)
      /\ UNCHANGED <<products, ended>>
  BY DEF recordCheckpoint, Emit, CheckpointOf
<1>4. Len(log') <= MaxEvents
  <2>1. log \in Seq(Event)
    BY DEF TrackerTypeOK
  <2>2. CASE status = Delivered
    BY <1>1, <1>2, <1>3, <2>1, <2>2
  <2>3. CASE status # Delivered
    BY <1>1, <1>2, <1>3, <2>1, <2>3
  <2>4. QED
    BY <2>2, <2>3
<1>5. QED
  BY <1>1, <1>2, <1>3, <1>4

LEMMA CheckpointTyped ==
    ASSUME TrackerTypeOK, NEW sender \in Wallets, NEW k \in ProductIds, NEW location \in Names,
           NEW status \in Status, recordCheckpoint(sender, k, location, status)
    PROVE  /\ TrackerTypeOK'
           /\ currentHandler'[k] = IF currentHandler[k] = Zero THEN sender ELSE currentHandler[k]
           /\ productHistory'[k] = Append(productHistory[k], [status |-> status, handler |-> sender])
           /\ delivered'[k] <=> delivered[k] \/ status = Delivered
           /\ \A j \in ProductIds \ {k} : /\ productHistory'[j] = productHistory[j]
                                          /\ currentHandler'[j] = currentHandler[j]
                                          /\ delivered'[j] = delivered[j]
           /\ UNCHANGED <<products, ended>>
<1> DEFINE c == [status |-> status, handler |-> sender]
<1>1. /\ log' \in Seq(Event) /\ Len(log') <= MaxEvents
      /\ UNCHANGED <<products, ended>>
  <2>1. /\ log \in Seq(Event) /\ Len(log') <= MaxEvents
        /\ CheckpointOf(k, sender, location, status) \in Event
        /\ DeliveryBy(k, sender) \in Event
        /\ log' = IF status = Delivered
                  THEN log \o <<DeliveryBy(k, sender), CheckpointOf(k, sender, location, status)>>
                  ELSE log \o <<CheckpointOf(k, sender, location, status)>>
        /\ UNCHANGED <<products, ended>>
    BY CheckpointEmits DEF TrackerTypeOK
  <2>2. CASE status = Delivered
    BY <2>1, <2>2
  <2>3. CASE status # Delivered
    BY <2>1, <2>3
  <2>4. QED
    BY <2>2, <2>3
<1>2. c \in Checkpoint
  BY DEF Checkpoint
<1>3. /\ productHistory' \in [ProductIds -> Seq(Checkpoint)]
      /\ productHistory'[k] = Append(productHistory[k], c)
      /\ \A j \in ProductIds \ {k} : productHistory'[j] = productHistory[j]
  BY <1>2 DEF recordCheckpoint, TrackerTypeOK
<1>4. /\ currentHandler' \in [ProductIds -> Wallets \cup {Zero}]
      /\ currentHandler'[k] = IF currentHandler[k] = Zero THEN sender ELSE currentHandler[k]
      /\ currentHandler'[k] # Zero
      /\ \A j \in ProductIds \ {k} : currentHandler'[j] = currentHandler[j]
  BY TrackerAssumption DEF recordCheckpoint, HandlerAfter, TrackerTypeOK
<1>5. /\ delivered' \in [ProductIds -> BOOLEAN]
      /\ delivered'[k] <=> delivered[k] \/ status = Delivered
      /\ \A j \in ProductIds \ {k} : delivered'[j] = delivered[j]
  BY DEF recordCheckpoint, TrackerTypeOK
<1>6. /\ productHistory'[k] # <<>>
      /\ (\E i \in DOMAIN productHistory'[k] : productHistory'[k][i].status = Delivered)
            <=> (delivered[k] \/ status = Delivered)
  <2>1. productHistory[k] \in Seq(Checkpoint)
    BY DEF TrackerTypeOK
  <2>2. /\ DOMAIN productHistory'[k] = DOMAIN productHistory[k] \cup {Len(productHistory[k]) + 1}
        /\ \A i \in DOMAIN productHistory[k] : productHistory'[k][i] = productHistory[k][i]
        /\ productHistory'[k][Len(productHistory[k]) + 1] = c
    BY <1>2, <1>3, <2>1
  <2>3. delivered[k] <=> \E i \in DOMAIN productHistory[k] : productHistory[k][i].status = Delivered
    BY DEF TrackerTypeOK
  <2>4. productHistory'[k] # <<>>
    BY <1>2, <1>3, <2>1
  <2>5. c.status = status
    OBVIOUS
  <2>6. QED
    BY <2>2, <2>3, <2>4, <2>5
<1>7. ASSUME NEW j \in ProductIds
      PROVE  /\ currentHandler'[j] = Zero <=> productHistory'[j] = <<>>
             /\ delivered'[j] <=>
                   \E i \in DOMAIN productHistory'[j] : productHistory'[j][i].status = Delivered
  <2>1. CASE j = k
    BY <1>4, <1>5, <1>6, <2>1
  <2>2. CASE j # k
    <3>1. /\ currentHandler[j] = Zero <=> productHistory[j] = <<>>
          /\ delivered[j] <=>
                \E i \in DOMAIN productHistory[j] : productHistory[j][i].status = Delivered
      BY DEF TrackerTypeOK
    <3>2. /\ currentHandler'[j] = currentHandler[j] /\ delivered'[j] = delivered[j]
          /\ productHistory'[j] = productHistory[j]
      BY <1>3, <1>4, <1>5, <2>2
    <3>3. QED
      BY <3>1, <3>2
  <2>3. QED
    BY <2>1, <2>2
<1>8. QED
  BY <1>1, <1>3, <1>4, <1>5, <1>7 DEF TrackerTypeOK
----------------------------------------------------------------------------
(* Each call keeps what is said of its product.                            *)

LEMMA RegisterKeeps ==
    ASSUME TrackerTypeOK, TrackerTypeOK', NEW sender \in Wallets, NEW k \in ProductIds,
           NEW name \in Names, NEW uri \in Names, registerProduct(sender, k, name, uri),
           ProductInv(k)
    PROVE  ProductInv(k)'
<1> DEFINE e == Emitted("ProductRegistered", k, sender, Zero, name, Created)
           N == Len(log)
<1>1. /\ log \in Seq(Event) /\ e \in Event /\ log' = log \o <<e>>
      /\ UNCHANGED <<productHistory, currentHandler, delivered, ended>>
  BY EmittedTyped, TypedValues DEF registerProduct, Emit, TrackerTypeOK
<1>2. /\ LogGrows /\ N \in Nat /\ Len(log') = N + 1 /\ log'[N + 1] = e
      /\ \A T : Positions(k, T)' =
            IF "ProductRegistered" \in T THEN Positions(k, T) \cup {N + 1} ELSE Positions(k, T)
  BY <1>1, EmitOne DEF Emitted, LogGrows
<1>3. \A T : Positions(k, T) = {}
  <2>1. Positions(k, EventTypes) = {}
    BY DEF registerProduct, ProductInv, Reflected
  <2>2. QED
    BY <1>1, <2>1, AllTypes
<1>4. \A T : Positions(k, T)' = IF "ProductRegistered" \in T THEN {N + 1} ELSE {}
  BY <1>2, <1>3
<1>5. e.type = "ProductRegistered" /\ e.who = sender /\ e.text = name /\ e.block = BlockNumber
  BY DEF Emitted
<1>6. CustodyOf(k)'
  <2>1. Positions(k, EventTypes)' = {N + 1} /\ log'[N + 1].type = "ProductRegistered"
    BY <1>2, <1>4, <1>5, TypedValues
  <2>2. QED
    BY <1>2, <2>1 DEF CustodyOf
<1>7. DeliveryOf(k)'
  BY <1>4 DEF DeliveryOf
<1>8. /\ products'[k] = [manufacturer |-> sender, name |-> name, metadataURI |-> uri]
      /\ products'[k] \in Product
  BY DEF registerProduct, TrackerTypeOK, Product
<1>9. currentHandler[k] = Zero /\ productHistory[k] = <<>> /\ ~delivered[k]
  <2>1. \A i \in DOMAIN productHistory[k] : FALSE
    BY <1>3 DEF ProductInv, HistoryReflected
  <2>2. productHistory[k] = <<>>
    <3>1. productHistory[k] \in Seq(Checkpoint)
      BY DEF TrackerTypeOK
    <3>2. Len(productHistory[k]) \in Nat /\ DOMAIN productHistory[k] = 1..Len(productHistory[k])
      BY <3>1
    <3>3. 1 \notin DOMAIN productHistory[k]
      BY <2>1
    <3>4. Len(productHistory[k]) \notin Nat \ {0}
      BY <3>2, <3>3
    <3>5. QED
      BY <3>1, <3>4, EmptySeq
  <2>3. QED
    BY <2>1, <2>2 DEF TrackerTypeOK
<1>10. Reflected(k)'
  <2>1. HeldBy(k, Len(log) + 1, sender)'
    BY <1>2, <1>4, <1>5 DEF HeldBy, Custody
  <2>2. isProductRegistered(k)' /\ products'[k].manufacturer = sender
    BY <1>8, UnregisteredAssumption DEF isProductRegistered
  <2>3. \E i \in Positions(k, {"ProductRegistered"})' :
           log'[i].who = products'[k].manufacturer /\ log'[i].text = products'[k].name
    BY <1>2, <1>4, <1>5, <1>8
  <2>4. Positions(k, Handling)' = {} /\ Positions(k, {"DeliveryCompleted"})' = {}
    BY <1>4 DEF Handling
  <2>5. QED
    BY <1>1, <1>9, <2>1, <2>2, <2>3, <2>4 DEF Reflected
<1>11. UriReflected(k)'
  <2>1. /\ Positions(k, {"ProductMetadataUpdated"})' = {}
        /\ Positions(k, {"ProductRegistered"})' = {N + 1}
    BY <1>4
  <2>2. \A b \in DOMAIN ended : b \in Nat /\ ~(log'[N + 1].block <= b)
    <3>1. ended \in Seq([ProductIds -> Product \cup {Unregistered}])
      BY DEF TrackerTypeOK
    <3>2. log'[N + 1].block = Len(ended) + 1
      BY <1>2, <1>5 DEF BlockNumber
    <3>3. QED
      BY <3>1, <3>2
  <2>3. QED
    BY <1>1, <2>1, <2>2 DEF UriReflected
<1>12. HistoryReflected(k)'
  <2>1. /\ Positions(k, {"CheckpointRecorded"})' = {} /\ Positions(k, {"CheckpointRecorded"}) = {}
        /\ Positions(k, {"CheckpointRecorded", "DeliveryCompleted"})' = {}
    BY <1>3, <1>4
  <2>2. QED
    BY <1>1, <1>9, <2>1 DEF HistoryReflected, ProductInv
<1>13. QED
  BY <1>6, <1>7, <1>10, <1>11, <1>12 DEF ProductInv

LEMMA UpdateKeeps ==
    ASSUME TrackerTypeOK, TrackerTypeOK', NEW sender \in Wallets, NEW k \in ProductIds,
           NEW uri \in Names, updateProductMetadata(sender, k, uri), ProductInv(k)
    PROVE  ProductInv(k)'
<1> DEFINE e == Emitted("ProductMetadataUpdated", k, Zero, Zero, uri, Created)
           N == Len(log)
<1>1. /\ log \in Seq(Event) /\ e \in Event /\ log' = log \o <<e>>
      /\ UNCHANGED <<productHistory, currentHandler, delivered, ended>>
  BY EmittedTyped, TypedValues DEF updateProductMetadata, Emit, TrackerTypeOK
<1>2. /\ LogGrows /\ N \in Nat /\ Len(log') = N + 1 /\ log'[N + 1] = e
      /\ \A T : Positions(k, T)' =
            IF "ProductMetadataUpdated" \in T THEN Positions(k, T) \cup {N + 1} ELSE Positions(k, T)
  BY <1>1, EmitOne DEF Emitted, LogGrows
<1>3. \A T : "ProductMetadataUpdated" \notin T => Positions(k, T)' = Positions(k, T)
  BY <1>2
<1>4. e.type = "ProductMetadataUpdated" /\ e.text = uri
  BY DEF Emitted
<1>5. /\ isProductRegistered(k) /\ isProductRegistered(k)'
      /\ products'[k].manufacturer = products[k].manufacturer
      /\ products'[k].name = products[k].name /\ products'[k].metadataURI = uri
  <2>1. products[k] \in Product /\ products[k] # Unregistered
    BY DEF updateProductMetadata, isProductRegistered, TrackerTypeOK
  <2>2. products'[k] = [products[k] EXCEPT !.metadataURI = uri]
    BY DEF updateProductMetadata, TrackerTypeOK
  <2>3. products'[k] \in Product
    BY <2>1, <2>2 DEF Product
  <2>4. QED
    BY <2>1, <2>2, <2>3, UnregisteredAssumption DEF isProductRegistered, Product
<1>6. \A T : \A n \in Positions(k, T)' : n > N => n = N + 1
  <2>1. \A T : \A n \in Positions(k, T) : n \in Nat /\ n <= N
    BY <1>2, PositionsGrow
  <2>2. QED
    BY <1>2, <2>1
<1>7. CustodyOf(k)'
  <2>1. Positions(k, EventTypes) # {}
    BY <1>1, <1>5, AllTypes DEF ProductInv, Reflected
  <2>2. QED
    BY <1>1, <1>2, <1>4, <1>6, <2>1, CustodyGoesOn DEF ProductInv
<1>8. DeliveryOf(k)'
  BY <1>1, <1>2, <1>3, <1>4, <1>6, DeliveryGoesOn DEF ProductInv
<1>9. Reflected(k)'
  <2>1. \A wallet : HeldBy(k, Len(log) + 1, wallet) => HeldBy(k, Len(log) + 1, wallet)'
    <3>1. Positions(k, Custody)' = Positions(k, Custody)
      BY <1>3 DEF Custody
    <3>2. \A n \in Nat : \A wallet :
             HeldBy(k, Len(log) + 1, wallet) /\ n > Len(log) => HeldBy(k, n, wallet)'
      BY <1>2, <3>1, HeldOn
    <3>3. Len(log') + 1 \in Nat /\ Len(log') + 1 > Len(log)
      BY <1>2
    <3>4. QED
      BY <3>2, <3>3 DEF HeldBy
  <2>2. /\ Positions(k, Handling)' = Positions(k, Handling)
        /\ Positions(k, {"DeliveryCompleted"})' = Positions(k, {"DeliveryCompleted"})
        /\ Positions(k, {"ProductRegistered"})' = Positions(k, {"ProductRegistered"})
    BY <1>3 DEF Handling
  <2>3. \A T : \A i \in Positions(k, T) : log'[i] = log[i]
    BY <1>2, PositionsGrow
  <2>4. QED
    BY <1>1, <1>5, <2>1, <2>2, <2>3, ZenonT(60) DEF ProductInv, Reflected, IsLast
<1>10. UriReflected(k)'
  <2>1. Positions(k, {"ProductMetadataUpdated"})' # {}
    BY <1>2
  <2>2. N + 1 \in Positions(k, {"ProductMetadataUpdated"})'
    BY <1>2
  <2>3. ASSUME NEW i \in Positions(k, {"ProductMetadataUpdated"})',
               \A j \in Positions(k, {"ProductMetadataUpdated"})' : j <= i
        PROVE  i = N + 1
    BY <1>2, <1>6, <2>2, <2>3, PositionsGrow
  <2>4. Positions(k, {"ProductRegistered"})' = Positions(k, {"ProductRegistered"})
    BY <1>3
  <2>5. \A i \in Positions(k, {"ProductRegistered"}) : log'[i] = log[i]
    BY <1>2, PositionsGrow
  <2>6. QED
    BY <1>1, <1>2, <1>4, <1>5, <2>1, <2>3, <2>4, <2>5, ZenonT(60) DEF ProductInv, UriReflected, IsLast
<1>11. HistoryReflected(k)'
  <2>1. /\ Positions(k, {"CheckpointRecorded"})' = Positions(k, {"CheckpointRecorded"})
        /\ Positions(k, {"CheckpointRecorded", "DeliveryCompleted"})'
              = Positions(k, {"CheckpointRecorded", "DeliveryCompleted"})
    BY <1>3
  <2>2. \A T : \A i \in Positions(k, T) : log'[i] = log[i]
    BY <1>2, PositionsGrow
  <2>3. productHistory'[k] = productHistory[k]
    BY <1>1
  <2>4. QED
    BY <2>1, <2>2, <2>3 DEF ProductInv, HistoryReflected, IsLast
<1>12. QED
  BY <1>7, <1>8, <1>9, <1>10, <1>11 DEF ProductInv
LEMMA TransferKeeps ==
    ASSUME TrackerTypeOK, NEW sender \in Wallets, NEW k \in ProductIds,
           NEW newHandler \in Wallets \cup {Zero}, transferCustody(sender, k, newHandler),
           ProductInv(k)
    PROVE  ProductInv(k)'
<1> DEFINE e == Emitted("CustodyTransferred", k, newHandler, sender, EmptyString, Created)
           N == Len(log)
<1>1. /\ log \in Seq(Event) /\ e \in Event /\ log' = log \o <<e>>
      /\ UNCHANGED <<products, productHistory, delivered, ended>>
      /\ currentHandler[k] = sender /\ sender # Zero /\ currentHandler'[k] = newHandler
      /\ newHandler # Zero /\ ~delivered[k]
  <2>1. log \in Seq(Event) /\ e \in Event /\ log' = log \o <<e>>
    BY EmittedTyped, TypedValues DEF transferCustody, Emit, TrackerTypeOK
  <2>2. QED
    BY <2>1, CustodyTyped, TrackerAssumption
       DEF transferCustody, TrackerTypeOK, onlyBeforeDelivery
<1>2. /\ LogGrows /\ N \in Nat /\ Len(log') = N + 1 /\ log'[N + 1] = e
      /\ \A T : Positions(k, T)' =
            IF "CustodyTransferred" \in T THEN Positions(k, T) \cup {N + 1} ELSE Positions(k, T)
  BY <1>1, EmitOne DEF Emitted, LogGrows
<1>3. \A T : "CustodyTransferred" \notin T => Positions(k, T)' = Positions(k, T)
  BY <1>2
<1>4. e.type = "CustodyTransferred" /\ e.who = newHandler /\ e.from = sender
  BY DEF Emitted
<1>5. \A T : \A n \in Positions(k, T)' : n > N => n = N + 1
  <2>1. \A T : \A n \in Positions(k, T) : n \in Nat /\ n <= N
    BY <1>2, PositionsGrow
  <2>2. QED
    BY <1>2, <2>1
<1>6. isProductRegistered(k) /\ Positions(k, EventTypes) # {}
  <2>1. productHistory[k] # <<>> /\ productHistory[k] \in Seq(Checkpoint)
    BY <1>1 DEF TrackerTypeOK
  <2>2. 1 \in DOMAIN productHistory[k]
    BY <2>1, EmptySeq, LenProperties
  <2>3. Positions(k, {"CheckpointRecorded"}) # {}
    BY <2>2 DEF ProductInv, HistoryReflected
  <2>4. QED
    BY <1>1, <2>3, AllTypes DEF ProductInv, Reflected
<1>7. CustodyOf(k)'
  <2>1. HeldBy(k, N + 1, sender)
    BY <1>1, <1>6 DEF ProductInv, Reflected
  <2>2. \A n \in Positions(k, EventTypes)' : n > Len(log) => HeldBy(k, n, log[n].from)'
    <3>1. \A n \in 1..Len(log) + 1 : \A wallet : HeldBy(k, n, wallet) => HeldBy(k, n, wallet)'
      BY <1>1, <1>2, HeldStays, PositionsGrow
    <3>2. ASSUME NEW n \in Positions(k, EventTypes)', n > Len(log)
          PROVE  HeldBy(k, n, log[n].from)'
      <4>1. n = N + 1 /\ n \in 1..Len(log) + 1 /\ log'[n].from = sender
        BY <1>2, <1>4, <1>5, <3>2
      <4>2. HeldBy(k, n, sender)'
        BY <2>1, <3>1, <4>1
      <4>3. QED
        BY <4>1, <4>2 DEF HeldBy
    <3>3. QED
      BY <3>2
  <2>3. \A n \in Positions(k, EventTypes)' : n > Len(log) => log'[n].type = "CustodyTransferred"
    BY <1>2, <1>4, <1>5
  <2>4. QED
    BY <1>1, <1>2, <1>6, <2>2, <2>3, CustodyGoesOn DEF ProductInv
<1>8. Positions(k, {"DeliveryCompleted"}) = {}
  BY <1>1 DEF ProductInv, Reflected
<1>9. DeliveryOf(k)'
  BY <1>1, <1>2, <1>3, <1>4, <1>5, <1>8, DeliveryGoesOn DEF ProductInv
<1>10. N + 1 \in Positions(k, Handling)' /\ N + 1 \in Positions(k, Custody)'
  BY <1>2 DEF Handling, Custody
<1>11. Reflected(k)'
  <2>1. HeldBy(k, Len(log) + 1, newHandler)'
    BY <1>2, <1>4, <1>5, <1>10, PositionsGrow DEF HeldBy
  <2>2. \A i \in Positions(k, Handling)' :
           (\A j \in Positions(k, Handling)' : j <= i) => i = N + 1
    BY <1>2, <1>5, <1>10, PositionsGrow
  <2>3. /\ Positions(k, {"DeliveryCompleted"})' = Positions(k, {"DeliveryCompleted"})
        /\ Positions(k, {"ProductRegistered"})' = Positions(k, {"ProductRegistered"})
    BY <1>3
  <2>4. \A T : \A i \in Positions(k, T) : log'[i] = log[i]
    BY <1>2, PositionsGrow
  <2>5. QED
    BY <1>1, <1>2, <1>4, <1>6, <2>1, <2>2, <2>3, <2>4, ZenonT(60)
       DEF ProductInv, Reflected, IsLast, isProductRegistered
<1>12. UriReflected(k)'
  <2>1. /\ Positions(k, {"ProductMetadataUpdated"})' = Positions(k, {"ProductMetadataUpdated"})
        /\ Positions(k, {"ProductRegistered"})' = Positions(k, {"ProductRegistered"})
    BY <1>3
  <2>2. \A T : \A i \in Positions(k, T) : log'[i] = log[i]
    BY <1>2, PositionsGrow
  <2>3. products'[k] = products[k] /\ ended' = ended
    BY <1>1
  <2>4. QED
    BY <2>1, <2>2, <2>3 DEF ProductInv, UriReflected, IsLast
<1>13. HistoryReflected(k)'
  <2>1. /\ Positions(k, {"CheckpointRecorded"})' = Positions(k, {"CheckpointRecorded"})
        /\ Positions(k, {"CheckpointRecorded", "DeliveryCompleted"})'
              = Positions(k, {"CheckpointRecorded", "DeliveryCompleted"})
    BY <1>3
  <2>2. \A T : \A i \in Positions(k, T) : log'[i] = log[i]
    BY <1>2, PositionsGrow
  <2>3. productHistory'[k] = productHistory[k]
    BY <1>1
  <2>4. QED
    BY <2>1, <2>2, <2>3 DEF ProductInv, HistoryReflected, IsLast
<1>14. QED
  BY <1>7, <1>9, <1>11, <1>12, <1>13 DEF ProductInv
\* A checkpoint adds one position, and a delivery the one before it.
LEMMA CheckpointAdds ==
    ASSUME TrackerTypeOK, NEW sender \in Wallets, NEW k \in ProductIds, NEW location \in Names,
           NEW status \in Status, recordCheckpoint(sender, k, location, status),
           NEW M, M = IF status = Delivered THEN Len(log) + 2 ELSE Len(log) + 1
    PROVE  /\ log \in Seq(Event) /\ LogGrows /\ Len(log') = M
           /\ log'[M] = CheckpointOf(k, sender, location, status)
           /\ status = Delivered => log'[Len(log) + 1] = DeliveryBy(k, sender)
           /\ \A j \in ProductIds \ {k} : \A T : Positions(j, T)' = Positions(j, T)
           /\ \A T : Positions(k, T)' =
                 Positions(k, T)
                    \cup (IF status = Delivered /\ "DeliveryCompleted" \in T
                          THEN {Len(log) + 1} ELSE {})
                    \cup (IF "CheckpointRecorded" \in T THEN {M} ELSE {})
<1> DEFINE c == CheckpointOf(k, sender, location, status)
           d == DeliveryBy(k, sender)
<1>1. log \in Seq(Event) /\ c \in Event /\ d \in Event
  BY CheckpointEmits DEF TrackerTypeOK
<1>2. /\ c.key = k /\ c.type = "CheckpointRecorded"
      /\ d.key = k /\ d.type = "DeliveryCompleted"
  BY DEF CheckpointOf, DeliveryBy, Emitted
<1>3. CASE status = Delivered
  <2>1. log' = log \o <<d, c>>
    BY <1>3, CheckpointEmits
  <2>2. /\ LogGrows /\ Len(log') = Len(log) + 2
        /\ log'[Len(log) + 1] = d /\ log'[Len(log) + 2] = c
        /\ \A j, T : Positions(j, T)' =
              Positions(j, T)
                 \cup (IF d.key = j /\ d.type \in T THEN {Len(log) + 1} ELSE {})
                 \cup (IF c.key = j /\ c.type \in T THEN {Len(log) + 2} ELSE {})
    <3> HIDE DEF c, d
    <3>1. QED
      BY <1>1, <1>2, <2>1, EmitTwo
  <2>3. QED
    <3> HIDE DEF c, d
    <3>1. QED
      BY <1>1, <1>2, <1>3, <2>2 DEF c, d
<1>4. CASE status # Delivered
  <2>1. log' = log \o <<c>>
    BY <1>4, CheckpointEmits
  <2>2. /\ LogGrows /\ Len(log') = Len(log) + 1 /\ log'[Len(log) + 1] = c
        /\ \A j, T : Positions(j, T)' =
              IF c.key = j /\ c.type \in T THEN Positions(j, T) \cup {Len(log) + 1}
              ELSE Positions(j, T)
    <3> HIDE DEF c
    <3>1. QED
      BY <1>1, <2>1, EmitOne
  <2>3. QED
    BY <1>1, <1>2, <1>4, <2>2
<1>5. QED
  BY <1>3, <1>4

LEMMA PositionsFinite ==
    ASSUME log \in Seq(Event), NEW k, NEW T
    PROVE  IsFiniteSet(Positions(k, T))
<1>1. IsFiniteSet(1..Len(log)) /\ Positions(k, T) \subseteq 1..Len(log)
  BY FS_Interval DEF Positions
<1>2. QED
  BY <1>1, FS_Subset

LEMMA CheckpointKeeps ==
    ASSUME TrackerTypeOK, NEW sender \in Wallets, NEW k \in ProductIds, NEW location \in Names,
           NEW status \in Status, recordCheckpoint(sender, k, location, status), ProductInv(k)
    PROVE  ProductInv(k)'
<1> DEFINE N == Len(log)
<1>1. PICK M : M = IF status = Delivered THEN N + 2 ELSE N + 1
  OBVIOUS
<1>2. /\ log \in Seq(Event) /\ LogGrows /\ N \in Nat /\ Len(log') = M
      /\ log'[M] = CheckpointOf(k, sender, location, status)
      /\ status = Delivered => log'[N + 1] = DeliveryBy(k, sender)
      /\ \A T : Positions(k, T)' =
            Positions(k, T)
               \cup (IF status = Delivered /\ "DeliveryCompleted" \in T THEN {N + 1} ELSE {})
               \cup (IF "CheckpointRecorded" \in T THEN {M} ELSE {})
  BY <1>1, CheckpointAdds DEF LogGrows
<1>17. \A T : "CheckpointRecorded" \notin T /\ ("DeliveryCompleted" \notin T \/ status # Delivered)
                => Positions(k, T)' = Positions(k, T)
  <2> SUFFICES ASSUME NEW T, "CheckpointRecorded" \notin T,
                      "DeliveryCompleted" \notin T \/ status # Delivered
               PROVE  Positions(k, T)' = Positions(k, T)
    OBVIOUS
  <2>1. (IF status = Delivered /\ "DeliveryCompleted" \in T THEN {N + 1} ELSE {}) = {}
    OBVIOUS
  <2>2. (IF "CheckpointRecorded" \in T THEN {M} ELSE {}) = {}
    OBVIOUS
  <2>3. Positions(k, T)' =
            Positions(k, T)
               \cup (IF status = Delivered /\ "DeliveryCompleted" \in T THEN {N + 1} ELSE {})
               \cup (IF "CheckpointRecorded" \in T THEN {M} ELSE {})
    BY <1>2
  <2>4. QED
    BY <2>1, <2>2, <2>3
<1>3. /\ log'[M].type = "CheckpointRecorded" /\ log'[M].who = sender /\ log'[M].status = status
      /\ status = Delivered => /\ log'[N + 1].type = "DeliveryCompleted"
                               /\ log'[N + 1].who = sender
  BY <1>2 DEF CheckpointOf, DeliveryBy, Emitted
<1>4. \A T : \A i \in Positions(k, T) : i \in Nat /\ i <= N /\ log'[i] = log[i]
  BY <1>2, PositionsGrow
<1>5. M \in Nat /\ M > N /\ (status = Delivered => M = N + 2)
  BY <1>1, <1>2
<1>6. \A T : \A n \in Positions(k, T)' :
         n > N => n = M \/ (status = Delivered /\ n = N + 1)
  <2> SUFFICES ASSUME NEW T, NEW n \in Positions(k, T)', n > N
               PROVE  n = M \/ (status = Delivered /\ n = N + 1)
    OBVIOUS
  <2>1. n \notin Positions(k, T)
    BY <1>2, <1>4
  <2>2. n \in (IF status = Delivered /\ "DeliveryCompleted" \in T THEN {N + 1} ELSE {})
              \cup (IF "CheckpointRecorded" \in T THEN {M} ELSE {})
    BY <1>2, <2>1
  <2>3. QED
    BY <2>2
<1>7. /\ isProductRegistered(k) /\ ~delivered[k] /\ Positions(k, {"DeliveryCompleted"}) = {}
      /\ Positions(k, EventTypes) # {}
      /\ HeldBy(k, N + 1, sender)
  <2>1. isProductRegistered(k) /\ ~delivered[k] /\ Positions(k, {"DeliveryCompleted"}) = {}
    BY DEF recordCheckpoint, onlyCurrentHandler, onlyBeforeDelivery, ProductInv, Reflected
  <2>2. Positions(k, EventTypes) # {}
    BY <1>2, <2>1, AllTypes DEF ProductInv, Reflected
  <2>3. HeldBy(k, N + 1, sender)
    BY <2>1 DEF recordCheckpoint, onlyCurrentHandler, ProductInv, Reflected
  <2>4. QED
    BY <2>1, <2>2, <2>3
<1>8. /\ currentHandler'[k] = sender /\ sender # Zero
      /\ productHistory[k] \in Seq(Checkpoint)
      /\ productHistory'[k] = Append(productHistory[k], [status |-> status, handler |-> sender])
      /\ delivered'[k] <=> status = Delivered
      /\ products'[k] = products[k] /\ ended' = ended
  <2>1. currentHandler[k] = Zero \/ currentHandler[k] = sender
    BY DEF recordCheckpoint, onlyCurrentHandler
  <2>2. QED
    BY <1>7, <2>1, CheckpointTyped, TrackerAssumption DEF TrackerTypeOK
<1>9. \A n \in Nat : n > N => HeldBy(k, n, sender)'
  <2>1. "DeliveryCompleted" \notin Custody /\ "CheckpointRecorded" \notin Custody
    BY DEF Custody
  <2>2. Positions(k, Custody)' = Positions(k, Custody)
    BY <2>1, <1>17
  <2>3. QED
    BY <1>2, <1>7, <2>2, HeldOn
<1>10. CustodyOf(k)'
  <2>1. ASSUME NEW n \in Positions(k, EventTypes)', n > Len(log)
        PROVE  /\ log'[n].type \in {"CheckpointRecorded", "DeliveryCompleted"}
               /\ HeldBy(k, n, log[n].who)'
    <3>1. n \in Nat /\ log'[n].type \in {"CheckpointRecorded", "DeliveryCompleted"} /\ log'[n].who = sender
      BY <1>2, <1>3, <1>5, <1>6, <2>1
    <3>2. HeldBy(k, n, sender)'
      BY <1>9, <2>1, <3>1
    <3>3. QED
      BY <3>1, <3>2 DEF HeldBy
  <2>2. QED
    BY <1>2, <1>7, <2>1, CustodyGoesOn DEF ProductInv
<1>11. DeliveryOf(k)'
  <2>1. CASE status # Delivered
    <3>1. Positions(k, {"DeliveryCompleted"})' = Positions(k, {"DeliveryCompleted"})
      BY <1>17, <2>1
    <3>2. QED
      BY <1>2, <1>3, <1>6, <1>7, <2>1, <3>1, DeliveryGoesOn DEF ProductInv
  <2>2. CASE status = Delivered
    <3>1. Positions(k, {"DeliveryCompleted"})' = {N + 1}
      BY <1>2, <1>7, <2>2
    <3>2. N + 1 \in Nat /\ N + 2 \in Nat /\ M = N + 2 /\ (N + 1) + 1 = M /\ M - 1 = N + 1
      BY <1>2, <1>5, <2>2
    <3>3. N + 2 \in DOMAIN log'
      BY <1>2, <3>2 DEF LogGrows
    <3>4. log'[N + 2] = [log'[N + 1] EXCEPT !.type = "CheckpointRecorded", !.text = log'[N + 2].text]
      <4>1. /\ log'[N + 2] = CheckpointOf(k, sender, location, Delivered)
            /\ log'[N + 1] = DeliveryBy(k, sender)
        BY <1>2, <2>2, <3>2
      <4>2. CheckpointOf(k, sender, location, Delivered).text = location
        BY DEF CheckpointOf, Emitted
      <4>3. CheckpointOf(k, sender, location, Delivered)
              = [DeliveryBy(k, sender) EXCEPT !.type = "CheckpointRecorded", !.text = location]
        <5> DEFINE d == DeliveryBy(k, sender)
        <5>1. CheckpointOf(k, sender, location, Delivered)
                = [f \in DOMAIN d |-> IF f = "type" THEN "CheckpointRecorded"
                                      ELSE IF f = "text" THEN location ELSE d[f]]
          BY DEF CheckpointOf, DeliveryBy, Emitted
        <5>2. [d EXCEPT !.type = "CheckpointRecorded", !.text = location]
                = [f \in DOMAIN d |-> IF f = "type" THEN "CheckpointRecorded"
                                      ELSE IF f = "text" THEN location ELSE d[f]]
          <6> HIDE DEF d
          <6>1. QED
            OBVIOUS
        <5>3. QED
          BY <5>1, <5>2
      <4>4. QED
        BY <4>1, <4>2, <4>3
    <3>5. \A m \in Positions(k, EventTypes)' : ~(m > N + 2)
      BY <1>4, <1>5, <1>6, <3>2, <1>2, PositionsGrow
    <3>6. \E m \in Positions(k, {"CheckpointRecorded"})' :
             m < N + 1 /\ log'[m].status \in {InTransit, AtCheckpoint}
      <4>1. productHistory[k] # <<>> /\ Delivered \in Following[Last(productHistory[k]).status]
        BY <2>2 DEF recordCheckpoint, ValidStatusTransition, Created, Delivered
      <4>2. PICK j \in DOMAIN productHistory[k] : Last(productHistory[k]) = productHistory[k][j]
        <5>1. Len(productHistory[k]) \in DOMAIN productHistory[k]
          BY <1>8, <4>1, EmptySeq, LenProperties
        <5>2. QED
          BY <5>1 DEF Last
      <4>3. productHistory[k][j].status \in Status
        <5>1. productHistory[k][j] \in Checkpoint
          BY <1>8, <4>2
        <5>2. QED
          BY <5>1 DEF Checkpoint
      <4>4. productHistory[k][j].status \in {InTransit, AtCheckpoint}
        BY <4>1, <4>2, <4>3 DEF Following, Status, Created, InTransit, AtCheckpoint, Delivered
      <4>5. PICK m \in Positions(k, {"CheckpointRecorded"}) :
                    log[m].status = productHistory[k][j].status
        BY DEF ProductInv, HistoryReflected
      <4>6. m \in Positions(k, {"CheckpointRecorded"})' /\ m < N + 1 /\ log'[m] = log[m]
        BY <1>2, <1>4
      <4>7. QED
        BY <4>4, <4>5, <4>6
    <3>7. ASSUME NEW n, n = N + 1
          PROVE  Completed(k, n)'
      BY <1>2, <3>2, <3>3, <3>4, <3>5, <3>6, <3>7 DEF Completed
    <3>8. ASSUME NEW n \in Positions(k, {"CheckpointRecorded"})', log'[n].status = Delivered
          PROVE  n - 1 \in Positions(k, {"DeliveryCompleted"})'
      <4>1. CASE n = M
        BY <3>1, <3>2, <4>1
      <4>2. CASE n # M
        <5>1. n \in Positions(k, {"CheckpointRecorded"}) /\ log'[n] = log[n]
          BY <1>2, <1>4, <4>2
        <5>2. n - 1 \in Positions(k, {"DeliveryCompleted"})
          BY <3>8, <5>1 DEF ProductInv, DeliveryOf
        <5>3. QED
          BY <1>7, <5>2
      <4>3. QED
        BY <4>1, <4>2
    <3>9. QED
      BY <3>1, <3>7, <3>8 DEF DeliveryOf
  <2>3. QED
    BY <2>1, <2>2
<1>12. /\ Positions(k, {"ProductRegistered"})' = Positions(k, {"ProductRegistered"})
       /\ Positions(k, {"ProductMetadataUpdated"})' = Positions(k, {"ProductMetadataUpdated"})
  BY <1>17
<1>13. Reflected(k)'
  <2>1. HeldBy(k, Len(log) + 1, sender)'
    <3>1. Len(log') + 1 \in Nat /\ Len(log') + 1 > N
      BY <1>2, <1>5
    <3>2. QED
      BY <1>9, <3>1 DEF HeldBy
  <2>2. ASSUME NEW i \in Positions(k, Handling)', \A j \in Positions(k, Handling)' : j <= i
        PROVE  i = M
    <3>1. M \in Positions(k, Handling)'
      BY <1>2 DEF Handling
    <3>2. QED
      BY <1>2, <1>4, <1>5, <1>6, <2>2, <3>1, PositionsGrow
  <2>3. delivered'[k] <=> Positions(k, {"DeliveryCompleted"})' # {}
    BY <1>2, <1>7, <1>8
  <2>4. QED
    BY <1>3, <1>4, <1>7, <1>8, <1>12, <2>1, <2>2, <2>3, ZenonT(60)
       DEF ProductInv, Reflected, IsLast, isProductRegistered
<1>14. UriReflected(k)'
  BY <1>4, <1>8, <1>12 DEF ProductInv, UriReflected, IsLast
<1>15. HistoryReflected(k)'
  <2>1. /\ Positions(k, {"CheckpointRecorded"})' = Positions(k, {"CheckpointRecorded"}) \cup {M}
        /\ M \notin Positions(k, {"CheckpointRecorded"})
        /\ M \in Positions(k, {"CheckpointRecorded", "DeliveryCompleted"})'
    BY <1>2, <1>4, <1>5
  <2>2. [status |-> status, handler |-> sender] \in Checkpoint
    BY DEF Checkpoint
  <2>3. /\ Len(productHistory[k]) \in Nat
        /\ Len(productHistory'[k]) = Len(productHistory[k]) + 1
        /\ Last(productHistory'[k]).status = status
        /\ DOMAIN productHistory'[k] = DOMAIN productHistory[k] \cup {Len(productHistory[k]) + 1}
        /\ \A j \in DOMAIN productHistory[k] : productHistory'[k][j] = productHistory[k][j]
        /\ productHistory'[k][Len(productHistory[k]) + 1].status = status
    BY <1>8, <2>2 DEF Last
  <2>4. ASSUME NEW i \in Positions(k, {"CheckpointRecorded", "DeliveryCompleted"})',
               \A j \in Positions(k, {"CheckpointRecorded", "DeliveryCompleted"})' : j <= i
        PROVE  i = M
    BY <1>2, <1>4, <1>5, <1>6, <2>1, <2>4, PositionsGrow
  <2>5. Cardinality(Positions(k, {"CheckpointRecorded"}))' = Len(productHistory'[k])
    <3>1. IsFiniteSet(Positions(k, {"CheckpointRecorded"}))
      BY <1>2, PositionsFinite
    <3>2. Cardinality(Positions(k, {"CheckpointRecorded"})) = Len(productHistory[k])
      BY DEF ProductInv, HistoryReflected
    <3>3. Cardinality(Positions(k, {"CheckpointRecorded"}) \cup {M})
             = Cardinality(Positions(k, {"CheckpointRecorded"})) + 1
      BY <2>1, <3>1, FS_AddElement
    <3>4. QED
      BY <2>1, <2>3, <3>2, <3>3
  <2>6. ASSUME NEW j \in DOMAIN productHistory'[k]
        PROVE  \E i \in Positions(k, {"CheckpointRecorded"})' :
                  log'[i].status = productHistory'[k][j].status
    <3>1. CASE j \in DOMAIN productHistory[k]
      <4>1. PICK i \in Positions(k, {"CheckpointRecorded"}) :
                    log[i].status = productHistory[k][j].status
        BY <3>1 DEF ProductInv, HistoryReflected
      <4>2. QED
        BY <1>4, <2>1, <2>3, <3>1, <4>1
    <3>2. CASE j = Len(productHistory[k]) + 1
      BY <1>3, <2>1, <2>3, <3>2
    <3>3. QED
      BY <2>3, <3>1, <3>2
  <2>7. QED
    BY <1>3, <2>3, <2>4, <2>5, <2>6 DEF HistoryReflected, IsLast
<1>16. QED
  BY <1>10, <1>11, <1>13, <1>14, <1>15 DEF ProductInv
----------------------------------------------------------------------------
(* Every step keeps the invariant.                                         *)

LEMMA InitTracker == Init => TrackerIInv
<1> SUFFICES ASSUME Init PROVE TrackerIInv
  OBVIOUS
<1>1. \A k, T : Positions(k, T) = {}
  BY DEF Init, Positions
<1>2. ASSUME NEW k \in ProductIds PROVE ProductInv(k)
  <2>1. /\ products[k] = Unregistered /\ productHistory[k] = <<>>
        /\ currentHandler[k] = Zero /\ delivered[k] = FALSE
    BY DEF Init
  <2>2. Cardinality({}) = 0 /\ Len(<<>>) = 0 /\ DOMAIN <<>> = {}
    BY FS_EmptySet
  <2>3. CustodyOf(k) /\ DeliveryOf(k)
    BY <1>1 DEF CustodyOf, DeliveryOf
  <2>4. Reflected(k) /\ UriReflected(k)
    BY <1>1, <2>1 DEF Reflected, UriReflected, isProductRegistered
  <2>5. HistoryReflected(k)
    BY <1>1, <2>1, <2>2 DEF HistoryReflected
  <2>6. QED
    BY <2>3, <2>4, <2>5 DEF ProductInv
<1>3. QED
  BY <1>2, InitTyped, TrackerIInvIs

LEMMA NewBlockKeeps == ASSUME TrackerIInv, NewBlock PROVE TrackerIInv'
<1>1. /\ TrackerTypeOK /\ \A k \in ProductIds : ProductInv(k)
      /\ UNCHANGED <<products, productHistory, currentHandler, delivered, log>>
      /\ ended' = Append(ended, products) /\ Len(ended) + 1 < MaxBlocks
  BY TrackerIInvIs DEF NewBlock, contracts, BlockNumber
<1>2. /\ ended \in Seq([ProductIds -> Product \cup {Unregistered}])
      /\ products \in [ProductIds -> Product \cup {Unregistered}]
  BY <1>1 DEF TrackerTypeOK
<1>3. /\ ended' \in Seq([ProductIds -> Product \cup {Unregistered}])
      /\ Len(ended') = Len(ended) + 1 /\ Len(ended) \in Nat
      /\ DOMAIN ended' = DOMAIN ended \cup {Len(ended) + 1}
      /\ \A b \in DOMAIN ended : ended'[b] = ended[b]
      /\ ended'[Len(ended) + 1] = products
  BY <1>1, <1>2
<1>4. TrackerTypeOK'
  BY <1>1, <1>3 DEF TrackerTypeOK
<1>5. \A k, T : Positions(k, T)' = Positions(k, T)
  BY <1>1 DEF Positions
<1>6. ASSUME NEW k \in ProductIds PROVE ProductInv(k)'
  <2>1. \A n, wallet : HeldBy(k, n, wallet)' = HeldBy(k, n, wallet)
    BY <1>1, <1>5 DEF HeldBy
  <2>2. CustodyOf(k)'
    BY <1>1, <1>5, <2>1 DEF ProductInv, CustodyOf
  <2>3. DeliveryOf(k)'
    BY <1>1, <1>5 DEF ProductInv, DeliveryOf, Completed
  <2>4. Reflected(k)'
    BY <1>1, <1>5, <2>1 DEF ProductInv, Reflected, isProductRegistered, IsLast
  <2>5. UriReflected(k)'
    <3>1. ASSUME NEW b \in DOMAIN ended', NEW i \in Positions(k, {"ProductRegistered"}),
                 log[i].block <= b
          PROVE  /\ ended'[b][k] # Unregistered
                 /\ Positions(k, {"ProductMetadataUpdated"}) = {} => ended'[b][k] = products[k]
      <4>1. products[k] # Unregistered
        BY <1>1, <1>2, <3>1, AllTypes
           DEF ProductInv, Reflected, isProductRegistered, TrackerTypeOK
      <4>2. CASE b \in DOMAIN ended
        BY <1>1, <1>3, <3>1, <4>2 DEF ProductInv, UriReflected
      <4>3. CASE b = Len(ended) + 1
        BY <1>3, <4>1, <4>3
      <4>4. QED
        BY <1>3, <4>2, <4>3
    <3>2. QED
      BY <1>1, <1>5, <3>1 DEF ProductInv, UriReflected, IsLast
  <2>6. HistoryReflected(k)'
    BY <1>1, <1>5 DEF ProductInv, HistoryReflected, IsLast
  <2>7. QED
    BY <2>2, <2>3, <2>4, <2>5, <2>6 DEF ProductInv
<1>7. QED
  BY <1>4, <1>6 DEF TrackerIInv, TrackerInv, CustodyUnbroken, DeliveryIsFinal, ProductInv

LEMMA CallsKeep ==
    ASSUME TrackerIInv, NEW sender \in Wallets, NEW k \in ProductIds, Calls(sender, k)
    PROVE  TrackerIInv'
<1>1. TrackerTypeOK /\ \A j \in ProductIds : ProductInv(j)
  BY TrackerIInvIs
<1>2. log \in Seq(Event)
  BY <1>1 DEF TrackerTypeOK
<1>3. ASSUME TrackerTypeOK', ProductInv(k)', LogGrows, ended' = ended,
             \A j \in ProductIds \ {k} :
                /\ \A T : Positions(j, T)' = Positions(j, T)
                /\ products'[j] = products[j] /\ productHistory'[j] = productHistory[j]
                /\ currentHandler'[j] = currentHandler[j] /\ delivered'[j] = delivered[j]
      PROVE  TrackerIInv'
  <2>1. ASSUME NEW j \in ProductIds PROVE ProductInv(j)'
    <3>1. CASE j = k
      BY <1>3, <3>1
    <3>2. CASE j # k
      BY <1>1, <1>2, <1>3, <3>2, OthersKeep
    <3>3. QED
      BY <3>1, <3>2
  <2>2. QED
    BY <1>3, <2>1
       DEF TrackerIInv, TrackerInv, CustodyUnbroken, DeliveryIsFinal, ProductInv
<1>4. ASSUME NEW e \in Event, e.key = k, log' = log \o <<e>>
      PROVE  LogGrows /\ \A j \in ProductIds \ {k} : \A T : Positions(j, T)' = Positions(j, T)
  BY <1>2, <1>4, EmitOne
<1>5. ASSUME NEW name \in Names, NEW uri \in Names, registerProduct(sender, k, name, uri)
      PROVE  TrackerIInv'
  <2>1. LogGrows /\ \A j \in ProductIds \ {k} : \A T : Positions(j, T)' = Positions(j, T)
    <3>1. /\ Emitted("ProductRegistered", k, sender, Zero, name, Created) \in Event
          /\ Emitted("ProductRegistered", k, sender, Zero, name, Created).key = k
          /\ log' = log \o <<Emitted("ProductRegistered", k, sender, Zero, name, Created)>>
      BY <1>1, <1>5, EmittedTyped, TypedValues DEF registerProduct, Emit, Emitted
    <3>2. QED
      BY <1>4, <3>1
  <2>2. /\ TrackerTypeOK' /\ ended' = ended
        /\ \A j \in ProductIds \ {k} : products'[j] = products[j]
        /\ UNCHANGED <<productHistory, currentHandler, delivered>>
    BY <1>1, <1>5, RegistryTyped
  <2>3. ProductInv(k)'
    BY <1>1, <1>5, <2>2, RegisterKeeps
  <2>4. QED
    BY <1>3, <2>1, <2>2, <2>3
<1>6. ASSUME NEW uri \in Names, updateProductMetadata(sender, k, uri)
      PROVE  TrackerIInv'
  <2>1. LogGrows /\ \A j \in ProductIds \ {k} : \A T : Positions(j, T)' = Positions(j, T)
    <3>1. /\ Emitted("ProductMetadataUpdated", k, Zero, Zero, uri, Created) \in Event
          /\ Emitted("ProductMetadataUpdated", k, Zero, Zero, uri, Created).key = k
          /\ log' = log \o <<Emitted("ProductMetadataUpdated", k, Zero, Zero, uri, Created)>>
      BY <1>1, <1>6, EmittedTyped, TypedValues DEF updateProductMetadata, Emit, Emitted
    <3>2. QED
      BY <1>4, <3>1
  <2>2. /\ TrackerTypeOK' /\ ended' = ended
        /\ \A j \in ProductIds \ {k} : products'[j] = products[j]
        /\ UNCHANGED <<productHistory, currentHandler, delivered>>
    BY <1>1, <1>6, RegistryTyped
  <2>3. ProductInv(k)'
    BY <1>1, <1>6, <2>2, UpdateKeeps
  <2>4. QED
    BY <1>3, <2>1, <2>2, <2>3
<1>7. ASSUME NEW location \in Names, NEW status \in Status,
             recordCheckpoint(sender, k, location, status)
      PROVE  TrackerIInv'
  <2>1. LogGrows /\ \A j \in ProductIds \ {k} : \A T : Positions(j, T)' = Positions(j, T)
    BY <1>1, <1>7, CheckpointAdds
  <2>2. /\ TrackerTypeOK' /\ ended' = ended /\ products' = products
        /\ \A j \in ProductIds \ {k} : /\ productHistory'[j] = productHistory[j]
                                       /\ currentHandler'[j] = currentHandler[j]
                                       /\ delivered'[j] = delivered[j]
    BY <1>1, <1>7, CheckpointTyped
  <2>3. ProductInv(k)'
    BY <1>1, <1>7, CheckpointKeeps
  <2>4. QED
    BY <1>3, <2>1, <2>2, <2>3
<1>8. ASSUME NEW newHandler \in Wallets \cup {Zero}, transferCustody(sender, k, newHandler)
      PROVE  TrackerIInv'
  <2>1. LogGrows /\ \A j \in ProductIds \ {k} : \A T : Positions(j, T)' = Positions(j, T)
    <3>1. /\ Emitted("CustodyTransferred", k, newHandler, sender, EmptyString, Created) \in Event
          /\ Emitted("CustodyTransferred", k, newHandler, sender, EmptyString, Created).key = k
          /\ log' = log \o <<Emitted("CustodyTransferred", k, newHandler, sender,
                                     EmptyString, Created)>>
      BY <1>1, <1>8, EmittedTyped, TypedValues DEF transferCustody, Emit, Emitted
    <3>2. QED
      BY <1>4, <3>1
  <2>2. /\ TrackerTypeOK' /\ UNCHANGED <<products, productHistory, delivered, ended>>
        /\ \A j \in ProductIds \ {k} : currentHandler'[j] = currentHandler[j]
    BY <1>1, <1>8, CustodyTyped DEF TrackerTypeOK
  <2>3. ProductInv(k)'
    BY <1>1, <1>8, TransferKeeps
  <2>4. QED
    BY <1>3, <2>1, <2>2, <2>3
<1>9. QED
  BY <1>5, <1>6, <1>7, <1>8 DEF Calls

LEMMA StutterTracker == ASSUME TrackerIInv, UNCHANGED vars PROVE TrackerIInv'
<1>1. \A k, T : Positions(k, T)' = Positions(k, T)
  BY DEF Positions, vars
<1>2. UNCHANGED <<products, productHistory, currentHandler, delivered, log, ended>>
  BY DEF vars, contracts
<1>3. TrackerTypeOK'
  BY <1>2, TrackerIInvIs DEF TrackerTypeOK
<1>4. ASSUME NEW k \in ProductIds PROVE ProductInv(k)'
  <2>1. ProductInv(k)
    BY TrackerIInvIs
  <2>2. \A n, wallet : HeldBy(k, n, wallet)' = HeldBy(k, n, wallet)
    BY <1>1, <1>2 DEF HeldBy
  <2>3. CustodyOf(k)'
    BY <1>1, <1>2, <2>1, <2>2 DEF ProductInv, CustodyOf
  <2>6. DeliveryOf(k)'
    BY <1>1, <1>2, <2>1 DEF ProductInv, DeliveryOf, Completed
  <2>4. Reflected(k)' /\ UriReflected(k)' /\ HistoryReflected(k)'
    BY <1>1, <1>2, <2>1, <2>2
       DEF ProductInv, Reflected, UriReflected, HistoryReflected, isProductRegistered, IsLast
  <2>5. QED
    BY <2>3, <2>4, <2>6 DEF ProductInv
<1>5. QED
  BY <1>3, <1>4 DEF TrackerIInv, TrackerInv, CustodyUnbroken, DeliveryIsFinal, ProductInv

LEMMA NextTracker == TrackerIInv /\ [Next]_vars => TrackerIInv'
BY NewBlockKeeps, CallsKeep, StutterTracker DEF Next

\* The mappings of the two contracts agree, and their events tell of an
\* unbroken chain of custody that ends with the delivery: whatever calls are
\* made, in whatever order, in however many blocks.
THEOREM CustodyIsUnbroken == Spec => []TrackerInv
<1>1. TrackerIInv => TrackerInv
  BY DEF TrackerIInv
<1>2. QED
  BY InitTracker, NextTracker, <1>1, PTL DEF Spec
----------------------------------------------------------------------------
(* The projection of the log.  Journalled is a recursive function: that it *)
(* exists, and what it is at each position, is by the least position where *)
(* it would not be so.                                                     *)

Unfolds(f, m) ==
    f = [n \in 0..m |-> IF n = 0 THEN Before ELSE Indexed!Journal(f[n - 1], Log(n))]

LEMMA LeastOf ==
    ASSUME NEW S \in SUBSET Nat, S # {}
    PROVE  \E n \in S : \A m \in S : n <= m
<1>1. IsWellFoundedOn({ss \in Nat \X Nat : ss[1] < ss[2]}, Nat)
  BY NatLessThanWellFounded DEF OpToRel
<1>2. PICK n \in S : ~ \E m \in S : <<m, n>> \in {ss \in Nat \X Nat : ss[1] < ss[2]}
  BY <1>1, WFMin
<1>3. QED
  BY <1>2

LEMMA UnfoldingExists ==
    ASSUME NEW N \in Nat
    PROVE  \E f : Unfolds(f, N)
<1> DEFINE Missing == {m \in Nat : ~ \E f : Unfolds(f, m)}
<1> SUFFICES ASSUME N \in Missing PROVE FALSE
  OBVIOUS
<1>1. PICK m \in Missing : \A l \in Missing : m <= l
  BY LeastOf
<1>2. CASE m = 0
  <2>1. Unfolds([n \in 0..0 |-> Before], 0)
    BY DEF Unfolds
  <2>2. QED
    BY <1>1, <1>2, <2>1
<1>3. CASE m # 0
  <2>1. m \in Nat /\ m - 1 \in Nat /\ m - 1 \notin Missing
    BY <1>1, <1>3
  <2>2. PICK f : Unfolds(f, m - 1)
    BY <2>1
  <2> DEFINE g == [n \in 0..m |-> IF n = m THEN Indexed!Journal(f[m - 1], Log(m)) ELSE f[n]]
  <2>3. \A n \in 0..m - 1 :
           f[n] = IF n = 0 THEN Before ELSE Indexed!Journal(f[n - 1], Log(n))
    BY <2>2 DEF Unfolds
  <2>4. ASSUME NEW n \in 0..m
        PROVE  g[n] = IF n = 0 THEN Before ELSE Indexed!Journal(g[n - 1], Log(n))
    <3>1. CASE n = m
      <4>1. g[n] = Indexed!Journal(f[n - 1], Log(n)) /\ g[n - 1] = f[n - 1]
        BY <2>1, <3>1
      <4>2. QED
        BY <1>3, <3>1, <4>1
    <3>2. CASE n # m
      <4>1. n \in 0..m - 1 /\ g[n] = f[n] /\ (n # 0 => g[n - 1] = f[n - 1])
        BY <2>1, <3>2
      <4>2. QED
        BY <2>3, <4>1
    <3>3. QED
      BY <3>1, <3>2
  <2>5. Unfolds(g, m)
    BY <2>4 DEF Unfolds
  <2>6. QED
    BY <1>1, <2>5
<1>4. QED
  BY <1>2, <1>3

\* What Journalled is at each position.
LEMMA JournalledUnfolds ==
    ASSUME log \in Seq(Event)
    PROVE  /\ Journalled[0] = Before
           /\ \A n \in DOMAIN log : Journalled[n] = Indexed!Journal(Journalled[n - 1], Log(n))
<1>1. Len(log) \in Nat /\ DOMAIN log = 1..Len(log)
  OBVIOUS
<1>2. Journalled = CHOOSE f : Unfolds(f, Len(log))
  BY DEF Journalled, Unfolds
<1>3. Unfolds(Journalled, Len(log))
  BY <1>1, <1>2, UnfoldingExists
<1>4. \A n \in 0..Len(log) :
         Journalled[n] = IF n = 0 THEN Before ELSE Indexed!Journal(Journalled[n - 1], Log(n))
  BY <1>3 DEF Unfolds
<1>5. QED
  BY <1>1, <1>4

----------------------------------------------------------------------------
(* What one log leaves in the tables.                                      *)

LEMMA LogTyped ==
    ASSUME TrackerIInv, NEW n \in DOMAIN log
    PROVE  /\ Log(n).id = n /\ Log(n).key = log[n].key /\ Log(n).type = log[n].type
           /\ Log(n).who = log[n].who /\ Log(n).status = log[n].status
           /\ Log(n).name = log[n].text
           /\ log[n].type = "ProductRegistered" =>
                 Log(n).uri = getProduct(log[n].key, log[n].block).metadataURI
           /\ log[n].type # "ProductRegistered" => Log(n).uri = log[n].text
           /\ n \in 1..MaxEvents /\ Log(n).tx \in 1..MaxEvents
           /\ Log(n).block \in 0..MaxBlocks /\ Log(n).key \in ProductIds
           /\ Log(n).type \in EventTypes
           /\ log[n].type # "ProductMetadataUpdated" => Log(n).who \in Wallets
           /\ Log(n).status \in Status /\ Log(n).name \in Names /\ Log(n).uri \in Names
<1>1. TrackerTypeOK /\ \A k \in ProductIds : ProductInv(k)
  BY TrackerIInvIs
<1>2. /\ log[n] \in Event /\ n \in 1..MaxEvents
      /\ log[n].key \in ProductIds /\ log[n].block \in 1..MaxBlocks
      /\ log[n].type \in EventTypes /\ log[n].text \in Names /\ log[n].status \in Status
      /\ log[n].type # "ProductMetadataUpdated" => log[n].who \in Wallets
  BY <1>1, TrackerAssumption DEF TrackerTypeOK, Event, EventData
<1>3. log[n].type = "ProductRegistered" =>
         getProduct(log[n].key, log[n].block).metadataURI \in Names
  <2> SUFFICES ASSUME log[n].type = "ProductRegistered"
               PROVE  getProduct(log[n].key, log[n].block).metadataURI \in Names
    OBVIOUS
  <2> DEFINE k == log[n].key
             b == log[n].block
  <2>1. n \in Positions(k, {"ProductRegistered"}) /\ Positions(k, EventTypes) # {}
    BY <1>2 DEF Positions
  <2>2. CASE b < BlockNumber
    <3>1. b \in DOMAIN ended /\ ended[b] \in [ProductIds -> Product \cup {Unregistered}]
      BY <1>1, <1>2, <2>2 DEF TrackerTypeOK, BlockNumber
    <3>2. ended[b][k] # Unregistered
      BY <1>1, <1>2, <2>1, <3>1 DEF ProductInv, UriReflected
    <3>3. ended[b][k] \in Product
      BY <1>2, <3>1, <3>2
    <3>4. QED
      BY <2>2, <3>3 DEF getProduct, Product
  <2>3. CASE ~(b < BlockNumber)
    <3>1. products[k] # Unregistered
      BY <1>1, <1>2, <2>1 DEF ProductInv, Reflected, isProductRegistered
    <3>2. products[k] \in Product
      BY <1>1, <1>2, <3>1 DEF TrackerTypeOK
    <3>3. QED
      BY <2>3, <3>2 DEF getProduct, Product
  <2>4. QED
    BY <2>2, <2>3
<1>4. QED
  BY <1>2, <1>3 DEF Log

\* Tables that logs of the contracts, and no others, were projected into.
Shape ==
    [start : {0}, cursor : {0}, anchors : {{}}, orphaned : {{}},
     canonical : SUBSET {Log(i) : i \in DOMAIN log},
     bind : [ProductIds -> Indexed!Binding \cup {Unbound}],
     product : [ProductIds -> Indexed!Product \cup {NoProduct}],
     ship : [ProductIds -> Status],
     hist : SUBSET {Indexed!RowOf(Log(i)) : i \in DOMAIN log}]

\* t and u differ at most at product k.
Elsewhere(u, t, k) ==
    \A j \in ProductIds \ {k} :
        u.bind[j] = t.bind[j] /\ u.product[j] = t.product[j] /\ u.ship[j] = t.ship[j]

\* u is t with this binding, row and shipment of product k, and these rows of history.
Became(u, t, k, b, p, s, h) ==
    /\ u \in Shape /\ Elsewhere(u, t, k)
    /\ u.bind[k] = b /\ u.product[k] = p /\ u.ship[k] = s
    /\ u.canonical = t.canonical /\ u.hist = h

LEMMA BindShape ==
    ASSUME NEW t \in Shape, NEW k \in ProductIds,
           NEW b \in Indexed!Binding, NEW p \in Indexed!Product
    PROVE  Became([t EXCEPT !.bind[k] = b, !.product[k] = p], t, k, b, p, t.ship[k], t.hist)
<1> DEFINE u == [t EXCEPT !.bind[k] = b, !.product[k] = p]
<1>1. /\ [t.bind EXCEPT ![k] = b] \in [ProductIds -> Indexed!Binding \cup {Unbound}]
      /\ [t.product EXCEPT ![k] = p] \in [ProductIds -> Indexed!Product \cup {NoProduct}]
  BY DEF Shape
<1>2. u = [t EXCEPT !.bind = [t.bind EXCEPT ![k] = b],
                    !.product = [t.product EXCEPT ![k] = p]]
  BY DEF Shape
<1>3. u \in Shape
  BY <1>1, <1>2 DEF Shape
<1>4. /\ u.bind = [t.bind EXCEPT ![k] = b] /\ u.product = [t.product EXCEPT ![k] = p]
      /\ u.ship = t.ship /\ u.canonical = t.canonical /\ u.hist = t.hist
  BY <1>2 DEF Shape
<1> HIDE DEF u
<1>5. Became(u, t, k, b, p, t.ship[k], t.hist)
  BY <1>3, <1>4 DEF Shape, Became, Elsewhere
<1>6. QED
  BY <1>5 DEF u

LEMMA EffectShape ==
    ASSUME NEW t \in Shape, NEW k \in ProductIds,
           NEW b \in Indexed!Binding,
           NEW h \in SUBSET {Indexed!RowOf(Log(i)) : i \in DOMAIN log}
    PROVE  Became([t EXCEPT !.bind[k] = b, !.hist = h], t, k, b, t.product[k], t.ship[k], h)
<1> DEFINE u == [t EXCEPT !.bind[k] = b, !.hist = h]
<1>1. [t.bind EXCEPT ![k] = b] \in [ProductIds -> Indexed!Binding \cup {Unbound}]
  BY DEF Shape
<1>2. u = [t EXCEPT !.bind = [t.bind EXCEPT ![k] = b], !.hist = h]
  BY DEF Shape
<1>3. u \in Shape
  BY <1>1, <1>2 DEF Shape
<1>4. /\ u.bind = [t.bind EXCEPT ![k] = b] /\ u.product = t.product
      /\ u.ship = t.ship /\ u.canonical = t.canonical /\ u.hist = h
  BY <1>2 DEF Shape
<1> HIDE DEF u
<1>5. Became(u, t, k, b, t.product[k], t.ship[k], h)
  BY <1>3, <1>4 DEF Shape, Became, Elsewhere
<1>6. QED
  BY <1>5 DEF u

LEMMA ProductShape ==
    ASSUME NEW t \in Shape, NEW k \in ProductIds,
           NEW p \in Indexed!Product
    PROVE  Became([t EXCEPT !.product[k] = p], t, k, t.bind[k], p, t.ship[k], t.hist)
<1> DEFINE u == [t EXCEPT !.product[k] = p]
<1>1. [t.product EXCEPT ![k] = p] \in [ProductIds -> Indexed!Product \cup {NoProduct}]
  BY DEF Shape
<1>2. u = [t EXCEPT !.product = [t.product EXCEPT ![k] = p]]
  BY DEF Shape
<1>3. u \in Shape
  BY <1>1, <1>2 DEF Shape
<1>4. /\ u.bind = t.bind /\ u.product = [t.product EXCEPT ![k] = p]
      /\ u.ship = t.ship /\ u.canonical = t.canonical /\ u.hist = t.hist
  BY <1>2 DEF Shape
<1> HIDE DEF u
<1>5. Became(u, t, k, t.bind[k], p, t.ship[k], t.hist)
  BY <1>3, <1>4 DEF Shape, Became, Elsewhere
<1>6. QED
  BY <1>5 DEF u

LEMMA ShipShape ==
    ASSUME NEW t \in Shape, NEW k \in ProductIds,
           NEW s \in Status
    PROVE  Became([t EXCEPT !.ship[k] = s], t, k, t.bind[k], t.product[k], s, t.hist)
<1> DEFINE u == [t EXCEPT !.ship[k] = s]
<1>1. [t.ship EXCEPT ![k] = s] \in [ProductIds -> Status]
  BY DEF Shape
<1>2. u = [t EXCEPT !.ship = [t.ship EXCEPT ![k] = s]]
  BY DEF Shape
<1>3. u \in Shape
  BY <1>1, <1>2 DEF Shape
<1>4. /\ u.bind = t.bind /\ u.product = t.product
      /\ u.ship = [t.ship EXCEPT ![k] = s] /\ u.canonical = t.canonical /\ u.hist = t.hist
  BY <1>2 DEF Shape
<1> HIDE DEF u
<1>5. Became(u, t, k, t.bind[k], t.product[k], s, t.hist)
  BY <1>3, <1>4 DEF Shape, Became, Elsewhere
<1>6. QED
  BY <1>5 DEF u

LEMMA CanonicalShape ==
    ASSUME NEW t \in Shape, NEW n \in DOMAIN log,
           NEW u, u = [t EXCEPT !.canonical = @ \cup {Log(n)}, !.orphaned = @ \ {Log(n)}]
    PROVE  /\ u \in Shape /\ u.bind = t.bind /\ u.product = t.product /\ u.ship = t.ship
           /\ u.canonical = t.canonical \cup {Log(n)} /\ u.hist = t.hist
<1> DEFINE c == t.canonical \cup {Log(n)}
<1>1. c \in SUBSET {Log(i) : i \in DOMAIN log} /\ t.orphaned \ {Log(n)} = {}
  BY DEF Shape
<1>2. u = [t EXCEPT !.canonical = c, !.orphaned = {}]
  BY <1>1 DEF Shape
<1> HIDE DEF c
<1>3. u \in Shape
  BY <1>1, <1>2 DEF Shape
<1>4. /\ u.bind = t.bind /\ u.hist = t.hist /\ u.product = t.product
      /\ u.ship = t.ship /\ u.canonical = c
  BY <1>2 DEF Shape
<1>5. QED
  BY <1>3, <1>4 DEF c
\* The binding and the row a log finds, or makes.
StatusFor(t, k) == IF t.bind[k] = Unbound THEN 0 ELSE t.bind[k].status
HandlerFor(t, k) == IF t.bind[k] = Unbound THEN Nobody ELSE t.bind[k].handler

\* u is t after log n.
Journalling(t, u, n) ==
    LET e == log[n]
        k == log[n].key
    IN /\ u \in Shape /\ Elsewhere(u, t, k)
       /\ u.canonical = t.canonical \cup {Log(n)}
       /\ u.hist = IF e.type \in {"CheckpointRecorded", "CustodyTransferred"}
                   THEN t.hist \cup {Indexed!RowOf(Log(n))} ELSE t.hist
       /\ u.bind[k] # Unbound
       /\ u.bind[k].status = IF e.type = "CheckpointRecorded" THEN e.status
                             ELSE IF e.type = "DeliveryCompleted" THEN Delivered
                             ELSE StatusFor(t, k)
       /\ u.bind[k].handler = IF e.type \in Handling THEN e.who ELSE HandlerFor(t, k)
       /\ u.ship[k] = u.bind[k].status
       /\ u.product[k] \in Indexed!Product
       /\ e.type = "ProductRegistered" =>
             /\ u.product[k].owner = e.who /\ u.product[k].name = e.text
             /\ u.product[k].uri = getProduct(k, e.block).metadataURI
       /\ e.type = "ProductMetadataUpdated" =>
             /\ u.product[k].owner = t.product[k].owner /\ u.product[k].name = t.product[k].name
             /\ u.product[k].uri = e.text
       /\ e.type \in Handling => u.product[k] = t.product[k]

\* _binding: t with a binding and a row for log n.
LEMMA BoundFor ==
    ASSUME TrackerIInv, NEW n \in DOMAIN log, NEW t \in Shape,
           t.bind[log[n].key] = Unbound =>
              log[n].type = "ProductRegistered" /\ t.product[log[n].key] = NoProduct,
           t.bind[log[n].key] # Unbound => t.product[log[n].key] \in Indexed!Product,
           NEW u, u = Indexed!Bind(t, Log(n))
    PROVE  /\ u \in Shape /\ Elsewhere(u, t, log[n].key)
           /\ u.canonical = t.canonical /\ u.hist = t.hist
           /\ u.bind[log[n].key] \in Indexed!Binding /\ u.product[log[n].key] \in Indexed!Product
           /\ u.bind[log[n].key].status = StatusFor(t, log[n].key)
           /\ u.bind[log[n].key].handler = HandlerFor(t, log[n].key)
           /\ t.bind[log[n].key] # Unbound => u.product[log[n].key] = t.product[log[n].key]
<1> DEFINE k == log[n].key
           o == Log(n)
<1>1. k \in ProductIds /\ o.key = k /\ o.name \in Names
  BY LogTyped
<1>2. CASE t.bind[k] # Unbound
  <2>1. u = t
    BY <1>1, <1>2 DEF Indexed!Bind
  <2>2. t.bind[k] \in Indexed!Binding
    BY <1>1, <1>2 DEF Shape
  <2>3. QED
    BY <1>1, <1>2, <2>1, <2>2 DEF StatusFor, HandlerFor, Elsewhere
<1>3. CASE t.bind[k] = Unbound
  <2> DEFINE base == Indexed!Placeholder(o)
             b == [base |-> base, status |-> 0, handler |-> Nobody]
  <2>1. base \in Indexed!Product
    BY <1>1 DEF Indexed!Placeholder, Indexed!Product, Indexed!Sources, Indexed!Registrations
  <2>2. b \in Indexed!Binding
    BY <2>1 DEF Indexed!Binding, Indexed!Statuses
  <2>3. u = [t EXCEPT !.bind[k] = b, !.product[k] = base]
    BY <1>1, <1>3 DEF Indexed!Bind, Indexed!Baseline
  <2> HIDE DEF base
  <2>4. b.status = 0 /\ b.handler = Nobody
    OBVIOUS
  <2> HIDE DEF b
  <2>5. Became([t EXCEPT !.bind[k] = b, !.product[k] = base], t, k, b, base, t.ship[k], t.hist)
    BY ONLY <1>1, <2>1, <2>2, t \in Shape, BindShape
  <2>6. Became(u, t, k, b, base, t.ship[k], t.hist)
    BY ONLY <2>3, <2>5
  <2>7. QED
    BY <1>3, <2>1, <2>2, <2>4, <2>6 DEF StatusFor, HandlerFor, Became
<1>4. QED
  BY <1>2, <1>3

LEMMA BindingFields ==
    ASSUME NEW b \in Indexed!Binding, NEW s, NEW h
    PROVE  [b EXCEPT !.status = s, !.handler = h] =
              [base |-> b.base, status |-> s, handler |-> h]
<1> DEFINE c == [b EXCEPT !.status = s]
<1>1. c = [base |-> b.base, status |-> s, handler |-> b.handler]
  BY DEF Indexed!Binding
<1>2. [b EXCEPT !.status = s, !.handler = h] = [c EXCEPT !.handler = h]
  OBVIOUS
<1> HIDE DEF c
<1>3. [c EXCEPT !.handler = h] = [base |-> b.base, status |-> s, handler |-> h]
  BY <1>1
<1>4. QED
  BY <1>2, <1>3

\* _project: the effect of log n on bound tables.
LEMMA EffectOf ==
    ASSUME TrackerIInv, NEW n \in DOMAIN log, NEW t \in Shape,
           t.bind[log[n].key] \in Indexed!Binding, t.product[log[n].key] \in Indexed!Product,
           NEW u, u = Indexed!Effect(t, Log(n))
    PROVE  LET e == log[n]
               k == log[n].key
           IN /\ u \in Shape /\ Elsewhere(u, t, k)
              /\ u.canonical = t.canonical
              /\ u.hist = IF e.type \in {"CheckpointRecorded", "CustodyTransferred"}
                          THEN t.hist \cup {Indexed!RowOf(Log(n))} ELSE t.hist
              /\ u.bind[k] \in Indexed!Binding
              /\ u.bind[k].status = IF e.type = "CheckpointRecorded" THEN e.status
                                    ELSE IF e.type = "DeliveryCompleted" THEN Delivered
                                    ELSE t.bind[k].status
              /\ u.bind[k].handler = IF e.type \in Handling THEN e.who ELSE t.bind[k].handler
              /\ u.product[k] \in Indexed!Product
              /\ e.type = "ProductRegistered" =>
                    /\ u.product[k].owner = e.who /\ u.product[k].name = e.text
                    /\ u.product[k].uri = getProduct(k, e.block).metadataURI
              /\ e.type = "ProductMetadataUpdated" =>
                    /\ u.product[k].owner = t.product[k].owner
                    /\ u.product[k].name = t.product[k].name
                    /\ u.product[k].uri = e.text
              /\ e.type \in Handling => u.product[k] = t.product[k]
<1> DEFINE k == log[n].key
           o == Log(n)
           b == t.bind[k]
<1>1. /\ k \in ProductIds /\ o.key = k /\ o.type = log[n].type /\ o.type \in EventTypes
      /\ o.who = log[n].who /\ o.status = log[n].status /\ o.status \in Status
      /\ o.name = log[n].text /\ o.name \in Names /\ o.uri \in Names /\ o.tx \in 1..MaxEvents
      /\ o.block \in 0..MaxBlocks
      /\ o.type # "ProductMetadataUpdated" => o.who \in Wallets
      /\ o.type = "ProductRegistered" => o.uri = getProduct(k, log[n].block).metadataURI
      /\ o.type # "ProductRegistered" => o.uri = log[n].text
  BY LogTyped
<1>2. /\ t.hist \in SUBSET {Indexed!RowOf(Log(i)) : i \in DOMAIN log}
      /\ t.hist \cup {Indexed!RowOf(Log(n))} \in SUBSET {Indexed!RowOf(Log(i)) : i \in DOMAIN log}
  BY DEF Shape
<1> HIDE DEF k, o
<1>3. CASE o.type = "ProductRegistered"
  <2> DEFINE p == [name |-> o.name, uri |-> o.uri, owner |-> o.who, source |-> "chain_event",
                   reg |-> "indexed", height |-> o.block, tx |-> o.tx]
  <2>1. p \in Indexed!Product
    BY <1>1, <1>3, TrackerAssumption DEF Indexed!Product, Indexed!Sources, Indexed!Registrations
  <2>2. u = [t EXCEPT !.product[k] = p]
    BY <1>1, <1>3 DEF Indexed!Effect, Indexed!Registered, o
  <2>3. p.owner = o.who /\ p.name = o.name /\ p.uri = o.uri
    OBVIOUS
  <2> HIDE DEF p
  <2>a. Became([t EXCEPT !.product[k] = p], t, k, t.bind[k], p, t.ship[k], t.hist)
    BY ONLY <1>1, <2>1, t \in Shape, ProductShape
  <2>4. Became(u, t, k, t.bind[k], p, t.ship[k], t.hist)
    BY ONLY <2>2, <2>a
  <2>5. QED
    BY <1>1, <1>3, <2>1, <2>3, <2>4 DEF k, Handling, Became
<1>4. CASE o.type = "ProductMetadataUpdated"
  <2> DEFINE p == [t.product[k] EXCEPT !.uri = o.uri]
  <2>1. /\ p \in Indexed!Product /\ p.owner = t.product[k].owner /\ p.name = t.product[k].name
        /\ p.uri = o.uri
    BY <1>1 DEF Indexed!Product, k
  <2>2. u = [t EXCEPT !.product[k] = p]
    BY <1>1, <1>4 DEF Indexed!Effect, Indexed!MetadataUpdated, Shape, o
  <2> HIDE DEF p
  <2>a. Became([t EXCEPT !.product[k] = p], t, k, t.bind[k], p, t.ship[k], t.hist)
    BY ONLY <1>1, <2>1, t \in Shape, ProductShape
  <2>4. Became(u, t, k, t.bind[k], p, t.ship[k], t.hist)
    BY ONLY <2>2, <2>a
  <2>5. QED
    BY <1>1, <1>4, <2>1, <2>4 DEF k, Handling, Became
<1>6. CASE o.type = "CheckpointRecorded"
  <2> DEFINE c == [base |-> b.base, status |-> o.status, handler |-> o.who]
             h == t.hist \cup {Indexed!RowOf(Log(n))}
  <2>1. c = [b EXCEPT !.status = o.status, !.handler = o.who]
    BY BindingFields DEF k
  <2>2. c \in Indexed!Binding /\ c.status = o.status /\ c.handler = o.who
    BY <1>1, <1>6 DEF Indexed!Binding, Indexed!Statuses, Status, Created, Delivered, k
  <2>3. u = [t EXCEPT !.bind[k] = [b EXCEPT !.status = o.status, !.handler = o.who], !.hist = h]
    BY <1>1, <1>6 DEF Indexed!Effect, Indexed!CheckpointRecorded, Shape, o
  <2> HIDE DEF c, h
  <2>a. h \in SUBSET {Indexed!RowOf(Log(i)) : i \in DOMAIN log}
    BY <1>2 DEF h
  <2>b. Became([t EXCEPT !.bind[k] = c, !.hist = h], t, k, c, t.product[k], t.ship[k], h)
    BY ONLY <1>1, <2>2, <2>a, t \in Shape, EffectShape
  <2>4. Became(u, t, k, c, t.product[k], t.ship[k], h)
    BY ONLY <2>1, <2>3, <2>b
  <2>5. QED
    BY <1>1, <1>6, <2>2, <2>4 DEF k, h, Handling, Became
<1>7. CASE o.type = "CustodyTransferred"
  <2> DEFINE c == [b EXCEPT !.handler = o.who]
             h == t.hist \cup {Indexed!RowOf(Log(n))}
  <2>2. c \in Indexed!Binding /\ c.status = b.status /\ c.handler = o.who
    BY <1>1, <1>7 DEF Indexed!Binding, k
  <2>3. u = [t EXCEPT !.bind[k] = c, !.hist = h]
    BY <1>1, <1>7 DEF Indexed!Effect, Indexed!CustodyTransferred, Shape, o
  <2> HIDE DEF c, h
  <2>a. h \in SUBSET {Indexed!RowOf(Log(i)) : i \in DOMAIN log}
    BY <1>2 DEF h
  <2>b. Became([t EXCEPT !.bind[k] = c, !.hist = h], t, k, c, t.product[k], t.ship[k], h)
    BY ONLY <1>1, <2>2, <2>a, t \in Shape, EffectShape
  <2>4. Became(u, t, k, c, t.product[k], t.ship[k], h)
    BY ONLY <2>3, <2>b
  <2>5. QED
    BY <1>1, <1>7, <2>2, <2>4 DEF k, h, Handling, Became
<1>8. CASE o.type = "DeliveryCompleted"
  <2> DEFINE c == [base |-> b.base, status |-> 3, handler |-> o.who]
             h == t.hist
  <2>1. c = [b EXCEPT !.status = 3, !.handler = o.who]
    BY BindingFields DEF k
  <2>2. c \in Indexed!Binding /\ c.status = 3 /\ c.handler = o.who
    BY <1>1, <1>8 DEF Indexed!Binding, Indexed!Statuses, k
  <2>3. u = [t EXCEPT !.bind[k] = [b EXCEPT !.status = 3, !.handler = o.who], !.hist = h]
    BY <1>1, <1>8 DEF Indexed!Effect, Indexed!DeliveryCompleted, Shape, o
  <2> HIDE DEF c, h
  <2>a. h \in SUBSET {Indexed!RowOf(Log(i)) : i \in DOMAIN log}
    BY <1>2 DEF h
  <2>b. Became([t EXCEPT !.bind[k] = c, !.hist = h], t, k, c, t.product[k], t.ship[k], h)
    BY ONLY <1>1, <2>2, <2>a, t \in Shape, EffectShape
  <2>4. Became(u, t, k, c, t.product[k], t.ship[k], h)
    BY ONLY <2>1, <2>3, <2>b
  <2>5. QED
    BY <1>1, <1>8, <2>2, <2>4 DEF k, h, Handling, Delivered, Became
<1>9. QED
  BY <1>1, <1>3, <1>4, <1>6, <1>7, <1>8 DEF EventTypes

\* _journal and _project.
LEMMA JournallingOf ==
    ASSUME TrackerIInv, NEW n \in DOMAIN log, NEW t \in Shape, Log(n) \notin t.canonical,
           t.bind[log[n].key] = Unbound =>
              log[n].type = "ProductRegistered" /\ t.product[log[n].key] = NoProduct,
           t.bind[log[n].key] # Unbound => t.product[log[n].key] \in Indexed!Product
    PROVE  Journalling(t, Indexed!Journal(t, Log(n)), n)
<1> DEFINE k == log[n].key
           o == Log(n)
           c == [t EXCEPT !.canonical = @ \cup {o}, !.orphaned = @ \ {o}]
           b == Indexed!Bind(c, o)
           e == Indexed!Effect(b, o)
           f == [e EXCEPT !.ship[k] = e.bind[k].status]
<1>1. k \in ProductIds /\ o.key = k
  BY LogTyped
<1>2. /\ c \in Shape /\ c.bind = t.bind /\ c.product = t.product /\ c.ship = t.ship
      /\ c.canonical = t.canonical \cup {Log(n)} /\ c.hist = t.hist
  BY CanonicalShape, ZenonT(60)
<1>3. /\ b \in Shape /\ Elsewhere(b, c, k)
      /\ b.canonical = c.canonical /\ b.hist = c.hist
      /\ b.bind[k] \in Indexed!Binding /\ b.product[k] \in Indexed!Product
      /\ b.bind[k].status = StatusFor(c, k)
      /\ b.bind[k].handler = HandlerFor(c, k)
      /\ c.bind[k] # Unbound => b.product[k] = c.product[k]
  <2> HIDE DEF c
  <2>1. QED
    BY <1>2, BoundFor
<1>4. /\ e \in Shape /\ Elsewhere(e, b, k)
      /\ e.canonical = b.canonical
      /\ e.hist = IF log[n].type \in {"CheckpointRecorded", "CustodyTransferred"}
                  THEN b.hist \cup {Indexed!RowOf(Log(n))} ELSE b.hist
      /\ e.bind[k] \in Indexed!Binding
      /\ e.bind[k].status = IF log[n].type = "CheckpointRecorded" THEN log[n].status
                            ELSE IF log[n].type = "DeliveryCompleted" THEN Delivered
                            ELSE b.bind[k].status
      /\ e.bind[k].handler = IF log[n].type \in Handling THEN log[n].who ELSE b.bind[k].handler
      /\ e.product[k] \in Indexed!Product
      /\ log[n].type = "ProductRegistered" =>
            /\ e.product[k].owner = log[n].who /\ e.product[k].name = log[n].text
            /\ e.product[k].uri = getProduct(k, log[n].block).metadataURI
      /\ log[n].type = "ProductMetadataUpdated" =>
            /\ e.product[k].owner = b.product[k].owner
            /\ e.product[k].name = b.product[k].name
            /\ e.product[k].uri = log[n].text
      /\ log[n].type \in Handling => e.product[k] = b.product[k]
  <2> HIDE DEF b
  <2>1. QED
    BY <1>3, EffectOf
<1>5. Indexed!FollowShipment(e, k) = f
  <2>1. e.ship[k] # NoShipment
    BY <1>1, <1>4, NullAssumption DEF Shape
  <2> HIDE DEF e
  <2>2. QED
    BY <1>1, <1>4, <2>1 DEF Indexed!FollowShipment, Shape
<1>6. Indexed!Journal(t, o) = f
  <2>1. o \notin t.canonical
    OBVIOUS
  <2>2. Indexed!Journal(t, o) = Indexed!FollowShipment(e, k)
    BY <1>1, <2>1 DEF Indexed!Journal, Indexed!Project
  <2>3. QED
    BY <1>5, <2>2
<1>7. Became(f, e, k, e.bind[k], e.product[k], e.bind[k].status, e.hist)
  <2>1. e.bind[k].status \in Status
    BY <1>4 DEF Indexed!Binding, Indexed!Statuses, Status, Created, Delivered
  <2> HIDE DEF e
  <2>2. QED
    BY ONLY <1>1, <1>4, <2>1, ShipShape
<1> HIDE DEF c, b, e, f
<1>8. Elsewhere(f, t, k)
  BY <1>2, <1>3, <1>4, <1>7 DEF Elsewhere, Became
<1>9. StatusFor(c, k) = StatusFor(t, k) /\ HandlerFor(c, k) = HandlerFor(t, k)
  BY <1>2 DEF StatusFor, HandlerFor
<1>10. f.bind[k] # Unbound
  BY <1>4, <1>7, NullAssumption DEF Became
<1>11. log[n].type # "ProductRegistered" => b.product[k] = t.product[k]
  BY <1>2, <1>3
<1>12. Journalling(t, f, n)
  BY <1>2, <1>3, <1>4, <1>7, <1>8, <1>9, <1>10, <1>11 DEF Journalling, Handling, Became
<1>13. QED
  BY <1>6, <1>12
----------------------------------------------------------------------------
(* What the tables are after n logs.                                       *)

Upto(k, types, n) == {i \in Positions(k, types) : i <= n}

Progress == {"CheckpointRecorded", "DeliveryCompleted"}
StatusOf(i) == IF log[i].type = "DeliveryCompleted" THEN Delivered ELSE log[i].status

\* The row of product k.
RowFits(t, k, n) ==
    /\ \A i \in Upto(k, {"ProductRegistered"}, n) :
          /\ t.product[k].owner = log[i].who /\ t.product[k].name = log[i].text
          /\ Upto(k, {"ProductMetadataUpdated"}, n) = {} =>
                t.product[k].uri = getProduct(k, log[i].block).metadataURI
    /\ \A i \in Upto(k, {"ProductMetadataUpdated"}, n) :
          IsLast(i, Upto(k, {"ProductMetadataUpdated"}, n)) => t.product[k].uri = log[i].text

\* Its binding and its shipment.
BindingFits(t, k, n) ==
    /\ \A i \in Upto(k, Handling, n) : IsLast(i, Upto(k, Handling, n)) => t.bind[k].handler = log[i].who
    /\ Upto(k, Handling, n) = {} => t.bind[k].handler = Nobody
    /\ \A i \in Upto(k, Progress, n) : IsLast(i, Upto(k, Progress, n)) => t.bind[k].status = StatusOf(i)
    /\ Upto(k, Progress, n) = {} => t.bind[k].status = 0
    /\ t.ship[k] = t.bind[k].status

ProductFits(t, k, n) ==
    IF Upto(k, EventTypes, n) = {} THEN t.bind[k] = Unbound /\ t.product[k] = NoProduct
    ELSE /\ t.bind[k] # Unbound /\ t.product[k] \in Indexed!Product
         /\ RowFits(t, k, n) /\ BindingFits(t, k, n)

Fits(t, n) ==
    /\ t \in Shape
    /\ t.canonical = {Log(i) : i \in 1..n}
    /\ t.hist = {Indexed!RowOf(Log(i)) :
                    i \in {j \in 1..n : log[j].type \in {"CheckpointRecorded", "CustodyTransferred"}}}
    /\ \A k \in ProductIds : ProductFits(t, k, n)

LEMMA UptoGrows ==
    ASSUME TrackerIInv, NEW n \in DOMAIN log, NEW k, NEW T
    PROVE  /\ Upto(k, T, n) = IF log[n].key = k /\ log[n].type \in T
                              THEN Upto(k, T, n - 1) \cup {n} ELSE Upto(k, T, n - 1)
           /\ \A i \in Upto(k, T, n - 1) : i \in Nat /\ i < n
<1>1. log \in Seq(Event) /\ n \in 1..Len(log) /\ Len(log) \in Nat
  BY TrackerIInvIs DEF TrackerTypeOK
<1>2. \A i \in Positions(k, T) : i \in Nat /\ (i <= n <=> i <= n - 1 \/ i = n)
  BY <1>1, PositionsAre
<1>3. n \in Positions(k, T) <=> log[n].key = k /\ log[n].type \in T
  BY <1>1 DEF Positions
<1>4. QED
  BY <1>1, <1>2, <1>3 DEF Upto

LEMMA BeforeFits == ASSUME TrackerIInv PROVE Fits(Before, 0)
<1>1. log \in Seq(Event)
  BY TrackerIInvIs DEF TrackerTypeOK
<1>2. \A k, T : Upto(k, T, 0) = {}
  BY <1>1, PositionsAre DEF Upto
<1>3. Before \in Shape
  BY DEF Before, Shape, Status, Created, Delivered
<1>4. \A k \in ProductIds : Before.bind[k] = Unbound /\ Before.product[k] = NoProduct
  BY DEF Before
<1>5. Before.canonical = {} /\ Before.hist = {}
  BY DEF Before
<1>6. QED
  BY <1>2, <1>3, <1>4, <1>5 DEF Fits, ProductFits

\* What the journal needs of the tables before log n.
LEMMA FittingIsReady ==
    ASSUME TrackerIInv, NEW n \in DOMAIN log, NEW t, Fits(t, n - 1)
    PROVE  /\ Log(n) \notin t.canonical
           /\ \A p \in t.canonical : p.id # Log(n).id
           /\ t.bind[log[n].key] = Unbound =>
                 log[n].type = "ProductRegistered" /\ t.product[log[n].key] = NoProduct
           /\ t.bind[log[n].key] # Unbound =>
                 log[n].type # "ProductRegistered" /\ t.product[log[n].key] \in Indexed!Product
           /\ t.bind[log[n].key] = Unbound <=> Upto(log[n].key, EventTypes, n - 1) = {}
           /\ \A r \in t.hist : r.id # Log(n).id
<1> DEFINE k == log[n].key
<1>1. /\ log \in Seq(Event) /\ n \in 1..Len(log) /\ Len(log) \in Nat
      /\ \A j \in ProductIds : ProductInv(j)
  BY TrackerIInvIs DEF TrackerTypeOK
<1>2. \A i \in 1..n - 1 : i \in DOMAIN log /\ Log(i).id = i /\ i # n
  BY <1>1, LogTyped
<1>3. Log(n).id = n /\ k \in ProductIds /\ log[n].type \in EventTypes
  BY LogTyped
<1>4. \A p \in t.canonical : p.id # Log(n).id
  BY <1>2, <1>3 DEF Fits
<1>5. \A r \in t.hist : r.id # Log(n).id
  <2>1. \A i \in 1..n - 1 : Indexed!RowOf(Log(i)).id = i
    BY <1>2 DEF Indexed!RowOf
  <2>2. QED
    BY <1>2, <1>3, <2>1 DEF Fits
<1>6. ProductFits(t, k, n - 1)
  BY <1>3 DEF Fits
<1>7. t.bind[k] = Unbound <=> Upto(k, EventTypes, n - 1) = {}
  BY <1>6 DEF ProductFits
<1>8. log[n].type = "ProductRegistered" <=> Upto(k, EventTypes, n - 1) = {}
  <2>1. n \in Positions(k, EventTypes)
    BY <1>1, <1>3 DEF Positions
  <2>2. log[n].type = "ProductRegistered" <=> \A m \in Positions(k, EventTypes) : n <= m
    BY <1>1, <1>3, <2>1 DEF ProductInv, CustodyOf
  <2>3. \A m \in Positions(k, EventTypes) : m \in Nat
    BY <1>1, PositionsAre
  <2>4. QED
    BY <1>1, <2>2, <2>3 DEF Upto
<1>9. QED
  BY <1>4, <1>5, <1>6, <1>7, <1>8 DEF ProductFits

\* One log more fits.
LEMMA FitsGoesOn ==
    ASSUME TrackerIInv, NEW n \in DOMAIN log, NEW t, Fits(t, n - 1), NEW u, Journalling(t, u, n)
    PROVE  Fits(u, n)
<1> DEFINE k == log[n].key
<1>1. /\ log \in Seq(Event) /\ n \in 1..Len(log) /\ Len(log) \in Nat
  BY TrackerIInvIs DEF TrackerTypeOK
<1>2. k \in ProductIds /\ log[n].type \in EventTypes
  BY LogTyped
<1>3. u \in Shape /\ Elsewhere(u, t, k)
  BY DEF Journalling
<1>4. u.canonical = {Log(i) : i \in 1..n}
  <2>1. 1..n = 1..n - 1 \cup {n}
    BY <1>1
  <2>2. QED
    BY <2>1 DEF Journalling, Fits
<1>5. u.hist = {Indexed!RowOf(Log(i)) :
                   i \in {j \in 1..n : log[j].type \in {"CheckpointRecorded", "CustodyTransferred"}}}
  <2> DEFINE J(m) == {j \in 1..m : log[j].type \in {"CheckpointRecorded", "CustodyTransferred"}}
  <2>1. J(n) = IF log[n].type \in {"CheckpointRecorded", "CustodyTransferred"}
               THEN J(n - 1) \cup {n} ELSE J(n - 1)
    BY <1>1
  <2>2. /\ t.hist = {Indexed!RowOf(Log(i)) : i \in J(n - 1)}
        /\ u.hist = IF log[n].type \in {"CheckpointRecorded", "CustodyTransferred"}
                    THEN t.hist \cup {Indexed!RowOf(Log(n))} ELSE t.hist
    BY DEF Journalling, Fits
  <2> HIDE DEF J
  <2>3. u.hist = {Indexed!RowOf(Log(i)) : i \in J(n)}
    BY <2>1, <2>2
  <2>4. QED
    BY <2>3 DEF J
<1>6. ASSUME NEW j \in ProductIds, j # k PROVE ProductFits(u, j, n)
  <2>1. \A T : Upto(j, T, n) = Upto(j, T, n - 1)
    BY <1>6, UptoGrows
  <2>2. u.bind[j] = t.bind[j] /\ u.product[j] = t.product[j] /\ u.ship[j] = t.ship[j]
    BY <1>3, <1>6 DEF Elsewhere
  <2>3. ProductFits(t, j, n - 1)
    BY DEF Fits
  <2>4. QED
    BY <2>1, <2>2, <2>3 DEF ProductFits, RowFits, BindingFits
<1>7. /\ Upto(k, EventTypes, n) # {} /\ u.bind[k] # Unbound /\ u.product[k] \in Indexed!Product
      /\ ProductFits(t, k, n - 1)
  <2>1. Upto(k, EventTypes, n) # {}
    BY <1>2, UptoGrows
  <2>2. QED
    BY <1>2, <2>1 DEF Journalling, Fits
<1>8. RowFits(u, k, n)
  <2>1. CASE log[n].type = "ProductRegistered"
    <3>1. \A T : Upto(k, T, n - 1) = {}
      <4>1. Upto(k, EventTypes, n - 1) = {}
        BY <2>1, FittingIsReady
      <4>2. QED
        BY <1>1, <4>1, AllTypes DEF Upto
    <3>2. Upto(k, {"ProductRegistered"}, n) = {n} /\ Upto(k, {"ProductMetadataUpdated"}, n) = {}
      BY <2>1, <3>1, UptoGrows
    <3>3. QED
      BY <2>1, <3>2 DEF RowFits, Journalling
  <2>2. CASE log[n].type # "ProductRegistered"
    <3>1. Upto(k, EventTypes, n - 1) # {} /\ RowFits(t, k, n - 1)
      BY <1>7, <2>2, FittingIsReady DEF ProductFits
    <3>2. Upto(k, {"ProductRegistered"}, n) = Upto(k, {"ProductRegistered"}, n - 1)
      BY <2>2, UptoGrows
    <3>3. CASE log[n].type = "ProductMetadataUpdated"
      <4>1. /\ Upto(k, {"ProductMetadataUpdated"}, n)
                  = Upto(k, {"ProductMetadataUpdated"}, n - 1) \cup {n}
            /\ \A i \in Upto(k, {"ProductMetadataUpdated"}, n - 1) : i \in Nat /\ i < n
        BY <3>3, UptoGrows
      <4>2. \A i : IsLast(i, Upto(k, {"ProductMetadataUpdated"}, n)) => i = n
        BY <1>1, <4>1 DEF IsLast
      <4>3. QED
        BY <3>1, <3>2, <3>3, <4>1, <4>2 DEF RowFits, Journalling
    <3>4. CASE log[n].type # "ProductMetadataUpdated"
      <4>1. Upto(k, {"ProductMetadataUpdated"}, n) = Upto(k, {"ProductMetadataUpdated"}, n - 1)
        BY <3>4, UptoGrows
      <4>2. u.product[k] = t.product[k]
        BY <1>2, <2>2, <3>4 DEF Journalling, Handling, EventTypes
      <4>3. QED
        BY <3>1, <3>2, <4>1, <4>2 DEF RowFits
    <3>5. QED
      BY <3>3, <3>4
  <2>3. QED
    BY <2>1, <2>2
<1>9. BindingFits(u, k, n)
  <2>1. /\ StatusFor(t, k) = IF Upto(k, EventTypes, n - 1) = {} THEN 0 ELSE t.bind[k].status
        /\ HandlerFor(t, k) = IF Upto(k, EventTypes, n - 1) = {} THEN Nobody ELSE t.bind[k].handler
    BY FittingIsReady DEF StatusFor, HandlerFor
  <2>2. Upto(k, EventTypes, n - 1) = {} => \A T : Upto(k, T, n - 1) = {}
    BY <1>1, AllTypes DEF Upto
  <2>3. /\ \A i \in Upto(k, Handling, n - 1) :
               IsLast(i, Upto(k, Handling, n - 1)) => HandlerFor(t, k) = log[i].who
        /\ Upto(k, Handling, n - 1) = {} => HandlerFor(t, k) = Nobody
        /\ \A i \in Upto(k, Progress, n - 1) :
               IsLast(i, Upto(k, Progress, n - 1)) => StatusFor(t, k) = StatusOf(i)
        /\ Upto(k, Progress, n - 1) = {} => StatusFor(t, k) = 0
    BY <1>7, <2>1, <2>2 DEF ProductFits, BindingFits
  <2>4. \A T : log[n].type \in T =>
                  n \in Upto(k, T, n) /\ \A i : IsLast(i, Upto(k, T, n)) => i = n
    BY <1>1, UptoGrows DEF IsLast
  <2>5. \A T : log[n].type \notin T => Upto(k, T, n) = Upto(k, T, n - 1)
    BY UptoGrows
  <2>6. /\ \A i \in Upto(k, Handling, n) :
               IsLast(i, Upto(k, Handling, n)) => u.bind[k].handler = log[i].who
        /\ Upto(k, Handling, n) = {} => u.bind[k].handler = Nobody
    <3>1. CASE log[n].type \in Handling
      BY <2>4, <3>1 DEF Journalling
    <3>2. CASE log[n].type \notin Handling
      BY <2>3, <2>5, <3>2 DEF Journalling
    <3>3. QED
      BY <3>1, <3>2
  <2>7. /\ \A i \in Upto(k, Progress, n) :
               IsLast(i, Upto(k, Progress, n)) => u.bind[k].status = StatusOf(i)
        /\ Upto(k, Progress, n) = {} => u.bind[k].status = 0
    <3>1. CASE log[n].type \in Progress
      <4>1. u.bind[k].status = StatusOf(n)
        BY <3>1 DEF Journalling, StatusOf, Progress
      <4>2. QED
        BY <2>4, <3>1, <4>1
    <3>2. CASE log[n].type \notin Progress
      <4>1. u.bind[k].status = StatusFor(t, k)
        BY <3>2 DEF Journalling, Progress
      <4>2. QED
        BY <2>3, <2>5, <3>2, <4>1
    <3>3. QED
      BY <3>1, <3>2
  <2>8. QED
    BY <2>6, <2>7 DEF BindingFits, Journalling
<1>10. QED
  BY <1>3, <1>4, <1>5, <1>6, <1>7, <1>8, <1>9 DEF Fits, ProductFits

\* After n logs the tables are what those logs tell.
LEMMA JournalledFits ==
    ASSUME TrackerIInv
    PROVE  \A n \in 0..Len(log) : Fits(Journalled[n], n)
<1>1. log \in Seq(Event) /\ Len(log) \in Nat /\ DOMAIN log = 1..Len(log)
  BY TrackerIInvIs DEF TrackerTypeOK
<1> DEFINE Unfit == {n \in 0..Len(log) : ~Fits(Journalled[n], n)}
<1> SUFFICES ASSUME Unfit # {} PROVE FALSE
  OBVIOUS
<1>2. PICK n \in Unfit : \A m \in Unfit : n <= m
  <2>1. Unfit \in SUBSET Nat
    BY <1>1
  <2>2. QED
    BY <2>1, LeastOf
<1>3. CASE n = 0
  BY <1>1, <1>2, <1>3, BeforeFits, JournalledUnfolds
<1>4. CASE n # 0
  <2>1. n \in DOMAIN log /\ n - 1 \in 0..Len(log) /\ n - 1 \notin Unfit
    BY <1>1, <1>2, <1>4
  <2>2. Fits(Journalled[n - 1], n - 1)
    BY <2>1
  <2>3. Journalling(Journalled[n - 1], Indexed!Journal(Journalled[n - 1], Log(n)), n)
    <3>1. Journalled[n - 1] \in Shape
      BY <2>2 DEF Fits
    <3>2. QED
      BY <2>1, <2>2, <3>1, FittingIsReady, JournallingOf
  <2>4. Journalled[n] = Indexed!Journal(Journalled[n - 1], Log(n))
    BY <1>1, <2>1, JournalledUnfolds
  <2>5. Fits(Journalled[n], n)
    BY <2>1, <2>2, <2>3, <2>4, FitsGoesOn
  <2>6. QED
    BY <1>2, <2>5
<1>5. QED
  BY <1>3, <1>4
\* Among some positions one is the last.
LEMMA LastExists ==
    ASSUME log \in Seq(Event), NEW k, NEW T, Positions(k, T) # {}
    PROVE  \E j : IsLast(j, Positions(k, T))
<1> DEFINE Back == {Len(log) - i : i \in Positions(k, T)}
<1>1. Len(log) \in Nat /\ \A i \in Positions(k, T) : i \in Nat /\ i <= Len(log)
  BY PositionsAre
<1>2. Back \in SUBSET Nat /\ Back # {}
  BY <1>1
<1>3. PICK b \in Back : \A c \in Back : b <= c
  BY <1>2, LeastOf
<1>4. PICK j \in Positions(k, T) : b = Len(log) - j
  BY <1>3
<1>5. \A i \in Positions(k, T) : Len(log) - j <= Len(log) - i
  BY <1>3, <1>4
<1>6. QED
  BY <1>1, <1>4, <1>5 DEF IsLast
----------------------------------------------------------------------------
(* What is promised of the projection.                                     *)

LEMMA FittingIsTaken ==
    ASSUME TrackerIInv, NEW n \in DOMAIN log, NEW t, Fits(t, n - 1)
    PROVE  Indexed!CanJournal(t, Log(n))
<1>1. Log(n).key = log[n].key /\ Log(n).type = log[n].type
  BY LogTyped
<1>2. /\ \A p \in t.canonical : p.id # Log(n).id
      /\ t.bind[log[n].key] = Unbound =>
            log[n].type = "ProductRegistered" /\ t.product[log[n].key] = NoProduct
      /\ \A r \in t.hist : r.id # Log(n).id
  BY FittingIsReady
<1>3. Indexed!CanBind(t, Log(n))
  BY <1>1, <1>2 DEF Indexed!CanBind, Indexed!Adoptable
<1>4. Indexed!Agrees(t, Log(n))
  BY <1>2 DEF Indexed!Agrees
<1>5. QED
  BY <1>2, <1>3, <1>4 DEF Indexed!CanJournal, Indexed!CanProject

LEMMA NoLogIsRefused == TrackerIInv => NeverRefused
<1> SUFFICES ASSUME TrackerIInv, NEW n \in DOMAIN log
             PROVE  Indexed!CanJournal(Journalled[n - 1], Log(n))
  BY DEF NeverRefused
<1>1. Fits(Journalled[n - 1], n - 1)
  <2>1. n - 1 \in 0..Len(log)
    BY TrackerIInvIs DEF TrackerTypeOK
  <2>2. QED
    BY <2>1, JournalledFits
<1>2. QED
  BY <1>1, FittingIsTaken

\* The indexer never refuses a log of the contracts, whatever calls are made.
THEOREM LogsAreNeverRefused == Spec => []NeverRefused
BY InitTracker, NextTracker, NoLogIsRefused, PTL DEF Spec

\* As many rows of history as checkpoints.
LEMMA RowsOfCheckpoints ==
    ASSUME TrackerIInv, NEW k \in ProductIds, NEW t, Fits(t, Len(log))
    PROVE  Cardinality({r \in t.hist : r.key = k /\ r.type = "CheckpointRecorded"})
              = Len(productHistory[k])
<1> DEFINE P == Positions(k, {"CheckpointRecorded"})
           R == {r \in t.hist : r.key = k /\ r.type = "CheckpointRecorded"}
<1>1. log \in Seq(Event) /\ Len(log) \in Nat /\ DOMAIN log = 1..Len(log)
  BY TrackerIInvIs DEF TrackerTypeOK
<1>2. IsFiniteSet(P) /\ Cardinality(P) = Len(productHistory[k])
  BY <1>1, TrackerIInvIs, PositionsFinite DEF ProductInv, HistoryReflected
<1>3. \A i \in DOMAIN log :
         /\ Indexed!RowOf(Log(i)).id = i /\ Indexed!RowOf(Log(i)).key = log[i].key
         /\ Indexed!RowOf(Log(i)).type = log[i].type
  BY LogTyped DEF Indexed!RowOf
<1>4. R = {Indexed!RowOf(Log(i)) : i \in P}
  BY <1>1, <1>3 DEF Fits, Positions
<1> DEFINE f == [i \in P |-> Indexed!RowOf(Log(i))]
<1>5. f \in Bijection(P, R)
  <2>1. P \subseteq DOMAIN log
    BY DEF Positions
  <2> HIDE DEF P, R
  <2>2. f \in Injection(P, R)
    BY <1>3, <1>4, <2>1 DEF Injection, IsInjective
  <2>3. f \in Surjection(P, R)
    BY <1>4 DEF Surjection
  <2>4. QED
    BY <2>2, <2>3 DEF Bijection
<1>6. Cardinality(R) = Cardinality(P)
  BY <1>2, <1>5, FS_Bijection DEF ExistsBijection
<1>7. QED
  BY <1>2, <1>6

LEMMA NoCheckpoints ==
    ASSUME TrackerTypeOK, NEW k \in ProductIds, HistoryReflected(k),
           Positions(k, {"CheckpointRecorded"}) = {}
    PROVE  productHistory[k] = <<>>
<1>1. productHistory[k] \in Seq(Checkpoint)
  BY DEF TrackerTypeOK
<1>2. ~ \E j : j \in DOMAIN productHistory[k]
  BY DEF HistoryReflected
<1>3. Len(productHistory[k]) = 0
  <2>1. Len(productHistory[k]) \in Nat /\ DOMAIN productHistory[k] = 1..Len(productHistory[k])
    BY ONLY <1>1, LenProperties
  <2>2. 1 \notin 1..Len(productHistory[k])
    BY ONLY <1>2, <2>1
  <2>3. QED
    BY ONLY <2>1, <2>2
<1>4. QED
  BY <1>1, <1>3, EmptySeq

LEMMA FittingShowsContract == TrackerIInv => ProjectionShowsContract
<1> SUFFICES ASSUME TrackerIInv, NEW k \in ProductIds, isProductRegistered(k)
             PROVE  LET t == Journalled[Len(log)] IN
                    /\ t.product[k].owner = products[k].manufacturer
                    /\ t.product[k].name = products[k].name
                    /\ t.product[k].uri = products[k].metadataURI
                    /\ t.bind[k].handler = IF currentHandler[k] = Zero THEN Nobody
                                           ELSE currentHandler[k]
                    /\ t.bind[k].status = IF productHistory[k] = <<>> THEN Created
                                          ELSE Last(productHistory[k]).status
                    /\ t.ship[k] = t.bind[k].status
                    /\ Cardinality({r \in t.hist : r.key = k /\ r.type = "CheckpointRecorded"})
                          = Len(productHistory[k])
  BY DEF ProjectionShowsContract
<1> DEFINE t == Journalled[Len(log)]
<1>1. /\ log \in Seq(Event) /\ Len(log) \in Nat /\ DOMAIN log = 1..Len(log)
      /\ TrackerTypeOK /\ ProductInv(k)
  BY TrackerIInvIs DEF TrackerTypeOK
<1>2. Fits(t, Len(log))
  BY <1>1, JournalledFits
<1> HIDE DEF t
<1>3. \A T : Upto(k, T, Len(log)) = Positions(k, T)
  BY <1>1, PositionsAre DEF Upto
<1>4. PICK i \in Positions(k, {"ProductRegistered"}) :
            log[i].who = products[k].manufacturer /\ log[i].text = products[k].name
  BY <1>1 DEF ProductInv, Reflected
<1>5. RowFits(t, k, Len(log)) /\ BindingFits(t, k, Len(log))
  <2>1. Positions(k, EventTypes) # {}
    BY <1>1, <1>4, AllTypes
  <2>2. QED
    BY <1>2, <1>3, <2>1 DEF Fits, ProductFits
<1>6. \A T : Positions(k, T) # {} => \E j : IsLast(j, Positions(k, T))
  BY <1>1, LastExists
<1>7. t.product[k].owner = products[k].manufacturer /\ t.product[k].name = products[k].name
  BY <1>3, <1>4, <1>5 DEF RowFits
<1>8. t.product[k].uri = products[k].metadataURI
  <2>1. CASE Positions(k, {"ProductMetadataUpdated"}) = {}
    <3>1. t.product[k].uri = getProduct(k, log[i].block).metadataURI
      BY <1>3, <1>4, <1>5, <2>1 DEF RowFits
    <3>2. getProduct(k, log[i].block) = products[k]
      <4>1. log[i].block \in 1..MaxBlocks
        BY <1>1, <1>4, PositionsAre DEF Event, EventData
      <4>2. log[i].block < BlockNumber => log[i].block \in DOMAIN ended
        BY <1>1, <4>1 DEF TrackerTypeOK, BlockNumber
      <4>3. log[i].block < BlockNumber => ended[log[i].block][k] = products[k]
        BY <1>1, <1>4, <2>1, <4>1, <4>2 DEF ProductInv, UriReflected
      <4>4. QED
        BY <4>3 DEF getProduct
    <3>3. QED
      BY <3>1, <3>2
  <2>2. CASE Positions(k, {"ProductMetadataUpdated"}) # {}
    <3>1. PICK j : IsLast(j, Positions(k, {"ProductMetadataUpdated"}))
      BY <1>6, <2>2
    <3>2. products[k].metadataURI = log[j].text
      BY <1>1, <3>1 DEF ProductInv, UriReflected, IsLast
    <3>3. t.product[k].uri = log[j].text
      BY <1>3, <1>5, <3>1 DEF RowFits, IsLast
    <3>4. QED
      BY <3>2, <3>3
  <2>3. QED
    BY <2>1, <2>2
<1>9. t.bind[k].handler = IF currentHandler[k] = Zero THEN Nobody ELSE currentHandler[k]
  <2>1. CASE Positions(k, Handling) = {}
    <3>1. t.bind[k].handler = Nobody
      BY <1>3, <1>5, <2>1 DEF BindingFits
    <3>2. currentHandler[k] = Zero
      <4>1. Positions(k, {"CheckpointRecorded"}) = {}
        BY <2>1 DEF Positions, Handling
      <4>3. productHistory[k] = <<>>
        BY <1>1, <4>1, NoCheckpoints DEF ProductInv
      <4>4. QED
        BY <1>1, <4>3 DEF TrackerTypeOK
    <3>3. QED
      BY <3>1, <3>2
  <2>2. CASE Positions(k, Handling) # {}
    <3>1. PICK j : IsLast(j, Positions(k, Handling))
      BY <1>6, <2>2
    <3>2. currentHandler[k] = log[j].who
      BY <1>1, <3>1 DEF ProductInv, Reflected, IsLast
    <3>3. t.bind[k].handler = log[j].who
      BY <1>3, <1>5, <3>1 DEF BindingFits, IsLast
    <3>4. currentHandler[k] # Zero
      BY <1>1, <2>2 DEF ProductInv, Reflected
    <3>5. QED
      BY <3>2, <3>3, <3>4
  <2>3. QED
    BY <2>1, <2>2
<1>10. t.bind[k].status = IF productHistory[k] = <<>> THEN Created
                          ELSE Last(productHistory[k]).status
  <2>1. CASE Positions(k, Progress) = {}
    <3>1. t.bind[k].status = 0
      BY <1>3, <1>5, <2>1 DEF BindingFits
    <3>2. Positions(k, {"CheckpointRecorded"}) = {}
      BY <2>1 DEF Positions, Progress
    <3>4. productHistory[k] = <<>>
      BY <1>1, <3>2, NoCheckpoints DEF ProductInv
    <3>5. QED
      BY <3>1, <3>4 DEF Created
  <2>2. CASE Positions(k, Progress) # {}
    <3>1. PICK j : IsLast(j, Positions(k, Progress))
      BY <1>6, <2>2
    <3>2. Last(productHistory[k]).status = log[j].status
      BY <1>1, <3>1 DEF ProductInv, HistoryReflected, IsLast, Progress
    <3>3. t.bind[k].status = StatusOf(j)
      BY <1>3, <1>5, <3>1 DEF BindingFits, IsLast
    <3>4. log[j].type # "DeliveryCompleted"
      <4> SUFFICES ASSUME log[j].type = "DeliveryCompleted" PROVE FALSE
        OBVIOUS
      <4>1. j \in Positions(k, {"DeliveryCompleted"}) /\ j \in Nat
        BY <1>1, <3>1, PositionsAre DEF IsLast, Positions
      <4>2. /\ j + 1 \in DOMAIN log
            /\ log[j + 1] = [log[j] EXCEPT !.type = "CheckpointRecorded", !.text = log[j + 1].text]
        BY <1>1, <4>1 DEF ProductInv, DeliveryOf, Completed
      <4>3. log[j + 1].type = "CheckpointRecorded" /\ log[j + 1].key = k
        <5>1. log[j] \in Event /\ log[j].key = k
          BY <1>1, <4>1, PositionsAre
        <5>2. QED
          BY <4>2, <5>1 DEF Event, EventData
      <4>4. j + 1 \in Positions(k, Progress)
        BY <4>2, <4>3 DEF Positions, Progress
      <4>5. QED
        BY <3>1, <4>1, <4>4 DEF IsLast
    <3>5. productHistory[k] # <<>>
      <4>1. Positions(k, Handling) # {}
        BY <2>2 DEF Positions, Progress, Handling
      <4>2. currentHandler[k] # Zero
        BY <1>1, <4>1 DEF ProductInv, Reflected
      <4>3. QED
        BY <1>1, <4>2 DEF TrackerTypeOK
    <3>6. QED
      BY <3>2, <3>3, <3>4, <3>5 DEF StatusOf
  <2>3. QED
    BY <2>1, <2>2
<1>11. t.ship[k] = t.bind[k].status
  BY <1>5 DEF BindingFits
<1>12. Cardinality({r \in t.hist : r.key = k /\ r.type = "CheckpointRecorded"})
          = Len(productHistory[k])
  BY <1>2, RowsOfCheckpoints
<1>13. QED
  BY <1>7, <1>8, <1>9, <1>10, <1>11, <1>12 DEF t

\* What is indexed is what the contracts hold, whatever calls are made, in
\* whatever order, and however they share blocks.
THEOREM ContractIsShown == Spec => []ProjectionShowsContract
BY InitTracker, NextTracker, FittingShowsContract, PTL DEF Spec
=============================================================================
