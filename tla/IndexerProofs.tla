---------------------------- MODULE IndexerProofs ----------------------------
(***************************************************************************)
(* The theorems about Indexer.tla and Lifecycle.tla, in four parts.        *)
(*                                                                         *)
(* 1. Types: every table a worker builds or commits is one the schema      *)
(*    admits (TypeInv).                                                    *)
(* 2. The journal: it is exact and implements Ledger.tla (IInv, LedgerInv).*)
(* 3. The tables: they are what the journal says (HistoryInv, AdoptionInv, *)
(*    ShowsInv).                                                           *)
(* 4. The handlers' rows, written between the indexer's steps.             *)
(***************************************************************************)
EXTENDS Lifecycle, TLAPS

----------------------------------------------------------------------------
(***************************************************************************)
(* Type correctness of Indexer.tla: every table a worker builds or commits *)
(* is one the schema admits, and whatever is journalled has its binding    *)
(* and its product row (Bound), so that _project and _rewind never read a  *)
(* row that is missing.                                                    *)
(***************************************************************************)

----------------------------------------------------------------------------
(* What the operators of Chain.tla and Projection.tla return and keep.     *)

\* A branch has one block at every height up to that of its last block.
LEMMA BlockAt ==
    ASSUME NEW b \in Blocks, NEW n \in Nat, n <= Height[b]
    PROVE  At(b, n) \in Blocks /\ At(b, n) \in Path[b] /\ Height[At(b, n)] = n
<1>1. \E c \in Path[b] : Height[c] = n
  BY TreeAssumption
<1>2. At(b, n) \in Path[b] /\ Height[At(b, n)] = n
  BY <1>1 DEF At
<1>3. QED
  BY <1>2, TreeAssumption

\* A branch holds the whole branch of each of its blocks.
LEMMA PathOfMember ==
    ASSUME NEW b \in Blocks, NEW c \in Path[b]
    PROVE  /\ c \in Blocks
           /\ Height[c] <= Height[b]
           /\ Path[c] = {d \in Path[b] : Height[d] <= Height[c]}
BY TreeAssumption

\* The blocks of one branch are ordered by height.
LEMMA LowerIsAncestor ==
    ASSUME NEW b \in Blocks, NEW c \in Path[b], NEW d \in Path[b], Height[c] <= Height[d]
    PROVE  c \in Path[d]
BY PathOfMember

\* The logs of a branch up to one of its blocks are those of that block's
\* own branch.
LEMMA LogsOfMember ==
    ASSUME NEW b \in Blocks, NEW c \in Path[b], NEW lo \in Nat
    PROVE  LogsOn(b, lo, Height[c]) = LogsOn(c, lo, Height[c])
BY PathOfMember DEF LogsOn

\* A branch's logs up to one of its blocks, and above it.
LEMMA LogsSplit ==
    ASSUME NEW b \in Blocks, NEW c \in Path[b], NEW lo \in Nat, lo <= Height[c]
    PROVE  LogsOn(b, lo, Height[b]) =
              LogsOn(c, lo, Height[c]) \cup LogsOn(b, Height[c], Height[b])
<1>1. Height[c] \in Nat /\ Height[b] \in Nat /\ Height[c] <= Height[b]
  BY PathOfMember, TreeAssumption
<1>2. \A o \in Logs : Height[o.block] \in Nat
  BY TreeAssumption, LogAssumption
<1>3. LogsOn(c, lo, Height[c]) = LogsOn(b, lo, Height[c])
  BY LogsOfMember
<1>4. QED
  BY <1>1, <1>2, <1>3 DEF LogsOn

----------------------------------------------------------------------------
\* A log's fields have the types the tables need.
LEMMA LogFields ==
    ASSUME NEW o \in Logs
    PROVE  /\ o.block \in Blocks /\ o.key \in Keys /\ o.type \in EventTypes
           /\ Height[o.block] \in Nat /\ o.id \in EventIds /\ o.tx \in Txs
BY TreeAssumption, LogAssumption, ProjectionAssumption

LEMMA BaselineTyped ==
    ASSUME NEW p \in Product \cup {NoProduct}, NEW o \in Logs, o.type = "ProductRegistered"
    PROVE  Baseline(p, o) \in Product
<1>1. CASE p = NoProduct
  BY <1>1, ProjectionAssumption DEF Baseline, Placeholder, Product, Sources, Registrations
<1>2. CASE p # NoProduct
  BY <1>2 DEF Baseline, Product, Sources, Registrations
<1>3. QED
  BY <1>1, <1>2

\* Two states of the tables that differ in the projection only.
SameJournal(t, u) ==
    /\ t.start = u.start /\ t.cursor = u.cursor /\ t.anchors = u.anchors
    /\ t.canonical = u.canonical /\ t.orphaned = u.orphaned

\* u is t with the projection of product k changed, which is bound in u.
Touches(u, t, k) ==
    /\ u \in Tables
    /\ u.bind[k] \in Binding /\ u.product[k] \in Product
    /\ \A j \in Keys \ {k} : u.bind[j] = t.bind[j] /\ u.product[j] = t.product[j]
    /\ SameJournal(u, t)

\* _binding leaves the product bound, and touches nothing of the journal.
LEMMA BindTyped ==
    ASSUME NEW t \in Tables, NEW o \in Logs, CanBind(t, o),
           t.bind[o.key] # Unbound => t.product[o.key] # NoProduct
    PROVE  Touches(Bind(t, o), t, o.key)
<1>0. o.key \in Keys
  BY LogFields
<1>1. CASE t.bind[o.key] # Unbound
  BY <1>0, <1>1 DEF Bind, Tables, SameJournal, Touches
<1>2. CASE t.bind[o.key] = Unbound
  <2>1. o.type = "ProductRegistered"
    BY <1>2 DEF CanBind
  <2> DEFINE was == t.product[o.key]
             base == Baseline(was, o)
             bound == [base |-> base, status |-> 0, handler |-> Nobody]
             row == IF was = NoProduct THEN base ELSE was
  <2>2. was \in Product \cup {NoProduct}
    BY <1>0 DEF Tables
  <2>3. base \in Product
    BY <2>1, <2>2, BaselineTyped
  <2>4. bound \in Binding
    BY <2>3 DEF Binding, Statuses
  <2>5. row \in Product
    BY <2>2, <2>3
  <2>6. Bind(t, o) = [t EXCEPT !.bind[o.key] = bound, !.product[o.key] = row]
    BY <1>2 DEF Bind
  <2> HIDE DEF bound, row
  <2>7. Bind(t, o) \in Tables
    <3>1. [t.bind EXCEPT ![o.key] = bound] \in [Keys -> Binding \cup {Unbound}]
      BY <2>4 DEF Tables
    <3>2. [t.product EXCEPT ![o.key] = row] \in [Keys -> Product \cup {NoProduct}]
      BY <2>5 DEF Tables
    <3>3. Bind(t, o) = [t EXCEPT !.bind = [t.bind EXCEPT ![o.key] = bound],
                                 !.product = [t.product EXCEPT ![o.key] = row]]
      BY <2>6 DEF Tables
    <3>4. QED
      BY <3>1, <3>2, <3>3 DEF Tables
  <2>8. SameJournal(Bind(t, o), t)
    BY <2>6 DEF Tables, SameJournal
  <2>9. Bind(t, o).bind[o.key] = bound /\ Bind(t, o).product[o.key] = row
    BY <1>0, <2>6 DEF Tables
  <2>10. \A k \in Keys \ {o.key} : /\ Bind(t, o).bind[k] = t.bind[k]
                                    /\ Bind(t, o).product[k] = t.product[k]
    BY <1>0, <2>6 DEF Tables
  <2>11. QED
    BY <2>4, <2>5, <2>7, <2>8, <2>9, <2>10 DEF Touches
<1>3. QED
  BY <1>1, <1>2

LEMMA WithProduct ==
    ASSUME NEW t \in Tables, NEW k \in Keys, NEW p \in Product, t.bind[k] \in Binding
    PROVE  Touches([t EXCEPT !.product[k] = p], t, k)
<1> DEFINE u == [t EXCEPT !.product[k] = p]
<1>1. [t.product EXCEPT ![k] = p] \in [Keys -> Product \cup {NoProduct}]
  BY DEF Tables
<1>2. u = [t EXCEPT !.product = [t.product EXCEPT ![k] = p]]
  BY DEF Tables
<1>3. u \in Tables
  BY <1>1, <1>2 DEF Tables
<1>4. u.bind = t.bind /\ u.product = [t.product EXCEPT ![k] = p]
  BY <1>2 DEF Tables
<1>5. u.product[k] = p /\ \A j \in Keys \ {k} : u.product[j] = t.product[j]
  BY <1>4 DEF Tables
<1>6. SameJournal(u, t)
  BY <1>2 DEF Tables, SameJournal
<1> HIDE DEF u
<1>7. Touches(u, t, k)
  BY <1>3, <1>4, <1>5, <1>6 DEF Touches
<1>8. QED
  BY <1>7 DEF u

LEMMA WithBinding ==
    ASSUME NEW t \in Tables, NEW k \in Keys, NEW b \in Binding, NEW h \in SUBSET Row,
           t.product[k] \in Product
    PROVE  Touches([t EXCEPT !.bind[k] = b, !.hist = h], t, k)
<1> DEFINE u == [t EXCEPT !.bind[k] = b, !.hist = h]
<1>1. [t.bind EXCEPT ![k] = b] \in [Keys -> Binding \cup {Unbound}]
  BY DEF Tables
<1>2. u = [t EXCEPT !.bind = [t.bind EXCEPT ![k] = b], !.hist = h]
  BY DEF Tables
<1>3. u \in Tables
  BY <1>1, <1>2 DEF Tables
<1>4. u.product = t.product /\ u.bind = [t.bind EXCEPT ![k] = b]
  BY <1>2 DEF Tables
<1>5. u.bind[k] = b /\ \A j \in Keys \ {k} : u.bind[j] = t.bind[j]
  BY <1>4 DEF Tables
<1>6. SameJournal(u, t)
  BY <1>2 DEF Tables, SameJournal
<1> HIDE DEF u
<1>7. Touches(u, t, k)
  BY <1>3, <1>4, <1>5, <1>6 DEF Touches
<1>8. QED
  BY <1>7 DEF u

\* The effect of a log stays within its product's projection.
LEMMA EffectTyped ==
    ASSUME NEW t \in Tables, NEW o \in Logs,
           t.bind[o.key] \in Binding, t.product[o.key] \in Product
    PROVE  Touches(Effect(t, o), t, o.key)
<1> DEFINE k == o.key
<1>0. k \in Keys
  BY LogFields
<1>1. CASE o.type = "ProductRegistered"
  <2> DEFINE p == [name |-> o.name, uri |-> o.uri, owner |-> o.who,
                   source |-> "chain_event", reg |-> "indexed",
                   height |-> Height[o.block], tx |-> o.tx]
  <2>1. p \in Product
    BY <1>1, LogFields, ProjectionAssumption DEF Product, Sources, Registrations
  <2>2. Effect(t, o) = [t EXCEPT !.product[k] = p]
    BY <1>1 DEF Effect, Registered
  <2> HIDE DEF p
  <2>3. QED
    BY <1>0, <2>1, <2>2, WithProduct
<1>2. CASE o.type = "ProductMetadataUpdated"
  <2> DEFINE p == [t.product[k] EXCEPT !.uri = o.uri]
  <2>1. p \in Product
    BY <1>2, ProjectionAssumption DEF Product
  <2>2. Effect(t, o) = [t EXCEPT !.product[k] = p]
    BY <1>0, <1>2 DEF Effect, MetadataUpdated, Tables
  <2> HIDE DEF p
  <2>3. QED
    BY <1>0, <2>1, <2>2, WithProduct
<1>3. CASE o.type = "CheckpointRecorded"
  <2> DEFINE b == [t.bind[k] EXCEPT !.status = o.status, !.handler = o.who]
             h == t.hist \cup {RowOf(o)}
  <2>1. b \in Binding
    BY <1>3, ProjectionAssumption DEF Binding
  <2>2. h \in SUBSET Row
    BY LogFields DEF Tables, RowOf, Row
  <2>3. Effect(t, o) = [t EXCEPT !.bind[k] = b, !.hist = h]
    BY <1>0, <1>3 DEF Effect, CheckpointRecorded, Tables
  <2> HIDE DEF b, h
  <2>4. Touches([t EXCEPT !.bind[k] = b, !.hist = h], t, k)
    BY ONLY <1>0, <2>1, <2>2, WithBinding, t \in Tables, t.product[k] \in Product
  <2>5. QED
    BY ONLY <2>3, <2>4
<1>4. CASE o.type = "CustodyTransferred"
  <2> DEFINE b == [t.bind[k] EXCEPT !.handler = o.who]
             h == t.hist \cup {RowOf(o)}
  <2>0. o.who \in Addresses
    BY <1>4, ProjectionAssumption
  <2>1. b \in Binding
    BY <2>0 DEF Binding
  <2>2. h \in SUBSET Row
    BY LogFields DEF Tables, RowOf, Row
  <2>3. Effect(t, o) = [t EXCEPT !.bind[k] = b, !.hist = h]
    BY <1>0, <1>4 DEF Effect, CustodyTransferred, Tables
  <2> HIDE DEF b, h
  <2>4. Touches([t EXCEPT !.bind[k] = b, !.hist = h], t, k)
    BY ONLY <1>0, <2>1, <2>2, WithBinding, t \in Tables, t.product[k] \in Product
  <2>5. QED
    BY ONLY <2>3, <2>4
<1>5. CASE o.type = "DeliveryCompleted"
  <2> DEFINE b == [t.bind[k] EXCEPT !.status = 3, !.handler = o.who]
  <2>0. o.who \in Addresses /\ 3 \in Statuses
    BY <1>5, ProjectionAssumption DEF Statuses
  <2>1. b \in Binding
    BY <2>0 DEF Binding
  <2>2. Effect(t, o) = [t EXCEPT !.bind[k] = b, !.hist = t.hist]
    BY <1>0, <1>5 DEF Effect, DeliveryCompleted, Tables
  <2>3. t.hist \in SUBSET Row
    BY DEF Tables
  <2> HIDE DEF b
  <2>4. Touches([t EXCEPT !.bind[k] = b, !.hist = t.hist], t, k)
    BY <1>0, <2>1, <2>3, WithBinding
  <2>5. QED
    BY <2>2, <2>4
<1>6. QED
  BY <1>1, <1>2, <1>3, <1>4, <1>5, LogFields DEF EventTypes

LEMMA FollowTyped ==
    ASSUME NEW t \in Tables, NEW k \in Keys, t.bind[k] \in Binding, t.product[k] \in Product
    PROVE  Touches(FollowShipment(t, k), t, k)
<1> DEFINE s == IF t.ship[k] = NoShipment THEN NoShipment ELSE t.bind[k].status
<1>1. s \in Statuses \cup {NoShipment}
  BY DEF Binding
<1>2. [t.ship EXCEPT ![k] = s] \in [Keys -> Statuses \cup {NoShipment}]
  BY <1>1 DEF Tables
<1>3. FollowShipment(t, k) = [t EXCEPT !.ship = [t.ship EXCEPT ![k] = s]]
  BY DEF FollowShipment, Tables
<1> DEFINE u == FollowShipment(t, k)
<1>4. u \in Tables /\ u.bind = t.bind /\ u.product = t.product /\ SameJournal(u, t)
  BY <1>2, <1>3 DEF Tables, SameJournal
<1> HIDE DEF u
<1>5. Touches(u, t, k)
  BY <1>4 DEF Touches
<1>6. QED
  BY <1>5 DEF u

\* _project changes one product's projection and nothing of the journal.
LEMMA ProjectTyped ==
    ASSUME NEW t \in Tables, NEW o \in Logs, CanProject(t, o),
           t.bind[o.key] # Unbound => t.product[o.key] # NoProduct
    PROVE  Touches(Project(t, o), t, o.key)
<1>0. o.key \in Keys
  BY LogFields
<1> DEFINE u == Bind(t, o)
           v == Effect(u, o)
<1>1. Touches(u, t, o.key)
  BY BindTyped DEF CanProject
<1>2. Touches(v, u, o.key)
  BY <1>1, EffectTyped DEF Touches
<1>3. Touches(FollowShipment(v, o.key), v, o.key)
  BY <1>0, <1>2, FollowTyped DEF Touches
<1>4. Project(t, o) = FollowShipment(v, o.key)
  BY DEF Project
<1> HIDE DEF u, v
<1>5. QED
  BY <1>1, <1>2, <1>3, <1>4 DEF Touches, SameJournal

----------------------------------------------------------------------------
(* The operators on the tables keep Bound.                                 *)

\* A projected log changes nothing of the journal.
LEMMA ProjectStep ==
    ASSUME NEW t \in Tables, NEW o \in Logs, CanProject(t, o), Bound(t)
    PROVE  /\ Project(t, o) \in Tables
           /\ Bound(Project(t, o))
           /\ SameJournal(Project(t, o), t)
           /\ Project(t, o).bind[o.key] # Unbound
<1> DEFINE u == Project(t, o)
<1>0. o.key \in Keys
  BY LogFields
<1>1. Touches(u, t, o.key)
  BY <1>0, ProjectTyped DEF Bound
<1> HIDE DEF u
<1>2. u.bind[o.key] # Unbound /\ u.product[o.key] # NoProduct
  BY <1>1, ProjectionAssumption DEF Touches
<1>3. \A k \in Keys : u.bind[k] # Unbound => u.product[k] # NoProduct
  BY <1>1, <1>2 DEF Touches, Bound
<1>4. \A p \in t.canonical : p.key \in Keys
  BY LogFields DEF Tables
<1>5. \A p \in u.canonical : u.bind[p.key] # Unbound
  BY <1>1, <1>2, <1>4 DEF Touches, SameJournal, Bound
<1>6. u \in Tables /\ Bound(u) /\ SameJournal(u, t) /\ u.bind[o.key] # Unbound
  BY <1>1, <1>2, <1>3, <1>5 DEF Touches, Bound
<1>7. QED
  BY <1>6 DEF u

\* A journalled log joins the canonical logs, once.
LEMMA JournalStep ==
    ASSUME NEW t \in Tables, NEW o \in Logs, CanJournal(t, o), Bound(t)
    PROVE  /\ Journal(t, o) \in Tables
           /\ Bound(Journal(t, o))
           /\ Journal(t, o).canonical = t.canonical \cup {o}
           /\ Journal(t, o).start = t.start
           /\ Journal(t, o).cursor = t.cursor
           /\ Journal(t, o).anchors = t.anchors
<1>1. CASE o \in t.canonical
  <2>1. Journal(t, o) = t
    BY <1>1 DEF Journal
  <2>2. QED
    BY <1>1, <2>1
<1>2. CASE o \notin t.canonical
  <2> DEFINE marked == [t EXCEPT !.canonical = @ \cup {o}, !.orphaned = @ \ {o}]
             u == Project(marked, o)
  <2>0. o.key \in Keys
    BY LogFields
  <2>1. marked \in Tables
    BY DEF Tables
  <2>2. /\ marked.bind = t.bind /\ marked.product = t.product /\ marked.hist = t.hist
        /\ marked.canonical = t.canonical \cup {o}
        /\ marked.start = t.start /\ marked.cursor = t.cursor /\ marked.anchors = t.anchors
    BY DEF Tables
  <2>3. Journal(t, o) = u
    BY <1>2 DEF Journal
  <2>4. CanProject(t, o)
    BY <1>2 DEF CanJournal
  <2> HIDE DEF marked
  <2>5. CanProject(marked, o)
    BY <2>2, <2>4 DEF CanProject, CanBind, Adoptable, Agrees
  <2>6. marked.bind[o.key] # Unbound => marked.product[o.key] # NoProduct
    BY <2>0, <2>2 DEF Bound
  <2>7. Touches(u, marked, o.key)
    BY <2>1, <2>5, <2>6, ProjectTyped
  <2> HIDE DEF u
  <2>8. u.bind[o.key] # Unbound /\ u.product[o.key] # NoProduct
    BY <2>7, ProjectionAssumption DEF Touches
  <2>9. \A k \in Keys : u.bind[k] # Unbound => u.product[k] # NoProduct
    BY <2>2, <2>7, <2>8 DEF Touches, Bound
  <2>10. \A p \in t.canonical : p.key \in Keys
    BY LogFields DEF Tables
  <2>11. \A p \in u.canonical : u.bind[p.key] # Unbound
    BY <2>2, <2>7, <2>8, <2>10 DEF Touches, SameJournal, Bound
  <2>12. QED
    BY <2>2, <2>3, <2>7, <2>9, <2>11 DEF Touches, SameJournal, Bound
<1>3. QED
  BY <1>1, <1>2

\* A rewind leaves the logs up to the anchor, and every product it gives
\* back has a baseline.
LEMMA RestoreStep ==
    ASSUME NEW t \in Tables, NEW a \in Blocks, Bound(t)
    PROVE  /\ Restore(t, a) \in Tables
           /\ Bound(Restore(t, a))
           /\ Restore(t, a).start = t.start
           /\ Restore(t, a).cursor = a
           /\ Restore(t, a).anchors = {b \in t.anchors : Height[b] <= Height[a]}
           /\ Restore(t, a).canonical = t.canonical \ Orphans(t, a)
<1> DEFINE back == Affected(t, a)
           product == [k \in Keys |-> IF k \in back THEN t.bind[k].base ELSE t.product[k]]
           bind == [k \in Keys |-> IF k \in back
                                   THEN [t.bind[k] EXCEPT !.status = 0, !.handler = Nobody]
                                   ELSE t.bind[k]]
           ship == [k \in Keys |-> IF k \in back /\ t.ship[k] # NoShipment
                                   THEN 0 ELSE t.ship[k]]
           u == Restore(t, a)
<1>1. \A k \in back : k \in Keys /\ t.bind[k] \in Binding
  <2>1. \A o \in t.canonical : o.key \in Keys /\ t.bind[o.key] \in Binding
    BY LogFields DEF Tables, Bound
  <2>2. QED
    BY <2>1 DEF Affected, Orphans
<1> HIDE DEF back
<1>2. product \in [Keys -> Product \cup {NoProduct}]
  BY <1>1 DEF Tables, Binding
<1>3. \A k \in back : [t.bind[k] EXCEPT !.status = 0, !.handler = Nobody] \in Binding
  <2>1. 0 \in Statuses
    BY DEF Statuses
  <2>2. QED
    BY <1>1, <2>1 DEF Binding
<1>4. bind \in [Keys -> Binding \cup {Unbound}]
  BY <1>3 DEF Tables
<1>5. ship \in [Keys -> Statuses \cup {NoShipment}]
  BY DEF Tables, Statuses
<1>6. /\ u.start = t.start /\ u.cursor = a
      /\ u.anchors = {b \in t.anchors : Height[b] <= Height[a]}
      /\ u.canonical = t.canonical \ Orphans(t, a)
      /\ u.product = product /\ u.bind = bind
  BY DEF Restore, Tables, back
<1>7. u \in Tables
  <2>1. u = [t EXCEPT !.canonical = t.canonical \ Orphans(t, a),
                      !.orphaned = t.orphaned \cup Orphans(t, a),
                      !.product = product, !.bind = bind,
                      !.hist = t.hist \ Attributed(t, a), !.ship = ship,
                      !.anchors = {b \in t.anchors : Height[b] <= Height[a]},
                      !.cursor = a]
    BY DEF Restore, Tables, back
  <2>2. Orphans(t, a) \subseteq Logs
    BY DEF Orphans, Tables
  <2> HIDE DEF u, product, bind, ship
  <2>3. QED
    BY <1>2, <1>4, <1>5, <2>1, <2>2 DEF Tables
<1>8. \A k \in Keys : u.bind[k] # Unbound => u.product[k] # NoProduct
  <2>1. \A k \in back : product[k] \in Product
    BY <1>1 DEF Binding
  <2>2. \A k \in Keys \ back : product[k] = t.product[k] /\ bind[k] = t.bind[k]
    OBVIOUS
  <2> HIDE DEF u, product, bind
  <2>3. QED
    BY <1>6, <2>1, <2>2, ProjectionAssumption DEF Bound
<1>9. \A o \in u.canonical : u.bind[o.key] # Unbound
  <2>1. \A k \in back : bind[k] \in Binding
    BY <1>1, <1>3
  <2>2. \A k \in Keys \ back : bind[k] = t.bind[k]
    OBVIOUS
  <2>3. \A o \in t.canonical : o.key \in Keys
    BY LogFields DEF Tables
  <2> HIDE DEF u, bind
  <2>4. QED
    BY <1>6, <2>1, <2>2, <2>3, ProjectionAssumption DEF Bound
<1> HIDE DEF u
<1>10. u \in Tables /\ Bound(u)
  BY <1>7, <1>8, <1>9 DEF Bound
<1>11. QED
  BY <1>6, <1>10 DEF u
----------------------------------------------------------------------------
(* The steps of a poll.                                                    *)

LEMMA NoTablesTyped == NoTables \in Tables /\ Bound(NoTables)
<1>1. 0 \in Nat /\ [k \in Keys |-> NoProduct] \in [Keys -> Product \cup {NoProduct}]
  OBVIOUS
<1>2. NoTables \in Tables
  BY <1>1 DEF NoTables, Empty, Tables
<1>3. Bound(NoTables)
  BY DEF NoTables, Empty, Bound
<1>4. QED
  BY <1>2, <1>3

LEMMA NoPollTyped == NoPoll \in Poll
BY DEF NoPoll, Poll, LastQuery

\* What the steps of w may rely on.
LEMMA Here ==
    ASSUME TypeInv, NEW w \in Workers
    PROVE  /\ tx[w] \in Tables /\ Bound(tx[w]) /\ poll[w] \in Poll
           /\ pc[w] \in Points /\ batch[w] \in 1..MaxBatch
BY DEF TypeInv, TypeOK

\* An answered eth_getBlockByNumber is a block of the served branch.
LEMMA Answered ==
    ASSUME tip \in Blocks, NEW n \in Nat, Serves(n)
    PROVE  Header(n) \in Blocks /\ Header(n) \in Path[tip] /\ Height[Header(n)] = n
BY BlockAt DEF Serves, Header

LEMMA HalvedTyped ==
    ASSUME NEW n \in 1..MaxBatch
    PROVE  Halved(n) \in 1..MaxBatch
BY IndexerAssumption DEF Halved

LEMMA DoubledTyped ==
    ASSUME NEW n \in 1..MaxBatch
    PROVE  Doubled(n) \in 1..MaxBatch
BY IndexerAssumption DEF Doubled

\* A step that ends the transaction of w, published or not.
LEMMA LeaveTyped ==
    ASSUME TypeInv, NEW w \in Workers, Leave(w), db' = db \/ db' = tx[w],
           NEW n \in 1..MaxBatch, batch' = [batch EXCEPT ![w] = n],
           UNCHANGED chainVars, faults' \in 0..MaxFaults
    PROVE  TypeInv'
<1>1. /\ pc' = [pc EXCEPT ![w] = "idle"] /\ "idle" \in Points
      /\ tx' = [tx EXCEPT ![w] = NoTables] /\ poll' = [poll EXCEPT ![w] = NoPoll]
      /\ holder' \in Workers \cup {NoWorker}
  BY DEF Leave, GoTo, Points, TypeInv, TypeOK
<1>2. TypeOK'
  BY <1>1, NoTablesTyped, NoPollTyped DEF TypeInv, TypeOK, ChainTypeOK, chainVars
<1>3. Bound(db)' /\ \A v \in Workers : Bound(tx[v])'
  BY <1>1, NoTablesTyped DEF TypeInv, TypeOK
<1>4. \A v \in Workers : Located(v)'
  BY <1>1 DEF TypeInv, TypeOK, Located
<1>5. QED
  BY <1>2, <1>3, <1>4 DEF TypeInv

LEMMA FailTyped ==
    ASSUME TypeInv, NEW w \in Workers, Fail(w), UNCHANGED chainVars, faults' \in 0..MaxFaults
    PROVE  TypeInv'
<1>1. batch' = [batch EXCEPT ![w] = batch[w]] /\ batch[w] \in 1..MaxBatch
  BY DEF Fail, TypeInv, TypeOK
<1>2. QED
  BY <1>1, LeaveTyped DEF Fail

LEMMA FailFetchTyped ==
    ASSUME TypeInv, NEW w \in Workers, FailFetch(w), UNCHANGED chainVars,
           faults' \in 0..MaxFaults
    PROVE  TypeInv'
BY Here, HalvedTyped, LeaveTyped DEF FailFetch

\* A step within the transaction of w: its tables, locals and point change.
LEMMA StepTyped ==
    ASSUME TypeInv, NEW w \in Workers, NEW t \in Tables, Bound(t), NEW q \in Poll,
           NEW point \in Points,
           tx' = [tx EXCEPT ![w] = t], poll' = [poll EXCEPT ![w] = q],
           pc' = [pc EXCEPT ![w] = point],
           point \notin {"idle", "lock", "create"} => t.cursor \in Blocks,
           point \in {"fetch", "journal", "recheck"} => q.end \in Blocks,
           holder' \in Workers \cup {NoWorker}, faults' \in 0..MaxFaults,
           UNCHANGED <<chainVars, db, batch>>
    PROVE  TypeInv'
<1>1. TypeOK'
  BY DEF TypeInv, TypeOK, ChainTypeOK, chainVars
<1>2. Bound(db)' /\ \A v \in Workers : Bound(tx[v])'
  BY DEF TypeInv, TypeOK
<1>3. \A v \in Workers : Located(v)'
  BY DEF TypeInv, TypeOK, Located
<1>4. QED
  BY <1>1, <1>2, <1>3 DEF TypeInv

\* What a step within the transaction leaves alone.
LEMMA Same ==
    ASSUME TypeInv, NEW w \in Workers
    PROVE  /\ tx = [tx EXCEPT ![w] = tx[w]]
           /\ poll = [poll EXCEPT ![w] = poll[w]]
           /\ pc = [pc EXCEPT ![w] = pc[w]]
           /\ holder \in Workers \cup {NoWorker} /\ faults \in 0..MaxFaults
BY DEF TypeInv, TypeOK

\* A step that only goes on.
LEMMA MoveTyped ==
    ASSUME TypeInv, NEW w \in Workers, NEW point \in Points, tx[w].cursor \in Blocks,
           point \in {"fetch", "journal", "recheck"} => poll[w].end \in Blocks,
           pc' = [pc EXCEPT ![w] = point],
           UNCHANGED <<chainVars, db, holder, batch, tx, poll, faults>>
    PROVE  TypeInv'
BY Here, Same, StepTyped

\* A step that only changes the locals.
LEMMA LocalsTyped ==
    ASSUME TypeInv, NEW w \in Workers, NEW q \in Poll, poll' = [poll EXCEPT ![w] = q],
           tx[w].cursor \in Blocks, q.end = poll[w].end,
           UNCHANGED <<chainVars, db, holder, pc, batch, tx, faults>>
    PROVE  TypeInv'
<1>1. TypeOK'
  BY DEF TypeInv, TypeOK, ChainTypeOK, chainVars
<1>2. \A v \in Workers : Located(v)'
  BY DEF TypeInv, TypeOK, Located
<1>3. QED
  BY <1>1, <1>2 DEF TypeInv

----------------------------------------------------------------------------
LEMMA OpeningTyped ==
    ASSUME TypeInv, NEW w \in Workers, Opening(w)
    PROVE  TypeInv'
<1>0. tip \in Blocks /\ db \in Tables /\ Bound(db) /\ Located(w)
  BY DEF TypeInv, TypeOK, ChainTypeOK
<1>1. CASE ObserveHead(w)
  <2>1. PICK lag \in 0..HeadLag :
          /\ lag <= Height[tip]
          /\ IF lag = 0 THEN NoFault ELSE Fault
          /\ poll' = [poll EXCEPT ![w].head = Height[tip] - lag]
    BY <1>1 DEF ObserveHead
  <2> DEFINE q == [poll[w] EXCEPT !.head = Height[tip] - lag]
  <2>2. Height[tip] - lag \in Nat
    BY <1>0, <2>1, TreeAssumption, IndexerAssumption
  <2>3. q \in Poll /\ poll' = [poll EXCEPT ![w] = q]
    BY <2>1, <2>2, Here DEF Poll
  <2>4. faults' \in 0..MaxFaults
    BY <2>1, IndexerAssumption DEF NoFault, Fault, TypeInv, TypeOK
  <2>5. "lock" \in Points /\ pc' = [pc EXCEPT ![w] = "lock"]
    BY <1>1 DEF ObserveHead, GoTo, Points
  <2>6. UNCHANGED <<chainVars, db, holder, batch, tx>>
    BY <1>1 DEF ObserveHead
  <2> HIDE DEF q
  <2>7. QED
    BY <2>3, <2>4, <2>5, <2>6, Here, Same, StepTyped
<1>2. CASE Busy(w)
  BY <1>2, Same, FailTyped DEF Busy
<1>3. CASE Open(w)
  <2> DEFINE point == IF db.cursor = NoBlock THEN "create" ELSE "check"
  <2>1. point \in Points /\ pc' = [pc EXCEPT ![w] = point]
    BY <1>3 DEF Open, GoTo, Points
  <2>2. point \notin {"idle", "lock", "create"} => db.cursor \in Blocks
    BY <1>0 DEF Tables
  <2>3. point \notin {"fetch", "journal", "recheck"}
    OBVIOUS
  <2>4. /\ tx' = [tx EXCEPT ![w] = db] /\ holder' = w
        /\ UNCHANGED <<chainVars, db, batch, poll, faults>>
    BY <1>3 DEF Open
  <2> HIDE DEF point
  <2>5. QED
    BY <1>0, <2>1, <2>2, <2>3, <2>4, Here, Same, StepTyped
<1>4. CASE Refuse(w)
  BY <1>4, Same, FailTyped DEF Refuse
<1>5. CASE CreateCursor(w)
  <2> DEFINE t == [tx[w] EXCEPT !.start = StartBlock[w],
                                !.cursor = Header(StartBlock[w]),
                                !.anchors = {Header(StartBlock[w])}]
  <2>1. StartBlock[w] \in Nat
    BY IndexerAssumption
  <2>2. Header(StartBlock[w]) \in Blocks
    BY <1>0, <1>5, <2>1, Answered DEF CreateCursor, Asks
  <2>3. /\ t \in Tables /\ t.cursor \in Blocks
        /\ t.bind = tx[w].bind /\ t.product = tx[w].product
        /\ t.canonical = tx[w].canonical
    BY <2>1, <2>2, Here DEF Tables
  <2>4. tx' = [tx EXCEPT ![w] = t]
    BY <1>5, Here DEF CreateCursor, TypeInv, TypeOK, Tables
  <2>5. /\ "check" \in Points /\ pc' = [pc EXCEPT ![w] = "check"]
        /\ UNCHANGED <<chainVars, db, holder, batch, poll, faults>>
    BY <1>5 DEF CreateCursor, GoTo, Points
  <2> HIDE DEF t
  <2>6. Bound(t)
    BY <2>3, Here DEF Bound
  <2>7. QED
    BY <2>3, <2>4, <2>5, <2>6, Here, Same, StepTyped
<1>6. CASE CheckCursor(w)
  <2>1. tx[w].cursor \in Blocks
    BY <1>0, <1>6 DEF Located, CheckCursor, Asks
  <2>2. UNCHANGED <<chainVars, db, holder, batch, tx, faults>>
    BY <1>6 DEF CheckCursor
  <2>3. CASE CursorStands(w)
    <3>1. "plan" \in Points /\ pc' = [pc EXCEPT ![w] = "plan"] /\ poll' = poll
      BY <1>6, <2>3 DEF CheckCursor, GoTo, Points
    <3>2. /\ tx' = [tx EXCEPT ![w] = tx[w]] /\ poll' = [poll EXCEPT ![w] = poll[w]]
          /\ holder' \in Workers \cup {NoWorker} /\ faults' \in 0..MaxFaults
          /\ UNCHANGED <<chainVars, db, batch>>
      BY <2>2, <3>1, Same
    <3>3. QED
      BY <2>1, <3>1, <3>2, Here, StepTyped
  <2>4. CASE ~CursorStands(w)
    <3> DEFINE q == [poll[w] EXCEPT !.scan = Window(tx[w])]
    <3>1. Window(tx[w]) \subseteq Blocks
      BY Here DEF Window, Tables
    <3>2. q \in Poll
      BY <3>1, Here DEF Poll
    <3>3. poll' = [poll EXCEPT ![w] = q]
      BY <1>6, <2>4, Here DEF CheckCursor
    <3>4. "scan" \in Points /\ pc' = [pc EXCEPT ![w] = "scan"]
      BY <1>6, <2>4 DEF CheckCursor, GoTo, Points
    <3> HIDE DEF q
    <3>5. QED
      BY <2>1, <2>2, <3>2, <3>3, <3>4, Here, Same, StepTyped
  <2>5. QED
    BY <2>3, <2>4
<1>7. QED
  BY <1>1, <1>2, <1>3, <1>4, <1>5, <1>6 DEF Opening

LEMMA RecoveringTyped ==
    ASSUME TypeInv, NEW w \in Workers, Recovering(w)
    PROVE  TypeInv'
<1>0. /\ pc[w] \in {"scan", "replay"} => tx[w].cursor \in Blocks
      /\ \A a \in poll[w].scan : a \in Blocks
      /\ \A o \in poll[w].todo : o \in Logs
  BY Here DEF TypeInv, Located, Poll
<1>1. CASE SkipAnchor(w)
  <2>1. PICK a \in poll[w].scan : poll' = [poll EXCEPT ![w].scan = @ \ {a}]
    BY <1>1 DEF SkipAnchor
  <2> DEFINE q == [poll[w] EXCEPT !.scan = @ \ {a}]
  <2>2. q \in Poll /\ poll' = [poll EXCEPT ![w] = q]
    BY <2>1, Here DEF Poll
  <2>3. pc[w] = "scan" /\ UNCHANGED <<chainVars, db, holder, pc, batch, tx, faults>>
    BY <1>1 DEF SkipAnchor, Asks
  <2>4. tx[w].cursor \in Blocks /\ q.end = poll[w].end
    BY <1>0, <2>3, Here DEF Poll
  <2> HIDE DEF q
  <2>5. QED
    BY <2>2, <2>3, <2>4, LocalsTyped
<1>2. CASE Rewind(w)
  <2>1. PICK a \in poll[w].scan :
          /\ tx' = [tx EXCEPT ![w] = Restore(@, a)]
          /\ poll' = [poll EXCEPT ![w].scan = {},
                                  ![w].todo = Remaining(tx[w], a),
                                  ![w].locked = @ \cup Affected(tx[w], a)]
    BY <1>2 DEF Rewind
  <2> DEFINE t == Restore(tx[w], a)
             q == [poll[w] EXCEPT !.scan = {}, !.todo = Remaining(tx[w], a),
                                  !.locked = @ \cup Affected(tx[w], a)]
  <2>2. t \in Tables /\ Bound(t) /\ t.cursor \in Blocks
    BY <1>0, Here, RestoreStep
  <2>3. Remaining(tx[w], a) \subseteq Logs /\ Affected(tx[w], a) \subseteq Keys
    <3>1. tx[w].canonical \subseteq Logs
      BY Here DEF Tables
    <3>2. QED
      BY <3>1, LogFields DEF Remaining, Affected, Orphans
  <2>4. q \in Poll /\ poll' = [poll EXCEPT ![w] = q]
    BY <2>1, <2>3, Here DEF Poll
  <2>5. tx' = [tx EXCEPT ![w] = t]
    BY <2>1
  <2>6. /\ "replay" \in Points /\ pc' = [pc EXCEPT ![w] = "replay"]
        /\ UNCHANGED <<chainVars, db, holder, batch, faults>>
    BY <1>2 DEF Rewind, GoTo, Points
  <2> HIDE DEF t, q
  <2>7. QED
    BY <2>2, <2>4, <2>5, <2>6, Same, StepTyped
<1>3. CASE NoAncestor(w)
  BY <1>3, Same, FailTyped DEF NoAncestor
<1>4. CASE Replay(w)
  <2>1. PICK o \in poll[w].todo :
          IF CanProject(tx[w], o)
          THEN /\ tx' = [tx EXCEPT ![w] = Project(@, o)]
               /\ poll' = [poll EXCEPT ![w].todo = @ \ {o}]
               /\ UNCHANGED <<db, holder, pc, batch>>
          ELSE Fail(w)
    BY <1>4 DEF Replay
  <2>2. pc[w] = "replay" /\ UNCHANGED <<chainVars, faults>>
    BY <1>4 DEF Replay
  <2>3. CASE CanProject(tx[w], o)
    <3> DEFINE t == Project(tx[w], o)
               q == [poll[w] EXCEPT !.todo = @ \ {o}]
    <3>1. t \in Tables /\ Bound(t) /\ t.cursor = tx[w].cursor
      BY <1>0, <2>3, Here, ProjectStep DEF SameJournal
    <3>2. q \in Poll /\ poll' = [poll EXCEPT ![w] = q]
      BY <2>1, <2>3, Here DEF Poll
    <3>3. tx' = [tx EXCEPT ![w] = t] /\ UNCHANGED <<db, holder, pc, batch>>
      BY <2>1, <2>3
    <3>4. pc' = [pc EXCEPT ![w] = "replay"]
      BY <2>2, <3>3, Same
    <3>5. "replay" \in Points
      BY DEF Points
    <3> HIDE DEF t, q
    <3>6. QED
      BY <1>0, <2>2, <3>1, <3>2, <3>3, <3>4, <3>5, Same, StepTyped
  <2>4. CASE ~CanProject(tx[w], o)
    BY <2>1, <2>2, <2>4, Same, FailTyped
  <2>5. QED
    BY <2>3, <2>4
<1>5. CASE Replayed(w)
  <2>1. /\ "plan" \in Points /\ pc' = [pc EXCEPT ![w] = "plan"] /\ pc[w] = "replay"
        /\ UNCHANGED <<chainVars, db, holder, batch, tx, poll, faults>>
    BY <1>5 DEF Replayed, GoTo, Points
  <2>2. tx[w].cursor \in Blocks
    BY <1>0, <2>1
  <2>3. QED
    BY <2>1, <2>2, MoveTyped
<1>6. QED
  BY <1>1, <1>2, <1>3, <1>4, <1>5 DEF Recovering

LEMMA IndexingTyped ==
    ASSUME TypeInv, NEW w \in Workers, Indexing(w)
    PROVE  TypeInv'
<1>0. /\ tip \in Blocks
      /\ pc[w] \notin {"idle", "lock", "create"} => tx[w].cursor \in Blocks
      /\ pc[w] \in {"fetch", "journal", "recheck"} => poll[w].end \in Blocks
      /\ \A o \in poll[w].todo : o \in Logs
  BY Here DEF TypeInv, TypeOK, ChainTypeOK, Located, Poll
<1>1. CASE NothingNew(w)
  <2>1. /\ "commit" \in Points /\ pc' = [pc EXCEPT ![w] = "commit"] /\ pc[w] = "plan"
        /\ UNCHANGED <<chainVars, db, holder, batch, tx, poll, faults>>
    BY <1>1 DEF NothingNew, GoTo, Points
  <2>2. tx[w].cursor \in Blocks
    BY <1>0, <2>1
  <2>3. QED
    BY <2>1, <2>2, MoveTyped
<1>2. CASE ReadEnd(w)
  <2> DEFINE h == Header(EndNum(w))
             q == [poll[w] EXCEPT !.end = h, !.headers = {h}]
  <2>1. pc[w] = "plan" /\ Serves(EndNum(w)) /\ tx[w].cursor \in Blocks
    BY <1>0, <1>2 DEF ReadEnd, Asks
  <2>2. EndNum(w) \in Nat
    <3>1. Num(w) \in Nat
      BY <2>1, TreeAssumption DEF Num
    <3>2. Target(w) \in Nat
      BY Here, IndexerAssumption DEF Target, Poll
    <3>3. QED
      BY <3>1, <3>2, Here, IndexerAssumption DEF EndNum
  <2>3. h \in Blocks
    BY <1>0, <2>1, <2>2, Answered
  <2>4. q \in Poll /\ q.end \in Blocks
    BY <2>3, Here DEF Poll
  <2>5. poll' = [poll EXCEPT ![w] = q]
    BY <1>2, Here DEF ReadEnd
  <2>6. /\ "fetch" \in Points /\ pc' = [pc EXCEPT ![w] = "fetch"]
        /\ UNCHANGED <<chainVars, db, holder, batch, tx, faults>>
    BY <1>2 DEF ReadEnd, GoTo, Points
  <2> HIDE DEF h, q
  <2>7. QED
    BY <2>1, <2>4, <2>5, <2>6, Here, Same, StepTyped
<1>3. CASE Query(w)
  <2> DEFINE found == Found(w)
             fresh == {o \in found : o.type = "ProductRegistered"}
             q == [poll[w] EXCEPT !.todo = @ \cup found, !.details = fresh, !.query = @ + 1]
  <2>1. pc[w] = "fetch" /\ poll[w].query <= LastQuery
    BY <1>3 DEF Query
  <2>2. q \in Poll /\ q.end = poll[w].end
    <3>1. found \in SUBSET Logs /\ fresh \in SUBSET Logs
      BY DEF LogsOn, Found
    <3>2. poll[w].query + 1 \in 1..LastQuery + 1
      BY <2>1, Here DEF Poll, LastQuery
    <3> HIDE DEF found, fresh
    <3>3. QED
      BY <3>1, <3>2, Here DEF Poll
  <2>3. poll' = [poll EXCEPT ![w] = q]
    BY <1>3, Here DEF Query
  <2>4. UNCHANGED <<chainVars, db, holder, pc, batch, tx, faults>>
    BY <1>3 DEF Query
  <2>5. tx[w].cursor \in Blocks
    BY <1>0, <2>1
  <2> HIDE DEF q
  <2>6. QED
    BY <2>2, <2>3, <2>4, <2>5, LocalsTyped
<1>4. CASE ReadDetails(w)
  <2>1. PICK o \in poll[w].details :
          IF DetailsMatch(o)
          THEN /\ poll' = [poll EXCEPT ![w].details = @ \ {o}]
               /\ UNCHANGED <<db, holder, pc, batch, tx>>
          ELSE FailFetch(w)
    BY <1>4 DEF ReadDetails
  <2>2. pc[w] = "fetch" /\ UNCHANGED <<chainVars, faults>>
    BY <1>4 DEF ReadDetails
  <2>3. CASE DetailsMatch(o)
    <3> DEFINE q == [poll[w] EXCEPT !.details = @ \ {o}]
    <3>1. q \in Poll /\ q.end = poll[w].end
      BY Here DEF Poll
    <3>2. /\ poll' = [poll EXCEPT ![w] = q]
          /\ UNCHANGED <<db, holder, pc, batch, tx>>
      BY <2>1, <2>3, Here
    <3>3. tx[w].cursor \in Blocks
      BY <1>0, <2>2
    <3> HIDE DEF q
    <3>4. QED
      BY <2>2, <3>1, <3>2, <3>3, LocalsTyped
  <2>4. CASE ~DetailsMatch(o)
    BY <2>1, <2>2, <2>4, Same, FailFetchTyped
  <2>5. QED
    BY <2>3, <2>4
<1>5. CASE Fetched(w)
  <2>1. pc[w] = "fetch" /\ UNCHANGED <<chainVars, faults>>
    BY <1>5 DEF Fetched
  <2>2. CASE Paired(poll[w].todo)
    <3>1. /\ "journal" \in Points /\ pc' = [pc EXCEPT ![w] = "journal"]
          /\ UNCHANGED <<db, holder, batch, tx, poll>>
      BY <1>5, <2>2 DEF Fetched, GoTo, Points
    <3>2. tx[w].cursor \in Blocks /\ poll[w].end \in Blocks
      BY <1>0, <2>1
    <3>3. QED
      BY <2>1, <3>1, <3>2, MoveTyped
  <2>3. CASE ~Paired(poll[w].todo)
    BY <1>5, <2>1, <2>3, Same, FailTyped DEF Fetched
  <2>4. QED
    BY <2>2, <2>3
<1>6. CASE JournalLog(w)
  <2>1. PICK o \in poll[w].todo :
          IF HeaderFor(w, Height[o.block]) = o.block /\ CanJournal(tx[w], o)
          THEN /\ tx' = [tx EXCEPT ![w] = Journal(@, o)]
               /\ poll' = [poll EXCEPT ![w].todo = @ \ {o},
                                       ![w].headers = @ \cup {o.block},
                                       ![w].locked = IF o \in tx[w].canonical
                                                     THEN @ ELSE @ \cup {o.key}]
               /\ UNCHANGED <<db, holder, pc, batch>>
          ELSE Fail(w)
    BY <1>6 DEF JournalLog
  <2>2. pc[w] = "journal" /\ UNCHANGED <<chainVars, faults>>
    BY <1>6 DEF JournalLog
  <2>3. CASE HeaderFor(w, Height[o.block]) = o.block /\ CanJournal(tx[w], o)
    <3> DEFINE t == Journal(tx[w], o)
               q == [poll[w] EXCEPT !.todo = @ \ {o}, !.headers = @ \cup {o.block},
                                    !.locked = IF o \in tx[w].canonical
                                               THEN @ ELSE @ \cup {o.key}]
    <3>1. t \in Tables /\ Bound(t) /\ t.cursor = tx[w].cursor
      BY <1>0, <2>3, Here, JournalStep
    <3>2. q \in Poll /\ q.end = poll[w].end
      BY <1>0, Here, LogFields DEF Poll
    <3>3. poll' = [poll EXCEPT ![w] = q]
      BY <2>1, <2>3, Here
    <3>4. tx' = [tx EXCEPT ![w] = t] /\ UNCHANGED <<db, holder, pc, batch>>
      BY <2>1, <2>3
    <3>5. pc' = [pc EXCEPT ![w] = "journal"]
      BY <2>2, <3>4, Same
    <3>6. "journal" \in Points
      BY DEF Points
    <3> HIDE DEF t, q
    <3>7. QED
      BY <1>0, <2>2, <3>1, <3>2, <3>3, <3>4, <3>5, <3>6, Same, StepTyped
  <2>4. CASE ~(HeaderFor(w, Height[o.block]) = o.block /\ CanJournal(tx[w], o))
    BY <2>1, <2>2, <2>4, Same, FailTyped
  <2>5. QED
    BY <2>3, <2>4
<1>7. CASE RecheckEnd(w)
  <2>1. pc[w] = "journal" /\ UNCHANGED <<chainVars, faults>>
    BY <1>7 DEF RecheckEnd, Asks
  <2>2. CASE EndStands(w)
    <3>1. /\ "recheck" \in Points /\ pc' = [pc EXCEPT ![w] = "recheck"]
          /\ UNCHANGED <<db, holder, batch, tx, poll>>
      BY <1>7, <2>2 DEF RecheckEnd, GoTo, Points
    <3>2. tx[w].cursor \in Blocks /\ poll[w].end \in Blocks
      BY <1>0, <2>1
    <3>3. QED
      BY <2>1, <3>1, <3>2, MoveTyped
  <2>3. CASE ~EndStands(w)
    BY <1>7, <2>1, <2>3, Same, FailTyped DEF RecheckEnd
  <2>4. QED
    BY <2>2, <2>3
<1>8. CASE RecheckCursor(w)
  <2> DEFINE stands == /\ CursorStands(w)
                       /\ Height[poll[w].end] = Target(w) => Covered(tx[w])
  <2>1. pc[w] = "recheck" /\ UNCHANGED <<chainVars, faults>> /\ poll[w].end \in Blocks
    BY <1>0, <1>8 DEF RecheckCursor, Asks
  <2>2. CASE stands
    <3> DEFINE t == Advanced(tx[w], poll[w].end, poll[w].headers)
    <3>1. poll[w].headers \subseteq Blocks
      BY Here DEF Poll
    <3>2. /\ t \in Tables /\ t.cursor = poll[w].end /\ t.bind = tx[w].bind
          /\ t.product = tx[w].product /\ t.canonical = tx[w].canonical
      BY <2>1, <3>1, Here DEF Tables, Advanced
    <3>3. /\ tx' = [tx EXCEPT ![w] = t] /\ pc' = [pc EXCEPT ![w] = "commit"]
          /\ "commit" \in Points /\ UNCHANGED <<db, holder, batch, poll>>
      BY <1>8, <2>2 DEF RecheckCursor, GoTo, Points
    <3> HIDE DEF t
    <3>4. Bound(t)
      BY <3>2, Here DEF Bound
    <3>5. QED
      BY <2>1, <3>2, <3>3, <3>4, Here, Same, StepTyped
  <2>3. CASE ~stands
    BY <1>8, <2>1, <2>3, Same, FailTyped DEF RecheckCursor
  <2>4. QED
    BY <2>2, <2>3
<1>9. CASE Commit(w)
  BY <1>9, Here, Same, DoubledTyped, LeaveTyped DEF Commit
<1>10. QED
  BY <1>1, <1>2, <1>3, <1>4, <1>5, <1>6, <1>7, <1>8, <1>9 DEF Indexing

LEMMA FailureTyped ==
    ASSUME TypeInv, NEW w \in Workers, Failure(w) \/ BlockMissing(w)
    PROVE  TypeInv'
<1>0. Fault => faults' \in 0..MaxFaults
  BY IndexerAssumption DEF Fault, TypeInv, TypeOK
<1>1. CASE CommitUnknown(w)
  <2>1. batch' = [batch EXCEPT ![w] = batch[w]]
    BY <1>1 DEF CommitUnknown, TypeInv, TypeOK
  <2>2. QED
    BY <1>0, <1>1, <2>1, Here, LeaveTyped DEF CommitUnknown
<1>2. CASE Abort(w)
  BY <1>0, <1>2, FailTyped, FailFetchTyped DEF Abort
<1>3. CASE Crash(w)
  <2>1. MaxBatch \in 1..MaxBatch
    BY IndexerAssumption
  <2>2. QED
    BY <1>0, <1>3, <2>1, LeaveTyped DEF Crash
<1>4. CASE BlockMissing(w)
  BY <1>4, Same, FailTyped DEF BlockMissing
<1>5. QED
  BY <1>1, <1>2, <1>3, <1>4 DEF Failure

LEMMA ChainTyped ==
    ASSUME TypeInv, ChainMoves
    PROVE  TypeInv'
<1>1. ChainTypeOK'
  BY TreeAssumption DEF ChainMoves, MoveTip, TypeInv, TypeOK, ChainTypeOK
<1>2. QED
  BY <1>1 DEF ChainMoves, workerVars, TypeInv, TypeOK, Located

LEMMA InitTyped == Init => TypeInv
<1> SUFFICES ASSUME Init PROVE TypeInv
  OBVIOUS
<1>1. PICK p \in Products, h \in Histories : db = Empty(p, h)
  BY DEF Init
<1>2. p \in [Keys -> Product \cup {NoProduct}] /\ h \in SUBSET Row
  BY IndexerAssumption
<1>3. db \in Tables /\ Bound(db)
  BY <1>1, <1>2 DEF Empty, Tables, Bound
<1>4. TypeOK
  BY <1>3, NoTablesTyped, NoPollTyped, TreeAssumption, IndexerAssumption
  DEF Init, ChainInit, TypeOK, ChainTypeOK, Points
<1>5. QED
  BY <1>3, <1>4, NoTablesTyped DEF Init, TypeInv, Located

LEMMA NextTyped == TypeInv /\ [Next]_vars => TypeInv'
<1> SUFFICES ASSUME TypeInv, [Next]_vars PROVE TypeInv'
  OBVIOUS
<1>1. CASE ChainMoves
  BY <1>1, ChainTyped
<1>2. ASSUME NEW w \in Workers, PollStep(w) \/ Failure(w) PROVE TypeInv'
  BY <1>2, OpeningTyped, RecoveringTyped, IndexingTyped, FailureTyped DEF PollStep
<1>3. CASE UNCHANGED vars
  BY <1>3 DEF vars, workerVars, chainVars, TypeInv, TypeOK, ChainTypeOK, Located
<1>4. QED
  BY <1>1, <1>2, <1>3 DEF Next

\* Whatever the tree of blocks, its logs, the workers and the bounds are,
\* the tables a poll of poll_once reads, builds or commits are well typed.
THEOREM TypeCorrect == Spec => []TypeOK
<1>1. TypeInv => TypeOK
  BY DEF TypeInv
<1>2. QED
  BY InitTyped, NextTyped, <1>1, PTL DEF Spec

\* No log is journalled or projected without a binding and a product row.
THEOREM BoundAlways == Spec => []Bound(db)
<1>1. TypeInv => Bound(db)
  BY DEF TypeInv
<1>2. QED
  BY InitTyped, NextTyped, <1>1, PTL DEF Spec

----------------------------------------------------------------------------
(***************************************************************************)
(* The committed journal is exact and implements Ledger.tla: for every     *)
(* tree of blocks, any number of workers and any bounds, provided that an  *)
(* abandoned branch is not served again.  The inductive invariants are     *)
(* IInv and LedgerInv.  The core of IInv: what a poll has read of the      *)
(* branch of its last block is exact as long as that block is not          *)
(* abandoned, and reading the block again before the commit shows that it  *)
(* never was.                                                              *)
(***************************************************************************)

----------------------------------------------------------------------------
(* Steps in general.                                                       *)

\* A served block is not abandoned.
LEMMA Stands ==
    ASSUME ChainInv, tip \in Blocks, NEW b \in Blocks, Serves(Height[b]), Header(Height[b]) = b
    PROVE  b \in Path[tip] /\ b \notin dead
<1>1. Height[b] \in Nat
  BY TreeAssumption
<1>2. b \in Path[tip]
  BY <1>1, Answered
<1>3. QED
  BY <1>2 DEF ChainInv

\* A step of w that publishes nothing: only its own poll has to be shown right.
LEMMA PollStepKeeps ==
    ASSUME IInv, TypeInv', NEW w \in Workers, NEW t, NEW q, NEW point,
           tx' = [tx EXCEPT ![w] = t], poll' = [poll EXCEPT ![w] = q],
           pc' = [pc EXCEPT ![w] = point],
           UNCHANGED <<chainVars, db>>,
           PollInv(point, t, q)
    PROVE  IInv'
<1>1. tip' = tip /\ dead' = dead /\ db' = db
  BY DEF chainVars
<1>2. ChainInv' /\ DbInv'
  BY <1>1 DEF IInv, ChainInv, DbInv, Unused, Exact, Rooted, CursorLogs
<1>3. ASSUME NEW v \in Workers
      PROVE  PollInv(pc[v], tx[v], poll[v])'
  <2>1. /\ pc'[v] = IF v = w THEN point ELSE pc[v]
        /\ tx'[v] = IF v = w THEN t ELSE tx[v]
        /\ poll'[v] = IF v = w THEN q ELSE poll[v]
    BY DEF IInv, TypeInv, TypeOK
  <2>2. PollInv(pc'[v], tx'[v], poll'[v])
    BY <2>1 DEF IInv
  <2>3. QED
    BY <1>1, <2>2 DEF PollInv, ScanInv, FetchInv, JournalInv, RecheckInv, EndInv, BatchLogs,
                      Unused, Exact, Rooted, CursorLogs
<1>4. QED
  BY <1>2, <1>3 DEF IInv

\* What the steps of w may rely on.
LEMMA Facts ==
    ASSUME IInv, NEW w \in Workers
    PROVE  /\ TypeInv /\ ChainInv /\ DbInv /\ tip \in Blocks
           /\ PollInv(pc[w], tx[w], poll[w])
           /\ tx[w] \in Tables /\ poll[w] \in Poll /\ pc[w] \in Points
BY DEF IInv, TypeInv, TypeOK, ChainTypeOK

\* The end of a poll: the worker has nothing, and the tables are what they
\* were, or what it is about to commit.
LEMMA LeaveKeeps ==
    ASSUME IInv, TypeInv', NEW w \in Workers, Leave(w), UNCHANGED chainVars,
           db' = db \/ (db' = tx[w] /\ pc[w] = "commit")
    PROVE  IInv'
<1>1. tip' = tip /\ dead' = dead
  BY DEF chainVars
<1>2. DbInv'
  <2>1. Unused(db') \/ Exact(db')
    BY Facts DEF PollInv, DbInv
  <2>2. QED
    BY <1>1, <2>1 DEF DbInv, Unused, Exact, Rooted, CursorLogs
<1>3. ASSUME NEW v \in Workers
      PROVE  PollInv(pc[v], tx[v], poll[v])'
  <2>1. /\ pc'[v] = IF v = w THEN "idle" ELSE pc[v]
        /\ tx'[v] = IF v = w THEN NoTables ELSE tx[v]
        /\ poll'[v] = IF v = w THEN NoPoll ELSE poll[v]
    BY DEF IInv, TypeInv, TypeOK, Leave, GoTo
  <2>2. PollInv("idle", NoTables, NoPoll)
    BY DEF PollInv, NoPoll
  <2>3. PollInv(pc'[v], tx'[v], poll'[v])
    BY <2>1, <2>2 DEF IInv
  <2>4. QED
    BY <1>1, <2>3 DEF PollInv, ScanInv, FetchInv, JournalInv, RecheckInv, EndInv, BatchLogs,
                      Unused, Exact, Rooted, CursorLogs
<1>4. QED
  BY <1>1, <1>2, <1>3 DEF IInv, ChainInv

LEMMA FailKeeps ==
    ASSUME IInv, TypeInv', NEW w \in Workers, Fail(w) \/ FailFetch(w), UNCHANGED chainVars
    PROVE  IInv'
BY LeaveKeeps DEF Fail, FailFetch

\* Exactness looks at the journal only.
LEMMA ExactSame ==
    ASSUME NEW t, NEW u, SameJournal(u, t), Exact(t)
    PROVE  Exact(u)
BY DEF SameJournal, Exact, Rooted, CursorLogs

----------------------------------------------------------------------------
LEMMA OpeningKeeps ==
    ASSUME IInv, TypeInv', NEW w \in Workers, Opening(w)
    PROVE  IInv'
<1>1. CASE ObserveHead(w)
  <2>1. PICK lag \in 0..HeadLag : poll' = [poll EXCEPT ![w].head = Height[tip] - lag]
    BY <1>1 DEF ObserveHead
  <2> DEFINE q == [poll[w] EXCEPT !.head = Height[tip] - lag]
  <2>2. poll' = [poll EXCEPT ![w] = q]
    BY <2>1, Facts
  <2>3. q.query = poll[w].query /\ q.todo = poll[w].todo
    BY Facts DEF Poll
  <2>4. pc[w] = "idle" /\ pc' = [pc EXCEPT ![w] = "lock"] /\ UNCHANGED <<chainVars, db, tx>>
    BY <1>1 DEF ObserveHead, GoTo
  <2> HIDE DEF q
  <2>5. PollInv("lock", tx[w], q)
    BY <2>3, <2>4, Facts DEF PollInv
  <2>6. tx' = [tx EXCEPT ![w] = tx[w]]
    BY <2>4, Facts, Same
  <2>7. QED
    BY <2>2, <2>4, <2>5, <2>6, PollStepKeeps
<1>2. CASE Busy(w)
  BY <1>2, FailKeeps DEF Busy
<1>3. CASE Open(w)
  <2> DEFINE point == IF db.cursor = NoBlock THEN "create" ELSE "check"
  <2>1. /\ pc[w] = "lock" /\ pc' = [pc EXCEPT ![w] = point]
        /\ tx' = [tx EXCEPT ![w] = db] /\ UNCHANGED <<chainVars, db, poll>>
    BY <1>3 DEF Open, GoTo
  <2>2. poll[w].query = 1 /\ poll[w].todo = {}
    BY <2>1, Facts DEF PollInv
  <2>3. CASE db.cursor = NoBlock
    <3>1. Unused(db)
      BY <2>3, Facts, ProjectionAssumption DEF DbInv, Exact, Rooted
    <3>2. PollInv("create", db, poll[w])
      BY <2>2, <3>1 DEF PollInv
    <3>3. QED
      BY <2>1, <2>3, <3>2, Facts, Same, PollStepKeeps
  <2>4. CASE db.cursor # NoBlock
    <3>1. Exact(db)
      BY <2>4, Facts DEF DbInv, Unused
    <3>2. PollInv("check", db, poll[w])
      BY <2>2, <3>1 DEF PollInv
    <3>3. QED
      BY <2>1, <2>4, <3>2, Facts, Same, PollStepKeeps
  <2>5. QED
    BY <2>3, <2>4
<1>4. CASE Refuse(w)
  BY <1>4, FailKeeps DEF Refuse
<1>5. CASE CreateCursor(w)
  <2> DEFINE b == Header(StartBlock[w])
             t == [tx[w] EXCEPT !.start = StartBlock[w], !.cursor = b, !.anchors = {b}]
  <2>1. b \in Blocks /\ b \in Path[tip] /\ Height[b] = StartBlock[w] /\ Height[b] \in Nat
    BY <1>5, Facts, Answered, IndexerAssumption DEF CreateCursor, Asks
  <2>2. /\ t.start = Height[b] /\ t.cursor = b /\ t.anchors = {b}
        /\ t.canonical = tx[w].canonical
    BY <2>1, Facts DEF Tables
  <2>3. tx' = [tx EXCEPT ![w] = t]
    BY <1>5, Facts DEF CreateCursor, TypeInv, TypeOK, Tables
  <2>4. /\ pc[w] = "create" /\ pc' = [pc EXCEPT ![w] = "check"]
        /\ UNCHANGED <<chainVars, db, poll>>
    BY <1>5 DEF CreateCursor, GoTo, Asks
  <2>5. tx[w].canonical = {} /\ poll[w].query = 1 /\ poll[w].todo = {}
    BY <2>4, Facts DEF PollInv, Unused
  <2>6. LogsOn(b, Height[b], Height[b]) = {}
    BY <2>1, LogFields DEF LogsOn
  <2> HIDE DEF t, b
  <2>7. Rooted(t)
    BY <2>1, <2>2, TreeAssumption DEF Rooted
  <2>8. PollInv("check", t, poll[w])
    BY <2>2, <2>5, <2>6, <2>7 DEF PollInv, Exact, CursorLogs
  <2>9. poll' = [poll EXCEPT ![w] = poll[w]]
    BY <2>4, Facts, Same
  <2>10. QED
    BY <2>3, <2>4, <2>8, <2>9, PollStepKeeps
<1>6. CASE CheckCursor(w)
  <2>1. pc[w] = "check" /\ UNCHANGED <<chainVars, db, tx>>
    BY <1>6 DEF CheckCursor, Asks
  <2>2. tx' = [tx EXCEPT ![w] = tx[w]]
    BY <2>1, Facts, Same
  <2>3. Exact(tx[w]) /\ poll[w].query = 1 /\ poll[w].todo = {}
    BY <2>1, Facts DEF PollInv
  <2>4. CASE CursorStands(w)
    <3>1. pc' = [pc EXCEPT ![w] = "plan"] /\ poll' = poll
      BY <1>6, <2>4 DEF CheckCursor, GoTo
    <3>2. poll' = [poll EXCEPT ![w] = poll[w]]
      BY <3>1, Facts, Same
    <3>3. PollInv("plan", tx[w], poll[w])
      BY <2>3 DEF PollInv
    <3>4. QED
      BY <2>1, <2>2, <3>1, <3>2, <3>3, PollStepKeeps
  <2>5. CASE ~CursorStands(w)
    <3> DEFINE q == [poll[w] EXCEPT !.scan = Window(tx[w])]
    <3>1. q.query = 1 /\ q.todo = {} /\ q.scan = Window(tx[w])
      BY <2>3, Facts DEF Poll
    <3>2. poll' = [poll EXCEPT ![w] = q]
      BY <1>6, <2>5, Facts DEF CheckCursor
    <3>3. pc' = [pc EXCEPT ![w] = "scan"]
      BY <1>6, <2>5 DEF CheckCursor, GoTo
    <3> HIDE DEF q
    <3>4. ScanInv(tx[w], q)
      BY <3>1, Facts, TreeAssumption DEF ScanInv, Window, Tables
    <3>5. PollInv("scan", tx[w], q)
      BY <2>3, <3>1, <3>4 DEF PollInv
    <3>6. QED
      BY <2>1, <2>2, <3>2, <3>3, <3>5, PollStepKeeps
  <2>6. QED
    BY <2>4, <2>5
<1>7. QED
  BY <1>1, <1>2, <1>3, <1>4, <1>5, <1>6 DEF Opening

\* Going back to an anchor leaves the exact journal of that anchor.
LEMMA RestoreExact ==
    ASSUME NEW t \in Tables, Bound(t), Exact(t), NEW a \in t.anchors,
           t.start <= Height[a], a \in Path[tip]
    PROVE  Exact(Restore(t, a))
<1> DEFINE u == Restore(t, a)
<1>1. a \in Path[t.cursor] /\ t.cursor \in Blocks /\ a \in Blocks
  BY PathOfMember DEF Exact, Rooted
<1>2. /\ u.start = t.start /\ u.cursor = a
      /\ u.anchors = {b \in t.anchors : Height[b] <= Height[a]}
      /\ u.canonical = t.canonical \ Orphans(t, a)
  BY <1>1, RestoreStep
<1> HIDE DEF u
<1>3. Rooted(u)
  <2>1. \A b \in u.anchors : b \in Path[a]
    BY <1>1, <1>2, LowerIsAncestor DEF Exact, Rooted
  <2>2. QED
    BY <1>1, <1>2, <2>1 DEF Rooted
<1>4. u.canonical = LogsOn(t.cursor, t.start, Height[a])
  <2>1. \A o \in Logs : Height[o.block] \in Nat
    BY LogFields
  <2>2. Height[a] \in Nat /\ Height[t.cursor] \in Nat /\ Height[a] <= Height[t.cursor]
    BY <1>1, PathOfMember, TreeAssumption
  <2>3. QED
    BY <1>2, <2>1, <2>2 DEF Exact, CursorLogs, LogsOn, Orphans
<1>5. u.canonical = LogsOn(a, u.start, Height[a])
  BY <1>1, <1>2, <1>4, LogsOfMember DEF Tables
<1>6. Exact(u)
  BY <1>2, <1>3, <1>5 DEF Exact, CursorLogs
<1>7. QED
  BY <1>6 DEF u

LEMMA RecoveringKeeps ==
    ASSUME IInv, TypeInv', NEW w \in Workers, Recovering(w)
    PROVE  IInv'
<1>1. CASE SkipAnchor(w)
  <2>1. PICK a \in poll[w].scan : poll' = [poll EXCEPT ![w].scan = @ \ {a}]
    BY <1>1 DEF SkipAnchor
  <2> DEFINE q == [poll[w] EXCEPT !.scan = @ \ {a}]
  <2>2. poll' = [poll EXCEPT ![w] = q]
    BY <2>1, Facts
  <2>3. q.query = poll[w].query /\ q.todo = poll[w].todo /\ q.scan \subseteq poll[w].scan
    BY Facts DEF Poll
  <2>4. pc[w] = "scan" /\ UNCHANGED <<chainVars, db, pc, tx>>
    BY <1>1 DEF SkipAnchor, Asks
  <2> HIDE DEF q
  <2>5. PollInv("scan", tx[w], q)
    BY <2>3, <2>4, Facts DEF PollInv, ScanInv
  <2>6. pc' = [pc EXCEPT ![w] = "scan"] /\ tx' = [tx EXCEPT ![w] = tx[w]]
    BY <2>4, Facts, Same
  <2>7. QED
    BY <2>2, <2>4, <2>5, <2>6, PollStepKeeps
<1>2. CASE Rewind(w)
  <2>1. PICK a \in poll[w].scan :
          /\ Asks(w, "scan", Height[a])
          /\ Header(Height[a]) = a
          /\ tx' = [tx EXCEPT ![w] = Restore(@, a)]
          /\ poll' = [poll EXCEPT ![w].scan = {},
                                  ![w].todo = Remaining(tx[w], a),
                                  ![w].locked = @ \cup Affected(tx[w], a)]
    BY <1>2 DEF Rewind
  <2> DEFINE q == [poll[w] EXCEPT !.scan = {}, !.todo = Remaining(tx[w], a),
                                  !.locked = @ \cup Affected(tx[w], a)]
  <2>2. pc[w] = "scan" /\ Serves(Height[a])
    BY <2>1 DEF Asks
  <2>3. /\ Exact(tx[w]) /\ a \in tx[w].anchors /\ tx[w].start <= Height[a]
        /\ poll[w].query = 1
    BY <2>2, Facts DEF PollInv, ScanInv
  <2>4. a \in Blocks
    BY Facts DEF Poll
  <2>5. a \in Path[tip]
    BY <2>1, <2>2, <2>4, Facts, Stands
  <2>6. Exact(Restore(tx[w], a))
    BY <2>3, <2>5, Facts, RestoreExact DEF TypeInv
  <2>7. poll' = [poll EXCEPT ![w] = q] /\ q.query = 1
    BY <2>1, <2>3, Facts DEF Poll
  <2>8. tx' = [tx EXCEPT ![w] = Restore(tx[w], a)]
    BY <2>1
  <2>9. pc' = [pc EXCEPT ![w] = "replay"] /\ UNCHANGED <<chainVars, db>>
    BY <1>2 DEF Rewind, GoTo
  <2> HIDE DEF q
  <2>10. PollInv("replay", Restore(tx[w], a), q)
    BY <2>6, <2>7 DEF PollInv
  <2>11. QED
    BY <2>7, <2>8, <2>9, <2>10, PollStepKeeps
<1>3. CASE NoAncestor(w)
  BY <1>3, FailKeeps DEF NoAncestor
<1>4. CASE Replay(w)
  <2>1. PICK o \in poll[w].todo :
          IF CanProject(tx[w], o)
          THEN /\ tx' = [tx EXCEPT ![w] = Project(@, o)]
               /\ poll' = [poll EXCEPT ![w].todo = @ \ {o}]
               /\ UNCHANGED <<db, holder, pc, batch>>
          ELSE Fail(w)
    BY <1>4 DEF Replay
  <2>2. pc[w] = "replay" /\ UNCHANGED chainVars
    BY <1>4 DEF Replay
  <2>3. CASE CanProject(tx[w], o)
    <3> DEFINE t == Project(tx[w], o)
               q == [poll[w] EXCEPT !.todo = @ \ {o}]
    <3>1. Exact(tx[w]) /\ poll[w].query = 1
      BY <2>2, Facts DEF PollInv
    <3>2. o \in Logs /\ Bound(tx[w])
      BY Facts DEF Poll, TypeInv
    <3>3. Exact(t)
      BY <2>3, <3>1, <3>2, Facts, ProjectStep, ExactSame
    <3>4. poll' = [poll EXCEPT ![w] = q] /\ q.query = 1
      BY <2>1, <2>3, <3>1, Facts DEF Poll
    <3>5. tx' = [tx EXCEPT ![w] = t] /\ UNCHANGED <<db, pc>>
      BY <2>1, <2>3
    <3>6. pc' = [pc EXCEPT ![w] = "replay"]
      BY <2>2, <3>5, Facts, Same
    <3> HIDE DEF t, q
    <3>7. PollInv("replay", t, q)
      BY <3>3, <3>4 DEF PollInv
    <3>8. QED
      BY <2>2, <3>4, <3>5, <3>6, <3>7, PollStepKeeps
  <2>4. CASE ~CanProject(tx[w], o)
    BY <2>1, <2>2, <2>4, FailKeeps
  <2>5. QED
    BY <2>3, <2>4
<1>5. CASE Replayed(w)
  <2>1. /\ pc[w] = "replay" /\ poll[w].todo = {}
        /\ pc' = [pc EXCEPT ![w] = "plan"] /\ UNCHANGED <<chainVars, db, tx, poll>>
    BY <1>5 DEF Replayed, GoTo
  <2>2. PollInv("plan", tx[w], poll[w])
    BY <2>1, Facts DEF PollInv
  <2>3. tx' = [tx EXCEPT ![w] = tx[w]] /\ poll' = [poll EXCEPT ![w] = poll[w]]
    BY <2>1, Facts, Same
  <2>4. QED
    BY <2>1, <2>2, <2>3, PollStepKeeps
<1>6. QED
  BY <1>1, <1>2, <1>3, <1>4, <1>5 DEF Recovering

----------------------------------------------------------------------------
(* The batch.                                                              *)

\* The last block of the batch is read from the tip: the cursor is below it
\* on the same branch, or was abandoned meanwhile.
LEMMA ReadEndKeeps ==
    ASSUME IInv, TypeInv', NEW w \in Workers, ReadEnd(w)
    PROVE  IInv'
<1> DEFINE t == tx[w]
           h == Header(EndNum(w))
           q == [poll[w] EXCEPT !.end = h, !.headers = {h}]
<1>1. pc[w] = "plan" /\ Serves(EndNum(w)) /\ EndNum(w) > Num(w)
  BY DEF ReadEnd, Asks
<1>2. Exact(t) /\ poll[w].query = 1 /\ poll[w].todo = {}
  BY <1>1, Facts DEF PollInv
<1>3. Height[t.cursor] \in Nat /\ t.cursor \in Blocks
  BY <1>2, TreeAssumption DEF Exact, Rooted
<1>4. EndNum(w) \in Nat
  <2>1. Target(w) \in Nat
    BY Facts, IndexerAssumption DEF Target, Poll
  <2>2. batch[w] \in Nat
    BY Facts, Here, IndexerAssumption
  <2>3. QED
    BY <1>3, <2>1, <2>2 DEF EndNum, Num
<1>5. h \in Blocks /\ h \in Path[tip] /\ Height[h] = EndNum(w)
  BY <1>1, <1>4, Facts, Answered
<1>6. Height[t.cursor] < Height[h]
  BY <1>1, <1>3, <1>4, <1>5 DEF Num
<1>7. t.cursor \in dead \cup Path[h]
  <2>1. CASE t.cursor \in Path[tip]
    BY <1>3, <1>5, <1>6, <2>1, Facts, LowerIsAncestor, TreeAssumption
  <2>2. CASE t.cursor \in dead
    BY <2>2
  <2>3. QED
    BY <1>2, <2>1, <2>2 DEF Exact, Rooted
<1>8. q.end = h /\ q.headers = {h} /\ q.query = 1 /\ q.todo = {}
  BY <1>2, Facts DEF Poll
<1>9. poll' = [poll EXCEPT ![w] = q]
  BY Facts DEF ReadEnd
<1>10. pc' = [pc EXCEPT ![w] = "fetch"] /\ UNCHANGED <<chainVars, db, tx>>
  BY DEF ReadEnd, GoTo
<1> HIDE DEF h, q
<1>11. EndInv(t, q)
  BY <1>5, <1>6, <1>7, <1>8 DEF EndInv
<1>12. Asked(q.query) = {}
  BY <1>8 DEF Asked
<1>13. PollInv("fetch", t, q)
  BY <1>2, <1>8, <1>11, <1>12 DEF PollInv, FetchInv
<1>14. tx' = [tx EXCEPT ![w] = t]
  BY <1>10, Facts, Same
<1>15. QED
  BY <1>9, <1>10, <1>13, <1>14, PollStepKeeps

LEMMA AskedNext ==
    ASSUME NEW n \in 1..LastQuery
    PROVE  Asked(n + 1) = Asked(n) \cup {Queries[n]}
<1>1. 1..(n + 1 - 1) = 1..(n - 1) \cup {n}
  OBVIOUS
<1>2. QED
  BY <1>1 DEF Asked

LEMMA AskedAll ==
    ASSUME NEW e \in EventTypes
    PROVE  e \in Asked(LastQuery + 1)
<1>1. \A i \in 1..5 : Queries[i] \in Asked(LastQuery + 1)
  BY DEF Asked, LastQuery
<1>2. /\ Queries[1] = "ProductRegistered" /\ Queries[2] = "ProductMetadataUpdated"
      /\ Queries[3] = "CheckpointRecorded" /\ Queries[4] = "CustodyTransferred"
      /\ Queries[5] = "DeliveryCompleted"
  BY DEF Queries
<1>3. 1 \in 1..5 /\ 2 \in 1..5 /\ 3 \in 1..5 /\ 4 \in 1..5 /\ 5 \in 1..5
  OBVIOUS
<1>4. QED
  BY <1>1, <1>2, <1>3 DEF EventTypes

\* A query that is answered while the end of the batch is not abandoned is
\* answered from the branch of that end.
LEMMA QueryKeeps ==
    ASSUME IInv, TypeInv', NEW w \in Workers, Query(w)
    PROVE  IInv'
<1> DEFINE t == tx[w]
           p == poll[w]
           found == {o \in LogsOn(tip, Num(w), Height[p.end]) : o.type = Queries[p.query]}
           fresh == {o \in found : o.type = "ProductRegistered"}
           q == [p EXCEPT !.todo = @ \cup found, !.details = fresh, !.query = @ + 1]
<1>1. pc[w] = "fetch" /\ p.query \in 1..LastQuery
  <2>1. p.query \in 1..LastQuery + 1
    BY Facts DEF Poll
  <2>2. pc[w] = "fetch" /\ p.query <= LastQuery
    BY DEF Query
  <2>3. QED
    BY <2>1, <2>2 DEF LastQuery
<1>2. FetchInv(t, p)
  BY <1>1, Facts DEF PollInv
<1>3. p.end \notin dead => LogsOn(tip, Num(w), Height[p.end]) = BatchLogs(t, p)
  <2>1. Num(w) \in Nat
    BY <1>2, TreeAssumption DEF FetchInv, Exact, Rooted, Num
  <2>2. QED
    BY <1>2, <2>1, Facts, LogsOfMember DEF FetchInv, EndInv, BatchLogs, Num
<1>4. p.end \notin dead =>
         p.todo \cup found = {o \in BatchLogs(t, p) : o.type \in Asked(p.query + 1)}
  BY <1>1, <1>2, <1>3, AskedNext DEF FetchInv
<1>5. /\ q.end = p.end /\ q.headers = p.headers
      /\ q.todo = p.todo \cup found /\ q.query = p.query + 1
  BY Facts DEF Poll
<1>6. poll' = [poll EXCEPT ![w] = q]
  BY Facts DEF Query, Found
<1>7. UNCHANGED <<chainVars, db, pc, tx>>
  BY DEF Query
<1> HIDE DEF found, fresh, q
<1>8. FetchInv(t, q)
  BY <1>2, <1>4, <1>5 DEF FetchInv, EndInv, BatchLogs
<1>9. PollInv("fetch", t, q)
  BY <1>8 DEF PollInv
<1>10. pc' = [pc EXCEPT ![w] = "fetch"] /\ tx' = [tx EXCEPT ![w] = t]
  BY <1>1, <1>7, Facts, Same
<1>11. QED
  BY <1>6, <1>7, <1>9, <1>10, PollStepKeeps

LEMMA ReadDetailsKeeps ==
    ASSUME IInv, TypeInv', NEW w \in Workers, ReadDetails(w)
    PROVE  IInv'
<1> DEFINE t == tx[w]
           p == poll[w]
<1>1. PICK o \in p.details :
        IF DetailsMatch(o)
        THEN /\ poll' = [poll EXCEPT ![w].details = @ \ {o}]
             /\ UNCHANGED <<db, holder, pc, batch, tx>>
        ELSE FailFetch(w)
  BY DEF ReadDetails
<1>2. pc[w] = "fetch" /\ UNCHANGED chainVars
  BY DEF ReadDetails
<1>3. CASE DetailsMatch(o)
  <2> DEFINE q == [p EXCEPT !.details = @ \ {o}]
  <2>1. FetchInv(t, p)
    BY <1>2, Facts DEF PollInv
  <2>2. /\ q.end = p.end /\ q.headers = p.headers
        /\ q.todo = p.todo /\ q.query = p.query
    BY Facts DEF Poll
  <2>3. poll' = [poll EXCEPT ![w] = q] /\ UNCHANGED <<db, pc, tx>>
    BY <1>1, <1>3, Facts
  <2> HIDE DEF q
  <2>4. FetchInv(t, q)
    BY <2>1, <2>2 DEF FetchInv, EndInv, BatchLogs
  <2>5. PollInv("fetch", t, q)
    BY <2>4 DEF PollInv
  <2>6. pc' = [pc EXCEPT ![w] = "fetch"] /\ tx' = [tx EXCEPT ![w] = t]
    BY <1>2, <2>3, Facts, Same
  <2>7. QED
    BY <1>2, <2>3, <2>5, <2>6, PollStepKeeps
<1>4. CASE ~DetailsMatch(o)
  BY <1>1, <1>2, <1>4, FailKeeps
<1>5. QED
  BY <1>3, <1>4

LEMMA FetchedKeeps ==
    ASSUME IInv, TypeInv', NEW w \in Workers, Fetched(w)
    PROVE  IInv'
<1> DEFINE t == tx[w]
           p == poll[w]
<1>1. pc[w] = "fetch" /\ p.query = LastQuery + 1 /\ UNCHANGED chainVars
  BY Facts DEF Fetched, Poll, LastQuery
<1>2. CASE Paired(p.todo)
  <2>1. FetchInv(t, p)
    BY <1>1, Facts DEF PollInv
  <2>2. \A o \in BatchLogs(t, p) : o.type \in Asked(p.query)
    BY <1>1, AskedAll, LogFields DEF BatchLogs, LogsOn
  <2>3. p.end \notin dead => p.todo = BatchLogs(t, p)
    BY <2>1, <2>2 DEF FetchInv
  <2>4. JournalInv(t, p)
    BY <2>1, <2>3, TreeAssumption DEF FetchInv, JournalInv, Exact, EndInv
  <2>5. PollInv("journal", t, p)
    BY <2>4 DEF PollInv
  <2>6. pc' = [pc EXCEPT ![w] = "journal"] /\ UNCHANGED <<db, tx, poll>>
    BY <1>2 DEF Fetched, GoTo
  <2>7. tx' = [tx EXCEPT ![w] = t] /\ poll' = [poll EXCEPT ![w] = p]
    BY <2>6, Facts, Same
  <2>8. QED
    BY <1>1, <2>5, <2>6, <2>7, PollStepKeeps
<1>3. CASE ~Paired(p.todo)
  BY <1>1, <1>3, FailKeeps DEF Fetched
<1>4. QED
  BY <1>2, <1>3

LEMMA JournalLogKeeps ==
    ASSUME IInv, TypeInv', NEW w \in Workers, JournalLog(w)
    PROVE  IInv'
<1> DEFINE p == poll[w]
<1>1. PICK o \in p.todo :
        IF HeaderFor(w, Height[o.block]) = o.block /\ CanJournal(tx[w], o)
        THEN /\ tx' = [tx EXCEPT ![w] = Journal(@, o)]
             /\ poll' = [poll EXCEPT ![w].todo = @ \ {o},
                                     ![w].headers = @ \cup {o.block},
                                     ![w].locked = IF o \in tx[w].canonical
                                                   THEN @ ELSE @ \cup {o.key}]
             /\ UNCHANGED <<db, holder, pc, batch>>
        ELSE Fail(w)
  BY DEF JournalLog
<1>2. pc[w] = "journal" /\ UNCHANGED chainVars
  BY DEF JournalLog
<1>3. CASE HeaderFor(w, Height[o.block]) = o.block /\ CanJournal(tx[w], o)
  <2> DEFINE t == Journal(tx[w], o)
             locked == IF o \in tx[w].canonical THEN p.locked ELSE p.locked \cup {o.key}
             q == [p EXCEPT !.todo = @ \ {o}, !.headers = @ \cup {o.block}, !.locked = locked]
  <2>1. JournalInv(tx[w], p)
    BY <1>2, Facts DEF PollInv
  <2>2. o \in Logs /\ Bound(tx[w])
    BY Facts DEF Poll, TypeInv
  <2>3. /\ t.canonical = tx[w].canonical \cup {o}
        /\ t.start = tx[w].start /\ t.cursor = tx[w].cursor /\ t.anchors = tx[w].anchors
    BY <1>3, <2>2, Facts, JournalStep
  <2>4. q.end = p.end /\ q.todo = p.todo \ {o} /\ q.headers = p.headers \cup {o.block}
    BY Facts DEF Poll
  <2>5. poll' = [poll EXCEPT ![w] = q] /\ tx' = [tx EXCEPT ![w] = t] /\ UNCHANGED <<db, pc>>
    BY <1>1, <1>3, Facts
  <2> HIDE DEF t, q
  <2>6. p.end \notin dead => o.block \in Path[p.end]
    BY <2>1 DEF JournalInv, BatchLogs, LogsOn
  <2>7. JournalInv(t, q)
    BY <2>1, <2>3, <2>4, <2>6 DEF JournalInv, Rooted, EndInv, BatchLogs, CursorLogs
  <2>8. PollInv("journal", t, q)
    BY <2>7 DEF PollInv
  <2>9. pc' = [pc EXCEPT ![w] = "journal"]
    BY <1>2, <2>5, Facts, Same
  <2>10. QED
    BY <1>2, <2>5, <2>8, <2>9, PollStepKeeps
<1>4. CASE ~(HeaderFor(w, Height[o.block]) = o.block /\ CanJournal(tx[w], o))
  BY <1>1, <1>2, <1>4, FailKeeps
<1>5. QED
  BY <1>3, <1>4

\* The end of the batch is served again: it never was abandoned, and all that
\* was fetched is of its branch.
LEMMA RecheckEndKeeps ==
    ASSUME IInv, TypeInv', NEW w \in Workers, RecheckEnd(w)
    PROVE  IInv'
<1> DEFINE t == tx[w]
           p == poll[w]
<1>1. /\ pc[w] = "journal" /\ Serves(Height[p.end]) /\ p.todo = {}
      /\ UNCHANGED chainVars
  BY DEF RecheckEnd, Asks
<1>2. CASE EndStands(w)
  <2>1. JournalInv(t, p)
    BY <1>1, Facts DEF PollInv
  <2>2. p.end \notin dead
    BY <1>1, <1>2, <2>1, Facts, Stands DEF EndStands, JournalInv, EndInv
  <2>3. RecheckInv(t, p)
    BY <1>1, <2>1, <2>2 DEF JournalInv, RecheckInv
  <2>4. PollInv("recheck", t, p)
    BY <2>3 DEF PollInv
  <2>5. pc' = [pc EXCEPT ![w] = "recheck"] /\ UNCHANGED <<db, tx, poll>>
    BY <1>2 DEF RecheckEnd, GoTo
  <2>6. tx' = [tx EXCEPT ![w] = t] /\ poll' = [poll EXCEPT ![w] = p]
    BY <2>5, Facts, Same
  <2>7. QED
    BY <1>1, <2>4, <2>5, <2>6, PollStepKeeps
<1>3. CASE ~EndStands(w)
  BY <1>1, <1>3, FailKeeps DEF RecheckEnd
<1>4. QED
  BY <1>2, <1>3

\* The cursor is served again: it is below the end of the batch on one branch,
\* and the two journals join.
LEMMA RecheckCursorKeeps ==
    ASSUME IInv, TypeInv', NEW w \in Workers, RecheckCursor(w)
    PROVE  IInv'
<1> DEFINE p == poll[w]
           t == Advanced(tx[w], p.end, p.headers)
           stands == /\ CursorStands(w)
                     /\ Height[p.end] = Target(w) => Covered(tx[w])
<1>1. pc[w] = "recheck" /\ Serves(Num(w)) /\ UNCHANGED chainVars
  BY DEF RecheckCursor, Asks
<1>2. CASE stands
  <2>1. RecheckInv(tx[w], p)
    BY <1>1, Facts DEF PollInv
  <2>2. tx[w].cursor \in Blocks /\ p.end \in Blocks
    BY <2>1 DEF RecheckInv, Rooted, EndInv
  <2>3. tx[w].cursor \in Path[p.end]
    <3>1. tx[w].cursor \notin dead
      BY <1>1, <1>2, <2>2, Facts, Stands DEF CursorStands, Num
    <3>2. QED
      BY <2>1, <3>1 DEF RecheckInv, EndInv
  <2>4. /\ t.start = tx[w].start /\ t.cursor = p.end /\ t.canonical = tx[w].canonical
        /\ t.anchors \subseteq p.headers \cup tx[w].anchors
    BY Facts DEF Tables, Advanced
  <2>5. tx' = [tx EXCEPT ![w] = t] /\ pc' = [pc EXCEPT ![w] = "commit"] /\ UNCHANGED <<db, poll>>
    BY <1>2 DEF RecheckCursor, GoTo
  <2> HIDE DEF t
  <2>6. Rooted(t)
    <3>1. tx[w].anchors \subseteq Path[p.end]
      BY <2>1, <2>2, <2>3, PathOfMember DEF RecheckInv, Rooted
    <3>2. t.start \in Nat /\ Height[p.end] \in Nat /\ Height[tx[w].cursor] \in Nat
      BY <2>2, <2>4, Facts, TreeAssumption DEF Tables
    <3>3. QED
      BY <2>1, <2>2, <2>4, <3>1, <3>2 DEF RecheckInv, Rooted, EndInv
  <2>7. t.canonical = CursorLogs(t)
    <3>1. /\ tx[w].start \in Nat /\ tx[w].start <= Height[tx[w].cursor]
          /\ CursorLogs(tx[w]) \cup BatchLogs(tx[w], p) =
                LogsOn(p.end, tx[w].start, Height[p.end])
      BY <2>1, <2>2, <2>3, Facts, LogsSplit
      DEF RecheckInv, Rooted, CursorLogs, BatchLogs, Tables
    <3>2. QED
      BY <2>1, <2>4, <3>1 DEF RecheckInv, CursorLogs
  <2>8. PollInv("commit", t, p)
    BY <2>6, <2>7 DEF PollInv, Exact
  <2>9. poll' = [poll EXCEPT ![w] = p]
    BY <2>5, Facts, Same
  <2>10. QED
    BY <1>1, <2>5, <2>8, <2>9, PollStepKeeps
<1>3. CASE ~stands
  BY <1>1, <1>3, FailKeeps DEF RecheckCursor
<1>4. QED
  BY <1>2, <1>3

LEMMA IndexingKeeps ==
    ASSUME IInv, TypeInv', NEW w \in Workers, Indexing(w)
    PROVE  IInv'
<1>1. CASE NothingNew(w)
  <2>1. /\ pc[w] = "plan" /\ pc' = [pc EXCEPT ![w] = "commit"]
        /\ UNCHANGED <<chainVars, db, tx, poll>>
    BY <1>1 DEF NothingNew, GoTo
  <2>2. PollInv("commit", tx[w], poll[w])
    BY <2>1, Facts DEF PollInv
  <2>3. tx' = [tx EXCEPT ![w] = tx[w]] /\ poll' = [poll EXCEPT ![w] = poll[w]]
    BY <2>1, Facts, Same
  <2>4. QED
    BY <2>1, <2>2, <2>3, PollStepKeeps
<1>2. CASE Commit(w)
  BY <1>2, LeaveKeeps DEF Commit
<1>3. QED
  BY <1>1, <1>2, ReadEndKeeps, QueryKeeps, ReadDetailsKeeps, FetchedKeeps, JournalLogKeeps,
     RecheckEndKeeps, RecheckCursorKeeps DEF Indexing

LEMMA FailureKeeps ==
    ASSUME IInv, TypeInv', NEW w \in Workers, Failure(w) \/ BlockMissing(w)
    PROVE  IInv'
<1>1. CASE CommitUnknown(w)
  BY <1>1, LeaveKeeps DEF CommitUnknown
<1>2. CASE Abort(w)
  BY <1>2, FailKeeps DEF Abort
<1>3. CASE Crash(w)
  BY <1>3, LeaveKeeps DEF Crash
<1>4. CASE BlockMissing(w)
  BY <1>4, FailKeeps DEF BlockMissing
<1>5. QED
  BY <1>1, <1>2, <1>3, <1>4 DEF Failure

----------------------------------------------------------------------------
\* When the tip moves, what was served is served or abandoned, and what was
\* abandoned stays so.
LEMMA ChainKeeps ==
    ASSUME ForksReturn = FALSE, IInv, TypeInv', ChainMoves
    PROVE  IInv'
<1>1. PICK b \in Blocks : /\ Path[b] \cap dead = {}
                          /\ tip' = b
                          /\ dead' = dead \cup (Path[tip] \ Path[b])
  BY DEF ChainMoves, MoveTip
<1>2. /\ Path[tip] \cup dead \subseteq Path[tip'] \cup dead'
      /\ dead \subseteq dead'
      /\ Path[tip'] \cap dead' = {}
  BY <1>1
<1>3. UNCHANGED <<db, pc, tx, poll>>
  BY DEF ChainMoves, workerVars
<1>4. ASSUME NEW t, Rooted(t)
      PROVE  Rooted(t)'
  BY <1>2, <1>4 DEF Rooted
<1>5. ASSUME NEW t, Exact(t)
      PROVE  Exact(t)'
  BY <1>4, <1>5 DEF Exact, CursorLogs
<1>6. ASSUME NEW t, NEW q, EndInv(t, q)
      PROVE  EndInv(t, q)'
  BY <1>2, <1>6 DEF EndInv
<1>7. ASSUME NEW point, NEW t, NEW q, PollInv(point, t, q)
      PROVE  PollInv(point, t, q)'
  <2>1. FetchInv(t, q) => FetchInv(t, q)'
    BY <1>2, <1>5, <1>6 DEF FetchInv, BatchLogs
  <2>2. JournalInv(t, q) => JournalInv(t, q)'
    BY <1>2, <1>4, <1>6 DEF JournalInv, BatchLogs, CursorLogs
  <2>3. RecheckInv(t, q) => RecheckInv(t, q)'
    BY <1>4, <1>6 DEF RecheckInv, BatchLogs, CursorLogs
  <2>4. QED
    BY <1>5, <1>7, <2>1, <2>2, <2>3 DEF PollInv, ScanInv, Unused
<1>8. DbInv'
  <2>1. (Unused(db) \/ Exact(db))
    BY DEF IInv, DbInv
  <2>2. Unused(db) \/ Exact(db)'
    BY <1>3, <1>5, <2>1 DEF Exact, Rooted, CursorLogs
  <2>3. QED
    BY <1>3, <2>2 DEF DbInv, Unused
<1>9. \A w \in Workers : PollInv(pc[w], tx[w], poll[w])'
  BY <1>3, <1>7 DEF IInv
<1>10. QED
  BY <1>2, <1>8, <1>9 DEF IInv, ChainInv

LEMMA InitKeeps == Init => IInv
<1> SUFFICES ASSUME Init PROVE IInv
  OBVIOUS
<1>1. TypeInv
  BY InitTyped
<1>2. ChainInv
  BY DEF Init, ChainInit, ChainInv
<1>3. DbInv
  <2>1. PICK p \in Products, h \in Histories : db = Empty(p, h)
    BY DEF Init
  <2>2. QED
    BY <2>1 DEF Empty, DbInv, Unused
<1>4. ASSUME NEW w \in Workers PROVE PollInv(pc[w], tx[w], poll[w])
  BY DEF Init, PollInv, NoPoll
<1>5. QED
  BY <1>1, <1>2, <1>3, <1>4 DEF IInv

LEMMA NextKeeps ==
    ASSUME ForksReturn = FALSE
    PROVE  IInv /\ [Next]_vars => IInv'
<1> SUFFICES ASSUME IInv, [Next]_vars PROVE IInv'
  OBVIOUS
<1>0. TypeInv'
  BY NextTyped DEF IInv
<1>1. CASE ChainMoves
  BY <1>0, <1>1, ChainKeeps
<1>2. ASSUME NEW w \in Workers, PollStep(w) \/ Failure(w) PROVE IInv'
  BY <1>0, <1>2, OpeningKeeps, RecoveringKeeps, IndexingKeeps, FailureKeeps DEF PollStep
<1>3. CASE UNCHANGED vars
  <2>1. UNCHANGED <<tip, dead, db, pc, tx, poll>>
    BY <1>3 DEF vars, workerVars, chainVars
  <2>2. QED
    BY <1>0, <2>1 DEF IInv, ChainInv, DbInv, PollInv, ScanInv, FetchInv, JournalInv, RecheckInv,
                      EndInv, BatchLogs, Unused, Exact, Rooted, CursorLogs
<1>4. QED
  BY <1>1, <1>2, <1>3 DEF Next

\* On every tree of blocks, with any number of workers, batch and window
\* sizes, failures and crashes, and provided an abandoned branch is not
\* served again: the committed journal is the logs of the branch that ends in
\* the committed cursor, none missing and none foreign.
THEOREM JournalIsExact ==
    ASSUME ForksReturn = FALSE
    PROVE  Spec => []JournalExact
<1>1. IInv => JournalExact
  BY DEF IInv, DbInv, Unused, Exact, CursorLogs, JournalExact
<1>2. QED
  BY InitKeeps, NextKeeps, <1>1, PTL DEF Spec

----------------------------------------------------------------------------
(* The ledger.  What a worker commits is exact; it also goes on from what  *)
(* is committed: only one transaction is open at a time, it starts from    *)
(* the committed tables, and it leaves their branch only after it has seen *)
(* it abandoned (LedgerInv).                                               *)

\* What the steps of w may rely on beside Facts.
LEMMA OpenFacts ==
    ASSUME LedgerInv, NEW w \in Workers
    PROVE  /\ IInv /\ TypeInv
           /\ pc[w] \notin {"idle", "lock"} => holder = w
           /\ OpenInv(pc[w], tx[w])
BY Facts DEF LedgerInv, LockInv

\* A step of w that publishes nothing and keeps the lock.
LEMMA OpenStepKeeps ==
    ASSUME LedgerInv, IInv', NEW w \in Workers, NEW t, NEW point,
           tx' = [tx EXCEPT ![w] = t], pc' = [pc EXCEPT ![w] = point],
           UNCHANGED <<chainVars, db, holder>>,
           pc[w] \notin {"idle", "lock"} \/ point = "lock",
           OpenInv(point, t)
    PROVE  LedgerInv'
<1>1. dead' = dead /\ db' = db /\ holder' = holder
  BY DEF chainVars
<1>2. ASSUME NEW v \in Workers
      PROVE  /\ pc'[v] = IF v = w THEN point ELSE pc[v]
             /\ tx'[v] = IF v = w THEN t ELSE tx[v]
  BY OpenFacts DEF TypeInv, TypeOK
<1>3. LockInv'
  BY <1>1, <1>2, OpenFacts DEF LockInv
<1>4. ASSUME NEW v \in Workers PROVE OpenInv(pc[v], tx[v])'
  <2>1. OpenInv(pc'[v], tx'[v])
    BY <1>2, OpenFacts
  <2>2. QED
    BY <1>1, <2>1 DEF OpenInv, Follows
<1>5. QED
  BY <1>3, <1>4 DEF LedgerInv

\* Such a step that leaves the tables alone, past the comparison of the cursor.
LEMMA GoOnKeeps ==
    ASSUME LedgerInv, IInv', NEW w \in Workers, NEW point,
           pc' = [pc EXCEPT ![w] = point],
           UNCHANGED <<chainVars, db, holder, tx>>,
           pc[w] \notin {"idle", "lock", "create"},
           point \notin {"check", "scan", "create"} \/ point = pc[w]
    PROVE  LedgerInv'
<1>1. tx' = [tx EXCEPT ![w] = tx[w]]
  BY OpenFacts, Same
<1>2. OpenInv(point, tx[w])
  BY OpenFacts DEF OpenInv
<1>3. QED
  BY <1>1, <1>2, OpenStepKeeps

\* The end of a poll: if it published its tables, no other was open.
LEMMA LeaveGivesUp ==
    ASSUME LedgerInv, IInv', NEW w \in Workers, Leave(w), UNCHANGED chainVars,
           db' = db \/ pc[w] = "commit"
    PROVE  LedgerInv'
<1>1. dead' = dead
  BY DEF chainVars
<1>2. ASSUME NEW v \in Workers
      PROVE  /\ pc'[v] = IF v = w THEN "idle" ELSE pc[v]
             /\ tx'[v] = IF v = w THEN NoTables ELSE tx[v]
  BY OpenFacts DEF TypeInv, TypeOK, Leave, GoTo
<1>3. LockInv'
  BY <1>2, OpenFacts DEF LockInv, Leave
<1>4. ASSUME NEW v \in Workers PROVE OpenInv(pc[v], tx[v])'
  <2>1. CASE pc'[v] \in {"idle", "lock"}
    BY <2>1 DEF OpenInv
  <2>2. CASE pc'[v] \notin {"idle", "lock"}
    <3>1. v # w /\ pc'[v] = pc[v] /\ tx'[v] = tx[v]
      BY <1>2, <2>2
    <3>2. db' = db
      BY <2>2, <3>1, OpenFacts
    <3>3. QED
      BY <1>1, <3>1, <3>2, OpenFacts DEF OpenInv, Follows
  <2>3. QED
    BY <2>1, <2>2
<1>5. QED
  BY <1>3, <1>4 DEF LedgerInv

LEMMA FailGivesUp ==
    ASSUME LedgerInv, IInv', NEW w \in Workers, Fail(w) \/ FailFetch(w), UNCHANGED chainVars
    PROVE  LedgerInv'
BY LeaveGivesUp DEF Fail, FailFetch

----------------------------------------------------------------------------
LEMMA OpeningFollows ==
    ASSUME LedgerInv, IInv', NEW w \in Workers, Opening(w)
    PROVE  LedgerInv'
<1>1. CASE ObserveHead(w)
  <2>1. /\ pc' = [pc EXCEPT ![w] = "lock"]
        /\ UNCHANGED <<chainVars, db, holder, tx>>
    BY <1>1 DEF ObserveHead, GoTo
  <2>2. tx' = [tx EXCEPT ![w] = tx[w]]
    BY <2>1, OpenFacts, Same
  <2>3. OpenInv("lock", tx[w])
    BY DEF OpenInv
  <2>4. QED
    BY <2>1, <2>2, <2>3, OpenStepKeeps
<1>2. CASE Busy(w)
  BY <1>2, FailGivesUp DEF Busy
<1>3. CASE Open(w)
  <2> DEFINE point == IF db.cursor = NoBlock THEN "create" ELSE "check"
  <2>1. /\ holder = NoWorker /\ holder' = w
        /\ tx' = [tx EXCEPT ![w] = db] /\ pc' = [pc EXCEPT ![w] = point]
        /\ UNCHANGED <<chainVars, db>>
    BY <1>3 DEF Open, GoTo, LockFree
  <2>2. ASSUME NEW v \in Workers, v # w
        PROVE  pc'[v] = pc[v] /\ tx'[v] = tx[v] /\ pc[v] \in {"idle", "lock"}
    BY <2>1, <2>2, OpenFacts, IndexerAssumption DEF TypeInv, TypeOK
  <2>3. pc'[w] = point /\ tx'[w] = db
    BY <2>1, OpenFacts DEF TypeInv, TypeOK
  <2>4. LockInv'
    BY <2>1, <2>2 DEF LockInv
  <2>5. OpenInv(pc[w], tx[w])'
    <3>1. db.cursor # NoBlock => db.cursor \in Path[db.cursor]
      BY OpenFacts, Facts, TreeAssumption DEF DbInv, Unused, Exact, Rooted
    <3>2. QED
      BY <2>1, <2>3, <3>1 DEF OpenInv, Follows
  <2>6. ASSUME NEW v \in Workers PROVE OpenInv(pc[v], tx[v])'
    BY <2>2, <2>5 DEF OpenInv
  <2>7. QED
    BY <2>4, <2>6 DEF LedgerInv
<1>4. CASE Refuse(w)
  BY <1>4, FailGivesUp DEF Refuse
<1>5. CASE CreateCursor(w)
  <2> DEFINE b == Header(StartBlock[w])
             t == [tx[w] EXCEPT !.start = StartBlock[w], !.cursor = b, !.anchors = {b}]
  <2>1. /\ pc[w] = "create" /\ pc' = [pc EXCEPT ![w] = "check"]
        /\ UNCHANGED <<chainVars, db, holder>>
    BY <1>5 DEF CreateCursor, GoTo, Asks
  <2>2. tx' = [tx EXCEPT ![w] = t] /\ t.start = StartBlock[w]
    BY <1>5, OpenFacts DEF CreateCursor, TypeInv, TypeOK, Tables
  <2>3. db.cursor = NoBlock
    BY <2>1, OpenFacts DEF OpenInv
  <2> HIDE DEF t
  <2>4. OpenInv("check", t)
    BY <2>2, <2>3 DEF OpenInv, Follows
  <2>5. QED
    BY <2>1, <2>2, <2>4, OpenStepKeeps
<1>6. CASE CheckCursor(w)
  <2>1. pc[w] = "check" /\ Serves(Num(w)) /\ UNCHANGED <<chainVars, db, holder, tx>>
    BY <1>6 DEF CheckCursor, Asks
  <2>2. CASE CursorStands(w)
    <3>1. pc' = [pc EXCEPT ![w] = "plan"]
      BY <1>6, <2>2 DEF CheckCursor, GoTo
    <3>2. QED
      BY <2>1, <3>1, GoOnKeeps
  <2>3. CASE ~CursorStands(w)
    <3>1. pc' = [pc EXCEPT ![w] = "scan"]
      BY <1>6, <2>3 DEF CheckCursor, GoTo
    <3>2. Exact(tx[w]) /\ tip \in Blocks
      BY <2>1, OpenFacts, Facts DEF PollInv
    <3>3. tx[w].cursor \in Blocks /\ Height[tx[w].cursor] \in Nat
      BY <3>2, TreeAssumption DEF Exact, Rooted
    <3>4. tx[w].cursor \notin Path[tip]
      <4>1. /\ Header(Num(w)) \in Path[tip] /\ Header(Num(w)) # tx[w].cursor
            /\ Height[Header(Num(w))] = Height[tx[w].cursor]
        BY <2>1, <2>3, <3>2, <3>3, Answered DEF Num, CursorStands
      <4>2. QED
        BY <3>2, <4>1, TreeAssumption
    <3>5. tx[w].cursor \in dead
      BY <3>2, <3>4 DEF Exact, Rooted
    <3>6. OpenInv("scan", tx[w])
      BY <2>1, <3>5, OpenFacts DEF OpenInv
    <3>7. tx' = [tx EXCEPT ![w] = tx[w]]
      BY <2>1, OpenFacts, Same
    <3>8. QED
      BY <2>1, <3>1, <3>6, <3>7, OpenStepKeeps
  <2>4. QED
    BY <2>2, <2>3
<1>7. QED
  BY <1>1, <1>2, <1>3, <1>4, <1>5, <1>6 DEF Opening

\* A rewind leaves the committed branch, which was abandoned.
LEMMA RecoveringFollows ==
    ASSUME LedgerInv, IInv', NEW w \in Workers, Recovering(w)
    PROVE  LedgerInv'
<1>1. CASE SkipAnchor(w)
  <2>1. pc[w] = "scan" /\ UNCHANGED <<chainVars, db, holder, pc, tx>>
    BY <1>1 DEF SkipAnchor, Asks
  <2>2. pc' = [pc EXCEPT ![w] = "scan"]
    BY <2>1, OpenFacts, Same
  <2>3. QED
    BY <2>1, <2>2, GoOnKeeps
<1>2. CASE Rewind(w)
  <2>1. PICK a \in poll[w].scan :
          Asks(w, "scan", Height[a]) /\ tx' = [tx EXCEPT ![w] = Restore(@, a)]
    BY <1>2 DEF Rewind
  <2> DEFINE t == Restore(tx[w], a)
  <2>2. pc[w] = "scan" /\ tx' = [tx EXCEPT ![w] = t]
    BY <2>1 DEF Asks
  <2>3. pc' = [pc EXCEPT ![w] = "replay"] /\ UNCHANGED <<chainVars, db, holder>>
    BY <1>2 DEF Rewind, GoTo
  <2>4. t.start = tx[w].start
    BY OpenFacts, Facts, RestoreStep DEF TypeInv, Poll
  <2>5. Follows(tx[w]) /\ db.cursor \in {NoBlock, tx[w].cursor} /\ tx[w].cursor \in dead
    BY <2>2, OpenFacts DEF OpenInv
  <2> HIDE DEF t
  <2>6. OpenInv("replay", t)
    BY <2>4, <2>5 DEF OpenInv, Follows
  <2>7. QED
    BY <2>2, <2>3, <2>6, OpenStepKeeps
<1>3. CASE NoAncestor(w)
  BY <1>3, FailGivesUp DEF NoAncestor
<1>4. CASE Replay(w)
  <2>1. PICK o \in poll[w].todo :
          IF CanProject(tx[w], o)
          THEN /\ tx' = [tx EXCEPT ![w] = Project(@, o)]
               /\ UNCHANGED <<db, holder, pc, batch>>
          ELSE Fail(w)
    BY <1>4 DEF Replay
  <2>2. pc[w] = "replay" /\ UNCHANGED chainVars
    BY <1>4 DEF Replay
  <2>3. CASE CanProject(tx[w], o)
    <3> DEFINE t == Project(tx[w], o)
    <3>1. t.start = tx[w].start /\ t.cursor = tx[w].cursor
      BY <2>3, OpenFacts, Facts, ProjectStep DEF TypeInv, Poll, SameJournal
    <3>2. /\ tx' = [tx EXCEPT ![w] = t] /\ pc' = [pc EXCEPT ![w] = "replay"]
          /\ UNCHANGED <<db, holder>>
      BY <2>1, <2>2, <2>3, OpenFacts, Same
    <3> HIDE DEF t
    <3>3. OpenInv("replay", t)
      BY <2>2, <3>1, OpenFacts DEF OpenInv, Follows
    <3>4. QED
      BY <2>2, <3>2, <3>3, OpenStepKeeps
  <2>4. CASE ~CanProject(tx[w], o)
    BY <2>1, <2>2, <2>4, FailGivesUp
  <2>5. QED
    BY <2>3, <2>4
<1>5. CASE Replayed(w)
  BY <1>5, GoOnKeeps DEF Replayed, GoTo
<1>6. QED
  BY <1>1, <1>2, <1>3, <1>4, <1>5 DEF Recovering

\* The cursor advances along the branch of the end of the batch.
LEMMA RecheckCursorFollows ==
    ASSUME LedgerInv, IInv', NEW w \in Workers, RecheckCursor(w)
    PROVE  LedgerInv'
<1> DEFINE p == poll[w]
           t == Advanced(tx[w], p.end, p.headers)
           stands == /\ CursorStands(w)
                     /\ Height[p.end] = Target(w) => Covered(tx[w])
<1>1. pc[w] = "recheck" /\ Serves(Num(w)) /\ UNCHANGED chainVars
  BY DEF RecheckCursor, Asks
<1>2. CASE stands
  <2>1. RecheckInv(tx[w], p) /\ ChainInv /\ tip \in Blocks
    BY <1>1, OpenFacts, Facts DEF PollInv
  <2>2. tx[w].cursor \in Blocks /\ p.end \in Blocks
    BY <2>1 DEF RecheckInv, Rooted, EndInv
  <2>3. tx[w].cursor \in Path[p.end]
    <3>1. tx[w].cursor \notin dead
      BY <1>1, <1>2, <2>1, <2>2, Stands DEF CursorStands, Num
    <3>2. QED
      BY <2>1, <3>1 DEF RecheckInv, EndInv
  <2>4. Path[tx[w].cursor] \subseteq Path[p.end]
    BY <2>2, <2>3, PathOfMember
  <2>5. t.start = tx[w].start /\ t.cursor = p.end
    BY OpenFacts, Facts DEF Tables, Advanced
  <2>6. /\ tx' = [tx EXCEPT ![w] = t] /\ pc' = [pc EXCEPT ![w] = "commit"]
        /\ UNCHANGED <<db, holder>>
    BY <1>2 DEF RecheckCursor, GoTo
  <2> HIDE DEF t
  <2>7. OpenInv("commit", t)
    BY <1>1, <2>4, <2>5, OpenFacts DEF OpenInv, Follows
  <2>8. QED
    BY <1>1, <2>6, <2>7, OpenStepKeeps
<1>3. CASE ~stands
  BY <1>1, <1>3, FailGivesUp DEF RecheckCursor
<1>4. QED
  BY <1>2, <1>3

LEMMA JournalLogFollows ==
    ASSUME LedgerInv, IInv', NEW w \in Workers, JournalLog(w)
    PROVE  LedgerInv'
<1>1. PICK o \in poll[w].todo :
        IF HeaderFor(w, Height[o.block]) = o.block /\ CanJournal(tx[w], o)
        THEN /\ tx' = [tx EXCEPT ![w] = Journal(@, o)]
             /\ UNCHANGED <<db, holder, pc, batch>>
        ELSE Fail(w)
  BY DEF JournalLog
<1>2. pc[w] = "journal" /\ UNCHANGED chainVars
  BY DEF JournalLog
<1>3. CASE HeaderFor(w, Height[o.block]) = o.block /\ CanJournal(tx[w], o)
  <2> DEFINE t == Journal(tx[w], o)
  <2>1. t.start = tx[w].start /\ t.cursor = tx[w].cursor
    BY <1>3, OpenFacts, Facts, JournalStep DEF TypeInv, Poll
  <2>2. /\ tx' = [tx EXCEPT ![w] = t] /\ pc' = [pc EXCEPT ![w] = "journal"]
        /\ UNCHANGED <<db, holder>>
    BY <1>1, <1>2, <1>3, OpenFacts, Same
  <2> HIDE DEF t
  <2>3. OpenInv("journal", t)
    BY <1>2, <2>1, OpenFacts DEF OpenInv, Follows
  <2>4. QED
    BY <1>2, <2>2, <2>3, OpenStepKeeps
<1>4. CASE ~(HeaderFor(w, Height[o.block]) = o.block /\ CanJournal(tx[w], o))
  BY <1>1, <1>2, <1>4, FailGivesUp
<1>5. QED
  BY <1>3, <1>4

LEMMA IndexingFollows ==
    ASSUME LedgerInv, IInv', NEW w \in Workers, Indexing(w)
    PROVE  LedgerInv'
<1>1. CASE NothingNew(w)
  BY <1>1, GoOnKeeps DEF NothingNew, GoTo
<1>2. CASE ReadEnd(w)
  BY <1>2, GoOnKeeps DEF ReadEnd, Asks, GoTo
<1>3. CASE Query(w)
  <2>1. pc[w] = "fetch" /\ UNCHANGED <<chainVars, db, holder, pc, tx>>
    BY <1>3 DEF Query
  <2>2. QED
    BY <2>1, OpenFacts, Same, GoOnKeeps
<1>4. CASE ReadDetails(w)
  <2>1. pc[w] = "fetch" /\ UNCHANGED chainVars
    BY <1>4 DEF ReadDetails
  <2>2. CASE UNCHANGED <<db, holder, pc, tx>>
    BY <2>1, <2>2, OpenFacts, Same, GoOnKeeps
  <2>3. CASE FailFetch(w)
    BY <2>1, <2>3, FailGivesUp
  <2>4. QED
    BY <1>4, <2>2, <2>3 DEF ReadDetails
<1>5. CASE Fetched(w)
  <2>1. CASE Paired(poll[w].todo)
    BY <1>5, <2>1, GoOnKeeps DEF Fetched, GoTo
  <2>2. CASE ~Paired(poll[w].todo)
    BY <1>5, <2>2, FailGivesUp DEF Fetched
  <2>3. QED
    BY <2>1, <2>2
<1>6. CASE RecheckEnd(w)
  <2>1. CASE EndStands(w)
    BY <1>6, <2>1, GoOnKeeps DEF RecheckEnd, Asks, GoTo
  <2>2. CASE ~EndStands(w)
    BY <1>6, <2>2, FailGivesUp DEF RecheckEnd
  <2>3. QED
    BY <2>1, <2>2
<1>7. CASE Commit(w)
  BY <1>7, LeaveGivesUp DEF Commit
<1>8. QED
  BY <1>1, <1>2, <1>3, <1>4, <1>5, <1>6, <1>7, JournalLogFollows, RecheckCursorFollows
  DEF Indexing

LEMMA FailureGivesUp ==
    ASSUME LedgerInv, IInv', NEW w \in Workers, Failure(w) \/ BlockMissing(w)
    PROVE  LedgerInv'
<1>1. CASE CommitUnknown(w)
  BY <1>1, LeaveGivesUp DEF CommitUnknown
<1>2. CASE Abort(w)
  BY <1>2, FailGivesUp DEF Abort
<1>3. CASE Crash(w)
  BY <1>3, LeaveGivesUp DEF Crash
<1>4. CASE BlockMissing(w)
  BY <1>4, FailGivesUp DEF BlockMissing
<1>5. QED
  BY <1>1, <1>2, <1>3, <1>4 DEF Failure

\* What was abandoned stays so.
LEMMA ChainFollows ==
    ASSUME LedgerInv, IInv', ChainMoves, ForksReturn = FALSE
    PROVE  LedgerInv'
<1>1. dead \subseteq dead'
  BY DEF ChainMoves, MoveTip
<1>2. UNCHANGED <<db, holder, pc, tx>>
  BY DEF ChainMoves, workerVars
<1>3. ASSUME NEW w \in Workers PROVE OpenInv(pc[w], tx[w])'
  BY <1>1, <1>2, OpenFacts DEF OpenInv, Follows
<1>4. QED
  BY <1>2, <1>3 DEF LedgerInv, LockInv

LEMMA InitFollows == Init => LedgerInv
<1> SUFFICES ASSUME Init PROVE LedgerInv
  OBVIOUS
<1>1. \A w \in Workers : pc[w] = "idle"
  BY DEF Init
<1>2. QED
  BY <1>1, InitKeeps DEF LedgerInv, LockInv, OpenInv

LEMMA NextFollows ==
    ASSUME ForksReturn = FALSE
    PROVE  LedgerInv /\ [Next]_vars => LedgerInv'
<1> SUFFICES ASSUME LedgerInv, [Next]_vars PROVE LedgerInv'
  OBVIOUS
<1>0. IInv'
  BY NextKeeps DEF LedgerInv
<1>1. CASE ChainMoves
  BY <1>0, <1>1, ChainFollows
<1>2. ASSUME NEW w \in Workers, PollStep(w) \/ Failure(w) PROVE LedgerInv'
  BY <1>0, <1>2, OpeningFollows, RecoveringFollows, IndexingFollows, FailureGivesUp
  DEF PollStep
<1>3. CASE UNCHANGED vars
  <2>1. UNCHANGED <<dead, db, holder, pc, tx>>
    BY <1>3 DEF vars, workerVars, chainVars
  <2>2. QED
    BY <1>0, <2>1 DEF LedgerInv, LockInv, OpenInv, Follows
<1>4. QED
  BY <1>1, <1>2, <1>3 DEF Next

----------------------------------------------------------------------------
(* The refinement.                                                         *)

\* A commit is one step of the ledger: its first block, a block further along
\* the branch, or a block of another branch after the cursor's was abandoned.
LEMMA CommitPublishes ==
    ASSUME LedgerInv, NEW w \in Workers, pc[w] = "commit", db' = tx[w], UNCHANGED chainVars
    PROVE  L!LedgerNext
<1> DEFINE s == tx[w].start
           b == tx[w].cursor
<1>1. Exact(tx[w]) /\ Follows(tx[w])
  BY OpenFacts, Facts DEF PollInv, OpenInv
<1>2. b \in L!Served /\ s <= Height[b]
  BY <1>1 DEF Exact, Rooted, L!Served
<1>3. L!Publish(s, b)
  BY <1>1 DEF Exact, CursorLogs, L!Publish, L!LogsOn, LogsOn, L!chainVars, chainVars
<1> HIDE DEF s, b
<1>4. CASE db.cursor = NoBlock
  <2>1. s \in {StartBlock[v] : v \in Workers}
    BY <1>1, <1>4 DEF Follows, s
  <2>2. L!Begin
    BY <1>2, <1>3, <1>4, <2>1 DEF L!Begin
  <2>3. QED
    BY <2>2 DEF L!LedgerNext
<1>5. CASE db.cursor # NoBlock
  <2>1. s = db.start /\ (db.cursor \in Path[b] \/ db.cursor \in dead)
    BY <1>1, <1>5 DEF Follows, s, b
  <2>2. db.cursor \in Blocks
    BY <1>5, OpenFacts, Facts DEF DbInv, Unused, Exact, Rooted
  <2>3. L!Advance \/ L!Recover
    BY <1>2, <1>3, <2>1, <2>2 DEF L!Advance, L!Recover
  <2>4. QED
    BY <2>3 DEF L!LedgerNext
<1>6. QED
  BY <1>4, <1>5

\* Every other step of a worker leaves the committed tables alone.
LEMMA OthersStutter ==
    ASSUME NEW w \in Workers, PollStep(w) \/ Failure(w)
    PROVE  UNCHANGED chainVars /\ (db' = db \/ (db' = tx[w] /\ pc[w] = "commit"))
<1>1. CASE Opening(w)
  BY <1>1 DEF Opening, ObserveHead, Busy, Open, Refuse, CreateCursor, CheckCursor, Fail
<1>2. CASE Recovering(w)
  BY <1>2 DEF Recovering, SkipAnchor, Rewind, NoAncestor, Replay, Replayed, Fail
<1>3. CASE Indexing(w)
  BY <1>3 DEF Indexing, NothingNew, ReadEnd, Query, ReadDetails, Fetched, JournalLog,
              RecheckEnd, RecheckCursor, Commit, Fail, FailFetch
<1>4. CASE BlockMissing(w) \/ Failure(w)
  BY <1>4 DEF BlockMissing, Failure, CommitUnknown, Abort, Crash, Fail, FailFetch
<1>5. QED
  BY <1>1, <1>2, <1>3, <1>4 DEF PollStep

\* Before the first poll, the ledger is as new.
LEMMA InitIsLedger == Init => L!LedgerInit
<1> SUFFICES ASSUME Init PROVE L!LedgerInit
  OBVIOUS
<1>1. PICK p \in Products, h \in Histories : db = Empty(p, h)
  BY DEF Init
<1>2. db.start = 0 /\ db.cursor = NoBlock /\ db.canonical = {}
  BY <1>1 DEF Empty
<1>3. QED
  BY <1>2 DEF Init, ChainInit, L!LedgerInit, L!ChainInit

\* The commit of poll_once is the ledger's step; all its other steps stutter.
LEMMA StepIsLedger == LedgerInv /\ [Next]_vars => [L!LedgerNext]_<<L!chainVars, L!ledger>>
<1> SUFFICES ASSUME LedgerInv, [Next]_vars
             PROVE  L!LedgerNext \/ UNCHANGED <<L!chainVars, L!ledger>>
  OBVIOUS
<1>1. CASE ChainMoves
  <2>1. L!MoveTip /\ UNCHANGED L!ledger
    BY <1>1 DEF ChainMoves, MoveTip, workerVars, L!MoveTip, L!ledger
  <2>2. QED
    BY <2>1 DEF L!LedgerNext
<1>2. ASSUME NEW w \in Workers, PollStep(w) \/ Failure(w)
      PROVE  L!LedgerNext \/ UNCHANGED <<L!chainVars, L!ledger>>
  <2>1. CASE db' = db
    BY <1>2, <2>1, OthersStutter DEF chainVars, L!chainVars, L!ledger
  <2>2. CASE db' = tx[w] /\ pc[w] = "commit"
    BY <1>2, <2>2, OthersStutter, CommitPublishes
  <2>3. QED
    BY <1>2, <2>1, <2>2, OthersStutter
<1>3. CASE UNCHANGED vars
  BY <1>3 DEF vars, workerVars, chainVars, L!chainVars, L!ledger
<1>4. QED
  BY <1>1, <1>2, <1>3 DEF Next

\* On every tree of blocks, with any number of workers, batch and window
\* sizes, failures and crashes, and provided an abandoned branch is not
\* served again: what poll_once commits is a behaviour of the ledger.  The
\* cursor begins at a deployment anchor, advances along one branch, and
\* leaves it only when it was abandoned, each time with the whole journal.
THEOREM IndexerImplementsLedger ==
    ASSUME ForksReturn = FALSE
    PROVE  Spec => ImplementsLedger
BY InitFollows, NextFollows, InitIsLedger, StepIsLedger, PTL DEF Spec, ImplementsLedger, L!LedgerSpec

----------------------------------------------------------------------------
(***************************************************************************)
(* The committed tables are what the committed journal says, through any   *)
(* batches, rewinds and replays: the history rows (HistoryExact), what a   *)
(* legacy row was taken over on (AdoptionSound), the products, bindings    *)
(* and shipments (TablesExact), and the anchors a later rewind needs       *)
(* (AnchorsUsable).  The inductive invariants are HistoryInv, AdoptionInv  *)
(* and ShowsInv.                                                           *)
(***************************************************************************)

----------------------------------------------------------------------------
(* What _project writes.                                                   *)

\* What a log leaves of product p.
ProductAfter(p, o) ==
    CASE o.type = "ProductRegistered" ->
            [name |-> o.name, uri |-> o.uri, owner |-> o.who, source |-> "chain_event",
             reg |-> "indexed", height |-> Height[o.block], tx |-> o.tx]
      [] o.type = "ProductMetadataUpdated" -> [p EXCEPT !.uri = o.uri]
      [] OTHER -> p

StatusAfter(s, o) ==
    CASE o.type = "CheckpointRecorded" -> o.status
      [] o.type = "DeliveryCompleted" -> 3
      [] OTHER -> s

HandlerAfter(h, o) ==
    IF o.type \in {"CheckpointRecorded", "CustodyTransferred", "DeliveryCompleted"}
    THEN o.who ELSE h

RowsAfter(rows, o) == IF IsRow(o) THEN rows \cup {RowOf(o)} ELSE rows

\* The binding a log finds, or makes.
BaseFor(t, o) ==
    IF t.bind[o.key] # Unbound THEN t.bind[o.key].base ELSE Baseline(t.product[o.key], o)
StatusFor(t, o) == IF t.bind[o.key] # Unbound THEN t.bind[o.key].status ELSE 0
HandlerFor(t, o) == IF t.bind[o.key] # Unbound THEN t.bind[o.key].handler ELSE Nobody

\* u is t after o's product was bound.
LEMMA BindValues ==
    ASSUME NEW t \in Tables, NEW o \in Logs, CanBind(t, o),
           t.bind[o.key] # Unbound => t.product[o.key] # NoProduct
    PROVE  /\ Touches(Bind(t, o), t, o.key)
           /\ Bind(t, o).bind[o.key] = [base |-> BaseFor(t, o), status |-> StatusFor(t, o),
                                        handler |-> HandlerFor(t, o)]
           /\ t.product[o.key] # NoProduct => Bind(t, o).product[o.key] = t.product[o.key]
           /\ t.bind[o.key] = Unbound =>
                 /\ o.type = "ProductRegistered" /\ Adoptable(t, o)
                 /\ t.product[o.key] = NoProduct =>
                       Bind(t, o).product[o.key] = Baseline(NoProduct, o)
           /\ Bind(t, o).ship = t.ship /\ Bind(t, o).hist = t.hist
<1>0. o.key \in Keys
  BY LogFields
<1>1. Touches(Bind(t, o), t, o.key)
  BY BindTyped
<1>2. CASE t.bind[o.key] # Unbound
  <2>1. Bind(t, o) = t
    BY <1>2 DEF Bind
  <2>2. t.bind[o.key] \in Binding
    BY <1>0, <1>2 DEF Tables
  <2>3. t.bind[o.key] = [base |-> BaseFor(t, o), status |-> StatusFor(t, o),
                         handler |-> HandlerFor(t, o)]
    BY <1>2, <2>2 DEF Binding, BaseFor, StatusFor, HandlerFor
  <2>4. QED
    BY <1>1, <1>2, <2>1, <2>3
<1>3. CASE t.bind[o.key] = Unbound
  <2>1. o.type = "ProductRegistered" /\ Adoptable(t, o)
    BY <1>3 DEF CanBind
  <2> DEFINE was == t.product[o.key]
             base == Baseline(was, o)
             bound == [base |-> base, status |-> 0, handler |-> Nobody]
             row == IF was = NoProduct THEN base ELSE was
  <2>2. Bind(t, o) = [t EXCEPT !.bind[o.key] = bound, !.product[o.key] = row]
    BY <1>3 DEF Bind
  <2>3. bound = [base |-> BaseFor(t, o), status |-> StatusFor(t, o),
                 handler |-> HandlerFor(t, o)]
    BY <1>3 DEF BaseFor, StatusFor, HandlerFor
  <2>4. /\ was # NoProduct => row = was
        /\ was = NoProduct => row = Baseline(NoProduct, o)
    OBVIOUS
  <2> HIDE DEF bound, row
  <2>5. /\ Bind(t, o).bind[o.key] = bound /\ Bind(t, o).product[o.key] = row
        /\ Bind(t, o).ship = t.ship /\ Bind(t, o).hist = t.hist
    BY <1>0, <2>2 DEF Tables
  <2>6. QED
    BY <1>1, <1>3, <2>1, <2>3, <2>4, <2>5
<1>4. QED
  BY <1>2, <1>3

LEMMA BindingFields ==
    ASSUME NEW b \in Binding, NEW s, NEW h
    PROVE  [b EXCEPT !.status = s, !.handler = h] =
              [base |-> b.base, status |-> s, handler |-> h]
<1> DEFINE c == [b EXCEPT !.status = s]
<1>1. c = [base |-> b.base, status |-> s, handler |-> b.handler]
  BY DEF Binding
<1>2. [b EXCEPT !.status = s, !.handler = h] = [c EXCEPT !.handler = h]
  OBVIOUS
<1> HIDE DEF c
<1>3. [c EXCEPT !.handler = h] = [base |-> b.base, status |-> s, handler |-> h]
  BY <1>1
<1>4. QED
  BY <1>2, <1>3

LEMMA EffectValues ==
    ASSUME NEW t \in Tables, NEW o \in Logs,
           t.bind[o.key] \in Binding, t.product[o.key] \in Product
    PROVE  /\ Effect(t, o).bind[o.key] =
                 [base |-> t.bind[o.key].base,
                  status |-> StatusAfter(t.bind[o.key].status, o),
                  handler |-> HandlerAfter(t.bind[o.key].handler, o)]
           /\ Effect(t, o).product[o.key] = ProductAfter(t.product[o.key], o)
           /\ Effect(t, o).ship = t.ship
           /\ Effect(t, o).hist = RowsAfter(t.hist, o)
<1> DEFINE k == o.key
           b == t.bind[k]
           u == Effect(t, o)
<1>0. k \in Keys
  BY LogFields
<1>a. b = [base |-> b.base, status |-> b.status, handler |-> b.handler]
  BY DEF Binding
<1>1. CASE o.type = "ProductRegistered"
  <2> DEFINE p == ProductAfter(t.product[k], o)
  <2>1. u = [t EXCEPT !.product[k] = p]
    BY <1>1 DEF Effect, Registered, ProductAfter
  <2>2. StatusAfter(b.status, o) = b.status /\ HandlerAfter(b.handler, o) = b.handler
    BY <1>1 DEF StatusAfter, HandlerAfter
  <2>3. RowsAfter(t.hist, o) = t.hist
    BY <1>1 DEF RowsAfter, IsRow
  <2> HIDE DEF p, u
  <2>4. u.bind = t.bind /\ u.product[k] = p /\ u.ship = t.ship /\ u.hist = t.hist
    BY <1>0, <2>1 DEF Tables
  <2>5. QED
    BY <1>a, <2>2, <2>3, <2>4 DEF p, u
<1>2. CASE o.type = "ProductMetadataUpdated"
  <2> DEFINE p == ProductAfter(t.product[k], o)
  <2>1. u = [t EXCEPT !.product[k] = p]
    BY <1>0, <1>2 DEF Effect, MetadataUpdated, ProductAfter, Tables
  <2>2. StatusAfter(b.status, o) = b.status /\ HandlerAfter(b.handler, o) = b.handler
    BY <1>2 DEF StatusAfter, HandlerAfter
  <2>3. RowsAfter(t.hist, o) = t.hist
    BY <1>2 DEF RowsAfter, IsRow
  <2> HIDE DEF p, u
  <2>4. u.bind = t.bind /\ u.product[k] = p /\ u.ship = t.ship /\ u.hist = t.hist
    BY <1>0, <2>1 DEF Tables
  <2>5. QED
    BY <1>a, <2>2, <2>3, <2>4 DEF p, u
<1>3. ASSUME o.type \in {"CheckpointRecorded", "CustodyTransferred", "DeliveryCompleted"}
      PROVE  /\ u.bind[k] = [base |-> b.base, status |-> StatusAfter(b.status, o),
                             handler |-> HandlerAfter(b.handler, o)]
             /\ u.product = t.product /\ u.ship = t.ship
             /\ u.hist = RowsAfter(t.hist, o)
  <2> DEFINE new == [base |-> b.base, status |-> StatusAfter(b.status, o),
                     handler |-> HandlerAfter(b.handler, o)]
             rows == RowsAfter(t.hist, o)
  <2>1. CASE o.type = "CheckpointRecorded"
    <3>0. StatusAfter(b.status, o) = o.status /\ HandlerAfter(b.handler, o) = o.who
      BY <2>1 DEF StatusAfter, HandlerAfter
    <3>a. [b EXCEPT !.status = o.status, !.handler = o.who] =
             [base |-> b.base, status |-> o.status, handler |-> o.who]
      BY BindingFields
    <3>1. new = [b EXCEPT !.status = o.status, !.handler = o.who]
      BY <3>0, <3>a
    <3>2. rows = t.hist \cup {RowOf(o)}
      BY <2>1 DEF RowsAfter, IsRow
    <3>3. u = [t EXCEPT !.bind[k] = [b EXCEPT !.status = o.status, !.handler = o.who],
                        !.hist = t.hist \cup {RowOf(o)}]
      BY <1>0, <2>1 DEF Effect, CheckpointRecorded, Tables
    <3>4. u = [t EXCEPT !.bind[k] = new, !.hist = rows]
      BY <3>1, <3>2, <3>3
    <3> HIDE DEF new, rows, u
    <3>5. u.bind[k] = new /\ u.product = t.product /\ u.ship = t.ship /\ u.hist = rows
      BY <1>0, <3>4 DEF Tables
    <3>6. QED
      BY <3>5 DEF new, rows
  <2>2. CASE o.type = "CustodyTransferred"
    <3>1. new = [b EXCEPT !.handler = o.who]
      BY <2>2 DEF StatusAfter, HandlerAfter, Binding
    <3>2. rows = t.hist \cup {RowOf(o)}
      BY <2>2 DEF RowsAfter, IsRow
    <3>3. u = [t EXCEPT !.bind[k] = [b EXCEPT !.handler = o.who],
                        !.hist = t.hist \cup {RowOf(o)}]
      BY <1>0, <2>2 DEF Effect, CustodyTransferred, Tables
    <3>4. u = [t EXCEPT !.bind[k] = new, !.hist = rows]
      BY <3>1, <3>2, <3>3
    <3> HIDE DEF new, rows, u
    <3>5. u.bind[k] = new /\ u.product = t.product /\ u.ship = t.ship /\ u.hist = rows
      BY <1>0, <3>4 DEF Tables
    <3>6. QED
      BY <3>5 DEF new, rows
  <2>3. CASE o.type = "DeliveryCompleted"
    <3>0. StatusAfter(b.status, o) = 3 /\ HandlerAfter(b.handler, o) = o.who
      BY <2>3 DEF StatusAfter, HandlerAfter
    <3>a. [b EXCEPT !.status = 3, !.handler = o.who] =
             [base |-> b.base, status |-> 3, handler |-> o.who]
      BY BindingFields
    <3>1. new = [b EXCEPT !.status = 3, !.handler = o.who]
      BY <3>0, <3>a
    <3>2. rows = t.hist
      BY <2>3 DEF RowsAfter, IsRow
    <3>3. u = [t EXCEPT !.bind[k] = [b EXCEPT !.status = 3, !.handler = o.who]]
      BY <1>0, <2>3 DEF Effect, DeliveryCompleted, Tables
    <3>4. u = [t EXCEPT !.bind[k] = new]
      BY <3>1, <3>3
    <3> HIDE DEF new, rows, u
    <3>5. u.bind[k] = new /\ u.product = t.product /\ u.ship = t.ship /\ u.hist = t.hist
      BY <1>0, <3>4 DEF Tables
    <3>6. u.bind[k] = new /\ u.product = t.product /\ u.ship = t.ship /\ u.hist = rows
      BY <3>2, <3>5
    <3>7. QED
      BY <3>6 DEF new, rows
  <2>4. QED
    BY <1>3, <2>1, <2>2, <2>3
<1>4. CASE o.type \in {"CheckpointRecorded", "CustodyTransferred", "DeliveryCompleted"}
  <2>1. ProductAfter(t.product[k], o) = t.product[k]
    BY <1>4 DEF ProductAfter
  <2>2. QED
    BY <1>3, <1>4, <2>1
<1>5. QED
  BY <1>1, <1>2, <1>4, LogFields DEF EventTypes

\* _project, value by value.
LEMMA ProjectValues ==
    ASSUME NEW t \in Tables, NEW o \in Logs, CanProject(t, o),
           t.bind[o.key] # Unbound => t.product[o.key] # NoProduct
    PROVE  /\ Touches(Project(t, o), t, o.key)
           /\ Project(t, o).bind[o.key] =
                 [base |-> BaseFor(t, o), status |-> StatusAfter(StatusFor(t, o), o),
                  handler |-> HandlerAfter(HandlerFor(t, o), o)]
           /\ t.bind[o.key] = Unbound => o.type = "ProductRegistered" /\ Adoptable(t, o)
           /\ t.product[o.key] # NoProduct \/ o.type = "ProductRegistered" =>
                 Project(t, o).product[o.key] = ProductAfter(t.product[o.key], o)
           /\ Project(t, o).hist = RowsAfter(t.hist, o)
           /\ Project(t, o).ship[o.key] =
                 IF t.ship[o.key] = NoShipment THEN NoShipment
                 ELSE Project(t, o).bind[o.key].status
           /\ \A j \in Keys \ {o.key} : Project(t, o).ship[j] = t.ship[j]
<1> DEFINE k == o.key
           u == Bind(t, o)
           v == Effect(u, o)
           x == Project(t, o)
<1>0. k \in Keys
  BY LogFields
<1>1. Touches(x, t, k)
  BY ProjectTyped
<1>2. /\ Touches(u, t, k)
      /\ u.bind[k] = [base |-> BaseFor(t, o), status |-> StatusFor(t, o),
                      handler |-> HandlerFor(t, o)]
      /\ t.product[k] # NoProduct => u.product[k] = t.product[k]
      /\ t.bind[k] = Unbound => o.type = "ProductRegistered" /\ Adoptable(t, o)
      /\ u.ship = t.ship /\ u.hist = t.hist
  BY BindValues DEF CanProject
<1>3. u \in Tables /\ u.bind[k] \in Binding /\ u.product[k] \in Product
  BY <1>2 DEF Touches
<1> HIDE DEF u
<1>4. /\ v.bind[k] = [base |-> u.bind[k].base, status |-> StatusAfter(u.bind[k].status, o),
                      handler |-> HandlerAfter(u.bind[k].handler, o)]
      /\ v.product[k] = ProductAfter(u.product[k], o)
      /\ v.ship = u.ship /\ v.hist = RowsAfter(u.hist, o)
  BY <1>3, EffectValues
<1>5. v \in Tables
  BY <1>3, EffectTyped DEF Touches
<1>6. x = [v EXCEPT !.ship[k] = IF @ = NoShipment THEN NoShipment ELSE v.bind[k].status]
  BY DEF Project, FollowShipment, u
<1> HIDE DEF v, x
<1>7. /\ x.bind = v.bind /\ x.product = v.product /\ x.hist = v.hist
      /\ x.ship[k] = IF v.ship[k] = NoShipment THEN NoShipment ELSE v.bind[k].status
      /\ \A j \in Keys \ {k} : x.ship[j] = v.ship[j]
  BY <1>0, <1>5, <1>6 DEF Tables
<1>8. x.bind[k] = [base |-> BaseFor(t, o), status |-> StatusAfter(StatusFor(t, o), o),
                   handler |-> HandlerAfter(HandlerFor(t, o), o)]
  BY <1>2, <1>4, <1>7
<1>9. t.product[k] # NoProduct \/ o.type = "ProductRegistered" =>
         x.product[k] = ProductAfter(t.product[k], o)
  <2>1. o.type = "ProductRegistered" =>
           ProductAfter(u.product[k], o) = ProductAfter(t.product[k], o)
    BY DEF ProductAfter
  <2>2. QED
    BY <1>2, <1>4, <1>7, <2>1
<1>10. QED
  BY <1>1, <1>2, <1>4, <1>7, <1>8, <1>9 DEF x
----------------------------------------------------------------------------
(* The history rows.                                                       *)

LEMMA RowsGrow ==
    ASSUME NEW S \in SUBSET Logs, NEW o \in Logs
    PROVE  RowsOf(S \cup {o}) = RowsAfter(RowsOf(S), o)
BY DEF RowsOf, RowsAfter

\* A projected log adds its row, unless a row of that name disagrees.
LEMMA ToldProject ==
    ASSUME NEW t \in Tables, NEW o \in Logs, CanProject(t, o),
           t.bind[o.key] # Unbound => t.product[o.key] # NoProduct,
           NEW S \in SUBSET Logs, Told(t, S)
    PROVE  Told(Project(t, o), S \cup {o})
<1> DEFINE h == Project(t, o).hist
<1>1. h = RowsAfter(t.hist, o) /\ RowsOf(S \cup {o}) = RowsAfter(RowsOf(S), o)
  BY ProjectValues, RowsGrow
<1>2. Agrees(t, o)
  BY DEF CanProject
<1> HIDE DEF h
<1>3. CASE IsRow(o)
  <2>1. h = t.hist \cup {RowOf(o)} /\ RowsOf(S \cup {o}) = RowsOf(S) \cup {RowOf(o)}
    BY <1>1, <1>3 DEF RowsAfter
  <2>2. \A r \in t.hist : r.id = o.id => r = RowOf(o)
    BY <1>2, <1>3 DEF Agrees
  <2>3. RowOf(o).id = o.id
    BY DEF RowOf
  <2>4. UniqueIds(h)
    BY <2>1, <2>2, <2>3 DEF Told, UniqueIds
  <2>5. QED
    BY <2>1, <2>4 DEF Told, h
<1>4. CASE ~IsRow(o)
  <2>1. h = t.hist /\ RowsOf(S \cup {o}) = RowsOf(S)
    BY <1>1, <1>4 DEF RowsAfter
  <2>2. QED
    BY <2>1 DEF Told, h
<1>5. QED
  BY <1>3, <1>4

\* _journal marks the log, then projects it.
LEMMA Marked ==
    ASSUME NEW t \in Tables, NEW o \in Logs, CanJournal(t, o), Bound(t), o \notin t.canonical
    PROVE  \E m \in Tables :
              /\ m.canonical = t.canonical \cup {o} /\ m.orphaned = t.orphaned \ {o}
              /\ m.start = t.start /\ m.cursor = t.cursor /\ m.anchors = t.anchors
              /\ m.bind = t.bind /\ m.product = t.product /\ m.ship = t.ship
              /\ m.hist = t.hist
              /\ CanProject(m, o)
              /\ m.bind[o.key] # Unbound => m.product[o.key] # NoProduct
              /\ Journal(t, o) = Project(m, o)
<1> DEFINE m == [t EXCEPT !.canonical = @ \cup {o}, !.orphaned = @ \ {o}]
<1>0. o.key \in Keys
  BY LogFields
<1>1. /\ m \in Tables
      /\ m.canonical = t.canonical \cup {o} /\ m.orphaned = t.orphaned \ {o}
      /\ m.start = t.start /\ m.cursor = t.cursor /\ m.anchors = t.anchors
      /\ m.bind = t.bind /\ m.product = t.product /\ m.ship = t.ship
      /\ m.hist = t.hist
  BY DEF Tables
<1>2. Journal(t, o) = Project(m, o)
  BY DEF Journal
<1> HIDE DEF m
<1>3. CanProject(m, o)
  BY <1>1 DEF CanJournal, CanProject, CanBind, Adoptable, Agrees
<1>4. m.bind[o.key] # Unbound => m.product[o.key] # NoProduct
  BY <1>0, <1>1 DEF Bound
<1>5. QED
  BY <1>1, <1>2, <1>3, <1>4

LEMMA ToldJournal ==
    ASSUME NEW t \in Tables, NEW o \in Logs, CanJournal(t, o), Bound(t), Told(t, t.canonical)
    PROVE  Told(Journal(t, o), Journal(t, o).canonical)
<1>1. CASE o \in t.canonical
  BY <1>1 DEF Journal
<1>2. CASE o \notin t.canonical
  <2>1. PICK m \in Tables :
          /\ m.canonical = t.canonical \cup {o} /\ m.hist = t.hist
          /\ CanProject(m, o)
          /\ m.bind[o.key] # Unbound => m.product[o.key] # NoProduct
          /\ Journal(t, o) = Project(m, o)
    BY <1>2, Marked
  <2>2. Told(m, t.canonical) /\ t.canonical \in SUBSET Logs
    BY <2>1 DEF Told, Tables
  <2>3. Told(Project(m, o), t.canonical \cup {o})
    BY <2>1, <2>2, ToldProject
  <2>4. QED
    BY <2>1, <2>3, JournalStep
<1>3. QED
  BY <1>1, <1>2

\* A rewind deletes the rows of every log of the products it takes back: of
\* the logs it leaves, those it will not replay are of other products.
LEMMA ToldRestore ==
    ASSUME NEW t \in Tables, Bound(t), NEW a \in Blocks, Told(t, t.canonical)
    PROVE  /\ Remaining(t, a) \subseteq Restore(t, a).canonical
           /\ Told(Restore(t, a), Restore(t, a).canonical \ Remaining(t, a))
<1> DEFINE u == Restore(t, a)
           S == u.canonical \ Remaining(t, a)
<1>1. u.canonical = t.canonical \ Orphans(t, a)
  BY RestoreStep
<1>2. u.hist = t.hist \ Attributed(t, a)
  BY DEF Restore, Tables
<1>3. S = {o \in t.canonical : o.key \notin Affected(t, a)}
  BY <1>1 DEF Remaining, Affected
<1>4. Remaining(t, a) \subseteq u.canonical
  BY <1>1 DEF Remaining
<1>5. t.canonical \subseteq Logs /\ t.orphaned \subseteq Logs
  BY DEF Tables
<1> HIDE DEF u, S
<1>6. RowsOf(S) \subseteq u.hist
  <2> SUFFICES ASSUME NEW o \in S, IsRow(o) PROVE RowOf(o) \in u.hist
    BY DEF RowsOf
  <2>1. o \in t.canonical /\ o.key \notin Affected(t, a) /\ o \in Logs
    BY <1>3, <1>5
  <2>2. RowOf(o) \in t.hist
    BY <2>1 DEF Told, RowsOf
  <2>3. \A p \in t.canonical \cup t.orphaned : p.key \in Affected(t, a) => p.id # o.id
    BY <1>5, <2>1, LogAssumption
  <2>4. RowOf(o) \notin Attributed(t, a)
    BY <2>3 DEF Attributed, RowOf
  <2>5. QED
    BY <1>2, <2>2, <2>4
<1>7. u.hist \ RowsOf(S) \subseteq UNION Histories
  <2> SUFFICES ASSUME NEW r \in u.hist, r \notin RowsOf(S) PROVE r \in UNION Histories
    OBVIOUS
  <2>1. r \in t.hist /\ r \notin Attributed(t, a)
    BY <1>2
  <2>2. ASSUME r \in RowsOf(t.canonical) PROVE FALSE
    <3>1. PICK o \in t.canonical : IsRow(o) /\ r = RowOf(o)
      BY <2>2 DEF RowsOf
    <3>2. o.key \in Affected(t, a)
      BY <1>3, <3>1 DEF RowsOf
    <3>3. r.id = o.id
      BY <3>1 DEF RowOf
    <3>4. QED
      BY <2>1, <3>2, <3>3 DEF Attributed
  <2>3. QED
    BY <2>1, <2>2 DEF Told
<1>8. UniqueIds(u.hist)
  BY <1>2 DEF Told, UniqueIds
<1>9. QED
  BY <1>4, <1>6, <1>7, <1>8 DEF Told, u, S
----------------------------------------------------------------------------
(* What a product was bound on.                                            *)

\* Whoever was untouched or soundly bound in t is so in u.
Keeps(t, u) ==
    /\ Known(t) => Known(u)
    /\ \A p \in Products : Taken(p, t) => Taken(p, u)

\* Tables that differ in neither the bindings, the products nor what was
\* ever journalled.
SameBindings(u, t) ==
    /\ u.bind = t.bind /\ u.product = t.product
    /\ t.canonical \cup t.orphaned \subseteq u.canonical \cup u.orphaned

LEMMA KeepsSame ==
    ASSUME NEW t, NEW u, SameBindings(u, t)
    PROVE  Keeps(t, u)
<1>1. ASSUME Known(t) PROVE Known(u)
  BY <1>1 DEF Known, Registrars, Of, SameBindings
<1>2. ASSUME NEW p \in Products, Taken(p, t) PROVE Taken(p, u)
  BY <1>2 DEF Taken, Adopted, Evidenced, SameBindings
<1>3. QED
  BY <1>1, <1>2 DEF Keeps

\* The first log of a product is its registration, and the row it finds is
\* adopted only on the evidence of that log.
LEMMA KeepsProject ==
    ASSUME NEW t \in Tables, NEW o \in Logs, CanProject(t, o),
           t.bind[o.key] # Unbound => t.product[o.key] # NoProduct,
           o \in t.canonical
    PROVE  Keeps(t, Project(t, o))
<1> DEFINE k == o.key
           u == Project(t, o)
<1>0. k \in Keys
  BY LogFields
<1>a. u.bind[k] = [base |-> BaseFor(t, o), status |-> StatusAfter(StatusFor(t, o), o),
                   handler |-> HandlerAfter(HandlerFor(t, o), o)]
  BY ProjectValues
<1>b. /\ Touches(u, t, k)
      /\ t.bind[k] = Unbound => o.type = "ProductRegistered" /\ Adoptable(t, o)
  BY ProjectValues
<1>1. /\ Touches(u, t, k)
      /\ u.bind[k].base = BaseFor(t, o)
      /\ t.bind[k] = Unbound => o.type = "ProductRegistered" /\ Adoptable(t, o)
  BY <1>a, <1>b
<1> HIDE DEF u
<1>2. u.canonical = t.canonical /\ u.orphaned = t.orphaned
  BY <1>1 DEF Touches, SameJournal
<1>3. u.bind[k] # Unbound
  BY <1>1, ProjectionAssumption DEF Touches
<1>4. \A j \in Keys \ {k} : u.bind[j] = t.bind[j] /\ u.product[j] = t.product[j]
  BY <1>1 DEF Touches
<1>5. ASSUME Known(t) PROVE Known(u)
  <2> SUFFICES ASSUME NEW j \in Keys, u.bind[j] # Unbound
               PROVE  Registrars(u.canonical \cup u.orphaned, j) # {}
    BY DEF Known
  <2>1. CASE t.bind[j] # Unbound
    BY <1>2, <1>5, <2>1 DEF Known
  <2>2. CASE t.bind[j] = Unbound
    <3>1. j = k
      BY <1>4, <2>2
    <3>2. o \in Registrars(u.canonical \cup u.orphaned, k)
      BY <1>1, <1>2, <2>2, <3>1 DEF Registrars, Of
    <3>3. QED
      BY <3>1, <3>2
  <2>3. QED
    BY <2>1, <2>2
<1>6. ASSUME NEW p \in Products, Taken(p, t) PROVE Taken(p, u)
  <2>1. \A j \in Keys : u.bind[j] = Unbound => u.product[j] = p[j]
    BY <1>3, <1>4, <1>6 DEF Taken
  <2>2. ASSUME NEW j \in Keys, u.bind[j] # Unbound, p[j] # NoProduct, p[j].height > 0
        PROVE  Evidenced(p[j], u, j)
    <3>1. CASE j # k
      <4>1. Evidenced(p[j], t, j)
        BY <1>4, <1>6, <2>2, <3>1 DEF Taken, Adopted
      <4>2. QED
        BY <1>2, <1>4, <3>1, <4>1 DEF Evidenced
    <3>2. CASE j = k /\ t.bind[k] # Unbound
      <4>1. Evidenced(p[j], t, j)
        BY <1>0, <1>6, <2>2, <3>2 DEF Taken, Adopted
      <4>2. u.bind[j].base = t.bind[j].base
        BY <1>1, <3>2 DEF BaseFor
      <4>3. QED
        BY <1>2, <4>1, <4>2 DEF Evidenced
    <3>3. CASE j = k /\ t.bind[k] = Unbound
      <4>1. t.product[k] = p[k]
        BY <1>0, <1>6, <3>3 DEF Taken
      <4>2. /\ o.type = "ProductRegistered" /\ p[k].tx = o.tx
            /\ p[k].height = Height[o.block]
        BY <1>1, <2>2, <3>3, <4>1 DEF Adoptable
      <4>3. p[k] \in Product
        BY <1>0, <2>2, <3>3, IndexerAssumption
      <4>4. u.bind[k].base = Baseline(p[k], o)
        BY <1>1, <3>3, <4>1 DEF BaseFor
      <4>5. p[k] # NoProduct /\ p[k].height # 0
        BY <2>2, <3>3
      <4>6. Baseline(p[k], o).owner = Nobody /\ Baseline(p[k], o).height = 0
        BY <4>3, <4>5 DEF Baseline, Product
      <4>7. \E l \in u.canonical \cup u.orphaned :
               /\ l.type = "ProductRegistered" /\ l.key = k
               /\ l.tx = p[k].tx /\ Height[l.block] = p[k].height
        BY <1>2, <4>2
      <4>8. QED
        BY <3>3, <4>4, <4>6, <4>7 DEF Evidenced
    <3>4. QED
      BY <3>1, <3>2, <3>3
  <2>3. QED
    BY <2>1, <2>2 DEF Taken, Adopted
<1>7. QED
  BY <1>5, <1>6 DEF Keeps, u

LEMMA KeepsTrans ==
    ASSUME NEW t, NEW u, NEW v, Keeps(t, u), Keeps(u, v)
    PROVE  Keeps(t, v)
BY DEF Keeps

LEMMA KeepsJournal ==
    ASSUME NEW t \in Tables, NEW o \in Logs, CanJournal(t, o), Bound(t)
    PROVE  Keeps(t, Journal(t, o))
<1>1. CASE o \in t.canonical
  BY <1>1, KeepsSame DEF Journal, SameBindings
<1>2. CASE o \notin t.canonical
  <2>1. PICK m \in Tables :
          /\ m.canonical = t.canonical \cup {o} /\ m.orphaned = t.orphaned \ {o}
          /\ m.bind = t.bind /\ m.product = t.product
          /\ CanProject(m, o)
          /\ m.bind[o.key] # Unbound => m.product[o.key] # NoProduct
          /\ Journal(t, o) = Project(m, o)
    BY <1>2, Marked
  <2>2. SameBindings(m, t)
    BY <2>1 DEF SameBindings
  <2>3. Keeps(t, m)
    BY <2>2, KeepsSame
  <2>4. Keeps(m, Project(m, o))
    BY <2>1, KeepsProject
  <2>5. QED
    BY <2>1, <2>3, <2>4, KeepsTrans
<1>3. QED
  BY <1>1, <1>2

\* _rewind, value by value.
LEMMA RestoreValues ==
    ASSUME NEW t \in Tables, Bound(t), NEW a \in Blocks
    PROVE  /\ \A k \in Affected(t, a) :
                 /\ k \in Keys /\ t.bind[k] \in Binding
                 /\ Restore(t, a).product[k] = t.bind[k].base
                 /\ Restore(t, a).bind[k] =
                       [base |-> t.bind[k].base, status |-> 0, handler |-> Nobody]
                 /\ Restore(t, a).ship[k] \in {0, NoShipment}
           /\ \A k \in Keys \ Affected(t, a) :
                 /\ Restore(t, a).product[k] = t.product[k]
                 /\ Restore(t, a).bind[k] = t.bind[k]
                 /\ Restore(t, a).ship[k] = t.ship[k]
           /\ Restore(t, a).orphaned = t.orphaned \cup Orphans(t, a)
<1> DEFINE back == Affected(t, a)
           u == Restore(t, a)
<1>1. \A k \in back : k \in Keys /\ t.bind[k] \in Binding
  <2>1. \A o \in t.canonical : o.key \in Keys /\ t.bind[o.key] # Unbound
    BY LogFields DEF Bound, Tables
  <2>2. QED
    BY <2>1 DEF Affected, Orphans, Tables
<1>2. /\ u.product = [k \in Keys |-> IF k \in back THEN t.bind[k].base ELSE t.product[k]]
      /\ u.bind = [k \in Keys |-> IF k \in back
                                  THEN [t.bind[k] EXCEPT !.status = 0, !.handler = Nobody]
                                  ELSE t.bind[k]]
      /\ u.ship = [k \in Keys |-> IF k \in back /\ t.ship[k] # NoShipment
                                  THEN 0 ELSE t.ship[k]]
      /\ u.orphaned = t.orphaned \cup Orphans(t, a)
  BY DEF Restore, Tables
<1> HIDE DEF u
<1>3. ASSUME NEW k \in back
      PROVE  /\ u.product[k] = t.bind[k].base
             /\ u.bind[k] = [t.bind[k] EXCEPT !.status = 0, !.handler = Nobody]
             /\ u.ship[k] \in {0, NoShipment}
  BY <1>1, <1>2
<1>4. ASSUME NEW k \in back
      PROVE  [t.bind[k] EXCEPT !.status = 0, !.handler = Nobody] =
                [base |-> t.bind[k].base, status |-> 0, handler |-> Nobody]
  BY <1>1, BindingFields
<1>5. \A k \in Keys \ back : /\ u.product[k] = t.product[k]
                             /\ u.bind[k] = t.bind[k] /\ u.ship[k] = t.ship[k]
  BY <1>2
<1>6. QED
  BY <1>1, <1>2, <1>3, <1>4, <1>5 DEF u

LEMMA KeepsRestore ==
    ASSUME NEW t \in Tables, Bound(t), NEW a \in Blocks
    PROVE  Keeps(t, Restore(t, a))
<1> DEFINE back == Affected(t, a)
           u == Restore(t, a)
<1>1. /\ \A k \in back : /\ t.bind[k] # Unbound /\ u.bind[k] # Unbound
                         /\ u.bind[k].base = t.bind[k].base
      /\ \A k \in Keys \ back : u.product[k] = t.product[k] /\ u.bind[k] = t.bind[k]
  <2>1. u \in Tables
    BY RestoreStep
  <2>2. \A k \in back : k \in Keys /\ t.bind[k] \in Binding
    BY RestoreValues
  <2> HIDE DEF u, back
  <2>3. ASSUME NEW k \in back
        PROVE  u.bind[k] \in Binding /\ u.bind[k].base = t.bind[k].base
    <3>1. t.bind[k].base \in Product
      BY <2>2 DEF Binding
    <3>2. u.bind[k] = [base |-> t.bind[k].base, status |-> 0, handler |-> Nobody]
      BY RestoreValues DEF u, back
    <3>3. 0 \in Statuses
      BY DEF Statuses
    <3>4. QED
      BY <3>1, <3>2, <3>3 DEF Binding
  <2>4. \A k \in Keys \ back : u.product[k] = t.product[k] /\ u.bind[k] = t.bind[k]
    BY RestoreValues DEF u, back
  <2>5. QED
    BY <2>2, <2>3, <2>4, ProjectionAssumption
<1>2. u.canonical \cup u.orphaned = t.canonical \cup t.orphaned
  BY RestoreStep, RestoreValues DEF Orphans
<1> HIDE DEF u, back
<1>3. ASSUME Known(t) PROVE Known(u)
  BY <1>1, <1>2, <1>3 DEF Known
<1>4. ASSUME NEW p \in Products, Taken(p, t) PROVE Taken(p, u)
  <2>1. \A j \in Keys : u.bind[j] = Unbound => u.product[j] = p[j]
    BY <1>1, <1>4 DEF Taken
  <2>2. ASSUME NEW j \in Keys, u.bind[j] # Unbound, p[j] # NoProduct, p[j].height > 0
        PROVE  Evidenced(p[j], u, j)
    <3>1. t.bind[j] # Unbound /\ u.bind[j].base = t.bind[j].base
      BY <1>1, <2>2
    <3>2. Evidenced(p[j], t, j)
      BY <1>4, <2>2, <3>1 DEF Taken, Adopted
    <3>3. QED
      BY <1>2, <3>1, <3>2 DEF Evidenced
  <2>3. QED
    BY <2>1, <2>2 DEF Taken, Adopted
<1>5. QED
  BY <1>3, <1>4 DEF Keeps, u
----------------------------------------------------------------------------
(* The steps of a poll, for HistoryInv and AdoptionInv.                    *)

\* A step of w changes nothing of another worker.
LEMMA Elsewhere ==
    ASSUME TypeInv, NEW w \in Workers, PollStep(w) \/ Failure(w),
           NEW v \in Workers, v # w
    PROVE  pc'[v] = pc[v] /\ tx'[v] = tx[v] /\ poll'[v] = poll[v]
<1>1. CASE Leave(w)
  BY <1>1 DEF TypeInv, TypeOK, Leave, GoTo
<1>2. CASE Opening(w) /\ ~Leave(w)
  BY <1>2 DEF TypeInv, TypeOK, Opening, ObserveHead, Busy, Open, Refuse, CreateCursor,
              CheckCursor, Fail, GoTo
<1>3. CASE Recovering(w) /\ ~Leave(w)
  BY <1>3 DEF TypeInv, TypeOK, Recovering, SkipAnchor, Rewind, NoAncestor, Replay, Replayed,
              Fail, GoTo
<1>4. CASE Indexing(w) /\ ~Leave(w)
  BY <1>4 DEF TypeInv, TypeOK, Indexing, NothingNew, ReadEnd, Query, ReadDetails, Fetched,
              JournalLog, RecheckEnd, RecheckCursor, Commit, Fail, FailFetch, GoTo
<1>5. CASE BlockMissing(w) \/ Failure(w)
  BY <1>1, <1>5 DEF BlockMissing, Failure, CommitUnknown, Abort, Crash, Fail, FailFetch
<1>6. QED
  BY <1>1, <1>2, <1>3, <1>4, <1>5 DEF PollStep

\* Where a step of w leaves it, its tables show what they should, and they
\* are the committed ones or go on from what they were.
Carried(w) ==
    /\ RowsInv(pc'[w], tx'[w], poll'[w])
    /\ \/ pc'[w] \in {"idle", "lock"}
       \/ tx'[w] = db
       \/ pc[w] \notin {"idle", "lock"} /\ Keeps(tx[w], tx'[w])

LEMMA LeaveCarried ==
    ASSUME HistoryInv, NEW w \in Workers, Leave(w)
    PROVE  Carried(w)
<1>1. pc'[w] = "idle"
  BY DEF HistoryInv, TypeInv, TypeOK, Leave, GoTo
<1>2. QED
  BY <1>1 DEF Carried, RowsInv

\* What the steps of w may rely on.
LEMMA RowFacts ==
    ASSUME HistoryInv, NEW w \in Workers
    PROVE  /\ TypeInv /\ tx[w] \in Tables /\ poll[w] \in Poll /\ Bound(tx[w])
           /\ Told(db, db.canonical) /\ RowsInv(pc[w], tx[w], poll[w])
BY Here DEF HistoryInv

\* A step that writes none of the rows.
LEMMA QuietCarried ==
    ASSUME HistoryInv, NEW w \in Workers, pc[w] \notin {"idle", "lock"},
           pc'[w] # "replay", pc[w] = "replay" => poll[w].todo = {},
           tx'[w].hist = tx[w].hist, tx'[w].canonical = tx[w].canonical,
           SameBindings(tx'[w], tx[w])
    PROVE  Carried(w)
<1>1. Told(tx[w], tx[w].canonical)
  BY RowFacts DEF RowsInv, Projected
<1>2. Told(tx'[w], tx'[w].canonical)
  BY <1>1 DEF Told
<1>3. RowsInv(pc'[w], tx'[w], poll'[w])
  BY <1>2 DEF RowsInv, Projected
<1>4. QED
  BY <1>3, KeepsSame DEF Carried

LEMMA OpeningCarried ==
    ASSUME HistoryInv, NEW w \in Workers, Opening(w)
    PROVE  Carried(w)
<1>0. TypeInv /\ TypeOK
  BY DEF HistoryInv, TypeInv
<1>1. CASE ObserveHead(w)
  <2>1. pc'[w] = "lock"
    BY <1>0, <1>1 DEF TypeOK, ObserveHead, GoTo
  <2>2. QED
    BY <2>1 DEF Carried, RowsInv
<1>2. CASE Busy(w) \/ Refuse(w)
  BY <1>2, LeaveCarried DEF Busy, Refuse, Fail
<1>3. CASE Open(w)
  <2>1. tx'[w] = db /\ pc'[w] \in {"create", "check"}
    BY <1>0, <1>3 DEF TypeOK, Open, GoTo
  <2>2. QED
    BY <2>1, RowFacts DEF Carried, RowsInv, Projected
<1>4. CASE CreateCursor(w)
  <2>1. pc[w] = "create" /\ pc'[w] = "check"
    BY <1>0, <1>4 DEF TypeOK, CreateCursor, Asks, GoTo
  <2>2. tx'[w] = [tx[w] EXCEPT !.start = StartBlock[w], !.cursor = Header(StartBlock[w]),
                               !.anchors = {Header(StartBlock[w])}]
    BY <1>0, <1>4, RowFacts DEF TypeOK, CreateCursor, Tables
  <2>3. /\ tx'[w].hist = tx[w].hist /\ tx'[w].canonical = tx[w].canonical
        /\ tx'[w].bind = tx[w].bind /\ tx'[w].product = tx[w].product
        /\ tx'[w].orphaned = tx[w].orphaned
    BY <2>2, RowFacts DEF Tables
  <2>4. QED
    BY <2>1, <2>3, QuietCarried DEF SameBindings
<1>5. CASE CheckCursor(w)
  <2>1. pc[w] = "check" /\ pc'[w] \in {"plan", "scan"} /\ tx' = tx
    BY <1>0, <1>5 DEF TypeOK, CheckCursor, Asks, GoTo
  <2>2. QED
    BY <2>1, QuietCarried DEF SameBindings
<1>6. QED
  BY <1>1, <1>2, <1>3, <1>4, <1>5 DEF Opening

LEMMA RecoveringCarried ==
    ASSUME HistoryInv, NEW w \in Workers, Recovering(w)
    PROVE  Carried(w)
<1>0. TypeInv /\ TypeOK
  BY DEF HistoryInv, TypeInv
<1>1. CASE SkipAnchor(w)
  <2>1. pc[w] = "scan" /\ pc' = pc /\ tx' = tx
    BY <1>1 DEF SkipAnchor, Asks
  <2>2. QED
    BY <2>1, QuietCarried DEF SameBindings
<1>2. CASE Rewind(w)
  <2>1. PICK a \in poll[w].scan :
          /\ Asks(w, "scan", Height[a])
          /\ tx' = [tx EXCEPT ![w] = Restore(@, a)]
          /\ poll' = [poll EXCEPT ![w].scan = {},
                                  ![w].todo = Remaining(tx[w], a),
                                  ![w].locked = @ \cup Affected(tx[w], a)]
    BY <1>2 DEF Rewind
  <2>2. pc[w] = "scan" /\ pc'[w] = "replay"
    BY <1>0, <1>2, <2>1 DEF TypeOK, Rewind, Asks, GoTo
  <2>3. tx'[w] = Restore(tx[w], a) /\ poll'[w].todo = Remaining(tx[w], a)
    BY <1>0, <2>1, RowFacts DEF TypeOK, Poll
  <2>4. a \in Blocks
    BY RowFacts DEF Poll
  <2>5. Told(tx[w], tx[w].canonical)
    BY <2>2, RowFacts DEF RowsInv, Projected
  <2>6. /\ Remaining(tx[w], a) \subseteq Restore(tx[w], a).canonical
        /\ Told(Restore(tx[w], a), Restore(tx[w], a).canonical \ Remaining(tx[w], a))
    BY <2>4, <2>5, RowFacts, ToldRestore
  <2>7. RowsInv(pc'[w], tx'[w], poll'[w])
    BY <2>2, <2>3, <2>6 DEF RowsInv, Projected
  <2>8. Keeps(tx[w], tx'[w])
    BY <2>3, <2>4, RowFacts, KeepsRestore
  <2>9. QED
    BY <2>2, <2>7, <2>8 DEF Carried
<1>3. CASE NoAncestor(w)
  BY <1>3, LeaveCarried DEF NoAncestor, Fail
<1>4. CASE Replay(w)
  <2>1. PICK o \in poll[w].todo :
          IF CanProject(tx[w], o)
          THEN /\ tx' = [tx EXCEPT ![w] = Project(@, o)]
               /\ poll' = [poll EXCEPT ![w].todo = @ \ {o}]
               /\ UNCHANGED <<db, holder, pc, batch>>
          ELSE Fail(w)
    BY <1>4 DEF Replay
  <2>2. pc[w] = "replay"
    BY <1>4 DEF Replay
  <2>3. CASE CanProject(tx[w], o)
    <3> DEFINE t == tx[w]
               S == t.canonical \ poll[w].todo
    <3>1. Told(t, S) /\ poll[w].todo \subseteq t.canonical
      BY <2>2, RowFacts DEF RowsInv, Projected
    <3>2. o \in Logs /\ t.canonical \subseteq Logs
      BY RowFacts DEF Poll, Tables
    <3>3. t.bind[o.key] # Unbound => t.product[o.key] # NoProduct
      BY <3>2, RowFacts, LogFields DEF Bound
    <3>4. Told(Project(t, o), S \cup {o})
      BY <2>3, <3>1, <3>2, <3>3, RowFacts, ToldProject
    <3>5. Project(t, o).canonical = t.canonical
      BY <2>3, <3>2, RowFacts, ProjectStep DEF SameJournal
    <3>6. tx'[w] = Project(t, o) /\ poll'[w].todo = poll[w].todo \ {o} /\ pc'[w] = "replay"
      BY <1>0, <2>1, <2>2, <2>3, RowFacts DEF TypeOK, Poll
    <3>7. t.canonical \ (poll[w].todo \ {o}) = S \cup {o}
      BY <3>1
    <3>8. RowsInv(pc'[w], tx'[w], poll'[w])
      BY <3>1, <3>4, <3>5, <3>6, <3>7 DEF RowsInv, Projected
    <3>9. Keeps(t, Project(t, o))
      BY <2>3, <3>1, <3>2, <3>3, RowFacts, KeepsProject
    <3>10. QED
      BY <2>2, <3>6, <3>8, <3>9 DEF Carried
  <2>4. CASE ~CanProject(tx[w], o)
    BY <2>1, <2>4, LeaveCarried DEF Fail
  <2>5. QED
    BY <2>3, <2>4
<1>5. CASE Replayed(w)
  <2>1. pc[w] = "replay" /\ poll[w].todo = {} /\ pc'[w] = "plan" /\ tx' = tx
    BY <1>0, <1>5 DEF TypeOK, Replayed, GoTo
  <2>2. QED
    BY <2>1, QuietCarried DEF SameBindings
<1>6. QED
  BY <1>1, <1>2, <1>3, <1>4, <1>5 DEF Recovering

LEMMA IndexingCarried ==
    ASSUME HistoryInv, NEW w \in Workers, Indexing(w)
    PROVE  Carried(w)
<1>0. TypeInv /\ TypeOK
  BY DEF HistoryInv, TypeInv
<1>1. CASE Leave(w)
  BY <1>1, LeaveCarried
<1>2. CASE ~Leave(w) /\ (NothingNew(w) \/ ReadEnd(w) \/ Query(w) \/ ReadDetails(w)
                          \/ Fetched(w) \/ RecheckEnd(w))
  <2>1. /\ pc[w] \in {"plan", "fetch", "journal"}
        /\ pc'[w] \in {"commit", "fetch", "journal", "recheck"}
        /\ tx' = tx
    BY <1>0, <1>2 DEF TypeOK, NothingNew, ReadEnd, Query, ReadDetails, Fetched, RecheckEnd,
                      Asks, GoTo, Fail, FailFetch
  <2>2. QED
    BY <2>1, QuietCarried DEF SameBindings
<1>3. CASE ~Leave(w) /\ JournalLog(w)
  <2>1. PICK o \in poll[w].todo :
          /\ CanJournal(tx[w], o)
          /\ tx' = [tx EXCEPT ![w] = Journal(@, o)]
          /\ pc' = pc
    BY <1>3 DEF JournalLog, Fail
  <2>2. pc[w] = "journal"
    BY <1>3 DEF JournalLog
  <2>3. o \in Logs
    BY RowFacts DEF Poll
  <2>4. Told(tx[w], tx[w].canonical)
    BY <2>2, RowFacts DEF RowsInv, Projected
  <2>5. tx'[w] = Journal(tx[w], o) /\ pc'[w] = "journal"
    BY <1>0, <2>1, <2>2 DEF TypeOK
  <2>6. Told(tx'[w], tx'[w].canonical) /\ Keeps(tx[w], tx'[w])
    BY <2>1, <2>3, <2>4, <2>5, RowFacts, ToldJournal, KeepsJournal
  <2>7. QED
    BY <2>2, <2>5, <2>6 DEF Carried, RowsInv, Projected
<1>4. CASE ~Leave(w) /\ RecheckCursor(w)
  <2>1. /\ pc[w] = "recheck" /\ pc'[w] = "commit"
        /\ tx'[w] = Advanced(tx[w], poll[w].end, poll[w].headers)
    BY <1>0, <1>4 DEF TypeOK, RecheckCursor, Asks, GoTo, Fail
  <2>2. /\ tx'[w].hist = tx[w].hist /\ tx'[w].canonical = tx[w].canonical
        /\ tx'[w].bind = tx[w].bind /\ tx'[w].product = tx[w].product
        /\ tx'[w].orphaned = tx[w].orphaned
    BY <2>1, RowFacts DEF Tables, Advanced
  <2>3. QED
    BY <2>1, <2>2, QuietCarried DEF SameBindings
<1>5. CASE Commit(w)
  BY <1>5, LeaveCarried DEF Commit
<1>6. QED
  BY <1>1, <1>2, <1>3, <1>4, <1>5 DEF Indexing

LEMMA StepCarried ==
    ASSUME HistoryInv, NEW w \in Workers, PollStep(w) \/ Failure(w)
    PROVE  Carried(w)
<1>1. CASE BlockMissing(w) \/ Failure(w)
  BY <1>1, LeaveCarried
  DEF BlockMissing, Failure, CommitUnknown, Abort, Crash, Fail, FailFetch
<1>2. QED
  BY <1>1, OpeningCarried, RecoveringCarried, IndexingCarried DEF PollStep
----------------------------------------------------------------------------
LEMMA InitRows == Init => HistoryInv
<1> SUFFICES ASSUME Init PROVE HistoryInv
  OBVIOUS
<1>1. PICK p \in Products, h \in Histories : db = Empty(p, h)
  BY DEF Init
<1>2. db.hist = h /\ db.canonical = {} /\ UniqueIds(h)
  BY <1>1, IndexerAssumption DEF Empty
<1>3. Told(db, db.canonical)
  BY <1>2 DEF Told, RowsOf
<1>4. ASSUME NEW w \in Workers PROVE RowsInv(pc[w], tx[w], poll[w])
  BY DEF Init, RowsInv
<1>5. QED
  BY <1>3, <1>4, InitTyped DEF HistoryInv

LEMMA NextRows == HistoryInv /\ [Next]_vars => HistoryInv'
<1> SUFFICES ASSUME HistoryInv, [Next]_vars PROVE HistoryInv'
  OBVIOUS
<1>0. TypeInv'
  BY NextTyped DEF HistoryInv
<1>1. CASE ChainMoves \/ UNCHANGED vars
  <2>1. UNCHANGED <<db, pc, tx, poll>>
    BY <1>1 DEF ChainMoves, vars, workerVars
  <2>2. ASSUME NEW v \in Workers PROVE RowsInv(pc[v], tx[v], poll[v])'
    BY <2>1, RowFacts DEF RowsInv, Projected, Told
  <2>3. QED
    BY <1>0, <2>1, <2>2 DEF HistoryInv, Told
<1>2. ASSUME NEW w \in Workers, PollStep(w) \/ Failure(w) PROVE HistoryInv'
  <2>1. Told(db', db'.canonical)
    <3>1. CASE db' = db
      BY <3>1, RowFacts
    <3>2. CASE db' = tx[w] /\ pc[w] = "commit"
      BY <3>2, RowFacts DEF RowsInv, Projected
    <3>3. QED
      BY <1>2, <3>1, <3>2, OthersStutter
  <2>2. ASSUME NEW v \in Workers PROVE RowsInv(pc'[v], tx'[v], poll'[v])
    <3>1. CASE v = w
      BY <1>2, <3>1, StepCarried DEF Carried
    <3>2. CASE v # w
      BY <1>2, <3>2, RowFacts, Elsewhere
    <3>3. QED
      BY <3>1, <3>2
  <2>3. QED
    BY <1>0, <2>1, <2>2 DEF HistoryInv, RowsInv, Projected, Told
<1>3. QED
  BY <1>1, <1>2 DEF Next

\* Whatever was journalled, rewound, replayed, lost or contested, and even
\* where an abandoned branch returns: the committed checkpoints and transfers
\* are those of the committed journal, one row per event, beside rows that
\* were there before it.
THEOREM HistoryIsExact == Spec => []HistoryExact
<1>1. HistoryInv => HistoryExact
  BY DEF HistoryInv, HistoryExact
<1>2. QED
  BY InitRows, NextRows, <1>1, PTL DEF Spec

----------------------------------------------------------------------------
LEMMA InitTaken ==
    ASSUME NEW p \in Products
    PROVE  Init /\ db.product = p => AdoptionInv(p)
<1> SUFFICES ASSUME Init, db.product = p PROVE AdoptionInv(p)
  OBVIOUS
<1>1. PICK r \in Products, h \in Histories : db = Empty(r, h)
  BY DEF Init
<1>2. \A k \in Keys : db.bind[k] = Unbound
  BY <1>1 DEF Empty
<1>3. Known(db) /\ Taken(p, db)
  BY <1>2 DEF Known, Taken, Adopted
<1>4. \A w \in Workers : pc[w] = "idle"
  BY DEF Init
<1>5. QED
  BY <1>3, <1>4, InitRows DEF AdoptionInv

LEMMA NextTaken ==
    ASSUME NEW p \in Products
    PROVE  AdoptionInv(p) /\ [Next]_vars => AdoptionInv(p)'
<1> SUFFICES ASSUME AdoptionInv(p), [Next]_vars PROVE AdoptionInv(p)'
  OBVIOUS
<1>0. HistoryInv /\ HistoryInv' /\ TypeInv
  BY NextRows DEF AdoptionInv, HistoryInv
<1>1. CASE ChainMoves \/ UNCHANGED vars
  <2>1. UNCHANGED <<db, pc, tx>>
    BY <1>1 DEF ChainMoves, vars, workerVars
  <2>2. Known(db)' /\ Taken(p, db)'
    BY <2>1 DEF AdoptionInv, Known, Taken, Adopted, Evidenced
  <2>3. ASSUME NEW v \in Workers, pc'[v] \notin {"idle", "lock"}
        PROVE  Known(tx[v])' /\ Taken(p, tx[v])'
    BY <2>1, <2>3 DEF AdoptionInv, Known, Taken, Adopted, Evidenced
  <2>4. QED
    BY <1>0, <2>2, <2>3 DEF AdoptionInv
<1>2. ASSUME NEW w \in Workers, PollStep(w) \/ Failure(w) PROVE AdoptionInv(p)'
  <2>1. Known(db') /\ Taken(p, db')
    <3>1. CASE db' = db
      BY <3>1 DEF AdoptionInv
    <3>2. CASE db' = tx[w] /\ pc[w] = "commit"
      BY <3>2 DEF AdoptionInv
    <3>3. QED
      BY <1>2, <3>1, <3>2, OthersStutter
  <2>2. ASSUME NEW v \in Workers, pc'[v] \notin {"idle", "lock"}
        PROVE  Known(tx'[v]) /\ Taken(p, tx'[v])
    <3>1. CASE v = w
      <4>1. tx'[w] = db \/ (pc[w] \notin {"idle", "lock"} /\ Keeps(tx[w], tx'[w]))
        BY <1>0, <1>2, <2>2, <3>1, StepCarried DEF Carried
      <4>2. Known(db) /\ Taken(p, db)
        BY DEF AdoptionInv
      <4>3. pc[w] \notin {"idle", "lock"} => Known(tx[w]) /\ Taken(p, tx[w])
        BY DEF AdoptionInv
      <4>4. QED
        BY <3>1, <4>1, <4>2, <4>3 DEF Keeps
    <3>2. CASE v # w
      BY <1>0, <1>2, <2>2, <3>2, Elsewhere DEF AdoptionInv
    <3>3. QED
      BY <3>1, <3>2
  <2>3. QED
    BY <1>0, <2>1, <2>2 DEF AdoptionInv, Known, Taken, Adopted, Evidenced
<1>3. QED
  BY <1>1, <1>2 DEF Next

\* A product with legacy registration evidence is bound only when the journal
\* holds the registration it claims, and its baseline grants nobody anything:
\* whatever the products and rows of before the journal were.
THEOREM AdoptionIsSound == Spec => AdoptionSound
<1>1. ASSUME NEW p \in Products
      PROVE  Spec => (db.product = p => []Adopted(p, db))
  <2>1. AdoptionInv(p) => Adopted(p, db)
    BY DEF AdoptionInv, Taken
  <2>2. Init /\ db.product = p => AdoptionInv(p)
    BY InitTaken
  <2>3. AdoptionInv(p) /\ [Next]_vars => AdoptionInv(p)'
    BY NextTaken
  <2>4. QED
    BY <2>1, <2>2, <2>3, PTL DEF Spec
<1>2. QED
  BY <1>1 DEF AdoptionSound
----------------------------------------------------------------------------
(* What the tables show.                                                   *)

\* A log later than all of T is the last of T and itself.
LEMMA LatestNew ==
    ASSUME NEW T \in SUBSET Logs, NEW o \in Logs, \A p \in T : Before(p, o)
    PROVE  Latest(T \cup {o}) = o
<1>1. \A p \in Logs : Height[p.block] \in Nat /\ p.idx \in Nat
  BY LogFields, LogAssumption
<1>2. \A p \in T \cup {o} : ~Before(o, p)
  BY <1>1 DEF Before
<1>3. \A x \in T \cup {o} : (\A p \in T \cup {o} : ~Before(x, p)) => x = o
  OBVIOUS
<1>4. QED
  BY <1>2, <1>3 DEF Latest

\* Two logs of one branch are ordered.
LEMMA Ordered ==
    ASSUME NEW b \in Blocks, NEW o \in Logs, NEW p \in Logs,
           o.block \in Path[b], p.block \in Path[b], o # p
    PROVE  Before(o, p) \/ Before(p, o)
<1>1. /\ Height[o.block] \in Nat /\ Height[p.block] \in Nat
      /\ o.idx \in Nat /\ p.idx \in Nat
  BY LogFields, LogAssumption
<1>2. Height[o.block] = Height[p.block] => o.block = p.block
  BY TreeAssumption
<1>3. o.block = p.block => o.idx # p.idx
  BY LogAssumption
<1>4. QED
  BY <1>1, <1>2, <1>3 DEF Before

LEMMA OfGrow ==
    ASSUME NEW S, NEW o, NEW k, NEW types
    PROVE  Of(S \cup {o}, k, types) =
              IF o.key = k /\ o.type \in types
              THEN Of(S, k, types) \cup {o} ELSE Of(S, k, types)
BY DEF Of

\* A log later than those of its product changes what is expected of it the
\* way _project changes the rows.
LEMMA ExpectedAfter ==
    ASSUME NEW S \in SUBSET Logs, NEW o \in Logs,
           \A p \in S : p.key = o.key => Before(p, o)
    PROVE  /\ ExpectedStatus(S \cup {o}, o.key) = StatusAfter(ExpectedStatus(S, o.key), o)
           /\ ExpectedHandler(S \cup {o}, o.key) = HandlerAfter(ExpectedHandler(S, o.key), o)
<1> DEFINE k == o.key
           R == S \cup {o}
<1>1. ASSUME NEW types, o.type \in types
      PROVE  /\ Of(R, k, types) # {}
             /\ Latest(Of(R, k, types)) = o
  <2>1. Of(R, k, types) = Of(S, k, types) \cup {o}
    BY <1>1, OfGrow
  <2>2. Of(S, k, types) \in SUBSET Logs /\ \A p \in Of(S, k, types) : Before(p, o)
    BY DEF Of
  <2>3. QED
    BY <2>1, <2>2, LatestNew
<1>2. ASSUME NEW types, o.type \notin types
      PROVE  Of(R, k, types) = Of(S, k, types)
  BY <1>2 DEF Of
<1> HIDE DEF R, k
<1>3. ExpectedStatus(R, k) = StatusAfter(ExpectedStatus(S, k), o)
  <2>1. CASE o.type = "CheckpointRecorded"
    <3>1. StatusLogs(R, k) # {} /\ Latest(StatusLogs(R, k)) = o
      BY <1>1, <2>1 DEF StatusLogs
    <3>2. QED
      BY <2>1, <3>1 DEF ExpectedStatus, StatusAfter
  <2>2. CASE o.type = "DeliveryCompleted"
    <3>1. StatusLogs(R, k) # {} /\ Latest(StatusLogs(R, k)) = o
      BY <1>1, <2>2 DEF StatusLogs
    <3>2. QED
      BY <2>2, <3>1 DEF ExpectedStatus, StatusAfter
  <2>3. CASE o.type \notin {"CheckpointRecorded", "DeliveryCompleted"}
    <3>1. StatusLogs(R, k) = StatusLogs(S, k)
      BY <1>2, <2>3 DEF StatusLogs
    <3>2. QED
      BY <2>3, <3>1 DEF ExpectedStatus, StatusAfter
  <2>4. QED
    BY <2>1, <2>2, <2>3
<1>4. ExpectedHandler(R, k) = HandlerAfter(ExpectedHandler(S, k), o)
  <2>1. CASE o.type \in {"CheckpointRecorded", "CustodyTransferred", "DeliveryCompleted"}
    <3>1. HandlerLogs(R, k) # {} /\ Latest(HandlerLogs(R, k)) = o
      BY <1>1, <2>1 DEF HandlerLogs
    <3>2. QED
      BY <2>1, <3>1 DEF ExpectedHandler, HandlerAfter
  <2>2. CASE o.type \notin {"CheckpointRecorded", "CustodyTransferred", "DeliveryCompleted"}
    <3>1. HandlerLogs(R, k) = HandlerLogs(S, k)
      BY <1>2, <2>2 DEF HandlerLogs
    <3>2. QED
      BY <2>2, <3>1 DEF ExpectedHandler, HandlerAfter
  <2>3. QED
    BY <2>1, <2>2
<1>5. QED
  BY <1>3, <1>4 DEF R, k

\* The same for its product: an update comes after a registration.
LEMMA ExpectedProductAfter ==
    ASSUME NEW S \in SUBSET Logs, NEW o \in Logs,
           \A p \in S : p.key = o.key => Before(p, o),
           o.type = "ProductMetadataUpdated" => Registrars(S, o.key) # {},
           NEW was,
           Registrars(S, o.key) # {} => was = ExpectedProduct(S, o.key)
    PROVE  Registrars(S \cup {o}, o.key) # {} =>
              ExpectedProduct(S \cup {o}, o.key) = ProductAfter(was, o)
<1> DEFINE k == o.key
           R == S \cup {o}
<1>1. ASSUME NEW types, o.type \in types
      PROVE  Latest(Of(R, k, types)) = o
  <2>1. Of(R, k, types) = Of(S, k, types) \cup {o}
    BY <1>1, OfGrow
  <2>2. Of(S, k, types) \in SUBSET Logs /\ \A p \in Of(S, k, types) : Before(p, o)
    BY DEF Of
  <2>3. QED
    BY <2>1, <2>2, LatestNew
<1>2. ASSUME NEW types, o.type \notin types
      PROVE  Of(R, k, types) = Of(S, k, types)
  BY <1>2 DEF Of
<1> HIDE DEF R, k
<1>3. CASE o.type = "ProductRegistered"
  <2>1. Latest(Registrars(R, k)) = o /\ Latest(UriLogs(R, k)) = o
    BY <1>1, <1>3 DEF Registrars, UriLogs
  <2>2. ExpectedProduct(R, k) = ProductAfter(was, o)
    BY <1>3, <2>1 DEF ExpectedProduct, ProductAfter
  <2>3. QED
    BY <2>2 DEF R, k
<1>4. CASE o.type = "ProductMetadataUpdated"
  <2>1. Registrars(R, k) = Registrars(S, k) /\ Latest(UriLogs(R, k)) = o
    BY <1>1, <1>2, <1>4 DEF Registrars, UriLogs
  <2>2. ProductAfter(was, o) = [was EXCEPT !.uri = o.uri]
    BY <1>4 DEF ProductAfter
  <2>3. was = ExpectedProduct(S, k)
    BY <1>4 DEF k
  <2>4. ExpectedProduct(R, k) = [ExpectedProduct(S, k) EXCEPT !.uri = o.uri]
    BY <2>1 DEF ExpectedProduct
  <2>5. QED
    BY <2>2, <2>3, <2>4 DEF R, k
<1>5. CASE o.type \notin {"ProductRegistered", "ProductMetadataUpdated"}
  <2>1. Registrars(R, k) = Registrars(S, k) /\ UriLogs(R, k) = UriLogs(S, k)
    BY <1>2, <1>5 DEF Registrars, UriLogs
  <2>2. ProductAfter(was, o) = was
    BY <1>5 DEF ProductAfter
  <2>3. ExpectedProduct(R, k) = ExpectedProduct(S, k)
    BY <2>1 DEF ExpectedProduct
  <2>4. QED
    BY <2>1, <2>2, <2>3 DEF R, k
<1>6. QED
  BY <1>3, <1>4, <1>5

\* What is expected of a product that S says nothing of.
LEMMA ExpectedNothing ==
    ASSUME NEW S \in SUBSET Logs, NEW k, Of(S, k, EventTypes) = {}
    PROVE  /\ ExpectedStatus(S, k) = 0 /\ ExpectedHandler(S, k) = Nobody
           /\ Registrars(S, k) = {}
<1>1. StatusLogs(S, k) = {} /\ HandlerLogs(S, k) = {} /\ Registrars(S, k) = {}
  BY LogFields DEF Of, StatusLogs, HandlerLogs, Registrars
<1>2. QED
  BY <1>1 DEF ExpectedStatus, ExpectedHandler
\* _project keeps the tables exact, in the order of the chain.
LEMMA ShowsProject ==
    ASSUME NEW t \in Tables, NEW o \in Logs, CanProject(t, o),
           t.bind[o.key] # Unbound => t.product[o.key] # NoProduct,
           NEW K \in SUBSET Keys, NEW S \in SUBSET Logs, Shows(t, S, K),
           \A p \in S : p.key = o.key => Before(p, o),
           o.type = "ProductMetadataUpdated" => Registrars(S, o.key) # {}
    PROVE  Shows(Project(t, o), S \cup {o}, K)
<1> DEFINE k == o.key
           u == Project(t, o)
           R == S \cup {o}
<1>0. k \in Keys
  BY LogFields
<1>1. t.bind[k] # Unbound => t.product[k] # NoProduct
  OBVIOUS
<1>2. /\ Touches(u, t, k)
      /\ t.bind[k] = Unbound => o.type = "ProductRegistered"
      /\ u.product[k] = ProductAfter(t.product[k], o)
      /\ u.ship[k] = IF t.ship[k] = NoShipment THEN NoShipment ELSE u.bind[k].status
      /\ \A j \in Keys \ {k} : u.ship[j] = t.ship[j]
  BY <1>1, ProjectValues
<1>3. u.bind[k] = [base |-> BaseFor(t, o), status |-> StatusAfter(StatusFor(t, o), o),
                   handler |-> HandlerAfter(HandlerFor(t, o), o)]
  BY <1>1, ProjectValues
<1>4. ShowsLogs(t, S, k) /\ (k \in K => ShowsBase(t, S, k))
  BY <1>0 DEF Shows
<1>5. StatusFor(t, o) = ExpectedStatus(S, k) /\ HandlerFor(t, o) = ExpectedHandler(S, k)
  <2>1. CASE t.bind[k] # Unbound
    BY <1>4, <2>1 DEF ShowsLogs, StatusFor, HandlerFor
  <2>2. CASE t.bind[k] = Unbound
    <3>1. Of(S, k, EventTypes) = {}
      BY <1>4, <2>2 DEF ShowsLogs
    <3>2. QED
      BY <2>2, <3>1, ExpectedNothing DEF StatusFor, HandlerFor
  <2>3. QED
    BY <2>1, <2>2
<1>6. /\ ExpectedStatus(R, k) = StatusAfter(ExpectedStatus(S, k), o)
      /\ ExpectedHandler(R, k) = HandlerAfter(ExpectedHandler(S, k), o)
  BY ExpectedAfter
<1>7. Registrars(R, k) # {} => ExpectedProduct(R, k) = ProductAfter(t.product[k], o)
  <2>1. Registrars(S, k) # {} => t.product[k] = ExpectedProduct(S, k)
    BY <1>4 DEF ShowsLogs
  <2>2. QED
    BY <2>1, ExpectedProductAfter
<1>8. k \in K /\ Registrars(R, k) = {} =>
         /\ t.bind[k] # Unbound
         /\ u.product[k] = t.product[k] /\ t.product[k] = t.bind[k].base
         /\ BaseFor(t, o) = t.bind[k].base
  <2> SUFFICES ASSUME k \in K, Registrars(R, k) = {}
               PROVE  /\ t.bind[k] # Unbound
                      /\ u.product[k] = t.product[k] /\ t.product[k] = t.bind[k].base
                      /\ BaseFor(t, o) = t.bind[k].base
    OBVIOUS
  <2>1. Registrars(S, k) = {} /\ o.type # "ProductRegistered"
    BY DEF Registrars, Of
  <2>2. o.type # "ProductMetadataUpdated"
    BY <2>1
  <2>3. t.bind[k] # Unbound
    BY <1>2, <2>1
  <2>4. ProductAfter(t.product[k], o) = t.product[k]
    BY <2>1, <2>2 DEF ProductAfter
  <2>5. QED
    BY <1>2, <1>4, <2>1, <2>3, <2>4 DEF ShowsBase, BaseFor
<1>9. \A j \in Keys \ {k} :
         /\ u.bind[j] = t.bind[j] /\ u.product[j] = t.product[j] /\ u.ship[j] = t.ship[j]
  BY <1>2 DEF Touches
<1>10. u.bind[k] # Unbound
  BY <1>2, ProjectionAssumption DEF Touches
<1> HIDE DEF u
<1>11. ShowsLogs(u, R, k) /\ (k \in K => ShowsBase(u, R, k))
  <2>1. u.bind[k].status = ExpectedStatus(R, k) /\ u.bind[k].handler = ExpectedHandler(R, k)
    BY <1>3, <1>5, <1>6
  <2>2. u.ship[k] \in {NoShipment, ExpectedStatus(R, k)}
    BY <1>2, <2>1
  <2>3. Registrars(R, k) # {} => u.product[k] = ExpectedProduct(R, k)
    BY <1>2, <1>7
  <2>4. k \in K /\ Registrars(R, k) = {} => u.product[k] = u.bind[k].base
    <3>1. u.bind[k].base = BaseFor(t, o)
      BY <1>3
    <3>2. QED
      BY <1>8, <3>1
  <2>5. QED
    BY <1>10, <2>1, <2>2, <2>3, <2>4 DEF ShowsLogs, ShowsBase
<1>12. ASSUME NEW j \in Keys, j # k
       PROVE  ShowsLogs(u, R, j) /\ (j \in K => ShowsBase(u, R, j))
  <2>1. \A types : Of(R, j, types) = Of(S, j, types)
    BY <1>12 DEF Of
  <2>2. /\ Registrars(R, j) = Registrars(S, j)
        /\ ExpectedProduct(R, j) = ExpectedProduct(S, j)
        /\ ExpectedStatus(R, j) = ExpectedStatus(S, j)
        /\ ExpectedHandler(R, j) = ExpectedHandler(S, j)
    BY <2>1 DEF Registrars, UriLogs, StatusLogs, HandlerLogs, ExpectedProduct,
                ExpectedStatus, ExpectedHandler
  <2>3. ShowsLogs(t, S, j) /\ (j \in K => ShowsBase(t, S, j))
    BY DEF Shows
  <2>4. QED
    BY <1>9, <1>12, <2>1, <2>2, <2>3 DEF ShowsLogs, ShowsBase
<1>13. QED
  BY <1>11, <1>12 DEF Shows, u

\* So does _journal.
LEMMA ShowsJournal ==
    ASSUME NEW t \in Tables, NEW o \in Logs, CanJournal(t, o), Bound(t),
           NEW K \in SUBSET Keys, Shows(t, t.canonical, K),
           \A p \in t.canonical : p.key = o.key => Before(p, o),
           o.type = "ProductMetadataUpdated" => Registrars(t.canonical, o.key) # {}
    PROVE  Shows(Journal(t, o), Journal(t, o).canonical, K)
<1>1. CASE o \in t.canonical
  BY <1>1 DEF Journal
<1>2. CASE o \notin t.canonical
  <2>1. PICK m \in Tables :
          /\ m.canonical = t.canonical \cup {o}
          /\ m.bind = t.bind /\ m.product = t.product /\ m.ship = t.ship
          /\ CanProject(m, o)
          /\ m.bind[o.key] # Unbound => m.product[o.key] # NoProduct
          /\ Journal(t, o) = Project(m, o)
    BY <1>2, Marked
  <2>2. Shows(m, t.canonical, K) /\ t.canonical \in SUBSET Logs
    BY <2>1 DEF Shows, ShowsLogs, ShowsBase, Tables
  <2>3. Shows(Project(m, o), t.canonical \cup {o}, K)
    BY <2>1, <2>2, ShowsProject
  <2>4. QED
    BY <2>1, <2>3, JournalStep
<1>3. QED
  BY <1>1, <1>2
\* _rewind takes a product back whole: none of its logs is shown, until they
\* are replayed.
LEMMA ShowsRestore ==
    ASSUME NEW t \in Tables, Bound(t), NEW a \in Blocks,
           NEW K \in SUBSET Keys, Shows(t, t.canonical, K)
    PROVE  Shows(Restore(t, a), Restore(t, a).canonical \ Remaining(t, a), K)
<1> DEFINE back == Affected(t, a)
           u == Restore(t, a)
           S == u.canonical \ Remaining(t, a)
<1>1. S = {o \in t.canonical : o.key \notin back}
  BY RestoreStep DEF Remaining, Affected
<1>2. S \in SUBSET Logs
  BY <1>1 DEF Tables
<1> HIDE DEF S, u
<1>3. ASSUME NEW k \in Keys, k \in back PROVE ShowsLogs(u, S, k) /\ ShowsBase(u, S, k)
  <2>1. \A types : Of(S, k, types) = {}
    BY <1>1, <1>3 DEF Of
  <2>2. /\ ExpectedStatus(S, k) = 0 /\ ExpectedHandler(S, k) = Nobody
        /\ Registrars(S, k) = {}
    BY <1>2, <2>1, ExpectedNothing
  <2>3. /\ u.bind[k] = [base |-> t.bind[k].base, status |-> 0, handler |-> Nobody]
        /\ u.product[k] = t.bind[k].base /\ u.ship[k] \in {0, NoShipment}
    <3>1. /\ Restore(t, a).bind[k] = [base |-> t.bind[k].base, status |-> 0, handler |-> Nobody]
          /\ Restore(t, a).product[k] = t.bind[k].base /\ Restore(t, a).ship[k] \in {0, NoShipment}
      BY <1>3, RestoreValues
    <3>2. QED
      BY <3>1 DEF u
  <2>4. u.bind[k].status = 0 /\ u.bind[k].handler = Nobody /\ u.product[k] = u.bind[k].base
    BY <2>3
  <2>5. QED
    BY <2>1, <2>2, <2>3, <2>4 DEF ShowsLogs, ShowsBase
<1>4. ASSUME NEW k \in Keys, k \notin back
      PROVE  ShowsLogs(u, S, k) /\ (k \in K => ShowsBase(u, S, k))
  <2>1. \A types : Of(S, k, types) = Of(t.canonical, k, types)
    BY <1>1, <1>4 DEF Of
  <2>2. /\ Registrars(S, k) = Registrars(t.canonical, k)
        /\ ExpectedProduct(S, k) = ExpectedProduct(t.canonical, k)
        /\ ExpectedStatus(S, k) = ExpectedStatus(t.canonical, k)
        /\ ExpectedHandler(S, k) = ExpectedHandler(t.canonical, k)
    BY <2>1 DEF Registrars, UriLogs, StatusLogs, HandlerLogs, ExpectedProduct,
                ExpectedStatus, ExpectedHandler
  <2>3. u.product[k] = t.product[k] /\ u.bind[k] = t.bind[k] /\ u.ship[k] = t.ship[k]
    BY <1>4, RestoreValues DEF u
  <2>4. ShowsLogs(t, t.canonical, k) /\ (k \in K => ShowsBase(t, t.canonical, k))
    BY DEF Shows
  <2>5. QED
    BY <2>1, <2>2, <2>3, <2>4 DEF ShowsLogs, ShowsBase
<1>5. QED
  BY <1>3, <1>4 DEF Shows, u, S

----------------------------------------------------------------------------
(* The anchors.                                                            *)

\* A branch and the branch of one of its blocks share what is below.
LEMMA AtSame ==
    ASSUME NEW b \in Blocks, NEW c \in Path[b], NEW n \in Nat, n <= Height[c]
    PROVE  At(b, n) = At(c, n)
<1>1. c \in Blocks /\ Height[c] <= Height[b] /\ Height[b] \in Nat /\ Height[c] \in Nat
  BY PathOfMember, TreeAssumption
<1>2. At(c, n) \in Path[c] /\ Height[At(c, n)] = n
  BY <1>1, BlockAt
<1>3. At(b, n) \in Path[b] /\ Height[At(b, n)] = n
  BY <1>1, BlockAt
<1>4. At(c, n) \in Path[b]
  BY <1>2, PathOfMember
<1>5. QED
  BY <1>2, <1>3, <1>4, TreeAssumption

\* The anchors up to the one rewound to are still spaced.
LEMMA SpacedRestore ==
    ASSUME NEW t \in Tables, Bound(t), Rooted(t), Spaced(t),
           NEW a \in t.anchors, t.start <= Height[a]
    PROVE  Spaced(Restore(t, a))
<1> DEFINE u == Restore(t, a)
<1>1. t.anchors \subseteq Path[t.cursor] /\ t.cursor \in Blocks /\ a \in Blocks
  BY DEF Rooted, Tables
<1>2. /\ Height[a] <= Height[t.cursor] /\ t.start \in Nat
      /\ \A b \in t.anchors : Height[b] \in Nat
  BY <1>1, PathOfMember, TreeAssumption DEF Tables
<1>3. u.start = t.start /\ u.cursor = a /\ u.anchors = {b \in t.anchors : Height[b] <= Height[a]}
  BY <1>1, RestoreStep
<1> HIDE DEF u
<1>4. \A b \in u.anchors : u.start <= Height[b]
  BY <1>3 DEF Spaced
<1>5. u.cursor \in u.anchors
  BY <1>2, <1>3
<1>6. \E b \in u.anchors : Height[b] = u.start
  BY <1>3 DEF Spaced
<1>7. ASSUME NEW n \in u.start..Height[u.cursor]
      PROVE  \E b \in u.anchors : n - MaxBatch < Height[b] /\ Height[b] <= n
  <2>1. Height[a] \in Nat /\ Height[t.cursor] \in Nat
    BY <1>1, TreeAssumption
  <2>2. n \in t.start..Height[t.cursor] /\ n <= Height[a]
    BY <1>2, <1>3, <2>1
  <2>3. PICK b \in t.anchors : n - MaxBatch < Height[b] /\ Height[b] <= n
    BY <2>2 DEF Spaced
  <2>4. Height[b] <= Height[a]
    BY <1>2, <2>1, <2>2, <2>3
  <2>5. QED
    BY <1>3, <2>3, <2>4
<1>8. QED
  BY <1>4, <1>5, <1>6, <1>7 DEF Spaced, u

\* A batch ends at most MaxBatch blocks above the cursor, and its last block
\* is an anchor.
LEMMA SpacedAdvanced ==
    ASSUME NEW t \in Tables, NEW q \in Poll, Rooted(t), Spaced(t),
           q.end \in Blocks, q.headers \subseteq Path[q.end], HeadersInv(t, q), AboveCursor(t, q)
    PROVE  Spaced(Advanced(t, q.end, q.headers))
<1> DEFINE u == Advanced(t, q.end, q.headers)
<1>1. t.anchors \subseteq Path[t.cursor] /\ t.cursor \in Blocks
  BY DEF Rooted
<1>2. /\ Height[t.cursor] \in Nat /\ Height[q.end] \in Nat /\ t.start \in Nat
      /\ t.start <= Height[t.cursor] /\ MaxBatch \in Nat
  BY <1>1, TreeAssumption, IndexerAssumption DEF Tables, Rooted
<1>3. \A b \in t.anchors : Height[b] \in Nat /\ Height[b] <= Height[t.cursor]
  BY <1>1, PathOfMember, TreeAssumption
<1>4. \A h \in q.headers : Height[h] \in Nat /\ Height[t.cursor] < Height[h]
  BY PathOfMember, TreeAssumption DEF AboveCursor
<1>5. u.start = t.start /\ u.cursor = q.end /\ u.anchors = q.headers \cup t.anchors
  <2>1. u.start = t.start /\ u.cursor = q.end
        /\ u.anchors = q.headers \cup
              {b \in t.anchors : \A h \in q.headers : Height[h] # Height[b]}
    BY DEF Tables, Advanced
  <2>2. \A b \in t.anchors, h \in q.headers : Height[h] # Height[b]
    BY <1>2, <1>3, <1>4
  <2>3. QED
    BY <2>1, <2>2
<1> HIDE DEF u
<1>6. \A b \in u.anchors : u.start <= Height[b]
  BY <1>2, <1>4, <1>5 DEF Spaced
<1>7. u.cursor \in u.anchors
  BY <1>5 DEF HeadersInv
<1>8. \E b \in u.anchors : Height[b] = u.start
  BY <1>5 DEF Spaced
<1>9. ASSUME NEW n \in u.start..Height[u.cursor]
      PROVE  \E b \in u.anchors : n - MaxBatch < Height[b] /\ Height[b] <= n
  <2>0. n \in Int /\ t.start <= n /\ n <= Height[q.end]
    BY <1>2, <1>5
  <2>1. CASE n <= Height[t.cursor]
    <3>1. n \in t.start..Height[t.cursor]
      BY <1>2, <2>0, <2>1
    <3>2. QED
      BY <1>5, <3>1 DEF Spaced
  <2>2. CASE n = Height[q.end]
    <3>1. n - MaxBatch < Height[q.end] /\ Height[q.end] <= n
      BY <1>2, <2>2, IndexerAssumption
    <3>2. QED
      BY <1>5, <1>7, <3>1
  <2>3. CASE Height[t.cursor] < n /\ n < Height[q.end]
    <3>1. n - MaxBatch < Height[t.cursor] /\ Height[t.cursor] <= n
      BY <1>2, <2>0, <2>3 DEF HeadersInv
    <3>2. t.cursor \in u.anchors
      BY <1>5 DEF Spaced
    <3>3. QED
      BY <3>1, <3>2
  <2>4. QED
    BY <1>2, <2>0, <2>1, <2>2, <2>3
<1>10. QED
  BY <1>6, <1>7, <1>8, <1>9 DEF Spaced, u

----------------------------------------------------------------------------
(* The deployment anchor.                                                  *)

LEMMA OriginBlock ==
    ASSUME NEW t \in Tables, Rooted(t)
    PROVE  /\ At(t.cursor, t.start) \in Blocks
           /\ At(t.cursor, t.start) \in Path[t.cursor]
           /\ Height[At(t.cursor, t.start)] = t.start
           /\ t.start \in Nat /\ Height[t.cursor] \in Nat
BY BlockAt, TreeAssumption DEF Rooted, Tables

LEMMA OriginRestore ==
    ASSUME NEW t \in Tables, Bound(t), Rooted(t), Origin(t),
           NEW a \in t.anchors, t.start <= Height[a]
    PROVE  Origin(Restore(t, a))
<1>1. /\ a \in Path[t.cursor] /\ a \in Blocks /\ t.cursor \in Blocks
      /\ a # NoBlock /\ t.cursor # NoBlock
  BY ProjectionAssumption DEF Rooted, Tables
<1>2. At(t.cursor, t.start) = At(a, t.start)
  BY <1>1, AtSame DEF Tables
<1>3. /\ Restore(t, a).start = t.start /\ Restore(t, a).cursor = a
      /\ Restore(t, a).canonical \cup Restore(t, a).orphaned = t.canonical \cup t.orphaned
  BY <1>1, RestoreStep, RestoreValues DEF Orphans
<1>4. QED
  BY <1>1, <1>2, <1>3 DEF Origin

\* Nothing of the journal is forgotten by a step that journals o.
LEMMA JournalEver ==
    ASSUME NEW t \in Tables, NEW o \in Logs, CanJournal(t, o), Bound(t)
    PROVE  Journal(t, o).canonical \cup Journal(t, o).orphaned =
              t.canonical \cup t.orphaned \cup {o}
<1>1. CASE o \in t.canonical
  BY <1>1 DEF Journal
<1>2. CASE o \notin t.canonical
  <2>1. PICK m \in Tables :
          /\ m.canonical = t.canonical \cup {o} /\ m.orphaned = t.orphaned \ {o}
          /\ CanProject(m, o)
          /\ m.bind[o.key] # Unbound => m.product[o.key] # NoProduct
          /\ Journal(t, o) = Project(m, o)
    BY <1>2, Marked
  <2>2. Touches(Project(m, o), m, o.key)
    BY <2>1, ProjectTyped
  <2>3. QED
    BY <2>1, <2>2 DEF Touches, SameJournal
<1>3. QED
  BY <1>1, <1>2

LEMMA OriginJournal ==
    ASSUME NEW t \in Tables, NEW o \in Logs, CanJournal(t, o), Bound(t), Rooted(t), Origin(t),
           NEW e \in Blocks, t.cursor \in Path[e], o.block \in Path[e],
           Height[t.cursor] < Height[o.block]
    PROVE  Origin(Journal(t, o))
<1> DEFINE s == At(t.cursor, t.start)
<1>1. s \in Blocks /\ s \in Path[t.cursor] /\ Height[s] = t.start
  BY OriginBlock
<1>2. t.cursor \in Blocks /\ t.cursor # NoBlock /\ t.start <= Height[t.cursor]
  BY ProjectionAssumption DEF Rooted
<1>3. Height[o.block] \in Nat /\ Height[t.cursor] \in Nat /\ t.start \in Nat
  BY <1>2, LogFields, TreeAssumption DEF Tables
<1>4. s \in Path[e]
  BY <1>1, PathOfMember
<1>5. s \in Path[o.block] /\ t.start < Height[o.block]
  BY <1>1, <1>2, <1>3, <1>4, LowerIsAncestor
<1> HIDE DEF s
<1>6. /\ Journal(t, o).start = t.start /\ Journal(t, o).cursor = t.cursor
      /\ Journal(t, o).canonical \cup Journal(t, o).orphaned =
            t.canonical \cup t.orphaned \cup {o}
  BY JournalStep, JournalEver
<1>7. QED
  BY <1>2, <1>5, <1>6 DEF Origin, s

\* A product known from above the deployment anchor was registered above it,
\* on whatever branch: before any update of it there.
LEMMA RegisteredBefore ==
    ASSUME NEW t \in Tables, Rooted(t), Origin(t), Known(t),
           NEW e \in Blocks, t.cursor \in Path[e],
           NEW o \in Logs, o.block \in Path[e], o.type = "ProductMetadataUpdated",
           t.bind[o.key] # Unbound
    PROVE  \E r \in LogsOn(e, t.start, Height[e]) :
              r.type = "ProductRegistered" /\ r.key = o.key /\ Before(r, o)
<1> DEFINE s == At(t.cursor, t.start)
<1>1. s \in Blocks /\ s \in Path[t.cursor] /\ Height[s] = t.start /\ t.start \in Nat
  BY OriginBlock
<1>2. t.cursor \in Blocks /\ t.cursor # NoBlock
  BY ProjectionAssumption DEF Rooted
<1>3. s \in Path[e]
  BY <1>1, PathOfMember
<1>4. PICK r \in Logs : /\ r.block \in Path[e] /\ r.type = "ProductRegistered"
                        /\ r.key = o.key /\ Before(r, o)
  BY ContractAssumption
<1>5. PICK z \in t.canonical \cup t.orphaned :
        z.type = "ProductRegistered" /\ z.key = o.key
  BY LogFields DEF Known, Registrars, Of
<1>6. z \in Logs
  BY DEF Tables
<1>7. t.start < Height[z.block] /\ s \in Path[z.block]
  BY <1>2 DEF Origin
<1>8. Height[r.block] \in Nat /\ Height[r.block] <= Height[e] /\ z.block \in Blocks
  BY <1>4, <1>6, LogFields, PathOfMember
<1> HIDE DEF s
<1>9. t.start < Height[r.block]
  <2> SUFFICES ASSUME Height[r.block] <= t.start PROVE FALSE
    BY <1>1, <1>8
  <2>1. r.block \in Path[s]
    BY <1>1, <1>3, <1>4, LowerIsAncestor
  <2>2. r.block \in Path[z.block] /\ z.block \in Path[z.block]
    BY <1>7, <1>8, <2>1, PathOfMember, TreeAssumption
  <2>3. r = z
    BY <1>4, <1>5, <1>6, <1>8, <2>2, ContractAssumption
  <2>4. QED
    BY <1>1, <1>7, <1>8, <2>3
<1>10. r \in LogsOn(e, t.start, Height[e])
  BY <1>4, <1>8, <1>9 DEF LogsOn
<1>11. QED
  BY <1>4, <1>10
----------------------------------------------------------------------------
(* The steps of a poll, for ShowsInv.                                      *)

\* What the steps of w may rely on.
LEMMA ShownFacts ==
    ASSUME NEW K \in SUBSET Keys, ShowsInv(K), NEW w \in Workers
    PROVE  /\ IInv /\ HistoryInv /\ TypeInv /\ TypeOK /\ tip \in Blocks
           /\ tx[w] \in Tables /\ poll[w] \in Poll /\ Bound(tx[w])
           /\ PollInv(pc[w], tx[w], poll[w]) /\ RowsInv(pc[w], tx[w], poll[w])
           /\ ShownInv(pc[w], tx[w], poll[w], K)
BY Facts, RowFacts DEF ShowsInv, TypeInv

\* A product stays known.
LEMMA StepKnown ==
    ASSUME NEW K \in SUBSET Keys, ShowsInv(K), NEW w \in Workers, PollStep(w) \/ Failure(w)
    PROVE  pc'[w] \notin {"idle", "lock"} => Known(tx'[w])
<1>1. Known(db) /\ (pc[w] \notin {"idle", "lock"} => Known(tx[w]))
  BY ShownFacts DEF ShowsInv, ShownInv
<1>2. QED
  BY <1>1, ShownFacts, StepCarried DEF Carried, Keeps

\* What is shown is in three of the tables.
LEMMA ShowsSame ==
    ASSUME NEW t, NEW u, NEW S, NEW K \in SUBSET Keys, Shows(t, S, K),
           u.bind = t.bind, u.product = t.product, u.ship = t.ship
    PROVE  Shows(u, S, K)
BY DEF Shows, ShowsLogs, ShowsBase

LEMMA ShownNothing ==
    ASSUME NEW point \in {"idle", "lock"}, NEW t, NEW q, NEW K
    PROVE  ShownInv(point, t, q, K)
BY DEF ShownInv

LEMMA LeaveShown ==
    ASSUME NEW K \in SUBSET Keys, ShowsInv(K), NEW w \in Workers, Leave(w)
    PROVE  ShownInv(pc'[w], tx'[w], poll'[w], K)
<1>1. pc'[w] = "idle"
  BY ShownFacts DEF TypeOK, Leave, GoTo
<1>2. QED
  BY <1>1, ShownNothing

\* Between two batches the tables are complete.
LEMMA QuietShown ==
    ASSUME NEW K \in SUBSET Keys, ShowsInv(K), NEW w \in Workers,
           pc[w] \in {"check", "scan", "plan", "replay"},
           pc[w] = "replay" => poll[w].todo = {},
           pc'[w] \in {"check", "scan", "plan", "commit"}, tx'[w] = tx[w]
    PROVE  ShownInv(pc'[w], tx'[w], poll'[w], K)
<1>1. ShownInv(pc[w], tx[w], poll[w], K)
  BY ShownFacts
<1>2. tx[w].canonical \ {} = tx[w].canonical
  OBVIOUS
<1>3. Known(tx[w]) /\ Spaced(tx[w]) /\ Origin(tx[w]) /\ Shows(tx[w], tx[w].canonical, K)
  BY <1>1, <1>2 DEF ShownInv
<1>4. QED
  BY <1>3 DEF ShownInv

LEMMA OpenShown ==
    ASSUME NEW K \in SUBSET Keys, ShowsInv(K), NEW w \in Workers, Open(w)
    PROVE  ShownInv(pc'[w], tx'[w], poll'[w], K)
<1>1. tx'[w] = db /\ pc'[w] = IF db.cursor = NoBlock THEN "create" ELSE "check"
  BY ShownFacts DEF TypeOK, Open, GoTo
<1>2. Known(db) /\ Origin(db) /\ Shows(db, db.canonical, K) /\ (db.cursor # NoBlock => Spaced(db))
  BY DEF ShowsInv
<1>3. QED
  BY <1>1, <1>2 DEF ShownInv

LEMMA CreateShown ==
    ASSUME NEW K \in SUBSET Keys, ShowsInv(K), NEW w \in Workers, CreateCursor(w)
    PROVE  ShownInv(pc'[w], tx'[w], poll'[w], K)
<1> DEFINE t == tx[w]
           b == Header(StartBlock[w])
<1>1. pc[w] = "create" /\ pc'[w] = "check"
  BY ShownFacts DEF TypeOK, CreateCursor, Asks, GoTo
<1>2. b \in Blocks /\ b # NoBlock /\ Height[b] = StartBlock[w] /\ StartBlock[w] \in Nat
  BY ShownFacts, Answered, IndexerAssumption, ProjectionAssumption DEF CreateCursor, Asks
<1>3. tx'[w] = [t EXCEPT !.start = StartBlock[w], !.cursor = b, !.anchors = {b}]
  BY ShownFacts DEF TypeOK, CreateCursor, Tables
<1>4. PICK u : u = tx'[w]
  OBVIOUS
<1>5. /\ u.start = StartBlock[w] /\ u.cursor = b /\ u.anchors = {b}
      /\ u.canonical = t.canonical /\ u.orphaned = t.orphaned
      /\ u.bind = t.bind /\ u.product = t.product /\ u.ship = t.ship
  BY <1>3, <1>4, ShownFacts DEF Tables
<1>6. t.canonical = {} /\ t.orphaned = {} /\ Shows(t, t.canonical, K)
  BY <1>1, ShownFacts DEF PollInv, Unused, ShownInv, Origin
<1>7. Shows(u, u.canonical, K)
  BY <1>5, <1>6, ShowsSame
<1>8. Origin(u)
  BY <1>2, <1>5, <1>6 DEF Origin
<1> HIDE DEF b
<1>9. Spaced(u)
  <2>1. \A n \in u.start..Height[u.cursor] : n - MaxBatch < Height[b] /\ Height[b] <= n
    BY <1>2, <1>5, IndexerAssumption
  <2>2. QED
    BY <1>2, <1>5, <2>1 DEF Spaced
<1>10. Known(u)
  BY <1>1, <1>4, StepKnown DEF PollStep, Opening
<1>11. ShownInv("check", u, poll'[w], K)
  BY <1>7, <1>8, <1>9, <1>10 DEF ShownInv
<1>12. QED
  BY <1>1, <1>4, <1>11

LEMMA OpeningShown ==
    ASSUME NEW K \in SUBSET Keys, ShowsInv(K), NEW w \in Workers, Opening(w)
    PROVE  ShownInv(pc'[w], tx'[w], poll'[w], K)
<1>1. CASE ObserveHead(w)
  <2>1. pc'[w] = "lock"
    BY <1>1, ShownFacts DEF TypeOK, ObserveHead, GoTo
  <2>2. QED
    BY <2>1, ShownNothing
<1>2. CASE Busy(w) \/ Refuse(w)
  BY <1>2, LeaveShown DEF Busy, Refuse, Fail
<1>3. CASE CheckCursor(w)
  <2>1. pc[w] = "check" /\ pc'[w] \in {"plan", "scan"} /\ tx' = tx
    BY <1>3, ShownFacts DEF TypeOK, CheckCursor, Asks, GoTo
  <2>2. QED
    BY <2>1, QuietShown
<1>4. QED
  BY <1>1, <1>2, <1>3, OpenShown, CreateShown DEF Opening
LEMMA RewindShown ==
    ASSUME NEW K \in SUBSET Keys, ShowsInv(K), NEW w \in Workers, Rewind(w)
    PROVE  ShownInv(pc'[w], tx'[w], poll'[w], K)
<1> DEFINE t == tx[w]
<1>1. PICK a \in poll[w].scan :
        /\ tx' = [tx EXCEPT ![w] = Restore(@, a)]
        /\ poll' = [poll EXCEPT ![w].scan = {},
                                ![w].todo = Remaining(tx[w], a),
                                ![w].locked = @ \cup Affected(tx[w], a)]
  BY DEF Rewind
<1>2. pc[w] = "scan" /\ pc'[w] = "replay"
  BY ShownFacts DEF TypeOK, Rewind, Asks, GoTo
<1>3. tx'[w] = Restore(t, a) /\ poll'[w].todo = Remaining(t, a)
  BY <1>1, ShownFacts DEF TypeOK, Poll
<1>4. a \in Blocks
  BY ShownFacts DEF Poll
<1>5. Rooted(t) /\ a \in t.anchors /\ t.start <= Height[a]
  BY <1>2, ShownFacts DEF PollInv, ScanInv, Exact
<1>6. Spaced(t) /\ Origin(t) /\ Shows(t, t.canonical, K)
  BY <1>2, ShownFacts DEF ShownInv
<1>7. Spaced(Restore(t, a)) /\ Origin(Restore(t, a))
  BY <1>5, <1>6, ShownFacts, SpacedRestore, OriginRestore
<1>8. Shows(Restore(t, a), Restore(t, a).canonical \ Remaining(t, a), K)
  BY <1>4, <1>6, ShownFacts, ShowsRestore
<1>9. InOrder(Restore(t, a).canonical \ Remaining(t, a), Remaining(t, a))
  <2>1. Restore(t, a).canonical = t.canonical \ Orphans(t, a)
    BY <1>4, ShownFacts, RestoreStep
  <2>2. QED
    BY <2>1 DEF InOrder, Remaining
<1>10. Known(tx'[w])
  BY <1>2, StepKnown DEF PollStep, Recovering
<1>11. QED
  BY <1>2, <1>3, <1>7, <1>8, <1>9, <1>10 DEF ShownInv

\* Of what is left to do of one branch, the earliest log is projected next.
LEMMA InOrderNext ==
    ASSUME NEW S \in SUBSET Logs, NEW todo \in SUBSET Logs, InOrder(S, todo),
           NEW o \in todo, Earliest(todo, o),
           NEW b \in Blocks, \A p \in todo : p.block \in Path[b]
    PROVE  InOrder(S \cup {o}, todo \ {o})
<1>1. ASSUME NEW p \in todo \ {o} PROVE Before(o, p)
  BY Ordered DEF Earliest
<1>2. QED
  BY <1>1 DEF InOrder

\* When an update of a product is the earliest log left of the branch e, its
\* registration has been projected.
LEMMA UpdateReady ==
    ASSUME NEW t \in Tables, Rooted(t), Origin(t), Known(t),
           NEW e \in Blocks, t.cursor \in Path[e],
           NEW S \in SUBSET Logs, NEW todo \in SUBSET Logs,
           LogsOn(e, t.start, Height[e]) \subseteq S \cup todo,
           NEW o \in todo, Earliest(todo, o), o.block \in Path[e],
           o.type = "ProductMetadataUpdated", t.bind[o.key] # Unbound
    PROVE  Registrars(S, o.key) # {}
<1>1. PICK r \in LogsOn(e, t.start, Height[e]) :
        r.type = "ProductRegistered" /\ r.key = o.key /\ Before(r, o)
  BY RegisteredBefore
<1>2. r \in S
  BY <1>1 DEF Earliest
<1>3. QED
  BY <1>1, <1>2 DEF Registrars, Of

LEMMA ReplayShown ==
    ASSUME NEW K \in SUBSET Keys, ShowsInv(K), NEW w \in Workers, Replay(w)
    PROVE  ShownInv(pc'[w], tx'[w], poll'[w], K)
<1> DEFINE t == tx[w]
           todo == poll[w].todo
           S == t.canonical \ todo
<1>1. PICK o \in todo :
        /\ Earliest(todo, o)
        /\ IF CanProject(tx[w], o)
           THEN /\ tx' = [tx EXCEPT ![w] = Project(@, o)]
                /\ poll' = [poll EXCEPT ![w].todo = @ \ {o}]
                /\ UNCHANGED <<db, holder, pc, batch>>
           ELSE Fail(w)
  BY DEF Replay
<1>2. pc[w] = "replay"
  BY DEF Replay
<1>3. CASE ~CanProject(tx[w], o)
  BY <1>1, <1>3, LeaveShown DEF Fail
<1>4. CASE CanProject(tx[w], o)
  <2>1. /\ Rooted(t) /\ t.canonical = CursorLogs(t) /\ t.cursor \in Blocks
        /\ todo \subseteq t.canonical
        /\ Spaced(t) /\ Origin(t) /\ Known(t) /\ Shows(t, S, K) /\ InOrder(S, todo)
    BY <1>2, ShownFacts DEF PollInv, Exact, Rooted, RowsInv, ShownInv
  <2>2. t \in Tables /\ Bound(t) /\ t.canonical \in SUBSET Logs /\ todo \in SUBSET Logs
    BY ShownFacts DEF Tables, Poll
  <2>3. \A p \in todo : p.block \in Path[t.cursor]
    BY <2>1 DEF CursorLogs, LogsOn
  <2>4. t.bind[o.key] # Unbound /\ o \in Logs /\ o.key \in Keys
    BY <2>1, <2>2, LogFields DEF Bound
  <2>5. t.product[o.key] # NoProduct
    BY <2>2, <2>4 DEF Bound
  <2>6. t.cursor \in Path[t.cursor]
    BY <2>1, TreeAssumption
  <2>7. CursorLogs(t) \subseteq S \cup todo
    BY <2>1
  <2>8. o.type = "ProductMetadataUpdated" => Registrars(S, o.key) # {}
    BY <1>1, <2>1, <2>2, <2>3, <2>4, <2>6, <2>7, UpdateReady DEF CursorLogs
  <2>9. \A p \in S : p.key = o.key => Before(p, o)
    BY <2>1 DEF InOrder
  <2>10. Shows(Project(t, o), S \cup {o}, K)
    BY <1>4, <2>1, <2>2, <2>4, <2>5, <2>8, <2>9, ShowsProject
  <2>11. InOrder(S \cup {o}, todo \ {o})
    BY <1>1, <2>1, <2>2, <2>3, InOrderNext
  <2>12. SameJournal(Project(t, o), t)
    BY <1>4, <2>2, <2>4, ProjectStep
  <2>13. PICK u : u = Project(t, o)
    OBVIOUS
  <2>14. tx'[w] = u /\ poll'[w].todo = todo \ {o} /\ pc'[w] = "replay"
    BY <1>1, <1>2, <1>4, <2>13, ShownFacts DEF TypeOK, Poll
  <2>15. Spaced(u) /\ Origin(u)
    BY <2>1, <2>12, <2>13 DEF Spaced, Origin, SameJournal
  <2>16. u.canonical \ (todo \ {o}) = S \cup {o}
    BY <2>1, <2>12, <2>13 DEF SameJournal
  <2>17. Known(u)
    BY <2>14, StepKnown DEF PollStep, Recovering
  <2> HIDE DEF S, todo
  <2>18. ShownInv("replay", u, poll'[w], K)
    BY <2>10, <2>11, <2>13, <2>14, <2>15, <2>16, <2>17 DEF ShownInv
  <2>19. QED
    BY <2>14, <2>18
<1>5. QED
  BY <1>3, <1>4

LEMMA RecoveringShown ==
    ASSUME NEW K \in SUBSET Keys, ShowsInv(K), NEW w \in Workers, Recovering(w)
    PROVE  ShownInv(pc'[w], tx'[w], poll'[w], K)
<1>1. CASE SkipAnchor(w)
  <2>1. pc[w] = "scan" /\ pc' = pc /\ tx' = tx
    BY <1>1 DEF SkipAnchor, Asks
  <2>2. QED
    BY <2>1, QuietShown
<1>2. CASE NoAncestor(w)
  BY <1>2, LeaveShown DEF NoAncestor, Fail
<1>3. CASE Replayed(w)
  <2>1. pc[w] = "replay" /\ poll[w].todo = {} /\ pc'[w] = "plan" /\ tx' = tx
    BY <1>3, ShownFacts DEF TypeOK, Replayed, GoTo
  <2>2. QED
    BY <2>1, QuietShown
<1>4. QED
  BY <1>1, <1>2, <1>3, RewindShown, ReplayShown DEF Recovering
LEMMA ReadEndShown ==
    ASSUME NEW K \in SUBSET Keys, ShowsInv(K), NEW w \in Workers, ReadEnd(w)
    PROVE  ShownInv(pc'[w], tx'[w], poll'[w], K)
<1> DEFINE t == tx[w]
           h == Header(EndNum(w))
<1>1. /\ pc[w] = "plan" /\ pc'[w] = "fetch" /\ tx'[w] = t
      /\ Serves(EndNum(w)) /\ EndNum(w) > Num(w)
  BY ShownFacts DEF TypeOK, ReadEnd, Asks, GoTo
<1>2. poll'[w].end = h /\ poll'[w].headers = {h}
  BY ShownFacts DEF TypeOK, ReadEnd, Poll
<1>3. Height[t.cursor] \in Nat
  BY <1>1, ShownFacts, TreeAssumption DEF PollInv, Exact, Rooted
<1>4. EndNum(w) \in Nat /\ EndNum(w) <= Height[t.cursor] + MaxBatch
  <2>1. Target(w) \in Nat
    BY ShownFacts, IndexerAssumption DEF Target, Poll
  <2>2. batch[w] \in Nat /\ batch[w] <= MaxBatch /\ MaxBatch \in Nat
    BY ShownFacts, Here, IndexerAssumption
  <2>3. QED
    BY <1>3, <2>1, <2>2 DEF EndNum, Num
<1>5. Height[h] = EndNum(w)
  BY <1>1, <1>4, ShownFacts, Answered
<1> HIDE DEF h
<1>6. HeadersInv(t, poll'[w])
  BY <1>2, <1>4, <1>5 DEF HeadersInv
<1>7. Known(t) /\ Spaced(t) /\ Origin(t) /\ Shows(t, t.canonical, K)
  BY <1>1, ShownFacts DEF ShownInv
<1>8. QED
  BY <1>1, <1>6, <1>7 DEF ShownInv

\* Fetching changes neither the tables nor the end of the batch.
LEMMA FetchShown ==
    ASSUME NEW K \in SUBSET Keys, ShowsInv(K), NEW w \in Workers, Query(w) \/ ReadDetails(w)
    PROVE  ShownInv(pc'[w], tx'[w], poll'[w], K)
<1>1. CASE Leave(w)
  BY <1>1, LeaveShown
<1>2. CASE ~Leave(w)
  <2>1. pc[w] = "fetch" /\ pc' = pc /\ tx' = tx
    BY <1>2 DEF Query, ReadDetails, FailFetch
  <2>2. poll'[w].end = poll[w].end /\ poll'[w].headers = poll[w].headers
    <3>1. CASE Query(w)
      BY <3>1, ShownFacts DEF TypeOK, Poll, Query
    <3>2. CASE ReadDetails(w)
      <4>1. PICK o \in poll[w].details : poll' = [poll EXCEPT ![w].details = @ \ {o}]
        BY <1>2, <3>2 DEF ReadDetails, FailFetch
      <4>2. QED
        BY <4>1, ShownFacts DEF TypeOK, Poll
    <3>3. QED
      BY <3>1, <3>2
  <2>3. ShownInv("fetch", tx[w], poll[w], K)
    BY <2>1, ShownFacts
  <2>4. QED
    BY <2>1, <2>2, <2>3 DEF ShownInv, HeadersInv
<1>3. QED
  BY <1>1, <1>2

LEMMA FetchedShown ==
    ASSUME NEW K \in SUBSET Keys, ShowsInv(K), NEW w \in Workers, Fetched(w)
    PROVE  ShownInv(pc'[w], tx'[w], poll'[w], K)
<1> DEFINE t == tx[w]
           q == poll[w]
<1>1. CASE ~Paired(q.todo)
  BY <1>1, LeaveShown DEF Fetched, Fail
<1>2. CASE Paired(q.todo)
  <2>1. pc[w] = "fetch" /\ pc'[w] = "journal" /\ tx'[w] = t /\ poll'[w] = q
    BY <1>2, ShownFacts DEF TypeOK, Fetched, GoTo
  <2>2. Exact(t) /\ EndInv(t, q) /\ q.headers = {q.end}
        /\ (q.end \notin dead => q.todo \subseteq BatchLogs(t, q))
    BY <2>1, ShownFacts DEF PollInv, FetchInv
  <2>3. Known(t) /\ Spaced(t) /\ Origin(t) /\ Shows(t, t.canonical, K) /\ HeadersInv(t, q)
    BY <2>1, ShownFacts DEF ShownInv
  <2>4. AboveCursor(t, q)
    BY <2>2 DEF EndInv, AboveCursor
  <2>5. ASSUME q.end \notin dead PROVE InOrder(t.canonical, q.todo)
    <3>1. \A p \in t.canonical : p \in Logs /\ Height[p.block] <= Height[t.cursor]
      BY <2>2 DEF Exact, CursorLogs, LogsOn
    <3>2. \A o \in q.todo : o \in Logs /\ Height[t.cursor] < Height[o.block]
      BY <2>2, <2>5 DEF BatchLogs, LogsOn
    <3>3. Height[t.cursor] \in Nat
      BY <2>2, TreeAssumption DEF Exact, Rooted
    <3>4. ASSUME NEW p \in t.canonical, NEW o \in q.todo PROVE Before(p, o)
      <4>1. Height[p.block] \in Nat /\ Height[o.block] \in Nat
        BY <3>1, <3>2, LogFields
      <4>2. QED
        BY <3>1, <3>2, <3>3, <4>1 DEF Before
    <3>5. QED
      BY <3>4 DEF InOrder
  <2>6. ShownInv("journal", t, q, K)
    BY <2>3, <2>4, <2>5 DEF ShownInv
  <2>7. QED
    BY <2>1, <2>6
<1>3. QED
  BY <1>1, <1>2

LEMMA JournalLogShown ==
    ASSUME NEW K \in SUBSET Keys, ShowsInv(K), NEW w \in Workers, JournalLog(w)
    PROVE  ShownInv(pc'[w], tx'[w], poll'[w], K)
<1> DEFINE t == tx[w]
           q == poll[w]
<1>1. CASE Leave(w)
  BY <1>1, LeaveShown
<1>2. CASE ~Leave(w)
  <2>1. PICK o \in q.todo :
          /\ Earliest(q.todo, o)
          /\ CanJournal(tx[w], o)
          /\ tx' = [tx EXCEPT ![w] = Journal(@, o)]
          /\ poll' = [poll EXCEPT ![w].todo = @ \ {o},
                                  ![w].headers = @ \cup {o.block},
                                  ![w].locked = IF o \in tx[w].canonical
                                                THEN @ ELSE @ \cup {o.key}]
          /\ UNCHANGED <<db, holder, pc, batch>>
    BY <1>2 DEF JournalLog, Fail
  <2>2. pc[w] = "journal"
    BY DEF JournalLog
  <2>3. JournalInv(t, q) /\ ShownInv("journal", t, q, K)
    BY <2>2, ShownFacts DEF PollInv
  <2>4. o \in Logs /\ t \in Tables /\ Bound(t) /\ t.canonical \in SUBSET Logs
        /\ q.todo \in SUBSET Logs
    BY ShownFacts DEF Poll, Tables
  <2>5. PICK u : u = Journal(t, o)
    OBVIOUS
  <2>6. PICK r : r = poll'[w]
    OBVIOUS
  <2>7. /\ tx'[w] = u /\ pc'[w] = "journal"
        /\ r.end = q.end /\ r.todo = q.todo \ {o} /\ r.headers = q.headers \cup {o.block}
    BY <2>1, <2>2, <2>5, <2>6, ShownFacts DEF TypeOK, Poll
  <2>8. /\ u.start = t.start /\ u.cursor = t.cursor /\ u.anchors = t.anchors
        /\ u.canonical = t.canonical \cup {o}
    BY <2>1, <2>4, <2>5, JournalStep
  <2>9. Known(u)
    BY <2>7, StepKnown DEF PollStep, Indexing
  <2>10. Spaced(u)
    BY <2>3, <2>8 DEF ShownInv, Spaced
  <2>11. HeadersInv(u, r)
    BY <2>3, <2>7, <2>8 DEF ShownInv, HeadersInv
  <2>12. ASSUME q.end \notin dead
         PROVE  /\ AboveCursor(u, r)
                /\ Joined(u, r) =>
                      Origin(u) /\ Shows(u, u.canonical, K) /\ InOrder(u.canonical, r.todo)
    <3>1. /\ q.todo \subseteq BatchLogs(t, q)
          /\ t.canonical \cup q.todo = CursorLogs(t) \cup BatchLogs(t, q)
          /\ Rooted(t) /\ q.end \in Blocks /\ t.cursor \in Blocks
      BY <2>3, <2>12 DEF JournalInv, EndInv, Rooted
    <3>2. \A p \in q.todo : p.block \in Path[q.end] /\ Height[t.cursor] < Height[p.block]
      BY <3>1 DEF BatchLogs, LogsOn
    <3>3. AboveCursor(u, r)
      BY <2>3, <2>7, <2>8, <2>12, <3>2 DEF ShownInv, AboveCursor
    <3>4. ASSUME t.cursor \in Path[q.end]
          PROVE  Origin(u) /\ Shows(u, u.canonical, K) /\ InOrder(u.canonical, r.todo)
      <4>1. /\ Known(t) /\ Origin(t) /\ Shows(t, t.canonical, K)
            /\ InOrder(t.canonical, q.todo)
        BY <2>3, <2>12, <3>4 DEF ShownInv, Joined
      <4>2. Origin(u)
        BY <2>1, <2>4, <2>5, <3>1, <3>2, <3>4, <4>1, OriginJournal
      <4>3. InOrder(u.canonical, r.todo)
        BY <2>1, <2>4, <2>7, <2>8, <3>1, <3>2, <4>1, InOrderNext
      <4>4. LogsOn(q.end, t.start, Height[q.end]) = t.canonical \cup q.todo
        <5>1. t.start \in Nat /\ t.start <= Height[t.cursor]
          BY <2>4, <3>1 DEF Tables, Rooted
        <5>2. QED
          BY <3>1, <3>4, <5>1, LogsSplit DEF CursorLogs, BatchLogs
      <4>5. ASSUME o.type = "ProductMetadataUpdated"
            PROVE  Registrars(t.canonical, o.key) # {}
        <5>1. t.bind[o.key] # Unbound
          BY <2>1, <2>4, <4>5 DEF CanJournal, CanProject, CanBind, Bound
        <5>2. QED
          BY <2>1, <2>4, <3>1, <3>2, <3>4, <4>1, <4>4, <4>5, <5>1, UpdateReady
      <4>6. \A p \in t.canonical : p.key = o.key => Before(p, o)
        BY <4>1 DEF InOrder
      <4>7. Shows(u, u.canonical, K)
        BY <2>1, <2>4, <2>5, <4>1, <4>5, <4>6, ShowsJournal
      <4>8. QED
        BY <4>2, <4>3, <4>7
    <3>5. QED
      BY <2>7, <2>8, <3>3, <3>4 DEF Joined
  <2>13. ShownInv("journal", u, r, K)
    BY <2>7, <2>9, <2>10, <2>11, <2>12 DEF ShownInv
  <2>14. QED
    BY <2>6, <2>7, <2>13
<1>3. QED
  BY <1>1, <1>2

LEMMA RecheckEndShown ==
    ASSUME NEW K \in SUBSET Keys, ShowsInv(K), NEW w \in Workers, RecheckEnd(w)
    PROVE  ShownInv(pc'[w], tx'[w], poll'[w], K)
<1>1. CASE ~EndStands(w)
  BY <1>1, LeaveShown DEF RecheckEnd, Fail
<1>2. CASE EndStands(w)
  <2>1. /\ pc[w] = "journal" /\ pc'[w] = "recheck" /\ Serves(Height[poll[w].end])
        /\ tx'[w] = tx[w] /\ poll'[w] = poll[w]
    BY <1>2, ShownFacts DEF TypeOK, RecheckEnd, Asks, GoTo
  <2>2. poll[w].end \in Blocks /\ ChainInv
    BY <2>1, ShownFacts DEF PollInv, JournalInv, EndInv, IInv
  <2>3. poll[w].end \notin dead
    BY <1>2, <2>1, <2>2, ShownFacts, Stands DEF EndStands
  <2>4. ShownInv("journal", tx[w], poll[w], K)
    BY <2>1, ShownFacts
  <2>5. QED
    BY <2>1, <2>3, <2>4 DEF ShownInv
<1>3. QED
  BY <1>1, <1>2

LEMMA RecheckCursorShown ==
    ASSUME NEW K \in SUBSET Keys, ShowsInv(K), NEW w \in Workers, RecheckCursor(w)
    PROVE  ShownInv(pc'[w], tx'[w], poll'[w], K)
<1> DEFINE t == tx[w]
           q == poll[w]
<1>1. CASE Leave(w)
  BY <1>1, LeaveShown
<1>2. CASE ~Leave(w)
  <2>1. /\ pc[w] = "recheck" /\ pc'[w] = "commit" /\ CursorStands(w) /\ Serves(Num(w))
        /\ tx'[w] = Advanced(t, q.end, q.headers)
    BY <1>2, ShownFacts DEF TypeOK, RecheckCursor, Asks, GoTo, Fail
  <2>2. /\ Rooted(t) /\ EndInv(t, q) /\ q.headers \subseteq Path[q.end]
        /\ t.cursor \in Blocks /\ q.end \in Blocks /\ t \in Tables /\ q \in Poll
    BY <2>1, ShownFacts DEF PollInv, RecheckInv, EndInv, Rooted
  <2>3. t.cursor \in Path[q.end]
    <3>1. t.cursor \notin dead
      BY <2>1, <2>2, ShownFacts, Stands DEF CursorStands, Num, IInv
    <3>2. QED
      BY <2>2, <3>1 DEF EndInv
  <2>4. /\ Spaced(t) /\ HeadersInv(t, q) /\ AboveCursor(t, q)
        /\ Origin(t) /\ Shows(t, t.canonical, K)
    BY <2>1, <2>3, ShownFacts DEF ShownInv, Joined
  <2>5. PICK u : u = Advanced(t, q.end, q.headers)
    OBVIOUS
  <2>6. /\ u.start = t.start /\ u.cursor = q.end
        /\ u.canonical = t.canonical /\ u.orphaned = t.orphaned
        /\ u.bind = t.bind /\ u.product = t.product /\ u.ship = t.ship
    BY <2>2, <2>5 DEF Tables, Advanced
  <2>7. Spaced(u)
    BY <2>2, <2>4, <2>5, SpacedAdvanced
  <2>8. Origin(u)
    <3>1. t.start \in Nat /\ t.start <= Height[t.cursor]
      BY <2>2 DEF Tables, Rooted
    <3>2. At(q.end, t.start) = At(t.cursor, t.start)
      BY <2>2, <2>3, <3>1, AtSame
    <3>3. t.cursor # NoBlock /\ q.end # NoBlock
      BY <2>2, ProjectionAssumption
    <3>4. QED
      BY <2>4, <2>6, <3>2, <3>3 DEF Origin
  <2>9. Shows(u, u.canonical, K)
    BY <2>4, <2>6, ShowsSame
  <2>10. Known(u)
    BY <2>1, <2>5, StepKnown DEF PollStep, Indexing
  <2>11. ShownInv("commit", u, poll'[w], K)
    BY <2>7, <2>8, <2>9, <2>10 DEF ShownInv
  <2>12. QED
    BY <2>1, <2>5, <2>11
<1>3. QED
  BY <1>1, <1>2

LEMMA StepShown ==
    ASSUME NEW K \in SUBSET Keys, ShowsInv(K), NEW w \in Workers, PollStep(w) \/ Failure(w)
    PROVE  ShownInv(pc'[w], tx'[w], poll'[w], K)
<1>1. CASE BlockMissing(w) \/ Failure(w) \/ Commit(w)
  BY <1>1, LeaveShown
  DEF BlockMissing, Failure, CommitUnknown, Abort, Crash, Fail, FailFetch, Commit
<1>2. CASE NothingNew(w)
  <2>1. pc[w] = "plan" /\ pc'[w] = "commit" /\ tx' = tx
    BY <1>2, ShownFacts DEF TypeOK, NothingNew, GoTo
  <2>2. QED
    BY <2>1, QuietShown
<1>3. QED
  BY <1>1, <1>2, OpeningShown, RecoveringShown, ReadEndShown, FetchShown, FetchedShown,
     JournalLogShown, RecheckEndShown, RecheckCursorShown DEF PollStep, Indexing
----------------------------------------------------------------------------
LEMMA InitShows ==
    ASSUME NEW K \in SUBSET Keys
    PROVE  Init => ShowsInv(K)
<1> SUFFICES ASSUME Init PROVE ShowsInv(K)
  OBVIOUS
<1>1. PICK p \in Products, h \in Histories : db = Empty(p, h)
  BY DEF Init
<1>2. /\ db.cursor = NoBlock /\ db.canonical = {} /\ db.orphaned = {}
      /\ \A k \in Keys : db.bind[k] = Unbound
  BY <1>1 DEF Empty
<1>3. Known(db) /\ Origin(db)
  BY <1>2 DEF Known, Origin
<1>4. Shows(db, db.canonical, K)
  <2>1. \A k \in Keys : Of(db.canonical, k, EventTypes) = {} /\ db.ship[k] = NoShipment
    BY <1>1, <1>2 DEF Of, Empty
  <2>2. QED
    BY <1>2, <2>1 DEF Shows, ShowsLogs, ShowsBase, Registrars, Of
<1>5. ASSUME NEW w \in Workers PROVE ShownInv(pc[w], tx[w], poll[w], K)
  BY ShownNothing DEF Init
<1>6. QED
  BY <1>2, <1>3, <1>4, <1>5, InitKeeps, InitRows DEF ShowsInv

LEMMA NextShows ==
    ASSUME ForksReturn = FALSE, NEW K \in SUBSET Keys
    PROVE  ShowsInv(K) /\ [Next]_vars => ShowsInv(K)'
<1> SUFFICES ASSUME ShowsInv(K), [Next]_vars PROVE ShowsInv(K)'
  OBVIOUS
<1>0. IInv' /\ HistoryInv'
  BY NextKeeps, NextRows DEF ShowsInv
<1>1. CASE ChainMoves \/ UNCHANGED vars
  <2>1. UNCHANGED <<db, pc, tx, poll>> /\ dead \subseteq dead'
    BY <1>1 DEF ChainMoves, MoveTip, vars, chainVars, workerVars
  <2>2. ASSUME NEW v \in Workers PROVE ShownInv(pc[v], tx[v], poll[v], K)'
    <3>1. ShownInv(pc[v], tx[v], poll[v], K)
      BY DEF ShowsInv
    <3>2. QED
      BY <2>1, <3>1 DEF ShownInv, Known, Spaced, Origin, Shows, ShowsLogs, ShowsBase, InOrder, HeadersInv,
                        AboveCursor, Joined
  <2>3. /\ Known(db)' /\ Origin(db)' /\ Shows(db, db.canonical, K)'
        /\ (db.cursor # NoBlock => Spaced(db))'
    BY <2>1 DEF ShowsInv, Known, Origin, Shows, ShowsLogs, ShowsBase, Spaced
  <2>4. QED
    BY <1>0, <2>2, <2>3 DEF ShowsInv
<1>2. ASSUME NEW w \in Workers, PollStep(w) \/ Failure(w) PROVE ShowsInv(K)'
  <2>1. /\ Known(db') /\ Origin(db') /\ Shows(db', db'.canonical, K)
        /\ db'.cursor # NoBlock => Spaced(db')
    <3>1. CASE db' = db
      BY <3>1 DEF ShowsInv
    <3>2. CASE db' = tx[w] /\ pc[w] = "commit"
      BY <3>2, ShownFacts DEF ShownInv
    <3>3. QED
      BY <1>2, <3>1, <3>2, OthersStutter
  <2>2. dead' = dead
    BY <1>2, OthersStutter DEF chainVars
  <2>3. ASSUME NEW v \in Workers PROVE ShownInv(pc'[v], tx'[v], poll'[v], K)
    <3>1. CASE v = w
      BY <1>2, <3>1, StepShown
    <3>2. CASE v # w
      BY <1>2, <3>2, ShownFacts, Elsewhere
    <3>3. QED
      BY <3>1, <3>2
  <2>4. ASSUME NEW v \in Workers PROVE ShownInv(pc[v], tx[v], poll[v], K)'
    <3>1. ShownInv(pc'[v], tx'[v], poll'[v], K)
      BY <2>3
    <3>2. QED
      BY <2>2, <3>1 DEF ShownInv, Known, Spaced, Origin, Shows, ShowsLogs, ShowsBase, InOrder, HeadersInv,
                        AboveCursor, Joined
  <2>5. QED
    BY <1>0, <2>1, <2>4 DEF ShowsInv, Known, Spaced, Origin, Shows, ShowsLogs, ShowsBase
<1>3. QED
  BY <1>1, <1>2 DEF Next

\* On every tree of blocks, with any number of workers, batch and window
\* sizes, failures and crashes, and provided an abandoned branch is not
\* served again: every product, binding and shipment is what the canonical
\* journal says when it is read from the start, and what it was before its
\* registration where that disappeared.
THEOREM TablesAreExact ==
    ASSUME ForksReturn = FALSE
    PROVE  Spec => []TablesExact
<1>1. Init => ShowsInv(Keys)
  BY InitShows
<1>2. ShowsInv(Keys) /\ [Next]_vars => ShowsInv(Keys)'
  BY NextShows
<1>3. ShowsInv(Keys) => TablesExact
  BY DEF ShowsInv, TablesExact
<1>4. QED
  BY <1>1, <1>2, <1>3, PTL DEF Spec

\* The anchors of ShowsInv are those a rewind needs.
LEMMA AnchorsFollow ==
    ASSUME NEW K \in SUBSET Keys, ShowsInv(K)
    PROVE  AnchorsUsable
<1> SUFFICES ASSUME db.cursor # NoBlock
             PROVE  /\ db.anchors \subseteq {b \in Path[db.cursor] : Height[b] >= db.start}
                    /\ {db.cursor, At(db.cursor, db.start)} \subseteq db.anchors
                    /\ \A n \in db.start..Height[db.cursor] : \E b \in db.anchors :
                          n - MaxBatch < Height[b] /\ Height[b] <= n
  BY DEF AnchorsUsable
<1>1. Rooted(db) /\ db \in Tables /\ Spaced(db)
  BY DEF ShowsInv, IInv, TypeInv, TypeOK, DbInv, Unused, Exact
<1>2. \A b \in db.anchors : b \in Path[db.cursor] /\ Height[b] >= db.start
  <2>1. \A b \in db.anchors : Height[b] \in Nat /\ db.start \in Nat
    BY <1>1, TreeAssumption DEF Tables
  <2>2. QED
    BY <1>1, <2>1 DEF Rooted, Spaced
<1>3. At(db.cursor, db.start) \in db.anchors
  <2>1. PICK b \in db.anchors : Height[b] = db.start
    BY <1>1 DEF Spaced
  <2>2. b = At(db.cursor, db.start)
    BY <1>1, <1>2, <2>1, OriginBlock, TreeAssumption DEF Rooted
  <2>3. QED
    BY <2>1, <2>2
<1>4. QED
  BY <1>1, <1>2, <1>3 DEF Spaced

\* Under the same conditions a rewind always has what it needs: the anchors
\* are of the cursor's branch, the deployment anchor and the cursor among
\* them, and no two neighbours are further apart than one batch.
THEOREM AnchorsAreUsable ==
    ASSUME ForksReturn = FALSE
    PROVE  Spec => []AnchorsUsable
<1>1. ShowsInv(Keys) => AnchorsUsable
  BY AnchorsFollow
<1>2. Init => ShowsInv(Keys)
  BY InitShows
<1>3. ShowsInv(Keys) /\ [Next]_vars => ShowsInv(Keys)'
  BY NextShows
<1>4. QED
  BY <1>1, <1>2, <1>3, PTL DEF Spec

----------------------------------------------------------------------------
(***************************************************************************)
(* Drafts, shipments and the indexer on the same rows: shipments follow    *)
(* the canonical journal (LifecycleInv), drafts are given back             *)
(* (DraftGivenBack), registered products change by canonical logs only     *)
(* (RegisteredOnlyByChain), and the journal, its history and its anchors   *)
(* are as exact as without handlers.  The inductive invariant is           *)
(* WritersInv.                                                             *)
(***************************************************************************)

----------------------------------------------------------------------------
(* What the indexer's operators leave of a row.                            *)

\* A draft that t holds is in u where it was, or is the baseline.
DraftsKept(t, u) ==
    \A k \in Keys :
        /\ t.bind[k] # Unbound => u.bind[k] # Unbound /\ u.bind[k].base = t.bind[k].base
        /\ t.bind[k] = Unbound /\ u.bind[k] = Unbound => u.product[k] = t.product[k]
        /\ t.bind[k] = Unbound /\ u.bind[k] # Unbound
              /\ t.product[k] # NoProduct /\ t.product[k].height = 0 =>
                 u.bind[k].base = t.product[k]

LEMMA DraftsGoOn ==
    ASSUME NEW t, NEW u, LifecycleTypeOK, DraftsInv(t), DraftsKept(t, u)
    PROVE  DraftsInv(u)
<1> SUFFICES ASSUME NEW k \in Keys \ stale, saved[k] # NoProduct
             PROVE  /\ saved[k].height = 0
                    /\ saved[k] = IF u.bind[k] = Unbound THEN u.product[k] ELSE u.bind[k].base
  BY DEF DraftsInv
<1>1. /\ saved[k].height = 0
      /\ saved[k] = IF t.bind[k] = Unbound THEN t.product[k] ELSE t.bind[k].base
  BY DEF DraftsInv
<1>2. QED
  BY <1>1 DEF DraftsKept

\* A step that writes no row.
LEMMA RowsKept ==
    ASSUME NEW t, NEW u, u.bind = t.bind, u.product = t.product, u.ship = t.ship,
           u.canonical = t.canonical
    PROVE  DraftsKept(t, u) /\ \A k \in Keys : SameRow(u, t, k)
BY DEF DraftsKept, SameRow

\* _project writes the row of its log.
LEMMA ProjectRow ==
    ASSUME NEW t \in Tables, NEW o \in Logs, CanProject(t, o),
           t.bind[o.key] # Unbound => t.product[o.key] # NoProduct
    PROVE  /\ DraftsKept(t, Project(t, o))
           /\ \A k \in Keys \ {o.key} : SameRow(Project(t, o), t, k)
<1> DEFINE k == o.key
           u == Project(t, o)
<1>0. k \in Keys
  BY LogFields
<1>1. u.bind[k] = [base |-> BaseFor(t, o), status |-> StatusAfter(StatusFor(t, o), o),
                   handler |-> HandlerAfter(HandlerFor(t, o), o)]
  BY ProjectValues
<1>2. Touches(u, t, k) /\ \A j \in Keys \ {k} : u.ship[j] = t.ship[j]
  BY ProjectValues
<1> HIDE DEF u
<1>3. u.bind[k] # Unbound /\ u.canonical = t.canonical
  BY <1>2, ProjectionAssumption DEF Touches, SameJournal
<1>4. \A j \in Keys \ {k} : u.bind[j] = t.bind[j] /\ u.product[j] = t.product[j]
  BY <1>2 DEF Touches
<1>5. u.bind[k].base = BaseFor(t, o)
  BY <1>1
<1>6. \A j \in Keys \ {k} : SameRow(u, t, j)
  BY <1>2, <1>3, <1>4 DEF SameRow
<1>7. t.bind[k] # Unbound => u.bind[k].base = t.bind[k].base
  BY <1>5 DEF BaseFor
<1>8. t.bind[k] = Unbound /\ t.product[k] # NoProduct /\ t.product[k].height = 0 =>
         u.bind[k].base = t.product[k]
  BY <1>5 DEF BaseFor, Baseline
<1>9. DraftsKept(t, u)
  BY <1>3, <1>4, <1>7, <1>8 DEF DraftsKept
<1>10. QED
  BY <1>6, <1>9 DEF u

\* _journal writes the row of its log, unless it was canonical already.
LEMMA JournalRow ==
    ASSUME NEW t \in Tables, NEW o \in Logs, CanJournal(t, o), Bound(t)
    PROVE  /\ DraftsKept(t, Journal(t, o))
           /\ \A k \in Keys : k # o.key \/ o \in t.canonical => SameRow(Journal(t, o), t, k)
<1>1. CASE o \in t.canonical
  BY <1>1, RowsKept DEF Journal
<1>2. CASE o \notin t.canonical
  <2>1. PICK m \in Tables :
          /\ m.canonical = t.canonical \cup {o}
          /\ m.bind = t.bind /\ m.product = t.product /\ m.ship = t.ship
          /\ CanProject(m, o)
          /\ m.bind[o.key] # Unbound => m.product[o.key] # NoProduct
          /\ Journal(t, o) = Project(m, o)
    BY <1>2, Marked
  <2>2. /\ DraftsKept(m, Journal(t, o))
        /\ \A k \in Keys \ {o.key} : SameRow(Journal(t, o), m, k)
    BY <2>1, ProjectRow
  <2>3. DraftsKept(t, Journal(t, o))
    BY <2>1, <2>2 DEF DraftsKept
  <2>4. \A k \in Keys \ {o.key} : SameRow(m, t, k)
    BY <2>1 DEF SameRow, Of
  <2>5. QED
    BY <1>2, <2>2, <2>3, <2>4 DEF SameRow
<1>3. QED
  BY <1>1, <1>2

\* _rewind writes the rows of what it orphans.
LEMMA RestoreRow ==
    ASSUME NEW t \in Tables, Bound(t), NEW a \in Blocks
    PROVE  /\ DraftsKept(t, Restore(t, a))
           /\ \A k \in Keys \ Affected(t, a) : SameRow(Restore(t, a), t, k)
<1> DEFINE back == Affected(t, a)
           u == Restore(t, a)
<1>1. u \in Tables
  BY RestoreStep
<1>2. /\ \A k \in back :
            /\ k \in Keys /\ t.bind[k] \in Binding
            /\ u.bind[k] = [base |-> t.bind[k].base, status |-> 0, handler |-> Nobody]
      /\ \A k \in Keys \ back :
            u.product[k] = t.product[k] /\ u.bind[k] = t.bind[k] /\ u.ship[k] = t.ship[k]
  BY RestoreValues
<1>3. u.canonical = t.canonical \ Orphans(t, a)
  BY RestoreStep
<1> HIDE DEF u
<1>4. ASSUME NEW k \in Keys, k \notin back PROVE SameRow(u, t, k)
  <2>1. \A o \in Orphans(t, a) : o.key # k
    BY <1>4 DEF Affected
  <2>2. Of(u.canonical, k, EventTypes) = Of(t.canonical, k, EventTypes)
    BY <1>3, <2>1 DEF Of
  <2>3. QED
    BY <1>2, <1>4, <2>2 DEF SameRow
<1>5. ASSUME NEW k \in back
      PROVE  t.bind[k] # Unbound /\ u.bind[k] # Unbound /\ u.bind[k].base = t.bind[k].base
  <2>1. t.bind[k] \in Binding /\ t.bind[k].base \in Product
    BY <1>2 DEF Binding
  <2>2. u.bind[k] = [base |-> t.bind[k].base, status |-> 0, handler |-> Nobody]
    BY <1>2
  <2>3. u.bind[k] \in Binding
    BY <2>1, <2>2 DEF Binding, Statuses
  <2>4. QED
    BY <2>1, <2>2, <2>3, ProjectionAssumption
<1>6. DraftsKept(t, u)
  BY <1>2, <1>5 DEF DraftsKept
<1>7. QED
  BY <1>4, <1>6 DEF u
----------------------------------------------------------------------------
(* A step of the indexer.                                                  *)

\* What the steps of w may rely on.
LEMMA WritersFacts ==
    ASSUME WritersInv, NEW w \in Workers
    PROVE  /\ LifecycleTypeOK /\ HistoryInv /\ IInv /\ TypeInv /\ TypeOK /\ DraftsInv(db)
           /\ tx[w] \in Tables /\ poll[w] \in Poll /\ Bound(tx[w])
           /\ pc[w] \notin {"idle", "lock"} =>
                 LocksInv(pc[w], tx[w], poll[w]) /\ DraftsInv(tx[w])
BY RowFacts DEF WritersInv, ShowsInv, IInv, TypeInv

\* Where a step of w leaves it, its tables agree with the committed ones on
\* what it has not locked.
Agreeing(w) ==
    pc'[w] \notin {"idle", "lock"} =>
        LocksInv(pc'[w], tx'[w], poll'[w]) /\ DraftsInv(tx'[w])

LEMMA LeaveAgrees ==
    ASSUME WritersInv, NEW w \in Workers, Leave(w)
    PROVE  Agreeing(w)
BY WritersFacts DEF TypeOK, Leave, GoTo, Agreeing

\* A step that writes only rows it has locked by then.
LEMMA WriteAgrees ==
    ASSUME WritersInv, NEW w \in Workers, pc[w] \notin {"idle", "lock"},
           DraftsKept(tx[w], tx'[w]),
           poll[w].locked \subseteq poll'[w].locked,
           \A k \in Keys \ poll'[w].locked : SameRow(tx'[w], tx[w], k),
           pc'[w] = "replay" => \A o \in poll'[w].todo : o.key \in poll'[w].locked
    PROVE  Agreeing(w)
<1>1. LocksInv(pc[w], tx[w], poll[w]) /\ DraftsInv(tx[w]) /\ LifecycleTypeOK
  BY WritersFacts
<1>2. DraftsInv(tx'[w])
  BY <1>1, DraftsGoOn
<1>3. \A k \in Keys \ poll'[w].locked : SameRow(tx'[w], db, k)
  BY <1>1 DEF LocksInv, SameRow
<1>4. QED
  BY <1>2, <1>3 DEF Agreeing, LocksInv

\* A step that writes none.
LEMMA QuietAgrees ==
    ASSUME WritersInv, NEW w \in Workers, pc[w] \notin {"idle", "lock"},
           tx'[w].bind = tx[w].bind, tx'[w].product = tx[w].product,
           tx'[w].ship = tx[w].ship, tx'[w].canonical = tx[w].canonical,
           poll'[w].locked = poll[w].locked, pc'[w] # "replay"
    PROVE  Agreeing(w)
<1>1. DraftsKept(tx[w], tx'[w]) /\ \A k \in Keys : SameRow(tx'[w], tx[w], k)
  BY RowsKept
<1>2. QED
  BY <1>1, WriteAgrees

LEMMA OpeningAgrees ==
    ASSUME WritersInv, NEW w \in Workers, Opening(w)
    PROVE  Agreeing(w)
<1>1. CASE ObserveHead(w)
  BY <1>1, WritersFacts DEF TypeOK, ObserveHead, GoTo, Agreeing
<1>2. CASE Busy(w) \/ Refuse(w)
  BY <1>2, LeaveAgrees DEF Busy, Refuse, Fail
<1>3. CASE Open(w)
  <2>1. tx'[w] = db /\ pc'[w] \in {"create", "check"}
    BY <1>3, WritersFacts DEF TypeOK, Open, GoTo
  <2>2. LocksInv(pc'[w], db, poll'[w])
    BY <2>1 DEF LocksInv, SameRow
  <2>3. QED
    BY <2>1, <2>2, WritersFacts DEF Agreeing
<1>4. CASE CreateCursor(w)
  <2>1. pc[w] = "create" /\ pc'[w] = "check" /\ poll' = poll
    BY <1>4, WritersFacts DEF TypeOK, CreateCursor, Asks, GoTo
  <2>2. tx'[w] = [tx[w] EXCEPT !.start = StartBlock[w], !.cursor = Header(StartBlock[w]),
                               !.anchors = {Header(StartBlock[w])}]
    BY <1>4, WritersFacts DEF TypeOK, CreateCursor, Tables
  <2>3. /\ tx'[w].canonical = tx[w].canonical /\ tx'[w].bind = tx[w].bind
        /\ tx'[w].product = tx[w].product /\ tx'[w].ship = tx[w].ship
    BY <2>2, WritersFacts DEF Tables
  <2>4. QED
    BY <2>1, <2>3, QuietAgrees
<1>5. CASE CheckCursor(w)
  <2>1. /\ pc[w] = "check" /\ pc'[w] \in {"plan", "scan"} /\ tx' = tx
        /\ poll'[w].locked = poll[w].locked
    BY <1>5, WritersFacts DEF TypeOK, CheckCursor, Asks, GoTo, Poll
  <2>2. QED
    BY <2>1, QuietAgrees
<1>6. QED
  BY <1>1, <1>2, <1>3, <1>4, <1>5 DEF Opening

LEMMA RewindAgrees ==
    ASSUME WritersInv, NEW w \in Workers, Rewind(w)
    PROVE  Agreeing(w)
<1> DEFINE t == tx[w]
           q == poll[w]
<1>1. PICK a \in q.scan :
        /\ Asks(w, "scan", Height[a])
        /\ tx' = [tx EXCEPT ![w] = Restore(@, a)]
        /\ poll' = [poll EXCEPT ![w].scan = {},
                                ![w].todo = Remaining(tx[w], a),
                                ![w].locked = @ \cup Affected(tx[w], a)]
  BY DEF Rewind
<1>2. pc[w] = "scan" /\ tx'[w] = Restore(t, a)
  BY <1>1, WritersFacts DEF TypeOK, Asks
<1>3. poll'[w].todo = Remaining(t, a) /\ poll'[w].locked = q.locked \cup Affected(t, a)
  BY <1>1, WritersFacts DEF TypeOK, Poll
<1>4. a \in Blocks
  BY WritersFacts DEF Poll
<1>5. /\ DraftsKept(t, Restore(t, a))
      /\ \A k \in Keys \ Affected(t, a) : SameRow(Restore(t, a), t, k)
  BY <1>4, WritersFacts, RestoreRow
<1>6. \A o \in Remaining(t, a) : o.key \in Affected(t, a)
  BY DEF Remaining
<1>7. QED
  BY <1>2, <1>3, <1>5, <1>6, WriteAgrees

LEMMA ReplayAgrees ==
    ASSUME WritersInv, NEW w \in Workers, Replay(w)
    PROVE  Agreeing(w)
<1> DEFINE t == tx[w]
           q == poll[w]
<1>1. PICK o \in q.todo :
        IF CanProject(tx[w], o)
        THEN /\ tx' = [tx EXCEPT ![w] = Project(@, o)]
             /\ poll' = [poll EXCEPT ![w].todo = @ \ {o}]
             /\ UNCHANGED <<db, holder, pc, batch>>
        ELSE Fail(w)
  BY DEF Replay
<1>2. pc[w] = "replay"
  BY DEF Replay
<1>3. CASE CanProject(t, o)
  <2>1. tx'[w] = Project(t, o) /\ pc'[w] = "replay"
    BY <1>1, <1>2, <1>3, WritersFacts DEF TypeOK
  <2>2. poll'[w].todo = q.todo \ {o} /\ poll'[w].locked = q.locked
    BY <1>1, <1>3, WritersFacts DEF TypeOK, Poll
  <2>3. \A p \in q.todo : p.key \in q.locked
    BY <1>2, WritersFacts DEF LocksInv
  <2>4. o \in Logs
    BY WritersFacts DEF Poll
  <2>5. t.bind[o.key] # Unbound => t.product[o.key] # NoProduct
    BY <2>4, WritersFacts, LogFields DEF Bound
  <2>6. /\ DraftsKept(t, Project(t, o))
        /\ \A k \in Keys \ {o.key} : SameRow(Project(t, o), t, k)
    BY <1>3, <2>4, <2>5, WritersFacts, ProjectRow
  <2>7. QED
    BY <1>2, <2>1, <2>2, <2>3, <2>6, WriteAgrees
<1>4. CASE ~CanProject(t, o)
  BY <1>1, <1>4, LeaveAgrees DEF Fail
<1>5. QED
  BY <1>3, <1>4

LEMMA RecoveringAgrees ==
    ASSUME WritersInv, NEW w \in Workers, Recovering(w)
    PROVE  Agreeing(w)
<1>1. CASE SkipAnchor(w)
  <2>1. pc[w] = "scan" /\ pc' = pc /\ tx' = tx
    BY <1>1 DEF SkipAnchor, Asks
  <2>2. poll'[w].locked = poll[w].locked
    <3>1. PICK a \in poll[w].scan : poll' = [poll EXCEPT ![w].scan = @ \ {a}]
      BY <1>1 DEF SkipAnchor
    <3>2. QED
      BY <3>1, WritersFacts DEF TypeOK, Poll
  <2>3. QED
    BY <2>1, <2>2, QuietAgrees
<1>2. CASE NoAncestor(w)
  BY <1>2, LeaveAgrees DEF NoAncestor, Fail
<1>3. CASE Replayed(w)
  <2>1. pc[w] = "replay" /\ pc'[w] = "plan" /\ tx' = tx /\ poll' = poll
    BY <1>3, WritersFacts DEF TypeOK, Replayed, GoTo
  <2>2. QED
    BY <2>1, QuietAgrees
<1>4. QED
  BY <1>1, <1>2, <1>3, RewindAgrees, ReplayAgrees DEF Recovering

LEMMA JournalAgrees ==
    ASSUME WritersInv, NEW w \in Workers, JournalLog(w), ~Leave(w)
    PROVE  Agreeing(w)
<1> DEFINE t == tx[w]
           q == poll[w]
<1>1. PICK o \in q.todo :
        /\ CanJournal(tx[w], o)
        /\ tx' = [tx EXCEPT ![w] = Journal(@, o)]
        /\ poll' = [poll EXCEPT ![w].todo = @ \ {o},
                                ![w].headers = @ \cup {o.block},
                                ![w].locked = IF o \in tx[w].canonical
                                              THEN @ ELSE @ \cup {o.key}]
        /\ UNCHANGED <<db, holder, pc, batch>>
  BY DEF JournalLog, Fail
<1>2. pc[w] = "journal" /\ pc'[w] = "journal" /\ tx'[w] = Journal(t, o)
  BY <1>1, WritersFacts DEF JournalLog, TypeOK
<1>3. poll'[w].locked = IF o \in t.canonical THEN q.locked ELSE q.locked \cup {o.key}
  BY <1>1, WritersFacts DEF TypeOK, Poll
<1>4. o \in Logs
  BY WritersFacts DEF Poll
<1>5. /\ DraftsKept(t, Journal(t, o))
      /\ \A k \in Keys : k # o.key \/ o \in t.canonical => SameRow(Journal(t, o), t, k)
  BY <1>1, <1>4, WritersFacts, JournalRow
<1>6. QED
  BY <1>2, <1>3, <1>5, WriteAgrees

LEMMA IndexingAgrees ==
    ASSUME WritersInv, NEW w \in Workers, Indexing(w)
    PROVE  Agreeing(w)
<1>1. CASE Leave(w)
  BY <1>1, LeaveAgrees
<1>2. CASE ~Leave(w) /\ (NothingNew(w) \/ ReadEnd(w) \/ Query(w) \/ ReadDetails(w)
                          \/ Fetched(w) \/ RecheckEnd(w))
  <2>1. /\ pc[w] \in {"plan", "fetch", "journal"}
        /\ pc'[w] \in {"commit", "fetch", "journal", "recheck"}
        /\ tx' = tx
    BY <1>2, WritersFacts DEF TypeOK, NothingNew, ReadEnd, Query, ReadDetails, Fetched,
       RecheckEnd, Asks, GoTo, Fail, FailFetch
  <2>2. poll'[w].locked = poll[w].locked
    <3>1. CASE poll' = poll
      BY <3>1
    <3>2. CASE ReadEnd(w)
      BY <3>2, WritersFacts DEF TypeOK, Poll, ReadEnd
    <3>3. CASE Query(w)
      BY <3>3, WritersFacts DEF TypeOK, Poll, Query
    <3>4. CASE ReadDetails(w)
      <4>1. PICK o \in poll[w].details : poll' = [poll EXCEPT ![w].details = @ \ {o}]
        BY <1>2, <3>4 DEF ReadDetails, FailFetch
      <4>2. QED
        BY <4>1, WritersFacts DEF TypeOK, Poll
    <3>5. QED
      BY <1>2, <3>1, <3>2, <3>3, <3>4 DEF NothingNew, Fetched, RecheckEnd, Fail
  <2>3. QED
    BY <2>1, <2>2, QuietAgrees
<1>3. CASE ~Leave(w) /\ RecheckCursor(w)
  <2>1. /\ pc[w] = "recheck" /\ pc'[w] = "commit" /\ poll' = poll
        /\ tx'[w] = Advanced(tx[w], poll[w].end, poll[w].headers)
    BY <1>3, WritersFacts DEF TypeOK, RecheckCursor, Asks, GoTo, Fail
  <2>2. /\ tx'[w].ship = tx[w].ship /\ tx'[w].canonical = tx[w].canonical
        /\ tx'[w].bind = tx[w].bind /\ tx'[w].product = tx[w].product
    BY <2>1, WritersFacts DEF Tables, Advanced
  <2>3. QED
    BY <2>1, <2>2, QuietAgrees
<1>4. CASE ~Leave(w) /\ JournalLog(w)
  BY <1>4, JournalAgrees
<1>5. QED
  BY <1>1, <1>2, <1>3, <1>4 DEF Indexing, Commit

LEMMA StepAgrees ==
    ASSUME WritersInv, NEW w \in Workers, PollStep(w) \/ Failure(w)
    PROVE  Agreeing(w)
<1>1. CASE BlockMissing(w) \/ Failure(w)
  BY <1>1, LeaveAgrees
  DEF BlockMissing, Failure, CommitUnknown, Abort, Crash, Fail, FailFetch
<1>2. QED
  BY <1>1, OpeningAgrees, RecoveringAgrees, IndexingAgrees DEF PollStep

\* Only a commit publishes, and it ends the transaction.
LEMMA OpenUnpublished ==
    ASSUME TypeInv, NEW w \in Workers, PollStep(w) \/ Failure(w),
           pc'[w] \notin {"idle", "lock"}
    PROVE  db' = db
<1>1. ~Leave(w)
  BY DEF TypeInv, TypeOK, Leave, GoTo
<1>2. CASE Opening(w)
  BY <1>2 DEF Opening, ObserveHead, Busy, Open, Refuse, CreateCursor, CheckCursor, Fail
<1>3. CASE Recovering(w)
  BY <1>3 DEF Recovering, SkipAnchor, Rewind, NoAncestor, Replay, Replayed, Fail
<1>4. CASE Indexing(w)
  BY <1>1, <1>4 DEF Indexing, NothingNew, ReadEnd, Query, ReadDetails, Fetched, JournalLog,
                    RecheckEnd, RecheckCursor, Commit, Fail, FailFetch
<1>5. CASE BlockMissing(w) \/ Failure(w)
  BY <1>1, <1>5 DEF BlockMissing, Failure, CommitUnknown, Abort, Crash, Fail, FailFetch
<1>6. QED
  BY <1>2, <1>3, <1>4, <1>5 DEF PollStep

LEMMA IndexerKeeps ==
    ASSUME ForksReturn = FALSE, WritersInv, [Next]_vars, UNCHANGED history
    PROVE  WritersInv'
<1> PICK K \in SUBSET Keys : K = Keys \ stale
  OBVIOUS
<1>1. saved' = saved /\ stale' = stale /\ edits' = edits
  BY DEF history
<1>2. LedgerInv' /\ ShowsInv(K)'
  BY NextFollows, NextShows DEF WritersInv
<1>3. LifecycleTypeOK'
  BY <1>1, <1>2 DEF WritersInv, LifecycleTypeOK, LedgerInv, IInv, TypeInv
<1>4. ShowsInv(Keys \ stale)'
  <2>1. K = Keys \ stale'
    BY <1>1
  <2>2. QED
    BY <1>2, <2>1 DEF ShowsInv
<1>5. CASE ChainMoves \/ UNCHANGED vars
  <2>1. UNCHANGED <<db, pc, tx, poll>>
    BY <1>5 DEF ChainMoves, vars, workerVars
  <2>2. DraftsInv(db)' /\ \A w \in Workers : pc'[w] \notin {"idle", "lock"} =>
           LocksInv(pc[w], tx[w], poll[w])' /\ DraftsInv(tx[w])'
    BY <1>1, <2>1 DEF WritersInv, LocksInv, DraftsInv
  <2>3. QED
    BY <1>2, <1>3, <1>4, <2>2 DEF WritersInv
<1>6. ASSUME NEW w \in Workers, PollStep(w) \/ Failure(w) PROVE WritersInv'
  <2>1. DraftsInv(db')
    <3>1. CASE db' = db
      BY <3>1, WritersFacts
    <3>2. CASE db' = tx[w] /\ pc[w] = "commit"
      BY <3>2, WritersFacts
    <3>3. QED
      BY <1>6, <3>1, <3>2, OthersStutter
  <2>2. ASSUME NEW v \in Workers, pc'[v] \notin {"idle", "lock"}
        PROVE  LocksInv(pc[v], tx[v], poll[v])' /\ DraftsInv(tx[v])'
    <3>1. CASE v = w
      <4>1. db' = db
        BY <1>6, <2>2, <3>1, WritersFacts, OpenUnpublished
      <4>2. LocksInv(pc'[w], tx'[w], poll'[w]) /\ DraftsInv(tx'[w])
        BY <1>6, <2>2, <3>1, StepAgrees DEF Agreeing
      <4>3. QED
        BY <1>1, <3>1, <4>1, <4>2 DEF LocksInv, DraftsInv
    <3>2. CASE v # w
      <4>1. pc'[v] = pc[v] /\ tx'[v] = tx[v] /\ poll'[v] = poll[v]
        BY <1>6, <3>2, WritersFacts, Elsewhere
      <4>2. pc[v] \notin {"idle", "lock"} /\ pc[w] \in {"idle", "lock"}
        BY <2>2, <3>2, <4>1 DEF WritersInv, LedgerInv, LockInv
      <4>3. db' = db
        BY <1>6, <4>2, OthersStutter
      <4>4. LocksInv(pc[v], tx[v], poll[v]) /\ DraftsInv(tx[v])
        BY <4>2, WritersFacts
      <4>5. QED
        BY <1>1, <4>1, <4>3, <4>4 DEF LocksInv, DraftsInv
    <3>3. QED
      BY <3>1, <3>2
  <2>3. DraftsInv(db)'
    BY <1>1, <2>1 DEF DraftsInv
  <2>4. QED
    BY <1>2, <1>3, <1>4, <2>2, <2>3 DEF WritersInv
<1>7. QED
  BY <1>5, <1>6 DEF Next
----------------------------------------------------------------------------
(* A handler's step.                                                       *)

\* What is expected of a product depends on its own logs.
LEMMA ExpectedSame ==
    ASSUME NEW S, NEW R, NEW k, Of(S, k, EventTypes) = Of(R, k, EventTypes)
    PROVE  /\ Registrars(S, k) = Registrars(R, k)
           /\ ExpectedProduct(S, k) = ExpectedProduct(R, k)
           /\ ExpectedStatus(S, k) = ExpectedStatus(R, k)
           /\ ExpectedHandler(S, k) = ExpectedHandler(R, k)
<1>1. ASSUME NEW types \in SUBSET EventTypes PROVE Of(S, k, types) = Of(R, k, types)
  <2>1. /\ Of(S, k, types) = {o \in Of(S, k, EventTypes) : o.type \in types}
        /\ Of(R, k, types) = {o \in Of(R, k, EventTypes) : o.type \in types}
    BY DEF Of
  <2>2. QED
    BY <2>1
<1>2. /\ Registrars(S, k) = Registrars(R, k) /\ UriLogs(S, k) = UriLogs(R, k)
      /\ StatusLogs(S, k) = StatusLogs(R, k) /\ HandlerLogs(S, k) = HandlerLogs(R, k)
  BY <1>1 DEF EventTypes, Registrars, UriLogs, StatusLogs, HandlerLogs
<1>3. QED
  BY <1>2 DEF ExpectedProduct, ExpectedStatus, ExpectedHandler

\* So does what is shown of it.
LEMMA ShowsRow ==
    ASSUME NEW t, NEW S, NEW u, NEW R, NEW k,
           t.bind[k] = u.bind[k], t.product[k] = u.product[k], t.ship[k] = u.ship[k],
           Of(S, k, EventTypes) = Of(R, k, EventTypes)
    PROVE  /\ ShowsLogs(t, S, k) => ShowsLogs(u, R, k)
           /\ ShowsBase(t, S, k) => ShowsBase(u, R, k)
BY ExpectedSame DEF ShowsLogs, ShowsBase

\* u is t but for the product and the shipment of k.
Written(u, t, k) ==
    /\ u.start = t.start /\ u.cursor = t.cursor /\ u.anchors = t.anchors
    /\ u.canonical = t.canonical /\ u.orphaned = t.orphaned
    /\ u.bind = t.bind /\ u.hist = t.hist
    /\ \A j \in Keys \ {k} : u.product[j] = t.product[j] /\ u.ship[j] = t.ship[j]

\* Other rows are shown as they were.
LEMMA ShowsWritten ==
    ASSUME NEW t, NEW u, NEW k \in Keys, Written(u, t, k),
           NEW K \in SUBSET Keys, NEW J \in SUBSET K, NEW S, Shows(t, S, K),
           ShowsLogs(u, S, k), k \in J => ShowsBase(u, S, k)
    PROVE  Shows(u, S, J)
<1>1. ASSUME NEW j \in Keys, j # k
      PROVE  ShowsLogs(u, S, j) /\ (j \in J => ShowsBase(u, S, j))
  <2>1. u.bind[j] = t.bind[j] /\ u.product[j] = t.product[j] /\ u.ship[j] = t.ship[j]
    BY <1>1 DEF Written
  <2>2. ShowsLogs(t, S, j) /\ (j \in J => ShowsBase(t, S, j))
    BY DEF Shows
  <2>3. QED
    BY <2>1, <2>2, ShowsRow
<1>2. QED
  BY <1>1 DEF Shows

\* So is everything a poll's tables show.
LEMMA ShownWritten ==
    ASSUME NEW point, NEW t, NEW u, NEW q, NEW k \in Keys, Written(u, t, k),
           NEW K \in SUBSET Keys, NEW J \in SUBSET K, ShownInv(point, t, q, K),
           \A S : Of(S, k, EventTypes) = Of(t.canonical, k, EventTypes) =>
                      ShowsLogs(u, S, k) /\ (k \in J => ShowsBase(u, S, k)),
           point = "replay" => \A o \in q.todo : o.key # k
    PROVE  ShownInv(point, u, q, J)
<1>1. Shows(t, t.canonical, K) => Shows(u, u.canonical, J)
  BY ShowsWritten DEF Written
<1>2. point = "replay" =>
         (Shows(t, t.canonical \ q.todo, K) => Shows(u, u.canonical \ q.todo, J))
  <2> SUFFICES ASSUME point = "replay", Shows(t, t.canonical \ q.todo, K)
               PROVE  Shows(u, u.canonical \ q.todo, J)
    OBVIOUS
  <2>1. Of(t.canonical \ q.todo, k, EventTypes) = Of(t.canonical, k, EventTypes)
    BY DEF Of
  <2>2. ShowsLogs(u, t.canonical \ q.todo, k)
        /\ (k \in J => ShowsBase(u, t.canonical \ q.todo, k))
    BY <2>1
  <2>3. Shows(u, t.canonical \ q.todo, J)
    BY <2>2, ShowsWritten
  <2>4. QED
    BY <2>3 DEF Written
<1>3. /\ Known(t) => Known(u)
      /\ Spaced(t) => Spaced(u)
      /\ Origin(t) => Origin(u)
  BY DEF Written, Known, Spaced, Origin
<1>4. /\ HeadersInv(t, q) => HeadersInv(u, q)
      /\ AboveCursor(t, q) => AboveCursor(u, q)
      /\ Joined(u, q) => Joined(t, q)
  BY DEF Written, HeadersInv, AboveCursor, Joined
<1>5. u.canonical = t.canonical
  BY DEF Written
<1>6. QED
  BY <1>1, <1>2, <1>3, <1>4, <1>5 DEF ShownInv

\* A handler wrote the row of k, which nobody had locked: the database and
\* the open transaction hold the same row of it afterwards.
Saves(k) ==
    /\ RowFree(k)
    /\ UNCHANGED <<chainVars, holder, pc, batch, poll, faults>>
    /\ db' \in Tables /\ Bound(db') /\ Written(db', db, k)
    /\ tx' \in [Workers -> Tables]
    /\ \A w \in Workers : /\ Bound(tx'[w]) /\ Written(tx'[w], tx[w], k)
                          /\ holder = w /\ SameRow(tx[w], db, k) => SameRow(tx'[w], db', k)

LEMMA SaveTyped ==
    ASSUME WritersInv, NEW k \in Keys, Saves(k)
    PROVE  TypeInv'
<1>1. TypeInv /\ TypeOK
  BY DEF WritersInv, LedgerInv, IInv, TypeInv
<1>2. \A w \in Workers : tx'[w].cursor = tx[w].cursor
  BY DEF Saves, Written
<1>3. TypeOK'
  BY <1>1 DEF Saves, TypeOK, ChainTypeOK, chainVars
<1>4. \A w \in Workers : Located(w)'
  BY <1>1, <1>2 DEF Saves, TypeInv, Located, chainVars
<1>5. QED
  BY <1>3, <1>4 DEF Saves, TypeInv

\* The journal, the cursor and the history are not the handlers' to write.
LEMMA SaveKeepsJournal ==
    ASSUME WritersInv, NEW k \in Keys, Saves(k)
    PROVE  LedgerInv' /\ HistoryInv'
<1>1. /\ tip' = tip /\ dead' = dead /\ pc' = pc /\ poll' = poll /\ holder' = holder
      /\ db'.start = db.start /\ db'.cursor = db.cursor /\ db'.anchors = db.anchors
      /\ db'.canonical = db.canonical /\ db'.hist = db.hist
  BY DEF Saves, Written, chainVars
<1>2. \A w \in Workers :
         /\ tx'[w].start = tx[w].start /\ tx'[w].cursor = tx[w].cursor
         /\ tx'[w].anchors = tx[w].anchors /\ tx'[w].canonical = tx[w].canonical
         /\ tx'[w].hist = tx[w].hist
  BY DEF Saves, Written
<1>3. ChainInv' /\ DbInv'
  BY <1>1 DEF WritersInv, LedgerInv, IInv, ChainInv, DbInv, Unused, Exact, Rooted, CursorLogs
<1>4. ASSUME NEW w \in Workers
      PROVE  /\ PollInv(pc[w], tx[w], poll[w])' /\ OpenInv(pc[w], tx[w])'
             /\ RowsInv(pc[w], tx[w], poll[w])'
  <2>1. /\ PollInv(pc[w], tx[w], poll[w]) /\ OpenInv(pc[w], tx[w])
        /\ RowsInv(pc[w], tx[w], poll[w])
    BY WritersFacts, RowFacts DEF WritersInv, LedgerInv, IInv
  <2>2. PollInv(pc[w], tx[w], poll[w])'
    BY <1>1, <1>2, <2>1 DEF PollInv, ScanInv, FetchInv, JournalInv, RecheckInv, EndInv,
                            BatchLogs, Unused, Exact, Rooted, CursorLogs
  <2>3. OpenInv(pc[w], tx[w])'
    BY <1>1, <1>2, <2>1 DEF OpenInv, Follows
  <2>4. RowsInv(pc[w], tx[w], poll[w])'
    BY <1>1, <1>2, <2>1 DEF RowsInv, Projected, Told
  <2>5. QED
    BY <2>2, <2>3, <2>4
<1>5. LockInv'
  BY <1>1 DEF WritersInv, LedgerInv, LockInv
<1>6. Told(db, db.canonical)'
  BY <1>1 DEF WritersInv, ShowsInv, HistoryInv, Told
<1>7. QED
  BY <1>3, <1>4, <1>5, <1>6, SaveTyped DEF LedgerInv, IInv, HistoryInv

\* A handler's step keeps the invariant when the row it leaves in the
\* database shows its logs, and its draft.
LEMMA SaveKeeps ==
    ASSUME WritersInv, NEW k \in Keys, Saves(k),
           LifecycleTypeOK', stale \subseteq stale',
           \A j \in Keys \ {k} : saved'[j] = saved[j],
           ShowsLogs(db', db.canonical, k),
           k \notin stale' => ShowsBase(db', db.canonical, k),
           k \notin stale' /\ saved'[k] # NoProduct =>
              /\ saved'[k].height = 0
              /\ saved'[k] = IF db'.bind[k] = Unbound THEN db'.product[k]
                             ELSE db'.bind[k].base
    PROVE  WritersInv'
<1> PICK K \in SUBSET Keys : K = Keys \ stale
  OBVIOUS
<1> PICK J \in SUBSET K : J = Keys \ stale'
  OBVIOUS
<1>1. /\ pc' = pc /\ poll' = poll /\ dead' = dead /\ Written(db', db, k)
      /\ \A w \in Workers : Written(tx'[w], tx[w], k)
  BY DEF Saves, chainVars
<1>2. ASSUME NEW w \in Workers, pc[w] \notin {"idle", "lock"}
      PROVE  SameRow(tx'[w], db', k) /\ k \notin poll[w].locked
             /\ LocksInv(pc[w], tx[w], poll[w]) /\ DraftsInv(tx[w])
  <2>1. holder = w
    BY <1>2 DEF WritersInv, LedgerInv, LockInv
  <2>2. k \notin poll[w].locked
    BY DEF Saves, RowFree
  <2>3. LocksInv(pc[w], tx[w], poll[w]) /\ DraftsInv(tx[w])
    BY <1>2, WritersFacts
  <2>4. SameRow(tx[w], db, k)
    BY <2>2, <2>3 DEF LocksInv
  <2>5. QED
    BY <2>1, <2>2, <2>3, <2>4 DEF Saves
<1>3. ASSUME NEW w \in Workers, pc[w] \notin {"idle", "lock"}
      PROVE  LocksInv(pc[w], tx[w], poll[w])'
  <2>1. ASSUME NEW j \in Keys \ poll[w].locked PROVE SameRow(tx'[w], db', j)
    <3>1. CASE j = k
      BY <1>2, <1>3, <3>1
    <3>2. CASE j # k
      <4>1. SameRow(tx[w], db, j)
        BY <1>2, <1>3 DEF LocksInv
      <4>2. QED
        BY <1>1, <3>2, <4>1 DEF SameRow, Written
    <3>3. QED
      BY <3>1, <3>2
  <2>2. QED
    BY <1>1, <1>2, <1>3, <2>1 DEF LocksInv
<1>4. ASSUME NEW t, NEW u, DraftsInv(t), Written(u, t, k), SameRow(u, db', k)
      PROVE  \A j \in Keys \ stale' :
                saved'[j] # NoProduct =>
                   /\ saved'[j].height = 0
                   /\ saved'[j] = IF u.bind[j] = Unbound THEN u.product[j] ELSE u.bind[j].base
  <2>1. ASSUME NEW j \in Keys \ stale', saved'[j] # NoProduct
        PROVE  /\ saved'[j].height = 0
               /\ saved'[j] = IF u.bind[j] = Unbound THEN u.product[j] ELSE u.bind[j].base
    <3>1. CASE j = k
      BY <1>4, <2>1, <3>1 DEF SameRow
    <3>2. CASE j # k
      <4>1. saved'[j] = saved[j] /\ j \in Keys \ stale
        BY <3>2
      <4>2. /\ saved[j].height = 0
            /\ saved[j] = IF t.bind[j] = Unbound THEN t.product[j] ELSE t.bind[j].base
        BY <1>4, <2>1, <4>1 DEF DraftsInv
      <4>3. QED
        BY <1>4, <3>2, <4>1, <4>2 DEF Written
    <3>3. QED
      BY <3>1, <3>2
  <2>2. QED
    BY <2>1
<1>5. DraftsInv(db)'
  <2>1. DraftsInv(db) /\ SameRow(db', db', k)
    BY DEF WritersInv, SameRow
  <2>2. QED
    BY <1>1, <1>4, <2>1 DEF DraftsInv
<1>6. \A w \in Workers : pc[w] \notin {"idle", "lock"} => DraftsInv(tx[w])'
  BY <1>1, <1>2, <1>4 DEF DraftsInv
<1>7. ShowsInv(K) /\ LedgerInv' /\ HistoryInv'
  BY SaveKeepsJournal DEF WritersInv
<1>8. ASSUME NEW w \in Workers PROVE ShownInv(pc[w], tx'[w], poll[w], J)
  <2>1. CASE pc[w] \in {"idle", "lock"}
    BY <2>1, ShownNothing
  <2>2. CASE pc[w] \notin {"idle", "lock"}
    <3>1. SameRow(tx'[w], db', k) /\ Written(tx'[w], tx[w], k) /\ db'.canonical = db.canonical
      BY <1>1, <1>2, <2>2 DEF Written
    <3>2. ASSUME NEW S, Of(S, k, EventTypes) = Of(tx[w].canonical, k, EventTypes)
          PROVE  ShowsLogs(tx'[w], S, k) /\ (k \in J => ShowsBase(tx'[w], S, k))
      <4>1. Of(db.canonical, k, EventTypes) = Of(S, k, EventTypes)
        BY <3>1, <3>2 DEF SameRow, Written
      <4>2. /\ db'.bind[k] = tx'[w].bind[k] /\ db'.product[k] = tx'[w].product[k]
            /\ db'.ship[k] = tx'[w].ship[k]
        BY <3>1 DEF SameRow
      <4>3. QED
        BY <4>1, <4>2, ShowsRow
    <3>3. pc[w] = "replay" => \A o \in poll[w].todo : o.key # k
      BY <1>2, <2>2 DEF LocksInv
    <3>4. ShownInv(pc[w], tx[w], poll[w], K)
      BY <1>7 DEF ShowsInv
    <3>5. QED
      BY <3>1, <3>2, <3>3, <3>4, ShownWritten
  <2>3. QED
    BY <2>1, <2>2
<1>9. /\ Known(db') /\ Origin(db') /\ Shows(db', db'.canonical, J)
      /\ db'.cursor # NoBlock => Spaced(db')
  <2>1. Known(db') /\ Origin(db') /\ (db'.cursor # NoBlock => Spaced(db'))
    BY <1>1, <1>7 DEF ShowsInv, Written, Known, Origin, Spaced
  <2>2. Shows(db', db.canonical, J)
    BY <1>1, <1>7, ShowsWritten DEF ShowsInv
  <2>3. QED
    BY <1>1, <2>1, <2>2 DEF Written
<1>10. ShowsInv(Keys \ stale)'
  <2>1. ASSUME NEW w \in Workers PROVE ShownInv(pc[w], tx[w], poll[w], J)'
    <3>1. ShownInv(pc'[w], tx'[w], poll'[w], J) /\ dead' = dead
      BY <1>1, <1>8
    <3>2. QED
      BY <3>1 DEF ShownInv, Known, Spaced, Origin, Shows, ShowsLogs, ShowsBase, InOrder,
                  HeadersInv, AboveCursor, Joined
  <2>2. /\ Known(db)' /\ Origin(db)' /\ Shows(db, db.canonical, J)'
        /\ (db.cursor # NoBlock => Spaced(db))'
    BY <1>9 DEF Known, Origin, Shows, ShowsLogs, ShowsBase, Spaced
  <2>3. J = Keys \ stale'
    OBVIOUS
  <2>4. QED
    BY <1>7, <2>1, <2>2, <2>3 DEF ShowsInv, LedgerInv
<1>11. QED
  BY <1>1, <1>3, <1>5, <1>6, <1>7, <1>10 DEF WritersInv
----------------------------------------------------------------------------
(* The handlers.                                                           *)

\* A product that nobody but a handler has written has no journalled log.
LEMMA UnboundShown ==
    ASSUME WritersInv, NEW k \in Keys, db.bind[k] = Unbound
    PROVE  /\ Of(db.canonical, k, EventTypes) = {}
           /\ ExpectedStatus(db.canonical, k) = 0 /\ Registrars(db.canonical, k) = {}
<1>1. Of(db.canonical, k, EventTypes) = {}
  BY DEF WritersInv, ShowsInv, Shows, ShowsLogs
<1>2. db.canonical \in SUBSET Logs
  BY DEF WritersInv, LifecycleTypeOK, TypeOK, Tables
<1>3. QED
  BY <1>1, <1>2, ExpectedNothing

\* What SaveProduct and SaveShipment leave.
LEMMA ProductSaved ==
    ASSUME WritersInv, NEW k \in Keys, RowFree(k), NEW p \in Product, SaveProduct(k, p)
    PROVE  /\ Saves(k) /\ db'.product[k] = p
           /\ db'.bind[k] = db.bind[k] /\ db'.ship[k] = db.ship[k]
<1>1. /\ TypeInv /\ TypeOK /\ db \in Tables /\ Bound(db)
      /\ \A w \in Workers : tx[w] \in Tables /\ Bound(tx[w])
  BY DEF WritersInv, LedgerInv, IInv, TypeInv, TypeOK
<1>2. ASSUME NEW t \in Tables, Bound(t), NEW u, u = [t EXCEPT !.product[k] = p]
      PROVE  u \in Tables /\ Bound(u) /\ Written(u, t, k) /\ u.product[k] = p
             /\ u.bind = t.bind /\ u.ship = t.ship /\ u.canonical = t.canonical
  <2>1. /\ u.start = t.start /\ u.cursor = t.cursor /\ u.anchors = t.anchors
        /\ u.canonical = t.canonical /\ u.orphaned = t.orphaned
        /\ u.bind = t.bind /\ u.hist = t.hist /\ u.ship = t.ship
        /\ u.product = [t.product EXCEPT ![k] = p]
    BY <1>2 DEF Tables
  <2>2. t.product \in [Keys -> Product \cup {NoProduct}]
    BY DEF Tables
  <2>3. u.product \in [Keys -> Product \cup {NoProduct}]
    BY <2>1, <2>2
  <2>4. u \in Tables
    BY <1>2, <2>3 DEF Tables
  <2>5. Bound(u)
    BY <1>2, <2>1, <2>2, ProjectionAssumption DEF Bound
  <2>6. QED
    BY <2>1, <2>2, <2>4, <2>5 DEF Written
<1>3. /\ db' = [db EXCEPT !.product[k] = p]
      /\ tx' = [w \in Workers |-> IF holder = w THEN [tx[w] EXCEPT !.product[k] = p] ELSE tx[w]]
      /\ UNCHANGED <<chainVars, holder, pc, batch, poll, faults>>
  BY DEF SaveProduct
<1>4. /\ db' \in Tables /\ Bound(db') /\ Written(db', db, k) /\ db'.product[k] = p
      /\ db'.bind = db.bind /\ db'.ship = db.ship /\ db'.canonical = db.canonical
  BY <1>1, <1>2, <1>3
<1>5. ASSUME NEW w \in Workers
      PROVE  /\ tx'[w] \in Tables /\ Bound(tx'[w]) /\ Written(tx'[w], tx[w], k)
             /\ holder = w /\ SameRow(tx[w], db, k) => SameRow(tx'[w], db', k)
  <2>1. CASE holder = w
    <3>1. /\ tx'[w] \in Tables /\ Bound(tx'[w]) /\ Written(tx'[w], tx[w], k)
          /\ tx'[w].product[k] = p /\ tx'[w].bind = tx[w].bind /\ tx'[w].ship = tx[w].ship
          /\ tx'[w].canonical = tx[w].canonical
      BY <1>1, <1>2, <1>3, <2>1
    <3>2. QED
      BY <1>4, <3>1 DEF SameRow
  <2>2. CASE holder # w
    <3>1. tx'[w] = tx[w]
      BY <1>3, <2>2
    <3>2. QED
      BY <1>1, <2>2, <3>1 DEF Written
  <2>3. QED
    BY <2>1, <2>2
<1>6. tx' \in [Workers -> Tables]
  BY <1>3, <1>5
<1>7. QED
  BY <1>3, <1>4, <1>5, <1>6 DEF Saves

LEMMA ShipmentSaved ==
    ASSUME WritersInv, NEW k \in Keys, RowFree(k), NEW s \in Statuses, SaveShipment(k, s)
    PROVE  /\ Saves(k) /\ db'.ship[k] = s
           /\ db'.bind[k] = db.bind[k] /\ db'.product[k] = db.product[k]
<1>1. /\ TypeInv /\ TypeOK /\ db \in Tables /\ Bound(db)
      /\ \A w \in Workers : tx[w] \in Tables /\ Bound(tx[w])
  BY DEF WritersInv, LedgerInv, IInv, TypeInv, TypeOK
<1>2. ASSUME NEW t \in Tables, Bound(t), NEW u, u = [t EXCEPT !.ship[k] = s]
      PROVE  u \in Tables /\ Bound(u) /\ Written(u, t, k) /\ u.ship[k] = s
             /\ u.bind = t.bind /\ u.product = t.product /\ u.canonical = t.canonical
  <2>1. /\ u.start = t.start /\ u.cursor = t.cursor /\ u.anchors = t.anchors
        /\ u.canonical = t.canonical /\ u.orphaned = t.orphaned
        /\ u.bind = t.bind /\ u.hist = t.hist /\ u.product = t.product
        /\ u.ship = [t.ship EXCEPT ![k] = s]
    BY <1>2 DEF Tables
  <2>2. t.ship \in [Keys -> Statuses \cup {NoShipment}]
    BY DEF Tables
  <2>3. u.ship \in [Keys -> Statuses \cup {NoShipment}]
    BY <2>1, <2>2
  <2>4. u \in Tables
    BY <1>2, <2>3 DEF Tables
  <2>5. Bound(u)
    BY <1>2, <2>1 DEF Bound
  <2>6. QED
    BY <2>1, <2>2, <2>4, <2>5 DEF Written
<1>3. /\ db' = [db EXCEPT !.ship[k] = s]
      /\ tx' = [w \in Workers |-> IF holder = w THEN [tx[w] EXCEPT !.ship[k] = s] ELSE tx[w]]
      /\ UNCHANGED <<chainVars, holder, pc, batch, poll, faults>>
  BY DEF SaveShipment
<1>4. /\ db' \in Tables /\ Bound(db') /\ Written(db', db, k) /\ db'.ship[k] = s
      /\ db'.bind = db.bind /\ db'.product = db.product /\ db'.canonical = db.canonical
  BY <1>1, <1>2, <1>3
<1>5. ASSUME NEW w \in Workers
      PROVE  /\ tx'[w] \in Tables /\ Bound(tx'[w]) /\ Written(tx'[w], tx[w], k)
             /\ holder = w /\ SameRow(tx[w], db, k) => SameRow(tx'[w], db', k)
  <2>1. CASE holder = w
    <3>1. /\ tx'[w] \in Tables /\ Bound(tx'[w]) /\ Written(tx'[w], tx[w], k)
          /\ tx'[w].ship[k] = s /\ tx'[w].bind = tx[w].bind
          /\ tx'[w].product = tx[w].product /\ tx'[w].canonical = tx[w].canonical
      BY <1>1, <1>2, <1>3, <2>1
    <3>2. QED
      BY <1>4, <3>1 DEF SameRow
  <2>2. CASE holder # w
    <3>1. tx'[w] = tx[w]
      BY <1>3, <2>2
    <3>2. QED
      BY <1>1, <2>2, <3>1 DEF Written
  <2>3. QED
    BY <2>1, <2>2
<1>6. tx' \in [Workers -> Tables]
  BY <1>3, <1>5
<1>7. QED
  BY <1>3, <1>4, <1>5, <1>6 DEF Saves

\* A new draft has no history to show.
LEMMA CreateProductKeeps ==
    ASSUME WritersInv, NEW k \in Keys, NEW name \in Names, NEW owner \in Addresses,
           create_product(k, name, owner)
    PROVE  WritersInv'
<1> PICK p : p = [name |-> name, uri |-> NoUri, owner |-> owner, source |-> "signed_draft",
                  reg |-> "draft", height |-> 0, tx |-> NoTx]
  OBVIOUS
<1>1. /\ RowFree(k) /\ db.product[k] = NoProduct /\ edits < MaxEdits
      /\ SaveProduct(k, p)
      /\ saved' = [saved EXCEPT ![k] = p] /\ edits' = edits + 1 /\ stale' = stale
  BY DEF create_product
<1>2. p \in Product /\ p.height = 0
  BY LifecycleAssumption DEF Product, Sources, Registrations
<1>3. /\ Saves(k) /\ db'.product[k] = p
      /\ db'.bind[k] = db.bind[k] /\ db'.ship[k] = db.ship[k]
  BY <1>1, <1>2, ProductSaved
<1>4. db.bind[k] = Unbound
  BY <1>1 DEF WritersInv, LedgerInv, IInv, TypeInv, Bound
<1>5. LifecycleTypeOK /\ TypeOK'
  BY <1>3, SaveTyped DEF WritersInv, TypeInv
<1>6. LifecycleTypeOK'
  BY <1>1, <1>2, <1>5, LifecycleAssumption DEF LifecycleTypeOK
<1>7. ShowsLogs(db', db.canonical, k) /\ ShowsBase(db', db.canonical, k)
  <2>1. ShowsLogs(db, db.canonical, k)
    BY DEF WritersInv, ShowsInv, Shows
  <2>2. QED
    BY <1>3, <1>4, <2>1, UnboundShown DEF ShowsLogs, ShowsBase
<1>8. saved'[k] = p /\ \A j \in Keys \ {k} : saved'[j] = saved[j]
  BY <1>1, <1>5 DEF LifecycleTypeOK
<1>9. QED
  BY <1>1, <1>2, <1>3, <1>4, <1>6, <1>7, <1>8, SaveKeeps

\* An editable draft is not registered; once bound, it is not the baseline
\* any more.
LEMMA UpdateProductKeeps ==
    ASSUME WritersInv, NEW k \in Keys, NEW name \in Names, update_product(k, name)
    PROVE  WritersInv'
<1> PICK p : p = [db.product[k] EXCEPT !.name = name]
  OBVIOUS
<1>1. /\ RowFree(k) /\ Editable(k) /\ edits < MaxEdits
      /\ SaveProduct(k, p)
      /\ saved' = [saved EXCEPT ![k] = db.product'[k]] /\ edits' = edits + 1
      /\ stale' = IF db.bind[k] # Unbound THEN stale \cup {k} ELSE stale
  BY DEF update_product
<1>2. p \in Product /\ p.height = 0 /\ db.product[k].source = "signed_draft"
  <2>1. /\ db.product[k] # NoProduct /\ db.product[k].source = "signed_draft"
        /\ db.product[k].height = 0
    BY <1>1 DEF Editable, Owned
  <2>2. db.product[k] \in Product
    BY <2>1 DEF WritersInv, LifecycleTypeOK, TypeOK, Tables
  <2>3. QED
    BY <2>1, <2>2, LifecycleAssumption DEF Product
<1>3. /\ Saves(k) /\ db'.product[k] = p
      /\ db'.bind[k] = db.bind[k] /\ db'.ship[k] = db.ship[k]
  BY <1>1, <1>2, ProductSaved
<1>4. LifecycleTypeOK /\ TypeOK'
  BY <1>3, SaveTyped DEF WritersInv, TypeInv
<1>5. LifecycleTypeOK'
  BY <1>1, <1>2, <1>3, <1>4, LifecycleAssumption DEF LifecycleTypeOK
<1>6. ShowsLogs(db, db.canonical, k)
  BY DEF WritersInv, ShowsInv, Shows
<1>7. Registrars(db.canonical, k) = {}
  BY <1>2, <1>6 DEF ShowsLogs, ExpectedProduct
<1>8. ShowsLogs(db', db.canonical, k)
  BY <1>3, <1>6, <1>7 DEF ShowsLogs
<1>9. k \notin stale' => db'.bind[k] = Unbound
  BY <1>1, <1>3
<1>10. saved'[k] = p /\ \A j \in Keys \ {k} : saved'[j] = saved[j]
  BY <1>1, <1>3, <1>4 DEF LifecycleTypeOK
<1>11. stale \subseteq stale'
  BY <1>1
<1>12. QED
  BY <1>2, <1>3, <1>5, <1>8, <1>9, <1>10, <1>11, SaveKeeps DEF ShowsBase

\* A new shipment starts where the binding is, and that is where the logs are.
LEMMA CreateShipmentKeeps ==
    ASSUME WritersInv, NEW k \in Keys, create_shipment(k)
    PROVE  WritersInv'
<1>1. /\ RowFree(k) /\ SaveShipment(k, PlannedStatus(k))
      /\ saved' = saved /\ stale' = stale /\ edits' = edits
  BY DEF create_shipment, history
<1>2. ShowsLogs(db, db.canonical, k) /\ (k \notin stale => ShowsBase(db, db.canonical, k))
  BY DEF WritersInv, ShowsInv, Shows
<1>3. PlannedStatus(k) \in Statuses /\ PlannedStatus(k) = ExpectedStatus(db.canonical, k)
  <2>1. CASE db.bind[k] # Unbound
    <3>1. db.bind[k] \in Binding
      BY <2>1 DEF WritersInv, LifecycleTypeOK, TypeOK, Tables
    <3>2. QED
      BY <1>2, <2>1, <3>1 DEF PlannedStatus, ShowsLogs, Binding
  <2>2. CASE db.bind[k] = Unbound
    BY <2>2, UnboundShown DEF PlannedStatus, Statuses
  <2>3. QED
    BY <2>1, <2>2
<1>4. /\ Saves(k) /\ db'.ship[k] = PlannedStatus(k)
      /\ db'.bind[k] = db.bind[k] /\ db'.product[k] = db.product[k]
  BY <1>1, <1>3, ShipmentSaved
<1>5. LifecycleTypeOK /\ TypeOK'
  BY <1>4, SaveTyped DEF WritersInv, TypeInv
<1>6. LifecycleTypeOK'
  BY <1>1, <1>5 DEF LifecycleTypeOK
<1>7. ShowsLogs(db', db.canonical, k) /\ (k \notin stale' => ShowsBase(db', db.canonical, k))
  BY <1>1, <1>2, <1>3, <1>4 DEF ShowsLogs, ShowsBase
<1>8. k \notin stale' /\ saved'[k] # NoProduct =>
         /\ saved'[k].height = 0
         /\ saved'[k] = IF db'.bind[k] = Unbound THEN db'.product[k] ELSE db'.bind[k].base
  BY <1>1, <1>4 DEF WritersInv, DraftsInv
<1>9. QED
  BY <1>1, <1>4, <1>6, <1>7, <1>8, SaveKeeps

----------------------------------------------------------------------------
LEMMA InitWriters == LifecycleInit => WritersInv
<1> SUFFICES ASSUME LifecycleInit PROVE WritersInv
  OBVIOUS
<1> PICK K \in SUBSET Keys : K = Keys \ stale
  OBVIOUS
<1>1. /\ Init /\ stale = {} /\ edits = 0
      /\ saved = [k \in Keys |-> IF db.product[k] # NoProduct /\ db.product[k].height = 0
                                 THEN db.product[k] ELSE NoProduct]
  BY DEF LifecycleInit
<1>2. LedgerInv /\ ShowsInv(K)
  BY <1>1, InitFollows, InitShows
<1>3. TypeOK /\ db \in Tables
  BY <1>2 DEF LedgerInv, IInv, TypeInv, TypeOK
<1>4. \A k \in Keys : db.product[k] \in Product \cup {NoProduct}
  BY <1>3 DEF Tables
<1>5. LifecycleTypeOK
  BY <1>1, <1>3, <1>4, LifecycleAssumption DEF LifecycleTypeOK
<1>6. \A k \in Keys : db.bind[k] = Unbound
  BY <1>1 DEF Init, Empty
<1>7. DraftsInv(db)
  BY <1>1, <1>6 DEF DraftsInv
<1>8. \A w \in Workers : pc[w] = "idle"
  BY <1>1 DEF Init
<1>9. QED
  BY <1>2, <1>5, <1>7, <1>8 DEF WritersInv

LEMMA NextWriters ==
    ASSUME ForksReturn = FALSE
    PROVE  WritersInv /\ [LifecycleNext]_lifecycleVars => WritersInv'
<1> SUFFICES ASSUME WritersInv, [LifecycleNext]_lifecycleVars PROVE WritersInv'
  OBVIOUS
<1>1. CASE [Next]_vars /\ UNCHANGED history
  BY <1>1, IndexerKeeps
<1>2. CASE Api
  BY <1>2, CreateProductKeeps, UpdateProductKeeps, CreateShipmentKeeps DEF Api
<1>3. QED
  BY <1>1, <1>2 DEF LifecycleNext, lifecycleVars

\* On every tree of blocks, with any number of workers and handlers and any
\* failures, and provided an abandoned branch is not served again: a shipment
\* shows the status of its product's canonical history, whenever it was
\* planned.
THEOREM ShipmentsFollowChain ==
    ASSUME ForksReturn = FALSE
    PROVE  LifecycleSpec => []LifecycleInv
<1>1. WritersInv => LifecycleInv
  BY DEF WritersInv, ShowsInv, Shows, ShowsLogs, LifecycleInv, ShipmentFollowsChain
<1>2. QED
  BY InitWriters, NextWriters, <1>1, PTL DEF LifecycleSpec

\* Under the same conditions, a registration that disappears gives its draft
\* back as its owner last saved it.
THEOREM DraftsAreGivenBack ==
    ASSUME ForksReturn = FALSE
    PROVE  LifecycleSpec => []DraftGivenBack
<1>1. ASSUME WritersInv PROVE DraftGivenBack
  <2> SUFFICES ASSUME NEW k \in Keys \ stale, saved[k] # NoProduct,
                      Registrars(db.canonical, k) = {}
               PROVE  db.product[k] = saved[k]
    BY DEF DraftGivenBack, Registrars
  <2>1. saved[k] = IF db.bind[k] = Unbound THEN db.product[k] ELSE db.bind[k].base
    BY <1>1 DEF WritersInv, DraftsInv
  <2>2. ShowsBase(db, db.canonical, k)
    BY <1>1 DEF WritersInv, ShowsInv, Shows
  <2>3. QED
    BY <2>1, <2>2 DEF ShowsBase
<1>2. QED
  BY InitWriters, NextWriters, <1>1, PTL DEF LifecycleSpec

\* Under the same conditions, a product changes only with its canonical logs
\* as long as it is registered: neither a handler nor a rewind and replay
\* changes it otherwise.
THEOREM RegisteredChangeByChain ==
    ASSUME ForksReturn = FALSE
    PROVE  LifecycleSpec => RegisteredOnlyByChain
<1>1. ASSUME WritersInv, WritersInv', NEW k \in Keys,
             Of(db.canonical, k, {"ProductRegistered"}) # {},
             Of(db'.canonical, k, {"ProductRegistered", "ProductMetadataUpdated"}) =
                Of(db.canonical, k, {"ProductRegistered", "ProductMetadataUpdated"})
      PROVE  db'.product[k] = db.product[k]
  <2>1. UriLogs(db'.canonical, k) = UriLogs(db.canonical, k)
    BY <1>1 DEF UriLogs
  <2>2. Registrars(db'.canonical, k) = Registrars(db.canonical, k)
    <3>1. \A S : Registrars(S, k) = {o \in UriLogs(S, k) : o.type = "ProductRegistered"}
      BY DEF Registrars, UriLogs, Of
    <3>2. QED
      BY <2>1, <3>1
  <2>3. Registrars(db.canonical, k) # {}
    BY <1>1 DEF Registrars
  <2>4. ShowsLogs(db, db.canonical, k) /\ ShowsLogs(db', db'.canonical, k)
    <3>1. ShowsLogs(db, db.canonical, k)
      BY <1>1 DEF WritersInv, ShowsInv, Shows
    <3>2. ShowsLogs(db, db.canonical, k)'
      BY <1>1 DEF WritersInv, ShowsInv, Shows
    <3>3. QED
      BY <3>1, <3>2 DEF ShowsLogs
  <2>5. QED
    BY <2>1, <2>2, <2>3, <2>4 DEF ShowsLogs, ExpectedProduct
<1>2. WritersInv /\ WritersInv' =>
         [\A k \in Keys :
             LET logs == Of(db.canonical, k, {"ProductRegistered", "ProductMetadataUpdated"}) IN
             Of(db.canonical, k, {"ProductRegistered"}) # {} /\ logs' = logs =>
                 db'.product[k] = db.product[k]]_db
  BY <1>1 DEF Of
<1>3. QED
  BY InitWriters, NextWriters, <1>2, PTL DEF LifecycleSpec, RegisteredOnlyByChain

\* Under the same conditions, handlers disturb nothing of what the indexer
\* promises of the journal, its history rows and its anchors.
THEOREM IndexerUndisturbed ==
    ASSUME ForksReturn = FALSE
    PROVE  LifecycleSpec => [](JournalExact /\ HistoryExact /\ AnchorsUsable)
<1>1. WritersInv => JournalExact
  BY DEF WritersInv, LedgerInv, IInv, DbInv, Unused, Exact, CursorLogs, JournalExact
<1>2. WritersInv => HistoryExact
  BY DEF WritersInv, ShowsInv, HistoryInv, HistoryExact
<1>3. WritersInv => AnchorsUsable
  BY AnchorsFollow DEF WritersInv
<1>4. QED
  BY InitWriters, NextWriters, <1>1, <1>2, <1>3, PTL DEF LifecycleSpec

\* Under the same conditions, what poll_once commits is still a behaviour of
\* the ledger: a handler's commit is none of its steps.
THEOREM LedgerUndisturbed ==
    ASSUME ForksReturn = FALSE
    PROVE  LifecycleSpec => ImplementsLedger
<1>1. LifecycleInit => L!LedgerInit
  BY InitIsLedger DEF LifecycleInit
<1>2. WritersInv /\ [LifecycleNext]_lifecycleVars => [L!LedgerNext]_<<L!chainVars, L!ledger>>
  <2> SUFFICES ASSUME WritersInv, [LifecycleNext]_lifecycleVars
               PROVE  [L!LedgerNext]_<<L!chainVars, L!ledger>>
    OBVIOUS
  <2>1. CASE [Next]_vars
    BY <2>1, StepIsLedger DEF WritersInv
  <2>2. CASE Api
    <3>1. \E k \in Keys : \E p : SaveProduct(k, p) \/ SaveShipment(k, p)
      BY <2>2 DEF Api, create_product, update_product, create_shipment
    <3>2. UNCHANGED chainVars /\ UNCHANGED <<db.start, db.cursor, db.canonical>>
      <4>1. db \in Tables
        BY DEF WritersInv, LedgerInv, IInv, TypeInv, TypeOK
      <4>2. PICK k \in Keys : \E p : SaveProduct(k, p) \/ SaveShipment(k, p)
        BY <3>1
      <4>3. PICK p : SaveProduct(k, p) \/ SaveShipment(k, p)
        BY <4>2
      <4>4. CASE SaveProduct(k, p)
        BY <4>1, <4>4 DEF SaveProduct, Tables
      <4>5. CASE SaveShipment(k, p)
        BY <4>1, <4>5 DEF SaveShipment, Tables
      <4>6. QED
        BY <4>3, <4>4, <4>5
    <3>3. UNCHANGED <<L!chainVars, L!ledger>>
      BY <3>2 DEF chainVars, L!chainVars, L!ledger
    <3>4. QED
      BY <3>3
  <2>3. QED
    BY <2>1, <2>2 DEF LifecycleNext, lifecycleVars
<1>3. QED
  BY InitWriters, NextWriters, <1>1, <1>2, PTL DEF LifecycleSpec, ImplementsLedger, L!LedgerSpec
=============================================================================
