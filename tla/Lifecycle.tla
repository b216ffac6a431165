----------------------------- MODULE Lifecycle -----------------------------
(***************************************************************************)
(* Drafts and shipments beside the indexer: the API handlers that write    *)
(* products and shipments (backend/app/api/routes/products.py and          *)
(* shipments.py) composed with Indexer.tla on the same tables.             *)
(*                                                                         *)
(* A handler locks its product row (SELECT ... FOR UPDATE) before it reads *)
(* and until it commits, so it is one step that needs the row unlocked.    *)
(* Transactions read committed data: what a handler commits is what an     *)
(* open indexer transaction reads of a row it has not locked yet.          *)
(***************************************************************************)
EXTENDS IndexerProperties

CONSTANTS Names,    \* names owners give their drafts
          MaxEdits  \* bound: drafts created or edited

ASSUME LifecycleAssumption == Names \subseteq Texts /\ MaxEdits \in Nat

VARIABLES
    saved,   \* history: the last draft the owner of k saved (a row with
             \* registration evidence is not one)
    stale,   \* history: keys whose draft was edited after it was bound
    edits    \* drafts created or edited so far

history == <<saved, stale, edits>>
lifecycleVars == <<vars, history>>

LifecycleTypeOK ==
    /\ TypeOK
    /\ saved \in [Keys -> Product \cup {NoProduct}]
    /\ stale \subseteq Keys
    /\ edits \in 0..MaxEdits

LifecycleInit ==
    /\ Init
    /\ saved = [k \in Keys |-> IF db.product[k] # NoProduct /\ db.product[k].height = 0
                               THEN db.product[k] ELSE NoProduct]
    /\ stale = {} /\ edits = 0

----------------------------------------------------------------------------
\* Mutation: no row lock.
RowUnlocked(k) == TRUE

RowFree(k) == \A w \in Workers : k \notin poll[w].locked

\* A handler commits: the database and every open transaction see it.
SaveProduct(k, p) ==
    /\ db' = [db EXCEPT !.product[k] = p]
    /\ tx' = [w \in Workers |-> IF holder = w THEN [tx[w] EXCEPT !.product[k] = p] ELSE tx[w]]
    /\ UNCHANGED <<chainVars, holder, pc, batch, poll, faults>>

SaveShipment(k, s) ==
    /\ db' = [db EXCEPT !.ship[k] = s]
    /\ tx' = [w \in Workers |-> IF holder = w THEN [tx[w] EXCEPT !.ship[k] = s] ELSE tx[w]]
    /\ UNCHANGED <<chainVars, holder, pc, batch, poll, faults>>

\* create_product: an ID nobody has, in the draft's own name.
create_product(k, name, owner) ==
    LET draft == [name |-> name, uri |-> NoUri, owner |-> owner, source |-> "signed_draft",
                  reg |-> "draft", height |-> 0, tx |-> NoTx]
    IN /\ RowFree(k) /\ db.product[k] = NoProduct /\ edits < MaxEdits
       /\ SaveProduct(k, draft)
       /\ saved' = [saved EXCEPT ![k] = draft]
       /\ edits' = edits + 1
       /\ UNCHANGED stale

\* require_product_owner and require_editable_draft; the registry is asked at
\* the latest block.
Owned(p) == p # NoProduct /\ p.source \in {"signed_draft", "chain_event"} /\ p.owner # Nobody
isProductRegistered(k) ==
    \E o \in LogsOn(tip, 0, Height[tip]) : o.type = "ProductRegistered" /\ o.key = k
\* Mutation: any owned product can be edited.
EditableIfOwned(k) == Owned(db.product[k])

Editable(k) ==
    LET p == db.product[k] IN
    /\ Owned(p) /\ p.source = "signed_draft" /\ p.height = 0 /\ p.tx = NoTx
    /\ ~isProductRegistered(k)

\* update_product also refuses while a registration attempt is pending, which
\* is left to Registration: without it, owners only save in more states.
update_product(k, name) ==
    /\ RowFree(k) /\ Editable(k) /\ edits < MaxEdits
    /\ SaveProduct(k, [db.product[k] EXCEPT !.name = name])
    /\ saved' = [saved EXCEPT ![k] = db.product'[k]]
    /\ stale' = IF db.bind[k] # Unbound THEN stale \cup {k} ELSE stale
    /\ edits' = edits + 1

\* Mutation: every shipment starts at Created.
PlannedAtCreated(k) == 0

\* create_shipment: at most one for a product, in the status of its binding.
PlannedStatus(k) == IF db.bind[k] # Unbound THEN db.bind[k].status ELSE 0

create_shipment(k) ==
    /\ RowFree(k) /\ Owned(db.product[k]) /\ db.ship[k] = NoShipment
    /\ SaveShipment(k, PlannedStatus(k))
    /\ UNCHANGED history

Api == \E k \in Keys :
          \/ \E name \in Names, owner \in Addresses : create_product(k, name, owner)
          \/ \E name \in Names : update_product(k, name)
          \/ create_shipment(k)

LifecycleNext == (Next /\ UNCHANGED history) \/ Api

LifecycleSpec == LifecycleInit /\ [][LifecycleNext]_lifecycleVars

----------------------------------------------------------------------------
\* A shipment shows the status of its product's canonical history, whether
\* it was planned before, between or during the batches that indexed it.
ShipmentFollowsChain ==
    \A k \in Keys : db.ship[k] \in {NoShipment, ExpectedStatus(db.canonical, k)}

\* The tables handlers and the indexer write together are well typed, and
\* shipments follow the chain.
LifecycleInv == LifecycleTypeOK /\ ShipmentFollowsChain

\* A registration that disappears gives its draft back as the owner last
\* saved it, even if that was while the registration was being indexed
\* (_binding takes the baseline under the lock update_product needs).
\* This is for drafts nobody edited after they were first bound.
DraftGivenBack ==
    \A k \in Keys \ stale :
        saved[k] # NoProduct /\ Of(db.canonical, k, {"ProductRegistered"}) = {} => db.product[k] = saved[k]

\* While a registration stays canonical, only canonical logs change its
\* product: no handler does.
RegisteredOnlyByChain ==
    [][\A k \in Keys :
          LET logs == Of(db.canonical, k, {"ProductRegistered", "ProductMetadataUpdated"}) IN
          Of(db.canonical, k, {"ProductRegistered"}) # {} /\ logs' = logs =>
              db'.product[k] = db.product[k]]_db

----------------------------------------------------------------------------
(* The inductive invariant behind the three.  An open transaction sees the *)
(* rows it has not locked as they are committed: a handler that finds its  *)
(* row free has read what the indexer will read there.                     *)

SameRow(t, u, k) ==
    /\ t.product[k] = u.product[k] /\ t.bind[k] = u.bind[k] /\ t.ship[k] = u.ship[k]
    /\ Of(t.canonical, k, EventTypes) = Of(u.canonical, k, EventTypes)

LocksInv(point, t, q) ==
    /\ \A k \in Keys \ q.locked : SameRow(t, db, k)
    /\ point = "replay" => \A o \in q.todo : o.key \in q.locked

\* A saved draft is the product until it is bound, and the baseline then.
DraftsInv(t) ==
    \A k \in Keys \ stale :
        saved[k] # NoProduct =>
            /\ saved[k].height = 0
            /\ saved[k] = IF t.bind[k] = Unbound THEN t.product[k] ELSE t.bind[k].base

\* LifecycleInv, DraftGivenBack and RegisteredOnlyByChain, strengthened to an
\* inductive invariant.
WritersInv ==
    /\ LifecycleTypeOK
    /\ LedgerInv /\ ShowsInv(Keys \ stale)
    /\ DraftsInv(db)
    /\ \A w \in Workers : pc[w] \notin {"idle", "lock"} =>
          LocksInv(pc[w], tx[w], poll[w]) /\ DraftsInv(tx[w])
=============================================================================
