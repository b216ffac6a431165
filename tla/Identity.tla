------------------------------ MODULE Identity ------------------------------
(***************************************************************************)
(* Product identity: the rows, aliases and bindings of one configuration   *)
(* (backend/app/services/identity.py), the operator's two reconciliations  *)
(* of old databases (manage_identity.py, manage_indexer.py), and the       *)
(* handlers and indexer transactions that use the same rows.               *)
(*                                                                         *)
(* A chain key has several public IDs: its text and any letter case of its *)
(* hexadecimal form.  Databases of before the canonical identity may hold  *)
(* one row for each.  Every key has at most one registration on the        *)
(* confirmed chain (reg: its block, 0 for none) and in that block one more *)
(* log, which leaves a history row.  The tools and the indexer hold the    *)
(* writer lock and the rows they read, and handlers lock their row: each   *)
(* is one step.                                                            *)
(***************************************************************************)
EXTENDS Naturals, FiniteSets

CONSTANTS
    Keys, Ids, KeyOf,   \* chain keys, public IDs and the key each encodes
    Rank,               \* order in which a public ID is preferred
    Hex,                \* the ID the indexer gives a row of its own
    Wallets, Maker,     \* Maker registers every key, under the name Name
    Names, Name,
    Texts, ChainText,   \* descriptions; the one the registration carries
    NoRow, Nobody, NoText,
    Stranger, OtherName,
    Past,               \* kinds of rows earlier releases may have left under an ID
    MaxForks, MaxEdits  \* bounds: chain changes; drafts saved

ASSUME IdentityAssumption ==
    /\ IsFiniteSet(Ids) /\ KeyOf \in [Ids -> Keys] /\ Rank \in [Ids -> Nat]
    /\ \A a, b \in Ids : Rank[a] = Rank[b] => a = b
    /\ Hex \in [Keys -> Ids] /\ \A k \in Keys : KeyOf[Hex[k]] = k
    /\ {Maker, Stranger} \subseteq Wallets /\ {Name, OtherName} \subseteq Names /\ ChainText \in Texts
    /\ NoRow \notin Ids /\ Nobody \notin Wallets /\ NoText \notin Texts
    /\ MaxForks \in Nat /\ MaxEdits \in Nat

VARIABLES
    row,       \* products: identity scope and PRODUCT_FIELDS
    alias,     \* product_aliases
    bind,      \* indexed_products of this configuration
    foreign,   \* IDs bound by another configuration
    ships,     \* IDs of rows with a shipment
    tagged,    \* blocks of the logs known to have left the history of an ID's row
    untagged,  \* IDs of rows with history of no known log, left at block 1
    reg,       \* registrations on the confirmed chain
    journal,   \* registrations in the canonical journal
    draft,     \* history: the last draft an owner signed for the key
    drifted,   \* history: keys whose baseline is no longer that draft
    astray,    \* history: keys whose chain changed under history nobody journaled
    edits, forks

vars == <<row, alias, bind, foreign, ships, tagged, untagged, reg, journal, draft, drifted, astray, edits, forks>>
tables == <<row, alias, bind, ships, tagged, untagged>>

Fields == [name : Names, text : Texts \cup {NoText}, maker : Wallets,
           owner : Wallets \cup {Nobody}, source : {"none", "signed_draft", "chain_event"},
           block : Nat,
           reg : {"draft", "indexed", "unregistered", "legacy_unreconciled", "superseded"}]

\* Identity fields all NULL, of this configuration, of this registry with
\* another tracker, of another chain or registry.
Scopes == {"none", "current", "tracker", "other"}
Row == [scope : Scopes, f : Fields]
Claim == [id : Ids, base : Fields]
Signed == [id : Ids, f : Fields]

AtMostOne(S) == \A a, b \in S : a = b

\* A missing row is told from one that is there.
ASSUME NoRowAssumption == NoRow \notin Row \cup Claim \cup Signed

IdsOf(k) == {id \in Ids : KeyOf[id] = k}
Active(id) == row[id] # NoRow /\ row[id].f.reg # "superseded"

\* Products with history of the log that k has at block b.
TaggedWith(k, b) == {id \in IdsOf(k) : b \in tagged[id]}

----------------------------------------------------------------------------
(* identity.py *)

\* resolve_product: NoRow stands for no row and for every refusal.  Chains
\* of aliases end after 32 steps, more than there are IDs here.
resolve_product(public_id) ==
    LET id == IF alias[public_id] # NoRow THEN alias[public_id] ELSE public_id
    IN IF Active(id) /\ alias[id] = NoRow THEN id ELSE NoRow

\* find_canonical_product: every public ID of the key is among the
\* candidates, whatever the scope of its row.
Claimants(k) == {id \in IdsOf(k) : Active(id)}

\* assign_identity raises unless the identity is missing or the same, and
\* uq_products_canonical_identity refuses it while another row has it.
Assignable(id) ==
    /\ row[id] # NoRow => row[id].scope \in {"none", "current"}
    /\ \A other \in IdsOf(KeyOf[id]) \ {id} :
          row[other] # NoRow => row[other].scope \notin {"current", "tracker"}

----------------------------------------------------------------------------
(* manage_identity.reconcile *)

Rows(k) == {id \in IdsOf(k) : Active(id) /\ row[id].scope # "other"}
Evidence(k) == reg[k] # 0
Binding(k) == IF bind[k] # NoRow /\ bind[k].id \in Rows(k) THEN bind[k] ELSE NoRow

\* Mutation: the claimed block and transaction are not compared.
AgreesByName(f, k) ==
    /\ f.maker = Maker /\ f.name = Name
    /\ f.owner # Nobody => f.source # "none" /\ f.owner = Maker

Agrees(f, k) ==
    /\ f.maker = Maker /\ f.name = Name
    /\ f.block > 0 => f.block = reg[k]
    /\ f.owner # Nobody => f.source # "none" /\ f.owner = Maker

ClaimsNothing(f) == f.block = 0 /\ f.source # "chain_event"

MayMerge(R) == Cardinality(ships \cap R) =< 1 /\ R \cap untagged = {}

Conflicting(k) ==
    LET R == Rows(k) IN
    \/ \E id \in R : row[id].scope = "tracker" \/ id \in foreign \/ alias[id] # NoRow
    \/ \E id \in R : IF Evidence(k) THEN ~Agrees(row[id].f, k) ELSE ~ClaimsNothing(row[id].f)
    \/ Cardinality(R) > 1 /\ (~Evidence(k) \/ ~MayMerge(R))
Conflicts == {k \in Keys : Conflicting(k)}

Winner(k) == CHOOSE w \in Rows(k) : \A id \in Rows(k) : Rank[w] =< Rank[id]
Losers(k) == Rows(k) \ {Winner(k)}

\* Rows nobody proved anything about keep their unknown identity.
Unknown(k) == ~Evidence(k) /\ \E id \in Rows(k) : row[id].f.source # "signed_draft"
Changes == {k \in Keys \ Conflicts :
               /\ Rows(k) # {} /\ ~Unknown(k)
               /\ Losers(k) # {} \/ row[Winner(k)].scope # "current"}

\* The row whose fields the winner takes over: the one the indexer wrote.
SourceMoved(k) == Binding(k) # NoRow /\ Binding(k).id # Winner(k)
WinnerFields(k) ==
    IF ~SourceMoved(k) THEN row[Winner(k)].f
    ELSE [row[Binding(k).id].f EXCEPT !.reg = IF @ = "indexed" THEN @ ELSE "unregistered"]

\* Mutation: the binding keeps the baseline of the row it leaves.
BaselineKept(k) == Binding(k).base
MergedBaseline(k) ==
    LET f == row[Winner(k)].f IN
    IF SourceMoved(k) /\ f.source = "signed_draft" /\ f.block = 0 THEN f ELSE Binding(k).base

Archived(r) == [scope |-> "none", f |-> [r.f EXCEPT !.reg = "superseded"]]

Merged(id) == KeyOf[id] \in Changes /\ id \in Rows(KeyOf[id])
Moved(S) == {IF Merged(id) THEN Winner(KeyOf[id]) ELSE id : id \in S}
MovedHistory(id) ==
    IF ~Merged(id) THEN tagged[id]
    ELSE IF id = Winner(KeyOf[id]) THEN UNION {tagged[other] : other \in Rows(KeyOf[id])}
    ELSE {}

\* Mutation: no alias for an archived row.
AliasUnchanged(id) == alias[id]
AliasFor(id) ==
    IF Merged(id) /\ id # Winner(KeyOf[id]) THEN Winner(KeyOf[id])
    ELSE IF alias[id] # NoRow /\ Merged(alias[id]) THEN Winner(KeyOf[id])
    ELSE alias[id]

\* manage_identity --apply: all or nothing, in one transaction.
reconcile_identity ==
    /\ Conflicts = {}
    /\ row' = [id \in Ids |->
                 IF ~Merged(id) THEN row[id]
                 ELSE IF id = Winner(KeyOf[id]) THEN [scope |-> "current", f |-> WinnerFields(KeyOf[id])]
                 ELSE Archived(row[id])]
    /\ alias' = [id \in Ids |-> AliasFor(id)]
    /\ bind' = [k \in Keys |->
                 IF k \in Changes /\ Binding(k) # NoRow
                 THEN [id |-> Winner(k), base |-> MergedBaseline(k)] ELSE bind[k]]
    /\ ships' = Moved(ships) /\ untagged' = Moved(untagged)
    /\ tagged' = [id \in Ids |-> MovedHistory(id)]
    /\ drifted' = drifted \cup {k \in Changes : SourceMoved(k) /\ journal[k] = 0}
    /\ UNCHANGED <<foreign, reg, journal, draft, astray, edits, forks>>

----------------------------------------------------------------------------
(* manage_indexer.reconcile: each row of no known log must match exactly   *)
(* one log, of its own block, that no other row has.                       *)
reconcile_history ==
    /\ untagged # {}
    /\ \A id \in untagged :
          /\ reg[KeyOf[id]] = 1
          /\ TaggedWith(KeyOf[id], 1) = {}
          /\ IdsOf(KeyOf[id]) \cap untagged = {id}
    /\ tagged' = [id \in Ids |-> IF id \in untagged THEN tagged[id] \cup {1} ELSE tagged[id]]
    /\ untagged' = {}
    /\ UNCHANGED <<row, alias, bind, foreign, reg, journal, draft, drifted, astray, edits, forks, ships>>

----------------------------------------------------------------------------
(* The indexer: one batch that journals a registration and its log, or a   *)
(* rewind that orphans them.                                               *)

Placeholder == [name |-> Name, text |-> NoText, maker |-> Maker, owner |-> Nobody,
                source |-> "none", block |-> 0, reg |-> "unregistered"]
Unproven(f) == IF f.block = 0 THEN f
               ELSE [f EXCEPT !.block = 0, !.owner = Nobody, !.source = "none",
                              !.text = NoText, !.reg = "legacy_unreconciled"]
Registered(b) == [name |-> Name, text |-> ChainText, maker |-> Maker, owner |-> Maker,
                  source |-> "chain_event", block |-> b, reg |-> "indexed"]

Adoptable(k, id) ==
    /\ id \notin foreign /\ id \notin untagged
    /\ row[id].f.block > 0 => row[id].f.block = reg[k]

\* The ID the registration is projected to; NoRow when _binding refuses.
Bindable(k) ==
    IF bind[k] # NoRow THEN bind[k].id
    ELSE IF Claimants(k) = {} THEN Hex[k]
    ELSE CHOOSE id \in Claimants(k) : TRUE

\* Whether the batch may project the registration and its log.  History that
\* names the log of another block may be refused as well, when the log kept
\* its identity (_project): Covered(k) says no more about it.
CanJournal(k) ==
    LET id == Bindable(k) IN
    /\ Assignable(id)
    /\ bind[k] = NoRow => IF Claimants(k) = {} THEN row[id] = NoRow
                          ELSE Cardinality(Claimants(k)) = 1 /\ Adoptable(k, id)
    /\ TaggedWith(k, reg[k]) \subseteq {id}    \* an event's row stays with its product

\* What the log of k, once journaled, leaves uncovered: _project refuses
\* history of the log in another block, and _validate_history_coverage the
\* batch that reaches the head while a bound product has history that is of
\* no log in the journal.  A batch short of the head commits without it.
Covered(k) == LET id == Bindable(k) IN id \notin untagged /\ tagged[id] \subseteq {reg[k]}

index(k) ==
    /\ Evidence(k) /\ journal[k] = 0 /\ CanJournal(k)
    /\ LET id   == Bindable(k)
           base == IF row[id] = NoRow THEN Placeholder ELSE Unproven(row[id].f)
       IN /\ bind' = [bind EXCEPT ![k] = IF @ # NoRow THEN @ ELSE [id |-> id, base |-> base]]
          /\ row' = [row EXCEPT ![id] = [scope |-> "current", f |-> Registered(reg[k])]]
          /\ tagged' = [tagged EXCEPT ![id] = @ \cup {reg[k]}]
    /\ journal' = [journal EXCEPT ![k] = reg[k]]
    /\ UNCHANGED <<alias, foreign, ships, untagged, reg, draft, drifted, astray, edits, forks>>

\* Mutation: rewinding leaves the product as the registration made it.
RestoredNone(k) == row[bind[k].id]
Restored(k) == [row[bind[k].id] EXCEPT !.f = bind[k].base]

\* Mutation: the history rows of the orphaned log stay.
HistoryKept(k, id) == tagged[id]
HistoryLeft(k, id) == IF id \in IdsOf(k) THEN tagged[id] \ {journal[k]} ELSE tagged[id]

rewind(k) ==
    /\ journal[k] # 0 /\ journal[k] # reg[k]
    /\ row' = [row EXCEPT ![bind[k].id] = Restored(k)]
    /\ tagged' = [id \in Ids |-> HistoryLeft(k, id)]
    /\ journal' = [journal EXCEPT ![k] = 0]
    /\ UNCHANGED <<alias, bind, foreign, ships, untagged, reg, draft, drifted, astray, edits, forks>>

----------------------------------------------------------------------------
(* The API's handlers.  edit also needs the registry to know nothing of    *)
(* the product; what is mined but not confirmed is in Lifecycle.           *)

Owned(id) == row[id].f.source # "none" /\ row[id].f.owner # Nobody
CurrentScope(id) == row[id].scope = "current"

create_product(k, id, wallet) ==
    LET f == [name |-> Name, text |-> NoText, maker |-> wallet, owner |-> wallet,
              source |-> "signed_draft", block |-> 0, reg |-> "draft"]
    IN /\ edits < MaxEdits /\ edits' = edits + 1
       /\ id \in IdsOf(k) \ {Hex[k]} /\ row[id] = NoRow /\ Claimants(k) = {}
       /\ row' = [row EXCEPT ![id] = [scope |-> "current", f |-> f]]
       /\ draft' = [draft EXCEPT ![k] = [id |-> id, f |-> f]]
       /\ UNCHANGED <<alias, bind, foreign, ships, tagged, untagged, reg, journal, drifted, astray, forks>>

update_product(public_id, text) ==
    LET id == resolve_product(public_id)
        k  == KeyOf[id]
    IN /\ edits < MaxEdits /\ edits' = edits + 1
       /\ id # NoRow /\ Owned(id) /\ CurrentScope(id)
       /\ row[id].f.source = "signed_draft" /\ row[id].f.block = 0 /\ ~Evidence(k)
       /\ row' = [row EXCEPT ![id].f.text = text]
       /\ draft' = [draft EXCEPT ![k] = [id |-> id, f |-> row'[id].f]]
       /\ drifted' = IF bind[k] # NoRow THEN drifted \cup {k} ELSE drifted
       /\ UNCHANGED <<alias, bind, foreign, ships, tagged, untagged, reg, journal, astray, forks>>

create_shipment(public_id) ==
    LET id == resolve_product(public_id)
    IN /\ id # NoRow /\ Owned(id) /\ CurrentScope(id) /\ id \notin ships
       /\ ships' = ships \cup {id}
       /\ UNCHANGED <<row, alias, bind, foreign, tagged, untagged, reg, journal, draft, drifted, astray, edits, forks>>

----------------------------------------------------------------------------
Fork(k) ==
    /\ forks < MaxForks /\ forks' = forks + 1
    /\ \E b \in 0..2 : b # reg[k] /\ reg' = [reg EXCEPT ![k] = b]
    /\ astray' = IF TaggedWith(k, reg[k]) # {} /\ journal[k] # reg[k] THEN astray \cup {k} ELSE astray
    /\ UNCHANGED <<tables, foreign, journal, draft, drifted, edits>>

Next == \/ reconcile_identity \/ reconcile_history
        \/ \E k \in Keys : \/ index(k) \/ rewind(k) \/ Fork(k)
                            \/ \E id \in Ids, w \in Wallets : create_product(k, id, w)
        \/ \E id \in Ids : create_shipment(id) \/ \E t \in Texts : update_product(id, t)

----------------------------------------------------------------------------
(* Old databases: what earlier releases left behind for one key.           *)

Draft(w, text) == [name |-> Name, text |-> text, maker |-> w, owner |-> w,
                   source |-> "signed_draft", block |-> 0, reg |-> "draft"]
Legacy(name, b) == [name |-> name, text |-> NoText, maker |-> Maker, owner |-> Nobody,
                    source |-> "none", block |-> b, reg |-> "legacy_unreconciled"]

OldRow(kind) ==
    CASE kind = "none"     -> NoRow
      [] kind = "draft"    -> [scope |-> "none", f |-> Draft(Maker, NoText)]
      [] kind = "reserved" -> [scope |-> "current", f |-> Draft(Maker, NoText)]
      [] kind = "stranger" -> [scope |-> "none", f |-> Draft(Stranger, NoText)]
      [] kind = "legacy"   -> [scope |-> "none", f |-> Legacy(Name, 0)]
      [] kind = "foreign"  -> [scope |-> "none", f |-> Legacy(Name, 0)]
      [] kind = "claim"    -> [scope |-> "none", f |-> Legacy(Name, 1)]
      [] kind = "misnamed" -> [scope |-> "none", f |-> Legacy(OtherName, 0)]
      [] kind = "tracker"  -> [scope |-> "tracker", f |-> Legacy(Name, 0)]
      [] kind = "other"    -> [scope |-> "other", f |-> Legacy(Name, 0)]
      [] kind = "indexed"  -> [scope |-> "none", f |-> Registered(1)]
      [] kind = "orphaned" -> [scope |-> "none", f |-> Placeholder]

Kinds == {"none", "draft", "reserved", "stranger", "legacy", "foreign", "claim", "misnamed",
          "tracker", "other", "indexed", "orphaned"}
SignedKinds == {"draft", "reserved", "stranger"}

\* A draft is signed for the text of a key (create_product makes no other
\* ID), which is preferred to its hexadecimal forms; rows the indexer made
\* have the hexadecimal form.
ASSUME PastAssumption ==
    /\ Past \in [Ids -> SUBSET Kinds]
    /\ \A a, b \in Ids : KeyOf[a] = KeyOf[b] /\ Past[a] \cap SignedKinds # {} /\ Past[b] # {"none"} =>
          Rank[a] =< Rank[b]
    /\ \A id \in Ids : Past[id] \cap {"indexed", "orphaned"} # {} => id = Hex[KeyOf[id]]

Init ==
    \E kind \in [Ids -> UNION {Past[id] : id \in Ids}] :
        /\ \A id \in Ids : kind[id] \in Past[id]
        /\ \A k \in Keys : AtMostOne({id \in IdsOf(k) : kind[id] \in {"reserved", "tracker"}})
        /\ reg \in [Keys -> 0..1]
        /\ row = [id \in Ids |-> OldRow(kind[id])]
        /\ alias = [id \in Ids |-> NoRow]
        /\ foreign = {id \in Ids : kind[id] = "foreign"}
        /\ bind = [k \in Keys |-> IF kind[Hex[k]] \in {"indexed", "orphaned"}
                                  THEN [id |-> Hex[k], base |-> Placeholder] ELSE NoRow]
        /\ journal = [k \in Keys |-> IF kind[Hex[k]] = "indexed" THEN 1 ELSE 0]
        /\ tagged = [id \in Ids |-> IF kind[id] = "indexed" THEN {1} ELSE {}]
        /\ untagged \in SUBSET {id \in Ids : kind[id] \in {"legacy", "claim"}}
        /\ ships \in SUBSET {id \in Ids : kind[id] \notin {"none", "stranger"}}
        /\ draft = [k \in Keys |->
                      IF \E id \in IdsOf(k) : kind[id] \in SignedKinds
                      THEN LET id == CHOOSE id \in IdsOf(k) : kind[id] \in SignedKinds
                           IN [id |-> id, f |-> row[id].f]
                      ELSE NoRow]
        /\ drifted = {} /\ astray = {} /\ edits = 0 /\ forks = 0

Spec == Init /\ [][Next]_vars

----------------------------------------------------------------------------
Reserved(id) == row[id] # NoRow /\ row[id].scope \in {"current", "tracker"}

\* uq_products_canonical_identity, unique source_event_id
UniqueSound(k) ==
    /\ AtMostOne({id \in IdsOf(k) : Reserved(id)})
    /\ \A b \in 1..2 : AtMostOne(TaggedWith(k, b))

TablesTyped ==
    /\ row \in [Ids -> Row \cup {NoRow}] /\ alias \in [Ids -> Ids \cup {NoRow}]
    /\ bind \in [Keys -> Claim \cup {NoRow}] /\ draft \in [Keys -> Signed \cup {NoRow}]
    /\ foreign \subseteq Ids /\ ships \subseteq Ids /\ untagged \subseteq Ids
    /\ tagged \in [Ids -> SUBSET (1..2)]
    /\ reg \in [Keys -> 0..2] /\ journal \in [Keys -> 0..2]
    /\ drifted \subseteq Keys /\ astray \subseteq Keys

IdentityTypeOK == TablesTyped /\ \A k \in Keys : UniqueSound(k)

\* Every public ID that ever named a product still does, and names the same
\* one ("product_aliases keeps old URLs resolvable").
NamesResolve ==
    \A id \in Ids : row[id] # NoRow =>
        /\ resolve_product(id) # NoRow
        /\ KeyOf[resolve_product(id)] = KeyOf[id]

\* Nothing stays behind on an archived row: shipments, history, bindings
\* and aliases are those of active products.
Referenced(id) == id \in ships \/ id \in untagged \/ tagged[id] # {}
NothingLeftBehind ==
    /\ \A id \in Ids : Referenced(id) => Active(id)
    /\ \A k \in Keys : bind[k] # NoRow => Active(bind[k].id)
    /\ \A id \in Ids : alias[id] # NoRow => Active(alias[id]) /\ ~Active(id)

\* Whatever is merged, bound and rewound: constraints of the schema, public
\* IDs and references to rows hold together.
IdentityInv == IdentityTypeOK /\ NamesResolve /\ NothingLeftBehind

\* Who may edit or ship a product signed its draft, or registered it in the
\* canonical journal: no merge, adoption or rewind makes an owner of
\* someone a legacy row merely names.
RightsProven ==
    \A id \in Ids : Active(id) /\ Owned(id) =>
        LET k == KeyOf[id] IN
        IF row[id].f.source = "signed_draft"
        THEN draft[k] # NoRow /\ draft[k].f.owner = row[id].f.owner
        ELSE journal[k] # 0 /\ row[id].f.owner = Maker

\* A signed draft is there again when its registration is gone, whichever
\* rows were merged meanwhile ("Signed-draft baselines are preserved so a
\* later chain reorganization restores the correct rights").
DraftReturns ==
    \A k \in Keys \ drifted :
        draft[k] # NoRow /\ journal[k] = 0 /\ reg[k] = 0 =>
            row[resolve_product(draft[k].id)].f = draft[k].f

\* What was reconciled needs no reconciliation ("Dry-run/apply is
\* idempotent"), and the apply never trips over a constraint or an alias.
Idempotent == [][reconcile_identity => Changes' = {} /\ Conflicts' = {}]_vars

\* Once both tools are satisfied with a key, nothing of it stops the indexer:
\* its registration is projected, and its history is what the journal says,
\* through merges, adoptions, forks and rewinds.  Two cases are out of reach
\* of the tools: rows of other configurations, and history that a fork
\* moved to another block before any batch had journaled its log.
ReconciledIsIndexable ==
    \A k \in Keys \ (Conflicts \cup Changes \cup astray) :
        /\ Evidence(k) /\ journal[k] \in {0, reg[k]}
        /\ IdsOf(k) \cap untagged = {}
        /\ \A id \in IdsOf(k) : Active(id) => row[id].scope # "other"
        => Covered(k) /\ (journal[k] = 0 => CanJournal(k))

----------------------------------------------------------------------------
(* The inductive invariant behind them, key by key.                        *)

\* A row is active, or an alias leads to an active row of its key.
NamesSound(k) ==
    \A id \in IdsOf(k) :
        /\ row[id] # NoRow /\ ~Active(id) => alias[id] # NoRow /\ row[id].scope = "none"
        /\ alias[id] # NoRow => /\ row[id] # NoRow /\ ~Active(id)
                                /\ alias[id] \in IdsOf(k) /\ Active(alias[id])

\* The binding is of an active row; its baseline was never registered.
BindingSound(k) ==
    /\ journal[k] # 0 => bind[k] # NoRow
    /\ bind[k] # NoRow =>
          /\ bind[k].id \in IdsOf(k) /\ Active(bind[k].id)
          /\ bind[k].base.source # "chain_event" /\ bind[k].base.reg # "superseded"
          /\ bind[k].base.source = "signed_draft" =>
                /\ draft[k] # NoRow /\ bind[k].id = draft[k].id
                /\ bind[k].base.owner = draft[k].f.owner

\* What the chain grants is the bound row's, what was signed the draft's.
OwnersSound(k) ==
    \A id \in Claimants(k) :
        /\ row[id].f.source = "chain_event" =>
              /\ bind[k] # NoRow /\ id = bind[k].id
              /\ journal[k] # 0 /\ row[id].f.owner = Maker
        /\ row[id].f.source = "signed_draft" =>
              draft[k] # NoRow /\ id = draft[k].id /\ row[id].f.owner = draft[k].f.owner

\* The draft is in its row, which no merge archives, or is its baseline.
DraftSound(k) ==
    draft[k] # NoRow =>
        LET d == draft[k].id IN
        /\ d \in Claimants(k) /\ row[d].scope # "other"
        /\ \A id \in Claimants(k) : Rank[d] =< Rank[id]
        /\ draft[k].f.source = "signed_draft" /\ draft[k].f.block = 0
        /\ k \notin drifted =>
              /\ row[d].f # draft[k].f => bind[k] # NoRow /\ bind[k].id = d /\ journal[k] # 0
              /\ bind[k] # NoRow /\ bind[k].id = d => bind[k].base = draft[k].f

\* History is of the log on the chain or of the one in the journal.
HistorySound(k) ==
    k \notin astray => \A id \in IdsOf(k) : tagged[id] \subseteq {reg[k], journal[k]}

KeyInv(k) ==
    /\ UniqueSound(k) /\ NamesSound(k) /\ BindingSound(k) /\ OwnersSound(k) /\ DraftSound(k)
    /\ HistorySound(k)
    /\ \A id \in IdsOf(k) : Referenced(id) => Active(id)

IdentityIInv == TablesTyped /\ \A k \in Keys : KeyInv(k)
=============================================================================
