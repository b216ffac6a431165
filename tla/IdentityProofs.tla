---------------------------- MODULE IdentityProofs ----------------------------
(***************************************************************************)
(* Whatever rows earlier releases left, and whatever the two tools, the    *)
(* indexer, forks and the handlers make of them: public IDs and references *)
(* hold together (IdentityInv), rights are proven (RightsProven), drafts   *)
(* come back (DraftReturns), and what was reconciled stays so (Idempotent) *)
(* and can be indexed (ReconciledIsIndexable).  The inductive invariant is *)
(* IdentityIInv, key by key: a step on one key leaves the others' rows.    *)
(***************************************************************************)
EXTENDS Identity, FiniteSetTheorems, WellFoundedInduction, TLAPS

----------------------------------------------------------------------------
(* Rows.                                                                   *)

LEMMA IdsAre ==
    /\ \A id \in Ids : KeyOf[id] \in Keys /\ id # NoRow /\ id \in IdsOf(KeyOf[id])
    /\ \A k \in Keys : \A id \in IdsOf(k) : id \in Ids /\ KeyOf[id] = k
    /\ \A k \in Keys : Hex[k] \in IdsOf(k)
BY IdentityAssumption DEF IdsOf

LEMMA RowsAre ==
    ASSUME TablesTyped, NEW id \in Ids, row[id] # NoRow
    PROVE  row[id] \in Row /\ row[id].f \in Fields /\ row[id].scope \in Scopes
BY DEF TablesTyped, Row

LEMMA BindingsAre ==
    ASSUME TablesTyped, NEW k \in Keys, bind[k] # NoRow
    PROVE  bind[k] \in Claim /\ bind[k].id \in Ids /\ bind[k].base \in Fields
BY DEF TablesTyped, Claim

LEMMA DraftsAre ==
    ASSUME TablesTyped, NEW k \in Keys, draft[k] # NoRow
    PROVE  draft[k] \in Signed /\ draft[k].id \in Ids /\ draft[k].f \in Fields
BY DEF TablesTyped, Signed

\* One row is written.
LEMMA OneRow ==
    ASSUME TablesTyped, NEW i \in Ids, NEW r \in Row, row' = [row EXCEPT ![i] = r]
    PROVE  /\ row' \in [Ids -> Row \cup {NoRow}]
           /\ row'[i] = r /\ r # NoRow
           /\ \A j \in Ids \ {i} : row'[j] = row[j]
           /\ Active(i)' <=> r.f.reg # "superseded"
           /\ \A j \in Ids \ {i} : Active(j)' <=> Active(j)
BY NoRowAssumption DEF TablesTyped, Active

LEMMA FieldsAre ==
    /\ Placeholder \in Fields /\ Placeholder.source = "none" /\ Placeholder.reg = "unregistered"
    /\ \A b \in Nat : /\ Registered(b) \in Fields /\ Registered(b).source = "chain_event"
                      /\ Registered(b).owner = Maker /\ Registered(b).reg = "indexed"
BY IdentityAssumption DEF Placeholder, Registered, Fields

LEMMA UnprovenIs ==
    ASSUME NEW f \in Fields, f.reg # "superseded"
    PROVE  /\ Unproven(f) \in Fields /\ Unproven(f).reg # "superseded"
           /\ f.block = 0 => Unproven(f) = f
           /\ f.block # 0 => Unproven(f).source = "none"
<1>1. CASE f.block = 0
  BY <1>1 DEF Unproven
<1>2. CASE f.block # 0
  <2> DEFINE g == [name |-> f.name, text |-> NoText, maker |-> f.maker, owner |-> Nobody,
                   source |-> "none", block |-> 0, reg |-> "legacy_unreconciled"]
  <2>1. Unproven(f) = g
    BY <1>2 DEF Unproven, Fields
  <2>2. g \in Fields
    BY DEF Fields
  <2>3. g.reg # "superseded" /\ g.source = "none"
    OBVIOUS
  <2> HIDE DEF g
  <2>4. QED
    BY <1>2, <2>1, <2>2, <2>3
<1>3. QED
  BY <1>1, <1>2

\* A key whose rows, binding and draft are left alone.
LEMMA KeyKeeps ==
    ASSUME NEW k \in Keys, KeyInv(k), TablesTyped,
           \A id \in IdsOf(k) :
              /\ row'[id] = row[id] /\ alias'[id] = alias[id]
              /\ id \in ships' => id \in ships \/ Active(id)
              /\ tagged'[id] = tagged[id]
              /\ id \in untagged' => id \in untagged,
           bind'[k] = bind[k], journal'[k] = journal[k], draft'[k] = draft[k],
           k \in drifted => k \in drifted',
           HistorySound(k)' \/ (reg'[k] = reg[k] /\ (k \in astray => k \in astray'))
    PROVE  KeyInv(k)'
<1>1. \A id \in IdsOf(k) : Active(id)' <=> Active(id)
  BY DEF Active
<1>2. Claimants(k)' = Claimants(k)
  BY <1>1 DEF Claimants
<1>3. UniqueSound(k)'
  BY DEF KeyInv, UniqueSound, AtMostOne, Reserved, TaggedWith
<1>4. NamesSound(k)'
  BY <1>1 DEF KeyInv, NamesSound
<1>5. BindingSound(k)'
  BY <1>1 DEF KeyInv, BindingSound
<1>6. OwnersSound(k)'
  BY <1>2 DEF KeyInv, OwnersSound, Claimants
<1>7. DraftSound(k)'
  BY <1>2 DEF KeyInv, DraftSound, Claimants
<1>8. \A id \in IdsOf(k) : Referenced(id)' => Active(id)'
  BY <1>1 DEF KeyInv, Referenced
<1>9. HistorySound(k)'
  BY DEF KeyInv, HistorySound
<1>10. QED
  BY <1>3, <1>4, <1>5, <1>6, <1>7, <1>8, <1>9 DEF KeyInv

----------------------------------------------------------------------------
(* The steps that write no row, or one.                                    *)

LEMMA ForkKeeps ==
    ASSUME IdentityIInv, NEW k \in Keys, Fork(k)
    PROVE  IdentityIInv'
<1>1. TablesTyped'
  BY DEF IdentityIInv, TablesTyped, Fork, tables
<1>2. /\ TablesTyped /\ UNCHANGED <<row, alias, bind, ships, tagged, untagged, journal, draft, drifted>>
      /\ \A j \in Keys \ {k} : reg'[j] = reg[j]
      /\ astray \subseteq astray'
      /\ k \notin astray' => TaggedWith(k, reg[k]) = {} \/ journal[k] = reg[k]
  BY DEF IdentityIInv, TablesTyped, Fork, tables
<1>3. HistorySound(k)'
  <2>1. SUFFICES ASSUME k \notin astray', NEW id \in IdsOf(k), NEW b \in tagged[id]
                 PROVE  b = journal[k]
    BY <1>2 DEF HistorySound
  <2>2. b \in {reg[k], journal[k]}
    BY <1>2, <2>1 DEF IdentityIInv, KeyInv, HistorySound
  <2>3. b = reg[k] => TaggedWith(k, reg[k]) # {}
    BY <2>1 DEF TaggedWith
  <2>4. QED
    BY <1>2, <2>1, <2>2, <2>3
<1>4. ASSUME NEW j \in Keys PROVE KeyInv(j)'
  <2>1. HistorySound(j)' \/ (reg'[j] = reg[j] /\ (j \in astray => j \in astray'))
    BY <1>2, <1>3
  <2>2. QED
    BY <1>2, <2>1, KeyKeeps DEF IdentityIInv
<1>5. QED
  BY <1>1, <1>4 DEF IdentityIInv

\* Whom a public ID leads to.
LEMMA ResolveIs ==
    ASSUME IdentityIInv, NEW p \in Ids
    PROVE  /\ resolve_product(p) # NoRow =>
                 /\ resolve_product(p) \in Ids /\ Active(resolve_product(p))
                 /\ KeyOf[resolve_product(p)] = KeyOf[p] /\ alias[resolve_product(p)] = NoRow
           /\ row[p] # NoRow => resolve_product(p) # NoRow
           /\ Active(p) => resolve_product(p) = p
<1> DEFINE k == KeyOf[p]
           id == IF alias[p] # NoRow THEN alias[p] ELSE p
<1>1. k \in Keys /\ p \in IdsOf(k) /\ KeyInv(k)
  BY IdsAre DEF IdentityIInv
<1>2. id \in Ids /\ KeyOf[id] = k /\ id # NoRow /\ id \in IdsOf(k)
  BY <1>1, IdsAre DEF KeyInv, NamesSound
<1>3. \A i \in IdsOf(k) : Active(i) => alias[i] = NoRow
  BY <1>1 DEF KeyInv, NamesSound
<1>4. row[p] # NoRow => Active(id)
  BY <1>1 DEF KeyInv, NamesSound, Active
<1>5. resolve_product(p) = IF Active(id) /\ alias[id] = NoRow THEN id ELSE NoRow
  BY DEF resolve_product
<1>6. Active(p) => id = p
  BY <1>1, <1>3
<1>7. Active(p) => row[p] # NoRow
  BY DEF Active
<1> HIDE DEF id
<1>8. QED
  BY <1>2, <1>3, <1>4, <1>5, <1>6, <1>7

LEMMA ShipmentKeeps ==
    ASSUME IdentityIInv, NEW p \in Ids, create_shipment(p)
    PROVE  IdentityIInv'
<1>1. PICK id \in Ids : /\ Active(id) /\ ships' = ships \cup {id}
                        /\ UNCHANGED <<row, alias, bind, foreign, tagged, untagged, reg,
                                       journal, draft, drifted, astray, edits, forks>>
  BY ResolveIs DEF create_shipment
<1>2. TablesTyped'
  BY <1>1 DEF IdentityIInv, TablesTyped
<1>3. ASSUME NEW j \in Keys PROVE KeyInv(j)'
  BY <1>1, KeyKeeps DEF IdentityIInv
<1>4. QED
  BY <1>2, <1>3 DEF IdentityIInv

LEMMA HistoryKeeps ==
    ASSUME IdentityIInv, reconcile_history
    PROVE  IdentityIInv'
<1>1. /\ tagged' = [id \in Ids |-> IF id \in untagged THEN tagged[id] \cup {1} ELSE tagged[id]]
      /\ untagged' = {}
      /\ UNCHANGED <<row, alias, bind, foreign, reg, journal, draft, drifted, astray, edits, forks, ships>>
  BY DEF reconcile_history
<1>2. TablesTyped'
  BY <1>1 DEF IdentityIInv, TablesTyped
<1>3. ASSUME NEW k \in Keys PROVE KeyInv(k)'
  <2>1. KeyInv(k)
    BY DEF IdentityIInv
  <2>2. /\ \A id \in IdsOf(k) : tagged'[id] = IF id \in untagged THEN tagged[id] \cup {1} ELSE tagged[id]
        /\ \A id \in IdsOf(k) \cap untagged : /\ reg[k] = 1 /\ TaggedWith(k, 1) = {}
                                               /\ IdsOf(k) \cap untagged = {id}
    BY <1>1, IdsAre DEF reconcile_history
  <2>3. ASSUME NEW b \in 1..2 PROVE AtMostOne(TaggedWith(k, b)')
    <3>1. ASSUME NEW x \in IdsOf(k), NEW y \in IdsOf(k), b \in tagged'[x], b \in tagged'[y]
          PROVE  x = y
      <4>1. b \in tagged[x] /\ b \in tagged[y] => x = y
        BY <2>1 DEF KeyInv, UniqueSound, AtMostOne, TaggedWith
      <4>2. \A id \in IdsOf(k) \cap untagged, o \in IdsOf(k) : 1 \notin tagged[o]
        BY <2>2 DEF TaggedWith
      <4>3. x \in untagged /\ y \in untagged => x = y
        BY <2>2
      <4>4. QED
        BY <2>2, <3>1, <4>1, <4>2, <4>3
    <3>2. QED
      BY <3>1 DEF AtMostOne, TaggedWith
  <2>4. UniqueSound(k)'
    BY <1>1, <2>1, <2>3 DEF KeyInv, UniqueSound, AtMostOne, Reserved
  <2>5. NamesSound(k)' /\ BindingSound(k)' /\ OwnersSound(k)' /\ DraftSound(k)'
    BY <1>1, <2>1 DEF KeyInv, NamesSound, BindingSound, OwnersSound, DraftSound, Claimants, Active
  <2>6. HistorySound(k)'
    <3>1. SUFFICES ASSUME k \notin astray, NEW id \in IdsOf(k)
                   PROVE  tagged'[id] \subseteq {reg[k], journal[k]}
      BY <1>1 DEF HistorySound
    <3>2. tagged[id] \subseteq {reg[k], journal[k]}
      BY <2>1, <3>1 DEF KeyInv, HistorySound
    <3>3. QED
      BY <2>2, <3>2
  <2>7. \A id \in IdsOf(k) : Referenced(id)' => Active(id)'
    BY <1>1, <2>1, <2>2 DEF KeyInv, Referenced, Active
  <2>8. QED
    BY <2>4, <2>5, <2>6, <2>7 DEF KeyInv
<1>4. QED
  BY <1>2, <1>3 DEF IdentityIInv

LEMMA CreateKeeps ==
    ASSUME IdentityIInv, NEW k \in Keys, NEW i \in Ids, NEW w \in Wallets, create_product(k, i, w)
    PROVE  IdentityIInv'
<1> DEFINE f == [name |-> Name, text |-> NoText, maker |-> w, owner |-> w,
                 source |-> "signed_draft", block |-> 0, reg |-> "draft"]
           r == [scope |-> "current", f |-> f]
           d == [id |-> i, f |-> f]
<1>1. /\ i \in IdsOf(k) /\ row[i] = NoRow /\ Claimants(k) = {}
      /\ row' = [row EXCEPT ![i] = r] /\ draft' = [draft EXCEPT ![k] = d]
      /\ UNCHANGED <<alias, bind, foreign, ships, tagged, untagged, reg, journal, drifted, astray, forks>>
  BY DEF create_product
<1>2. f \in Fields /\ r \in Row /\ d \in Signed
  BY IdentityAssumption DEF Fields, Row, Signed, Scopes
<1>3. /\ r.scope = "current" /\ r.f = f /\ f.reg # "superseded" /\ d.id = i /\ d.f = f
      /\ f.source = "signed_draft" /\ f.block = 0 /\ f.owner = w
  OBVIOUS
<1> HIDE DEF f, r, d
<1>4. /\ row' \in [Ids -> Row \cup {NoRow}] /\ row'[i] = r /\ r # NoRow
      /\ \A j \in Ids \ {i} : row'[j] = row[j] /\ (Active(j)' <=> Active(j))
      /\ Active(i)'
  BY <1>1, <1>2, <1>3, OneRow, ZenonT(30) DEF IdentityIInv
<1>5. /\ draft' \in [Keys -> Signed \cup {NoRow}] /\ draft'[k] = d /\ d # NoRow
      /\ \A j \in Keys \ {k} : draft'[j] = draft[j]
  BY <1>1, <1>2, NoRowAssumption DEF IdentityIInv, TablesTyped
<1>6. TablesTyped'
  BY <1>1, <1>4, <1>5 DEF IdentityIInv, TablesTyped
<1>7. ASSUME NEW j \in Keys, j # k PROVE KeyInv(j)'
  <2>1. \A id \in IdsOf(j) : row'[id] = row[id]
    BY <1>1, <1>4, <1>7, IdsAre
  <2>2. QED
    BY <1>1, <1>5, <1>7, <2>1, KeyKeeps DEF IdentityIInv
<1>8. KeyInv(k)'
  <2>1. KeyInv(k) /\ \A id \in IdsOf(k) : id \in Ids
    BY IdsAre DEF IdentityIInv
  <2>2. \A id \in IdsOf(k) : ~Active(id)
    BY <1>1 DEF Claimants
  <2>3. \A id \in IdsOf(k) : row[id] = NoRow
    BY <2>1, <2>2 DEF KeyInv, NamesSound
  <2>4. bind[k] = NoRow /\ alias[i] = NoRow
    BY <1>1, <2>1, <2>2, <2>3 DEF KeyInv, BindingSound, NamesSound
  <2>5. Claimants(k)' = {i}
    BY <1>1, <1>4, <2>1, <2>2 DEF Claimants
  <2>6. UniqueSound(k)'
    BY <1>1, <1>4, <2>1, <2>3 DEF KeyInv, UniqueSound, AtMostOne, Reserved, TaggedWith
  <2>7. NamesSound(k)'
    BY <1>1, <1>4, <2>1, <2>2, <2>3, <2>4 DEF KeyInv, NamesSound
  <2>8. BindingSound(k)'
    BY <1>1, <2>1, <2>4 DEF KeyInv, BindingSound
  <2>9. OwnersSound(k)'
    BY <1>3, <1>4, <1>5, <2>5 DEF OwnersSound
  <2>10. DraftSound(k)'
    <3>1. Rank[i] \in Nat
      BY IdentityAssumption
    <3>2. QED
      BY <1>1, <1>3, <1>4, <1>5, <2>4, <2>5, <3>1 DEF DraftSound
  <2>11. \A id \in IdsOf(k) : Referenced(id)' => Active(id)'
    BY <1>1, <2>1, <2>2 DEF KeyInv, Referenced
  <2>12. HistorySound(k)'
    BY <1>1, <2>1 DEF KeyInv, HistorySound
  <2>13. QED
    BY <2>6, <2>7, <2>8, <2>9, <2>10, <2>11, <2>12 DEF KeyInv
<1>9. QED
  BY <1>6, <1>7, <1>8 DEF IdentityIInv

\* Rows and signed drafts as records of their fields.
LEMMA RowEdited ==
    ASSUME NEW r \in Row, NEW text \in Texts
    PROVE  /\ [r EXCEPT !.f.text = text] = [scope |-> r.scope, f |-> [r.f EXCEPT !.text = text]]
           /\ [r.f EXCEPT !.text = text] \in Fields
           /\ \A f \in Fields : f = [r.f EXCEPT !.text = text] =>
                 /\ f.source = r.f.source /\ f.block = r.f.block
                 /\ f.owner = r.f.owner /\ f.reg = r.f.reg
BY DEF Row, Fields

\* An owner edits the draft i of the key.
LEMMA EditKeeps ==
    ASSUME IdentityIInv, NEW k \in Keys, NEW i \in IdsOf(k), NEW f \in Fields, Active(i),
           row[i].scope = "current", row[i].f.source = "signed_draft",
           f.source = "signed_draft", f.block = 0, f.owner = row[i].f.owner, f.reg = row[i].f.reg,
           row' = [row EXCEPT ![i] = [scope |-> "current", f |-> f]],
           draft' = [draft EXCEPT ![k] = [id |-> i, f |-> f]],
           drifted' = IF bind[k] # NoRow THEN drifted \cup {k} ELSE drifted,
           UNCHANGED <<alias, bind, foreign, ships, tagged, untagged, reg, journal, astray, forks>>
    PROVE  IdentityIInv'
<1> DEFINE r == [scope |-> "current", f |-> f]
           d == [id |-> i, f |-> f]
<1>1. i \in Ids /\ KeyOf[i] = k /\ row[i] # NoRow /\ i \in Claimants(k) /\ f.reg # "superseded"
  BY IdsAre DEF Active, Claimants
<1>2. r \in Row /\ r.f = f /\ r.scope = "current"
  BY DEF Row, Scopes
<1>3. d \in Signed /\ d.id = i /\ d.f = f /\ d # NoRow
  BY <1>1, NoRowAssumption DEF Signed
<1>4. row' = [row EXCEPT ![i] = r] /\ draft' = [draft EXCEPT ![k] = d]
  OBVIOUS
<1> HIDE DEF r, d
<1>7. /\ row' \in [Ids -> Row \cup {NoRow}] /\ row'[i] = r /\ r # NoRow
      /\ \A j \in Ids \ {i} : row'[j] = row[j] /\ (Active(j)' <=> Active(j))
      /\ Active(i)'
  BY <1>1, <1>2, <1>4, OneRow, ZenonT(30) DEF IdentityIInv
<1>9. /\ draft' \in [Keys -> Signed \cup {NoRow}] /\ draft'[k] = d
      /\ \A j \in Keys \ {k} : draft'[j] = draft[j]
  BY <1>3, <1>4 DEF IdentityIInv, TablesTyped
<1>10. TablesTyped'
  BY <1>7, <1>9 DEF IdentityIInv, TablesTyped
<1>11. ASSUME NEW j \in Keys, j # k PROVE KeyInv(j)'
  <2>1. \A id \in IdsOf(j) : row'[id] = row[id]
    BY <1>1, <1>7, <1>11, IdsAre
  <2>2. j \in drifted => j \in drifted'
    OBVIOUS
  <2>3. QED
    BY <1>9, <1>11, <2>1, <2>2, KeyKeeps DEF IdentityIInv
<1>12. KeyInv(k)'
  <2>1. KeyInv(k) /\ \A id \in IdsOf(k) : id \in Ids
    BY <1>1, IdsAre DEF IdentityIInv
  <2>2. /\ draft[k] # NoRow /\ i = draft[k].id /\ row[i].f.owner = draft[k].f.owner
    BY <1>1, <2>1 DEF KeyInv, OwnersSound
  <2>3. \A id \in IdsOf(k) : /\ Active(id)' <=> Active(id)
                             /\ row'[id] = NoRow <=> row[id] = NoRow
                             /\ row[id] # NoRow => row'[id].scope = row[id].scope
    BY <1>1, <1>2, <1>7, <2>1
  <2>4. Claimants(k)' = Claimants(k)
    BY <2>3 DEF Claimants
  <2>5. UniqueSound(k)'
    BY <2>1, <2>3 DEF KeyInv, UniqueSound, AtMostOne, Reserved, TaggedWith
  <2>6. NamesSound(k)'
    BY <2>1, <2>3 DEF KeyInv, NamesSound
  <2>7. BindingSound(k)'
    BY <1>3, <1>9, <2>1, <2>2, <2>3 DEF KeyInv, BindingSound
  <2>8. OwnersSound(k)'
    <3>1. \A id \in Claimants(k) : id # i => row'[id] = row[id]
      BY <1>7, <2>1 DEF Claimants
    <3>2. QED
      BY <1>2, <1>3, <1>7, <1>9, <2>1, <2>2, <2>4, <3>1 DEF KeyInv, OwnersSound
  <2>9. DraftSound(k)'
    <3>1. bind[k] # NoRow => k \in drifted'
      OBVIOUS
    <3>2. QED
      BY <1>1, <1>2, <1>3, <1>7, <1>9, <2>1, <2>2, <2>4, <3>1 DEF KeyInv, DraftSound
  <2>10. \A id \in IdsOf(k) : Referenced(id)' => Active(id)'
    BY <2>1, <2>3 DEF KeyInv, Referenced
  <2>11. HistorySound(k)'
    BY <2>1 DEF KeyInv, HistorySound
  <2>12. QED
    BY <2>5, <2>6, <2>7, <2>8, <2>9, <2>10, <2>11 DEF KeyInv
<1>13. QED
  BY <1>10, <1>11, <1>12 DEF IdentityIInv

LEMMA UpdateKeeps ==
    ASSUME IdentityIInv, NEW p \in Ids, NEW text \in Texts, update_product(p, text)
    PROVE  IdentityIInv'
<1>1. PICK i \in Ids : i = resolve_product(p) /\ Active(i)
  BY ResolveIs DEF update_product
<1>2. PICK k \in Keys : k = KeyOf[i] /\ i \in IdsOf(k)
  BY IdsAre
<1>3. row[i] # NoRow /\ row[i] \in Row /\ row[i].f \in Fields
  BY <1>1, RowsAre DEF IdentityIInv, Active
<1>4. PICK f \in Fields : f = [row[i].f EXCEPT !.text = text]
  BY <1>3, RowEdited
<1>5. /\ row[i].f.source = "signed_draft" /\ row[i].f.block = 0 /\ row[i].scope = "current"
      /\ row' = [row EXCEPT ![i] = [row[i] EXCEPT !.f.text = text]]
      /\ draft' = [draft EXCEPT ![k] = [id |-> i, f |-> row'[i].f]]
      /\ drifted' = IF bind[k] # NoRow THEN drifted \cup {k} ELSE drifted
      /\ UNCHANGED <<alias, bind, foreign, ships, tagged, untagged, reg, journal, astray, forks>>
  BY <1>1, <1>2 DEF update_product, CurrentScope
<1>6. row' = [row EXCEPT ![i] = [scope |-> "current", f |-> f]]
  <2>1. [row[i] EXCEPT !.f.text = text] = [scope |-> row[i].scope, f |-> f]
    BY <1>3, <1>4, RowEdited
  <2>2. [row[i] EXCEPT !.f.text = text] = [scope |-> "current", f |-> f]
    BY <1>5, <2>1
  <2>3. row' = [row EXCEPT ![i] = [row[i] EXCEPT !.f.text = text]]
    BY <1>5
  <2>4. QED
    BY <2>2, <2>3, Zenon
<1>7. row'[i] = [scope |-> "current", f |-> f]
  BY <1>1, <1>6 DEF IdentityIInv, TablesTyped
<1>8. draft' = [draft EXCEPT ![k] = [id |-> i, f |-> f]]
  <2>1. row'[i].f = f
    BY <1>7
  <2>2. draft' = [draft EXCEPT ![k] = [id |-> i, f |-> row'[i].f]]
    BY <1>5
  <2>3. QED
    BY <2>1, <2>2, Zenon
<1>9. f.source = "signed_draft" /\ f.block = 0 /\ f.owner = row[i].f.owner /\ f.reg = row[i].f.reg
  BY <1>3, <1>4, <1>5, RowEdited
<1>10. QED
  BY <1>1, <1>2, <1>5, <1>6, <1>8, <1>9, EditKeeps
----------------------------------------------------------------------------
(* The indexer's two steps: both write the row the key is bound to.        *)

\* The row _binding finds: the bound one, the only claimant, or a new one.
LEMMA BindableIs ==
    ASSUME IdentityIInv, NEW k \in Keys, CanJournal(k), NEW i, i = Bindable(k)
    PROVE  /\ i \in IdsOf(k) /\ i \in Ids /\ KeyOf[i] = k
           /\ TaggedWith(k, reg[k]) \subseteq {i}
           /\ \A o \in IdsOf(k) \ {i} : ~Reserved(o)
           /\ row[i] # NoRow => Active(i)
           /\ bind[k] = NoRow => \/ row[i] = NoRow /\ Claimants(k) = {}
                                 \/ Active(i) /\ Claimants(k) = {i}
           /\ bind[k] # NoRow => i = bind[k].id /\ Active(i)
<1>1. KeyInv(k)
  BY DEF IdentityIInv
<1>2. CASE bind[k] # NoRow
  <2>1. i = bind[k].id
    BY <1>2 DEF Bindable
  <2>2. i \in IdsOf(k) /\ Active(i)
    BY <1>1, <1>2, <2>1 DEF KeyInv, BindingSound
  <2>3. QED
    BY <1>2, <2>1, <2>2, IdsAre DEF CanJournal, Assignable, Reserved
<1>3. CASE bind[k] = NoRow /\ Claimants(k) = {}
  <2>1. i = Hex[k]
    BY <1>3 DEF Bindable
  <2>2. i \in IdsOf(k) /\ row[i] = NoRow
    BY <1>3, <2>1, IdsAre DEF CanJournal
  <2>3. QED
    BY <1>3, <2>1, <2>2, IdsAre DEF CanJournal, Assignable, Reserved
<1>4. CASE bind[k] = NoRow /\ Claimants(k) # {}
  <2>1. i = CHOOSE id \in Claimants(k) : TRUE
    BY <1>4 DEF Bindable
  <2>2. i \in Claimants(k)
    BY <1>4, <2>1
  <2>3. i \in IdsOf(k) /\ Active(i)
    BY <2>2 DEF Claimants
  <2>4. Claimants(k) = {i}
    <3>1. IsFiniteSet(Claimants(k)) /\ Cardinality(Claimants(k)) = 1
      <4>1. Claimants(k) \subseteq Ids
        BY IdsAre DEF Claimants
      <4>2. QED
        BY <1>4, <4>1, IdentityAssumption, FS_Subset DEF CanJournal
    <3>2. QED
      BY <2>2, <3>1, FS_Singleton
  <2>5. QED
    BY <1>4, <2>3, <2>4, IdsAre DEF CanJournal, Assignable, Reserved
<1>5. QED
  BY <1>2, <1>3, <1>4

LEMMA IndexKeeps ==
    ASSUME IdentityIInv, NEW k \in Keys, index(k)
    PROVE  IdentityIInv'
<1>1. PICK i : i = Bindable(k)
  OBVIOUS
<1>2. /\ i \in IdsOf(k) /\ i \in Ids /\ KeyOf[i] = k
      /\ TaggedWith(k, reg[k]) \subseteq {i}
      /\ \A o \in IdsOf(k) \ {i} : ~Reserved(o)
      /\ row[i] # NoRow => Active(i)
      /\ bind[k] = NoRow => \/ row[i] = NoRow /\ Claimants(k) = {}
                            \/ Active(i) /\ Claimants(k) = {i}
      /\ bind[k] # NoRow => i = bind[k].id /\ Active(i)
  BY <1>1, BindableIs DEF index
<1>3. PICK base : base = IF row[i] = NoRow THEN Placeholder ELSE Unproven(row[i].f)
  OBVIOUS
<1>4. PICK r : r = [scope |-> "current", f |-> Registered(reg[k])]
  OBVIOUS
<1>5. /\ reg[k] # 0
      /\ bind' = [bind EXCEPT ![k] = IF @ # NoRow THEN @ ELSE [id |-> i, base |-> base]]
      /\ row' = [row EXCEPT ![i] = r]
      /\ tagged' = [tagged EXCEPT ![i] = @ \cup {reg[k]}]
      /\ journal' = [journal EXCEPT ![k] = reg[k]]
      /\ UNCHANGED <<alias, foreign, ships, untagged, reg, draft, drifted, astray, edits, forks>>
  BY <1>1, <1>3, <1>4 DEF index, Evidence
<1>6. /\ TablesTyped /\ KeyInv(k) /\ \A id \in IdsOf(k) : id \in Ids
      /\ reg[k] \in 0..2 /\ reg[k] \in Nat
  BY IdsAre DEF IdentityIInv, TablesTyped
<1>7. /\ r \in Row /\ r.scope = "current" /\ r.f.source = "chain_event"
      /\ r.f.owner = Maker /\ r.f.reg # "superseded"
  BY <1>4, <1>6, FieldsAre DEF Row, Scopes
<1>8. /\ row' \in [Ids -> Row \cup {NoRow}] /\ row'[i] = r /\ r # NoRow
      /\ \A j \in Ids \ {i} : row'[j] = row[j] /\ (Active(j)' <=> Active(j))
      /\ Active(i)'
  BY <1>2, <1>5, <1>6, <1>7, OneRow
<1>9. row[i] # NoRow => row[i].f \in Fields /\ row[i].f.reg # "superseded"
  BY <1>2, <1>6, RowsAre DEF Active
<1>10. base \in Fields /\ base.reg # "superseded"
  BY <1>3, <1>9, FieldsAre, UnprovenIs
<1>11. PICK c : c = IF bind[k] # NoRow THEN bind[k] ELSE [id |-> i, base |-> base]
  OBVIOUS
<1>12. c \in Claim /\ c # NoRow /\ c.id = i /\ (bind[k] = NoRow => c.base = base)
  <2>1. [id |-> i, base |-> base] \in Claim
    BY <1>2, <1>10 DEF Claim
  <2>2. QED
    BY <1>2, <1>6, <1>11, <2>1, BindingsAre, NoRowAssumption
<1>13. bind' = [bind EXCEPT ![k] = c]
  BY <1>5, <1>6, <1>11 DEF TablesTyped
<1>14. /\ bind' \in [Keys -> Claim \cup {NoRow}] /\ bind'[k] = c
       /\ \A j \in Keys \ {k} : bind'[j] = bind[j]
       /\ journal' \in [Keys -> 0..2] /\ journal'[k] = reg[k]
       /\ \A j \in Keys \ {k} : journal'[j] = journal[j]
  BY <1>5, <1>6, <1>12, <1>13 DEF TablesTyped
<1>14a. /\ tagged'[i] = tagged[i] \cup {reg[k]}
       /\ \A j \in Ids \ {i} : tagged'[j] = tagged[j]
       /\ tagged' \in [Ids -> SUBSET (1..2)]
  <2>1. tagged \in [Ids -> SUBSET (1..2)] /\ reg[k] \in 1..2
    BY <1>5, <1>6 DEF TablesTyped
  <2>2. tagged[i] \cup {reg[k]} \in SUBSET (1..2)
    BY <1>2, <2>1
  <2>3. QED
    BY <1>2, <1>5, <2>1, <2>2
<1>15. TablesTyped'
  BY <1>2, <1>5, <1>6, <1>8, <1>14, <1>14a DEF TablesTyped
<1>16. ASSUME NEW j \in Keys, j # k PROVE KeyInv(j)'
  <2>1. \A id \in IdsOf(j) : row'[id] = row[id] /\ id # i
    BY <1>2, <1>8, <1>16, IdsAre
  <2>2. QED
    BY <1>5, <1>14, <1>16, <1>14a, <2>1, IdsAre, KeyKeeps DEF IdentityIInv
<1>17. KeyInv(k)'
  <2>1. alias[i] = NoRow
    BY <1>2, <1>6 DEF KeyInv, NamesSound
  <2>2. Claimants(k)' = Claimants(k) \cup {i}
    BY <1>2, <1>6, <1>8 DEF Claimants
  <2>3. UniqueSound(k)'
    <3>1. \A o \in IdsOf(k) : Reserved(o)' => o = i
      BY <1>2, <1>6, <1>8 DEF Reserved
    <3>2. ASSUME NEW b \in 1..2 PROVE AtMostOne(TaggedWith(k, b)')
      <4>1. CASE b = reg[k]
        BY <1>2, <1>6, <1>14a, <4>1 DEF AtMostOne, TaggedWith
      <4>2. CASE b # reg[k]
        <5>1. TaggedWith(k, b)' = TaggedWith(k, b)
          BY <1>6, <1>14a, <4>2 DEF TaggedWith
        <5>2. QED
          BY <1>6, <5>1 DEF KeyInv, UniqueSound
      <4>3. QED
        BY <4>1, <4>2
    <3>3. QED
      BY <3>1, <3>2 DEF UniqueSound, AtMostOne
  <2>4. NamesSound(k)'
    BY <1>2, <1>5, <1>6, <1>8, <2>1 DEF KeyInv, NamesSound
  <2>5. BindingSound(k)'
    <3>1. c.base.source # "chain_event" /\ c.base.reg # "superseded"
      <4>1. CASE bind[k] # NoRow
        BY <1>6, <1>11, <4>1 DEF KeyInv, BindingSound
      <4>2. CASE row[i] = NoRow
        BY <1>3, <1>12, <4>1, <4>2, FieldsAre
      <4>3. CASE bind[k] = NoRow /\ row[i] # NoRow
        <5>1. row[i].f.source # "chain_event"
          BY <1>2, <1>6, <4>3 DEF KeyInv, OwnersSound
        <5>2. base.source # "chain_event"
          BY <1>3, <1>9, <4>3, <5>1, UnprovenIs
        <5>3. QED
          BY <1>10, <1>12, <4>3, <5>2
      <4>4. QED
        BY <4>1, <4>2, <4>3
    <3>2. c.base.source = "signed_draft" =>
             draft[k] # NoRow /\ i = draft[k].id /\ c.base.owner = draft[k].f.owner
      <4>1. CASE bind[k] # NoRow
        BY <1>2, <1>6, <1>11, <4>1 DEF KeyInv, BindingSound
      <4>2. CASE bind[k] = NoRow /\ row[i] = NoRow
        BY <1>3, <1>12, <4>2, FieldsAre
      <4>3. CASE bind[k] = NoRow /\ row[i] # NoRow /\ c.base.source = "signed_draft"
        <5>1. base = row[i].f
          BY <1>3, <1>9, <1>12, <4>3, UnprovenIs
        <5>2. i \in Claimants(k)
          BY <1>2, <4>3
        <5>3. QED
          BY <1>6, <1>12, <4>3, <5>1, <5>2 DEF KeyInv, OwnersSound
      <4>4. QED
        BY <4>1, <4>2, <4>3
    <3>3. QED
      BY <1>2, <1>5, <1>8, <1>12, <1>14, <3>1, <3>2 DEF BindingSound
  <2>6. OwnersSound(k)'
    <3>1. \A id \in Claimants(k) : id # i => row'[id] = row[id]
      BY <1>6, <1>8 DEF Claimants
    <3>2. \A id \in Claimants(k) : id # i => row[id].f.source # "chain_event"
      BY <1>2, <1>6 DEF KeyInv, OwnersSound
    <3>3. QED
      BY <1>5, <1>6, <1>7, <1>8, <1>12, <1>14, <2>2, <3>1, <3>2 DEF KeyInv, OwnersSound
  <2>7. DraftSound(k)'
    <3>1. SUFFICES ASSUME draft[k] # NoRow PROVE DraftSound(k)'
      BY <1>5 DEF DraftSound
    <3>2. PICK d : d = draft[k].id
      OBVIOUS
    <3>3. /\ d \in Claimants(k) /\ d \in Ids /\ row[d].scope # "other"
          /\ \A id \in Claimants(k) : Rank[d] =< Rank[id]
          /\ draft[k].f.source = "signed_draft" /\ draft[k].f.block = 0
          /\ k \notin drifted =>
                /\ row[d].f # draft[k].f => bind[k] # NoRow /\ bind[k].id = d /\ journal[k] # 0
                /\ bind[k] # NoRow /\ bind[k].id = d => bind[k].base = draft[k].f
      BY <1>6, <3>1, <3>2 DEF KeyInv, DraftSound, Claimants
    <3>4. Claimants(k)' = Claimants(k)
      BY <1>2, <2>2, <3>3 DEF Claimants
    <3>5. row'[d].scope # "other"
      BY <1>7, <1>8, <3>3
    <3>6. k \notin drifted /\ d # i => row'[d].f = draft[k].f
      BY <1>2, <1>8, <3>3
    <3>7. k \notin drifted /\ d = i => c.base = draft[k].f
      <4>1. CASE bind[k] # NoRow
        BY <1>2, <1>11, <3>3, <4>1
      <4>2. CASE bind[k] = NoRow /\ k \notin drifted /\ d = i
        <5>1. row[i] # NoRow /\ row[i].f = draft[k].f
          BY <3>3, <4>2 DEF Claimants, Active
        <5>2. base = row[i].f
          BY <1>3, <1>9, <3>3, <5>1, UnprovenIs
        <5>3. QED
          BY <1>12, <4>2, <5>1, <5>2
      <4>3. QED
        BY <4>1, <4>2
    <3>8. QED
      BY <1>5, <1>12, <1>14, <3>1, <3>2, <3>3, <3>4, <3>5, <3>6, <3>7 DEF DraftSound
  <2>8. \A id \in IdsOf(k) : Referenced(id)' => Active(id)'
    BY <1>5, <1>6, <1>8, <1>14a DEF KeyInv, Referenced
  <2>9. HistorySound(k)'
    <3>1. journal[k] = 0 /\ astray' = astray /\ reg' = reg
      BY <1>5 DEF index
    <3>2. \A id \in IdsOf(k) : 0 \notin tagged[id]
      BY <1>6 DEF TablesTyped
    <3>3. QED
      BY <1>6, <1>14, <1>14a, <3>1, <3>2 DEF KeyInv, HistorySound
  <2>10. QED
    BY <2>3, <2>4, <2>5, <2>6, <2>7, <2>8, <2>9 DEF KeyInv
<1>18. QED
  BY <1>15, <1>16, <1>17 DEF IdentityIInv
LEMMA RewindKeeps ==
    ASSUME IdentityIInv, NEW k \in Keys, rewind(k)
    PROVE  IdentityIInv'
<1>1. /\ TablesTyped /\ KeyInv(k) /\ \A id \in IdsOf(k) : id \in Ids
      /\ journal[k] # 0 /\ bind[k] # NoRow
  BY IdsAre DEF IdentityIInv, rewind, KeyInv, BindingSound
<1>2. PICK i : i = bind[k].id
  OBVIOUS
<1>3. PICK base : base = bind[k].base
  OBVIOUS
<1>4. /\ i \in IdsOf(k) /\ i \in Ids /\ KeyOf[i] = k /\ Active(i) /\ row[i] # NoRow
      /\ base \in Fields /\ base.source # "chain_event" /\ base.reg # "superseded"
      /\ base.source = "signed_draft" =>
            draft[k] # NoRow /\ i = draft[k].id /\ base.owner = draft[k].f.owner
  BY <1>1, <1>2, <1>3, IdsAre, BindingsAre DEF KeyInv, BindingSound, Active
<1>5. PICK r : r = [scope |-> row[i].scope, f |-> base]
  OBVIOUS
<1>6. r \in Row /\ r.scope = row[i].scope /\ r.f = base /\ r = [row[i] EXCEPT !.f = base]
  <2>1. row[i] \in Row
    BY <1>1, <1>4, RowsAre
  <2>2. QED
    BY <1>4, <1>5, <2>1 DEF Row
<1>7. /\ row' = [row EXCEPT ![i] = r]
      /\ tagged' = [id \in Ids |-> HistoryLeft(k, id)]
      /\ journal' = [journal EXCEPT ![k] = 0]
      /\ UNCHANGED <<alias, bind, foreign, ships, untagged, reg, draft, drifted, astray, edits, forks>>
  BY <1>2, <1>3, <1>6 DEF rewind, Restored
<1>8. /\ row' \in [Ids -> Row \cup {NoRow}] /\ row'[i] = r /\ r # NoRow
      /\ \A j \in Ids \ {i} : row'[j] = row[j] /\ (Active(j)' <=> Active(j))
      /\ Active(i)'
  BY <1>1, <1>4, <1>6, <1>7, OneRow
<1>9. /\ journal' \in [Keys -> 0..2] /\ journal'[k] = 0
      /\ \A j \in Keys \ {k} : journal'[j] = journal[j]
  BY <1>1, <1>7 DEF TablesTyped
<1>9a. /\ \A id \in IdsOf(k) : tagged'[id] = tagged[id] \ {journal[k]}
       /\ \A id \in Ids \ IdsOf(k) : tagged'[id] = tagged[id]
  BY <1>1, <1>7 DEF HistoryLeft
<1>9b. tagged' \in [Ids -> SUBSET (1..2)]
  <2>1. \A id \in Ids : HistoryLeft(k, id) \in SUBSET (1..2)
    BY <1>1 DEF HistoryLeft, TablesTyped
  <2>2. QED
    BY <1>7, <2>1
<1>10. TablesTyped'
  BY <1>1, <1>7, <1>8, <1>9, <1>9b DEF TablesTyped
<1>11. ASSUME NEW j \in Keys, j # k PROVE KeyInv(j)'
  <2>1. \A id \in IdsOf(j) : row'[id] = row[id] /\ id \in Ids \ IdsOf(k)
    BY <1>4, <1>8, <1>11, IdsAre
  <2>2. QED
    BY <1>7, <1>9, <1>11, <1>9a, <2>1, KeyKeeps DEF IdentityIInv
<1>12. KeyInv(k)'
  <2>1. /\ Claimants(k)' = Claimants(k) /\ i \in Claimants(k)
        /\ \A id \in IdsOf(k) : /\ Active(id)' <=> Active(id)
                                /\ row'[id] = NoRow <=> row[id] = NoRow
                                /\ row[id] # NoRow => row'[id].scope = row[id].scope
    BY <1>1, <1>4, <1>6, <1>8 DEF Claimants
  <2>2. UniqueSound(k)'
    BY <1>1, <1>9a, <2>1 DEF KeyInv, UniqueSound, AtMostOne, Reserved, TaggedWith
  <2>3. NamesSound(k)'
    BY <1>1, <1>7, <2>1 DEF KeyInv, NamesSound
  <2>4. BindingSound(k)'
    BY <1>1, <1>7, <1>9, <2>1 DEF KeyInv, BindingSound
  <2>5. OwnersSound(k)'
    <3>1. \A id \in Claimants(k) : id # i => row'[id] = row[id] /\ row[id].f.source # "chain_event"
      BY <1>1, <1>2, <1>8 DEF KeyInv, OwnersSound, Claimants
    <3>2. QED
      BY <1>1, <1>4, <1>6, <1>7, <1>8, <2>1, <3>1 DEF KeyInv, OwnersSound
  <2>6. DraftSound(k)'
    <3>1. SUFFICES ASSUME draft[k] # NoRow PROVE DraftSound(k)'
      BY <1>7 DEF DraftSound
    <3>2. PICK d : d = draft[k].id
      OBVIOUS
    <3>3. /\ d \in Claimants(k) /\ d \in IdsOf(k) /\ d \in Ids /\ row[d] # NoRow /\ row[d].scope # "other"
          /\ \A id \in Claimants(k) : Rank[d] =< Rank[id]
          /\ draft[k].f.source = "signed_draft" /\ draft[k].f.block = 0
          /\ k \notin drifted =>
                /\ row[d].f # draft[k].f => d = i
                /\ d = i => base = draft[k].f
      BY <1>1, <1>2, <1>3, <3>1, <3>2 DEF KeyInv, DraftSound, Claimants, Active
    <3>4. k \notin drifted => row'[d].f = draft[k].f
      BY <1>6, <1>8, <3>3
    <3>5. row'[d].scope # "other"
      BY <2>1, <3>3
    <3>6. QED
      BY <1>2, <1>3, <1>7, <2>1, <3>1, <3>2, <3>3, <3>4, <3>5 DEF DraftSound
  <2>7. \A id \in IdsOf(k) : Referenced(id)' => Active(id)'
    BY <1>1, <1>7, <1>9a, <2>1 DEF KeyInv, Referenced
  <2>8. HistorySound(k)'
    BY <1>1, <1>7, <1>9, <1>9a DEF KeyInv, HistorySound
  <2>9. QED
    BY <2>2, <2>3, <2>4, <2>5, <2>6, <2>7, <2>8 DEF KeyInv
<1>13. QED
  BY <1>10, <1>11, <1>12 DEF IdentityIInv
----------------------------------------------------------------------------
(* The merge.                                                              *)

LEMMA LeastOf ==
    ASSUME NEW S \in SUBSET Nat, S # {}
    PROVE  \E n \in S : \A m \in S : n =< m
<1>1. IsWellFoundedOn({ss \in Nat \X Nat : ss[1] < ss[2]}, Nat)
  BY NatLessThanWellFounded DEF OpToRel
<1>2. PICK n \in S : ~ \E m \in S : <<m, n>> \in {ss \in Nat \X Nat : ss[1] < ss[2]}
  BY <1>1, WFMin
<1>3. QED
  BY <1>2

\* Some row of the key is preferred to all others.
LEMMA WinnerIs ==
    ASSUME NEW k \in Keys, Rows(k) # {}
    PROVE  Winner(k) \in Rows(k) /\ \A id \in Rows(k) : Rank[Winner(k)] =< Rank[id]
<1> DEFINE S == {Rank[id] : id \in Rows(k)}
<1>1. S \in SUBSET Nat /\ S # {}
  BY IdsAre, IdentityAssumption DEF Rows
<1>2. PICK n \in S : \A m \in S : n =< m
  BY <1>1, LeastOf
<1>3. \E w \in Rows(k) : \A id \in Rows(k) : Rank[w] =< Rank[id]
  BY <1>2
<1>4. QED
  BY <1>3 DEF Winner

\* What the tool does to a key it changes: the rows R become w, whose
\* fields are f, and a binding of one of them becomes c.
KeyMerged(k, w, R, f, c) ==
    /\ w \in R /\ R \subseteq IdsOf(k)
    /\ \A id \in R : /\ Active(id) /\ alias[id] = NoRow /\ row[id].scope # "other"
                     /\ Rank[w] =< Rank[id]
    /\ \A id \in IdsOf(k) \ R : Active(id) => row[id].scope = "other"
    /\ row'[w] # NoRow /\ row'[w].scope = "current" /\ row'[w].f = f /\ Active(w)'
    /\ \A id \in R \ {w} : row'[id] # NoRow /\ row'[id].scope = "none" /\ ~Active(id)'
    /\ \A id \in IdsOf(k) \ R : row'[id] = row[id] /\ (Active(id)' <=> Active(id))
    /\ \A id \in IdsOf(k) :
          /\ alias'[id] = IF id \in R \ {w} \/ alias[id] \in R THEN w ELSE alias[id]
          /\ id \in ships' => id = w \/ id \in ships \ R
          /\ id \in untagged' => id = w \/ id \in untagged \ R
          /\ \A b \in tagged'[id] : \/ id = w /\ \E o \in R : b \in tagged[o]
                                    \/ id \notin R /\ b \in tagged[id]
    /\ reg'[k] = reg[k] /\ (k \in astray => k \in astray')
    /\ c # NoRow /\ c.id = w
    /\ bind'[k] = IF bind[k] # NoRow /\ bind[k].id \in R THEN c ELSE bind[k]
    /\ IF bind[k] # NoRow /\ bind[k].id \in R /\ bind[k].id # w
       THEN /\ f.source = row[bind[k].id].f.source /\ f.owner = row[bind[k].id].f.owner
            /\ c.base = IF row[w].f.source = "signed_draft" /\ row[w].f.block = 0
                        THEN row[w].f ELSE bind[k].base
            /\ journal[k] = 0 => k \in drifted'
       ELSE f = row[w].f /\ (bind[k] # NoRow /\ bind[k].id \in R => c.base = bind[k].base)
    /\ journal'[k] = journal[k] /\ draft'[k] = draft[k] /\ (k \in drifted => k \in drifted')

LEMMA MergedKeySound ==
    ASSUME NEW k \in Keys, TablesTyped, KeyInv(k),
           NEW w, NEW R, NEW f, NEW c, KeyMerged(k, w, R, f, c)
    PROVE  KeyInv(k)'
<1>1. /\ w \in R /\ R \subseteq IdsOf(k)
      /\ \A id \in IdsOf(k) : id \in Ids /\ id # NoRow /\ Rank[id] \in Nat
      /\ \A a, b \in IdsOf(k) : Rank[a] = Rank[b] => a = b
  BY IdsAre, IdentityAssumption DEF KeyMerged
<1>2. /\ Claimants(k)' = (Claimants(k) \ R) \cup {w} /\ R \subseteq Claimants(k)
      /\ \A id \in Claimants(k) \ R : row'[id] = row[id] /\ row[id].scope = "other"
  BY <1>1 DEF KeyMerged, Claimants
<1>3. ASSUME draft[k] # NoRow PROVE draft[k].id = w
  <2>1. draft[k].id \in Claimants(k) \cap R
    BY <1>2, <1>3 DEF KeyInv, DraftSound
  <2>2. Rank[draft[k].id] =< Rank[w] /\ Rank[w] =< Rank[draft[k].id]
    BY <1>1, <1>2, <1>3, <2>1 DEF KeyInv, DraftSound, KeyMerged
  <2>3. QED
    BY <1>1, <2>1, <2>2
<1>4. UniqueSound(k)'
  <2>1. ASSUME NEW o \in IdsOf(k), Reserved(o)' PROVE o = w
    <3>1. CASE o \in R
      BY <2>1, <3>1 DEF KeyMerged, Reserved
    <3>2. CASE o \notin R
      <4>1. row[o] # NoRow /\ row[o].scope \in {"current", "tracker"}
        BY <2>1, <3>2 DEF KeyMerged, Reserved
      <4>2. Active(o)
        BY <4>1 DEF KeyInv, NamesSound
      <4>3. QED
        BY <3>2, <4>1, <4>2 DEF KeyMerged
    <3>3. QED
      BY <3>1, <3>2
  <2>2. ASSUME NEW b \in 1..2 PROVE AtMostOne(TaggedWith(k, b)')
    <3>1. ASSUME NEW x \in IdsOf(k), NEW y \in IdsOf(k), b \in tagged'[x], b \in tagged'[y]
          PROVE  x = y
      <4>1. (x = w /\ \E o \in R : b \in tagged[o]) \/ (x \notin R /\ b \in tagged[x])
        BY <3>1 DEF KeyMerged
      <4>2. (y = w /\ \E o \in R : b \in tagged[o]) \/ (y \notin R /\ b \in tagged[y])
        BY <3>1 DEF KeyMerged
      <4>3. \A u, v \in IdsOf(k) : b \in tagged[u] /\ b \in tagged[v] => u = v
        BY DEF KeyInv, UniqueSound, AtMostOne, TaggedWith
      <4>4. QED
        BY <1>1, <4>1, <4>2, <4>3
    <3>2. QED
      BY <3>1 DEF AtMostOne, TaggedWith
  <2>3. QED
    BY <2>1, <2>2 DEF UniqueSound, AtMostOne
<1>5. NamesSound(k)'
  <2>1. SUFFICES ASSUME NEW id \in IdsOf(k)
                 PROVE  /\ row'[id] # NoRow /\ ~Active(id)' => alias'[id] # NoRow /\ row'[id].scope = "none"
                        /\ alias'[id] # NoRow => /\ row'[id] # NoRow /\ ~Active(id)'
                                                 /\ alias'[id] \in IdsOf(k) /\ Active(alias[id])'
    BY DEF NamesSound
  <2>2. /\ Active(w)' /\ w # NoRow /\ w \in IdsOf(k)
        /\ alias'[id] = IF id \in R \ {w} \/ alias[id] \in R THEN w ELSE alias[id]
    BY <1>1 DEF KeyMerged
  <2>3. /\ row[id] # NoRow /\ ~Active(id) => alias[id] # NoRow /\ row[id].scope = "none"
        /\ alias[id] # NoRow => /\ row[id] # NoRow /\ ~Active(id)
                                /\ alias[id] \in IdsOf(k) /\ Active(alias[id])
    BY DEF KeyInv, NamesSound
  <2>4. alias'[id] = w => Active(alias[id])'
    BY <2>2 DEF Active
  <2>5. CASE id \in R \ {w}
    BY <2>2, <2>4, <2>5 DEF KeyMerged
  <2>6. CASE id = w
    <3>1. alias[id] = NoRow /\ NoRow \notin R
      BY <1>1, <2>6 DEF KeyMerged
    <3>2. QED
      BY <2>2, <2>6, <3>1
  <2>7. CASE id \notin R
    <3>1. row'[id] = row[id] /\ (Active(id)' <=> Active(id))
      BY <2>7 DEF KeyMerged
    <3>2. CASE alias[id] \in R
      BY <1>1, <2>2, <2>3, <2>4, <2>7, <3>1, <3>2
    <3>3. CASE alias[id] \notin R
      <4>1. alias'[id] = alias[id]
        BY <2>2, <2>7, <3>3
      <4>2. alias[id] # NoRow => Active(alias[id])'
        BY <2>3, <3>3, <4>1 DEF KeyMerged, Active
      <4>3. QED
        BY <2>3, <3>1, <4>1, <4>2
    <3>4. QED
      BY <3>2, <3>3
  <2>8. QED
    BY <2>5, <2>6, <2>7
<1>6. BindingSound(k)'
  <2>1. CASE bind[k] # NoRow /\ bind[k].id \in R
    <3>1. bind'[k] = c /\ c # NoRow /\ c.id = w /\ Active(w)' /\ w \in IdsOf(k)
      BY <1>1, <2>1 DEF KeyMerged
    <3>2. c.base = bind[k].base \/ (c.base = row[w].f /\ row[w].f.source = "signed_draft")
      <4>1. CASE bind[k].id # w
        <5>1. c.base = IF row[w].f.source = "signed_draft" /\ row[w].f.block = 0
                       THEN row[w].f ELSE bind[k].base
          BY <2>1, <4>1 DEF KeyMerged
        <5>2. QED
          BY <5>1
      <4>2. CASE bind[k].id = w
        BY <2>1, <4>2 DEF KeyMerged
      <4>3. QED
        BY <4>1, <4>2
    <3>3. c.base.source # "chain_event" /\ c.base.reg # "superseded"
      <4>1. row[w].f.reg # "superseded"
        BY <1>1 DEF KeyMerged, Active
      <4>2. QED
        BY <2>1, <3>2, <4>1 DEF KeyInv, BindingSound
    <3>4. c.base.source = "signed_draft" =>
             draft[k] # NoRow /\ w = draft[k].id /\ c.base.owner = draft[k].f.owner
      <4>1. CASE c.base = bind[k].base
        BY <1>3, <2>1, <4>1 DEF KeyInv, BindingSound
      <4>2. CASE c.base = row[w].f
        BY <1>1, <1>2, <4>2 DEF KeyInv, OwnersSound
      <4>3. QED
        BY <3>2, <4>1, <4>2
    <3>5. draft'[k] = draft[k]
      BY DEF KeyMerged
    <3>6. Active(bind[k].id)'
      BY <3>1 DEF Active
    <3>7. QED
      BY <3>1, <3>3, <3>4, <3>5, <3>6 DEF BindingSound
  <2>2. CASE bind[k] # NoRow /\ bind[k].id \notin R
    <3>1. bind'[k] = bind[k] /\ draft'[k] = draft[k]
      BY <2>2 DEF KeyMerged
    <3>2. Active(bind[k].id)'
      BY <2>2, <3>1 DEF KeyInv, BindingSound, KeyMerged, Active
    <3>3. QED
      BY <2>2, <3>1, <3>2 DEF KeyInv, BindingSound
  <2>3. CASE bind[k] = NoRow
    BY <2>3 DEF KeyInv, BindingSound, KeyMerged
  <2>4. QED
    BY <2>1, <2>2, <2>3
<1>7. OwnersSound(k)'
  <2>1. /\ row'[w].f = f /\ journal'[k] = journal[k] /\ draft'[k] = draft[k]
        /\ c # NoRow /\ c.id = w
        /\ bind'[k] = IF bind[k] # NoRow /\ bind[k].id \in R THEN c ELSE bind[k]
    BY DEF KeyMerged
  <2>2. CASE bind[k] # NoRow /\ bind[k].id \in R /\ bind[k].id # w
    <3>1. f.source = row[bind[k].id].f.source /\ f.owner = row[bind[k].id].f.owner
      BY <2>2 DEF KeyMerged
    <3>2. bind[k].id \in Claimants(k)
      BY <1>2, <2>2
    <3>3. f.source = "chain_event" => journal[k] # 0 /\ f.owner = Maker
      BY <3>1, <3>2 DEF KeyInv, OwnersSound
    <3>4. f.source # "signed_draft"
      BY <1>3, <2>2, <3>1, <3>2 DEF KeyInv, OwnersSound
    <3>5. \A id \in Claimants(k) \ R : row[id].f.source # "chain_event"
      BY <2>2 DEF KeyInv, OwnersSound
    <3>6. QED
      BY <1>2, <2>1, <2>2, <3>3, <3>4, <3>5 DEF KeyInv, OwnersSound
  <2>3. CASE ~(bind[k] # NoRow /\ bind[k].id \in R /\ bind[k].id # w)
    <3>1. f = row[w].f /\ w \in Claimants(k)
      BY <1>1, <1>2, <2>3 DEF KeyMerged
    <3>2. f.source = "chain_event" => bind'[k] # NoRow /\ w = bind'[k].id
      BY <1>1, <2>1, <3>1 DEF KeyInv, OwnersSound
    <3>3. \A id \in Claimants(k) \ R : row[id].f.source = "chain_event" => bind'[k] = bind[k]
      BY <2>1 DEF KeyInv, OwnersSound
    <3>4. QED
      BY <1>2, <2>1, <3>1, <3>2, <3>3 DEF KeyInv, OwnersSound
  <2>4. QED
    BY <2>2, <2>3
<1>8. DraftSound(k)'
  <2>1. draft'[k] = draft[k]
    BY DEF KeyMerged
  <2>2. SUFFICES ASSUME draft[k] # NoRow PROVE DraftSound(k)'
    BY <2>1 DEF DraftSound
  <2>3. /\ draft[k].id = w /\ w \in Claimants(k) /\ w \in Claimants(k)'
        /\ Claimants(k)' \subseteq Claimants(k)
    BY <1>1, <1>2, <1>3, <2>2
  <2>4. /\ \A id \in Claimants(k) : Rank[w] =< Rank[id]
        /\ draft[k].f.source = "signed_draft" /\ draft[k].f.block = 0
        /\ k \notin drifted =>
              /\ row[w].f # draft[k].f => bind[k] # NoRow /\ bind[k].id = w /\ journal[k] # 0
              /\ bind[k] # NoRow /\ bind[k].id = w => bind[k].base = draft[k].f
    BY <2>2, <2>3 DEF KeyInv, DraftSound
  <2>5. /\ row'[w].f = f /\ row'[w].scope = "current" /\ journal'[k] = journal[k]
        /\ c # NoRow /\ c.id = w /\ (k \in drifted => k \in drifted')
        /\ bind'[k] = IF bind[k] # NoRow /\ bind[k].id \in R THEN c ELSE bind[k]
    BY DEF KeyMerged
  <2>6. ASSUME k \notin drifted'
        PROVE  /\ f # draft[k].f => bind'[k] # NoRow /\ bind'[k].id = w /\ journal[k] # 0
               /\ bind'[k] # NoRow /\ bind'[k].id = w => bind'[k].base = draft[k].f
    <3>1. CASE bind[k] # NoRow /\ bind[k].id \in R /\ bind[k].id # w
      <4>1. /\ journal[k] # 0
            /\ c.base = IF row[w].f.source = "signed_draft" /\ row[w].f.block = 0
                        THEN row[w].f ELSE bind[k].base
        BY <2>6, <3>1 DEF KeyMerged
      <4>2. row[w].f = draft[k].f
        BY <2>4, <2>5, <2>6, <3>1
      <4>3. QED
        BY <2>4, <2>5, <3>1, <4>1, <4>2
    <3>2. CASE ~(bind[k] # NoRow /\ bind[k].id \in R /\ bind[k].id # w)
      <4>1. f = row[w].f /\ (bind[k] # NoRow /\ bind[k].id \in R => c.base = bind[k].base)
        BY <3>2 DEF KeyMerged
      <4>2. QED
        BY <1>1, <2>4, <2>5, <2>6, <3>2, <4>1
    <3>3. QED
      BY <3>1, <3>2
  <2>7. QED
    BY <2>1, <2>3, <2>4, <2>5, <2>6 DEF DraftSound
<1>9. ASSUME NEW id \in IdsOf(k), Referenced(id)' PROVE Active(id)'
  <2>1. id \notin R => Referenced(id)
    BY <1>1, <1>9 DEF KeyMerged, Referenced
  <2>2. id \in R => id = w
    BY <1>1, <1>9 DEF KeyMerged, Referenced
  <2>3. QED
    BY <1>9, <2>1, <2>2 DEF KeyInv, KeyMerged
<1>10. HistorySound(k)'
  <2>1. SUFFICES ASSUME k \notin astray', NEW id \in IdsOf(k), NEW b \in tagged'[id]
                 PROVE  b \in {reg[k], journal[k]}
    BY DEF HistorySound, KeyMerged
  <2>2. PICK o \in IdsOf(k) : b \in tagged[o]
    BY <1>1, <2>1 DEF KeyMerged
  <2>3. k \notin astray
    BY <2>1 DEF KeyMerged
  <2>4. QED
    BY <2>2, <2>3 DEF KeyInv, HistorySound
<1>11. QED
  BY <1>4, <1>5, <1>6, <1>7, <1>8, <1>9, <1>10 DEF KeyInv
LEMMA ChangesAre ==
    ASSUME NEW k \in Changes
    PROVE  /\ k \in Keys /\ Rows(k) # {} /\ Rows(k) \subseteq IdsOf(k) /\ Winner(k) \in Rows(k)
           /\ \A id \in Rows(k) : Rank[Winner(k)] =< Rank[id] /\ Active(id) /\ row[id].scope # "other"
BY WinnerIs DEF Changes, Rows

LEMMA MergedIs ==
    ASSUME NEW k \in Keys, NEW id \in IdsOf(k)
    PROVE  Merged(id) <=> k \in Changes /\ id \in Rows(k)
BY IdsAre DEF Merged

\* Where references go.
LEMMA MovedIs ==
    ASSUME NEW S \in SUBSET Ids
    PROVE  /\ Moved(S) \subseteq Ids
           /\ \A k \in Keys : \A id \in IdsOf(k) :
                 id \in Moved(S) <=> IF k \in Changes
                                     THEN \/ id = Winner(k) /\ Rows(k) \cap S # {}
                                          \/ id \in S \ Rows(k)
                                     ELSE id \in S
<1> DEFINE At(s) == IF Merged(s) THEN Winner(KeyOf[s]) ELSE s
<1>1. Moved(S) = {At(s) : s \in S}
  BY DEF Moved
<1>2. ASSUME NEW k \in Keys, NEW s \in IdsOf(k)
      PROVE  /\ At(s) \in IdsOf(k)
             /\ At(s) = IF k \in Changes /\ s \in Rows(k) THEN Winner(k) ELSE s
  <2>1. KeyOf[s] = k /\ (Merged(s) <=> k \in Changes /\ s \in Rows(k))
    BY IdsAre, MergedIs
  <2>2. k \in Changes => Winner(k) \in IdsOf(k)
    BY ChangesAre
  <2>3. QED
    BY <2>1, <2>2
<1> HIDE DEF At
<1>3. \A s \in Ids : KeyOf[s] \in Keys /\ s \in IdsOf(KeyOf[s]) /\ At(s) \in IdsOf(KeyOf[s])
  BY <1>2, IdsAre
<1>4. \A k \in Keys : \A id \in IdsOf(k) : id \in Ids /\ KeyOf[id] = k
  BY IdsAre
<1>5. ASSUME NEW k \in Keys, NEW id \in IdsOf(k)
      PROVE  id \in Moved(S) <=> \E s \in S \cap IdsOf(k) : id = At(s)
  BY <1>1, <1>3, <1>4
<1>6. ASSUME NEW k \in Keys, NEW id \in IdsOf(k), k \notin Changes
      PROVE  id \in Moved(S) <=> id \in S
  BY <1>2, <1>5, <1>6
<1>7. ASSUME NEW k \in Keys, NEW id \in IdsOf(k), k \in Changes
      PROVE  id \in Moved(S) <=> \/ id = Winner(k) /\ Rows(k) \cap S # {}
                                 \/ id \in S \ Rows(k)
  <2>1. Rows(k) \subseteq IdsOf(k)
    BY <1>7, ChangesAre
  <2>2. \A s \in IdsOf(k) : At(s) = IF s \in Rows(k) THEN Winner(k) ELSE s
    BY <1>2, <1>7
  <2>3. QED
    BY <1>5, <2>1, <2>2
<1>8. Moved(S) \subseteq Ids
  BY <1>1, <1>3, <1>4
<1>9. QED
  BY <1>6, <1>7, <1>8

\* A key the tool leaves alone.
LEMMA UnchangedKeeps ==
    ASSUME IdentityIInv, reconcile_identity, NEW k \in Keys, k \notin Changes
    PROVE  /\ KeyInv(k)' /\ bind'[k] = bind[k]
           /\ \A id \in IdsOf(k) : row'[id] = row[id] /\ alias'[id] = alias[id]
<1>1. /\ row' = [id \in Ids |->
                   IF ~Merged(id) THEN row[id]
                   ELSE IF id = Winner(KeyOf[id])
                        THEN [scope |-> "current", f |-> WinnerFields(KeyOf[id])]
                        ELSE Archived(row[id])]
      /\ alias' = [id \in Ids |-> AliasFor(id)]
      /\ bind' = [j \in Keys |->
                   IF j \in Changes /\ Binding(j) # NoRow
                   THEN [id |-> Winner(j), base |-> MergedBaseline(j)] ELSE bind[j]]
      /\ ships' = Moved(ships) /\ untagged' = Moved(untagged)
      /\ tagged' = [id \in Ids |-> MovedHistory(id)]
      /\ drifted \subseteq drifted' /\ UNCHANGED <<foreign, reg, journal, draft, astray, edits, forks>>
  BY DEF reconcile_identity
<1>2. KeyInv(k) /\ TablesTyped
  BY DEF IdentityIInv
<1>3. ASSUME NEW id \in IdsOf(k) PROVE row'[id] = row[id] /\ alias'[id] = alias[id]
  <2>1. id \in Ids /\ ~Merged(id)
    BY MergedIs, IdsAre
  <2>2. alias[id] # NoRow => ~Merged(alias[id])
    BY <1>2, MergedIs DEF KeyInv, NamesSound
  <2>3. QED
    BY <1>1, <2>1, <2>2 DEF AliasFor
<1>4. bind'[k] = bind[k]
  BY <1>1
<1>5. \A id \in IdsOf(k) : /\ id \in ships' <=> id \in ships
                           /\ tagged'[id] = tagged[id]
                           /\ id \in untagged' <=> id \in untagged
  <2>1. \A id \in IdsOf(k) : id \in Ids /\ ~Merged(id)
    BY MergedIs, IdsAre
  <2>2. \A id \in IdsOf(k) : tagged'[id] = tagged[id]
    BY <1>1, <2>1 DEF MovedHistory
  <2>3. QED
    BY <1>1, <1>2, <2>2, MovedIs DEF TablesTyped
<1>6. KeyInv(k)'
  BY <1>1, <1>2, <1>3, <1>4, <1>5, KeyKeeps
<1>7. QED
  BY <1>3, <1>4, <1>6
\* The fields of the surviving row and the baseline of its binding.
LEMMA FieldsTaken ==
    ASSUME TablesTyped, NEW k \in Changes
    PROVE  /\ WinnerFields(k) \in Fields /\ WinnerFields(k).reg # "superseded"
           /\ Binding(k) # NoRow <=> bind[k] # NoRow /\ bind[k].id \in Rows(k)
           /\ Binding(k) # NoRow => Binding(k) = bind[k] /\ MergedBaseline(k) \in Fields
           /\ SourceMoved(k) <=> bind[k] # NoRow /\ bind[k].id \in Rows(k) /\ bind[k].id # Winner(k)
           /\ ~SourceMoved(k) =>
                 WinnerFields(k) = row[Winner(k)].f /\ MergedBaseline(k) = Binding(k).base
           /\ SourceMoved(k) =>
                 /\ WinnerFields(k).source = row[bind[k].id].f.source
                 /\ WinnerFields(k).owner = row[bind[k].id].f.owner
                 /\ WinnerFields(k).maker = row[bind[k].id].f.maker
                 /\ WinnerFields(k).name = row[bind[k].id].f.name
                 /\ WinnerFields(k).block = row[bind[k].id].f.block
                 /\ MergedBaseline(k) =
                       IF row[Winner(k)].f.source = "signed_draft" /\ row[Winner(k)].f.block = 0
                       THEN row[Winner(k)].f ELSE bind[k].base
<1>1. k \in Keys /\ Rows(k) \subseteq IdsOf(k) /\ Winner(k) \in Rows(k)
  BY ChangesAre
<1>2. \A id \in Rows(k) : row[id].f \in Fields /\ row[id].f.reg # "superseded"
  BY <1>1, IdsAre, RowsAre DEF Rows, Active
<1>3. /\ Binding(k) # NoRow <=> bind[k] # NoRow /\ bind[k].id \in Rows(k)
      /\ Binding(k) # NoRow => Binding(k) = bind[k] /\ bind[k].base \in Fields
  BY <1>1, BindingsAre DEF Binding
<1>4. SourceMoved(k) <=> bind[k] # NoRow /\ bind[k].id \in Rows(k) /\ bind[k].id # Winner(k)
  BY <1>3 DEF SourceMoved
<1>5. CASE ~SourceMoved(k)
  <2>1. WinnerFields(k) = row[Winner(k)].f /\ MergedBaseline(k) = Binding(k).base
    BY <1>5 DEF WinnerFields, MergedBaseline
  <2>2. QED
    BY <1>1, <1>2, <1>3, <1>4, <1>5, <2>1
<1>6. CASE SourceMoved(k)
  <2>1. Binding(k) = bind[k] /\ bind[k].id \in Rows(k)
    BY <1>3, <1>4, <1>6
  <2>2. PICK g \in Fields : g = row[bind[k].id].f
    BY <1>2, <2>1
  <2>3. WinnerFields(k) = [g EXCEPT !.reg = IF @ = "indexed" THEN @ ELSE "unregistered"]
    BY <1>6, <2>1, <2>2 DEF WinnerFields
  <2>4. /\ WinnerFields(k) \in Fields /\ WinnerFields(k).reg # "superseded"
        /\ WinnerFields(k).source = g.source /\ WinnerFields(k).owner = g.owner
        /\ WinnerFields(k).maker = g.maker /\ WinnerFields(k).name = g.name
        /\ WinnerFields(k).block = g.block
    BY <2>3 DEF Fields
  <2>5. MergedBaseline(k) = IF row[Winner(k)].f.source = "signed_draft" /\ row[Winner(k)].f.block = 0
                            THEN row[Winner(k)].f ELSE bind[k].base
    BY <1>6, <2>1 DEF MergedBaseline
  <2>6. MergedBaseline(k) \in Fields
    BY <1>1, <1>2, <1>3, <2>1, <1>4, <1>6, <2>5
  <2>7. QED
    BY <1>3, <1>4, <1>6, <2>2, <2>4, <2>5, <2>6
<1>7. QED
  BY <1>5, <1>6

LEMMA ArchivedIs ==
    ASSUME NEW r \in Row
    PROVE  Archived(r) \in Row /\ Archived(r).scope = "none" /\ Archived(r).f.reg = "superseded"
BY DEF Archived, Row, Fields, Scopes

\* No key conflicts, so no row of a changed key has an alias.
LEMMA MergeableIs ==
    ASSUME NEW k \in Keys, ~Conflicting(k)
    PROVE  \A id \in Rows(k) : /\ row[id].scope # "tracker" /\ id \notin foreign /\ alias[id] = NoRow
                               /\ IF Evidence(k) THEN Agrees(row[id].f, k) ELSE ClaimsNothing(row[id].f)
BY DEF Conflicting

LEMMA ChangedKeyMerged ==
    ASSUME IdentityIInv, reconcile_identity, NEW k \in Changes
    PROVE  \E c \in Claim : KeyMerged(k, Winner(k), Rows(k), WinnerFields(k), c)
<1>1. PICK w, R, f : w = Winner(k) /\ R = Rows(k) /\ f = WinnerFields(k)
  OBVIOUS
<1>2. PICK c : c = [id |-> w, base |-> IF Binding(k) # NoRow THEN MergedBaseline(k) ELSE Placeholder]
  OBVIOUS
<1>3. /\ k \in Keys /\ TablesTyped /\ KeyInv(k) /\ ~Conflicting(k)
      /\ \A id \in IdsOf(k) : id \in Ids /\ KeyOf[id] = k
  BY ChangesAre, IdsAre DEF IdentityIInv, reconcile_identity, Conflicts
<1>4. /\ w \in R /\ R \subseteq IdsOf(k)
      /\ \A id \in R : /\ Active(id) /\ alias[id] = NoRow /\ row[id].scope # "other" /\ Rank[w] =< Rank[id]
                       /\ row[id] # NoRow /\ row[id] \in Row
      /\ \A id \in IdsOf(k) \ R : Active(id) => row[id].scope = "other"
  BY <1>1, <1>3, ChangesAre, MergeableIs, RowsAre DEF Rows, Active
<1>5. /\ f \in Fields /\ f.reg # "superseded"
      /\ Binding(k) # NoRow <=> bind[k] # NoRow /\ bind[k].id \in R
      /\ Binding(k) # NoRow => Binding(k) = bind[k] /\ MergedBaseline(k) \in Fields
      /\ SourceMoved(k) <=> bind[k] # NoRow /\ bind[k].id \in R /\ bind[k].id # w
      /\ ~SourceMoved(k) => f = row[w].f /\ MergedBaseline(k) = Binding(k).base
      /\ SourceMoved(k) => /\ f.source = row[bind[k].id].f.source /\ f.owner = row[bind[k].id].f.owner
                           /\ MergedBaseline(k) = IF row[w].f.source = "signed_draft" /\ row[w].f.block = 0
                                                  THEN row[w].f ELSE bind[k].base
  BY <1>1, <1>3, FieldsTaken
<1>6. c \in Claim /\ c # NoRow /\ c.id = w /\ (Binding(k) # NoRow => c.base = MergedBaseline(k))
  <2>1. c.id = w /\ c.base = IF Binding(k) # NoRow THEN MergedBaseline(k) ELSE Placeholder
    BY <1>2
  <2>2. c \in Claim
    BY <1>2, <1>3, <1>4, <1>5, FieldsAre DEF Claim
  <2>3. QED
    BY <2>1, <2>2, NoRowAssumption
<1>7. /\ row' = [id \in Ids |->
                   IF ~Merged(id) THEN row[id]
                   ELSE IF id = Winner(KeyOf[id])
                        THEN [scope |-> "current", f |-> WinnerFields(KeyOf[id])]
                        ELSE Archived(row[id])]
      /\ alias' = [id \in Ids |-> AliasFor(id)]
      /\ bind' = [j \in Keys |->
                   IF j \in Changes /\ Binding(j) # NoRow
                   THEN [id |-> Winner(j), base |-> MergedBaseline(j)] ELSE bind[j]]
      /\ ships' = Moved(ships) /\ untagged' = Moved(untagged)
      /\ tagged' = [id \in Ids |-> MovedHistory(id)]
      /\ drifted' = drifted \cup {j \in Changes : SourceMoved(j) /\ journal[j] = 0}
      /\ UNCHANGED <<foreign, reg, journal, draft, astray, edits, forks>>
  BY DEF reconcile_identity
<1>8. \A id \in IdsOf(k) : Merged(id) <=> id \in R
  BY <1>1, <1>3, MergedIs
<1>9. row'[w] # NoRow /\ row'[w].scope = "current" /\ row'[w].f = f /\ Active(w)'
  <2>1. row'[w] = [scope |-> "current", f |-> f]
    BY <1>1, <1>3, <1>4, <1>7, <1>8
  <2>2. row'[w] \in Row /\ row'[w].scope = "current" /\ row'[w].f = f
    BY <1>5, <2>1 DEF Row, Scopes
  <2>3. QED
    BY <1>5, <2>2, NoRowAssumption DEF Active
<1>10. \A id \in R \ {w} : row'[id] # NoRow /\ row'[id].scope = "none" /\ ~Active(id)'
  <2>1. ASSUME NEW id \in R \ {w} PROVE row'[id] = Archived(row[id]) /\ row[id] \in Row
    BY <1>1, <1>3, <1>4, <1>7, <1>8
  <2>2. QED
    BY <2>1, ArchivedIs, NoRowAssumption DEF Active
<1>11. \A id \in IdsOf(k) \ R : row'[id] = row[id] /\ (Active(id)' <=> Active(id))
  BY <1>3, <1>7, <1>8 DEF Active
<1>12. ASSUME NEW id \in IdsOf(k)
       PROVE  /\ alias'[id] = IF id \in R \ {w} \/ alias[id] \in R THEN w ELSE alias[id]
              /\ id \in ships' => id = w \/ id \in ships \ R
              /\ id \in untagged' => id = w \/ id \in untagged \ R
              /\ \A b \in tagged'[id] : \/ id = w /\ \E o \in R : b \in tagged[o]
                                        \/ id \notin R /\ b \in tagged[id]
  <2>1. alias'[id] = IF id \in R \ {w} \/ alias[id] \in R THEN w ELSE alias[id]
    <3>1. alias'[id] = AliasFor(id) /\ Winner(KeyOf[id]) = w
      BY <1>1, <1>3, <1>7
    <3>2. Merged(id) <=> id \in R
      BY <1>8
    <3>3. alias[id] # NoRow /\ Merged(alias[id]) <=> alias[id] \in R
      <4>1. alias[id] # NoRow => alias[id] \in IdsOf(k)
        BY <1>3 DEF KeyInv, NamesSound
      <4>2. NoRow \notin R
        BY <1>3, <1>4, IdsAre
      <4>3. QED
        BY <1>8, <4>1, <4>2
    <3>4. QED
      BY <3>1, <3>2, <3>3 DEF AliasFor
  <2>2. \A S \in SUBSET Ids : id \in Moved(S) => id \in S \ R \/ (id = w /\ R \cap S # {})
    BY <1>1, <1>3, MovedIs
  <2>3. tagged'[id] = IF id \notin R THEN tagged[id]
                      ELSE IF id = w THEN UNION {tagged[o] : o \in R} ELSE {}
    BY <1>1, <1>3, <1>7, <1>8 DEF MovedHistory
  <2>4. QED
    BY <1>3, <1>7, <2>1, <2>2, <2>3 DEF TablesTyped
<1>13. bind'[k] = IF bind[k] # NoRow /\ bind[k].id \in R THEN c ELSE bind[k]
  <2>1. Binding(k) # NoRow => c = [id |-> Winner(k), base |-> MergedBaseline(k)]
    BY <1>1, <1>2
  <2>2. bind'[k] = IF Binding(k) # NoRow THEN [id |-> Winner(k), base |-> MergedBaseline(k)] ELSE bind[k]
    BY <1>3, <1>7
  <2>3. QED
    BY <1>5, <2>1, <2>2
<1>14. IF bind[k] # NoRow /\ bind[k].id \in R /\ bind[k].id # w
       THEN /\ f.source = row[bind[k].id].f.source /\ f.owner = row[bind[k].id].f.owner
            /\ c.base = IF row[w].f.source = "signed_draft" /\ row[w].f.block = 0
                        THEN row[w].f ELSE bind[k].base
            /\ journal[k] = 0 => k \in drifted'
       ELSE f = row[w].f /\ (bind[k] # NoRow /\ bind[k].id \in R => c.base = bind[k].base)
  <2>1. CASE SourceMoved(k)
    <3>1. journal[k] = 0 => k \in drifted'
      BY <1>7, <2>1
    <3>2. QED
      BY <1>5, <1>6, <2>1, <3>1
  <2>2. CASE ~SourceMoved(k)
    BY <1>5, <1>6, <2>2
  <2>3. QED
    BY <2>1, <2>2
<1>15. /\ journal'[k] = journal[k] /\ draft'[k] = draft[k] /\ (k \in drifted => k \in drifted')
       /\ reg'[k] = reg[k] /\ (k \in astray => k \in astray')
  BY <1>7
<1>16. KeyMerged(k, w, R, f, c)
  BY <1>4, <1>6, <1>9, <1>10, <1>11, <1>12, <1>13, <1>14, <1>15 DEF KeyMerged
<1>17. QED
  BY <1>1, <1>6, <1>16
LEMMA ReconcileKeeps ==
    ASSUME IdentityIInv, reconcile_identity
    PROVE  IdentityIInv'
<1>1. TablesTyped
  BY DEF IdentityIInv
<1>2. row' \in [Ids -> Row \cup {NoRow}]
  <2>1. ASSUME NEW id \in Ids, Merged(id)
        PROVE  /\ [scope |-> "current", f |-> WinnerFields(KeyOf[id])] \in Row
               /\ Archived(row[id]) \in Row
    <3>1. KeyOf[id] \in Changes /\ row[id] # NoRow
      BY <2>1 DEF Merged, Rows, Active
    <3>2. QED
      BY <1>1, <3>1, FieldsTaken, RowsAre, ArchivedIs DEF Row, Scopes
  <2>2. \A id \in Ids : row[id] \in Row \cup {NoRow}
    BY <1>1 DEF TablesTyped
  <2>3. QED
    BY <2>1, <2>2 DEF reconcile_identity
<1>3. alias' \in [Ids -> Ids \cup {NoRow}]
  <2>1. ASSUME NEW id \in Ids PROVE AliasFor(id) \in Ids \cup {NoRow}
    <3>1. alias[id] \in Ids \cup {NoRow} /\ (alias[id] # NoRow => KeyOf[alias[id]] = KeyOf[id])
      BY <1>1, IdsAre DEF IdentityIInv, KeyInv, NamesSound, TablesTyped
    <3>2. KeyOf[id] \in Changes => Winner(KeyOf[id]) \in Ids
      BY ChangesAre, IdsAre
    <3>3. QED
      BY <3>1, <3>2 DEF AliasFor, Merged
  <2>2. QED
    BY <2>1 DEF reconcile_identity
<1>4. bind' \in [Keys -> Claim \cup {NoRow}]
  <2>1. ASSUME NEW k \in Changes, Binding(k) # NoRow
        PROVE  [id |-> Winner(k), base |-> MergedBaseline(k)] \in Claim
    BY <1>1, <2>1, ChangesAre, FieldsTaken, IdsAre DEF Claim
  <2>2. \A k \in Keys : bind[k] \in Claim \cup {NoRow}
    BY <1>1 DEF TablesTyped
  <2>3. QED
    BY <2>1, <2>2 DEF reconcile_identity
<1>5. ships' \subseteq Ids /\ untagged' \subseteq Ids /\ tagged' \in [Ids -> SUBSET (1..2)]
  <2>1. ASSUME NEW id \in Ids PROVE MovedHistory(id) \in SUBSET (1..2)
    <3>1. \A o \in Ids : tagged[o] \in SUBSET (1..2)
      BY <1>1 DEF TablesTyped
    <3>2. \A o \in Rows(KeyOf[id]) : tagged[o] \in SUBSET (1..2)
      BY <3>1, IdsAre DEF Rows, IdsOf
    <3>3. QED
      BY <3>1, <3>2 DEF MovedHistory
  <2>2. QED
    BY <1>1, <2>1, MovedIs DEF TablesTyped, reconcile_identity
<1>6. drifted' \subseteq Keys /\ UNCHANGED <<foreign, reg, journal, draft, astray>>
  BY <1>1 DEF TablesTyped, reconcile_identity, Changes
<1>7. TablesTyped'
  BY <1>1, <1>2, <1>3, <1>4, <1>5, <1>6 DEF TablesTyped
<1>8. ASSUME NEW k \in Keys PROVE KeyInv(k)'
  <2>1. CASE k \in Changes
    BY <2>1, ChangedKeyMerged, MergedKeySound DEF IdentityIInv
  <2>2. CASE k \notin Changes
    BY <2>2, UnchangedKeeps
  <2>3. QED
    BY <2>1, <2>2
<1>9. QED
  BY <1>7, <1>8 DEF IdentityIInv

----------------------------------------------------------------------------
(* Old databases.                                                          *)

\* Every kind of row that earlier releases left.
LEMMA OldRows ==
    /\ OldRow("none") = NoRow
    /\ \A kind \in Kinds \ {"none"} :
          LET r == OldRow(kind) IN
          /\ r \in Row /\ r # NoRow /\ r.f.reg # "superseded" /\ r.scope \in Scopes
          /\ r.scope = "other" => kind = "other"
          /\ r.scope = "current" => kind = "reserved"
          /\ r.scope = "tracker" => kind = "tracker"
          /\ r.f.source = "chain_event" <=> kind = "indexed"
          /\ r.f.source = "signed_draft" <=> kind \in SignedKinds
          /\ kind = "indexed" => r.f.owner = Maker
          /\ kind \in SignedKinds => r.f.block = 0
<1>1. OldRow("none") = NoRow
  BY DEF OldRow
<1> SUFFICES ASSUME NEW kind \in Kinds \ {"none"}
             PROVE  LET r == OldRow(kind) IN
                    /\ r \in Row /\ r # NoRow /\ r.f.reg # "superseded" /\ r.scope \in Scopes
                    /\ r.scope = "other" => kind = "other"
                    /\ r.scope = "current" => kind = "reserved"
                    /\ r.scope = "tracker" => kind = "tracker"
                    /\ r.f.source = "chain_event" <=> kind = "indexed"
                    /\ r.f.source = "signed_draft" <=> kind \in SignedKinds
                    /\ kind = "indexed" => r.f.owner = Maker
                    /\ kind \in SignedKinds => r.f.block = 0
  BY <1>1
<1>2. /\ \A w \in Wallets : /\ Draft(w, NoText) \in Fields /\ Draft(w, NoText).source = "signed_draft"
                            /\ Draft(w, NoText).block = 0 /\ Draft(w, NoText).reg = "draft"
      /\ \A name \in Names, b \in Nat : /\ Legacy(name, b) \in Fields /\ Legacy(name, b).source = "none"
                                        /\ Legacy(name, b).reg = "legacy_unreconciled"
      /\ Maker \in Wallets /\ Stranger \in Wallets /\ Name \in Names /\ OtherName \in Names
  BY IdentityAssumption DEF Draft, Legacy, Fields
<1>3. PICK scope \in Scopes, f \in Fields : OldRow(kind) = [scope |-> scope, f |-> f]
  BY <1>2, FieldsAre DEF OldRow, Kinds, Scopes
<1>4. OldRow(kind) \in Row /\ OldRow(kind) # NoRow
  BY <1>3, NoRowAssumption DEF Row
<1>5. QED
  BY <1>2, <1>4, FieldsAre DEF OldRow, Kinds, SignedKinds, Row
LEMMA InitSound == Init => IdentityIInv
<1> SUFFICES ASSUME Init PROVE IdentityIInv
  OBVIOUS
<1>1. PICK kind \in [Ids -> UNION {Past[id] : id \in Ids}] :
        /\ \A id \in Ids : kind[id] \in Past[id]
        /\ \A k \in Keys : AtMostOne({id \in IdsOf(k) : kind[id] \in {"reserved", "tracker"}})
        /\ reg \in [Keys -> 0..1]
        /\ row = [id \in Ids |-> OldRow(kind[id])]
        /\ alias = [id \in Ids |-> NoRow]
        /\ foreign = {id \in Ids : kind[id] = "foreign"}
        /\ bind = [k \in Keys |-> IF kind[Hex[k]] \in {"indexed", "orphaned"}
                                  THEN [id |-> Hex[k], base |-> Placeholder] ELSE NoRow]
        /\ journal = [k \in Keys |-> IF kind[Hex[k]] = "indexed" THEN 1 ELSE 0]
        /\ tagged = [id \in Ids |-> IF kind[id] = "indexed" THEN {1} ELSE {}]
        /\ untagged \in SUBSET {id \in Ids : kind[id] \in {"legacy", "claim"}}
        /\ ships \in SUBSET {id \in Ids : kind[id] \notin {"none", "stranger"}}
        /\ draft = [k \in Keys |->
                      IF \E id \in IdsOf(k) : kind[id] \in SignedKinds
                      THEN LET id == CHOOSE id \in IdsOf(k) : kind[id] \in SignedKinds
                           IN [id |-> id, f |-> row[id].f]
                      ELSE NoRow]
        /\ drifted = {} /\ astray = {}
  BY DEF Init
<1>2. ASSUME NEW id \in Ids
      PROVE  /\ kind[id] \in Kinds /\ kind[id] \in Past[id] /\ row[id] = OldRow(kind[id])
             /\ row[id] \in Row \cup {NoRow}
             /\ row[id] = NoRow <=> kind[id] = "none"
             /\ Active(id) <=> kind[id] # "none"
             /\ kind[id] # "none" =>
                   /\ row[id].scope = "other" => kind[id] = "other"
                   /\ Reserved(id) => kind[id] \in {"reserved", "tracker"}
                   /\ row[id].f.source = "chain_event" <=> kind[id] = "indexed"
                   /\ row[id].f.source = "signed_draft" <=> kind[id] \in SignedKinds
                   /\ kind[id] = "indexed" => row[id].f.owner = Maker /\ id = Hex[KeyOf[id]]
                   /\ kind[id] \in SignedKinds => row[id].f.block = 0 /\ row[id].f \in Fields
  <2>1. kind[id] \in Kinds /\ kind[id] \in Past[id] /\ row[id] = OldRow(kind[id])
    BY <1>1, PastAssumption
  <2>2. CASE kind[id] = "none"
    BY <2>1, <2>2, OldRows DEF Active
  <2>3. CASE kind[id] # "none"
    <3>1. kind[id] = "indexed" => id = Hex[KeyOf[id]]
      BY <2>1, PastAssumption
    <3>2. kind[id] \in Kinds \ {"none"}
      BY <2>1, <2>3
    <3>3. PICK r : r = row[id]
      OBVIOUS
    <3>4. /\ r \in Row /\ r # NoRow /\ r.f.reg # "superseded"
          /\ r.scope = "other" => kind[id] = "other"
          /\ r.scope = "current" => kind[id] = "reserved"
          /\ r.scope = "tracker" => kind[id] = "tracker"
          /\ r.f.source = "chain_event" <=> kind[id] = "indexed"
          /\ r.f.source = "signed_draft" <=> kind[id] \in SignedKinds
          /\ kind[id] = "indexed" => r.f.owner = Maker
          /\ kind[id] \in SignedKinds => r.f.block = 0
      BY <2>1, <3>2, <3>3, OldRows
    <3>5. r.f \in Fields
      BY <3>4 DEF Row
    <3>6. QED
      BY <2>1, <2>3, <3>1, <3>3, <3>4, <3>5 DEF Active, Reserved
  <2>4. QED
    BY <2>2, <2>3
<1>3. \* Only the preferred public ID of a key was signed for.
      \A a, b \in Ids : KeyOf[a] = KeyOf[b] =>
         /\ kind[a] \in SignedKinds /\ kind[b] # "none" => Rank[a] =< Rank[b]
         /\ kind[a] \in SignedKinds /\ kind[b] \in SignedKinds => a = b
  <2>1. ASSUME NEW a \in Ids, NEW b \in Ids, KeyOf[a] = KeyOf[b]
        PROVE  kind[a] \in SignedKinds /\ kind[b] # "none" => Rank[a] =< Rank[b]
    <3>1. kind[a] \in Past[a] /\ kind[b] \in Past[b]
      BY <1>1
    <3>2. kind[b] # "none" => Past[b] # {"none"}
      BY <3>1
    <3>3. QED
      BY <2>1, <3>1, <3>2, PastAssumption
  <2>2. \A a \in Ids : kind[a] \in SignedKinds => kind[a] # "none"
    BY DEF SignedKinds
  <2>3. \A a, b \in Ids : Rank[a] =< Rank[b] /\ Rank[b] =< Rank[a] => a = b
    BY IdentityAssumption, SMTT(30)
  <2>4. QED
    BY <2>1, <2>2, <2>3
<1>4. ASSUME NEW k \in Keys, NEW d \in IdsOf(k), kind[d] \in SignedKinds
      PROVE  draft[k] = [id |-> d, f |-> row[d].f]
  <2>1. PICK e : e = CHOOSE id \in IdsOf(k) : kind[id] \in SignedKinds
    OBVIOUS
  <2>2. e \in IdsOf(k) /\ kind[e] \in SignedKinds
    BY <1>4, <2>1
  <2>3. e = d
    BY <1>3, <1>4, <2>2, IdsAre
  <2>4. draft[k] = [id |-> e, f |-> row[e].f]
    BY <1>1, <1>4, <2>1
  <2>5. QED
    BY <2>3, <2>4
<1>5. ASSUME NEW k \in Keys
      PROVE  /\ draft[k] \in Signed \cup {NoRow}
             /\ draft[k] # NoRow => \E d \in IdsOf(k) : /\ kind[d] \in SignedKinds /\ draft[k].id = d
                                                        /\ draft[k].f = row[d].f
             /\ \A d \in IdsOf(k) : kind[d] \in SignedKinds =>
                   draft[k] # NoRow /\ draft[k].id = d /\ draft[k].f = row[d].f
  <2>1. CASE \E d \in IdsOf(k) : kind[d] \in SignedKinds
    <3>1. PICK d \in IdsOf(k) : kind[d] \in SignedKinds
      BY <2>1
    <3>2. draft[k] = [id |-> d, f |-> row[d].f] /\ d \in Ids
      BY <1>4, <3>1, IdsAre
    <3>3. draft[k] \in Signed
      BY <1>2, <3>1, <3>2 DEF Signed, SignedKinds
    <3>4. \A e \in IdsOf(k) : kind[e] \in SignedKinds => e = d
      BY <1>3, <3>1, IdsAre
    <3>5. QED
      BY <3>1, <3>2, <3>3, <3>4, NoRowAssumption
  <2>2. CASE ~ \E d \in IdsOf(k) : kind[d] \in SignedKinds
    BY <1>1, <2>2
  <2>3. QED
    BY <2>1, <2>2
<1>6. ASSUME NEW k \in Keys
      PROVE  /\ bind[k] \in Claim \cup {NoRow} /\ journal[k] \in 0..2
             /\ journal[k] = IF kind[Hex[k]] = "indexed" THEN 1 ELSE 0
             /\ bind[k] # NoRow <=> kind[Hex[k]] \in {"indexed", "orphaned"}
             /\ bind[k] # NoRow => bind[k].id = Hex[k] /\ bind[k].base = Placeholder
  <2>1. [id |-> Hex[k], base |-> Placeholder] \in Claim
    BY IdsAre, FieldsAre DEF Claim
  <2>2. QED
    BY <1>1, <2>1, NoRowAssumption
<1>7. TablesTyped
  <2>1. /\ row \in [Ids -> Row \cup {NoRow}] /\ alias \in [Ids -> Ids \cup {NoRow}]
        /\ bind \in [Keys -> Claim \cup {NoRow}] /\ draft \in [Keys -> Signed \cup {NoRow}]
    BY <1>1, <1>2, <1>5, <1>6
  <2>2. reg \in [Keys -> 0..2] /\ journal \in [Keys -> 0..2]
    BY <1>1
  <2>3. QED
    BY <1>1, <2>1, <2>2 DEF TablesTyped
<1>8. ASSUME NEW k \in Keys PROVE KeyInv(k)
  <2>1. /\ \A id \in IdsOf(k) : id \in Ids /\ KeyOf[id] = k /\ alias[id] = NoRow
        /\ Hex[k] \in IdsOf(k)
    BY <1>1, IdsAre
  <2>2. UniqueSound(k)
    <3>1. \A a, b \in IdsOf(k) : Reserved(a) /\ Reserved(b) => a = b
      BY <1>1, <1>2, <2>1 DEF AtMostOne, Reserved
    <3>2. \A b \in 1..2 : \A a \in TaggedWith(k, b) : a = Hex[k]
      BY <1>1, <1>2, <2>1 DEF TaggedWith
    <3>3. QED
      BY <3>1, <3>2 DEF UniqueSound, AtMostOne
  <2>3. NamesSound(k)
    BY <1>2, <2>1 DEF NamesSound
  <2>4. BindingSound(k)
    BY <1>2, <1>6, <2>1, FieldsAre DEF BindingSound
  <2>5. OwnersSound(k)
    <3>1. SUFFICES ASSUME NEW id \in IdsOf(k), kind[id] # "none"
                   PROVE  /\ row[id].f.source = "chain_event" =>
                                /\ bind[k] # NoRow /\ id = bind[k].id
                                /\ journal[k] # 0 /\ row[id].f.owner = Maker
                          /\ row[id].f.source = "signed_draft" =>
                                /\ draft[k] # NoRow /\ id = draft[k].id
                                /\ row[id].f.owner = draft[k].f.owner
      BY <1>2, <2>1 DEF OwnersSound, Claimants
    <3>2. kind[id] = "indexed" => id = Hex[k] /\ row[id].f.owner = Maker
      BY <1>2, <2>1, <3>1
    <3>3. QED
      BY <1>2, <1>5, <1>6, <2>1, <3>1, <3>2
  <2>6. DraftSound(k)
    <3>1. SUFFICES ASSUME draft[k] # NoRow PROVE DraftSound(k)
      BY DEF DraftSound
    <3>2. PICK d \in IdsOf(k) : kind[d] \in SignedKinds /\ draft[k].id = d /\ draft[k].f = row[d].f
      BY <1>5, <3>1
    <3>3. d \in Claimants(k) /\ row[d].scope # "other" /\ row[d].f.source = "signed_draft" /\ row[d].f.block = 0
      BY <1>2, <2>1, <3>2 DEF Claimants, SignedKinds
    <3>4. \A id \in Claimants(k) : Rank[d] =< Rank[id]
      BY <1>2, <1>3, <2>1, <3>2 DEF Claimants
    <3>5. bind[k] # NoRow => bind[k].id # d
      BY <1>6, <3>2 DEF SignedKinds
    <3>6. QED
      BY <3>2, <3>3, <3>4, <3>5 DEF DraftSound
  <2>7. \A id \in IdsOf(k) : Referenced(id) => Active(id)
    BY <1>1, <1>2, <2>1 DEF Referenced
  <2>8. HistorySound(k)
    <3>1. \A id \in IdsOf(k) : tagged[id] # {} => tagged[id] = {1} /\ kind[Hex[k]] = "indexed"
      BY <1>1, <1>2, <2>1
    <3>2. QED
      BY <1>6, <3>1 DEF HistorySound
  <2>9. QED
    BY <2>2, <2>3, <2>4, <2>5, <2>6, <2>7, <2>8 DEF KeyInv
<1>9. QED
  BY <1>7, <1>8 DEF IdentityIInv

LEMMA StutterKeeps ==
    ASSUME IdentityIInv, UNCHANGED vars
    PROVE  IdentityIInv'
<1>1. TablesTyped'
  BY DEF IdentityIInv, TablesTyped, vars
<1>2. ASSUME NEW k \in Keys PROVE KeyInv(k)'
  BY KeyKeeps DEF IdentityIInv, vars
<1>3. QED
  BY <1>1, <1>2 DEF IdentityIInv

LEMMA StepKeeps == IdentityIInv /\ [Next]_vars => IdentityIInv'
<1> SUFFICES ASSUME IdentityIInv, [Next]_vars PROVE IdentityIInv'
  OBVIOUS
<1>1. CASE reconcile_identity
  BY <1>1, ReconcileKeeps
<1>2. CASE reconcile_history
  BY <1>2, HistoryKeeps
<1>3. ASSUME NEW k \in Keys, index(k) \/ rewind(k) \/ Fork(k) PROVE IdentityIInv'
  BY <1>3, IndexKeeps, RewindKeeps, ForkKeeps
<1>4. ASSUME NEW k \in Keys, NEW id \in Ids, NEW w \in Wallets, create_product(k, id, w)
      PROVE  IdentityIInv'
  BY <1>4, CreateKeeps
<1>5. ASSUME NEW id \in Ids, create_shipment(id) PROVE IdentityIInv'
  BY <1>5, ShipmentKeeps
<1>6. ASSUME NEW id \in Ids, NEW t \in Texts, update_product(id, t) PROVE IdentityIInv'
  BY <1>6, UpdateKeeps
<1>7. CASE UNCHANGED vars
  BY <1>7, StutterKeeps
<1>8. QED
  BY <1>1, <1>2, <1>3, <1>4, <1>5, <1>6, <1>7 DEF Next

LEMMA Inductive == Spec => []IdentityIInv
BY InitSound, StepKeeps, PTL DEF Spec
----------------------------------------------------------------------------
(* Applying twice.                                                         *)

LEMMA SingleRow ==
    ASSUME NEW k \in Keys, NEW w, Rows(k) = {w}
    PROVE  Winner(k) = w /\ Losers(k) = {} /\ ~(Cardinality(Rows(k)) > 1)
<1>1. Winner(k) \in {w}
  BY WinnerIs
<1>2. Cardinality({w}) = 1
  BY FS_Singleton
<1>3. QED
  BY <1>1, <1>2 DEF Losers

\* Without losers there is one row or none.
LEMMA NoLosers ==
    ASSUME NEW k \in Keys, Losers(k) = {}
    PROVE  ~(Cardinality(Rows(k)) > 1) /\ (Rows(k) # {} => Rows(k) = {Winner(k)})
<1>1. CASE Rows(k) = {}
  BY <1>1, FS_EmptySet
<1>2. CASE Rows(k) # {}
  <2>1. Rows(k) = {Winner(k)}
    BY <1>2, WinnerIs DEF Losers
  <2>2. QED
    BY <2>1, SingleRow
<1>3. QED
  BY <1>1, <1>2

LEMMA MergedIsReconciled ==
    ASSUME IdentityIInv, reconcile_identity, NEW k \in Changes
    PROVE  k \notin Changes' /\ k \notin Conflicts'
<1>1. PICK w, R, f : w = Winner(k) /\ R = Rows(k) /\ f = WinnerFields(k)
  OBVIOUS
<1>2. PICK c \in Claim : KeyMerged(k, w, R, f, c)
  BY <1>1, ChangedKeyMerged
<1>3. /\ k \in Keys /\ TablesTyped /\ ~Conflicting(k) /\ UNCHANGED <<reg, foreign>>
      /\ \A id \in IdsOf(k) : id \in Ids /\ id # NoRow
  BY ChangesAre, IdsAre DEF IdentityIInv, reconcile_identity, Conflicts
<1>4. Rows(k)' = {w}
  BY <1>2 DEF KeyMerged, Rows
<1>5. Winner(k)' = w
  <2>1. Rank[w] =< Rank[w]
    BY <1>2, <1>3, IdentityAssumption DEF KeyMerged
  <2>2. QED
    BY <1>4, <2>1 DEF Winner
<1>6. row'[w].scope = "current" /\ row'[w].f = f /\ alias'[w] = NoRow /\ w \notin foreign'
  BY <1>1, <1>2, <1>3, MergeableIs DEF KeyMerged
<1>7. IF Evidence(k) THEN Agrees(f, k) ELSE ClaimsNothing(f)
  <2>1. CASE SourceMoved(k)
    <3>1. PICK g : g = row[bind[k].id].f
      OBVIOUS
    <3>2. /\ bind[k].id \in Rows(k) /\ f.source = g.source /\ f.owner = g.owner
          /\ f.maker = g.maker /\ f.name = g.name /\ f.block = g.block
      BY <1>1, <1>3, <2>1, <3>1, FieldsTaken
    <3>3. IF Evidence(k) THEN Agrees(g, k) ELSE ClaimsNothing(g)
      BY <1>3, <3>1, <3>2, MergeableIs
    <3>4. QED
      BY <3>2, <3>3 DEF Agrees, ClaimsNothing
  <2>2. CASE ~SourceMoved(k)
    <3>1. f = row[w].f /\ w \in Rows(k)
      BY <1>1, <1>3, <2>2, FieldsTaken, ChangesAre
    <3>2. QED
      BY <1>3, <3>1, MergeableIs
  <2>3. QED
    BY <2>1, <2>2
<1>8. ~(Cardinality(Rows(k)') > 1)
  <2>1. Cardinality({w}) = 1
    BY FS_Singleton
  <2>2. QED
    BY <1>4, <2>1
<1>9. ~Conflicting(k)'
  <2>1. Evidence(k)' <=> Evidence(k)
    BY <1>3 DEF Evidence
  <2>2. Agrees(f, k)' <=> Agrees(f, k)
    BY <1>3 DEF Agrees
  <2>3. \A id \in Rows(k)' : /\ row'[id].scope # "tracker" /\ id \notin foreign' /\ alias'[id] = NoRow
                             /\ row'[id].f = f
    BY <1>4, <1>6
  <2>4. \A id \in Rows(k)' : IF Evidence(k)' THEN Agrees(row[id].f, k)' ELSE ClaimsNothing(row[id].f)'
    BY <1>3, <1>7, <2>1, <2>3 DEF Agrees, ClaimsNothing
  <2>5. QED
    BY <1>8, <2>3, <2>4 DEF Conflicting
<1>10. Losers(k)' = {}
  BY <1>4, <1>5 DEF Losers
<1>11. QED
  BY <1>5, <1>6, <1>9, <1>10 DEF Changes, Conflicts

LEMMA UnchangedIsReconciled ==
    ASSUME IdentityIInv, reconcile_identity, NEW k \in Keys, k \notin Changes
    PROVE  k \notin Changes' /\ k \notin Conflicts'
<1>1. /\ \A id \in IdsOf(k) : row'[id] = row[id] /\ alias'[id] = alias[id]
      /\ UNCHANGED <<reg, foreign>> /\ ~Conflicting(k)
  BY UnchangedKeeps DEF reconcile_identity, Conflicts
<1>2. Rows(k)' = Rows(k)
  BY <1>1 DEF Rows, Active
<1>3. Winner(k)' = Winner(k) /\ Losers(k)' = Losers(k)
  BY <1>2 DEF Winner, Losers
<1>4. \A id \in Rows(k) : row'[id] = row[id] /\ alias'[id] = alias[id]
  BY <1>1 DEF Rows
<1>5. (Evidence(k)' <=> Evidence(k)) /\ (Unknown(k)' <=> Unknown(k))
  BY <1>1, <1>2, <1>4 DEF Evidence, Unknown
<1>6. ~(Cardinality(Rows(k)) > 1)
  <2>1. CASE Rows(k) = {} \/ Losers(k) = {}
    <3>1. Rows(k) = {} => Losers(k) = {}
      BY DEF Losers
    <3>2. QED
      BY <2>1, <3>1, NoLosers
  <2>2. CASE Rows(k) # {} /\ Losers(k) # {}
    <3>1. Unknown(k)
      BY <1>1, <2>2 DEF Changes, Conflicts
    <3>2. QED
      BY <1>1, <3>1 DEF Unknown, Conflicting
  <2>3. QED
    BY <2>1, <2>2
<1>7. ~Conflicting(k)'
  <2>1. \A id \in Rows(k) : Agrees(row[id].f, k)' <=> Agrees(row[id].f, k)
    BY <1>1, <1>4 DEF Agrees
  <2>2. \A id \in Rows(k) : ClaimsNothing(row[id].f)' <=> ClaimsNothing(row[id].f)
    BY <1>4 DEF ClaimsNothing
  <2>3. \A id \in Rows(k) : row[id].scope # "tracker" /\ id \notin foreign /\ alias[id] = NoRow
    BY <1>1, MergeableIs
  <2>4. \A id \in Rows(k) : IF Evidence(k) THEN Agrees(row[id].f, k) ELSE ClaimsNothing(row[id].f)
    BY <1>1, MergeableIs
  <2>5. QED
    BY <1>1, <1>2, <1>4, <1>5, <1>6, <2>1, <2>2, <2>3, <2>4 DEF Conflicting
<1>8. k \notin Changes'
  <2>1. ASSUME k \in Changes' PROVE FALSE
    <3>1. /\ Rows(k) # {} /\ ~Unknown(k) /\ (Losers(k) # {} \/ row'[Winner(k)].scope # "current")
      BY <1>2, <1>3, <1>5, <2>1 DEF Changes
    <3>2. row'[Winner(k)] = row[Winner(k)]
      BY <1>4, <3>1, WinnerIs
    <3>3. QED
      BY <1>1, <3>1, <3>2 DEF Changes, Conflicts
  <2>2. QED
    BY <2>1
<1>9. QED
  BY <1>7, <1>8 DEF Conflicts

----------------------------------------------------------------------------
(* The theorems.                                                           *)

\* What is reconciled can be indexed.
LEMMA Indexable == IdentityIInv => ReconciledIsIndexable
<1> SUFFICES ASSUME IdentityIInv, NEW k \in Keys, k \notin Conflicts, k \notin Changes,
                    k \notin astray, Evidence(k), journal[k] \in {0, reg[k]},
                    IdsOf(k) \cap untagged = {},
                    \A id \in IdsOf(k) : Active(id) => row[id].scope # "other"
             PROVE  Covered(k) /\ CanJournal(k)
  BY DEF ReconciledIsIndexable
<1>1. /\ KeyInv(k) /\ TablesTyped /\ ~Conflicting(k) /\ Hex[k] \in IdsOf(k)
      /\ \A id \in IdsOf(k) : id \in Ids /\ KeyOf[id] = k /\ id # NoRow
  BY IdsAre DEF IdentityIInv, Conflicts
<1>2. Claimants(k) = Rows(k)
  BY DEF Claimants, Rows
<1>2a. \A id \in IdsOf(k) : tagged[id] \subseteq {reg[k]}
  <2>1. \A id \in IdsOf(k) : 0 \notin tagged[id]
    BY <1>1 DEF TablesTyped
  <2>2. QED
    BY <1>1, <2>1 DEF KeyInv, HistorySound
<1>2b. \A id \in IdsOf(k) : ~Active(id) => tagged[id] = {}
  BY <1>1 DEF KeyInv, Referenced
<1>3. CASE Rows(k) = {}
  <2>1. \A id \in IdsOf(k) : row[id] = NoRow /\ tagged[id] = {}
    BY <1>1, <1>2, <1>3, <1>2b DEF KeyInv, NamesSound, Claimants
  <2>2. bind[k] = NoRow
    BY <1>1, <1>2, <1>3 DEF KeyInv, BindingSound, Claimants
  <2>3. Bindable(k) = Hex[k]
    BY <1>2, <1>3, <2>2 DEF Bindable
  <2>4. Assignable(Hex[k])
    BY <1>1, <2>1 DEF Assignable
  <2>5. CanJournal(k)
    BY <1>1, <1>2, <1>3, <2>1, <2>2, <2>3, <2>4 DEF CanJournal, TaggedWith
  <2>6. QED
    BY <1>1, <1>2a, <2>3, <2>5 DEF Covered
<1>4. CASE Rows(k) # {}
  <2>1. Losers(k) = {} /\ row[Winner(k)].scope = "current"
    BY <1>4 DEF Changes, Unknown
  <2>2. PICK w : w = Winner(k) /\ Rows(k) = {w} /\ row[w].scope = "current"
    BY <1>4, <2>1, NoLosers
  <2>3. w \in IdsOf(k) /\ Active(w) /\ w \notin untagged /\ w \notin foreign /\ Agrees(row[w].f, k)
    BY <1>1, <2>2, MergeableIs DEF Rows
  <2>4. \A id \in IdsOf(k) \ {w} : ~Active(id) /\ tagged[id] = {}
    BY <1>2, <1>2b, <2>2 DEF Claimants
  <2>5. Bindable(k) = w
    <3>1. CASE bind[k] # NoRow
      <4>1. bind[k].id \in Claimants(k)
        BY <1>1, <3>1 DEF KeyInv, BindingSound, Claimants
      <4>2. QED
        BY <1>2, <2>2, <3>1, <4>1 DEF Bindable
    <3>2. CASE bind[k] = NoRow
      BY <1>2, <2>2, <3>2 DEF Bindable
    <3>3. QED
      BY <3>1, <3>2
  <2>6. Assignable(w)
    <3>1. \A id \in IdsOf(k) \ {w} : row[id] # NoRow => row[id].scope = "none"
      BY <1>1, <2>4 DEF KeyInv, NamesSound
    <3>2. QED
      BY <1>1, <2>2, <2>3, <3>1 DEF Assignable
  <2>7. Adoptable(k, w)
    BY <2>3 DEF Adoptable, Agrees
  <2>8. Cardinality(Claimants(k)) = 1 /\ Claimants(k) # {}
    <3>1. Cardinality({w}) = 1
      BY FS_Singleton
    <3>2. QED
      BY <1>2, <2>2, <3>1
  <2>9. TaggedWith(k, reg[k]) \subseteq {w}
    BY <2>4 DEF TaggedWith
  <2>10. CanJournal(k)
    BY <2>3, <2>5, <2>6, <2>7, <2>8, <2>9 DEF CanJournal
  <2>11. QED
    BY <1>2a, <2>3, <2>5, <2>10 DEF Covered
<1>5. QED
  BY <1>3, <1>4

\* Public IDs keep naming the same product, and shipments, history and
\* bindings those of an active row, whatever is merged, bound and rewound.
THEOREM NamesHold == Spec => []IdentityInv
<1>1. ASSUME IdentityIInv PROVE IdentityInv
  <2>1. IdentityTypeOK
    BY <1>1 DEF IdentityIInv, KeyInv, IdentityTypeOK
  <2>2. NamesResolve
    BY <1>1, ResolveIs DEF NamesResolve
  <2>3. NothingLeftBehind
    <3>1. \A id \in Ids : Referenced(id) => Active(id)
      BY <1>1, IdsAre DEF IdentityIInv, KeyInv
    <3>2. \A k \in Keys : bind[k] # NoRow => Active(bind[k].id)
      BY <1>1 DEF IdentityIInv, KeyInv, BindingSound
    <3>3. \A id \in Ids : alias[id] # NoRow => Active(alias[id]) /\ ~Active(id)
      BY <1>1, IdsAre DEF IdentityIInv, KeyInv, NamesSound
    <3>4. QED
      BY <3>1, <3>2, <3>3 DEF NothingLeftBehind
  <2>4. QED
    BY <2>1, <2>2, <2>3 DEF IdentityInv
<1>2. QED
  BY <1>1, Inductive, PTL

\* No merge, adoption or rewind makes an owner of someone who neither
\* signed the draft nor registered the product.
THEOREM OwnersAreProven == Spec => []RightsProven
<1>1. ASSUME IdentityIInv PROVE RightsProven
  <2>1. SUFFICES ASSUME NEW id \in Ids, Active(id), Owned(id), NEW k, k = KeyOf[id]
                 PROVE  IF row[id].f.source = "signed_draft"
                        THEN draft[k] # NoRow /\ draft[k].f.owner = row[id].f.owner
                        ELSE journal[k] # 0 /\ row[id].f.owner = Maker
    BY DEF RightsProven
  <2>2. k \in Keys /\ KeyInv(k) /\ id \in Claimants(k)
    BY <1>1, <2>1, IdsAre DEF IdentityIInv, Claimants
  <2>3. row[id].f.source \in {"signed_draft", "chain_event"}
    <3>1. row[id].f \in Fields
      BY <1>1, <2>1, RowsAre DEF IdentityIInv, Active
    <3>2. QED
      BY <2>1, <3>1 DEF Owned, Fields
  <2>4. QED
    BY <2>2, <2>3 DEF KeyInv, OwnersSound
<1>2. QED
  BY <1>1, Inductive, PTL

\* A signed draft is there again when its registration is gone.
THEOREM DraftsComeBack == Spec => []DraftReturns
<1>1. ASSUME IdentityIInv PROVE DraftReturns
  <2>1. SUFFICES ASSUME NEW k \in Keys, k \notin drifted, draft[k] # NoRow, journal[k] = 0
                 PROVE  row[resolve_product(draft[k].id)].f = draft[k].f
    BY DEF DraftReturns
  <2>2. PICK d \in IdsOf(k) : d = draft[k].id /\ Active(d) /\ row[d].f = draft[k].f
    BY <1>1, <2>1 DEF IdentityIInv, KeyInv, DraftSound, Claimants
  <2>3. resolve_product(d) = d
    BY <1>1, <2>2, ResolveIs, IdsAre
  <2>4. QED
    BY <2>2, <2>3
<1>2. QED
  BY <1>1, Inductive, PTL

\* Once both tools are satisfied with a key, whose chain did not change under
\* history that nobody had journaled, its registration is projected and its
\* history covered.
THEOREM ReconciledKeysIndex == Spec => []ReconciledIsIndexable
BY Indexable, Inductive, PTL

\* A second apply finds nothing to do and nothing in conflict.
THEOREM ApplyingTwice == Spec => Idempotent
<1>1. ASSUME IdentityIInv, reconcile_identity PROVE Changes' = {} /\ Conflicts' = {}
  <2>1. ASSUME NEW k \in Keys PROVE k \notin Changes' /\ k \notin Conflicts'
    BY <1>1, MergedIsReconciled, UnchangedIsReconciled
  <2>2. Changes' \subseteq Keys /\ Conflicts' \subseteq Keys
    BY DEF Changes, Conflicts
  <2>3. QED
    BY <2>1, <2>2
<1>2. IdentityIInv /\ [Next]_vars => [reconcile_identity => Changes' = {} /\ Conflicts' = {}]_vars
  BY <1>1
<1>3. QED
  BY <1>2, Inductive, PTL DEF Spec, Idempotent
=============================================================================
