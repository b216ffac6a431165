----------------------------- MODULE MCWriters ------------------------------
(***************************************************************************)
(* Indexer.tla against databases older than its journal, by processes that *)
(* disagree on the deployment anchor.  The fork leaves the trunk at the    *)
(* anchor, deeper than the recovery window.                                *)
(***************************************************************************)
EXTENDS IndexerProperties, TLC

CONSTANTS k1, k2, w1, w2, alice, bob

MCParent == [a1 |-> "g", a2 |-> "a1", b1 |-> "g", b2 |-> "b1"]
MCBlocks == DOMAIN MCParent \cup {"g"}
MCPath == LET path[b \in MCBlocks] == {b} \cup IF b = "g" THEN {} ELSE path[MCParent[b]]
          IN path
MCHeight == [b \in MCBlocks |-> Cardinality(MCPath[b]) - 1]

Place(id, t, b, i) == [id |-> id, tx |-> t, block |-> b, idx |-> i, key |-> k1]
Registers(at) == at @@ [type |-> "ProductRegistered", name |-> "n1", uri |-> "u1",
                        who |-> alice]
Checks(at) == at @@ [type |-> "CheckpointRecorded", status |-> 0, who |-> alice]

\* The same two transactions on both branches.
MCLogs == {Registers(Place("r1", "t1", "a1", 0)), Checks(Place("c1", "t2", "a2", 0)),
           Registers(Place("r1", "t1", "b1", 0)), Checks(Place("c1", "t2", "b2", 0))}

MCDraft == [name |-> "n0", uri |-> "u0", owner |-> alice, source |-> "signed_draft",
            reg |-> "draft", height |-> 0, tx |-> NoTx]
\* Two processes configured with different deployment anchors.
MCStart == [w \in Workers |-> IF w = w1 THEN 0 ELSE 1]

\* Databases of before the journal: k1 registered, as the chain says or not,
\* and history rows tagged with their event (at its block or another),
\* tagged with one that does not exist, or not tagged.
Legacy(t) == [MCDraft EXCEPT !.source = "chain_event", !.reg = "indexed",
                             !.height = 1, !.tx = t]
MCProducts == {[k \in Keys |-> IF k = k1 THEN p ELSE NoProduct] :
                    p \in {MCDraft, Legacy("t1"), Legacy("t9")}}
Tagged(id) == [id |-> id, key |-> k1, type |-> "CheckpointRecorded", height |-> 2]
MCHistories == {{}, {Tagged("c1")}, {Tagged("x9")}, {Tagged(NoEvent)},
                {[Tagged("c1") EXCEPT !.height = 1]}}
MCTxs == {o.tx : o \in Logs} \cup {"t9"}
MCEventIds == {o.id : o \in Logs} \cup {"x9"}
MCTexts == {"n0", "n1", "u0", "u1"}
=============================================================================
