----------------------------- MODULE MCIndexer -----------------------------
(***************************************************************************)
(* A small chain for Indexer.tla: a trunk, and a fork that leaves it after *)
(* block 1.  k1 is a signed draft before it is registered, k2 is known     *)
(* from the chain alone.  Transactions are included again on the fork: in  *)
(* another order, at another height, and one under another log index.      *)
(***************************************************************************)
EXTENDS IndexerProperties, TLC

CONSTANTS k1, k2, w1, w2, alice, bob

MCParent == [a1 |-> "g", a2 |-> "a1", a3 |-> "a2", b2 |-> "a1", b3 |-> "b2"]
MCBlocks == DOMAIN MCParent \cup {"g"}
MCPath == LET path[b \in MCBlocks] == {b} \cup IF b = "g" THEN {} ELSE path[MCParent[b]]
          IN path
MCHeight == [b \in MCBlocks |-> Cardinality(MCPath[b]) - 1]

Place(id, t, b, i, k) ==
    [id |-> id, tx |-> t, block |-> b, idx |-> i, key |-> k]
Registers(at, name, uri, who) ==
    at @@ [type |-> "ProductRegistered", name |-> name, uri |-> uri, who |-> who]
Updates(at, uri) == at @@ [type |-> "ProductMetadataUpdated", uri |-> uri]
Checks(at, status, who) == at @@ [type |-> "CheckpointRecorded", status |-> status, who |-> who]
Transfers(at, who) == at @@ [type |-> "CustodyTransferred", who |-> who]
Delivers(at, who) == at @@ [type |-> "DeliveryCompleted", who |-> who]

MCLogs ==
    {Registers(Place("r1", "t1", "a1", 0, k1), "n1", "u1", alice),
     \* the trunk
     Checks(Place("c1", "t2", "a2", 0, k1), 0, alice),
     Registers(Place("r2", "t3", "a2", 1, k2), "n2", "u2", bob),
     Checks(Place("c2", "t4", "a3", 0, k1), 1, alice),
     Updates(Place("m1", "t5", "a3", 1, k2), "u1"),
     \* the fork
     Checks(Place("c1", "t2", "b2", 0, k1), 0, alice),
     Updates(Place("m2", "t6", "b2", 1, k1), "u2"),
     Checks(Place("c2b", "t4", "b2", 2, k1), 1, alice),
     Transfers(Place("h1", "t7", "b3", 0, k1), bob),
     Delivers(Place("d1", "t8", "b3", 1, k1), bob),
     Checks(Place("c3", "t8", "b3", 2, k1), 3, bob),
     Registers(Place("r2", "t3", "b3", 3, k2), "n2", "u2", bob)}

MCDraft == [name |-> "n0", uri |-> "u0", owner |-> alice, source |-> "signed_draft",
            reg |-> "draft", height |-> 0, tx |-> NoTx]
MCProducts == {[k \in Keys |-> IF k = k1 THEN MCDraft ELSE NoProduct]}
MCHistories == {{}}

MCTxs == {o.tx : o \in Logs}
MCEventIds == {o.id : o \in Logs}

MCStart == [w \in Workers |-> 0]
MCTexts == {"n0", "n1", "n2", "u0", "u1", "u2"}
=============================================================================
