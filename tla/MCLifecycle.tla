---------------------------- MODULE MCLifecycle ----------------------------
(***************************************************************************)
(* Three forks for Lifecycle.tla: k1 is registered on the first, not on    *)
(* the second, registered again on it, and not on the third.               *)
(***************************************************************************)
EXTENDS Lifecycle, TLC

CONSTANTS k1, w1, alice

MCParent == [a1 |-> "g", a2 |-> "a1", b1 |-> "g", b2 |-> "b1", c2 |-> "b1", c3 |-> "c2"]
MCBlocks == DOMAIN MCParent \cup {"g"}
MCPath == LET path[b \in MCBlocks] == {b} \cup IF b = "g" THEN {} ELSE path[MCParent[b]]
          IN path
MCHeight == [b \in MCBlocks |-> Cardinality(MCPath[b]) - 1]

Place(id, t, b, i) == [id |-> id, tx |-> t, block |-> b, idx |-> i, key |-> k1]
Registers(at, name) == at @@ [type |-> "ProductRegistered", name |-> name, uri |-> "u1",
                              who |-> alice]
Checks(at, status) == at @@ [type |-> "CheckpointRecorded", status |-> status, who |-> alice]

MCLogs ==
    {Registers(Place("r1", "t1", "a1", 0), "n0"), Checks(Place("c1", "t2", "a2", 0), 0),
     Checks(Place("c2", "t3", "a2", 1), 1),
     Registers(Place("r2", "t4", "b2", 0), "n1"), Checks(Place("c3", "t5", "b2", 1), 0),
     Registers(Place("r1", "t1", "c3", 0), "n0")}

MCDraft == [name |-> "n0", uri |-> NoUri, owner |-> alice, source |-> "signed_draft",
            reg |-> "draft", height |-> 0, tx |-> NoTx]
MCProducts == {[k \in Keys |-> MCDraft], [k \in Keys |-> NoProduct]}
MCHistories == {{}}
MCStart == [w \in Workers |-> 0]
MCTexts == {"n0", "n1", "u1"}
MCNames == {"n0", "n1"}
MCTxs == {o.tx : o \in Logs}
MCEventIds == {o.id : o \in Logs}
=============================================================================
