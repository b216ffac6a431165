------------------------------- MODULE Ledger -------------------------------
(***************************************************************************)
(* What the indexer promises, without batches, workers or RPC calls: a     *)
(* journal that is at all times the logs of one branch, from the           *)
(* deployment anchor to one block of it.  The block advances along its     *)
(* branch; it leaves that branch only when the branch was abandoned.       *)
(***************************************************************************)
EXTENDS Chain

CONSTANTS NoBlock,  \* nothing indexed yet
          Starts    \* deployment anchors

VARIABLES start,    \* the deployment anchor
          at,       \* the last block of the journal
          journal   \* its logs

ledger == <<start, at, journal>>

LedgerInit == ChainInit /\ start = 0 /\ at = NoBlock /\ journal = {}

Served == Path[tip] \cup dead

\* The journal becomes that of block b, in one step.
Publish(s, b) ==
    /\ start' = s
    /\ at' = b
    /\ journal' = LogsOn(b, s, Height[b])
    /\ UNCHANGED chainVars

Begin == at = NoBlock /\ \E s \in Starts, b \in Served : s <= Height[b] /\ Publish(s, b)

Advance == at \in Blocks /\ \E b \in Served : at \in Path[b] /\ Publish(start, b)

Recover == at \in dead /\ \E b \in Served : start <= Height[b] /\ Publish(start, b)

LedgerNext == Begin \/ Advance \/ Recover \/ (MoveTip /\ UNCHANGED ledger)

LedgerSpec == LedgerInit /\ [][LedgerNext]_<<chainVars, ledger>>
=============================================================================
