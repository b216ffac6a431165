------------------------------- MODULE Chain -------------------------------
(***************************************************************************)
(* The chain as the backend sees it through its RPC provider: a tree of    *)
(* blocks (a block is its hash), the logs every block holds, and the tip   *)
(* of the branch the provider currently serves.  The provider and the      *)
(* network are not code of the repository; this module states what         *)
(* backend/app/services/indexer.py assumes of them.                        *)
(*                                                                         *)
(* A log is a record.  Every log has                                       *)
(*   id    chain:emitter:transaction:logIndex, the identity of an event    *)
(*   tx    its transaction                                                 *)
(*   block the hash of the block that includes it                          *)
(*   idx   its position in the block (transactionIndex, logIndex)          *)
(*   type  one of EventTypes                                               *)
(*   key   the bytes32 product ID                                          *)
(* and the arguments its type has: who (manufacturer, handler or the       *)
(* receiver of custody), name and uri for a registration, uri for a        *)
(* metadata update, status for a checkpoint.                               *)
(***************************************************************************)
EXTENDS Integers, FiniteSets

CONSTANTS
    Blocks,     \* every block that may ever be mined, on any branch
    Genesis,    \* the root of the tree
    Height,     \* Height[b]: the number of block b
    Path,       \* Path[b]: b and all its ancestors
    Logs,       \* every log of every block
    Keys,       \* product IDs
    ForksReturn \* may an abandoned branch be served again?

EventTypes == {"ProductRegistered", "ProductMetadataUpdated",
               "CheckpointRecorded", "CustodyTransferred", "DeliveryCompleted"}

\* Blocks form a tree: ancestors are a chain, one block per height, no holes.
ASSUME TreeAssumption ==
    /\ Genesis \in Blocks
    /\ Height \in [Blocks -> Nat]
    /\ Path \in [Blocks -> SUBSET Blocks]
    /\ Height[Genesis] = 0
    /\ \A b \in Blocks :
          /\ b \in Path[b]
          /\ \A c \in Path[b] :
                /\ Height[c] <= Height[b]
                /\ Path[c] = {d \in Path[b] : Height[d] <= Height[c]}
          /\ \A c, d \in Path[b] : Height[c] = Height[d] => c = d
          /\ \A n \in 0..Height[b] : \E c \in Path[b] : Height[c] = n

\* Every log is in a block, at a position of its own, and an event has one
\* occurrence on a branch: a transaction is included once.
ASSUME LogAssumption ==
    /\ \A o \in Logs : /\ o.block \in Blocks
                       /\ o.idx \in Nat
                       /\ o.type \in EventTypes
                       /\ o.key \in Keys
    /\ \A o, p \in Logs : o.block = p.block /\ o.idx = p.idx => o = p
    /\ \A b \in Blocks : \A o, p \in Logs :
          o.block \in Path[b] /\ p.block \in Path[b] /\ o.id = p.id => o = p
    \* A transaction concerns one product, on whatever branch it is included.
    /\ \A o, p \in Logs : o.id = p.id => o.key = p.key

ASSUME ForksAssumption == ForksReturn \in BOOLEAN

\* The block of height n on the branch that ends in b.
At(b, n) == CHOOSE c \in Path[b] : Height[c] = n

\* The logs on the branch that ends in b, above height lo and up to hi.
LogsOn(b, lo, hi) ==
    {o \in Logs : o.block \in Path[b] /\ lo < Height[o.block] /\ Height[o.block] <= hi}

\* Chain order of logs: block number, then position in the block.
Before(o, p) ==
    \/ Height[o.block] < Height[p.block]
    \/ Height[o.block] = Height[p.block] /\ o.idx < p.idx

\* What ProductRegistry.sol reverts otherwise: a product is registered once,
\* and before its metadata is updated.
ASSUME ContractAssumption ==
    \A b \in Blocks : \A o \in {l \in Logs : l.block \in Path[b]} :
        /\ \A p \in {l \in Logs : l.block \in Path[b]} :
              o.key = p.key /\ o.type = "ProductRegistered" /\ p.type = o.type => o = p
        /\ o.type = "ProductMetadataUpdated" =>
              \E r \in {l \in Logs : l.block \in Path[b]} :
                  r.type = "ProductRegistered" /\ r.key = o.key /\ Before(r, o)

----------------------------------------------------------------------------
VARIABLES
    tip,  \* the last block of the branch the provider serves
    dead  \* blocks of branches it has abandoned

chainVars == <<tip, dead>>

ChainTypeOK == tip \in Blocks /\ dead \in SUBSET Blocks

ChainInit == tip = Genesis /\ dead = {}

\* The provider serves another tip: new blocks, a shorter branch, or another
\* fork.  What leaves the served branch is abandoned, for good unless
\* ForksReturn.
MoveTip ==
    \E b \in Blocks \ {tip} :
        /\ Path[b] \cap dead = {}
        /\ tip' = b
        /\ dead' = IF ForksReturn THEN dead ELSE dead \cup (Path[tip] \ Path[b])

\* The provider can answer for block number n, and with which hash.
Serves(n) == n <= Height[tip]
Header(n) == At(tip, n)
=============================================================================
