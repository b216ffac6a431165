---------------------------- MODULE Registration ----------------------------
(***************************************************************************)
(* Registration attempts of one product: the transactions its owner claims *)
(* to have sent, what the API observes of them on the chain                *)
(* (backend/app/services/registration.py) and the handlers that record it  *)
(* (backend/app/api/routes/products.py).                                   *)
(*                                                                         *)
(* A handler locks the product row from its first read to its commit, so   *)
(* one handler runs at a time and the indexer, which needs that row to     *)
(* commit anything about the product, waits for it.  The chain does not    *)
(* wait: every RPC call is a step of its own.                              *)
(***************************************************************************)
EXTENDS Integers, FiniteSets, SequencesExt

CONSTANTS
    Txs,            \* transactions of the owner's wallet, and of others
    Kind,           \* Kind[t]: what t does
    Nonce,          \* Nonce[t]: the nonce its sender gave it
    Says,           \* Says[t]: the name it registers, or the URI it sets
    Texts,          \* names and URIs
    NoTx, NoText, NoNonce, NoBlock, NoAttempt, NoObservation,
    Confirmations,  \* INDEXER_CONFIRMATIONS
    MaxAttempts,    \* submissions a product may have (100)
    MaxBlocks,      \* bound: blocks ever mined
    MaxFaults,      \* bound: RPC calls that fail
    MaxEdits        \* bound: edits of the draft

\* A foreign transaction has another sender or another contract.
Kinds == {"registration", "metadata", "cancellation", "foreign"}
Operations == {"registration", "metadata"}

ASSUME RegistrationAssumption ==
    /\ Kind \in [Txs -> Kinds] /\ Nonce \in [Txs -> Nat] /\ Says \in [Txs -> Texts]
    /\ NoTx \notin Txs /\ NoText \notin Texts /\ NoNonce \notin Nat /\ NoBlock \notin Nat
    /\ {Confirmations, MaxBlocks} \subseteq Nat \ {0}
    /\ {MaxAttempts, MaxFaults, MaxEdits} \subseteq Nat

Unsettled == {"submitted", "confirming", "indexing"}
AttemptStatuses == Unsettled \cup {"indexed", "failed", "replaced"}

Attempt == [operation : Operations, payload : Texts, uri : Texts \cup {NoText},
            status : AttemptStatuses, nonce : Nat \cup {NoNonce},
            block : 1..MaxBlocks \cup {NoBlock}, replaces : Txs \cup {NoTx}, replaced_by : Txs \cup {NoTx}]

ASSUME NoAttemptAssumption == NoAttempt \notin Attempt

\* final: a failure that uses up the nonce (reverted or cancelled).
Observation == [status : AttemptStatuses, final : BOOLEAN,
                nonce : Nat \cup {NoNonce}, block : 1..MaxBlocks \cup {NoBlock}]

VARIABLES
    chain,     \* blocks the RPC provider serves: their hash and transaction
    mined,     \* blocks mined so far: the last hash given out
    pool,      \* transactions the provider knows, mined or not
    indexed,   \* the blocks of the canonical journal
    draft,     \* the product's name while it is a draft
    baseline,  \* the name its binding goes back to
    attempts,  \* registration_attempts
    call,      \* the handler that holds the product row
    faults, edits

chainSide == <<chain, mined, pool>>
vars == <<chain, mined, pool, indexed, draft, baseline, attempts, call, faults, edits>>

Receipt == [block : 1..MaxBlocks, height : 1..MaxBlocks, ok : BOOLEAN]
NoReceipt == [block |-> 1, height |-> 1, ok |-> FALSE]
NoCall == [at |-> "idle", does |-> "reconcile", tx |-> NoTx, new |-> NoAttempt, on |-> NoTx,
           nonce |-> NoNonce, receipt |-> NoReceipt, prior |-> NoObservation]
Call == [at : {"idle", "transaction", "receipt", "block", "head"},
         does : {"submit", "reconcile"}, tx : Txs \cup {NoTx},
         new : Attempt \cup {NoAttempt}, on : Txs \cup {NoTx},
         nonce : Nat \cup {NoNonce}, receipt : Receipt,
         prior : Observation \cup {NoObservation}]

Block == [hash : 1..MaxBlocks, tx : Txs \cup {NoTx}]

RegistrationTypeOK ==
    /\ chain \in Seq(Block) /\ indexed \in Seq(Block)
    /\ mined \in 0..MaxBlocks /\ pool \in SUBSET Txs
    /\ draft \in Texts /\ baseline \in Texts \cup {NoText}
    /\ attempts \in [Txs -> Attempt \cup {NoAttempt}]
    /\ call \in Call
    /\ faults \in 0..MaxFaults /\ edits \in 0..MaxEdits

Init ==
    /\ chain = <<>> /\ mined = 0 /\ pool = {} /\ indexed = <<>>
    /\ draft \in Texts /\ baseline = NoText
    /\ attempts = [t \in Txs |-> NoAttempt]
    /\ call = NoCall /\ faults = 0 /\ edits = 0

----------------------------------------------------------------------------
(* The chain.  A registration of a registered product reverts, as does a   *)
(* metadata update before it; a nonce is used once.                        *)

InBlock(c, t) == {i \in DOMAIN c : c[i].tx = t}
Registrations(c) == {i \in DOMAIN c : c[i].tx # NoTx /\ Kind[c[i].tx] = "registration"}
Success(c, i) ==
    CASE Kind[c[i].tx] = "registration" -> \A j \in Registrations(c) : i <= j
      [] Kind[c[i].tx] = "metadata" -> \E j \in Registrations(c) : j < i
      [] OTHER -> TRUE

Broadcast(t) == t \notin pool /\ pool' = pool \cup {t} /\ UNCHANGED <<chain, mined>>

Forget(t) ==
    /\ t \in pool /\ InBlock(chain, t) = {}
    /\ pool' = pool \ {t} /\ UNCHANGED <<chain, mined>>

Mine(t) ==
    /\ mined < MaxBlocks
    /\ t # NoTx => /\ t \in pool
                   /\ \A i \in DOMAIN chain : chain[i].tx # NoTx => Nonce[chain[i].tx] # Nonce[t]
    /\ mined' = mined + 1
    /\ chain' = Append(chain, [hash |-> mined', tx |-> t])
    /\ UNCHANGED pool

\* A fork: blocks are dropped from the end, others follow.
Reorganize ==
    /\ \E n \in 0..Len(chain) - 1 : chain' = SubSeq(chain, 1, n)
    /\ UNCHANGED <<mined, pool>>

ChainMoves ==
    /\ \/ \E t \in Txs : Broadcast(t) \/ Forget(t) \/ Mine(t)
       \/ Mine(NoTx)
       \/ Reorganize
    /\ UNCHANGED <<indexed, draft, baseline, attempts, call, faults, edits>>

----------------------------------------------------------------------------
(* The product row, as the indexer leaves it.                              *)

IsIndexed == Registrations(indexed) # {}
RegisteredBy == indexed[CHOOSE i \in Registrations(indexed) : Success(indexed, i)].tx
Name == IF IsIndexed THEN Says[RegisteredBy] ELSE draft

BaselineFor(c) == IF Registrations(c) # {} /\ baseline = NoText THEN draft ELSE baseline

\* The indexer commits a batch: it drops what the served branch does not
\* hold and goes on with confirmed blocks.  It refuses a head behind its
\* cursor.  A registration binds the product and keeps its draft as the
\* baseline; one that disappears gives the baseline back.
IndexerCommit ==
    /\ call.at = "idle" /\ Len(indexed) <= Len(chain)
    /\ LET kept == LongestCommonPrefix({indexed, chain})
           target == Len(chain) - Confirmations IN
       \/ \E n \in Len(kept) + 1 .. target : indexed' = SubSeq(chain, 1, n)
       \/ target <= Len(kept) /\ kept # indexed /\ indexed' = kept
    /\ baseline' = BaselineFor(indexed')
    /\ draft' = IF IsIndexed /\ Registrations(indexed') = {} THEN baseline ELSE draft
    /\ UNCHANGED <<chainSide, attempts, call, faults, edits>>

----------------------------------------------------------------------------
(* update_product: a draft is edited while nothing is under way.           *)

update_product(name) ==
    /\ call.at = "idle" /\ edits < MaxEdits
    /\ ~IsIndexed /\ Registrations(chain) = {}
    /\ \A t \in Txs : attempts[t] # NoAttempt => attempts[t].status \notin Unsettled
    /\ draft' = name
    /\ edits' = edits + 1
    /\ UNCHANGED <<chainSide, indexed, baseline, attempts, call, faults>>

----------------------------------------------------------------------------
(* observe: one RPC call after the other.                                  *)

Observed(status, final, nonce, block) ==
    [status |-> status, final |-> final, nonce |-> nonce, block |-> block]

confirmed_replacement(o) ==
    \/ o.status \in {"indexing", "indexed"}
    \/ o.status = "failed" /\ o.final

Observing(t) == [call EXCEPT !.at = "transaction", !.on = t, !.nonce = NoNonce,
                             !.receipt = NoReceipt]

\* The attempt an observation is compared with.
Subject == IF call.does = "submit" /\ call.on = call.tx THEN call.new ELSE attempts[call.on]

\* A self-transfer cancels only what it was submitted to replace.
Cancels == Subject.replaces # NoTx /\ Kind[call.on] = "cancellation"

\* Mutation: the arguments of the call are not compared.
InputUnread == Kind[call.on] = Subject.operation

\* Does the transaction do what the attempt says?
InputMatches ==
    /\ Kind[call.on] = Subject.operation
    /\ Says[call.on] = IF Subject.operation = "registration" THEN Subject.payload ELSE Subject.uri

Journalled(t, block) ==
    \E i \in InBlock(indexed, t) : Success(indexed, i) /\ indexed[i].hash = block

indexed_observation(o, t) ==
    IF o.status = "indexing" /\ Journalled(t, o.block)
    THEN [o EXCEPT !.status = "indexed"] ELSE o

----------------------------------------------------------------------------
(* What a handler does with what it observed.                              *)

Answer(rows) == attempts' = rows /\ call' = NoCall

\* Mutation: the original is never retired.
RetiredNever(rows, old, x) == rows

\* The original is retired: x replaced it.
Retired(rows, old, x) ==
    IF old = NoTx THEN rows
    ELSE [rows EXCEPT ![old].replaced_by = x, ![old].status = "replaced"]

\* Mutation: the nonces are not compared.
NonceIgnored(old, previous, replacement) == TRUE
SameNonce(old, previous, replacement) ==
    LET known == IF previous.nonce = NoNonce THEN attempts[old].nonce ELSE previous.nonce
    IN known # NoNonce /\ known = replacement.nonce

\* submit_registration, after both transactions of a replacement were read.
Submitted(previous, replacement) ==
    LET old == call.new.replaces
        rows == [attempts EXCEPT
                    ![call.tx] = [call.new EXCEPT !.nonce = replacement.nonce],
                    ![old].nonce = replacement.nonce]
    IN Answer(IF ~SameNonce(old, previous, replacement) THEN attempts
              ELSE IF confirmed_replacement(replacement) THEN Retired(rows, old, call.tx)
              ELSE IF replacement.status = "failed" THEN attempts
              ELSE rows)

\* reconcile, after the attempt's own transaction was read.
Reconciled(o) ==
    LET x == call.tx
        found == indexed_observation(o, x)
        rows == [attempts EXCEPT
                    ![x].status = found.status, ![x].nonce = found.nonce,
                    ![x].block = found.block,
                    ![x].replaced_by = IF confirmed_replacement(found) THEN NoTx ELSE @]
    IN Answer(IF confirmed_replacement(found) THEN Retired(rows, attempts[x].replaces, x)
              ELSE rows)

\* An observation is complete: the handler reads the other transaction, or
\* records what it knows and commits.
Observe(o) ==
    CASE call.does = "submit" /\ call.on # call.tx ->
            call' = [Observing(call.tx) EXCEPT !.prior = o] /\ UNCHANGED attempts
      [] call.does = "submit" /\ call.on = call.tx ->
            Submitted(call.prior, o)
      [] call.does = "reconcile" /\ call.on # call.tx /\ confirmed_replacement(o) ->
            Answer([attempts EXCEPT ![call.tx].status = "replaced"])
      [] call.does = "reconcile" /\ call.on # call.tx /\ ~confirmed_replacement(o) ->
            call' = Observing(call.tx) /\ UNCHANGED attempts
      [] OTHER -> Reconciled(o)

Elsewhere == UNCHANGED <<chainSide, indexed, draft, baseline, edits>>
Asking(point) == call.at = point /\ Elsewhere /\ UNCHANGED faults

GetTransaction ==
    LET t == call.on IN
    /\ Asking("transaction")
    /\ CASE t \notin pool -> Observe(Observed("submitted", FALSE, NoNonce, NoBlock))
         [] t \in pool /\ ~Cancels /\ Kind[t] \in {"foreign", "cancellation"} ->
               Observe(Observed("failed", FALSE, NoNonce, NoBlock))
         [] t \in pool /\ ~Cancels /\ Kind[t] \in Operations /\ ~InputMatches ->
               Observe(Observed("failed", FALSE, Nonce[t], NoBlock))
         [] OTHER -> /\ call' = [call EXCEPT !.at = "receipt", !.nonce = Nonce[t]]
                     /\ UNCHANGED attempts

GetReceipt ==
    /\ Asking("receipt")
    /\ IF InBlock(chain, call.on) = {}
       THEN Observe(Observed("submitted", FALSE, call.nonce, NoBlock))
       ELSE \E i \in InBlock(chain, call.on) :
               /\ call' = [call EXCEPT !.at = "block",
                              !.receipt = [block |-> chain[i].hash, height |-> i,
                                           ok |-> Success(chain, i)]]
               /\ UNCHANGED attempts

\* Is the receipt's block the one of its number?  (If there is none of that
\* number any more, the call fails: Unavailable.)
GetBlock ==
    /\ Asking("block")
    /\ call.receipt.height <= Len(chain)
    /\ IF chain[call.receipt.height].hash = call.receipt.block
       THEN call' = [call EXCEPT !.at = "head"] /\ UNCHANGED attempts
       ELSE Observe(Observed("submitted", FALSE, call.nonce, call.receipt.block))

\* Mutation: a receipt is enough.
DepthIgnored(n) == TRUE
Deep(n) == n >= Confirmations

GetHead ==
    LET r == call.receipt IN
    /\ Asking("head")
    /\ Observe(Observed(
          IF ~Deep(Len(chain) - r.height) THEN "confirming"
          ELSE IF ~r.ok \/ Cancels THEN "failed" ELSE "indexing",
          Deep(Len(chain) - r.height) /\ (~r.ok \/ Cancels),
          call.nonce, r.block))

\* An RPC call fails: reconcile records nothing, submit answers 503.
Unavailable ==
    /\ call.at # "idle" /\ Elsewhere
    /\ IF call.at = "block" /\ call.receipt.height > Len(chain)
       THEN UNCHANGED faults
       ELSE faults < MaxFaults /\ faults' = faults + 1
    /\ Answer(attempts)

----------------------------------------------------------------------------
(* The handlers up to their first RPC call.                                *)

\* A submission the API knows is answered as before; this one is new.
Accepts(t, operation, uri) ==
    /\ call.at = "idle" /\ attempts[t] = NoAttempt
    /\ operation = "registration" => (IsIndexed => RegisteredBy = t)
    /\ operation = "metadata" => IsIndexed /\ uri # NoText
    /\ Cardinality({s \in Txs : attempts[s] # NoAttempt}) < MaxAttempts

NewAttempt(operation, uri, old) ==
    [operation |-> operation, payload |-> Name, uri |-> uri, status |-> "submitted",
     nonce |-> NoNonce, block |-> NoBlock, replaces |-> old, replaced_by |-> NoTx]

submit_registration(t, operation, uri) ==
    /\ Accepts(t, operation, uri)
    /\ attempts' = [attempts EXCEPT ![t] = NewAttempt(operation, uri, NoTx)]
    /\ Elsewhere /\ UNCHANGED <<call, faults>>

Replaceable(old, t, operation) ==
    /\ attempts[old] # NoAttempt /\ old # t
    /\ attempts[old].replaced_by = NoTx /\ attempts[old].status # "indexed"
    /\ attempts[old].operation = operation

submit_replacement(t, operation, uri, old) ==
    /\ Accepts(t, operation, uri) /\ Replaceable(old, t, operation)
    /\ call' = [NoCall EXCEPT !.at = "transaction", !.does = "submit", !.tx = t,
                              !.new = NewAttempt(operation, uri, old), !.on = old]
    /\ Elsewhere /\ UNCHANGED <<attempts, faults>>

reconcile_registration(t) ==
    /\ call.at = "idle" /\ attempts[t] # NoAttempt
    /\ call' = [NoCall EXCEPT !.at = "transaction", !.tx = t,
                              !.on = IF attempts[t].replaced_by # NoTx
                                     THEN attempts[t].replaced_by ELSE t]
    /\ Elsewhere /\ UNCHANGED <<attempts, faults>>

Submits == \E t \in Txs, operation \in Operations :
              \E uri \in IF operation = "metadata" THEN Texts ELSE {NoText} :
                 \/ submit_registration(t, operation, uri)
                 \/ \E old \in Txs : submit_replacement(t, operation, uri, old)

Rpc == GetTransaction \/ GetReceipt \/ GetBlock \/ GetHead \/ Unavailable

Next ==
    \/ ChainMoves
    \/ IndexerCommit
    \/ \E name \in Texts : update_product(name)
    \/ Submits
    \/ \E t \in Txs : reconcile_registration(t)
    \/ Rpc

Spec == Init /\ [][Next]_vars
=============================================================================
