----------------------- MODULE RegistrationProperties -----------------------
(***************************************************************************)
(* What REGISTRATION_LIFECYCLE.md promises of registration attempts.       *)
(***************************************************************************)
EXTENDS Registration

VARIABLE forked   \* history: the chain forked while the handler was running

AllVars == <<vars, forked>>

AllInit == Init /\ forked = FALSE
AllNext == /\ Next
           /\ forked' = (call.at # "idle" /\ (forked \/ ~IsPrefix(chain, chain')))
AllSpec == AllInit /\ [][AllNext]_AllVars

Tracked(t) == attempts[t] # NoAttempt
DeepIn(c, t) == \E i \in InBlock(c, t) : i + Confirmations <= Len(c)
Becomes(t, status) ==
    /\ attempts'[t] # NoAttempt /\ attempts'[t].status = status
    /\ Tracked(t) => attempts[t].status # status

\* Links between attempts are true: what replaced an attempt was submitted
\* as its replacement, for the same operation, and has the same nonce, so
\* that only one of the two can ever be mined.  The API learns nonces one at
\* a time, from a provider that may have forgotten the original.
LinksSound ==
    \A x \in Txs : Tracked(x) =>
        LET y == attempts[x].replaced_by
            z == attempts[x].replaces IN
        /\ attempts[x].status = "replaced" => y # NoTx
        /\ y # NoTx => Tracked(y) /\ attempts[y].replaces = x
        /\ z # NoTx => Tracked(z) /\ Nonce[z] = Nonce[x]
                                  /\ attempts[z].operation = attempts[x].operation

\* Attempts, and what the open call has learnt so far, are well typed, and
\* links are sound.
RegistrationInv == RegistrationTypeOK /\ LinksSound

\* An attempt becomes indexed only when its transaction does what was asked
\* and the canonical journal holds its event in the very block that was
\* observed.
IndexedIsTrue ==
    [][\A t \in Txs : Becomes(t, "indexed") =>
          LET a == attempts'[t] IN
          /\ Kind[t] = a.operation
          /\ Says[t] = IF a.operation = "registration" THEN a.payload ELSE a.uri
          /\ \E i \in InBlock(indexed', t) : indexed'[i].hash = a.block /\ Success(indexed', i)
      ]_AllVars

RetiredBy(c) ==
    \A t \in Txs : Becomes(t, "replaced") => DeepIn(c, attempts'[t].replaced_by)

\* An attempt is retired only by a transaction that is mined and deep enough,
\* if the chain does not fork under the handler that observes it.
RetiredOnlyByConfirmed == [][~forked => RetiredBy(chain)]_AllVars

----------------------------------------------------------------------------
(* Liveness.  The owner refreshes every attempt now and again, an RPC call *)
(* ends, and the row lock is handed on, so the indexer gets it too.        *)

FairSpec ==
    /\ AllSpec
    /\ WF_AllVars(Rpc /\ AllNext)
    /\ SF_AllVars(IndexerCommit /\ AllNext)
    /\ \A t \in Txs : SF_AllVars(reconcile_registration(t) /\ AllNext)

Matches(t) ==
    /\ Kind[t] = attempts[t].operation
    /\ Says[t] = IF Kind[t] = "registration" THEN attempts[t].payload ELSE attempts[t].uri

\* Whatever was forgotten, forked or misread on the way, an attempt whose
\* transaction is on the chain for good, a chain that reaches what the
\* indexer had read, is in the end indexed, or failed if
\* the transaction reverted or is not what was asked, and what it was
\* submitted to replace is retired.
Settles ==
    <>[](\A t \in Txs : Tracked(t) /\ DeepIn(chain, t) /\ Len(indexed) <= Len(chain) =>
            /\ attempts[t].status =
                  IF Matches(t) /\ \A i \in InBlock(chain, t) : Success(chain, i)
                  THEN "indexed" ELSE "failed"
            /\ attempts[t].replaces # NoTx =>
                  attempts[attempts[t].replaces].status = "replaced")
=============================================================================
