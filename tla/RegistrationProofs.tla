------------------------- MODULE RegistrationProofs -------------------------
(***************************************************************************)
(* Links between attempts are true, an attempt is indexed only for its own *)
(* event, and retired only by a confirmed transaction: for any set of      *)
(* transactions, nonces and texts and any depth of confirmation.           *)
(*                                                                         *)
(* The handlers learn what they write one RPC call at a time, while the    *)
(* chain moves.  The inductive invariant is about the open call: what it   *)
(* knows of nonces, inputs and blocks is true, and the rows it was opened  *)
(* for are as they were, since it holds the product's lock.                *)
(***************************************************************************)
EXTENDS RegistrationProperties, SequenceTheorems, WellFoundedInduction, TLAPS

Open == call.at # "idle"

\* What an attempt says of its nonce and its original.
Linked(x) ==
    /\ attempts[x].status = "replaced" => attempts[x].replaced_by # NoTx
    /\ attempts[x].replaced_by # NoTx =>
          /\ Tracked(attempts[x].replaced_by)
          /\ attempts[attempts[x].replaced_by].replaces = x
    /\ attempts[x].replaces # NoTx =>
          /\ Tracked(attempts[x].replaces)
          /\ Nonce[attempts[x].replaces] = Nonce[x]
          /\ attempts[attempts[x].replaces].operation = attempts[x].operation

NonceKnown(nonce, t) == nonce \in {NoNonce, Nonce[t]}

AttemptsSound == \A x \in Txs : Tracked(x) => Linked(x) /\ NonceKnown(attempts[x].nonce, x)

\* The replacement that is being submitted, and its original.
SubmitSound ==
    LET old == call.new.replaces IN
    /\ call.new \in Attempt /\ ~Tracked(call.tx)
    /\ call.new.status = "submitted" /\ call.new.replaced_by = NoTx
    /\ old \in Txs \ {call.tx} /\ Tracked(old) /\ attempts[old].operation = call.new.operation
    /\ call.on \in {call.tx, old}
    /\ call.on = call.tx => call.prior \in Observation /\ NonceKnown(call.prior.nonce, old)

ReconcileSound ==
    /\ Tracked(call.tx)
    /\ call.on # call.tx => call.on = attempts[call.tx].replaced_by

CallSound ==
    Open => /\ call.tx \in Txs /\ call.on \in Txs /\ NonceKnown(call.nonce, call.on)
            /\ call.does = "submit" => SubmitSound
            /\ call.does = "reconcile" => ReconcileSound
            /\ call.at # "transaction" => Cancels \/ InputMatches

\* If the chain did not fork since the call was opened, the receipt is of it.
ReceiptSound ==
    ~forked /\ call.at \in {"block", "head"} =>
        call.receipt.height \in InBlock(chain, call.on)

IndexSound == IsIndexed => baseline # NoText

\* The inductive invariant.
RegistrationIInv ==
    /\ RegistrationTypeOK /\ Len(chain) <= mined /\ forked \in BOOLEAN
    /\ AttemptsSound /\ CallSound /\ ReceiptSound /\ IndexSound
AttemptsTyped == attempts \in [Txs -> Attempt \cup {NoAttempt}]

LEMMA Typed ==
    ASSUME RegistrationIInv
    PROVE  /\ chain \in Seq(Block) /\ indexed \in Seq(Block) /\ mined \in 0..MaxBlocks /\ pool \in SUBSET Txs
           /\ draft \in Texts /\ baseline \in Texts \cup {NoText} /\ AttemptsTyped /\ call \in Call
           /\ faults \in 0..MaxFaults /\ edits \in 0..MaxEdits /\ Len(chain) <= mined /\ forked \in BOOLEAN
           /\ AttemptsSound /\ CallSound /\ ReceiptSound /\ IndexSound
BY DEF RegistrationIInv, RegistrationTypeOK, AttemptsTyped

LEMMA TrackedIsAttempt ==
    ASSUME AttemptsTyped, NEW t \in Txs
    PROVE  Tracked(t) <=> attempts[t] \in Attempt
BY NoAttemptAssumption DEF AttemptsTyped, Tracked

----------------------------------------------------------------------------
(* Sequences, and the first registration of one.                           *)

LEMMA LeastOf ==
    ASSUME NEW S \in SUBSET Nat, S # {}
    PROVE  \E n \in S : \A m \in S : n <= m
<1>1. IsWellFoundedOn({ss \in Nat \X Nat : ss[1] < ss[2]}, Nat)
  BY NatLessThanWellFounded DEF OpToRel
<1>2. PICK n \in S : ~ \E m \in S : <<m, n>> \in {ss \in Nat \X Nat : ss[1] < ss[2]}
  BY <1>1, WFMin
<1>3. QED
  BY <1>2

LEMMA GreatestOf ==
    ASSUME NEW b \in Nat, NEW S \in SUBSET (0..b), S # {}
    PROVE  \E n \in S : \A m \in S : m <= n
<1> DEFINE D == {b - n : n \in S}
<1>1. D \in SUBSET Nat /\ D # {}
  <2>1. \A n \in S : n \in Nat /\ b - n \in Nat
    OBVIOUS
  <2>2. PICK n : n \in S
    OBVIOUS
  <2>3. b - n \in D
    BY <2>2
  <2>4. D \subseteq Nat
    BY <2>1
  <2>5. QED
    BY <2>3, <2>4
<1>2. PICK d \in D : \A m \in D : d <= m
  BY <1>1, LeastOf
<1>3. PICK n \in S : d = b - n
  BY <1>2
<1>4. ASSUME NEW m \in S
      PROVE  m <= n
  <2>1. d <= b - m
    BY <1>2
  <2>2. QED
    BY <1>3, <2>1
<1>5. QED
  BY <1>4

LEMMA PrefixTyped ==
    ASSUME NEW S, NEW s \in Seq(S), NEW n \in Int, n <= Len(s)
    PROVE  SubSeq(s, 1, n) \in Seq(S) /\ Len(SubSeq(s, 1, n)) = IF 1 <= n THEN n ELSE 0
<1>1. \A i \in 1..n : s[i] \in S
  BY ElementOfSeq
<1>2. Len(s) \in Nat
  BY LenProperties
<1>3. QED
  BY <1>1, <1>2, SubSeqProperties

\* The branch that is left of the journal is a journal.
LEMMA CommonPrefixTyped ==
    ASSUME NEW S, NEW s \in Seq(S), NEW t \in Seq(S)
    PROVE  LongestCommonPrefix({s, t}) \in Seq(S)
<1> DEFINE P == CommonPrefixes({s, t})
<1>1. P \subseteq Seq(S) /\ \A p \in P : Len(p) \in 0..Len(s)
  <2>1. ASSUME NEW p \in P
        PROVE  p \in Seq(S) /\ Len(p) \in 0..Len(s)
    <3>1. p \in Prefixes(s) \cup Prefixes(t) /\ IsPrefix(p, s)
      BY DEF CommonPrefixes
    <3>2. p \in Seq(S)
      BY <3>1, PrefixTyped DEF Prefixes
    <3>3. QED
      BY <3>1, <3>2, LenProperties DEF IsPrefix
  <2>2. QED
    BY <2>1
<1>2. <<>> \in P
  <2>1. Len(s) \in Nat /\ Len(t) \in Nat /\ SubSeq(s, 1, 0) = <<>> /\ SubSeq(t, 1, 0) = <<>> /\ Len(<<>>) = 0
    BY LenProperties, SubSeqEmpty, EmptySeq
  <2>2. <<>> \in Prefixes(s)
    BY <2>1 DEF Prefixes
  <2>3. IsPrefix(<<>>, s) /\ IsPrefix(<<>>, t)
    <3>1. SubSeq(<<>>, 1, 0) = <<>>
      BY SubSeqEmpty
    <3>2. QED
      BY <2>1, <3>1 DEF IsPrefix
  <2>4. QED
    BY <2>2, <2>3 DEF CommonPrefixes
<1> HIDE DEF P
<1>3. PICK longest \in P : \A other \in P : Len(other) <= Len(longest)
  <2> DEFINE L == {Len(p) : p \in P}
  <2>1. L \in SUBSET (0..Len(s)) /\ L # {} /\ Len(s) \in Nat
    <3>1. Len(<<>>) \in L
      BY <1>2
    <3>2. L \subseteq 0..Len(s)
      BY <1>1
    <3>3. QED
      BY <3>1, <3>2, LenProperties
  <2>2. PICK n \in L : \A m \in L : m <= n
    BY <2>1, GreatestOf
  <2>3. QED
    BY <2>2
<1>4. LongestCommonPrefix({s, t}) \in P
  BY <1>3 DEF LongestCommonPrefix, P
<1>5. QED
  BY <1>1, <1>4

\* An indexed product was registered by a transaction.
LEMMA RegisteredByTx ==
    ASSUME RegistrationIInv, IsIndexed
    PROVE  RegisteredBy \in Txs
<1> DEFINE R == Registrations(indexed)
<1>1. indexed \in Seq(Block) /\ DOMAIN indexed = 1..Len(indexed) /\ Len(indexed) \in Nat
  BY Typed, LenProperties
<1>2. R \in SUBSET Nat /\ R # {}
  BY <1>1 DEF Registrations, IsIndexed
<1>3. PICK i \in R : \A j \in R : i <= j
  BY <1>2, LeastOf
<1>4. Success(indexed, i)
  BY <1>3 DEF Success, Registrations
<1>5. \A j \in R : indexed[j] \in Block /\ indexed[j].tx # NoTx
  BY <1>1, ElementOfSeq DEF Registrations
<1>6. \A j \in R : indexed[j].tx \in Txs
  BY <1>5 DEF Block
<1>7. (CHOOSE j \in R : Success(indexed, j)) \in R
  BY <1>3, <1>4
<1>8. QED
  BY <1>6, <1>7 DEF RegisteredBy

LEMMA NewAttemptTyped ==
    ASSUME RegistrationIInv, NEW operation \in Operations, NEW uri \in Texts \cup {NoText}, NEW old \in Txs \cup {NoTx}
    PROVE  NewAttempt(operation, uri, old) \in Attempt
<1>1. Name \in Texts
  BY RegisteredByTx, Typed, RegistrationAssumption DEF Name
<1>2. QED
  BY <1>1 DEF NewAttempt, Attempt, AttemptStatuses, Unsettled
----------------------------------------------------------------------------
(* What an observation is worth.                                           *)

\* The observation o of the transaction the open call is on.
Seen(o) ==
    /\ o \in Observation /\ o.status \in {"submitted", "failed", "confirming", "indexing"}
    /\ NonceKnown(o.nonce, call.on)
    /\ o.status = "indexing" => InputMatches
    /\ confirmed_replacement(o) /\ ~forked => DeepIn(chain, call.on)

\* What becomes of an attempt in one step of the open call.
Justified(o) ==
    \A t \in Txs :
        /\ Becomes(t, "indexed") =>
              /\ Kind[t] = attempts'[t].operation
              /\ Says[t] = IF attempts'[t].operation = "registration"
                           THEN attempts'[t].payload ELSE attempts'[t].uri
              /\ Journalled(t, attempts'[t].block)
        /\ Becomes(t, "replaced") => confirmed_replacement(o) /\ attempts'[t].replaced_by = call.on

\* Links stay true while the tracked attempts keep what they replace.
LEMMA LinksKept ==
    ASSUME AttemptsSound, NEW t \in Txs, Tracked(t), Tracked(t)',
           \A s \in Txs : Tracked(s) => /\ Tracked(s)'
                                        /\ attempts'[s].replaces = attempts[s].replaces
                                        /\ attempts'[s].operation = attempts[s].operation,
           attempts'[t].status = "replaced" => attempts'[t].replaced_by # NoTx,
           attempts[t].replaced_by \in Txs \cup {NoTx}, attempts[t].replaces \in Txs \cup {NoTx},
           \/ attempts'[t].replaced_by \in {attempts[t].replaced_by, NoTx}
           \/ /\ attempts'[t].replaced_by \in Txs /\ Tracked(attempts'[t].replaced_by)
              /\ attempts[attempts'[t].replaced_by].replaces = t
    PROVE  Linked(t)'
<1>1. Linked(t)
  BY DEF AttemptsSound
<1>2. attempts'[t].replaced_by # NoTx =>
         /\ attempts'[attempts'[t].replaced_by] # NoAttempt
         /\ attempts'[attempts'[t].replaced_by].replaces = t
  BY <1>1 DEF Linked, Tracked
<1>3. attempts'[t].replaces # NoTx =>
         /\ attempts'[attempts'[t].replaces] # NoAttempt
         /\ Nonce[attempts'[t].replaces] = Nonce[t]
         /\ attempts'[attempts'[t].replaces].operation = attempts'[t].operation
  BY <1>1 DEF Linked, Tracked
<1>4. QED
  BY <1>2, <1>3 DEF Linked, Tracked

LEMMA LinkTyped ==
    ASSUME AttemptsTyped, NEW t \in Txs, Tracked(t)
    PROVE  /\ attempts[t] \in Attempt
           /\ attempts[t].replaced_by \in Txs \cup {NoTx} /\ attempts[t].replaces \in Txs \cup {NoTx}
           /\ attempts[t].nonce \in Nat \cup {NoNonce} /\ attempts[t].operation \in Operations
BY TrackedIsAttempt DEF Attempt

\* What a complete observation does to the rows and to the call.
ObserveSound(o) ==
    AttemptsTyped' /\ AttemptsSound' /\ call' \in Call /\ CallSound' /\ Justified(o)
    /\ call'.at \in {"idle", "transaction"}

LEMMA Answered ==
    ASSUME call' = NoCall
    PROVE  call' \in Call /\ CallSound' /\ call'.at = "idle"
<1>1. NoReceipt \in Receipt
  BY RegistrationAssumption DEF NoReceipt, Receipt
<1>2. NoCall \in Call
  BY <1>1 DEF NoCall, Call
<1>3. call'.at = "idle"
  BY DEF NoCall
<1>4. QED
  BY <1>2, <1>3 DEF CallSound, Open
\* The other transaction is read next.
LEMMA ReadNext ==
    ASSUME RegistrationIInv, Open, NEW o, Seen(o),
           \/ /\ call.does = "submit" /\ call.on # call.tx
              /\ call' = [Observing(call.tx) EXCEPT !.prior = o]
           \/ /\ call.does = "reconcile" /\ call' = Observing(call.tx),
           UNCHANGED attempts
    PROVE  ObserveSound(o)
<1>1. /\ call \in Call /\ call.tx \in Txs /\ AttemptsSound /\ AttemptsTyped
      /\ call.does = "submit" => SubmitSound
      /\ call.does = "reconcile" => ReconcileSound
  BY Typed DEF CallSound
<1>2. NoReceipt \in Receipt /\ o \in Observation
  BY RegistrationAssumption DEF NoReceipt, Receipt, Seen
<1>3. /\ call' \in Call /\ call'.at = "transaction" /\ call'.tx = call.tx /\ call'.on = call.tx
      /\ call'.does = call.does /\ call'.new = call.new /\ call'.nonce = NoNonce
      /\ call.does = "submit" => call'.prior = o
  BY <1>1, <1>2 DEF Observing, Call
<1>4. call.does = "submit" => SubmitSound'
  BY <1>1, <1>2, <1>3 DEF SubmitSound, Seen, NonceKnown, Tracked
<1>5. call.does = "reconcile" => ReconcileSound'
  BY <1>1, <1>3 DEF ReconcileSound, Tracked
<1>6. CallSound'
  BY <1>1, <1>3, <1>4, <1>5 DEF CallSound, NonceKnown, Open
<1>7. Justified(o)
  BY DEF Justified, Becomes, Tracked
<1>8. AttemptsTyped' /\ AttemptsSound'
  BY <1>1 DEF AttemptsTyped, AttemptsSound, Tracked, Linked, NonceKnown
<1>9. QED
  BY <1>3, <1>6, <1>7, <1>8 DEF ObserveSound

\* A replacement is recorded with the nonce it shares with its original.
LEMMA SubmittedSound ==
    ASSUME RegistrationIInv, Open, call.does = "submit", call.on = call.tx, NEW o, Seen(o),
           Submitted(call.prior, o)
    PROVE  ObserveSound(o)
<1>0. PICK tx, old, a : /\ tx \in Txs /\ tx = call.tx /\ old = call.new.replaces
                      /\ a = [call.new EXCEPT !.nonce = o.nonce]
  BY Typed DEF CallSound
<1> DEFINE n == o.nonce
<1>1. call \in Call /\ AttemptsSound /\ AttemptsTyped /\ SubmitSound
  BY Typed DEF CallSound
<1>2. /\ old \in Txs /\ old # tx /\ Tracked(old) /\ ~Tracked(tx) /\ call.new \in Attempt
      /\ attempts[old] \in Attempt /\ attempts[old].operation = call.new.operation
  BY <1>0, <1>1, LinkTyped DEF SubmitSound
<1>3. n \in Nat \cup {NoNonce} /\ NonceKnown(n, tx)
  BY <1>0 DEF Seen, Observation
<1>4. call' = NoCall /\ call' \in Call /\ CallSound' /\ call'.at = "idle"
  BY Answered DEF Submitted, Answer
<1>5. CASE attempts' = attempts
  <2>1. Justified(o)
    BY <1>5 DEF Justified, Becomes, Tracked
  <2>2. AttemptsTyped' /\ AttemptsSound'
    BY <1>1, <1>5 DEF AttemptsTyped, AttemptsSound, Tracked, Linked, NonceKnown
  <2>3. QED
    BY <1>4, <2>1, <2>2 DEF ObserveSound
<1>6. CASE attempts' # attempts
  <2>1. n # NoNonce /\ n = Nonce[old] /\ n = Nonce[tx]
    <3>1. SameNonce(old, call.prior, o)
      BY <1>0, <1>6 DEF Submitted, Answer
    <3>2. NonceKnown(call.prior.nonce, old) /\ NonceKnown(attempts[old].nonce, old)
      BY <1>0, <1>1, <1>2 DEF SubmitSound, AttemptsSound
    <3>3. QED
      BY <1>3, <3>1, <3>2 DEF SameNonce, NonceKnown
  <2>2. PICK b \in {[attempts[old] EXCEPT !.nonce = n],
                    [attempts[old] EXCEPT !.nonce = n, !.replaced_by = tx, !.status = "replaced"]} :
           /\ attempts' = [attempts EXCEPT ![tx] = a, ![old] = b]
           /\ b.status = "replaced" /\ attempts[old].status # "replaced" => confirmed_replacement(o)
    <3> DEFINE rows == [attempts EXCEPT ![tx] = a, ![old].nonce = n]
               plain == [attempts[old] EXCEPT !.nonce = n]
               gone == [attempts[old] EXCEPT !.nonce = n, !.replaced_by = tx, !.status = "replaced"]
    <3>1. rows = [attempts EXCEPT ![tx] = a, ![old] = plain]
      BY <1>1, <1>2 DEF AttemptsTyped
    <3>2. Retired(rows, old, tx) = [attempts EXCEPT ![tx] = a, ![old] = gone]
      BY <1>1, <1>2, RegistrationAssumption DEF AttemptsTyped, Retired
    <3>3. \/ confirmed_replacement(o) /\ attempts' = Retired(rows, old, tx)
          \/ attempts' = rows
      BY <1>0, <1>6 DEF Submitted, Answer
    <3>4. plain.status = attempts[old].status
      BY <1>2 DEF Attempt
    <3>5. CASE confirmed_replacement(o) /\ attempts' = Retired(rows, old, tx)
      BY <3>2, <3>5
    <3>6. CASE attempts' = rows
      BY <3>1, <3>4, <3>6
    <3>7. QED
      BY <3>3, <3>5, <3>6
  <2>3. /\ a \in Attempt /\ a.status = "submitted" /\ a.replaces = old /\ a.replaced_by = NoTx
        /\ a.operation = attempts[old].operation /\ a.nonce = n
    BY <1>0, <1>1, <1>2, <1>3 DEF SubmitSound, Attempt
  <2>4. /\ b \in Attempt /\ b.replaces = attempts[old].replaces /\ b.operation = attempts[old].operation
        /\ b.nonce = n
        /\ \/ b.replaced_by = attempts[old].replaced_by /\ b.status = attempts[old].status
           \/ b.replaced_by = tx /\ b.status = "replaced"
    BY <1>0, <1>1, <1>2, <1>3, <2>2 DEF Attempt, AttemptStatuses
  <2>5. /\ attempts'[tx] = a /\ attempts'[old] = b
        /\ \A t \in Txs \ {tx, old} : attempts'[t] = attempts[t]
    BY <1>0, <1>1, <1>2, <2>2 DEF AttemptsTyped
  <2> HIDE DEF n
  <2>6. AttemptsTyped'
    BY <1>1, <2>2, <2>3, <2>4 DEF AttemptsTyped
  <2>7. \A s \in Txs : Tracked(s) => /\ Tracked(s)'
                                     /\ attempts'[s].replaces = attempts[s].replaces
                                     /\ attempts'[s].operation = attempts[s].operation
    BY <1>2, <2>4, <2>5, NoAttemptAssumption DEF Tracked
  <2>8. Linked(tx)' /\ NonceKnown(attempts[tx].nonce, tx)'
    <3>1. attempts'[old] # NoAttempt /\ attempts'[old].operation = a.operation
      BY <2>3, <2>4, <2>5, NoAttemptAssumption
    <3>2. Linked(tx)'
      BY <2>1, <2>3, <2>5, <3>1 DEF Linked, Tracked
    <3>3. QED
      BY <2>1, <2>3, <2>5, <3>2 DEF NonceKnown
  <2>9. Linked(old)' /\ NonceKnown(attempts[old].nonce, old)'
    <3>1. Linked(old)
      BY <1>1, <1>2 DEF AttemptsSound, Linked
    <3>2. b.status = "replaced" => b.replaced_by # NoTx
      BY <1>0, <1>1, <1>2, <2>4, <3>1, RegistrationAssumption DEF Linked
    <3>3. attempts'[old].replaced_by # NoTx =>
             /\ attempts'[attempts'[old].replaced_by] # NoAttempt
             /\ attempts'[attempts'[old].replaced_by].replaces = old
      <4>1. CASE b.replaced_by = tx
        BY <2>3, <2>5, <4>1, NoAttemptAssumption
      <4>2. CASE b.replaced_by = attempts[old].replaced_by
        <5>1. b.replaced_by \in Txs \cup {NoTx}
          BY <2>4 DEF Attempt
        <5>2. QED
          BY <2>5, <2>7, <3>1, <4>2, <5>1 DEF Linked, Tracked
      <4>3. QED
        BY <2>4, <4>1, <4>2
    <3>4. attempts'[old].replaces # NoTx =>
             /\ attempts'[attempts'[old].replaces] # NoAttempt
             /\ Nonce[attempts'[old].replaces] = Nonce[old]
             /\ attempts'[attempts'[old].replaces].operation = attempts'[old].operation
      <4>1. attempts[old].replaces \in Txs \cup {NoTx}
        BY <1>1, <1>2, LinkTyped
      <4>2. QED
        BY <2>4, <2>5, <2>7, <3>1, <4>1 DEF Linked, Tracked
    <3>5. QED
      BY <2>1, <2>4, <2>5, <3>2, <3>3, <3>4 DEF Linked, NonceKnown, Tracked
  <2>10. ASSUME NEW t \in Txs \ {tx, old}, Tracked(t)
         PROVE  Linked(t)' /\ NonceKnown(attempts[t].nonce, t)'
    <3>1. attempts'[t] = attempts[t] /\ Tracked(t)' /\ Linked(t) /\ NonceKnown(attempts[t].nonce, t)
      BY <1>1, <2>5, <2>10 DEF Tracked, AttemptsSound
    <3>2. attempts[t].replaced_by \in Txs \cup {NoTx} /\ attempts[t].replaces \in Txs \cup {NoTx}
      BY <1>1, <2>10, LinkTyped
    <3>3. attempts'[t].status = "replaced" => attempts'[t].replaced_by # NoTx
      BY <3>1 DEF Linked
    <3>4. Linked(t)'
      BY <1>1, <2>7, <2>10, <3>1, <3>2, <3>3, LinksKept
    <3>5. QED
      BY <3>1, <3>4 DEF NonceKnown
  <2>11. AttemptsSound'
    BY <2>5, <2>8, <2>9, <2>10 DEF AttemptsSound, Tracked
  <2>12. Justified(o)
    <3>1. ASSUME NEW t \in Txs, Becomes(t, "indexed")
          PROVE  FALSE
      BY <1>2, <2>3, <2>4, <2>5, <3>1 DEF Becomes, Tracked
    <3>2. ASSUME NEW t \in Txs, Becomes(t, "replaced")
          PROVE  confirmed_replacement(o) /\ attempts'[t].replaced_by = call.on
      <4>1. t = old /\ b.status = "replaced" /\ attempts[old].status # "replaced"
        BY <1>2, <2>3, <2>4, <2>5, <3>2 DEF Becomes, Tracked
      <4>2. b.replaced_by = tx
        BY <2>4, <4>1
      <4>3. QED
        BY <1>0, <2>2, <2>5, <4>1, <4>2
    <3>3. QED
      BY <3>1, <3>2 DEF Justified
  <2>13. QED
    BY <1>4, <2>6, <2>11, <2>12 DEF ObserveSound
<1>7. QED
  BY <1>5, <1>6
\* The attempt takes what was observed of it, and retires its original.
LEMMA ReconciledSound ==
    ASSUME RegistrationIInv, Open, call.does = "reconcile", call.on = call.tx, NEW o, Seen(o),
           Reconciled(o)
    PROVE  ObserveSound(o)
<1>0. PICK x, old, found : /\ x \in Txs /\ x = call.tx /\ old = attempts[x].replaces
                          /\ found = indexed_observation(o, x)
  BY Typed DEF CallSound
<1>1. call \in Call /\ AttemptsSound /\ AttemptsTyped /\ Tracked(x) /\ attempts[x] \in Attempt
  BY <1>0, Typed, LinkTyped DEF CallSound, ReconcileSound
<1>2. old \in Txs \cup {NoTx} /\ (old # NoTx => Tracked(old) /\ attempts[old] \in Attempt)
  BY <1>0, <1>1, LinkTyped DEF AttemptsSound, Linked
<1>3. /\ found \in Observation /\ found.nonce = o.nonce /\ found.block = o.block /\ NonceKnown(o.nonce, x)
      /\ found.status \in {"submitted", "failed", "confirming", "indexing", "indexed"}
      /\ found.status = "indexed" => o.status = "indexing" /\ Journalled(x, o.block)
      /\ confirmed_replacement(found) => confirmed_replacement(o)
  <2>1. CASE o.status = "indexing" /\ Journalled(x, o.block)
    <3>1. found = [o EXCEPT !.status = "indexed"]
      BY <1>0, <2>1 DEF indexed_observation
    <3>2. QED
      BY <1>0, <2>1, <3>1 DEF Seen, Observation, AttemptStatuses, confirmed_replacement
  <2>2. CASE ~(o.status = "indexing" /\ Journalled(x, o.block))
    <3>1. found = o
      BY <1>0, <2>2 DEF indexed_observation
    <3>2. QED
      BY <1>0, <3>1 DEF Seen
  <2>3. QED
    BY <2>1, <2>2
<1>4. call' = NoCall /\ call' \in Call /\ CallSound' /\ call'.at = "idle"
  BY Answered DEF Reconciled, Answer
<1>a. PICK by : by = IF confirmed_replacement(found) THEN NoTx ELSE attempts[x].replaced_by
  OBVIOUS
<1>b. PICK a : a = [attempts[x] EXCEPT !.status = found.status, !.nonce = found.nonce,
                                       !.block = found.block, !.replaced_by = by]
  OBVIOUS
<1>5. /\ by \in {NoTx, attempts[x].replaced_by}
      /\ \/ attempts' = [attempts EXCEPT ![x] = a]
         \/ /\ old # NoTx /\ confirmed_replacement(found)
            /\ attempts' = Retired([attempts EXCEPT ![x] = a], old, x)
  <2> DEFINE rows == [attempts EXCEPT ![x] = a]
             written == [attempts EXCEPT ![x].status = found.status, ![x].nonce = found.nonce,
                                ![x].block = found.block,
                                ![x].replaced_by = IF confirmed_replacement(found) THEN NoTx ELSE @]
  <2>1. rows = written
    BY <1>0, <1>1, <1>a, <1>b DEF AttemptsTyped, Attempt
  <2>2. attempts' = IF confirmed_replacement(found) THEN Retired(written, old, x) ELSE written
    <3>1. found = indexed_observation(o, call.tx) /\ old = attempts[call.tx].replaces /\ x = call.tx
      BY <1>0
    <3>2. attempts' = LET row == [attempts EXCEPT
                                     ![call.tx].status = indexed_observation(o, call.tx).status,
                                     ![call.tx].nonce = indexed_observation(o, call.tx).nonce,
                                     ![call.tx].block = indexed_observation(o, call.tx).block,
                                     ![call.tx].replaced_by =
                                        IF confirmed_replacement(indexed_observation(o, call.tx))
                                        THEN NoTx ELSE @]
                      IN IF confirmed_replacement(indexed_observation(o, call.tx))
                         THEN Retired(row, attempts[call.tx].replaces, call.tx) ELSE row
      BY DEF Reconciled, Answer
    <3>3. QED
      BY <3>1, <3>2
  <2> HIDE DEF rows, written
  <2>3. \/ attempts' = rows
        \/ old # NoTx /\ confirmed_replacement(found) /\ attempts' = Retired(rows, old, x)
    BY <2>1, <2>2 DEF Retired
  <2>4. QED
    BY <1>a, <2>3 DEF rows
<1>6. /\ a \in Attempt /\ a.status = found.status /\ a.nonce = found.nonce /\ a.block = found.block
      /\ a.replaced_by = by /\ a.replaces = old /\ a.operation = attempts[x].operation
      /\ a.payload = attempts[x].payload /\ a.uri = attempts[x].uri
  BY <1>0, <1>1, <1>3, <1>5, <1>b DEF Attempt, Observation
<1>7. AttemptsTyped' /\ a # NoAttempt
      /\ \A t \in Txs : \/ attempts'[t] = attempts[t]
                        \/ t = x /\ attempts'[t] = a
                        \/ /\ t = old /\ old # NoTx /\ confirmed_replacement(found)
                           /\ attempts'[t] \in Attempt
                           /\ attempts'[t].status = "replaced" /\ attempts'[t].replaced_by = x
                           /\ attempts'[t].replaces = attempts[t].replaces
                           /\ attempts'[t].operation = attempts[t].operation
                           /\ IF t = x THEN attempts'[t].nonce = a.nonce
                                       ELSE attempts'[t].nonce = attempts[t].nonce
  <2>1. a # NoAttempt
    BY <1>6, NoAttemptAssumption
  <2>2. CASE attempts' = [attempts EXCEPT ![x] = a]
    BY <1>1, <1>6, <2>1, <2>2 DEF AttemptsTyped
  <2>3. CASE /\ old # NoTx /\ confirmed_replacement(found)
             /\ attempts' = Retired([attempts EXCEPT ![x] = a], old, x)
    <3> DEFINE rows == [attempts EXCEPT ![x] = a]
               gone == [rows[old] EXCEPT !.replaced_by = x, !.status = "replaced"]
    <3>1. attempts' = [rows EXCEPT ![old] = gone] /\ old \in Txs
      BY <1>1, <1>2, <2>3 DEF AttemptsTyped, Retired
    <3>2. rows \in [Txs -> Attempt \cup {NoAttempt}] /\ rows[x] = a /\ rows[old] \in Attempt
          /\ \A t \in Txs \ {x} : rows[t] = attempts[t]
      <4>1. rows \in [Txs -> Attempt \cup {NoAttempt}] /\ rows[x] = a
            /\ \A t \in Txs \ {x} : rows[t] = attempts[t]
        BY <1>0, <1>1, <1>6 DEF AttemptsTyped
      <4>2. rows[old] \in Attempt
        BY <1>2, <1>6, <3>1, <4>1, <2>3
      <4>3. QED
        BY <4>1, <4>2
    <3>3. rows[old].replaces = attempts[old].replaces /\ rows[old].operation = attempts[old].operation
      BY <1>0, <1>6, <3>1, <3>2
    <3>4. gone \in Attempt /\ gone.status = "replaced" /\ gone.replaced_by = x
          /\ gone.replaces = rows[old].replaces /\ gone.operation = rows[old].operation
          /\ gone.nonce = rows[old].nonce
      BY <1>0, <3>2 DEF Attempt, AttemptStatuses
    <3> HIDE DEF rows, gone
    <3>5. attempts'[old] = gone /\ \A t \in Txs \ {old} : attempts'[t] = rows[t]
      BY <3>1, <3>2
    <3>6. AttemptsTyped'
      BY <3>1, <3>2, <3>4 DEF AttemptsTyped
    <3>7. ASSUME NEW t \in Txs
          PROVE  t = old \/ attempts'[t] = attempts[t] \/ (t = x /\ attempts'[t] = a)
      BY <3>2, <3>5
    <3>8. /\ attempts'[old] \in Attempt
          /\ attempts'[old].status = "replaced" /\ attempts'[old].replaced_by = x
          /\ attempts'[old].replaces = attempts[old].replaces
          /\ attempts'[old].operation = attempts[old].operation
          /\ IF old = x THEN attempts'[old].nonce = a.nonce
                        ELSE attempts'[old].nonce = attempts[old].nonce
      BY <3>1, <3>2, <3>3, <3>4, <3>5
    <3>9. QED
      BY <2>1, <2>3, <3>6, <3>7, <3>8
  <2>4. QED
    BY <1>5, <2>2, <2>3
<1>8. \A s \in Txs : Tracked(s) => /\ Tracked(s)'
                                   /\ attempts'[s].replaces = attempts[s].replaces
                                   /\ attempts'[s].operation = attempts[s].operation
  BY <1>0, <1>6, <1>7, NoAttemptAssumption DEF Tracked
<1>9. ASSUME NEW t \in Txs, Tracked(t)'
      PROVE  Linked(t)' /\ NonceKnown(attempts[t].nonce, t)'
  <2>1. Tracked(t)
    BY <1>1, <1>2, <1>7, <1>9 DEF Tracked
  <2>2. Linked(t) /\ NonceKnown(attempts[t].nonce, t)
    BY <1>1, <2>1 DEF AttemptsSound
  <2>3. attempts[t].replaced_by \in Txs \cup {NoTx} /\ attempts[t].replaces \in Txs \cup {NoTx}
    BY <1>1, <2>1, LinkTyped
  <2>4. attempts'[t].status = "replaced" => attempts'[t].replaced_by # NoTx
    BY <1>0, <1>3, <1>6, <1>7, <2>2, RegistrationAssumption DEF Linked
  <2>5. \/ attempts'[t].replaced_by \in {attempts[t].replaced_by, NoTx}
        \/ /\ attempts'[t].replaced_by \in Txs /\ Tracked(attempts'[t].replaced_by)
           /\ attempts[attempts'[t].replaced_by].replaces = t
    BY <1>0, <1>1, <1>5, <1>6, <1>7
  <2>6. Linked(t)'
    BY <1>1, <1>8, <1>9, <2>1, <2>3, <2>4, <2>5, LinksKept
  <2>7. NonceKnown(attempts[t].nonce, t)'
    BY <1>3, <1>6, <1>7, <2>2 DEF NonceKnown
  <2>8. QED
    BY <2>6, <2>7
<1>10. AttemptsSound'
  BY <1>9 DEF AttemptsSound
<1>11. Justified(o)
  <2>1. ASSUME NEW t \in Txs, Becomes(t, "indexed")
        PROVE  /\ Kind[t] = attempts'[t].operation
               /\ Says[t] = IF attempts'[t].operation = "registration"
                            THEN attempts'[t].payload ELSE attempts'[t].uri
               /\ Journalled(t, attempts'[t].block)
    <3>1. t = x /\ attempts'[t] = a
      BY <1>7, <2>1 DEF Becomes, Tracked
    <3>2. o.status = "indexing" /\ Journalled(x, a.block)
      BY <1>3, <1>6, <2>1, <3>1 DEF Becomes
    <3>3. InputMatches /\ Subject = attempts[x]
      BY <1>0, <3>2 DEF Seen, Subject
    <3>4. QED
      BY <1>0, <1>6, <3>1, <3>2, <3>3 DEF InputMatches
  <2>2. ASSUME NEW t \in Txs, Becomes(t, "replaced")
        PROVE  confirmed_replacement(o) /\ attempts'[t].replaced_by = call.on
    BY <1>0, <1>3, <1>6, <1>7, <2>2 DEF Becomes, Tracked
  <2>3. QED
    BY <2>1, <2>2 DEF Justified
<1>12. QED
  BY <1>4, <1>7, <1>10, <1>11 DEF ObserveSound

\* The replacement is confirmed: the attempt is known to be retired.
LEMMA RetiredSound ==
    ASSUME RegistrationIInv, Open, call.does = "reconcile", call.on # call.tx, NEW o, Seen(o),
           confirmed_replacement(o), Answer([attempts EXCEPT ![call.tx].status = "replaced"])
    PROVE  ObserveSound(o)
<1>0. PICK x \in Txs : x = call.tx
  BY Typed DEF CallSound
<1>1. /\ call \in Call /\ AttemptsSound /\ AttemptsTyped /\ Tracked(x) /\ attempts[x] \in Attempt
      /\ call.on \in Txs /\ call.on = attempts[x].replaced_by
  BY <1>0, Typed, LinkTyped DEF CallSound, ReconcileSound
<1>2. call' = NoCall /\ call' \in Call /\ CallSound' /\ call'.at = "idle"
  BY Answered DEF Answer
<1>3. PICK a : a = [attempts[x] EXCEPT !.status = "replaced"]
  OBVIOUS
<1>4. /\ a \in Attempt /\ a.status = "replaced" /\ a.replaced_by = attempts[x].replaced_by
      /\ a.replaces = attempts[x].replaces /\ a.operation = attempts[x].operation
      /\ a.nonce = attempts[x].nonce /\ a # NoAttempt
  BY <1>1, <1>3, NoAttemptAssumption DEF Attempt, AttemptStatuses
<1>5. attempts' = [attempts EXCEPT ![x] = a]
  BY <1>0, <1>3 DEF Answer
<1>6. AttemptsTyped' /\ attempts'[x] = a /\ \A t \in Txs \ {x} : attempts'[t] = attempts[t]
  BY <1>1, <1>4, <1>5 DEF AttemptsTyped
<1>7. \A s \in Txs : Tracked(s) => /\ Tracked(s)'
                                   /\ attempts'[s].replaces = attempts[s].replaces
                                   /\ attempts'[s].operation = attempts[s].operation
  BY <1>4, <1>6 DEF Tracked
<1>8. ASSUME NEW t \in Txs, Tracked(t)'
      PROVE  Linked(t)' /\ NonceKnown(attempts[t].nonce, t)'
  <2>1. Tracked(t)
    BY <1>1, <1>6, <1>8 DEF Tracked
  <2>2. Linked(t) /\ NonceKnown(attempts[t].nonce, t)
    BY <1>1, <2>1 DEF AttemptsSound
  <2>3. attempts[t].replaced_by \in Txs \cup {NoTx} /\ attempts[t].replaces \in Txs \cup {NoTx}
    BY <1>1, <2>1, LinkTyped
  <2>4. attempts'[t].replaced_by = attempts[t].replaced_by
    BY <1>4, <1>6
  <2>5. attempts'[t].status = "replaced" => attempts'[t].replaced_by # NoTx
    BY <1>1, <1>4, <1>6, <2>2, RegistrationAssumption DEF Linked
  <2>6. Linked(t)'
    BY <1>1, <1>7, <1>8, <2>1, <2>3, <2>4, <2>5, LinksKept
  <2>7. NonceKnown(attempts[t].nonce, t)'
    BY <1>4, <1>6, <2>2 DEF NonceKnown
  <2>8. QED
    BY <2>6, <2>7
<1>9. AttemptsSound'
  BY <1>8 DEF AttemptsSound
<1>10. Justified(o)
  BY <1>1, <1>4, <1>6 DEF Justified, Becomes, Tracked
<1>11. QED
  BY <1>2, <1>6, <1>9, <1>10 DEF ObserveSound

LEMMA ObserveStep ==
    ASSUME RegistrationIInv, Open, NEW o, Seen(o), Observe(o)
    PROVE  ObserveSound(o)
<1>1. call.does \in {"submit", "reconcile"}
  BY Typed DEF Call
<1>2. CASE call.does = "submit" /\ call.on # call.tx
  <2>1. call' = [Observing(call.tx) EXCEPT !.prior = o] /\ UNCHANGED attempts
    BY <1>2 DEF Observe
  <2>2. QED
    BY <1>2, <2>1, ReadNext
<1>3. CASE call.does = "submit" /\ call.on = call.tx
  <2>1. Submitted(call.prior, o)
    BY <1>3 DEF Observe
  <2>2. QED
    BY <1>3, <2>1, SubmittedSound
<1>4. CASE call.does = "reconcile" /\ call.on # call.tx /\ confirmed_replacement(o)
  <2>1. Answer([attempts EXCEPT ![call.tx].status = "replaced"])
    BY <1>4 DEF Observe
  <2>2. QED
    BY <1>4, <2>1, RetiredSound
<1>5. CASE call.does = "reconcile" /\ call.on # call.tx /\ ~confirmed_replacement(o)
  <2>1. call' = Observing(call.tx) /\ UNCHANGED attempts
    BY <1>5 DEF Observe
  <2>2. QED
    BY <1>5, <2>1, ReadNext
<1>6. CASE call.does = "reconcile" /\ call.on = call.tx
  <2>1. Reconciled(o)
    BY <1>6 DEF Observe
  <2>2. QED
    BY <1>6, <2>1, ReconciledSound
<1>7. QED
  BY <1>1, <1>2, <1>3, <1>4, <1>5, <1>6
----------------------------------------------------------------------------
(* The RPC calls of a handler.                                             *)

\* The handler goes on to its next question about the same transaction.
Advances(point, n, r) ==
    call' = [call EXCEPT !.at = point, !.nonce = n, !.receipt = r] /\ UNCHANGED attempts

\* What one RPC call does to the rows, the call and its receipt.
RpcSound ==
    /\ AttemptsTyped' /\ AttemptsSound' /\ call' \in Call /\ CallSound'
    /\ call'.at \in {"block", "head"} =>
          /\ call'.on = call.on
          /\ \/ call.at \in {"block", "head"} /\ call'.receipt = call.receipt
             \/ call'.receipt.height \in InBlock(chain, call.on)
    /\ UNCHANGED attempts \/ \E o : Seen(o) /\ Justified(o)

LEMMA ObservationSound ==
    ASSUME RegistrationIInv, Open, NEW o, Seen(o), Observe(o)
    PROVE  RpcSound
<1>1. ObserveSound(o)
  BY ObserveStep
<1>2. QED
  BY <1>1 DEF ObserveSound, RpcSound

LEMMA AdvanceSound ==
    ASSUME RegistrationIInv, Open, NEW point \in {"receipt", "block", "head"},
           NEW n \in Nat \cup {NoNonce}, NEW r \in Receipt,
           NonceKnown(n, call.on), Cancels \/ InputMatches, Advances(point, n, r),
           point \in {"block", "head"} =>
              \/ call.at \in {"block", "head"} /\ r = call.receipt
              \/ r.height \in InBlock(chain, call.on)
    PROVE  RpcSound
<1>1. /\ call \in Call /\ AttemptsSound /\ AttemptsTyped /\ call.tx \in Txs /\ call.on \in Txs
      /\ call.does = "submit" => SubmitSound
      /\ call.does = "reconcile" => ReconcileSound
  BY Typed DEF CallSound
<1>2. call' = [call EXCEPT !.at = point, !.nonce = n, !.receipt = r] /\ attempts' = attempts
  BY DEF Advances
<1>3. /\ call' \in Call /\ call'.at = point /\ call'.tx = call.tx /\ call'.on = call.on /\ call'.nonce = n
      /\ call'.does = call.does /\ call'.new = call.new /\ call'.prior = call.prior /\ call'.receipt = r
  BY <1>1, <1>2 DEF Call
<1>4. call.does = "submit" => SubmitSound'
  BY <1>1, <1>2, <1>3 DEF SubmitSound, NonceKnown, Tracked
<1>5. call.does = "reconcile" => ReconcileSound'
  BY <1>1, <1>2, <1>3 DEF ReconcileSound, Tracked
<1>6. Cancels' \/ InputMatches'
  BY <1>2, <1>3 DEF Cancels, InputMatches, Subject
<1>7. CallSound'
  BY <1>1, <1>3, <1>4, <1>5, <1>6 DEF CallSound, NonceKnown
<1>8. AttemptsTyped' /\ AttemptsSound'
  BY <1>1, <1>2 DEF AttemptsTyped, AttemptsSound, Tracked, Linked, NonceKnown
<1>9. QED
  BY <1>2, <1>3, <1>7, <1>8 DEF RpcSound

\* What an observation that confirms nothing needs.
LEMMA UnconfirmedSeen ==
    ASSUME NEW status \in {"submitted", "failed", "confirming"}, NEW n \in Nat \cup {NoNonce},
           NEW b \in 1..MaxBlocks \cup {NoBlock}, NonceKnown(n, call.on)
    PROVE  Seen(Observed(status, FALSE, n, b))
<1>1. PICK o : o = Observed(status, FALSE, n, b)
  OBVIOUS
<1>2. o.status = status /\ o.final = FALSE /\ o.nonce = n
  BY <1>1 DEF Observed
<1>3. o \in Observation
  BY <1>1 DEF Observed, Observation, AttemptStatuses, Unsettled
<1>4. QED
  BY <1>1, <1>2, <1>3 DEF Seen, confirmed_replacement

LEMMA GetTransactionSound ==
    ASSUME RegistrationIInv, GetTransaction
    PROVE  RpcSound
<1>1. call.at = "transaction" /\ Open /\ call.on \in Txs /\ call \in Call
  BY Typed DEF GetTransaction, Asking, Open, CallSound
<1>2. PICK t \in Txs : t = call.on
  BY <1>1
<1>3. Nonce[t] \in Nat /\ Kind[t] \in Kinds
  BY RegistrationAssumption
<1>4. CASE Observe(Observed("submitted", FALSE, NoNonce, NoBlock))
  BY <1>1, <1>4, UnconfirmedSeen, ObservationSound DEF NonceKnown
<1>5. CASE Observe(Observed("failed", FALSE, NoNonce, NoBlock))
  BY <1>1, <1>5, UnconfirmedSeen, ObservationSound DEF NonceKnown
<1>6. CASE Observe(Observed("failed", FALSE, Nonce[t], NoBlock))
  BY <1>1, <1>2, <1>3, <1>6, UnconfirmedSeen, ObservationSound DEF NonceKnown
<1>7. CASE /\ Cancels \/ InputMatches
           /\ call' = [call EXCEPT !.at = "receipt", !.nonce = Nonce[t]] /\ UNCHANGED attempts
  <2>1. Advances("receipt", Nonce[t], call.receipt) /\ call.receipt \in Receipt
    BY <1>1, <1>7 DEF Advances, Call
  <2>2. QED
    BY <1>1, <1>2, <1>3, <1>7, <2>1, AdvanceSound DEF NonceKnown
<1>8. QED
  <2>1. t \notin pool => Observe(Observed("submitted", FALSE, NoNonce, NoBlock))
    BY <1>2 DEF GetTransaction
  <2>2. t \in pool /\ ~Cancels /\ Kind[t] \in {"foreign", "cancellation"} =>
           Observe(Observed("failed", FALSE, NoNonce, NoBlock))
    BY <1>2 DEF GetTransaction, Operations
  <2>3. t \in pool /\ ~Cancels /\ Kind[t] \in Operations /\ ~InputMatches =>
           Observe(Observed("failed", FALSE, Nonce[t], NoBlock))
    BY <1>2 DEF GetTransaction, Operations
  <2>4. t \in pool /\ (Cancels \/ (Kind[t] \in Operations /\ InputMatches)) =>
           call' = [call EXCEPT !.at = "receipt", !.nonce = Nonce[t]] /\ UNCHANGED attempts
    BY <1>2 DEF GetTransaction, Operations
  <2>5. Kind[t] \in {"foreign", "cancellation"} \/ Kind[t] \in Operations
    BY <1>3 DEF Kinds, Operations
  <2>6. QED
    BY <1>4, <1>5, <1>6, <1>7, <2>1, <2>2, <2>3, <2>4, <2>5

LEMMA GetReceiptSound ==
    ASSUME RegistrationIInv, GetReceipt
    PROVE  RpcSound
<1>1. /\ call.at = "receipt" /\ Open /\ call.on \in Txs /\ call.nonce \in Nat \cup {NoNonce}
      /\ NonceKnown(call.nonce, call.on) /\ (Cancels \/ InputMatches)
  BY Typed DEF GetReceipt, Asking, Open, CallSound, Call
<1>2. CASE Observe(Observed("submitted", FALSE, call.nonce, NoBlock))
  BY <1>1, <1>2, UnconfirmedSeen, ObservationSound
<1>3. CASE /\ InBlock(chain, call.on) # {}
           /\ \E i \in InBlock(chain, call.on) :
               /\ call' = [call EXCEPT !.at = "block",
                              !.receipt = [block |-> chain[i].hash, height |-> i,
                                           ok |-> Success(chain, i)]]
               /\ UNCHANGED attempts
  <2>1. PICK i \in InBlock(chain, call.on) :
           call' = [call EXCEPT !.at = "block", !.receipt = [block |-> chain[i].hash, height |-> i,
                                                             ok |-> Success(chain, i)]]
           /\ UNCHANGED attempts
    BY <1>3
  <2>2. PICK r : r = [block |-> chain[i].hash, height |-> i, ok |-> Success(chain, i)]
    OBVIOUS
  <2>3. i \in 1..MaxBlocks /\ chain[i] \in Block
    <3>1. chain \in Seq(Block) /\ Len(chain) <= mined /\ mined \in 0..MaxBlocks
      BY Typed
    <3>2. i \in 1..Len(chain) /\ Len(chain) \in Nat
      BY <3>1, LenProperties DEF InBlock
    <3>3. MaxBlocks \in Nat
      BY RegistrationAssumption
    <3>4. QED
      BY <3>1, <3>2, <3>3, ElementOfSeq
  <2>4. Success(chain, i) \in BOOLEAN
    <3>1. chain[i].tx = call.on
      BY DEF InBlock
    <3>2. CASE Kind[chain[i].tx] = "registration"
      BY <3>2 DEF Success
    <3>3. CASE Kind[chain[i].tx] = "metadata"
      BY <3>3 DEF Success
    <3>4. CASE Kind[chain[i].tx] \notin {"registration", "metadata"}
      BY <3>4 DEF Success
    <3>5. QED
      BY <3>2, <3>3, <3>4
  <2>5. r \in Receipt /\ r.height = i
    BY <2>2, <2>3, <2>4 DEF Block, Receipt
  <2>6. Advances("block", call.nonce, r)
    <3>1. call \in Call
      BY Typed
    <3>2. QED
      BY <2>1, <2>2, <3>1 DEF Advances, Call
  <2>7. QED
    BY <1>1, <2>5, <2>6, AdvanceSound
<1>4. QED
  BY <1>2, <1>3 DEF GetReceipt

LEMMA GetBlockSound ==
    ASSUME RegistrationIInv, GetBlock
    PROVE  RpcSound
<1>1. /\ call.at = "block" /\ Open /\ call.on \in Txs /\ call.nonce \in Nat \cup {NoNonce}
      /\ NonceKnown(call.nonce, call.on) /\ (Cancels \/ InputMatches)
      /\ call.receipt \in Receipt /\ call.receipt.block \in 1..MaxBlocks /\ call \in Call
  BY Typed DEF GetBlock, Asking, Open, CallSound, Call, Receipt
<1>2. CASE Observe(Observed("submitted", FALSE, call.nonce, call.receipt.block))
  BY <1>1, <1>2, UnconfirmedSeen, ObservationSound
<1>3. CASE call' = [call EXCEPT !.at = "head"] /\ UNCHANGED attempts
  <2>1. Advances("head", call.nonce, call.receipt)
    BY <1>1, <1>3 DEF Advances, Call
  <2>2. QED
    BY <1>1, <2>1, AdvanceSound
<1>4. QED
  BY <1>2, <1>3 DEF GetBlock

LEMMA GetHeadSound ==
    ASSUME RegistrationIInv, GetHead
    PROVE  RpcSound
<1>1. /\ call.at = "head" /\ Open /\ call.on \in Txs /\ call.nonce \in Nat \cup {NoNonce}
      /\ NonceKnown(call.nonce, call.on) /\ (Cancels \/ InputMatches)
      /\ call.receipt.block \in 1..MaxBlocks /\ call.receipt.height \in Nat /\ ReceiptSound
  BY Typed DEF GetHead, Asking, Open, CallSound, Call, Receipt
<1> DEFINE deep == Len(chain) - call.receipt.height >= Confirmations
           dead == ~call.receipt.ok \/ Cancels
           status == IF ~deep THEN "confirming" ELSE IF dead THEN "failed" ELSE "indexing"
<1>2. PICK o : o = Observed(status, deep /\ dead, call.nonce, call.receipt.block)
  OBVIOUS
<1>3. Observe(o)
  BY <1>2 DEF GetHead, Deep
<1>4. o.status = status /\ o.final = (deep /\ dead) /\ o.nonce = call.nonce
  BY <1>2 DEF Observed
<1>5. o \in Observation
  <2>1. status \in AttemptStatuses
    BY DEF AttemptStatuses, Unsettled
  <2>2. (deep /\ dead) \in BOOLEAN
    OBVIOUS
  <2> HIDE DEF status, deep, dead
  <2>3. QED
    BY <1>1, <1>2, <2>1, <2>2 DEF Observed, Observation
<1>6. o.status = "indexing" => InputMatches
  BY <1>1, <1>4
<1>7. confirmed_replacement(o) => deep
  BY <1>4 DEF confirmed_replacement
<1>8. deep /\ ~forked => DeepIn(chain, call.on)
  <2>1. Len(chain) \in Nat /\ Confirmations \in Nat
    BY Typed, LenProperties, RegistrationAssumption
  <2>2. ~forked => call.receipt.height \in InBlock(chain, call.on)
    BY <1>1 DEF ReceiptSound
  <2>3. deep => call.receipt.height + Confirmations <= Len(chain)
    BY <1>1, <2>1
  <2>4. QED
    BY <2>2, <2>3 DEF DeepIn
<1>9. Seen(o)
  BY <1>1, <1>4, <1>5, <1>6, <1>7, <1>8 DEF Seen
<1>10. QED
  BY <1>1, <1>3, <1>9, ObservationSound

LEMMA UnavailableSound ==
    ASSUME RegistrationIInv, Unavailable
    PROVE  RpcSound
<1>1. attempts' = attempts /\ call' = NoCall
  BY DEF Unavailable, Answer
<1>2. call' \in Call /\ CallSound' /\ call'.at = "idle"
  BY <1>1, Answered
<1>3. AttemptsTyped' /\ AttemptsSound'
  BY <1>1, Typed DEF AttemptsTyped, AttemptsSound, Tracked, Linked, NonceKnown
<1>4. QED
  BY <1>1, <1>2, <1>3 DEF RpcSound
----------------------------------------------------------------------------
(* Every step.                                                             *)

Forks == forked' = (call.at # "idle" /\ (forked \/ ~IsPrefix(chain, chain')))

\* The two action properties, of one step.
IndexedNow ==
    \A t \in Txs : Becomes(t, "indexed") =>
        LET a == attempts'[t] IN
        /\ Kind[t] = a.operation
        /\ Says[t] = IF a.operation = "registration" THEN a.payload ELSE a.uri
        /\ \E i \in InBlock(indexed', t) : indexed'[i].hash = a.block /\ Success(indexed', i)
RetiredNow == ~forked => RetiredBy(chain)

StepSound == RegistrationIInv' /\ IndexedNow /\ RetiredNow

LEMMA ForkedTyped ==
    ASSUME Forks
    PROVE  forked' \in BOOLEAN
BY DEF Forks

\* A call that does not change is as sound as it was.
LEMMA CallKept ==
    ASSUME CallSound, UNCHANGED <<call, attempts>>
    PROVE  CallSound'
BY DEF CallSound, Open, SubmitSound, ReconcileSound, Cancels, InputMatches, Subject, NonceKnown, Tracked

LEMMA AttemptsKept ==
    ASSUME AttemptsTyped, AttemptsSound, UNCHANGED attempts
    PROVE  AttemptsTyped' /\ AttemptsSound' /\ IndexedNow /\ RetiredNow
<1>1. AttemptsTyped' /\ AttemptsSound'
  BY DEF AttemptsTyped, AttemptsSound, Tracked, Linked, NonceKnown
<1>2. \A t \in Txs : ~Becomes(t, "indexed") /\ ~Becomes(t, "replaced")
  BY DEF Becomes, Tracked
<1>3. QED
  BY <1>1, <1>2 DEF IndexedNow, RetiredNow, RetiredBy

LEMMA PrefixOfSelf ==
    ASSUME NEW S, NEW s \in Seq(S)
    PROVE  IsPrefix(s, s)
BY LenProperties DEF IsPrefix

LEMMA RpcStep ==
    ASSUME RegistrationIInv, Rpc, Forks
    PROVE  StepSound
<1>1. RpcSound
  BY GetTransactionSound, GetReceiptSound, GetBlockSound, GetHeadSound, UnavailableSound DEF Rpc
<1>2. Open /\ Elsewhere
  BY DEF Rpc, GetTransaction, GetReceipt, GetBlock, GetHead, Unavailable, Asking, Open
<1>3. /\ chain' = chain /\ mined' = mined /\ pool' = pool /\ indexed' = indexed
      /\ draft' = draft /\ baseline' = baseline /\ edits' = edits
  BY <1>2 DEF Elsewhere, chainSide
<1>4. faults' \in 0..MaxFaults
  <2>1. faults \in 0..MaxFaults /\ MaxFaults \in Nat
    BY Typed, RegistrationAssumption
  <2>2. faults' = faults \/ (faults < MaxFaults /\ faults' = faults + 1)
    BY DEF Rpc, GetTransaction, GetReceipt, GetBlock, GetHead, Unavailable, Asking
  <2>3. QED
    BY <2>1, <2>2
<1>5. ~forked' => ~forked
  <2>1. IsPrefix(chain, chain')
    BY <1>3, Typed, PrefixOfSelf
  <2>2. QED
    BY <1>2, <2>1 DEF Forks, Open
<1>6. ReceiptSound'
  BY <1>1, <1>3, <1>5, Typed DEF RpcSound, ReceiptSound, InBlock
<1>7. IndexSound'
  BY <1>3, Typed DEF IndexSound, IsIndexed, Registrations
<1>8. RegistrationIInv'
  BY <1>1, <1>3, <1>4, <1>6, <1>7, Typed, ForkedTyped
     DEF RegistrationIInv, RegistrationTypeOK, RpcSound, AttemptsTyped
<1>9. IndexedNow /\ RetiredNow
  <2>1. CASE UNCHANGED attempts
    BY <2>1, Typed, AttemptsKept
  <2>2. CASE \E o : Seen(o) /\ Justified(o)
    <3>1. PICK o : Seen(o) /\ Justified(o)
      BY <2>2
    <3>2. IndexedNow
      BY <1>3, <3>1 DEF IndexedNow, Justified, Journalled
    <3>3. RetiredNow
      BY <3>1 DEF RetiredNow, RetiredBy, Justified, Seen
    <3>4. QED
      BY <3>2, <3>3
  <2>3. QED
    BY <1>1, <2>1, <2>2 DEF RpcSound
<1>10. QED
  BY <1>8, <1>9 DEF StepSound

LEMMA ChainStep ==
    ASSUME RegistrationIInv, ChainMoves, Forks
    PROVE  StepSound
<1>1. /\ indexed' = indexed /\ draft' = draft /\ baseline' = baseline /\ attempts' = attempts
      /\ call' = call /\ faults' = faults /\ edits' = edits
  BY DEF ChainMoves
<1>2. /\ chain \in Seq(Block) /\ mined \in 0..MaxBlocks /\ pool \in SUBSET Txs /\ Len(chain) <= mined
      /\ Len(chain) \in Nat /\ MaxBlocks \in Nat
  BY Typed, LenProperties, RegistrationAssumption
<1>3. chain' \in Seq(Block) /\ mined' \in 0..MaxBlocks /\ pool' \in SUBSET Txs /\ Len(chain') <= mined'
  <2>1. CASE \E t \in Txs : Broadcast(t) \/ Forget(t)
    BY <1>2, <2>1 DEF Broadcast, Forget
  <2>2. CASE \E t \in Txs \cup {NoTx} : Mine(t)
    <3>1. PICK t \in Txs \cup {NoTx} : Mine(t)
      BY <2>2
    <3>2. /\ mined < MaxBlocks /\ mined' = mined + 1 /\ pool' = pool
          /\ chain' = Append(chain, [hash |-> mined', tx |-> t])
      BY <3>1 DEF Mine
    <3>3. PICK b : b = [hash |-> mined', tx |-> t]
      OBVIOUS
    <3>4. mined' \in 1..MaxBlocks
      BY <1>2, <3>2
    <3>5. b \in Block
      BY <3>3, <3>4 DEF Block
    <3>6. chain' \in Seq(Block) /\ Len(chain') = Len(chain) + 1
      BY <1>2, <3>2, <3>3, <3>5, AppendProperties
    <3>7. QED
      BY <1>2, <3>2, <3>6
  <2>3. CASE Reorganize
    <3>1. PICK n \in 0..Len(chain) - 1 : chain' = SubSeq(chain, 1, n)
      BY <2>3 DEF Reorganize
    <3>2. chain' \in Seq(Block) /\ Len(chain') = IF 1 <= n THEN n ELSE 0
      BY <1>2, <3>1, PrefixTyped
    <3>3. QED
      BY <1>2, <2>3, <3>1, <3>2 DEF Reorganize
  <2>4. QED
    BY <2>1, <2>2, <2>3 DEF ChainMoves
<1>4. ReceiptSound'
  <2>1. SUFFICES ASSUME ~forked', call.at \in {"block", "head"}
                 PROVE  call.receipt.height \in InBlock(chain', call.on)
    BY <1>1 DEF ReceiptSound
  <2>2. IsPrefix(chain, chain') /\ ~forked
    BY <2>1 DEF Forks
  <2>3. call.receipt.height \in InBlock(chain, call.on)
    BY <2>1, <2>2, Typed DEF ReceiptSound
  <2>4. PICK h : h = call.receipt.height
    OBVIOUS
  <2>5. h \in 1..Len(chain) /\ chain[h].tx = call.on
    BY <1>2, <2>3, <2>4, LenProperties DEF InBlock
  <2>6. Len(chain) <= Len(chain') /\ SubSeq(chain, 1, Len(chain)) = SubSeq(chain', 1, Len(chain))
    BY <2>2 DEF IsPrefix
  <2>7. Len(chain') \in Nat /\ DOMAIN chain' = 1..Len(chain')
    BY <1>3, LenProperties
  <2>8. chain[h] = chain'[h]
    BY <1>2, <1>3, <2>5, <2>6, <2>7
  <2>9. h \in DOMAIN chain'
    BY <1>2, <2>5, <2>6, <2>7
  <2>10. QED
    BY <2>4, <2>5, <2>8, <2>9 DEF InBlock
<1>5. IndexSound'
  BY <1>1, Typed DEF IndexSound, IsIndexed, Registrations
<1>6. CallSound' /\ AttemptsTyped' /\ AttemptsSound' /\ IndexedNow /\ RetiredNow
  BY <1>1, Typed, CallKept, AttemptsKept
<1>7. RegistrationIInv'
  BY <1>1, <1>3, <1>4, <1>5, <1>6, Typed, ForkedTyped
     DEF RegistrationIInv, RegistrationTypeOK, AttemptsTyped
<1>8. QED
  BY <1>6, <1>7 DEF StepSound

LEMMA IndexerStep ==
    ASSUME RegistrationIInv, IndexerCommit, Forks
    PROVE  StepSound
<1>1. /\ chain' = chain /\ mined' = mined /\ pool' = pool /\ attempts' = attempts
      /\ call' = call /\ faults' = faults /\ edits' = edits /\ call.at = "idle"
      /\ baseline' = BaselineFor(indexed')
      /\ draft' = IF IsIndexed /\ Registrations(indexed') = {} THEN baseline ELSE draft
  BY DEF IndexerCommit, chainSide
<1>2. /\ chain \in Seq(Block) /\ indexed \in Seq(Block) /\ Len(chain) \in Nat
      /\ draft \in Texts /\ baseline \in Texts \cup {NoText} /\ IndexSound /\ NoText \notin Texts
  BY Typed, LenProperties, RegistrationAssumption
<1>3. indexed' \in Seq(Block)
  <2> DEFINE kept == LongestCommonPrefix({indexed, chain})
             target == Len(chain) - Confirmations
  <2>1. kept \in Seq(Block)
    BY <1>2, CommonPrefixTyped
  <2>2. Len(kept) \in Nat /\ Confirmations \in Nat
    BY <2>1, LenProperties, RegistrationAssumption
  <2>3. \/ \E n \in Len(kept) + 1 .. target : indexed' = SubSeq(chain, 1, n)
        \/ indexed' = kept
    BY DEF IndexerCommit
  <2> HIDE DEF kept
  <2>4. CASE \E n \in Len(kept) + 1 .. target : indexed' = SubSeq(chain, 1, n)
    <3>1. PICK n \in Len(kept) + 1 .. target : indexed' = SubSeq(chain, 1, n)
      BY <2>4
    <3>2. n \in Int /\ n <= Len(chain)
      BY <1>2, <2>2
    <3>3. QED
      BY <1>2, <3>1, <3>2, PrefixTyped
  <2>5. QED
    BY <2>1, <2>3, <2>4
<1>4. baseline' \in Texts \cup {NoText} /\ (Registrations(indexed') # {} => baseline' # NoText)
  BY <1>1, <1>2 DEF BaselineFor
<1>5. IndexSound'
  BY <1>4 DEF IndexSound, IsIndexed, Registrations
<1>6. draft' \in Texts
  BY <1>1, <1>2 DEF IndexSound
<1>7. ReceiptSound'
  BY <1>1 DEF ReceiptSound
<1>8. CallSound' /\ AttemptsTyped' /\ AttemptsSound' /\ IndexedNow /\ RetiredNow
  BY <1>1, Typed, CallKept, AttemptsKept
<1>9. RegistrationIInv'
  BY <1>1, <1>3, <1>4, <1>5, <1>6, <1>7, <1>8, Typed, ForkedTyped
     DEF RegistrationIInv, RegistrationTypeOK, AttemptsTyped
<1>10. QED
  BY <1>8, <1>9 DEF StepSound
LEMMA EditStep ==
    ASSUME RegistrationIInv, NEW name \in Texts, update_product(name), Forks
    PROVE  StepSound
<1>1. /\ chain' = chain /\ mined' = mined /\ pool' = pool /\ indexed' = indexed
      /\ baseline' = baseline /\ attempts' = attempts /\ call' = call /\ faults' = faults
      /\ draft' = name /\ edits < MaxEdits /\ edits' = edits + 1 /\ call.at = "idle"
  BY DEF update_product, chainSide
<1>2. edits' \in 0..MaxEdits
  BY <1>1, Typed, RegistrationAssumption
<1>3. ReceiptSound' /\ IndexSound'
  BY <1>1, Typed DEF ReceiptSound, IndexSound, IsIndexed, Registrations
<1>4. CallSound' /\ AttemptsTyped' /\ AttemptsSound' /\ IndexedNow /\ RetiredNow
  BY <1>1, Typed, CallKept, AttemptsKept
<1>5. RegistrationIInv'
  BY <1>1, <1>2, <1>3, <1>4, Typed, ForkedTyped
     DEF RegistrationIInv, RegistrationTypeOK, AttemptsTyped
<1>6. QED
  BY <1>4, <1>5 DEF StepSound

\* A new attempt has no link to any other.
LEMMA SubmitStep ==
    ASSUME RegistrationIInv, NEW t \in Txs, NEW operation \in Operations,
           NEW uri \in Texts \cup {NoText}, submit_registration(t, operation, uri), Forks
    PROVE  StepSound
<1>1. /\ chain' = chain /\ mined' = mined /\ pool' = pool /\ indexed' = indexed /\ draft' = draft
      /\ baseline' = baseline /\ call' = call /\ faults' = faults /\ edits' = edits
      /\ call.at = "idle" /\ ~Tracked(t)
  BY DEF submit_registration, Accepts, Elsewhere, chainSide, Tracked
<1>2. PICK a : a = NewAttempt(operation, uri, NoTx)
  OBVIOUS
<1>3. /\ a \in Attempt /\ a # NoAttempt /\ a.status = "submitted" /\ a.nonce = NoNonce
      /\ a.replaces = NoTx /\ a.replaced_by = NoTx
  <2>1. a \in Attempt
    BY <1>2, NewAttemptTyped
  <2>2. QED
    BY <1>2, <2>1, NoAttemptAssumption DEF NewAttempt
<1>4. AttemptsTyped' /\ attempts'[t] = a /\ \A s \in Txs \ {t} : attempts'[s] = attempts[s]
  BY <1>2, <1>3, Typed DEF submit_registration, AttemptsTyped
<1>5. ASSUME NEW s \in Txs, Tracked(s)'
      PROVE  Linked(s)' /\ NonceKnown(attempts[s].nonce, s)'
  <2>1. CASE s = t
    BY <1>3, <1>4, <2>1 DEF Linked, NonceKnown
  <2>2. CASE s # t
    <3>1. attempts'[s] = attempts[s] /\ Tracked(s)
      BY <1>4, <1>5, <2>2 DEF Tracked
    <3>2. Linked(s) /\ NonceKnown(attempts[s].nonce, s)
      BY <3>1, Typed DEF AttemptsSound
    <3>3. attempts[s].replaced_by \in Txs \cup {NoTx} /\ attempts[s].replaces \in Txs \cup {NoTx}
      BY <3>1, Typed, LinkTyped
    <3>4. \A y \in Txs : Tracked(y) => attempts'[y] = attempts[y] /\ Tracked(y)'
      BY <1>1, <1>4 DEF Tracked
    <3>5. attempts[s].replaced_by # NoTx =>
             /\ attempts'[attempts[s].replaced_by] = attempts[attempts[s].replaced_by]
             /\ attempts'[attempts[s].replaced_by] # NoAttempt
             /\ attempts[attempts[s].replaced_by].replaces = s
      BY <3>2, <3>3, <3>4 DEF Linked, Tracked
    <3>6. attempts[s].replaces # NoTx =>
             /\ attempts'[attempts[s].replaces] = attempts[attempts[s].replaces]
             /\ attempts'[attempts[s].replaces] # NoAttempt
      BY <3>2, <3>3, <3>4 DEF Linked, Tracked
    <3>7. Linked(s)'
      BY <3>1, <3>2, <3>5, <3>6 DEF Linked, Tracked
    <3>8. QED
      BY <3>1, <3>2, <3>7 DEF NonceKnown
  <2>3. QED
    BY <2>1, <2>2
<1>6. AttemptsSound'
  BY <1>5 DEF AttemptsSound
<1>7. CallSound' /\ ReceiptSound' /\ IndexSound'
  BY <1>1, Typed DEF CallSound, Open, ReceiptSound, IndexSound, IsIndexed, Registrations
<1>8. RegistrationIInv'
  BY <1>1, <1>4, <1>6, <1>7, Typed, ForkedTyped
     DEF RegistrationIInv, RegistrationTypeOK, AttemptsTyped
<1>9. \A s \in Txs : ~Becomes(s, "indexed") /\ ~Becomes(s, "replaced")
  BY <1>3, <1>4 DEF Becomes, Tracked
<1>10. QED
  BY <1>8, <1>9 DEF StepSound, IndexedNow, RetiredNow, RetiredBy

\* A handler that goes to the provider first.
LEMMA OpenStep ==
    ASSUME RegistrationIInv, Forks, Elsewhere, UNCHANGED <<attempts, faults>>,
           call' \in Call, CallSound', call'.at = "transaction"
    PROVE  StepSound
<1>1. /\ chain' = chain /\ mined' = mined /\ pool' = pool /\ indexed' = indexed /\ draft' = draft
      /\ baseline' = baseline /\ attempts' = attempts /\ faults' = faults /\ edits' = edits
  BY DEF Elsewhere, chainSide
<1>2. ReceiptSound' /\ IndexSound'
  BY <1>1, Typed DEF ReceiptSound, IndexSound, IsIndexed, Registrations
<1>3. AttemptsTyped' /\ AttemptsSound' /\ IndexedNow /\ RetiredNow
  BY <1>1, Typed, AttemptsKept
<1>4. RegistrationIInv'
  BY <1>1, <1>2, <1>3, Typed, ForkedTyped DEF RegistrationIInv, RegistrationTypeOK, AttemptsTyped
<1>5. QED
  BY <1>3, <1>4 DEF StepSound

LEMMA ReplaceStep ==
    ASSUME RegistrationIInv, NEW t \in Txs, NEW operation \in Operations,
           NEW uri \in Texts \cup {NoText}, NEW old \in Txs,
           submit_replacement(t, operation, uri, old), Forks
    PROVE  StepSound
<1>1. PICK a : a = NewAttempt(operation, uri, old)
  OBVIOUS
<1>2. /\ a \in Attempt /\ a.status = "submitted" /\ a.replaced_by = NoTx /\ a.replaces = old
      /\ a.operation = operation
  BY <1>1, NewAttemptTyped DEF NewAttempt
<1>3. /\ call.at = "idle" /\ ~Tracked(t) /\ Tracked(old) /\ old # t
      /\ attempts[old].operation = operation /\ attempts' = attempts
      /\ Elsewhere /\ UNCHANGED <<attempts, faults>>
  BY DEF submit_replacement, Accepts, Replaceable, Tracked
<1>4. NoReceipt \in Receipt
  BY RegistrationAssumption DEF NoReceipt, Receipt
<1>5. call' = [at |-> "transaction", does |-> "submit", tx |-> t, new |-> a, on |-> old,
               nonce |-> NoNonce, receipt |-> NoReceipt, prior |-> NoObservation]
  BY <1>1 DEF submit_replacement, NoCall
<1>6. call' \in Call
  BY <1>2, <1>4, <1>5 DEF Call
<1>7. SubmitSound'
  <2>1. call'.new = a /\ call'.tx = t /\ call'.on = old
    BY <1>5
  <2>2. QED
    BY <1>2, <1>3, <2>1 DEF SubmitSound, Tracked
<1>8. CallSound' /\ call'.at = "transaction"
  BY <1>5, <1>7 DEF CallSound, NonceKnown
<1>9. QED
  BY <1>3, <1>6, <1>8, OpenStep

LEMMA ReconcileStep ==
    ASSUME RegistrationIInv, NEW t \in Txs, reconcile_registration(t), Forks
    PROVE  StepSound
<1>1. PICK on : on = IF attempts[t].replaced_by # NoTx THEN attempts[t].replaced_by ELSE t
  OBVIOUS
<1>2. /\ Tracked(t) /\ attempts' = attempts /\ Elsewhere /\ UNCHANGED <<attempts, faults>>
  BY DEF reconcile_registration, Tracked
<1>3. on \in Txs /\ (on # t => on = attempts[t].replaced_by)
  BY <1>1, <1>2, Typed, LinkTyped
<1>4. NoReceipt \in Receipt
  BY RegistrationAssumption DEF NoReceipt, Receipt
<1>5. call' = [at |-> "transaction", does |-> "reconcile", tx |-> t, new |-> NoAttempt, on |-> on,
               nonce |-> NoNonce, receipt |-> NoReceipt, prior |-> NoObservation]
  BY <1>1 DEF reconcile_registration, NoCall
<1>6. call' \in Call
  BY <1>3, <1>4, <1>5 DEF Call
<1>7. ReconcileSound'
  BY <1>2, <1>3, <1>5 DEF ReconcileSound, Tracked
<1>8. CallSound' /\ call'.at = "transaction"
  BY <1>3, <1>5, <1>7 DEF CallSound, NonceKnown
<1>9. QED
  BY <1>2, <1>6, <1>8, OpenStep

LEMMA RegistrationInit == AllInit => RegistrationIInv
<1> SUFFICES ASSUME AllInit PROVE RegistrationIInv
  OBVIOUS
<1>1. /\ chain = <<>> /\ mined = 0 /\ pool = {} /\ indexed = <<>> /\ draft \in Texts /\ baseline = NoText
      /\ attempts = [t \in Txs |-> NoAttempt] /\ call = NoCall /\ faults = 0 /\ edits = 0 /\ forked = FALSE
  BY DEF AllInit, Init
<1>2. {MaxBlocks, MaxFaults, MaxEdits} \subseteq Nat
  BY RegistrationAssumption
<1>3. NoReceipt \in Receipt
  BY RegistrationAssumption DEF NoReceipt, Receipt
<1>4. NoCall \in Call /\ call.at = "idle"
  BY <1>1, <1>3 DEF NoCall, Call
<1>5. RegistrationTypeOK
  <2>1. chain \in Seq(Block) /\ indexed \in Seq(Block)
    BY <1>1
  <2>2. attempts \in [Txs -> Attempt \cup {NoAttempt}]
    BY <1>1
  <2>3. QED
    BY <1>1, <1>2, <1>4, <2>1, <2>2 DEF RegistrationTypeOK
<1>6. AttemptsSound
  BY <1>1 DEF AttemptsSound, Tracked
<1>7. CallSound /\ ReceiptSound
  BY <1>4 DEF CallSound, ReceiptSound, Open
<1>8. IndexSound
  BY <1>1 DEF IndexSound, IsIndexed, Registrations
<1>9. Len(chain) <= mined
  BY <1>1
<1>10. QED
  BY <1>1, <1>5, <1>6, <1>7, <1>8, <1>9 DEF RegistrationIInv

LEMMA RegistrationStep ==
    ASSUME RegistrationIInv, AllNext
    PROVE  StepSound
<1>1. Forks
  BY DEF AllNext, Forks
<1>2. CASE ChainMoves
  BY <1>1, <1>2, ChainStep
<1>3. CASE IndexerCommit
  BY <1>1, <1>3, IndexerStep
<1>4. CASE \E name \in Texts : update_product(name)
  BY <1>1, <1>4, EditStep
<1>5. CASE Submits
  <2>1. PICK t \in Txs, operation \in Operations :
           \E uri \in IF operation = "metadata" THEN Texts ELSE {NoText} :
              \/ submit_registration(t, operation, uri)
              \/ \E old \in Txs : submit_replacement(t, operation, uri, old)
    BY <1>5 DEF Submits
  <2>2. PICK uri \in Texts \cup {NoText} :
           \/ submit_registration(t, operation, uri)
           \/ \E old \in Txs : submit_replacement(t, operation, uri, old)
    BY <2>1
  <2>3. QED
    BY <1>1, <2>2, SubmitStep, ReplaceStep
<1>6. CASE \E t \in Txs : reconcile_registration(t)
  BY <1>1, <1>6, ReconcileStep
<1>7. CASE Rpc
  BY <1>1, <1>7, RpcStep
<1>8. QED
  BY <1>2, <1>3, <1>4, <1>5, <1>6, <1>7 DEF AllNext, Next

LEMMA RegistrationStutter ==
    ASSUME RegistrationIInv, UNCHANGED AllVars
    PROVE  RegistrationIInv'
<1>1. /\ chain' = chain /\ mined' = mined /\ pool' = pool /\ indexed' = indexed /\ draft' = draft
      /\ baseline' = baseline /\ attempts' = attempts /\ call' = call /\ faults' = faults
      /\ edits' = edits /\ forked' = forked
  BY DEF AllVars, vars
<1>2. ReceiptSound' /\ IndexSound'
  BY <1>1, Typed DEF ReceiptSound, InBlock, IndexSound, IsIndexed, Registrations
<1>3. CallSound' /\ AttemptsTyped' /\ AttemptsSound'
  BY <1>1, Typed, CallKept, AttemptsKept
<1>4. QED
  BY <1>1, <1>2, <1>3, Typed DEF RegistrationIInv, RegistrationTypeOK, AttemptsTyped

LEMMA RegistrationInductive == AllSpec => []RegistrationIInv
<1>1. RegistrationIInv /\ [AllNext]_AllVars => RegistrationIInv'
  BY RegistrationStep, RegistrationStutter DEF StepSound
<1>2. QED
  BY <1>1, RegistrationInit, PTL DEF AllSpec

\* Attempts are well typed, and what the rows say of each other is true:
\* a retired attempt names its replacement, which names it, uses its nonce
\* and does what it did.
THEOREM LinksAlwaysSound == AllSpec => []RegistrationInv
<1>1. RegistrationIInv => RegistrationInv
  BY DEF RegistrationIInv, RegistrationInv, AttemptsSound, Linked, LinksSound
<1>2. QED
  BY <1>1, RegistrationInductive, PTL

\* Whatever else the chain and the owner do while the provider is asked, an
\* attempt that becomes indexed did what it says, in the block it names.
THEOREM IndexedForItsEvent == AllSpec => IndexedIsTrue
<1>1. RegistrationIInv /\ [AllNext]_AllVars => [IndexedNow]_AllVars
  BY RegistrationStep DEF StepSound
<1>2. QED
  BY <1>1, RegistrationInductive, PTL DEF AllSpec, IndexedIsTrue, IndexedNow

\* An attempt is retired only by a transaction that is Confirmations deep,
\* unless the chain forked under the handler.
THEOREM RetiredForGood == AllSpec => RetiredOnlyByConfirmed
<1>1. RegistrationIInv /\ [AllNext]_AllVars => [RetiredNow]_AllVars
  BY RegistrationStep DEF StepSound
<1>2. QED
  BY <1>1, RegistrationInductive, PTL DEF AllSpec, RetiredOnlyByConfirmed, RetiredNow
=============================================================================
