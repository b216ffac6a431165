-------------------------- MODULE RehearsalProofs --------------------------
(***************************************************************************)
(* What a rehearsal reports is true, what it applies fits the digest that  *)
(* was entered, and it works on a branch of its own: for any set of runs,  *)
(* environments and rows, any number of forks and of failures.             *)
(*                                                                         *)
(* The argument is one run at a time.  No step of a run changes the        *)
(* ledger, the branch or the copy of another, and the chain, which they    *)
(* share, only moves on: a target that is still canonical when it is       *)
(* compared was canonical all the time since it was chosen.                *)
(***************************************************************************)
EXTENDS Rehearsal, FiniteSetTheorems, TLAPS

\* The phases after the target was found canonical with its logs read, and
\* those after the plan was applied.
Replaying == {"fixed1", "fixed2", "fixed3", "live", "settle"}
Rechecked == Replaying \cup {"review", "commit"}
Unapplied == {"answer", "verify", "restore", "reconcile", "scan", "recheck", "review", "commit"}

RunTyped(r) ==
    /\ run[r] \in Coordinator /\ provider[r] \in Branch
    /\ provider[r] = "none" => copy[r] = None
    /\ provider[r] # "none" => copy[r] \in Database

\* What the ledger knows of the branch, and what a step may do to it.
LedgerSound(r) ==
    /\ run[r].ledger = "absent" /\ ~At(r, "over") => provider[r] = "none"
    /\ run[r].ledger = "named" => provider[r] \in {"there", "gone"}
    /\ run[r].pc \in {"start", "request", "post"} => provider[r] = "none"
    /\ run[r].pc \in Body \ {"request"} => run[r].ledger # "absent"
    /\ run[r].pc \in Unapplied \cup Replaying => provider[r] # "none"
    /\ run[r].pc \in Phases => provider[r] = "there" /\ r \notin late
    /\ r \in expired => At(r, "over")

CleanupSound(r) ==
    /\ run[r].cleanup # "unknown" => run[r].pc \in {"report", "retry", "over"}
    /\ At(r, "report") => run[r].cleanup # "unknown"
    /\ run[r].cleanup \in {"not_created", "already_deleted", "deleted"} => provider[r] \in {"none", "gone"}

\* The logs are read from the branch of the target.
PlanSound(r) ==
    /\ run[r].pc \in Phases \ {"reconcile"} => run[r].target \in 0..chain
    /\ At(r, "recheck") => run[r].events \in run[r].target..chain
    /\ run[r].pc \in Rechecked => run[r].events = run[r].target

\* What is applied is what the plan was made from, and what was approved.
AppliedSound(r) ==
    /\ At(r, "commit") => /\ copy[r].rows # {} /\ copy[r].rows \cap Conflicting = {}
                          /\ run[r].plan = PlanOf(copy[r].rows, run[r].target)
                          /\ run[r].approved = run[r].plan
    /\ run[r].pc \in Replaying => copy[r].rows = {} /\ run[r].plan = PlanOf(copy[r].applied, run[r].target)
    /\ run[r].pc \in Unapplied => copy[r].applied = {}
    /\ provider[r] # "none" /\ copy[r].applied # {} =>
          /\ run[r].approved = PlanOf(copy[r].applied, run[r].events)
          /\ copy[r].applied \cap Conflicting = {}

ReplaySound(r) ==
    /\ run[r].pc \in Replaying => run[r].prefixes \subseteq {run[r].target}
    /\ run[r].pc \in {"start", "request", "post"} \cup Unapplied => run[r].prefixes = {}

\* A state that may become a result, and a result.
OutcomeSound(r) ==
    /\ run[r].pc \in {"start"} \cup Body => run[r].state = "working"
    /\ run[r].state = "completed" =>
          /\ provider[r] # "none"
          /\ run[r].prefixes = {run[r].target} /\ copy[r].journal = run[r].target
          /\ copy[r].rows = {} /\ run[r].plan = PlanOf(copy[r].applied, run[r].target)
    /\ run[r].state = "review" =>
          /\ provider[r] # "none" /\ copy[r].applied = {}
          /\ run[r].plan = PlanOf(copy[r].rows, run[r].target)
    /\ run[r].result # "blocked" =>
          /\ run[r].pc \in {"retry", "over"}
          /\ run[r].archive = "encrypted" /\ provider[r] = "gone"
          /\ run[r].state = IF run[r].result = "pass" THEN "completed" ELSE "review"

RunSound(r) ==
    /\ RunTyped(r) /\ LedgerSound(r) /\ CleanupSound(r) /\ PlanSound(r)
    /\ AppliedSound(r) /\ ReplaySound(r) /\ OutcomeSound(r)

WorldTyped ==
    /\ forks \in 0..MaxForks /\ chain = forks /\ faults \in 0..MaxFaults
    /\ prod \subseteq Rows
    /\ expired \subseteq Runs /\ late \subseteq Runs
    /\ provider \in [Runs -> Branch] /\ run \in [Runs -> Coordinator]
    /\ copy \in [Runs -> Database \cup {None}]

\* The inductive invariant.
RehearsalIInv ==
    /\ WorldTyped
    /\ \A r \in Runs : RunSound(r)

----------------------------------------------------------------------------
(* Steps of one run leave the others alone.                                *)

\* A run whose coordinator, branch and copy stay as they are stays sound.
LEMMA Unmoved ==
    ASSUME NEW r \in Runs, RunSound(r),
           run'[r] = run[r], copy'[r] = copy[r], provider'[r] = provider[r],
           chain \in Nat, chain' \in Nat, chain <= chain',
           r \in late' => r \in late, r \in expired' => r \in expired
    PROVE  RunSound(r)'
<1>1. /\ RunTyped(r)' /\ LedgerSound(r)' /\ CleanupSound(r)' /\ AppliedSound(r)'
      /\ ReplaySound(r)' /\ OutcomeSound(r)'
  BY DEF RunSound, RunTyped, LedgerSound, CleanupSound, AppliedSound, ReplaySound, OutcomeSound, At
<1>2. PlanSound(r)'
  <2>1. PlanSound(r) /\ RunTyped(r)
    BY DEF RunSound
  <2>2. run[r].pc \in Phases \ {"reconcile"} => run[r].target \in 0..chain'
    BY <2>1 DEF PlanSound
  <2>3. At(r, "recheck") => run[r].events \in run[r].target..chain'
    <3>1. HAVE At(r, "recheck")
    <3>2. run[r].target \in 0..chain
      BY <2>1, <3>1 DEF PlanSound, At, Phases
    <3>3. QED
      BY <2>1, <3>1, <3>2 DEF PlanSound
  <2>4. QED
    BY <2>1, <2>2, <2>3 DEF PlanSound, At
<1>3. QED
  BY <1>1, <1>2 DEF RunSound

\* A step of r is to be shown for r only.
LEMMA StepOfRun ==
    ASSUME RehearsalIInv, WorldTyped', NEW r \in Runs, RunSound(r)',
           \A q \in Runs \ {r} : /\ run'[q] = run[q] /\ copy'[q] = copy[q]
                                 /\ provider'[q] = provider[q],
           chain' = chain, late' \subseteq late \cup {r}, expired' \subseteq expired \cup {r}
    PROVE  RehearsalIInv'
<1>1. chain \in Nat
  BY DEF RehearsalIInv, WorldTyped
<1>2. \A q \in Runs : RunSound(q)'
  BY <1>1, Unmoved DEF RehearsalIInv
<1>3. QED
  BY <1>2 DEF RehearsalIInv

\* The plan of some rows has its type.
LEMMA PlanTyped ==
    ASSUME NEW rows \in SUBSET Rows, NEW target \in Hashes
    PROVE  PlanOf(rows, target) \in Digests
<1>1. IsFiniteSet(Rows) /\ Cardinality(Rows) \in Nat
  BY RehearsalAssumption, FS_CardinalityType
<1>2. rows \ Named \subseteq Rows
  OBVIOUS
<1>3. /\ IsFiniteSet(rows \ Named) /\ Cardinality(rows \ Named) <= Cardinality(Rows)
      /\ Cardinality(rows \ Named) \in Nat
  BY <1>1, <1>2, FS_Subset, FS_CardinalityType
<1>4. QED
  BY <1>1, <1>3 DEF PlanOf, Digests

\* A run goes on or is blocked: only its coordinator changes.
Coordinated(r, c) == run' = [run EXCEPT ![r] = c] /\ UNCHANGED <<world, provider, copy>>

LEMMA CoordinatorStep ==
    ASSUME RehearsalIInv, NEW r \in Runs, NEW c \in Coordinator, Coordinated(r, c),
           faults' \in 0..MaxFaults,
           LedgerSound(r)', CleanupSound(r)', PlanSound(r)', AppliedSound(r)', ReplaySound(r)',
           OutcomeSound(r)'
    PROVE  RehearsalIInv'
<1>1. WorldTyped'
  BY DEF RehearsalIInv, WorldTyped, Coordinated, world
<1>2. run'[r] = c /\ UNCHANGED <<world, provider, copy>>
  BY DEF RehearsalIInv, WorldTyped, Coordinated
<1>3. RunSound(r)'
  BY <1>2 DEF RehearsalIInv, RunSound, RunTyped
<1>4. \A q \in Runs \ {r} : run'[q] = run[q] /\ copy'[q] = copy[q] /\ provider'[q] = provider[q]
  BY <1>2 DEF RehearsalIInv, WorldTyped, Coordinated
<1>5. QED
  BY <1>1, <1>2, <1>3, <1>4, StepOfRun DEF world

\* The body is left: whatever was known of the phase is not needed any more.
LEMMA Blocked ==
    ASSUME RehearsalIInv, NEW r \in Runs, run[r].pc \in Body, Block(r),
           faults' \in 0..MaxFaults, UNCHANGED <<world, provider, copy>>
    PROVE  RehearsalIInv'
<1> DEFINE c == [run[r] EXCEPT !.pc = "intent", !.state = "blocked"]
<1>1. run[r] \in Coordinator /\ RunSound(r)
  BY DEF RehearsalIInv, WorldTyped
<1>2. c \in Coordinator
  BY <1>1 DEF Coordinator, Steps
<1>3. Coordinated(r, c) /\ run'[r] = c
  BY DEF Coordinated, Block, RehearsalIInv, WorldTyped
<1>5. LedgerSound(r)' /\ CleanupSound(r)'
  BY <1>1, <1>3 DEF RunSound, LedgerSound, CleanupSound, At, Body, Phases, Unapplied, Replaying, Coordinator, world
<1>6. PlanSound(r)' /\ AppliedSound(r)' /\ ReplaySound(r)'
  BY <1>1, <1>3 DEF RunSound, PlanSound, AppliedSound, ReplaySound, At, Body, Phases, Unapplied, Rechecked, Replaying, Coordinator, world
<1>7. OutcomeSound(r)'
  BY <1>1, <1>3 DEF RunSound, OutcomeSound, At, Body, Phases, Coordinator, world
<1>8. QED
  BY <1>2, <1>3, <1>5, <1>6, <1>7, CoordinatorStep

\* What the invariant says of a run.
LEMMA Typed ==
    ASSUME RehearsalIInv, NEW r \in Runs
    PROVE  /\ run[r] \in Coordinator /\ provider[r] \in Branch /\ chain \in Hashes
           /\ RunSound(r) /\ WorldTyped
           /\ LedgerSound(r) /\ CleanupSound(r) /\ PlanSound(r)
           /\ AppliedSound(r) /\ ReplaySound(r) /\ OutcomeSound(r)
BY DEF RehearsalIInv, WorldTyped, RunSound, Hashes

\* A field changes within its type and the coordinator keeps its own.
LEMMA FieldMoves ==
    ASSUME NEW a \in Coordinator
    PROVE  /\ \A x \in Steps : [a EXCEPT !.pc = x] \in Coordinator
           /\ \A x \in {"absent", "intent", "named"} : [a EXCEPT !.ledger = x] \in Coordinator
           /\ \A x \in Digests \cup {None} : [a EXCEPT !.approved = x] \in Coordinator
           /\ \A x \in Digests \cup {None} : [a EXCEPT !.plan = x] \in Coordinator
           /\ \A x \in Hashes \cup {None} : [a EXCEPT !.target = x] \in Coordinator
           /\ \A x \in Hashes \cup {None} : [a EXCEPT !.events = x] \in Coordinator
           /\ \A x \in {"working", "blocked", "review", "completed"} : [a EXCEPT !.state = x] \in Coordinator
           /\ \A x \in {"none", "encrypted", "failed"} : [a EXCEPT !.archive = x] \in Coordinator
           /\ \A x \in {"unknown", "not_created", "already_deleted", "deleted", "failed"} :
                  [a EXCEPT !.cleanup = x] \in Coordinator
           /\ \A x \in {"blocked", "pass", "review_required"} : [a EXCEPT !.result = x] \in Coordinator
<1>1. ASSUME NEW x \in Steps PROVE [a EXCEPT !.pc = x] \in Coordinator
  BY DEF Coordinator
<1>2. ASSUME NEW x \in {"absent", "intent", "named"} PROVE [a EXCEPT !.ledger = x] \in Coordinator
  BY DEF Coordinator
<1>3. ASSUME NEW x \in Hashes \cup {None} PROVE [a EXCEPT !.target = x] \in Coordinator
  BY DEF Coordinator
<1>4. ASSUME NEW x \in Hashes \cup {None} PROVE [a EXCEPT !.events = x] \in Coordinator
  BY DEF Coordinator
<1>5. ASSUME NEW x \in {"working", "blocked", "review", "completed"} PROVE [a EXCEPT !.state = x] \in Coordinator
  BY DEF Coordinator
<1>6. ASSUME NEW x \in {"none", "encrypted", "failed"} PROVE [a EXCEPT !.archive = x] \in Coordinator
  BY DEF Coordinator
<1>7. ASSUME NEW x \in {"unknown", "not_created", "already_deleted", "deleted", "failed"}
      PROVE  [a EXCEPT !.cleanup = x] \in Coordinator
  BY DEF Coordinator
<1>8. ASSUME NEW x \in {"blocked", "pass", "review_required"} PROVE [a EXCEPT !.result = x] \in Coordinator
  BY DEF Coordinator
<1>9. ASSUME NEW x \in Digests \cup {None} PROVE [a EXCEPT !.approved = x] \in Coordinator
  BY DEF Coordinator
<1>10. ASSUME NEW x \in Digests \cup {None} PROVE [a EXCEPT !.plan = x] \in Coordinator
  BY DEF Coordinator
<1>11. QED
  BY <1>1, <1>2, <1>3, <1>4, <1>5, <1>6, <1>7, <1>8, <1>9, <1>10
\* Its coordinator has its type.
LEMMA Mine ==
    ASSUME RehearsalIInv, NEW r \in Runs
    PROVE  run[r] \in Coordinator
BY DEF RehearsalIInv, WorldTyped

\* The points a step of a coordinator is left at.
LEMMA StepNames ==
    {"request", "post", "verify", "scan", "recheck", "fixed1", "commit", "intent", "archive", "cleanup", "report",
     "retry", "over"} \subseteq Steps
BY DEF Steps, Body, Phases

LEMMA Failed ==
    ASSUME RehearsalIInv, Fault
    PROVE  faults' \in 0..MaxFaults
BY RehearsalAssumption DEF Fault, RehearsalIInv, WorldTyped

\* The request is announced on disk before it is made.
LEMMA WriteIntentStep ==
    ASSUME RehearsalIInv, NEW r \in Runs, WriteIntent(r)
    PROVE  RehearsalIInv'
<1> DEFINE c == [run[r] EXCEPT !.pc = "post", !.ledger = "intent"]
<1>1. c \in Coordinator
  <2> DEFINE c1 == [run[r] EXCEPT !.pc = "post"]
             c2 == [c1 EXCEPT !.ledger = "intent"]
  <2>1. c1 \in Coordinator
    BY Mine, StepNames, FieldMoves
  <2>2. c2 \in Coordinator
    BY <2>1, FieldMoves
  <2>3. QED
    BY <2>2
<1>2. Coordinated(r, c) /\ run'[r] = c /\ At(r, "request")
  BY Typed DEF Coordinated, WriteIntent, WorldTyped
<1>3. LedgerSound(r)' /\ CleanupSound(r)'
  BY <1>2, Typed DEF LedgerSound, CleanupSound, At, Phases, Unapplied, Replaying, Body, Coordinator, Coordinated, world
<1>4. PlanSound(r)' /\ AppliedSound(r)' /\ ReplaySound(r)' /\ OutcomeSound(r)'
  BY <1>2, Typed DEF PlanSound, AppliedSound, ReplaySound, OutcomeSound, At, Phases,
                     Unapplied, Rechecked, Replaying, Body, Coordinator, Coordinated, world
<1>5. faults' \in 0..MaxFaults
  BY Typed DEF WriteIntent, WorldTyped, Coordinator
<1>6. QED
  BY <1>1, <1>2, <1>3, <1>4, <1>5, CoordinatorStep DEF At

\* The answer names the branch, or the creation failed.
LEMMA AnsweredStep ==
    ASSUME RehearsalIInv, NEW r \in Runs, Answered(r)
    PROVE  RehearsalIInv'
<1>1. run[r].pc \in Body /\ faults' \in 0..MaxFaults /\ UNCHANGED <<world, provider, copy>>
  BY Typed DEF Answered, At, Body, WorldTyped
<1>2. CASE Block(r)
  BY <1>1, <1>2, Blocked
<1>3. CASE provider[r] = "there" /\ run' = [run EXCEPT ![r].pc = "verify", ![r].ledger = "named"]
  <2> DEFINE c == [run[r] EXCEPT !.pc = "verify", !.ledger = "named"]
  <2>1. c \in Coordinator
    <3> DEFINE c1 == [run[r] EXCEPT !.pc = "verify"]
               c2 == [c1 EXCEPT !.ledger = "named"]
    <3>1. c1 \in Coordinator
      BY Mine, StepNames, FieldMoves
    <3>2. c2 \in Coordinator
      BY <3>1, FieldMoves
    <3>3. QED
      BY <3>2
  <2>2. Coordinated(r, c) /\ run'[r] = c /\ At(r, "answer")
    BY <1>1, <1>3, Typed DEF Coordinated, Answered, WorldTyped
  <2>3. LedgerSound(r)' /\ CleanupSound(r)'
    <3>1. c.ledger = "named" /\ c.pc = "verify" /\ c.cleanup = run[r].cleanup
      BY Typed DEF Coordinator
    <3>2. LedgerSound(r)'
      BY <1>1, <1>3, <2>2, <3>1, Typed DEF LedgerSound, At, Phases, Unapplied, Replaying, world
    <3>3. CleanupSound(r)'
      BY <1>1, <2>2, <3>1, Typed DEF CleanupSound, At
    <3>4. QED
      BY <3>2, <3>3
  <2>4. PlanSound(r)' /\ AppliedSound(r)' /\ ReplaySound(r)' /\ OutcomeSound(r)'
    BY <1>1, <2>2, Typed DEF PlanSound, AppliedSound, ReplaySound, OutcomeSound, At, Phases,
                       Unapplied, Rechecked, Replaying, Body, Coordinator, world
  <2>5. QED
    BY <1>1, <2>1, <2>2, <2>3, <2>4, CoordinatorStep DEF At
<1>4. QED
  BY <1>2, <1>3 DEF Answered

\* The branch is found to be this run's before it is worked on.
LEMMA VerifyStep ==
    ASSUME RehearsalIInv, NEW r \in Runs, Verify(r) \/ Restore(r)
    PROVE  RehearsalIInv'
<1>1. run[r].pc \in {"verify", "restore"} /\ faults' \in 0..MaxFaults /\ UNCHANGED <<world, provider, copy>>
  BY Typed DEF Verify, Restore, At, WorldTyped
<1>2. CASE Block(r)
  BY <1>1, <1>2, Blocked DEF Body
<1>3. ASSUME NEW next \in {"restore", "reconcile"}, verify_owned(r), Go(r, next)
      PROVE  RehearsalIInv'
  <2> DEFINE c == [run[r] EXCEPT !.pc = next]
  <2>1. c \in Coordinator
    BY Typed DEF Coordinator, Steps, Body, Phases
  <2>2. Coordinated(r, c) /\ run'[r] = c
    BY <1>1, <1>3, Typed DEF Coordinated, Go, WorldTyped
  <2>3. LedgerSound(r)' /\ CleanupSound(r)'
    BY <1>1, <1>3, <2>2, Typed DEF LedgerSound, CleanupSound, At, Phases, Unapplied, Replaying,
                                   Body, Coordinator, world, verify_owned
  <2>4. PlanSound(r)' /\ AppliedSound(r)' /\ ReplaySound(r)' /\ OutcomeSound(r)'
    BY <1>1, <2>2, Typed DEF PlanSound, AppliedSound, ReplaySound, OutcomeSound, At, Phases,
                             Unapplied, Rechecked, Replaying, Body, Coordinator, world
  <2>5. QED
    BY <1>1, <2>1, <2>2, <2>3, <2>4, CoordinatorStep DEF At
<1>4. QED
  BY <1>2, <1>3 DEF Verify, Restore

\* The target is canonical when it is chosen.
LEMMA PickTargetStep ==
    ASSUME RehearsalIInv, NEW r \in Runs, PickTarget(r)
    PROVE  RehearsalIInv'
<1>1. At(r, "reconcile") /\ faults' \in 0..MaxFaults /\ UNCHANGED <<world, provider, copy>>
  BY Typed DEF PickTarget, WorldTyped
<1>2. CASE Block(r)
  BY <1>1, <1>2, Blocked DEF At, Body, Phases
<1>3. CASE run' = [run EXCEPT ![r].pc = "scan", ![r].target = chain]
  <2> DEFINE c == [run[r] EXCEPT !.pc = "scan", !.target = chain]
  <2>1. c \in Coordinator
    <3> DEFINE c1 == [run[r] EXCEPT !.pc = "scan"]
               c2 == [c1 EXCEPT !.target = chain]
    <3>1. c1 \in Coordinator
      BY Mine, StepNames, FieldMoves
    <3>2. c2 \in Coordinator
      BY <3>1, Typed, FieldMoves
    <3>3. QED
      BY <3>2
  <2>2. Coordinated(r, c) /\ run'[r] = c
    BY <1>1, <1>3, Typed DEF Coordinated, WorldTyped
  <2>3. LedgerSound(r)' /\ CleanupSound(r)'
    BY <1>1, <2>2, Typed DEF LedgerSound, CleanupSound, At, Phases, Unapplied, Replaying,
                             Body, Coordinator, world
  <2>4. PlanSound(r)'
    BY <1>1, <2>2, Typed DEF PlanSound, At, Phases, Rechecked, Replaying, Coordinator, world, Hashes
  <2>5. AppliedSound(r)' /\ ReplaySound(r)' /\ OutcomeSound(r)'
    BY <1>1, <2>2, Typed DEF AppliedSound, ReplaySound, OutcomeSound, At, Phases,
                             Unapplied, Replaying, Body, Coordinator, world
  <2>6. QED
    BY <1>1, <2>1, <2>2, <2>3, <2>4, <2>5, CoordinatorStep DEF At
<1>4. QED
  BY <1>2, <1>3 DEF PickTarget

\* The logs are read from the branch of the moment.
LEMMA ScanStep ==
    ASSUME RehearsalIInv, NEW r \in Runs, Scan(r)
    PROVE  RehearsalIInv'
<1> DEFINE c == [run[r] EXCEPT !.pc = "recheck", !.events = chain]
<1>1. c \in Coordinator
  <2> DEFINE c1 == [run[r] EXCEPT !.pc = "recheck"]
             c2 == [c1 EXCEPT !.events = chain]
  <2>1. c1 \in Coordinator
    BY Mine, StepNames, FieldMoves
  <2>2. c2 \in Coordinator
    BY <2>1, Typed, FieldMoves
  <2>3. QED
    BY <2>2
<1>2. Coordinated(r, c) /\ run'[r] = c /\ At(r, "scan") /\ faults' \in 0..MaxFaults
  BY Typed DEF Coordinated, Scan, WorldTyped
<1>3. LedgerSound(r)' /\ CleanupSound(r)'
  BY <1>2, Typed DEF LedgerSound, CleanupSound, At, Phases, Unapplied, Replaying, Body, Coordinator, Coordinated, world
<1>4. PlanSound(r)'
  BY <1>2, Typed DEF PlanSound, At, Phases, Rechecked, Replaying, Coordinator, Coordinated, world, Hashes
<1>5. AppliedSound(r)' /\ ReplaySound(r)' /\ OutcomeSound(r)'
  BY <1>2, Typed DEF AppliedSound, ReplaySound, OutcomeSound, At, Phases,
                     Unapplied, Replaying, Body, Coordinator, Coordinated, world
<1>6. QED
  BY <1>1, <1>2, <1>3, <1>4, <1>5, CoordinatorStep DEF At

\* The target is still canonical, so the logs are those of the target.
LEMMA RecheckStep ==
    ASSUME RehearsalIInv, NEW r \in Runs, Recheck(r)
    PROVE  RehearsalIInv'
<1>1. At(r, "recheck") /\ faults' \in 0..MaxFaults /\ UNCHANGED <<world, provider, copy>>
  BY Typed DEF Recheck, WorldTyped
<1>2. CASE Block(r)
  BY <1>1, <1>2, Blocked DEF At, Body, Phases
<1>3. CASE TargetStands(r) /\ Go(r, "review")
  <2> DEFINE c == [run[r] EXCEPT !.pc = "review"]
  <2>1. c \in Coordinator
    BY Typed DEF Coordinator, Steps, Body, Phases
  <2>2. Coordinated(r, c) /\ run'[r] = c
    BY <1>1, <1>3, Typed DEF Coordinated, Go, WorldTyped
  <2>3. LedgerSound(r)' /\ CleanupSound(r)'
    BY <1>1, <2>2, Typed DEF LedgerSound, CleanupSound, At, Phases, Unapplied, Replaying,
                             Body, Coordinator, world
  <2>4. run[r].target \in 0..chain /\ run[r].events \in chain..chain /\ run[r].target = chain
    BY <1>1, <1>3, Typed DEF PlanSound, At, Phases, TargetStands
  <2>5. PlanSound(r)'
    BY <1>1, <2>2, <2>4, Typed DEF PlanSound, At, Phases, Rechecked, Replaying, Coordinator, world, Hashes
  <2>6. AppliedSound(r)' /\ ReplaySound(r)' /\ OutcomeSound(r)'
    BY <1>1, <2>2, Typed DEF AppliedSound, ReplaySound, OutcomeSound, At, Phases,
                             Unapplied, Replaying, Body, Coordinator, world
  <2>7. QED
    BY <1>1, <2>1, <2>2, <2>3, <2>5, <2>6, CoordinatorStep DEF At
<1>4. QED
  BY <1>2, <1>3 DEF Recheck

\* The plan is of the rows of the copy and the target the logs were read for.
LEMMA ReviewStep ==
    ASSUME RehearsalIInv, NEW r \in Runs, Review(r)
    PROVE  RehearsalIInv'
<1>1. At(r, "review") /\ faults' \in 0..MaxFaults /\ UNCHANGED <<world, provider, copy>>
  BY Typed DEF Review, WorldTyped
<1>2. provider[r] = "there" /\ copy[r] \in Database /\ copy[r].applied = {}
  BY <1>1, Typed DEF At, LedgerSound, AppliedSound, Unapplied, Phases, RunSound, RunTyped
<1>3. run[r].target \in Hashes /\ run[r].events = run[r].target /\ run[r].target \in 0..chain
  <2>1. run[r].events = run[r].target /\ run[r].target \in 0..chain
    BY <1>1, Typed DEF At, PlanSound, Phases, Rechecked
  <2>2. QED
    BY <2>1, Typed, RehearsalAssumption DEF Hashes
<1>4. Plan(r) \in Digests
  BY <1>2, <1>3, PlanTyped DEF Plan, Database
<1>5. run[r].state = "working"
  BY <1>1, Typed DEF OutcomeSound, At, Body, Phases
<1>6. CASE Conflicts(r)
  BY <1>1, <1>6, Blocked DEF Review, At, Body, Phases
<1>7. CASE ~Conflicts(r)
  <2>1. PICK next \in {"fixed1", "commit", "intent"}, state \in {"working", "review"} :
           /\ run' = [run EXCEPT ![r] = [run[r] EXCEPT !.plan = Plan(r), !.pc = next, !.state = state]]
           /\ next = "fixed1" => state = "working" /\ ~Changes(r)
           /\ next = "commit" => state = "working" /\ Changes(r) /\ Approved(r)
           /\ next = "intent" => state = "review"
    <3>1. CASE ~Changes(r)
      <4>1. run' = [run EXCEPT ![r] = [run[r] EXCEPT !.plan = Plan(r), !.pc = "fixed1", !.state = "working"]]
        BY <1>5, <1>7, <3>1, Typed DEF Review, WorldTyped
      <4>2. QED
        BY <3>1, <4>1
    <3>2. CASE Changes(r) /\ Approved(r)
      <4>1. run' = [run EXCEPT ![r] = [run[r] EXCEPT !.plan = Plan(r), !.pc = "commit", !.state = "working"]]
        BY <1>5, <1>7, <3>2, Typed DEF Review, WorldTyped
      <4>2. QED
        BY <3>2, <4>1
    <3>3. CASE Changes(r) /\ ~Approved(r)
      <4>1. run' = [run EXCEPT ![r] = [run[r] EXCEPT !.plan = Plan(r), !.pc = "intent", !.state = "review"]]
        BY <1>5, <1>7, <3>3, Typed DEF Review, WorldTyped
      <4>2. QED
        BY <4>1
    <3>4. QED
      BY <3>1, <3>2, <3>3
  <2> DEFINE c == [run[r] EXCEPT !.plan = Plan(r), !.pc = next, !.state = state]
  <2>2. c \in Coordinator
    <3> DEFINE c1 == [run[r] EXCEPT !.plan = Plan(r)]
               c2 == [c1 EXCEPT !.pc = next]
               c3 == [c2 EXCEPT !.state = state]
    <3>1. c1 \in Coordinator
      BY Mine, <1>4, FieldMoves
    <3>2. c2 \in Coordinator
      BY <3>1, StepNames, FieldMoves
    <3>3. c3 \in Coordinator
      BY <3>2, FieldMoves
    <3>4. QED
      BY <3>3
  <2>3. Coordinated(r, c) /\ run'[r] = c
    BY <1>1, <2>1, Typed DEF Coordinated, WorldTyped
  <2>4. /\ c.plan = Plan(r) /\ c.pc = next /\ c.state = state /\ c.approved = run[r].approved
        /\ c.target = run[r].target /\ c.events = run[r].events /\ c.prefixes = run[r].prefixes
        /\ c.cleanup = run[r].cleanup /\ c.ledger = run[r].ledger /\ c.result = run[r].result
        /\ c.archive = run[r].archive
    BY Typed DEF Coordinator
  <2> HIDE DEF c
  <2>5. LedgerSound(r)' /\ CleanupSound(r)'
    BY <1>1, <1>2, <2>1, <2>3, <2>4, Typed
       DEF LedgerSound, CleanupSound, At, Phases, Unapplied, Replaying, Body, world
  <2>6. PlanSound(r)'
    BY <1>1, <1>3, <2>1, <2>3, <2>4 DEF PlanSound, At, Phases, Rechecked, Replaying, world
  <2>7. AppliedSound(r)'
    <3>1. Plan(r) = PlanOf(copy[r].rows, run[r].target) /\ copy'[r] = copy[r] /\ provider' = provider
      BY <1>1 DEF Plan
    <3>2. next = "commit" => /\ copy[r].rows # {} /\ copy[r].rows \cap Conflicting = {}
                             /\ run[r].approved = Plan(r)
      BY <1>7, <2>1 DEF Approved, Changes, Conflicts
    <3>3. next = "fixed1" => copy[r].rows = {} /\ copy[r].applied = {}
      BY <1>2, <2>1 DEF Changes
    <3>4. QED
      BY <1>2, <2>1, <2>3, <2>4, <3>1, <3>2, <3>3 DEF AppliedSound, At, Unapplied, Replaying
  <2>8. ReplaySound(r)'
    BY <1>1, <1>2, <2>1, <2>3, <2>4, Typed DEF ReplaySound, At, Unapplied, Replaying
  <2>9. OutcomeSound(r)'
    BY <1>1, <1>2, <1>5, <2>1, <2>3, <2>4, Typed DEF OutcomeSound, At, Phases, Body, Plan
  <2>10. QED
    BY <1>1, <2>2, <2>3, <2>5, <2>6, <2>7, <2>8, <2>9, CoordinatorStep
<1>8. QED
  BY <1>6, <1>7

\* All replays agree, and the target they are of is still canonical.
LEMMA SettleStep ==
    ASSUME RehearsalIInv, NEW r \in Runs, Settle(r)
    PROVE  RehearsalIInv'
<1>1. At(r, "settle") /\ faults' \in 0..MaxFaults /\ UNCHANGED <<world, provider, copy>>
  BY Typed DEF Settle, WorldTyped
<1>2. CASE Block(r)
  BY <1>1, <1>2, Blocked DEF At, Body, Phases
<1>3. CASE /\ run[r].prefixes = {copy[r].journal}
           /\ run' = [run EXCEPT ![r].pc = "intent", ![r].state = "completed"]
  <2> DEFINE c == [run[r] EXCEPT !.pc = "intent", !.state = "completed"]
  <2>1. c \in Coordinator
    <3> DEFINE c1 == [run[r] EXCEPT !.pc = "intent"]
               c2 == [c1 EXCEPT !.state = "completed"]
    <3>1. c1 \in Coordinator
      BY Mine, StepNames, FieldMoves
    <3>2. c2 \in Coordinator
      BY <3>1, FieldMoves
    <3>3. QED
      BY <3>2
  <2>2. Coordinated(r, c) /\ run'[r] = c
    BY <1>1, <1>3, Typed DEF Coordinated, WorldTyped
  <2>3. LedgerSound(r)' /\ CleanupSound(r)'
    BY <1>1, <2>2, Typed DEF LedgerSound, CleanupSound, At, Phases, Unapplied, Replaying,
                             Body, Coordinator, world
  <2>4. PlanSound(r)' /\ AppliedSound(r)' /\ ReplaySound(r)'
    BY <1>1, <2>2, Typed DEF PlanSound, AppliedSound, ReplaySound, At, Phases,
                             Unapplied, Rechecked, Replaying, Body, Coordinator, world
  <2>5. /\ provider[r] # "none" /\ run[r].prefixes = {run[r].target} /\ copy[r].journal = run[r].target
        /\ copy[r].rows = {} /\ run[r].plan = PlanOf(copy[r].applied, run[r].target)
    BY <1>1, <1>3, Typed DEF LedgerSound, ReplaySound, AppliedSound, At, Phases, Replaying
  <2>6. OutcomeSound(r)'
    BY <1>1, <2>2, <2>5, Typed DEF OutcomeSound, At, Phases, Body, Coordinator
  <2>7. QED
    BY <1>1, <2>1, <2>2, <2>3, <2>4, <2>6, CoordinatorStep DEF At
<1>4. QED
  BY <1>2, <1>3 DEF Settle

\* The finally reads the intent and archives the evidence.
LEMMA ArchiveStep ==
    ASSUME RehearsalIInv, NEW r \in Runs, ReadIntent(r) \/ Archive(r) \/ FailArchive(r)
    PROVE  RehearsalIInv'
<1>1. /\ run[r].pc \in {"intent", "archive"} /\ faults' \in 0..MaxFaults
      /\ UNCHANGED <<world, provider, copy>>
  <2>1. CASE FailArchive(r)
    BY <2>1, Failed, Typed DEF FailArchive, At, WorldTyped
  <2>2. CASE ReadIntent(r) \/ Archive(r)
    BY <2>2, Typed DEF ReadIntent, Archive, At, WorldTyped
  <2>3. QED
    BY <2>1, <2>2
<1>2. PICK next \in {"archive", "cleanup"}, kept \in {"none", "encrypted", "failed"} :
         run' = [run EXCEPT ![r] = [run[r] EXCEPT !.pc = next, !.archive = kept]]
  <2>1. CASE ReadIntent(r)
    <3>1. /\ run' = [run EXCEPT ![r] = [run[r] EXCEPT !.pc = "archive"]]
          /\ [run[r] EXCEPT !.pc = "archive"] = [run[r] EXCEPT !.pc = "archive", !.archive = run[r].archive]
      BY <2>1, Typed DEF ReadIntent, Go, Coordinator
    <3>2. run[r].archive \in {"none", "encrypted", "failed"}
      BY Typed DEF Coordinator
    <3>3. QED
      BY <3>1, <3>2
  <2>2. CASE Archive(r)
    BY <2>2 DEF Archive
  <2>3. CASE FailArchive(r)
    BY <2>3 DEF FailArchive
  <2>4. QED
    BY <2>1, <2>2, <2>3
<1> DEFINE c == [run[r] EXCEPT !.pc = next, !.archive = kept]
<1>3. c \in Coordinator
  <2> DEFINE c1 == [run[r] EXCEPT !.pc = next]
             c2 == [c1 EXCEPT !.archive = kept]
  <2>1. c1 \in Coordinator
    BY Mine, <1>2, StepNames, FieldMoves
  <2>2. c2 \in Coordinator
    BY <2>1, <1>2, FieldMoves
  <2>3. QED
    BY <2>2
<1>4. Coordinated(r, c) /\ run'[r] = c
  BY <1>1, <1>2, Typed DEF Coordinated, WorldTyped
<1>5. LedgerSound(r)' /\ CleanupSound(r)'
  BY <1>1, <1>4, Typed DEF LedgerSound, CleanupSound, At, Phases, Unapplied, Replaying,
                           Body, Coordinator, world
<1>6. PlanSound(r)' /\ AppliedSound(r)' /\ ReplaySound(r)' /\ OutcomeSound(r)'
  BY <1>1, <1>4, Typed DEF PlanSound, AppliedSound, ReplaySound, OutcomeSound, At, Phases,
                           Unapplied, Rechecked, Replaying, Body, Coordinator, world
<1>7. QED
  BY <1>1, <1>3, <1>4, <1>5, <1>6, CoordinatorStep DEF At

\* A result that is not blocked is backed.
LEMMA ReportStep ==
    ASSUME RehearsalIInv, NEW r \in Runs, Report(r)
    PROVE  RehearsalIInv'
<1>1. At(r, "report") /\ faults' \in 0..MaxFaults /\ UNCHANGED <<world, provider, copy>>
  BY Typed DEF Report, WorldTyped
<1>2. PICK result \in {"blocked", "pass", "review_required"} :
         /\ run' = [run EXCEPT ![r] = [run[r] EXCEPT !.pc = "retry", !.result = result]]
         /\ result = "pass" => run[r].state = "completed" /\ Backed(r)
         /\ result = "review_required" => review_ready(r)
  BY DEF Report
<1> DEFINE c == [run[r] EXCEPT !.pc = "retry", !.result = result]
<1>3. c \in Coordinator
  <2> DEFINE c1 == [run[r] EXCEPT !.pc = "retry"]
             c2 == [c1 EXCEPT !.result = result]
  <2>1. c1 \in Coordinator
    BY Mine, StepNames, FieldMoves
  <2>2. c2 \in Coordinator
    BY <2>1, FieldMoves
  <2>3. QED
    BY <2>2
<1>4. Coordinated(r, c) /\ run'[r] = c
  BY <1>1, <1>2, Typed DEF Coordinated, WorldTyped
<1>5. LedgerSound(r)' /\ CleanupSound(r)'
  BY <1>1, <1>4, Typed DEF LedgerSound, CleanupSound, At, Phases, Unapplied, Replaying,
                           Body, Coordinator, world
<1>6. PlanSound(r)' /\ AppliedSound(r)' /\ ReplaySound(r)'
  BY <1>1, <1>4, Typed DEF PlanSound, AppliedSound, ReplaySound, At, Phases,
                           Unapplied, Rechecked, Replaying, Body, Coordinator, world
<1>7. Backed(r) /\ run[r].state \in {"completed", "review"} => run[r].archive = "encrypted" /\ provider[r] = "gone"
  BY <1>1, Typed DEF Backed, CleanupSound, OutcomeSound, Coordinator, At
<1>8. OutcomeSound(r)'
  <2>1. /\ result = "pass" => run[r].state = "completed" /\ run[r].archive = "encrypted" /\ provider[r] = "gone"
        /\ result = "review_required" => run[r].state = "review" /\ run[r].archive = "encrypted" /\ provider[r] = "gone"
    BY <1>2, <1>7 DEF review_ready
  <2>2. QED
    BY <1>1, <1>2, <1>4, <2>1, Typed DEF OutcomeSound, At, Phases, Body, Coordinator
<1>9. QED
  BY <1>1, <1>3, <1>4, <1>5, <1>6, <1>8, CoordinatorStep DEF At

\* A signal between the handlers, or the loss of the runner.
LEMMA LossStep ==
    ASSUME RehearsalIInv, NEW r \in Runs, Escape(r) \/ Lose(r)
    PROVE  RehearsalIInv'
<1>1. faults' \in 0..MaxFaults /\ ~At(r, "over") /\ UNCHANGED <<world, provider, copy>>
  BY Failed, Typed DEF Escape, Lose, At
<1>2. CASE Escape(r)
  <2> DEFINE c == [run[r] EXCEPT !.pc = "retry", !.state = "blocked", !.result = "blocked"]
  <2>1. c \in Coordinator
    <3> DEFINE c1 == [run[r] EXCEPT !.pc = "retry"]
               c2 == [c1 EXCEPT !.state = "blocked"]
               c3 == [c2 EXCEPT !.result = "blocked"]
    <3>1. c1 \in Coordinator
      BY Mine, StepNames, FieldMoves
    <3>2. c2 \in Coordinator
      BY <3>1, FieldMoves
    <3>3. c3 \in Coordinator
      BY <3>2, FieldMoves
    <3>4. QED
      BY <3>3
  <2>2. Coordinated(r, c) /\ run'[r] = c /\ run[r].pc \in {"intent", "report"}
    BY <1>1, <1>2, Typed DEF Coordinated, Escape, WorldTyped
  <2>3. LedgerSound(r)' /\ CleanupSound(r)'
    BY <1>1, <2>2, Typed DEF LedgerSound, CleanupSound, At, Phases, Unapplied, Replaying,
                             Body, Coordinator, world
  <2>4. PlanSound(r)' /\ AppliedSound(r)' /\ ReplaySound(r)' /\ OutcomeSound(r)'
    BY <1>1, <2>2, Typed DEF PlanSound, AppliedSound, ReplaySound, OutcomeSound, At, Phases,
                             Unapplied, Rechecked, Replaying, Body, Coordinator, world
  <2>5. QED
    BY <1>1, <2>1, <2>2, <2>3, <2>4, CoordinatorStep
<1>3. CASE Lose(r)
  <2> DEFINE c == [run[r] EXCEPT !.pc = "over", !.ledger = "absent", !.state = "blocked",
                                 !.archive = "none", !.cleanup = "unknown", !.result = "blocked"]
  <2>1. c \in Coordinator
    <3> DEFINE c1 == [run[r] EXCEPT !.pc = "over"]
               c2 == [c1 EXCEPT !.ledger = "absent"]
               c3 == [c2 EXCEPT !.state = "blocked"]
               c4 == [c3 EXCEPT !.archive = "none"]
               c5 == [c4 EXCEPT !.cleanup = "unknown"]
               c6 == [c5 EXCEPT !.result = "blocked"]
    <3>1. c1 \in Coordinator
      BY Mine, StepNames, FieldMoves
    <3>2. c2 \in Coordinator
      BY <3>1, FieldMoves
    <3>3. c3 \in Coordinator
      BY <3>2, FieldMoves
    <3>4. c4 \in Coordinator
      BY <3>3, FieldMoves
    <3>5. c5 \in Coordinator
      BY <3>4, FieldMoves
    <3>6. c6 \in Coordinator
      BY <3>5, FieldMoves
    <3>7. QED
      BY <3>6
  <2>2. Coordinated(r, c) /\ run'[r] = c
    BY <1>1, <1>3, Typed DEF Coordinated, Lose, WorldTyped
  <2>3. LedgerSound(r)' /\ CleanupSound(r)'
    BY <1>1, <2>2, Typed DEF LedgerSound, CleanupSound, At, Phases, Unapplied, Replaying,
                             Body, Coordinator, world
  <2>4. PlanSound(r)' /\ AppliedSound(r)' /\ ReplaySound(r)' /\ OutcomeSound(r)'
    BY <1>1, <2>2, Typed DEF PlanSound, AppliedSound, ReplaySound, OutcomeSound, At, Phases,
                             Unapplied, Rechecked, Replaying, Body, Coordinator, world
  <2>5. QED
    BY <1>1, <2>1, <2>2, <2>3, <2>4, CoordinatorStep
<1>4. QED
  BY <1>2, <1>3
----------------------------------------------------------------------------
(* Steps that change the copy or the branch.                               *)

\* A digest and its target are entered.
LEMMA BeginStep ==
    ASSUME RehearsalIInv, NEW r \in Runs, Begin(r)
    PROVE  RehearsalIInv'
<1>1. PICK d \in Digests \cup {None} :
         run' = [run EXCEPT ![r] = [run[r] EXCEPT !.pc = "request", !.approved = d,
                                                  !.target = IF d = None THEN None ELSE d.target]]
  BY DEF Begin
<1>2. At(r, "start") /\ UNCHANGED <<world, faults, provider, copy>>
  BY DEF Begin
<1> DEFINE t == IF d = None THEN None ELSE d.target
           c == [run[r] EXCEPT !.pc = "request", !.approved = d, !.target = t]
<1>3. t \in Hashes \cup {None}
  BY DEF Digests
<1> HIDE DEF t
<1>4. c \in Coordinator
  <2> DEFINE c1 == [run[r] EXCEPT !.pc = "request"]
             c2 == [c1 EXCEPT !.approved = d]
             c3 == [c2 EXCEPT !.target = t]
  <2>1. c1 \in Coordinator
    BY Mine, StepNames, FieldMoves
  <2>2. c2 \in Coordinator
    BY <2>1, FieldMoves
  <2>3. c3 \in Coordinator
    BY <2>2, <1>3, FieldMoves
  <2>4. QED
    BY <2>3
<1>5. Coordinated(r, c) /\ run'[r] = c /\ faults' \in 0..MaxFaults
  BY <1>1, <1>2, Typed DEF Coordinated, WorldTyped, t
<1>6. LedgerSound(r)' /\ CleanupSound(r)'
  BY <1>2, <1>5, Typed DEF LedgerSound, CleanupSound, At, Phases, Unapplied, Replaying, Body, Coordinator, world
<1>7. PlanSound(r)' /\ AppliedSound(r)' /\ ReplaySound(r)' /\ OutcomeSound(r)'
  BY <1>2, <1>5, Typed DEF PlanSound, AppliedSound, ReplaySound, OutcomeSound, LedgerSound, At, Phases,
                           Unapplied, Rechecked, Replaying, Body, Coordinator, world
<1>8. QED
  BY <1>4, <1>5, <1>6, <1>7, CoordinatorStep

\* The branch is asked for, and what will be in it is fixed.
Asked(r) == provider' = [provider EXCEPT ![r] = "asked"] /\ copy' = [copy EXCEPT ![r] = Restored]

LEMMA PostStep ==
    ASSUME RehearsalIInv, NEW r \in Runs, At(r, "post"), Asked(r),
           NEW c, \/ c = [run[r] EXCEPT !.pc = "answer"]
                  \/ c = [run[r] EXCEPT !.pc = "intent", !.state = "blocked"],
           run' = [run EXCEPT ![r] = c], faults' \in 0..MaxFaults, UNCHANGED world
    PROVE  RehearsalIInv'
<1>1. Restored \in Database /\ Restored.applied = {}
  BY Typed DEF WorldTyped, Restored, Database
<1>2. c \in Coordinator
  <2>1. {"answer", "intent"} \subseteq Steps
    BY DEF Steps, Body
  <2>2. run[r] \in Coordinator
    BY Typed
  <2>3. CASE c = [run[r] EXCEPT !.pc = "answer"]
    BY <2>1, <2>2, <2>3 DEF Coordinator
  <2>4. CASE c = [run[r] EXCEPT !.pc = "intent", !.state = "blocked"]
    BY <2>1, <2>2, <2>4 DEF Coordinator
  <2>5. QED
    BY <2>3, <2>4
<1>3. run'[r] = c /\ provider'[r] = "asked" /\ copy'[r] = Restored
  BY Typed DEF WorldTyped, Asked
<1>4. WorldTyped'
  BY <1>1, <1>2, Typed DEF WorldTyped, world, Asked, Branch
<1>5. /\ c.pc \in {"answer", "intent"} /\ c.approved = run[r].approved /\ c.ledger = run[r].ledger
      /\ c.cleanup = run[r].cleanup /\ c.plan = run[r].plan /\ c.prefixes = run[r].prefixes
      /\ c.result = run[r].result /\ c.state = (IF c.pc = "answer" THEN run[r].state ELSE "blocked")
  BY Mine DEF Coordinator
<1>6. LedgerSound(r)' /\ CleanupSound(r)'
  BY <1>3, <1>5, Typed DEF LedgerSound, CleanupSound, At, Phases, Unapplied, Replaying, Body, world
<1>7. PlanSound(r)' /\ AppliedSound(r)' /\ ReplaySound(r)'
  BY <1>1, <1>3, <1>5, Typed DEF PlanSound, AppliedSound, ReplaySound, At, Phases,
                                 Unapplied, Rechecked, Replaying, Body
<1>8. OutcomeSound(r)'
  BY <1>1, <1>3, <1>5, Typed DEF OutcomeSound, At, Phases, Body
<1>9. RunSound(r)'
  BY <1>1, <1>2, <1>3, <1>6, <1>7, <1>8 DEF RunSound, RunTyped, Branch
<1>10. \A q \in Runs \ {r} : run'[q] = run[q] /\ copy'[q] = copy[q] /\ provider'[q] = provider[q]
  BY Typed DEF WorldTyped, Asked
<1>11. QED
  BY <1>3, <1>4, <1>5, <1>9, <1>10, StepOfRun DEF world, At

LEMMA BodyFails ==
    ASSUME RehearsalIInv, NEW r \in Runs, Post(r) \/ FailBody(r)
    PROVE  RehearsalIInv'
<1>1. CASE Post(r)
  <2>1. run' = [run EXCEPT ![r] = [run[r] EXCEPT !.pc = "answer"]]
    BY <1>1 DEF Post, Go
  <2>2. At(r, "post") /\ Asked(r) /\ faults' \in 0..MaxFaults /\ UNCHANGED world
    BY <1>1, Typed DEF Post, Asked, WorldTyped
  <2>3. QED
    BY <2>1, <2>2, PostStep
<1>2. CASE FailBody(r)
  <2>1. run[r].pc \in Body /\ Block(r) /\ faults' \in 0..MaxFaults /\ UNCHANGED world
    BY <1>2, Failed DEF FailBody
  <2>2. CASE provider' = provider
    <3>1. copy' = copy
      BY <1>2, <2>2 DEF FailBody
    <3>2. QED
      BY <2>1, <2>2, <3>1, Blocked
  <2>3. CASE provider' # provider
    <3>1. At(r, "post") /\ Asked(r)
      BY <1>2, <2>3, Typed DEF FailBody, Asked, WorldTyped
    <3>2. run' = [run EXCEPT ![r] = [run[r] EXCEPT !.pc = "intent", !.state = "blocked"]]
      BY <2>1 DEF Block
    <3>3. QED
      BY <2>1, <3>1, <3>2, PostStep
  <2>4. QED
    BY <2>2, <2>3
<1>3. QED
  BY <1>1, <1>2
\* A worker writes the copy of its own run.
LEMMA WorkerStep ==
    ASSUME RehearsalIInv, NEW r \in Runs, NEW next \in Replaying, NEW p \in SUBSET Hashes, NEW d \in Database,
           run[r].pc \in Rechecked \ {"review"},
           run' = [run EXCEPT ![r] = [run[r] EXCEPT !.pc = next, !.prefixes = p]],
           copy' = [copy EXCEPT ![r] = d], UNCHANGED <<world, faults, provider>>,
           p \subseteq {run[r].target},
           d.applied # {} => /\ run[r].approved = PlanOf(d.applied, run[r].events)
                             /\ d.applied \cap Conflicting = {},
           d.rows = {} /\ run[r].plan = PlanOf(d.applied, run[r].target)
    PROVE  RehearsalIInv'
<1> DEFINE c == [run[r] EXCEPT !.pc = next, !.prefixes = p]
<1>1. c \in Coordinator
  <2>1. next \in Steps
    BY DEF Replaying, Steps, Body, Phases
  <2>2. run[r] \in Coordinator /\ p \in SUBSET Hashes
    BY Typed
  <2>3. QED
    BY <2>1, <2>2 DEF Coordinator
<1>2. run'[r] = c /\ copy'[r] = d /\ UNCHANGED <<world, provider>>
  BY Typed DEF WorldTyped
<1>3. WorldTyped'
  BY <1>1, Typed DEF WorldTyped, world
<1>4. run[r].pc \in Phases \ {"reconcile", "recheck"} /\ run[r].pc # "over" /\ next \in Phases \ {"reconcile", "recheck"}
  BY DEF Rechecked, Replaying, Phases
<1>5. LedgerSound(r)' /\ CleanupSound(r)'
  BY <1>2, <1>4, Typed DEF LedgerSound, CleanupSound, At, Phases, Unapplied, Replaying, Body, Coordinator, world
<1>6. PlanSound(r)' /\ AppliedSound(r)' /\ ReplaySound(r)'
  <2>1. /\ c.pc = next /\ c.prefixes = p /\ c.plan = run[r].plan /\ c.target = run[r].target
        /\ c.events = run[r].events /\ c.approved = run[r].approved
    BY Typed DEF Coordinator
  <2>2. chain' = chain /\ run[r].events = run[r].target /\ run[r].target \in 0..chain
    BY <1>2, <1>4, Typed DEF PlanSound, world
  <2>3. PlanSound(r)'
    BY <1>2, <1>4, <2>1, <2>2, Typed DEF PlanSound, At
  <2>4. next \notin Unapplied \cup {"start", "request", "post", "commit"}
    BY DEF Replaying, Unapplied
  <2>5. QED
    BY <1>2, <2>1, <2>3, <2>4 DEF AppliedSound, ReplaySound, At
<1>7. OutcomeSound(r)'
  BY <1>2, <1>4, Typed DEF OutcomeSound, At, Phases, Body, Coordinator
<1>8. RunSound(r)'
  <2>1. provider[r] = "there"
    BY <1>4, Typed DEF LedgerSound
  <2>2. QED
    BY <1>1, <1>2, <1>5, <1>6, <1>7, <2>1 DEF RunSound, RunTyped, Branch
<1>9. \A q \in Runs \ {r} : run'[q] = run[q] /\ copy'[q] = copy[q] /\ provider'[q] = provider[q]
  BY Typed DEF WorldTyped
<1>10. QED
  BY <1>2, <1>3, <1>8, <1>9, StepOfRun DEF world

\* What a phase that replays starts from.
LEMMA Replays ==
    ASSUME RehearsalIInv, NEW r \in Runs, run[r].pc \in Rechecked \ {"review"}
    PROVE  /\ copy[r] \in Database /\ run[r].prefixes \in SUBSET Hashes
           /\ run[r].prefixes \subseteq {run[r].target}
           /\ copy[r].applied # {} => /\ run[r].approved = PlanOf(copy[r].applied, run[r].events)
                                      /\ copy[r].applied \cap Conflicting = {}
           /\ run[r].pc \in Replaying =>
                 copy[r].rows = {} /\ run[r].plan = PlanOf(copy[r].applied, run[r].target)
<1>1. provider[r] # "none"
  BY Typed DEF LedgerSound, Rechecked, Replaying, Phases
<1>2. run[r].prefixes \subseteq {run[r].target}
  BY Typed DEF ReplaySound, Rechecked, Replaying, Unapplied
<1>3. QED
  BY <1>1, <1>2, Typed DEF RunSound, RunTyped, AppliedSound, Coordinator

\* The rows that are applied are those of the plan, which was approved.
LEMMA CommitStep ==
    ASSUME RehearsalIInv, NEW r \in Runs, Commit(r)
    PROVE  RehearsalIInv'
<1>1. At(r, "commit") /\ UNCHANGED <<world, faults, provider>> /\ faults' \in 0..MaxFaults
  BY Typed DEF Commit, WorldTyped
<1>2. CASE Block(r) /\ UNCHANGED copy
  BY <1>1, <1>2, Blocked DEF At, Body, Phases
<1>3. CASE Go(r, "fixed1") /\ copy' = [copy EXCEPT ![r].rows = {}, ![r].applied = copy[r].rows]
  <2> DEFINE d == [copy[r] EXCEPT !.rows = {}, !.applied = copy[r].rows]
  <2>1. run[r].pc \in Rechecked \ {"review"}
    BY <1>1 DEF At, Rechecked
  <2>2. /\ run[r].plan = PlanOf(copy[r].rows, run[r].target) /\ run[r].approved = run[r].plan
        /\ copy[r].rows \cap Conflicting = {} /\ run[r].events = run[r].target
    BY <1>1, <2>1, Typed DEF AppliedSound, PlanSound, At
  <2>3. d \in Database /\ d.rows = {} /\ d.applied = copy[r].rows
    BY <2>1, Replays DEF Database
  <2>4. copy' = [copy EXCEPT ![r] = d]
    BY <1>3, Typed DEF WorldTyped
  <2>5. run' = [run EXCEPT ![r] = [run[r] EXCEPT !.pc = "fixed1", !.prefixes = run[r].prefixes]]
    <3>1. [run[r] EXCEPT !.pc = "fixed1"] = [run[r] EXCEPT !.pc = "fixed1", !.prefixes = run[r].prefixes]
      BY Typed DEF Coordinator
    <3>2. QED
      BY <1>3, <3>1 DEF Go
  <2>6. "fixed1" \in Replaying
    BY DEF Replaying
  <2> HIDE DEF d
  <2>7. /\ d.applied \cap Conflicting = {} /\ run[r].plan = PlanOf(d.applied, run[r].target)
        /\ run[r].approved = PlanOf(d.applied, run[r].events)
    BY <2>2, <2>3
  <2>8. run[r].prefixes \in SUBSET Hashes /\ run[r].prefixes \subseteq {run[r].target}
    BY <2>1, Replays
  <2>9. QED
    BY <1>1, <2>1, <2>3, <2>4, <2>5, <2>6, <2>7, <2>8, WorkerStep
<1>4. QED
  BY <1>2, <1>3 DEF Commit

\* Each replay leaves the journal of the target.
LEMMA FixedStep ==
    ASSUME RehearsalIInv, NEW r \in Runs, Fixed(r)
    PROVE  RehearsalIInv'
<1>1. /\ run[r].pc \in {"fixed1", "fixed2", "fixed3"} /\ faults' \in 0..MaxFaults
      /\ UNCHANGED <<world, faults, provider>>
  BY Typed DEF Fixed, WorldTyped
<1>2. CASE Block(r) /\ UNCHANGED copy
  BY <1>1, <1>2, Blocked DEF Body, Phases
<1>3. CASE verify_owned(r) /\ TargetStands(r)
  <2> DEFINE d == [copy[r] EXCEPT !.journal = chain]
             p == run[r].prefixes \cup {chain}
  <2>1. run[r].pc \in Rechecked \ {"review"} /\ run[r].pc \in Replaying
    BY <1>1 DEF Rechecked, Replaying
  <2>2. d \in Database /\ d.applied = copy[r].applied /\ d.rows = copy[r].rows /\ copy' = [copy EXCEPT ![r] = d]
    <3>1. copy[r] \in Database
      BY <2>1, Replays
    <3>2. d \in Database /\ d.applied = copy[r].applied /\ d.rows = copy[r].rows
      BY <3>1, Typed DEF Database
    <3>3. QED
      BY <1>3, <3>2 DEF Fixed
  <2>3. p \in SUBSET Hashes /\ p \subseteq {run[r].target}
    BY <1>3, <2>1, Replays, Typed DEF TargetStands
  <2>4. d.rows = {} /\ run[r].plan = PlanOf(d.applied, run[r].target)
    BY <2>1, <2>2, Replays
  <2>5. PICK next \in Replaying : run' = [run EXCEPT ![r] = [run[r] EXCEPT !.pc = next, !.prefixes = p]]
    <3>1. CASE run[r].pc = "fixed1"
      <4>1. run' = [run EXCEPT ![r] = [run[r] EXCEPT !.pc = "fixed2", !.prefixes = p]]
        BY <1>3, <3>1, Typed DEF Fixed, WorldTyped, Coordinator
      <4>2. QED
        BY <4>1 DEF Replaying
    <3>2. CASE run[r].pc = "fixed2"
      <4>1. run' = [run EXCEPT ![r] = [run[r] EXCEPT !.pc = "fixed3", !.prefixes = p]]
        BY <1>3, <3>2, Typed DEF Fixed, WorldTyped, Coordinator
      <4>2. QED
        BY <4>1 DEF Replaying
    <3>3. CASE run[r].pc = "fixed3"
      <4>1. run' = [run EXCEPT ![r] = [run[r] EXCEPT !.pc = "live", !.prefixes = p]]
        BY <1>3, <3>3, Typed DEF Fixed, WorldTyped, Coordinator
      <4>2. QED
        BY <4>1 DEF Replaying
    <3>4. QED
      BY <1>1, <3>1, <3>2, <3>3
  <2> HIDE DEF d, p
  <2>6. QED
    BY <1>1, <2>1, <2>2, <2>3, <2>4, <2>5, Replays, WorkerStep
<1>4. QED
  BY <1>2, <1>3 DEF Fixed

\* The live worker leaves that of the chain of the moment: Settle compares.
LEMMA LiveStep ==
    ASSUME RehearsalIInv, NEW r \in Runs, Live(r)
    PROVE  RehearsalIInv'
<1>1. At(r, "live") /\ UNCHANGED <<world, faults, provider>> /\ faults' \in 0..MaxFaults
  BY Typed DEF Live, WorldTyped
<1>2. CASE ~verify_owned(r)
  <2>1. Block(r) /\ UNCHANGED copy
    BY <1>2 DEF Live
  <2>2. QED
    BY <1>1, <2>1, Blocked DEF At, Body, Phases
<1>3. CASE verify_owned(r)
  <2> DEFINE d == [copy[r] EXCEPT !.journal = chain]
  <2>1. run[r].pc \in Rechecked \ {"review"} /\ run[r].pc \in Replaying
    BY <1>1 DEF At, Rechecked, Replaying
  <2>2. d \in Database /\ d.applied = copy[r].applied /\ d.rows = copy[r].rows /\ copy' = [copy EXCEPT ![r] = d]
    <3>1. copy[r] \in Database
      BY <2>1, Replays
    <3>2. d \in Database /\ d.applied = copy[r].applied /\ d.rows = copy[r].rows
      BY <3>1, Typed DEF Database
    <3>3. QED
      BY <1>3, <3>2 DEF Live
  <2>3. d.rows = {} /\ run[r].plan = PlanOf(d.applied, run[r].target)
    BY <2>1, <2>2, Replays
  <2>4. run' = [run EXCEPT ![r] = [run[r] EXCEPT !.pc = "settle", !.prefixes = run[r].prefixes]]
    <3>1. [run[r] EXCEPT !.pc = "settle"] = [run[r] EXCEPT !.pc = "settle", !.prefixes = run[r].prefixes]
      BY Typed DEF Coordinator
    <3>2. QED
      BY <1>3, <3>1 DEF Live, Go
  <2>5. "settle" \in Replaying
    BY DEF Replaying
  <2> HIDE DEF d
  <2>6. QED
    BY <1>1, <2>1, <2>2, <2>3, <2>4, <2>5, Replays, WorkerStep
<1>4. QED
  BY <1>2, <1>3
\* Cleaned up or not: what became of the branch is known, or reported as failed.
Removed(r, c, b) ==
    /\ run' = [run EXCEPT ![r] = c] /\ provider' = [provider EXCEPT ![r] = b]
    /\ b = provider[r] \/ (b = "gone" /\ provider[r] = "there")
    /\ c.pc = IF At(r, "cleanup") THEN "report" ELSE "over"
    /\ c.ledger = run[r].ledger \/ (c.ledger = "named" /\ b = "gone")
    /\ IF At(r, "cleanup")
       THEN /\ c.cleanup # "unknown"
            /\ c.cleanup \in {"not_created", "already_deleted", "deleted"} => b \in {"none", "gone"}
       ELSE c.cleanup = run[r].cleanup
    /\ c.approved = run[r].approved /\ c.target = run[r].target /\ c.events = run[r].events
    /\ c.plan = run[r].plan /\ c.prefixes = run[r].prefixes /\ c.state = run[r].state
    /\ c.archive = run[r].archive /\ c.result = run[r].result

LEMMA RemovalStep ==
    ASSUME RehearsalIInv, NEW r \in Runs, run[r].pc \in {"cleanup", "retry"},
           NEW c \in Coordinator, NEW b \in Branch, Removed(r, c, b),
           UNCHANGED <<world, copy>>, faults' \in 0..MaxFaults
    PROVE  RehearsalIInv'
<1>1. run'[r] = c /\ provider'[r] = b /\ copy'[r] = copy[r]
  BY Typed DEF WorldTyped, Removed
<1>2. WorldTyped'
  BY Typed DEF WorldTyped, Removed, world
<1>3. c.pc \in {"report", "over"} /\ (c.pc = "report" <=> At(r, "cleanup")) /\ ~At(r, "over") /\ ~At(r, "report")
  BY DEF Removed, At
<1>4. LedgerSound(r)'
  BY <1>1, <1>3, Typed DEF LedgerSound, At, Phases, Unapplied, Replaying, Body, Removed, world
<1>5. CleanupSound(r)'
  BY <1>1, <1>3, Typed DEF CleanupSound, At, Removed
<1>6. PlanSound(r)' /\ ReplaySound(r)'
  BY <1>1, <1>3, Typed DEF PlanSound, ReplaySound, At, Phases, Unapplied, Rechecked, Replaying, Removed
<1>7. AppliedSound(r)'
  BY <1>1, <1>3, Typed DEF AppliedSound, At, Unapplied, Replaying, Removed
<1>8. OutcomeSound(r)'
  BY <1>1, <1>3, Typed DEF OutcomeSound, At, Phases, Body, Removed
<1>9. RunSound(r)'
  <2>1. RunTyped(r)'
    BY <1>1, Typed DEF RunSound, RunTyped, Removed
  <2>2. QED
    BY <2>1, <1>4, <1>5, <1>6, <1>7, <1>8 DEF RunSound
<1>10. \A q \in Runs \ {r} : run'[q] = run[q] /\ copy'[q] = copy[q] /\ provider'[q] = provider[q]
  BY Typed DEF WorldTyped, Removed
<1>11. QED
  BY <1>2, <1>9, <1>10, StepOfRun DEF world

\* Cleanup says what it did, and reports what it could not find out.
LEMMA OutcomeIsTrue ==
    ASSUME RehearsalIInv, NEW r \in Runs, run[r].pc \in {"cleanup", "retry"}
    PROVE  /\ Outcome(r) \in {"not_created", "already_deleted", "deleted", "failed"}
           /\ Outcome(r) = "deleted" => provider[r] = "there"
           /\ Outcome(r) = "not_created" => provider[r] = "none"
           /\ Outcome(r) = "already_deleted" => provider[r] = "gone"
<1>1. run[r].ledger = "absent" => provider[r] = "none"
  BY Typed DEF LedgerSound, At
<1>2. QED
  BY <1>1 DEF Outcome, verify_owned

LEMMA CleanupStep ==
    ASSUME RehearsalIInv, NEW r \in Runs, Cleanup(r) \/ FailCleanup(r)
    PROVE  RehearsalIInv'
<1>1. run[r].pc \in {"cleanup", "retry"} /\ UNCHANGED <<world, copy>>
  BY DEF Cleanup, FailCleanup
<1>2. faults' \in 0..MaxFaults
  <2>1. CASE Cleanup(r)
    BY <2>1, Typed DEF Cleanup, WorldTyped
  <2>2. CASE FailCleanup(r)
    BY <2>2, Failed DEF FailCleanup
  <2>3. QED
    BY <2>1, <2>2
<1> DEFINE next == IF At(r, "cleanup") THEN "report" ELSE "over"
<1>3. next \in Steps /\ next = (IF run[r].pc = "cleanup" THEN "report" ELSE "over")
  BY DEF Steps, At
<1> HIDE DEF next
<1>4. CASE Cleanup(r)
  <2> DEFINE o == IF At(r, "cleanup") THEN Outcome(r) ELSE run[r].cleanup
             l == IF Outcome(r) = "deleted" THEN "named" ELSE run[r].ledger
             b == IF Outcome(r) = "deleted" THEN "gone" ELSE provider[r]
             c == [run[r] EXCEPT !.cleanup = o, !.ledger = l, !.pc = next]
  <2>1. /\ o \in {"unknown", "not_created", "already_deleted", "deleted", "failed"}
        /\ l \in {"absent", "intent", "named"} /\ b \in Branch
    BY <1>1, OutcomeIsTrue, Typed DEF Coordinator, Branch
  <2>2. provider' = [provider EXCEPT ![r] = b]
    BY <1>4, Typed DEF Cleanup, WorldTyped
  <2>3. run' = [run EXCEPT ![r] = c]
    BY <1>3, <1>4, Typed DEF Cleanup, WorldTyped, Coordinator, At
  <2>4. At(r, "cleanup") => o # "unknown" /\ (o \in {"not_created", "already_deleted", "deleted"} => b \in {"none", "gone"})
    BY <1>1, OutcomeIsTrue
  <2>5. (b = provider[r] \/ (b = "gone" /\ provider[r] = "there")) /\ (l = run[r].ledger \/ (l = "named" /\ b = "gone"))
    BY <1>1, OutcomeIsTrue
  <2>6. ~At(r, "cleanup") => o = run[r].cleanup
    OBVIOUS
  <2> HIDE DEF o, l, b
  <2>7. c \in Coordinator
    <3> DEFINE c1 == [run[r] EXCEPT !.cleanup = o]
               c2 == [c1 EXCEPT !.ledger = l]
               c3 == [c2 EXCEPT !.pc = next]
    <3>1. c1 \in Coordinator
      BY Mine, <2>1, FieldMoves
    <3>2. c2 \in Coordinator
      BY <3>1, <2>1, FieldMoves
    <3>3. c3 \in Coordinator
      BY <3>2, <1>3, FieldMoves
    <3>4. QED
      BY <3>3
  <2>8. Removed(r, c, b)
    BY <1>3, <2>2, <2>3, <2>4, <2>5, <2>6, Typed DEF Removed, Coordinator, At
  <2> HIDE DEF c
  <2>9. QED
    BY <1>1, <1>2, <2>1, <2>7, <2>8, RemovalStep
<1>5. CASE FailCleanup(r)
  <2> DEFINE o == IF At(r, "cleanup") THEN "failed" ELSE run[r].cleanup
             c == [run[r] EXCEPT !.cleanup = o, !.pc = next]
  <2>1. o \in {"unknown", "not_created", "already_deleted", "deleted", "failed"}
    BY Typed DEF Coordinator
  <2>2. PICK b \in Branch : /\ provider' = [provider EXCEPT ![r] = b]
                            /\ b = provider[r] \/ (b = "gone" /\ provider[r] = "there")
    <3>1. CASE provider' = provider
      <4>1. provider' = [provider EXCEPT ![r] = provider[r]]
        BY <3>1, Typed DEF WorldTyped
      <4>2. QED
        BY <4>1, Typed
    <3>2. CASE provider' # provider
      <4>1. provider' = [provider EXCEPT ![r] = "gone"] /\ Outcome(r) = "deleted"
        BY <1>5, <3>2, Typed DEF FailCleanup, WorldTyped
      <4>2. provider[r] = "there" /\ "gone" \in Branch
        BY <1>1, <4>1, OutcomeIsTrue DEF Branch
      <4>3. QED
        BY <4>1, <4>2
    <3>3. QED
      BY <3>1, <3>2
  <2>3. run' = [run EXCEPT ![r] = c]
    BY <1>3, <1>5, Typed DEF FailCleanup, WorldTyped, Coordinator, At
  <2>4. At(r, "cleanup") => o = "failed"
    OBVIOUS
  <2>5. ~At(r, "cleanup") => o = run[r].cleanup
    OBVIOUS
  <2> HIDE DEF o
  <2>6. c \in Coordinator
    <3> DEFINE c1 == [run[r] EXCEPT !.cleanup = o]
               c2 == [c1 EXCEPT !.pc = next]
    <3>1. c1 \in Coordinator
      BY Mine, <2>1, FieldMoves
    <3>2. c2 \in Coordinator
      BY <3>1, <1>3, FieldMoves
    <3>3. QED
      BY <3>2
  <2>7. Removed(r, c, b)
    BY <1>3, <2>2, <2>3, <2>4, <2>5, Typed DEF Removed, Coordinator, At
  <2> HIDE DEF c
  <2>8. QED
    BY <1>1, <1>2, <2>2, <2>6, <2>7, RemovalStep
<1>6. QED
  BY <1>4, <1>5
----------------------------------------------------------------------------
(* The provider, the reaper and the rest of the world.                     *)

\* A branch appears, or is declined, while its request is out; a branch goes
\* when its run is over.
LEMMA BranchStep ==
    ASSUME RehearsalIInv, UNCHANGED <<chain, forks, faults, prod, copy, run>>,
           provider' \in [Runs -> Branch], expired' \subseteq Runs, late' \subseteq Runs,
           \A q \in Runs : \/ provider'[q] = provider[q]
                           \/ provider[q] = "asked" /\ provider'[q] \in {"there", "gone"}
                           \/ provider[q] = "there" /\ provider'[q] = "gone" /\ At(q, "over"),
           \A q \in expired' : q \in expired \/ At(q, "over"),
           \A q \in late' : q \in late \/ provider[q] = "asked"
    PROVE  RehearsalIInv'
<1>1. WorldTyped'
  BY Typed DEF RehearsalIInv, WorldTyped
<1>2. ASSUME NEW q \in Runs
      PROVE  RunSound(q)'
  <2>1. RunTyped(q)'
    BY Typed DEF RunSound, RunTyped
  <2>2. LedgerSound(q)'
    BY Typed DEF LedgerSound, At, Phases, Unapplied, Replaying
  <2>3. CleanupSound(q)' /\ PlanSound(q)' /\ ReplaySound(q)'
    BY Typed DEF CleanupSound, PlanSound, ReplaySound, At
  <2>4. AppliedSound(q)' /\ OutcomeSound(q)'
    BY Typed DEF AppliedSound, OutcomeSound, At
  <2>5. QED
    BY <2>1, <2>2, <2>3, <2>4 DEF RunSound
<1>3. QED
  BY <1>1, <1>2 DEF RehearsalIInv

LEMMA ProviderStep ==
    ASSUME RehearsalIInv, NEW r \in Runs, Land(r) \/ Decline(r) \/ TimePasses(r) \/ ProviderExpires(r)
    PROVE  RehearsalIInv'
<1>1. provider \in [Runs -> Branch] /\ expired \subseteq Runs /\ late \subseteq Runs
  BY DEF RehearsalIInv, WorldTyped
<1>2. CASE Land(r)
  BY <1>1, <1>2, BranchStep DEF Land, Branch
<1>3. CASE Decline(r)
  BY <1>1, <1>3, BranchStep DEF Decline, Branch, world
<1>4. CASE TimePasses(r)
  BY <1>1, <1>4, BranchStep DEF TimePasses
<1>5. CASE ProviderExpires(r)
  <2>1. At(r, "over")
    BY <1>5, Typed DEF ProviderExpires, LedgerSound
  <2>2. QED
    BY <1>1, <1>5, <2>1, BranchStep DEF ProviderExpires, Branch, world
<1>6. QED
  BY <1>2, <1>3, <1>4, <1>5

\* The reaper takes what expired, and nothing expires before its run is over.
LEMMA ReapStep ==
    ASSUME RehearsalIInv, NEW e \in Environments, Reap(e)
    PROVE  RehearsalIInv'
<1>1. PICK gone \in SUBSET Reapable(e) :
         provider' = [r \in Runs |-> IF r \in gone THEN "gone" ELSE provider[r]]
  BY DEF Reap
<1>2. provider \in [Runs -> Branch] /\ expired \subseteq Runs /\ late \subseteq Runs
  BY DEF RehearsalIInv, WorldTyped
<1>3. \A q \in gone : provider[q] = "there" /\ At(q, "over")
  BY Typed DEF Reapable, LedgerSound
<1>4. provider' \in [Runs -> Branch]
  BY <1>1, <1>2 DEF Branch
<1>5. UNCHANGED <<chain, forks, faults, prod, copy, run, expired, late>>
  BY DEF Reap, world
<1>6. QED
  BY <1>1, <1>2, <1>3, <1>4, <1>5, BranchStep

\* Production is repaired, and the chain moves on.
LEMMA WorldStep ==
    ASSUME RehearsalIInv, Operate \/ Fork
    PROVE  RehearsalIInv'
<1>1. UNCHANGED <<faults, provider, expired, late, copy, run>>
  BY DEF Operate, Fork
<1>2. WorldTyped' /\ chain <= chain'
  <2>1. CASE Operate
    BY <1>1, <2>1 DEF Operate, RehearsalIInv, WorldTyped
  <2>2. CASE Fork
    BY <1>1, <2>2, RehearsalAssumption DEF Fork, RehearsalIInv, WorldTyped
  <2>3. QED
    BY <2>1, <2>2
<1>3. \A q \in Runs : RunSound(q)'
  <2>1. chain \in Nat /\ chain' \in Nat
    BY <1>2 DEF RehearsalIInv, WorldTyped
  <2>2. QED
    BY <1>1, <1>2, <2>1, Unmoved DEF RehearsalIInv
<1>4. QED
  BY <1>2, <1>3 DEF RehearsalIInv

----------------------------------------------------------------------------
(* The theorems.                                                           *)

LEMMA RehearsalStarts == Init => RehearsalIInv
<1> SUFFICES ASSUME Init
             PROVE  RehearsalIInv
  OBVIOUS
<1>1. WorldTyped
  BY RehearsalAssumption DEF Init, WorldTyped, Hashes, Branch, Coordinator, Steps
<1>3. ASSUME NEW r \in Runs
      PROVE  RunSound(r)
  <2>1. RunTyped(r)
    BY <1>1 DEF Init, WorldTyped, RunTyped
  <2>2. LedgerSound(r) /\ CleanupSound(r) /\ PlanSound(r)
    BY DEF Init, LedgerSound, CleanupSound, PlanSound, At, Phases, Unapplied, Replaying, Rechecked, Body
  <2>3. AppliedSound(r) /\ ReplaySound(r) /\ OutcomeSound(r)
    BY DEF Init, AppliedSound, ReplaySound, OutcomeSound, At, Unapplied, Replaying
  <2>4. QED
    BY <2>1, <2>2, <2>3 DEF RunSound
<1>4. QED
  BY <1>1, <1>3 DEF RehearsalIInv

LEMMA RehearsalContinues == RehearsalIInv /\ [Next]_vars => RehearsalIInv'
<1> SUFFICES ASSUME RehearsalIInv, [Next]_vars
             PROVE  RehearsalIInv'
  OBVIOUS
<1>1. ASSUME NEW r \in Runs, Coordinate(r)
      PROVE  RehearsalIInv'
  BY <1>1, BeginStep, WriteIntentStep, BodyFails, AnsweredStep, VerifyStep, PickTargetStep, ScanStep,
     RecheckStep, ReviewStep, CommitStep, FixedStep, LiveStep, SettleStep, ArchiveStep, CleanupStep,
     ReportStep DEF Coordinate
<1>2. ASSUME NEW r \in Runs, Fails(r)
      PROVE  RehearsalIInv'
  BY <1>2, BodyFails, LossStep, ArchiveStep, CleanupStep DEF Fails
<1>3. CASE UNCHANGED vars
  BY <1>3, BranchStep DEF vars, RehearsalIInv, WorldTyped
<1>4. QED
  BY <1>1, <1>2, <1>3, ProviderStep, ReapStep, WorldStep DEF Next

LEMMA RehearsalHolds == Spec => []RehearsalIInv
BY RehearsalStarts, RehearsalContinues, PTL DEF Spec

\* The coordinators, their ledgers and the provider agree about every branch:
\* workers touch only a verified branch of their own run, and a request that
\* cannot be repeated was announced on disk before it was made.
THEOREM OwnBranchOnly == Spec => []RehearsalInv
<1>1. ASSUME RehearsalIInv
      PROVE  RehearsalInv
  <2>1. RehearsalTypeOK
    <3>1. chain \in Hashes /\ \A r \in Runs : LedgerSound(r)
      BY <1>1, RehearsalAssumption DEF RehearsalIInv, WorldTyped, Hashes, RunSound
    <3>2. QED
      BY <1>1, <3>1 DEF RehearsalTypeOK, RehearsalIInv, WorldTyped, LedgerSound, At
  <2>2. WorksOnItsBranch
    BY <1>1, Typed DEF WorksOnItsBranch, LedgerSound
  <2>3. QED
    BY <2>1, <2>2 DEF RehearsalInv
<1>2. QED
  BY <1>1, RehearsalHolds, PTL

\* What a report says is gone is gone for good, whatever the provider does
\* late with a request whose answer was lost (RecoveryResources.cleanup).
THEOREM ReportsAreHonest == Spec => []ReportHonest
<1>1. ASSUME RehearsalIInv
      PROVE  ReportHonest
  BY <1>1, Typed DEF ReportHonest, CleanupSound
<1>2. QED
  BY <1>1, RehearsalHolds, PTL

\* A result other than blocked is backed: its evidence is archived and its
\* branch is gone; a pass left no row to reconcile, its report's plan is that
\* of the rows it reconciled, and all replays agree on a target that was
\* canonical throughout; a plan to review is that of the rows still there.
THEOREM ResultsAreBacked == Spec => []ResultBacked
<1>1. ASSUME RehearsalIInv
      PROVE  ResultBacked
  BY <1>1, Typed DEF ResultBacked, OutcomeSound, Coordinator
<1>2. QED
  BY <1>1, RehearsalHolds, PTL

\* Whatever digest is entered, and however the chain moves: rows are
\* reconciled only if theirs is that digest, for the branch their logs were
\* read from, and none of them is in conflict.  The digest fixes the products
\* and the number of history rows, not which rows these are: that is why this
\* does not make ReviewedIsApplied true.
THEOREM OnlyApprovedIsApplied == Spec => []AppliedAsApproved
<1>1. ASSUME RehearsalIInv, NEW r \in Runs, copy[r] # None, copy[r].applied # {}
      PROVE  /\ run[r].approved = PlanOf(copy[r].applied, run[r].events)
             /\ copy[r].applied \cap Conflicting = {}
  <2>1. provider[r] # "none"
    BY <1>1, Typed DEF RunSound, RunTyped
  <2>2. QED
    BY <1>1, <2>1, Typed DEF AppliedSound
<1>2. RehearsalIInv => AppliedAsApproved
  BY <1>1 DEF AppliedAsApproved
<1>3. QED
  BY <1>2, RehearsalHolds, PTL
=============================================================================
