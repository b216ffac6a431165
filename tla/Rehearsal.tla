----------------------------- MODULE Rehearsal -----------------------------
(***************************************************************************)
(* A hosted recovery rehearsal: a coordinator creates one private branch   *)
(* of the production database, restores it, reviews and replays it against *)
(* the chain, and removes it again (backend/rehearse_hosted_recovery.py,   *)
(* manage_rehearsal_resources.py, replay_private_restore.py); the steps of *)
(* .github/workflows around it retry the removal and reap what expired.    *)
(*                                                                         *)
(* The runs of one environment exclude each other (the workflow's          *)
(* concurrency group) and are of one candidate, schema and scope.  chain   *)
(* names the canonical branch below the confirmed head; an abandoned one   *)
(* does not return.  A database is known by the rows that the two          *)
(* reconciliations of Identity.tla find work in.                           *)
(***************************************************************************)
EXTENDS Naturals, FiniteSets

CONSTANTS
    Runs, Environments, EnvironmentOf,
    Rows,         \* rows of production that may have to be reconciled
    Named,        \* products, which the identity plan names; the others are history
    Conflicting,  \* those neither tool may decide about
    None,
    MaxForks, MaxFaults   \* bounds: chain changes; failed or interrupted steps

ASSUME RehearsalAssumption ==
    /\ EnvironmentOf \in [Runs -> Environments]
    /\ IsFiniteSet(Rows) /\ Named \subseteq Rows /\ Conflicting \subseteq Rows
    /\ MaxForks \in Nat /\ MaxFaults \in Nat

VARIABLES
    chain, forks, faults,
    prod,      \* rows of the production database to be reconciled
    provider,  \* the provider's branch of each run
    expired,   \* branches whose expiration time has passed
    late,      \* branches that appeared too long after their name was signed
    copy,      \* the restored database in that branch
    run        \* the coordinator of each run, and its report

vars == <<chain, forks, faults, prod, provider, expired, late, copy, run>>

Hashes == 0..MaxForks

\* A plan names the target and the products to merge or to reserve; of the
\* history rows to attribute it has only the number.  Its digest is that of
\* the plan: it cannot tell more rows apart than the plan does.
Digests == [named : SUBSET Named, count : 0..Cardinality(Rows), target : Hashes]
PlanOf(rows, target) ==
    [named |-> rows \cap Named, count |-> Cardinality(rows \ Named), target |-> target]

\* there: it can be listed and has its ID, be it ready or not.
Branch == {"none", "asked", "there", "gone"}
Phases == {"reconcile", "scan", "recheck", "review", "commit", "fixed1", "fixed2", "fixed3", "live", "settle"}
Body == {"request", "post", "answer", "verify", "restore"} \cup Phases
Steps == {"start", "intent", "archive", "cleanup", "report", "retry", "over"} \cup Body

Coordinator ==
    [pc : Steps,
     ledger : {"absent", "intent", "named"},        \* resource-ledger.json
     approved : Digests \cup {None},
     target : Hashes \cup {None},
     events : Hashes \cup {None},                   \* the branch the logs were read from
     plan : Digests \cup {None},
     prefixes : SUBSET Hashes,                      \* journal prefixes of the replays
     state : {"working", "blocked", "review", "completed"},
     archive : {"none", "encrypted", "failed"},
     cleanup : {"unknown", "not_created", "already_deleted", "deleted", "failed"},
     result : {"blocked", "pass", "review_required"}]

\* rows: still to be reconciled; applied: reconciled here.
Database == [rows : SUBSET Rows, applied : SUBSET Rows, journal : Hashes \cup {None}]

RehearsalTypeOK ==
    /\ chain \in Hashes /\ forks \in 0..MaxForks /\ faults \in 0..MaxFaults
    /\ prod \subseteq Rows /\ provider \in [Runs -> Branch]
    /\ expired \subseteq Runs /\ late \subseteq Runs
    /\ copy \in [Runs -> Database \cup {None}] /\ run \in [Runs -> Coordinator]
    \* the intent is on disk before the request that cannot be repeated
    /\ \A r \in Runs : run[r].ledger = "absent" /\ run[r].pc # "over" => provider[r] = "none"

Init ==
    /\ chain = 0 /\ forks = 0 /\ faults = 0
    /\ prod \in SUBSET Rows
    /\ provider = [r \in Runs |-> "none"] /\ expired = {} /\ late = {}
    /\ copy = [r \in Runs |-> None]
    /\ run = [r \in Runs |->
                [pc |-> "start", ledger |-> "absent", approved |-> None, target |-> None,
                 events |-> None, plan |-> None, prefixes |-> {}, state |-> "working",
                 archive |-> "none", cleanup |-> "unknown", result |-> "blocked"]]

At(r, step) == run[r].pc = step
Running(e) == \E r \in Runs : EnvironmentOf[r] = e /\ run[r].pc \notin {"start", "over"}
Fault == faults < MaxFaults /\ faults' = faults + 1

\* The coordinator goes on, or blocks: the body is left for the finally.
Go(r, step) == run' = [run EXCEPT ![r].pc = step]
Block(r) == run' = [run EXCEPT ![r].pc = "intent", ![r].state = "blocked"]

world == <<chain, forks, prod, expired, late>>

----------------------------------------------------------------------------
(* RecoveryResources.create *)

\* Whoever starts the workflow may enter any digest, with its target.
Begin(r) ==
    /\ At(r, "start") /\ ~Running(EnvironmentOf[r])
    /\ \E d \in Digests \cup {None} :
          run' = [run EXCEPT ![r].pc = "request", ![r].approved = d,
                             ![r].target = IF d = None THEN None ELSE d.target]
    /\ UNCHANGED <<world, faults, provider, copy>>

WriteIntent(r) ==
    /\ At(r, "request")
    /\ run' = [run EXCEPT ![r].pc = "post", ![r].ledger = "intent"]
    /\ UNCHANGED <<world, faults, provider, copy>>

\* The branch holds what production held at the checkpoint, and so does the
\* private database that is restored from it.
Restored == [rows |-> prod, applied |-> {}, journal |-> None]

Post(r) ==
    /\ At(r, "post") /\ Go(r, "answer")
    /\ provider' = [provider EXCEPT ![r] = "asked"]
    /\ copy' = [copy EXCEPT ![r] = Restored]
    /\ UNCHANGED <<world, faults>>

\* The answer names the branch, ready or not: waiting for that is part of
\* what follows.
Answered(r) ==
    /\ At(r, "answer")
    /\ \/ provider[r] = "there" /\ run' = [run EXCEPT ![r].pc = "verify", ![r].ledger = "named"]
       \/ provider[r] = "gone" /\ Block(r)
    /\ UNCHANGED <<world, faults, provider, copy>>

\* Mutation: when the branch was created is not compared with its name.
OwnedByName(r) == provider[r] = "there"
verify_owned(r) == provider[r] = "there" /\ r \notin late

Verify(r) ==
    /\ At(r, "verify")
    /\ IF verify_owned(r) THEN Go(r, "restore") ELSE Block(r)
    /\ UNCHANGED <<world, faults, provider, copy>>

\* Credentials, database, dump and restore are steps of one kind: the branch
\* is verified again, and each may fail.
Restore(r) ==
    /\ At(r, "restore")
    /\ IF verify_owned(r) THEN Go(r, "reconcile") ELSE Block(r)
    /\ UNCHANGED <<world, faults, provider, copy>>

----------------------------------------------------------------------------
(* The workers of replay_private_restore, each after verify_live_ownership *)

\* The target is the confirmed head, or the one the approval names.
PickTarget(r) ==
    /\ At(r, "reconcile")
    /\ IF verify_owned(r) /\ run[r].target \in {None, chain}
       THEN run' = [run EXCEPT ![r].pc = "scan", ![r].target = chain]
       ELSE Block(r)
    /\ UNCHANGED <<world, faults, provider, copy>>

Scan(r) ==
    /\ At(r, "scan")
    /\ run' = [run EXCEPT ![r].pc = "recheck", ![r].events = chain]
    /\ UNCHANGED <<world, faults, provider, copy>>

TargetStands(r) == chain = run[r].target

Recheck(r) ==
    /\ At(r, "recheck")
    /\ IF TargetStands(r) THEN Go(r, "review") ELSE Block(r)
    /\ UNCHANGED <<world, faults, provider, copy>>

Plan(r) == PlanOf(copy[r].rows, run[r].target)
Conflicts(r) == copy[r].rows \cap Conflicting # {}
Changes(r) == copy[r].rows # {}

\* Mutation: any approval will do.
ApprovedAny(r) == run[r].approved # None
Approved(r) == run[r].approved = Plan(r)

\* reconcile_private: one uncommitted transaction.
Review(r) ==
    /\ At(r, "review")
    /\ IF Conflicts(r) THEN Block(r)
       ELSE run' = [run EXCEPT
                      ![r].plan = Plan(r),
                      ![r].pc = CASE ~Changes(r) -> "fixed1"
                                  [] Changes(r) /\ Approved(r) -> "commit"
                                  [] OTHER -> "intent",
                      ![r].state = IF Changes(r) /\ ~Approved(r) THEN "review" ELSE @]
    /\ UNCHANGED <<world, faults, provider, copy>>

Commit(r) ==
    /\ At(r, "commit")
    /\ IF TargetStands(r)
       THEN /\ Go(r, "fixed1")
            /\ copy' = [copy EXCEPT ![r].rows = {}, ![r].applied = copy[r].rows]
       ELSE Block(r) /\ UNCHANGED copy
    /\ UNCHANGED <<world, faults, provider>>

\* replay_fixed, in a fresh process each time.
Fixed(r) ==
    /\ run[r].pc \in {"fixed1", "fixed2", "fixed3"}
    /\ IF verify_owned(r) /\ TargetStands(r)
       THEN /\ copy' = [copy EXCEPT ![r].journal = chain]
            /\ run' = [run EXCEPT ![r].prefixes = @ \cup {chain},
                                  ![r].pc = CASE @ = "fixed1" -> "fixed2" [] @ = "fixed2" -> "fixed3"
                                              [] OTHER -> "live"]
       ELSE Block(r) /\ UNCHANGED copy
    /\ UNCHANGED <<world, faults, provider>>

\* replay_live: the normal worker follows the chain until it is current.
Live(r) ==
    /\ At(r, "live")
    /\ IF verify_owned(r) THEN Go(r, "settle") ELSE Block(r)
    /\ copy' = IF verify_owned(r) THEN [copy EXCEPT ![r].journal = chain] ELSE copy
    /\ UNCHANGED <<world, faults, provider>>

\* The journal is that of before the live check, the target is still
\* canonical, and all replays agree.
Settle(r) ==
    /\ At(r, "settle")
    /\ IF TargetStands(r) /\ run[r].prefixes = {copy[r].journal}
       THEN run' = [run EXCEPT ![r].pc = "intent", ![r].state = "completed"]
       ELSE Block(r)
    /\ UNCHANGED <<world, faults, provider, copy>>

----------------------------------------------------------------------------
(* The finally of execute, and RecoveryResources.cleanup *)

ReadIntent(r) == At(r, "intent") /\ Go(r, "archive") /\ UNCHANGED <<world, faults, provider, copy>>

\* Private files exist from some point of the restore on.
Archive(r) ==
    /\ At(r, "archive")
    /\ \E kept \in {"none", "encrypted"} :
          /\ run[r].plan # None => kept = "encrypted"
          /\ run' = [run EXCEPT ![r].pc = "cleanup", ![r].archive = kept]
    /\ UNCHANGED <<world, faults, provider, copy>>

\* Mutation: an intent nothing is found for counts as never created.
OutcomeIfUnlisted(r) ==
    CASE run[r].ledger = "absent" -> "not_created"
      [] run[r].ledger = "named" /\ provider[r] = "gone" -> "already_deleted"
      [] run[r].ledger = "intent" /\ provider[r] # "there" -> "not_created"
      [] OTHER -> IF verify_owned(r) THEN "deleted" ELSE "failed"

\* By the ledger's branch, or by the exact name of its intent: a branch not
\* listed yet is "creation_outcome_unconfirmed".
Outcome(r) ==
    CASE run[r].ledger = "absent" -> "not_created"
      [] run[r].ledger = "named" /\ provider[r] = "gone" -> "already_deleted"
      [] OTHER -> IF verify_owned(r) THEN "deleted" ELSE "failed"

\* Cleaned up in the process, then again in the workflow's own step.
Cleanup(r) ==
    /\ run[r].pc \in {"cleanup", "retry"}
    /\ provider' = IF Outcome(r) = "deleted" THEN [provider EXCEPT ![r] = "gone"] ELSE provider
    /\ run' = [run EXCEPT ![r].cleanup = IF run[r].pc = "cleanup" THEN Outcome(r) ELSE @,
                          ![r].ledger = IF Outcome(r) = "deleted" THEN "named" ELSE @,
                          ![r].pc = IF @ = "cleanup" THEN "report" ELSE "over"]
    /\ UNCHANGED <<world, faults, copy>>

\* Mutation: a failed encryption does not block the result.
RetainedAnyway(r) == run[r].cleanup # "failed"
Backed(r) == run[r].archive = "encrypted" /\ run[r].cleanup # "failed"

review_ready(r) == Backed(r) /\ run[r].state = "review" /\ run[r].cleanup \in {"deleted", "already_deleted"}

\* A plan to review counts only within the time objective.
Report(r) ==
    /\ At(r, "report")
    /\ \E within \in BOOLEAN :
          run' = [run EXCEPT ![r].pc = "retry",
                             ![r].result = CASE run[r].state = "completed" /\ Backed(r) -> "pass"
                                             [] review_ready(r) /\ within -> "review_required"
                                             [] OTHER -> "blocked"]
    /\ UNCHANGED <<world, faults, provider, copy>>

----------------------------------------------------------------------------
(* Failures: a refused check, a failed request or a signal ends a body     *)
(* step; a request that failed may have been carried out.                  *)

FailBody(r) ==
    /\ run[r].pc \in Body /\ Fault /\ Block(r)
    /\ provider' \in {provider, [provider EXCEPT ![r] = IF At(r, "post") THEN "asked" ELSE @]}
    /\ copy' = IF provider' # provider
               THEN [copy EXCEPT ![r] = Restored] ELSE copy
    /\ UNCHANGED world

\* A signal outside the handlers of the finally escapes to main, which
\* writes a blocked report.
Escape(r) ==
    /\ run[r].pc \in {"intent", "report"} /\ Fault
    /\ run' = [run EXCEPT ![r].pc = "retry", ![r].state = "blocked", ![r].result = "blocked"]
    /\ UNCHANGED <<world, provider, copy>>

FailArchive(r) ==
    /\ At(r, "archive") /\ Fault
    /\ run' = [run EXCEPT ![r].pc = "cleanup", ![r].archive = "failed"]
    /\ UNCHANGED <<world, provider, copy>>

FailCleanup(r) ==
    /\ run[r].pc \in {"cleanup", "retry"} /\ Fault
    /\ run' = [run EXCEPT ![r].cleanup = IF run[r].pc = "cleanup" THEN "failed" ELSE @,
                          ![r].pc = IF @ = "cleanup" THEN "report" ELSE "over"]
    /\ provider' \in {provider, [provider EXCEPT ![r] = IF Outcome(r) = "deleted" THEN "gone" ELSE @]}
    /\ UNCHANGED <<world, copy>>

\* The runner is lost with its directory.
Lose(r) ==
    /\ run[r].pc \notin {"start", "over"} /\ Fault
    /\ run' = [run EXCEPT ![r].pc = "over", ![r].ledger = "absent", ![r].state = "blocked",
                          ![r].archive = "none", ![r].cleanup = "unknown", ![r].result = "blocked"]
    /\ UNCHANGED <<world, provider, copy>>

----------------------------------------------------------------------------
(* The provider, the reaper and the rest of the world *)

Land(r) ==
    /\ provider[r] = "asked"
    /\ provider' = [provider EXCEPT ![r] = "there"]
    /\ late' \in {late, late \cup {r}}
    /\ UNCHANGED <<chain, forks, faults, prod, expired, copy, run>>

Decline(r) ==
    /\ provider[r] = "asked" /\ provider' = [provider EXCEPT ![r] = "gone"]
    /\ UNCHANGED <<world, faults, copy, run>>

\* Two hours; a job ends after thirty minutes.
TimePasses(r) ==
    /\ At(r, "over") /\ provider[r] # "none" /\ r \notin expired
    /\ expired' = expired \cup {r}
    /\ UNCHANGED <<chain, forks, faults, prod, provider, late, copy, run>>

ProviderExpires(r) ==
    /\ r \in expired /\ provider[r] = "there"
    /\ provider' = [provider EXCEPT ![r] = "gone"]
    /\ UNCHANGED <<world, faults, copy, run>>

\* Mutation: the comparison with the clock is the wrong way round.
ReapableSwapped(e) == {r \in Runs : EnvironmentOf[r] = e /\ provider[r] = "there" /\ r \notin expired}
Reapable(e) == {r \in Runs : EnvironmentOf[r] = e /\ provider[r] = "there" /\ r \in expired}

\* reap_expired goes through the listed branches in some order and stops at
\* the first it cannot verify.
Reap(e) ==
    /\ ~Running(e) /\ Reapable(e) # {}
    /\ LET unverified == {r \in late : EnvironmentOf[r] = e /\ provider[r] = "there"} IN
       \E gone \in SUBSET (Reapable(e) \ late) :
          /\ unverified = {} => gone = Reapable(e)
          /\ provider' = [r \in Runs |-> IF r \in gone THEN "gone" ELSE provider[r]]
    /\ UNCHANGED <<world, faults, copy, run>>

\* Between two checkpoints operators reconcile rows of production, and the
\* release that is in service may add some.
Operate ==
    /\ \E rows \in SUBSET Rows : prod' = rows
    /\ UNCHANGED <<chain, forks, faults, provider, expired, late, copy, run>>

Fork ==
    /\ forks < MaxForks /\ forks' = forks + 1 /\ chain' = forks + 1
    /\ UNCHANGED <<faults, prod, provider, expired, late, copy, run>>

Coordinate(r) ==
    \/ Begin(r) \/ WriteIntent(r) \/ Post(r) \/ Answered(r) \/ Verify(r) \/ Restore(r)
    \/ PickTarget(r) \/ Scan(r) \/ Recheck(r) \/ Review(r) \/ Commit(r)
    \/ Fixed(r) \/ Live(r) \/ Settle(r)
    \/ ReadIntent(r) \/ Archive(r) \/ Cleanup(r) \/ Report(r)

Fails(r) == FailBody(r) \/ Escape(r) \/ FailArchive(r) \/ FailCleanup(r) \/ Lose(r)

Next == \/ \E r \in Runs : \/ Coordinate(r) \/ Fails(r)
                           \/ Land(r) \/ Decline(r) \/ TimePasses(r) \/ ProviderExpires(r)
        \/ \E e \in Environments : Reap(e)
        \/ Operate \/ Fork

Spec == Init /\ [][Next]_vars

\* A job ends one way or the other, time passes, and the reaper is scheduled
\* every hour; the provider's own expiration is not relied on.
Fairness == /\ \A r \in Runs : WF_vars(Coordinate(r)) /\ WF_vars(TimePasses(r)) /\ WF_vars(Land(r) \/ Decline(r))
            /\ \A e \in Environments : WF_vars(Reap(e))
FairSpec == Spec /\ Fairness

----------------------------------------------------------------------------
\* What a report says is gone is gone for good, even if the provider carries
\* out a request late ("An uncertain outcome is reported for review").
ReportHonest ==
    \A r \in Runs : run[r].cleanup \in {"not_created", "already_deleted", "deleted"} =>
        provider[r] \in {"none", "gone"}

\* A drill that passed, or that asks for a review, kept its evidence and left
\* no branch.  The one reconciled every row, by the plan it reports, and
\* three restarts and the live worker hold the journal of the target; the
\* other changed nothing, and its plan is of the rows that are still there.
ResultBacked ==
    \A r \in Runs : run[r].result # "blocked" =>
        /\ run[r].archive = "encrypted" /\ provider[r] = "gone"
        /\ run[r].result = "pass" =>
              /\ run[r].prefixes = {run[r].target} /\ copy[r].journal = run[r].target
              /\ copy[r].rows = {} /\ run[r].plan = PlanOf(copy[r].applied, run[r].target)
        /\ run[r].result = "review_required" =>
              /\ copy[r].applied = {} /\ run[r].plan = PlanOf(copy[r].rows, run[r].target)

\* Rows are reconciled only under the digest of the plan that they and the
\* branch their logs were read from give, and never with a conflict among
\* them: as many history rows as approved, exactly the products approved.
AppliedAsApproved ==
    \A r \in Runs : copy[r] # None /\ copy[r].applied # {} =>
        /\ run[r].approved = PlanOf(copy[r].applied, run[r].events)
        /\ copy[r].applied \cap Conflicting = {}

\* Workers touch only a verified branch of their own run.
WorksOnItsBranch ==
    \A r \in Runs : run[r].pc \in Phases => provider[r] = "there" /\ r \notin late

\* What the coordinators, their ledgers and the provider say of a branch
\* fits together; the hourly reaper takes none that is worked on.
RehearsalInv == RehearsalTypeOK /\ WorksOnItsBranch

\* Unless a branch appeared too late to be verified, every branch is removed
\* whatever became of its run, without the provider's expiration.
EveryBranchGoes ==
    [](late = {}) => \A r \in Runs : provider[r] = "there" ~> provider[r] = "gone"
=============================================================================
