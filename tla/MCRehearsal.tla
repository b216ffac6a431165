---------------------------- MODULE MCRehearsal ----------------------------
(***************************************************************************)
(* Two rehearsals of one environment.  While only the first has started,   *)
(* it is given any digest, and production any rows; the second starts when *)
(* neither the first nor production has anything to reconcile.             *)
(***************************************************************************)
EXTENDS Rehearsal

CONSTANTS r1, r2, history, product, doubtful

MCRuns == {r1, r2}
MCEnvironmentOf == [r \in MCRuns |-> "testing"]

Nothing == /\ prod = {} /\ \A r \in Runs : run[r].approved = None
           /\ copy[r1] # None => copy[r1].rows = {} /\ copy[r1].applied = {}
Small == run[r2].pc = "start" \/ Nothing

MCNext == Next /\ Small'

\* Fairness, of the steps that are left.
MCSpec ==
    /\ Init /\ [][MCNext]_vars
    /\ \A r \in Runs : /\ WF_vars(Coordinate(r) /\ Small')
                       /\ WF_vars(TimePasses(r)) /\ WF_vars(Land(r) \/ Decline(r))
    /\ \A e \in Environments : WF_vars(Reap(e))
=============================================================================
