------------------------ MODULE ExceptionsProperties ------------------------
(***************************************************************************)
(* What SHIPMENT_EXCEPTIONS.md promises of episodes and acknowledgements.  *)
(***************************************************************************)
EXTENDS Exceptions

OpenConditions(rows, s) ==
    {rows[i].cond : i \in {j \in DOMAIN rows : IsOpen(rows[j]) /\ rows[j].shipment = s}}

\* Episodes are well typed, one at most of a kind is open for a shipment,
\* and their times are in order although clocks are set back and several
\* workers evaluate: a condition is overdue before it is observed, and
\* observed before it is resolved.
ExceptionsTypeOK ==
    /\ episodes \in Seq(Episode) /\ OnePerKind(episodes)
    /\ \A i \in DOMAIN episodes :
          LET e == episodes[i] IN
          /\ e.cond.due <= e.first /\ e.first <= e.last
          /\ ~IsOpen(e) => e.last <= e.resolved /\ e.resolved <= evaluated.at
          /\ IsOpen(e) <=> e.resolution = "none"
    /\ plan \in [Shipments -> Plan]
    /\ \A s \in Shipments : policy[s].values \in Policies /\ policy[s].revision \in 0..MaxEdits
    /\ evaluated.at \in Time \cup {NoTime}
    /\ cursor \in 0..MaxBlock /\ health \in [Workers -> 0..MaxBlock \cup {Paused}]
    /\ holder = NoWorker <=> \A w \in Workers : pc[w] \notin {"recheck", "commit"}

\* When an evaluation is committed, the open episodes are exactly what is
\* overdue according to the journal and the policies of that moment, and to
\* the plans it read; a shipment with a log from the future keeps what it
\* had.
OpenIsOverdue ==
    [][\A w \in Workers : Commit(w) =>
          \A s \in Shipments :
              OpenConditions(episodes', s) =
                  IF Uncertain(journal[s], local[w].now) THEN OpenConditions(episodes, s)
                  ELSE conditions(journal[s], policy[s].values, local[w].plans[s], local[w].now)
      ]_vars

\* "Closed history and earlier acknowledgements remain intact", and an
\* unrelated change of a policy preserves acknowledgements: an episode is
\* closed only when its own condition does not hold any more, is withdrawn
\* only when its anchor left the journal, and is then never changed.
HistoryKept ==
    [][/\ Len(episodes) <= Len(episodes')
       /\ \A i \in DOMAIN episodes :
             LET e == episodes[i]
                 f == episodes'[i]
                 J == journal[e.shipment] IN
             /\ e.acknowledged # NoTime => f.acknowledged = e.acknowledged
             /\ ~IsOpen(e) => f = e
             /\ IsOpen(e) /\ ~IsOpen(f) =>
                   \E w \in Workers :
                      /\ Commit(w)
                      /\ e.cond \notin conditions(J, policy[e.shipment].values,
                                                  local[w].plans[e.shipment], local[w].now)
                      /\ f.resolution = "evidence_withdrawn" => e.cond.anchor \notin Occurrences(J)
                      /\ f.resolution = "condition_cleared" => e.cond.anchor \in Occurrences(J)
      ]_vars

----------------------------------------------------------------------------
(* Liveness.  Workers come back every minute and each gets the lock in the *)
(* end; polls of the indexer end and publish its progress.                 *)

FairSpec ==
    /\ Spec
    /\ \A w \in Workers :
          /\ WF_vars(Begin(w)) /\ WF_vars(Evaluate(w)) /\ WF_vars(Recheck(w)) /\ WF_vars(Commit(w))
          /\ SF_vars(Evaluate(w) /\ holder = NoWorker)
          /\ WF_vars(Publish(w))

\* If a process stays current and the clock is not behind the last
\* assessment, what is overdue for good has an open episode in the end, and
\* nothing else has.
Noticed ==
    (\E w \in Workers : <>[](health[w] # Paused)) /\ <>[](evaluated.at = NoTime \/ evaluated.at <= clock) =>
        <>[](\A s \in Shipments :
                \/ Uncertain(journal[s], clock)
                \/ OpenConditions(episodes, s) = conditions(journal[s], policy[s].values, plan[s], clock))
=============================================================================
