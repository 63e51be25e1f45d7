--------------------------- MODULE MCLeaderElection ---------------------------
(* Small instances of LeaderElection for TLC. *)
EXTENDS LeaderElection, TLC

CONSTANTS r1, r2, r3,
          MaxRestarts     \* bound on the container restarts of a behaviour

Symm == Permutations(Replica)

\* How often a container has been restarted.
VARIABLE restarts

Restarted == \E r \in Replica : phase[r] = "Down" /\ phase'[r] # "Down"

CountedInit == Init /\ restarts = 0

CountedNext ==
  /\ Next
  /\ restarts' = restarts + (IF Restarted THEN 1 ELSE 0)
  /\ restarts' <= MaxRestarts

CountedSpec == CountedInit /\ [][CountedNext]_<<vars, restarts>>

CountedFairSpec == CountedSpec /\ Fairness

\* Two replicas never run their controllers at the same time, and the replica in the
\* phase Leading holds the lease (renew_loop gives up before the lease can be claimed),
\* as long as no container was restarted: a restarted process reuses the lease of its
\* predecessor as it is, however old it is (acquire, held_by_us).
OneLeaderUntilRestart == restarts = 0 => AtMostOneReconciler /\ LeadingHoldsLease
===============================================================================
