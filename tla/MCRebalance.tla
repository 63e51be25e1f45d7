------------------------------ MODULE MCRebalance ------------------------------
(* Instances of Rebalance: how often each event may happen. *)
EXTENDS Rebalance, TLC

Events(S) == [e \in Event |-> IF e \in S THEN 1 ELSE 0]
TwoApprovals(S) == [Events(S) EXCEPT !["approve"] = 2]

\* Commands against passes that end early, against a service that refuses or does not
\* answer, and against an old copy of the resource.
Races == {TwoApprovals({"stop", "refresh", "abort"}),
          TwoApprovals({"refresh", "unreachable", "error"}),
          TwoApprovals({"stop", "error", "stale"}),
          TwoApprovals({"refresh", "refused", "stale"}),
          Events({"approve", "stop", "unreachable"}),
          [Events({"approve", "abort"}) EXCEPT !["stale"] = 2]}
==============================================================================
