--------------------------- MODULE RebalanceContract ---------------------------
(***************************************************************************)
(* What the users of a KafkaRebalance rely on (controller/rebalance.rs,    *)
(* crd/rebalance.rs): how its state and its command annotation change.     *)
(* Module Rebalance implements it; the drain of module NodePool assumes    *)
(* it.                                                                     *)
(***************************************************************************)

VARIABLES state, command

RebalanceState == {"New", "ProposalReady", "Rebalancing", "Ready", "NotReady", "Stopped"}
RebalanceCommand == {"approve", "refresh", "stop"}

Init == state \in {"absent", "New"} /\ command = "none"

Create == state = "absent" /\ state' = "New" /\ command' = "none"
Delete == state # "absent" /\ state' = "absent" /\ command' = "none"

\* Anyone may annotate a resource; its reconciler removes the annotation.
Ask(c) == state # "absent" /\ command' = c /\ UNCHANGED state
Consume == command' = "none" /\ UNCHANGED state

\* A new proposal may follow any state (refresh), and so may a failure.
Propose(s) == state # "absent" /\ s \in {"New", "ProposalReady", "Ready"} /\ state' = s
Fail == state # "absent" /\ state' = "NotReady"

\* Only a proposal that is ready is executed, and only an execution is stopped.
Execute == state = "ProposalReady" /\ state' = "Rebalancing"
Finish(s) == state = "Rebalancing" /\ s \in {"Ready", "Stopped"} /\ state' = s

Next ==
  \/ Create \/ Delete \/ Consume
  \/ \E c \in RebalanceCommand : Ask(c)
  \/ /\ Fail \/ Execute \/ \E s \in RebalanceState : Propose(s) \/ Finish(s)
     /\ command' \in {command, "none"}

Spec == Init /\ [][Next]_<<state, command>>
=============================================================================
