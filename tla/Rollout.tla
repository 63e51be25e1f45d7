------------------------------- MODULE Rollout -------------------------------
(***************************************************************************)
(* The ordered rollout of one configuration hash over the node pools of a  *)
(* cluster (plan_rollout in common.rs) and the test that no roll is in     *)
(* flight (pools_converged in kafka.rs).  Pools are numbered in roll       *)
(* order, which adopt_pools fixes by (nodeIdStart, name).                  *)
(***************************************************************************)
EXTENDS Naturals, FiniteSets

CONSTANT NPools

ASSUME PoolsAssumption == NPools \in Nat

Pool == 1 .. NPools

NoHash == <<>>          \* the pool never got a config-hash label

\* The hash that adopt_pools writes to every pool.  Bring-up and a mixture of old
\* hashes: everybody at once.  Otherwise every pool up to and including the first
\* one that does not both carry the hash and report ready.
plan_rollout(label, ready, desired) ==
  LET others == {label[p] : p \in Pool} \ {desired}
      converged(p) == label[p] = desired /\ ready[p]
  IN  IF NoHash \in others \/ Cardinality(others) > 1
      THEN [p \in Pool |-> desired]
      ELSE [p \in Pool |-> IF \A q \in 1 .. (p - 1) : converged(q)
                           THEN desired ELSE label[p]]

\* Every pool carries one hash, its StatefulSet was applied with that hash and has
\* finished its roll to it.  `rolled[p]` is the hash that all the ready replicas of
\* pool p run, or NoHash while they differ or are not all ready.
pools_converged(label, tmpl, rolled) ==
  /\ \A p \in Pool : /\ label[p] # NoHash
                     /\ tmpl[p] = label[p]
                     /\ rolled[p] = tmpl[p]
  /\ \A p, q \in Pool : label[p] = label[q]
==============================================================================
