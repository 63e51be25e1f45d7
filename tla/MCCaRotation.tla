---------------------------- MODULE MCCaRotation ----------------------------
(* Instances of CaRotation for TLC: which outside events each run allows. *)
EXTENDS TLC, CaRotation

CONSTANTS u1, u2

Allow(n) == [e \in Event |-> IF e \in DOMAIN n THEN n[e] ELSE 0]

BothEvents == {Allow([replace |-> 2]), Allow([replace |-> 1, renew |-> 1, age |-> 1]),
               Allow([replace |-> 1, cron |-> 1]), Allow([age |-> 1, cron |-> 1]),
               Allow([replace |-> 1, edit |-> 1, leaf |-> 1]), Allow([replace |-> 1, pod |-> 1])}
                \cup {Allow([replace |-> 1, age |-> 1] @@ (e :> 1)) : e \in {"expire", "abort"}}
                \cup {Allow([replace |-> 1] @@ (e :> 1)) : e \in {"invalid", "dependency"}}
DependencyEvents == {Allow([replace |-> 1, dependency |-> 1])}
=============================================================================
