-------------------------- MODULE CaRotationProofs --------------------------
(***************************************************************************)
(* Proofs about CaRotation, for any pools, users, CAs and budgets, and     *)
(* whatever fails.                                                         *)
(*                                                                         *)
(* The invariant has two layers.  Types: every value has its type.  Books: *)
(* the two Secrets of a CA agree with each other and with what the pass is *)
(* about to write or has written.                                          *)
(*                                                                         *)
(* Theorems: TypeCorrect, PromotionCanReplay, ByoKept.  CaTrustProofs adds *)
(* who trusts whom.                                                        *)
(***************************************************************************)
EXTENDS CaRotation, TLAPS

-----------------------------------------------------------------------------
(* Types *)

Plan == {"NoOp", "Refuse", "RenewCertSameKey", "StartKeyReplace", "PromoteNewKey", "PruneOldTrust"}
Anchor == [key : 0 .. keys, gen : Nat]
CaBundle == [signer : CaCert, anchors : SUBSET CaCert]
HashBundle == [signer : Anchor, anchors : SUBSET Anchor]
Leafs == [Pool -> 1 .. keys]
HashT == [cluster : HashBundle, clients : HashBundle, leafs : Leafs \cup {<<>>}, edits : Nat]
KeySecret == [key : 1 .. keys, next : 0 .. keys, gen : Nat]
CertSecret == [bundle : CaBundle, gen : Nat, phase : Phase, leafs : Nat]
Pod == [up : BOOLEAN, rev : HashT, leaf : 1 .. keys, trust : [Cas -> SUBSET (1 .. keys)]]
Outcome == [plan : Plan, secret : KeySecret, bundle : CaBundle, gen : Nat, phase : Phase,
            reissue : BOOLEAN]
Pass == [ca : Cas, force : SUBSET Annotation, edits : Nat, ready : [Pool -> BOOLEAN],
         converged : BOOLEAN, out : [Cas -> Outcome \cup {NoPlan}], todo : SUBSET User,
         leafs : Leafs \cup {<<>>}]

CaStep == {"plan", "key", "cert"}

\* The pass has left the CA w behind.
Past(w) == \/ pc \in {"operator"} \cup Signing
           \/ pc \in CaStep /\ w = "Cluster" /\ pass.ca = "Clients"

\* The pass is between its plan for w and the last write of it.
Writing(w) == pc \in {"key", "cert"} /\ pass.ca = w

\* The part of Types about the pass, and the part about the CronJob.
PassTypes ==
  IF pc = "idle" THEN pass = NoPass
  ELSE /\ pass \in Pass
       /\ \A w \in Cas : Past(w) \/ Writing(w) => pass.out[w] \in Outcome
       /\ pc = "users" => "Clients" \in Cas

CronTypes ==
  \/ cron = NoCron
  \/ /\ cron.at \in {"flag", "sign"} /\ "Cluster" \in Cas
     /\ cron.key \in 1 .. keys /\ cron.old \in Leafs
     /\ cron.at = "sign" => cron.seen \in Leafs

StateTypes ==
  /\ keys \in Nat /\ keys >= 2
  /\ keySec \in [Cas -> KeySecret]
  /\ certSec \in [Cas -> CertSecret]
  /\ keystore \in Leafs
  /\ userLeaf \in [User -> 1 .. keys]
  /\ operator \in [leaf : 1 .. keys, trust : SUBSET (1 .. keys)]
  /\ label \in [Pool -> HashT] /\ tmpl \in [Pool -> HashT]
  /\ reported \in [Pool -> BOOLEAN]
  /\ pod \in [Pool -> Pod]
  /\ byo \subseteq Cas /\ force \subseteq Annotation
  /\ events \in [Event -> Nat]
  /\ pc \in {"idle", "operator"} \cup CaStep \cup Signing

Types == StateTypes /\ PassTypes /\ CronTypes

-----------------------------------------------------------------------------
(* What the two Secrets of a CA and the pass know of each other *)

\* The two Secrets of a CA agree, but for a promotion that has reached only one.
Agree(w, k, c) ==
  /\ c.leafs <= k.gen
  /\ k.key # c.bundle.signer.key => c.phase = "Trust" /\ k.key = k.next
  /\ c.phase = "Trust" => /\ k.next # 0 /\ k.next \in KeysOf(c.bundle) /\ k.key <= k.next
                          /\ k.key = k.next => c.leafs < k.gen

\* Leafs are reissued in the promote phase only; the brokers' by the promotion itself.
Reissues(w, o) ==
  /\ o.plan = "PromoteNewKey" => o.phase = "Promote"
  /\ o.reissue => o.phase = "Promote"
  /\ w = "Cluster" => (o.reissue <=> o.plan = "PromoteNewKey")

\* What the pass is about to write, by plan.
Planned(w, o, k, c) ==
  /\ pc = "cert" => k = o.secret
  /\ w \notin byo
  /\ \/ /\ o.plan = "RenewCertSameKey" /\ pc = "cert"
        /\ c.phase = "Idle" /\ o.phase = "Idle"
        /\ o.bundle.signer.key = k.key
        /\ expired = {} => KeysOf(o.bundle) = KeysOf(c.bundle) \cup {k.key}
     \/ /\ o.plan = "StartKeyReplace"
        /\ c.phase = "Idle" /\ o.phase = "Trust"
        /\ o.bundle.signer = c.bundle.signer /\ o.secret.key = k.key /\ o.secret.gen = k.gen
        /\ o.secret.next > k.key /\ o.secret.next \in KeysOf(o.bundle)
        /\ expired = {} => KeysOf(o.bundle) = KeysOf(c.bundle) \cup {o.secret.next}
     \/ /\ o.plan = "PromoteNewKey" /\ pass.converged
        /\ c.phase = "Trust" /\ o.phase = "Promote"
        /\ o.secret.key = k.next /\ o.secret.next = k.next /\ o.bundle.signer.key = k.next
        /\ o.secret.gen = IF k.key = k.next THEN k.gen ELSE k.gen + 1
        /\ expired = {} => KeysOf(o.bundle) = KeysOf(c.bundle)
     \/ /\ o.plan = "PruneOldTrust" /\ pass.converged
        /\ c.phase = "Promote" /\ o.phase = "Idle"
        /\ o.secret.key = k.key /\ o.secret.gen = k.gen
        /\ o.bundle.signer = c.bundle.signer
        /\ KeysOf(o.bundle) = {c.bundle.signer.key}
        /\ w = "Clients" => c.leafs = k.gen
     \/ /\ o.plan = "PruneOldTrust" /\ pc = "cert"
        /\ c.phase = "Idle" /\ o.phase = "Idle" /\ expired # {}
        /\ o.bundle.signer = c.bundle.signer

\* What it remembers of a CA that it has left behind.
Remembered(w, o, k, c) ==
  /\ k = o.secret
  /\ o.bundle = c.bundle /\ o.phase = c.phase
  /\ Reissues(w, o)

Agreement == \A w \in Cas : Agree(w, keySec[w], certSec[w])
Plans == \A w \in Cas : Writing(w) => /\ Planned(w, pass.out[w], keySec[w], certSec[w])
                                      /\ Reissues(w, pass.out[w])
Memory == \A w \in Cas : Past(w) => Remembered(w, pass.out[w], keySec[w], certSec[w])

\* After a promotion, the marker says that every user has a leaf of the new key.
Marked ==
  "Clients" \in Cas /\ certSec["Clients"].phase = "Promote" =>
    /\ certSec["Clients"].leafs = keySec["Clients"].gen
         => \A u \in User : userLeaf[u] = keySec["Clients"].key
    /\ pc = "users" => \A u \in User \ pass.todo : userLeaf[u] = keySec["Clients"].key

Books == Agreement /\ Plans /\ Memory /\ Marked

-----------------------------------------------------------------------------
(* Type correctness *)

LEMMA TypesInit == Init => Types
<1> SUFFICES ASSUME Init PROVE Types
  BY Zenon
<1> USE CaAssumption, PoolsAssumption
<1> DEFINE h == Hash(IF Has("Cluster") THEN FirstBundle("Cluster") ELSE NoBundle, NoBundle, [p \in Pool |-> 1], 0)
<1>1. keys = 2 /\ 1 \in 1 .. keys /\ 2 \in 1 .. keys /\ 0 \in 0 .. keys
  BY SMTT(30), Z3T(30) DEF Init
<1>2. \A w \in Cas : FirstKey(w) \in 1 .. keys /\ FirstBundle(w) \in CaBundle
  BY <1>1, Zenon DEF FirstKey, FirstBundle, CaBundle, CaCert, Cert
<1>3. FirstBundle("Cluster") \in HashBundle /\ NoBundle \in HashBundle
  BY <1>1, SMTT(30), Z3T(30) DEF FirstKey, FirstBundle, NoBundle, HashBundle, Anchor, Cert
<1>4. [p \in Pool |-> 1] \in Leafs
  BY <1>1, Zenon DEF Leafs
<1>5. h \in HashT
  BY <1>3, <1>4, Zenon DEF Hash, HashT
<1>6. keySec \in [Cas -> KeySecret] /\ certSec \in [Cas -> CertSecret]
  BY <1>1, <1>2, Zenon DEF Init, KeySecret, CertSecret, Phase
<1>7. pod \in [Pool -> Pod]
  BY <1>1, <1>2, <1>5, SMTT(30), Z3T(30) DEF Init, Pod
<1>8. userLeaf \in [User -> 1 .. keys]
  BY <1>1, Zenon DEF Init, FirstKey
<1>9. keystore \in Leafs /\ label \in [Pool -> HashT] /\ tmpl \in [Pool -> HashT]
  BY <1>4, <1>5, Zenon DEF Init
<1>10. operator \in [leaf : 1 .. keys, trust : SUBSET (1 .. keys)]
  BY <1>1, Zenon DEF Init
<1>11. /\ keys \in Nat /\ keys >= 2 /\ byo \subseteq Cas /\ force \subseteq Annotation
       /\ reported \in [Pool -> BOOLEAN] /\ events \in [Event -> Nat]
  BY <1>1, SMTT(30), Z3T(30) DEF Init
<1>12. pc \in {"idle", "operator"} \cup CaStep \cup Signing /\ PassTypes
  BY Zenon DEF Init, PassTypes
<1>13. CronTypes
  BY Zenon DEF Init, CronTypes, NoCron
<1> QED
  BY <1>6, <1>7, <1>8, <1>9, <1>10, <1>11, <1>12, <1>13, Zenon DEF Types, StateTypes

\* The numbers among the state.
LEMMA Typed ==
  ASSUME Types
  PROVE  /\ keys \in Nat
         /\ \A w \in Cas : /\ keySec[w].key \in Nat /\ keySec[w].key # 0
                           /\ keySec[w].next \in Nat /\ keySec[w].gen \in Nat
                           /\ certSec[w].leafs \in Nat
         /\ \A p \in Pool : keystore[p] \in Nat /\ pod[p].leaf \in Nat
         /\ \A l \in Leafs : \A p \in Pool : l[p] \in Nat
<1>1. /\ keys \in Nat /\ keySec \in [Cas -> KeySecret] /\ certSec \in [Cas -> CertSecret]
      /\ keystore \in Leafs /\ pod \in [Pool -> Pod]
  BY Zenon DEF Types, StateTypes
<1>2. \A i \in 1 .. keys : i \in Nat /\ i # 0
  BY <1>1, SMTT(30), Z3T(30)
<1>3. \A w \in Cas : /\ keySec[w].key \in Nat /\ keySec[w].key # 0
                     /\ keySec[w].next \in Nat /\ keySec[w].gen \in Nat
  BY <1>1, SMTT(30), Z3T(30) DEF KeySecret
<1>4. \A w \in Cas : certSec[w].leafs \in Nat
  BY <1>1, Zenon DEF CertSecret
<1>5. \A l \in Leafs : \A p \in Pool : l[p] \in Nat
  BY <1>2, Zenon DEF Leafs
<1>6. \A p \in Pool : pod[p].leaf \in Nat
  BY <1>1, <1>2, Zenon DEF Pod
<1> QED
  BY <1>1, <1>3, <1>4, <1>5, <1>6, Zenon

\* What is planned has its type; a fresh key is the next number.
LEMMA OutcomeType ==
  ASSUME Types, NEW w \in Cas, NEW plan \in Plan,
         keys' = IF plan = "StartKeyReplace" THEN keys + 1 ELSE keys,
         plan = "PromoteNewKey" => keySec[w].next # 0
  PROVE  apply_ca_rotation(w, plan) \in Outcome'
<1> USE DEF StateTypes
<1> DEFINE k == keySec[w]
           c == certSec[w]
           kept == prune_expired(c.bundle)
<1>1. k \in KeySecret /\ c \in CertSecret /\ keys \in Nat /\ keys' \in Nat /\ keys' >= keys
  BY SMTT(30), Z3T(30) DEF Types
<1>2. k \in KeySecret' /\ k.key \in 1 .. keys' /\ k.next \in 0 .. keys' /\ k.gen \in Nat
  BY <1>1, SMTT(30), Z3T(30) DEF KeySecret
<1>3. CaCert \subseteq CaCert'
  BY <1>1, SMTT(30), Z3T(30) DEF CaCert
<1>4. /\ c.bundle \in CaBundle /\ c.bundle \in CaBundle'
      /\ c.gen \in Nat /\ c.phase \in Phase
  BY <1>1, <1>3, Zenon DEF CertSecret, CaBundle
<1>5. kept \in CaBundle /\ kept \in CaBundle'
  BY <1>4, <1>3, Zenon DEF prune_expired, CaBundle
<1>6. \A a \in CaCert' : \A S \in SUBSET CaCert' : dedup_blocks(a, S) \in CaBundle'
  BY Zenon DEF dedup_blocks, CaBundle
<1>7. Blocks(kept) \in SUBSET CaCert' /\ Blocks(c.bundle) \in SUBSET CaCert'
  BY <1>4, <1>5, Zenon DEF Blocks, CaBundle
<1>8. \A s \in KeySecret' : \A b \in CaBundle' : \A g \in Nat : \A ph \in Phase :
        outcome(w, plan, s, b, g, ph) \in Outcome'
  BY Zenon DEF outcome, Outcome
<1>9. CASE plan = "RenewCertSameKey"
  <2>1. Cert(k.key, c.gen + 1) \in CaCert'
    BY <1>2, <1>4, SMTT(30), Z3T(30) DEF Cert, CaCert
  <2>2. dedup_blocks(Cert(k.key, c.gen + 1), Blocks(kept)) \in CaBundle'
    BY <2>1, <1>6, <1>7, Zenon
  <2> QED
    BY <1>9, <2>2, <1>8, <1>2, <1>4, SMTT(30), Z3T(30) DEF apply_ca_rotation, Phase
<1>10. CASE plan = "StartKeyReplace"
  <2>1. Cert(keys + 1, 0) \in CaCert' /\ [k EXCEPT !.next = keys + 1] \in KeySecret'
    BY <1>10, <1>1, <1>2, SMTT(30), Z3T(30) DEF Cert, CaCert, KeySecret
  <2>2. kept.signer \in CaCert' /\ kept.anchors \in SUBSET CaCert'
    BY <1>5, Zenon DEF CaBundle
  <2>3. dedup_blocks(kept.signer, kept.anchors \cup {Cert(keys + 1, 0)}) \in CaBundle'
    BY <2>1, <2>2, <1>6, Zenon
  <2> QED
    BY <1>10, <2>1, <2>3, <1>8, <1>4, Zenon DEF apply_ca_rotation, Phase
<1>11. CASE plan = "PromoteNewKey"
  <2>1. Cert(k.next, 0) \in CaCert'
    BY <1>11, <1>2, SMTT(30), Z3T(30) DEF Cert, CaCert
  <2>2. dedup_blocks(Cert(k.next, 0), Blocks(c.bundle)) \in CaBundle'
    BY <2>1, <1>6, <1>7, Zenon
  <2>3. prune_expired(dedup_blocks(Cert(k.next, 0), Blocks(c.bundle))) \in CaBundle'
    BY <2>2, Zenon DEF prune_expired, CaBundle
  <2>4. [key |-> k.next, next |-> k.next, gen |-> IF k.key = k.next THEN k.gen ELSE k.gen + 1] \in KeySecret'
    BY <1>11, <1>2, SMTT(30), Z3T(30) DEF KeySecret
  <2> QED
    BY <1>11, <2>3, <2>4, <1>8, <1>4, SMTT(30), Z3T(30) DEF apply_ca_rotation, promote, Phase
<1>12. CASE plan = "PruneOldTrust"
  <2>1. [c.bundle EXCEPT !.anchors = {}] \in CaBundle' /\ [k EXCEPT !.next = 0] \in KeySecret'
    BY <1>1, <1>2, <1>4, SMTT(30), Z3T(30) DEF CaBundle, KeySecret
  <2> QED
    BY <1>12, <2>1, <1>8, <1>2, <1>4, <1>5, Zenon DEF apply_ca_rotation, Phase
<1>13. CASE plan \in {"NoOp", "Refuse"}
  BY <1>13, <1>8, <1>2, <1>4, Zenon DEF apply_ca_rotation
<1> QED
  BY <1>9, <1>10, <1>11, <1>12, <1>13, Zenon DEF Plan

\* More keys only add values to the types.
LEMMA TypesGrow ==
  ASSUME keys \in Nat, keys' \in Nat, keys' >= keys
  PROVE  /\ KeySecret \subseteq KeySecret' /\ CertSecret \subseteq CertSecret'
         /\ HashT \subseteq HashT' /\ Leafs \subseteq Leafs' /\ Pod \subseteq Pod'
         /\ Outcome \subseteq Outcome' /\ Pass \subseteq Pass'
<1>1. 1 .. keys \subseteq 1 .. keys' /\ 0 .. keys \subseteq 0 .. keys'
  BY SMTT(30), Z3T(30)
<1>2. KeySecret \subseteq KeySecret' /\ CaCert \subseteq CaCert' /\ Anchor \subseteq Anchor'
  BY <1>1, Zenon DEF KeySecret, CaCert, Anchor
<1>3. CaBundle \subseteq CaBundle' /\ HashBundle \subseteq HashBundle'
  BY <1>2, Zenon DEF CaBundle, HashBundle
<1>4. CertSecret \subseteq CertSecret'
  BY <1>3, Zenon DEF CertSecret
<1>5. Leafs \subseteq Leafs'
  BY <1>1, Zenon DEF Leafs
<1>6. HashT \subseteq HashT'
  BY <1>3, <1>5, Zenon DEF HashT
<1>7. Outcome \subseteq Outcome'
  BY <1>2, <1>3, Zenon DEF Outcome
<1>8. [Cas -> SUBSET (1 .. keys)] \subseteq [Cas -> SUBSET (1 .. keys')]
  BY <1>1, Zenon
<1>9. Pod \subseteq Pod'
  BY <1>1, <1>6, <1>8, Zenon DEF Pod
<1>10. [Cas -> Outcome \cup {NoPlan}] \subseteq [Cas -> Outcome' \cup {NoPlan}]
  BY <1>7, Zenon
<1>11. Pass \subseteq Pass'
  BY <1>5, <1>10, Zenon DEF Pass, NoPlan
<1> QED
  BY <1>2, <1>4, <1>5, <1>6, <1>7, <1>9, <1>11, Zenon

LEMMA PlanType ==
  ASSUME NEW w, NEW f, NEW converged
  PROVE  plan_ca_rotation(w, f, converged) \in Plan
BY Zenon DEF plan_ca_rotation, Plan

\* The bookkeeping of a pass that goes on to the next CA.
LEMMA NextCaType ==
  ASSUME CaAssumption, NEW p \in Pass, NextCa(p)
  PROVE  /\ pass' \in Pass /\ pc' \in {"plan", "operator"}
         /\ pass' = [p EXCEPT !.ca = pass'.ca]
         /\ pc' = "plan" => p.ca = "Cluster" /\ pass'.ca = "Clients"
         /\ pc' = "operator" => pass' = p /\ (p.ca = "Cluster" => Cas = {"Cluster"})
<1>1. CASE p.ca = "Cluster" /\ Has("Clients")
  BY <1>1, SMTT(30), Z3T(30) DEF NextCa, Has, Pass
<1>2. CASE ~(p.ca = "Cluster" /\ Has("Clients"))
  BY <1>2, CaAssumption, SMTT(30), Z3T(30) DEF NextCa, Has, Pass
<1> QED
  BY <1>1, <1>2, Zenon

LEMMA TypesPlanCa == Types /\ PlanCa => Types'
<1> SUFFICES ASSUME Types, PlanCa PROVE Types'
  BY Zenon
<1> DEFINE w == pass.ca
           plan == plan_ca_rotation(w, pass.force, pass.converged)
           o == apply_ca_rotation(w, plan)
           p == [pass EXCEPT !.out[w] = o]
<1>1. pc = "plan" /\ pass \in Pass /\ w \in Cas /\ keys \in Nat
  BY Zenon DEF Types, StateTypes, PassTypes, PlanCa, Pass
<1>2. plan \in Plan
  BY PlanType, Zenon
<1>3. keys' = IF plan = "StartKeyReplace" THEN keys + 1 ELSE keys
  BY Zenon DEF PlanCa
<1>4. /\ KeySecret \subseteq KeySecret' /\ CertSecret \subseteq CertSecret'
      /\ HashT \subseteq HashT' /\ Leafs \subseteq Leafs' /\ Pod \subseteq Pod'
      /\ Outcome \subseteq Outcome' /\ Pass \subseteq Pass' /\ 1 .. keys \subseteq 1 .. keys'
  <2>1. keys' \in Nat /\ keys' >= keys
    BY <1>1, <1>3, SMTT(30), Z3T(30)
  <2> QED
    BY <2>1, <1>1, TypesGrow, SMTT(30), Z3T(30)
<1>5. /\ keys' \in Nat /\ keys' >= 2
      /\ keySec' \in [Cas -> KeySecret'] /\ certSec' \in [Cas -> CertSecret']
      /\ keystore' \in Leafs' /\ userLeaf' \in [User -> 1 .. keys']
      /\ label' \in [Pool -> HashT'] /\ tmpl' \in [Pool -> HashT']
      /\ reported' \in [Pool -> BOOLEAN] /\ pod' \in [Pool -> Pod']
      /\ byo' \subseteq Cas /\ force' \subseteq Annotation /\ events' \in [Event -> Nat]
  BY <1>3, <1>4, SMTT(30), Z3T(30) DEF Types, StateTypes, PassTypes, PlanCa, secretVars, poolVars, outsideVars
<1>6. operator' \in [leaf : 1 .. keys', trust : SUBSET (1 .. keys')]
  BY <1>4, Zenon DEF Types, StateTypes, PassTypes, PlanCa, secretVars
<1>7. CronTypes'
  BY <1>4, Zenon DEF Types, CronTypes, PlanCa
<1>8. \/ pc' = "idle" /\ pass' = NoPass
      \/ /\ pc' \in {"key", "cert"} /\ pass' = p
         /\ plan = "PromoteNewKey" => keySec[w].next # 0
      \/ /\ NextCa(p)
         /\ plan = "PromoteNewKey" => keySec[w].next # 0
  BY Zenon DEF PlanCa, EndPass
<1>9. ASSUME plan = "PromoteNewKey" => keySec[w].next # 0
      PROVE  /\ o \in Outcome' /\ p \in Pass' /\ p.ca = w /\ p.out[w] = o
             /\ \A v \in Cas \ {w} : p.out[v] = pass.out[v]
  <2>1. o \in Outcome'
    BY <1>1, <1>2, <1>3, <1>9, OutcomeType, Zenon
  <2>2. pass \in Pass'
    BY <1>1, <1>4, Zenon
  <2> HIDE DEF o
  <2> QED
    BY <2>1, <2>2, <1>1, Zenon DEF Pass
<1>10. \A v \in Cas : pc \in CaStep /\ v = "Cluster" /\ pass.ca = "Clients" => pass.out[v] \in Outcome'
  BY <1>1, <1>4, Zenon DEF Types, PassTypes, Past, CaStep
<1>11. PassTypes'
  <2> HIDE DEF p, o, plan
  <2>1. CASE pc' = "idle" /\ pass' = NoPass
    BY <2>1, Zenon DEF PassTypes
  <2>2. CASE pc' \in {"key", "cert"} /\ pass' = p /\ (plan = "PromoteNewKey" => keySec[w].next # 0)
    <3>1. ASSUME NEW v \in Cas, (Past(v) \/ Writing(v))' PROVE p.out[v] \in Outcome'
      BY <3>1, <2>2, <1>1, <1>9, <1>10, Zenon DEF Past, Writing, CaStep, Signing
    <3> QED
      BY <3>1, <2>2, <1>9, Zenon DEF PassTypes
  <2>3. CASE NextCa(p) /\ (plan = "PromoteNewKey" => keySec[w].next # 0)
    <3>1. p \in Pass' /\ p.ca \in Cas
      BY <2>3, <1>9, <1>1, Zenon
    <3>2. CASE p.ca = "Cluster" /\ Has("Clients")
      <4>1. pc' = "plan" /\ pass' \in Pass' /\ pass'.ca = "Clients" /\ pass'.out = p.out
        BY <3>1, <3>2, <2>3, SMTT(30), Z3T(30) DEF NextCa, Has, Pass
      <4>2. \A v \in Cas : (Past(v) \/ Writing(v))' => v = w
        BY <4>1, <3>2, <2>3, <1>9, Zenon DEF Past, Writing, CaStep, Signing
      <4> QED
        BY <4>1, <4>2, <2>3, <1>9, Zenon DEF PassTypes
    <3>3. CASE ~(p.ca = "Cluster" /\ Has("Clients"))
      <4>1. pc' = "operator" /\ pass' = p
        BY <3>3, <2>3, Zenon DEF NextCa
      <4>2. \A v \in Cas : v = w \/ (v = "Cluster" /\ pass.ca = "Clients")
        BY <3>3, <2>3, <1>9, <1>1, CaAssumption, Zenon DEF Has
      <4> QED
        BY <4>1, <4>2, <3>1, <2>3, <1>1, <1>9, <1>10, Zenon DEF CaStep, PassTypes
    <3> QED
      BY <3>2, <3>3, Zenon
  <2> QED
    BY <2>1, <2>2, <2>3, <1>8, Zenon
<1>12. pc' \in {"idle", "operator"} \cup CaStep \cup Signing
  BY <1>8, Zenon DEF NextCa, CaStep
<1> QED
  BY <1>5, <1>6, <1>7, <1>11, <1>12, Zenon DEF Types, StateTypes

LEMMA HappensType ==
  ASSUME events \in [Event -> Nat], NEW e \in Event, Happens(e)
  PROVE  /\ events' \in [Event -> Nat] /\ events'[e] # 0
         /\ \A f \in Event : events'[f] = 0 => events[f] = 0
BY SMTT(30), Z3T(30) DEF Happens

LEMMA FramePass ==
  ASSUME PassTypes, UNCHANGED <<keys, pc, pass>> PROVE PassTypes'
BY Zenon DEF PassTypes, Past, Writing, Pass, Outcome, Leafs, KeySecret, CaBundle, CaCert

LEMMA FrameCron ==
  ASSUME CronTypes, UNCHANGED <<keys, cron>> PROVE CronTypes'
BY Zenon DEF CronTypes, Leafs

LEMMA SameTypes ==
  ASSUME keys' = keys
  PROVE  /\ KeySecret' = KeySecret /\ CertSecret' = CertSecret /\ HashT' = HashT /\ Leafs' = Leafs
         /\ Pod' = Pod /\ Outcome' = Outcome /\ Pass' = Pass
BY Zenon DEF KeySecret, CertSecret, HashT, Leafs, Pod, Outcome, Pass, CaBundle, CaCert, HashBundle, Anchor

\* The steps of the pools, of the outside world and of the CronJob.
LEMMA TypesPods ==
  ASSUME Types, NEW p \in Pool, SyncPool(p) \/ RollPod(p) \/ FailPod(p) \/ StartPod(p)
  PROVE  Types'
<1> USE DEF Types
<1>1. UNCHANGED <<secretVars, label, outsideVars, keys, pc, pass, cron>>
  BY Zenon DEF SyncPool, RollPod, FailPod, StopPod, StartPod
<1>2. /\ Pod' = Pod /\ HashT' = HashT /\ KeySecret' = KeySecret /\ CertSecret' = CertSecret /\ Leafs' = Leafs
  BY <1>1, SameTypes, Zenon
<1>3. PassTypes' /\ CronTypes'
  BY <1>1, FramePass, FrameCron, Zenon
<1>4. events' \in [Event -> Nat]
  <2>1. "pod" \in Event /\ events \in [Event -> Nat]
    BY Zenon DEF Event, StateTypes
  <2> QED
    BY <2>1, HappensType, Zenon DEF SyncPool, RollPod, FailPod, StopPod, StartPod
<1>5. tmpl' \in [Pool -> HashT] /\ reported' \in [Pool -> BOOLEAN]
  <2>1. pod[p].up \in BOOLEAN /\ label[p] \in HashT
    BY Zenon DEF StateTypes, Pod
  <2> QED
    BY <2>1, Zenon DEF SyncPool, RollPod, FailPod, StopPod, StartPod, StateTypes
<1>6. pod' \in [Pool -> Pod]
  <2>1. CASE StopPod(p)
    BY <2>1, ZenonT(60) DEF StopPod, StateTypes, Pod
  <2>2. CASE StartPod(p)
    <3>1. tmpl[p] \in HashT /\ keystore[p] \in 1 .. keys
      BY ZenonT(30) DEF StateTypes, Leafs
    <3>2. [w \in Cas |-> KeysOf(Bundle(w))] \in [Cas -> SUBSET (1 .. keys)]
      BY SMTT(30), Z3T(30) DEF StateTypes, KeysOf, Blocks, Bundle, CertSecret, CaBundle, CaCert
    <3> QED
      BY <3>1, <3>2, <2>2, Zenon DEF StartPod, StateTypes, Pod
  <2>3. CASE SyncPool(p)
    BY <2>3, Zenon DEF SyncPool, StateTypes
  <2> QED
    BY <2>1, <2>2, <2>3, Zenon DEF RollPod, FailPod
<1> QED
  BY <1>1, <1>2, <1>3, <1>4, <1>5, <1>6, Zenon DEF StateTypes, secretVars, outsideVars

LEMMA TypesOutside ==
  ASSUME Types, \/ \E a \in Annotation : Annotate(a)
                \/ \E w \in Cas : AgeCert(w)
                \/ EditSpec \/ CronRead \/ CronFlag \/ CronSign
  PROVE  Types'
<1> USE DEF Types
<1>1. UNCHANGED <<keySec, certSec, operator, userLeaf, poolVars, byo, keys, pc, pass>>
  BY Zenon DEF Annotate, AgeCert, EditSpec, CronRead, CronFlag, CronSign, secretVars, outsideVars
<1>2. /\ Pod' = Pod /\ HashT' = HashT /\ KeySecret' = KeySecret /\ CertSecret' = CertSecret /\ Leafs' = Leafs
  BY <1>1, SameTypes, Zenon
<1>3. PassTypes'
  BY <1>1, FramePass, ZenonT(30)
<1>4. events' \in [Event -> Nat]
  <2>1. {"renew", "replace", "age", "expire", "edit", "cron"} \subseteq Event /\ events \in [Event -> Nat]
    BY ZenonT(30) DEF Event, StateTypes
  <2> QED
    BY <2>1, HappensType, Zenon DEF Annotate, AgeCert, EditSpec, CronRead, CronFlag, CronSign
<1>5. force' \subseteq Annotation
  BY Zenon DEF Annotate, AgeCert, EditSpec, CronRead, CronFlag, CronSign, outsideVars, StateTypes, Annotation
<1>6. CronTypes' /\ keystore' \in Leafs
  <2>1. CASE \/ \E a \in Annotation : Annotate(a)
             \/ \E w \in Cas : AgeCert(w)
             \/ EditSpec
    BY <2>1, <1>1, FrameCron, Zenon DEF Annotate, AgeCert, EditSpec, secretVars, StateTypes
  <2>2. CASE CronRead
    <3>1. keySec["Cluster"].key \in 1 .. keys
      BY <2>2, Zenon DEF CronRead, StateTypes, KeySecret
    <3> QED
      BY <3>1, <2>2, <1>1, <1>2, ZenonT(30) DEF CronRead, CronTypes, StateTypes, secretVars
  <2>3. CASE CronFlag
    <3>1. "Cluster" \in Cas /\ cron.key \in 1 .. keys /\ cron.old \in Leafs /\ keystore \in Leafs
      BY <2>3, SMTT(30), Z3T(30) DEF CronFlag, CronTypes, NoCron, StateTypes
    <3> QED
      BY <3>1, <2>3, <1>1, <1>2, ZenonT(30) DEF CronFlag, CronTypes, secretVars
  <2>4. CASE CronSign
    <3>1. cron.key \in 1 .. keys /\ cron.seen \in [Pool -> 1 .. keys] /\ keystore \in Leafs
      BY <2>4, SMTT(30), Z3T(30) DEF CronSign, CronTypes, NoCron, StateTypes, Leafs
    <3> QED
      BY <3>1, <2>4, ZenonT(30) DEF CronSign, CronTypes, Leafs
  <2> QED
    BY <2>1, <2>2, <2>3, <2>4, ZenonT(60)
<1> QED
  BY <1>1, <1>2, <1>3, <1>4, <1>5, <1>6, ZenonT(30) DEF StateTypes, poolVars

\* The steps of a pass, but for the plan.
LEMMA TypesPass ==
  ASSUME Types, \/ Begin \/ PatchKey \/ PatchCert \/ IssueOperator
                \/ (\E u \in User : SyncUser(u)) \/ MarkLeafs \/ Strip
  PROVE  Types'
<1> USE DEF Types
<1>1. UNCHANGED <<keys, keystore, poolVars, byo, events, cron>>
  BY Zenon DEF Begin, PatchKey, PatchCert, IssueOperator, SyncUser, MarkLeafs, Strip, secretVars, outsideVars
<1>2. /\ Pod' = Pod /\ HashT' = HashT /\ KeySecret' = KeySecret /\ CertSecret' = CertSecret
      /\ Leafs' = Leafs /\ Outcome' = Outcome /\ Pass' = Pass
  BY <1>1, SameTypes, Zenon
<1>3. CronTypes'
  BY <1>1, FrameCron, Zenon
<1> DEFINE Secrets == /\ keySec' \in [Cas -> KeySecret] /\ certSec' \in [Cas -> CertSecret]
                      /\ userLeaf' \in [User -> 1 .. keys]
                      /\ operator' \in [leaf : 1 .. keys, trust : SUBSET (1 .. keys)]
                      /\ force' \subseteq Annotation
                      /\ pc' \in {"idle", "operator"} \cup CaStep \cup Signing
<1>4. Secrets /\ PassTypes' => Types'
  BY <1>1, <1>2, <1>3, Zenon DEF StateTypes, poolVars
<1>5. ASSUME pc # "idle"
      PROVE  /\ pass \in Pass /\ pass.ca \in Cas
             /\ \A w \in Cas : Past(w) \/ Writing(w) => pass.out[w] \in Outcome
  BY <1>5, Zenon DEF PassTypes, Pass
<1>6. CASE Begin
  <2>1. Secrets
    BY <1>6, ZenonT(40) DEF Begin, StateTypes, secretVars, outsideVars, CaStep
  <2>2. pass' \in Pass
    <3>1. (IF Has("Cluster") THEN "Cluster" ELSE "Clients") \in Cas
      BY CaAssumption, Zenon DEF Has
    <3>2. events["edit"] \in Nat
      BY Zenon DEF StateTypes, Event
    <3>3. pools_converged(label, tmpl, [p \in Pool |-> IF pod[p].up THEN pod[p].rev ELSE NoHash]) \in BOOLEAN
      BY Zenon DEF pools_converged
    <3> QED
      BY <3>1, <3>2, <3>3, <1>6, Zenon DEF Begin, Pass, StateTypes
  <2>3. \A w \in Cas : ~(Past(w) \/ Writing(w))'
    BY <1>6, CaAssumption, Zenon DEF Begin, Past, Writing, Signing, CaStep, Has
  <2> QED
    BY <1>4, <1>6, <2>1, <2>2, <2>3, <1>2, ZenonT(40) DEF PassTypes, Begin
<1>7. CASE PatchKey
  <2>1. pass.out[pass.ca] \in Outcome /\ pass.ca \in Cas
    BY <1>7, <1>5, ZenonT(30) DEF PatchKey, Writing
  <2>2. pass.out[pass.ca].secret \in KeySecret
    BY <2>1, Zenon DEF Outcome
  <2>3. Secrets
    BY <1>7, <2>2, Zenon DEF PatchKey, StateTypes, outsideVars, CaStep
  <2>4. PassTypes'
    BY <1>7, <1>5, <1>2, Zenon DEF PatchKey, PassTypes, Past, Writing, CaStep, Signing
  <2> QED
    BY <1>4, <2>3, <2>4, ZenonT(60)
<1>8. CASE PatchCert
  <2>1. pass.out[pass.ca] \in Outcome /\ pass.ca \in Cas /\ pass \in Pass
    BY <1>8, <1>5, Zenon DEF PatchCert, Writing
  <2>2. certSec' \in [Cas -> CertSecret]
    <3> DEFINE o == pass.out[pass.ca]
    <3>1. o.bundle \in CaBundle /\ o.gen \in Nat /\ o.phase \in Phase
      BY <2>1, Zenon DEF Outcome
    <3>2. certSec[pass.ca] \in CertSecret
      BY <2>1, Zenon DEF StateTypes
    <3>3. [certSec[pass.ca] EXCEPT !.bundle = o.bundle, !.gen = o.gen, !.phase = o.phase] \in CertSecret
      BY <3>1, <3>2, Zenon DEF CertSecret
    <3> QED
      BY <1>8, <3>3, Zenon DEF PatchCert, StateTypes
  <2>3. /\ pass' \in Pass /\ pc' \in {"plan", "operator"} /\ pass'.out = pass.out
        /\ pc' = "plan" => pass.ca = "Cluster" /\ pass'.ca = "Clients"
        /\ pc' = "operator" => pass' = pass /\ (pass.ca = "Cluster" => Cas = {"Cluster"})
    BY <1>8, <2>1, NextCaType, CaAssumption, SMTT(30), Z3T(30) DEF PatchCert, Pass
  <2>4. Secrets
    BY <1>8, <2>2, <2>3, Zenon DEF PatchCert, StateTypes, outsideVars, CaStep
  <2>5. ASSUME NEW w \in Cas PROVE pc' = "plan" /\ (Past(w) \/ Writing(w))' => w = pass.ca
    BY <2>3, Zenon DEF Past, Writing, CaStep, Signing
  <2>6. ASSUME NEW w \in Cas PROVE pc' = "operator" => w = pass.ca \/ Past(w)
    BY <1>8, <2>1, <2>3, CaAssumption, Zenon DEF Past, CaStep, PatchCert
  <2>7. PassTypes'
    BY <1>8, <1>5, <1>2, <2>1, <2>3, <2>5, <2>6, ZenonT(60) DEF PatchCert, PassTypes
  <2> QED
    BY <1>4, <2>4, <2>7, Zenon
<1>9. CASE IssueOperator
  <2>1. \A w \in Cas : pass.out[w] \in Outcome
    BY <1>9, <1>5, Zenon DEF IssueOperator, Past
  <2>2. operator' \in [leaf : 1 .. keys, trust : SUBSET (1 .. keys)]
    <3>1. CASE Has("Cluster")
      <4>1. /\ pass.out["Cluster"].secret.key \in 1 .. keys
            /\ KeysOf(pass.out["Cluster"].bundle) \subseteq 1 .. keys
        BY <2>1, <3>1, SMTT(30), Z3T(30) DEF Has, Outcome, KeySecret, KeysOf, Blocks, CaBundle, CaCert
      <4> QED
        BY <4>1, <3>1, <1>9, Zenon DEF IssueOperator, StateTypes
    <3>2. CASE ~Has("Cluster")
      BY <3>2, <1>9, Zenon DEF IssueOperator, StateTypes
    <3> QED
      BY <3>1, <3>2, Zenon
  <2>3. Secrets
    BY <1>9, <2>2, Zenon DEF IssueOperator, StateTypes, outsideVars, CaStep, Signing
  <2>4. pass' \in Pass /\ pass'.out = pass.out /\ pc' # "idle"
    BY <1>9, <1>5, ZenonT(60) DEF IssueOperator, Pass
  <2>5. pc' = "users" => "Clients" \in Cas
    BY <1>9, Zenon DEF IssueOperator, Has
  <2>6. PassTypes'
    BY <1>2, <2>1, <2>4, <2>5, Zenon DEF PassTypes
  <2> QED
    BY <1>4, <2>3, <2>6, ZenonT(60)
<1>10. CASE \E u \in User : SyncUser(u)
  <2> PICK u \in User : SyncUser(u)
    BY <1>10, Zenon
  <2>1. \A w \in Cas : pass.out[w] \in Outcome
    BY <1>5, Zenon DEF SyncUser, Past, Signing
  <2>2. pass.todo \subseteq User /\ u \in pass.todo /\ pc = "users" /\ pc' = "users"
    BY <1>5, Zenon DEF SyncUser, Pass
  <2>3. userLeaf' \in [User -> 1 .. keys]
    <3>1. pass.out["Clients"].secret.key \in 1 .. keys
      BY <2>1, <2>2, ZenonT(60) DEF Outcome, KeySecret, PassTypes
    <3> QED
      BY <3>1, Zenon DEF SyncUser, StateTypes
  <2>4. Secrets
    BY <2>3, ZenonT(30) DEF SyncUser, StateTypes, outsideVars
  <2>5. pass' \in Pass /\ pass'.out = pass.out
    BY <2>2, <1>5, Zenon DEF SyncUser, Pass
  <2> QED
    BY <1>4, <2>1, <2>2, <2>4, <2>5, <1>2, Zenon DEF PassTypes

<1>11. CASE MarkLeafs
  <2>1. \A w \in Cas : pass.out[w] \in Outcome
    BY <1>11, <1>5, Zenon DEF MarkLeafs, Past, Signing
  <2>2. certSec' \in [Cas -> CertSecret]
    <3>1. pass.out["Clients"].secret.gen \in Nat
      BY <1>11, <2>1, Zenon DEF Outcome, KeySecret, PassTypes, MarkLeafs
    <3> QED
      BY <1>11, <3>1, ZenonT(40) DEF MarkLeafs, StateTypes, CertSecret
  <2>3. Secrets
    BY <1>11, <2>2, Zenon DEF MarkLeafs, StateTypes, outsideVars, Signing
  <2> QED
    BY <1>11, <1>4, <1>5, <2>1, <2>3, <1>2, Zenon DEF PassTypes, MarkLeafs
<1>12. CASE Strip
  <2>1. Secrets
    BY <1>12, Zenon DEF Strip, StateTypes, secretVars, Signing
  <2> QED
    BY <1>12, <1>4, <1>5, <2>1, <1>2, Zenon DEF PassTypes, Strip, Past, Signing
<1> QED
  BY <1>6, <1>7, <1>8, <1>9, <1>10, <1>11, <1>12, Zenon

LEMMA TypesEnd ==
  ASSUME Types, Listeners \/ Adopt \/ Abort
  PROVE  Types'
<1> USE DEF Types
<1>1. UNCHANGED <<keys, keySec, certSec, operator, userLeaf, reported, tmpl, pod, outsideVars, cron>>
  BY Zenon DEF Listeners, Adopt, Abort, secretVars, poolVars
<1>2. /\ Pod' = Pod /\ HashT' = HashT /\ KeySecret' = KeySecret /\ CertSecret' = CertSecret
      /\ Leafs' = Leafs /\ Outcome' = Outcome /\ Pass' = Pass
  BY <1>1, SameTypes, Zenon
<1>3. CronTypes'
  BY <1>1, FrameCron, Zenon
<1>4. events' \in [Event -> Nat]
  <2>1. {"leaf", "invalid", "dependency", "abort"} \subseteq Event /\ events \in [Event -> Nat]
    BY Zenon DEF Event, StateTypes
  <2> QED
    BY <2>1, HappensType, Zenon DEF Listeners, Adopt, Abort
<1> DEFINE Rest == /\ keystore' \in Leafs /\ label' \in [Pool -> HashT]
                   /\ pc' \in {"idle", "adopt"}
<1>5. Rest /\ PassTypes' => Types'
  BY <1>1, <1>2, <1>3, <1>4, Zenon DEF StateTypes, outsideVars, Signing
<1>6. pc # "idle"
  BY Zenon DEF Listeners, Adopt, Abort
<1>7. pass \in Pass /\ (Listeners \/ Adopt => \A w \in Cas : pass.out[w] \in Outcome)
  BY <1>6, Zenon DEF PassTypes, Past, Signing, Listeners, Adopt
<1>8. EndPass => PassTypes' /\ pc' = "idle"
  BY Zenon DEF EndPass, PassTypes
<1>9. CASE Abort
  BY <1>9, <1>5, <1>8, Zenon DEF Abort, StateTypes, secretVars, poolVars
<1>10. CASE Adopt
  <2>1. PassHash \in HashT
    <3>1. \A w \in Cas : pass.out[w].bundle \in HashBundle
      <4>1. CaBundle \subseteq HashBundle
        <5>1. CaCert \subseteq Anchor
          BY SMTT(30), Z3T(30) DEF CaCert, Anchor
        <5> QED
          BY <5>1, Zenon DEF CaBundle, HashBundle
      <4> QED
        BY <4>1, <1>7, <1>10, Zenon DEF Outcome
    <3>2. NoBundle \in HashBundle
      BY SMTT(30), Z3T(30) DEF NoBundle, HashBundle, Anchor, Cert, StateTypes
    <3>3. pass.leafs \in Leafs \cup {<<>>} /\ pass.edits \in Nat
      BY <1>7, Zenon DEF Pass
    <3> QED
      BY <3>1, <3>2, <3>3, ZenonT(30) DEF PassHash, Hash, HashT, Has
  <2> DEFINE plan == plan_rollout(label, pass.ready, PassHash)
  <2>2. plan \in [Pool -> HashT]
    <3> HIDE DEF Pool
    <3> QED
      BY <2>1, Zenon DEF plan_rollout, StateTypes
  <2>3. \A n : [p \in Pool |-> IF p <= n THEN plan[p] ELSE label[p]] \in [Pool -> HashT]
    <3> HIDE DEF plan
    <3> QED
      BY <2>2, ZenonT(30) DEF StateTypes
  <2>4. label' \in [Pool -> HashT]
    BY <1>10, <2>3, ZenonT(30) DEF Adopt
  <2> QED
    BY <1>10, <1>5, <1>8, <2>4, ZenonT(60) DEF Adopt, StateTypes, secretVars
<1>11. CASE Listeners
  <2>1. "Cluster" \in Cas => pass.out["Cluster"].secret.key \in 1 .. keys
    BY <1>11, <1>7, Zenon DEF Outcome, KeySecret
  <2>2. keystore' \in Leafs
    BY <1>11, <2>1, Zenon DEF Listeners, Leafs, StateTypes, Has
  <2>3. label' = label /\ pc' \in {"idle", "adopt"}
    BY <1>11, Zenon DEF Listeners, poolVars, EndPass
  <2>4. PassTypes'
    <3>1. CASE EndPass
      BY <3>1, <1>8, Zenon
    <3>2. CASE pc' = "adopt" /\ pass' \in {pass, [pass EXCEPT !.leafs = keystore']}
      <4>1. pass' \in Pass /\ pass'.out = pass.out
        BY <3>2, <2>2, <1>7, ZenonT(60) DEF Pass
      <4> QED
        BY <4>1, <3>2, <1>7, <1>11, <1>2, Zenon DEF PassTypes
    <3> QED
      BY <3>1, <3>2, <1>11, Zenon DEF Listeners
  <2> QED
    BY <1>5, <2>2, <2>3, <2>4, Zenon DEF StateTypes
<1> QED
  BY <1>9, <1>10, <1>11, Zenon

\* Types is inductive by itself.
LEMMA TypesStep == Types /\ [Next]_vars => Types'
<1> SUFFICES ASSUME Types, [Next]_vars PROVE Types'
  BY Zenon
<1>1. CASE UNCHANGED vars
  <2>1. UNCHANGED <<keys, pc, pass, cron>>
    BY <1>1, Zenon DEF vars
  <2>2. PassTypes' /\ CronTypes'
    BY <2>1, FramePass, FrameCron, Zenon DEF Types
  <2> QED
    BY <1>1, <2>1, <2>2, SameTypes, Zenon DEF Types, StateTypes, vars, secretVars, poolVars, outsideVars
<1> QED
  BY <1>1, TypesPlanCa, TypesPass, TypesEnd, TypesPods, TypesOutside, Zenon DEF Next, PassStep

-----------------------------------------------------------------------------
(* The Secrets and the pass *)

LEMMA BooksInit == Init => Books
<1> SUFFICES ASSUME Init PROVE Books
  BY Zenon
<1>1. ASSUME NEW w \in Cas PROVE Agree(w, keySec[w], certSec[w])
  <2>1. keySec[w] = [key |-> FirstKey(w), next |-> 0, gen |-> 0]
    BY Zenon DEF Init
  <2>2. certSec[w] = [bundle |-> FirstBundle(w), gen |-> 0, phase |-> "Idle", leafs |-> 0]
    BY Zenon DEF Init
  <2>3. keySec[w].key = certSec[w].bundle.signer.key /\ certSec[w].phase = "Idle"
    BY <2>1, <2>2, SMTT(30), Z3T(30) DEF FirstBundle, Cert
  <2>4. certSec[w].leafs <= keySec[w].gen
    BY <2>1, <2>2, SMTT(30), Z3T(30)
  <2> QED
    BY <2>3, <2>4, Zenon DEF Agree
<1> QED
  BY <1>1, ZenonT(40) DEF Init, Books, Agreement, Plans, Memory, Marked, Writing, Past, CaStep, Signing

\* The keys of the bundles that apply_ca_rotation builds.
LEMMA BundleKeys ==
  ASSUME NEW b \in CaBundle
  PROVE  /\ prune_expired(b).signer = b.signer
         /\ expired = {} => prune_expired(b) = b
         /\ KeysOf([b EXCEPT !.anchors = {}]) = {b.signer.key}
         /\ [b EXCEPT !.anchors = {}].signer = b.signer
         /\ KeysOf(b) = {b.signer.key} \cup {c.key : c \in b.anchors}
BY ZenonT(30) DEF KeysOf, Blocks, prune_expired, CaBundle

LEMMA DedupKeys ==
  \A b \in CaBundle : \A x, g :
    /\ KeysOf(dedup_blocks(Cert(x, g), Blocks(b))) = {x} \cup KeysOf(b)
    /\ KeysOf(dedup_blocks(b.signer, b.anchors \cup {Cert(x, g)})) = KeysOf(b) \cup {x}
<1> SUFFICES ASSUME NEW b \in CaBundle, NEW x, NEW g
             PROVE  /\ KeysOf(dedup_blocks(Cert(x, g), Blocks(b))) = {x} \cup KeysOf(b)
                    /\ KeysOf(dedup_blocks(b.signer, b.anchors \cup {Cert(x, g)})) = KeysOf(b) \cup {x}
  BY Zenon
<1> DEFINE d == dedup_blocks(Cert(x, g), Blocks(b))
           e == dedup_blocks(b.signer, b.anchors \cup {Cert(x, g)})
<1>1. Cert(x, g).key = x
  BY Zenon DEF Cert
<1>2. Blocks(d) = {Cert(x, g)} \cup Blocks(b)
  BY Zenon DEF Blocks, dedup_blocks
<1>3. Blocks(e) = Blocks(b) \cup {Cert(x, g)}
  BY Zenon DEF Blocks, dedup_blocks
<1> HIDE DEF d, e
<1>4. KeysOf(d) = {x} \cup KeysOf(b)
  BY <1>1, <1>2, Zenon DEF KeysOf
<1>5. KeysOf(e) = KeysOf(b) \cup {x}
  BY <1>1, <1>3, SMTT(30), Z3T(30) DEF KeysOf
<1> QED
  BY <1>4, <1>5, Zenon DEF d, e

\* What an outcome is made of.
LEMMA OutcomeFields ==
  ASSUME NEW o, NEW w, NEW plan, NEW s, NEW b, NEW g, NEW ph, o = outcome(w, plan, s, b, g, ph)
  PROVE  /\ o.plan = plan /\ o.secret = s /\ o.bundle = b /\ o.phase = ph
         /\ o.reissue = (plan = "PromoteNewKey" \/ (w = "Clients" /\ ph = "Promote" /\ certSec[w].leafs # s.gen))
<1> DEFINE x == plan = "PromoteNewKey" \/ (w = "Clients" /\ ph = "Promote" /\ certSec[w].leafs # s.gen)
<1>1. o = [plan |-> plan, secret |-> s, bundle |-> b, gen |-> g, phase |-> ph, reissue |-> x]
  BY Zenon DEF outcome
<1> HIDE DEF x
<1>2. o.plan = plan /\ o.secret = s /\ o.bundle = b /\ o.phase = ph /\ o.reissue = x
  BY <1>1, SMTT(30), Z3T(30)
<1> QED
  BY <1>2, Zenon DEF x

\* A plan that writes is as Planned says, before its first write.
LEMMA PlanFacts ==
  ASSUME Types, Agreement, pc = "plan",
         NEW w \in Cas, w = pass.ca, NEW plan, plan = plan_ca_rotation(w, pass.force, pass.converged),
         plan = "PromoteNewKey" => keySec[w].next # 0,
         NEW o, o = apply_ca_rotation(w, plan),
         WritesCert(plan),
         pc' = IF WritesKey(w, plan) THEN "key" ELSE "cert",
         UNCHANGED <<keySec, certSec, byo, expired>>, pass'.converged = pass.converged
  PROVE  Planned(w, o, keySec[w], certSec[w])'
<1> DEFINE k == keySec[w]
           c == certSec[w]
           kept == prune_expired(c.bundle)
<1>1. /\ k \in KeySecret /\ k.key \in 1 .. keys /\ k.gen \in Nat /\ keys \in Nat
      /\ c.bundle \in CaBundle /\ c.phase \in Phase /\ kept \in CaBundle
  BY SMTT(30), Z3T(30) DEF Types, StateTypes, KeySecret, CertSecret, CaBundle, prune_expired
<1>2. /\ kept.signer = c.bundle.signer
      /\ expired = {} => kept = c.bundle
      /\ KeysOf(c.bundle) = {c.bundle.signer.key} \cup {a.key : a \in c.bundle.anchors}
      /\ KeysOf(kept) = {kept.signer.key} \cup {a.key : a \in kept.anchors}
      /\ KeysOf([c.bundle EXCEPT !.anchors = {}]) = {c.bundle.signer.key}
      /\ [c.bundle EXCEPT !.anchors = {}].signer = c.bundle.signer
  BY <1>1, BundleKeys, Zenon
<1>3. w \notin byo /\ plan \in Plan
  BY PlanType, ZenonT(40) DEF plan_ca_rotation, WritesCert
<1>4. CASE c.phase = "Trust"
  <2>1. plan = "PromoteNewKey" /\ pass.converged
    BY <1>3, <1>4, Zenon DEF plan_ca_rotation, WritesCert
  <2> DEFINE s == [key |-> k.next, next |-> k.next, gen |-> IF k.key = k.next THEN k.gen ELSE k.gen + 1]
             d == dedup_blocks(Cert(k.next, 0), Blocks(c.bundle))
  <2>2. o = outcome(w, plan, s, prune_expired(d), c.gen + 1, "Promote")
    BY <2>1, Zenon DEF apply_ca_rotation, promote
  <2>3. d \in CaBundle /\ d.signer = Cert(k.next, 0)
    <3>1. Cert(k.next, 0) \in CaCert
      <4>1. k.next # 0
        BY <1>4, ZenonT(60) DEF Agreement, Agree
      <4>2. k.next \in 0 .. keys
        BY <1>1, ZenonT(30) DEF KeySecret
      <4> HIDE DEF k
      <4>3. k.next \in 1 .. keys
        BY <4>1, <4>2, <1>1, SMTT(30), Z3T(30)
      <4> QED
        BY <4>3, Zenon DEF Cert, CaCert
    <3> QED
      BY <3>1, <1>1, ZenonT(60) DEF dedup_blocks, CaBundle, Blocks
  <2>4. KeysOf(d) = KeysOf(c.bundle)
    <3>1. KeysOf(d) = {k.next} \cup KeysOf(c.bundle)
      <4> HIDE DEF k, c
      <4> QED
        BY <1>1, DedupKeys, ZenonT(60)
    <3>2. k.next \in KeysOf(c.bundle)
      BY <1>4, Zenon DEF Agreement, Agree
    <3> QED
      BY <3>1, <3>2, ZenonT(60)
  <2>5. prune_expired(d).signer = Cert(k.next, 0) /\ (expired = {} => KeysOf(prune_expired(d)) = KeysOf(c.bundle))
    BY <2>3, <2>4, BundleKeys, ZenonT(40)
  <2>6. o.plan = "PromoteNewKey" /\ o.phase = "Promote" /\ o.secret = s /\ o.bundle = prune_expired(d)
    <3> DEFINE b == prune_expired(d)
    <3> HIDE DEF s, b
    <3>1. o = outcome(w, plan, s, b, c.gen + 1, "Promote")
      BY <2>2, ZenonT(40) DEF s, b
    <3>2. o.plan = plan /\ o.phase = "Promote" /\ o.secret = s /\ o.bundle = b
      BY <3>1, OutcomeFields, SMTT(30), Z3T(30)
    <3> QED
      BY <2>1, <3>2, Zenon DEF b
  <2>8. o.bundle.signer.key = k.next
    <3>1. Cert(k.next, 0).key = k.next
      BY Zenon DEF Cert
    <3> QED
      BY <3>1, <2>5, <2>6, Zenon
  <2>7. pc' = "key"
    BY <2>1, Zenon DEF WritesKey
  <2> QED
    <3>1. s.key = k.next /\ s.next = k.next /\ s.gen = IF k.key = k.next THEN k.gen ELSE k.gen + 1
      BY Zenon
    <3> HIDE DEF s, d
    <3> QED
      BY <3>1, <2>1, <2>5, <2>6, <2>7, <2>8, <1>3, <1>4, ZenonT(40) DEF Planned
<1>5. CASE c.phase = "Promote"
  <2>1. plan = "PruneOldTrust" /\ pass.converged /\ (w = "Cluster" \/ c.leafs = k.gen)
    BY <1>3, <1>5, Zenon DEF plan_ca_rotation, WritesCert
  <2>2. o = outcome(w, plan, [k EXCEPT !.next = 0], [c.bundle EXCEPT !.anchors = {}], c.gen, "Idle")
    BY <2>1, <1>5, Zenon DEF apply_ca_rotation
  <2>3. /\ o.plan = "PruneOldTrust" /\ o.phase = "Idle"
        /\ o.secret = [k EXCEPT !.next = 0] /\ o.bundle = [c.bundle EXCEPT !.anchors = {}]
    <3> DEFINE s == [k EXCEPT !.next = 0]
               b == [c.bundle EXCEPT !.anchors = {}]
    <3> HIDE DEF s, b
    <3>1. o = outcome(w, plan, s, b, c.gen, "Idle")
      BY <2>2, ZenonT(60) DEF s, b
    <3>2. o.plan = plan /\ o.phase = "Idle" /\ o.secret = s /\ o.bundle = b
      BY <3>1, OutcomeFields, SMTT(30), Z3T(30)
    <3> QED
      BY <2>1, <3>2, Zenon DEF s, b
  <2>5. o.secret.key = k.key /\ o.secret.gen = k.gen
    BY <2>3, <1>1, Zenon DEF KeySecret
  <2>6. o.bundle.signer = c.bundle.signer /\ KeysOf(o.bundle) = {c.bundle.signer.key}
    BY <2>3, <1>2, Zenon
  <2>4. pc' = "key"
    BY <2>1, <1>5, ZenonT(60) DEF WritesKey
  <2> QED
    BY <2>1, <2>3, <2>4, <2>5, <2>6, <1>3, <1>5, Zenon DEF Planned
<1>6. CASE c.phase = "Idle"
  <2>1. \/ plan = "StartKeyReplace" \/ plan = "RenewCertSameKey"
        \/ plan = "PruneOldTrust" /\ c.bundle.anchors \cap expired # {}
    BY <1>3, <1>6, Zenon DEF plan_ca_rotation, WritesCert
  <2>2. CASE plan = "StartKeyReplace"
    <3> DEFINE d == dedup_blocks(kept.signer, kept.anchors \cup {Cert(keys + 1, 0)})
    <3>1. o = outcome(w, plan, [k EXCEPT !.next = keys + 1], d, c.gen, "Trust")
      BY <2>2, Zenon DEF apply_ca_rotation
    <3>2. d.signer = c.bundle.signer /\ KeysOf(d) = KeysOf(kept) \cup {keys + 1}
      <4>1. d.signer = kept.signer
        BY Zenon DEF dedup_blocks
      <4>2. KeysOf(d) = KeysOf(kept) \cup {keys + 1}
        <5> HIDE DEF kept
        <5> QED
          BY <1>1, DedupKeys, ZenonT(40)
      <4> QED
        BY <4>1, <4>2, <1>2, Zenon
    <3>3. /\ o.plan = plan /\ o.phase = "Trust" /\ o.bundle = d
          /\ o.secret = [k EXCEPT !.next = keys + 1]
      BY <3>1, SMTT(30), Z3T(30) DEF outcome
    <3>6. o.secret.key = k.key /\ o.secret.gen = k.gen /\ o.secret.next = keys + 1
      BY <3>3, <1>1, Zenon DEF KeySecret
    <3>4. o.secret.next > k.key
      <4> HIDE DEF k
      <4>1. keys + 1 > k.key
        BY <1>1, SMTT(30), Z3T(30)
      <4> QED
        BY <3>6, <4>1, Zenon
    <3> HIDE DEF d, kept
    <3>5. pc' = "key"
      BY <2>2, ZenonT(60) DEF WritesKey
    <3> QED
      BY <2>2, <3>2, <3>3, <3>4, <3>5, <3>6, <1>2, <1>3, <1>6, Zenon DEF Planned
  <2>3. CASE plan = "RenewCertSameKey"
    <3> DEFINE d == dedup_blocks(Cert(k.key, c.gen + 1), Blocks(kept))
    <3>1. o = outcome(w, plan, k, d, c.gen + 1, "Idle")
      BY <2>3, Zenon DEF apply_ca_rotation
    <3>2. d.signer.key = k.key /\ KeysOf(d) = {k.key} \cup KeysOf(kept)
      <4>1. d.signer.key = k.key
        BY ZenonT(40) DEF dedup_blocks, Cert
      <4>2. KeysOf(d) = {k.key} \cup KeysOf(kept)
        <5> HIDE DEF kept, k, c
        <5> QED
          BY <1>1, DedupKeys, Zenon
      <4> QED
        BY <4>1, <4>2, ZenonT(40)
    <3>3. o.plan = plan /\ o.phase = "Idle" /\ o.bundle = d /\ o.secret = k
      <4> HIDE DEF d, k, c
      <4> QED
        BY <3>1, OutcomeFields, SMTT(30), Z3T(30)
    <3>4. pc' = "cert"
      BY <2>3, Zenon DEF WritesKey
    <3> HIDE DEF d, kept
    <3> QED
      BY <2>3, <3>2, <3>3, <3>4, <1>2, <1>3, <1>6, Zenon DEF Planned
  <2>4. CASE plan = "PruneOldTrust" /\ c.bundle.anchors \cap expired # {}
    <3>1. o = outcome(w, plan, k, kept, c.gen, "Idle")
      BY <2>4, <1>6, Zenon DEF apply_ca_rotation
    <3>2. o.plan = plan /\ o.phase = "Idle" /\ o.bundle = kept /\ o.secret = k
      <4> HIDE DEF kept, k, c
      <4> QED
        BY <3>1, OutcomeFields, SMTT(30), Z3T(30)
    <3>3. pc' = "cert" /\ expired # {}
      BY <2>4, <1>6, Zenon DEF WritesKey
    <3> QED
      BY <2>4, <3>2, <3>3, <1>2, <1>3, <1>6, Zenon DEF Planned
  <2> QED
    BY <2>1, <2>2, <2>3, <2>4, Zenon
<1> QED
  BY <1>1, <1>4, <1>5, <1>6, Zenon DEF Phase

LEMMA PlanReissues ==
  ASSUME NEW w, NEW plan \in Plan PROVE Reissues(w, apply_ca_rotation(w, plan))
<1>1. \A s, b, g, ph : (plan = "PromoteNewKey" => ph = "Promote")
        => Reissues(w, outcome(w, plan, s, b, g, ph))
  <2> SUFFICES ASSUME NEW s, NEW b, NEW g, NEW ph, plan = "PromoteNewKey" => ph = "Promote",
                      NEW o, o = outcome(w, plan, s, b, g, ph)
               PROVE  Reissues(w, o)
    BY Zenon
  <2>1. /\ o.plan = plan /\ o.phase = ph
        /\ o.reissue = (plan = "PromoteNewKey" \/ (w = "Clients" /\ ph = "Promote" /\ certSec[w].leafs # s.gen))
    BY OutcomeFields, SMTT(30), Z3T(30)
  <2>2. "Cluster" # "Clients"
    BY Zenon
  <2> QED
    BY <2>1, <2>2, Zenon DEF Reissues
<1>2. plan = "PromoteNewKey" => Reissues(w, apply_ca_rotation(w, plan))
  BY <1>1, Zenon DEF apply_ca_rotation, promote
<1> QED
  BY <1>1, <1>2, Zenon DEF apply_ca_rotation

\* PlanCa, with names for the CA, the plan, its outcome and the pass that holds it.
PlanStep(w, plan, o, p) ==
  /\ pc = "plan" /\ w = pass.ca /\ pass \in Pass
  /\ plan = plan_ca_rotation(w, pass.force, pass.converged)
  /\ o = apply_ca_rotation(w, plan)
  /\ p.ca = w /\ p.out[w] = o /\ p.converged = pass.converged
  /\ \A v \in Cas \ {w} : p.out[v] = pass.out[v]
  /\ UNCHANGED <<secretVars, poolVars, outsideVars, events, cron>>
  /\ keys' = IF plan = "StartKeyReplace" THEN keys + 1 ELSE keys
  /\ \/ plan = "PromoteNewKey" /\ keySec[w].next = 0 /\ EndPass
     \/ /\ pass' = p /\ WritesCert(plan) /\ pc' = (IF WritesKey(w, plan) THEN "key" ELSE "cert")
        /\ plan = "PromoteNewKey" => keySec[w].next # 0
     \/ /\ plan \in {"NoOp", "Refuse"} /\ NextCa(p)
        /\ pass'.out = p.out /\ pass'.converged = p.converged

LEMMA PlanCaCases ==
  ASSUME Types, PlanCa
  PROVE  \E w \in Cas, plan \in Plan : \E o, p : PlanStep(w, plan, o, p)
<1> DEFINE w == pass.ca
           plan == plan_ca_rotation(w, pass.force, pass.converged)
           o == apply_ca_rotation(w, plan)
           p == [pass EXCEPT !.out[w] = o]
<1>1. pc = "plan" /\ pass \in Pass /\ w \in Cas /\ plan \in Plan
  BY PlanType, Zenon DEF Types, PassTypes, PlanCa, Pass
<1>2. /\ UNCHANGED <<secretVars, poolVars, outsideVars, events, cron>>
      /\ keys' = IF plan = "StartKeyReplace" THEN keys + 1 ELSE keys
  BY Zenon DEF PlanCa
<1>3. \/ plan = "PromoteNewKey" /\ keySec[w].next = 0 /\ EndPass
      \/ /\ pass' = p /\ WritesCert(plan) /\ pc' = (IF WritesKey(w, plan) THEN "key" ELSE "cert")
         /\ plan = "PromoteNewKey" => keySec[w].next # 0
      \/ NextCa(p) /\ plan \in {"NoOp", "Refuse"}
  BY Zenon DEF PlanCa, WritesKey, WritesCert
<1>4. /\ p.ca = w /\ p.out[w] = o /\ p.converged = pass.converged
      /\ \A v \in Cas \ {w} : p.out[v] = pass.out[v]
  <2> HIDE DEF o
  <2> QED
    BY <1>1, Zenon DEF Pass
<1>5. NextCa(p) => pass'.out = p.out /\ pass'.converged = p.converged
  <2> HIDE DEF o
  <2> QED
    BY <1>1, ZenonT(60) DEF NextCa, Pass
<1>6. PlanStep(w, plan, o, p)
  <2> HIDE DEF p
  <2> QED
    BY <1>1, <1>2, <1>3, <1>4, <1>5, Zenon DEF PlanStep
<1> HIDE DEF w, plan, o, p
<1> QED
  BY <1>1, <1>6, Zenon

\* Agreement and Marked are about the Secrets and the step that writes users.
LEMMA FrameSecrets ==
  ASSUME Books, UNCHANGED <<keySec, certSec, userLeaf>>, pc' # "users"
  PROVE  Agreement' /\ Marked'
BY Zenon DEF Books, Agreement, Agree, Marked

LEMMA BooksPlanCa ==
  ASSUME Types, Books, PlanCa PROVE Books'
<1> PICK w \in Cas, plan \in Plan : \E o, p : PlanStep(w, plan, o, p)
  BY PlanCaCases, Zenon
<1> PICK o, p : PlanStep(w, plan, o, p)
  BY ZenonT(60)
<1>1. pc = "plan" /\ w = pass.ca /\ pass \in Pass
  BY Zenon DEF PlanStep
<1>2. UNCHANGED <<keySec, certSec, userLeaf, byo, expired>>
  BY Zenon DEF PlanStep, secretVars, outsideVars
<1>3. Agreement' /\ Marked'
  <2>1. pc' # "users"
    BY Zenon DEF PlanStep, NextCa, EndPass
  <2> QED
    BY <2>1, <1>2, FrameSecrets, Zenon
<1>4. Reissues(w, o)
  BY PlanReissues, ZenonT(40) DEF PlanStep
<1>9. p.ca = w /\ p.out[w] = o /\ p.converged = pass.converged
  BY Zenon DEF PlanStep
<1>10. plan = plan_ca_rotation(w, pass.force, pass.converged) /\ o = apply_ca_rotation(w, plan)
  BY ZenonT(30) DEF PlanStep
<1>5. \A v \in Cas : v = "Cluster" /\ w = "Clients"
        => v # w /\ p.out[v] = pass.out[v] /\ Remembered(v, pass.out[v], keySec[v], certSec[v])
  BY <1>1, ZenonT(40) DEF Books, Memory, Past, CaStep, PlanStep
<1>6. CASE EndPass
  BY <1>3, <1>6, Zenon DEF Books, Plans, Memory, Past, Writing, CaStep, Signing, EndPass
<1>7. CASE /\ pass' = p /\ WritesCert(plan) /\ pc' = (IF WritesKey(w, plan) THEN "key" ELSE "cert")
           /\ plan = "PromoteNewKey" => keySec[w].next # 0
  <2>1. Planned(w, o, keySec[w], certSec[w])'
    <3>1. pass'.converged = pass.converged /\ Agreement
      BY <1>7, <1>9, Zenon DEF Books
    <3> QED
      BY <3>1, <1>1, <1>2, <1>7, <1>10, PlanFacts, ZenonT(40)
  <2>2. pass'.ca = w /\ pass'.out[w] = o
    BY <1>7, <1>9, Zenon
  <2>3. Plans'
    BY <2>1, <2>2, <1>4, Zenon DEF Plans, Writing, Reissues
  <2>4. Memory'
    <3>1. ASSUME NEW v \in Cas, Past(v)' PROVE v = "Cluster" /\ w = "Clients"
      BY <3>1, <2>2, <1>7, Zenon DEF Past, CaStep, Signing
    <3>2. ASSUME NEW v \in Cas, Past(v)' PROVE Remembered(v, pass.out[v], keySec[v], certSec[v])'
      <4>1. /\ pass'.out[v] = pass.out[v] /\ keySec'[v] = keySec[v] /\ certSec'[v] = certSec[v]
            /\ Remembered(v, pass.out[v], keySec[v], certSec[v])
        BY <3>1, <3>2, <1>2, <1>5, <1>7, Zenon
      <4> QED
        BY <4>1, Zenon DEF Remembered, Reissues
    <3> QED
      BY <3>2, Zenon DEF Memory
  <2> QED
    BY <1>3, <2>3, <2>4, Zenon DEF Books
<1>8. CASE plan \in {"NoOp", "Refuse"} /\ NextCa(p) /\ pass'.out = p.out
  <2>1. o.secret = keySec[w] /\ o.bundle = certSec[w].bundle /\ o.phase = certSec[w].phase
    <3>1. o = outcome(w, plan, keySec[w], certSec[w].bundle, certSec[w].gen, certSec[w].phase)
      BY <1>8, <1>10, Zenon DEF apply_ca_rotation
    <3> QED
      BY <3>1, ZenonT(60) DEF outcome
  <2>2. Plans'
    BY <1>8, Zenon DEF Plans, Writing, NextCa
  <2>3. Remembered(w, pass'.out[w], keySec[w], certSec[w])
    BY <2>1, <1>4, <1>8, Zenon DEF Remembered, PlanStep
  <2>4. ASSUME NEW v \in Cas, Past(v)' PROVE v = w \/ (v = "Cluster" /\ w = "Clients")
    BY <2>4, <1>8, CaAssumption, ZenonT(60) DEF Past, NextCa, CaStep, Signing, PlanStep, Has
  <2>5. Memory'
    <3>1. ASSUME NEW v \in Cas, Past(v)' PROVE Remembered(v, pass'.out[v], keySec[v], certSec[v])
      BY <3>1, <2>3, <2>4, <1>5, <1>8, Zenon
    <3> QED
      BY <3>1, <1>2, ZenonT(40) DEF Memory, Remembered, Reissues
  <2> QED
    BY <1>3, <2>2, <2>5, Zenon DEF Books
<1> QED
  BY <1>6, <1>7, <1>8, Zenon DEF PlanStep

LEMMA BooksPatchKey ==
  ASSUME Types, Books, PatchKey PROVE Books'
<1> PICK w \in Cas : w = pass.ca
  BY Zenon DEF PatchKey, Types, PassTypes, Pass
<1>0. PICK o, k, c : o = pass.out[w] /\ k = keySec[w] /\ c = certSec[w]
  BY Zenon
<1>1. pc = "key" /\ pc' = "cert" /\ pass' = pass /\ Writing(w)
  BY Zenon DEF PatchKey, Writing
<1>2. Planned(w, o, k, c) /\ Reissues(w, o) /\ Agree(w, k, c)
  BY <1>0, <1>1, Zenon DEF Books, Plans, Agreement
<1>3. /\ keySec'[w] = o.secret /\ \A v \in Cas \ {w} : keySec'[v] = keySec[v]
      /\ UNCHANGED <<certSec, userLeaf, byo, expired>>
  BY <1>0, Zenon DEF PatchKey, Types, StateTypes, outsideVars
<1>4. /\ o.secret.key \in Nat /\ o.secret.next \in Nat /\ o.secret.gen \in Nat
      /\ k.key \in Nat /\ k.next \in Nat /\ k.gen \in Nat /\ c.leafs \in Nat
  <2>1. o \in Outcome
    BY <1>0, <1>1, Zenon DEF Types, PassTypes
  <2>2. o.secret \in KeySecret
    BY <2>1, Zenon DEF Outcome
  <2>3. o.secret.key \in Nat /\ o.secret.next \in Nat /\ o.secret.gen \in Nat
    BY <2>2, Typed, SMTT(30), Z3T(30) DEF KeySecret
  <2> QED
    BY <2>3, <1>0, Typed, Zenon
<1>5. o.plan \in {"StartKeyReplace", "PromoteNewKey", "PruneOldTrust"}
  BY <1>1, <1>2, Zenon DEF Planned
<1>6. Agree(w, o.secret, c)
  <2>1. CASE o.plan = "StartKeyReplace"
    BY <2>1, <1>1, <1>2, ZenonT(40) DEF Planned, Agree
  <2>2. CASE o.plan = "PromoteNewKey"
    <3>1. /\ o.secret.key = k.next /\ o.secret.next = k.next /\ c.phase = "Trust"
          /\ o.secret.gen = IF k.key = k.next THEN k.gen ELSE k.gen + 1
      BY <2>2, <1>2, Zenon DEF Planned
    <3>2. /\ c.leafs <= k.gen /\ k.next # 0 /\ k.next \in KeysOf(c.bundle)
          /\ k.key = k.next => c.leafs < k.gen
      BY <3>1, <1>2, Zenon DEF Agree
    <3>3. c.leafs < o.secret.gen /\ c.leafs <= o.secret.gen /\ k.next <= k.next
      BY <3>1, <3>2, <1>4, SMTT(30), Z3T(30)
    <3> QED
      BY <3>1, <3>2, <3>3, Zenon DEF Agree
  <2>3. CASE o.plan = "PruneOldTrust"
    BY <2>3, <1>1, <1>2, ZenonT(40) DEF Planned, Agree
  <2> QED
    BY <1>5, <2>1, <2>2, <2>3, Zenon
<1>7. Agreement'
  <2>1. \A v \in Cas : Agree(v, keySec'[v], certSec[v])
    BY <1>0, <1>3, <1>6, Zenon DEF Books, Agreement
  <2> QED
    BY <2>1, <1>3, ZenonT(40) DEF Agreement, Agree
<1>8. Planned(w, o, o.secret, c)'
  <2>1. CASE o.plan = "StartKeyReplace"
    BY <2>1, <1>1, <1>2, <1>3, ZenonT(40) DEF Planned
  <2>2. CASE o.plan = "PromoteNewKey"
    BY <2>2, <1>1, <1>2, <1>3, <1>4, ZenonT(40) DEF Planned
  <2>3. CASE o.plan = "PruneOldTrust"
    BY <2>3, <1>1, <1>2, <1>3, ZenonT(40) DEF Planned
  <2> QED
    BY <1>5, <2>1, <2>2, <2>3, Zenon
<1>9. Plans'
  <2>1. \A v \in Cas : Writing(v)' => v = w
    BY <1>1, Zenon DEF Writing
  <2>2. pass'.out[w] = o /\ keySec'[w] = o.secret /\ certSec'[w] = c /\ Reissues(w, o)
    BY <1>0, <1>1, <1>2, <1>3, ZenonT(40)
  <2> QED
    BY <1>8, <2>1, <2>2, Zenon DEF Plans, Reissues
<1>10. Memory'
  <2>1. \A v \in Cas : Past(v)' => v # w /\ Past(v)
    BY <1>1, ZenonT(60) DEF Past, CaStep, Signing
  <2> QED
    BY <2>1, <1>1, <1>3, Zenon DEF Books, Memory
<1>11. Marked'
  <2>1. w = "Clients" /\ c.phase = "Promote" => o.secret.gen = k.gen /\ o.secret.key = k.key
    BY <1>2, Zenon DEF Planned
  <2>2. "Clients" \in Cas /\ certSec["Clients"].phase = "Promote"
          => /\ keySec'["Clients"].gen = keySec["Clients"].gen
             /\ keySec'["Clients"].key = keySec["Clients"].key
    <3>1. CASE w = "Clients"
      BY <2>1, <3>1, <1>0, <1>3, ZenonT(30)
    <3>2. CASE w # "Clients"
      BY <3>2, <1>3, ZenonT(30)
    <3> QED
      BY <3>1, <3>2, Zenon
  <2>3. pc' # "users"
    BY <1>1, Zenon
  <2>4. Marked
    BY Zenon DEF Books
  <2> QED
    BY <2>2, <2>3, <2>4, <1>1, <1>3, ZenonT(30) DEF Marked
<1> QED
  BY <1>7, <1>9, <1>10, <1>11, Zenon DEF Books

LEMMA BooksPatchCert ==
  ASSUME Types, Books, PatchCert PROVE Books'
<1> PICK w \in Cas : w = pass.ca
  BY Zenon DEF PatchCert, Types, PassTypes, Pass
<1>0. PICK o, k, c, d : o = pass.out[w] /\ k = keySec[w] /\ c = certSec[w] /\ d = certSec'[w]
  BY Zenon
<1>1. pc = "cert" /\ Writing(w) /\ pass \in Pass /\ o \in Outcome /\ c \in CertSecret
  BY <1>0, Zenon DEF PatchCert, Writing, Types, PassTypes, StateTypes
<1>2. Planned(w, o, k, c) /\ Reissues(w, o) /\ Agree(w, k, c) /\ k = o.secret
  <2>1. Planned(w, o, k, c) /\ Reissues(w, o) /\ Agree(w, k, c)
    BY <1>0, <1>1, Zenon DEF Books, Plans, Agreement
  <2>2. k = o.secret
    BY <2>1, <1>1, Zenon DEF Planned
  <2> QED
    BY <2>1, <2>2, Zenon
<1>3. /\ d = [c EXCEPT !.bundle = o.bundle, !.gen = o.gen, !.phase = o.phase]
      /\ \A v \in Cas \ {w} : certSec'[v] = certSec[v]
      /\ UNCHANGED <<keySec, userLeaf, byo, expired>>
  BY <1>0, Zenon DEF PatchCert, Types, StateTypes, outsideVars
<1>4. d.bundle = o.bundle /\ d.phase = o.phase /\ d.leafs = c.leafs
  BY <1>1, <1>3, Zenon DEF CertSecret
<1>5. k.key \in Nat /\ k.key # 0 /\ k.next \in Nat /\ k.gen \in Nat /\ c.leafs \in Nat
  BY <1>0, Typed, Zenon
<1>6. Agree(w, k, d)
  <2>1. CASE o.plan = "RenewCertSameKey"
    BY <2>1, <1>2, <1>4, ZenonT(40) DEF Planned, Agree
  <2>2. CASE o.plan = "StartKeyReplace"
    <3>1. /\ c.phase = "Idle" /\ o.phase = "Trust" /\ o.bundle.signer = c.bundle.signer
          /\ k.next > k.key /\ k.next \in KeysOf(o.bundle)
      BY <2>2, <1>2, Zenon DEF Planned
    <3>2. k.key = c.bundle.signer.key /\ c.leafs <= k.gen
      BY <3>1, <1>2, Zenon DEF Agree
    <3>3. k.next # 0 /\ k.key <= k.next /\ k.key # k.next
      BY <3>1, <1>5, SMTT(30), Z3T(30)
    <3> QED
      BY <3>1, <3>2, <3>3, <1>4, Zenon DEF Agree
  <2>3. CASE o.plan = "PromoteNewKey"
    BY <2>3, <1>2, <1>4, ZenonT(40) DEF Planned, Agree
  <2>4. CASE o.plan = "PruneOldTrust"
    BY <2>4, <1>2, <1>4, Zenon DEF Planned, Agree
  <2> QED
    BY <1>2, <2>1, <2>2, <2>3, <2>4, Zenon DEF Planned
<1>7. Agreement'
  <2>1. \A v \in Cas : Agree(v, keySec[v], certSec'[v])
    BY <1>0, <1>3, <1>6, Zenon DEF Books, Agreement
  <2> QED
    BY <2>1, <1>3, Zenon DEF Agreement, Agree
<1>8. /\ pc' \in {"plan", "operator"} /\ pass'.out = pass.out
      /\ pc' = "plan" => w = "Cluster" /\ pass'.ca = "Clients"
      /\ pc' = "operator" => pass' = pass /\ (w = "Cluster" => Cas = {"Cluster"})
  BY <1>1, NextCaType, CaAssumption, SMTT(30), Z3T(30) DEF PatchCert, Pass
<1>9. Plans'
  BY <1>8, Zenon DEF Plans, Writing
<1>10. Memory'
  <2>1. Remembered(w, o, k, d)
    BY <1>2, <1>4, Zenon DEF Remembered
  <2>2. ASSUME NEW v \in Cas, Past(v)' PROVE v = w \/ (v # w /\ Past(v))
    BY <2>2, <1>1, <1>8, CaAssumption, Zenon DEF Past, CaStep, Signing
  <2>3. ASSUME NEW v \in Cas, Past(v)' PROVE Remembered(v, pass.out[v], keySec[v], certSec'[v])
    BY <2>1, <2>2, <2>3, <1>0, <1>3, Zenon DEF Books, Memory
  <2> QED
    BY <2>3, <1>3, <1>8, SMTT(30), Z3T(30) DEF Memory, Remembered, Reissues
<1>11. Marked'
  <2>1. w = "Clients" /\ d.phase = "Promote" => d.leafs # k.gen
    <3>1. d.phase = "Promote" => c.phase = "Trust" /\ k.key = k.next
      BY <1>2, <1>4, Zenon DEF Planned
    <3> QED
      BY <3>1, <1>2, <1>4, <1>5, SMTT(30), Z3T(30) DEF Agree
  <2>2. pc' # "users"
    BY <1>8, Zenon
  <2> QED
    BY <2>1, <2>2, <1>0, <1>3, ZenonT(40) DEF Books, Marked
<1> QED
  BY <1>7, <1>9, <1>10, <1>11, Zenon DEF Books

LEMMA BooksUsers ==
  ASSUME Types, Books, (\E u \in User : SyncUser(u)) \/ MarkLeafs PROVE Books'
<1> DEFINE w == "Clients"
<1>0. PICK o, k, c : o = pass.out[w] /\ k = keySec[w] /\ c = certSec[w]
  BY Zenon
<1>1. pc = "users" /\ w \in Cas /\ pass \in Pass /\ o \in Outcome /\ c \in CertSecret /\ k \in KeySecret
  BY <1>0, Zenon DEF SyncUser, MarkLeafs, Types, PassTypes, StateTypes, Past, Signing
<1>2. Remembered(w, o, k, c) /\ Agree(w, k, c)
  BY <1>0, <1>1, Zenon DEF Books, Agreement, Memory, Past, Signing
<1>3. c.phase = "Promote" => o.bundle.signer.key = k.key /\ o.secret.key = k.key
  BY <1>2, Zenon DEF Remembered, Agree
<1>4. CASE \E u \in User : SyncUser(u)
  <2> PICK u \in User : SyncUser(u)
    BY <1>4, Zenon
  <2>1. UNCHANGED <<keySec, certSec, byo, expired, pc>> /\ pass'.out = pass.out /\ pass'.todo = pass.todo \ {u}
    BY <1>1, ZenonT(60) DEF SyncUser, outsideVars, Pass
  <2>2. c.phase = "Promote" => userLeaf'[u] = k.key
    BY <1>0, <1>3, ZenonT(30) DEF SyncUser, Types, StateTypes
  <2>3. \A x \in User \ {u} : userLeaf'[x] = userLeaf[x]
    BY ZenonT(30) DEF SyncUser, Types, StateTypes
  <2>4. Marked'
    BY <2>1, <2>2, <2>3, <1>0, <1>1, Zenon DEF Books, Marked
  <2>5. Agreement' /\ Memory'
    <3>1. Agreement'
      BY <2>1, Zenon DEF Books, Agreement, Agree
    <3>2. \A v \in Cas : Past(v)
      BY <1>1, Zenon DEF Past, Signing
    <3>3. \A v \in Cas : Remembered(v, pass.out[v], keySec[v], certSec[v])
      BY <3>2, Zenon DEF Books, Memory
    <3> QED
      BY <3>1, <3>3, <2>1, Zenon DEF Memory
  <2>6. Plans'
    BY <2>1, <1>1, Zenon DEF Plans, Writing, Signing
  <2> QED
    BY <2>4, <2>5, <2>6, Zenon DEF Books
<1>5. CASE MarkLeafs
  <2>1. UNCHANGED <<keySec, userLeaf, byo, expired, pass>> /\ pc' = "strip"
    BY <1>5, Zenon DEF MarkLeafs, outsideVars
  <2>2. PICK d : d = certSec'[w]
    BY Zenon
  <2>3. /\ d.bundle = c.bundle /\ d.phase = c.phase
        /\ d.leafs = (IF o.reissue THEN o.secret.gen ELSE c.leafs)
        /\ \A v \in Cas \ {w} : certSec'[v] = certSec[v]
    BY <1>5, <1>0, <1>1, <2>2, Zenon DEF MarkLeafs, Types, StateTypes, CertSecret
  <2>4. k.gen \in Nat
    BY <1>1, Zenon DEF KeySecret
  <2>5. Agree(w, k, d)
    <3>1. c.leafs <= k.gen /\ o.secret = k /\ (o.reissue => c.phase = "Promote")
      BY <1>2, Zenon DEF Agree, Remembered, Reissues
    <3>2. k.gen <= k.gen
      BY <2>4, SMTT(30), Z3T(30)
    <3>3. d.leafs <= k.gen /\ (c.phase # "Promote" => d.leafs = c.leafs)
      BY <3>1, <3>2, <2>3, Zenon
    <3>4. c.phase = "Trust" => c.phase # "Promote"
      BY Zenon
    <3> QED
      BY <3>3, <3>4, <2>3, <1>2, Zenon DEF Agree
  <2>6. Agreement'
    <3>1. \A v \in Cas : Agree(v, keySec[v], certSec'[v])
      BY <1>0, <2>2, <2>3, <2>5, Zenon DEF Books, Agreement
    <3> QED
      BY <3>1, <2>1, ZenonT(60) DEF Agreement, Agree
  <2>7. Memory'
    <3>1. Remembered(w, o, k, d)
      BY <1>2, <2>3, Zenon DEF Remembered
    <3>2. \A v \in Cas : Past(v)
      BY <1>1, Zenon DEF Past, Signing
    <3>3. \A v \in Cas : Remembered(v, pass.out[v], keySec[v], certSec'[v])
      BY <3>1, <3>2, <1>0, <2>2, <2>3, ZenonT(60) DEF Books, Memory
    <3> QED
      BY <3>3, <2>1, ZenonT(60) DEF Memory, Remembered, Reissues
  <2>8. Plans'
    BY <2>1, Zenon DEF Plans, Writing
  <2>9. Marked'
    <3>1. pass.todo = {}
      BY <1>5, ZenonT(60) DEF MarkLeafs
    <3>2. d.phase = "Promote" => \A u \in User : userLeaf[u] = k.key
      BY <3>1, <1>0, <1>1, <2>3, Zenon DEF Books, Marked
    <3> QED
      BY <3>2, <1>0, <2>1, <2>2, Zenon DEF Marked
  <2> QED
    BY <2>6, <2>7, <2>8, <2>9, Zenon DEF Books
<1> QED
  BY <1>4, <1>5, Zenon

\* The steps that leave both Secrets and the users' certificates alone.
LEMMA BooksRest ==
  ASSUME Types, Books, [Next]_vars,
         ~(PlanCa \/ PatchKey \/ PatchCert \/ MarkLeafs \/ \E u \in User : SyncUser(u))
  PROVE  Books'
<1>1. UNCHANGED <<keySec, certSec, userLeaf, byo>>
  BY ZenonT(40) DEF Next, PassStep, vars, Begin, IssueOperator, Strip, Listeners, Adopt, Abort, SyncPool,
         RollPod, FailPod, StopPod, StartPod, Annotate, AgeCert, EditSpec, CronRead, CronFlag, CronSign,
         secretVars, poolVars, outsideVars
<1>2. expired \subseteq expired'
  BY ZenonT(40) DEF Next, PassStep, vars, Begin, IssueOperator, Strip, Listeners, Adopt, Abort, SyncPool,
         RollPod, FailPod, StopPod, StartPod, Annotate, AgeCert, EditSpec, CronRead, CronFlag, CronSign,
         secretVars, poolVars, outsideVars
<1>3. Agreement'
  BY <1>1, Zenon DEF Books, Agreement, Agree
<1>4. \/ UNCHANGED <<pc, pass>>
      \/ pc' = "idle"
      \/ Begin
      \/ IssueOperator \/ Strip
      \/ Listeners /\ pc' = "adopt"
  BY ZenonT(40) DEF Next, PassStep, vars, Listeners, Adopt, Abort, EndPass, SyncPool,
         RollPod, FailPod, StopPod, StartPod, Annotate, AgeCert, EditSpec, CronRead, CronFlag, CronSign
<1>5. CASE UNCHANGED <<pc, pass>>
  <2>1. Plans'
    <3>1. ASSUME NEW w \in Cas, Writing(w)' PROVE Planned(w, pass.out[w], keySec[w], certSec[w])'
      <4>0. PICK o, k, c : o = pass.out[w] /\ k = keySec[w] /\ c = certSec[w]
        BY Zenon
      <4>1. Planned(w, o, k, c)
        BY <3>1, <4>0, <1>5, ZenonT(60) DEF Books, Plans, Writing
      <4>2. Planned(w, o, k, c)'
        BY <4>1, <1>1, <1>2, <1>5, ZenonT(40) DEF Planned
      <4> QED
        BY <4>0, <4>2, <1>1, <1>5, Zenon
    <3> QED
      BY <3>1, <1>5, ZenonT(60) DEF Books, Plans, Reissues, Writing
  <2> QED
    BY <2>1, <1>1, <1>3, <1>5, Zenon DEF Books, Memory, Past, Remembered, Reissues, Marked
<1>6. CASE pc' = "idle"
  BY <1>1, <1>3, <1>6, ZenonT(40) DEF Books, Plans, Memory, Marked, Past, Writing, CaStep, Signing
<1>7. CASE Begin
  <2>1. \A w \in Cas : ~Past(w)' /\ ~Writing(w)'
    BY <1>7, CaAssumption, ZenonT(30) DEF Begin, Past, Writing, CaStep, Signing, Has
  <2>2. pc' # "users"
    BY <1>7, Zenon DEF Begin
  <2> QED
    BY <2>1, <2>2, <1>1, <1>3, Zenon DEF Books, Plans, Memory, Marked
<1>8. CASE IssueOperator \/ Strip \/ (Listeners /\ pc' = "adopt")
  <2>1. pc \in {"operator"} \cup Signing /\ pc' \in Signing /\ pass \in Pass
    BY <1>8, Zenon DEF IssueOperator, Strip, Listeners, Signing, Types, PassTypes
  <2>2. pass'.out = pass.out
    BY <1>8, <2>1, ZenonT(60) DEF IssueOperator, Strip, Listeners, Pass, EndPass
  <2>3. Plans'
    BY <2>1, Zenon DEF Plans, Writing, Signing
  <2>4. Memory'
    BY <2>1, <2>2, <1>1, ZenonT(40) DEF Books, Memory, Past, Remembered, Reissues
  <2>5. pc' = "users" => pass'.todo = User
    BY <1>8, <2>1, Zenon DEF IssueOperator, Strip, Listeners, Pass
  <2>6. Marked'
    BY <2>5, <1>1, Zenon DEF Books, Marked
  <2> QED
    BY <1>3, <2>3, <2>4, <2>6, ZenonT(30) DEF Books
<1> QED
  BY <1>4, <1>5, <1>6, <1>7, <1>8, Zenon

LEMMA BooksStep == Types /\ Books /\ [Next]_vars => Books'
BY BooksPlanCa, BooksPatchKey, BooksPatchCert, BooksUsers, BooksRest, Zenon

-----------------------------------------------------------------------------
(* The theorems *)

\* A BYO CA is in no rotation.
ByoIdle == \A w \in byo : certSec[w].phase = "Idle"

Accounts == Types /\ Books /\ ByoIdle

\* Steps that write a CA do so for one that the operator manages.
LEMMA ByoStep ==
  ASSUME Types, Books, ByoIdle, [Next]_vars PROVE LeavesByo /\ ByoIdle'
<1>1. byo' = byo /\ byo \subseteq Cas
  BY ZenonT(40) DEF Types, StateTypes, Next, PassStep, Begin, PlanCa, PatchKey, PatchCert, IssueOperator, SyncUser,
         MarkLeafs, Strip, Listeners, Adopt, Abort, SyncPool, RollPod, FailPod, StopPod, StartPod, Annotate,
         AgeCert, EditSpec, CronRead, CronFlag, CronSign, vars, outsideVars
<1>2. PatchKey \/ PatchCert \/ MarkLeafs \/ UNCHANGED <<keySec, certSec>>
  BY Zenon DEF Next, PassStep, Begin, PlanCa, PatchKey, PatchCert, IssueOperator, SyncUser,
         MarkLeafs, Strip, Listeners, Adopt, Abort, SyncPool, RollPod, FailPod, StopPod, StartPod, Annotate,
         AgeCert, EditSpec, CronRead, CronFlag, CronSign, vars, secretVars
<1>3. LeavesByo
  <2>1. CASE PatchKey \/ PatchCert
    <3>1. pass.ca \in Cas /\ Writing(pass.ca)
      BY <2>1, Zenon DEF PatchKey, PatchCert, Types, PassTypes, Pass, Writing
    <3>2. pass.ca \notin byo
      BY <3>1, Zenon DEF Books, Plans, Planned
    <3> QED
      BY <3>2, <2>1, <1>1, Zenon DEF PatchKey, PatchCert, LeavesByo, Types, StateTypes
  <2>2. CASE MarkLeafs
    <3>1. "Clients" \in Cas /\ Past("Clients")
      BY <2>2, Zenon DEF MarkLeafs, Types, PassTypes, Past, Signing
    <3>2. pass.out["Clients"].reissue => "Clients" \notin byo
      BY <3>1, Zenon DEF Books, Memory, Remembered, Reissues, ByoIdle
    <3> QED
      BY <3>2, <2>2, <1>1, Zenon DEF MarkLeafs, LeavesByo, Types, StateTypes
  <2>3. CASE UNCHANGED <<keySec, certSec>>
    BY <2>3, Zenon DEF LeavesByo
  <2> QED
    BY <2>1, <2>2, <2>3, <1>2, Zenon
<1> QED
  BY <1>1, <1>3, Zenon DEF ByoIdle, LeavesByo

\* The inductive invariant: types, and what the Secrets and the pass know of each
\* other, whichever call of reconcile_ca fails.
THEOREM AccountsKept == Spec => []Accounts
<1>1. Init => Accounts
  <2>1. Init => ByoIdle
    <3> SUFFICES ASSUME Init, NEW w \in byo PROVE certSec[w].phase = "Idle"
      BY Zenon DEF ByoIdle
    <3>1. w \in Cas
      BY Zenon DEF Init
    <3>2. certSec = [v \in Cas |-> [bundle |-> FirstBundle(v), gen |-> 0, phase |-> "Idle", leafs |-> 0]]
      BY Zenon DEF Init
    <3> QED
      BY <3>1, <3>2, Zenon
  <2> QED
    BY <2>1, TypesInit, BooksInit, Zenon DEF Accounts
<1>2. Accounts /\ [Next]_vars => Accounts'
  <2> SUFFICES ASSUME Accounts, [Next]_vars PROVE Accounts'
    BY Zenon
  <2>1. Types'
    BY TypesStep, Zenon DEF Accounts
  <2>2. Books' /\ ByoIdle'
    BY BooksStep, ByoStep, Zenon DEF Accounts
  <2> QED
    BY <2>1, <2>2, Zenon DEF Accounts
<1> QED
  BY <1>1, <1>2, PTL DEF Spec

\* Types, the keys that exist, and the marker of mark_leafs_reissued within the
\* generations of the key, whatever fails.
THEOREM TypeCorrect == Spec => []TypeOK
<1>1. Accounts => TypeOK
  <2> SUFFICES ASSUME Accounts PROVE TypeOK
    BY Zenon
  <2>1. Types /\ Agreement
    BY Zenon DEF Accounts, Books
  <2>2. ASSUME NEW w \in Cas
        PROVE  /\ keySec[w] \in [key : 1 .. keys, next : 0 .. keys, gen : Nat]
               /\ DOMAIN certSec[w] = {"bundle", "gen", "phase", "leafs"}
               /\ certSec[w].bundle \in [signer : CaCert, anchors : SUBSET CaCert]
               /\ certSec[w].gen \in Nat /\ certSec[w].phase \in Phase
               /\ certSec[w].leafs \in 0 .. keySec[w].gen
    <3>1. keySec[w] \in KeySecret /\ certSec[w] \in CertSecret
      BY <2>1, Zenon DEF Types, StateTypes
    <3>2. certSec[w].leafs \in Nat /\ keySec[w].gen \in Nat
      BY <3>1, Zenon DEF KeySecret, CertSecret
    <3>3. certSec[w].leafs \in 0 .. keySec[w].gen
      BY <3>2, <2>1, SMTT(30), Z3T(30) DEF Agreement, Agree
    <3> QED
      BY <3>1, <3>3, Zenon DEF KeySecret, CertSecret, CaBundle
  <2>3. (pc = "idle") = (pass = NoPass)
    <3>1. pass \in Pass => pass # NoPass
      BY CaAssumption, SMTT(30), Z3T(30) DEF Pass, NoPass
    <3> QED
      BY <3>1, <2>1, Zenon DEF Types, PassTypes
  <2>4. /\ operator.leaf \in 1 .. keys /\ operator.trust \subseteq 1 .. keys
        /\ keystore \in [Pool -> 1 .. keys] /\ userLeaf \in [User -> 1 .. keys]
        /\ byo \subseteq Cas /\ force \subseteq Annotation /\ reported \in [Pool -> BOOLEAN]
        /\ pc \in {"idle", "plan", "key", "cert", "operator"} \cup Signing
    BY <2>1, Zenon DEF Types, StateTypes, Leafs, CaStep
  <2> QED
    BY <2>2, <2>3, <2>4, Zenon DEF TypeOK
<1> QED
  BY <1>1, AccountsKept, PTL

\* In the trust phase the staged key is there and in the bundle, whichever write of
\* apply_ca_rotation's outcome was the last one to succeed.
THEOREM PromotionCanReplay == Spec => []PromotionReplays
<1>1. Accounts => PromotionReplays
  BY Zenon DEF Accounts, Books, Agreement, Agree, PromotionReplays, Bundle
<1> QED
  BY <1>1, AccountsKept, PTL

\* The operator leaves a BYO CA alone, whatever is annotated and whatever fails.
THEOREM ByoKept == Spec => ByoUntouched
<1>1. Accounts /\ [Next]_vars => [LeavesByo]_vars
  BY ByoStep, Zenon DEF Accounts
<1> QED
  BY <1>1, AccountsKept, PTL DEF Spec, ByoUntouched
=============================================================================
