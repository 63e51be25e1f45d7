---------------------------- MODULE CaTrustProofs ----------------------------
(***************************************************************************)
(* Proofs about CaRotation, for any pools, users, CAs and budgets: who     *)
(* trusts whom.  While no pass is cut short and no CA certificate expires, *)
(* every leaf in use is verified by everybody, and what a hash says of     *)
(* bundles and leafs was so when a pod started with it (Trusted).  It      *)
(* rests on the books of CaRotationProofs.                                 *)
(*                                                                         *)
(* Theorems: EverybodyTrusted, PromotionTrusted, PrunedLast.               *)
(***************************************************************************)
EXTENDS CaRotationProofs

-----------------------------------------------------------------------------
(* Who trusts whom, while no pass is cut short *)

\* The bundle of w that a configuration hash covers.
Covers(h, w) == IF w = "Cluster" THEN h.cluster ELSE h.clients

\* From the write of the new key on, leafs of both keys are in use.
Switching(w) == \/ certSec[w].phase = "Promote"
                \/ pc = "cert" /\ pass.ca = w /\ pass.out[w].plan = "PromoteNewKey"

\* The pass found every pool converged, and has not changed w since.
Converged(w) == pc \in CaStep /\ ~Past(w) /\ pass.converged

\* The trust of the running pods, against the bundle in the cert Secret.
Trusting(w) ==
  /\ certSec[w].phase = "Trust" /\ keySec[w].key = keySec[w].next => Switching(w)
  /\ Writing(w) /\ pass.out[w].plan = "StartKeyReplace" =>
       \A p \in Pool : \A h \in {label[p], tmpl[p], pod[p].rev} :
         pass.out[w].secret.next \notin KeysOf(Covers(h, w))
  /\ ~Past(w) /\ certSec[w].phase # "Idle" => \A p \in Pool : p = 1 => Covers(label[p], w) = Bundle(w)
  /\ \A p \in Pool : pod[p].up =>
       /\ KeysOf(Covers(pod[p].rev, w)) \cap KeysOf(Bundle(w)) \subseteq pod[p].trust[w]
       /\ Bundle(w).signer.key \in pod[p].trust[w]
       /\ Switching(w) \/ (Converged(w) /\ certSec[w].phase # "Idle")
            => KeysOf(Bundle(w)) \subseteq pod[p].trust[w]

\* A leaf of the CA w that may be in use: of the signer, or of either key.
InUse(w, k) == IF Switching(w) THEN k \in KeysOf(Bundle(w)) ELSE k = Bundle(w).signer.key

UserLeafs == "Clients" \in Cas => \A u \in User : InUse("Clients", userLeaf[u])

\* Leafs only ever get newer, and no hash is ahead of the keystore.
Dated ==
  \A p \in Pool :
    /\ label[p].leafs \in Leafs /\ tmpl[p].leafs \in Leafs /\ pod[p].rev.leafs \in Leafs
    /\ label[p].leafs[p] <= keystore[p] /\ tmpl[p].leafs[p] <= keystore[p]
    /\ pod[p].rev.leafs[p] <= pod[p].leaf /\ pod[p].leaf <= keystore[p]
    /\ pc = "adopt" => pass.leafs \in Leafs /\ pass.leafs[p] <= keystore[p]

\* The broker leafs in the keystore.  Once the pass of a promotion has reissued them, all
\* are of the new key, and so says the hash that it adopts.
KeystoreLeafs ==
  LET w == "Cluster"
      key == keySec[w].key
      promoted == certSec[w].phase = "Promote"
  IN  \A p \in Pool :
        /\ InUse(w, keystore[p]) /\ keystore[p] <= key
        /\ promoted /\ (pc = "adopt" \/ ~Past(w) \/ pass.out[w].plan # "PromoteNewKey")
             => keystore[p] = key
        /\ promoted /\ ~Past(w) => \A q \in Pool : q = 1 => label[q].leafs[p] = key
        /\ promoted /\ pc = "adopt" => pass.leafs[p] = key

\* The leafs that running brokers present.
PodLeafs ==
  LET w == "Cluster"
  IN  \A p \in Pool : pod[p].up =>
        /\ InUse(w, pod[p].leaf)
        /\ certSec[w].phase = "Promote" /\ Converged(w) => pod[p].leaf = keySec[w].key

\* The operator's leaf and trust; a pass renews both after its writes of the cluster CA.
OperatorLeafs ==
  LET w == "Cluster"
      signer == Bundle(w).signer.key
  IN  /\ InUse(w, operator.leaf) /\ signer \in operator.trust
      /\ Switching(w) => KeysOf(Bundle(w)) \subseteq operator.trust
      /\ ~Past(w) \/ pc \in Signing => operator = [leaf |-> signer, trust |-> KeysOf(Bundle(w))]

\* What the CronJob may still sign.
CronLeafs ==
  cron.at # "off" =>
    /\ cron.key <= keySec["Cluster"].key
    /\ \A p \in Pool : /\ cron.old[p] <= cron.key
                       /\ keystore[p] = cron.old[p] => cron.key \in {keystore[p], keySec["Cluster"].key}

Trust ==
  /\ expired = {}
  /\ \A w \in Cas : Trusting(w)
  /\ Dated
  /\ UserLeafs
  /\ "Cluster" \in Cas => KeystoreLeafs /\ PodLeafs /\ OperatorLeafs /\ CronLeafs

Trusted == Undisturbed => Trust

-----------------------------------------------------------------------------
(* Trust *)

LEMMA TrustedInit == Init => Trusted
<1> SUFFICES ASSUME Init PROVE Trusted
  BY Zenon
<1>1. Types
  BY TypesInit, Zenon
<1>2. \A w \in Cas : ~Past(w) /\ ~Writing(w) /\ ~Switching(w) /\ ~Converged(w)
  BY ZenonT(40) DEF Init, Past, Writing, Switching, Converged, Signing, CaStep
<1>3. \A w \in Cas : Bundle(w) = FirstBundle(w) /\ Bundle(w).signer.key = FirstKey(w)
                     /\ keySec[w].next = 0 /\ keySec[w].key = FirstKey(w) /\ certSec[w].phase = "Idle"
  BY ZenonT(40) DEF Init, Bundle, FirstBundle, Cert
<1>4. \A w \in Cas : KeysOf(Bundle(w)) = {FirstKey(w)}
  BY <1>3, SMTT(30), Z3T(30) DEF KeysOf, Blocks, FirstBundle, Cert
<1>5. \A w \in Cas : \A p \in Pool : pod[p].trust[w] = {FirstKey(w)}
  BY Zenon DEF Init
<1>6. \A w \in Cas : Trusting(w)
  BY <1>2, <1>3, <1>4, <1>5, ZenonT(40) DEF Trusting
<1>7. \A p \in Pool : /\ label[p].leafs = [q \in Pool |-> 1] /\ tmpl[p].leafs = [q \in Pool |-> 1]
                      /\ pod[p].rev.leafs = [q \in Pool |-> 1] /\ pod[p].leaf = 1 /\ keystore[p] = 1
  BY Zenon DEF Init, Hash
<1>8. Dated
  <2>1. [q \in Pool |-> 1] \in Leafs /\ pc # "adopt"
    <3>1. keys = 2 /\ pc = "idle"
      BY Zenon DEF Init
    <3> QED
      BY <3>1, SMTT(30), Z3T(30) DEF Leafs
  <2>2. 1 <= 1
    BY SMTT(30), Z3T(30)
  <2>3. \A p \in Pool : label[p].leafs[p] = 1 /\ tmpl[p].leafs[p] = 1 /\ pod[p].rev.leafs[p] = 1
    BY <1>7, SMTT(30), Z3T(30)
  <2> QED
    BY <1>7, <2>1, <2>2, <2>3, Zenon DEF Dated
<1>9. UserLeafs
  BY <1>2, <1>3, Zenon DEF Init, UserLeafs, InUse
<1>10. ASSUME "Cluster" \in Cas PROVE KeystoreLeafs /\ PodLeafs /\ OperatorLeafs /\ CronLeafs
  <2>1. FirstKey("Cluster") = 1
    BY Zenon DEF FirstKey
  <2>2. KeystoreLeafs /\ PodLeafs
    <3>1. /\ \A p \in Pool : keystore[p] = 1 /\ pod[p].leaf = 1
          /\ keySec["Cluster"].key = 1 /\ certSec["Cluster"].phase = "Idle"
      BY <2>1, <1>10, <1>3, <1>7, Zenon
    <3>2. InUse("Cluster", 1)
      BY <2>1, <1>10, <1>2, <1>3, Zenon DEF InUse
    <3>3. 1 <= 1
      BY SMTT(30), Z3T(30)
    <3> QED
      BY <3>1, <3>2, <3>3, Zenon DEF KeystoreLeafs, PodLeafs
  <2>3. OperatorLeafs
    BY <2>1, <1>10, <1>2, <1>3, <1>4, ZenonT(40) DEF OperatorLeafs, InUse, Init
  <2> QED
    BY <2>2, <2>3, Zenon DEF CronLeafs, Init, NoCron
<1> QED
  BY <1>6, <1>8, <1>9, <1>10, Zenon DEF Trusted, Trust, Init

\* What each part is about: it holds on if that stays the same.
LEMMA FrameTrusting ==
  ASSUME NEW w \in Cas, Trusting(w), UNCHANGED <<certSec, keySec, pc, pass, label, tmpl, pod>>
  PROVE  Trusting(w)'
BY Zenon DEF Trusting, Switching, Writing, Past, Converged, Bundle

LEMMA FrameDated ==
  ASSUME Dated, UNCHANGED <<keys, keystore, pc, pass, label, tmpl, pod>>
  PROVE  Dated'
BY Zenon DEF Dated, Leafs

LEMMA FrameUserLeafs ==
  ASSUME UserLeafs, UNCHANGED <<certSec, pc, pass, userLeaf>>
  PROVE  UserLeafs'
BY Zenon DEF UserLeafs, InUse, Switching, Bundle

LEMMA FrameKeystoreLeafs ==
  ASSUME KeystoreLeafs, UNCHANGED <<certSec, keySec, keystore, label, pc, pass>>
  PROVE  KeystoreLeafs'
BY Zenon DEF KeystoreLeafs, InUse, Switching, Past, Bundle

LEMMA FramePodLeafs ==
  ASSUME PodLeafs, UNCHANGED <<certSec, keySec, pod, pc, pass>>
  PROVE  PodLeafs'
BY Zenon DEF PodLeafs, InUse, Switching, Past, Converged, Bundle

LEMMA FrameOperatorLeafs ==
  ASSUME OperatorLeafs, UNCHANGED <<certSec, operator, pc, pass>>
  PROVE  OperatorLeafs'
BY Zenon DEF OperatorLeafs, InUse, Switching, Past, Bundle

LEMMA FrameCronLeafs ==
  ASSUME CronLeafs, UNCHANGED <<cron, keySec, keystore>>
  PROVE  CronLeafs'
BY Zenon DEF CronLeafs

\* While nothing disturbs them, passes come to their end.
LEMMA Calm ==
  ASSUME Types, [Next]_vars, Undisturbed'
  PROVE  /\ Undisturbed
         /\ ~Abort
         /\ ~Happens("invalid") /\ ~Happens("dependency")
         /\ Adopt => label' = [p \in Pool |-> plan_rollout(label, pass.ready, PassHash)[p]]
         /\ expired' = expired
<1>1. events \in [Event -> Nat] /\ {"abort", "invalid", "dependency", "expire"} \subseteq Event
  BY Zenon DEF Types, StateTypes, Event
<1>2. \A e \in {"abort", "invalid", "dependency", "expire"} : ~Happens(e)
  BY <1>1, HappensType, Zenon DEF Undisturbed
<1>3. \A e \in {"abort", "invalid", "dependency", "expire"} : events'[e] = 0
  BY Zenon DEF Undisturbed
<1>4. Undisturbed
  <2>1. \A e \in Event : Happens(e) => \A f \in Event : events'[f] = 0 => events[f] = 0
    BY <1>1, HappensType, ZenonT(30)
  <2>2. UNCHANGED events \/ \E e \in Event : Happens(e)
    BY Zenon DEF Next, PassStep, Begin, PlanCa, PatchKey, PatchCert, IssueOperator, SyncUser, MarkLeafs,
           Strip, Listeners, Adopt, Abort, SyncPool, RollPod, FailPod, StopPod, StartPod, Annotate,
           AgeCert, EditSpec, CronRead, CronFlag, CronSign, Event, vars
  <2>3. \A f \in Event : events'[f] = 0 => events[f] = 0
    BY <2>1, <2>2, Zenon
  <2> QED
    BY <2>3, <1>3, <1>1, ZenonT(60) DEF Undisturbed
<1>5. ~Abort
  BY <1>2, Zenon DEF Abort
<1>7. Adopt => label' = [p \in Pool |-> plan_rollout(label, pass.ready, PassHash)[p]]
  BY <1>2, SMTT(30), Z3T(30) DEF Adopt, Pool
<1>8. expired' = expired
  BY <1>2, ZenonT(40) DEF Next, PassStep, Begin, PlanCa, PatchKey, PatchCert, IssueOperator, SyncUser, MarkLeafs,
         Strip, Listeners, Adopt, Abort, SyncPool, RollPod, FailPod, StopPod, StartPod, Annotate,
         AgeCert, EditSpec, CronRead, CronFlag, CronSign, vars, outsideVars
<1> QED
  BY <1>2, <1>4, <1>5, <1>7, <1>8, Zenon

\* The key in the key Secret may be used for leafs at any time.
LEMMA KeyInUse ==
  ASSUME NEW w \in Cas, Books, Trust
  PROVE  InUse(w, keySec[w].key) /\ InUse(w, Bundle(w).signer.key)
<1>1. Agree(w, keySec[w], certSec[w]) /\ Trusting(w)
  BY Zenon DEF Books, Agreement, Trust
<1>2. Bundle(w).signer.key \in KeysOf(Bundle(w))
  BY Zenon DEF KeysOf, Blocks
<1> QED
  BY <1>1, <1>2, Zenon DEF Agree, Trusting, InUse, Bundle

\* Steps outside passes and pods.
LEMMA TrustOutside ==
  ASSUME Types, Books, Trust, expired' = expired,
         \/ \E a \in Annotation : Annotate(a)
         \/ \E w \in Cas : AgeCert(w)
         \/ EditSpec \/ CronRead \/ CronFlag \/ CronSign \/ UNCHANGED vars
  PROVE  Trust'
<1>1. /\ UNCHANGED <<certSec, keySec, operator, userLeaf, pc, pass, label, tmpl, pod, keys>>
      /\ CronSign \/ UNCHANGED keystore
      /\ CronRead \/ CronFlag \/ CronSign \/ UNCHANGED cron
  BY Zenon DEF Annotate, AgeCert, EditSpec, CronRead, CronFlag, CronSign, vars, secretVars, poolVars
<1>2. /\ \A w \in Cas : Trusting(w)'
      /\ UserLeafs'
      /\ "Cluster" \in Cas => PodLeafs' /\ OperatorLeafs'
  BY <1>1, FrameTrusting, FrameUserLeafs, FramePodLeafs, FrameOperatorLeafs, Zenon DEF Trust
<1>3. CASE UNCHANGED keystore
  <2>1. Dated' /\ ("Cluster" \in Cas => KeystoreLeafs')
    BY <1>1, <1>3, FrameDated, FrameKeystoreLeafs, Zenon DEF Trust
  <2>2. ASSUME "Cluster" \in Cas PROVE CronLeafs'
    <3>1. CASE UNCHANGED cron
      BY <2>2, <3>1, <1>1, <1>3, FrameCronLeafs, Zenon DEF Trust
    <3>2. CASE CronRead
      <4>1. \A p \in Pool : keystore[p] <= keySec["Cluster"].key
        BY <2>2, Zenon DEF Trust, KeystoreLeafs
      <4>2. keySec["Cluster"].key \in Nat
        BY <2>2, Typed, Zenon
      <4> QED
        <5>1. cron'.key = keySec["Cluster"].key /\ cron'.old = keystore
          BY <3>2, Zenon DEF CronRead
        <5>2. keySec["Cluster"].key <= keySec["Cluster"].key
          BY <4>2, SMTT(30), Z3T(30)
        <5> QED
          BY <4>1, <5>1, <5>2, <1>1, <1>3, Zenon DEF CronLeafs
    <3>3. CASE CronFlag
      BY <2>2, <3>3, <1>1, <1>3, Zenon DEF CronFlag, CronLeafs, Trust
    <3>4. CASE CronSign
      BY <3>4, Zenon DEF CronSign, CronLeafs, NoCron
    <3> QED
      BY <3>1, <3>2, <3>3, <3>4, <1>1, ZenonT(60)
  <2> QED
    BY <1>2, <2>1, <2>2, Zenon DEF Trust
<1>4. CASE CronSign /\ keystore' # keystore
  <2>1. "Cluster" \in Cas /\ cron.at # "off"
    <3>1. cron.at = "sign"
      BY <1>4, Zenon DEF CronSign
    <3>2. cron # NoCron /\ cron.at # "off"
      <4>1. NoCron.at = "off"
        BY Zenon DEF NoCron
      <4>2. "sign" # "off"
        BY Zenon
      <4> QED
        BY <3>1, <4>1, <4>2, Zenon
    <3> QED
      BY <3>2, Zenon DEF Types, CronTypes
  <2> DEFINE key == keySec["Cluster"].key
  <2>2. /\ \A p \in Pool : keystore'[p] \in {keystore[p], key} /\ keystore[p] <= keystore'[p]
        /\ \A p \in Pool : keystore'[p] # keystore[p] => keystore'[p] = key
    <3>1. PICK S \in SUBSET {p \in Pool : cron.seen[p] = cron.old[p]} :
            keystore' = [p \in Pool |-> IF p \in S THEN cron.key ELSE keystore[p]]
      BY <1>4, ZenonT(40) DEF CronSign
    <3>2. \A p \in S : keystore[p] = cron.old[p]
      BY <1>4, <3>1, Zenon DEF CronSign
    <3>3. CronLeafs
      BY <2>1, Zenon DEF Trust
    <3>4. \A p \in S : cron.key \in {keystore[p], key} /\ keystore[p] <= cron.key
      BY <3>2, <3>3, <2>1, Zenon DEF CronLeafs
    <3>5. \A p \in Pool : keystore[p] <= keystore[p]
      <4>1. \A i \in Nat : i <= i
        BY SMTT(30), Z3T(30)
      <4> QED
        BY <4>1, Typed, Zenon
    <3>6. \A p \in Pool : keystore'[p] = IF p \in S THEN cron.key ELSE keystore[p]
      BY <3>1, Zenon
    <3> QED
      BY <3>4, <3>5, <3>6, Zenon
  <2>3. /\ key \in Nat
        /\ \A p \in Pool : /\ keystore[p] \in Nat /\ pod[p].leaf \in Nat
                           /\ label[p].leafs[p] \in Nat /\ tmpl[p].leafs[p] \in Nat
                           /\ pc = "adopt" => pass.leafs[p] \in Nat
    BY <2>1, Typed, ZenonT(40) DEF Trust, Dated
  <2>4. Dated'
    <3>1. keystore' \in [Pool -> Nat] /\ Dated
      BY <2>2, <2>3, <1>4, ZenonT(40) DEF CronSign, Trust, Types, StateTypes, Leafs
    <3> QED
      <4>1. \A p \in Pool : /\ label[p].leafs \in Leafs /\ tmpl[p].leafs \in Leafs
                            /\ pod[p].rev.leafs \in Leafs
                            /\ label[p].leafs[p] <= keystore[p] /\ tmpl[p].leafs[p] <= keystore[p]
                            /\ pod[p].rev.leafs[p] <= pod[p].leaf /\ pod[p].leaf <= keystore[p]
                            /\ pc = "adopt" => pass.leafs \in Leafs /\ pass.leafs[p] <= keystore[p]
        BY <3>1, Zenon DEF Dated
      <4>2. \A i, j, n \in Nat : i <= j /\ j <= n => i <= n
        BY SMTT(30), Z3T(30)
      <4>3. \A p \in Pool : keystore'[p] \in Nat
        BY <3>1, Zenon
      <4>4. \A p \in Pool : /\ label[p].leafs[p] <= keystore'[p] /\ tmpl[p].leafs[p] <= keystore'[p]
                            /\ pod[p].leaf <= keystore'[p]
                            /\ pc = "adopt" => pass.leafs[p] <= keystore'[p]
        BY <4>1, <4>2, <4>3, <2>2, <2>3, ZenonT(40)
      <4> QED
        BY <4>1, <4>4, <1>1, ZenonT(40) DEF Dated, Leafs
  <2>5. KeystoreLeafs'
    <3>1. \A p \in Pool : InUse("Cluster", keystore'[p])
      BY <2>1, <2>2, KeyInUse, ZenonT(40) DEF Trust, KeystoreLeafs
    <3>2. \A p \in Pool : InUse("Cluster", keystore[p])'
      BY <3>1, <1>1, ZenonT(60) DEF InUse, Switching, Bundle
    <3>3. KeystoreLeafs
      BY <2>1, Zenon DEF Trust
    <3>4. \A i \in Nat : i <= i
      BY SMTT(30), Z3T(30)
    <3>5. ASSUME NEW p \in Pool PROVE keystore'[p] <= key /\ (keystore[p] = key => keystore'[p] = key)
      BY <3>3, <3>4, <2>2, <2>3, Zenon DEF KeystoreLeafs
    <3>6. Past("Cluster")' <=> Past("Cluster")
      BY <1>1, Zenon DEF Past
    <3> QED
      BY <3>2, <3>3, <3>5, <3>6, <1>1, ZenonT(40) DEF KeystoreLeafs
  <2>6. CronLeafs'
    BY <1>4, Zenon DEF CronSign, CronLeafs, NoCron
  <2> QED
    BY <1>2, <2>4, <2>5, <2>6, Zenon DEF Trust
<1> QED
  BY <1>1, <1>3, <1>4, Zenon

\* Steps of pools and pods.
LEMMA TrustPods ==
  ASSUME Types, Books, Trust, NEW p \in Pool, SyncPool(p) \/ StopPod(p) \/ StartPod(p),
         expired' = expired
  PROVE  Trust'
<1>1. /\ UNCHANGED <<certSec, keySec, keystore, operator, userLeaf, pc, pass, label, keys, cron>>
      /\ SyncPool(p) \/ UNCHANGED tmpl
      /\ SyncPool(p) => UNCHANGED pod
  BY Zenon DEF SyncPool, StopPod, StartPod, secretVars
<1>2. /\ UserLeafs'
      /\ "Cluster" \in Cas => KeystoreLeafs' /\ OperatorLeafs' /\ CronLeafs'
  BY <1>1, FrameUserLeafs, FrameKeystoreLeafs, FrameOperatorLeafs, FrameCronLeafs, Zenon DEF Trust
<1>3. /\ \A q \in Pool : q # p => pod'[q] = pod[q] /\ tmpl'[q] = tmpl[q]
      /\ pod'[p].rev \in {pod[p].rev, tmpl[p]}
      /\ tmpl'[p] \in {tmpl[p], label[p]}
      /\ pod'[p].up => \/ pod'[p] = pod[p]
                       \/ /\ pod'[p].rev = tmpl[p] /\ pod'[p].leaf = keystore[p]
                          /\ pod'[p].trust = [w \in Cas |-> KeysOf(Bundle(w))]
  BY SMTT(30), Z3T(30) DEF SyncPool, StopPod, StartPod, Types, StateTypes, Pod
<1>4. \A w \in Cas : Trusting(w)'
  <2> SUFFICES ASSUME NEW w \in Cas PROVE Trusting(w)'
    BY Zenon
  <2>1. Trusting(w)
    BY Zenon DEF Trust
  <2>2. /\ Switching(w)' = Switching(w) /\ Writing(w)' = Writing(w) /\ Past(w)' = Past(w)
        /\ Converged(w)' = Converged(w) /\ Bundle(w)' = Bundle(w)
    <3>1. Writing(w)' = Writing(w) /\ Past(w)' = Past(w)
      BY <1>1, Zenon DEF Writing, Past
    <3>2. Converged(w)' = Converged(w)
      BY <3>1, <1>1, Zenon DEF Converged
    <3>3. Switching(w)' = Switching(w) /\ Bundle(w)' = Bundle(w)
      BY <1>1, Zenon DEF Switching, Past, Bundle
    <3> QED
      BY <3>1, <3>2, <3>3, Zenon
  <2>3. /\ certSec'[w].phase = "Trust" /\ keySec'[w].key = keySec'[w].next => Switching(w)'
        /\ ~Past(w)' /\ certSec'[w].phase # "Idle" => \A q \in Pool : q = 1 => Covers(label'[q], w) = Bundle(w)'
    BY <2>1, <2>2, <1>1, ZenonT(40) DEF Trusting
  <2>4. Writing(w)' /\ pass'.out[w].plan = "StartKeyReplace" =>
          \A q \in Pool : \A h \in {label'[q], tmpl'[q], pod'[q].rev} :
            pass'.out[w].secret.next \notin KeysOf(Covers(h, w))
    <3>1. \A q \in Pool : {label'[q], tmpl'[q], pod'[q].rev} \subseteq {label[q], tmpl[q], pod[q].rev}
      BY <1>1, <1>3, Zenon
    <3>2. pass'.out[w] = pass.out[w] /\ Writing(w)' = Writing(w)
      BY <1>1, <2>2, Zenon
    <3>3. Writing(w) /\ pass.out[w].plan = "StartKeyReplace" =>
            \A q \in Pool : \A h \in {label[q], tmpl[q], pod[q].rev} :
              pass.out[w].secret.next \notin KeysOf(Covers(h, w))
      BY <2>1, Zenon DEF Trusting
    <3> QED
      BY <3>1, <3>2, <3>3, Zenon
  <2>5. ASSUME NEW q \in Pool, pod'[q].up
        PROVE  /\ KeysOf(Covers(pod'[q].rev, w)) \cap KeysOf(Bundle(w)') \subseteq pod'[q].trust[w]
               /\ Bundle(w)'.signer.key \in pod'[q].trust[w]
               /\ Switching(w)' \/ (Converged(w)' /\ certSec'[w].phase # "Idle")
                    => KeysOf(Bundle(w)') \subseteq pod'[q].trust[w]
    <3>1. CASE pod'[q] = pod[q]
      BY <3>1, <2>5, <2>1, <2>2, <1>1, ZenonT(40) DEF Trusting
    <3>2. CASE pod'[q] # pod[q]
      <4>1. pod'[q].trust[w] = KeysOf(Bundle(w))
        BY <3>2, <2>5, <1>3, SMTT(30), Z3T(30)
      <4>2. Bundle(w).signer.key \in KeysOf(Bundle(w))
        BY Zenon DEF KeysOf, Blocks
      <4> QED
        BY <4>1, <4>2, <2>2, ZenonT(40)
    <3> QED
      BY <3>1, <3>2, Zenon
  <2> QED
    BY <2>3, <2>4, <2>5, Zenon DEF Trusting
<1>5. Dated'
  <2>1. Dated /\ StateTypes
    BY Zenon DEF Trust, Types
  <2>2. \A q \in Pool : /\ pod[q].leaf \in Nat /\ keystore[q] \in Nat
                        /\ pod[q].rev.leafs \in Leafs => pod[q].rev.leafs[q] \in Nat
                        /\ tmpl[q].leafs \in Leafs => tmpl[q].leafs[q] \in Nat
    BY Typed, Zenon
  <2>3. \/ pod'[p].rev = pod[p].rev /\ pod'[p].leaf = pod[p].leaf
        \/ pod'[p].rev = tmpl[p] /\ pod'[p].leaf = keystore[p]
    BY <2>1, SMTT(30), Z3T(30) DEF SyncPool, StopPod, StartPod, StateTypes, Pod
  <2> QED
    <3>1. /\ \A q \in Pool : /\ label[q].leafs \in Leafs /\ tmpl[q].leafs \in Leafs
                             /\ pod[q].rev.leafs \in Leafs
                             /\ label[q].leafs[q] <= keystore[q] /\ tmpl[q].leafs[q] <= keystore[q]
                             /\ pod[q].rev.leafs[q] <= pod[q].leaf /\ pod[q].leaf <= keystore[q]
          /\ pc = "adopt" => \A q \in Pool : pass.leafs \in Leafs /\ pass.leafs[q] <= keystore[q]
      BY <2>1, Zenon DEF Dated
    <3>2. keystore[p] <= keystore[p]
      BY <2>2, SMTT(30), Z3T(30)
    <3>3. /\ tmpl'[p].leafs \in Leafs /\ tmpl'[p].leafs[p] <= keystore[p]
          /\ pod'[p].rev.leafs \in Leafs /\ pod'[p].rev.leafs[p] <= pod'[p].leaf
          /\ pod'[p].leaf <= keystore[p]
      BY <3>1, <3>2, <2>3, <1>3, Zenon
    <3>4. \A q \in Pool : /\ tmpl'[q].leafs \in Leafs /\ tmpl'[q].leafs[q] <= keystore[q]
                          /\ pod'[q].rev.leafs \in Leafs /\ pod'[q].rev.leafs[q] <= pod'[q].leaf
                          /\ pod'[q].leaf <= keystore[q]
      BY <3>1, <3>3, <1>3, Zenon
    <3> QED
      BY <3>1, <3>4, <1>1, ZenonT(40) DEF Dated, Leafs
<1>6. ASSUME "Cluster" \in Cas PROVE PodLeafs'
  <2>1. PodLeafs /\ KeystoreLeafs
    BY <1>6, Zenon DEF Trust
  <2>2. /\ Switching("Cluster")' = Switching("Cluster") /\ Bundle("Cluster")' = Bundle("Cluster")
        /\ Converged("Cluster")' = Converged("Cluster")
        /\ Converged("Cluster") => ~Past("Cluster")
    <3>3. Past("Cluster")' = Past("Cluster")
      BY <1>1, Zenon DEF Past
    <3>1. Converged("Cluster")' = Converged("Cluster") /\ (Converged("Cluster") => ~Past("Cluster"))
      BY <3>3, <1>1, Zenon DEF Converged
    <3>2. Switching("Cluster")' = Switching("Cluster") /\ Bundle("Cluster")' = Bundle("Cluster")
      BY <1>1, Zenon DEF Switching, Past, Bundle
    <3> QED
      BY <3>1, <3>2, Zenon
  <2>3. ASSUME NEW q \in Pool, pod'[q].up
        PROVE  /\ InUse("Cluster", pod'[q].leaf)
               /\ certSec["Cluster"].phase = "Promote" /\ Converged("Cluster")
                    => pod'[q].leaf = keySec["Cluster"].key
    <3>1. CASE pod'[q] = pod[q]
      BY <3>1, <2>1, <2>3, Zenon DEF PodLeafs
    <3>2. CASE pod'[q] # pod[q]
      <4>1. pod'[q].leaf = keystore[q]
        BY <3>2, <2>3, <1>3, Zenon
      <4>2. /\ InUse("Cluster", keystore[q])
            /\ certSec["Cluster"].phase = "Promote" /\ ~Past("Cluster")
                 => keystore[q] = keySec["Cluster"].key
        BY <2>1, Zenon DEF KeystoreLeafs
      <4> QED
        BY <4>1, <4>2, <2>2, Zenon
    <3> QED
      BY <3>1, <3>2, Zenon
  <2> QED
    BY <2>2, <2>3, <1>1, Zenon DEF PodLeafs, InUse
<1> QED
  BY <1>2, <1>4, <1>5, <1>6, Zenon DEF Trust

\* A pass that finds the pools converged: every pod runs the one hash.
LEMMA ConvergedPods ==
  ASSUME Types, Begin, pass'.converged
  PROVE  \A p \in Pool : /\ pod[p].up /\ pod[p].rev = label[p]
                         /\ \A q \in Pool : label[q] = label[p]
<1> DEFINE rolled == [p \in Pool |-> IF pod[p].up THEN pod[p].rev ELSE NoHash]
<1>1. pools_converged(label, tmpl, rolled)
  BY Zenon DEF Begin
<1>3. \A p, q \in Pool : label[q] = label[p]
  BY <1>1, Zenon DEF pools_converged
<1>4. \A p \in Pool : label[p] # NoHash /\ rolled[p] = label[p]
  BY <1>1, Zenon DEF pools_converged
<1> QED
  BY <1>3, <1>4, Zenon

LEMMA TrustBegin ==
  ASSUME Types, Types', Books, Trust, Begin
  PROVE  Trust'
<1>1. /\ UNCHANGED <<keySec, certSec, keystore, operator, userLeaf, label, tmpl, pod, keys, cron, expired>>
      /\ pc = "idle" /\ pc' = "plan"
      /\ pass'.ca = IF Has("Cluster") THEN "Cluster" ELSE "Clients"
  BY Zenon DEF Begin, secretVars, poolVars, outsideVars
<1>2. \A w \in Cas : /\ ~Past(w) /\ ~Past(w)' /\ ~Writing(w)' /\ Bundle(w)' = Bundle(w)
                     /\ Switching(w)' = Switching(w)
                     /\ Converged(w)' => pass'.converged
  BY <1>1, CaAssumption, Zenon DEF Past, Writing, Switching, Converged, Signing, CaStep, Has, Bundle
<1>3. ASSUME pass'.converged
      PROVE  \A p \in Pool : /\ pod[p].up /\ 1 \in Pool
                             /\ \A w \in Cas : Covers(pod[p].rev, w) = Covers(label[1], w)
                             /\ pod[p].rev.leafs = label[1].leafs
  <2>1. \A p \in Pool : 1 \in Pool
    BY PoolsAssumption, SMTT(30), Z3T(30) DEF Pool
  <2> QED
    BY <1>3, <2>1, ConvergedPods, Zenon
<1>4. ASSUME NEW w \in Cas PROVE Trusting(w)'
  <2>1. Trusting(w)
    BY Zenon DEF Trust
  <2>2. ASSUME NEW p \in Pool, pod'[p].up, Converged(w)', certSec'[w].phase # "Idle"
        PROVE  KeysOf(Bundle(w)') \subseteq pod'[p].trust[w]
    <3>1. Covers(pod[p].rev, w) = Bundle(w)
      BY <2>1, <2>2, <1>1, <1>2, <1>3, ZenonT(40) DEF Trusting
    <3> QED
      BY <3>1, <2>1, <2>2, <1>1, <1>2, ZenonT(40) DEF Trusting
  <2> QED
    BY <2>1, <2>2, <1>1, <1>2, Zenon DEF Trusting
<1>5. Dated'
  BY <1>1, ZenonT(40) DEF Dated, Leafs, Trust
<1>6. UserLeafs'
  BY <1>1, <1>2, Zenon DEF UserLeafs, InUse, Trust
<1>7. ASSUME "Cluster" \in Cas
      PROVE  KeystoreLeafs' /\ PodLeafs' /\ OperatorLeafs' /\ CronLeafs'
  <2>1. KeystoreLeafs /\ PodLeafs /\ OperatorLeafs /\ CronLeafs /\ Dated
    BY <1>7, Zenon DEF Trust
  <2>2. KeystoreLeafs'
    BY <2>1, <1>1, <1>2, <1>7, ZenonT(40) DEF KeystoreLeafs, InUse
  <2>3. OperatorLeafs' /\ CronLeafs'
    BY <2>1, <1>1, <1>2, <1>7, Zenon DEF OperatorLeafs, CronLeafs, InUse, Signing
  <2>4. ASSUME NEW p \in Pool, pod[p].up, certSec["Cluster"].phase = "Promote", Converged("Cluster")'
        PROVE  pod[p].leaf = keySec["Cluster"].key
    <3>1. label[1].leafs[p] = keySec["Cluster"].key /\ pod[p].rev.leafs[p] = label[1].leafs[p]
      BY <2>1, <2>4, <1>2, <1>3, <1>7, ZenonT(40) DEF KeystoreLeafs
    <3>2. keystore[p] = keySec["Cluster"].key /\ pod[p].rev.leafs[p] <= pod[p].leaf /\ pod[p].leaf <= keystore[p]
      BY <2>1, <2>4, <1>2, <1>7, ZenonT(40) DEF KeystoreLeafs, Dated
    <3>3. pod[p].leaf \in Nat /\ keySec["Cluster"].key \in Nat
      BY <1>7, SMTT(30), Z3T(30) DEF Types, StateTypes, Pod, KeySecret
    <3> QED
      BY <3>1, <3>2, <3>3, SMTT(30), Z3T(30)
  <2>5. PodLeafs'
    BY <2>1, <2>4, <1>1, <1>2, <1>7, ZenonT(40) DEF PodLeafs, InUse
  <2> QED
    BY <2>2, <2>3, <2>5, Zenon
<1> QED
  BY <1>1, <1>4, <1>5, <1>6, <1>7, ZenonT(30) DEF Trust

\* Steps of a pass that leave the key Secrets, the bundles, the keystore and the pods alone.
LEMMA TrustMoves ==
  ASSUME Types, Trust, keys' \in Nat, keys' >= keys, pc' # "adopt",
         UNCHANGED <<keySec, keystore, label, tmpl, pod, cron, expired>>,
         \A w \in Cas : /\ certSec'[w].phase = certSec[w].phase /\ Bundle(w)' = Bundle(w)
                        /\ Switching(w)' = Switching(w)
                        /\ Past(w) => Past(w)' /\ pass'.out[w].plan = pass.out[w].plan
                        /\ Converged(w)' => Converged(w)
                        /\ Writing(w)' /\ pass'.out[w].plan = "StartKeyReplace" =>
                             \A p \in Pool : \A h \in {label[p], tmpl[p], pod[p].rev} :
                               pass'.out[w].secret.next \notin KeysOf(Covers(h, w)),
         UserLeafs', "Cluster" \in Cas => OperatorLeafs'
  PROVE  Trust'
<1>1. ASSUME NEW w \in Cas PROVE Trusting(w)'
  <2>1. Trusting(w)
    BY ZenonT(40) DEF Trust
  <2> QED
    BY <2>1, ZenonT(40) DEF Trusting
<1>2. Dated'
  <2>1. Leafs \subseteq Leafs'
    BY TypesGrow, ZenonT(40) DEF Types, StateTypes
  <2> QED
    BY <2>1, ZenonT(40) DEF Dated, Trust
<1>3. ASSUME "Cluster" \in Cas PROVE KeystoreLeafs' /\ PodLeafs' /\ CronLeafs'
  <2>1. KeystoreLeafs /\ PodLeafs /\ CronLeafs
    BY <1>3, ZenonT(40) DEF Trust
  <2>2. KeystoreLeafs'
    BY <2>1, <1>3, ZenonT(40) DEF KeystoreLeafs, InUse
  <2>3. PodLeafs' /\ CronLeafs'
    BY <2>1, <1>3, Zenon DEF PodLeafs, CronLeafs, InUse
  <2> QED
    BY <2>2, <2>3, ZenonT(40)
<1> QED
  BY <1>1, <1>2, <1>3, ZenonT(40) DEF Trust

\* A fresh key is in no hash.
LEMMA FreshKey ==
  ASSUME Types, NEW w \in Cas, NEW h \in HashT
  PROVE  keys + 1 \notin KeysOf(Covers(h, w))
<1>1. keys \in Nat /\ Covers(h, w) \in HashBundle
  BY Zenon DEF Types, StateTypes, HashT, Covers
<1>2. \A a \in Anchor : a.key # keys + 1
  BY <1>1, SMTT(30), Z3T(30) DEF Anchor
<1> QED
  BY <1>1, <1>2, Zenon DEF KeysOf, Blocks, HashBundle

LEMMA TrustPlanCa ==
  ASSUME Types, Types', Books, Trust, PlanCa
  PROVE  Trust'
<1> PICK w \in Cas, plan \in Plan : \E o, p : PlanStep(w, plan, o, p)
  BY PlanCaCases, Zenon
<1> PICK o, p : PlanStep(w, plan, o, p)
  BY Zenon
<1>1. /\ pc = "plan" /\ w = pass.ca /\ pass \in Pass
      /\ UNCHANGED <<keySec, certSec, keystore, operator, userLeaf, label, tmpl, pod, cron, expired>>
      /\ keys' = IF plan = "StartKeyReplace" THEN keys + 1 ELSE keys
      /\ p.ca = w /\ p.out[w] = o /\ p.converged = pass.converged
      /\ \A v \in Cas \ {w} : p.out[v] = pass.out[v]
  BY ZenonT(40) DEF PlanStep, secretVars, poolVars, outsideVars
<1>2. keys \in Nat /\ keys' \in Nat /\ keys' >= keys
  <2>1. keys \in Nat
    BY Zenon DEF Types, StateTypes
  <2>2. keys' = keys \/ keys' = keys + 1
    BY <1>1, Zenon
  <2> QED
    BY <2>1, <2>2, SMTT(30), Z3T(30)
<1>3. /\ o.plan = plan
      /\ plan = "StartKeyReplace" => o.secret.next = keys + 1
      /\ plan = "PromoteNewKey" => certSec[w].phase = "Trust"
  <2>1. plan = plan_ca_rotation(w, pass.force, pass.converged) /\ o = apply_ca_rotation(w, plan)
    BY Zenon DEF PlanStep
  <2>2. plan = "PromoteNewKey" => certSec[w].phase = "Trust"
    BY <2>1, ZenonT(60) DEF plan_ca_rotation
  <2>3. o.plan = plan
    BY <2>1, Zenon DEF apply_ca_rotation, promote, outcome, Plan
  <2>4. plan = "StartKeyReplace" => o.secret.next = keys + 1
    <3>1. [keySec[w] EXCEPT !.next = keys + 1].next = keys + 1
      BY SMTT(30), Z3T(30) DEF Types, StateTypes, KeySecret
    <3> QED
      BY <2>1, <3>1, ZenonT(40) DEF apply_ca_rotation, outcome
  <2> QED
    BY <2>2, <2>3, <2>4, Zenon
<1>4. \/ pass' = p /\ WritesCert(plan) /\ pc' = (IF WritesKey(w, plan) THEN "key" ELSE "cert")
      \/ /\ plan \in {"NoOp", "Refuse"} /\ NextCa(p)
         /\ pass'.out = p.out /\ pass'.converged = p.converged
  <2>1. plan = "PromoteNewKey" => keySec[w].next # 0
    BY <1>3, ZenonT(40) DEF Books, Agreement, Agree
  <2> QED
    BY <2>1, Zenon DEF PlanStep
<1>5. \A v \in Cas : pass'.out[v] = p.out[v] /\ pass'.converged = pass.converged
  BY <1>1, <1>4, ZenonT(40)
<1>6. \A v \in Cas : /\ Switching(v)' = Switching(v)
                     /\ Past(v) => Past(v)' /\ pass'.out[v].plan = pass.out[v].plan
                     /\ Converged(v)' => Converged(v)
                     /\ Writing(v)' => v = w
  <2> SUFFICES ASSUME NEW v \in Cas
               PROVE  /\ Switching(v)' = Switching(v)
                      /\ Past(v) => Past(v)' /\ pass'.out[v].plan = pass.out[v].plan
                      /\ Converged(v)' => Converged(v)
                      /\ Writing(v)' => v = w
    BY ZenonT(40)
  <2>1. pass'.out[v] = p.out[v] /\ pass'.converged = pass.converged
    BY <1>5, ZenonT(40)
  <2>2. CASE pass' = p /\ pc' = (IF WritesKey(w, plan) THEN "key" ELSE "cert")
    <3>1. pc' = "cert" => plan # "PromoteNewKey"
      BY <2>2, Zenon DEF WritesKey
    <3> QED
      BY <3>1, <2>1, <2>2, <1>1, <1>3, ZenonT(40) DEF Switching, Past, Converged, Writing, CaStep, Signing
  <2>3. CASE NextCa(p)
    BY <2>1, <2>3, <1>1, CaAssumption, Zenon DEF NextCa, Switching, Past, Converged, Writing, CaStep, Signing, Has
  <2> QED
    BY <2>2, <2>3, <1>4, ZenonT(40)
<1>7. UserLeafs'
  BY <1>1, <1>6, ZenonT(40) DEF UserLeafs, InUse, Bundle, Trust
<1>8. ASSUME "Cluster" \in Cas PROVE OperatorLeafs'
  <2>1. pc' \notin Signing
    BY <1>4, Zenon DEF NextCa, Signing
  <2> QED
    BY <2>1, <1>8, <1>1, <1>6, Zenon DEF OperatorLeafs, InUse, Bundle, Trust
<1>9. Writing(w)' /\ pass'.out[w].plan = "StartKeyReplace" =>
         \A q \in Pool : \A h \in {label[q], tmpl[q], pod[q].rev} :
           pass'.out[w].secret.next \notin KeysOf(Covers(h, w))
  <2>1. \A q \in Pool : label[q] \in HashT /\ tmpl[q] \in HashT /\ pod[q].rev \in HashT
    BY Zenon DEF Types, StateTypes, Pod
  <2> QED
    BY <2>1, <1>1, <1>3, <1>5, FreshKey, ZenonT(40)
<1>10. pc' # "adopt"
  BY <1>4, Zenon DEF NextCa
<1> QED
  BY <1>1, <1>2, <1>6, <1>7, <1>8, <1>9, <1>10, TrustMoves, Zenon DEF Bundle

LEMMA TrustUsers ==
  ASSUME Types, Types', Books, Trust, IssueOperator \/ (\E u \in User : SyncUser(u)) \/ MarkLeafs \/ Strip
  PROVE  Trust'
<1>1. /\ UNCHANGED <<keySec, keystore, label, tmpl, pod, keys, cron, expired>>
      /\ pc \in {"operator", "users", "strip"} /\ pc' \in {"users", "strip", "listeners"}
      /\ IssueOperator \/ UNCHANGED operator
      /\ UNCHANGED userLeaf \/ \E u \in User : SyncUser(u)
  BY ZenonT(40) DEF IssueOperator, SyncUser, MarkLeafs, Strip, secretVars, poolVars, outsideVars
<1>2. pass \in Pass /\ keys \in Nat
  BY <1>1, Zenon DEF Types, PassTypes, StateTypes
<1>3. pass'.out = pass.out
  BY <1>2, ZenonT(60) DEF IssueOperator, SyncUser, MarkLeafs, Strip, Pass
<1>4. \A w \in Cas : certSec'[w].phase = certSec[w].phase /\ certSec'[w].bundle = certSec[w].bundle
  <2>1. certSec \in [Cas -> CertSecret]
    BY Zenon DEF Types, StateTypes
  <2>2. \/ UNCHANGED certSec
        \/ certSec' = [certSec EXCEPT !["Clients"].leafs = pass.out["Clients"].secret.gen]
    BY ZenonT(30) DEF IssueOperator, SyncUser, MarkLeafs, Strip, secretVars
  <2>3. ASSUME certSec' = [certSec EXCEPT !["Clients"].leafs = pass.out["Clients"].secret.gen], NEW w \in Cas
        PROVE  certSec'[w].phase = certSec[w].phase /\ certSec'[w].bundle = certSec[w].bundle
    BY <2>1, <2>3, SMTT(30), Z3T(30) DEF CertSecret
  <2> QED
    BY <2>2, <2>3, Zenon
<1>5. \A w \in Cas : /\ Bundle(w)' = Bundle(w)
                     /\ Switching(w)' = Switching(w) /\ Past(w) /\ Past(w)'
                     /\ ~Converged(w)' /\ ~Writing(w)'
                     /\ Switching(w) <=> certSec[w].phase = "Promote"
  BY <1>1, <1>4, ZenonT(40) DEF Bundle, Switching, Past, Converged, Writing, CaStep, Signing
<1>6. \A w \in Cas : /\ pass.out[w].secret = keySec[w] /\ pass.out[w].bundle = Bundle(w)
                     /\ keySec[w].key = Bundle(w).signer.key
  <2> SUFFICES ASSUME NEW w \in Cas
               PROVE  /\ pass.out[w].secret = keySec[w] /\ pass.out[w].bundle = Bundle(w)
                      /\ keySec[w].key = Bundle(w).signer.key
    BY Zenon
  <2>1. Remembered(w, pass.out[w], keySec[w], certSec[w]) /\ Agree(w, keySec[w], certSec[w]) /\ Trusting(w)
    BY <1>5, Zenon DEF Books, Memory, Agreement, Trust
  <2> QED
    BY <2>1, <1>5, Zenon DEF Remembered, Agree, Trusting, Bundle
<1>7. UserLeafs'
  <2>1. CASE UNCHANGED userLeaf
    BY <2>1, <1>5, ZenonT(40) DEF UserLeafs, InUse, Trust
  <2>2. CASE \E u \in User : SyncUser(u)
    <3> PICK u \in User : SyncUser(u)
      BY <2>2, ZenonT(30)
    <3>1. "Clients" \in Cas
      BY Zenon DEF SyncUser, Types, PassTypes
    <3>2. userLeaf'[u] = Bundle("Clients").signer.key /\ \A v \in User \ {u} : userLeaf'[v] = userLeaf[v]
      BY <3>1, <1>6, ZenonT(40) DEF SyncUser, Types, StateTypes
    <3>3. \A v \in User : InUse("Clients", userLeaf'[v])
      BY <3>1, <3>2, KeyInUse, Zenon DEF UserLeafs, Trust
    <3> QED
      BY <3>1, <3>3, <1>5, Zenon DEF UserLeafs, InUse
  <2> QED
    BY <2>1, <2>2, <1>1, Zenon
<1>8. ASSUME "Cluster" \in Cas PROVE OperatorLeafs'
  <2>1. CASE IssueOperator
    <3>1. operator' = [leaf |-> Bundle("Cluster").signer.key, trust |-> KeysOf(Bundle("Cluster"))]
      BY <2>1, <1>6, <1>8, Zenon DEF IssueOperator, Has
    <3>2. Bundle("Cluster").signer.key \in KeysOf(Bundle("Cluster"))
      BY Zenon DEF KeysOf, Blocks
    <3> QED
      BY <3>1, <3>2, <1>5, <1>8, Zenon DEF OperatorLeafs, InUse
  <2>2. CASE UNCHANGED operator /\ ~IssueOperator
    <3>1. pc \in Signing
      BY <2>2, Zenon DEF SyncUser, MarkLeafs, Strip, Signing
    <3> QED
      BY <3>1, <2>2, <1>5, <1>8, Zenon DEF OperatorLeafs, InUse, Trust
  <2> QED
    BY <2>1, <2>2, <1>1, Zenon
<1> QED
  <2>1. keys' \in Nat /\ keys' >= keys /\ pc' # "adopt"
    BY <1>1, <1>2, SMTT(30), Z3T(30)
  <2>2. \A w \in Cas : /\ certSec'[w].phase = certSec[w].phase /\ Bundle(w)' = Bundle(w)
                       /\ Switching(w)' = Switching(w)
                       /\ Past(w) => Past(w)' /\ pass'.out[w].plan = pass.out[w].plan
                       /\ Converged(w)' => Converged(w)
                       /\ ~Writing(w)'
    BY <1>3, <1>4, <1>5, ZenonT(40)
  <2>3. UNCHANGED <<keySec, keystore, label, tmpl, pod, cron, expired>>
    BY <1>1, Zenon
  <2> QED
    BY <2>1, <2>2, <2>3, <1>7, <1>8, TrustMoves, ZenonT(40)

\* Whatever leafs are in use, the bundle has an anchor for them.
LEMMA InUseAnchored ==
  ASSUME NEW w, NEW k, InUse(w, k) PROVE k \in KeysOf(Bundle(w))
BY Zenon DEF InUse, KeysOf, Blocks

\* The first write of a promotion: the new key signs from now on.
LEMMA TrustPatchKey ==
  ASSUME Types, Types', Books, Trust, PatchKey
  PROVE  Trust'
<1> PICK w \in Cas : w = pass.ca
  BY Zenon DEF PatchKey, Types, PassTypes, Pass
<1>0. PICK o, k, c : o = pass.out[w] /\ k = keySec[w] /\ c = certSec[w]
  BY Zenon
<1>1. /\ pc = "key" /\ pc' = "cert" /\ pass' = pass /\ pass.ca = w
      /\ UNCHANGED <<certSec, keystore, operator, userLeaf, label, tmpl, pod, keys, cron, expired>>
      /\ keySec'[w] = o.secret /\ \A v \in Cas \ {w} : keySec'[v] = keySec[v]
  BY <1>0, ZenonT(40) DEF PatchKey, Types, StateTypes, outsideVars, poolVars
<1>2. Planned(w, o, k, c) /\ Agree(w, k, c) /\ Trusting(w)
  BY <1>0, <1>1, ZenonT(40) DEF Books, Plans, Agreement, Writing, Trust
<1>3. /\ k.key \in Nat /\ k.next \in Nat /\ o.secret.key \in Nat
      /\ o.plan = "PromoteNewKey" <=> c.phase = "Trust"
      /\ o.plan = "PromoteNewKey" => pass.converged /\ k.key <= k.next
      /\ o.secret.key = IF o.plan = "PromoteNewKey" THEN k.next ELSE k.key
  <2>1. k \in KeySecret
    BY <1>0, Zenon DEF Types, StateTypes
  <2>2. k.key \in Nat /\ k.next \in Nat
    BY <2>1, SMTT(30), Z3T(30) DEF KeySecret
  <2> QED
    BY <2>2, <1>1, <1>2, ZenonT(40) DEF Planned, Agree
<1>4. \A v \in Cas : /\ Past(v)' = Past(v) /\ Converged(v)' = Converged(v) /\ Writing(v)' = Writing(v)
                     /\ Bundle(v)' = Bundle(v)
                     /\ Switching(v)' <=> Switching(v) \/ (v = w /\ o.plan = "PromoteNewKey")
                     /\ Switching(v) <=> certSec[v].phase = "Promote"
  BY <1>0, <1>1, ZenonT(40) DEF Past, Converged, Writing, Bundle, Switching, CaStep, Signing
<1>5. ~Past(w) /\ (o.plan = "PromoteNewKey" => Converged(w))
  BY <1>1, <1>3, Zenon DEF Past, Converged, CaStep, Signing
<1>6. \A v \in Cas : \A l : InUse(v, l) => IF Switching(v)' THEN l \in KeysOf(Bundle(v)) ELSE l = Bundle(v).signer.key
  BY <1>4, InUseAnchored, ZenonT(40) DEF InUse
<1>7. ASSUME NEW v \in Cas PROVE Trusting(v)'
  <2>1. Trusting(v)
    BY Zenon DEF Trust
  <2>2. certSec[v].phase = "Trust" /\ keySec'[v].key = keySec'[v].next => Switching(v)'
    BY <2>1, <1>0, <1>1, <1>3, <1>4, ZenonT(40) DEF Trusting
  <2>3. ASSUME NEW p \in Pool, pod[p].up, Switching(v)'
        PROVE  KeysOf(Bundle(v)) \subseteq pod[p].trust[v]
    BY <2>1, <2>3, <1>0, <1>3, <1>4, <1>5, ZenonT(40) DEF Trusting
  <2> QED
    BY <2>1, <2>2, <2>3, <1>1, <1>4, Zenon DEF Trusting
<1>8. Dated'
  BY <1>1, ZenonT(40) DEF Dated, Leafs, Trust
<1>9. UserLeafs'
  BY <1>1, <1>4, <1>6, Zenon DEF UserLeafs, InUse, Trust
<1>10. ASSUME "Cluster" \in Cas
       PROVE  KeystoreLeafs' /\ PodLeafs' /\ OperatorLeafs' /\ CronLeafs'
  <2> DEFINE key == keySec["Cluster"].key
  <2>1. KeystoreLeafs /\ PodLeafs /\ OperatorLeafs /\ CronLeafs
    BY <1>10, Zenon DEF Trust
  <2>2. /\ key \in Nat /\ key <= key' /\ key' \in Nat
        /\ certSec["Cluster"].phase = "Promote" => key' = key
        /\ key' # key => w = "Cluster" /\ o.plan = "PromoteNewKey" /\ ~Switching("Cluster")
    <3>1. key \in Nat
      BY <1>10, Typed, Zenon
    <3> QED
      <4>1. CASE w = "Cluster"
        <5>1. key = k.key /\ key' = o.secret.key /\ certSec["Cluster"] = c
          BY <4>1, <1>0, <1>1, Zenon
        <5>2. Switching("Cluster") <=> c.phase = "Promote"
          BY <5>1, <1>4, <1>10, Zenon
        <5>3. c.phase = "Trust" => c.phase # "Promote"
          BY Zenon
        <5> HIDE DEF key
        <5>4. k.key \in Nat => k.key <= k.key
          BY SMTT(30), Z3T(30)
        <5> QED
          BY <4>1, <5>1, <5>2, <5>3, <5>4, <1>3, Zenon
      <4>2. CASE w # "Cluster"
        <5>1. key' = key
          BY <4>2, <1>1, <1>10, Zenon
        <5> HIDE DEF key
        <5>2. key <= key
          BY <3>1, SMTT(30), Z3T(30)
        <5> QED
          BY <3>1, <5>1, <5>2, Zenon
      <4> QED
        BY <4>1, <4>2, Zenon
  <2>3. \A p \in Pool : keystore[p] \in Nat
    BY SMTT(30), Z3T(30) DEF Types, StateTypes, Leafs
  <2>4. KeystoreLeafs'
    <3>1. \A p \in Pool : InUse("Cluster", keystore[p])'
      BY <2>1, <1>1, <1>4, <1>6, <1>10, ZenonT(40) DEF InUse, KeystoreLeafs
    <3>2. \A p \in Pool : keystore[p] <= key'
      <4>1. \A i, j, n \in Nat : i <= j /\ j <= n => i <= n
        BY SMTT(30), Z3T(30)
      <4>2. \A p \in Pool : keystore[p] <= key
        BY <2>1, Zenon DEF KeystoreLeafs
      <4> HIDE DEF key
      <4> QED
        BY <4>1, <4>2, <2>2, <2>3, Zenon
    <3> QED
      BY <3>1, <3>2, <2>1, <2>2, <1>1, <1>4, <1>10, ZenonT(40) DEF KeystoreLeafs
  <2>5. PodLeafs'
    <3>1. \A p \in Pool : pod[p].up => InUse("Cluster", pod[p].leaf)'
      BY <2>1, <1>1, <1>4, <1>6, <1>10, ZenonT(40) DEF InUse, PodLeafs
    <3> QED
      BY <3>1, <2>1, <2>2, <1>1, <1>4, <1>10, ZenonT(40) DEF PodLeafs
  <2>6. OperatorLeafs'
    <3>1. InUse("Cluster", operator.leaf)'
      BY <2>1, <1>1, <1>4, <1>6, <1>10, ZenonT(40) DEF InUse, OperatorLeafs
    <3>2. pc' \notin Signing
      BY <1>1, ZenonT(60) DEF Signing
    <3>3. Switching("Cluster")' => KeysOf(Bundle("Cluster")) \subseteq operator.trust
      <4>1. CASE Switching("Cluster")
        BY <4>1, <2>1, Zenon DEF OperatorLeafs
      <4>2. CASE w = "Cluster"
        <5>1. operator = [leaf |-> Bundle("Cluster").signer.key, trust |-> KeysOf(Bundle("Cluster"))]
          BY <4>2, <1>5, <2>1, Zenon DEF OperatorLeafs
        <5> DEFINE x == Bundle("Cluster").signer.key
                   y == KeysOf(Bundle("Cluster"))
        <5> HIDE DEF x, y
        <5>2. operator = [leaf |-> x, trust |-> y]
          BY <5>1, Zenon DEF x, y
        <5>3. operator.trust = y
          BY <5>2, Zenon
        <5> QED
          BY <5>3, Zenon DEF y
      <4> QED
        BY <4>1, <4>2, <1>4, <1>10, Zenon
    <3> QED
      BY <3>1, <3>2, <3>3, <2>1, <1>1, <1>4, <1>10, ZenonT(40) DEF OperatorLeafs
  <2>7. CronLeafs'
    <3>1. key # key' => \A p \in Pool : keystore[p] = key
      <4>1. ~Switching("Cluster") => key = Bundle("Cluster").signer.key
        BY <1>10, KeyInUse, Zenon DEF InUse
      <4> QED
        BY <4>1, <2>1, <2>2, ZenonT(40) DEF KeystoreLeafs, InUse
    <3>2. cron.at # "off" => cron.key \in Nat
      BY SMTT(30), Z3T(30) DEF Types, CronTypes, NoCron
    <3>3. \A i, j, n \in Nat : i <= j /\ j <= n => i <= n
      BY SMTT(30), Z3T(30)
    <3>4. ASSUME cron.at # "off" PROVE cron.key <= key'
      <4>1. cron.key <= key
        BY <3>4, <2>1, Zenon DEF CronLeafs
      <4> HIDE DEF key
      <4> QED
        BY <4>1, <3>2, <3>3, <3>4, <2>2, Zenon
    <3>5. ASSUME cron.at # "off", NEW p \in Pool, keystore[p] = cron.old[p]
          PROVE  cron.key \in {keystore[p], key'}
      <4>1. cron.key \in {keystore[p], key}
        BY <3>5, <2>1, Zenon DEF CronLeafs
      <4> HIDE DEF key
      <4> QED
        BY <4>1, <3>1, Zenon
    <3> QED
      BY <3>4, <3>5, <2>1, <1>1, Zenon DEF CronLeafs
  <2> QED
    BY <2>4, <2>5, <2>6, <2>7, ZenonT(60)
<1> QED
  BY <1>1, <1>7, <1>8, <1>9, <1>10, ZenonT(40) DEF Trust

\* What the write of the cert Secret does to the bundle: it adds a key that no hash
\* covers and keeps the signer, or it switches to the new signer, or it prunes to the
\* signer once everybody has a leaf of it.
LEMMA PatchedBundle ==
  ASSUME Types, Books, Trust, PatchCert, NEW w \in Cas, w = pass.ca
  PROVE  /\ ~Past(w)
         /\ Bundle(w).signer.key \in KeysOf(Bundle(w))
         /\ certSec'[w].phase = "Trust" => keySec[w].key # keySec[w].next
         /\ \/ /\ ~Switching(w) /\ certSec'[w].phase # "Promote"
               /\ Bundle(w)'.signer.key = Bundle(w).signer.key
               /\ KeysOf(Bundle(w)) \subseteq KeysOf(Bundle(w)')
               /\ \A p \in Pool : KeysOf(Covers(pod[p].rev, w)) \cap KeysOf(Bundle(w)')
                                    \subseteq KeysOf(Bundle(w))
            \/ /\ Switching(w) /\ certSec'[w].phase = "Promote" /\ pass.out[w].plan = "PromoteNewKey"
               /\ KeysOf(Bundle(w)') = KeysOf(Bundle(w))
               /\ Bundle(w)'.signer.key \in KeysOf(Bundle(w))
            \/ /\ certSec[w].phase = "Promote" /\ certSec'[w].phase = "Idle" /\ Converged(w)
               /\ Bundle(w)'.signer.key = Bundle(w).signer.key
               /\ KeysOf(Bundle(w)') = {Bundle(w).signer.key}
               /\ keySec[w].key = Bundle(w).signer.key
               /\ w = "Clients" => certSec[w].leafs = keySec[w].gen
<1>0. PICK o, k, c, d : o = pass.out[w] /\ k = keySec[w] /\ c = certSec[w] /\ d = certSec'[w]
  BY Zenon
<1>1. pc = "cert" /\ c \in CertSecret /\ d.bundle = o.bundle /\ d.phase = o.phase
  BY <1>0, ZenonT(60) DEF PatchCert, Types, StateTypes, CertSecret
<1>2. Planned(w, o, k, c) /\ Agree(w, k, c) /\ Trusting(w) /\ k = o.secret /\ expired = {}
  <2>1. Planned(w, o, k, c) /\ Agree(w, k, c) /\ Trusting(w) /\ expired = {}
    BY <1>0, <1>1, ZenonT(40) DEF Books, Plans, Agreement, Writing, Trust
  <2> QED
    BY <2>1, <1>1, ZenonT(40) DEF Planned
<1>3. k.key \in Nat /\ k.next \in Nat
  BY <1>0, SMTT(30), Z3T(30) DEF Types, StateTypes, KeySecret
<1>4. ~Past(w) /\ (pass.converged => Converged(w))
  BY <1>1, Zenon DEF Past, Converged, CaStep, Signing
<1>5. /\ c.bundle.signer.key \in KeysOf(c.bundle)
      /\ Bundle(w) = c.bundle /\ Bundle(w)' = o.bundle
  BY <1>0, <1>1, Zenon DEF KeysOf, Blocks, Bundle
<1>6. Switching(w) <=> c.phase = "Promote" \/ o.plan = "PromoteNewKey"
  BY <1>0, <1>1, Zenon DEF Switching
<1>7. CASE o.plan = "RenewCertSameKey"
  <2>1. c.phase = "Idle" /\ o.phase = "Idle" /\ o.bundle.signer.key = k.key
        /\ KeysOf(o.bundle) = KeysOf(c.bundle) \cup {k.key} /\ k.key = c.bundle.signer.key
    BY <1>7, <1>2, ZenonT(40) DEF Planned, Agree
  <2> QED
    BY <2>1, <1>0, <1>1, <1>4, <1>5, <1>6, <1>7, ZenonT(40)
<1>8. CASE o.plan = "StartKeyReplace"
  <2>1. c.phase = "Idle" /\ o.phase = "Trust" /\ o.bundle.signer = c.bundle.signer
        /\ KeysOf(o.bundle) = KeysOf(c.bundle) \cup {k.next} /\ k.next > k.key
    BY <1>8, <1>2, ZenonT(40) DEF Planned
  <2>2. \A p \in Pool : k.next \notin KeysOf(Covers(pod[p].rev, w))
    BY <1>0, <1>1, <1>2, <1>8, ZenonT(40) DEF Trusting, Writing
  <2>3. k.key # k.next /\ KeysOf(c.bundle) \subseteq KeysOf(o.bundle)
    BY <2>1, <1>3, SMTT(30), Z3T(30)
  <2>4. \A p \in Pool : KeysOf(Covers(pod[p].rev, w)) \cap KeysOf(o.bundle) \subseteq KeysOf(c.bundle)
    BY <2>1, <2>2, ZenonT(40)
  <2>5. ~Switching(w) /\ o.bundle.signer.key = c.bundle.signer.key /\ o.phase # "Promote"
    BY <2>1, <1>6, <1>8, ZenonT(60)
  <2> QED
    BY <2>3, <2>4, <2>5, <1>0, <1>1, <1>4, <1>5, ZenonT(40)
<1>9. CASE o.plan = "PromoteNewKey"
  <2>1. c.phase = "Trust" /\ o.phase = "Promote" /\ o.bundle.signer.key = k.next
        /\ KeysOf(o.bundle) = KeysOf(c.bundle) /\ k.next \in KeysOf(c.bundle)
    BY <1>9, <1>2, ZenonT(40) DEF Planned, Agree
  <2> QED
    BY <2>1, <1>0, <1>1, <1>4, <1>5, <1>6, <1>9, ZenonT(40)
<1>10. CASE o.plan = "PruneOldTrust"
  <2>1. c.phase = "Promote" /\ o.phase = "Idle" /\ pass.converged
        /\ o.bundle.signer = c.bundle.signer /\ KeysOf(o.bundle) = {c.bundle.signer.key}
        /\ k.key = c.bundle.signer.key /\ (w = "Clients" => c.leafs = k.gen)
    BY <1>10, <1>2, ZenonT(40) DEF Planned, Agree
  <2> QED
    BY <2>1, <1>0, <1>1, <1>4, <1>5, ZenonT(40)
<1> QED
  BY <1>2, <1>7, <1>8, <1>9, <1>10, ZenonT(40) DEF Planned

LEMMA TrustPatchCert ==
  ASSUME Types, Types', Books, Trust, PatchCert
  PROVE  Trust'
<1> PICK w \in Cas : w = pass.ca
  BY Zenon DEF PatchCert, Types, PassTypes, Pass
<1>1. /\ pc = "cert" /\ pc' \in {"plan", "operator"} /\ pass \in Pass
      /\ UNCHANGED <<keySec, keystore, operator, userLeaf, label, tmpl, pod, keys, cron, expired>>
      /\ \A v \in Cas \ {w} : certSec'[v] = certSec[v]
  BY ZenonT(60) DEF PatchCert, NextCa, Types, StateTypes, PassTypes, outsideVars, poolVars
<1>2. pass'.out = pass.out /\ pass'.converged = pass.converged
  BY <1>1, Zenon DEF PatchCert, NextCa, Pass
<1>3. /\ Past(w)'
      /\ \A v \in Cas : /\ Past(v) => Past(v)'
                        /\ Past(v)' => v = w \/ Past(v)
                        /\ ~Writing(v)' /\ (Converged(v)' => Converged(v) /\ v # w)
                        /\ Switching(v)' <=> certSec'[v].phase = "Promote"
  <2>1. NextCa(pass)
    BY Zenon DEF PatchCert
  <2>2. CASE pc' = "plan" /\ w = "Cluster" /\ pass'.ca = "Clients"
    BY <2>2, <1>1, <1>2, CaAssumption, Zenon DEF Past, Writing, Converged, Switching, CaStep, Signing
  <2>3. CASE pc' = "operator" /\ (w = "Clients" \/ "Clients" \notin Cas)
    BY <2>3, <1>1, <1>2, CaAssumption, Zenon DEF Past, Writing, Converged, Switching, CaStep, Signing
  <2>4. pass.ca = "Cluster" => [pass EXCEPT !.ca = "Clients"].ca = "Clients"
    BY <1>1, Zenon DEF Pass
  <2> QED
    BY <2>1, <2>2, <2>3, <2>4, CaAssumption, ZenonT(40) DEF NextCa, Has
<1>4. \A v \in Cas \ {w} : Bundle(v)' = Bundle(v) /\ Switching(v)' = Switching(v)
  BY <1>1, <1>3, Zenon DEF Bundle, Switching
<1>5. PICK b, e : b = Bundle(w) /\ e = Bundle(w)'
  BY Zenon
<1>6. Trusting(w)'
  <2>1. Trusting(w)
    BY Zenon DEF Trust
  <2>2. ASSUME NEW p \in Pool, pod[p].up
        PROVE  /\ KeysOf(Covers(pod[p].rev, w)) \cap KeysOf(e) \subseteq pod[p].trust[w]
               /\ e.signer.key \in pod[p].trust[w]
               /\ certSec'[w].phase = "Promote" => KeysOf(e) \subseteq pod[p].trust[w]
    <3>1. /\ KeysOf(Covers(pod[p].rev, w)) \cap KeysOf(b) \subseteq pod[p].trust[w]
          /\ b.signer.key \in pod[p].trust[w]
          /\ Switching(w) => KeysOf(b) \subseteq pod[p].trust[w]
      BY <2>1, <2>2, <1>5, Zenon DEF Trusting
    <3> QED
      <4> DEFINE c == Covers(pod[p].rev, w)
                 t == pod[p].trust[w]
      <4> HIDE DEF c, t
      <4>1. b.signer.key \in KeysOf(b)
        BY <1>5, PatchedBundle, Zenon
      <4>2. \/ /\ certSec'[w].phase # "Promote" /\ e.signer.key = b.signer.key
               /\ KeysOf(c) \cap KeysOf(e) \subseteq KeysOf(b)
            \/ /\ Switching(w) /\ KeysOf(e) = KeysOf(b) /\ e.signer.key \in KeysOf(b)
            \/ /\ certSec'[w].phase = "Idle" /\ e.signer.key = b.signer.key
               /\ KeysOf(e) = {b.signer.key}
        BY <1>5, PatchedBundle, Zenon DEF c
      <4>3. KeysOf(c) \cap KeysOf(b) \subseteq t /\ b.signer.key \in t /\ (Switching(w) => KeysOf(b) \subseteq t)
        BY <3>1, Zenon DEF c, t
      <4>4. /\ KeysOf(c) \cap KeysOf(e) \subseteq t /\ e.signer.key \in t
            /\ certSec'[w].phase = "Promote" => KeysOf(e) \subseteq t
        BY <4>2, <4>3, ZenonT(40)
      <4> QED
        BY <4>4, Zenon DEF c, t
  <2>3. certSec'[w].phase = "Trust" => keySec[w].key # keySec[w].next
    BY PatchedBundle, ZenonT(40)
  <2> QED
    BY <2>2, <2>3, <1>1, <1>3, <1>5, Zenon DEF Trusting
<1>7. ASSUME NEW v \in Cas \ {w} PROVE Trusting(v)'
  <2>1. Trusting(v)
    BY Zenon DEF Trust
  <2> QED
    BY <2>1, <1>1, <1>3, <1>4, Zenon DEF Trusting
<1>8. Dated'
  BY <1>1, ZenonT(40) DEF Dated, Leafs, Trust
<1> DEFINE pruned == certSec[w].phase = "Promote" /\ certSec'[w].phase = "Idle"
<1>11. ASSUME NEW l, InUse(w, l), pruned => l = b.signer.key
       PROVE  IF certSec'[w].phase = "Promote" THEN l \in KeysOf(e) ELSE l = e.signer.key
  BY <1>11, <1>5, PatchedBundle, ZenonT(40) DEF InUse
<1>12. pruned => /\ keySec[w].key = b.signer.key /\ Converged(w) /\ ~Past(w)
                 /\ w = "Clients" => certSec[w].leafs = keySec[w].gen
  <2>1. certSec[w].phase = "Promote" => Switching(w)
    BY Zenon DEF Switching
  <2> QED
    BY <2>1, <1>5, PatchedBundle, Zenon
<1>9. UserLeafs'
  <2>1. CASE w = "Clients"
    <3>1. pruned => \A u \in User : userLeaf[u] = b.signer.key
      BY <2>1, <1>12, ZenonT(60) DEF Books, Marked
    <3>2. \A u \in User : IF certSec'[w].phase = "Promote" THEN userLeaf[u] \in KeysOf(e)
                                                            ELSE userLeaf[u] = e.signer.key
      BY <3>1, <2>1, <1>11, ZenonT(40) DEF UserLeafs, Trust
    <3> QED
      BY <3>2, <2>1, <1>1, <1>3, <1>5, ZenonT(40) DEF UserLeafs, InUse
  <2>2. CASE w # "Clients"
    BY <2>2, <1>1, <1>4, Zenon DEF UserLeafs, InUse, Trust
  <2> QED
    BY <2>1, <2>2, Zenon
<1>10. ASSUME "Cluster" \in Cas
       PROVE  KeystoreLeafs' /\ PodLeafs' /\ OperatorLeafs' /\ CronLeafs'
  <2>1. KeystoreLeafs /\ PodLeafs /\ OperatorLeafs /\ CronLeafs
    BY <1>10, Zenon DEF Trust
  <2>2. CronLeafs' /\ pc' # "adopt" /\ pc' \notin Signing
    BY <2>1, <1>1, FrameCronLeafs, Zenon DEF Signing
  <2>3. CASE w # "Cluster"
    <3>1. /\ Past("Cluster") /\ Past("Cluster")' /\ certSec'["Cluster"] = certSec["Cluster"]
          /\ Bundle("Cluster")' = Bundle("Cluster") /\ Switching("Cluster")' = Switching("Cluster")
          /\ pass'.out["Cluster"] = pass.out["Cluster"] /\ ~Converged("Cluster")'
      BY <2>3, <1>1, <1>2, <1>3, <1>4, <1>10, CaAssumption, ZenonT(60) DEF Past, CaStep, Converged
    <3> QED
      BY <3>1, <2>1, <2>2, <1>1, ZenonT(40) DEF KeystoreLeafs, PodLeafs, OperatorLeafs, InUse
  <2>4. CASE w = "Cluster"
    <3>1. \A p \in Pool : pruned => keystore[p] = b.signer.key /\ (pod[p].up => pod[p].leaf = b.signer.key)
      BY <2>1, <2>4, <1>12, ZenonT(40) DEF KeystoreLeafs, PodLeafs
    <3>2. operator = [leaf |-> b.signer.key, trust |-> KeysOf(b)]
      BY <2>1, <2>4, <1>5, PatchedBundle, ZenonT(40) DEF OperatorLeafs
    <3>3. certSec'[w].phase = "Promote" => pass'.out[w].plan = "PromoteNewKey"
      BY <1>2, PatchedBundle, ZenonT(40)
    <3>4. /\ Past(w)' /\ ~Converged(w)' /\ e = Bundle(w)'
          /\ Switching(w)' <=> certSec'[w].phase = "Promote"
      BY <1>3, <1>5, ZenonT(40)
    <3>5. KeystoreLeafs'
      <4>1. \A p \in Pool : InUse(w, keystore[p]) /\ keystore[p] <= keySec[w].key
        BY <2>1, <2>4, ZenonT(40) DEF KeystoreLeafs
      <4>2. \A p \in Pool : InUse(w, keystore[p])'
        BY <4>1, <3>1, <3>4, <1>1, <1>11, ZenonT(40) DEF InUse
      <4> QED
        BY <4>1, <4>2, <3>3, <3>4, <2>2, <2>4, <1>1, Zenon DEF KeystoreLeafs
    <3>6. PodLeafs'
      <4>1. \A p \in Pool : pod[p].up => InUse(w, pod[p].leaf)
        BY <2>1, <2>4, Zenon DEF PodLeafs
      <4>2. \A p \in Pool : pod[p].up => InUse(w, pod[p].leaf)'
        BY <4>1, <3>1, <3>4, <1>1, <1>11, ZenonT(40) DEF InUse
      <4> QED
        BY <4>2, <3>4, <2>4, <1>1, ZenonT(40) DEF PodLeafs
    <3>7. OperatorLeafs'
      <4>1. InUse(w, operator.leaf)'
        BY <3>2, <3>4, <2>1, <2>4, <1>1, <1>11, ZenonT(40) DEF InUse, OperatorLeafs
      <4>2. e.signer.key \in KeysOf(b) /\ (certSec'[w].phase = "Promote" => KeysOf(e) = KeysOf(b))
        BY <1>5, PatchedBundle, ZenonT(40)
      <4> QED
        BY <4>1, <4>2, <3>2, <3>4, <2>2, <2>4, <1>1, ZenonT(40) DEF OperatorLeafs
    <3> QED
      BY <3>5, <3>6, <3>7, <2>2, ZenonT(60)
  <2> QED
    BY <2>3, <2>4, ZenonT(60)
<1> QED
  BY <1>1, <1>6, <1>7, <1>8, <1>9, <1>10, Zenon DEF Trust

\* A pass that has left the CAs behind: what it remembers is what the Secrets hold.
LEMMA PastCas ==
  ASSUME Books, Trust, pc \in {"operator"} \cup Signing, NEW w \in Cas
  PROVE  /\ Past(w) /\ ~Converged(w) /\ ~Writing(w) /\ (Switching(w) <=> certSec[w].phase = "Promote")
         /\ pass.out[w].secret = keySec[w] /\ pass.out[w].bundle = Bundle(w)
         /\ pass.out[w].phase = certSec[w].phase
         /\ w = "Cluster" => (pass.out[w].reissue <=> pass.out[w].plan = "PromoteNewKey")
         /\ keySec[w].key = Bundle(w).signer.key
<1>1. Past(w) /\ ~Converged(w) /\ ~Writing(w) /\ (Switching(w) <=> certSec[w].phase = "Promote")
  BY Zenon DEF Past, Converged, Writing, Switching, CaStep, Signing
<1>2. Remembered(w, pass.out[w], keySec[w], certSec[w]) /\ Agree(w, keySec[w], certSec[w]) /\ Trusting(w)
  BY <1>1, Zenon DEF Books, Memory, Agreement, Trust
<1> QED
  BY <1>1, <1>2, Zenon DEF Remembered, Reissues, Agree, Trusting, Bundle

LEMMA TrustListeners ==
  ASSUME Types, Types', Books, Trust, Listeners, ~Happens("invalid"), ~Happens("dependency")
  PROVE  Trust'
<1>1. /\ UNCHANGED <<keySec, certSec, operator, userLeaf, label, tmpl, pod, keys, cron, expired>>
      /\ pc = "listeners" /\ pass \in Pass /\ pc \in Signing /\ pc' \in Signing /\ pc' = "adopt"
      /\ pass' = [pass EXCEPT !.leafs = keystore']
  BY Zenon DEF Listeners, poolVars, outsideVars, Types, PassTypes, Signing
<1>2. pass'.out = pass.out /\ pass'.leafs = keystore'
  BY <1>1, ZenonT(60) DEF Pass
<1>3. \A w \in Cas : /\ Past(w) /\ Past(w)' /\ ~Converged(w)' /\ ~Writing(w)'
                     /\ (Switching(w)' <=> Switching(w)) /\ Bundle(w)' = Bundle(w)
                     /\ InUse(w, keySec[w].key)
  <2>1. \A w \in Cas : InUse(w, keySec[w].key)
    BY KeyInUse, Zenon
  <2>2. \A w \in Cas : Past(w) /\ (Switching(w) <=> certSec[w].phase = "Promote") /\ Bundle(w)' = Bundle(w)
    BY <1>1, PastCas, Zenon DEF Bundle
  <2>3. \A w \in Cas : Past(w)' /\ ~Converged(w)' /\ ~Writing(w)' /\ (Switching(w)' <=> certSec[w].phase = "Promote")
    BY <1>1, ZenonT(30) DEF Past, Converged, Writing, Switching, CaStep, Signing
  <2> QED
    BY <2>1, <2>2, <2>3, Zenon
<1>4. \A w \in Cas : Trusting(w)'
  BY <1>1, <1>3, ZenonT(60) DEF Trusting, Trust
<1>5. UserLeafs'
  BY <1>1, <1>3, Zenon DEF UserLeafs, InUse, Trust
<1>6. keystore \in [Pool -> Nat] /\ keystore' \in Leafs /\ keystore' \in [Pool -> Nat]
  <2>1. keystore \in Leafs /\ keystore' \in Leafs /\ 1 .. keys \subseteq Nat
    BY <1>1, SMTT(30), Z3T(30) DEF Types, StateTypes, Leafs
  <2> QED
    BY <2>1, Zenon DEF Leafs
<1>7. CASE "Cluster" \notin Cas
  <2>1. keystore' = keystore
    BY <1>7, <1>1, Zenon DEF Listeners, Has
  <2> QED
    BY <2>1, <1>1, <1>2, <1>4, <1>5, <1>6, <1>7, SMTT(30), Z3T(30) DEF Trust, Dated, Leafs
<1>8. CASE "Cluster" \in Cas
  <2> DEFINE key == keySec["Cluster"].key
             o == pass.out["Cluster"]
  <2>1. KeystoreLeafs /\ PodLeafs /\ OperatorLeafs /\ CronLeafs
    BY <1>8, Zenon DEF Trust
  <2>2. o.secret.key = key /\ (o.reissue <=> o.plan = "PromoteNewKey")
    BY <1>1, <1>8, PastCas, Zenon
  <2>3. key \in Nat
    BY <1>8, SMTT(30), Z3T(30) DEF Types, StateTypes, KeySecret
  <2>4. \A p \in Pool : /\ keystore'[p] \in {keystore[p], key}
                        /\ o.plan = "PromoteNewKey" => keystore'[p] = key
    <3>1. Has("Cluster") /\ pc' # "idle"
      BY <1>1, <1>8, Zenon DEF Has
    <3> HIDE DEF o, key
    <3>2. CASE keystore' = keystore /\ ~o.reissue
      BY <3>2, <2>2, Zenon
    <3>3. ASSUME NEW S \in SUBSET Pool, keystore' = [p \in Pool |-> IF p \in S THEN o.secret.key ELSE keystore[p]],
                 S = Pool \/ ~o.reissue
          PROVE  \A p \in Pool : /\ keystore'[p] \in {keystore[p], key}
                                 /\ o.plan = "PromoteNewKey" => keystore'[p] = key
      BY <3>3, <2>2, Zenon
    <3>4. \/ keystore' = keystore /\ ~o.reissue
          \/ \E S \in SUBSET Pool : /\ keystore' = [p \in Pool |-> IF p \in S THEN o.secret.key ELSE keystore[p]]
                                    /\ S = Pool \/ ~o.reissue
      BY <3>1, Zenon DEF Listeners, EndPass, o
    <3> QED
      BY <3>2, <3>3, <3>4, Zenon
  <2>5. \A p \in Pool : keystore[p] <= key /\ keystore[p] <= keystore'[p] /\ keystore'[p] <= key
    BY <2>1, <2>3, <2>4, <1>6, SMTT(30), Z3T(30) DEF KeystoreLeafs
  <2>6. Dated'
    <3>1. /\ Dated /\ Leafs' = Leafs
          /\ \A p \in Pool : pod[p].leaf \in Nat
      BY <1>1, Typed, Zenon DEF Trust, Leafs
    <3>2. \A p \in Pool : label[p].leafs[p] \in Nat /\ tmpl[p].leafs[p] \in Nat
      BY <3>1, SMTT(30), Z3T(30) DEF Dated, Leafs
    <3>3. \A p \in Pool : keystore[p] \in Nat /\ keystore'[p] \in Nat /\ keystore[p] <= keystore'[p]
      BY <2>5, <1>6, Zenon
    <3> QED
      BY <3>1, <3>2, <3>3, <1>1, <1>2, <1>6, SMTT(30), Z3T(30) DEF Dated
  <2>7. KeystoreLeafs'
    <3>1. \A p \in Pool : InUse("Cluster", keystore[p])'
      BY <2>1, <2>4, <1>3, <1>8, ZenonT(40) DEF KeystoreLeafs, InUse
    <3>2. certSec["Cluster"].phase = "Promote" => \A p \in Pool : keystore'[p] = key
      BY <2>1, <2>4, Zenon DEF KeystoreLeafs
    <3> QED
      BY <3>1, <3>2, <2>5, <1>1, <1>2, <1>3, <1>8, ZenonT(30) DEF KeystoreLeafs
  <2>8. PodLeafs'
    BY <2>1, <1>1, <1>3, <1>8, Zenon DEF PodLeafs, InUse
  <2>9. OperatorLeafs'
    BY <2>1, <1>1, <1>3, <1>8, ZenonT(60) DEF OperatorLeafs, InUse
  <2>10. CronLeafs'
    <3>1. cron.at # "off" => cron.key \in Nat
      BY SMTT(30), Z3T(30) DEF Types, CronTypes, NoCron
    <3> QED
      BY <3>1, <2>1, <2>3, <2>4, <1>1, SMTT(30), Z3T(30) DEF CronLeafs
  <2> QED
    BY <1>1, <1>4, <1>5, <2>6, <2>7, <2>8, <2>9, <2>10, ZenonT(30) DEF Trust
<1> QED
  BY <1>7, <1>8, Zenon

\* The pool that rolls first gets the hash of the pass; the others that one or the old one.
LEMMA AdoptedLabels ==
  ASSUME Adopt, label' = [p \in Pool |-> plan_rollout(label, pass.ready, PassHash)[p]]
  PROVE  \A p \in Pool : label'[p] \in {label[p], PassHash} /\ (p = 1 => label'[p] = PassHash)
<1>1. \A q \in 1 .. (1 - 1) : FALSE
  BY SMTT(30), Z3T(30)
<1> QED
  BY <1>1, Zenon DEF plan_rollout

LEMMA TrustAdopt ==
  ASSUME Types, Types', Books, Trust, Adopt,
         label' = [p \in Pool |-> plan_rollout(label, pass.ready, PassHash)[p]]
  PROVE  Trust'
<1>1. /\ UNCHANGED <<keySec, certSec, keystore, operator, userLeaf, tmpl, pod, keys, cron, expired>>
      /\ pc = "adopt" /\ pc' = "idle" /\ pc \in Signing /\ pc' \notin Signing
  BY Zenon DEF Adopt, EndPass, secretVars, outsideVars, Signing
<1>2. \A p \in Pool : label'[p] \in {label[p], PassHash} /\ (p = 1 => label'[p] = PassHash)
  BY AdoptedLabels, Zenon
<1>3. \A w \in Cas : /\ ~Past(w)' /\ ~Converged(w)' /\ ~Writing(w)' /\ Bundle(w)' = Bundle(w)
                     /\ Switching(w)' <=> Switching(w)
  BY <1>1, Zenon DEF Past, Converged, Writing, Switching, CaStep, Signing, Bundle
<1>4. /\ PassHash.leafs = pass.leafs
      /\ \A w \in Cas : certSec[w].phase # "Idle" => Covers(PassHash, w) = Bundle(w)
  <2>1. /\ PassHash.leafs = pass.leafs
        /\ "Cluster" \in Cas => PassHash.cluster = pass.out["Cluster"].bundle
        /\ "Clients" \in Cas /\ pass.out["Clients"].phase # "Idle"
             => PassHash.clients = pass.out["Clients"].bundle
    BY Zenon DEF PassHash, Hash, Has
  <2>2. \A w \in Cas : pass.out[w].bundle = Bundle(w) /\ pass.out[w].phase = certSec[w].phase
    BY <1>1, PastCas, Zenon
  <2>3. \A w \in Cas : w \in {"Cluster", "Clients"}
    BY CaAssumption, Zenon
  <2> QED
    BY <2>1, <2>2, <2>3, Zenon DEF Covers
<1>5. \A w \in Cas : Trusting(w)'
  BY <1>1, <1>2, <1>3, <1>4, ZenonT(60) DEF Trusting, Trust
<1>6. Dated'
  <2>1. Dated /\ Leafs' = Leafs
    BY <1>1, Zenon DEF Trust, Leafs
  <2>2. \A p \in Pool : label'[p].leafs \in {label[p].leafs, pass.leafs}
    BY <1>2, <1>4, ZenonT(60)
  <2> QED
    BY <2>1, <2>2, <1>1, Zenon DEF Dated
<1>7. UserLeafs'
  BY <1>1, <1>3, Zenon DEF UserLeafs, InUse, Trust
<1>8. ASSUME "Cluster" \in Cas PROVE KeystoreLeafs' /\ PodLeafs' /\ OperatorLeafs' /\ CronLeafs'
  <2>1. KeystoreLeafs /\ PodLeafs /\ OperatorLeafs /\ CronLeafs
    BY <1>8, Zenon DEF Trust
  <2>2. KeystoreLeafs'
    <3> SUFFICES ASSUME NEW p \in Pool
                 PROVE  /\ InUse("Cluster", keystore[p])' /\ keystore[p] <= keySec["Cluster"].key
                        /\ certSec["Cluster"].phase = "Promote" =>
                             /\ keystore[p] = keySec["Cluster"].key
                             /\ \A q \in Pool : q = 1 => label'[q].leafs[p] = keySec["Cluster"].key
      BY <1>1, <1>3, <1>8, Zenon DEF KeystoreLeafs
    <3>1. /\ InUse("Cluster", keystore[p]) /\ keystore[p] <= keySec["Cluster"].key
          /\ certSec["Cluster"].phase = "Promote" =>
               keystore[p] = keySec["Cluster"].key /\ pass.leafs[p] = keySec["Cluster"].key
      BY <2>1, <1>1, Zenon DEF KeystoreLeafs
    <3>2. InUse("Cluster", keystore[p])' = InUse("Cluster", keystore[p])
      BY <1>1, <1>3, <1>8, Zenon DEF InUse
    <3>3. \A q \in Pool : q = 1 => label'[q].leafs = pass.leafs
      BY <1>2, <1>4, Zenon
    <3> QED
      BY <3>1, <3>2, <3>3, Zenon
  <2>3. PodLeafs' /\ OperatorLeafs' /\ CronLeafs'
    BY <2>1, <1>1, <1>3, <1>8, Zenon DEF PodLeafs, OperatorLeafs, CronLeafs, InUse
  <2> QED
    BY <2>2, <2>3, Zenon
<1> QED
  BY <1>1, <1>5, <1>6, <1>7, <1>8, ZenonT(30) DEF Trust

LEMMA TrustedStep == Types /\ Types' /\ Books /\ Trusted /\ [Next]_vars => Trusted'
<1> SUFFICES ASSUME Types, Types', Books, Trusted, [Next]_vars, Undisturbed' PROVE Trust'
  BY Zenon DEF Trusted
<1>1. /\ Trust /\ ~Abort /\ ~Happens("invalid") /\ ~Happens("dependency")
      /\ Adopt => label' = [p \in Pool |-> plan_rollout(label, pass.ready, PassHash)[p]]
      /\ expired' = expired
  BY Calm, Zenon DEF Trusted
<1>2. ASSUME PassStep PROVE Trust'
  BY <1>1, <1>2, TrustBegin, TrustPlanCa, TrustPatchKey, TrustPatchCert, TrustUsers, TrustListeners, TrustAdopt, ZenonT(60)
     DEF PassStep
<1>3. ASSUME NEW p \in Pool, SyncPool(p) \/ RollPod(p) \/ FailPod(p) \/ StartPod(p) PROVE Trust'
  BY <1>1, <1>3, TrustPods, Zenon DEF RollPod, FailPod
<1>4. ASSUME \/ \E a \in Annotation : Annotate(a)
             \/ \E w \in Cas : AgeCert(w)
             \/ EditSpec \/ CronRead \/ CronFlag \/ CronSign \/ UNCHANGED vars
      PROVE  Trust'
  BY <1>1, <1>4, TrustOutside, Zenon
<1> QED
  BY <1>1, <1>2, <1>3, <1>4, Zenon DEF Next

-----------------------------------------------------------------------------
(* The theorems *)

Inv == Accounts /\ Trusted

\* The inductive invariant: the books of CaRotationProofs and, while nothing cuts the
\* passes of reconcile_ca short, who trusts whom.
THEOREM Invariant == Spec => []Inv
<1>1. Init => Trusted
  BY TrustedInit, Zenon
<1>2. Accounts /\ Accounts' /\ Trusted /\ [Next]_vars => Trusted'
  BY TrustedStep, Zenon DEF Accounts
<1> QED
  BY <1>1, <1>2, AccountsKept, PTL DEF Spec, Inv

\* Brokers, operator and TLS users verify each other through every rotation whose
\* passes come to their end, for any number of pools and users.
THEOREM EverybodyTrusted == Spec => []MutualTrust
<1>1. Inv => MutualTrust
  <2> SUFFICES ASSUME Inv, Undisturbed, NEW p \in Pool, pod[p].up
               PROVE  /\ Has("Cluster") =>
                           /\ \A q \in Pool : pod[q].up => pod[p].leaf \in pod[q].trust["Cluster"]
                           /\ pod[p].leaf \in operator.trust
                           /\ operator.leaf \in pod[p].trust["Cluster"]
                      /\ Has("Clients") => \A u \in User : userLeaf[u] \in pod[p].trust["Clients"]
    BY Zenon DEF MutualTrust
  <2>1. Trust
    BY Zenon DEF Accounts, Inv, Trusted
  <2>2. ASSUME NEW w \in Cas, NEW l, InUse(w, l), NEW q \in Pool, pod[q].up PROVE l \in pod[q].trust[w]
    BY <2>1, <2>2, ZenonT(40) DEF Trust, Trusting, InUse
  <2>3. ASSUME "Cluster" \in Cas PROVE pod[p].leaf \in operator.trust
    BY <2>1, <2>3, ZenonT(60) DEF Trust, PodLeafs, OperatorLeafs, InUse
  <2>4. /\ "Cluster" \in Cas => InUse("Cluster", pod[p].leaf) /\ InUse("Cluster", operator.leaf)
        /\ "Clients" \in Cas => \A u \in User : InUse("Clients", userLeaf[u])
    BY <2>1, Zenon DEF Trust, PodLeafs, OperatorLeafs, UserLeafs
  <2> QED
    BY <2>2, <2>3, <2>4, ZenonT(60) DEF Has
<1> QED
  BY <1>1, Invariant, PTL

\* Phases change by the write of the cert Secret only.
LEMMA PhaseChange ==
  ASSUME Types, Next, NEW w \in Cas, certSec'[w].phase # certSec[w].phase
  PROVE  PatchCert /\ pass.ca = w
<1>1. PatchCert \/ MarkLeafs \/ UNCHANGED certSec
  BY Zenon DEF Next, PassStep, Begin, PlanCa, PatchKey, PatchCert, IssueOperator, SyncUser,
         MarkLeafs, Strip, Listeners, Adopt, Abort, SyncPool, RollPod, FailPod, StopPod, StartPod, Annotate,
         AgeCert, EditSpec, CronRead, CronFlag, CronSign, secretVars
<1>2. certSec \in [Cas -> CertSecret]
  BY Zenon DEF Types, StateTypes
<1>3. MarkLeafs => certSec'[w].phase = certSec[w].phase
  BY <1>2, SMTT(30), Z3T(30) DEF MarkLeafs, CertSecret
<1>4. PatchCert /\ pass.ca # w => certSec'[w] = certSec[w]
  BY <1>2, Zenon DEF PatchCert
<1> QED
  BY <1>1, <1>3, <1>4, ZenonT(30)

\* No promotion before every running broker trusts the new key (pools_converged).
THEOREM PromotionTrusted == Spec => TrustedPromotion
<1>1. Inv /\ [Next]_vars => [Undisturbed => PromotesTrustedKey]_vars
  <2> SUFFICES ASSUME Inv, Next, Undisturbed, NEW w \in Cas,
                      certSec[w].phase = "Trust", certSec'[w].phase = "Promote"
               PROVE  \A p \in Pool : pod[p].up => Bundle(w)'.signer.key \in pod[p].trust[w]
    BY Zenon DEF PromotesTrustedKey
  <2>1. Types /\ Books /\ Trust
    BY Zenon DEF Accounts, Inv, Trusted
  <2>2. PatchCert /\ pass.ca = w
    BY <2>1, PhaseChange, Zenon
  <2>3. Switching(w) /\ Bundle(w)'.signer.key \in KeysOf(Bundle(w))
    BY <2>1, <2>2, PatchedBundle, Zenon
  <2> QED
    BY <2>1, <2>3, Zenon DEF Trust, Trusting
<1> QED
  BY <1>1, Invariant, PTL DEF Spec, TrustedPromotion

\* No prune before every leaf of the CA is of the key that stays.
THEOREM PrunedLast == Spec => PruneAfterReissue
<1>1. Inv /\ [Next]_vars => [PrunesSpentTrust]_vars
  <2> SUFFICES ASSUME Inv, Next, NEW w \in Cas,
                      certSec[w].phase = "Promote", certSec'[w].phase = "Idle"
               PROVE  IF w = "Clients" THEN \A u \in User : userLeaf[u] \in KeysOf(Bundle(w)')
                      ELSE Undisturbed =>
                           \A p \in Pool : /\ keystore[p] \in KeysOf(Bundle(w)')
                                           /\ pod[p].up => pod[p].leaf \in KeysOf(Bundle(w)')
    BY Zenon DEF PrunesSpentTrust
  <2>1. Types /\ Books /\ PatchCert /\ pass.ca = w
    BY PhaseChange, Zenon DEF Accounts, Inv
  <2>2. CASE w = "Clients"
    <3>0. PICK o, k, c : o = pass.out[w] /\ k = keySec[w] /\ c = certSec[w]
      BY Zenon
    <3>1. Planned(w, o, k, c) /\ Agree(w, k, c) /\ o.phase = "Idle" /\ Bundle(w)' = o.bundle
      BY <3>0, <2>1, ZenonT(60) DEF PatchCert, Books, Plans, Agreement, Writing, Types, StateTypes, CertSecret, Bundle
    <3>2. KeysOf(o.bundle) = {k.key} /\ c.leafs = k.gen
      BY <3>0, <3>1, <2>2, ZenonT(40) DEF Planned, Agree
    <3> QED
      BY <3>0, <3>1, <3>2, <2>1, <2>2, Zenon DEF Books, Marked
  <2>3. CASE w # "Clients" /\ Undisturbed
    <3>1. Trust /\ w = "Cluster" /\ Switching(w)
      BY <2>3, CaAssumption, ZenonT(40) DEF Accounts, Inv, Trusted, Switching
    <3>2. /\ ~Past(w) /\ Converged(w) /\ KeysOf(Bundle(w)') = {Bundle(w).signer.key}
          /\ keySec[w].key = Bundle(w).signer.key
      BY <3>1, <2>1, PatchedBundle, Zenon
    <3> QED
      BY <3>1, <3>2, <2>3, ZenonT(40) DEF Trust, KeystoreLeafs, PodLeafs
  <2> QED
    BY <2>2, <2>3, ZenonT(40)
<1> QED
  BY <1>1, Invariant, PTL DEF Spec, PruneAfterReissue
=============================================================================
