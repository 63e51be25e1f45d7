----------------------------- MODULE CaRotation -----------------------------
(***************************************************************************)
(* The staged rotation of the cluster and the clients certificate          *)
(* authority (cluster_ca.rs), driven by the reconcile passes of one Kafka  *)
(* resource (kafka.rs, user_tls.rs), together with what it must not break: *)
(* the certificates that the brokers, the operator and the TLS users       *)
(* present and trust while pools roll to new configuration hashes.         *)
(*                                                                         *)
(* Keys are numbered in the order in which they are generated.  A CA       *)
(* certificate is its key and the certificate generation that issued it; a *)
(* leaf certificate is the key that signed it.  An anchor verifies the     *)
(* leafs of its key, so a same-key renewal keeps all leafs valid.  A trust *)
(* bundle is its first block, the signer, and the set of the other blocks: *)
(* no certificate is ever added twice, so the set fixes their order.       *)
(*                                                                         *)
(* Every API write of a pass is a step of its own, between two of which    *)
(* pools, pods and the outside world move.  A pool has one pod.  A pod     *)
(* reads trust bundles and its leaf when it starts.                        *)
(***************************************************************************)
EXTENDS Naturals, FiniteSets, Rollout

CONSTANTS
  Cas,        \* the CAs of this instance: a subset of {"Cluster", "Clients"}
  User,       \* KafkaUsers with TLS authentication
  Budgets     \* bounds: how often the outside events may happen, one of these at a time

\* What reaches the rotation from outside: requests ("replace", "renew"), time
\* ("age", "expire" of CA certificates, "leaf" of broker certificates), spec edits
\* that change the hash ("edit") or make the listeners invalid ("invalid"), a
\* missing Secret of a listener ("dependency"), a failed call or a dead operator
\* ("abort"), failing pods ("pod") and the renewal CronJob ("cron").
Event == {"replace", "renew", "age", "expire", "leaf", "edit", "invalid",
          "dependency", "abort", "pod", "cron"}

ASSUME CaAssumption ==
  /\ Cas # {} /\ Cas \subseteq {"Cluster", "Clients"}
  /\ IsFiniteSet(User)
  /\ Budgets \subseteq [Event -> Nat]

VARIABLES
  keySec,    \* the key Secret of each CA
  certSec,   \* the cert Secret of each CA, with its annotations
  keystore,  \* the broker keystore Secret: the key that signed each pool's leaf
  operator,  \* the operator identity Secret: its leaf and its trust
  userLeaf,  \* the key that signed each user's certificate
  label,     \* the config-hash label of each pool
  reported,  \* readiness in each pool's status
  tmpl,      \* the config-hash in each StatefulSet's pod template
  pod,       \* the running pod of each pool
  byo,       \* the CAs with generateCertificateAuthority = false
  force,     \* rotation annotations on the Kafka resource
  keys,      \* how many CA keys were generated
  due,       \* CA certificates inside their renewal window
  expired,   \* and those past their notAfter
  events,    \* how often each outside event has happened
  cron,      \* what the renewal CronJob has read, while it runs
  pc,        \* where the reconcile pass is
  pass       \* what it has read and decided

secretVars == <<keySec, certSec, keystore, operator, userLeaf>>
poolVars == <<label, reported, tmpl, pod>>
outsideVars == <<byo, force, due, expired>>
vars == <<secretVars, poolVars, outsideVars, cron, keys, events, pc, pass>>

Annotation == {"renew", "renewAfter", "replaceCluster", "replaceClients"}
Phase == {"Idle", "Trust", "Promote"}

Cert(k, g) == [key |-> k, gen |-> g]
Blocks(bundle) == {bundle.signer} \cup bundle.anchors
KeysOf(bundle) == {c.key : c \in Blocks(bundle)}
Bundle(w) == certSec[w].bundle
Has(w) == w \in Cas
Happens(e) ==
  /\ events' = [events EXCEPT ![e] = @ + 1]
  /\ \E b \in Budgets : \A f \in Event : events'[f] <= b[f]

-----------------------------------------------------------------------------
(* cluster_ca.rs: the pure part *)

\* A bundle of `first` and then `others`, each block once.
dedup_blocks(first, others) == [signer |-> first, anchors |-> others \ {first}]

\* The signing certificate stays, whatever its age.
prune_expired(bundle) == [bundle EXCEPT !.anchors = @ \ expired]

renews_certificate(w, f) == w = "Cluster" /\ {"renew", "renewAfter"} \cap f # {}
replaces_key(w, f) ==
  (IF w = "Cluster" THEN "replaceCluster" ELSE "replaceClients") \in f

\* Mutant: a staged phase does not wait for the roll.
plan_ca_rotation_NoGate(w, f, converged) ==
  CASE certSec[w].phase = "Trust" -> "PromoteNewKey"
    [] certSec[w].phase = "Promote" -> "PruneOldTrust"
    [] OTHER -> IF replaces_key(w, f) THEN "StartKeyReplace" ELSE "NoOp"

\* Mutant: the prune waits for the roll only, not for the users' certificates.
plan_ca_rotation_NoMarker(w, f, converged) ==
  CASE certSec[w].phase = "Trust" /\ converged -> "PromoteNewKey"
    [] certSec[w].phase = "Promote" /\ converged -> "PruneOldTrust"
    [] OTHER -> IF replaces_key(w, f) /\ certSec[w].phase = "Idle" THEN "StartKeyReplace" ELSE "NoOp"

\* Mutant: a forced request also reaches a BYO CA.
plan_ca_rotation_ByoForced(w, f, converged) ==
  IF w \in byo /\ renews_certificate(w, f) THEN "RenewCertSameKey" ELSE "NoOp"

\* Mutant: the promotion waits for certificates that only the promotion reissues.
plan_ca_rotation_GateTooEarly(w, f, converged) ==
  CASE certSec[w].phase = "Trust" /\ converged /\ certSec[w].leafs = keySec[w].gen -> "PromoteNewKey"
    [] certSec[w].phase = "Promote" /\ converged -> "PruneOldTrust"
    [] OTHER -> IF replaces_key(w, f) /\ certSec[w].phase = "Idle" THEN "StartKeyReplace" ELSE "NoOp"

plan_ca_rotation(w, f, converged) ==
  LET s == certSec[w]
      leafs_converged == w = "Cluster" \/ s.leafs = keySec[w].gen
  IN  CASE w \in byo ->
             IF renews_certificate(w, f) \/ replaces_key(w, f) THEN "Refuse" ELSE "NoOp"
        [] w \notin byo /\ s.phase = "Trust" ->
             IF converged THEN "PromoteNewKey" ELSE "NoOp"
        [] w \notin byo /\ s.phase = "Promote" ->
             IF converged /\ leafs_converged THEN "PruneOldTrust" ELSE "NoOp"
        [] OTHER ->
             IF replaces_key(w, f) THEN "StartKeyReplace"
             ELSE IF renews_certificate(w, f) \/ s.bundle.signer \in due
                  THEN "RenewCertSameKey"
             ELSE IF s.bundle.anchors \cap expired # {}
                  THEN "PruneOldTrust" ELSE "NoOp"

\* What a pass makes of a plan: the contents of both Secrets, and whether leafs must
\* be reissued; the users' once more until mark_leafs_reissued has recorded it.
outcome(w, plan, secret, bundle, gen, phase) ==
  [plan |-> plan, secret |-> secret, bundle |-> bundle, gen |-> gen, phase |-> phase,
   reissue |-> \/ plan = "PromoteNewKey"
               \/ w = "Clients" /\ phase = "Promote" /\ certSec[w].leafs # secret.gen]

\* Mutant: the promotion drops the staged copy at once.
promote_DropsStaged(w) ==
  LET k == keySec[w]
      c == certSec[w]
  IN  outcome(w, "PromoteNewKey", [key |-> k.next, next |-> 0, gen |-> k.gen + 1],
              dedup_blocks(Cert(k.next, 0), Blocks(c.bundle)), c.gen + 1, "Promote")

\* The promotion: the new certificate first, the others for trust; the staged copy
\* stays in the key Secret so that the promotion can be replayed.
promote(w) ==
  LET k == keySec[w]
      c == certSec[w]
      secret == [key |-> k.next, next |-> k.next, gen |-> IF k.key = k.next THEN k.gen ELSE k.gen + 1]
  IN  outcome(w, "PromoteNewKey", secret,
              prune_expired(dedup_blocks(Cert(k.next, 0), Blocks(c.bundle))), c.gen + 1, "Promote")

apply_ca_rotation(w, plan) ==
  LET k == keySec[w]
      c == certSec[w]
      kept == prune_expired(c.bundle)
  IN  CASE plan = "RenewCertSameKey" ->
             outcome(w, plan, k, dedup_blocks(Cert(k.key, c.gen + 1), Blocks(kept)), c.gen + 1, "Idle")
        [] plan = "StartKeyReplace" ->
             outcome(w, plan, [k EXCEPT !.next = keys + 1],
                     dedup_blocks(kept.signer, kept.anchors \cup {Cert(keys + 1, 0)}), c.gen, "Trust")
        [] plan = "PromoteNewKey" -> promote(w)
        [] plan = "PruneOldTrust" /\ c.phase = "Promote" ->
             outcome(w, plan, [k EXCEPT !.next = 0], [c.bundle EXCEPT !.anchors = {}], c.gen, "Idle")
        [] plan = "PruneOldTrust" /\ c.phase # "Promote" ->
             outcome(w, plan, k, kept, c.gen, "Idle")
        [] OTHER -> outcome(w, plan, k, c.bundle, c.gen, c.phase)

\* Which of the two Secrets a plan writes; the key Secret goes first.
WritesKey(w, plan) ==
  \/ plan \in {"StartKeyReplace", "PromoteNewKey"}
  \/ plan = "PruneOldTrust" /\ certSec[w].phase = "Promote"
WritesCert(plan) == plan \notin {"NoOp", "Refuse"}

-----------------------------------------------------------------------------
(* Initially the CAs were created, every leaf was issued and every pool runs the
   hash of that state.  The generation of the reissued leafs is absent: 0, which no
   key generation equals in the phase that reads it. *)

FirstKey(w) == IF w = "Clients" THEN 2 ELSE 1
FirstBundle(w) == [signer |-> Cert(FirstKey(w), 0), anchors |-> {}]
NoBundle == [signer |-> Cert(0, 0), anchors |-> {}]
NoPlan == [plan |-> "none"]
NoPass == [ca |-> "none"]
NoCron == [at |-> "off"]

Hash(cluster, clients, leafs, n) ==
  [cluster |-> cluster, clients |-> clients, leafs |-> leafs, edits |-> n]

Init ==
  LET h == Hash(IF Has("Cluster") THEN FirstBundle("Cluster") ELSE NoBundle, NoBundle, [p \in Pool |-> 1], 0)
  IN  /\ keySec = [w \in Cas |-> [key |-> FirstKey(w), next |-> 0, gen |-> 0]]
      /\ certSec = [w \in Cas |-> [bundle |-> FirstBundle(w), gen |-> 0, phase |-> "Idle", leafs |-> 0]]
      /\ keystore = [p \in Pool |-> 1]
      /\ operator = [leaf |-> 1, trust |-> {1}]
      /\ userLeaf = [u \in User |-> FirstKey("Clients")]
      /\ label = [p \in Pool |-> h]
      /\ reported = [p \in Pool |-> TRUE]
      /\ tmpl = [p \in Pool |-> h]
      /\ pod = [p \in Pool |-> [up |-> TRUE, rev |-> h, leaf |-> 1, trust |-> [w \in Cas |-> {FirstKey(w)}]]]
      /\ byo \in SUBSET Cas
      /\ force = {} /\ due = {} /\ expired = {}
      /\ events = [e \in Event |-> 0]
      /\ keys = 2
      /\ cron = NoCron
      /\ pc = "idle" /\ pass = NoPass

-----------------------------------------------------------------------------
(* One reconcile pass: reconcile_inner of kafka.rs *)

EndPass == pc' = "idle" /\ pass' = NoPass

\* The pass reads the Kafka resource, the pools and the StatefulSets.
Begin ==
  /\ pc = "idle"
  /\ LET rolled == [p \in Pool |-> IF pod[p].up THEN pod[p].rev ELSE NoHash]
     IN  pass' = [ca |-> IF Has("Cluster") THEN "Cluster" ELSE "Clients",
                  force |-> force, edits |-> events["edit"], ready |-> reported,
                  converged |-> pools_converged(label, tmpl, rolled),
                  out |-> [w \in Cas |-> NoPlan], todo |-> {}, leafs |-> <<>>]
  /\ pc' = "plan"
  /\ UNCHANGED <<secretVars, poolVars, outsideVars, events, keys, cron>>

\* After the cluster CA comes the clients CA, then the rest of reconcile_cas.
NextCa(p) ==
  IF p.ca = "Cluster" /\ Has("Clients")
  THEN pc' = "plan" /\ pass' = [p EXCEPT !.ca = "Clients"]
  ELSE pc' = "operator" /\ pass' = p

\* reconcile_ca reads both Secrets of a CA and plans.  A promotion without a staged
\* key is an error of the pass.
PlanCa ==
  LET w == pass.ca
      plan == plan_ca_rotation(w, pass.force, pass.converged)
      o == apply_ca_rotation(w, plan)
      p == [pass EXCEPT !.out[w] = o]
  IN  /\ pc = "plan"
      /\ keys' = IF plan = "StartKeyReplace" THEN keys + 1 ELSE keys
      /\ \/ plan = "PromoteNewKey" /\ keySec[w].next = 0 /\ EndPass
         \/ /\ plan = "PromoteNewKey" => keySec[w].next # 0
            /\ \/ WritesKey(w, plan) /\ pc' = "key" /\ pass' = p
               \/ ~WritesKey(w, plan) /\ WritesCert(plan) /\ pc' = "cert" /\ pass' = p
               \/ ~WritesCert(plan) /\ NextCa(p)
      /\ UNCHANGED <<secretVars, poolVars, outsideVars, events, cron>>

PatchKey ==
  LET o == pass.out[pass.ca]
  IN  /\ pc = "key"
      /\ keySec' = [keySec EXCEPT ![pass.ca] = o.secret]
      /\ pc' = "cert"
      /\ UNCHANGED <<certSec, keystore, operator, userLeaf, poolVars, outsideVars, events, keys, pass, cron>>

\* The annotation with the generation of the reissued leafs belongs to another
\* field manager and stays.
PatchCert ==
  LET o == pass.out[pass.ca]
  IN  /\ pc = "cert"
      /\ certSec' = [certSec EXCEPT ![pass.ca] = [@ EXCEPT !.bundle = o.bundle, !.gen = o.gen,
                                                           !.phase = o.phase]]
      /\ NextCa(pass)
      /\ UNCHANGED <<keySec, keystore, operator, userLeaf, poolVars, outsideVars, events, keys, cron>>

\* ensure_operator_cert_secret: a new leaf if another CA signs now, and the trust
\* bundle of this pass in any case.  Then the users that must be synchronised.
IssueOperator ==
  LET o == pass.out["Cluster"]
      c == pass.out["Clients"]
      sync == Has("Clients") /\ (c.reissue \/ c.plan = "PruneOldTrust" \/ c.gen > 0 \/ c.secret.gen > 0)
  IN  /\ pc = "operator"
      /\ operator' = IF Has("Cluster")
                     THEN [leaf |-> IF operator.leaf = o.bundle.signer.key THEN operator.leaf ELSE o.secret.key,
                           trust |-> KeysOf(o.bundle)]
                     ELSE operator
      /\ pc' = IF sync THEN "users" ELSE "strip"
      /\ pass' = [pass EXCEPT !.todo = IF sync THEN User ELSE {}]
      /\ UNCHANGED <<keySec, certSec, keystore, userLeaf, poolVars, outsideVars, events, keys, cron>>

\* reissue_tls_user_cert_secrets: a certificate of the signing CA is kept.
SyncUser(u) ==
  LET c == pass.out["Clients"]
  IN  /\ pc = "users" /\ u \in pass.todo
      /\ userLeaf' = [userLeaf EXCEPT ![u] = IF @ = c.bundle.signer.key THEN @ ELSE c.secret.key]
      /\ pass' = [pass EXCEPT !.todo = @ \ {u}]
      /\ UNCHANGED <<keySec, certSec, keystore, operator, poolVars, outsideVars, events, keys, pc, cron>>

\* Mutant: the marker gets the generation of the certificate.
MarkLeafs_CertGeneration ==
  LET c == pass.out["Clients"]
  IN  /\ pc = "users" /\ pass.todo = {}
      /\ certSec' = IF c.reissue THEN [certSec EXCEPT !["Clients"].leafs = c.gen] ELSE certSec
      /\ pc' = "strip"
      /\ UNCHANGED <<keySec, keystore, operator, userLeaf, poolVars, outsideVars, events, keys, pass, cron>>

\* mark_leafs_reissued, once every user has its certificate.
MarkLeafs ==
  LET c == pass.out["Clients"]
  IN  /\ pc = "users" /\ pass.todo = {}
      /\ certSec' = IF c.reissue THEN [certSec EXCEPT !["Clients"].leafs = c.secret.gen] ELSE certSec
      /\ pc' = "strip"
      /\ UNCHANGED <<keySec, keystore, operator, userLeaf, poolVars, outsideVars, events, keys, pass, cron>>

\* The one-shot annotations that the pass has read are removed.
Strip ==
  /\ pc = "strip"
  /\ force' = force \ pass.force
  /\ pc' = "listeners"
  /\ UNCHANGED <<secretVars, poolVars, byo, due, expired, events, keys, pass, cron>>

\* reconcile_listener_resources.  With valid listeners, ensure_broker_keystore
\* reissues every leaf if this pass says so, and otherwise the leafs that are
\* missing, expiring or have other names: any of them, for this model.  With
\* invalid listeners the keystore stays and the leafs are not part of the hash.  A
\* missing Secret of a listener ends the pass.
Listeners ==
  LET o == pass.out["Cluster"]
      Reissue(S) == [p \in Pool |-> IF p \in S THEN o.secret.key ELSE keystore[p]]
  IN  /\ pc = "listeners"
      /\ \/ /\ IF Has("Cluster") /\ o.reissue THEN keystore' = Reissue(Pool) ELSE UNCHANGED keystore
            /\ pc' = "adopt" /\ pass' = [pass EXCEPT !.leafs = keystore'] /\ UNCHANGED events
         \/ /\ Has("Cluster") /\ ~o.reissue /\ Happens("leaf")
            /\ \E S \in SUBSET Pool \ {{}} : keystore' = Reissue(S)
            /\ pc' = "adopt" /\ pass' = [pass EXCEPT !.leafs = keystore']
         \/ Happens("invalid") /\ pc' = "adopt" /\ UNCHANGED <<keystore, pass>>
         \/ Happens("dependency") /\ EndPass /\ UNCHANGED keystore
      /\ UNCHANGED <<keySec, certSec, operator, userLeaf, poolVars, outsideVars, keys, cron>>

\* The clients bundle takes part in the roll only while its key is replaced.
PassHash ==
  Hash(IF Has("Cluster") THEN pass.out["Cluster"].bundle ELSE NoBundle,
       IF Has("Clients") /\ pass.out["Clients"].phase # "Idle" THEN pass.out["Clients"].bundle ELSE NoBundle,
       pass.leafs, pass.edits)

\* adopt_pools patches one pool after the other.
Adopt ==
  /\ pc = "adopt"
  /\ LET plan == plan_rollout(label, pass.ready, PassHash)
         Patched(n) == [p \in Pool |-> IF p <= n THEN plan[p] ELSE label[p]]
     IN  \/ label' = Patched(NPools) /\ UNCHANGED events
         \/ Happens("abort") /\ \E n \in 1 .. (NPools - 1) : label' = Patched(n)
  /\ EndPass
  /\ UNCHANGED <<secretVars, reported, tmpl, pod, outsideVars, keys, cron>>

\* An API call fails or the operator dies: the next pass starts over.
Abort ==
  /\ pc # "idle"
  /\ Happens("abort")
  /\ EndPass
  /\ UNCHANGED <<secretVars, poolVars, outsideVars, keys, cron>>

-----------------------------------------------------------------------------
(* Pools and pods *)

\* reconcile_inner of kafka_node_pool.rs: the label goes into the pod template, and
\* the readiness of the StatefulSet into the pool's status.
SyncPool(p) ==
  /\ tmpl' = [tmpl EXCEPT ![p] = label[p]]
  /\ reported' = [reported EXCEPT ![p] = pod[p].up]
  /\ UNCHANGED <<secretVars, label, pod, outsideVars, events, keys, pc, pass, cron>>

StopPod(p) ==
  /\ pod[p].up
  /\ pod' = [pod EXCEPT ![p].up = FALSE]
  /\ UNCHANGED <<secretVars, label, reported, tmpl, outsideVars, keys, pc, pass, cron>>

\* The StatefulSet controller replaces a pod of an older revision.
RollPod(p) == pod[p].rev # tmpl[p] /\ StopPod(p) /\ UNCHANGED events

FailPod(p) == Happens("pod") /\ StopPod(p)

\* A pod starts and reads the Secrets that are mounted.
StartPod(p) ==
  /\ ~pod[p].up
  /\ pod' = [pod EXCEPT ![p] = [up |-> TRUE, rev |-> tmpl[p], leaf |-> keystore[p],
                                trust |-> [w \in Cas |-> KeysOf(Bundle(w))]]]
  /\ UNCHANGED <<secretVars, label, reported, tmpl, outsideVars, events, keys, pc, pass, cron>>

-----------------------------------------------------------------------------
(* The outside world *)

\* An administrator annotates the Kafka resource.
Annotate(a) ==
  /\ a \notin force \cup {"renewAfter"}
  /\ Happens(IF a = "renew" THEN "renew" ELSE "replace")
  /\ Has(IF a = "replaceClients" THEN "Clients" ELSE "Cluster")
  /\ force' = force \cup {a}
  /\ UNCHANGED <<secretVars, poolVars, byo, due, expired, keys, pc, pass, cron>>

\* A signing certificate enters its renewal window, and any certificate expires.
AgeCert(w) ==
  /\ \/ /\ Happens("age") /\ Bundle(w).signer \notin due
        /\ due' = due \cup {Bundle(w).signer} /\ UNCHANGED expired
     \/ /\ Happens("expire") /\ UNCHANGED due
        /\ \E c \in Blocks(Bundle(w)) : c \in due \ expired /\ expired' = expired \cup {c}
  /\ UNCHANGED <<secretVars, poolVars, byo, force, keys, pc, pass, cron>>

EditSpec ==
  /\ Happens("edit")
  /\ UNCHANGED <<secretVars, poolVars, outsideVars, keys, pc, pass, cron>>

-----------------------------------------------------------------------------
(* The renewal CronJob: run_renewal_check of cluster_ca.rs *)

\* It lists the Kafka resources and reads the CAs.  (A CA that the instance leaves out is
\* there and not due.)
CronRead ==
  /\ cron = NoCron /\ "Cluster" \in Cas
  /\ Happens("cron")
  /\ cron' = [at |-> "flag", key |-> keySec["Cluster"].key, certs |-> [w \in Cas |-> Bundle(w).signer],
              stamped |-> "renewAfter" \in force, old |-> keystore]
  /\ UNCHANGED <<secretVars, poolVars, outsideVars, keys, pc, pass>>

\* flag_ca_if_expiring for both CAs: whichever of them is due, the annotation is the
\* same.  Then renew_broker_leafs reads the keystore.
CronFlag ==
  /\ cron.at = "flag"
  /\ force' = IF ~cron.stamped /\ \E w \in Cas \ byo : cron.certs[w] \in due
              THEN force \cup {"renewAfter"} ELSE force
  /\ cron' = [at |-> "sign", key |-> cron.key, old |-> cron.old, seen |-> keystore]
  /\ UNCHANGED <<secretVars, poolVars, byo, due, expired, events, keys, pc, pass>>

\* Mutant: the write does not carry the resourceVersion that was read.
CronSign_Blind ==
  /\ cron.at = "sign"
  /\ keystore' = [p \in Pool |-> IF cron.seen[p] = cron.old[p] THEN cron.key ELSE cron.seen[p]]
  /\ cron' = NoCron
  /\ UNCHANGED <<keySec, certSec, operator, userLeaf, poolVars, outsideVars, events, keys, pc, pass>>

\* It signs expiring leafs with the key it has read; a leaf that a pass has issued
\* since is not expiring.  The write carries the resourceVersion of the read, so it
\* is refused if the keystore has changed.
CronSign ==
  /\ cron.at = "sign"
  /\ \/ /\ keystore = cron.seen
        /\ \E S \in SUBSET {p \in Pool : cron.seen[p] = cron.old[p]} :
             keystore' = [p \in Pool |-> IF p \in S THEN cron.key ELSE cron.seen[p]]
     \/ UNCHANGED keystore
  /\ cron' = NoCron
  /\ UNCHANGED <<keySec, certSec, operator, userLeaf, poolVars, outsideVars, events, keys, pc, pass>>

PassStep ==
  \/ Begin \/ PlanCa \/ PatchKey \/ PatchCert
  \/ IssueOperator \/ (\E u \in User : SyncUser(u)) \/ MarkLeafs
  \/ Strip \/ Listeners \/ Adopt

Next ==
  \/ PassStep \/ Abort
  \/ \E p \in Pool : SyncPool(p) \/ RollPod(p) \/ FailPod(p) \/ StartPod(p)
  \/ \E a \in Annotation : Annotate(a)
  \/ \E w \in Cas : AgeCert(w)
  \/ EditSpec
  \/ CronRead \/ CronFlag \/ CronSign

Spec == Init /\ [][Next]_vars

\* The controllers retry and requeue: a pass comes to its end and another one
\* follows, every pool is reconciled again, and the StatefulSet controller and the
\* kubelet do their work.  Nothing is assumed of the outside events.
Fairness ==
  /\ WF_vars(PassStep)
  /\ \A p \in Pool : WF_vars(SyncPool(p)) /\ WF_vars(RollPod(p)) /\ WF_vars(StartPod(p))

FairSpec == Spec /\ Fairness

-----------------------------------------------------------------------------
(* Properties *)

Signing == {"users", "strip", "listeners", "adopt"}

CaCert == [key : 1 .. keys, gen : Nat]

\* Types, and two bounds: every certificate is of a key that was generated, and the
\* generation that mark_leafs_reissued records was a generation of the key.
TypeOK ==
  /\ \A w \in Cas :
       /\ keySec[w] \in [key : 1 .. keys, next : 0 .. keys, gen : Nat]
       /\ DOMAIN certSec[w] = {"bundle", "gen", "phase", "leafs"}
       /\ certSec[w].bundle \in [signer : CaCert, anchors : SUBSET CaCert]
       /\ certSec[w].gen \in Nat /\ certSec[w].phase \in Phase
       /\ certSec[w].leafs \in 0 .. keySec[w].gen
  /\ keystore \in [Pool -> 1 .. keys]
  /\ userLeaf \in [User -> 1 .. keys]
  /\ operator.leaf \in 1 .. keys /\ operator.trust \subseteq 1 .. keys
  /\ byo \subseteq Cas /\ force \subseteq Annotation
  /\ reported \in [Pool -> BOOLEAN]
  /\ pc \in {"idle", "plan", "key", "cert", "operator"} \cup Signing
  /\ (pc = "idle") = (pass = NoPass)

\* No pass ended early, and no CA certificate went past its notAfter.
Undisturbed ==
  \A e \in {"abort", "invalid", "dependency", "expire"} : events[e] = 0

\* Whoever talks to whom can verify the other: running brokers each other, the
\* brokers and the operator each other, the brokers every TLS user.  This is what
\* the staged key replacement (CaPhase in cluster_ca.rs) is for.  A pass that ends
\* before adopt_pools can break it: the next one takes the pools for converged.
MutualTrust ==
  Undisturbed => \A p \in {q \in Pool : pod[q].up} :
    /\ Has("Cluster") =>
         /\ \A q \in Pool : pod[q].up => pod[p].leaf \in pod[q].trust["Cluster"]
         /\ pod[p].leaf \in operator.trust
         /\ operator.leaf \in pod[p].trust["Cluster"]
    /\ Has("Clients") => \A u \in User : userLeaf[u] \in pod[p].trust["Clients"]

\* While a CA is in its trust phase, the staged key is there and its certificate is
\* in the bundle, so that a promotion can be made, and made again after a failure
\* between the writes of the two Secrets (PromoteNewKey in apply_ca_rotation).
PromotionReplays ==
  \A w \in Cas : certSec[w].phase = "Trust" =>
                    keySec[w].next # 0 /\ keySec[w].next \in KeysOf(Bundle(w))

PromotesTrustedKey ==
  \A w \in Cas :
    certSec[w].phase = "Trust" /\ certSec'[w].phase = "Promote"
      => \A p \in Pool : pod[p].up => Bundle(w)'.signer.key \in pod[p].trust[w]

\* Trust distribution finishes before the new key is promoted (pools_converged in
\* kafka.rs): no broker runs without the anchor that a promotion makes the signer.
PromoteAfterTrust == [][PromotesTrustedKey]_vars

\* That is so as long as no pass was cut short: what pools_converged compares is then
\* the hash of the bundle that the cert Secret holds.
TrustedPromotion == [][Undisturbed => PromotesTrustedKey]_vars

PrunesSpentTrust ==
  \A w \in Cas :
    certSec[w].phase = "Promote" /\ certSec'[w].phase = "Idle"
      => IF w = "Clients" THEN \A u \in User : userLeaf[u] \in KeysOf(Bundle(w)')
         ELSE Undisturbed =>
              \A p \in Pool : /\ keystore[p] \in KeysOf(Bundle(w)')
                              /\ pod[p].up => pod[p].leaf \in KeysOf(Bundle(w)')

\* The promotion finishes before the old anchor is pruned (pools_converged in
\* kafka.rs, mark_leafs_reissued in cluster_ca.rs): every leaf of that CA, in a
\* running broker or in a Secret, is by then of the key that stays.  For the users this
\* is so whatever pass ends early.
PruneAfterReissue == [][PrunesSpentTrust]_vars

LeavesByo == \A w \in byo : keySec'[w] = keySec[w] /\ certSec'[w] = certSec[w]

\* The operator never changes a BYO CA (plan_ca_rotation in cluster_ca.rs), also
\* while the other CA is rotated by the same passes.
ByoUntouched == [][LeavesByo]_vars

\* A key replacement that has begun comes to its end (the phases of
\* plan_ca_rotation), also after passes that failed half-way.
RotationCompletes ==
  \A w \in Cas : certSec[w].phase # "Idle" ~> certSec[w].phase = "Idle"

=============================================================================
