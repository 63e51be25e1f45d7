----------------------------- MODULE PoolStorage -----------------------------
(***************************************************************************)
(* spec.storage of a KafkaNodePool (crd/kafka_node_pool.rs) and what       *)
(* controller/kafka_node_pool.rs makes of it: the volumeClaimTemplates and *)
(* the retention policy of the StatefulSet, and the checks of a new        *)
(* storage alone and against the live templates.                           *)
(*                                                                         *)
(* A storage has a kind, its volumes (none when Ephemeral, one when        *)
(* PersistentClaim) and deleteClaim.  A tier is the persistence of the     *)
(* parent's local tiered storage: a sequence of at most one volume with    *)
(* deleteClaim.  Sizes are numbers of bytes, Unparsed when the quantity    *)
(* is malformed.                                                           *)
(***************************************************************************)
EXTENDS Integers, Sequences, FiniteSets

Unparsed == -1
Kind == {"Ephemeral", "PersistentClaim", "Jbod"}

Volume(id, size, class) == [id |-> id, size |-> size, class |-> class]
Ephemeral == [kind |-> "Ephemeral", volumes |-> <<>>, deleteClaim |-> FALSE]
PersistentClaim(size, class, delete) ==
  [kind |-> "PersistentClaim", volumes |-> <<Volume(0, size, class)>>, deleteClaim |-> delete]
Jbod(volumes, delete) == [kind |-> "Jbod", volumes |-> volumes, deleteClaim |-> delete]
TierPersistence(size, class, delete) ==
  <<[size |-> size, class |-> class, deleteClaim |-> delete]>>

Volumes(storage) == {storage.volumes[i] : i \in DOMAIN storage.volumes}
\* The disk with the lowest id.
Primary(storage) == CHOOSE v \in Volumes(storage) : \A w \in Volumes(storage) : v.id <= w.id
Extras(storage) == Volumes(storage) \ {Primary(storage)}

\* The storage part of validate.
validate_storage(storage) ==
  /\ \A v \in Volumes(storage) : v.size # Unparsed
  /\ storage.kind = "Jbod" =>
       /\ Len(storage.volumes) >= 2
       /\ \A i, j \in DOMAIN storage.volumes :
            storage.volumes[i].id = storage.volumes[j].id => i = j

-----------------------------------------------------------------------------
(* What the StatefulSet gets *)

pvc_template(name, v) == [name |-> name, size |-> v.size, class |-> v.class]

\* The primary disk has the name of a single claim.
jbod_mount(v, is_primary) == IF is_primary THEN <<"data">> ELSE <<"data", v.id>>

Tier == <<"tier-storage">>

\* The claim templates: one for each disk, and one for a persistent tier.
render_storage(storage, tier) ==
  {pvc_template(jbod_mount(v, v = Primary(storage)), v) : v \in Volumes(storage)}
    \cup {pvc_template(Tier, tier[i]) : i \in DOMAIN tier}

\* The one policy of all claims: the pool's flag, or the tier's when the pool has none.
render_pvc_retention_policy(storage, tier) ==
  IF storage.kind # "Ephemeral" THEN storage.deleteClaim
  ELSE \E i \in DOMAIN tier : tier[i].deleteClaim

\* Two flags that disagree cannot be rendered.
retention_conflict(storage, tier) ==
  storage.kind # "Ephemeral" /\ \E i \in DOMAIN tier : tier[i].deleteClaim # storage.deleteClaim

-----------------------------------------------------------------------------
(* A new storage against the templates of the live StatefulSet *)

\* The kind is told by the number of claims.
observed_storage_kind(templates) ==
  CASE templates = {} -> "Ephemeral"
    [] Cardinality(templates) = 1 -> "PersistentClaim"
    [] OTHER -> "Jbod"

\* Same class, and not smaller.
check_class_and_shrink(v, template) == v.class = template.class /\ v.size >= template.size

\* The disks besides the primary are the same, and every disk keeps its class and its
\* size.
validate_jbod_change(storage, templates) ==
  LET named(name) == {t \in templates : t.name = name}
  IN  /\ {jbod_mount(v, FALSE) : v \in Extras(storage)}
           = {t.name : t \in {t \in templates : Len(t.name) = 2}}
      /\ \A t \in named(<<"data">>) : check_class_and_shrink(Primary(storage), t)
      /\ \A v \in Extras(storage) : \A t \in named(jbod_mount(v, FALSE)) :
           check_class_and_shrink(v, t)

validate_storage_change(storage, templates) ==
  /\ storage.kind = observed_storage_kind(templates)
  /\ storage.kind = "PersistentClaim" =>
       \A t \in templates : check_class_and_shrink(Primary(storage), t)
  /\ storage.kind = "Jbod" => validate_jbod_change(storage, templates)
=============================================================================
