------------------------------- MODULE NodePool -------------------------------
(***************************************************************************)
(* The KafkaNodePool controller (controller/kafka_node_pool.rs) and the    *)
(* bootstrap state in the cluster-id Secret (controller/common.rs), over   *)
(* the pools of one Kafka.  The passes of different pools run at the same  *)
(* time; each is cut into the steps between two calls to the API server or *)
(* the brokers.  Around them users edit, create and delete pools, the      *)
(* StatefulSet controller starts and stops pods, brokers register, join    *)
(* the metadata quorum and receive replicas, and a drain proposal makes    *)
(* progress (module RebalanceContract).                                    *)
(*                                                                         *)
(*   pool      the KafkaNodePool: spec.replicas and storage, finalizer,    *)
(*             deletion mark, the recorded unregistrations, the replicas   *)
(*             in the status while it is Ready (0 when it is not), and     *)
(*             whether the reason is StorageImmutable                      *)
(*   role      spec.roles of each pool, which never changes                *)
(*   parent    the Kafka: its version verdict is awaited, is in, or the    *)
(*             Kafka is being deleted                                      *)
(*   tier      the persistence of the Kafka's local tiered storage         *)
(*   sts       spec.replicas of the StatefulSet, 0 when there is none      *)
(*   claims    its volumeClaimTemplates and whether they are deleted with  *)
(*             the pods (module PoolStorage)                               *)
(*   secret    the quorum bootstrap state                                  *)
(*   drain     the managed KafkaRebalance of a pool and a target size      *)
(*   running, disk, joining   pods, what is on their volume, and the       *)
(*             controllers among them that have not asked to join yet      *)
(*   registered, voters, hosts, moving   node ids: registered brokers, the *)
(*             voters, the brokers with a replica, those about to get one  *)
(*   queued    the pools that the controller will look at again            *)
(*   pc, pass  the pass of each pool and what it has read                  *)
(***************************************************************************)
EXTENDS Integers, FiniteSets, FiniteSetsExt, PoolStorage

CONSTANTS
  Pools,         \* names of pools
  Start,         \* spec.nodeIdStart of each
  MaxReplicas,   \* bound on spec.replicas
  Storages,      \* the storages that users try ...
  NewStorages,   \* ... and those that they create pools with
  Scenarios      \* where a behaviour starts and which events it may meet

None == "none"
Role == {"broker", "controller"}
Event == {"edit", "storage", "create", "delete", "cascade", "topic", "reassign", "fail", "abort"}

\* The roles and the sizes of the pools (0: no such pool), their storage and that of the
\* tier, whether the cluster is up already, and how often each event may happen.
Scenario == [role : [Pools -> SUBSET Role \ {{}}], size : [Pools -> 0 .. MaxReplicas],
             storage : Storages, tier : Seq([size : Nat, class : STRING, deleteClaim : BOOLEAN]),
             up : BOOLEAN, left : [Event -> Nat]]

ASSUME NodePoolAssumption ==
  /\ MaxReplicas \in Nat \ {0} /\ None \notin Pools /\ NewStorages \subseteq Storages
  /\ Start \in [Pools -> Nat]
  /\ \A s \in Scenarios : s \in Scenario

VARIABLES pool, role, parent, tier, sts, claims, secret, drain, running, disk, joining,
          registered, voters, hosts, moving, queued, pc, pass, left

cluster == <<running, disk, joining, registered, voters, hosts, moving>>
api == <<pool, parent, tier, sts, claims, secret, drain>>
control == <<queued, pc, pass>>
vars == <<api, cluster, control, role, left>>

Drains == Pools \X (0 .. MaxReplicas)
Pod == Pools \X (0 .. MaxReplicas - 1)
NodeId(pod) == Start[pod[1]] + pod[2]
Ids == {NodeId(pod) : pod \in Pod}
Ordinals(p) == {o \in 0 .. MaxReplicas - 1 : <<p, o>> \in running}
IsBroker(p) == "broker" \in role[p]
IsController(p) == "controller" \in role[p]
Happens(e) == left[e] > 0 /\ left' = [left EXCEPT ![e] = @ - 1]

NoPool == [exists |-> FALSE, replicas |-> 0, storage |-> Ephemeral, deleting |-> FALSE,
           finalizer |-> FALSE, unregistered |-> {}, ready |-> 0, refused |-> FALSE]
NewPool(n, storage) == [NoPool EXCEPT !.exists = TRUE, !.replicas = n, !.storage = storage]
NoClaims == [exists |-> FALSE, templates |-> {}, delete |-> FALSE]
Claims(storage, t) == [exists |-> TRUE, templates |-> render_storage(storage, t),
                       delete |-> render_pvc_retention_policy(storage, t)]
NoDrain == [brokers |-> {}, state |-> "absent", command |-> None]
NoPass == [seen |-> NoPool, bootstrap |-> None, initialized |-> FALSE,
           observed |-> 0, pods |-> {}, command |-> None, target |-> -1]

\* The pods of a cluster that is up: the first controller pod formed the quorum, the
\* others joined, and one broker has the replicas.
Init ==
  \E s \in Scenarios :
    LET up == IF s.up THEN {pod \in Pod : pod[2] < s.size[pod[1]]} ELSE {}
        up_with(r) == {NodeId(pod) : pod \in {q \in up : r \in s.role[q[1]]}}
        first == {id \in up_with("controller") : \A j \in up_with("controller") : id <= j}
    IN  /\ role = s.role /\ left = s.left
        /\ pool = [p \in Pools |->
             IF s.size[p] = 0 THEN NoPool
             ELSE [NewPool(s.size[p], s.storage) EXCEPT
                     !.finalizer = s.up, !.ready = IF s.up THEN s.size[p] ELSE 0]]
        /\ parent = IF s.up THEN "cleared" ELSE "waiting"
        /\ tier = s.tier
        /\ sts = [p \in Pools |-> IF s.up THEN s.size[p] ELSE 0]
        /\ claims = [p \in Pools |-> IF s.up /\ s.size[p] # 0 THEN Claims(s.storage, s.tier)
                                     ELSE NoClaims]
        /\ secret = [bootstrap |-> IF s.up THEN CHOOSE p \in Pools : Start[p] \in first ELSE None,
                     initialized |-> s.up]
        /\ drain = [d \in Drains |-> NoDrain]
        /\ running = up /\ joining = {}
        /\ disk = [pod \in Pod |-> IF pod \notin up THEN "blank"
                                   ELSE IF NodeId(pod) \in first THEN "standalone" ELSE "joiner"]
        /\ registered = up_with("broker") /\ voters = up_with("controller")
        /\ hosts \in {{id} : id \in registered} \cup (IF s.up THEN {} ELSE {{}})
        /\ moving = {}
        /\ queued = {p \in Pools : s.size[p] # 0}
        /\ pc = [p \in Pools |-> "idle"] /\ pass = [p \in Pools |-> NoPass]

-----------------------------------------------------------------------------
(* The pure part *)

validate(spec) == spec.replicas >= 1 /\ validate_storage(spec.storage)

\* Mutant: only the specs count, so the ids of pods that still run are free.
occupied_SpecOnly(p) == pool[p].replicas

\* What a pool holds: its spec, its live StatefulSet and its pods.
occupied(p) == Max({pool[p].replicas, sts[p]} \cup {o + 1 : o \in Ordinals(p)})

validate_topology(siblings) ==
  /\ \A p \in siblings : validate(pool[p])
  /\ \E p \in siblings : IsController(p)
  /\ \A p, q \in siblings :
       p # q => \/ Start[p] + occupied(p) <= Start[q]
                \/ Start[q] + occupied(q) <= Start[p]

pool_is_available(p) == pool[p].ready > 0 /\ pool[p].ready >= pool[p].replicas

\* The controller pool with the lowest start; None when there is no controller pool.
select_quorum_bootstrap(siblings) ==
  LET controllers == {p \in siblings : IsController(p)}
  IN  IF controllers = {} THEN None
      ELSE CHOOSE p \in controllers : \A q \in controllers : Start[p] <= Start[q]

Wanted(p) == IF pass[p].seen.deleting THEN 0 ELSE pass[p].seen.replicas
removed_broker_ids(p) == {Start[p] + o : o \in Wanted(p) .. pass[p].observed - 1}

\* A deletion also looks for the voters that the spec asks for.
removed_voter_ids(p) ==
  IF pass[p].seen.deleting
  THEN {Start[p] + o : o \in 0 .. Max({pass[p].observed, pass[p].seen.replicas}) - 1}
  ELSE removed_broker_ids(p)

-----------------------------------------------------------------------------
(* How a pass goes on and how it ends *)

Goto(p, step) == pc' = [pc EXCEPT ![p] = step] /\ UNCHANGED <<pass, queued>>
GotoWith(p, step, new) ==
  pc' = [pc EXCEPT ![p] = step] /\ pass' = [pass EXCEPT ![p] = new] /\ UNCHANGED queued
Requeue(p) ==
  pc' = [pc EXCEPT ![p] = "idle"] /\ pass' = [pass EXCEPT ![p] = NoPass] /\ UNCHANGED queued
\* Nothing but a change of the pool or its StatefulSet brings the pass back.
AwaitChange(p) ==
  /\ pc' = [pc EXCEPT ![p] = "idle"] /\ pass' = [pass EXCEPT ![p] = NoPass]
  /\ queued' = queued \ {p}

\* patch_status_for_pool with a Ready condition and, if it is True, readyReplicas.
SetReady(p, ready) == pool' = [pool EXCEPT ![p].ready = ready, ![p].refused = FALSE]

\* await_change after a patched condition.  The patch is itself a change of the pool,
\* unless it repeats the condition within the second that its timestamp has.
RefuseWith(p, refused) ==
  /\ pool' = [pool EXCEPT ![p].ready = 0, ![p].refused = refused]
  /\ Requeue(p) \/ (pool[p].ready = 0 /\ pool[p].refused = refused /\ AwaitChange(p))
Refuse(p) == RefuseWith(p, FALSE)

At(p, step) == pc[p] = step /\ UNCHANGED <<role, left>>

-----------------------------------------------------------------------------
(* reconcile_inner: the checks before anything is created *)

\* The pass works on the copy of the pool that it reads here.  The spec is checked first,
\* even when the pool is being deleted, and the version verdict of the parent last.  (A
\* deleted pool that only another finalizer holds is left alone.)
Read(p) ==
  LET seen == pool[p]
      read == [NoPass EXCEPT !.seen = seen]
  IN  /\ At(p, "idle") /\ p \in queued /\ seen.exists
      /\ \/ ~validate(seen) /\ Refuse(p)
         \/ /\ validate(seen) /\ seen.deleting /\ seen.finalizer
            /\ GotoWith(p, "observe", read) /\ UNCHANGED pool
         \/ /\ validate(seen) /\ ~seen.deleting /\ ~seen.finalizer
            /\ pool' = [pool EXCEPT ![p].finalizer = TRUE] /\ Requeue(p)
         \/ /\ validate(seen) /\ ~seen.deleting /\ seen.finalizer /\ parent # "cleared"
            /\ SetReady(p, 0) /\ Requeue(p)
         \/ /\ validate(seen) /\ ~seen.deleting /\ seen.finalizer /\ parent = "cleared"
            /\ GotoWith(p, "list", read) /\ UNCHANGED pool
      /\ UNCHANGED <<parent, tier, sts, claims, secret, drain, cluster>>

\* The lists of sibling pools, StatefulSets and pods.
List(p) ==
  LET siblings == {q \in Pools : pool[q].exists}
      waits == ~IsController(p)
                 /\ \E q \in siblings : IsController(q) /\ ~pool_is_available(q)
  IN  /\ At(p, "list")
      /\ \/ ~validate_topology(siblings) /\ Refuse(p)
         \/ validate_topology(siblings) /\ waits /\ SetReady(p, 0) /\ Requeue(p)
         \/ /\ validate_topology(siblings) /\ ~waits
            /\ GotoWith(p, "secret",
                 [pass[p] EXCEPT !.bootstrap = select_quorum_bootstrap(siblings)])
            /\ UNCHANGED pool
      /\ UNCHANGED <<parent, tier, sts, claims, secret, drain, cluster>>

\* Mutant: every pass chooses anew.
ReadSecret_Ignored(p) ==
  /\ At(p, "secret") /\ Goto(p, "choose")
  /\ UNCHANGED <<api, cluster>>

\* ensure_quorum_bootstrap_state: the state in the Secret wins ...
ReadSecret(p) ==
  /\ At(p, "secret")
  /\ \/ secret.bootstrap = None /\ Goto(p, "choose")
     \/ /\ secret.bootstrap # None
        /\ GotoWith(p, "size", [pass[p] EXCEPT !.bootstrap = secret.bootstrap,
                                                !.initialized = secret.initialized])
  /\ UNCHANGED <<api, cluster>>

\* ... and a Secret without one gets the candidate, by a merge patch.
ChooseBootstrap(p) ==
  /\ At(p, "choose")
  /\ secret' = [bootstrap |-> pass[p].bootstrap, initialized |-> FALSE]
  /\ Goto(p, "size")
  /\ UNCHANGED <<pool, parent, tier, sts, claims, drain, cluster>>

\* The live StatefulSet refuses a changed storage, and decides whether this pass removes
\* nodes.
ReadSize(p) ==
  LET observed == sts[p]
      kept == claims[p].exists => validate_storage_change(pass[p].seen.storage, claims[p].templates)
  IN  /\ At(p, "size")
      /\ \/ ~kept /\ RefuseWith(p, TRUE)
         \/ /\ kept /\ UNCHANGED pool
            /\ GotoWith(p, IF observed <= pass[p].seen.replicas THEN "apply"
                           ELSE IF IsBroker(p) THEN "drain" ELSE "voters",
                        [pass[p] EXCEPT !.observed = observed])
      /\ UNCHANGED <<parent, tier, sts, claims, secret, drain, cluster>>

-----------------------------------------------------------------------------
(* reconcile_broker_drain *)

Blocked(p) == SetReady(p, 0) /\ Requeue(p)

\* Mutant: a proposal waits for someone else's approval.
Drain_NoApproval(p) ==
  LET name == <<p, Wanted(p)>>
      d == drain[name]
      create == [brokers |-> removed_broker_ids(p), state |-> "New", command |-> None]
  IN  /\ At(p, "drain")
      /\ \/ /\ d.state = "absent"
            /\ drain' = [drain EXCEPT ![name] = create] /\ Blocked(p)
         \/ d.state \notin {"absent", "Ready"} /\ Blocked(p) /\ UNCHANGED drain
         \/ d.state = "Ready" /\ Goto(p, "assignments") /\ UNCHANGED <<pool, drain>>
      /\ UNCHANGED <<parent, tier, sts, claims, secret, cluster>>

\* The managed proposal is created, approved or awaited; every branch but a completed
\* proposal ends the pass.
Drain(p) ==
  LET name == <<p, Wanted(p)>>
      d == drain[name]
      matches == d.brokers = removed_broker_ids(p)
      create == [brokers |-> removed_broker_ids(p), state |-> "New", command |-> None]
  IN  /\ At(p, "drain")
      /\ \/ /\ d.state = "absent"
            /\ drain' = [drain EXCEPT ![name] = create] /\ Blocked(p)
         \/ d.state # "absent" /\ ~matches /\ Blocked(p) /\ UNCHANGED drain
         \/ /\ d.state = "ProposalReady" /\ matches
            /\ drain' = [drain EXCEPT ![name].command = "approve"] /\ Blocked(p)
         \/ /\ d.state \in {"New", "Rebalancing", "NotReady", "Stopped"} /\ matches
            /\ Blocked(p) /\ UNCHANGED drain
         \/ /\ d.state = "Ready" /\ matches /\ UNCHANGED <<pool, drain>>
            /\ GotoWith(p, "assignments", [pass[p] EXCEPT !.command = d.command])
      /\ UNCHANGED <<parent, tier, sts, claims, secret, cluster>>

\* Mutant: a completed proposal is taken for an empty broker.
ReadAssignments_Trusted(p) ==
  /\ At(p, "assignments") /\ Goto(p, "moves")
  /\ UNCHANGED <<api, cluster>>

\* A replica that came after the proposal asks for a new one, unless the proposal had a
\* command when the pass read it.
ReadAssignments(p) ==
  LET stays == hosts \cap removed_broker_ids(p) # {}
  IN  /\ At(p, "assignments")
      /\ \/ /\ stays /\ Blocked(p)
            /\ drain' = IF pass[p].command # None THEN drain
                        ELSE [drain EXCEPT ![<<p, Wanted(p)>>].command = "refresh"]
         \/ ~stays /\ Goto(p, "moves") /\ UNCHANGED <<pool, drain>>
      /\ UNCHANGED <<parent, tier, sts, claims, secret, cluster>>

\* Mutant: the brokers stay registered.
ReadMoves_NoUnregister(p) ==
  /\ At(p, "moves")
  /\ Goto(p, IF IsController(p) THEN "voters"
             ELSE IF pass[p].seen.deleting THEN "scale" ELSE "apply")
  /\ UNCHANGED <<api, cluster>>

\* Every id that is not recorded is unregistered, one in a pass; then the voters follow.
ReadMoves(p) ==
  LET todo == removed_broker_ids(p) \ pass[p].seen.unregistered
  IN  /\ At(p, "moves")
      /\ \/ moving \cap removed_broker_ids(p) # {} /\ Blocked(p)
         \/ /\ moving \cap removed_broker_ids(p) = {} /\ UNCHANGED pool
            /\ \/ /\ todo # {}
                  /\ GotoWith(p, "unregister", [pass[p] EXCEPT !.target = Min(todo)])
               \/ /\ todo = {}
                  /\ Goto(p, IF IsController(p) THEN "voters"
                             ELSE IF pass[p].seen.deleting THEN "scale" ELSE "apply")
      /\ UNCHANGED <<parent, tier, sts, claims, secret, drain, cluster>>

Unregister(p) ==
  /\ At(p, "unregister")
  /\ registered' = registered \ {pass[p].target}
  /\ Goto(p, "record")
  /\ UNCHANGED <<api, running, disk, joining, voters, hosts, moving>>

\* The annotation is written whole, from the ids that the pass read.
Record(p) ==
  /\ At(p, "record")
  /\ pool' = [pool EXCEPT ![p].ready = 0, ![p].refused = FALSE,
                          ![p].unregistered = pass[p].seen.unregistered \cup {pass[p].target}]
  /\ Requeue(p)
  /\ UNCHANGED <<parent, tier, sts, claims, secret, drain, cluster>>

-----------------------------------------------------------------------------
(* reconcile_controller_scale_down and the same steps of reconcile_deletion *)

\* Two deletions never describe and remove at the same time: they hold the lock of the
\* one admin client of the bootstrap address.  A scale-down removes through the client
\* of the leader's address.
AdminLocked(p) ==
  pass[p].seen.deleting
    /\ \E q \in Pools \ {p} : pc[q] = "remove" /\ pass[q].seen.deleting

ReadVoters(p) ==
  LET found == voters \cap removed_voter_ids(p)
  IN  /\ At(p, "voters") /\ ~AdminLocked(p)
      /\ \/ /\ found = {}
            /\ Goto(p, IF pass[p].seen.deleting THEN "scale" ELSE "apply") /\ UNCHANGED pool
         \/ found # {} /\ Cardinality(voters) = 1 /\ Blocked(p)
         \/ /\ found # {} /\ Cardinality(voters) # 1
            /\ GotoWith(p, "remove", [pass[p] EXCEPT !.target = Max(found)]) /\ UNCHANGED pool
      /\ UNCHANGED <<parent, tier, sts, claims, secret, drain, cluster>>

\* A deletion removes the voter without a word in the status.
RemoveVoter(p) ==
  /\ At(p, "remove")
  /\ voters' = voters \ {pass[p].target}
  /\ Requeue(p)
  /\ IF pass[p].seen.deleting THEN UNCHANGED pool ELSE SetReady(p, 0)
  /\ UNCHANGED <<parent, tier, sts, claims, secret, drain,
                 running, disk, joining, registered, hosts, moving>>

-----------------------------------------------------------------------------
(* reconcile_inner: render and report *)

\* The API server keeps the claim templates of a StatefulSet as they are: it rejects a
\* pass that asks for others.
Applicable(p, storage) ==
  /\ ~retention_conflict(storage, tier)
  /\ claims[p].exists => claims[p].templates = render_storage(storage, tier)

\* A failed rendering or apply ends the pass without a condition.
ApplySts(p) ==
  LET seen == pass[p].seen
  IN  /\ At(p, "apply")
      /\ \/ /\ Applicable(p, seen.storage)
            /\ sts' = [sts EXCEPT ![p] = seen.replicas]
            /\ claims' = [claims EXCEPT ![p] = Claims(seen.storage, tier)]
            /\ Goto(p, "status")
         \/ ~Applicable(p, seen.storage) /\ Requeue(p) /\ UNCHANGED <<sts, claims>>
      /\ UNCHANGED <<pool, parent, tier, secret, drain, cluster>>

\* derive_status and evaluate_pool_readiness: as many pods as the spec asks for, and each
\* controller among them a voter.  A pool that is ready and was chosen for the bootstrap
\* closes it, then the status is patched.
WriteStatus(p) ==
  LET want == {<<p, o>> : o \in 0 .. pass[p].seen.replicas - 1}
      ready == /\ Cardinality(Ordinals(p)) = pass[p].seen.replicas
               /\ IsController(p) => {NodeId(pod) : pod \in want} \subseteq voters
      closes == ready /\ ~pass[p].initialized /\ pass[p].bootstrap = p
  IN  /\ At(p, "status")
      /\ secret' = IF closes THEN [secret EXCEPT !.initialized = TRUE] ELSE secret
      /\ SetReady(p, IF ready THEN pass[p].seen.replicas ELSE 0)
      /\ Requeue(p)
      /\ UNCHANGED <<parent, tier, sts, claims, drain, cluster>>

-----------------------------------------------------------------------------
(* reconcile_deletion *)

\* What is live: the StatefulSet and the pods.  Without a parent nothing is drained.
Observe(p) ==
  LET live == Max({sts[p]} \cup {o + 1 : o \in Ordinals(p)})
  IN  /\ At(p, "observe")
      /\ GotoWith(p, IF parent = "deleting" THEN "scale"
                     ELSE IF IsBroker(p) /\ live > 0 THEN "drain"
                     ELSE IF IsController(p) THEN "voters" ELSE "scale",
                  [pass[p] EXCEPT !.observed = live, !.pods = Ordinals(p)])
      /\ UNCHANGED <<api, cluster>>

\* The finalizer stays until the pods that the pass listed are gone.
ScaleToZero(p) ==
  /\ At(p, "scale")
  /\ sts' = [sts EXCEPT ![p] = 0]
  /\ IF pass[p].pods # {} THEN Requeue(p) ELSE Goto(p, "release")
  /\ UNCHANGED <<pool, parent, tier, claims, secret, drain, cluster>>

\* The drain of the deletion goes, then the finalizer, and with it the pool and its
\* StatefulSet.
Release(p) ==
  /\ At(p, "release")
  /\ claims' = [claims EXCEPT ![p] = NoClaims]
  /\ drain' = IF IsBroker(p) THEN [drain EXCEPT ![<<p, 0>>] = NoDrain] ELSE drain
  /\ pool' = [pool EXCEPT ![p] = NoPool]
  /\ AwaitChange(p)
  /\ UNCHANGED <<parent, tier, sts, secret, cluster>>

\* An API or admin call fails, its answer is lost, or the operator restarts: the pass ends
\* and error_policy queues the pool again.
Abort(p) ==
  /\ pc[p] # "idle" /\ Happens("abort")
  /\ Requeue(p)
  /\ UNCHANGED <<api, cluster, role>>

\* admin_client_for and the calls through it need a broker of a formed quorum.
Reachable == \E pod \in running : NodeId(pod) \in voters
NoAnswer(p) ==
  /\ pc[p] \in {"assignments", "moves", "unregister", "voters", "remove"} /\ ~Reachable
  /\ Requeue(p)
  /\ UNCHANGED <<api, cluster, role, left>>

PassStep(p) ==
  \/ Read(p) \/ List(p) \/ ReadSecret(p) \/ ChooseBootstrap(p) \/ ReadSize(p)
  \/ Drain(p) \/ Record(p) \/ ApplySts(p) \/ WriteStatus(p)
  \/ Reachable /\ (ReadAssignments(p) \/ ReadMoves(p) \/ Unregister(p)
                     \/ ReadVoters(p) \/ RemoveVoter(p))
  \/ NoAnswer(p)
  \/ Observe(p) \/ ScaleToZero(p) \/ Release(p)

-----------------------------------------------------------------------------
(* Users and the Kafka controller *)

Wake(p) == queued' = queued \cup {p} /\ UNCHANGED <<pc, pass>>
UserStep(p, new) ==
  /\ pool' = [pool EXCEPT ![p] = new] /\ Wake(p)
  /\ UNCHANGED <<parent, tier, sts, claims, secret, drain, cluster, role>>

\* Users resize a pool that reports Ready.  (A pod removed while it comes up may register
\* after its id was unregistered and recorded.)
Edit(p, n) ==
  /\ pool[p].exists /\ pool[p].ready > 0 /\ n # pool[p].replicas
  /\ Happens("edit") /\ UserStep(p, [pool[p] EXCEPT !.replicas = n])

EditStorage(p, storage) ==
  /\ pool[p].exists /\ storage # pool[p].storage
  /\ Happens("storage") /\ UserStep(p, [pool[p] EXCEPT !.storage = storage])

CreatePool(p, n, storage) ==
  /\ ~pool[p].exists /\ running \cap ({p} \X Nat) = {}
  /\ Happens("create") /\ UserStep(p, NewPool(n, storage))

\* An object without a finalizer goes at once.
DeletePool(p) ==
  /\ pool[p].exists /\ ~pool[p].deleting /\ Happens("delete")
  /\ UserStep(p, IF pool[p].finalizer THEN [pool[p] EXCEPT !.deleting = TRUE] ELSE NoPool)

Verdict ==
  /\ parent = "waiting" /\ parent' = "cleared"
  /\ UNCHANGED <<pool, tier, sts, claims, secret, drain, cluster, control, role, left>>

\* The Kafka is deleted: its pools go with it (owner references).
Cascade ==
  /\ parent # "deleting" /\ parent' = "deleting" /\ Happens("cascade")
  /\ pool' = [p \in Pools |-> IF pool[p].finalizer THEN [pool[p] EXCEPT !.deleting = TRUE]
                              ELSE NoPool]
  /\ queued' = Pools /\ UNCHANGED <<pc, pass, tier, sts, claims, secret, drain, cluster, role>>

-----------------------------------------------------------------------------
(* Pods and brokers *)

\* The StatefulSet controller starts a pod.  INIT_SCRIPT formats a blank volume: as the
\* one voter of a new quorum when the Secret says so, otherwise to join.  The broker
\* then registers.  A pool without bootstrap state has no Secret keys to start from.  An
\* emptyDir starts blank.
HasData(p) == \E t \in claims[p].templates : t.name = <<"data">>
StartPod(pod) ==
  LET p == pod[1]
      blank == disk[pod] = "blank" \/ ~HasData(p)
      standalone == /\ ~secret.initialized /\ secret.bootstrap = p /\ pod[2] = 0
      format == IF standalone THEN "standalone" ELSE "joiner"
  IN  /\ pod \notin running /\ pod[2] < sts[p] /\ secret.bootstrap # None
      /\ running' = running \cup {pod}
      /\ disk' = IF blank THEN [disk EXCEPT ![pod] = format] ELSE disk
      /\ voters' = IF blank /\ standalone /\ IsController(p)
                   THEN voters \cup {NodeId(pod)} ELSE voters
      /\ joining' = IF IsController(p) THEN joining \cup {pod} ELSE joining
      /\ registered' = IF IsBroker(p) THEN registered \cup {NodeId(pod)} ELSE registered
      /\ Wake(p)
      /\ UNCHANGED <<api, hosts, moving, role, left>>

\* A pod above the size of the StatefulSet goes, and its volume with it, unless it is on
\* a claim that is retained.
StopPod(pod) ==
  LET retained == HasData(pod[1]) /\ ~claims[pod[1]].delete
  IN  /\ pod \in running /\ pod[2] >= sts[pod[1]]
      /\ running' = running \ {pod} /\ joining' = joining \ {pod}
      /\ disk' = IF retained THEN disk ELSE [disk EXCEPT ![pod] = "blank"]
      /\ Wake(pod[1])
      /\ UNCHANGED <<api, registered, voters, hosts, moving, role, left>>

\* auto_join: a controller that started asks the quorum once.
Join(pod) ==
  /\ pod \in joining /\ voters # {}
  /\ joining' = joining \ {pod} /\ voters' = voters \cup {NodeId(pod)}
  /\ UNCHANGED <<api, running, disk, registered, hosts, moving, control, role, left>>

\* A new partition, or a reassignment by someone else, picks a registered broker.
Live(id) == id \in registered /\ \E pod \in running : NodeId(pod) = id
CreateTopic(id) ==
  /\ Live(id) /\ id \notin hosts /\ Happens("topic")
  /\ hosts' = hosts \cup {id}
  /\ UNCHANGED <<api, running, disk, joining, registered, voters, moving, control, role>>
Reassign(id) ==
  /\ Live(id) /\ id \notin moving /\ Happens("reassign")
  /\ moving' = moving \cup {id}
  /\ UNCHANGED <<api, running, disk, joining, registered, voters, hosts, control, role>>
FinishMove(id) ==
  /\ id \in moving
  /\ moving' = moving \ {id} /\ hosts' = hosts \cup {id}
  /\ UNCHANGED <<api, running, disk, joining, registered, voters, control, role, left>>

-----------------------------------------------------------------------------
(* The managed KafkaRebalance: a resource that changes as RebalanceContract allows *)

Managed(name) ==
  INSTANCE RebalanceContract WITH state <- drain[name].state, command <- drain[name].command

SetDrain(name, state, command) ==
  /\ drain' = [drain EXCEPT ![name].state = state, ![name].command = command]
  /\ Managed(name)!Next

\* A proposal is computed, also again on request, and executed on approval; an approval
\* of anything else is dropped.
ServeDrain(name) ==
  LET d == drain[name]
  IN  /\ \/ d.command = "refresh" /\ SetDrain(name, "New", None)
         \/ d.state = "New" /\ d.command # "refresh" /\ SetDrain(name, "ProposalReady", d.command)
         \/ d.state = "ProposalReady" /\ d.command = "approve" /\ SetDrain(name, "Rebalancing", None)
         \/ /\ d.state \in {"Rebalancing", "Ready", "NotReady"} /\ d.command = "approve"
            /\ SetDrain(name, d.state, None)
      /\ UNCHANGED <<pool, parent, tier, sts, claims, secret, cluster, control, role, left>>

\* An execution moves every replica off the removed brokers; where to is the planner's
\* choice.  Without another broker it fails.
FinishDrain(name) ==
  LET d == drain[name]
      leaves == hosts \cap d.brokers # {}
      others == {id \in Ids \ d.brokers : Live(id)}
  IN  /\ d.state = "Rebalancing"
      /\ \/ ~leaves /\ SetDrain(name, "Ready", d.command) /\ UNCHANGED hosts
         \/ /\ leaves /\ SetDrain(name, "Ready", d.command)
            /\ \E id \in others : hosts' = (hosts \ d.brokers) \cup {id}
         \/ leaves /\ others = {} /\ SetDrain(name, "NotReady", d.command) /\ UNCHANGED hosts
      /\ UNCHANGED <<pool, parent, tier, sts, claims, secret, running, disk, joining, registered, voters,
                     moving, control, role, left>>

FailDrain(name) ==
  /\ drain[name].state \in {"New", "ProposalReady", "Rebalancing"} /\ Happens("fail")
  /\ SetDrain(name, "NotReady", drain[name].command)
  /\ UNCHANGED <<pool, parent, tier, sts, claims, secret, cluster, control, role>>

-----------------------------------------------------------------------------
PodStep(pod) == StartPod(pod) \/ StopPod(pod) \/ Join(pod)
DrainStep(name) == ServeDrain(name) \/ FinishDrain(name)

Next ==
  \/ \E p \in Pools : PassStep(p) \/ Abort(p) \/ DeletePool(p)
  \/ \E p \in Pools, n \in 0 .. MaxReplicas : Edit(p, n)
  \/ \E p \in Pools, storage \in Storages : EditStorage(p, storage)
  \/ \E p \in Pools, n \in 1 .. MaxReplicas, storage \in NewStorages : CreatePool(p, n, storage)
  \/ Verdict \/ Cascade
  \/ \E pod \in Pod : PodStep(pod)
  \/ \E id \in Ids : CreateTopic(id) \/ Reassign(id) \/ FinishMove(id)
  \/ \E name \in DOMAIN drain : DrainStep(name) \/ FailDrain(name)

Spec == Init /\ [][Next]_vars

\* A queued pass is run and goes on, the parent gets its verdict, pods start, stop and
\* join, and reassignments and proposals come to an end.
Fairness ==
  /\ \A p \in Pools : WF_vars(PassStep(p))
  /\ WF_vars(Verdict)
  /\ WF_vars(\E pod \in Pod : PodStep(pod))
  /\ WF_vars(\E id \in Ids : FinishMove(id))
  /\ WF_vars(\E name \in Drains : DrainStep(name))

FairSpec == Spec /\ Fairness

-----------------------------------------------------------------------------
(* Properties *)

\* "Keep the broker running" (reconcile_broker_drain): no StatefulSet is scaled below a
\* broker that has a replica or a controller that has a vote, whenever topics are created,
\* reassignments end and controllers join, unless the whole Kafka is deleted.
NoStrandedNode ==
  parent # "deleting" =>
    \A id \in hosts \cup voters : \E p \in Pools, o \in 0 .. MaxReplicas - 1 :
      NodeId(<<p, o>>) = id /\ o < sts[p]

\* "Hold pod removal behind ... one recorded UnregisterBroker call per removed id"
\* (reconcile_broker_drain): a StatefulSet shrinks only below unregistered brokers.
UnregisteredFirst ==
  [][\A p \in Pools, o \in 0 .. MaxReplicas - 1 :
       sts'[p] <= o /\ o < sts[p] /\ IsBroker(p) /\ parent # "deleting"
         => NodeId(<<p, o>>) \notin registered]_vars

\* "One deterministic standalone bootstrap controller" (reconcile_inner) and "cannot delete
\* the last metadata-quorum voter" (reconcile_deletion, reconcile_controller_scale_down):
\* two quorums are never formatted, and the one that was keeps a voter, whichever pools are
\* scaled down and deleted at the same time.  It takes that the first pools exist before
\* any of them is reconciled, or that the choice is recorded before another is created:
\* two passes that both read a Secret without one record different controllers.
OneQuorum ==
  LET formatted == {pod \in Pod : disk[pod] = "standalone"}
  IN  Cardinality(formatted) <= 1 /\ (formatted # {} => voters # {})

\* "Preventing a concurrent shrink/add from reusing node ids" (validate_topology).
NodeIdsDisjoint == \A a, b \in running : NodeId(a) = NodeId(b) => a = b

\* What a pool reports and cannot resolve: a proposal failed, node ids overlap, or they
\* did and a pool that was refused awaits a change.
Reported == \/ \E name \in Drains : drain[name].state = "NotReady"
            \/ ~validate_topology({p \in Pools : pool[p].exists})
            \/ \E p \in Pools : pool[p].exists /\ ~pool[p].refused /\ p \notin queued

\* "Rejections (all map to Ready=False, reason=StorageImmutable)" (validate_storage_change)
\* are for changes: a pool is refused only when its storage is not the one that its
\* StatefulSet has.
RefusalMeansChange ==
  [][\A p \in Pools : pool'[p].refused /\ ~pool[p].refused
       => claims[p].templates # render_storage(pass[p].seen.storage, tier)]_vars

\* A storage that is invalid or that was changed is refused in the status.  One that may
\* be larger, or whose deleteClaim contradicts the tier's, only fails.
StorageRefused(p) ==
  /\ pool[p].ready = 0
  /\ ~validate(pool[p]) \/ pool[p].refused
StorageFails(p) ==
  /\ pool[p].exists /\ ~pool[p].deleting /\ ~Applicable(p, pool[p].storage)
  /\ claims[p].exists => validate_storage_change(pool[p].storage, claims[p].templates)

\* A deletion waits when the pool has the last voter ("LastVoterDeletionBlocked") or no
\* broker outside the deleted pools can take its replicas.
DeletionBlocked(p) ==
  LET ids(S) == {Start[q] + o : q \in S, o \in 0 .. MaxReplicas - 1}
  IN  \/ voters \subseteq ids({p})
      \/ {id \in Ids : Live(id)} \subseteq ids({q \in Pools : pool[q].deleting})

\* Every pass "ends" somewhere: once users leave the pools alone, each pool is gone with
\* its pods, or has the size and the storage of its spec and is ready, or there is a reason
\* that some pool reports (or, StorageFails, that only the operator's log has): a new
\* cluster comes up, scale-downs and deletions go through their drain.
Settled(p) ==
  \/ ~pool[p].exists /\ Ordinals(p) = {}
  \/ /\ pool[p].exists /\ ~pool[p].deleting /\ sts[p] = pool[p].replicas
     /\ claims[p] = Claims(pool[p].storage, tier)
     /\ pool[p].ready > 0 \/ \E q \in Pools : pool[q].deleting
  \/ StorageRefused(p) \/ StorageFails(p)
  \/ pool[p].deleting /\ DeletionBlocked(p)
  \/ Reported
PoolsSettle == <>[](\A p \in Pools : Settled(p))
=============================================================================
