---------------------------- MODULE LeaderElection ----------------------------
(***************************************************************************)
(* Leader election of the operator replicas on one Kubernetes Lease        *)
(* (leader_election.rs) and the process lifecycle around it (run.rs,       *)
(* health.rs).  Every replica runs `acquire`, then the renewal loop beside *)
(* its controllers, then `release`.                                        *)
(*                                                                         *)
(* The API server is modelled from how the code uses it.  A GET returns a  *)
(* snapshot, which is judged in a later step.  A create or a replace is a  *)
(* request in `net`: it may be applied late, after its caller gave up, was *)
(* aborted or died.  A replace carries the resourceVersion of the read;    *)
(* the model keeps only what the server asks of it, whether the lease was  *)
(* written since (`fresh`).                                                *)
(*                                                                         *)
(* Time is relative, so the state space is finite: `secs` is the age of a  *)
(* renewTime in whole seconds of the wall clock, as is_expired computes    *)
(* it, `since` the ticks since the last successful renewal, `timer` the    *)
(* ticks of sleep that are left.  All replicas read one clock.             *)
(***************************************************************************)
EXTENDS Naturals, FiniteSets

CONSTANTS
  Replica,         \* pod names: the identities of the replicas
  Vacant, Absent,  \* no holder; no Lease object
  LeaseDuration,   \* leader_lease_duration, in whole seconds
  RetryInterval,   \* leader_retry_interval, in ticks
  TicksPerSecond,
  Timely,          \* TRUE: steps and API calls take no time
  Faults,          \* which of the fault actions below may happen
  MaxInFlight      \* bound on the requests in the network

\* config.rs validates the two intervals before anything else runs.
ASSUME ConfigAssumption ==
  /\ LeaseDuration \in Nat \ {0}
  /\ TicksPerSecond \in Nat \ {0}
  /\ RetryInterval \in 1 .. (LeaseDuration * TicksPerSecond - 1)
  /\ Timely \in BOOLEAN
  /\ MaxInFlight \in Nat

ASSUME IdentityAssumption ==
  /\ Vacant \notin Replica /\ Absent \notin Replica /\ Vacant # Absent
  /\ IsFiniteSet(Replica)

VARIABLES
  lease,   \* the stored Lease
  net,     \* writes that the API server has not applied yet
  frac,    \* the wall clock within the current second, in ticks
  phase,   \* health.rs Phase of each replica
  pc,      \* where its lease task is
  read,    \* the Lease that its last GET returned
  fresh,   \* that Lease was not written since
  reply,   \* the answer to its outstanding write
  timer,   \* ticks left of its sleep
  since    \* ticks since last_success

apiVars == <<lease, net, fresh, reply>>
taskVars == <<phase, pc, read, timer, since>>
vars == <<lease, net, frac, phase, pc, read, fresh, reply, timer, since>>

Stale == LeaseDuration + 1              \* ages count no further than this
Deadline == LeaseDuration * TicksPerSecond
Holder == Replica \cup {Vacant, Absent}
Lease == [holder : Holder, secs : 0 .. Stale]
Request == [from : Replica, kind : {"create", "claim", "renew", "release"},
            lease : Lease, fresh : BOOLEAN, live : BOOLEAN]

AcquirePc == {"acquire", "decide", "createWait", "claimWait", "retry"}
RenewPc == {"renewSleep", "renewDecide", "renewWait"}
ReleasePc == {"release", "releaseDecide", "releaseWait"}
Waiting == {"createWait", "claimWait", "renewWait", "releaseWait"}

NoLease == [holder |-> Absent, secs |-> 0]
LeaseOf(h) == [holder |-> h, secs |-> 0]       \* renewTime is now

held_by_us(l, r) == l.holder = r
is_vacant(l) == l.holder = Vacant
\* Mutant: the comparison of is_expired is not strict.
is_expired_AtDuration(l) == l.secs >= LeaseDuration
is_expired(l) == l.secs > LeaseDuration
\* Mutant: only a released lease is claimable.
is_claimable_OnlyVacant(l) == is_vacant(l)
is_claimable(l) == is_vacant(l) \/ is_expired(l)

\* The controllers of r run.  They run until they are stopped, also while the
\* process is Stopping; they have stopped before the release begins.
Reconciling(r) == pc[r] \in RenewPc \cup {"ended"}

-------------------------------------------------------------------------------
Init ==
  /\ lease = NoLease
  /\ net = {}
  /\ frac = 0
  /\ phase = [r \in Replica |-> "Standby"]
  /\ pc = [r \in Replica |-> "acquire"]
  /\ read = [r \in Replica |-> NoLease]
  /\ fresh = [r \in Replica |-> FALSE]
  /\ reply = [r \in Replica |-> "none"]
  /\ timer = [r \in Replica |-> 0]
  /\ since = [r \in Replica |-> 0]

\* Nobody waits any more for the writes that r has sent.
Abandon(r) == {IF m.from = r THEN [m EXCEPT !.live = FALSE] ELSE m : m \in net}

\* The decision is made: the snapshot of the GET goes out of scope.
Forget(r) ==
  /\ read' = [read EXCEPT ![r] = NoLease]
  /\ fresh' = [fresh EXCEPT ![r] = FALSE]
  /\ UNCHANGED <<lease, reply, frac>>

\* Mutant: the replace does not carry the resourceVersion of the read.
Send_Unconditional(r, k, l) ==
  /\ Cardinality(net) < MaxInFlight
  /\ net' = net \cup {[from |-> r, kind |-> k, lease |-> l, fresh |-> TRUE, live |-> TRUE]}

Send(r, k, l) ==
  /\ Cardinality(net) < MaxInFlight
  /\ net' = net \cup {[from |-> r, kind |-> k, lease |-> l,
                       fresh |-> fresh[r], live |-> TRUE]}

Get(r) ==
  /\ read' = [read EXCEPT ![r] = lease]
  /\ fresh' = [fresh EXCEPT ![r] = TRUE]
  /\ UNCHANGED <<lease, net, reply>>

\* The process ends: its tasks are gone, its requests are not.
Exit(r) ==
  /\ phase' = [phase EXCEPT ![r] = "Down"]
  /\ pc' = [pc EXCEPT ![r] = "off"]
  /\ read' = [read EXCEPT ![r] = NoLease]
  /\ fresh' = [fresh EXCEPT ![r] = FALSE]
  /\ reply' = [reply EXCEPT ![r] = "none"]
  /\ timer' = [timer EXCEPT ![r] = 0]
  /\ since' = [since EXCEPT ![r] = 0]
  /\ net' = Abandon(r)
  /\ UNCHANGED <<lease, frac>>

\* The caller has taken the answer of its write.
Answered(r) ==
  /\ reply' = [reply EXCEPT ![r] = "none"]
  /\ UNCHANGED <<lease, net, frac, read, fresh>>

Goto(r, p) == pc' = [pc EXCEPT ![r] = p]

\* Mutant: the retry sleep backs off.
SleepAt_Backoff(r, p) == Goto(r, p) /\ timer' = [timer EXCEPT ![r] = 2 * RetryInterval]

SleepAt(r, p) == Goto(r, p) /\ timer' = [timer EXCEPT ![r] = RetryInterval]

\* `acquire` returns: the renewal loop starts with last_success = now, and run
\* advances to Leading and spawns the controllers.
Lead(r) ==
  /\ phase' = [phase EXCEPT ![r] = "Leading"]
  /\ SleepAt(r, "renewSleep")
  /\ since' = [since EXCEPT ![r] = 0]

-------------------------------------------------------------------------------
(* The API server. *)

\* A create succeeds if there is no object; a replace if its resourceVersion is
\* the stored one.  A write outdates every other snapshot.
Apply(m) ==
  LET ok == IF m.kind = "create" THEN lease.holder = Absent ELSE m.fresh
      rest == net \ {m}
  IN  /\ m \in net
      /\ lease' = IF ok THEN m.lease ELSE lease
      /\ net' = IF ok THEN {[n EXCEPT !.fresh = FALSE] : n \in rest} ELSE rest
      /\ fresh' = IF ok THEN [r \in Replica |-> FALSE] ELSE fresh
      /\ reply' = IF m.live
                  THEN [reply EXCEPT ![m.from] = IF ok THEN "ok" ELSE "conflict"]
                  ELSE reply
      /\ UNCHANGED <<frac, taskVars>>

\* The call fails at its caller.  The request is lost, or it is still on its way,
\* or it was applied and its answer is lost.
ApiError(r) ==
  /\ pc[r] \in Waiting /\ reply[r] # "error"
  /\ (IF pc[r] \in {"createWait", "claimWait"} THEN "claim" ELSE "api") \in Faults
  /\ reply' = [reply EXCEPT ![r] = "error"]
  /\ net' \in {Abandon(r), {m \in net : m.from # r \/ ~m.live}}
  /\ UNCHANGED <<lease, fresh, frac, taskVars>>

\* Somebody deletes the Lease object.
DeleteLease ==
  /\ "delete" \in Faults
  /\ lease.holder # Absent
  /\ lease' = NoLease
  /\ fresh' = [r \in Replica |-> FALSE]
  /\ net' = {[m EXCEPT !.fresh = FALSE] : m \in net}
  /\ UNCHANGED <<reply, frac, taskVars>>

-------------------------------------------------------------------------------
(* acquire *)

AcquireGet(r) ==
  /\ \/ pc[r] = "acquire"
     \/ pc[r] = "retry" /\ timer[r] = 0
  /\ \/ Get(r) /\ Goto(r, "decide") /\ UNCHANGED <<frac, phase, timer, since>>
     \/ "api" \in Faults /\ Exit(r)

\* The answer of the GET decides: create, reuse an own lease as it is, claim a
\* vacant or expired lease, or wait.
AcquireDecide(r) ==
  /\ pc[r] = "decide"
  /\ Forget(r)
  /\ \/ /\ read[r].holder = Absent
        /\ Send(r, "create", LeaseOf(r))
        /\ Goto(r, "createWait")
        /\ UNCHANGED <<phase, timer, since>>
     \/ held_by_us(read[r], r) /\ Lead(r) /\ UNCHANGED net
     \/ /\ read[r].holder \notin {Absent, r}
        /\ is_claimable(read[r])
        /\ Send(r, "claim", LeaseOf(r))
        /\ Goto(r, "claimWait")
        /\ UNCHANGED <<phase, timer, since>>
     \/ /\ read[r].holder \notin {Absent, r}
        /\ ~is_claimable(read[r])
        /\ SleepAt(r, "retry")
        /\ UNCHANGED <<net, phase, since>>

\* After a lost create race the loop runs again at once; any other create error
\* ends the process.  A claim that failed for any reason is retried after a sleep.
AcquireReply(r) ==
  /\ pc[r] \in {"createWait", "claimWait"} /\ reply[r] # "none"
  /\ \/ reply[r] = "ok" /\ Lead(r) /\ Answered(r)
     \/ /\ pc[r] = "createWait" /\ reply[r] = "conflict"
        /\ Goto(r, "acquire")
        /\ Answered(r)
        /\ UNCHANGED <<phase, timer, since>>
     \/ pc[r] = "createWait" /\ reply[r] = "error" /\ Exit(r)
     \/ /\ pc[r] = "claimWait" /\ reply[r] # "ok"
        /\ SleepAt(r, "retry")
        /\ Answered(r)
        /\ UNCHANGED <<phase, since>>

-------------------------------------------------------------------------------
(* The renewal loop *)

\* The loop ends.  A Leading process then returns from run and exits without a
\* release; a process that already stops does not notice.
Bail(r) ==
  \/ phase[r] = "Leading" /\ Exit(r)
  \/ /\ phase[r] = "Stopping"
     /\ Goto(r, "ended")
     /\ Forget(r)
     /\ UNCHANGED <<net, phase, timer, since>>

\* An attempt failed: the deadline is looked at only now, after the failure.
RenewFailed(r) ==
  \/ since[r] >= Deadline /\ Bail(r)
  \/ since[r] < Deadline /\ SleepAt(r, "renewSleep") /\ Answered(r) /\ UNCHANGED <<phase, since>>

RenewGet(r) ==
  /\ pc[r] = "renewSleep" /\ timer[r] = 0
  /\ \/ Get(r) /\ Goto(r, "renewDecide") /\ UNCHANGED <<frac, phase, timer, since>>
     \/ "api" \in Faults /\ RenewFailed(r)

\* Mutant: the renewal does not look at the holder.
RenewDecide_AnyHolder(r) ==
  /\ pc[r] = "renewDecide"
  /\ Forget(r)
  /\ Send(r, "renew", LeaseOf(r))
  /\ Goto(r, "renewWait")
  /\ UNCHANGED <<phase, timer, since>>

\* A deleted lease and a lease of another holder are lost.
RenewDecide(r) ==
  /\ pc[r] = "renewDecide"
  /\ \/ ~held_by_us(read[r], r) /\ Bail(r)
     \/ /\ held_by_us(read[r], r)
        /\ Forget(r)
        /\ Send(r, "renew", LeaseOf(r))
        /\ Goto(r, "renewWait")
        /\ UNCHANGED <<phase, timer, since>>

RenewReply(r) ==
  /\ pc[r] = "renewWait" /\ reply[r] # "none"
  /\ \/ /\ reply[r] = "ok"
        /\ SleepAt(r, "renewSleep")
        /\ since' = [since EXCEPT ![r] = 0]
        /\ Answered(r)
        /\ UNCHANGED phase
     \/ reply[r] # "ok" /\ RenewFailed(r)

-------------------------------------------------------------------------------
(* Shutdown and release *)

\* Mutant: the lease goes back before the controllers stop.
Shutdown_ReleasesFirst(r) ==
  /\ phase[r] = "Leading"
  /\ phase' = [phase EXCEPT ![r] = "Stopping"]
  /\ lease' = IF lease.holder = r THEN LeaseOf(Vacant) ELSE lease
  /\ UNCHANGED <<net, fresh, reply, frac, pc, read, timer, since>>

\* A shutdown signal, or the end of a controller or of the health server.  The
\* controllers and the renewal loop still run.
Shutdown(r) ==
  /\ phase[r] = "Leading"
  /\ phase' = [phase EXCEPT ![r] = "Stopping"]
  /\ UNCHANGED <<apiVars, frac, pc, read, timer, since>>

\* controllers.stop has returned; release aborts the renewal loop.
StopControllers(r) ==
  /\ phase[r] = "Stopping" /\ Reconciling(r)
  /\ Goto(r, "release")
  /\ net' = Abandon(r)
  /\ read' = [read EXCEPT ![r] = NoLease]
  /\ fresh' = [fresh EXCEPT ![r] = FALSE]
  /\ reply' = [reply EXCEPT ![r] = "none"]
  /\ UNCHANGED <<lease, frac, phase, timer, since>>

ReleaseGet(r) ==
  /\ pc[r] = "release"
  /\ \/ Get(r) /\ Goto(r, "releaseDecide") /\ UNCHANGED <<frac, phase, timer, since>>
     \/ "api" \in Faults /\ Exit(r)

ReleaseDecide(r) ==
  /\ pc[r] = "releaseDecide"
  /\ \/ ~held_by_us(read[r], r) /\ Exit(r)
     \/ /\ held_by_us(read[r], r)
        /\ Forget(r)
        /\ Send(r, "release", LeaseOf(Vacant))
        /\ Goto(r, "releaseWait")
        /\ UNCHANGED <<phase, timer, since>>

\* Released, Conflict, an API error and the time limit all end the process.
ReleaseReply(r) == pc[r] = "releaseWait" /\ reply[r] # "none" /\ Exit(r)

Crash(r) == "crash" \in Faults /\ phase[r] # "Down" /\ Exit(r)

\* The kubelet restarts the container: the pod, and so the identity, is the same.
\* With Timely, the requests of the old process arrive before the new one starts.
Restart(r) ==
  /\ "restart" \in Faults
  /\ Timely => \A m \in net : m.from # r
  /\ phase[r] = "Down"
  /\ phase' = [phase EXCEPT ![r] = "Standby"]
  /\ Goto(r, "acquire")
  /\ UNCHANGED <<apiVars, frac, read, timer, since>>

-------------------------------------------------------------------------------
(* Time *)

Sleeping(r) == pc[r] \in {"retry", "renewSleep"} /\ timer[r] > 0

\* With Timely, time passes only while every live replica sleeps, none is stopping
\* its controllers, and the network is empty.
MayTick ==
  Timely => /\ net = {}
            /\ \A r \in Replica : pc[r] = "off" \/ (Sleeping(r) /\ phase[r] # "Stopping")

Older(l) == IF l.holder \in Replica /\ l.secs < Stale THEN [l EXCEPT !.secs = @ + 1] ELSE l

Tick ==
  LET second == frac + 1 = TicksPerSecond
      Age(l) == IF second THEN Older(l) ELSE l
  IN  /\ MayTick
      /\ frac' = IF second THEN 0 ELSE frac + 1
      /\ lease' = Age(lease)
      /\ net' = {[m EXCEPT !.lease = Age(m.lease)] : m \in net}
      /\ read' = [r \in Replica |-> Age(read[r])]
      /\ timer' = [r \in Replica |-> IF timer[r] > 0 THEN timer[r] - 1 ELSE 0]
      /\ since' = [r \in Replica |->
                     IF Reconciling(r) /\ since[r] < Deadline
                     THEN since[r] + 1 ELSE since[r]]
      /\ UNCHANGED <<phase, pc, fresh, reply>>

Step(r) ==
  \/ AcquireGet(r) \/ AcquireDecide(r) \/ AcquireReply(r)
  \/ RenewGet(r) \/ RenewDecide(r) \/ RenewReply(r)
  \/ StopControllers(r)
  \/ ReleaseGet(r) \/ ReleaseDecide(r) \/ ReleaseReply(r)

Next ==
  \/ \E r \in Replica : Step(r) \/ Shutdown(r) \/ Crash(r) \/ Restart(r) \/ ApiError(r)
  \/ \E m \in net : Apply(m)
  \/ DeleteLease
  \/ Tick

Spec == Init /\ [][Next]_vars

\* The scheduling that the code relies on: the runtime runs every task that is
\* ready, the API server answers, and time passes (however often replicas crash
\* and restart between two ticks).  Nothing is assumed about faults, shutdowns and
\* restarts.
Fairness ==
  /\ \A r \in Replica : WF_vars(Step(r))
  /\ WF_vars(\E m \in net : Apply(m))
  /\ SF_vars(Tick)

FairSpec == Spec /\ Fairness

-------------------------------------------------------------------------------
(* Properties *)

\* Types; the sleep and the deadline of the loops in leader_election.rs stay in their
\* bounds.
TypeOK ==
  /\ lease \in Lease
  /\ net \subseteq Request
  /\ frac \in 0 .. (TicksPerSecond - 1)
  /\ phase \in [Replica -> {"Standby", "Leading", "Stopping", "Down"}]
  /\ pc \in [Replica -> AcquirePc \cup RenewPc \cup ReleasePc \cup {"ended", "off"}]
  /\ read \in [Replica -> Lease]
  /\ fresh \in [Replica -> BOOLEAN]
  /\ reply \in [Replica -> {"none", "ok", "conflict", "error"}]
  /\ timer \in [Replica -> 0 .. RetryInterval]
  /\ since \in [Replica -> 0 .. Deadline]

\* A snapshot whose resourceVersion is still the stored one equals the stored
\* lease, and a request that the server would accept still means what its sender
\* decided: a claim meets a lease without a holder or an expired one, a renewal
\* and a release meet the sender's own lease (acquire, renew_once, release_lease).
RequestsAreCurrent ==
  /\ \A r \in Replica : fresh[r] => read[r] = lease
  /\ \A m \in net :
       /\ m.lease.holder = IF m.kind = "release" THEN Vacant ELSE m.from
       /\ m.fresh /\ m.kind = "claim" => is_claimable(lease)
       /\ m.fresh /\ m.kind \in {"renew", "release"} => lease.holder = m.from

\* The Lease is the register of LeaseRegister: whatever requests are delayed, lost
\* at their caller or left over from a dead process, a holder loses the lease only
\* by its own release, by letting it expire, or by a deletion.
Register == INSTANCE LeaseRegister WITH
              holder <- lease.holder, expired <- is_expired(lease)

RegisterSpec == Register!RegSpec

\* run.rs stops the controllers before it gives the lease back: the lease gets
\* vacant only when the controllers of the replica that held it have stopped.
ReleaseAfterStop ==
  [][lease'.holder = Vacant /\ lease.holder \in Replica
       => ~Reconciling(lease.holder)]_vars

\* Two replicas never run their controllers at the same time.
AtMostOneReconciler ==
  \A r, s \in Replica : Reconciling(r) /\ Reconciling(s) => r = s

\* A replica in the phase Leading holds the lease (health.rs Phase::Leading).
LeadingHoldsLease ==
  \A r \in Replica : phase[r] = "Leading" => lease.holder = r

\* The lease is not lost with its holder: as long as one replica stays up, one
\* leads again and again, whichever replicas crash, stop or restart meanwhile
\* (acquire's retry loop and is_claimable).
LeadershipRecovers ==
  (\E r \in Replica : <>[](phase[r] \in {"Standby", "Leading"}))
    => []<>(\E r \in Replica : phase[r] = "Leading")
===============================================================================
