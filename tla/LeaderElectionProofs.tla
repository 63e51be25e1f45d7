------------------------- MODULE LeaderElectionProofs -------------------------
(***************************************************************************)
(* Proofs about LeaderElection for every set of replicas, every timing     *)
(* configuration that config.rs accepts, every set of faults and every     *)
(* bound on the network:                                                   *)
(*   TypeCorrect       Spec => []TypeOK                                    *)
(*   CurrentRequests   Spec => []RequestsAreCurrent                        *)
(*   LeaseIsARegister  Spec => RegisterSpec                                *)
(*   StopThenRelease   Spec => ReleaseAfterStop, if no container restarts  *)
(*   OneLeader         at most one replica runs its controllers, and the   *)
(*                     one in the phase Leading holds the lease, until a   *)
(*                     container restarts, for every number of replicas    *)
(*                     and every lease duration, when steps and API calls  *)
(*                     take no time and the retry interval divides the     *)
(*                     lease duration                                      *)
(***************************************************************************)
EXTENDS MCLeaderElection, TLAPS

\* Ages and deadlines are natural numbers.
LEMMA Bounds ==
  /\ Stale \in Nat /\ Deadline \in Nat /\ LeaseDuration \in Nat
  /\ RetryInterval \in Nat /\ TicksPerSecond \in Nat \ {0}
  <1>1. LeaseDuration \in Nat /\ TicksPerSecond \in Nat \ {0}
    BY ConfigAssumption, Zenon
  <1>2. LeaseDuration * TicksPerSecond \in Nat
    BY <1>1, SMTT(30), Z3T(30)
  <1> QED
    BY <1>1, <1>2, ConfigAssumption, SMTT(30), Z3T(30) DEF Stale, Deadline

LEMMA LeaseOfType == \A h \in Holder : LeaseOf(h) \in Lease /\ LeaseOf(h).holder = h
  BY Bounds, SMTT(30), Z3T(30) DEF LeaseOf, Lease, Stale

LEMMA NoLeaseType == NoLease \in Lease
  BY Bounds, SMTT(30), Z3T(30) DEF NoLease, Lease, Holder, Stale

\* An aging lease keeps its holder, and stays expired once it is.
LEMMA Aging ==
  ASSUME NEW l \in Lease
  PROVE  /\ Older(l) \in Lease
         /\ Older(l).holder = l.holder
         /\ is_expired(l) => is_expired(Older(l))
  BY Bounds, SMTT(30), Z3T(30) DEF Older, Lease, Stale, is_expired

LEMMA AbandonType ==
  ASSUME TypeOK, NEW r \in Replica
  PROVE  Abandon(r) \subseteq Request
  BY ZenonT(60) DEF Abandon, TypeOK, Request

LEMMA SendType ==
  ASSUME TypeOK, NEW r \in Replica, NEW l \in Lease,
         NEW k \in {"create", "claim", "renew", "release"}, Send(r, k, l)
  PROVE  net' \subseteq Request
  <1>1. fresh[r] \in BOOLEAN
    BY Zenon DEF TypeOK
  <1>2. [from |-> r, kind |-> k, lease |-> l, fresh |-> fresh[r], live |-> TRUE] \in Request
    BY <1>1, Zenon DEF Request
  <1> QED
    BY <1>2, Zenon DEF Send, TypeOK

-------------------------------------------------------------------------------
(* Type correctness *)

LEMMA ExitType ==
  ASSUME TypeOK, NEW r \in Replica, Exit(r)
  PROVE  TypeOK'
  <1>1. net' \subseteq Request
    BY AbandonType, Zenon DEF Exit
  <1>2. read' \in [Replica -> Lease]
    BY NoLeaseType, Zenon DEF Exit, TypeOK
  <1> QED
    BY <1>1, <1>2, Bounds, SMTT(30), Z3T(30) DEF Exit, TypeOK

LEMMA BailType ==
  ASSUME TypeOK, NEW r \in Replica, Bail(r)
  PROVE  TypeOK'
  <1>1. CASE Exit(r)
    BY <1>1, ExitType, Zenon
  <1>2. CASE Goto(r, "ended") /\ Forget(r) /\ UNCHANGED <<net, phase, timer, since>>
    BY <1>2, NoLeaseType, Zenon DEF TypeOK, Goto, Forget
  <1> QED
    BY <1>1, <1>2, Zenon DEF Bail

LEMMA RenewFailedType ==
  ASSUME TypeOK, NEW r \in Replica, RenewFailed(r)
  PROVE  TypeOK'
  <1>1. CASE Bail(r)
    BY <1>1, BailType, Zenon
  <1>2. CASE SleepAt(r, "renewSleep") /\ Answered(r) /\ UNCHANGED <<phase, since>>
    BY <1>2, Bounds, SMTT(30), Z3T(30) DEF TypeOK, SleepAt, Goto, Answered, RenewPc
  <1> QED
    BY <1>1, <1>2, Zenon DEF RenewFailed

LEMMA GetType ==
  ASSUME TypeOK, NEW r \in Replica, Get(r), Goto(r, "decide") \/ Goto(r, "renewDecide")
         \/ Goto(r, "releaseDecide"), UNCHANGED <<frac, phase, timer, since>>
  PROVE  TypeOK'
  BY Zenon DEF TypeOK, Get, Goto, AcquirePc, RenewPc, ReleasePc

LEMMA InitType == Init => TypeOK
  <1> SUFFICES ASSUME Init PROVE TypeOK
    BY Zenon
  <1>1. 0 \in 0 .. (TicksPerSecond - 1) /\ 0 \in 0 .. RetryInterval /\ 0 \in 0 .. Deadline
    BY Bounds, SMTT(30), Z3T(30)
  <1> QED
    BY <1>1, NoLeaseType, Zenon DEF Init, TypeOK, AcquirePc

LEMMA StepType ==
  ASSUME TypeOK, NEW r \in Replica, Step(r)
  PROVE  TypeOK'
  <1>1. CASE AcquireGet(r)
    BY <1>1, GetType, ExitType, Zenon DEF AcquireGet
  <1>2. CASE AcquireDecide(r)
    <2>1. LeaseOf(r) \in Lease /\ NoLease \in Lease
      BY LeaseOfType, NoLeaseType, Zenon DEF Holder
    <2>2. net' \subseteq Request
      BY <1>2, <2>1, SendType, Zenon DEF AcquireDecide, TypeOK
    <2>3. /\ timer' \in [Replica -> 0 .. RetryInterval]
          /\ since' \in [Replica -> 0 .. Deadline]
      BY <1>2, Bounds, SMTT(30), Z3T(30) DEF AcquireDecide, Lead, SleepAt, TypeOK
    <2>4. phase' \in [Replica -> {"Standby", "Leading", "Stopping", "Down"}]
      BY <1>2, ZenonT(60) DEF AcquireDecide, Lead, TypeOK
    <2>5. pc' \in [Replica -> AcquirePc \cup RenewPc \cup ReleasePc \cup {"ended", "off"}]
      BY <1>2, SMTT(30), Z3T(30) DEF AcquireDecide, Lead, SleepAt, Goto, TypeOK, AcquirePc, RenewPc
    <2> QED
      BY <1>2, <2>1, <2>2, <2>3, <2>4, <2>5, Zenon DEF AcquireDecide, Forget, TypeOK
  <1>3. CASE AcquireReply(r)
    <2>1. CASE Exit(r)
      BY <2>1, ExitType, Zenon
    <2>2. CASE /\ Answered(r)
               /\ \/ Lead(r)
                  \/ Goto(r, "acquire") /\ UNCHANGED <<phase, timer, since>>
                  \/ SleepAt(r, "retry") /\ UNCHANGED <<phase, since>>
      BY <2>2, Bounds, SMTT(30), Z3T(30) DEF Answered, Lead, SleepAt, Goto, TypeOK, AcquirePc, RenewPc
    <2> QED
      BY <1>3, <2>1, <2>2, Zenon DEF AcquireReply
  <1>4. CASE RenewGet(r)
    BY <1>4, GetType, RenewFailedType, Zenon DEF RenewGet
  <1>5. CASE RenewDecide(r)
    <2>1. CASE Bail(r)
      BY <2>1, BailType, Zenon
    <2>2. CASE /\ Forget(r)
               /\ Send(r, "renew", LeaseOf(r))
               /\ Goto(r, "renewWait")
               /\ UNCHANGED <<phase, timer, since>>
      <3>1. LeaseOf(r) \in Lease /\ NoLease \in Lease
        BY LeaseOfType, NoLeaseType, Zenon DEF Holder
      <3>2. net' \subseteq Request
        BY <2>2, <3>1, SendType, Zenon
      <3> QED
        BY <2>2, <3>1, <3>2, Zenon DEF Forget, Goto, TypeOK, RenewPc
    <2> QED
      BY <1>5, <2>1, <2>2, Zenon DEF RenewDecide
  <1>6. CASE RenewReply(r)
    <2>1. CASE RenewFailed(r)
      BY <2>1, RenewFailedType, Zenon
    <2>2. CASE /\ SleepAt(r, "renewSleep")
               /\ since' = [since EXCEPT ![r] = 0]
               /\ Answered(r)
               /\ UNCHANGED phase
      BY <2>2, Bounds, SMTT(30), Z3T(30) DEF Answered, SleepAt, Goto, TypeOK, RenewPc
    <2> QED
      BY <1>6, <2>1, <2>2, Zenon DEF RenewReply
  <1>7. CASE StopControllers(r)
    <2>1. net' \subseteq Request
      BY <1>7, AbandonType, Zenon DEF StopControllers
    <2> QED
      BY <1>7, <2>1, NoLeaseType, Zenon DEF StopControllers, Goto, TypeOK, ReleasePc
  <1>8. CASE ReleaseGet(r)
    BY <1>8, GetType, ExitType, Zenon DEF ReleaseGet
  <1>9. CASE ReleaseDecide(r)
    <2>1. CASE Exit(r)
      BY <2>1, ExitType, Zenon
    <2>2. CASE /\ Forget(r)
               /\ Send(r, "release", LeaseOf(Vacant))
               /\ Goto(r, "releaseWait")
               /\ UNCHANGED <<phase, timer, since>>
      <3>1. LeaseOf(Vacant) \in Lease /\ NoLease \in Lease
        BY LeaseOfType, NoLeaseType, Zenon DEF Holder
      <3>2. net' \subseteq Request
        BY <2>2, <3>1, SendType, Zenon
      <3> QED
        BY <2>2, <3>1, <3>2, Zenon DEF Forget, Goto, TypeOK, ReleasePc
    <2> QED
      BY <1>9, <2>1, <2>2, Zenon DEF ReleaseDecide
  <1>10. CASE ReleaseReply(r)
    BY <1>10, ExitType, Zenon DEF ReleaseReply
  <1> QED
    BY <1>1, <1>2, <1>3, <1>4, <1>5, <1>6, <1>7, <1>8, <1>9, <1>10, Zenon DEF Step

LEMMA ApplyType ==
  ASSUME TypeOK, NEW m \in net, Apply(m)
  PROVE  TypeOK'
  <1> DEFINE ok == IF m.kind = "create" THEN lease.holder = Absent ELSE m.fresh
  <1>1. m \in Request /\ m.lease \in Lease /\ m.from \in Replica
    BY Zenon DEF TypeOK, Request
  <1>2. lease' \in Lease
    BY <1>1, Zenon DEF Apply, TypeOK
  <1>3. net' \subseteq Request
    <2>1. \A n \in Request : [n EXCEPT !.fresh = FALSE] \in Request
      BY Zenon DEF Request
    <2> QED
      BY <2>1, SMTT(30), Z3T(30) DEF Apply, TypeOK
  <1>4. fresh' \in [Replica -> BOOLEAN]
    BY Zenon DEF Apply, TypeOK
  <1>5. reply' \in [Replica -> {"none", "ok", "conflict", "error"}]
    BY <1>1, Zenon DEF Apply, TypeOK
  <1> QED
    BY <1>2, <1>3, <1>4, <1>5, Zenon DEF Apply, TypeOK, taskVars

LEMMA TickType ==
  ASSUME TypeOK, Tick
  PROVE  TypeOK'
  <1> DEFINE Age(l) == IF frac + 1 = TicksPerSecond THEN Older(l) ELSE l
  <1>1. \A l \in Lease : Age(l) \in Lease
    BY Aging, Zenon
  <1>2. lease' \in Lease
    BY <1>1, Zenon DEF Tick, TypeOK
  <1>3. net' \subseteq Request
    <2>1. \A m \in net : [m EXCEPT !.lease = Age(m.lease)] \in Request
      <3> SUFFICES ASSUME NEW m \in net
                   PROVE  [m EXCEPT !.lease = Age(m.lease)] \in Request
        BY Zenon
      <3>1. m \in Request /\ m.lease \in Lease
        BY Zenon DEF TypeOK, Request
      <3>2. Age(m.lease) \in Lease
        BY <1>1, <3>1, Zenon
      <3> HIDE DEF Age
      <3> QED
        BY <3>1, <3>2, Zenon DEF Request
    <2> QED
      BY <2>1, Zenon DEF Tick
  <1>4. read' \in [Replica -> Lease]
    BY <1>1, Zenon DEF Tick, TypeOK
  <1>5. frac' \in 0 .. (TicksPerSecond - 1)
    BY Bounds, SMTT(30), Z3T(30) DEF Tick, TypeOK
  <1>6. timer' \in [Replica -> 0 .. RetryInterval]
    BY Bounds, SMTT(30), Z3T(30) DEF Tick, TypeOK
  <1>7. since' \in [Replica -> 0 .. Deadline]
    <2>1. \A r \in Replica : (IF Reconciling(r) /\ since[r] < Deadline
                               THEN since[r] + 1 ELSE since[r]) \in 0 .. Deadline
      BY Bounds, SMTT(30), Z3T(30) DEF TypeOK
    <2> QED
      BY <2>1, Zenon DEF Tick
  <1> QED
    BY <1>2, <1>3, <1>4, <1>5, <1>6, <1>7, Zenon DEF Tick, TypeOK

LEMMA OtherType ==
  ASSUME TypeOK,
         \/ DeleteLease
         \/ \E r \in Replica : Shutdown(r) \/ Crash(r) \/ Restart(r) \/ ApiError(r)
  PROVE  TypeOK'
  <1>1. CASE DeleteLease
    <2>1. net' \subseteq Request
      <3>1. \A m \in net : [m EXCEPT !.fresh = FALSE] \in Request
        BY Zenon DEF TypeOK, Request
      <3> QED
        BY <1>1, <3>1, Zenon DEF DeleteLease
    <2>2. lease' \in Lease
      BY <1>1, NoLeaseType, Zenon DEF DeleteLease
    <2>3. fresh' \in [Replica -> BOOLEAN]
      BY <1>1, Zenon DEF DeleteLease
    <2> QED
      BY <1>1, <2>1, <2>2, <2>3, Zenon DEF DeleteLease, TypeOK, taskVars
  <1>2. ASSUME NEW r \in Replica, Shutdown(r) PROVE TypeOK'
    BY <1>2, Zenon DEF Shutdown, TypeOK, apiVars
  <1>3. ASSUME NEW r \in Replica, Crash(r) PROVE TypeOK'
    BY <1>3, ExitType, Zenon DEF Crash
  <1>4. ASSUME NEW r \in Replica, Restart(r) PROVE TypeOK'
    BY <1>4, Zenon DEF Restart, Goto, TypeOK, apiVars, AcquirePc
  <1>5. ASSUME NEW r \in Replica, ApiError(r) PROVE TypeOK'
    <2>1. net' \subseteq Request
      BY <1>5, AbandonType, SMTT(30), Z3T(30) DEF ApiError, TypeOK
    <2> QED
      BY <1>5, <2>1, Zenon DEF ApiError, TypeOK, taskVars
  <1> QED
    BY <1>1, <1>2, <1>3, <1>4, <1>5, Zenon

LEMMA NextType == TypeOK /\ [Next]_vars => TypeOK'
  <1> SUFFICES ASSUME TypeOK, [Next]_vars PROVE TypeOK'
    BY Zenon
  <1>1. CASE UNCHANGED vars
    BY <1>1, Zenon DEF vars, TypeOK
  <1>2. CASE Next
    BY <1>2, StepType, ApplyType, TickType, OtherType, Zenon DEF Next
  <1> QED
    BY <1>1, <1>2, Zenon

\* Every variable keeps its type, whatever faults happen.
THEOREM TypeCorrect == Spec => []TypeOK
  BY InitType, NextType, PTL DEF Spec

-------------------------------------------------------------------------------
(* A request that the API server would accept still means what its sender    *)
(* decided.  The invariant is inductive together with TypeOK.                *)

\* What a step may do to the requests: drop some, abandon some.
LEMMA FewerRequests ==
  ASSUME TypeOK, RequestsAreCurrent, UNCHANGED lease,
         \A n \in net' : \E m \in net :
            n.kind = m.kind /\ n.from = m.from /\ n.lease = m.lease /\ n.fresh = m.fresh,
         \A r \in Replica : fresh'[r] => fresh[r] /\ read'[r] = read[r]
  PROVE  RequestsAreCurrent'
  BY SMTT(30), Z3T(30) DEF RequestsAreCurrent, is_claimable, is_vacant, is_expired

LEMMA AbandonKeeps ==
  ASSUME TypeOK, NEW r \in Replica
  PROVE  \A n \in Abandon(r) : \E m \in net :
            n.kind = m.kind /\ n.from = m.from /\ n.lease = m.lease /\ n.fresh = m.fresh
  BY ZenonT(60) DEF Abandon, TypeOK, Request

LEMMA ExitCurrent ==
  ASSUME TypeOK, RequestsAreCurrent, NEW r \in Replica, Exit(r)
  PROVE  RequestsAreCurrent'
  BY FewerRequests, AbandonKeeps, Zenon DEF Exit, TypeOK

LEMMA ForgetCurrent ==
  ASSUME TypeOK, RequestsAreCurrent, NEW r \in Replica, Forget(r), net' = net
  PROVE  RequestsAreCurrent'
  BY FewerRequests, Zenon DEF Forget, TypeOK

LEMMA GetCurrent ==
  ASSUME TypeOK, RequestsAreCurrent, NEW r \in Replica, Get(r)
  PROVE  RequestsAreCurrent'
  BY Zenon DEF Get, RequestsAreCurrent, TypeOK, is_claimable, is_vacant, is_expired

LEMMA AnsweredCurrent ==
  ASSUME RequestsAreCurrent, NEW r \in Replica, Answered(r)
  PROVE  RequestsAreCurrent'
  BY ZenonT(30) DEF Answered, RequestsAreCurrent, is_claimable, is_vacant, is_expired

\* The sender decided on a snapshot; if nobody wrote since, it is the lease.
LEMMA SendCurrent ==
  ASSUME TypeOK, RequestsAreCurrent, NEW r \in Replica, NEW h \in Holder,
         NEW k \in {"create", "claim", "renew", "release"},
         Forget(r), Send(r, k, LeaseOf(h)),
         h = IF k = "release" THEN Vacant ELSE r,
         k = "claim" => is_claimable(read[r]),
         k \in {"renew", "release"} => held_by_us(read[r], r)
  PROVE  RequestsAreCurrent'
  <1> DEFINE n == [from |-> r, kind |-> k, lease |-> LeaseOf(h),
                   fresh |-> fresh[r], live |-> TRUE]
  <1>1. LeaseOf(h).holder = h
    BY LeaseOfType, ZenonT(30)
  <1>2. n.fresh => read[r] = lease
    BY ZenonT(30) DEF RequestsAreCurrent
  <1>3. /\ n.lease.holder = IF n.kind = "release" THEN Vacant ELSE n.from
        /\ n.fresh /\ n.kind = "claim" => is_claimable(lease)
        /\ n.fresh /\ n.kind \in {"renew", "release"} => lease.holder = n.from
    BY <1>1, <1>2, ZenonT(30) DEF held_by_us
  <1>4. \A q \in Replica : fresh'[q] => read'[q] = lease'
    BY Zenon DEF Forget, RequestsAreCurrent, TypeOK
  <1>5. net' = net \cup {n} /\ lease' = lease
    BY Zenon DEF Send, Forget
  <1> HIDE DEF n
  <1> QED
    BY <1>3, <1>4, <1>5, Zenon DEF RequestsAreCurrent, is_claimable, is_vacant, is_expired

LEMMA BailCurrent ==
  ASSUME TypeOK, RequestsAreCurrent, NEW r \in Replica, Bail(r)
  PROVE  RequestsAreCurrent'
  BY ExitCurrent, ForgetCurrent, Zenon DEF Bail

LEMMA RenewFailedCurrent ==
  ASSUME TypeOK, RequestsAreCurrent, NEW r \in Replica, RenewFailed(r)
  PROVE  RequestsAreCurrent'
  BY BailCurrent, AnsweredCurrent, Zenon DEF RenewFailed

LEMMA StepCurrent ==
  ASSUME TypeOK, RequestsAreCurrent, NEW r \in Replica, Step(r)
  PROVE  RequestsAreCurrent'
  <1>1. CASE AcquireGet(r)
    BY <1>1, GetCurrent, ExitCurrent, ZenonT(30) DEF AcquireGet
  <1>2. CASE AcquireDecide(r)
    <2>1. r \in Holder
      BY Zenon DEF Holder
    <2>2. CASE net' = net
      BY <1>2, <2>2, ForgetCurrent, ZenonT(30) DEF AcquireDecide
    <2>3. CASE Send(r, "create", LeaseOf(r))
      BY <1>2, <2>1, <2>3, SendCurrent, ZenonT(30) DEF AcquireDecide
    <2>4. CASE Send(r, "claim", LeaseOf(r)) /\ is_claimable(read[r])
      BY <1>2, <2>1, <2>4, SendCurrent, Zenon DEF AcquireDecide
    <2> QED
      BY <1>2, <2>2, <2>3, <2>4, Zenon DEF AcquireDecide
  <1>3. CASE AcquireReply(r)
    BY <1>3, ExitCurrent, AnsweredCurrent, Zenon DEF AcquireReply
  <1>4. CASE RenewGet(r)
    BY <1>4, GetCurrent, RenewFailedCurrent, Zenon DEF RenewGet
  <1>5. CASE RenewDecide(r)
    <2>1. r \in Holder
      BY Zenon DEF Holder
    <2> QED
      BY <1>5, <2>1, BailCurrent, SendCurrent, Zenon DEF RenewDecide
  <1>6. CASE RenewReply(r)
    BY <1>6, RenewFailedCurrent, AnsweredCurrent, ZenonT(30) DEF RenewReply
  <1>7. CASE StopControllers(r)
    BY <1>7, FewerRequests, AbandonKeeps, ZenonT(60) DEF StopControllers, TypeOK
  <1>8. CASE ReleaseGet(r)
    BY <1>8, GetCurrent, ExitCurrent, Zenon DEF ReleaseGet
  <1>9. CASE ReleaseDecide(r)
    <2>1. Vacant \in Holder
      BY Zenon DEF Holder
    <2> QED
      BY <1>9, <2>1, ExitCurrent, SendCurrent, Zenon DEF ReleaseDecide
  <1>10. CASE ReleaseReply(r)
    BY <1>10, ExitCurrent, Zenon DEF ReleaseReply
  <1> QED
    BY <1>1, <1>2, <1>3, <1>4, <1>5, <1>6, <1>7, <1>8, <1>9, <1>10, Zenon DEF Step

LEMMA ApplyCurrent ==
  ASSUME TypeOK, RequestsAreCurrent, NEW m \in net, Apply(m)
  PROVE  RequestsAreCurrent'
  <1> DEFINE ok == IF m.kind = "create" THEN lease.holder = Absent ELSE m.fresh
  <1>1. read' = read
    BY Zenon DEF Apply, taskVars
  <1>2. CASE ok
    <2>1. /\ net' = {[n EXCEPT !.fresh = FALSE] : n \in net \ {m}}
          /\ fresh' = [r \in Replica |-> FALSE]
      BY <1>2, Zenon DEF Apply
    <2>2. \A n \in net' : /\ ~n.fresh
                          /\ n.lease.holder = IF n.kind = "release" THEN Vacant ELSE n.from
      BY <2>1, SMTT(30), Z3T(30) DEF RequestsAreCurrent, TypeOK, Request
    <2> QED
      BY <2>1, <2>2, Zenon DEF RequestsAreCurrent
  <1>3. CASE ~ok
    <2>1. lease' = lease /\ net' = net \ {m} /\ fresh' = fresh
      BY <1>3, Zenon DEF Apply
    <2> QED
      BY <1>1, <2>1, Zenon DEF RequestsAreCurrent, is_claimable, is_vacant, is_expired
  <1> QED
    BY <1>2, <1>3, Zenon

LEMMA DeleteCurrent ==
  ASSUME TypeOK, RequestsAreCurrent, DeleteLease
  PROVE  RequestsAreCurrent'
  <1>1. \A n \in net' : /\ ~n.fresh
                        /\ n.lease.holder = IF n.kind = "release" THEN Vacant ELSE n.from
    BY SMTT(30), Z3T(30) DEF DeleteLease, RequestsAreCurrent, TypeOK, Request
  <1> QED
    BY <1>1, Zenon DEF DeleteLease, RequestsAreCurrent

LEMMA TickCurrent ==
  ASSUME TypeOK, RequestsAreCurrent, Tick
  PROVE  RequestsAreCurrent'
  <1> DEFINE Age(l) == IF frac + 1 = TicksPerSecond THEN Older(l) ELSE l
  <1>1. \A l \in Lease : Age(l).holder = l.holder /\ (is_expired(l) => is_expired(Age(l)))
    BY Aging, Zenon
  <1>2. lease' = Age(lease) /\ fresh' = fresh /\ lease \in Lease
    BY Zenon DEF Tick, TypeOK
  <1>3. \A r \in Replica : fresh'[r] => read'[r] = lease'
    BY Zenon DEF Tick, RequestsAreCurrent
  <1>4. lease'.holder = lease.holder /\ (is_claimable(lease) => is_claimable(lease'))
    BY <1>1, <1>2, Zenon DEF is_claimable, is_vacant
  <1>5. ASSUME NEW n \in net'
        PROVE  /\ n.lease.holder = IF n.kind = "release" THEN Vacant ELSE n.from
               /\ n.fresh /\ n.kind = "claim" => is_claimable(lease')
               /\ n.fresh /\ n.kind \in {"renew", "release"} => lease'.holder = n.from
    <2>1. PICK m \in net : n = [m EXCEPT !.lease = Age(m.lease)]
      BY <1>5, Zenon DEF Tick
    <2>2. m \in Request /\ m.lease \in Lease
      BY Zenon DEF TypeOK, Request
    <2>3. n.kind = m.kind /\ n.from = m.from /\ n.fresh = m.fresh /\ n.lease = Age(m.lease)
      BY <2>1, <2>2, Zenon DEF Request
    <2>4. n.lease.holder = m.lease.holder
      BY <1>1, <2>2, <2>3, SMTT(30), Z3T(30)
    <2> HIDE DEF Age
    <2> QED
      BY <1>4, <2>3, <2>4, Zenon DEF RequestsAreCurrent
  <1>6. is_claimable(lease)' = is_claimable(lease')
    BY Zenon DEF is_claimable, is_vacant, is_expired
  <1> QED
    BY <1>3, <1>5, <1>6, Zenon DEF RequestsAreCurrent

LEMMA NextCurrent == TypeOK /\ RequestsAreCurrent /\ [Next]_vars => RequestsAreCurrent'
  <1> SUFFICES ASSUME TypeOK, RequestsAreCurrent, [Next]_vars PROVE RequestsAreCurrent'
    BY Zenon
  <1>1. CASE UNCHANGED vars
    BY <1>1, FewerRequests, Zenon DEF vars
  <1>2. ASSUME NEW r \in Replica, Shutdown(r) \/ Restart(r) PROVE RequestsAreCurrent'
    BY <1>2, FewerRequests, Zenon DEF Shutdown, Restart, apiVars
  <1>3. ASSUME NEW r \in Replica, Crash(r) PROVE RequestsAreCurrent'
    BY <1>3, ExitCurrent, Zenon DEF Crash
  <1>4. ASSUME NEW r \in Replica, ApiError(r) PROVE RequestsAreCurrent'
    <2>1. \A n \in net' : \E m \in net :
            n.kind = m.kind /\ n.from = m.from /\ n.lease = m.lease /\ n.fresh = m.fresh
      BY <1>4, AbandonKeeps, SMTT(30), Z3T(30) DEF ApiError
    <2> QED
      BY <1>4, <2>1, FewerRequests, Zenon DEF ApiError, taskVars
  <1> QED
    BY <1>1, <1>2, <1>3, <1>4, StepCurrent, ApplyCurrent, DeleteCurrent, TickCurrent, Zenon DEF Next

LEMMA InitCurrent == Init => RequestsAreCurrent
  BY Zenon DEF Init, RequestsAreCurrent

\* A write that the API server still accepts means what its sender decided: the
\* resourceVersion of acquire, renew_once and release_lease is enough for that,
\* however late the write arrives and whoever has died meanwhile.
THEOREM CurrentRequests == Spec => []RequestsAreCurrent
  BY InitType, NextType, InitCurrent, NextCurrent, PTL DEF Spec

-------------------------------------------------------------------------------
(* The Lease implements the abstract register.                               *)

LEMMA RegInitial == Init => Register!RegInit
  BY SMTT(30), Z3T(30) DEF Init, NoLease, Register!RegInit, is_expired

\* Only the API server and the clock change the lease.
LEMMA StepKeepsLease ==
  ASSUME NEW r \in Replica,
         Step(r) \/ Shutdown(r) \/ Crash(r) \/ Restart(r) \/ ApiError(r)
  PROVE  lease' = lease
  <1>1. Exit(r) \/ Get(r) \/ Forget(r) \/ Answered(r) => lease' = lease
    BY ZenonT(30) DEF Exit, Get, Forget, Answered
  <1>2. Bail(r) \/ RenewFailed(r) => lease' = lease
    BY <1>1, ZenonT(30) DEF Bail, RenewFailed
  <1>3. AcquireGet(r) \/ AcquireDecide(r) \/ AcquireReply(r) => lease' = lease
    BY <1>1, ZenonT(30) DEF AcquireGet, AcquireDecide, AcquireReply
  <1>4. RenewGet(r) \/ RenewDecide(r) \/ RenewReply(r) => lease' = lease
    BY <1>1, <1>2, ZenonT(30) DEF RenewGet, RenewDecide, RenewReply
  <1>5. ReleaseGet(r) \/ ReleaseDecide(r) \/ ReleaseReply(r) => lease' = lease
    BY <1>1, ZenonT(60) DEF ReleaseGet, ReleaseDecide, ReleaseReply
  <1>6. StopControllers(r) \/ Shutdown(r) \/ Crash(r) \/ Restart(r) \/ ApiError(r)
          => lease' = lease
    BY <1>1, Zenon DEF StopControllers, Shutdown, Crash, Restart, ApiError, apiVars
  <1> QED
    BY <1>3, <1>4, <1>5, <1>6, Zenon DEF Step

LEMMA ApplyRefines ==
  ASSUME TypeOK, RequestsAreCurrent, NEW m \in net, Apply(m), lease' # lease
  PROVE  \E r \in Replica : Register!Take(r) \/ Register!Renew(r) \/ Register!GiveBack(r)
  <1> DEFINE ok == IF m.kind = "create" THEN lease.holder = Absent ELSE m.fresh
  <1>1. m.from \in Replica /\ m.kind \in {"create", "claim", "renew", "release"}
    BY Zenon DEF TypeOK, Request
  <1>2. ok /\ lease' = m.lease
    BY Zenon DEF Apply
  <1>3. m.lease.holder = IF m.kind = "release" THEN Vacant ELSE m.from
    BY Zenon DEF RequestsAreCurrent
  <1>4. is_expired(lease)' \in BOOLEAN
    BY SMTT(30), Z3T(30) DEF is_expired
  <1>5. CASE m.kind = "create"
    BY <1>1, <1>2, <1>3, <1>4, <1>5, Zenon DEF Register!Take
  <1>6. CASE m.kind = "claim"
    <2>1. is_claimable(lease)
      BY <1>2, <1>6, Zenon DEF RequestsAreCurrent
    <2> QED
      BY <1>1, <1>2, <1>3, <1>4, <1>6, <2>1, Zenon DEF Register!Take, is_claimable, is_vacant
  <1>7. CASE m.kind = "renew"
    <2>1. lease.holder = m.from
      BY <1>2, <1>7, Zenon DEF RequestsAreCurrent
    <2> QED
      BY <1>1, <1>2, <1>3, <1>4, <1>7, <2>1, Zenon DEF Register!Renew
  <1>8. CASE m.kind = "release"
    <2>1. lease.holder = m.from
      BY <1>2, <1>8, Zenon DEF RequestsAreCurrent
    <2> QED
      BY <1>1, <1>2, <1>3, <1>4, <1>8, <2>1, Zenon DEF Register!GiveBack
  <1> QED
    BY <1>1, <1>5, <1>6, <1>7, <1>8, Zenon

LEMMA NextRefines ==
  TypeOK /\ RequestsAreCurrent /\ [Next]_vars => [Register!RegNext]_(Register!regVars)
  <1> SUFFICES ASSUME TypeOK, RequestsAreCurrent, Next, lease' # lease
               PROVE  \/ Register!RegNext
                      \/ lease'.holder = lease.holder /\ is_expired(lease)' = is_expired(lease)
    BY Zenon DEF vars, Register!regVars, is_expired
  <1>1. CASE \E m \in net : Apply(m)
    BY <1>1, ApplyRefines, Zenon DEF Register!RegNext
  <1>2. CASE DeleteLease
    BY <1>2, SMTT(30), Z3T(30) DEF DeleteLease, NoLease, Register!RegNext, Register!Delete, is_expired
  <1>3. CASE Tick
    <2>1. lease' = Older(lease) /\ lease \in Lease
      BY <1>3, Zenon DEF Tick, TypeOK
    <2>2. lease'.holder = lease.holder /\ lease'.secs = lease.secs + 1
      BY <2>1, Bounds, Zenon DEF Older, Lease
    <2> QED
      BY <2>1, <2>2, Aging, SMTT(30), Z3T(30) DEF Register!RegNext, Register!Expire, is_expired
  <1> QED
    BY <1>1, <1>2, <1>3, StepKeepsLease, Zenon DEF Next

\* The Lease protocol implements the abstract register: a replica becomes the
\* holder only of a free or expired lease, and a holder loses it only by its own
\* release, by expiry or by a deletion, for any number of replicas and any mix of
\* late, lost and orphaned requests.
THEOREM LeaseIsARegister == Spec => RegisterSpec
  <1>1. Init => Register!RegInit
    BY RegInitial, Zenon
  <1>2. TypeOK /\ RequestsAreCurrent /\ [Next]_vars => [Register!RegNext]_(Register!regVars)
    BY NextRefines, Zenon
  <1> QED
    BY <1>1, <1>2, TypeCorrect, CurrentRequests, PTL DEF Spec, RegisterSpec, Register!RegSpec

-------------------------------------------------------------------------------
(* The controllers stop before the lease goes back.  The proof needs that no *)
(* container restarts under the same identity: a release of the old process  *)
(* could then meet the new one.                                              *)

\* A release in the network comes from a replica that has left its renewal loop
\* for good.
ReleasersStopped ==
  \A m \in net : m.kind = "release" => pc[m.from] \in {"releaseWait", "off"}

LEMMA StoppedKept ==
  ASSUME TypeOK, ReleasersStopped, NEW r \in Replica,
         \A n \in net' : \E m \in net : n.kind = m.kind /\ n.from = m.from,
         \E p : pc' = [pc EXCEPT ![r] = p] /\ (pc[r] \in {"releaseWait", "off"} => p = "off")
  PROVE  ReleasersStopped'
  <1>1. PICK p : pc' = [pc EXCEPT ![r] = p] /\ (pc[r] \in {"releaseWait", "off"} => p = "off")
    BY Zenon
  <1>2. \A q \in Replica : pc[q] \in {"releaseWait", "off"} => pc'[q] \in {"releaseWait", "off"}
    BY <1>1, Zenon DEF TypeOK
  <1> QED
    BY <1>2, SMTT(30), Z3T(30) DEF ReleasersStopped, TypeOK, Request

\* The requests after a step are requests from before it.
SameRequests == \A n \in net' : \E m \in net : n.kind = m.kind /\ n.from = m.from

LEMMA AbandonSame ==
  ASSUME TypeOK, NEW r \in Replica, net' = Abandon(r)
  PROVE  SameRequests
  BY AbandonKeeps, Zenon DEF SameRequests

LEMMA ExitStopped ==
  ASSUME TypeOK, ReleasersStopped, NEW r \in Replica, Exit(r)
  PROVE  ReleasersStopped'
  BY AbandonSame, StoppedKept, Zenon DEF Exit, SameRequests

\* A step that only moves a task which has not left its renewal loop.
LEMMA GotoStopped ==
  ASSUME TypeOK, ReleasersStopped, NEW r \in Replica, NEW p, Goto(r, p),
         pc[r] \notin {"releaseWait", "off"}, net' = net \/ net' = Abandon(r)
  PROVE  ReleasersStopped'
  <1>1. SameRequests
    BY AbandonSame, Zenon DEF SameRequests
  <1> QED
    BY <1>1, StoppedKept, Zenon DEF Goto, SameRequests

LEMMA SendStopped ==
  ASSUME TypeOK, ReleasersStopped, NEW r \in Replica, NEW p, NEW k, NEW l,
         Goto(r, p), Send(r, k, l), pc[r] \notin {"releaseWait", "off"},
         k = "release" => p = "releaseWait"
  PROVE  ReleasersStopped'
  <1> DEFINE n == [from |-> r, kind |-> k, lease |-> l, fresh |-> fresh[r], live |-> TRUE]
  <1>1. net' = net \cup {n} /\ pc' = [pc EXCEPT ![r] = p]
    BY Zenon DEF Send, Goto
  <1>2. \A q \in Replica : pc[q] \in {"releaseWait", "off"} => pc'[q] = pc[q]
    BY <1>1, Zenon DEF TypeOK
  <1>3. n.kind = "release" => pc'[n.from] = "releaseWait"
    BY <1>1, ZenonT(30) DEF TypeOK
  <1> HIDE DEF n
  <1> QED
    BY <1>1, <1>2, <1>3, ZenonT(30) DEF ReleasersStopped, TypeOK, Request

LEMMA BailStopped ==
  ASSUME TypeOK, ReleasersStopped, NEW r \in Replica,
         Bail(r) \/ RenewFailed(r), pc[r] \notin {"releaseWait", "off"}
  PROVE  ReleasersStopped'
  BY ExitStopped, GotoStopped, ZenonT(30) DEF Bail, RenewFailed, SleepAt, Answered

LEMMA StepStopped ==
  ASSUME TypeOK, ReleasersStopped, NEW r \in Replica, Step(r)
  PROVE  ReleasersStopped'
  <1>1. CASE AcquireGet(r)
    BY <1>1, GotoStopped, ExitStopped, ZenonT(30) DEF AcquireGet, Get
  <1>2. CASE AcquireDecide(r)
    BY <1>2, GotoStopped, SendStopped, Zenon DEF AcquireDecide, Lead, SleepAt
  <1>3. CASE AcquireReply(r)
    BY <1>3, GotoStopped, ExitStopped, Zenon DEF AcquireReply, Lead, SleepAt, Answered
  <1>4. CASE RenewGet(r)
    BY <1>4, GotoStopped, BailStopped, Zenon DEF RenewGet, Get
  <1>5. CASE RenewDecide(r)
    BY <1>5, SendStopped, BailStopped, Zenon DEF RenewDecide
  <1>6. CASE RenewReply(r)
    BY <1>6, GotoStopped, BailStopped, ZenonT(30) DEF RenewReply, SleepAt, Answered
  <1>7. CASE StopControllers(r)
    BY <1>7, GotoStopped, Zenon DEF StopControllers, Reconciling, RenewPc
  <1>8. CASE ReleaseGet(r)
    BY <1>8, GotoStopped, ExitStopped, Zenon DEF ReleaseGet, Get
  <1>9. CASE ReleaseDecide(r)
    BY <1>9, SendStopped, ExitStopped, Zenon DEF ReleaseDecide
  <1>10. CASE ReleaseReply(r)
    BY <1>10, ExitStopped, Zenon DEF ReleaseReply
  <1> QED
    BY <1>1, <1>2, <1>3, <1>4, <1>5, <1>6, <1>7, <1>8, <1>9, <1>10, Zenon DEF Step

LEMMA NextStopped ==
  ASSUME "restart" \notin Faults
  PROVE  TypeOK /\ ReleasersStopped /\ [Next]_vars => ReleasersStopped'
  <1> SUFFICES ASSUME TypeOK, ReleasersStopped, [Next]_vars PROVE ReleasersStopped'
    BY Zenon
  <1>1. CASE UNCHANGED vars
    BY <1>1, Zenon DEF vars, ReleasersStopped
  <1>2. ASSUME NEW m \in net, Apply(m) PROVE ReleasersStopped'
    BY <1>2, SMTT(30), Z3T(30) DEF Apply, taskVars, ReleasersStopped, TypeOK, Request
  <1>3. CASE DeleteLease
    BY <1>3, SMTT(30), Z3T(30) DEF DeleteLease, taskVars, ReleasersStopped, TypeOK, Request
  <1>4. CASE Tick
    <2>1. SameRequests
      <3> DEFINE Age(l) == IF frac + 1 = TicksPerSecond THEN Older(l) ELSE l
      <3> SUFFICES ASSUME NEW n \in net'
                   PROVE  \E m \in net : n.kind = m.kind /\ n.from = m.from
        BY Zenon DEF SameRequests
      <3>1. PICK m \in net : n = [m EXCEPT !.lease = Age(m.lease)]
        BY <1>4, Zenon DEF Tick
      <3>2. m \in Request
        BY Zenon DEF TypeOK
      <3> QED
        BY <3>1, <3>2, Zenon DEF Request
    <2> QED
      BY <1>4, <2>1, SMTT(30), Z3T(30) DEF Tick, SameRequests, ReleasersStopped
  <1>5. ASSUME NEW r \in Replica, Shutdown(r) \/ Crash(r) \/ Restart(r) \/ ApiError(r)
        PROVE  ReleasersStopped'
    <2>1. CASE Crash(r)
      BY <2>1, ExitStopped, Zenon DEF Crash
    <2>2. CASE Shutdown(r)
      BY <2>2, Zenon DEF Shutdown, apiVars, ReleasersStopped
    <2>3. CASE ApiError(r)
      <3>1. SameRequests
        BY <2>3, AbandonSame, Zenon DEF ApiError, SameRequests
      <3> QED
        BY <2>3, <3>1, Zenon DEF ApiError, taskVars, SameRequests, ReleasersStopped
    <2> QED
      BY <1>5, <2>1, <2>2, <2>3, Zenon DEF Restart
  <1> QED
    BY <1>1, <1>2, <1>3, <1>4, <1>5, StepStopped, Zenon DEF Next

\* run.rs stops the controllers before it gives the lease back, and the release
\* cannot overtake that: the lease gets vacant only when the controllers of its
\* holder have stopped, as long as no container restarts under its old identity.
THEOREM StopThenRelease ==
  ASSUME "restart" \notin Faults
  PROVE  Spec => ReleaseAfterStop
  <1>1. Init => ReleasersStopped
    BY Zenon DEF Init, ReleasersStopped
  <1>2. TypeOK /\ ReleasersStopped /\ [Next]_vars => ReleasersStopped'
    BY NextStopped, Zenon
  <1>3. TypeOK /\ RequestsAreCurrent /\ ReleasersStopped /\ [Next]_vars
          => [lease'.holder = Vacant /\ lease.holder \in Replica
                => ~Reconciling(lease.holder)]_vars
    <2> SUFFICES ASSUME TypeOK, RequestsAreCurrent, ReleasersStopped, Next,
                        lease'.holder = Vacant, lease.holder \in Replica
                 PROVE  ~Reconciling(lease.holder)
      BY Zenon
    <2>1. lease' # lease
      BY IdentityAssumption, Zenon
    <2>2. CASE Tick
      BY <2>2, Aging, IdentityAssumption, Zenon DEF Tick, TypeOK
    <2>3. CASE DeleteLease
      BY <2>3, IdentityAssumption, Zenon DEF DeleteLease, NoLease
    <2>4. ASSUME NEW m \in net, Apply(m) PROVE ~Reconciling(lease.holder)
      <3>1. lease' = m.lease /\ (m.kind # "create" => m.fresh)
        BY <2>1, <2>4, ZenonT(30) DEF Apply
      <3>2. m.kind = "release"
        BY <3>1, IdentityAssumption, ZenonT(30) DEF RequestsAreCurrent, TypeOK, Request
      <3>3. lease.holder = m.from
        BY <3>1, <3>2, Zenon DEF RequestsAreCurrent
      <3> QED
        BY <3>2, <3>3, Zenon DEF ReleasersStopped, Reconciling, RenewPc
    <2> QED
      BY <2>1, <2>2, <2>3, <2>4, StepKeepsLease, Zenon DEF Next
  <1> QED
    BY <1>1, <1>2, <1>3, TypeCorrect, CurrentRequests, PTL DEF Spec, ReleaseAfterStop

-----------------------------------------------------------------------------
(* One leader, when steps and API calls take no time                       *)
(*                                                                         *)
(* The renewal loop looks at its deadline only after an attempt, and its   *)
(* attempts lie at multiples of the retry interval, so one of them lies at *)
(* the deadline itself.  A replica that runs its controllers thus renewed  *)
(* its lease at most the lease duration ago, and a lease is expired only   *)
(* when its age in whole seconds is beyond that.                           *)

\* The instances of the theorem.  A claim whose answer is lost, and a deleted Lease,
\* end the argument as a restart does: the next `acquire` takes over an own lease
\* without looking at its age, or finds no lease while a leader still runs.
Punctual ==
  /\ Timely
  /\ "claim" \notin Faults /\ "delete" \notin Faults
  /\ \E n \in Nat : Deadline = n * RetryInterval

\* The times since the last renewal at which the loop tries again.
Attempts == {k \in 1 .. Deadline : \E j \in 1 .. Deadline : k = j * RetryInterval}

\* Where the caller of a write waits for its answer.
Called(kind) == CASE kind = "create"  -> "createWait"
                  [] kind = "claim"   -> "claimWait"
                  [] kind = "renew"   -> "renewWait"
                  [] kind = "release" -> "releaseWait"

\* Answers and live requests belong to the call that their sender waits for.  Only a
\* dead process leaves a create or a claim behind.
CallOf(m) ==
  /\ m.lease.secs = 0
  /\ m.live => pc[m.from] = Called(m.kind) /\ reply[m.from] = "none"
  /\ ~m.live /\ m.kind \in {"create", "claim"} => pc[m.from] = "off"
  /\ m.kind = "renew" => pc[m.from] \notin AcquirePc
  /\ m.kind = "release" => pc[m.from] \in {"releaseWait", "off"}

Calls ==
  /\ \A r \in Replica : reply[r] # "none" => pc[r] \in Waiting \cup {"ended"}
  /\ \A m \in net : CallOf(m)
  /\ \A m, n \in net : m.live /\ n.live /\ m.from = n.from => m = n

\* The lease is r's, and `acquire` has not noticed yet.
Acquired(r) == pc[r] \in {"createWait", "claimWait"} /\ reply[r] = "ok"

\* The lease was renewed no earlier than last_success: its age in whole seconds lags
\* behind `since`.
InTime(r) == lease.secs * TicksPerSecond + frac < since[r] + TicksPerSecond

\* A replica that runs its controllers holds a lease that is in time, and its next
\* attempt comes no later than the deadline.  One that does not lead holds no lease.
Safe(r) ==
  /\ pc[r] \in AcquirePc /\ lease.holder = r => Acquired(r)
  /\ pc[r] = "decide" => read[r].holder # r
  /\ Acquired(r) => lease.holder = r /\ lease.secs = 0
  /\ Reconciling(r) => lease.holder = r /\ InTime(r)
  /\ pc[r] = "renewWait" /\ reply[r] = "ok" => lease.secs = 0
  /\ pc[r] \in RenewPc => since[r] + timer[r] \in Attempts
  /\ pc[r] \in {"renewDecide", "renewWait"} => timer[r] = 0
  /\ phase[r] = "Leading" => pc[r] \in RenewPc

\* The inductive invariant, as long as no container was restarted.
Leaders == Calls /\ \A r \in Replica : Safe(r)

LeadersUntilRestart == restarts = 0 => Leaders

-------------------------------------------------------------------------------
(* Attempts *)

LEMMA MultiplesApart ==
  ASSUME NEW j \in Nat, NEW n \in Nat, NEW d \in Nat \ {0}, j * d < n * d
  PROVE  (j + 1) * d = j * d + d /\ (j + 1) * d <= n * d
  <1>1. j < n
    BY SMTT(30), Z3T(30)
  <1>2. PICK i \in Nat : n = j + 1 + i
    <2>1. n - j - 1 \in Nat /\ n = j + 1 + (n - j - 1)
      BY <1>1, SMTT(30), Z3T(30)
    <2> QED
      BY <2>1, Zenon
  <1>3. n * d = (j + 1) * d + i * d /\ i * d \in Nat /\ (j + 1) * d \in Nat
    BY <1>2, SMTT(30), Z3T(30)
  <1> QED
    BY <1>3, SMTT(30), Z3T(30)

LEMMA AttemptFacts ==
  ASSUME Punctual
  PROVE  /\ \A k \in Attempts : k \in Nat /\ k <= Deadline
         /\ RetryInterval \in Attempts
         /\ \A k \in Attempts : k < Deadline => k + RetryInterval \in Attempts
  <1>1. PICK n \in Nat : Deadline = n * RetryInterval
    BY Zenon DEF Punctual
  <1>2. /\ RetryInterval \in Nat \ {0} /\ RetryInterval < Deadline /\ Deadline \in Nat
        /\ 1 \in 1 .. Deadline
    BY ConfigAssumption, Bounds, SMTT(30), Z3T(30) DEF Deadline
  <1>3. RetryInterval = 1 * RetryInterval /\ RetryInterval \in 1 .. Deadline
    BY <1>2, SMTT(30), Z3T(30)
  <1>4. ASSUME NEW k \in Attempts, k < Deadline PROVE k + RetryInterval \in Attempts
    <2>1. k \in Nat \ {0}
      BY <1>2, SMTT(30), Z3T(30) DEF Attempts
    <2>2. PICK j \in 1 .. Deadline : k = j * RetryInterval
      BY Zenon DEF Attempts
    <2>3. j \in Nat /\ j * RetryInterval < n * RetryInterval
      BY <1>1, <1>2, <1>4, <2>2, SMTT(30), Z3T(30)
    <2>4. (j + 1) * RetryInterval = k + RetryInterval /\ k + RetryInterval <= Deadline
      BY <1>1, <1>2, <2>2, <2>3, MultiplesApart, SMTT(30), Z3T(30)
    <2>5. k + RetryInterval \in 1 .. Deadline
      BY <1>2, <2>1, <2>4, SMTT(30), Z3T(30)
    <2>6. j <= j * RetryInterval
      BY <1>2, <2>3, SMTT(30), Z3T(30)
    <2>7. j + 1 \in 1 .. Deadline
      BY <1>2, <1>4, <2>2, <2>3, <2>6, SMTT(30), Z3T(30)
    <2> QED
      BY <2>4, <2>5, <2>7, Zenon DEF Attempts
  <1> QED
    BY <1>2, <1>3, <1>4, SMTT(30), Z3T(30) DEF Attempts

\* A lease that is in time is not expired, so nobody may claim it.
LEMMA NotClaimable ==
  ASSUME TypeOK, NEW r \in Replica, Safe(r), Reconciling(r) \/ Acquired(r)
  PROVE  lease.holder = r /\ ~is_claimable(lease)
  <1>1. lease.holder = r /\ lease.holder # Vacant
    BY IdentityAssumption, Zenon DEF Safe
  <1>2. lease.secs \in Nat /\ frac \in Nat /\ since[r] \in Nat /\ since[r] <= Deadline
    BY Bounds, SMTT(30), Z3T(30) DEF TypeOK, Lease, Stale
  <1>3. ~is_expired(lease)
    <2>1. CASE Acquired(r)
      BY <2>1, Bounds, SMTT(30), Z3T(30) DEF Safe, is_expired
    <2>2. CASE InTime(r)
      <3> SUFFICES ASSUME lease.secs > LeaseDuration PROVE FALSE
        BY Zenon DEF is_expired
      <3> DEFINE s == lease.secs  T == TicksPerSecond  L == LeaseDuration
      <3>1. s \in Nat /\ T \in Nat \ {0} /\ L \in Nat /\ s >= L + 1
        BY <1>2, Bounds, SMTT(30), Z3T(30)
      <3>2. s * T + frac < since[r] + T /\ since[r] <= L * T
        BY <2>2, <1>2, Zenon DEF InTime, Deadline
      <3> HIDE DEF s, T, L
      <3>3. PICK i \in Nat : s = L + 1 + i
        <4>1. s - L - 1 \in Nat /\ s = L + 1 + (s - L - 1)
          BY <3>1, SMTT(30), Z3T(30)
        <4> QED
          BY <4>1, Zenon
      <3>4. s * T = L * T + T + i * T /\ i * T \in Nat /\ L * T \in Nat
        BY <3>1, <3>3, SMTT(30), Z3T(30)
      <3> QED
        BY <1>2, <3>1, <3>2, <3>4, SMTT(30), Z3T(30)
    <2> QED
      BY <2>1, <2>2, Zenon DEF Safe
  <1> QED
    BY <1>1, <1>3, Zenon DEF is_claimable, is_vacant

-------------------------------------------------------------------------------
(* Steps of one replica *)

\* The other replicas keep what they promise.
LEMMA OthersSafe ==
  ASSUME NEW r \in Replica, \A q \in Replica : Safe(q),
         lease' = lease, frac' = frac,
         \A q \in Replica \ {r} :
            /\ pc'[q] = pc[q] /\ reply'[q] = reply[q] /\ read'[q] = read[q]
            /\ since'[q] = since[q] /\ timer'[q] = timer[q] /\ phase'[q] = phase[q],
         Safe(r)'
  PROVE  \A q \in Replica : Safe(q)'
  <1> SUFFICES ASSUME NEW q \in Replica, q # r PROVE Safe(q)'
    BY Zenon
  <1>1. q \in Replica \ {r}
    BY ZenonT(30)
  <1>2. /\ Acquired(q)' = Acquired(q) /\ InTime(q)' = InTime(q)
        /\ Reconciling(q)' = Reconciling(q)
    BY <1>1, ZenonT(30) DEF Acquired, InTime, Reconciling
  <1> QED
    BY <1>1, <1>2, SMTT(30), Z3T(30) DEF Safe

\* A step that sends nothing and leaves none of its sender's requests live.
LEMMA CallsKept ==
  ASSUME TypeOK, Calls, NEW r \in Replica,
         \A q \in Replica \ {r} : pc'[q] = pc[q] /\ reply'[q] = reply[q],
         reply'[r] # "none" => pc'[r] \in Waiting \cup {"ended"},
         \A n \in net' :
            /\ n.live => n \in net /\ n.from # r
            /\ n.from # r => n \in net
            /\ n.from = r => \E m \in net : /\ m.from = r /\ n.kind = m.kind
                                            /\ n.lease = m.lease,
         \A m \in net : m.from = r =>
            /\ m.kind \in {"create", "claim"} => pc'[r] = "off"
            /\ m.kind = "renew" => pc'[r] \notin AcquirePc
            /\ m.kind = "release" => pc'[r] \in {"releaseWait", "off"}
  PROVE  Calls'
  <1>1. \A m \in net : m.from \in Replica
    BY ZenonT(30) DEF TypeOK, Request
  <1>2. ASSUME NEW n \in net' PROVE CallOf(n)'
    <2>1. CASE n.from = r
      BY <2>1, SMTT(30), Z3T(30) DEF Calls, CallOf
    <2>2. CASE n.from # r
      BY <1>1, <2>2, ZenonT(60) DEF Calls, CallOf
    <2> QED
      BY <2>1, <2>2, ZenonT(30)
  <1>3. \A q \in Replica : reply'[q] # "none" => pc'[q] \in Waiting \cup {"ended"}
    BY ZenonT(30) DEF Calls
  <1>4. \A m, n \in net' : m.live /\ n.live /\ m.from = n.from => m = n
    BY Zenon DEF Calls
  <1> QED
    BY <1>2, <1>3, <1>4, ZenonT(30) DEF Calls

LEMMA CalledPc ==
  /\ Called("create") = "createWait" /\ Called("claim") = "claimWait"
  /\ Called("renew") = "renewWait" /\ Called("release") = "releaseWait"
  BY Zenon DEF Called

\* A replica that waits for no answer has no live request.
LEMMA NoLive ==
  ASSUME TypeOK, Calls, NEW r \in Replica, pc[r] \notin Waiting \/ reply[r] # "none"
  PROVE  \A m \in net : m.from = r => ~m.live
  <1> SUFFICES ASSUME NEW m \in net, m.from = r, m.live PROVE FALSE
    BY ZenonT(30)
  <1>1. pc[r] = Called(m.kind) /\ reply[r] = "none"
    BY Zenon DEF Calls, CallOf
  <1>2. m.kind \in {"create", "claim", "renew", "release"}
    BY ZenonT(30) DEF TypeOK, Request
  <1> QED
    BY <1>1, <1>2, CalledPc, Zenon DEF Waiting

\* A task that waits for no answer moves on, within its loop or to the next one.
LEMMA MoveCalls ==
  ASSUME TypeOK, Calls, NEW r \in Replica, NEW p,
         pc[r] \notin Waiting \/ reply[r] # "none",
         pc[r] \notin {"off", "releaseWait"},
         p \in AcquirePc => pc[r] \in AcquirePc,
         Goto(r, p), net' = net,
         \/ reply' = [reply EXCEPT ![r] = "none"]
         \/ reply' = reply /\ (pc[r] \notin Waiting \cup {"ended"} \/ p = "ended")
  PROVE  Calls'
  <1>1. pc'[r] = p /\ \A q \in Replica \ {r} : pc'[q] = pc[q] /\ reply'[q] = reply[q]
    BY Zenon DEF Goto, TypeOK
  <1>2. reply'[r] # "none" => p \in Waiting \cup {"ended"}
    BY ZenonT(30) DEF Calls, TypeOK
  <1>3. \A m \in net : m.from = r =>
            /\ ~m.live
            /\ m.kind \notin {"create", "claim", "release"}
            /\ m.kind = "renew" => p \notin AcquirePc
    BY NoLive, Zenon DEF Calls, CallOf
  <1>4. \A n \in net' :
            /\ n.live => n \in net /\ n.from # r
            /\ n.from # r => n \in net
            /\ n.from = r => \E m \in net : m.from = r /\ n.kind = m.kind /\ n.lease = m.lease
    BY <1>3, ZenonT(30)
  <1> QED
    BY <1>1, <1>2, <1>3, <1>4, CallsKept, SMTT(30), Z3T(30)

\* The requests of r are abandoned as its task moves to p.
LEMMA AbandonCalls ==
  ASSUME TypeOK, Calls, NEW r \in Replica, NEW p, Goto(r, p), net' = Abandon(r),
         reply' = [reply EXCEPT ![r] = "none"],
         p = "off" \/ (p = "release" /\ pc[r] \in RenewPc \cup {"ended"})
  PROVE  Calls'
  <1>1. pc'[r] = p /\ reply'[r] = "none"
        /\ \A q \in Replica \ {r} : pc'[q] = pc[q] /\ reply'[q] = reply[q]
    BY Zenon DEF Goto, TypeOK
  <1>2. net \subseteq Request
    BY Zenon DEF TypeOK
  <1>3. \A n \in net' :
            /\ n.live => n \in net /\ n.from # r
            /\ n.from # r => n \in net
            /\ n.from = r => \E m \in net : m.from = r /\ n.kind = m.kind /\ n.lease = m.lease
    BY <1>2, ZenonT(30) DEF Abandon, Request
  <1>4. ASSUME NEW m \in net, m.from = r
        PROVE  /\ m.kind \in {"create", "claim"} => p = "off"
               /\ m.kind = "renew" => p \notin AcquirePc
               /\ m.kind = "release" => p \in {"releaseWait", "off"}
    BY <1>4, CalledPc, ZenonT(30) DEF Calls, CallOf, AcquirePc, RenewPc
  <1> QED
    BY <1>1, <1>3, <1>4, CallsKept, ZenonT(60)

\* A task sends a write and waits for its answer.
LEMMA SendCalls ==
  ASSUME TypeOK, Calls, NEW r \in Replica,
         NEW k \in {"create", "claim", "renew", "release"}, NEW h,
         Send(r, k, LeaseOf(h)), Goto(r, Called(k)), reply' = reply,
         pc[r] \notin Waiting \cup {"ended", "off"},
         pc[r] \in AcquirePc <=> k \in {"create", "claim"}
  PROVE  Calls'
  <1>1. PICK c : /\ c.from = r /\ c.kind = k /\ c.lease.secs = 0 /\ c.live
                 /\ net' = net \cup {c}
    BY Zenon DEF Send, LeaseOf
  <1>2. pc'[r] = Called(k) /\ \A q \in Replica \ {r} : pc'[q] = pc[q]
    BY ZenonT(30) DEF Goto, TypeOK
  <1>3. reply[r] = "none"
    BY ZenonT(30) DEF Calls
  <1>4. \A m \in net : m.from \in Replica
    BY ZenonT(30) DEF TypeOK, Request
  <1>5. \A m \in net : m.from = r =>
            ~m.live /\ m.kind \notin {"create", "claim", "release"} /\ pc[r] \notin AcquirePc
    <2>1. SUFFICES ASSUME NEW m \in net, m.from = r
                   PROVE  ~m.live /\ m.kind \notin {"create", "claim", "release"} /\ pc[r] \notin AcquirePc
      BY Zenon
    <2>2. CallOf(m) /\ ~m.live
      BY <2>1, NoLive, Zenon DEF Calls
    <2>3. m.kind \in {"create", "claim", "renew", "release"}
      BY Zenon DEF TypeOK, Request
    <2>4. m.kind \notin {"create", "claim"} /\ m.kind # "release"
      BY <2>1, <2>2, Zenon DEF CallOf, Waiting
    <2>5. pc[r] \notin AcquirePc
      BY <2>1, <2>2, <2>3, <2>4, ZenonT(60) DEF CallOf
    <2> QED
      BY <2>2, <2>4, <2>5, Zenon
  <1>6. CallOf(c)'
    BY <1>1, <1>2, <1>3, CalledPc, ZenonT(30) DEF CallOf, AcquirePc
  <1>7. ASSUME NEW m \in net PROVE CallOf(m)'
    <2>1. CASE m.from = r
      <3>1. k \notin {"create", "claim"} /\ Called(k) \notin AcquirePc
        BY <1>5, <2>1, CalledPc, Zenon DEF AcquirePc
      <3>2. ~m.live /\ m.kind \notin {"create", "claim", "release"}
        BY <1>5, <2>1, ZenonT(30)
      <3> QED
        BY <1>2, <2>1, <3>1, <3>2, ZenonT(30) DEF Calls, CallOf
    <2>2. CASE m.from # r
      BY <1>2, <1>4, <2>2, ZenonT(30) DEF Calls, CallOf
    <2> QED
      BY <2>1, <2>2, Zenon
  <1>8. \A q \in Replica : reply'[q] # "none" => pc'[q] \in Waiting \cup {"ended"}
    BY <1>2, <1>3, ZenonT(30) DEF Calls
  <1>9. \A m, n \in net' : m.live /\ n.live /\ m.from = n.from => m = n
    BY <1>1, <1>5, ZenonT(30) DEF Calls
  <1> QED
    BY <1>1, <1>6, <1>7, <1>8, <1>9, Zenon DEF Calls

\* What r promises rests on its own state and on the lease.
LEMMA OneStep ==
  ASSUME TypeOK, Leaders, NEW r \in Replica, Calls', Safe(r)',
         lease' = lease, frac' = frac,
         \A q \in Replica \ {r} :
            /\ pc'[q] = pc[q] /\ reply'[q] = reply[q] /\ read'[q] = read[q]
            /\ since'[q] = since[q] /\ timer'[q] = timer[q] /\ phase'[q] = phase[q]
  PROVE  Leaders'
  BY OthersSafe, ZenonT(30) DEF Leaders

LEMMA ExitLeaders ==
  ASSUME TypeOK, Leaders, NEW r \in Replica, Exit(r)
  PROVE  Leaders'
  <1>1. Calls'
    BY AbandonCalls, Zenon DEF Exit, Goto, Leaders
  <1>2. pc'[r] = "off" /\ phase'[r] = "Down"
    BY ZenonT(30) DEF Exit, TypeOK
  <1>3. Safe(r)'
    BY <1>2, ZenonT(30) DEF Safe, Acquired, Reconciling, AcquirePc, RenewPc
  <1> QED
    BY <1>1, <1>3, OneStep, Zenon DEF Exit, TypeOK

LEMMA BailLeaders ==
  ASSUME TypeOK, Leaders, NEW r \in Replica, Bail(r), Reconciling(r),
         pc[r] \notin Waiting \/ reply[r] # "none"
  PROVE  Leaders'
  <1>1. CASE Exit(r)
    BY <1>1, ExitLeaders, ZenonT(30)
  <1>2. CASE /\ phase[r] = "Stopping" /\ Goto(r, "ended") /\ Forget(r)
             /\ UNCHANGED <<net, phase, timer, since>>
    <2>1. Calls'
      BY <1>2, MoveCalls, Zenon DEF Leaders, Forget, AcquirePc, Reconciling, RenewPc
    <2>2. pc'[r] = "ended" /\ phase'[r] = "Stopping"
      BY <1>2, ZenonT(30) DEF TypeOK, Goto
    <2>3. Reconciling(r)' /\ InTime(r)' /\ lease'.holder = r
      BY <1>2, <2>2, ZenonT(30) DEF Leaders, Safe, Reconciling, InTime, Forget
    <2>4. Safe(r)'
      BY <2>2, <2>3, ZenonT(30) DEF Safe, Acquired, AcquirePc, RenewPc
    <2> QED
      BY <1>2, <2>1, <2>4, OneStep, ZenonT(30) DEF Forget, Goto, TypeOK
  <1> QED
    BY <1>1, <1>2, Zenon DEF Bail

\* The renewal loop sleeps: it renewed just now, or its deadline is not reached.
LEMMA SleepLeaders ==
  ASSUME Punctual, TypeOK, Leaders, NEW r \in Replica, pc[r] \in RenewPc,
         pc[r] \notin Waiting \/ reply[r] # "none",
         SleepAt(r, "renewSleep"), Answered(r), phase' = phase,
         \/ since' = since /\ timer[r] = 0 /\ since[r] < Deadline
         \/ since' = [since EXCEPT ![r] = 0] /\ lease.secs = 0
  PROVE  Leaders'
  <1>1. Calls'
    BY MoveCalls, Zenon DEF Leaders, SleepAt, Answered, AcquirePc, RenewPc
  <1>2. /\ pc'[r] = "renewSleep" /\ timer'[r] = RetryInterval
        /\ lease' = lease /\ frac' = frac
    BY ZenonT(30) DEF SleepAt, Goto, TypeOK, Answered
  <1>3. lease.holder = r /\ InTime(r) /\ since[r] + timer[r] \in Attempts
    BY ZenonT(30) DEF Leaders, Safe, Reconciling
  <1>4. /\ since[r] \in Nat /\ timer[r] \in Nat /\ frac \in Nat /\ frac < TicksPerSecond
        /\ RetryInterval \in Nat /\ TicksPerSecond \in Nat /\ Deadline \in Nat
    BY Bounds, SMTT(30), Z3T(30) DEF TypeOK
  <1>5. since'[r] + RetryInterval \in Attempts
    BY <1>3, <1>4, AttemptFacts, SMTT(30), Z3T(30) DEF TypeOK
  <1>6. lease.secs * TicksPerSecond + frac < since'[r] + TicksPerSecond
    BY <1>3, <1>4, SMTT(30), Z3T(30) DEF InTime, TypeOK
  <1>7. Safe(r)'
    BY <1>2, <1>3, <1>5, <1>6, ZenonT(30) DEF Safe, Acquired, InTime, AcquirePc, RenewPc
  <1> QED
    BY <1>1, <1>2, <1>7, OneStep, ZenonT(60) DEF SleepAt, Goto, TypeOK, Answered

LEMMA RenewFailedLeaders ==
  ASSUME Punctual, TypeOK, Leaders, NEW r \in Replica, RenewFailed(r), pc[r] \in RenewPc,
         timer[r] = 0, pc[r] \notin Waiting \/ reply[r] # "none"
  PROVE  Leaders'
  BY BailLeaders, SleepLeaders, ZenonT(30) DEF RenewFailed, Reconciling

\* `acquire` returns with a lease that was written just now.
LEMMA LeadLeaders ==
  ASSUME Punctual, TypeOK, Leaders, NEW r \in Replica, Acquired(r), Lead(r), Answered(r)
  PROVE  Leaders'
  <1>1. Calls'
    BY MoveCalls, Zenon DEF Leaders, Lead, SleepAt, Answered, AcquirePc, Acquired
  <1>2. /\ pc'[r] = "renewSleep" /\ timer'[r] = RetryInterval /\ since'[r] = 0
        /\ lease' = lease /\ frac' = frac
    BY ZenonT(30) DEF Lead, SleepAt, Goto, TypeOK, Answered
  <1>3. lease.holder = r /\ lease.secs = 0
    BY ZenonT(30) DEF Leaders, Safe
  <1>4. frac \in Nat /\ frac < TicksPerSecond /\ RetryInterval \in Nat /\ TicksPerSecond \in Nat
    BY Bounds, SMTT(30), Z3T(30) DEF TypeOK
  <1>5. /\ 0 + RetryInterval \in Attempts
        /\ lease.secs * TicksPerSecond + frac < 0 + TicksPerSecond
    BY <1>3, <1>4, AttemptFacts, SMTT(30), Z3T(30)
  <1>6. Safe(r)'
    BY <1>2, <1>3, <1>5, ZenonT(30) DEF Safe, Acquired, InTime, AcquirePc, RenewPc
  <1> QED
    BY <1>1, <1>2, <1>6, OneStep, Zenon DEF Lead, SleepAt, Goto, TypeOK, Answered

\* A task that looks for the lease, and has not got it, does so again.
LEMMA SeekLeaders ==
  ASSUME TypeOK, Leaders, NEW r \in Replica, Calls', NEW p \in AcquirePc,
         pc[r] \in AcquirePc, ~Acquired(r), Goto(r, p),
         p \in {"createWait", "claimWait"} => reply'[r] # "ok",
         lease' = lease, frac' = frac, phase' = phase,
         p = "decide" => read'[r] = lease,
         \A q \in Replica \ {r} :
            /\ reply'[q] = reply[q] /\ read'[q] = read[q]
            /\ since'[q] = since[q] /\ timer'[q] = timer[q]
  PROVE  Leaders'
  <1>1. pc'[r] = p /\ \A q \in Replica \ {r} : pc'[q] = pc[q]
    BY ZenonT(30) DEF Goto, TypeOK
  <1>2. lease.holder # r /\ phase[r] # "Leading"
    BY ZenonT(30) DEF Leaders, Safe, AcquirePc, RenewPc
  <1>3. Safe(r)'
    BY <1>1, <1>2, Zenon DEF Safe, Acquired, Reconciling, AcquirePc, RenewPc
  <1> QED
    BY <1>1, <1>3, OneStep, ZenonT(30)

LEMMA AcquireGetLeaders ==
  ASSUME TypeOK, Leaders, NEW r \in Replica, AcquireGet(r)
  PROVE  Leaders'
  <1>1. CASE Exit(r)
    BY <1>1, ExitLeaders, ZenonT(30)
  <1>2. CASE Get(r) /\ Goto(r, "decide") /\ UNCHANGED <<frac, phase, timer, since>>
    <2>1. pc[r] \in {"acquire", "retry"}
      BY Zenon DEF AcquireGet
    <2>2. Calls'
      BY <1>2, <2>1, MoveCalls, Zenon DEF Leaders, Get, Waiting, AcquirePc
    <2>3. read'[r] = lease /\ \A q \in Replica \ {r} : read'[q] = read[q]
      BY <1>2, ZenonT(30) DEF Get, TypeOK
    <2> QED
      BY <1>2, <2>1, <2>2, <2>3, SeekLeaders, ZenonT(30) DEF Get, AcquirePc, Acquired
  <1> QED
    BY <1>1, <1>2, Zenon DEF AcquireGet

LEMMA AcquireDecideLeaders ==
  ASSUME TypeOK, Leaders, NEW r \in Replica, AcquireDecide(r)
  PROVE  Leaders'
  <1>1. pc[r] = "decide" /\ Forget(r) /\ ~held_by_us(read[r], r)
    BY ZenonT(30) DEF AcquireDecide, Leaders, Safe, held_by_us
  <1>2. /\ lease' = lease /\ frac' = frac /\ reply' = reply /\ reply[r] = "none"
        /\ \A q \in Replica \ {r} : read'[q] = read[q]
    BY <1>1, Zenon DEF Forget, TypeOK, Leaders, Calls, Waiting
  <1>3. ASSUME NEW k \in {"create", "claim"}, Send(r, k, LeaseOf(r)), Goto(r, Called(k)),
               UNCHANGED <<phase, timer, since>>
        PROVE  Leaders'
    <2>1. Calls'
      BY <1>1, <1>2, <1>3, SendCalls, ZenonT(30) DEF Leaders, Waiting, AcquirePc
    <2>2. Called(k) \in AcquirePc /\ Called(k) # "decide"
      BY CalledPc, ZenonT(30) DEF AcquirePc
    <2> QED
      BY <1>1, <1>2, <1>3, <2>1, <2>2, SeekLeaders, ZenonT(60) DEF AcquirePc, Acquired
  <1>4. CASE SleepAt(r, "retry") /\ UNCHANGED <<net, phase, since>>
    <2>1. Calls'
      BY <1>1, <1>2, <1>4, MoveCalls, ZenonT(30) DEF Leaders, SleepAt, Waiting, AcquirePc
    <2>2. \A q \in Replica \ {r} : timer'[q] = timer[q]
      BY <1>4, ZenonT(30) DEF SleepAt, TypeOK
    <2> QED
      BY <1>1, <1>2, <1>4, <2>1, <2>2, SeekLeaders, ZenonT(60) DEF SleepAt, AcquirePc, Acquired
  <1> QED
    BY <1>1, <1>3, <1>4, CalledPc, ZenonT(60) DEF AcquireDecide

LEMMA AcquireReplyLeaders ==
  ASSUME Punctual, TypeOK, Leaders, NEW r \in Replica, AcquireReply(r)
  PROVE  Leaders'
  <1>1. CASE reply[r] = "ok" /\ Lead(r) /\ Answered(r)
    BY <1>1, LeadLeaders, Zenon DEF AcquireReply, Acquired
  <1>2. CASE Exit(r)
    BY <1>2, ExitLeaders, ZenonT(30)
  <1>3. ASSUME NEW p \in {"acquire", "retry"}, reply[r] # "ok", Goto(r, p), Answered(r),
               \A q \in Replica \ {r} : timer'[q] = timer[q], UNCHANGED <<phase, since>>
        PROVE  Leaders'
    <2>1. pc[r] \in {"createWait", "claimWait"} /\ reply[r] # "none"
      BY Zenon DEF AcquireReply
    <2>2. Calls'
      BY <1>3, <2>1, MoveCalls, Zenon DEF Leaders, Answered, AcquirePc
    <2>3. \A q \in Replica \ {r} : reply'[q] = reply[q]
      BY <1>3, Zenon DEF Answered, TypeOK
    <2> QED
      BY <1>3, <2>1, <2>2, <2>3, SeekLeaders, ZenonT(30) DEF Answered, AcquirePc, Acquired
  <1>4. ASSUME SleepAt(r, "retry")
        PROVE  Goto(r, "retry") /\ \A q \in Replica \ {r} : timer'[q] = timer[q]
    BY <1>4, Zenon DEF SleepAt, TypeOK
  <1> QED
    BY <1>1, <1>2, <1>3, <1>4, ZenonT(30) DEF AcquireReply

LEMMA RenewGetLeaders ==
  ASSUME Punctual, TypeOK, Leaders, NEW r \in Replica, RenewGet(r)
  PROVE  Leaders'
  <1>1. pc[r] = "renewSleep" /\ timer[r] = 0
    BY ZenonT(30) DEF RenewGet
  <1>2. CASE RenewFailed(r)
    BY <1>1, <1>2, RenewFailedLeaders, Zenon DEF RenewPc, Waiting
  <1>3. CASE Get(r) /\ Goto(r, "renewDecide") /\ UNCHANGED <<frac, phase, timer, since>>
    <2>1. Calls'
      BY <1>1, <1>3, MoveCalls, Zenon DEF Leaders, Get, Waiting, AcquirePc
    <2>2. pc'[r] = "renewDecide" /\ lease' = lease
      BY <1>3, ZenonT(30) DEF Goto, TypeOK, Get
    <2>3. InTime(r)' /\ lease.holder = r /\ since'[r] + timer'[r] \in Attempts
      BY <1>1, <1>3, <2>2, Zenon DEF Leaders, Safe, Reconciling, RenewPc, InTime
    <2>4. Safe(r)'
      BY <1>1, <1>3, <2>2, <2>3, ZenonT(30) DEF Safe, Acquired, AcquirePc, RenewPc
    <2> QED
      BY <1>3, <2>1, <2>4, OneStep, ZenonT(60) DEF Get, Goto, TypeOK
  <1> QED
    BY <1>2, <1>3, ZenonT(30) DEF RenewGet

LEMMA RenewDecideLeaders ==
  ASSUME TypeOK, Leaders, NEW r \in Replica, RenewDecide(r)
  PROVE  Leaders'
  <1>1. pc[r] = "renewDecide" /\ timer[r] = 0
    BY ZenonT(30) DEF RenewDecide, Leaders, Safe
  <1>2. CASE Bail(r)
    BY <1>1, <1>2, BailLeaders, Zenon DEF Reconciling, RenewPc, Waiting
  <1>3. CASE /\ Forget(r) /\ Send(r, "renew", LeaseOf(r)) /\ Goto(r, "renewWait")
             /\ UNCHANGED <<phase, timer, since>>
    <2>1. Calls'
      BY <1>1, <1>3, SendCalls, CalledPc, ZenonT(30) DEF Leaders, Forget, Waiting, AcquirePc
    <2>2. pc'[r] = "renewWait" /\ lease' = lease /\ frac' = frac /\ reply'[r] = "none"
      BY <1>1, <1>3, ZenonT(30) DEF Goto, TypeOK, Forget, Leaders, Calls, Waiting
    <2>3. InTime(r)' /\ lease.holder = r /\ since'[r] + timer'[r] \in Attempts
      BY <1>1, <1>3, <2>2, ZenonT(60) DEF Leaders, Safe, Reconciling, RenewPc, InTime
    <2>4. Safe(r)'
      BY <1>1, <1>3, <2>2, <2>3, Zenon DEF Safe, Acquired, AcquirePc, RenewPc
    <2> QED
      BY <1>3, <2>1, <2>2, <2>4, OneStep, ZenonT(30) DEF Forget, Goto, TypeOK
  <1> QED
    BY <1>2, <1>3, ZenonT(30) DEF RenewDecide

LEMMA RenewReplyLeaders ==
  ASSUME Punctual, TypeOK, Leaders, NEW r \in Replica, RenewReply(r)
  PROVE  Leaders'
  <1>1. pc[r] = "renewWait" /\ reply[r] # "none" /\ timer[r] = 0
    BY ZenonT(30) DEF RenewReply, Leaders, Safe
  <1>2. CASE RenewFailed(r)
    BY <1>1, <1>2, RenewFailedLeaders, Zenon DEF RenewPc
  <1>3. CASE /\ reply[r] = "ok" /\ SleepAt(r, "renewSleep") /\ Answered(r)
             /\ since' = [since EXCEPT ![r] = 0] /\ UNCHANGED phase
    <2>1. lease.secs = 0
      BY <1>1, <1>3, ZenonT(30) DEF Leaders, Safe
    <2> QED
      BY <1>1, <1>3, <2>1, SleepLeaders, Zenon DEF RenewPc
  <1> QED
    BY <1>2, <1>3, ZenonT(30) DEF RenewReply

LEMMA ReleaseLeaders ==
  ASSUME TypeOK, Leaders, NEW r \in Replica,
         StopControllers(r) \/ ReleaseGet(r) \/ ReleaseDecide(r) \/ ReleaseReply(r)
  PROVE  Leaders'
  <1>1. ASSUME NEW p \in ReleasePc, Calls', Goto(r, p), lease' = lease, frac' = frac,
               UNCHANGED <<timer, since, phase>>,
               pc[r] \in ReleasePc \/ phase[r] = "Stopping",
               \A q \in Replica \ {r} : reply'[q] = reply[q] /\ read'[q] = read[q]
        PROVE  Leaders'
    <2>1. pc'[r] = p /\ \A q \in Replica \ {r} : pc'[q] = pc[q]
      BY <1>1, ZenonT(30) DEF Goto, TypeOK
    <2>2. phase[r] # "Leading"
      BY <1>1, ZenonT(30) DEF Leaders, Safe, ReleasePc, RenewPc
    <2>3. Safe(r)'
      BY <1>1, <2>1, <2>2, ZenonT(30) DEF Safe, Acquired, Reconciling, AcquirePc, RenewPc, ReleasePc
    <2> QED
      BY <1>1, <2>1, <2>3, OneStep, ZenonT(30)
  <1>2. CASE StopControllers(r)
    <2>1. Calls'
      BY <1>2, AbandonCalls, Zenon DEF StopControllers, Leaders, Reconciling
    <2> QED
      BY <1>1, <1>2, <2>1, ZenonT(30) DEF StopControllers, ReleasePc, TypeOK
  <1>3. ASSUME pc[r] = "release", Get(r), Goto(r, "releaseDecide"),
               UNCHANGED <<frac, phase, timer, since>>
        PROVE  Leaders'
    <2>1. Calls'
      BY <1>3, MoveCalls, ZenonT(30) DEF Get, Leaders, Waiting, AcquirePc
    <2> QED
      BY <1>1, <1>3, <2>1, ZenonT(30) DEF Get, ReleasePc, TypeOK
  <1>4. ASSUME pc[r] = "releaseDecide", Forget(r), Send(r, "release", LeaseOf(Vacant)),
               Goto(r, "releaseWait"), UNCHANGED <<phase, timer, since>>
        PROVE  Leaders'
    <2>1. Calls'
      BY <1>4, SendCalls, CalledPc, Zenon DEF Forget, Leaders, Waiting, AcquirePc
    <2> QED
      BY <1>1, <1>4, <2>1, ZenonT(60) DEF Forget, ReleasePc, TypeOK
  <1> QED
    BY <1>2, <1>3, <1>4, ExitLeaders, ZenonT(30) DEF ReleaseGet, ReleaseDecide, ReleaseReply

LEMMA StepLeaders ==
  ASSUME Punctual, TypeOK, Leaders, NEW r \in Replica, Step(r)
  PROVE  Leaders'
  BY AcquireGetLeaders, AcquireDecideLeaders, AcquireReplyLeaders, RenewGetLeaders,
     RenewDecideLeaders, RenewReplyLeaders, ReleaseLeaders, ZenonT(60) DEF Step

LEMMA ShutdownLeaders ==
  ASSUME TypeOK, Leaders, NEW r \in Replica, Shutdown(r)
  PROVE  Leaders'
  <1>1. UNCHANGED <<lease, frac, net, reply, pc, read, timer, since>>
    BY ZenonT(60) DEF Shutdown, apiVars
  <1>2. Calls'
    BY <1>1, ZenonT(30) DEF Leaders, Calls, CallOf
  <1>3. phase'[r] = "Stopping" /\ \A q \in Replica \ {r} : phase'[q] = phase[q]
    BY ZenonT(30) DEF Shutdown, TypeOK
  <1>4. Acquired(r)' = Acquired(r) /\ InTime(r)' = InTime(r) /\ Reconciling(r)' = Reconciling(r)
    BY <1>1, ZenonT(30) DEF Acquired, InTime, Reconciling
  <1>5. Safe(r)'
    BY <1>1, <1>3, <1>4, ZenonT(30) DEF Leaders, Safe
  <1> QED
    BY <1>1, <1>2, <1>3, <1>5, OneStep, Zenon

\* A call that fails at its caller is a renewal or a release: a claim does not fail.
LEMMA ErrorLeaders ==
  ASSUME Punctual, TypeOK, Leaders, NEW r \in Replica, ApiError(r)
  PROVE  Leaders'
  <1>1. UNCHANGED <<lease, frac, phase, pc, read, timer, since>>
    BY ZenonT(30) DEF ApiError, taskVars
  <1>2. pc[r] \in {"renewWait", "releaseWait"}
    BY Zenon DEF ApiError, Punctual, Waiting
  <1>3. reply'[r] = "error" /\ \A q \in Replica \ {r} : reply'[q] = reply[q]
    BY Zenon DEF ApiError, TypeOK
  <1>4. net \subseteq Request
    BY Zenon DEF TypeOK
  <1>5. \A n \in net' :
            /\ n.live => n \in net /\ n.from # r
            /\ n.from # r => n \in net
            /\ n.from = r => \E m \in net : m.from = r /\ n.kind = m.kind /\ n.lease = m.lease
    BY <1>4, SMTT(30), Z3T(30) DEF ApiError, Abandon, Request
  <1>6. ASSUME NEW m \in net, m.from = r
        PROVE  /\ m.kind \in {"create", "claim"} => pc[r] = "off"
               /\ m.kind = "renew" => pc[r] \notin AcquirePc
               /\ m.kind = "release" => pc[r] \in {"releaseWait", "off"}
    BY <1>2, <1>6, CalledPc, ZenonT(60) DEF Leaders, Calls, CallOf
  <1>7. Calls'
    BY <1>1, <1>2, <1>3, <1>5, <1>6, CallsKept, SMTT(30), Z3T(30) DEF Leaders, Waiting
  <1>8. ~Acquired(r)' /\ InTime(r)' = InTime(r) /\ Reconciling(r)' = Reconciling(r)
    BY <1>1, <1>3, ZenonT(30) DEF Acquired, InTime, Reconciling
  <1>9. Safe(r)'
    BY <1>1, <1>2, <1>3, <1>8, ZenonT(60) DEF Leaders, Safe, AcquirePc
  <1> QED
    BY <1>1, <1>3, <1>7, <1>9, OneStep, ZenonT(30)

-------------------------------------------------------------------------------
(* The API server and time *)

LEMMA ApplyCalls ==
  ASSUME TypeOK, Calls, NEW m \in net, Apply(m)
  PROVE  Calls'
  <1>1. /\ m.from \in Replica /\ m.kind \in {"create", "claim", "renew", "release"}
        /\ \A n \in net : n.from \in Replica /\ n \in Request
    BY Zenon DEF TypeOK, Request
  <1>2. pc' = pc
    BY Zenon DEF Apply, taskVars
  <1>3. /\ \A q \in Replica : q # m.from \/ ~m.live => reply'[q] = reply[q]
        /\ m.live => reply'[m.from] \in {"ok", "conflict"}
    BY <1>1, Zenon DEF Apply, TypeOK
  <1>4. ASSUME NEW n \in net'
        PROVE  \E o \in net \ {m} : n = o \/ n = [o EXCEPT !.fresh = FALSE]
    BY Zenon DEF Apply
  <1>5. ASSUME NEW n \in net'
        PROVE  \E o \in net \ {m} : /\ n.from = o.from /\ n.kind = o.kind
                                    /\ n.lease = o.lease /\ n.live = o.live
    BY <1>1, <1>4, ZenonT(60) DEF Request
  <1>6. ASSUME NEW n \in net' PROVE CallOf(n)'
    <2>1. PICK o \in net \ {m} : /\ n.from = o.from /\ n.kind = o.kind
                                 /\ n.lease = o.lease /\ n.live = o.live
      BY <1>5, ZenonT(30)
    <2>2. CallOf(o) /\ o.from \in Replica
      BY <1>1, ZenonT(30) DEF Calls
    <2>3. o.live /\ m.live => o.from # m.from
      BY ZenonT(30) DEF Calls
    <2> QED
      BY <1>2, <1>3, <2>1, <2>2, <2>3, Zenon DEF CallOf
  <1>7. \A q \in Replica : reply'[q] # "none" => pc'[q] \in Waiting \cup {"ended"}
    <2>1. m.live => pc[m.from] \in Waiting
      BY <1>1, CalledPc, ZenonT(60) DEF Calls, CallOf, Waiting
    <2> QED
      BY <1>2, <1>3, <2>1, ZenonT(60) DEF Calls
  <1>8. \A n, p \in net' : n.live /\ p.live /\ n.from = p.from => n = p
    <2> SUFFICES ASSUME NEW n \in net', NEW p \in net', n.live, p.live, n.from = p.from
                 PROVE  n = p
      BY Zenon
    <2> DEFINE ok == IF m.kind = "create" THEN lease.holder = Absent ELSE m.fresh
               U(o) == IF ok THEN [o EXCEPT !.fresh = FALSE] ELSE o
    <2>1. PICK o \in net \ {m} : n = U(o)
      BY Zenon DEF Apply
    <2>2. PICK u \in net \ {m} : p = U(u)
      BY Zenon DEF Apply
    <2>3. o.live /\ u.live /\ o.from = u.from
      BY <1>1, <2>1, <2>2, ZenonT(30) DEF Request
    <2>4. o = u
      BY <2>3, Zenon DEF Calls
    <2> QED
      BY <2>1, <2>2, <2>4, Zenon
  <1> QED
    BY <1>6, <1>7, <1>8, ZenonT(30) DEF Calls

LEMMA ApplyLeaders ==
  ASSUME TypeOK, RequestsAreCurrent, Leaders, NEW m \in net, Apply(m)
  PROVE  Leaders'
  <1> DEFINE ok == IF m.kind = "create" THEN lease.holder = Absent ELSE m.fresh
  <1>1. Calls'
    BY ApplyCalls, Zenon DEF Leaders
  <1>2. /\ UNCHANGED <<frac, phase, pc, read, timer, since>>
        /\ lease' = IF ok THEN m.lease ELSE lease
        /\ \A q \in Replica : q # m.from \/ ~m.live => reply'[q] = reply[q]
        /\ m.live => reply'[m.from] = IF ok THEN "ok" ELSE "conflict"
    BY ZenonT(30) DEF Apply, taskVars, TypeOK, Request
  <1>3. m.from \in Replica /\ m.kind \in {"create", "claim", "renew", "release"} /\ CallOf(m)
    BY Zenon DEF TypeOK, Request, Leaders, Calls
  <1> SUFFICES ASSUME NEW q \in Replica PROVE Safe(q)'
    BY <1>1, Zenon DEF Leaders
  <1>4. Safe(q)
    BY ZenonT(30) DEF Leaders
  <1>5. CASE ~ok
    <2>1. lease' = lease /\ (q = m.from /\ m.live => reply'[q] = "conflict" /\ reply[q] = "none")
      BY <1>2, <1>3, <1>5, ZenonT(30) DEF CallOf
    <2>2. (Acquired(q)' => Acquired(q)) /\ (Acquired(q) => Acquired(q)')
      BY <1>2, <2>1, ZenonT(30) DEF Acquired
    <2>3. InTime(q)' = InTime(q) /\ Reconciling(q)' = Reconciling(q)
      BY <1>2, <2>1, Zenon DEF InTime, Reconciling
    <2> QED
      BY <1>2, <1>4, <2>1, <2>2, <2>3, ZenonT(30) DEF Safe
  <1>6. CASE ok /\ m.kind \in {"create", "claim"}
    <2>1. lease' = m.lease /\ m.lease.holder = m.from /\ m.lease.secs = 0
      BY <1>2, <1>3, <1>6, ZenonT(30) DEF RequestsAreCurrent, CallOf
    <2>2. ~Reconciling(q) /\ ~Acquired(q)
      BY <1>4, <1>6, NotClaimable, IdentityAssumption, ZenonT(30) DEF RequestsAreCurrent
    <2>3. CASE q # m.from
      <3>1. ~Acquired(q)' /\ ~Reconciling(q)' /\ lease'.holder # q
        BY <1>2, <2>1, <2>2, <2>3, Zenon DEF Acquired, Reconciling
      <3> QED
        BY <1>2, <1>4, <2>1, <2>3, <3>1, ZenonT(60) DEF Safe
    <2>4. CASE q = m.from
      <3>1. ~Reconciling(q)' /\ lease'.holder = q /\ lease'.secs = 0
        BY <1>2, <2>1, <2>2, <2>4, ZenonT(30) DEF Reconciling
      <3>2. CASE m.live
        <4>1. pc[q] \in {"createWait", "claimWait"} /\ reply'[q] = "ok"
          BY <1>2, <1>3, <1>6, <2>4, <3>2, CalledPc, ZenonT(30) DEF CallOf
        <4>2. Acquired(q)'
          BY <1>2, <4>1, ZenonT(30) DEF Acquired
        <4> QED
          BY <1>2, <1>4, <3>1, <4>1, <4>2, ZenonT(30) DEF Safe, RenewPc
      <3>3. CASE ~m.live
        <4>1. pc[q] = "off"
          BY <1>3, <1>6, <2>4, <3>3, ZenonT(30) DEF CallOf
        <4>2. ~Acquired(q)'
          BY <1>2, <4>1, ZenonT(30) DEF Acquired
        <4> QED
          BY <1>2, <1>4, <3>1, <4>1, <4>2, ZenonT(30) DEF Safe, RenewPc, AcquirePc
      <3> QED
        BY <3>2, <3>3, Zenon
    <2> QED
      BY <2>3, <2>4, ZenonT(30)
  <1>7. CASE ok /\ m.kind = "renew"
    <2>1. lease' = m.lease /\ m.lease.holder = m.from /\ m.lease.secs = 0 /\ lease.holder = m.from
      BY <1>2, <1>3, <1>7, Zenon DEF RequestsAreCurrent, CallOf
    <2>2. Acquired(q)' = Acquired(q) /\ Reconciling(q)' = Reconciling(q)
      <3>1. q = m.from /\ m.live => pc[q] = "renewWait"
        BY <1>3, <1>7, CalledPc, ZenonT(30) DEF CallOf
      <3> QED
        BY <1>2, <3>1, ZenonT(30) DEF Acquired, Reconciling
    <2>3. InTime(q)'
      <3>1. /\ frac \in Nat /\ frac < TicksPerSecond /\ since[q] \in Nat
            /\ TicksPerSecond \in Nat
        BY Bounds, SMTT(30), Z3T(30) DEF TypeOK
      <3>2. 0 * TicksPerSecond + frac < since[q] + TicksPerSecond
        BY <3>1, SMTT(30), Z3T(30)
      <3> QED
        BY <1>2, <2>1, <3>2, ZenonT(30) DEF InTime
    <2> QED
      BY <1>2, <1>4, <2>1, <2>2, <2>3, ZenonT(30) DEF Safe
  <1>8. CASE ok /\ m.kind = "release"
    <2>1. /\ lease' = m.lease /\ m.lease.holder = Vacant /\ lease.holder = m.from
          /\ pc[m.from] \in {"releaseWait", "off"}
      BY <1>2, <1>3, <1>8, ZenonT(30) DEF RequestsAreCurrent, CallOf
    <2>2. ~Reconciling(q) /\ ~Acquired(q) /\ lease'.holder # q
      BY <1>4, <2>1, IdentityAssumption, ZenonT(60) DEF Safe, Reconciling, Acquired, RenewPc
    <2>3. ~Reconciling(q)' /\ ~Acquired(q)'
      <3>1. q = m.from => pc[q] \in {"releaseWait", "off"}
        BY <2>1, Zenon
      <3> QED
        BY <1>2, <2>2, <3>1, ZenonT(30) DEF Acquired, Reconciling
    <2>4. pc[q] \notin RenewPc
      BY <2>2, ZenonT(30) DEF Reconciling
    <2> QED
      BY <1>2, <1>4, <2>2, <2>3, <2>4, ZenonT(30) DEF Safe, RenewPc
  <1> QED
    BY <1>3, <1>5, <1>6, <1>7, <1>8, Zenon

\* Time passes while every live replica sleeps: a leader sleeps before its next
\* attempt, which is no later than its deadline.
LEMMA TickLeaders ==
  ASSUME Punctual, TypeOK, Leaders, Tick
  PROVE  Leaders'
  <1> DEFINE Age(l) == IF frac + 1 = TicksPerSecond THEN Older(l) ELSE l
             T == TicksPerSecond
  <1>1. /\ net = {} /\ net' = {} /\ UNCHANGED <<phase, pc, reply>>
        /\ \A q \in Replica : pc[q] = "off" \/ Sleeping(q)
    BY ZenonT(30) DEF Tick, MayTick, Punctual
  <1>2. Calls'
    BY <1>1, Zenon DEF Leaders, Calls
  <1> SUFFICES ASSUME NEW q \in Replica PROVE Safe(q)'
    BY <1>2, ZenonT(30) DEF Leaders
  <1>3. Safe(q) /\ (Acquired(q)' = Acquired(q)) /\ (Reconciling(q)' = Reconciling(q))
    BY <1>1, Zenon DEF Leaders, Acquired, Reconciling
  <1>4. lease' = Age(lease) /\ lease \in Lease /\ lease'.holder = lease.holder
    BY Aging, Zenon DEF Tick, TypeOK
  <1>5. pc[q] \in {"off", "retry"} \/ (pc[q] = "renewSleep" /\ timer[q] > 0)
    BY <1>1, ZenonT(30) DEF Sleeping
  <1>6. CASE pc[q] \in {"off", "retry"}
    BY <1>1, <1>3, <1>4, <1>6, ZenonT(30) DEF Safe, Acquired, Reconciling, AcquirePc, RenewPc
  <1>7. CASE pc[q] = "renewSleep" /\ timer[q] > 0
    <2>1. /\ since[q] \in Nat /\ timer[q] \in Nat /\ Deadline \in Nat /\ frac \in Nat
          /\ T \in Nat \ {0} /\ lease.secs \in Nat /\ frac < T
      <3>1. /\ since[q] \in 0 .. Deadline /\ timer[q] \in 0 .. RetryInterval
            /\ frac \in 0 .. (TicksPerSecond - 1) /\ lease.secs \in 0 .. Stale
        BY Zenon DEF TypeOK, Lease
      <3> QED
        BY <3>1, Bounds, SMTT(30), Z3T(30)
    <2>2. /\ since[q] + timer[q] \in Attempts /\ since[q] + timer[q] <= Deadline
          /\ Reconciling(q) /\ lease.holder = q /\ InTime(q)
      BY <1>3, <1>7, AttemptFacts, ZenonT(30) DEF Safe, Reconciling, RenewPc
    <2>3. since[q] < Deadline
      BY <1>7, <2>1, <2>2, SMTT(30), Z3T(30)
    <2>4. since'[q] = since[q] + 1 /\ timer'[q] = timer[q] - 1
      BY <1>7, <2>2, <2>3, ZenonT(30) DEF Tick
    <2>5. since'[q] + timer'[q] = since[q] + timer[q]
      BY <1>7, <2>1, <2>4, SMTT(30), Z3T(30)
    <2>6. InTime(q)'
      <3>1. lease.secs * T + frac < since[q] + T
        BY <2>2, ZenonT(30) DEF InTime
      <3>2. lease.secs * T \in Nat /\ (lease.secs + 1) * T = lease.secs * T + T
        BY <2>1, SMTT(30), Z3T(30)
      <3>3. CASE frac + 1 = T
        <4>1. frac' = 0 /\ lease'.secs \in {lease.secs, lease.secs + 1}
          BY <1>4, <3>3, ZenonT(30) DEF Tick, Older, Lease
        <4>2. lease'.secs * T + 0 <= lease.secs * T + frac + 1
          BY <2>1, <3>2, <3>3, <4>1, SMTT(30), Z3T(30)
        <4>3. lease'.secs * T \in Nat
          BY <2>1, <3>2, <4>1, SMTT(30), Z3T(30)
        <4>4. lease'.secs * T + 0 < since[q] + 1 + T
          BY <2>1, <3>1, <3>2, <4>2, <4>3, SMTT(30), Z3T(30)
        <4> QED
          BY <2>4, <4>1, <4>4, Zenon DEF InTime
      <3>4. CASE frac + 1 # T
        <4>1. frac' = frac + 1 /\ lease' = lease
          BY <1>4, <3>4, ZenonT(30) DEF Tick
        <4>2. lease.secs * T + (frac + 1) < since[q] + 1 + T
          BY <2>1, <3>1, <3>2, SMTT(30), Z3T(30)
        <4> QED
          BY <2>4, <4>1, <4>2, Zenon DEF InTime
      <3> QED
        BY <3>3, <3>4, ZenonT(30)
    <2>7. ~Acquired(q)
      BY <1>7, Zenon DEF Acquired
    <2> HIDE DEF Age
    <2> QED
      BY <1>1, <1>3, <1>4, <1>7, <2>2, <2>5, <2>6, <2>7, Zenon DEF Safe, AcquirePc
  <1> QED
    BY <1>5, <1>6, <1>7, Zenon

-------------------------------------------------------------------------------
LEMMA NextLeaders ==
  ASSUME Punctual, TypeOK, RequestsAreCurrent, Leaders, Next, ~Restarted
  PROVE  Leaders'
  <1>1. ASSUME NEW r \in Replica, Restart(r) PROVE FALSE
    BY <1>1, Zenon DEF Restart, Restarted, TypeOK
  <1>2. ~DeleteLease
    BY Zenon DEF DeleteLease, Punctual
  <1>3. ASSUME NEW r \in Replica, Crash(r) PROVE Leaders'
    BY <1>3, ExitLeaders, ZenonT(30) DEF Crash
  <1> QED
    BY <1>1, <1>2, <1>3, StepLeaders, ShutdownLeaders, ErrorLeaders, ApplyLeaders, TickLeaders, ZenonT(60)
       DEF Next

LEMMA InitLeaders == Init => Leaders
  <1>0. Init => Calls
    BY Zenon DEF Init, Calls
  <1> SUFFICES ASSUME Init, NEW r \in Replica PROVE Safe(r)
    BY <1>0, ZenonT(30) DEF Leaders
  <1>1. pc[r] = "acquire" /\ phase[r] = "Standby" /\ lease.holder # r
    BY IdentityAssumption, ZenonT(30) DEF Init, NoLease
  <1>2. ~Acquired(r) /\ ~Reconciling(r)
    BY <1>1, ZenonT(30) DEF Acquired, Reconciling, RenewPc
  <1> QED
    BY <1>1, <1>2, ZenonT(30) DEF Safe, RenewPc

\* What the invariant is for.
LEMMA LeadersOne ==
  ASSUME Leaders
  PROVE  AtMostOneReconciler /\ LeadingHoldsLease
  <1>1. \A r \in Replica : Reconciling(r) => lease.holder = r
    BY ZenonT(30) DEF Leaders, Safe
  <1>2. \A r \in Replica : phase[r] = "Leading" => Reconciling(r)
    BY Zenon DEF Leaders, Safe, Reconciling
  <1> QED
    BY <1>1, <1>2, ZenonT(30) DEF AtMostOneReconciler, LeadingHoldsLease

LEMMA CountedLeaders ==
  ASSUME Punctual
  PROVE  /\ TypeOK /\ RequestsAreCurrent /\ restarts \in Nat /\ LeadersUntilRestart
         /\ [CountedNext]_<<vars, restarts>>
         => LeadersUntilRestart'
  <1> SUFFICES ASSUME TypeOK, RequestsAreCurrent, restarts \in Nat, LeadersUntilRestart,
                      [CountedNext]_<<vars, restarts>>, restarts' = 0
               PROVE  Leaders'
    BY Zenon DEF LeadersUntilRestart
  <1>1. CASE UNCHANGED <<vars, restarts>>
    <2>1. Leaders /\ UNCHANGED <<lease, net, frac, phase, pc, read, fresh, reply, timer, since>>
      BY <1>1, Zenon DEF LeadersUntilRestart, vars
    <2> QED
      BY <2>1, ZenonT(30) DEF Leaders, Calls, CallOf, Safe, Acquired, InTime, Reconciling
  <1>2. CASE CountedNext
    <2>1. restarts = 0 /\ ~Restarted
      BY <1>2, SMTT(30), Z3T(30) DEF CountedNext
    <2> QED
      BY <1>2, <2>1, NextLeaders, Zenon DEF CountedNext, LeadersUntilRestart
  <1> QED
    BY <1>1, <1>2, Zenon

\* Two replicas never run their controllers at the same time, and the replica in the
\* phase Leading holds the lease, until a container is restarted: the renewal loop of
\* leader_election.rs gives up (since >= lease_duration after a failed attempt) before
\* is_expired lets another replica claim the lease.  Steps and API calls take no time
\* here, and the retry interval divides the lease duration, so that an attempt falls
\* on the deadline.
THEOREM OneLeader ==
  ASSUME Punctual
  PROVE  CountedSpec => []OneLeaderUntilRestart
  <1>1. CountedInit => Init /\ restarts \in Nat /\ LeadersUntilRestart
    BY InitLeaders, SMTT(30), Z3T(30) DEF CountedInit, LeadersUntilRestart
  <1>2. [CountedNext]_<<vars, restarts>> => [Next]_vars
    BY Zenon DEF CountedNext, vars
  <1>3. restarts \in Nat /\ [CountedNext]_<<vars, restarts>> => (restarts \in Nat)'
    BY SMTT(30), Z3T(30) DEF CountedNext
  <1>4. /\ TypeOK /\ RequestsAreCurrent /\ restarts \in Nat /\ LeadersUntilRestart
        /\ [CountedNext]_<<vars, restarts>>
        => LeadersUntilRestart'
    BY CountedLeaders, Zenon
  <1>5. LeadersUntilRestart => OneLeaderUntilRestart
    BY LeadersOne, Zenon DEF LeadersUntilRestart, OneLeaderUntilRestart
  <1>6. Init => TypeOK /\ RequestsAreCurrent
    BY InitType, InitCurrent, Zenon
  <1>7. TypeOK /\ RequestsAreCurrent /\ [Next]_vars => TypeOK' /\ RequestsAreCurrent'
    BY NextType, NextCurrent, Zenon
  <1> QED
    BY <1>1, <1>2, <1>3, <1>4, <1>5, <1>6, <1>7, PTL DEF CountedSpec
===============================================================================
