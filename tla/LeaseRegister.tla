---------------------------- MODULE LeaseRegister ----------------------------
(***************************************************************************)
(* What the leader-election Lease promises, without the API calls, the     *)
(* processes and the clock that implement it: a register that names at     *)
(* most one holder.  A holder keeps the register until it gives it back,   *)
(* until it has let it expire, or until somebody deletes the object.       *)
(***************************************************************************)
CONSTANTS Replica,  \* identities that contend for the lease
          Vacant,   \* the lease exists and has no holder
          Absent    \* the Lease object does not exist

VARIABLES holder,   \* a replica, Vacant or Absent
          expired   \* the holder did not renew the lease in time

regVars == <<holder, expired>>

RegInit == holder \in Replica \cup {Vacant, Absent} /\ expired \in BOOLEAN

\* Only an object without a holder, or one whose holder let it expire, is taken.
Take(r) ==
  /\ holder \in {Vacant, Absent} \/ expired
  /\ holder' = r /\ expired' \in BOOLEAN

\* Only the holder's own update makes the lease fresh again.
Renew(r) == holder = r /\ holder' = r /\ expired' \in BOOLEAN

\* Only the holder gives the lease back.
GiveBack(r) == holder = r /\ holder' = Vacant /\ expired' \in BOOLEAN

Expire == expired' = TRUE /\ UNCHANGED holder

Delete == holder # Absent /\ holder' = Absent /\ expired' \in BOOLEAN

RegNext ==
  \/ \E r \in Replica : Take(r) \/ Renew(r) \/ GiveBack(r)
  \/ Expire
  \/ Delete

RegSpec == RegInit /\ [][RegNext]_regVars
==============================================================================
