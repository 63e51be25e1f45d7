------------------------------- MODULE Rebalance -------------------------------
(***************************************************************************)
(* One KafkaRebalance resource and its reconciler                          *)
(* (controller/rebalance.rs).  A user writes a command into an annotation; *)
(* a pass reads the resource from the watch cache, decides on one RPC to   *)
(* the krabka-rebalancer service, calls it, removes the annotation and     *)
(* writes the status.  The resource, the cache and the service change      *)
(* between any two of these steps, and a pass may end after any of them.   *)
(*                                                                         *)
(*   obj   the resource in the API server: status.conditions as a state,  *)
(*         status.sessionId (0: none) and the command annotation           *)
(*   seen  the copy of it in the controller's cache                        *)
(*   prop  the proposals of the service, numbered as they are created      *)
(*   pc, pass  the reconcile pass: what it read, its action, its outcome   *)
(*                                                                         *)
(* Only commands that parse are modelled: another value of the annotation  *)
(* counts as none and is never removed.                                    *)
(***************************************************************************)
EXTENDS Naturals, Sequences, FiniteSets

CONSTANTS
  Budgets,       \* functions on Event: how often each event happens at most
  MaxProposals   \* bound on the proposals the service ever creates

Event == {"approve", "stop", "refresh", "abort", "unreachable", "refused", "error", "stale"}

ASSUME RebalanceAssumption ==
  Budgets \subseteq [Event -> Nat] /\ MaxProposals \in Nat \ {0}

VARIABLES obj, seen, prop, pc, pass, events, budget

tally == <<events, budget>>
vars == <<obj, seen, prop, pc, pass, tally>>

RebalanceState == {"New", "ProposalReady", "Rebalancing", "Ready", "NotReady", "Stopped"}
RebalanceCommand == {"approve", "refresh", "stop"}
RebalanceAction == {"CreateProposal", "Execute", "PollExecution", "Cancel", "Idle"}
ProposalStatus == {"Unspecified", "Computed", "Executing", "Completed", "Failed", "Cancelled"}

Proposal(status, started) == [status |-> status, started |-> started]
Running(id) == id \in DOMAIN prop /\ prop[id].status = "Executing"
Resource == [state : RebalanceState, session : 0 .. MaxProposals,
             command : RebalanceCommand \cup {"none"}]
Happens(e) ==
  /\ events[e] < budget[e]
  /\ events' = [events EXCEPT ![e] = @ + 1] /\ UNCHANGED budget

-----------------------------------------------------------------------------
(* The pure part *)

\* Mutant: a ready proposal is executed without an approval.
decide_NoApproval(state, command, has_session) ==
  CASE command = "refresh" -> "CreateProposal"
    [] command = "stop" ->
         IF state = "Rebalancing" /\ has_session THEN "Cancel" ELSE "Idle"
    [] OTHER ->
         CASE state = "New" -> "CreateProposal"
           [] state = "ProposalReady" -> "Execute"
           [] state = "Rebalancing" -> "PollExecution"
           [] OTHER -> "Idle"

\* Mutant: any proposal on file can be approved, whatever its state.
decide_ApproveAny(state, command, has_session) ==
  CASE command = "refresh" -> "CreateProposal"
    [] command = "stop" ->
         IF state = "Rebalancing" /\ has_session THEN "Cancel" ELSE "Idle"
    [] command = "approve" -> IF has_session THEN "Execute" ELSE "Idle"
    [] command = "none" ->
         CASE state = "New" -> "CreateProposal"
           [] state = "Rebalancing" -> "PollExecution"
           [] OTHER -> "Idle"

\* Mutant: an execution is not polled.
decide_NoPoll(state, command, has_session) ==
  CASE command = "approve" /\ state = "ProposalReady" /\ has_session -> "Execute"
    [] command = "refresh" \/ (command = "none" /\ state = "New") -> "CreateProposal"
    [] command = "stop" /\ state = "Rebalancing" /\ has_session -> "Cancel"
    [] OTHER -> "Idle"

decide(state, command, has_session) ==
  CASE command = "refresh" -> "CreateProposal"
    [] command = "stop" ->
         IF state = "Rebalancing" /\ has_session THEN "Cancel" ELSE "Idle"
    [] command = "approve" ->
         IF state = "ProposalReady" /\ has_session THEN "Execute" ELSE "Idle"
    [] command = "none" ->
         CASE state = "New" -> "CreateProposal"
           [] state = "Rebalancing" ->
                IF has_session THEN "PollExecution" ELSE "CreateProposal"
           [] OTHER -> "Idle"

\* Outcome: the next state, and a new session id or 0.
Outcome(state, session) == [state |-> state, session |-> session]

from_create(status, id) ==
  Outcome(CASE status = "Computed" -> "ProposalReady"
            [] status = "Completed" -> "Ready"
            [] OTHER -> "NotReady", id)

\* Mutant: every execution that is over counts as done.
from_execute_or_poll_OverIsDone(status) ==
  Outcome(CASE status \in {"Executing", "Computed"} -> "Rebalancing"
            [] status \in {"Completed", "Cancelled"} -> "Ready"
            [] OTHER -> "NotReady", 0)

from_execute_or_poll(status) ==
  Outcome(CASE status \in {"Executing", "Computed"} -> "Rebalancing"
            [] status = "Completed" -> "Ready"
            [] status \in {"Failed", "Unspecified"} -> "NotReady"
            [] status = "Cancelled" -> "Stopped", 0)

from_cancel == Outcome("Stopped", 0)

from_rpc_error(action, retryable) ==
  Outcome(IF action = "CreateProposal" /\ retryable THEN "New" ELSE "NotReady", 0)

-----------------------------------------------------------------------------
NoPass == [action |-> "Idle", read |-> [state |-> "New", session |-> 0, command |-> "none"],
           out |-> Outcome("New", 0)]

Init ==
  /\ obj = NoPass.read /\ seen = obj
  /\ prop = <<>>
  /\ pc = "idle" /\ pass = NoPass
  /\ events = [e \in Event |-> 0] /\ budget \in Budgets

EndPass == pc' = "idle" /\ pass' = NoPass

-----------------------------------------------------------------------------
(* reconcile_inner *)

\* The pass reads the resource from the cache, which may be behind ("stale").
Read ==
  /\ pc = "idle"
  /\ \/ seen = obj /\ UNCHANGED tally
     \/ seen # obj /\ Happens("stale")
  /\ pc' = "decide" /\ pass' = [NoPass EXCEPT !.read = seen]
  /\ UNCHANGED <<obj, seen, prop>>

\* A resource without a usable endpoint, or an evacuation without its credential
\* ("refused"), gets NotReady; the command stays.
Decide ==
  LET read == pass.read
      action == decide(read.state, read.command, read.session # 0)
      p == [pass EXCEPT !.action = action]
  IN  /\ pc = "decide"
      /\ \/ action = "Idle" /\ read.command = "none" /\ EndPass /\ UNCHANGED tally
         \/ action = "Idle" /\ read.command # "none" /\ pc' = "consume" /\ pass' = p /\ UNCHANGED tally
         \/ action # "Idle" /\ pc' = "call" /\ pass' = p /\ UNCHANGED tally
         \/ /\ Happens("refused")
            /\ pc' = "status" /\ pass' = [p EXCEPT !.out = Outcome("NotReady", 0)]
      /\ UNCHANGED <<obj, seen, prop>>

\* An Idle pass removes a stray command and leaves the status alone.
Consume ==
  /\ pc = "consume"
  /\ obj' = [obj EXCEPT !.command = "none"]
  /\ EndPass
  /\ UNCHANGED <<seen, prop, tally>>

\* After an RPC that was answered: the command goes first, then the status.
Answer(out) ==
  /\ pc' = IF pass.read.command # "none" THEN "remove" ELSE "status"
  /\ pass' = [pass EXCEPT !.out = out]

\* A transport error leaves the status and the command as they are.
Unreachable == Happens("unreachable") /\ EndPass

\* The service answers with an error, whatever it is.
Refused(retryable) == Happens("error") /\ Answer(from_rpc_error(pass.action, retryable))

\* A service that has no room for another proposal refuses it.
CreateProposal ==
  LET new == Len(prop) + 1
  IN  /\ pc = "call" /\ pass.action = "CreateProposal"
      /\ \/ /\ new <= MaxProposals
            /\ \E status \in {"Computed", "Completed", "Unspecified"} :
                 /\ prop' = Append(prop, Proposal(status, FALSE))
                 /\ \/ Answer(from_create(status, new)) /\ UNCHANGED tally
                    \/ Unreachable
         \/ /\ new > MaxProposals
            /\ Answer(from_rpc_error("CreateProposal", FALSE)) /\ UNCHANGED <<prop, tally>>
         \/ UNCHANGED prop /\ (Unreachable \/ \E retryable \in BOOLEAN : Refused(retryable))
      /\ UNCHANGED <<obj, seen>>

\* The service executes a computed proposal once.  Its answer may be lost.
Execute ==
  LET id == pass.read.session
  IN  /\ pc = "call" /\ pass.action = "Execute"
      /\ \/ /\ prop[id].status = "Computed"
            /\ prop' = [prop EXCEPT ![id] = Proposal("Executing", TRUE)]
            /\ \/ Answer(from_execute_or_poll("Executing")) /\ UNCHANGED tally
               \/ Unreachable
         \/ /\ prop[id].status # "Computed"
            /\ Answer(from_rpc_error("Execute", TRUE)) /\ UNCHANGED <<prop, tally>>
         \/ UNCHANGED prop /\ (Unreachable \/ Refused(TRUE))
      /\ UNCHANGED <<obj, seen>>

PollExecution ==
  /\ pc = "call" /\ pass.action = "PollExecution"
  /\ \/ Answer(from_execute_or_poll(prop[pass.read.session].status)) /\ UNCHANGED tally
     \/ Unreachable
     \/ Refused(TRUE)
  /\ UNCHANGED <<obj, seen, prop>>

Cancel ==
  LET id == pass.read.session
  IN  /\ pc = "call" /\ pass.action = "Cancel"
      /\ \/ /\ Running(id)
            /\ prop' = [prop EXCEPT ![id].status = "Cancelled"]
            /\ \/ Answer(from_cancel) /\ UNCHANGED tally
               \/ Unreachable
         \/ /\ ~Running(id)
            /\ Answer(from_rpc_error("Cancel", TRUE)) /\ UNCHANGED <<prop, tally>>
         \/ UNCHANGED prop /\ (Unreachable \/ Refused(TRUE))
      /\ UNCHANGED <<obj, seen>>

\* remove_command_annotation removes whatever the annotation now says.
RemoveCommand ==
  /\ pc = "remove"
  /\ obj' = [obj EXCEPT !.command = "none"]
  /\ pc' = "status"
  /\ UNCHANGED <<seen, prop, pass, tally>>

\* Mutant: nothing is carried forward.
WriteStatus_DropsSession ==
  /\ pc = "status"
  /\ obj' = [obj EXCEPT !.state = pass.out.state, !.session = pass.out.session]
  /\ EndPass
  /\ UNCHANGED <<seen, prop, tally>>

\* write_status carries the session forward from the resource that the pass read.
WriteStatus ==
  /\ pc = "status"
  /\ obj' = [obj EXCEPT !.state = pass.out.state,
                        !.session = IF pass.out.session # 0 THEN pass.out.session
                                    ELSE pass.read.session]
  /\ EndPass
  /\ UNCHANGED <<seen, prop, tally>>

\* An API error, or a crash of the operator, ends the pass.
Abort ==
  /\ pc # "idle"
  /\ Happens("abort") /\ EndPass
  /\ UNCHANGED <<obj, seen, prop>>

-----------------------------------------------------------------------------
(* Around the reconciler *)

Watch ==
  /\ seen # obj
  /\ seen' = obj
  /\ UNCHANGED <<obj, prop, pc, pass, tally>>

Command(c) ==
  /\ Happens(c)
  /\ obj' = [obj EXCEPT !.command = c]
  /\ UNCHANGED <<seen, prop, pc, pass>>

Finish(id) ==
  /\ Running(id)
  /\ \E status \in {"Completed", "Failed"} : prop' = [prop EXCEPT ![id].status = status]
  /\ UNCHANGED <<obj, seen, pc, pass, tally>>

PassStep ==
  Read \/ Decide \/ Consume \/ CreateProposal \/ Execute \/ PollExecution \/ Cancel
    \/ RemoveCommand \/ WriteStatus

Next ==
  \/ PassStep \/ Abort \/ Watch
  \/ \E c \in RebalanceCommand : Command(c)
  \/ \E id \in 1 .. MaxProposals : Finish(id)

Spec == Init /\ [][Next]_vars

\* A pass goes on, the cache is brought up to date, a requeue starts the next pass
\* and an execution comes to an end.
Fairness ==
  /\ WF_vars(PassStep) /\ WF_vars(Watch)
  /\ \A id \in 1 .. MaxProposals : WF_vars(Finish(id))

FairSpec == Spec /\ Fairness

-----------------------------------------------------------------------------
(* Properties *)

Started == {id \in DOMAIN prop : prop[id].started}

\* "Only `approve` mutates the cluster" (rebalance.rs): one approval starts at most
\* one execution, also when its pass is repeated after a lost answer or a crash.  Only
\* a pass that works from an old copy of the resource can spend an approval again.
OneApprovalPerExecution ==
  Cardinality(Started) <= events["approve"] + events["stale"]

\* The state and the session in the status (write_status) tell the truth about each
\* other at every moment, whatever other session was on file meanwhile: Ready names a
\* completed proposal, Stopped a cancelled one, Rebalancing one that was executed.
StatusIsTrue ==
  LET OnFile == {prop[id] : id \in DOMAIN prop \cap {obj.session}}
  IN  /\ obj.state = "Ready" => \E p \in OnFile : p.status = "Completed"
      /\ obj.state = "Stopped" => \E p \in OnFile : p.status = "Cancelled"
      /\ obj.state = "Rebalancing" => \E p \in OnFile : p.started

\* An execution can be lost sight of when a pass ended without its status, when a refresh
\* put another session on file, or when a command acted on an old copy of the resource.
Undisturbed ==
  \A e \in {"abort", "unreachable", "refresh", "refused", "stale"} : events[e] = 0

\* The session id is kept so that stop and poll reach the same proposal in every
\* reconcile (crd/rebalance.rs): a running execution is the one on file.
ExecutionOnFile ==
  \A id \in DOMAIN prop : Undisturbed /\ Running(id) => obj.session = id

\* The operator polls an execution until its end is in the status (crd/rebalance.rs).
ExecutionReported ==
  \A id \in 1 .. MaxProposals :
    Running(id)
      ~> (~Undisturbed \/ (obj.session = id /\ obj.state \in {"Ready", "NotReady", "Stopped"}))

\* The resource is what its users rely on (RebalanceContract), as long as no pass works on
\* an old copy of it.
Contract == INSTANCE RebalanceContract WITH state <- obj.state, command <- obj.command
ContractSpec ==
  /\ Contract!Init
  /\ [][events'["stale"] = 0 => Contract!Next \/ UNCHANGED <<obj.state, obj.command>>]_vars
=============================================================================
