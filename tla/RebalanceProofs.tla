---------------------------- MODULE RebalanceProofs ----------------------------
(***************************************************************************)
(* Proofs about Rebalance for any number of events and proposals:          *)
(*   TruthfulStatus    Spec => []StatusIsTrue                              *)
(*   ApprovalSpent     Spec => []OneApprovalPerExecution                   *)
(*   RunningIsOnFile   Spec => []ExecutionOnFile                           *)
(*   ContractKept      Spec => ContractSpec                                *)
(***************************************************************************)
EXTENDS Rebalance, FiniteSetTheorems, TLAPS

Proposals == [status : ProposalStatus, started : BOOLEAN]
Copy == [state : RebalanceState, session : Nat, command : RebalanceCommand \cup {"none"}]
Outcomes == [state : RebalanceState, session : Nat]

TypeOK ==
  /\ prop \in Seq(Proposals)
  /\ obj \in Copy /\ seen \in Copy
  /\ pc \in {"idle", "decide", "consume", "call", "remove", "status"}
  /\ pass \in [action : RebalanceAction, read : Copy, out : Outcomes]
  /\ events \in [Event -> Nat] /\ budget \in [Event -> Nat]

\* Sessions name proposals that the service has created.
Bounded ==
  /\ obj.session <= Len(prop) /\ seen.session <= Len(prop)
  /\ pass.read.session <= Len(prop) /\ pass.out.session <= Len(prop)

Decided ==
  pc = "call" =>
    /\ pass.action = decide(pass.read.state, pass.read.command, pass.read.session # 0)
    /\ pass.action # "Idle"

-------------------------------------------------------------------------------
(* Sequences, and the pure part *)

LEMMA Appended ==
  ASSUME prop \in Seq(Proposals), NEW e \in Proposals, prop' = Append(prop, e)
  PROVE  /\ prop' \in Seq(Proposals)
         /\ Len(prop') = Len(prop) + 1 /\ Len(prop) \in Nat
         /\ prop'[Len(prop) + 1] = e
         /\ \A i \in 1 .. Len(prop) : prop'[i] = prop[i]
  BY SMTT(30), Z3T(30)

LEMMA Replaced ==
  ASSUME prop \in Seq(Proposals), NEW id \in 1 .. Len(prop), NEW e \in Proposals,
         prop' = [prop EXCEPT ![id] = e]
  PROVE  /\ prop' \in Seq(Proposals)
         /\ Len(prop') = Len(prop) /\ Len(prop) \in Nat
         /\ \A i \in 1 .. Len(prop) : prop'[i] = IF i = id THEN e ELSE prop[i]
  BY SMTT(30), Z3T(30)

LEMMA OutcomeTypes ==
  ASSUME NEW n \in Nat
  PROVE  /\ \A status \in ProposalStatus : from_create(status, n) \in Outcomes
         /\ \A status \in ProposalStatus : from_execute_or_poll(status) \in Outcomes
         /\ from_cancel \in Outcomes
         /\ \A a, r : from_rpc_error(a, r) \in Outcomes
  BY Zenon DEF from_create, from_execute_or_poll, from_cancel, from_rpc_error, Outcome, Outcomes,
         RebalanceState, ProposalStatus

LEMMA DecideType ==
  ASSUME NEW state \in RebalanceState, NEW command \in RebalanceCommand \cup {"none"}, NEW h
  PROVE  decide(state, command, h) \in RebalanceAction
  BY Zenon DEF decide, RebalanceState, RebalanceCommand, RebalanceAction

-------------------------------------------------------------------------------
(* Type correctness, and how proposals change *)

\* A computed proposal may start, a running one may end; nothing else happens to a
\* proposal, and none is forgotten.
Advances(p, q) ==
  \/ q = p
  \/ p.status = "Computed" /\ q.status = "Executing" /\ q.started
  \/ p.status = "Executing" /\ q.status \in {"Completed", "Failed", "Cancelled"}
       /\ q.started = p.started

Progress ==
  /\ Len(prop) <= Len(prop')
  /\ \A i \in 1 .. Len(prop) : Advances(prop[i], prop'[i])

LEMMA TallyType == ASSUME TypeOK, NEW e \in Event, Happens(e)
                   PROVE  /\ events' \in [Event -> Nat] /\ budget' \in [Event -> Nat]
                          /\ events' = [events EXCEPT ![e] = events[e] + 1]
  BY SMTT(30), Z3T(30) DEF TypeOK, Happens

LEMMA EndPassType == ASSUME TypeOK, EndPass
                     PROVE  /\ pc' = "idle"
                            /\ pass' \in [action : RebalanceAction, read : Copy, out : Outcomes]
  BY Zenon DEF EndPass, NoPass, RebalanceAction, Copy, Outcomes, Outcome, RebalanceState

LEMMA AnswerType ==
  ASSUME TypeOK, NEW out \in Outcomes, Answer(out)
  PROVE  /\ pc' \in {"remove", "status"}
         /\ pass' \in [action : RebalanceAction, read : Copy, out : Outcomes]
         /\ pass'.out = out /\ pass'.read = pass.read /\ pass'.action = pass.action
  BY ZenonT(30) DEF TypeOK, Answer

LEMMA ProposalAt ==
  ASSUME prop \in Seq(Proposals), NEW id \in 1 .. Len(prop)
  PROVE  prop[id] \in Proposals /\ prop[id].status \in ProposalStatus
  <1>1. prop[id] \in Proposals
    BY SMTT(30), Z3T(30)
  <1> QED
    BY <1>1, Zenon DEF Proposals

LEMMA SameProposals == ASSUME TypeOK, UNCHANGED prop PROVE Progress
  BY SMTT(30), Z3T(30) DEF TypeOK, Progress, Advances

LEMMA NewProposal ==
  ASSUME TypeOK, NEW status \in ProposalStatus, prop' = Append(prop, Proposal(status, FALSE))
  PROVE  /\ prop' \in Seq(Proposals) /\ Progress
         /\ Len(prop') = Len(prop) + 1 /\ prop'[Len(prop) + 1] = Proposal(status, FALSE)
         /\ \A i \in 1 .. Len(prop) : prop'[i] = prop[i]
  <1> DEFINE e == Proposal(status, FALSE)
  <1>1. e \in Proposals
    BY Zenon DEF Proposal, Proposals
  <1> HIDE DEF e
  <1>2. prop \in Seq(Proposals) /\ prop' = Append(prop, e)
    BY Zenon DEF TypeOK, e
  <1>3. /\ prop' \in Seq(Proposals) /\ Len(prop') = Len(prop) + 1 /\ Len(prop) \in Nat
        /\ prop'[Len(prop) + 1] = e
        /\ \A i \in 1 .. Len(prop) : prop'[i] = prop[i]
    BY <1>1, <1>2, Appended, Zenon
  <1>4. Progress
    BY <1>3, SMTT(30), Z3T(30) DEF Progress, Advances
  <1> QED
    BY <1>3, <1>4, Zenon DEF e

LEMMA StartedProposal ==
  ASSUME TypeOK, NEW id \in 1 .. Len(prop), prop[id].status = "Computed",
         prop' = [prop EXCEPT ![id] = Proposal("Executing", TRUE)]
  PROVE  /\ prop' \in Seq(Proposals) /\ Progress
         /\ Len(prop') = Len(prop)
         /\ \A i \in 1 .. Len(prop) :
              prop'[i] = IF i = id THEN Proposal("Executing", TRUE) ELSE prop[i]
  <1> DEFINE e == Proposal("Executing", TRUE)
  <1>1. e \in Proposals /\ e.status = "Executing" /\ e.started
    BY Zenon DEF Proposal, Proposals, ProposalStatus
  <1> HIDE DEF e
  <1>2. prop \in Seq(Proposals) /\ prop' = [prop EXCEPT ![id] = e]
    BY Zenon DEF TypeOK, e
  <1>3. /\ prop' \in Seq(Proposals) /\ Len(prop') = Len(prop) /\ Len(prop) \in Nat
        /\ \A i \in 1 .. Len(prop) : prop'[i] = IF i = id THEN e ELSE prop[i]
    BY <1>1, <1>2, Replaced, Zenon
  <1>4. Advances(prop[id], e)
    BY <1>1, Zenon DEF Advances
  <1>5. \A i \in 1 .. Len(prop) : Advances(prop[i], prop'[i])
    BY <1>3, <1>4, Zenon DEF Advances
  <1>6. Len(prop) <= Len(prop')
    BY <1>3, SMTT(30), Z3T(30)
  <1> QED
    BY <1>3, <1>5, <1>6, Zenon DEF e, Progress

LEMMA EndedProposal ==
  ASSUME TypeOK, NEW id, Running(id), NEW status \in {"Completed", "Failed", "Cancelled"},
         prop' = [prop EXCEPT ![id].status = status]
  PROVE  /\ prop' \in Seq(Proposals) /\ Progress
         /\ id \in 1 .. Len(prop) /\ Len(prop') = Len(prop)
         /\ prop'[id].status = status /\ prop'[id].started = prop[id].started
         /\ \A i \in 1 .. Len(prop) : i # id => prop'[i] = prop[i]
  <1>1. id \in 1 .. Len(prop) /\ prop[id].status = "Executing" /\ prop[id] \in Proposals
    BY SMTT(30), Z3T(30) DEF TypeOK, Running
  <1> DEFINE e == [prop[id] EXCEPT !.status = status]
  <1>2. e \in Proposals /\ e.status = status /\ e.started = prop[id].started
    BY <1>1, Zenon DEF Proposals, ProposalStatus
  <1>3. prop' = [prop EXCEPT ![id] = e]
    BY Zenon
  <1> HIDE DEF e
  <1>4. /\ prop' \in Seq(Proposals) /\ Len(prop') = Len(prop) /\ Len(prop) \in Nat
        /\ \A i \in 1 .. Len(prop) : prop'[i] = IF i = id THEN e ELSE prop[i]
    BY <1>1, <1>2, <1>3, Replaced, Zenon DEF TypeOK
  <1> QED
    BY <1>1, <1>2, <1>4, SMTT(30), Z3T(30) DEF Progress, Advances

\* What the pass has read when it acts.
Acts(action) == pc = "call" /\ pass.action = action

LEMMA Acting ==
  ASSUME TypeOK, Bounded, Decided
  PROVE  /\ Acts("Execute") \/ Acts("Cancel") \/ Acts("PollExecution") =>
              pass.read.session \in 1 .. Len(prop)
         /\ Acts("Execute") =>
              pass.read.command = "approve" /\ pass.read.state = "ProposalReady"
         /\ Acts("Cancel") => pass.read.command = "stop" /\ pass.read.state = "Rebalancing"
         /\ Acts("PollExecution") =>
              pass.read.command = "none" /\ pass.read.state = "Rebalancing"
         /\ Acts("CreateProposal") =>
              \/ pass.read.command = "refresh"
              \/ pass.read.command = "none" /\ pass.read.state = "New"
              \/ /\ pass.read.command = "none" /\ pass.read.state = "Rebalancing"
                 /\ pass.read.session = 0
  <1>1. /\ pass.read.state \in RebalanceState /\ pass.read.session \in Nat
        /\ pass.read.command \in RebalanceCommand \cup {"none"}
        /\ pc = "call" => pass.action = decide(pass.read.state, pass.read.command, pass.read.session # 0)
    BY Zenon DEF TypeOK, Decided, Copy
  <1>2. pass.read.session # 0 => pass.read.session \in 1 .. Len(prop)
    BY <1>1, SMTT(30), Z3T(30) DEF TypeOK, Bounded
  <1>3. ASSUME pc = "call" PROVE
        /\ pass.action = "Execute" => /\ pass.read.command = "approve"
                                      /\ pass.read.state = "ProposalReady"
                                      /\ pass.read.session # 0
        /\ pass.action = "Cancel" => /\ pass.read.command = "stop"
                                     /\ pass.read.state = "Rebalancing"
                                     /\ pass.read.session # 0
        /\ pass.action = "PollExecution" => /\ pass.read.command = "none"
                                            /\ pass.read.state = "Rebalancing"
                                            /\ pass.read.session # 0
        /\ pass.action = "CreateProposal" =>
             \/ pass.read.command = "refresh"
             \/ pass.read.command = "none" /\ pass.read.state = "New"
             \/ /\ pass.read.command = "none" /\ pass.read.state = "Rebalancing"
                /\ pass.read.session = 0
    BY <1>1, <1>3, Zenon DEF decide, RebalanceState, RebalanceCommand
  <1> QED
    BY <1>2, <1>3, Zenon DEF Acts

LEMMA TypeStep == ASSUME TypeOK, Bounded, Decided, [Next]_vars PROVE TypeOK' /\ Progress
  <1> USE SameProposals
  <1>1. CASE Read
    <2>1. pass' \in [action : RebalanceAction, read : Copy, out : Outcomes]
      BY <1>1, Zenon DEF Read, NoPass, TypeOK, RebalanceAction, Outcomes, Outcome, RebalanceState
    <2>2. events' \in [Event -> Nat] /\ budget' \in [Event -> Nat]
      BY <1>1, TallyType, Zenon DEF Read, TypeOK, Event, tally
    <2> QED
      BY <1>1, <2>1, <2>2, Zenon DEF Read, TypeOK
  <1>2. CASE Decide
    <2> DEFINE action == decide(pass.read.state, pass.read.command, pass.read.session # 0)
               p == [pass EXCEPT !.action = action]
               refused == [p EXCEPT !.out = Outcome("NotReady", 0)]
    <2>1. action \in RebalanceAction
      BY DecideType, Zenon DEF TypeOK, Copy
    <2>2. /\ p \in [action : RebalanceAction, read : Copy, out : Outcomes]
          /\ refused \in [action : RebalanceAction, read : Copy, out : Outcomes]
      BY <2>1, Zenon DEF TypeOK, Outcomes, Outcome, RebalanceState
    <2>3. events' \in [Event -> Nat] /\ budget' \in [Event -> Nat]
      BY <1>2, TallyType, Zenon DEF Decide, TypeOK, Event, tally
    <2>4. pass' \in [action : RebalanceAction, read : Copy, out : Outcomes]
      BY <1>2, <2>2, EndPassType, Zenon DEF Decide
    <2>5. pc' \in {"idle", "consume", "call", "status"}
      BY <1>2, Zenon DEF Decide, EndPass
    <2> QED
      BY <1>2, <2>3, <2>4, <2>5, Zenon DEF Decide, TypeOK
  <1>3. CASE Consume \/ RemoveCommand \/ WriteStatus
    <2>1. obj' \in Copy
      BY <1>3, ZenonT(60) DEF Consume, RemoveCommand, WriteStatus, TypeOK, Copy, Outcomes
    <2> QED
      BY <1>3, <2>1, EndPassType, Zenon DEF Consume, RemoveCommand, WriteStatus, TypeOK, tally
  <1>4. CASE CreateProposal
    <2>1. /\ prop' \in Seq(Proposals) /\ Progress
          /\ \/ EndPass
             \/ \E out \in Outcomes : Answer(out)
      <3>1. \A status \in {"Computed", "Completed", "Unspecified"} :
              prop' = Append(prop, Proposal(status, FALSE)) => prop' \in Seq(Proposals) /\ Progress
        BY NewProposal, Zenon DEF ProposalStatus
      <3>2. UNCHANGED prop => prop' \in Seq(Proposals) /\ Progress
        BY Zenon DEF TypeOK
      <3>3. Len(prop) + 1 \in Nat
        BY SMTT(30), Z3T(30) DEF TypeOK
      <3>4. /\ \A status \in {"Computed", "Completed", "Unspecified"} :
                 from_create(status, Len(prop) + 1) \in Outcomes
            /\ \A a, r : from_rpc_error(a, r) \in Outcomes
        BY <3>3, OutcomeTypes, Zenon DEF ProposalStatus
      <3> QED
        BY <1>4, <3>1, <3>2, <3>4, Zenon DEF CreateProposal, Unreachable, Refused
    <2>2. events' \in [Event -> Nat] /\ budget' \in [Event -> Nat]
      BY <1>4, TallyType, Zenon DEF CreateProposal, Unreachable, Refused, TypeOK, Event, tally
    <2> QED
      BY <1>4, <2>1, <2>2, EndPassType, AnswerType, Zenon DEF CreateProposal, TypeOK

  <1>5. CASE Execute
    <2>1. pass.read.session \in 1 .. Len(prop)
      BY <1>5, Acting, Zenon DEF Execute, Acts
    <2>2. prop' \in Seq(Proposals) /\ Progress
      BY <1>5, <2>1, StartedProposal, Zenon DEF Execute, TypeOK
    <2>3. EndPass \/ \E out \in Outcomes : Answer(out)
      BY <1>5, OutcomeTypes, Zenon DEF Execute, Unreachable, Refused, ProposalStatus
    <2>4. events' \in [Event -> Nat] /\ budget' \in [Event -> Nat]
      BY <1>5, TallyType, Zenon DEF Execute, Unreachable, Refused, TypeOK, Event, tally
    <2> QED
      BY <1>5, <2>2, <2>3, <2>4, EndPassType, AnswerType, Zenon DEF Execute, TypeOK
  <1>6. CASE PollExecution
    <2>1. prop[pass.read.session].status \in ProposalStatus
      <3>1. pass.read.session \in 1 .. Len(prop)
        BY <1>6, Acting, Zenon DEF PollExecution, Acts
      <3> QED
        BY <3>1, ProposalAt, Zenon DEF TypeOK
    <2>2. EndPass \/ \E out \in Outcomes : Answer(out)
      BY <1>6, <2>1, OutcomeTypes, Zenon DEF PollExecution, Unreachable, Refused
    <2>3. events' \in [Event -> Nat] /\ budget' \in [Event -> Nat]
      BY <1>6, TallyType, Zenon DEF PollExecution, Unreachable, Refused, TypeOK, Event, tally
    <2> QED
      BY <1>6, <2>2, <2>3, EndPassType, AnswerType, Zenon DEF PollExecution, TypeOK
  <1>7. CASE Cancel
    <2>1. prop' \in Seq(Proposals) /\ Progress
      BY <1>7, EndedProposal, Zenon DEF Cancel, TypeOK
    <2>2. EndPass \/ \E out \in Outcomes : Answer(out)
      BY <1>7, OutcomeTypes, Zenon DEF Cancel, Unreachable, Refused
    <2>3. events' \in [Event -> Nat] /\ budget' \in [Event -> Nat]
      BY <1>7, TallyType, Zenon DEF Cancel, Unreachable, Refused, TypeOK, Event, tally
    <2> QED
      BY <1>7, <2>1, <2>2, <2>3, EndPassType, AnswerType, ZenonT(30) DEF Cancel, TypeOK
  <1>8. CASE Abort
    <2>1. events' \in [Event -> Nat] /\ budget' \in [Event -> Nat]
      BY <1>8, TallyType, Zenon DEF Abort, Event
    <2> QED
      BY <1>8, <2>1, EndPassType, Zenon DEF Abort, TypeOK
  <1>9. CASE Watch
    BY <1>9, Zenon DEF Watch, TypeOK, tally
  <1>10. ASSUME NEW c \in RebalanceCommand, Command(c) PROVE TypeOK' /\ Progress
    <2>1. events' \in [Event -> Nat] /\ budget' \in [Event -> Nat]
      BY <1>10, TallyType, Zenon DEF Command, Event, RebalanceCommand
    <2>2. obj' \in Copy
      BY <1>10, Zenon DEF Command, TypeOK, Copy
    <2> QED
      BY <1>10, <2>1, <2>2, Zenon DEF Command, TypeOK
  <1>11. ASSUME NEW id \in 1 .. MaxProposals, Finish(id) PROVE TypeOK' /\ Progress
    <2>1. prop' \in Seq(Proposals) /\ Progress
      BY <1>11, EndedProposal, Zenon DEF Finish
    <2> QED
      BY <1>11, <2>1, Zenon DEF Finish, TypeOK, tally
  <1>12. CASE UNCHANGED vars
    BY <1>12, Zenon DEF vars, TypeOK, tally
  <1> QED
    BY <1>1, <1>2, <1>3, <1>4, <1>5, <1>6, <1>7, <1>8, <1>9, <1>10, <1>11, <1>12, Zenon
       DEF Next, PassStep

-------------------------------------------------------------------------------
(* The status tells the truth *)

\* What a state says about the proposal p[session].
Truth(p, state, session) ==
  /\ session <= Len(p)
  /\ state = "Ready" => session # 0 /\ p[session].status = "Completed"
  /\ state = "Stopped" => session # 0 /\ p[session].status = "Cancelled"
  /\ state = "Rebalancing" => session # 0 /\ p[session].started

\* The session that write_status puts on file.
Carried(out, read) == IF out.session # 0 THEN out.session ELSE read.session

\* An outcome is true, and follows from what the pass has read.
Good(p, out, read) ==
  /\ out.session <= Len(p)
  /\ Truth(p, out.state, Carried(out, read))
  /\ out.state = "Rebalancing" => read.state \in {"ProposalReady", "Rebalancing"}
  /\ out.state = "Stopped" => read.state = "Rebalancing"
  /\ out.state = "ProposalReady" => out.session # 0
  /\ out.state = "New" => out.session = 0
  /\ out.session # 0 \/ out.state = "New" =>
       \/ read.command = "refresh"
       \/ read.state = "New"

TruthInv ==
  /\ Truth(prop, obj.state, obj.session)
  /\ Truth(prop, seen.state, seen.session)
  /\ Truth(prop, pass.read.state, pass.read.session)
  /\ pass.out.session <= Len(prop)
  /\ pc \in {"remove", "status"} => Good(prop, pass.out, pass.read)

\* What was true of a proposal stays true.
LEMMA TruthStable ==
  ASSUME TypeOK, TypeOK', Progress, NEW state, NEW session \in Nat, Truth(prop, state, session)
  PROVE  Truth(prop', state, session)
  <1>1. session <= Len(prop')
    BY SMTT(30), Z3T(30) DEF TypeOK, Progress, Truth
  <1>2. CASE session = 0
    BY <1>1, <1>2, Zenon DEF Truth
  <1>3. CASE session # 0
    <2>1. session \in 1 .. Len(prop)
      BY <1>3, SMTT(30), Z3T(30) DEF Truth, TypeOK
    <2>2. Advances(prop[session], prop'[session])
      BY <2>1, Zenon DEF Progress
    <2> QED
      BY <1>1, <1>3, <2>2, Zenon DEF Truth, Advances
  <1> QED
    BY <1>2, <1>3, Zenon

LEMMA GoodStable ==
  ASSUME TypeOK, TypeOK', Progress, NEW out \in Outcomes, NEW read \in Copy,
         Good(prop, out, read)
  PROVE  Good(prop', out, read)
  <1>1. Carried(out, read) \in Nat
    BY Zenon DEF Carried, Outcomes, Copy
  <1>2. Truth(prop', out.state, Carried(out, read))
    BY <1>1, TruthStable, Zenon DEF Good
  <1>3. out.session <= Len(prop')
    BY SMTT(30), Z3T(30) DEF Good, Progress, TypeOK, Outcomes
  <1> QED
    BY <1>2, <1>3, Zenon DEF Good

\* Every RPC ends the pass or leaves it with a good outcome.
LEMMA ErrorAnswer ==
  ASSUME TypeOK, TypeOK', Progress, Truth(prop, pass.read.state, pass.read.session),
         NEW action, NEW retryable,
         action # "CreateProposal" \/ pass.read.command = "refresh" \/ pass.read.state = "New"
  PROVE  /\ from_rpc_error(action, retryable) \in Outcomes
         /\ Good(prop', from_rpc_error(action, retryable), pass.read)
  <1>1. pass.read \in Copy /\ pass.read.session <= Len(prop') /\ Len(prop') \in Nat
    BY SMTT(30), Z3T(30) DEF TypeOK, Truth, Progress, Copy
  <1>2. from_rpc_error(action, retryable) \in Outcomes
    BY OutcomeTypes, Zenon
  <1> QED
    BY <1>1, <1>2, SMTT(30), Z3T(30) DEF from_rpc_error, Outcome, Good, Truth, Carried

LEMMA CreateAnswer ==
  ASSUME TypeOK, TypeOK', Progress, Bounded, Decided, CreateProposal,
         Truth(prop, pass.read.state, pass.read.session)
  PROVE  EndPass \/ \E out \in Outcomes : Answer(out) /\ Good(prop', out, pass.read)
  <1>1. pass.read.command = "refresh" \/ pass.read.state = "New"
    BY Acting, Zenon DEF CreateProposal, Acts, Truth
  <1>2. \A action, retryable :
          /\ from_rpc_error(action, retryable) \in Outcomes
          /\ Good(prop', from_rpc_error(action, retryable), pass.read)
    BY <1>1, ErrorAnswer, Zenon
  <1>3. ASSUME NEW status \in {"Computed", "Completed", "Unspecified"},
               prop' = Append(prop, Proposal(status, FALSE))
        PROVE  /\ from_create(status, Len(prop) + 1) \in Outcomes
               /\ Good(prop', from_create(status, Len(prop) + 1), pass.read)
    <2> DEFINE new == Len(prop) + 1
    <2>1. new \in Nat /\ new # 0 /\ status \in ProposalStatus
      BY SMTT(30), Z3T(30) DEF TypeOK, ProposalStatus
    <2>2. Len(prop') = new /\ prop'[new].status = status
      BY <1>3, <2>1, NewProposal, SMTT(30), Z3T(30) DEF Proposal
    <2>3. from_create(status, new) \in Outcomes
      BY <2>1, OutcomeTypes, Zenon
    <2> HIDE DEF new
    <2>4. Good(prop', from_create(status, new), pass.read)
      BY <1>1, <2>1, <2>2, SMTT(30), Z3T(30) DEF from_create, Outcome, Good, Truth, Carried
    <2> QED
      BY <2>3, <2>4, Zenon DEF new
  <1> QED
    BY <1>2, <1>3, ZenonT(60) DEF CreateProposal, Unreachable, Refused

LEMMA ExecuteAnswer ==
  ASSUME TypeOK, TypeOK', Progress, Bounded, Decided, Execute,
         Truth(prop, pass.read.state, pass.read.session)
  PROVE  EndPass \/ \E out \in Outcomes : Answer(out) /\ Good(prop', out, pass.read)
  <1> DEFINE id == pass.read.session
             out == from_execute_or_poll("Executing")
  <1>1. id \in 1 .. Len(prop) /\ pass.read.state = "ProposalReady" /\ pass.action = "Execute"
    BY Acting, Zenon DEF Execute, Acts
  <1>2. \A retryable : /\ from_rpc_error("Execute", retryable) \in Outcomes
                       /\ Good(prop', from_rpc_error("Execute", retryable), pass.read)
    BY ErrorAnswer, Zenon
  <1>3. ASSUME prop[id].status = "Computed", prop' = [prop EXCEPT ![id] = Proposal("Executing", TRUE)]
        PROVE  out \in Outcomes /\ Good(prop', out, pass.read)
    <2>1. Len(prop') = Len(prop) /\ prop'[id].started
      BY <1>1, <1>3, StartedProposal, SMTT(30), Z3T(30) DEF Proposal
    <2>2. out \in Outcomes
      BY OutcomeTypes, Zenon DEF ProposalStatus
    <2> QED
      BY <1>1, <2>1, <2>2, SMTT(30), Z3T(30) DEF from_execute_or_poll, Outcome, Good, Truth, Carried, TypeOK
  <1> QED
    BY <1>1, <1>2, <1>3, Zenon DEF Execute, Unreachable, Refused

LEMMA PollAnswer ==
  ASSUME TypeOK, TypeOK', Progress, Bounded, Decided, PollExecution,
         Truth(prop, pass.read.state, pass.read.session)
  PROVE  EndPass \/ \E out \in Outcomes : Answer(out) /\ Good(prop', out, pass.read)
  <1> DEFINE id == pass.read.session
             out == from_execute_or_poll(prop[id].status)
  <1>1. id \in 1 .. Len(prop) /\ pass.read.state = "Rebalancing" /\ pass.action = "PollExecution"
    BY Acting, Zenon DEF PollExecution, Acts
  <1>2. \A retryable : /\ from_rpc_error("PollExecution", retryable) \in Outcomes
                       /\ Good(prop', from_rpc_error("PollExecution", retryable), pass.read)
    BY ErrorAnswer, Zenon
  <1>3. out \in Outcomes /\ Good(prop', out, pass.read)
    <2>1. prop' = prop /\ prop[id].started
      BY <1>1, Zenon DEF PollExecution, Truth
    <2>2. prop[id].status \in ProposalStatus
      BY <1>1, ProposalAt, Zenon DEF TypeOK
    <2>3. out \in Outcomes
      BY <2>2, OutcomeTypes, ZenonT(30)
    <2>4. /\ out.session = 0 /\ out.state \notin {"ProposalReady", "New"}
          /\ out.state = "Ready" => prop[id].status = "Completed"
          /\ out.state = "Stopped" => prop[id].status = "Cancelled"
      BY <2>2, Zenon DEF from_execute_or_poll, Outcome, ProposalStatus
    <2> HIDE DEF out
    <2> QED
      BY <1>1, <2>1, <2>3, <2>4, SMTT(30), Z3T(30) DEF Good, Truth, Carried, TypeOK
  <1> QED
    BY <1>1, <1>2, <1>3, Zenon DEF PollExecution, Unreachable, Refused

LEMMA CancelAnswer ==
  ASSUME TypeOK, TypeOK', Progress, Bounded, Decided, Cancel,
         Truth(prop, pass.read.state, pass.read.session)
  PROVE  EndPass \/ \E out \in Outcomes : Answer(out) /\ Good(prop', out, pass.read)
  <1> DEFINE id == pass.read.session
  <1>1. id \in 1 .. Len(prop) /\ pass.read.state = "Rebalancing" /\ pass.action = "Cancel"
    BY Acting, Zenon DEF Cancel, Acts
  <1>2. \A retryable : /\ from_rpc_error("Cancel", retryable) \in Outcomes
                       /\ Good(prop', from_rpc_error("Cancel", retryable), pass.read)
    BY ErrorAnswer, Zenon
  <1>3. ASSUME Running(id), prop' = [prop EXCEPT ![id].status = "Cancelled"]
        PROVE  from_cancel \in Outcomes /\ Good(prop', from_cancel, pass.read)
    <2>1. Len(prop') = Len(prop) /\ prop'[id].status = "Cancelled"
      BY <1>3, EndedProposal, Zenon
    <2>2. from_cancel \in Outcomes
      BY OutcomeTypes, Zenon
    <2> QED
      BY <1>1, <2>1, <2>2, SMTT(30), Z3T(30) DEF from_cancel, Outcome, Good, Truth, Carried, TypeOK
  <1> QED
    BY <1>1, <1>2, <1>3, Zenon DEF Cancel, Unreachable, Refused

LEMMA TruthStep ==
  ASSUME TypeOK, TypeOK', Progress, Decided, TruthInv, [Next]_vars
  PROVE  TruthInv' /\ Decided'
  <1> DEFINE PassTruth == /\ Truth(prop', pass'.read.state, pass'.read.session)
                          /\ pass'.out.session <= Len(prop')
                          /\ pc' \in {"remove", "status"} => Good(prop', pass'.out, pass'.read)
                          /\ Decided'
             CopyTruth == /\ Truth(prop', obj'.state, obj'.session)
                          /\ Truth(prop', seen'.state, seen'.session)
  <1> SUFFICES PassTruth /\ CopyTruth
    BY Zenon DEF TruthInv
  <1>a. Bounded
    BY Zenon DEF TruthInv, Truth, Bounded
  <1>b. /\ obj \in Copy /\ seen \in Copy /\ pass.read \in Copy /\ pass.out \in Outcomes
        /\ Len(prop) \in Nat /\ Len(prop') \in Nat /\ Len(prop) <= Len(prop')
    BY SMTT(30), Z3T(30) DEF TypeOK, Progress
  <1>c. /\ Truth(prop', obj.state, obj.session)
        /\ Truth(prop', seen.state, seen.session)
        /\ Truth(prop', pass.read.state, pass.read.session)
        /\ pass.out.session <= Len(prop')
    BY <1>b, TruthStable, SMTT(30), Z3T(30) DEF TruthInv, Copy, Outcomes
  <1>d. pc \in {"remove", "status"} => Good(prop', pass.out, pass.read)
    BY <1>b, GoodStable, Zenon DEF TruthInv
  <1>e. EndPass => PassTruth
    BY <1>b, SMTT(30), Z3T(30) DEF EndPass, NoPass, Outcome, Truth, Decided
  <1>f. ASSUME NEW out \in Outcomes, Answer(out), Good(prop', out, pass.read) PROVE PassTruth
    <2>1. pass'.out = out /\ pass'.read = pass.read /\ pc' \in {"remove", "status"}
      BY <1>f, AnswerType, Zenon
    <2> QED
      BY <1>c, <1>f, <2>1, Zenon DEF Good, Decided
  <1>g. UNCHANGED <<pc, pass>> => PassTruth
    BY <1>c, <1>d, Zenon DEF Decided
  <1>h. UNCHANGED <<obj, seen>> => CopyTruth
    BY <1>c, Zenon
  <1> HIDE DEF PassTruth, CopyTruth
  <1>1. CASE Read
    <2>1. pass'.read = seen /\ pass'.out.session = 0 /\ pc' = "decide"
      BY <1>1, Zenon DEF Read, NoPass, Outcome
    <2>2. PassTruth
      BY <1>b, <1>c, <2>1, SMTT(30), Z3T(30) DEF PassTruth, Decided
    <2> QED
      BY <1>1, <1>h, <2>2, Zenon DEF Read
  <1>2. CASE Decide
    <2> DEFINE action == decide(pass.read.state, pass.read.command, pass.read.session # 0)
               p == [pass EXCEPT !.action = action]
    <2>1. /\ p.read = pass.read /\ p.out = pass.out /\ p.action = action
          /\ [p EXCEPT !.out = Outcome("NotReady", 0)].read = pass.read
          /\ [p EXCEPT !.out = Outcome("NotReady", 0)].out = Outcome("NotReady", 0)
      BY Zenon DEF TypeOK
    <2>2. \/ EndPass
          \/ pc' = "consume" /\ pass' = p
          \/ action # "Idle" /\ pc' = "call" /\ pass' = p
          \/ pc' = "status" /\ pass' = [p EXCEPT !.out = Outcome("NotReady", 0)]
      BY <1>2, Zenon DEF Decide
    <2>3. Good(prop', Outcome("NotReady", 0), pass.read)
      BY <1>b, <1>c, SMTT(30), Z3T(30) DEF Good, Truth, Carried, Outcome
    <2>4. ASSUME pc' \in {"consume", "call"}, action # "Idle" \/ pc' # "call", pass' = p
          PROVE  PassTruth
      BY <1>c, <2>1, <2>4, Zenon DEF PassTruth, Decided
    <2>5. ASSUME pc' = "status", pass' = [p EXCEPT !.out = Outcome("NotReady", 0)] PROVE PassTruth
      <3>1. pass'.read = pass.read /\ pass'.out = Outcome("NotReady", 0)
        BY <2>1, <2>5, Zenon
      <3> QED
        BY <1>b, <1>c, <2>3, <2>5, <3>1, SMTT(30), Z3T(30) DEF PassTruth, Decided, Outcome
    <2> HIDE DEF action, p
    <2>6. PassTruth
      BY <1>e, <2>2, <2>4, <2>5, Zenon
    <2> QED
      BY <1>2, <1>h, <2>6, Zenon DEF Decide
  <1>3. CASE Consume
    <2>1. Truth(prop', obj'.state, obj'.session)
      BY <1>3, <1>b, <1>c, Zenon DEF Consume, Copy
    <2> QED
      BY <1>3, <1>c, <1>e, <2>1, Zenon DEF Consume, CopyTruth
  <1>4. CASE RemoveCommand
    <2>1. Truth(prop', obj'.state, obj'.session)
      BY <1>4, <1>b, <1>c, Zenon DEF RemoveCommand, Copy
    <2>2. PassTruth
      BY <1>4, <1>c, <1>d, Zenon DEF RemoveCommand, PassTruth, Decided
    <2> QED
      BY <1>4, <1>c, <2>1, <2>2, Zenon DEF RemoveCommand, CopyTruth
  <1>5. CASE WriteStatus
    <2>1. obj'.state = pass.out.state /\ obj'.session = Carried(pass.out, pass.read)
      BY <1>5, <1>b, Zenon DEF WriteStatus, Copy, Carried
    <2>2. Truth(prop', obj'.state, obj'.session)
      BY <1>5, <1>d, <2>1, Zenon DEF WriteStatus, Good
    <2> QED
      BY <1>5, <1>c, <1>e, <2>2, Zenon DEF WriteStatus, CopyTruth
  <1>6. CASE CreateProposal \/ Execute \/ PollExecution \/ Cancel
    <2>1. EndPass \/ \E out \in Outcomes : Answer(out) /\ Good(prop', out, pass.read)
      BY <1>6, <1>a, CreateAnswer, ExecuteAnswer, PollAnswer, CancelAnswer, ZenonT(60) DEF TruthInv
    <2>2. PassTruth
      BY <1>e, <1>f, <2>1, Zenon
    <2> QED
      BY <1>6, <1>h, <2>2, Zenon DEF CreateProposal, Execute, PollExecution, Cancel
  <1>7. CASE Abort
    BY <1>7, <1>e, <1>h, Zenon DEF Abort
  <1>8. CASE Watch
    BY <1>8, <1>c, <1>g, Zenon DEF Watch, CopyTruth
  <1>9. ASSUME NEW c \in RebalanceCommand, Command(c) PROVE PassTruth /\ CopyTruth
    <2>1. obj'.state = obj.state /\ obj'.session = obj.session
      BY <1>9, <1>b, Zenon DEF Command, Copy
    <2> QED
      BY <1>9, <1>c, <1>g, <2>1, Zenon DEF Command, CopyTruth
  <1>10. ASSUME NEW id \in 1 .. MaxProposals, Finish(id) PROVE PassTruth /\ CopyTruth
    BY <1>10, <1>g, <1>h, Zenon DEF Finish
  <1>11. CASE UNCHANGED vars
    BY <1>11, <1>g, <1>h, Zenon DEF vars
  <1> QED
    BY <1>1, <1>2, <1>3, <1>4, <1>5, <1>6, <1>7, <1>8, <1>9, <1>10, <1>11, ZenonT(30) DEF Next, PassStep

\* The inductive invariant behind all four theorems.
Sound == TypeOK /\ Decided /\ TruthInv

LEMMA SoundInit == ASSUME Init PROVE Sound
  <1>1. obj \in Copy /\ seen \in Copy
    BY Zenon DEF Init, NoPass, Copy, RebalanceState
  <1>2. pass \in [action : RebalanceAction, read : Copy, out : Outcomes]
    BY Zenon DEF Init, NoPass, Copy, RebalanceState, RebalanceAction, Outcome, Outcomes
  <1>3. events \in [Event -> Nat] /\ budget \in [Event -> Nat]
    BY RebalanceAssumption, Zenon DEF Init
  <1>4. prop \in Seq(Proposals) /\ Len(prop) = 0
    BY SMTT(30), Z3T(30) DEF Init
  <1>5. TypeOK
    BY <1>1, <1>2, <1>3, <1>4, Zenon DEF Init, TypeOK
  <1>6. TruthInv
    BY <1>4, SMTT(30), Z3T(30) DEF Init, NoPass, Outcome, TruthInv, Truth
  <1> QED
    BY <1>5, <1>6, Zenon DEF Sound, Init, Decided

LEMMA SoundStep == ASSUME Sound, [Next]_vars PROVE Sound' /\ Progress
  <1>1. Bounded
    BY Zenon DEF Sound, TruthInv, Truth, Bounded
  <1>2. TypeOK' /\ Progress
    BY <1>1, TypeStep, Zenon DEF Sound
  <1> QED
    BY <1>2, TruthStep, Zenon DEF Sound

LEMMA AlwaysSound == Spec => []Sound
  BY SoundInit, SoundStep, PTL DEF Spec

\* The state in the status always tells the truth about the session that it names
\* (write_status), for any number of proposals, commands, crashes and stale reads.
THEOREM TruthfulStatus == Spec => []StatusIsTrue
  <1>1. Sound => StatusIsTrue
    <2> SUFFICES ASSUME Sound PROVE StatusIsTrue
      BY Zenon
    <2>1. prop \in Seq(Proposals) /\ obj.session \in Nat /\ Truth(prop, obj.state, obj.session)
      BY Zenon DEF Sound, TypeOK, TruthInv, Copy
    <2>2. obj.session # 0 => obj.session \in DOMAIN prop
      BY <2>1, SMTT(30), Z3T(30) DEF Truth
    <2> QED
      BY <2>1, <2>2, SMTT(30), Z3T(30) DEF StatusIsTrue, Truth
  <1> QED
    BY <1>1, AlwaysSound, PTL

-------------------------------------------------------------------------------
(* Passes that work from the current resource *)

LEMMA EventsGrow ==
  ASSUME TypeOK, [Next]_vars
  PROVE  /\ events' = events \/ \E e \in Event : events' = [events EXCEPT ![e] = events[e] + 1]
         /\ \A e \in Event : events[e] \in Nat /\ events'[e] \in Nat /\ events[e] <= events'[e]
  <1>1. events' = events \/ \E e \in Event : events' = [events EXCEPT ![e] = events[e] + 1]
    <2>1. UNCHANGED events \/ \E e \in Event : Happens(e)
      BY Zenon DEF Next, PassStep, Read, Decide, Consume, CreateProposal, Execute, PollExecution, Cancel,
             RemoveCommand, WriteStatus, Abort, Watch, Command, Finish, Unreachable, Refused,
             vars, tally, Event, RebalanceCommand
    <2> QED
      BY <2>1, TallyType, Zenon
  <1>2. ASSUME NEW e \in Event PROVE events[e] \in Nat /\ events'[e] \in Nat /\ events[e] <= events'[e]
    <2>1. events \in [Event -> Nat]
      BY Zenon DEF TypeOK
    <2>2. CASE events' = events
      BY <2>1, <2>2, SMTT(30), Z3T(30)
    <2>3. ASSUME NEW f \in Event, events' = [events EXCEPT ![f] = events[f] + 1]
          PROVE  events[e] \in Nat /\ events'[e] \in Nat /\ events[e] <= events'[e]
      BY <2>1, <2>3, SMTT(30), Z3T(30)
    <2> QED
      BY <1>1, <2>2, <2>3, Zenon
  <1> QED
    BY <1>1, <1>2, Zenon

LEMMA ReadKept ==
  ASSUME TypeOK, [Next]_vars, pc # "idle"
  PROVE  pc' = "idle" \/ pass'.read = pass.read
  <1>1. pass \in [action : RebalanceAction, read : Copy, out : Outcomes]
    BY Zenon DEF TypeOK
  <1>2. Decide => pc' = "idle" \/ pass'.read = pass.read
    BY <1>1, Zenon DEF Decide, EndPass
  <1>3. \A out : Answer(out) => pass'.read = pass.read
    BY <1>1, Zenon DEF Answer
  <1> QED
    BY <1>2, <1>3, Zenon
       DEF Next, PassStep, Read, Consume, CreateProposal, Execute, PollExecution, Cancel,
           RemoveCommand, WriteStatus, Abort, Watch, Command, Finish, Unreachable, Refused,
           EndPass, vars

\* The command changes in the resource during a pass, the rest of it only at its end.
LEMMA ObjKept ==
  ASSUME TypeOK, [Next]_vars
  PROVE  WriteStatus \/ (obj'.state = obj.state /\ obj'.session = obj.session)
  <1>1. obj \in Copy
    BY Zenon DEF TypeOK
  <1>2. Consume \/ RemoveCommand \/ (\E c \in RebalanceCommand : Command(c)) =>
          obj'.state = obj.state /\ obj'.session = obj.session
    BY <1>1, Zenon DEF Consume, RemoveCommand, Command, Copy
  <1> QED
    BY <1>2, Zenon DEF Next, PassStep, Read, Decide, CreateProposal, Execute, PollExecution, Cancel,
                Abort, Watch, Finish, vars

Fresh ==
  events["stale"] = 0 /\ pc # "idle" =>
    pass.read.state = obj.state /\ pass.read.session = obj.session

LEMMA FreshStep == ASSUME TypeOK, Fresh, [Next]_vars PROVE Fresh'
  <1> SUFFICES ASSUME events'["stale"] = 0, pc' # "idle"
               PROVE  pass'.read.state = obj'.state /\ pass'.read.session = obj'.session
    BY Zenon DEF Fresh
  <1>1. events["stale"] = 0
    BY EventsGrow, SMTT(30), Z3T(30) DEF Event
  <1>2. CASE pc = "idle"
    <2>1. CASE Read
      <3>1. ~Happens("stale")
        BY <1>1, SMTT(30), Z3T(30) DEF TypeOK, Event, Happens
      <3> QED
        BY <2>1, <3>1, Zenon DEF Read, NoPass
    <2>2. CASE ~Read
      BY <1>2, <2>2, Zenon
         DEF Next, PassStep, Decide, Consume, CreateProposal, Execute, PollExecution, Cancel,
             RemoveCommand, WriteStatus, Abort, Watch, Command, Finish, vars
    <2> QED
      BY <2>1, <2>2, Zenon
  <1>3. CASE pc # "idle"
    <2>1. ~WriteStatus
      BY Zenon DEF WriteStatus, EndPass
    <2> QED
      BY <1>1, <1>3, <2>1, ReadKept, ObjKept, Zenon DEF Fresh
  <1> QED
    BY <1>2, <1>3, Zenon

LEMMA AlwaysFresh == Spec => []Fresh
  <1>1. Init => Fresh
    BY Zenon DEF Init, Fresh
  <1>2. Sound /\ Fresh /\ [Next]_vars => Fresh'
    BY FreshStep, Zenon DEF Sound
  <1> QED
    BY <1>1, <1>2, AlwaysSound, PTL DEF Spec

\* The reconciler (rebalance.rs) implements the contract of its users: as long as no pass
\* works from an old copy, only a ready proposal is executed, only an execution is stopped,
\* and a command is only ever asked for or consumed.
THEOREM ContractKept == Spec => ContractSpec
  <1>1. Init => Contract!Init
    BY SMTT(30), Z3T(30) DEF Init, NoPass, Contract!Init
  <1>2. ASSUME Sound, Fresh, [Next]_vars, events'["stale"] = 0
        PROVE  Contract!Next \/ UNCHANGED <<obj.state, obj.command>>
    <2>0. TypeOK /\ events["stale"] = 0
      BY <1>2, EventsGrow, SMTT(30), Z3T(30) DEF Sound, Event
    <2>1. obj \in Copy /\ pass.out \in Outcomes /\ events["stale"] = 0
      BY <2>0, Zenon DEF TypeOK
    <2>2. obj.state # "absent"
      BY <2>1, Zenon DEF Copy, RebalanceState
    <2>3. CASE Consume \/ RemoveCommand
      BY <2>1, <2>3, Zenon DEF Consume, RemoveCommand, Copy, Contract!Next, Contract!Consume
    <2>4. ASSUME NEW c \in RebalanceCommand, Command(c) PROVE Contract!Next
      BY <2>1, <2>2, <2>4, Zenon DEF Command, Copy, Contract!Next, Contract!Ask, RebalanceCommand,
                              Contract!RebalanceCommand
    <2>5. CASE WriteStatus
      <3>1. /\ obj'.state = pass.out.state /\ obj'.command = obj.command
            /\ pass.read.state = obj.state
            /\ Good(prop, pass.out, pass.read)
        BY <1>2, <2>1, <2>5, Zenon DEF WriteStatus, Copy, Fresh, Sound, TruthInv
      <3>2. CASE pass.out.state \in {"New", "ProposalReady", "Ready"}
        BY <2>2, <3>1, <3>2, Zenon DEF Contract!Next, Contract!Propose, Contract!RebalanceState
      <3>3. CASE pass.out.state = "NotReady"
        BY <2>2, <3>1, <3>3, Zenon DEF Contract!Next, Contract!Fail
      <3>4. CASE pass.out.state = "Rebalancing"
        BY <3>1, <3>4, Zenon DEF Good, Contract!Next, Contract!Execute
      <3>5. CASE pass.out.state = "Stopped"
        BY <3>1, <3>5, Zenon DEF Good, Contract!Next, Contract!Finish, Contract!RebalanceState
      <3> QED
        BY <2>1, <3>2, <3>3, <3>4, <3>5, Zenon DEF Outcomes, RebalanceState
    <2>6. CASE UNCHANGED obj
      BY <2>6, Zenon
    <2> QED
      BY <1>2, <2>3, <2>4, <2>5, <2>6, ZenonT(60)
         DEF Next, PassStep, Read, Decide, CreateProposal, Execute, PollExecution, Cancel,
             Abort, Watch, Finish, vars
  <1>3. Sound /\ Fresh /\ [Next]_vars =>
          [events'["stale"] = 0 => Contract!Next \/ UNCHANGED <<obj.state, obj.command>>]_vars
    BY <1>2, Zenon
  <1> QED
    BY <1>1, <1>3, AlwaysSound, AlwaysFresh, PTL DEF Spec, ContractSpec

-------------------------------------------------------------------------------
(* A running execution is the one on file *)

\* Only Execute starts a proposal.
LEMMA RunningStep ==
  ASSUME TypeOK, Bounded, Decided, [Next]_vars, NEW id, Running(id)'
  PROVE  Running(id) \/ (Execute /\ id = pass.read.session)
  <1>0. prop \in Seq(Proposals) /\ Len(prop) \in Nat
    BY SMTT(30), Z3T(30) DEF TypeOK
  <1>1. CASE UNCHANGED prop
    BY <1>1, Zenon DEF Running
  <1>2. ASSUME NEW status \in {"Computed", "Completed", "Unspecified"},
               prop' = Append(prop, Proposal(status, FALSE))
        PROVE  Running(id)
    <2>0. status \in ProposalStatus /\ Proposal(status, FALSE).status = status
      BY Zenon DEF Proposal, ProposalStatus
    <2>1. /\ Len(prop') = Len(prop) + 1 /\ prop'[Len(prop) + 1].status = status
          /\ \A i \in 1 .. Len(prop) : prop'[i] = prop[i]
          /\ prop' \in Seq(Proposals)
      BY <1>2, <2>0, NewProposal, Zenon
    <2>2. id \in 1 .. Len(prop) + 1 /\ prop'[id].status = "Executing"
      BY <2>1, SMTT(30), Z3T(30) DEF Running
    <2>3. id \in 1 .. Len(prop)
      BY <1>0, <2>1, <2>2, SMTT(30), Z3T(30)
    <2> QED
      BY <1>0, <2>1, <2>2, <2>3, SMTT(30), Z3T(30) DEF Running
  <1>3. CASE Execute
    <2>1. pass.read.session \in 1 .. Len(prop)
      BY <1>3, Acting, Zenon DEF Execute, Acts
    <2>2. ASSUME prop[pass.read.session].status = "Computed",
                 prop' = [prop EXCEPT ![pass.read.session] = Proposal("Executing", TRUE)],
                 id # pass.read.session
          PROVE  Running(id)
      <3>1. /\ Len(prop') = Len(prop) /\ prop' \in Seq(Proposals)
            /\ \A i \in 1 .. Len(prop) : i # pass.read.session => prop'[i] = prop[i]
        BY <2>1, <2>2, StartedProposal, Zenon
      <3> QED
        BY <1>0, <2>2, <3>1, Zenon DEF Running
    <2> QED
      BY <1>1, <1>3, <2>2, Zenon DEF Execute
  <1>4. ASSUME NEW k, Running(k), NEW status \in {"Completed", "Failed", "Cancelled"},
               prop' = [prop EXCEPT ![k].status = status]
        PROVE  Running(id)
    <2>1. /\ Len(prop') = Len(prop) /\ prop' \in Seq(Proposals) /\ prop'[k].status = status
          /\ \A i \in 1 .. Len(prop) : i # k => prop'[i] = prop[i]
      BY <1>4, EndedProposal, Zenon
    <2> QED
      BY <1>0, <2>1, SMTT(30), Z3T(30) DEF Running
  <1>5. CASE CreateProposal
    BY <1>1, <1>2, <1>5, Zenon DEF CreateProposal
  <1>6. CASE Cancel
    BY <1>1, <1>4, <1>6, Zenon DEF Cancel
  <1>7. CASE \E k \in 1 .. MaxProposals : Finish(k)
    BY <1>4, <1>7, Zenon DEF Finish
  <1> QED
    BY <1>1, <1>3, <1>5, <1>6, <1>7, ZenonT(60)
       DEF Next, PassStep, Read, Decide, Consume, PollExecution, RemoveCommand, WriteStatus,
           Abort, Watch, Command, vars

\* No copy of the resource asks for a refresh that nobody has made.
NoRefresh ==
  obj.command # "refresh" /\ seen.command # "refresh" /\ pass.read.command # "refresh"

OnFile ==
  Undisturbed =>
    /\ NoRefresh
    /\ \A id \in DOMAIN prop : Running(id) => obj.session = id
    /\ obj.state = "New" => obj.session = 0

LEMMA NoRefreshStep ==
  ASSUME TypeOK, NoRefresh, [Next]_vars, events["refresh"] = 0, events'["refresh"] = 0
  PROVE  NoRefresh'
  <1>1. obj'.command # "refresh"
    <2>1. obj \in Copy
      BY Zenon DEF TypeOK
    <2>2. Consume \/ RemoveCommand \/ WriteStatus => obj'.command \in {"none", obj.command}
      BY <2>1, Zenon DEF Consume, RemoveCommand, WriteStatus, Copy
    <2>3. ASSUME NEW c \in RebalanceCommand, Command(c) PROVE obj'.command # "refresh"
      <3>1. obj'.command = c
        BY <2>1, <2>3, Zenon DEF Command, Copy
      <3>2. c # "refresh"
        BY <2>3, SMTT(30), Z3T(30) DEF Command, Happens, TypeOK, Event
      <3> QED
        BY <3>1, <3>2, Zenon
    <2> QED
      BY <2>2, <2>3, ZenonT(60)
         DEF NoRefresh, Next, PassStep, Read, Decide, CreateProposal, Execute, PollExecution, Cancel,
             Abort, Watch, Finish, vars
  <1>2. seen'.command # "refresh"
    BY Zenon DEF NoRefresh, Next, PassStep, Read, Decide, Consume, CreateProposal, Execute, PollExecution,
           Cancel, RemoveCommand, WriteStatus, Abort, Watch, Command, Finish, vars
  <1>3. pass'.read.command # "refresh"
    <2>1. EndPass => pass'.read.command = "none"
      BY SMTT(30), Z3T(30) DEF EndPass, NoPass
    <2>2. Read => pass'.read = seen
      BY Zenon DEF Read, NoPass
    <2>3. pass \in [action : RebalanceAction, read : Copy, out : Outcomes]
      BY Zenon DEF TypeOK
    <2>4. Decide => EndPass \/ pass'.read = pass.read
      BY <2>3, Zenon DEF Decide
    <2>5. \A out : Answer(out) => pass'.read = pass.read
      BY <2>3, Zenon DEF Answer
    <2> QED
      BY <2>1, <2>2, <2>4, <2>5, ZenonT(60)
         DEF NoRefresh, Next, PassStep, Consume, CreateProposal, Execute, PollExecution, Cancel,
             RemoveCommand, WriteStatus, Abort, Watch, Command, Finish, Unreachable, Refused, vars
  <1> QED
    BY <1>1, <1>2, <1>3, ZenonT(30) DEF NoRefresh

LEMMA OnFileStep == ASSUME Sound, Fresh, OnFile, [Next]_vars PROVE OnFile'
  <1> SUFFICES ASSUME Undisturbed'
               PROVE  /\ NoRefresh'
                      /\ \A id : Running(id)' => obj'.session = id
                      /\ obj'.state = "New" => obj'.session = 0
    BY ZenonT(30) DEF OnFile
  <1>0. TypeOK /\ Decided /\ TruthInv /\ Bounded
    BY Zenon DEF Sound, TruthInv, Truth, Bounded
  <1>1. Undisturbed /\ events["refresh"] = 0 /\ events'["refresh"] = 0 /\ events["stale"] = 0
    <2>1. \A e \in {"abort", "unreachable", "refresh", "refused", "stale"} :
            events'[e] = 0 /\ events[e] \in Nat /\ events[e] <= events'[e]
      BY <1>0, EventsGrow, Zenon DEF Undisturbed, Event
    <2> QED
      BY <2>1, SMTT(30), Z3T(30) DEF Undisturbed
  <1>2. /\ NoRefresh
        /\ \A id : Running(id) => obj.session = id
        /\ obj.state = "New" => obj.session = 0
    BY <1>1, Zenon DEF OnFile, Running
  <1>3. pc # "idle" => pass.read.state = obj.state /\ pass.read.session = obj.session
    BY <1>1, Zenon DEF Fresh
  <1>4. NoRefresh'
    BY <1>0, <1>1, <1>2, NoRefreshStep, Zenon
  <1>5. CASE WriteStatus
    <2>1. /\ obj'.state = pass.out.state /\ obj'.session = Carried(pass.out, pass.read)
          /\ Good(prop, pass.out, pass.read) /\ pc # "idle"
      BY <1>0, <1>5, Zenon DEF WriteStatus, TypeOK, Copy, Carried, TruthInv
    <2>2. pass.out.session # 0 \/ pass.out.state = "New" => obj.session = 0
      BY <1>2, <1>3, <2>1, Zenon DEF Good, NoRefresh
    <2>3. obj'.state = "New" => obj'.session = 0
      BY <1>3, <2>1, <2>2, Zenon DEF Good, Carried
    <2>4. ASSUME NEW id, Running(id)' PROVE obj'.session = id
      <3>1. Running(id) /\ id # 0
        BY <1>0, <1>5, <2>4, SMTT(30), Z3T(30) DEF WriteStatus, Running, TypeOK
      <3> QED
        BY <1>2, <1>3, <2>1, <2>2, <3>1, Zenon DEF Carried
    <2> QED
      BY <1>4, <2>3, <2>4, Zenon
  <1>6. CASE ~WriteStatus
    <2>1. obj'.state = obj.state /\ obj'.session = obj.session
      BY <1>0, <1>6, ObjKept, Zenon
    <2>2. ASSUME NEW id, Running(id)' PROVE obj.session = id
      <3>1. Running(id) \/ (Execute /\ id = pass.read.session)
        BY <1>0, <2>2, RunningStep, Zenon
      <3> QED
        BY <1>2, <1>3, <3>1, Zenon DEF Execute
    <2> QED
      BY <1>2, <1>4, <2>1, <2>2, Zenon
  <1> QED
    BY <1>5, <1>6, Zenon

\* A running execution is the session on file, so that poll and stop reach it
\* (crd/rebalance.rs), unless a pass has failed, a refresh was asked for or a pass worked
\* from an old copy of the resource.
THEOREM RunningIsOnFile == Spec => []ExecutionOnFile
  <1>1. Init => OnFile
    BY SMTT(30), Z3T(30) DEF Init, OnFile, NoRefresh, NoPass
  <1>2. Sound /\ Fresh /\ OnFile /\ [Next]_vars => OnFile'
    BY OnFileStep, Zenon
  <1>3. OnFile => ExecutionOnFile
    BY Zenon DEF OnFile, ExecutionOnFile
  <1> QED
    BY <1>1, <1>2, <1>3, AlwaysSound, AlwaysFresh, PTL DEF Spec

-------------------------------------------------------------------------------
(* One approval starts at most one execution *)

\* A copy of the resource that would start an execution.
Could(p, r) ==
  /\ r.state = "ProposalReady" /\ r.command = "approve"
  /\ r.session \in 1 .. Len(p) /\ p[r.session].status = "Computed"

\* The pass is about to execute.
Waiting == pc \in {"decide", "call"} /\ Could(prop, pass.read)

\* The pass may put a new proposal on file and leave the command alone.
Reviver ==
  \/ pc \in {"decide", "call"} /\ pass.read.command = "none"
  \/ pc = "status" /\ pass.out.session # 0

\* The approval in the resource may still start an execution.
Asked == obj.command = "approve" /\ (Could(prop, obj) \/ Reviver)

\* How many executions the approvals made so far may still start.
Pending ==
  IF Waiting /\ Asked /\ obj.session # pass.read.session THEN 2
  ELSE IF Waiting \/ Asked THEN 1 ELSE 0

Spent == Cardinality(Started) + Pending <= events["approve"] + events["stale"]

LEMMA PendingFalls ==
  ASSUME Waiting' => Waiting, Asked' => Asked,
         Waiting' /\ Asked' => obj'.session = obj.session /\ pass'.read.session = pass.read.session
  PROVE  Pending' <= Pending
  BY SMTT(30), Z3T(30) DEF Pending

LEMMA StartedFinite == TypeOK => IsFiniteSet(Started) /\ Cardinality(Started) \in Nat
  <1> SUFFICES ASSUME TypeOK PROVE IsFiniteSet(Started) /\ Cardinality(Started) \in Nat
    BY Zenon
  <1>1. Started \subseteq 1 .. Len(prop) /\ Len(prop) \in Nat
    BY SMTT(30), Z3T(30) DEF TypeOK, Started
  <1>2. IsFiniteSet(1 .. Len(prop))
    BY <1>1, FS_Interval, SMTT(30), Z3T(30)
  <1> QED
    BY <1>1, <1>2, FS_Subset, FS_CardinalityType, Zenon

\* An execution starts only for a copy that could start it.
LEMMA StartedStep ==
  ASSUME TypeOK, TypeOK', Bounded, Decided, [Next]_vars
  PROVE  \/ Started' = Started
         \/ /\ Execute /\ Could(prop, pass.read) /\ prop'[pass.read.session].status = "Executing"
            /\ Started' \subseteq Started \cup {pass.read.session}
  <1>0. prop \in Seq(Proposals) /\ Len(prop) \in Nat /\ DOMAIN prop = 1 .. Len(prop)
    BY SMTT(30), Z3T(30) DEF TypeOK
  <1>1. CASE UNCHANGED prop
    BY <1>1, Zenon DEF Started
  <1>2. ASSUME NEW status \in {"Computed", "Completed", "Unspecified"},
               prop' = Append(prop, Proposal(status, FALSE))
        PROVE  Started' = Started
    <2>0. status \in ProposalStatus /\ Proposal(status, FALSE).started = FALSE
      BY Zenon DEF Proposal, ProposalStatus
    <2>1. /\ Len(prop') = Len(prop) + 1 /\ prop'[Len(prop) + 1].started = FALSE
          /\ \A i \in 1 .. Len(prop) : prop'[i] = prop[i]
          /\ prop' \in Seq(Proposals)
      BY <1>2, <2>0, NewProposal, Zenon
    <2>2. DOMAIN prop' = 1 .. Len(prop) + 1
      BY <2>1, SMTT(30), Z3T(30)
    <2>3. \A i \in DOMAIN prop' : i \in DOMAIN prop \/ i = Len(prop) + 1
      BY <1>0, <2>2, SMTT(30), Z3T(30)
    <2>4. DOMAIN prop \subseteq DOMAIN prop'
      BY <1>0, <2>2, SMTT(30), Z3T(30)
    <2> QED
      BY <1>0, <2>1, <2>3, <2>4, Zenon DEF Started
  <1>3. CASE Execute
    <2>1. /\ pass.read.session \in 1 .. Len(prop)
          /\ pass.read.command = "approve" /\ pass.read.state = "ProposalReady"
      BY <1>3, Acting, ZenonT(30) DEF Execute, Acts
    <2>2. ASSUME prop[pass.read.session].status = "Computed",
                 prop' = [prop EXCEPT ![pass.read.session] = Proposal("Executing", TRUE)]
          PROVE  /\ Could(prop, pass.read) /\ prop'[pass.read.session].status = "Executing"
                 /\ Started' \subseteq Started \cup {pass.read.session}
      <3>1. /\ Len(prop') = Len(prop) /\ prop' \in Seq(Proposals)
            /\ \A i \in 1 .. Len(prop) : i # pass.read.session => prop'[i] = prop[i]
            /\ prop'[pass.read.session] = Proposal("Executing", TRUE)
        BY <2>1, <2>2, StartedProposal, Zenon
      <3>2. DOMAIN prop' = DOMAIN prop
        BY <1>0, <3>1, SMTT(30), Z3T(30)
      <3>3. Started' \subseteq Started \cup {pass.read.session}
        BY <1>0, <3>1, <3>2, Zenon DEF Started
      <3> QED
        BY <2>1, <2>2, <3>1, <3>3, SMTT(30), Z3T(30) DEF Could, Proposal
    <2> QED
      BY <1>1, <1>3, <2>2, Zenon DEF Execute
  <1>4. ASSUME NEW k, Running(k), NEW status \in {"Completed", "Failed", "Cancelled"},
               prop' = [prop EXCEPT ![k].status = status]
        PROVE  Started' = Started
    <2>1. /\ Len(prop') = Len(prop) /\ prop' \in Seq(Proposals) /\ prop'[k].started = prop[k].started
          /\ \A i \in 1 .. Len(prop) : i # k => prop'[i] = prop[i]
      BY <1>4, EndedProposal, Zenon
    <2>2. DOMAIN prop' = DOMAIN prop
      BY <1>0, <2>1, SMTT(30), Z3T(30)
    <2> QED
      BY <1>0, <2>1, <2>2, Zenon DEF Started
  <1>5. CASE CreateProposal
    BY <1>1, <1>2, <1>5, Zenon DEF CreateProposal
  <1>6. CASE Cancel
    BY <1>1, <1>4, <1>6, Zenon DEF Cancel
  <1>7. CASE \E k \in 1 .. MaxProposals : Finish(k)
    BY <1>4, <1>7, Zenon DEF Finish
  <1> QED
    BY <1>1, <1>3, <1>5, <1>6, <1>7, ZenonT(60)
       DEF Next, PassStep, Read, Decide, Consume, PollExecution, RemoveCommand, WriteStatus,
           Abort, Watch, Command, vars

LEMMA CouldStable ==
  ASSUME TypeOK, TypeOK', Progress, NEW r \in Copy, r.session <= Len(prop), Could(prop', r)
  PROVE  Could(prop, r)
  <1>1. r.session \in 1 .. Len(prop)
    BY SMTT(30), Z3T(30) DEF Could, TypeOK, Copy
  <1>2. Advances(prop[r.session], prop'[r.session])
    BY <1>1, Zenon DEF Progress
  <1> QED
    BY <1>1, <1>2, Zenon DEF Could, Advances

LEMMA PendingStep ==
  ASSUME TypeOK, TypeOK', Progress, Bounded, Decided, TruthInv, [Next]_vars
  PROVE  \/ Pending' <= Pending
         \/ Pending' <= Pending + 1 /\ ((Read /\ Happens("stale")) \/ Command("approve"))
  <1>0. /\ obj \in Copy /\ seen \in Copy /\ pass.read \in Copy /\ pass.out \in Outcomes
        /\ obj.session <= Len(prop) /\ seen.session <= Len(prop) /\ pass.read.session <= Len(prop)
    BY Zenon DEF TypeOK, Bounded
  <1>a. /\ Could(prop', obj) => Could(prop, obj)
        /\ Could(prop', pass.read) => Could(prop, pass.read)
    BY <1>0, CouldStable, Zenon
  <1>b. EndPass => ~Waiting' /\ ~Reviver'
    BY Zenon DEF EndPass, Waiting, Reviver
  <1>c. UNCHANGED <<obj, pc, pass>> => Pending' <= Pending
    <2> SUFFICES ASSUME UNCHANGED <<obj, pc, pass>> PROVE Pending' <= Pending
      BY Zenon
    <2>1. (Waiting' => Waiting) /\ (Asked' => Asked)
      BY <1>a, Zenon DEF Waiting, Asked, Reviver
    <2> QED
      BY <2>1, PendingFalls, Zenon
  <1>d. UNCHANGED obj /\ EndPass => Pending' <= Pending
    <2> SUFFICES ASSUME UNCHANGED obj, EndPass PROVE Pending' <= Pending
      BY Zenon
    <2>1. (Waiting' => Waiting) /\ (Asked' => Asked) /\ ~Waiting'
      BY <1>a, <1>b, Zenon DEF Asked
    <2> QED
      BY <2>1, PendingFalls, Zenon
  <1>e. ASSUME UNCHANGED obj, pc = "call", NEW out \in Outcomes, Answer(out) PROVE Pending' <= Pending
    <2>1. /\ pc' = IF pass.read.command # "none" THEN "remove" ELSE "status"
          /\ pass'.read = pass.read
      BY <1>e, AnswerType, Zenon DEF Answer
    <2>2. ~Waiting' /\ (Reviver' => Reviver)
      BY <1>e, <2>1, Zenon DEF Waiting, Reviver
    <2>3. Asked' => Asked
      BY <1>a, <1>e, <2>2, Zenon DEF Asked
    <2> QED
      BY <2>2, <2>3, PendingFalls, Zenon
  <1>1. CASE Read
    <2>1. pass'.read = seen /\ pc' = "decide" /\ UNCHANGED <<obj, prop>> /\ pc = "idle"
      BY <1>1, Zenon DEF Read, NoPass
    <2>2. ~Waiting /\ ~Reviver /\ (Waiting' <=> Could(prop, seen)) /\ (Reviver' <=> seen.command = "none")
      BY <2>1, Zenon DEF Waiting, Reviver
    <2>3. CASE seen = obj
      <3>1. (Waiting' => Asked) /\ (Asked' => Asked)
        BY <2>1, <2>2, <2>3, Zenon DEF Asked, Could
      <3>2. obj'.session = pass'.read.session
        BY <2>1, <2>3, Zenon
      <3> QED
        BY <3>1, <3>2, SMTT(30), Z3T(30) DEF Pending
    <2>4. CASE Happens("stale")
      <3>1. Waiting' /\ Asked' => Asked
        BY <2>1, <2>2, Zenon DEF Asked, Could
      <3> QED
        BY <1>1, <2>4, <3>1, SMTT(30), Z3T(30) DEF Pending
    <2> QED
      BY <1>1, <2>3, <2>4, Zenon DEF Read
  <1>2. CASE Decide
    <2>1. \/ EndPass
          \/ pc' = "call" /\ pass'.read = pass.read
          \/ pc' = "consume"
          \/ pc' = "status" /\ pass'.out = Outcome("NotReady", 0)
      BY <1>2, Zenon DEF Decide, TypeOK
    <2>2. UNCHANGED <<obj, prop>> /\ pc = "decide"
      BY <1>2, Zenon DEF Decide
    <2>3. (Waiting' => Waiting) /\ (Reviver' => Reviver)
      BY <1>b, <2>1, <2>2, SMTT(30), Z3T(30) DEF Waiting, Reviver, Outcome
    <2>4. (Asked' => Asked) /\ (Waiting' => pass'.read.session = pass.read.session)
      BY <1>b, <2>1, <2>2, <2>3, ZenonT(30) DEF Waiting, Asked
    <2> QED
      BY <2>2, <2>3, <2>4, PendingFalls, Zenon
  <1>3. CASE Consume \/ RemoveCommand
    <2>1. obj'.command = "none" /\ pc' \in {"idle", "status"}
      BY <1>0, <1>3, Zenon DEF Consume, RemoveCommand, EndPass, Copy
    <2>2. ~Waiting' /\ ~Asked'
      BY <2>1, Zenon DEF Waiting, Asked
    <2> QED
      BY <2>2, PendingFalls, Zenon
  <1>4. CASE WriteStatus
    <2>1. /\ obj'.state = pass.out.state /\ obj'.command = obj.command /\ pc = "status"
          /\ Good(prop, pass.out, pass.read)
      BY <1>0, <1>4, Zenon DEF WriteStatus, Copy, TruthInv
    <2>2. ~Waiting' /\ ~Reviver'
      BY <1>4, <1>b, Zenon DEF WriteStatus
    <2>3. Asked' => Asked
      BY <2>1, <2>2, Zenon DEF Asked, Could, Good, Reviver
    <2> QED
      BY <2>2, <2>3, PendingFalls, Zenon
  <1>5. CASE CreateProposal \/ Execute \/ PollExecution \/ Cancel
    <2>1. EndPass \/ \E out \in Outcomes : Answer(out)
      BY <1>5, CreateAnswer, ExecuteAnswer, PollAnswer, CancelAnswer, ZenonT(60) DEF TruthInv
    <2>2. UNCHANGED obj /\ pc = "call"
      BY <1>5, Zenon DEF CreateProposal, Execute, PollExecution, Cancel
    <2> QED
      BY <1>d, <1>e, <2>1, <2>2, ZenonT(30)
  <1>6. CASE Abort
    BY <1>6, <1>d, Zenon DEF Abort
  <1>7. CASE Watch \/ (\E id \in 1 .. MaxProposals : Finish(id)) \/ UNCHANGED vars
    BY <1>7, <1>c, Zenon DEF Watch, Finish, vars
  <1>8. ASSUME NEW c \in RebalanceCommand, Command(c)
        PROVE  Pending' <= Pending \/ (Command("approve") /\ Pending' <= Pending + 1)
    <2>1. UNCHANGED <<prop, pc, pass>> /\ obj'.command = c /\ obj'.session = obj.session
      BY <1>0, <1>8, Zenon DEF Command, Copy
    <2>2. Waiting' = Waiting
      BY <2>1, Zenon DEF Waiting
    <2>3. CASE c = "approve"
      BY <1>8, <2>2, <2>3, SMTT(30), Z3T(30) DEF Pending
    <2>4. CASE c # "approve"
      <3>1. ~Asked'
        BY <2>1, <2>4, Zenon DEF Asked
      <3> QED
        BY <2>2, <3>1, PendingFalls, Zenon
    <2> QED
      BY <2>3, <2>4, Zenon
  <1> QED
    BY <1>1, <1>2, <1>3, <1>4, <1>5, <1>6, <1>7, <1>8, ZenonT(30) DEF Next, PassStep

\* An execution that starts uses up what was pending for it.
LEMMA ExecuteSpends ==
  ASSUME TypeOK, TypeOK', Progress, Bounded, Execute, Could(prop, pass.read),
         prop'[pass.read.session].status = "Executing", EndPass \/ \E out \in Outcomes : Answer(out),
         pass.read.command = "approve"
  PROVE  Pending' + 1 <= Pending
  <1>0. obj \in Copy /\ obj.session <= Len(prop) /\ pc = "call" /\ UNCHANGED obj
    BY Zenon DEF TypeOK, Bounded, Execute
  <1>1. Waiting
    BY <1>0, Zenon DEF Waiting
  <1>2. pc' \in {"idle", "remove"}
    BY Zenon DEF EndPass, Answer
  <1>3. ~Waiting' /\ ~Reviver'
    BY <1>2, Zenon DEF Waiting, Reviver
  <1>4. Asked' => Asked /\ obj.session # pass.read.session
    <2> SUFFICES ASSUME Asked' PROVE Asked /\ obj.session # pass.read.session
      BY Zenon
    <2>1. Could(prop', obj) /\ obj.command = "approve"
      BY <1>0, <1>3, Zenon DEF Asked
    <2>2. Could(prop, obj)
      BY <1>0, <2>1, CouldStable, Zenon
    <2> QED
      BY <2>1, <2>2, Zenon DEF Asked, Could
  <1> QED
    BY <1>1, <1>3, <1>4, SMTT(30), Z3T(30) DEF Pending

LEMMA SpentStep == ASSUME Sound, Sound', Progress, Spent, [Next]_vars PROVE Spent'
  <1>0. TypeOK /\ TypeOK' /\ Bounded /\ Decided /\ TruthInv
    BY Zenon DEF Sound, TruthInv, Truth, Bounded
  <1>1. /\ IsFiniteSet(Started) /\ Cardinality(Started) \in Nat
        /\ IsFiniteSet(Started') /\ Cardinality(Started') \in Nat
    <2>1. (IsFiniteSet(Started) /\ Cardinality(Started) \in Nat)'
      BY <1>0, StartedFinite, PTL
    <2> QED
      BY <1>0, <2>1, StartedFinite, Zenon
  <1>2. Pending \in 0 .. 2 /\ Pending' \in 0 .. 2
    BY SMTT(30), Z3T(30) DEF Pending
  <1>3. /\ events["approve"] \in Nat /\ events["stale"] \in Nat
        /\ events'["approve"] \in Nat /\ events'["stale"] \in Nat
        /\ events["approve"] <= events'["approve"] /\ events["stale"] <= events'["stale"]
    BY <1>0, EventsGrow, Zenon DEF Event
  <1>4. CASE Started' = Started
    <2>1. CASE Pending' <= Pending
      BY <1>1, <1>2, <1>3, <1>4, <2>1, SMTT(30), Z3T(30) DEF Spent
    <2>2. ASSUME Pending' <= Pending + 1, Happens("stale") \/ Command("approve") PROVE Spent'
      <3>1. events'["approve"] + events'["stale"] = events["approve"] + events["stale"] + 1
        <4>1. events \in [Event -> Nat] /\ "approve" \in Event /\ "stale" \in Event
          BY <1>0, Zenon DEF TypeOK, Event
        <4>2. \/ events' = [events EXCEPT !["stale"] = events["stale"] + 1]
              \/ events' = [events EXCEPT !["approve"] = events["approve"] + 1]
          BY <2>2, Zenon DEF Happens, Command
        <4> QED
          BY <1>3, <4>1, <4>2, SMTT(30), Z3T(30)
      <3> QED
        BY <1>1, <1>2, <1>3, <1>4, <2>2, <3>1, SMTT(30), Z3T(30) DEF Spent
    <2> QED
      BY <1>0, <2>1, <2>2, PendingStep, Zenon
  <1>5. ASSUME Execute, Could(prop, pass.read), prop'[pass.read.session].status = "Executing",
               Started' \subseteq Started \cup {pass.read.session}
        PROVE  Spent'
    <2>1. pass.read.command = "approve"
      BY <1>5, ZenonT(30) DEF Could
    <2>2. EndPass \/ \E out \in Outcomes : Answer(out)
      BY <1>0, <1>5, ExecuteAnswer, ZenonT(30) DEF TruthInv
    <2>3. Pending' + 1 <= Pending
      BY <1>0, <1>5, <2>1, <2>2, ExecuteSpends, Zenon
    <2>4. Cardinality(Started') <= Cardinality(Started) + 1
      <3> DEFINE S == Started \cup {pass.read.session}
      <3>1. IsFiniteSet(S) /\ Cardinality(S) \in Nat /\ Cardinality(S) <= Cardinality(Started) + 1
        <4>1. /\ IsFiniteSet(S)
              /\ pass.read.session \in Started => Cardinality(S) = Cardinality(Started)
              /\ pass.read.session \notin Started => Cardinality(S) = Cardinality(Started) + 1
          BY <1>1, FS_AddElement, ZenonT(30)
        <4>2. Cardinality(S) \in Nat
          BY <4>1, FS_CardinalityType, Zenon
        <4> QED
          BY <1>1, <4>1, <4>2, SMTT(30), Z3T(30)
      <3>2. Cardinality(Started') <= Cardinality(S)
        BY <1>5, <3>1, FS_Subset, Zenon
      <3> HIDE DEF S
      <3> QED
        BY <1>1, <3>1, <3>2, SMTT(30), Z3T(30)
    <2>5. Cardinality(Started') + Pending' <= Cardinality(Started) + Pending
      <3> DEFINE c == Cardinality(Started)
                 d == Cardinality(Started')
                 p == Pending
                 q == Pending'
      <3>1. c \in Nat /\ d \in Nat /\ p \in 0 .. 2 /\ q \in 0 .. 2 /\ q + 1 <= p /\ d <= c + 1
        BY <1>1, <1>2, <2>3, <2>4, Zenon
      <3> HIDE DEF c, d, p, q
      <3>2. d + q <= c + p
        BY <3>1, SMTT(30), Z3T(30)
      <3> QED
        BY <3>2, Zenon DEF c, d, p, q
    <2>6. events["approve"] + events["stale"] <= events'["approve"] + events'["stale"]
      BY <1>3, SMTT(30), Z3T(30)
    <2> QED
      BY <1>1, <1>2, <1>3, <2>5, <2>6, SMTT(30), Z3T(30) DEF Spent
  <1> QED
    BY <1>0, <1>4, <1>5, StartedStep, ZenonT(30)

\* "Only `approve` mutates the cluster" (rebalance.rs): for any number of proposals, lost
\* answers, crashes and commands, no more executions start than approvals were given and
\* passes worked from an old copy of the resource.
THEOREM ApprovalSpent == Spec => []OneApprovalPerExecution
  <1>1. Init => Spent
    <2> SUFFICES ASSUME Init PROVE Spent
      BY Zenon
    <2>1. Started = {}
      BY SMTT(30), Z3T(30) DEF Init, Started
    <2>2. Cardinality(Started) = 0
      BY <2>1, FS_EmptySet, Zenon
    <2>3. Pending = 0
      BY Zenon DEF Init, NoPass, Pending, Waiting, Asked
    <2>4. events["approve"] = 0 /\ events["stale"] = 0
      BY Zenon DEF Init, Event
    <2> QED
      BY <2>2, <2>3, <2>4, SMTT(30), Z3T(30) DEF Spent
  <1>2. Sound /\ Spent /\ [Next]_vars => Spent'
    BY SoundStep, SpentStep, Zenon
  <1>3. Sound /\ Spent => OneApprovalPerExecution
    <2> SUFFICES ASSUME Sound, Spent PROVE OneApprovalPerExecution
      BY Zenon
    <2>1. /\ Cardinality(Started) \in Nat /\ Pending \in 0 .. 2
          /\ events["approve"] \in Nat /\ events["stale"] \in Nat
      BY StartedFinite, SMTT(30), Z3T(30) DEF Sound, TypeOK, Pending, Event
    <2> QED
      BY <2>1, SMTT(30), Z3T(30) DEF Spent, OneApprovalPerExecution
  <1> QED
    BY <1>1, <1>2, <1>3, AlwaysSound, PTL DEF Spec
=============================================================================
