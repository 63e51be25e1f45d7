---------------------------- MODULE UserPassProofs ----------------------------
(***************************************************************************)
(* The inductive invariant of KafkaUsers: what a pass knows at each of its *)
(* steps, what a step may do to the broker, and that a pass that ends early *)
(* keeps the invariant.                                                    *)
(***************************************************************************)
EXTENDS KafkaUsers, TLAPS

Opt(S) == {None} \cup {Some(x) : x \in S}
Name == {"name", "CN=name"}
Secret == [kind : {"password", "token", "cert"}, value : Nat, aging : BOOLEAN]
Token == [id : Nat, renewers : Nat, max : Nat, expiry : Nat]
Reason == {"none", "Ready", "MissingClusterLabel", "InvalidSpec", "ClusterNotReady", "BrokerError",
           "Transport", "TokenPending", "TokenReady", "SecretWriteFailed", "AccessPending"}
Status == [ready : {"none", "True", "False"}, reason : Reason, observed : Nat, flags : SUBSET Auth,
           principal : Opt(Name), quotas : BOOLEAN, tokenId : Opt(Nat), expiry : Nat, max : Nat,
           issued : BOOLEAN]
Decision == {"Create", "Cycle", "Renew", "NoOp"}
Entry == [principal : Name, resource : STRING, op : STRING]
Entries == SUBSET (STRING \cup Entry)
Pass == [gen : Nat, s : UserSpec, st : Status, now : Nat, reason : Reason, password : Opt(Nat),
         ca : Nat, token : Opt(Token), decision : Decision, published : BOOLEAN,
         add : Entries, del : Entries]

\* Where a pass can be.
Dropping == {"dropCredential", "dropAcls", "dropQuotas", "unfinalize"}
Scram == {"password", "writePassword", "upsert"}
Tls == {"ca", "cert"}
Replacing == {"pending", "expire", "create"}
Delegating == {"describe", "renew", "check", "identity", "writeToken"} \cup Replacing
AclStep == {"pendingAcls", "createAcls", "deleteAcls"}
QuotaStep == {"pendingQuotas", "alterQuotas"}
Access == {"acls", "quotas", "report"} \cup AclStep \cup QuotaStep
Granting == Scram \cup Tls \cup Delegating \cup Access
Label == {"idle", "refuse", "finalizer"} \cup Dropping \cup Granting

StateTypes ==
  /\ scenario \in Scenarios /\ events \in [Event -> Nat]
  /\ edit \in 1 .. Len(scenario.edits)
  /\ user \in [phase : {"live", "deleting", "gone"}, fin : BOOLEAN]
  /\ status \in Status /\ secret \in Opt(Secret)
  /\ scram \in [Mechanism -> Opt(Nat)]
  /\ acls \subseteq Entry
  /\ quotas \in [Name -> SUBSET STRING] /\ tokens \subseteq Token
  /\ next \in Nat /\ now \in Nat /\ wake \in Nat /\ ca \in Nat /\ reissue \in Opt(Nat)
  /\ up \in BOOLEAN /\ pc \in Label

\* A pass holds the spec of the generation that it read.
PassTypes ==
  pc # "idle" => /\ pass \in Pass /\ pass.gen \in 1 .. edit
                 /\ pass.s = scenario.edits[pass.gen]

Types == StateTypes /\ PassTypes

-----------------------------------------------------------------------------
(* The pass and its resource *)

\* Each kind of authentication has steps of its own, a finalizer is there before the
\* broker is touched, and no status is newer than the pass under way.
Places ==
  /\ pc \in Scram => pass.s.auth \in Mechanism
  /\ pc \in Tls => pass.s.auth = "tls"
  /\ pc \in Delegating \cup {"pendingAcls", "pendingQuotas"} => pass.s.auth = "token"
  /\ pc \in Dropping => user.phase = "deleting"
  /\ pc \in Granting => user.fin
  /\ user.fin => user.phase # "gone"
  /\ user.phase = "deleting" => user.fin
  /\ status.observed <= edit
  /\ pc # "idle" => status.observed <= pass.gen /\ pass.st.observed <= pass.gen
  /\ status.ready = "True" /\ status.reason = "TokenReady" =>
       status.observed \in 1 .. edit /\ scenario.edits[status.observed].auth = "token"

\* The access of a user with a token, and the steps from which its identity is on file.
TokenAccess == pc \in Access /\ pass.s.auth = "token"
OnFile == pc = "writeToken" \/ TokenAccess

\* Until a pass writes the status, or withdraws Ready, the status is what it has read.
Statuses ==
  /\ pc # "idle" /\ status.ready = "True" => status = pass.st /\ ~pass.published
  /\ pc \in {"expire", "create"} => status.ready # "True"
  /\ status.ready = "True" /\ (pc = "identity" \/ OnFile) =>
       status_has_current_ready_token(pass.st, pass.token[1])

\* Certificates are reissued after a rotation and for users that have had one.
Reissues ==
  /\ events["rotate"] = 0 => ca = 1 /\ reissue = None
  /\ reissue # None => "tls" \in AuthOf

-----------------------------------------------------------------------------
(* Tokens *)

\* The steps of a pass that has found or made a token.
Knowing ==
  \/ pc \in {"expire", "renew", "check", "identity", "writeToken"}
  \/ pc = "pending" /\ pass.decision = "Cycle"
  \/ TokenAccess

\* That token is the only one, and is there until it expires.
Tokens ==
  /\ \A t, u \in tokens : t = u
  /\ pc = "create" \/ (pc = "pending" /\ pass.decision = "Create") => tokens = {}
  /\ pc = "pending" => pass.decision \in {"Create", "Cycle"}
  /\ Knowing => /\ pass.token # None /\ tokens \subseteq {pass.token[1]}
                /\ now < pass.token[1].expiry => pass.token[1] \in tokens
  /\ \A t \in tokens : t.expiry <= t.max /\ now < t.expiry

-----------------------------------------------------------------------------
(* What a pass has seen to *)

Identified == status.tokenId = Some(pass.token[1].id)

\* The credential.
Credentials ==
  /\ Steady /\ pc = "writePassword" => ~HasPassword
  /\ Steady /\ pc = "upsert" => HasPassword /\ pass.password = Some(secret[1].value)
  /\ OnFile => Identified
  /\ Steady /\ pc \in Access => HasCredential(pass.s)
  /\ Steady /\ Ready => HasCredential(kafkaUser) /\ pc # "writePassword"

Held(s) == {a \in acls : a.principal = principal_for(s.auth)}
Asked(s) == expand_spec_acls(s.acls[1], principal_for(s.auth))
Undrifted == events["drift"] = 0

\* The ACLs, unless others delete them.
Acls ==
  /\ pc \in AclStep => pass.s.acls # None /\ pass.add \subseteq Asked(pass.s)
  /\ pc \in AclStep /\ Undrifted => \A a \in pass.del : a.principal = Principal
  /\ pc \in {"pendingAcls", "createAcls"} /\ Undrifted =>
       pass.add = Asked(pass.s) \ Held(pass.s) /\ pass.del = Held(pass.s) \ Asked(pass.s)
  /\ pc = "deleteAcls" /\ Undrifted => Held(pass.s) \ pass.del = Asked(pass.s)
  /\ pc \in {"quotas", "report"} \cup QuotaStep /\ Undrifted => HasAcls(pass.s)
  /\ Ready /\ Undrifted => HasAcls(kafkaUser) /\ pc \notin AclStep

\* The quotas.
Quotas ==
  /\ pc \in QuotaStep => /\ pass.s.quotas # None
                         /\ pass.add = pass.s.quotas[1] \ quotas[Principal]
                         /\ pass.del = quotas[Principal] \ pass.s.quotas[1]
  /\ pc = "report" => HasQuotas(pass.s)
  /\ Ready => HasQuotas(kafkaUser) /\ pc \notin QuotaStep

-----------------------------------------------------------------------------
(* Deletion *)

\* What the broker holds belongs to a kind of authentication that the user has had.
Owned ==
  /\ \A m \in Mechanism : scram[m] # None => m \in AuthOf
  /\ tokens # {} => "token" \in AuthOf
  /\ \A a \in acls : \E u \in AuthOf : a.principal = principal_for(u)
  /\ \A p \in Name : quotas[p] # {} => \E u \in AuthOf : p = principal_for(u)

NoCredential == (\A m \in Mechanism : scram[m] = None) /\ tokens = {}

\* While no call fails, a deletion removes one kind of thing after the other.
Removed ==
  /\ user.phase = "live" /\ ~user.fin => NothingLeft
  /\ Undisturbed /\ SameAuth =>
       /\ pc \in {"dropAcls", "dropQuotas", "unfinalize"} => NoCredential
       /\ pc \in {"dropQuotas", "unfinalize"} => acls = {}
       /\ pc = "unfinalize" => NothingLeft
       /\ user.phase = "gone" => NothingLeft

Inv == Types /\ Places /\ Statuses /\ Reissues /\ Tokens /\ Credentials /\ Acls /\ Quotas /\ Owned
         /\ Removed

-----------------------------------------------------------------------------
(* Types *)

LEMMA OptTypes ==
  ASSUME NEW S, NEW o \in Opt(S), o # None
  PROVE  o[1] \in S /\ o = Some(o[1])
  BY SMTT(30), Z3T(30) DEF Opt, Some, None

LEMMA SomeTypes ==
  ASSUME NEW S, NEW x \in S
  PROVE  None \in Opt(S) /\ Some(x) \in Opt(S) /\ Some(x) # None /\ Some(x)[1] = x
  BY Zenon DEF Opt, Some, None

LEMMA ScenarioTypes ==
  ASSUME StateTypes
  PROVE  /\ Len(scenario.edits) \in Nat /\ edit \in Nat
         /\ \A i \in 1 .. Len(scenario.edits) :
              scenario.edits[i] \in UserSpec /\ scenario.edits[i].auth \in Auth
         /\ kafkaUser \in UserSpec /\ kafkaUser.auth \in Auth
         /\ scenario.time \in Nat /\ scenario.max \in [Event -> Nat]
  <1>1. /\ scenario \in Scenarios /\ edit \in 1 .. Len(scenario.edits)
        /\ scenario.edits \in Seq(UserSpec) /\ scenario.time \in Nat
        /\ scenario.max \in [Event -> Nat]
    BY UserAssumption, Zenon DEF StateTypes
  <1>2. Len(scenario.edits) \in Nat /\ \A i \in 1 .. Len(scenario.edits) : scenario.edits[i] \in UserSpec
    BY <1>1, SMTT(30), Z3T(30)
  <1>3. \A s \in UserSpec : s.auth \in Auth
    BY Zenon DEF UserSpec
  <1> QED
    BY <1>1, <1>2, <1>3, SMTT(30), Z3T(30) DEF kafkaUser

LEMMA Counted ==
  ASSUME StateTypes, NEW e \in Event, Happens(e)
  PROVE  /\ events' \in [Event -> Nat] /\ events'[e] = events[e] + 1
         /\ \A f \in Event \ {e} : events'[f] = events[f]
         /\ events[e] < scenario.max[e]
  BY SMTT(30), Z3T(30) DEF StateTypes, Happens

\* What may be counted keeps its type and never falls.
Counts == events' \in [Event -> Nat] /\ \A e \in Event : events[e] <= events'[e]

LEMMA HappensCounts ==
  ASSUME StateTypes, UNCHANGED events \/ \E e \in Event : Happens(e)
  PROVE  Counts
  BY Counted, SMTT(30), Z3T(30) DEF StateTypes, Counts

\* The pass is over.
Ends == pc' = "idle" /\ pass' = NoPass

LEMMA EndTypes ==
  ASSUME StateTypes, NEW n \in Nat, EndPass(n)
  PROVE  /\ Ends /\ wake' \in Nat /\ wake' <= now + n
         /\ now <= scenario.time => now <= wake'
  BY ScenarioTypes, SMTT(30), Z3T(30) DEF EndPass, Min, MaxTime, StateTypes, Ends

\* A status that no longer says Ready, about the same token.
Withdraws ==
  /\ status' \in Status /\ status'.ready = "False"
  /\ status'.observed \in {status.observed, pass.st.observed}
  /\ status'.tokenId = status.tokenId /\ status'.expiry = status.expiry /\ status'.max = status.max

LEMMA FailedStatus ==
  ASSUME StateTypes, pass \in Pass, NEW reason \in Reason, Failed(reason)
  PROVE  Withdraws
  <1>1. pass.st \in Status /\ status \in Status
    BY Zenon DEF StateTypes, Pass
  <1> QED
    BY <1>1, ZenonT(60) DEF Failed, patch_status, Withdraws, Status

LEMMA Condition ==
  ASSUME StateTypes, NEW reason \in Reason, NEW issued \in BOOLEAN,
         status' = [status EXCEPT !.ready = "False", !.reason = reason, !.issued = issued]
  PROVE  Withdraws
  BY ZenonT(30) DEF StateTypes, Withdraws, Status

LEMMA ReadyCondition ==
  ASSUME StateTypes, NEW reason \in Reason,
         status' = [status EXCEPT !.ready = "False", !.reason = reason]
  PROVE  Withdraws
  BY ZenonT(30) DEF StateTypes, Withdraws, Status

\* The rules of a spec, and its quotas.
LEMMA RuleTypes ==
  ASSUME NEW s \in UserSpec
  PROVE  /\ s.acls # None => expand_spec_acls(s.acls[1], principal_for(s.auth)) \subseteq Entry
         /\ s.quotas # None => s.quotas[1] \in SUBSET STRING
         /\ principal_for(s.auth) \in Name
  <1> DEFINE Rule == [resource : STRING, ops : SUBSET STRING]
  <1>1. s.acls \in Seq(SUBSET Rule) /\ s.quotas \in Seq(SUBSET STRING)
    BY Zenon DEF UserSpec
  <1>2. principal_for(s.auth) \in Name
    BY Zenon DEF principal_for, Name
  <1>3. s.acls # None => s.acls[1] \in SUBSET Rule
    BY <1>1, SMTT(30), Z3T(30) DEF None
  <1>4. s.quotas # None => s.quotas[1] \in SUBSET STRING
    BY <1>1, SMTT(30), Z3T(30) DEF None
  <1>5. \A R \in SUBSET Rule : \A p \in Name : expand_spec_acls(R, p) \subseteq Entry
    BY SMTT(30), Z3T(30) DEF expand_spec_acls, Entry
  <1> QED
    BY <1>2, <1>3, <1>4, <1>5, Zenon

LEMMA PassUpdates ==
  ASSUME NEW p \in Pass
  PROVE  /\ \A x \in Opt(Nat) : [p EXCEPT !.password = x] \in Pass
         /\ \A x \in Nat : [p EXCEPT !.ca = x] \in Pass
         /\ \A x \in Opt(Token) : [p EXCEPT !.token = x] \in Pass
         /\ \A x \in Opt(Token), d \in Decision : [p EXCEPT !.token = x, !.decision = d] \in Pass
         /\ \A x \in BOOLEAN : [p EXCEPT !.published = x] \in Pass
         /\ \A x, y \in Entries : [p EXCEPT !.add = x, !.del = y] \in Pass
  <1>1. \A x \in Opt(Nat) : [p EXCEPT !.password = x] \in Pass
    BY Zenon DEF Pass
  <1>2. \A x \in Nat : [p EXCEPT !.ca = x] \in Pass
    BY Zenon DEF Pass
  <1>3. \A x \in Opt(Token) : [p EXCEPT !.token = x] \in Pass
    BY Zenon DEF Pass
  <1>4. \A x \in Opt(Token), d \in Decision : [p EXCEPT !.token = x, !.decision = d] \in Pass
    BY ZenonT(30) DEF Pass
  <1>5. \A x \in BOOLEAN : [p EXCEPT !.published = x] \in Pass
    BY Zenon DEF Pass
  <1>6. \A x, y \in Entries : [p EXCEPT !.add = x, !.del = y] \in Pass
    BY ZenonT(30) DEF Pass
  <1> QED
    BY <1>1, <1>2, <1>3, <1>4, <1>5, <1>6, ZenonT(30)

\* The types of what a pass under way holds.
LEMMA PassFields ==
  ASSUME Types, pc # "idle"
  PROVE  /\ pass \in Pass /\ pass.gen \in 1 .. edit /\ pass.s = scenario.edits[pass.gen]
         /\ pass.s \in UserSpec /\ pass.s.auth \in Auth /\ pass.s.renewers \in Nat
         /\ pass.st \in Status /\ pass.now \in Nat /\ pass.reason \in Reason
         /\ pass.password \in Opt(Nat) /\ pass.ca \in Nat /\ pass.token \in Opt(Token)
         /\ pass.decision \in Decision /\ pass.published \in BOOLEAN
         /\ Principal \in Name /\ pass.s.auth \in AuthOf
  <1>1. pass \in Pass /\ pass.gen \in 1 .. edit /\ pass.s = scenario.edits[pass.gen]
    BY Zenon DEF Types, PassTypes
  <1>2. /\ pass.s \in UserSpec /\ pass.st \in Status /\ pass.now \in Nat /\ pass.reason \in Reason
        /\ pass.password \in Opt(Nat) /\ pass.ca \in Nat /\ pass.token \in Opt(Token)
        /\ pass.decision \in Decision /\ pass.published \in BOOLEAN
    BY <1>1, Zenon DEF Pass
  <1>3. pass.s.auth \in Auth /\ pass.s.renewers \in Nat
    BY <1>2, Zenon DEF UserSpec
  <1>4. Principal \in Name
    BY Zenon DEF Principal, principal_for, Name
  <1>5. pass.s.auth \in AuthOf
    BY <1>1, Zenon DEF AuthOf
  <1> QED
    BY <1>1, <1>2, <1>3, <1>4, <1>5, Zenon

LEMMA TokenFields ==
  ASSUME NEW t \in Token
  PROVE  t.id \in Nat /\ t.renewers \in Nat /\ t.max \in Nat /\ t.expiry \in Nat
  BY Zenon DEF Token

LEMMA StatusFields ==
  ASSUME NEW s \in Status
  PROVE  /\ s.observed \in Nat /\ s.tokenId \in Opt(Nat) /\ s.expiry \in Nat /\ s.max \in Nat
         /\ s.issued \in BOOLEAN /\ s.ready \in {"none", "True", "False"} /\ s.reason \in Reason
  BY Zenon DEF Status

-----------------------------------------------------------------------------
(* What a step of a pass does *)

\* What a call that grants access may do to the broker, whether or not it is answered.
Fresh == [id |-> next, renewers |-> pass.s.renewers, max |-> now + MaxLife, expiry |-> now + Min(Period, MaxLife)]
RenewedToken == [pass.token[1] EXCEPT !.expiry = Min(now + Period, pass.token[1].max)]
Grant ==
  \/ UNCHANGED brokerVars
  \/ /\ pc = "upsert" /\ scram' = [scram EXCEPT ![pass.s.auth] = pass.password]
     /\ UNCHANGED <<acls, quotas, tokens>>
  \/ /\ pc = "expire" /\ tokens' = {t \in tokens : t.id # pass.token[1].id}
     /\ UNCHANGED <<scram, acls, quotas>>
  \/ /\ pc = "create" /\ tokens' = tokens \cup {Fresh} /\ UNCHANGED <<scram, acls, quotas>>
  \/ /\ pc = "renew" /\ (\E t \in tokens : t.id = pass.token[1].id)
     /\ tokens' = {t \in tokens : t.id # pass.token[1].id} \cup {RenewedToken}
     /\ UNCHANGED <<scram, acls, quotas>>
  \/ pc = "createAcls" /\ acls' = acls \cup pass.add /\ UNCHANGED <<scram, quotas, tokens>>
  \/ pc = "deleteAcls" /\ acls' = acls \ pass.del /\ UNCHANGED <<scram, quotas, tokens>>
  \/ /\ pc = "alterQuotas"
     /\ quotas' = [quotas EXCEPT ![Principal] = (@ \cup pass.add) \ pass.del]
     /\ UNCHANGED <<scram, acls, tokens>>

\* What no step of a pass changes, but for the finalizer.
Rest == UNCHANGED <<scenario, edit, user, now, ca, reissue, up>>

\* The pass ends and the user is not Ready.
Quits ==
  /\ pc \in Granting \cup {"refuse"} /\ Ends /\ Withdraws /\ wake' \in Nat /\ Counts
  /\ Rest /\ UNCHANGED secret /\ next' \in Nat /\ (now <= scenario.time => now <= wake')
  /\ pc = "refuse" => UNCHANGED brokerVars
  /\ events'["abort"] <= events["abort"] \/ events'["abort"] <= scenario.max["abort"]

\* The pass ends and the status says what it said: a call has failed of a user without a
\* token, or the pass was cut short.
Stops ==
  /\ pc # "idle" /\ Ends /\ UNCHANGED <<status, secret, acls, quotas, tokens, next>> /\ Counts /\ Rest
  /\ wake' \in Nat /\ wake' <= now + Backoff /\ (now <= scenario.time => now <= wake')
  /\ \/ pass.s.auth # "token" /\ events'["abort"] = events["abort"]
     \/ events'["abort"] = events["abort"] + 1 /\ events["abort"] < scenario.max["abort"]
  /\ \/ UNCHANGED scram
     \/ pc = "upsert" /\ scram' = [scram EXCEPT ![pass.s.auth] = pass.password]

\* The pass goes on.
Moves ==
  /\ pc \in Granting /\ pc' \in Granting
  /\ pc' \in Scram => pc \in Scram
  /\ pc' \in Tls => pc \in Tls
  /\ pc' \in Delegating => pc \in Delegating
  /\ pc' \in {"pendingAcls", "pendingQuotas"} => pass.s.auth = "token"
  /\ Rest /\ UNCHANGED <<events, wake>>
  /\ pass' \in Pass /\ pass'.gen = pass.gen /\ pass'.s = pass.s /\ pass'.st = pass.st
  /\ pass'.now = pass.now
  /\ status' \in Status /\ secret' \in Opt(Secret) /\ next' \in Nat
  /\ status'.observed = status.observed
  /\ UNCHANGED status \/ status'.ready = "False" \/ patch_token_identity

LEMMA BackoffNat == Backoff \in Nat /\ Period \in Nat /\ MaxLife \in Nat /\ RenewBefore \in Nat
                      /\ MinRequeue \in Nat /\ MaxRequeue \in Nat /\ Drift \in Nat /\ 0 \in Nat
  BY UserAssumption, Zenon

LEMMA RetryEnds ==
  ASSUME StateTypes, Retry
  PROVE  /\ Ends /\ wake' \in Nat /\ wake' <= now + Backoff
         /\ now <= scenario.time => now <= wake'
  BY BackoffNat, EndTypes, Zenon DEF Retry

LEMMA FailureCounts ==
  ASSUME StateTypes, Happens("fail") \/ Happens("lost") \/ Happens("refuse") \/ UNCHANGED events
  PROVE  Counts /\ events'["abort"] = events["abort"]
  BY Counted, HappensCounts, Zenon DEF Event

\* A call about a token or its description that fails.
LEMMA AdminQuits ==
  ASSUME Types, pc \in Granting, Counts, events'["abort"] = events["abort"], Rest, UNCHANGED secret,
         next' \in Nat, NEW reason \in Reason, NEW live \in BOOLEAN, on_admin_error(reason, live)
  PROVE  Quits
  <1>1. StateTypes /\ events'["abort"] <= events["abort"]
    BY ZenonT(30) DEF Types, Counts, Event
  <1>2. Withdraws
    BY <1>1, Condition, ZenonT(30) DEF on_admin_error
  <1>3. Ends /\ wake' \in Nat /\ (now <= scenario.time => now <= wake')
    BY <1>1, RetryEnds, Zenon DEF on_admin_error
  <1>4. pc # "refuse"
    BY Zenon DEF Granting, Scram, Tls, Delegating, Replacing, Access, AclStep, QuotaStep
  <1> QED
    BY <1>1, <1>2, <1>3, <1>4, Zenon DEF Quits

LEMMA RefuseQuits ==
  ASSUME Types, Refuse
  PROVE  Grant /\ Quits
  <1>1. StateTypes /\ pass \in Pass /\ pass.reason \in Reason
    BY PassFields, Zenon DEF Types, Refuse
  <1>2. Withdraws
    BY <1>1, FailedStatus, Zenon DEF Refuse
  <1>3. Ends /\ wake' \in Nat /\ (now <= scenario.time => now <= wake')
    BY <1>1, RetryEnds, Zenon DEF Refuse
  <1>4. Counts /\ events'["abort"] <= events["abort"]
    BY <1>1, FailureCounts, SMTT(30), Z3T(30) DEF Refuse, StateTypes, Event
  <1> QED
    BY <1>1, <1>2, <1>3, <1>4, ZenonT(30) DEF Refuse, Quits, Grant, Rest, StateTypes

\* The conclusion of the lemmas on the steps of a pass that grants access.
Steps == Grant /\ (Quits \/ Stops \/ Moves)

\* The steps that neither a failed call nor another kind of authentication can reach.
LEMMA Advance ==
  ASSUME Types, pc \in Granting, pc' \in Granting, Rest, UNCHANGED <<events, wake, next>>,
         status'.observed = status.observed,
         UNCHANGED status \/ status'.ready = "False" \/ patch_token_identity,
         status' \in Status, secret' \in Opt(Secret),
         pass' \in Pass, pass'.gen = pass.gen, pass'.s = pass.s, pass'.st = pass.st,
         pass'.now = pass.now,
         pc' \in Scram => pc \in Scram, pc' \in Tls => pc \in Tls,
         pc' \in Delegating => pc \in Delegating,
         pc' \in {"pendingAcls", "pendingQuotas"} => pass.s.auth = "token"
  PROVE  Moves
  BY Zenon DEF Types, StateTypes, Moves

LEMMA Kinds ==
  ASSUME NEW l
  PROVE  /\ l \in Scram => l \in Granting /\ l \notin Tls /\ l \notin Delegating /\ l \notin Access
         /\ l \in Tls => l \in Granting /\ l \notin Scram /\ l \notin Delegating /\ l \notin Access
         /\ l \in Delegating => l \in Granting /\ l \notin Scram /\ l \notin Tls /\ l \notin Access
         /\ l \in Access => l \in Granting /\ l \notin Scram /\ l \notin Tls /\ l \notin Delegating
         /\ l \in {"pendingAcls", "pendingQuotas"} => l \in Access
         /\ l \in Granting => /\ l \notin Dropping
                             /\ l # "idle" /\ l # "refuse" /\ l # "finalizer"
  BY Zenon DEF Granting, Scram, Tls, Delegating, Replacing, Access, AclStep, QuotaStep, Dropping

\* The pass moves on and keeps what it knows.
LEMMA GotoAdvance ==
  ASSUME Types, pc \in Granting, NEW l \in Access \ {"pendingAcls", "pendingQuotas"}, Goto(l),
         Rest, UNCHANGED <<events, next, status>>, secret' \in Opt(Secret)
  PROVE  Moves
  <1>1. pass \in Pass /\ status \in Status
    BY Kinds, PassFields, Zenon DEF Types, StateTypes
  <1>2. pc' = l /\ pass' = pass /\ wake' = wake
    BY Zenon DEF Goto
  <1> QED
    BY <1>1, <1>2, Advance, Kinds, ZenonT(30)

LEMMA PasswordSteps ==
  ASSUME Types, read_password \/ write_password
  PROVE  Steps
  <1>1. /\ pc \in Scram /\ pc' \in Scram /\ Rest /\ UNCHANGED <<events, wake, status, brokerVars>>
        /\ status \in Status
    BY Zenon DEF read_password, write_password, Scram, Rest, Types, StateTypes
  <1>2. pass \in Pass /\ next \in Nat /\ secret \in Opt(Secret)
    BY <1>1, Kinds, PassFields, Zenon DEF Types, StateTypes
  <1>3. CASE read_password
    <2>1. PICK x \in Opt(Nat) : pass' = [pass EXCEPT !.password = x]
      <3>1. HasPassword => secret[1].value \in Nat
        BY <1>2, OptTypes, ZenonT(30) DEF HasPassword, Secret
      <3> QED
        BY <1>3, <3>1, SomeTypes, Zenon DEF read_password
    <2>2. /\ pass' \in Pass /\ pass'.gen = pass.gen /\ pass'.s = pass.s /\ pass'.st = pass.st
          /\ pass'.now = pass.now
      BY <1>2, <2>1, PassUpdates, ZenonT(60) DEF Pass
    <2>3. UNCHANGED <<next, secret>>
      BY <1>3, Zenon DEF read_password
    <2> QED
      BY <1>1, <1>2, <2>2, <2>3, Kinds, Advance, Zenon DEF Steps, Grant
  <1>4. CASE write_password
    <2>1. pass' = [pass EXCEPT !.password = Some(next)] /\ next' = next + 1
      BY <1>4, Zenon DEF write_password
    <2> Some(next) \in Opt(Nat) /\ next' \in Nat
      BY <1>2, <2>1, SomeTypes, SMTT(30), Z3T(30)
    <2>2. /\ pass' \in Pass /\ pass'.gen = pass.gen /\ pass'.s = pass.s /\ pass'.st = pass.st
          /\ pass'.now = pass.now
      BY <1>2, <2>1, PassUpdates, ZenonT(60) DEF Pass
    <2>3. secret' \in Opt(Secret)
      BY <1>2, <1>4, SomeTypes, ZenonT(30) DEF write_password, Secret
    <2> QED
      BY <1>1, <2>2, <2>3, Kinds, Zenon DEF Steps, Grant, Moves
  <1> QED
    BY <1>3, <1>4, Zenon

LEMMA UpsertSteps ==
  ASSUME Types, Places, alter_user_scram_credentials
  PROVE  Steps
  <1>1. /\ pc = "upsert" /\ pc \in Granting /\ pc # "refuse" /\ pc # "idle" /\ StateTypes
        /\ Rest /\ UNCHANGED <<secret, next>> /\ next \in Nat /\ secret \in Opt(Secret)
    BY Zenon DEF alter_user_scram_credentials, Granting, Scram, Rest, Types, StateTypes
  <1>2. pass \in Pass /\ pass.s.auth # "token"
    BY <1>1, PassFields, ZenonT(30) DEF Places, Scram, Mechanism
  <1>3. Grant /\ UNCHANGED <<acls, quotas, tokens>>
    BY <1>1, Zenon DEF alter_user_scram_credentials, Call, Grant, brokerVars
  <1>4. /\ Happens("lost") \/ Happens("fail") \/ Happens("refuse") \/ UNCHANGED events
        /\ \/ Goto("acls") /\ UNCHANGED <<status, events>>
           \/ Silent
           \/ Failed("BrokerError") /\ Retry
        /\ UNCHANGED scram \/ scram' = [scram EXCEPT ![pass.s.auth] = pass.password]
    BY Zenon DEF alter_user_scram_credentials, Call, brokerVars
  <1>5. Counts /\ events'["abort"] = events["abort"] /\ events["abort"] \in Nat
    BY <1>1, <1>4, FailureCounts, Zenon DEF StateTypes, Event
  <1>6. CASE Goto("acls") /\ UNCHANGED <<status, events>>
    BY <1>1, <1>3, <1>6, GotoAdvance, ZenonT(30) DEF Steps, Access
  <1>7. CASE Silent
    BY <1>1, <1>2, <1>3, <1>4, <1>5, <1>7, RetryEnds, Zenon DEF Silent, Stops, Steps
  <1>8. CASE Failed("BrokerError") /\ Retry
    <2>1. Withdraws
      BY <1>1, <1>2, <1>8, FailedStatus, Zenon DEF Reason
    <2> QED
      BY <1>1, <1>3, <1>5, <1>8, <2>1, RetryEnds, SMTT(30), Z3T(30) DEF Quits, Steps
  <1> QED
    BY <1>4, <1>6, <1>7, <1>8, Zenon

LEMMA CertificateSteps ==
  ASSUME Types, load_ca \/ reconcile_user_cert_secret
  PROVE  Steps
  <1>1. /\ pc \in Tls /\ Rest /\ UNCHANGED <<events, wake, status, brokerVars, next>>
        /\ status \in Status /\ ca \in Nat /\ secret \in Opt(Secret) /\ pc' \in {"cert", "acls"}
    BY Zenon DEF load_ca, reconcile_user_cert_secret, Goto, Tls, Rest, Types, StateTypes
  <1>2. pass \in Pass /\ pass.ca \in Nat
    BY <1>1, Kinds, PassFields, Zenon
  <1>3. /\ pass' \in Pass /\ pass'.gen = pass.gen /\ pass'.s = pass.s /\ pass'.st = pass.st
        /\ pass'.now = pass.now
    <2>1. CASE load_ca
      BY <1>1, <1>2, <2>1, PassUpdates, ZenonT(60) DEF Pass, load_ca
    <2>2. CASE reconcile_user_cert_secret
      BY <1>2, <2>2, Zenon DEF reconcile_user_cert_secret, Goto
    <2> QED
      BY <2>1, <2>2, ZenonT(30)
  <1>4. secret' \in Opt(Secret)
    BY <1>1, <1>2, SomeTypes, ZenonT(30) DEF load_ca, reconcile_user_cert_secret, ensure_user_cert_secret, Secret
  <1>5. pc' \in {"cert", "acls"} /\ pc' \in Granting /\ (pc' \in Scram \cup Delegating => FALSE)
    BY <1>1, Zenon DEF Granting, Scram, Tls, Delegating, Replacing, Access
  <1> QED
    BY <1>1, <1>3, <1>4, <1>5, Kinds, Advance, Zenon DEF Steps, Grant

LEMMA Matching ==
  ASSUME tokens \subseteq Token, \A t, u \in tokens : t = u
  PROVE  \/ tokens = {} /\ matching = None
         \/ \E t \in tokens : tokens = {t} /\ matching = Some(t)
  <1>1. CASE tokens = {}
    BY <1>1, Zenon DEF matching
  <1>2. CASE tokens # {}
    <2>1. PICK t \in tokens : tokens = {t}
      BY <1>2, Zenon
    <2> DEFINE preferred == {u \in tokens : pass.st.tokenId = Some(u.id)}
               from == IF preferred # {} THEN preferred ELSE tokens
    <2>2. from = {t}
      BY <2>1, Zenon
    <2>3. matching = Some(CHOOSE u \in from : \A o \in from : u.id <= o.id)
      BY <2>2, Zenon DEF matching
    <2>4. t.id \in Nat
      BY TokenFields, Zenon
    <2> HIDE DEF from
    <2>5. (CHOOSE u \in from : \A o \in from : u.id <= o.id) = t
      BY <2>2, <2>4, SMTT(30), Z3T(30)
    <2> QED
      BY <2>1, <2>3, <2>5, ZenonT(30)
  <1> QED
    BY <1>1, <1>2, Zenon

LEMMA Decides ==
  ASSUME NEW s, NEW t
  PROVE  /\ decide(s, None) = "Create" /\ decide(s, Some(t)) \in {"Cycle", "Renew", "NoOp"}
         /\ decide(s, Some(t)) = "Renew" => t.expiry - pass.now <= RenewBefore
         /\ decide(s, Some(t)) = "NoOp" => ~(t.expiry - pass.now <= RenewBefore)
  BY SomeTypes, Zenon DEF decide, None, Some

LEMMA DescribeSteps ==
  ASSUME Types, Tokens, describe_delegation_tokens
  PROVE  Steps
  <1>1. /\ pc = "describe" /\ pc \in Delegating /\ StateTypes
        /\ Rest /\ UNCHANGED <<secret, next, brokerVars>> /\ next \in Nat /\ secret \in Opt(Secret)
        /\ status \in Status /\ tokens \subseteq Token
    BY Zenon DEF describe_delegation_tokens, Delegating, Rest, Types, StateTypes
  <1>2. pass \in Pass /\ pass.st \in Status /\ pc \in Granting
    BY <1>1, Kinds, PassFields, Zenon
  <1>3. CASE Happens("fail") \/ Happens("refuse")
    <2>1. Counts /\ events'["abort"] = events["abort"]
      BY <1>1, <1>3, FailureCounts, Zenon
    <2>2. (pass.st.tokenId # None /\ pass.st.issued) \in BOOLEAN
      BY ZenonT(30)
    <2>3. CASE on_admin_error("Transport", pass.st.tokenId # None /\ pass.st.issued)
      BY <1>1, <1>2, <2>1, <2>2, <2>3, AdminQuits, ZenonT(30) DEF Steps, Grant, Reason
    <2>4. CASE on_admin_error("BrokerError", pass.st.tokenId # None /\ pass.st.issued)
      BY <1>1, <1>2, <2>1, <2>2, <2>4, AdminQuits, ZenonT(30) DEF Steps, Grant, Reason
    <2>5. CASE UNCHANGED events
      BY <1>1, <1>3, <2>5, Counted, SMTT(30), Z3T(30) DEF StateTypes, Event
    <2> QED
      BY <2>3, <2>4, <2>5, Zenon DEF describe_delegation_tokens
  <1>4. CASE ~(Happens("fail") \/ Happens("refuse"))
    <2> DEFINE d == decide(pass.s, matching)
    <2>1. matching \in Opt(Token) /\ d \in Decision
      <3>1. \/ matching = None
            \/ \E t \in Token : matching = Some(t)
        BY <1>1, Matching, Zenon DEF Tokens
      <3>2. matching \in Opt(Token)
        BY <3>1, Zenon DEF Opt
      <3>3. d \in Decision
        BY <3>1, Decides, Zenon DEF Decision
      <3> QED
        BY <3>2, <3>3, Zenon
    <2>2. /\ pass' = [pass EXCEPT !.token = matching, !.decision = d]
          /\ UNCHANGED <<events, status, wake>>
      BY <1>4, Zenon DEF describe_delegation_tokens
    <2>3. pc' \in {"pending", "renew", "check"}
      BY <1>4, <2>1, Zenon DEF describe_delegation_tokens, Decision
    <2>4. pc' \in Delegating
      BY <2>3, ZenonT(30) DEF Delegating, Replacing
    <2> HIDE DEF d
    <2>5. /\ pass' \in Pass /\ pass'.gen = pass.gen /\ pass'.s = pass.s /\ pass'.st = pass.st
          /\ pass'.now = pass.now
      BY <1>2, <2>1, <2>2, PassUpdates, ZenonT(60) DEF Pass
    <2> QED
      BY <1>1, <1>2, <2>2, <2>4, <2>5, Kinds, Advance, Zenon DEF Steps, Grant
  <1> QED
    BY <1>3, <1>4, Zenon

LEMMA PublishSteps ==
  ASSUME Types, publish_token_pending \/ ensure_token_access_pending
  PROVE  Steps
  <1>1. /\ pc \in {"pending", "check", "pendingAcls", "pendingQuotas"} /\ StateTypes /\ Rest
        /\ UNCHANGED <<events, wake, secret, next, brokerVars>>
        /\ secret \in Opt(Secret) /\ status \in Status
    BY Zenon DEF publish_token_pending, ensure_token_access_pending, Rest, Types, StateTypes
  <1>2. pc \in Granting
    BY <1>1, Zenon DEF Granting, Delegating, Replacing, Access, AclStep, QuotaStep
  <1>3. pass \in Pass /\ pass.published \in BOOLEAN
    BY <1>2, Kinds, PassFields, Zenon
  <1>4. /\ status' \in Status /\ status'.observed = status.observed
        /\ UNCHANGED status \/ status'.ready = "False"
    <2>1. CASE UNCHANGED status
      BY <1>1, <2>1, Zenon
    <2>2. CASE status' # status
      <3>1. PICK reason \in Reason, issued \in BOOLEAN :
              status' = [status EXCEPT !.ready = "False", !.reason = reason, !.issued = issued]
        BY <2>2, ZenonT(30) DEF publish_token_pending, ensure_token_access_pending, Reason
      <3> QED
        BY <1>1, <3>1, Condition, ZenonT(30) DEF Withdraws, Status
    <2> QED
      BY <2>1, <2>2, Zenon
  <1>5. PICK x \in BOOLEAN : pass' = [pass EXCEPT !.published = x]
    BY <1>3, ZenonT(30) DEF publish_token_pending, ensure_token_access_pending
  <1>6. /\ pass' \in Pass /\ pass'.gen = pass.gen /\ pass'.s = pass.s /\ pass'.st = pass.st
        /\ pass'.now = pass.now
    BY <1>3, <1>5, PassUpdates, ZenonT(60) DEF Pass
  <1>7. /\ pc' \in {"identity", "expire", "create", "createAcls", "alterQuotas"}
        /\ pc' \in {"identity", "expire", "create"} => pc \in {"pending", "check"}
    BY Zenon DEF publish_token_pending, ensure_token_access_pending
  <1>8. /\ pc' \in Granting /\ pc' \notin Scram /\ pc' \notin Tls
        /\ pc' \notin {"pendingAcls", "pendingQuotas"} /\ (pc' \in Delegating => pc \in Delegating)
    BY <1>7, Zenon DEF Granting, Scram, Tls, Delegating, Replacing, Access, AclStep, QuotaStep
  <1> QED
    BY <1>1, <1>2, <1>4, <1>6, <1>8, Advance, Zenon DEF Steps, Grant

LEMMA ExpireSteps ==
  ASSUME Types, expire_delegation_token
  PROVE  Steps
  <1>1. /\ pc = "expire" /\ pc \in Delegating /\ StateTypes
        /\ Rest /\ UNCHANGED <<secret, next>> /\ next \in Nat /\ secret \in Opt(Secret)
        /\ status \in Status
    BY Zenon DEF expire_delegation_token, Delegating, Replacing, Rest, Types, StateTypes
  <1>2. pass \in Pass /\ pc \in Granting /\ pc # "idle"
    BY <1>1, Kinds, PassFields, Zenon
  <1>3. Grant
    BY <1>1, ZenonT(30) DEF expire_delegation_token, TokenCall, Call, Grant, brokerVars
  <1>4. /\ Happens("lost") \/ Happens("fail") \/ Happens("refuse") \/ UNCHANGED events
        /\ \/ Goto("create") /\ UNCHANGED <<status, events>>
           \/ \E reason \in Reason : on_admin_error(reason, TRUE)
    BY ZenonT(30) DEF expire_delegation_token, TokenCall, Call, Reason
  <1>5. Counts /\ events'["abort"] = events["abort"]
    BY <1>1, <1>4, FailureCounts, Zenon
  <1>6. CASE Goto("create") /\ UNCHANGED <<status, events>>
    <2>1. pc' = "create" /\ pass' = pass /\ wake' = wake
      BY <1>6, Zenon DEF Goto
    <2>2. pc' \in Delegating
      BY <2>1, Zenon DEF Delegating, Replacing
    <2> QED
      BY <1>1, <1>2, <1>3, <1>6, <2>1, <2>2, Kinds, Advance, Zenon DEF Steps
  <1>7. CASE \E reason \in Reason : on_admin_error(reason, TRUE)
    BY <1>1, <1>2, <1>3, <1>5, <1>7, AdminQuits, ZenonT(30) DEF Steps
  <1> QED
    BY <1>4, <1>6, <1>7, ZenonT(30)

\* The next identifier, and a pass that has another token.
LEMMA TokenAdvance ==
  ASSUME Types, pc \in Delegating, pc' = "check", Rest, UNCHANGED <<events, wake, status, secret>>,
         next' \in Nat, NEW t \in Token, pass' = [pass EXCEPT !.token = Some(t)]
  PROVE  Moves
  <1>1. /\ pass \in Pass /\ status \in Status /\ secret \in Opt(Secret) /\ pc \in Granting
        /\ Some(t) \in Opt(Token)
    BY Kinds, PassFields, SomeTypes, Zenon DEF Types, StateTypes
  <1>2. /\ pass' \in Pass /\ pass'.gen = pass.gen /\ pass'.s = pass.s /\ pass'.st = pass.st
        /\ pass'.now = pass.now
    BY <1>1, PassUpdates, ZenonT(60) DEF Pass
  <1>3. pc' \in Delegating
    BY Zenon DEF Delegating
  <1> QED
    BY <1>1, <1>2, <1>3, Kinds, Zenon DEF Moves

LEMMA FreshTypes ==
  ASSUME Types, pc # "idle"
  PROVE  /\ Fresh \in Token /\ Fresh.expiry = now + Min(Period, MaxLife) /\ Fresh.max = now + MaxLife
         /\ Fresh.id = next /\ Fresh.expiry <= Fresh.max /\ now < Fresh.expiry
         /\ Fresh.expiry <= now + Period /\ Fresh.expiry \in {now + Period, Fresh.max}
  <1>1. next \in Nat /\ now \in Nat /\ pass.s.renewers \in Nat
    BY PassFields, Zenon DEF Types, StateTypes
  <1>2. Period \in Nat \ {0} /\ MaxLife \in Nat \ {0}
    BY UserAssumption, Zenon
  <1> QED
    BY <1>1, <1>2, SMTT(30), Z3T(30) DEF Fresh, Token, Min

LEMMA IssueSteps ==
  ASSUME Types, issue_new_token
  PROVE  Steps
  <1>1. /\ pc = "create" /\ pc \in Delegating /\ StateTypes /\ Rest /\ UNCHANGED secret
        /\ next \in Nat /\ next' \in Nat /\ secret \in Opt(Secret) /\ status \in Status
    BY SMTT(30), Z3T(30) DEF issue_new_token, Delegating, Replacing, Rest, Types, StateTypes
  <1>2. pass \in Pass /\ pc \in Granting /\ Fresh \in Token
    BY <1>1, Kinds, PassFields, FreshTypes, Zenon
  <1>3. Grant
    BY <1>1, ZenonT(30) DEF issue_new_token, Call, Grant, brokerVars, Fresh
  <1>4. /\ Happens("lost") \/ Happens("fail") \/ Happens("refuse") \/ UNCHANGED events
        /\ \/ /\ pass' = [pass EXCEPT !.token = Some(Fresh)] /\ pc' = "check"
              /\ UNCHANGED <<events, status, wake>>
           \/ \E reason \in Reason : on_admin_error(reason, FALSE)
    BY ZenonT(30) DEF issue_new_token, Call, Reason, Fresh
  <1>5. Counts /\ events'["abort"] = events["abort"]
    BY <1>1, <1>4, FailureCounts, Zenon
  <1>6. CASE pass' = [pass EXCEPT !.token = Some(Fresh)] /\ pc' = "check" /\ UNCHANGED <<events, status, wake>>
    BY <1>1, <1>2, <1>3, <1>6, TokenAdvance, Zenon DEF Steps
  <1>7. CASE \E reason \in Reason : on_admin_error(reason, FALSE)
    BY <1>1, <1>2, <1>3, <1>5, <1>7, AdminQuits, ZenonT(30) DEF Steps
  <1> QED
    BY <1>4, <1>6, <1>7, ZenonT(30)

LEMMA RenewedTypes ==
  ASSUME Types, pc # "idle", pass.token # None
  PROVE  /\ pass.token[1] \in Token /\ RenewedToken \in Token
         /\ RenewedToken.id = pass.token[1].id /\ RenewedToken.max = pass.token[1].max
         /\ RenewedToken.expiry \in {now + Period, pass.token[1].max}
         /\ RenewedToken.expiry <= RenewedToken.max /\ RenewedToken.expiry <= now + Period
  <1>1. pass.token[1] \in Token /\ now \in Nat
    BY PassFields, OptTypes, Zenon DEF Types, StateTypes
  <1>2. Period \in Nat
    BY UserAssumption, Zenon
  <1> QED
    BY <1>1, <1>2, SMTT(30), Z3T(30) DEF RenewedToken, Token, Min

LEMMA RenewSteps ==
  ASSUME Types, Tokens, renew_delegation_token
  PROVE  Steps
  <1>1. /\ pc = "renew" /\ pc \in Delegating /\ StateTypes /\ Rest /\ UNCHANGED <<secret, next>>
        /\ next \in Nat /\ secret \in Opt(Secret) /\ status \in Status
    BY ZenonT(30) DEF renew_delegation_token, Delegating, Rest, Types, StateTypes
  <1>2. pass \in Pass /\ pc \in Granting /\ RenewedToken \in Token
    BY <1>1, Kinds, PassFields, RenewedTypes, Zenon DEF Tokens, Knowing
  <1>3. Grant
    BY <1>1, ZenonT(30) DEF renew_delegation_token, TokenCall, Call, Grant, brokerVars, RenewedToken
  <1>4. /\ Happens("lost") \/ Happens("fail") \/ Happens("refuse") \/ UNCHANGED events
        /\ \/ /\ pass' = [pass EXCEPT !.token = Some(RenewedToken)] /\ pc' = "check"
              /\ UNCHANGED <<events, status, wake>>
           \/ \E reason \in Reason : on_admin_error(reason, TRUE)
    BY ZenonT(30) DEF renew_delegation_token, TokenCall, Call, Reason, RenewedToken
  <1>5. Counts /\ events'["abort"] = events["abort"]
    BY <1>1, <1>4, FailureCounts, Zenon
  <1>6. CASE pass' = [pass EXCEPT !.token = Some(RenewedToken)] /\ pc' = "check" /\ UNCHANGED <<events, status, wake>>
    BY <1>1, <1>2, <1>3, <1>6, TokenAdvance, Zenon DEF Steps
  <1>7. CASE \E reason \in Reason : on_admin_error(reason, TRUE)
    BY <1>1, <1>2, <1>3, <1>5, <1>7, AdminQuits, ZenonT(30) DEF Steps
  <1> QED
    BY <1>4, <1>6, <1>7, ZenonT(30)

LEMMA FileSteps ==
  ASSUME Types, Tokens, patch_token_identity \/ write_token_secret
  PROVE  Steps
  <1>1. /\ pc \in {"identity", "writeToken"} /\ pc \in Delegating /\ StateTypes /\ Rest
        /\ UNCHANGED <<next, brokerVars>> /\ next \in Nat /\ secret \in Opt(Secret) /\ status \in Status
    BY Zenon DEF patch_token_identity, write_token_secret, Delegating, Rest, Types, StateTypes
  <1>2. pass \in Pass /\ pc \in Granting /\ pc # "idle" /\ pc # "refuse" /\ pass.token # None
    BY <1>1, Kinds, PassFields, ZenonT(30) DEF Tokens, Knowing
  <1>3. /\ pass.token[1] \in Token /\ pass.token[1].id \in Nat /\ pass.token[1].expiry \in Nat
        /\ pass.token[1].max \in Nat /\ Some(pass.token[1].id) \in Opt(Nat)
    BY <1>2, PassFields, OptTypes, TokenFields, SomeTypes, Zenon
  <1>4. CASE patch_token_identity
    <2>1. /\ pc = "identity" /\ pc' = "writeToken" /\ pass' = pass /\ wake' = wake
          /\ UNCHANGED <<events, secret>>
      BY <1>4, Zenon DEF patch_token_identity, Goto
    <2>2. pc' \in Delegating
      BY <2>1, Zenon DEF Delegating
    <2>3. status' \in Status /\ status'.observed = status.observed
      BY <1>1, <1>3, <1>4, ZenonT(60) DEF patch_token_identity, Status
    <2> QED
      BY <1>1, <1>2, <1>4, <2>1, <2>2, <2>3, Kinds, Advance, Zenon DEF Steps, Grant
  <1>5. CASE write_token_secret /\ Goto("acls") /\ UNCHANGED <<status, events>>
    <2>1. pc' = "acls" /\ pass' = pass /\ wake' = wake
      BY <1>5, Zenon DEF Goto
    <2>2. secret' \in Opt(Secret)
      <3>1. [kind |-> "token", value |-> pass.token[1].id, aging |-> FALSE] \in Secret
        BY <1>3, Zenon DEF Secret
      <3>2. \/ secret' = Some([kind |-> "token", value |-> pass.token[1].id, aging |-> FALSE])
            \/ secret' = secret
        BY <1>5, Zenon DEF write_token_secret
      <3> QED
        BY <1>1, <3>1, <3>2, SomeTypes, Zenon
    <2> QED
      BY <1>1, <1>2, <1>5, <2>2, GotoAdvance, Zenon DEF Steps, Grant, Access
  <1>6. CASE /\ Happens("abort") /\ UNCHANGED secret /\ Retry
             /\ status' = [status EXCEPT !.ready = "False", !.reason = "SecretWriteFailed"]
    <2>1. Withdraws
      BY <1>1, <1>6, ReadyCondition, Zenon DEF Reason
    <2>2. Counts /\ events'["abort"] <= scenario.max["abort"]
      <3>1. scenario.max["abort"] \in Nat /\ events["abort"] \in Nat
        BY <1>1, ScenarioTypes, ZenonT(30) DEF StateTypes, Event
      <3>2. Counts /\ events'["abort"] = events["abort"] + 1 /\ events["abort"] < scenario.max["abort"]
        BY <1>1, <1>6, Counted, HappensCounts, Zenon DEF Event
      <3> QED
        BY <3>1, <3>2, SMTT(30), Z3T(30)
    <2> QED
      BY <1>1, <1>2, <1>6, <2>1, <2>2, RetryEnds, ZenonT(30) DEF Quits, Steps, Grant
  <1> QED
    BY <1>4, <1>5, <1>6, Zenon DEF write_token_secret

\* A call for ACLs or quotas that failed, or whose answer was lost.
LEMMA AccessQuits ==
  ASSUME Types, pc \in Granting, Counts, events'["abort"] = events["abort"], Rest,
         UNCHANGED <<secret, next>>, NEW reason \in Reason, user_access_broker_error(reason)
  PROVE  Quits
  <1>1. /\ StateTypes /\ events'["abort"] <= events["abort"] /\ next' \in Nat
        /\ pass \in Pass /\ pc # "refuse"
    BY Kinds, PassFields, ZenonT(30) DEF Types, StateTypes, Counts, Event
  <1>2. Withdraws
    <2>1. CASE IsToken
      BY <1>1, <2>1, Condition, ZenonT(30) DEF user_access_broker_error
    <2>2. CASE ~IsToken
      BY <1>1, <2>2, FailedStatus, Zenon DEF user_access_broker_error, Reason
    <2> QED
      BY <2>1, <2>2, Zenon
  <1>3. Ends /\ wake' \in Nat /\ (now <= scenario.time => now <= wake')
    BY <1>1, RetryEnds, Zenon DEF user_access_broker_error
  <1> QED
    BY <1>1, <1>2, <1>3, ZenonT(30) DEF Quits

\* The differences that a description finds.
LEMMA DiffAdvance ==
  ASSUME Types, pc \in Access, Rest, UNCHANGED <<events, status, wake, secret, next>>,
         NEW a \in Entries, NEW d \in Entries, pass' = [pass EXCEPT !.add = a, !.del = d],
         pc' \in Access, pc' \in {"pendingAcls", "pendingQuotas"} => IsToken
  PROVE  Moves
  <1>1. pass \in Pass /\ status \in Status /\ secret \in Opt(Secret) /\ pc \in Granting
    BY Kinds, PassFields, ZenonT(30) DEF Types, StateTypes
  <1>2. /\ pass' \in Pass /\ pass'.gen = pass.gen /\ pass'.s = pass.s /\ pass'.st = pass.st
        /\ pass'.now = pass.now
    BY <1>1, PassUpdates, ZenonT(60) DEF Pass
  <1> QED
    BY <1>1, <1>2, Kinds, Advance, Zenon DEF IsToken

LEMMA DescribedFails ==
  ASSUME Types, pc \in Access, Rest, UNCHANGED <<secret, next, brokerVars>>,
         Happens("fail") \/ Happens("refuse"),
         IF IsToken THEN \E reason \in Reason : user_access_broker_error(reason) ELSE Silent
  PROVE  Steps
  <1>1. StateTypes /\ pc # "idle" /\ pc \in Granting
    BY Kinds, Zenon DEF Types
  <1>2. Counts /\ events'["abort"] = events["abort"] /\ events["abort"] \in Nat
    BY <1>1, FailureCounts, Zenon DEF StateTypes, Event
  <1>3. CASE IsToken
    BY <1>1, <1>2, <1>3, AccessQuits, ZenonT(30) DEF Steps, Grant
  <1>4. CASE ~IsToken
    BY <1>1, <1>2, <1>4, RetryEnds, ZenonT(30) DEF Silent, Stops, Steps, Grant, IsToken, brokerVars
  <1> QED
    BY <1>3, <1>4, Zenon

\* What a description of the ACLs does.
Differs(add, del, pending, then, otherwise) ==
  /\ pass' = [pass EXCEPT !.add = add, !.del = del]
  /\ pc' = IF add = {} /\ del = {} THEN otherwise
           ELSE IF IsToken /\ ~pass.published THEN pending ELSE then
  /\ UNCHANGED <<events, status, wake>>

Fails ==
  /\ Happens("fail") \/ Happens("refuse")
  /\ IF IsToken THEN \E reason \in Reason : user_access_broker_error(reason) ELSE Silent

LEMMA DiffEmpty ==
  ASSUME NEW a, NEW b
  PROVE  /\ diff_acls(a, b).add = b \ a /\ diff_acls(a, b).del = a \ b
         /\ diff_acls(a, b) = diff_acls({}, {}) <=> (b \ a = {} /\ a \ b = {})
  BY Zenon DEF diff_acls

LEMMA DescribedCases ==
  ASSUME NEW a, NEW b, NEW pending, NEW then, NEW otherwise,
         Described(AfterDiff(diff_acls(a, b), pending, then, otherwise))
  PROVE  Differs(b \ a, a \ b, pending, then, otherwise) \/ Fails
  <1>1. CASE AfterDiff(diff_acls(a, b), pending, then, otherwise) /\ UNCHANGED <<events, status, wake>>
    BY <1>1, DiffEmpty, ZenonT(30) DEF AfterDiff, Differs
  <1>2. CASE Happens("fail") /\ IF IsToken THEN user_access_broker_error("Transport") ELSE Silent
    BY <1>2, Zenon DEF Fails, Reason
  <1>3. CASE Happens("refuse") /\ IF IsToken THEN user_access_broker_error("BrokerError") ELSE Silent
    BY <1>3, Zenon DEF Fails, Reason
  <1> QED
    BY <1>1, <1>2, <1>3, Zenon DEF Described

LEMMA DescribeAclsCases ==
  ASSUME describe_acls
  PROVE  /\ pc = "acls" /\ Rest /\ UNCHANGED <<secret, next, brokerVars>>
         /\ \/ pass.s.acls = None /\ Goto("quotas") /\ UNCHANGED <<events, status>>
            \/ /\ pass.s.acls # None
               /\ \/ Differs(Asked(pass.s) \ Held(pass.s), Held(pass.s) \ Asked(pass.s),
                             "pendingAcls", "createAcls", "quotas")
                  \/ Fails
  <1>1. pc = "acls" /\ Rest /\ UNCHANGED <<secret, next, brokerVars>>
    BY ZenonT(30) DEF describe_acls, Rest
  <1>2. CASE pass.s.acls = None
    BY <1>1, <1>2, Zenon DEF describe_acls
  <1>3. CASE pass.s.acls # None
    <2>1. Described(AfterDiff(diff_acls({a \in acls : a.principal = Principal},
                                        expand_spec_acls(pass.s.acls[1], Principal)),
                              "pendingAcls", "createAcls", "quotas"))
      BY <1>3, Zenon DEF describe_acls
    <2>2. Described(AfterDiff(diff_acls(Held(pass.s), Asked(pass.s)),
                              "pendingAcls", "createAcls", "quotas"))
      BY <2>1, Zenon DEF Held, Asked, Principal
    <2> QED
      BY <1>1, <1>3, <2>2, DescribedCases, Zenon
  <1> QED
    BY <1>2, <1>3, Zenon

LEMMA DescribeQuotasCases ==
  ASSUME describe_user_quotas
  PROVE  /\ pc = "quotas" /\ Rest /\ UNCHANGED <<secret, next, brokerVars>>
         /\ \/ pass.s.quotas = None /\ Goto("report") /\ UNCHANGED <<events, status>>
            \/ /\ pass.s.quotas # None
               /\ \/ Differs(pass.s.quotas[1] \ quotas[Principal], quotas[Principal] \ pass.s.quotas[1],
                             "pendingQuotas", "alterQuotas", "report")
                  \/ Fails
  <1>1. pc = "quotas" /\ Rest /\ UNCHANGED <<secret, next, brokerVars>>
    BY Zenon DEF describe_user_quotas, Rest
  <1>2. CASE pass.s.quotas = None
    BY <1>1, <1>2, Zenon DEF describe_user_quotas
  <1>3. CASE pass.s.quotas # None
    <2>1. Described(AfterDiff(diff_acls(quotas[Principal], pass.s.quotas[1]),
                              "pendingQuotas", "alterQuotas", "report"))
      BY <1>3, Zenon DEF describe_user_quotas
    <2> QED
      BY <1>1, <1>3, <2>1, DescribedCases, Zenon
  <1> QED
    BY <1>2, <1>3, ZenonT(30)

LEMMA DescribeAccessSteps ==
  ASSUME Types, describe_acls \/ describe_user_quotas
  PROVE  Steps
  <1>1. /\ pc \in {"acls", "quotas"} /\ Rest /\ UNCHANGED <<secret, next, brokerVars>>
    BY DescribeAclsCases, DescribeQuotasCases, Zenon
  <1>2. pc \in Access /\ pc \in Granting /\ pc # "idle"
    BY <1>1, Kinds, ZenonT(30) DEF Access
  <1>3. /\ pass.s \in UserSpec /\ acls \subseteq Entry /\ quotas[Principal] \subseteq STRING
        /\ secret \in Opt(Secret)
    BY <1>2, PassFields, Zenon DEF Types, StateTypes
  <1>4. pass.s.acls # None => Asked(pass.s) \in Entries /\ Held(pass.s) \in Entries
    BY <1>3, RuleTypes, ZenonT(30) DEF Asked, Held, Entries
  <1>5. pass.s.quotas # None => pass.s.quotas[1] \in Entries /\ quotas[Principal] \in Entries
    BY <1>3, RuleTypes, Zenon DEF Entries
  <1>6. \A a, b \in Entries : a \ b \in Entries
    BY ZenonT(30) DEF Entries
  <1>7. CASE Goto("quotas") /\ UNCHANGED <<events, status>>
    BY <1>1, <1>2, <1>3, <1>7, GotoAdvance, ZenonT(30) DEF Steps, Grant, Access
  <1>8. CASE Goto("report") /\ UNCHANGED <<events, status>>
    BY <1>1, <1>2, <1>3, <1>8, GotoAdvance, Zenon DEF Steps, Grant, Access
  <1>9. CASE Fails
    BY <1>1, <1>2, <1>9, DescribedFails, ZenonT(30) DEF Fails
  <1>10. ASSUME NEW a \in Entries, NEW d \in Entries,
                NEW p \in {"pendingAcls", "pendingQuotas"},
                NEW t \in {"createAcls", "alterQuotas"}, NEW o \in {"quotas", "report"},
                Differs(a, d, p, t, o)
         PROVE  Steps
    <2>1. /\ pc' \in {p, t, o} /\ (pc' \in {"pendingAcls", "pendingQuotas"} => IsToken)
          /\ pass' = [pass EXCEPT !.add = a, !.del = d] /\ UNCHANGED <<events, status, wake>>
      BY <1>10, Zenon DEF Differs
    <2>2. pc' \in Access
      BY <1>10, <2>1, Zenon DEF Access, AclStep, QuotaStep
    <2> QED
      BY <1>1, <1>2, <2>1, <2>2, DiffAdvance, ZenonT(30) DEF Steps, Grant
  <1>11. CASE describe_acls
    <2>1. CASE /\ pass.s.acls # None
               /\ Differs(Asked(pass.s) \ Held(pass.s), Held(pass.s) \ Asked(pass.s),
                          "pendingAcls", "createAcls", "quotas")
      <3>1. Asked(pass.s) \ Held(pass.s) \in Entries /\ Held(pass.s) \ Asked(pass.s) \in Entries
        BY <1>4, <1>6, <2>1, Zenon
      <3> QED
        BY <1>10, <2>1, <3>1, Zenon
    <2> QED
      BY <1>7, <1>9, <1>11, <2>1, DescribeAclsCases, Zenon
  <1>12. CASE describe_user_quotas
    <2>1. CASE /\ pass.s.quotas # None
               /\ Differs(pass.s.quotas[1] \ quotas[Principal], quotas[Principal] \ pass.s.quotas[1],
                          "pendingQuotas", "alterQuotas", "report")
      <3>1. /\ pass.s.quotas[1] \ quotas[Principal] \in Entries
            /\ quotas[Principal] \ pass.s.quotas[1] \in Entries
        BY <1>5, <1>6, <2>1, Zenon
      <3> QED
        BY <1>10, <2>1, <3>1, Zenon
    <2> QED
      BY <1>8, <1>9, <1>12, <2>1, DescribeQuotasCases, Zenon
  <1> QED
    BY <1>11, <1>12, Zenon

\* What a call that changes the ACLs or the quotas does, whatever becomes of it.
Answers(then) ==
  \/ Goto(then) /\ UNCHANGED <<status, events>>
  \/ /\ Happens("lost") \/ Happens("fail") \/ Happens("refuse")
     /\ \E reason \in Reason : user_access_broker_error(reason)

LEMMA ChangeAccessSteps ==
  ASSUME Types, apply_create_acls \/ apply_delete_acls \/ apply_alter_user_quotas
  PROVE  Steps /\ \E l \in {"deleteAcls", "quotas", "report"} : Answers(l)
  <1>1. /\ pc \in {"createAcls", "deleteAcls", "alterQuotas"} /\ StateTypes
        /\ Rest /\ UNCHANGED <<secret, next>> /\ secret \in Opt(Secret)
    BY ZenonT(30) DEF apply_create_acls, apply_delete_acls, apply_alter_user_quotas, Rest, Types, StateTypes
  <1>2. pc \in Granting
    BY <1>1, Zenon DEF Granting, Access, AclStep, QuotaStep
  <1>3. Grant
    <2>1. CASE apply_create_acls
      BY <2>1, ZenonT(30) DEF apply_create_acls, AccessCall, Call, Grant
    <2>2. CASE apply_delete_acls
      BY <2>2, ZenonT(30) DEF apply_delete_acls, AccessCall, Call, Grant
    <2>3. CASE apply_alter_user_quotas
      BY <2>3, Zenon DEF apply_alter_user_quotas, AccessCall, Call, Grant
    <2> QED
      BY <2>1, <2>2, <2>3, ZenonT(30)
  <1>4. PICK l \in {"deleteAcls", "quotas", "report"} : Answers(l)
    <2>1. CASE apply_create_acls
      BY <2>1, ZenonT(30) DEF apply_create_acls, AccessCall, Call, Answers, Reason
    <2>2. CASE apply_delete_acls
      BY <2>2, ZenonT(60) DEF apply_delete_acls, AccessCall, Call, Answers, Reason
    <2>3. CASE apply_alter_user_quotas
      BY <2>3, Zenon DEF apply_alter_user_quotas, AccessCall, Call, Answers, Reason
    <2> QED
      BY <2>1, <2>2, <2>3, ZenonT(30)
  <1>5. CASE Goto(l) /\ UNCHANGED <<status, events>>
    <2>1. l \in Access \ {"pendingAcls", "pendingQuotas"}
      BY Zenon DEF Access, AclStep
    <2>2. Moves
      BY <1>1, <1>2, <1>5, <2>1, GotoAdvance, ZenonT(30)
    <2> QED
      BY <1>3, <1>4, <2>2, Zenon DEF Steps
  <1>6. CASE /\ Happens("lost") \/ Happens("fail") \/ Happens("refuse")
             /\ \E reason \in Reason : user_access_broker_error(reason)
    <2>1. Counts /\ events'["abort"] = events["abort"]
      BY <1>1, <1>6, FailureCounts, ZenonT(30)
    <2>2. Quits
      BY <1>1, <1>2, <1>6, <2>1, AccessQuits, ZenonT(30)
    <2> QED
      BY <1>3, <1>4, <2>2, Zenon DEF Steps
  <1> QED
    BY <1>4, <1>5, <1>6, Zenon DEF Answers

LEMMA AbortStops ==
  ASSUME Types, Abort
  PROVE  Grant /\ Stops
  <1>1. StateTypes /\ pc # "idle" /\ Happens("abort") /\ Retry
    BY ZenonT(30) DEF Types, Abort
  <1>2. Counts /\ events'["abort"] = events["abort"] + 1 /\ events["abort"] < scenario.max["abort"]
    BY <1>1, Counted, HappensCounts, ZenonT(30) DEF Event
  <1> QED
    BY <1>1, <1>2, RetryEnds, Zenon DEF Abort, Stops, Grant, Rest, brokerVars

-----------------------------------------------------------------------------
(* What is granted *)

LEMMA AskedPrincipal ==
  ASSUME NEW s
  PROVE  \A a \in Asked(s) : a.principal = principal_for(s.auth)
  BY SMTT(30), Z3T(30) DEF Asked, expand_spec_acls

\* The token of a pass that has one.
LEMMA PassToken ==
  ASSUME Types, pc # "idle", pass.token # None
  PROVE  /\ pass.token[1] \in Token /\ pass.token[1].id \in Nat /\ pass.token[1].expiry \in Nat
         /\ pass.token[1].max \in Nat
  BY PassFields, OptTypes, TokenFields, ZenonT(30)

\* One token at most, which lives.
OneToken == (\A t, u \in tokens : t = u) /\ \A t \in tokens : t.expiry <= t.max /\ now < t.expiry

LEMMA RenewGrants ==
  ASSUME Types, Tokens, pc = "renew", \E t \in tokens : t.id = pass.token[1].id,
         tokens' = {t \in tokens : t.id # pass.token[1].id} \cup {RenewedToken}, now' = now
  PROVE  tokens' = {RenewedToken} /\ tokens' \subseteq Token /\ OneToken' /\ tokens = {pass.token[1]}
  <1>1. pass.token # None /\ tokens \subseteq {pass.token[1]}
    BY ZenonT(30) DEF Tokens, Knowing
  <1>2. tokens = {pass.token[1]}
    BY <1>1, ZenonT(30)
  <1>3. /\ pass.token[1] \in Token /\ RenewedToken \in Token
        /\ RenewedToken.id = pass.token[1].id /\ RenewedToken.max = pass.token[1].max
        /\ RenewedToken.expiry \in {now + Period, pass.token[1].max}
        /\ RenewedToken.expiry <= RenewedToken.max
    BY <1>1, RenewedTypes, ZenonT(30)
  <1>4. tokens' = {RenewedToken}
    BY <1>2, ZenonT(30)
  <1>5. pass.token[1].expiry <= pass.token[1].max /\ now < pass.token[1].expiry
    BY <1>2, ZenonT(30) DEF Tokens
  <1>6. now \in Nat /\ Period \in Nat \ {0} /\ pass.token[1].expiry \in Nat /\ pass.token[1].max \in Nat
    BY <1>3, TokenFields, UserAssumption, ZenonT(30) DEF Types, StateTypes
  <1>7. now < RenewedToken.expiry
    BY <1>3, <1>5, <1>6, SMTT(30), Z3T(30)
  <1> QED
    BY <1>2, <1>3, <1>4, <1>7, ZenonT(30) DEF OneToken

\* A call about tokens leaves one at most.
LEMMA GrantTokens ==
  ASSUME Types, Tokens, pc # "idle", Grant, now' = now
  PROVE  tokens' \subseteq Token /\ OneToken'
  <1>1. tokens \subseteq Token /\ OneToken
    BY Zenon DEF Types, StateTypes, Tokens, OneToken
  <1>2. CASE UNCHANGED tokens
    BY <1>1, <1>2, ZenonT(30) DEF OneToken
  <1>3. CASE pc = "expire" /\ tokens' = {t \in tokens : t.id # pass.token[1].id}
    BY <1>1, <1>3, ZenonT(30) DEF OneToken
  <1>4. CASE pc = "create" /\ tokens' = tokens \cup {Fresh}
    <2>1. tokens' = {Fresh}
      BY <1>4, Zenon DEF Tokens
    <2> QED
      BY <2>1, FreshTypes, ZenonT(30) DEF OneToken
  <1>5. CASE /\ pc = "renew" /\ (\E t \in tokens : t.id = pass.token[1].id)
             /\ tokens' = {t \in tokens : t.id # pass.token[1].id} \cup {RenewedToken}
    BY <1>5, RenewGrants, Zenon
  <1> QED
    BY <1>2, <1>3, <1>4, <1>5, Zenon DEF Grant, brokerVars

\* The ACLs and quotas that are granted.
LEMMA GrantAcls ==
  ASSUME Types, Acls, pc # "idle", Grant
  PROVE  /\ acls' \subseteq Entry
         /\ \A a \in acls' : a \in acls \/ a.principal = Principal
         /\ pc \notin {"createAcls", "deleteAcls"} => acls' = acls
  <1>1. acls \subseteq Entry
    BY Zenon DEF Types, StateTypes
  <1>2. CASE UNCHANGED acls
    BY <1>1, <1>2, ZenonT(30)
  <1>3. CASE pc = "createAcls" /\ acls' = acls \cup pass.add
    <2>1. pass.s.acls # None /\ pass.add \subseteq Asked(pass.s)
      BY <1>3, ZenonT(30) DEF Acls, AclStep
    <2>2. Asked(pass.s) \subseteq Entry
      BY <2>1, PassFields, RuleTypes, Zenon DEF Asked
    <2> QED
      BY <1>1, <1>3, <2>1, <2>2, AskedPrincipal, ZenonT(30) DEF Principal
  <1>4. CASE pc = "deleteAcls" /\ acls' = acls \ pass.del
    BY <1>1, <1>4, Zenon
  <1> QED
    BY <1>2, <1>3, <1>4, Zenon DEF Grant, brokerVars

LEMMA GrantQuotas ==
  ASSUME Types, Quotas, pc # "idle", Grant
  PROVE  /\ quotas' \in [Name -> SUBSET STRING]
         /\ \A p \in Name : quotas'[p] # quotas[p] => p = Principal
         /\ pc # "alterQuotas" => quotas' = quotas
         /\ pc = "alterQuotas" /\ quotas' # quotas => quotas'[Principal] = pass.s.quotas[1]
  <1>1. quotas \in [Name -> SUBSET STRING] /\ Principal \in Name
    BY PassFields, ZenonT(30) DEF Types, StateTypes
  <1>2. CASE UNCHANGED quotas
    BY <1>1, <1>2, ZenonT(30)
  <1>3. CASE /\ pc = "alterQuotas"
             /\ quotas' = [quotas EXCEPT ![Principal] = (@ \cup pass.add) \ pass.del]
    <2>1. /\ pass.s.quotas # None /\ pass.add = pass.s.quotas[1] \ quotas[Principal]
          /\ pass.del = quotas[Principal] \ pass.s.quotas[1]
      BY <1>3, ZenonT(30) DEF Quotas, QuotaStep
    <2>2. pass.s.quotas[1] \in SUBSET STRING
      BY <2>1, PassFields, RuleTypes, Zenon
    <2>3. (quotas[Principal] \cup pass.add) \ pass.del = pass.s.quotas[1]
      BY <2>1, ZenonT(30)
    <2>4. quotas' = [quotas EXCEPT ![Principal] = pass.s.quotas[1]]
      BY <1>3, <2>3, ZenonT(30)
    <2> QED
      BY <1>1, <1>3, <2>2, <2>4, ZenonT(30)
  <1> QED
    BY <1>2, <1>3, Zenon DEF Grant, brokerVars

LEMMA GrantScram ==
  ASSUME Types, Places, pc # "idle", Grant
  PROVE  /\ scram' \in [Mechanism -> Opt(Nat)]
         /\ \A m \in Mechanism : scram'[m] # scram[m] => m = pass.s.auth
         /\ \/ scram' = scram
            \/ pc = "upsert" /\ scram' = [scram EXCEPT ![pass.s.auth] = pass.password]
  <1>1. scram \in [Mechanism -> Opt(Nat)] /\ pass.password \in Opt(Nat)
    BY PassFields, Zenon DEF Types, StateTypes
  <1>2. CASE UNCHANGED scram
    BY <1>1, <1>2, Zenon
  <1>3. CASE pc = "upsert" /\ scram' = [scram EXCEPT ![pass.s.auth] = pass.password]
    BY <1>1, <1>3, ZenonT(30)
  <1> QED
    BY <1>2, <1>3, Zenon DEF Grant, brokerVars

\* What is granted belongs to the kind of authentication of the pass.
LEMMA GrantOwned ==
  ASSUME Inv, pc # "idle", Grant, Rest
  PROVE  Owned'
  <1>0. Types /\ Places /\ Tokens /\ Acls /\ Quotas /\ Owned
    BY Zenon DEF Inv
  <1>1. AuthOf' = AuthOf /\ pass.s.auth \in AuthOf
    BY <1>0, PassFields, ZenonT(30) DEF AuthOf, Rest
  <1>2. \A m \in Mechanism : scram'[m] # None => m \in AuthOf
    BY <1>0, <1>1, GrantScram, ZenonT(60) DEF Owned
  <1>3. tokens' # {} => "token" \in AuthOf
    <2>1. CASE tokens' \subseteq tokens
      BY <1>0, <2>1, ZenonT(30) DEF Owned
    <2>2. CASE pc \in {"create", "renew"}
      BY <1>0, <1>1, <2>2, ZenonT(30) DEF Places, Delegating, Replacing
    <2> QED
      BY <2>1, <2>2, Zenon DEF Grant, brokerVars
  <1>4. \A a \in acls' : \E u \in AuthOf : a.principal = principal_for(u)
    BY <1>0, <1>1, GrantAcls, ZenonT(30) DEF Owned, Principal
  <1>5. \A p \in Name : quotas'[p] # {} => \E u \in AuthOf : p = principal_for(u)
    BY <1>0, <1>1, GrantQuotas, ZenonT(60) DEF Owned, Principal
  <1> QED
    BY <1>1, <1>2, <1>3, <1>4, <1>5, Zenon DEF Owned

\* The types of the broker's state, after a step that grants access.
LEMMA GrantTypes ==
  ASSUME Inv, pc # "idle", Grant, now' = now
  PROVE  /\ scram' \in [Mechanism -> Opt(Nat)] /\ acls' \subseteq Entry
         /\ quotas' \in [Name -> SUBSET STRING] /\ tokens' \subseteq Token /\ OneToken'
  <1>0. Types /\ Places /\ Tokens /\ Acls /\ Quotas
    BY Zenon DEF Inv
  <1> QED
    BY <1>0, GrantScram, GrantAcls, GrantQuotas, GrantTokens, Zenon

\* Nothing has failed if nothing has failed so far.
LEMMA CountsDown ==
  ASSUME Types, Counts, Rest
  PROVE  /\ Undisturbed' => Undisturbed
         /\ SameAuth' <=> SameAuth
         /\ Steady' => Steady
         /\ Undrifted' => Undrifted
         /\ events'["rotate"] = 0 => events["rotate"] = 0
  <1>1. /\ \A e \in Event : events[e] \in Nat /\ events'[e] \in Nat /\ events[e] <= events'[e]
        /\ {"fail", "lost", "refuse", "rotate", "drift"} \subseteq Event
    BY Zenon DEF Types, StateTypes, Counts, Event
  <1>2. Undisturbed' => Undisturbed
    <2>0. /\ events["fail"] \in Nat /\ events["lost"] \in Nat /\ events["refuse"] \in Nat
          /\ events'["fail"] \in Nat /\ events'["lost"] \in Nat /\ events'["refuse"] \in Nat
      BY <1>1, Zenon
    <2>1. Undisturbed <=> (events["fail"] = 0 /\ events["lost"] = 0 /\ events["refuse"] = 0)
      BY <2>0, SMTT(30), Z3T(30) DEF Undisturbed
    <2>2. Undisturbed' <=> (events'["fail"] = 0 /\ events'["lost"] = 0 /\ events'["refuse"] = 0)
      BY <2>0, SMTT(30), Z3T(30) DEF Undisturbed
    <2>3. \A e \in {"fail", "lost", "refuse"} : events'[e] = 0 => events[e] = 0
      BY <1>1, SMTT(30), Z3T(30)
    <2> QED
      BY <2>1, <2>2, <2>3, Zenon
  <1>3. Undrifted' => Undrifted
    BY <1>1, SMTT(30), Z3T(30) DEF Undrifted
  <1>4. events'["rotate"] = 0 => events["rotate"] = 0
    BY <1>1, SMTT(30), Z3T(30)
  <1>5. SameAuth' <=> SameAuth
    BY SMTT(30), Z3T(30) DEF SameAuth, AuthOf, Rest
  <1> QED
    BY <1>2, <1>3, <1>4, <1>5, ZenonT(30) DEF Steady

\* The steps that grant access leave certificates and deletions alone.
LEMMA GrantReissues ==
  ASSUME Types, Reissues, Counts, Rest
  PROVE  Reissues'
  <1>1. AuthOf' = AuthOf
    BY Zenon DEF AuthOf, Rest
  <1> QED
    BY <1>1, CountsDown, ZenonT(30) DEF Reissues, Rest

LEMMA GrantRemoved ==
  ASSUME Types, Places, Removed, Counts, Rest, pc # "idle", Grant,
         pc \in Granting \/ UNCHANGED brokerVars, pc' \notin Dropping
  PROVE  Removed'
  <1>1. pc' \notin {"dropAcls", "dropQuotas", "unfinalize"}
    BY Zenon DEF Dropping
  <1>2. user' = user /\ (Undisturbed' => Undisturbed) /\ (SameAuth' => SameAuth)
    BY CountsDown, Zenon DEF Rest
  <1>3. CASE pc \in Granting
    BY <1>1, <1>2, <1>3, Zenon DEF Places, Removed
  <1>4. CASE UNCHANGED brokerVars
    <2>1. NothingLeft' <=> NothingLeft
      BY <1>4, Zenon DEF NothingLeft, brokerVars
    <2> QED
      BY <1>1, <1>2, <2>1, Zenon DEF Removed
  <1> QED
    BY <1>3, <1>4, Zenon

-----------------------------------------------------------------------------
(* A pass that ends early *)

LEMMA ReadyPass ==
  ASSUME Types, Places, Ready, pc # "idle"
  PROVE  pass.gen = edit /\ pass.s = kafkaUser
  <1>1. status.observed = edit /\ status.observed <= pass.gen /\ pass.gen \in 1 .. edit /\ edit \in Nat
    BY PassFields, ScenarioTypes, Zenon DEF Places, Ready, Types
  <1>2. pass.gen = edit
    BY <1>1, SMTT(30), Z3T(30)
  <1> QED
    BY <1>2, PassFields, ZenonT(30) DEF kafkaUser

LEMMA IdleFacts ==
  /\ "idle" \notin Scram /\ "idle" \notin Tls /\ "idle" \notin Delegating \cup {"pendingAcls", "pendingQuotas"}
  /\ "idle" \notin Dropping /\ "idle" \notin Granting /\ "idle" \notin Access /\ "idle" \notin AclStep
  /\ "idle" \notin QuotaStep /\ "idle" \in Label
  /\ "idle" \notin {"pendingAcls", "createAcls"} /\ "idle" \notin {"quotas", "report"} \cup QuotaStep
  /\ "idle" \notin {"expire", "renew", "check", "identity", "writeToken"}
  /\ "idle" \notin {"expire", "create"} /\ "idle" \notin {"dropAcls", "dropQuotas", "unfinalize"}
  /\ "idle" \notin {"dropQuotas", "unfinalize"}
  BY ZenonT(30) DEF Granting, Scram, Tls, Delegating, Replacing, Access, AclStep, QuotaStep, Dropping, Label

\* When a pass has ended, what remains is what is said of the status.
LEMMA EndsInv ==
  ASSUME Types', pc' = "idle", Reissues', Owned', Removed', OneToken',
         (user.fin => user.phase # "gone")', (user.phase = "deleting" => user.fin)',
         (status.observed <= edit)',
         (status.ready = "True" /\ status.reason = "TokenReady" =>
            status.observed \in 1 .. edit /\ scenario.edits[status.observed].auth = "token")',
         (Ready => HasQuotas(kafkaUser) /\ (Undrifted => HasAcls(kafkaUser))
                     /\ (Steady => HasCredential(kafkaUser)))'
  PROVE  Inv'
  <1>0. /\ pc' # "create" /\ pc' # "pending" /\ pc' # "writePassword" /\ pc' # "upsert" /\ pc' # "deleteAcls"
        /\ pc' # "report" /\ pc' # "identity" /\ pc' # "writeToken"
    BY Zenon
  <1>1. Places'
    BY IdleFacts, Zenon DEF Places
  <1>2. ~TokenAccess' /\ ~OnFile'
    BY <1>0, IdleFacts, Zenon DEF TokenAccess, OnFile
  <1>3. Statuses'
    BY <1>0, <1>2, IdleFacts, Zenon DEF Statuses
  <1>4. Tokens'
    BY <1>0, <1>2, IdleFacts, Zenon DEF Tokens, Knowing, OneToken
  <1>5. Credentials'
    BY <1>0, <1>2, IdleFacts, Zenon DEF Credentials
  <1>6. Acls'
    BY <1>0, IdleFacts, Zenon DEF Acls
  <1>7. Quotas'
    BY <1>0, IdleFacts, Zenon DEF Quotas
  <1> QED
    BY <1>1, <1>3, <1>4, <1>5, <1>6, <1>7, ZenonT(60) DEF Inv

\* The types after the end of a pass.
LEMMA EndsTypes ==
  ASSUME Inv, pc # "idle", Grant, Rest, Counts, Ends, status' \in Status, secret' \in Opt(Secret),
         next' \in Nat, wake' \in Nat
  PROVE  Types'
  <1>1. Types
    BY Zenon DEF Inv
  <1>2. /\ scram' \in [Mechanism -> Opt(Nat)] /\ acls' \subseteq Entry
        /\ quotas' \in [Name -> SUBSET STRING] /\ tokens' \subseteq Token
    BY GrantTypes, Zenon DEF Rest
  <1>3. PassTypes'
    BY Zenon DEF PassTypes, Ends
  <1>4. StateTypes'
    <2>1. /\ scenario' \in Scenarios /\ edit' \in 1 .. Len(scenario'.edits)
          /\ user' \in [phase : {"live", "deleting", "gone"}, fin : BOOLEAN]
          /\ now' \in Nat /\ ca' \in Nat /\ reissue' \in Opt(Nat) /\ up' \in BOOLEAN
      BY <1>1, Zenon DEF Types, StateTypes, Rest
    <2>2. pc' \in Label /\ events' \in [Event -> Nat]
      BY IdleFacts, ZenonT(30) DEF Ends, Counts
    <2> QED
      BY <1>2, <2>1, <2>2, Zenon DEF StateTypes
  <1> QED
    BY <1>3, <1>4, Zenon DEF Types

\* A call of the broker failed, and the status says so.
LEMMA QuitInv ==
  ASSUME Inv, Grant, Quits
  PROVE  Inv'
  <1>0. /\ Types /\ Places /\ Reissues /\ Removed /\ Ends /\ Rest /\ Counts /\ Withdraws
        /\ pc' = "idle" /\ pc' \notin Dropping
    BY IdleFacts, Zenon DEF Inv, Quits, Ends
  <1>1. pc # "idle"
    BY Kinds, ZenonT(30) DEF Quits
  <1>2. Types'
    <2>1. secret' \in Opt(Secret)
      BY <1>0, Zenon DEF Types, StateTypes, Quits
    <2> QED
      BY <1>0, <1>1, <2>1, EndsTypes, ZenonT(60) DEF Withdraws, Quits
  <1>3. Owned' /\ OneToken' /\ Reissues'
    BY <1>0, <1>1, GrantOwned, GrantTypes, GrantReissues, Zenon DEF Rest
  <1>4. Removed'
    <2>1. pc \in Granting \/ UNCHANGED brokerVars
      BY ZenonT(30) DEF Quits
    <2> QED
      BY <1>0, <1>1, <2>1, GrantRemoved, Zenon
  <1>5. user' = user /\ edit' = edit /\ status'.ready # "True" /\ ~Ready'
    BY <1>0, Zenon DEF Rest, Withdraws, Ready
  <1>6. status'.observed <= edit'
    <2>1. pass.gen \in 1 .. edit /\ edit \in Nat /\ status.observed \in Nat /\ pass.st.observed \in Nat
      BY <1>0, <1>1, PassFields, StatusFields, ScenarioTypes, ZenonT(30) DEF Types, StateTypes
    <2>2. status.observed <= edit /\ pass.st.observed <= pass.gen
      BY <1>0, <1>1, Zenon DEF Places
    <2>3. pass.st.observed <= edit
      BY <2>1, <2>2, SMTT(30), Z3T(30)
    <2>4. status'.observed \in {status.observed, pass.st.observed}
      BY <1>0, ZenonT(30) DEF Withdraws
    <2> QED
      BY <1>5, <2>2, <2>3, <2>4, ZenonT(30)
  <1>7. (user'.fin => user'.phase # "gone") /\ (user'.phase = "deleting" => user'.fin)
    BY <1>0, <1>5, ZenonT(30) DEF Places
  <1> QED
    BY <1>0, <1>2, <1>3, <1>4, <1>5, <1>6, <1>7, EndsInv, ZenonT(60)

\* A pass is cut short, or a call fails without a trace in the status.
LEMMA StopInv ==
  ASSUME Inv, Stops
  PROVE  Inv'
  <1>0. /\ Types /\ Places /\ Reissues /\ Removed /\ Ends /\ Rest /\ Counts
        /\ pc' = "idle" /\ pc' \notin Dropping /\ pc # "idle"
        /\ UNCHANGED <<status, secret, acls, quotas, tokens, next>>
    BY IdleFacts, ZenonT(30) DEF Inv, Stops, Ends
  <1>1. Grant /\ (pc \in Granting \/ UNCHANGED brokerVars)
    BY <1>0, ZenonT(30) DEF Stops, Grant, Granting, Scram, brokerVars
  <1>2. Types'
    <2>1. secret' \in Opt(Secret) /\ status' \in Status /\ next' \in Nat /\ wake' \in Nat
      BY <1>0, ZenonT(30) DEF Types, StateTypes, Stops
    <2> QED
      BY <1>0, <1>1, <2>1, EndsTypes, ZenonT(30)
  <1>3. Owned' /\ OneToken' /\ Reissues' /\ Removed'
    BY <1>0, <1>1, GrantOwned, GrantTypes, GrantReissues, GrantRemoved, ZenonT(30) DEF Rest
  <1>4. user' = user /\ edit' = edit /\ scenario' = scenario /\ status' = status
    BY <1>0, Zenon DEF Rest
  <1>5. /\ user'.fin => user'.phase # "gone"
        /\ user'.phase = "deleting" => user'.fin
        /\ status'.observed <= edit'
        /\ status'.ready = "True" /\ status'.reason = "TokenReady" =>
             status'.observed \in 1 .. edit' /\ scenario'.edits[status'.observed].auth = "token"
    BY <1>0, <1>4, Zenon DEF Places
  <1>6. ASSUME Ready'
        PROVE  HasQuotas(kafkaUser)' /\ (Undrifted' => HasAcls(kafkaUser)') /\ (Steady' => HasCredential(kafkaUser)')
    <2>1. Ready /\ kafkaUser' = kafkaUser /\ (Undrifted' => Undrifted) /\ (Steady' => Steady)
      BY <1>0, <1>4, <1>6, CountsDown, ZenonT(30) DEF Ready, kafkaUser
    <2>2. HasQuotas(kafkaUser)'
      BY <1>0, <2>1, ZenonT(30) DEF Inv, Quotas, HasQuotas
    <2>3. ASSUME Undrifted' PROVE HasAcls(kafkaUser)'
      BY <1>0, <2>1, <2>3, ZenonT(30) DEF Inv, Acls, HasAcls
    <2>4. ASSUME Steady' PROVE HasCredential(kafkaUser)'
      <3>1. Credentials /\ HasCredential(kafkaUser) /\ Steady
        BY <2>1, <2>4, ZenonT(30) DEF Inv, Credentials
      <3>2. CASE UNCHANGED scram
        BY <1>0, <2>1, <3>1, <3>2, ZenonT(30) DEF HasCredential, HasPassword
      <3>3. CASE pc = "upsert" /\ scram' = [scram EXCEPT ![pass.s.auth] = pass.password]
        <4>1. pass.password = Some(secret[1].value) /\ pass.s = kafkaUser
          BY <1>0, <2>1, <3>1, <3>3, ReadyPass, ZenonT(30) DEF Credentials
        <4>2. kafkaUser.auth \in Mechanism => scram'[kafkaUser.auth] = Some(secret[1].value)
          BY <1>0, <3>3, <4>1, ZenonT(30) DEF Types, StateTypes
        <4> QED
          BY <1>0, <2>1, <3>1, <4>2, ZenonT(30) DEF HasCredential, HasPassword
      <3> QED
        BY <3>2, <3>3, Zenon DEF Stops
    <2> QED
      BY <2>2, <2>3, <2>4, ZenonT(30)
  <1> QED
    BY <1>0, <1>2, <1>3, <1>5, <1>6, EndsInv, ZenonT(30)

-----------------------------------------------------------------------------
(* A pass that goes on *)

LEMMA MovesTypes ==
  ASSUME Inv, Grant, Moves
  PROVE  Types' /\ pc # "idle" /\ pc' # "idle"
  <1>1. Types /\ pc # "idle" /\ pc' # "idle" /\ Rest
    BY Kinds, Zenon DEF Inv, Moves
  <1>2. /\ scram' \in [Mechanism -> Opt(Nat)] /\ acls' \subseteq Entry
        /\ quotas' \in [Name -> SUBSET STRING] /\ tokens' \subseteq Token
    BY <1>1, GrantTypes, Zenon DEF Rest
  <1>3. PassTypes'
    <2>1. pass.gen \in 1 .. edit /\ pass.s = scenario.edits[pass.gen]
      BY <1>1, PassFields, ZenonT(30)
    <2>2. pass' \in Pass /\ pass'.gen = pass.gen /\ pass'.s = pass.s
      BY Zenon DEF Moves
    <2> QED
      BY <1>1, <2>1, <2>2, Zenon DEF PassTypes, Rest
  <1>4. StateTypes'
    <2>1. /\ scenario' \in Scenarios /\ edit' \in 1 .. Len(scenario'.edits)
          /\ user' \in [phase : {"live", "deleting", "gone"}, fin : BOOLEAN]
          /\ now' \in Nat /\ ca' \in Nat /\ reissue' \in Opt(Nat) /\ up' \in BOOLEAN
      BY <1>1, Zenon DEF Types, StateTypes, Rest
    <2>2. pc' \in Label
      BY Zenon DEF Moves, Label
    <2>3. events' \in [Event -> Nat] /\ wake' \in Nat
      BY <1>1, Zenon DEF Types, StateTypes, Moves
    <2>4. status' \in Status /\ secret' \in Opt(Secret) /\ next' \in Nat
      BY Zenon DEF Moves
    <2> QED
      BY <1>2, <2>1, <2>2, <2>3, <2>4, Zenon DEF StateTypes
  <1> QED
    BY <1>1, <1>3, <1>4, ZenonT(60) DEF Types

\* The status says Ready only if it did before the step.
LEMMA ReadyKept ==
  ASSUME Inv, Moves, status'.ready = "True"
  PROVE  status' = status
  <1>1. CASE patch_token_identity
    <2>1. /\ pc = "identity" /\ status \in Status
          /\ status' = [status EXCEPT !.tokenId = Some(pass.token[1].id),
                                      !.expiry = pass.token[1].expiry, !.max = pass.token[1].max]
      BY <1>1, Zenon DEF patch_token_identity, Inv, Types, StateTypes
    <2>2. status.ready = "True"
      BY <2>1, Zenon DEF Status
    <2>3. /\ status.tokenId = Some(pass.token[1].id) /\ status.expiry = pass.token[1].expiry
          /\ status.max = pass.token[1].max
      BY <2>1, <2>2, Zenon DEF Inv, Statuses, status_has_current_ready_token
    <2> QED
      BY <2>1, <2>3, ZenonT(30) DEF Status
  <1>2. CASE UNCHANGED status
    BY <1>2, Zenon
  <1> QED
    BY <1>1, <1>2, Zenon DEF Moves

LEMMA MovesReady ==
  ASSUME Inv, Moves, Ready'
  PROVE  Ready /\ status' = status /\ kafkaUser' = kafkaUser /\ pass.s = kafkaUser
  <1>1. status' = status
    BY ReadyKept, Zenon DEF Ready
  <1>2. Ready /\ kafkaUser' = kafkaUser
    BY <1>1, ZenonT(30) DEF Ready, Moves, Rest, kafkaUser
  <1>3. Types /\ Places /\ pc # "idle"
    BY Kinds, Zenon DEF Inv, Moves
  <1> QED
    BY <1>1, <1>2, <1>3, ReadyPass, Zenon

LEMMA MovesPlaces ==
  ASSUME Inv, Moves
  PROVE  Places'
  <1>0. Types /\ Places /\ pc # "idle" /\ pc' \in Granting /\ pc \in Granting /\ Rest
    BY Kinds, ZenonT(30) DEF Inv, Moves
  <1>1. pass'.s = pass.s /\ pass'.gen = pass.gen /\ pass'.st = pass.st /\ pc' \notin Dropping
    BY <1>0, Kinds, ZenonT(30) DEF Moves
  <1>2. /\ pc' \in Scram => pass'.s.auth \in Mechanism
        /\ pc' \in Tls => pass'.s.auth = "tls"
        /\ pc' \in Delegating \cup {"pendingAcls", "pendingQuotas"} => pass'.s.auth = "token"
    BY <1>0, <1>1, ZenonT(30) DEF Places, Moves
  <1>3. /\ status'.observed = status.observed /\ user' = user /\ edit' = edit
        /\ scenario' = scenario /\ (status'.ready = "True" => status' = status)
    BY <1>0, ReadyKept, ZenonT(30) DEF Moves, Rest
  <1>4. /\ user'.fin
        /\ user'.fin => user'.phase # "gone"
        /\ user'.phase = "deleting" => user'.fin
        /\ status'.observed <= edit'
        /\ status'.observed <= pass'.gen /\ pass'.st.observed <= pass'.gen
    BY <1>0, <1>1, <1>3, ZenonT(30) DEF Places
  <1>5. status'.ready = "True" /\ status'.reason = "TokenReady" =>
          status'.observed \in 1 .. edit' /\ scenario'.edits[status'.observed].auth = "token"
    BY <1>0, <1>3, Zenon DEF Places
  <1> QED
    BY <1>1, <1>2, <1>4, <1>5, Zenon DEF Places

\* What holds of every pass that goes on.
LEMMA MovesInv ==
  ASSUME Inv, Grant, Moves, Statuses', Tokens', Credentials', Acls', Quotas'
  PROVE  Inv'
  <1>1. Types' /\ pc # "idle" /\ Types /\ Places /\ Reissues /\ Removed /\ Rest
    BY MovesTypes, ZenonT(30) DEF Inv, Moves
  <1>2. pc \in Granting /\ pc' \notin Dropping
    BY Kinds, ZenonT(30) DEF Moves
  <1>3. Counts
    BY <1>1, HappensCounts, ZenonT(30) DEF Moves, Types
  <1>4. Reissues' /\ Owned'
    BY <1>1, <1>3, GrantReissues, GrantOwned, Zenon
  <1>5. Removed'
    BY <1>1, <1>2, <1>3, GrantRemoved, Zenon
  <1> QED
    BY <1>1, <1>4, <1>5, MovesPlaces, ZenonT(30) DEF Inv

=============================================================================
