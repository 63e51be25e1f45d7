------------------------------ MODULE KafkaUsers ------------------------------
(***************************************************************************)
(* The reconcile pass of a KafkaUser (user.rs, user_tls.rs and             *)
(* user_delegation_token.rs): finalizer, credential, ACLs, quotas, status. *)
(*                                                                         *)
(* Every call to the API server or to a broker is a step, between which    *)
(* the user edits or deletes the resource, the Kafka controller reissues   *)
(* certificates, time passes and tokens expire.  A call of the broker may  *)
(* be refused, fail, or succeed although its answer is lost; the broker's  *)
(* state is external.  An optional value is a sequence of length at most   *)
(* one.                                                                    *)
(***************************************************************************)
EXTENDS Integers, Sequences

CONSTANTS
  Scenarios,    \* the specs that are applied, for how long, and what goes wrong
  Period,       \* for how long a broker issues or renews a token
  MaxLife,      \* a token's maximum lifetime
  RenewBefore,  \* renewBeforeExpiry
  MinRequeue, MaxRequeue, Drift, Backoff  \* requeue intervals of the operator

\* What may happen: the broker refuses a call, a call fails, its answer is lost, a call
\* of the API server fails, the cluster is not Ready, a certificate nears its end, the
\* clients CA is replaced, someone else deletes the ACLs.
Event == {"refuse", "fail", "lost", "abort", "down", "age", "rotate", "drift"}

Auth == {"sha512", "sha256", "tls", "external", "token"}

UserSpec ==
  [auth : Auth, renewers : Nat, flaw : {"none", "label", "reserved", "rules"},
   acls : Seq(SUBSET [resource : STRING, ops : SUBSET STRING]), quotas : Seq(SUBSET STRING)]

ASSUME UserAssumption ==
  /\ {Period, MaxLife, RenewBefore, MinRequeue, MaxRequeue, Drift, Backoff} \subseteq Nat \ {0}
  /\ MinRequeue <= MaxRequeue
  /\ \A c \in Scenarios : /\ c.edits \in Seq(UserSpec) /\ c.edits # <<>>
                          /\ c.deletes \in BOOLEAN /\ c.time \in Nat /\ c.max \in [Event -> Nat]

VARIABLES
  scenario, events,
  edit,     \* the index of the spec, which is also the generation
  user,     \* "live", "deleting" or "gone", and whether it has the finalizer
  status,   \* the status of the KafkaUser
  secret,   \* its Secret
  scram, acls, quotas, tokens,  \* what the broker stores
  next,     \* the next password or token
  now, wake, \* time, and when the next pass is due
  ca,       \* the active clients CA
  reissue,  \* the CA with which the Kafka controller reissues the certificate
  up,       \* whether Kafka is Ready
  pc, pass

brokerVars == <<scram, acls, quotas, tokens>>
vars == <<scenario, events, edit, user, status, secret, brokerVars, next, now, wake, ca, reissue, up,
          pc, pass>>

None == <<>>
Some(x) == <<x>>
Min(a, b) == IF a < b THEN a ELSE b
Max(a, b) == IF a < b THEN b ELSE a

kafkaUser == scenario.edits[edit]
Mechanism == {"sha512", "sha256"}
MaxTime == scenario.time
Happens(e) == events[e] < scenario.max[e] /\ events' = [events EXCEPT ![e] = @ + 1]

-----------------------------------------------------------------------------
(* Pure parts *)

\* The DN of a certificate is another principal than the name.
principal_for(auth) == IF auth = "tls" THEN "CN=name" ELSE "name"

\* What the broker stores for the rules of the spec: one entry for each operation.
expand_spec_acls(rules, principal) ==
  UNION {{[principal |-> principal, resource |-> r.resource, op |-> o] : o \in r.ops} : r \in rules}

diff_acls(current, desired) == [add |-> desired \ current, del |-> current \ desired]

\* The checks before the finalizer: a reserved name does not stop a deletion.
refusal(s, phase) ==
  CASE s.flaw = "label" -> "MissingClusterLabel"
    [] s.flaw = "rules" \/ (s.flaw = "reserved" /\ phase = "live") -> "InvalidSpec"
    [] OTHER -> IF up THEN "none" ELSE "ClusterNotReady"

decide(s, existing) ==
  IF existing = None THEN "Create"
  ELSE IF existing[1].renewers # s.renewers THEN "Cycle"
  ELSE IF existing[1].expiry - pass.now <= RenewBefore THEN "Renew" ELSE "NoOp"

\* Mutant: wakes when the token expires.
compute_requeue_AtExpiry(token) == Min(Max(token.expiry - pass.now, MinRequeue), MaxRequeue)

compute_requeue(token) == Min(Max(token.expiry - pass.now - RenewBefore, MinRequeue), MaxRequeue)

status_has_current_ready_token(st, token) ==
  /\ st.tokenId = Some(token.id) /\ st.expiry = token.expiry /\ st.max = token.max
  /\ st.observed = pass.gen
  /\ st.ready = "True" /\ st.reason = "TokenReady" /\ st.issued

-----------------------------------------------------------------------------

NoPass == [gen |-> 0]

Init ==
  /\ scenario \in Scenarios
  /\ events = [e \in Event |-> 0]
  /\ edit = 1
  /\ user = [phase |-> "live", fin |-> FALSE]
  /\ status = [ready |-> "none", reason |-> "none", observed |-> 0, flags |-> {}, principal |-> None,
               quotas |-> FALSE, tokenId |-> None, expiry |-> 0, max |-> 0, issued |-> FALSE]
  /\ secret = None
  /\ scram = [m \in Mechanism |-> None] /\ acls = {}
  /\ quotas = [p \in {"name", "CN=name"} |-> {}] /\ tokens = {}
  /\ next = 1 /\ now = 0 /\ wake = 0 /\ ca = 1 /\ reissue = None /\ up = TRUE
  /\ pc = "idle" /\ pass = NoPass

Goto(l) == pc' = l /\ UNCHANGED <<pass, wake>>
EndPass(after) == pc' = "idle" /\ pass' = NoPass /\ wake' = Min(now + after, MaxTime)
Retry == EndPass(Backoff)

\* patch_status of users without a token: the conditions are replaced by Ready, the flags
\* of credentials are only ever added, and the rest of the status stays.
patch_status(ok, reason, flags, principal, quotasInSync) ==
  status' = [pass.st EXCEPT
               !.ready = IF ok THEN "True" ELSE "False", !.reason = reason,
               !.observed = IF ok THEN pass.gen ELSE @,
               !.flags = @ \cup flags, !.principal = principal, !.quotas = quotasInSync,
               !.issued = FALSE, !.tokenId = status.tokenId,
               !.expiry = status.expiry, !.max = status.max]

Failed(reason) == patch_status(FALSE, reason, {}, pass.st.principal, pass.st.quotas)

\* A pass starts at the latest when it is due; a watch event or a restart starts it
\* earlier.  Its first calls are those of prepare_user and handle_user_lifecycle.
Start ==
  /\ pc = "idle" /\ user.phase # "gone"
  /\ pass' = [gen |-> edit, s |-> kafkaUser, st |-> status, now |-> now,
              reason |-> refusal(kafkaUser, user.phase), password |-> None, ca |-> 0,
              token |-> None, decision |-> "NoOp", published |-> FALSE,
              add |-> {}, del |-> {}]
  /\ pc' = IF refusal(kafkaUser, user.phase) # "none" THEN "refuse"
           ELSE IF user.phase = "deleting" THEN "dropCredential"
           ELSE IF ~user.fin THEN "finalizer"
           ELSE CASE kafkaUser.auth \in Mechanism -> "password"
                  [] kafkaUser.auth = "tls" -> "ca"
                  [] kafkaUser.auth = "token" -> "describe"
                  [] kafkaUser.auth = "external" -> "acls"
  /\ UNCHANGED <<scenario, events, edit, user, status, secret, brokerVars, next, now, wake, ca,
                 reissue, up>>

\* A spec that is refused, or a cluster that is not Ready: also when the user is deleted.
Refuse ==
  /\ pc = "refuse" /\ Failed(pass.reason) /\ Retry
  /\ UNCHANGED <<scenario, events, edit, user, secret, brokerVars, next, now, ca, reissue, up>>

add_finalizer ==
  /\ pc = "finalizer"
  /\ user' = IF user.phase = "gone" THEN user ELSE [user EXCEPT !.fin = TRUE]
  /\ EndPass(0)
  /\ UNCHANGED <<scenario, events, edit, status, secret, brokerVars, next, now, ca, reissue, up>>

-----------------------------------------------------------------------------
(* Deletion: best effort, one call after the other *)

\* A call of the finalizer, whose errors are only logged.
BestEffort(effect) ==
  \/ effect /\ (UNCHANGED events \/ Happens("lost"))
  \/ UNCHANGED brokerVars /\ (Happens("fail") \/ Happens("refuse"))

\* Only the credential of the kind that the spec has now.
drop_credential ==
  /\ pc = "dropCredential"
  /\ \/ /\ Goto("dropAcls")
        /\ BestEffort(
             /\ scram' = IF pass.s.auth \in Mechanism THEN [scram EXCEPT ![pass.s.auth] = None]
                        ELSE scram
             /\ tokens' = IF pass.s.auth = "token" THEN {} ELSE tokens
             /\ UNCHANGED <<acls, quotas>>)
     \/ Happens("fail") /\ UNCHANGED brokerVars /\ Goto("unfinalize")   \* no connection
  /\ UNCHANGED <<scenario, edit, user, status, secret, next, now, ca, reissue, up>>

drop_acls ==
  /\ pc = "dropAcls" /\ Goto("dropQuotas")
  /\ BestEffort(/\ acls' = {a \in acls : a.principal # principal_for(pass.s.auth)}
                /\ UNCHANGED <<scram, quotas, tokens>>)
  /\ UNCHANGED <<scenario, edit, user, status, secret, next, now, ca, reissue, up>>

\* Mutant: quotas that the spec does not name are not removed.
drop_quotas_Named ==
  /\ pc = "dropQuotas" /\ Goto("unfinalize")
  /\ BestEffort(/\ quotas' = [quotas EXCEPT ![principal_for(pass.s.auth)] =
                                IF pass.s.quotas = None THEN @ ELSE {}]
                /\ UNCHANGED <<scram, acls, tokens>>)
  /\ UNCHANGED <<scenario, edit, user, status, secret, next, now, ca, reissue, up>>

drop_quotas ==
  /\ pc = "dropQuotas" /\ Goto("unfinalize")
  /\ BestEffort(/\ quotas' = [quotas EXCEPT ![principal_for(pass.s.auth)] = {}]
                /\ UNCHANGED <<scram, acls, tokens>>)
  /\ UNCHANGED <<scenario, edit, user, status, secret, next, now, ca, reissue, up>>

\* The last finalizer goes, and with the resource the Secret that it owns.
remove_finalizer ==
  /\ pc = "unfinalize"
  /\ user' = [phase |-> "gone", fin |-> FALSE] /\ secret' = None
  /\ EndPass(0)
  /\ UNCHANGED <<scenario, events, edit, status, brokerVars, next, now, ca, reissue, up>>

-----------------------------------------------------------------------------
(* Credentials *)

HasPassword == secret # None /\ secret[1].kind \in {"password", "token"}

\* ensure_password_secret: any Secret with a password is used, also that of a token.
read_password ==
  /\ pc = "password"
  /\ pass' = [pass EXCEPT !.password = IF HasPassword THEN Some(secret[1].value) ELSE None]
  /\ pc' = IF HasPassword THEN "upsert" ELSE "writePassword"
  /\ UNCHANGED <<scenario, events, edit, user, status, secret, brokerVars, next, now, wake, ca,
                 reissue, up>>

write_password ==
  /\ pc = "writePassword"
  /\ secret' = Some([kind |-> "password", value |-> next, aging |-> FALSE])
  /\ pass' = [pass EXCEPT !.password = Some(next)] /\ next' = next + 1
  /\ pc' = "upsert"
  /\ UNCHANGED <<scenario, events, edit, user, status, brokerVars, now, wake, ca, reissue, up>>

\* A call of the broker: it succeeds, fails with or without effect, or is refused.
Call(effect, ok, failed, refused) ==
  \/ effect /\ ok /\ UNCHANGED events
  \/ Happens("lost") /\ effect /\ failed
  \/ Happens("fail") /\ UNCHANGED brokerVars /\ failed
  \/ Happens("refuse") /\ UNCHANGED brokerVars /\ refused

Silent == UNCHANGED status /\ Retry   \* a call that failed without a trace in the status

alter_user_scram_credentials ==
  /\ pc = "upsert"
  /\ Call(/\ scram' = [scram EXCEPT ![pass.s.auth] = pass.password]
          /\ UNCHANGED <<acls, quotas, tokens>>,
          Goto("acls") /\ UNCHANGED status,
          Silent, Failed("BrokerError") /\ Retry)
  /\ UNCHANGED <<scenario, edit, user, secret, next, now, ca, reissue, up>>

\* reconcile_user_cert_secret reads the CA, then the Secret.
load_ca ==
  /\ pc = "ca"
  /\ pass' = [pass EXCEPT !.ca = ca] /\ pc' = "cert"
  /\ UNCHANGED <<scenario, events, edit, user, status, secret, brokerVars, next, now, wake, ca,
                 reissue, up>>

\* A certificate is kept while it is signed by the CA and not about to expire.
Certified(sec, by) == sec # None /\ sec[1].kind = "cert" /\ sec[1].value = by /\ ~sec[1].aging

\* Mutant: a certificate of a retired CA is kept.
ensure_user_cert_secret_AnySigner(by) ==
  secret' = IF secret # None /\ secret[1].kind = "cert" /\ ~secret[1].aging THEN secret
            ELSE Some([kind |-> "cert", value |-> by, aging |-> FALSE])

ensure_user_cert_secret(by) ==
  secret' = IF Certified(secret, by) THEN secret
            ELSE Some([kind |-> "cert", value |-> by, aging |-> FALSE])

reconcile_user_cert_secret ==
  /\ pc = "cert" /\ Goto("acls")
  /\ ensure_user_cert_secret(pass.ca)
  /\ UNCHANGED <<scenario, events, edit, user, status, brokerVars, next, now, ca, reissue, up>>

-----------------------------------------------------------------------------
(* Delegation tokens *)

\* on_admin_error: Ready is False, and TokenIssued too unless a token is known to live.
on_admin_error(reason, live) ==
  /\ status' = [status EXCEPT !.ready = "False", !.reason = reason, !.issued = live]
  /\ Retry

matching ==
  LET preferred == {t \in tokens : pass.st.tokenId = Some(t.id)}
      from == IF preferred # {} THEN preferred ELSE tokens
  IN  IF from = {} THEN None ELSE Some(CHOOSE t \in from : \A o \in from : t.id <= o.id)

describe_delegation_tokens ==
  /\ pc = "describe"
  /\ \/ LET d == decide(pass.s, matching)
        IN  /\ pass' = [pass EXCEPT !.token = matching, !.decision = d]
            /\ pc' = CASE d \in {"Create", "Cycle"} -> "pending"
                       [] d = "Renew" -> "renew" [] d = "NoOp" -> "check"
            /\ UNCHANGED <<events, status, wake>>
     \/ /\ Happens("fail")
        /\ on_admin_error("Transport", pass.st.tokenId # None /\ pass.st.issued)
     \/ /\ Happens("refuse")
        /\ on_admin_error("BrokerError", pass.st.tokenId # None /\ pass.st.issued)
  /\ UNCHANGED <<scenario, edit, user, secret, brokerVars, next, now, ca, reissue, up>>

\* Ready is withdrawn before a token is replaced ("pending"), and before one is put on
\* file that the status does not know ("check").
publish_token_pending ==
  /\ pc \in {"pending", "check"}
  /\ LET publish == pc = "pending" \/ (~pass.published /\ ~status_has_current_ready_token(pass.st, pass.token[1]))
     IN  /\ status' = IF publish THEN [status EXCEPT !.ready = "False", !.reason = "TokenPending",
                                                   !.issued = pc = "check" \/ pass.decision = "Cycle"]
                      ELSE status
         /\ pass' = [pass EXCEPT !.published = @ \/ publish]
  /\ pc' = CASE pc = "check" -> "identity"
             [] pc = "pending" /\ pass.decision = "Cycle" -> "expire"
             [] OTHER -> "create"
  /\ UNCHANGED <<scenario, events, edit, user, secret, brokerVars, next, now, wake, ca, reissue, up>>

\* A call about a token: a broker refuses it once the token is gone.
TokenCall(effect, ok, live) ==
  \/ /\ \E t \in tokens : t.id = pass.token[1].id
     /\ Call(effect, ok, on_admin_error("Transport", live), on_admin_error("BrokerError", live))
  \/ /\ \A t \in tokens : t.id # pass.token[1].id
     /\ on_admin_error("BrokerError", live) /\ UNCHANGED <<events, brokerVars>>

expire_delegation_token ==
  /\ pc = "expire"
  /\ TokenCall(/\ tokens' = {t \in tokens : t.id # pass.token[1].id}
               /\ UNCHANGED <<scram, acls, quotas>>,
               Goto("create") /\ UNCHANGED status, TRUE)
  /\ UNCHANGED <<scenario, edit, user, secret, next, now, ca, reissue, up>>

issue_new_token ==
  /\ pc = "create"
  /\ LET t == [id |-> next, renewers |-> pass.s.renewers, max |-> now + MaxLife,
               expiry |-> now + Min(Period, MaxLife)]
     IN  Call(tokens' = tokens \cup {t} /\ UNCHANGED <<scram, acls, quotas>>,
              /\ pass' = [pass EXCEPT !.token = Some(t)] /\ pc' = "check"
              /\ UNCHANGED <<status, wake>>,
              on_admin_error("Transport", FALSE), on_admin_error("BrokerError", FALSE))
  /\ next' = IF tokens' = tokens THEN next ELSE next + 1
  /\ UNCHANGED <<scenario, edit, user, secret, now, ca, reissue, up>>

\* The broker never issues or renews a token beyond its maximum lifetime.
renew_delegation_token ==
  /\ pc = "renew"
  /\ LET t == pass.token[1]
         renewed == [t EXCEPT !.expiry = Min(now + Period, t.max)]
     IN  TokenCall(/\ tokens' = {o \in tokens : o.id # t.id} \cup {renewed}
                   /\ UNCHANGED <<scram, acls, quotas>>,
                   /\ pass' = [pass EXCEPT !.token = Some(renewed)] /\ pc' = "check"
                   /\ UNCHANGED <<status, wake>>, TRUE)
  /\ UNCHANGED <<scenario, edit, user, secret, next, now, ca, reissue, up>>

\* The identity of the token is on file before its Secret is.
patch_token_identity ==
  /\ pc = "identity" /\ Goto("writeToken")
  /\ status' = [status EXCEPT !.tokenId = Some(pass.token[1].id),
                              !.expiry = pass.token[1].expiry, !.max = pass.token[1].max]
  /\ UNCHANGED <<scenario, events, edit, user, secret, brokerVars, next, now, ca, reissue, up>>

write_token_secret ==
  /\ pc = "writeToken"
  /\ \/ /\ secret' = Some([kind |-> "token", value |-> pass.token[1].id, aging |-> FALSE])
        /\ Goto("acls") /\ UNCHANGED <<status, events>>
     \/ /\ Happens("abort") /\ UNCHANGED secret
        /\ status' = [status EXCEPT !.ready = "False", !.reason = "SecretWriteFailed"] /\ Retry
  /\ UNCHANGED <<scenario, edit, user, brokerVars, next, now, ca, reissue, up>>

-----------------------------------------------------------------------------
(* Access: ACLs, then quotas, then the status *)

Principal == principal_for(pass.s.auth)
IsToken == pass.s.auth = "token"

\* user_access_broker_error: of a token user, only the conditions change.
user_access_broker_error(reason) ==
  /\ IF IsToken
     THEN status' = [status EXCEPT !.ready = "False", !.reason = reason, !.issued = TRUE]
     ELSE Failed("BrokerError")
  /\ Retry

\* A description that fails leaves a trace only in the status of a token user.
Described(ok) ==
  \/ ok /\ UNCHANGED <<events, status, wake>>
  \/ Happens("fail") /\ IF IsToken THEN user_access_broker_error("Transport") ELSE Silent
  \/ Happens("refuse") /\ IF IsToken THEN user_access_broker_error("BrokerError") ELSE Silent

\* What remains to be done, after the ready condition of a token user is withdrawn.
AfterDiff(d, pending, then, otherwise) ==
  /\ pass' = [pass EXCEPT !.add = d.add, !.del = d.del]
  /\ pc' = IF d = diff_acls({}, {}) THEN otherwise
           ELSE IF IsToken /\ ~pass.published THEN pending ELSE then

\* Mutant: what is no longer in the spec is kept.
describe_acls_AddOnly ==
  /\ pc = "acls"
  /\ IF pass.s.acls = None THEN Goto("quotas") /\ UNCHANGED <<events, status>>
     ELSE LET current == {a \in acls : a.principal = Principal}
              d == diff_acls(current, expand_spec_acls(pass.s.acls[1], Principal))
          IN  Described(AfterDiff([d EXCEPT !.del = {}], "pendingAcls", "createAcls", "quotas"))
  /\ UNCHANGED <<scenario, edit, user, secret, brokerVars, next, now, ca, reissue, up>>

describe_acls ==
  /\ pc = "acls"
  /\ IF pass.s.acls = None THEN Goto("quotas") /\ UNCHANGED <<events, status>>
     ELSE LET current == {a \in acls : a.principal = Principal}
              d == diff_acls(current, expand_spec_acls(pass.s.acls[1], Principal))
          IN  Described(AfterDiff(d, "pendingAcls", "createAcls", "quotas"))
  /\ UNCHANGED <<scenario, edit, user, secret, brokerVars, next, now, ca, reissue, up>>

ensure_token_access_pending ==
  /\ pc \in {"pendingAcls", "pendingQuotas"}
  /\ status' = [status EXCEPT !.ready = "False", !.reason = "AccessPending", !.issued = TRUE]
  /\ pass' = [pass EXCEPT !.published = TRUE]
  /\ pc' = IF pc = "pendingAcls" THEN "createAcls" ELSE "alterQuotas"
  /\ UNCHANGED <<scenario, events, edit, user, secret, brokerVars, next, now, wake, ca, reissue, up>>

AccessCall(effect, then) ==
  Call(effect, Goto(then) /\ UNCHANGED status,
       user_access_broker_error("Transport"), user_access_broker_error("BrokerError"))

apply_create_acls ==
  /\ pc = "createAcls"
  /\ IF pass.add = {} THEN Goto("deleteAcls") /\ UNCHANGED <<status, events, brokerVars>>
     ELSE AccessCall(acls' = acls \cup pass.add /\ UNCHANGED <<scram, quotas, tokens>>, "deleteAcls")
  /\ UNCHANGED <<scenario, edit, user, secret, next, now, ca, reissue, up>>

apply_delete_acls ==
  /\ pc = "deleteAcls"
  /\ IF pass.del = {} THEN Goto("quotas") /\ UNCHANGED <<status, events, brokerVars>>
     ELSE AccessCall(acls' = acls \ pass.del /\ UNCHANGED <<scram, quotas, tokens>>, "quotas")
  /\ UNCHANGED <<scenario, edit, user, secret, next, now, ca, reissue, up>>

describe_user_quotas ==
  /\ pc = "quotas"
  /\ IF pass.s.quotas = None THEN Goto("report") /\ UNCHANGED <<events, status>>
     ELSE Described(AfterDiff(diff_acls(quotas[Principal], pass.s.quotas[1]),
                              "pendingQuotas", "alterQuotas", "report"))
  /\ UNCHANGED <<scenario, edit, user, secret, brokerVars, next, now, ca, reissue, up>>

apply_alter_user_quotas ==
  /\ pc = "alterQuotas"
  /\ AccessCall(/\ quotas' = [quotas EXCEPT ![Principal] = (@ \cup pass.add) \ pass.del]
                /\ UNCHANGED <<scram, acls, tokens>>, "report")
  /\ UNCHANGED <<scenario, edit, user, secret, next, now, ca, reissue, up>>

Report ==
  /\ pc = "report"
  /\ IF IsToken
     THEN /\ status' = [status EXCEPT !.ready = "True", !.reason = "TokenReady", !.issued = TRUE,
                                      !.observed = pass.gen, !.quotas = pass.s.quotas # None]
          /\ EndPass(Min(compute_requeue(pass.token[1]), Drift))
     ELSE /\ patch_status(TRUE, "Ready", {pass.s.auth},
                          IF pass.s.auth \in {"tls", "external"} THEN Some(Principal)
                          ELSE pass.st.principal,
                          pass.s.quotas # None)
          /\ EndPass(Drift)
  /\ UNCHANGED <<scenario, events, edit, user, secret, brokerVars, next, now, ca, reissue, up>>

-----------------------------------------------------------------------------
(* The environment *)

\* An error of the API server, or a restart of the operator, ends a pass.
Abort ==
  /\ pc # "idle" /\ Happens("abort") /\ Retry
  /\ UNCHANGED <<scenario, edit, user, status, secret, brokerVars, next, now, ca, reissue, up>>

Edit ==
  /\ user.phase = "live" /\ edit < Len(scenario.edits)
  /\ edit' = edit + 1
  /\ UNCHANGED <<scenario, events, user, status, secret, brokerVars, next, now, wake, ca, reissue, up,
                 pc, pass>>

Delete ==
  /\ scenario.deletes /\ user.phase = "live"
  /\ user' = [user EXCEPT !.phase = IF user.fin THEN "deleting" ELSE "gone"]
  /\ UNCHANGED <<scenario, events, edit, status, secret, brokerVars, next, now, wake, ca, reissue, up,
                 pc, pass>>

\* Passes are timely: one starts no later than it is due and takes at most one unit.
Tick ==
  /\ now < MaxTime
  /\ IF pc = "idle" THEN now < wake \/ user.phase = "gone" ELSE now = pass.now
  /\ now' = now + 1
  /\ tokens' = {t \in tokens : t.expiry > now'}
  /\ UNCHANGED <<scenario, events, edit, user, status, secret, scram, acls, quotas, next, wake, ca,
                 reissue, up, pc, pass>>

Outage ==
  /\ up' = ~up
  /\ IF up THEN Happens("down") ELSE UNCHANGED events
  /\ UNCHANGED <<scenario, edit, user, status, secret, brokerVars, next, now, wake, ca, reissue, pc,
                 pass>>

Age ==
  /\ secret # None /\ secret[1].kind = "cert" /\ Happens("age")
  /\ secret' = [secret EXCEPT ![1].aging = TRUE]
  /\ UNCHANGED <<scenario, edit, user, status, brokerVars, next, now, wake, ca, reissue, up, pc, pass>>

DeleteAcls ==
  /\ acls # {} /\ Happens("drift") /\ acls' = {}
  /\ UNCHANGED <<scenario, edit, user, status, secret, scram, quotas, tokens, next, now, wake, ca,
                 reissue, up, pc, pass>>

RotateCa ==
  /\ Happens("rotate") /\ ca' = ca + 1
  /\ UNCHANGED <<scenario, edit, user, status, secret, brokerVars, next, now, wake, reissue, up, pc,
                 pass>>

\* Once the clients CA has rotated, every pass of the Kafka controller lists the users
\* and reissues the certificates of those that have one.
ListUsers ==
  /\ reissue = None /\ ca > 1 /\ user.phase = "live" /\ kafkaUser.auth = "tls"
  /\ reissue' = Some(ca)
  /\ UNCHANGED <<scenario, events, edit, user, status, secret, brokerVars, next, now, wake, ca, up, pc,
                 pass>>

reissue_tls_user_cert_secrets ==
  /\ reissue # None /\ reissue' = None
  /\ IF user.phase = "gone" THEN UNCHANGED secret ELSE ensure_user_cert_secret(reissue[1])
  /\ UNCHANGED <<scenario, events, edit, user, status, brokerVars, next, now, wake, ca, up, pc, pass>>

PassStep ==
  \/ Refuse \/ add_finalizer
  \/ drop_credential \/ drop_acls \/ drop_quotas \/ remove_finalizer
  \/ read_password \/ write_password \/ alter_user_scram_credentials
  \/ load_ca \/ reconcile_user_cert_secret
  \/ describe_delegation_tokens \/ publish_token_pending \/ expire_delegation_token
  \/ issue_new_token \/ renew_delegation_token \/ patch_token_identity \/ write_token_secret
  \/ describe_acls \/ ensure_token_access_pending \/ apply_create_acls \/ apply_delete_acls
  \/ describe_user_quotas \/ apply_alter_user_quotas \/ Report

Next ==
  \/ Start \/ PassStep \/ Abort \/ Edit \/ Delete \/ Tick \/ Outage \/ Age \/ DeleteAcls
  \/ RotateCa \/ ListUsers \/ reissue_tls_user_cert_secrets

Spec == Init /\ [][Next]_vars

\* Passes end, since their calls have deadlines; passes start, since each but the last
\* of a deleted user asks for another; outages end; the Kafka controller goes on.
FairSpec ==
  /\ Spec
  /\ []<>(pc = "idle") /\ []<>(pc # "idle" \/ user.phase = "gone")
  /\ []<>up /\ WF_vars(reissue_tls_user_cert_secrets)

-----------------------------------------------------------------------------
(* Properties *)

Undisturbed == events["fail"] + events["lost"] + events["refuse"] = 0
AuthOf == {scenario.edits[i].auth : i \in 1..edit}
SameAuth == \A a, b \in AuthOf : a = b
Ready == user.phase = "live" /\ status.ready = "True" /\ status.observed = edit

\* No certificate is reissued for a user who no longer has one.
Steady == events["rotate"] = 0 \/ SameAuth

\* The credential, the ACLs and the quotas of a spec are what the broker has.
HasCredential(s) ==
  /\ s.auth \in Mechanism => HasPassword /\ scram[s.auth] = Some(secret[1].value)
  /\ s.auth = "tls" => secret # None /\ secret[1].kind = "cert"
  /\ s.auth = "token" => /\ secret # None /\ secret[1].kind = "token"
                         /\ status.tokenId = Some(secret[1].value)

HasAcls(s) ==
  s.acls # None => LET principal == principal_for(s.auth)
                   IN  {a \in acls : a.principal = principal}
                         = expand_spec_acls(s.acls[1], principal)

HasQuotas(s) == s.quotas # None => quotas[principal_for(s.auth)] = s.quotas[1]

Applied(s) == HasCredential(s) /\ HasAcls(s) /\ HasQuotas(s)

\* Ready with the current generation means that the broker and the Secret agree with the
\* spec, whatever was edited, refused or lost before.  The exceptions are ACLs that
\* someone else deleted, and a certificate that the Kafka controller reissues for a user
\* who no longer has one.
ReadyMeansApplied ==
  Ready /\ events["drift"] = 0 /\ Steady => Applied(kafkaUser)

\* "One-token-per-user is the operator's contract", also when the answer of a creation is
\* lost or a token is replaced; and a Ready token user has a Secret whose token the broker
\* accepts, up to the end of the token's maximum lifetime: renewal comes in time.
OneLiveToken ==
  /\ \A t, u \in tokens : t = u
  /\ Ready /\ status.reason = "TokenReady" /\ now < status.max /\ Steady =>
       \E t \in tokens : secret = Some([kind |-> "token", value |-> t.id, aging |-> FALSE])

NothingLeft ==
  /\ \A m \in Mechanism : scram[m] = None
  /\ acls = {} /\ tokens = {} /\ \A p \in DOMAIN quotas : quotas[p] = {}

\* A deleted user whose authentication never changed leaves nothing on the broker when
\* no call failed, also if an edit or the end of a pass came in between.
CleanDelete ==
  user.phase = "gone" /\ Undisturbed /\ SameAuth => NothingLeft

Stuck == kafkaUser.flaw \in {"label", "rules"}

\* In the end a user is gone, or is Ready with its spec applied, or the status says why
\* not.  A deleted user whose spec is refused is the one that stays.
UserSettles ==
  <>[]( \/ user.phase = "gone"
        \/ user.phase = "live" /\ Ready /\ Applied(kafkaUser)
             /\ (kafkaUser.auth = "tls" => Certified(secret, ca))
        \/ kafkaUser.flaw # "none" /\ (user.phase = "deleting" => Stuck)
             /\ status.ready = "False" /\ status.reason \in {"MissingClusterLabel", "InvalidSpec"})

=============================================================================
