--------------------------- MODULE UserGrantProofs ---------------------------
(***************************************************************************)
(* Every step of a pass of KafkaUsers keeps the invariant of               *)
(* UserPassProofs: the credential, the ACLs and quotas, the report, the    *)
(* finalizer and the clean-up of a deletion.                               *)
(***************************************************************************)
EXTENDS UserPassProofs

-----------------------------------------------------------------------------
(* A pass that has no access to settle yet: Acls and Quotas *)

\* Steps before the ACLs are described.
LEMMA EarlyAccess ==
  ASSUME Inv, Grant, Moves, pc \in Scram \cup Tls \cup Delegating, pc' \notin Access \ {"acls"}
  PROVE  Acls' /\ Quotas'
  <1>1. Types /\ Acls /\ Quotas /\ pc # "idle"
    BY MovesTypes, Zenon DEF Inv
  <1>2. pc \notin Access
    BY Kinds, Zenon
  <1>3. acls' = acls /\ quotas' = quotas
    BY <1>1, <1>2, GrantAcls, GrantQuotas, Zenon DEF Access, AclStep, QuotaStep
  <1>4. /\ pc' \notin AclStep /\ pc' \notin QuotaStep /\ pc' \notin {"pendingAcls", "createAcls"}
        /\ pc' # "deleteAcls" /\ pc' \notin {"quotas", "report"} \cup QuotaStep /\ pc' # "report"
    BY Zenon DEF Access, AclStep, QuotaStep
  <1>5. ASSUME Ready' PROVE HasQuotas(kafkaUser)' /\ (Undrifted' => HasAcls(kafkaUser)')
    <2>1. Ready /\ kafkaUser' = kafkaUser /\ events' = events
      BY <1>5, MovesReady, Zenon DEF Moves
    <2>2. HasQuotas(kafkaUser)'
      BY <1>1, <1>3, <2>1, ZenonT(60) DEF Quotas, HasQuotas
    <2>3. Undrifted' => HasAcls(kafkaUser)'
      BY <1>1, <1>3, <2>1, Zenon DEF Acls, HasAcls, Undrifted
    <2> QED
      BY <2>2, <2>3, Zenon
  <1>6. Acls'
    BY <1>4, <1>5, Zenon DEF Acls
  <1>7. Quotas'
    BY <1>4, <1>5, Zenon DEF Quotas
  <1> QED
    BY <1>6, <1>7, Zenon

\* The steps of users without a token: nothing is said of tokens.
LEMMA Tokenless ==
  ASSUME Inv, Grant, Moves, pass.s.auth # "token", UNCHANGED <<status, tokens>>,
         pass'.published = pass.published
  PROVE  Statuses' /\ Tokens'
  <1>1. Types /\ Places /\ Statuses /\ Tokens /\ pc # "idle" /\ pass'.s = pass.s /\ pass'.st = pass.st /\ now' = now
    BY MovesTypes, Zenon DEF Inv, Moves, Rest
  <1>2. Places'
    BY MovesPlaces, Zenon
  <1>3. pc' \notin Delegating /\ ~TokenAccess'
    BY <1>1, <1>2, Zenon DEF Places, TokenAccess
  <1>4. /\ pc' \notin {"expire", "create"} /\ pc' # "identity" /\ ~OnFile' /\ pc' # "create" /\ pc' # "pending"
        /\ pc' \notin {"expire", "renew", "check", "identity", "writeToken"}
    BY <1>3, Zenon DEF Delegating, Replacing, OnFile
  <1>5. Statuses'
    BY <1>1, <1>4, Zenon DEF Statuses
  <1>6. Tokens'
    BY <1>1, <1>3, <1>4, Zenon DEF Tokens, Knowing
  <1> QED
    BY <1>5, <1>6, ZenonT(30)

LEMMA ScramKept ==
  ASSUME Inv, Grant, Moves, read_password \/ write_password \/ alter_user_scram_credentials
  PROVE  Inv'
  <1>0. /\ Types /\ Places /\ Credentials /\ pc \in Scram /\ pc # "idle" /\ Rest
        /\ pass.s.auth \in Mechanism /\ pass'.s = pass.s /\ events' = events
    <2>1. pc \in Scram
      BY ZenonT(30) DEF read_password, write_password, alter_user_scram_credentials, Scram
    <2> QED
      BY <2>1, MovesTypes, ZenonT(60) DEF Inv, Moves, Places
  <1>1. pass.s.auth # "token" /\ pass.s.auth # "tls"
    BY <1>0, Zenon DEF Mechanism
  <1>2. (Steady' => Steady) /\ (SameAuth' => SameAuth)
    BY <1>0, ZenonT(30) DEF Steady, SameAuth, AuthOf, Rest
  <1>3. CASE read_password
    <2>1. /\ pc' = IF HasPassword THEN "upsert" ELSE "writePassword"
          /\ pass' = [pass EXCEPT !.password = IF HasPassword THEN Some(secret[1].value) ELSE None]
          /\ UNCHANGED <<status, secret, scram, tokens>>
      BY <1>3, ZenonT(60) DEF read_password, brokerVars
    <2>2. pass'.published = pass.published /\ (HasPassword => pass'.password = Some(secret[1].value))
      BY <1>0, <2>1, PassFields, ZenonT(60) DEF Pass
    <2>3. Statuses' /\ Tokens'
      BY <1>0, <1>1, <2>1, <2>2, Tokenless, Zenon
    <2>4. pc' \notin Access
      BY <2>1, Zenon DEF Access, AclStep, QuotaStep
    <2>5. Acls' /\ Quotas'
      BY <1>0, <2>4, EarlyAccess, ZenonT(60)
    <2>6. HasPassword' <=> HasPassword
      BY <2>1, Zenon DEF HasPassword
    <2>7. ASSUME Steady', Ready' PROVE HasCredential(kafkaUser)' /\ pc' # "writePassword"
      <3>1. Ready /\ kafkaUser' = kafkaUser /\ pass.s = kafkaUser /\ HasCredential(kafkaUser)
        BY <1>0, <1>2, <2>7, MovesReady, ZenonT(60) DEF Credentials
      <3>2. HasPassword
        BY <1>0, <3>1, ZenonT(60) DEF HasCredential
      <3>3. HasCredential(kafkaUser)' <=> HasCredential(kafkaUser)
        BY <2>1, <2>6, <3>1, Zenon DEF HasCredential
      <3> QED
        BY <2>1, <3>1, <3>2, <3>3, ZenonT(30)
    <2>8. Credentials'
      <3>1. pc' = "writePassword" => ~HasPassword'
        BY <2>1, <2>6, Zenon
      <3>2. pc' = "upsert" => HasPassword' /\ pass'.password = Some(secret'[1].value)
        BY <2>1, <2>2, <2>6, ZenonT(30)
      <3>3. ~OnFile'
        BY <2>1, <2>4, ZenonT(30) DEF OnFile, TokenAccess
      <3> QED
        BY <2>4, <2>7, <3>1, <3>2, <3>3, Zenon DEF Credentials
    <2> QED
      BY <2>3, <2>5, <2>8, MovesInv, ZenonT(60)
  <1>4. CASE write_password
    <2>1. /\ pc = "writePassword" /\ pc' = "upsert" /\ pass' = [pass EXCEPT !.password = Some(next)]
          /\ secret' = Some([kind |-> "password", value |-> next, aging |-> FALSE])
          /\ UNCHANGED <<status, tokens>>
      BY <1>4, Zenon DEF write_password, brokerVars
    <2>2. pass'.published = pass.published /\ pass'.password = Some(next)
      BY <1>0, <2>1, PassFields, ZenonT(60) DEF Pass
    <2>3. Statuses' /\ Tokens'
      BY <1>0, <1>1, <2>1, <2>2, Tokenless, Zenon
    <2>4. pc' \notin Access
      BY <2>1, ZenonT(60) DEF Access, AclStep, QuotaStep
    <2>5. Acls' /\ Quotas'
      BY <1>0, <2>4, EarlyAccess, Zenon
    <2>6. HasPassword' /\ pass'.password = Some(secret'[1].value)
      BY <2>1, <2>2, Zenon DEF HasPassword, Some, None
    <2>7. ~(Steady' /\ Ready')
      BY <1>0, <1>2, <2>1, MovesReady, ZenonT(60) DEF Credentials
    <2>8. Credentials'
      <3>1. ~OnFile' /\ pc' # "writePassword"
        BY <2>1, <2>4, ZenonT(30) DEF OnFile, TokenAccess
      <3> QED
        BY <2>4, <2>6, <2>7, <3>1, Zenon DEF Credentials
    <2> QED
      BY <2>3, <2>5, <2>8, MovesInv, Zenon
  <1>5. CASE alter_user_scram_credentials
    <2>1. pc = "upsert" /\ pc' # "idle" /\ UNCHANGED secret
      BY <1>5, MovesTypes, ZenonT(30) DEF alter_user_scram_credentials
    <2>2. /\ pc' = "acls" /\ pass' = pass /\ scram' = [scram EXCEPT ![pass.s.auth] = pass.password]
          /\ UNCHANGED <<status, tokens>>
      BY <1>5, <2>1, Zenon DEF alter_user_scram_credentials, Call, Goto, Silent, Retry, EndPass
    <2>3. Statuses' /\ Tokens'
      BY <1>0, <1>1, <2>2, Tokenless, Zenon
    <2>4. Acls' /\ Quotas'
      BY <1>0, <2>2, EarlyAccess, ZenonT(30)
    <2>5. scram'[pass.s.auth] = pass.password
      BY <1>0, <2>2, Zenon DEF Types, StateTypes
    <2>6. HasPassword' <=> HasPassword
      BY <2>1, Zenon DEF HasPassword
    <2>7. ASSUME Steady' PROVE HasCredential(pass.s)'
      <3>1. HasPassword /\ pass.password = Some(secret[1].value)
        BY <1>0, <1>2, <2>1, <2>7, ZenonT(60) DEF Credentials
      <3> QED
        BY <1>0, <1>1, <2>1, <2>2, <2>5, <2>6, <3>1, Zenon DEF HasCredential
    <2>8. ASSUME Steady', Ready' PROVE HasCredential(kafkaUser)'
      <3>1. kafkaUser' = pass'.s
        BY <1>0, <2>8, MovesReady, ZenonT(30)
      <3> QED
        BY <2>7, <2>8, <3>1, Zenon
    <2>9. Credentials'
      <3>1. ~OnFile' /\ pc' # "writePassword" /\ pc' # "upsert"
        BY <1>0, <1>1, <2>2, ZenonT(30) DEF OnFile, TokenAccess
      <3> QED
        BY <2>7, <2>8, <3>1, Zenon DEF Credentials
    <2> QED
      BY <2>3, <2>4, <2>9, MovesInv, Zenon
  <1> QED
    BY <1>3, <1>4, <1>5, ZenonT(30)

LEMMA CertificateKept ==
  ASSUME Inv, Grant, Moves, load_ca \/ reconcile_user_cert_secret
  PROVE  Inv'
  <1>0. /\ Types /\ Places /\ Credentials /\ pc \in Tls /\ pc # "idle" /\ Rest
        /\ pass.s.auth = "tls" /\ pass'.s = pass.s /\ events' = events
        /\ UNCHANGED <<status, brokerVars>>
    <2>1. pc \in Tls
      BY Zenon DEF load_ca, reconcile_user_cert_secret, Tls
    <2> QED
      BY <2>1, MovesTypes, Zenon DEF Inv, Moves, Places, load_ca, reconcile_user_cert_secret
  <1>1. Steady' => Steady
    BY <1>0, ZenonT(30) DEF Steady, SameAuth, AuthOf, Rest
  <1>2. pass'.published = pass.published /\ pc' \in {"cert", "acls"}
    BY <1>0, PassFields, Zenon DEF Pass, load_ca, reconcile_user_cert_secret, Goto
  <1>3. Statuses' /\ Tokens'
    <2>1. pass.s.auth # "token" /\ UNCHANGED <<status, tokens>>
      BY <1>0, Zenon DEF brokerVars
    <2> QED
      BY <1>2, <2>1, Tokenless, Zenon
  <1>4. Acls' /\ Quotas'
    <2>1. pc' \notin Access \ {"acls"} /\ pc \in Scram \cup Tls \cup Delegating
      BY <1>0, <1>2, ZenonT(30) DEF Access, AclStep, QuotaStep
    <2> QED
      BY <2>1, EarlyAccess, ZenonT(30)
  <1>5. secret' = secret \/ (secret' # None /\ secret'[1].kind = "cert")
    BY SMTT(30), Z3T(30) DEF load_ca, reconcile_user_cert_secret, ensure_user_cert_secret, Some, None
  <1>6. ASSUME pc' = "acls" PROVE HasCredential(pass.s)'
    <2>1. secret' # None /\ secret'[1].kind = "cert"
      BY <1>6, SMTT(30), Z3T(30) DEF load_ca, reconcile_user_cert_secret, ensure_user_cert_secret, Certified, Some, None
    <2> QED
      BY <1>0, <2>1, Zenon DEF HasCredential, Mechanism
  <1>7. ASSUME Steady', Ready' PROVE HasCredential(kafkaUser)'
    <2>1. Ready /\ kafkaUser' = kafkaUser /\ pass.s = kafkaUser /\ HasCredential(kafkaUser)
      BY <1>0, <1>1, <1>7, MovesReady, ZenonT(30) DEF Credentials
    <2>2. secret # None /\ secret[1].kind = "cert"
      BY <1>0, <2>1, Zenon DEF HasCredential
    <2> QED
      BY <1>0, <1>5, <2>1, <2>2, ZenonT(30) DEF HasCredential, Mechanism
  <1>8. Credentials'
    <2>1. /\ pc' # "writePassword" /\ pc' # "upsert" /\ ~OnFile' /\ (pc' \in Access => pc' = "acls")
      BY <1>0, <1>2, Zenon DEF OnFile, TokenAccess, Access, AclStep, QuotaStep
    <2> QED
      BY <1>6, <1>7, <2>1, Zenon DEF Credentials
  <1> QED
    BY <1>3, <1>4, <1>8, MovesInv, ZenonT(60)

-----------------------------------------------------------------------------
(* A pass of a user with a token *)

\* Steps at which the status, or what it is compared with, stays.
LEMMA StatusesKept ==
  ASSUME Inv, Moves, UNCHANGED status, pass'.published = pass.published,
         pc' \in {"expire", "create"} => status.ready # "True",
         (pc = "identity" \/ OnFile)' => (pc = "identity" \/ OnFile) /\ pass'.token = pass.token
  PROVE  Statuses'
  <1>1. Statuses /\ pc # "idle" /\ pass'.st = pass.st /\ pass'.gen = pass.gen
    BY Kinds, ZenonT(30) DEF Inv, Moves
  <1>2. status_has_current_ready_token(pass.st, pass.token[1]) /\ pass'.token = pass.token =>
          status_has_current_ready_token(pass.st, pass.token[1])'
    BY <1>1, ZenonT(60) DEF status_has_current_ready_token
  <1> QED
    BY <1>1, <1>2, Zenon DEF Statuses

\* Steps that leave the tokens alone.
LEMMA TokensKept ==
  ASSUME Inv, Moves, UNCHANGED tokens, pc' # "create", pc' # "pending",
         Knowing' => Knowing /\ pass'.token = pass.token
  PROVE  Tokens'
  <1>1. Tokens /\ now' = now
    BY Zenon DEF Inv, Moves, Rest
  <1> QED
    BY <1>1, Zenon DEF Tokens

\* Steps before the identity of the token is on file.
LEMMA DelegatingCredentials ==
  ASSUME Inv, Grant, Moves, pc \in Delegating, pc' \in Delegating, pc' # "writeToken", UNCHANGED secret
  PROVE  Credentials'
  <1>0. Types /\ Places /\ Credentials /\ pc # "idle" /\ pc # "upsert" /\ Rest /\ events' = events
    BY Kinds, Zenon DEF Inv, Moves, Scram
  <1>1. Steady' => Steady
    BY <1>0, ZenonT(30) DEF Steady, SameAuth, AuthOf, Rest
  <1>2. pc' # "writePassword" /\ pc' # "upsert" /\ pc' \notin Access /\ ~OnFile'
    BY Kinds, Zenon DEF Scram, OnFile, TokenAccess
  <1>3. scram' = scram
    BY <1>0, GrantScram, ZenonT(30)
  <1>4. ASSUME Steady', Ready' PROVE HasCredential(kafkaUser)'
    <2>1. HasCredential(kafkaUser) /\ kafkaUser' = kafkaUser /\ status' = status
      BY <1>0, <1>1, <1>4, MovesReady, Zenon DEF Credentials
    <2> QED
      BY <1>3, <2>1, ZenonT(30) DEF HasCredential, HasPassword
  <1> QED
    BY <1>2, <1>4, Zenon DEF Credentials

\* What remains to be shown of a step before the identity of the token is on file.
LEMMA DelegatingInv ==
  ASSUME Inv, Grant, Moves, pc \in Delegating, pc' \in Delegating, pc' # "writeToken", UNCHANGED secret,
         Statuses', Tokens'
  PROVE  Inv'
  <1>1. pc' \notin Access \ {"acls"} /\ pc \in Scram \cup Tls \cup Delegating
    BY Kinds, Zenon
  <1> QED
    BY <1>1, DelegatingCredentials, EarlyAccess, MovesInv, ZenonT(30)

LEMMA DescribeKept ==
  ASSUME Inv, Grant, Moves, describe_delegation_tokens
  PROVE  Inv'
  <1> DEFINE d == decide(pass.s, matching)
  <1>0. /\ Types /\ Tokens /\ pc = "describe" /\ pc \in Delegating /\ pc # "idle" /\ pc' # "idle"
        /\ UNCHANGED <<secret, brokerVars>> /\ now' = now /\ tokens \subseteq Token
    BY MovesTypes, ZenonT(30) DEF Inv, Moves, Rest, describe_delegation_tokens, Delegating, Types, StateTypes
  <1>1. /\ pass' = [pass EXCEPT !.token = matching, !.decision = d] /\ UNCHANGED status
        /\ pc' = CASE d \in {"Create", "Cycle"} -> "pending" [] d = "Renew" -> "renew" [] d = "NoOp" -> "check"
    BY <1>0, ZenonT(30) DEF describe_delegation_tokens, on_admin_error, Retry, EndPass
  <1> HIDE DEF d
  <1>2. pass'.token = matching /\ pass'.decision = d /\ pass'.published = pass.published
    BY <1>0, <1>1, PassFields, ZenonT(60) DEF Pass
  <1>3. \/ tokens = {} /\ matching = None /\ d = "Create"
        \/ \E t \in tokens : tokens = {t} /\ matching = Some(t) /\ d \in {"Cycle", "Renew", "NoOp"}
    BY <1>0, Matching, Decides, Zenon DEF Tokens, d
  <1>4. pc' \in {"pending", "renew", "check"} /\ (pc' = "pending" => d \in {"Create", "Cycle"})
    BY <1>1, <1>3, Zenon
  <1>5. pc' \in Delegating /\ pc' # "writeToken" /\ pc' \notin {"expire", "create"} /\ pc' # "identity" /\ ~OnFile'
        /\ ~TokenAccess'
    BY <1>4, Zenon DEF Delegating, Replacing, OnFile, TokenAccess, Access, AclStep, QuotaStep
  <1>6. Statuses'
    BY <1>1, <1>2, <1>5, StatusesKept, ZenonT(30)
  <1>7. Tokens'
    <2>1. tokens' = tokens /\ pc' # "create" /\ pc' # "expire"
      BY <1>0, <1>5, Zenon DEF brokerVars
    <2>2. CASE tokens = {} /\ matching = None /\ d = "Create"
      <3>1. pc' = "pending" /\ pass'.decision = "Create"
        BY <1>1, <1>2, <2>2, Zenon
      <3>2. ~Knowing'
        BY <1>5, <3>1, Zenon DEF Knowing
      <3> QED
        BY <2>1, <2>2, <3>1, <3>2, Zenon DEF Tokens
    <2>3. CASE \E t \in tokens : tokens = {t} /\ matching = Some(t) /\ d \in {"Cycle", "Renew", "NoOp"}
      <3>1. PICK t \in tokens : tokens = {t} /\ matching = Some(t) /\ d \in {"Cycle", "Renew", "NoOp"}
        BY <2>3, Zenon
      <3>2. pass'.token # None /\ pass'.token[1] = t
        BY <1>2, <3>1, SMTT(30), Z3T(30) DEF Some, None
      <3>3. pass'.decision # "Create" /\ (pc' = "pending" => pass'.decision \in {"Create", "Cycle"})
        BY <1>2, <1>4, <3>1, ZenonT(60)
      <3>4. t.expiry <= t.max /\ now < t.expiry
        BY <1>0, Zenon DEF Tokens
      <3> QED
        BY <1>0, <2>1, <3>1, <3>2, <3>3, <3>4, Zenon DEF Tokens
    <2> QED
      BY <1>3, <2>2, <2>3, ZenonT(60)
  <1> QED
    BY <1>0, <1>5, <1>6, <1>7, DelegatingInv, ZenonT(30)

LEMMA PublishKept ==
  ASSUME Inv, Grant, Moves, publish_token_pending
  PROVE  Inv'
  <1> DEFINE publish == \/ pc = "pending"
                        \/ ~pass.published /\ ~status_has_current_ready_token(pass.st, pass.token[1])
  <1>0. /\ Types /\ Tokens /\ Statuses /\ pc \in {"pending", "check"} /\ pc # "idle" /\ now' = now
        /\ UNCHANGED <<secret, brokerVars>> /\ status \in Status
        /\ pass'.st = pass.st /\ pass'.gen = pass.gen
    BY MovesTypes, ZenonT(30) DEF Inv, Moves, Rest, publish_token_pending, Types, StateTypes
  <1>1. /\ publish => status'.ready = "False"
        /\ pass' = [pass EXCEPT !.published = @ \/ publish]
        /\ pc' = CASE pc = "check" -> "identity"
                   [] pc = "pending" /\ pass.decision = "Cycle" -> "expire"
                   [] OTHER -> "create"
    BY <1>0, Zenon DEF publish_token_pending, Status
  <1>2. /\ pass'.token = pass.token /\ pass'.decision = pass.decision
        /\ ~publish => pass'.published = pass.published
    BY <1>0, <1>1, PassFields, ZenonT(30) DEF Pass
  <1>3. /\ pc' \in {"identity", "expire", "create"}
        /\ pc' = "identity" => pc = "check"
        /\ pc' = "expire" => pc = "pending" /\ pass.decision = "Cycle"
        /\ pc' = "create" => pc = "pending" /\ pass.decision # "Cycle"
    BY <1>0, <1>1, Zenon
  <1>4. /\ pc \in Delegating /\ pc' \in Delegating /\ pc' # "writeToken" /\ pc' # "pending"
        /\ ~OnFile' /\ ~TokenAccess'
    BY <1>0, <1>3, Zenon DEF Delegating, Replacing, OnFile, TokenAccess, Access, AclStep, QuotaStep
  <1>5. Statuses'
    <2>1. ASSUME status'.ready = "True"
          PROVE  /\ status' = pass'.st /\ ~pass'.published /\ pc' \notin {"expire", "create"}
                 /\ status_has_current_ready_token(pass.st, pass.token[1])'
      <3>1. status' = status /\ ~publish
        BY <1>1, <2>1, ReadyKept, Zenon
      <3>2. status = pass.st /\ ~pass.published
        BY <1>0, <2>1, <3>1, Zenon DEF Statuses
      <3>3. status_has_current_ready_token(pass.st, pass.token[1])
        BY <3>1, <3>2, ZenonT(30)
      <3>4. status_has_current_ready_token(pass.st, pass.token[1])'
        BY <1>0, <1>2, <3>3, ZenonT(30) DEF status_has_current_ready_token
      <3> QED
        BY <1>0, <1>2, <1>3, <3>1, <3>2, <3>4, ZenonT(30)
    <2> QED
      BY <2>1, Zenon DEF Statuses
  <1>6. Tokens'
    <2>1. tokens' = tokens
      BY <1>0, ZenonT(30) DEF brokerVars
    <2>2. pc' = "create" => tokens = {}
      BY <1>0, <1>3, ZenonT(30) DEF Tokens
    <2>3. Knowing' => Knowing
      BY <1>3, <1>4, Zenon DEF Knowing
    <2> QED
      BY <1>0, <1>2, <1>4, <2>1, <2>2, <2>3, Zenon DEF Tokens
  <1> QED
    BY <1>0, <1>4, <1>5, <1>6, DelegatingInv, Zenon

\* A token that a pass has just made, found or renewed.
LEMMA TokenMade ==
  ASSUME Inv, Moves, NEW t, pass'.token = Some(t), tokens' = {t}, OneToken', pc' = "check"
  PROVE  Tokens'
  <1>1. pass'.token # None /\ pass'.token[1] = t
    BY SMTT(30), Z3T(30) DEF Some, None
  <1>2. pc' # "create" /\ pc' # "pending" /\ t \in tokens' /\ tokens' \subseteq {t}
    BY Zenon
  <1> QED
    BY <1>1, <1>2, Zenon DEF Tokens, OneToken

LEMMA KnownToken ==
  ASSUME Tokens, Knowing
  PROVE  /\ pass.token # None /\ tokens \subseteq {pass.token[1]}
         /\ now < pass.token[1].expiry => pass.token[1] \in tokens
  BY Zenon DEF Tokens

LEMMA ExpireKept ==
  ASSUME Inv, Grant, Moves, expire_delegation_token
  PROVE  Inv'
  <1>0. /\ Types /\ Tokens /\ Statuses /\ pc = "expire" /\ pc' # "idle" /\ UNCHANGED secret
    BY MovesTypes, Zenon DEF Inv, Moves, expire_delegation_token
  <1>1. /\ pc' = "create" /\ pass' = pass /\ UNCHANGED status
        /\ tokens' = {t \in tokens : t.id # pass.token[1].id}
    BY <1>0, Zenon DEF expire_delegation_token, TokenCall, Call, Goto, on_admin_error, Retry, EndPass
  <1>2. pc \in Delegating /\ pc' \in Delegating /\ pc' # "writeToken" /\ pc' # "identity" /\ ~OnFile' /\ ~Knowing'
        /\ pc' # "pending"
    BY <1>0, <1>1, Zenon DEF Delegating, Replacing, OnFile, TokenAccess, Access, AclStep, QuotaStep, Knowing
  <1>3. Statuses'
    <2>1. status.ready # "True"
      BY <1>0, Zenon DEF Statuses
    <2> QED
      BY <1>1, <1>2, <2>1, StatusesKept, Zenon
  <1>4. tokens' = {}
    <2>1. Knowing
      BY <1>0, ZenonT(30) DEF Knowing
    <2>2. tokens \subseteq {pass.token[1]}
      BY <1>0, <2>1, KnownToken, ZenonT(30)
    <2> QED
      BY <1>1, <2>2, Zenon
  <1>5. Tokens'
    BY <1>2, <1>4, Zenon DEF Tokens
  <1> QED
    BY <1>0, <1>2, <1>3, <1>5, DelegatingInv, Zenon

LEMMA IssueKept ==
  ASSUME Inv, Grant, Moves, issue_new_token
  PROVE  Inv'
  <1>0. /\ Types /\ Tokens /\ pc = "create" /\ pc # "idle" /\ pc' # "idle" /\ UNCHANGED secret /\ now' = now
    BY MovesTypes, ZenonT(30) DEF Inv, Moves, Rest, issue_new_token
  <1>1. /\ pc' = "check" /\ pass' = [pass EXCEPT !.token = Some(Fresh)] /\ UNCHANGED status
        /\ tokens' = tokens \cup {Fresh}
    BY <1>0, Zenon DEF issue_new_token, Call, Fresh, on_admin_error, Retry, EndPass
  <1>2. /\ pc \in Delegating /\ pc' \in Delegating /\ pc' # "writeToken" /\ pc' # "identity" /\ ~OnFile'
        /\ pc' \notin {"expire", "create"}
    BY <1>0, <1>1, ZenonT(30) DEF Delegating, Replacing, OnFile, TokenAccess, Access, AclStep, QuotaStep
  <1>3. pass'.token = Some(Fresh) /\ pass'.published = pass.published
    BY <1>0, <1>1, PassFields, Zenon DEF Pass
  <1>4. Statuses'
    BY <1>1, <1>2, <1>3, StatusesKept, ZenonT(60)
  <1>5. tokens' = {Fresh} /\ OneToken'
    BY <1>0, <1>1, GrantTokens, ZenonT(30) DEF Tokens
  <1>6. Tokens'
    BY <1>1, <1>3, <1>5, TokenMade, ZenonT(30)
  <1> QED
    BY <1>0, <1>2, <1>4, <1>6, DelegatingInv, Zenon

LEMMA RenewKept ==
  ASSUME Inv, Grant, Moves, renew_delegation_token
  PROVE  Inv'
  <1>0. /\ Types /\ Tokens /\ pc = "renew" /\ pc # "idle" /\ pc' # "idle" /\ UNCHANGED secret /\ now' = now
    BY MovesTypes, ZenonT(30) DEF Inv, Moves, Rest, renew_delegation_token
  <1>1. /\ pc' = "check" /\ pass' = [pass EXCEPT !.token = Some(RenewedToken)] /\ UNCHANGED status
        /\ \E t \in tokens : t.id = pass.token[1].id
        /\ tokens' = {t \in tokens : t.id # pass.token[1].id} \cup {RenewedToken}
    BY <1>0, Zenon DEF renew_delegation_token, TokenCall, Call, RenewedToken, on_admin_error, Retry, EndPass
  <1>2. /\ pc \in Delegating /\ pc' \in Delegating /\ pc' # "writeToken" /\ pc' # "identity" /\ ~OnFile'
        /\ pc' \notin {"expire", "create"}
    BY <1>0, <1>1, Zenon DEF Delegating, Replacing, OnFile, TokenAccess, Access, AclStep, QuotaStep
  <1>3. pass'.token = Some(RenewedToken) /\ pass'.published = pass.published
    BY <1>0, <1>1, PassFields, ZenonT(60) DEF Pass
  <1>4. Statuses'
    BY <1>1, <1>2, <1>3, StatusesKept, ZenonT(30)
  <1>5. tokens' = {RenewedToken} /\ OneToken'
    BY <1>0, <1>1, RenewGrants, ZenonT(30)
  <1>6. Tokens'
    BY <1>1, <1>3, <1>5, TokenMade, ZenonT(30)
  <1> QED
    BY <1>0, <1>2, <1>4, <1>6, DelegatingInv, Zenon

LEMMA IdentityKept ==
  ASSUME Inv, Grant, Moves, patch_token_identity
  PROVE  Inv'
  <1>0. /\ Types /\ Tokens /\ Statuses /\ Credentials /\ pc = "identity" /\ pc # "idle" /\ Rest
        /\ status \in Status /\ events' = events /\ now' = now /\ UNCHANGED <<secret, brokerVars>>
        /\ pc' = "writeToken" /\ pass' = pass
        /\ status' = [status EXCEPT !.tokenId = Some(pass.token[1].id),
                                    !.expiry = pass.token[1].expiry, !.max = pass.token[1].max]
    BY MovesTypes, ZenonT(60) DEF Inv, Moves, Rest, Types, StateTypes, patch_token_identity, Goto
  <1>1. status'.tokenId = Some(pass.token[1].id)
    BY <1>0, Zenon DEF Status
  <1>2. /\ pc \in Delegating /\ pc' \notin Access /\ pc' # "writePassword" /\ pc' # "upsert" /\ Knowing
        /\ pc' \notin {"expire", "create"} /\ pc' # "create" /\ pc' # "pending"
    BY <1>0, Zenon DEF Delegating, Access, AclStep, QuotaStep, Knowing
  <1>3. Statuses'
    <2>1. ASSUME status'.ready = "True"
          PROVE  /\ status' = pass'.st /\ ~pass'.published
                 /\ status_has_current_ready_token(pass.st, pass.token[1])'
      <3>1. status' = status
        BY <2>1, ReadyKept, ZenonT(30)
      <3> QED
        BY <1>0, <2>1, <3>1, ZenonT(30) DEF Statuses, status_has_current_ready_token
    <2> QED
      BY <1>2, <2>1, Zenon DEF Statuses
  <1>4. Tokens'
    BY <1>0, <1>2, TokensKept, ZenonT(30) DEF brokerVars
  <1>5. Acls' /\ Quotas'
    BY <1>2, EarlyAccess, ZenonT(60)
  <1>6. Credentials'
    <2>1. Steady' => Steady
      BY <1>0, Zenon DEF Steady, SameAuth, AuthOf, Rest
    <2>2. Identified'
      BY <1>0, <1>1, ZenonT(30) DEF Identified
    <2>3. ASSUME Steady', Ready' PROVE HasCredential(kafkaUser)'
      <3>1. HasCredential(kafkaUser) /\ kafkaUser' = kafkaUser /\ status' = status
        BY <1>0, <2>1, <2>3, MovesReady, ZenonT(60) DEF Credentials
      <3> QED
        BY <1>0, <3>1, ZenonT(30) DEF HasCredential, HasPassword, brokerVars
    <2> QED
      BY <1>2, <2>2, <2>3, Zenon DEF Credentials
  <1> QED
    BY <1>3, <1>4, <1>5, <1>6, MovesInv, ZenonT(60)

LEMMA WriteTokenKept ==
  ASSUME Inv, Grant, Moves, write_token_secret
  PROVE  Inv'
  <1>0. /\ Types /\ Places /\ Tokens /\ Statuses /\ Credentials /\ pc = "writeToken" /\ pc' # "idle"
        /\ UNCHANGED brokerVars
    BY MovesTypes, Zenon DEF Inv, write_token_secret
  <1>1. /\ pc' = "acls" /\ pass' = pass /\ UNCHANGED status
        /\ secret' = Some([kind |-> "token", value |-> pass.token[1].id, aging |-> FALSE])
    BY <1>0, Zenon DEF write_token_secret, Goto, Retry, EndPass
  <1>2. /\ pc \in Delegating /\ pass.s.auth = "token" /\ pc' \in Access /\ Knowing /\ OnFile /\ OnFile'
        /\ pc' \notin {"expire", "create"} /\ pc' # "create" /\ pc' # "pending"
        /\ pc' # "writePassword" /\ pc' # "upsert" /\ pc' \notin Access \ {"acls"}
    BY <1>0, <1>1, Zenon DEF Places, Delegating, Access, AclStep, QuotaStep, Knowing, OnFile, TokenAccess
  <1>3. Statuses'
    BY <1>1, <1>2, StatusesKept, Zenon
  <1>4. Tokens'
    BY <1>0, <1>1, <1>2, TokensKept, ZenonT(60) DEF brokerVars
  <1>5. Acls' /\ Quotas'
    BY <1>2, EarlyAccess, Zenon
  <1>6. Credentials'
    <2>1. Identified /\ Identified'
      BY <1>0, <1>1, <1>2, ZenonT(30) DEF Credentials, Identified
    <2>2. secret'[1].value = pass.token[1].id /\ secret'[1].kind = "token" /\ secret' # None
      BY <1>1, ZenonT(30) DEF Some, None
    <2>3. HasCredential(pass.s)'
      BY <1>1, <1>2, <2>1, <2>2, ZenonT(30) DEF HasCredential, Identified, Mechanism
    <2>4. ASSUME Ready' PROVE HasCredential(kafkaUser)'
      <3>1. kafkaUser' = pass'.s
        BY <1>1, <2>4, MovesReady, ZenonT(30)
      <3> QED
        BY <2>3, <3>1, Zenon
    <2> QED
      BY <1>2, <2>1, <2>3, <2>4, Zenon DEF Credentials
  <1> QED
    BY <1>3, <1>4, <1>5, <1>6, MovesInv, Zenon

-----------------------------------------------------------------------------
(* A pass that settles the access of its user *)

\* The credential stays while the ACLs and the quotas are settled.
LEMMA AccessCredentials ==
  ASSUME Inv, Grant, Moves, pc \in Access, pc' \in Access, UNCHANGED secret, pass'.token = pass.token,
         status'.tokenId = status.tokenId,
         (UNCHANGED status /\ pass'.published = pass.published) \/ status'.ready = "False"
  PROVE  Statuses' /\ Tokens' /\ Credentials'
  <1>0. /\ Types /\ Places /\ Tokens /\ Statuses /\ Credentials /\ pc # "idle" /\ Rest
        /\ pass'.s = pass.s /\ events' = events
    BY Kinds, Zenon DEF Inv, Moves
  <1>1. /\ pc \notin {"upsert", "expire", "create", "renew"} /\ pc' \notin {"expire", "create"}
        /\ pc' # "identity" /\ pc' # "writeToken" /\ pc' # "create" /\ pc' # "pending"
        /\ pc' # "writePassword" /\ pc' # "upsert"
        /\ pc' \notin {"expire", "renew", "check", "identity", "writeToken"}
    BY Zenon DEF Access, AclStep, QuotaStep
  <1>2. scram' = scram /\ tokens' = tokens
    BY <1>1, Zenon DEF Grant, brokerVars
  <1>3. (OnFile' => OnFile) /\ (Knowing' => Knowing)
    BY <1>0, <1>1, Zenon DEF OnFile, Knowing, TokenAccess
  <1>4. Statuses'
    <2>1. CASE UNCHANGED status /\ pass'.published = pass.published
      BY <1>1, <1>3, <2>1, StatusesKept, Zenon
    <2>2. CASE status'.ready = "False"
      <3>1. status'.ready # "True"
        BY <2>2, Zenon
      <3> QED
        BY <3>1, Zenon DEF Statuses
    <2> QED
      BY <2>1, <2>2, Zenon
  <1>5. Tokens'
    BY <1>1, <1>2, <1>3, TokensKept, Zenon
  <1>6. Credentials'
    <2>1. Steady' => Steady
      BY <1>0, ZenonT(60) DEF Steady, SameAuth, AuthOf, Rest
    <2>2. OnFile' => Identified'
      BY <1>0, <1>3, Zenon DEF Credentials, Identified
    <2>3. HasPassword' <=> HasPassword
      BY Zenon DEF HasPassword
    <2>4. Steady' => HasCredential(pass.s)'
      BY <1>0, <1>2, <2>1, <2>3, Zenon DEF Credentials, HasCredential
    <2>5. ASSUME Steady', Ready' PROVE HasCredential(kafkaUser)'
      <3>1. kafkaUser' = pass'.s
        BY <1>0, <2>5, MovesReady, ZenonT(30)
      <3> QED
        BY <2>4, <2>5, <3>1, Zenon
    <2> QED
      BY <1>1, <2>2, <2>4, <2>5, ZenonT(60) DEF Credentials
  <1> QED
    BY <1>4, <1>5, <1>6, ZenonT(60)

\* What the broker has for the spec of the pass.
LEMMA AclsStay ==
  ASSUME UNCHANGED acls, pass'.s = pass.s
  PROVE  /\ HasAcls(pass.s)' <=> HasAcls(pass.s)
         /\ Held(pass.s)' = Held(pass.s) /\ Asked(pass.s)' = Asked(pass.s) /\ Principal' = Principal
  BY Zenon DEF HasAcls, Held, Asked, Principal

LEMMA QuotasStay ==
  ASSUME UNCHANGED quotas, pass'.s = pass.s
  PROVE  (HasQuotas(pass.s)' <=> HasQuotas(pass.s)) /\ Principal' = Principal
  BY Zenon DEF HasQuotas, Principal

LEMMA HeldIsAsked ==
  ASSUME NEW s, s.acls # None
  PROVE  HasAcls(s) <=> Held(s) = Asked(s)
  BY Zenon DEF HasAcls, Held, Asked

\* Steps that leave the quotas alone, and that do not look at them.
LEMMA QuotasKept ==
  ASSUME Inv, Grant, Moves, UNCHANGED quotas, pc' \notin QuotaStep, pc' # "report"
  PROVE  Quotas'
  <1>0. Quotas /\ pass'.s = pass.s
    BY Zenon DEF Inv, Moves
  <1>1. ASSUME Ready' PROVE HasQuotas(kafkaUser)'
    <2>1. Ready /\ kafkaUser' = kafkaUser
      BY <1>1, MovesReady, ZenonT(30)
    <2> QED
      BY <1>0, <2>1, Zenon DEF Quotas, HasQuotas
  <1> QED
    BY <1>1, Zenon DEF Quotas

\* Steps that leave the ACLs alone once they are settled.
LEMMA AclsKept ==
  ASSUME Inv, Grant, Moves, UNCHANGED acls, pc' \in {"quotas", "report"} \cup QuotaStep,
         Undrifted => HasAcls(pass.s)
  PROVE  Acls'
  <1>0. pass'.s = pass.s /\ events' = events
    BY Zenon DEF Moves
  <1>1. pc' \notin AclStep /\ pc' \notin {"pendingAcls", "createAcls"} /\ pc' # "deleteAcls"
    BY Zenon DEF AclStep, QuotaStep
  <1>2. Undrifted' => HasAcls(pass.s)'
    BY <1>0, AclsStay, Zenon DEF Undrifted
  <1>3. ASSUME Ready', Undrifted' PROVE HasAcls(kafkaUser)'
    <2>1. kafkaUser' = pass'.s
      BY <1>0, <1>3, MovesReady, ZenonT(60)
    <2> QED
      BY <1>2, <1>3, <2>1, Zenon
  <1> QED
    BY <1>1, <1>2, <1>3, Zenon DEF Acls

\* The differences, or none, between what the broker has and what the spec asks for.
LEMMA DiffersKept ==
  ASSUME Types, pc # "idle", NEW a, NEW d, NEW p, NEW t, NEW o, o # p, o # t, Differs(a, d, p, t, o)
  PROVE  /\ pass'.add = a /\ pass'.del = d /\ pass'.token = pass.token
         /\ pass'.published = pass.published /\ UNCHANGED <<events, status>>
         /\ pc' \in {p, t, o} /\ (pc' = o <=> a = {} /\ d = {})
  BY PassFields, ZenonT(30) DEF Differs, Pass

LEMMA MovesNoFailure ==
  ASSUME Moves
  PROVE  ~Fails /\ \A l : Answers(l) => Goto(l) /\ UNCHANGED <<status, events>>
  <1>1. pc' # "idle"
    BY Kinds, ZenonT(60) DEF Moves
  <1> QED
    BY <1>1, ZenonT(30) DEF Fails, Answers, Silent, user_access_broker_error, Retry, EndPass

LEMMA DescribeAclsKept ==
  ASSUME Inv, Grant, Moves, describe_acls
  PROVE  Inv'
  <1>0. /\ Types /\ Acls /\ pc # "idle" /\ pass'.s = pass.s /\ events' = events
        /\ pc = "acls" /\ UNCHANGED <<secret, brokerVars>>
    BY DescribeAclsCases, MovesTypes, ZenonT(30) DEF Inv, Moves
  <1>1. UNCHANGED <<acls, quotas>> /\ pc \in Access
    BY <1>0, Zenon DEF brokerVars, Access
  <1>2. CASE pass.s.acls = None /\ Goto("quotas") /\ UNCHANGED <<events, status>>
    <2>1. pc' = "quotas" /\ pass' = pass /\ status' = status
      BY <1>2, Zenon DEF Goto
    <2>2. pc' \in Access /\ pc' \notin QuotaStep /\ pc' # "report" /\ pc' \in {"quotas", "report"} \cup QuotaStep
      BY <2>1, ZenonT(30) DEF Access, QuotaStep
    <2>3. Statuses' /\ Tokens' /\ Credentials'
      BY <1>0, <1>1, <2>1, <2>2, AccessCredentials, ZenonT(30)
    <2>4. Acls'
      <3>1. HasAcls(pass.s)
        BY <1>2, Zenon DEF HasAcls
      <3> QED
        BY <1>1, <2>2, <3>1, AclsKept, ZenonT(30)
    <2>5. Quotas'
      BY <1>1, <2>2, QuotasKept, ZenonT(30)
    <2> QED
      BY <2>3, <2>4, <2>5, MovesInv, ZenonT(30)
  <1>3. CASE /\ pass.s.acls # None
             /\ Differs(Asked(pass.s) \ Held(pass.s), Held(pass.s) \ Asked(pass.s),
                        "pendingAcls", "createAcls", "quotas")
    <2>1. /\ pass'.add = Asked(pass.s) \ Held(pass.s) /\ pass'.del = Held(pass.s) \ Asked(pass.s)
          /\ pass'.token = pass.token /\ pass'.published = pass.published /\ status' = status
          /\ pc' \in {"pendingAcls", "createAcls", "quotas"}
          /\ pc' = "quotas" <=> Asked(pass.s) \ Held(pass.s) = {} /\ Held(pass.s) \ Asked(pass.s) = {}
      BY <1>0, <1>3, DiffersKept, Zenon
    <2>2. pc' \in Access /\ pc' \notin QuotaStep /\ pc' # "report" /\ pc' # "deleteAcls"
      BY <2>1, ZenonT(30) DEF Access, AclStep, QuotaStep
    <2>3. Statuses' /\ Tokens' /\ Credentials'
      BY <1>0, <1>1, <2>1, <2>2, AccessCredentials, ZenonT(30)
    <2>4. HasAcls(pass.s) <=> pc' = "quotas"
      <3>1. Held(pass.s) = Asked(pass.s) <=>
              Asked(pass.s) \ Held(pass.s) = {} /\ Held(pass.s) \ Asked(pass.s) = {}
        BY Zenon
      <3> QED
        BY <1>3, <2>1, <3>1, HeldIsAsked, Zenon
    <2>5. Acls'
      <3>1. CASE pc' = "quotas"
        BY <1>1, <2>4, <3>1, AclsKept, ZenonT(30)
      <3>2. CASE pc' # "quotas"
        <4>1. Held(pass.s)' = Held(pass.s) /\ Asked(pass.s)' = Asked(pass.s) /\ Principal' = Principal
          BY <1>0, <1>1, AclsStay, ZenonT(30)
        <4>2. pass'.s.acls # None /\ pass'.add \subseteq Asked(pass.s)'
          BY <1>0, <1>3, <2>1, <4>1, ZenonT(30)
        <4>3. \A a \in pass'.del : a.principal = Principal'
          BY <2>1, <4>1, ZenonT(30) DEF Held, Principal
        <4>4. ~(Ready' /\ Undrifted')
          <5>1. SUFFICES ASSUME Ready', Undrifted' PROVE FALSE
            BY Zenon
          <5>2. Ready /\ Undrifted /\ pass.s = kafkaUser
            BY <1>0, <5>1, MovesReady, ZenonT(30) DEF Undrifted
          <5> QED
            BY <1>0, <2>4, <3>2, <5>2, ZenonT(30) DEF Acls
        <4>5. pc' \notin {"quotas", "report"} \cup QuotaStep
          BY <2>1, <3>2, Zenon DEF QuotaStep
        <4> QED
          BY <2>1, <2>2, <4>1, <4>2, <4>3, <4>4, <4>5, Zenon DEF Acls
      <3> QED
        BY <3>1, <3>2, Zenon
    <2>6. Quotas'
      BY <1>1, <2>2, QuotasKept, ZenonT(30)
    <2> QED
      BY <2>3, <2>5, <2>6, MovesInv, Zenon
  <1> QED
    BY <1>2, <1>3, DescribeAclsCases, MovesNoFailure, Zenon

LEMMA DescribeQuotasKept ==
  ASSUME Inv, Grant, Moves, describe_user_quotas
  PROVE  Inv'
  <1>0. /\ Types /\ Acls /\ Quotas /\ pc # "idle" /\ pass'.s = pass.s /\ events' = events
        /\ pc = "quotas" /\ UNCHANGED <<secret, brokerVars>>
    BY DescribeQuotasCases, MovesTypes, ZenonT(30) DEF Inv, Moves
  <1>1. UNCHANGED <<acls, quotas>> /\ pc \in Access /\ (Undrifted => HasAcls(pass.s))
    BY <1>0, ZenonT(30) DEF brokerVars, Access, Acls
  <1>2. CASE pass.s.quotas = None /\ Goto("report") /\ UNCHANGED <<events, status>>
    <2>1. pc' = "report" /\ pass' = pass /\ status' = status
      BY <1>2, ZenonT(30) DEF Goto
    <2>2. pc' \in Access /\ pc' \notin QuotaStep /\ pc' \in {"quotas", "report"} \cup QuotaStep
      BY <2>1, ZenonT(30) DEF Access, QuotaStep
    <2>3. Statuses' /\ Tokens' /\ Credentials'
      BY <1>0, <1>1, <2>1, <2>2, AccessCredentials, ZenonT(30)
    <2>4. Acls'
      BY <1>1, <2>2, AclsKept, ZenonT(30)
    <2>5. HasQuotas(pass.s)'
      BY <1>0, <1>2, ZenonT(30) DEF HasQuotas
    <2>6. Ready' => HasQuotas(kafkaUser)'
      BY <1>0, <2>5, MovesReady, Zenon
    <2>7. Quotas'
      BY <2>2, <2>5, <2>6, Zenon DEF Quotas
    <2> QED
      BY <2>3, <2>4, <2>7, MovesInv, Zenon
  <1>3. CASE /\ pass.s.quotas # None
             /\ Differs(pass.s.quotas[1] \ quotas[Principal], quotas[Principal] \ pass.s.quotas[1],
                        "pendingQuotas", "alterQuotas", "report")
    <2>1. /\ pass'.add = pass.s.quotas[1] \ quotas[Principal]
          /\ pass'.del = quotas[Principal] \ pass.s.quotas[1]
          /\ pass'.token = pass.token /\ pass'.published = pass.published /\ status' = status
          /\ pc' \in {"pendingQuotas", "alterQuotas", "report"}
          /\ pc' = "report" <=> /\ pass.s.quotas[1] \ quotas[Principal] = {}
                                /\ quotas[Principal] \ pass.s.quotas[1] = {}
      BY <1>0, <1>3, DiffersKept, ZenonT(60)
    <2>2. pc' \in Access /\ pc' \in {"quotas", "report"} \cup QuotaStep
      BY <2>1, Zenon DEF Access, QuotaStep
    <2>3. Statuses' /\ Tokens' /\ Credentials'
      BY <1>0, <1>1, <2>1, <2>2, AccessCredentials, Zenon
    <2>4. Acls'
      BY <1>1, <2>2, AclsKept, Zenon
    <2>5. HasQuotas(pass.s) <=> pc' = "report"
      <3>1. quotas[Principal] = pass.s.quotas[1] <=>
              pass.s.quotas[1] \ quotas[Principal] = {} /\ quotas[Principal] \ pass.s.quotas[1] = {}
        BY ZenonT(30)
      <3> QED
        BY <1>3, <2>1, <3>1, Zenon DEF HasQuotas, Principal
    <2>6. (HasQuotas(pass.s)' <=> HasQuotas(pass.s)) /\ Principal' = Principal
      BY <1>0, <1>1, QuotasStay, ZenonT(60)
    <2>7. Ready' => HasQuotas(kafkaUser)' /\ pc' \notin QuotaStep
      <3>1. SUFFICES ASSUME Ready' PROVE HasQuotas(kafkaUser)' /\ pc' \notin QuotaStep
        BY Zenon
      <3>2. Ready /\ pass.s = kafkaUser /\ kafkaUser' = pass'.s
        BY <1>0, <3>1, MovesReady, ZenonT(30)
      <3>3. HasQuotas(pass.s) /\ pc' = "report"
        BY <1>0, <2>5, <3>2, ZenonT(60) DEF Quotas
      <3> QED
        BY <2>6, <3>2, <3>3, ZenonT(60) DEF QuotaStep
    <2>8. Quotas'
      BY <1>0, <1>1, <1>3, <2>1, <2>5, <2>6, <2>7, Zenon DEF Quotas
    <2> QED
      BY <2>3, <2>4, <2>8, MovesInv, Zenon
  <1> QED
    BY <1>2, <1>3, DescribeQuotasCases, MovesNoFailure, Zenon

LEMMA AccessPendingKept ==
  ASSUME Inv, Grant, Moves, ensure_token_access_pending
  PROVE  Inv'
  <1>0. /\ Types /\ Acls /\ Quotas /\ pc # "idle" /\ pass'.s = pass.s /\ events' = events
        /\ pc \in {"pendingAcls", "pendingQuotas"} /\ UNCHANGED <<secret, brokerVars>> /\ status \in Status
        /\ status' = [status EXCEPT !.ready = "False", !.reason = "AccessPending", !.issued = TRUE]
        /\ pass' = [pass EXCEPT !.published = TRUE]
        /\ pc' = IF pc = "pendingAcls" THEN "createAcls" ELSE "alterQuotas"
    BY MovesTypes, ZenonT(30) DEF Inv, Moves, Types, StateTypes, ensure_token_access_pending
  <1>1. UNCHANGED <<acls, quotas>> /\ pc \in Access /\ pc' \in Access
    BY <1>0, Zenon DEF brokerVars, Access, AclStep, QuotaStep
  <1>2. status'.tokenId = status.tokenId /\ status'.ready = "False" /\ ~Ready'
    BY <1>0, Zenon DEF Status, Ready
  <1>3. pass'.add = pass.add /\ pass'.del = pass.del /\ pass'.token = pass.token
    BY <1>0, PassFields, Zenon DEF Pass
  <1>4. Statuses' /\ Tokens' /\ Credentials'
    BY <1>0, <1>1, <1>2, <1>3, AccessCredentials, Zenon
  <1>5. /\ Held(pass.s)' = Held(pass.s) /\ Asked(pass.s)' = Asked(pass.s) /\ Principal' = Principal
        /\ HasAcls(pass.s)' <=> HasAcls(pass.s)
    BY <1>0, <1>1, AclsStay, ZenonT(30)
  <1>6. CASE pc = "pendingAcls"
    <2>1. /\ pc' = "createAcls" /\ pc \in AclStep /\ pc' # "deleteAcls" /\ pc' # "report"
          /\ pc' \notin {"quotas", "report"} \cup QuotaStep /\ pc' \notin QuotaStep
      BY <1>0, <1>6, Zenon DEF AclStep, QuotaStep
    <2>2. Acls'
      BY <1>0, <1>2, <1>3, <1>5, <1>6, <2>1, Zenon DEF Acls, Undrifted
    <2>3. Quotas'
      BY <1>1, <2>1, QuotasKept, ZenonT(30)
    <2> QED
      BY <1>4, <2>2, <2>3, MovesInv, Zenon
  <1>7. CASE pc = "pendingQuotas"
    <2>1. /\ pc' = "alterQuotas" /\ pc \in QuotaStep /\ pc' \in {"quotas", "report"} \cup QuotaStep
          /\ pc \in {"quotas", "report"} \cup QuotaStep /\ pc' # "report"
      BY <1>0, <1>7, Zenon DEF QuotaStep
    <2>2. Acls'
      <3>1. Undrifted => HasAcls(pass.s)
        BY <1>0, <2>1, Zenon DEF Acls
      <3> QED
        BY <1>1, <2>1, <3>1, AclsKept, ZenonT(60)
    <2>3. Quotas'
      BY <1>0, <1>1, <1>2, <1>3, <1>5, <2>1, Zenon DEF Quotas
    <2> QED
      BY <1>4, <2>2, <2>3, MovesInv, Zenon
  <1> QED
    BY <1>0, <1>6, <1>7, ZenonT(30)

LEMMA CreateAclsKept ==
  ASSUME Inv, Grant, Moves, apply_create_acls
  PROVE  Inv'
  <1>0. /\ Types /\ Acls /\ pc # "idle" /\ pc' # "idle" /\ pass'.s = pass.s /\ events' = events
        /\ pc = "createAcls" /\ UNCHANGED secret
    BY MovesTypes, Zenon DEF Inv, Moves, apply_create_acls
  <1>1. pc' = "deleteAcls" /\ pass' = pass /\ UNCHANGED status /\ acls' = acls \cup pass.add /\ UNCHANGED quotas
    BY <1>0, Zenon DEF apply_create_acls, AccessCall, Call, Goto, user_access_broker_error, Retry, EndPass, brokerVars
  <1>2. /\ pc \in Access /\ pc' \in Access /\ pc \in AclStep /\ pc' \notin QuotaStep /\ pc' # "report"
        /\ pc' \notin {"quotas", "report"} \cup QuotaStep /\ pc' \notin {"pendingAcls", "createAcls"}
    BY <1>0, <1>1, Zenon DEF Access, AclStep, QuotaStep
  <1>3. Statuses' /\ Tokens' /\ Credentials'
    BY <1>0, <1>1, <1>2, AccessCredentials, ZenonT(60)
  <1>4. Quotas'
    BY <1>1, <1>2, QuotasKept, ZenonT(30)
  <1>5. Acls'
    <2>1. pass.s.acls # None /\ pass.add \subseteq Asked(pass.s)
      BY <1>0, <1>2, ZenonT(30) DEF Acls
    <2>2. Asked(pass.s)' = Asked(pass.s) /\ Principal' = Principal
      BY <1>1, ZenonT(30) DEF Asked, Principal
    <2>3. Held(pass.s)' = Held(pass.s) \cup pass.add
      <3>1. \A a \in pass.add : a.principal = principal_for(pass.s.auth)
        BY <2>1, AskedPrincipal, Zenon
      <3>2. Held(pass.s) = {a \in acls : a.principal = principal_for(pass.s.auth)}
        BY Zenon DEF Held
      <3>3. Held(pass.s)' = {a \in acls' : a.principal = principal_for(pass.s.auth)}
        BY <1>1, ZenonT(30) DEF Held
      <3> QED
        BY <1>1, <3>1, <3>2, <3>3, ZenonT(60)
    <2>4. ASSUME Undrifted'
          PROVE  /\ \A a \in pass'.del : a.principal = Principal'
                 /\ Held(pass.s)' \ pass'.del = Asked(pass.s)' /\ ~Ready'
      <3>1. Undrifted
        BY <1>0, <2>4, ZenonT(30) DEF Undrifted
      <3>2. /\ \A a \in pass.del : a.principal = Principal
            /\ pass.add = Asked(pass.s) \ Held(pass.s) /\ pass.del = Held(pass.s) \ Asked(pass.s)
        BY <1>0, <1>2, <3>1, ZenonT(30) DEF Acls
      <3>3. ~Ready'
        BY <1>0, <1>2, <3>1, MovesReady, ZenonT(30) DEF Acls
      <3>4. (Held(pass.s) \cup pass.add) \ pass.del = Asked(pass.s)
        BY <3>2, ZenonT(30)
      <3> QED
        BY <1>1, <2>2, <2>3, <3>2, <3>3, <3>4, ZenonT(30)
    <2> QED
      BY <1>1, <1>2, <2>1, <2>2, <2>4, ZenonT(60) DEF Acls
  <1> QED
    BY <1>3, <1>4, <1>5, MovesInv, ZenonT(60)

LEMMA DeleteAclsKept ==
  ASSUME Inv, Grant, Moves, apply_delete_acls
  PROVE  Inv'
  <1>0. /\ Types /\ Acls /\ pc # "idle" /\ pc' # "idle" /\ pass'.s = pass.s /\ events' = events
        /\ pc = "deleteAcls" /\ UNCHANGED secret
    BY MovesTypes, Zenon DEF Inv, Moves, apply_delete_acls
  <1>1. pc' = "quotas" /\ pass' = pass /\ UNCHANGED status /\ acls' = acls \ pass.del /\ UNCHANGED quotas
    BY <1>0, Zenon DEF apply_delete_acls, AccessCall, Call, Goto, user_access_broker_error, Retry, EndPass, brokerVars
  <1>2. /\ pc \in Access /\ pc' \in Access /\ pc \in AclStep /\ pc' \notin QuotaStep /\ pc' # "report"
        /\ pc' \notin AclStep /\ pc' \notin {"pendingAcls", "createAcls"} /\ pc' # "deleteAcls"
    BY <1>0, <1>1, Zenon DEF Access, AclStep, QuotaStep
  <1>3. Statuses' /\ Tokens' /\ Credentials'
    BY <1>0, <1>1, <1>2, AccessCredentials, Zenon
  <1>4. Quotas'
    BY <1>1, <1>2, QuotasKept, ZenonT(30)
  <1>5. Acls'
    <2>1. ASSUME Undrifted'
          PROVE  HasAcls(pass.s)' /\ ~Ready'
      <3>1. Undrifted
        BY <1>0, <2>1, ZenonT(30) DEF Undrifted
      <3>2. ~Ready'
        BY <1>0, <1>2, <3>1, MovesReady, ZenonT(30) DEF Acls
      <3>3. Held(pass.s) \ pass.del = Asked(pass.s) /\ pass.s.acls # None
        BY <1>0, <1>2, <3>1, ZenonT(30) DEF Acls
      <3>4. {a \in acls' : a.principal = principal_for(pass.s.auth)} = Asked(pass.s)
        BY <1>1, <3>3, ZenonT(60) DEF Held
      <3> QED
        BY <1>1, <3>2, <3>4, ZenonT(60) DEF HasAcls, Asked
    <2> QED
      BY <1>2, <2>1, Zenon DEF Acls
  <1> QED
    BY <1>3, <1>4, <1>5, MovesInv, ZenonT(30)

LEMMA AlterQuotasKept ==
  ASSUME Inv, Grant, Moves, apply_alter_user_quotas
  PROVE  Inv'
  <1>0. /\ Types /\ Acls /\ Quotas /\ pc # "idle" /\ pc' # "idle" /\ pass'.s = pass.s /\ events' = events
        /\ pc = "alterQuotas" /\ UNCHANGED secret
    BY MovesTypes, Zenon DEF Inv, Moves, apply_alter_user_quotas
  <1>1. /\ pc' = "report" /\ pass' = pass /\ UNCHANGED <<status, acls>>
        /\ quotas' = [quotas EXCEPT ![Principal] = (@ \cup pass.add) \ pass.del]
    BY <1>0, Zenon DEF apply_alter_user_quotas, AccessCall, Call, Goto, user_access_broker_error, Retry, EndPass
  <1>2. /\ pc \in Access /\ pc' \in Access /\ pc \in QuotaStep /\ pc' \notin QuotaStep
        /\ pc' \in {"quotas", "report"} \cup QuotaStep /\ pc \in {"quotas", "report"} \cup QuotaStep
    BY <1>0, <1>1, Zenon DEF Access, QuotaStep
  <1>3. Statuses' /\ Tokens' /\ Credentials'
    BY <1>0, <1>1, <1>2, AccessCredentials, Zenon
  <1>4. Acls'
    <2>1. Undrifted => HasAcls(pass.s)
      BY <1>0, <1>2, Zenon DEF Acls
    <2> QED
      BY <1>1, <1>2, <2>1, AclsKept, ZenonT(60)
  <1>5. Quotas'
    <2>1. /\ pass.add = pass.s.quotas[1] \ quotas[Principal]
          /\ pass.del = quotas[Principal] \ pass.s.quotas[1]
      BY <1>0, <1>2, Zenon DEF Quotas
    <2>2. (quotas[Principal] \cup pass.add) \ pass.del = pass.s.quotas[1]
      BY <2>1, ZenonT(30)
    <2>3. quotas'[Principal] = pass.s.quotas[1]
      BY <1>0, <1>1, <2>2, PassFields, ZenonT(60) DEF Types, StateTypes
    <2>4. HasQuotas(pass.s)'
      BY <1>1, <2>3, ZenonT(30) DEF HasQuotas, Principal
    <2>5. ~Ready'
      BY <1>0, <1>2, MovesReady, ZenonT(60) DEF Quotas
    <2> QED
      BY <1>2, <2>4, <2>5, Zenon DEF Quotas
  <1> QED
    BY <1>3, <1>4, <1>5, MovesInv, Zenon

-----------------------------------------------------------------------------
(* A pass that ends well *)

LEMMA RequeueTypes ==
  ASSUME Types, pc # "idle", pass.token # None
  PROVE  /\ Min(compute_requeue(pass.token[1]), Drift) \in Nat
         /\ Min(compute_requeue(pass.token[1]), Drift) <= compute_requeue(pass.token[1])
         /\ \/ compute_requeue(pass.token[1]) <= pass.token[1].expiry - pass.now - RenewBefore
            \/ compute_requeue(pass.token[1]) <= MinRequeue
  <1>1. pass.token[1].expiry \in Nat /\ pass.now \in Nat
    BY PassToken, PassFields, Zenon
  <1>2. PICK x \in Int : x = pass.token[1].expiry - pass.now - RenewBefore
    BY <1>1, BackoffNat, SMTT(30), Z3T(30)
  <1>3. compute_requeue(pass.token[1]) = Min(Max(x, MinRequeue), MaxRequeue)
    BY <1>2, ZenonT(30) DEF compute_requeue
  <1>4. \A m, n, d \in Nat : /\ Min(Min(Max(x, m), n), d) \in Nat
                             /\ Min(Min(Max(x, m), n), d) <= Min(Max(x, m), n)
                             /\ Min(Max(x, m), n) <= x \/ Min(Max(x, m), n) <= m
    BY SMTT(30), Z3T(30) DEF Min, Max
  <1>5. /\ Min(Min(Max(x, MinRequeue), MaxRequeue), Drift) \in Nat
        /\ Min(Min(Max(x, MinRequeue), MaxRequeue), Drift) <= Min(Max(x, MinRequeue), MaxRequeue)
        /\ \/ Min(Max(x, MinRequeue), MaxRequeue) <= x
           \/ Min(Max(x, MinRequeue), MaxRequeue) <= MinRequeue
    BY <1>4, BackoffNat, Zenon
  <1> QED
    BY <1>2, <1>3, <1>5, Zenon

\* The status that a pass reports.
LEMMA ReportStatus ==
  ASSUME Types, Places, Report
  PROVE  /\ status' \in Status /\ status'.observed = pass.gen /\ status'.tokenId = status.tokenId
         /\ status'.ready = "True" /\ (status'.reason = "TokenReady" <=> pass.s.auth = "token")
         /\ status'.expiry = status.expiry /\ status'.max = status.max
  <1>1. /\ pc = "report" /\ status \in Status /\ pass.st \in Status /\ pass.gen \in Nat
        /\ pass.s.auth \in Auth /\ Principal \in Name
    BY PassFields, ScenarioTypes, ZenonT(30) DEF Report, Types, StateTypes, PassTypes, Pass
  <1>2. CASE IsToken
    <2>1. PICK q \in BOOLEAN :
            status' = [status EXCEPT !.ready = "True", !.reason = "TokenReady", !.issued = TRUE,
                                     !.observed = pass.gen, !.quotas = q]
      BY <1>2, ZenonT(30) DEF Report
    <2> QED
      BY <1>1, <1>2, <2>1, ZenonT(30) DEF IsToken, Status, Reason
  <1>3. CASE ~IsToken
    <2>1. PICK q \in BOOLEAN, p \in Opt(Name) :
            status' = [pass.st EXCEPT
                         !.ready = "True", !.reason = "Ready", !.observed = pass.gen,
                         !.flags = @ \cup {pass.s.auth}, !.principal = p, !.quotas = q,
                         !.issued = FALSE, !.tokenId = status.tokenId,
                         !.expiry = status.expiry, !.max = status.max]
      <3>1. pass.st.principal \in Opt(Name) /\ Some(Principal) \in Opt(Name)
        BY <1>1, SomeTypes, Zenon DEF Status
      <3>2. patch_status(TRUE, "Ready", {pass.s.auth},
                         IF pass.s.auth \in {"tls", "external"} THEN Some(Principal) ELSE pass.st.principal,
                         pass.s.quotas # None)
        BY <1>3, ZenonT(30) DEF Report
      <3> QED
        BY <3>1, <3>2, ZenonT(60) DEF patch_status
    <2> QED
      BY <1>1, <1>3, <2>1, ZenonT(60) DEF IsToken, Status, Reason
  <1> QED
    BY <1>2, <1>3, Zenon

LEMMA ReportKept ==
  ASSUME Inv, Report
  PROVE  Inv'
  <1>0. /\ Types /\ Places /\ Tokens /\ Reissues /\ Removed /\ pc = "report" /\ pc # "idle"
        /\ Rest /\ UNCHANGED <<events, secret, brokerVars, next>>
    BY ZenonT(30) DEF Inv, Report, Rest
  <1>1. pc \in Access /\ pc \in Granting /\ Grant
    BY <1>0, ZenonT(30) DEF Access, Granting, Grant
  <1>2. /\ status' \in Status /\ status'.observed = pass.gen /\ status'.tokenId = status.tokenId
        /\ status'.ready = "True" /\ (status'.reason = "TokenReady" <=> pass.s.auth = "token")
    BY <1>0, ReportStatus, ZenonT(30)
  <1>3. Counts
    BY <1>0, HappensCounts, Zenon DEF Types
  <1>4. Ends /\ wake' \in Nat
    <2>1. CASE IsToken
      <3>1. pass.token # None
        BY <1>0, <1>1, <2>1, ZenonT(60) DEF Tokens, Knowing, TokenAccess, IsToken
      <3>2. EndPass(Min(compute_requeue(pass.token[1]), Drift))
        BY <2>1, Zenon DEF Report
      <3> QED
        BY <1>0, <3>1, <3>2, RequeueTypes, EndTypes, ZenonT(60) DEF Types
    <2>2. CASE ~IsToken
      BY <1>0, <2>2, EndTypes, BackoffNat, ZenonT(30) DEF Report, Types
    <2> QED
      BY <2>1, <2>2, ZenonT(30)
  <1>5. Types'
    <2>1. secret' \in Opt(Secret) /\ next' \in Nat
      BY <1>0, ZenonT(30) DEF Types, StateTypes
    <2> QED
      BY <1>0, <1>1, <1>2, <1>3, <1>4, <2>1, EndsTypes, ZenonT(60)
  <1>6. Owned' /\ OneToken' /\ Reissues' /\ Removed'
    <2>1. pc' \notin Dropping
      BY <1>4, IdleFacts, ZenonT(30) DEF Ends
    <2> QED
      BY <1>0, <1>1, <1>3, <2>1, GrantOwned, GrantTypes, GrantReissues, GrantRemoved, ZenonT(60) DEF Rest
  <1>7. /\ pass.gen \in 1 .. edit /\ edit \in Nat /\ pass.s = scenario.edits[pass.gen]
        /\ user' = user /\ edit' = edit /\ scenario' = scenario /\ pc' = "idle"
    BY <1>0, <1>4, PassFields, ScenarioTypes, ZenonT(60) DEF Types, Rest, Ends
  <1>8. /\ user'.fin => user'.phase # "gone"
        /\ user'.phase = "deleting" => user'.fin
        /\ status'.observed <= edit'
        /\ status'.ready = "True" /\ status'.reason = "TokenReady" =>
             status'.observed \in 1 .. edit' /\ scenario'.edits[status'.observed].auth = "token"
    BY <1>0, <1>2, <1>7, SMTT(30), Z3T(30) DEF Places
  <1>9. ASSUME Ready'
        PROVE  HasQuotas(kafkaUser)' /\ (Undrifted' => HasAcls(kafkaUser)') /\ (Steady' => HasCredential(kafkaUser)')
    <2>1. kafkaUser' = pass.s
      BY <1>2, <1>7, <1>9, ZenonT(60) DEF Ready, kafkaUser
    <2>2. HasQuotas(pass.s) /\ (Undrifted => HasAcls(pass.s)) /\ (Steady => HasCredential(pass.s))
      BY <1>0, <1>1, ZenonT(60) DEF Inv, Quotas, Acls, Credentials
    <2>3. (Undrifted' => Undrifted) /\ (Steady' => Steady)
      BY <1>0, <1>3, CountsDown, ZenonT(60)
    <2>4. UNCHANGED <<scram, acls, quotas, secret>> /\ (HasPassword' <=> HasPassword)
      BY <1>0, Zenon DEF brokerVars, HasPassword
    <2>5. HasQuotas(kafkaUser)'
      BY <2>1, <2>2, <2>4, Zenon DEF HasQuotas
    <2>6. HasAcls(pass.s) => HasAcls(kafkaUser)'
      BY <2>1, <2>4, Zenon DEF HasAcls
    <2>7. HasCredential(pass.s) => HasCredential(kafkaUser)'
      BY <1>2, <2>1, <2>4, Zenon DEF HasCredential
    <2> QED
      BY <2>2, <2>3, <2>5, <2>6, <2>7, ZenonT(30)
  <1> QED
    BY <1>5, <1>6, <1>7, <1>8, <1>9, EndsInv, ZenonT(60)

-----------------------------------------------------------------------------
(* The finalizer, and a deletion *)

LEMMA FinalizerKept ==
  ASSUME Inv, add_finalizer \/ remove_finalizer
  PROVE  Inv'
  <1>0. /\ Types /\ Places /\ Reissues /\ Tokens /\ Owned /\ Removed /\ Acls /\ Quotas /\ Credentials
        /\ UNCHANGED <<scenario, events, edit, status, brokerVars, next, now, ca, reissue, up>>
        /\ pc # "idle" /\ EndPass(0)
    BY Zenon DEF Inv, add_finalizer, remove_finalizer
  <1>1. Ends /\ wake' \in Nat /\ pc' = "idle"
    BY <1>0, EndTypes, ZenonT(30) DEF Types, Ends
  <1>2. /\ user' \in [phase : {"live", "deleting", "gone"}, fin : BOOLEAN]
        /\ secret' \in Opt(Secret) /\ (secret' = secret \/ user'.phase = "gone")
        /\ user'.phase = user.phase \/ (pc = "unfinalize" /\ user'.phase = "gone")
        /\ user'.fin <=> user'.phase # "gone"
    <2>1. user \in [phase : {"live", "deleting", "gone"}, fin : BOOLEAN] /\ secret \in Opt(Secret)
      BY <1>0, Zenon DEF Types, StateTypes
    <2>2. CASE add_finalizer
      BY <1>0, <2>1, <2>2, ZenonT(30) DEF add_finalizer, Places
    <2>3. CASE remove_finalizer
      BY <2>1, <2>3, Zenon DEF remove_finalizer, Opt
    <2> QED
      BY <2>2, <2>3, ZenonT(30)
  <1>3. Types'
    <2>1. PassTypes'
      BY <1>1, Zenon DEF PassTypes
    <2>2. StateTypes'
      BY <1>0, <1>1, <1>2, IdleFacts, ZenonT(60) DEF Types, StateTypes, brokerVars
    <2> QED
      BY <2>1, <2>2, ZenonT(60) DEF Types
  <1>4. AuthOf' = AuthOf /\ (SameAuth' <=> SameAuth) /\ (Undisturbed' <=> Undisturbed)
        /\ (NothingLeft' <=> NothingLeft) /\ kafkaUser' = kafkaUser
    BY <1>0, Zenon DEF AuthOf, SameAuth, Undisturbed, NothingLeft, brokerVars, kafkaUser
  <1>5. Reissues' /\ Owned' /\ OneToken'
    BY <1>0, <1>4, Zenon DEF Reissues, Owned, OneToken, Tokens, brokerVars
  <1>6. Removed'
    <2>1. pc' \notin {"dropAcls", "dropQuotas", "unfinalize"} /\ pc' \notin {"dropQuotas", "unfinalize"}
          /\ pc' # "unfinalize"
      BY <1>1, Zenon
    <2>2. ~(user'.phase = "live" /\ ~user'.fin)
      BY <1>2, Zenon
    <2>3. ASSUME Undisturbed', SameAuth', user'.phase = "gone" PROVE NothingLeft'
      BY <1>0, <1>2, <1>4, <2>3, ZenonT(60) DEF Removed
    <2> QED
      BY <2>1, <2>2, <2>3, Zenon DEF Removed
  <1>7. /\ user'.fin => user'.phase # "gone"
        /\ user'.phase = "deleting" => user'.fin
        /\ status'.observed <= edit'
        /\ status'.ready = "True" /\ status'.reason = "TokenReady" =>
             status'.observed \in 1 .. edit' /\ scenario'.edits[status'.observed].auth = "token"
    BY <1>0, <1>2, ZenonT(60) DEF Places
  <1>8. ASSUME Ready'
        PROVE  HasQuotas(kafkaUser)' /\ (Undrifted' => HasAcls(kafkaUser)') /\ (Steady' => HasCredential(kafkaUser)')
    <2>1. user'.phase = "live" /\ Ready /\ secret' = secret
      BY <1>0, <1>2, <1>8, ZenonT(30) DEF Ready
    <2>2. (Undrifted' => Undrifted) /\ (Steady' => Steady)
      BY <1>0, <1>4, ZenonT(30) DEF Undrifted, Steady
    <2>3. HasQuotas(kafkaUser) /\ (Undrifted => HasAcls(kafkaUser)) /\ (Steady => HasCredential(kafkaUser))
      BY <1>0, <2>1, ZenonT(30) DEF Quotas, Acls, Credentials
    <2>4. HasQuotas(kafkaUser)' /\ (HasAcls(kafkaUser) => HasAcls(kafkaUser)')
      BY <1>0, <1>4, <2>3, Zenon DEF HasQuotas, HasAcls, brokerVars
    <2>5. HasCredential(kafkaUser) => HasCredential(kafkaUser)'
      BY <1>0, <1>4, <2>1, ZenonT(60) DEF HasCredential, HasPassword, brokerVars
    <2> QED
      BY <2>2, <2>3, <2>4, <2>5, ZenonT(30)
  <1> QED
    BY <1>1, <1>3, <1>5, <1>6, <1>7, <1>8, EndsInv, ZenonT(60)

\* What the steps of a deletion may do to the broker.
Drops ==
  /\ \A m \in Mechanism : scram'[m] \in {scram[m], None}
  /\ acls' \subseteq acls /\ tokens' \subseteq tokens
  /\ \A p \in Name : quotas'[p] \in {quotas[p], {}}

\* The kind of authentication of a pass, when there has been no other.
LEMMA OneAuth ==
  ASSUME Types, pc # "idle", SameAuth
  PROVE  \A a \in AuthOf : a = pass.s.auth
  BY PassFields, Zenon DEF SameAuth

\* A failure is counted.
LEMMA DisturbedBy ==
  ASSUME Types, NEW e \in {"fail", "lost", "refuse"}, Happens(e)
  PROVE  ~Undisturbed'
  <1>1. /\ \A f \in Event : events'[f] \in Nat
        /\ events'[e] = events[e] + 1 /\ events[e] \in Nat /\ {"fail", "lost", "refuse"} \subseteq Event
    BY Counted, ZenonT(30) DEF Types, StateTypes, Event
  <1>2. events'["fail"] \in Nat /\ events'["lost"] \in Nat /\ events'["refuse"] \in Nat
    BY <1>1, Zenon
  <1>3. Undisturbed' <=> (events'["fail"] = 0 /\ events'["lost"] = 0 /\ events'["refuse"] = 0)
    BY <1>2, SMTT(30), Z3T(30) DEF Undisturbed
  <1>4. events'[e] # 0
    BY <1>1, SMTT(30), Z3T(30)
  <1> QED
    BY <1>3, <1>4, ZenonT(30)

\* What holds of every step of a deletion.
LEMMA DropsInv ==
  ASSUME Inv, pc \in Dropping, pc' \in Dropping, Rest, UNCHANGED <<status, secret, next, pass, wake>>,
         Counts, Drops, Removed', scram' \in [Mechanism -> Opt(Nat)], quotas' \in [Name -> SUBSET STRING]
  PROVE  Inv'
  <1>0. /\ Types /\ Places /\ Statuses /\ Reissues /\ Tokens /\ Owned /\ user.phase = "deleting"
        /\ pc # "idle" /\ pc' # "idle"
    BY ZenonT(60) DEF Inv, Places, Dropping
  <1>1. ~Ready' /\ AuthOf' = AuthOf /\ acls' \subseteq acls /\ tokens' \subseteq tokens
    BY <1>0, ZenonT(30) DEF Ready, Rest, AuthOf, Drops
  <1>2. /\ pc' \notin Scram /\ pc' \notin Tls /\ pc' \notin Delegating \cup {"pendingAcls", "pendingQuotas"}
        /\ pc' \notin Granting /\ pc' \notin Access /\ pc' \notin AclStep /\ pc' \notin QuotaStep
        /\ pc' \in Label /\ pc' \notin {"pendingAcls", "createAcls"} /\ pc' # "deleteAcls" /\ pc' # "report"
        /\ pc' \notin {"quotas", "report"} \cup QuotaStep /\ pc' \notin {"expire", "create"}
        /\ pc' \notin {"expire", "renew", "check", "identity", "writeToken"} /\ pc' # "identity"
        /\ pc' # "create" /\ pc' # "pending" /\ pc' # "writeToken" /\ pc' # "writePassword" /\ pc' # "upsert"
    BY Zenon DEF Dropping, Granting, Scram, Tls, Delegating, Replacing, Access, AclStep, QuotaStep, Label
  <1>3. Types'
    <2>1. PassTypes'
      BY <1>0, ZenonT(60) DEF Types, PassTypes, Rest
    <2>2. acls' \subseteq Entry /\ tokens' \subseteq Token
      BY <1>0, <1>1, ZenonT(30) DEF Types, StateTypes
    <2>3. events' \in [Event -> Nat]
      BY Zenon DEF Counts
    <2>4. StateTypes'
      BY <1>0, <1>2, <2>2, <2>3, ZenonT(60) DEF Types, StateTypes, Rest
    <2> QED
      BY <2>1, <2>4, Zenon DEF Types
  <1>4. Places'
    BY <1>0, <1>2, Zenon DEF Places, Rest
  <1>5. ~TokenAccess' /\ ~OnFile' /\ ~Knowing'
    BY <1>2, Zenon DEF TokenAccess, OnFile, Knowing
  <1>6. Statuses'
    BY <1>0, <1>2, <1>5, Zenon DEF Statuses
  <1>7. Reissues'
    BY <1>0, GrantReissues, Zenon
  <1>8. Tokens'
    <2>1. OneToken'
      BY <1>0, <1>1, Zenon DEF Tokens, OneToken, Rest
    <2> QED
      BY <1>2, <1>5, <2>1, ZenonT(60) DEF Tokens, OneToken
  <1>9. Credentials' /\ Acls' /\ Quotas'
    BY <1>1, <1>2, <1>5, ZenonT(60) DEF Credentials, Acls, Quotas
  <1>10. Owned'
    <2>1. \A m \in Mechanism : scram'[m] # None => m \in AuthOf
      BY <1>0, ZenonT(30) DEF Owned, Drops
    <2>2. tokens' # {} => "token" \in AuthOf
      BY <1>0, <1>1, ZenonT(30) DEF Owned
    <2>3. \A a \in acls' : \E u \in AuthOf : a.principal = principal_for(u)
      BY <1>0, <1>1, ZenonT(60) DEF Owned
    <2>4. \A p \in Name : quotas'[p] # {} => \E u \in AuthOf : p = principal_for(u)
      BY <1>0, Zenon DEF Owned, Drops
    <2> QED
      BY <1>1, <2>1, <2>2, <2>3, <2>4, ZenonT(60) DEF Owned
  <1> QED
    BY <1>3, <1>4, <1>6, <1>7, <1>8, <1>9, <1>10, ZenonT(60) DEF Inv

\* A call of the finalizer, and the label after it.
LEMMA BestEfforts ==
  ASSUME Types, NEW effect, BestEffort(effect)
  PROVE  Counts /\ (effect \/ (UNCHANGED brokerVars /\ ~Undisturbed'))
  <1>1. CASE effect /\ (UNCHANGED events \/ Happens("lost"))
    BY <1>1, HappensCounts, Zenon DEF Types, Event
  <1>2. CASE UNCHANGED brokerVars /\ (Happens("fail") \/ Happens("refuse"))
    BY <1>2, HappensCounts, DisturbedBy, ZenonT(60) DEF Types, Event
  <1> QED
    BY <1>1, <1>2, Zenon DEF BestEffort

LEMMA DropCredentialKept ==
  ASSUME Inv, drop_credential
  PROVE  Inv'
  <1> DEFINE effect == /\ scram' = IF pass.s.auth \in Mechanism THEN [scram EXCEPT ![pass.s.auth] = None]
                                   ELSE scram
                       /\ tokens' = IF pass.s.auth = "token" THEN {} ELSE tokens
                       /\ UNCHANGED <<acls, quotas>>
  <1>0. /\ Types /\ Places /\ Owned /\ Removed /\ pc = "dropCredential" /\ pc # "idle"
        /\ Rest /\ UNCHANGED <<status, secret, next>>
        /\ scram \in [Mechanism -> Opt(Nat)] /\ quotas \in [Name -> SUBSET STRING]
    BY ZenonT(30) DEF Inv, drop_credential, Rest, Types, StateTypes
  <1>1. /\ pc' \in {"dropAcls", "unfinalize"} /\ UNCHANGED <<pass, wake>> /\ Counts
        /\ effect \/ (UNCHANGED brokerVars /\ ~Undisturbed')
        /\ pc' = "unfinalize" => ~Undisturbed'
    <2>1. CASE Goto("dropAcls") /\ BestEffort(effect)
      BY <1>0, <2>1, BestEfforts, ZenonT(30) DEF Goto
    <2>2. CASE Happens("fail") /\ UNCHANGED brokerVars /\ Goto("unfinalize")
      BY <1>0, <2>2, HappensCounts, DisturbedBy, ZenonT(60) DEF Goto, Types, Event
    <2> QED
      BY <2>1, <2>2, ZenonT(30) DEF drop_credential
  <1>2. pc \in Dropping /\ pc' \in Dropping /\ user' = user /\ user.phase = "deleting"
    BY <1>0, <1>1, ZenonT(30) DEF Dropping, Rest, Places
  <1>3. scram' \in [Mechanism -> Opt(Nat)] /\ quotas' \in [Name -> SUBSET STRING] /\ Drops
    <2>1. CASE effect
      BY <1>0, <2>1, ZenonT(30) DEF Drops, Opt
    <2>2. CASE UNCHANGED brokerVars
      BY <1>0, <2>2, ZenonT(30) DEF Drops, brokerVars
    <2> QED
      BY <1>1, <2>1, <2>2, ZenonT(30)
  <1>4. Removed'
    <2>1. ASSUME Undisturbed', SameAuth' PROVE NoCredential' /\ pc' = "dropAcls"
      <3>1. effect /\ pc' = "dropAcls"
        BY <1>1, <2>1, ZenonT(30)
      <3>2. \A a \in AuthOf : a = pass.s.auth
        BY <1>0, <1>1, <2>1, OneAuth, CountsDown, ZenonT(30)
      <3>3. \A m \in Mechanism : scram'[m] = None
        BY <1>0, <3>1, <3>2, ZenonT(60) DEF Owned
      <3>4. tokens' = {}
        BY <1>0, <3>1, <3>2, ZenonT(30) DEF Owned
      <3> QED
        BY <3>1, <3>3, <3>4, ZenonT(30) DEF NoCredential
    <2>2. user'.phase # "live" /\ user'.phase # "gone" /\ "dropAcls" \notin {"dropQuotas", "unfinalize"}
          /\ "dropAcls" # "unfinalize"
      BY <1>2, Zenon
    <2> QED
      BY <2>1, <2>2, Zenon DEF Removed
  <1> QED
    BY <1>0, <1>1, <1>2, <1>3, <1>4, DropsInv, ZenonT(60)

LEMMA DropAclsKept ==
  ASSUME Inv, drop_acls
  PROVE  Inv'
  <1> DEFINE effect == /\ acls' = {a \in acls : a.principal # principal_for(pass.s.auth)}
                       /\ UNCHANGED <<scram, quotas, tokens>>
  <1>0. /\ Types /\ Places /\ Owned /\ Removed /\ pc = "dropAcls" /\ pc # "idle"
        /\ Rest /\ UNCHANGED <<status, secret, next>> /\ BestEffort(effect)
        /\ pc' = "dropQuotas" /\ UNCHANGED <<pass, wake>>
        /\ scram \in [Mechanism -> Opt(Nat)] /\ quotas \in [Name -> SUBSET STRING]
    BY ZenonT(30) DEF Inv, drop_acls, Rest, Types, StateTypes, Goto
  <1>1. Counts /\ (effect \/ (UNCHANGED brokerVars /\ ~Undisturbed'))
    BY <1>0, BestEfforts, ZenonT(30)
  <1>2. pc \in Dropping /\ pc' \in Dropping /\ user' = user /\ user.phase = "deleting"
    BY <1>0, ZenonT(30) DEF Dropping, Rest, Places
  <1>3. scram' \in [Mechanism -> Opt(Nat)] /\ quotas' \in [Name -> SUBSET STRING] /\ Drops
    <2>1. CASE effect
      BY <1>0, <2>1, ZenonT(30) DEF Drops
    <2>2. CASE UNCHANGED brokerVars
      BY <1>0, <2>2, Zenon DEF Drops, brokerVars
    <2> QED
      BY <1>1, <2>1, <2>2, ZenonT(30)
  <1>4. Removed'
    <2>1. ASSUME Undisturbed', SameAuth' PROVE NoCredential' /\ acls' = {}
      <3>1. effect /\ Undisturbed /\ SameAuth
        BY <1>0, <1>1, <2>1, CountsDown, ZenonT(30)
      <3>2. \A a \in AuthOf : a = pass.s.auth
        BY <1>0, <3>1, OneAuth, ZenonT(60)
      <3>3. acls' = {}
        BY <1>0, <3>1, <3>2, ZenonT(30) DEF Owned
      <3>4. NoCredential
        BY <1>0, <3>1, ZenonT(30) DEF Removed
      <3> QED
        BY <3>1, <3>3, <3>4, ZenonT(30) DEF NoCredential
    <2>2. user'.phase # "live" /\ user'.phase # "gone" /\ pc' # "unfinalize"
      BY <1>0, <1>2, Zenon
    <2> QED
      BY <2>1, <2>2, Zenon DEF Removed
  <1> QED
    BY <1>0, <1>1, <1>2, <1>3, <1>4, DropsInv, ZenonT(60)

LEMMA DropQuotasKept ==
  ASSUME Inv, drop_quotas
  PROVE  Inv'
  <1> DEFINE effect == /\ quotas' = [quotas EXCEPT ![principal_for(pass.s.auth)] = {}]
                       /\ UNCHANGED <<scram, acls, tokens>>
  <1>0. /\ Types /\ Places /\ Owned /\ Removed /\ pc = "dropQuotas" /\ pc # "idle"
        /\ Rest /\ UNCHANGED <<status, secret, next>> /\ BestEffort(effect)
        /\ pc' = "unfinalize" /\ UNCHANGED <<pass, wake>>
        /\ scram \in [Mechanism -> Opt(Nat)] /\ quotas \in [Name -> SUBSET STRING]
    BY ZenonT(30) DEF Inv, drop_quotas, Rest, Types, StateTypes, Goto
  <1>1. Counts /\ (effect \/ (UNCHANGED brokerVars /\ ~Undisturbed'))
    BY <1>0, BestEfforts, ZenonT(30)
  <1>2. pc \in Dropping /\ pc' \in Dropping /\ user' = user /\ user.phase = "deleting"
    BY <1>0, ZenonT(30) DEF Dropping, Rest, Places
  <1>3. scram' \in [Mechanism -> Opt(Nat)] /\ quotas' \in [Name -> SUBSET STRING] /\ Drops
    <2>1. CASE effect
      BY <1>0, <2>1, ZenonT(30) DEF Drops
    <2>2. CASE UNCHANGED brokerVars
      BY <1>0, <2>2, ZenonT(60) DEF Drops, brokerVars
    <2> QED
      BY <1>1, <2>1, <2>2, ZenonT(30)
  <1>4. Removed'
    <2>1. ASSUME Undisturbed', SameAuth' PROVE NoCredential' /\ acls' = {} /\ NothingLeft'
      <3>1. effect /\ Undisturbed /\ SameAuth
        BY <1>0, <1>1, <2>1, CountsDown, ZenonT(30)
      <3>2. \A a \in AuthOf : a = pass.s.auth
        BY <1>0, <3>1, OneAuth, ZenonT(30)
      <3>3. \A p \in Name : quotas'[p] = {}
        BY <1>0, <3>1, <3>2, ZenonT(30) DEF Owned
      <3>4. NoCredential /\ acls = {}
        BY <1>0, <3>1, ZenonT(60) DEF Removed
      <3>5. DOMAIN quotas' = Name
        BY <1>3, Zenon
      <3> QED
        BY <3>1, <3>3, <3>4, <3>5, ZenonT(60) DEF NoCredential, NothingLeft
    <2>2. user'.phase # "live" /\ user'.phase # "gone"
      BY <1>2, ZenonT(60)
    <2> QED
      BY <2>1, <2>2, Zenon DEF Removed
  <1> QED
    BY <1>0, <1>1, <1>2, <1>3, <1>4, DropsInv, ZenonT(60)

-----------------------------------------------------------------------------
(* The start of a pass *)

LEMMA StartTypes ==
  ASSUME Inv, Start
  PROVE  Types' /\ pc' # "idle"
  <1>0. Types /\ StateTypes /\ UNCHANGED <<scenario, events, edit, user, status, secret, brokerVars, next, now,
                                          wake, ca, reissue, up>>
    BY ZenonT(30) DEF Inv, Types, Start
  <1>1. kafkaUser \in UserSpec /\ kafkaUser.auth \in Auth /\ edit \in Nat
    BY <1>0, ScenarioTypes, Zenon
  <1>2. refusal(kafkaUser, user.phase) \in Reason
    BY <1>0, Zenon DEF refusal, Reason, StateTypes
  <1>3. pc' \in {"refuse", "dropCredential", "finalizer", "password", "ca", "describe", "acls"}
    BY <1>1, ZenonT(60) DEF Start, Auth, Mechanism
  <1>4. pc' \in Label /\ pc' # "idle"
    BY <1>3, Zenon DEF Label, Dropping, Granting, Scram, Tls, Delegating, Access
  <1>5. PassTypes'
    <2>1. /\ None \in Opt(Nat) /\ None \in Opt(Token) /\ "NoOp" \in Decision /\ {} \in Entries
          /\ status \in Status /\ now \in Nat
      BY <1>0, ZenonT(60) DEF Opt, Decision, Entries, StateTypes
    <2>2. pass' \in Pass
      BY <1>1, <1>2, <2>1, ZenonT(60) DEF Start, Pass
    <2>3. pass'.gen = edit /\ pass'.s = kafkaUser /\ edit \in 1 .. edit
      BY <1>0, <1>1, SMTT(30), Z3T(30) DEF Start, StateTypes
    <2> QED
      BY <1>0, <2>2, <2>3, ZenonT(60) DEF PassTypes, kafkaUser
  <1>6. StateTypes'
    BY <1>0, <1>4, Zenon DEF StateTypes, brokerVars
  <1> QED
    BY <1>4, <1>5, <1>6, ZenonT(60) DEF Types

LEMMA StartKept ==
  ASSUME Inv, Start
  PROVE  Inv'
  <1>0. /\ Types /\ Places /\ Statuses /\ Reissues /\ Tokens /\ Credentials /\ Acls /\ Quotas /\ Owned /\ Removed
        /\ UNCHANGED <<scenario, events, edit, user, status, secret, brokerVars, next, now,
                       wake, ca, reissue, up>>
        /\ pc = "idle" /\ user.phase # "gone"
        /\ pass'.s = kafkaUser /\ pass'.gen = edit /\ pass'.st = status /\ pass'.published = FALSE
    BY ZenonT(30) DEF Inv, Start
  <1>1. kafkaUser.auth \in Auth /\ Types' /\ pc' # "idle" /\ user.phase \in {"live", "deleting", "gone"}
    BY <1>0, StartTypes, ScenarioTypes, ZenonT(30) DEF Types, StateTypes
  <1>2. /\ pc' \in {"refuse", "dropCredential", "finalizer", "password", "ca", "describe", "acls"}
        /\ pc' = "dropCredential" => user.phase = "deleting"
        /\ pc' = "password" => user.fin /\ kafkaUser.auth \in Mechanism
        /\ pc' = "ca" => user.fin /\ kafkaUser.auth = "tls"
        /\ pc' = "describe" => user.fin /\ kafkaUser.auth = "token"
        /\ pc' = "acls" => user.fin /\ kafkaUser.auth = "external"
    BY <1>1, ZenonT(30) DEF Start, Auth, Mechanism
  <1>3. /\ pc' \in Scram => pc' = "password"
        /\ pc' \in Tls => pc' = "ca"
        /\ pc' \in Delegating \cup {"pendingAcls", "pendingQuotas"} => pc' = "describe"
        /\ pc' \in Dropping => pc' = "dropCredential"
        /\ pc' \in Granting => pc' \in {"password", "ca", "describe", "acls"}
        /\ pc' \in Access => pc' = "acls"
        /\ pc' \notin AclStep /\ pc' \notin QuotaStep /\ pc' \notin {"pendingAcls", "createAcls"}
        /\ pc' # "deleteAcls" /\ pc' # "report" /\ pc' \notin {"quotas", "report"} \cup QuotaStep
        /\ pc' \notin {"expire", "create"} /\ pc' # "identity" /\ pc' # "create" /\ pc' # "pending"
        /\ pc' \notin {"expire", "renew", "check", "identity", "writeToken"} /\ pc' # "writeToken"
        /\ pc' # "writePassword" /\ pc' # "upsert" /\ pc' \notin {"dropAcls", "dropQuotas", "unfinalize"}
        /\ pc' \notin {"dropQuotas", "unfinalize"} /\ pc' # "unfinalize"
    BY <1>2, Zenon DEF Dropping, Granting, Scram, Tls, Delegating, Replacing, Access, AclStep, QuotaStep
  <1>4. ~TokenAccess' /\ ~OnFile' /\ ~Knowing'
    <2>1. pc' = "acls" => kafkaUser.auth # "token"
      BY <1>2, Zenon
    <2> QED
      BY <1>0, <1>3, <2>1, Zenon DEF TokenAccess, OnFile, Knowing
  <1>5. Places'
    <2>1. /\ pc' \in Scram => pass'.s.auth \in Mechanism
          /\ pc' \in Tls => pass'.s.auth = "tls"
          /\ pc' \in Delegating \cup {"pendingAcls", "pendingQuotas"} => pass'.s.auth = "token"
          /\ pc' \in Dropping => user'.phase = "deleting"
          /\ pc' \in Granting => user'.fin
      BY <1>0, <1>2, <1>3, ZenonT(30)
    <2>2. status'.observed <= pass'.gen /\ pass'.st.observed <= pass'.gen
      BY <1>0, ZenonT(30) DEF Places
    <2> QED
      BY <1>0, <2>1, <2>2, Zenon DEF Places
  <1>6. Statuses'
    BY <1>0, <1>3, <1>4, Zenon DEF Statuses
  <1>7. AuthOf' = AuthOf /\ (SameAuth' <=> SameAuth) /\ (Undisturbed' <=> Undisturbed) /\ (Steady' <=> Steady)
        /\ (NothingLeft' <=> NothingLeft) /\ kafkaUser' = kafkaUser /\ (Ready' <=> Ready)
        /\ (Undrifted' <=> Undrifted)
    BY <1>0, ZenonT(60) DEF AuthOf, SameAuth, Undisturbed, NothingLeft, brokerVars, kafkaUser, Ready, Steady, Undrifted
  <1>8. Reissues' /\ Owned'
    BY <1>0, <1>7, Zenon DEF Reissues, Owned, brokerVars
  <1>9. Tokens'
    BY <1>0, <1>3, <1>4, Zenon DEF Tokens, brokerVars
  <1>10. Credentials'
    <2>1. HasCredential(kafkaUser)' <=> HasCredential(kafkaUser)
      BY <1>0, <1>7, ZenonT(60) DEF HasCredential, HasPassword, brokerVars
    <2>2. pc' \in Access => HasCredential(pass.s)'
      BY <1>0, <1>2, <1>3, ZenonT(30) DEF HasCredential, Mechanism
    <2> QED
      BY <1>0, <1>3, <1>4, <1>7, <2>1, <2>2, Zenon DEF Credentials
  <1>11. Acls'
    <2>1. HasAcls(kafkaUser)' <=> HasAcls(kafkaUser)
      BY <1>0, <1>7, Zenon DEF HasAcls, brokerVars
    <2> QED
      BY <1>0, <1>3, <1>7, <2>1, ZenonT(60) DEF Acls
  <1>12. Quotas'
    <2>1. HasQuotas(kafkaUser)' <=> HasQuotas(kafkaUser)
      BY <1>0, <1>7, Zenon DEF HasQuotas, brokerVars
    <2> QED
      BY <1>0, <1>3, <1>7, <2>1, Zenon DEF Quotas
  <1>13. Removed'
    BY <1>0, <1>3, <1>7, Zenon DEF Removed
  <1> QED
    BY <1>1, <1>5, <1>6, <1>8, <1>9, <1>10, <1>11, <1>12, <1>13, ZenonT(60) DEF Inv

=============================================================================
