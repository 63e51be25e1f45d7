--------------------------- MODULE KafkaUsersProofs ---------------------------
(***************************************************************************)
(* Proofs about KafkaUsers, for any scenario:                              *)
(*                                                                         *)
(*   ReadyIsApplied     Spec => []ReadyMeansApplied                        *)
(*   DeletedIsClean     Spec => []CleanDelete                              *)
(*   TokenIsLive        Spec => []OneLiveToken, when renewal leaves time   *)
(*                      for the passes that may be cut short               *)
(*                                                                         *)
(* The first two rest on the invariant of UserPassProofs, which the steps  *)
(* of a pass (UserGrantProofs) and of its environment keep.  The third     *)
(* adds time to it: when a pass comes, what the token that it leaves has   *)
(* left, and what the passes that are cut short in between can cost.       *)
(***************************************************************************)
EXTENDS UserGrantProofs

-----------------------------------------------------------------------------
(* The environment *)

\* What stays, conjunct by conjunct, when the pass and the status stay.
Idles == UNCHANGED <<scenario, status, pc, pass>>

\* Nobody becomes Ready.
ReadyStays == Ready' => Ready /\ kafkaUser' = kafkaUser

LEMMA PlacesSame ==
  ASSUME Places, Idles, UNCHANGED <<edit, user>>
  PROVE  Places'
  BY Zenon DEF Places, Idles

LEMMA StatusesSame ==
  ASSUME Statuses, Idles
  PROVE  Statuses'
  BY Zenon DEF Statuses, Idles, OnFile, TokenAccess, status_has_current_ready_token

LEMMA TokensSame ==
  ASSUME Tokens, Idles, UNCHANGED <<tokens, now>>
  PROVE  Tokens'
  BY Zenon DEF Tokens, Knowing, TokenAccess, Idles

LEMMA CredentialsSame ==
  ASSUME Credentials, Idles, UNCHANGED <<secret, scram>>, Steady' => Steady, ReadyStays
  PROVE  Credentials'
  <1>1. HasPassword' <=> HasPassword
    BY Zenon DEF HasPassword
  <1>2. HasCredential(pass.s)' <=> HasCredential(pass.s)
    BY <1>1, Zenon DEF HasCredential, Idles
  <1>3. kafkaUser' = kafkaUser => (HasCredential(kafkaUser)' <=> HasCredential(kafkaUser))
    BY <1>1, Zenon DEF HasCredential, Idles
  <1>4. (OnFile' <=> OnFile) /\ (Identified' <=> Identified)
    BY Zenon DEF OnFile, TokenAccess, Identified, Idles
  <1> QED
    BY <1>1, <1>2, <1>3, <1>4, Zenon DEF Credentials, Idles, ReadyStays

LEMMA AclsSame ==
  ASSUME Acls, Idles, UNCHANGED acls, Undrifted' => Undrifted, ReadyStays
  PROVE  Acls'
  <1>1. /\ HasAcls(pass.s)' <=> HasAcls(pass.s)
        /\ Held(pass.s)' = Held(pass.s) /\ Asked(pass.s)' = Asked(pass.s) /\ Principal' = Principal
    BY AclsStay, ZenonT(60) DEF Idles
  <1>2. kafkaUser' = kafkaUser => (HasAcls(kafkaUser)' <=> HasAcls(kafkaUser))
    BY Zenon DEF HasAcls
  <1> QED
    BY <1>1, <1>2, Zenon DEF Acls, Idles, ReadyStays

LEMMA QuotasSame ==
  ASSUME Quotas, Idles, UNCHANGED quotas, ReadyStays
  PROVE  Quotas'
  <1>1. (HasQuotas(pass.s)' <=> HasQuotas(pass.s)) /\ Principal' = Principal
    BY QuotasStay, ZenonT(60) DEF Idles
  <1>2. kafkaUser' = kafkaUser => (HasQuotas(kafkaUser)' <=> HasQuotas(kafkaUser))
    BY Zenon DEF HasQuotas
  <1> QED
    BY <1>1, <1>2, Zenon DEF Quotas, Idles, ReadyStays

LEMMA OwnedSame ==
  ASSUME Owned, UNCHANGED brokerVars, AuthOf \subseteq AuthOf'
  PROVE  Owned'
  BY Zenon DEF Owned, brokerVars

LEMMA RemovedSame ==
  ASSUME Removed, Idles, UNCHANGED <<brokerVars, user>>, Undisturbed' => Undisturbed, SameAuth' => SameAuth
  PROVE  Removed'
  <1>1. (NothingLeft' <=> NothingLeft) /\ (NoCredential' <=> NoCredential) /\ acls' = acls
    BY Zenon DEF NothingLeft, NoCredential, brokerVars
  <1> QED
    BY <1>1, Zenon DEF Removed, Idles

\* The types when the pass and the status stay.
LEMMA TypesSame ==
  ASSUME Types, Idles, events' \in [Event -> Nat], UNCHANGED <<edit, user>>,
         secret' \in Opt(Secret), UNCHANGED <<scram, quotas, next, wake>>, acls' \subseteq acls,
         tokens' \subseteq tokens, now' \in Nat, ca' \in Nat, reissue' \in Opt(Nat), up' \in BOOLEAN
  PROVE  Types'
  <1>1. PassTypes'
    BY Zenon DEF Types, PassTypes, Idles
  <1>2. acls' \subseteq Entry /\ tokens' \subseteq Token
    BY Zenon DEF Types, StateTypes
  <1>3. StateTypes'
    BY <1>2, Zenon DEF Types, StateTypes, Idles
  <1> QED
    BY <1>1, <1>3, ZenonT(60) DEF Types

LEMMA SpecStays ==
  ASSUME Idles, UNCHANGED <<edit, user>>
  PROVE  ReadyStays /\ AuthOf' = AuthOf /\ (SameAuth' <=> SameAuth) /\ kafkaUser' = kafkaUser
  BY Zenon DEF ReadyStays, Ready, kafkaUser, AuthOf, SameAuth, Idles

\* An event that is none of those that the invariant asks about.
LEMMA EventStays ==
  ASSUME Types, NEW e \in Event \ {"fail", "lost", "refuse", "drift", "rotate"}, Happens(e)
  PROVE  /\ events' \in [Event -> Nat] /\ (Undisturbed' <=> Undisturbed) /\ (Undrifted' <=> Undrifted)
         /\ events'["rotate"] = events["rotate"]
  <1>1. /\ events' \in [Event -> Nat]
        /\ events'["fail"] = events["fail"] /\ events'["lost"] = events["lost"]
        /\ events'["refuse"] = events["refuse"] /\ events'["drift"] = events["drift"]
        /\ events'["rotate"] = events["rotate"]
    BY Counted, ZenonT(60) DEF Types, Event
  <1> QED
    BY <1>1, Zenon DEF Undisturbed, Undrifted

LEMMA StutterKept ==
  ASSUME Inv, UNCHANGED vars
  PROVE  Inv'
  <1>0. /\ Types /\ Places /\ Statuses /\ Reissues /\ Tokens /\ Credentials /\ Acls /\ Quotas /\ Owned /\ Removed
        /\ Idles /\ UNCHANGED <<edit, user, events, secret, brokerVars, next, wake, now, ca, reissue, up>>
    BY Zenon DEF Inv, vars, Idles
  <1>1. ReadyStays /\ AuthOf' = AuthOf /\ (SameAuth' <=> SameAuth)
    BY <1>0, SpecStays, ZenonT(60)
  <1>2. (Steady' <=> Steady) /\ (Undrifted' <=> Undrifted) /\ (Undisturbed' <=> Undisturbed)
    BY <1>0, <1>1, Zenon DEF Steady, Undrifted, Undisturbed
  <1>3. UNCHANGED <<scram, acls, quotas, tokens>>
    BY <1>0, ZenonT(60) DEF brokerVars
  <1>4. Types'
    BY <1>0, <1>3, Zenon DEF Types, StateTypes, PassTypes, Idles
  <1>5. Reissues'
    BY <1>0, <1>1, Zenon DEF Reissues
  <1>6. Places' /\ Statuses' /\ Tokens' /\ Owned'
    BY <1>0, <1>1, <1>3, PlacesSame, StatusesSame, TokensSame, OwnedSame, ZenonT(60)
  <1>7. Credentials' /\ Acls' /\ Quotas' /\ Removed'
    BY <1>0, <1>1, <1>2, <1>3, CredentialsSame, AclsSame, QuotasSame, RemovedSame, ZenonT(60)
  <1> QED
    BY <1>4, <1>5, <1>6, <1>7, ZenonT(30) DEF Inv

\* A cluster that is not Ready.
LEMMA OutageKept ==
  ASSUME Inv, Outage
  PROVE  Inv'
  <1>0. /\ Types /\ Places /\ Statuses /\ Reissues /\ Tokens /\ Credentials /\ Acls /\ Quotas /\ Owned /\ Removed
        /\ Idles /\ UNCHANGED <<edit, user, secret, brokerVars, next, wake, now, ca, reissue>>
        /\ up' \in BOOLEAN
    BY Zenon DEF Inv, Outage, Idles
  <1>1. ReadyStays /\ AuthOf' = AuthOf /\ (SameAuth' <=> SameAuth)
    BY <1>0, SpecStays, ZenonT(30)
  <1>2. /\ events' \in [Event -> Nat] /\ (Undisturbed' <=> Undisturbed) /\ (Undrifted' <=> Undrifted)
        /\ events'["rotate"] = events["rotate"]
    <2>1. CASE UNCHANGED events
      BY <1>0, <2>1, ZenonT(30) DEF Undisturbed, Undrifted, Types, StateTypes
    <2>2. CASE Happens("down")
      BY <1>0, <2>2, EventStays, ZenonT(30) DEF Event
    <2> QED
      BY <2>1, <2>2, ZenonT(30) DEF Outage
  <1>3. UNCHANGED <<scram, acls, quotas, tokens>> /\ (Steady' <=> Steady)
    BY <1>0, <1>1, <1>2, ZenonT(30) DEF brokerVars, Steady
  <1>4. Types'
    <2>1. secret' \in Opt(Secret) /\ now' \in Nat /\ ca' \in Nat /\ reissue' \in Opt(Nat)
          /\ acls' \subseteq acls /\ tokens' \subseteq tokens
      BY <1>0, <1>3, ZenonT(30) DEF Types, StateTypes
    <2> QED
      BY <1>0, <1>2, <1>3, <2>1, TypesSame, ZenonT(60)
  <1>5. Reissues'
    BY <1>0, <1>1, <1>2, Zenon DEF Reissues
  <1>6. Places' /\ Statuses' /\ Tokens' /\ Owned'
    BY <1>0, <1>1, <1>3, PlacesSame, StatusesSame, TokensSame, OwnedSame, ZenonT(30)
  <1>7. Credentials' /\ Acls' /\ Quotas' /\ Removed'
    BY <1>0, <1>1, <1>2, <1>3, CredentialsSame, AclsSame, QuotasSame, RemovedSame, ZenonT(60)
  <1> QED
    BY <1>4, <1>5, <1>6, <1>7, ZenonT(30) DEF Inv

LEMMA Aged ==
  ASSUME NEW s, NEW q, q = <<s>>
  PROVE  [q EXCEPT ![1].aging = TRUE] = <<[s EXCEPT !.aging = TRUE]>>
  <1>1. DOMAIN q = {1} /\ q[1] = s
    BY SMTT(30), Z3T(30)
  <1>2. [q EXCEPT ![1].aging = TRUE] = [i \in {1} |-> [s EXCEPT !.aging = TRUE]]
    BY <1>1, Zenon
  <1>3. \A x : [i \in {1} |-> x] = <<x>>
    BY SMTT(30), Z3T(30)
  <1> QED
    BY <1>2, <1>3, Zenon

\* A certificate that nears its end is still a certificate.
LEMMA AgeKept ==
  ASSUME Inv, Age
  PROVE  Inv'
  <1>0. /\ Types /\ Places /\ Statuses /\ Reissues /\ Tokens /\ Credentials /\ Acls /\ Quotas /\ Owned /\ Removed
        /\ Idles /\ UNCHANGED <<edit, user, brokerVars, next, wake, now, ca, reissue, up>>
        /\ Happens("age") /\ secret # None /\ secret \in Opt(Secret)
        /\ secret' = [secret EXCEPT ![1].aging = TRUE]
    BY ZenonT(30) DEF Inv, Age, Idles, Types, StateTypes
  <1>1. ReadyStays /\ AuthOf' = AuthOf /\ (SameAuth' <=> SameAuth) /\ kafkaUser' = kafkaUser
    BY <1>0, SpecStays, Zenon
  <1>2. /\ events' \in [Event -> Nat] /\ (Undisturbed' <=> Undisturbed) /\ (Undrifted' <=> Undrifted)
        /\ events'["rotate"] = events["rotate"]
    BY <1>0, EventStays, ZenonT(30) DEF Event
  <1>3. UNCHANGED <<scram, acls, quotas, tokens>> /\ (Steady' <=> Steady)
    BY <1>0, <1>1, <1>2, ZenonT(30) DEF brokerVars, Steady
  <1>4. /\ secret' \in Opt(Secret) /\ secret' # None
        /\ secret'[1].kind = secret[1].kind /\ secret'[1].value = secret[1].value
    <2>1. PICK s \in Secret : secret = <<s>>
      BY <1>0, Zenon DEF Opt, Some
    <2>2. secret' = <<[s EXCEPT !.aging = TRUE]>>
      BY <1>0, <2>1, Aged, Zenon
    <2>3. [s EXCEPT !.aging = TRUE] \in Secret
      BY ZenonT(30) DEF Secret
    <2> QED
      BY <2>1, <2>2, <2>3, ZenonT(30) DEF Opt, Some, None, Secret
  <1>5. Types'
    <2>1. now' \in Nat /\ ca' \in Nat /\ reissue' \in Opt(Nat) /\ up' \in BOOLEAN
          /\ acls' \subseteq acls /\ tokens' \subseteq tokens
      BY <1>0, <1>3, ZenonT(60) DEF Types, StateTypes
    <2> QED
      BY <1>0, <1>2, <1>3, <1>4, <2>1, TypesSame, ZenonT(60)
  <1>6. Reissues'
    BY <1>0, <1>1, <1>2, Zenon DEF Reissues
  <1>7. Places' /\ Statuses' /\ Tokens' /\ Owned'
    BY <1>0, <1>1, <1>3, PlacesSame, StatusesSame, TokensSame, OwnedSame, ZenonT(60)
  <1>8. Acls' /\ Quotas' /\ Removed'
    BY <1>0, <1>1, <1>2, <1>3, AclsSame, QuotasSame, RemovedSame, ZenonT(60)
  <1>9. Credentials'
    <2>1. HasPassword' <=> HasPassword
      BY <1>0, <1>4, Zenon DEF HasPassword
    <2>2. /\ HasCredential(pass.s)' <=> HasCredential(pass.s)
          /\ HasCredential(kafkaUser)' <=> HasCredential(kafkaUser)
      BY <1>0, <1>1, <1>3, <1>4, <2>1, Zenon DEF HasCredential, Idles
    <2>3. (OnFile' <=> OnFile) /\ (Identified' <=> Identified)
      BY <1>0, Zenon DEF OnFile, TokenAccess, Identified, Idles
    <2> QED
      BY <1>0, <1>1, <1>3, <1>4, <2>1, <2>2, <2>3, ZenonT(60) DEF Credentials, Idles, ReadyStays
  <1> QED
    BY <1>5, <1>6, <1>7, <1>8, <1>9, ZenonT(60) DEF Inv

\* Someone else deletes the ACLs, and nothing is promised of them from then on.
LEMMA DriftKept ==
  ASSUME Inv, DeleteAcls
  PROVE  Inv'
  <1>0. /\ Types /\ Places /\ Statuses /\ Reissues /\ Tokens /\ Credentials /\ Acls /\ Quotas /\ Owned /\ Removed
        /\ Idles /\ UNCHANGED <<edit, user, secret, scram, quotas, tokens, next, wake, now, ca, reissue, up>>
        /\ Happens("drift") /\ acls' = {}
    BY Zenon DEF Inv, DeleteAcls, Idles
  <1>1. ReadyStays /\ AuthOf' = AuthOf /\ (SameAuth' <=> SameAuth)
    BY <1>0, SpecStays, ZenonT(30)
  <1>2. /\ events' \in [Event -> Nat] /\ ~Undrifted' /\ events'["rotate"] = events["rotate"]
        /\ events'["fail"] = events["fail"] /\ events'["lost"] = events["lost"]
        /\ events'["refuse"] = events["refuse"]
    <2>0. events \in [Event -> Nat]
      BY <1>0, Zenon DEF Types, StateTypes
    <2>1. events["drift"] \in Nat
      BY <2>0, Zenon DEF Event
    <2> QED
      BY <1>0, <2>1, Counted, SMTT(30), Z3T(30) DEF Types, Undrifted, Event
  <1>3. (Undisturbed' <=> Undisturbed) /\ (Steady' <=> Steady)
    BY <1>1, <1>2, Zenon DEF Undisturbed, Steady
  <1>4. Types'
    <2>1. secret' \in Opt(Secret) /\ now' \in Nat /\ ca' \in Nat /\ reissue' \in Opt(Nat) /\ up' \in BOOLEAN
          /\ acls' \subseteq acls /\ tokens' \subseteq tokens
      BY <1>0, ZenonT(60) DEF Types, StateTypes
    <2> QED
      BY <1>0, <1>2, <2>1, TypesSame, ZenonT(60)
  <1>5. Reissues'
    BY <1>0, <1>1, <1>2, Zenon DEF Reissues
  <1>6. Places' /\ Statuses' /\ Tokens'
    BY <1>0, PlacesSame, StatusesSame, TokensSame, ZenonT(30)
  <1>7. Credentials' /\ Quotas'
    BY <1>0, <1>1, <1>3, CredentialsSame, QuotasSame, ZenonT(60)
  <1>8. Acls'
    <2>1. Asked(pass.s)' = Asked(pass.s)
      BY <1>0, Zenon DEF Asked, Idles
    <2> QED
      BY <1>0, <1>2, <2>1, Zenon DEF Acls, Idles
  <1>9. Owned'
    BY <1>0, <1>1, Zenon DEF Owned
  <1>10. Removed'
    <2>1. (NothingLeft => NothingLeft') /\ (NoCredential' <=> NoCredential)
      BY <1>0, Zenon DEF NothingLeft, NoCredential
    <2> QED
      BY <1>0, <1>1, <1>3, <2>1, Zenon DEF Removed, Idles
  <1> QED
    BY <1>4, <1>5, <1>6, <1>7, <1>8, <1>9, <1>10, ZenonT(60) DEF Inv

\* The clients CA is replaced.
LEMMA RotateKept ==
  ASSUME Inv, RotateCa
  PROVE  Inv'
  <1>0. /\ Types /\ Places /\ Statuses /\ Reissues /\ Tokens /\ Credentials /\ Acls /\ Quotas /\ Owned /\ Removed
        /\ Idles /\ UNCHANGED <<edit, user, secret, brokerVars, next, wake, now, reissue, up>>
        /\ Happens("rotate") /\ ca' = ca + 1 /\ events \in [Event -> Nat]
    BY Zenon DEF Inv, RotateCa, Idles, Types, StateTypes
  <1>1. ReadyStays /\ AuthOf' = AuthOf /\ (SameAuth' <=> SameAuth)
    BY <1>0, SpecStays, ZenonT(30)
  <1>2. /\ events' \in [Event -> Nat] /\ events'["drift"] = events["drift"]
        /\ events'["fail"] = events["fail"] /\ events'["lost"] = events["lost"]
        /\ events'["refuse"] = events["refuse"] /\ events'["rotate"] # 0
    <2>1. events["rotate"] \in Nat
      BY <1>0, Zenon DEF Event
    <2> QED
      BY <1>0, <2>1, Counted, SMTT(30), Z3T(30) DEF Types, Event
  <1>3. (Undisturbed' <=> Undisturbed) /\ (Undrifted' <=> Undrifted) /\ (Steady' => Steady)
    BY <1>1, <1>2, Zenon DEF Undisturbed, Undrifted, Steady
  <1>4. UNCHANGED <<scram, acls, quotas, tokens>>
    BY <1>0, Zenon DEF brokerVars
  <1>5. Types'
    <2>1. secret' \in Opt(Secret) /\ now' \in Nat /\ ca' \in Nat /\ reissue' \in Opt(Nat) /\ up' \in BOOLEAN
          /\ acls' \subseteq acls /\ tokens' \subseteq tokens
      BY <1>0, <1>4, SMTT(30), Z3T(30) DEF Types, StateTypes
    <2> QED
      BY <1>0, <1>2, <1>4, <2>1, TypesSame, Zenon
  <1>6. Reissues'
    BY <1>0, <1>1, <1>2, Zenon DEF Reissues
  <1>7. Places' /\ Statuses' /\ Tokens' /\ Owned'
    BY <1>0, <1>1, <1>4, PlacesSame, StatusesSame, TokensSame, OwnedSame, ZenonT(60)
  <1>8. Credentials' /\ Acls' /\ Quotas' /\ Removed'
    BY <1>0, <1>1, <1>3, <1>4, CredentialsSame, AclsSame, QuotasSame, RemovedSame, ZenonT(60)
  <1> QED
    BY <1>5, <1>6, <1>7, <1>8, ZenonT(30) DEF Inv

\* The Kafka controller finds a user with a certificate.
LEMMA ListKept ==
  ASSUME Inv, ListUsers
  PROVE  Inv'
  <1>0. /\ Types /\ Places /\ Statuses /\ Reissues /\ Tokens /\ Credentials /\ Acls /\ Quotas /\ Owned /\ Removed
        /\ Idles /\ UNCHANGED <<edit, user, events, secret, brokerVars, next, wake, now, ca, up>>
        /\ ca > 1 /\ kafkaUser.auth = "tls" /\ reissue' = Some(ca) /\ ca \in Nat
    BY Zenon DEF Inv, ListUsers, Idles, Types, StateTypes
  <1>1. ReadyStays /\ AuthOf' = AuthOf /\ (SameAuth' <=> SameAuth)
    BY <1>0, SpecStays, Zenon
  <1>2. (Steady' <=> Steady) /\ (Undrifted' <=> Undrifted) /\ (Undisturbed' <=> Undisturbed)
    BY <1>0, <1>1, Zenon DEF Steady, Undrifted, Undisturbed
  <1>3. UNCHANGED <<scram, acls, quotas, tokens>>
    BY <1>0, Zenon DEF brokerVars
  <1>4. Types'
    <2>1. secret' \in Opt(Secret) /\ now' \in Nat /\ ca' \in Nat /\ reissue' \in Opt(Nat) /\ up' \in BOOLEAN
          /\ acls' \subseteq acls /\ tokens' \subseteq tokens /\ events' \in [Event -> Nat]
      BY <1>0, <1>3, SomeTypes, ZenonT(30) DEF Types, StateTypes
    <2> QED
      BY <1>0, <1>3, <2>1, TypesSame, Zenon
  <1>5. Reissues'
    <2>1. events["rotate"] # 0
      BY <1>0, SMTT(30), Z3T(30) DEF Reissues
    <2>2. "tls" \in AuthOf
      <3>1. edit \in 1 .. edit
        BY <1>0, ScenarioTypes, SMTT(30), Z3T(30) DEF Types, StateTypes
      <3> QED
        BY <1>0, <3>1, ZenonT(30) DEF AuthOf, kafkaUser
    <2> QED
      BY <1>0, <1>1, <2>1, <2>2, Zenon DEF Reissues
  <1>6. Places' /\ Statuses' /\ Tokens' /\ Owned'
    BY <1>0, <1>1, <1>3, PlacesSame, StatusesSame, TokensSame, OwnedSame, ZenonT(30)
  <1>7. Credentials' /\ Acls' /\ Quotas' /\ Removed'
    BY <1>0, <1>1, <1>2, <1>3, CredentialsSame, AclsSame, QuotasSame, RemovedSame, ZenonT(60)
  <1> QED
    BY <1>4, <1>5, <1>6, <1>7, Zenon DEF Inv

\* The Kafka controller reissues the certificate, of a user who may no longer have one.
LEMMA ReissueKept ==
  ASSUME Inv, reissue_tls_user_cert_secrets
  PROVE  Inv'
  <1>0. /\ Types /\ Places /\ Statuses /\ Reissues /\ Tokens /\ Credentials /\ Acls /\ Quotas /\ Owned /\ Removed
        /\ Idles /\ UNCHANGED <<edit, user, events, brokerVars, next, wake, now, ca, up>>
        /\ reissue # None /\ reissue' = None /\ secret \in Opt(Secret) /\ reissue \in Opt(Nat)
    BY Zenon DEF Inv, reissue_tls_user_cert_secrets, Idles, Types, StateTypes
  <1>1. ReadyStays /\ AuthOf' = AuthOf /\ (SameAuth' <=> SameAuth) /\ kafkaUser' = kafkaUser
    BY <1>0, SpecStays, ZenonT(30)
  <1>2. (Steady' <=> Steady) /\ (Undrifted' <=> Undrifted) /\ (Undisturbed' <=> Undisturbed)
    BY <1>0, <1>1, Zenon DEF Steady, Undrifted, Undisturbed
  <1>3. UNCHANGED <<scram, acls, quotas, tokens>>
    BY <1>0, ZenonT(30) DEF brokerVars
  <1>4. secret' \in Opt(Secret) /\ (user.phase # "gone" => secret' # None /\ secret'[1].kind = "cert")
    <2>1. CASE user.phase = "gone"
      BY <1>0, <2>1, ZenonT(30) DEF reissue_tls_user_cert_secrets
    <2>2. CASE user.phase # "gone"
      <3>1. /\ reissue[1] \in Nat
            /\ secret' = IF Certified(secret, reissue[1]) THEN secret
                         ELSE Some([kind |-> "cert", value |-> reissue[1], aging |-> FALSE])
        BY <1>0, <2>2, OptTypes, ZenonT(30) DEF reissue_tls_user_cert_secrets, ensure_user_cert_secret
      <3>2. [kind |-> "cert", value |-> reissue[1], aging |-> FALSE] \in Secret
        BY <3>1, ZenonT(30) DEF Secret
      <3>3. CASE Certified(secret, reissue[1])
        BY <1>0, <3>1, <3>3, ZenonT(30) DEF Certified
      <3>4. CASE ~Certified(secret, reissue[1])
        BY <3>1, <3>2, <3>4, SomeTypes, SMTT(30), Z3T(30)
      <3> QED
        BY <3>3, <3>4, ZenonT(30)
    <2> QED
      BY <2>1, <2>2, ZenonT(30)
  <1>5. Types'
    <2>1. now' \in Nat /\ ca' \in Nat /\ reissue' \in Opt(Nat) /\ up' \in BOOLEAN
          /\ acls' \subseteq acls /\ tokens' \subseteq tokens /\ events' \in [Event -> Nat]
      BY <1>0, <1>3, ZenonT(30) DEF Types, StateTypes, Opt
    <2> QED
      BY <1>0, <1>3, <1>4, <2>1, TypesSame, Zenon
  <1>6. Reissues'
    BY <1>0, <1>1, Zenon DEF Reissues
  <1>7. Places' /\ Statuses' /\ Tokens' /\ Owned'
    BY <1>0, <1>1, <1>3, PlacesSame, StatusesSame, TokensSame, OwnedSame, ZenonT(60)
  <1>8. Acls' /\ Quotas' /\ Removed'
    BY <1>0, <1>1, <1>2, <1>3, AclsSame, QuotasSame, RemovedSame, ZenonT(60)
  <1>9. Credentials'
    <2>1. ASSUME Steady PROVE \A a \in AuthOf : a = "tls"
      BY <1>0, <2>1, ZenonT(60) DEF Reissues, Steady, SameAuth
    <2>2. edit \in 1 .. edit /\ kafkaUser.auth \in AuthOf
      BY <1>0, ScenarioTypes, SMTT(30), Z3T(30) DEF Types, StateTypes, AuthOf, kafkaUser
    <2>3. ASSUME Steady' PROVE /\ pc' # "writePassword" /\ pc' # "upsert"
                               /\ pc' \in Access => HasCredential(pass.s)'
                               /\ Ready' => HasCredential(kafkaUser)'
      <3>1. kafkaUser.auth = "tls" /\ (pc # "idle" => pass.s.auth = "tls")
        BY <1>0, <1>2, <2>1, <2>2, <2>3, PassFields, ZenonT(60)
      <3>2. pc # "writePassword" /\ pc # "upsert"
        BY <1>0, <3>1, ZenonT(30) DEF Places, Scram, Mechanism
      <3>3. pc \in Access => pc # "idle" /\ user.phase # "gone"
        BY <1>0, Kinds, ZenonT(60) DEF Places
      <3>4. Ready => user.phase # "gone"
        BY ZenonT(30) DEF Ready
      <3>5. pc \in Access => HasCredential(pass.s)'
        BY <1>0, <1>4, <3>1, <3>3, ZenonT(30) DEF HasCredential, Mechanism, Idles
      <3>6. Ready' => HasCredential(kafkaUser)'
        BY <1>0, <1>1, <1>4, <3>1, <3>4, ZenonT(60) DEF HasCredential, Mechanism, ReadyStays
      <3> QED
        BY <1>0, <3>2, <3>5, <3>6, ZenonT(60) DEF Idles
    <2>4. (OnFile' <=> OnFile) /\ (Identified' <=> Identified)
      BY <1>0, Zenon DEF OnFile, TokenAccess, Identified, Idles
    <2> QED
      BY <1>0, <2>3, <2>4, Zenon DEF Credentials
  <1> QED
    BY <1>5, <1>6, <1>7, <1>8, <1>9, ZenonT(30) DEF Inv

\* Time passes and tokens expire.
LEMMA TickKept ==
  ASSUME Inv, Tick
  PROVE  Inv'
  <1>0. /\ Types /\ Places /\ Statuses /\ Reissues /\ Tokens /\ Credentials /\ Acls /\ Quotas /\ Owned /\ Removed
        /\ Idles /\ UNCHANGED <<edit, user, events, secret, scram, acls, quotas, next, wake, ca, reissue, up>>
        /\ now \in Nat /\ now' = now + 1 /\ tokens' = {t \in tokens : t.expiry > now'} /\ tokens \subseteq Token
    BY Zenon DEF Inv, Tick, Idles, Types, StateTypes
  <1>1. ReadyStays /\ AuthOf' = AuthOf /\ (SameAuth' <=> SameAuth)
    BY <1>0, SpecStays, Zenon
  <1>2. (Steady' <=> Steady) /\ (Undrifted' <=> Undrifted) /\ (Undisturbed' <=> Undisturbed)
    BY <1>0, <1>1, Zenon DEF Steady, Undrifted, Undisturbed
  <1>3. tokens' \subseteq tokens
    BY <1>0, Zenon
  <1>4. Types'
    <2>1. secret' \in Opt(Secret) /\ now' \in Nat /\ ca' \in Nat /\ reissue' \in Opt(Nat) /\ up' \in BOOLEAN
          /\ acls' \subseteq acls /\ events' \in [Event -> Nat]
      BY <1>0, SMTT(30), Z3T(30) DEF Types, StateTypes
    <2> QED
      BY <1>0, <1>3, <2>1, TypesSame, ZenonT(60)
  <1>5. Reissues'
    BY <1>0, <1>1, Zenon DEF Reissues
  <1>6. Places' /\ Statuses'
    BY <1>0, PlacesSame, StatusesSame, ZenonT(30)
  <1>7. Credentials' /\ Acls' /\ Quotas'
    BY <1>0, <1>1, <1>2, CredentialsSame, AclsSame, QuotasSame, ZenonT(60)
  <1>8. Tokens'
    <2>1. \A t \in Token : t.expiry \in Nat
      BY ZenonT(30) DEF Token
    <2>2. \A t \in tokens' : t.expiry <= t.max /\ now' < t.expiry
      BY <1>0, <2>1, ZenonT(60) DEF Tokens
    <2>3. ASSUME Knowing, now' < pass.token[1].expiry PROVE pass.token[1] \in tokens'
      <3>1. CASE pass.token[1] \in tokens
        BY <1>0, <2>1, <2>3, <3>1, ZenonT(60)
      <3>2. CASE pass.token[1] \notin tokens
        <4>1. pass.token # None /\ ~(now < pass.token[1].expiry)
          BY <1>0, <2>3, <3>2, ZenonT(60) DEF Tokens
        <4>2. pc # "idle"
          BY <2>3, ZenonT(30) DEF Knowing, TokenAccess, Access, AclStep, QuotaStep
        <4>3. pass.token[1].expiry \in Nat
          BY <1>0, <4>1, <4>2, PassToken, ZenonT(30)
        <4> QED
          BY <1>0, <2>3, <4>1, <4>3, SMTT(30), Z3T(30)
      <3> QED
        BY <3>1, <3>2, Zenon
    <2>4. Knowing' <=> Knowing
      BY <1>0, Zenon DEF Knowing, TokenAccess, Idles
    <2>5. pass.token' = pass.token
      BY <1>0, ZenonT(60) DEF Idles
    <2>6. Knowing' => /\ pass.token' # None /\ tokens' \subseteq {pass.token[1]'}
                      /\ now' < pass.token[1]'.expiry => pass.token[1]' \in tokens'
      BY <1>0, <1>3, <2>3, <2>4, <2>5, ZenonT(60) DEF Tokens
    <2> QED
      BY <1>0, <1>3, <2>2, <2>6, ZenonT(60) DEF Tokens, Idles
  <1>9. Owned'
    BY <1>0, <1>1, <1>3, Zenon DEF Owned
  <1>10. Removed'
    <2>1. (NothingLeft => NothingLeft') /\ (NoCredential => NoCredential')
      BY <1>0, <1>3, Zenon DEF NothingLeft, NoCredential
    <2> QED
      BY <1>0, <1>1, <1>2, <2>1, Zenon DEF Removed, Idles
  <1> QED
    BY <1>4, <1>5, <1>6, <1>7, <1>8, <1>9, <1>10, ZenonT(60) DEF Inv

\* A new generation, for which nobody is Ready yet.
LEMMA EditKept ==
  ASSUME Inv, Edit
  PROVE  Inv'
  <1>0. /\ Types /\ Places /\ Statuses /\ Reissues /\ Tokens /\ Credentials /\ Acls /\ Quotas /\ Owned /\ Removed
        /\ Idles /\ UNCHANGED <<events, user, secret, brokerVars, next, now, wake, ca, reissue, up>>
        /\ StateTypes /\ edit < Len(scenario.edits) /\ edit' = edit + 1
    BY Zenon DEF Inv, Edit, Idles, Types
  <1>1. /\ edit \in Nat /\ edit' \in 1 .. Len(scenario.edits) /\ status.observed \in Nat
        /\ status.observed <= edit /\ 1 .. edit \subseteq 1 .. edit'
    <2>1. edit \in Nat /\ Len(scenario.edits) \in Nat
      BY <1>0, ScenarioTypes, ZenonT(30)
    <2>2. status \in Status /\ status.observed <= edit
      BY <1>0, Zenon DEF StateTypes, Places
    <2>3. status.observed \in Nat
      BY <2>2, StatusFields, Zenon
    <2> QED
      BY <1>0, <2>1, <2>2, <2>3, SMTT(30), Z3T(30)
  <1>2. ~Ready'
    BY <1>0, <1>1, SMTT(30), Z3T(30) DEF Ready, Idles
  <1>3. AuthOf \subseteq AuthOf' /\ (SameAuth' => SameAuth) /\ ReadyStays
    <2>1. scenario' = scenario
      BY <1>0, Zenon DEF Idles
    <2>2. AuthOf \subseteq AuthOf'
      BY <1>1, <2>1, Zenon DEF AuthOf
    <2> QED
      BY <1>2, <2>2, ZenonT(60) DEF SameAuth, ReadyStays
  <1>4. (Steady' => Steady) /\ (Undrifted' <=> Undrifted) /\ (Undisturbed' <=> Undisturbed)
    BY <1>0, <1>3, Zenon DEF Steady, Undrifted, Undisturbed
  <1>5. UNCHANGED <<scram, acls, quotas, tokens>>
    BY <1>0, ZenonT(30) DEF brokerVars
  <1>6. Types'
    <2>1. StateTypes'
      BY <1>0, <1>1, <1>5, ZenonT(60) DEF StateTypes, Idles
    <2>2. PassTypes'
      BY <1>0, <1>1, Zenon DEF Types, PassTypes, Idles
    <2> QED
      BY <2>1, <2>2, ZenonT(30) DEF Types
  <1>7. Places'
    <2>1. status'.observed <= edit'
      BY <1>0, <1>1, SMTT(30), Z3T(30) DEF Idles
    <2> QED
      BY <1>0, <1>1, <2>1, ZenonT(60) DEF Places, Idles
  <1>8. Statuses' /\ Tokens' /\ Owned'
    BY <1>0, <1>3, <1>5, StatusesSame, TokensSame, OwnedSame, ZenonT(60)
  <1>9. Reissues'
    BY <1>0, <1>3, Zenon DEF Reissues
  <1>10. Credentials' /\ Acls' /\ Quotas' /\ Removed'
    BY <1>0, <1>3, <1>4, <1>5, CredentialsSame, AclsSame, QuotasSame, RemovedSame, ZenonT(60)
  <1> QED
    BY <1>6, <1>7, <1>8, <1>9, <1>10, ZenonT(60) DEF Inv

\* The user is deleted: at once when no pass has added the finalizer, and then no pass has
\* touched the broker either.
LEMMA DeleteKept ==
  ASSUME Inv, Delete
  PROVE  Inv'
  <1>0. /\ Types /\ Places /\ Statuses /\ Reissues /\ Tokens /\ Credentials /\ Acls /\ Quotas /\ Owned /\ Removed
        /\ Idles /\ UNCHANGED <<events, edit, secret, brokerVars, next, now, wake, ca, reissue, up>>
        /\ StateTypes /\ user.phase = "live"
        /\ user' = [user EXCEPT !.phase = IF user.fin THEN "deleting" ELSE "gone"]
    BY Zenon DEF Inv, Delete, Idles, Types
  <1>1. /\ user' \in [phase : {"live", "deleting", "gone"}, fin : BOOLEAN]
        /\ user'.fin = user.fin /\ user'.phase = IF user.fin THEN "deleting" ELSE "gone"
    BY <1>0, ZenonT(30) DEF StateTypes
  <1>2. ~Ready' /\ user'.phase # "live"
    BY <1>1, Zenon DEF Ready
  <1>3. AuthOf' = AuthOf /\ (SameAuth' <=> SameAuth) /\ ReadyStays
    BY <1>0, <1>2, Zenon DEF AuthOf, SameAuth, ReadyStays, Idles
  <1>4. (Steady' <=> Steady) /\ (Undrifted' <=> Undrifted) /\ (Undisturbed' <=> Undisturbed)
    BY <1>0, <1>3, Zenon DEF Steady, Undrifted, Undisturbed
  <1>5. UNCHANGED <<scram, acls, quotas, tokens>>
    BY <1>0, ZenonT(30) DEF brokerVars
  <1>6. Types'
    <2>1. StateTypes'
      BY <1>0, <1>1, <1>5, Zenon DEF StateTypes, Idles
    <2>2. PassTypes'
      BY <1>0, Zenon DEF Types, PassTypes, Idles
    <2> QED
      BY <2>1, <2>2, Zenon DEF Types
  <1>7. pc \notin Dropping
    BY <1>0, Zenon DEF Places
  <1>8. Places'
    <2>1. (user'.fin => user'.phase # "gone") /\ (user'.phase = "deleting" => user'.fin)
      BY <1>1, Zenon
    <2> QED
      BY <1>0, <1>1, <1>7, <2>1, Zenon DEF Places, Idles
  <1>9. Statuses' /\ Tokens' /\ Owned'
    BY <1>0, <1>3, <1>5, StatusesSame, TokensSame, OwnedSame, ZenonT(60)
  <1>10. Reissues'
    BY <1>0, <1>3, Zenon DEF Reissues
  <1>11. Credentials' /\ Acls' /\ Quotas'
    BY <1>0, <1>3, <1>4, <1>5, CredentialsSame, AclsSame, QuotasSame, ZenonT(60)
  <1>12. Removed'
    <2>1. NothingLeft' <=> NothingLeft
      BY <1>5, Zenon DEF NothingLeft
    <2>2. user'.phase = "gone" => NothingLeft
      BY <1>0, <1>1, ZenonT(30) DEF Removed
    <2> QED
      BY <1>0, <1>2, <1>7, <2>1, <2>2, ZenonT(60) DEF Removed, Idles, Dropping
  <1> QED
    BY <1>6, <1>8, <1>9, <1>10, <1>11, <1>12, ZenonT(60) DEF Inv

LEMMA InitInv ==
  ASSUME Init
  PROVE  Inv
  <1>1. /\ scenario \in Scenarios /\ events \in [Event -> Nat] /\ events["rotate"] = 0 /\ edit = 1
        /\ user.phase = "live" /\ user.fin = FALSE
        /\ user \in [phase : {"live", "deleting", "gone"}, fin : BOOLEAN]
        /\ secret = None /\ scram = [m \in Mechanism |-> None] /\ acls = {} /\ tokens = {}
        /\ quotas = [p \in Name |-> {}]
        /\ next = 1 /\ now = 0 /\ wake = 0 /\ ca = 1 /\ reissue = None /\ up = TRUE /\ pc = "idle"
    BY ZenonT(30) DEF Init, Event, Name
  <1>2. status \in Status /\ status.ready = "none" /\ status.observed = 0
    BY ZenonT(30) DEF Init, Status, Reason, Opt
  <1>3. 1 \in 1 .. Len(scenario.edits)
    BY <1>1, UserAssumption, SMTT(30), Z3T(30)
  <1>4. Types
    <2>1. StateTypes
      BY <1>1, <1>2, <1>3, ZenonT(30) DEF StateTypes, Opt, Label
    <2> QED
      BY <1>1, <2>1, ZenonT(60) DEF Types, PassTypes
  <1>5. NothingLeft
    BY <1>1, Zenon DEF NothingLeft
  <1>6. ~Ready
    BY <1>2, ZenonT(30) DEF Ready
  <1>7. /\ pc \notin Dropping /\ pc \notin Granting
        /\ ~OnFile /\ ~Knowing /\ ~TokenAccess
    BY <1>1, ZenonT(30) DEF Dropping, Granting, Scram, Tls, Delegating, Replacing, Access, AclStep, QuotaStep,
                OnFile, Knowing, TokenAccess
  <1>8. Places
    BY <1>1, <1>2, <1>7, SMTT(30), Z3T(30) DEF Places, Granting, Access, AclStep, QuotaStep
  <1>9. Statuses /\ Reissues
    BY <1>1, <1>2, <1>7, ZenonT(30) DEF Statuses, Reissues
  <1>10. Tokens /\ Owned
    BY <1>1, <1>7, ZenonT(30) DEF Tokens, Owned
  <1>11. Credentials /\ Acls /\ Quotas
    BY <1>1, <1>6, <1>7, ZenonT(60) DEF Credentials, Acls, Quotas, Granting, Access, AclStep, QuotaStep
  <1>12. Removed
    BY <1>1, <1>5, ZenonT(60) DEF Removed
  <1> QED
    BY <1>4, <1>8, <1>9, <1>10, <1>11, <1>12, ZenonT(60) DEF Inv

-----------------------------------------------------------------------------
(* Every step *)

\* The steps that grant something, and their calls.
Granted ==
  \/ read_password \/ write_password \/ alter_user_scram_credentials
  \/ load_ca \/ reconcile_user_cert_secret
  \/ describe_delegation_tokens \/ publish_token_pending \/ expire_delegation_token
  \/ issue_new_token \/ renew_delegation_token \/ patch_token_identity \/ write_token_secret
  \/ describe_acls \/ ensure_token_access_pending \/ apply_create_acls \/ apply_delete_acls
  \/ describe_user_quotas \/ apply_alter_user_quotas

LEMMA GrantedSteps ==
  ASSUME Inv, Granted
  PROVE  Steps
  <1>0. Types /\ Places /\ Tokens
    BY Zenon DEF Inv
  <1>1. CASE read_password \/ write_password
    BY <1>0, <1>1, PasswordSteps, Zenon
  <1>2. CASE alter_user_scram_credentials
    BY <1>0, <1>2, UpsertSteps, Zenon
  <1>3. CASE load_ca \/ reconcile_user_cert_secret
    BY <1>0, <1>3, CertificateSteps, Zenon
  <1>4. CASE describe_delegation_tokens
    BY <1>0, <1>4, DescribeSteps, ZenonT(60)
  <1>5. CASE publish_token_pending \/ ensure_token_access_pending
    BY <1>0, <1>5, PublishSteps, Zenon
  <1>6. CASE expire_delegation_token
    BY <1>0, <1>6, ExpireSteps, Zenon
  <1>7. CASE issue_new_token
    BY <1>0, <1>7, IssueSteps, ZenonT(60)
  <1>8. CASE renew_delegation_token
    BY <1>0, <1>8, RenewSteps, Zenon
  <1>9. CASE patch_token_identity \/ write_token_secret
    BY <1>0, <1>9, FileSteps, ZenonT(60)
  <1>10. CASE describe_acls \/ describe_user_quotas
    BY <1>0, <1>10, DescribeAccessSteps, Zenon
  <1>11. CASE apply_create_acls \/ apply_delete_acls \/ apply_alter_user_quotas
    BY <1>0, <1>11, ChangeAccessSteps, Zenon
  <1> QED
    BY <1>1, <1>2, <1>3, <1>4, <1>5, <1>6, <1>7, <1>8, <1>9, <1>10, <1>11, ZenonT(60) DEF Granted

LEMMA GrantedKept ==
  ASSUME Inv, Granted
  PROVE  Inv'
  <1>0. Grant /\ (Quits \/ Stops \/ Moves)
    BY GrantedSteps, Zenon DEF Steps
  <1>1. CASE Quits
    BY <1>0, <1>1, QuitInv, Zenon
  <1>2. CASE Stops
    BY <1>0, <1>2, StopInv, Zenon
  <1>3. CASE Moves
    <2>1. CASE read_password \/ write_password \/ alter_user_scram_credentials
      BY <1>0, <1>3, <2>1, ScramKept, Zenon
    <2>2. CASE load_ca \/ reconcile_user_cert_secret
      BY <1>0, <1>3, <2>2, CertificateKept, Zenon
    <2>3. CASE describe_delegation_tokens
      BY <1>0, <1>3, <2>3, DescribeKept, Zenon
    <2>4. CASE publish_token_pending
      BY <1>0, <1>3, <2>4, PublishKept, ZenonT(60)
    <2>5. CASE ensure_token_access_pending
      BY <1>0, <1>3, <2>5, AccessPendingKept, Zenon
    <2>6. CASE expire_delegation_token
      BY <1>0, <1>3, <2>6, ExpireKept, Zenon
    <2>7. CASE issue_new_token
      BY <1>0, <1>3, <2>7, IssueKept, Zenon
    <2>8. CASE renew_delegation_token
      BY <1>0, <1>3, <2>8, RenewKept, Zenon
    <2>9. CASE patch_token_identity
      BY <1>0, <1>3, <2>9, IdentityKept, Zenon
    <2>10. CASE write_token_secret
      BY <1>0, <1>3, <2>10, WriteTokenKept, Zenon
    <2>11. CASE describe_acls
      BY <1>0, <1>3, <2>11, DescribeAclsKept, Zenon
    <2>12. CASE describe_user_quotas
      BY <1>0, <1>3, <2>12, DescribeQuotasKept, Zenon
    <2>13. CASE apply_create_acls
      BY <1>0, <1>3, <2>13, CreateAclsKept, Zenon
    <2>14. CASE apply_delete_acls
      BY <1>0, <1>3, <2>14, DeleteAclsKept, Zenon
    <2>15. CASE apply_alter_user_quotas
      BY <1>0, <1>3, <2>15, AlterQuotasKept, Zenon
    <2> QED
      BY <2>1, <2>2, <2>3, <2>4, <2>5, <2>6, <2>7, <2>8, <2>9, <2>10, <2>11, <2>12, <2>13, <2>14,
         <2>15, Zenon DEF Granted
  <1> QED
    BY <1>0, <1>1, <1>2, <1>3, ZenonT(30)

LEMMA NextKept ==
  ASSUME Inv, [Next]_vars
  PROVE  Inv'
  <1>0. Types
    BY Zenon DEF Inv
  <1>1. CASE Granted
    BY <1>1, GrantedKept, Zenon
  <1>2. CASE Refuse
    BY <1>0, <1>2, RefuseQuits, QuitInv, Zenon
  <1>3. CASE Abort
    BY <1>0, <1>3, AbortStops, StopInv, Zenon
  <1>4. CASE Report
    BY <1>4, ReportKept, Zenon
  <1>5. CASE add_finalizer \/ remove_finalizer
    BY <1>5, FinalizerKept, Zenon
  <1>6. CASE drop_credential \/ drop_acls \/ drop_quotas
    BY <1>6, DropCredentialKept, DropAclsKept, DropQuotasKept, ZenonT(60)
  <1>7. CASE Start
    BY <1>7, StartKept, Zenon
  <1>8. CASE Edit \/ Delete \/ Tick
    BY <1>8, EditKept, DeleteKept, TickKept, ZenonT(60)
  <1>9. CASE Outage \/ Age \/ DeleteAcls
    BY <1>9, OutageKept, AgeKept, DriftKept, Zenon
  <1>10. CASE RotateCa \/ ListUsers \/ reissue_tls_user_cert_secrets
    BY <1>10, RotateKept, ListKept, ReissueKept, Zenon
  <1>11. CASE UNCHANGED vars
    BY <1>11, StutterKept, Zenon
  <1>12. CASE PassStep
    BY <1>1, <1>2, <1>4, <1>5, <1>6, <1>12, ZenonT(60) DEF PassStep, Granted
  <1> QED
    BY <1>3, <1>7, <1>8, <1>9, <1>10, <1>11, <1>12, ZenonT(60) DEF Next

\* What a pass knows at each of its steps, whatever happens in between.
THEOREM Invariant == Spec => []Inv
  <1>1. Init => Inv
    BY InitInv, Zenon
  <1>2. Inv /\ [Next]_vars => Inv'
    BY NextKept, Zenon
  <1> QED
    BY <1>1, <1>2, PTL DEF Spec

\* Ready with the current generation (patch_status of user.rs and of
\* user_delegation_token.rs) means that the credential, the ACLs and the quotas of the spec
\* are on the broker and in the Secret: whatever was edited, refused, lost or cut short
\* before, for any scenario.
THEOREM ReadyIsApplied == Spec => []ReadyMeansApplied
  <1>1. Inv => ReadyMeansApplied
    <2>1. SUFFICES ASSUME Inv, Ready, events["drift"] = 0, Steady PROVE Applied(kafkaUser)
      BY Zenon DEF ReadyMeansApplied
    <2>2. Credentials /\ Acls /\ Quotas /\ Undrifted
      BY <2>1, ZenonT(60) DEF Inv, Undrifted
    <2> QED
      BY <2>1, <2>2, Zenon DEF Credentials, Acls, Quotas, Applied
  <1> QED
    BY <1>1, Invariant, PTL

\* A user whose kind of authentication never changed leaves nothing on the broker when no
\* call failed (cleanup_user of user.rs), for any scenario.
THEOREM DeletedIsClean == Spec => []CleanDelete
  <1>1. Inv => CleanDelete
    BY Zenon DEF Inv, Removed, CleanDelete
  <1> QED
    BY <1>1, Invariant, PTL

-----------------------------------------------------------------------------
(* Time *)

\* What a token that a pass has just renewed, or need not renew, has left at least.
Lead == Min(RenewBefore, Period - 1)

\* That is enough for the shortest requeue, one pass, and the passes that may yet be cut
\* short.
Prompt == \A c \in Scenarios : Lead > 1 + MinRequeue + c.max["abort"] * (1 + Backoff)

\* No token lives longer than the broker grants.
Bounded == \A t \in tokens : t.expiry <= now + Period

\* What the passes that may yet be cut short can cost.
Slack == (scenario.max["abort"] - events["abort"]) * (1 + Backoff)

TokenReady == Ready /\ status.reason = "TokenReady"

\* Passes are timely, and a user is Ready only after the finalizer is there.
Timely ==
  /\ events["abort"] <= scenario.max["abort"] /\ now <= scenario.time
  /\ pc = "idle" /\ user.phase # "gone" => now <= wake
  /\ pc # "idle" => pass.now <= now /\ now <= pass.now + 1
  /\ pc = "finalizer" => ~user.fin
  /\ user.phase = "live" /\ status.ready = "True" => user.fin

\* Only a certificate is said to age.
Ageless == secret # None /\ secret[1].kind = "token" => secret[1].aging = FALSE

\* A pass leaves a token that need not be renewed soon, or that cannot be.
Renewed == pass.token[1].expiry > pass.now + Lead \/ pass.token[1].expiry = pass.token[1].max
Settled == pc \in {"check", "identity"} \/ OnFile
Due ==
  /\ Settled => Renewed
  /\ OnFile => status.expiry = pass.token[1].expiry /\ status.max = pass.token[1].max

\* The token on file of a user who is Ready lives as long as its status says, and the
\* next pass comes before that.
OnBroker ==
  \E t \in tokens : status.tokenId = Some(t.id) /\ status.expiry <= t.expiry /\ t.max = status.max
Lasting ==
  TokenReady =>
    /\ now < status.expiry => OnBroker
    /\ \/ status.expiry = status.max
       \/ (IF pc = "idle" THEN wake ELSE pass.now) + Slack + 1 < status.expiry

Live == Timely /\ Ageless /\ Due /\ Lasting

-----------------------------------------------------------------------------
(* Numbers *)

LEMMA SlackNumbers ==
  ASSUME NEW m \in Nat, NEW a \in Nat, NEW b \in Nat
  PROVE  /\ a <= m => (m - a) * (1 + b) \in Nat /\ (m - a) * (1 + b) <= m * (1 + b)
         /\ (m - (a + 1)) * (1 + b) = (m - a) * (1 + b) - (1 + b)
  <1>1. PICK k \in Nat : k = 1 + b
    BY SMTT(30), Z3T(30)
  <1>2. (m - a) * k = m * k - a * k /\ (m - (a + 1)) * k = m * k - a * k - k /\ m * k \in Nat /\ a * k \in Nat
    BY SMTT(30), Z3T(30)
  <1>3. ASSUME a <= m PROVE (m - a) * k \in Nat
    <2>1. PICK x \in Nat : x = m - a
      BY <1>3, SMTT(30), Z3T(30)
    <2> QED
      BY <2>1, SMTT(30), Z3T(30)
  <1> QED
    BY <1>1, <1>2, <1>3, SMTT(30), Z3T(30)

\* A pass that is cut short, and what a pass that ends well asks for.
LEMMA CutShort ==
  ASSUME NEW e \in Nat, NEW p \in Nat, NEW s \in Nat, NEW w \in Nat, NEW n \in Nat, NEW b \in Nat,
         p + s + 1 < e, n <= p + 1, w <= n + b
  PROVE  w + (s - (1 + b)) + 1 < e
  BY SMTT(30), Z3T(30)

LEMMA RenewsInTime ==
  ASSUME NEW e \in Nat, NEW p \in Nat, NEW s \in Nat, NEW w \in Nat, NEW n \in Nat, NEW q \in Int,
         NEW before \in Nat, NEW lead \in Nat, NEW least \in Nat \ {0},
         lead <= before, lead > 1 + least + s, n <= p + 1, w <= n + q, e > p + lead,
         q <= e - p - before \/ q <= least
  PROVE  w + s + 1 < e
  BY SMTT(30), Z3T(30)

LEMMA LeadTypes ==
  /\ Lead \in Nat /\ RenewBefore \in Nat /\ Period \in Nat
  /\ Lead <= RenewBefore /\ Lead < Period
  BY UserAssumption, SMTT(30), Z3T(30) DEF Lead, Min

LEMMA Numbers ==
  ASSUME Types
  PROVE  /\ scenario \in Scenarios /\ scenario.max["abort"] \in Nat /\ events["abort"] \in Nat
         /\ scenario.time \in Nat /\ now \in Nat /\ wake \in Nat /\ edit \in Nat
         /\ status \in Status /\ status.expiry \in Nat /\ status.max \in Nat
         /\ pc # "idle" => pass.now \in Nat
  <1>1. /\ scenario \in Scenarios /\ events \in [Event -> Nat] /\ now \in Nat /\ wake \in Nat
        /\ status \in Status /\ StateTypes
    BY Zenon DEF Types, StateTypes
  <1>2. scenario.max \in [Event -> Nat] /\ scenario.time \in Nat /\ edit \in Nat
    BY <1>1, ScenarioTypes, Zenon
  <1>3. scenario.max["abort"] \in Nat /\ events["abort"] \in Nat
    BY <1>1, <1>2, ZenonT(60) DEF Event
  <1>4. status.expiry \in Nat /\ status.max \in Nat
    BY <1>1, StatusFields, Zenon
  <1>5. pc # "idle" => pass.now \in Nat
    BY PassFields, Zenon
  <1> QED
    BY <1>1, <1>2, <1>3, <1>4, <1>5, ZenonT(60)

LEMMA SlackTypes ==
  ASSUME Types, Timely
  PROVE  Slack \in Nat /\ Slack <= scenario.max["abort"] * (1 + Backoff)
  <1>1. scenario.max["abort"] \in Nat /\ events["abort"] \in Nat /\ events["abort"] <= scenario.max["abort"]
    BY Numbers, ZenonT(30) DEF Timely
  <1> QED
    BY <1>1, SlackNumbers, BackoffNat, ZenonT(30) DEF Slack

-----------------------------------------------------------------------------
(* Steps of a pass *)

\* The user of a Ready token is one.
LEMMA ReadyToken ==
  ASSUME Types, Places, TokenReady
  PROVE  kafkaUser.auth = "token" /\ (pc # "idle" => pass.s.auth = "token")
  <1>1. Ready /\ kafkaUser.auth = "token"
    BY Zenon DEF TokenReady, Ready, Places, kafkaUser
  <1> QED
    BY <1>1, ReadyPass, ZenonT(30)

LEMMA QuitLive ==
  ASSUME Inv, Live, Quits
  PROVE  Live'
  <1>0. /\ Types /\ Timely /\ Ageless /\ Ends /\ Rest /\ UNCHANGED secret /\ status'.ready = "False"
        /\ (now <= scenario.time => now <= wake')
        /\ (events'["abort"] <= events["abort"] \/ events'["abort"] <= scenario.max["abort"])
        /\ Counts
    BY Zenon DEF Inv, Live, Quits, Withdraws
  <1>1. pc' = "idle" /\ UNCHANGED <<scenario, now, user>>
    BY <1>0, Zenon DEF Ends, Rest
  <1>2. ~TokenReady' /\ status'.ready # "True"
    BY <1>0, ZenonT(60) DEF TokenReady, Ready
  <1>3. Timely'
    <2>1. events'["abort"] \in Nat
      BY <1>0, ZenonT(30) DEF Counts, Event
    <2>2. events'["abort"] <= scenario.max["abort"]
      BY <1>0, <2>1, Numbers, SMTT(30), Z3T(30) DEF Timely
    <2> QED
      BY <1>0, <1>1, <1>2, <2>2, Zenon DEF Timely
  <1>4. ~OnFile' /\ ~Settled'
    BY <1>1, IdleFacts, ZenonT(60) DEF OnFile, TokenAccess, Settled
  <1>5. Due' /\ Ageless' /\ Lasting'
    BY <1>0, <1>1, <1>2, <1>4, Zenon DEF Due, Ageless, Lasting
  <1> QED
    BY <1>3, <1>5, ZenonT(60) DEF Live

LEMMA StopLive ==
  ASSUME Inv, Live, Stops
  PROVE  Live'
  <1>0. /\ Types /\ Places /\ Timely /\ Ageless /\ Lasting /\ Ends /\ Rest
        /\ UNCHANGED <<status, secret, tokens>> /\ pc # "idle"
        /\ wake' \in Nat /\ wake' <= now + Backoff /\ (now <= scenario.time => now <= wake')
        /\ \/ pass.s.auth # "token" /\ events'["abort"] = events["abort"]
           \/ events'["abort"] = events["abort"] + 1 /\ events["abort"] < scenario.max["abort"]
    BY Zenon DEF Inv, Live, Stops
  <1>1. pc' = "idle" /\ UNCHANGED <<scenario, now, user, edit>>
    BY <1>0, Zenon DEF Ends, Rest
  <1>2. Timely'
    <2>1. events'["abort"] <= scenario.max["abort"]
      BY <1>0, Numbers, SMTT(30), Z3T(30) DEF Timely
    <2> QED
      BY <1>0, <1>1, <2>1, Zenon DEF Timely
  <1>3. ~OnFile' /\ ~Settled'
    BY <1>1, IdleFacts, ZenonT(30) DEF OnFile, TokenAccess, Settled
  <1>4. Due' /\ Ageless'
    BY <1>0, <1>1, <1>3, Zenon DEF Due, Ageless
  <1>5. Lasting'
    <2>1. SUFFICES ASSUME TokenReady'
                   PROVE  /\ now' < status'.expiry => OnBroker'
                          /\ status'.expiry = status'.max \/ wake' + Slack' + 1 < status'.expiry
      BY <1>1, Zenon DEF Lasting
    <2>2. TokenReady
      BY <1>0, <1>1, <2>1, ZenonT(60) DEF TokenReady, Ready
    <2>3. (now < status.expiry => OnBroker) /\ (OnBroker' <=> OnBroker)
      BY <1>0, <2>2, Zenon DEF Lasting, OnBroker
    <2>4. status.expiry = status.max \/ pass.now + Slack + 1 < status.expiry
      BY <1>0, <2>2, Zenon DEF Lasting
    <2>5. events'["abort"] = events["abort"] + 1
      BY <1>0, <2>2, ReadyToken, ZenonT(60)
    <2>6. Slack' = Slack - (1 + Backoff)
      BY <1>0, <1>1, <2>5, Numbers, SlackNumbers, BackoffNat, SMTT(30), Z3T(30) DEF Slack
    <2>7. ASSUME pass.now + Slack + 1 < status.expiry PROVE wake' + Slack' + 1 < status.expiry
      <3>1. /\ status.expiry \in Nat /\ pass.now \in Nat /\ Slack \in Nat /\ now \in Nat /\ now <= pass.now + 1
            /\ Backoff \in Nat
        BY <1>0, Numbers, SlackTypes, BackoffNat, ZenonT(60) DEF Timely
      <3> QED
        BY <1>0, <2>6, <2>7, <3>1, CutShort, ZenonT(60)
    <2> QED
      BY <1>0, <1>1, <2>3, <2>4, <2>7, ZenonT(30)
  <1> QED
    BY <1>2, <1>4, <1>5, ZenonT(60) DEF Live

\* A renewal never shortens a token's life.
LEMMA RenewalLasts ==
  ASSUME Types, Tokens, Bounded, pc = "renew", now' = now, UNCHANGED status,
         \E t \in tokens : t.id = pass.token[1].id,
         tokens' = {t \in tokens : t.id # pass.token[1].id} \cup {RenewedToken}, OnBroker
  PROVE  OnBroker'
  <1>1. tokens' = {RenewedToken} /\ tokens = {pass.token[1]}
    BY RenewGrants, Zenon
  <1>2. /\ status.tokenId = Some(pass.token[1].id) /\ status.expiry <= pass.token[1].expiry
        /\ pass.token[1].max = status.max /\ pass.token[1].expiry <= pass.token[1].max
        /\ pass.token[1].expiry <= now + Period
    BY <1>1, Zenon DEF OnBroker, Tokens, Bounded
  <1>3. pass.token # None
    BY KnownToken, ZenonT(30) DEF Knowing
  <1>4. /\ RenewedToken.id = pass.token[1].id /\ RenewedToken.max = pass.token[1].max
        /\ RenewedToken.expiry \in {now + Period, pass.token[1].max}
    BY <1>3, RenewedTypes, ZenonT(30)
  <1>5. /\ pass.token[1].expiry \in Nat /\ pass.token[1].max \in Nat /\ now \in Nat
        /\ status.expiry \in Nat
    <2>1. pc # "idle"
      BY Zenon
    <2>2. pass.token[1].expiry \in Nat /\ pass.token[1].max \in Nat
      BY <1>3, <2>1, PassToken, ZenonT(60)
    <2>3. now \in Nat /\ status.expiry \in Nat
      BY Numbers, ZenonT(60)
    <2> QED
      BY <2>2, <2>3, ZenonT(30)
  <1>6. status.expiry <= RenewedToken.expiry
    <2>1. PICK e \in Nat, m \in Nat, n \in Nat :
            e = pass.token[1].expiry /\ m = pass.token[1].max /\ n = now
      BY <1>5, Zenon
    <2>2. RenewedToken.expiry \in Nat
      BY <1>3, RenewedTypes, TokenFields, ZenonT(30)
    <2> QED
      BY <1>2, <1>4, <1>5, <2>1, <2>2, LeadTypes, SMTT(30), Z3T(30)
  <1> QED
    BY <1>1, <1>2, <1>4, <1>6, Zenon DEF OnBroker

LEMMA MoveLive ==
  ASSUME Inv, Live, Bounded, Grant, Moves, Ageless', Due'
  PROVE  Live'
  <1>0. /\ Types /\ Places /\ Tokens /\ Statuses /\ Timely /\ Lasting /\ Due /\ Rest /\ pc # "idle" /\ pc' # "idle"
        /\ pc' # "finalizer" /\ events' = events /\ pass'.now = pass.now
    BY Kinds, ZenonT(30) DEF Inv, Live, Moves
  <1>1. UNCHANGED <<scenario, now, user, edit>>
    BY <1>0, ZenonT(60) DEF Rest
  <1>2. Timely'
    <2>1. status'.ready = "True" => status.ready = "True"
      BY ReadyKept, Zenon
    <2> QED
      BY <1>0, <1>1, <2>1, Zenon DEF Timely
  <1>3. Lasting'
    <2>1. SUFFICES ASSUME TokenReady'
                   PROVE  /\ now' < status'.expiry => OnBroker'
                          /\ status'.expiry = status'.max \/ pass'.now + Slack' + 1 < status'.expiry
      BY <1>0, Zenon DEF Lasting
    <2>2. status' = status /\ TokenReady
      BY <2>1, MovesReady, ZenonT(30) DEF TokenReady
    <2>3. Slack' = Slack
      BY <1>0, <1>1, ZenonT(60) DEF Slack
    <2>4. status.expiry = status.max \/ pass.now + Slack + 1 < status.expiry
      BY <1>0, <2>2, Zenon DEF Lasting
    <2>5. pc \notin {"expire", "create"}
      BY <1>0, <2>2, ZenonT(30) DEF Statuses, TokenReady, Ready
    <2>6. ASSUME now < status.expiry PROVE OnBroker'
      <3>1. OnBroker
        BY <1>0, <2>2, <2>6, Zenon DEF Lasting
      <3>2. CASE UNCHANGED tokens
        BY <2>2, <3>1, <3>2, Zenon DEF OnBroker
      <3>3. CASE /\ pc = "renew" /\ (\E t \in tokens : t.id = pass.token[1].id)
                 /\ tokens' = {t \in tokens : t.id # pass.token[1].id} \cup {RenewedToken}
        BY <1>0, <1>1, <2>2, <3>1, <3>3, RenewalLasts, ZenonT(60)
      <3> QED
        BY <2>5, <3>2, <3>3, ZenonT(60) DEF Grant, brokerVars
    <2> QED
      BY <1>0, <1>1, <2>2, <2>3, <2>4, <2>6, ZenonT(60)
  <1> QED
    BY <1>2, <1>3, ZenonT(30) DEF Live

\* A step that keeps the token and what the status says of it.
LEMMA DueKept ==
  ASSUME Due, pass'.token = pass.token, pass'.now = pass.now, pc' # "renew",
         status'.expiry = status.expiry, status'.max = status.max,
         Settled' => Settled, OnFile' => OnFile
  PROVE  Due'
  BY Zenon DEF Due, Renewed

LEMMA OtherLive ==
  ASSUME Inv, Live, Bounded, Grant, Moves,
         \/ read_password \/ write_password \/ alter_user_scram_credentials
         \/ load_ca \/ reconcile_user_cert_secret
  PROVE  Live'
  <1>0. Types /\ Places /\ Ageless /\ pc \in Scram \cup Tls
    BY ZenonT(60) DEF Inv, Live, Scram, Tls, read_password, write_password, alter_user_scram_credentials, load_ca,
           reconcile_user_cert_secret
  <1>1. pass'.s = pass.s /\ pass.s.auth # "token" /\ pc' \notin Delegating
    BY <1>0, Kinds, ZenonT(30) DEF Places, Moves, Mechanism
  <1>2. pc' # "renew" /\ ~OnFile' /\ ~Settled'
    BY <1>1, Zenon DEF Delegating, OnFile, TokenAccess, Settled
  <1>3. Due'
    BY <1>2, Zenon DEF Due
  <1>4. UNCHANGED secret \/ (secret' # None /\ secret'[1].kind # "token")
    <2>1. CASE UNCHANGED secret
      BY <2>1, ZenonT(60)
    <2>2. CASE write_password
      BY <2>2, ZenonT(60) DEF write_password, Some, None
    <2>3. CASE reconcile_user_cert_secret
      BY <2>3, ZenonT(60) DEF reconcile_user_cert_secret, ensure_user_cert_secret, Some, None
    <2> QED
      BY <2>1, <2>2, <2>3, ZenonT(60) DEF read_password, alter_user_scram_credentials, load_ca
  <1>5. Ageless'
    BY <1>0, <1>4, Zenon DEF Ageless
  <1> QED
    BY <1>3, <1>5, MoveLive, ZenonT(60)

LEMMA DescribeLive ==
  ASSUME Inv, Live, Bounded, Grant, Moves, describe_delegation_tokens
  PROVE  Live'
  <1> DEFINE d == decide(pass.s, matching)
  <1>0. /\ Types /\ Tokens /\ Ageless /\ pc # "idle" /\ pc' # "idle" /\ UNCHANGED secret /\ tokens \subseteq Token
        /\ pass'.now = pass.now
    BY Kinds, ZenonT(60) DEF Inv, Live, Moves, describe_delegation_tokens, Types, StateTypes
  <1>1. /\ pass' = [pass EXCEPT !.token = matching, !.decision = d]
        /\ pc' = CASE d \in {"Create", "Cycle"} -> "pending" [] d = "Renew" -> "renew" [] d = "NoOp" -> "check"
    BY <1>0, ZenonT(30) DEF describe_delegation_tokens, on_admin_error, Retry, EndPass
  <1>2. pass'.token = matching
    BY <1>0, <1>1, PassFields, ZenonT(30) DEF Pass
  <1>3. \/ pc' = "pending"
        \/ \E t \in Token : /\ matching = Some(t)
                            /\ \/ pc' = "renew" /\ t.expiry - pass.now <= RenewBefore
                               \/ pc' = "check" /\ ~(t.expiry - pass.now <= RenewBefore)
    <2>1. CASE matching = None
      BY <1>1, <2>1, Decides, ZenonT(60)
    <2>2. CASE \E t \in tokens : matching = Some(t)
      <3>1. PICK t \in tokens : matching = Some(t)
        BY <2>2, ZenonT(60)
      <3>2. /\ d \in {"Cycle", "Renew", "NoOp"}
            /\ d = "Renew" => t.expiry - pass.now <= RenewBefore
            /\ d = "NoOp" => ~(t.expiry - pass.now <= RenewBefore)
        BY <3>1, Decides, ZenonT(30)
      <3> HIDE DEF d
      <3> QED
        BY <1>0, <1>1, <3>1, <3>2, ZenonT(30)
    <2> QED
      BY <1>0, <2>1, <2>2, Matching, ZenonT(30) DEF Tokens
  <1>4. ~OnFile'
    BY <1>3, ZenonT(60) DEF OnFile, TokenAccess, Access, AclStep, QuotaStep
  <1>5. Due'
    <2>1. CASE pc' = "pending"
      BY <1>4, <2>1, ZenonT(60) DEF Due, Settled
    <2>2. ASSUME NEW t \in Token, matching = Some(t),
                 \/ pc' = "renew" /\ t.expiry - pass.now <= RenewBefore
                 \/ pc' = "check" /\ ~(t.expiry - pass.now <= RenewBefore)
          PROVE  Due'
      <3>1. pass'.token[1] = t /\ t.expiry \in Nat /\ pass.now \in Nat /\ RenewBefore \in Nat
        BY <1>0, <1>2, <2>2, SomeTypes, TokenFields, PassFields, BackoffNat, ZenonT(60)
      <3>2. CASE pc' = "renew" /\ t.expiry - pass.now <= RenewBefore
        BY <1>4, <3>2, ZenonT(60) DEF Due, Settled
      <3>3. CASE pc' = "check" /\ ~(t.expiry - pass.now <= RenewBefore)
        <4>1. pass'.token[1].expiry > pass'.now + Lead
          BY <1>0, <3>1, <3>3, LeadTypes, SMTT(30), Z3T(30)
        <4> QED
          BY <1>4, <3>3, <4>1, ZenonT(30) DEF Due, Renewed
      <3> QED
        BY <2>2, <3>2, <3>3, ZenonT(30)
    <2> QED
      BY <1>3, <2>1, <2>2, ZenonT(30)
  <1>6. Ageless'
    BY <1>0, Zenon DEF Ageless
  <1> QED
    BY <1>5, <1>6, MoveLive, ZenonT(30)

LEMMA PublishLive ==
  ASSUME Inv, Live, Bounded, Grant, Moves, publish_token_pending
  PROVE  Live'
  <1>0. /\ Types /\ Ageless /\ Due /\ pc \in {"pending", "check"} /\ pc # "idle" /\ UNCHANGED secret
        /\ pass'.now = pass.now /\ status \in Status
    BY Kinds, ZenonT(30) DEF Inv, Live, Moves, publish_token_pending, Types, StateTypes
  <1>1. /\ \E b \in BOOLEAN : pass' = [pass EXCEPT !.published = b]
        /\ pc' \in {"identity", "expire", "create"} /\ (pc' = "identity" => pc = "check")
    BY <1>0, ZenonT(30) DEF publish_token_pending
  <1>2. pass'.token = pass.token
    BY <1>0, <1>1, PassFields, ZenonT(30) DEF Pass
  <1>3. status'.expiry = status.expiry /\ status'.max = status.max
    BY <1>0, ZenonT(60) DEF publish_token_pending, Status
  <1>4. pc' # "renew" /\ ~OnFile' /\ (Settled' => Settled)
    BY <1>1, ZenonT(60) DEF OnFile, TokenAccess, Access, AclStep, QuotaStep, Settled
  <1>5. Due' /\ Ageless'
    BY <1>0, <1>2, <1>3, <1>4, DueKept, Zenon DEF Ageless
  <1> QED
    BY <1>5, MoveLive, ZenonT(60)

LEMMA ReplaceLive ==
  ASSUME Inv, Live, Bounded, Grant, Moves, expire_delegation_token \/ issue_new_token \/ renew_delegation_token
  PROVE  Live'
  <1>0. /\ Types /\ Tokens /\ Timely /\ Ageless /\ pc # "idle" /\ pc' # "idle" /\ UNCHANGED secret
        /\ pass'.now = pass.now
    BY Kinds, ZenonT(30) DEF Inv, Live, Moves, expire_delegation_token, issue_new_token, renew_delegation_token
  <1>1. CASE expire_delegation_token
    <2>1. pc' = "create"
      BY <1>0, <1>1, ZenonT(30) DEF expire_delegation_token, TokenCall, Call, Goto, on_admin_error, Retry, EndPass
    <2>2. pc' # "renew" /\ ~OnFile' /\ ~Settled'
      BY <2>1, ZenonT(30) DEF OnFile, TokenAccess, Access, AclStep, QuotaStep, Settled
    <2> QED
      BY <1>0, <2>2, MoveLive, ZenonT(60) DEF Due, Ageless
  <1>2. ASSUME NEW t \in Token, pc' = "check", pass' = [pass EXCEPT !.token = Some(t)],
               t.expiry = now + Period \/ t.expiry = t.max
        PROVE  Live'
    <2>1. pass'.token[1] = t
      BY <1>0, <1>2, PassFields, SomeTypes, ZenonT(60) DEF Pass
    <2>2. pass.now \in Nat /\ now \in Nat /\ pass.now <= now
      BY <1>0, Numbers, ZenonT(60) DEF Timely
    <2>3. t.expiry > pass.now + Lead \/ t.expiry = t.max
      BY <1>2, <2>2, LeadTypes, SMTT(30), Z3T(30)
    <2>4. Renewed'
      BY <1>0, <2>1, <2>3, ZenonT(30) DEF Renewed
    <2>5. pc' # "renew" /\ ~OnFile'
      BY <1>2, ZenonT(60) DEF OnFile, TokenAccess, Access, AclStep, QuotaStep
    <2>6. Due' /\ Ageless'
      BY <1>0, <2>4, <2>5, Zenon DEF Due, Ageless
    <2> QED
      BY <2>6, MoveLive, ZenonT(60)
  <1>3. CASE issue_new_token
    <2>1. pc' = "check" /\ pass' = [pass EXCEPT !.token = Some(Fresh)]
      BY <1>0, <1>3, ZenonT(30) DEF issue_new_token, Call, Fresh, on_admin_error, Retry, EndPass
    <2>2. Fresh \in Token /\ (Fresh.expiry = now + Period \/ Fresh.expiry = Fresh.max)
      BY <1>0, FreshTypes, ZenonT(60)
    <2> QED
      BY <1>2, <2>1, <2>2, ZenonT(30)
  <1>4. CASE renew_delegation_token
    <2>1. pc = "renew" /\ pc' = "check" /\ pass' = [pass EXCEPT !.token = Some(RenewedToken)]
      BY <1>0, <1>4, ZenonT(30) DEF renew_delegation_token, TokenCall, Call, RenewedToken, on_admin_error, Retry, EndPass
    <2>2. pass.token # None
      BY <1>0, <2>1, KnownToken, ZenonT(30) DEF Knowing
    <2>3. RenewedToken \in Token /\ (RenewedToken.expiry = now + Period \/ RenewedToken.expiry = RenewedToken.max)
      BY <1>0, <2>2, RenewedTypes, ZenonT(30)
    <2> QED
      BY <1>2, <2>1, <2>3, ZenonT(30)
  <1> QED
    BY <1>1, <1>3, <1>4, ZenonT(30)

LEMMA FileLive ==
  ASSUME Inv, Live, Bounded, Grant, Moves, patch_token_identity \/ write_token_secret
  PROVE  Live'
  <1>0. Types /\ Ageless /\ Due /\ pc # "idle" /\ pc' # "idle" /\ pass'.now = pass.now
    BY Kinds, ZenonT(30) DEF Inv, Live, Moves
  <1>1. CASE patch_token_identity
    <2>1. /\ pc = "identity" /\ pc' = "writeToken" /\ pass' = pass /\ UNCHANGED secret
          /\ status' = [status EXCEPT !.tokenId = Some(pass.token[1].id),
                                      !.expiry = pass.token[1].expiry, !.max = pass.token[1].max]
      BY <1>1, ZenonT(60) DEF patch_token_identity, Goto
    <2>2. status'.expiry = pass'.token[1].expiry /\ status'.max = pass'.token[1].max
      BY <1>0, <2>1, Numbers, ZenonT(30) DEF Status
    <2>3. Renewed'
      BY <1>0, <2>1, Zenon DEF Due, Settled, Renewed
    <2>4. Due' /\ Ageless'
      BY <1>0, <2>1, <2>2, <2>3, ZenonT(30) DEF Due, Ageless
    <2> QED
      BY <2>4, MoveLive, ZenonT(60)
  <1>2. CASE write_token_secret
    <2>1. /\ pc = "writeToken" /\ pc' = "acls" /\ pass' = pass /\ UNCHANGED status
          /\ secret' = Some([kind |-> "token", value |-> pass.token[1].id, aging |-> FALSE])
      BY <1>0, <1>2, ZenonT(30) DEF write_token_secret, Goto, Retry, EndPass
    <2>2. OnFile /\ Settled /\ pc' # "renew"
      BY <2>1, ZenonT(30) DEF OnFile, Settled
    <2>3. Due'
      BY <1>0, <2>1, <2>2, DueKept, ZenonT(60)
    <2>4. Ageless'
      BY <2>1, ZenonT(60) DEF Ageless, Some
    <2> QED
      BY <2>3, <2>4, MoveLive, ZenonT(30)
  <1> QED
    BY <1>1, <1>2, ZenonT(30)

LEMMA AccessLive ==
  ASSUME Inv, Live, Bounded, Grant, Moves,
         \/ describe_acls \/ ensure_token_access_pending \/ apply_create_acls \/ apply_delete_acls
         \/ describe_user_quotas \/ apply_alter_user_quotas
  PROVE  Live'
  <1>0. /\ Types /\ Ageless /\ Due /\ pass'.now = pass.now /\ pass'.s = pass.s /\ status \in Status
        /\ pc \in Access /\ pc # "idle" /\ UNCHANGED secret
    BY Kinds, Numbers, ZenonT(60) DEF Inv, Live, Moves, describe_acls, ensure_token_access_pending, apply_create_acls,
       apply_delete_acls, describe_user_quotas, apply_alter_user_quotas, Access, AclStep, QuotaStep
  <1>1. pc' \in Access
    BY <1>0, Kinds, ZenonT(30) DEF Moves, Granting
  <1>2. pass'.token = pass.token /\ status'.expiry = status.expiry /\ status'.max = status.max
    <2>1. ASSUME NEW l, Goto(l), UNCHANGED status
          PROVE  pass'.token = pass.token /\ status'.expiry = status.expiry /\ status'.max = status.max
      BY <2>1, ZenonT(30) DEF Goto
    <2>2. CASE describe_acls
      <3>1. ASSUME NEW a, NEW d, Differs(a, d, "pendingAcls", "createAcls", "quotas")
            PROVE  pass'.token = pass.token /\ UNCHANGED status
        BY <1>0, <3>1, DiffersKept, ZenonT(30)
      <3> QED
        BY <2>1, <2>2, <3>1, DescribeAclsCases, MovesNoFailure, ZenonT(60)
    <2>3. CASE describe_user_quotas
      <3>1. ASSUME NEW a, NEW d, Differs(a, d, "pendingQuotas", "alterQuotas", "report")
            PROVE  pass'.token = pass.token /\ UNCHANGED status
        BY <1>0, <3>1, DiffersKept, ZenonT(60)
      <3> QED
        BY <2>1, <2>3, <3>1, DescribeQuotasCases, MovesNoFailure, ZenonT(60)
    <2>4. CASE ensure_token_access_pending
      <3>1. /\ status' = [status EXCEPT !.ready = "False", !.reason = "AccessPending", !.issued = TRUE]
            /\ pass' = [pass EXCEPT !.published = TRUE]
        BY <2>4, ZenonT(60) DEF ensure_token_access_pending
      <3>2. status'.expiry = status.expiry /\ status'.max = status.max
        BY <1>0, <3>1, ZenonT(60) DEF Status
      <3>3. pass'.token = pass.token
        BY <1>0, <3>1, PassFields, ZenonT(30) DEF Pass
      <3> QED
        BY <3>2, <3>3, ZenonT(30)
    <2>5. CASE apply_create_acls \/ apply_delete_acls \/ apply_alter_user_quotas
      BY <1>0, <2>1, <2>5, ChangeAccessSteps, MovesNoFailure, ZenonT(60)
    <2> QED
      BY <2>2, <2>3, <2>4, <2>5, ZenonT(60)
  <1>3. pc' # "renew" /\ (OnFile' => OnFile) /\ (Settled' => Settled)
    BY <1>0, <1>1, ZenonT(60) DEF OnFile, TokenAccess, Settled, Access, AclStep, QuotaStep
  <1>4. Due' /\ Ageless'
    BY <1>0, <1>2, <1>3, DueKept, ZenonT(60) DEF Ageless
  <1> QED
    BY <1>4, MoveLive, ZenonT(60)

LEMMA GrantedLive ==
  ASSUME Inv, Live, Bounded, Granted
  PROVE  Live'
  <1>0. Grant /\ (Quits \/ Stops \/ Moves)
    BY GrantedSteps, Zenon DEF Steps
  <1>1. CASE Quits
    BY <1>1, QuitLive, ZenonT(60)
  <1>2. CASE Stops
    BY <1>2, StopLive, Zenon
  <1>3. CASE Moves
    BY <1>0, <1>3, OtherLive, DescribeLive, PublishLive, ReplaceLive, FileLive, AccessLive, ZenonT(60) DEF Granted
  <1> QED
    BY <1>0, <1>1, <1>2, <1>3, ZenonT(60)

-----------------------------------------------------------------------------
(* The other steps *)

\* A pass that ends well asks for the next one in time.
LEMMA ReportLive ==
  ASSUME Prompt, Inv, Live, Report
  PROVE  Live'
  <1>0. /\ Types /\ Places /\ Tokens /\ Credentials /\ Timely /\ Ageless /\ Due /\ pc = "report" /\ pc # "idle"
        /\ UNCHANGED <<scenario, events, edit, user, secret, tokens, now>> /\ StateTypes
    BY ZenonT(30) DEF Inv, Live, Report, brokerVars, Types
  <1>1. /\ status'.tokenId = status.tokenId /\ (status'.reason = "TokenReady" <=> pass.s.auth = "token")
        /\ status'.expiry = status.expiry /\ status'.max = status.max
    BY <1>0, ReportStatus, ZenonT(30)
  <1>2. PICK q \in Nat : /\ EndPass(q)
                         /\ pass.s.auth = "token" => q = Min(compute_requeue(pass.token[1]), Drift)
    <2>1. CASE IsToken
      <3>1. pass.token # None
        BY <1>0, <2>1, KnownToken, ZenonT(30) DEF IsToken, Knowing, TokenAccess, Access
      <3>2. Min(compute_requeue(pass.token[1]), Drift) \in Nat
        BY <1>0, <3>1, RequeueTypes, ZenonT(30)
      <3> QED
        BY <2>1, <3>2, Zenon DEF Report
    <2>2. CASE ~IsToken
      BY <2>2, BackoffNat, ZenonT(30) DEF Report, IsToken
    <2> QED
      BY <2>1, <2>2, ZenonT(30)
  <1>3. pc' = "idle" /\ wake' \in Nat /\ wake' <= now + q /\ now <= wake'
    BY <1>0, <1>2, EndTypes, ZenonT(30) DEF Timely, Ends
  <1>4. Timely'
    <2>1. user.fin
      BY <1>0, ZenonT(30) DEF Places, Granting, Access
    <2> QED
      BY <1>0, <1>3, <2>1, Zenon DEF Timely
  <1>5. ~OnFile' /\ ~Settled'
    BY <1>3, IdleFacts, ZenonT(60) DEF OnFile, TokenAccess, Settled
  <1>6. Due' /\ Ageless'
    BY <1>0, <1>3, <1>5, Zenon DEF Due, Ageless
  <1>7. Lasting'
    <2>1. SUFFICES ASSUME TokenReady'
                   PROVE  /\ now' < status'.expiry => OnBroker'
                          /\ status'.expiry = status'.max \/ wake' + Slack' + 1 < status'.expiry
      BY <1>3, Zenon DEF Lasting
    <2>2. pass.s.auth = "token"
      BY <1>1, <2>1, ZenonT(30) DEF TokenReady
    <2>3. OnFile /\ Settled /\ Knowing
      BY <1>0, <2>2, ZenonT(60) DEF OnFile, Settled, Knowing, TokenAccess, Access
    <2>4. /\ status.expiry = pass.token[1].expiry /\ status.max = pass.token[1].max
          /\ status.tokenId = Some(pass.token[1].id) /\ Renewed
      BY <1>0, <2>3, Zenon DEF Due, Credentials, Identified
    <2>5. pass.token # None
      BY <1>0, <2>3, KnownToken, Zenon
    <2>6. /\ pass.token[1].expiry \in Nat /\ pass.token[1].max \in Nat /\ pass.now \in Nat /\ now \in Nat
          /\ now <= pass.now + 1
      BY <1>0, <2>5, PassToken, Numbers, Zenon DEF Timely
    <2>7. ASSUME now < status.expiry PROVE OnBroker'
      <3>1. pass.token[1] \in tokens'
        BY <1>0, <2>3, <2>4, <2>7, KnownToken, ZenonT(60)
      <3>2. status'.expiry <= pass.token[1].expiry
        BY <1>1, <2>4, <2>6, SMTT(30), Z3T(30)
      <3> QED
        BY <1>1, <2>4, <3>1, <3>2, Zenon DEF OnBroker
    <2>8. ASSUME pass.token[1].expiry > pass.now + Lead
          PROVE  wake' + Slack' + 1 < status'.expiry
      <3>1. Slack' = Slack /\ Slack \in Nat /\ Lead > 1 + MinRequeue + Slack
        <4>1. Slack' = Slack
          BY <1>0, Zenon DEF Slack
        <4>2. Slack \in Nat /\ Slack <= scenario.max["abort"] * (1 + Backoff)
          BY <1>0, SlackTypes, ZenonT(30)
        <4>3. Lead > 1 + MinRequeue + scenario.max["abort"] * (1 + Backoff)
          BY <1>0, Numbers, ZenonT(30) DEF Prompt
        <4>4. scenario.max["abort"] * (1 + Backoff) \in Nat
          <5>1. scenario.max["abort"] \in Nat
            BY <1>0, Numbers, ZenonT(30)
          <5> QED
            BY <5>1, BackoffNat, SMTT(30), Z3T(30)
        <4> QED
          BY <4>1, <4>2, <4>3, <4>4, BackoffNat, LeadTypes, SMTT(30), Z3T(30)
      <3>2. /\ q <= compute_requeue(pass.token[1])
            /\ \/ compute_requeue(pass.token[1]) <= pass.token[1].expiry - pass.now - RenewBefore
               \/ compute_requeue(pass.token[1]) <= MinRequeue
        BY <1>0, <1>2, <2>2, <2>5, RequeueTypes, ZenonT(60)
      <3>3. compute_requeue(pass.token[1]) \in Int
        BY <2>6, BackoffNat, SMTT(30), Z3T(30) DEF compute_requeue, Min, Max
      <3>4. q <= pass.token[1].expiry - pass.now - RenewBefore \/ q <= MinRequeue
        BY <2>6, <3>2, <3>3, BackoffNat, SMTT(30), Z3T(30)
      <3>5. MinRequeue \in Nat \ {0} /\ RenewBefore \in Nat /\ Lead \in Nat /\ Lead <= RenewBefore
        BY UserAssumption, LeadTypes, ZenonT(60)
      <3>6. wake' + Slack + 1 < pass.token[1].expiry
        BY <1>3, <2>6, <2>8, <3>1, <3>4, <3>5, RenewsInTime, SMTT(30), Z3T(30)
      <3> QED
        BY <1>1, <2>4, <3>1, <3>6, ZenonT(60)
    <2> QED
      BY <1>0, <1>1, <2>4, <2>7, <2>8, Zenon DEF Renewed
  <1> QED
    BY <1>4, <1>6, <1>7, ZenonT(30) DEF Live

\* The finalizer, which is there before a user is Ready.
LEMMA FinalizerLive ==
  ASSUME Inv, Live, add_finalizer \/ remove_finalizer
  PROVE  Live'
  <1>0. /\ Types /\ Places /\ Timely /\ Ageless /\ UNCHANGED <<scenario, events, edit, status, now>> /\ EndPass(0)
        /\ StateTypes
    BY ZenonT(30) DEF Inv, Live, add_finalizer, remove_finalizer, Types
  <1>1. pc' = "idle" /\ now <= wake'
    BY <1>0, EndTypes, BackoffNat, ZenonT(30) DEF Timely, Ends
  <1>2. ~OnFile' /\ ~Settled'
    BY <1>1, IdleFacts, ZenonT(30) DEF OnFile, TokenAccess, Settled
  <1>3. /\ user'.phase = "live" => user.phase = "live" /\ ~user.fin /\ user'.fin
        /\ secret' = secret \/ secret' = None
    <2>1. user \in [phase : {"live", "deleting", "gone"}, fin : BOOLEAN]
      BY <1>0, ZenonT(30) DEF StateTypes
    <2> QED
      BY <1>0, <2>1, SMTT(30), Z3T(30) DEF add_finalizer, remove_finalizer, Timely
  <1>4. ~TokenReady'
    BY <1>0, <1>3, ZenonT(30) DEF TokenReady, Ready, Timely
  <1>5. Timely'
    BY <1>0, <1>1, <1>3, Zenon DEF Timely
  <1>6. Due' /\ Ageless' /\ Lasting'
    BY <1>0, <1>1, <1>2, <1>3, <1>4, ZenonT(60) DEF Due, Ageless, Lasting
  <1> QED
    BY <1>5, <1>6, ZenonT(30) DEF Live

LEMMA DropLive ==
  ASSUME Inv, Live, drop_credential \/ drop_acls \/ drop_quotas
  PROVE  Live'
  <1>0. /\ Types /\ Places /\ Timely /\ Ageless /\ UNCHANGED <<scenario, edit, user, status, secret, now, pass>>
        /\ pc \in Dropping /\ pc # "idle" /\ pc' \in {"dropAcls", "dropQuotas", "unfinalize"} /\ StateTypes
    BY ZenonT(30) DEF Inv, Live, drop_credential, drop_acls, drop_quotas, Goto, Dropping, Types
  <1>1. ~TokenReady'
    BY <1>0, ZenonT(60) DEF TokenReady, Ready, Places
  <1>2. pc' # "idle" /\ pc' # "renew" /\ pc' # "finalizer" /\ ~OnFile' /\ ~Settled'
    BY <1>0, ZenonT(60) DEF OnFile, TokenAccess, Settled, Access, AclStep, QuotaStep
  <1>3. events'["abort"] = events["abort"]
    <2>1. UNCHANGED events \/ Happens("lost") \/ Happens("fail") \/ Happens("refuse")
      BY Zenon DEF drop_credential, drop_acls, drop_quotas, BestEffort
    <2> QED
      BY <1>0, <2>1, FailureCounts, ZenonT(60)
  <1>4. Timely'
    BY <1>0, <1>2, <1>3, Zenon DEF Timely
  <1>5. Due' /\ Ageless' /\ Lasting'
    BY <1>0, <1>1, <1>2, Zenon DEF Due, Ageless, Lasting
  <1> QED
    BY <1>4, <1>5, ZenonT(30) DEF Live

LEMMA StartLive ==
  ASSUME Inv, Live, Start
  PROVE  Live'
  <1>0. /\ Types /\ StateTypes /\ Timely /\ Ageless /\ Lasting /\ pc = "idle" /\ user.phase # "gone"
        /\ UNCHANGED <<scenario, events, edit, user, status, secret, tokens, now, wake>>
        /\ pass'.now = now
    BY ZenonT(60) DEF Inv, Live, Start, Types, brokerVars
  <1>1. pass'.s = kafkaUser /\ kafkaUser.auth \in Auth
    BY <1>0, ScenarioTypes, ZenonT(30) DEF Start
  <1>2. /\ pc' \in {"refuse", "dropCredential", "finalizer", "password", "ca", "describe", "acls"}
        /\ pc' = "finalizer" => ~user.fin
        /\ pc' = "acls" => kafkaUser.auth = "external"
    BY <1>1, ZenonT(30) DEF Start, Auth, Mechanism
  <1>3. pc' # "idle" /\ pc' # "renew" /\ ~OnFile' /\ ~Settled'
    BY <1>1, <1>2, ZenonT(30) DEF OnFile, TokenAccess, Settled, Access, AclStep, QuotaStep
  <1>4. now \in Nat /\ now <= wake /\ wake \in Nat /\ status.expiry \in Nat /\ Slack \in Nat
    BY <1>0, Numbers, SlackTypes, ZenonT(30) DEF Timely
  <1>5. Timely'
    <2>1. pass'.now <= now' /\ now' <= pass'.now + 1
      BY <1>0, <1>4, SMTT(30), Z3T(30)
    <2> QED
      BY <1>0, <1>2, <1>3, <2>1, ZenonT(60) DEF Timely
  <1>6. Due' /\ Ageless'
    BY <1>0, <1>3, Zenon DEF Due, Ageless
  <1>7. Lasting'
    <2>1. (TokenReady' <=> TokenReady) /\ (OnBroker' <=> OnBroker) /\ Slack' = Slack
      BY <1>0, Zenon DEF TokenReady, Ready, OnBroker, Slack
    <2>2. wake + Slack + 1 < status.expiry => pass'.now + Slack' + 1 < status'.expiry
      BY <1>0, <1>4, <2>1, SMTT(30), Z3T(30)
    <2> QED
      BY <1>0, <1>3, <2>1, <2>2, ZenonT(60) DEF Lasting
  <1> QED
    BY <1>5, <1>6, <1>7, ZenonT(60) DEF Live

-----------------------------------------------------------------------------
(* The environment *)

LEMMA EnvironmentLive ==
  ASSUME Live, Idles, ReadyStays, UNCHANGED <<tokens, now, wake>>, events'["abort"] = events["abort"],
         user'.fin = user.fin, user'.phase = "live" => user.phase = "live",
         user.phase = "gone" => user'.phase = "gone", Ageless'
  PROVE  Live'
  <1>1. Timely'
    BY Zenon DEF Live, Timely, Idles
  <1>2. Due'
    BY Zenon DEF Live, Due, Renewed, Settled, OnFile, TokenAccess, Idles
  <1>3. (TokenReady' => TokenReady) /\ (OnBroker' <=> OnBroker) /\ Slack' = Slack
    BY Zenon DEF TokenReady, ReadyStays, OnBroker, Slack, Idles
  <1>4. Lasting'
    BY <1>3, Zenon DEF Live, Lasting, Idles
  <1> QED
    BY <1>1, <1>2, <1>4, ZenonT(30) DEF Live

LEMMA OutsideLive ==
  ASSUME Inv, Live, Outage \/ DeleteAcls \/ RotateCa \/ ListUsers \/ UNCHANGED vars
  PROVE  Live'
  <1>0. /\ Types /\ Ageless /\ Idles /\ UNCHANGED <<edit, user, secret, tokens, now, wake>>
    BY ZenonT(60) DEF Inv, Live, Idles, Outage, DeleteAcls, RotateCa, ListUsers, vars, brokerVars
  <1>1. ReadyStays
    BY <1>0, SpecStays, ZenonT(30)
  <1>2. events'["abort"] = events["abort"]
    <2>1. UNCHANGED events \/ Happens("down") \/ Happens("drift") \/ Happens("rotate")
      BY Zenon DEF Outage, DeleteAcls, RotateCa, ListUsers, vars
    <2> QED
      BY <1>0, <2>1, Counted, ZenonT(60) DEF Types, Event
  <1>3. Ageless'
    BY <1>0, Zenon DEF Ageless
  <1> QED
    BY <1>0, <1>1, <1>2, <1>3, EnvironmentLive, ZenonT(60)

\* What happens to the Secret outside of a pass.
LEMMA SecretLive ==
  ASSUME Inv, Live, Age \/ reissue_tls_user_cert_secrets
  PROVE  Live'
  <1>0. /\ Types /\ Ageless /\ Idles /\ UNCHANGED <<edit, user, tokens, now, wake>>
    BY ZenonT(60) DEF Inv, Live, Idles, Age, reissue_tls_user_cert_secrets, brokerVars
  <1>1. ReadyStays
    BY <1>0, SpecStays, ZenonT(30)
  <1>2. CASE Age
    <2>1. /\ secret # None /\ secret[1].kind = "cert" /\ Happens("age") /\ secret \in Opt(Secret)
          /\ secret' = [secret EXCEPT ![1].aging = TRUE]
      BY <1>0, <1>2, Zenon DEF Age, Types, StateTypes
    <2>2. PICK s \in Secret : secret = <<s>>
      BY <2>1, ZenonT(60) DEF Opt, Some
    <2>3. secret' = <<[s EXCEPT !.aging = TRUE]>>
      BY <2>1, <2>2, Aged, Zenon
    <2>4. s.kind = "cert"
      BY <2>1, <2>2, ZenonT(60)
    <2>5. secret'[1].kind = "cert"
      BY <2>3, <2>4, ZenonT(30) DEF Secret
    <2>6. Ageless'
      BY <2>5, ZenonT(60) DEF Ageless
    <2>7. events'["abort"] = events["abort"]
      BY <1>0, <2>1, Counted, ZenonT(30) DEF Types, Event
    <2> QED
      BY <1>0, <1>1, <2>6, <2>7, EnvironmentLive, ZenonT(60)
  <1>3. CASE reissue_tls_user_cert_secrets
    <2>1. secret' = secret \/ secret'[1].kind = "cert"
      <3>1. secret' = secret \/ secret' = Some([kind |-> "cert", value |-> reissue[1], aging |-> FALSE])
        BY <1>3, Zenon DEF reissue_tls_user_cert_secrets, ensure_user_cert_secret
      <3> QED
        BY <3>1, SMTT(30), Z3T(30) DEF Some
    <2>2. Ageless' /\ events' = events
      BY <1>0, <1>3, <2>1, ZenonT(30) DEF Ageless, reissue_tls_user_cert_secrets
    <2> QED
      BY <1>0, <1>1, <2>2, EnvironmentLive, ZenonT(60)
  <1> QED
    BY <1>2, <1>3, ZenonT(30)

\* After an edit or a deletion nobody is Ready.
LEMMA EditLive ==
  ASSUME Inv, Live, Edit \/ Delete
  PROVE  Live'
  <1>0. /\ Types /\ Places /\ Ageless /\ Idles /\ UNCHANGED <<events, secret, tokens, now, wake>>
        /\ user.phase = "live" /\ StateTypes
    BY Zenon DEF Inv, Live, Idles, Edit, Delete, brokerVars, Types
  <1>1. ~Ready' /\ user'.fin = user.fin
    <2>1. CASE Edit
      <3>1. edit \in Nat /\ status.observed \in Nat /\ status.observed <= edit
        BY <1>0, Numbers, StatusFields, ZenonT(60) DEF Places
      <3>2. edit' = edit + 1 /\ status' = status /\ user' = user
        BY <1>0, <2>1, Zenon DEF Edit, Idles
      <3>3. status'.observed # edit'
        BY <3>1, <3>2, SMTT(30), Z3T(30)
      <3> QED
        BY <3>2, <3>3, Zenon DEF Ready
    <2>2. CASE Delete
      <3>1. user \in [phase : {"live", "deleting", "gone"}, fin : BOOLEAN]
        BY <1>0, Zenon DEF StateTypes
      <3> QED
        BY <2>2, <3>1, ZenonT(30) DEF Delete, Ready
    <2> QED
      BY <2>1, <2>2, ZenonT(30)
  <1>2. ReadyStays /\ Ageless'
    BY <1>0, <1>1, Zenon DEF ReadyStays, Ageless
  <1> QED
    BY <1>0, <1>1, <1>2, EnvironmentLive, ZenonT(60)

\* Time passes, but not beyond the next pass.
LEMMA TickLive ==
  ASSUME Inv, Live, Tick
  PROVE  Live'
  <1>0. /\ Types /\ Timely /\ Ageless /\ Due /\ Lasting /\ Idles
        /\ UNCHANGED <<edit, user, events, secret, wake>> /\ now < scenario.time
        /\ (IF pc = "idle" THEN now < wake \/ user.phase = "gone" ELSE now = pass.now)
        /\ now' = now + 1 /\ tokens' = {t \in tokens : t.expiry > now'} /\ tokens \subseteq Token
    BY ZenonT(60) DEF Inv, Live, Tick, MaxTime, Idles, Types, StateTypes
  <1>1. UNCHANGED <<scenario, status, pc, pass>> /\ now \in Nat /\ wake \in Nat /\ scenario.time \in Nat
        /\ status.expiry \in Nat
    BY <1>0, Numbers, ZenonT(60) DEF Idles
  <1>2. Timely'
    <2>1. /\ now' <= scenario.time
          /\ pc = "idle" /\ user.phase # "gone" => now' <= wake
          /\ pc # "idle" => pass.now <= now' /\ now' <= pass.now + 1
      BY <1>0, <1>1, SMTT(30), Z3T(30)
    <2> QED
      BY <1>0, <1>1, <2>1, Zenon DEF Timely
  <1>3. Due' /\ Ageless'
    BY <1>0, Zenon DEF Due, Renewed, Settled, OnFile, TokenAccess, Idles, Ageless
  <1>4. Lasting'
    <2>1. (TokenReady' <=> TokenReady) /\ Slack' = Slack
      BY <1>0, <1>1, Zenon DEF TokenReady, Ready, Slack
    <2>2. ASSUME TokenReady, now' < status.expiry PROVE OnBroker'
      <3>1. now < status.expiry
        BY <1>0, <1>1, <2>2, SMTT(30), Z3T(30)
      <3>2. PICK t \in tokens : status.tokenId = Some(t.id) /\ status.expiry <= t.expiry /\ t.max = status.max
        BY <1>0, <2>2, <3>1, ZenonT(60) DEF Lasting, OnBroker
      <3>3. t.expiry \in Nat
        BY <1>0, TokenFields, ZenonT(60)
      <3>4. t \in tokens'
        BY <1>0, <1>1, <2>2, <3>2, <3>3, SMTT(30), Z3T(30)
      <3> QED
        BY <1>1, <3>2, <3>4, ZenonT(60) DEF OnBroker
    <2> QED
      BY <1>0, <1>1, <2>1, <2>2, ZenonT(60) DEF Lasting
  <1> QED
    BY <1>2, <1>3, <1>4, ZenonT(30) DEF Live

-----------------------------------------------------------------------------

LEMMA NextLive ==
  ASSUME Prompt, Inv, Live, Bounded, [Next]_vars
  PROVE  Live'
  <1>0. Types
    BY Zenon DEF Inv
  <1>1. CASE Granted
    BY <1>1, GrantedLive, Zenon
  <1>2. CASE Refuse
    BY <1>0, <1>2, RefuseQuits, QuitLive, ZenonT(60)
  <1>3. CASE Abort
    BY <1>0, <1>3, AbortStops, StopLive, ZenonT(60)
  <1>4. CASE Report
    BY <1>4, ReportLive, Zenon
  <1>5. CASE add_finalizer \/ remove_finalizer
    BY <1>5, FinalizerLive, Zenon
  <1>6. CASE drop_credential \/ drop_acls \/ drop_quotas
    BY <1>6, DropLive, Zenon
  <1>7. CASE Start
    BY <1>7, StartLive, ZenonT(60)
  <1>8. CASE Edit \/ Delete
    BY <1>8, EditLive, Zenon
  <1>9. CASE Tick
    BY <1>9, TickLive, Zenon
  <1>10. CASE Outage \/ DeleteAcls \/ RotateCa \/ ListUsers \/ UNCHANGED vars
    BY <1>10, OutsideLive, ZenonT(60)
  <1>11. CASE Age \/ reissue_tls_user_cert_secrets
    BY <1>11, SecretLive, Zenon
  <1>12. CASE PassStep
    BY <1>1, <1>2, <1>4, <1>5, <1>6, <1>12, ZenonT(60) DEF PassStep, Granted
  <1> QED
    BY <1>3, <1>7, <1>8, <1>9, <1>10, <1>11, <1>12, ZenonT(60) DEF Next

\* No step makes a token live longer than the broker grants.
LEMMA NextBounded ==
  ASSUME Inv, Bounded, [Next]_vars
  PROVE  Bounded'
  <1>0. Types /\ Tokens /\ now \in Nat /\ tokens \subseteq Token /\ Period \in Nat
    BY BackoffNat, ZenonT(60) DEF Inv, Types, StateTypes
  <1>1. ASSUME now' = now \/ now' = now + 1, tokens' \subseteq tokens
        PROVE  Bounded'
    <2>1. \A t \in tokens : t.expiry \in Nat
      BY <1>0, TokenFields, ZenonT(30)
    <2> QED
      BY <1>0, <1>1, <2>1, SMTT(30), Z3T(30) DEF Bounded
  <1>2. CASE Granted
    <2>1. Grant /\ (Quits \/ Stops \/ Moves)
      BY <1>2, GrantedSteps, Zenon DEF Steps
    <2>2. now' = now
      BY <2>1, Zenon DEF Quits, Stops, Moves, Rest
    <2>3. CASE UNCHANGED tokens
      BY <1>1, <2>2, <2>3, ZenonT(30)
    <2>4. CASE pc = "expire" /\ tokens' = {t \in tokens : t.id # pass.token[1].id}
      BY <1>1, <2>2, <2>4, ZenonT(30)
    <2>5. CASE pc = "create" /\ tokens' = tokens \cup {Fresh}
      BY <1>0, <2>2, <2>5, FreshTypes, ZenonT(60) DEF Bounded
    <2>6. CASE /\ pc = "renew" /\ (\E t \in tokens : t.id = pass.token[1].id)
               /\ tokens' = {t \in tokens : t.id # pass.token[1].id} \cup {RenewedToken}
      <3>1. pass.token # None
        BY <1>0, <2>6, ZenonT(30) DEF Tokens, Knowing
      <3>2. tokens' = {RenewedToken}
        BY <1>0, <2>2, <2>6, RenewGrants, ZenonT(60)
      <3>3. RenewedToken.expiry <= now + Period
        BY <1>0, <2>6, <3>1, RenewedTypes, ZenonT(30)
      <3> QED
        BY <2>2, <3>2, <3>3, ZenonT(30) DEF Bounded
    <2> QED
      BY <2>1, <2>3, <2>4, <2>5, <2>6, ZenonT(60) DEF Grant, brokerVars
  <1>3. CASE Refuse \/ Abort \/ Report \/ add_finalizer \/ remove_finalizer
    BY <1>1, <1>3, ZenonT(60) DEF Refuse, Abort, Report, add_finalizer, remove_finalizer, brokerVars
  <1>4. CASE drop_credential \/ drop_acls \/ drop_quotas
    <2>1. now' = now /\ (tokens' = tokens \/ tokens' = {})
      BY <1>4, ZenonT(60) DEF drop_credential, drop_acls, drop_quotas, BestEffort, brokerVars
    <2> QED
      BY <1>1, <2>1, ZenonT(30)
  <1>5. CASE Start \/ Edit \/ Delete \/ Tick
    BY <1>1, <1>5, ZenonT(30) DEF Start, Edit, Delete, Tick, brokerVars
  <1>6. CASE Outage \/ DeleteAcls \/ RotateCa \/ ListUsers \/ UNCHANGED vars
    BY <1>1, <1>6, ZenonT(30) DEF Outage, DeleteAcls, RotateCa, ListUsers, vars, brokerVars
  <1>7. CASE Age \/ reissue_tls_user_cert_secrets
    BY <1>1, <1>7, ZenonT(60) DEF Age, reissue_tls_user_cert_secrets, brokerVars
  <1>8. CASE PassStep
    BY <1>2, <1>3, <1>4, <1>8, ZenonT(60) DEF PassStep, Granted
  <1> QED
    BY <1>3, <1>5, <1>6, <1>7, <1>8, ZenonT(60) DEF Next

LEMMA InitLive ==
  ASSUME Init
  PROVE  Live
  <1>1. /\ scenario \in Scenarios /\ events["abort"] = 0 /\ now = 0 /\ wake = 0 /\ pc = "idle" /\ secret = None
        /\ status.ready = "none"
    BY ZenonT(30) DEF Init, Event
  <1>2. scenario.max["abort"] \in Nat /\ scenario.time \in Nat
    BY <1>1, UserAssumption, ZenonT(30) DEF Event
  <1>3. ~OnFile /\ ~Settled /\ ~TokenReady
    BY <1>1, IdleFacts, ZenonT(60) DEF OnFile, TokenAccess, Settled, TokenReady, Ready
  <1>4. Timely
    BY <1>1, <1>2, SMTT(30), Z3T(30) DEF Timely
  <1>5. Due /\ Ageless /\ Lasting
    BY <1>1, <1>3, ZenonT(30) DEF Due, Ageless, Lasting
  <1> QED
    BY <1>4, <1>5, ZenonT(30) DEF Live

\* The token of a user who is Ready has not expired.
LEMMA ReadyLive ==
  ASSUME Inv, Live
  PROVE  OneLiveToken
  <1>1. SUFFICES ASSUME TokenReady, now < status.max, Steady
                 PROVE  \E t \in tokens : secret = Some([kind |-> "token", value |-> t.id, aging |-> FALSE])
    BY ZenonT(60) DEF OneLiveToken, TokenReady, Inv, Tokens
  <1>2. /\ Types /\ Places /\ Credentials /\ Timely /\ Ageless /\ Lasting /\ Ready /\ user.phase # "gone"
        /\ secret \in Opt(Secret)
    BY <1>1, ZenonT(30) DEF Inv, Live, TokenReady, Ready, Types, StateTypes
  <1>3. now < status.expiry
    <2>1. /\ now \in Nat /\ wake \in Nat /\ status.expiry \in Nat /\ Slack \in Nat
          /\ pc # "idle" => pass.now \in Nat
      BY <1>2, Numbers, SlackTypes, ZenonT(30)
    <2>2. /\ pc = "idle" => now <= wake
          /\ pc # "idle" => now <= pass.now + 1
      BY <1>2, Zenon DEF Timely
    <2>3. \/ status.expiry = status.max
          \/ (IF pc = "idle" THEN wake ELSE pass.now) + Slack + 1 < status.expiry
      BY <1>1, <1>2, Zenon DEF Lasting
    <2>4. CASE pc = "idle"
      BY <1>1, <2>1, <2>2, <2>3, <2>4, SMTT(30), Z3T(30)
    <2>5. CASE pc # "idle"
      <3>1. PICK p \in Nat : p = pass.now
        BY <2>1, <2>5, ZenonT(30)
      <3>2. now <= p + 1 /\ (status.expiry = status.max \/ p + Slack + 1 < status.expiry)
        BY <2>2, <2>3, <2>5, <3>1, ZenonT(60)
      <3> QED
        BY <1>1, <2>1, <3>1, <3>2, SMTT(30), Z3T(30)
    <2> QED
      BY <2>4, <2>5, ZenonT(60)
  <1>4. PICK t \in tokens : status.tokenId = Some(t.id)
    BY <1>1, <1>2, <1>3, Zenon DEF Lasting, OnBroker
  <1>5. secret # None /\ secret[1].kind = "token" /\ status.tokenId = Some(secret[1].value)
    <2>1. kafkaUser.auth = "token"
      BY <1>1, <1>2, ReadyToken, ZenonT(60)
    <2> QED
      BY <1>1, <1>2, <2>1, ZenonT(60) DEF Credentials, HasCredential
  <1>6. secret[1].value = t.id /\ secret[1].aging = FALSE
    BY <1>2, <1>4, <1>5, SMTT(30), Z3T(30) DEF Some, Ageless
  <1>7. secret[1] \in Secret /\ secret = Some(secret[1])
    BY <1>2, <1>5, OptTypes, ZenonT(30)
  <1>8. secret[1] = [kind |-> "token", value |-> t.id, aging |-> FALSE]
    BY <1>5, <1>6, <1>7, ZenonT(30) DEF Secret
  <1> QED
    BY <1>7, <1>8, ZenonT(60)

\* A user has at most one delegation token, and one who is Ready has a Secret with a token
\* that the broker accepts, up to the token's maximum lifetime (compute_requeue and decide
\* of user_delegation_token.rs): for any scenario, if renewBeforeExpiry and the broker's
\* renewal period leave time for the shortest requeue, one pass, and every pass that is cut
\* short on the way.
THEOREM TokenIsLive == ASSUME Prompt PROVE Spec => []OneLiveToken
  <1>1. Init => Live /\ Bounded
    BY InitLive, ZenonT(30) DEF Init, Bounded
  <1>2. Inv /\ Live /\ Bounded /\ [Next]_vars => Live' /\ Bounded'
    BY NextLive, NextBounded, ZenonT(60)
  <1>3. Inv /\ Live => OneLiveToken
    BY ReadyLive, Zenon
  <1> QED
    BY <1>1, <1>2, <1>3, Invariant, PTL DEF Spec
=============================================================================
