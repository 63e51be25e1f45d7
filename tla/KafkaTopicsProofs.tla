-------------------------- MODULE KafkaTopicsProofs --------------------------
(***************************************************************************)
(* Proofs about KafkaTopics, for any resources and any scenario:           *)
(*                                                                         *)
(*   OneClientOnly      Spec => []OneClient                                *)
(*   ReadyIsInSync      Spec => []ReadyMeansInSync                         *)
(*   PreserveHonoured   Spec => DeleteHonoursPreserve                      *)
(*                                                                         *)
(* The inductive invariant Inv has a conjunct for each of them.  Locks     *)
(* says who holds which lock.  Passes and Claims say what a pass knows of  *)
(* its topic at each of its steps, as long as no other resource names it:  *)
(* its last writer was a pass of this resource.  Working and Removed do    *)
(* the same for the deletion of a resource while no call has failed.       *)
(***************************************************************************)
EXTENDS KafkaTopics, TLAPS

Opt(S) == {None} \cup {Some(x) : x \in S}
Broker == [id : Nat, parts : Nat, rf : Nat, target : Nat, cfg : Config]
Diff == [set : Config, del : SUBSET Setting]
Reason == {"none", "Ready", "MissingClusterLabel", "InvalidTopicName", "ClusterNotReady",
           "ImmutableFieldChanged", "Reassigning", "BrokerError"}
Pass == [gen : Nat, s : TopicSpec, deleting : BOOLEAN, observed : Nat, reason : Reason,
         id : Opt(Nat), version : Nat, client : Nat, diff : Diff]
Status == [ready : {"none", "True", "False"}, reason : Reason, observed : Nat, id : Opt(Nat)]
Before == {"secret", "lookup", "connect", "lock"}
Talking == {"metadata", "create", "partitions", "factor", "configs", "alter"}
Holding == Talking \cup {"delete", "unfinalize", "report", "drop"}
Label == {"idle", "finalizer"} \cup Before \cup Holding

\* A pass holds the spec of the generation it started from.
InFlight ==
  /\ pc \in [Res -> Label] /\ pass \in [Res -> {NoPass} \cup Pass]
  /\ \A r \in Res : pc[r] # "idle" => /\ pass[r] \in Pass /\ pass[r].gen \in 1..edit[r]
                                      /\ pass[r].s = scenario.edits[r][pass[r].gen]

\* The types of the variables.
Types ==
  /\ scenario \in Scenarios /\ events \in [Event -> Nat]
  /\ edit \in [Res -> Nat] /\ phase \in [Res -> {"live", "deleting", "gone"}]
  /\ fin \in [Res -> BOOLEAN] /\ status \in [Res -> Status]
  /\ topics \in [Names -> Opt(Broker)] /\ nextId \in Nat /\ identity \in Nat /\ up \in BOOLEAN
  /\ clients \subseteq [version : Nat, id : Nat] /\ alive \subseteq Nat
  /\ mapLock \in Opt(Res) /\ holder \subseteq Res \X Nat
  /\ \A r \in Res : edit[r] \in 1..Len(scenario.edits[r])
  /\ InFlight

\* Who holds a lock: the lock of the cache is held to connect, that of a client from the
\* step that takes it to the end of the pass.
Locks ==
  /\ \A r \in Res : mapLock = Some(r) <=> pc[r] = "connect"
  /\ \A h \in holder : pc[h[1]] \in Holding /\ h[2] = pass[h[1]].client
  /\ \A g, h \in holder : g[2] = h[2] => g = h
  /\ \A c, d \in clients : c = d

\* What a pass knows of its resource: a deletion is final, it has the last generation and
\* it goes to the broker for a topic that is not preserved; no status is newer than the
\* pass that is under way.
PassOk(r) ==
  /\ status[r].observed <= edit[r]
  /\ pc[r] # "idle" => status[r].observed <= pass[r].gen /\ pass[r].observed <= pass[r].gen
  /\ pc[r] # "idle" /\ pass[r].deleting => phase[r] = "deleting" /\ pass[r].gen = edit[r]
  /\ pc[r] \in Before \cup {"delete"} /\ pass[r].deleting => ~pass[r].s.preserve
  /\ pc[r] \in {"delete", "unfinalize"} => pass[r].deleting
  /\ pc[r] \in Talking => ~pass[r].deleting
Passes == \A r \in Res : PassOk(r)

\* The topic is the one the spec asks for, under the id that is reported.
InSync(t, s, id) ==
  /\ t # None /\ id = Some(t[1].id)
  /\ t[1].parts = s.parts /\ t[1].rf = s.rf /\ t[1].target = s.rf /\ t[1].cfg = s.cfg

\* What a pass p that is at l knows of the topic t for the spec s.
Knows(l, p, t, s) ==
  /\ l = "create" => t = None
  /\ l \in {"partitions", "factor", "configs", "alter"} => t # None /\ p.id = Some(t[1].id)
  /\ l = "partitions" => t[1].parts < s.parts
  /\ l \in {"factor", "configs", "alter"} => t[1].parts = s.parts
  /\ l \in {"configs", "alter"} => t[1].rf = s.rf /\ t[1].target = s.rf
  /\ l = "alter" => t[1].cfg # s.cfg /\ p.diff = diff_configs(t[1].cfg, s.cfg)
  /\ l = "report" /\ p.reason = "Ready" => InSync(t, s, p.id)

\* What the pass of the current generation knows, and what a status of it says.
Own(r) == topics[spec(r).name]
Claim(r) ==
  phase[r] = "live" /\ Alone(r) =>
    /\ pc[r] # "idle" /\ pass[r].gen = edit[r] => Knows(pc[r], pass[r], Own(r), spec(r))
    /\ status[r].ready = "True" /\ status[r].observed = edit[r] => InSync(Own(r), spec(r), status[r].id)
Claims == \A r \in Res : Claim(r)

\* Until a call fails every client that is cached or waited for is connected.
Working ==
  Undisturbed => /\ \A c \in clients : c.id \in alive
                 /\ \A r \in Res : pc[r] \in {"lock", "delete"} => pass[r].client \in alive

\* Until a call fails a deletion that gets to the finalizer has deleted the topic.
Removal(r) ==
  Undisturbed /\ pc[r] = "unfinalize" /\ ~pass[r].s.preserve /\ Alone(r) => Own(r) = None
Removed == \A r \in Res : Removal(r)

Inv == Types /\ Locks /\ Passes /\ Claims /\ Working /\ Removed

-----------------------------------------------------------------------------
(* Options, settings and specs *)

LEMMA OptTypes ==
  ASSUME NEW S, NEW o \in Opt(S), o # None
  PROVE  o[1] \in S /\ o = Some(o[1])
  BY SMTT(30), Z3T(30) DEF Opt, Some, None

LEMMA SomeTypes ==
  ASSUME NEW S
  PROVE  None \in Opt(S) /\ \A x \in S : Some(x) \in Opt(S) /\ Some(x) # None /\ Some(x)[1] = x
  BY Zenon DEF Opt, Some, None

LEMMA SomeIs ==
  ASSUME NEW x
  PROVE  Some(x) # None /\ Some(x)[1] = x /\ \A y : Some(x) = Some(y) => x = y
  BY Zenon DEF Some, None

\* What is set and deleted is a change of settings, and leaves settings.
LEMMA ConfigTypes ==
  /\ {} \in Config
  /\ \A cur, des \in Config : diff_configs(cur, des) \in Diff
  /\ \A cur \in Config, d \in Diff : incremental_alter_configs(cur, d) \in Config
  <1>1. {} \in Config
    BY Zenon DEF Config
  <1>2. ASSUME NEW cur \in Config, NEW des \in Config PROVE diff_configs(cur, des) \in Diff
    BY Zenon DEF Config, Diff, diff_configs
  <1>3. ASSUME NEW cur \in Config, NEW d \in Diff PROVE incremental_alter_configs(cur, d) \in Config
    <2> DEFINE kept == {c \in cur \ d.del : \A s \in d.set : s[1] # c[1]}
    <2>1. d.set \in Config
      BY Zenon DEF Diff
    <2>2. kept \cup d.set \subseteq Setting
      BY <2>1, Zenon DEF Config
    <2>3. ASSUME NEW x \in kept \cup d.set, NEW y \in kept \cup d.set, x[1] = y[1] PROVE x = y
      BY <2>1, <2>3, Zenon DEF Config
    <2> QED
      BY <2>2, <2>3, Zenon DEF Config, incremental_alter_configs
  <1> QED
    BY <1>1, <1>2, <1>3, Zenon

\* An alteration by the difference gives the settings that are asked for; when there is
\* no difference the settings are those.
LEMMA AlterGivesDesired ==
  ASSUME NEW cur \in Config, NEW des \in Config
  PROVE  /\ incremental_alter_configs(cur, diff_configs(cur, des)) = des
         /\ diff_configs(cur, des).set \cup diff_configs(cur, des).del = {} => cur = des
  <1> DEFINE d == diff_configs(cur, des)
  <1>1. d.set = des \ cur /\ d.del = {c \in cur : \A e \in des : e[1] # c[1]}
    BY Zenon DEF diff_configs
  <1>2. ASSUME NEW x \in incremental_alter_configs(cur, d) PROVE x \in des
    <2>1. CASE x \in d.set
      BY <2>1, <1>1, Zenon
    <2>2. CASE x \in cur \ d.del /\ \A s \in d.set : s[1] # x[1]
      <3>1. PICK e \in des : e[1] = x[1]
        BY <2>2, <1>1, Zenon
      <3>2. e \in cur
        BY <2>2, <3>1, <1>1, Zenon
      <3> QED
        BY <2>2, <3>1, <3>2, Zenon DEF Config
    <2> QED
      BY <2>1, <2>2, Zenon DEF incremental_alter_configs
  <1>3. ASSUME NEW x \in des PROVE x \in incremental_alter_configs(cur, d)
    <2>1. CASE x \in cur
      <3>1. x \notin d.del
        BY <1>1, Zenon
      <3>2. \A s \in d.set : s[1] # x[1]
        BY <2>1, <1>1, ZenonT(60) DEF Config
      <3> QED
        BY <2>1, <3>1, <3>2, Zenon DEF incremental_alter_configs
    <2>2. CASE x \notin cur
      BY <2>2, <1>1, Zenon DEF incremental_alter_configs
    <2> QED
      BY <2>1, <2>2, Zenon
  <1>4. ASSUME d.set \cup d.del = {} PROVE cur = des
    <2>1. des \subseteq cur
      BY <1>4, <1>1, Zenon
    <2>2. ASSUME NEW c \in cur PROVE c \in des
      <3>1. PICK e \in des : e[1] = c[1]
        BY <1>4, <1>1, Zenon
      <3> QED
        BY <3>1, <2>1, Zenon DEF Config
    <2> QED
      BY <2>1, <2>2, Zenon
  <1> QED
    BY <1>2, <1>3, <1>4, Zenon

LEMMA SpecTypes ==
  ASSUME Types, NEW r \in Res
  PROVE  /\ spec(r) \in TopicSpec /\ spec(r).name \in Names
         /\ \A i \in 1..edit[r] : scenario.edits[r][i] \in TopicSpec /\ scenario.edits[r][i].name \in Names
         /\ pc[r] # "idle" => /\ pass[r].s \in TopicSpec /\ pass[r].s.name \in Names
                              /\ Topic(r) \in Opt(Broker)
  <1>1. scenario.edits[r] \in Seq(TopicSpec)
    BY TopicAssumption, Zenon DEF Types
  <1>2. edit[r] \in 1..Len(scenario.edits[r]) /\ edit[r] \in Nat
    BY Zenon DEF Types
  <1>3. ASSUME NEW i \in 1..edit[r] PROVE scenario.edits[r][i] \in TopicSpec /\ i \in DOMAIN scenario.edits[r]
    BY <1>1, <1>2, SMTT(30), Z3T(30)
  <1>4. ASSUME NEW i \in 1..edit[r] PROVE scenario.edits[r][i].name \in Names
    BY <1>3, SMTT(30), Z3T(30) DEF Names
  <1>5. edit[r] \in 1..edit[r]
    BY <1>2, SMTT(30), Z3T(30)
  <1>6. spec(r) \in TopicSpec /\ spec(r).name \in Names
    BY <1>3, <1>4, <1>5, Zenon DEF spec
  <1>7. ASSUME pc[r] # "idle"
        PROVE  pass[r].s \in TopicSpec /\ pass[r].s.name \in Names /\ Topic(r) \in Opt(Broker)
    <2>1. pass[r].s = scenario.edits[r][pass[r].gen] /\ pass[r].gen \in 1..edit[r]
      BY <1>7, Zenon DEF Types, InFlight
    <2>2. pass[r].s \in TopicSpec /\ pass[r].s.name \in Names
      BY <2>1, <1>3, <1>4, Zenon
    <2> QED
      BY <2>2, Zenon DEF Types, Topic
  <1> QED
    BY <1>3, <1>4, <1>6, <1>7, Zenon

-----------------------------------------------------------------------------
(* Types *)

LEMMA InitTypes == Init => Types
  <1> SUFFICES ASSUME Init PROVE Types
    BY Zenon
  <1>1. \A r \in Res : 1 \in 1..Len(scenario.edits[r])
    BY TopicAssumption, SMTT(30), Z3T(30) DEF Init
  <1>2. InFlight
    BY Zenon DEF Init, InFlight, Label
  <1>3. None \in Opt(Nat) /\ None \in Opt(Broker) /\ None \in Opt(Res)
    BY Zenon DEF Opt
  <1>4. status \in [Res -> Status]
    <2>1. [ready |-> "none", reason |-> "none", observed |-> 0, id |-> None] \in Status
      BY <1>3, Zenon DEF Status, Reason
    <2> QED
      BY <2>1, Zenon DEF Init
  <1>5. topics \in [Names -> Opt(Broker)]
    BY <1>3, Zenon DEF Init
  <1>6. events \in [Event -> Nat] /\ edit \in [Res -> Nat] /\ phase \in [Res -> {"live", "deleting", "gone"}]
    BY Zenon DEF Init
  <1>7. fin \in [Res -> BOOLEAN] /\ \A r \in Res : edit[r] \in 1..Len(scenario.edits[r])
    BY <1>1, Zenon DEF Init
  <1> QED
    BY <1>2, <1>3, <1>4, <1>5, <1>6, <1>7, Zenon DEF Init, Types

\* The steps of a pass that is under way keep its generation and its spec.
LEMMA PassMoves ==
  ASSUME Types, NEW r \in Res, pc[r] # "idle", UNCHANGED <<scenario, edit>>
  PROVE  /\ EndPass(r) => InFlight' /\ holder' \subseteq Res \X Nat
         /\ \A l \in Label : Goto(r, l) /\ UNCHANGED pass => InFlight'
         /\ \A l \in Label, p \in Pass :
              p.gen = pass[r].gen /\ p.s = pass[r].s /\ Goto(r, l) /\ pass' = [pass EXCEPT ![r] = p]
                => InFlight'
         /\ \A reason \in Reason, id \in Opt(Nat) : Report(r, reason, id) => InFlight'
  <1> USE DEF Types, InFlight, Goto
  <1>1. ASSUME EndPass(r) PROVE InFlight' /\ holder' \subseteq Res \X Nat
    BY <1>1, Zenon DEF EndPass, Label
  <1>2. ASSUME NEW l \in Label, NEW p \in Pass, p.gen = pass[r].gen, p.s = pass[r].s,
               Goto(r, l), pass' = [pass EXCEPT ![r] = p]
        PROVE  InFlight'
    <2>1. \A o \in Res : pc'[o] = (IF o = r THEN l ELSE pc[o]) /\ pass'[o] = (IF o = r THEN p ELSE pass[o])
      BY <1>2, Zenon
    <2>2. pc' \in [Res -> Label] /\ pass' \in [Res -> {NoPass} \cup Pass]
      BY <1>2, Zenon
    <2> QED
      BY <2>1, <2>2, <1>2, ZenonT(60)
  <1>3. ASSUME NEW l \in Label, Goto(r, l), UNCHANGED pass PROVE InFlight'
    BY <1>3, Zenon
  <1>4. ASSUME NEW reason \in Reason, NEW id \in Opt(Nat), Report(r, reason, id) PROVE InFlight'
    <2> DEFINE p == [pass[r] EXCEPT !.reason = reason, !.id = id]
    <2>1. pass[r] \in Pass
      BY Zenon
    <2>2. p \in Pass /\ p.gen = pass[r].gen /\ p.s = pass[r].s
      BY <2>1, Zenon DEF Pass
    <2>3. pass' = [pass EXCEPT ![r] = p] /\ Goto(r, "report") /\ "report" \in Label
      BY <1>4, Zenon DEF Report, Label, Holding
    <2> HIDE DEF p, Types, InFlight, Goto
    <2> QED
      BY <2>2, <2>3, <1>2, Zenon
  <1> HIDE DEF Types, InFlight, Goto
  <1> QED
    BY <1>1, <1>2, <1>3, <1>4, Zenon

\* What the types say of everything but passes and topics.
Plain ==
  /\ scenario \in Scenarios /\ events \in [Event -> Nat]
  /\ edit \in [Res -> Nat] /\ phase \in [Res -> {"live", "deleting", "gone"}]
  /\ fin \in [Res -> BOOLEAN] /\ status \in [Res -> Status]
  /\ nextId \in Nat /\ identity \in Nat /\ up \in BOOLEAN
  /\ clients \subseteq [version : Nat, id : Nat] /\ alive \subseteq Nat
  /\ mapLock \in Opt(Res) /\ holder \subseteq Res \X Nat
  /\ \A r \in Res : edit[r] \in 1..Len(scenario.edits[r])

LEMMA TypesParts == /\ Types <=> Plain /\ InFlight /\ topics \in [Names -> Opt(Broker)]
                    /\ Types' <=> Plain' /\ InFlight' /\ topics' \in [Names' -> Opt(Broker)]
  BY Zenon DEF Types, Plain

\* An event that happens is counted.
LEMMA HappensTypes ==
  ASSUME Types, NEW e \in Event, Happens(e)
  PROVE  /\ events' \in [Event -> Nat] /\ events'[e] = events[e] + 1 /\ events'[e] > 0
         /\ \A f \in Event : events[f] \in Nat /\ events'[f] >= events[f]
  BY SMTT(30), Z3T(30) DEF Types, Happens

\* A call changes one topic, or none, and keeps the types when its effect does.
LEMMA TopicsTypes ==
  ASSUME Types, NEW r \in Res, pc[r] # "idle"
  PROVE  \A t \in Opt(Broker) : Becomes(r, t) => topics' \in [Names -> Opt(Broker)]
  BY SpecTypes, Zenon DEF Types, Becomes

\* A topic that is there is a topic of the broker.
LEMMA TopicThere ==
  ASSUME Types, NEW r \in Res, pc[r] # "idle", Topic(r) # None
  PROVE  Topic(r)[1] \in Broker
  BY SpecTypes, OptTypes, Zenon

LEMMA StartTypes ==
  ASSUME Types, NEW r \in Res, Start(r)
  PROVE  Types'
  <1> DEFINE p == [gen |-> edit[r], s |-> spec(r), deleting |-> phase[r] = "deleting",
                   observed |-> status[r].observed, reason |-> refusal(spec(r)),
                   id |-> None, version |-> 0, client |-> 0, diff |-> diff_configs({}, {})]
  <1>1. spec(r) \in TopicSpec
    BY SpecTypes, Zenon
  <1>2. refusal(spec(r)) \in Reason
    BY Zenon DEF refusal, Reason
  <1>3. None \in Opt(Nat) /\ diff_configs({}, {}) \in Diff
    BY ConfigTypes, Zenon DEF Opt
  <1>4. edit[r] \in Nat /\ status[r].observed \in Nat /\ edit[r] \in 1..edit[r]
    BY SMTT(30), Z3T(30) DEF Types, Status
  <1>5. p \in Pass
    BY <1>1, <1>2, <1>3, <1>4, Zenon DEF Pass
  <1>6. p.gen = edit[r] /\ p.s = scenario.edits[r][edit[r]]
    BY Zenon DEF spec
  <1>7. PICK l \in Label : pc' = [pc EXCEPT ![r] = l]
    BY Zenon DEF Start, Goto, Label, Before, Holding
  <1>8. pass' = [pass EXCEPT ![r] = p]
    BY Zenon DEF Start
  <1>9. UNCHANGED <<scenario, edit>>
    BY Zenon DEF Start, Stay, resVars
  <1> HIDE DEF p
  <1>10. InFlight'
    BY <1>4, <1>5, <1>6, <1>7, <1>8, <1>9, Zenon DEF Types, InFlight
  <1>11. Plain' /\ UNCHANGED topics /\ Names' = Names
    <2>1. /\ UNCHANGED <<events, edit, phase, fin, status, nextId, identity, up, clients, alive, mapLock>>
          /\ UNCHANGED <<scenario, holder, topics>>
      BY Zenon DEF Start, Stay, resVars, clientVars
    <2>2. Plain
      BY TypesParts, Zenon
    <2>3. Plain'
      BY <2>1, <2>2, ZenonT(30) DEF Plain
    <2> QED
      BY <2>1, <2>3, SMTT(30), Z3T(30) DEF Names
  <1> QED
    BY <1>10, <1>11, TypesParts, Zenon

\* The steps of a pass that leave the broker alone.
LEMMA QuietTypes ==
  ASSUME Types, NEW r \in Res,
         \/ add_finalizer(r) \/ remove_finalizer(r) \/ patch_status(r)
         \/ ReadIdentity(r) \/ Lookup(r) \/ Connect(r) \/ LockClient(r) \/ drop_admin_client(r)
         \/ Abort(r)
  PROVE  Types'
  <1> USE DEF Stay, resVars, clientVars
  <1>0. Names' = Names /\ UNCHANGED <<scenario, edit, topics, identity, up>> /\ pc[r] # "idle"
    BY SMTT(30), Z3T(30) DEF add_finalizer, remove_finalizer, patch_status, ReadIdentity, Lookup, Connect, LockClient,
           drop_admin_client, Abort, Names
  <1>1. pass[r] \in Pass
    BY <1>0, Zenon DEF Types, InFlight
  <1>2. CASE add_finalizer(r)
    <2>1. InFlight' /\ holder' \subseteq Res \X Nat
      BY <1>0, <1>2, PassMoves, Zenon DEF add_finalizer
    <2>2. Plain'
      BY <1>0, <1>2, <2>1, TypesParts, Zenon DEF add_finalizer, Plain
    <2> QED
      BY <1>0, <2>1, <2>2, TypesParts, ZenonT(30)
  <1>3. CASE remove_finalizer(r)
    <2>1. InFlight' /\ holder' \subseteq Res \X Nat
      BY <1>0, <1>3, PassMoves, Zenon DEF remove_finalizer
    <2>2. Plain'
      BY <1>0, <1>3, <2>1, TypesParts, ZenonT(30) DEF remove_finalizer, Plain
    <2> QED
      BY <1>0, <2>1, <2>2, TypesParts, Zenon
  <1>4. CASE patch_status(r)
    <2>1. InFlight' /\ holder' \subseteq Res \X Nat
      BY <1>0, <1>4, PassMoves, ZenonT(30) DEF patch_status
    <2>2. PICK st \in Status : status' = [status EXCEPT ![r] = st]
      <3> DEFINE st(ok) == [ready |-> IF ok THEN "True" ELSE "False", reason |-> pass[r].reason,
                            id |-> pass[r].id, observed |-> IF ok THEN pass[r].gen ELSE pass[r].observed]
      <3>1. status' = [status EXCEPT ![r] = st(pass[r].reason = "Ready")]
        BY <1>4, ZenonT(30) DEF patch_status
      <3>2. pass[r].reason \in Reason /\ pass[r].id \in Opt(Nat) /\ pass[r].gen \in Nat /\ pass[r].observed \in Nat
        BY <1>1, Zenon DEF Pass
      <3>3. st(pass[r].reason = "Ready") \in Status
        BY <3>2, ZenonT(30) DEF Status
      <3> QED
        BY <3>1, <3>3, Zenon
    <2>3. Plain'
      BY <1>0, <1>4, <2>1, <2>2, TypesParts, ZenonT(60) DEF patch_status, Plain
    <2> QED
      BY <1>0, <2>1, <2>3, TypesParts, ZenonT(30)
  <1>5. CASE ReadIdentity(r)
    <2> DEFINE p == [pass[r] EXCEPT !.version = identity]
    <2>1. p \in Pass /\ p.gen = pass[r].gen /\ p.s = pass[r].s
      BY <1>1, Zenon DEF Pass, Types
    <2>2. pass' = [pass EXCEPT ![r] = p] /\ Goto(r, "lookup") /\ "lookup" \in Label
      BY <1>5, Zenon DEF ReadIdentity, Label, Before
    <2> HIDE DEF p
    <2>3. InFlight'
      BY <1>0, <2>1, <2>2, PassMoves, Zenon
    <2>4. Plain'
      BY <1>0, <1>5, TypesParts, ZenonT(30) DEF ReadIdentity, Plain
    <2> QED
      BY <1>0, <2>3, <2>4, TypesParts, Zenon
  <1>6. CASE Lookup(r)
    <2>1. CASE /\ \E c \in clients : pass' = [pass EXCEPT ![r].client = c.id]
               /\ Goto(r, "lock") /\ UNCHANGED mapLock
      <3>1. PICK c \in clients : pass' = [pass EXCEPT ![r].client = c.id]
        BY <2>1, Zenon
      <3> DEFINE p == [pass[r] EXCEPT !.client = c.id]
      <3>2. p \in Pass /\ p.gen = pass[r].gen /\ p.s = pass[r].s
        BY <1>1, Zenon DEF Pass, Types
      <3>3. pass' = [pass EXCEPT ![r] = p] /\ Goto(r, "lock") /\ "lock" \in Label
        BY <2>1, <3>1, Zenon DEF Label, Before
      <3> HIDE DEF p
      <3>4. InFlight'
        BY <1>0, <3>2, <3>3, PassMoves, Zenon
      <3>5. Plain'
        BY <1>0, <1>6, <2>1, TypesParts, ZenonT(30) DEF Lookup, Plain
      <3> QED
        BY <1>0, <3>4, <3>5, TypesParts, Zenon
    <2>2. CASE mapLock' = Some(r) /\ Goto(r, "connect") /\ UNCHANGED pass
      <3>1. InFlight'
        BY <1>0, <2>2, PassMoves, Zenon DEF Label, Before
      <3>2. mapLock' \in Opt(Res)
        BY <2>2, SomeTypes, Zenon
      <3>3. Plain'
        BY <1>0, <1>6, <3>2, TypesParts, ZenonT(30) DEF Lookup, Plain
      <3> QED
        BY <1>0, <3>1, <3>3, TypesParts, Zenon
    <2> QED
      BY <1>6, <2>1, <2>2, Zenon DEF Lookup
  <1>7. CASE Connect(r)
    <2>0. mapLock' \in Opt(Res) /\ UNCHANGED <<phase, fin, status>>
      BY <1>7, SomeTypes, Zenon DEF Connect
    <2>1. CASE /\ clients' = {[version |-> pass[r].version, id |-> nextId]}
               /\ alive' = alive \cup {nextId} /\ nextId' = nextId + 1
               /\ pass' = [pass EXCEPT ![r].client = nextId] /\ Goto(r, "lock")
               /\ UNCHANGED <<events, holder>>
      <3> DEFINE p == [pass[r] EXCEPT !.client = nextId]
      <3>1. p \in Pass /\ p.gen = pass[r].gen /\ p.s = pass[r].s
        BY <1>1, Zenon DEF Pass, Types
      <3>2. pass' = [pass EXCEPT ![r] = p] /\ Goto(r, "lock") /\ "lock" \in Label
        BY <2>1, Zenon DEF Label, Before
      <3> HIDE DEF p
      <3>3. InFlight'
        BY <1>0, <3>1, <3>2, PassMoves, Zenon
      <3>4. clients' \subseteq [version : Nat, id : Nat] /\ alive' \subseteq Nat /\ nextId' \in Nat
        BY <1>1, <2>1, SMTT(30), Z3T(30) DEF Pass, Types
      <3>5. Plain'
        BY <1>0, <2>0, <2>1, <3>4, TypesParts, ZenonT(30) DEF Plain
      <3> QED
        BY <1>0, <3>3, <3>5, TypesParts, Zenon
    <2>2. CASE /\ Happens("connect") /\ UNCHANGED <<clients, alive, nextId>>
               /\ IF pass[r].deleting THEN Goto(r, "unfinalize") /\ UNCHANGED <<pass, holder>>
                  ELSE EndPass(r)
      <3>1. InFlight' /\ holder' \subseteq Res \X Nat
        BY <1>0, <2>2, PassMoves, ZenonT(30) DEF Label, Holding, Types
      <3>2. events' \in [Event -> Nat]
        BY <2>2, HappensTypes, Zenon DEF Event
      <3>3. Plain'
        BY <1>0, <2>0, <2>2, <3>1, <3>2, TypesParts, ZenonT(30) DEF Plain
      <3> QED
        BY <1>0, <3>1, <3>3, TypesParts, Zenon
    <2> QED
      BY <1>7, <2>1, <2>2, Zenon DEF Connect
  <1>8. CASE LockClient(r)
    <2>1. InFlight'
      <3>1. PICK l \in Label : Goto(r, l) /\ UNCHANGED pass
        BY <1>8, Zenon DEF LockClient, Label, Holding, Talking
      <3> QED
        BY <1>0, <3>1, PassMoves, Zenon
    <2>2. Plain'
      <3>1. pass[r].client \in Nat
        BY <1>1, Zenon DEF Pass
      <3>2. holder \subseteq Res \X Nat /\ holder' = holder \cup {<<r, pass[r].client>>}
        BY <1>8, TypesParts, Zenon DEF LockClient, Plain
      <3>3. holder' \subseteq Res \X Nat
        BY <3>1, <3>2, SMTT(30), Z3T(30)
      <3> QED
        BY <1>0, <1>8, <3>3, TypesParts, ZenonT(30) DEF LockClient, Plain
    <2> QED
      BY <1>0, <2>1, <2>2, TypesParts, Zenon
  <1>9. CASE drop_admin_client(r)
    <2>1. InFlight' /\ holder' \subseteq Res \X Nat
      BY <1>0, <1>9, PassMoves, ZenonT(30) DEF drop_admin_client
    <2>2. Plain'
      BY <1>0, <1>9, <2>1, TypesParts, ZenonT(30) DEF drop_admin_client, Plain
    <2> QED
      BY <1>0, <2>1, <2>2, TypesParts, Zenon
  <1>10. CASE Abort(r)
    <2>1. InFlight' /\ holder' \subseteq Res \X Nat
      BY <1>0, <1>10, PassMoves, Zenon DEF Abort
    <2>2. events' \in [Event -> Nat]
      BY <1>10, HappensTypes, Zenon DEF Abort, Event
    <2>3. Plain'
      BY <1>0, <1>10, <2>1, <2>2, TypesParts, ZenonT(30) DEF Abort, Plain
    <2> QED
      BY <1>0, <2>1, <2>3, TypesParts, Zenon
  <1> QED
    BY <1>2, <1>3, <1>4, <1>5, <1>6, <1>7, <1>8, <1>9, <1>10, ZenonT(60)

\* The ways a step of a pass that talks to the broker goes on.
Onward(r) == {l \in Holding \ {"delete"} : /\ l \in Talking => pc[r] \in Talking
                                           /\ l = "unfinalize" => pc[r] = "delete"}
Goes(r) ==
  \/ EndPass(r)
  \/ \E l \in Onward(r) : Goto(r, l) /\ UNCHANGED pass /\ holder' \subseteq holder
  \/ \E reason \in Reason, id \in Opt(Nat) : Report(r, reason, id) /\ UNCHANGED holder
  \/ \E l \in Onward(r), p \in Pass :
       /\ p.gen = pass[r].gen /\ p.s = pass[r].s /\ p.client = pass[r].client
       /\ p.deleting = pass[r].deleting /\ p.observed = pass[r].observed
       /\ Goto(r, l) /\ pass' = [pass EXCEPT ![r] = p] /\ UNCHANGED holder

\* What it does to the broker and to the count of the events.
Effect(r) ==
  /\ UNCHANGED events \/ \E e \in {"lost", "refuse"} : Happens(e)
  /\ nextId' \in {nextId, nextId + 1}
  /\ UNCHANGED topics \/ \E t \in Opt(Broker) : Becomes(r, t)

LEMMA TransportGoes ==
  ASSUME NEW r \in Res, Transport(r, TRUE) \/ Transport(r, FALSE)
  PROVE  Goes(r)
  <1>1. "drop" \in Onward(r)
    BY Zenon DEF Onward, Holding, Talking
  <1> QED
    BY <1>1, Zenon DEF Transport, Goes

LEMMA ReportGoes ==
  ASSUME NEW r \in Res, NEW reason \in Reason, NEW id \in Opt(Nat), Report(r, reason, id), UNCHANGED holder
  PROVE  Goes(r)
  BY Zenon DEF Goes

LEMMA GotoGoes ==
  ASSUME NEW r \in Res, NEW l \in Onward(r), Goto(r, l), UNCHANGED <<pass, holder>>
  PROVE  Goes(r)
  BY Zenon DEF Goes

\* Every step of a pass that talks to the broker is of this form.
LEMMA BrokerShape ==
  ASSUME Types, NEW r \in Res,
         \/ delete_topics(r) \/ metadata(r) \/ create_topics(r) \/ create_partitions(r)
         \/ reconcile_replication_factor(r) \/ describe_configs(r) \/ alter_configs(r)
  PROVE  Calls(r) /\ pc[r] # "idle" /\ Goes(r) /\ Effect(r)
  <1>0. Calls(r) /\ pc[r] # "idle"
    BY Zenon DEF delete_topics, metadata, create_topics, create_partitions, reconcile_replication_factor,
           describe_configs, alter_configs
  <1>1. pass[r] \in Pass /\ pass[r].id \in Opt(Nat) /\ pass[r].s \in TopicSpec /\ pass[r].diff \in Diff
    BY <1>0, SpecTypes, ZenonT(30) DEF Types, InFlight, Pass
  <1>2. None \in Opt(Nat) /\ None \in Opt(Broker) /\ nextId \in Nat
    BY Zenon DEF Opt, Types
  <1>3. Topic(r) # None => Topic(r)[1] \in Broker /\ Some(Topic(r)[1].id) \in Opt(Nat)
    BY <1>0, TopicThere, SomeTypes, Zenon DEF Broker
  <1>4. {"Ready", "BrokerError", "Reassigning", "ImmutableFieldChanged"} \subseteq Reason
    BY Zenon DEF Reason
  <1>5. /\ pc[r] = "delete" => "unfinalize" \in Onward(r)
        /\ pc[r] \in Talking => Talking \subseteq Onward(r)
    BY Zenon DEF Onward, Holding, Talking
  <1>6. pass[r].s.parts \in Nat /\ pass[r].s.rf \in Nat /\ pass[r].s.cfg \in Config
    BY <1>1, Zenon DEF TopicSpec
  <1>7. CASE delete_topics(r)
    <2>1. Goes(r)
      BY <1>5, <1>7, GotoGoes, Zenon DEF delete_topics
    <2>2. Effect(r)
      BY <1>2, <1>7, Zenon DEF delete_topics, Effect
    <2> QED
      BY <1>0, <2>1, <2>2, Zenon
  <1>8. CASE metadata(r)
    <2>1. CASE Works(r) /\ Topic(r) = None /\ Goto(r, "create") /\ UNCHANGED <<events, holder, pass>>
      BY <1>0, <1>5, <1>8, <2>1, GotoGoes, Zenon DEF metadata, Effect, Talking
    <2>2. CASE /\ UNCHANGED <<events, holder>> /\ Topic(r) # None
               /\ Report(r, "ImmutableFieldChanged", Some(Topic(r)[1].id))
      <3>1. Goes(r)
        BY <1>3, <1>4, <2>2, ReportGoes, Zenon
      <3> QED
        BY <1>0, <1>8, <2>2, <3>1, Zenon DEF metadata, Effect
    <2>3. CASE /\ UNCHANGED <<events, holder>> /\ Topic(r) # None
               /\ pass' = [pass EXCEPT ![r].id = Some(Topic(r)[1].id)]
               /\ \E l \in {"partitions", "factor"} : Goto(r, l)
      <3> DEFINE p == [pass[r] EXCEPT !.id = Some(Topic(r)[1].id)]
      <3>1. p \in Pass /\ p.gen = pass[r].gen /\ p.s = pass[r].s /\ p.client = pass[r].client
            /\ p.deleting = pass[r].deleting /\ p.observed = pass[r].observed
        BY <1>1, <1>3, <2>3, Zenon DEF Pass
      <3>2. pass' = [pass EXCEPT ![r] = p]
        BY <2>3, Zenon
      <3>3. \E l \in Onward(r) : Goto(r, l)
        BY <1>5, <1>8, <2>3, Zenon DEF metadata, Talking
      <3> HIDE DEF p
      <3>4. Goes(r)
        BY <2>3, <3>1, <3>2, <3>3, Zenon DEF Goes
      <3> QED
        BY <1>0, <1>8, <2>3, <3>4, Zenon DEF metadata, Effect
    <2>4. CASE Happens("refuse") /\ EndPass(r)
      BY <1>0, <1>8, <2>4, Zenon DEF metadata, Effect, Goes
    <2>5. CASE UNCHANGED events /\ Transport(r, FALSE)
      BY <1>0, <1>8, <2>5, TransportGoes, Zenon DEF metadata, Effect
    <2> QED
      BY <1>8, <2>1, <2>2, <2>3, <2>4, <2>5, Zenon DEF metadata
  <1>9. CASE create_topics(r)
    <2> DEFINE new == [id |-> nextId, parts |-> pass[r].s.parts, rf |-> pass[r].s.rf,
                       target |-> pass[r].s.rf, cfg |-> pass[r].s.cfg]
    <2>1. Some(new) \in Opt(Broker) /\ Some(nextId) \in Opt(Nat)
      <3>1. new \in Broker
        BY <1>2, <1>6, Zenon DEF Broker
      <3> HIDE DEF new
      <3> QED
        BY <1>2, <3>1, SomeTypes, ZenonT(30)
    <2> DEFINE effect == Becomes(r, Some(new)) /\ nextId' = nextId + 1
    <2>2. \/ UNCHANGED <<topics, nextId, events, holder>> /\ Report(r, "BrokerError", None)
          \/ Call(r, TRUE, effect, Report(r, "Ready", Some(nextId)), Report(r, "BrokerError", None))
      BY <1>9, Zenon DEF create_topics
    <2> HIDE DEF new
    <2>3. Effect(r)
      BY <2>1, <2>2, Zenon DEF Effect, Call
    <2>4. Goes(r)
      <3>1. \/ Report(r, "BrokerError", None) /\ UNCHANGED holder
            \/ Report(r, "Ready", Some(nextId)) /\ UNCHANGED holder
            \/ Transport(r, TRUE)
        BY <2>2, Zenon DEF Call
      <3> QED
        BY <1>2, <1>4, <2>1, <3>1, ReportGoes, TransportGoes, Zenon
    <2> QED
      BY <1>0, <2>3, <2>4, Zenon
  <1>10. CASE create_partitions(r)
    <2> DEFINE new == [Topic(r)[1] EXCEPT !.parts = pass[r].s.parts]
               effect == Becomes(r, Some(new)) /\ UNCHANGED nextId
    <2>1. Topic(r) # None => Some(new) \in Opt(Broker)
      <3>1. Topic(r) # None => new \in Broker
        BY <1>3, <1>6, Zenon DEF Broker
      <3> HIDE DEF new
      <3> QED
        BY <3>1, SomeTypes, Zenon
    <2>2. \/ UNCHANGED <<topics, nextId, events, holder>> /\ Report(r, "BrokerError", pass[r].id)
          \/ /\ Works(r) => Topic(r) # None
             /\ Call(r, FALSE, effect, Goto(r, "factor") /\ UNCHANGED pass, Report(r, "BrokerError", pass[r].id))
      BY <1>10, Zenon DEF create_partitions
    <2> HIDE DEF new
    <2>3. Effect(r)
      BY <2>1, <2>2, Zenon DEF Effect, Call
    <2>4. Goes(r)
      <3>1. \/ Report(r, "BrokerError", pass[r].id) /\ UNCHANGED holder
            \/ Goto(r, "factor") /\ UNCHANGED <<pass, holder>>
            \/ Transport(r, FALSE)
        BY <2>2, Zenon DEF Call
      <3> QED
        BY <1>1, <1>4, <1>5, <1>10, <3>1, ReportGoes, TransportGoes, GotoGoes, Zenon
           DEF create_partitions, Talking
    <2> QED
      BY <1>0, <2>3, <2>4, Zenon
  <1>11. CASE reconcile_replication_factor(r)
    <2> DEFINE cur == Topic(r)[1]
               new == [cur EXCEPT !.target = pass[r].s.rf]
               busy == cur.rf # cur.target
               effect == /\ UNCHANGED nextId
                         /\ IF busy THEN UNCHANGED topics ELSE Becomes(r, Some(new))
               ok == IF ~busy /\ cur.rf = pass[r].s.rf THEN Goto(r, "configs") /\ UNCHANGED pass
                     ELSE Report(r, "Reassigning", pass[r].id)
    <2>1. Topic(r) # None => Some(new) \in Opt(Broker)
      <3>1. Topic(r) # None => new \in Broker
        BY <1>3, <1>6, Zenon DEF Broker
      <3> HIDE DEF new
      <3> QED
        BY <3>1, SomeTypes, Zenon
    <2>2. \/ UNCHANGED <<topics, nextId, events, holder>> /\ Report(r, "BrokerError", pass[r].id)
          \/ /\ Works(r) => Topic(r) # None
             /\ Call(r, TRUE, effect, ok, Report(r, "BrokerError", pass[r].id))
      BY <1>11, Zenon DEF reconcile_replication_factor
    <2>3. effect => nextId' = nextId /\ (UNCHANGED topics \/ Becomes(r, Some(new)))
      BY ZenonT(30)
    <2>4. ok => \/ Goto(r, "configs") /\ UNCHANGED pass
                \/ Report(r, "Reassigning", pass[r].id)
      BY Zenon
    <2> HIDE DEF new, effect, ok
    <2>5. Effect(r)
      BY <2>1, <2>2, <2>3, Zenon DEF Effect, Call
    <2>6. Goes(r)
      <3>1. \/ Report(r, "BrokerError", pass[r].id) /\ UNCHANGED holder
            \/ ok /\ UNCHANGED holder
            \/ Transport(r, TRUE)
        BY <2>2, Zenon DEF Call
      <3> QED
        BY <1>1, <1>4, <1>5, <1>11, <2>4, <3>1, ReportGoes, TransportGoes, GotoGoes, Zenon
           DEF reconcile_replication_factor, Talking
    <2> QED
      BY <1>0, <2>5, <2>6, Zenon
  <1>12. CASE describe_configs(r)
    <2> DEFINE d == diff_configs(Topic(r)[1].cfg, pass[r].s.cfg)
    <2>0. Effect(r)
      BY <1>12, Zenon DEF describe_configs, Effect
    <2>1. CASE UNCHANGED holder /\ Report(r, "Ready", pass[r].id)
      BY <1>0, <1>1, <1>4, <2>0, <2>1, ReportGoes, Zenon
    <2>2. CASE Topic(r) # None /\ UNCHANGED holder /\ pass' = [pass EXCEPT ![r].diff = d] /\ Goto(r, "alter")
      <3>1. d \in Diff
        BY <1>3, <1>6, <2>2, ConfigTypes, Zenon DEF Broker
      <3> HIDE DEF d
      <3> DEFINE p == [pass[r] EXCEPT !.diff = d]
      <3>2. p \in Pass /\ p.gen = pass[r].gen /\ p.s = pass[r].s /\ p.client = pass[r].client
            /\ p.deleting = pass[r].deleting /\ p.observed = pass[r].observed
        BY <1>1, <3>1, ZenonT(60) DEF Pass
      <3>3. pass' = [pass EXCEPT ![r] = p] /\ "alter" \in Onward(r)
        BY <1>5, <1>12, <2>2, Zenon DEF describe_configs, Talking
      <3> HIDE DEF p
      <3>4. Goes(r)
        BY <2>2, <3>2, <3>3, Zenon DEF Goes
      <3> QED
        BY <1>0, <2>0, <3>4, Zenon
    <2>3. CASE EndPass(r)
      BY <1>0, <2>0, <2>3, Zenon DEF Goes
    <2>4. CASE Transport(r, FALSE)
      BY <1>0, <2>0, <2>4, TransportGoes, Zenon
    <2> QED
      BY <1>12, <2>1, <2>2, <2>3, <2>4, Zenon DEF describe_configs
  <1>13. CASE alter_configs(r)
    <2> DEFINE cfg == incremental_alter_configs(Topic(r)[1].cfg, pass[r].diff)
               new == [Topic(r)[1] EXCEPT !.cfg = cfg]
               effect == Becomes(r, Some(new)) /\ UNCHANGED nextId
    <2>1. Topic(r) # None => Some(new) \in Opt(Broker)
      <3>1. Topic(r) # None => cfg \in Config
        BY <1>1, <1>3, ConfigTypes, Zenon DEF Broker
      <3> HIDE DEF cfg
      <3>2. Topic(r) # None => new \in Broker
        BY <1>3, <3>1, Zenon DEF Broker
      <3> HIDE DEF new
      <3> QED
        BY <3>2, SomeTypes, Zenon
    <2>2. \/ UNCHANGED <<topics, nextId, events, holder>> /\ Report(r, "BrokerError", pass[r].id)
          \/ /\ Works(r) => Topic(r) # None
             /\ Call(r, FALSE, effect, Report(r, "Ready", pass[r].id), Report(r, "BrokerError", pass[r].id))
      BY <1>13, Zenon DEF alter_configs
    <2> HIDE DEF new
    <2>3. Effect(r)
      BY <2>1, <2>2, Zenon DEF Effect, Call
    <2>4. Goes(r)
      <3>1. \/ Report(r, "BrokerError", pass[r].id) /\ UNCHANGED holder
            \/ Report(r, "Ready", pass[r].id) /\ UNCHANGED holder
            \/ Transport(r, FALSE)
        BY <2>2, Zenon DEF Call
      <3> QED
        BY <1>1, <1>4, <3>1, ReportGoes, TransportGoes, Zenon
    <2> QED
      BY <1>0, <2>3, <2>4, Zenon
  <1> QED
    BY <1>7, <1>8, <1>9, <1>10, <1>11, <1>12, <1>13, Zenon

LEMMA BrokerTypes ==
  ASSUME Types, NEW r \in Res, Calls(r), pc[r] # "idle", Goes(r), Effect(r)
  PROVE  Types'
  <1>1. UNCHANGED <<scenario, identity, up, edit, phase, fin, status, clients, alive, mapLock>> /\ Names' = Names
    BY SMTT(30), Z3T(30) DEF Calls, Stay, resVars, Names
  <1>2. topics' \in [Names -> Opt(Broker)]
    BY TopicsTypes, ZenonT(30) DEF Effect, Types
  <1>3. events' \in [Event -> Nat] /\ nextId' \in Nat
    <2>1. \A e \in {"lost", "refuse"} : e \in Event
      BY Zenon DEF Event
    <2>2. ASSUME NEW e \in {"lost", "refuse"}, Happens(e) PROVE events' \in [Event -> Nat]
      BY <2>1, <2>2, HappensTypes, Zenon
    <2> QED
      BY <2>2, SMTT(30), Z3T(30) DEF Effect, Types
  <1>4. InFlight'
    <2>1. Onward(r) \subseteq Label
      BY Zenon DEF Onward, Label
    <2> QED
      BY <1>1, <2>1, PassMoves, Zenon DEF Goes
  <1>5. holder' \subseteq Res \X Nat
    BY Zenon DEF Goes, EndPass, Types
  <1>6. Plain'
    BY <1>1, <1>3, <1>5, TypesParts, ZenonT(30) DEF Plain
  <1> QED
    BY <1>1, <1>2, <1>4, <1>6, TypesParts, Zenon

\* Steps outside the passes.
Outside == \/ \E r \in Res : Edit(r) \/ Delete(r)
           \/ \E n \in DOMAIN topics : Reassigned(n)
           \/ Break \/ RenewIdentity \/ Outage

LEMMA OutsideTypes ==
  ASSUME Types, Outside
  PROVE  Types'
  <1> USE DEF Stay, Env, resVars
  <1>0. scenario' = scenario /\ Names' = Names /\ UNCHANGED <<pc, pass, mapLock, holder>>
    <2>1. scenario' = scenario /\ UNCHANGED <<pc, pass, mapLock, holder>>
      BY Zenon DEF Outside, Edit, Delete, Reassigned, Break, RenewIdentity, Outage
    <2> QED
      BY <2>1, SMTT(30), Z3T(30) DEF Names
  <1>1. ASSUME NEW r \in Res, Edit(r) PROVE Types'
    <2>1. edit'[r] = edit[r] + 1 /\ edit' \in [Res -> Nat] /\ edit'[r] \in 1..Len(scenario.edits[r])
      <3>1. scenario.edits[r] \in Seq(TopicSpec)
        BY TopicAssumption, Zenon DEF Types
      <3> QED
        BY <1>1, <3>1, SMTT(30), Z3T(30) DEF Edit, Types
    <2>2. \A o \in Res : o # r => edit'[o] = edit[o]
      BY <1>1, ZenonT(30) DEF Edit, Types
    <2>3. InFlight'
      <3>1. \A o \in Res : edit[o] \in Nat /\ edit'[o] \in Nat /\ edit[o] <= edit'[o]
        <4>1. edit \in [Res -> Nat]
          BY Zenon DEF Types
        <4> QED
          BY <2>1, <2>2, <4>1, SMTT(30), Z3T(30)
      <3>2. \A o \in Res : \A i \in 1..edit[o] : i \in 1..edit'[o]
        BY <3>1, SMTT(30), Z3T(30)
      <3> QED
        BY <1>0, <3>2, Zenon DEF Types, InFlight
    <2>4. Plain' /\ UNCHANGED topics
      BY <1>0, <1>1, <2>1, <2>2, TypesParts, ZenonT(30) DEF Edit, Plain
    <2> QED
      BY <1>0, <2>3, <2>4, TypesParts, ZenonT(30)
  <1>2. ASSUME NEW r \in Res, Delete(r) PROVE Types'
    <2>1. InFlight' /\ UNCHANGED topics
      BY <1>0, <1>2, ZenonT(30) DEF Types, InFlight, Delete
    <2>2. Plain'
      BY <1>0, <1>2, TypesParts, ZenonT(30) DEF Delete, Plain
    <2> QED
      BY <1>0, <2>1, <2>2, TypesParts, Zenon
  <1>3. ASSUME NEW n \in DOMAIN topics, Reassigned(n) PROVE Types'
    <2>1. n \in Names /\ topics[n] \in Opt(Broker) /\ topics[n] # None
      BY <1>3, Zenon DEF Types, Reassigned
    <2>2. topics[n][1] \in Broker
      BY <2>1, OptTypes, Zenon
    <2> DEFINE new == [topics[n][1] EXCEPT !.rf = topics[n][1].target]
    <2>3. new \in Broker
      BY <2>2, Zenon DEF Broker
    <2>4. topics' = [topics EXCEPT ![n] = Some(new)]
      BY <1>3, Zenon DEF Reassigned
    <2> HIDE DEF new
    <2>5. topics' \in [Names -> Opt(Broker)]
      BY <2>3, <2>4, SomeTypes, Zenon DEF Types
    <2>6. InFlight' /\ Plain'
      BY <1>0, <1>3, TypesParts, ZenonT(30) DEF Reassigned, Plain, InFlight
    <2> QED
      BY <1>0, <2>5, <2>6, TypesParts, Zenon
  <1>4. ASSUME Break \/ RenewIdentity \/ Outage PROVE Types'
    <2>1. events' \in [Event -> Nat]
      BY <1>4, HappensTypes, ZenonT(30) DEF Break, RenewIdentity, Outage, Event, Types
    <2>2. alive' \subseteq Nat /\ identity' \in Nat /\ up' \in BOOLEAN
      <3>0. alive \subseteq Nat /\ identity \in Nat
        BY Zenon DEF Types
      <3>1. alive' \subseteq Nat /\ identity' \in Nat
        <4>1. alive' \in {alive, {}} /\ identity' \in {identity, identity + 1}
          BY <1>4, ZenonT(30) DEF Break, RenewIdentity, Outage
        <4> QED
          BY <3>0, <4>1, SMTT(30), Z3T(30)
      <3>2. up' = up \/ up' = ~up
        BY <1>4, Zenon DEF Break, RenewIdentity, Outage
      <3>3. up \in BOOLEAN
        BY Zenon DEF Types
      <3> QED
        BY <3>1, <3>2, <3>3, Zenon
    <2>3. UNCHANGED <<edit, phase, fin, status, topics, nextId, clients>>
      BY <1>4, Zenon DEF Break, RenewIdentity, Outage
    <2>4. InFlight' /\ Plain'
      BY <1>0, <2>1, <2>2, <2>3, TypesParts, ZenonT(30) DEF Plain, InFlight
    <2> QED
      BY <1>0, <2>3, <2>4, TypesParts, Zenon
  <1> QED
    BY <1>1, <1>2, <1>3, <1>4, Zenon DEF Outside

\* A step is one of a pass, by itself or with the broker, or is outside the passes.
Quiet(r) == \/ add_finalizer(r) \/ remove_finalizer(r) \/ patch_status(r)
            \/ ReadIdentity(r) \/ Lookup(r) \/ Connect(r) \/ LockClient(r) \/ drop_admin_client(r)
            \/ Abort(r)
Talks(r) == \/ delete_topics(r) \/ metadata(r) \/ create_topics(r) \/ create_partitions(r)
            \/ reconcile_replication_factor(r) \/ describe_configs(r) \/ alter_configs(r)

LEMMA Steps ==
  ASSUME Next
  PROVE  Outside \/ \E r \in Res : Start(r) \/ Quiet(r) \/ Talks(r)
  BY Zenon DEF Next, PassStep, Outside, Quiet, Talks

LEMMA StutterInv == Inv /\ UNCHANGED vars => Inv'
  <1> SUFFICES ASSUME Inv, UNCHANGED vars PROVE Inv'
    BY ZenonT(30)
  <1> USE DEF vars, resVars, clientVars
  <1>1. Types'
    <2>1. Types /\ Plain /\ InFlight
      BY TypesParts, Zenon DEF Inv
    <2>2. Plain'
      BY <2>1, ZenonT(30) DEF Plain
    <2>3. InFlight'
      BY <2>1, ZenonT(30) DEF InFlight
    <2>4. topics' = topics /\ Names' = Names /\ topics \in [Names -> Opt(Broker)]
      BY <2>1, SMTT(30), Z3T(30) DEF Names, Types
    <2> QED
      BY <2>2, <2>3, <2>4, TypesParts, Zenon
  <1>2. Locks' /\ Passes' /\ Working'
    BY Zenon DEF Inv, Locks, Passes, PassOk, Working, Undisturbed
  <1>3. \A r \in Res : spec(r)' = spec(r) /\ (Alone(r)' <=> Alone(r))
    BY ZenonT(30) DEF spec, Alone
  <1>4. Claims'
    <2> SUFFICES ASSUME NEW r \in Res PROVE Claim(r)'
      BY Zenon DEF Claims
    <2>1. Claim(r)
      BY ZenonT(30) DEF Inv, Claims
    <2>2. Own(r)' = Own(r)
      BY <1>3, ZenonT(30) DEF Own
    <2> QED
      BY <1>3, <2>1, <2>2, ZenonT(30) DEF Claim
  <1>5. Removed'
    BY <1>3, ZenonT(30) DEF Inv, Removed, Removal, Undisturbed, Own
  <1> QED
    BY <1>1, <1>2, <1>4, <1>5, Zenon DEF Inv

LEMMA StepTypes == Types /\ Next => Types'
  <1> SUFFICES ASSUME Types, Next PROVE Types'
    BY Zenon
  <1>1. ASSUME NEW r \in Res, Start(r) PROVE Types'
    BY <1>1, StartTypes, Zenon
  <1>2. ASSUME NEW r \in Res, Quiet(r) PROVE Types'
    BY <1>2, QuietTypes, Zenon DEF Quiet
  <1>3. ASSUME NEW r \in Res, Talks(r) PROVE Types'
    BY <1>3, BrokerShape, BrokerTypes, Zenon DEF Talks
  <1> QED
    BY <1>1, <1>2, <1>3, Steps, OutsideTypes, Zenon

-----------------------------------------------------------------------------
(* Locks *)

\* The end of a pass gives its client back.
LEMMA EndLocks ==
  ASSUME Types, Locks, NEW r \in Res, EndPass(r), mapLock' \in {mapLock, None}, clients' \subseteq clients,
         mapLock' = None => \A o \in Res : o # r => pc[o] # "connect",
         mapLock' = mapLock => pc[r] # "connect"
  PROVE  Locks'
  <1>1. /\ \A o \in Res : pc'[o] = (IF o = r THEN "idle" ELSE pc[o])
        /\ \A o \in Res : o # r => pass'[o] = pass[o]
    BY Zenon DEF EndPass, Goto, Types, InFlight
  <1>2. \A h \in holder' : h \in holder /\ h[1] # r /\ h[1] \in Res
    BY Zenon DEF EndPass, Types
  <1>3. \A o \in Res : mapLock' = Some(o) <=> pc'[o] = "connect"
    <2>1. pc'[r] = "idle" /\ \A o \in Res : o # r => pc'[o] = pc[o]
      BY <1>1, Zenon
    <2>2. \A o \in Res : mapLock = Some(o) <=> pc[o] = "connect"
      BY Zenon DEF Locks
    <2>3. \A o \in Res : Some(o) # None
      BY SomeIs, Zenon
    <2> QED
      BY <2>1, <2>2, <2>3, ZenonT(30)
  <1> QED
    BY <1>1, <1>2, <1>3, ZenonT(30) DEF Locks

\* A step that takes no lock.
LEMMA MoveLocks ==
  ASSUME Types, Locks, NEW r \in Res, NEW l \in Label, Goto(r, l), l # "connect", pc[r] # "connect",
         \A o \in Res : o # r => pass'[o] = pass[o],
         l \in Holding => pass'[r].client = pass[r].client \/ pc[r] \notin Holding,
         pc[r] \in Holding => l \in Holding,
         UNCHANGED <<mapLock, clients>>, holder' \subseteq holder
  PROVE  Locks'
  <1>1. \A o \in Res : pc'[o] = (IF o = r THEN l ELSE pc[o])
    BY Zenon DEF Goto, Types, InFlight
  <1>2. \A o \in Res : mapLock' = Some(o) <=> pc'[o] = "connect"
    BY <1>1, ZenonT(30) DEF Locks
  <1>3. \A h \in holder' : h \in holder /\ h[1] \in Res
    BY Zenon DEF Types
  <1>4. \A h \in holder' : pc'[h[1]] \in Holding /\ h[2] = pass'[h[1]].client
    BY <1>1, <1>3, ZenonT(30) DEF Locks
  <1> QED
    BY <1>2, <1>3, <1>4, ZenonT(30) DEF Locks

LEMMA StartLocks ==
  ASSUME Types, Locks, NEW r \in Res, Start(r)
  PROVE  Locks'
  <1>1. PICK l \in {"report", "unfinalize", "secret", "finalizer"} : Goto(r, l)
    BY Zenon DEF Start
  <1>2. l \in Label /\ l # "connect" /\ pc[r] # "connect" /\ pc[r] \notin Holding
    BY Zenon DEF Start, Label, Before, Holding, Talking
  <1>3. \A o \in Res : o # r => pass'[o] = pass[o]
    BY Zenon DEF Start, Types, InFlight
  <1>4. UNCHANGED <<mapLock, clients, holder>>
    BY Zenon DEF Start, clientVars
  <1> QED
    BY <1>1, <1>2, <1>3, <1>4, MoveLocks, Zenon

LEMMA QuietLocks ==
  ASSUME Types, Locks, NEW r \in Res, Quiet(r)
  PROVE  Locks'
  <1> USE DEF Stay, resVars, clientVars
  <1>0. "connect" \notin Holding /\ "lock" \notin Holding /\ "secret" \notin Holding /\ "lookup" \notin Holding
    BY Zenon DEF Holding, Talking
  <1>1. \A o \in Res : pc[o] = "connect" => mapLock = Some(o)
    BY Zenon DEF Locks
  <1>2. CASE \/ add_finalizer(r) \/ remove_finalizer(r) \/ patch_status(r) \/ Abort(r)
    <2>1. EndPass(r) /\ UNCHANGED <<mapLock, clients>> /\ pc[r] # "connect"
      BY <1>2, Zenon DEF add_finalizer, remove_finalizer, patch_status, Abort
    <2>2. mapLock' = None => \A o \in Res : o # r => pc[o] # "connect"
      BY <1>1, <2>1, SMTT(30), Z3T(30) DEF None, Some
    <2> QED
      BY <2>1, <2>2, EndLocks, ZenonT(60)
  <1>3. CASE drop_admin_client(r)
    <2>1. EndPass(r) /\ UNCHANGED mapLock /\ mapLock = None /\ clients' = {} /\ pc[r] # "connect"
      BY <1>3, Zenon DEF drop_admin_client
    <2>2. \A o \in Res : pc[o] # "connect"
      BY <1>1, <2>1, Zenon DEF None, Some
    <2> QED
      BY <2>1, <2>2, EndLocks, Zenon
  <1>4. CASE ReadIdentity(r)
    <2>1. Goto(r, "lookup") /\ "lookup" \in Label /\ UNCHANGED <<mapLock, clients, holder>> /\ pc[r] = "secret"
      BY <1>4, Zenon DEF ReadIdentity, Label, Before
    <2>2. \A o \in Res : o # r => pass'[o] = pass[o]
      BY <1>4, Zenon DEF ReadIdentity, Types, InFlight
    <2> QED
      BY <1>0, <2>1, <2>2, MoveLocks, Zenon
  <1>5. CASE Lookup(r)
    <2>1. pc[r] = "lookup" /\ mapLock = None /\ UNCHANGED <<clients, holder>>
      BY <1>5, Zenon DEF Lookup
    <2>2. CASE Goto(r, "lock") /\ UNCHANGED mapLock /\ \E c \in clients : pass' = [pass EXCEPT ![r].client = c.id]
      <3>1. \A o \in Res : o # r => pass'[o] = pass[o]
        BY <2>2, ZenonT(30) DEF Types, InFlight
      <3> QED
        BY <1>0, <2>1, <2>2, <3>1, MoveLocks, Zenon DEF Label, Before
    <2>3. CASE mapLock' = Some(r) /\ Goto(r, "connect") /\ UNCHANGED pass
      <3>1. \A o \in Res : pc'[o] = (IF o = r THEN "connect" ELSE pc[o])
        BY <2>3, Zenon DEF Goto, Types, InFlight
      <3>2. \A o \in Res : mapLock' = Some(o) <=> pc'[o] = "connect"
        BY <1>1, <2>1, <2>3, <3>1, ZenonT(30) DEF None, Some
      <3>3. \A h \in holder : h[1] \in Res /\ h[1] # r
        BY <1>0, <2>1, SMTT(30), Z3T(30) DEF Locks, Types
      <3> QED
        BY <2>1, <2>3, <3>1, <3>2, <3>3, ZenonT(60) DEF Locks
    <2> QED
      BY <1>5, <2>2, <2>3, Zenon DEF Lookup
  <1>6. CASE Connect(r)
    <2>1. pc[r] = "connect" /\ mapLock = Some(r) /\ mapLock' = None
      BY <1>1, <1>6, Zenon DEF Connect
    <2>2. \A o \in Res : o # r => pc[o] # "connect"
      BY <1>1, <2>1, Zenon DEF Some
    <2>3. \A h \in holder : h[1] \in Res /\ h[1] # r
      BY <1>0, <2>1, ZenonT(60) DEF Locks, Types
    <2>4. CASE /\ \E c : clients' = {c}
               /\ pass' = [pass EXCEPT ![r].client = nextId] /\ Goto(r, "lock") /\ UNCHANGED holder
      <3>1. \A o \in Res : o # r => pass'[o] = pass[o] /\ pc'[o] = pc[o]
        BY <2>4, Zenon DEF Types, InFlight, Goto
      <3>2. pc'[r] = "lock"
        BY <2>4, Zenon DEF Types, InFlight, Goto
      <3>3. \A o \in Res : mapLock' # Some(o) /\ pc'[o] # "connect"
        BY <2>1, <2>2, <3>1, <3>2, Zenon DEF None, Some
      <3> QED
        BY <2>3, <2>4, <3>1, <3>3, SMTT(30), Z3T(30) DEF Locks
    <2>5. CASE UNCHANGED clients /\ EndPass(r)
      BY <2>1, <2>2, <2>5, EndLocks, ZenonT(30) DEF None, Some
    <2>6. CASE UNCHANGED <<clients, pass, holder>> /\ Goto(r, "unfinalize")
      <3>1. \A o \in Res : pc'[o] = (IF o = r THEN "unfinalize" ELSE pc[o])
        BY <2>6, Zenon DEF Types, InFlight, Goto
      <3>2. \A o \in Res : mapLock' # Some(o) /\ pc'[o] # "connect"
        BY <2>1, <2>2, <3>1, ZenonT(30) DEF None, Some
      <3> QED
        BY <2>3, <2>6, <3>1, <3>2, ZenonT(30) DEF Locks
    <2> QED
      BY <1>6, <2>4, <2>5, <2>6, Zenon DEF Connect
  <1>7. CASE LockClient(r)
    <2>1. /\ pc[r] = "lock" /\ UNCHANGED <<mapLock, clients, pass>>
          /\ \A h \in holder : h[2] # pass[r].client
          /\ holder' = holder \cup {<<r, pass[r].client>>}
      BY <1>7, Zenon DEF LockClient
    <2>2. PICK l \in {"delete", "metadata"} : Goto(r, l)
      BY <1>7, ZenonT(30) DEF LockClient
    <2>3. \A o \in Res : pc'[o] = (IF o = r THEN l ELSE pc[o])
      BY <2>2, ZenonT(30) DEF Types, InFlight, Goto
    <2>4. \A h \in holder : h[1] \in Res /\ h[1] # r
      BY <1>0, <2>1, SMTT(30), Z3T(30) DEF Locks, Types
    <2>5. l \in Holding /\ l # "connect"
      BY Zenon DEF Holding, Talking
    <2>6. \A o \in Res : mapLock' = Some(o) <=> pc'[o] = "connect"
      BY <1>1, <2>1, <2>3, <2>5, ZenonT(30) DEF Locks
    <2>7. \A h \in holder' : pc'[h[1]] \in Holding /\ h[2] = pass'[h[1]].client
      BY <2>1, <2>3, <2>4, <2>5, SMTT(30), Z3T(30) DEF Locks
    <2>8. \A g, h \in holder' : g[2] = h[2] => g = h
      BY <2>1, SMTT(30), Z3T(30) DEF Locks
    <2> QED
      BY <2>1, <2>6, <2>7, <2>8, ZenonT(30) DEF Locks
  <1> QED
    BY <1>2, <1>3, <1>4, <1>5, <1>6, <1>7, Zenon DEF Quiet

LEMMA TalksLocks ==
  ASSUME Types, Locks, NEW r \in Res, Talks(r)
  PROVE  Locks'
  <1>1. Calls(r) /\ Goes(r)
    BY BrokerShape, Zenon DEF Talks
  <1>2. UNCHANGED <<mapLock, clients>>
    BY <1>1, Zenon DEF Calls
  <1>3. pc[r] \in Holding /\ pc[r] # "connect"
    BY Zenon DEF Talks, delete_topics, metadata, create_topics, create_partitions, reconcile_replication_factor,
           describe_configs, alter_configs, Holding, Talking
  <1>4. \A l \in Onward(r) : l \in Label /\ l \in Holding /\ l # "connect"
    BY Zenon DEF Onward, Label, Holding, Talking
  <1>5. CASE EndPass(r)
    <2>1. mapLock' = None => \A o \in Res : o # r => pc[o] # "connect"
      BY <1>2, SomeIs, ZenonT(30) DEF Locks
    <2> QED
      BY <1>2, <1>3, <1>5, <2>1, EndLocks, Zenon
  <1>6. CASE \E l \in Onward(r) : Goto(r, l) /\ UNCHANGED pass /\ holder' \subseteq holder
    BY <1>2, <1>3, <1>4, <1>6, MoveLocks, ZenonT(60)
  <1>7. ASSUME NEW reason \in Reason, NEW id \in Opt(Nat), Report(r, reason, id), UNCHANGED holder
        PROVE  Locks'
    <2>1. \A o \in Res : o # r => pass'[o] = pass[o]
      BY <1>7, Zenon DEF Report, Types, InFlight
    <2>2. pass'[r].client = pass[r].client
      <3>1. pass[r] \in Pass
        BY <1>3, Zenon DEF Types, InFlight, Holding, Talking
      <3> QED
        BY <1>7, <3>1, ZenonT(60) DEF Report, Types, InFlight, Pass
    <2>3. Goto(r, "report") /\ "report" \in Label /\ "report" \in Holding
      BY <1>7, Zenon DEF Report, Label, Holding
    <2> QED
      BY <1>2, <1>3, <1>7, <2>1, <2>2, <2>3, MoveLocks, Zenon
  <1>8. ASSUME NEW l \in Onward(r), NEW p \in Pass, p.client = pass[r].client, Goto(r, l),
               pass' = [pass EXCEPT ![r] = p], UNCHANGED holder
        PROVE  Locks'
    <2>1. \A o \in Res : pass'[o] = (IF o = r THEN p ELSE pass[o])
      BY <1>8, Zenon DEF Types, InFlight
    <2> QED
      BY <1>2, <1>3, <1>4, <1>8, <2>1, MoveLocks, ZenonT(30)
  <1> QED
    BY <1>1, <1>5, <1>6, <1>7, <1>8, Zenon DEF Goes

LEMMA StepLocks == Types /\ Locks /\ Next => Locks'
  <1> SUFFICES ASSUME Types, Locks, Next PROVE Locks'
    BY Zenon
  <1>1. CASE Outside
    <2>1. UNCHANGED <<mapLock, holder, pc, pass, clients>>
      BY <1>1, ZenonT(30) DEF Outside, Edit, Delete, Reassigned, Break, RenewIdentity, Outage, Env
    <2> QED
      BY <2>1, Zenon DEF Locks
  <1> QED
    BY <1>1, Steps, StartLocks, QuietLocks, TalksLocks, Zenon

-----------------------------------------------------------------------------
(* What passes know of their resources *)

\* A step of a pass is about its resource and its topic alone.
LEMMA Footprint ==
  ASSUME Types, NEW r \in Res, Start(r) \/ Quiet(r) \/ Talks(r)
  PROVE  /\ UNCHANGED <<scenario, edit>>
         /\ \A o \in Res : o # r => /\ pc'[o] = pc[o] /\ pass'[o] = pass[o]
                                    /\ status'[o] = status[o] /\ phase'[o] = phase[o]
         /\ \A n \in Names : topics'[n] = topics[n] \/ (pc[r] # "idle" /\ n = pass[r].s.name)
         /\ UNCHANGED events \/ \E e \in {"lost", "refuse", "abort", "connect"} : Happens(e)
  <1> USE DEF Stay, resVars, clientVars
  <1> DEFINE Away == \A o \in Res : o # r => pc'[o] = pc[o] /\ pass'[o] = pass[o]
  <1>1. \A l : Goto(r, l) => \A o \in Res : o # r => pc'[o] = pc[o]
    BY ZenonT(60) DEF Goto, Types, InFlight
  <1>2. EndPass(r) => Away
    BY <1>1, Zenon DEF EndPass, Types, InFlight
  <1>3. \A x, y : Report(r, x, y) => Away
    BY <1>1, ZenonT(30) DEF Report, Types, InFlight
  <1>4. \A p : pass' = [pass EXCEPT ![r] = p] => \A o \in Res : o # r => pass'[o] = pass[o]
    BY ZenonT(30) DEF Types, InFlight
  <1>5. CASE Start(r)
    <2>1. Away
      BY <1>1, <1>4, <1>5, Zenon DEF Start
    <2> HIDE DEF Away
    <2>2. UNCHANGED <<scenario, edit, status, phase, topics, events>>
      BY <1>5, ZenonT(30) DEF Start
    <2> QED
      BY <2>1, <2>2, Zenon DEF Away
  <1>6. CASE Talks(r)
    <2>1. Calls(r) /\ pc[r] # "idle" /\ Goes(r) /\ Effect(r)
      BY <1>6, BrokerShape, Zenon DEF Talks
    <2>2. Away
      BY <1>1, <1>2, <1>3, <1>4, <2>1, Zenon DEF Goes
    <2> HIDE DEF Away
    <2>3. UNCHANGED <<scenario, edit, status, phase>>
      BY <2>1, ZenonT(60) DEF Calls
    <2>4. \A n \in Names : topics'[n] = topics[n] \/ n = pass[r].s.name
      BY <2>1, Zenon DEF Effect, Becomes, Types
    <2>5. UNCHANGED events \/ \E e \in {"lost", "refuse"} : Happens(e)
      BY <2>1, ZenonT(30) DEF Effect
    <2> QED
      BY <2>1, <2>2, <2>3, <2>4, <2>5, Zenon DEF Away
  <1>7. CASE Quiet(r)
    <2>1. UNCHANGED <<scenario, edit, topics>>
      BY <1>7, ZenonT(30) DEF Quiet, add_finalizer, remove_finalizer, patch_status, ReadIdentity, Lookup, Connect,
                  LockClient, drop_admin_client, Abort
    <2>2. \A o \in Res : o # r => status'[o] = status[o] /\ phase'[o] = phase[o]
      BY <1>7, ZenonT(30) DEF Quiet, add_finalizer, remove_finalizer, patch_status, ReadIdentity, Lookup, Connect,
                  LockClient, drop_admin_client, Abort, Types
    <2>3. UNCHANGED events \/ Happens("abort") \/ Happens("connect")
      BY <1>7, ZenonT(30) DEF Quiet, add_finalizer, remove_finalizer, patch_status, ReadIdentity, Lookup, Connect,
                  LockClient, drop_admin_client, Abort
    <2>4. Away
      <3>1. CASE EndPass(r)
        BY <1>2, <3>1, Zenon
      <3>2. CASE ReadIdentity(r)
        BY <1>1, <3>2, Zenon DEF ReadIdentity, Types, InFlight
      <3>3. CASE Lookup(r)
        BY <1>1, <3>3, ZenonT(30) DEF Lookup, Types, InFlight
      <3>4. CASE Connect(r)
        BY <1>1, <1>2, <3>4, ZenonT(30) DEF Connect, Types, InFlight
      <3>5. CASE LockClient(r)
        BY <1>1, <3>5, ZenonT(30) DEF LockClient
      <3> HIDE DEF Away
      <3> QED
        BY <1>7, <3>1, <3>2, <3>3, <3>4, <3>5, ZenonT(60)
           DEF Quiet, add_finalizer, remove_finalizer, patch_status, drop_admin_client, Abort
    <2> HIDE DEF Away
    <2> QED
      BY <2>1, <2>2, <2>3, <2>4, ZenonT(30) DEF Away
  <1> QED
    BY <1>5, <1>6, <1>7, Zenon

\* What a pass knows at the step it comes to.
LEMMA StartPasses ==
  ASSUME Types, Passes, NEW r \in Res, Start(r)
  PROVE  PassOk(r)'
  <1>1. /\ pass'[r] = [gen |-> edit[r], s |-> spec(r), deleting |-> phase[r] = "deleting",
                       observed |-> status[r].observed, reason |-> refusal(spec(r)),
                       id |-> None, version |-> 0, client |-> 0, diff |-> diff_configs({}, {})]
        /\ UNCHANGED <<edit, phase, status>>
    BY Zenon DEF Start, resVars, Types, InFlight
  <1>2. /\ pc'[r] \in {"report", "unfinalize", "secret", "finalizer"}
        /\ pc'[r] = "unfinalize" => phase[r] = "deleting"
        /\ pc'[r] = "secret" /\ phase[r] = "deleting" => ~spec(r).preserve
    BY Zenon DEF Start, Goto, Types, InFlight
  <1>3. status[r].observed <= edit[r] /\ status[r].observed \in Nat /\ edit[r] \in Nat
    BY ZenonT(30) DEF Passes, PassOk, Types, Status
  <1>4. /\ pass'[r].gen = edit[r] /\ pass'[r].s = spec(r) /\ pass'[r].observed = status[r].observed
        /\ pass'[r].deleting <=> phase[r] = "deleting"
    <2> DEFINE p(d, x) == [gen |-> edit[r], s |-> spec(r), deleting |-> d, observed |-> status[r].observed,
                           reason |-> x, id |-> None, version |-> 0, client |-> 0,
                           diff |-> diff_configs({}, {})]
    <2>1. \A d, x : /\ p(d, x).gen = edit[r] /\ p(d, x).s = spec(r)
                    /\ p(d, x).observed = status[r].observed /\ p(d, x).deleting = d
      BY ZenonT(30)
    <2>2. pass'[r] = p(phase[r] = "deleting", refusal(spec(r)))
      BY <1>1, Zenon
    <2> DEFINE q == p(phase[r] = "deleting", refusal(spec(r)))
    <2>3. /\ q.gen = edit[r] /\ q.s = spec(r) /\ q.observed = status[r].observed
          /\ q.deleting = (phase[r] = "deleting")
      <3> HIDE DEF p
      <3> QED
        BY <2>1, ZenonT(60)
    <2>4. pass'[r] = q
      BY <2>2, ZenonT(30)
    <2> HIDE DEF q
    <2> QED
      BY <2>3, <2>4, ZenonT(30)
  <1>5. pc'[r] \in Before \cup {"delete"} => pc'[r] = "secret"
    BY <1>2, Zenon DEF Before
  <1>6. pc'[r] \in {"delete", "unfinalize"} => pc'[r] = "unfinalize"
    BY <1>2, Zenon
  <1>7. pc'[r] \notin Talking
    BY <1>2, Zenon DEF Talking
  <1>8. status'[r].observed <= edit'[r] /\ status'[r].observed <= pass'[r].gen /\ pass'[r].observed <= pass'[r].gen
    BY <1>1, <1>3, <1>4, ZenonT(30)
  <1> QED
    BY <1>1, <1>2, <1>4, <1>5, <1>6, <1>7, <1>8, Zenon DEF PassOk

\* A pass that ended, or that went on to a step of the same kind.
LEMMA EndPasses ==
  ASSUME Types, Passes, NEW r \in Res, EndPass(r), UNCHANGED edit,
         status'[r] = status[r] \/ (status'[r].observed <= edit[r])
  PROVE  PassOk(r)'
  <1>1. pc'[r] = "idle"
    BY ZenonT(30) DEF EndPass, Goto, Types, InFlight
  <1> QED
    BY <1>1, ZenonT(30) DEF PassOk, Passes, Before, Talking

LEMMA MovePasses ==
  ASSUME Types, Passes, NEW r \in Res, NEW l \in Label, Goto(r, l), pc[r] # "idle",
         UNCHANGED <<edit, status, phase>>,
         pass'[r].gen = pass[r].gen, pass'[r].s = pass[r].s, pass'[r].observed = pass[r].observed,
         pass'[r].deleting = pass[r].deleting,
         l \in Before => pc[r] \in Before,
         l = "delete" => pc[r] = "lock" /\ pass[r].deleting,
         l = "unfinalize" => pass[r].deleting,
         l \in Talking => ~pass[r].deleting
  PROVE  PassOk(r)'
  <1>1. pc'[r] = l
    BY Zenon DEF Goto, Types, InFlight
  <1>2. PassOk(r)
    BY ZenonT(30) DEF Passes
  <1>3. "lock" \in Before
    BY Zenon DEF Before
  <1>4. pass'[r].deleting <=> pass[r].deleting
    BY Zenon
  <1> QED
    BY <1>1, <1>2, <1>3, <1>4, ZenonT(30) DEF PassOk

LEMMA QuietPasses ==
  ASSUME Types, Passes, NEW r \in Res, Quiet(r)
  PROVE  PassOk(r)'
  <1> USE DEF Stay, resVars, clientVars
  <1>0. edit' = edit
    BY Footprint, Zenon
  <1>1. CASE add_finalizer(r) \/ remove_finalizer(r) \/ drop_admin_client(r) \/ Abort(r)
    BY <1>0, <1>1, EndPasses, ZenonT(60) DEF add_finalizer, remove_finalizer, drop_admin_client, Abort
  <1>2. CASE patch_status(r)
    <2>1. pc[r] # "idle" /\ EndPass(r)
      BY <1>2, ZenonT(30) DEF patch_status
    <2>2. status'[r].observed \in {pass[r].gen, pass[r].observed}
      BY <1>2, ZenonT(60) DEF patch_status, Types
    <2>3. pass[r] \in Pass /\ pass[r].gen \in 1..edit[r] /\ pass[r].observed <= pass[r].gen
      BY <2>1, ZenonT(30) DEF Types, InFlight, Passes, PassOk
    <2>4. pass[r].gen <= edit[r] /\ pass[r].observed <= edit[r]
      <3>1. pass[r].gen \in Nat /\ pass[r].observed \in Nat /\ edit[r] \in Nat
        BY <2>3, Zenon DEF Pass, Types
      <3> QED
        BY <2>3, <3>1, SMTT(30), Z3T(30)
    <2> QED
      BY <1>0, <2>1, <2>2, <2>4, EndPasses, Zenon
  <1>3. CASE ReadIdentity(r) \/ Lookup(r) \/ LockClient(r) \/ Connect(r)
    <2>1. pc[r] \in Before /\ UNCHANGED <<status, phase>> /\ pc[r] # "idle"
      BY <1>3, ZenonT(30) DEF ReadIdentity, Lookup, LockClient, Connect, Before
    <2>2. pass[r] \in Pass
      BY <2>1, ZenonT(30) DEF Types, InFlight
    <2>3. CASE EndPass(r)
      BY <1>0, <2>1, <2>3, EndPasses, ZenonT(30)
    <2>4. CASE ~EndPass(r)
      <3>1. /\ pass'[r].gen = pass[r].gen /\ pass'[r].s = pass[r].s
            /\ pass'[r].observed = pass[r].observed /\ pass'[r].deleting = pass[r].deleting
        BY <1>3, <2>2, <2>4, SMTT(30), Z3T(30) DEF ReadIdentity, Lookup, LockClient, Connect, Types, InFlight, Pass
      <3>2. CASE ReadIdentity(r) \/ Lookup(r)
        <4>1. PICK l \in {"lookup", "lock", "connect"} : Goto(r, l)
          BY <3>2, Zenon DEF ReadIdentity, Lookup
        <4>2. l \in Label /\ l \in Before /\ l \notin Talking
          BY Zenon DEF Label, Before, Talking
        <4> QED
          BY <1>0, <2>1, <3>1, <4>1, <4>2, MovePasses, Zenon
      <3>3. CASE LockClient(r)
        <4>1. pc[r] = "lock" /\ Goto(r, IF pass[r].deleting THEN "delete" ELSE "metadata")
          BY <3>3, Zenon DEF LockClient
        <4>2. CASE pass[r].deleting
          BY <1>0, <2>1, <3>1, <4>1, <4>2, MovePasses, Zenon DEF Label, Holding, Talking, Before
        <4>3. CASE ~pass[r].deleting
          BY <1>0, <2>1, <3>1, <4>1, <4>3, MovePasses, ZenonT(60) DEF Label, Holding, Talking, Before
        <4> QED
          BY <4>2, <4>3, ZenonT(60)
      <3>4. CASE Connect(r)
        <4>1. Goto(r, "lock") \/ (Goto(r, "unfinalize") /\ pass[r].deleting)
          BY <2>4, <3>4, ZenonT(30) DEF Connect
        <4>2. CASE Goto(r, "lock")
          BY <1>0, <2>1, <3>1, <4>2, MovePasses, ZenonT(30) DEF Label, Talking, Before
        <4>3. CASE Goto(r, "unfinalize") /\ pass[r].deleting
          BY <1>0, <2>1, <3>1, <4>3, MovePasses, Zenon DEF Label, Holding, Talking, Before
        <4> QED
          BY <4>1, <4>2, <4>3, ZenonT(30)
      <3> QED
        BY <1>3, <3>2, <3>3, <3>4, ZenonT(60)
    <2> QED
      BY <2>3, <2>4, Zenon
  <1> QED
    BY <1>1, <1>2, <1>3, ZenonT(30) DEF Quiet

LEMMA TalksPasses ==
  ASSUME Types, Passes, NEW r \in Res, Talks(r)
  PROVE  PassOk(r)'
  <1>1. Calls(r) /\ pc[r] # "idle" /\ Goes(r)
    BY BrokerShape, Zenon DEF Talks
  <1>2. UNCHANGED <<edit, status, phase>>
    BY <1>1, Zenon DEF Calls, resVars
  <1>3. pc[r] \in Talking \/ pc[r] = "delete"
    BY Zenon DEF Talks, delete_topics, metadata, create_topics, create_partitions, reconcile_replication_factor,
           describe_configs, alter_configs, Talking
  <1>4. PassOk(r) /\ pass[r] \in Pass
    BY <1>1, ZenonT(30) DEF Passes, Types, InFlight
  <1>5. \A l \in Onward(r) : /\ l \in Label /\ l \notin Before /\ l # "delete"
                             /\ l = "unfinalize" => pass[r].deleting
                             /\ l \in Talking => ~pass[r].deleting
    <2>1. \A l \in Onward(r) : l \in Label /\ l \notin Before /\ l # "delete"
      BY Zenon DEF Onward, Label, Holding, Talking, Before
    <2>2. \A l \in Onward(r) : /\ l = "unfinalize" => pc[r] = "delete"
                               /\ l \in Talking => pc[r] \in Talking
      BY ZenonT(30) DEF Onward
    <2>3. (pc[r] = "delete" => pass[r].deleting) /\ (pc[r] \in Talking => ~pass[r].deleting)
      BY <1>4, Zenon DEF PassOk
    <2> QED
      BY <2>1, <2>2, <2>3, Zenon
  <1>6. CASE EndPass(r)
    BY <1>2, <1>6, EndPasses, ZenonT(30)
  <1>7. CASE \E l \in Onward(r) : Goto(r, l) /\ UNCHANGED pass
    BY <1>1, <1>2, <1>5, <1>7, MovePasses, ZenonT(30)
  <1>8. ASSUME NEW reason \in Reason, NEW id \in Opt(Nat), Report(r, reason, id)
        PROVE  PassOk(r)'
    <2>1. /\ pass'[r].gen = pass[r].gen /\ pass'[r].s = pass[r].s
          /\ pass'[r].observed = pass[r].observed /\ pass'[r].deleting = pass[r].deleting
      BY <1>4, <1>8, Zenon DEF Report, Types, InFlight, Pass
    <2>2. Goto(r, "report") /\ "report" \in Label /\ "report" \notin Before /\ "report" \notin Talking
      BY <1>8, Zenon DEF Report, Label, Holding, Before, Talking
    <2> QED
      BY <1>1, <1>2, <2>1, <2>2, MovePasses, Zenon
  <1>9. ASSUME NEW l \in Onward(r), NEW p \in Pass, p.gen = pass[r].gen, p.s = pass[r].s,
               p.deleting = pass[r].deleting, p.observed = pass[r].observed,
               Goto(r, l), pass' = [pass EXCEPT ![r] = p]
        PROVE  PassOk(r)'
    <2>1. pass'[r] = p
      BY <1>9, ZenonT(30) DEF Types, InFlight
    <2> QED
      BY <1>1, <1>2, <1>5, <1>9, <2>1, MovePasses, ZenonT(30)
  <1> QED
    BY <1>1, <1>6, <1>7, <1>8, <1>9, ZenonT(30) DEF Goes

LEMMA OutsidePasses ==
  ASSUME Types, Passes, Outside
  PROVE  Passes'
  <1> USE DEF Stay, Env, resVars
  <1>1. UNCHANGED <<pc, pass>>
    BY Zenon DEF Outside, Edit, Delete, Reassigned, Break, RenewIdentity, Outage
  <1>2. status' = status
    BY Zenon DEF Outside, Edit, Delete, Reassigned, Break, RenewIdentity, Outage
  <1>3. ASSUME NEW r \in Res, Edit(r) PROVE Passes'
    <2>1. phase[r] = "live" /\ edit'[r] = edit[r] + 1 /\ phase' = phase
      BY <1>3, ZenonT(30) DEF Edit, Types
    <2>2. \A o \in Res : o # r => edit'[o] = edit[o]
      BY <1>3, Zenon DEF Edit, Types
    <2>3. edit[r] \in Nat /\ status[r].observed \in Nat
      BY Zenon DEF Types, Status
    <2>4. PassOk(r)'
      <3>1. PassOk(r)
        BY Zenon DEF Passes
      <3>2. ~(pc[r] # "idle" /\ pass[r].deleting)
        BY <2>1, <3>1, Zenon DEF PassOk
      <3>3. status[r].observed <= edit'[r]
        <4>1. status[r].observed <= edit[r]
          BY <3>1, Zenon DEF PassOk
        <4> QED
          BY <2>1, <2>3, <4>1, SMTT(30), Z3T(30)
      <3> QED
        BY <1>1, <1>2, <2>1, <3>1, <3>2, <3>3, Zenon DEF PassOk
    <2>5. ASSUME NEW o \in Res, o # r PROVE PassOk(o)'
      BY <1>1, <1>2, <2>1, <2>2, <2>5, ZenonT(30) DEF Passes, PassOk
    <2> QED
      BY <2>4, <2>5, ZenonT(30) DEF Passes
  <1>4. ASSUME NEW r \in Res, Delete(r) PROVE Passes'
    <2>1. phase[r] = "live" /\ edit' = edit /\ \A o \in Res : o # r => phase'[o] = phase[o]
      BY <1>4, ZenonT(60) DEF Delete, Types
    <2>2. ASSUME NEW o \in Res PROVE PassOk(o)'
      <3>1. PassOk(o)
        BY Zenon DEF Passes
      <3>2. pc[o] # "idle" /\ pass[o].deleting => phase'[o] = "deleting"
        BY <2>1, <3>1, ZenonT(60) DEF PassOk
      <3> QED
        BY <1>1, <1>2, <2>1, <3>1, <3>2, Zenon DEF PassOk
    <2> QED
      BY <2>2, Zenon DEF Passes
  <1>5. ASSUME UNCHANGED <<edit, phase>> PROVE Passes'
    BY <1>1, <1>2, <1>5, Zenon DEF Passes, PassOk
  <1> QED
    BY <1>3, <1>4, <1>5, Zenon DEF Outside, Reassigned, Break, RenewIdentity, Outage

LEMMA StepPasses == Types /\ Passes /\ Next => Passes'
  <1> SUFFICES ASSUME Types, Passes, Next PROVE Passes'
    BY Zenon
  <1>1. ASSUME NEW r \in Res, Start(r) \/ Quiet(r) \/ Talks(r) PROVE Passes'
    <2>1. PassOk(r)'
      BY <1>1, StartPasses, QuietPasses, TalksPasses, ZenonT(30)
    <2>2. ASSUME NEW o \in Res, o # r PROVE PassOk(o)'
      <3>1. pc'[o] = pc[o] /\ pass'[o] = pass[o] /\ status'[o] = status[o] /\ phase'[o] = phase[o] /\ edit' = edit
        BY <1>1, <2>2, Footprint, ZenonT(30)
      <3> QED
        BY <3>1, ZenonT(30) DEF Passes, PassOk
    <2> QED
      BY <2>1, <2>2, Zenon DEF Passes
  <1> QED
    BY <1>1, Steps, OutsidePasses, Zenon

-----------------------------------------------------------------------------
(* Connections *)

\* What has happened stays counted.
LEMMA Counted ==
  ASSUME Types, Types', Next
  PROVE  Undisturbed' => Undisturbed
  <1>1. events \in [Event -> Nat] /\ events' \in [Event -> Nat]
    BY Zenon DEF Types
  <1>2. UNCHANGED events \/ \E e \in Event : Happens(e)
    <2>1. CASE Outside
      BY <2>1, Zenon DEF Outside, Edit, Delete, Reassigned, Break, RenewIdentity, Outage, Event
    <2>2. ASSUME NEW r \in Res, Start(r) \/ Quiet(r) \/ Talks(r)
          PROVE  UNCHANGED events \/ \E e \in Event : Happens(e)
      BY <2>2, Footprint, ZenonT(30) DEF Event
    <2> QED
      BY <2>1, <2>2, Steps, Zenon
  <1>3. \A e \in Event : events[e] <= events'[e]
    BY <1>1, <1>2, HappensTypes, SMTT(30), Z3T(30)
  <1>4. PICK a \in Nat, b \in Nat, c \in Nat, d \in Nat :
          events["lost"] = a /\ events["refuse"] = b /\ events["break"] = c /\ events["connect"] = d
    BY <1>1, Zenon DEF Event
  <1>5. PICK k \in Nat, l \in Nat, m \in Nat, n \in Nat :
          events'["lost"] = k /\ events'["refuse"] = l /\ events'["break"] = m /\ events'["connect"] = n
    BY <1>1, Zenon DEF Event
  <1>6. a <= k /\ b <= l /\ c <= m /\ d <= n
    BY <1>3, <1>4, <1>5, ZenonT(30) DEF Event
  <1>7. k + l + m + n = 0 => a + b + c + d = 0
    BY <1>6, SMTT(30), Z3T(30)
  <1> QED
    BY <1>4, <1>5, <1>7, ZenonT(30) DEF Undisturbed

\* An event that disturbs has happened.
LEMMA Disturbs ==
  ASSUME Types, NEW e \in {"lost", "refuse", "break", "connect"}, Happens(e)
  PROVE  ~Undisturbed'
  <1>1. e \in Event
    BY Zenon DEF Event
  <1>2. events' \in [Event -> Nat] /\ events'[e] > 0
    BY <1>1, HappensTypes, Zenon
  <1> QED
    BY <1>1, <1>2, SMTT(30), Z3T(30) DEF Undisturbed, Event

LEMMA StepWorking == Types /\ Types' /\ Working /\ Next => Working'
  <1> SUFFICES ASSUME Types, Types', Working, Next, Undisturbed' PROVE Working'
    BY Zenon DEF Working
  <1> USE DEF Stay, resVars, clientVars
  <1>1. /\ \A c \in clients : c.id \in alive
        /\ \A r \in Res : pc[r] \in {"lock", "delete"} => pass[r].client \in alive
    BY Counted, Zenon DEF Working
  <1>2. CASE Outside
    <2>1. ~Happens("break")
      BY Disturbs, Zenon
    <2>2. UNCHANGED <<clients, alive, pc, pass>>
      BY <1>2, <2>1, Zenon DEF Outside, Edit, Delete, Reassigned, Break, RenewIdentity, Outage, Env
    <2> QED
      BY <1>1, <2>2, Zenon DEF Working
  <1>3. ASSUME NEW r \in Res, Start(r) PROVE Working'
    <2>1. pc'[r] \in {"report", "unfinalize", "secret", "finalizer"}
      BY <1>3, ZenonT(60) DEF Start, Goto, Types, InFlight
    <2>2. UNCHANGED <<clients, alive>>
      BY <1>3, ZenonT(30) DEF Start
    <2> QED
      BY <1>1, <1>3, <2>1, <2>2, Footprint, ZenonT(60) DEF Working
  <1>4. ASSUME NEW r \in Res, Talks(r) PROVE Working'
    <2>1. Calls(r) /\ Goes(r)
      BY <1>4, BrokerShape, Zenon DEF Talks
    <2>2. UNCHANGED <<clients, alive>>
      BY <2>1, Zenon DEF Calls
    <2>3. pc'[r] \notin {"lock", "delete"}
      BY <2>1, ZenonT(60) DEF Goes, EndPass, Report, Goto, Onward, Holding, Talking, Types, InFlight
    <2> QED
      BY <1>1, <1>4, <2>2, <2>3, Footprint, ZenonT(30) DEF Working
  <1>5. ASSUME NEW r \in Res, Quiet(r) PROVE Working'
    <2>1. CASE EndPass(r)
      <3>1. pc'[r] = "idle" /\ clients' \subseteq clients /\ UNCHANGED alive
        BY <1>5, <2>1, ZenonT(30) DEF Quiet, EndPass, Goto, Types, InFlight, add_finalizer, remove_finalizer, patch_status,
                          drop_admin_client, Abort, ReadIdentity, Lookup, Connect, LockClient
      <3> QED
        BY <1>1, <1>5, <3>1, Footprint, ZenonT(30) DEF Working
    <2>2. CASE ReadIdentity(r)
      <3>1. pc'[r] = "lookup" /\ UNCHANGED <<clients, alive>>
        BY <2>2, ZenonT(60) DEF ReadIdentity, Goto, Types, InFlight
      <3> QED
        BY <1>1, <1>5, <3>1, Footprint, ZenonT(30) DEF Working
    <2>3. CASE Lookup(r)
      <3>1. UNCHANGED <<clients, alive>>
        BY <2>3, Zenon DEF Lookup
      <3>2. pass[r] \in Pass
        BY <2>3, ZenonT(30) DEF Lookup, Types, InFlight
      <3>3. pc'[r] = "connect" \/ \E c \in clients : pass'[r].client = c.id
        BY <2>3, <3>2, SMTT(30), Z3T(30) DEF Lookup, Goto, Types, InFlight, Pass
      <3> QED
        BY <1>1, <1>5, <3>1, <3>3, Footprint, ZenonT(60) DEF Working
    <2>4. CASE Connect(r) /\ ~EndPass(r)
      <3>1. ~Happens("connect")
        BY Disturbs, ZenonT(30)
      <3>2. pass[r] \in Pass
        BY <2>4, Zenon DEF Connect, Types, InFlight
      <3>3. /\ clients' = {[version |-> pass[r].version, id |-> nextId]}
            /\ alive' = alive \cup {nextId} /\ pass' = [pass EXCEPT ![r].client = nextId]
        BY <2>4, <3>1, ZenonT(30) DEF Connect
      <3>4. pass'[r].client = nextId
        BY <3>2, <3>3, ZenonT(60) DEF Pass, Types, InFlight
      <3>5. \A c \in clients' : c.id = nextId
        BY <3>3, SMTT(30), Z3T(30)
      <3> QED
        BY <1>1, <1>5, <3>3, <3>4, <3>5, Footprint, SMTT(30), Z3T(30) DEF Working
    <2>5. CASE LockClient(r)
      <3>1. UNCHANGED <<clients, alive, pass>> /\ pc[r] = "lock"
        BY <2>5, ZenonT(30) DEF LockClient
      <3> QED
        BY <1>1, <1>5, <3>1, Footprint, ZenonT(60) DEF Working
    <2> QED
      BY <1>5, <2>1, <2>2, <2>3, <2>4, <2>5, Zenon
         DEF Quiet, add_finalizer, remove_finalizer, patch_status, drop_admin_client, Abort
  <1> QED
    BY <1>2, <1>3, <1>4, <1>5, Steps, ZenonT(60)

-----------------------------------------------------------------------------
(* What passes know of their topics *)

\* Who is alone now has been alone.
LEMMA AloneBack ==
  ASSUME Types, Types', NEW r \in Res, scenario' = scenario, edit'[r] = edit[r],
         \A o \in Res : edit[o] <= edit'[o]
  PROVE  spec(r)' = spec(r) /\ (Alone(r)' => Alone(r))
  <1>1. spec(r)' = spec(r)
    BY ZenonT(30) DEF spec
  <1>2. \A o \in Res : edit[o] \in Nat /\ edit'[o] \in Nat
    BY Zenon DEF Types
  <1>3. \A o \in Res : \A i \in 1..edit[o] : i \in 1..edit'[o]
    BY <1>2, SMTT(30), Z3T(30)
  <1> QED
    BY <1>1, <1>3, ZenonT(30) DEF Alone

LEMMA SameEdit ==
  ASSUME Types, Types', NEW r \in Res, UNCHANGED <<scenario, edit>>
  PROVE  /\ spec(r)' = spec(r) /\ (Alone(r)' => Alone(r))
         /\ UNCHANGED topics => Own(r)' = Own(r)
  <1>1. \A o \in Res : edit[o] \in Nat
    BY Zenon DEF Types
  <1>2. \A o \in Res : edit[o] <= edit'[o]
    BY <1>1, SMTT(30), Z3T(30)
  <1>3. spec(r)' = spec(r) /\ (Alone(r)' => Alone(r))
    BY <1>2, AloneBack, Zenon
  <1> QED
    BY <1>3, ZenonT(30) DEF Own

\* The topic of a resource that is alone is not that of another's pass.
LEMMA Elsewhere ==
  ASSUME Types, NEW r \in Res, Alone(r), NEW o \in Res, o # r, pc[o] # "idle"
  PROVE  pass[o].s.name # spec(r).name
  BY ZenonT(30) DEF Types, InFlight, Alone

\* Steps of the passes of others.
LEMMA OthersClaim ==
  ASSUME Types, Types', Next, NEW r \in Res, Claim(r), Removal(r),
         NEW o \in Res, o # r, Start(o) \/ Quiet(o) \/ Talks(o)
  PROVE  Claim(r)' /\ Removal(r)'
  <1>1. /\ scenario' = scenario /\ edit' = edit
        /\ pc'[r] = pc[r] /\ pass'[r] = pass[r] /\ status'[r] = status[r] /\ phase'[r] = phase[r]
    BY Footprint, ZenonT(30)
  <1>2. spec(r)' = spec(r) /\ (Alone(r)' => Alone(r))
    BY <1>1, SameEdit, ZenonT(30)
  <1>3. Alone(r) => Own(r)' = Own(r)
    <2>1. spec(r).name \in Names
      BY SpecTypes, Zenon
    <2> QED
      <3>1. \/ topics'[spec(r).name] = topics[spec(r).name]
            \/ pc[o] # "idle" /\ spec(r).name = pass[o].s.name
        BY <2>1, Footprint, Zenon
      <3>2. Alone(r) => topics'[spec(r).name] = topics[spec(r).name]
        BY <3>1, Elsewhere, ZenonT(60)
      <3> QED
        BY <1>2, <3>2, Zenon DEF Own
  <1>4. Undisturbed' => Undisturbed
    BY Counted, Zenon
  <1>5. Claim(r)'
    BY <1>1, <1>2, <1>3, ZenonT(30) DEF Claim
  <1>6. Removal(r)'
    BY <1>1, <1>2, <1>3, <1>4, Zenon DEF Removal
  <1> QED
    BY <1>5, <1>6, ZenonT(30)

\* The first steps of a pass know nothing yet.
LEMMA KnowsNothing ==
  ASSUME NEW l, NEW p, NEW t, NEW s,
         l \notin Talking \ {"metadata"}, l = "report" => p.reason # "Ready"
  PROVE  Knows(l, p, t, s)
  BY Zenon DEF Knows, Talking

LEMMA StartClaim ==
  ASSUME Types, Types', NEW r \in Res, Claim(r), Start(r)
  PROVE  Claim(r)'
  <1>1. /\ scenario' = scenario /\ edit' = edit /\ UNCHANGED <<topics, status, phase>>
    BY ZenonT(30) DEF Start, Stay, resVars
  <1>2. spec(r)' = spec(r) /\ (Alone(r)' => Alone(r)) /\ Own(r)' = Own(r)
    BY <1>1, SameEdit, ZenonT(30)
  <1>3. pc'[r] \in {"report", "unfinalize", "secret", "finalizer"}
    BY ZenonT(60) DEF Start, Goto, Types, InFlight
  <1>4. pass'[r].reason # "Ready"
    <2>1. pass'[r].reason = refusal(spec(r))
      BY ZenonT(60) DEF Start, Types, InFlight
    <2> QED
      BY <2>1, ZenonT(30) DEF refusal
  <1>5. Knows(pc'[r], pass'[r], Own(r), spec(r))
    BY <1>3, <1>4, KnowsNothing, ZenonT(30) DEF Talking
  <1> QED
    BY <1>1, <1>2, <1>5, Zenon DEF Claim

LEMMA QuietClaim ==
  ASSUME Types, Types', Passes, NEW r \in Res, Claim(r), Quiet(r)
  PROVE  Claim(r)'
  <1> USE DEF Stay, resVars, clientVars
  <1>1. UNCHANGED <<scenario, edit, topics>>
    BY Zenon DEF Quiet, add_finalizer, remove_finalizer, patch_status, ReadIdentity, Lookup, Connect,
           LockClient, drop_admin_client, Abort
  <1>2. spec(r)' = spec(r) /\ (Alone(r)' => Alone(r)) /\ Own(r)' = Own(r)
    BY <1>1, SameEdit, ZenonT(60)
  <1>3. phase'[r] = "live" => phase[r] = "live"
    BY Zenon DEF Quiet, add_finalizer, remove_finalizer, patch_status, ReadIdentity, Lookup, Connect,
           LockClient, drop_admin_client, Abort, Types
  <1>4. pc'[r] \notin Talking \ {"metadata"} /\ pc'[r] # "report"
    <2>1. PICK l \in {"idle", "lookup", "lock", "connect", "unfinalize", "delete", "metadata"} : Goto(r, l)
      BY ZenonT(30) DEF Quiet, EndPass, add_finalizer, remove_finalizer, patch_status, ReadIdentity, Lookup, Connect,
             LockClient, drop_admin_client, Abort
    <2>2. pc'[r] = l
      BY <2>1, ZenonT(30) DEF Goto, Types, InFlight
    <2> QED
      BY <2>2, Zenon DEF Talking
  <1>5. Knows(pc'[r], pass'[r], Own(r), spec(r))
    BY <1>4, KnowsNothing, Zenon
  <1>6. CASE patch_status(r)
    <2>1. pc[r] = "report" /\ phase' = phase
      BY <1>6, ZenonT(30) DEF patch_status
    <2>2. pass[r] \in Pass /\ pass[r].observed <= pass[r].gen /\ pass[r].gen \in 1..edit[r]
      BY <2>1, ZenonT(30) DEF Types, InFlight, Passes, PassOk
    <2>3. ASSUME status'[r].ready = "True", status'[r].observed = edit[r]
          PROVE  pass[r].reason = "Ready" /\ pass[r].gen = edit[r] /\ status'[r].id = pass[r].id
      BY <1>6, <2>3, ZenonT(30) DEF patch_status, Types
    <2>4. phase[r] = "live" /\ Alone(r) /\ pass[r].gen = edit[r] /\ pass[r].reason = "Ready"
            => InSync(Own(r), spec(r), pass[r].id)
      BY <2>1, ZenonT(30) DEF Claim, Knows
    <2> QED
      BY <1>1, <1>2, <1>3, <1>5, <2>3, <2>4, ZenonT(30) DEF Claim
  <1>7. CASE UNCHANGED status
    BY <1>1, <1>2, <1>3, <1>5, <1>7, Zenon DEF Claim
  <1> QED
    BY <1>6, <1>7, ZenonT(60) DEF Quiet, add_finalizer, remove_finalizer, ReadIdentity, Lookup, Connect,
                      LockClient, drop_admin_client, Abort

\* Outside the passes a topic changes only when a reassignment ends.
LEMMA OutsideOwn ==
  ASSUME Types, Types', Outside, NEW r \in Res, edit'[r] = edit[r]
  PROVE  /\ spec(r)' = spec(r) /\ (Alone(r)' => Alone(r)) /\ spec(r).name \in Names
         /\ \/ Own(r)' = Own(r)
            \/ /\ Own(r) # None /\ Own(r)[1].rf # Own(r)[1].target
               /\ Own(r)' = Some([Own(r)[1] EXCEPT !.rf = Own(r)[1].target])
  <1> USE DEF Stay, Env, resVars
  <1>1. scenario' = scenario
    BY Zenon DEF Outside, Edit, Delete, Reassigned, Break, RenewIdentity, Outage
  <1>2. \A o \in Res : edit[o] <= edit'[o]
    <2>1. edit \in [Res -> Nat]
      BY Zenon DEF Types
    <2>2. edit' = edit \/ \E o \in Res : edit' = [edit EXCEPT ![o] = edit[o] + 1]
      BY ZenonT(30) DEF Outside, Edit, Delete, Reassigned, Break, RenewIdentity, Outage
    <2> QED
      BY <2>1, <2>2, SMTT(30), Z3T(30)
  <1>3. spec(r)' = spec(r) /\ (Alone(r)' => Alone(r)) /\ spec(r).name \in Names
    BY <1>1, <1>2, AloneBack, SpecTypes, ZenonT(30)
  <1>4. topics' = topics \/ \E n \in DOMAIN topics : Reassigned(n)
    BY ZenonT(30) DEF Outside, Edit, Delete, Break, RenewIdentity, Outage
  <1>5. CASE topics' = topics
    BY <1>3, <1>5, ZenonT(30) DEF Own
  <1>6. ASSUME NEW n \in DOMAIN topics, Reassigned(n), n = spec(r).name
        PROVE  /\ Own(r) # None /\ Own(r)[1].rf # Own(r)[1].target
               /\ Own(r)' = Some([Own(r)[1] EXCEPT !.rf = Own(r)[1].target])
    BY <1>3, <1>6, ZenonT(30) DEF Own, Reassigned
  <1>7. ASSUME NEW n \in DOMAIN topics, Reassigned(n), n # spec(r).name
        PROVE  Own(r)' = Own(r)
    BY <1>3, <1>7, ZenonT(30) DEF Own, Reassigned, Types
  <1> QED
    BY <1>3, <1>4, <1>5, <1>6, <1>7, Zenon

\* Steps outside the passes: a reassignment that ends, a new generation, a deletion.
LEMMA OutsideClaim ==
  ASSUME Types, Types', Passes, Outside, NEW r \in Res, Claim(r)
  PROVE  Claim(r)'
  <1> USE DEF Stay, Env, resVars
  <1>1. UNCHANGED <<scenario, pc, pass, status>>
    BY Zenon DEF Outside, Edit, Delete, Reassigned, Break, RenewIdentity, Outage
  <1>2. \A o \in Res : edit[o] <= edit'[o]
    <2>1. edit \in [Res -> Nat]
      BY Zenon DEF Types
    <2>2. edit' = edit \/ \E o \in Res : edit' = [edit EXCEPT ![o] = edit[o] + 1]
      BY Zenon DEF Outside, Edit, Delete, Reassigned, Break, RenewIdentity, Outage
    <2> QED
      BY <2>1, <2>2, SMTT(30), Z3T(30)
  <1>3. phase'[r] = "live" => phase[r] = "live"
    BY ZenonT(30) DEF Outside, Edit, Delete, Reassigned, Break, RenewIdentity, Outage, Types
  <1>4. CASE edit'[r] # edit[r]
    <2>0. edit[r] \in Nat /\ edit'[r] \in Nat /\ edit[r] <= edit'[r]
      BY <1>2, ZenonT(30) DEF Types
    <2>1. edit'[r] > edit[r] /\ edit[r] \in Nat /\ edit'[r] \in Nat
      BY <1>4, <2>0, SMTT(30), Z3T(30)
    <2>2. status[r].observed <= edit[r] /\ status[r].observed \in Nat
      BY ZenonT(30) DEF Passes, PassOk, Types, Status
    <2>3. status[r].observed # edit'[r]
      BY <2>1, <2>2, SMTT(30), Z3T(30)
    <2>4. pc[r] # "idle" => pass[r].gen # edit'[r]
      <3>1. pc[r] # "idle" => pass[r].gen \in 1..edit[r]
        BY ZenonT(30) DEF Types, InFlight
      <3> QED
        BY <2>1, <3>1, SMTT(30), Z3T(30)
    <2> QED
      BY <1>1, <2>3, <2>4, ZenonT(30) DEF Claim
  <1>5. CASE edit'[r] = edit[r]
    <2>1. spec(r)' = spec(r) /\ (Alone(r)' => Alone(r)) /\ spec(r).name \in Names
      BY <1>5, OutsideOwn, Zenon
    <2>2. \/ Own(r)' = Own(r)
          \/ /\ Own(r) # None /\ Own(r)[1].rf # Own(r)[1].target
             /\ Own(r)' = Some([Own(r)[1] EXCEPT !.rf = Own(r)[1].target])
      BY <1>5, OutsideOwn, Zenon
    <2>3. CASE Own(r)' = Own(r)
      BY <1>1, <1>3, <1>5, <2>1, <2>3, ZenonT(30) DEF Claim
    <2>4. CASE /\ Own(r) # None /\ Own(r)[1].rf # Own(r)[1].target
               /\ Own(r)' = Some([Own(r)[1] EXCEPT !.rf = Own(r)[1].target])
      <3>1. Own(r)[1] \in Broker
        BY <2>1, <2>4, OptTypes, ZenonT(30) DEF Own, Types
      <3>2. /\ Own(r)' # None /\ Own(r)'[1].id = Own(r)[1].id /\ Own(r)'[1].parts = Own(r)[1].parts
        BY <2>4, <3>1, SMTT(30), Z3T(30) DEF Broker, Some, None
      <3>3. \A s, id : ~InSync(Own(r), s, id)
        BY <2>4, ZenonT(30) DEF InSync
      <3>4. ASSUME Knows(pc[r], pass[r], Own(r), spec(r))
            PROVE  Knows(pc[r], pass[r], Own(r)', spec(r))
        BY <2>4, <3>2, <3>3, <3>4, Zenon DEF Knows
      <3> QED
        BY <1>1, <1>3, <1>5, <2>1, <3>3, <3>4, Zenon DEF Claim
    <2> QED
      BY <2>2, <2>3, <2>4, Zenon
  <1> QED
    BY <1>4, <1>5, Zenon

\* A pass that goes to an end other than Ready.
Dull(r) == \/ pc'[r] \in {"idle", "drop"}
           \/ pc'[r] = "report" /\ pass'[r].reason # "Ready"

\* Where the steps with the broker lead, for a pass of the current generation.
LEMMA Leads ==
  ASSUME Types, Types', NEW r \in Res, pc[r] # "idle", pass[r].gen = edit[r], UNCHANGED <<scenario, edit>>
  PROVE  /\ pass[r].s = spec(r) /\ Topic(r) = Own(r)
         /\ \A l : Goto(r, l) => pc'[r] = l
         /\ EndPass(r) \/ Transport(r, TRUE) \/ Transport(r, FALSE) => Dull(r)
         /\ \A x, id : Report(r, x, id) => pc'[r] = "report" /\ pass'[r].reason = x /\ pass'[r].id = id
         /\ \A x, id : Report(r, x, id) /\ x # "Ready" => Dull(r)
         /\ \A x : Becomes(r, x) => Own(r)' = x
         /\ UNCHANGED topics => Own(r)' = Own(r)
  <1>1. pass[r].s = spec(r) /\ pass[r] \in Pass
    BY Zenon DEF Types, InFlight, spec
  <1>2. Topic(r) = Own(r)
    BY <1>1, ZenonT(30) DEF Topic, Own
  <1>3. \A l : Goto(r, l) => pc'[r] = l
    BY ZenonT(30) DEF Goto, Types, InFlight
  <1>4. EndPass(r) \/ Transport(r, TRUE) \/ Transport(r, FALSE) => Dull(r)
    BY <1>3, ZenonT(30) DEF EndPass, Transport, Dull
  <1>5. ASSUME NEW x, NEW id, Report(r, x, id)
        PROVE  pc'[r] = "report" /\ pass'[r].reason = x /\ pass'[r].id = id
    <2>1. pc'[r] = "report"
      BY <1>3, <1>5, ZenonT(30) DEF Report
    <2>2. pass' = [pass EXCEPT ![r].reason = x, ![r].id = id] /\ pass \in [Res -> {NoPass} \cup Pass]
      BY <1>5, Zenon DEF Report, Types, InFlight
    <2>3. pass'[r].reason = x /\ pass'[r].id = id
      BY <1>1, <2>2, Zenon DEF Pass
    <2> QED
      BY <2>1, <2>3, Zenon
  <1>6. spec(r)' = spec(r) /\ spec(r).name \in Names /\ topics \in [Names -> Opt(Broker)]
    BY SameEdit, SpecTypes, ZenonT(30) DEF Types
  <1>7. \A x : Becomes(r, x) => Own(r)' = x
    BY <1>1, <1>6, Zenon DEF Becomes, Own
  <1>8. UNCHANGED topics => Own(r)' = Own(r)
    BY <1>6, ZenonT(30) DEF Own
  <1> QED
    BY <1>1, <1>2, <1>3, <1>4, <1>5, <1>7, <1>8, ZenonT(60) DEF Dull

\* What a step with the broker leaves of a claim, for a pass of the current generation:
\* what the pass knows next, and a topic that stays in sync if it was.
Kept(r) == /\ Knows(pc'[r], pass'[r], Own(r)', spec(r))
           /\ \A id : InSync(Own(r), spec(r), id) => InSync(Own(r)', spec(r), id)

\* A step that fails, and does nothing to the topic.
LEMMA DullKept ==
  ASSUME NEW r \in Res, Dull(r), \A id : InSync(Own(r), spec(r), id) => InSync(Own(r)', spec(r), id)
  PROVE  Kept(r)
  <1>1. pc'[r] \notin Talking \ {"metadata"} /\ (pc'[r] = "report" => pass'[r].reason # "Ready")
    BY ZenonT(60) DEF Dull, Talking
  <1>2. Knows(pc'[r], pass'[r], Own(r)', spec(r))
    BY <1>1, KnowsNothing, Zenon
  <1> QED
    BY <1>2, ZenonT(30) DEF Kept

\* The calls of the broker, one by one.
LEMMA MetadataKept ==
  ASSUME Types, Types', NEW r \in Res, pass[r].gen = edit[r], metadata(r)
  PROVE  Kept(r)
  <1>1. pc[r] = "metadata" /\ UNCHANGED <<scenario, edit, topics>>
    BY Zenon DEF metadata, Calls, Stay, resVars
  <1>2. pass[r].s = spec(r) /\ Topic(r) = Own(r) /\ Own(r)' = Own(r)
    BY <1>1, Leads, ZenonT(30)
  <1>3. CASE Dull(r)
    BY <1>2, <1>3, DullKept, ZenonT(30)
  <1>4. CASE Topic(r) = None /\ Goto(r, "create")
    <2>1. pc'[r] = "create"
      BY <1>1, <1>4, Leads, Zenon
    <2> QED
      BY <1>2, <1>4, <2>1, ZenonT(30) DEF Kept, Knows
  <1>5. CASE /\ Topic(r) # None /\ ~(Topic(r)[1].parts > pass[r].s.parts)
             /\ pass' = [pass EXCEPT ![r].id = Some(Topic(r)[1].id)]
             /\ Goto(r, IF Topic(r)[1].parts < pass[r].s.parts THEN "partitions" ELSE "factor")
    <2>1. pass[r] \in Pass /\ pass \in [Res -> {NoPass} \cup Pass]
      BY <1>1, Zenon DEF Types, InFlight
    <2>2. pass'[r].id = Some(Own(r)[1].id)
      BY <1>2, <1>5, <2>1, Zenon DEF Pass
    <2>3. pc'[r] = IF Topic(r)[1].parts < pass[r].s.parts THEN "partitions" ELSE "factor"
      BY <1>1, <1>5, Leads, ZenonT(30)
    <2>4. Own(r)[1].parts \in Nat /\ spec(r).parts \in Nat
      BY <1>1, <1>2, <1>5, TopicThere, SpecTypes, Zenon DEF Broker, TopicSpec
    <2>5. /\ pc'[r] \in {"partitions", "factor"}
          /\ pc'[r] = "partitions" => Own(r)[1].parts < spec(r).parts
          /\ pc'[r] = "factor" => Own(r)[1].parts = spec(r).parts
      BY <1>2, <1>5, <2>3, <2>4, SMTT(30), Z3T(30)
    <2> QED
      BY <1>2, <1>5, <2>2, <2>5, ZenonT(30) DEF Kept, Knows
  <1> QED
    <2>1. \/ Topic(r) = None /\ Goto(r, "create")
          \/ Report(r, "ImmutableFieldChanged", Some(Topic(r)[1].id))
          \/ /\ Topic(r) # None /\ ~(Topic(r)[1].parts > pass[r].s.parts)
             /\ pass' = [pass EXCEPT ![r].id = Some(Topic(r)[1].id)]
             /\ Goto(r, IF Topic(r)[1].parts < pass[r].s.parts THEN "partitions" ELSE "factor")
          \/ EndPass(r) \/ Transport(r, FALSE)
      BY ZenonT(30) DEF metadata
    <2>2. Report(r, "ImmutableFieldChanged", Some(Topic(r)[1].id)) => Dull(r)
      BY <1>1, Leads, Zenon
    <2>3. EndPass(r) \/ Transport(r, FALSE) => Dull(r)
      BY <1>1, Leads, Zenon
    <2> QED
      BY <1>3, <1>4, <1>5, <2>1, <2>2, <2>3, Zenon

LEMMA CreateKept ==
  ASSUME Types, Types', NEW r \in Res, pass[r].gen = edit[r],
         Knows(pc[r], pass[r], Own(r), spec(r)), create_topics(r)
  PROVE  Kept(r)
  <1> DEFINE s == pass[r].s
             new == [id |-> nextId, parts |-> s.parts, rf |-> s.rf, target |-> s.rf, cfg |-> s.cfg]
  <1>1. pc[r] = "create" /\ UNCHANGED <<scenario, edit>>
    BY ZenonT(30) DEF create_topics, Calls, Stay, resVars
  <1>2. s = spec(r) /\ Own(r) = None /\ (UNCHANGED topics => Own(r)' = Own(r))
    BY <1>1, Leads, ZenonT(30) DEF Knows
  <1>3. \A id : ~InSync(Own(r), spec(r), id)
    BY <1>2, ZenonT(30) DEF InSync
  <1>4. \/ Becomes(r, Some(new)) /\ Report(r, "Ready", Some(nextId))
        \/ Transport(r, TRUE) \/ Report(r, "BrokerError", None)
    BY ZenonT(30) DEF create_topics, Call
  <1>5. CASE Becomes(r, Some(new)) /\ Report(r, "Ready", Some(nextId))
    <2>1. Own(r)' = Some(new) /\ pc'[r] = "report" /\ pass'[r].id = Some(nextId)
      <3> HIDE DEF new
      <3> QED
        BY <1>1, <1>5, Leads, ZenonT(60)
    <2>2. InSync(Own(r)', spec(r), pass'[r].id)
      <3>1. Own(r)' # None /\ Own(r)'[1] = new
        BY <2>1, SomeIs, ZenonT(60)
      <3>2. /\ new.id = nextId /\ new.parts = s.parts /\ new.rf = s.rf /\ new.target = s.rf
            /\ new.cfg = s.cfg
        BY ZenonT(30)
      <3> HIDE DEF new, s
      <3> QED
        BY <1>2, <2>1, <3>1, <3>2, ZenonT(30) DEF InSync
    <2> QED
      BY <1>3, <2>1, <2>2, ZenonT(30) DEF Kept, Knows
  <1>6. CASE Transport(r, TRUE) \/ Report(r, "BrokerError", None)
    <2>1. Dull(r)
      BY <1>1, <1>6, Leads, Zenon
    <2> QED
      BY <1>3, <2>1, DullKept, ZenonT(30)
  <1> QED
    BY <1>4, <1>5, <1>6, Zenon

LEMMA PartitionsKept ==
  ASSUME Types, Types', NEW r \in Res, pass[r].gen = edit[r],
         Knows(pc[r], pass[r], Own(r), spec(r)), create_partitions(r)
  PROVE  Kept(r)
  <1> DEFINE more == [Topic(r)[1] EXCEPT !.parts = pass[r].s.parts]
  <1>1. pc[r] = "partitions" /\ UNCHANGED <<scenario, edit>>
    BY Zenon DEF create_partitions, Calls, Stay, resVars
  <1>2. /\ pass[r].s = spec(r) /\ Topic(r) = Own(r) /\ Own(r) # None /\ pass[r].id = Some(Own(r)[1].id)
        /\ Own(r)[1].parts < spec(r).parts
    BY <1>1, Leads, Zenon DEF Knows
  <1>3. Own(r)[1] \in Broker /\ spec(r).parts \in Nat
    BY <1>1, <1>2, TopicThere, SpecTypes, ZenonT(30) DEF TopicSpec
  <1>4. \A id : ~InSync(Own(r), spec(r), id)
    <2>1. Own(r)[1].parts \in Nat
      BY <1>3, ZenonT(30) DEF Broker
    <2>2. Own(r)[1].parts # spec(r).parts
      BY <1>2, <1>3, <2>1, SMTT(30), Z3T(30)
    <2> QED
      BY <2>2, ZenonT(30) DEF InSync
  <1>5. \/ Becomes(r, Some(more)) /\ Goto(r, "factor") /\ UNCHANGED pass
        \/ Transport(r, FALSE) \/ Report(r, "BrokerError", pass[r].id)
    BY ZenonT(30) DEF create_partitions, Call
  <1>6. CASE Becomes(r, Some(more)) /\ Goto(r, "factor") /\ UNCHANGED pass
    <2>1. Own(r)' = Some(more) /\ pc'[r] = "factor" /\ pass'[r] = pass[r]
      <3> HIDE DEF more
      <3> QED
        BY <1>1, <1>6, Leads, Zenon
    <2>2. more.id = Own(r)[1].id /\ more.parts = spec(r).parts
      BY <1>2, <1>3, ZenonT(30) DEF Broker
    <2> HIDE DEF more
    <2>3. Own(r)' # None /\ Own(r)'[1] = more
      BY <2>1, SomeIs, Zenon
    <2> QED
      BY <1>2, <1>4, <2>1, <2>2, <2>3, Zenon DEF Kept, Knows
  <1>7. CASE Transport(r, FALSE) \/ Report(r, "BrokerError", pass[r].id)
    <2>1. Dull(r)
      BY <1>1, <1>7, Leads, Zenon
    <2> QED
      BY <1>4, <2>1, DullKept, ZenonT(30)
  <1> QED
    BY <1>5, <1>6, <1>7, ZenonT(30)

LEMMA FactorKept ==
  ASSUME Types, Types', NEW r \in Res, pass[r].gen = edit[r],
         Knows(pc[r], pass[r], Own(r), spec(r)), reconcile_replication_factor(r)
  PROVE  Kept(r)
  <1> DEFINE cur == Topic(r)[1]
             moved == [cur EXCEPT !.target = pass[r].s.rf]
             busy == cur.rf # cur.target
  <1>1. pc[r] = "factor" /\ UNCHANGED <<scenario, edit>>
    BY Zenon DEF reconcile_replication_factor, Calls, Stay, resVars
  <1>2. /\ pass[r].s = spec(r) /\ Topic(r) = Own(r) /\ Own(r) # None /\ pass[r].id = Some(Own(r)[1].id)
        /\ Own(r)[1].parts = spec(r).parts /\ (UNCHANGED topics => Own(r)' = Own(r))
    BY <1>1, Leads, ZenonT(30) DEF Knows
  <1>3. cur \in Broker /\ Own(r) = Some(cur)
    BY <1>1, <1>2, TopicThere, SpecTypes, OptTypes, Zenon
  <1>4. /\ moved.id = cur.id /\ moved.parts = cur.parts /\ moved.rf = cur.rf /\ moved.cfg = cur.cfg
        /\ moved.target = spec(r).rf
    BY <1>2, <1>3, Zenon DEF Broker
  <1>5. \/ /\ UNCHANGED topics \/ Becomes(r, Some(moved))
           /\ \/ ~busy /\ cur.rf = pass[r].s.rf /\ Goto(r, "configs") /\ UNCHANGED pass
                 /\ Becomes(r, Some(moved))
              \/ Report(r, "Reassigning", pass[r].id)
              \/ Transport(r, TRUE)
        \/ UNCHANGED topics /\ (Transport(r, TRUE) \/ Report(r, "BrokerError", pass[r].id))
    BY Zenon DEF reconcile_replication_factor, Call
  <1> HIDE DEF moved, cur, busy
  <1>6. Own(r)' = Own(r) \/ Own(r)' = Some(moved)
    BY <1>1, <1>2, <1>5, Leads, Zenon
  <1>7. Some(moved)[1] = moved /\ Some(moved) # None /\ Own(r)[1] = cur
    BY <1>3, SMTT(30), Z3T(30) DEF Some, None
  <1>8. ASSUME NEW id, InSync(Own(r), spec(r), id) PROVE InSync(Own(r)', spec(r), id)
    BY <1>4, <1>6, <1>7, <1>8, ZenonT(30) DEF InSync
  <1>9. CASE Dull(r)
    BY <1>8, <1>9, DullKept, ZenonT(30)
  <1>10. CASE /\ ~busy /\ cur.rf = pass[r].s.rf /\ Goto(r, "configs") /\ UNCHANGED pass
              /\ Becomes(r, Some(moved))
    <2>1. Own(r)' = Some(moved) /\ pc'[r] = "configs" /\ pass'[r] = pass[r]
      BY <1>1, <1>10, Leads, ZenonT(30)
    <2>2. /\ Own(r)' # None /\ pass'[r].id = Some(Own(r)'[1].id) /\ Own(r)'[1].parts = spec(r).parts
          /\ Own(r)'[1].rf = spec(r).rf /\ Own(r)'[1].target = spec(r).rf
      BY <1>2, <1>4, <1>7, <1>10, <2>1, Zenon
    <2> QED
      BY <1>8, <2>1, <2>2, ZenonT(30) DEF Kept, Knows
  <1> QED
    <2>1. Report(r, "Reassigning", pass[r].id) \/ Report(r, "BrokerError", pass[r].id) => Dull(r)
      BY <1>1, Leads, ZenonT(30)
    <2>2. Transport(r, TRUE) => Dull(r)
      BY <1>1, Leads, Zenon
    <2> QED
      BY <1>5, <1>9, <1>10, <2>1, <2>2, Zenon

LEMMA DescribeKept ==
  ASSUME Types, Types', NEW r \in Res, pass[r].gen = edit[r],
         Knows(pc[r], pass[r], Own(r), spec(r)), describe_configs(r)
  PROVE  Kept(r)
  <1> DEFINE d == diff_configs(Own(r)[1].cfg, spec(r).cfg)
  <1>1. pc[r] = "configs" /\ UNCHANGED <<scenario, edit, topics>>
    BY Zenon DEF describe_configs, Calls, Stay, resVars
  <1>2. /\ pass[r].s = spec(r) /\ Topic(r) = Own(r) /\ Own(r)' = Own(r)
        /\ Own(r) # None /\ pass[r].id = Some(Own(r)[1].id) /\ Own(r)[1].parts = spec(r).parts
        /\ Own(r)[1].rf = spec(r).rf /\ Own(r)[1].target = spec(r).rf
    BY <1>1, Leads, Zenon DEF Knows
  <1>3. Own(r)[1].cfg \in Config /\ spec(r).cfg \in Config
    BY <1>1, <1>2, TopicThere, SpecTypes, Zenon DEF Broker, TopicSpec
  <1>4. \/ d.set \cup d.del = {} /\ Report(r, "Ready", pass[r].id)
        \/ d.set \cup d.del # {} /\ pass' = [pass EXCEPT ![r].diff = d] /\ Goto(r, "alter")
        \/ EndPass(r) \/ Transport(r, FALSE)
    BY <1>2, ZenonT(30) DEF describe_configs
  <1>5. d.set \cup d.del = {} => Own(r)[1].cfg = spec(r).cfg
    BY <1>3, AlterGivesDesired, Zenon
  <1>6. Own(r)[1].cfg = spec(r).cfg => d.set \cup d.del = {}
    BY ZenonT(30) DEF diff_configs
  <1>7. CASE d.set \cup d.del = {} /\ Report(r, "Ready", pass[r].id)
    <2>1. pc'[r] = "report" /\ pass'[r].id = pass[r].id
      <3> HIDE DEF d
      <3>1. \A x, id : Report(r, x, id) => pc'[r] = "report" /\ pass'[r].id = id
        BY <1>1, Leads, ZenonT(60)
      <3> QED
        BY <1>7, <3>1, Zenon
    <2>2. InSync(Own(r), spec(r), pass[r].id)
      BY <1>2, <1>5, <1>7, Zenon DEF InSync
    <2> QED
      BY <1>2, <2>1, <2>2, Zenon DEF Kept, Knows
  <1>8. CASE d.set \cup d.del # {} /\ pass' = [pass EXCEPT ![r].diff = d] /\ Goto(r, "alter")
    <2>1. pass[r] \in Pass /\ pass \in [Res -> {NoPass} \cup Pass]
      BY <1>1, Zenon DEF Types, InFlight
    <2>2. pc'[r] = "alter"
      BY <1>1, <1>8, Leads, ZenonT(30)
    <2>3. Own(r)[1].cfg # spec(r).cfg
      BY <1>6, <1>8, Zenon
    <2> HIDE DEF d
    <2>4. pass'[r].diff = d /\ pass'[r].id = pass[r].id
      BY <1>8, <2>1, Zenon DEF Pass
    <2> QED
      BY <1>2, <2>2, <2>3, <2>4, ZenonT(30) DEF Kept, Knows, d
  <1>9. CASE EndPass(r) \/ Transport(r, FALSE)
    <2>1. Dull(r)
      BY <1>1, <1>9, Leads, Zenon
    <2> QED
      BY <1>2, <2>1, DullKept, Zenon
  <1> QED
    BY <1>4, <1>7, <1>8, <1>9, ZenonT(30)

LEMMA AlterKept ==
  ASSUME Types, Types', NEW r \in Res, pass[r].gen = edit[r],
         Knows(pc[r], pass[r], Own(r), spec(r)), alter_configs(r)
  PROVE  Kept(r)
  <1> DEFINE new == [Topic(r)[1] EXCEPT !.cfg = incremental_alter_configs(@, pass[r].diff)]
  <1>1. pc[r] = "alter" /\ UNCHANGED <<scenario, edit>>
    BY Zenon DEF alter_configs, Calls, Stay, resVars
  <1>2. /\ pass[r].s = spec(r) /\ Topic(r) = Own(r)
        /\ Own(r) # None /\ pass[r].id = Some(Own(r)[1].id) /\ Own(r)[1].parts = spec(r).parts
        /\ Own(r)[1].rf = spec(r).rf /\ Own(r)[1].target = spec(r).rf /\ Own(r)[1].cfg # spec(r).cfg
        /\ pass[r].diff = diff_configs(Own(r)[1].cfg, spec(r).cfg)
    BY <1>1, Leads, ZenonT(60) DEF Knows
  <1>3. Own(r)[1] \in Broker /\ spec(r).cfg \in Config
    BY <1>1, <1>2, TopicThere, SpecTypes, Zenon DEF TopicSpec
  <1>4. \A id : ~InSync(Own(r), spec(r), id)
    BY <1>2, Zenon DEF InSync
  <1>5. \/ Becomes(r, Some(new)) /\ Report(r, "Ready", pass[r].id)
        \/ Transport(r, FALSE) \/ Report(r, "BrokerError", pass[r].id)
    BY ZenonT(30) DEF alter_configs, Call
  <1>6. CASE Becomes(r, Some(new)) /\ Report(r, "Ready", pass[r].id)
    <2>1. incremental_alter_configs(Own(r)[1].cfg, pass[r].diff) = spec(r).cfg
      BY <1>2, <1>3, AlterGivesDesired, Zenon DEF Broker
    <2>2. /\ new.id = Own(r)[1].id /\ new.parts = Own(r)[1].parts /\ new.rf = Own(r)[1].rf
          /\ new.target = Own(r)[1].target /\ new.cfg = spec(r).cfg
      BY <1>2, <1>3, <2>1, Zenon DEF Broker
    <2> HIDE DEF new
    <2>3. Own(r)' = Some(new) /\ pc'[r] = "report" /\ pass'[r].id = pass[r].id
      <3>1. \A x, id : Report(r, x, id) => pc'[r] = "report" /\ pass'[r].id = id
        BY <1>1, Leads, ZenonT(60)
      <3>2. \A x : Becomes(r, x) => Own(r)' = x
        BY <1>1, Leads, Zenon
      <3> QED
        BY <1>6, <3>1, <3>2, Zenon
    <2>4. Own(r)' # None /\ Own(r)'[1] = new
      BY <2>3, SomeIs, Zenon
    <2>5. InSync(Own(r)', spec(r), pass'[r].id)
      BY <1>2, <2>2, <2>3, <2>4, ZenonT(30) DEF InSync
    <2> QED
      BY <1>4, <2>3, <2>5, Zenon DEF Kept, Knows
  <1>7. CASE Transport(r, FALSE) \/ Report(r, "BrokerError", pass[r].id)
    <2>1. Dull(r)
      BY <1>1, <1>7, Leads, ZenonT(30)
    <2> QED
      BY <1>4, <2>1, DullKept, ZenonT(30)
  <1> QED
    BY <1>5, <1>6, <1>7, ZenonT(30)

LEMMA TalksClaim ==
  ASSUME Types, Types', Passes, NEW r \in Res, Claim(r), Talks(r)
  PROVE  Claim(r)'
  <1>1. Calls(r) /\ pc[r] # "idle" /\ Goes(r)
    BY BrokerShape, ZenonT(30) DEF Talks
  <1>2. UNCHANGED <<scenario, edit, phase, status>>
    BY <1>1, Zenon DEF Calls, Stay, resVars
  <1>3. spec(r)' = spec(r) /\ (Alone(r)' => Alone(r))
    BY <1>2, SameEdit, Zenon
  <1>4. pass[r] \in Pass /\ pass[r].gen \in 1..edit[r] /\ edit[r] \in Nat /\ status[r].observed \in Nat
    BY <1>1, ZenonT(30) DEF Types, InFlight, Status
  <1>5. pc'[r] # "idle" => pass'[r].gen = pass[r].gen
    <2>1. pc \in [Res -> Label] /\ pass \in [Res -> {NoPass} \cup Pass]
      BY Zenon DEF Types, InFlight
    <2>2. CASE EndPass(r)
      BY <2>1, <2>2, ZenonT(30) DEF EndPass, Goto
    <2>3. ASSUME NEW x, NEW id, Report(r, x, id) PROVE pass'[r].gen = pass[r].gen
      BY <1>4, <2>1, <2>3, ZenonT(30) DEF Report, Pass
    <2>4. ASSUME NEW p, p.gen = pass[r].gen, pass' = [pass EXCEPT ![r] = p] PROVE pass'[r].gen = pass[r].gen
      BY <2>1, <2>4, Zenon
    <2> QED
      BY <1>1, <2>2, <2>3, <2>4, ZenonT(30) DEF Goes
  <1>6. CASE pass[r].gen # edit[r]
    <2>1. status[r].observed # edit[r]
      <3>1. status[r].observed <= pass[r].gen
        BY <1>1, Zenon DEF Passes, PassOk
      <3> QED
        BY <1>4, <1>6, <3>1, SMTT(30), Z3T(30)
    <2> QED
      BY <1>2, <1>5, <1>6, <2>1, ZenonT(60) DEF Claim
  <1>7. CASE pass[r].gen = edit[r]
    <2> SUFFICES ASSUME phase[r] = "live", Alone(r)
                 PROVE  /\ Knows(pc'[r], pass'[r], Own(r)', spec(r))
                        /\ status[r].ready = "True" /\ status[r].observed = edit[r]
                             => InSync(Own(r)', spec(r), status[r].id)
      BY <1>2, <1>3, ZenonT(30) DEF Claim
    <2>1. /\ Knows(pc[r], pass[r], Own(r), spec(r))
          /\ status[r].ready = "True" /\ status[r].observed = edit[r]
               => InSync(Own(r), spec(r), status[r].id)
      BY <1>1, <1>7, ZenonT(30) DEF Claim
    <2>2. ~delete_topics(r)
      <3>1. pc[r] # "delete"
        BY Zenon DEF Passes, PassOk
      <3> QED
        BY <3>1, ZenonT(30) DEF delete_topics
    <2>3. Kept(r)
      BY <1>7, <2>1, <2>2, MetadataKept, CreateKept, PartitionsKept, FactorKept, DescribeKept, AlterKept, ZenonT(30)
         DEF Talks
    <2> QED
      BY <2>1, <2>3, ZenonT(30) DEF Kept
  <1> QED
    BY <1>6, <1>7, Zenon

-----------------------------------------------------------------------------
(* What a deletion leaves behind *)

\* The steps of the pass itself.
LEMMA OwnRemoval ==
  ASSUME Types, Types', Next, Passes, Working, NEW r \in Res, Removal(r), Start(r) \/ Quiet(r) \/ Talks(r)
  PROVE  Removal(r)'
  <1> USE DEF Stay, resVars, clientVars
  <1> SUFFICES ASSUME Undisturbed', pc'[r] = "unfinalize", ~pass'[r].s.preserve, Alone(r)'
               PROVE  Own(r)' = None
    BY ZenonT(30) DEF Removal
  <1>1. Undisturbed
    BY Counted, Zenon
  <1>2. UNCHANGED <<scenario, edit>>
    BY Footprint, ZenonT(30)
  <1>3. spec(r)' = spec(r) /\ Alone(r)
    BY <1>2, SameEdit, ZenonT(30)
  <1>4. CASE Start(r)
    <2>1. pass'[r].s = spec(r)
      BY <1>4, ZenonT(30) DEF Start, Types, InFlight
    <2>2. spec(r).preserve
      <3>1. pc' = [pc EXCEPT ![r] = CASE refusal(spec(r)) # "none" -> "report"
                                      [] refusal(spec(r)) = "none" /\ phase[r] = "deleting" ->
                                           IF spec(r).preserve THEN "unfinalize" ELSE "secret"
                                      [] OTHER -> IF fin[r] THEN "secret" ELSE "finalizer"]
        BY <1>4, Zenon DEF Start, Goto
      <3> QED
        BY <3>1, Zenon DEF Types, InFlight
    <2> QED
      BY <2>1, <2>2, ZenonT(30)
  <1>5. CASE Quiet(r)
    <2>1. PICK l \in {"idle", "lookup", "lock", "connect", "unfinalize", "delete", "metadata"} : Goto(r, l)
      BY <1>5, ZenonT(30) DEF Quiet, EndPass, add_finalizer, remove_finalizer, patch_status, ReadIdentity, Lookup, Connect,
                  LockClient, drop_admin_client, Abort
    <2>2. pc'[r] = l
      BY <2>1, ZenonT(30) DEF Goto, Types, InFlight
    <2>3. ~Happens("connect")
      BY Disturbs, Zenon
    <2>4. ~EndPass(r) /\ ~Goto(r, "lookup") /\ ~Goto(r, "lock") /\ ~Goto(r, "connect")
          /\ ~Goto(r, "delete") /\ ~Goto(r, "metadata")
      BY ZenonT(60) DEF EndPass, Goto, Types, InFlight
    <2> QED
      BY <1>5, <2>3, <2>4, ZenonT(30) DEF Quiet, add_finalizer, remove_finalizer, patch_status, ReadIdentity, Lookup, Connect,
                              LockClient, drop_admin_client, Abort
  <1>6. CASE Talks(r)
    <2>1. Goes(r) /\ pc[r] # "idle"
      BY <1>6, BrokerShape, ZenonT(30) DEF Talks
    <2>2. pc[r] = "delete"
      BY <2>1, ZenonT(60) DEF Goes, EndPass, Report, Goto, Onward, Holding, Talking, Types, InFlight
    <2>3. delete_topics(r)
      BY <1>6, <2>2, Zenon DEF Talks, metadata, create_topics, create_partitions, reconcile_replication_factor,
                        describe_configs, alter_configs
    <2>4. Works(r) /\ pass[r].deleting
      BY <1>1, <2>2, ZenonT(30) DEF Working, Works, Passes, PassOk
    <2>5. ~Happens("refuse") /\ ~Happens("lost")
      BY Disturbs, ZenonT(60)
    <2>6. Becomes(r, None)
      BY <2>3, <2>4, <2>5, Zenon DEF delete_topics
    <2>7. pass[r].gen = edit[r]
      BY <2>1, <2>4, Zenon DEF Passes, PassOk
    <2> QED
      BY <1>2, <2>1, <2>6, <2>7, Leads, ZenonT(30)
  <1> QED
    BY <1>4, <1>5, <1>6, ZenonT(30)

\* Of the calls of the broker only delete_topics removes a topic.
LEMMA OnlyDeletes ==
  ASSUME NEW r \in Res, Talks(r), ~delete_topics(r)
  PROVE  UNCHANGED topics \/ \E x : Becomes(r, Some(x))
  <1>1. CASE metadata(r) \/ describe_configs(r)
    BY <1>1, Zenon DEF metadata, describe_configs
  <1>2. CASE create_topics(r)
    BY <1>2, Zenon DEF create_topics, Call
  <1>3. CASE create_partitions(r)
    BY <1>3, Zenon DEF create_partitions, Call
  <1>4. CASE reconcile_replication_factor(r)
    BY <1>4, Zenon DEF reconcile_replication_factor, Call
  <1>5. CASE alter_configs(r)
    BY <1>5, ZenonT(30) DEF alter_configs, Call
  <1> QED
    BY <1>1, <1>2, <1>3, <1>4, <1>5, ZenonT(60) DEF Talks

\* A pass does not delete the topic of a resource that asks to preserve it, once the
\* resource is being deleted.
LEMMA PreservingPass ==
  ASSUME Types, Passes, NEW r \in Res, Talks(r), spec(r).preserve, pc[r] # "idle",
         pass[r].s.name = spec(r).name, topics[spec(r).name] # None
  PROVE  topics'[spec(r).name] # None
  <1>1. ~delete_topics(r)
    <2>1. ASSUME pc[r] = "delete" PROVE FALSE
      <3>1. pass[r].gen = edit[r] /\ ~pass[r].s.preserve
        BY <2>1, ZenonT(30) DEF Passes, PassOk
      <3>2. pass[r].s = spec(r)
        BY <2>1, <3>1, Zenon DEF Types, InFlight, spec
      <3> QED
        BY <3>1, <3>2, Zenon
    <2> QED
      BY <2>1, ZenonT(30) DEF delete_topics
  <1>2. CASE UNCHANGED topics
    BY <1>2, ZenonT(30)
  <1>3. ASSUME NEW x, Becomes(r, Some(x)) PROVE topics'[spec(r).name] # None
    <2>1. spec(r).name \in Names /\ topics \in [Names -> Opt(Broker)]
      BY SpecTypes, ZenonT(30) DEF Types
    <2>2. topics'[spec(r).name] = Some(x)
      BY <1>3, <2>1, ZenonT(30) DEF Becomes
    <2> QED
      BY <2>2, SMTT(30), Z3T(30) DEF Some, None
  <1> QED
    BY <1>1, <1>2, <1>3, OnlyDeletes, Zenon

\* A resource that is being deleted has no new generation, and no pass brings the topic back.
LEMMA OutsideRemoval ==
  ASSUME Types, Types', Next, Passes, Outside, NEW r \in Res, Removal(r)
  PROVE  Removal(r)'
  <1> USE DEF Stay, Env, resVars
  <1> SUFFICES ASSUME Undisturbed', pc'[r] = "unfinalize", ~pass'[r].s.preserve, Alone(r)'
               PROVE  Own(r)' = None
    BY ZenonT(30) DEF Removal
  <1>1. Undisturbed
    BY Counted, ZenonT(60)
  <1>2. UNCHANGED <<pc, pass>>
    BY Zenon DEF Outside, Edit, Delete, Reassigned, Break, RenewIdentity, Outage
  <1>3. phase[r] = "deleting"
    BY <1>2, Zenon DEF Passes, PassOk
  <1>4. edit'[r] = edit[r]
    BY <1>3, ZenonT(30) DEF Outside, Edit, Delete, Reassigned, Break, RenewIdentity, Outage, Types
  <1>5. Alone(r) /\ (Own(r)' = Own(r) \/ Own(r) # None)
    BY <1>4, OutsideOwn, Zenon
  <1>6. Own(r) = None
    BY <1>1, <1>2, <1>5, Zenon DEF Removal
  <1> QED
    BY <1>5, <1>6, ZenonT(30)

-----------------------------------------------------------------------------
(* The invariant *)

LEMMA InitInv == Init => Inv
  <1> SUFFICES ASSUME Init PROVE Inv
    BY Zenon
  <1>1. Types
    BY InitTypes, ZenonT(30)
  <1>2. Locks
    BY ZenonT(30) DEF Init, Locks, Some, None
  <1>3. \A r \in Res : pc[r] = "idle" /\ status[r].observed = 0 /\ status[r].ready = "none" /\ edit[r] = 1
    BY ZenonT(30) DEF Init
  <1>4. Passes
    BY <1>3, SMTT(30), Z3T(30) DEF Passes, PassOk, Before, Talking
  <1>5. Claims
    BY <1>3, ZenonT(30) DEF Claims, Claim
  <1>6. Working
    BY <1>3, ZenonT(60) DEF Init, Working
  <1>7. Removed
    BY <1>3, Zenon DEF Removed, Removal
  <1> QED
    BY <1>1, <1>2, <1>4, <1>5, <1>6, <1>7, ZenonT(60) DEF Inv

LEMMA StepInv == Inv /\ [Next]_vars => Inv'
  <1> SUFFICES ASSUME Inv, Next PROVE Inv'
    BY StutterInv, Zenon
  <1>1. Types /\ Locks /\ Passes /\ Working
    BY Zenon DEF Inv
  <1>2. Types' /\ Locks' /\ Passes'
    BY <1>1, StepTypes, StepLocks, StepPasses, Zenon
  <1>3. Working'
    BY <1>1, <1>2, StepWorking, Zenon
  <1>4. ASSUME NEW r \in Res PROVE Claim(r)' /\ Removal(r)'
    <2>1. Claim(r) /\ Removal(r)
      BY Zenon DEF Inv, Claims, Removed
    <2>2. CASE Outside
      BY <1>1, <1>2, <2>1, <2>2, OutsideClaim, OutsideRemoval, ZenonT(30)
    <2>3. ASSUME NEW o \in Res, o # r, Start(o) \/ Quiet(o) \/ Talks(o) PROVE Claim(r)' /\ Removal(r)'
      BY <1>1, <1>2, <2>1, <2>3, OthersClaim, ZenonT(60)
    <2>4. CASE Start(r) \/ Quiet(r) \/ Talks(r)
      <3>1. Claim(r)'
        BY <1>1, <1>2, <2>1, <2>4, StartClaim, QuietClaim, TalksClaim, ZenonT(30)
      <3>2. Removal(r)'
        BY <1>1, <1>2, <2>1, <2>4, OwnRemoval, Zenon
      <3> QED
        BY <3>1, <3>2, Zenon
    <2> QED
      BY <2>2, <2>3, <2>4, Steps, Zenon
  <1> QED
    BY <1>2, <1>3, <1>4, Zenon DEF Inv, Claims, Removed

\* The inductive invariant: types, who holds which lock, what a pass of topic.rs knows,
\* and what it has claimed, done and removed so far.
THEOREM Invariant == Spec => []Inv
  BY InitInv, StepInv, PTL DEF Spec

\* However the passes of any number of resources interleave, with clients that die and
\* identities that are renewed, the cache of admin_client_for holds one client, a client
\* has one user, and the two locks are taken in one order.
THEOREM OneClientOnly == Spec => []OneClient
  <1>1. Inv => OneClient
    <2> SUFFICES ASSUME Inv PROVE OneClient
      BY Zenon
    <2>1. Locks
      BY Zenon DEF Inv
    <2>2. \A r \in Res : pc[r] \in {"secret", "lookup", "connect", "lock"} => \A h \in holder : h[1] # r
      BY <2>1, Zenon DEF Locks, Holding, Talking
    <2> QED
      BY <2>1, <2>2, Zenon DEF Locks, OneClient
  <1> QED
    BY <1>1, Invariant, PTL

\* Whatever is refused, lost or cut short on the way, a status that says Ready for the
\* current generation is true of the topic, while nobody else names it (patch_status
\* after the calls of reconcile_topic).
THEOREM ReadyIsInSync == Spec => []ReadyMeansInSync
  <1>1. Inv => ReadyMeansInSync
    <2> SUFFICES ASSUME Inv, NEW r \in Res, phase[r] = "live", status[r].ready = "True",
                        status[r].observed = edit[r], Alone(r)
                 PROVE  /\ Own(r) # None /\ status[r].id = Some(Own(r)[1].id)
                        /\ Own(r)[1].parts = spec(r).parts /\ Own(r)[1].rf = spec(r).rf
                        /\ Own(r)[1].cfg = spec(r).cfg
      BY Zenon DEF ReadyMeansInSync, Own
    <2>1. Claim(r)
      BY Zenon DEF Inv, Claims
    <2> QED
      BY <2>1, ZenonT(30) DEF Claim, InSync
  <1> QED
    BY <1>1, Invariant, PTL

\* The finalizer of a topic that is not preserved is removed only when the topic is gone,
\* while no call has failed, and no pass deletes the topic of a resource that is deleted
\* and asks to preserve it (prepare_topic and its deletion path).
THEOREM PreserveHonoured == Spec => DeleteHonoursPreserve
  <1>1. Inv /\ Inv' /\ [Next]_vars => [HonoursPreserve]_vars
    <2> SUFFICES ASSUME Inv, Inv', Next, NEW r \in Res, phase[r] = "deleting", Alone(r)
                 PROVE  /\ phase'[r] = "gone" /\ Undisturbed /\ ~spec(r).preserve => Own(r) = None
                        /\ spec(r).preserve /\ Own(r) # None => topics'[spec(r).name] # None
      BY Zenon DEF HonoursPreserve, Own
    <2> USE DEF Stay, resVars, Env
    <2>0. Types /\ Types' /\ Passes /\ Removed /\ spec(r).name \in Names
      BY SpecTypes, ZenonT(30) DEF Inv
    <2>1. ASSUME phase'[r] = "gone", Undisturbed, ~spec(r).preserve PROVE Own(r) = None
      <3>1. remove_finalizer(r)
        <4>1. ~Outside
          BY <2>0, <2>1, Zenon DEF Outside, Edit, Delete, Reassigned, Break, RenewIdentity, Outage, Types
        <4>2. PICK o \in Res : Start(o) \/ Quiet(o) \/ Talks(o)
          BY <4>1, Steps, Zenon
        <4>3. o = r
          BY <2>0, <2>1, <4>2, Footprint, Zenon
        <4>4. ~Start(r) /\ ~Talks(r)
          <5>1. Talks(r) => Calls(r)
            BY <2>0, BrokerShape, Zenon DEF Talks
          <5> QED
            BY <2>1, <5>1, Zenon DEF Start, Calls
        <4> QED
          BY <2>1, <4>2, <4>3, <4>4, ZenonT(30)
             DEF Quiet, add_finalizer, patch_status, ReadIdentity, Lookup, Connect, LockClient,
                 drop_admin_client, Abort
      <3>2. pc[r] = "unfinalize"
        BY <3>1, Zenon DEF remove_finalizer
      <3>3. pass[r].gen = edit[r]
        BY <2>0, <3>2, ZenonT(30) DEF Passes, PassOk
      <3>4. pass[r].s = spec(r)
        BY <2>0, <3>2, <3>3, ZenonT(60) DEF Types, InFlight, spec
      <3> QED
        BY <2>0, <2>1, <3>2, <3>4, ZenonT(60) DEF Removed, Removal
    <2>2. ASSUME spec(r).preserve, Own(r) # None PROVE topics'[spec(r).name] # None
      <3>1. CASE Outside
        <4>1. edit'[r] = edit[r]
          BY <2>0, <3>1, ZenonT(30) DEF Outside, Edit, Delete, Reassigned, Break, RenewIdentity, Outage, Types
        <4>2. spec(r)' = spec(r) /\ Own(r)' # None
          BY <2>0, <2>2, <3>1, <4>1, OutsideOwn, SMTT(30), Z3T(30) DEF Some, None
        <4> QED
          BY <4>2, Zenon DEF Own
      <3>2. ASSUME NEW o \in Res, Start(o) \/ Quiet(o) \/ Talks(o) PROVE topics'[spec(r).name] # None
        <4>1. CASE topics'[spec(r).name] = topics[spec(r).name]
          BY <2>2, <4>1, ZenonT(60) DEF Own
        <4>2. CASE topics'[spec(r).name] # topics[spec(r).name]
          <5>1. pc[o] # "idle" /\ spec(r).name = pass[o].s.name
            BY <2>0, <3>2, <4>2, Footprint, ZenonT(30)
          <5>2. o = r
            BY <2>0, <5>1, Elsewhere, ZenonT(60)
          <5>3. Talks(r)
            BY <3>2, <4>2, <5>2, Zenon DEF Start, Quiet, add_finalizer, remove_finalizer, patch_status, ReadIdentity,
                                    Lookup, Connect, LockClient, drop_admin_client, Abort
          <5> QED
            BY <2>0, <2>2, <5>1, <5>2, <5>3, PreservingPass, Zenon DEF Own
        <4> QED
          BY <4>1, <4>2, Zenon
      <3> QED
        BY <3>1, <3>2, Steps, ZenonT(30)
    <2> QED
      BY <2>1, <2>2, ZenonT(60)
  <1> QED
    BY <1>1, Invariant, PTL DEF Spec, DeleteHonoursPreserve
=============================================================================
