------------------------------ MODULE KafkaTopics ------------------------------
(***************************************************************************)
(* The reconcile passes of KafkaTopics of one cluster (topic.rs) over the  *)
(* cache of admin clients that all controllers share (context.rs).         *)
(*                                                                         *)
(* Passes of different resources run concurrently.  They take two locks:   *)
(* that of the cache, which is held while a client connects, and that of   *)
(* the client, which is held for the rest of a pass.  The broker's topics  *)
(* are external.  An optional value is a sequence of length at most one.   *)
(***************************************************************************)
EXTENDS Integers, Sequences, FiniteSets

CONSTANTS
  Res,         \* the KafkaTopic resources
  Scenarios    \* the specs of each, and what goes wrong

\* What may happen: the broker refuses a call, an answer is lost, the connection of a
\* client dies, a client cannot connect, a call of the API server fails, Kafka is not
\* Ready, the operator's identity is renewed.
Event == {"refuse", "lost", "break", "connect", "abort", "down", "renew"}

\* Settings are pairs of a key and a value, one for each key.
Setting == STRING \X Nat
Config == {c \in SUBSET Setting : \A x, y \in c : x[1] = y[1] => x = y}
TopicSpec == [name : STRING, parts : Nat, rf : Nat, cfg : Config, preserve : BOOLEAN,
              flaw : {"none", "label", "name"}]

ASSUME TopicAssumption ==
  \A c \in Scenarios : /\ \A r \in Res : /\ c.edits[r] \in Seq(TopicSpec) /\ c.edits[r] # <<>>
                                         /\ c.deletes[r] \in BOOLEAN
                       /\ c.max \in [Event -> Nat]

VARIABLES
  scenario, events,
  edit, phase, fin, status,  \* of each resource: generation, life, finalizer, status
  topics,    \* the broker's topics
  nextId,    \* the next topic id or client
  identity,  \* the version of the operator's identity Secret
  up,        \* whether Kafka is Ready
  clients,   \* the cached clients of the endpoint
  alive,     \* the clients whose connection works
  mapLock,   \* the resource whose pass holds the lock of the cache
  holder,    \* the resource whose pass holds the lock of a client, with the client
  pc, pass

resVars == <<edit, phase, fin, status>>
clientVars == <<clients, alive, mapLock, holder>>
vars == <<scenario, events, resVars, topics, nextId, identity, up, clientVars, pc, pass>>

None == <<>>
Some(x) == <<x>>
spec(r) == scenario.edits[r][edit[r]]
Happens(e) == events[e] < scenario.max[e] /\ events' = [events EXCEPT ![e] = @ + 1]

diff_configs(current, desired) ==
  [set |-> desired \ current,
   del |-> {c \in current : \A d \in desired : d[1] # c[1]}]

incremental_alter_configs(current, d) ==
  {c \in current \ d.del : \A s \in d.set : s[1] # c[1]} \cup d.set

NoPass == [gen |-> 0]
Names == UNION {{scenario.edits[r][i].name : i \in DOMAIN scenario.edits[r]} : r \in Res}

Init ==
  /\ scenario \in Scenarios
  /\ events = [e \in Event |-> 0]
  /\ edit = [r \in Res |-> 1] /\ phase = [r \in Res |-> "live"] /\ fin = [r \in Res |-> FALSE]
  /\ status = [r \in Res |-> [ready |-> "none", reason |-> "none", observed |-> 0, id |-> None]]
  /\ topics = [n \in Names |-> None]
  /\ nextId = 1 /\ identity = 1 /\ up = TRUE
  /\ clients = {} /\ alive = {} /\ mapLock = None /\ holder = {}
  /\ pc = [r \in Res |-> "idle"] /\ pass = [r \in Res |-> NoPass]

Goto(r, l) == pc' = [pc EXCEPT ![r] = l]
Stay == UNCHANGED <<scenario, identity, up>>
Topic(r) == topics[pass[r].s.name]
Becomes(r, t) == topics' = [topics EXCEPT ![pass[r].s.name] = t]

\* The end of a pass releases the client.
EndPass(r) ==
  /\ Goto(r, "idle") /\ pass' = [pass EXCEPT ![r] = NoPass]
  /\ holder' = {h \in holder : h[1] # r}

Report(r, reason, id) ==
  /\ Goto(r, "report")
  /\ pass' = [pass EXCEPT ![r].reason = reason, ![r].id = id]

-----------------------------------------------------------------------------
(* prepare_topic *)

refusal(s) ==
  CASE s.flaw = "label" -> "MissingClusterLabel" [] s.flaw = "name" -> "InvalidTopicName"
    [] OTHER -> IF up THEN "none" ELSE "ClusterNotReady"

\* Mutant: a preserved topic is deleted.
Start_Deletes(r) ==
  /\ pc[r] = "idle" /\ phase[r] # "gone"
  /\ pass' = [pass EXCEPT ![r] = [gen |-> edit[r], s |-> spec(r), deleting |-> phase[r] = "deleting",
                                  observed |-> status[r].observed, reason |-> refusal(spec(r)),
                                  id |-> None, version |-> 0, client |-> 0,
                                  diff |-> diff_configs({}, {})]]
  /\ Goto(r, IF refusal(spec(r)) # "none" THEN "report"
             ELSE IF phase[r] = "deleting" \/ fin[r] THEN "secret" ELSE "finalizer")
  /\ Stay /\ UNCHANGED <<events, resVars, topics, nextId, clientVars>>

\* The snapshot, and the checks of prepare_topic, which a deletion passes too.
Start(r) ==
  /\ pc[r] = "idle" /\ phase[r] # "gone"
  /\ pass' = [pass EXCEPT ![r] = [gen |-> edit[r], s |-> spec(r), deleting |-> phase[r] = "deleting",
                                  observed |-> status[r].observed, reason |-> refusal(spec(r)),
                                  id |-> None, version |-> 0, client |-> 0,
                                  diff |-> diff_configs({}, {})]]
  /\ Goto(r, CASE refusal(spec(r)) # "none" -> "report"
               [] refusal(spec(r)) = "none" /\ phase[r] = "deleting" ->
                    IF spec(r).preserve THEN "unfinalize" ELSE "secret"
               [] OTHER -> IF fin[r] THEN "secret" ELSE "finalizer")
  /\ Stay /\ UNCHANGED <<events, resVars, topics, nextId, clientVars>>

add_finalizer(r) ==
  /\ pc[r] = "finalizer" /\ EndPass(r)
  /\ fin' = [fin EXCEPT ![r] = phase[r] # "gone"]
  /\ Stay /\ UNCHANGED <<events, edit, phase, status, topics, nextId, clients, alive, mapLock>>

remove_finalizer(r) ==
  /\ pc[r] = "unfinalize" /\ EndPass(r)
  /\ fin' = [fin EXCEPT ![r] = FALSE] /\ phase' = [phase EXCEPT ![r] = "gone"]
  /\ Stay /\ UNCHANGED <<events, edit, status, topics, nextId, clients, alive, mapLock>>

\* patch_status: only Ready advances the observed generation.
patch_status(r) ==
  /\ pc[r] = "report" /\ EndPass(r)
  /\ LET ok == pass[r].reason = "Ready"
     IN  status' = [status EXCEPT ![r] =
           [ready |-> IF ok THEN "True" ELSE "False", reason |-> pass[r].reason, id |-> pass[r].id,
            observed |-> IF ok THEN pass[r].gen ELSE pass[r].observed]]
  /\ Stay /\ UNCHANGED <<events, edit, phase, fin, topics, nextId, clients, alive, mapLock>>

-----------------------------------------------------------------------------
(* admin_client_for and drop_admin_client *)

\* The identity is read before the lock of the cache is taken.
ReadIdentity(r) ==
  /\ pc[r] = "secret" /\ Goto(r, "lookup")
  /\ pass' = [pass EXCEPT ![r].version = identity]
  /\ Stay /\ UNCHANGED <<events, resVars, topics, nextId, clientVars>>

Lookup(r) ==
  /\ pc[r] = "lookup" /\ mapLock = None
  /\ LET hit == {c \in clients : c.version = pass[r].version}
     IN  \/ \E c \in hit : /\ pass' = [pass EXCEPT ![r].client = c.id] /\ Goto(r, "lock")
                           /\ UNCHANGED mapLock
         \/ hit = {} /\ mapLock' = Some(r) /\ Goto(r, "connect") /\ UNCHANGED pass
  /\ Stay /\ UNCHANGED <<events, resVars, topics, nextId, clients, alive, holder>>

\* Mutant: clients of an older identity stay in the cache.
Connect_KeepsOld(r) ==
  /\ pc[r] = "connect" /\ mapLock' = None
  /\ clients' = clients \cup {[version |-> pass[r].version, id |-> nextId]}
  /\ alive' = alive \cup {nextId} /\ nextId' = nextId + 1
  /\ pass' = [pass EXCEPT ![r].client = nextId] /\ Goto(r, "lock")
  /\ Stay /\ UNCHANGED <<events, resVars, topics, holder>>

\* A new client replaces those of the endpoint.  Without one a deletion goes on.
Connect(r) ==
  /\ pc[r] = "connect" /\ mapLock' = None
  /\ \/ /\ clients' = {[version |-> pass[r].version, id |-> nextId]}
        /\ alive' = alive \cup {nextId} /\ nextId' = nextId + 1
        /\ pass' = [pass EXCEPT ![r].client = nextId] /\ Goto(r, "lock")
        /\ UNCHANGED <<events, holder>>
     \/ /\ Happens("connect") /\ UNCHANGED <<clients, alive, nextId>>
        /\ IF pass[r].deleting THEN Goto(r, "unfinalize") /\ UNCHANGED <<pass, holder>>
           ELSE EndPass(r)
  /\ Stay /\ UNCHANGED <<resVars, topics>>

LockClient(r) ==
  /\ pc[r] = "lock" /\ \A h \in holder : h[2] # pass[r].client
  /\ holder' = holder \cup {<<r, pass[r].client>>}
  /\ Goto(r, IF pass[r].deleting THEN "delete" ELSE "metadata")
  /\ Stay /\ UNCHANGED <<events, resVars, topics, nextId, clients, alive, mapLock, pass>>

\* Mutant: a client that failed stays in the cache.
drop_admin_client_Never(r) ==
  /\ pc[r] = "drop" /\ mapLock = None /\ EndPass(r)
  /\ Stay /\ UNCHANGED <<events, resVars, topics, nextId, clients, alive, mapLock>>

\* After a transport error.  Clients that others connected since are dropped as well.
drop_admin_client(r) ==
  /\ pc[r] = "drop" /\ mapLock = None /\ EndPass(r)
  /\ clients' = {}
  /\ Stay /\ UNCHANGED <<events, resVars, topics, nextId, alive, mapLock>>

-----------------------------------------------------------------------------
(* The calls of the broker *)

\* A call over a dead connection fails; over a live one its answer may be lost.  The
\* lock of the client is kept until the client is dropped where the code keeps it.
Transport(r, keeps) ==
  /\ Goto(r, "drop") /\ UNCHANGED pass
  /\ holder' = IF keeps THEN holder ELSE {h \in holder : h[1] # r}

Works(r) == pass[r].client \in alive

Call(r, keeps, effect, ok, refused) ==
  \/ Works(r) /\ effect /\ ok /\ UNCHANGED <<events, holder>>
  \/ Works(r) /\ Happens("lost") /\ effect /\ Transport(r, keeps)
  \/ Works(r) /\ Happens("refuse") /\ UNCHANGED <<topics, nextId>> /\ refused /\ UNCHANGED holder
  \/ ~Works(r) /\ UNCHANGED <<topics, nextId, events>> /\ Transport(r, keeps)

Calls(r) == Stay /\ UNCHANGED <<resVars, clients, alive, mapLock>>

\* The finalizer's call is best effort.
delete_topics(r) ==
  /\ pc[r] = "delete" /\ Goto(r, "unfinalize") /\ UNCHANGED <<pass, holder, nextId>>
  /\ \/ /\ Works(r) /\ Becomes(r, None)
        /\ UNCHANGED events \/ Happens("lost")
     \/ Works(r) /\ Happens("refuse") /\ UNCHANGED topics
     \/ ~Works(r) /\ UNCHANGED <<topics, events>>
  /\ Calls(r)

\* A failed description gives no reason: the pass ends, or drops the client.
metadata(r) ==
  /\ pc[r] = "metadata" /\ UNCHANGED <<topics, nextId>>
  /\ \/ /\ Works(r) /\ UNCHANGED <<events, holder>>
        /\ IF Topic(r) = None THEN Goto(r, "create") /\ UNCHANGED pass
           ELSE LET cur == Topic(r)[1]
                IN  IF cur.parts > pass[r].s.parts
                    THEN Report(r, "ImmutableFieldChanged", Some(cur.id))
                    ELSE /\ pass' = [pass EXCEPT ![r].id = Some(cur.id)]
                         /\ Goto(r, IF cur.parts < pass[r].s.parts THEN "partitions" ELSE "factor")
     \/ Works(r) /\ Happens("refuse") /\ EndPass(r)
     \/ ~Works(r) /\ UNCHANGED events /\ Transport(r, FALSE)
  /\ Calls(r)

\* The broker refuses to create a topic that exists.
create_topics(r) ==
  /\ pc[r] = "create"
  /\ LET s == pass[r].s
         new == [id |-> nextId, parts |-> s.parts, rf |-> s.rf, target |-> s.rf, cfg |-> s.cfg]
     IN  IF Topic(r) # None /\ Works(r)
         THEN UNCHANGED <<topics, nextId, events, holder>> /\ Report(r, "BrokerError", None)
         ELSE Call(r, TRUE,
                   Becomes(r, Some(new)) /\ nextId' = nextId + 1,
                   Report(r, "Ready", Some(nextId)), Report(r, "BrokerError", None))
  /\ Calls(r)

\* A count that is no increase, or a topic that is gone, is refused.
create_partitions(r) ==
  /\ pc[r] = "partitions"
  /\ IF Works(r) /\ (Topic(r) = None \/ (Topic(r) # None /\ Topic(r)[1].parts >= pass[r].s.parts))
     THEN UNCHANGED <<topics, nextId, events, holder>> /\ Report(r, "BrokerError", pass[r].id)
     ELSE Call(r, FALSE,
               /\ Becomes(r, Some([Topic(r)[1] EXCEPT !.parts = pass[r].s.parts]))
               /\ UNCHANGED nextId,
               Goto(r, "factor") /\ UNCHANGED pass, Report(r, "BrokerError", pass[r].id))
  /\ Calls(r)

\* Mutant: a reassignment that was submitted counts as done.
reconcile_replication_factor_Submitted(r) ==
  /\ pc[r] = "factor"
  /\ IF Works(r) /\ Topic(r) = None
     THEN UNCHANGED <<topics, nextId, events, holder>> /\ Report(r, "BrokerError", pass[r].id)
     ELSE Call(r, TRUE,
               /\ Becomes(r, Some([Topic(r)[1] EXCEPT !.target = pass[r].s.rf]))
               /\ UNCHANGED nextId,
               Goto(r, "configs") /\ UNCHANGED pass, Report(r, "BrokerError", pass[r].id))
  /\ Calls(r)

\* In sync, in progress, or submitted now: only the first lets the pass go on.
reconcile_replication_factor(r) ==
  /\ pc[r] = "factor"
  /\ IF Works(r) /\ Topic(r) = None
     THEN UNCHANGED <<topics, nextId, events, holder>> /\ Report(r, "BrokerError", pass[r].id)
     ELSE LET cur == Topic(r)[1]
              busy == cur.rf # cur.target
          IN  Call(r, TRUE,
                   /\ UNCHANGED nextId
                   /\ IF busy THEN UNCHANGED topics
                      ELSE Becomes(r, Some([cur EXCEPT !.target = pass[r].s.rf])),
                   IF ~busy /\ cur.rf = pass[r].s.rf THEN Goto(r, "configs") /\ UNCHANGED pass
                   ELSE Report(r, "Reassigning", pass[r].id),
                   Report(r, "BrokerError", pass[r].id))
  /\ Calls(r)

\* An error of the description gives no reason.
describe_configs(r) ==
  /\ pc[r] = "configs" /\ UNCHANGED <<topics, nextId>>
  /\ \/ /\ Works(r) /\ Topic(r) # None /\ UNCHANGED <<events, holder>>
        /\ LET d == diff_configs(Topic(r)[1].cfg, pass[r].s.cfg)
           IN  IF d.set \cup d.del = {} THEN Report(r, "Ready", pass[r].id)
               ELSE pass' = [pass EXCEPT ![r].diff = d] /\ Goto(r, "alter")
     \/ Works(r) /\ Topic(r) = None /\ UNCHANGED events /\ EndPass(r)
     \/ Works(r) /\ Happens("refuse") /\ EndPass(r)
     \/ ~Works(r) /\ UNCHANGED events /\ Transport(r, FALSE)
  /\ Calls(r)

alter_configs(r) ==
  /\ pc[r] = "alter"
  /\ IF Works(r) /\ Topic(r) = None
     THEN UNCHANGED <<topics, nextId, events, holder>> /\ Report(r, "BrokerError", pass[r].id)
     ELSE Call(r, FALSE,
               /\ Becomes(r, Some([Topic(r)[1] EXCEPT !.cfg = incremental_alter_configs(@, pass[r].diff)]))
               /\ UNCHANGED nextId,
               Report(r, "Ready", pass[r].id), Report(r, "BrokerError", pass[r].id))
  /\ Calls(r)

-----------------------------------------------------------------------------
(* The environment *)

Env == UNCHANGED <<pc, pass, mapLock, holder>>

Edit(r) ==
  /\ phase[r] = "live" /\ edit[r] < Len(scenario.edits[r])
  /\ edit' = [edit EXCEPT ![r] = @ + 1]
  /\ Stay /\ Env /\ UNCHANGED <<events, phase, fin, status, topics, nextId, clients, alive>>

Delete(r) ==
  /\ scenario.deletes[r] /\ phase[r] = "live"
  /\ phase' = [phase EXCEPT ![r] = IF fin[r] THEN "deleting" ELSE "gone"]
  /\ Stay /\ Env /\ UNCHANGED <<events, edit, fin, status, topics, nextId, clients, alive>>

\* A call of the API server fails: the pass ends and its locks are released.
Abort(r) ==
  /\ pc[r] \in {"finalizer", "unfinalize", "report", "secret"} /\ Happens("abort") /\ EndPass(r)
  /\ Stay /\ UNCHANGED <<resVars, topics, nextId, clients, alive, mapLock>>

\* The brokers restart: all connections die.
Break ==
  /\ alive # {} /\ Happens("break") /\ alive' = {}
  /\ Stay /\ Env /\ UNCHANGED <<resVars, topics, nextId, clients>>

\* ensure_operator_cert_secret renews the identity.
RenewIdentity ==
  /\ Happens("renew") /\ identity' = identity + 1
  /\ Env /\ UNCHANGED <<scenario, up, resVars, topics, nextId, clients, alive>>

Outage ==
  /\ up' = ~up /\ IF up THEN Happens("down") ELSE UNCHANGED events
  /\ Env /\ UNCHANGED <<scenario, identity, resVars, topics, nextId, clients, alive>>

\* The cluster finishes a reassignment.
Reassigned(n) ==
  /\ topics[n] # None /\ topics[n][1].rf # topics[n][1].target
  /\ topics' = [topics EXCEPT ![n] = Some([topics[n][1] EXCEPT !.rf = topics[n][1].target])]
  /\ Stay /\ Env /\ UNCHANGED <<events, resVars, nextId, clients, alive>>

PassStep(r) ==
  \/ add_finalizer(r) \/ remove_finalizer(r) \/ patch_status(r)
  \/ ReadIdentity(r) \/ Lookup(r) \/ Connect(r) \/ LockClient(r) \/ drop_admin_client(r)
  \/ delete_topics(r) \/ metadata(r) \/ create_topics(r) \/ create_partitions(r)
  \/ reconcile_replication_factor(r) \/ describe_configs(r) \/ alter_configs(r)

Next ==
  \/ \E r \in Res : Start(r) \/ PassStep(r) \/ Edit(r) \/ Delete(r) \/ Abort(r)
  \/ \E n \in DOMAIN topics : Reassigned(n)
  \/ Break \/ RenewIdentity \/ Outage

Spec == Init /\ [][Next]_vars

\* A step of a pass is a call that has a deadline, or waits for a lock whose holder goes
\* on; Tokio's locks are fair.  Every pass but the last of a deleted resource asks for
\* another.
FairSpec ==
  /\ Spec
  /\ \A r \in Res : SF_vars(PassStep(r)) /\ []<>(pc[r] # "idle" \/ phase[r] = "gone")
  /\ WF_vars(\E n \in DOMAIN topics : Reassigned(n)) /\ []<>up

-----------------------------------------------------------------------------
(* Properties *)

\* The cache holds one client of an endpoint, whatever identities the passes that fill
\* it have read (admin_client_for), and a client has one user at a time.  Locks are taken
\* in one order: a pass that connects under the lock of the cache, or waits for the lock
\* of a client, holds no client, so that no two passes wait for each other.
OneClient ==
  /\ \A c, d \in clients : c = d
  /\ \A r \in Res : pc[r] \in {"secret", "lookup", "connect", "lock"} =>
                      \A h \in holder : h[1] # r
  /\ \A g, h \in holder : g[2] = h[2] => g = h

\* No other resource names the topic of this one, or did.
Alone(r) == \A o \in Res \ {r} : \A i \in 1..edit[o] : scenario.edits[o][i].name # spec(r).name
Undisturbed == events["lost"] + events["refuse"] + events["break"] + events["connect"] = 0

\* Ready with the current generation means that the topic is the one the spec asks for.
ReadyMeansInSync ==
  \A r \in Res :
    phase[r] = "live" /\ status[r].ready = "True" /\ status[r].observed = edit[r] /\ Alone(r) =>
      LET s == spec(r)
          t == topics[s.name]
      IN  /\ t # None /\ status[r].id = Some(t[1].id)
          /\ t[1].parts = s.parts /\ t[1].rf = s.rf /\ t[1].cfg = s.cfg

\* A deleted resource leaves no topic of its name behind when no call failed, unless it
\* asks to preserve it; then the topic stays.
HonoursPreserve ==
  \A r \in Res :
    /\ phase[r] = "deleting" /\ phase'[r] = "gone" /\ Alone(r) /\ Undisturbed /\ ~spec(r).preserve =>
         topics[spec(r).name] = None
    /\ phase[r] = "deleting" /\ Alone(r) /\ spec(r).preserve /\ topics[spec(r).name] # None =>
         topics'[spec(r).name] # None
DeleteHonoursPreserve == [][HonoursPreserve]_vars

\* In the end every resource is gone, or is Ready with its topic in sync, or its status
\* says what is wrong with it: connections that die and locks that are held delay a pass
\* but never stop it.  A refused resource that is deleted stays.
TopicsSettle ==
  \A r \in Res :
    <>[]( \/ phase[r] = "gone"
          \/ /\ phase[r] = "live" /\ status[r].ready = "True" /\ status[r].observed = edit[r]
          \/ spec(r).flaw # "none" /\ status[r].reason \in {"MissingClusterLabel", "InvalidTopicName"}
          \/ phase[r] = "live" /\ status[r].reason = "ImmutableFieldChanged"
          \/ ~Alone(r))

=============================================================================
