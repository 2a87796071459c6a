---------------------------- MODULE LifecycleProofs ----------------------------
(***************************************************************************)
(* Proofs about the life cycle of agents: types, ids, and that agents,     *)
(* thread objects and handlers end in the right order, for every number of *)
(* agents, names and ids.                                                  *)
(***************************************************************************)
EXTENDS AgentLifecycle, TLAPS

(***************************************************************************)
(* The inductive invariant                                                 *)
(***************************************************************************)
\* Who adds an agent waits for it, and adds one agent at a time ...
CallersWait ==
    /\ \A a \in Agents : pc[a] \in Adding <=> caller[a] # None
    /\ \A a \in Agents : caller[a] # None =>
          IF pc[a] = "destroys" THEN pc[caller[a]] \in {"destroy", "stopped"}
                                ELSE pc[caller[a]] = "calls"
    /\ \A a, b \in Agents : caller[a] # None /\ caller[a] = caller[b] => a = b
\* ... and scripts of agents that are added add agents in turn: above every
\* call there are calls that wait, up to one that was made by a thread.
Chains(above) ==
    \A a \in Agents : caller[a] # None =>
        /\ \A b \in above[a] : pc[b] = "calls" /\ \E c \in above[a] \cup {a} : caller[c] = b
        /\ \E c \in above[a] \cup {a} : caller[c] \in Threads
CallsAreNested == \E above \in [Agents -> SUBSET Agents] : Chains(above)

\* Nothing refers to an agent before Agent::Start.
Untouched(a) ==
    /\ id[a] = None
    /\ \A d \in declared : d[1] # a
    /\ \A i \in Ids : slot[i] # a
    /\ \A h \in HandlersOf(a) : pc[h] = "none"
NothingBeforeStart ==
    \A a \in Agents : pc[a] \in {"new", "enter", "table", "start"} => Untouched(a)
NoHandlersBefore ==
    \A a \in Agents : pc[a] \in {"run", "calls", "sends", "handler"} =>
        id[a] # None /\ \A h \in HandlersOf(a) : pc[h] = "none"
IdsDiffer == \A a, b \in Agents : id[a] # None /\ id[a] = id[b] => a = b

\* One replica at a time is built, and none if there is one.
Builds == {"builds", "publishes", "disposes"}
Builders ==
    /\ \A h \in Handlers : pc[h] \in Builds => guard[h[1]] = h
    /\ \A h \in Handlers : guard[h[1]] = h /\ pc[h] \notin {"destroy", "stopped"} =>
          h[1] \notin replicated /\ pc[h] \in Builds \cup {"sends", "calls"}
    /\ \A a \in Agents : pc[<<a, "replica">>] # "none" =>
          \/ a \in replicated
          \/ \E h \in HandlersOf(a) : guard[a] = h /\ pc[h] \in {"publishes", "disposes"}

PoolPhases ==
    /\ offered => stage = NoStage /\ pc[App] \notin {"destroy", "stopped"}
    /\ ~offered => pc[App] \in {"destroy", "stopped"}
    /\ stage.at = "none" =>
          stage = NoStage /\ \A x \in Actors : pc[x] \notin {"destroy", "destroys"}
    /\ stage.at \in {"replicas", "members", "join"} => stage.agent # None
    /\ stage.at # "none" => Holders = {}
    /\ stage.at = "down" => \A i \in Ids : slot[i] = None
\* After the wait nobody but the application destroys the pool.
AppDestroys ==
    WaitFirst =>
        /\ ~offered => stage.at # "none" /\ \A h \in Handlers : pc[h] # "destroy"
        /\ pc[App] = "stopped" => stage.at = "down"

EnteredStays ==
    ~raced /\ stage.at # "down" =>
        /\ \A a \in Agents : pc[a] \in Adding \ {"enter"} => byName[Name[a]] = a
        /\ \A i \in Ids : slot[i] # None =>
             byName[Name[slot[i]]] = slot[i] /\ id[slot[i]] = i
HandlersHaveThreads ==
    ~raced =>
        /\ \A h \in Handlers : pc[h] # "none" => \E i \in Ids : slot[i] = h[1]
        /\ \A a \in Agents : pc[a] = "handler" => slot[id[a]] = a

OwnInv ==
    /\ TypeOK /\ CallersWait /\ NothingBeforeStart /\ NoHandlersBefore /\ Builders
    /\ PoolPhases
Inv ==
    /\ OwnInv /\ CallsAreNested /\ DeclaredWithOwnId /\ IdsDiffer
    /\ AppDestroys /\ EnteredStays /\ HandlersHaveThreads
    /\ OnlyHoldersOutliveShutdown

(***************************************************************************)
(* Threads, agents and their places                                        *)
(***************************************************************************)
LEMMA ActorFacts ==
  /\ App \in Threads /\ App \in Actors /\ App \notin Handlers /\ App \notin Agents
  /\ None \notin Ids /\ None \notin Actors /\ None \notin Agents /\ None \notin Threads
  /\ \A h \in Handlers : h \in Threads /\ h \in Actors /\ h # App /\ h \notin Agents
                         /\ h[1] \in Agents /\ h \in HandlersOf(h[1])
  /\ \A t \in Threads : t \in Actors /\ t \notin Agents /\ (t = App \/ t \in Handlers)
  /\ \A a \in Agents : /\ a \in Actors /\ a \notin Threads /\ a \notin Handlers /\ a # App
                       /\ <<a, "primary">> \in Handlers /\ <<a, "replica">> \in Handlers
  /\ \A a \in Agents : \A h \in HandlersOf(a) : h \in Handlers /\ h[1] = a
<1>1. /\ None \notin Ids \cup Actors /\ App \notin Handlers /\ Agents \cap Threads = {}
  BY LifecycleAssumption
<1>2. Handlers \subseteq Threads /\ App \in Threads /\ Actors = Threads \cup Agents
  BY DEF Threads, Actors
<1>3. \A h \in Handlers : h[1] \in Agents /\ h \in HandlersOf(h[1])
  BY DEF Handlers, HandlersOf
<1>4. \A a \in Agents : <<a, "primary">> \in Handlers /\ <<a, "replica">> \in Handlers
  BY DEF Handlers
<1>5. \A t \in Threads : t = App \/ t \in Handlers
  BY DEF Threads
<1>6. \A a \in Agents : \A h \in HandlersOf(a) : h \in Handlers /\ h[1] = a
  BY DEF HandlersOf
<1> QED
  BY <1>1, <1>2, <1>3, <1>4, <1>5, <1>6

Stage == [at: {"none", "next", "replicas", "members", "join", "down"},
          agent: Agents \cup {None}]
AppPlaces == {"free", "sends", "calls", "destroy", "stopped"}
HandlerPlaces == {"none", "idle", "script", "waits", "builds", "publishes", "disposes",
                  "after", "sends", "calls", "destroy", "stopped"}
AgentPlaces == {"new", "added", "thrown"} \cup Adding
Fits(x, p) ==
    /\ x = App => p \in AppPlaces
    /\ x \in Handlers => p \in HandlerPlaces
    /\ x \in Agents => p \in AgentPlaces
PcOK == DOMAIN pc = Actors /\ \A x \in Actors : Fits(x, pc[x])

LEMMA PlacesFit ==
  ASSUME DOMAIN pc = Actors
  PROVE  PcOK <=> /\ pc[App] \in AppPlaces
                  /\ \A h \in Handlers : pc[h] \in HandlerPlaces
                  /\ \A a \in Agents : pc[a] \in AgentPlaces
BY ActorFacts DEF PcOK, Fits

LEMMA TypesSplit ==
  TypeOK <=> /\ byName \in [Names -> Agents \cup {None}]
             /\ id \in [Agents -> Ids \cup {None}]
             /\ slot \in [Ids -> Agents \cup {None}]
             /\ declared \subseteq Agents \X (Ids \cup {None})
             /\ PcOK
             /\ caller \in [Agents -> Actors \cup {None}]
             /\ guard \in [Agents -> Threads \cup {None}]
             /\ replicated \subseteq Agents /\ disposed \subseteq Agents
             /\ offered \in BOOLEAN /\ raced \in BOOLEAN
             /\ stage \in Stage /\ torn \subseteq Handlers
BY PlacesFit DEF TypeOK, Stage, AppPlaces, HandlerPlaces, AgentPlaces, PcOK

LEMMA Moves ==
  ASSUME PcOK, NEW x \in Actors, NEW p, pc' = [pc EXCEPT ![x] = p], Fits(x, p)
  PROVE  PcOK'
BY DEF PcOK, Fits

LEMMA MovesTwo ==
  ASSUME PcOK, NEW x \in Actors, NEW p, NEW y \in Actors, NEW q,
         pc' = [pc EXCEPT ![x] = p, ![y] = q], Fits(x, p), Fits(y, q)
  PROVE  PcOK'
<1>1. DOMAIN pc' = Actors
  BY DEF PcOK
<1>2. \A z \in Actors : pc'[z] = pc[z] \/ (z = x /\ pc'[z] = p) \/ (z = y /\ pc'[z] = q)
  BY DEF PcOK
<1>3. \A z \in Actors : Fits(z, pc[z])
  BY DEF PcOK
<1>4. \A z \in Actors : Fits(z, pc'[z])
  BY <1>2, <1>3
<1>5. (\A z \in Actors : Fits(z, pc[z]))' <=> \A z \in Actors : Fits(z, pc'[z])
  BY DEF Fits
<1> QED
  BY <1>1, <1>4, <1>5 DEF PcOK

LEMMA FreeId ==
  ASSUME TypeOK, NEW a \in Agents, id[a] = None
  PROVE  LET i == CHOOSE i \in Ids : \A b \in Agents : id[b] # i
         IN  i \in Ids /\ \A b \in Agents : id[b] # i
<1>1. \E i \in Ids : \A b \in Agents : id[b] # i
  BY IdsSuffice DEF TypeOK
<1> QED
  BY <1>1

LEMMA AddingTypes ==
  ASSUME TypeOK, CallersWait, NEW a \in Agents, pc[a] \in Adding
  PROVE  /\ caller[a] \in Actors /\ caller[a] # None
         /\ pc[a] # "destroys" => pc[caller[a]] = "calls"
         /\ pc[a] \notin {"calls", "destroys"} => caller[a] # a
BY DEF TypeOK, CallersWait

\* The agent whose script called addagent holds the pool: the last holder was
\* called by a handler.
LEMMA LastCaller ==
  ASSUME OwnInv, NEW a \in Agents, DestroyPoolInAdd(a)
  PROVE  caller[a] \in Handlers /\ caller[a] # a /\ pc[caller[a]] = "calls"
<1> USE DEF OwnInv
<1>1. pc[a] \in {"drop", "throw"} /\ ~offered /\ Holders = {a}
  BY DEF DestroyPoolInAdd, LastHolder
<1>2. caller[a] \in Actors /\ pc[caller[a]] = "calls" /\ caller[a] # a
  BY <1>1, AddingTypes DEF Adding, Starting
<1>3. caller[a] \notin Agents
  BY <1>1, <1>2 DEF Holders, Starting
<1>4. caller[a] # App
  BY <1>1, <1>2 DEF PoolPhases
<1> QED
  BY <1>2, <1>3, <1>4 DEF Actors, Threads

LEMMA ResumeFits ==
  ASSUME TypeOK, NEW x \in Actors
  PROVE  /\ Fits(x, Resume(x))
         /\ x = App => Resume(x) = "free"
         /\ x \in Handlers => Resume(x) \in {"builds", "script"}
         /\ x \in Agents => Resume(x) = "run"
BY ActorFacts DEF Resume, Fits, AppPlaces, HandlerPlaces, AgentPlaces, Adding, Starting

(***************************************************************************)
(* Types                                                                   *)
(***************************************************************************)
LEMMA TornTypes ==
  ASSUME torn \subseteq Handlers, NEW g \in Handlers, Tear(g) \/ torn' = torn
  PROVE  torn' \subseteq Handlers
BY DEF Tear

LEMMA TypesKept ==
  ASSUME OwnInv, [Next]_vars
  PROVE  TypeOK'
<1> USE ActorFacts DEF OwnInv, Goto, registry, ids, pool, replicas
<1> DEFINE Others ==
        /\ byName' \in [Names -> Agents \cup {None}]
        /\ id' \in [Agents -> Ids \cup {None}]
        /\ slot' \in [Ids -> Agents \cup {None}]
        /\ declared' \subseteq Agents \X (Ids \cup {None})
        /\ caller' \in [Agents -> Actors \cup {None}]
        /\ guard' \in [Agents -> Threads \cup {None}]
        /\ replicated' \subseteq Agents /\ disposed' \subseteq Agents
        /\ offered' \in BOOLEAN /\ raced' \in BOOLEAN
        /\ stage' \in Stage /\ torn' \subseteq Handlers
<1>a. PcOK /\ TypeOK /\ stage \in Stage
  BY TypesSplit
<1>b. ASSUME PcOK', Others
      PROVE  TypeOK'
  BY <1>b, TypesSplit DEF Stage, TypeOK, PcOK, Fits, AppPlaces, HandlerPlaces, AgentPlaces
<1>1. ASSUME NEW x \in Actors, SendBegins(x) \/ SendEnds(x)
      PROVE  TypeOK'
  <2>1. Fits(x, "sends") /\ Fits(x, Resume(x))
    BY <1>a, ResumeFits DEF Fits, AppPlaces, HandlerPlaces, AgentPlaces, Adding
  <2>2. PcOK'
    BY <1>1, <1>a, <2>1, Moves DEF SendBegins, SendEnds
  <2>3. Others
    BY <1>1, <1>a DEF SendBegins, SendEnds, TypeOK, Stage
  <2> QED
    BY <1>b, <2>2, <2>3
<1>2. ASSUME NEW x \in Actors, NEW a \in Agents, AddChecks(x, a)
      PROVE  TypeOK'
  <2>1. Fits(x, "calls") /\ Fits(a, "enter")
    BY DEF Fits, AppPlaces, HandlerPlaces, AgentPlaces, Adding, Starting
  <2>2. PcOK'
    BY <1>2, <1>a, <2>1, MovesTwo DEF AddChecks
  <2>3. Others
    BY <1>2, <1>a DEF AddChecks, TypeOK, Stage
  <2> QED
    BY <1>b, <2>2, <2>3
<1>3. ASSUME NEW a \in Agents, AddMessage(a)
      PROVE  TypeOK'
  <2>1. PcOK' /\ Others
    BY <1>3, <1>a DEF AddMessage, Declare, TypeOK, Stage, PcOK, Fits
  <2> QED
    BY <1>b, <2>1
<1>4. ASSUME NEW a \in Agents, AddEnters(a)
      PROVE  TypeOK'
  <2>1. Fits(a, "table")
    BY DEF Fits, AgentPlaces, Adding
  <2>2. PcOK'
    BY <1>4, <1>a, <2>1, Moves DEF AddEnters
  <2>3. id' \in [Agents -> Ids \cup {None}]
    BY <1>4, <1>a DEF AddEnters, DeregisterDead, TypeOK
  <2>4. Others
    BY <1>4, <1>a, <2>3, LifecycleAssumption DEF AddEnters, TypeOK, Stage
  <2> QED
    BY <1>b, <2>2, <2>4
<1>5. ASSUME NEW a \in Agents, RegisterTable(a) \/ ScriptFails(a) \/ DropPool(a)
      PROVE  TypeOK'
  <2>1. PICK p \in {"start", "leave", "throw", "declare"} : pc' = [pc EXCEPT ![a] = p]
    BY <1>5 DEF RegisterTable, ScriptFails, DropPool
  <2>2. Fits(a, p)
    BY <2>1 DEF Fits, AgentPlaces, Adding, Starting
  <2>3. PcOK'
    BY <1>a, <2>1, <2>2, Moves
  <2>4. Others
    BY <1>5, <1>a DEF RegisterTable, ScriptFails, DropPool, TypeOK, Stage
  <2> QED
    BY <1>b, <2>3, <2>4
<1>6. ASSUME NEW a \in Agents, Start(a)
      PROVE  TypeOK'
  <2>1. id[a] = None
    BY <1>6 DEF Start, NothingBeforeStart, Untouched
  <2>2. (CHOOSE i \in Ids : \A b \in Agents : id[b] # i) \in Ids
    BY <2>1, FreeId
  <2>3. id' \in [Agents -> Ids \cup {None}]
    BY <1>6, <1>a, <2>2 DEF Start, TypeOK
  <2>4. Fits(a, "run") /\ Fits(a, "declare")
    BY DEF Fits, AgentPlaces, Adding, Starting
  <2>5. PcOK'
    BY <1>6, <1>a, <2>4, Moves DEF Start
  <2>6. Others
    BY <1>6, <1>a, <2>3 DEF Start, TypeOK, Stage
  <2> QED
    BY <1>b, <2>5, <2>6
<1>7. ASSUME NEW a \in Agents, ScriptEnds(a)
      PROVE  TypeOK'
  <2>1. Fits(a, "handler")
    BY DEF Fits, AgentPlaces, Adding, Starting
  <2>2. PcOK'
    BY <1>7, <1>a, <2>1, Moves DEF ScriptEnds
  <2>3. Others
    BY <1>7, <1>a DEF ScriptEnds, TypeOK, Stage
  <2> QED
    BY <1>b, <2>2, <2>3
<1>8. ASSUME NEW a \in Agents, AddHandler(a)
      PROVE  TypeOK'
  <2>1. Fits(a, "drop") /\ Fits(<<a, "primary">>, "idle")
    BY DEF Fits, AgentPlaces, HandlerPlaces, Adding, Starting
  <2>2. PcOK'
    BY <1>8, <1>a, <2>1, MovesTwo DEF AddHandler
  <2>3. Others
    BY <1>8, <1>a DEF AddHandler, TypeOK, Stage
  <2> QED
    BY <1>b, <2>2, <2>3
<1>9. ASSUME NEW a \in Agents, DestroyPoolInAdd(a)
      PROVE  TypeOK'
  <2>1. caller[a] \in Handlers
    BY <1>9, LastCaller
  <2>2. Fits(a, "destroys") /\ Fits(caller[a], "destroy")
    BY <2>1 DEF Fits, AgentPlaces, HandlerPlaces, Adding, Starting
  <2>3. PcOK'
    BY <1>9, <1>a, <2>1, <2>2, MovesTwo DEF DestroyPoolInAdd
  <2>4. Others
    BY <1>9, <1>a DEF DestroyPoolInAdd, TypeOK, Stage
  <2> QED
    BY <1>b, <2>3, <2>4
<1>10. ASSUME NEW a \in Agents, AddReturns(a) \/ AddThrows(a)
       PROVE  TypeOK'
  <2>1. PICK p \in {"added", "thrown"}, r \in {Resume(caller[a]), "throw"} :
          Leave(a, p, r) /\ (r = "throw" => caller[a] \in Agents \/ r = Resume(caller[a]))
    BY <1>10 DEF AddReturns, AddThrows
  <2>2. caller[a] \in Actors
    BY <1>10, AddingTypes DEF AddReturns, AddThrows, Adding
  <2>3. Fits(a, p) /\ Fits(caller[a], r)
    BY <1>a, <2>1, <2>2, ResumeFits DEF Fits, AgentPlaces, Adding, Starting
  <2>4. PcOK'
    BY <1>a, <2>1, <2>2, <2>3, MovesTwo DEF Leave
  <2>5. id' \in [Agents -> Ids \cup {None}]
    BY <1>a, <2>1 DEF Leave, DeregisterDead, TypeOK
  <2>6. Others
    BY <1>a, <2>1, <2>5 DEF Leave, TypeOK, Stage
  <2> QED
    BY <1>b, <2>4, <2>6
<1>11. ASSUME NEW h \in Handlers, NEW p \in HandlerPlaces, pc' = [pc EXCEPT ![h] = p]
       PROVE  PcOK'
  BY <1>11, <1>a, Moves DEF Fits
<1>12. ASSUME NEW h \in Handlers,
              Receive(h) \/ CountDown(h) \/ NoteTime(h) \/ StopHandler(h) \/ EnterGuard(h)
       PROVE  TypeOK'
  <2>1. \E p \in HandlerPlaces : pc' = [pc EXCEPT ![h] = p]
    BY <1>12 DEF Receive, CountDown, NoteTime, StopHandler, EnterGuard, HandlerPlaces
  <2>2. Others
    BY <1>12, <1>a
    DEF Receive, CountDown, NoteTime, StopHandler, EnterGuard, TypeOK, Stage
  <2> QED
    BY <1>b, <1>11, <2>1, <2>2
<1>13. ASSUME NEW h \in Handlers, Emplace(h) \/ ReplicaThrows(h)
       PROVE  TypeOK'
  <2>1. \E p \in HandlerPlaces : pc' = [pc EXCEPT ![h] = p]
    BY <1>13 DEF Emplace, ReplicaThrows, HandlerPlaces
  <2>2. torn' \subseteq Handlers
    <3>1. h[1] \in Agents /\ <<h[1], "replica">> \in Handlers
      OBVIOUS
    <3>2. Tear(<<h[1], "replica">>) \/ torn' = torn
      BY <1>13 DEF Emplace, ReplicaThrows
    <3> QED
      BY <1>a, <3>1, <3>2, TornTypes DEF TypeOK
  <2>3. Others
    BY <1>13, <1>a, <2>2 DEF Emplace, ReplicaThrows, TypeOK, Stage
  <2> QED
    BY <1>b, <1>11, <2>1, <2>3
<1>14. ASSUME NEW h \in Handlers, ReplicaStarts(h)
       PROVE  TypeOK'
  <2>0. h[1] \in Agents /\ h \in Actors
    OBVIOUS
  <2>1. PICK g \in Handlers : g = <<h[1], "replica">>
    BY <2>0
  <2>2. PcOK'
    <3>1. Fits(h, "publishes") /\ Fits(g, "idle") /\ g \in Actors
      BY DEF Fits, HandlerPlaces
    <3>2. pc' = [pc EXCEPT ![h] = "publishes", ![g] = "idle"]
      BY <1>14, <2>1 DEF ReplicaStarts
    <3> QED
      BY <1>a, <2>0, <3>1, <3>2, MovesTwo
  <2>3. Others
    BY <1>14, <1>a DEF ReplicaStarts, TypeOK, Stage
  <2> QED
    BY <1>b, <2>2, <2>3
<1>15. ASSUME NEW t \in Threads, DestroyPoolInSend(t)
       PROVE  TypeOK'
  <2>1. t # App
    BY <1>15 DEF DestroyPoolInSend, LastHolder, PoolPhases
  <2>2. Fits(t, "destroy")
    BY <2>1 DEF Fits, HandlerPlaces
  <2>3. PcOK'
    BY <1>15, <1>a, <2>2, Moves DEF DestroyPoolInSend
  <2>4. Others
    BY <1>15, <1>a DEF DestroyPoolInSend, TypeOK, Stage
  <2> QED
    BY <1>b, <2>3, <2>4
<1>16. CASE ShutdownAgents
  <2>1. \E p \in AppPlaces : pc' = [pc EXCEPT ![App] = p]
    BY <1>16 DEF ShutdownAgents, AppPlaces
  <2>2. PcOK'
    BY <1>a, <2>1, Moves DEF Fits
  <2>3. stage' \in Stage
    BY <1>16, <1>a DEF ShutdownAgents, Stage
  <2>4. Others
    BY <1>16, <1>a, <2>3 DEF ShutdownAgents, TypeOK
  <2> QED
    BY <1>b, <2>2, <2>4
<1>17. ASSUME NEW t \in Threads, DestroyStep(t)
       PROVE  TypeOK'
  <2>1. Fits(t, "stopped")
    BY DEF Fits, AppPlaces, HandlerPlaces
  <2>2. PcOK'
    <3>1. CASE DeleteAgents(t)
      BY <1>a, <2>1, <3>1, Moves DEF DeleteAgents
    <3>2. CASE ~DeleteAgents(t)
      <4>1. pc' = pc
        BY <1>17, <3>2
        DEF DestroyStep, ClearReplicas, ReplicasJoined, DestroyMembers, ThreadJoined
      <4> QED
        BY <1>a, <4>1 DEF PcOK, Fits
    <3> QED
      BY <3>1, <3>2
  <2>3. ASSUME NEW a \in Agents, ClearReplicas(t, a)
        PROVE  Others
    <3>1. stage' \in Stage
      BY <1>a, <2>3 DEF ClearReplicas, Stage
    <3>2. guard' \in [Agents -> Threads \cup {None}] /\ disposed' \subseteq Agents
      BY <1>a, <2>3 DEF ClearReplicas, TypeOK
    <3>3. torn' \subseteq Handlers
      <4>1. Tear(<<a, "replica">>) \/ torn' = torn
        BY <2>3 DEF ClearReplicas
      <4>2. torn \subseteq Handlers /\ <<a, "replica">> \in Handlers
        BY <1>a DEF TypeOK
      <4> QED
        BY <4>1, <4>2, TornTypes
    <3> QED
      BY <1>a, <2>3, <3>1, <3>2, <3>3 DEF ClearReplicas, TypeOK
  <2>4. ASSUME ReplicasJoined(t) \/ ThreadJoined(t)
        PROVE  Others
    <3>1. stage' \in Stage
      BY <1>a, <2>4 DEF ReplicasJoined, ThreadJoined, Stage
    <3> QED
      BY <1>a, <2>4, <3>1 DEF ReplicasJoined, ThreadJoined, TypeOK
  <2>5. ASSUME DestroyMembers(t)
        PROVE  Others
    <3>1. stage' \in Stage
      BY <1>a, <2>5 DEF DestroyMembers, Stage
    <3>2. stage.agent \in Agents
      BY <1>a, <2>5 DEF DestroyMembers, PoolPhases, Stage
    <3>3. disposed' \subseteq Agents
      BY <1>a, <2>5, <3>2 DEF DestroyMembers, TypeOK
    <3>5. torn' \subseteq Handlers
      <4>1. Tear(<<stage.agent, "primary">>)
        BY <2>5 DEF DestroyMembers
      <4>2. torn \subseteq Handlers /\ <<stage.agent, "primary">> \in Handlers
        BY <1>a, <3>2 DEF TypeOK
      <4> QED
        BY <4>1, <4>2, TornTypes
    <3> QED
      BY <1>a, <2>5, <3>1, <3>3, <3>5 DEF DestroyMembers, TypeOK
  <2>6. ASSUME DeleteAgents(t)
        PROVE  Others
    <3>1. id' \in [Agents -> Ids \cup {None}]
      BY <1>a, <2>6 DEF DeleteAgents, DeregisterDead, TypeOK
    <3> QED
      BY <1>a, <2>6, <3>1 DEF DeleteAgents, TypeOK, Stage
  <2>7. Others
    BY <1>17, <2>3, <2>4, <2>5, <2>6 DEF DestroyStep
  <2> QED
    BY <1>b, <2>2, <2>7
<1>18. CASE UNCHANGED vars
  <2>1. PcOK' /\ Others
    BY <1>18, <1>a DEF vars, TypeOK, Stage, PcOK, Fits
  <2> QED
    BY <1>b, <2>1
<1> HIDE DEF Others
<1> QED
  BY <1>1, <1>2, <1>3, <1>4, <1>5, <1>6, <1>7, <1>8, <1>9, <1>10, <1>12, <1>13, <1>14, <1>15,
     <1>16, <1>17, <1>18
  DEF Next, ScriptStep, AddStep, HandlerStep, DestroyStep

(***************************************************************************)
(* What moves a thread or a call: a step of its own, the beginning of a    *)
(* handler, or the end of an agent it has added                            *)
(***************************************************************************)
Begins(h) ==
    \/ \E a \in Agents : AddHandler(a) /\ h = <<a, "primary">>
    \/ \E g \in Handlers : ReplicaStarts(g) /\ h = <<g[1], "replica">>
Ends(a) == DestroyPoolInAdd(a) \/ AddReturns(a) \/ AddThrows(a)

LEMMA BeginsFromNone ==
  ASSUME OwnInv, NEW h \in Handlers, Begins(h)
  PROVE  pc[h] = "none"
<1> USE DEF OwnInv
<1>1. ASSUME NEW a \in Agents, AddHandler(a), h = <<a, "primary">>
      PROVE  pc[h] = "none"
  <2>1. pc[a] = "handler" /\ h \in HandlersOf(a)
    BY <1>1 DEF AddHandler, HandlersOf
  <2> QED
    BY <2>1 DEF NoHandlersBefore
<1>2. ASSUME NEW g \in Handlers, ReplicaStarts(g), h = <<g[1], "replica">>
      PROVE  pc[h] = "none"
  <2>1. g[1] \in Agents /\ pc[g] = "builds" /\ g # None
    BY <1>2, ActorFacts DEF ReplicaStarts
  <2>2. guard[g[1]] = g /\ g[1] \notin replicated
    BY <2>1 DEF Builders, Builds
  <2>3. ASSUME NEW k \in HandlersOf(g[1]), guard[g[1]] = k
        PROVE  pc[k] = "builds"
    BY <2>1, <2>2, <2>3
  <2> QED
    BY <1>2, <2>1, <2>2, <2>3 DEF Builders
<1> QED
  BY <1>1, <1>2 DEF Begins

LEMMA OwnStep ==
  ASSUME OwnInv, [Next]_vars, NEW x \in Actors, pc'[x] # pc[x]
  PROVE  \/ SendBegins(x) \/ SendEnds(x)
         \/ x \in Threads /\ DestroyPoolInSend(x)
         \/ \E a \in Agents : AddChecks(x, a)
         \/ x \in Agents /\ (AddStep(x) \/ \E y \in Actors : AddChecks(y, x))
         \/ \E a \in Agents : caller[a] = x /\ Ends(a)
         \/ x \in Handlers /\ (Receive(x) \/ HandlerStep(x))
         \/ x = App /\ ShutdownAgents
         \/ x \in Threads /\ DeleteAgents(x)
         \/ x \in Handlers /\ Begins(x)
<1> DEFINE Own ==
         \/ SendBegins(x) \/ SendEnds(x)
         \/ x \in Threads /\ DestroyPoolInSend(x)
         \/ \E a \in Agents : AddChecks(x, a)
         \/ x \in Agents /\ (AddStep(x) \/ \E y \in Actors : AddChecks(y, x))
         \/ \E a \in Agents : caller[a] = x /\ Ends(a)
         \/ x \in Handlers /\ (Receive(x) \/ HandlerStep(x))
         \/ x = App /\ ShutdownAgents
         \/ x \in Threads /\ DeleteAgents(x)
         \/ x \in Handlers /\ Begins(x)
<1>0. DOMAIN pc = Actors
  BY DEF OwnInv, TypeOK
<1>a. ASSUME NEW y, NEW p, pc' = [pc EXCEPT ![y] = p]
      PROVE  y = x
  BY <1>0, <1>a
<1>b. ASSUME NEW y, NEW p, NEW z, NEW q, pc' = [pc EXCEPT ![y] = p, ![z] = q]
      PROVE  y = x \/ z = x
  BY <1>0, <1>b
<1>1. ASSUME NEW y \in Actors, SendBegins(y) \/ SendEnds(y)
      PROVE  Own
  BY <1>a, <1>1 DEF SendBegins, SendEnds, Goto
<1>2. ASSUME NEW y \in Actors, NEW a \in Agents, AddChecks(y, a)
      PROVE  Own
  BY <1>b, <1>2 DEF AddChecks
<1>3. ASSUME NEW a \in Agents, AddMessage(a)
      PROVE  FALSE
  BY <1>3 DEF AddMessage, Declare
<1>4. ASSUME NEW a \in Agents,
             \/ AddEnters(a) \/ RegisterTable(a) \/ Start(a) \/ ScriptEnds(a)
             \/ ScriptFails(a) \/ DropPool(a)
      PROVE  Own
  <2>1. a = x
    BY <1>a, <1>4 DEF AddEnters, RegisterTable, Start, ScriptEnds, ScriptFails, DropPool, Goto
  <2> QED
    BY <1>4, <2>1 DEF AddStep
<1>5. ASSUME NEW a \in Agents, AddHandler(a)
      PROVE  Own
  <2>1. a = x \/ <<a, "primary">> = x
    BY <1>b, <1>5 DEF AddHandler
  <2>2. <<a, "primary">> \in Handlers
    BY ActorFacts
  <2>3. AddStep(a)
    BY <1>5 DEF AddStep
  <2>4. <<a, "primary">> = x => Begins(x)
    BY <1>5 DEF Begins
  <2> QED
    BY <2>1, <2>2, <2>3, <2>4
<1>6. ASSUME NEW a \in Agents, Ends(a)
      PROVE  Own
  <2>1. a = x \/ caller[a] = x
    <3>1. \E p, r : pc' = [pc EXCEPT ![a] = p, ![caller[a]] = r]
      BY <1>6 DEF Ends, DestroyPoolInAdd, AddReturns, AddThrows, Leave
    <3> QED
      BY <1>b, <3>1
  <2>2. AddStep(a)
    BY <1>6 DEF AddStep, Ends
  <2>3. a = x => x \in Agents /\ AddStep(x)
    BY <2>2
  <2>4. caller[a] = x => \E b \in Agents : caller[b] = x /\ Ends(b)
    BY <1>6
  <2> HIDE DEF Own
  <2>5. (x \in Agents /\ AddStep(x)) => Own
    BY DEF Own
  <2>6. (\E b \in Agents : caller[b] = x /\ Ends(b)) => Own
    BY DEF Own
  <2> QED
    BY <2>1, <2>3, <2>4, <2>5, <2>6
<1>7. ASSUME NEW h \in Handlers, Receive(h) \/ HandlerStep(h), ~ReplicaStarts(h)
      PROVE  Own
  <2>1. h = x
    BY <1>a, <1>7 DEF Receive, HandlerStep, EnterGuard, Emplace, ReplicaThrows, CountDown,
                      NoteTime, StopHandler, Goto
  <2> QED
    BY <1>7, <2>1
<1>8. ASSUME NEW h \in Handlers, ReplicaStarts(h)
      PROVE  Own
  <2>1. h = x \/ <<h[1], "replica">> = x
    BY <1>b, <1>8 DEF ReplicaStarts
  <2>2. <<h[1], "replica">> \in Handlers
    BY ActorFacts
  <2> QED
    BY <1>8, <2>1, <2>2 DEF HandlerStep, Begins
<1>9. ASSUME NEW t \in Threads, DestroyPoolInSend(t)
      PROVE  Own
  BY <1>a, <1>9 DEF DestroyPoolInSend, Goto
<1>10. ASSUME NEW t \in Threads, DestroyStep(t)
       PROVE  Own
  BY <1>a, <1>10
  DEF DestroyStep, ClearReplicas, ReplicasJoined, DestroyMembers, ThreadJoined, DeleteAgents, Goto
<1>11. ASSUME ShutdownAgents
       PROVE  Own
  BY <1>a, <1>11 DEF ShutdownAgents, Goto
<1>12. ~UNCHANGED vars
  BY DEF vars
<1>13. ASSUME NEW a \in Agents, AddStep(a)
       PROVE  Own
  BY <1>4, <1>5, <1>6, <1>13 DEF AddStep, Ends
<1> HIDE DEF Own
<1>14. Own
  BY <1>1, <1>2, <1>3, <1>7, <1>8, <1>9, <1>10, <1>11, <1>12, <1>13 DEF Next, ScriptStep
<1> QED
  BY <1>14 DEF Own

\* A caller is woken by the end of what it has added.
LEMMA CallsStay ==
  ASSUME OwnInv, [Next]_vars, NEW x \in Actors, pc[x] = "calls", pc'[x] # "calls"
  PROVE  \E a \in Agents : caller[a] = x /\ Ends(a)
<1>1. ~SendBegins(x) /\ ~SendEnds(x) /\ ~DestroyPoolInSend(x) /\ ~DeleteAgents(x)
  BY DEF SendBegins, SendEnds, DestroyPoolInSend, DeleteAgents, InScript
<1>2. \A a \in Agents : ~AddChecks(x, a)
  BY DEF AddChecks, InScript
<1>3. ~(x = App /\ ShutdownAgents)
  BY DEF ShutdownAgents
<1>4. ~AddStep(x) /\ \A y \in Actors : ~AddChecks(y, x)
  BY DEF AddStep, AddEnters, RegisterTable, Start, ScriptEnds, ScriptFails, AddHandler, DropPool,
         DestroyPoolInAdd, AddReturns, AddThrows, AddChecks
<1>5. ~Receive(x) /\ ~HandlerStep(x)
  BY DEF Receive, HandlerStep, EnterGuard, ReplicaStarts, Emplace, ReplicaThrows, CountDown,
         NoteTime, StopHandler
<1>6. ~(x \in Handlers /\ Begins(x))
  BY BeginsFromNone
<1> QED
  BY <1>1, <1>2, <1>3, <1>4, <1>5, <1>6, OwnStep

\* Who calls whom changes when an agent is added and when that has ended.
LEMMA CallerSteps ==
  ASSUME [Next]_vars, caller' # caller
  PROVE  \/ \E x \in Actors, a \in Agents : AddChecks(x, a)
         \/ \E a \in Agents : AddReturns(a) \/ AddThrows(a)
<1>1. ASSUME NEW x \in Actors, SendBegins(x) \/ SendEnds(x)
      PROVE  FALSE
  BY <1>1 DEF SendBegins, SendEnds
<1>2. ASSUME NEW a \in Agents, AddMessage(a) \/ AddStep(a), ~AddReturns(a), ~AddThrows(a)
      PROVE  FALSE
  BY <1>2 DEF AddMessage, Declare, AddStep, AddEnters, RegisterTable, Start, ScriptEnds,
              ScriptFails, AddHandler, DropPool, DestroyPoolInAdd
<1>3. ASSUME NEW h \in Handlers, Receive(h) \/ HandlerStep(h)
      PROVE  FALSE
  BY <1>3 DEF Receive, HandlerStep, EnterGuard, ReplicaStarts, Emplace, ReplicaThrows, CountDown,
              NoteTime, StopHandler
<1>4. ASSUME NEW t \in Threads, DestroyPoolInSend(t) \/ DestroyStep(t)
      PROVE  FALSE
  BY <1>4 DEF DestroyPoolInSend, DestroyStep, ClearReplicas, ReplicasJoined, DestroyMembers,
              ThreadJoined, DeleteAgents
<1> QED
  BY <1>1, <1>2, <1>3, <1>4 DEF Next, ScriptStep, ShutdownAgents, vars

(***************************************************************************)
(* Calls of agents::Add and their callers                                  *)
(***************************************************************************)
LEMMA AddingSteps ==
  ASSUME OwnInv, [Next]_vars, NEW a \in Agents
  PROVE  \/ \E x \in Actors : AddChecks(x, a)
         \/ AddReturns(a) \/ AddThrows(a)
         \/ caller'[a] = caller[a] /\ (pc'[a] \in Adding <=> pc[a] \in Adding)
<1>0. DOMAIN pc = Actors /\ a \in Actors /\ a \notin Threads /\ a \notin Handlers
  BY ActorFacts DEF OwnInv, TypeOK
<1> SUFFICES ASSUME ~AddReturns(a), ~AddThrows(a), \A x \in Actors : ~AddChecks(x, a)
             PROVE  caller'[a] = caller[a] /\ (pc'[a] \in Adding <=> pc[a] \in Adding)
  OBVIOUS
<1>1. caller'[a] = caller[a]
  <2>1. ASSUME NEW x \in Actors, NEW b \in Agents, AddChecks(x, b)
        PROVE  caller'[a] = caller[a]
    BY <2>1 DEF AddChecks, OwnInv, TypeOK
  <2>2. ASSUME NEW b \in Agents, AddReturns(b) \/ AddThrows(b)
        PROVE  caller'[a] = caller[a]
    BY <2>2 DEF AddReturns, AddThrows, Leave, OwnInv, TypeOK
  <2> QED
    BY <2>1, <2>2, CallerSteps
<1>2. ASSUME pc'[a] # pc[a]
      PROVE  pc'[a] \in Adding /\ pc[a] \in Adding
  <2> USE <1>0 DEF Adding, Starting, Goto
  <2>1. ASSUME SendBegins(a) \/ SendEnds(a)
        PROVE  pc'[a] \in Adding /\ pc[a] \in Adding
    <3>1. Resume(a) = "run" /\ pc[a] # "free"
      BY ResumeFits DEF OwnInv, TypeOK
    <3>2. pc[a] \notin {"script", "builds"}
      BY DEF OwnInv, TypeOK
    <3> QED
      BY <2>1, <3>1, <3>2 DEF SendBegins, SendEnds, InScript
  <2>2. ASSUME NEW b \in Agents, AddChecks(a, b)
        PROVE  pc'[a] \in Adding /\ pc[a] \in Adding
    <3>1. pc[a] \notin {"free", "script", "builds"}
      BY DEF OwnInv, TypeOK
    <3> QED
      BY <2>2, <3>1 DEF AddChecks, InScript
  <2>3. ASSUME AddStep(a)
        PROVE  pc'[a] \in Adding /\ pc[a] \in Adding
    <3>1. ASSUME AddEnters(a) \/ RegisterTable(a) \/ Start(a)
          PROVE  pc'[a] \in Adding /\ pc[a] \in Adding
      BY <3>1 DEF AddEnters, RegisterTable, Start
    <3>2. ASSUME ScriptEnds(a) \/ ScriptFails(a) \/ AddHandler(a) \/ DropPool(a)
          PROVE  pc'[a] \in Adding /\ pc[a] \in Adding
      <4>0. <<a, "primary">> \in Handlers
        BY ActorFacts
      <4>1. a # <<a, "primary">>
        BY <1>0, <4>0
      <4> QED
        BY <3>2, <4>1 DEF ScriptEnds, ScriptFails, AddHandler, DropPool
    <3>3. ASSUME DestroyPoolInAdd(a)
          PROVE  pc'[a] \in Adding /\ pc[a] \in Adding
      <4>1. caller[a] # a
        BY <3>3, LastCaller
      <4> QED
        BY <3>3, <4>1 DEF DestroyPoolInAdd
    <3> QED
      BY <2>3, <3>1, <3>2, <3>3 DEF AddStep
  <2>4. ASSUME NEW b \in Agents, caller[b] = a, Ends(b)
        PROVE  pc'[a] \in Adding /\ pc[a] \in Adding
    <3>1. ~DestroyPoolInAdd(b)
      BY <2>4, LastCaller
    <3>2. AddReturns(b) \/ AddThrows(b)
      BY <2>4, <3>1 DEF Ends
    <3>3. pc[b] \in {"declare", "leave"}
      BY <3>2 DEF AddReturns, AddThrows
    <3>4. pc[a] = "calls" /\ a # b
      BY <2>4, <3>3, AddingTypes DEF OwnInv
    <3>5. \E p : Leave(b, p, "run") \/ Leave(b, p, "throw")
      <4>1. Resume(a) = "run"
        BY ResumeFits DEF OwnInv
      <4> QED
        BY <2>4, <3>2, <4>1 DEF AddReturns, AddThrows
    <3>6. pc'[a] \in {"run", "throw"}
      BY <2>4, <3>4, <3>5 DEF Leave
    <3> QED
      BY <3>4, <3>6
  <2> QED
    BY <1>2, <2>1, <2>2, <2>3, <2>4, OwnStep, ActorFacts
<1> QED
  BY <1>1, <1>2

LEMMA EndedStays ==
  ASSUME OwnInv, [Next]_vars, NEW x \in Actors, pc[x] \in {"destroy", "stopped", "destroys"},
         x # App, \A a \in Agents : caller[a] = x => ~Ends(a)
  PROVE  IF pc[x] = "destroys" THEN pc'[x] = "destroys" ELSE pc'[x] \in {"destroy", "stopped"}
<1>0. DOMAIN pc = Actors
  BY DEF OwnInv, TypeOK
<1>1. ~SendBegins(x) /\ ~SendEnds(x) /\ ~DestroyPoolInSend(x) /\ \A a \in Agents : ~AddChecks(x, a)
  BY DEF SendBegins, SendEnds, DestroyPoolInSend, AddChecks, InScript
<1>2. ~AddStep(x) /\ \A y \in Actors : ~AddChecks(y, x)
  BY DEF AddStep, AddEnters, RegisterTable, Start, ScriptEnds, ScriptFails, AddHandler, DropPool,
         DestroyPoolInAdd, AddReturns, AddThrows, AddChecks
<1>3. ~Receive(x) /\ ~HandlerStep(x)
  BY DEF Receive, HandlerStep, EnterGuard, ReplicaStarts, Emplace, ReplicaThrows, CountDown,
         NoteTime, StopHandler
<1>4. ~(x \in Handlers /\ Begins(x))
  BY BeginsFromNone
<1>5. DeleteAgents(x) => pc[x] = "destroy" /\ pc'[x] = "stopped"
  BY <1>0 DEF DeleteAgents, Goto
<1>6. pc'[x] # pc[x] => DeleteAgents(x)
  BY <1>1, <1>2, <1>3, <1>4, OwnStep
<1> QED
  BY <1>5, <1>6

LEMMA CallersKept ==
  ASSUME OwnInv, [Next]_vars, TypeOK'
  PROVE  CallersWait'
<1>0. DOMAIN pc = Actors /\ caller \in [Agents -> Actors \cup {None}] /\ CallersWait
  BY DEF OwnInv, TypeOK
<1>a. Agents \subseteq Actors /\ None \notin Actors
  BY ActorFacts
\* An agent that is added now: its caller was in a script.
<1>1. ASSUME NEW x \in Actors, NEW a \in Agents, AddChecks(x, a)
      PROVE  /\ pc'[a] = "enter" /\ caller'[a] = x /\ pc'[x] = "calls" /\ x # a
             /\ caller[a] = None /\ pc' = [pc EXCEPT ![x] = "calls", ![a] = "enter"]
             /\ caller' = [caller EXCEPT ![a] = x]
             /\ \A b \in Agents : caller[b] # x
  <2>1. pc[a] = "new" /\ InScript(x) /\ x # a
    BY <1>1 DEF AddChecks, InScript
  <2>2. /\ pc' = [pc EXCEPT ![x] = "calls", ![a] = "enter"]
        /\ caller' = [caller EXCEPT ![a] = x]
    BY <1>1 DEF AddChecks
  <2>3. caller[a] = None
    BY <1>0, <2>1 DEF CallersWait, Adding, Starting
  <2>4. ASSUME NEW b \in Agents, caller[b] = x
        PROVE  FALSE
    BY <1>0, <1>a, <2>1, <2>4 DEF CallersWait, InScript
  <2> QED
    BY <1>0, <1>a, <2>1, <2>2, <2>3, <2>4
<1>2. ASSUME NEW a \in Agents, AddReturns(a) \/ AddThrows(a)
      PROVE  pc'[a] \notin Adding /\ caller'[a] = None /\ caller' = [caller EXCEPT ![a] = None]
  <2>1. \E r : Leave(a, "added", r) \/ Leave(a, "thrown", r)
    BY <1>2 DEF AddReturns, AddThrows
  <2>2. caller[a] # a
    BY <1>2, AddingTypes DEF AddReturns, AddThrows, Adding, OwnInv
  <2>3. pc'[a] \in {"added", "thrown"} /\ caller' = [caller EXCEPT ![a] = None]
    BY <1>0, <1>a, <2>1, <2>2 DEF Leave
  <2> QED
    BY <1>0, <2>3 DEF Adding, Starting
<1>3. ASSUME NEW a \in Agents
      PROVE  pc'[a] \in Adding <=> caller'[a] # None
  <2>1. ASSUME NEW x \in Actors, AddChecks(x, a)
        PROVE  pc'[a] \in Adding /\ caller'[a] # None
    BY <1>1, <1>a, <2>1 DEF Adding
  <2>2. ASSUME caller'[a] = caller[a], pc'[a] \in Adding <=> pc[a] \in Adding
        PROVE  pc'[a] \in Adding <=> caller'[a] # None
    BY <1>0, <2>2 DEF CallersWait
  <2> QED
    BY <1>2, <2>1, <2>2, AddingSteps
<1>4. ASSUME NEW a \in Agents, caller'[a] # None
      PROVE  IF pc'[a] = "destroys" THEN pc'[caller'[a]] \in {"destroy", "stopped"}
                                    ELSE pc'[caller'[a]] = "calls"
  <2>1. ASSUME NEW x \in Actors, AddChecks(x, a)
        PROVE  pc'[a] # "destroys" /\ pc'[caller'[a]] = "calls"
    BY <1>1, <2>1
  <2>2. ASSUME caller'[a] = caller[a], ~AddReturns(a), ~AddThrows(a)
        PROVE  IF pc'[a] = "destroys" THEN pc'[caller'[a]] \in {"destroy", "stopped"}
                                      ELSE pc'[caller'[a]] = "calls"
    <3>1. /\ caller[a] \in Actors /\ caller[a] # None
          /\ \A b \in Agents : caller[b] = caller[a] => b = a
      BY <1>0, <1>4, <2>2 DEF CallersWait
    <3>2. CASE DestroyPoolInAdd(a)
      <4>1. caller[a] # a
        BY <3>2, LastCaller
      <4> QED
        BY <1>0, <1>a, <2>2, <3>1, <3>2, <4>1 DEF DestroyPoolInAdd
    <3>3. CASE ~DestroyPoolInAdd(a) /\ pc[a] # "destroys"
      <4>1. pc[caller[a]] = "calls"
        BY <1>0, <3>1, <3>3 DEF CallersWait
      <4>2. pc'[caller[a]] = "calls"
        BY <2>2, <3>1, <3>3, <4>1, CallsStay DEF Ends
      <4>3. pc'[a] # "destroys"
        <5>1. ASSUME pc'[a] = "destroys"
              PROVE  \E b \in Agents : Ends(b) /\ caller[b] = a
          <6> USE <1>0, <1>a, <5>1 DEF Goto
          <6>1. ~SendBegins(a) /\ ~SendEnds(a) /\ ~DestroyPoolInSend(a)
                /\ \A b \in Agents : ~AddChecks(a, b)
            BY <1>1 DEF SendBegins, SendEnds, DestroyPoolInSend, Resume
          <6>2. ~AddStep(a) /\ \A y \in Actors : ~AddChecks(y, a)
            <7>1. ~AddEnters(a) /\ ~RegisterTable(a) /\ ~Start(a) /\ ~ScriptEnds(a)
                  /\ ~ScriptFails(a) /\ ~DropPool(a)
              BY DEF AddEnters, RegisterTable, Start, ScriptEnds, ScriptFails, DropPool
            <7>2. ~AddHandler(a)
              BY ActorFacts DEF AddHandler
            <7>3. \A y \in Actors : ~AddChecks(y, a)
              BY <1>1
            <7> QED
              BY <2>2, <3>3, <7>1, <7>2, <7>3 DEF AddStep
          <6>3. a \notin Threads /\ a \notin Handlers /\ a # App
            BY ActorFacts
          <6> QED
            BY <3>3, <6>1, <6>2, <6>3, OwnStep
        <5>2. ASSUME NEW b \in Agents, Ends(b), caller[b] = a
              PROVE  pc'[a] # "destroys"
          <6>1. AddReturns(b) \/ AddThrows(b)
            BY <5>2, LastCaller, ActorFacts DEF Ends
          <6>2. pc[b] \in {"declare", "leave"} /\ a # b
            BY <5>2, <6>1, AddingTypes DEF AddReturns, AddThrows, OwnInv, Adding
          <6>3. Resume(a) = "run"
            BY <1>a, ResumeFits DEF OwnInv
          <6>4. \E p : Leave(b, p, "run") \/ Leave(b, p, "throw")
            BY <5>2, <6>1, <6>3 DEF AddReturns, AddThrows
          <6> QED
            BY <1>0, <1>a, <5>2, <6>2, <6>4 DEF Leave
        <5> QED
          BY <5>1, <5>2
      <4> QED
        BY <2>2, <4>2, <4>3
    <3>4. CASE pc[a] = "destroys"
      <4>1. pc[caller[a]] \in {"destroy", "stopped"}
        BY <1>0, <3>1, <3>4 DEF CallersWait
      <4>2. ~Ends(a)
        BY <3>4 DEF Ends, DestroyPoolInAdd, AddReturns, AddThrows
      <4>3. \A b \in Agents : caller[b] # a
        <5>1. ASSUME NEW b \in Agents, caller[b] = a
              PROVE  FALSE
          BY <1>0, <1>a, <3>4, <5>1 DEF CallersWait
        <5> QED
          BY <5>1
      <4>4. pc'[a] = "destroys"
        BY <1>a, <3>4, <4>3, EndedStays, ActorFacts
      <4>5. CASE caller[a] # App
        <5>1. pc'[caller[a]] \in {"destroy", "stopped"}
          BY <3>1, <4>1, <4>2, <4>5, EndedStays
        <5> QED
          BY <2>2, <4>4, <5>1
      <4>6. CASE caller[a] = App
        <5>1. pc'[App] \in {"destroy", "stopped"}
          <6>1. pc[App] \in {"destroy", "stopped"}
            BY <4>1, <4>6
          <6>2. ~SendBegins(App) /\ ~SendEnds(App) /\ ~DestroyPoolInSend(App)
                /\ \A b \in Agents : ~AddChecks(App, b)
            BY <6>1 DEF SendBegins, SendEnds, DestroyPoolInSend, AddChecks, InScript
          <6>3. \A b \in Agents : caller[b] = App => ~Ends(b)
            BY <3>1, <4>2, <4>6
          <6>4. ~ShutdownAgents /\ App \in Actors /\ App \notin Agents /\ App \notin Handlers
            BY <6>1, ActorFacts DEF ShutdownAgents
          <6>5. DeleteAgents(App) => pc'[App] = "stopped"
            BY <1>0, <6>4 DEF DeleteAgents, Goto
          <6> QED
            BY <6>1, <6>2, <6>3, <6>4, <6>5, OwnStep
        <5> QED
          BY <2>2, <4>4, <4>6, <5>1
      <4> QED
        BY <4>5, <4>6
    <3> QED
      BY <3>2, <3>3, <3>4
  <2> QED
    BY <1>2, <1>4, <2>1, <2>2, AddingSteps
<1>5. ASSUME NEW a \in Agents, NEW b \in Agents, caller'[a] # None, caller'[a] = caller'[b]
      PROVE  a = b
  <2>1. ASSUME NEW x \in Actors, NEW c \in Agents, AddChecks(x, c)
        PROVE  a = b
    BY <1>0, <1>1, <1>5, <2>1 DEF CallersWait
  <2>2. ASSUME NEW c \in Agents, AddReturns(c) \/ AddThrows(c)
        PROVE  a = b
    BY <1>0, <1>2, <1>5, <2>2 DEF CallersWait
  <2>3. caller' = caller => a = b
    BY <1>0, <1>5 DEF CallersWait
  <2> QED
    BY <2>1, <2>2, <2>3, CallerSteps
<1> QED
  BY <1>3, <1>4, <1>5 DEF CallersWait

LEMMA NestedKept ==
  ASSUME OwnInv, CallsAreNested, [Next]_vars
  PROVE  CallsAreNested'
<1>0. /\ DOMAIN pc = Actors /\ caller \in [Agents -> Actors \cup {None}] /\ CallersWait
      /\ Agents \subseteq Actors /\ None \notin Actors
  BY ActorFacts DEF OwnInv, TypeOK
<1>a. PICK above \in [Agents -> SUBSET Agents] : Chains(above)
  BY DEF CallsAreNested
\* A new call is above no other; its caller's calls are above it.
<1>1. ASSUME NEW x \in Actors, NEW a \in Agents, AddChecks(x, a)
      PROVE  CallsAreNested'
  <2>1. /\ pc[a] = "new" /\ InScript(x) /\ x # a
        /\ pc' = [pc EXCEPT ![x] = "calls", ![a] = "enter"]
        /\ caller' = [caller EXCEPT ![a] = x]
    BY <1>1 DEF AddChecks, InScript
  <2>2. caller[a] = None
    BY <1>0, <2>1 DEF CallersWait, Adding, Starting
  <2>3. ASSUME NEW b \in Agents, caller[b] # None
        PROVE  /\ b # a /\ caller'[b] = caller[b]
               /\ \A c \in above[b] : c # a /\ pc'[c] = "calls"
               /\ \A c \in above[b] \cup {b} : caller'[c] = caller[c]
    <3>1. above[b] \subseteq Agents /\ \A c \in above[b] : pc[c] = "calls"
      BY <1>a, <2>3 DEF Chains
    <3>2. b # a /\ \A c \in above[b] : c # a
      BY <2>1, <2>2, <2>3, <3>1
    <3> QED
      BY <1>0, <2>1, <3>1, <3>2
  <2> DEFINE top == IF x \in Agents THEN above[x] \cup {x} ELSE {}
             above2 == [above EXCEPT ![a] = top]
  <2>4. above2 \in [Agents -> SUBSET Agents]
    OBVIOUS
  <2>5. x \in Agents => caller[x] # None
    <3>1. x \in Agents => pc[x] \in {"new", "added", "thrown"} \cup Adding
      BY DEF OwnInv, TypeOK
    <3> QED
      BY <1>0, <2>1, <3>1 DEF CallersWait, InScript
  <2>6. ASSUME NEW b \in Agents, caller'[b] # None
        PROVE  /\ \A c \in above2[b] :
                    pc'[c] = "calls" /\ \E d \in above2[b] \cup {b} : caller'[d] = c
               /\ \E d \in above2[b] \cup {b} : caller'[d] \in Threads
    <3>1. CASE b # a
      <4>1. caller[b] # None /\ above2[b] = above[b]
        BY <1>0, <2>1, <2>6, <3>1
      <4> HIDE DEF above2
      <4>2. /\ \A c \in above[b] : \E d \in above[b] \cup {b} : caller[d] = c
            /\ \E d \in above[b] \cup {b} : caller[d] \in Threads
        BY <1>a, <4>1 DEF Chains
      <4>3. /\ \A c \in above[b] : \E d \in above[b] \cup {b} : caller'[d] = c
            /\ \E d \in above[b] \cup {b} : caller'[d] \in Threads
        BY <2>3, <4>1, <4>2
      <4> QED
        BY <2>3, <4>1, <4>3
    <3>2. CASE b = a /\ x \in Agents
      <4>1. above2[b] = above[x] \cup {x} /\ caller[x] # None /\ caller'[a] = x
        BY <1>0, <2>1, <2>5, <3>2
      <4> HIDE DEF above2
      <4>2. /\ \A c \in above[x] : \E d \in above[x] \cup {x} : caller[d] = c
            /\ \E d \in above[x] \cup {x} : caller[d] \in Threads
        BY <1>a, <3>2, <4>1 DEF Chains
      <4>3. /\ \A c \in above[x] : pc'[c] = "calls" /\ \E d \in above[x] \cup {x} : caller'[d] = c
            /\ \E d \in above[x] \cup {x} : caller'[d] \in Threads
        BY <2>3, <3>2, <4>1, <4>2
      <4>4. pc'[x] = "calls"
        BY <1>0, <2>1
      <4> QED
        BY <3>2, <4>1, <4>3, <4>4
    <3>3. CASE b = a /\ x \notin Agents
      <4>1. above2[b] = {} /\ caller'[b] = x /\ x \in Threads
        BY <1>0, <2>1, <3>3 DEF Actors
      <4> HIDE DEF above2
      <4> QED
        BY <4>1
    <3> QED
      BY <3>1, <3>2, <3>3
  <2> HIDE DEF above2
  <2>7. Chains(above2)'
    BY <2>6 DEF Chains
  <2> QED
    BY <2>4, <2>7 DEF CallsAreNested
\* The call that ends is above no other, and neither is its caller.
<1>2. ASSUME NEW a \in Agents, AddReturns(a) \/ AddThrows(a)
      PROVE  CallsAreNested'
  <2>1. pc[a] \in {"declare", "leave"} /\ \E p, r : Leave(a, p, r)
    BY <1>2 DEF AddReturns, AddThrows
  <2>2. caller[a] # None
    BY <2>1, AddingTypes DEF OwnInv, Adding
  <2>3. /\ \E p, r : pc' = [pc EXCEPT ![a] = p, ![caller[a]] = r]
        /\ caller' = [caller EXCEPT ![a] = None]
    BY <2>1 DEF Leave
  <2>4. ASSUME NEW b \in Agents, caller'[b] # None
        PROVE  /\ \A c \in above[b] :
                    pc'[c] = "calls" /\ \E d \in above[b] \cup {b} : caller'[d] = c
               /\ \E d \in above[b] \cup {b} : caller'[d] \in Threads
    <3>1. b # a /\ caller[b] # None
      BY <1>0, <2>3, <2>4
    <3>2. /\ above[b] \subseteq Agents
          /\ \A c \in above[b] : pc[c] = "calls" /\ \E d \in above[b] \cup {b} : caller[d] = c
          /\ \E d \in above[b] \cup {b} : caller[d] \in Threads
      BY <1>a, <3>1 DEF Chains
    <3>3. \A c \in above[b] \cup {b} : c # a /\ c \in Agents /\ caller'[c] = caller[c]
      BY <1>0, <2>1, <2>3, <3>1, <3>2
    <3>4. \A c \in above[b] : c # caller[a]
      BY <1>0, <2>2, <3>2, <3>3 DEF CallersWait
    <3>5. \A c \in above[b] : pc'[c] = "calls"
      BY <1>0, <2>3, <3>2, <3>3, <3>4
    <3> QED
      BY <3>2, <3>3, <3>5
  <2>5. Chains(above)'
    BY <2>4 DEF Chains
  <2> QED
    BY <2>5 DEF CallsAreNested
<1>3. ASSUME caller' = caller, \A a \in Agents : ~AddReturns(a) /\ ~AddThrows(a)
      PROVE  CallsAreNested'
  <2>1. ASSUME NEW b \in Agents, pc[b] = "calls"
        PROVE  pc'[b] = "calls"
    <3>1. ASSUME NEW a \in Agents, caller[a] = b
          PROVE  ~Ends(a)
      BY <1>3, <3>1, LastCaller, ActorFacts DEF Ends
    <3> QED
      BY <1>0, <2>1, <3>1, CallsStay
  <2>2. Chains(above)'
    BY <1>3, <1>a, <2>1 DEF Chains
  <2> QED
    BY <2>2 DEF CallsAreNested
<1> QED
  BY <1>1, <1>2, <1>3, CallerSteps

(***************************************************************************)
(* The moves of agents, handlers and the application                       *)
(***************************************************************************)
Returns(a) == AddReturns(a) \/ AddThrows(a)

LEMMA ReturnMoves ==
  ASSUME OwnInv, NEW a \in Agents, Returns(a)
  PROVE  /\ caller[a] \in Actors /\ caller[a] # a /\ pc[caller[a]] = "calls"
         /\ caller[a] \in Threads => pc'[caller[a]] = Resume(caller[a])
         /\ caller[a] \in Agents => pc'[caller[a]] \in {"run", "throw"}
         /\ AddReturns(a) => pc[a] = "declare" /\ pc'[a] = "added"
         /\ AddThrows(a) => pc[a] \in {"declare", "leave"} /\ pc'[a] = "thrown"
<1>0. DOMAIN pc = Actors /\ \A b \in Agents : b \in Actors /\ b \notin Threads
  BY ActorFacts DEF OwnInv, TypeOK
<1>1. pc[a] \in {"declare", "leave"}
  BY DEF Returns, AddReturns, AddThrows
<1>2. caller[a] \in Actors /\ caller[a] # a /\ pc[caller[a]] = "calls"
  BY <1>1, AddingTypes DEF OwnInv, Adding
<1>3. caller[a] \in Agents => Resume(caller[a]) = "run"
  BY <1>2, ResumeFits DEF OwnInv
<1>4. CASE AddReturns(a)
  <2>1. pc[a] = "declare" /\ pc' = [pc EXCEPT ![a] = "added", ![caller[a]] = Resume(caller[a])]
    BY <1>4 DEF AddReturns, Leave
  <2>2. ~AddThrows(a) \/ pc'[a] = "added"
    BY <1>0, <1>2, <2>1
  <2>3. pc'[a] = "added" /\ pc'[caller[a]] = Resume(caller[a])
    BY <1>0, <1>2, <2>1
  <2>4. ~AddThrows(a)
    <3>1. ASSUME AddThrows(a)
          PROVE  pc'[a] = "thrown"
      <4>1. \E r : pc' = [pc EXCEPT ![a] = "thrown", ![caller[a]] = r]
        BY <3>1 DEF AddThrows, Leave
      <4> QED
        BY <1>0, <1>2, <4>1
    <3> QED
      BY <2>3, <3>1
  <2> QED
    BY <1>0, <1>2, <1>3, <2>1, <2>3, <2>4
<1>5. CASE AddThrows(a) /\ ~AddReturns(a)
  <2>1. PICK r : /\ pc' = [pc EXCEPT ![a] = "thrown", ![caller[a]] = r]
                 /\ r = IF caller[a] \in Agents THEN "throw" ELSE Resume(caller[a])
    BY <1>5 DEF AddThrows, Leave
  <2>2. pc'[a] = "thrown" /\ pc'[caller[a]] = r
    BY <1>0, <1>2, <2>1
  <2> QED
    BY <1>0, <1>1, <1>2, <1>5, <2>1, <2>2
<1> QED
  BY <1>4, <1>5 DEF Returns

LEMMA AgentMoves ==
  ASSUME OwnInv, [Next]_vars, NEW a \in Agents, pc'[a] # pc[a]
  PROVE  \/ SendBegins(a) /\ pc[a] = "run" /\ pc'[a] = "sends"
         \/ SendEnds(a) /\ pc[a] = "sends" /\ pc'[a] = "run"
         \/ (\E b \in Agents : AddChecks(a, b)) /\ pc[a] = "run" /\ pc'[a] = "calls"
         \/ (\E b \in Agents : caller[b] = a /\ Returns(b))
            /\ pc[a] = "calls" /\ pc'[a] \in {"run", "throw"}
         \/ (\E x \in Actors : AddChecks(x, a)) /\ pc[a] = "new" /\ pc'[a] = "enter"
         \/ AddEnters(a) /\ pc[a] = "enter" /\ pc'[a] = "table"
         \/ RegisterTable(a) /\ pc[a] = "table" /\ pc'[a] \in {"start", "leave"}
         \/ Start(a) /\ pc[a] = "start" /\ pc'[a] = IF offered THEN "run" ELSE "declare"
         \/ ScriptEnds(a) /\ pc[a] = "run" /\ pc'[a] = "handler"
         \/ ScriptFails(a) /\ pc[a] = "run" /\ pc'[a] = "throw"
         \/ AddHandler(a) /\ pc[a] = "handler" /\ pc'[a] = "drop"
         \/ DropPool(a) /\ pc[a] \in {"drop", "throw"} /\ pc'[a] \in {"declare", "leave"}
         \/ DestroyPoolInAdd(a) /\ pc[a] \in {"drop", "throw"} /\ pc'[a] = "destroys"
         \/ AddReturns(a) /\ pc[a] = "declare" /\ pc'[a] = "added"
         \/ AddThrows(a) /\ pc[a] \in {"declare", "leave"} /\ pc'[a] = "thrown"
<1> DEFINE Moved ==
         \/ SendBegins(a) /\ pc[a] = "run" /\ pc'[a] = "sends"
         \/ SendEnds(a) /\ pc[a] = "sends" /\ pc'[a] = "run"
         \/ (\E b \in Agents : AddChecks(a, b)) /\ pc[a] = "run" /\ pc'[a] = "calls"
         \/ (\E b \in Agents : caller[b] = a /\ Returns(b))
            /\ pc[a] = "calls" /\ pc'[a] \in {"run", "throw"}
         \/ (\E x \in Actors : AddChecks(x, a)) /\ pc[a] = "new" /\ pc'[a] = "enter"
         \/ AddEnters(a) /\ pc[a] = "enter" /\ pc'[a] = "table"
         \/ RegisterTable(a) /\ pc[a] = "table" /\ pc'[a] \in {"start", "leave"}
         \/ Start(a) /\ pc[a] = "start" /\ pc'[a] = IF offered THEN "run" ELSE "declare"
         \/ ScriptEnds(a) /\ pc[a] = "run" /\ pc'[a] = "handler"
         \/ ScriptFails(a) /\ pc[a] = "run" /\ pc'[a] = "throw"
         \/ AddHandler(a) /\ pc[a] = "handler" /\ pc'[a] = "drop"
         \/ DropPool(a) /\ pc[a] \in {"drop", "throw"} /\ pc'[a] \in {"declare", "leave"}
         \/ DestroyPoolInAdd(a) /\ pc[a] \in {"drop", "throw"} /\ pc'[a] = "destroys"
         \/ AddReturns(a) /\ pc[a] = "declare" /\ pc'[a] = "added"
         \/ AddThrows(a) /\ pc[a] \in {"declare", "leave"} /\ pc'[a] = "thrown"
<1>0. DOMAIN pc = Actors /\ a \in Actors /\ a \notin Threads /\ a \notin Handlers /\ a # App
  BY ActorFacts DEF OwnInv, TypeOK
<1>a. pc[a] \notin {"free", "script", "builds"} /\ Resume(a) = "run"
  BY <1>0, ResumeFits DEF OwnInv, TypeOK, Adding, Starting
<1>1. ASSUME SendBegins(a) \/ SendEnds(a)
      PROVE  Moved
  BY <1>0, <1>1, <1>a DEF SendBegins, SendEnds, Goto, InScript
<1>2. ASSUME NEW b \in Agents, AddChecks(a, b)
      PROVE  Moved
  <2>1. pc[a] = "run" /\ a # b /\ pc' = [pc EXCEPT ![a] = "calls", ![b] = "enter"]
    BY <1>2, <1>a DEF AddChecks, InScript
  <2> QED
    BY <1>0, <1>2, <2>1
<1>3. ASSUME NEW x \in Actors, AddChecks(x, a)
      PROVE  Moved
  BY <1>0, <1>3 DEF AddChecks
<1>4. ASSUME NEW b \in Agents, caller[b] = a, Ends(b)
      PROVE  Moved
  <2>1. Returns(b)
    BY <1>0, <1>4, LastCaller DEF Ends, Returns
  <2> QED
    BY <1>4, <2>1, ReturnMoves
<1>5. ASSUME AddEnters(a) \/ RegisterTable(a) \/ Start(a) \/ ScriptEnds(a) \/ ScriptFails(a)
             \/ DropPool(a)
      PROVE  Moved
  BY <1>0, <1>5 DEF AddEnters, RegisterTable, Start, ScriptEnds, ScriptFails, DropPool, Goto
<1>6. ASSUME AddHandler(a)
      PROVE  Moved
  <2>0. <<a, "primary">> \in Handlers
    BY ActorFacts
  <2>1. <<a, "primary">> # a
    BY <1>0, <2>0
  <2> QED
    BY <1>0, <1>6, <2>1 DEF AddHandler
<1>7. ASSUME DestroyPoolInAdd(a)
      PROVE  Moved
  <2>1. caller[a] # a
    BY <1>7, LastCaller
  <2> QED
    BY <1>0, <1>7, <2>1 DEF DestroyPoolInAdd
<1>8. ASSUME Returns(a)
      PROVE  Moved
  BY <1>8, ReturnMoves DEF Returns
<1> HIDE DEF Moved
<1>9. Moved
  <2>1. ASSUME AddStep(a)
        PROVE  Moved
    BY <1>5, <1>6, <1>7, <1>8, <2>1 DEF AddStep, Returns
  <2> QED
    BY <1>0, <1>1, <1>2, <1>3, <1>4, <2>1, OwnStep
<1> QED
  BY <1>9 DEF Moved

LEMMA HandlerMoves ==
  ASSUME OwnInv, [Next]_vars, NEW h \in Handlers, pc'[h] # pc[h]
  PROVE  \/ SendBegins(h) /\ pc[h] \in {"script", "builds"} /\ pc'[h] = "sends"
         \/ SendEnds(h) /\ pc[h] = "sends" /\ pc'[h] = Resume(h)
         \/ DestroyPoolInSend(h) /\ pc[h] = "sends" /\ pc'[h] = "destroy"
         \/ (\E a \in Agents : AddChecks(h, a)) /\ pc[h] \in {"script", "builds"} /\ pc'[h] = "calls"
         \/ (\E a \in Agents : caller[a] = h /\ DestroyPoolInAdd(a))
            /\ pc[h] = "calls" /\ pc'[h] = "destroy"
         \/ (\E a \in Agents : caller[a] = h /\ Returns(a)) /\ pc[h] = "calls" /\ pc'[h] = Resume(h)
         \/ Receive(h) /\ pc[h] = "idle" /\ pc'[h] \in {"script", "waits"}
         \/ EnterGuard(h) /\ pc[h] = "waits" /\ pc'[h] \in {"script", "builds"}
         \/ ReplicaStarts(h) /\ pc[h] = "builds" /\ pc'[h] = "publishes"
         \/ Emplace(h) /\ pc[h] = "publishes" /\ pc'[h] = "after"
         \/ ReplicaThrows(h) /\ pc[h] \in {"builds", "publishes"} /\ pc'[h] = "disposes"
         \/ CountDown(h) /\ pc[h] = "script" /\ pc'[h] = "after"
         \/ NoteTime(h) /\ pc[h] = "after" /\ pc'[h] = "idle"
         \/ StopHandler(h) /\ pc[h] = "idle" /\ pc'[h] = "none"
         \/ DeleteAgents(h) /\ pc[h] = "destroy" /\ pc'[h] = "stopped"
         \/ Begins(h) /\ pc[h] = "none" /\ pc'[h] = "idle"
<1> DEFINE Moved ==
         \/ SendBegins(h) /\ pc[h] \in {"script", "builds"} /\ pc'[h] = "sends"
         \/ SendEnds(h) /\ pc[h] = "sends" /\ pc'[h] = Resume(h)
         \/ DestroyPoolInSend(h) /\ pc[h] = "sends" /\ pc'[h] = "destroy"
         \/ (\E a \in Agents : AddChecks(h, a)) /\ pc[h] \in {"script", "builds"} /\ pc'[h] = "calls"
         \/ (\E a \in Agents : caller[a] = h /\ DestroyPoolInAdd(a))
            /\ pc[h] = "calls" /\ pc'[h] = "destroy"
         \/ (\E a \in Agents : caller[a] = h /\ Returns(a)) /\ pc[h] = "calls" /\ pc'[h] = Resume(h)
         \/ Receive(h) /\ pc[h] = "idle" /\ pc'[h] \in {"script", "waits"}
         \/ EnterGuard(h) /\ pc[h] = "waits" /\ pc'[h] \in {"script", "builds"}
         \/ ReplicaStarts(h) /\ pc[h] = "builds" /\ pc'[h] = "publishes"
         \/ Emplace(h) /\ pc[h] = "publishes" /\ pc'[h] = "after"
         \/ ReplicaThrows(h) /\ pc[h] \in {"builds", "publishes"} /\ pc'[h] = "disposes"
         \/ CountDown(h) /\ pc[h] = "script" /\ pc'[h] = "after"
         \/ NoteTime(h) /\ pc[h] = "after" /\ pc'[h] = "idle"
         \/ StopHandler(h) /\ pc[h] = "idle" /\ pc'[h] = "none"
         \/ DeleteAgents(h) /\ pc[h] = "destroy" /\ pc'[h] = "stopped"
         \/ Begins(h) /\ pc[h] = "none" /\ pc'[h] = "idle"
<1>0. DOMAIN pc = Actors /\ h \in Actors /\ h \in Threads /\ h \notin Agents /\ h # App
  BY ActorFacts DEF OwnInv, TypeOK
<1>a. pc[h] \notin {"free", "run"}
  BY DEF OwnInv, TypeOK
<1>1. ASSUME SendBegins(h) \/ SendEnds(h) \/ DestroyPoolInSend(h)
      PROVE  Moved
  BY <1>0, <1>1, <1>a DEF SendBegins, SendEnds, DestroyPoolInSend, Goto, InScript
<1>2. ASSUME NEW a \in Agents, AddChecks(h, a)
      PROVE  Moved
  <2>1. pc[h] \in {"script", "builds"} /\ h # a /\ pc' = [pc EXCEPT ![h] = "calls", ![a] = "enter"]
    BY <1>0, <1>2, <1>a DEF AddChecks, InScript
  <2> QED
    BY <1>0, <1>2, <2>1
<1>3. ASSUME NEW a \in Agents, caller[a] = h, DestroyPoolInAdd(a)
      PROVE  Moved
  <2>1. pc[h] = "calls" /\ h # a
    BY <1>3, LastCaller
  <2> QED
    BY <1>0, <1>3, <2>1 DEF DestroyPoolInAdd
<1>4. ASSUME NEW a \in Agents, caller[a] = h, Returns(a)
      PROVE  Moved
  BY <1>0, <1>4, ReturnMoves
<1>5. ASSUME Receive(h) \/ EnterGuard(h) \/ Emplace(h) \/ ReplicaThrows(h)
      PROVE  Moved
  BY <1>0, <1>5 DEF Receive, EnterGuard, Emplace, ReplicaThrows, Goto
<1>6. ASSUME CountDown(h) \/ NoteTime(h) \/ StopHandler(h) \/ DeleteAgents(h)
      PROVE  Moved
  BY <1>0, <1>6 DEF CountDown, NoteTime, StopHandler, DeleteAgents, Goto
<1>b. ASSUME Begins(h)
      PROVE  pc[h] = "none" /\ pc'[h] = "idle"
  <2>1. pc[h] = "none"
    BY <1>b, BeginsFromNone
  <2>2. ASSUME NEW a \in Agents, AddHandler(a), h = <<a, "primary">>
        PROVE  pc'[h] = "idle"
    BY <1>0, <2>2 DEF AddHandler
  <2>3. ASSUME NEW g \in Handlers, ReplicaStarts(g), h = <<g[1], "replica">>
        PROVE  pc'[h] = "idle"
    BY <1>0, <2>3 DEF ReplicaStarts
  <2> QED
    BY <1>b, <2>1, <2>2, <2>3 DEF Begins
<1>7. ASSUME Begins(h)
      PROVE  Moved
  BY <1>7, <1>b
<1>8. ASSUME ReplicaStarts(h)
      PROVE  Moved
  <2>1. pc[h] = "builds" /\ pc' = [pc EXCEPT ![h] = "publishes", ![<<h[1], "replica">>] = "idle"]
    BY <1>8 DEF ReplicaStarts
  <2>2. h # <<h[1], "replica">>
    <3>1. ASSUME h = <<h[1], "replica">>
          PROVE  Begins(h)
      BY <1>8, <3>1 DEF Begins
    <3> QED
      BY <2>1, <3>1, <1>b
  <2> QED
    BY <1>0, <1>8, <2>1, <2>2
<1> HIDE DEF Moved
<1>9. Moved
  <2>1. ASSUME HandlerStep(h)
        PROVE  Moved
    BY <1>5, <1>6, <1>8, <2>1 DEF HandlerStep
  <2>2. ASSUME NEW a \in Agents, caller[a] = h, Ends(a)
        PROVE  Moved
    BY <1>3, <1>4, <2>2 DEF Ends, Returns
  <2> QED
    BY <1>0, <1>1, <1>2, <1>5, <1>6, <1>7, <2>1, <2>2, OwnStep
<1> QED
  BY <1>9 DEF Moved

LEMMA AppMoves ==
  ASSUME OwnInv, [Next]_vars, pc'[App] # pc[App]
  PROVE  \/ SendBegins(App) /\ pc[App] = "free" /\ pc'[App] = "sends"
         \/ SendEnds(App) /\ pc[App] = "sends" /\ pc'[App] = "free"
         \/ (\E a \in Agents : AddChecks(App, a)) /\ pc[App] = "free" /\ pc'[App] = "calls"
         \/ (\E a \in Agents : caller[a] = App /\ Returns(a)) /\ pc[App] = "calls" /\ pc'[App] = "free"
         \/ ShutdownAgents /\ pc[App] = "free" /\ pc'[App] \in {"destroy", "stopped"}
         \/ DeleteAgents(App) /\ pc[App] = "destroy" /\ pc'[App] = "stopped"
<1> DEFINE Moved ==
         \/ SendBegins(App) /\ pc[App] = "free" /\ pc'[App] = "sends"
         \/ SendEnds(App) /\ pc[App] = "sends" /\ pc'[App] = "free"
         \/ (\E a \in Agents : AddChecks(App, a)) /\ pc[App] = "free" /\ pc'[App] = "calls"
         \/ (\E a \in Agents : caller[a] = App /\ Returns(a)) /\ pc[App] = "calls" /\ pc'[App] = "free"
         \/ ShutdownAgents /\ pc[App] = "free" /\ pc'[App] \in {"destroy", "stopped"}
         \/ DeleteAgents(App) /\ pc[App] = "destroy" /\ pc'[App] = "stopped"
<1>0. /\ DOMAIN pc = Actors /\ App \in Actors /\ App \in Threads /\ App \notin Agents
      /\ App \notin Handlers
  BY ActorFacts DEF OwnInv, TypeOK
<1>a. pc[App] \notin {"run", "script", "builds"} /\ Resume(App) = "free"
  BY <1>0, ResumeFits DEF OwnInv, TypeOK
<1>1. ASSUME SendBegins(App) \/ SendEnds(App)
      PROVE  Moved
  BY <1>0, <1>1, <1>a DEF SendBegins, SendEnds, Goto, InScript
<1>2. ASSUME NEW a \in Agents, AddChecks(App, a)
      PROVE  Moved
  <2>1. pc[App] = "free" /\ App # a /\ pc' = [pc EXCEPT ![App] = "calls", ![a] = "enter"]
    BY <1>0, <1>2, <1>a DEF AddChecks, InScript
  <2> QED
    BY <1>0, <1>2, <2>1
<1>3. ~DestroyPoolInSend(App)
  BY DEF DestroyPoolInSend, LastHolder, OwnInv, PoolPhases
<1>4. ASSUME NEW a \in Agents, caller[a] = App, Ends(a)
      PROVE  Moved
  <2>1. Returns(a)
    BY <1>0, <1>4, LastCaller DEF Ends, Returns
  <2> QED
    BY <1>0, <1>4, <1>a, <2>1, ReturnMoves
<1>5. ASSUME ShutdownAgents \/ DeleteAgents(App)
      PROVE  Moved
  BY <1>0, <1>5 DEF ShutdownAgents, DeleteAgents, Goto
<1> HIDE DEF Moved
<1>6. Moved
  BY <1>0, <1>1, <1>2, <1>3, <1>4, <1>5, OwnStep
<1> QED
  BY <1>6 DEF Moved

(***************************************************************************)
(* Agents before their start                                               *)
(***************************************************************************)
LEMMA NoneStay ==
  ASSUME OwnInv, [Next]_vars, NEW a \in Agents, \A h \in HandlersOf(a) : pc[h] = "none",
         ~AddHandler(a)
  PROVE  \A h \in HandlersOf(a) : pc'[h] = "none"
<1> SUFFICES ASSUME NEW h \in HandlersOf(a), pc'[h] # "none"
             PROVE  FALSE
  OBVIOUS
<1>1. h \in Handlers /\ h[1] = a /\ pc[h] = "none"
  BY DEF HandlersOf
<1>2. Begins(h)
  BY <1>1, HandlerMoves
<1>3. ASSUME NEW b \in Agents, AddHandler(b), h = <<b, "primary">>
      PROVE  FALSE
  BY <1>1, <1>3
<1>4. ASSUME NEW g \in Handlers, ReplicaStarts(g), h = <<g[1], "replica">>
      PROVE  FALSE
  BY <1>1, <1>4 DEF ReplicaStarts, HandlersOf
<1> QED
  BY <1>2, <1>3, <1>4 DEF Begins

\* Start registers an id; the ids of dead agents are given back.
LEMMA IdSteps ==
  ASSUME [Next]_vars
  PROVE  \/ \E a \in Agents : Start(a)
         \/ DeregisterDead
         \/ id' = id
<1>1. ASSUME NEW x \in Actors, ScriptStep(x)
      PROVE  id' = id
  BY <1>1 DEF ScriptStep, SendBegins, SendEnds, AddChecks, ids
<1>2. ASSUME NEW a \in Agents, AddMessage(a)
      PROVE  id' = id
  BY <1>2 DEF AddMessage, Declare
<1>3. ASSUME NEW a \in Agents, AddStep(a), ~Start(a)
      PROVE  id' = id \/ DeregisterDead
  BY <1>3 DEF AddStep, AddEnters, RegisterTable, ScriptEnds, ScriptFails, AddHandler, DropPool,
              DestroyPoolInAdd, AddReturns, AddThrows, Leave, ids
<1>4. ASSUME NEW h \in Handlers, Receive(h) \/ HandlerStep(h)
      PROVE  id' = id
  BY <1>4 DEF Receive, HandlerStep, EnterGuard, ReplicaStarts, Emplace, ReplicaThrows, CountDown,
              NoteTime, StopHandler, ids
<1>5. ASSUME NEW t \in Threads, DestroyPoolInSend(t) \/ DestroyStep(t)
      PROVE  id' = id \/ DeregisterDead
  BY <1>5 DEF DestroyPoolInSend, DestroyStep, ClearReplicas, ReplicasJoined, DestroyMembers,
              ThreadJoined, DeleteAgents, ids
<1> QED
  BY <1>1, <1>2, <1>3, <1>4, <1>5 DEF Next, ShutdownAgents, vars, ids

LEMMA StartFacts ==
  ASSUME OwnInv, NEW a \in Agents, Start(a)
  PROVE  /\ Untouched(a) /\ id'[a] \in Ids
         /\ \A b \in Agents : b # a => id'[b] = id[b]
         /\ \A b \in Agents : id[b] # id'[a]
<1> DEFINE i == CHOOSE i \in Ids : \A b \in Agents : id[b] # i
<1>1. Untouched(a)
  BY DEF Start, OwnInv, NothingBeforeStart
<1>2. i \in Ids /\ \A b \in Agents : id[b] # i
  BY <1>1, FreeId DEF Untouched, OwnInv
<1>3. id' = [id EXCEPT ![a] = i] /\ DOMAIN id = Agents
  BY DEF Start, OwnInv, TypeOK
<1> HIDE DEF i
<1> QED
  BY <1>1, <1>2, <1>3

LEMMA DeclaredSteps ==
  ASSUME [Next]_vars, declared' # declared
  PROVE  \E a \in Agents : AddMessage(a)
<1>1. ASSUME NEW x \in Actors, ScriptStep(x)
      PROVE  FALSE
  BY <1>1 DEF ScriptStep, SendBegins, SendEnds, AddChecks, ids
<1>2. ASSUME NEW a \in Agents, AddStep(a)
      PROVE  FALSE
  BY <1>2 DEF AddStep, AddEnters, RegisterTable, Start, ScriptEnds, ScriptFails, AddHandler,
              DropPool, DestroyPoolInAdd, AddReturns, AddThrows, Leave, ids
<1>3. ASSUME NEW h \in Handlers, Receive(h) \/ HandlerStep(h)
      PROVE  FALSE
  BY <1>3 DEF Receive, HandlerStep, EnterGuard, ReplicaStarts, Emplace, ReplicaThrows, CountDown,
              NoteTime, StopHandler, ids
<1>4. ASSUME NEW t \in Threads, DestroyPoolInSend(t) \/ DestroyStep(t)
      PROVE  FALSE
  BY <1>4 DEF DestroyPoolInSend, DestroyStep, ClearReplicas, ReplicasJoined, DestroyMembers,
              ThreadJoined, DeleteAgents, ids
<1> QED
  BY <1>1, <1>2, <1>3, <1>4 DEF Next, ShutdownAgents, vars, ids

LEMMA SlotSteps ==
  ASSUME [Next]_vars, slot' # slot
  PROVE  (\E a \in Agents : ScriptEnds(a)) \/ \E t \in Threads : ThreadJoined(t)
<1>1. ASSUME NEW x \in Actors, ScriptStep(x)
      PROVE  FALSE
  BY <1>1 DEF ScriptStep, SendBegins, SendEnds, AddChecks, pool
<1>2. ASSUME NEW a \in Agents, AddMessage(a) \/ AddStep(a), ~ScriptEnds(a)
      PROVE  FALSE
  BY <1>2 DEF AddMessage, Declare, AddStep, AddEnters, RegisterTable, Start, ScriptFails, AddHandler,
              DropPool, DestroyPoolInAdd, AddReturns, AddThrows, Leave, pool
<1>3. ASSUME NEW h \in Handlers, Receive(h) \/ HandlerStep(h)
      PROVE  FALSE
  BY <1>3 DEF Receive, HandlerStep, EnterGuard, ReplicaStarts, Emplace, ReplicaThrows, CountDown,
              NoteTime, StopHandler, pool
<1>4. ASSUME NEW t \in Threads, DestroyPoolInSend(t) \/ DestroyStep(t), ~ThreadJoined(t)
      PROVE  FALSE
  BY <1>4 DEF DestroyPoolInSend, DestroyStep, ClearReplicas, ReplicasJoined, DestroyMembers,
              DeleteAgents
<1> QED
  BY <1>1, <1>2, <1>3, <1>4 DEF Next, ShutdownAgents, vars, pool

LEMMA UntouchedStays ==
  ASSUME OwnInv, [Next]_vars, NEW a \in Agents, Untouched(a),
         pc[a] \in {"new", "enter", "table", "start"}, ~Start(a)
  PROVE  Untouched(a)'
<1>0. id[a] = None /\ (\A d \in declared : d[1] # a) /\ \A i \in Ids : slot[i] # a
  BY DEF Untouched
<1>1. id'[a] = None
  BY <1>0, IdSteps, StartFacts DEF DeregisterDead
<1>2. \A d \in declared' : d[1] # a
  <2>1. ASSUME NEW b \in Agents, AddMessage(b)
        PROVE  declared' = declared \cup {<<b, id[b]>>} /\ b # a
    <3>1. pc[<<a, "primary">>] = "none"
      BY ActorFacts DEF Untouched, HandlersOf
    <3> QED
      BY <2>1, <3>1 DEF AddMessage, Declare
  <2> QED
    BY <1>0, <2>1, DeclaredSteps
<1>3. \A i \in Ids : slot'[i] # a
  <2>1. ASSUME NEW b \in Agents, ScriptEnds(b)
        PROVE  b # a /\ slot' = [slot EXCEPT ![id[b]] = b]
    BY <2>1 DEF ScriptEnds
  <2>2. ASSUME NEW t \in Threads, ThreadJoined(t)
        PROVE  \A i \in Ids : slot'[i] \in {slot[i], None}
    BY <2>2 DEF ThreadJoined
  <2>3. None # a /\ DOMAIN slot = Ids
    BY ActorFacts DEF OwnInv, TypeOK
  <2> QED
    BY <1>0, <2>1, <2>2, <2>3, SlotSteps
<1>4. \A h \in HandlersOf(a) : pc'[h] = "none"
  <2>1. ~AddHandler(a)
    BY DEF AddHandler
  <2> QED
    BY <2>1, NoneStay DEF Untouched
<1> QED
  BY <1>1, <1>2, <1>3, <1>4 DEF Untouched, HandlersOf

LEMMA StartsKept ==
  ASSUME OwnInv, [Next]_vars
  PROVE  NothingBeforeStart'
<1>1. ASSUME NEW a \in Agents, pc'[a] \in {"new", "enter", "table", "start"}
      PROVE  Untouched(a)'
  <2>1. pc[a] \in {"new", "enter", "table", "start"}
    BY <1>1, AgentMoves
  <2>2. ~Start(a)
    <3>1. Start(a) => \E p \in {"run", "declare"} : pc' = [pc EXCEPT ![a] = p]
      BY DEF Start, Goto
    <3>2. DOMAIN pc = Actors /\ a \in Actors
      BY ActorFacts DEF OwnInv, TypeOK
    <3> QED
      BY <1>1, <3>1, <3>2
  <2>3. Untouched(a)
    BY <2>1 DEF OwnInv, NothingBeforeStart
  <2> QED
    BY <2>1, <2>2, <2>3, UntouchedStays
<1> QED
  BY <1>1 DEF NothingBeforeStart, Untouched, HandlersOf

(***************************************************************************)
(* Ids                                                                     *)
(***************************************************************************)
LEMMA IdsKept ==
  ASSUME OwnInv, IdsDiffer, [Next]_vars
  PROVE  IdsDiffer'
<1>1. ASSUME NEW a \in Agents, Start(a)
      PROVE  IdsDiffer'
  BY <1>1, StartFacts DEF IdsDiffer
<1>2. CASE DeregisterDead
  <2>1. \A a \in Agents : id'[a] = id[a] \/ id'[a] = None
    BY <1>2 DEF DeregisterDead
  <2> QED
    BY <2>1 DEF IdsDiffer
<1>3. CASE id' = id
  BY <1>3 DEF IdsDiffer
<1> QED
  BY <1>1, <1>2, <1>3, IdSteps

\* An agent keeps its id while somebody keeps it alive.
LEMMA IdStays ==
  ASSUME OwnInv, [Next]_vars, NEW a \in Agents, id[a] # None, Alive(a)'
  PROVE  id'[a] = id[a]
<1>1. ASSUME NEW b \in Agents, Start(b)
      PROVE  id'[a] = id[a]
  BY <1>1, StartFacts DEF Untouched
<1>2. CASE DeregisterDead
  BY <1>2 DEF DeregisterDead
<1> QED
  BY <1>1, <1>2, IdSteps

LEMMA BeforeHandlersKept ==
  ASSUME OwnInv, [Next]_vars, CallersWait'
  PROVE  NoHandlersBefore'
<1> DEFINE Before == {"run", "calls", "sends", "handler"}
<1>1. ASSUME NEW a \in Agents, pc'[a] \in Before
      PROVE  id'[a] # None /\ \A h \in HandlersOf(a) : pc'[h] = "none"
  <2>1. ~AddHandler(a)
    <3>1. <<a, "primary">> \in Handlers /\ a \notin Handlers /\ a \in Actors /\ DOMAIN pc = Actors
      BY ActorFacts DEF OwnInv, TypeOK
    <3>2. AddHandler(a) => pc'[a] = "drop"
      BY <3>1 DEF AddHandler
    <3> QED
      BY <1>1, <3>2
  <2>2. CASE pc[a] \in Before
    <3>1. id[a] # None /\ \A h \in HandlersOf(a) : pc[h] = "none"
      BY <2>2 DEF OwnInv, NoHandlersBefore
    <3>2. Alive(a)'
      BY <1>1 DEF Alive, CallersWait, Adding, Starting
    <3> QED
      BY <2>1, <3>1, <3>2, NoneStay, IdStays
  <2>3. CASE pc[a] \notin Before
    <3>1. Start(a)
      BY <1>1, <2>3, AgentMoves
    <3>2. Untouched(a) /\ id'[a] \in Ids
      BY <3>1, StartFacts
    <3> QED
      BY <2>1, <3>2, NoneStay, ActorFacts DEF Untouched
  <2> QED
    BY <2>2, <2>3
<1> QED
  BY <1>1 DEF NoHandlersBefore, HandlersOf

\* Nobody gets hold of an agent again that is gone.
LEMMA NameSteps ==
  ASSUME [Next]_vars, byName' # byName
  PROVE  (\E a \in Agents : AddEnters(a)) \/ \E t \in Threads : DeleteAgents(t)
<1>1. ASSUME NEW x \in Actors, ScriptStep(x)
      PROVE  FALSE
  BY <1>1 DEF ScriptStep, SendBegins, SendEnds, AddChecks, registry
<1>2. ASSUME NEW a \in Agents, AddMessage(a) \/ AddStep(a), ~AddEnters(a)
      PROVE  FALSE
  BY <1>2 DEF AddMessage, Declare, AddStep, RegisterTable, Start, ScriptEnds, ScriptFails,
              AddHandler, DropPool, DestroyPoolInAdd, AddReturns, AddThrows, Leave, registry
<1>3. ASSUME NEW h \in Handlers, Receive(h) \/ HandlerStep(h)
      PROVE  FALSE
  BY <1>3 DEF Receive, HandlerStep, EnterGuard, ReplicaStarts, Emplace, ReplicaThrows, CountDown,
              NoteTime, StopHandler, registry
<1>4. ASSUME NEW t \in Threads, DestroyPoolInSend(t) \/ DestroyStep(t), ~DeleteAgents(t)
      PROVE  FALSE
  BY <1>4 DEF DestroyPoolInSend, DestroyStep, ClearReplicas, ReplicasJoined, DestroyMembers,
              ThreadJoined, registry
<1> QED
  BY <1>1, <1>2, <1>3, <1>4 DEF Next, ShutdownAgents, vars, registry

LEMMA AliveBefore ==
  ASSUME OwnInv, [Next]_vars, NEW a \in Agents, pc[a] # "new", Alive(a)'
  PROVE  Alive(a)
<1>0. None # a /\ byName \in [Names -> Agents \cup {None}] /\ CallersWait
  BY ActorFacts DEF OwnInv, TypeOK
<1>1. caller'[a] # None => caller[a] # None
  <2>1. \A x \in Actors : ~AddChecks(x, a)
    BY DEF AddChecks
  <2>2. Returns(a) => caller[a] # None
    BY AddingTypes DEF Returns, AddReturns, AddThrows, Adding, OwnInv
  <2> QED
    BY <2>1, <2>2, AddingSteps DEF Returns
<1>2. ASSUME NEW n \in Names, byName'[n] = a
      PROVE  Alive(a)
  <2>1. ASSUME NEW b \in Agents, AddEnters(b)
        PROVE  Alive(a)
    <3>1. byName'[n] = byName[n] \/ b = a
      BY <1>0, <1>2, <2>1 DEF AddEnters
    <3>2. b = a => caller[a] # None
      BY <2>1, AddingTypes DEF AddEnters, Adding, OwnInv
    <3> QED
      BY <1>2, <3>1, <3>2 DEF Alive
  <2>2. ASSUME NEW t \in Threads, DeleteAgents(t)
        PROVE  FALSE
    BY <1>0, <1>2, <2>2 DEF DeleteAgents
  <2>3. byName' = byName => Alive(a)
    BY <1>2 DEF Alive
  <2> QED
    BY <2>1, <2>2, <2>3, NameSteps
<1> QED
  BY <1>1, <1>2 DEF Alive

LEMMA DeclaredKept ==
  ASSUME OwnInv, DeclaredWithOwnId, [Next]_vars
  PROVE  DeclaredWithOwnId'
<1> SUFFICES ASSUME NEW d \in declared', Alive(d[1])'
             PROVE  d[2] = id'[d[1]]
  BY DEF DeclaredWithOwnId, Alive
<1>1. CASE d \in declared
  <2>1. PICK a \in Agents : a = d[1]
    BY <1>1 DEF OwnInv, TypeOK
  <2>2. pc[a] \notin {"new", "start"}
    BY <1>1, <2>1 DEF OwnInv, NothingBeforeStart, Untouched
  <2>3. Alive(a)' /\ (Alive(a) <=> Alive(d[1]))
    BY <2>1 DEF Alive
  <2>4. d[2] = id[a]
    BY <1>1, <2>1, <2>2, <2>3, AliveBefore DEF DeclaredWithOwnId
  <2>5. \A b \in Agents : Start(b) => b # a
    BY <2>2 DEF Start
  <2>6. id'[a] = id[a]
    BY <2>3, <2>5, IdSteps, StartFacts DEF DeregisterDead
  <2> QED
    BY <2>1, <2>4, <2>6
<1>2. CASE d \notin declared
  <2>1. PICK a \in Agents : AddMessage(a)
    BY <1>2, DeclaredSteps
  <2> QED
    BY <1>2, <2>1 DEF AddMessage, Declare
<1> QED
  BY <1>1, <1>2

(***************************************************************************)
(* Replicas in construction                                                *)
(***************************************************************************)
\* The lock of _replicated is taken by a handler that builds a replica and by
\* the destructor of its object.
LEMMA GuardSteps ==
  ASSUME [Next]_vars, UNCHANGED <<guard, replicated>> => FALSE
  PROVE  \/ \E h \in Handlers : EnterGuard(h) \/ Emplace(h)
         \/ \E t \in Threads : ReplicasJoined(t) \/ \E a \in Agents : ClearReplicas(t, a)
<1>1. ASSUME NEW x \in Actors, ScriptStep(x)
      PROVE  FALSE
  BY <1>1 DEF ScriptStep, SendBegins, SendEnds, AddChecks, replicas
<1>2. ASSUME NEW a \in Agents, AddMessage(a) \/ AddStep(a)
      PROVE  FALSE
  BY <1>2 DEF AddMessage, Declare, AddStep, AddEnters, RegisterTable, Start, ScriptEnds,
              ScriptFails, AddHandler, DropPool, DestroyPoolInAdd, AddReturns, AddThrows, Leave,
              replicas
<1>3. ASSUME NEW h \in Handlers, Receive(h) \/ HandlerStep(h), ~EnterGuard(h), ~Emplace(h)
      PROVE  FALSE
  BY <1>3 DEF Receive, HandlerStep, ReplicaStarts, ReplicaThrows, CountDown, NoteTime, StopHandler,
              replicas
<1>4. ASSUME NEW t \in Threads, DestroyPoolInSend(t) \/ DestroyStep(t), ~ReplicasJoined(t),
             \A a \in Agents : ~ClearReplicas(t, a)
      PROVE  FALSE
  BY <1>4 DEF DestroyPoolInSend, DestroyStep, DestroyMembers, ThreadJoined, DeleteAgents, replicas
<1> QED
  BY <1>1, <1>2, <1>3, <1>4 DEF Next, ShutdownAgents, vars, replicas

\* Who holds the lock: a handler inside of Replicate, or who destroys the pool.
LEMMA BuildersKept ==
  ASSUME OwnInv, [Next]_vars
  PROVE  Builders'
<1>0. /\ guard \in [Agents -> Threads \cup {None}] /\ replicated \subseteq Agents
      /\ DOMAIN pc = Actors /\ Builders
  BY DEF OwnInv, TypeOK
<1>a. \A h \in Handlers : h \in Threads /\ h \in Actors /\ h # None /\ h[1] \in Agents
                          /\ h \in HandlersOf(h[1])
  BY ActorFacts
<1>b. \A a \in Agents : \A h \in HandlersOf(a) : h \in Handlers /\ h[1] = a
  BY ActorFacts
\* The holder of a lock keeps it while it is inside.
<1>1. ASSUME NEW h \in Handlers, guard[h[1]] = h, guard'[h[1]] # h
      PROVE  Emplace(h) \/ pc[h] = "destroy" \/ ReplicasJoined(h)
             \/ (\A k \in HandlersOf(h[1]) : pc[k] = "none")
  <2>1. ASSUME NEW g \in Handlers, EnterGuard(g)
        PROVE  FALSE
    BY <1>0, <1>1, <1>a, <2>1 DEF EnterGuard
  <2>2. ASSUME NEW g \in Handlers, Emplace(g)
        PROVE  g = h
    <3>1. g[1] = h[1]
      BY <1>0, <1>1, <1>a, <2>2 DEF Emplace
    <3>2. guard[g[1]] = g
      BY <1>0, <2>2 DEF Emplace, Builders, Builds
    <3> QED
      BY <1>1, <3>1, <3>2
  <2>3. ASSUME NEW t \in Threads, NEW a \in Agents, ClearReplicas(t, a)
        PROVE  FALSE
    BY <1>0, <1>1, <1>a, <2>3 DEF ClearReplicas
  <2>4. ASSUME NEW t \in Threads, ReplicasJoined(t)
        PROVE  \A k \in HandlersOf(h[1]) : pc[k] = "none"
    <3>1. stage.agent = h[1]
      BY <1>0, <1>1, <1>a, <2>4 DEF ReplicasJoined
    <3> QED
      BY <2>4, <3>1 DEF ReplicasJoined, Joined
  <2>5. guard' # guard
    BY <1>1
  <2> QED
    BY <2>1, <2>2, <2>3, <2>4, <2>5, GuardSteps
\* A lock is taken by a handler that comes to build, or by who destroys.
<1>2. ASSUME NEW h \in Handlers, guard'[h[1]] = h, guard[h[1]] # h
      PROVE  \/ EnterGuard(h) /\ h[1] \notin replicated /\ pc[h] = "waits" /\ pc'[h] = "builds"
             \/ pc[h] = "destroy" /\ pc' = pc
  <2>1. ASSUME NEW g \in Handlers, EnterGuard(g)
        PROVE  /\ g = h /\ EnterGuard(h) /\ h[1] \notin replicated /\ pc[h] = "waits"
               /\ pc'[h] = "builds"
    <3>1. guard' # guard
      BY <1>2
    <3>2. g[1] \notin replicated /\ pc[g] = "waits" /\ guard' = [guard EXCEPT ![g[1]] = g]
          /\ pc' = [pc EXCEPT ![g] = "builds"]
      BY <2>1, <3>1 DEF EnterGuard, Goto
    <3>3. g = h
      BY <1>0, <1>2, <1>a, <3>2
    <3> QED
      BY <1>0, <1>a, <2>1, <3>2, <3>3
  <2>2. ASSUME NEW g \in Handlers, Emplace(g)
        PROVE  FALSE
    BY <1>0, <1>2, <1>a, <2>2 DEF Emplace
  <2>3. ASSUME NEW t \in Threads, NEW a \in Agents, ClearReplicas(t, a)
        PROVE  pc[h] = "destroy" /\ pc' = pc
    BY <1>0, <1>2, <1>a, <2>3 DEF ClearReplicas
  <2>4. ASSUME NEW t \in Threads, ReplicasJoined(t)
        PROVE  FALSE
    BY <1>0, <1>2, <1>a, <2>4 DEF ReplicasJoined
  <2>5. guard' # guard
    BY <1>2
  <2> QED
    BY <2>1, <2>2, <2>3, <2>4, <2>5, GuardSteps
\* A replica is entered by its builder and removed when all handlers are gone.
<1>3. ASSUME NEW a \in Agents, a \in replicated', a \notin replicated
      PROVE  \E h \in HandlersOf(a) : Emplace(h) /\ guard[a] = h
  <2>1. ASSUME NEW h \in Handlers, Emplace(h)
        PROVE  h \in HandlersOf(a) /\ guard[a] = h
    <3>1. a = h[1] /\ pc[h] = "publishes"
      BY <1>3, <2>1 DEF Emplace
    <3> QED
      BY <1>0, <1>a, <3>1 DEF Builders, Builds
  <2>2. ASSUME NEW h \in Handlers, EnterGuard(h)
        PROVE  FALSE
    BY <1>3, <2>2 DEF EnterGuard
  <2>3. ASSUME NEW t \in Threads, ReplicasJoined(t) \/ \E b \in Agents : ClearReplicas(t, b)
        PROVE  FALSE
    BY <1>3, <2>3 DEF ReplicasJoined, ClearReplicas
  <2>4. replicated' # replicated
    BY <1>3
  <2> QED
    BY <1>b, <2>1, <2>2, <2>3, <2>4, GuardSteps
<1>4. ASSUME NEW a \in Agents, a \notin replicated', a \in replicated
      PROVE  \A h \in HandlersOf(a) : pc'[h] = "none"
  <2>1. ASSUME NEW h \in Handlers, Emplace(h) \/ EnterGuard(h)
        PROVE  FALSE
    BY <1>4, <2>1 DEF Emplace, EnterGuard
  <2>2. ASSUME NEW t \in Threads, ReplicasJoined(t)
        PROVE  \A h \in HandlersOf(a) : pc'[h] = "none"
    <3>1. stage.agent = a /\ pc' = pc
      BY <1>4, <2>2 DEF ReplicasJoined
    <3> QED
      BY <2>2, <3>1 DEF ReplicasJoined, Joined
  <2>3. ASSUME NEW t \in Threads, NEW b \in Agents, ClearReplicas(t, b)
        PROVE  FALSE
    BY <1>4, <2>3 DEF ClearReplicas
  <2>4. replicated' # replicated
    BY <1>4
  <2> QED
    BY <2>1, <2>2, <2>3, <2>4, GuardSteps
<1>5. ASSUME NEW h \in Handlers, pc'[h] \in Builds
      PROVE  guard'[h[1]] = h
  <2>1. CASE pc[h] \in Builds \cup {"sends", "calls"} /\ guard[h[1]] = h
    <3>1. ~Emplace(h)
      <4>1. Emplace(h) => pc'[h] = "after"
        BY <1>0, <1>a DEF Emplace, Goto
      <4> QED
        BY <1>5, <4>1 DEF Builds
    <3>2. pc[h] \notin {"destroy", "none"}
      BY <2>1 DEF Builds
    <3> QED
      BY <1>1, <1>a, <2>1, <3>1, <3>2 DEF ReplicasJoined
  <2>2. CASE ~(pc[h] \in Builds \cup {"sends", "calls"} /\ guard[h[1]] = h)
    <3>1. pc[h] \notin Builds
      BY <1>0, <2>2 DEF Builders
    <3>2. Resume(h) = "builds" => guard[h[1]] = h
      BY ActorFacts DEF Resume
    <3>3. ~(pc[h] \in {"sends", "calls"} /\ pc'[h] = Resume(h))
      BY <1>5, <2>2, <3>2, <1>a, ResumeFits DEF Builds, OwnInv
    <3>4. EnterGuard(h) /\ pc'[h] = "builds" /\ pc[h] = "waits"
      BY <1>5, <3>1, <3>3, HandlerMoves DEF Builds
    <3>5. guard' = [guard EXCEPT ![h[1]] = h]
      BY <1>0, <1>a, <3>4 DEF EnterGuard, Goto
    <3> QED
      BY <1>0, <1>a, <3>5
  <2> QED
    BY <2>1, <2>2
<1>6. ASSUME NEW h \in Handlers, guard'[h[1]] = h, pc'[h] \notin {"destroy", "stopped"}
      PROVE  h[1] \notin replicated' /\ pc'[h] \in Builds \cup {"sends", "calls"}
  <2>1. CASE guard[h[1]] # h
    <3>1. h[1] \notin replicated /\ pc[h] = "waits" /\ pc'[h] = "builds"
      BY <1>2, <1>6, <2>1
    <3>2. \A k \in HandlersOf(h[1]) : ~Emplace(k)
      <4>1. ASSUME NEW k \in Handlers, Emplace(k)
            PROVE  pc'[h] = pc[h] \/ pc'[h] = "after"
        BY <1>0, <1>a, <4>1 DEF Emplace, Goto
      <4> QED
        BY <1>b, <1>a, <3>1, <4>1
    <3> QED
      BY <1>3, <1>a, <3>1, <3>2 DEF Builds
  <2>2. CASE guard[h[1]] = h
    <3>0. pc[h] \notin {"destroy", "stopped"}
      BY <1>6, HandlerMoves
    <3>1. h[1] \notin replicated /\ pc[h] \in Builds \cup {"sends", "calls"}
      BY <1>0, <2>2, <3>0 DEF Builders
    <3>2. ~Emplace(h)
      <4>1. Emplace(h) => guard'[h[1]] = None
        BY <1>0, <1>a DEF Emplace
      <4> QED
        BY <1>6, <1>a, <4>1
    <3>3. h[1] \notin replicated'
      BY <1>3, <1>a, <2>2, <3>1, <3>2
    <3>4. Resume(h) = "builds"
      BY <2>2, ActorFacts DEF Resume
    <3>5. pc'[h] \in Builds \cup {"sends", "calls"}
      <4>1. pc'[h] = pc[h] => pc'[h] \in Builds \cup {"sends", "calls"}
        BY <3>1
      <4>2. ~CountDown(h) /\ ~NoteTime(h) /\ ~StopHandler(h) /\ ~Receive(h) /\ ~EnterGuard(h)
        BY <3>1 DEF CountDown, NoteTime, StopHandler, Receive, EnterGuard, Builds
      <4>3. pc[h] # "none"
        BY <3>1 DEF Builds
      <4> QED
        BY <1>6, <3>2, <3>4, <4>1, <4>2, <4>3, HandlerMoves DEF Builds
    <3> QED
      BY <3>3, <3>5
  <2> QED
    BY <2>1, <2>2
<1>7. ASSUME NEW a \in Agents, pc'[<<a, "replica">>] # "none"
      PROVE  \/ a \in replicated'
             \/ \E h \in HandlersOf(a) : guard'[a] = h /\ pc'[h] \in {"publishes", "disposes"}
  <2> DEFINE r == <<a, "replica">>
  <2>1. r \in Handlers /\ r \in HandlersOf(a)
    BY ActorFacts DEF HandlersOf
  <2>2. CASE pc[r] # "none" /\ a \in replicated
    BY <1>4, <1>7, <2>1, <2>2
  <2>3. ASSUME NEW h \in HandlersOf(a), guard[a] = h, pc[h] \in {"publishes", "disposes"},
               a \notin replicated'
        PROVE  guard'[a] = h /\ pc'[h] \in {"publishes", "disposes"}
    <3>1. h \in Handlers /\ h[1] = a
      BY <1>b
    <3>2. ~Emplace(h)
      <4>1. Emplace(h) => a \in replicated'
        BY <3>1 DEF Emplace
      <4> QED
        BY <2>3, <4>1
    <3>3. guard'[a] = h
      <4>1. pc[h] \notin {"destroy", "none"} /\ ~ReplicasJoined(h)
        BY <2>3 DEF ReplicasJoined
      <4> QED
        BY <1>1, <2>3, <3>1, <3>2, <4>1
    <3>4. pc'[h] \in {"publishes", "disposes"}
      BY <2>3, <3>1, <3>2, HandlerMoves
    <3> QED
      BY <3>3, <3>4
  <2>4. CASE pc[r] = "none"
    <3>1. Begins(r)
      BY <1>7, <2>1, <2>4, HandlerMoves
    <3>2. PICK g \in Handlers : ReplicaStarts(g) /\ g[1] = a
      BY <3>1 DEF Begins
    <3>3. pc[g] = "builds" /\ guard[a] = g
      BY <1>0, <3>2 DEF ReplicaStarts, Builders, Builds
    <3>4. g # r
      BY <2>4, <3>3
    <3>5. guard' = guard /\ pc'[g] = "publishes"
      BY <1>0, <1>a, <3>2, <3>4 DEF ReplicaStarts, replicas
    <3> QED
      BY <1>a, <3>2, <3>3, <3>5
  <2> QED
    BY <1>0, <2>2, <2>3, <2>4 DEF Builders
<1> QED
  BY <1>5, <1>6, <1>7 DEF Builders, HandlersOf

(***************************************************************************)
(* The end of the pool                                                     *)
(***************************************************************************)
\* Who takes the pool found it in the singleton.
LEMMA HoldersSteps ==
  ASSUME OwnInv, [Next]_vars, NEW x \in Actors, x \in Holders', x \notin Holders
  PROVE  offered
<1>1. CASE x \in Agents
  <2>1. pc'[x] \in Starting \cup {"sends"} /\ pc[x] \notin Starting \cup {"sends"}
    BY <1>1 DEF Holders
  <2>2. Start(x) /\ pc'[x] = IF offered THEN "run" ELSE "declare"
    BY <1>1, <2>1, AgentMoves DEF Starting
  <2> QED
    BY <2>1, <2>2 DEF Starting
<1>2. CASE x \in Handlers
  <2>1. pc'[x] = "sends" /\ pc[x] # "sends"
    BY <1>2, ActorFacts DEF Holders
  <2>2. SendBegins(x)
    BY <1>2, <2>1, HandlerMoves, ResumeFits DEF OwnInv
  <2> QED
    BY <2>2 DEF SendBegins
<1>3. CASE x = App
  <2>1. pc'[x] = "sends" /\ pc[x] # "sends"
    BY <1>3, ActorFacts DEF Holders
  <2>2. SendBegins(x)
    BY <1>3, <2>1, AppMoves
  <2> QED
    BY <2>2 DEF SendBegins
<1> QED
  BY <1>1, <1>2, <1>3 DEF Actors, Threads

LEMMA HandlerDestroys ==
  ASSUME OwnInv, [Next]_vars, NEW h \in Handlers, pc'[h] = "destroy", pc[h] # "destroy"
  PROVE  (h \in Threads /\ DestroyPoolInSend(h)) \/ \E a \in Agents : DestroyPoolInAdd(a)
<1>1. h \in Threads /\ h \in Actors /\ TypeOK
  BY ActorFacts DEF OwnInv
<1>2. Resume(h) \in {"builds", "script"}
  BY <1>1, ResumeFits
<1> QED
  BY <1>1, <1>2, HandlerMoves

\* What the end of the pool is doing changes with ShutdownAgents, with the last
\* one that lets go of the pool, and with the steps of the destructor.
LEMMA StageSteps ==
  ASSUME [Next]_vars, UNCHANGED <<offered, stage>> => FALSE
  PROVE  \/ ShutdownAgents
         \/ \E a \in Agents : DestroyPoolInAdd(a)
         \/ \E t \in Threads : DestroyPoolInSend(t) \/ DestroyStep(t)
<1>1. ASSUME NEW x \in Actors, ScriptStep(x)
      PROVE  FALSE
  BY <1>1 DEF ScriptStep, SendBegins, SendEnds, AddChecks, pool
<1>2. ASSUME NEW a \in Agents, AddMessage(a) \/ AddStep(a), ~DestroyPoolInAdd(a)
      PROVE  FALSE
  BY <1>2 DEF AddMessage, Declare, AddStep, AddEnters, RegisterTable, Start, ScriptEnds,
              ScriptFails, AddHandler, DropPool, AddReturns, AddThrows, Leave, pool
<1>3. ASSUME NEW h \in Handlers, Receive(h) \/ HandlerStep(h)
      PROVE  FALSE
  BY <1>3 DEF Receive, HandlerStep, EnterGuard, ReplicaStarts, Emplace, ReplicaThrows, CountDown,
              NoteTime, StopHandler, pool
<1> QED
  BY <1>1, <1>2, <1>3 DEF Next, vars, pool

LEMMA DestroyEffect ==
  ASSUME TypeOK, NEW t \in Threads, DestroyStep(t)
  PROVE  /\ offered' = offered /\ pc[t] = "destroy"
         /\ stage.at \in {"next", "replicas", "members", "join"}
         /\ \/ /\ stage'.at \in {"replicas", "members", "join"}
               /\ stage'.agent \in Agents \cup {stage.agent}
               /\ stage.at = "next" => stage'.agent \in Agents
            \/ stage'.at = "next"
            \/ stage'.at = "down" /\ \A i \in Ids : slot'[i] = None
<1> USE DEF TypeOK
<1>1. ASSUME NEW a \in Agents, ClearReplicas(t, a)
      PROVE  /\ offered' = offered /\ pc[t] = "destroy" /\ stage.at = "next"
             /\ stage'.at \in {"replicas", "members"} /\ stage'.agent = a
  BY <1>1 DEF ClearReplicas
<1>2. ASSUME ReplicasJoined(t) \/ DestroyMembers(t)
      PROVE  /\ offered' = offered /\ pc[t] = "destroy" /\ stage.at \in {"replicas", "members"}
             /\ stage'.at \in {"members", "join"} /\ stage'.agent = stage.agent
  BY <1>2 DEF ReplicasJoined, DestroyMembers
<1>3. ASSUME ThreadJoined(t)
      PROVE  /\ offered' = offered /\ pc[t] = "destroy" /\ stage.at = "join"
             /\ stage'.at = "next"
  BY <1>3 DEF ThreadJoined
<1>4. ASSUME DeleteAgents(t)
      PROVE  /\ offered' = offered /\ pc[t] = "destroy" /\ stage.at = "next"
             /\ stage'.at = "down" /\ \A i \in Ids : slot'[i] = None
  BY <1>4 DEF DeleteAgents
<1> QED
  BY <1>1, <1>2, <1>3, <1>4 DEF DestroyStep

LEMMA PoolKept ==
  ASSUME OwnInv, [Next]_vars
  PROVE  PoolPhases'
<1>0. /\ DOMAIN pc = Actors /\ TypeOK /\ PoolPhases
      /\ App \in Actors /\ App \notin Agents /\ None \notin Agents
  BY ActorFacts DEF OwnInv, TypeOK
<1>a. Holders \subseteq Actors /\ Holders' \subseteq Actors
  BY DEF Holders, Actors
<1>1. CASE UNCHANGED <<offered, stage>>
  <2>1. /\ ~ShutdownAgents
        /\ \A a \in Agents : ~DestroyPoolInAdd(a)
        /\ \A t \in Threads : ~DestroyPoolInSend(t)
    BY <1>1 DEF ShutdownAgents, DestroyPoolInAdd, DestroyPoolInSend, LastHolder, NoStage
  <2>2. pc'[App] \in {"destroy", "stopped"} <=> pc[App] \in {"destroy", "stopped"}
    BY <2>1, AppMoves
  <2>3. stage.at = "none" => \A x \in Actors : pc'[x] \notin {"destroy", "destroys"}
    <3>1. SUFFICES ASSUME stage.at = "none", NEW x \in Actors, pc'[x] # pc[x]
                   PROVE  pc'[x] \notin {"destroy", "destroys"}
      BY <1>0 DEF PoolPhases
    <3>2. CASE x \in Agents
      BY <2>1, <3>1, <3>2, AgentMoves
    <3>3. CASE x \in Handlers
      <4>1. pc'[x] # "destroy"
        BY <1>0, <2>1, <3>1, <3>3, HandlerDestroys DEF PoolPhases
      <4>2. pc'[x] \in HandlerPlaces
        BY <3>3, TypesKept, ActorFacts DEF TypeOK, HandlerPlaces
      <4> QED
        BY <4>1, <4>2 DEF HandlerPlaces
    <3>4. CASE x = App
      BY <2>1, <3>1, <3>4, AppMoves
    <3> QED
      BY <3>2, <3>3, <3>4 DEF Actors, Threads
  <2>4. stage.at # "none" => Holders' = {}
    <3>1. stage.at # "none" => ~offered /\ Holders = {}
      BY <1>0 DEF PoolPhases, NoStage
    <3> QED
      BY <1>a, <3>1, HoldersSteps
  <2>5. stage.at = "down" => \A i \in Ids : slot'[i] = None
    <3>1. ASSUME NEW a \in Agents, ScriptEnds(a)
          PROVE  stage.at # "down"
      BY <1>0, <3>1 DEF PoolPhases, ScriptEnds, Holders, Starting
    <3>2. ASSUME NEW t \in Threads, ThreadJoined(t)
          PROVE  stage.at # "down"
      BY <3>2 DEF ThreadJoined
    <3> QED
      BY <1>0, <3>1, <3>2, SlotSteps DEF PoolPhases
  <2> QED
    BY <1>0, <1>1, <2>2, <2>3, <2>4, <2>5 DEF PoolPhases
<1>2. CASE ShutdownAgents
  <2>1. /\ ~offered' /\ offered /\ pc'[App] \in {"destroy", "stopped"}
        /\ stage = NoStage /\ slot' = slot
    BY <1>0, <1>2 DEF ShutdownAgents, Goto, PoolPhases
  <2>2. CASE Holders = {}
    <3>1. stage'.at = "next" /\ pc' = [pc EXCEPT ![App] = "destroy"]
      BY <1>2, <2>2 DEF ShutdownAgents, Goto
    <3>2. Holders' = {}
      BY <1>0, <2>2, <3>1 DEF Holders
    <3> QED
      BY <2>1, <3>1, <3>2 DEF PoolPhases
  <2>3. CASE Holders # {}
    <3>1. stage' = NoStage /\ pc' = [pc EXCEPT ![App] = "stopped"]
      BY <1>2, <2>1, <2>3 DEF ShutdownAgents, Goto
    <3>2. \A x \in Actors : pc'[x] \notin {"destroy", "destroys"}
      BY <1>0, <2>1, <3>1 DEF PoolPhases, NoStage
    <3> QED
      BY <2>1, <3>1, <3>2 DEF PoolPhases, NoStage
  <2> QED
    BY <2>2, <2>3
<1>3. ASSUME NEW x \in Holders, LastHolder(x), offered' = offered,
             stage' = [at |-> "next", agent |-> None],
             \A y \in Actors : pc'[y] = "sends" \/ (y \in Agents /\ pc'[y] \in Starting)
                                 => y \in Holders /\ y # x
      PROVE  PoolPhases'
  <2>1. ~offered' /\ Holders = {x}
    BY <1>3 DEF LastHolder
  <2>2. Holders' = {}
    BY <1>3, <2>1 DEF Holders, Actors
  <2>3. pc'[App] \in {"destroy", "stopped"}
    <3>1. pc[App] \in {"destroy", "stopped"}
      BY <1>0, <1>3, <2>1 DEF PoolPhases
    <3>2. ~ShutdownAgents
      BY <1>3, <2>1 DEF ShutdownAgents
    <3> QED
      BY <3>1, <3>2, AppMoves
  <2> QED
    BY <1>3, <2>1, <2>2, <2>3 DEF PoolPhases
<1>4. ASSUME NEW a \in Agents, DestroyPoolInAdd(a)
      PROVE  PoolPhases'
  <2>1. caller[a] \in Handlers
    BY <1>4, LastCaller
  <2>2. pc' = [pc EXCEPT ![a] = "destroys", ![caller[a]] = "destroy"]
    BY <1>4 DEF DestroyPoolInAdd
  <2>3. \A y \in Actors : pc'[y] = "sends" \/ (y \in Agents /\ pc'[y] \in Starting)
                            => y \in Holders /\ y # a
    BY <1>0, <2>2 DEF Holders, Starting
  <2>4. LastHolder(a) /\ a \in Holders /\ offered' = offered
    BY <1>4 DEF DestroyPoolInAdd, LastHolder
  <2> QED
    BY <1>3, <1>4, <2>3, <2>4 DEF DestroyPoolInAdd
<1>5. ASSUME NEW t \in Threads, DestroyPoolInSend(t)
      PROVE  PoolPhases'
  <2>1. pc' = [pc EXCEPT ![t] = "destroy"] /\ LastHolder(t) /\ t \in Holders /\ offered' = offered
    BY <1>5 DEF DestroyPoolInSend, LastHolder, Goto
  <2>2. \A y \in Actors : pc'[y] = "sends" \/ (y \in Agents /\ pc'[y] \in Starting)
                            => y \in Holders /\ y # t
    BY <1>0, <2>1 DEF Holders, Starting
  <2> QED
    BY <1>3, <1>5, <2>1, <2>2 DEF DestroyPoolInSend
<1>6. ASSUME NEW t \in Threads, DestroyStep(t)
      PROVE  PoolPhases'
  <2>1. /\ offered' = offered /\ ~offered /\ stage.at # "none" /\ pc[t] = "destroy"
    <3>1. offered' = offered /\ stage.at # "none" /\ pc[t] = "destroy"
      BY <1>0, <1>6, DestroyEffect
    <3> QED
      BY <1>0, <3>1 DEF PoolPhases, NoStage
  <2>2. Holders' = {}
    BY <1>0, <1>a, <2>1, HoldersSteps DEF PoolPhases
  <2>3. pc'[App] \in {"destroy", "stopped"}
    <3>1. pc[App] \in {"destroy", "stopped"} /\ ~ShutdownAgents
      BY <1>0, <2>1 DEF PoolPhases, ShutdownAgents
    <3> QED
      BY <3>1, AppMoves
  <2>4. \/ stage'.at \in {"replicas", "members", "join"} /\ stage'.agent # None
        \/ stage'.at = "next"
        \/ stage'.at = "down" /\ \A i \in Ids : slot'[i] = None
    <3>1. \/ /\ stage'.at \in {"replicas", "members", "join"}
             /\ stage'.agent \in Agents \cup {stage.agent}
             /\ stage.at = "next" => stage'.agent \in Agents
          \/ stage'.at = "next"
          \/ stage'.at = "down" /\ \A i \in Ids : slot'[i] = None
      BY <1>0, <1>6, DestroyEffect, Zenon
    <3>2. stage.at = "next" \/ stage.at \in {"replicas", "members", "join"}
      BY <1>0, <1>6, DestroyEffect
    <3> QED
      BY <1>0, <3>1, <3>2 DEF PoolPhases
  <2>5. stage'.at = "down" => \A i \in Ids : slot'[i] = None
    BY <2>4
  <2> QED
    BY <2>1, <2>2, <2>3, <2>4, <2>5 DEF PoolPhases
<1> QED
  BY <1>1, <1>2, <1>4, <1>5, <1>6, StageSteps

LEMMA DownStays ==
  ASSUME OwnInv, [Next]_vars, stage.at = "down"
  PROVE  stage'.at = "down"
<1>1. ~offered /\ TypeOK
  BY DEF OwnInv, PoolPhases, NoStage
<1>2. /\ ~ShutdownAgents /\ \A a \in Agents : ~DestroyPoolInAdd(a)
      /\ \A t \in Threads : ~DestroyPoolInSend(t) /\ ~DestroyStep(t)
  BY <1>1, DestroyEffect
  DEF ShutdownAgents, DestroyPoolInAdd, DestroyPoolInSend, LastHolder, NoStage
<1> QED
  BY <1>2, StageSteps

\* When no message is counted, nobody is sending or adding an agent.
LEMMA QuietHolders ==
  ASSUME OwnInv, CallsAreNested, Quiet, pc[App] = "free"
  PROVE  Holders = {}
<1>0. CallersWait /\ None \notin Actors /\ Agents \subseteq Actors
  BY ActorFacts DEF OwnInv
<1>1. \A t \in Threads : pc[t] \notin {"sends", "calls", "destroy", "stopped"}
  BY DEF Quiet, Threads
<1>2. ASSUME NEW c \in Agents, caller[c] \in Threads
      PROVE  FALSE
  <2>1. caller[c] # None
    BY <1>2, ActorFacts
  <2> QED
    BY <1>0, <1>1, <1>2, <2>1 DEF CallersWait
<1>3. ASSUME NEW a \in Agents, pc[a] \in Adding
      PROVE  FALSE
  <2>1. caller[a] # None
    BY <1>0, <1>3 DEF CallersWait
  <2>2. PICK above \in [Agents -> SUBSET Agents] : Chains(above)
    BY DEF CallsAreNested
  <2>3. \E c \in above[a] \cup {a} : caller[c] \in Threads
    BY <2>1, <2>2 DEF Chains
  <2> QED
    BY <1>2, <2>2, <2>3
<1>4. \A a \in Agents : pc[a] \notin Starting \cup {"sends"}
  BY <1>3 DEF Adding, Starting
<1> QED
  BY <1>1, <1>4 DEF Holders, Actors

LEMMA AppDestroysKept ==
  ASSUME OwnInv, CallsAreNested, AppDestroys, PoolPhases', [Next]_vars
  PROVE  AppDestroys'
<1> SUFFICES ASSUME WaitFirst
             PROVE  /\ ~offered' => stage'.at # "none" /\ \A h \in Handlers : pc'[h] # "destroy"
                    /\ pc'[App] = "stopped" => stage'.at = "down"
  BY DEF AppDestroys
<1>0. /\ DOMAIN pc = Actors /\ TypeOK /\ PoolPhases
      /\ App \in Actors /\ App \notin Handlers /\ Handlers \subseteq Actors
  BY ActorFacts DEF OwnInv, TypeOK
<1>1. CASE ShutdownAgents
  <2>1. Holders = {} /\ pc[App] = "free" /\ offered
    BY <1>1, QuietHolders DEF ShutdownAgents
  <2>2. stage'.at = "next" /\ pc' = [pc EXCEPT ![App] = "destroy"]
    BY <1>1, <2>1 DEF ShutdownAgents, Goto
  <2>3. \A h \in Handlers : pc[h] # "destroy"
    BY <1>0, <2>1 DEF PoolPhases, NoStage
  <2> QED
    BY <1>0, <2>2, <2>3
<1>2. CASE ~ShutdownAgents
  <2>1. ASSUME ~offered'
        PROVE  ~offered
    <3>1. ASSUME NEW t \in Threads, DestroyStep(t)
          PROVE  offered' = offered
      BY <1>0, <3>1, DestroyEffect
    <3> QED
      BY <1>2, <2>1, <3>1, StageSteps DEF DestroyPoolInAdd, DestroyPoolInSend
  <2>2. ASSUME ~offered
        PROVE  /\ stage.at # "none"
               /\ \A a \in Agents : ~DestroyPoolInAdd(a)
               /\ \A t \in Threads : ~DestroyPoolInSend(t)
    BY <2>2 DEF AppDestroys, DestroyPoolInAdd, DestroyPoolInSend, LastHolder, NoStage
  <2>3. ASSUME ~offered
        PROVE  stage'.at # "none"
    <3>1. ASSUME NEW t \in Threads, DestroyStep(t)
          PROVE  stage'.at # "none"
      BY <1>0, <3>1, DestroyEffect
    <3> QED
      BY <1>2, <2>2, <2>3, <3>1, StageSteps
  <2>4. ASSUME ~offered, NEW h \in Handlers
        PROVE  pc'[h] # "destroy"
    <3>1. pc[h] # "destroy"
      BY <2>4 DEF AppDestroys
    <3> QED
      BY <2>2, <2>4, <3>1, HandlerDestroys
  <2>5. ASSUME pc'[App] = "stopped"
        PROVE  stage'.at = "down"
    <3>1. CASE pc[App] = "stopped"
      BY <3>1, DownStays DEF AppDestroys
    <3>2. CASE DeleteAgents(App)
      BY <3>2 DEF DeleteAgents
    <3> QED
      BY <1>2, <2>5, <3>1, <3>2, AppMoves
  <2> QED
    BY <2>1, <2>3, <2>4, <2>5
<1> QED
  BY <1>1, <1>2

(***************************************************************************)
(* Agents and threads that belong to them                                  *)
(***************************************************************************)
\* A name stays with its agent until the agents are deleted, unless the same
\* name is entered twice.
LEMMA NamesStay ==
  ASSUME OwnInv, [Next]_vars, ~raced', stage'.at # "down", NEW n \in Names, byName[n] # None
  PROVE  byName'[n] = byName[n]
<1>1. ASSUME NEW a \in Agents, AddEnters(a)
      PROVE  byName'[n] = byName[n]
  <2>1. n # Name[a]
    BY <1>1 DEF AddEnters
  <2> QED
    BY <1>1, <2>1 DEF AddEnters, OwnInv, TypeOK
<1>2. \A t \in Threads : ~DeleteAgents(t)
  BY DEF DeleteAgents
<1> QED
  BY <1>1, <1>2, NameSteps

LEMMA RacedStays ==
  ASSUME OwnInv, [Next]_vars, raced
  PROVE  raced'
<1>1. ASSUME NEW x \in Actors, ScriptStep(x)
      PROVE  raced'
  BY <1>1 DEF ScriptStep, SendBegins, SendEnds, AddChecks, registry
<1>2. ASSUME NEW a \in Agents, AddMessage(a) \/ AddStep(a)
      PROVE  raced'
  BY <1>2 DEF AddMessage, Declare, AddStep, AddEnters, RegisterTable, Start, ScriptEnds,
              ScriptFails, AddHandler, DropPool, DestroyPoolInAdd, AddReturns, AddThrows, Leave,
              registry
<1>3. ASSUME NEW h \in Handlers, Receive(h) \/ HandlerStep(h)
      PROVE  raced'
  BY <1>3 DEF Receive, HandlerStep, EnterGuard, ReplicaStarts, Emplace, ReplicaThrows, CountDown,
              NoteTime, StopHandler, registry
<1>4. ASSUME NEW t \in Threads, DestroyPoolInSend(t) \/ DestroyStep(t)
      PROVE  raced'
  BY <1>4 DEF DestroyPoolInSend, DestroyStep, ClearReplicas, ReplicasJoined, DestroyMembers,
              ThreadJoined, DeleteAgents, registry
<1> QED
  BY <1>1, <1>2, <1>3, <1>4 DEF Next, ShutdownAgents, vars, registry

LEMMA EnteredKept ==
  ASSUME OwnInv, EnteredStays, [Next]_vars, TypeOK'
  PROVE  EnteredStays'
<1> SUFFICES ASSUME ~raced', stage'.at # "down"
             PROVE  EnteredStays'
  BY DEF EnteredStays
<1>0. TypeOK /\ PoolPhases
  BY DEF OwnInv
<1>1. ~raced /\ stage.at # "down"
  BY RacedStays, DownStays
<1>2. Name \in [Agents -> Names] /\ None \notin Agents /\ None \notin Ids
  BY LifecycleAssumption, ActorFacts
<1>3. ASSUME NEW a \in Agents, byName[Name[a]] = a
      PROVE  byName'[Name[a]] = a
  <2>1. Name[a] \in Names /\ byName[Name[a]] # None
    BY <1>2, <1>3
  <2> QED
    BY <1>3, <2>1, NamesStay
<1>4. ASSUME NEW a \in Agents, pc'[a] \in Adding \ {"enter"}
      PROVE  byName'[Name[a]] = a
  <2>1. CASE pc[a] \in Adding \ {"enter"}
    BY <1>1, <1>3, <2>1 DEF EnteredStays
  <2>2. CASE AddEnters(a)
    BY <1>0, <1>2, <2>2 DEF AddEnters, TypeOK
  <2>3. pc[a] \in Adding \ {"enter"} \/ AddEnters(a)
    BY <1>4, AgentMoves DEF Adding, Starting
  <2> QED
    BY <2>1, <2>2, <2>3
<1>5. ASSUME NEW i \in Ids, slot'[i] # None
      PROVE  byName'[Name[slot'[i]]] = slot'[i] /\ id'[slot'[i]] = i
  <2>1. CASE slot'[i] = slot[i]
    <3>1. PICK a \in Agents : a = slot[i]
      BY <1>0, <1>5, <2>1 DEF TypeOK
    <3>2. byName[Name[a]] = a /\ id[a] = i
      BY <1>1, <1>5, <2>1, <3>1 DEF EnteredStays
    <3>3. byName'[Name[a]] = a
      BY <1>3, <3>2
    <3>4. Alive(a)'
      BY <1>2, <3>3 DEF Alive
    <3>5. id'[a] = i
      BY <1>2, <3>2, <3>4, IdStays
    <3> QED
      BY <2>1, <3>1, <3>3, <3>5
  <2>2. ASSUME NEW a \in Agents, ScriptEnds(a), slot'[i] # slot[i]
        PROVE  byName'[Name[slot'[i]]] = slot'[i] /\ id'[slot'[i]] = i
    <3>1. i = id[a] /\ slot'[i] = a /\ id' = id
      BY <1>0, <2>2 DEF ScriptEnds, TypeOK, ids
    <3>2. byName[Name[a]] = a
      BY <1>1, <2>2 DEF EnteredStays, Adding, Starting, ScriptEnds
    <3> QED
      BY <1>3, <3>1, <3>2
  <2>3. ASSUME NEW t \in Threads, ThreadJoined(t), slot'[i] # slot[i]
        PROVE  FALSE
    BY <1>5, <2>3 DEF ThreadJoined
  <2> QED
    BY <2>1, <2>2, <2>3, SlotSteps
<1> QED
  BY <1>4, <1>5 DEF EnteredStays

LEMMA ThreadsKept ==
  ASSUME OwnInv, IdsDiffer, EnteredStays, HandlersHaveThreads, [Next]_vars, CallersWait'
  PROVE  HandlersHaveThreads'
<1> SUFFICES ASSUME ~raced'
             PROVE  HandlersHaveThreads'
  BY DEF HandlersHaveThreads
<1>0. TypeOK /\ PoolPhases /\ NoHandlersBefore /\ Agents \subseteq Actors
  BY ActorFacts DEF OwnInv
<1>1. ~raced /\ None \notin Agents /\ None \notin Ids
  BY RacedStays, ActorFacts
<1>2. ASSUME NEW h \in Handlers, NEW i \in Ids, slot[i] = h[1], pc[h] # "none"
      PROVE  \E j \in Ids : slot'[j] = h[1]
  <2>1. CASE slot' = slot
    BY <1>2, <2>1
  <2>2. ASSUME NEW a \in Agents, ScriptEnds(a)
        PROVE  slot'[i] = h[1]
    <3>1. h[1] \in Agents /\ stage.at # "down"
      BY <1>0, <2>2, ActorFacts DEF ScriptEnds, PoolPhases, Holders, Starting
    <3>2. id[h[1]] = i
      BY <1>1, <1>2, <3>1 DEF EnteredStays
    <3>3. i = id[a] => a = h[1]
      BY <1>1, <3>1, <3>2 DEF IdsDiffer
    <3> QED
      BY <1>0, <1>2, <2>2, <3>3 DEF ScriptEnds, TypeOK
  <2>3. ASSUME NEW t \in Threads, ThreadJoined(t)
        PROVE  slot'[i] = h[1]
    <3>1. stage.agent # h[1]
      BY <1>2, <2>3, ActorFacts DEF ThreadJoined, Joined
    <3> QED
      BY <1>0, <1>2, <2>3, <3>1 DEF ThreadJoined
  <2> QED
    BY <2>1, <2>2, <2>3, SlotSteps
<1>3. ASSUME NEW h \in Handlers, pc'[h] # "none"
      PROVE  \E i \in Ids : slot'[i] = h[1]
  <2>1. CASE pc[h] # "none"
    BY <1>1, <1>2, <2>1 DEF HandlersHaveThreads
  <2>2. ASSUME NEW a \in Agents, AddHandler(a), h = <<a, "primary">>
        PROVE  \E i \in Ids : slot'[i] = h[1]
    <3>1. pc[a] = "handler" /\ slot' = slot /\ h[1] = a
      BY <2>2 DEF AddHandler, pool
    <3>2. id[a] \in Ids /\ slot[id[a]] = a
      BY <1>0, <1>1, <3>1 DEF NoHandlersBefore, HandlersHaveThreads, TypeOK
    <3> QED
      BY <3>1, <3>2
  <2>3. ASSUME NEW g \in Handlers, ReplicaStarts(g), h = <<g[1], "replica">>
        PROVE  \E i \in Ids : slot'[i] = h[1]
    <3>1. pc[g] # "none" /\ h[1] = g[1]
      BY <2>3 DEF ReplicaStarts
    <3> QED
      BY <1>1, <1>2, <3>1 DEF HandlersHaveThreads
  <2>4. pc[h] # "none" \/ Begins(h)
    BY <1>3, HandlerMoves
  <2> QED
    BY <2>1, <2>2, <2>3, <2>4 DEF Begins
<1>4. ASSUME NEW a \in Agents, pc'[a] = "handler"
      PROVE  slot'[id'[a]] = a
  <2>1. CASE pc[a] = "handler"
    <3>1. id[a] \in Ids /\ slot[id[a]] = a /\ stage.at # "join"
      BY <1>0, <1>1, <2>1 DEF NoHandlersBefore, HandlersHaveThreads, TypeOK, PoolPhases, Holders,
                              Starting
    <3>2. Alive(a)'
      BY <1>4 DEF Alive, CallersWait, Adding, Starting
    <3>3. id'[a] = id[a]
      BY <1>1, <3>1, <3>2, IdStays
    <3>4. ASSUME NEW b \in Agents, ScriptEnds(b)
          PROVE  slot'[id[a]] = a
      <4>1. b # a
        BY <2>1, <3>4 DEF ScriptEnds
      <4>2. id[b] # id[a]
        BY <1>1, <3>1, <4>1 DEF IdsDiffer
      <4> QED
        BY <1>0, <3>1, <3>4, <4>2 DEF ScriptEnds, TypeOK
    <3>5. \A t \in Threads : ~ThreadJoined(t)
      BY <3>1 DEF ThreadJoined
    <3> QED
      BY <3>1, <3>3, <3>4, <3>5, SlotSteps
  <2>2. CASE pc[a] # "handler"
    <3>1. ScriptEnds(a) /\ pc[a] = "run"
      BY <1>4, <2>2, AgentMoves
    <3>2. id[a] \in Ids /\ id' = id
      BY <1>0, <3>1 DEF ScriptEnds, NoHandlersBefore, TypeOK, ids
    <3> QED
      BY <1>0, <3>1, <3>2 DEF ScriptEnds, TypeOK
  <2> QED
    BY <2>1, <2>2
<1> QED
  BY <1>3, <1>4 DEF HandlersHaveThreads

(***************************************************************************)
(* The end of ShutdownAgents                                               *)
(***************************************************************************)
\* Who holds the pool keeps it, leaves it to another holder, or destroys it.
LEMMA HolderLeaves ==
  ASSUME OwnInv, [Next]_vars, NEW x \in Holders, pc[App] = "stopped"
  PROVE  Holders' # {} \/ \E g \in Handlers : pc'[g] = "destroy"
<1> SUFFICES ASSUME x \notin Holders'
             PROVE  Holders' # {} \/ \E g \in Handlers : pc'[g] = "destroy"
  OBVIOUS
<1>0. x \in Actors /\ Agents \subseteq Actors /\ DOMAIN pc = Actors /\ PoolPhases
  BY ActorFacts DEF Holders, OwnInv, TypeOK
<1>1. stage = NoStage /\ ~offered
  BY <1>0 DEF PoolPhases, NoStage
<1>2. x # App
  BY ActorFacts DEF Holders
<1>3. ASSUME ~LastHolder(x), NEW p, pc' = [pc EXCEPT ![x] = p]
      PROVE  Holders' # {}
  <2>1. PICK y \in Holders : y # x
    BY <1>1, <1>3 DEF LastHolder
  <2>2. y \in Actors /\ pc'[y] = pc[y]
    BY <1>0, <1>3, <2>1 DEF Holders
  <2> QED
    BY <2>1, <2>2 DEF Holders
<1>4. CASE x \in Handlers
  <2>1. pc[x] = "sends" /\ pc'[x] # "sends" /\ x \in Threads
    BY <1>0, <1>4, ActorFacts DEF Holders
  <2>2. SendEnds(x) \/ DestroyPoolInSend(x)
    BY <1>4, <2>1, HandlerMoves
  <2>3. CASE SendEnds(x)
    BY <1>3, <2>1, <2>3 DEF SendEnds, Goto
  <2>4. CASE DestroyPoolInSend(x)
    BY <1>0, <1>4, <2>4 DEF DestroyPoolInSend, Goto
  <2> QED
    BY <2>2, <2>3, <2>4
<1>5. CASE x \in Agents
  <2>1. pc[x] \in Starting \cup {"sends"} /\ pc'[x] \notin Starting \cup {"sends"}
    BY <1>0, <1>5, ActorFacts DEF Holders
  <2>2. DropPool(x) \/ DestroyPoolInAdd(x)
    BY <1>5, <2>1, AgentMoves DEF Starting
  <2>3. CASE DropPool(x)
    BY <1>3, <2>3 DEF DropPool, Goto
  <2>4. CASE DestroyPoolInAdd(x)
    <3>1. caller[x] \in Handlers /\ caller[x] \in Actors
      BY <1>5, <2>4, LastCaller, ActorFacts
    <3>2. pc'[caller[x]] = "destroy"
      BY <1>0, <2>4, <3>1 DEF DestroyPoolInAdd
    <3> QED
      BY <3>1, <3>2
  <2> QED
    BY <2>2, <2>3, <2>4
<1> QED
  BY <1>0, <1>2, <1>4, <1>5 DEF Actors, Threads

LEMMA OnlyHoldersKept ==
  ASSUME Inv, [Next]_vars
  PROVE  OnlyHoldersOutliveShutdown'
<1> SUFFICES ASSUME ~raced', pc'[App] = "stopped"
             PROVE  \/ stage'.at = "down" /\ \A h \in Handlers : pc'[h] = "none"
                    \/ Holders' # {}
                    \/ \E h \in Handlers : pc'[h] = "destroy"
  BY DEF OnlyHoldersOutliveShutdown
<1>0. OwnInv /\ HandlersHaveThreads /\ OnlyHoldersOutliveShutdown /\ ~raced
  BY RacedStays DEF Inv
<1>1. /\ App \in Actors /\ App \notin Handlers /\ App \notin Agents /\ DOMAIN pc = Actors
      /\ PoolPhases /\ None \notin Agents
      /\ \A h \in Handlers : h \in Actors /\ h \in Threads /\ h[1] \in Agents
  BY <1>0, ActorFacts DEF OwnInv, TypeOK
<1>2. CASE pc[App] = "stopped" /\ stage.at = "down" /\ \A h \in Handlers : pc[h] = "none"
  <2>1. stage'.at = "down" /\ Holders = {}
    BY <1>0, <1>1, <1>2, DownStays DEF PoolPhases
  <2>2. ASSUME NEW h \in Handlers
        PROVE  ~Begins(h)
    BY <1>2, <2>1, ActorFacts DEF Begins, AddHandler, ReplicaStarts, Holders, Starting
  <2>3. \A h \in Handlers : pc'[h] = "none"
    BY <1>0, <1>2, <2>2, HandlerMoves
  <2> QED
    BY <2>1, <2>3
<1>3. CASE pc[App] = "stopped" /\ Holders # {}
  BY <1>0, <1>3, HolderLeaves
<1>4. ASSUME NEW t \in Threads, DeleteAgents(t), NEW h \in Handlers, pc[h] # "none"
      PROVE  FALSE
  BY <1>0, <1>1, <1>4 DEF DeleteAgents, HandlersHaveThreads
<1>5. ASSUME pc[App] = "stopped", NEW h \in Handlers, pc[h] = "destroy"
      PROVE  pc'[h] = "destroy"
  <2>1. ~DeleteAgents(h)
    BY <1>1, <1>4, <1>5
  <2> QED
    BY <1>0, <1>5, <2>1, HandlerMoves
<1>6. CASE pc[App] # "stopped"
  <2>1. ShutdownAgents \/ DeleteAgents(App)
    BY <1>0, <1>6, AppMoves
  <2>2. CASE ShutdownAgents
    <3>1. Holders # {} /\ pc' = [pc EXCEPT ![App] = "stopped"]
      BY <1>1, <2>2 DEF ShutdownAgents, Goto
    <3>2. PICK x \in Holders : TRUE
      BY <3>1
    <3>3. x \in Actors /\ x # App
      BY <1>1, <2>2, <3>2 DEF Holders, ShutdownAgents, Actors
    <3>4. x \in Holders'
      BY <1>1, <3>1, <3>2, <3>3 DEF Holders
    <3> QED
      BY <3>4
  <2>3. CASE DeleteAgents(App)
    <3>1. stage'.at = "down" /\ pc' = [pc EXCEPT ![App] = "stopped"]
      BY <2>3 DEF DeleteAgents, Goto
    <3>2. \A h \in Handlers : pc[h] = "none"
      BY <1>4, <2>3, ActorFacts
    <3> QED
      BY <1>1, <3>1, <3>2
  <2> QED
    BY <2>1, <2>2, <2>3
<1> QED
  BY <1>0, <1>2, <1>3, <1>5, <1>6 DEF OnlyHoldersOutliveShutdown

(***************************************************************************)
(* The theorems                                                            *)
(***************************************************************************)
LEMMA InitFacts ==
  ASSUME Init
  PROVE  Inv
<1> USE LifecycleAssumption DEF Init, NoStage
<1>0. /\ App \in Threads /\ App \in Actors /\ App \notin Handlers /\ App \notin Agents
      /\ \A h \in Handlers : h \in Actors /\ h # App /\ h \notin Agents
      /\ Agents \subseteq Actors
      /\ \A a \in Agents : \A h \in HandlersOf(a) : h \in Handlers
      /\ \A a \in Agents : <<a, "replica">> \in Handlers
      /\ None \notin Threads
  BY ActorFacts
<1>1. pc[App] = "free" /\ (\A h \in Handlers : pc[h] = "none") /\ \A a \in Agents : pc[a] = "new"
  BY <1>0
<1>2. TypeOK
  BY <1>1 DEF TypeOK
<1>3. CallersWait
  BY <1>1 DEF CallersWait, Adding, Starting
<1>4. NothingBeforeStart
  BY <1>0, <1>1 DEF NothingBeforeStart, Untouched
<1>5. NoHandlersBefore
  BY <1>1 DEF NoHandlersBefore
<1>6. Builders
  <2>1. \A h \in Handlers : h[1] \in Agents /\ guard[h[1]] # h
    BY <1>0, ActorFacts
  <2> QED
    BY <1>0, <1>1, <2>1 DEF Builders, Builds
<1>7. PoolPhases
  <2>1. \A x \in Actors : pc[x] \in {"free", "none", "new"}
    OBVIOUS
  <2> QED
    BY <1>1, <2>1 DEF PoolPhases
<1>8. OwnInv
  BY <1>2, <1>3, <1>4, <1>5, <1>6, <1>7 DEF OwnInv
<1>9. CallsAreNested
  <2>1. [a \in Agents |-> {}] \in [Agents -> SUBSET Agents]
    OBVIOUS
  <2>2. \A a \in Agents : caller[a] = None
    OBVIOUS
  <2> QED
    BY <2>1, <2>2 DEF CallsAreNested, Chains
<1>10. DeclaredWithOwnId /\ IdsDiffer /\ AppDestroys
  BY <1>1 DEF DeclaredWithOwnId, IdsDiffer, AppDestroys
<1>11. EnteredStays /\ HandlersHaveThreads /\ OnlyHoldersOutliveShutdown
  BY <1>1 DEF EnteredStays, HandlersHaveThreads, OnlyHoldersOutliveShutdown, Adding, Starting
<1> QED
  BY <1>8, <1>9, <1>10, <1>11 DEF Inv

LEMMA InvKept ==
  ASSUME Inv, [Next]_vars
  PROVE  Inv'
<1>0. /\ OwnInv /\ CallsAreNested /\ DeclaredWithOwnId /\ IdsDiffer
      /\ AppDestroys /\ EnteredStays /\ HandlersHaveThreads
  BY DEF Inv
<1>1. TypeOK'
  BY <1>0, TypesKept
<1>2. CallersWait'
  BY <1>0, <1>1, CallersKept
<1>3. NothingBeforeStart' /\ NoHandlersBefore'
  BY <1>0, <1>2, StartsKept, BeforeHandlersKept
<1>4. Builders' /\ PoolPhases'
  BY <1>0, BuildersKept, PoolKept
<1>5. CallsAreNested' /\ DeclaredWithOwnId' /\ IdsDiffer'
  BY <1>0, NestedKept, DeclaredKept, IdsKept
<1>6. AppDestroys' /\ EnteredStays' /\ HandlersHaveThreads'
  BY <1>0, <1>1, <1>2, <1>4, AppDestroysKept, EnteredKept, ThreadsKept
<1>7. OnlyHoldersOutliveShutdown'
  BY OnlyHoldersKept
<1> QED
  BY <1>1, <1>2, <1>3, <1>4, <1>5, <1>6, <1>7 DEF Inv, OwnInv

\* The inductive invariant above holds in every state.
THEOREM LifecycleInvariant == Spec => []Inv
<1>1. Init => Inv
  BY InitFacts
<1>2. Inv /\ [Next]_vars => Inv'
  BY InvKept
<1> QED
  BY <1>1, <1>2, PTL DEF Spec

\* The variables of the life cycle have their types; in particular agents::Add
\* finds a free id for every agent it starts (agent.cpp:156-175).
THEOREM LifecycleTypes == Spec => []TypeOK
<1>1. Inv => TypeOK
  BY DEF Inv, OwnInv
<1> QED
  BY <1>1, LifecycleInvariant, PTL

\* A handler is never left without its agent: while scripts and replicas fail,
\* scripts add agents, send messages and replicate, and whoever lets go of the
\* pool last destroys it, the agent lives as long as its thread object, with
\* the id it is known by, unless two threads added the same name at once
\* (agents.cpp:73-87, 164-194).
THEOREM HandlersKeepAgents == Spec => []HandlersHaveAgents
<1>1. ASSUME Inv
      PROVE  HandlersHaveAgents
  <2>0. TypeOK /\ PoolPhases /\ EnteredStays /\ HandlersHaveThreads
    BY <1>1 DEF Inv, OwnInv
  <2>1. ASSUME ~raced, NEW i \in Ids, slot[i] # None
        PROVE  Alive(slot[i]) /\ id[slot[i]] = i
    <3>1. slot[i] \in Agents /\ Name[slot[i]] \in Names /\ stage.at # "down"
      BY <2>0, <2>1, LifecycleAssumption DEF TypeOK, PoolPhases
    <3> QED
      BY <2>0, <2>1, <3>1 DEF EnteredStays, Alive
  <2>2. ASSUME ~raced, NEW h \in Handlers, pc[h] # "none"
        PROVE  Alive(h[1])
    <3>1. PICK i \in Ids : slot[i] = h[1]
      BY <2>0, <2>2 DEF HandlersHaveThreads
    <3>2. h[1] # None
      BY ActorFacts
    <3> QED
      BY <2>1, <2>2, <3>1, <3>2
  <2> QED
    BY <2>1, <2>2 DEF HandlersHaveAgents
<1> QED
  BY <1>1, LifecycleInvariant, PTL

\* Whatever agents come and go and whichever ids are used again, the messages
\* of an agent that exists carry the id it has now: what they are sent to is
\* its own queue (agent.cpp:156-175, lua_extension.cpp:479-563).
THEOREM DeclaredIdsAreOwn == Spec => []DeclaredWithOwnId
<1>1. Inv => DeclaredWithOwnId
  BY DEF Inv
<1> QED
  BY <1>1, LifecycleInvariant, PTL

\* When ShutdownAgents has returned, all handlers have ended or somebody is
\* inside of agents::Add or AgentMessage::Send and still has to destroy the
\* pool (agents.cpp:209-213, agent.cpp:161-175, agent_message.cpp:107-111).
THEOREM ShutdownLeavesOnlyHolders == Spec => []OnlyHoldersOutliveShutdown
<1>1. Inv => OnlyHoldersOutliveShutdown
  BY DEF Inv
<1> QED
  BY <1>1, LifecycleInvariant, PTL

\* An application that waits until no message is left finds nobody else with
\* the pool, so that all threads have ended when ShutdownAgents returns
\* (agents.cpp:201-213, thread_pool.hpp:55-97).
THEOREM AllEndAfterTheWait == Spec => []AllEndAfterWait
<1>1. ASSUME Inv
      PROVE  AllEndAfterWait
  <2>0. PoolPhases /\ AppDestroys /\ HandlersHaveThreads
    BY <1>1 DEF Inv, OwnInv
  <2>1. ASSUME WaitFirst, ~raced, pc[App] = "stopped", NEW h \in Handlers
        PROVE  pc[h] = "none"
    <3>1. \A i \in Ids : slot[i] = None
      BY <2>0, <2>1 DEF AppDestroys, PoolPhases
    <3>2. h[1] # None
      BY ActorFacts
    <3> QED
      BY <2>0, <2>1, <3>1, <3>2 DEF HandlersHaveThreads
  <2> QED
    BY <2>1 DEF AllEndAfterWait, AllThreadsEnded
<1> QED
  BY <1>1, LifecycleInvariant, PTL
=============================================================================
