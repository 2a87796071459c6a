---------------------------- MODULE AgentLifecycle ----------------------------
(***************************************************************************)
(* Agents from agents::Add to the end of the thread pool (agents.cpp,      *)
(* agent.cpp, agent_message.cpp, thread_pool.hpp, agent_thread.hpp,        *)
(* agent_thread_lua.cpp, lua_extension.cpp): who owns the objects, the ids *)
(* and the threads, and in which order they are destroyed while scripts    *)
(* add agents, send messages and are replicated.                           *)
(*                                                                         *)
(* Messages are abstracted to the fact that a handler is inside of         *)
(* handleMessage; what becomes of them is the subject of AgentMessaging.   *)
(***************************************************************************)
EXTENDS Naturals, FiniteSets

CONSTANTS
    Agents,        \* Agent objects
    Names,         \* names of agents
    Name,          \* the name an object is constructed with
    Ids,           \* values of the item registry "agent_registry"
    App,           \* the thread of the application
    None,
    Busy,          \* agents that are sent messages
    WaitFirst,     \* the application calls WaitUntilMessageQueueIsEmpty before
                   \* ShutdownAgents, as in the quick start of README.md
    ReplicasFail   \* scripts of replicas, or the configuration, may fail

\* The handler of the AgentThread of an agent, and that of one replica of it.
Handlers == Agents \X {"primary", "replica"}
Threads == {App} \cup Handlers

\* A call of agents::Add goes on by itself, on the thread of its caller.
Actors == Threads \cup Agents

ASSUME LifecycleAssumption ==
    /\ Name \in [Agents -> Names]
    /\ None \notin Ids \cup Actors
    /\ App \notin Handlers /\ Agents \cap Threads = {}
    /\ Busy \subseteq Agents
    /\ WaitFirst \in BOOLEAN /\ ReplicasFail \in BOOLEAN

\* The item registry does not run out of ids.
ASSUME IdsSuffice ==
    \A f \in [Agents -> Ids \cup {None}] :
        (\E a \in Agents : f[a] = None) => \E i \in Ids : \A a \in Agents : f[a] # i

HandlersOf(a) == {h \in Handlers : h[1] = a}

VARIABLES
    byName,      \* _agents of class agents
    id,          \* _id of the agents that have registered one
    slot,        \* _agentThreads: the agent of the thread at an id
    declared,    \* agents and the ids that their messages were declared with
    pc,          \* where a thread is, and where the call that adds an agent is
    caller,      \* who is adding an agent, and holds a shared_ptr to it
    guard,       \* the thread that holds the lock of _replicated
    replicated,  \* agents with a replica in _replicated
    disposed,    \* ids' agents whose handlers message_manager is to end
    offered,     \* the singleton holds a reference to the thread pool
    stage,       \* what the destructor of the thread pool is doing
    raced,       \* history: two threads added the same name at once
    torn         \* history: handlers inside of an object without members

registry == <<byName, raced>>
ids == <<id, declared>>
pool == <<slot, offered, stage>>
replicas == <<guard, replicated, disposed, torn>>
vars == <<registry, ids, pool, replicas, pc, caller>>

NoStage == [at |-> "none", agent |-> None]
Init ==
    /\ byName = [n \in Names |-> None]
    /\ id = [a \in Agents |-> None]
    /\ slot = [i \in Ids |-> None]
    /\ declared = {}
    /\ pc = [x \in Actors |->
               IF x = App THEN "free" ELSE IF x \in Agents THEN "new" ELSE "none"]
    /\ caller = [a \in Agents |-> None]
    /\ guard = [a \in Agents |-> None]
    /\ replicated = {} /\ disposed = {}
    /\ offered = TRUE
    /\ stage = NoStage
    /\ raced = FALSE /\ torn = {}

Goto(x, place) == pc' = [pc EXCEPT ![x] = place]
Alive(a) == (\E n \in Names : byName[n] = a) \/ caller[a] # None
\* Agent::~Agent gives the id back when the last reference is gone.
DeregisterToZero ==   \* mutant
    id' = [a \in Agents |-> IF Alive(a)' THEN id[a] ELSE 0]
DeregisterDead == id' = [a \in Agents |-> IF Alive(a)' THEN id[a] ELSE None]

(***************************************************************************)
(* Scripts: those of messages, the one of an agent that is added ("run")   *)
(* and those of a replica under construction ("builds"). "free" is the     *)
(* application. They send messages and add agents.                         *)
(***************************************************************************)
InScript(x) == pc[x] \in {"free", "script", "builds", "run"}
\* Where a script goes on; the try block of handleMessage catches what the
\* script of a message does not.
Resume(x) ==
    IF x \in Agents THEN "run"
    ELSE IF x = App THEN "free"
    ELSE IF guard[x[1]] = x THEN "builds" ELSE "script"

\* Agent::Start and AgentMessage::Send hold the pool.
Starting == {"run", "calls", "handler", "drop", "throw"}
Holders == {x \in Actors : pc[x] = "sends"} \cup {a \in Agents : pc[a] \in Starting}
\* The last one to let go of the pool destroys it.
LastHolder(x) == ~offered /\ Holders = {x} /\ stage = NoStage

SendBegins(x) ==
    /\ InScript(x) /\ offered
    /\ Goto(x, "sends")
    /\ UNCHANGED <<registry, ids, pool, replicas, caller>>
SendEnds(x) ==
    /\ pc[x] = "sends"
    /\ x \in Threads => ~LastHolder(x)
    /\ Goto(x, Resume(x))
    /\ UNCHANGED <<registry, ids, pool, replicas, caller>>
DestroyPoolInSend(t) ==
    /\ t \in Threads /\ pc[t] = "sends"
    /\ LastHolder(t)
    /\ Goto(t, "destroy")
    /\ stage' = [at |-> "next", agent |-> None]
    /\ UNCHANGED <<registry, ids, replicas, slot, caller, offered>>

(***************************************************************************)
(* agents::Add, called by the application or by addagent in a script       *)
(***************************************************************************)
\* The name is looked up ...
AddChecks(x, a) ==
    /\ InScript(x)
    /\ pc[a] = "new"
    /\ byName[Name[a]] = None
    /\ pc' = [pc EXCEPT ![x] = "calls", ![a] = "enter"]
    /\ caller' = [caller EXCEPT ![a] = x]
    /\ UNCHANGED <<registry, ids, pool, replicas>>

\* ... and entered later, without a lock in between.
AddEnters(a) ==
    /\ pc[a] = "enter"
    /\ byName' = [byName EXCEPT ![Name[a]] = a]
    /\ raced' = (raced \/ byName[Name[a]] # None)
    /\ Goto(a, "table")
    /\ UNCHANGED caller
    /\ DeregisterDead
    /\ UNCHANGED <<pool, replicas, declared>>

\* RegisterTableForAgent throws for a table the agent has already; the agent
\* stays entered and never starts.
RegisterTable(a) ==
    /\ pc[a] = "table"
    /\ \E next \in {"start", "leave"} : Goto(a, next)
    /\ UNCHANGED <<registry, ids, pool, replicas, caller>>

\* Agent::Start takes an id, and the pool unless it has been released.
Start(a) ==
    /\ pc[a] = "start"
    /\ id' = [id EXCEPT ![a] = CHOOSE i \in Ids : \A b \in Agents : id[b] # i]
    /\ Goto(a, IF offered THEN "run" ELSE "declare")
    /\ UNCHANGED <<registry, pool, replicas, declared, caller>>

\* addmessage, called by the script of an agent or through the table given to
\* addagent: AgentMessage stores the id that the agent has now. The scripts of
\* replicas declare nothing.
Declare(a) ==
    /\ declared' = declared \cup {<<a, id[a]>>}
    /\ UNCHANGED <<registry, pool, replicas, id, pc, caller>>
AddMessageEarly(a) ==   \* mutant: also before the agent is started
    pc[a] \in {"start", "run", "declare"} /\ Declare(a)
AddMessage(a) ==
    /\ pc[a] \in {"run", "declare"} \/ pc[<<a, "primary">>] = "script"
    /\ Declare(a)

\* The script of the new agent runs in the constructor of its AgentThread; the
\* object enters _agentThreads only afterwards, in the place of one that an
\* agent with the same id has left there.
ScriptEnds(a) ==
    /\ pc[a] = "run"
    /\ slot' = [slot EXCEPT ![id[a]] = a]
    /\ Goto(a, "handler")
    /\ UNCHANGED <<registry, ids, replicas, offered, stage, caller>>
ScriptFails(a) ==
    /\ pc[a] = "run"
    /\ Goto(a, "throw")
    /\ UNCHANGED <<registry, ids, pool, replicas, caller>>

AddHandler(a) ==
    /\ pc[a] = "handler"
    /\ pc' = [pc EXCEPT ![a] = "drop", ![<<a, "primary">>] = "idle"]
    /\ UNCHANGED <<registry, ids, pool, replicas, caller>>

\* Agent::Start lets go of the pool.
DropPool(a) ==
    /\ pc[a] \in {"drop", "throw"}
    /\ ~LastHolder(a)
    /\ Goto(a, IF pc[a] = "drop" THEN "declare" ELSE "leave")
    /\ UNCHANGED <<registry, ids, pool, replicas, caller>>
DestroyPoolInAdd(a) ==
    /\ pc[a] \in {"drop", "throw"}
    /\ LastHolder(a)
    /\ pc' = [pc EXCEPT ![a] = "destroys", ![caller[a]] = "destroy"]
    /\ stage' = [at |-> "next", agent |-> None]
    /\ UNCHANGED <<registry, ids, replicas, slot, caller, offered>>

Leave(a, place, resume) ==
    /\ pc' = [pc EXCEPT ![a] = place, ![caller[a]] = resume]
    /\ caller' = [caller EXCEPT ![a] = None]
    /\ UNCHANGED byName
    /\ DeregisterDead
    /\ UNCHANGED <<pool, replicas, declared, raced>>
AddReturns(a) == pc[a] = "declare" /\ Leave(a, "added", Resume(caller[a]))
\* addagent throws, also for want of its third argument. The exception ends
\* the script that called it: the agent whose script it was does not start.
AddThrows(a) ==
    /\ pc[a] = "leave" \/ (pc[a] = "declare" /\ caller[a] # App)
    /\ Leave(a, "thrown", IF caller[a] \in Agents THEN "throw" ELSE Resume(caller[a]))

(***************************************************************************)
(* Handlers                                                                *)
(***************************************************************************)
Receive(h) ==
    /\ pc[h] = "idle" /\ h[1] \notin disposed
    /\ WaitFirst => offered
    /\ h[1] \in Busy
    /\ \E place \in {"script", "waits"} : Goto(h, place)
    /\ UNCHANGED <<registry, ids, pool, replicas, caller>>

\* A busy handler wants to replicate: it takes the guard and builds a replica
\* or, as there are enough of them, runs the script of the message.
EnterGuard(h) ==
    /\ pc[h] = "waits"
    /\ guard[h[1]] = None
    /\ IF h[1] \in replicated
       THEN Goto(h, "script") /\ UNCHANGED guard
       ELSE Goto(h, "builds") /\ guard' = [guard EXCEPT ![h[1]] = h]
    /\ UNCHANGED <<registry, ids, pool, caller, replicated, disposed, torn>>

\* The script of the replica has run, and the replica has handled the message
\* in its constructor; addHandler starts its thread ...
ReplicaStarts(h) ==
    /\ pc[h] = "builds"
    /\ pc' = [pc EXCEPT ![h] = "publishes", ![<<h[1], "replica">>] = "idle"]
    /\ UNCHANGED <<registry, ids, pool, replicas, caller>>
\* ... and it is put into _replicated.
Emplace(h) ==
    /\ pc[h] = "publishes"
    /\ Goto(h, "after")
    /\ guard' = [guard EXCEPT ![h[1]] = None]
    /\ replicated' = replicated \cup {h[1]}
    /\ UNCHANGED <<registry, ids, pool, caller, disposed, torn>>

\* The members of a thread object are destroyed, _lua among them, before its
\* base class AgentThread disposes its handlers.
Inside(h) == pc[h] \notin {"none", "idle"}
Tear(h) == torn' = IF Inside(h) THEN torn \cup {h} ELSE torn

\* A replica whose script fails, or whose addHandler throws after the handler
\* has been added, disposes all handlers of the agent and waits for them, on
\* the thread of one of them.
ReplicaThrows(h) ==
    /\ ReplicasFail /\ pc[h] \in {"builds", "publishes"}
    /\ Goto(h, "disposes")
    /\ disposed' = disposed \cup {h[1]}
    /\ Tear(<<h[1], "replica">>)
    /\ UNCHANGED <<registry, ids, pool, caller, guard, replicated>>

\* The script of the message has ended and the message is counted down; the
\* handler goes on to note the time, under a mutex of its object.
CountDown(h) ==
    /\ pc[h] = "script"
    /\ Goto(h, "after")
    /\ UNCHANGED <<registry, ids, pool, replicas, caller>>
NoteTime(h) ==
    /\ pc[h] = "after"
    /\ Goto(h, "idle")
    /\ UNCHANGED <<registry, ids, pool, replicas, caller>>

\* message_manager::dispose ends a handler between two messages.
StopHandler(h) ==
    /\ pc[h] = "idle" /\ h[1] \in disposed
    /\ Goto(h, "none")
    /\ UNCHANGED <<registry, ids, pool, replicas, caller>>

(***************************************************************************)
(* The end of the thread pool                                              *)
(***************************************************************************)
\* The counter of messages is zero when no handler is between the arrival of
\* a message and its count-down. A replica counts down in its constructor.
Quiet == \A h \in Handlers : pc[h] \in {"none", "idle", "after", "publishes", "disposes"}

ShutdownAgents ==
    /\ pc[App] = "free" /\ offered
    /\ WaitFirst => Quiet
    /\ offered' = FALSE
    /\ IF Holders = {}
       THEN Goto(App, "destroy") /\ stage' = [at |-> "next", agent |-> None]
       ELSE Goto(App, "stopped") /\ UNCHANGED stage
    /\ UNCHANGED <<registry, ids, replicas, slot, caller>>

Joined(a) == \A h \in HandlersOf(a) : pc[h] = "none"

\* ~AgentThreadLua of the next agent clears _replicated under its lock; the
\* destructor of a replica disposes the handlers of the whole agent.
ClearReplicas(t, a) ==
    /\ pc[t] = "destroy" /\ stage.at = "next"
    /\ \E i \in Ids : slot[i] = a
    /\ guard[a] = None
    /\ IF a \in replicated
       THEN /\ guard' = [guard EXCEPT ![a] = t]
            /\ disposed' = disposed \cup {a}
            /\ Tear(<<a, "replica">>)
            /\ stage' = [at |-> "replicas", agent |-> a]
       ELSE /\ stage' = [at |-> "members", agent |-> a]
            /\ UNCHANGED <<guard, disposed, torn>>
    /\ UNCHANGED <<registry, ids, slot, pc, caller, replicated, offered>>
ReplicasJoined(t) ==
    /\ pc[t] = "destroy" /\ stage.at = "replicas" /\ Joined(stage.agent)
    /\ guard' = [guard EXCEPT ![stage.agent] = None]
    /\ replicated' = replicated \ {stage.agent}
    /\ stage' = [stage EXCEPT !.at = "members"]
    /\ UNCHANGED <<registry, ids, slot, pc, caller, disposed, offered, torn>>
DestroyMembersOnly(t) ==   \* mutant: the base class does not dispose
    /\ pc[t] = "destroy" /\ stage.at = "members"
    /\ Tear(<<stage.agent, "primary">>)
    /\ stage' = [stage EXCEPT !.at = "join"]
    /\ UNCHANGED <<registry, ids, pc, caller, guard, replicated, disposed,
                   slot, offered>>
DestroyMembers(t) ==
    /\ pc[t] = "destroy" /\ stage.at = "members"
    /\ Tear(<<stage.agent, "primary">>)
    /\ disposed' = disposed \cup {stage.agent}
    /\ stage' = [stage EXCEPT !.at = "join"]
    /\ UNCHANGED <<registry, ids, slot, pc, caller, guard, replicated, offered>>
ThreadNotJoined(t) ==   \* mutant: does not wait for the handlers
    /\ pc[t] = "destroy" /\ stage.at = "join"
    /\ slot' = [i \in Ids |-> IF slot[i] = stage.agent THEN None ELSE slot[i]]
    /\ stage' = [at |-> "next", agent |-> None]
    /\ UNCHANGED <<registry, ids, replicas, offered, pc, caller>>
ThreadJoined(t) ==
    /\ pc[t] = "destroy" /\ stage.at = "join" /\ Joined(stage.agent)
    /\ slot' = [i \in Ids |-> IF slot[i] = stage.agent THEN None ELSE slot[i]]
    /\ stage' = [at |-> "next", agent |-> None]
    /\ UNCHANGED <<registry, ids, replicas, pc, caller, offered>>

\* agents::DeleteAgents, after the threads.
DeleteAgentsFirst(t) ==   \* mutant: before the threads
    /\ pc[t] = "destroy" /\ stage.at = "next"
    /\ byName' = [n \in Names |-> None]
    /\ UNCHANGED caller
    /\ DeregisterDead
    /\ stage' = [at |-> "down", agent |-> None]
    /\ Goto(t, "stopped")
    /\ UNCHANGED <<replicas, slot, declared, offered, raced>>
DeleteAgents(t) ==
    /\ pc[t] = "destroy" /\ stage.at = "next"
    /\ \A i \in Ids : slot[i] = None
    /\ byName' = [n \in Names |-> None]
    /\ UNCHANGED caller
    /\ DeregisterDead
    /\ stage' = [at |-> "down", agent |-> None]
    /\ Goto(t, "stopped")
    /\ UNCHANGED <<replicas, slot, declared, offered, raced>>

HandlerStep(h) ==
    \/ EnterGuard(h) \/ ReplicaStarts(h) \/ Emplace(h) \/ ReplicaThrows(h)
    \/ CountDown(h) \/ NoteTime(h) \/ StopHandler(h)
AddStep(a) ==
    \/ AddEnters(a) \/ RegisterTable(a) \/ Start(a) \/ ScriptEnds(a)
    \/ ScriptFails(a) \/ AddHandler(a) \/ DropPool(a) \/ DestroyPoolInAdd(a)
    \/ AddReturns(a) \/ AddThrows(a)
DestroyStep(t) ==
    \/ \E a \in Agents : ClearReplicas(t, a)
    \/ ReplicasJoined(t) \/ DestroyMembers(t) \/ ThreadJoined(t) \/ DeleteAgents(t)
ScriptStep(x) ==
    SendBegins(x) \/ SendEnds(x) \/ \E a \in Agents : AddChecks(x, a)

Next ==
    \/ \E x \in Actors : ScriptStep(x)
    \/ \E a \in Agents : AddMessage(a) \/ AddStep(a)
    \/ \E h \in Handlers : Receive(h) \/ HandlerStep(h)
    \/ \E t \in Threads : DestroyPoolInSend(t) \/ DestroyStep(t)
    \/ ShutdownAgents

Spec == Init /\ [][Next]_vars
\* Every thread that can go on does so; a script need not add an agent or send
\* a message, and ends.
Fairness ==
    /\ \A x \in Actors : WF_vars(SendEnds(x))
    /\ \A a \in Agents : WF_vars(AddStep(a))
    /\ \A h \in Handlers : WF_vars(HandlerStep(h))
    /\ \A t \in Threads : WF_vars(DestroyPoolInSend(t) \/ DestroyStep(t))
FairSpec == Spec /\ Fairness

(***************************************************************************)
(* Properties                                                              *)
(***************************************************************************)
Adding == {"enter", "table", "start", "sends", "declare", "leave", "destroys"} \cup Starting
TypeOK ==
    /\ byName \in [Names -> Agents \cup {None}]
    /\ id \in [Agents -> Ids \cup {None}]
    /\ slot \in [Ids -> Agents \cup {None}]
    /\ declared \subseteq Agents \X (Ids \cup {None})
    /\ DOMAIN pc = Actors
    /\ pc[App] \in {"free", "sends", "calls", "destroy", "stopped"}
    /\ \A h \in Handlers :
         pc[h] \in {"none", "idle", "script", "waits", "builds", "publishes", "disposes",
                    "after", "sends", "calls", "destroy", "stopped"}
    /\ \A a \in Agents : pc[a] \in {"new", "added", "thrown"} \cup Adding
    /\ caller \in [Agents -> Actors \cup {None}]
    /\ guard \in [Agents -> Threads \cup {None}]
    /\ replicated \subseteq Agents /\ disposed \subseteq Agents
    /\ offered \in BOOLEAN /\ raced \in BOOLEAN
    /\ stage \in [at: {"none", "next", "replicas", "members", "join", "down"},
                  agent: Agents \cup {None}]
    /\ torn \subseteq Handlers

\* A handler, and the thread object it belongs to, refer to their agent by a
\* plain pointer: unless two threads added the same name at once the agent
\* lives as long as they do, with the id they are known by, while scripts and
\* replicas fail, agents are added by handlers and by the scripts of agents
\* that are being added, and the pool is destroyed by whoever lets go of it
\* last (agents.cpp:73-87, 164-194, thread_pool.hpp:55-63).
HandlersHaveAgents ==
    ~raced =>
      /\ \A h \in Handlers : pc[h] # "none" => Alive(h[1])
      /\ \A i \in Ids : slot[i] # None => Alive(slot[i]) /\ id[slot[i]] = i

\* Messages of an agent that exists go to its own queue: they were declared
\* with the id it has, although ids are used again and scripts declare them
\* while the agent is being added (agent.cpp:156-175, lua_extension.cpp:479-563).
DeclaredWithOwnId ==
    \A d \in declared : Alive(d[1]) => d[2] = id[d[1]]

\* When ShutdownAgents has returned all threads have ended, or somebody else
\* holds the pool, inside of agents::Add or AgentMessage::Send, and destroys it
\* later: no handler is forgotten unless two threads added the same name at
\* once (agents.cpp:209-213, agent.cpp:161-175, agent_message.cpp:107-111,
\* thread_pool.hpp:55-97).
OnlyHoldersOutliveShutdown ==
    ~raced /\ pc[App] = "stopped" =>
      \/ stage.at = "down" /\ \A h \in Handlers : pc[h] = "none"
      \/ Holders # {}
      \/ \E h \in Handlers : pc[h] = "destroy"

\* agents.hpp:90: "if the main application quits, it should use this function
\* to make sure all threads have ended before the main function returned".
AllThreadsEnded == pc[App] = "stopped" => \A h \in Handlers : pc[h] = "none"

\* An application that waits for all messages first can rely on that, unless
\* two threads have added the same name at once (agents.cpp:201-213): nobody
\* else holds the pool when it is released, so that its destructor has ended
\* all threads when ShutdownAgents returns ...
AllEndAfterWait == WaitFirst /\ ~raced => AllThreadsEnded
\* ... and the shutdown ends (agent_thread_lua.cpp:92-98, 138-186).
ShutdownEnds == ~offered ~> stage.at = "down"

\* "Wait for all asynchronous work to complete before exiting": after the wait
\* and the shutdown no handler is left inside of an object whose members have
\* been destroyed (README.md:124-126, agent_thread_lua.cpp:92-98, 236).
WorkIsComplete == torn = {}
==============================================================================
