--------------------------- MODULE AgentMessaging ---------------------------
(***************************************************************************)
(* Agents, their handler threads and the messages between them.            *)
(*                                                                         *)
(* AgentMessage::Send counts a message, validates it and puts it into the  *)
(* queue of the receiving agent.  One or more handler threads of the agent *)
(* take messages from that queue; a Lua handler runs a function of the     *)
(* agent's script, sends the reply the message asks for and then counts    *)
(* the message down.  A Lua handler that is busy when a message with a     *)
(* "threads" entry arrives replicates itself instead, up to the requested  *)
(* number of threads.  Application threads may wait until the counter is   *)
(* zero (agents::WaitUntilMessageQueueIsEmpty).                            *)
(*                                                                         *)
(* A replica is built by the handler thread that asks for it: until it is  *)
(* published, the steps of the replica below are taken by its builder.     *)
(***************************************************************************)
EXTENDS Integers, Sequences, FiniteSets

CONSTANTS
  Agents,     \* names of the agents the application adds
  LuaAgents,  \* the agents that run a Lua script; the others are C++ agents
  Clients,    \* threads of the application that are not handler threads
  Handlers,   \* handler threads, those of replicas included
  HomeAgent,  \* HomeAgent[h]: the agent that handler h works for
  Primary,    \* Primary[a]: the handler thread a gets when it is added
  Msgs,       \* bound: the identities of all messages ever counted
  Contents,   \* what a message may say, see MessageContent
  Faults,     \* what may go wrong in this system, a subset of FaultKinds
  None

Threads == Clients \cup Handlers

(***************************************************************************)
(* What the code looks at in a message: the receiver, its "threads" entry  *)
(* (0: none), whether every described parameter has a value, and the agent *)
(* reply_to names (None: agent or message of reply_to is empty).           *)
(***************************************************************************)
MessageContent ==
  [to : Agents, threads : Nat, complete : BOOLEAN, replyTo : Agents \cup {None}]

(***************************************************************************)
(* throw: a C++ handler throws.  script: running a Lua script fails.       *)
(* config: a script replaces its agent's configuration by a table without  *)
(* all of the entries that the library reads.  shutdown: ShutdownAgents.   *)
(* reply: a message names in reply_to an agent that was not added yet.     *)
(***************************************************************************)
FaultKinds == {"throw", "script", "config", "shutdown", "reply"}

ASSUME MessagingAssumption ==
  /\ LuaAgents \subseteq Agents
  /\ Clients \cap Handlers = {}
  /\ HomeAgent \in [Handlers -> Agents]
  /\ Primary \in [Agents -> Handlers]
  /\ \A a \in Agents : HomeAgent[Primary[a]] = a
  /\ IsFiniteSet(Msgs)
  /\ IsFiniteSet(Handlers)
  /\ Contents \subseteq MessageContent
  /\ Faults \subseteq FaultKinds
  /\ None \notin Agents \cup Handlers \cup Msgs \cup Contents

\* A bound of the model: no replica is missing because identities ran out.
ASSUME EnoughHandlers ==
  \A c \in Contents : c.threads <= Cardinality({h \in Handlers : HomeAgent[h] = c.to})

VARIABLES
  size, increased, waitsFor, asleep,   \* the message counter
  pool,       \* what ThreadPool::Get() finds: the pool is "up" or "down"
  queue,      \* queue[a]: messages sent to agent a and not yet taken
  pc,         \* pc[h]: where handler thread h is
  cur,        \* cur[h]: the message h is working on
  sending,    \* sending[t]: the message that thread t is inside Send with
  stage,      \* stage[m]: how far message m has come
  content,    \* content[m]: what message m says, None before it is sent
  lock,       \* lock[a]: the handler that holds the guard of a's _replicated
  making,     \* making[a]: the replica that the holder of the guard builds
  replicas,   \* replicas[a]: the elements of a's _replicated
  fresh,      \* handlers whose _timeOfLastMessage still is the epoch
  config      \* config[a]: what is left of a's internal configuration

counterVars == <<size, increased, waitsFor, asleep>>
replicaVars == <<lock, making, replicas>>
messageVars == <<queue, stage, content, sending>>
handlerVars == <<pc, cur, fresh>>
vars == <<counterVars, pool, messageVars, handlerVars, replicaVars, config>>

Counter == INSTANCE MessageCounter WITH Waiters <- Clients

Stages == {"unused", "sending", "queued", "held", "done", "lost"}

(***************************************************************************)
(* absent: not created (yet).  starting: the script runs for the first     *)
(* time.  waiting: for a message.  entered: in handleMessage, before it    *)
(* knows whether to replicate.  locking: about to take the guard of        *)
(* _replicated.  replicating: holds it and builds a replica.  adding:      *)
(* holds it, and the replica has its handler.  publishing: holds it, and   *)
(* the replica is an element.  disposing: holds it, and waits for the end  *)
(* of all handlers of its agent.  running: in RunPlugin or the C++         *)
(* handler.  ran: the function has returned.  replying: in Send with the   *)
(* reply.  replied: about to count down.  leaving: about to store          *)
(* _timeOfLastMessage.  built: a replica that handled its first message.   *)
(* dead: registered without a handler.  stopped: disposed.                 *)
(***************************************************************************)
Places == {"absent", "starting", "waiting", "entered", "locking", "replicating",
           "adding", "publishing", "disposing", "running", "ran", "replying", "replied",
           "leaving", "built", "dead", "stopped"}

\* Of internal: all entries, luaStartNewThreadTime only, or not even that.
Configurations == {"complete", "thresholdOnly", "empty"}

TypeOK ==
  /\ Counter!TypeOK
  /\ pool \in {"up", "down"}
  /\ queue \in [Agents -> Seq(Msgs)]
  /\ pc \in [Handlers -> Places]
  /\ cur \in [Handlers -> Msgs \cup {None}]
  /\ sending \in [Threads -> Msgs \cup {None}]
  /\ stage \in [Msgs -> Stages]
  /\ content \in [Msgs -> Contents \cup {None}]
  /\ lock \in [Agents -> Handlers \cup {None}]
  /\ making \in [Agents -> Handlers \cup {None}]
  /\ replicas \in [Agents -> SUBSET Handlers]
  /\ fresh \subseteq Handlers
  /\ config \in [Agents -> Configurations]

Init ==
  /\ Counter!Init
  /\ pool = "up"
  /\ queue = [a \in Agents |-> <<>>]
  /\ pc = [h \in Handlers |-> "absent"]
  /\ cur = [h \in Handlers |-> None]
  /\ sending = [t \in Threads |-> None]
  /\ stage = [m \in Msgs |-> "unused"]
  /\ content = [m \in Msgs |-> None]
  /\ lock = [a \in Agents |-> None]
  /\ making = [a \in Agents |-> None]
  /\ replicas = [a \in Agents |-> {}]
  /\ fresh = Handlers
  /\ config = [a \in Agents |-> "complete"]

-----------------------------------------------------------------------------
(* Adding agents *)

\* The messages of agent a are known: GetMessage(a, ...) succeeds.
Known(a) == pc[Primary[a]] # "absent"

Goto(h, place) == pc' = [pc EXCEPT ![h] = place]

(***************************************************************************)
(* agents::Add and Agent::Start.  A C++ agent gets its handler at once.    *)
(* The script of a Lua agent, which registers the messages, runs on the    *)
(* adding thread first; when it fails, the agent stays registered.         *)
(***************************************************************************)
AddAgent(a) ==
  /\ pc[Primary[a]] = "absent"
  /\ pool = "up"
  /\ Goto(Primary[a], IF a \in LuaAgents THEN "starting" ELSE "waiting")
  /\ UNCHANGED <<counterVars, pool, messageVars, cur, fresh, replicaVars, config>>

\* The first run of a script ends; not while it is inside of Send.
ScriptEnds(a) ==
  /\ pc[Primary[a]] = "starting"
  /\ sending[Primary[a]] = None
  /\ \/ Goto(Primary[a], "waiting")
     \/ "script" \in Faults /\ Goto(Primary[a], "dead")
  /\ UNCHANGED <<counterVars, pool, messageVars, cur, fresh, replicaVars, config>>

-----------------------------------------------------------------------------
(* AgentMessage::Send *)

Unused == {m \in Msgs : stage[m] = "unused"}

(***************************************************************************)
(* A bound of the model, not of the code: a message is only sent while     *)
(* there are enough unused identities for it and every reply to come.      *)
(***************************************************************************)
OwesReply(m) ==
  /\ stage[m] \in {"sending", "queued", "held"}
  /\ content[m].replyTo # None
  /\ \A h \in Handlers : cur[h] = m => pc[h] \notin {"replying", "replied", "leaving"}

Owed == Cardinality({m \in Msgs : OwesReply(m)})

SendWithinBudget(c) ==
  Owed + (IF c.replyTo = None THEN 0 ELSE 1) < Cardinality(Unused)

ReplyWithinBudget(c) == c.replyTo # None => Owed < Cardinality(Unused)

\* message_counter::increase() is the first statement of Send.
Count(c) == Counter!Increase

\* Thread t enters Send with a message that says c.
BeginSend(t, c) ==
  /\ sending[t] = None
  /\ Known(c.to)
  /\ c.replyTo # None /\ "reply" \notin Faults => Known(c.replyTo)
  /\ \E m \in Unused :
       /\ sending' = [sending EXCEPT ![t] = m]
       /\ stage' = [stage EXCEPT ![m] = "sending"]
       /\ content' = [content EXCEPT ![m] = c]
  /\ Count(c)
  /\ UNCHANGED <<pool, queue, replicaVars, config>>

\* The application, a script that runs for the first time or a handler sends.
MaySend(t) ==
  \/ t \in Clients /\ waitsFor[t] = "nothing"
  \/ t \in Handlers /\ pc[t] \in {"starting", "running"}

SendMessage(t, c) ==
  /\ MaySend(t)
  /\ SendWithinBudget(c)
  /\ BeginSend(t, c)
  /\ UNCHANGED handlerVars

\* The call of Send that t is in ends, and m ends up where it leaves it.
EndSend(t, where) ==
  /\ sending' = [sending EXCEPT ![t] = None]
  /\ stage' = [stage EXCEPT ![sending[t]] = where]
  /\ UNCHANGED <<counterVars, pool, content, replicaVars, config>>

\* Defaults are added, the message is valid and the pool exists.
Enqueue(t) ==
  LET m == sending[t] IN
  /\ m # None
  /\ content[m].complete
  /\ pool = "up"
  /\ queue' = [queue EXCEPT ![content[m].to] = Append(@, m)]
  /\ EndSend(t, "queued")

\* "Skipped message ... because shutdown had been initiated"
Skip(t) ==
  /\ sending[t] # None
  /\ content[sending[t]].complete
  /\ pool = "down"
  /\ UNCHANGED queue
  /\ EndSend(t, "lost")

\* Validate throws: a described parameter has neither value nor default.
Reject(t) ==
  /\ sending[t] # None
  /\ ~content[sending[t]].complete
  /\ UNCHANGED queue
  /\ EndSend(t, "lost")

\* Send was called by the application or a script, which sees its exception.
FinishSend(t) ==
  /\ ~(t \in Handlers /\ pc[t] = "replying")
  /\ Enqueue(t) \/ Skip(t) \/ Reject(t)
  /\ UNCHANGED handlerVars

-----------------------------------------------------------------------------
(* handleMessage *)

\* The message manager hands the oldest message to a handler of the agent.
Take(h) ==
  LET a == HomeAgent[h] IN
  /\ pc[h] = "waiting"
  /\ queue[a] # <<>>
  /\ cur' = [cur EXCEPT ![h] = Head(queue[a])]
  /\ stage' = [stage EXCEPT ![Head(queue[a])] = "held"]
  /\ queue' = [queue EXCEPT ![a] = Tail(@)]
  /\ Goto(h, IF a \in LuaAgents THEN "entered" ELSE "running")
  /\ UNCHANGED <<counterVars, pool, content, sending, fresh, replicaVars, config>>

\* h is done with its message, which is counted down or is never counted down.
CountDown(h) ==
  /\ stage' = [stage EXCEPT ![cur[h]] = "done"]
  /\ cur' = [cur EXCEPT ![h] = None]
  /\ Counter!Decrease

Lose(h) ==
  /\ stage' = [stage EXCEPT ![cur[h]] = "lost"]
  /\ cur' = [cur EXCEPT ![h] = None]
  /\ UNCHANGED counterVars

\* The steps of h are taken by its builder: h has no handler of its own yet.
IsReplicaInConstruction(h) ==
  /\ making[HomeAgent[h]] = h
  /\ pc[lock[HomeAgent[h]]] = "replicating"

(***************************************************************************)
(* A replica that its builder does not complete is destroyed, and the      *)
(* destructor of its base class disposes all handlers of the agent.  The   *)
(* builder is one of them: it waits for itself, with the guard in its      *)
(* hands.                                                                  *)
(***************************************************************************)
DestroyReplica(r) ==
  LET a == HomeAgent[r] IN
  /\ pc' = [pc EXCEPT ![r] = "stopped", ![lock[a]] = "disposing"]
  /\ making' = [making EXCEPT ![a] = None]
  /\ UNCHANGED <<lock, replicas>>

(***************************************************************************)
(* An exception leaves the handler's function.  The message manager goes   *)
(* on with the next message.  In a replica under construction it leaves    *)
(* the constructor.                                                        *)
(***************************************************************************)
Escape(h) ==
  /\ Lose(h)
  /\ IF IsReplicaInConstruction(h)
       THEN DestroyReplica(h)
       ELSE Goto(h, "waiting") /\ UNCHANGED replicaVars
  /\ UNCHANGED <<pool, queue, content, sending, fresh, config>>

\* AgentThreadCpp::handleMessage: the handler returns, or it throws.
CppReturns(h) ==
  /\ HomeAgent[h] \notin LuaAgents
  /\ pc[h] = "running" /\ sending[h] = None
  /\ CountDown(h)
  /\ Goto(h, "waiting")
  /\ UNCHANGED <<pool, queue, content, sending, fresh, replicaVars, config>>

CppThrows(h) ==
  /\ "throw" \in Faults
  /\ HomeAgent[h] \notin LuaAgents
  /\ pc[h] = "running" /\ sending[h] = None
  /\ Escape(h)

(***************************************************************************)
(* AgentThreadLua::handleMessage reads the configuration, which throws     *)
(* outside of any try block when the entry is missing.  A handler that was *)
(* idle for luaStartNewThreadTime, or never had a message, handles it, and *)
(* so does one whose message does not ask for threads; a replica gets its  *)
(* first message without the "threads" entry.                              *)
(***************************************************************************)
ReadConfigurationFails(h) ==
  /\ pc[h] = "entered"
  /\ config[HomeAgent[h]] = "empty"
  /\ Escape(h)

Decide(h) ==
  /\ pc[h] = "entered"
  /\ config[HomeAgent[h]] # "empty"
  /\ \/ Goto(h, "running")
     \/ /\ h \notin fresh /\ ~IsReplicaInConstruction(h)
        /\ content[cur[h]].threads > 0
        /\ Goto(h, "locking")
  /\ UNCHANGED <<counterVars, pool, messageVars, cur, fresh, replicaVars, config>>

\* Mutant: one thread too many.
OneMoreThanRequested(h) ==
  Cardinality(replicas[HomeAgent[h]]) + 1 <= content[cur[h]].threads

\* The replicas and the primary handler are fewer than the message asks for.
MoreThreadsRequested(h) ==
  Cardinality(replicas[HomeAgent[h]]) + 1 < content[cur[h]].threads

\* The requested number of threads exists: the guard is given up again.
DeclineReplication(h) ==
  LET a == HomeAgent[h] IN
  /\ pc[h] = "locking" /\ lock[a] = None
  /\ ~MoreThreadsRequested(h)
  /\ Goto(h, "running")
  /\ UNCHANGED <<counterVars, pool, messageVars, cur, fresh, replicaVars, config>>

\* Mutant: the builder keeps the message that it hands to the replica.
StartReplicaShared(h) ==
  LET a == HomeAgent[h] IN
  /\ pc[h] = "locking" /\ lock[a] = None
  /\ MoreThreadsRequested(h)
  /\ \E r \in Handlers :
       /\ HomeAgent[r] = a /\ pc[r] = "absent"
       /\ pc' = [pc EXCEPT ![h] = "replicating", ![r] = "starting"]
       /\ cur' = [cur EXCEPT ![r] = cur[h]]
       /\ lock' = [lock EXCEPT ![a] = h]
       /\ making' = [making EXCEPT ![a] = r]
  /\ UNCHANGED <<counterVars, pool, messageVars, fresh, replicas, config>>

(***************************************************************************)
(* h builds a replica under the guard: its script runs, then it handles    *)
(* the message of h, still on the thread of h.                             *)
(***************************************************************************)
StartReplica(h) ==
  LET a == HomeAgent[h] IN
  /\ pc[h] = "locking" /\ lock[a] = None
  /\ MoreThreadsRequested(h)
  /\ \E r \in Handlers :
       /\ HomeAgent[r] = a /\ pc[r] = "absent"
       /\ pc' = [pc EXCEPT ![h] = "replicating", ![r] = "starting"]
       /\ cur' = [cur EXCEPT ![h] = None, ![r] = cur[h]]
       /\ lock' = [lock EXCEPT ![a] = h]
       /\ making' = [making EXCEPT ![a] = r]
  /\ UNCHANGED <<counterVars, pool, messageVars, fresh, replicas, config>>

ReplicaScriptEnds(r) ==
  /\ pc[r] = "starting" /\ IsReplicaInConstruction(r)
  /\ sending[r] = None
  /\ \/ /\ Goto(r, "entered")
        /\ UNCHANGED <<counterVars, messageVars, cur, replicaVars>>
     \/ "script" \in Faults /\ Escape(r)
  /\ UNCHANGED <<pool, fresh, config>>

\* addHandler adds the handler: the replica takes messages from now on.
AddHandler(r) ==
  LET a == HomeAgent[r] IN
  /\ pc[r] = "built"
  /\ pc' = [pc EXCEPT ![r] = "waiting", ![lock[a]] = "adding"]
  /\ UNCHANGED <<counterVars, pool, messageVars, cur, fresh, replicaVars, config>>

\* addHandler reads logMessages and returns; emplace.
PublishReplica(h) ==
  LET a == HomeAgent[h] IN
  /\ pc[h] = "adding"
  /\ config[a] = "complete"
  /\ Goto(h, "publishing")
  /\ \E r \in Handlers :
       /\ making[a] = r
       /\ replicas' = [replicas EXCEPT ![a] = @ \cup {r}]
  /\ making' = [making EXCEPT ![a] = None]
  /\ UNCHANGED <<counterVars, pool, messageVars, cur, fresh, lock, config>>

(***************************************************************************)
(* addHandler throws for want of logMessages.  The replica may be handling *)
(* a message by now; its destructor waits for it like for all others (what *)
(* it takes from the handler at work is in module AgentLifecycle).         *)
(***************************************************************************)
PublishReplicaFails(h) ==
  LET a == HomeAgent[h] IN
  /\ pc[h] = "adding"
  /\ config[a] # "complete"
  /\ Goto(h, "disposing")
  /\ making' = [making EXCEPT ![a] = None]
  /\ UNCHANGED <<counterVars, pool, messageVars, cur, fresh, lock, replicas, config>>

\* Mutants: the builder counts the message down that its replica has handled;
\* the guard is given up only after an exception.
ReleaseGuardCountsDown(h) ==
  /\ pc[h] = "publishing"
  /\ Goto(h, IF config[HomeAgent[h]] = "complete" THEN "leaving" ELSE "waiting")
  /\ lock' = [lock EXCEPT ![HomeAgent[h]] = None]
  /\ Counter!Decrease
  /\ UNCHANGED <<pool, messageVars, cur, fresh, making, replicas, config>>

ReleaseGuardOnException(h) ==
  LET a == HomeAgent[h]
      normal == config[a] = "complete" IN
  /\ pc[h] = "publishing"
  /\ Goto(h, IF normal THEN "leaving" ELSE "waiting")
  /\ lock' = IF normal THEN lock ELSE [lock EXCEPT ![a] = None]
  /\ UNCHANGED <<counterVars, pool, messageVars, cur, fresh, making, replicas, config>>

\* The end of the guard's block, or an exception for want of logReplication.
ReleaseGuard(h) ==
  LET a == HomeAgent[h] IN
  /\ pc[h] = "publishing"
  /\ Goto(h, IF config[a] = "complete" THEN "leaving" ELSE "waiting")
  /\ lock' = [lock EXCEPT ![a] = None]
  /\ UNCHANGED <<counterVars, pool, messageVars, cur, fresh, making, replicas, config>>

-----------------------------------------------------------------------------
(* The function of the script, and the reply *)

\* setconfig() replaces the whole configuration of the calling agent.
SetConfig(h) ==
  /\ "config" \in Faults
  /\ HomeAgent[h] \in LuaAgents
  /\ pc[h] \in {"starting", "running"} /\ sending[h] = None
  /\ \E entries \in Configurations :
       config' = [config EXCEPT ![HomeAgent[h]] = entries]
  /\ UNCHANGED <<counterVars, pool, messageVars, handlerVars, replicaVars>>

\* Mutant: a message is counted down before its reply is sent.
RunPluginReturnsEarly(h) ==
  /\ HomeAgent[h] \in LuaAgents
  /\ pc[h] = "running" /\ sending[h] = None
  /\ Goto(h, IF content[cur[h]].replyTo = None THEN "replied" ELSE "ran")
  /\ Counter!Decrease
  /\ UNCHANGED <<pool, messageVars, cur, fresh, replicaVars, config>>

\* RunPlugin turns every exception into an "error" entry of its result.
RunPluginReturns(h) ==
  /\ HomeAgent[h] \in LuaAgents
  /\ pc[h] = "running" /\ sending[h] = None
  /\ Goto(h, IF content[cur[h]].replyTo = None THEN "replied" ELSE "ran")
  /\ UNCHANGED <<counterVars, pool, messageVars, cur, fresh, replicaVars, config>>

\* The reply is sent before the message it answers is counted down.
Reply(h, c) ==
  /\ pc[h] = "ran"
  /\ c.to = content[cur[h]].replyTo
  /\ ReplyWithinBudget(c)
  /\ BeginSend(h, c)
  /\ Goto(h, "replying")
  /\ UNCHANGED <<cur, fresh>>

\* GetMessage throws within the try block, which counts nothing down.
ReplyToUnknown(h) ==
  /\ pc[h] = "ran"
  /\ ~Known(content[cur[h]].replyTo)
  /\ Lose(h)
  /\ Goto(h, "leaving")
  /\ UNCHANGED <<pool, queue, content, sending, fresh, replicaVars, config>>

\* Mutant: the function returns after the reply, without counting down.
ReplySentLeaves(h) ==
  /\ pc[h] = "replying"
  /\ Enqueue(h) \/ Skip(h)
  /\ Goto(h, "leaving")
  /\ UNCHANGED <<cur, fresh>>

ReplySent(h) ==
  /\ pc[h] = "replying"
  /\ Enqueue(h) \/ Skip(h)
  /\ Goto(h, "replied")
  /\ UNCHANGED <<cur, fresh>>

\* Validate throws within the try block: neither message is counted down.
ReplyRejected(h) ==
  LET reply == sending[h] IN
  /\ pc[h] = "replying"
  /\ ~content[reply].complete
  /\ sending' = [sending EXCEPT ![h] = None]
  /\ stage' = [stage EXCEPT ![reply] = "lost", ![cur[h]] = "lost"]
  /\ cur' = [cur EXCEPT ![h] = None]
  /\ Goto(h, "leaving")
  /\ UNCHANGED <<counterVars, pool, queue, content, fresh, replicaVars, config>>

Complete(h) ==
  /\ pc[h] = "replied"
  /\ CountDown(h)
  /\ Goto(h, "leaving")
  /\ UNCHANGED <<pool, queue, content, sending, fresh, replicaVars, config>>

\* _timeOfLastMessage is stored and handleMessage returns.
Leave(h) ==
  /\ pc[h] = "leaving"
  /\ fresh' = fresh \ {h}
  /\ Goto(h, IF IsReplicaInConstruction(h) THEN "built" ELSE "waiting")
  /\ UNCHANGED <<counterVars, pool, messageVars, cur, replicaVars, config>>

-----------------------------------------------------------------------------
(* The application *)

\* WaitUntilMessageQueueIsEmpty, by a thread that is not sending.
ClientWait(c) ==
  /\ Counter!WaitUntilEmpty(c) \/ Counter!SpuriousWakeup(c)
  /\ sending[c] = None
  /\ UNCHANGED <<pool, messageVars, handlerVars, replicaVars, config>>

ClientRecheck(c) ==
  /\ Counter!Recheck(c)
  /\ UNCHANGED <<pool, messageVars, handlerVars, replicaVars, config>>

\* ShutdownAgents releases the singleton: ThreadPool::Get() finds none.
ReleasePool ==
  /\ "shutdown" \in Faults
  /\ pool = "up"
  /\ pool' = "down"
  /\ UNCHANGED <<counterVars, messageVars, handlerVars, replicaVars, config>>

\* The destructor of an agent thread disposes its handlers between messages.
StopHandler(h) ==
  /\ \/ pool = "down"
     \/ \E b \in Handlers : HomeAgent[b] = HomeAgent[h] /\ pc[b] = "disposing"
  /\ pc[h] = "waiting"
  /\ Goto(h, "stopped")
  /\ UNCHANGED <<counterVars, pool, messageVars, cur, fresh, replicaVars, config>>

-----------------------------------------------------------------------------
\* What a handler thread does once it has a message.
HandlerStep(h) ==
  \/ Take(h)
  \/ CppReturns(h) \/ CppThrows(h)
  \/ ReadConfigurationFails(h) \/ Decide(h)
  \/ DeclineReplication(h) \/ StartReplica(h)
  \/ ReplicaScriptEnds(h)
  \/ AddHandler(h)
  \/ PublishReplica(h) \/ PublishReplicaFails(h) \/ ReleaseGuard(h)
  \/ RunPluginReturns(h)
  \/ \E c \in Contents : Reply(h, c)
  \/ ReplyToUnknown(h) \/ ReplySent(h) \/ ReplyRejected(h)
  \/ Complete(h) \/ Leave(h)

\* What happens only because the application or a script wants it.
Environment ==
  \/ \E a \in Agents : AddAgent(a)
  \/ \E t \in Threads, c \in Contents : SendMessage(t, c)
  \/ \E h \in Handlers : SetConfig(h)
  \/ \E c \in Clients : ClientWait(c)
  \/ ReleasePool
  \/ \E h \in Handlers : StopHandler(h)

Next ==
  \/ Environment
  \/ \E a \in Agents : ScriptEnds(a)
  \/ \E t \in Threads : FinishSend(t)
  \/ \E h \in Handlers : HandlerStep(h)
  \/ \E c \in Clients : ClientRecheck(c)

Spec == Init /\ [][Next]_vars

(***************************************************************************)
(* Every thread that can go on is scheduled again.  A script that is asked *)
(* for never runs forever: the functions of scripts and the C++ handlers   *)
(* are assumed to return.  A handler that waits for the guard of           *)
(* _replicated may find it taken again and again, so it needs strong       *)
(* fairness, which a mutex queue of the platform gives it.                 *)
(***************************************************************************)
Fairness ==
  /\ \A a \in Agents : WF_vars(ScriptEnds(a))
  /\ \A t \in Threads : WF_vars(FinishSend(t))
  /\ \A h \in Handlers :
       /\ WF_vars(HandlerStep(h))
       /\ SF_vars(DeclineReplication(h) \/ StartReplica(h))
  /\ \A c \in Clients : WF_vars(ClientRecheck(c))

FairSpec == Spec /\ Fairness
-----------------------------------------------------------------------------
(* Properties *)

Occurrences(m, q) == {i \in DOMAIN q : q[i] = m}

(***************************************************************************)
(* A message is in one place: with the one thread that sends it, at one    *)
(* position of its receiver's queue, or with one handler of its receiver.  *)
(* So no message is handled twice, and no replica and its builder both     *)
(* work on the message that was passed on (agent_thread_lua.cpp:144-188).  *)
(***************************************************************************)
OnePlace ==
  /\ \A t \in Threads : sending[t] # None => stage[sending[t]] = "sending"
  /\ \A h \in Handlers : cur[h] # None =>
       /\ stage[cur[h]] = "held"
       /\ content[cur[h]].to = HomeAgent[h]
  /\ \A a \in Agents : \A i \in DOMAIN queue[a] :
       /\ stage[queue[a][i]] = "queued"
       /\ content[queue[a][i]].to = a
  /\ \A s, t \in Threads : sending[s] = sending[t] => s = t \/ sending[s] = None
  /\ \A g, h \in Handlers : cur[g] = cur[h] => g = h \/ cur[g] = None
  /\ \A a \in Agents : \A i, j \in DOMAIN queue[a] : queue[a][i] = queue[a][j] => i = j

(***************************************************************************)
(* The counter is the number of messages that are in Send, in a queue or   *)
(* with a handler, plus those whose count was lost: each is counted once   *)
(* and at most once counted down, by the one thread that is done with it,  *)
(* however replies, replicas and failures interleave (agent_message.cpp:   *)
(* 101, agent_thread_lua.cpp:224, agent_thread_cpp.cpp:49).  A lost count  *)
(* stays for good: that this is wrong is what WaitReturns says.            *)
(***************************************************************************)
Counted == {m \in Msgs : stage[m] \in {"sending", "queued", "held", "lost"}}

CounterExact == size = Cardinality(Counted)

\* Handler h has a message: it runs code of the agent or still owes a reply.
Working(h) ==
  \/ pc[h] \in {"entered", "locking", "running", "ran", "replying", "replied"}
  \/ pc[h] = "starting" /\ IsReplicaInConstruction(h)

(***************************************************************************)
(* While a handler works, or a message is on its way to one, the counter   *)
(* is positive: the reply is counted before the message it answers is      *)
(* counted down (agent_thread_lua.cpp:221-224), and every message before   *)
(* it is enqueued (agent_message.cpp:101-110).                             *)
(***************************************************************************)
Quiet ==
  /\ \A h \in Handlers : ~Working(h)
  /\ \A a \in Agents : queue[a] = <<>>
  /\ \A t \in Threads : sending[t] = None

ZeroMeansQuiet == size = 0 => Quiet

(***************************************************************************)
(* WaitUntilMessageQueueIsEmpty never returns early: when it does, no      *)
(* message waits, and no handler runs or will send a reply (agents.hpp:89).*)
(***************************************************************************)
NoEarlyReturn ==
  [][\A c \in Clients :
       waitsFor[c] = "empty" /\ waitsFor'[c] = "nothing" => Quiet]_vars

(***************************************************************************)
(* An agent never has more threads than some message to it asked for, its  *)
(* primary thread included: the check and the insertion are under one      *)
(* guard, which is held while the replica is built                         *)
(* (agent_thread_lua.cpp:150-164).                                         *)
(***************************************************************************)
ThreadsRequested ==
  \A a \in Agents : replicas[a] # {} =>
    \E m \in Msgs :
      /\ content[m] # None
      /\ content[m].to = a
      /\ Cardinality(replicas[a]) + 1 <= content[m].threads

(***************************************************************************)
(* The guard of _replicated is held exactly while a handler replicates or  *)
(* is stuck in the destructor of a replica that failed, and an agent has   *)
(* at most one replica in construction, which is not yet one of its        *)
(* threads (agent_thread_lua.cpp:150-164, agent_thread.hpp:55-58).         *)
(***************************************************************************)
GuardHeldByBuilder ==
  \A a \in Agents :
    /\ lock[a] # None =>
         /\ HomeAgent[lock[a]] = a
         /\ pc[lock[a]] \in {"replicating", "adding", "publishing", "disposing"}
    /\ \A h \in Handlers :
         /\ HomeAgent[h] = a
         /\ pc[h] \in {"replicating", "adding", "publishing", "disposing"}
         => lock[a] = h
    /\ making[a] # None <=> lock[a] # None /\ pc[lock[a]] \in {"replicating", "adding"}
    /\ making[a] # None =>
         /\ HomeAgent[making[a]] = a
         /\ making[a] \notin replicas[a]
         /\ pc[lock[a]] = "replicating" =>
              pc[making[a]] \in {"starting", "entered", "running", "ran", "replying",
                                "replied", "leaving", "built"}
    /\ \A h \in Handlers :
         HomeAgent[h] = a /\ pc[h] = "built" => IsReplicaInConstruction(h)

(***************************************************************************)
(* What a thread has in its hands agrees with where it is: a handler has a *)
(* message exactly while it works on it, only threads that run scripts,    *)
(* handlers or Reply are inside of Send, and only Lua handlers replicate.  *)
(***************************************************************************)
ThreadState ==
  /\ \A h \in Handlers :
       /\ cur[h] # None <=> Working(h)
       /\ sending[h] # None => pc[h] \in {"starting", "running", "replying"}
       /\ pc[h] = "replying" => sending[h] # None
       /\ pc[h] = "ran" => content[cur[h]].replyTo # None
       /\ HomeAgent[h] \notin LuaAgents =>
            pc[h] \in {"absent", "waiting", "running", "stopped"}
       /\ pc[h] # "absent" => Known(HomeAgent[h])
  /\ \A m \in Msgs : stage[m] = "unused" <=> content[m] = None

(***************************************************************************)
(* Replicas stay existent.  One in construction is not the primary         *)
(* handler, and was asked for by a message that allows for it, its builder *)
(* and all the others.                                                     *)
(***************************************************************************)
ConstructionState ==
  \A a \in Agents :
    /\ \A r \in replicas[a] : pc[r] # "absent"
    /\ making[a] # None =>
         /\ making[a] # Primary[a] /\ pc[making[a]] # "absent"
         /\ \E m \in Msgs :
              /\ content[m] # None
              /\ content[m].to = a
              /\ Cardinality(replicas[a]) + 2 <= content[m].threads

\* The inductive invariant behind the safety properties above.
Inv ==
  /\ TypeOK
  /\ OnePlace
  /\ CounterExact
  /\ GuardHeldByBuilder
  /\ ThreadState
  /\ ConstructionState
  /\ ThreadsRequested

(***************************************************************************)
(* Without faults, every message that was sent is handled completely.      *)
(***************************************************************************)
EveryMessageDone == \A m \in Msgs : stage[m] = "sending" ~> stage[m] = "done"

(***************************************************************************)
(* WaitUntilMessageQueueIsEmpty returns after the agents processed all     *)
(* remaining messages (agents.hpp:89).                                     *)
(***************************************************************************)
WaitReturns == \A c \in Clients : waitsFor[c] = "empty" ~> waitsFor[c] = "nothing"

(***************************************************************************)
(* The promise of the library: see module MessageBus.                      *)
(***************************************************************************)
Phase(m) ==
  CASE stage[m] \in {"sending", "queued"} -> "pending"
    [] stage[m] = "held" -> "handling"
    [] OTHER -> stage[m]

Bus == INSTANCE MessageBus
         WITH phase <- [m \in Msgs |-> Phase(m)],
              waiting <- {c \in Clients : waitsFor[c] = "empty"}

BusSpec == Bus!Spec
BusFairSpec == Bus!FairSpec
=============================================================================
