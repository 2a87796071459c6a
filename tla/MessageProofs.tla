--------------------------- MODULE MessageProofs ---------------------------
(***************************************************************************)
(* Proofs about AgentMessaging, for all sets of agents, handlers, clients  *)
(* and messages, all contents and all combinations of faults: its types,   *)
(* what its steps do to the messages, and what follows from it: a message  *)
(* is in one place, and the counter is exact.                              *)
(***************************************************************************)
EXTENDS AgentMessaging, FiniteSetTheorems, TLAPS

-----------------------------------------------------------------------------
(* Type correctness *)

LEMMA CounterTypes ==
  ASSUME Counter!TypeOK,
         \/ Counter!Increase \/ Counter!Decrease \/ UNCHANGED counterVars
         \/ \E c \in Clients : Counter!Wait(c)
  PROVE  Counter!TypeOK'
<1> USE DEF Counter!TypeOK
<1>1. CASE Counter!Increase
  <2>1. asleep' \subseteq asleep
    BY <1>1 DEF Counter!Increase, Counter!NotifyOne
  <2>2. increased' \in BOOLEAN
    BY <1>1, Zenon DEF Counter!Increase
  <2>3. size' \in Int /\ waitsFor' = waitsFor
    BY <1>1 DEF Counter!Increase
  <2> QED
    BY <2>1, <2>2, <2>3
<1>2. CASE Counter!Decrease
  BY <1>2 DEF Counter!Decrease, Counter!NotifyOne
<1>3. CASE UNCHANGED counterVars
  BY <1>3 DEF counterVars
<1>4. ASSUME NEW c \in Clients, Counter!Wait(c)
      PROVE  Counter!TypeOK'
  BY <1>4 DEF Counter!Wait, Counter!WaitUntilFirst, Counter!WaitUntilEmpty,
              Counter!Recheck, Counter!Return, Counter!SleepAgain,
              Counter!SpuriousWakeup
<1> QED
  BY <1>1, <1>2, <1>3, <1>4

LEMMA SendTypes ==
  ASSUME TypeOK, NEW t \in Threads,
         FinishSend(t) \/ \E c \in Contents : SendMessage(t, c)
  PROVE  TypeOK'
<1>1. ASSUME NEW c \in Contents, SendMessage(t, c)
      PROVE  TypeOK'
  <2>1. Counter!TypeOK'
    BY <1>1, CounterTypes DEF SendMessage, BeginSend, Count, TypeOK
  <2>2. PICK m \in Msgs :
          /\ sending' = [sending EXCEPT ![t] = m]
          /\ stage' = [stage EXCEPT ![m] = "sending"]
          /\ content' = [content EXCEPT ![m] = c]
    BY <1>1 DEF SendMessage, BeginSend, Unused
  <2>3. /\ sending' \in [Threads -> Msgs \cup {None}]
        /\ stage' \in [Msgs -> Stages]
        /\ content' \in [Msgs -> Contents \cup {None}]
    BY <2>2 DEF Stages, TypeOK
  <2>4. UNCHANGED <<pool, queue, lock, making, replicas, config, pc, cur, fresh>>
    BY <1>1 DEF SendMessage, BeginSend, handlerVars, replicaVars
  <2> QED
    BY <2>1, <2>3, <2>4 DEF TypeOK
<1>2. CASE FinishSend(t)
  <2>1. Counter!TypeOK'
    BY <1>2, CounterTypes DEF FinishSend, Enqueue, Skip, Reject, EndSend, TypeOK
  <2>2. CASE Enqueue(t)
    <3>1. sending[t] \in Msgs
      BY <2>2 DEF Enqueue, TypeOK
    <3>2. \A a \in Agents : Append(queue[a], sending[t]) \in Seq(Msgs)
      BY <3>1 DEF TypeOK
    <3>3. queue' \in [Agents -> Seq(Msgs)]
      BY <2>2, <3>2 DEF Enqueue, TypeOK
    <3> QED
      BY <1>2, <2>1, <2>2, <3>3
      DEF FinishSend, Enqueue, EndSend, Stages, handlerVars, replicaVars, TypeOK
  <2>3. CASE Skip(t) \/ Reject(t)
    BY <1>2, <2>1, <2>3 DEF FinishSend, Skip, Reject, EndSend, Stages, handlerVars, replicaVars, TypeOK
  <2> QED
    BY <1>2, <2>2, <2>3 DEF FinishSend
<1> QED
  BY <1>1, <1>2

LEMMA DestroyTypes ==
  ASSUME TypeOK, NEW r \in Handlers, DestroyReplica(r)
  PROVE  /\ pc' \in [Handlers -> Places]
         /\ making' \in [Agents -> Handlers \cup {None}]
         /\ UNCHANGED <<lock, replicas>>
BY DEF DestroyReplica, Places, TypeOK

\* A handler takes a message, or an exception or its end takes it away.
LEMMA MessageTypes ==
  ASSUME TypeOK, NEW h \in Handlers,
         \/ Take(h) \/ CppReturns(h) \/ CppThrows(h) \/ ReadConfigurationFails(h)
         \/ ReplicaScriptEnds(h) \/ ReplyToUnknown(h) \/ Complete(h)
  PROVE  TypeOK'
<1> USE DEF Goto, Stages, Places, messageVars, replicaVars, TypeOK
<1>1. CASE Take(h)
  <2>1. Counter!TypeOK'
    BY <1>1, CounterTypes DEF Take
  <2>2. HomeAgent[h] \in Agents /\ queue[HomeAgent[h]] \in Seq(Msgs)
    BY MessagingAssumption
  <2>3. Head(queue[HomeAgent[h]]) \in Msgs /\ Tail(queue[HomeAgent[h]]) \in Seq(Msgs)
    BY <1>1, <2>2 DEF Take
  <2> QED
    BY <1>1, <2>1, <2>2, <2>3 DEF Take
<1>2. CASE CppReturns(h) \/ Complete(h)
  <2>1. Counter!TypeOK'
    BY <1>2, CounterTypes DEF CppReturns, Complete, CountDown
  <2> QED
    BY ZenonT(30), <1>2, <2>1 DEF CppReturns, Complete, CountDown
<1>3. ASSUME Escape(h)
      PROVE  TypeOK'
  <2>1. Counter!TypeOK'
    BY <1>3, CounterTypes DEF Escape, Lose
  <2>2. /\ pc' \in [Handlers -> Places]
        /\ making' \in [Agents -> Handlers \cup {None}]
        /\ UNCHANGED <<lock, replicas>>
    BY <1>3, DestroyTypes DEF Escape
  <2> QED
    BY <1>3, <2>1, <2>2 DEF Escape, Lose
<1>4. CASE ReplyToUnknown(h)
  <2>1. Counter!TypeOK'
    BY <1>4, CounterTypes DEF ReplyToUnknown, Lose
  <2> QED
    BY <1>4, <2>1 DEF ReplyToUnknown, Lose
<1>5. CASE ReplicaScriptEnds(h)
  <2>1. CASE Escape(h)
    BY <1>3, <2>1
  <2>2. CASE Goto(h, "entered") /\ UNCHANGED <<counterVars, messageVars, cur, replicaVars>>
    <3>1. Counter!TypeOK'
      BY <2>2, CounterTypes
    <3> QED
      BY <1>5, <2>2, <3>1 DEF ReplicaScriptEnds
  <2> QED
    BY <1>5, <2>1, <2>2 DEF ReplicaScriptEnds
<1> QED
  BY <1>1, <1>2, <1>3, <1>4, <1>5 DEF CppThrows, ReadConfigurationFails

\* A handler moves on with what it has.
LEMMA HandlerTypes ==
  ASSUME TypeOK, NEW h \in Handlers,
         \/ Decide(h) \/ DeclineReplication(h) \/ StartReplica(h) \/ AddHandler(h)
         \/ PublishReplica(h) \/ PublishReplicaFails(h) \/ ReleaseGuard(h) \/ RunPluginReturns(h)
         \/ (\E c \in Contents : Reply(h, c)) \/ ReplySent(h) \/ ReplyRejected(h) \/ Leave(h)
  PROVE  TypeOK'
<1> USE DEF Goto, Stages, Places, messageVars, replicaVars, TypeOK
<1>1. CASE \/ Decide(h) \/ DeclineReplication(h) \/ RunPluginReturns(h) \/ Leave(h)
  <2>1. Counter!TypeOK'
    BY <1>1, CounterTypes DEF Decide, DeclineReplication, RunPluginReturns, Leave
  <2> QED
    BY <1>1, <2>1 DEF Decide, DeclineReplication, RunPluginReturns, Leave
<1>2. CASE StartReplica(h)
  <2>1. Counter!TypeOK'
    BY <1>2, CounterTypes DEF StartReplica
  <2>2. PICK r \in Handlers :
          /\ pc' = [pc EXCEPT ![h] = "replicating", ![r] = "starting"]
          /\ cur' = [cur EXCEPT ![h] = None, ![r] = cur[h]]
          /\ lock' = [lock EXCEPT ![HomeAgent[h]] = h]
          /\ making' = [making EXCEPT ![HomeAgent[h]] = r]
    BY <1>2 DEF StartReplica
  <2>3. pc' \in [Handlers -> Places] /\ cur' \in [Handlers -> Msgs \cup {None}]
    BY <2>2
  <2>4. /\ lock' \in [Agents -> Handlers \cup {None}]
        /\ making' \in [Agents -> Handlers \cup {None}]
    BY <2>2
  <2> QED
    BY <1>2, <2>1, <2>3, <2>4 DEF StartReplica
<1>3. CASE PublishReplica(h)
  <2>1. Counter!TypeOK'
    BY <1>3, CounterTypes DEF PublishReplica
  <2>2. PICK r \in Handlers :
          replicas' = [replicas EXCEPT ![HomeAgent[h]] = replicas[HomeAgent[h]] \cup {r}]
    BY <1>3 DEF PublishReplica
  <2>3. replicas \in [Agents -> SUBSET Handlers] /\ HomeAgent[h] \in Agents
    BY MessagingAssumption
  <2>4. replicas[HomeAgent[h]] \cup {r} \in SUBSET Handlers
    BY <2>3
  <2>5. replicas' \in [Agents -> SUBSET Handlers]
    BY ONLY <2>2, <2>3, <2>4
  <2>6. /\ pc' \in [Handlers -> Places]
        /\ making' \in [Agents -> Handlers \cup {None}]
    BY <1>3 DEF PublishReplica
  <2> QED
    BY <1>3, <2>1, <2>5, <2>6 DEF PublishReplica
<1>7. CASE AddHandler(h)
  <2>1. Counter!TypeOK'
    BY <1>7, CounterTypes DEF AddHandler
  <2>2. pc' \in [Handlers -> Places]
    BY <1>7 DEF AddHandler
  <2> QED
    BY <1>7, <2>1, <2>2 DEF AddHandler
<1>9. CASE PublishReplicaFails(h)
  <2>1. Counter!TypeOK'
    BY <1>9, CounterTypes DEF PublishReplicaFails
  <2>2. pc' \in [Handlers -> Places] /\ making' \in [Agents -> Handlers \cup {None}]
    BY <1>9 DEF PublishReplicaFails
  <2> QED
    BY <1>9, <2>1, <2>2 DEF PublishReplicaFails
<1>8. CASE ReleaseGuard(h)
  <2>1. Counter!TypeOK'
    BY <1>8, CounterTypes DEF ReleaseGuard
  <2> QED
    BY <1>8, <2>1 DEF ReleaseGuard
<1>4. ASSUME NEW c \in Contents, Reply(h, c)
      PROVE  TypeOK'
  <2>1. Counter!TypeOK'
    BY <1>4, CounterTypes DEF Reply, BeginSend, Count
  <2>2. PICK m \in Msgs :
          /\ sending' = [sending EXCEPT ![h] = m]
          /\ stage' = [stage EXCEPT ![m] = "sending"]
          /\ content' = [content EXCEPT ![m] = c]
    BY <1>4 DEF Reply, BeginSend, Unused
  <2>3. /\ sending' \in [Threads -> Msgs \cup {None}]
        /\ stage' \in [Msgs -> Stages]
        /\ content' \in [Msgs -> Contents \cup {None}]
    BY <2>2
  <2>4. /\ UNCHANGED <<pool, queue, lock, making, replicas, config, cur, fresh>>
        /\ pc' = [pc EXCEPT ![h] = "replying"]
    BY <1>4 DEF Reply, BeginSend
  <2> QED
    BY <2>1, <2>3, <2>4
<1>5. CASE ReplySent(h)
  <2>1. h \in Threads
    BY DEF Threads
  <2>2. Counter!TypeOK'
    BY <1>5, CounterTypes DEF ReplySent, Enqueue, Skip, EndSend
  <2>3. queue' \in [Agents -> Seq(Msgs)]
    <3>1. CASE Enqueue(h)
      <4>1. sending[h] \in Msgs
        BY <2>1, <3>1 DEF Enqueue
      <4>2. \A a \in Agents : Append(queue[a], sending[h]) \in Seq(Msgs)
        BY <4>1
      <4> QED
        BY <3>1, <4>2 DEF Enqueue
    <3>2. CASE Skip(h)
      BY <3>2 DEF Skip
    <3> QED
      BY <1>5, <3>1, <3>2 DEF ReplySent
  <2> QED
    BY <1>5, <2>2, <2>3 DEF ReplySent, Enqueue, Skip, EndSend
<1>6. CASE ReplyRejected(h)
  <2>1. Counter!TypeOK'
    BY <1>6, CounterTypes DEF ReplyRejected
  <2> QED
    BY <1>6, <2>1 DEF ReplyRejected
<1> QED
  BY <1>1, <1>2, <1>3, <1>4, <1>5, <1>6, <1>7, <1>8, <1>9

\* The application starts agents, waits, shuts down and configures.
LEMMA ApplicationTypes ==
  ASSUME TypeOK,
         \/ \E a \in Agents : AddAgent(a) \/ ScriptEnds(a)
         \/ \E h \in Handlers : SetConfig(h) \/ StopHandler(h)
         \/ \E c \in Clients : ClientWait(c) \/ ClientRecheck(c)
         \/ ReleasePool
  PROVE  TypeOK'
<1> USE DEF Goto, Places, Configurations, messageVars, handlerVars, replicaVars, TypeOK
<1>1. ASSUME NEW a \in Agents, AddAgent(a) \/ ScriptEnds(a)
      PROVE  TypeOK'
  <2>1. Counter!TypeOK'
    BY <1>1, CounterTypes DEF AddAgent, ScriptEnds
  <2> QED
    BY <1>1, <2>1 DEF AddAgent, ScriptEnds
<1>2. ASSUME NEW h \in Handlers, SetConfig(h) \/ StopHandler(h)
      PROVE  TypeOK'
  <2>1. Counter!TypeOK'
    BY <1>2, CounterTypes DEF SetConfig, StopHandler
  <2> QED
    BY <1>2, <2>1 DEF SetConfig, StopHandler
<1>3. ASSUME NEW c \in Clients, ClientWait(c) \/ ClientRecheck(c)
      PROVE  TypeOK'
  <2>1. Counter!TypeOK'
    BY <1>3, CounterTypes DEF ClientWait, ClientRecheck, Counter!Wait
  <2> QED
    BY <1>3, <2>1 DEF ClientWait, ClientRecheck
<1>4. CASE ReleasePool
  <2>1. Counter!TypeOK'
    BY <1>4, CounterTypes DEF ReleasePool
  <2> QED
    BY <1>4, <2>1 DEF ReleasePool
<1> QED
  BY <1>1, <1>2, <1>3, <1>4

LEMMA TypesPreserved == TypeOK /\ [Next]_vars => TypeOK'
<1> SUFFICES ASSUME TypeOK, [Next]_vars
             PROVE  TypeOK'
  OBVIOUS
<1>1. CASE UNCHANGED vars
  <2>1. Counter!TypeOK'
    BY <1>1, CounterTypes DEF vars, TypeOK
  <2>2. UNCHANGED <<pool, queue, stage, content, sending, pc, cur, fresh,
                    lock, making, replicas, config>>
    BY <1>1 DEF vars, messageVars, handlerVars, replicaVars
  <2> QED
    BY <2>1, <2>2 DEF TypeOK
<1>2. CASE Next
  <2>1. ASSUME NEW t \in Threads, FinishSend(t) \/ \E c \in Contents : SendMessage(t, c)
        PROVE  TypeOK'
    BY <2>1, SendTypes
  <2>2. ASSUME NEW h \in Handlers, HandlerStep(h)
        PROVE  TypeOK'
    BY <2>2, MessageTypes, HandlerTypes DEF HandlerStep
  <2> QED
    BY <1>2, <2>1, <2>2, ApplicationTypes DEF Next, Environment
<1> QED
  BY <1>1, <1>2

LEMMA TypesInit == Init => TypeOK
<1> SUFFICES ASSUME Init
             PROVE  TypeOK
  OBVIOUS
<1>1. Counter!TypeOK
  <2>1. Counter!Init
    BY DEF Init
  <2>2. size \in Int /\ waitsFor \in [Clients -> {"nothing", "first", "empty"}]
    BY <2>1 DEF Counter!Init
  <2>3. increased \in BOOLEAN /\ asleep = {}
    BY <2>1, Zenon DEF Counter!Init
  <2> QED
    BY <2>2, <2>3 DEF Counter!TypeOK
<1>2. [a \in Agents |-> <<>>] \in [Agents -> Seq(Msgs)]
  OBVIOUS
<1> QED
  BY <1>1, <1>2 DEF Init, TypeOK, Stages, Places, Configurations

(***************************************************************************)
(* Every variable of the messaging core keeps its type.                    *)
(***************************************************************************)
THEOREM TypeCorrect == Spec => []TypeOK
<1> QED
  BY TypesInit, TypesPreserved, PTL DEF Spec

-----------------------------------------------------------------------------
(* The effect of a step on the messages *)

\* No message moves, and none is counted.
Rest == UNCHANGED <<size, queue, stage, content, sending, cur>>

\* The message of h is handled, or what becomes of it is lost.
Settle(h) ==
  /\ cur[h] # None
  /\ cur' = [cur EXCEPT ![h] = None]
  /\ \/ stage' = [stage EXCEPT ![cur[h]] = "done"] /\ size' = size - 1
     \/ stage' = [stage EXCEPT ![cur[h]] = "lost"] /\ size' = size
  /\ UNCHANGED <<queue, content, sending>>

\* The message of h goes to the replica r that h builds for it.
HandOver(h, r) ==
  /\ cur[h] # None /\ cur[r] = None
  /\ HomeAgent[r] = HomeAgent[h]
  /\ cur' = [cur EXCEPT ![h] = None, ![r] = cur[h]]
  /\ UNCHANGED <<size, queue, stage, content, sending>>

Moves(t) == (Enqueue(t) \/ Skip(t) \/ Reject(t)) /\ UNCHANGED cur

Effect ==
  \/ Rest
  \/ \E t \in Threads, c \in Contents : BeginSend(t, c) /\ UNCHANGED cur
  \/ \E t \in Threads : Moves(t)
  \/ \E h \in Handlers : Take(h)
  \/ \E h \in Handlers : Settle(h)
  \/ \E h, r \in Handlers : HandOver(h, r)
  \/ \E h \in Handlers : ReplyRejected(h)

LEMMA HandlerEffect ==
  ASSUME TypeOK, ThreadState, NEW h \in Handlers, HandlerStep(h)
  PROVE  Effect
<1>1. CASE Take(h)
  BY <1>1 DEF Effect
<1>2. CASE CppReturns(h) \/ Complete(h)
  <2>1. cur[h] # None
    BY <1>2 DEF CppReturns, Complete, ThreadState, Working
  <2>2. Settle(h)
    BY <1>2, <2>1 DEF CppReturns, Complete, CountDown, Counter!Decrease, Settle
  <2> QED
    BY <2>2 DEF Effect
<1>3. CASE CppThrows(h) \/ ReadConfigurationFails(h)
  <2>1. cur[h] # None
    BY <1>3 DEF CppThrows, ReadConfigurationFails, ThreadState, Working
  <2>2. Settle(h)
    BY <1>3, <2>1 DEF CppThrows, ReadConfigurationFails, Escape, Lose, counterVars, Settle
  <2> QED
    BY <2>2 DEF Effect
<1>4. CASE ReplyToUnknown(h)
  <2>1. cur[h] # None
    BY <1>4 DEF ReplyToUnknown, ThreadState, Working
  <2>2. Settle(h)
    BY <1>4, <2>1 DEF ReplyToUnknown, Lose, counterVars, Settle
  <2> QED
    BY <2>2 DEF Effect
<1>5. CASE ReplicaScriptEnds(h)
  <2>1. CASE Escape(h)
    <3>1. cur[h] # None
      BY <1>5 DEF ReplicaScriptEnds, ThreadState, Working
    <3>2. Settle(h)
      BY <2>1, <3>1 DEF Escape, Lose, counterVars, Settle
    <3> QED
      BY <3>2 DEF Effect
  <2>2. CASE UNCHANGED <<counterVars, messageVars, cur, replicaVars>>
    BY <2>2 DEF counterVars, messageVars, Rest, Effect
  <2> QED
    BY <1>5, <2>1, <2>2 DEF ReplicaScriptEnds
<1>6. CASE StartReplica(h)
  <2>1. PICK r \in Handlers :
          /\ HomeAgent[r] = HomeAgent[h] /\ pc[r] = "absent"
          /\ cur' = [cur EXCEPT ![h] = None, ![r] = cur[h]]
    BY <1>6 DEF StartReplica
  <2>2. cur[h] # None /\ cur[r] = None
    BY <1>6, <2>1 DEF StartReplica, ThreadState, Working
  <2>3. HandOver(h, r)
    BY <1>6, <2>1, <2>2 DEF StartReplica, counterVars, messageVars, HandOver
  <2> QED
    BY <2>3 DEF Effect
<1>7. ASSUME NEW c \in Contents, Reply(h, c)
      PROVE  Effect
  <2>1. h \in Threads
    BY DEF Threads
  <2>2. BeginSend(h, c) /\ UNCHANGED cur
    BY <1>7 DEF Reply
  <2> QED
    BY <2>1, <2>2 DEF Effect
<1>8. CASE ReplySent(h)
  <2>1. h \in Threads
    BY DEF Threads
  <2>2. Moves(h)
    BY <1>8 DEF ReplySent, Moves
  <2> QED
    BY <2>1, <2>2 DEF Effect
<1>9. CASE ReplyRejected(h)
  BY <1>9 DEF Effect
<1>10. CASE \/ Decide(h) \/ DeclineReplication(h) \/ AddHandler(h) \/ PublishReplica(h)
            \/ PublishReplicaFails(h) \/ ReleaseGuard(h) \/ RunPluginReturns(h) \/ Leave(h)
  BY <1>10 DEF Decide, DeclineReplication, AddHandler, PublishReplica, PublishReplicaFails, ReleaseGuard,
               RunPluginReturns, Leave, counterVars, messageVars, Rest, Effect
<1> QED
  BY <1>1, <1>2, <1>3, <1>4, <1>5, <1>6, <1>7, <1>8, <1>9, <1>10 DEF HandlerStep

LEMMA StepEffect ==
  ASSUME TypeOK, ThreadState, [Next]_vars
  PROVE  Effect
<1>1. CASE UNCHANGED vars
  BY <1>1 DEF vars, counterVars, messageVars, handlerVars, Rest, Effect
<1>2. ASSUME NEW h \in Handlers, HandlerStep(h)
      PROVE  Effect
  BY <1>2, HandlerEffect
<1>3. ASSUME NEW t \in Threads, FinishSend(t)
      PROVE  Effect
  <2>1. Moves(t)
    BY <1>3 DEF FinishSend, handlerVars, Moves
  <2> QED
    BY <2>1 DEF Effect
<1>4. ASSUME NEW t \in Threads, NEW c \in Contents, SendMessage(t, c)
      PROVE  Effect
  <2>1. BeginSend(t, c) /\ UNCHANGED cur
    BY <1>4 DEF SendMessage, handlerVars
  <2> QED
    BY <2>1 DEF Effect
<1>5. ASSUME NEW c \in Clients, ClientWait(c) \/ ClientRecheck(c)
      PROVE  Effect
  BY <1>5 DEF ClientWait, ClientRecheck, Counter!WaitUntilEmpty, Counter!SpuriousWakeup,
              Counter!Recheck, Counter!Return, Counter!SleepAgain,
              messageVars, handlerVars, Rest, Effect
<1>6. ASSUME NEW a \in Agents, AddAgent(a) \/ ScriptEnds(a)
      PROVE  Effect
  BY <1>6 DEF AddAgent, ScriptEnds, counterVars, messageVars, Rest, Effect
<1>7. ASSUME NEW h \in Handlers, SetConfig(h) \/ StopHandler(h)
      PROVE  Effect
  BY <1>7 DEF SetConfig, StopHandler, counterVars, messageVars, handlerVars, Rest, Effect
<1>8. CASE ReleasePool
  BY <1>8 DEF ReleasePool, counterVars, messageVars, handlerVars, Rest, Effect
<1> QED
  BY <1>1, <1>2, <1>3, <1>4, <1>5, <1>6, <1>7, <1>8 DEF Next, Environment

-----------------------------------------------------------------------------
(* A message is in one place *)

LEMMA SentInOnePlace ==
  ASSUME TypeOK, OnePlace, ThreadState,
         NEW t \in Threads, NEW c \in Contents, BeginSend(t, c), UNCHANGED cur
  PROVE  OnePlace'
<1> USE DEF TypeOK
<1>1. PICK m \in Msgs :
        /\ stage[m] = "unused"
        /\ sending' = [sending EXCEPT ![t] = m]
        /\ stage' = [stage EXCEPT ![m] = "sending"]
        /\ content' = [content EXCEPT ![m] = c]
  BY DEF BeginSend, Unused
<1>2. UNCHANGED <<queue, cur>>
  BY DEF BeginSend
<1>3. m # None
  BY MessagingAssumption
<1>4. \A s \in Threads : sending[s] # m
  BY <1>1, <1>3 DEF OnePlace
<1>5. \A h \in Handlers : cur[h] # m
  BY <1>1, <1>3 DEF OnePlace
<1>6. \A a \in Agents : \A i \in DOMAIN queue[a] : queue[a][i] # m /\ queue[a][i] \in Msgs
  BY <1>1 DEF OnePlace
<1>7. \A s \in Threads : sending'[s] # None => stage'[sending'[s]] = "sending"
  BY <1>1, <1>4 DEF OnePlace
<1>8. \A h \in Handlers : cur'[h] # None =>
        stage'[cur'[h]] = "held" /\ content'[cur'[h]].to = HomeAgent[h]
  BY <1>1, <1>2, <1>5 DEF OnePlace
<1>9. \A a \in Agents : \A i \in DOMAIN queue'[a] :
        stage'[queue'[a][i]] = "queued" /\ content'[queue'[a][i]].to = a
  BY <1>1, <1>2, <1>6 DEF OnePlace
<1>10. \A r, s \in Threads : sending'[r] = sending'[s] => r = s \/ sending'[r] = None
  BY <1>1, <1>4 DEF OnePlace
<1> QED
  BY <1>2, <1>7, <1>8, <1>9, <1>10 DEF OnePlace

LEMMA MovedInOnePlace ==
  ASSUME TypeOK, OnePlace, NEW t \in Threads, Moves(t)
  PROVE  OnePlace'
<1> USE DEF TypeOK
<1> DEFINE m == sending[t]
<1>1. m \in Msgs /\ m # None
  BY MessagingAssumption DEF Moves, Enqueue, Skip, Reject
<1>2. stage[m] = "sending"
  BY <1>1 DEF OnePlace
<1>3. PICK where \in {"queued", "lost"} : stage' = [stage EXCEPT ![m] = where]
  BY DEF Moves, Enqueue, Skip, Reject, EndSend
<1>4. sending' = [sending EXCEPT ![t] = None] /\ UNCHANGED <<content, cur>>
  BY DEF Moves, Enqueue, Skip, Reject, EndSend
<1>5. \A s \in Threads : sending[s] = m => s = t
  BY <1>1 DEF OnePlace
<1>6. \A h \in Handlers : cur[h] # m
  BY <1>1, <1>2 DEF OnePlace
<1>7. \A a \in Agents : \A i \in DOMAIN queue[a] : queue[a][i] # m /\ queue[a][i] \in Msgs
  BY <1>2 DEF OnePlace
<1>8. \A s \in Threads : sending'[s] # None => stage'[sending'[s]] = "sending"
  BY <1>1, <1>3, <1>4, <1>5 DEF OnePlace
<1>9. \A h \in Handlers : cur'[h] # None =>
        stage'[cur'[h]] = "held" /\ content'[cur'[h]].to = HomeAgent[h]
  BY <1>1, <1>3, <1>4, <1>6 DEF OnePlace
<1>10. \A r, s \in Threads : sending'[r] = sending'[s] => r = s \/ sending'[r] = None
  BY <1>4 DEF OnePlace
<1>11. /\ \A a \in Agents : \A i \in DOMAIN queue'[a] :
             stage'[queue'[a][i]] = "queued" /\ content'[queue'[a][i]].to = a
       /\ \A a \in Agents : \A i, j \in DOMAIN queue'[a] :
             queue'[a][i] = queue'[a][j] => i = j
  <2>1. CASE Enqueue(t)
    <3> DEFINE b == content[m].to
    <3>1. stage' = [stage EXCEPT ![m] = "queued"]
      BY <2>1 DEF Enqueue, EndSend
    <3>2. queue' = [queue EXCEPT ![b] = Append(queue[b], m)]
      BY <2>1 DEF Enqueue
    <3> HIDE DEF m, b
    <3>3. SUFFICES ASSUME NEW a \in Agents
                   PROVE  /\ \A i \in DOMAIN queue'[a] :
                               stage'[queue'[a][i]] = "queued" /\ content'[queue'[a][i]].to = a
                          /\ \A i, j \in DOMAIN queue'[a] : queue'[a][i] = queue'[a][j] => i = j
      OBVIOUS
    <3>4. CASE a # b
      <4>1. queue'[a] = queue[a]
        BY <3>2, <3>4
      <4> QED
        BY <1>1, <1>3, <1>4, <1>7, <4>1 DEF OnePlace
    <3>5. CASE a = b
      <4>1. queue'[a] = Append(queue[a], m) /\ queue[a] \in Seq(Msgs)
        BY <3>2, <3>5
      <4>2. /\ DOMAIN queue[a] = 1..Len(queue[a])
            /\ DOMAIN queue'[a] = 1..(Len(queue[a]) + 1)
            /\ Len(queue[a]) \in Nat
            /\ queue'[a][Len(queue[a]) + 1] = m
            /\ \A i \in 1..Len(queue[a]) : queue'[a][i] = queue[a][i]
        BY <1>1, <4>1
      <4>3. \A i \in 1..(Len(queue[a]) + 1) : i \in 1..Len(queue[a]) \/ i = Len(queue[a]) + 1
        BY <4>2
      <4>4. /\ \A i \in DOMAIN queue[a] : queue[a][i] # m /\ queue[a][i] \in Msgs
            /\ \A i \in DOMAIN queue[a] : stage[queue[a][i]] = "queued" /\ content[queue[a][i]].to = a
            /\ \A i, j \in DOMAIN queue[a] : queue[a][i] = queue[a][j] => i = j
        BY <1>7, Zenon DEF OnePlace
      <4>5. ASSUME NEW i \in DOMAIN queue'[a]
            PROVE  \/ i \in DOMAIN queue[a] /\ queue'[a][i] = queue[a][i]
                   \/ i = Len(queue[a]) + 1 /\ queue'[a][i] = m
        BY <4>2, <4>3
      <4>6. ASSUME NEW i \in DOMAIN queue'[a]
            PROVE  stage'[queue'[a][i]] = "queued" /\ content'[queue'[a][i]].to = a
        BY <1>1, <1>4, <3>1, <3>5, <4>4, <4>5 DEF b
      <4>7. ASSUME NEW i \in DOMAIN queue'[a], NEW j \in DOMAIN queue'[a],
                   queue'[a][i] = queue'[a][j]
            PROVE  i = j
        BY <4>4, <4>5, <4>7
      <4> QED
        BY <4>6, <4>7
    <3> QED
      BY <3>4, <3>5
  <2>2. CASE Skip(t) \/ Reject(t)
    <3>1. UNCHANGED queue
      BY <2>2 DEF Skip, Reject
    <3> QED
      BY <1>1, <1>3, <1>4, <1>7, <3>1 DEF OnePlace
  <2> QED
    BY <2>1, <2>2 DEF Moves
<1> QED
  BY <1>4, <1>8, <1>9, <1>10, <1>11 DEF OnePlace

LEMMA TakenInOnePlace ==
  ASSUME TypeOK, OnePlace, NEW h \in Handlers, Take(h), cur[h] = None
  PROVE  OnePlace'
<1> DEFINE a == HomeAgent[h]
           m == Head(queue[a])
<1>1. a \in Agents /\ queue[a] \in Seq(Msgs) /\ queue[a] # <<>>
  BY MessagingAssumption DEF Take, TypeOK
<1>2. /\ DOMAIN queue[a] = 1..Len(queue[a])
      /\ Len(queue[a]) \in Nat \ {0}
      /\ m = queue[a][1] /\ m \in Msgs
      /\ DOMAIN Tail(queue[a]) = 1..(Len(queue[a]) - 1)
      /\ \A i \in 1..(Len(queue[a]) - 1) : Tail(queue[a])[i] = queue[a][i + 1]
  BY <1>1
<1>3. stage[m] = "queued" /\ content[m].to = a
  BY <1>1, <1>2 DEF OnePlace
<1>4. /\ cur' = [cur EXCEPT ![h] = m]
      /\ stage' = [stage EXCEPT ![m] = "held"]
      /\ queue' = [queue EXCEPT ![a] = Tail(queue[a])]
      /\ UNCHANGED <<content, sending>>
  BY DEF Take
<1>5. m # None
  BY <1>2, MessagingAssumption
<1> HIDE DEF m
<1>6. \A s \in Threads : sending'[s] # None => stage'[sending'[s]] = "sending"
  BY <1>2, <1>3, <1>4 DEF OnePlace, TypeOK
<1>7. \A g \in Handlers : cur[g] # m
  BY <1>3, <1>5 DEF OnePlace
<1>8. \A g \in Handlers : cur'[g] # None =>
        stage'[cur'[g]] = "held" /\ content'[cur'[g]].to = HomeAgent[g]
  BY <1>2, <1>3, <1>4, <1>7 DEF OnePlace, TypeOK
<1>9. \A f, g \in Handlers : cur'[f] = cur'[g] => f = g \/ cur'[f] = None
  BY <1>4, <1>7 DEF OnePlace, TypeOK
<1>10. ASSUME NEW b \in Agents, NEW i \in DOMAIN queue'[b]
       PROVE  /\ queue'[b][i] # m /\ queue'[b][i] \in Msgs
              /\ \E j \in DOMAIN queue[b] :
                   /\ queue'[b][i] = queue[b][j]
                   /\ j = IF b = a THEN i + 1 ELSE i
  <2>1. CASE b = a
    <3>1. queue'[a] = Tail(queue[a])
      BY <1>1, <1>4 DEF TypeOK
    <3>2. i \in 1..(Len(queue[a]) - 1) /\ queue'[a][i] = queue[a][i + 1]
      BY <1>2, <2>1, <3>1
    <3>3. i + 1 \in DOMAIN queue[a] /\ i + 1 # 1 /\ 1 \in DOMAIN queue[a]
      BY <1>2, <3>2
    <3>4. queue[a][i + 1] # queue[a][1]
      BY <1>1, <3>3 DEF OnePlace
    <3>5. queue[a][i + 1] \in Msgs
      BY <1>1, <1>2, <3>3
    <3> QED
      BY <1>2, <2>1, <3>2, <3>3, <3>4, <3>5
  <2>2. CASE b # a
    <3>1. queue'[b] = queue[b] /\ queue[b] \in Seq(Msgs)
      BY <1>4, <2>2 DEF TypeOK
    <3>2. content[queue[b][i]].to = b /\ queue[b][i] \in Msgs
      BY <3>1 DEF OnePlace
    <3> QED
      BY <1>3, <2>2, <3>1, <3>2
  <2> QED
    BY <2>1, <2>2
<1>11. ASSUME NEW b \in Agents, NEW i \in DOMAIN queue'[b]
       PROVE  stage'[queue'[b][i]] = "queued" /\ content'[queue'[b][i]].to = b
  BY <1>4, <1>10 DEF OnePlace, TypeOK
<1>12. ASSUME NEW b \in Agents, NEW i \in DOMAIN queue'[b], NEW j \in DOMAIN queue'[b],
              queue'[b][i] = queue'[b][j]
       PROVE  i = j
  <2>1. CASE b = a
    <3>1. queue[a][i + 1] = queue[a][j + 1] /\ i + 1 \in DOMAIN queue[a] /\ j + 1 \in DOMAIN queue[a]
      BY <1>10, <1>12, <2>1
    <3>2. i + 1 = j + 1
      BY <1>1, <3>1 DEF OnePlace
    <3>3. i \in Int /\ j \in Int
      <4>1. DOMAIN queue'[a] = 1..(Len(queue[a]) - 1)
        BY <1>1, <1>2, <1>4 DEF TypeOK
      <4> QED
        BY <2>1, <4>1
    <3> QED
      BY <3>2, <3>3
  <2>2. CASE b # a
    BY <1>10, <1>12, <2>2 DEF OnePlace
  <2> QED
    BY <2>1, <2>2
<1>13. \A r, s \in Threads : sending'[r] = sending'[s] => r = s \/ sending'[r] = None
  BY <1>4 DEF OnePlace
<1> QED
  BY <1>6, <1>8, <1>9, <1>11, <1>12, <1>13 DEF OnePlace

LEMMA SettledInOnePlace ==
  ASSUME TypeOK, OnePlace, NEW h \in Handlers, Settle(h)
  PROVE  OnePlace'
<1> USE DEF TypeOK
<1> DEFINE m == cur[h]
<1>1. m \in Msgs /\ m # None /\ stage[m] = "held"
  BY DEF Settle, OnePlace
<1>2. PICK where \in {"done", "lost"} : stage' = [stage EXCEPT ![m] = where]
  BY DEF Settle
<1>3. cur' = [cur EXCEPT ![h] = None] /\ UNCHANGED <<queue, content, sending>>
  BY DEF Settle
<1>4. \A g \in Handlers : cur[g] = m => g = h
  BY <1>1 DEF OnePlace
<1>5. \A s \in Threads : sending'[s] # None => stage'[sending'[s]] = "sending"
  BY <1>1, <1>2, <1>3 DEF OnePlace
<1>6. \A g \in Handlers : cur'[g] # None =>
        stage'[cur'[g]] = "held" /\ content'[cur'[g]].to = HomeAgent[g]
  BY <1>1, <1>2, <1>3, <1>4 DEF OnePlace
<1>7. \A f, g \in Handlers : cur'[f] = cur'[g] => f = g \/ cur'[f] = None
  BY <1>3 DEF OnePlace
<1>8. \A a \in Agents : \A i \in DOMAIN queue[a] :
        queue[a][i] \in Msgs /\ stage[queue[a][i]] = "queued" /\ content[queue[a][i]].to = a
  BY DEF OnePlace
<1>9. \A a \in Agents : \A i \in DOMAIN queue'[a] :
        stage'[queue'[a][i]] = "queued" /\ content'[queue'[a][i]].to = a
  BY <1>1, <1>2, <1>3, <1>8
<1> QED
  BY <1>3, <1>5, <1>6, <1>7, <1>9 DEF OnePlace

LEMMA HandedOverInOnePlace ==
  ASSUME TypeOK, OnePlace, NEW h \in Handlers, NEW r \in Handlers, HandOver(h, r)
  PROVE  OnePlace'
<1>1. cur' = [cur EXCEPT ![h] = None, ![r] = cur[h]] /\ cur[h] # None /\ cur[r] = None
  BY DEF HandOver
<1>2. UNCHANGED <<queue, stage, content, sending>>
  BY DEF HandOver
<1>3. cur[h] \in Msgs /\ h # r /\ HomeAgent[r] = HomeAgent[h]
  BY <1>1 DEF TypeOK, HandOver
<1>4. \A g \in Handlers : cur'[g] # None =>
        stage'[cur'[g]] = "held" /\ content'[cur'[g]].to = HomeAgent[g]
  BY SMTT(30), <1>1, <1>2, <1>3 DEF OnePlace, TypeOK
<1>5. \A g \in Handlers : g # h => cur[g] # cur[h]
  BY <1>1 DEF OnePlace
<1>6. /\ cur'[h] = None /\ cur'[r] = cur[h]
      /\ \A g \in Handlers : g # h /\ g # r => cur'[g] = cur[g]
  BY <1>1, <1>3 DEF TypeOK
<1>7. \A f, g \in Handlers : cur[f] = cur[g] => f = g \/ cur[f] = None
  BY DEF OnePlace
<1>8. ASSUME NEW f \in Handlers, NEW g \in Handlers, cur'[f] = cur'[g], cur'[f] # None
      PROVE  f = g
  <2>1. f # h /\ g # h
    BY <1>6, <1>8
  <2>2. CASE f = r \/ g = r
    BY <1>5, <1>6, <1>8, <2>1, <2>2
  <2>3. CASE f # r /\ g # r
    BY <1>6, <1>7, <1>8, <2>1, <2>3
  <2> QED
    BY <2>2, <2>3
<1> QED
  BY <1>2, <1>4, <1>8 DEF OnePlace

LEMMA RejectedInOnePlace ==
  ASSUME TypeOK, OnePlace, ThreadState, NEW h \in Handlers, ReplyRejected(h)
  PROVE  OnePlace'
<1> USE DEF TypeOK
<1> DEFINE m == cur[h]
           reply == sending[h]
<1>1. h \in Threads
  BY DEF Threads
<1>2. m # None /\ reply # None
  BY DEF ReplyRejected, ThreadState, Working
<1>3. m \in Msgs /\ stage[m] = "held" /\ reply \in Msgs /\ stage[reply] = "sending"
  BY <1>1, <1>2 DEF OnePlace
<1>4. /\ sending' = [sending EXCEPT ![h] = None]
      /\ stage' = [stage EXCEPT ![reply] = "lost", ![m] = "lost"]
      /\ cur' = [cur EXCEPT ![h] = None]
      /\ UNCHANGED <<queue, content>>
  BY DEF ReplyRejected
<1>5. \A n \in Msgs : n # m /\ n # reply => stage'[n] = stage[n]
  BY <1>3, <1>4
<1>6. \A g \in Handlers : cur[g] = m => g = h
  BY <1>2 DEF OnePlace
<1>7. \A s \in Threads : sending[s] = reply => s = h
  BY <1>1, <1>2 DEF OnePlace
<1> HIDE DEF m, reply
<1>8. \A s \in Threads : sending'[s] # None => stage'[sending'[s]] = "sending"
  BY <1>1, <1>3, <1>4, <1>5, <1>7 DEF OnePlace
<1>9. \A g \in Handlers : cur'[g] # None =>
        stage'[cur'[g]] = "held" /\ content'[cur'[g]].to = HomeAgent[g]
  BY <1>3, <1>4, <1>5, <1>6 DEF OnePlace
<1>10. \A f, g \in Handlers : cur'[f] = cur'[g] => f = g \/ cur'[f] = None
  BY <1>4 DEF OnePlace
<1>11. \A r, s \in Threads : sending'[r] = sending'[s] => r = s \/ sending'[r] = None
  BY <1>1, <1>4 DEF OnePlace
<1>12. \A a \in Agents : \A i \in DOMAIN queue[a] :
        queue[a][i] \in Msgs /\ stage[queue[a][i]] = "queued" /\ content[queue[a][i]].to = a
  BY DEF OnePlace
<1>13. \A a \in Agents : \A i \in DOMAIN queue'[a] :
        stage'[queue'[a][i]] = "queued" /\ content'[queue'[a][i]].to = a
  BY <1>3, <1>4, <1>5, <1>12
<1> QED
  BY <1>4, <1>8, <1>9, <1>10, <1>11, <1>13 DEF OnePlace

LEMMA OnePlacePreserved ==
  ASSUME TypeOK, OnePlace, ThreadState, [Next]_vars
  PROVE  OnePlace'
<1>1. CASE Rest
  BY <1>1 DEF Rest, OnePlace
<1>2. ASSUME NEW h \in Handlers, Take(h)
      PROVE  OnePlace'
  <2>1. cur[h] = None
    BY <1>2 DEF Take, ThreadState, Working
  <2> QED
    BY <1>2, <2>1, TakenInOnePlace
<1> QED
  BY <1>1, <1>2, StepEffect, SentInOnePlace, MovedInOnePlace, SettledInOnePlace,
     HandedOverInOnePlace, RejectedInOnePlace DEF Effect

-----------------------------------------------------------------------------
(* The counter is exact *)

LEMMA CountedFinite ==
  ASSUME MessagingAssumption
  PROVE  IsFiniteSet(Counted) /\ Cardinality(Counted) \in Nat
<1>1. Counted \in SUBSET Msgs
  BY DEF Counted
<1>2. IsFiniteSet(Msgs)
  BY DEF MessagingAssumption
<1>3. IsFiniteSet(Counted)
  BY <1>1, <1>2, FS_Subset
<1> QED
  BY <1>3, FS_CardinalityType

LEMMA CounterPreserved ==
  ASSUME TypeOK, OnePlace, ThreadState, CounterExact, [Next]_vars
  PROVE  CounterExact'
<1> USE DEF TypeOK
<1>1. size \in Int /\ IsFiniteSet(Counted) /\ Cardinality(Counted) \in Nat
  BY CountedFinite, MessagingAssumption DEF Counter!TypeOK
<1>2. CASE Rest
  BY <1>2 DEF Rest, Counted, CounterExact
<1>3. ASSUME NEW t \in Threads, NEW c \in Contents, BeginSend(t, c)
      PROVE  CounterExact'
  <2>1. PICK m \in Msgs : stage[m] = "unused" /\ stage' = [stage EXCEPT ![m] = "sending"]
    BY <1>3 DEF BeginSend, Unused
  <2>2. size' = size + 1
    BY <1>3 DEF BeginSend, Count, Counter!Increase
  <2>3. Counted' = Counted \cup {m} /\ m \notin Counted
    BY <2>1 DEF Counted
  <2> QED
    BY <1>1, <2>2, <2>3, FS_AddElement DEF CounterExact
<1>4. ASSUME NEW t \in Threads, Moves(t)
      PROVE  CounterExact'
  <2>1. sending[t] \in Msgs /\ stage[sending[t]] = "sending"
    BY <1>4 DEF Moves, Enqueue, Skip, Reject, OnePlace
  <2>2. PICK where \in {"queued", "lost"} : stage' = [stage EXCEPT ![sending[t]] = where]
    BY <1>4 DEF Moves, Enqueue, Skip, Reject, EndSend
  <2>3. size' = size
    BY <1>4 DEF Moves, Enqueue, Skip, Reject, EndSend, counterVars
  <2>4. Counted' = Counted
    BY <2>1, <2>2 DEF Counted
  <2> QED
    BY <2>3, <2>4 DEF CounterExact
<1>5. ASSUME NEW h \in Handlers, Take(h)
      PROVE  CounterExact'
  <2> DEFINE a == HomeAgent[h]
             m == Head(queue[a])
  <2>1. a \in Agents /\ queue[a] \in Seq(Msgs) /\ queue[a] # <<>>
    BY <1>5, MessagingAssumption DEF Take
  <2>2. 1 \in DOMAIN queue[a] /\ m = queue[a][1] /\ m \in Msgs
    BY <2>1
  <2>3. stage[m] = "queued"
    BY <2>1, <2>2 DEF OnePlace
  <2>4. stage' = [stage EXCEPT ![m] = "held"] /\ size' = size
    BY <1>5 DEF Take, counterVars
  <2> HIDE DEF m
  <2>5. Counted' = Counted
    BY <2>2, <2>3, <2>4 DEF Counted
  <2> QED
    BY <2>4, <2>5 DEF CounterExact
<1>6. ASSUME NEW h \in Handlers, Settle(h)
      PROVE  CounterExact'
  <2>1. cur[h] \in Msgs /\ stage[cur[h]] = "held"
    BY <1>6 DEF Settle, OnePlace
  <2>2. CASE stage' = [stage EXCEPT ![cur[h]] = "done"] /\ size' = size - 1
    <3>1. Counted' = Counted \ {cur[h]} /\ cur[h] \in Counted
      BY <2>1, <2>2 DEF Counted
    <3>2. Cardinality(Counted \ {cur[h]}) = Cardinality(Counted) - 1
      BY ONLY <1>1, <3>1, FS_RemoveElement
    <3> QED
      BY <2>2, <3>1, <3>2 DEF CounterExact
  <2>3. CASE stage' = [stage EXCEPT ![cur[h]] = "lost"] /\ size' = size
    <3>1. Counted' = Counted
      BY <2>1, <2>3 DEF Counted
    <3> QED
      BY <2>3, <3>1 DEF CounterExact
  <2> QED
    BY <1>6, <2>2, <2>3 DEF Settle
<1>7. ASSUME NEW h \in Handlers, NEW r \in Handlers, HandOver(h, r)
      PROVE  CounterExact'
  BY <1>7 DEF HandOver, Counted, CounterExact
<1>8. ASSUME NEW h \in Handlers, ReplyRejected(h)
      PROVE  CounterExact'
  <2>1. h \in Threads
    BY DEF Threads
  <2>2. cur[h] # None /\ sending[h] # None
    BY <1>8 DEF ReplyRejected, ThreadState, Working
  <2>3. cur[h] \in Counted /\ sending[h] \in Counted
    BY <2>1, <2>2 DEF OnePlace, Counted
  <2>4. Counted' = Counted
    BY <1>8, <2>3 DEF ReplyRejected, Counted
  <2>5. size' = size
    BY <1>8 DEF ReplyRejected, counterVars
  <2> QED
    BY <2>4, <2>5 DEF CounterExact
<1> QED
  BY <1>2, <1>3, <1>4, <1>5, <1>6, <1>7, <1>8, StepEffect DEF Effect
=============================================================================
