---------------------------- MODULE ThreadProofs ----------------------------
(***************************************************************************)
(* Handler threads, the guard of _replicated and replicas in construction: *)
(* the effect of a step on them, that the steps which are not about        *)
(* replicas keep the rest of the inductive invariant of AgentMessaging,    *)
(* that the life of a replica keeps it, and so does the whole system.      *)
(***************************************************************************)
EXTENDS MessageProofs

Holding == {"replicating", "adding", "publishing", "disposing"}

Building == {"starting", "entered", "running", "ran", "replying", "replied",
             "leaving", "built"}

AtWork == {"entered", "locking", "running", "ran", "replying", "replied"}

\* The parts of ThreadState.
WorkState == \A h \in Handlers : cur[h] # None <=> Working(h)

SendState ==
  \A h \in Handlers :
    /\ sending[h] # None => pc[h] \in {"starting", "running", "replying"}
    /\ pc[h] = "replying" => sending[h] # None

ReplyState == \A h \in Handlers : pc[h] = "ran" => content[cur[h]].replyTo # None

KindState ==
  \A h \in Handlers :
    HomeAgent[h] \notin LuaAgents => pc[h] \in {"absent", "waiting", "running", "stopped"}

KnownState == \A h \in Handlers : pc[h] # "absent" => Known(HomeAgent[h])

ContentState == \A m \in Msgs : stage[m] = "unused" <=> content[m] = None

LEMMA ThreadParts ==
  ThreadState <=> /\ WorkState /\ SendState /\ ReplyState
                  /\ KindState /\ KnownState /\ ContentState
BY DEF ThreadState, WorkState, SendState, ReplyState, KindState, KnownState, ContentState

\* GuardHeldByBuilder, for one agent.
GuardOf(a) ==
  /\ lock[a] # None => HomeAgent[lock[a]] = a /\ pc[lock[a]] \in Holding
  /\ \A g \in Handlers : HomeAgent[g] = a /\ pc[g] \in Holding => lock[a] = g
  /\ making[a] # None <=> (lock[a] # None /\ pc[lock[a]] \in {"replicating", "adding"})
  /\ making[a] # None =>
       /\ HomeAgent[making[a]] = a
       /\ making[a] \notin replicas[a]
       /\ pc[lock[a]] = "replicating" => pc[making[a]] \in Building
  /\ \A g \in Handlers :
       HomeAgent[g] = a /\ pc[g] = "built" => making[a] = g /\ pc[lock[a]] = "replicating"

LEMMA GuardParts == GuardHeldByBuilder <=> \A a \in Agents : GuardOf(a)
BY DEF GuardHeldByBuilder, GuardOf, Holding, Building, IsReplicaInConstruction

-----------------------------------------------------------------------------
(* What a message says stays as long as the message exists *)

ContentKept == \A m \in Msgs : stage[m] # "unused" => content'[m] = content[m]

LEMMA ContentPreserved ==
  ASSUME TypeOK, OnePlace, ThreadState, [Next]_vars
  PROVE  ContentKept /\ ContentState'
<1> USE DEF TypeOK
<1>0. ContentState
  BY ThreadParts
<1>1. CASE Rest
  BY <1>0, <1>1 DEF Rest, ContentKept, ContentState
<1>2. ASSUME NEW t \in Threads, NEW c \in Contents, BeginSend(t, c)
      PROVE  ContentKept /\ ContentState'
  <2>1. PICK m \in Msgs :
          /\ stage[m] = "unused"
          /\ stage' = [stage EXCEPT ![m] = "sending"]
          /\ content' = [content EXCEPT ![m] = c]
    BY <1>2 DEF BeginSend, Unused
  <2>2. c # None
    BY MessagingAssumption
  <2> QED
    BY <1>0, <2>1, <2>2 DEF ContentKept, ContentState
<1>3. ASSUME NEW t \in Threads, Moves(t)
      PROVE  ContentKept /\ ContentState'
  <2>1. sending[t] \in Msgs /\ stage[sending[t]] = "sending"
    BY <1>3 DEF Moves, Enqueue, Skip, Reject, OnePlace
  <2>2. PICK where \in {"queued", "lost"} : stage' = [stage EXCEPT ![sending[t]] = where]
    BY <1>3 DEF Moves, Enqueue, Skip, Reject, EndSend
  <2>3. content' = content
    BY <1>3 DEF Moves, Enqueue, Skip, Reject, EndSend
  <2> QED
    BY <1>0, <2>1, <2>2, <2>3 DEF ContentKept, ContentState
<1>4. ASSUME NEW h \in Handlers, Take(h)
      PROVE  ContentKept /\ ContentState'
  <2> DEFINE a == HomeAgent[h]
             m == Head(queue[a])
  <2>1. a \in Agents /\ queue[a] \in Seq(Msgs) /\ queue[a] # <<>>
    BY <1>4, MessagingAssumption DEF Take
  <2>2. 1 \in DOMAIN queue[a] /\ m = queue[a][1] /\ m \in Msgs
    BY <2>1
  <2>3. stage[m] = "queued"
    BY <2>1, <2>2 DEF OnePlace
  <2>4. stage' = [stage EXCEPT ![m] = "held"] /\ content' = content
    BY <1>4 DEF Take
  <2> HIDE DEF m
  <2> QED
    BY <1>0, <2>2, <2>3, <2>4 DEF ContentKept, ContentState
<1>5. ASSUME NEW h \in Handlers, Settle(h)
      PROVE  ContentKept /\ ContentState'
  <2>1. cur[h] \in Msgs /\ stage[cur[h]] = "held"
    BY <1>5 DEF Settle, OnePlace
  <2>2. PICK where \in {"done", "lost"} : stage' = [stage EXCEPT ![cur[h]] = where]
    BY <1>5 DEF Settle
  <2> QED
    BY <1>0, <1>5, <2>1, <2>2 DEF Settle, ContentKept, ContentState
<1>6. ASSUME NEW h \in Handlers, NEW r \in Handlers, HandOver(h, r)
      PROVE  ContentKept /\ ContentState'
  BY <1>0, <1>6 DEF HandOver, ContentKept, ContentState
<1>7. ASSUME NEW h \in Handlers, ReplyRejected(h)
      PROVE  ContentKept /\ ContentState'
  <2>1. h \in Threads
    BY DEF Threads
  <2>2. cur[h] # None /\ sending[h] # None
    BY <1>7 DEF ReplyRejected, ThreadState, Working
  <2>3. stage[cur[h]] = "held" /\ stage[sending[h]] = "sending"
    BY <2>1, <2>2 DEF OnePlace
  <2> QED
    BY <1>0, <1>7, <2>3 DEF ReplyRejected, ContentKept, ContentState
<1> QED
  BY <1>1, <1>2, <1>3, <1>4, <1>5, <1>6, <1>7, StepEffect DEF Effect

-----------------------------------------------------------------------------
(* The effect of a step on the threads *)

\* Every handler but h keeps what it has in its hands.
OthersKeepHands(h) ==
  \A g \in Handlers : g # h => cur'[g] = cur[g] /\ sending'[g] = sending[g]

(***************************************************************************)
(* Handler h goes to place p, with what belongs there in its hands; the    *)
(* guard and the replicas stay.                                            *)
(***************************************************************************)
Walk(h, p) ==
  /\ pc' = [pc EXCEPT ![h] = p] /\ UNCHANGED <<lock, making, replicas>>
  /\ pc[h] \notin Holding \cup {"built"}
  /\ p \in Places \ (Holding \cup {"absent"})
  /\ pc[h] = "absent" => h = Primary[HomeAgent[h]]
  /\ IsReplicaInConstruction(h) => p \in Building
  /\ p = "built" => IsReplicaInConstruction(h)
  /\ OthersKeepHands(h)
  /\ cur'[h] # None <=> (p \in AtWork \/ (p = "starting" /\ IsReplicaInConstruction(h)))
  /\ sending'[h] # None => p \in {"starting", "running", "replying"}
  /\ p = "replying" => sending'[h] # None
  /\ p = "ran" => content'[cur'[h]].replyTo # None
  /\ HomeAgent[h] \notin LuaAgents => p \in {"waiting", "running", "stopped"}

\* Nobody goes anywhere; some thread may enter or leave Send.
Stay ==
  /\ UNCHANGED <<pc, cur, lock, making, replicas>>
  /\ \A h \in Handlers :
       sending'[h] = sending[h] \/ pc[h] \in {"starting", "running"}

\* The replica in construction is given up.
GiveUp(r) ==
  /\ DestroyReplica(r)
  /\ IsReplicaInConstruction(r)
  /\ cur'[r] = None /\ sending'[r] = None
  /\ OthersKeepHands(r)

ThreadEffect ==
  \/ Stay
  \/ \E h \in Handlers, p \in Places : Walk(h, p)
  \/ \E h \in Handlers : \/ StartReplica(h) \/ AddHandler(h) \/ GiveUp(h)
                         \/ PublishReplica(h) \/ PublishReplicaFails(h) \/ ReleaseGuard(h)

LEMMA InConstruction ==
  ASSUME TypeOK, GuardHeldByBuilder, NEW h \in Handlers, IsReplicaInConstruction(h)
  PROVE  pc[h] \in Building
<1>1. HomeAgent[h] \in Agents /\ h # None
  BY MessagingAssumption
<1> QED
  BY <1>1, GuardParts DEF IsReplicaInConstruction, GuardOf

\* A replica stays in construction as long as its builder and the guard do.
LEMMA InConstructionKept ==
  ASSUME NEW g, NEW a, a = HomeAgent[g], making'[a] = making[a],
         making[a] = g => lock'[a] = lock[a] /\ pc'[lock[a]] = pc[lock[a]]
  PROVE  IsReplicaInConstruction(g)' <=> IsReplicaInConstruction(g)
BY DEF IsReplicaInConstruction

LEMMA OnlyLuaInConstruction ==
  ASSUME TypeOK, GuardHeldByBuilder, ThreadState,
         NEW h \in Handlers, IsReplicaInConstruction(h)
  PROVE  HomeAgent[h] \in LuaAgents
<1> DEFINE a == HomeAgent[h]
<1>1. a \in Agents /\ making[a] # None /\ pc[lock[a]] = "replicating"
  BY MessagingAssumption DEF IsReplicaInConstruction
<1>2. lock[a] \in Handlers /\ HomeAgent[lock[a]] = a
  BY <1>1, GuardParts DEF GuardOf, TypeOK
<1> QED
  BY <1>1, <1>2 DEF ThreadState

LEMMA EscapeEffect ==
  ASSUME TypeOK, GuardHeldByBuilder, ThreadState, NEW h \in Handlers, Escape(h),
         pc[h] \in {"starting", "entered", "running"}, sending[h] = None
  PROVE  GiveUp(h) \/ Walk(h, "waiting")
<1> USE DEF TypeOK
<1>1. /\ cur' = [cur EXCEPT ![h] = None] /\ UNCHANGED sending
      /\ cur'[h] = None /\ sending'[h] = None
  BY DEF Escape, Lose
<1>2. OthersKeepHands(h)
  BY <1>1 DEF OthersKeepHands
<1>3. CASE IsReplicaInConstruction(h)
  BY <1>1, <1>2, <1>3 DEF Escape, GiveUp
<1>4. CASE ~IsReplicaInConstruction(h)
  <2>1. pc' = [pc EXCEPT ![h] = "waiting"] /\ UNCHANGED <<lock, making, replicas>>
    BY <1>4 DEF Escape, Goto, replicaVars
  <2> QED
    BY <1>1, <1>2, <1>4, <2>1 DEF Walk, Holding, Places, AtWork
<1> QED
  BY <1>3, <1>4

LEMMA MessageWalks ==
  ASSUME TypeOK, GuardHeldByBuilder, ThreadState, NEW h \in Handlers,
         Take(h) \/ CppReturns(h) \/ Decide(h) \/ DeclineReplication(h)
  PROVE  \E p \in Places : Walk(h, p)
<1> USE DEF TypeOK, Walk, OthersKeepHands, Holding, Building, Places, AtWork, replicaVars, Goto,
            IsReplicaInConstruction
<1>1. CASE Take(h)
  <2> DEFINE a == HomeAgent[h]
             p == IF a \in LuaAgents THEN "entered" ELSE "running"
  <2>1. a \in Agents /\ queue[a] \in Seq(Msgs) /\ queue[a] # <<>>
    BY <1>1, MessagingAssumption DEF Take
  <2>2. Head(queue[a]) \in Msgs /\ Head(queue[a]) # None
    BY <2>1, MessagingAssumption
  <2>3. cur'[h] # None /\ \A g \in Handlers : g # h => cur'[g] = cur[g]
    BY <1>1, <2>2 DEF Take
  <2>4. pc' = [pc EXCEPT ![h] = p] /\ UNCHANGED <<lock, making, replicas, sending>> /\ pc[h] = "waiting"
    BY <1>1 DEF Take
  <2>5. sending[h] = None /\ ~IsReplicaInConstruction(h)
    BY <2>4, InConstruction DEF ThreadState
  <2>6. Walk(h, p)
    BY <2>3, <2>4, <2>5
  <2> QED
    BY <2>6
<1>2. CASE CppReturns(h)
  <2>1. /\ cur' = [cur EXCEPT ![h] = None] /\ UNCHANGED <<lock, making, replicas, sending>>
        /\ pc' = [pc EXCEPT ![h] = "waiting"] /\ pc[h] = "running" /\ sending[h] = None
    BY <1>2 DEF CppReturns, CountDown
  <2>2. ~IsReplicaInConstruction(h)
    BY <1>2, OnlyLuaInConstruction DEF CppReturns
  <2>3. Walk(h, "waiting")
    BY <2>1, <2>2
  <2> QED
    BY <2>3
<1>3. CASE Decide(h)
  <2>1. /\ UNCHANGED <<lock, making, replicas, sending, cur>> /\ pc[h] = "entered"
        /\ sending[h] = None /\ cur[h] # None /\ HomeAgent[h] \in LuaAgents
    BY <1>3 DEF Decide, messageVars, ThreadState, Working
  <2>2. PICK p \in {"running", "locking"} :
          pc' = [pc EXCEPT ![h] = p] /\ (p = "locking" => ~IsReplicaInConstruction(h))
    BY <1>3 DEF Decide
  <2>3. Walk(h, p)
    BY <2>1, <2>2
  <2> QED
    BY <2>3
<1>4. CASE DeclineReplication(h)
  <2>1. /\ UNCHANGED <<lock, making, replicas, sending, cur>> /\ pc[h] = "locking"
        /\ sending[h] = None /\ cur[h] # None /\ HomeAgent[h] \in LuaAgents
        /\ pc' = [pc EXCEPT ![h] = "running"]
    BY <1>4 DEF DeclineReplication, messageVars, ThreadState, Working
  <2>2. Walk(h, "running")
    BY <2>1
  <2> QED
    BY <2>2
<1> QED
  BY <1>1, <1>2, <1>3, <1>4

LEMMA ReplyWalks ==
  ASSUME TypeOK, GuardHeldByBuilder, ThreadState, NEW h \in Handlers,
         \/ RunPluginReturns(h) \/ \E c \in Contents : Reply(h, c)
         \/ ReplyToUnknown(h) \/ ReplySent(h) \/ ReplyRejected(h)
         \/ Complete(h) \/ Leave(h)
  PROVE  \E p \in Places : Walk(h, p)
<1> USE DEF TypeOK, Walk, OthersKeepHands, Holding, Building, Places, AtWork, replicaVars, Goto
<1>0. h \in Threads /\ HomeAgent[h] \in Agents
  BY MessagingAssumption DEF Threads
<1>1. CASE RunPluginReturns(h)
  <2> DEFINE p == IF content[cur[h]].replyTo = None THEN "replied" ELSE "ran"
  <2>1. /\ UNCHANGED <<lock, making, replicas, sending, cur, content>> /\ pc[h] = "running"
        /\ sending[h] = None /\ cur[h] # None /\ HomeAgent[h] \in LuaAgents
        /\ pc' = [pc EXCEPT ![h] = p]
    BY <1>1 DEF RunPluginReturns, messageVars, ThreadState, Working
  <2>2. p \in {"replied", "ran"} /\ (p = "ran" => content'[cur'[h]].replyTo # None)
    BY <2>1
  <2> HIDE DEF p
  <2>3. Walk(h, p)
    BY <2>1, <2>2
  <2> QED
    BY <2>2, <2>3
<1>2. ASSUME NEW c \in Contents, Reply(h, c)
      PROVE  \E p \in Places : Walk(h, p)
  <2>1. PICK m \in Msgs : sending' = [sending EXCEPT ![h] = m]
    BY <1>2 DEF Reply, BeginSend, Unused
  <2>2. m # None
    BY MessagingAssumption
  <2>3. sending'[h] # None /\ \A g \in Handlers : g # h => sending'[g] = sending[g]
    BY <1>0, <2>1, <2>2 DEF Threads
  <2>4. /\ UNCHANGED <<lock, making, replicas, cur>> /\ pc[h] = "ran"
        /\ pc' = [pc EXCEPT ![h] = "replying"] /\ cur[h] # None /\ HomeAgent[h] \in LuaAgents
    BY <1>2 DEF Reply, BeginSend, ThreadState, Working
  <2>5. Walk(h, "replying")
    BY <2>3, <2>4
  <2> QED
    BY <2>5
<1>3. CASE ReplyToUnknown(h) \/ Complete(h)
  <2>1. /\ cur' = [cur EXCEPT ![h] = None] /\ UNCHANGED <<lock, making, replicas, sending>>
        /\ pc' = [pc EXCEPT ![h] = "leaving"] /\ pc[h] \in {"ran", "replied"}
        /\ sending[h] = None /\ HomeAgent[h] \in LuaAgents
    BY <1>3 DEF ReplyToUnknown, Complete, Lose, CountDown, ThreadState
  <2>2. Walk(h, "leaving")
    BY <2>1
  <2> QED
    BY <2>2
<1>4. CASE ReplySent(h)
  <2>1. sending' = [sending EXCEPT ![h] = None]
    BY <1>4 DEF ReplySent, Enqueue, Skip, EndSend
  <2>2. sending'[h] = None /\ \A g \in Handlers : g # h => sending'[g] = sending[g]
    BY <1>0, <2>1 DEF Threads
  <2>3. /\ UNCHANGED <<lock, making, replicas, cur>> /\ pc[h] = "replying"
        /\ pc' = [pc EXCEPT ![h] = "replied"] /\ cur[h] # None /\ HomeAgent[h] \in LuaAgents
    BY <1>4 DEF ReplySent, Enqueue, Skip, EndSend, ThreadState, Working
  <2>4. Walk(h, "replied")
    BY <2>2, <2>3
  <2> QED
    BY <2>4
<1>5. CASE ReplyRejected(h)
  <2>1. sending' = [sending EXCEPT ![h] = None] /\ cur' = [cur EXCEPT ![h] = None]
    BY <1>5 DEF ReplyRejected
  <2>2. /\ sending'[h] = None /\ cur'[h] = None
        /\ \A g \in Handlers : g # h => cur'[g] = cur[g] /\ sending'[g] = sending[g]
    BY <1>0, <2>1 DEF Threads
  <2>3. /\ UNCHANGED <<lock, making, replicas>> /\ pc[h] = "replying"
        /\ pc' = [pc EXCEPT ![h] = "leaving"] /\ HomeAgent[h] \in LuaAgents
    BY <1>5 DEF ReplyRejected, ThreadState
  <2>4. Walk(h, "leaving")
    BY <2>2, <2>3
  <2> QED
    BY <2>4
<1>6. CASE Leave(h)
  <2> DEFINE p == IF IsReplicaInConstruction(h) THEN "built" ELSE "waiting"
  <2>1. /\ UNCHANGED <<lock, making, replicas, sending, cur>> /\ pc[h] = "leaving"
        /\ pc' = [pc EXCEPT ![h] = p] /\ HomeAgent[h] \in LuaAgents
        /\ sending[h] = None /\ cur[h] = None
    BY <1>6 DEF Leave, messageVars, ThreadState, Working
  <2>2. p \in {"built", "waiting"} /\ (p = "built" <=> IsReplicaInConstruction(h))
    OBVIOUS
  <2> HIDE DEF p
  <2>3. Walk(h, p)
    BY <2>1, <2>2
  <2> QED
    BY <2>2, <2>3
<1> QED
  BY <1>1, <1>2, <1>3, <1>4, <1>5, <1>6

LEMMA HandlerThreadEffect ==
  ASSUME TypeOK, GuardHeldByBuilder, ThreadState, NEW h \in Handlers, HandlerStep(h)
  PROVE  ThreadEffect
<1> USE DEF TypeOK
<1>1. CASE Take(h) \/ CppReturns(h) \/ Decide(h) \/ DeclineReplication(h)
  BY <1>1, MessageWalks DEF ThreadEffect
<1>2. CASE \/ RunPluginReturns(h) \/ \E c \in Contents : Reply(h, c)
           \/ ReplyToUnknown(h) \/ ReplySent(h) \/ ReplyRejected(h)
           \/ Complete(h) \/ Leave(h)
  BY <1>2, ReplyWalks DEF ThreadEffect
<1>3. CASE \/ StartReplica(h) \/ AddHandler(h) \/ PublishReplica(h)
           \/ PublishReplicaFails(h) \/ ReleaseGuard(h)
  BY <1>3 DEF ThreadEffect
<1>4. CASE CppThrows(h) \/ ReadConfigurationFails(h)
  <2>1. Escape(h) /\ pc[h] \in {"entered", "running"} /\ sending[h] = None
    BY <1>4 DEF CppThrows, ReadConfigurationFails, ThreadState
  <2> QED
    BY <2>1, EscapeEffect DEF ThreadEffect, Places
<1>5. CASE ReplicaScriptEnds(h)
  <2>1. CASE Escape(h)
    <3>1. pc[h] = "starting" /\ sending[h] = None
      BY <1>5 DEF ReplicaScriptEnds
    <3> QED
      BY <2>1, <3>1, EscapeEffect DEF ThreadEffect, Places
  <2>2. CASE Goto(h, "entered") /\ UNCHANGED <<counterVars, messageVars, cur, replicaVars>>
    <3>1. /\ UNCHANGED <<lock, making, replicas, sending, cur>> /\ pc[h] = "starting"
          /\ pc' = [pc EXCEPT ![h] = "entered"] /\ HomeAgent[h] \in LuaAgents
          /\ sending[h] = None /\ cur[h] # None
      BY <1>5, <2>2 DEF ReplicaScriptEnds, Goto, messageVars, replicaVars, ThreadState, Working
    <3>2. Walk(h, "entered")
      BY <3>1 DEF Walk, OthersKeepHands, Holding, Building, Places, AtWork
    <3> QED
      BY <3>2 DEF ThreadEffect, Places
  <2> QED
    BY <1>5, <2>1, <2>2 DEF ReplicaScriptEnds
<1> QED
  BY <1>1, <1>2, <1>3, <1>4, <1>5 DEF HandlerStep

LEMMA ThreadStepEffect ==
  ASSUME TypeOK, GuardHeldByBuilder, ThreadState, ConstructionState, [Next]_vars
  PROVE  ThreadEffect
<1> USE DEF TypeOK
<1>1. ASSUME NEW h \in Handlers, HandlerStep(h)
      PROVE  ThreadEffect
  BY <1>1, HandlerThreadEffect
<1>2. ASSUME NEW a \in Agents, AddAgent(a) \/ ScriptEnds(a)
      PROVE  ThreadEffect
  <2> DEFINE h == Primary[a]
  <2>1. h \in Handlers /\ HomeAgent[h] = a /\ h # None
    BY MessagingAssumption
  <2>2. ~IsReplicaInConstruction(h)
    BY <2>1 DEF IsReplicaInConstruction, ConstructionState
  <2>3. sending[h] = None /\ cur[h] = None
    BY <1>2, <2>1, <2>2 DEF AddAgent, ScriptEnds, ThreadState, Working
  <2>4. PICK p \in {"starting", "waiting", "dead"} :
          pc' = [pc EXCEPT ![h] = p] /\ (a \notin LuaAgents => p = "waiting")
    BY <1>2, <2>1 DEF AddAgent, ScriptEnds, Goto, ThreadState
  <2>5. UNCHANGED <<lock, making, replicas, sending, cur>> /\ pc[h] \in {"absent", "starting"}
    BY <1>2 DEF AddAgent, ScriptEnds, messageVars, replicaVars
  <2> HIDE DEF h
  <2>6. Walk(h, p)
    BY <2>1, <2>2, <2>3, <2>4, <2>5 DEF Walk, OthersKeepHands, Holding, Building, Places, AtWork, h
  <2> QED
    BY <2>1, <2>6 DEF ThreadEffect, Places
<1>3. ASSUME NEW h \in Handlers, StopHandler(h)
      PROVE  ThreadEffect
  <2>1. /\ UNCHANGED <<lock, making, replicas, sending, cur>> /\ pc[h] = "waiting"
        /\ pc' = [pc EXCEPT ![h] = "stopped"] /\ sending[h] = None /\ cur[h] = None
    BY <1>3, InConstruction DEF StopHandler, Goto, messageVars, replicaVars, ThreadState, Working
  <2>2. ~IsReplicaInConstruction(h)
    BY <2>1, InConstruction DEF Building
  <2>3. Walk(h, "stopped")
    BY <2>1, <2>2 DEF Walk, OthersKeepHands, Holding, Building, Places, AtWork
  <2> QED
    BY <2>3 DEF ThreadEffect, Places
<1>4. ASSUME NEW t \in Threads, NEW c \in Contents, SendMessage(t, c)
      PROVE  ThreadEffect
  <2>1. PICK m \in Msgs : sending' = [sending EXCEPT ![t] = m]
    BY <1>4 DEF SendMessage, BeginSend, Unused
  <2>2. UNCHANGED <<pc, cur, lock, making, replicas>>
    BY <1>4 DEF SendMessage, BeginSend, handlerVars, replicaVars
  <2>3. t \in Handlers => pc[t] \in {"starting", "running"}
    BY <1>4, MessagingAssumption DEF SendMessage, MaySend
  <2> QED
    BY <2>1, <2>2, <2>3 DEF Stay, ThreadEffect, Threads
<1>5. ASSUME NEW t \in Threads, FinishSend(t)
      PROVE  ThreadEffect
  <2>1. sending' = [sending EXCEPT ![t] = None] /\ sending[t] # None
    BY <1>5, MessagingAssumption DEF FinishSend, Enqueue, Skip, Reject, EndSend
  <2>2. UNCHANGED <<pc, cur, lock, making, replicas>>
    BY <1>5 DEF FinishSend, Enqueue, Skip, Reject, EndSend, handlerVars, replicaVars
  <2>3. t \in Handlers => pc[t] \in {"starting", "running"}
    BY <1>5, <2>1 DEF FinishSend, ThreadState
  <2> QED
    BY <2>1, <2>2, <2>3 DEF Stay, ThreadEffect, Threads
<1>6. CASE UNCHANGED <<pc, cur, sending, lock, making, replicas>>
  BY <1>6 DEF Stay, ThreadEffect
<1>7. CASE \/ UNCHANGED vars \/ ReleasePool
           \/ \E h \in Handlers : SetConfig(h)
           \/ \E c \in Clients : ClientWait(c) \/ ClientRecheck(c)
  BY <1>6, <1>7 DEF vars, ReleasePool, SetConfig, ClientWait, ClientRecheck,
                    messageVars, handlerVars, replicaVars
<1> QED
  BY <1>1, <1>2, <1>3, <1>4, <1>5, <1>7 DEF Next, Environment

-----------------------------------------------------------------------------
(* A step that is not about a replica keeps the invariant *)

\* Some message to agent a asks for k threads.
Asked(a, k) ==
  \E m \in Msgs : content[m] # None /\ content[m].to = a /\ k <= content[m].threads

LEMMA AskedStays ==
  ASSUME ContentState, ContentKept, NEW a, NEW k, Asked(a, k)
  PROVE  \E m \in Msgs : content'[m] # None /\ content'[m].to = a /\ k <= content'[m].threads
BY DEF ContentState, ContentKept, Asked

LEMMA RequestsStay ==
  ASSUME TypeOK, ContentState, ContentKept, ConstructionState, ThreadsRequested,
         UNCHANGED <<making, replicas>>,
         \A g \in Handlers : pc[g] # "absent" => pc'[g] # "absent"
  PROVE  ConstructionState' /\ ThreadsRequested'
<1>1. ASSUME NEW a \in Agents
      PROVE  /\ \A r \in replicas[a] : pc'[r] # "absent"
             /\ making[a] # None => making[a] # Primary[a] /\ pc'[making[a]] # "absent"
  BY <1>1 DEF ConstructionState, TypeOK
<1>2. ASSUME NEW a \in Agents, making[a] # None
      PROVE  \E m \in Msgs : /\ content'[m] # None /\ content'[m].to = a
                             /\ Cardinality(replicas[a]) + 2 <= content'[m].threads
  <2>1. Asked(a, Cardinality(replicas[a]) + 2)
    BY <1>2 DEF ConstructionState, Asked
  <2> HIDE DEF Asked
  <2> QED
    BY <2>1, AskedStays
<1>3. ASSUME NEW a \in Agents, replicas[a] # {}
      PROVE  \E m \in Msgs : /\ content'[m] # None /\ content'[m].to = a
                             /\ Cardinality(replicas[a]) + 1 <= content'[m].threads
  <2>1. Asked(a, Cardinality(replicas[a]) + 1)
    BY <1>3 DEF ThreadsRequested, Asked
  <2> HIDE DEF Asked
  <2> QED
    BY <2>1, AskedStays
<1>4. ConstructionState'
  BY <1>1, <1>2 DEF ConstructionState
<1>5. ThreadsRequested'
  BY <1>3 DEF ThreadsRequested
<1> QED
  BY <1>4, <1>5

LEMMA HandsKnown ==
  ASSUME TypeOK, OnePlace, ContentKept, NEW h \in Handlers, cur[h] # None
  PROVE  content'[cur[h]] = content[cur[h]]
BY DEF TypeOK, OnePlace, ContentKept

ThreadInv == GuardHeldByBuilder /\ ThreadState /\ ConstructionState /\ ThreadsRequested

LEMMA StayPreserves ==
  ASSUME TypeOK, OnePlace, ThreadInv, ContentState', ContentKept, Stay
  PROVE  ThreadInv'
<1> USE DEF TypeOK
<1>0. /\ UNCHANGED <<pc, cur, lock, making, replicas>>
      /\ GuardHeldByBuilder /\ ThreadState /\ ConstructionState /\ ThreadsRequested
  BY DEF Stay, ThreadInv
<1>1. GuardHeldByBuilder'
  BY <1>0 DEF GuardHeldByBuilder, IsReplicaInConstruction
<1>2. WorkState' /\ KindState' /\ KnownState'
  BY <1>0, ThreadParts
     DEF WorkState, Working, IsReplicaInConstruction, KindState, KnownState, Known
<1>3. SendState'
  BY <1>0, ThreadParts DEF SendState, Stay
<1>4. ReplyState'
  BY <1>0, HandsKnown, ThreadParts DEF ReplyState, WorkState, Working
<1>5. ContentState
  BY <1>0, ThreadParts
<1>6. ConstructionState' /\ ThreadsRequested'
  BY <1>0, <1>5, RequestsStay
<1>7. ThreadState'
  BY <1>2, <1>3, <1>4 DEF ThreadState, WorkState, SendState, ReplyState, KindState, KnownState,
                         ContentState
<1> QED
  BY <1>1, <1>6, <1>7 DEF ThreadInv

LEMMA WalkPreserves ==
  ASSUME TypeOK, OnePlace, ThreadInv, ContentState', ContentKept,
         NEW h \in Handlers, NEW p \in Places, Walk(h, p)
  PROVE  ThreadInv'
<1> USE DEF TypeOK
<1>0. GuardHeldByBuilder /\ ThreadState /\ ConstructionState /\ ThreadsRequested
  BY DEF ThreadInv
<1>1. /\ WorkState /\ SendState /\ ReplyState /\ KindState /\ KnownState /\ ContentState
  BY <1>0, ThreadParts
<1>2. /\ UNCHANGED <<lock, making, replicas>>
      /\ pc'[h] = p /\ \A g \in Handlers : g # h => pc'[g] = pc[g]
      /\ \A g \in Handlers : g # h => cur'[g] = cur[g] /\ sending'[g] = sending[g]
      /\ pc[h] \notin Holding \cup {"built"} /\ p \notin Holding /\ p # "absent"
  BY DEF Walk, OthersKeepHands
<1>3. GuardHeldByBuilder'
  <2> SUFFICES ASSUME NEW a \in Agents
               PROVE  GuardOf(a)'
    BY DEF GuardHeldByBuilder, GuardOf, Holding, Building, IsReplicaInConstruction
  <2>1. GuardOf(a)
    BY <1>0, GuardParts
  <2> USE DEF GuardOf
  <2>2. lock[a] # None => lock[a] \in Handlers /\ lock[a] # h /\ pc'[lock[a]] = pc[lock[a]]
    BY <1>2, <2>1
  <2>3. making[a] = h /\ making[a] # None /\ pc[lock[a]] = "replicating" => p \in Building
    BY <2>1 DEF Walk, IsReplicaInConstruction
  <2>4. making[a] # None /\ pc'[lock[a]] = "replicating" => pc'[making[a]] \in Building
    BY <1>2, <2>1, <2>2, <2>3
  <2>5. \A g \in Handlers :
          HomeAgent[g] = a /\ pc'[g] = "built" => making[a] = g /\ pc'[lock[a]] = "replicating"
    <3> SUFFICES ASSUME NEW g \in Handlers, HomeAgent[g] = a, pc'[g] = "built"
                 PROVE  making[a] = g /\ pc'[lock[a]] = "replicating"
      OBVIOUS
    <3>1. making[a] = g /\ pc[lock[a]] = "replicating"
      BY <1>2, <2>1 DEF Walk, IsReplicaInConstruction
    <3>2. lock[a] # None
      BY <2>1, <3>1, MessagingAssumption
    <3> QED
      BY <2>2, <3>1, <3>2
  <2>6. \A g \in Handlers : HomeAgent[g] = a /\ pc'[g] \in Holding => lock[a] = g
    BY <1>2, <2>1
  <2> QED
    BY <1>2, <2>1, <2>2, <2>4, <2>5, <2>6
<1>4. WorkState'
  <2>1. ASSUME NEW g \in Handlers
        PROVE  IsReplicaInConstruction(g)' <=> IsReplicaInConstruction(g)
    <3> DEFINE a == HomeAgent[g]
    <3>1. a \in Agents /\ g # None
      BY MessagingAssumption
    <3>2. making[a] = g => lock[a] \in Handlers /\ pc[lock[a]] \in Holding
      BY <1>0, <3>1, GuardParts DEF GuardOf
    <3>3. making[a] = g => pc'[lock[a]] = pc[lock[a]]
      BY <1>2, <3>2
    <3> QED
      BY <1>2, <3>3, InConstructionKept
  <2> HIDE DEF IsReplicaInConstruction
  <2>2. (cur'[h] # None) <=> Working(h)'
    BY <1>2, <2>1 DEF Walk, Working, AtWork
  <2>3. ASSUME NEW g \in Handlers, g # h
        PROVE  (cur'[g] # None) <=> Working(g)'
    BY <1>1, <1>2, <2>1, <2>3 DEF WorkState, Working
  <2> QED
    BY <2>2, <2>3 DEF WorkState
<1>5. SendState'
  BY ZenonT(30), <1>1, <1>2 DEF SendState, Walk
<1>6. ReplyState'
  <2> SUFFICES ASSUME NEW g \in Handlers, pc'[g] = "ran"
               PROVE  content'[cur'[g]].replyTo # None
    BY DEF ReplyState
  <2>1. CASE g = h
    BY <1>2, <2>1 DEF Walk
  <2>2. CASE g # h
    <3>1. pc[g] = "ran" /\ cur'[g] = cur[g]
      BY <1>2, <2>2
    <3>2. cur[g] # None
      BY <1>1, <3>1 DEF WorkState, Working
    <3> QED
      BY <1>1, <3>1, <3>2, HandsKnown DEF ReplyState
  <2> QED
    BY <2>1, <2>2
<1>7. KindState'
  BY <1>1, <1>2 DEF KindState, Walk
<1>8. KnownState'
  <2>1. \A a \in Agents : Known(a) => Known(a)'
    BY <1>2, MessagingAssumption DEF Known
  <2>2. pc[h] = "absent" => Known(HomeAgent[h])'
    BY <1>2 DEF Known, Walk
  <2> QED
    BY <1>1, <1>2, <2>1, <2>2, MessagingAssumption DEF KnownState
<1>9. ConstructionState' /\ ThreadsRequested'
  BY <1>0, <1>1, <1>2, RequestsStay
<1>10. ThreadState'
  BY <1>4, <1>5, <1>6, <1>7, <1>8 DEF ThreadState, WorkState, SendState, ReplyState, KindState,
                                  KnownState, ContentState
<1> QED
  BY <1>3, <1>9, <1>10 DEF ThreadInv

-----------------------------------------------------------------------------
(* The builder gives up the guard *)

LEMMA GuardOfOthers ==
  ASSUME TypeOK, NEW b \in Agents, GuardOf(b),
         lock'[b] = lock[b], making'[b] = making[b], replicas'[b] = replicas[b],
         \A g \in Handlers : HomeAgent[g] = b => pc'[g] = pc[g]
  PROVE  GuardOf(b)'
<1> USE DEF GuardOf, TypeOK, Holding, Building
<1>1. lock[b] # None => lock[b] \in Handlers /\ pc'[lock[b]] = pc[lock[b]]
  OBVIOUS
<1>2. making[b] # None => making[b] \in Handlers /\ pc'[making[b]] = pc[making[b]]
  OBVIOUS
<1> QED
  BY <1>1, <1>2

(***************************************************************************)
(* A construction is over: the builder h goes to place p, and keeps the    *)
(* guard in some of them.                                                  *)
(***************************************************************************)
Concluded(h, p) ==
  LET a == HomeAgent[h] IN
  /\ pc[h] \in {"adding", "publishing"}
  /\ p \in {"publishing", "disposing", "leaving", "waiting"}
  /\ pc' = [pc EXCEPT ![h] = p]
  /\ lock' = IF p \in Holding THEN lock ELSE [lock EXCEPT ![a] = None]
  /\ making' = [making EXCEPT ![a] = None]
  /\ UNCHANGED <<cur, sending, content>>

LEMMA ConcludedPreserves ==
  ASSUME TypeOK, OnePlace, ThreadInv, ContentState', ContentKept,
         NEW h \in Handlers, NEW p, Concluded(h, p),
         \A b \in Agents : b # HomeAgent[h] => replicas'[b] = replicas[b]
  PROVE  /\ GuardHeldByBuilder' /\ ThreadState'
         /\ lock[HomeAgent[h]] = h
         /\ \A g \in Handlers : pc[g] # "absent" => pc'[g] # "absent"
<1> USE DEF TypeOK
<1> DEFINE a == HomeAgent[h]
<1>0. GuardHeldByBuilder /\ ThreadState
  BY DEF ThreadInv
<1>1. /\ WorkState /\ SendState /\ ReplyState /\ KindState /\ KnownState /\ ContentState
  BY <1>0, ThreadParts
<1>2. /\ a \in Agents /\ h # None /\ HomeAgent[h] = a
      /\ pc[h] \in {"adding", "publishing"}
      /\ p \in {"publishing", "disposing", "leaving", "waiting"}
      /\ pc'[h] = p /\ \A g \in Handlers : g # h => pc'[g] = pc[g]
      /\ making'[a] = None /\ \A b \in Agents : b # a => making'[b] = making[b]
      /\ \A b \in Agents : b # a => lock'[b] = lock[b] /\ replicas'[b] = replicas[b]
      /\ UNCHANGED <<cur, sending, content>>
  BY MessagingAssumption DEF Concluded
<1>3. lock[a] = h
  BY <1>0, <1>2, GuardParts DEF GuardOf, Holding
<1>4. lock'[a] = IF p \in Holding THEN h ELSE None
  BY <1>2, <1>3 DEF Concluded
<1>5. \A g \in Handlers : HomeAgent[g] = a /\ g # h => pc[g] \notin Holding /\ pc[g] # "built"
  BY <1>0, <1>2, <1>3, GuardParts DEF GuardOf
<1> HIDE DEF a
<1>6. GuardHeldByBuilder'
  <2> SUFFICES ASSUME NEW b \in Agents
               PROVE  GuardOf(b)'
    BY DEF GuardHeldByBuilder, GuardOf, Holding, Building, IsReplicaInConstruction
  <2>1. CASE b = a
    <3>1. \A g \in Handlers : HomeAgent[g] = a => pc'[g] # "built"
      BY <1>2, <1>5
    <3>2. \A g \in Handlers : HomeAgent[g] = a /\ pc'[g] \in Holding => g = h /\ p \in Holding
      BY <1>2, <1>5
    <3>3. lock'[a] # None => lock'[a] = h /\ p \in Holding /\ p \notin {"replicating", "adding"}
      BY <1>2, <1>4
    <3> QED
      BY <1>2, <1>4, <2>1, <3>1, <3>2, <3>3 DEF GuardOf
  <2>2. CASE b # a
    <3>1. \A g \in Handlers : HomeAgent[g] = b => pc'[g] = pc[g]
      BY <1>2, <2>2
    <3>2. GuardOf(b)
      BY <1>0, GuardParts
    <3> QED
      BY <1>2, <2>2, <3>1, <3>2, GuardOfOthers
  <2> QED
    BY <2>1, <2>2
<1>7. ASSUME NEW g \in Handlers
      PROVE  IsReplicaInConstruction(g)' <=> IsReplicaInConstruction(g)
  <2>1. HomeAgent[g] \in Agents /\ g # None
    BY MessagingAssumption
  <2>2. CASE HomeAgent[g] = a
    BY <1>2, <1>3, <2>1, <2>2 DEF IsReplicaInConstruction
  <2>3. CASE HomeAgent[g] # a
    <3> DEFINE b == HomeAgent[g]
    <3>1. making[b] = g => lock[b] \in Handlers /\ HomeAgent[lock[b]] = b
      BY <1>0, <2>1, GuardParts DEF GuardOf
    <3>2. making[b] = g => pc'[lock[b]] = pc[lock[b]]
      BY <1>2, <2>3, <3>1
    <3>3. lock'[b] = lock[b] /\ making'[b] = making[b]
      BY <1>2, <2>1, <2>3
    <3> QED
      BY <3>2, <3>3, InConstructionKept
  <2> QED
    BY <2>2, <2>3
<1>8. WorkState'
  <2>1. (cur'[h] # None) <=> Working(h)'
    BY <1>1, <1>2 DEF WorkState, Working
  <2>2. ASSUME NEW g \in Handlers, g # h
        PROVE  (cur'[g] # None) <=> Working(g)'
    BY <1>1, <1>2, <1>7, <2>2 DEF WorkState, Working
  <2> QED
    BY <2>1, <2>2 DEF WorkState
<1>9. SendState' /\ ReplyState'
  BY <1>1, <1>2 DEF SendState, ReplyState
<1>10. KindState'
  BY <1>1, <1>2 DEF KindState
<1>11. \A g \in Handlers : pc[g] # "absent" => pc'[g] # "absent"
  BY <1>2
<1>12. KnownState'
  <2>1. \A b \in Agents : Known(b) => Known(b)'
    BY <1>11, MessagingAssumption DEF Known
  <2>2. \A g \in Handlers : pc'[g] # "absent" => pc[g] # "absent"
    BY <1>2
  <2> QED
    BY <1>1, <2>1, <2>2, MessagingAssumption DEF KnownState
<1> QED
  BY <1>3, <1>6, <1>8, <1>9, <1>10, <1>11, <1>12
     DEF ThreadState, WorkState, SendState, ReplyState, KindState, KnownState, ContentState, a

LEMMA ReleasePreserves ==
  ASSUME TypeOK, OnePlace, ThreadInv, ContentState', ContentKept,
         NEW h \in Handlers, ReleaseGuard(h)
  PROVE  ThreadInv'
<1> USE DEF TypeOK
<1> DEFINE a == HomeAgent[h]
<1>0. /\ GuardHeldByBuilder /\ ThreadState /\ ConstructionState /\ ThreadsRequested
      /\ ContentState
  BY ThreadParts DEF ThreadInv
<1>1. PICK p \in {"leaving", "waiting"} : pc' = [pc EXCEPT ![h] = p]
  BY DEF ReleaseGuard, Goto
<1>2. /\ pc[h] = "publishing" /\ a \in Agents /\ h # None
      /\ lock' = [lock EXCEPT ![a] = None]
      /\ UNCHANGED <<cur, sending, making, replicas, content>>
  BY MessagingAssumption DEF ReleaseGuard, messageVars
<1>3. making[a] = None
  BY <1>0, <1>2, GuardParts DEF GuardOf, Holding
<1>4. making' = [making EXCEPT ![a] = None]
  BY <1>2, <1>3
<1>5. Concluded(h, p)
  BY <1>1, <1>2, <1>4 DEF Concluded, Holding
<1>6. /\ GuardHeldByBuilder' /\ ThreadState'
      /\ \A g \in Handlers : pc[g] # "absent" => pc'[g] # "absent"
  BY <1>2, <1>5, ConcludedPreserves
<1>7. ConstructionState' /\ ThreadsRequested'
  BY <1>0, <1>2, <1>6, RequestsStay
<1> QED
  BY <1>6, <1>7 DEF ThreadInv

-----------------------------------------------------------------------------
(* The replica is built, published, or given up *)

LEMMA StartPreserves ==
  ASSUME TypeOK, OnePlace, ThreadInv, ContentState', ContentKept,
         NEW h \in Handlers, StartReplica(h)
  PROVE  ThreadInv'
<1> USE DEF TypeOK
<1> DEFINE a == HomeAgent[h]
<1>0. GuardHeldByBuilder /\ ThreadState /\ ConstructionState /\ ThreadsRequested
  BY DEF ThreadInv
<1>1. /\ WorkState /\ SendState /\ ReplyState /\ KindState /\ KnownState /\ ContentState
  BY <1>0, ThreadParts
<1>2. PICK r \in Handlers :
        /\ HomeAgent[r] = a /\ pc[r] = "absent"
        /\ pc' = [pc EXCEPT ![h] = "replicating", ![r] = "starting"]
        /\ cur' = [cur EXCEPT ![h] = None, ![r] = cur[h]]
        /\ making' = [making EXCEPT ![a] = r]
  BY DEF StartReplica
<1>3. /\ pc[h] = "locking" /\ lock[a] = None /\ a \in Agents
      /\ lock' = [lock EXCEPT ![a] = h]
      /\ UNCHANGED <<sending, replicas, content>>
      /\ MoreThreadsRequested(h)
  BY ZenonT(30), MessagingAssumption DEF StartReplica, messageVars
<1>4. /\ h # r /\ h # None /\ r # None
      /\ pc'[h] = "replicating" /\ pc'[r] = "starting"
      /\ \A g \in Handlers : g # h /\ g # r => pc'[g] = pc[g]
      /\ cur'[h] = None /\ cur'[r] = cur[h]
      /\ \A g \in Handlers : g # h /\ g # r => cur'[g] = cur[g]
      /\ lock'[a] = h /\ making'[a] = r
      /\ \A b \in Agents : b # a => lock'[b] = lock[b] /\ making'[b] = making[b]
  BY <1>2, <1>3, MessagingAssumption
<1>5. r \notin replicas[a] /\ making[a] = None
  BY <1>0, <1>2, <1>3 DEF ConstructionState, GuardHeldByBuilder
<1>6. cur[h] # None /\ cur[r] = None /\ sending[h] = None /\ sending[r] = None
  BY <1>1, <1>2, <1>3 DEF WorkState, SendState, Working
<1>7. r # Primary[a]
  BY <1>1, <1>2, <1>3 DEF KnownState, Known
<1>8. HomeAgent[h] = a /\ HomeAgent[r] = a
  BY <1>2
<1> HIDE DEF a
<1>9. GuardHeldByBuilder'
  <2> SUFFICES ASSUME NEW b \in Agents
               PROVE  GuardOf(b)'
    BY DEF GuardHeldByBuilder, GuardOf, Holding, Building, IsReplicaInConstruction
  <2>1. GuardOf(b)
    BY <1>0, GuardParts
  <2>2. CASE b = a
    <3>1. /\ HomeAgent[lock'[a]] = a /\ pc'[lock'[a]] = "replicating"
          /\ HomeAgent[making'[a]] = a /\ pc'[making'[a]] = "starting"
          /\ making'[a] \notin replicas'[a]
      BY <1>3, <1>4, <1>5, <1>8
    <3>2. ASSUME NEW g \in Handlers, HomeAgent[g] = a, g # h
          PROVE  pc'[g] \notin Holding /\ pc'[g] # "built"
      <4>1. g # None
        BY MessagingAssumption
      <4>2. pc[g] \notin Holding /\ pc[g] # "built"
        BY <1>3, <1>5, <2>1, <2>2, <3>2, <4>1 DEF GuardOf
      <4> QED
        BY <1>4, <3>2, <4>2 DEF Holding
    <3>3. pc'[h] # "built"
      BY <1>4
    <3> QED
      BY <1>4, <2>2, <3>1, <3>2, <3>3 DEF GuardOf, Holding, Building
  <2>3. CASE b # a
    BY ZenonT(30), <1>3, <1>4, <1>8, <2>1, <2>3, GuardOfOthers
  <2> QED
    BY <2>2, <2>3
<1>10. WorkState'
  <2> SUFFICES ASSUME NEW g \in Handlers
               PROVE  cur'[g] # None <=> Working(g)'
    BY DEF WorkState
  <2>1. CASE g = h
    BY <1>4, <2>1 DEF Working
  <2>2. CASE g = r
    BY <1>4, <1>6, <1>8, <2>2 DEF Working, IsReplicaInConstruction
  <2>3. CASE g # h /\ g # r
    <3>1. cur'[g] = cur[g] /\ pc'[g] = pc[g] /\ HomeAgent[g] \in Agents /\ g # None
      BY <1>4, <2>3, MessagingAssumption
    <3>2. CASE HomeAgent[g] = a
      BY <1>1, <1>4, <1>5, <2>3, <3>1, <3>2 DEF WorkState, Working, IsReplicaInConstruction
    <3>3. CASE HomeAgent[g] # a
      <4> DEFINE b == HomeAgent[g]
      <4>1. making[b] = g => lock[b] \in Handlers /\ HomeAgent[lock[b]] = b
        BY <1>0, <3>1, GuardParts DEF GuardOf
      <4>2. making[b] = g => pc'[lock[b]] = pc[lock[b]]
        BY <1>4, <1>8, <3>3, <4>1
      <4>3. lock'[b] = lock[b] /\ making'[b] = making[b]
        BY <1>4, <3>1, <3>3
      <4>4. IsReplicaInConstruction(g)' <=> IsReplicaInConstruction(g)
        BY <4>2, <4>3, InConstructionKept
      <4> QED
        BY <1>1, <3>1, <4>4 DEF WorkState, Working
    <3> QED
      BY <3>2, <3>3
  <2> QED
    BY <2>1, <2>2, <2>3
<1>11. SendState'
  BY <1>1, <1>3, <1>4, <1>6 DEF SendState
<1>12. ReplyState'
  BY <1>1, <1>3, <1>4 DEF ReplyState
<1>13. KindState'
  BY <1>1, <1>3, <1>4, <1>8 DEF KindState
<1>14. KnownState'
  <2>1. \A b \in Agents : Known(b) => Known(b)'
    BY <1>4, MessagingAssumption DEF Known
  <2>2. Known(a)
    BY <1>1, <1>3, <1>8 DEF KnownState
  <2>3. ASSUME NEW g \in Handlers, pc'[g] # "absent"
        PROVE  Known(HomeAgent[g])
    BY <1>1, <1>4, <1>8, <2>2, <2>3 DEF KnownState
  <2> HIDE DEF Known
  <2> QED
    BY <2>1, <2>3, MessagingAssumption DEF KnownState
<1>15. ThreadState'
  BY <1>10, <1>11, <1>12, <1>13, <1>14
     DEF ThreadState, WorkState, SendState, ReplyState, KindState, KnownState, ContentState
<1>16. \E m \in Msgs : /\ content[m] # None /\ content[m].to = a
                       /\ Cardinality(replicas[a]) + 2 <= content[m].threads
  <2>1. cur[h] \in Msgs /\ content[cur[h]].to = a
    BY <1>6, <1>8 DEF OnePlace
  <2>2. stage[cur[h]] = "held"
    BY <1>6 DEF OnePlace
  <2>3. content[cur[h]] # None
    BY <1>1, <2>1, <2>2 DEF ContentState
  <2>4. content[cur[h]].threads \in Int
    BY <2>1, <2>3, MessagingAssumption DEF MessageContent
  <2>5. Cardinality(replicas[a]) \in Int
    BY <1>3, MessagingAssumption, FS_Subset, FS_CardinalityType
  <2> QED
    BY <1>3, <1>8, <2>1, <2>3, <2>4, <2>5 DEF MoreThreadsRequested
<1>17. ConstructionState'
  <2> SUFFICES ASSUME NEW b \in Agents
               PROVE  /\ \A q \in replicas[b] : pc'[q] # "absent"
                      /\ making'[b] # None =>
                           /\ making'[b] # Primary[b] /\ pc'[making'[b]] # "absent"
                           /\ \E m \in Msgs :
                                /\ content[m] # None /\ content[m].to = b
                                /\ Cardinality(replicas[b]) + 2 <= content[m].threads
    BY <1>3 DEF ConstructionState
  <2>1. ASSUME NEW q \in replicas[b]
        PROVE  pc'[q] # "absent"
    <3>1. q \in Handlers /\ pc[q] # "absent"
      BY <1>0 DEF ConstructionState
    <3> QED
      BY <1>4, <3>1
  <2>2. CASE b = a
    BY <1>4, <1>7, <1>16, <2>1, <2>2
  <2>3. CASE b # a
    <3>1. making[b] # None => pc'[making[b]] # "absent"
      <4>1. making[b] # None => making[b] \in Handlers /\ pc[making[b]] # "absent"
        BY <1>0 DEF ConstructionState
      <4> QED
        BY <1>4, <4>1
    <3> QED
      BY <1>0, <1>4, <2>1, <2>3, <3>1 DEF ConstructionState
  <2> QED
    BY <2>2, <2>3
<1>18. ThreadsRequested'
  BY <1>0, <1>3 DEF ThreadsRequested
<1> QED
  BY <1>9, <1>15, <1>17, <1>18 DEF ThreadInv

\* A replica in construction, the builder that holds the guard, and the guard.
LEMMA BuilderOf ==
  ASSUME TypeOK, GuardHeldByBuilder, NEW r \in Handlers, IsReplicaInConstruction(r),
         NEW a, a = HomeAgent[r]
  PROVE  /\ a \in Agents /\ making[a] = r /\ r \notin replicas[a]
         /\ lock[a] \in Handlers /\ lock[a] # r /\ HomeAgent[lock[a]] = a
         /\ pc[lock[a]] = "replicating" /\ pc[r] \in Building
         /\ \A g \in Handlers : HomeAgent[g] = a /\ pc[g] \in Holding => g = lock[a]
         /\ \A g \in Handlers : HomeAgent[g] = a /\ pc[g] = "built" => g = r
<1>1. a \in Agents /\ making[a] = r /\ r # None /\ pc[lock[a]] = "replicating"
  BY MessagingAssumption DEF IsReplicaInConstruction
<1>2. GuardOf(a)
  BY <1>1, GuardParts
<1>3. lock[a] # None /\ lock[a] \in Handlers
  BY <1>1, <1>2 DEF GuardOf, TypeOK
<1> QED
  BY <1>1, <1>2, <1>3 DEF GuardOf, Holding, Building

(***************************************************************************)
(* A construction ends: the replica r goes to place p and its builder to   *)
(* place q, which still is within the guard.                               *)
(***************************************************************************)
Constructed(r, p, q) ==
  LET a == HomeAgent[r] IN
  /\ IsReplicaInConstruction(r)
  /\ pc' = [pc EXCEPT ![r] = p, ![lock[a]] = q]
  /\ making' = IF q = "adding" THEN making ELSE [making EXCEPT ![a] = None]
  /\ p \in {"waiting", "stopped"} /\ q \in {"adding", "disposing"}
  /\ UNCHANGED <<lock, replicas>>
  /\ cur'[r] = None /\ sending'[r] = None
  /\ OthersKeepHands(r)

LEMMA ConstructedPreserves ==
  ASSUME TypeOK, OnePlace, ThreadInv, ContentState', ContentKept,
         NEW r \in Handlers, NEW p, NEW q, Constructed(r, p, q)
  PROVE  GuardHeldByBuilder' /\ ThreadState' /\ \A g \in Handlers : pc[g] # "absent" => pc'[g] # "absent"
<1> USE DEF TypeOK
<1> DEFINE a == HomeAgent[r]
           h == lock[a]
<1>0. GuardHeldByBuilder /\ ThreadState /\ ConstructionState
  BY DEF ThreadInv
<1>1. /\ WorkState /\ SendState /\ ReplyState /\ KindState /\ KnownState /\ ContentState
  BY <1>0, ThreadParts
<1>2. /\ a \in Agents /\ making[a] = r
      /\ h \in Handlers /\ h # r /\ HomeAgent[h] = a
      /\ pc[h] = "replicating" /\ pc[r] \in Building
      /\ \A g \in Handlers : HomeAgent[g] = a /\ pc[g] \in Holding => g = h
      /\ \A g \in Handlers : HomeAgent[g] = a /\ pc[g] = "built" => g = r
  BY <1>0, BuilderOf DEF Constructed
<1>3. /\ pc' = [pc EXCEPT ![r] = p, ![h] = q]
      /\ making' = IF q = "adding" THEN making ELSE [making EXCEPT ![a] = None]
      /\ p \in {"waiting", "stopped"} /\ q \in {"adding", "disposing"}
      /\ lock' = lock /\ replicas' = replicas /\ cur'[r] = None /\ sending'[r] = None
      /\ \A g \in Handlers : g # r => cur'[g] = cur[g] /\ sending'[g] = sending[g]
  BY DEF Constructed, OthersKeepHands
<1>4. HomeAgent[r] = a /\ lock[a] = h
  OBVIOUS
<1>9. r \notin replicas[a]
  BY <1>0, BuilderOf DEF Constructed
<1> HIDE DEF a, h
<1>5. /\ pc'[r] = p /\ pc'[h] = q
      /\ \A g \in Handlers : g # h /\ g # r => pc'[g] = pc[g]
      /\ making'[a] = IF q = "adding" THEN r ELSE None
      /\ \A b \in Agents : b # a => making'[b] = making[b]
  BY <1>2, <1>3
<1>6. h # None /\ r # None /\ \A g \in Handlers : HomeAgent[g] \in Agents
  BY <1>2, MessagingAssumption
<1>7. GuardHeldByBuilder'
  <2> SUFFICES ASSUME NEW b \in Agents
               PROVE  GuardOf(b)'
    BY DEF GuardHeldByBuilder, GuardOf, Holding, Building, IsReplicaInConstruction
  <2>1. GuardOf(b)
    BY <1>0, GuardParts
  <2>2. CASE b = a
    <3>1. ASSUME NEW g \in Handlers, HomeAgent[g] = a, g # h
          PROVE  pc'[g] \notin Holding /\ pc'[g] # "built"
      BY <1>2, <1>3, <1>5, <3>1 DEF Holding
    <3>2. pc'[h] \in Holding /\ pc'[h] # "built" /\ pc'[h] # "replicating"
      BY <1>3, <1>5 DEF Holding
    <3>3. making'[a] # None <=> pc'[h] \in {"replicating", "adding"}
      BY <1>3, <1>5, <1>6
    <3>4. making'[a] # None => HomeAgent[making'[a]] = a /\ making'[a] \notin replicas'[a]
      BY <1>3, <1>4, <1>5, <1>9
    <3> QED
      BY <1>2, <1>3, <1>4, <1>6, <2>2, <3>1, <3>2, <3>3, <3>4 DEF GuardOf
  <2>3. CASE b # a
    <3>1. replicas'[b] = replicas[b] /\ lock'[b] = lock[b] /\ making'[b] = making[b]
      BY <1>3, <1>5, <2>3
    <3>2. \A g \in Handlers : HomeAgent[g] = b => pc'[g] = pc[g]
      BY <1>2, <1>4, <1>5, <2>3
    <3> QED
      BY <2>1, <3>1, <3>2, GuardOfOthers
  <2> QED
    BY <2>2, <2>3
<1>8. WorkState'
  <2> SUFFICES ASSUME NEW g \in Handlers
               PROVE  cur'[g] # None <=> Working(g)'
    BY DEF WorkState
  <2>1. CASE g = r
    BY <1>3, <1>5, <2>1 DEF Working
  <2>2. CASE g = h
    <3>1. cur[h] = None
      BY <1>1, <1>2 DEF WorkState, Working
    <3> QED
      BY <1>2, <1>3, <1>5, <2>2, <3>1 DEF Working
  <2>3. CASE g # h /\ g # r
    <3>1. cur'[g] = cur[g] /\ pc'[g] = pc[g] /\ HomeAgent[g] \in Agents
      BY <1>3, <1>5, <1>6, <2>3
    <3>2. g # None
      BY MessagingAssumption
    <3>3. CASE HomeAgent[g] = a
      <4>1. making[a] # g /\ making'[a] # g
        BY <1>2, <1>5, <2>3, <3>2
      <4> QED
        BY <1>1, <3>1, <3>3, <4>1 DEF WorkState, Working, IsReplicaInConstruction
    <3>4. CASE HomeAgent[g] # a
      <4> DEFINE b == HomeAgent[g]
      <4>1. making[b] = g => lock[b] \in Handlers /\ HomeAgent[lock[b]] = b
        BY <1>0, <3>1, <3>2, GuardParts DEF GuardOf
      <4>2. making[b] = g => pc'[lock[b]] = pc[lock[b]]
        BY <1>2, <1>4, <1>5, <3>4, <4>1
      <4>3. lock'[b] = lock[b] /\ making'[b] = making[b]
        BY <1>3, <1>5, <3>1, <3>4
      <4>4. IsReplicaInConstruction(g)' <=> IsReplicaInConstruction(g)
        BY <4>2, <4>3, InConstructionKept
      <4> QED
        BY <1>1, <3>1, <4>4 DEF WorkState, Working
    <3> QED
      BY <3>3, <3>4
  <2> QED
    BY <2>1, <2>2, <2>3
<1>14. SendState'
  <2>1. sending'[h] = None /\ pc'[h] # "replying"
    BY <1>1, <1>2, <1>3, <1>5 DEF SendState
  <2>2. sending'[r] = None /\ pc'[r] # "replying"
    BY <1>3, <1>5
  <2>3. \A g \in Handlers : g # h /\ g # r => sending'[g] = sending[g] /\ pc'[g] = pc[g]
    BY <1>3, <1>5
  <2> QED
    BY <1>1, <2>1, <2>2, <2>3 DEF SendState
<1>10. ReplyState'
  <2> SUFFICES ASSUME NEW g \in Handlers, pc'[g] = "ran"
               PROVE  content'[cur'[g]].replyTo # None
    BY DEF ReplyState
  <2>1. g # h /\ g # r
    BY <1>3, <1>5
  <2>2. pc[g] = "ran" /\ cur'[g] = cur[g]
    BY <1>3, <1>5, <2>1
  <2>3. cur[g] # None
    BY <1>1, <2>2 DEF WorkState, Working
  <2> QED
    BY <1>1, <2>2, <2>3, HandsKnown DEF ReplyState
<1>11. KindState'
  <2>1. a \in LuaAgents
    BY <1>1, <1>2 DEF KindState
  <2> QED
    BY <1>1, <1>2, <1>4, <1>5, <2>1 DEF KindState
<1>12. \A g \in Handlers : pc[g] # "absent" => pc'[g] # "absent"
  BY <1>3, <1>5
<1>13. KnownState'
  <2>1. \A b \in Agents : Known(b) => Known(b)'
    BY <1>12, MessagingAssumption DEF Known
  <2>2. pc[r] # "absent" /\ pc[h] # "absent"
    BY <1>2 DEF Building
  <2>3. \A g \in Handlers : pc'[g] # "absent" => pc[g] # "absent"
    BY <1>5, <2>2
  <2> QED
    BY <1>1, <1>6, <2>1, <2>3 DEF KnownState
<1> QED
  BY <1>7, <1>8, <1>14, <1>10, <1>11, <1>12, <1>13
     DEF ThreadState, WorkState, SendState, ReplyState, KindState, KnownState, ContentState

LEMMA AddHandlerPreserves ==
  ASSUME TypeOK, OnePlace, ThreadInv, ContentState', ContentKept,
         NEW r \in Handlers, AddHandler(r)
  PROVE  ThreadInv'
<1> USE DEF TypeOK
<1>0. /\ GuardHeldByBuilder /\ ThreadState /\ ConstructionState /\ ThreadsRequested
      /\ ContentState
  BY ThreadParts DEF ThreadInv
<1>1. IsReplicaInConstruction(r) /\ cur[r] = None /\ sending[r] = None
  <2>1. pc[r] = "built" /\ HomeAgent[r] \in Agents
    BY MessagingAssumption DEF AddHandler
  <2>2. IsReplicaInConstruction(r)
    BY <1>0, <2>1 DEF GuardHeldByBuilder
  <2>3. cur[r] = None /\ sending[r] = None
    BY <1>0, <2>1 DEF ThreadState, Working
  <2> QED
    BY <2>2, <2>3
<1>2. UNCHANGED <<lock, making, replicas, cur, sending>>
  BY DEF AddHandler, messageVars, replicaVars
<1>3. Constructed(r, "waiting", "adding")
  BY <1>1, <1>2 DEF AddHandler, Constructed, OthersKeepHands
<1>4. /\ GuardHeldByBuilder' /\ ThreadState'
      /\ \A g \in Handlers : pc[g] # "absent" => pc'[g] # "absent"
  BY <1>3, ConstructedPreserves
<1>5. ConstructionState' /\ ThreadsRequested'
  BY <1>0, <1>2, <1>4, RequestsStay
<1> QED
  BY <1>4, <1>5 DEF ThreadInv

LEMMA PublishPreserves ==
  ASSUME TypeOK, OnePlace, ThreadInv, ContentState', ContentKept,
         NEW h \in Handlers, PublishReplica(h)
  PROVE  ThreadInv'
<1> USE DEF TypeOK
<1> DEFINE a == HomeAgent[h]
<1>0. /\ GuardHeldByBuilder /\ ThreadState /\ ConstructionState /\ ThreadsRequested
      /\ ContentState
  BY ThreadParts DEF ThreadInv
<1>1. PICK r \in Handlers : /\ making[a] = r
                            /\ replicas' = [replicas EXCEPT ![a] = replicas[a] \cup {r}]
  BY DEF PublishReplica
<1>2. Concluded(h, "publishing")
  BY DEF PublishReplica, Goto, messageVars, Concluded, Holding
<1>3. /\ a \in Agents /\ making[a] = r /\ r # None
      /\ replicas' = [replicas EXCEPT ![a] = replicas[a] \cup {r}]
      /\ making' = [making EXCEPT ![a] = None] /\ content' = content
  BY <1>1, MessagingAssumption DEF PublishReplica, messageVars
<1>10. pc[r] # "absent"
  BY <1>0, <1>3 DEF ConstructionState
<1>4. \A b \in Agents : b # a => replicas'[b] = replicas[b]
  BY <1>3
<1>5. /\ GuardHeldByBuilder' /\ ThreadState'
      /\ \A g \in Handlers : pc[g] # "absent" => pc'[g] # "absent"
  BY <1>2, <1>4, ConcludedPreserves
<1>6. \A b \in Agents : \A g \in replicas'[b] : pc'[g] # "absent"
  BY <1>0, <1>3, <1>5, <1>10 DEF ConstructionState
<1>7. ConstructionState'
  BY <1>0, <1>3, <1>4, <1>5, <1>6 DEF ConstructionState
<1>8. \E m \in Msgs : /\ content[m] # None /\ content[m].to = a
                      /\ Cardinality(replicas'[a]) + 1 <= content[m].threads
  <2>1. PICK m \in Msgs : /\ content[m] # None /\ content[m].to = a
                          /\ Cardinality(replicas[a]) + 2 <= content[m].threads
    BY <1>0, <1>3 DEF ConstructionState
  <2>2. r \notin replicas[a]
    BY <1>0, <1>3 DEF GuardHeldByBuilder
  <2>3. IsFiniteSet(replicas[a])
    BY <1>3, MessagingAssumption, FS_Subset
  <2>4. /\ Cardinality(replicas[a] \cup {r}) = Cardinality(replicas[a]) + 1
        /\ Cardinality(replicas[a]) \in Nat
    BY ONLY <2>2, <2>3, FS_AddElement, FS_CardinalityType
  <2>5. replicas'[a] = replicas[a] \cup {r}
    BY <1>3
  <2> QED
    BY <2>1, <2>4, <2>5
<1>9. ThreadsRequested'
  <2> SUFFICES ASSUME NEW b \in Agents, replicas'[b] # {}
               PROVE  \E m \in Msgs : /\ content[m] # None /\ content[m].to = b
                                      /\ Cardinality(replicas'[b]) + 1 <= content[m].threads
    BY <1>3 DEF ThreadsRequested
  <2>1. CASE b = a
    BY <1>8, <2>1
  <2>2. CASE b # a
    BY <1>0, <1>4, <2>2 DEF ThreadsRequested
  <2> QED
    BY <2>1, <2>2
<1> QED
  BY <1>5, <1>7, <1>9 DEF ThreadInv

\* The replica that agent a builds is given up.
LEMMA NothingIsMade ==
  ASSUME TypeOK, ContentState, ContentKept, ConstructionState, ThreadsRequested,
         NEW a \in Agents, making' = [making EXCEPT ![a] = None], UNCHANGED replicas,
         \A g \in Handlers : pc[g] # "absent" => pc'[g] # "absent"
  PROVE  ConstructionState' /\ ThreadsRequested'
<1> USE DEF TypeOK
<1>1. \A b \in Agents : \A g \in replicas[b] : pc'[g] # "absent"
  BY DEF ConstructionState
<1>2. ASSUME NEW b \in Agents, making'[b] # None
      PROVE  /\ making'[b] # Primary[b] /\ pc'[making'[b]] # "absent"
             /\ \E m \in Msgs : /\ content'[m] # None /\ content'[m].to = b
                                /\ Cardinality(replicas[b]) + 2 <= content'[m].threads
  <2>1. making'[b] = making[b] /\ making[b] # None /\ making[b] \in Handlers
    BY <1>2
  <2>2. /\ making[b] # Primary[b] /\ pc[making[b]] # "absent"
        /\ Asked(b, Cardinality(replicas[b]) + 2)
    BY <2>1 DEF ConstructionState, Asked
  <2> QED
    BY <2>1, <2>2, AskedStays
<1>3. ASSUME NEW b \in Agents, replicas[b] # {}
      PROVE  \E m \in Msgs : /\ content'[m] # None /\ content'[m].to = b
                             /\ Cardinality(replicas[b]) + 1 <= content'[m].threads
  <2>1. Asked(b, Cardinality(replicas[b]) + 1)
    BY <1>3 DEF ThreadsRequested, Asked
  <2> HIDE DEF Asked, TypeOK
  <2> QED
    BY <2>1, AskedStays
<1>4. ConstructionState'
  BY <1>1, <1>2 DEF ConstructionState
<1>5. ThreadsRequested'
  BY <1>3 DEF ThreadsRequested
<1> QED
  BY <1>4, <1>5

LEMMA PublishFailsPreserves ==
  ASSUME TypeOK, OnePlace, ThreadInv, ContentState', ContentKept,
         NEW h \in Handlers, PublishReplicaFails(h)
  PROVE  ThreadInv'
<1> USE DEF TypeOK
<1>0. /\ GuardHeldByBuilder /\ ThreadState /\ ConstructionState /\ ThreadsRequested
      /\ ContentState
  BY ThreadParts DEF ThreadInv
<1>1. Concluded(h, "disposing") /\ UNCHANGED replicas
  BY DEF PublishReplicaFails, Goto, messageVars, Concluded, Holding
<1>2. /\ GuardHeldByBuilder' /\ ThreadState'
      /\ \A g \in Handlers : pc[g] # "absent" => pc'[g] # "absent"
  BY <1>1, ConcludedPreserves
<1>3. making' = [making EXCEPT ![HomeAgent[h]] = None] /\ HomeAgent[h] \in Agents
  BY <1>1, MessagingAssumption DEF Concluded
<1> QED
  BY <1>0, <1>1, <1>2, <1>3, NothingIsMade DEF ThreadInv

LEMMA GiveUpPreserves ==
  ASSUME TypeOK, OnePlace, ThreadInv, ContentState', ContentKept,
         NEW r \in Handlers, GiveUp(r)
  PROVE  ThreadInv'
<1> USE DEF TypeOK
<1>0. /\ GuardHeldByBuilder /\ ThreadState /\ ConstructionState /\ ThreadsRequested
      /\ ContentState
  BY ThreadParts DEF ThreadInv
<1>1. Constructed(r, "stopped", "disposing")
  BY DEF GiveUp, DestroyReplica, Constructed
<1>2. /\ GuardHeldByBuilder' /\ ThreadState'
      /\ \A g \in Handlers : pc[g] # "absent" => pc'[g] # "absent"
  BY <1>1, ConstructedPreserves
<1>3. /\ UNCHANGED replicas /\ HomeAgent[r] \in Agents
      /\ making' = [making EXCEPT ![HomeAgent[r]] = None]
  BY MessagingAssumption DEF GiveUp, DestroyReplica
<1> QED
  BY <1>0, <1>2, <1>3, NothingIsMade DEF ThreadInv

-----------------------------------------------------------------------------
(* The inductive invariant *)

LEMMA InvInit ==
  ASSUME Init
  PROVE  Inv
<1> USE DEF Init
<1>1. TypeOK
  BY TypesInit
<1>2. OnePlace
  BY DEF OnePlace
<1>3. CounterExact
  <2>1. Counted = {} /\ size = 0
    BY DEF Counted, Counter!Init
  <2> QED
    BY <2>1, FS_EmptySet DEF CounterExact
<1>4. GuardHeldByBuilder /\ ConstructionState /\ ThreadsRequested
  BY MessagingAssumption DEF GuardHeldByBuilder, ConstructionState, ThreadsRequested
<1>5. ThreadState
  BY MessagingAssumption
     DEF ThreadState, Working, IsReplicaInConstruction, Threads
<1> QED
  BY <1>1, <1>2, <1>3, <1>4, <1>5 DEF Inv

LEMMA InvNext ==
  ASSUME Inv, [Next]_vars
  PROVE  Inv'
<1>1. /\ TypeOK /\ OnePlace /\ CounterExact
      /\ GuardHeldByBuilder /\ ThreadState /\ ConstructionState /\ ThreadsRequested
  BY DEF Inv
<1>2. TypeOK'
  BY <1>1, TypesPreserved
<1>3. OnePlace' /\ CounterExact'
  BY <1>1, OnePlacePreserved, CounterPreserved
<1>4. ContentKept /\ ContentState'
  BY <1>1, ContentPreserved
<1>5. ThreadInv'
  <2>1. ThreadInv
    BY <1>1 DEF ThreadInv
  <2> QED
    BY <1>1, <1>4, <2>1, ThreadStepEffect, StayPreserves, WalkPreserves, StartPreserves,
       AddHandlerPreserves, PublishPreserves, PublishFailsPreserves, ReleasePreserves,
       GiveUpPreserves DEF ThreadEffect
<1> QED
  BY <1>2, <1>3, <1>5 DEF ThreadInv, Inv

\* Inv is an invariant: in every reachable state messages, threads, guards
\* and the counter agree as its parts say.
THEOREM Invariant == Spec => []Inv
<1> QED
  BY InvInit, InvNext, PTL DEF Spec
=============================================================================
