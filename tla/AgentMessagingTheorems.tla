----------------------- MODULE AgentMessagingTheorems -----------------------
(***************************************************************************)
(* What the inductive invariant of AgentMessaging says about messages,     *)
(* threads and the wait for all messages, and that AgentMessaging          *)
(* implements MessageBus.                                                  *)
(***************************************************************************)
EXTENDS ThreadProofs

-----------------------------------------------------------------------------
(* Safety *)

(***************************************************************************)
(* No message is in two places: none is handled twice, and a replica and   *)
(* its builder never work on the same one.                                 *)
(***************************************************************************)
THEOREM MessagesInOnePlace == Spec => []OnePlace
<1>1. Inv => OnePlace
  BY DEF Inv
<1> QED
  BY <1>1, Invariant, PTL

\* The counter is the number of messages underway plus those that were lost.
THEOREM CounterIsExact == Spec => []CounterExact
<1>1. Inv => CounterExact
  BY DEF Inv
<1> QED
  BY <1>1, Invariant, PTL

\* Only a handler that replicates holds the guard of _replicated, and it
\* builds at most one replica.
THEOREM GuardIsExclusive == Spec => []GuardHeldByBuilder
<1>1. Inv => GuardHeldByBuilder
  BY DEF Inv
<1> QED
  BY <1>1, Invariant, PTL

\* Replication never exceeds the number of threads that a message asked for.
THEOREM ReplicationIsBounded == Spec => []ThreadsRequested
<1>1. Inv => ThreadsRequested
  BY DEF Inv
<1> QED
  BY <1>1, Invariant, PTL

LEMMA QuietAtZero ==
  ASSUME Inv, size = 0
  PROVE  Quiet
<1> USE DEF TypeOK
<1>1. TypeOK /\ OnePlace /\ CounterExact /\ ThreadState
  BY DEF Inv
<1>2. Counted = {}
  <2>1. IsFiniteSet(Counted) /\ Cardinality(Counted) = 0
    BY <1>1, CountedFinite, MessagingAssumption DEF CounterExact
  <2> QED
    BY ONLY <2>1, FS_EmptySet
<1>3. \A m \in Msgs : stage[m] \notin {"sending", "queued", "held"}
  BY <1>2 DEF Counted
<1>4. \A t \in Threads : sending[t] = None
  BY <1>1, <1>3 DEF OnePlace
<1>5. \A h \in Handlers : ~Working(h)
  BY <1>1, <1>3 DEF OnePlace, ThreadState
<1>6. ASSUME NEW a \in Agents
      PROVE  queue[a] = <<>>
  <2>1. queue[a] \in Seq(Msgs)
    BY <1>1
  <2>2. SUFFICES ASSUME queue[a] # <<>>
                 PROVE  FALSE
    OBVIOUS
  <2>3. 1 \in DOMAIN queue[a] /\ queue[a][1] \in Msgs
    BY <2>1, <2>2
  <2> QED
    BY <1>1, <1>3, <2>3 DEF OnePlace
<1> QED
  BY <1>4, <1>5, <1>6 DEF Quiet

(***************************************************************************)
(* When the counter is zero, no message waits, no handler works and nobody *)
(* is inside of Send.                                                      *)
(***************************************************************************)
THEOREM ZeroIsQuiet == Spec => []ZeroMeansQuiet
<1>1. Inv => ZeroMeansQuiet
  BY QuietAtZero DEF ZeroMeansQuiet
<1> QED
  BY <1>1, Invariant, PTL

\* Only a step of its own changes what an application thread waits for.
LEMMA OthersDoNotReturn ==
  ASSUME [Next]_vars,
         ~\E c \in Clients : ClientWait(c) \/ ClientRecheck(c)
  PROVE  waitsFor' = waitsFor
<1> USE DEF counterVars, Counter!Increase, Counter!Decrease
<1>1. CASE UNCHANGED vars
  BY <1>1 DEF vars
<1>2. ASSUME NEW h \in Handlers, HandlerStep(h)
      PROVE  waitsFor' = waitsFor
  <2>1. CASE Take(h) \/ Decide(h) \/ DeclineReplication(h) \/ StartReplica(h)
    BY <2>1 DEF Take, Decide, DeclineReplication, StartReplica
  <2>2. CASE CppReturns(h) \/ Complete(h)
    BY <2>2 DEF CppReturns, Complete, CountDown
  <2>3. CASE CppThrows(h) \/ ReadConfigurationFails(h) \/ ReplicaScriptEnds(h)
    BY <2>3 DEF CppThrows, ReadConfigurationFails, ReplicaScriptEnds, Escape, Lose
  <2>4. CASE AddHandler(h) \/ PublishReplica(h) \/ PublishReplicaFails(h) \/ ReleaseGuard(h)
    BY <2>4 DEF AddHandler, PublishReplica, PublishReplicaFails, ReleaseGuard
  <2>5. ASSUME NEW c \in Contents, Reply(h, c)
        PROVE  waitsFor' = waitsFor
    BY <2>5 DEF Reply, BeginSend, Count
  <2>6. CASE RunPluginReturns(h) \/ ReplyToUnknown(h) \/ ReplyRejected(h) \/ Leave(h)
    BY <2>6 DEF RunPluginReturns, ReplyToUnknown, ReplyRejected, Leave, Lose
  <2>7. CASE ReplySent(h)
    BY <2>7 DEF ReplySent, Enqueue, Skip, EndSend
  <2> QED
    BY <1>2, <2>1, <2>2, <2>3, <2>4, <2>5, <2>6, <2>7 DEF HandlerStep
<1>3. ASSUME NEW t \in Threads, NEW c \in Contents, SendMessage(t, c)
      PROVE  waitsFor' = waitsFor
  BY <1>3 DEF SendMessage, BeginSend, Count
<1>4. ASSUME NEW t \in Threads, FinishSend(t)
      PROVE  waitsFor' = waitsFor
  BY <1>4 DEF FinishSend, Enqueue, Skip, Reject, EndSend
<1>5. ASSUME NEW a \in Agents, AddAgent(a) \/ ScriptEnds(a)
      PROVE  waitsFor' = waitsFor
  BY <1>5 DEF AddAgent, ScriptEnds
<1>6. ASSUME NEW h \in Handlers, SetConfig(h) \/ StopHandler(h)
      PROVE  waitsFor' = waitsFor
  BY <1>6 DEF SetConfig, StopHandler
<1>7. CASE ReleasePool
  BY <1>7 DEF ReleasePool
<1> QED
  BY <1>1, <1>2, <1>3, <1>4, <1>5, <1>6, <1>7 DEF Next, Environment

(***************************************************************************)
(* WaitUntilMessageQueueIsEmpty never returns while a message waits, a     *)
(* handler works or a reply is still to be sent.                           *)
(***************************************************************************)
THEOREM WaitNeverReturnsEarly == Spec => NoEarlyReturn
<1>1. ASSUME Inv, [Next]_vars,
             NEW c \in Clients, waitsFor[c] = "empty", waitsFor'[c] = "nothing"
      PROVE  Quiet
  <2>1. waitsFor \in [Clients -> {"nothing", "first", "empty"}]
    BY <1>1 DEF Inv, TypeOK, Counter!TypeOK
  <2>2. PICK d \in Clients : ClientWait(d) \/ ClientRecheck(d)
    BY <1>1, OthersDoNotReturn
  <2>3. waitsFor' # waitsFor
    BY <1>1
  <2>4. CASE ClientWait(d)
    BY <1>1, <2>1, <2>4 DEF ClientWait, Counter!WaitUntilEmpty, Counter!SpuriousWakeup
  <2>5. CASE ClientRecheck(d)
    <3>1. Counter!Return(d)
      BY <2>3, <2>5 DEF ClientRecheck, Counter!Recheck, Counter!SleepAgain
    <3>2. d = c
      BY <1>1, <2>1, <3>1 DEF Counter!Return
    <3>3. size = 0
      BY <1>1, <3>1, <3>2 DEF Counter!Return, Counter!MayReturn
    <3> QED
      BY <1>1, <3>3, QuietAtZero
  <2> QED
    BY <2>2, <2>4, <2>5
<1>2. ASSUME Inv, [Next]_vars
      PROVE  [\A c \in Clients :
                waitsFor[c] = "empty" /\ waitsFor'[c] = "nothing" => Quiet]_vars
  BY <1>1, <1>2
<1> QED
  BY <1>2, Invariant, PTL DEF Spec, NoEarlyReturn

-----------------------------------------------------------------------------
(* Refinement *)

LEMMA PhaseOfStage ==
  ASSUME NEW m \in Msgs
  PROVE  /\ stage[m] \in {"sending", "queued"} => Phase(m) = "pending"
         /\ stage[m] = "held" => Phase(m) = "handling"
         /\ stage[m] \notin {"sending", "queued", "held"} => Phase(m) = stage[m]
BY DEF Phase

LEMMA PhaseOfNextStage ==
  ASSUME NEW m \in Msgs
  PROVE  /\ stage'[m] \in {"sending", "queued"} => Phase(m)' = "pending"
         /\ stage'[m] = "held" => Phase(m)' = "handling"
         /\ stage'[m] \notin {"sending", "queued", "held"} => Phase(m)' = stage'[m]
         /\ stage'[m] = stage[m] => Phase(m)' = Phase(m)
BY DEF Phase

phaseBar == [m \in Msgs |-> Phase(m)]

waitingBar == {c \in Clients : waitsFor[c] = "empty"}

\* One message changes its phase.
LEMMA PhaseChange ==
  ASSUME TypeOK, NEW m \in Msgs, NEW s, stage' = [stage EXCEPT ![m] = s]
  PROVE  phaseBar' = [phaseBar EXCEPT ![m] = Phase(m)']
<1>1. \A n \in Msgs : n # m => stage'[n] = stage[n]
  BY DEF TypeOK
<1>2. \A n \in Msgs : n # m => Phase(n)' = Phase(n)
  BY <1>1, PhaseOfNextStage
<1>3. phaseBar' = [n \in Msgs |-> Phase(n)']
  BY DEF phaseBar
<1> HIDE DEF Phase
<1> QED
  BY <1>2, <1>3 DEF phaseBar

LEMMA BusVariables ==
  ASSUME phaseBar' = phaseBar, waitsFor' = waitsFor
  PROVE  UNCHANGED Bus!busVars
BY DEF Bus!busVars, phaseBar

\* A message moves on, and nobody starts or ends waiting.
LEMMA MoveRefines ==
  ASSUME TypeOK, NEW m \in Msgs, NEW s, stage' = [stage EXCEPT ![m] = s], waitsFor' = waitsFor,
         \/ stage[m] = "unused" /\ s = "sending"
         \/ stage[m] = "sending" /\ s \in {"queued", "lost"}
         \/ stage[m] = "queued" /\ s = "held"
         \/ stage[m] = "held" /\ s \in {"done", "lost"}
  PROVE  [Bus!Next]_(Bus!busVars)
<1>1. stage'[m] = s /\ phaseBar[m] = Phase(m)
  BY DEF TypeOK, phaseBar
<1>2. phaseBar' = [phaseBar EXCEPT ![m] = Phase(m)'] /\ waitingBar' = waitingBar
  BY PhaseChange DEF waitingBar
<1>3. DOMAIN phaseBar = Msgs /\ phaseBar = [n \in Msgs |-> phaseBar[n]]
  BY DEF phaseBar
<1>4. CASE stage[m] = "unused" /\ s = "sending"
  <2>1. phaseBar[m] = "unused" /\ phaseBar' = [phaseBar EXCEPT ![m] = "pending"]
    BY <1>1, <1>2, <1>4, PhaseOfStage, PhaseOfNextStage
  <2>2. Bus!Accept(m)
    BY <1>2, <2>1 DEF Bus!Accept, Bus!Move, phaseBar, waitingBar
  <2> QED
    BY <2>2 DEF Bus!Next
<1>5. CASE stage[m] = "sending" /\ s = "queued"
  <2>1. phaseBar[m] = "pending" /\ phaseBar' = [phaseBar EXCEPT ![m] = "pending"]
    BY <1>1, <1>2, <1>5, PhaseOfStage, PhaseOfNextStage
  <2>2. phaseBar' = phaseBar
    BY <1>3, <2>1
  <2> QED
    BY <2>2, BusVariables
<1>6. CASE stage[m] = "queued" /\ s = "held"
  <2>1. phaseBar[m] = "pending" /\ phaseBar' = [phaseBar EXCEPT ![m] = "handling"]
    BY <1>1, <1>2, <1>6, PhaseOfStage, PhaseOfNextStage
  <2>2. Bus!Begin(m)
    BY <1>2, <2>1 DEF Bus!Begin, Bus!Move, phaseBar, waitingBar
  <2> QED
    BY <2>2 DEF Bus!Next
<1>7. CASE stage[m] = "held" /\ s = "done"
  <2>1. phaseBar[m] = "handling" /\ phaseBar' = [phaseBar EXCEPT ![m] = "done"]
    BY <1>1, <1>2, <1>7, PhaseOfStage, PhaseOfNextStage
  <2>2. Bus!Finish(m)
    BY <1>2, <2>1 DEF Bus!Finish, Bus!Move, phaseBar, waitingBar
  <2> QED
    BY <2>2 DEF Bus!Next
<1>8. CASE stage[m] \in {"sending", "held"} /\ s = "lost"
  <2>1. phaseBar[m] \in {"pending", "handling"} /\ phaseBar' = [phaseBar EXCEPT ![m] = "lost"]
    BY <1>1, <1>2, <1>8, PhaseOfStage, PhaseOfNextStage
  <2>2. phaseBar' = [n \in Msgs |-> IF n \in {m} THEN "lost" ELSE phaseBar[n]]
    BY <1>3, <2>1
  <2>3. {m} \in SUBSET {n \in Msgs : phaseBar[n] \in {"pending", "handling"}} /\ {m} # {}
    BY <2>1
  <2>4. Bus!Fail
    BY <1>2, <2>2, <2>3 DEF Bus!Fail, phaseBar, waitingBar
  <2> QED
    BY <2>4 DEF Bus!Next
<1> QED
  BY <1>4, <1>5, <1>6, <1>7, <1>8

LEMMA RejectRefines ==
  ASSUME TypeOK, OnePlace, ThreadState, NEW h \in Handlers, ReplyRejected(h)
  PROVE  Bus!Fail
<1> DEFINE m == cur[h]
           reply == sending[h]
           S == {m, reply}
<1>1. h \in Threads /\ m # None /\ reply # None
  BY DEF Threads, ReplyRejected, ThreadState, Working
<1>2. m \in Msgs /\ reply \in Msgs /\ stage[m] = "held" /\ stage[reply] = "sending"
  BY <1>1 DEF TypeOK, OnePlace
<1>3. stage' = [stage EXCEPT ![reply] = "lost", ![m] = "lost"] /\ waitsFor' = waitsFor
  BY DEF ReplyRejected, counterVars
<1> HIDE DEF m, reply
<1>4. \A n \in Msgs : stage'[n] = IF n \in S THEN "lost" ELSE stage[n]
  BY <1>2, <1>3 DEF TypeOK
<1>5. \A n \in Msgs : Phase(n)' = IF n \in S THEN "lost" ELSE phaseBar[n]
  BY <1>4, PhaseOfNextStage DEF phaseBar
<1>6. phaseBar' = [n \in Msgs |-> IF n \in S THEN "lost" ELSE phaseBar[n]]
  <2>1. phaseBar' = [n \in Msgs |-> Phase(n)']
    BY DEF phaseBar
  <2> HIDE DEF S, phaseBar
  <2> QED
    BY <1>5, <2>1
<1>7. S \in SUBSET {n \in Msgs : phaseBar[n] \in {"pending", "handling"}} /\ S # {}
  BY <1>2, PhaseOfStage DEF phaseBar
<1>8. waitingBar' = waitingBar
  BY <1>3 DEF waitingBar
<1> QED
  BY <1>6, <1>7, <1>8 DEF Bus!Fail, phaseBar, waitingBar

LEMMA EffectRefines ==
  ASSUME TypeOK, OnePlace, ThreadState, Effect, waitsFor' = waitsFor
  PROVE  [Bus!Next]_(Bus!busVars)
<1> USE DEF TypeOK
<1>1. ASSUME stage' = stage
      PROVE  [Bus!Next]_(Bus!busVars)
  <2>1. \A m \in Msgs : Phase(m)' = Phase(m)
    BY <1>1, PhaseOfNextStage
  <2>2. phaseBar' = [m \in Msgs |-> Phase(m)']
    BY DEF phaseBar
  <2> HIDE DEF Phase
  <2>3. phaseBar' = phaseBar
    BY <2>1, <2>2 DEF phaseBar
  <2> QED
    BY <2>3, BusVariables
<1>2. CASE Rest \/ \E h, r \in Handlers : HandOver(h, r)
  BY <1>1, <1>2 DEF Rest, HandOver
<1>3. ASSUME NEW t \in Threads, NEW c \in Contents, BeginSend(t, c)
      PROVE  [Bus!Next]_(Bus!busVars)
  <2>1. PICK m \in Msgs : stage[m] = "unused" /\ stage' = [stage EXCEPT ![m] = "sending"]
    BY <1>3 DEF BeginSend, Unused
  <2> QED
    BY <2>1, MoveRefines
<1>4. ASSUME NEW t \in Threads, Moves(t)
      PROVE  [Bus!Next]_(Bus!busVars)
  <2>1. sending[t] \in Msgs /\ stage[sending[t]] = "sending"
    BY <1>4 DEF Moves, Enqueue, Skip, Reject, OnePlace
  <2>2. PICK where \in {"queued", "lost"} : stage' = [stage EXCEPT ![sending[t]] = where]
    BY <1>4 DEF Moves, Enqueue, Skip, Reject, EndSend
  <2> QED
    BY <2>1, <2>2, MoveRefines
<1>5. ASSUME NEW h \in Handlers, Take(h)
      PROVE  [Bus!Next]_(Bus!busVars)
  <2> DEFINE a == HomeAgent[h]
             m == Head(queue[a])
  <2>1. a \in Agents /\ queue[a] \in Seq(Msgs) /\ queue[a] # <<>>
    BY <1>5, MessagingAssumption DEF Take
  <2>2. 1 \in DOMAIN queue[a] /\ m = queue[a][1] /\ m \in Msgs
    BY <2>1
  <2>3. stage[m] = "queued"
    BY <2>1, <2>2 DEF OnePlace
  <2>4. stage' = [stage EXCEPT ![m] = "held"]
    BY <1>5 DEF Take
  <2> HIDE DEF m
  <2> QED
    BY <2>2, <2>3, <2>4, MoveRefines
<1>6. ASSUME NEW h \in Handlers, Settle(h)
      PROVE  [Bus!Next]_(Bus!busVars)
  <2>1. cur[h] \in Msgs /\ stage[cur[h]] = "held"
    BY <1>6 DEF Settle, OnePlace
  <2>2. PICK where \in {"done", "lost"} : stage' = [stage EXCEPT ![cur[h]] = where]
    BY <1>6 DEF Settle
  <2> QED
    BY <2>1, <2>2, MoveRefines
<1>7. ASSUME NEW h \in Handlers, ReplyRejected(h)
      PROVE  [Bus!Next]_(Bus!busVars)
  BY <1>7, RejectRefines DEF Bus!Next
<1> QED
  BY <1>2, <1>3, <1>4, <1>5, <1>6, <1>7 DEF Effect

\* A thread starts to wait while a message is left, and it is let go when none is.
LEMMA ClientRefines ==
  ASSUME Inv, NEW c \in Clients, ClientWait(c) \/ ClientRecheck(c)
  PROVE  [Bus!Next]_(Bus!busVars)
<1>1. TypeOK /\ CounterExact /\ Counter!TypeOK
  BY DEF Inv, TypeOK
<1>2. phaseBar' = phaseBar
  <2>1. stage' = stage
    BY DEF ClientWait, ClientRecheck, messageVars
  <2> QED
    BY <2>1 DEF phaseBar, Phase
<1>3. IsFiniteSet(Counted) /\ size = Cardinality(Counted)
  BY <1>1, CountedFinite, MessagingAssumption DEF CounterExact
<1>4. size = 0 <=> Counted = {}
  BY ONLY <1>3, FS_EmptySet
<1>5. CASE Counter!WaitUntilEmpty(c)
  <2>1. size > 0 /\ waitsFor[c] = "nothing" /\ waitsFor' = [waitsFor EXCEPT ![c] = "empty"]
    BY <1>5 DEF Counter!WaitUntilEmpty
  <2>2. PICK m \in Msgs : stage[m] \in {"sending", "queued", "held", "lost"}
    BY <1>4, <2>1 DEF Counted
  <2>3. phaseBar[m] \notin {"unused", "done"}
    BY <2>2, PhaseOfStage DEF phaseBar
  <2>4. c \notin waitingBar /\ waitingBar' = waitingBar \cup {c}
    BY <1>1, <2>1 DEF waitingBar, Counter!TypeOK
  <2>5. Bus!StartWaiting(c)
    BY <1>2, <2>3, <2>4 DEF Bus!StartWaiting, phaseBar, waitingBar
  <2> QED
    BY <2>5 DEF Bus!Next
<1>6. CASE Counter!Return(c) /\ waitsFor[c] = "empty"
  <2>1. size = 0 /\ waitsFor' = [waitsFor EXCEPT ![c] = "nothing"]
    BY <1>6 DEF Counter!Return, Counter!MayReturn
  <2>2. \A m \in Msgs : stage[m] \notin {"sending", "queued", "held"}
    BY <1>4, <2>1 DEF Counted
  <2>3. \A m \in Msgs : phaseBar[m] \notin {"pending", "handling"}
    BY <1>1, <2>2, PhaseOfStage DEF TypeOK, Stages, phaseBar
  <2>4. c \in waitingBar /\ waitingBar' = waitingBar \ {c}
    BY <1>1, <1>6, <2>1 DEF waitingBar, Counter!TypeOK
  <2>5. Bus!LetGo(c)
    BY <1>2, <2>3, <2>4 DEF Bus!LetGo, Bus!Processed, phaseBar, waitingBar
  <2> QED
    BY <2>5 DEF Bus!Next
<1>7. CASE Counter!Return(c) /\ waitsFor[c] # "empty"
  <2>1. waitingBar' = waitingBar
    BY <1>1, <1>7 DEF Counter!Return, waitingBar, Counter!TypeOK
  <2> QED
    BY <1>2, <2>1 DEF Bus!busVars, phaseBar, waitingBar
<1>8. CASE Counter!SpuriousWakeup(c) \/ Counter!SleepAgain(c)
  BY <1>2, <1>8, BusVariables DEF Counter!SpuriousWakeup, Counter!SleepAgain
<1> QED
  BY <1>5, <1>6, <1>7, <1>8 DEF ClientWait, ClientRecheck, Counter!Recheck

(***************************************************************************)
(* Agents, queues, handlers and the counter implement the promise of       *)
(* MessageBus: every message is handled at most once, and a thread that    *)
(* waits is let go only when every message was handled or is lost.         *)
(***************************************************************************)
THEOREM ImplementsBus == Spec => BusSpec
<1>1. Init => Bus!Init
  <2> SUFFICES ASSUME Init
               PROVE  Bus!Init
    OBVIOUS
  <2>1. phaseBar = [m \in Msgs |-> "unused"]
    BY DEF Init, phaseBar, Phase
  <2>2. waitingBar = {}
    BY DEF Init, Counter!Init, waitingBar
  <2> QED
    BY <2>1, <2>2 DEF Bus!Init, phaseBar, waitingBar
<1>2. Inv /\ [Next]_vars => [Bus!Next]_(Bus!busVars)
  <2> SUFFICES ASSUME Inv, [Next]_vars
               PROVE  [Bus!Next]_(Bus!busVars)
    OBVIOUS
  <2>1. CASE \E c \in Clients : ClientWait(c) \/ ClientRecheck(c)
    BY <2>1, ClientRefines
  <2>2. CASE ~\E c \in Clients : ClientWait(c) \/ ClientRecheck(c)
    <3>1. waitsFor' = waitsFor
      BY <2>2, OthersDoNotReturn
    <3>2. Effect
      BY StepEffect DEF Inv
    <3> QED
      BY <3>1, <3>2, EffectRefines DEF Inv
  <2> QED
    BY <2>1, <2>2
<1> QED
  BY <1>1, <1>2, Invariant, PTL DEF Spec, BusSpec, Bus!Spec
=============================================================================
