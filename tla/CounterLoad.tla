----------------------------- MODULE CounterLoad -----------------------------
(***************************************************************************)
(* The message counter under an arbitrary load: some threads count         *)
(* messages up and down, as AgentMessage::Send and handleMessage do, while *)
(* the waiters call wait_until_first and wait_until_empty.  A message is   *)
(* counted down at most once and only after it was counted up; module      *)
(* AgentMessaging shows that the callers keep to this.                     *)
(***************************************************************************)
EXTENDS MessageCounter

CONSTANT MaxSent   \* bound: how many messages are ever counted

ASSUME MaxSentAssumption == MaxSent \in Nat

VARIABLE sent      \* how many messages were counted so far

vars == <<size, increased, waitsFor, asleep, sent>>

LoadInit == Init /\ sent = 0

Count ==
  /\ sent < MaxSent
  /\ sent' = sent + 1
  /\ Increase

Discount ==
  /\ size > 0
  /\ Decrease
  /\ UNCHANGED sent

LoadNext ==
  \/ Count
  \/ Discount
  \/ \E w \in Waiters : Wait(w) /\ UNCHANGED sent

(***************************************************************************)
(* Handlers finish what they were given and a woken thread is scheduled;   *)
(* nobody has to send, to start waiting or to wake up spuriously.          *)
(***************************************************************************)
Spec ==
  /\ LoadInit /\ [][LoadNext]_vars
  /\ WF_vars(Discount)
  /\ \A w \in Waiters : WF_vars(Recheck(w) /\ UNCHANGED sent)

LoadTypeOK == TypeOK /\ sent \in 0..MaxSent /\ size \in 0..sent

(***************************************************************************)
(* No wake-up is lost: a thread asleep in wait_until_empty can rely on     *)
(* messages that are still outstanding to notify it, one asleep in         *)
(* wait_until_first on a first message that is still to come               *)
(* (message_counter.hpp:47-91).                                            *)
(***************************************************************************)
SleepersCanRely ==
  \A w \in asleep : ~MayReturn(w)

(***************************************************************************)
(* A call of wait_until_empty returns: it cannot stay inside while the     *)
(* counter has come back to zero for good ("wait until the nexuslua agents *)
(* processed all remaining messages", agents.hpp:89).                      *)
(***************************************************************************)
EmptyWaitReturns ==
  \A w \in Waiters : waitsFor[w] = "empty" ~> waitsFor[w] # "empty"

(***************************************************************************)
(* A call of wait_until_first returns once a message was counted.          *)
(***************************************************************************)
FirstWaitReturns ==
  \A w \in Waiters :
    (waitsFor[w] = "first" /\ increased) ~> waitsFor[w] # "first"
=============================================================================
