----------------------------- MODULE MessageBus -----------------------------
(***************************************************************************)
(* What the library promises of its messages, without queues, threads and  *)
(* counters: a message that was sent is handled at most once, and a thread *)
(* that waits for the agents is let go only when no message is pending and *)
(* none is being handled ("wait until the nexuslua agents processed all    *)
(* remaining messages", agents.hpp:89).                                    *)
(***************************************************************************)
CONSTANTS Msgs, Clients

VARIABLES
  phase,    \* phase[m]: how far message m has come
  waiting   \* the threads that wait for all messages to be processed

busVars == <<phase, waiting>>

Init ==
  /\ phase = [m \in Msgs |-> "unused"]
  /\ waiting = {}

Move(m, from, to) ==
  /\ phase[m] = from
  /\ phase' = [phase EXCEPT ![m] = to]
  /\ UNCHANGED waiting

Accept(m) == Move(m, "unused", "pending")
Begin(m)  == Move(m, "pending", "handling")
Finish(m) == Move(m, "handling", "done")

\* The sender or the handler of a message fails; a reply fails with both.
Fail ==
  /\ \E S \in SUBSET {m \in Msgs : phase[m] \in {"pending", "handling"}} :
       /\ S # {}
       /\ phase' = [m \in Msgs |-> IF m \in S THEN "lost" ELSE phase[m]]
  /\ UNCHANGED waiting

Processed == \A m \in Msgs : phase[m] \notin {"pending", "handling"}

StartWaiting(c) ==
  /\ c \notin waiting
  /\ ~ (\A m \in Msgs : phase[m] \in {"unused", "done"})
  /\ waiting' = waiting \cup {c}
  /\ UNCHANGED phase

LetGo(c) ==
  /\ c \in waiting
  /\ Processed
  /\ waiting' = waiting \ {c}
  /\ UNCHANGED phase

Next ==
  \/ \E m \in Msgs : Accept(m) \/ Begin(m) \/ Finish(m)
  \/ Fail
  \/ \E c \in Clients : StartWaiting(c) \/ LetGo(c)

Spec == Init /\ [][Next]_busVars

\* No message is forgotten, and no thread waits for nothing.
FairSpec ==
  /\ Spec
  /\ \A m \in Msgs : WF_busVars(Begin(m)) /\ WF_busVars(Finish(m))
  /\ \A c \in Clients : WF_busVars(LetGo(c))
=============================================================================
