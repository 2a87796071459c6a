-------------------------- MODULE MCAgentMessaging --------------------------
(***************************************************************************)
(* Instances of AgentMessaging for TLC.                                    *)
(***************************************************************************)
EXTENDS AgentMessaging, TLC

CONSTANTS cpp, lua, c1, m1, m2, m3, m4, hcpp, h1, h2, h3

Home == [h \in Handlers |-> IF h = hcpp THEN cpp ELSE lua]
First == [a \in Agents |-> IF a = cpp THEN hcpp ELSE h1]

Message(to, threads, complete, replyTo) ==
  [to |-> to, threads |-> threads, complete |-> complete, replyTo |-> replyTo]

\* A C++ and a Lua agent that answer each other and themselves, up to three
\* threads, and everything that fails.
FailingContents ==
  {Message(lua, 3, TRUE, cpp), Message(lua, 2, TRUE, lua), Message(cpp, 0, TRUE, None),
   Message(lua, 0, FALSE, None), Message(cpp, 0, FALSE, None)}

\* A Lua agent that may replicate to three threads and answers a C++ agent.
AnswerContents ==
  {Message(lua, 3, TRUE, cpp), Message(lua, 3, TRUE, None), Message(cpp, 0, TRUE, None)}

\* Messages to one Lua agent, with and without all described parameters.
LeakContents == {Message(lua, 0, TRUE, None), Message(lua, 0, FALSE, None)}

MsgSymmetry == Permutations(Msgs)
=============================================================================
