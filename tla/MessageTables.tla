---------------------------- MODULE MessageTables ----------------------------
(***************************************************************************)
(* What a message carries on its way from script to script: conversion of  *)
(* Lua tables (lua.cpp), default parameters (agent_message.cpp), reply_to, *)
(* merge and original_message (lua_table.cpp, message.cpp).  One message   *)
(* and the replies that it leads to are followed; queues and threads are   *)
(* the subject of AgentMessaging.                                          *)
(*                                                                         *)
(* A nested table is a function from paths, sequences of keys, to values.  *)
(***************************************************************************)
EXTENDS Naturals, Sequences

CONSTANTS
    Keys,        \* keys of LuaTables: strings
    Numerals,    \* strings that read as numbers, with the number they read as
    Spelled,     \* numbers, with the string cbeam makes of them
    Rounded,     \* numbers, with what 14 digits of them read as
    Addresses,   \* strings that are addresses of known buffers
    Messages,    \* names of messages
    AgentOf,     \* the agent that declares a message
    Defaults,    \* for a message, the parameters described and their defaults
    Tables,      \* Lua tables that scripts send or return
    MaxReplies   \* replies that are followed

\* A value is a kind and a content, as is a key of a Lua table; or it is a
\* table, with more entries below it. The keys of a LuaTable are strings; it
\* keeps data and sub_tables apart and may hold both under the same key.
Table == <<"table", "">>
Text(content) == <<"string", content>>
Empty == [data |-> <<>>, subs |-> {}]
Numbers == DOMAIN Spelled

IsPair(v) == v = <<v[1], v[2]>>
IsNumber(v) == v[1] = "number" => v[2] \in Numbers
IsPath(p) == p \in Seq(Keys) /\ p # <<>>
LuaKeys == [kind : {"string", "integer", "boolean"}, content : Keys]
             \cup [kind : {"number"}, content : Numbers]
IsLuaPath(p) == p \in Seq(LuaKeys) /\ p # <<>>
Parent(p) == SubSeq(p, 1, Len(p) - 1)
\* An entry of a nested table has the tables it is in above it.
IsLua(lua) ==
    \A p \in DOMAIN lua :
        /\ IsLuaPath(p) /\ IsPair(lua[p]) /\ IsNumber(lua[p])
        /\ lua[p][1] = "table" => lua[p] = Table
        /\ lua[p][1] # "pointer"
        /\ \A n \in 1 .. Len(p) - 1 :
              SubSeq(p, 1, n) \in DOMAIN lua /\ lua[SubSeq(p, 1, n)] = Table
IsValue(v) == IsPair(v) /\ IsNumber(v) /\ v[1] # "table"
IsTable(t) ==
    /\ t = [data |-> [p \in DOMAIN t.data |-> t.data[p]], subs |-> t.subs]
    /\ \A p \in DOMAIN t.data : IsPath(p) /\ IsValue(t.data[p])
    /\ \A p \in t.subs : IsPath(p)

\* Defaults come from the table of addmessage, which has been converted. What
\* a number was printed as prints the same, read back, and what has been
\* rounded is not rounded again.
ASSUME TableAssumption ==
    /\ {"reply_to", "agent", "message", "merge", "0", "1",
        "original_message", "message_name", "parameters"} \subseteq Keys
    /\ Numerals \in [DOMAIN Numerals -> Numbers] /\ Addresses \subseteq DOMAIN Numerals
    /\ Spelled \in [Numbers -> Keys] /\ Rounded \in [Numbers -> Numbers]
    /\ \A n \in Numbers :
          /\ Rounded[Rounded[n]] = Rounded[n]
          /\ Spelled[n] \in DOMAIN Numerals => Spelled[Numerals[Spelled[n]]] = Spelled[n]
    /\ AgentOf \in [Messages -> STRING] /\ MaxReplies \in Nat
    /\ \A n \in Messages : \A k \in DOMAIN Defaults[n] : k \in Keys /\ IsTable(Defaults[n][k])
    /\ \A lua \in Tables : IsLua(lua)

VARIABLES
    place,      \* where the message is
    name,       \* its name
    carried,    \* its parameters
    received,   \* the Lua table its function was called with
    given,      \* history: the Lua table that a script sent or returned
    question,   \* history: what the message replies to
    replies     \* number of replies so far

tableVars == <<place, name, carried, received, given, question, replies>>

(***************************************************************************)
(* Conversion                                                              *)
(***************************************************************************)
\* All keys become strings, numbers and strings that read as numbers by way
\* of a number.
Key(k) ==
    CASE k.kind = "number" -> Spelled[k.content]
      [] k.kind = "boolean" -> IF k.content = "true" THEN "1" ELSE "0"
      [] k.kind = "string" /\ k.content \in DOMAIN Numerals -> Spelled[Numerals[k.content]]
      [] OTHER -> k.content
Names(p) == [i \in DOMAIN p |-> Key(p[i])]
Strings(p) == [i \in DOMAIN p |-> [kind |-> "string", content |-> p[i]]]
Contents(p) == [i \in DOMAIN p |-> p[i].content]

\* A string that reads as a number becomes one; if it is the address of a
\* known buffer it becomes a pointer, and a pointer becomes such a string. A
\* number is printed with 14 digits and read back.
ToValue(v) ==
    CASE v[1] = "string" /\ v[2] \in Addresses -> <<"pointer", v[2]>>
      [] v[1] = "string" /\ v[2] \in DOMAIN Numerals \ Addresses -> <<"number", Numerals[v[2]]>>
      [] v[1] = "number" -> <<"number", Rounded[v[2]]>>
      [] OTHER -> v
PushValueAsNumber(v) == IF v[1] = "pointer" THEN <<"integer", v[2]>> ELSE v   \* mutant
PushValue(v) == IF v[1] = "pointer" THEN Text(v[2]) ELSE v

\* Entries of one table whose keys become the same string. Of the values
\* among them one is kept, and of the tables one: the last one in an order
\* that Lua does not define.
Twins(lua, p) == {q \in DOMAIN lua : /\ Len(q) = Len(p) /\ Parent(q) = Parent(p)
                                      /\ Key(q[Len(q)]) = Key(p[Len(p)])}
Rivals(lua, p) == {q \in Twins(lua, p) : lua[q] = Table <=> lua[p] = Table}
Contested(lua) == {p \in DOMAIN lua : Rivals(lua, p) # {p}}
Winners(lua) ==
    {W \in SUBSET Contested(lua) :
        \A p \in Contested(lua) : \E q \in DOMAIN lua : W \cap Rivals(lua, p) = {q}}
Kept(lua, W) ==
    {p \in DOMAIN lua : \A n \in 1 .. Len(p) : SubSeq(p, 1, n) \notin Contested(lua) \ W}

Converted(lua, W) ==
    LET kept == Kept(lua, W)
        values == {p \in kept : lua[p] # Table}
        named(n) == CHOOSE p \in values : Names(p) = n
    IN  [data |-> [n \in {Names(p) : p \in values} |-> ToValue(lua[named(n)])],
         subs |-> {Names(p) : p \in kept \ values}]
LuaToTable(lua) == {Converted(lua, W) : W \in Winners(lua)}

\* The values are pushed first: a sub-table takes the place of a value.
PushTable(t) ==
    [p \in {Strings(n) : n \in DOMAIN t.data \cup t.subs} |->
        IF Contents(p) \in t.subs THEN Table ELSE PushValue(t.data[Contents(p)])]

(***************************************************************************)
(* Tables within a LuaTable                                                *)
(***************************************************************************)
Below(prefix, p) == Len(p) > Len(prefix) /\ SubSeq(p, 1, Len(prefix)) = prefix
Rest(prefix, p) == SubSeq(p, Len(prefix) + 1, Len(p))
SubTable(t, prefix) ==
    [data |-> [r \in {Rest(prefix, p) : p \in {d \in DOMAIN t.data : Below(prefix, d)}}
                 |-> t.data[prefix \o r]],
     subs |-> {Rest(prefix, p) : p \in {s \in t.subs : Below(prefix, s)}}]
Put(t, p, v) ==
    [data |-> [q \in DOMAIN t.data \cup {p} |-> IF q = p THEN v ELSE t.data[q]],
     subs |-> t.subs \cup {SubSeq(p, 1, n) : n \in 1 .. Len(p) - 1}]
Without(t, prefix) ==
    [data |-> [p \in {d \in DOMAIN t.data : ~Below(prefix, d)} |-> t.data[p]],
     subs |-> {s \in t.subs : ~Below(prefix, s)}]
\* Two tables in one; a value of the second one overwrites that of the first.
Merge(t, u) ==
    [data |-> [p \in DOMAIN t.data \cup DOMAIN u.data |->
                 IF p \in DOMAIN u.data THEN u.data[p] ELSE t.data[p]],
     subs |-> t.subs \cup u.subs]
Move(t, prefix) ==
    [data |-> [p \in {prefix \o d : d \in DOMAIN t.data} |-> t.data[Rest(prefix, p)]],
     subs |-> {prefix \o s : s \in t.subs}
                \cup {SubSeq(prefix, 1, n) : n \in 1 .. Len(prefix)}]

(***************************************************************************)
(* reply_to and original_message                                           *)
(***************************************************************************)
OrEmpty(t, p) == IF p \in DOMAIN t.data /\ t.data[p][1] = "string" THEN t.data[p][2] ELSE ""
GetReplyToAgentNameOrEmpty(t) == OrEmpty(t, <<"reply_to", "agent">>)
GetReplyToMessageNameOrEmpty(t) == OrEmpty(t, <<"reply_to", "message">>)
GetTableToMergeWhenReplyingOrEmpty(t) == SubTable(t, <<"reply_to", "merge">>)
SetReplyToAgentName(t, agent) == Put(t, <<"reply_to", "agent">>, Text(agent))

Original == <<"original_message", "parameters">>
GetOriginalMessageNameOrEmpty(t) == OrEmpty(t, <<"original_message", "message_name">>)
GetOriginalMessageParametersOrEmpty(t) == SubTable(t, Original)
\* Mutant: parameters of an earlier message that are there already stay.
AddOriginalMessage(t, n, parameters) ==
    Merge(Put(t, <<"original_message", "message_name">>, Text(n)), Move(parameters, Original))
SetOriginalMessage(t, n, parameters) ==
    Merge(Put(Without(t, Original), <<"original_message", "message_name">>, Text(n)),
          Move(parameters, Original))

(***************************************************************************)
(* AgentMessage::Send                                                      *)
(***************************************************************************)
\* The contents of default tables are left out.
DefaultValues(n, keys) ==
    [data |-> [p \in {<<k>> : k \in {d \in keys : <<"default">> \in DOMAIN Defaults[n][d].data}}
                 |-> Defaults[n][p[1]].data[<<"default">>]],
     subs |-> {}]
DefaultTables(n, keys) ==
    [data |-> <<>>,
     subs |-> {<<k>> : k \in {d \in keys : <<"default">> \in Defaults[n][d].subs}}]
Overwrite(n, t) ==   \* mutant: defaults replace what was given
    LET described == DOMAIN Defaults[n]
    IN  Merge(Merge(t, DefaultValues(n, described)), DefaultTables(n, described))
\* A default value and a default table are added each on its own.
AddDefaultParameterValues(n, t) ==
    LET unset(paths) == {k \in DOMAIN Defaults[n] : <<k>> \notin paths}
    IN  Merge(Merge(t, DefaultValues(n, unset(DOMAIN t.data))), DefaultTables(n, unset(t.subs)))
Validate(n, t) == \A k \in DOMAIN Defaults[n] : <<k>> \in DOMAIN t.data \cup t.subs

SendTo(n, t) ==
    LET complete == AddDefaultParameterValues(n, t) IN
    /\ Validate(n, complete)
    /\ name' = n /\ carried' = complete
    /\ place' = "queue"

(***************************************************************************)
(* The way of a message                                                    *)
(***************************************************************************)
TablesInit ==
    /\ place = "script" /\ name = "" /\ question = [name |-> "", parameters |-> Empty]
    /\ carried = Empty /\ given = <<>> /\ received = <<>> /\ replies = 0

\* send: without an agent to reply to, the reply goes to the receiver.
Send(n, lua) ==
    /\ place = "script"
    /\ \E t \in LuaToTable(lua) :
         SendTo(n, IF GetReplyToAgentNameOrEmpty(t) = ""
                   THEN SetReplyToAgentName(t, AgentOf[n]) ELSE t)
    /\ given' = lua
    /\ UNCHANGED <<received, question, replies>>

Handle ==
    /\ place = "queue"
    /\ place' = "function"
    /\ received' = PushTable(carried)
    /\ UNCHANGED <<name, carried, given, question, replies>>

\* The reply goes through Send without a default for reply_to. Nothing is sent
\* without reply_to, to an unknown message, or if a parameter is missing. A
\* function that fails returns a table with nothing but an error.
Reply(lua) ==
    /\ place = "function" /\ replies < MaxReplies
    /\ \E t \in LuaToTable(lua) :
         LET result == SetOriginalMessage(t, name, carried)
             merged == Merge(result, GetTableToMergeWhenReplyingOrEmpty(carried))
             n == GetReplyToMessageNameOrEmpty(carried)
         IN  /\ n \in Messages
             /\ AgentOf[n] = GetReplyToAgentNameOrEmpty(carried)
             /\ SendTo(n, merged)
    /\ given' = lua
    /\ question' = [name |-> name, parameters |-> carried]
    /\ replies' = replies + 1
    /\ UNCHANGED received

TablesNext ==
    \/ \E n \in Messages, lua \in Tables : Send(n, lua)
    \/ Handle
    \/ \E lua \in Tables : Reply(lua)

TablesSpec == TablesInit /\ [][TablesNext]_tableVars

(***************************************************************************)
(* Properties                                                              *)
(***************************************************************************)
\* Entries of which documentation and code agree that they arrive: the keys
\* are strings that read as nothing else, neither they nor a table that they
\* are in share their name with another entry, and the value is not changed
\* by a conversion.
PlainKey(k) == k.kind = "string" /\ k.content \notin DOMAIN Numerals
PlainValue(v) ==
    CASE v[1] = "string" -> v[2] \in Addresses \/ v[2] \notin DOMAIN Numerals
      [] v[1] = "number" -> Rounded[v[2]] = v[2]
      [] OTHER -> TRUE
Plain(lua, p) ==
    /\ \A i \in 1 .. Len(p) : PlainKey(p[i])
    /\ \A n \in 1 .. Len(p), q \in DOMAIN lua :
          Names(q) = Names(SubSeq(p, 1, n)) => q = SubSeq(p, 1, n)
    /\ PlainValue(lua[p])

\* What the library itself enters: a table that is the default, the agent to
\* reply to if there is none, and in replies the original message and what
\* the sender asked to merge.
Entered(p) ==
    LET n == Contents(p) IN
    \/ /\ n = <<n[1]>> /\ n[1] \in DOMAIN Defaults[name]
       /\ <<"default">> \in Defaults[name][n[1]].subs
    \/ replies = 0 /\ n = <<"reply_to">>
    \/ replies = 0 /\ n = <<"reply_to", "agent">> /\ given[p] \in {Text(s) : s \in Addresses \cup {""}}
    \/ replies = 0 /\ n = <<"reply_to", "agent">> /\ given[p][1] # "string"
    \/ replies > 0 /\ n[1] = "original_message"
    \/ replies > 0 /\ LET m == GetTableToMergeWhenReplyingOrEmpty(question.parameters)
                      IN  n \in DOMAIN m.data \cup m.subs

\* A plain entry of the table that a script sends or returns is in the table
\* that the function is called with, unless the library enters something
\* there: neither defaults nor other entries nor the conversions in between
\* hide or change it (agent_message.cpp:133-163, lua.cpp:389-522,
\* lua_extension.cpp:901-915, agent_thread_lua.cpp:216-221).
GivenArrives ==
    place = "function" =>
        \A p \in DOMAIN given :
            Plain(given, p) /\ ~Entered(p) =>
                p \in DOMAIN received /\ received[p] = given[p]

\* A function that is called with a reply finds the name and exactly the
\* parameters of the message that was answered, defaults included, in
\* original_message.message_name and original_message.parameters (not in
\* original_message itself, as send.md:47-48 has it), also if the answer was
\* made from parameters that held an earlier one, and whatever is merged into
\* it, unless that overwrites original_message (agent_thread_lua.cpp:216-221,
\* lua_table.cpp:50-57, message.cpp:34-63).
MergesOriginal(t) ==
    \E p \in DOMAIN t.data \cup t.subs :
        Below(<<"reply_to", "merge", "original_message">>, p)
ReplyKnowsQuestion ==
    place = "function" /\ replies > 0 /\ ~MergesOriginal(question.parameters) =>
        /\ GetOriginalMessageNameOrEmpty(carried) = question.name
        /\ GetOriginalMessageParametersOrEmpty(carried) = question.parameters

\* Sending on what was received: its keys are the same at every later hop, and
\* nothing changes any more once there are only strings that read as nothing
\* else, numbers of 14 digits, and no value and table under the same key
\* (lua.cpp:389-522).
Stable(t) == \A p \in DOMAIN t.data \cup t.subs : Names(Strings(p)) = p
SettledValue(v) ==
    CASE v[1] = "string" -> v[2] \notin DOMAIN Numerals
      [] v[1] = "pointer" -> v[2] \in Addresses
      [] v[1] = "number" -> Rounded[v[2]] = v[2]
      [] OTHER -> TRUE
Settled(t) ==
    /\ Stable(t) /\ DOMAIN t.data \cap t.subs = {}
    /\ \A p \in DOMAIN t.data : SettledValue(t.data[p])
ForwardedAsReceived ==
    place = "function" =>
        /\ Settled(carried) => LuaToTable(received) = {carried}
        /\ \A t \in LuaToTable(received) : Stable(t)

==============================================================================
