------------------------------ MODULE MCContent ------------------------------
(***************************************************************************)
(* What is carried from one place to another in the instances for TLC, in  *)
(* messages and in archives.                                               *)
(***************************************************************************)
EXTENDS MessageTables, Transfers, TLC

\* A number with more than 14 digits, printed as a key with six of them, and
\* one that is printed as something that does not read as a number.
NumeralsOf ==
    "1" :> "one" @@ "16" :> "sixteen" @@ "0x10" :> "sixteen" @@ "0xb0" :> "b0"
      @@ "176" :> "b0" @@ "3.14159" :> "short"
SpelledOf ==
    "zero" :> "0" @@ "one" :> "1" @@ "sixteen" :> "16" @@ "b0" :> "176"
      @@ "pi" :> "3.14159" @@ "digits" :> "3.14159" @@ "short" :> "3.14159"
      @@ "inf" :> "inf"
RoundedOf ==
    [n \in DOMAIN SpelledOf |->
       CASE n = "pi" -> "digits" [] n = "inf" -> "zero" [] OTHER -> n]

AgentOfMessage == [m \in Messages |-> IF m = "ask" THEN "server" ELSE "client"]
NoDefault == Empty
DefaultValue == [data |-> (<<"default">> :> <<"number", "digits">>), subs |-> {}]
DefaultTable == [data |-> <<>>, subs |-> {<<"default">>}]
DefaultsOf ==
    [m \in Messages |->
       IF m = "ask" THEN "size" :> DefaultValue @@ "image" :> NoDefault
                         @@ "options" :> DefaultTable
                    ELSE <<>>]

Entry(path, v) == Strings(path) :> v
Under(path, kind, content, v) == Append(Strings(path), [kind |-> kind, content |-> content]) :> v
Image(v) == Entry(<<"image">>, v)
ReplyTo(agent, message) ==
    Entry(<<"reply_to">>, Table) @@ Entry(<<"reply_to", "message">>, Text(message))
      @@ (IF agent = "" THEN <<>> ELSE Entry(<<"reply_to", "agent">>, Text(agent)))
Merging ==
    Entry(<<"reply_to", "merge">>, Table)
      @@ Entry(<<"reply_to", "merge", "size">>, <<"integer", "merged">>)
MergingOriginal ==
    Entry(<<"reply_to", "merge">>, Table)
      @@ Entry(<<"reply_to", "merge", "original_message">>, Table)
      @@ Entry(<<"reply_to", "merge", "original_message", "message_name">>, Text("merged"))
Older ==
    Entry(<<"original_message">>, Table) @@ Entry(Original, Table)
      @@ Entry(Append(Original, "older"), Table)
      @@ Entry(Original \o <<"older", "size">>, <<"boolean", "true">>)
\* A list, the keys of which meet those of other kinds.
List ==
    Image(Table)
      @@ Under(<<"image">>, "integer", "1", Text("first"))
      @@ Under(<<"image">>, "string", "1", Text("named"))
      @@ Under(<<"image">>, "boolean", "true", Table)
      @@ Under(<<"image">>, "boolean", "false", Text("last"))
Numbered ==
    Image(Table)
      @@ Under(<<"image">>, "number", "pi", Text("pi"))
      @@ Under(<<"image">>, "number", "inf", <<"number", "inf">>)
      @@ Under(<<"image">>, "string", "0xb0", Text("0xb0"))
      @@ Under(<<"image">>, "string", "size", <<"number", "pi">>)
Nested ==
    Image(Table) @@ Entry(<<"image", "older">>, Table)
      @@ Entry(<<"image", "older", "size">>, <<"number", "digits">>)
Failed == Entry(<<"error">>, Text("error"))

ScriptTables ==
    { Image(Text("16")) @@ ReplyTo("client", "answer"),
      Image(Text("0xb0")) @@ ReplyTo("", "ask") @@ Merging,
      Image(<<"boolean", "true">>) @@ Entry(<<"size">>, <<"number", "one">>) @@ Older
        @@ ReplyTo("server", "ask"),
      Image(Text("given")) @@ ReplyTo("server", "ask") @@ MergingOriginal,
      Image(<<"integer", "1">>) @@ Entry(<<"options">>, Text("given"))
        @@ Entry(<<"reply_to">>, Text("none")),
      List @@ ReplyTo("client", "answer"), Numbered @@ ReplyTo("client", "answer"),
      Nested @@ ReplyTo("", "ask"), Failed }

UrlsToTry == [labels : 1 .. 3, path : BOOLEAN, port : {"", "443"}, https : BOOLEAN]
==============================================================================
