--------------------------- MODULE NativeSignatures ---------------------------
(***************************************************************************)
(* The signatures native functions may have: the code generator            *)
(* (lua_code_generator_find_signature.lua) and the dispatch to what it     *)
(* generated (LuaExtension::CallDllFunction).                              *)
(***************************************************************************)
EXTENDS Naturals, Sequences, FiniteSets

CONSTANTS
    TypeCount,      \* number of types of arguments: #cpp_argument_types
    MaxArguments,   \* max_arguments
    UseMap          \* n_use_map

ASSUME SignatureAssumption ==
    TypeCount \in Nat \ {0} /\ MaxArguments \in Nat /\ UseMap \in Nat

VARIABLE arguments   \* types of the arguments of a function that was imported

\* The types of arguments, in the order of cpp_argument_types.
Types == 1 .. TypeCount

\* The calls of traverse and those it makes: go on with the next type, or
\* prepend one more argument of the current type.
Calls == [head : Seq(Types), current : Seq(Types), index : Types, create : BOOLEAN]
NextType(c) ==
    [head |-> c.head \o c.current, current |-> <<>>, index |-> c.index + 1,
     create |-> FALSE]
PrependWithoutHead(c) ==   \* mutant: the arguments of other types are lost
    [head |-> <<>>, current |-> <<c.index>> \o c.current, index |-> c.index,
     create |-> TRUE]
Prepend(c) ==
    [head |-> c.head, current |-> <<c.index>> \o c.current, index |-> c.index,
     create |-> TRUE]

\* The lists of arguments for which a call generates code, in order; t is
\* traverse itself.
Traversed(t, c) ==
    LET total == c.head \o c.current
        more == Len(total) < MaxArguments
    IN  (IF c.create THEN <<total>> ELSE <<>>)
          \o ((IF more /\ c.index < TypeCount THEN t[NextType(c)] ELSE <<>>)
          \o (IF more /\ Len(c.current) < MaxArguments THEN t[Prepend(c)] ELSE <<>>))
traverse[c \in Calls] == Traversed(traverse, c)

Generated ==
    traverse[[head |-> <<>>, current |-> <<>>, index |-> 1, create |-> TRUE]]

\* create_code writes short lists to the map and the others to the if-chain;
\* CallDllFunction looks into the map first.
InMap == {i \in 1 .. Len(Generated) : Len(Generated[i]) <= UseMap}
InIfChain == 1 .. Len(Generated) \ InMap
FindSignature(list) ==
    LET places == {i \in InMap : Generated[i] = list} IN
    IF places # {} THEN places
                   ELSE {i \in InIfChain : Generated[i] = list}

\* A function keeps the signature of its import however often it is called.
SignaturesInit == arguments \in Seq(Types)
SignaturesSpec == SignaturesInit /\ [][UNCHANGED arguments]_arguments

\* Code is generated for the lists whose types are in order, not longer than
\* the limit.
Ordered(list) == \A i, j \in 1 .. Len(list) : i < j => list[i] <= list[j]
Supported(list) == Len(list) <= MaxArguments /\ Ordered(list)

\* Every list of at most MaxArguments types in the order of the generator is
\* found exactly once, in the map or in the if-chain, and no other list is
\* (lua_code_generator_find_signature.lua:129-148, lua_extension.cpp:369-404).
SignatureFoundOnce ==
    Cardinality(FindSignature(arguments)) = IF Supported(arguments) THEN 1 ELSE 0
==============================================================================
