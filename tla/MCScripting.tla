----------------------------- MODULE MCScripting -----------------------------
(***************************************************************************)
(* Instances for TLC of the parts that scripts are made of and of what is  *)
(* carried between them. The parts have no state in common: a behaviour    *)
(* follows one of them.                                                    *)
(***************************************************************************)
EXTENDS ScriptThreads, MemoryCells, NativeSignatures, MCContent

CONSTANTS app, handler, main, plugin, replica, f, short, lib, own, other

VARIABLE
    part   \* the part that a behaviour follows

HandlesOf == {<<handler, plugin>>, <<handler, replica>>}
DirectoryOfState == [s \in States |-> IF s = main THEN other ELSE own]
\* Only "lib" and the short name is the name of a library.
LibrariesOf == [d \in Directories |-> {lib}]
PrefixedOf == [l \in Libraries |-> IF l = short THEN lib ELSE None]
NamedAfter == {<<own, lib>>}
Order == <<other, own>>

Poked == {-3, 0, 1, 3, 6}

\* Lists too long for the generator as well.
ArgumentLists == UNION {[1 .. n -> Types] : n \in 0 .. MaxArguments + 1}

Init ==
    /\ ScriptInit /\ MemoryInit /\ TablesInit /\ TransfersInit
    /\ part \in {"scripts", "memory", "signatures", "tables", "transfers"}
    /\ arguments \in IF part = "signatures" THEN ArgumentLists ELSE {<<>>}

Next ==
    \/ /\ part = "scripts" /\ ScriptNext
       /\ UNCHANGED <<memoryVars, tableVars, transferVars, part, arguments>>
    \/ /\ part = "memory" /\ MemoryNext
       /\ UNCHANGED <<scriptVars, tableVars, transferVars, part, arguments>>
    \/ /\ part = "tables" /\ TablesNext
       /\ UNCHANGED <<scriptVars, memoryVars, transferVars, part, arguments>>
    \/ /\ part = "transfers" /\ TransfersNext
       /\ UNCHANGED <<scriptVars, memoryVars, tableVars, part, arguments>>

vars == <<scriptVars, memoryVars, tableVars, transferVars, part, arguments>>
Spec == Init /\ [][Next]_vars
==============================================================================
