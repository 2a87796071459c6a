---------------------------- MODULE ScriptThreads ----------------------------
(***************************************************************************)
(* Lua states and the threads that run scripts in them (lua.cpp), with the *)
(* state they share: the functions imported from native libraries, the     *)
(* directories in which libraries were seen (lua_extension.cpp), and the   *)
(* handler of SIGINT.                                                      *)
(*                                                                         *)
(* A thread works on a stack of frames: a script that calls addagent runs  *)
(* the script of the new agent on the same thread, in another Lua state.   *)
(***************************************************************************)
EXTENDS Naturals, Sequences, SequencesExt

CONSTANTS
    Threads,         \* threads of the application and of handlers
    States,          \* Lua states
    Functions,       \* names of native functions
    Libraries,       \* names of libraries, without "lib" and extension
    Directories,     \* directories with scripts
    None,            \* no path, no state
    Handles,         \* handler threads and the states whose functions they call
    DirectoryOf,     \* directory of the script that runs in a state
    LibrariesIn,     \* libraries in a directory
    Prefixed,        \* a library named "lib" and this name, if there is one
    Matches,         \* directories and the libraries they are named after
    DirectoryOrder   \* the order of std::set

ASSUME ScriptAssumption ==
    /\ Handles \subseteq Threads \X States
    /\ DirectoryOf \in [States -> Directories]
    /\ LibrariesIn \in [Directories -> SUBSET Libraries]
    /\ Prefixed \in [Libraries -> Libraries \cup {None}]
    /\ Matches \subseteq Directories \X Libraries
    /\ DirectoryOrder \in Seq(Directories)
    /\ None \notin States \cup Directories \cup Libraries

\* Where a library is loaded from; the system searches when the directory
\* is None.
Paths == (Directories \cup {None}) \X Libraries

VARIABLES
    imported,     \* _importedFunction of a thread: functions and their paths
    directories,  \* _directories_of_DLL
    frames,       \* what a thread is running: scripts and message functions
    phase,        \* the life of a Lua state
    staticState,  \* _luaStaticState
    sigint,       \* what SIGINT does: "laction" or "default"
    hooking,      \* laction has reset the signal and is to set the hook
    hooked,       \* states with the hook lstop
    known,        \* history: imports made in a state, and their paths
    mixed,        \* history: threads with imports of more than one script
    thrown        \* history: states closed by an exception past lua_pcall

lookup == <<imported, directories, known, mixed>>
signals == <<staticState, sigint, hooking, hooked>>
scriptVars == <<lookup, signals, frames, phase, thrown>>

NoImports == [f \in Functions |-> None]
ScriptInit ==
    /\ imported = [t \in Threads |-> NoImports]
    /\ directories = [l \in Libraries |-> {}]
    /\ frames = [t \in Threads |-> <<>>]
    /\ phase = [s \in States |-> "new"]
    /\ staticState = None /\ sigint = "default"
    /\ hooking = FALSE /\ hooked = {}
    /\ known = [s \in States |-> NoImports] /\ mixed = {} /\ thrown = {}

Top(t) == Last(frames[t])
Runs(t, s, kind) == \E i \in 1 .. Len(frames[t]) : frames[t][i] = [state |-> s, kind |-> kind]
Running(t, kind) == frames[t] # <<>> /\ Top(t).kind = kind

(***************************************************************************)
(* Imported functions and the libraries they are in                        *)
(***************************************************************************)
ResetImportedFunctions(t) ==
    /\ imported' = [imported EXCEPT ![t] = NoImports]
    /\ mixed' = mixed \ {t}
LeaveImports(t) ==   \* history only
    /\ mixed' = mixed \cup {t}
    /\ UNCHANGED imported

StoreDirectoriesOfDlls(d) ==
    directories' = [l \in Libraries |->
                      directories[l] \cup IF l \in LibrariesIn[d] THEN {d} ELSE {}]

Candidate(lib) ==
    IF directories[lib] = {} /\ Prefixed[lib] # None /\ directories[Prefixed[lib]] # {}
    THEN Prefixed[lib] ELSE lib

\* The result as a set: none if the path is ambiguous. Among several
\* directories the one named after the library is taken, but only if it is
\* the first one in the order of the set.
IsFirst(d, dirs) ==
    \E i \in DOMAIN DirectoryOrder :
        /\ DirectoryOrder[i] = d /\ d \in dirs
        /\ \A j \in 1 .. i - 1 : DirectoryOrder[j] \notin dirs
Preferred(d, name) ==   \* by the loop over more than one directory
    /\ {e \in directories[name] : <<e, name>> \in Matches} = {d}
    /\ IsFirst(d, directories[name])
GetFirstDllPath(lib) ==   \* mutant: the first directory
    LET name == Candidate(lib) IN
    IF directories[name] = {} THEN {<<None, lib>>}
    ELSE {<<d, name>> : d \in {d \in directories[name] : IsFirst(d, directories[name])}}
GetDllPath(lib) ==
    LET name == Candidate(lib)
        found == {d \in directories[name] : directories[name] = {d} \/ Preferred(d, name)}
    IN  IF directories[name] = {} THEN {<<None, lib>>} ELSE {<<d, name>> : d \in found}

\* import: throws for an ambiguous library and for a function that the map of
\* the thread holds already; an exception leaves everything as it is.
Import(t, f, lib) ==
    /\ frames[t] # <<>>
    /\ imported[t][f] = None
    /\ \E path \in GetDllPath(lib) :
         /\ imported' = [imported EXCEPT ![t][f] = path]
         /\ known' = [known EXCEPT ![Top(t).state][f] = path]
    /\ UNCHANGED <<directories, mixed, signals, frames, phase, thrown>>

\* Where CallDllFunction looks for a function: None means that it throws.
GetImportedFunction(t, f) == imported[t][f]

(***************************************************************************)
(* Scripts                                                                 *)
(***************************************************************************)
\* Lua::Run: the directory of the script is searched for libraries, and the
\* state becomes the one that SIGINT is to interrupt.
Run(t, s) ==
    /\ phase[s] = "new"
    /\ phase' = [phase EXCEPT ![s] = "running"]
    /\ frames' = [frames EXCEPT ![t] = Append(@, [state |-> s, kind |-> "script"])]
    /\ StoreDirectoriesOfDlls(DirectoryOf[s])
    /\ staticState' = s /\ sigint' = "laction"
    /\ mixed' = IF frames[t] = <<>> THEN mixed ELSE mixed \cup {t}
    /\ UNCHANGED <<imported, known, hooking, hooked, thrown>>

\* lua_pcall has returned without an error.
RunEndsUnnoticed(t) ==   \* mutant: SIGINT is not reset
    /\ Running(t, "script")
    /\ phase' = [phase EXCEPT ![Top(t).state] = "ready"]
    /\ frames' = [frames EXCEPT ![t] = Front(@)]
    /\ LeaveImports(t)
    /\ UNCHANGED <<signals, directories, known, thrown>>
RunEnds(t) ==
    /\ Running(t, "script")
    /\ phase' = [phase EXCEPT ![Top(t).state] = "ready"]
    /\ frames' = [frames EXCEPT ![t] = Front(@)]
    /\ sigint' = "default"
    /\ LeaveImports(t)
    /\ UNCHANGED <<staticState, hooking, hooked, directories, known, thrown>>

\* A script fails. The exception closes its state, and those of the scripts
\* that called addagent, up to a handler of exceptions: that of a message, the
\* scan for plugins, or the application. lua_pcall returns the errors of Lua,
\* and SIGINT is reset before Run throws; an exception of a C++ function that
\* the script has called passes lua_pcall, as Lua is compiled as C.
Unwound(t, n) == {frames[t][i].state : i \in {i \in n + 1 .. Len(frames[t]) : frames[t][i].kind = "script"}}
Unwind(t, n) ==
    /\ phase' = [s \in States |-> IF s \in Unwound(t, n) THEN "closed" ELSE phase[s]]
    /\ frames' = [frames EXCEPT ![t] = SubSeq(@, 1, n)]
    /\ LeaveImports(t)
RunFails(t) ==
    /\ Running(t, "script")
    /\ \E n \in 0 .. Len(frames[t]) - 1 :
         /\ Unwind(t, n)
         /\ \/ sigint' = "default" /\ UNCHANGED thrown
            \/ thrown' = thrown \cup Unwound(t, n) /\ UNCHANGED sigint
    /\ UNCHANGED <<staticState, hooking, hooked, directories, known>>

\* luaL_loadstring or luaL_loadfile fails, or the file is missing.
LoadFails(s) ==
    /\ phase[s] = "new"
    /\ phase' = [phase EXCEPT ![s] = "closed"]
    /\ UNCHANGED <<lookup, signals, frames, thrown>>

\* Lua::RunPlugin, called by a handler or by the builder of a replica.
RunPlugin(t, s) ==
    /\ frames[t] = <<>> /\ <<t, s>> \in Handles /\ phase[s] = "ready"
    /\ \A u \in Threads : ~Runs(u, s, "message")   \* _luaStateMutex
    /\ ResetImportedFunctions(t)
    /\ frames' = [frames EXCEPT ![t] = <<[state |-> s, kind |-> "message"]>>]
    /\ UNCHANGED <<signals, directories, known, phase, thrown>>

RunPluginReturnsAsIs(t) ==   \* mutant: the imports are not reset
    /\ Running(t, "message")
    /\ frames' = [frames EXCEPT ![t] = <<>>]
    /\ mixed' = mixed \ {t}
    /\ UNCHANGED <<imported, signals, directories, known, phase, thrown>>
RunPluginReturns(t) ==
    /\ Running(t, "message")
    /\ frames' = [frames EXCEPT ![t] = <<>>]
    /\ ResetImportedFunctions(t)
    /\ UNCHANGED <<signals, directories, known, phase, thrown>>

\* An exception passes the second reset by.
RunPluginFails(t) ==
    /\ Running(t, "message")
    /\ frames' = [frames EXCEPT ![t] = <<>>]
    /\ LeaveImports(t)
    /\ UNCHANGED <<signals, directories, known, phase, thrown>>

\* The agent is destroyed, and its state closed, when nothing runs in it.
Close(s) ==
    /\ phase[s] = "ready"
    /\ \A t \in Threads : ~Runs(t, s, "message")
    /\ phase' = [phase EXCEPT ![s] = "closed"]
    /\ UNCHANGED <<lookup, signals, frames, thrown>>

(***************************************************************************)
(* SIGINT                                                                  *)
(***************************************************************************)
\* laction runs on any thread, between any two steps of the scripts: it
\* resets the signal, and then hooks the state that is the current one.
InterruptAtAnyTime ==   \* mutant: also before there is a script
    /\ sigint' = "default"
    /\ hooking' = TRUE
    /\ UNCHANGED <<lookup, staticState, hooked, frames, phase, thrown>>
Interrupt ==
    /\ sigint = "laction"
    /\ sigint' = "default"
    /\ hooking' = TRUE
    /\ UNCHANGED <<lookup, staticState, hooked, frames, phase, thrown>>

SetHook ==
    /\ hooking
    /\ hooking' = FALSE
    /\ hooked' = hooked \cup {staticState}
    /\ UNCHANGED <<lookup, staticState, sigint, frames, phase, thrown>>

\* lstop: the error may be caught by the script, or end it (RunFails).
Interrupted(t) ==
    /\ frames[t] # <<>> /\ Top(t).state \in hooked
    /\ hooked' = hooked \ {Top(t).state}
    /\ UNCHANGED <<lookup, staticState, sigint, hooking, frames, phase, thrown>>

ScriptStep(t) ==
    \/ \E f \in Functions, lib \in Libraries : Import(t, f, lib)
    \/ \E s \in States : Run(t, s) \/ RunPlugin(t, s)
    \/ RunEnds(t) \/ RunFails(t) \/ RunPluginReturns(t) \/ RunPluginFails(t) \/ Interrupted(t)
ScriptNext ==
    \/ \E t \in Threads : ScriptStep(t)
    \/ \E s \in States : LoadFails(s) \/ Close(s)
    \/ Interrupt \/ SetHook

ScriptSpec == ScriptInit /\ [][ScriptNext]_scriptVars

(***************************************************************************)
(* Properties                                                              *)
(***************************************************************************)
Kinds == {"script", "message"}
ScriptTypeOK ==
    /\ imported \in [Threads -> [Functions -> Paths \cup {None}]]
    /\ directories \in [Libraries -> SUBSET Directories]
    /\ frames \in [Threads -> Seq([state : States, kind : Kinds])]
    /\ phase \in [States -> {"new", "running", "ready", "closed"}]
    /\ staticState \in States \cup {None} /\ sigint \in {"laction", "default"}
    /\ hooking \in BOOLEAN /\ hooked \subseteq States
    /\ known \in [States -> [Functions -> Paths \cup {None}]]
    /\ mixed \subseteq Threads /\ thrown \subseteq States

\* The handler of SIGINT outlives the script it would interrupt only if that
\* was ended by an exception that passed lua_pcall: a script that returns, or
\* fails with an error of Lua, never leaves it behind, however many threads run
\* scripts and however they are nested (lua.cpp:171-194; the handler of another
\* script may be gone, though).
OnlyExceptionsKeepHandler ==
    sigint = "laction" =>
        staticState \in thrown \/ \E t \in Threads : Runs(t, staticState, "script")

\* A script calls only what it has imported itself, from the library it was
\* imported from, and no import of its own is refused because of another
\* script, as long as no other script has run on its thread and no message
\* function failed there since the imports were reset: in particular replicas
\* and messages find nothing left of earlier ones (lua.cpp:318-356,
\* lua_extension.cpp:157-213).
CallsWhatItImported ==
    \A t \in Threads, f \in Functions :
        frames[t] # <<>> /\ t \notin mixed /\ GetImportedFunction(t, f) # None
            => known[Top(t).state][f] = GetImportedFunction(t, f)

\* A library found in the directory that is named after it is never found
\* elsewhere later: further directories only make it ambiguous
\* (lua_extension.cpp:277-336).
LibraryStays ==
    [][\A lib \in Libraries : \A path \in GetDllPath(lib) :
         path \in Matches /\ Candidate(lib)' = Candidate(lib)
            => GetDllPath(lib)' \subseteq {path}]_scriptVars
==============================================================================
