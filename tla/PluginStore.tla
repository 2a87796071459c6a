----------------------------- MODULE PluginStore -----------------------------
(***************************************************************************)
(* The folders of installed plugins and the map of plugins that class      *)
(* agents keeps of them (agents.cpp, agent_plugin.cpp, plugin_spec.cpp).   *)
(*                                                                         *)
(* A thread works on a stack of frames, because a scan runs the scripts of *)
(* the plugins it finds: a script that sends a message scans again, and a  *)
(* script may call install. Every file operation may fail, and the process *)
(* may end at any time.                                                    *)
(***************************************************************************)
EXTENDS Naturals, FiniteSets, Sequences, SequencesExt

CONSTANTS
    Plugins,         \* names of plugins; also the names of their folders
    Threads,         \* application and handler threads
    Owner,           \* the thread of the application
    Versions,        \* versions that a nexuslua_plugin.toml may state
    Contents,        \* contents of the user data of a plugin
    None,            \* no folder, no version, no user data, no plugin
    Talkative,       \* plugins whose main.lua may send a message
    Writers,         \* plugins that store user data
    Sources,         \* versions in the folders scripts and users install from
    MaxDepth         \* nested scans the stack of a thread has room for

\* What is in a folder: a nexuslua_plugin.toml that names the folder, and user
\* data in the subfolder "persistent". A missing, broken or foreign toml makes
\* the constructor of AgentPlugin throw; a missing main.lua is one of the
\* reasons for which PluginFails.
Folder == [toml: Versions \cup {None}, data: Contents \cup {None}]
EmptyFolder == [toml |-> None, data |-> None]

ASSUME StoreAssumption ==
    /\ Owner \in Threads /\ Talkative \subseteq Plugins /\ Writers \subseteq Plugins
    /\ Sources \subseteq Versions
    /\ None \notin Versions \cup Contents \cup Folder

\* A PluginSpec: url tells whether it has a download URL.
PluginSpec == [online: Versions \cup {None}, installed: Versions \cup {None},
               url: BOOLEAN]
SpecOnDisk(v) == [online |-> None, installed |-> v, url |-> FALSE]

VARIABLES
    folder,     \* plugins/<name> in the user data directory
    backups,    \* plugins and user data in the backups that uninstalling has
                \* left in temporary directories
    listed,     \* _plugins: version of the AgentPlugin object, or None
    scanned,    \* _scannedPlugins
    stack,      \* frames of the calls a thread is inside of
    newest,     \* history: what a plugin stored last
    risked,     \* history: plugins of which it was stored while a call worked on
                \* the folder, or another backup was restored over it
    overlapped  \* history: two threads were inside the store at once

disk == <<folder, backups>>
memory == <<listed, scanned>>
user == <<newest, risked>>
storeVars == <<disk, memory, stack, user, overlapped>>

StoreInit ==
    /\ folder \in [Plugins -> {None} \cup [toml: Versions \cup {None}, data: {None}]]
    /\ backups = {}
    /\ listed = [n \in Plugins |-> None]
    /\ scanned = FALSE
    /\ stack = [t \in Threads |-> <<>>]
    /\ newest = [n \in Plugins |-> None]
    /\ risked = {}
    /\ overlapped = FALSE

Idle(t) == stack[t] = <<>>
Top(t) == Last(stack[t])
At(t, place) == ~Idle(t) /\ Top(t).at = place
FramesOf(t) == {stack[t][i] : i \in 1 .. Len(stack[t])}

Frames(t, frames) == stack' = [stack EXCEPT ![t] = frames]
Push(t, frame) == Frames(t, Append(stack[t], frame))
Goto(t, frame) == Frames(t, Append(Front(stack[t]), frame))
Return(t) == Frames(t, Front(stack[t]))
\* An exception leaves all calls: Lua is compiled as C, so that the pcall of a
\* script further down does not catch it.
Throw(t) == Frames(t, <<>>)

\* The maps have no lock: a thread that enters while another one is inside
\* races with it.
Enter(t) == overlapped' = (overlapped \/ \E u \in Threads \ {t} : ~Idle(u))

(***************************************************************************)
(* agents::GetPlugins                                                      *)
(***************************************************************************)
Folders == {n \in Plugins : folder[n] # None}
ScanFrame == [at |-> "scan", todo |-> Folders, found |-> Folders]

GetPlugins(t) ==
    /\ Idle(t)
    /\ ~scanned
    /\ Enter(t)
    /\ Push(t, ScanFrame)
    /\ UNCHANGED <<disk, memory, user>>

\* The constructor of AgentPlugin reads the specification and compares the
\* folder it names with the one it is in; then the name must not be in use.
ConstructibleAnyway(n) == folder[n] # None   \* mutant: does not read the toml
Constructible(n) == folder[n] # None /\ folder[n].toml # None
StartFrame(n) == [at |-> "start", name |-> n, version |-> folder[n].toml]
ScanNextOrSkip(t) ==   \* mutant: passes over what is not a plugin
    /\ At(t, "scan")
    /\ \E n \in Top(t).todo :
         LET rest == [Top(t) EXCEPT !.todo = @ \ {n}] IN
         IF Constructible(n) /\ listed[n] = None
         THEN Frames(t, Front(stack[t]) \o <<rest, StartFrame(n)>>)
         ELSE Goto(t, rest)
    /\ UNCHANGED <<disk, memory, user, overlapped>>
ScanNext(t) ==
    /\ At(t, "scan")
    /\ \E n \in Top(t).todo :   \* the file system lists folders in any order
         LET rest == [Top(t) EXCEPT !.todo = @ \ {n}] IN
         IF Constructible(n) /\ listed[n] = None
         THEN Frames(t, Front(stack[t]) \o <<rest, StartFrame(n)>>)
         ELSE Throw(t)
    /\ UNCHANGED <<disk, memory, user, overlapped>>

\* plugin->Start() ran main.lua; only then the plugin enters the map.
PluginStarts(t) ==
    /\ At(t, "start")
    /\ listed' = [listed EXCEPT ![Top(t).name] = Top(t).version]
    /\ Return(t)
    /\ UNCHANGED <<disk, scanned, user, overlapped>>

\* main.lua is missing or fails.
PluginFails(t) ==
    /\ At(t, "start")
    /\ Throw(t)
    /\ UNCHANGED <<disk, memory, user, overlapped>>

\* main.lua sends: agents::GetMessage asks for the plugins, whose scan is not
\* complete, so that it begins once more, inside of the first one.
PluginSends(t) ==
    /\ At(t, "start")
    /\ Top(t).name \in Talkative /\ ~scanned
    /\ Cardinality({k \in 1 .. Len(stack[t]) : stack[t][k].at = "start"}) <= MaxDepth
    /\ Push(t, ScanFrame)
    /\ UNCHANGED <<disk, memory, user, overlapped>>

ScanEnds(t) ==
    /\ At(t, "scan")
    /\ Top(t).todo = {}
    /\ scanned' = TRUE
    /\ Return(t)
    /\ UNCHANGED <<disk, listed, user, overlapped>>

InvalidatePluginScan(t) ==
    /\ t = Owner /\ Idle(t)
    /\ Enter(t)
    /\ scanned' = FALSE
    /\ listed' = [n \in Plugins |-> None]
    /\ UNCHANGED <<disk, stack, user>>

(***************************************************************************)
(* agents::InstallPlugin                                                   *)
(***************************************************************************)
\* PluginSpec::operator==
SameSpec(a, b) ==
    /\ \/ a.online = b.online /\ a.installed = b.installed
       \/ a.online = b.installed /\ a.installed = b.online
    /\ a.url = b.url

\* The checks; every other answer ends the call.
MayInstall(n) == folder[n] = None /\ listed[n] = None
Installing(n, spec, src) == [at |-> "create", name |-> n, spec |-> spec, src |-> src]

\* Called by the application, by the script of a message, or by the main.lua of
\* a plugin that is being scanned. What has no valid specification makes the
\* constructor of PluginSpec throw.
InstallPlugin(t, n, src) ==
    /\ Idle(t) \/ At(t, "start")
    /\ MayInstall(n)
    /\ Enter(t)
    /\ Push(t, Installing(n, SpecOnDisk(src), src))
    /\ UNCHANGED <<disk, memory, user>>

\* Somebody else may have created the folder since the checks.
CopyBegins(t) ==
    /\ At(t, "create")
    /\ LET n == Top(t).name
           found == IF folder[n] = None THEN EmptyFolder ELSE folder[n]
       IN  folder' \in {[folder EXCEPT ![n] = found],
                        [folder EXCEPT ![n] = [found EXCEPT !.toml = Top(t).src]]}
    /\ Goto(t, [Top(t) EXCEPT !.at = "copy"])
    /\ UNCHANGED <<backups, memory, user, overlapped>>

CopyEnds(t) ==
    /\ At(t, "copy")
    /\ folder[Top(t).name] # None
    /\ folder' = [folder EXCEPT ![Top(t).name].toml = Top(t).src]
    /\ Goto(t, [Top(t) EXCEPT !.at = "verify"])
    /\ UNCHANGED <<backups, memory, user, overlapped>>

\* What a removal that stops half-way leaves of a folder.
PartsOf(f) == {[toml |-> v, data |-> d] : v \in {None, f.toml}, d \in {None, f.data}}

\* std::filesystem::remove_all(dstFolder), which may throw itself.
RemoveTarget(t) ==
    LET n == Top(t).name IN
      \/ folder' = [folder EXCEPT ![n] = None] /\ Return(t)
      \/ /\ folder[n] # None
         /\ \E part \in PartsOf(folder[n]) : folder' = [folder EXCEPT ![n] = part]
         /\ Throw(t)

CopyFails(t) ==
    /\ At(t, "create") \/ At(t, "copy")
    /\ RemoveTarget(t)
    /\ UNCHANGED <<backups, memory, user, overlapped>>

\* The copy must be a plugin, and its specification the expected one.
Verify(t) ==
    /\ At(t, "verify")
    /\ LET n == Top(t).name
           read == SpecOnDisk(folder[n].toml)
       IN  \/ /\ ~Constructible(n)
              /\ Throw(t)
              /\ UNCHANGED <<folder, listed>>
           \/ /\ Constructible(n) /\ ~SameSpec(read, Top(t).spec)
              /\ RemoveTarget(t)
              /\ UNCHANGED listed
           \/ /\ Constructible(n) /\ SameSpec(read, Top(t).spec)
              /\ listed' = [listed EXCEPT ![n] = folder[n].toml]
              /\ Return(t)
              /\ UNCHANGED folder
    /\ UNCHANGED <<backups, scanned, user, overlapped>>

(***************************************************************************)
(* agents::UninstallPlugin                                                 *)
(***************************************************************************)
UninstallPlugin(t, n) ==
    /\ t = Owner /\ Idle(t)
    /\ Enter(t)
    /\ listed[n] # None
    /\ Push(t, [at |-> "backup", name |-> n])
    /\ UNCHANGED <<disk, memory, user>>

BackupEnds(t) ==
    /\ At(t, "backup")
    /\ folder[Top(t).name] # None
    /\ LET n == Top(t).name IN
         /\ backups' = IF folder[n].data = None THEN backups
                                                ELSE backups \cup {<<n, folder[n].data>>}
         /\ Goto(t, [at |-> "remove", name |-> n])
    /\ UNCHANGED <<folder, memory, user, overlapped>>

BackupFailsUnnoticed(t) ==   \* mutant: the folder is removed all the same
    /\ At(t, "backup")
    /\ Goto(t, [at |-> "remove", name |-> Top(t).name])
    /\ UNCHANGED <<disk, memory, user, overlapped>>
BackupFails(t) ==
    /\ At(t, "backup")
    /\ Return(t)
    /\ UNCHANGED <<disk, memory, user, overlapped>>

\* Mutant: the plugin is not erased from the map.
RemoveEndsOnDisk(t) ==
    /\ At(t, "remove")
    /\ folder' = [folder EXCEPT ![Top(t).name] = None]
    /\ Return(t)
    /\ UNCHANGED <<backups, memory, user, overlapped>>
RemoveEnds(t) ==
    /\ At(t, "remove")
    /\ folder' = [folder EXCEPT ![Top(t).name] = None]
    /\ listed' = [listed EXCEPT ![Top(t).name] = None]
    /\ Return(t)
    /\ UNCHANGED <<backups, scanned, user, overlapped>>

\* A file in use stops the removal half-way; the plugin stays listed.
RemoveFails(t) ==
    /\ At(t, "remove")
    /\ LET n == Top(t).name IN
         \/ UNCHANGED folder
         \/ /\ folder[n] # None
            /\ \E part \in PartsOf(folder[n]) : folder' = [folder EXCEPT ![n] = part]
    /\ Return(t)
    /\ UNCHANGED <<backups, memory, user, overlapped>>

(***************************************************************************)
(* agents::RestorePersistentPluginFolder                                   *)
(***************************************************************************)
\* GetPersistentFolder creates the folder of a plugin that has none. What is in
\* the subfolder is removed first; that this may fail is ignored.
RestorePersistentPluginFolder(t, n, d) ==
    /\ t = Owner /\ Idle(t)
    /\ <<n, d>> \in backups
    /\ Enter(t)
    /\ LET found == IF folder[n] = None THEN EmptyFolder ELSE folder[n] IN
         folder' \in {[folder EXCEPT ![n] = found],
                      [folder EXCEPT ![n] = [found EXCEPT !.data = None]]}
    /\ Push(t, [at |-> "restore", name |-> n, data |-> d])
    /\ risked' = IF newest[n] = d THEN risked ELSE risked \cup {n}
    /\ UNCHANGED <<backups, memory, newest>>

RestoreEnds(t) ==
    /\ At(t, "restore")
    /\ folder[Top(t).name] # None
    /\ folder' = [folder EXCEPT ![Top(t).name].data = Top(t).data]
    /\ Return(t)
    /\ UNCHANGED <<backups, memory, user, overlapped>>

RestoreFails(t) ==
    /\ At(t, "restore")
    /\ Throw(t)
    /\ UNCHANGED <<disk, memory, user, overlapped>>

(***************************************************************************)
(* What happens around the store                                           *)
(***************************************************************************)
Work == {"create", "copy", "verify", "backup", "remove", "restore"}
WorkedOn(n) == \E t \in Threads : \E x \in FramesOf(t) : x.at \in Work /\ x.name = n

\* A running plugin stores user data in its persistent folder, other data than
\* there is already.
StoreData(n, d) ==
    /\ n \in Writers /\ listed[n] # None /\ folder[n] # None
    /\ d # folder[n].data /\ <<n, d>> \notin backups
    /\ folder' = [folder EXCEPT ![n].data = d]
    /\ newest' = [newest EXCEPT ![n] = d]
    /\ risked' = IF WorkedOn(n) THEN risked \cup {n} ELSE risked \ {n}
    /\ UNCHANGED <<backups, memory, stack, overlapped>>

\* The process ends, also in the middle of a call, or because nested scans
\* have used up its stack; files stay as they are.
Restart ==
    /\ listed' = [n \in Plugins |-> None]
    /\ scanned' = FALSE
    /\ stack' = [t \in Threads |-> <<>>]
    /\ overlapped' = FALSE
    /\ UNCHANGED <<disk, user>>

StoreStep(t) ==
    \/ ScanNext(t) \/ PluginStarts(t) \/ PluginFails(t) \/ PluginSends(t)
    \/ ScanEnds(t)
    \/ CopyBegins(t) \/ CopyEnds(t) \/ CopyFails(t) \/ Verify(t)
    \/ BackupEnds(t) \/ BackupFails(t) \/ RemoveEnds(t) \/ RemoveFails(t)
    \/ RestoreEnds(t) \/ RestoreFails(t)
StoreCall(t) ==
    \/ GetPlugins(t) \/ InvalidatePluginScan(t)
    \/ \E n \in Plugins :
         \/ \E src \in Sources : InstallPlugin(t, n, src)
         \/ UninstallPlugin(t, n)
         \/ \E d \in Contents : RestorePersistentPluginFolder(t, n, d)

(***************************************************************************)
(* Properties                                                              *)
(***************************************************************************)
Frame ==
    [at : {"scan"}, todo : SUBSET Plugins, found : SUBSET Plugins]
      \cup [at : {"start"}, name : Plugins, version : Versions]
      \cup [at : {"create", "copy", "verify"}, name : Plugins, spec : PluginSpec,
            src : Versions \cup {None}]
      \cup [at : {"backup", "remove"}, name : Plugins]
      \cup [at : {"restore"}, name : Plugins, data : Contents]

\* The types of the variables of the store; the stacks also hold frames of
\* the registry.
StoreTypeOK ==
    /\ folder \in [Plugins -> {None} \cup Folder]
    /\ backups \subseteq Plugins \X Contents
    /\ listed \in [Plugins -> Versions \cup {None}]
    /\ scanned \in BOOLEAN
    /\ newest \in [Plugins -> Contents \cup {None}]
    /\ risked \subseteq Plugins
    /\ overlapped \in BOOLEAN

\* As long as no two threads are inside the store at once, what _plugins says
\* of a plugin is what its folder says, also in the middle of an installation
\* or removal, after a removal that stopped half-way, with nested scans, and
\* when a script installs in the middle of them (agents.cpp:89-123, 226-315).
VersionsAgree ==
    \A n \in Plugins : ~overlapped /\ listed[n] # None
        => folder[n] # None /\ folder[n].toml \in {listed[n], None}

\* What a plugin stored last is in its folder or in a backup, whatever copy,
\* removal or restoring fails, whoever installs at the same time and wherever
\* the process ends, unless it was stored while a call worked on the folder or
\* the application has restored another backup over it (agents.cpp:226-335,
\* lua_extension.cpp:714-729).
Kept(n) ==
    newest[n] # None =>
      \/ <<n, newest[n]>> \in backups
      \/ folder[n] # None /\ folder[n].data = newest[n]
DataSafe == \A n \in Plugins : n \notin risked => Kept(n)

\* A scan takes all folders it finds into the map or fails: when it ends well,
\* the plugins of these folders are listed, even if the scripts it runs scan
\* again or install further plugins, and whichever of that fails
\* (agents.cpp:89-117).
ScanListsFound ==
    [][\A t \in Threads : ScanEnds(t) /\ ~overlapped
         => \A n \in Top(t).found : listed[n] # None]_storeVars
==============================================================================
