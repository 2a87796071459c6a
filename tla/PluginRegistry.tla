---------------------------- MODULE PluginRegistry ----------------------------
(***************************************************************************)
(* Class PluginRegistry (plugin_registry.cpp): the list of plugins on the  *)
(* server, its cache on disk, the merge with the installed plugins, and    *)
(* the installation of a plugin from the list, which ends in the store.    *)
(***************************************************************************)
EXTENDS PluginStore

CONSTANTS
    Offered,    \* plugins the index names that have a file for this platform
    Latest,     \* version the server states for a plugin
    Archives    \* versions in the folder "archive" of a download

ASSUME RegistryAssumption ==
    /\ Offered \subseteq Plugins
    /\ Latest \in [Plugins -> Versions]
    /\ Archives \subseteq Versions \cup {None}
    /\ None \notin PluginSpec

VARIABLES
    table,    \* _table of the last PluginRegistry that was constructed
    error,    \* what its _errorMessage tells
    cache     \* the cache file: none, half of one, or whole, and its names

registryVars == <<table, error, cache>>
vars == <<storeVars, registryVars>>

NoTable == [n \in Plugins |-> None]
SpecOnline(n) == [online |-> Latest[n], installed |-> None, url |-> TRUE]
Specs(names) == [n \in Plugins |-> IF n \in names THEN SpecOnline(n) ELSE None]

\* The application constructs a registry in the place of the one it had.
Replace == table' = NoTable /\ error' = "no registry"

RegistryInit ==
    /\ table = NoTable
    /\ error = "no registry"
    /\ cache = [state |-> "none", names |-> {}]

(***************************************************************************)
(* fetch_and_parse                                                         *)
(***************************************************************************)
\* Specifications that cannot be read or parsed are left out of the table and
\* of the text for the cache; then writing the cache begins.
Fetch(t) ==
    /\ t = Owner /\ Idle(t)
    /\ Enter(t)
    /\ \E got \in SUBSET Offered :
         /\ Push(t, [at |-> "write", got |-> got])
         /\ cache' \in {cache, [state |-> "half", names |-> {}]}
    /\ Replace
    /\ UNCHANGED <<disk, memory, user>>

WriteEnds(t) ==
    /\ At(t, "write")
    /\ cache' = [state |-> "whole", names |-> Top(t).got]
    /\ Goto(t, [at |-> "merge", table |-> Specs(Top(t).got), error |-> "none"])
    /\ UNCHANGED <<disk, memory, user, overlapped, table, error>>

\* The merges that parse_from_cache may lead to, when the table already holds
\* names: half a file is refused by the parser, which is only logged, or it
\* ends early; when there is no file, reading it throws.
FromCacheSilently(names) ==   \* mutant: no message about the cache
    {[at |-> "merge", table |-> Specs(names \cup cached), error |-> "none"] :
       cached \in SUBSET Offered}
FromCache(names) ==
    IF cache.state = "none"
    THEN {[at |-> "merge", table |-> Specs(names), error |-> "no cache"]}
    ELSE {[at |-> "merge", table |-> Specs(names \cup cached), error |-> "cached"] :
            cached \in IF cache.state = "half" THEN SUBSET Offered ELSE {cache.names}}

\* A failing write_cache is taken for a failing connection.
WriteFails(t) ==
    /\ At(t, "write")
    /\ \E merge \in FromCache(Top(t).got) : Goto(t, merge)
    /\ UNCHANGED <<disk, memory, user, overlapped, registryVars>>

\* The index cannot be read.
FetchFails(t) ==
    /\ t = Owner /\ Idle(t)
    /\ Enter(t)
    /\ \E merge \in FromCache({}) : Push(t, merge)
    /\ Replace
    /\ UNCHANGED <<disk, memory, user, cache>>

(***************************************************************************)
(* merge_installed                                                         *)
(***************************************************************************)
RescanInstalled(t) ==
    /\ t = Owner /\ Idle(t)
    /\ error # "no registry"
    /\ Enter(t)
    /\ Push(t, [at |-> "merge", table |-> table, error |-> error])
    /\ UNCHANGED <<disk, memory, user, registryVars>>

\* GetPlugins scans first; if it throws there is no new registry.
MergeScans(t) ==
    /\ At(t, "merge")
    /\ ~scanned
    /\ Push(t, ScanFrame)
    /\ UNCHANGED <<disk, memory, user, overlapped, registryVars>>

Merge(tab) ==
    [n \in Plugins |->
        IF listed[n] = None THEN tab[n]
        ELSE IF tab[n] = None THEN SpecOnDisk(listed[n])
        ELSE [tab[n] EXCEPT !.installed = listed[n]]]

MergeEnds(t) ==
    /\ At(t, "merge")
    /\ scanned
    /\ table' = Merge(Top(t).table)
    /\ error' = Top(t).error
    /\ Return(t)
    /\ UNCHANGED <<disk, memory, user, overlapped, cache>>

(***************************************************************************)
(* Install                                                                 *)
(***************************************************************************)
Install(t, n) ==
    /\ t = Owner /\ Idle(t)
    /\ error # "no registry"
    /\ Enter(t)
    /\ table[n] # None /\ table[n].url
    /\ Push(t, [at |-> "download", name |-> n, spec |-> table[n]])
    /\ UNCHANGED <<disk, memory, user, registryVars>>

\* The download fails, the archive has no folder "archive", or the store
\* refuses the installation.
DownloadFails(t) ==
    /\ At(t, "download")
    /\ Return(t)
    /\ UNCHANGED <<disk, memory, user, overlapped, registryVars>>

DownloadEnds(t) ==
    /\ At(t, "download")
    /\ MayInstall(Top(t).name)
    /\ \E src \in Archives : Goto(t, Installing(Top(t).name, Top(t).spec, src))
    /\ UNCHANGED <<disk, memory, user, overlapped, registryVars>>

(***************************************************************************)
(* The specification                                                       *)
(***************************************************************************)
\* The registry is gone when the process ends; its cache stays.
RestartRegistry ==
    /\ Restart
    /\ Replace
    /\ UNCHANGED cache

Init == StoreInit /\ RegistryInit

Next ==
    \/ \E t \in Threads :
         \/ (StoreCall(t) \/ StoreStep(t)) /\ UNCHANGED registryVars
         \/ Fetch(t) \/ FetchFails(t) \/ WriteEnds(t) \/ WriteFails(t)
         \/ RescanInstalled(t) \/ MergeScans(t) \/ MergeEnds(t)
         \/ \E n \in Plugins : Install(t, n)
         \/ DownloadFails(t) \/ DownloadEnds(t)
    \/ \E n \in Plugins, d \in Contents : StoreData(n, d) /\ UNCHANGED registryVars
    \/ RestartRegistry

Spec == Init /\ [][Next]_vars

(***************************************************************************)
(* Properties                                                              *)
(***************************************************************************)
RegistryFrame ==
    [at : {"write"}, got : SUBSET Offered]
      \cup [at : {"merge"}, table : [Plugins -> PluginSpec \cup {None}],
            error : {"none", "cached", "no cache"}]
      \cup [at : {"download"}, name : Plugins, spec : PluginSpec]

\* The types of all variables, the frames of the stacks included.
TypeOK ==
    /\ StoreTypeOK
    /\ stack \in [Threads -> Seq(Frame \cup RegistryFrame)]
    /\ table \in [Plugins -> PluginSpec \cup {None}]
    /\ error \in {"no registry", "none", "cached", "no cache"}
    /\ cache \in [state : {"none", "half", "whole"}, names : SUBSET Offered]

\* While the registry reports no error, the cache offers exactly the downloads
\* of the table: what was installed by hand and merged into the table never
\* gets into the cache, nothing is offered that the next start without network
\* would not show, however often the installed plugins are merged again and
\* whatever scan fails meanwhile (plugin_registry.cpp:96-171).
CacheOffersTable ==
    error = "none"
        => cache.names = {n \in Plugins : table[n] # None /\ table[n].url}

\* "install the given online plugin": when the archive was copied and states
\* the version that the registry shows, the installation ends well; a restart
\* is told by the loss of the registry (plugin_registry.cpp:279-316,
\* agents.cpp:273).
InstallsWhatIsOffered ==
    [][\A t \in Threads :
         At(t, "verify") /\ Top(t).spec.url /\ stack'[t] = <<>> /\ error' # "no registry"
           => LET n == Top(t).name IN
                folder[n].toml = Top(t).spec.online => listed'[n] # None]_vars
==============================================================================
