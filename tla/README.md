# A TLA+ model of the nexuslua library

nexuslua runs *agents*: Lua scripts or C++ handlers that own handler threads and
send each other messages. Plugins are agents that are installed in folders and found
by scanning them. This directory holds TLA+ modules of the library, the
configurations that check them with TLC, and proofs checked by TLAPS. Paths are
relative to `src/`; a line reference such as `agent_message.cpp:101` means
`src/src/agent_message.cpp`, headers of the public interface are in
`src/src/interface/nexuslua/`.

## Inventory of the system

| Component | State | Operations | Talks to | Hard behaviour |
|---|---|---|---|---|
| Message counter (`message_counter.hpp`) | `_size`, `_increase_was_called`, a mutex and one condition variable | `increase`, `decrease`, `wait_until_first`, `wait_until_empty` | called by `AgentMessage::Send`, the handlers and `agents` | lost wake-ups, two kinds of waiters on one condition variable, `notify_one` |
| Messages (`agent_message.cpp`, `message.cpp`) | described parameters of a message, the queue of its agent | `Send` (count, defaults, `Validate`, enqueue or skip) | counter, thread pool | exceptions and skipped messages after the count |
| Message tables (`lua_table.cpp`, `lua.cpp`, `message.cpp`) | what a message carries | conversion from and to Lua, defaults, `reply_to`, merge, `original_message` | scripts, `Send` | what several hops and replies make of a table |
| Handler threads (`agent_thread*.cpp/hpp`, `thread_pool.hpp`) | per agent: the set `_replicated`, its lock, per handler `_timeOfLastMessage` | `handleMessage`, `addHandler`, replication, destructors | message manager (cbeam, external), configuration, Lua | a replica is built, runs a script and handles a message under a lock on its builder's thread; a failing replica disposes the handlers of its agent; the order of destruction |
| Agent registry (`agents.cpp`, `agent.cpp`) | maps of agents and plugins, ids, registered tables | `Add`, `Start`, `AddMessage`, `GetMessage`, `WaitUntilMessageQueueIsEmpty`, `ShutdownAgents`, `DeleteAgents` | thread pool, plugins | unlocked check-then-insert, partial failures, shutdown during sends and adds |
| Configuration (`configuration.hpp`) | one table per agent | `SetTable`, `GetInternal` | handlers, scripts | a script may remove entries that the handlers read |
| Lua states (`lua.cpp`) | a `lua_State` with a mutex; the state and the handler for SIGINT, both global | `Run`, `RunPlugin`, `laction` | extension functions | nested scripts, signals, exceptions that pass resets by |
| Functions for scripts (`lua_extension.cpp`) | imported functions by thread, directories of shared libraries, data of Lua states | `send`, `addagent`, `addmessage`, `install`, `import`, `setconfig`, `peek`, `poke`, `zip`, ... | all of the above | thread-keyed tables, numeric wrap, search for libraries |
| Native calls (`lua_call_info.cpp`, generated code) | none | dispatch by signature | shared libraries | the recursion that generates the signatures |
| Plugin store (`agents.cpp`, `agent_plugin.cpp`, `plugin_spec.cpp`) | the folders of installed plugins, the map of plugins, `_scannedPlugins`, backups of user data | scan, install, uninstall, restore | file system, scripts of plugins, registry | every step can fail or be interrupted; a scan runs scripts, which scan and install |
| Plugin registry (`plugin_registry.cpp`) | table of plugin specs, a cache file | fetch, parse cache, merge, `Install` | network, store | partial fetches, a half-written or stale cache, scans inside the merge |
| Helpers (`utility.cpp`) | files | HTTP, HTTPS, zip, unzip, URL parsing | server, file system | truncated downloads, aborts, partial archives |
| Platform and entry (`platform_specific.cpp`, `description.cpp`, `main.cpp`) | none | paths, versions, command line | - | - |

What makes the components correct:

* counter: no wake-up is lost, a wait ends when its condition holds for good,
  the number equals the messages that are in flight;
* messages and handlers: a message is in one place and is handled at most once;
  without failures it is handled; the count covers a message and the reply it
  causes without a gap, so that a wait never ends early;
* message tables: what a conversion has no reason to change arrives, an answer knows
  its question, a table that has been received settles at the next hops;
* replication: never more threads than a message asked for, one replica in
  construction per agent, the guard never held by anyone who does not build;
* life cycle: handlers and thread objects have an agent, messages go to the id of
  their own agent, the shutdown ends the threads, or somebody who still holds them does;
* scripts: a script calls what it imported itself, the handler of SIGINT goes with the
  script it would interrupt;
* store and plugin registry: a failing or interrupted operation loses no user data,
  a scan lists what it finds, and map, folders, table and cache agree;
* helpers: a file that is lost on its way had an error.

## Modules

| Module | Content |
|---|---|
| `MessageCounter` | the counter: one action per critical section, sleeping threads, `notify_one`, spurious wake-ups |
| `CounterLoad` | the counter under an arbitrary load of senders and handlers |
| `AgentMessaging` | agents, handlers, replicas, messages, the counter (`INSTANCE MessageCounter`), waiting application threads |
| `MessageBus` | the abstract promise: a message is pending, handled, done or lost; a waiting thread is let go only when nothing is pending or handled |
| `MCAgentMessaging` | instances of `AgentMessaging` for TLC |
| `AgentLifecycle` | `Add` and `Send` by the application and by scripts, ids, replicas and their failures, release and destruction of the thread pool and the agents |
| `MCAgentLifecycle` | its instances |
| `PluginStore` | folders and user data, map of plugins, scans inside of scans, installation by the application and by scripts, removal, backups, end of the process |
| `PluginRegistry` | extends the store by the list of plugins on the server, its cache, the merge and installation from the list |
| `MCPlugins` | instances of both |
| `ScriptThreads` | Lua states on threads, exceptions, imports, search for libraries, SIGINT |
| `MemoryCells` | `addoffset`, `peek`, `poke` |
| `NativeSignatures` | the generator of signatures and the dispatch |
| `MessageTables` | conversion of keys and values, defaults, replies |
| `Transfers` | zip, download, unzip |
| `MCScripting` | one instance of `ScriptThreads`, `MemoryCells`, `NativeSignatures`, `MessageTables` and `Transfers`, which share no state |
| `MCContent` | the values of the constants of `MessageTables` and `Transfers` for it: tables, messages, numerals |
| `MessageProofs` | type correctness of `AgentMessaging`; what each step does to the messages (`Effect`); `OnePlace` and `CounterExact` are kept |
| `ThreadProofs` | what each step does to the handler threads (`ThreadEffect`); the invariant is kept, while replicas are built, published and given up as well; theorem `Invariant` |
| `AgentMessagingTheorems` | the safety theorems and the refinement of `MessageBus` |
| `CounterProofs` | the counter under any load: types, and no lost wake-up for one waiting thread |
| `LifecycleProofs` | the theorems about `AgentLifecycle` |
| `ScriptProofs` | the theorems about `ScriptThreads`, `MemoryCells` and `NativeSignatures` |
| `ContentProofs` | the theorems about `MessageTables` and `Transfers` |
| `PluginProofs` | the theorems about `PluginStore` and `PluginRegistry` |

### How the state corresponds to the code: messaging

`size`, `increased` are `_size` and `_increase_was_called`; `waitsFor` says which
wait a thread is inside of and `asleep` who is suspended in `_cv.wait`.
`queue[a]` is the queue that the message manager keeps for the id of an agent,
shared by all its handlers. `pc[h]` is where handler thread `h` is in
`handleMessage` (the comment at `Places` lists all), `cur[h]` its
`incoming_message`, `sending[t]` the message thread `t` is inside `Send` with.
`lock`, `making` and `replicas` are the guard of `_replicated`, the replica its
holder builds, and the elements of the set. `fresh` are the handlers whose
`_timeOfLastMessage` still is the epoch, `config[a]` what `setconfig` left of the
internal entries. `stage` and `content` are what the model knows of a message:
`stage` is a history the code does not store (the properties speak of it), with
`"lost"` for a message that is no longer anywhere but was not counted down.

A replica is built on the thread of its builder. Its steps are those of `pc[r]`
while the builder is at `"replicating"`. `AddHandler` gives `r` a thread of its own
(`agent_thread.hpp:62-67`), which may take messages from then on, while the builder is
at `"adding"`: it inserts the replica (`PublishReplica`), or the message for the log
throws and it disposes the handlers (`PublishReplicaFails`). The replica gets its first
message without the `threads` entry, so it handles it and never replicates for it.

What is abstracted: a message says who receives it, how many threads it asks
for, whether all described parameters have a value (`complete`, after the
defaults were added) and whom it wants a reply sent to. Time is a choice: a
handler that had a message may or may not be idle; one that had none is idle,
because its last message dates from the epoch (thresholds are taken to be shorter
than the time since then). The "queue" parameter of a message is passed on to the
message manager, which is external, and is left out. A script that adds an agent
runs the new script on its own thread; this model lets both go on independently,
which adds behaviours and removes none (`AgentLifecycle` has it on one thread).

### How the state corresponds to the code: life cycle

An element of `Agents` is one object of class `Agent`. `byName` is the map of
`agents`, `id` the registered `_id`, `slot` the map `_agentThreads`, `declared` the
messages with the id they were declared with. `Actors` are the threads and the calls of
`Add`: a call has a place `pc[a]` of its own, which is that of the script of the new
agent too, and `caller[a]` waits for it and holds a `shared_ptr` to `a`. Scripts of
messages, scripts of agents that are being added, scripts of replicas and the
application all send messages and add agents (`InScript`). An agent is `Alive` while the
map or a caller holds it, and its id is given back when it dies. A replica is built in
steps (`EnterGuard`, `ReplicaStarts`, `Emplace`), and one that fails disposes all
handlers of its agent (`ReplicaThrows`, `disposed`).

`offered` says that the singleton still holds the thread pool; the pool is destroyed by
whoever is the last of `Holders`, the calls that are inside of `Agent::Start` or
`AgentMessage::Send`. `stage` walks through `~ThreadPool`: for each thread object the
replicas are cleared and joined, then the members of the derived class are destroyed,
then the base class disposes the handlers and waits for them, then the agents are
deleted. A handler that is inside of its object when the members are destroyed gets into
`torn`. Messages and queues are left out here: a handler of an agent in `Busy` may
receive one at any time. With `WaitFirst` the application waits for all messages before
`ShutdownAgents`; without `ReplicasFail` no replica fails.

### How the state corresponds to the code: plugins

`folder[n]` is `plugins/<n>`: absent, or what its `nexuslua_plugin.toml` states (a
version, or nothing that can be used) and which of the `Contents` is in `persistent`.
`listed` is `_plugins`, `scanned` is `_scannedPlugins`, `backups` are the user data in
the backups that were made in temporary directories. `table`, `error` and `cache` are
those of the registry. `newest`, `risked` and `overlapped` are histories: what a plugin
stored last, whether it was stored while a call worked on the folder or another backup
was restored over it, and whether two threads have been inside at once.

`stack[t]` holds the calls thread `t` is inside of, one frame per call with what the
call has read; a scan is a frame with the folders it has found and those still to be
visited, and on top of it is the start of a plugin whose script runs. A script that sends
asks for the message of an agent, which scans, so that scans nest (`PluginSends`).
`InstallPlugin` is called by the application, by scripts of messages on any thread, and
by the `main.lua` of a plugin that is being scanned; removal, restoring and
`InvalidatePluginScan` are not offered to scripts. An installation creates the folder,
copies and verifies; a removal makes a backup and removes; each of them may stop
half-way. An exception leaves all calls (`Throw`): Lua is compiled as C, so that not even
the `pcall` of a script catches it. Folders are visited in any order. `Restart` is the
end of the process at any point.

What is abstracted: names of plugins and of folders are the same (a folder whose
specification names another one cannot be constructed, which is the case without a
usable version); of a specification, the two versions and whether there is a URL are
kept, which is what `operator==` compares and the table shows.

### How the state corresponds to the code: scripts

`frames[t]` are the scripts and message functions that run on a thread (of kind
`"script"` and `"message"`); `phase` is the life of a state. `imported[t]` is
`_importedFunction` of a thread, `directories` is `_directories_of_DLL` (a set of
directories whose order is the constant `DirectoryOrder`), `staticState`, `sigint`,
`hooking` and `hooked` are the global state for SIGINT, what the signal does, a handler
between resetting the signal and setting the hook, and the states with a hook. A script
that fails with an error of Lua comes back to `Lua::Run`, which resets the signal; an
exception of a C++ function passes `lua_pcall` and the reset by (`RunFails`, history
`thrown`), and ends the scripts below as well (`Unwind`). `known` and `mixed` are
histories: what a state imported, and the threads on which imports of several scripts
are together.

`MemoryCells` has the arithmetic of the code over bytes with `ByteValues` values and
a `lua_Integer` of `LongWidth` bytes; a signed overflow may store anything. `Byte` is
one byte of a number, and `PeekFrom` the number that has the bytes of an element.
`NativeSignatures` is the recursion of the generator as it is, with the types numbered
in the order of `cpp_argument_types`; a record of `Calls` is one call of `traverse`, and
`arguments` the types in the signature a function was imported with.

In `MessageTables` a nested table is a function from paths to kinds and contents, and
`data` and `sub_tables` are kept apart, as in `LuaTable`. Keys of Lua have a kind too;
all of them become strings (`Key`), those that read as numbers by way of a number. What
formatting and parsing do to strings and numbers is given by `Numerals` (which strings
read as which numbers), `Spelled` (how a number is printed as a key), `Rounded` (what 14
digits of it read as) and `Addresses` (strings that are addresses of buffers). Where two
keys become the same one, what is kept depends on the order of `lua_next`: `LuaToTable`
is the set of the tables that may result. In `Transfers` each file in an archive or
folder is `"whole"` or `"damaged"`, and `ignored` is the history of errors that the code
does not look at; a download is a number of chunks, and a URL what the regular expression
tells apart.

### What is assumed of code outside the repository

The message manager of cbeam hands the messages of a receiver in FIFO order to
any of its handlers, keeps messages for receivers without handler, survives an
exception of a handler (were it to terminate the process instead, every behaviour
after that step disappears), and `dispose` ends the handlers of a receiver and
waits until they have returned. The guard of a `thread_safe_set` is held until the
end of its block or an exception. `singleton::get` returns null once the object
was released. libzip refuses an archive that is not complete, because its directory is
at the end. A `signal` handler runs on any thread at any time.

## Runs

| Run | Question | Result |
|---|---|---|
| `one_waiter` (`CounterLoad_one.cfg`) | is a wake-up of the counter ever lost, do both waits end, for one waiting thread | holds |
| `two_waiters` (`CounterLoad_two.cfg`) | the same for two threads in `wait_until_empty` | violated: `notify_one` wakes one of them |
| `failures` (`MCAgentMessaging_failures.cfg`) | a C++ and a Lua agent that answer each other, up to three threads, every kind of failure: one place per message, a counter that covers what is in flight, one builder per guard, threads as requested, no wait that ends early, the abstract promise | holds |
| `answers` (`MCAgentMessaging_answers.cfg`) | without failures: does the wait end and every message finish, with a reply and replicas, although handlers block on the guard | holds |
| `leak` | does the wait end when `Validate` rejects a message | violated: the message stays counted |
| `plugins` (`MCPlugins_store.cfg`) | two plugins installed by the application, by a handler and by scripts inside of scans, every file operation failing, scans nested and on two threads, the process ending anywhere: do map and folders, table and cache agree, is the user data that was stored last kept, does a scan list what it finds | holds |
| `registry_install` | does the installation of an offered plugin end well when download and copy do | violated: the specifications always differ |
| `lifecycle` (`MCAgentLifecycle_add.cfg`) | agents added by the application and by scripts, one replicating, replicas that fail, the pool released at any time: do pointers and ids stay valid, who outlives the shutdown | holds |
| `quit` (`MCAgentLifecycle_quit.cfg`) | the application waits for all messages before the shutdown, and no replica fails: does `ShutdownAgents` return, and have all threads ended then | holds |
| `shutdown` | have all threads ended when `ShutdownAgents` returns, without that wait | violated: a handler inside of `Send` or `Add` holds the pool |
| `exit` | is nothing left running after the wait for all messages and the shutdown | violated: a handler is inside of an object without members |
| `scripting` (`MCScripting.cfg`) | imports, exceptions, SIGINT, libraries; cells of memory; signatures; what messages carry over several hops; archives on their way | holds |

### Bounds

* `MaxSent` = 20 counts in `one_waiter`: the counter returns to zero repeatedly
  while the thread waits; 3 suffice for two waiters.
* Two agents are enough for a reply between agents and a reply to the sender's own
  agent. Four messages (`failures`) give two busy handlers, one of which replicates, a
  third one and a waiting message; three messages (`answers`) a question, its reply and
  another question. `SendWithinBudget` and `ReplyWithinBudget` keep an unused identity
  for every reply that is owed, so that the bound never stops a handler: they restrict
  which messages are sent, and are not part of the code.
* Three handlers of the Lua agent: the primary one and two replicas, the first number
  at which the check `_replicated->size() + 1 < requested_threads` is made by two busy
  handlers of one agent. `EnoughHandlers` says that no replica is missing for want
  of an identity.
* Messages are interchangeable; the safety run uses that symmetry, the liveness
  runs do not.
* Two plugins and two threads: one plugin whose script sends, installs (version `v1`)
  and is offered by the server, one that stores data; a thread of the application and
  one handler, both of which may install. The server offers `v2`, and an archive may be
  broken. There are two contents of user data, so that newer data and data in a backup
  differ; they are interchangeable (`Swap`). `MaxDepth` = 1 nested scan. The constraint
  `OneRace` explores two overlapping calls in every way, but for scans nested meanwhile,
  as long as the application has no registry; after one of them has returned, what
  follows is explored up to the next call or the end of the process. Calls that do not
  overlap are explored without limit. `OneBackup` stops after a second backup. The
  proofs have none of these bounds.
* Three agents, two of which want the same name, ids 1 to 3, one replica: two threads
  that add race for a name, an id is used again, and a handler waits for the guard of
  another one that builds.
* Two threads and three states (a main script, a plugin and its replica) give nested
  scripts, a message function in a state after its script, and two states that use one
  thread in turn. Two directories, one of them named after a library, and a short name
  for that library, lead to every branch of the search.
* Bytes with two values, integers of four bytes, blocks of five: small enough for all
  pokes, large enough that values wrap and elements overlap. All lists of up to four of
  six types, one more than the generator's limit.
* Tables with values and keys of every kind, keys that become the same string, numbers
  with more than 14 digits and ones that do not read back, defaults of each kind;
  replies with and without an agent and a table to merge, also one merged into
  `original_message`; two replies, so that a reply is answered. Three files, three chunks.

### Fairness

`FairSpec` of `AgentMessaging` asks that every thread that can go on is scheduled
again: handlers, senders inside `Send`, scripts and woken threads (weak fairness). A
handler that wants the guard of `_replicated` needs strong fairness, because others may
take it in between; mutexes of the platforms in use give it in practice, the standard
does not promise it. Functions of scripts and C++ handlers are assumed to return.
`FairSpec` of `AgentLifecycle` asks weak fairness of what a thread has begun: the end
of a call of `Send`, the steps of an `Add`, those of a handler up to the end of its
message, and those of a thread inside of `~ThreadPool`; never of new calls or messages.
Nothing is assumed of the application: it need not send, wait, add agents or shut down.
The other modules have no liveness properties.

### Deadlock

Deadlock is checked for the plugins, where a new call, or the end of the process, is
always possible. It is not checked for messaging (the system stops when the application
sends nothing more, and may block when a replica fails), for the life cycle (it ends
with the shutdown, and may block: when a replica fails or a handler destroys the pool,
handlers wait for their own end), and for `scripting` (a
message without reply, a failed archive and a list of arguments that was found are
ends), and for the two runs of the counter (the load of messages ends).

## What the violated runs show

`agents.hpp:89` documents `WaitUntilMessageQueueIsEmpty` as "wait until the nexuslua
agents processed all remaining messages".

* `two_waiters`: with two threads inside, `decrease` wakes one at zero
  (`message_counter.hpp:89`), and the other sleeps on until the counter comes back to
  zero another time.
* `leak`: `Send` counts first (`agent_message.cpp:101`) and then may throw
  (`agent_message.cpp:105`). Nobody counts that message down. The same loss happens
  after a rejected reply, a reply to an unknown agent, a C++ handler that throws, a
  configuration without its entries, and a message that is skipped at shutdown. The run
  `failures` contains all of them, as messages that are `"lost"`: its `CounterExact` says
  that the counter is the messages in flight and these, so it bounds the leak (nothing
  else is counted, nothing is counted down twice) and does not deny it.

`plugin_registry.hpp:102` says of `Install` "install the given online plugin".

* `registry_install`: `InstallPlugin` compares the specification of the copied folder
  with that of the registry (`agents.cpp:273`), and `operator==` compares the download
  URL, which an entry of the registry needs in order to be installed and a folder never
  has. Every installation from the registry is refused and its folder removed.

`README.md:124` says before the wait and `ShutdownAgents` "Wait for all asynchronous
work to complete before exiting".

* `exit`: a handler counts its message down (`agent_thread_lua.cpp:224`), the wait ends,
  and `~AgentThreadLua` destroys the members that the handler is about to use
  (`agent_thread_lua.cpp:236`), because it is the base class that ends the handlers, and
  the destructor of a base class runs last.

`agents.hpp:90` says of `ShutdownAgents` "if the main application quits, it should use
this function to make sure all threads have ended before the main function returned".

* `shutdown`: the function releases the reference of the singleton
  (`agents.cpp:209-213`). A handler inside of `AgentMessage::Send`
  (`agent_message.cpp:107`) or `Agent::Start` (`agent.cpp:166`) holds another one, so
  that the pool and all its threads go on after the return, until that handler, the
  last one to hold it, destroys the pool it runs in.

### Met while modelling, without a run of their own

Each of these is a single step or a short sequence of steps in the models, which follow
the code, and a run would show just that. Documents or comments of the repository
promise the contrary of the first ones.

* `lua_docs/send.md:33` "If `agent` is not specified, it defaults to the agent that
  performs the `send`": the receiver itself is set as the agent to reply to
  (`lua_extension.cpp:908-911`; `Send` of `MessageTables`).
* `lua_docs/send.md:47-48` "`parameters.original_message.number` reveals the number":
  `original_message` holds `message_name` and `parameters`, and what was sent is in
  `original_message.parameters` (`lua_table.cpp:50-57`). `ReplyKnowsQuestion` is about
  the place where the code puts it.
* `lua_docs/send.md:17` "This can be any Lua table": keys arrive as strings, those that
  read as numbers reformatted (`lua.cpp:400-421`); of two keys that become the same one
  only one entry arrives, numbers arrive with 14 digits, and a string that is the number
  of a known buffer as an address (`lua.cpp:434-458`). `GivenArrives` is about `Plain`
  entries, which exclude just these.
* `lua_docs/poke.md:8` "(1,2,4 or 8...)": a value outside of the range of its type is
  shifted by the greatest value, not by the number of values, so that it is off by one;
  with 8 bytes every positive value is shifted, because the greatest one is -1 as a
  `lua_Integer` (`lua_extension.cpp:410-429`; `ReadsBack` leaves that width out).
* `lua_docs/zip.md:9` "If the function was successful, the returned string is empty.
  Otherwise, it contains an error": the result of `Zip` is not looked at
  (`lua_extension.cpp:999`). `utility.hpp:81-82` "Throws std::runtime_error in case of
  errors": an entry that cannot be looked up is skipped (`utility.cpp:388`), errors of
  writing and closing (`utility.cpp:428`) and of reading (`utility.cpp:473`) go
  unnoticed. `LostOnlyIfIgnored` says that only these lose a file.
* `README.md:150` and `lua_docs/addagent.md:13` make the third parameter of
  `addagent` optional: without it, it throws after the agent was added
  (`lua_extension.cpp:515`).
* The comment at `lua_extension.cpp:211` "this should never occur even in buggy
  scripts": what a script imports while it starts is unknown on other threads
  (`lua_extension.cpp:197-213`); a function that two scripts import on one thread is
  refused; a message function that fails leaves its imports behind (`lua.cpp:337`). The
  premise `mixed` of `CallsWhatItImported` names these cases.
* The comment at `lua.cpp:184` "reset C-signal handler": an exception of a function for
  scripts passes `lua_pcall`, as Lua is compiled as C, and with it this line; the handler
  stays, for a state that is closed. `OnlyExceptionsKeepHandler` says that nothing else
  leaves it behind.
* `agent.hpp:72` "return its installed version": after an uninstallation the table of
  the registry keeps the version it had merged, because `RescanInstalled` adds what is
  installed and takes nothing away (`plugin_registry.cpp:221-240`; `Merge`).
* `agent.hpp:70` and `lua_docs/mainpage.md:392` promise that the persistent folder
  survives updates and removals: what is stored between the backup and the removal of
  the folder is lost (`agents.cpp:304-305`), and restoring an older backup removes what
  was stored since (`agents.cpp:324`). The history `risked` names these plugins.

Of these no document speaks:

* Messages: a default table hides a value that was given (`agent_message.cpp:151`).
* Libraries: of several directories with a library, the one named after it is found only
  if it is the first (`lua_extension.cpp:305-327`).
* SIGINT: the end of one script resets the handler that belongs to another one; the hook
  may be set in a state that has been closed meanwhile (`lua.cpp:184-194`).
* Store: an installation before the first scan makes the later scan fail, as does any
  folder that is not a plugin; `InvalidatePluginScan` and a scan of another thread race
  without a lock; restoring creates the folder of a plugin that is not installed.
* Transfers: hosts with more than two labels, and URLs without a path, are split wrongly
  (`utility.cpp:341-371`); a body that is cut off counts as whole.

## Proofs

The theorems hold for every value of the constants that satisfies the assumption of
the module. For messaging that is `MessagingAssumption`: handlers are not clients, the
home agent of a primary handler is its agent, `Msgs` and `Handlers` are finite (the
counter and the number of threads are cardinalities), and `None` is none of the values
it stands beside. `EnoughHandlers` is for the checked instances only; no proof uses it.
`ScriptAssumption`, `StoreAssumption` and `RegistryAssumption` only state types, as do
`MemoryAssumption` (a byte has at least two values, no element is wider than a
`lua_Integer`), `SignatureAssumption` (there is at least one type) and
`TransferAssumption`. `LifecycleAssumption` keeps `None` and the application apart from
objects, ids and handlers; `IdsSuffice` says of the item registry that an object without
id finds a free one. `TableAssumption` says what the tables are that scripts send:
functions from non-empty paths of `Keys` to kinds and contents, and of the
defaults that they are tables; none of them need be finite. Of numbers it says that the
formats agree with each other: what a number was printed as reads as a number that
prints the same, and what has been rounded is not rounded again.

| Theorem | Property | Proved in |
|---|---|---|
| `TypeCorrect` | `TypeOK` of `AgentMessaging` | `MessageProofs` |
| `Invariant` | `Inv`, the parts of which the run `failures` checks | `ThreadProofs` |
| `MessagesInOnePlace`, `CounterIsExact`, `GuardIsExclusive`, `ReplicationIsBounded` | `OnePlace`, `CounterExact`, `GuardHeldByBuilder`, `ThreadsRequested` | `AgentMessagingTheorems` |
| `ZeroIsQuiet`, `WaitNeverReturnsEarly` | `ZeroMeansQuiet`, `NoEarlyReturn` | `AgentMessagingTheorems` |
| `ImplementsBus` | `BusSpec` | `AgentMessagingTheorems` |
| `LoadTypeCorrect`, `OneSleeperCanRely` | `LoadTypeOK`, `SleepersCanRely` | `CounterProofs` |
| `LifecycleTypes`, `HandlersKeepAgents` | `TypeOK` of `AgentLifecycle`, `HandlersHaveAgents` | `LifecycleProofs` |
| `DeclaredIdsAreOwn` | `DeclaredWithOwnId` | `LifecycleProofs` |
| `ShutdownLeavesOnlyHolders`, `AllEndAfterTheWait` | `OnlyHoldersOutliveShutdown`, `AllEndAfterWait` | `LifecycleProofs` |
| `ScriptTypes`, `HandlerKeptByExceptionsOnly`, `ScriptsCallTheirImports`, `LibrariesStay` | `ScriptTypeOK`, `OnlyExceptionsKeepHandler`, `CallsWhatItImported`, `LibraryStays` | `ScriptProofs` |
| `PokedIsPeeked`, `SignaturesAreFound` | `ReadsBack`, `SignatureFoundOnce` | `ScriptProofs` |
| `PlainEntriesArrive`, `RepliesKnowQuestions`, `ForwardingSettles` | `GivenArrives`, `ReplyKnowsQuestion`, `ForwardedAsReceived` | `ContentProofs` |
| `LossesWereIgnored` | `LostOnlyIfIgnored` | `ContentProofs` |
| `PluginTypes`, `UserDataIsSafe`, `MapAgreesWithFolders` | `TypeOK` of `PluginRegistry`, `DataSafe`, `VersionsAgree` | `PluginProofs` |
| `ScansListWhatTheyFind`, `CacheIsTable` | `ScanListsFound`, `CacheOffersTable` | `PluginProofs` |

**Messaging.** None of the safety properties is inductive alone.
That a message is in one place needs that a handler which takes a message has none
(`ThreadState`), `CounterExact` needs `OnePlace`, because a step that counts a message
down must find it counted, and `ThreadsRequested` needs to know, while the guard is
held, that the message which started the construction allows for one thread more than
there are (`ConstructionState`): the comparison and the insertion are many steps apart,
and only the guard (`GuardHeldByBuilder`) keeps `_replicated` as it was. `Inv` is the
conjunction of these parts.

Two abstractions of the steps keep the proofs short. `Effect` (`MessageProofs`) says
what a step does to the messages: nothing, one enters `Send`, leaves it, is taken, is
handled or lost, is handed to a replica, or is lost together with its reply.
`ThreadEffect` (`ThreadProofs`) says what it does to the threads: nobody moves, one
handler walks from place to place, or a replica is started, published or given up or
the guard released. Every action is shown to have one of these effects, and every
effect to keep each part of `Inv`. The refinement uses `Effect` again, and `Inv` where a
thread starts or ends its wait: the counter is positive exactly while a message is
counted.

**Life cycle.** `Inv` of `LifecycleProofs` has two halves. The first one (`OwnInv`)
holds whatever threads race for a name: who adds an agent waits for it (`CallersWait`),
and nothing refers to an agent before its start (`NothingBeforeStart`,
`NoHandlersBefore`): no id, no declared message, no thread object, no handler; a replica
is built by one handler at a time, which has the guard (`Builders`); and while the pool
is destroyed nobody holds it, and the object being destroyed is known (`PoolPhases`).
That is why `DeclaredWithOwnId` survives that ids are used again: an object that gets an
id has no declarations yet, one that dies is not `Alive`, and living ones have different
ids (`IdsDiffer`). The second half is about the order in which things end. Calls are
nested (`CallsAreNested`): above each call there is a chain of waiting ones that a thread
has begun, so that an agent which is being added has a thread that does it, and
`OnlyHoldersOutliveShutdown` can name a holder. After the wait for all messages no handler
is inside of a call, and it is the application that destroys the pool (`AppDestroys`);
`AllEndAfterWait` follows, as `stage` is `"down"` only when no slot has an object any
more. Up to the first race (`raced`), an agent that has been entered stays in the map
until it is deleted, its thread object keeps the id it is registered with
(`EnteredStays`), and a handler has the thread object of its agent
(`HandlersHaveThreads`); `HandlersHaveAgents` is a consequence.

**Scripts.** `OnlyExceptionsKeepHandler` needs that a message function is only at the bottom of
its stack (`MessageAtBottom`), because its return empties the whole stack and must not
remove the script that SIGINT would interrupt, and that `staticState` is a state once
the handler can be called (`StaticStateSet`). `CallsWhatItImported` needs in addition
that `phase` agrees with the frames (`PhaseOfFrame`), that no state is run twice, on one
thread or on two (`StateOnce`), and that a thread which is not `mixed` has at most one
frame, and no imports when it runs nothing (`MixedThreads`): what it has imported is
then known to the state of that frame (`ImportsKnown`). `LibraryStays` is
about the search alone: directories are only added, so a directory that was the only
candidate with the right name and the first one stays the only one that can be found.

**Memory and signatures.** `Power` and `traverse` are recursive functions, and what such a
function computes needs two inductions: that a function with the recursive equation
exists (`PowerDef`, `TraverseDef`: functions on the smaller arguments exist and agree
where two are defined), and what its values are. The provers cannot instantiate an
induction rule that has an operator as a parameter; both inductions are made with
`NatSetInduction`, a rule about a set of natural numbers, which follows from the
well-founded order of `Nat`. `ReadsBack` rests on `MemoryInv`, which says of
each byte of each expected element what is in the block; that the bytes determine the
number (`SameBytes`) and that a number narrower than a `lua_Integer` is neither shifted nor
wrapped (`StoredFits`, `WrapSmall`) gives the rest. For the signatures, `TraverseGenerates`
says what a call of `traverse` generates: all continuations of its arguments with types
from its own on (`Continued`), each once. The three parts that a call concatenates are
disjoint and together all of them (`ContinuedByNext`). The induction is over `Measure`,
which gets smaller with the types that are left and with the room for arguments.

**What messages carry.** `ContentInv` says that what is carried is a table, that the
function receives its conversion, that each plain entry which was given is still held
(`Arriving`), and that a reply holds name and parameters of the question (`Answers`).
The conversions have lemmas of their own: strings that read as no number are kept as keys
and values (`PlainKept`), whichever of several keys with the same string is converted
last (`TwinsShareNames`), a settled table comes back as it was (`RoundTrip`), and the keys
of any table do after one hop (`KeysStay`). Each operation on nested tables has a lemma
about paths: what is merged changes nothing below a path it has nothing below
(`MergeElsewhere`), below a path without entries there is afterwards what was merged
(`MergeBelow`), and defaults hide nothing that was given, but a value whose default is a
table (`DefaultsKeep`). `ReplyKnowsQuestion` excepts the questions that ask to merge
something into `original_message` itself (`MergesOriginal`), as the merge is made last.
`send.md:59` of the documentation of Lua lets a script merge any table, and this one
replaces what the reply is about; the instance `MergingOriginal` of the run shows that the
exception is needed. For the archives (`TransferInv`), each file in the archive is whole or
one of those whose error was ignored, and while `Unzip` works each file of the target is
whole, still to be extracted, or ignored.

**Plugins.** All proofs rest on the shape of the stacks (`StackInv`): which frames may
be on top of which, with installations by scripts on top of any of them. For `DataSafe`, a
call that may take away what is in a folder has a backup of what was stored last, unless
that is at risk anyway (`WorkSettled`): with that every step keeps it, with all races of
other threads included. `VersionsAgree` needs, while no two threads have been inside at
once (`OneInside`), that what a scan is starting still is as it was read (`StartsAsRead`)
and that what is being copied is neither listed nor being started further down the same
stack (`CopiesUnlisted`): this is where an installation by the script of a plugin that is
being scanned matters. `ScanListsFound` needs that, for every open scan at any depth, each
folder it has found is that of a listed plugin, or still to be visited by the scan, or of
the plugin that is being started on top of it (`ScansCover`). Nothing is said of folders
that a script installs after the scan has read the directory: these the scan does not
list. `CacheOffersTable` needs that only the application fetches and has no registry
while the cache is written, and that a merge which is going to report no error holds the
downloads that are in the cache (`FramesCached`), because scans, other merges and
failures may come between the reading of the table and the end of the merge. The frame
that carries a table or a version through a scan is why the invariants quantify over all
frames of all stacks.

Every safety property of the passing runs is stated by a theorem. Only model-checked is
liveness under fairness (`EmptyWaitReturns`, `FirstWaitReturns`, `WaitReturns`,
`EveryMessageDone`, `BusFairSpec`, `ShutdownEnds`), because the proof system cannot
reason about `ENABLED`. `OneSleeperCanRely` assumes at most one waiting thread;
the run `two_waiters` shows that its conclusion about the end of the wait fails for two.

## Not modelled

* Plugins as agents: messages and threads that still refer to the `AgentPlugin` objects
  that `InvalidatePluginScan` drops (a model of the store and the life cycle together is
  too large for TLC).
* `configuration.hpp` beyond the three internal entries that handlers read;
  `configuration.cpp` is not built.
* Functions for scripts without effect on the state of the library (paths, environment,
  time, `log`, `readfile`, `printtable`), `peek` and `poke` of floating point and 16 bytes.
* The call of a native function and the buffers that libraries own; serialisation of
  tables; `Lua::GetLicensee`, which nothing calls.
* Paths, version strings, descriptions, logging, the command line, build files and tests:
  no behaviour over time.

## Ideas for extensions

* A negative number of threads, which becomes a huge unsigned one
  (`agent_thread_lua.cpp:147`), with the bound of the property left open.
