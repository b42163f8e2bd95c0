# A verification project for egmcp

egmcp is a management plane for the Model Context Protocol. An operator
describes *instances* (a slug, a list of connectors, API keys) over a REST API or
by editing YAML files; the process keeps every instance's connectors running and
serves its tools to MCP clients under `/mcp/{slug}`. This directory models the
program where its state lives, where its goroutines meet and where its calls can
fail or be cut short; it checks the models with TLC on small instances, and proves
theorems about the core of them with TLAPS.

## 1. The system

| Part | State it keeps | Operations | Talks to |
|---|---|---|---|
| File writes (`internal/store/flock.go`) | `<slug>.yaml`, `.lock`, `.tmp` | `writeWithLock`, `acquireLock` | every server process on the directory |
| Instance store (`internal/store/store.go`) | the directory, the index `bySlug`, one debounce timer | `New`, `Save`, `Delete`, `Get`, `List`, `Has`, `watchLoop`, `reconcileFile`, `scanDisk`, `Close` | fsnotify, the router |
| Live router (`internal/core/core.go`) | `live`: slug to connectors | `UpsertInstance`, `DeleteInstance`, `reloadOne`, `reloadAll`, `watchStore`, `GetConnector` | the store (polled), the registry, the connectors |
| MCP server cache (`internal/mcp/server.go`) | `servers`: slug to MCP server | `For`, `registerConnectors`, `Invalidate` | the router; holds connector objects |
| Transport, OpenAPI (`internal/mcp`) | none | HTTP routes, key check | `ServerSet.For` |
| REST API (`internal/api`) | none, beyond what a request has read | create, replace, delete, rotate-key, get, test, audit list, plugins, login | router, audit, plugins, auth |
| Audit (`internal/audit`) | bounded queue, buffer, one file per day | `Emit`, `loop`, `Recent`, `Close` | nobody calls `Emit` or `Close` yet |
| Plugins (`internal/plugin`) | `plugins`, a directory, the libraries open in the process | `Scan`, `LoadAll`, `loadOne`, `SaveUpload`, `Delete` | `main.go`, the registry |
| Configuration (`internal/config`) | the config file | `Load`: first boot, environment substitution, validation | `main.go` |
| Registry (`pkg/connector`) | type to factory | `Register`, `Get` | `main.go`, router |
| Lifecycle (`cmd/egmcp`, `internal/server`) | where `run` is, open streams | boot order, signal, shutdown | all |
| SQL connectors (`pkg/sqlconn`, mysql, postgres) | a pool, policies | `Open`, `Query`, lists, `Close` | databases |
| HTTP connectors (swagger, fetch) | operations, limiter, mutex | `Init`, `InvokeTool`, `HealthCheck` | upstreams |
| File connectors (filesystem, git) | a directory, a repository | read, write, delete, search; log, search, ... | the file system, `git` |
| Object stores (`pkg/objectstore`, s3, oss) | none | put, get, delete, list | SDKs |
| Auth, log, metrics | signing key, counters | tokens, middleware | API |
| Web console (`web`) | none | client of the REST API | API |

How they interact: an API request saves to the store and then reloads the
instance; a hand edit reaches the store by fsnotify and the router by a poll
every 750 ms, which reloads *every* instance; an MCP client gets a server built
once from whatever connectors were live, and keeps them. The connector that serves
a call is shared by all clients of the instance. No lock spans any two of these
parts.

What is hard: saves of several processes with crashes in between; the file and
the index of one save changing at different times; events that arrive late, are
merged or dropped; reloads of one instance that overlap; objects kept by a cache
after their owner has shut them down; requests that look first and write later;
crashes in the middle of a first boot, a log line or a plugin load; results cut
short by a cap, a deadline or a lost connection. `PROJECT.json` lists each such place with
its line ("hazards") and the properties about it.

What makes each part correct:

- file writes: mutual exclusion, no torn file, an honest error, no lost lock;
- store: index and directory agree unless a repair is under way, and converge;
- router: connectors are neither leaked nor published closed, and what becomes of
  one instance leaves the others alone; live versions converge to stored ones;
  removed instances are torn down;
- servers: one per slug, built from the connectors that are live;
- API: a request is as good as one step, and a key that was handed out works;
- audit: an event is written once, in the file of its day, or a fault explains why
  not; plugins: an entry stands for a file, and a bad one stops nothing;
- configuration: what runs is what the next start finds again;
- connectors: no partial result passes for a whole one, limits hold, what was
  answered as done is done, and every call ends.

## 2. Modules

| Module | Models | Based on |
|---|---|---|
| `AtomicFile` | the promise of one instance file: a save is one step, or nothing and an error | |
| `FileLock` | `flock.go`, `Store.Delete` and `readInstance` on inodes and names | refines `AtomicFile` |
| `FileLockProofs` | theorems about `FileLock` | |
| `InstanceStore` | `store.go`; a file changes in one step, as `FileLock` shows | |
| `InstanceStoreProofs` | theorems about `InstanceStore` | |
| `LiveRouter` | `core.go` over the index of the store | |
| `LiveRouterProofs` | theorems about `LiveRouter` | |
| `McpServers` | `server.go`; composes with `LiveRouter` (extends it) | |
| `McpServersProofs` | theorems about `McpServers` | extends `LiveRouterProofs` |
| `InstanceApi` | the handlers of `api.go` over the index and the files of the store | |
| `InstanceApiProofs` | theorems about `InstanceApi` | |
| `AuditRecorder` | `audit.go` and `handleAuditList` | |
| `ServicesProofs` | theorems about `AuditRecorder`, and about it and `InstanceApi` in `MCServices` | extends `InstanceApiProofs` |
| `ConfigBoot` | `config.go` and `main.go`'s printing of the first password | |
| `PluginManager` | `plugin.go` and the plugin handlers | |
| `Boot` | `main.go` and `registry.go`; extends `PluginManager` | |
| `BootProofs` | theorems about `ConfigBoot`, `PluginManager`, `Boot`, and about them in `MCBoot` | |
| `FileTools`, `GitCalls`, `FetchCalls`, `SwaggerCalls`, `ObjectCalls`, `SqlCalls` | the connectors' tools | |
| `ConnectorsProofs` | theorems about the connectors, together in `MCConnectors` | |
| `MC*` | small instances for TLC | |

A section *Wrong variants* in a module holds steps with a bug this code could
have had. No specification uses them; each makes one of the properties fail, and
so shows that the property, or one part of it, says something about the code.

### FileLock

One action per system call that another process can see. `lock` is the existence
of `.lock`; `tmp` and `path` are the inodes the two names refer to; `data` is
what each inode contains, `Torn` being anything but one whole value (an empty or
half-written file). `OpenTmp` truncates a `.tmp` left behind, or creates one.
`Rename` moves a name and leaves descriptors alone. `Retry` counts attempts;
`WriteFails`, `RenameFails` and `LockError` are the error returns; `Release` is
the deferred release, whose own failure the code ignores. `Crash(p)` ends a
process at any point. `Open`/`Close` are `os.ReadFile` in `readInstance`.

### InstanceStore

`disk` is the directory, `index` is `bySlug`. `SaveFile`/`SaveIndex` and
`DeleteFile`/`DeleteIndex` are the two critical sections of `Save` and `Delete`.
A change queues an event (`Change`); `Receive` is one turn of `watchLoop`, which
replaces the pending timer; `Fire` starts `reconcileFile`, whose steps are
`ReconcileRemove`, `ReconcileRead` (with its retries) and `ReconcileSet`. `Scan`
and `Watch` are the two halves of `New`, `Stop` is `Close` or a crash. A failing
`Save` or `Delete` changes nothing and is a stuttering step. `Edit` is an
operator with an editor. Three constants say what the environment does:
`Misnamed` (may a file contain another slug than its name), `Apart` (do different
files change more than a debounce apart) and `Prompt` (are the few instructions
between two critical sections faster than the 100 ms debounce). `Prompt` is the
assumption every run makes: without it TLC finds a save that sleeps between file
and index for longer than a debounce and then overwrites the index for good.
`unseen` records files that changed between `scanDisk` and `w.Add`, which nothing
reads again; the properties exempt them by name.

### LiveRouter

`spec` is the store's index, `live` the map `r.live`, `open` the connectors that
were initialised and not shut down. `job[p]` is the run of `reloadOne` (or the
second half of `DeleteInstance`) of each process: request handlers and the
ticker, which is `reloadAll` at boot and `watchStore` afterwards. The steps are
the accesses to shared state: `Get` (store), `ShutOld` (load and shut down, the
entry stays), `Build` (a connector per reference; unknown types and failing
`Init` are skipped), `Publish`, `Unload` and `Drop`. Load and shutdown are one
step, since another process can do nothing in between that it could not do
before or after; the connectors a reload builds are private until `Publish`.
`Factories` is what `factory()` returns: of a builtin type a new object each time, of
a plugin (`Plugin`) always the one object of its library (`Shared`), since
main.go:130 registers a function that returns it. So a reload may publish the
object that it, or a reload of another instance, has just shut down and opened.
`Overlap` says whether two reloads may overlap in time (nothing in the code
prevents it), `External` whether the store also reconciles hand edits.

### McpServers

`For` with its lookup under the read lock, the second look under the write lock,
and `registerConnectors`, which asks the live map again for each connector.
Nothing in the program calls `Invalidate` or `InvalidateAll`, so they are no
actions. Every step of `LiveRouter` may happen in between.

### InstanceApi

A request is a look at the index (`CreateLook`, `DeleteLook`, `RotateLook`) and
then the two critical sections of `Save` or `Delete`; nothing orders two requests
for one slug. Of an instance only its API keys are kept, since only `rotate-key`
computes what it saves from what it read. The model goes down to Go's slices there:
`GetInstance` copies the struct but not the array of keys, so two rotations may
append into one array that has room (`array`, `cell`, `Roomy`). The watcher is
that of `InstanceStore` with its retries left out: an event, a reading, an entry
set later. `raced` marks slugs whose requests overlapped, or acted on an entry
that was behind its file: nothing is promised of these.

### AuditRecorder

`Stamp` and `Send` are `Emit`; `Take`, `FlushTick` and `Finish` are the turns of
`loop`. A file has lines and perhaps the beginning of one more, which ruins the
line behind it (`With`, `WithPart`). A flush can fail after any number of bytes,
and a `bufio.Writer` that has failed writes nothing more (`bad`). An event that
`json.Marshal` refuses gives no line (`Lines`), after its day's file was opened. `Open` is the day
rollover, where the old file is closed first. `BufferFull` writes a part of the
buffer at any moment: the size of events is not modelled. `Crash` loses the queue
and the buffer, and the process starts again. `Recent` gives the set of answers it
may give, since events of one moment come in any order.

### ConfigBoot

`Load` step by step, on texts of tokens (`${`, `:-`, `}` and words). A write is
`Truncate` and `Write`, so a crash leaves a torn file. `Expand` is one turn of
`substitute`'s loop, with its nested defaults and its search for the first `}`.
Of the many fields three are kept: the two secrets and the user name, which stands
for all fields without first-boot handling. Every start may have another
environment, and an operator may edit the file between starts: remove it, write
another, or write one that keeps the password hash that is there.

### PluginManager and Boot

`Forget` and `Record` are the two halves of `loadOne`, between which the lock is
open. `image` is what `plugin.Open` keeps: a path opened once gives that library
for the life of the process, also one in which `Lookup` found no connector
(`Images`). An upload that cannot be written whole leaves a part of it in the
directory and loads nothing (`UploadFails`). Two files may share a base name, and with it an entry.
`mixed` marks names that overlapping calls were about. `Boot` adds `run`: load the
plugins, register them beside the builtin names, serve, wait for streams, close. In
this program `API.Plugins` is never set, so uploads and deletes are refused by the
handlers; the model has them because the handlers and the manager do.

### The connectors

`FileTools`: each action is one or a few system calls; `tree` maps paths to
directories and inodes, so that a descriptor outlives its name. `os.WriteFile`
truncates at `OpenWrite`, and then writes all (`WriteText`) or a part (`WriteFails`,
a full disk); `FilesDie` ends the process anywhere. A file that two calls wrote at
once, or whose write failed or was cut short, is marked `muddled`, a reader whose file
changed is `raced`. `Skip` is an entry the walk cannot read, which is left out with
what is below it. `GitCalls`: one
process with a deadline; `helper` is a process that git itself started and that
keeps the output open, for which `cmd.Run` waits. `FetchCalls`: an int of a few
bits, so that the largest configured limit overflows. `SwaggerCalls`: the mutex,
and time in ticks with tokens in fractions. `ObjectCalls`: the service may fail
before or after it has acted; `seen` is what an object has been during a call.
`SqlCalls`: rows one by one, with a deadline, a lost connection or `Close` in
between; what breaks off is told by the call or only by `rows.Err`, which the list
tools do not ask (`Succeeds`).

## 3. Runs

| Run | Instance | Shows |
|---|---|---|
| `file_lock` | 2 writers in 2 processes, 1 reader, 2 values, 3 inodes, 2 attempts | `MutualExclusion`, `NeverTorn`, `StableReads`, `OrphanBlocksSaves`, `OnlyFailureOrphans`, refinement `IsAtomicFile`, and that every save returns |
| `store` | 1 file, 2 versions, 2 calls, 2 reconciles, 3 events, 2 reads | `StaleIsPending`, `Converges` |
| `store_burst` | 2 files in one debounce | *violated*: the dropped event |
| `router` | 1 instance, 2 versions of builtin, plugin and unknown types, 1 handler and the ticker, overlapping, hand edits | `PublishesOpen`, `RestIsOpen`, `EventuallyCurrent`, `RemovedIsTornDown` |
| `router_leak` | overlap | *violated*: leaked connectors |
| `router_shared` | 2 instances, 1 plugin, no overlap | *violated*: the plugin's object is closed under the other instance |
| `servers` | 2 clients, 1 handler, ticks, 2 connectors, 1 of them a plugin's, no overlap | `OneServer`, `ForReturns`, `NoLeak` |
| `servers_stale` | the same, 1 client | *violated*: cached connectors shut down |
| `services` | 1 slug, 3 requests, room behind 1 key; 3 events, a queue of 2, 3 days, 2 faults | `AtomicUnlessRaced`, `KeysKept`, `AuditIsKept`, `RecentIsLatest`, and that both parts settle |
| `boot` | 2 variables with empty, plain, mutual and circular values, 12 edited files; 3 plugin files of 2 names, 2 calls, 1 stream | `SecretsArePersisted`, `PasswordWasShown`, `EntryHasFile`, `SkipsBadPlugins`, and that starts and stops end |
| `connectors` | 2 clients of each connector (1 of git and fetch) | `RequestsAreWhole`, `ResultsAreWhole`, `WritesTakeEffect`, `RateIsBounded`, `StableNames`, `CallsEnd` |
| `object_delete` | 1 object | *violated*: s3's `delete_object` deletes nothing |

Bounds. Two writers are enough to contend for a lock and to reuse a name; the
reader's old inode, the current one and `.tmp` are the three inodes that can be
in use at once, and freed inodes are reused. Two attempts let a save both wait
and give up. One file is enough for every race on one file (the second file
matters only through the shared timer, which `store_burst` shows, and the
theorem covers any number of files); three events let a timer run while two
changes are queued; a queue that is full blocks the environment, never the
store. Connector handles are reused once nothing refers to them, so there are
enough for the versions that can be referenced at once: the live one, and one
per process. In `router` one version has a builtin connector, the other one of each
kind, so that a plugin's object comes and goes beside builtin ones; two instances are
needed only for the object to be shared, in `router_shared`, and none of the two
reloads has to overlap for that.

In `services`, `boot` and `connectors` a behaviour is of one part (`part`): parts
that share no state would only multiply each other's states. Three requests are
the fewest with a rotation that follows one and overlaps another; with pages of
one and two, two recent files and three days, Recent has to leave out events and
whole files; two faults let a failed open follow a failed flush, or a crash come
after a restart. Two variables are enough for a value that leads to another or back
to itself. Of the plugin files two share a base name and one is named like a
builtin connector; only one of them has a second version. The file tools have a
root, a directory and a file in it, with texts of one and two blocks around a limit
of one; `git` has up to three commits around a default cap of two; `fetch` a
largest int of 3 and bodies of up to 4; `swagger` three operations, two of one tool
name, and minutes of two ticks; the stores two keys around pages of one and two;
`sql` up to two rows around a cap of one. Limits are also configured as zero and
negative, which the code turns into defaults. Deadlock is not checked in these
three runs: requests and events are finite, a process may stay down, a closed pool
serves nobody.

Fairness. `FileLock`: a goroutine inside `writeWithLock` keeps running (each
call it makes returns); the fair steps are the successful ones (`Proceed`), so
that no call has to fail for a save to return. `InstanceStore`: the watch loop, timers, reconciles and
the second half of calls proceed; nobody owes an edit, a request or a restart.
`LiveRouter`: the ticker and handlers proceed, which assumes that connectors'
`Init` and `Shutdown` return (`Init` gets a context without deadline).
`McpServers`: a client that waits for the lock gets it (`sync.RWMutex` starves
nobody), which is the one strong fairness. `Converges` and `EventuallyCurrent`
are about behaviours in which input stops. `InstanceApi` and `AuditRecorder`: a
handler, the watcher and the writer goroutine go on while they have something to
do. `ConfigBoot` and `Boot`: `Load` and `run` go on; no call of the plugin manager
has to return and no stream has to close. Connectors: deadlines and clients'
timeouts come, databases, upstreams and git's helpers may hang; whoever waits for
swagger's mutex gets it in turn, as `sync.Mutex` hands it on in order (the second
strong fairness).

## 4. Findings

Five runs are violated; `PROJECT.json` quotes under "findings" the sentence of the
source that each contradicts. `store_burst`: one debounce timer for all files drops
events. `router_leak`: `reloadOne` needs a lock per slug. `router_shared`: the factory
of a plugin has one object (main.go:130), so deleting or reloading one instance
shuts down the connector of every other; what is closed stays so until the next
reload, of any of them, opens it again. `servers_stale`: the
server cache is never invalidated. `object_delete`: s3's `delete_object` answers ok
and does nothing.

What else was met while modelling, at the line where it is, has no run of its own.
The models behave so where they have the part, and a property that it would break
states the exception in its comment and in its formula; such a property says nothing
of these cases, only of the others:

- store and router. A file whose slug differs from its name is scanned under one
  and reconciled under the other (store.go:286), so that a restart changes what
  is served; `InstanceStore` does so when `Misnamed` is set, which no run does. An instance that `DeleteInstance`
  removes while an upsert is reloading it stays live for good, and so does one
  whose file goes before a tick has listed it (core.go:162, 324). Tools are named
  by connector type, so of two connectors of one type the last hides the first
  (server.go:137). `For` serves a slug that was deleted, from its cache, and a
  server built in the middle of a reload has no tools for as long (server.go:111). Two
  connectors of different types with one name leak the first.
- API. Between look and save nothing holds the slug: two creates succeed, a
  rotation revives a deleted instance, and of two rotations one key may be lost
  (api.go:317, 394). A rotation right after a hand edit works on the old keys.
- audit. Nobody calls `Emit` or `Close`. When the next day's file cannot be opened,
  the closed file stays current: later events of its day are lost and nothing is
  logged (audit.go:187). Emit after Close panics. An event that json cannot encode
  is lost, with a warning. A line cut short by a crash takes the next one with it.
- plugins. They are registered under the base name of their file, where
  main.go:120 says "under their declared names". One named like a builtin stops
  the start with a panic. A library uploaded over one that is open keeps running as
  it was. `Delete` removes the first of the files of a name, so a twin is loaded at
  the next start; its loop over `m.loaded` compares paths with base names and never
  matches. `API.Plugins` is never set, so nothing but `LoadAll` at boot calls `loadOne`.
- configuration. A crash in a first boot leaves a file without secrets, which every
  later start refuses, or secrets whose password was never printed. A variable that
  leads back to itself hangs the start (config.go:158).
- fetch. fetch.go:33 says that `MaxResponseBytes` "caps the body returned to the
  model"; a body that is cut short has one byte more than that, and a cap of the
  largest int returns nothing (fetch.go:200). `CutIsMarked` allows the byte. The schema's `query` maps names to
  texts, `callArgs` takes lists of texts. Base64 that does not decode is no body
  and no error.
- swagger. Header parameters end up in the query as `__header__:name`. A call whose
  arguments do not bind has cost a token. A health check waits for the mutex past
  its deadline. Two operations of one tool name hide one, and which of two methods
  of one path comes first depends on map order. A reload gives a full bucket.
- git. `git grep` exits with 1 when nothing matches, and `toolSearch` looks for an
  `*exec.ExitError` that `run` has wrapped in text with `%w`, so no match is an
  error. `max_count` of search is not used. `diff` with only `to` compares with the
  working tree. A helper that git started can delay a call past its deadline.
- filesystem. Writes are in place (filesystem.go:296): a reader, or a second writer,
  may meet half a file, and one that fails or dies leaves half a file behind and
  has lost the old one. A search goes on without what it cannot read and does not
  say so (filesystem.go:377). A limit of zero or less on search results gives none.
- object stores. s3's `delete_object` does not ask for a bucket either. There is no continuation token in the schema, so what is past the
  first page cannot be listed; the default is 1000 where the schema says 200. Any
  error of oss with "404" in its text counts as a missing object.
- SQL. The lists do not look at `rows.Err`, so that one that breaks off is answered
  as whole (mysql.go:172, postgres.go:167), and have neither timeout nor cap.
  `describe_table` is refused when there is a list of allowed tables.

## 5. What is proved

`tlapm` checks every theorem below from nothing, for every value of the
constants that meets the module's named assumption; TLC evaluates the assumptions in
every run. They say of what type a constant is, that dummies (`None`, `Never`,
`Absent`, ...) are none of the values they stand beside, and that bounds and defaults
are in the range the code gives them. Four say more: `FileAssumption`, that the
directories of the paths form a tree (`Order` has each path after its directory);
`SwaggerAssumption`, that two operations of one path, which differ by their method,
have different tool names; `PluginAssumption`, that `Exts` has the files of each base
name once; and `ConfigAssumption`, that the hash of a password made at random is
in no text somebody makes up (one kept from an earlier file may have it).

**FileLockProofs.** `Exclusion`, `NoTornFile`, `ReadsAreStable`, `OrphanStays`
and `Refinement` rest on one inductive invariant, `IInv == TypeOK /\ LockInv /\
FilesInv`.

- `LockInv`: the lock file exists while a save holds it, and at most one save does.
  `MutualExclusion` alone is not inductive: a state with a holder and no lock
  file would let a second one in.
- `FilesInv`: the inode of `.tmp` is not the inode of `path` and no reader has
  it open; only a save in the middle of its write has it open for writing; the one
  about to rename has written it completely; `path` and every reader's inode are
  whole. `NeverTorn` alone is not inductive, since
  `OpenTmp` truncates whatever inode `.tmp` names: it must be nobody else's.
- `OrphanStays` adds that a lock without a holder can no longer be removed,
  because only a holder runs the deferred release; `OnlyFailuresOrphan`, that
  every step but `Crash` and `Release` leaves a lock its holder.
- `Refinement` maps `path` to the content of its inode, and each reader to the
  content it has open. Initial states map to initial states; `Rename` is the
  abstract `Install`, a return (with or without an error) is `Return`, a crash is
  `Die`, `Call`, `Remove`, `Open` and `Close` are their namesakes, and every other
  step is a stutter.

**LiveRouterProofs.** `TypeInvariant` adds to `TypeOK` what each point of
`reloadOne` knows (a slug, a version once read, no connectors before `Build`).
`Ownership` shows `Owned`: a connector of a builtin type belongs to one job or to one
live instance, and a job's are open. Nothing of the kind holds for the shared objects
of plugins (`Objects`), which the first two theorems leave out. From it:

- `PublishedAreOpen`: whatever another process shuts down is in the live map, so
  it is not among the builtin connectors this one is about to publish. No assumption
  on overlap.
- `UsableAtRest`: `OpenOrMending` says that a live instance with a closed builtin
  connector has some process past its shutdown that will replace or remove it;
  when all are idle there is none. No assumption on overlap.
- `SerialNoLeak`, assuming `~Overlap` and `UniqueNames` (no two references of one
  version share a name): with one job at a time, what it replaces is closed
  (`OldIsShut`), so nothing open is forgotten. Both assumptions are needed:
  `router_leak` violates it with overlap, and a version with two references of
  one name leaks the first in `Build`.

**InstanceStoreProofs.** `RepairsAreUnderWay` assumes `Gentle == Apart /\ Prompt /\
~Misnamed`; dropping `Apart` is what `store_burst` refutes, and misnamed files are
filed under two keys. The inductive invariant
`StoreInv` says that events and timer are all of one file and the last of them
is true of the directory (`QueueOK`), that what a reconcile has read or been
told, and what a `Save` or `Delete` is about to put in the index, is true or has
an event behind it (`TaskOK`, `CallOK`), and that each file agrees with its
entry or has such a repair (`Covered`). `Covered` alone is not inductive: a
repair ends by writing what it read, which must be the file's content or be
followed by another event. Any number of files, calls, reconciles, events and
retries is covered.

**InstanceApiProofs.** `KeysStay` and `AsOneStep` are about slugs that are not
`raced`; without that they are false (two rotations lose a key, two creates both
succeed). The invariant `Inv` adds three things to `KeysKept`. `Alone`: such a
slug has one running request. `AllHold`: what that request looked at is still so
when it writes, and what it wrote is still there when it files it. `ArrayInv`: the
key array that a rotation grows in place, and the one the index holds, were
allocated by a request for the same slug that is over; without it a rotation of
another slug might put its key into this one's array. `KeysKept` alone is not
inductive, since a rotation saves what it read earlier and not what is in the file.

**McpServersProofs.** `MCPSpec => Spec`: under the clients the router takes its own
steps only, so `UsableWithClients` follows from `UsableAtRest`. `OneServerEach`
rests on `ForInv`: who is past the second look of `For` has the write lock, and who
registers has seen that there is no server, which nobody but it can change then.
`OneServer` alone is not inductive: it does not say what a client has looked at.

**ServicesProofs.** `EventsAreKept` and `LatestAreGiven` are about the audit
recorder for any number of events, days, files and callers, and any faults.
`AuditInv` has four parts. `Memory`: the queue has what is queued, once; the
buffer has events of the current file's day that are not in the file. `Disk`: each
file has taken events of its day, once. `Spoils`, which bounds the loss: the events
torn, and the files whose last line is unfinished with nobody about to finish it
(`LooseDays`), are together at most as many as there were faults. The bound on
torn events alone is not inductive: an unfinished line costs an event only when
the next write goes behind it, perhaps days later. An event that json cannot encode
counts with those that were in memory at a fault. A flush moves at most one
file from the second count to the first. `ServicesTyping` adds the
types of the handlers in the composition, where each part rests or takes its own steps.

**ConnectorsProofs.** One invariant per connector, and `ConnectorsInv` for all: a step
of the composition is a step of one and a rest of the others.

- `RateHolds`: `PaidFor` says that the calls of the last `t` ticks were paid by a
  bucket that was full at most, and by `t - 1` refills. The bound on a whole minute
  alone is not inductive: it must hold for every part of the minute.
- `NamesStay`: `Collected` is any list of all operations in the order of paths, and
  the first of a name is the same one in each, whatever the order within a path.
- `ResultsComeWhole`: what each point of a call knows. The hard part is a search of
  directories that change under it, and of which it may not see all: `Covered` says
  that there is a set `V` of paths behind the walk with every match that stayed among
  the hits, and that whatever stayed and is not in `V` is before the walk, was
  skipped, or is below something that is not behind it. The walk ends with nothing
  before it, and, the paths being a tree, with nothing left out but what was skipped
  and what is below it.
- `WritesLast`: a file that is not `muddled` has one writer at most, who finds it
  empty, and no writer has left it half-way; an object call answered ok was served,
  or is one of the two deletes that may be answered so without.
- `RequestsGoOutWhole`: what a call in flight sends is what its name stands for, in the
  document of now; a reload has to wait for the mutex.
- `ConnectorsTyping`: types, and limits that are never zero, from any configuration.

**BootProofs.** `SecretsPersist` and `PasswordIsShown`, for any environment, any
texts and crashes anywhere, rest on `LoadInv`: `FirstBoot` says what a first boot
finds and leaves on disk at each of its points, torn files included; `Expanded`, that
the fields `substitute` is past have no reference left, and that one without a
reference is as on disk; `HashWasShown`, that the made hash is on disk only when the
password was printed, is about to be, or the boot was cut. Both properties speak of a
process that is up; without the points before that they are not inductive.
`EntriesHaveFiles` is about any number of calls, files and base names: `Overlaps` (two
calls about one name have marked it `mixed`), `Loading` (of other names, what is to be
loaded is in the directory) and `Entries` (the entry goes before the file).
`BadPluginsAreSkipped` adds `Loaded`: until the process serves, every library open is
what its file has, and every file that `LoadAll` is past has an entry under its name;
and `Registering`: what is registered or still to be are the builtin
connectors and the plugins that work. `LoadTyping` and `BootsTyping` give the types.

## 6. What is only model-checked, and what is left out

Liveness stays with TLC, as do facts that need `ENABLED`: `SaveReturns`,
`Converges`, `EventuallyCurrent`, `RemovedIsTornDown`, `ForReturns`, `Settles`,
`StartAndStopEnd`, `CallsEnd`. Every invariant and every action property of a
passing run is proved. The violated properties are
counterexamples and have no theorem other than the conditional ones above
(`SerialNoLeak` is also about `NoLeak` of the run `servers`, where nothing overlaps). That
`Expand` comes to an end when no variable leads back to itself is induction over a
rank of the words and stays with TLC, too (`SubstituteEnds`).

Left out of the modules: the text of YAML files (a file is one of a few
versions, or does not parse); errors of `os.Remove`, `readInstance` errors other
than absence and parse errors; time, except as `Apart` and `Prompt`; the
watcher's own error channel (logged only); the content of tool calls in `McpServers`
(the connectors' modules have it). Of the connectors: how a SQL text is taken
apart (`classify.go`: a statement is given with its kind and tables), how an
OpenAPI document is parsed and URLs are built, how git's text is parsed, symbolic
links (`FileTools` has the paths that `resolve` lets pass), `list_dir` and
`get_info` (one look at the directory each), presigned URLs, `list_buckets`,
resources and health checks other than swagger's (one request or one look each,
which changes nothing).

Left out of the project: metrics and log helpers (no behaviour of their own),
tokens and login (stateless, a library signs them), the MCP transport and the
OpenAPI export (routing, and a document built from constants), middleware, the web
console, examples and packaging.

## 7. Plan

What is left, in the order of its worth:

1. Refinement: `InstanceApi` without races implements a map of instances with
   atomic requests; `AuditRecorder` without faults an append-only log.
2. `classify.go` as a pure function on token sequences, against a reference
   definition of the tables that a statement reads.
3. `Boot` over `LiveRouter`: shutdown while a tick is reloading.
4. A run each for what section 4 only describes: the misnamed file, the two ways an
   instance stays live for good, the extra byte of fetch.
