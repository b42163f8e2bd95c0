----------------------------- MODULE LiveRouter -----------------------------
(***************************************************************************)
(* internal/core/core.go: the map r.live of running instances, kept in     *)
(* step with the store by request handlers (UpsertInstance,                *)
(* DeleteInstance) and by the goroutine watchStore.  All of them run       *)
(* reloadOne, and nothing orders two runs for one slug.  The store is its  *)
(* index (module InstanceStore); a connector is a handle that Init opens   *)
(* and Shutdown closes.                                                    *)
(***************************************************************************)
EXTENDS Naturals, Sequences, FiniteSets

CONSTANTS Slug,
          Ver,        \* contents of an instance file
          Type,       \* connector types
          Name,       \* connector names inside an instance
          Refs,       \* the connectors each version lists
          Registered, \* the types the registry knows
          Plugin,     \* those of them that a plugin provides
          Handle,     \* connector objects, reused when nothing refers to them
          Shared,     \* the one object that the factory of a plugin has
          Caller,     \* API requests in flight
          Ticker,     \* New's reloadAll, then the goroutine watchStore
          None,
          Overlap,    \* may two reloads of the process overlap in time
          External    \* does the store reconcile changes of the directory

\* Validate: an instance has a connector, and no (type, name) pair twice.
RefsAreValid ==
    \A v \in Ver :
        /\ Refs[v] # <<>>
        /\ \A i, j \in DOMAIN Refs[v] : Refs[v][i] = Refs[v][j] => i = j

Proc == Caller \cup {Ticker}
Conn == [type : Type, obj : Handle]           \* Manifest().Name, and the object
Conns == UNION {[N -> Conn] : N \in SUBSET Name}   \* by connector name
NoConns == [n \in {} |-> None]
Live == [spec : Ver, conns : Conns]

ASSUME ConstantsAssumption ==
    /\ Refs \in [Ver -> Seq([type : Type, name : Name])]
    /\ RefsAreValid
    /\ Plugin \subseteq Registered /\ Registered \subseteq Type
    /\ Shared \in [Plugin -> Handle]
    /\ Ticker \notin Caller
    /\ None \notin Ver \cup Slug \cup Live
    /\ {Overlap, External} \subseteq BOOLEAN

VARIABLES
    spec,   \* the store's index: the version of each instance, or None
    live,   \* r.live
    open,   \* handles that were initialised and not shut down
    job,    \* each process's run of reloadOne or DeleteInstance
    mode,   \* what the ticker is doing
    todo,   \* slugs it still has to reload
    current, known   \* its variables of these names

vars == <<spec, live, open, job, mode, todo, current, known>>

IdleJob == [pc |-> "idle", slug |-> None, inst |-> None, conns |-> NoConns]

List == {s \in Slug : spec[s] # None}
HandlesOf(c) == {c[n].obj : n \in DOMAIN c}
LiveHandles(s) == IF live[s] = None THEN {} ELSE HandlesOf(live[s].conns)
Holding(p) == HandlesOf(job[p].conns)
Objects == {Shared[t] : t \in Plugin}
Referenced == (UNION {LiveHandles(s) : s \in Slug})
              \cup (UNION {Holding(p) : p \in Proc})
AllIdle == \A p \in Proc : job[p] = IdleJob

Init == /\ spec \in [Slug -> Ver \cup {None}]
        /\ live = [s \in Slug |-> None]
        /\ open = {}
        /\ job = [p \in Proc |-> IdleJob]
        /\ mode = "boot"
        /\ todo = List
        /\ current = {} /\ known = {}

-----------------------------------------------------------------------------
(* Wrong variants of some steps below, each a bug this code could have had. *)

BuildNilEntry(p) == \* a failing Init leaves a nil connector in the map
    /\ job[p].pc = "build"
    /\ job' = [job EXCEPT ![p].pc = "publish",
                         ![p].conns = [n \in Name |-> None]]
    /\ UNCHANGED <<spec, live, open, mode, todo, current, known>>
BuildShared(p) == \* a factory that returns the same connector every time
    /\ job[p].pc = "build"
    /\ \E h \in Handle, i \in DOMAIN Refs[job[p].inst] :
         LET r == Refs[job[p].inst][i]
         IN  /\ open' = open \cup {h}
             /\ job' = [job EXCEPT ![p].pc = "publish", ![p].conns =
                          [n \in {r.name} |-> [type |-> r.type, obj |-> h]]]
    /\ UNCHANGED <<spec, live, mode, todo, current, known>>
ShutOldForgotten(p) == \* the old version is replaced, not shut down
    /\ job[p].pc = "shut"
    /\ job' = [job EXCEPT ![p].pc = "build"]
    /\ UNCHANGED <<spec, live, open, mode, todo, current, known>>
PublishIfComplete(p) == \* keep the old version when no connector came up
    /\ job[p].pc = "publish"
    /\ live' = IF DOMAIN job[p].conns = {} THEN live
               ELSE [live EXCEPT ![job[p].slug] =
                       [spec |-> job[p].inst, conns |-> job[p].conns]]
    /\ job' = [job EXCEPT ![p] = IdleJob]
    /\ UNCHANGED <<spec, open, mode, todo, current, known>>
UnloadKeepsEntry(p) == \* shut down, but leave the map entry
    /\ job[p].pc = "unload"
    /\ open' = open \ LiveHandles(job[p].slug)
    /\ job' = [job EXCEPT ![p] = IdleJob]
    /\ UNCHANGED <<spec, live, mode, todo, current, known>>
TickAdded == \* reload added instances only
    /\ mode = "wait"
    /\ current' = List /\ todo' = List \ known /\ mode' = "reload"
    /\ UNCHANGED <<spec, live, open, job, known>>

-----------------------------------------------------------------------------
(* reloadOne, and the end of DeleteInstance *)

\* A process starts reloadOne(s) (at "get") or the second half of
\* DeleteInstance (at "unload").
Start(p, s, l) ==
    /\ job[p] = IdleJob
    /\ Overlap \/ AllIdle
    /\ job' = [job EXCEPT ![p] = [IdleJob EXCEPT !.pc = l, !.slug = s]]

\* inst := r.instances.Get(slug)
Get(p) == /\ job[p].pc = "get"
          /\ LET i == spec[job[p].slug]
             IN  job' = [job EXCEPT ![p].inst = i,
                           ![p].pc = IF i = None THEN "unload" ELSE "shut"]
          /\ UNCHANGED <<spec, live, open, mode, todo, current, known>>

\* live.Load and shutdownLive: the old version stays in the map for now.
ShutOld(p) == /\ job[p].pc = "shut"
              /\ open' = open \ LiveHandles(job[p].slug)
              /\ job' = [job EXCEPT ![p].pc = "build"]
              /\ UNCHANGED <<spec, live, mode, todo, current, known>>

\* Of the references in ok, those that no later namesake takes the entry from.
Kept(refs, ok) == {i \in ok : \A j \in ok : refs[j].name = refs[i].name => j <= i}

\* The map built from the references in ok, h being their new connectors.
Entries(refs, ok, h) ==
    [n \in {refs[i].name : i \in Kept(refs, ok)} |->
       LET i == CHOOSE k \in Kept(refs, ok) : refs[k].name = n
       IN  [type |-> refs[i].type, obj |-> h[i]]]

\* What the factories may return for the references in ok: those of builtin
\* types a new object each, those of plugins always their own.
Factories(refs, ok) ==
    {h \in [ok -> Handle] :
        /\ \A i \in ok : IF refs[i].type \in Plugin
                         THEN h[i] = Shared[refs[i].type]
                         ELSE h[i] \notin Referenced \cup Objects
        /\ \A i, j \in ok : h[i] = h[j] => i = j \/ h[i] \in Objects}

\* A connector for each reference; an unknown type or a failing Init is
\* skipped.
Build(p) ==
    /\ job[p].pc = "build"
    /\ LET refs == Refs[job[p].inst]
       IN  \E ok \in SUBSET {i \in DOMAIN refs : refs[i].type \in Registered} :
           \E h \in Factories(refs, ok) :
             /\ open' = open \cup {h[i] : i \in ok}
             /\ job' = [job EXCEPT ![p].pc = "publish",
                                  ![p].conns = Entries(refs, ok, h)]
    /\ UNCHANGED <<spec, live, mode, todo, current, known>>

\* r.live.Store(slug, live)
Publish(p) ==
    /\ job[p].pc = "publish"
    /\ live' = [live EXCEPT ![job[p].slug] =
                  [spec |-> job[p].inst, conns |-> job[p].conns]]
    /\ job' = [job EXCEPT ![p] = IdleJob]
    /\ UNCHANGED <<spec, open, mode, todo, current, known>>

\* live.Load and shutdownLive before live.Delete; nothing loaded, nothing done.
Unload(p) ==
    /\ job[p].pc = "unload"
    /\ IF live[job[p].slug] = None
       THEN job' = [job EXCEPT ![p] = IdleJob]
       ELSE job' = [job EXCEPT ![p].pc = "drop"]
    /\ open' = open \ LiveHandles(job[p].slug)
    /\ UNCHANGED <<spec, live, mode, todo, current, known>>

\* r.live.Delete(slug): whatever is in the map by now.
Drop(p) == /\ job[p].pc = "drop"
           /\ live' = [live EXCEPT ![job[p].slug] = None]
           /\ job' = [job EXCEPT ![p] = IdleJob]
           /\ UNCHANGED <<spec, open, mode, todo, current, known>>

Step(p) == Get(p) \/ ShutOld(p) \/ Build(p) \/ Publish(p) \/ Unload(p) \/ Drop(p)

-----------------------------------------------------------------------------
(* Requests, and changes the store finds on disk *)

\* UpsertInstance, its Save having succeeded: reloadOne follows.
Upsert(c, s) == /\ mode # "boot"
                /\ Start(c, s, "get")
                /\ \E v \in Ver : spec' = [spec EXCEPT ![s] = v]
                /\ UNCHANGED <<live, open, mode, todo, current, known>>

\* DeleteInstance: store.Delete, then the live instance.
Delete(c, s) == /\ mode # "boot"
                /\ Start(c, s, "unload")
                /\ spec' = [spec EXCEPT ![s] = None]
                /\ UNCHANGED <<live, open, mode, todo, current, known>>

\* reconcileFile updates the index; the router is not told.
StoreChange(s) == /\ External
                  /\ \E v \in Ver \cup {None} :
                       spec[s] # v /\ spec' = [spec EXCEPT ![s] = v]
                  /\ UNCHANGED <<live, open, job, mode, todo, current, known>>

-----------------------------------------------------------------------------
(* New and watchStore *)

\* The next reloadOne of reloadAll or of a tick, in map order.
TickReload == /\ \E s \in todo : Start(Ticker, s, "get") /\ todo' = todo \ {s}
              /\ UNCHANGED <<spec, live, open, mode, current, known>>

\* End of one of the ticker's loops.
TickNext ==
    /\ todo = {} /\ job[Ticker] = IdleJob
    /\ \/ mode = "boot" /\ mode' = "start" /\ UNCHANGED <<todo, known>>
       \/ mode = "reload" /\ mode' = "remove"
          /\ todo' = known \ current /\ UNCHANGED known
       \/ mode = "remove" /\ mode' = "wait" /\ known' = current /\ UNCHANGED todo
    /\ UNCHANGED <<spec, live, open, job, current>>

\* watchStore starts after New has reloaded everything.
WatchStart == /\ mode = "start"
              /\ known' = List
              /\ mode' = "wait"
              /\ UNCHANGED <<spec, live, open, job, todo, current>>

\* The ticker fires: a snapshot of the store, all of which is reloaded.
Tick == /\ mode = "wait"
        /\ current' = List
        /\ todo' = List
        /\ mode' = "reload"
        /\ UNCHANGED <<spec, live, open, job, known>>

TickerStep == TickReload \/ TickNext \/ WatchStart \/ Tick

-----------------------------------------------------------------------------
Input == \/ \E c \in Caller, s \in Slug : Upsert(c, s) \/ Delete(c, s)
         \/ \E s \in Slug : StoreChange(s)

Next == Input \/ TickerStep \/ \E p \in Proc : Step(p)

Spec == Init /\ [][Next]_vars

\* The ticker and the handlers keep running; connector Init and Shutdown return.
FairSpec == /\ Spec
            /\ WF_vars(TickerStep)
            /\ \A p \in Proc : WF_vars(Step(p))

-----------------------------------------------------------------------------
Pc == {"idle", "get", "shut", "build", "publish", "unload", "drop"}

TypeOK == /\ spec \in [Slug -> Ver \cup {None}]
          /\ live \in [Slug -> Live \cup {None}]
          /\ open \subseteq Handle
          /\ job \in [Proc -> [pc : Pc, slug : Slug \cup {None},
                               inst : Ver \cup {None}, conns : Conns]]
          /\ mode \in {"boot", "start", "wait", "reload", "remove"}
          /\ todo \subseteq Slug /\ current \subseteq Slug /\ known \subseteq Slug

\* A reload never publishes a builtin connector that someone has shut down
\* meanwhile, however many reloads, deletes and ticks run beside it.  The object
\* of a plugin is excepted: any other reload may have shut it down.
PublishesOpen ==
    [][\A s \in Slug : live'[s] # live[s] => LiveHandles(s)' \ Objects \subseteq open']_vars

\* "Connectors may hold network resources": a connector that was initialised
\* and not shut down is in the live map or about to be put there.
NoLeak == open \subseteq Referenced

\* While nobody is reloading, every connector of a builtin type a request can
\* get is usable.  Of plugins AllUsable tells.
RestIsOpen == AllIdle => \A s \in Slug : LiveHandles(s) \ Objects \subseteq open

\* A connector is "instantiated once per instance per connector", so that what
\* becomes of one instance leaves the connectors of the others usable: all of
\* them while nobody is reloading, those of plugins too.
AllUsable == AllIdle => \A s \in Slug : LiveHandles(s) \subseteq open

\* Once changes stop, the live version of every stored instance is the stored
\* one, for good: a reload that published an old version late is put right.
EventuallyCurrent ==
    <>[][~Input]_vars =>
        <>[](\A s \in List : live[s] # None /\ live[s].spec = spec[s])

\* An instance that is gone from the store goes from the live map if the last
\* tick, or the start of watchStore, had listed it, whatever overlaps.  Others
\* can stay live for good: one whose file went before any tick listed it, and
\* one that a reload publishes after DeleteInstance has overtaken it.
RemovedIsTornDown ==
    \A s \in Slug : mode = "wait" /\ s \in known /\ spec[s] = None
                       ~> live[s] = None \/ spec[s] # None
=============================================================================
