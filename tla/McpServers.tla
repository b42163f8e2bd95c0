----------------------------- MODULE McpServers -----------------------------
(***************************************************************************)
(* internal/mcp/server.go: ServerSet, the cache of MCP servers over the    *)
(* live map of LiveRouter.  Clients of /mcp/{slug} call For, which builds  *)
(* a server once and keeps it: nothing in the program calls Invalidate or  *)
(* InvalidateAll.  A server holds the connector handles it was built from. *)
(***************************************************************************)
EXTENDS LiveRouter

CONSTANT Client  \* requests to /mcp/{slug} in flight

VARIABLES
    servers,  \* s.servers: the tools of the cached server, or None
    mutex,    \* the client that has s.mu locked for writing, or None
    req,      \* each client's run of For
    built     \* history: how many servers were ever built for a slug

mvars == <<servers, mutex, req, built>>

\* A tool is registered as <type>__<tool>, so a server has the tools of one
\* connector of each type: which one, and its object.
Tools == UNION {[T -> [name : Name, obj : Handle]] : T \in SUBSET Type}
NoTools == [t \in {} |-> None]

ASSUME ServersAssumption == None \notin Tools \cup Client

IdleReq == [pc |-> "idle", slug |-> None, inst |-> None, next |-> 1,
            tools |-> NoTools]

Known(s) == spec[s] # None

MCPInit == /\ Init
           /\ servers = [s \in Slug |-> None]
           /\ mutex = None
           /\ req = [k \in Client |-> IdleReq]
           /\ built = [s \in Slug |-> 0]

\* Handles a cached or half-built server still refers to are not reused.
CachedHandles ==
    (UNION {HandlesOf(servers[s]) : s \in {x \in Slug : servers[x] # None}})
    \cup (UNION {HandlesOf(req[k].tools) : k \in Client})

-----------------------------------------------------------------------------
(* Wrong variants of some steps below, each a bug this code could have had. *)

CheckOnce(k) == \* no second look under the lock
    LET s == req[k].slug
    IN  /\ req[k].pc = "check"
        /\ IF Known(s)
           THEN /\ req' = [req EXCEPT ![k].pc = "register", ![k].inst = spec[s]]
                /\ UNCHANGED mutex
           ELSE mutex' = None /\ req' = [req EXCEPT ![k].pc = "refused"]
        /\ UNCHANGED <<servers, built>>
CheckNoUnlock(k) == \* an early return without Unlock
    LET s == req[k].slug
    IN  /\ req[k].pc = "check"
        /\ IF servers[s] = None /\ Known(s)
           THEN req' = [req EXCEPT ![k].pc = "register", ![k].inst = spec[s]]
           ELSE req' = [req EXCEPT ![k].pc = "refused"]
        /\ UNCHANGED <<servers, mutex, built>>
RegisterMissing(k) == \* GetConnector's error is not looked at
    LET r == Refs[req[k].inst][req[k].next]
    IN  /\ req[k].pc = "register" /\ req[k].next <= Len(Refs[req[k].inst])
        /\ req' = [req EXCEPT ![k].next = @ + 1,
              ![k].tools = [t \in {r.type} |-> [name |-> r.name, obj |-> None]]]
        /\ UNCHANGED <<servers, mutex, built>>

-----------------------------------------------------------------------------
(* For *)

Request(k, s) ==
    /\ mode # "boot" /\ req[k].pc \in {"idle", "served", "refused"}
    /\ req' = [req EXCEPT ![k] = [IdleReq EXCEPT !.pc = "look", !.slug = s]]
    /\ UNCHANGED <<servers, mutex, built>>

\* The lookup under the read lock.
Look(k) == /\ req[k].pc = "look" /\ mutex = None
           /\ req' = [req EXCEPT ![k].pc =
                        IF servers[req[k].slug] # None THEN "served" ELSE "lock"]
           /\ UNCHANGED <<servers, mutex, built>>

Lock(k) == /\ req[k].pc = "lock" /\ mutex = None
           /\ mutex' = k
           /\ req' = [req EXCEPT ![k].pc = "check"]
           /\ UNCHANGED <<servers, built>>

\* Look again, now under the lock; then GetInstance.
Check(k) ==
    LET s == req[k].slug
    IN  /\ req[k].pc = "check"
        /\ \/ /\ servers[s] # None
              /\ mutex' = None /\ req' = [req EXCEPT ![k].pc = "served"]
           \/ /\ servers[s] = None /\ ~Known(s)
              /\ mutex' = None /\ req' = [req EXCEPT ![k].pc = "refused"]
           \/ /\ servers[s] = None /\ Known(s)
              /\ req' = [req EXCEPT ![k].pc = "register", ![k].inst = spec[s]]
              /\ UNCHANGED mutex
        /\ UNCHANGED <<servers, built>>

\* One turn of registerConnectors: GetConnector looks in the live map of now;
\* AddTool replaces a tool of the same name.
Register(k) ==
    LET r == req[k]
        n == Refs[r.inst][r.next].name
        found == live[r.slug] # None /\ n \in DOMAIN live[r.slug].conns
        c == live[r.slug].conns[n]
    IN  /\ r.pc = "register" /\ r.next <= Len(Refs[r.inst])
        /\ req' = [req EXCEPT
               ![k].next = @ + 1,
               ![k].tools = IF found
                            THEN [t \in DOMAIN @ \cup {c.type} |->
                                    IF t = c.type THEN [name |-> n, obj |-> c.obj]
                                                  ELSE @[t]]
                            ELSE @]
        /\ UNCHANGED <<servers, mutex, built>>

\* The server goes into the cache; the deferred Unlock.
Cache(k) == /\ req[k].pc = "register" /\ req[k].next > Len(Refs[req[k].inst])
            /\ servers' = [servers EXCEPT ![req[k].slug] = req[k].tools]
            /\ built' = [built EXCEPT ![req[k].slug] = @ + 1]
            /\ mutex' = None
            /\ req' = [req EXCEPT ![k].pc = "served"]

ForStep(k) == Look(k) \/ Lock(k) \/ Check(k) \/ Register(k) \/ Cache(k)

-----------------------------------------------------------------------------
InFor(k) == req[k].pc \in {"look", "lock", "check", "register"}

\* A step of the router.
RouterStep == /\ Next
              /\ (open' \ open) \cap CachedHandles \subseteq Objects
              /\ UNCHANGED mvars

ClientStep == /\ \E k \in Client : ForStep(k) \/ \E s \in Slug : Request(k, s)
              /\ UNCHANGED vars

MCPNext == RouterStep \/ ClientStep

MCPSpec == MCPInit /\ [][MCPNext]_<<vars, mvars>>

\* sync.RWMutex starves nobody: who waits for it gets it in the end.
MCPFairSpec ==
    /\ MCPSpec
    /\ \A k \in Client : /\ SF_<<vars, mvars>>((Look(k) \/ Lock(k)) /\ UNCHANGED vars)
                         /\ WF_<<vars, mvars>>(ForStep(k) /\ UNCHANGED vars)

-----------------------------------------------------------------------------
MCPTypeOK ==
    /\ servers \in [Slug -> Tools \cup {None}]
    /\ mutex \in Client \cup {None}
    /\ req \in [Client -> [pc : {"idle", "look", "lock", "check", "register",
                                  "served", "refused"},
                           slug : Slug \cup {None}, inst : Ver \cup {None},
                           next : Nat, tools : Tools]]
    /\ built \in [Slug -> Nat]

\* However many clients arrive at once, a slug has one server, so all its
\* sessions see the same one.
OneServer == \A s \in Slug : built[s] <= 1

\* For returns, whatever the router and the other clients do.
ForReturns == \A k \in Client : InFor(k) ~> ~InFor(k)

\* "Always reflects the latest set of configured connectors": while nobody is
\* reloading, a server's tools reach the connectors of the live map.
ReflectsLatest ==
    AllIdle => \A s \in Slug : servers[s] # None /\ live[s] # None =>
                  HandlesOf(servers[s]) \subseteq LiveHandles(s)
=============================================================================
