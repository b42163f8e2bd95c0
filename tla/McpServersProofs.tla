--------------------------- MODULE McpServersProofs ---------------------------
(***************************************************************************)
(* Theorems about McpServers, for every number of clients and instances    *)
(* and whatever the router does beside them.                               *)
(***************************************************************************)
EXTENDS McpServers, LiveRouterProofs

\* The router below takes its own steps and no others, so what is proved about
\* it holds with clients, too.
LEMMA RouterGoesOn == MCPSpec => Spec
<1>1. MCPInit => Init
  BY DEF MCPInit
<1>2. [MCPNext]_<<vars, mvars>> => [Next]_vars
  BY DEF MCPNext, RouterStep, ClientStep
<1> QED
  BY <1>1, <1>2, PTL DEF MCPSpec, Spec

\* What a client knows at each point of For, and the count of servers built:
\* the one who registers holds the lock, and has seen that there is no server.
ForInv ==
    /\ \A k \in Client :
          /\ req[k].pc # "idle" => req[k].slug \in Slug
          /\ req[k].pc \in {"check", "register"} => mutex = k
          /\ req[k].pc \in {"look", "lock", "check", "register"} => req[k].next # 0
          /\ req[k].pc = "register" => /\ req[k].inst \in Ver
                                       /\ servers[req[k].slug] = None
    /\ \A s \in Slug : built[s] = IF servers[s] = None THEN 0 ELSE 1

ServersInv == MCPTypeOK /\ ForInv

\* The types of the fields of a request.
ForType == [pc : {"idle", "look", "lock", "check", "register", "served", "refused"},
             slug : Slug \cup {None}, inst : Ver \cup {None}, next : Nat, tools : Tools]

LEMMA NoToolsType == NoTools \in Tools
<1>1. NoTools \in [{} -> [name : Name, obj : Handle]]
  BY DEF NoTools
<1> QED
  BY <1>1, Zenon DEF Tools

\* AddTool keeps a map of tools one.
LEMMA AddToolType ==
    ASSUME NEW tools \in Tools, NEW t \in Type, NEW n \in Name, NEW h \in Handle
    PROVE  [u \in DOMAIN tools \cup {t} |-> IF u = t THEN [name |-> n, obj |-> h]
                                            ELSE tools[u]] \in Tools
<1>1. PICK T \in SUBSET Type : tools \in [T -> [name : Name, obj : Handle]]
  BY DEF Tools
<1> DEFINE new == [u \in T \cup {t} |-> IF u = t THEN [name |-> n, obj |-> h] ELSE tools[u]]
<1>2. new \in [T \cup {t} -> [name : Name, obj : Handle]]
  BY <1>1
<1>3. T \cup {t} \in SUBSET Type
  OBVIOUS
<1>4. new \in Tools
  BY <1>2, <1>3, Zenon DEF Tools
<1> QED
  BY <1>1, <1>4

LEMMA ServersInit == MCPInit => ServersInv
BY NoToolsType, ServersAssumption DEF MCPInit, ServersInv, MCPTypeOK, ForInv, IdleReq

\* A step of one client that gives its request the value x keeps the invariant
\* if x and the shared variables agree with it.
LEMMA ClientKeeps ==
    ASSUME ServersInv, NEW k \in Client, NEW x \in ForType, req' = [req EXCEPT ![k] = x],
           servers' \in [Slug -> Tools \cup {None}], mutex' \in Client \cup {None},
           built' \in [Slug -> Nat],
           \A s \in Slug : built'[s] = IF servers'[s] = None THEN 0 ELSE 1,
           x.pc # "idle" => x.slug \in Slug,
           x.pc \in {"look", "lock", "check", "register"} => x.next # 0,
           x.pc \in {"check", "register"} => mutex' = k,
           x.pc = "register" => x.inst \in Ver /\ servers'[x.slug] = None,
           \A j \in Client \ {k} : req[j].pc \in {"check", "register"} =>
                                    UNCHANGED <<mutex, servers>>
    PROVE  ServersInv'
<1>1. MCPTypeOK'
  BY DEF ServersInv, MCPTypeOK, ForType
<1>2. req'[k] = x /\ \A j \in Client : j # k => req'[j] = req[j]
  BY DEF ServersInv, MCPTypeOK
<1>3. ASSUME NEW j \in Client
      PROVE  /\ req'[j].pc # "idle" => req'[j].slug \in Slug
             /\ req'[j].pc \in {"look", "lock", "check", "register"} => req'[j].next # 0
             /\ req'[j].pc \in {"check", "register"} => mutex' = j
             /\ req'[j].pc = "register" => /\ req'[j].inst \in Ver
                                           /\ servers'[req'[j].slug] = None
  <2>1. CASE j = k
    BY <1>2, <2>1
  <2>2. CASE j # k
    BY <1>2, <2>2 DEF ServersInv, ForInv
  <2> QED
    BY <2>1, <2>2
<1> QED
  BY <1>1, <1>3 DEF ServersInv, ForInv

\* A step of the router.
LEMMA RouterKeeps == ServersInv /\ UNCHANGED mvars => ServersInv'
BY DEF ServersInv, MCPTypeOK, ForInv, mvars

\* The clients' steps, one by one; the router's types are those of its own
\* theorem.
LEMMA RequestKeeps ==
    ASSUME ServersInv, NEW k \in Client, NEW s \in Slug, Request(k, s)
    PROVE  ServersInv'
<1>1. [IdleReq EXCEPT !.pc = "look", !.slug = s] \in ForType
  BY NoToolsType DEF IdleReq, ForType
<1>2. [IdleReq EXCEPT !.pc = "look", !.slug = s].pc = "look"
      /\ [IdleReq EXCEPT !.pc = "look", !.slug = s].slug = s
      /\ [IdleReq EXCEPT !.pc = "look", !.slug = s].next = 1
  BY DEF IdleReq
<1> DEFINE x == [IdleReq EXCEPT !.pc = "look", !.slug = s]
<1> HIDE DEF x
<1> QED
  BY <1>1, <1>2 DEF Request, ServersInv, MCPTypeOK, ForInv, ForType

\* What is known of a client at each point of For.
Knows(k) ==
    /\ req \in [Client -> ForType] /\ req[k] \in ForType
    /\ servers \in [Slug -> Tools \cup {None}] /\ mutex \in Client \cup {None}
    /\ built \in [Slug -> Nat]
    /\ \A s \in Slug : built[s] = IF servers[s] = None THEN 0 ELSE 1
    /\ req[k].pc # "idle" => req[k].slug \in Slug
    /\ req[k].pc \in {"look", "lock", "check", "register"} => req[k].next # 0
    /\ req[k].pc \in {"check", "register"} =>
          mutex = k /\ \A j \in Client \ {k} : req[j].pc \notin {"check", "register"}
    /\ req[k].pc = "register" => req[k].inst \in Ver /\ servers[req[k].slug] = None

LEMMA InForFacts == ASSUME ServersInv, NEW k \in Client PROVE Knows(k)
BY DEF ServersInv, MCPTypeOK, ForInv, ForType, Knows

\* The value of a request that goes to another point of For.
LEMMA Moved ==
    ASSUME NEW r \in ForType, NEW x,
           NEW pc \in {"idle", "look", "lock", "check", "register", "served", "refused"},
           x = [r EXCEPT !.pc = pc]
    PROVE  /\ x \in ForType /\ x.pc = pc /\ x.slug = r.slug
           /\ x.inst = r.inst /\ x.next = r.next /\ x.tools = r.tools
BY DEF ForType

\* The value of a request after a turn of registerConnectors.
LEMMA Turned ==
    ASSUME NEW r \in ForType, NEW tools \in Tools, NEW x,
           x = [r EXCEPT !.next = @ + 1, !.tools = tools]
    PROVE  /\ x \in ForType /\ x.pc = r.pc /\ x.slug = r.slug
           /\ x.inst = r.inst /\ x.next # 0
<1> DEFINE m == r.next + 1
<1>1. m \in Nat /\ m # 0
  BY DEF ForType
<1>2. x = [r EXCEPT !.next = m, !.tools = tools]
  OBVIOUS
<1> HIDE DEF m
<1>3. x \in ForType /\ x.pc = r.pc /\ x.slug = r.slug /\ x.inst = r.inst /\ x.next = m
  BY <1>1, <1>2 DEF ForType
<1> QED
  BY <1>1, <1>3

\* A step of a client that builds nothing.
LEMMA NothingBuilt ==
    ASSUME ServersInv, NEW k \in Client, Knows(k), NEW x \in ForType,
           req' = [req EXCEPT ![k] = x], UNCHANGED <<servers, built>>,
           mutex' \in Client \cup {None},
           mutex' = mutex \/ \A j \in Client \ {k} : req[j].pc \notin {"check", "register"},
           x.pc # "idle" => x.slug \in Slug,
           x.pc \in {"look", "lock", "check", "register"} => x.next # 0,
           x.pc \in {"check", "register"} => mutex' = k,
           x.pc = "register" => x.inst \in Ver /\ servers[x.slug] = None
    PROVE  ServersInv'
<1>1. servers' \in [Slug -> Tools \cup {None}] /\ built' \in [Slug -> Nat]
  BY DEF Knows
<1>2. \A s \in Slug : built'[s] = IF servers'[s] = None THEN 0 ELSE 1
  BY DEF Knows
<1>3. \A j \in Client \ {k} : req[j].pc \in {"check", "register"} => UNCHANGED <<mutex, servers>>
  OBVIOUS
<1>4. x.pc = "register" => x.inst \in Ver /\ servers'[x.slug] = None
  OBVIOUS
<1> QED
  BY <1>1, <1>2, <1>3, <1>4, ClientKeeps

LEMMA LookKeeps ==
    ASSUME ServersInv, NEW k \in Client, Look(k)
    PROVE  ServersInv'
<1>k. Knows(k)
  BY InForFacts
<1>r. req[k] \in ForType /\ mutex \in Client \cup {None}
  BY <1>k DEF Knows
<1> DEFINE pc == IF servers[req[k].slug] # None THEN "served" ELSE "lock"
           x == [req[k] EXCEPT !.pc = pc]
<1>1. /\ req[k].pc = "look" /\ req' = [req EXCEPT ![k] = x] /\ UNCHANGED <<servers, mutex, built>>
  BY DEF Look
<1>2. pc \in {"served", "lock"}
  OBVIOUS
<1>3. x = [req[k] EXCEPT !.pc = pc]
  OBVIOUS
<1> HIDE DEF pc, x
<1>4. x \in ForType /\ x.pc = pc /\ x.slug = req[k].slug /\ x.next = req[k].next
  BY <1>2, <1>3, <1>r, Moved
<1>5. x.slug \in Slug /\ x.next # 0
  BY <1>1, <1>4, <1>k DEF Knows
<1> QED
  BY <1>1, <1>2, <1>4, <1>5, <1>r, <1>k, NothingBuilt

LEMMA LockKeeps ==
    ASSUME ServersInv, NEW k \in Client, Lock(k)
    PROVE  ServersInv'
<1>k. Knows(k)
  BY InForFacts
<1>r. req[k] \in ForType
  BY <1>k DEF Knows
<1> DEFINE x == [req[k] EXCEPT !.pc = "check"]
<1>1. /\ req[k].pc = "lock" /\ mutex = None /\ mutex' = k
      /\ req' = [req EXCEPT ![k] = x] /\ UNCHANGED <<servers, built>>
  BY DEF Lock
<1>2. x = [req[k] EXCEPT !.pc = "check"]
  OBVIOUS
<1> HIDE DEF x
<1>3. x \in ForType /\ x.pc = "check" /\ x.slug = req[k].slug /\ x.next = req[k].next
  BY <1>2, <1>r, Moved
<1>4. \A j \in Client : req[j].pc \notin {"check", "register"}
  BY <1>1, ServersAssumption DEF ServersInv, ForInv
<1>5. x.slug \in Slug /\ x.next # 0
  BY <1>1, <1>3, <1>k DEF Knows
<1> QED
  BY <1>1, <1>3, <1>4, <1>5, <1>k, NothingBuilt

LEMMA CheckKeeps ==
    ASSUME ServersInv, TypeOK, NEW k \in Client, Check(k)
    PROVE  ServersInv'
<1>k. Knows(k)
  BY InForFacts
<1>r. req[k] \in ForType
  BY <1>k DEF Knows
<1>0. req[k].pc = "check" /\ UNCHANGED <<servers, built>>
  BY DEF Check
<1>a. /\ req[k].slug \in Slug /\ req[k].next # 0 /\ mutex = k /\ mutex \in Client \cup {None}
      /\ \A j \in Client \ {k} : req[j].pc \notin {"check", "register"}
  BY <1>0, <1>k DEF Knows
<1>1. ASSUME NEW pc \in {"served", "refused"}, req' = [req EXCEPT ![k].pc = pc], mutex' = None
      PROVE  ServersInv'
  <2> DEFINE x == [req[k] EXCEPT !.pc = pc]
  <2>1. req' = [req EXCEPT ![k] = x] /\ x = [req[k] EXCEPT !.pc = pc]
    BY <1>1
  <2> HIDE DEF x
  <2>2. x \in ForType /\ x.pc = pc /\ x.slug = req[k].slug
    BY <2>1, <1>r, Moved
  <2> QED
    BY <1>0, <1>1, <1>a, <2>1, <2>2, <1>k, NothingBuilt
<1>2. CASE /\ servers[req[k].slug] = None /\ Known(req[k].slug)
           /\ req' = [req EXCEPT ![k].pc = "register", ![k].inst = spec[req[k].slug]]
           /\ UNCHANGED mutex
  <2> DEFINE v == spec[req[k].slug]
             x == [req[k] EXCEPT !.pc = "register", !.inst = v]
  <2>1. v \in Ver
    BY <1>a, <1>2 DEF Known, TypeOK
  <2>3. req' = [req EXCEPT ![k] = x]
    BY <1>2
  <2> HIDE DEF v
  <2>2. /\ x \in ForType /\ x.pc = "register" /\ x.slug = req[k].slug
        /\ x.inst = v /\ x.next = req[k].next
    BY <2>1, <1>r DEF ForType
  <2> HIDE DEF x
  <2> QED
    BY <1>0, <1>2, <1>a, <2>1, <2>2, <2>3, <1>k, NothingBuilt
<1> QED
  BY <1>1, <1>2 DEF Check

LEMMA RegisterKeeps ==
    ASSUME ServersInv, TypeOK, NEW k \in Client, Register(k)
    PROVE  ServersInv'
<1>k. Knows(k)
  BY InForFacts
<1> DEFINE r == req[k]
           n == Refs[r.inst][r.next].name
           found == live[r.slug] # None /\ n \in DOMAIN live[r.slug].conns
           c == live[r.slug].conns[n]
           tools == IF found THEN [t \in DOMAIN r.tools \cup {c.type} |->
                                     IF t = c.type THEN [name |-> n, obj |-> c.obj]
                                                   ELSE r.tools[t]]
                    ELSE r.tools
<1>1. /\ r \in ForType /\ r.pc = "register" /\ r.slug \in Slug /\ r.inst \in Ver
      /\ r.next \in Nat /\ r.next # 0 /\ r.next <= Len(Refs[r.inst])
  BY DEF Register, ServersInv, MCPTypeOK, ForInv, ForType
<1>2. r.next \in DOMAIN Refs[r.inst] /\ n \in Name
  <2>1. Refs[r.inst] \in Seq([type : Type, name : Name])
    BY <1>1, ConstantsAssumption
  <2>2. Len(Refs[r.inst]) \in Nat /\ DOMAIN Refs[r.inst] = 1 .. Len(Refs[r.inst])
    BY <2>1, LenProperties
  <2>3. r.next \in DOMAIN Refs[r.inst]
    BY <1>1, <2>2
  <2> QED
    BY <1>1, <2>3, RefsType
<1>3. tools \in Tools
  <2>1. r.tools \in Tools
    BY <1>1 DEF ForType
  <2>2. ASSUME found PROVE c.type \in Type /\ c.obj \in Handle
    <3>1. live[r.slug].conns \in Conns
      BY <1>1, <2>2 DEF TypeOK, Live
    <3>2. PICK N \in SUBSET Name : live[r.slug].conns \in [N -> Conn]
      BY <3>1 DEF Conns
    <3> QED
      BY <2>2, <3>2 DEF Conn
  <2>3. CASE found
    <3>1. c.type \in Type /\ c.obj \in Handle
      BY <2>2, <2>3
    <3> HIDE DEF found, c, n
    <3>2. [t \in DOMAIN r.tools \cup {c.type} |->
             IF t = c.type THEN [name |-> n, obj |-> c.obj] ELSE r.tools[t]] \in Tools
      BY <1>2, <2>1, <3>1, AddToolType
    <3> QED
      BY <2>3, <3>2
  <2>4. CASE ~found
    BY <2>1, <2>4
  <2> QED
    BY <2>3, <2>4
<1>4. /\ req' = [req EXCEPT ![k].next = @ + 1, ![k].tools = tools]
      /\ UNCHANGED <<servers, mutex, built>>
  BY Zenon DEF Register
<1> HIDE DEF n, found, c, tools
<1> DEFINE x == [r EXCEPT !.next = @ + 1, !.tools = tools]
<1>6. req' = [req EXCEPT ![k] = x] /\ x = [r EXCEPT !.next = @ + 1, !.tools = tools]
  BY <1>4
<1> HIDE DEF r, x
<1>5. /\ x \in ForType /\ x.pc = r.pc /\ x.slug = r.slug /\ x.inst = r.inst /\ x.next # 0
  BY <1>1, <1>3, <1>6, Turned
<1> USE DEF r
<1>7. /\ mutex = k /\ mutex \in Client \cup {None} /\ servers[x.slug] = None
  BY <1>1, <1>5, <1>k DEF Knows
<1> QED
  BY <1>1, <1>4, <1>5, <1>6, <1>7, <1>k, NothingBuilt

LEMMA CacheKeeps ==
    ASSUME ServersInv, NEW k \in Client, Cache(k)
    PROVE  ServersInv'
<1>k. Knows(k)
  BY InForFacts
<1>r. req[k] \in ForType
  BY <1>k DEF Knows
<1> DEFINE x == [req[k] EXCEPT !.pc = "served"]
           s == req[k].slug
<1>1. /\ req[k].pc = "register" /\ mutex' = None
      /\ req' = [req EXCEPT ![k] = x]
      /\ servers' = [servers EXCEPT ![s] = req[k].tools]
      /\ built' = [built EXCEPT ![s] = @ + 1]
  BY DEF Cache
<1>2. x = [req[k] EXCEPT !.pc = "served"]
  OBVIOUS
<1>t. req[k].tools \in Tools
  BY <1>r DEF ForType
<1>3. s \in Slug /\ servers[s] = None /\ built[s] = 0
  BY <1>1, <1>k DEF Knows
<1>4. req[k].tools # None
  BY <1>t, ServersAssumption
<1> DEFINE tools == req[k].tools
<1> HIDE DEF x, s
<1>5. x \in ForType /\ x.pc = "served" /\ x.slug = req[k].slug
  BY <1>2, <1>r, Moved
<1>6. x.slug \in Slug
  BY <1>1, <1>5, <1>k DEF Knows
<1>7. /\ servers' \in [Slug -> Tools \cup {None}] /\ built' \in [Slug -> Nat]
      /\ \A t \in Slug : built'[t] = IF servers'[t] = None THEN 0 ELSE 1
  <2>1. /\ servers' = [servers EXCEPT ![s] = tools] /\ tools \in Tools /\ tools # None
    BY <1>1, <1>t, <1>4
  <2> HIDE DEF tools
  <2>2. /\ servers \in [Slug -> Tools \cup {None}] /\ built \in [Slug -> Nat]
        /\ \A t \in Slug : built[t] = IF servers[t] = None THEN 0 ELSE 1
    BY <1>k DEF Knows
  <2> QED
    BY <1>1, <1>3, <2>1, <2>2
<1>8. \A j \in Client \ {k} : req[j].pc \notin {"check", "register"}
  BY <1>1, <1>k DEF Knows
<1> QED
  BY <1>1, <1>5, <1>6, <1>7, <1>8, ClientKeeps

LEMMA ServersNext ==
    ServersInv /\ TypeOK /\ [MCPNext]_<<vars, mvars>> => ServersInv'
<1> SUFFICES ASSUME ServersInv, TypeOK, [MCPNext]_<<vars, mvars>>
             PROVE  ServersInv'
  OBVIOUS
<1>1. CASE RouterStep \/ UNCHANGED <<vars, mvars>>
  BY <1>1, RouterKeeps DEF RouterStep
<1>2. ASSUME NEW k \in Client, ForStep(k) PROVE ServersInv'
  BY <1>2, LookKeeps, LockKeeps, CheckKeeps, RegisterKeeps, CacheKeeps DEF ForStep
<1>3. ASSUME NEW k \in Client, NEW s \in Slug, Request(k, s) PROVE ServersInv'
  BY <1>3, RequestKeeps
<1> QED
  BY <1>1, <1>2, <1>3 DEF MCPNext, ClientStep

LEMMA ServersInvHolds == MCPSpec => []ServersInv
<1>1. MCPSpec => []TypeOK
  BY RouterGoesOn, Typing, PTL
<1> QED
  BY ServersInit, ServersNext, <1>1, PTL DEF MCPSpec

\* The variables of the server cache keep their types.
THEOREM ServersTyping == MCPSpec => []MCPTypeOK
<1>1. ServersInv => MCPTypeOK
  BY DEF ServersInv
<1> QED
  BY ServersInvHolds, <1>1, PTL

\* However many clients ask for a slug at once, and however often, at most one
\* server is ever built for it.
THEOREM OneServerEach == MCPSpec => []OneServer
<1>1. ServersInv => OneServer
  BY DEF ServersInv, ForInv, OneServer
<1> QED
  BY ServersInvHolds, <1>1, PTL

\* An instance at rest has open builtin connectors, with clients as without.
THEOREM UsableWithClients == MCPSpec => []RestIsOpen
BY RouterGoesOn, UsableAtRest, PTL

=============================================================================
