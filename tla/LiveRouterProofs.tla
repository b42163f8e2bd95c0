-------------------------- MODULE LiveRouterProofs --------------------------
(***************************************************************************)
(* Theorems about LiveRouter, for every set of instances, versions,        *)
(* connectors, handles and callers.                                        *)
(***************************************************************************)
EXTENDS LiveRouter, SequenceTheorems, TLAPS

\* The versions have at least one connector each, in a sequence of references.
LEMMA RefsType ==
    ASSUME NEW v \in Ver
    PROVE  /\ DOMAIN Refs[v] = 1 .. Len(Refs[v])
           /\ \A i \in DOMAIN Refs[v] : /\ Refs[v][i].type \in Type
                                        /\ Refs[v][i].name \in Name
<1>1. Refs[v] \in Seq([type : Type, name : Name])
  BY ConstantsAssumption
<1>2. /\ DOMAIN Refs[v] = 1 .. Len(Refs[v])
      /\ \A i \in 1 .. Len(Refs[v]) : Refs[v][i] \in [type : Type, name : Name]
  BY <1>1, LenProperties, ElementOfSeq
<1> QED
  BY <1>2

\* The empty map refers to nothing.
LEMMA NoConnsType == NoConns \in Conns /\ HandlesOf(NoConns) = {}
<1>1. NoConns \in [{} -> Conn]
  BY DEF NoConns
<1>2. {} \in SUBSET Name
  OBVIOUS
<1> QED
  BY <1>1, <1>2 DEF Conns, HandlesOf, NoConns

\* The map a Build puts together: its type, and where its handles come from.
LEMMA EntriesType ==
    ASSUME NEW v \in Ver, NEW ok \in SUBSET DOMAIN Refs[v],
           NEW H \in SUBSET Handle, NEW h \in [ok -> H]
    PROVE  /\ Entries(Refs[v], ok, h) \in Conns
           /\ HandlesOf(Entries(Refs[v], ok, h)) \subseteq {h[i] : i \in ok}
<1> DEFINE refs == Refs[v]
           K == Kept(refs, ok)
           N == {refs[i].name : i \in K}
           pick(n) == CHOOSE k \in K : refs[k].name = n
           c == Entries(refs, ok, h)
<1>1. K \subseteq ok
  BY DEF Kept
<1>2. N \in SUBSET Name
  BY <1>1, RefsType
<1>3. ASSUME NEW n \in N PROVE pick(n) \in K
  BY <1>3
<1>4. c = [n \in N |-> [type |-> refs[pick(n)].type, obj |-> h[pick(n)]]]
  BY DEF Entries
<1>5. ASSUME NEW n \in N
      PROVE  /\ [type |-> refs[pick(n)].type, obj |-> h[pick(n)]] \in Conn
             /\ h[pick(n)] \in {h[i] : i \in ok}
  <2>1. pick(n) \in ok
    BY <1>1, <1>3
  <2> HIDE DEF pick
  <2> QED
    BY <2>1, RefsType DEF Conn
<1> HIDE DEF pick, c, N, refs, K
<1>6. c \in [N -> Conn]
  BY <1>4, <1>5
<1>7. ASSUME NEW n \in N PROVE c[n].obj \in {h[i] : i \in ok}
  BY <1>4, <1>5, <1>7
<1> QED
  BY <1>2, <1>6, <1>7 DEF Conns, HandlesOf, c, refs

-----------------------------------------------------------------------------
(* Types, and what each point of reloadOne knows of its own variables.      *)

JobOK(p) == /\ job[p].pc # "idle" => job[p].slug \in Slug
            /\ job[p].pc = "idle" => job[p] = IdleJob
            /\ job[p].pc \in {"shut", "build", "publish"} => job[p].inst \in Ver
            /\ job[p].pc # "publish" => job[p].conns = NoConns

TypeInv == TypeOK /\ \A p \in Proc : JobOK(p)

JobType == [pc : Pc, slug : Slug \cup {None}, inst : Ver \cup {None}, conns : Conns]

\* A change of one process's job that suits TypeInv keeps it.
LEMMA JobChange ==
    ASSUME TypeInv, NEW p \in Proc, NEW j \in JobType,
           job' = [job EXCEPT ![p] = j],
           j.pc # "idle" => j.slug \in Slug,
           j.pc = "idle" => j = IdleJob,
           j.pc \in {"shut", "build", "publish"} => j.inst \in Ver,
           j.pc # "publish" => j.conns = NoConns
    PROVE  job' \in [Proc -> JobType] /\ \A q \in Proc : JobOK(q)'
  BY DEF TypeInv, TypeOK, JobOK, JobType

\* What an idle job looks like.
LEMMA IdleType == IdleJob \in JobType
  BY NoConnsType DEF IdleJob, JobType, Pc

\* Start moves an idle job to its first step.
LEMMA StartStep ==
    ASSUME TypeInv, NEW p \in Proc, NEW s \in Slug, NEW l \in {"get", "unload"},
           Start(p, s, l)
    PROVE  /\ job' \in [Proc -> JobType] /\ \A q \in Proc : JobOK(q)'
           /\ \A q \in Proc : job'[q].conns = job[q].conns
<1> DEFINE j == [IdleJob EXCEPT !.pc = l, !.slug = s]
<1>1. j \in JobType /\ j.pc = l /\ j.slug = s /\ j.conns = NoConns
  BY NoConnsType DEF IdleJob, JobType, Pc
<1>2. job' = [job EXCEPT ![p] = j] /\ job[p].conns = NoConns
  BY DEF Start, IdleJob
<1> HIDE DEF j
<1>3. job \in [Proc -> JobType]
  BY DEF TypeInv, TypeOK, JobType
<1> QED
  BY <1>1, <1>2, <1>3, JobChange

\* The types and what each point of reloadOne knows are kept by every step.
THEOREM TypeInvariant == Spec => []TypeInv
<1>1. Init => TypeInv
  BY NoConnsType DEF Init, TypeInv, TypeOK, JobOK, IdleJob, Pc, List
<1>2. TypeInv /\ [Next]_vars => TypeInv'
  <2> SUFFICES ASSUME TypeInv, [Next]_vars PROVE TypeInv'
    OBVIOUS
  <2>0. /\ spec \in [Slug -> Ver \cup {None}] /\ live \in [Slug -> Live \cup {None}]
        /\ open \subseteq Handle /\ job \in [Proc -> JobType]
        /\ \A p \in Proc : JobOK(p)
    BY DEF TypeInv, TypeOK, JobType
  <2>1. ASSUME NEW p \in Proc, Get(p) PROVE TypeInv'
    <3> DEFINE i == spec[job[p].slug]
               j == [job[p] EXCEPT !.inst = i,
                                   !.pc = IF i = None THEN "unload" ELSE "shut"]
    <3>1. job[p].pc = "get" /\ job[p].slug \in Slug /\ job[p].conns = NoConns
      BY <2>0, <2>1 DEF Get, JobOK
    <3>2. i \in Ver \cup {None}
      BY <2>0, <3>1
    <3>3. /\ j \in JobType /\ j.slug \in Slug /\ j.inst = i /\ j.conns = NoConns
          /\ j.pc \in {"unload", "shut"} /\ (j.pc = "shut" => i # None)
      BY <2>0, <3>1, <3>2 DEF JobType, Pc
    <3>4. job' = [job EXCEPT ![p] = j]
      BY <2>1, <2>0 DEF Get, JobType
    <3> HIDE DEF j, i
    <3>5. job' \in [Proc -> JobType] /\ \A q \in Proc : JobOK(q)'
      BY <3>2, <3>3, <3>4, JobChange
    <3> QED
      BY <2>1, <3>5 DEF Get, TypeInv, TypeOK, JobType
  <2>2. ASSUME NEW p \in Proc, ShutOld(p) PROVE TypeInv'
    <3> DEFINE j == [job[p] EXCEPT !.pc = "build"]
    <3>1. /\ j \in JobType /\ j.slug \in Slug /\ j.inst \in Ver
          /\ j.conns = NoConns /\ j.pc = "build"
      BY <2>0, <2>2 DEF ShutOld, JobOK, JobType, Pc
    <3>2. job' = [job EXCEPT ![p] = j]
      BY <2>2, <2>0 DEF ShutOld
    <3> HIDE DEF j
    <3>3. job' \in [Proc -> JobType] /\ \A q \in Proc : JobOK(q)'
      BY <3>1, <3>2, JobChange
    <3> QED
      BY <2>2, <3>3 DEF ShutOld, TypeInv, TypeOK, JobType
  <2>3. ASSUME NEW p \in Proc, Build(p) PROVE TypeInv'
    <3>1. job[p].pc = "build" /\ job[p].slug \in Slug /\ job[p].inst \in Ver
      BY <2>0, <2>3 DEF Build, JobOK
    <3> DEFINE refs == Refs[job[p].inst]
    <3>2. PICK ok \in SUBSET {i \in DOMAIN refs : refs[i].type \in Registered} :
            \E h \in Factories(refs, ok) :
              /\ open' = open \cup {h[i] : i \in ok}
              /\ job' = [job EXCEPT ![p].pc = "publish",
                                    ![p].conns = Entries(refs, ok, h)]
      BY <2>3 DEF Build
    <3>3. PICK h \in Factories(refs, ok) :
              /\ open' = open \cup {h[i] : i \in ok}
              /\ job' = [job EXCEPT ![p].pc = "publish",
                                    ![p].conns = Entries(refs, ok, h)]
      BY <3>2
    <3>4. h \in [ok -> Handle] /\ Entries(refs, ok, h) \in Conns
      BY <3>1, EntriesType DEF Factories
    <3>5. open' \subseteq Handle
      BY <2>0, <3>3, <3>4
    <3> DEFINE j == [job[p] EXCEPT !.pc = "publish", !.conns = Entries(refs, ok, h)]
    <3>6. j \in JobType /\ j.pc = "publish" /\ j.slug \in Slug /\ j.inst \in Ver
      BY <2>0, <3>1, <3>4 DEF JobType, Pc
    <3>7. job' = [job EXCEPT ![p] = j]
      BY <3>3, <2>0
    <3> HIDE DEF j
    <3>8. job' \in [Proc -> JobType] /\ \A q \in Proc : JobOK(q)'
      BY <3>6, <3>7, JobChange
    <3> QED
      BY <2>3, <3>5, <3>8 DEF Build, TypeInv, TypeOK, JobType
  <2>4. ASSUME NEW p \in Proc, Publish(p) PROVE TypeInv'
    <3>1. [spec |-> job[p].inst, conns |-> job[p].conns] \in Live
      BY <2>0, <2>4 DEF Publish, JobOK, JobType, Live
    <3>2. live' \in [Slug -> Live \cup {None}]
      BY <2>0, <2>4, <3>1 DEF Publish
    <3>3. job' \in [Proc -> JobType] /\ \A q \in Proc : JobOK(q)'
      BY <2>4, IdleType, JobChange DEF Publish, IdleJob
    <3> QED
      BY <2>4, <3>2, <3>3 DEF Publish, TypeInv, TypeOK, JobType
  <2>5. ASSUME NEW p \in Proc, Unload(p) PROVE TypeInv'
    <3> DEFINE j == [job[p] EXCEPT !.pc = "drop"]
    <3>1. /\ j \in JobType /\ j.slug \in Slug /\ j.conns = NoConns /\ j.pc = "drop"
      BY <2>0, <2>5 DEF Unload, JobOK, JobType, Pc
    <3>2. job' = [job EXCEPT ![p] = j] \/ job' = [job EXCEPT ![p] = IdleJob]
      BY <2>5, <2>0 DEF Unload
    <3> HIDE DEF j
    <3>3. CASE job' = [job EXCEPT ![p] = j]
      BY <2>5, <3>1, <3>3, JobChange DEF Unload, TypeInv, TypeOK, JobType
    <3>4. CASE job' = [job EXCEPT ![p] = IdleJob]
      <4>1. job' \in [Proc -> JobType] /\ \A q \in Proc : JobOK(q)'
        BY <3>4, IdleType, JobChange DEF IdleJob
      <4> QED
        BY <2>5, <4>1 DEF Unload, TypeInv, TypeOK, JobType
    <3> QED
      BY <3>2, <3>3, <3>4
  <2>6. ASSUME NEW p \in Proc, Drop(p) PROVE TypeInv'
    <3>1. job' \in [Proc -> JobType] /\ \A q \in Proc : JobOK(q)'
      BY <2>6, IdleType, JobChange DEF Drop, IdleJob
    <3> QED
      BY <2>6, <3>1 DEF Drop, TypeInv, TypeOK, JobType
  <2>7. ASSUME NEW c \in Caller, NEW s \in Slug, Upsert(c, s) PROVE TypeInv'
    <3>1. job' \in [Proc -> JobType] /\ \A q \in Proc : JobOK(q)'
      BY <2>7, StartStep DEF Upsert, Proc
    <3> QED
      BY <2>7, <3>1 DEF Upsert, TypeInv, TypeOK, JobType
  <2>8. ASSUME NEW c \in Caller, NEW s \in Slug, Delete(c, s) PROVE TypeInv'
    <3>1. job' \in [Proc -> JobType] /\ \A q \in Proc : JobOK(q)'
      BY <2>8, StartStep DEF Delete, Proc
    <3> QED
      BY <2>8, <3>1 DEF Delete, TypeInv, TypeOK, JobType
  <2>9. ASSUME NEW s \in Slug, StoreChange(s) PROVE TypeInv'
    BY <2>9 DEF StoreChange, TypeInv, TypeOK, JobOK
  <2>10. CASE TickReload
    <3>1. job' \in [Proc -> JobType] /\ (\A q \in Proc : JobOK(q)')
          /\ todo' \subseteq Slug
      BY <2>10, StartStep DEF TickReload, Proc, TypeInv, TypeOK
    <3> QED
      BY <2>10, <3>1 DEF TickReload, TypeInv, TypeOK, JobType
  <2>11. CASE TickNext
    BY <2>11 DEF TickNext, TypeInv, TypeOK, JobOK
  <2>12. CASE WatchStart
    BY <2>12 DEF WatchStart, List, TypeInv, TypeOK, JobOK
  <2>13. CASE Tick
    BY <2>13 DEF Tick, List, TypeInv, TypeOK, JobOK
  <2>14. CASE UNCHANGED vars
    BY <2>14 DEF vars, TypeInv, TypeOK, JobOK
  <2> QED
    BY <2>1, <2>2, <2>3, <2>4, <2>5, <2>6, <2>7, <2>8, <2>9, <2>10, <2>11,
       <2>12, <2>13, <2>14 DEF Next, Input, TickerStep, Step
<1> QED
  BY <1>1, <1>2, PTL DEF Spec

\* Every variable keeps its type.
THEOREM Typing == Spec => []TypeOK
  BY TypeInvariant, PTL DEF TypeInv

-----------------------------------------------------------------------------
(* Who refers to a connector.  What a reload has built is open and its own  *)
(* until it publishes it, and what is published belongs to one instance, so *)
(* whatever another process shuts down is not among what this one is about  *)
(* to publish.  All this of builtin types: the objects of plugins belong to *)
(* everybody.                                                               *)

Owned ==
    /\ \A p \in Proc : Holding(p) \ Objects \subseteq open
    /\ \A p, q \in Proc : p # q => Holding(p) \cap Holding(q) \subseteq Objects
    /\ \A p \in Proc, s \in Slug : Holding(p) \cap LiveHandles(s) \subseteq Objects
    /\ \A r, s \in Slug : r # s => LiveHandles(r) \cap LiveHandles(s) \subseteq Objects

\* The five effects a step can have on jobs' connectors, the live map and the
\* connectors that are open.
OthersHold(P) == \A q \in Proc \ P : Holding(q)' = Holding(q)
OthersLive(S) == \A r \in Slug \ S : LiveHandles(r)' = LiveHandles(r)

Untouched == OthersHold({}) /\ OthersLive({}) /\ open' = open
Closes(s) == /\ OthersHold({}) /\ OthersLive({})
             /\ open' = open \ LiveHandles(s)
Opens(p) == /\ OthersHold({p}) /\ OthersLive({})
            /\ Holding(p) = {}
            /\ Holding(p)' \cap Referenced \subseteq Objects
            /\ Holding(p)' \subseteq open'
            /\ open \subseteq open'
Publishes(p, s) == /\ OthersHold({p}) /\ OthersLive({s})
                   /\ LiveHandles(s)' = Holding(p) /\ Holding(p)' = {}
                   /\ open' = open
Drops(s) == /\ OthersHold({}) /\ OthersLive({s})
            /\ LiveHandles(s)' = {}
            /\ open' = open

\* What the jobs hold follows from their maps of connectors.
LEMMA SameHolding ==
    ASSUME NEW P, \A q \in Proc \ P : job'[q].conns = job[q].conns
    PROVE  OthersHold(P)
  BY DEF OthersHold, Holding, HandlesOf

\* So do the handles of live instances from the live map.
LEMMA SameLive ==
    ASSUME NEW S, \A r \in Slug \ S : live'[r] = live[r]
    PROVE  OthersLive(S)
  BY DEF OthersLive, LiveHandles, HandlesOf

\* A job that starts holds nothing yet.
LEMMA StartEffect ==
    ASSUME TypeInv, NEW p \in Proc, NEW s \in Slug, NEW l \in {"get", "unload"},
           Start(p, s, l)
    PROVE  OthersHold({})
  BY StartStep, SameHolding

\* Reading the store touches no connector.
LEMMA GetEffect ==
    ASSUME TypeInv, NEW p \in Proc, Get(p)
    PROVE  Untouched
<1>1. \A q \in Proc : job'[q].conns = job[q].conns
  BY DEF Get, TypeInv, TypeOK
<1> QED
  BY <1>1, SameHolding, SameLive DEF Get, Untouched

\* ShutOld and Unload close the live connectors of the job's slug.
LEMMA CloseEffect ==
    ASSUME TypeInv, NEW p \in Proc, ShutOld(p) \/ Unload(p)
    PROVE  job[p].slug \in Slug /\ Closes(job[p].slug)
<1>1. job[p].slug \in Slug /\ job[p].conns = NoConns
  BY DEF TypeInv, JobOK, ShutOld, Unload
<1>2. \A q \in Proc : job'[q].conns = job[q].conns
  BY <1>1 DEF TypeInv, TypeOK, ShutOld, Unload, IdleJob
<1>3. live' = live /\ open' = open \ LiveHandles(job[p].slug)
  BY DEF ShutOld, Unload
<1> QED
  BY <1>1, <1>2, <1>3, SameHolding, SameLive DEF Closes

\* What Build opens nobody referred to, or it belongs to a plugin.
LEMMA BuildEffect ==
    ASSUME TypeInv, NEW p \in Proc, Build(p)
    PROVE  Opens(p)
<1> DEFINE refs == Refs[job[p].inst]
<1>1. PICK ok \in SUBSET {i \in DOMAIN refs : refs[i].type \in Registered} :
        \E h \in Factories(refs, ok) :
          /\ open' = open \cup {h[i] : i \in ok}
          /\ job' = [job EXCEPT ![p].pc = "publish",
                                ![p].conns = Entries(refs, ok, h)]
  BY DEF Build
<1>2. PICK h \in Factories(refs, ok) :
          /\ open' = open \cup {h[i] : i \in ok}
          /\ job' = [job EXCEPT ![p].pc = "publish",
                                ![p].conns = Entries(refs, ok, h)]
  BY <1>1
<1>3. job[p].inst \in Ver /\ job[p].conns = NoConns
  BY DEF Build, TypeInv, JobOK
<1>4. HandlesOf(Entries(refs, ok, h)) \subseteq {h[i] : i \in ok}
  <2>1. h \in [ok -> Handle]
    BY <1>2 DEF Factories
  <2> QED
    BY <1>3, <2>1, EntriesType
<1>5. /\ job'[p].conns = Entries(refs, ok, h)
      /\ \A q \in Proc \ {p} : job'[q].conns = job[q].conns
  BY <1>2 DEF TypeInv, TypeOK
<1>6. Holding(p)' = HandlesOf(Entries(refs, ok, h))
  BY <1>5 DEF Holding, HandlesOf
<1>7. OthersHold({p}) /\ OthersLive({})
  BY <1>5, SameHolding, SameLive DEF Build
<1>8. {h[i] : i \in ok} \cap Referenced \subseteq Objects
  <2>1. ASSUME NEW i \in ok, h[i] \in Referenced PROVE h[i] \in Objects
    BY <1>2, <2>1 DEF Factories, Objects
  <2> QED
    BY <2>1
<1>9. Holding(p) = {}
  BY <1>3, NoConnsType DEF Holding
<1> QED
  BY <1>2, <1>4, <1>6, <1>7, <1>8, <1>9 DEF Opens

\* Publish moves connectors from the job to the live map.
LEMMA PublishEffect ==
    ASSUME TypeInv, NEW p \in Proc, Publish(p), NEW s, s = job[p].slug
    PROVE  s \in Slug /\ Publishes(p, s)
<1> DEFINE l == [spec |-> job[p].inst, conns |-> job[p].conns]
<1>1. s \in Slug /\ job[p].inst \in Ver
  BY DEF Publish, TypeInv, JobOK
<1>2. l \in Live /\ l # None
  BY <1>1, ConstantsAssumption DEF TypeInv, TypeOK, Live
<1>3. live' = [live EXCEPT ![s] = l] /\ open' = open
  BY DEF Publish
<1>4. live'[s] = l /\ \A r \in Slug \ {s} : live'[r] = live[r]
  BY <1>1, <1>3 DEF TypeInv, TypeOK
<1>5. LiveHandles(s)' = Holding(p)
  <2>1. LiveHandles(s)' = IF live'[s] = None THEN {} ELSE HandlesOf(live'[s].conns)
    BY DEF LiveHandles, HandlesOf
  <2> QED
    BY <2>1, <1>2, <1>4 DEF Holding
<1>6. \A q \in Proc : job'[q].conns = IF q = p THEN NoConns ELSE job[q].conns
  BY DEF Publish, IdleJob, TypeInv, TypeOK
<1>7. Holding(p)' = {}
  <2>1. Holding(p)' = HandlesOf(job'[p].conns)
    BY DEF Holding, HandlesOf
  <2> QED
    BY <2>1, <1>6, NoConnsType
<1> QED
  BY <1>1, <1>3, <1>4, <1>5, <1>6, <1>7, SameHolding, SameLive DEF Publishes

\* Drop takes what is in the live map by now.
LEMMA DropEffect ==
    ASSUME TypeInv, NEW p \in Proc, Drop(p), NEW s, s = job[p].slug
    PROVE  s \in Slug /\ Drops(s)
<1>1. s \in Slug /\ job[p].conns = NoConns
  BY DEF Drop, TypeInv, JobOK
<1>2. \A q \in Proc : job'[q].conns = job[q].conns
  BY <1>1 DEF Drop, IdleJob, TypeInv, TypeOK
<1>3. /\ live'[s] = None
      /\ \A r \in Slug \ {s} : live'[r] = live[r]
  BY <1>1 DEF Drop, TypeInv, TypeOK
<1>4. LiveHandles(s)' = {}
  BY <1>3 DEF LiveHandles
<1> QED
  BY <1>1, <1>2, <1>3, <1>4, SameHolding, SameLive DEF Drop, Drops

\* Requests, ticks and changes of the store touch no connector.
LEMMA QuietEffect ==
    ASSUME TypeInv, Input \/ TickerStep \/ UNCHANGED vars
    PROVE  Untouched
<1>1. ASSUME NEW c \in Caller, NEW s \in Slug, Upsert(c, s) \/ Delete(c, s)
      PROVE  Untouched
  BY <1>1, StartEffect, SameLive DEF Upsert, Delete, Untouched, Proc
<1>2. ASSUME NEW s \in Slug, StoreChange(s) PROVE Untouched
  BY <1>2, SameHolding, SameLive DEF StoreChange, Untouched
<1>3. CASE TickReload
  BY <1>3, StartEffect, SameLive DEF TickReload, Untouched, Proc, TypeInv, TypeOK
<1>4. CASE TickNext \/ WatchStart \/ Tick
  BY <1>4, SameHolding, SameLive DEF TickNext, WatchStart, Tick, Untouched
<1>5. CASE UNCHANGED vars
  BY <1>5, SameHolding, SameLive DEF vars, Untouched
<1> QED
  BY <1>1, <1>2, <1>3, <1>4, <1>5 DEF Input, TickerStep

\* Every step has one of the effects.
LEMMA Effects ==
    ASSUME TypeInv, [Next]_vars
    PROVE  \/ Untouched
           \/ \E s \in Slug : Closes(s) \/ Drops(s)
           \/ \E p \in Proc : Opens(p) \/ \E s \in Slug : Publishes(p, s)
<1>1. ASSUME NEW p \in Proc, Step(p)
      PROVE  \/ Untouched
             \/ \E s \in Slug : Closes(s) \/ Drops(s)
             \/ \E q \in Proc : Opens(q) \/ \E s \in Slug : Publishes(q, s)
  BY <1>1, GetEffect, CloseEffect, BuildEffect, PublishEffect, DropEffect DEF Step
<1> QED
  BY <1>1, QuietEffect DEF Next

\* What is held or live is referenced.
LEMMA InReferenced ==
    /\ \A q \in Proc : Holding(q) \subseteq Referenced
    /\ \A s \in Slug : LiveHandles(s) \subseteq Referenced
<1>1. ASSUME NEW q \in Proc PROVE Holding(q) \subseteq Referenced
  BY DEF Referenced
<1>2. ASSUME NEW s \in Slug PROVE LiveHandles(s) \subseteq Referenced
  BY DEF Referenced
<1> QED
  BY <1>1, <1>2

\* Each of the effects keeps Owned.
LEMMA OwnedStep ==
    ASSUME Owned, TypeInv, [Next]_vars
    PROVE  Owned'
<1> USE DEF Owned, OthersHold, OthersLive
<1>1. CASE Untouched
  BY <1>1 DEF Untouched
<1>2. ASSUME NEW s \in Slug, Closes(s) PROVE Owned'
  BY <1>2 DEF Closes
<1>3. ASSUME NEW s \in Slug, Drops(s) PROVE Owned'
  BY <1>3 DEF Drops
<1>4. ASSUME NEW p \in Proc, Opens(p) PROVE Owned'
  <2>1. /\ \A q \in Proc : Holding(p)' \cap Holding(q) \subseteq Objects
        /\ \A s \in Slug : Holding(p)' \cap LiveHandles(s) \subseteq Objects
    BY <1>4, InReferenced DEF Opens
  <2> QED
    BY <1>4, <2>1 DEF Opens
<1>5. ASSUME NEW p \in Proc, NEW s \in Slug, Publishes(p, s) PROVE Owned'
  BY <1>5 DEF Publishes
<1> QED
  BY <1>1, <1>2, <1>3, <1>4, <1>5, Effects

\* A builtin connector has one owner, a job or a live instance, and a job's are
\* open.
THEOREM Ownership == Spec => [](TypeInv /\ Owned)
<1>1. Init => Owned
  BY NoConnsType DEF Init, Owned, Holding, LiveHandles, IdleJob
<1>2. TypeInv /\ Owned /\ [Next]_vars => Owned'
  BY OwnedStep
<1> QED
  BY <1>1, <1>2, TypeInvariant, PTL DEF Spec

-----------------------------------------------------------------------------
\* A step of p leaves the other jobs alone.
LEMMA OtherJobs ==
    ASSUME TypeInv, NEW p \in Proc, Step(p)
    PROVE  \A q \in Proc \ {p} : job'[q] = job[q]
  BY DEF Step, Get, ShutOld, Build, Publish, Unload, Drop, TypeInv, TypeOK

\* Requests and ticks leave a job alone that is not idle.
LEMMA BusyStays ==
    ASSUME TypeInv, Input \/ TickerStep, NEW q \in Proc, job[q].pc # "idle"
    PROVE  job'[q] = job[q]
<1>1. ASSUME NEW p \in Proc, NEW s \in Slug, NEW l, Start(p, s, l)
      PROVE  job'[q] = job[q]
  BY <1>1 DEF Start, IdleJob, TypeInv, TypeOK
<1>2. ASSUME NEW c \in Caller, NEW s \in Slug, Upsert(c, s) \/ Delete(c, s)
      PROVE  job'[q] = job[q]
  BY <1>1, <1>2 DEF Upsert, Delete, Proc
<1>3. CASE TickReload
  BY <1>1, <1>3 DEF TickReload, Proc, TypeInv, TypeOK
<1>4. CASE (\E s \in Slug : StoreChange(s)) \/ TickNext \/ WatchStart \/ Tick
  BY <1>4 DEF StoreChange, TickNext, WatchStart, Tick
<1> QED
  BY <1>2, <1>3, <1>4 DEF Input, TickerStep

\* The live map changes in Publish and Drop only, for the slug of the job.
LEMMA LiveChange ==
    ASSUME TypeInv, [Next]_vars
    PROVE  \/ live' = live
           \/ \E p \in Proc, s \in Slug :
                /\ Publish(p) \/ Drop(p)
                /\ s = job[p].slug
                /\ \A r \in Slug \ {s} : live'[r] = live[r]
<1>1. ASSUME NEW p \in Proc, Publish(p) \/ Drop(p)
      PROVE  /\ job[p].slug \in Slug
             /\ \A r \in Slug \ {job[p].slug} : live'[r] = live[r]
  BY <1>1 DEF Publish, Drop, TypeInv, TypeOK, JobOK
<1>2. ASSUME NEW p \in Proc, Get(p) \/ ShutOld(p) \/ Build(p) \/ Unload(p)
      PROVE  live' = live
  BY <1>2 DEF Get, ShutOld, Build, Unload
<1>3. Input \/ TickerStep \/ UNCHANGED vars => live' = live
  BY DEF Input, Upsert, Delete, StoreChange, TickerStep, TickReload, TickNext,
         WatchStart, Tick, vars
<1> QED
  BY <1>1, <1>2, <1>3 DEF Next, Step

\* A reload never publishes a builtin connector that someone has shut down
\* meanwhile, however many reloads, deletes and ticks of however many instances
\* overlap.  Nothing is said of the object of a plugin.
THEOREM PublishedAreOpen == Spec => PublishesOpen
<1>1. ASSUME TypeInv, Owned, [Next]_vars, NEW s \in Slug, live'[s] # live[s]
      PROVE  LiveHandles(s)' \ Objects \subseteq open'
  <2>1. PICK p \in Proc : (Publish(p) \/ Drop(p)) /\ s = job[p].slug
    BY <1>1, LiveChange
  <2>2. CASE Publish(p)
    BY <1>1, <2>1, <2>2, PublishEffect DEF Publishes, Owned
  <2>3. CASE Drop(p)
    BY <1>1, <2>1, <2>3, DropEffect DEF Drops
  <2> QED
    BY <2>1, <2>2, <2>3
<1>2. TypeInv /\ Owned /\ [Next]_vars =>
        [\A s \in Slug : live'[s] # live[s] =>
                           LiveHandles(s)' \ Objects \subseteq open']_vars
  BY <1>1
<1> QED
  BY <1>2, Ownership, PTL DEF Spec, PublishesOpen

-----------------------------------------------------------------------------
(* At rest.  An instance whose builtin connectors are closed has a reload   *)
(* or delete on its way that will replace them.                             *)

Mends(p, s) == job[p].slug = s /\ job[p].pc \in {"build", "publish", "drop"}
Mending(s) == \E p \in Proc : Mends(p, s)
OpenOrMending ==
    \A s \in Slug : LiveHandles(s) \ Objects \subseteq open \/ Mending(s)

\* Who is mending goes on until it publishes or drops.
LEMMA MendingStays ==
    ASSUME TypeInv, [Next]_vars, NEW s \in Slug, Mending(s), ~Mending(s)'
    PROVE  \E p \in Proc : (Publish(p) \/ Drop(p)) /\ s = job[p].slug
<1>1. PICK q \in Proc : /\ job[q].slug = s
                        /\ job[q].pc \in {"build", "publish", "drop"}
  BY DEF Mending, Mends
<1>2. ~(job'[q].slug = s /\ job'[q].pc \in {"build", "publish", "drop"})
  BY DEF Mending, Mends
<1>3. CASE UNCHANGED vars
  BY <1>1, <1>2, <1>3 DEF vars
<1>4. CASE Input \/ TickerStep
  <2>1. job'[q] = job[q]
    BY <1>1, <1>4, BusyStays
  <2> QED
    BY <1>1, <1>2, <2>1
<1>5. ASSUME NEW p \in Proc, Step(p) PROVE Publish(q) \/ Drop(q)
  <2>1. p = q
    BY <1>1, <1>2, <1>5, OtherJobs
  <2>2. ~Get(q) /\ ~ShutOld(q) /\ ~Unload(q)
    BY <1>1 DEF Get, ShutOld, Unload
  <2>3. ~Build(q)
    BY <1>1, <1>2 DEF Build, TypeInv, TypeOK
  <2> QED
    BY <1>5, <2>1, <2>2, <2>3 DEF Step
<1> QED
  BY <1>1, <1>3, <1>4, <1>5 DEF Next

\* A live instance's builtin connectors are open, or its reload or delete is still to come.
LEMMA OpenStep ==
    ASSUME TypeInv, Owned, OpenOrMending, [Next]_vars
    PROVE  OpenOrMending'
<1> SUFFICES ASSUME NEW s \in Slug, ~Mending(s)'
             PROVE  LiveHandles(s)' \ Objects \subseteq open'
  BY DEF OpenOrMending
<1>1. CASE \E p \in Proc : (Publish(p) \/ Drop(p)) /\ s = job[p].slug
  <2>1. PICK p \in Proc : (Publish(p) \/ Drop(p)) /\ s = job[p].slug
    BY <1>1
  <2> QED
    BY <2>1, PublishEffect, DropEffect DEF Publishes, Drops, Owned
<1>2. CASE ~(\E p \in Proc : (Publish(p) \/ Drop(p)) /\ s = job[p].slug)
  <2>1. LiveHandles(s) \ Objects \subseteq open
    BY <1>2, MendingStays DEF OpenOrMending
  <2>2. live'[s] = live[s]
    BY <1>2, LiveChange
  <2>3. LiveHandles(s)' = LiveHandles(s)
    BY <2>2 DEF LiveHandles, HandlesOf
  <2>4. CASE open \subseteq open'
    BY <2>1, <2>3, <2>4
  <2>5. ASSUME NEW p \in Proc, ShutOld(p) PROVE LiveHandles(s) \ Objects \subseteq open'
    <3>1. job[p].slug \in Slug /\ open' = open \ LiveHandles(job[p].slug)
      BY <2>5, CloseEffect DEF Closes
    <3>2. job'[p].slug = job[p].slug /\ job'[p].pc = "build"
      BY <2>5 DEF ShutOld, TypeInv, TypeOK
    <3>3. job[p].slug # s
      BY <3>2 DEF Mending, Mends
    <3> QED
      BY <2>1, <3>1, <3>3 DEF Owned
  <2>6. ASSUME NEW p \in Proc, Unload(p) PROVE LiveHandles(s) \ Objects \subseteq open'
    <3>1. job[p].slug \in Slug /\ open' = open \ LiveHandles(job[p].slug)
      BY <2>6, CloseEffect DEF Closes
    <3>2. live[job[p].slug] # None =>
             job'[p].slug = job[p].slug /\ job'[p].pc = "drop"
      BY <2>6 DEF Unload, TypeInv, TypeOK
    <3>3. job[p].slug # s \/ LiveHandles(s) = {}
      BY <3>2 DEF Mending, Mends, LiveHandles
    <3> QED
      BY <2>1, <3>1, <3>3 DEF Owned
  <2>7. open \subseteq open' \/ \E p \in Proc : ShutOld(p) \/ Unload(p)
    <3>1. ASSUME NEW p \in Proc, Step(p), ~ShutOld(p), ~Unload(p)
          PROVE  open \subseteq open'
      BY <3>1 DEF Step, Get, Build, Publish, Drop
    <3>2. Input \/ TickerStep \/ UNCHANGED vars => open' = open
      BY DEF Input, Upsert, Delete, StoreChange, TickerStep, TickReload,
             TickNext, WatchStart, Tick, vars
    <3> QED
      BY <3>1, <3>2 DEF Next
  <2> QED
    BY <2>3, <2>4, <2>5, <2>6, <2>7
<1> QED
  BY <1>1, <1>2

\* While nobody is reloading, every builtin connector a request can get is
\* usable, however the reloads before have overlapped.
THEOREM UsableAtRest == Spec => []RestIsOpen
<1>1. Init => OpenOrMending
  BY DEF Init, OpenOrMending, LiveHandles
<1>2. TypeInv /\ Owned /\ OpenOrMending /\ [Next]_vars => OpenOrMending'
  BY OpenStep
<1>3. OpenOrMending => RestIsOpen
  BY DEF OpenOrMending, RestIsOpen, Mending, Mends, AllIdle, IdleJob
<1> QED
  BY <1>1, <1>2, <1>3, Ownership, PTL DEF Spec

-----------------------------------------------------------------------------
(* No leak, when reloads do not overlap and names are unique.  Then what a  *)
(* Publish or Drop takes out of the live map has been shut down before, or  *)
(* is a plugin's object that the job has in hand again.                     *)

UniqueNames == \A v \in Ver : \A i, j \in DOMAIN Refs[v] :
                   Refs[v][i].name = Refs[v][j].name => i = j

\* With unique names no connector loses its entry to a namesake.
LEMMA EntriesHandles ==
    ASSUME UniqueNames, NEW v \in Ver, NEW ok \in SUBSET DOMAIN Refs[v], NEW h
    PROVE  {h[i] : i \in ok} \subseteq HandlesOf(Entries(Refs[v], ok, h))
<1> DEFINE refs == Refs[v]
           c == Entries(refs, ok, h)
<1>1. Kept(refs, ok) = ok
  <2>1. ASSUME NEW i \in ok, NEW j \in ok, refs[j].name = refs[i].name
        PROVE  j <= i
    <3>1. i = j /\ i \in Nat
      BY <2>1, RefsType DEF UniqueNames
    <3> QED
      BY <3>1
  <2> QED
    BY <2>1 DEF Kept
<1>2. ASSUME NEW i \in ok
      PROVE  refs[i].name \in DOMAIN c /\ c[refs[i].name].obj = h[i]
  <2> DEFINE k == CHOOSE k \in ok : refs[k].name = refs[i].name
  <2>1. k = i
    <3>1. k \in ok /\ refs[k].name = refs[i].name
      OBVIOUS
    <3> QED
      BY <3>1 DEF UniqueNames
  <2>2. /\ refs[i].name \in DOMAIN c
        /\ c[refs[i].name] = [type |-> refs[k].type, obj |-> h[k]]
    BY <1>1 DEF Entries
  <2> HIDE DEF k
  <2> QED
    BY <2>1, <2>2
<1> HIDE DEF c
<1> QED
  BY <1>2 DEF HandlesOf, c

OneJob == \A p, q \in Proc :
              job[p].pc # "idle" /\ job[q].pc # "idle" => p = q
OldIsShut == \A p \in Proc, s \in Slug :
                Mends(p, s) => LiveHandles(s) \cap open \subseteq Holding(p)
SerialInv == OneJob /\ OldIsShut /\ NoLeak

\* Without overlap one process at a time is reloading.
LEMMA OneJobStep ==
    ASSUME ~Overlap, TypeInv, OneJob, [Next]_vars
    PROVE  OneJob'
<1>1. ASSUME NEW p \in Proc, NEW s \in Slug, NEW l, Start(p, s, l) PROVE OneJob'
  BY <1>1 DEF Start, OneJob, AllIdle, IdleJob, TypeInv, TypeOK
<1>2. ASSUME NEW p \in Proc, Step(p) PROVE OneJob'
  <2>1. job[p].pc # "idle"
    BY <1>2 DEF Step, Get, ShutOld, Build, Publish, Unload, Drop
  <2> QED
    BY <1>2, <2>1, OtherJobs DEF OneJob
<1>3. ASSUME NEW c \in Caller, NEW s \in Slug, Upsert(c, s) \/ Delete(c, s)
      PROVE  OneJob'
  BY <1>1, <1>3 DEF Upsert, Delete, Proc
<1>4. CASE TickReload
  BY <1>1, <1>4 DEF TickReload, Proc, TypeInv, TypeOK
<1>5. CASE \/ (\E s \in Slug : StoreChange(s)) \/ TickNext \/ WatchStart \/ Tick
           \/ UNCHANGED vars
  BY <1>5 DEF StoreChange, TickNext, WatchStart, Tick, vars, OneJob
<1> QED
  BY <1>2, <1>3, <1>4, <1>5 DEF Next, Input, TickerStep

\* Requests and ticks start jobs at their first step.
LEMMA NewJobs ==
    ASSUME TypeInv, Input \/ TickerStep \/ UNCHANGED vars, NEW q \in Proc
    PROVE  job'[q] = job[q] \/ job'[q].pc \in {"get", "unload"}
<1>1. ASSUME NEW p \in Proc, NEW s \in Slug, NEW l \in {"get", "unload"},
             Start(p, s, l)
      PROVE  job'[q] = job[q] \/ job'[q].pc \in {"get", "unload"}
  BY <1>1 DEF Start, IdleJob, TypeInv, TypeOK
<1>2. ASSUME NEW c \in Caller, NEW s \in Slug, Upsert(c, s) \/ Delete(c, s)
      PROVE  job'[q] = job[q] \/ job'[q].pc \in {"get", "unload"}
  BY <1>1, <1>2 DEF Upsert, Delete, Proc
<1>3. CASE TickReload
  BY <1>1, <1>3 DEF TickReload, Proc, TypeInv, TypeOK
<1>4. CASE \/ (\E s \in Slug : StoreChange(s)) \/ TickNext \/ WatchStart \/ Tick
           \/ UNCHANGED vars
  BY <1>4 DEF StoreChange, TickNext, WatchStart, Tick, vars
<1> QED
  BY <1>2, <1>3, <1>4 DEF Input, TickerStep

\* With one job at a time, only its own step decides who is mending.
LEMMA OnlyMending ==
    ASSUME TypeInv, OneJob, NEW p \in Proc, Step(p), NEW s, NEW q \in Proc, Mends(q, s)'
    PROVE  q = p
<1>1. job[p].pc # "idle"
  BY DEF Step, Get, ShutOld, Build, Publish, Unload, Drop
<1> QED
  BY <1>1, OtherJobs DEF OneJob, Mends

\* With unique names Build holds everything it opens.
LEMMA BuildOpens ==
    ASSUME UniqueNames, TypeInv, NEW p \in Proc, Build(p)
    PROVE  open' \subseteq open \cup Holding(p)'
<1> DEFINE refs == Refs[job[p].inst]
<1>1. PICK ok \in SUBSET {i \in DOMAIN refs : refs[i].type \in Registered} :
        \E h \in Factories(refs, ok) :
          /\ open' = open \cup {h[i] : i \in ok}
          /\ job' = [job EXCEPT ![p].pc = "publish",
                                ![p].conns = Entries(refs, ok, h)]
  BY DEF Build
<1>2. PICK h \in Factories(refs, ok) :
          /\ open' = open \cup {h[i] : i \in ok}
          /\ job' = [job EXCEPT ![p].pc = "publish",
                                ![p].conns = Entries(refs, ok, h)]
  BY <1>1
<1>3. job[p].inst \in Ver
  BY DEF Build, TypeInv, JobOK
<1>4. {h[i] : i \in ok} \subseteq HandlesOf(Entries(refs, ok, h))
  BY <1>3, EntriesHandles
<1>5. job'[p].conns = Entries(refs, ok, h)
  BY <1>2 DEF TypeInv, TypeOK
<1>6. Holding(p)' = HandlesOf(Entries(refs, ok, h))
  BY <1>5 DEF Holding, HandlesOf
<1> QED
  BY <1>2, <1>4, <1>6

\* Whether a connector is referred to.
LEMMA LeakMeans ==
    NoLeak <=> \A x \in open : \/ \E s \in Slug : x \in LiveHandles(s)
                               \/ \E p \in Proc : x \in Holding(p)
  BY DEF NoLeak, Referenced

\* Every step keeps the three facts.
LEMMA SerialStep ==
    ASSUME ~Overlap, UniqueNames, TypeInv, Owned, SerialInv, [Next]_vars
    PROVE  SerialInv'
<1>0. /\ \A x \in open : \/ \E s \in Slug : x \in LiveHandles(s)
                         \/ \E p \in Proc : x \in Holding(p)
      /\ OneJob /\ OldIsShut
  BY LeakMeans DEF SerialInv
<1>1. OneJob'
  BY OneJobStep DEF SerialInv
<1>2. SUFFICES /\ \A q \in Proc, s \in Slug :
                     Mends(q, s)' => LiveHandles(s)' \cap open' \subseteq Holding(q)'
               /\ \A x \in open' : \/ \E s \in Slug : x \in LiveHandles(s)'
                                   \/ \E p \in Proc : x \in Holding(p)'
  <2>1. NoLeak' <=> \A x \in open' : \/ \E s \in Slug : x \in LiveHandles(s)'
                                     \/ \E p \in Proc : x \in Holding(p)'
    BY DEF NoLeak, Referenced
  <2> QED
    BY <1>1, <1>2, <2>1 DEF SerialInv, OldIsShut
<1> USE DEF OthersHold, OthersLive
<1>3. ASSUME NEW p \in Proc, Get(p)
      PROVE  /\ \A q \in Proc, s \in Slug :
                   Mends(q, s)' => LiveHandles(s)' \cap open' \subseteq Holding(q)'
             /\ \A x \in open' : \/ \E s \in Slug : x \in LiveHandles(s)'
                                 \/ \E q \in Proc : x \in Holding(q)'
  <2>1. job'[p].pc \in {"shut", "unload"}
    BY <1>3 DEF Get, TypeInv, TypeOK
  <2>2. \A q \in Proc, s \in Slug : ~Mends(q, s)'
    BY <1>0, <1>3, <2>1, OnlyMending DEF Step, Mends
  <2> QED
    BY <1>0, <1>3, <2>2, GetEffect DEF Untouched
<1>4. ASSUME NEW p \in Proc, ShutOld(p) \/ Unload(p)
      PROVE  /\ \A q \in Proc, s \in Slug :
                   Mends(q, s)' => LiveHandles(s)' \cap open' \subseteq Holding(q)'
             /\ \A x \in open' : \/ \E s \in Slug : x \in LiveHandles(s)'
                                 \/ \E q \in Proc : x \in Holding(q)'
  <2>1. Closes(job[p].slug)
    BY <1>4, CloseEffect
  <2>2. \A q \in Proc, s \in Slug : Mends(q, s)' => s = job[p].slug
    <3>1. \A q \in Proc, s \in Slug : Mends(q, s)' => Mends(p, s)'
      BY <1>0, <1>4, OnlyMending DEF Step
    <3>2. job'[p].pc # "idle" => job'[p].slug = job[p].slug
      BY <1>4 DEF ShutOld, Unload, IdleJob, TypeInv, TypeOK
    <3> QED
      BY <3>1, <3>2 DEF Mends
  <2> QED
    BY <1>0, <2>1, <2>2 DEF Closes
<1>5. ASSUME NEW p \in Proc, Build(p)
      PROVE  /\ \A q \in Proc, s \in Slug :
                   Mends(q, s)' => LiveHandles(s)' \cap open' \subseteq Holding(q)'
             /\ \A x \in open' : \/ \E s \in Slug : x \in LiveHandles(s)'
                                 \/ \E q \in Proc : x \in Holding(q)'
  <2>1. Opens(p) /\ open' \subseteq open \cup Holding(p)'
    BY <1>5, BuildEffect, BuildOpens
  <2>2. ASSUME NEW q \in Proc, NEW s \in Slug, Mends(q, s)'
        PROVE  q = p /\ LiveHandles(s) \cap open = {}
    <3>1. q = p /\ job'[p].slug = s
      BY <1>0, <1>5, <2>2, OnlyMending DEF Step, Mends
    <3>2. Mends(p, s)
      BY <1>5, <3>1 DEF Build, TypeInv, TypeOK, Mends
    <3>3. Holding(p) = {}
      BY <2>1 DEF Opens
    <3> QED
      BY <1>0, <3>1, <3>2, <3>3 DEF OldIsShut
  <2>3. ASSUME NEW q \in Proc, NEW s \in Slug, Mends(q, s)'
        PROVE  LiveHandles(s)' \cap open' \subseteq Holding(q)'
    BY <2>1, <2>2, <2>3 DEF Opens
  <2>4. ASSUME NEW x \in open'
        PROVE  \/ \E s \in Slug : x \in LiveHandles(s)'
               \/ \E q \in Proc : x \in Holding(q)'
    BY <1>0, <2>1 DEF Opens
  <2> QED
    BY <2>3, <2>4
<1>6. ASSUME NEW p \in Proc, Publish(p) \/ Drop(p)
      PROVE  /\ \A q \in Proc, s \in Slug :
                   Mends(q, s)' => LiveHandles(s)' \cap open' \subseteq Holding(q)'
             /\ \A x \in open' : \/ \E s \in Slug : x \in LiveHandles(s)'
                                 \/ \E q \in Proc : x \in Holding(q)'
  <2>1. job'[p].pc = "idle"
    BY <1>6 DEF Publish, Drop, IdleJob, TypeInv, TypeOK
  <2>2. \A q \in Proc, s \in Slug : ~Mends(q, s)'
    BY <1>0, <1>6, <2>1, OnlyMending DEF Step, Mends
  <2>3. job[p].slug \in Slug
    BY <1>6 DEF Publish, Drop, TypeInv, JobOK
  <2>4. PICK s \in Slug : s = job[p].slug
    BY <2>3
  <2>5. LiveHandles(s) \cap open \subseteq Holding(p)
    BY <1>0, <1>6, <2>4 DEF OldIsShut, Mends, Publish, Drop
  <2>6. CASE Publish(p)
    <3>1. Publishes(p, s)
      BY <2>4, <2>6, PublishEffect
    <3> QED
      BY <1>0, <2>2, <2>5, <3>1 DEF Publishes
  <2>7. CASE Drop(p)
    <3>1. Drops(s)
      BY <2>4, <2>7, DropEffect
    <3>2. Holding(p) = {}
      BY <2>7, NoConnsType DEF Drop, TypeInv, JobOK, Holding
    <3> QED
      BY <1>0, <2>2, <2>5, <3>1, <3>2 DEF Drops
  <2> QED
    BY <1>6, <2>6, <2>7
<1>7. ASSUME Input \/ TickerStep \/ UNCHANGED vars
      PROVE  /\ \A q \in Proc, s \in Slug :
                   Mends(q, s)' => LiveHandles(s)' \cap open' \subseteq Holding(q)'
             /\ \A x \in open' : \/ \E s \in Slug : x \in LiveHandles(s)'
                                 \/ \E q \in Proc : x \in Holding(q)'
  <2>1. Untouched
    BY <1>7, QuietEffect
  <2>2. \A q \in Proc, s \in Slug : Mends(q, s)' => Mends(q, s)
    BY <1>7, NewJobs DEF Mends
  <2> QED
    BY <1>0, <2>1, <2>2 DEF Untouched, OldIsShut
<1> QED
  BY <1>3, <1>4, <1>5, <1>6, <1>7 DEF Next, Step

\* When reloads do not overlap, every connector that was initialised and not
\* shut down is in the live map or about to be put there: none leaks.
THEOREM SerialNoLeak ==
    ASSUME ~Overlap, UniqueNames
    PROVE  Spec => []NoLeak
<1>1. Init => SerialInv
  BY DEF Init, SerialInv, OneJob, OldIsShut, Mends, NoLeak, IdleJob
<1>2. TypeInv /\ Owned /\ SerialInv /\ [Next]_vars => SerialInv'
  BY SerialStep
<1>3. SerialInv => NoLeak
  BY DEF SerialInv
<1> QED
  BY <1>1, <1>2, <1>3, Ownership, PTL DEF Spec
=============================================================================
