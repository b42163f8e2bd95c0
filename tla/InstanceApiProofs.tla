-------------------------- MODULE InstanceApiProofs --------------------------
(***************************************************************************)
(* Theorems about InstanceApi, for every set of slugs and requests.        *)
(***************************************************************************)
EXTENDS InstanceApi, TLAPS

\* What the types leave open: a request that has begun has a slug, only some
\* requests write, and an array a rotation grew has a key in its cell.
ReqInv == \A r \in Req :
    /\ req[r].pc # "new" => req[r].slug \in Slug
    /\ req[r].pc \in {"write", "file"} => req[r].op \in {"create", "replace", "delete", "rotate"}
    /\ req[r].arr # None => cell[req[r].arr] \in Req

\* Arrays belong to requests for the same slug that are over.
ArrayInv ==
    /\ \A s \in Slug : array[s] # None => req[array[s]].slug = s /\ req[array[s]].pc = "done"
    /\ \A r \in Req : Running(r) /\ req[r].arr # None =>
          req[req[r].arr].slug = req[r].slug /\ req[req[r].arr].pc = "done"

\* A slug that is not raced has one running request.
Alone == \A r, q \in Req :
    Running(r) /\ Running(q) /\ req[r].slug = req[q].slug /\ req[r].slug \notin raced => r = q

\* What such a request has looked at is still so when it writes, and what it has
\* written is still there when it files it.
Holds(r) ==
    LET s == req[r].slug
    IN  /\ At(r, "create", "write") => file[s] = Gone
        /\ At(r, "delete", "write") => file[s] # Gone
        /\ At(r, "rotate", "write") => /\ file[s] = req[r].keys
                                       /\ req[r].arr # None => cell[req[r].arr] = r
        /\ req[r].pc = "file" /\ req[r].op \in {"create", "replace"} => file[s] = req[r].keys
        /\ At(r, "rotate", "file") => file[s] # Gone /\ r \in file[s]
AllHold == \A r \in Req : Running(r) /\ req[r].slug \notin raced => Holds(r)

\* The inductive invariant of the theorems.
Inv == TypeOK /\ ReqInv /\ ArrayInv /\ Alone /\ AllHold /\ KeysKept

\* The part that is inductive by itself.
Types == TypeOK /\ ReqInv

\* What a request saves is a set of keys.
LEMMA SavedKeysType ==
    ASSUME Types, NEW r \in Req
    PROVE  SavedKeys(r) \in Keys
BY DEF Types, TypeOK, ReqInv, SavedKeys, Keys

\* The record of a request that has arrived.
LEMMA Arrived ==
    ASSUME NEW r \in Req, NEW s \in Slug, Arrive(r, s)
    PROVE  \E x : /\ req' = [req EXCEPT ![r] = x]
                  /\ x \in [op : {"create", "replace", "delete", "rotate", "get", "test"},
                            slug : {s}, keys : SUBSET Req, arr : {None},
                            pc : {"look", "write", "done"}, status : {0, 400}]
                  /\ x.pc = "write" => x.op = "replace"
<1>1. PICK op \in {"create", "replace", "delete", "rotate", "get", "test"} :
        \E body \in IF op \in {"create", "replace"} THEN {{}, {r}} ELSE {{}} :
           \/ req' = [req EXCEPT ![r] = [NewReq EXCEPT !.op = op, !.slug = s, !.keys = body,
                         !.pc = IF op = "replace" THEN "write" ELSE "look"]]
           \/ /\ op \in {"create", "replace"}
              /\ req' = [req EXCEPT ![r] = [NewReq EXCEPT !.op = op, !.slug = s,
                                                  !.pc = "done", !.status = 400]]
  BY Zenon DEF Arrive
<1> DEFINE bodies == IF op \in {"create", "replace"} THEN {{}, {r}} ELSE {{}}
           begun == IF op = "replace" THEN "write" ELSE "look"
           x1(body) == [NewReq EXCEPT !.op = op, !.slug = s, !.keys = body, !.pc = begun]
           x2 == [NewReq EXCEPT !.op = op, !.slug = s, !.pc = "done", !.status = 400]
<1>2. bodies \subseteq SUBSET Req
  OBVIOUS
<1>3. begun \in {"write", "look"} /\ (begun = "write" => op = "replace")
  OBVIOUS
<1>4. PICK body \in bodies :
         req' = [req EXCEPT ![r] = x1(body)] \/ req' = [req EXCEPT ![r] = x2]
  BY <1>1, Zenon
<1> HIDE DEF bodies, begun
<1>5. body \in SUBSET Req
  BY <1>2, <1>4
<1> DEFINE T == [op : {"create", "replace", "delete", "rotate", "get", "test"},
                 slug : {s}, keys : SUBSET Req, arr : {None},
                 pc : {"look", "write", "done"}, status : {0, 400}]
<1>6. x1(body) \in T /\ (x1(body).pc = "write" => x1(body).op = "replace")
  BY <1>3, <1>5 DEF NewReq
<1>7. x2 \in T /\ x2.pc # "write"
  BY DEF NewReq
<1> HIDE DEF x1, x2
<1> QED
  BY <1>4, <1>6, <1>7

\* The type of a request.
Request == [op : {"create", "replace", "delete", "rotate", "get", "test"},
            slug : Slug \cup {None}, keys : Keys, arr : Req \cup {None},
            pc : {"new", "look", "write", "file", "done"}, status : Codes]
\* The request ends and keeps what it has; the others do not change.
OnlyEnds(r) ==
    /\ req'[r].pc = "done"
    /\ \A q \in Req : /\ req'[q].op = req[q].op /\ req'[q].slug = req[q].slug
                      /\ req'[q].keys = req[q].keys /\ req'[q].arr = req[q].arr
                      /\ q # r => req'[q] = req[q]

\* An answer ends its request and leaves the rest of it, and the others, alone.
LEMMA Answered ==
    ASSUME Types, NEW r \in Req, NEW code \in Codes, Answers(r, code)
    PROVE  /\ req' \in [Req -> Request]
           /\ OnlyEnds(r)
<1>1. req \in [Req -> Request]
  BY DEF Types, TypeOK, Request
<1>2. req' = [req EXCEPT ![r] = [req[r] EXCEPT !.pc = "done", !.status = code]]
  BY DEF Answers
<1>3. [req[r] EXCEPT !.pc = "done", !.status = code] \in Request
  BY <1>1 DEF Request
<1> QED
  BY <1>1, <1>2, <1>3 DEF Request, OnlyEnds

\* The types hold at first, and every step keeps them.
LEMMA TypesInit == Init => Types
BY InstanceApiAssumption DEF Init, Types, TypeOK, ReqInv, Keys, NewReq, Codes

LEMMA TypesNext == Types /\ [Next]_vars => Types'
<1> SUFFICES ASSUME Types, [Next]_vars PROVE Types'
  OBVIOUS
<1> USE InstanceApiAssumption DEF Types, TypeOK, ReqInv, Keys, Codes
<1>1. ASSUME NEW r \in Req, NEW s \in Slug, Arrive(r, s) PROVE Types'
  <2>1. PICK x : /\ req' = [req EXCEPT ![r] = x]
                 /\ x \in [op : {"create", "replace", "delete", "rotate", "get", "test"},
                           slug : {s}, keys : SUBSET Req, arr : {None},
                           pc : {"look", "write", "done"}, status : {0, 400}]
                 /\ x.pc = "write" => x.op = "replace"
    BY <1>1, Arrived
  <2>2. UNCHANGED <<store, owed>> /\ raced' \subseteq Slug
    BY <1>1 DEF Arrive
  <2> QED
    BY <2>1, <2>2 DEF store
<1>2. ASSUME NEW r \in Req, CreateLook(r) PROVE Types'
  BY <1>2 DEF CreateLook, At, Goes, Answers, Looks, store
<1>3. ASSUME NEW r \in Req, DeleteLook(r) PROVE Types'
  BY <1>3 DEF DeleteLook, At, Goes, Answers, Looks, store
<1>4. ASSUME NEW r \in Req, RotateLook(r) PROVE Types'
  BY <1>4 DEF RotateLook, At, Goes, Answers, Looks, Known, store
<1>5. ASSUME NEW r \in Req, Get(r) \/ Test(r) PROVE Types'
  BY <1>5 DEF Get, Test, At, Answers, store
<1>6. ASSUME NEW r \in Req, SaveFile(r) PROVE Types'
  BY <1>6, SavedKeysType DEF SaveFile, Notify, Goes, store
<1>7. ASSUME NEW r \in Req, SaveIndex(r) PROVE Types'
  <2> DEFINE code == IF req[r].op = "create" THEN 201 ELSE 200
             kept == IF Cardinality(SavedKeys(r)) \in Roomy THEN r ELSE None
  <2>1. code \in Codes /\ kept \in Req \cup {None}
    OBVIOUS
  <2>2. Answers(r, code) /\ array' = [array EXCEPT ![req[r].slug] = kept] /\ req[r].pc # "new"
    BY <1>7 DEF SaveIndex
  <2> HIDE DEF code, kept
  <2>3. index' = [index EXCEPT ![req[r].slug] = SavedKeys(r)]
    BY <1>7 DEF SaveIndex
  <2>4. owed' \in [Slug -> Keys]
    BY <1>7 DEF SaveIndex
  <2>5. UNCHANGED <<file, cell, event, reading, raced>>
    BY <1>7 DEF SaveIndex
  <2>6. req' \in [Req -> Request] /\ OnlyEnds(r)
    BY <2>1, <2>2, Answered
  <2>7. SavedKeys(r) \in Keys
    BY SavedKeysType
  <2> QED
    <3>1. TypeOK'
      <4>1. index' \in [Slug -> Keys \cup {Gone}]
        BY <2>3, <2>7
      <4>2. array' \in [Slug -> Req \cup {None}]
        BY <2>1, <2>2
      <4> QED
        BY <2>4, <2>5, <2>6, <4>1, <4>2 DEF Request
    <3>2. ReqInv'
      <4> SUFFICES ASSUME NEW q \in Req
                   PROVE  /\ req'[q].pc # "new" => req'[q].slug \in Slug
                          /\ req'[q].pc \in {"write", "file"} =>
                                req'[q].op \in {"create", "replace", "delete", "rotate"}
                          /\ req'[q].arr # None => cell'[req'[q].arr] \in Req
        OBVIOUS
      <4>1. CASE q = r
        BY <2>2, <2>5, <2>6, <4>1 DEF OnlyEnds
      <4>2. CASE q # r
        <5>1. req'[q] = req[q] /\ cell' = cell
          BY <2>5, <2>6, <4>2 DEF OnlyEnds
        <5> QED
          BY <5>1
      <4> QED
        BY <4>1, <4>2
    <3> QED
      BY <3>1, <3>2
<1>8. ASSUME NEW r \in Req, WriteFails(r) PROVE Types'
  <2> DEFINE code == IF req[r].op \in {"create", "replace"} THEN 400 ELSE 500
  <2>1. code \in Codes
    OBVIOUS
  <2>2. Answers(r, code) /\ req[r].pc # "new" /\ UNCHANGED <<store, raced, owed>>
    BY <1>8 DEF WriteFails
  <2> HIDE DEF code
  <2>3. req' \in [Req -> Request] /\ OnlyEnds(r)
    BY <2>1, <2>2, Answered
  <2> QED
    BY <2>2, <2>3 DEF store, OnlyEnds, Request
<1>9. ASSUME NEW r \in Req, DeleteFile(r) PROVE Types'
  BY <1>9 DEF DeleteFile, Notify, At, Goes, store
<1>10. ASSUME NEW r \in Req, DeleteIndex(r) PROVE Types'
  BY <1>10, Answered DEF DeleteIndex, At, OnlyEnds, Request
<1>11. ASSUME NEW s \in Slug, Reconcile(s) PROVE Types'
  BY <1>11 DEF Reconcile, ReconcileRemove, ReconcileRead, ReconcileSet, store
<1>12. CASE UNCHANGED vars
  BY <1>12 DEF vars, store
<1> QED
  BY <1>1, <1>2, <1>3, <1>4, <1>5, <1>6, <1>7, <1>8, <1>9, <1>10, <1>11, <1>12
     DEF Next, Handle

-----------------------------------------------------------------------------
(* What a step does to the requests, one by one *)

\* A request moves on, or ends; what else it holds and the other requests stay.
Moves(r, pc) ==
    /\ req'[r].pc = pc
    /\ \A q \in Req : /\ req'[q].op = req[q].op /\ req'[q].slug = req[q].slug
                      /\ req'[q].keys = req[q].keys /\ req'[q].arr = req[q].arr
                      /\ q # r => req'[q] = req[q]

\* Each step, request by request.
LEMMA WentOn ==
    ASSUME Types, NEW r \in Req, NEW pc \in {"new", "look", "write", "file", "done"},
           Goes(r, pc)
    PROVE  Moves(r, pc)
BY DEF Types, TypeOK, Goes, Moves

LEMMA Ended == ASSUME NEW r \in Req, OnlyEnds(r) PROVE Moves(r, "done")
BY DEF OnlyEnds, Moves

\* A step of a handler is one of a running request, which keeps its operation
\* and its slug.
Steps(r) ==
    /\ Running(r)
    /\ req'[r].op = req[r].op /\ req'[r].slug = req[r].slug
    /\ \A q \in Req : q # r => req'[q] = req[q]
    /\ raced \subseteq raced'

\* A create goes on when the index does not know the slug.
LEMMA CreateLookSteps ==
    ASSUME Types, NEW r \in Req, CreateLook(r)
    PROVE  /\ At(r, "create", "look") /\ UNCHANGED <<store, owed>>
           /\ raced' = raced \cup {x \in {req[r].slug} : index[req[r].slug] # file[req[r].slug]}
           /\ \/ Known(r) /\ Moves(r, "done")
              \/ ~Known(r) /\ Moves(r, "write")
<1>1. CASE Known(r)
  <2>1. Answers(r, 409)
    BY <1>1 DEF CreateLook
  <2>2. Moves(r, "done")
    BY <2>1, Answered, Ended DEF Codes
  <2> QED
    BY <1>1, <2>2 DEF CreateLook, Looks
<1>2. CASE ~Known(r)
  <2>1. Moves(r, "write")
    BY <1>2, WentOn DEF CreateLook
  <2> QED
    BY <1>2, <2>1 DEF CreateLook, Looks
<1> QED
  BY <1>1, <1>2

\* A delete goes on when the index knows the slug.
LEMMA DeleteLookSteps ==
    ASSUME Types, NEW r \in Req, DeleteLook(r)
    PROVE  /\ At(r, "delete", "look") /\ UNCHANGED <<store, owed>>
           /\ raced' = raced \cup {x \in {req[r].slug} : index[req[r].slug] # file[req[r].slug]}
           /\ \/ ~Known(r) /\ Moves(r, "done")
              \/ Known(r) /\ Moves(r, "write")
<1>1. CASE ~Known(r)
  <2>1. Answers(r, 404)
    BY <1>1 DEF DeleteLook
  <2>2. Moves(r, "done")
    BY <2>1, Answered, Ended DEF Codes
  <2> QED
    BY <1>1, <2>2 DEF DeleteLook, Looks
<1>2. CASE Known(r)
  <2>1. Moves(r, "write")
    BY <1>2, WentOn DEF DeleteLook
  <2> QED
    BY <1>2, <2>1 DEF DeleteLook, Looks
<1> QED
  BY <1>1, <1>2

\* A rotation that finds its instance takes its keys and its array along, and
\* puts its own key into that array's cell.
LEMMA RotateLookSteps ==
    ASSUME Types, NEW r \in Req, RotateLook(r)
    PROVE  LET s == req[r].slug
           IN  /\ At(r, "rotate", "look") /\ UNCHANGED <<file, index, array, event, reading, owed>>
               /\ raced' = raced \cup {x \in {s} : index[s] # file[s]}
               /\ \/ ~Known(r) /\ Moves(r, "done") /\ UNCHANGED cell
                  \/ /\ Known(r)
                     /\ req'[r].pc = "write" /\ req'[r].keys = index[s] /\ req'[r].arr = array[s]
                     /\ req'[r].op = "rotate" /\ req'[r].slug = s
                     /\ \A q \in Req : q # r => req'[q] = req[q]
                     /\ cell' = [q \in Req |-> IF q = array[s] THEN r ELSE cell[q]]
<1>1. CASE ~Known(r)
  <2>1. Answers(r, 404)
    BY <1>1 DEF RotateLook
  <2>2. Moves(r, "done")
    BY <2>1, Answered, Ended DEF Codes
  <2> QED
    BY <1>1, <2>2 DEF RotateLook, Looks
<1>2. CASE Known(r)
  <2> DEFINE s == req[r].slug
             x == [req[r] EXCEPT !.pc = "write", !.keys = index[s], !.arr = array[s]]
  <2>1. req' = [req EXCEPT ![r] = x]
    BY <1>2 DEF RotateLook
  <2>2. req \in [Req -> Request]
    BY DEF Types, TypeOK, Request
  <2>3. /\ x.pc = "write" /\ x.keys = index[s] /\ x.arr = array[s]
        /\ x.op = req[r].op /\ x.slug = s
    BY <2>2 DEF Request
  <2> HIDE DEF x
  <2>4. /\ req'[r].pc = "write" /\ req'[r].keys = index[s] /\ req'[r].arr = array[s]
        /\ req'[r].op = req[r].op /\ req'[r].slug = s
        /\ \A q \in Req : q # r => req'[q] = req[q]
    BY <2>1, <2>2, <2>3
  <2>5. /\ At(r, "rotate", "look") /\ UNCHANGED <<file, index, array, event, reading, owed>>
        /\ raced' = raced \cup {y \in {s} : index[s] # file[s]}
        /\ cell' = [q \in Req |-> IF q = array[s] THEN r ELSE cell[q]]
    BY <1>2 DEF RotateLook, Looks
  <2> QED
    BY <1>2, <2>4, <2>5 DEF At
<1> QED
  BY <1>1, <1>2

\* Reads and failed writes end their request and change nothing else.
LEMMA GetSteps ==
    ASSUME Types, NEW r \in Req, Get(r) \/ Test(r)
    PROVE  Running(r) /\ UNCHANGED <<store, raced, owed>> /\ Moves(r, "done")
<1>1. PICK code \in {200, 404} : Answers(r, code)
  BY DEF Get, Test
<1>2. Moves(r, "done")
  BY <1>1, Answered, Ended DEF Codes
<1> QED
  BY <1>2 DEF Get, Test, At, Running

LEMMA WriteFailsSteps ==
    ASSUME Types, NEW r \in Req, WriteFails(r)
    PROVE  Running(r) /\ UNCHANGED <<store, raced, owed>> /\ Moves(r, "done")
<1>1. PICK code \in {400, 500} : Answers(r, code)
  BY DEF WriteFails
<1>2. Moves(r, "done")
  BY <1>1, Answered, Ended DEF Codes
<1> QED
  BY <1>2 DEF WriteFails, Running

\* A save moves from the file to the index, and then ends.
LEMMA SaveFileSteps ==
    ASSUME Types, NEW r \in Req, SaveFile(r)
    PROVE  req[r].pc = "write" /\ req[r].op # "delete" /\ Moves(r, "file")
BY WentOn DEF SaveFile

LEMMA SaveIndexSteps ==
    ASSUME Types, NEW r \in Req, SaveIndex(r)
    PROVE  /\ req[r].pc = "file" /\ req[r].op # "delete" /\ Moves(r, "done")
           /\ array'[req[r].slug] \in {r, None}
           /\ \A s \in Slug : s # req[r].slug => array'[s] = array[s]
<1> DEFINE code == IF req[r].op = "create" THEN 201 ELSE 200
           kept == IF Cardinality(SavedKeys(r)) \in Roomy THEN r ELSE None
<1>1. code \in Codes /\ kept \in {r, None}
  BY DEF Codes
<1>2. /\ Answers(r, code) /\ array' = [array EXCEPT ![req[r].slug] = kept]
      /\ req[r].pc = "file" /\ req[r].op # "delete"
  BY DEF SaveIndex
<1> HIDE DEF code, kept
<1>3. Moves(r, "done")
  BY <1>1, <1>2, Answered, Ended
<1>4. req[r].slug \in Slug
  BY <1>2 DEF Types, ReqInv
<1> QED
  BY <1>1, <1>2, <1>3, <1>4 DEF Types, TypeOK

\* So does a delete.
LEMMA DeleteFileSteps ==
    ASSUME Types, NEW r \in Req, DeleteFile(r)
    PROVE  At(r, "delete", "write") /\ Moves(r, "file")
BY WentOn DEF DeleteFile

LEMMA DeleteIndexSteps ==
    ASSUME Types, NEW r \in Req, DeleteIndex(r)
    PROVE  At(r, "delete", "file") /\ Moves(r, "done")
BY Answered, Ended DEF DeleteIndex, Codes

\* Every step of a handler is one of its own running request.
LEMMA HandleSteps ==
    ASSUME Types, NEW r \in Req, Handle(r)
    PROVE  Steps(r)
<1> USE DEF Steps, Moves, At, Running
<1>1. CASE CreateLook(r)
  BY <1>1, CreateLookSteps
<1>2. CASE DeleteLook(r)
  BY <1>2, DeleteLookSteps
<1>3. CASE RotateLook(r)
  BY <1>3, RotateLookSteps
<1>4. CASE Get(r) \/ Test(r)
  BY <1>4, GetSteps
<1>5. CASE SaveFile(r)
  BY <1>5, SaveFileSteps DEF SaveFile
<1>6. CASE SaveIndex(r)
  BY <1>6, SaveIndexSteps DEF SaveIndex
<1>7. CASE WriteFails(r)
  BY <1>7, WriteFailsSteps
<1>8. CASE DeleteFile(r)
  BY <1>8, DeleteFileSteps DEF DeleteFile
<1>9. CASE DeleteIndex(r)
  BY <1>9, DeleteIndexSteps DEF DeleteIndex
<1> QED
  BY <1>1, <1>2, <1>3, <1>4, <1>5, <1>6, <1>7, <1>8, <1>9 DEF Handle

\* A request that arrives shares its slug with no other, unless it is raced.
LEMMA ArriveSteps ==
    ASSUME Types, NEW r \in Req, NEW s \in Slug, Arrive(r, s)
    PROVE  /\ req[r].pc = "new" /\ req'[r].slug = s /\ req'[r].arr = None
           /\ req'[r].pc \in {"look", "write", "done"}
           /\ req'[r].pc = "write" => req'[r].op = "replace"
           /\ \A q \in Req : q # r => req'[q] = req[q]
           /\ \A q \in Req : Running(q) /\ req[q].slug = s => s \in raced'
           /\ raced \subseteq raced' /\ UNCHANGED <<store, owed>>
<1>1. PICK x : /\ req' = [req EXCEPT ![r] = x]
               /\ x \in [op : {"create", "replace", "delete", "rotate", "get", "test"},
                         slug : {s}, keys : SUBSET Req, arr : {None},
                         pc : {"look", "write", "done"}, status : {0, 400}]
               /\ x.pc = "write" => x.op = "replace"
  BY Arrived
<1>2. /\ req[r].pc = "new" /\ UNCHANGED <<store, owed>>
      /\ raced' = raced \cup {y \in {s} : \E q \in Req : Running(q) /\ req[q].slug = s}
  BY DEF Arrive
<1> QED
  BY <1>1, <1>2 DEF Types, TypeOK

-----------------------------------------------------------------------------
(* The parts of the invariant *)

\* The watcher leaves the files, the requests and the cells alone.
LEMMA ReconcileSteps ==
    ASSUME Types, NEW s \in Slug, Reconcile(s)
    PROVE  /\ UNCHANGED <<file, cell, req, raced, owed>>
           /\ \A t \in Slug : array'[t] \in {array[t], None}
BY DEF Reconcile, ReconcileRemove, ReconcileRead, ReconcileSet, Types, TypeOK

\* An array changes hands only when its slug's entry does.
LEMMA HandleArray ==
    ASSUME Types, NEW r \in Req, Handle(r)
    PROVE  \/ array' = array
           \/ /\ req'[r].pc = "done"
              /\ \A t \in Slug : \/ array'[t] \in {array[t], None}
                                 \/ t = req[r].slug /\ array'[t] = r
<1>1. CASE CreateLook(r) \/ DeleteLook(r) \/ RotateLook(r) \/ Get(r) \/ Test(r)
           \/ SaveFile(r) \/ WriteFails(r) \/ DeleteFile(r)
  BY <1>1 DEF CreateLook, DeleteLook, RotateLook, Get, Test, SaveFile, WriteFails, DeleteFile,
              store
<1>2. CASE SaveIndex(r)
  <2>1. req[r].slug \in Slug
    BY <1>2 DEF SaveIndex, Types, ReqInv
  <2> QED
    BY <1>2, <2>1, SaveIndexSteps DEF Moves
<1>3. CASE DeleteIndex(r)
  BY <1>3, DeleteIndexSteps DEF DeleteIndex, Types, TypeOK, Moves
<1> QED
  BY <1>1, <1>2, <1>3 DEF Handle

\* What a running request took along is what it had, or its slug's array.
LEMMA HandleArr ==
    ASSUME Types, NEW r \in Req, Handle(r)
    PROVE  req'[r].arr = req[r].arr \/ req'[r].arr = array[req[r].slug]
<1> USE DEF Moves
<1>1. CASE CreateLook(r)
  BY <1>1, CreateLookSteps
<1>2. CASE DeleteLook(r)
  BY <1>2, DeleteLookSteps
<1>3. CASE RotateLook(r)
  BY <1>3, RotateLookSteps
<1>4. CASE Get(r) \/ Test(r)
  BY <1>4, GetSteps
<1>5. CASE SaveFile(r)
  BY <1>5, SaveFileSteps
<1>6. CASE SaveIndex(r)
  BY <1>6, SaveIndexSteps
<1>7. CASE WriteFails(r)
  BY <1>7, WriteFailsSteps
<1>8. CASE DeleteFile(r)
  BY <1>8, DeleteFileSteps
<1>9. CASE DeleteIndex(r)
  BY <1>9, DeleteIndexSteps
<1> QED
  BY <1>1, <1>2, <1>3, <1>4, <1>5, <1>6, <1>7, <1>8, <1>9 DEF Handle

\* A second request for a slug makes it raced.
LEMMA AloneNext == Types /\ Alone /\ [Next]_vars => Alone'
<1> SUFFICES ASSUME Types, Alone, [Next]_vars PROVE Alone'
  OBVIOUS
<1>1. ASSUME NEW r \in Req, Handle(r) PROVE Alone'
  <2>1. Steps(r)
    BY <1>1, HandleSteps
  <2> QED
    BY <2>1 DEF Alone, Steps, Running
<1>2. ASSUME NEW r \in Req, NEW s \in Slug, Arrive(r, s) PROVE Alone'
  <2>1. /\ req'[r].slug = s
        /\ \A q \in Req : q # r => req'[q] = req[q]
        /\ \A q \in Req : Running(q) /\ req[q].slug = s => s \in raced'
        /\ raced \subseteq raced'
    BY <1>2, ArriveSteps
  <2> QED
    BY <2>1 DEF Alone, Running
<1>3. ASSUME NEW s \in Slug, Reconcile(s) PROVE Alone'
  BY <1>3, ReconcileSteps DEF Alone, Running
<1>4. CASE UNCHANGED vars
  BY <1>4 DEF vars, Alone, Running
<1> QED
  BY <1>1, <1>2, <1>3, <1>4 DEF Next

\* The owner of an array has ended, so nothing it holds changes any more.
LEMMA ArrayInvNext == Types /\ ArrayInv /\ [Next]_vars => ArrayInv'
<1> SUFFICES ASSUME Types, ArrayInv, [Next]_vars PROVE ArrayInv'
  OBVIOUS
<1>0. /\ array \in [Slug -> Req \cup {None}] /\ \A q \in Req : req[q].arr \in Req \cup {None}
      /\ \A q \in Req : req[q].pc # "new" => req[q].slug \in Slug
      /\ None \notin Req
  BY InstanceApiAssumption DEF Types, TypeOK, ReqInv
<1>1. ASSUME NEW r \in Req, Handle(r) PROVE ArrayInv'
  <2>1. Steps(r)
    BY <1>1, HandleSteps
  <2>2. \A q \in Req : req[q].pc = "done" => req'[q].pc = "done" /\ req'[q].slug = req[q].slug
    BY <2>1 DEF Steps, Running
  <2>3. \A s \in Slug : array'[s] # None => req'[array'[s]].slug = s /\ req'[array'[s]].pc = "done"
    <3>1. TAKE s \in Slug
    <3>2. CASE array'[s] = array[s]
      BY <1>0, <2>2, <3>2 DEF ArrayInv
    <3>3. CASE array'[s] = r /\ s = req[r].slug /\ req'[r].pc = "done"
      BY <2>1, <3>3 DEF Steps
    <3> QED
      BY <1>1, <3>2, <3>3, HandleArray
  <2>4. ASSUME NEW q \in Req, Running(q)', req'[q].arr # None
        PROVE  req'[req'[q].arr].slug = req'[q].slug /\ req'[req'[q].arr].pc = "done"
    <3>1. Running(q) /\ req'[q].slug = req[q].slug
      BY <2>1, <2>4 DEF Steps, Running
    <3>2. CASE req'[q].arr = req[q].arr
      BY <1>0, <2>2, <2>4, <3>1, <3>2 DEF ArrayInv
    <3>3. CASE q = r /\ req'[q].arr = array[req[r].slug]
      BY <1>0, <2>2, <2>4, <3>1, <3>3 DEF ArrayInv, Running
    <3> QED
      BY <1>1, <2>1, <3>2, <3>3, HandleArr DEF Steps
  <2> QED
    BY <2>3, <2>4 DEF ArrayInv
<1>2. ASSUME NEW r \in Req, NEW s \in Slug, Arrive(r, s) PROVE ArrayInv'
  <2>1. /\ req[r].pc = "new" /\ req'[r].arr = None
        /\ \A q \in Req : q # r => req'[q] = req[q]
        /\ array' = array
    BY <1>2, ArriveSteps DEF store
  <2> QED
    BY <1>0, <2>1 DEF ArrayInv, Running
<1>3. ASSUME NEW s \in Slug, Reconcile(s) PROVE ArrayInv'
  BY <1>0, <1>3, ReconcileSteps DEF ArrayInv, Running
<1>4. CASE UNCHANGED vars
  BY <1>4 DEF vars, store, ArrayInv, Running
<1> QED
  BY <1>1, <1>2, <1>3, <1>4 DEF Next

\* A handler touches the file of its own slug and the cell of that slug's array.
LEMMA HandleStore ==
    ASSUME Types, NEW r \in Req, Handle(r)
    PROVE  /\ \A t \in Slug : t # req[r].slug => file'[t] = file[t]
           /\ \A c \in Req : c # array[req[r].slug] => cell'[c] = cell[c]
<1>1. CASE CreateLook(r) \/ DeleteLook(r) \/ Get(r) \/ Test(r) \/ SaveIndex(r)
           \/ WriteFails(r) \/ DeleteIndex(r)
  BY <1>1 DEF CreateLook, DeleteLook, Get, Test, SaveIndex, WriteFails, DeleteIndex, store
<1>2. CASE RotateLook(r)
  BY <1>2, RotateLookSteps
<1>3. CASE SaveFile(r) \/ DeleteFile(r)
  BY <1>3 DEF SaveFile, DeleteFile, Types, TypeOK
<1> QED
  BY <1>1, <1>2, <1>3 DEF Handle

\* What a lone rotation saves is the file's keys and its own.
LEMMA RotationSaves ==
    ASSUME NEW r \in Req, Holds(r), At(r, "rotate", "write")
    PROVE  file[req[r].slug] = req[r].keys /\ SavedKeys(r) = req[r].keys \cup {r}
BY DEF Holds, At, SavedKeys

\* Only a lone request's own steps touch what it has looked at.
LEMMA AllHoldNext == Types /\ ArrayInv /\ Alone /\ AllHold /\ [Next]_vars => AllHold'
<1> SUFFICES ASSUME Types, ArrayInv, Alone, AllHold, [Next]_vars,
                    NEW q \in Req, Running(q)', req'[q].slug \notin raced'
             PROVE  Holds(q)'
  BY DEF AllHold
<1>0. /\ \A p \in Req : req[p].pc # "new" => req[p].slug \in Slug
      /\ \A p \in Req : req[p].arr \in Req \cup {None} /\ req[p].keys \in Keys
      /\ \A ks \in Keys : ks # Gone
  BY InstanceApiAssumption DEF Types, TypeOK, ReqInv, Keys
<1>1. ASSUME NEW r \in Req, Handle(r), q # r PROVE Holds(q)'
  <2>1. Steps(r)
    BY <1>1, HandleSteps
  <2>2. req'[q] = req[q] /\ Running(q) /\ req[q].slug \notin raced
    BY <1>1, <2>1 DEF Steps, Running
  <2>3. Holds(q) /\ req[q].slug \in Slug
    BY <1>0, <2>2 DEF AllHold, Running
  <2>4. req[r].slug # req[q].slug /\ req[r].slug \in Slug
    BY <1>0, <1>1, <2>1, <2>2 DEF Alone, Steps, Running
  <2>5. file'[req[q].slug] = file[req[q].slug]
    BY <1>1, <2>3, <2>4, HandleStore
  <2>6. req[q].arr # None => cell'[req[q].arr] = cell[req[q].arr]
    <3>1. SUFFICES ASSUME req[q].arr # None PROVE req[q].arr # array[req[r].slug]
      BY <1>0, <1>1, HandleStore
    <3>2. req[req[q].arr].slug = req[q].slug
      BY <2>2, <3>1 DEF ArrayInv
    <3> QED
      BY <2>4, <3>1, <3>2 DEF ArrayInv
  <2> QED
    BY <2>2, <2>3, <2>5, <2>6 DEF Holds, At
<1>2. ASSUME Handle(q) PROVE Holds(q)'
  <2>1. Steps(q)
    BY <1>2, HandleSteps
  <2>2. Holds(q) /\ req'[q].pc # "done" /\ req[q].slug \in Slug
    BY <1>0, <2>1 DEF AllHold, Steps, Running
  <2> USE DEF Moves
  <2>3. CASE CreateLook(q)
    <3>1. /\ At(q, "create", "look") /\ req'[q].pc = "write" /\ req'[q].op = req[q].op
          /\ req'[q].slug = req[q].slug /\ index[req[q].slug] = Gone /\ file' = file
          /\ index[req[q].slug] = file[req[q].slug]
      BY <2>2, <2>3, CreateLookSteps DEF Known, store
    <3> QED
      BY <3>1 DEF Holds, At
  <2>4. CASE DeleteLook(q)
    <3>1. /\ At(q, "delete", "look") /\ req'[q].pc = "write" /\ req'[q].op = req[q].op
          /\ req'[q].slug = req[q].slug /\ index[req[q].slug] # Gone /\ file' = file
          /\ index[req[q].slug] = file[req[q].slug]
      BY <2>2, <2>4, DeleteLookSteps DEF Known, store
    <3> QED
      BY <3>1 DEF Holds, At
  <2>5. CASE RotateLook(q)
    <3>1. /\ req'[q].pc = "write" /\ req'[q].op = "rotate" /\ req'[q].slug = req[q].slug
          /\ req'[q].keys = index[req[q].slug] /\ req'[q].arr = array[req[q].slug]
          /\ cell' = [p \in Req |-> IF p = array[req[q].slug] THEN q ELSE cell[p]]
          /\ file' = file /\ index[req[q].slug] = file[req[q].slug]
      BY <2>2, <2>5, RotateLookSteps
    <3>2. array[req[q].slug] \in Req \cup {None}
      BY <2>2 DEF Types, TypeOK
    <3> QED
      BY <3>1, <3>2 DEF Holds, At
  <2>6. CASE Get(q) \/ Test(q) \/ SaveIndex(q) \/ WriteFails(q) \/ DeleteIndex(q)
    BY <2>2, <2>6, GetSteps, SaveIndexSteps, WriteFailsSteps, DeleteIndexSteps
  <2>7. CASE SaveFile(q)
    <3>1. /\ req[q].pc = "write" /\ req'[q].pc = "file"
          /\ req'[q].op = req[q].op /\ req'[q].slug = req[q].slug /\ req'[q].keys = req[q].keys
      BY <2>7, SaveFileSteps
    <3>2. file'[req[q].slug] = SavedKeys(q)
      BY <2>2, <2>7 DEF SaveFile, Types, TypeOK
    <3>3. CASE req[q].op = "rotate"
      <4>1. q \in SavedKeys(q) /\ SavedKeys(q) \in Keys
        BY <2>2, <3>1, <3>3, RotationSaves, SavedKeysType DEF At
      <4> QED
        BY <1>0, <3>1, <3>2, <3>3, <4>1 DEF Holds, At
    <3>4. CASE req[q].op # "rotate"
      BY <3>1, <3>2, <3>4 DEF Holds, At, SavedKeys
    <3> QED
      BY <3>3, <3>4
  <2>8. CASE DeleteFile(q)
    BY <2>8, DeleteFileSteps DEF Holds, At
  <2> QED
    BY <1>2, <2>3, <2>4, <2>5, <2>6, <2>7, <2>8 DEF Handle
<1>3. ASSUME NEW r \in Req, NEW s \in Slug, Arrive(r, s) PROVE Holds(q)'
  <2>1. /\ req'[r].pc = "write" => req'[r].op = "replace"
        /\ req'[r].pc \in {"look", "write", "done"}
        /\ \A p \in Req : p # r => req'[p] = req[p]
        /\ raced \subseteq raced' /\ UNCHANGED <<store, owed>>
    BY <1>3, ArriveSteps
  <2>2. CASE q = r
    BY <2>1, <2>2 DEF Holds, At
  <2>3. CASE q # r
    <3>1. req'[q] = req[q] /\ file' = file /\ cell' = cell /\ Running(q) /\ req[q].slug \notin raced
      BY <2>1, <2>3 DEF store, Running
    <3>2. Holds(q)
      BY <3>1 DEF AllHold
    <3> QED
      BY <3>1, <3>2 DEF Holds, At
  <2> QED
    BY <2>2, <2>3
<1>4. ASSUME UNCHANGED <<file, cell, req, raced>> PROVE Holds(q)'
  <2>1. Holds(q)
    BY <1>4 DEF AllHold, Running
  <2> QED
    BY <1>4, <2>1 DEF Holds, At
<1>5. ASSUME NEW s \in Slug, Reconcile(s) PROVE Holds(q)'
  BY <1>4, <1>5, ReconcileSteps
<1>6. CASE UNCHANGED vars
  BY <1>4, <1>6 DEF vars, store
<1> QED
  BY <1>1, <1>2, <1>3, <1>5, <1>6 DEF Next

\* A save or delete of a lone request keeps the keys that are owed.
LEMMA KeysKeptNext ==
    Types /\ AllHold /\ KeysKept /\ [Next]_vars => KeysKept'
<1> SUFFICES ASSUME Types, AllHold, KeysKept, [Next]_vars,
                    NEW s \in Slug, s \notin raced', owed'[s] # {}
             PROVE  file'[s] # Gone /\ owed'[s] \subseteq file'[s]
  BY DEF KeysKept
<1>0. /\ owed \in [Slug -> Keys] /\ file \in [Slug -> Keys \cup {Gone}]
      /\ \A ks \in Keys : ks # Gone
  BY InstanceApiAssumption DEF Types, TypeOK, Keys
<1>1. ASSUME raced \subseteq raced', UNCHANGED <<file, owed>>
      PROVE  file'[s] # Gone /\ owed'[s] \subseteq file'[s]
  BY <1>1 DEF KeysKept
<1>2. ASSUME NEW r \in Req, Handle(r)
      PROVE  file'[s] # Gone /\ owed'[s] \subseteq file'[s]
  <2>1. Steps(r) /\ s \notin raced
    BY <1>2, HandleSteps DEF Steps
  <2>2. req[r].slug = s => Holds(r)
    BY <2>1 DEF AllHold, Steps
  <2>3. owed[s] # {} => file[s] # Gone /\ owed[s] \subseteq file[s]
    BY <2>1 DEF KeysKept
  <2>4. CASE CreateLook(r) \/ DeleteLook(r) \/ RotateLook(r) \/ Get(r) \/ Test(r)
             \/ WriteFails(r) \/ DeleteIndex(r)
    <3>1. UNCHANGED <<file, owed>>
      BY <2>4 DEF CreateLook, DeleteLook, RotateLook, Get, Test, WriteFails, DeleteIndex, store
    <3> QED
      BY <1>1, <2>1, <3>1 DEF Steps
  <2>5. CASE SaveFile(r)
    <3>1. /\ req[r].pc = "write" /\ file' = [file EXCEPT ![req[r].slug] = SavedKeys(r)]
          /\ req[r].op # "rotate" => owed' = [owed EXCEPT ![req[r].slug] = {}]
          /\ req[r].op = "rotate" => owed' = owed
      BY <2>5 DEF SaveFile
    <3>2. CASE req[r].slug # s
      <4>1. file'[s] = file[s] /\ owed'[s] = owed[s]
        BY <1>0, <3>1, <3>2
      <4> QED
        BY <2>3, <4>1
    <3>3. CASE req[r].slug = s
      <4>1. req[r].op = "rotate" /\ owed' = owed
        BY <1>0, <3>1, <3>3
      <4>2. file'[s] = file[s] \cup {r} /\ file'[s] \in Keys
        BY <1>0, <2>2, <3>1, <3>3, <4>1, RotationSaves, SavedKeysType DEF At
      <4> QED
        BY <1>0, <2>3, <4>1, <4>2
    <3> QED
      BY <3>2, <3>3
  <2>6. CASE SaveIndex(r)
    <3> DEFINE given == IF req[r].op = "rotate" THEN {r} ELSE req[r].keys
    <3>1. /\ req[r].pc = "file" /\ req[r].op # "delete" /\ file' = file
          /\ owed' = [owed EXCEPT ![req[r].slug] = @ \cup given]
      BY <2>6 DEF SaveIndex
    <3>2. req[r].op \in {"create", "replace", "rotate"} /\ req[r].keys \in Keys
      BY <3>1 DEF Types, TypeOK, ReqInv
    <3>3. req[r].slug = s => file[s] # Gone /\ given \subseteq file[s]
      BY <1>0, <2>2, <3>1, <3>2 DEF Holds, At
    <3> HIDE DEF given
    <3>4. CASE req[r].slug # s
      BY <1>0, <2>3, <3>1, <3>4
    <3>5. CASE req[r].slug = s
      BY <1>0, <2>3, <3>1, <3>3, <3>5
    <3> QED
      BY <3>4, <3>5
  <2>7. CASE DeleteFile(r)
    <3>1. /\ file' = [file EXCEPT ![req[r].slug] = Gone]
          /\ owed' = [owed EXCEPT ![req[r].slug] = {}]
      BY <2>7 DEF DeleteFile
    <3> QED
      BY <1>0, <2>3, <3>1
  <2> QED
    BY <1>2, <2>4, <2>5, <2>6, <2>7 DEF Handle
<1>3. ASSUME NEW r \in Req, NEW t \in Slug, Arrive(r, t)
      PROVE  file'[s] # Gone /\ owed'[s] \subseteq file'[s]
  BY <1>1, <1>3, ArriveSteps DEF store
<1>4. ASSUME NEW t \in Slug, Reconcile(t)
      PROVE  file'[s] # Gone /\ owed'[s] \subseteq file'[s]
  BY <1>1, <1>4, ReconcileSteps
<1>5. CASE UNCHANGED vars
  BY <1>1, <1>5 DEF vars, store
<1> QED
  BY <1>2, <1>3, <1>4, <1>5 DEF Next

-----------------------------------------------------------------------------
\* The invariant is inductive.
LEMMA InvInit == Init => Inv
<1> SUFFICES ASSUME Init PROVE Inv
  OBVIOUS
<1>1. Types
  BY TypesInit
<1>2. \A r \in Req : req[r] = NewReq
  BY DEF Init
<1>3. ArrayInv /\ Alone /\ AllHold
  BY <1>2 DEF Init, ArrayInv, Alone, AllHold, Running, NewReq
<1>4. KeysKept
  BY DEF Init, KeysKept
<1> QED
  BY <1>1, <1>3, <1>4 DEF Inv, Types

LEMMA InvNext == Inv /\ [Next]_vars => Inv'
BY TypesNext, ArrayInvNext, AloneNext, AllHoldNext, KeysKeptNext DEF Inv, Types

LEMMA InvHolds == Spec => []Inv
<1>1. Inv /\ [Next]_vars => Inv'
  BY InvNext
<1> QED
  BY InvInit, <1>1, PTL DEF Spec

\* Every variable of the REST API's model keeps its type.
THEOREM Typing == Spec => []TypeOK
<1>1. Inv => TypeOK
  BY DEF Inv
<1> QED
  BY InvHolds, <1>1, PTL

\* A key that rotate-key or an accepted body handed out is in the instance's file
\* until a later request replaces or deletes the instance, whatever the watcher
\* does, as long as requests for that slug did not race.
THEOREM KeysStay == Spec => []KeysKept
<1>1. Inv => KeysKept
  BY DEF Inv
<1> QED
  BY InvHolds, <1>1, PTL

\* The file of a slug that is not raced changes only by a request that takes
\* effect as if its look and its write were one step.
LEMMA AsOneStepNext ==
    ASSUME Inv, [Next]_vars, NEW s \in Slug, file'[s] # file[s], s \notin raced
    PROVE  \E r \in Req : req[r].pc = "write" /\ req'[r].pc = "file"
                          /\ req[r].slug = s /\ AsIfAtomic(r, s)
<1>0. Types
  BY DEF Inv, Types
<1>1. ~ UNCHANGED vars
  BY DEF vars, store
<1>2. ~ \E t \in Slug : Reconcile(t)
  BY <1>0, ReconcileSteps
<1>3. ~ \E r \in Req, t \in Slug : Arrive(r, t)
  BY <1>0, ArriveSteps DEF store
<1>4. PICK r \in Req : Handle(r)
  BY <1>1, <1>2, <1>3 DEF Next
<1>5. SaveFile(r) \/ DeleteFile(r)
  BY <1>4 DEF Handle, CreateLook, DeleteLook, RotateLook, Get, Test, SaveIndex, WriteFails,
              DeleteIndex, store
<1>6. req[r].slug = s
  BY <1>0, <1>4, HandleStore
<1>7. Running(r) /\ Holds(r)
  BY <1>0, <1>4, <1>6, HandleSteps DEF Inv, AllHold, Steps
<1>8. file \in [Slug -> Keys \cup {Gone}]
  BY <1>0 DEF Types, TypeOK
<1>9. CASE SaveFile(r)
  <2>1. req[r].pc = "write" /\ req[r].op # "delete" /\ req'[r].pc = "file"
    BY <1>0, <1>9, SaveFileSteps DEF Moves
  <2>2. file'[s] = SavedKeys(r)
    BY <1>6, <1>8, <1>9 DEF SaveFile
  <2>3. req[r].op \in {"create", "replace", "rotate"} /\ req[r].keys \in Keys
    BY <1>0, <2>1 DEF Types, TypeOK, ReqInv
  <2>4. CASE req[r].op = "rotate"
    <3>1. file[s] = req[r].keys /\ SavedKeys(r) = req[r].keys \cup {r}
      BY <1>6, <1>7, <2>1, <2>4, RotationSaves DEF At
    <3>2. req[r].keys # Gone
      BY <2>3, InstanceApiAssumption DEF Keys
    <3>3. AsIfAtomic(r, s)
      BY <2>2, <2>4, <3>1, <3>2 DEF AsIfAtomic
    <3> QED
      BY <1>6, <2>1, <3>3
  <2>5. CASE req[r].op \in {"create", "replace"}
    <3>1. SavedKeys(r) = req[r].keys
      BY <2>5 DEF SavedKeys
    <3>2. req[r].op = "create" => file[s] = Gone
      BY <1>6, <1>7, <2>1 DEF Holds, At
    <3>3. AsIfAtomic(r, s)
      BY <2>2, <2>5, <3>1, <3>2 DEF AsIfAtomic
    <3> QED
      BY <1>6, <2>1, <3>3
  <2> QED
    BY <2>3, <2>4, <2>5
<1>10. CASE DeleteFile(r)
  <2>1. At(r, "delete", "write") /\ req'[r].pc = "file"
    BY <1>0, <1>10, DeleteFileSteps DEF Moves
  <2>2. file[s] # Gone /\ file'[s] = Gone
    BY <1>6, <1>7, <1>8, <1>10, <2>1 DEF DeleteFile, Holds
  <2>3. AsIfAtomic(r, s)
    BY <2>1, <2>2 DEF AsIfAtomic, At
  <2> QED
    BY <1>6, <2>1, <2>3 DEF At
<1> QED
  BY <1>5, <1>9, <1>10

\* Requests for one slug that do not race take effect as if each were one atomic
\* step: create does not overwrite an instance, rotate-key neither loses a key
\* nor revives a deleted instance.
THEOREM AsOneStep == Spec => AtomicUnlessRaced
<1>1. Inv /\ [Next]_vars =>
         [\A s \in Slug : file'[s] # file[s] /\ s \notin raced =>
             \E r \in Req : req[r].pc = "write" /\ req'[r].pc = "file"
                            /\ req[r].slug = s /\ AsIfAtomic(r, s)]_vars
  BY AsOneStepNext
<1> QED
  BY InvHolds, <1>1, PTL DEF Spec, AtomicUnlessRaced
=============================================================================
