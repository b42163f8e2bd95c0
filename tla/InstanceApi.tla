----------------------------- MODULE InstanceApi -----------------------------
(***************************************************************************)
(* internal/api/api.go: the handlers of /api/v1/instances, each a sequence *)
(* of a look at the store's index and a Save or Delete, with nothing that  *)
(* orders two requests for one slug.  Of an instance the model keeps the   *)
(* API keys, the only part a handler computes from what it read.  The      *)
(* store is module InstanceStore at the grain the handlers see: a file, an *)
(* index entry, and a watcher that brings the entry up to date later.      *)
(***************************************************************************)
EXTENDS Naturals, FiniteSets

CONSTANTS Slug,
          Req,    \* requests, each sent once; a rotation's new key is its own name
          Gone,   \* no such file, no such entry
          None,
          Roomy   \* for how many keys a clone's array has room for one more

ASSUME InstanceApiAssumption ==
    /\ {Gone, None} \cap Req = {}
    /\ \A ks \in SUBSET Req : ks \notin {Gone, None}
    /\ Roomy \subseteq Nat

VARIABLES
    file,    \* the keys in each instance's file
    index,   \* the keys of its entry in Store.bySlug
    array,   \* whose Save allocated the entry's key array, if it has room
    cell,    \* the key appended to the array that a Save allocated
    event,   \* the last change of the file that the watcher has to handle
    reading, \* what reconcileFile has read and not yet filed
    req,     \* each request
    raced,   \* history: slugs whose requests overlapped, or acted on an
             \* entry that was behind its file
    owed     \* history: acknowledged keys that nobody has replaced

store == <<file, index, array, cell, event, reading>>
vars == <<store, req, raced, owed>>

Keys == SUBSET Req
NewReq == [op |-> "get", slug |-> None, pc |-> "new", keys |-> {}, arr |-> None,
           status |-> 0]

\* scanDisk has found the files that are there.
Init == /\ file \in [Slug -> {Gone, {}}]
        /\ index = file
        /\ array = [s \in Slug |-> None]
        /\ cell = [r \in Req |-> None]
        /\ event = [s \in Slug |-> "none"]
        /\ reading = [s \in Slug |-> None]
        /\ req = [r \in Req |-> NewReq]
        /\ raced = {}
        /\ owed = [s \in Slug |-> {}]

Running(r) == req[r].pc \in {"look", "write", "file"}
Known(r) == index[req[r].slug] # Gone
At(r, op, pc) == req[r].op = op /\ req[r].pc = pc
Goes(r, pc) == req' = [req EXCEPT ![r].pc = pc]
Answers(r, code) == req' = [req EXCEPT ![r].pc = "done", ![r].status = code]
Looks(r) == LET s == req[r].slug
            IN  raced' = raced \cup {x \in {s} : index[s] # file[s]}

-----------------------------------------------------------------------------
(* Wrong variants of some steps below, each a bug this code could have had. *)

CreateLookNot(r) == \* HasInstance is not asked
    /\ At(r, "create", "look")
    /\ Goes(r, "write")
    /\ Looks(r)
    /\ UNCHANGED <<store, owed>>
SavedKeysNew(r) == \* the new key in place of the old ones
    IF req[r].op = "rotate" THEN {r} ELSE req[r].keys
NotifyFirst(s, e) == \* the debounce keeps the first event
    event' = [event EXCEPT ![s] = IF @ = "none" THEN e ELSE @]

-----------------------------------------------------------------------------
(* The handlers *)

\* A request arrives; a body that does not parse, a bad slug, or a slug that is
\* not that of the path, is refused at once.
Arrive(r, s) ==
    /\ req[r].pc = "new"
    /\ \E op \in {"create", "replace", "delete", "rotate", "get", "test"} :
       \E body \in IF op \in {"create", "replace"} THEN {{}, {r}} ELSE {{}} :
         \/ req' = [req EXCEPT ![r] = [NewReq EXCEPT !.op = op, !.slug = s,
              !.keys = body, !.pc = IF op = "replace" THEN "write" ELSE "look"]]
         \/ /\ op \in {"create", "replace"}
            /\ req' = [req EXCEPT ![r] = [NewReq EXCEPT !.op = op, !.slug = s,
                                                !.pc = "done", !.status = 400]]
    /\ raced' = raced \cup {x \in {s} : \E q \in Req : Running(q) /\ req[q].slug = s}
    /\ UNCHANGED <<store, owed>>

CreateLook(r) == /\ At(r, "create", "look")
                 /\ IF Known(r) THEN Answers(r, 409) ELSE Goes(r, "write")
                 /\ Looks(r)
                 /\ UNCHANGED <<store, owed>>

DeleteLook(r) == /\ At(r, "delete", "look")
                 /\ IF Known(r) THEN Goes(r, "write") ELSE Answers(r, 404)
                 /\ Looks(r)
                 /\ UNCHANGED <<store, owed>>

\* GetInstance copies the struct but not the array: append writes into the one
\* the index holds when that has room.
RotateLook(r) ==
    LET s == req[r].slug
    IN  /\ At(r, "rotate", "look")
        /\ IF Known(r)
           THEN /\ req' = [req EXCEPT ![r].pc = "write", ![r].keys = index[s],
                                      ![r].arr = array[s]]
                /\ cell' = [q \in Req |-> IF q = array[s] THEN r ELSE cell[q]]
           ELSE Answers(r, 404) /\ UNCHANGED cell
        /\ Looks(r)
        /\ UNCHANGED <<file, index, array, event, reading, owed>>

Get(r) == /\ At(r, "get", "look")
          /\ Answers(r, IF Known(r) THEN 200 ELSE 404)
          /\ UNCHANGED <<store, raced, owed>>

\* The instance may be known and not be live yet.
Test(r) == /\ At(r, "test", "look")
           /\ \/ Known(r) /\ Answers(r, 200)
              \/ Answers(r, 404)
           /\ UNCHANGED <<store, raced, owed>>

\* The keys of inst at this moment.
SavedKeys(r) ==
    IF req[r].op # "rotate" THEN req[r].keys
    ELSE req[r].keys \cup {IF req[r].arr = None THEN r ELSE cell[req[r].arr]}

\* The watcher is told; of two events within the debounce it keeps the last.
Notify(s, e) == event' = [event EXCEPT ![s] = e]

\* Store.Save: the file.
SaveFile(r) ==
    LET s == req[r].slug
    IN  /\ req[r].pc = "write" /\ req[r].op # "delete"
        /\ file' = [file EXCEPT ![s] = SavedKeys(r)]
        /\ Notify(s, "write")
        /\ owed' = IF req[r].op = "rotate" THEN owed ELSE [owed EXCEPT ![s] = {}]
        /\ Goes(r, "file")
        /\ UNCHANGED <<index, array, cell, reading, raced>>

\* Store.Save: the index, with a clone of inst; then the answer.
SaveIndex(r) ==
    LET s == req[r].slug
        given == IF req[r].op = "rotate" THEN {r} ELSE req[r].keys
    IN  /\ req[r].pc = "file" /\ req[r].op # "delete"
        /\ index' = [index EXCEPT ![s] = SavedKeys(r)]
        /\ array' = [array EXCEPT ![s] =
                       IF Cardinality(SavedKeys(r)) \in Roomy THEN r ELSE None]
        /\ owed' = [owed EXCEPT ![s] = @ \cup given]
        /\ Answers(r, IF req[r].op = "create" THEN 201 ELSE 200)
        /\ UNCHANGED <<file, cell, event, reading, raced>>

\* Validate, the lock or the write fails, or the removal does.
WriteFails(r) == /\ req[r].pc = "write"
                 /\ Answers(r, IF req[r].op \in {"create", "replace"} THEN 400 ELSE 500)
                 /\ UNCHANGED <<store, raced, owed>>

\* Store.Delete: a file that is not there is as good as removed.
DeleteFile(r) ==
    LET s == req[r].slug
    IN  /\ At(r, "delete", "write")
        /\ file' = [file EXCEPT ![s] = Gone]
        /\ IF file[s] = Gone THEN UNCHANGED event ELSE Notify(s, "remove")
        /\ owed' = [owed EXCEPT ![s] = {}]
        /\ Goes(r, "file")
        /\ UNCHANGED <<index, array, cell, reading, raced>>

DeleteIndex(r) ==
    LET s == req[r].slug
    IN  /\ At(r, "delete", "file")
        /\ index' = [index EXCEPT ![s] = Gone]
        /\ array' = [array EXCEPT ![s] = None]
        /\ Answers(r, 204)
        /\ UNCHANGED <<file, cell, event, reading, raced, owed>>

Handle(r) == \/ CreateLook(r) \/ DeleteLook(r) \/ RotateLook(r) \/ Get(r) \/ Test(r)
             \/ SaveFile(r) \/ SaveIndex(r) \/ WriteFails(r)
             \/ DeleteFile(r) \/ DeleteIndex(r)

-----------------------------------------------------------------------------
(* The watcher: reconcileFile, one at a time for a slug *)

ReconcileRemove(s) == /\ event[s] = "remove" /\ reading[s] = None
                      /\ event' = [event EXCEPT ![s] = "none"]
                      /\ index' = [index EXCEPT ![s] = Gone]
                      /\ array' = [array EXCEPT ![s] = None]
                      /\ UNCHANGED <<file, cell, reading, req, raced, owed>>

\* readInstance; a file that is gone is given up.
ReconcileRead(s) ==
    /\ event[s] = "write" /\ reading[s] = None
    /\ event' = [event EXCEPT ![s] = "none"]
    /\ reading' = IF file[s] = Gone THEN reading ELSE [reading EXCEPT ![s] = file[s]]
    /\ UNCHANGED <<file, index, array, cell, req, raced, owed>>

\* What was read becomes the entry, even if the file has changed since.
ReconcileSet(s) == /\ reading[s] # None
                   /\ index' = [index EXCEPT ![s] = reading[s]]
                   /\ array' = [array EXCEPT ![s] = None]
                   /\ reading' = [reading EXCEPT ![s] = None]
                   /\ UNCHANGED <<file, cell, event, req, raced, owed>>

Reconcile(s) == ReconcileRemove(s) \/ ReconcileRead(s) \/ ReconcileSet(s)

-----------------------------------------------------------------------------
Next == \/ \E r \in Req : Handle(r) \/ \E s \in Slug : Arrive(r, s)
        \/ \E s \in Slug : Reconcile(s)

Spec == Init /\ [][Next]_vars

\* The server goes on while a handler or the watcher has something to do;
\* nobody owes a request.
Work == (\E r \in Req : Handle(r)) \/ \E s \in Slug : Reconcile(s)
FairSpec == Spec /\ WF_vars(Work)

-----------------------------------------------------------------------------
Codes == {0, 200, 201, 204, 400, 404, 409, 500}

TypeOK ==
    /\ file \in [Slug -> Keys \cup {Gone}] /\ index \in [Slug -> Keys \cup {Gone}]
    /\ array \in [Slug -> Req \cup {None}] /\ cell \in [Req -> Req \cup {None}]
    /\ event \in [Slug -> {"none", "write", "remove"}]
    /\ reading \in [Slug -> Keys \cup {None}]
    /\ req \in [Req -> [op : {"create", "replace", "delete", "rotate", "get", "test"},
                        slug : Slug \cup {None}, keys : Keys, arr : Req \cup {None},
                        pc : {"new", "look", "write", "file", "done"},
                        status : Codes]]
    /\ raced \subseteq Slug
    /\ owed \in [Slug -> Keys]

\* What a change of the file has to be if each request were one atomic step:
\* create makes a new instance, rotate-key adds its key to an instance that is
\* there, delete removes one that is there.
AsIfAtomic(r, s) ==
    CASE req[r].op = "create" -> file[s] = Gone /\ file'[s] = req[r].keys
      [] req[r].op = "replace" -> file'[s] = req[r].keys
      [] req[r].op = "rotate" -> file[s] # Gone /\ file'[s] = file[s] \cup {r}
      [] OTHER -> file[s] # Gone /\ file'[s] = Gone

\* The handlers look first and write later, over an index that trails the
\* files.  As long as no request for a slug overlapped another one, or met an
\* entry behind its file, every one of them took effect as if in one step: an
\* existing instance is not created over, a deleted one is not revived, a
\* rotation loses no key.
AtomicUnlessRaced ==
    [][\A s \in Slug : file'[s] # file[s] /\ s \notin raced =>
          \E r \in Req : req[r].pc = "write" /\ req'[r].pc = "file"
                         /\ req[r].slug = s /\ AsIfAtomic(r, s)]_vars

\* A key that was handed out (new_key, or in a body that was accepted) stays in
\* the file until the instance is replaced or deleted, unless requests raced.
KeysKept == \A s \in Slug : s \notin raced /\ owed[s] # {} =>
                               file[s] # Gone /\ owed[s] \subseteq file[s]

\* Such keys open /mcp/{slug} in the end, for good: the entry may fall behind
\* when the watcher applies a removal or an old reading late, but it recovers.
KeysOpen == \A s \in Slug :
    <>[](s \notin raced /\ owed[s] # {} => index[s] # Gone /\ owed[s] \subseteq index[s])
=============================================================================
