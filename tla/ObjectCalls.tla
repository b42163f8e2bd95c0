---------------------------- MODULE ObjectCalls ----------------------------
(***************************************************************************)
(* connectors/builtin/s3/s3.go and oss/oss.go over pkg/objectstore: the    *)
(* tools of one instance of either driver.  A call is at most one request  *)
(* to the service, which may fail before or after it has done what was     *)
(* asked.  Keys are numbers, in the order the service lists them.          *)
(* External: the service and the SDKs.                                     *)
(***************************************************************************)
EXTENDS Integers, FiniteSets

CONSTANTS ObjCaller, Bucket,
          MaxKey,      \* bound: keys are 1 .. MaxKey
          Content,
          PageSizes,   \* max_keys in calls
          DefaultPage, LargestPage,   \* of objectstore.Limit
          Gone,        \* no object, and no bucket given
          Slip         \* an error whose text has "404" in it by chance

ASSUME ObjectAssumption == /\ MaxKey \in Nat \ {0} /\ PageSizes \subseteq Int
                           /\ DefaultPage \in 1 .. LargestPage
                           /\ LargestPage \in Nat \ {0}
                           /\ Gone \notin Content \cup Bucket
                           /\ Slip \notin {"done", "not found", "error"}

Key == 1 .. MaxKey

VARIABLES
    objects, \* what the service has
    driver,  \* "s3" or "oss"
    usual,   \* the bucket of the configuration, or Gone
    ocall    \* the call of each client

ovars == <<objects, driver, usual, ocall>>

NoObjCall == [pc |-> "idle", tool |-> "get", bucket |-> Gone, key |-> 1, content |-> Gone,
              size |-> 0, reply |-> "none", ok |-> FALSE, seen |-> {},
              page |-> {}, all |-> {}, cut |-> FALSE]

ObjectsInit == /\ objects = [b \in Bucket |-> [k \in Key |-> Gone]]
               /\ driver \in {"s3", "oss"} /\ usual \in Bucket \cup {Gone}
               /\ ocall = [c \in ObjCaller |-> NoObjCall]

Present(b) == {k \in Key : objects[b][k] # Gone}
ObjAt(c, pc) == ocall[c].pc = pc

\* The calls after a change, each with what its object has been since it began.
Seeing(objs) == [c \in ObjCaller |->
                   IF ocall[c].bucket = Gone THEN ocall[c]
                   ELSE [ocall[c] EXCEPT !.seen = @ \cup {objs[ocall[c].bucket][ocall[c].key]}]]

-----------------------------------------------------------------------------
(* Wrong variants of some definitions below, each a bug the code could have. *)

IsNotFoundAny(reply) == TRUE \* every error of a delete is dropped

-----------------------------------------------------------------------------
(* What the arguments come to *)

\* The bucket of the configuration stands in for a missing one.
Resolved(bucket) == IF bucket = Gone THEN usual ELSE bucket

\* objectstore.Limit
PageLimit(n) == IF n <= 0 THEN DefaultPage
                ELSE IF n > LargestPage THEN LargestPage ELSE n

Request(c, tool, bucket, k, content, size) ==
    LET b == Resolved(bucket)
    IN  /\ ObjAt(c, "idle") /\ b # Gone
        /\ ocall' = [ocall EXCEPT ![c] = [NoObjCall EXCEPT
                        !.pc = "sent", !.tool = tool, !.bucket = b, !.key = k,
                        !.content = content, !.size = size, !.seen = {objects[b][k]}]]
        /\ UNCHANGED <<objects, driver, usual>>

-----------------------------------------------------------------------------
(* InvokeTool *)

PutObject(c) == \E b \in Bucket \cup {Gone}, k \in Key, v \in Content :
                   Request(c, "put", b, k, v, 0)
GetObject(c) == \E b \in Bucket \cup {Gone}, k \in Key : Request(c, "get", b, k, Gone, 0)
ListObjects(c) == \E b \in Bucket \cup {Gone}, n \in PageSizes :
                     Request(c, "list", b, 1, Gone, PageLimit(n))
OssDelete(c) == /\ driver = "oss"
                /\ \E b \in Bucket \cup {Gone}, k \in Key : Request(c, "delete", b, k, Gone, 0)

\* The driver for S3 has a Delete, and its delete_object does not call it, nor
\* does it ask for a bucket.
S3Delete(c) ==
    /\ driver = "s3" /\ ObjAt(c, "idle")
    /\ \E bucket \in Bucket \cup {Gone}, k \in Key :
          LET b == Resolved(bucket)
          IN  ocall' = [ocall EXCEPT ![c] = [NoObjCall EXCEPT
                          !.pc = "answered", !.tool = "delete", !.bucket = b, !.key = k,
                          !.ok = TRUE, !.seen = IF b = Gone THEN {} ELSE {objects[b][k]}]]
    /\ UNCHANGED <<objects, driver, usual>>

-----------------------------------------------------------------------------
(* The service *)

Serve(c) ==
    LET call == ocall[c]
        all == Present(call.bucket)
        page == {k \in all : Cardinality({j \in all : j <= k}) <= call.size}
        put(v) == [objects EXCEPT ![call.bucket][call.key] = v]
        objs == CASE call.tool = "put" -> put(call.content)
                  [] call.tool = "delete" -> put(Gone)
                  [] OTHER -> objects
    IN  /\ ObjAt(c, "sent")
        /\ objects' = objs
        /\ ocall' = [Seeing(objs) EXCEPT
             ![c].pc = "served",
             ![c].reply = IF call.tool = "get" /\ call.key \notin all
                          THEN "not found" ELSE "done",
             ![c].content = IF call.tool = "get" THEN objects[call.bucket][call.key] ELSE @,
             ![c].page = IF call.tool = "list" THEN page ELSE {},
             ![c].all = IF call.tool = "list" THEN all ELSE {},
             ![c].cut = call.tool = "list" /\ page # all]
        /\ UNCHANGED <<driver, usual>>

\* The request or its answer is lost, or the service refuses.
Breaks(c) == /\ ocall[c].pc \in {"sent", "served"}
             /\ ocall[c].reply \in {"none", "done"}
             /\ \E e \in {"error", Slip} :
                   ocall' = [ocall EXCEPT ![c].pc = "served", ![c].reply = e]
             /\ UNCHANGED <<objects, driver, usual>>

-----------------------------------------------------------------------------
\* isNotFound of oss.go looks for "404" anywhere in the text of the error.
IsNotFound(reply) == reply \in {"not found", Slip}

\* The answer of the tool: an error, unless a delete finds nothing to delete.
Reply(c) ==
    LET call == ocall[c]
    IN  /\ ObjAt(c, "served")
        /\ ocall' = [ocall EXCEPT
             ![c].pc = "answered",
             ![c].ok = \/ call.reply = "done"
                       \/ call.tool = "delete" /\ IsNotFound(call.reply)]
        /\ UNCHANGED <<objects, driver, usual>>

Forgotten(c) == /\ ObjAt(c, "answered")
                /\ ocall' = [ocall EXCEPT ![c] = NoObjCall]
                /\ UNCHANGED <<objects, driver, usual>>

ObjectsNext == \E c \in ObjCaller :
    \/ PutObject(c) \/ GetObject(c) \/ ListObjects(c) \/ OssDelete(c) \/ S3Delete(c)
    \/ Serve(c) \/ Breaks(c) \/ Reply(c) \/ Forgotten(c)

ObjectsSpec == ObjectsInit /\ [][ObjectsNext]_ovars

-----------------------------------------------------------------------------
ObjectTypeOK ==
    /\ objects \in [Bucket -> [Key -> Content \cup {Gone}]]
    /\ driver \in {"s3", "oss"} /\ usual \in Bucket \cup {Gone}
    /\ \A c \in ObjCaller : /\ ocall[c].size \in 0 .. LargestPage
                            /\ ocall[c].seen \subseteq Content \cup {Gone}

\* Done is done: an object that was answered as written, read or deleted was so
\* at some moment of the call, whatever other calls do and whatever is lost.
\* Two exceptions: the delete of s3, which asks the service for nothing, and a
\* delete of oss that failed with an error in whose text there is a "404".
OkIsDone ==
    \A c \in ObjCaller :
       LET call == ocall[c]
       IN  ObjAt(c, "answered") /\ call.ok =>
              CASE call.tool \in {"put", "get"} -> call.content \in call.seen \ {Gone}
                [] call.tool = "delete" /\ driver = "oss" ->
                      Gone \in call.seen \/ call.reply = Slip
                [] OTHER -> TRUE

\* A page says whether there is more, and an empty one is the whole list; what
\* is past the first page no call can ask for.
PageIsHonest ==
    \A c \in ObjCaller :
       LET call == ocall[c]
       IN  ObjAt(c, "answered") /\ call.ok /\ call.tool = "list" =>
              /\ call.page = {} => call.all = {}
              /\ \/ call.page = call.all
                 \/ call.cut /\ \A j \in call.page, k \in call.all \ call.page : j < k

\* "Delete an object. Idempotent.": after a delete that was answered with ok
\* the object of the bucket it named is gone, or was at some moment of the call.
DeleteDeletes ==
    \A c \in ObjCaller :
       LET call == ocall[c]
       IN  /\ ObjAt(c, "answered") /\ call.ok
           /\ call.tool = "delete" /\ call.bucket # Gone
           => Gone \in call.seen
=============================================================================
