---------------------------- MODULE InstanceStore ----------------------------
(***************************************************************************)
(* internal/store/store.go: the directory of <slug>.yaml files, the index  *)
(* bySlug over it, and the watch loop that reconciles the two.  A file is  *)
(* replaced in one step (module AtomicFile; FileLock shows that flock.go   *)
(* does that), but a save changes the file and the index in two critical   *)
(* sections, and every change of a file comes back as an fsnotify event.   *)
(* Whoever edits the directory by hand writes the same files.              *)
(***************************************************************************)
EXTENDS Naturals, Sequences, FiniteSets

CONSTANTS Slug,       \* instance names
          Ver,        \* what else an instance file says
          Caller,     \* Save and Delete calls in flight
          Task,       \* reconcileFile goroutines in flight
          MaxEvents,  \* bound: undelivered fsnotify events
          MaxTries,   \* reads reconcileFile attempts, 5 in the code
          Misnamed,   \* may the slug inside a hand-made file differ from its name
          Apart,      \* do different files change more than a debounce apart
          Prompt,     \* do a few instructions take less time than a debounce
          NoFile,     \* no such file
          Bad,        \* a file that does not parse, or fails Validate
          None,       \* not in the index
          NoEvent     \* no timer

ASSUME ConstantsAssumption == /\ {NoFile, Bad, None} \cap [slug : Slug, ver : Ver] = {}
                              /\ NoFile # Bad /\ NoFile # None /\ Bad # None
                              /\ None \notin Slug
                              /\ NoEvent \notin [file : Slug, op : {"write", "remove"}]
                              /\ MaxEvents \in Nat \ {0}
                              /\ MaxTries \in Nat \ {0}
                              /\ {Misnamed, Apart, Prompt} \subseteq BOOLEAN

Instance == [slug : Slug, ver : Ver]      \* parses and passes Validate
Content == Instance \cup {NoFile, Bad}

Event == [file : Slug, op : {"write", "remove"}]

VARIABLES
    phase,   \* "down", "scanned" (New before w.Add), or "up"
    disk,    \* the content of <slug>.yaml
    index,   \* bySlug
    events,  \* fsnotify events not yet received by watchLoop
    timer,   \* the event of watchLoop's one pending timer, or NoEvent
    task,    \* running reconcileFile calls
    call,    \* running Save and Delete calls, between file and index
    unseen   \* history: files changed while no watch was set up

vars == <<phase, disk, index, events, timer, task, call, unseen>>

IdleTask == [ev |-> NoEvent, got |-> None, tries |-> 0]
IdleCall == [op |-> "idle", slug |-> None, inst |-> None]

\* A file of this slug written by the store names the slug it contains.
Handmade(f) == {i \in Instance : i.slug = f \/ Misnamed} \cup {Bad}

Init == /\ phase = "down"
        /\ disk \in {d \in [Slug -> Content] :
                       \A f \in Slug : d[f] \in Handmade(f) \cup {NoFile}}
        /\ index = [s \in Slug |-> None]
        /\ events = <<>>
        /\ timer = NoEvent
        /\ task = [t \in Task |-> IdleTask]
        /\ call = [c \in Caller |-> IdleCall]
        /\ unseen = {}

-----------------------------------------------------------------------------
(* Wrong variants of some steps below, each a bug this code could have had. *)

Finish(t) == task' = [task EXCEPT ![t] = IdleTask]

ReceiveKeepFirst == \* leave a pending timer alone
    /\ phase = "up" /\ events # <<>>
    /\ timer' = IF timer = NoEvent THEN Head(events) ELSE timer
    /\ events' = Tail(events)
    /\ UNCHANGED <<phase, disk, index, task, call, unseen>>
ReconcileRemoveNothing(t) == \* only Create and Write are handled
    /\ task[t] # IdleTask /\ task[t].ev.op = "remove"
    /\ Finish(t)
    /\ UNCHANGED <<phase, disk, index, events, timer, call, unseen>>
ReconcileReadOffByOne(t) == \* for i := 0; i <= 5
    /\ task[t] # IdleTask /\ task[t].ev.op = "write" /\ task[t].got = None
    /\ LET c == disk[task[t].ev.file]
       IN  \/ c \in Instance /\ task' = [task EXCEPT ![t].got = c]
           \/ c = Bad /\ Finish(t)
           \/ c = NoFile /\ IF task[t].tries = MaxTries
                            THEN Finish(t)
                            ELSE task' = [task EXCEPT ![t].tries = @ + 1]
    /\ UNCHANGED <<phase, disk, index, events, timer, call, unseen>>

-----------------------------------------------------------------------------
(* Changes of a file and their events *)

\* Only under Apart: no event of another file is waiting for the debounce.
Alone(f) == Apart => /\ \A k \in DOMAIN events : events[k].file = f
                     /\ timer # NoEvent => timer.file = f

\* File f gets content c.  The watch, once set up, queues an event.
Change(f, c) ==
    /\ disk[f] # c
    /\ disk' = [disk EXCEPT ![f] = c]
    /\ IF phase = "up"
       THEN /\ Alone(f) /\ Len(events) < MaxEvents
            /\ events' = Append(events, [file |-> f, op |->
                                   IF c = NoFile THEN "remove" ELSE "write"])
            /\ unseen' = unseen \ {f}
       ELSE /\ UNCHANGED events
            /\ unseen' = unseen \cup (IF phase = "scanned" THEN {f} ELSE {})

\* An operator edits, adds, breaks or removes a file.
Edit(f) == /\ \E c \in Handmade(f) \cup {NoFile} : Change(f, c)
           /\ UNCHANGED <<phase, index, timer, task, call>>

-----------------------------------------------------------------------------
(* Save and Delete *)

\* Save: Validate passed and writeWithLock renamed the new file into place.
SaveFile(c) ==
    /\ phase = "up" /\ call[c] = IdleCall
    /\ \E i \in Instance :
         /\ IF disk[i.slug] = i
            THEN /\ Alone(i.slug) /\ Len(events) < MaxEvents
                 /\ events' = Append(events, [file |-> i.slug, op |-> "write"])
                 /\ UNCHANGED <<disk, unseen>>
            ELSE Change(i.slug, i)
         /\ call' = [call EXCEPT ![c] =
                       [op |-> "save", slug |-> i.slug, inst |-> i]]
    /\ UNCHANGED <<phase, index, timer, task>>

SaveIndex(c) ==
    /\ call[c].op = "save"
    /\ index' = [index EXCEPT ![call[c].slug] = call[c].inst]
    /\ call' = [call EXCEPT ![c] = IdleCall]
    /\ UNCHANGED <<phase, disk, events, timer, task, unseen>>

\* Delete: os.Remove, where a missing file is no error.
DeleteFile(c) ==
    /\ phase = "up" /\ call[c] = IdleCall
    /\ \E s \in Slug :
         /\ IF disk[s] = NoFile THEN UNCHANGED <<disk, events, unseen>>
                                ELSE Change(s, NoFile)
         /\ call' = [call EXCEPT ![c] =
                       [op |-> "delete", slug |-> s, inst |-> None]]
    /\ UNCHANGED <<phase, index, timer, task>>

DeleteIndex(c) ==
    /\ call[c].op = "delete"
    /\ index' = [index EXCEPT ![call[c].slug] = None]
    /\ call' = [call EXCEPT ![c] = IdleCall]
    /\ UNCHANGED <<phase, disk, events, timer, task, unseen>>

-----------------------------------------------------------------------------
(* watchLoop and reconcileFile *)

\* An event stops the pending timer, whatever file that one was for.
Receive == /\ phase = "up" /\ events # <<>>
           /\ timer' = Head(events)
           /\ events' = Tail(events)
           /\ UNCHANGED <<phase, disk, index, task, call, unseen>>

\* Under Prompt, the time between two critical sections is nothing beside the
\* debounce: when a timer fires, no call is between file and index, and no
\* reconcileFile is running, other than asleep between two reads.
OthersRest == /\ \A c \in Caller : call[c] = IdleCall
              /\ \A t \in Task : \/ task[t] = IdleTask
                                 \/ task[t].tries > 0 /\ task[t].got = None

\* time.AfterFunc runs reconcileFile on a goroutine of its own.
Fire(t) == /\ timer # NoEvent /\ task[t] = IdleTask
           /\ Prompt => OthersRest
           /\ task' = [task EXCEPT ![t] = [IdleTask EXCEPT !.ev = timer]]
           /\ timer' = NoEvent
           /\ UNCHANGED <<phase, disk, index, events, call, unseen>>

\* Remove or Rename: the entry goes, without a look at the disk.
ReconcileRemove(t) ==
    /\ task[t] # IdleTask /\ task[t].ev.op = "remove"
    /\ index' = [index EXCEPT ![task[t].ev.file] = None]
    /\ Finish(t)
    /\ UNCHANGED <<phase, disk, events, timer, call, unseen>>

\* readInstance: a missing file is worth another try, a bad one is not.
ReconcileRead(t) ==
    /\ task[t] # IdleTask /\ task[t].ev.op = "write" /\ task[t].got = None
    /\ LET c == disk[task[t].ev.file]
       IN  \/ c \in Instance /\ task' = [task EXCEPT ![t].got = c]
           \/ c = Bad /\ Finish(t)
           \/ /\ c = NoFile
              /\ IF task[t].tries + 1 = MaxTries
                 THEN Finish(t)
                 ELSE task' = [task EXCEPT ![t].tries = @ + 1]
    /\ UNCHANGED <<phase, disk, index, events, timer, call, unseen>>

\* The entry is set under the file's name, whatever slug the file contains.
ReconcileSet(t) ==
    /\ task[t].got # None
    /\ index' = [index EXCEPT ![task[t].ev.file] = task[t].got]
    /\ Finish(t)
    /\ UNCHANGED <<phase, disk, events, timer, call, unseen>>

-----------------------------------------------------------------------------
(* New and Close, or a crash *)

\* scanDisk skips bad files and files every other under the slug it contains.
\* When two contain the same slug the last one read wins.
Scans(i) ==
    \A s \in Slug :
        LET Found == {disk[f] : f \in {g \in Slug : disk[g] \in Instance
                                                    /\ disk[g].slug = s}}
        IN  IF Found = {} THEN i[s] = None ELSE i[s] \in Found

Scan == /\ phase = "down"
        /\ index' \in {i \in [Slug -> Instance \cup {None}] : Scans(i)}
        /\ phase' = "scanned"
        /\ UNCHANGED <<disk, events, timer, task, call, unseen>>

Watch == /\ phase = "scanned"
         /\ phase' = "up"
         /\ UNCHANGED <<disk, index, events, timer, task, call, unseen>>

\* The process ends, orderly or not; what it had in memory is gone.
Stop == /\ phase # "down"
        /\ phase' = "down"
        /\ index' = [s \in Slug |-> None]
        /\ events' = <<>>
        /\ timer' = NoEvent
        /\ task' = [t \in Task |-> IdleTask]
        /\ call' = [c \in Caller |-> IdleCall]
        /\ unseen' = {}
        /\ UNCHANGED disk

-----------------------------------------------------------------------------
Reconcile(t) == ReconcileRemove(t) \/ ReconcileRead(t) \/ ReconcileSet(t)
Work == \/ Receive
        \/ \E t \in Task : Fire(t) \/ Reconcile(t)
        \/ \E c \in Caller : SaveIndex(c) \/ DeleteIndex(c)
        \/ Scan \/ Watch
Input == \/ \E f \in Slug : Edit(f)
         \/ \E c \in Caller : SaveFile(c) \/ DeleteFile(c)
         \/ Stop

Next == Work \/ Input

Spec == Init /\ [][Next]_vars

\* The goroutines the store started keep running; nobody owes it any input.
FairSpec == /\ Spec
            /\ WF_vars(Receive) /\ WF_vars(Scan) /\ WF_vars(Watch)
            /\ WF_vars(\E t \in Task : Fire(t))
            /\ \A t \in Task : WF_vars(Reconcile(t))
            /\ \A c \in Caller : WF_vars(SaveIndex(c) \/ DeleteIndex(c))

-----------------------------------------------------------------------------
TypeOK == /\ phase \in {"down", "scanned", "up"}
          /\ disk \in [Slug -> Content]
          /\ index \in [Slug -> Instance \cup {None}]
          /\ events \in Seq(Event) /\ Len(events) <= MaxEvents
          /\ timer \in Event \cup {NoEvent}
          /\ task \in [Task -> [ev : Event \cup {NoEvent},
                                got : Instance \cup {None},
                                tries : 0 .. MaxTries - 1]]
          /\ call \in [Caller -> [op : {"idle", "save", "delete"},
                                  slug : Slug \cup {None},
                                  inst : Instance \cup {None}]]
          /\ unseen \subseteq Slug

\* The index says what a good file says, and nothing of a missing file.  For a
\* file that does not parse or validate it may keep the last good instance.
Agree(s) == CASE disk[s] = NoFile -> index[s] = None
              [] disk[s] \in Instance -> index[s] = disk[s]
              [] OTHER -> TRUE

Pending(s) == \/ \E k \in DOMAIN events : events[k].file = s
              \/ timer # NoEvent /\ timer.file = s
              \/ \E t \in Task : task[t] # IdleTask /\ task[t].ev.file = s
              \/ \E c \in Caller : call[c].slug = s

\* Whenever index and file disagree, something that will repair it is under
\* way: concurrent saves and deletes, hand edits, slow reconciles and restarts
\* never leave a stale entry behind.  Not so for a file that changed between
\* scanDisk and w.Add: that one waits for its next change.  And not so when the
\* events of two files come within one debounce: the first is dropped.
StaleIsPending ==
    phase = "up" => \A s \in Slug : Agree(s) \/ Pending(s) \/ s \in unseen

\* "File changes are triggered by fsnotify": once input stops, index and
\* directory come to agree, and stay so.
Converges ==
    <>[][~Input]_vars =>
        <>[](phase = "up" /\ \A s \in Slug : Agree(s) \/ s \in unseen)
=============================================================================
