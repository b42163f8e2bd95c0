------------------------- MODULE InstanceStoreProofs -------------------------
(***************************************************************************)
(* Theorems about InstanceStore, for every set of slugs, versions, calls   *)
(* and reconciles, and every bound.                                        *)
(***************************************************************************)
EXTENDS InstanceStore, SequenceTheorems, TLAPS

TaskType == [ev : Event \cup {NoEvent}, got : Instance \cup {None},
             tries : 0 .. MaxTries - 1]
CallType == [op : {"idle", "save", "delete"}, slug : Slug \cup {None},
             inst : Instance \cup {None}]

\* What idle calls and reconciles look like.
LEMMA IdleTypes == IdleTask \in TaskType /\ IdleCall \in CallType
  BY ConstantsAssumption DEF IdleTask, IdleCall, TaskType, CallType

\* Queueing an event, with room for it, keeps the queue's type.
LEMMA Queued ==
    ASSUME TypeOK, NEW e \in Event, Len(events) < MaxEvents,
           events' = Append(events, e)
    PROVE  /\ events' \in Seq(Event) /\ Len(events') <= MaxEvents
           /\ Len(events') = Len(events) + 1
           /\ events' # <<>>
           /\ events'[Len(events')] = e
           /\ \A k \in 1 .. Len(events) : events'[k] = events[k]
<1>1. events \in Seq(Event) /\ Len(events) \in Nat /\ MaxEvents \in Nat
  BY ConstantsAssumption, LenProperties DEF TypeOK
<1> QED
  BY <1>1, AppendProperties

\* Change, by a caller or an editor.
LEMMA ChangeType ==
    ASSUME TypeOK, NEW f \in Slug, NEW c \in Content, Change(f, c)
    PROVE  /\ disk' \in [Slug -> Content]
           /\ events' \in Seq(Event) /\ Len(events') <= MaxEvents
           /\ unseen' \subseteq Slug
<1>1. disk' \in [Slug -> Content] /\ unseen' \subseteq Slug
  BY DEF Change, TypeOK
<1>2. CASE phase = "up"
  <2> DEFINE e == [file |-> f, op |-> IF c = NoFile THEN "remove" ELSE "write"]
  <2>1. e \in Event
    BY DEF Event
  <2> QED
    BY <1>1, <1>2, <2>1, Queued DEF Change
<1>3. CASE phase # "up"
  BY <1>1, <1>3 DEF Change, TypeOK
<1> QED
  BY <1>2, <1>3

\* Every variable keeps its type.
THEOREM Typing == Spec => []TypeOK
<1>1. Init => TypeOK
  BY ConstantsAssumption, EmptySeq
     DEF Init, TypeOK, Content, Handmade, IdleTask, IdleCall
<1>2. TypeOK /\ [Next]_vars => TypeOK'
  <2> SUFFICES ASSUME TypeOK, [Next]_vars PROVE TypeOK'
    OBVIOUS
  <2>0. /\ phase \in {"down", "scanned", "up"}
        /\ disk \in [Slug -> Content]
        /\ index \in [Slug -> Instance \cup {None}]
        /\ events \in Seq(Event) /\ Len(events) <= MaxEvents
        /\ timer \in Event \cup {NoEvent}
        /\ task \in [Task -> TaskType]
        /\ call \in [Caller -> CallType]
        /\ unseen \subseteq Slug
    BY DEF TypeOK, TaskType, CallType
  <2>1. ASSUME phase' \in {"down", "scanned", "up"},
               disk' \in [Slug -> Content],
               index' \in [Slug -> Instance \cup {None}],
               events' \in Seq(Event), Len(events') <= MaxEvents,
               timer' \in Event \cup {NoEvent},
               task' \in [Task -> TaskType],
               call' \in [Caller -> CallType],
               unseen' \subseteq Slug
        PROVE  TypeOK'
    BY <2>1 DEF TypeOK, TaskType, CallType
  <2>2. ASSUME NEW f \in Slug, Edit(f) PROVE TypeOK'
    <3>1. PICK c \in Handmade(f) \cup {NoFile} : Change(f, c)
      BY <2>2 DEF Edit
    <3>2. c \in Content
      BY DEF Handmade, Content
    <3> QED
      BY <2>0, <2>1, <2>2, <3>1, <3>2, ChangeType DEF Edit
  <2>3. ASSUME NEW c \in Caller, SaveFile(c) PROVE TypeOK'
    <3>1. PICK i \in Instance :
            /\ IF disk[i.slug] = i
               THEN /\ Alone(i.slug) /\ Len(events) < MaxEvents
                    /\ events' = Append(events, [file |-> i.slug, op |-> "write"])
                    /\ UNCHANGED <<disk, unseen>>
               ELSE Change(i.slug, i)
            /\ call' = [call EXCEPT ![c] =
                          [op |-> "save", slug |-> i.slug, inst |-> i]]
      BY <2>3 DEF SaveFile
    <3>2. i.slug \in Slug /\ i \in Content
      BY DEF Instance, Content
    <3>3. [file |-> i.slug, op |-> "write"] \in Event
      BY <3>2 DEF Event
    <3>4. call' \in [Caller -> CallType]
      BY <2>0, <3>1, <3>2 DEF CallType
    <3>5. CASE disk[i.slug] = i
      BY <2>0, <2>1, <2>3, <3>1, <3>3, <3>4, <3>5, Queued DEF SaveFile
    <3>6. CASE disk[i.slug] # i
      BY <2>0, <2>1, <2>3, <3>1, <3>2, <3>4, <3>6, ChangeType DEF SaveFile
    <3> QED
      BY <3>5, <3>6
  <2>4. ASSUME NEW c \in Caller, DeleteFile(c) PROVE TypeOK'
    <3>1. PICK s \in Slug :
            /\ IF disk[s] = NoFile THEN UNCHANGED <<disk, events, unseen>>
                                   ELSE Change(s, NoFile)
            /\ call' = [call EXCEPT ![c] =
                          [op |-> "delete", slug |-> s, inst |-> None]]
      BY <2>4 DEF DeleteFile
    <3>2. NoFile \in Content
      BY DEF Content
    <3>3. call' \in [Caller -> CallType]
      BY <2>0, <3>1 DEF CallType
    <3> QED
      BY <2>0, <2>1, <2>4, <3>1, <3>2, <3>3, ChangeType DEF DeleteFile
  <2>5. ASSUME NEW c \in Caller, SaveIndex(c) \/ DeleteIndex(c) PROVE TypeOK'
    <3>1. call' \in [Caller -> CallType]
      BY <2>0, <2>5, IdleTypes DEF SaveIndex, DeleteIndex
    <3>2. index' \in [Slug -> Instance \cup {None}]
      BY <2>0, <2>5 DEF SaveIndex, DeleteIndex, CallType
    <3> QED
      BY <2>0, <2>1, <2>5, <3>1, <3>2 DEF SaveIndex, DeleteIndex
  <2>6. CASE Receive
    <3>1. Head(events) \in Event /\ Tail(events) \in Seq(Event)
          /\ Len(Tail(events)) = Len(events) - 1
      BY <2>0, <2>6, HeadTailProperties DEF Receive
    <3>2. Len(Tail(events)) <= MaxEvents
      BY <2>0, <3>1, ConstantsAssumption, LenProperties
    <3> QED
      BY <2>0, <2>1, <2>6, <3>1, <3>2 DEF Receive
  <2>7. ASSUME NEW t \in Task, Fire(t) PROVE TypeOK'
    <3>1. [IdleTask EXCEPT !.ev = timer] \in TaskType
      BY <2>0, ConstantsAssumption DEF IdleTask, TaskType
    <3>2. task' \in [Task -> TaskType]
      BY <2>0, <2>7, <3>1 DEF Fire
    <3> QED
      BY <2>0, <2>1, <2>7, <3>2 DEF Fire
  <2>8. ASSUME NEW t \in Task, ReconcileRemove(t) PROVE TypeOK'
    <3>1. task' \in [Task -> TaskType]
      BY <2>0, <2>8, IdleTypes DEF ReconcileRemove, Finish
    <3>2. index' \in [Slug -> Instance \cup {None}]
      BY <2>0, <2>8 DEF ReconcileRemove
    <3> QED
      BY <2>0, <2>1, <2>8, <3>1, <3>2 DEF ReconcileRemove
  <2>9. ASSUME NEW t \in Task, ReconcileRead(t) PROVE TypeOK'
    <3> DEFINE c == disk[task[t].ev.file]
    <3>1. task[t].tries \in 0 .. MaxTries - 1
      BY <2>0 DEF TaskType
    <3>2. \/ c \in Instance /\ task' = [task EXCEPT ![t].got = c]
          \/ task' = [task EXCEPT ![t] = IdleTask]
          \/ /\ task[t].tries + 1 # MaxTries
             /\ task' = [task EXCEPT ![t].tries = task[t].tries + 1]
      BY <2>9 DEF ReconcileRead, Finish
    <3> HIDE DEF c
    <3>3. CASE c \in Instance /\ task' = [task EXCEPT ![t].got = c]
      <4>1. [task[t] EXCEPT !.got = c] \in TaskType
        BY <2>0, <3>3 DEF TaskType
      <4>2. task' \in [Task -> TaskType]
        BY <2>0, <3>3, <4>1
      <4> QED
        BY <2>0, <2>1, <2>9, <4>2 DEF ReconcileRead
    <3>4. CASE task' = [task EXCEPT ![t] = IdleTask]
      <4>1. task' \in [Task -> TaskType]
        BY <2>0, <3>4, IdleTypes
      <4> QED
        BY <2>0, <2>1, <2>9, <4>1 DEF ReconcileRead
    <3>5. CASE /\ task[t].tries + 1 # MaxTries
               /\ task' = [task EXCEPT ![t].tries = task[t].tries + 1]
      <4>1. task[t].tries + 1 \in 0 .. MaxTries - 1
        BY <3>1, <3>5, ConstantsAssumption
      <4>2. [task[t] EXCEPT !.tries = task[t].tries + 1] \in TaskType
        BY <2>0, <4>1 DEF TaskType
      <4>3. task' \in [Task -> TaskType]
        BY <2>0, <3>5, <4>2
      <4> QED
        BY <2>0, <2>1, <2>9, <4>3 DEF ReconcileRead
    <3> QED
      BY <3>2, <3>3, <3>4, <3>5
  <2>10. ASSUME NEW t \in Task, ReconcileSet(t) PROVE TypeOK'
    <3>1. task' \in [Task -> TaskType]
      BY <2>0, <2>10, IdleTypes DEF ReconcileSet, Finish
    <3>2. task[t].got \in Instance
      BY <2>0, <2>10 DEF ReconcileSet, TaskType
    <3>3. index' \in [Slug -> Instance \cup {None}]
      BY <2>0, <2>10, <3>2 DEF ReconcileSet
    <3> QED
      BY <2>0, <2>1, <2>10, <3>1, <3>3 DEF ReconcileSet
  <2>11. CASE Scan \/ Watch
    BY <2>0, <2>1, <2>11 DEF Scan, Watch
  <2>12. CASE Stop
    <3>1. /\ task' \in [Task -> TaskType] /\ call' \in [Caller -> CallType]
          /\ index' \in [Slug -> Instance \cup {None}]
          /\ events' \in Seq(Event) /\ Len(events') = 0
      BY <2>12, IdleTypes, EmptySeq DEF Stop
    <3> QED
      BY <2>0, <2>1, <2>12, <3>1, ConstantsAssumption DEF Stop
  <2>13. CASE UNCHANGED vars
    BY <2>0, <2>1, <2>13 DEF vars
  <2> QED
    BY <2>2, <2>3, <2>4, <2>5, <2>6, <2>7, <2>8, <2>9, <2>10, <2>11, <2>12,
       <2>13 DEF Next, Work, Input, Reconcile
<1> QED
  BY <1>1, <1>2, PTL DEF Spec

-----------------------------------------------------------------------------
(* Repairs.  An event of f is on its way to watchLoop, or in its timer.     *)
Evented(f) == \/ \E k \in DOMAIN events : events[k].file = f
              \/ timer # NoEvent /\ timer.file = f

\* An event fits when it says what the file is now.
Fits(e) == e.op = "remove" <=> disk[e.file] = NoFile

\* A reconcileFile of f whose event fits.
Repairing(f) == \E t \in Task : /\ task[t].ev # NoEvent
                                /\ task[t].ev.file = f
                                /\ Fits(task[t].ev)

\* Between files nothing is lost: all events that wait are of one file, and the
\* last of them fits.
QueueOK ==
    /\ \A k, l \in DOMAIN events : events[k].file = events[l].file
    /\ timer # NoEvent => \A k \in DOMAIN events : events[k].file = timer.file
    /\ events # <<>> => Fits(events[Len(events)])
    /\ events = <<>> /\ timer # NoEvent => Fits(timer)

\* What a reconcileFile has read, or been told, is true or about to be repaired.
TaskOK(t) ==
    LET e == task[t].ev
    IN  /\ e = NoEvent => task[t] = IdleTask
        /\ e # NoEvent /\ e.op = "remove" =>
              /\ task[t].tries = 0 /\ task[t].got = None
              /\ disk[e.file] = NoFile \/ Evented(e.file)
        /\ task[t].got # None =>
              e # NoEvent /\ (disk[e.file] = task[t].got \/ Evented(e.file))

\* So is what a Save or Delete is about to put into the index.
CallOK(c) ==
    /\ call[c].op = "idle" => call[c] = IdleCall
    /\ call[c].op = "save" =>
          call[c].slug \in Slug /\ call[c].inst \in Instance /\ Evented(call[c].slug)
    /\ call[c].op = "delete" =>
          /\ call[c].slug \in Slug
          /\ disk[call[c].slug] = NoFile \/ Evented(call[c].slug)

\* While New has not set up the watch there is nothing on its way.
Resting == /\ events = <<>> /\ timer = NoEvent
           /\ \A t \in Task : task[t] = IdleTask
           /\ \A c \in Caller : call[c] = IdleCall

\* Each file agrees with its entry, or is being repaired.
Covered(f) == Agree(f) \/ Evented(f) \/ Repairing(f) \/ f \in unseen

StoreInv == /\ TypeOK
            /\ \A f \in Slug : disk[f] \in Instance => disk[f].slug = f
            /\ phase # "up" => Resting
            /\ QueueOK
            /\ \A t \in Task : TaskOK(t)
            /\ \A c \in Caller : CallOK(c)
            /\ phase # "down" => \A f \in Slug : Covered(f)

Gentle == Apart /\ Prompt /\ ~Misnamed

\* A new event is the last, and the first of its file: it fits, and no other
\* file's event is passed over.
LEMMA EventQueued ==
    ASSUME Gentle, StoreInv, NEW e \in Event, Alone(e.file),
           Len(events) < MaxEvents, events' = Append(events, e), timer' = timer,
           e.op = "remove" <=> disk'[e.file] = NoFile
    PROVE  /\ QueueOK'
           /\ \A g : Evented(g)' <=> Evented(g) \/ g = e.file
<1>1. events \in Seq(Event) /\ Len(events) \in Nat /\ DOMAIN events = 1 .. Len(events)
  BY LenProperties DEF StoreInv, TypeOK
<1>2. /\ events' \in Seq(Event) /\ Len(events') = Len(events) + 1
      /\ events' # <<>> /\ events'[Len(events')] = e
      /\ \A k \in 1 .. Len(events) : events'[k] = events[k]
  BY Queued DEF StoreInv
<1>3. DOMAIN events' = 1 .. Len(events) + 1
  BY <1>2, LenProperties
<1>4. \A k \in DOMAIN events' : events'[k].file = e.file
  BY <1>1, <1>2, <1>3 DEF Alone, Gentle
<1>5. QueueOK'
  BY <1>2, <1>4 DEF QueueOK, Fits, Alone, Gentle
<1>6. ASSUME NEW g PROVE Evented(g)' <=> Evented(g) \/ g = e.file
  <2>1. Len(events) + 1 \in DOMAIN events'
    BY <1>1, <1>3
  <2>2. Evented(g) => g = e.file
    BY DEF Evented, Alone, Gentle
  <2>3. Evented(g)' => g = e.file
    BY <1>4 DEF Evented, Alone, Gentle
  <2>4. Evented(e.file)'
    BY <1>4, <2>1 DEF Evented
  <2> QED
    BY <2>2, <2>3, <2>4
<1> QED
  BY <1>5, <1>6

\* Without a new event, the same files have one.
LEMMA EventsSame ==
    ASSUME events' = events, timer' = timer
    PROVE  \A g : Evented(g)' <=> Evented(g)
  BY DEF Evented

\* With nothing on its way there is nothing to be wrong.
LEMMA RestingOK ==
    ASSUME Resting'
    PROVE  /\ QueueOK'
           /\ \A t \in Task : TaskOK(t)'
           /\ \A c \in Caller : CallOK(c)'
<1>1. QueueOK'
  BY DEF Resting, QueueOK
<1>2. ASSUME NEW t \in Task PROVE TaskOK(t)'
  BY DEF Resting, TaskOK, IdleTask
<1>3. ASSUME NEW c \in Caller PROVE CallOK(c)'
  BY DEF Resting, CallOK, IdleCall
<1> QED
  BY <1>1, <1>2, <1>3

\* What a step leaves alone stays as it is.
LEMMA Nothing ==
    ASSUME StoreInv, phase # "down", UNCHANGED <<disk, index, events, timer, task, unseen>>
    PROVE  /\ \A g \in Slug : disk'[g] \in Instance => disk'[g].slug = g
           /\ QueueOK'
           /\ \A t \in Task : TaskOK(t)'
           /\ \A k \in Caller : call'[k] = call[k] => CallOK(k)'
           /\ \A g \in Slug : Covered(g)'
<1>1. QueueOK' /\ \A t \in Task : TaskOK(t)'
  BY DEF StoreInv, QueueOK, TaskOK, Fits, Evented
<1>2. \A k \in Caller : call'[k] = call[k] => CallOK(k)'
  BY DEF StoreInv, CallOK, Evented
<1>3. \A g \in Slug : Covered(g)'
  BY DEF StoreInv, Covered, Agree, Evented, Repairing, Fits
<1> QED
  BY <1>1, <1>2, <1>3 DEF StoreInv

\* A file gets new content, or the same again, and an event.
LEMMA FileWritten ==
    ASSUME Gentle, StoreInv, NEW f \in Slug, NEW c \in Content,
           disk' = [disk EXCEPT ![f] = c], c \in Instance => c.slug = f,
           \A g : Evented(g)' <=> Evented(g) \/ g = f,
           phase = "up", index' = index, task' = task, unseen \ {f} \subseteq unseen'
    PROVE  /\ \A g \in Slug : disk'[g] \in Instance => disk'[g].slug = g
           /\ \A t \in Task : TaskOK(t)'
           /\ \A k \in Caller : call'[k] = call[k] => CallOK(k)'
           /\ \A g \in Slug : Covered(g)'
<1>1. /\ disk'[f] = c
      /\ \A g \in Slug \ {f} : disk'[g] = disk[g]
  BY DEF StoreInv, TypeOK
<1>2. \A g \in Slug : disk'[g] \in Instance => disk'[g].slug = g
  BY <1>1 DEF StoreInv
<1>3. ASSUME NEW t \in Task PROVE TaskOK(t)'
  <2>1. TaskOK(t) /\ task[t].ev \in Event \cup {NoEvent}
    BY DEF StoreInv, TypeOK
  <2>2. task[t].ev # NoEvent => task[t].ev.file \in Slug
    BY <2>1 DEF Event
  <2>3. \A g \in Slug : disk'[g] = disk[g] \/ Evented(g)'
    BY <1>1
  <2> QED
    BY <2>1, <2>2, <2>3 DEF TaskOK
<1>4. ASSUME NEW k \in Caller, call'[k] = call[k] PROVE CallOK(k)'
  <2>1. CallOK(k)
    BY DEF StoreInv
  <2> QED
    BY <1>1, <1>4, <2>1 DEF CallOK
<1>5. ASSUME NEW g \in Slug PROVE Covered(g)'
  <2>1. CASE g = f
    BY <2>1 DEF Covered
  <2>2. CASE g # f
    <3>1. Covered(g) /\ disk'[g] = disk[g]
      BY <1>1, <2>2 DEF StoreInv
    <3>2. Agree(g) => Agree(g)'
      BY <3>1 DEF Agree
    <3>3. Repairing(g) => Repairing(g)'
      BY <3>1 DEF Repairing, Fits
    <3> QED
      BY <2>2, <3>1, <3>2, <3>3 DEF Covered
  <2> QED
    BY <2>1, <2>2
<1> QED
  BY <1>2, <1>3, <1>4, <1>5

\* Change while the watch is set up.
LEMMA ChangeUp ==
    ASSUME Gentle, StoreInv, NEW f \in Slug, NEW c \in Content, Change(f, c),
           c \in Instance => c.slug = f,
           phase = "up", index' = index, task' = task, timer' = timer
    PROVE  /\ \A g \in Slug : disk'[g] \in Instance => disk'[g].slug = g
           /\ QueueOK'
           /\ \A t \in Task : TaskOK(t)'
           /\ \A k \in Caller : call'[k] = call[k] => CallOK(k)'
           /\ \A g \in Slug : Covered(g)'
           /\ disk'[f] = c /\ Evented(f)'
<1> DEFINE e == [file |-> f, op |-> IF c = NoFile THEN "remove" ELSE "write"]
<1>1. /\ disk' = [disk EXCEPT ![f] = c]
      /\ Alone(f) /\ Len(events) < MaxEvents
      /\ events' = Append(events, e)
      /\ unseen' = unseen \ {f}
  BY DEF Change
<1>2. e \in Event /\ e.file = f /\ (e.op = "remove" <=> c = NoFile)
  BY DEF Event
<1>3. disk'[f] = c
  BY <1>1 DEF StoreInv, TypeOK
<1> HIDE DEF e
<1>4. QueueOK' /\ \A g : Evented(g)' <=> Evented(g) \/ g = f
  BY <1>1, <1>2, <1>3, EventQueued
<1> QED
  BY <1>1, <1>3, <1>4, FileWritten

\* An edit queues its event, or happens where nobody looks.
LEMMA EditStep ==
    ASSUME Gentle, StoreInv, TypeOK', NEW f \in Slug, Edit(f)
    PROVE  StoreInv'
<1>1. PICK c \in Handmade(f) \cup {NoFile} : Change(f, c)
  BY DEF Edit
<1>2. c \in Content /\ (c \in Instance => c.slug = f)
  BY ConstantsAssumption DEF Handmade, Content, Gentle, Instance
<1>3. CASE phase = "up"
  BY <1>1, <1>2, <1>3, ChangeUp DEF Edit, StoreInv
<1>4. CASE phase # "up"
  <2>1. /\ disk' = [disk EXCEPT ![f] = c]
        /\ events' = events /\ timer' = timer /\ task' = task /\ call' = call
        /\ index' = index /\ phase' = phase
        /\ unseen' = unseen \cup (IF phase = "scanned" THEN {f} ELSE {})
    BY <1>1, <1>4 DEF Change, Edit
  <2>2. Resting /\ Resting'
    BY <1>4, <2>1 DEF StoreInv, Resting
  <2>3. /\ disk'[f] = c
        /\ \A g \in Slug \ {f} : disk'[g] = disk[g]
    BY <2>1 DEF StoreInv, TypeOK
  <2>4. /\ QueueOK'
        /\ \A t \in Task : TaskOK(t)'
        /\ \A k \in Caller : CallOK(k)'
    BY <2>2, RestingOK
  <2>5. ASSUME phase # "down", NEW g \in Slug PROVE Covered(g)'
    <3>1. CASE g = f
      BY <1>4, <2>1, <2>5, <3>1 DEF Covered, StoreInv, TypeOK
    <3>2. CASE g # f
      <4>1. Agree(g) \/ g \in unseen
        BY <2>2, <2>5 DEF StoreInv, Covered, Resting, Evented, Repairing, IdleTask
      <4> QED
        BY <2>1, <2>3, <3>2, <4>1 DEF Covered, Agree
    <3> QED
      BY <3>1, <3>2
  <2> QED
    BY <1>2, <2>1, <2>2, <2>3, <2>4, <2>5 DEF StoreInv
<1> QED
  BY <1>3, <1>4

\* Save's first half queues the event that covers its second.
LEMMA SaveFileStep ==
    ASSUME Gentle, StoreInv, TypeOK', NEW c \in Caller, SaveFile(c)
    PROVE  StoreInv'
<1>1. PICK i \in Instance :
        /\ IF disk[i.slug] = i
           THEN /\ Alone(i.slug) /\ Len(events) < MaxEvents
                /\ events' = Append(events, [file |-> i.slug, op |-> "write"])
                /\ UNCHANGED <<disk, unseen>>
           ELSE Change(i.slug, i)
        /\ call' = [call EXCEPT ![c] =
                      [op |-> "save", slug |-> i.slug, inst |-> i]]
  BY DEF SaveFile
<1>2. i.slug \in Slug /\ i \in Content /\ i # NoFile
  BY ConstantsAssumption DEF Instance, Content
<1>3. phase = "up" /\ phase' = phase /\ index' = index /\ timer' = timer /\ task' = task
  BY DEF SaveFile
<1>4. /\ \A g \in Slug : disk'[g] \in Instance => disk'[g].slug = g
      /\ QueueOK'
      /\ \A t \in Task : TaskOK(t)'
      /\ \A k \in Caller : call'[k] = call[k] => CallOK(k)'
      /\ \A g \in Slug : Covered(g)'
      /\ \E g : g = i.slug /\ Evented(g)'
  <2>1. CASE disk[i.slug] # i
    BY <1>1, <1>2, <1>3, <2>1, ChangeUp
  <2>2. CASE disk[i.slug] = i
    <3> DEFINE e == [file |-> i.slug, op |-> "write"]
    <3>1. e \in Event /\ e.file = i.slug /\ e.op # "remove"
      BY <1>2 DEF Event
    <3>2. disk' = disk /\ disk' = [disk EXCEPT ![i.slug] = i] /\ unseen' = unseen
      BY <1>1, <1>2, <2>2 DEF StoreInv, TypeOK
    <3>3. Alone(i.slug) /\ Len(events) < MaxEvents /\ events' = Append(events, e)
      BY <1>1, <2>2
    <3> HIDE DEF e
    <3>4. QueueOK' /\ \A g : Evented(g)' <=> Evented(g) \/ g = i.slug
      BY <1>2, <1>3, <2>2, <3>1, <3>2, <3>3, EventQueued
    <3> QED
      BY <1>2, <1>3, <3>2, <3>4, FileWritten
  <2> QED
    BY <2>1, <2>2
<1>5. ASSUME NEW k \in Caller PROVE CallOK(k)'
  <2>1. CASE k = c
    <3>1. call'[c] = [op |-> "save", slug |-> i.slug, inst |-> i]
      BY <1>1 DEF StoreInv, TypeOK
    <3> QED
      BY <1>2, <1>4, <2>1, <3>1 DEF CallOK
  <2>2. CASE k # c
    BY <1>1, <1>4, <2>2 DEF StoreInv, TypeOK
  <2> QED
    BY <2>1, <2>2
<1> QED
  BY <1>3, <1>4, <1>5 DEF StoreInv

\* So does Delete's, unless there was no file.
LEMMA DeleteFileStep ==
    ASSUME Gentle, StoreInv, TypeOK', NEW c \in Caller, DeleteFile(c)
    PROVE  StoreInv'
<1>1. PICK s \in Slug :
        /\ IF disk[s] = NoFile THEN UNCHANGED <<disk, events, unseen>>
                               ELSE Change(s, NoFile)
        /\ call' = [call EXCEPT ![c] =
                      [op |-> "delete", slug |-> s, inst |-> None]]
  BY DEF DeleteFile
<1>2. NoFile \in Content /\ NoFile \notin Instance
  BY ConstantsAssumption DEF Content, Instance
<1>3. phase = "up" /\ phase' = phase /\ index' = index /\ timer' = timer /\ task' = task
  BY DEF DeleteFile
<1>4. /\ \A g \in Slug : disk'[g] \in Instance => disk'[g].slug = g
      /\ QueueOK'
      /\ \A t \in Task : TaskOK(t)'
      /\ \A k \in Caller : call'[k] = call[k] => CallOK(k)'
      /\ \A g \in Slug : Covered(g)'
      /\ disk'[s] = NoFile
  <2>1. CASE disk[s] # NoFile
    BY <1>1, <1>2, <1>3, <2>1, ChangeUp
  <2>2. CASE disk[s] = NoFile
    BY <1>1, <1>3, <2>2, Nothing
  <2> QED
    BY <2>1, <2>2
<1>5. ASSUME NEW k \in Caller PROVE CallOK(k)'
  <2>1. CASE k = c
    <3>1. call'[c] = [op |-> "delete", slug |-> s, inst |-> None]
      BY <1>1 DEF StoreInv, TypeOK
    <3> QED
      BY <1>4, <2>1, <3>1 DEF CallOK
  <2>2. CASE k # c
    BY <1>1, <1>4, <2>2 DEF StoreInv, TypeOK
  <2> QED
    BY <2>1, <2>2
<1> QED
  BY <1>3, <1>4, <1>5 DEF StoreInv

\* A step of a call or reconcile that sets the entry of one slug f, where the
\* file and its events stay: what was true of f is true or being repaired.
LEMMA EntrySet ==
    ASSUME StoreInv, phase = "up", NEW f \in Slug,
           UNCHANGED <<disk, events, timer, unseen>>,
           \A g \in Slug \ {f} : index'[g] = index[g],
           Agree(f)' \/ Evented(f),
           \A t \in Task : task'[t] = task[t] \/ task[t].ev.file = f
    PROVE  \A g \in Slug : Covered(g)'
<1> SUFFICES ASSUME NEW g \in Slug PROVE Covered(g)'
  OBVIOUS
<1>1. CASE g = f
  BY <1>1, EventsSame DEF Covered
<1>2. CASE g # f
  <2>1. Covered(g)
    BY DEF StoreInv
  <2>2. Agree(g) => Agree(g)'
    BY <1>2 DEF Agree
  <2>3. Repairing(g) => Repairing(g)'
    BY <1>2 DEF Repairing, Fits
  <2> QED
    BY <2>1, <2>2, <2>3, EventsSame DEF Covered
<1> QED
  BY <1>1, <1>2

\* The other calls and reconciles do not notice.
LEMMA OthersOK ==
    ASSUME StoreInv, UNCHANGED <<disk, events, timer>>
    PROVE  /\ QueueOK'
           /\ \A t \in Task : task'[t] \in {task[t], IdleTask} => TaskOK(t)'
           /\ \A k \in Caller : call'[k] \in {call[k], IdleCall} => CallOK(k)'
<1>1. QueueOK'
  BY DEF StoreInv, QueueOK, Fits
<1>2. ASSUME NEW t \in Task, task'[t] \in {task[t], IdleTask} PROVE TaskOK(t)'
  <2>1. CASE task'[t] = task[t]
    BY <2>1, EventsSame DEF StoreInv, TaskOK
  <2>2. CASE task'[t] = IdleTask
    BY <2>2 DEF TaskOK, IdleTask
  <2> QED
    BY <1>2, <2>1, <2>2
<1>3. ASSUME NEW k \in Caller, call'[k] \in {call[k], IdleCall} PROVE CallOK(k)'
  <2>1. CASE call'[k] = call[k]
    BY <2>1, EventsSame DEF StoreInv, CallOK
  <2>2. CASE call'[k] = IdleCall
    BY <2>2 DEF CallOK, IdleCall
  <2> QED
    BY <1>3, <2>1, <2>2
<1> QED
  BY <1>1, <1>2, <1>3

\* A call or reconcile that is running keeps New done.
LEMMA BusyMeansUp ==
    ASSUME StoreInv
    PROVE  /\ \A t \in Task : task[t] # IdleTask => phase = "up"
           /\ \A c \in Caller : call[c] # IdleCall => phase = "up"
           /\ timer # NoEvent => phase = "up"
  BY DEF StoreInv, Resting

\* The second halves.
LEMMA CallStep ==
    ASSUME StoreInv, TypeOK', NEW c \in Caller, SaveIndex(c) \/ DeleteIndex(c)
    PROVE  StoreInv'
<1> DEFINE f == call[c].slug
<1>1. phase = "up" /\ CallOK(c)
  <2>1. call[c] # IdleCall
    BY DEF SaveIndex, DeleteIndex, IdleCall
  <2> QED
    BY <2>1, BusyMeansUp DEF StoreInv
<1>2. f \in Slug
  BY <1>1 DEF SaveIndex, DeleteIndex, CallOK
<1>3. UNCHANGED <<phase, disk, events, timer, task, unseen>>
  BY DEF SaveIndex, DeleteIndex
<1>4. /\ \A g \in Slug \ {f} : index'[g] = index[g]
      /\ \A k \in Caller : call'[k] \in {call[k], IdleCall}
  BY DEF SaveIndex, DeleteIndex, StoreInv, TypeOK
<1>5. PICK g \in Slug : g = f
  BY <1>2
<1>6. Agree(g)' \/ Evented(g)
  <2>1. CASE SaveIndex(c)
    BY <1>1, <1>5, <2>1 DEF SaveIndex, CallOK
  <2>2. CASE DeleteIndex(c)
    <3>1. index'[g] = None
      BY <1>2, <1>5, <2>2 DEF DeleteIndex, StoreInv, TypeOK
    <3>2. disk[g] = NoFile \/ Evented(g)
      BY <1>1, <1>5, <2>2 DEF DeleteIndex, CallOK
    <3>3. disk'[g] = NoFile => Agree(g)'
      BY <3>1, ConstantsAssumption DEF Agree, Instance
    <3> QED
      BY <1>3, <3>2, <3>3
  <2> QED
    BY <2>1, <2>2
<1>7. \A h \in Slug : Covered(h)'
  BY <1>1, <1>3, <1>4, <1>5, <1>6, EntrySet
<1> QED
  BY <1>1, <1>3, <1>4, <1>7, OthersOK DEF StoreInv

\* The timer takes over the first event, which is of the same file.
LEMMA ReceiveStep ==
    ASSUME StoreInv, TypeOK', Receive
    PROVE  StoreInv'
<1>1. /\ events \in Seq(Event) /\ events # <<>> /\ Len(events) \in Nat
      /\ DOMAIN events = 1 .. Len(events) /\ phase = "up"
  BY LenProperties DEF Receive, StoreInv, TypeOK
<1>2. /\ Len(events) >= 1
      /\ timer' = events[1] /\ timer' \in Event
      /\ events' \in Seq(Event) /\ Len(events') = Len(events) - 1
      /\ \A k \in 1 .. Len(events') : events'[k] = events[k + 1]
      /\ UNCHANGED <<phase, disk, index, task, call, unseen>>
  BY <1>1, HeadTailProperties, EmptySeq DEF Receive
<1>3. DOMAIN events' = 1 .. Len(events) - 1
  BY <1>2, LenProperties
<1>4. timer' # NoEvent
  BY <1>2, ConstantsAssumption DEF Event
<1>5. \A k \in DOMAIN events : events[k].file = timer'.file
  BY <1>1, <1>2 DEF StoreInv, QueueOK
<1>6. \A k \in DOMAIN events' : events'[k].file = timer'.file
  BY <1>1, <1>2, <1>3, <1>5
<1>7. \A g : Evented(g)' <=> Evented(g)
  <2>1. ASSUME NEW g PROVE Evented(g) <=> g = timer'.file
    BY <1>1, <1>2, <1>5 DEF Evented, StoreInv, QueueOK
  <2>2. ASSUME NEW g PROVE Evented(g)' <=> g = timer'.file
    BY <1>4, <1>6 DEF Evented
  <2> QED
    BY <2>1, <2>2
<1>8. Fits(events[Len(events)])
  BY <1>1 DEF StoreInv, QueueOK
<1>9. QueueOK'
  <2>1. events' # <<>> => Fits(events[Len(events)])'
    <3>1. events' # <<>> => Len(events') \in 1 .. Len(events')
      BY <1>2, EmptySeq
    <3>2. events' # <<>> => events'[Len(events')] = events[Len(events)]
      BY <1>1, <1>2, <3>1
    <3> QED
      BY <1>2, <1>8, <3>2 DEF Fits
  <2>2. events' = <<>> => Fits(timer)'
    <3>1. events' = <<>> => Len(events) = 1
      <4>1. events' = <<>> => Len(events') = 0
        OBVIOUS
      <4>2. Len(events') = Len(events) - 1 /\ Len(events) \in Nat
        BY <1>1, <1>2
      <4> QED
        BY <4>1, <4>2
    <3> QED
      BY <1>2, <1>8, <3>1 DEF Fits
  <2> QED
    BY <1>6, <2>1, <2>2 DEF QueueOK
<1>10. \A t \in Task : TaskOK(t)'
  BY <1>2, <1>7 DEF StoreInv, TaskOK
<1>11. \A k \in Caller : CallOK(k)'
  BY <1>2, <1>7 DEF StoreInv, CallOK
<1>12. \A g \in Slug : Covered(g)'
  BY <1>1, <1>2, <1>7 DEF StoreInv, Covered, Agree, Repairing, Fits
<1> QED
  BY <1>1, <1>2, <1>9, <1>10, <1>11, <1>12 DEF StoreInv

\* The timer fires: if no later event waits, its event fits, and there is no
\* call or other reconcile whose knowledge could be old.
LEMMA FireStep ==
    ASSUME Gentle, StoreInv, TypeOK', NEW t \in Task, Fire(t)
    PROVE  StoreInv'
<1> DEFINE j == [IdleTask EXCEPT !.ev = timer]
<1>1. /\ phase = "up" /\ timer # NoEvent /\ timer \in Event /\ task[t] = IdleTask
      /\ UNCHANGED <<phase, disk, index, events, call, unseen>>
      /\ timer' = NoEvent
      /\ task' = [task EXCEPT ![t] = j]
  BY BusyMeansUp DEF Fire, StoreInv, TypeOK
<1>2. /\ j.ev = timer /\ j.got = None /\ j.tries = 0
      /\ task'[t] = j /\ \A u \in Task \ {t} : task'[u] = task[u]
  BY <1>1 DEF IdleTask, StoreInv, TypeOK
<1>3. PICK f \in Slug : f = timer.file
  BY <1>1 DEF Event
<1>4. PICK e \in Event : e = timer
  BY <1>1
<1> HIDE DEF j
<1>5. OthersRest
  BY DEF Fire, Gentle
<1>6. QueueOK'
  BY <1>1 DEF StoreInv, QueueOK, Fits
<1>7. \A g : g # f => (Evented(g)' <=> Evented(g))
  BY <1>1, <1>3 DEF Evented
<1>8. Evented(f)' \/ Fits(e)
  <2>1. CASE events = <<>>
    BY <1>1, <1>4, <2>1 DEF StoreInv, QueueOK
  <2>2. CASE events # <<>>
    <3>1. 1 \in DOMAIN events
      <4>1. events \in Seq(Event)
        BY DEF StoreInv, TypeOK
      <4> QED
        BY <2>2, <4>1, EmptySeq, LenProperties
    <3>2. events[1].file = f
      BY <1>1, <1>3, <3>1 DEF StoreInv, QueueOK
    <3> QED
      BY <1>1, <3>1, <3>2 DEF Evented
  <2> QED
    BY <2>1, <2>2
<1>9. ASSUME NEW u \in Task PROVE TaskOK(u)'
  <2>1. CASE u = t
    BY <1>1, <1>2, <1>3, <1>4, <1>8, <2>1 DEF TaskOK, Fits
  <2>2. CASE u # t /\ task[u] = IdleTask
    BY <1>2, <2>2 DEF TaskOK, IdleTask
  <2>3. CASE u # t /\ task[u].tries > 0 /\ task[u].got = None
    <3>1. TaskOK(u) /\ task[u].ev # NoEvent /\ task[u].ev.op # "remove"
      BY <2>3 DEF StoreInv, TaskOK, IdleTask
    <3> QED
      BY <1>2, <2>3, <3>1 DEF TaskOK
  <2> QED
    BY <1>5, <2>1, <2>2, <2>3 DEF OthersRest
<1>10. \A k \in Caller : CallOK(k)'
  BY <1>1, <1>5 DEF OthersRest, CallOK, IdleCall
<1>11. ASSUME NEW g \in Slug PROVE Covered(g)'
  <2>1. Agree(g) => Agree(g)'
    BY <1>1 DEF Agree
  <2>2. Repairing(g) => Repairing(g)'
    <3>1. SUFFICES ASSUME NEW u \in Task, task[u].ev # NoEvent,
                          task[u].ev.file = g, Fits(task[u].ev)
                   PROVE  Repairing(g)'
      BY DEF Repairing
    <3>2. u # t
      BY <1>1, <3>1 DEF IdleTask
    <3> QED
      BY <1>1, <1>2, <3>1, <3>2 DEF Repairing, Fits
  <2>3. g = f => Evented(g)' \/ Repairing(g)'
    BY <1>1, <1>2, <1>3, <1>4, <1>8 DEF Repairing, Fits
  <2>4. Covered(g)
    BY <1>1 DEF StoreInv
  <2> QED
    BY <1>1, <1>7, <2>1, <2>2, <2>3, <2>4 DEF Covered
<1> QED
  BY <1>1, <1>6, <1>9, <1>10, <1>11 DEF StoreInv

\* A removal is true, or a later event puts it right.
LEMMA ReconcileRemoveStep ==
    ASSUME StoreInv, TypeOK', NEW t \in Task, ReconcileRemove(t)
    PROVE  StoreInv'
<1>1. /\ phase = "up" /\ TaskOK(t) /\ task[t].ev # NoEvent
      /\ task[t].ev \in Event
  BY BusyMeansUp DEF ReconcileRemove, StoreInv, TypeOK, TaskOK
<1>2. PICK f \in Slug : f = task[t].ev.file
  BY <1>1 DEF Event
<1>3. /\ UNCHANGED <<phase, disk, events, timer, call, unseen>>
      /\ index' = [index EXCEPT ![f] = None]
      /\ task' = [task EXCEPT ![t] = IdleTask]
  BY <1>2 DEF ReconcileRemove, Finish
<1>4. /\ index'[f] = None /\ \A g \in Slug \ {f} : index'[g] = index[g]
      /\ \A u \in Task : task'[u] \in {task[u], IdleTask}
      /\ \A u \in Task : task'[u] = task[u] \/ task[u].ev.file = f
  BY <1>2, <1>3 DEF StoreInv, TypeOK
<1>5. Agree(f)' \/ Evented(f)
  <2>1. disk[f] = NoFile \/ Evented(f)
    BY <1>1, <1>2 DEF ReconcileRemove, TaskOK
  <2>2. disk'[f] = NoFile => Agree(f)'
    BY <1>4, ConstantsAssumption DEF Agree, Instance
  <2> QED
    BY <1>3, <2>1, <2>2
<1>6. \A g \in Slug : Covered(g)'
  BY <1>1, <1>3, <1>4, <1>5, EntrySet
<1> QED
  BY <1>1, <1>3, <1>4, <1>6, OthersOK DEF StoreInv

\* What was read is still there, or a later event puts it right.
LEMMA ReconcileSetStep ==
    ASSUME StoreInv, TypeOK', NEW t \in Task, ReconcileSet(t)
    PROVE  StoreInv'
<1>1. /\ phase = "up" /\ TaskOK(t) /\ task[t].ev # NoEvent
      /\ task[t].ev \in Event /\ task[t].got \in Instance
  BY BusyMeansUp DEF ReconcileSet, StoreInv, TypeOK, TaskOK, IdleTask
<1>2. PICK f \in Slug : f = task[t].ev.file
  BY <1>1 DEF Event
<1>3. /\ UNCHANGED <<phase, disk, events, timer, call, unseen>>
      /\ index' = [index EXCEPT ![f] = task[t].got]
      /\ task' = [task EXCEPT ![t] = IdleTask]
  BY <1>2 DEF ReconcileSet, Finish
<1>4. /\ index'[f] = task[t].got /\ \A g \in Slug \ {f} : index'[g] = index[g]
      /\ \A u \in Task : task'[u] \in {task[u], IdleTask}
      /\ \A u \in Task : task'[u] = task[u] \/ task[u].ev.file = f
  BY <1>2, <1>3 DEF StoreInv, TypeOK
<1>5. Agree(f)' \/ Evented(f)
  <2>1. disk[f] = task[t].got \/ Evented(f)
    BY <1>1, <1>2 DEF ReconcileSet, TaskOK
  <2>2. disk'[f] = index'[f] => Agree(f)'
    BY <1>1, <1>4, ConstantsAssumption DEF Agree, Instance
  <2> QED
    BY <1>3, <1>4, <2>1, <2>2
<1>6. \A g \in Slug : Covered(g)'
  BY <1>1, <1>3, <1>4, <1>5, EntrySet
<1> QED
  BY <1>1, <1>3, <1>4, <1>6, OthersOK DEF StoreInv

\* A read that finds nothing to set was not a repair, or nothing needs one.
LEMMA ReconcileReadStep ==
    ASSUME StoreInv, TypeOK', NEW t \in Task, ReconcileRead(t)
    PROVE  StoreInv'
<1>1. /\ phase = "up" /\ TaskOK(t) /\ task[t].ev # NoEvent
      /\ task[t].ev \in Event /\ task[t].ev.op = "write"
      /\ UNCHANGED <<phase, disk, index, events, timer, call, unseen>>
  BY BusyMeansUp DEF ReconcileRead, StoreInv, TypeOK, TaskOK
<1>2. PICK f \in Slug : f = task[t].ev.file
  BY <1>1 DEF Event
<1>3. \/ disk[f] \in Instance /\ task' = [task EXCEPT ![t].got = disk[f]]
      \/ disk[f] = Bad /\ task' = [task EXCEPT ![t] = IdleTask]
      \/ disk[f] = NoFile /\ task' = [task EXCEPT ![t] = IdleTask]
      \/ disk[f] = NoFile /\ task' = [task EXCEPT ![t].tries = @ + 1]
  BY <1>2 DEF ReconcileRead, Finish
<1>4. \A u \in Task \ {t} : task'[u] = task[u]
  BY <1>3 DEF StoreInv, TypeOK
<1>5. \/ task'[t] = IdleTask /\ disk[f] \in {Bad, NoFile}
      \/ /\ task'[t].ev = task[t].ev
         /\ task'[t].got = task[t].got \/ task'[t].got = disk[f]
  BY <1>3 DEF StoreInv, TypeOK
<1>6. TaskOK(t)'
  <2>1. CASE task'[t] = IdleTask
    BY <2>1 DEF TaskOK, IdleTask
  <2>2. CASE /\ task'[t].ev = task[t].ev
             /\ task'[t].got = task[t].got \/ task'[t].got = disk[f]
    BY <1>1, <1>2, <2>2, EventsSame DEF TaskOK
  <2> QED
    BY <1>5, <2>1, <2>2
<1>7. /\ QueueOK' /\ \A k \in Caller : CallOK(k)'
      /\ \A u \in Task : TaskOK(u)'
  BY <1>1, <1>4, <1>6, OthersOK
<1>8. ASSUME NEW g \in Slug PROVE Covered(g)'
  <2>1. (Agree(g) => Agree(g)') /\ Covered(g)
    BY <1>1 DEF Agree, StoreInv
  <2>2. Repairing(g) => Repairing(g)' \/ Agree(g)'
    <3>1. SUFFICES ASSUME NEW u \in Task, task[u].ev # NoEvent,
                          task[u].ev.file = g, Fits(task[u].ev)
                   PROVE  Repairing(g)' \/ Agree(g)'
      BY DEF Repairing
    <3>2. CASE task'[u].ev = task[u].ev
      BY <1>1, <3>1, <3>2 DEF Repairing, Fits
    <3>3. CASE task'[u].ev # task[u].ev
      <4>1. u = t /\ g = f /\ disk[f] \in {Bad, NoFile}
        BY <1>2, <1>4, <1>5, <3>1, <3>3
      <4>2. disk'[g] = Bad
        BY <1>1, <3>1, <4>1 DEF Fits
      <4> QED
        BY <4>2, ConstantsAssumption DEF Agree, Instance
    <3> QED
      BY <3>2, <3>3
  <2> QED
    BY <1>1, <2>1, <2>2, EventsSame DEF Covered
<1> QED
  BY <1>1, <1>7, <1>8 DEF StoreInv

\* New reads every file before it sets up the watch.
LEMMA ScanStep ==
    ASSUME StoreInv, TypeOK', Scan
    PROVE  StoreInv'
<1>1. /\ phase # "up" /\ phase' = "scanned" /\ Scans(index')
      /\ UNCHANGED <<disk, events, timer, task, call, unseen>>
  BY DEF Scan
<1>2. Resting /\ Resting'
  BY <1>1 DEF StoreInv, Resting
<1>3. ASSUME NEW s \in Slug PROVE Agree(s)'
  <2> DEFINE Found == {disk[f] : f \in {g \in Slug : disk[g] \in Instance
                                                     /\ disk[g].slug = s}}
  <2>1. IF Found = {} THEN index'[s] = None ELSE index'[s] \in Found
    BY <1>1 DEF Scans
  <2>2. ASSUME NEW x \in Found PROVE x = disk[s] /\ x \in Instance
    BY <2>2 DEF StoreInv
  <2>3. disk[s] \in Instance => disk[s] \in Found
    BY DEF StoreInv
  <2> HIDE DEF Found
  <2>4. /\ disk[s] \in Instance => index'[s] = disk[s]
        /\ disk[s] = NoFile => index'[s] = None
    BY <2>1, <2>2, <2>3, ConstantsAssumption DEF Instance
  <2> QED
    BY <1>1, <2>4, ConstantsAssumption DEF Agree, Instance
<1> QED
  BY <1>1, <1>2, <1>3, RestingOK DEF StoreInv, Covered

\* The watch starts, the process stops, or nothing happens.
LEMMA RestStep ==
    ASSUME StoreInv, TypeOK', Watch \/ Stop \/ UNCHANGED vars
    PROVE  StoreInv'
<1>1. CASE Watch
  <2>1. phase = "scanned" /\ phase' = "up"
        /\ UNCHANGED <<disk, index, events, timer, task, call, unseen>>
    BY <1>1 DEF Watch
  <2> QED
    BY <2>1, Nothing DEF StoreInv
<1>2. CASE Stop
  <2>1. Resting' /\ phase' = "down" /\ disk' = disk
    BY <1>2 DEF Stop, Resting
  <2> QED
    BY <2>1, RestingOK DEF StoreInv
<1>3. CASE UNCHANGED vars
  <2>1. UNCHANGED <<phase, disk, index, events, timer, task, call, unseen>>
    BY <1>3 DEF vars
  <2>2. phase # "up" => Resting'
    BY <2>1 DEF StoreInv, Resting
  <2>3. QueueOK' /\ (\A t \in Task : TaskOK(t)') /\ \A c \in Caller : CallOK(c)'
    BY <2>1, OthersOK
  <2>4. phase # "down" => \A g \in Slug : Covered(g)'
    BY <2>1, Nothing
  <2> QED
    BY <2>1, <2>2, <2>3, <2>4 DEF StoreInv
<1> QED
  BY <1>1, <1>2, <1>3

\* The whole of StoreInv holds, given the three assumptions of Gentle.
THEOREM Invariance ==
    ASSUME Gentle
    PROVE  Spec => []StoreInv
<1>1. Init => StoreInv
  <2> SUFFICES ASSUME Init PROVE StoreInv
    OBVIOUS
  <2>1. Resting /\ phase = "down"
    BY DEF Init, Resting
  <2>2. /\ QueueOK
        /\ \A t \in Task : TaskOK(t)
        /\ \A c \in Caller : CallOK(c)
    BY <2>1 DEF Resting, QueueOK, TaskOK, CallOK, IdleTask, IdleCall
  <2>3. \A f \in Slug : disk[f] \in Instance => disk[f].slug = f
    BY ConstantsAssumption DEF Init, Handmade, Gentle, Instance
  <2>4. TypeOK
    BY ConstantsAssumption, EmptySeq
       DEF Init, TypeOK, Content, Handmade, IdleTask, IdleCall
  <2> QED
    BY <2>1, <2>2, <2>3, <2>4 DEF StoreInv
<1>2. StoreInv /\ TypeOK' /\ [Next]_vars => StoreInv'
  BY EditStep, SaveFileStep, DeleteFileStep, CallStep, ReceiveStep, FireStep,
     ReconcileRemoveStep, ReconcileReadStep, ReconcileSetStep, ScanStep, RestStep
     DEF Next, Work, Input, Reconcile, Gentle
<1> QED
  BY <1>1, <1>2, Typing, PTL DEF Spec

\* Whenever index and file disagree a repair is under way, for any number of
\* files: provided different files change more than a debounce apart, a few
\* instructions take less than a debounce, and files are named after their slug.
THEOREM RepairsAreUnderWay ==
    ASSUME Gentle
    PROVE  Spec => []StaleIsPending
<1>1. StoreInv => StaleIsPending
  <2> SUFFICES ASSUME StoreInv, phase = "up", NEW s \in Slug, Covered(s)
               PROVE  Agree(s) \/ Pending(s) \/ s \in unseen
    BY DEF StaleIsPending, StoreInv
  <2>1. Evented(s) => Pending(s)
    BY DEF Evented, Pending
  <2>2. Repairing(s) => Pending(s)
    BY DEF Repairing, Pending, IdleTask
  <2> QED
    BY <2>1, <2>2 DEF Covered
<1> QED
  BY <1>1, Invariance, PTL
=============================================================================
