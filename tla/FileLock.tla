------------------------------ MODULE FileLock ------------------------------
(***************************************************************************)
(* internal/store/flock.go: writeWithLock and acquireLock, for one         *)
(* instance file <slug>.yaml with its siblings .lock and .tmp, at the      *)
(* level of directory entries and inodes.  os.WriteFile opens (truncating  *)
(* or creating) and then writes; os.Rename moves a directory entry and     *)
(* leaves open descriptors on the old inode.  Store.Delete removes the     *)
(* file without the lock; readInstance opens and then reads.               *)
(***************************************************************************)
EXTENDS Naturals

CONSTANTS Writer,      \* calls of writeWithLock in flight, any process
          Reader,      \* calls of readInstance in flight
          Process, ProcessOf,  \* the server process each writer runs in
          Value,       \* whole file contents
          Torn,        \* any content that is not a whole value
          Inode,       \* inodes, reused when nothing refers to them
          None,        \* no inode
          MaxAttempts  \* acquireLock's maxAttempts, 40 in the code

ASSUME ConstantsAssumption ==
    /\ ProcessOf \in [Writer -> Process]
    /\ Torn \notin Value /\ None \notin Inode /\ None \notin Value
    /\ Writer \cap Reader = {}
    /\ MaxAttempts \in Nat \ {0}

VARIABLES
    lock,    \* does <path>.lock exist
    tmp,     \* inode <path>.tmp names, or None
    path,    \* inode <path> names, or None
    data,    \* content of each inode
    fd,      \* inode each writer or reader has open, or None
    pc,      \* where each writer is in writeWithLock
    val,     \* the instance each writer saves
    tries,   \* acquireLock's loop counter
    result   \* the error of the last writeWithLock of each writer

vars == <<lock, tmp, path, data, fd, pc, val, tries, result>>

Pc == {"idle", "lock", "open", "write", "rename", "done", "fail"}

Holds(w) == pc[w] \in {"open", "write", "rename", "done", "fail"}
Orphaned == lock /\ \A w \in Writer : ~Holds(w)
Unused(i) == i # path /\ i # tmp /\ \A c \in Writer \cup Reader : fd[c] # i

Init == /\ lock = FALSE
        /\ tmp = None
        /\ path \in Inode \cup {None}
        /\ data \in [Inode -> Value]
        /\ fd = [c \in Writer \cup Reader |-> None]
        /\ pc = [w \in Writer |-> "idle"]
        /\ val \in [Writer -> Value]
        /\ tries = [w \in Writer |-> 0]
        /\ result = [w \in Writer |-> "none"]

GoTo(w, l) == pc' = [pc EXCEPT ![w] = l]

\* Leaving writeWithLock with error (or nil) e.
Return(w, e) == GoTo(w, "idle") /\ result' = [result EXCEPT ![w] = e]

-----------------------------------------------------------------------------
(* Wrong variants of some steps below, each a bug this code could have had. *)

TakeLockNoExcl(w) == \* O_CREATE without O_EXCL
    /\ pc[w] = "lock"
    /\ lock' = TRUE /\ GoTo(w, "open")
    /\ UNCHANGED <<tmp, path, data, fd, val, tries, result>>
RetryOffByOne(w) == \* for i := 0; i <= maxAttempts
    /\ pc[w] = "lock" /\ lock
    /\ tries' = [tries EXCEPT ![w] = @ + 1]
    /\ \/ tries'[w] <= MaxAttempts /\ UNCHANGED <<pc, result>>
       \/ tries'[w] > MaxAttempts /\ Return(w, "error")
    /\ UNCHANGED <<lock, tmp, path, data, fd, val>>
RetryForever(w) == \* for { ... }
    pc[w] = "lock" /\ lock /\ UNCHANGED vars
RetrySteals(w) == \* after the last try, assume the lock is stale
    /\ pc[w] = "lock" /\ lock
    /\ tries' = [tries EXCEPT ![w] = @ + 1]
    /\ IF tries'[w] < MaxAttempts THEN UNCHANGED pc ELSE GoTo(w, "open")
    /\ UNCHANGED <<lock, tmp, path, data, fd, val, result>>
OpenInPlace(w) == \* os.WriteFile(path, data) when the file exists
    /\ pc[w] = "open"
    /\ \E i \in Inode : /\ IF path = None THEN Unused(i) ELSE i = path
                         /\ tmp' = i
                         /\ data' = [data EXCEPT ![i] = Torn]
                         /\ fd' = [fd EXCEPT ![w] = i]
    /\ GoTo(w, "write")
    /\ UNCHANGED <<lock, path, val, tries, result>>
WriteFailsEarlyReturn(w) == \* return without the deferred release
    /\ pc[w] \in {"open", "write"}
    /\ fd' = [fd EXCEPT ![w] = None] /\ Return(w, "error")
    /\ UNCHANGED <<lock, tmp, path, data, val, tries>>
RenameFailsSwallowed(w) == \* os.Rename's error is ignored
    /\ pc[w] = "rename"
    /\ tmp' \in {tmp, None} /\ GoTo(w, "done")
    /\ UNCHANGED <<lock, path, data, fd, val, tries, result>>

-----------------------------------------------------------------------------
(* acquireLock *)

Call(w) == /\ pc[w] = "idle"
           /\ \E v \in Value : val' = [val EXCEPT ![w] = v]
           /\ tries' = [tries EXCEPT ![w] = 0]
           /\ result' = [result EXCEPT ![w] = "none"]
           /\ GoTo(w, "lock")
           /\ UNCHANGED <<lock, tmp, path, data, fd>>

\* O_CREATE|O_EXCL succeeds only when the lock file does not exist.
TakeLock(w) == /\ pc[w] = "lock" /\ ~lock
               /\ lock' = TRUE
               /\ GoTo(w, "open")
               /\ UNCHANGED <<tmp, path, data, fd, val, tries, result>>

\* The lock file exists: sleep and try again, or give up after the last try.
Retry(w) == /\ pc[w] = "lock" /\ lock
            /\ tries' = [tries EXCEPT ![w] = @ + 1]
            /\ \/ tries'[w] < MaxAttempts /\ UNCHANGED <<pc, result>>
               \/ tries'[w] = MaxAttempts /\ Return(w, "error")
            /\ UNCHANGED <<lock, tmp, path, data, fd, val>>

\* Any other error of the exclusive create is returned at once.
LockError(w) == /\ pc[w] = "lock"
                /\ Return(w, "error")
                /\ UNCHANGED <<lock, tmp, path, data, fd, val, tries>>

-----------------------------------------------------------------------------
(* writeWithLock under the lock *)

\* os.WriteFile truncates the .tmp a failed or crashed save left, or makes one.
OpenTmp(w) == /\ pc[w] = "open"
              /\ \E i \in Inode :
                   /\ IF tmp = None THEN Unused(i) ELSE i = tmp
                   /\ tmp' = i
                   /\ data' = [data EXCEPT ![i] = Torn]
                   /\ fd' = [fd EXCEPT ![w] = i]
              /\ GoTo(w, "write")
              /\ UNCHANGED <<lock, path, val, tries, result>>

WriteTmp(w) == /\ pc[w] = "write"
               /\ data' = [data EXCEPT ![fd[w]] = val[w]]
               /\ fd' = [fd EXCEPT ![w] = None]
               /\ GoTo(w, "rename")
               /\ UNCHANGED <<lock, tmp, path, val, tries, result>>

\* WriteFile fails, before or after opening .tmp: whatever it wrote stays.
WriteFails(w) == /\ pc[w] \in {"open", "write"}
                 /\ fd' = [fd EXCEPT ![w] = None]
                 /\ GoTo(w, "fail")
                 /\ UNCHANGED <<lock, tmp, path, data, val, tries, result>>

Rename(w) == /\ pc[w] = "rename" /\ tmp # None
             /\ path' = tmp
             /\ tmp' = None
             /\ GoTo(w, "done")
             /\ UNCHANGED <<lock, data, fd, val, tries, result>>

\* Rename fails; the removal of .tmp is attempted and its error ignored.
RenameFails(w) == /\ pc[w] = "rename"
                  /\ tmp' \in {tmp, None}
                  /\ GoTo(w, "fail")
                  /\ UNCHANGED <<lock, path, data, fd, val, tries, result>>

\* The deferred release, whose error is ignored, and writeWithLock's return.
Release(w) == /\ pc[w] \in {"done", "fail"}
              /\ lock' \in {FALSE, lock}
              /\ Return(w, IF pc[w] = "done" THEN "ok" ELSE "error")
              /\ UNCHANGED <<tmp, path, data, fd, val, tries>>

-----------------------------------------------------------------------------
(* The rest of the world *)

\* A server process dies: its saves vanish, the directory stays as it is.
Crash(p) ==
    LET S == {w \in Writer : ProcessOf[w] = p}
    IN  /\ \E w \in S : pc[w] # "idle"
        /\ pc' = [w \in Writer |-> IF w \in S THEN "idle" ELSE pc[w]]
        /\ fd' = [c \in Writer \cup Reader |-> IF c \in S THEN None ELSE fd[c]]
        /\ UNCHANGED <<lock, tmp, path, data, val, tries, result>>

\* Store.Delete: os.Remove takes no lock.
Remove == /\ path # None
          /\ path' = None
          /\ UNCHANGED <<lock, tmp, data, fd, pc, val, tries, result>>

\* readInstance: os.ReadFile opens the inode the name has now and reads it.
Open(r) == /\ fd[r] = None /\ path # None
           /\ fd' = [fd EXCEPT ![r] = path]
           /\ UNCHANGED <<lock, tmp, path, data, pc, val, tries, result>>

Close(r) == /\ fd[r] # None
            /\ fd' = [fd EXCEPT ![r] = None]
            /\ UNCHANGED <<lock, tmp, path, data, pc, val, tries, result>>

-----------------------------------------------------------------------------
Proceed(w) == \/ TakeLock(w) \/ Retry(w) \/ OpenTmp(w) \/ WriteTmp(w)
              \/ Rename(w) \/ Release(w)
Fail(w) == LockError(w) \/ WriteFails(w) \/ RenameFails(w)

Step(w) == Proceed(w) \/ Fail(w)

Next == \/ \E w \in Writer : Call(w) \/ Step(w)
        \/ \E p \in Process : Crash(p)
        \/ Remove
        \/ \E r \in Reader : Open(r) \/ Close(r)

Spec == Init /\ [][Next]_vars

\* A goroutine inside writeWithLock keeps running, and needs no call to fail.
FairSpec == Spec /\ \A w \in Writer : WF_vars(Proceed(w))

-----------------------------------------------------------------------------
TypeOK == /\ lock \in BOOLEAN
          /\ tmp \in Inode \cup {None}
          /\ path \in Inode \cup {None}
          /\ data \in [Inode -> Value \cup {Torn}]
          /\ fd \in [Writer \cup Reader -> Inode \cup {None}]
          /\ pc \in [Writer -> Pc]
          /\ val \in [Writer -> Value]
          /\ tries \in [Writer -> 0 .. MaxAttempts]
          /\ result \in [Writer -> {"none", "ok", "error"}]

\* Two saves of one slug are never both between acquireLock and release,
\* through retries, crashes, leftover files and failed calls.
MutualExclusion == \A w, x \in Writer : Holds(w) /\ Holds(x) => w = x

\* "never a half-written file": what a name or an open reader refers to is
\* always one whole value, and no writer has that inode open.
NeverTorn ==
    \A i \in Inode :
        (i = path \/ \E r \in Reader : fd[r] = i) =>
            data[i] \in Value /\ \A w \in Writer : fd[w] # i

\* A value being read does not change under its reader.
StableReads ==
    [][\A r \in Reader :
         fd[r] # None /\ fd'[r] = fd[r] => data'[fd[r]] = data[fd[r]]]_vars

\* A lock file whose holder is gone stays: from then on no save of this slug
\* changes the file (acquireLock never breaks a lock).
OrphanBlocksSaves ==
    [][Orphaned => Orphaned' /\ path' \in {path, None}]_vars

\* Every path out of writeWithLock releases: a lock file loses its holder only
\* in a crash, or when its removal itself fails.
OnlyFailureOrphans ==
    [][~Orphaned /\ Orphaned' =>
         (\E p \in Process : Crash(p)) \/ (\E w \in Writer : Release(w))]_vars

\* writeWithLock returns, whatever the other writers do.
SaveReturns == \A w \in Writer : (pc[w] # "idle") ~> (pc[w] = "idle")

\* Refinement: this is an AtomicFile.
Content(i) == IF i = None THEN None ELSE data[i]
Phase(w) == IF pc[w] = "idle" THEN "idle"
            ELSE IF pc[w] = "done" THEN "installed" ELSE "pending"

File == INSTANCE AtomicFile WITH
            Absent <- None,
            file <- Content(path),
            phase <- [w \in Writer |-> Phase(w)],
            view <- [r \in Reader |-> Content(fd[r])]

\* writeWithLock is atomic for readers, writers and Delete: one step, and an
\* honest error.
IsAtomicFile == File!Spec
=============================================================================
