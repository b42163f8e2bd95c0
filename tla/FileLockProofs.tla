--------------------------- MODULE FileLockProofs ---------------------------
(***************************************************************************)
(* Theorems about FileLock, for every set of writers, readers, processes,  *)
(* values and inodes, and every bound on the attempts.                     *)
(***************************************************************************)
EXTENDS FileLock, TLAPS

\* Every variable keeps its type.
THEOREM Typing == Spec => []TypeOK
<1>1. Init => TypeOK
  <2> SUFFICES ASSUME Init PROVE TypeOK
    OBVIOUS
  <2>1. data \in [Inode -> Value \cup {Torn}]
    BY DEF Init
  <2>2. 0 \in 0 .. MaxAttempts
    BY ConstantsAssumption
  <2> QED
    BY <2>1, <2>2 DEF Init, TypeOK, Pc
<1>2. TypeOK /\ [Next]_vars => TypeOK'
  <2> SUFFICES ASSUME TypeOK, [Next]_vars PROVE TypeOK'
    OBVIOUS
  <2> USE ConstantsAssumption DEF TypeOK, Pc
  <2>1. ASSUME NEW w \in Writer, Call(w) PROVE TypeOK'
    BY <2>1 DEF Call, GoTo
  <2>2. ASSUME NEW w \in Writer, TakeLock(w) PROVE TypeOK'
    BY <2>2 DEF TakeLock, GoTo
  <2>3. ASSUME NEW w \in Writer, Retry(w) PROVE TypeOK'
    BY <2>3 DEF Retry, Return, GoTo
  <2>4. ASSUME NEW w \in Writer, LockError(w) PROVE TypeOK'
    BY <2>4 DEF LockError, Return, GoTo
  <2>5. ASSUME NEW w \in Writer, OpenTmp(w) PROVE TypeOK'
    BY <2>5 DEF OpenTmp, GoTo
  <2>6. ASSUME NEW w \in Writer, WriteTmp(w) PROVE TypeOK'
    BY <2>6 DEF WriteTmp, GoTo
  <2>7. ASSUME NEW w \in Writer, WriteFails(w) PROVE TypeOK'
    BY <2>7 DEF WriteFails, GoTo
  <2>8. ASSUME NEW w \in Writer, Rename(w) PROVE TypeOK'
    BY <2>8 DEF Rename, GoTo
  <2>9. ASSUME NEW w \in Writer, RenameFails(w) PROVE TypeOK'
    BY <2>9 DEF RenameFails, GoTo
  <2>10. ASSUME NEW w \in Writer, Release(w) PROVE TypeOK'
    BY <2>10 DEF Release, Return, GoTo
  <2>11. ASSUME NEW p \in Process, Crash(p) PROVE TypeOK'
    BY <2>11 DEF Crash
  <2>12. CASE Remove
    BY <2>12 DEF Remove
  <2>13. ASSUME NEW r \in Reader, Open(r) PROVE TypeOK'
    BY <2>13 DEF Open
  <2>14. ASSUME NEW r \in Reader, Close(r) PROVE TypeOK'
    BY <2>14 DEF Close
  <2>15. CASE UNCHANGED vars
    BY <2>15 DEF vars
  <2> QED
    BY <2>1, <2>2, <2>3, <2>4, <2>5, <2>6, <2>7, <2>8, <2>9, <2>10, <2>11,
       <2>12, <2>13, <2>14, <2>15 DEF Next, Step, Proceed, Fail
<1> QED
  BY <1>1, <1>2, PTL DEF Spec

-----------------------------------------------------------------------------
(* Mutual exclusion needs one more fact: whoever holds the lock left the    *)
(* lock file behind, and nobody else removes it.                            *)

HolderLeftFile == \A w \in Writer : Holds(w) => lock
LockInv == HolderLeftFile /\ MutualExclusion

\* Every step keeps the lock with its one holder.
LEMMA LockInvInductive == TypeOK /\ LockInv /\ [Next]_vars => LockInv'
<1> SUFFICES ASSUME TypeOK, LockInv, [Next]_vars PROVE LockInv'
  OBVIOUS
<1> USE DEF TypeOK, LockInv, HolderLeftFile, MutualExclusion, Holds, GoTo
<1>1. ASSUME NEW w \in Writer, Call(w) PROVE LockInv'
  BY <1>1 DEF Call
<1>2. ASSUME NEW w \in Writer, TakeLock(w) PROVE LockInv'
  BY <1>2 DEF TakeLock
<1>3. ASSUME NEW w \in Writer, Retry(w) PROVE LockInv'
  BY <1>3 DEF Retry, Return
<1>4. ASSUME NEW w \in Writer, LockError(w) PROVE LockInv'
  BY <1>4 DEF LockError, Return
<1>5. ASSUME NEW w \in Writer, OpenTmp(w) PROVE LockInv'
  BY <1>5 DEF OpenTmp
<1>6. ASSUME NEW w \in Writer, WriteTmp(w) PROVE LockInv'
  BY <1>6 DEF WriteTmp
<1>7. ASSUME NEW w \in Writer, WriteFails(w) PROVE LockInv'
  BY <1>7 DEF WriteFails
<1>8. ASSUME NEW w \in Writer, Rename(w) PROVE LockInv'
  BY <1>8 DEF Rename
<1>9. ASSUME NEW w \in Writer, RenameFails(w) PROVE LockInv'
  BY <1>9 DEF RenameFails
<1>10. ASSUME NEW w \in Writer, Release(w) PROVE LockInv'
  BY <1>10 DEF Release, Return
<1>11. ASSUME NEW p \in Process, Crash(p) PROVE LockInv'
  BY <1>11 DEF Crash
<1>12. CASE Remove
  BY <1>12 DEF Remove
<1>13. ASSUME NEW r \in Reader, Open(r) PROVE LockInv'
  BY <1>13 DEF Open
<1>14. ASSUME NEW r \in Reader, Close(r) PROVE LockInv'
  BY <1>14 DEF Close
<1>15. CASE UNCHANGED vars
  BY <1>15 DEF vars
<1> QED
  BY <1>1, <1>2, <1>3, <1>4, <1>5, <1>6, <1>7, <1>8, <1>9, <1>10, <1>11,
     <1>12, <1>13, <1>14, <1>15 DEF Next, Step, Proceed, Fail

\* Two saves of one slug are never both between acquireLock and release.
THEOREM Exclusion == Spec => []MutualExclusion
<1>1. Init => LockInv
  BY DEF Init, LockInv, HolderLeftFile, MutualExclusion, Holds
<1>2. LockInv => MutualExclusion
  BY DEF LockInv
<1> QED
  BY <1>1, <1>2, Typing, LockInvInductive, PTL DEF Spec

-----------------------------------------------------------------------------
(* No torn file: .tmp is an inode of its own, only the holder of the lock   *)
(* has it open, and it is whole when it is renamed.                         *)

TmpIsPrivate == /\ tmp # None => path # tmp /\ \A r \in Reader : fd[r] # tmp
                /\ \A w \in Writer : fd[w] # None =>
                       pc[w] = "write" /\ fd[w] = tmp
Written == \A w \in Writer :
              /\ pc[w] = "write" => fd[w] # None
              /\ pc[w] = "rename" => tmp # None /\ data[tmp] = val[w]
WholeReads == \A i \in Inode :
                (i = path \/ \E r \in Reader : fd[r] = i) => data[i] \in Value
FilesInv == TmpIsPrivate /\ Written /\ WholeReads

\* Every step keeps the files whole.
LEMMA FilesInvInductive ==
  TypeOK /\ LockInv /\ FilesInv /\ [Next]_vars => FilesInv'
<1> SUFFICES ASSUME TypeOK, LockInv, FilesInv, [Next]_vars PROVE FilesInv'
  OBVIOUS
<1> USE ConstantsAssumption
    DEF TypeOK, LockInv, MutualExclusion, Holds, FilesInv, TmpIsPrivate,
        Written, WholeReads
<1>1. ASSUME NEW w \in Writer, Call(w) PROVE FilesInv'
  BY <1>1 DEF Call, GoTo
<1>2. ASSUME NEW w \in Writer, TakeLock(w) PROVE FilesInv'
  BY <1>2 DEF TakeLock, GoTo
<1>3. ASSUME NEW w \in Writer, Retry(w) PROVE FilesInv'
  BY <1>3 DEF Retry, Return, GoTo
<1>4. ASSUME NEW w \in Writer, LockError(w) PROVE FilesInv'
  BY <1>4 DEF LockError, Return, GoTo
<1>5. ASSUME NEW w \in Writer, OpenTmp(w) PROVE FilesInv'
  BY <1>5 DEF OpenTmp, GoTo, Unused
<1>6. ASSUME NEW w \in Writer, WriteTmp(w) PROVE FilesInv'
  BY <1>6 DEF WriteTmp, GoTo
<1>7. ASSUME NEW w \in Writer, WriteFails(w) PROVE FilesInv'
  BY <1>7 DEF WriteFails, GoTo
<1>8. ASSUME NEW w \in Writer, Rename(w) PROVE FilesInv'
  BY <1>8 DEF Rename, GoTo
<1>9. ASSUME NEW w \in Writer, RenameFails(w) PROVE FilesInv'
  BY <1>9 DEF RenameFails, GoTo
<1>10. ASSUME NEW w \in Writer, Release(w) PROVE FilesInv'
  BY <1>10 DEF Release, Return, GoTo
<1>11. ASSUME NEW p \in Process, Crash(p) PROVE FilesInv'
  BY <1>11 DEF Crash
<1>12. CASE Remove
  BY <1>12 DEF Remove
<1>13. ASSUME NEW r \in Reader, Open(r) PROVE FilesInv'
  BY <1>13 DEF Open
<1>14. ASSUME NEW r \in Reader, Close(r) PROVE FilesInv'
  BY <1>14 DEF Close
<1>15. CASE UNCHANGED vars
  BY <1>15 DEF vars
<1> QED
  BY <1>1, <1>2, <1>3, <1>4, <1>5, <1>6, <1>7, <1>8, <1>9, <1>10, <1>11,
     <1>12, <1>13, <1>14, <1>15 DEF Next, Step, Proceed, Fail

IInv == TypeOK /\ LockInv /\ FilesInv

\* All of it holds in every state.
LEMMA Invariance == Spec => []IInv
<1>1. Init => LockInv /\ FilesInv
  BY ConstantsAssumption
     DEF Init, LockInv, HolderLeftFile, MutualExclusion, Holds, FilesInv,
         TmpIsPrivate, Written, WholeReads
<1>2. TypeOK /\ LockInv /\ FilesInv /\ [Next]_vars => (LockInv /\ FilesInv)'
  BY LockInvInductive, FilesInvInductive
<1> QED
  BY <1>1, <1>2, Typing, PTL DEF Spec, IInv

\* "Readers either see the previous valid instance or the new one in full -
\* never a half-written file", whatever fails or crashes.
THEOREM NoTornFile == Spec => []NeverTorn
<1>1. IInv => NeverTorn
  BY ConstantsAssumption
     DEF IInv, TypeOK, FilesInv, TmpIsPrivate, WholeReads, NeverTorn
<1> QED
  BY <1>1, Invariance, PTL

\* The only inode whose content a step changes is one no reader has open and
\* the file does not name.
LEMMA OnlyPrivateWrites ==
  ASSUME IInv, [Next]_vars, NEW i \in Inode, data'[i] # data[i]
  PROVE  i # path /\ \A r \in Reader : fd[r] # i
<1> USE ConstantsAssumption
    DEF IInv, TypeOK, LockInv, FilesInv, TmpIsPrivate, Written
<1>1. ASSUME NEW w \in Writer, OpenTmp(w)
      PROVE  i # path /\ \A r \in Reader : fd[r] # i
  BY <1>1 DEF OpenTmp, Unused
<1>2. ASSUME NEW w \in Writer, WriteTmp(w)
      PROVE  i # path /\ \A r \in Reader : fd[r] # i
  BY <1>2 DEF WriteTmp
<1>3. (\E w \in Writer : OpenTmp(w) \/ WriteTmp(w)) \/ data' = data
  BY DEF Next, Step, Proceed, Fail, vars, Call, TakeLock, Retry, LockError, WriteFails,
         Rename, RenameFails, Release, Crash, Remove, Open, Close
<1> QED
  BY <1>1, <1>2, <1>3

\* A value being read does not change under its reader.
THEOREM ReadsAreStable == Spec => StableReads
<1>1. IInv /\ [Next]_vars =>
        [\A r \in Reader :
           fd[r] # None /\ fd'[r] = fd[r] => data'[fd[r]] = data[fd[r]]]_vars
  BY OnlyPrivateWrites DEF IInv, TypeOK
<1> QED
  BY <1>1, Invariance, PTL DEF Spec, StableReads

-----------------------------------------------------------------------------
(* A lock file left by a crash is there for good. *)

\* Once the holder of the lock file is gone, no save changes the file.
THEOREM OrphanStays == Spec => OrphanBlocksSaves
<1>1. IInv /\ [Next]_vars =>
        [Orphaned => Orphaned' /\ path' \in {path, None}]_vars
  <2> SUFFICES ASSUME IInv, [Next]_vars, Orphaned
               PROVE  Orphaned' /\ path' \in {path, None}
    OBVIOUS
  <2> USE DEF IInv, TypeOK, Orphaned, Holds
  <2>1. ASSUME NEW w \in Writer, Call(w)
       PROVE  Orphaned' /\ path' \in {path, None}
    BY <2>1 DEF Call, GoTo
  <2>2. ASSUME NEW w \in Writer, TakeLock(w)
       PROVE  Orphaned' /\ path' \in {path, None}
    BY <2>2 DEF TakeLock, GoTo
  <2>3. ASSUME NEW w \in Writer, Retry(w)
       PROVE  Orphaned' /\ path' \in {path, None}
    BY <2>3 DEF Retry, Return, GoTo
  <2>4. ASSUME NEW w \in Writer, LockError(w)
       PROVE  Orphaned' /\ path' \in {path, None}
    BY <2>4 DEF LockError, Return, GoTo
  <2>5. ASSUME NEW w \in Writer, OpenTmp(w)
       PROVE  Orphaned' /\ path' \in {path, None}
    BY <2>5 DEF OpenTmp, GoTo, Unused
  <2>6. ASSUME NEW w \in Writer, WriteTmp(w)
       PROVE  Orphaned' /\ path' \in {path, None}
    BY <2>6 DEF WriteTmp, GoTo
  <2>7. ASSUME NEW w \in Writer, WriteFails(w)
       PROVE  Orphaned' /\ path' \in {path, None}
    BY <2>7 DEF WriteFails, GoTo
  <2>8. ASSUME NEW w \in Writer, Rename(w)
       PROVE  Orphaned' /\ path' \in {path, None}
    BY <2>8 DEF Rename, GoTo
  <2>9. ASSUME NEW w \in Writer, RenameFails(w)
       PROVE  Orphaned' /\ path' \in {path, None}
    BY <2>9 DEF RenameFails, GoTo
  <2>10. ASSUME NEW w \in Writer, Release(w)
       PROVE  Orphaned' /\ path' \in {path, None}
    BY <2>10 DEF Release, Return, GoTo
  <2>11. ASSUME NEW p \in Process, Crash(p)
       PROVE  Orphaned' /\ path' \in {path, None}
    BY <2>11 DEF Crash
  <2>12. CASE Remove
    BY <2>12 DEF Remove
  <2>13. ASSUME NEW r \in Reader, Open(r)
       PROVE  Orphaned' /\ path' \in {path, None}
    BY <2>13 DEF Open
  <2>14. ASSUME NEW r \in Reader, Close(r)
       PROVE  Orphaned' /\ path' \in {path, None}
    BY <2>14 DEF Close
  <2>15. CASE UNCHANGED vars
    BY <2>15 DEF vars
  <2> QED
    BY <2>1, <2>2, <2>3, <2>4, <2>5, <2>6, <2>7, <2>8, <2>9,
       <2>10, <2>11, <2>12, <2>13, <2>14, <2>15
       DEF Next, Step, Proceed, Fail
<1> QED
  BY <1>1, Invariance, PTL DEF Spec, OrphanBlocksSaves

-----------------------------------------------------------------------------
\* Every path out of writeWithLock releases the lock: only a crash, or a removal
\* of the lock file that fails, leaves one that nobody holds.
THEOREM OnlyFailuresOrphan == Spec => OnlyFailureOrphans
<1>1. IInv /\ [Next]_vars =>
        [~Orphaned /\ Orphaned' =>
           (\E p \in Process : Crash(p)) \/ (\E w \in Writer : Release(w))]_vars
  <2> SUFFICES ASSUME IInv, [Next]_vars, ~Orphaned,
                      ~ \E p \in Process : Crash(p), ~ \E w \in Writer : Release(w)
               PROVE  ~Orphaned'
    OBVIOUS
  <2> USE DEF IInv, TypeOK, Orphaned, Holds
  <2>1. ASSUME NEW w \in Writer, Call(w) PROVE ~Orphaned'
    BY <2>1 DEF Call, GoTo
  <2>2. ASSUME NEW w \in Writer, TakeLock(w) PROVE ~Orphaned'
    BY <2>2 DEF TakeLock, GoTo
  <2>3. ASSUME NEW w \in Writer, Retry(w) PROVE ~Orphaned'
    BY <2>3 DEF Retry, Return, GoTo
  <2>4. ASSUME NEW w \in Writer, LockError(w) PROVE ~Orphaned'
    BY <2>4 DEF LockError, Return, GoTo
  <2>5. ASSUME NEW w \in Writer, OpenTmp(w) PROVE ~Orphaned'
    BY <2>5 DEF OpenTmp, GoTo
  <2>6. ASSUME NEW w \in Writer, WriteTmp(w) PROVE ~Orphaned'
    BY <2>6 DEF WriteTmp, GoTo
  <2>7. ASSUME NEW w \in Writer, WriteFails(w) PROVE ~Orphaned'
    BY <2>7 DEF WriteFails, GoTo
  <2>8. ASSUME NEW w \in Writer, Rename(w) PROVE ~Orphaned'
    BY <2>8 DEF Rename, GoTo
  <2>9. ASSUME NEW w \in Writer, RenameFails(w) PROVE ~Orphaned'
    BY <2>9 DEF RenameFails, GoTo
  <2>10. ASSUME Remove PROVE ~Orphaned'
    BY <2>10 DEF Remove
  <2>11. ASSUME NEW r \in Reader, Open(r) PROVE ~Orphaned'
    BY <2>11 DEF Open
  <2>12. ASSUME NEW r \in Reader, Close(r) PROVE ~Orphaned'
    BY <2>12 DEF Close
  <2>13. ASSUME UNCHANGED vars PROVE ~Orphaned'
    BY <2>13 DEF vars
  <2> QED
    BY <2>1, <2>2, <2>3, <2>4, <2>5, <2>6, <2>7, <2>8,
       <2>9, <2>10, <2>11, <2>12, <2>13 DEF Next, Step, Proceed, Fail
<1> QED
  BY <1>1, Invariance, PTL DEF Spec, OnlyFailureOrphans

-----------------------------------------------------------------------------
(* Refinement: Rename is the step in which a save takes effect.             *)

\* A name's content changes with the name or its inode only.
LEMMA ContentKept ==
  ASSUME IInv, IInv', [Next]_vars, path' = path, 
         \A r \in Reader : fd'[r] = fd[r]
  PROVE  /\ Content(path)' = Content(path)
         /\ [r \in Reader |-> Content(fd[r])]' = [r \in Reader |-> Content(fd[r])]
<1>1. ASSUME NEW i \in Inode, i = path \/ \E r \in Reader : fd[r] = i
      PROVE  data'[i] = data[i]
  BY <1>1, OnlyPrivateWrites
<1> QED
  BY <1>1 DEF Content, IInv, TypeOK

\* Every behaviour of writeWithLock, Delete and readInstance on one file is a
\* behaviour of an atomic file.
THEOREM Refinement == Spec => IsAtomicFile
<1> DEFINE phase == [w \in Writer |-> Phase(w)]
           view == [r \in Reader |-> Content(fd[r])]
<1>1. Init => File!Init
  BY ConstantsAssumption DEF Init, File!Init, Content, Phase
<1>2. ASSUME IInv, IInv', [Next]_vars PROVE [File!Next]_(File!vars)
  <2>0. ASSUME path' = path, \A r \in Reader : fd'[r] = fd[r]
        PROVE  UNCHANGED <<Content(path), view>>
    BY <1>2, <2>0, ContentKept
  <2> USE <1>2, ConstantsAssumption DEF IInv, TypeOK
  <2> SUFFICES File!Next \/ UNCHANGED File!vars
    OBVIOUS
  <2>1. ASSUME NEW w \in Writer, Call(w) PROVE File!Call(w)
    <3>1. phase[w] = "idle" /\ phase' = [phase EXCEPT ![w] = "pending"]
      BY <2>1 DEF Call, GoTo, Phase
    <3> QED
      BY <2>0, <2>1, <3>1 DEF Call, File!Call
  <2>2. ASSUME NEW w \in Writer,
               TakeLock(w) \/ OpenTmp(w) \/ WriteTmp(w) \/ WriteFails(w)
                 \/ RenameFails(w)
        PROVE  UNCHANGED File!vars
    <3>1. phase' = phase
      BY <2>2 DEF TakeLock, OpenTmp, WriteTmp, WriteFails, RenameFails, GoTo,
                  Phase
    <3>2. path' = path /\ val' = val /\ result' = result
          /\ \A r \in Reader : fd'[r] = fd[r]
      BY <2>2 DEF TakeLock, OpenTmp, WriteTmp, WriteFails, RenameFails
    <3> QED
      BY <2>0, <3>1, <3>2 DEF File!vars
  <2>3. ASSUME NEW w \in Writer, Retry(w) \/ LockError(w)
        PROVE  File!Return(w) \/ UNCHANGED File!vars
    <3>1. UNCHANGED <<path, fd, val>>
      BY <2>3 DEF Retry, LockError
    <3>2. CASE UNCHANGED <<pc, result>>
      BY <2>0, <3>1, <3>2 DEF File!vars, Phase
    <3>3. CASE Return(w, "error")
      <4>1. phase[w] = "pending" /\ phase' = [phase EXCEPT ![w] = "idle"]
        BY <2>3, <3>3 DEF Retry, LockError, Return, GoTo, Phase
      <4> QED
        BY <2>0, <3>1, <3>3, <4>1 DEF Return, File!Return
    <3> QED
      BY <2>3, <3>2, <3>3 DEF Retry, LockError
  <2>4. ASSUME NEW w \in Writer, Rename(w) PROVE File!Install(w)
    <3>1. phase[w] = "pending" /\ phase' = [phase EXCEPT ![w] = "installed"]
      BY <2>4 DEF Rename, GoTo, Phase
    <3>2. Content(path)' = val[w]
      BY <2>4 DEF Rename, Content, FilesInv, Written
    <3>3. view' = view
      BY <2>4 DEF Rename, Content
    <3> QED
      BY <2>4, <3>1, <3>2, <3>3 DEF Rename, File!Install
  <2>5. ASSUME NEW w \in Writer, Release(w) PROVE File!Return(w)
    <3>1. /\ phase[w] = IF pc[w] = "done" THEN "installed" ELSE "pending"
          /\ phase' = [phase EXCEPT ![w] = "idle"]
      BY <2>5 DEF Release, Return, GoTo, Phase
    <3>2. result' = [result EXCEPT ![w] =
                       IF phase[w] = "installed" THEN "ok" ELSE "error"]
      BY <2>5, <3>1 DEF Release, Return
    <3> QED
      BY <2>0, <2>5, <3>1, <3>2 DEF Release, File!Return
  <2>6. ASSUME NEW p \in Process, Crash(p) PROVE File!Next
    <3> DEFINE S == {w \in Writer : ProcessOf[w] = p}
    <3>1. phase' = [w \in Writer |-> IF w \in S THEN "idle" ELSE phase[w]]
      BY <2>6 DEF Crash, Phase
    <3>2. \A r \in Reader : fd'[r] = fd[r]
      BY <2>6 DEF Crash
    <3>3. File!Die(S)
      BY <2>0, <2>6, <3>1, <3>2 DEF Crash, File!Die
    <3> QED
      BY <3>3 DEF File!Next
  <2>7. CASE Remove
    BY <2>7 DEF Remove, Content, Phase, File!Remove, File!Next
  <2>8. ASSUME NEW r \in Reader, Open(r) PROVE File!Open(r)
    <3>1. view[r] = None /\ Content(path) # None
      BY <2>8 DEF Open, Content, FilesInv, WholeReads
    <3>2. view' = [view EXCEPT ![r] = Content(path)]
      BY <2>8 DEF Open, Content
    <3> QED
      BY <2>8, <3>1, <3>2 DEF Open, File!Open, Content, Phase
  <2>9. ASSUME NEW r \in Reader, Close(r) PROVE File!Close(r)
    <3>1. view' = [view EXCEPT ![r] = None]
      BY <2>9 DEF Close, Content
    <3> QED
      BY <2>9, <3>1 DEF Close, File!Close, Content, Phase
  <2>10. CASE UNCHANGED vars
    BY <2>10 DEF vars, File!vars, Content, Phase
  <2> QED
    BY <2>1, <2>2, <2>3, <2>4, <2>5, <2>6, <2>7, <2>8, <2>9, <2>10
       DEF Next, Step, Proceed, Fail, File!Next
<1> QED
  BY <1>1, <1>2, Invariance, PTL DEF Spec, IsAtomicFile, File!Spec
=============================================================================
