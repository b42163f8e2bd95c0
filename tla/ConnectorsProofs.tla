-------------------------- MODULE ConnectorsProofs --------------------------
(***************************************************************************)
(* Proofs about the connectors: for each an invariant that its first state *)
(* meets and its steps keep, and what follows for the answers of all.      *)
(***************************************************************************)
EXTENDS MCConnectors, SequenceTheorems, FiniteSetTheorems, WellFoundedInduction, TLAPS

-----------------------------------------------------------------------------
(* Least elements, and the first place of a sequence that passes a test. *)

LEMMA LeastIsThere ==
    ASSUME NEW I \in SUBSET Nat, I # {}
    PROVE  \E x \in I : \A y \in I : x <= y
<1>1. PICK x \in I : \A y \in I : ~ (<<y, x>> \in OpToRel(<, Nat))
  BY NatLessThanWellFounded, WFMin
<1>2. \A y \in I : ~ (y < x)
  BY <1>1 DEF OpToRel
<1> QED
  BY <1>2

LEMMA MinOfNats ==
    ASSUME NEW I \in SUBSET Nat, I # {}
    PROVE  Min(I) \in I /\ \A y \in I : Min(I) <= y
BY LeastIsThere DEF Min

-----------------------------------------------------------------------------
(* sqlconn: what a call has read so far, and when it is whole. *)

SqlCallType == [pc : {"idle", "rows", "end", "answered"}, tool : {"query", "list"},
                rows : Nat, got : Nat, failed : {"no", "call", "rows"}, timed : BOOLEAN, cut : BOOLEAN,
                ok : BOOLEAN]

\* A result is all that there is, or cut at the cap with more behind it.
SqlWhole(call, b) == IF call.cut THEN call.got = b.max /\ call.got < call.rows
                                 ELSE call.got = call.rows

\* What is so of a call at each of its points under the instance b.
SqlCallOK(call, b) ==
    /\ call.got <= call.rows
    /\ call.pc # "idle" => b # Off
    /\ call.tool = "query" /\ call.pc # "idle" /\ b.max > 0 => call.got <= b.max
    /\ call.pc = "rows" => ~call.cut /\ call.failed = "no"
    /\ call.pc = "end" /\ call.tool = "query" /\ call.failed = "no" => SqlWhole(call, b)
    /\ call.pc = "answered" /\ call.tool = "query" /\ call.ok => SqlWhole(call, b)

SqlInv ==
    /\ db # Off => db.max \in Nat /\ db.allow \subseteq SqlTable /\ db.timeout \in BOOLEAN
    /\ closed \in BOOLEAN
    /\ qcall \in [SqlCaller -> SqlCallType]
    /\ conns = {c \in SqlCaller : qcall[c].pc \in {"rows", "end"}}
    /\ \A c \in SqlCaller : SqlCallOK(qcall[c], db)

LEMMA SqlStarts == SqlInit => SqlInv
<1> SUFFICES ASSUME SqlInit PROVE SqlInv
  OBVIOUS
<1>1. NoSqlCall \in SqlCallType /\ NoSqlCall.pc = "idle" /\ SqlCallOK(NoSqlCall, db)
  BY DEF NoSqlCall, SqlCallType, SqlCallOK
<1> HIDE DEF NoSqlCall
<1> QED
  BY <1>1 DEF SqlInit, SqlInv

\* A step of one call.
LEMMA SqlMoves ==
    ASSUME SqlInv, NEW c \in SqlCaller, NEW x \in SqlCallType,
           qcall' = [qcall EXCEPT ![c] = x], UNCHANGED <<db, closed>>,
           conns' = IF x.pc \in {"rows", "end"} THEN conns \cup {c} ELSE conns \ {c},
           SqlCallOK(x, db)
    PROVE  SqlInv'
<1>1. qcall' \in [SqlCaller -> SqlCallType]
  BY DEF SqlInv
<1>2. \A k \in SqlCaller : qcall'[k] = IF k = c THEN x ELSE qcall[k]
  BY DEF SqlInv
<1>3. conns' = {k \in SqlCaller : qcall'[k].pc \in {"rows", "end"}}
  BY <1>2 DEF SqlInv
<1>4. \A k \in SqlCaller : SqlCallOK(qcall'[k], db)
  BY <1>2 DEF SqlInv
<1> QED
  BY <1>1, <1>3, <1>4 DEF SqlInv

LEMMA SqlStartsKeeps ==
    ASSUME SqlInv, NEW c \in SqlCaller, NEW tool \in {"query", "list"},
           NEW timed \in BOOLEAN, Starts(c, tool, timed)
    PROVE  SqlInv'
<1>1. PICK n \in 0 .. MaxResult :
         qcall' = [qcall EXCEPT ![c] = [NoSqlCall EXCEPT !.pc = "rows", !.tool = tool, !.rows = n,
                                                         !.timed = timed]]
  BY DEF Starts, SqlGoes
<1>2. PICK x : x = [NoSqlCall EXCEPT !.pc = "rows", !.tool = tool, !.rows = n, !.timed = timed]
  OBVIOUS
<1>3. n \in Nat
  BY SqlAssumption
<1>4. /\ x \in SqlCallType /\ x.pc = "rows" /\ x.rows = n /\ x.got = 0
      /\ ~x.cut /\ x.failed = "no"
  BY <1>2, <1>3 DEF NoSqlCall, SqlCallType
<1>5. db # Off /\ db.max \in Nat /\ UNCHANGED <<db, closed>> /\ conns' = conns \cup {c}
  BY DEF Starts, SqlInv
<1>6. SqlCallOK(x, db)
  BY <1>3, <1>4, <1>5 DEF SqlCallOK
<1>7. qcall' = [qcall EXCEPT ![c] = x]
  BY <1>1, <1>2
<1> QED
  BY <1>4, <1>5, <1>6, <1>7, SqlMoves

LEMMA SqlKeeps == SqlInv /\ [SqlNext]_qvars => SqlInv'
<1> SUFFICES ASSUME SqlInv, [SqlNext]_qvars PROVE SqlInv'
  OBVIOUS
<1>1. CASE InitSql
  <2>1. \A c \in SqlCaller : qcall[c].pc = "idle"
    BY <1>1 DEF InitSql, SqlInv, SqlCallOK
  <2>2. PICK n \in RowCaps, readOnly, timeout \in BOOLEAN, allow \in SUBSET SqlTable :
           db' = [max |-> RowCap(n), readOnly |-> readOnly, timeout |-> timeout, allow |-> allow]
    BY <1>1 DEF InitSql
  <2>3. db'.max \in Nat /\ db'.allow \subseteq SqlTable /\ db'.timeout \in BOOLEAN
    BY <2>2, SqlAssumption DEF RowCap
  <2>4. closed' \in BOOLEAN /\ UNCHANGED <<conns, qcall>>
    BY <1>1 DEF InitSql
  <2>5. \A c \in SqlCaller : SqlCallOK(qcall[c], db')
    BY <2>1 DEF SqlInv, SqlCallOK, SqlCallType
  <2> QED
    BY <2>3, <2>4, <2>5 DEF SqlInv
<1>2. CASE CloseSql
  BY <1>2 DEF CloseSql, SqlInv
<1>3. CASE UNCHANGED qvars
  BY <1>3 DEF qvars, SqlInv
<1>4. ASSUME NEW c \in SqlCaller, SqlQuery(c) \/ Describe(c) \/ ListNames(c) PROVE SqlInv'
  <2>1. \/ db # Off /\ Starts(c, "query", db.timeout)
        \/ Starts(c, "list", FALSE)
    BY <1>4 DEF SqlQuery, Describe, ListNames
  <2>2. db # Off => db.timeout \in BOOLEAN
    BY DEF SqlInv
  <2> QED
    BY <2>1, <2>2, SqlStartsKeeps
<1>5. ASSUME NEW c \in SqlCaller,
             \/ NextRow(c) \/ NoMoreRows(c) \/ SqlFails(c) \/ QueryDeadline(c)
             \/ SqlAnswer(c) \/ SqlLeave(c)
      PROVE  SqlInv'
  <2> DEFINE call == qcall[c]
  <2>0. call \in SqlCallType /\ SqlCallOK(call, db) /\ (call.pc # "idle" => db.max \in Nat)
    BY DEF SqlInv, SqlCallOK
  <2>t. /\ call.got \in Nat /\ call.rows \in Nat
    BY <2>0 DEF SqlCallType
  <2>c. c \in conns <=> call.pc \in {"rows", "end"}
    BY DEF SqlInv
  <2> DEFINE Goal(x) == /\ x \in SqlCallType /\ SqlCallOK(x, db)
                        /\ qcall' = [qcall EXCEPT ![c] = x] /\ UNCHANGED <<db, closed>>
                        /\ conns' = IF x.pc \in {"rows", "end"} THEN conns \cup {c} ELSE conns \ {c}
  <2>m. ASSUME NEW x, Goal(x) PROVE SqlInv'
    BY <2>m, SqlMoves
  <2>1. CASE NextRow(c) /\ call.tool = "query" /\ CapReached(call)
    <3> DEFINE x == [call EXCEPT !.pc = "end", !.cut = TRUE]
    <3>1. /\ call.pc = "rows" /\ call.got < call.rows /\ db.max > 0 /\ call.got >= db.max
          /\ qcall' = [qcall EXCEPT ![c] = x] /\ UNCHANGED <<db, closed, conns>>
      BY <2>1 DEF NextRow, SqlAt, SqlGoes, CapReached
    <3>2. x = [call EXCEPT !.pc = "end", !.cut = TRUE]
      OBVIOUS
    <3> HIDE DEF call, x
    <3>3. /\ x \in SqlCallType /\ x.pc = "end" /\ x.cut /\ x.got = call.got /\ x.rows = call.rows
          /\ x.tool = call.tool
      BY <2>0, <3>2 DEF SqlCallType
    <3>4. SqlCallOK(x, db)
      BY <2>0, <2>t, <3>1, <3>3, <2>1 DEF SqlCallOK, SqlWhole
    <3> QED
      BY <2>m, <2>c, <3>1, <3>3, <3>4
  <2>2. CASE NextRow(c) /\ ~(call.tool = "query" /\ CapReached(call))
    <3> DEFINE x == [call EXCEPT !.got = call.got + 1]
    <3>1. /\ call.pc = "rows" /\ call.got < call.rows
          /\ call.tool = "query" => ~(db.max > 0 /\ call.got >= db.max)
          /\ qcall' = [qcall EXCEPT ![c] = x] /\ UNCHANGED <<db, closed, conns>>
      BY <2>2 DEF NextRow, SqlAt, SqlGoes, CapReached
    <3>2. x = [call EXCEPT !.got = call.got + 1] /\ call.got + 1 \in Nat
      BY <2>t
    <3> HIDE DEF call, x
    <3>3. /\ x \in SqlCallType /\ x.pc = "rows" /\ x.got = call.got + 1 /\ x.rows = call.rows
          /\ x.tool = call.tool /\ x.cut = call.cut /\ x.failed = call.failed
      BY <2>0, <3>1, <3>2 DEF SqlCallType
    <3>4. SqlCallOK(x, db)
      BY <2>0, <2>t, <3>1, <3>3 DEF SqlCallOK, SqlWhole
    <3> QED
      BY <2>m, <2>c, <3>1, <3>3, <3>4
  <2>3. CASE NoMoreRows(c)
    <3> DEFINE x == [call EXCEPT !.pc = "end"]
    <3>1. /\ call.pc = "rows" /\ call.got = call.rows
          /\ qcall' = [qcall EXCEPT ![c] = x] /\ UNCHANGED <<db, closed, conns>>
      BY <2>3 DEF NoMoreRows, SqlAt, SqlGoes
    <3>2. x = [call EXCEPT !.pc = "end"]
      OBVIOUS
    <3> HIDE DEF call, x
    <3>3. /\ x \in SqlCallType /\ x.pc = "end" /\ x.got = call.got /\ x.rows = call.rows
          /\ x.tool = call.tool /\ x.cut = call.cut /\ x.failed = call.failed
      BY <2>0, <3>2 DEF SqlCallType
    <3>4. SqlCallOK(x, db)
      BY <2>0, <2>t, <3>1, <3>3 DEF SqlCallOK, SqlWhole
    <3> QED
      BY <2>m, <2>c, <3>1, <3>3, <3>4
  <2>4. CASE SqlFails(c) \/ QueryDeadline(c)
    <3>0. PICK to \in {"call", "rows"} :
             qcall' = [qcall EXCEPT ![c] = [call EXCEPT !.pc = "end", !.failed = to]]
      BY <2>4 DEF SqlFails, QueryDeadline, SqlGoes
    <3> DEFINE x == [call EXCEPT !.pc = "end", !.failed = to]
    <3>1. /\ call.pc = "rows"
          /\ qcall' = [qcall EXCEPT ![c] = x] /\ UNCHANGED <<db, closed, conns>>
      BY <2>4, <3>0 DEF SqlFails, QueryDeadline, SqlAt
    <3>2. x = [call EXCEPT !.pc = "end", !.failed = to]
      OBVIOUS
    <3> HIDE DEF call, x
    <3>3. /\ x \in SqlCallType /\ x.pc = "end" /\ x.failed # "no" /\ x.got = call.got
          /\ x.rows = call.rows /\ x.tool = call.tool
      BY <2>0, <3>2 DEF SqlCallType
    <3>4. SqlCallOK(x, db)
      BY <2>0, <2>t, <3>1, <3>3 DEF SqlCallOK, SqlWhole
    <3> QED
      BY <2>m, <2>c, <3>1, <3>3, <3>4
  <2>5. CASE SqlAnswer(c)
    <3> DEFINE ok == Succeeds(call)
               x == [call EXCEPT !.pc = "answered", !.ok = ok]
    <3>1. /\ call.pc = "end" /\ conns' = conns \ {c}
          /\ qcall' = [qcall EXCEPT ![c] = x] /\ UNCHANGED <<db, closed>>
      BY <2>5 DEF SqlAnswer, SqlAt, SqlGoes, Released
    <3>2. ok \in BOOLEAN /\ (ok /\ call.tool = "query" => call.failed = "no")
      BY DEF Succeeds
    <3>3. x = [call EXCEPT !.pc = "answered", !.ok = ok]
      OBVIOUS
    <3> HIDE DEF call, x, ok
    <3>4. /\ x \in SqlCallType /\ x.pc = "answered" /\ x.ok = ok /\ x.got = call.got
          /\ x.rows = call.rows /\ x.tool = call.tool /\ x.cut = call.cut
      BY <2>0, <3>2, <3>3 DEF SqlCallType
    <3>5. SqlCallOK(x, db)
      BY <2>0, <2>t, <3>1, <3>2, <3>4 DEF SqlCallOK, SqlWhole
    <3> QED
      BY <2>m, <3>1, <3>4, <3>5
  <2>6. CASE SqlLeave(c)
    <3>1. /\ call.pc = "answered" /\ c \notin conns
          /\ qcall' = [qcall EXCEPT ![c] = NoSqlCall] /\ UNCHANGED <<db, closed, conns>>
      BY <2>6, <2>c DEF SqlLeave, SqlAt, SqlGoes
    <3>2. NoSqlCall \in SqlCallType /\ SqlCallOK(NoSqlCall, db) /\ NoSqlCall.pc = "idle"
      BY DEF NoSqlCall, SqlCallType, SqlCallOK, SqlWhole
    <3>3. conns' = conns \ {c}
      BY <3>1
    <3> QED
      BY <2>m, <3>1, <3>2, <3>3
  <2> QED
    BY <1>5, <2>1, <2>2, <2>3, <2>4, <2>5, <2>6
<1> QED
  BY <1>1, <1>2, <1>3, <1>4, <1>5 DEF SqlNext, SqlCallStep

LEMMA SqlShown == SqlInv => SqlTypeOK /\ ResultIsWhole
<1>1. SqlInv => SqlTypeOK
  BY DEF SqlInv, SqlTypeOK, SqlCallOK, SqlCallType
<1>2. SqlInv => ResultIsWhole
  BY DEF SqlInv, ResultIsWhole, SqlCallOK, SqlWhole, SqlAt
<1> QED
  BY <1>1, <1>2

-----------------------------------------------------------------------------
(* git: what a process has to say, and what of it an answer has. *)

GitCallType == [pc : {"idle", "run", "running", "exited", "answered"},
                tool : {"log", "search", "plain"}, count : Int, want : Seq(Int),
                out : Seq(Int), exit : {-1, 0, 1, 128}, helper : BOOLEAN, ok : BOOLEAN]

\* Commits without a gap, newest first, no newer than top.
InARow(s, top) == \A k \in DOMAIN s : s[k] = s[1] + 1 - k /\ s[k] <= top

\* What is so of a call at each of its points.
GitCallOK(call, top, max) ==
    /\ call.pc # "idle" => max # Unset
    /\ call.pc # "idle" /\ call.tool = "log" => call.count <= max
    /\ call.pc \in {"running", "exited", "answered"} /\ call.tool = "log" /\ call.exit = 0 =>
          InARow(call.want, top) /\ Len(call.want) <= max
    /\ call.pc = "exited" /\ call.exit = 0 => call.out = call.want
    /\ call.pc = "answered" /\ call.ok => call.out = call.want /\ call.exit = 0

GitInv ==
    /\ commits \in 1 .. MaxCommits /\ matching \in BOOLEAN
    /\ logCap \in (Nat \ {0}) \cup {Unset}
    /\ gcall \in [GitCaller -> GitCallType]
    /\ \A c \in GitCaller : GitCallOK(gcall[c], commits, logCap)

LEMMA GitStartsOff == GitInit => GitInv
<1> SUFFICES ASSUME GitInit PROVE GitInv
  OBVIOUS
<1>1. NoGitCall \in GitCallType /\ NoGitCall.pc = "idle" /\ GitCallOK(NoGitCall, commits, logCap)
  BY DEF NoGitCall, GitCallType, GitCallOK
<1> HIDE DEF NoGitCall
<1> QED
  BY <1>1, GitAssumption DEF GitInit, GitInv

\* A step of one call.
LEMMA GitMoves ==
    ASSUME GitInv, NEW c \in GitCaller, NEW x \in GitCallType,
           gcall' = [gcall EXCEPT ![c] = x], UNCHANGED <<commits, matching, logCap>>,
           GitCallOK(x, commits, logCap)
    PROVE  GitInv'
<1>1. gcall' \in [GitCaller -> GitCallType]
  BY DEF GitInv
<1>2. \A k \in GitCaller : gcall'[k] = IF k = c THEN x ELSE gcall[k]
  BY DEF GitInv
<1>3. \A k \in GitCaller : GitCallOK(gcall'[k], commits, logCap)
  BY <1>2 DEF GitInv
<1> QED
  BY <1>1, <1>3 DEF GitInv

\* git log prints as many commits as it was asked for, or all.
LEMMA LogLinesShape ==
    ASSUME NEW n \in Nat, commits \in Nat
    PROVE  /\ LogLines(n) \in Seq(Int) /\ Len(LogLines(n)) <= n
           /\ InARow(LogLines(n), commits)
<1> DEFINE m == Least(n, commits)
           s == [k \in 1 .. m |-> commits + 1 - k]
<1>1. m \in Nat /\ m <= n
  BY DEF Least
<1> HIDE DEF m
<1>2. s \in [1 .. m -> Int]
  OBVIOUS
<1>3. s \in Seq(Int)
  BY <1>1, <1>2, SeqDef
<1>4. Len(s) = m
  BY <1>1, <1>2, <1>3, LenProperties
<1>5. \A k \in 1 .. m : s[k] = s[1] + 1 - k /\ s[k] <= commits
  BY <1>1
<1> QED
  BY <1>1, <1>3, <1>4, <1>5 DEF LogLines, InARow, m

LEMMA GitStartsKeeps ==
    ASSUME GitInv, NEW c \in GitCaller, GitStarts(c)
    PROVE  GitInv'
<1> DEFINE call == gcall[c]
           exit == IF call.tool = "log" /\ call.count < 0 THEN 128
                   ELSE IF call.tool = "search" /\ ~matching THEN 1 ELSE 0
           want == IF exit # 0 THEN <<>> ELSE IF call.tool = "log" THEN LogLines(call.count)
                                              ELSE <<commits>>
<1>0. /\ call \in GitCallType /\ GitCallOK(call, commits, logCap) /\ call.pc = "run"
      /\ commits \in Nat /\ logCap \in (Nat \ {0}) \cup {Unset}
      /\ UNCHANGED <<commits, matching, logCap>>
  BY GitAssumption DEF GitInv, GitStarts, GitAt
<1>1. PICK n \in 0 .. Len(want), helper \in BOOLEAN :
         gcall' = [gcall EXCEPT ![c].pc = "running", ![c].want = want,
                      ![c].out = SubSeq(want, 1, n), ![c].exit = exit, ![c].helper = helper]
  BY DEF GitStarts
<1>2. exit \in {0, 1, 128} /\ (exit = 0 /\ call.tool = "log" => call.count \in Nat)
  BY <1>0 DEF GitCallType
<1>3. call.tool = "log" => logCap \in Nat /\ call.count <= logCap
  BY <1>0 DEF GitCallOK
<1>4. want \in Seq(Int)
  <2>1. CASE exit # 0
    BY <2>1
  <2>2. CASE exit = 0 /\ call.tool = "log"
    <3>1. want = LogLines(call.count) /\ call.count \in Nat
      BY <1>2, <2>2
    <3> QED
      BY <1>0, <3>1, LogLinesShape
  <2>3. CASE exit = 0 /\ call.tool # "log"
    BY <1>0, <2>3
  <2> QED
    BY <2>1, <2>2, <2>3
<1>5. exit = 0 /\ call.tool = "log" => InARow(want, commits) /\ Len(want) <= logCap
  <2>1. SUFFICES ASSUME exit = 0, call.tool = "log"
                 PROVE  InARow(want, commits) /\ Len(want) <= logCap
    OBVIOUS
  <2>2. want = LogLines(call.count)
    BY <2>1
  <2>3. call.count \in Nat /\ call.count <= logCap /\ logCap \in Nat
    BY <1>2, <1>3, <2>1
  <2>4. Len(want) \in Nat
    BY <1>4, LenProperties
  <2> HIDE DEF want, exit
  <2>5. InARow(want, commits) /\ Len(want) <= call.count
    BY <1>0, <2>2, <2>3, LogLinesShape
  <2> QED
    BY <2>3, <2>4, <2>5
<1> DEFINE out == SubSeq(want, 1, n)
<1>6. out \in Seq(Int)
  <2>1. Len(want) \in Nat /\ \A i \in 1 .. Len(want) : want[i] \in Int
    BY <1>4, ElementOfSeq, LenProperties
  <2> HIDE DEF want
  <2>2. n \in Int /\ \A i \in 1 .. n : want[i] \in Int
    BY <2>1
  <2> QED
    BY <2>2, SubSeqProperties
<1> HIDE DEF call, exit, want, out
<1> DEFINE x == [call EXCEPT !.pc = "running", !.want = want, !.out = out, !.exit = exit,
                             !.helper = helper]
<1>7. gcall' = [gcall EXCEPT ![c] = x]
  BY <1>1 DEF call, out
<1>8. x = [call EXCEPT !.pc = "running", !.want = want, !.out = out, !.exit = exit,
                       !.helper = helper]
  OBVIOUS
<1> HIDE DEF x
<1>9. /\ x \in GitCallType /\ x.pc = "running" /\ x.tool = call.tool /\ x.count = call.count
      /\ x.want = want /\ x.exit = exit
  BY <1>0, <1>2, <1>4, <1>6, <1>8 DEF GitCallType
<1>10. GitCallOK(x, commits, logCap)
  BY <1>0, <1>5, <1>9 DEF GitCallOK
<1> QED
  BY <1>0, <1>7, <1>9, <1>10, GitMoves

LEMMA RunKeeps ==
    ASSUME GitInv, NEW c \in GitCaller, NEW tool \in {"log", "search", "plain"},
           NEW n \in Int, tool = "log" => n <= logCap, Run(c, tool, n)
    PROVE  GitInv'
<1> DEFINE x == [NoGitCall EXCEPT !.pc = "run", !.tool = tool, !.count = n]
<1>1. gcall' = [gcall EXCEPT ![c] = x] /\ logCap # Unset /\ UNCHANGED <<commits, matching, logCap>>
  BY DEF Run
<1>e. x = [NoGitCall EXCEPT !.pc = "run", !.tool = tool, !.count = n]
  OBVIOUS
<1> HIDE DEF x
<1>2. /\ x \in GitCallType /\ x.pc = "run" /\ x.tool = tool /\ x.count = n
  <2>1. NoGitCall \in GitCallType
    BY DEF NoGitCall, GitCallType
  <2> QED
    BY <1>e, <2>1 DEF GitCallType
<1>3. GitCallOK(x, commits, logCap)
  BY <1>1, <1>2 DEF GitCallOK
<1> QED
  BY <1>1, <1>2, <1>3, GitMoves

LEMMA GitKeeps == GitInv /\ [GitNext]_gvars => GitInv'
<1> SUFFICES ASSUME GitInv, [GitNext]_gvars PROVE GitInv'
  OBVIOUS
<1>1. CASE InitGit
  <2>1. /\ logCap = Unset /\ UNCHANGED <<commits, matching, gcall>>
        /\ logCap' \in Nat \ {0}
    BY <1>1, GitAssumption DEF InitGit, Cap
  <2>2. \A c \in GitCaller : gcall[c].pc = "idle"
    BY <2>1 DEF GitInv, GitCallOK
  <2>3. \A c \in GitCaller : GitCallOK(gcall[c], commits, logCap')
    BY <2>2 DEF GitCallOK
  <2> QED
    BY <2>1, <2>3 DEF GitInv
<1>2. CASE RepoChanges
  <2>1. /\ commits' \in 1 .. MaxCommits /\ commits \in Nat /\ commits' \in Nat /\ commits <= commits'
        /\ matching' \in BOOLEAN /\ UNCHANGED <<logCap, gcall>>
    <3>1. commits \in 1 .. MaxCommits /\ matching \in BOOLEAN /\ MaxCommits \in Nat
      BY GitAssumption DEF GitInv
    <3>2. CASE commits < MaxCommits /\ commits' = commits + 1 /\ UNCHANGED <<matching, logCap, gcall>>
      BY <3>1, <3>2
    <3>3. CASE matching' = ~matching /\ UNCHANGED <<commits, logCap, gcall>>
      BY <3>1, <3>3
    <3> QED
      BY <1>2, <3>2, <3>3 DEF RepoChanges
  <2>2. ASSUME NEW c \in GitCaller PROVE GitCallOK(gcall[c], commits', logCap)
    <3> DEFINE call == gcall[c]
    <3>1. call \in GitCallType /\ GitCallOK(call, commits, logCap)
      BY DEF GitInv
    <3>2. \A k \in DOMAIN call.want : call.want[k] \in Int
      BY <3>1, ElementOfSeq, LenProperties DEF GitCallType
    <3> HIDE DEF call
    <3>3. InARow(call.want, commits) => InARow(call.want, commits')
      BY <2>1, <3>2 DEF InARow
    <3> QED
      BY <3>1, <3>3 DEF GitCallOK, call
  <2> QED
    BY <2>1, <2>2 DEF GitInv
<1>3. CASE UNCHANGED gvars
  BY <1>3 DEF gvars, GitInv
<1>4. ASSUME NEW c \in GitCaller, RunLog(c) \/ RunSearch(c) \/ RunPlain(c) PROVE GitInv'
  <2>1. CASE RunSearch(c) \/ RunPlain(c)
    BY <2>1, RunKeeps DEF RunSearch, RunPlain
  <2>2. CASE RunLog(c)
    <3>1. PICK m \in Counts : Run(c, "log", Asked(m))
      BY <2>2 DEF RunLog
    <3>2. logCap \in Nat
      BY <3>1 DEF Run, GitInv
    <3>3. Asked(m) \in Int /\ Asked(m) <= logCap
      BY <3>2, GitAssumption DEF Asked, Least
    <3> QED
      BY <3>1, <3>3, RunKeeps
  <2> QED
    BY <1>4, <2>1, <2>2
<1>5. ASSUME NEW c \in GitCaller,
             GitExits(c) \/ HelperEnds(c) \/ Deadline(c) \/ Answer(c) \/ Leave(c)
      PROVE  GitInv'
  <2> DEFINE call == gcall[c]
  <2>0. call \in GitCallType /\ GitCallOK(call, commits, logCap)
    BY DEF GitInv
  <2>1. CASE GitExits(c)
    <3> DEFINE x == [call EXCEPT !.pc = "exited", !.out = call.want]
    <3>1. /\ call.pc = "running" /\ gcall' = [gcall EXCEPT ![c] = x]
          /\ x = [call EXCEPT !.pc = "exited", !.out = call.want]
          /\ UNCHANGED <<commits, matching, logCap>>
      BY <2>1 DEF GitExits, GitAt
    <3> HIDE DEF call, x
    <3>2. /\ x \in GitCallType /\ x.pc = "exited" /\ x.tool = call.tool /\ x.count = call.count
          /\ x.want = call.want /\ x.exit = call.exit /\ x.out = call.want
      BY <2>0, <3>1 DEF GitCallType
    <3>3. GitCallOK(x, commits, logCap)
      BY <2>0, <3>1, <3>2 DEF GitCallOK
    <3> QED
      BY <3>1, <3>2, <3>3, GitMoves
  <2>2. CASE HelperEnds(c)
    <3> DEFINE x == [call EXCEPT !.helper = FALSE]
    <3>1. /\ gcall' = [gcall EXCEPT ![c] = x] /\ x = [call EXCEPT !.helper = FALSE]
          /\ UNCHANGED <<commits, matching, logCap>>
      BY <2>2 DEF HelperEnds
    <3> HIDE DEF call, x
    <3>2. /\ x \in GitCallType /\ x.pc = call.pc /\ x.tool = call.tool /\ x.count = call.count
          /\ x.want = call.want /\ x.exit = call.exit /\ x.out = call.out /\ x.ok = call.ok
      BY <2>0, <3>1 DEF GitCallType
    <3>3. GitCallOK(x, commits, logCap)
      BY <2>0, <3>2 DEF GitCallOK
    <3> QED
      BY <3>1, <3>2, <3>3, GitMoves
  <2>3. CASE Deadline(c)
    <3> DEFINE x == [call EXCEPT !.pc = "exited", !.exit = -1]
    <3>1. /\ call.pc \in {"run", "running"} /\ gcall' = [gcall EXCEPT ![c] = x]
          /\ x = [call EXCEPT !.pc = "exited", !.exit = -1]
          /\ UNCHANGED <<commits, matching, logCap>>
      BY <2>3 DEF Deadline
    <3> HIDE DEF call, x
    <3>2. /\ x \in GitCallType /\ x.pc = "exited" /\ x.tool = call.tool /\ x.count = call.count
          /\ x.exit = -1
      BY <2>0, <3>1 DEF GitCallType
    <3>3. GitCallOK(x, commits, logCap)
      BY <2>0, <3>1, <3>2 DEF GitCallOK
    <3> QED
      BY <3>1, <3>2, <3>3, GitMoves
  <2>4. CASE Answer(c)
    <3> DEFINE ok == Returns(call)
               x == [call EXCEPT !.pc = "answered", !.ok = ok]
    <3>1. /\ call.pc = "exited" /\ gcall' = [gcall EXCEPT ![c] = x]
          /\ x = [call EXCEPT !.pc = "answered", !.ok = ok]
          /\ UNCHANGED <<commits, matching, logCap>>
      BY <2>4 DEF Answer, GitAt
    <3>2. ok \in BOOLEAN /\ (ok => call.exit = 0)
      BY DEF Returns
    <3> HIDE DEF call, x, ok
    <3>3. /\ x \in GitCallType /\ x.pc = "answered" /\ x.tool = call.tool /\ x.count = call.count
          /\ x.want = call.want /\ x.exit = call.exit /\ x.out = call.out /\ x.ok = ok
      BY <2>0, <3>1, <3>2 DEF GitCallType
    <3>4. GitCallOK(x, commits, logCap)
      BY <2>0, <3>1, <3>2, <3>3 DEF GitCallOK
    <3> QED
      BY <3>1, <3>3, <3>4, GitMoves
  <2>5. CASE Leave(c)
    <3>1. NoGitCall \in GitCallType /\ GitCallOK(NoGitCall, commits, logCap)
      BY DEF NoGitCall, GitCallType, GitCallOK
    <3>2. gcall' = [gcall EXCEPT ![c] = NoGitCall] /\ UNCHANGED <<commits, matching, logCap>>
      BY <2>5 DEF Leave
    <3> QED
      BY <3>1, <3>2, GitMoves
  <2> QED
    BY <1>5, <2>1, <2>2, <2>3, <2>4, <2>5
<1>6. ASSUME NEW c \in GitCaller, GitStarts(c) PROVE GitInv'
  BY <1>6, GitStartsKeeps
<1> QED
  BY <1>1, <1>2, <1>3, <1>4, <1>5, <1>6 DEF GitNext, GitCallStep

LEMMA GitShown == GitInv => GitTypeOK /\ LogIsCapped /\ NothingTorn
<1> SUFFICES ASSUME GitInv PROVE GitTypeOK /\ LogIsCapped /\ NothingTorn
  OBVIOUS
<1>1. GitTypeOK
  BY DEF GitInv, GitTypeOK, GitCallType
<1>2. NothingTorn
  BY DEF GitInv, NothingTorn, GitCallOK
<1>3. LogIsCapped
  BY DEF GitInv, LogIsCapped, GitCallOK, Answered, GitAt, InARow
<1> QED
  BY <1>1, <1>2, <1>3

-----------------------------------------------------------------------------
(* fetch: the headers of a request, and the cut of its answer. *)

Setters == {"nobody", "config", "call", "auth", "body"}
FetchType == [pc : {"idle", "waiting", "body", "answered"}, body : Body,
              set : [Header -> Setters], key : BOOLEAN, sent : Body, length : 0 .. MaxBody,
              read : 0 .. MaxBody, truncated : BOOLEAN]

FetchCfgOK == fetchCfg # NoAnswer => /\ fetchCfg.max \in 1 .. MaxInt /\ fetchCfg.auth \in Auth
                                     /\ fetchCfg.headers \subseteq Header

FetchInv == /\ FetchCfgOK
            /\ fetch \in FetchType
            /\ fetch.pc # "idle" => fetchCfg # NoAnswer
            /\ AuthWins /\ CutIsMarked

LEMMA FetchStarts == FetchInit => FetchInv
<1> SUFFICES ASSUME FetchInit PROVE FetchInv
  OBVIOUS
<1>1. NoFetch \in FetchType /\ NoFetch.pc = "idle"
  BY FetchAssumption DEF NoFetch, FetchType, Body, Setters
<1>2. fetch = NoFetch /\ fetchCfg = NoAnswer
  BY DEF FetchInit
<1> HIDE DEF NoFetch
<1> QED
  BY <1>1, <1>2 DEF FetchInv, FetchCfgOK, AuthWins, CutIsMarked

\* Whatever a call gives, what the instance has for authentication goes over it.
LEMMA HeadersShape ==
    ASSUME NEW hs \in SUBSET Header, NEW body \in Body
    PROVE  /\ Headers(hs, body) \in [Header -> Setters]
           /\ fetchCfg.auth \in {"bearer", "basic"} => Headers(hs, body)["Authorization"] = "auth"
           /\ fetchCfg.auth = "apiKey header" => Headers(hs, body)["X-Key"] = "auth"
           /\ Decoded(body) = "base64" => Headers(hs, body)["Content-Type"] = "body"
<1> DEFINE given(h) == IF h \in hs THEN "call"
                       ELSE IF h \in fetchCfg.headers THEN "config" ELSE "nobody"
           auth == [h \in Header |-> AuthHeader(h, given(h))]
           ct == IF Decoded(body) = "base64" THEN "body"
                 ELSE IF Decoded(body) = "text" /\ auth["Content-Type"] = "nobody" THEN "body"
                 ELSE auth["Content-Type"]
<1>1. \A h \in Header : AuthHeader(h, given(h)) \in Setters
  BY DEF AuthHeader, Setters
<1>2. auth \in [Header -> Setters]
  BY <1>1
<1>3. /\ fetchCfg.auth \in {"bearer", "basic"} => auth["Authorization"] = "auth"
      /\ fetchCfg.auth = "apiKey header" => auth["X-Key"] = "auth"
  BY DEF AuthHeader, Header
<1>4. Headers(hs, body) = [auth EXCEPT !["Content-Type"] = ct]
  BY DEF Headers
<1>5. "Content-Type" \in Header
  BY DEF Header
<1>7. Decoded(body) = "base64" => ct = "body"
  OBVIOUS
<1> HIDE DEF auth
<1>6. ct \in Setters
  BY <1>2, <1>5 DEF Setters
<1> DEFINE H == Headers(hs, body)
<1>8. H = [auth EXCEPT !["Content-Type"] = ct]
  BY <1>4
<1> HIDE DEF ct, H
<1>9. /\ H \in [Header -> Setters] /\ H["Content-Type"] = ct
      /\ H["Authorization"] = auth["Authorization"] /\ H["X-Key"] = auth["X-Key"]
  BY <1>2, <1>5, <1>6, <1>8 DEF Header
<1>10. /\ fetchCfg.auth \in {"bearer", "basic"} => H["Authorization"] = "auth"
       /\ fetchCfg.auth = "apiKey header" => H["X-Key"] = "auth"
       /\ Decoded(body) = "base64" => H["Content-Type"] = "body"
  BY <1>3, <1>7, <1>9
<1> QED
  BY <1>9, <1>10 DEF H

\* What is read of a body, and whether it counts as cut short.
LEMMA ReadShape ==
    ASSUME NEW max \in 1 .. MaxInt, NEW length \in 0 .. MaxBody, NEW n,
           LET limit == ReadLimit(max)
           IN  n = IF limit <= 0 THEN 0 ELSE IF length < limit THEN length ELSE limit
    PROVE  /\ n \in 0 .. MaxBody
           /\ n >= ReadLimit(max) <=> length > max \/ max = MaxInt
           /\ n < length => n >= ReadLimit(max)
           /\ n <= max + 1
BY FetchAssumption DEF ReadLimit, Narrow

LEMMA FetchKeeps == FetchInv /\ [FetchNext]_hvars => FetchInv'
<1> SUFFICES ASSUME FetchInv, [FetchNext]_hvars PROVE FetchInv'
  OBVIOUS
<1>0. NoFetch \in FetchType /\ NoFetch.pc = "idle"
  BY FetchAssumption DEF NoFetch, FetchType, Body, Setters
<1>1. CASE InitFetch
  <2>1. /\ fetchCfg = NoAnswer /\ UNCHANGED fetch /\ fetch.pc = "idle"
    BY <1>1 DEF InitFetch, FetchInv
  <2>2. PICK n \in MaxConfig, auth \in Auth, hs \in SUBSET Header :
           fetchCfg' = [max |-> Cut(n), auth |-> auth, headers |-> hs]
    BY <1>1 DEF InitFetch
  <2>3. Cut(n) \in 1 .. MaxInt
    BY FetchAssumption DEF Cut
  <2>4. FetchCfgOK'
    BY <2>2, <2>3 DEF FetchCfgOK
  <2> QED
    BY <2>1, <2>4 DEF FetchInv, AuthWins, CutIsMarked
<1>2. CASE Send
  <2>1. /\ fetchCfg # NoAnswer /\ UNCHANGED fetchCfg
    BY <1>2 DEF Send
  <2>2. PICK hs \in SUBSET Header, body \in Body :
           fetch' = [NoFetch EXCEPT !.pc = "waiting", !.body = body,
                       !.set = Headers(hs, body), !.sent = Decoded(body),
                       !.key = fetchCfg.auth = "apiKey query"]
    BY <1>2 DEF Send
  <2> DEFINE set == Headers(hs, body)
             sent == Decoded(body)
             key == fetchCfg.auth = "apiKey query"
  <2>3. /\ set \in [Header -> Setters] /\ sent \in Body /\ key \in BOOLEAN
        /\ fetchCfg.auth \in {"bearer", "basic"} => set["Authorization"] = "auth"
        /\ fetchCfg.auth = "apiKey header" => set["X-Key"] = "auth"
        /\ sent = "base64" => set["Content-Type"] = "body"
    BY HeadersShape DEF Decoded, Body
  <2>k. fetchCfg.auth = "apiKey query" => key
    OBVIOUS
  <2>4. fetch' = [NoFetch EXCEPT !.pc = "waiting", !.body = body, !.set = set,
                                 !.sent = sent, !.key = key]
    BY <2>2
  <2> HIDE DEF set, sent, key
  <2>5. /\ fetch' \in FetchType /\ fetch'.pc = "waiting" /\ fetch'.set = set
        /\ fetch'.sent = sent /\ fetch'.key = key
    BY <1>0, <2>3, <2>4 DEF FetchType
  <2>6. AuthWins'
    BY <2>1, <2>3, <2>k, <2>5 DEF AuthWins
  <2> QED
    BY <2>1, <2>5, <2>6 DEF FetchInv, FetchCfgOK, CutIsMarked
<1>3. CASE Upstream
  <2>1. PICK n \in 0 .. MaxBody : fetch' = [fetch EXCEPT !.pc = "body", !.length = n]
    BY <1>3 DEF Upstream
  <2>2. fetch.pc = "waiting" /\ UNCHANGED fetchCfg
    BY <1>3 DEF Upstream
  <2>3. /\ fetch' \in FetchType /\ fetch'.pc = "body" /\ fetch'.set = fetch.set
        /\ fetch'.sent = fetch.sent /\ fetch'.key = fetch.key
    BY <2>1 DEF FetchType, FetchInv
  <2> QED
    BY <2>2, <2>3 DEF FetchInv, FetchCfgOK, AuthWins, CutIsMarked
<1>4. CASE ReadBody
  <2> DEFINE limit == ReadLimit(fetchCfg.max)
             n == IF limit <= 0 THEN 0
                  ELSE IF fetch.length < limit THEN fetch.length ELSE limit
             cut == n >= limit
  <2>1. /\ fetch.pc = "body" /\ UNCHANGED fetchCfg /\ fetchCfg # NoAnswer
        /\ fetch' = [fetch EXCEPT !.pc = "answered", !.read = n, !.truncated = cut]
    BY <1>4 DEF ReadBody, FetchInv
  <2>2. fetchCfg.max \in 1 .. MaxInt /\ fetch.length \in 0 .. MaxBody
    BY <2>1 DEF FetchInv, FetchCfgOK, FetchType
  <2>3. /\ n \in 0 .. MaxBody
        /\ cut <=> fetch.length > fetchCfg.max \/ fetchCfg.max = MaxInt
        /\ n < fetch.length => cut
        /\ n <= fetchCfg.max + 1
    BY <2>2, ReadShape
  <2>4. cut \in BOOLEAN
    OBVIOUS
  <2> HIDE DEF n, cut
  <2>5. /\ fetch' \in FetchType /\ fetch'.pc = "answered" /\ fetch'.set = fetch.set
        /\ fetch'.sent = fetch.sent /\ fetch'.key = fetch.key /\ fetch'.read = n
        /\ fetch'.truncated = cut /\ fetch'.length = fetch.length
    BY <2>1, <2>3, <2>4 DEF FetchType, FetchInv
  <2>6. CutIsMarked'
    BY <2>1, <2>3, <2>5 DEF CutIsMarked
  <2> QED
    BY <2>1, <2>5, <2>6 DEF FetchInv, FetchCfgOK, AuthWins
<1>5. CASE FetchStep
  <2>1. fetch' = NoFetch /\ UNCHANGED fetchCfg
    BY <1>5 DEF FetchStep, GiveUp, Done
  <2> HIDE DEF NoFetch
  <2> QED
    BY <1>0, <2>1 DEF FetchInv, FetchCfgOK, AuthWins, CutIsMarked
<1>6. CASE UNCHANGED hvars
  BY <1>6 DEF hvars, FetchInv, FetchCfgOK, AuthWins, CutIsMarked
<1> QED
  BY <1>1, <1>2, <1>3, <1>4, <1>5, <1>6 DEF FetchNext

LEMMA FetchShown == FetchInv => FetchTypeOK /\ AuthWins /\ CutIsMarked
BY DEF FetchInv, FetchCfgOK, FetchTypeOK, FetchType, Setters

-----------------------------------------------------------------------------
(* swagger: the first operation of a name. *)

\* The operations as collected: each one once, all of them, by path.
LEMMA CollectedShape ==
    ASSUME NEW s \in Collected
    PROVE  /\ s \in [1 .. Cardinality(Op) -> Op] /\ Cardinality(Op) \in Nat
           /\ Len(s) = Cardinality(Op) /\ s # <<>>
           /\ \A o \in Op : \E i \in 1 .. Cardinality(Op) : s[i] = o
           /\ \A i, j \in 1 .. Cardinality(Op) : i < j => PathRank[s[i]] <= PathRank[s[j]]
<1> DEFINE n == Cardinality(Op)
<1>1. n \in Nat /\ n # 0
  BY SwaggerAssumption, FS_CardinalityType, FS_EmptySet
<1>2. /\ s \in [1 .. n -> Op] /\ \A i, j \in 1 .. n : i # j => s[i] # s[j]
      /\ \A i, j \in 1 .. n : i < j => PathRank[s[i]] <= PathRank[s[j]]
  BY DEF Collected, SetToSeqs
<1>3. IsFiniteSet(1 .. n) /\ Cardinality(1 .. n) = n
  BY <1>1, FS_Interval
<1>4. s \in Injection(1 .. n, Op)
  BY <1>2 DEF Injection, IsInjective
<1>5. s \in Surjection(1 .. n, Op)
  BY <1>3, <1>4, FS_Injection, SwaggerAssumption
<1>6. \A o \in Op : \E i \in 1 .. n : s[i] = o
  BY <1>5 DEF Surjection
<1>7. s \in Seq(Op)
  BY <1>1, <1>2, SeqDef
<1>8. Len(s) = n /\ s # <<>>
  BY <1>1, <1>2, <1>7, LenProperties, EmptySeq
<1> QED
  BY <1>1, <1>2, <1>6, <1>8

\* What FirstNamed finds: an operation of this name, and no other of the name
\* comes before it.
LEMMA FirstNamedShape ==
    ASSUME NEW s \in Collected, NEW n \in Name
    PROVE  \E i \in 1 .. Cardinality(Op) :
              /\ FirstNamed(s, n) = s[i] /\ ToolName[s[i]] = n
              /\ \A j \in 1 .. Cardinality(Op) : ToolName[s[j]] = n => i <= j
<1> DEFINE I == {j \in 1 .. Len(s) : ToolName[s[j]] = n}
<1>1. I # {} /\ I \in SUBSET Nat /\ Len(s) = Cardinality(Op)
  BY CollectedShape DEF Name
<1>2. Min(I) \in I /\ \A j \in I : Min(I) <= j
  BY <1>1, MinOfNats
<1>3. FirstNamed(s, n) = s[Min(I)]
  BY <1>1 DEF FirstNamed, SelectInSeq
<1> QED
  BY <1>1, <1>2, <1>3

\* Whatever order the methods of a path come in, a name is the same operation.
LEMMA SameFirst ==
    ASSUME NEW s \in Collected, NEW t \in Collected, NEW n \in Name
    PROVE  FirstNamed(s, n) = FirstNamed(t, n)
<1>1. PICK i \in 1 .. Cardinality(Op) :
         /\ FirstNamed(s, n) = s[i] /\ ToolName[s[i]] = n
         /\ \A j \in 1 .. Cardinality(Op) : ToolName[s[j]] = n => i <= j
  BY FirstNamedShape
<1>2. PICK k \in 1 .. Cardinality(Op) :
         /\ FirstNamed(t, n) = t[k] /\ ToolName[t[k]] = n
         /\ \A j \in 1 .. Cardinality(Op) : ToolName[t[j]] = n => k <= j
  BY FirstNamedShape
<1>3. /\ s[i] \in Op /\ t[k] \in Op /\ PathRank[s[i]] \in Nat /\ PathRank[t[k]] \in Nat
  BY CollectedShape, SwaggerAssumption
<1>4. PathRank[s[i]] <= PathRank[t[k]]
  <2>1. PICK j \in 1 .. Cardinality(Op) : s[j] = t[k]
    BY <1>3, CollectedShape
  <2>2. i <= j
    BY <1>1, <1>2, <2>1
  <2> QED
    BY <1>3, <2>1, <2>2, CollectedShape
<1>5. PathRank[t[k]] <= PathRank[s[i]]
  <2>1. PICK j \in 1 .. Cardinality(Op) : t[j] = s[i]
    BY <1>3, CollectedShape
  <2>2. k <= j
    BY <1>1, <1>2, <2>1
  <2> QED
    BY <1>3, <2>1, <2>2, CollectedShape
<1>6. PathRank[s[i]] = PathRank[t[k]]
  BY <1>3, <1>4, <1>5
<1>7. s[i] = t[k]
  BY <1>1, <1>2, <1>3, <1>6, SwaggerAssumption
<1> QED
  BY <1>1, <1>2, <1>7

-----------------------------------------------------------------------------
(* swagger: who has the mutex, and how many calls the limiter let pass. *)

SwagCallType == [pc : {"idle", "lock", "http", "health"}, op : Op \cup {Free},
                 name : Name \cup {Free}, given : BOOLEAN]

SwagCallOK(call, c, o, who) ==
    /\ call.pc # "idle" => o # <<>>
    /\ call.pc \in {"lock", "http"} => call.name \in Name
    /\ call.pc = "http" => /\ who = c /\ call.op = FirstNamed(o, call.name)
                           /\ call.op \in Needy => call.given

\* The calls of the last t ticks were paid for: by the bucket, as full as it
\* can be, and by the refills in between.
PaidFor(w, left, rate) ==
    /\ w \in [1 .. Ticks -> Nat] /\ rate \in Nat /\ left \in Nat /\ left <= rate * Ticks
    /\ rate > 0 => \A t \in 1 .. Ticks :
                      w[t] * Ticks + left <= rate * Ticks + (t - 1) * rate

SwagInv ==
    /\ ops \in {<<>>} \cup Collected
    /\ owner \in SwagCaller \cup {Free}
    /\ scall \in [SwagCaller -> SwagCallType]
    /\ \A c \in SwagCaller : SwagCallOK(scall[c], c, ops, owner)
    /\ PaidFor(window, tokens, perMin)

LEMMA QuietIsPaid == ASSUME NEW rate \in Nat PROVE PaidFor(Quiet, rate * Ticks, rate)
<1>1. rate * Ticks \in Nat
  BY SwaggerAssumption
<1>2. \A t \in 1 .. Ticks : (t - 1) * rate >= 0 /\ 0 * Ticks = 0
  BY SwaggerAssumption
<1> QED
  BY <1>1, <1>2, SwaggerAssumption DEF PaidFor, Quiet

\* A tick.
LEMMA TickIsPaid ==
    ASSUME NEW w, NEW left, NEW rate, PaidFor(w, left, rate)
    PROVE  PaidFor([t \in 1 .. Ticks |-> IF t = 1 THEN 0 ELSE w[t - 1]],
                   Lowest(left + rate, rate * Ticks), rate)
<1> DEFINE v == [t \in 1 .. Ticks |-> IF t = 1 THEN 0 ELSE w[t - 1]]
           full == rate * Ticks
           now == Lowest(left + rate, full)
<1>1. w \in [1 .. Ticks -> Nat] /\ rate \in Nat /\ left \in Nat /\ Ticks \in Nat
  BY SwaggerAssumption DEF PaidFor
<1>2. full \in Nat
  BY <1>1
<1>3. now \in Nat /\ now <= full /\ now <= left + rate
  BY <1>1, <1>2 DEF Lowest
<1>4. v \in [1 .. Ticks -> Nat]
  BY <1>1
<1>5. ASSUME rate > 0, NEW t \in 1 .. Ticks
      PROVE  v[t] * Ticks + now <= full + (t - 1) * rate
  <2>1. CASE t = 1
    <3>1. v[t] = 0 /\ (t - 1) * rate = 0
      BY <1>1, <2>1
    <3> HIDE DEF v, now, full
    <3> QED
      BY <1>1, <1>2, <1>3, <3>1
  <2>2. CASE t # 1
    <3> DEFINE spent == w[t - 1] * Ticks
               late == (t - 1 - 1) * rate
    <3>1. t - 1 \in 1 .. Ticks /\ v[t] = w[t - 1] /\ w[t - 1] \in Nat
      BY <1>1, <2>2
    <3>2. spent + left <= full + late
      BY <1>5, <3>1 DEF PaidFor
    <3>3. (t - 1) * rate = late + rate
      BY <1>1
    <3>4. spent \in Nat /\ late \in Int
      BY <1>1, <3>1
    <3>5. v[t] * Ticks = spent
      BY <3>1
    <3> HIDE DEF v, now, full, spent, late
    <3> QED
      BY <1>1, <1>2, <1>3, <3>2, <3>3, <3>4, <3>5
  <2> QED
    BY <2>1, <2>2
<1> HIDE DEF v, now
<1>6. PaidFor(v, now, rate)
  BY <1>1, <1>3, <1>4, <1>5 DEF PaidFor
<1> QED
  BY <1>6 DEF v, now

\* A call that the limiter lets pass.
LEMMA CallIsPaid ==
    ASSUME NEW w, NEW left, NEW rate, PaidFor(w, left, rate), left >= Ticks
    PROVE  PaidFor([t \in 1 .. Ticks |-> w[t] + 1], left - Ticks, rate)
<1> DEFINE v == [t \in 1 .. Ticks |-> w[t] + 1]
           full == rate * Ticks
<1>1. /\ w \in [1 .. Ticks -> Nat] /\ rate \in Nat /\ left \in Nat /\ Ticks \in Nat
      /\ left <= full /\ full \in Nat
  BY SwaggerAssumption DEF PaidFor
<1>2. v \in [1 .. Ticks -> Nat]
  BY <1>1
<1>3. ASSUME rate > 0, NEW t \in 1 .. Ticks
      PROVE  v[t] * Ticks + (left - Ticks) <= full + (t - 1) * rate
  <2> DEFINE spent == w[t] * Ticks
             late == (t - 1) * rate
  <2>1. v[t] * Ticks = spent + Ticks
    BY <1>1
  <2>2. spent + left <= full + late
    BY <1>3 DEF PaidFor
  <2>3. spent \in Nat /\ late \in Int /\ (t - 1) * rate = late
    BY <1>1
  <2> HIDE DEF v, spent, late, full
  <2> QED
    BY <1>1, <2>1, <2>2, <2>3
<1>4. left - Ticks \in Nat /\ left - Ticks <= full
  BY <1>1
<1> HIDE DEF v
<1>5. PaidFor(v, left - Ticks, rate)
  BY <1>1, <1>2, <1>3, <1>4 DEF PaidFor
<1> QED
  BY <1>5 DEF v

LEMMA Divide ==
    ASSUME NEW m \in Nat, NEW n \in Nat, NEW k \in Nat \ {0}, m * k <= n * k
    PROVE  m <= n
<1> SUFFICES ASSUME m > n PROVE FALSE
  OBVIOUS
<1> DEFINE more == m - n - 1
<1>1. more \in Nat /\ m = n + 1 + more
  OBVIOUS
<1> HIDE DEF more
<1>2. m * k = n * k + k + more * k
  BY <1>1
<1>3. more * k \in Nat /\ n * k \in Nat
  BY <1>1
<1> QED
  BY <1>2, <1>3

LEMMA SwagStarts == SwaggerInit => SwagInv
<1> SUFFICES ASSUME SwaggerInit PROVE SwagInv
  OBVIOUS
<1>1. NoSwag \in SwagCallType /\ NoSwag.pc = "idle"
  BY DEF NoSwag, SwagCallType
<1>2. PaidFor(Quiet, 0, 0)
  <2>1. 0 * Ticks = 0
    BY SwaggerAssumption
  <2> QED
    BY <2>1, QuietIsPaid
<1> HIDE DEF NoSwag
<1> QED
  BY <1>1, <1>2 DEF SwaggerInit, SwagInv, SwagCallOK

\* A step of one call.
LEMMA SwagMoves ==
    ASSUME SwagInv, NEW c \in SwagCaller, NEW x \in SwagCallType,
           scall' = [scall EXCEPT ![c] = x], UNCHANGED <<ops, perMin>>,
           owner' \in SwagCaller \cup {Free},
           \A k \in SwagCaller \ {c} : scall[k].pc = "http" => owner' = owner,
           PaidFor(window', tokens', perMin), SwagCallOK(x, c, ops, owner')
    PROVE  SwagInv'
<1>1. scall' \in [SwagCaller -> SwagCallType]
  BY DEF SwagInv
<1>2. \A k \in SwagCaller : scall'[k] = IF k = c THEN x ELSE scall[k]
  BY DEF SwagInv
<1>3. \A k \in SwagCaller : SwagCallOK(scall'[k], k, ops, owner')
  <2> SUFFICES ASSUME NEW k \in SwagCaller PROVE SwagCallOK(scall'[k], k, ops, owner')
    OBVIOUS
  <2>1. CASE k = c
    BY <1>2, <2>1
  <2>2. CASE k # c
    <3>1. scall'[k] = scall[k] /\ SwagCallOK(scall[k], k, ops, owner)
      BY <1>2, <2>2 DEF SwagInv
    <3> QED
      BY <2>2, <3>1 DEF SwagCallOK
  <2> QED
    BY <2>1, <2>2
<1> QED
  BY <1>1, <1>3 DEF SwagInv

LEMMA SwagKeeps == SwagInv /\ [SwaggerNext]_svars => SwagInv'
<1> SUFFICES ASSUME SwagInv, [SwaggerNext]_svars PROVE SwagInv'
  OBVIOUS
<1>n. NoSwag \in SwagCallType /\ NoSwag.pc = "idle"
  BY DEF NoSwag, SwagCallType
<1>p. PaidFor(window, tokens, perMin)
  BY DEF SwagInv
<1>i. \A o, who, c : SwagCallOK(NoSwag, c, o, who)
  BY <1>n DEF SwagCallOK
<1> HIDE DEF NoSwag
<1>1. CASE InitSwagger
  <2>1. /\ \A c \in SwagCaller : scall[c].pc = "idle"
        /\ ops' \in Collected /\ UNCHANGED <<owner, scall>> /\ window' = Quiet
    BY <1>1 DEF InitSwagger, SwagAt
  <2>2. PICK n \in Rates : perMin' = (IF n <= 0 THEN 0 ELSE n) /\ tokens' = perMin' * Ticks
    BY <1>1 DEF InitSwagger
  <2>3. perMin' \in Nat
    BY <2>2, SwaggerAssumption
  <2>4. PaidFor(window', tokens', perMin')
    BY <2>1, <2>2, <2>3, QuietIsPaid
  <2> QED
    BY <2>1, <2>4 DEF SwagInv, SwagCallOK
<1>2. CASE Tick
  <2>1. /\ UNCHANGED <<ops, perMin, owner, scall>>
        /\ tokens' = Lowest(tokens + perMin, perMin * Ticks)
        /\ window' = [t \in 1 .. Ticks |-> IF t = 1 THEN 0 ELSE window[t - 1]]
    BY <1>2 DEF Tick, Refill
  <2>2. PaidFor(window', tokens', perMin)
    BY <1>p, <2>1, TickIsPaid
  <2> QED
    BY <2>1, <2>2 DEF SwagInv
<1>3. CASE UNCHANGED svars
  BY <1>3 DEF svars, SwagInv
<1>4. ASSUME NEW c \in SwagCaller, Invoke(c) PROVE SwagInv'
  <2>1. PICK name \in Name, given \in BOOLEAN :
           scall' = [scall EXCEPT ![c] = [pc |-> "lock", op |-> Free, name |-> name,
                                          given |-> given]]
    BY <1>4 DEF Invoke
  <2>2. ops # <<>> /\ UNCHANGED <<ops, perMin, tokens, owner, window>>
    BY <1>4 DEF Invoke
  <2> DEFINE x == [pc |-> "lock", op |-> Free, name |-> name, given |-> given]
  <2>3. x \in SwagCallType /\ SwagCallOK(x, c, ops, owner)
    BY <2>2 DEF SwagCallType, SwagCallOK
  <2>4. owner \in SwagCaller \cup {Free}
    BY DEF SwagInv
  <2> HIDE DEF x
  <2> QED
    BY <1>p, <2>1, <2>2, <2>3, <2>4, SwagMoves DEF x
<1>5. ASSUME NEW c \in SwagCaller, Lock(c) PROVE SwagInv'
  <2> DEFINE call == scall[c]
             op == FirstNamed(ops, call.name)
             sends == Allowed /\ Bound(op, call.given)
  <2>1. /\ call.pc = "lock" /\ owner = Free /\ UNCHANGED <<ops, perMin>>
        /\ owner' = IF sends THEN c ELSE Free
        /\ scall' = [scall EXCEPT ![c] = IF sends THEN [call EXCEPT !.pc = "http", !.op = op]
                                                  ELSE NoSwag]
        /\ tokens' = IF perMin > 0 /\ Allowed THEN tokens - Ticks ELSE tokens
        /\ window' = IF perMin > 0 /\ Allowed THEN [t \in 1 .. Ticks |-> window[t] + 1]
                                              ELSE window
    BY <1>5 DEF Lock, SwagAt, Spent, Counted
  <2>2. call \in SwagCallType /\ SwagCallOK(call, c, ops, owner) /\ ops \in {<<>>} \cup Collected
    BY DEF SwagInv
  <2>3. ops \in Collected /\ ops # <<>> /\ call.name \in Name
    BY <2>1, <2>2 DEF SwagCallOK
  <2>4. op \in Op
    BY <2>3, FirstNamedShape, CollectedShape
  <2>5. \A k \in SwagCaller : scall[k].pc # "http"
    BY <2>1, SwaggerAssumption DEF SwagInv, SwagCallOK
  <2>6. PaidFor(window', tokens', perMin)
    <3>1. CASE perMin > 0 /\ Allowed
      <4>1. tokens >= Ticks
        BY <3>1 DEF Allowed
      <4> QED
        BY <1>p, <2>1, <3>1, <4>1, CallIsPaid
    <3>2. CASE ~(perMin > 0 /\ Allowed)
      BY <1>p, <2>1, <3>2
    <3> QED
      BY <3>1, <3>2
  <2>7. owner' \in SwagCaller \cup {Free}
    BY <2>1
  <2>8. CASE sends
    <3> DEFINE x == [call EXCEPT !.pc = "http", !.op = op]
    <3>1. /\ scall' = [scall EXCEPT ![c] = x] /\ owner' = c
          /\ x = [call EXCEPT !.pc = "http", !.op = op]
      BY <2>1, <2>8
    <3>2. op \in Needy => call.given
      BY <2>8 DEF Bound
    <3>3. op = FirstNamed(ops, call.name)
      OBVIOUS
    <3> HIDE DEF call, op, sends, x
    <3>4. /\ x \in SwagCallType /\ x.pc = "http" /\ x.op = op /\ x.name = call.name
          /\ x.given = call.given
      BY <2>2, <2>4, <3>1 DEF SwagCallType
    <3>5. SwagCallOK(x, c, ops, owner')
      BY <2>3, <3>1, <3>2, <3>3, <3>4 DEF SwagCallOK
    <3> QED
      BY <2>1, <2>5, <2>6, <2>7, <3>1, <3>4, <3>5, SwagMoves
  <2>9. CASE ~sends
    <3>1. scall' = [scall EXCEPT ![c] = NoSwag]
      BY <2>1, <2>9
    <3> HIDE DEF call, op, sends
    <3> QED
      BY <1>n, <1>i, <2>1, <2>5, <2>6, <2>7, <3>1, SwagMoves
  <2> QED
    BY <2>8, <2>9
<1>6. ASSUME NEW c \in SwagCaller, HttpEnds(c) PROVE SwagInv'
  <2>1. /\ scall[c].pc = "http" /\ scall' = [scall EXCEPT ![c] = NoSwag] /\ owner' = Free
        /\ UNCHANGED <<ops, perMin, tokens, window>>
    BY <1>6 DEF HttpEnds, SwagAt
  <2>2. \A k \in SwagCaller \ {c} : scall[k].pc # "http"
    BY <2>1 DEF SwagInv, SwagCallOK
  <2> QED
    BY <1>n, <1>i, <1>p, <2>1, <2>2, SwagMoves
<1>7. ASSUME NEW c \in SwagCaller, AskHealth(c) PROVE SwagInv'
  <2> DEFINE call == scall[c]
             x == [call EXCEPT !.pc = "health"]
  <2>1. /\ scall' = [scall EXCEPT ![c] = x] /\ ops # <<>> /\ x = [call EXCEPT !.pc = "health"]
        /\ UNCHANGED <<ops, perMin, tokens, owner, window>>
    BY <1>7 DEF AskHealth
  <2>2. call \in SwagCallType /\ owner \in SwagCaller \cup {Free}
    BY DEF SwagInv
  <2> HIDE DEF call, x
  <2>3. x \in SwagCallType /\ x.pc = "health"
    BY <2>1, <2>2 DEF SwagCallType
  <2>4. SwagCallOK(x, c, ops, owner)
    BY <2>1, <2>3 DEF SwagCallOK
  <2> QED
    BY <1>p, <2>1, <2>2, <2>3, <2>4, SwagMoves
<1>8. ASSUME NEW c \in SwagCaller, Healthy(c) PROVE SwagInv'
  <2>1. /\ scall' = [scall EXCEPT ![c] = NoSwag] /\ owner \in SwagCaller \cup {Free}
        /\ UNCHANGED <<ops, perMin, tokens, owner, window>>
    BY <1>8 DEF Healthy, SwagInv
  <2> QED
    BY <1>n, <1>i, <1>p, <2>1, SwagMoves
<1> QED
  BY <1>1, <1>2, <1>3, <1>4, <1>5, <1>6, <1>7, <1>8 DEF SwaggerNext

LEMMA SwagShown == SwagInv => SwaggerTypeOK /\ SentIsWhole /\ RateIsBounded
<1> SUFFICES ASSUME SwagInv PROVE SwaggerTypeOK /\ SentIsWhole /\ RateIsBounded
  OBVIOUS
<1>1. SwaggerTypeOK
  <2>1. perMin \in Nat /\ tokens \in Nat /\ tokens <= perMin * Ticks /\ window \in [1 .. Ticks -> Nat]
    BY DEF SwagInv, PaidFor
  <2>2. perMin * Ticks \in Nat
    BY <2>1, SwaggerAssumption
  <2>3. tokens \in 0 .. perMin * Ticks
    BY <2>1, <2>2
  <2> QED
    BY <2>1, <2>3 DEF SwagInv, SwaggerTypeOK, SwagAt, SwagCallOK
<1>2. SentIsWhole
  BY DEF SwagInv, SentIsWhole, SwagCallOK, SwagAt
<1>3. ASSUME perMin > 0 PROVE window[Ticks] <= 2 * perMin
  <2> DEFINE w == window[Ticks]
             full == perMin * Ticks
             late == (Ticks - 1) * perMin
  <2>1. /\ Ticks \in Nat \ {0} /\ perMin \in Nat /\ tokens \in Nat /\ w \in Nat
        /\ w * Ticks + tokens <= full + late
    BY <1>3, SwaggerAssumption DEF SwagInv, PaidFor
  <2>2. late = full - perMin /\ full \in Nat
    BY <2>1
  <2>3. w * Ticks \in Nat /\ (2 * perMin) * Ticks = 2 * full
    BY <2>1
  <2>4. w * Ticks <= (2 * perMin) * Ticks
    <3> HIDE DEF w, full, late
    <3> QED
      BY <1>3, <2>1, <2>2, <2>3
  <2> DEFINE twice == 2 * perMin
  <2>5. twice \in Nat /\ w \in Nat /\ Ticks \in Nat \ {0} /\ w * Ticks <= twice * Ticks
    BY <2>1, <2>4
  <2> HIDE DEF w, twice
  <2>6. w <= twice
    BY <2>5, Divide
  <2> QED
    BY <2>6 DEF w, twice
<1> QED
  BY <1>1, <1>2, <1>3 DEF RateIsBounded

LEMMA SwagNames ==
    SwagInv /\ [SwaggerNext]_svars =>
       (ops # <<>> => \A n \in Name : FirstNamed(ops', n) = FirstNamed(ops, n))
<1> SUFFICES ASSUME SwagInv, [SwaggerNext]_svars, ops # <<>>, NEW n \in Name
             PROVE  FirstNamed(ops', n) = FirstNamed(ops, n)
  OBVIOUS
<1>1. ops \in Collected
  BY DEF SwagInv
<1>2. ops' \in Collected \/ ops' = ops
  BY DEF SwaggerNext, InitSwagger, Tick, Invoke, Lock, HttpEnds, AskHealth, Healthy, svars
<1>3. CASE ops' = ops
  BY <1>3
<1>4. CASE ops' \in Collected
  BY <1>1, <1>4, SameFirst
<1> QED
  BY <1>2, <1>3, <1>4

-----------------------------------------------------------------------------
(* objectstore: what a call saw of its object, and the first page of a list. *)

ObjectType == [Bucket -> [Key -> Content \cup {Gone}]]
ObjCallType == [pc : {"idle", "sent", "served", "answered"},
                tool : {"get", "put", "list", "delete"}, bucket : Bucket \cup {Gone},
                key : Key, content : Content \cup {Gone}, size : 0 .. LargestPage,
                reply : {"none", "done", "not found", "error", Slip}, ok : BOOLEAN,
                seen : SUBSET (Content \cup {Gone}), page : SUBSET Key,
                all : SUBSET Key, cut : BOOLEAN]

PageOK(call) ==
    /\ call.page = {} => call.all = {}
    /\ \/ call.page = call.all
       \/ call.cut /\ \A j \in call.page, k \in call.all \ call.page : j < k

\* What a call was served, unless it broke off.
ServedOK(call) ==
    /\ call.tool \in {"put", "get"} => call.content \in call.seen \ {Gone}
    /\ call.tool = "delete" => Gone \in call.seen
    /\ call.tool = "list" => PageOK(call)

ObjCallOK(call, objs, drv) ==
    /\ call.pc \in {"sent", "served"} => call.bucket \in Bucket
    /\ call.pc = "sent" => /\ objs[call.bucket][call.key] \in call.seen
                           /\ call.reply = "none"
                           /\ call.tool = "put" => call.content \in Content
                           /\ call.tool = "list" => call.size # 0
    /\ call.reply = "not found" => call.tool = "get"
    /\ call.reply = "done" => ServedOK(call)
    /\ call.pc = "answered" /\ call.ok =>
          \/ call.reply = "done"
          \/ call.tool = "delete" /\ call.reply = Slip
          \/ call.tool = "delete" /\ drv = "s3"

ObjInv ==
    /\ objects \in ObjectType
    /\ driver \in {"s3", "oss"} /\ usual \in Bucket \cup {Gone}
    /\ ocall \in [ObjCaller -> ObjCallType]
    /\ \A c \in ObjCaller : ObjCallOK(ocall[c], objects, driver)

LEMMA ObjNumbers ==
    /\ MaxKey \in Nat \ {0} /\ LargestPage \in Nat \ {0}
    /\ DefaultPage \in 1 .. LargestPage /\ PageSizes \subseteq Int
BY ObjectAssumption

LEMMA ObjNames == Gone \notin Content \cup Bucket /\ Slip \notin {"done", "not found", "error"}
BY ObjectAssumption

LEMMA KeysAreFew == IsFiniteSet(Key) /\ Key \subseteq Nat /\ 1 \in Key /\ 0 \in 0 .. LargestPage
BY ObjNumbers, FS_Interval DEF Key

LEMMA IdleObjCall ==
    /\ NoObjCall \in ObjCallType /\ NoObjCall.pc = "idle"
    /\ \A objs, drv : ObjCallOK(NoObjCall, objs, drv)
BY KeysAreFew DEF NoObjCall, ObjCallType, ObjCallOK

LEMMA ObjStarts == ObjectsInit => ObjInv
<1> HIDE DEF NoObjCall
<1> QED
  BY IdleObjCall DEF ObjectsInit, ObjInv, ObjectType

\* The first page of a list.
LEMMA PageShape ==
    ASSUME NEW whole \in SUBSET Key, NEW size \in Nat \ {0}, NEW page,
           page = {k \in whole : Cardinality({j \in whole : j <= k}) <= size}
    PROVE  /\ page = {} => whole = {}
           /\ \A j \in page, k \in whole \ page : j < k
<1> DEFINE upTo(k) == {j \in whole : j <= k}
<1>1. whole \in SUBSET Nat /\ IsFiniteSet(whole)
  BY KeysAreFew, FS_Subset
<1>2. ASSUME whole # {} PROVE page # {}
  <2>1. PICK k \in whole : \A j \in whole : k <= j
    BY <1>1, <1>2, LeastIsThere
  <2>2. \A j \in whole : j <= k => j = k
    <3> SUFFICES ASSUME NEW j \in whole, j <= k PROVE j = k
      OBVIOUS
    <3>1. j \in Nat /\ k \in Nat /\ k <= j
      BY <1>1, <2>1
    <3> QED
      BY <3>1
  <2>4. k <= k
    BY <1>1
  <2>5. upTo(k) = {k}
    <3>1. \A j : j \in upTo(k) <=> j = k
      BY <2>2, <2>4
    <3> HIDE DEF upTo
    <3> QED
      BY <3>1
  <2>3. Cardinality(upTo(k)) = 1
    BY <2>5, FS_Singleton
  <2> QED
    BY <2>3
<1>3. ASSUME NEW j \in page, NEW k \in whole \ page, ~(j < k) PROVE FALSE
  <2>0. j \in whole /\ k \in whole
    OBVIOUS
  <2>n. j \in Nat /\ k \in Nat
    BY <1>1, <2>0
  <2>1. j \in whole /\ j \in Nat /\ k \in Nat /\ k <= j
    BY <1>3, <2>0, <2>n
  <2>2. ASSUME NEW i \in upTo(k) PROVE i \in upTo(j)
    <3>1. i \in whole /\ i <= k /\ i \in Nat
      BY <1>1
    <3>2. i <= j
      BY <2>1, <3>1
    <3> QED
      BY <3>1, <3>2
  <2>3. IsFiniteSet(upTo(j)) /\ IsFiniteSet(upTo(k))
    BY <1>1, FS_Subset
  <2>4. Cardinality(upTo(k)) <= Cardinality(upTo(j))
    <3>1. upTo(k) \in SUBSET upTo(j)
      BY <2>2
    <3> HIDE DEF upTo
    <3> QED
      BY <2>3, <3>1, FS_Subset
  <2>5. Cardinality(upTo(k)) \in Nat /\ Cardinality(upTo(j)) \in Nat
    BY <2>3, FS_CardinalityType
  <2>6. Cardinality(upTo(j)) <= size
    OBVIOUS
  <2>7. Cardinality(upTo(k)) <= size
    <3> HIDE DEF upTo
    <3> QED
      BY <2>4, <2>5, <2>6
  <2> QED
    BY <1>3, <2>7
<1> QED
  BY <1>2, <1>3

\* A call goes on seeing its object, and keeps what it is.
Sees(call, objs) == IF call.bucket = Gone THEN call
                    ELSE [call EXCEPT !.seen = @ \cup {objs[call.bucket][call.key]}]

LEMMA SeesShape ==
    ASSUME NEW call \in ObjCallType, NEW objs \in ObjectType, NEW y, y = Sees(call, objs)
    PROVE  /\ y \in ObjCallType /\ call.seen \subseteq y.seen
           /\ y.pc = call.pc /\ y.tool = call.tool /\ y.bucket = call.bucket /\ y.key = call.key
           /\ y.content = call.content /\ y.size = call.size /\ y.reply = call.reply
           /\ y.ok = call.ok /\ y.page = call.page /\ y.all = call.all /\ y.cut = call.cut
           /\ call.bucket # Gone => objs[call.bucket][call.key] \in y.seen
<1>1. CASE call.bucket = Gone
  BY <1>1 DEF Sees
<1>2. CASE call.bucket # Gone
  <2> DEFINE seen == call.seen \cup {objs[call.bucket][call.key]}
  <2>0. call.bucket \in Bucket /\ call.key \in Key
    BY <1>2 DEF ObjCallType
  <2>1. objs[call.bucket][call.key] \in Content \cup {Gone}
    BY <2>0 DEF ObjectType
  <2>2. seen \in SUBSET (Content \cup {Gone})
    BY <2>1 DEF ObjCallType
  <2>3. y = [call EXCEPT !.seen = seen]
    BY <1>2 DEF Sees
  <2>4. call.seen \subseteq seen /\ objs[call.bucket][call.key] \in seen
    OBVIOUS
  <2> HIDE DEF seen
  <2>5. /\ y \in ObjCallType /\ y.seen = seen
        /\ y.pc = call.pc /\ y.tool = call.tool /\ y.bucket = call.bucket /\ y.key = call.key
        /\ y.content = call.content /\ y.size = call.size /\ y.reply = call.reply
        /\ y.ok = call.ok /\ y.page = call.page /\ y.all = call.all /\ y.cut = call.cut
    BY <2>2, <2>3 DEF ObjCallType
  <2> QED
    BY <2>4, <2>5
<1> QED
  BY <1>1, <1>2

LEMMA SeesKeeps ==
    ASSUME NEW call \in ObjCallType, NEW objs \in ObjectType, NEW old, NEW drv,
           ObjCallOK(call, old, drv), NEW y, y = Sees(call, objs)
    PROVE  ObjCallOK(y, objs, drv)
<1>1. /\ call.seen \subseteq y.seen
      /\ y.pc = call.pc /\ y.tool = call.tool /\ y.bucket = call.bucket /\ y.key = call.key
      /\ y.content = call.content /\ y.size = call.size /\ y.reply = call.reply
      /\ y.ok = call.ok /\ y.page = call.page /\ y.all = call.all /\ y.cut = call.cut
      /\ call.bucket # Gone => objs[call.bucket][call.key] \in y.seen
  BY SeesShape
<1>2. Gone \notin Bucket
  BY ObjNames
<1>3. PageOK(call) => PageOK(y)
  BY <1>1 DEF PageOK
<1>4. ServedOK(call) => ServedOK(y)
  BY <1>1, <1>3 DEF ServedOK
<1> QED
  BY <1>1, <1>2, <1>4 DEF ObjCallOK

\* A step of one call that leaves the objects as they are.
LEMMA ObjMoves ==
    ASSUME ObjInv, NEW c \in ObjCaller, NEW x \in ObjCallType,
           ocall' = [ocall EXCEPT ![c] = x], UNCHANGED <<objects, driver, usual>>,
           ObjCallOK(x, objects, driver)
    PROVE  ObjInv'
<1>1. ocall' \in [ObjCaller -> ObjCallType]
  BY DEF ObjInv
<1>2. \A k \in ObjCaller : ocall'[k] = IF k = c THEN x ELSE ocall[k]
  BY DEF ObjInv
<1>3. \A k \in ObjCaller : ObjCallOK(ocall'[k], objects, driver)
  BY <1>2 DEF ObjInv
<1> QED
  BY <1>1, <1>3 DEF ObjInv

LEMMA RequestIsFine ==
    ASSUME ObjInv, NEW c \in ObjCaller, NEW tool \in {"get", "put", "list", "delete"},
           NEW bucket \in Bucket \cup {Gone}, NEW k \in Key, NEW v \in Content \cup {Gone},
           NEW size \in 0 .. LargestPage, tool = "put" => v \in Content,
           tool = "list" => size # 0, Request(c, tool, bucket, k, v, size)
    PROVE  ObjInv'
<1> DEFINE b == Resolved(bucket)
           seen == {objects[b][k]}
           x == [NoObjCall EXCEPT !.pc = "sent", !.tool = tool, !.bucket = b, !.key = k,
                   !.content = v, !.size = size, !.seen = seen]
<1>1. /\ b # Gone /\ ocall' = [ocall EXCEPT ![c] = x] /\ UNCHANGED <<objects, driver, usual>>
      /\ x = [NoObjCall EXCEPT !.pc = "sent", !.tool = tool, !.bucket = b, !.key = k,
                !.content = v, !.size = size, !.seen = seen]
  BY DEF Request
<1>2. b \in Bucket
  BY <1>1 DEF Resolved, ObjInv
<1>3. objects[b][k] \in Content \cup {Gone} /\ objects[b][k] \in seen
  BY <1>2 DEF ObjInv, ObjectType
<1>4. seen \in SUBSET (Content \cup {Gone})
  BY <1>3
<1> HIDE DEF b, seen, x
<1>5. NoObjCall.reply = "none" /\ ~NoObjCall.ok /\ NoObjCall \in ObjCallType
  BY IdleObjCall DEF NoObjCall
<1>6. /\ x \in ObjCallType /\ x.pc = "sent" /\ x.tool = tool /\ x.bucket = b /\ x.key = k
      /\ x.content = v /\ x.size = size /\ x.seen = seen /\ x.reply = "none"
  BY <1>1, <1>2, <1>4, <1>5 DEF ObjCallType
<1>7. ObjCallOK(x, objects, driver)
  BY <1>2, <1>3, <1>6, ObjNames DEF ObjCallOK
<1> QED
  BY <1>1, <1>6, <1>7, ObjMoves

LEMMA ServeKeeps ==
    ASSUME ObjInv, NEW c \in ObjCaller, Serve(c)
    PROVE  ObjInv'
<1> DEFINE call == ocall[c]
           whole == Present(call.bucket)
           paged == {k \in whole : Cardinality({j \in whole : j <= k}) <= call.size}
           put(v) == [objects EXCEPT ![call.bucket][call.key] = v]
           objs == CASE call.tool = "put" -> put(call.content)
                     [] call.tool = "delete" -> put(Gone)
                     [] OTHER -> objects
           reply == IF call.tool = "get" /\ call.key \notin whole THEN "not found" ELSE "done"
           content == IF call.tool = "get" THEN objects[call.bucket][call.key] ELSE call.content
           page == IF call.tool = "list" THEN paged ELSE {}
           every == IF call.tool = "list" THEN whole ELSE {}
           cut == call.tool = "list" /\ paged # whole
           y == Sees(call, objs)
           x == [y EXCEPT !.pc = "served", !.reply = reply, !.content = content,
                          !.page = page, !.all = every, !.cut = cut]
<1>0. /\ call \in ObjCallType /\ ObjCallOK(call, objects, driver) /\ call.pc = "sent"
      /\ objects \in ObjectType
      /\ UNCHANGED <<driver, usual>> /\ objects' = objs
  BY DEF ObjInv, Serve, ObjAt
<1>1. call.bucket \in Bucket /\ call.key \in Key /\ call.content \in Content \cup {Gone}
  BY <1>0 DEF ObjCallOK, ObjCallType
<1>2. \A v \in Content \cup {Gone} :
         put(v) \in ObjectType /\ put(v)[call.bucket][call.key] = v
  BY <1>0, <1>1 DEF ObjectType
<1>3. /\ objs \in ObjectType
      /\ call.tool = "put" => objs[call.bucket][call.key] = call.content
      /\ call.tool = "delete" => objs[call.bucket][call.key] = Gone
      /\ call.tool = "get" => objs = objects
  BY <1>0, <1>1, <1>2
<1>4. ocall' = [[k \in ObjCaller |-> Sees(ocall[k], objs)] EXCEPT
             ![c].pc = "served", ![c].reply = reply, ![c].content = content,
             ![c].page = page, ![c].all = every, ![c].cut = cut]
  <2>1. Seeing(objs) = [k \in ObjCaller |-> Sees(ocall[k], objs)]
    BY DEF Seeing, Sees
  <2> HIDE DEF Sees
  <2>2. content = IF call.tool = "get" THEN objects[call.bucket][call.key]
                  ELSE [k \in ObjCaller |-> Sees(ocall[k], objs)][c].content
    BY <1>0, <1>3, SeesShape
  <2> QED
    BY <2>1, <2>2 DEF Serve
<1>5. reply \in {"done", "not found"} /\ (reply = "not found" => call.tool = "get")
  OBVIOUS
<1>6. content \in Content \cup {Gone}
  BY <1>0, <1>1 DEF ObjectType
<1>7. whole \in SUBSET Key /\ paged \in SUBSET Key /\ page \in SUBSET Key /\ every \in SUBSET Key
      /\ cut \in BOOLEAN
  BY DEF Present
<1>8. /\ y \in ObjCallType /\ y.tool = call.tool /\ y.bucket = call.bucket
      /\ objs[call.bucket][call.key] \in y.seen
  <2>1. call.bucket # Gone /\ objs \in ObjectType /\ y = Sees(call, objs)
    BY <1>1, <1>3, ObjNames
  <2> HIDE DEF y, objs, call
  <2> QED
    BY <1>0, <2>1, SeesShape
<1>9. reply = "done" /\ call.tool \in {"put", "get"} => content \in y.seen \ {Gone}
  <2>1. CASE call.tool = "put"
    <3>1. content = call.content /\ call.content \in Content
      BY <1>0, <2>1 DEF ObjCallOK
    <3> QED
      BY <1>3, <1>8, <2>1, <3>1, ObjNames
  <2>2. CASE call.tool = "get"
    <3>1. reply = "done" => objects[call.bucket][call.key] # Gone
      BY <1>1, <2>2 DEF Present
    <3> QED
      BY <1>3, <1>8, <2>2, <3>1
  <2> QED
    BY <2>1, <2>2
<1>10. call.tool = "delete" => Gone \in y.seen
  BY <1>3, <1>8
<1>11. call.tool = "list" => /\ page = {} => every = {}
                             /\ page = every \/ (cut /\ \A j \in page, k \in every \ page : j < k)
  <2>1. SUFFICES ASSUME call.tool = "list"
                 PROVE  /\ paged = {} => whole = {}
                        /\ \A j \in paged, k \in whole \ paged : j < k
    OBVIOUS
  <2>2. call.size \in Nat \ {0}
    <3>1. call.size \in 0 .. LargestPage /\ call.size # 0
      BY <1>0, <2>1 DEF ObjCallOK, ObjCallType
    <3> HIDE DEF call
    <3> QED
      BY <3>1, ObjNumbers
  <2> QED
    <3>1. /\ whole \in SUBSET Key
          /\ paged = {k \in whole : Cardinality({j \in whole : j <= k}) <= call.size}
      BY <1>7
    <3> HIDE DEF whole, paged, call
    <3> QED
      BY <2>2, <3>1, PageShape
<1>12. ocall' = [k \in ObjCaller |-> IF k = c THEN x ELSE Sees(ocall[k], objs)]
  BY <1>4
<1>13. x = [y EXCEPT !.pc = "served", !.reply = reply, !.content = content,
                     !.page = page, !.all = every, !.cut = cut]
  OBVIOUS
<1> HIDE DEF whole, paged, objs, reply, content, page, every, cut, y, x
<1>14. /\ x \in ObjCallType /\ x.pc = "served" /\ x.reply = reply /\ x.content = content
       /\ x.page = page /\ x.all = every /\ x.cut = cut /\ x.seen = y.seen
       /\ x.tool = y.tool /\ x.bucket = y.bucket
  BY <1>5, <1>6, <1>7, <1>8, <1>13 DEF ObjCallType
<1>15. reply = "done" => ServedOK(x)
  BY <1>8, <1>9, <1>10, <1>11, <1>14 DEF ServedOK, PageOK
<1>16. ObjCallOK(x, objs, driver)
  BY <1>1, <1>5, <1>8, <1>14, <1>15 DEF ObjCallOK
<1>17. ASSUME NEW k \in ObjCaller
       PROVE  /\ Sees(ocall[k], objs) \in ObjCallType
              /\ ObjCallOK(Sees(ocall[k], objs), objs, driver)
  <2>1. ocall[k] \in ObjCallType /\ ObjCallOK(ocall[k], objects, driver)
    BY DEF ObjInv
  <2> QED
    BY <1>3, <2>1, SeesShape, SeesKeeps
<1>18. ocall' \in [ObjCaller -> ObjCallType]
  BY <1>12, <1>14, <1>17
<1>19. \A k \in ObjCaller : ObjCallOK(ocall'[k], objs, driver)
  BY <1>12, <1>16, <1>17
<1>20. driver' \in {"s3", "oss"} /\ usual' \in Bucket \cup {Gone} /\ driver' = driver
  BY <1>0 DEF ObjInv
<1> QED
  BY <1>0, <1>3, <1>18, <1>19, <1>20 DEF ObjInv

LEMMA ObjKeeps == ObjInv /\ [ObjectsNext]_ovars => ObjInv'
<1> SUFFICES ASSUME ObjInv, [ObjectsNext]_ovars PROVE ObjInv'
  OBVIOUS
<1>k. 1 \in Key /\ 0 \in 0 .. LargestPage
  BY KeysAreFew
<1>1. CASE UNCHANGED ovars
  BY <1>1 DEF ovars, ObjInv
<1>2. ASSUME NEW c \in ObjCaller, PutObject(c) \/ GetObject(c) \/ ListObjects(c) \/ OssDelete(c)
      PROVE  ObjInv'
  <2>1. CASE PutObject(c)
    <3>1. PICK b \in Bucket \cup {Gone}, k \in Key, v \in Content : Request(c, "put", b, k, v, 0)
      BY <2>1 DEF PutObject
    <3> QED
      BY <1>k, <3>1, RequestIsFine
  <2>2. CASE GetObject(c)
    <3>1. PICK b \in Bucket \cup {Gone}, k \in Key : Request(c, "get", b, k, Gone, 0)
      BY <2>2 DEF GetObject
    <3> QED
      BY <1>k, <3>1, RequestIsFine
  <2>3. CASE ListObjects(c)
    <3>1. PICK b \in Bucket \cup {Gone}, n \in PageSizes : Request(c, "list", b, 1, Gone, PageLimit(n))
      BY <2>3 DEF ListObjects
    <3>2. PageLimit(n) \in 0 .. LargestPage /\ PageLimit(n) # 0
      BY ObjNumbers DEF PageLimit
    <3> QED
      BY <1>k, <3>1, <3>2, RequestIsFine
  <2>4. CASE OssDelete(c)
    <3>1. PICK b \in Bucket \cup {Gone}, k \in Key : Request(c, "delete", b, k, Gone, 0)
      BY <2>4 DEF OssDelete
    <3> QED
      BY <1>k, <3>1, RequestIsFine
  <2> QED
    BY <1>2, <2>1, <2>2, <2>3, <2>4
<1>3. ASSUME NEW c \in ObjCaller, S3Delete(c) PROVE ObjInv'
  <2>1. PICK bucket \in Bucket \cup {Gone}, k \in Key :
          ocall' = [ocall EXCEPT ![c] = [NoObjCall EXCEPT
                      !.pc = "answered", !.tool = "delete", !.bucket = Resolved(bucket),
                      !.key = k, !.ok = TRUE,
                      !.seen = IF Resolved(bucket) = Gone THEN {}
                               ELSE {objects[Resolved(bucket)][k]}]]
    BY <1>3 DEF S3Delete
  <2>2. driver = "s3" /\ UNCHANGED <<objects, driver, usual>>
    BY <1>3 DEF S3Delete
  <2> DEFINE b == Resolved(bucket)
             seen == IF b = Gone THEN {} ELSE {objects[b][k]}
             x == [NoObjCall EXCEPT !.pc = "answered", !.tool = "delete", !.bucket = b, !.key = k,
                      !.ok = TRUE, !.seen = seen]
  <2>b. b \in Bucket \cup {Gone}
    BY DEF Resolved, ObjInv
  <2>3. /\ ocall' = [ocall EXCEPT ![c] = x]
        /\ x = [NoObjCall EXCEPT !.pc = "answered", !.tool = "delete", !.bucket = b, !.key = k,
                      !.ok = TRUE, !.seen = seen]
    BY <2>1
  <2>4. seen \in SUBSET (Content \cup {Gone})
    <3>1. b # Gone => objects[b][k] \in Content \cup {Gone}
      BY <2>b DEF ObjInv, ObjectType
    <3> HIDE DEF b
    <3> QED
      BY <3>1
  <2>5. NoObjCall.reply = "none" /\ NoObjCall \in ObjCallType
    BY IdleObjCall DEF NoObjCall
  <2> HIDE DEF b, seen, x
  <2>6. /\ x \in ObjCallType /\ x.pc = "answered" /\ x.tool = "delete" /\ x.bucket = b
        /\ x.reply = "none"
    BY <2>b, <2>3, <2>4, <2>5 DEF ObjCallType
  <2>7. ObjCallOK(x, objects, driver)
    BY <2>2, <2>6 DEF ObjCallOK
  <2> QED
    BY <2>2, <2>3, <2>6, <2>7, ObjMoves
<1>4. ASSUME NEW c \in ObjCaller, Breaks(c) PROVE ObjInv'
  <2>1. PICK e \in {"error", Slip} : ocall' = [ocall EXCEPT ![c].pc = "served", ![c].reply = e]
    BY <1>4 DEF Breaks
  <2> DEFINE call == ocall[c]
             x == [call EXCEPT !.pc = "served", !.reply = e]
  <2>2. /\ ocall' = [ocall EXCEPT ![c] = x] /\ x = [call EXCEPT !.pc = "served", !.reply = e]
        /\ call.pc \in {"sent", "served"} /\ UNCHANGED <<objects, driver, usual>>
    BY <1>4, <2>1 DEF Breaks
  <2>3. call \in ObjCallType /\ ObjCallOK(call, objects, driver)
    BY DEF ObjInv
  <2> HIDE DEF call, x
  <2>4. x \in ObjCallType /\ x.pc = "served" /\ x.reply = e /\ x.bucket = call.bucket
    BY <2>2, <2>3 DEF ObjCallType
  <2>5. ObjCallOK(x, objects, driver)
    BY <2>2, <2>3, <2>4, ObjNames DEF ObjCallOK
  <2> QED
    BY <2>2, <2>4, <2>5, ObjMoves
<1>5. ASSUME NEW c \in ObjCaller, Reply(c) PROVE ObjInv'
  <2> DEFINE call == ocall[c]
             ok == call.reply = "done" \/ (call.tool = "delete" /\ IsNotFound(call.reply))
             x == [call EXCEPT !.pc = "answered", !.ok = ok]
  <2>1. /\ ocall' = [ocall EXCEPT ![c] = x] /\ x = [call EXCEPT !.pc = "answered", !.ok = ok]
        /\ call.pc = "served" /\ UNCHANGED <<objects, driver, usual>>
    BY <1>5 DEF Reply, ObjAt
  <2>2. call \in ObjCallType /\ ObjCallOK(call, objects, driver)
    BY DEF ObjInv
  <2>3. /\ ok \in BOOLEAN
        /\ ok => call.reply = "done" \/ (call.tool = "delete" /\ call.reply = Slip)
    BY <2>2 DEF ObjCallOK, IsNotFound
  <2>b. call.bucket \in Bucket
    BY <2>1, <2>2 DEF ObjCallOK
  <2>d. call.reply = "not found" => call.tool = "get"
    BY <2>2 DEF ObjCallOK
  <2>v. call.reply = "done" => ServedOK(call)
    BY <2>2 DEF ObjCallOK
  <2> HIDE DEF call, x, ok
  <2>4. /\ x \in ObjCallType /\ x.pc = "answered" /\ x.ok = ok /\ x.reply = call.reply
        /\ x.bucket = call.bucket /\ x.tool = call.tool /\ x.content = call.content
        /\ x.seen = call.seen /\ x.page = call.page /\ x.all = call.all /\ x.cut = call.cut
    BY <2>1, <2>2, <2>3 DEF ObjCallType
  <2>5. ServedOK(call) => ServedOK(x)
    BY <2>4 DEF ServedOK, PageOK
  <2>6. ObjCallOK(x, objects, driver)
    <3>1. x.ok => x.reply = "done" \/ (x.tool = "delete" /\ x.reply = Slip)
      BY <2>3, <2>4
    <3>2. x.bucket \in Bucket /\ (x.reply = "not found" => x.tool = "get") /\ x.pc = "answered"
      BY <2>4, <2>b, <2>d
    <3>3. x.reply = "done" => ServedOK(x)
      BY <2>4, <2>5, <2>v
    <3> QED
      BY <3>1, <3>2, <3>3 DEF ObjCallOK
  <2> QED
    BY <2>1, <2>4, <2>6, ObjMoves
<1>6. ASSUME NEW c \in ObjCaller, Forgotten(c) PROVE ObjInv'
  <2>1. ocall' = [ocall EXCEPT ![c] = NoObjCall] /\ UNCHANGED <<objects, driver, usual>>
    BY <1>6 DEF Forgotten
  <2> HIDE DEF NoObjCall
  <2> QED
    BY <2>1, IdleObjCall, ObjMoves
<1>7. ASSUME NEW c \in ObjCaller, Serve(c) PROVE ObjInv'
  BY <1>7, ServeKeeps
<1> QED
  BY <1>1, <1>2, <1>3, <1>4, <1>5, <1>6, <1>7 DEF ObjectsNext

LEMMA ObjShown == ObjInv => ObjectTypeOK /\ OkIsDone /\ PageIsHonest
<1> SUFFICES ASSUME ObjInv PROVE ObjectTypeOK /\ OkIsDone /\ PageIsHonest
  OBVIOUS
<1>1. ObjectTypeOK
  BY DEF ObjInv, ObjectTypeOK, ObjectType, ObjCallType
<1>2. ASSUME NEW c \in ObjCaller, ObjAt(c, "answered"), ocall[c].ok
      PROVE  /\ ocall[c].tool \in {"put", "get"} => ocall[c].content \in ocall[c].seen \ {Gone}
             /\ ocall[c].tool = "delete" /\ driver = "oss" =>
                   Gone \in ocall[c].seen \/ ocall[c].reply = Slip
             /\ ocall[c].tool = "list" => PageOK(ocall[c])
  BY <1>2 DEF ObjInv, ObjCallOK, ServedOK, ObjAt
<1>3. OkIsDone
  BY <1>2 DEF OkIsDone
<1>4. PageIsHonest
  BY <1>2 DEF PageIsHonest, PageOK
<1> QED
  BY <1>1, <1>3, <1>4

-----------------------------------------------------------------------------
(* filesystem: what a file has while calls read and write it, and what a   *)
(* walk has still before it.                                               *)

FileCallType == [pc : {"idle", "read", "has read", "open", "write", "wrote", "failed", "remove",
                       "walk"},
                 path : Path, fd : Inode \cup {Nothing}, text : Seq(Block), size : Nat,
                 raced : BOOLEAN, todo : SUBSET Path, hits : SUBSET Path, limit : Int,
                 stayed : SUBSET Path, skipped : SUBSET Path]
TreeType == [Path -> Inode \cup {Dir, Nothing}]
DataType == [Inode -> Seq(Block)]

\* What is there is in a directory.
InDirs(t) == \A p \in Path \ {Root} : t[p] # Nothing => t[Parent[p]] = Dir

\* V is what a walk is past: all that matched in it was hit, and from all
\* else that stayed the way up leads to a path that the walk has before it or
\* has skipped.
Covered(V, call) ==
    /\ Matching \cap call.stayed \cap V \subseteq call.hits
    /\ \A q \in call.stayed \ V : q \in call.todo \/ q \in call.skipped \/ (q # Root /\ Parent[q] \notin V)

WalkOK(call, t) ==
    /\ call.hits \subseteq Matching
    /\ Cardinality(call.hits) = 0 \/ Cardinality(call.hits) <= call.limit
    /\ \A q \in call.stayed : t[q] # Nothing /\ (q # Root => Parent[q] \in call.stayed)
    /\ Cardinality(call.hits) < call.limit => \E V \in SUBSET Path : Covered(V, call)

ReadOK(call, content, cfg) ==
    /\ call.pc = "read" /\ ~call.raced =>
          call.size = Len(content[call.fd]) /\ call.size <= cfg.max
    /\ call.pc = "has read" /\ ~call.raced => Len(call.text) = call.size /\ call.size <= cfg.max
    /\ call.pc = "write" /\ ~call.raced => content[call.fd] = <<>>
    /\ call.pc = "wrote" /\ ~call.raced => content[call.fd] = call.text

FileCallOK(call, cfg) ==
    /\ call.pc # "idle" => cfg # Nothing
    /\ call.fd # Nothing <=> call.pc \in {"read", "has read", "write", "wrote", "failed"}
    /\ call.pc \in {"open", "write", "wrote"} => call.text \in Texts

\* Of a file that is not muddled: one writer at most, who finds it empty; and
\* with none at work, a whole text.
FileOK(i, t, content, calls) ==
    /\ \A k, m \in FileClient : (/\ calls[k].pc = "write" /\ calls[k].fd = i
                                /\ calls[m].pc = "write" /\ calls[m].fd = i) => k = m
    /\ \A k \in FileClient : calls[k].pc = "write" /\ calls[k].fd = i => content[i] = <<>>
    /\ (\A k \in FileClient : ~(calls[k].pc = "write" /\ calls[k].fd = i))
          /\ (\E p \in Path : t[p] = i) => content[i] \in Texts

FileInv ==
    /\ tree \in TreeType /\ data \in DataType /\ InDirs(tree) /\ muddled \subseteq Inode
    /\ fcfg \in [readOnly : BOOLEAN, max : Nat \ {0}] \cup {Nothing}
    /\ fcall \in [FileClient -> FileCallType]
    /\ \A c \in FileClient : /\ FileCallOK(fcall[c], fcfg) /\ ReadOK(fcall[c], data, fcfg)
                             /\ fcall[c].pc = "walk" => WalkOK(fcall[c], tree)
    /\ \A i \in Inode \ muddled : FileOK(i, tree, data, fcall)

LEMMA FileNames == /\ Dir \notin Inode /\ Nothing \notin Inode /\ Dir # Nothing
                   /\ Root \in Path /\ Matching \subseteq Path \ {Root}
                   /\ Parent \in [Path \ {Root} -> Path]
BY FileAssumption

LEMMA IdleFileCall ==
    /\ NoFileCall \in FileCallType /\ NoFileCall.pc = "idle" /\ NoFileCall.fd = Nothing
    /\ NoFileCall.hits = {} /\ NoFileCall.todo = {}
    /\ \A cfg : FileCallOK(NoFileCall, cfg)
    /\ \A content, cfg : ReadOK(NoFileCall, content, cfg)
<1>1. NoFileCall \in FileCallType
  BY FileNames DEF NoFileCall, FileCallType
<1> QED
  BY <1>1 DEF NoFileCall, FileCallOK, ReadOK

LEMMA PathsAreFew == IsFiniteSet(Path)
<1>1. /\ Order \in [1 .. Len(Order) -> Path] /\ Len(Order) \in Nat /\ DOMAIN Order = 1 .. Len(Order)
  BY FileAssumption, LenProperties
<1>2. \A p \in Path : \E i \in 1 .. Len(Order) : Order[i] = p
  BY <1>1, FileAssumption DEF ToSet
<1>3. Order \in Surjection(1 .. Len(Order), Path)
  BY <1>1, <1>2 DEF Surjection
<1>4. IsFiniteSet(1 .. Len(Order))
  BY <1>1, FS_Interval
<1> QED
  BY <1>3, <1>4, FS_Surjection

\* The next path of a walk is one it has before it.
LEMMA NextOfWalk ==
    ASSUME NEW todo \in SUBSET Path, todo # {}
    PROVE  Ahead(todo) \in todo
<1> DEFINE I == {j \in 1 .. Len(Order) : Order[j] \in todo}
<1>1. /\ Order \in [1 .. Len(Order) -> Path] /\ Len(Order) \in Nat /\ DOMAIN Order = 1 .. Len(Order)
  BY FileAssumption, LenProperties
<1>2. I # {} /\ I \in SUBSET Nat
  BY <1>1, FileAssumption DEF ToSet
<1>3. Min(I) \in I
  BY <1>2, MinOfNats
<1>4. SelectInSeq(Order, LAMBDA q : q \in todo) = Min(I)
  BY <1>2 DEF SelectInSeq
<1> QED
  BY <1>3, <1>4 DEF Ahead

\* With the directories of p those above them are ancestors, too.
LEMMA AncestorsGoUp ==
    ASSUME NEW p \in Path, NEW q \in Ancestors[p], q # Root
    PROVE  q \in Path /\ Parent[q] \in Ancestors[p]
<1>1. Ancestors[p] = {r \in Path : \A S \in SUBSET Path :
                         Upward(S) /\ (p # Root => Parent[p] \in S) => r \in S}
  BY DEF Ancestors
<1>2. q \in Path /\ Parent[q] \in Path
  BY <1>1, FileNames
<1>3. ASSUME NEW S \in SUBSET Path, Upward(S), p # Root => Parent[p] \in S
      PROVE  Parent[q] \in S
  <2>1. q \in S
    BY <1>1, <1>3
  <2> QED
    BY <1>3, <2>1 DEF Upward
<1> QED
  BY <1>1, <1>2, <1>3

LEMMA FilesStart == FilesInit => FileInv
<1> SUFFICES ASSUME FilesInit PROVE FileInv
  OBVIOUS
<1> HIDE DEF NoFileCall
<1>1. /\ tree \in [Path -> {Dir, Nothing}] /\ data = [i \in Inode |-> <<>>] /\ fcfg = Nothing
      /\ fcall = [c \in FileClient |-> NoFileCall] /\ muddled = {}
      /\ \A p \in Path \ {Root} : tree[p] = Dir => tree[Parent[p]] = Dir
  BY DEF FilesInit
<1>2. tree \in TreeType /\ InDirs(tree)
  BY <1>1 DEF TreeType, InDirs
<1>3. data \in DataType
  BY <1>1 DEF DataType
<1>4. ASSUME NEW i \in Inode PROVE FileOK(i, tree, data, fcall)
  <2>1. \A k \in FileClient : fcall[k].pc # "write"
    BY <1>1, IdleFileCall
  <2>2. \A p \in Path : tree[p] # i
    BY <1>1, FileNames
  <2> QED
    BY <2>1, <2>2 DEF FileOK
<1> QED
  BY <1>1, <1>2, <1>3, <1>4, IdleFileCall DEF FileInv

-----------------------------------------------------------------------------
(* filesystem: a step of one call that changes no file. *)

LEMMA FileMoves ==
    ASSUME FileInv, NEW c \in FileClient, NEW x \in FileCallType,
           fcall' = [fcall EXCEPT ![c] = x], UNCHANGED <<tree, data, fcfg, muddled>>,
           fcall[c].pc # "write", x.pc # "write",
           FileCallOK(x, fcfg), ReadOK(x, data, fcfg), x.pc = "walk" => WalkOK(x, tree)
    PROVE  FileInv'
<1>1. fcall' \in [FileClient -> FileCallType]
  BY DEF FileInv
<1>2. \A k \in FileClient : fcall'[k] = IF k = c THEN x ELSE fcall[k]
  BY DEF FileInv
<1>3. \A k \in FileClient : /\ FileCallOK(fcall'[k], fcfg) /\ ReadOK(fcall'[k], data, fcfg)
                            /\ fcall'[k].pc = "walk" => WalkOK(fcall'[k], tree)
  BY <1>2 DEF FileInv
<1>4. ASSUME NEW i \in Inode \ muddled PROVE FileOK(i, tree, data, fcall')
  <2>1. FileOK(i, tree, data, fcall)
    BY DEF FileInv
  <2>2. \A k \in FileClient : (fcall'[k].pc = "write" /\ fcall'[k].fd = i)
                                 <=> (fcall[k].pc = "write" /\ fcall[k].fd = i)
    BY <1>2
  <2> QED
    BY <2>1, <2>2 DEF FileOK
<1> QED
  BY <1>1, <1>3, <1>4 DEF FileInv

LEMMA OpenReadKeeps ==
    ASSUME FileInv, fcfg # Nothing, NEW c \in FileClient, NEW p \in Path, OpenRead(c, p)
    PROVE  FileInv'
<1> DEFINE i == tree[p]
           size == Len(data[i])
           x == [NoFileCall EXCEPT !.pc = "read", !.fd = i, !.size = size]
<1>1. /\ i \in Inode /\ ~(size > fcfg.max) /\ fcall[c].pc = "idle"
      /\ fcall' = [fcall EXCEPT ![c] = x] /\ UNCHANGED <<tree, data, fcfg, muddled>>
      /\ x = [NoFileCall EXCEPT !.pc = "read", !.fd = i, !.size = size]
  BY DEF OpenRead, Opens, FileAt, TooLarge
<1>2. data[i] \in Seq(Block) /\ fcfg.max \in Nat /\ size = Len(data[i])
  BY <1>1 DEF FileInv, DataType
<1>3. size \in Nat /\ size <= fcfg.max
  BY <1>1, <1>2, LenProperties
<1> HIDE DEF i, size, x, NoFileCall
<1>4. /\ x \in FileCallType /\ x.pc = "read" /\ x.fd = i /\ x.size = size
  BY <1>1, <1>3, IdleFileCall DEF FileCallType
<1>5. FileCallOK(x, fcfg) /\ ReadOK(x, data, fcfg)
  BY <1>1, <1>2, <1>3, <1>4, FileNames DEF FileCallOK, ReadOK
<1> QED
  BY <1>1, <1>4, <1>5, FileMoves

LEMMA ReadAllKeeps ==
    ASSUME FileInv, NEW c \in FileClient, ReadAll(c)
    PROVE  FileInv'
<1> DEFINE call == fcall[c]
           text == data[call.fd]
           x == [call EXCEPT !.pc = "has read", !.text = text]
<1>1. /\ call.pc = "read" /\ fcall' = [fcall EXCEPT ![c] = x]
      /\ UNCHANGED <<tree, data, fcfg, muddled>>
      /\ x = [call EXCEPT !.pc = "has read", !.text = text]
  BY DEF ReadAll, FileAt
<1>2. call \in FileCallType /\ FileCallOK(call, fcfg) /\ ReadOK(call, data, fcfg)
  BY DEF FileInv
<1>3. call.fd \in Inode
  BY <1>1, <1>2 DEF FileCallOK, FileCallType
<1>4. text \in Seq(Block) /\ text = data[call.fd]
  BY <1>3 DEF FileInv, DataType
<1> HIDE DEF call, text, x
<1>5. /\ x \in FileCallType /\ x.pc = "has read" /\ x.fd = call.fd /\ x.size = call.size
      /\ x.text = text /\ x.raced = call.raced
  BY <1>1, <1>2, <1>4 DEF FileCallType
<1>6. FileCallOK(x, fcfg) /\ ReadOK(x, data, fcfg)
  BY <1>1, <1>2, <1>4, <1>5 DEF FileCallOK, ReadOK
<1>7. fcall[c].pc # "write"
  BY <1>1 DEF call
<1> QED
  BY <1>1, <1>5, <1>6, <1>7, FileMoves

LEMMA StatDeleteKeeps ==
    ASSUME FileInv, fcfg # Nothing, NEW c \in FileClient, NEW p \in Path, StatDelete(c, p)
    PROVE  FileInv'
<1> DEFINE x == [NoFileCall EXCEPT !.pc = "remove", !.path = p]
<1>1. /\ fcall[c].pc = "idle" /\ fcall' = [fcall EXCEPT ![c] = x]
      /\ UNCHANGED <<tree, data, fcfg, muddled>>
      /\ x = [NoFileCall EXCEPT !.pc = "remove", !.path = p]
  BY DEF StatDelete, Opens, FileAt
<1> HIDE DEF x, NoFileCall
<1>2. x \in FileCallType /\ x.pc = "remove" /\ x.fd = Nothing
  BY <1>1, IdleFileCall DEF FileCallType
<1>3. FileCallOK(x, fcfg) /\ ReadOK(x, data, fcfg)
  BY <1>2 DEF FileCallOK, ReadOK
<1> QED
  BY <1>1, <1>2, <1>3, FileMoves

LEMMA StartWalkKeeps ==
    ASSUME FileInv, fcfg # Nothing, NEW c \in FileClient, NEW n \in Int, StartWalk(c, n)
    PROVE  FileInv'
<1> DEFINE there == {p \in Path : tree[p] # Nothing}
           x == [NoFileCall EXCEPT !.pc = "walk", !.limit = n, !.todo = {Root}, !.stayed = there]
<1>1. /\ fcall[c].pc = "idle" /\ fcall' = [fcall EXCEPT ![c] = x]
      /\ UNCHANGED <<tree, data, fcfg, muddled>>
      /\ x = [NoFileCall EXCEPT !.pc = "walk", !.limit = n, !.todo = {Root}, !.stayed = there]
  BY DEF StartWalk, Opens, FileAt
<1>2. /\ there \in SUBSET Path
      /\ \A q \in there : tree[q] # Nothing /\ (q # Root => Parent[q] \in there)
  BY FileNames DEF FileInv, InDirs
<1>0. {Root} \in SUBSET Path
  BY FileNames
<1> HIDE DEF there, x, NoFileCall
<1>3. /\ x \in FileCallType /\ x.pc = "walk" /\ x.fd = Nothing /\ x.todo = {Root}
      /\ x.hits = {} /\ x.limit = n /\ x.stayed = there
  BY <1>0, <1>1, <1>2, IdleFileCall DEF FileCallType
<1>4. FileCallOK(x, fcfg) /\ ReadOK(x, data, fcfg)
  BY <1>3 DEF FileCallOK, ReadOK
<1>5. Covered({}, x)
  BY <1>3 DEF Covered
<1>6. Cardinality(x.hits) = 0
  BY <1>3, FS_EmptySet
<1>7. WalkOK(x, tree)
  BY <1>2, <1>3, <1>5, <1>6 DEF WalkOK
<1> QED
  BY <1>1, <1>3, <1>4, <1>7, FileMoves

\* The next step of a walk, over the tree of now.
LEMMA WalkGoesOn ==
    ASSUME NEW call \in FileCallType, NEW t \in TreeType, WalkOK(call, t), NEW p \in call.todo,
           NEW x \in FileCallType, x.limit = call.limit, x.stayed = call.stayed,
           x.skipped = call.skipped,
           x.todo = (IF t[p] = Nothing THEN call.todo \ {p}
                     ELSE IF Cardinality(call.hits) >= call.limit THEN {}
                     ELSE (call.todo \ {p})
                             \cup {q \in Path \ {Root} : Parent[q] = p /\ t[q] # Nothing}),
           x.hits = (IF /\ t[p] # Nothing /\ p \in Matching
                        /\ ~(Cardinality(call.hits) >= call.limit)
                     THEN call.hits \cup {p} ELSE call.hits)
    PROVE  WalkOK(x, t)
<1> DEFINE n == Cardinality(call.hits)
<1>1. IsFiniteSet(call.hits) /\ n \in Nat /\ call.limit \in Int
  BY PathsAreFew, FS_Subset, FS_CardinalityType DEF FileCallType
<1>2. /\ Cardinality(x.hits) \in Nat /\ Cardinality(x.hits) >= n
      /\ Cardinality(x.hits) = 0 \/ Cardinality(x.hits) <= call.limit
      /\ x.hits \subseteq Matching
  <2>1. CASE x.hits = call.hits
    BY <1>1, <2>1 DEF WalkOK
  <2>2. CASE x.hits = call.hits \cup {p} /\ n < call.limit /\ p \in Matching
    <3>1. Cardinality(x.hits) = n \/ Cardinality(x.hits) = n + 1
      BY <1>1, <2>2, FS_AddElement
    <3>2. x.hits \subseteq Matching
      BY <2>2 DEF WalkOK
    <3> HIDE DEF n
    <3> QED
      BY <1>1, <2>2, <3>1, <3>2
  <2>3. x.hits = call.hits \/ (x.hits = call.hits \cup {p} /\ n < call.limit /\ p \in Matching)
    BY <1>1
  <2> QED
    BY <2>1, <2>2, <2>3
<1>3. ASSUME Cardinality(x.hits) < x.limit
      PROVE  \E V \in SUBSET Path : Covered(V, x)
  <2>1. n < call.limit
    BY <1>1, <1>2, <1>3
  <2>2. PICK V \in SUBSET Path : Covered(V, call)
    BY <2>1 DEF WalkOK
  <2>3. ~(n >= call.limit)
    BY <1>1, <2>1
  <2>4. \A q \in call.stayed : t[q] # Nothing /\ q \in Path
    BY DEF WalkOK, FileCallType
  <2>5. CASE t[p] = Nothing
    <3>1. x.todo = call.todo \ {p} /\ x.hits = call.hits /\ p \notin call.stayed
      BY <2>4, <2>5
    <3>2. Covered(V, x)
      BY <2>2, <3>1 DEF Covered
    <3> QED
      BY <3>2
  <2>6. CASE t[p] # Nothing
    <3> DEFINE W == V \cup {p}
               kids == {q \in Path \ {Root} : Parent[q] = p /\ t[q] # Nothing}
    <3>1. /\ x.todo = (call.todo \ {p}) \cup kids
          /\ x.hits = IF p \in Matching THEN call.hits \cup {p} ELSE call.hits
      BY <2>3, <2>6
    <3>2. W \in SUBSET Path
      BY DEF FileCallType
    <3>3. Matching \cap x.stayed \cap W \subseteq x.hits
      BY <2>2, <3>1 DEF Covered
    <3>4. ASSUME NEW q \in x.stayed \ W, q \notin x.todo, q \notin x.skipped
          PROVE  q # Root /\ Parent[q] \notin W
      <4>1. q \in call.stayed \ V /\ q # p
        BY <3>4
      <4>2. q \notin call.todo /\ q \notin kids
        BY <3>1, <3>4, <4>1
      <4>3. q # Root /\ Parent[q] \notin V
        BY <2>2, <3>4, <4>1, <4>2 DEF Covered
      <4>4. t[q] # Nothing /\ q \in Path \ {Root}
        BY <2>4, <4>1, <4>3
      <4>5. ASSUME Parent[q] = p
            PROVE  FALSE
        <5>1. q \in kids
          BY <4>4, <4>5
        <5> QED
          BY <4>2, <5>1
      <4> QED
        BY <4>3, <4>5
    <3>5. Covered(W, x)
      BY <3>3, <3>4 DEF Covered
    <3> QED
      BY <3>2, <3>5
  <2> QED
    BY <2>5, <2>6
<1>4. \A q \in x.stayed : t[q] # Nothing /\ (q # Root => Parent[q] \in x.stayed)
  BY DEF WalkOK
<1> QED
  BY <1>2, <1>3, <1>4 DEF WalkOK

LEMMA VisitKeeps ==
    ASSUME FileInv, NEW c \in FileClient, Visit(c)
    PROVE  FileInv'
<1> DEFINE call == fcall[c]
           p == Ahead(call.todo)
           full == Cardinality(call.hits) >= call.limit
           todo == IF tree[p] = Nothing THEN call.todo \ {p}
                   ELSE IF full THEN {} ELSE (call.todo \ {p}) \cup Children(p)
           hits == IF tree[p] # Nothing /\ p \in Matching /\ ~full
                   THEN call.hits \cup {p} ELSE call.hits
           x == [call EXCEPT !.todo = todo, !.hits = hits]
<1>1. /\ call.pc = "walk" /\ call.todo # {} /\ fcall' = [fcall EXCEPT ![c] = x]
      /\ UNCHANGED <<tree, data, fcfg, muddled>>
  BY DEF Visit, FileAt, Full
<1>2. /\ call \in FileCallType /\ FileCallOK(call, fcfg) /\ WalkOK(call, tree) /\ tree \in TreeType
  BY <1>1 DEF FileInv
<1>3. call.todo \in SUBSET Path /\ call.hits \in SUBSET Path
  BY <1>2 DEF FileCallType
<1>4. p \in call.todo /\ p \in Path
  BY <1>1, <1>3, NextOfWalk
<1>5. todo \in SUBSET Path /\ hits \in SUBSET Path
  BY <1>3, <1>4 DEF Children
<1>6. x = [call EXCEPT !.todo = todo, !.hits = hits]
  OBVIOUS
<1>7. /\ todo = (IF tree[p] = Nothing THEN call.todo \ {p}
                 ELSE IF Cardinality(call.hits) >= call.limit THEN {}
                 ELSE (call.todo \ {p})
                         \cup {q \in Path \ {Root} : Parent[q] = p /\ tree[q] # Nothing})
      /\ hits = (IF /\ tree[p] # Nothing /\ p \in Matching
                    /\ ~(Cardinality(call.hits) >= call.limit)
                 THEN call.hits \cup {p} ELSE call.hits)
  BY DEF Children
<1>w. fcall[c].pc # "write"
  BY <1>1
<1> HIDE DEF call, p, full, todo, hits, x
<1>8. /\ x \in FileCallType /\ x.pc = call.pc /\ x.fd = call.fd /\ x.limit = call.limit
      /\ x.stayed = call.stayed /\ x.todo = todo /\ x.hits = hits
      /\ x.skipped = call.skipped
  BY <1>2, <1>5, <1>6 DEF FileCallType
<1>9. WalkOK(x, tree)
  <2>1. x.todo = (IF tree[p] = Nothing THEN call.todo \ {p}
                  ELSE IF Cardinality(call.hits) >= call.limit THEN {}
                  ELSE (call.todo \ {p})
                          \cup {q \in Path \ {Root} : Parent[q] = p /\ tree[q] # Nothing})
    BY <1>7, <1>8, Zenon
  <2>2. x.hits = (IF /\ tree[p] # Nothing /\ p \in Matching
                     /\ ~(Cardinality(call.hits) >= call.limit)
                  THEN call.hits \cup {p} ELSE call.hits)
    BY <1>7, <1>8, Zenon
  <2>3. /\ call \in FileCallType /\ tree \in TreeType /\ WalkOK(call, tree) /\ p \in call.todo
        /\ x \in FileCallType /\ x.limit = call.limit /\ x.stayed = call.stayed
        /\ x.skipped = call.skipped
    BY <1>2, <1>4, <1>8, Zenon
  <2> QED
    BY <2>1, <2>2, <2>3, WalkGoesOn, ZenonT(30)
<1>10. FileCallOK(x, fcfg) /\ ReadOK(x, data, fcfg)
  BY <1>1, <1>2, <1>8 DEF FileCallOK, ReadOK
<1> QED
  BY <1>1, <1>8, <1>9, <1>10, <1>w, FileMoves

\* What a walk goes past is not in V, and neither is what is below it.
LEMMA SkipKeeps ==
    ASSUME FileInv, NEW c \in FileClient, Skip(c)
    PROVE  FileInv'
<1> DEFINE call == fcall[c]
           p == Ahead(call.todo)
           todo == call.todo \ {p}
           skipped == call.skipped \cup {p}
           x == [call EXCEPT !.todo = todo, !.skipped = skipped]
<1>1. /\ call.pc = "walk" /\ call.todo # {} /\ fcall' = [fcall EXCEPT ![c] = x]
      /\ UNCHANGED <<tree, data, fcfg, muddled>>
  BY DEF Skip, FileAt
<1>2. /\ call \in FileCallType /\ FileCallOK(call, fcfg) /\ WalkOK(call, tree)
  BY <1>1 DEF FileInv
<1>3. call.todo \in SUBSET Path /\ call.skipped \in SUBSET Path
  BY <1>2 DEF FileCallType
<1>4. p \in Path
  BY <1>1, <1>3, NextOfWalk
<1>5. todo \in SUBSET Path /\ skipped \in SUBSET Path
  BY <1>3, <1>4
<1>6. x = [call EXCEPT !.todo = todo, !.skipped = skipped]
  OBVIOUS
<1>7. todo = call.todo \ {p} /\ skipped = call.skipped \cup {p}
  OBVIOUS
<1>w. fcall[c].pc # "write"
  BY <1>1
<1> HIDE DEF call, p, todo, skipped, x
<1>8. /\ x \in FileCallType /\ x.pc = call.pc /\ x.fd = call.fd /\ x.limit = call.limit
      /\ x.stayed = call.stayed /\ x.todo = todo /\ x.hits = call.hits /\ x.skipped = skipped
  BY <1>2, <1>5, <1>6 DEF FileCallType
<1>9. \A V : Covered(V, call) => Covered(V, x)
  BY <1>7, <1>8 DEF Covered
<1>10. WalkOK(x, tree)
  BY <1>2, <1>8, <1>9 DEF WalkOK
<1>11. FileCallOK(x, fcfg) /\ ReadOK(x, data, fcfg)
  BY <1>1, <1>2, <1>8 DEF FileCallOK, ReadOK
<1> QED
  BY <1>1, <1>8, <1>10, <1>11, <1>w, FileMoves

-----------------------------------------------------------------------------
(* filesystem: the steps that change the tree or a file. *)

\* A call that has the same file, text and walk as before.
SameCall(x, call) ==
    /\ x.pc = call.pc /\ x.fd = call.fd /\ x.text = call.text /\ x.size = call.size
    /\ x.todo = call.todo /\ x.hits = call.hits /\ x.limit = call.limit
    /\ x.stayed = call.stayed /\ x.skipped = call.skipped

LEMMA RacedCall ==
    ASSUME NEW call \in FileCallType, NEW i \in Inode, NEW x,
           x = [call EXCEPT !.raced = @ \/ call.fd = i]
    PROVE  x \in FileCallType /\ SameCall(x, call) /\ (~x.raced => ~call.raced /\ call.fd # i)
<1> DEFINE b == call.raced \/ call.fd = i
<1>1. x = [call EXCEPT !.raced = b] /\ b \in BOOLEAN /\ (~b => ~call.raced /\ call.fd # i)
  OBVIOUS
<1> HIDE DEF b
<1>2. x \in FileCallType /\ SameCall(x, call) /\ x.raced = b
  BY <1>1 DEF FileCallType, SameCall
<1> QED
  BY <1>1, <1>2

LEMMA StatKeeps ==
    ASSUME FileInv, fcfg # Nothing, NEW c \in FileClient, NEW p \in Path, NEW text \in Texts,
           NEW dirs \in BOOLEAN, Stat(c, p, text, dirs)
    PROVE  FileInv'
<1> DEFINE x == [NoFileCall EXCEPT !.pc = "open", !.path = p, !.text = text]
<1>1. /\ fcall[c].pc = "idle" /\ fcall' = [fcall EXCEPT ![c] = x]
      /\ dirs => \A q \in Ancestors[p] : tree[q] \in {Dir, Nothing}
      /\ tree' = [q \in Path |-> IF dirs /\ q \in Ancestors[p] THEN Dir ELSE tree[q]]
      /\ UNCHANGED <<data, fcfg, muddled>>
      /\ x = [NoFileCall EXCEPT !.pc = "open", !.path = p, !.text = text]
  BY DEF Stat, Opens, FileAt
<1>2. text \in Seq(Block)
  BY FileAssumption
<1> HIDE DEF x, NoFileCall
<1>3. x \in FileCallType /\ x.pc = "open" /\ x.fd = Nothing /\ x.text = text
  BY <1>1, <1>2, IdleFileCall DEF FileCallType
<1>4. FileCallOK(x, fcfg) /\ ReadOK(x, data, fcfg)
  BY <1>3 DEF FileCallOK, ReadOK
<1>5. \A k \in FileClient : fcall'[k] = IF k = c THEN x ELSE fcall[k]
  BY <1>1 DEF FileInv
<1>6. fcall' \in [FileClient -> FileCallType]
  BY <1>1, <1>3 DEF FileInv
<1>7. tree' \in TreeType
  BY <1>1 DEF TreeType, FileInv
<1>8. /\ \A q \in Path : tree[q] # Nothing => tree'[q] # Nothing
      /\ \A q \in Path : tree[q] = Dir => tree'[q] = Dir
      /\ \A q \in Path, i \in Inode : tree'[q] = i => tree[q] = i
  BY <1>1, FileNames DEF FileInv, TreeType
<1>9. InDirs(tree')
  <2> SUFFICES ASSUME NEW q \in Path \ {Root}, tree'[q] # Nothing PROVE tree'[Parent[q]] = Dir
    BY DEF InDirs
  <2>0. Parent[q] \in Path
    BY FileNames
  <2>1. CASE dirs /\ q \in Ancestors[p]
    <3>1. Parent[q] \in Ancestors[p]
      BY <2>1, AncestorsGoUp
    <3> QED
      BY <1>1, <2>0, <2>1, <3>1
  <2>2. CASE ~(dirs /\ q \in Ancestors[p])
    <3>1. tree[q] # Nothing
      BY <1>1, <2>2
    <3>2. tree[Parent[q]] = Dir
      BY <3>1 DEF FileInv, InDirs
    <3> QED
      BY <1>8, <2>0, <3>2
  <2> QED
    BY <2>1, <2>2
<1>10. ASSUME NEW k \in FileClient
       PROVE  /\ FileCallOK(fcall'[k], fcfg) /\ ReadOK(fcall'[k], data, fcfg)
              /\ fcall'[k].pc = "walk" => WalkOK(fcall'[k], tree')
  <2>1. CASE k = c
    BY <1>3, <1>4, <1>5, <2>1
  <2>2. CASE k # c
    <3>1. /\ fcall'[k] = fcall[k] /\ FileCallOK(fcall[k], fcfg) /\ ReadOK(fcall[k], data, fcfg)
          /\ fcall[k].pc = "walk" => WalkOK(fcall[k], tree)
      BY <1>5, <2>2 DEF FileInv
    <3>2. fcall[k].stayed \subseteq Path
      BY DEF FileInv, FileCallType
    <3>3. WalkOK(fcall[k], tree) => WalkOK(fcall[k], tree')
      BY <1>8, <3>2 DEF WalkOK
    <3> QED
      BY <3>1, <3>3
  <2> QED
    BY <2>1, <2>2
<1>11. ASSUME NEW i \in Inode \ muddled PROVE FileOK(i, tree', data, fcall')
  <2>1. FileOK(i, tree, data, fcall)
    BY DEF FileInv
  <2>2. \A k \in FileClient : (fcall'[k].pc = "write" /\ fcall'[k].fd = i)
                                 <=> (fcall[k].pc = "write" /\ fcall[k].fd = i)
    BY <1>1, <1>3, <1>5
  <2>3. (\E q \in Path : tree'[q] = i) => \E q \in Path : tree[q] = i
    BY <1>8
  <2> QED
    BY <2>1, <2>2, <2>3 DEF FileOK
<1>12. /\ data' \in DataType /\ muddled' \subseteq Inode
       /\ fcfg' \in [readOnly : BOOLEAN, max : Nat \ {0}] \cup {Nothing}
       /\ fcfg' = fcfg /\ data' = data /\ muddled' = muddled
  BY <1>1 DEF FileInv
<1> QED
  BY <1>6, <1>7, <1>9, <1>10, <1>11, <1>12 DEF FileInv

\* A file changes: the other calls that have it open were raced.
LEMMA FileChanges ==
    ASSUME FileInv, NEW i \in Inode, NEW k \in FileClient, NEW x,
           x = [fcall[k] EXCEPT !.raced = @ \/ fcall[k].fd = i],
           tree' \in TreeType, \A q \in Path : tree[q] # Nothing => tree'[q] # Nothing,
           \A j \in Inode \ {i} : data'[j] = data[j]
    PROVE  /\ x \in FileCallType /\ SameCall(x, fcall[k])
           /\ FileCallOK(x, fcfg) /\ ReadOK(x, data', fcfg)
           /\ x.pc = "walk" => WalkOK(x, tree')
<1> DEFINE call == fcall[k]
<1>1. /\ call \in FileCallType /\ FileCallOK(call, fcfg) /\ ReadOK(call, data, fcfg)
      /\ call.pc = "walk" => WalkOK(call, tree)
  BY DEF FileInv
<1>2. x = [call EXCEPT !.raced = @ \/ call.fd = i]
  OBVIOUS
<1> HIDE DEF call
<1>3. x \in FileCallType /\ SameCall(x, call) /\ (~x.raced => ~call.raced /\ call.fd # i)
  BY <1>1, <1>2, RacedCall
<1>4. FileCallOK(x, fcfg)
  BY <1>1, <1>3 DEF FileCallOK, SameCall
<1>5. ReadOK(x, data', fcfg)
  <2>1. CASE x.raced
    BY <2>1 DEF ReadOK
  <2>2. CASE ~x.raced
    <3>1. call.pc \in {"read", "write", "wrote"} => data'[call.fd] = data[call.fd]
      BY <1>1, <1>3, <2>2 DEF FileCallOK, FileCallType
    <3> QED
      BY <1>1, <1>3, <2>2, <3>1 DEF ReadOK, SameCall
  <2> QED
    BY <2>1, <2>2
<1>6. call.pc = "walk" => WalkOK(x, tree')
  <2> SUFFICES ASSUME call.pc = "walk" PROVE WalkOK(x, tree')
    OBVIOUS
  <2>1. WalkOK(call, tree) /\ call.stayed \subseteq Path
    BY <1>1 DEF FileCallType
  <2>2. \A V : Covered(V, call) => Covered(V, x)
    BY <1>3 DEF SameCall, Covered
  <2> QED
    BY <1>3, <2>1, <2>2 DEF SameCall, WalkOK
<1>7. x.pc = call.pc
  BY <1>3 DEF SameCall
<1> QED
  BY <1>3, <1>4, <1>5, <1>6, <1>7 DEF call

LEMMA OpenWriteKeeps ==
    ASSUME FileInv, NEW c \in FileClient, OpenWrite(c)
    PROVE  FileInv'
<1> DEFINE p == fcall[c].path
<1> HIDE DEF NoFileCall
<1>1. /\ fcall[c].pc = "open" /\ fcfg' = fcfg /\ p \in Path
      /\ fcall[c] \in FileCallType /\ FileCallOK(fcall[c], fcfg)
  BY DEF OpenWrite, FileAt, FileInv, FileCallType
<1>2. fcfg # Nothing /\ fcall[c].fd = Nothing /\ fcall[c].text \in Texts
  BY <1>1 DEF FileCallOK, FileCallType
<1>4. tree[p] # Dir /\ (p # Root => tree[Parent[p]] = Dir)
  BY DEF OpenWrite
<1>5. FileInv'
  <2>1. PICK i \in IF tree[p] = Nothing THEN Fresh ELSE {tree[p]} :
             /\ tree' = [tree EXCEPT ![p] = i]
             /\ data' = [data EXCEPT ![i] = IF i \in InUse THEN Truncated(i) ELSE <<>>]
             /\ fcall' = [Raced(i) EXCEPT ![c] = [NoFileCall EXCEPT
                             !.pc = "write", !.fd = i, !.text = fcall[c].text]]
             /\ muddled' = IF \E k \in FileClient : fcall[k].pc = "write" /\ fcall[k].fd = i
                           THEN muddled \cup {i}
                           ELSE muddled \ {i}
    BY <1>4 DEF OpenWrite
  <2>2. i \in Inode
    <3>1. Fresh \subseteq Inode
      BY DEF Fresh
    <3>2. tree[p] \in Inode \cup {Dir, Nothing}
      BY <1>1 DEF FileInv, TreeType
    <3> QED
      BY <1>4, <2>1, <3>1, <3>2
  <2>3. /\ tree' \in TreeType
        /\ \A q \in Path : tree'[q] = IF q = p THEN i ELSE tree[q]
    BY <1>1, <2>1, <2>2 DEF FileInv, TreeType
  <2>4. InDirs(tree')
    <3> SUFFICES ASSUME NEW q \in Path \ {Root}, tree'[q] # Nothing PROVE tree'[Parent[q]] = Dir
      BY DEF InDirs
    <3>0. Parent[q] \in Path
      BY FileNames
    <3>1. tree[Parent[q]] = Dir
      <4>1. CASE q = p
        BY <1>4, <4>1
      <4>2. CASE q # p
        BY <2>3, <4>2 DEF FileInv, InDirs
      <4> QED
        BY <4>1, <4>2
    <3> QED
      BY <1>4, <2>3, <3>0, <3>1
  <2>5. data' = [data EXCEPT ![i] = <<>>]
    BY <2>1 DEF Truncated
  <2>6. data' \in DataType /\ data'[i] = <<>> /\ \A j \in Inode \ {i} : data'[j] = data[j]
    BY <2>2, <2>5 DEF FileInv, DataType
  <2>7. \A q \in Path : tree[q] # Nothing => tree'[q] # Nothing
    BY <2>2, <2>3, FileNames
  <2> DEFINE r(k) == [fcall[k] EXCEPT !.raced = @ \/ fcall[k].fd = i]
             text == fcall[c].text
             y == [NoFileCall EXCEPT !.pc = "write", !.fd = i, !.text = text]
  <2>8. ASSUME NEW k \in FileClient
        PROVE  /\ r(k) \in FileCallType /\ SameCall(r(k), fcall[k])
               /\ FileCallOK(r(k), fcfg) /\ ReadOK(r(k), data', fcfg)
               /\ r(k).pc = "walk" => WalkOK(r(k), tree')
    <3>1. r(k) = [fcall[k] EXCEPT !.raced = @ \/ fcall[k].fd = i]
      OBVIOUS
    <3> HIDE DEF r
    <3> QED
      BY <2>2, <2>3, <2>6, <2>7, <3>1, FileChanges
  <2>9. fcall' = [k \in FileClient |-> IF k = c THEN y ELSE r(k)]
    BY <2>1 DEF Raced
  <2>10. y = [NoFileCall EXCEPT !.pc = "write", !.fd = i, !.text = text]
    OBVIOUS
  <2>t. text \in Seq(Block) /\ text \in Texts
    BY <1>2, FileAssumption
  <2> HIDE DEF r, y, text
  <2>11. /\ y \in FileCallType /\ y.pc = "write" /\ y.fd = i /\ y.text = text
    BY <2>2, <2>10, <2>t, IdleFileCall DEF FileCallType
  <2>12. FileCallOK(y, fcfg) /\ ReadOK(y, data', fcfg)
    BY <1>2, <2>2, <2>6, <2>11, <2>t, FileNames DEF FileCallOK, ReadOK
  <2>13. fcall' \in [FileClient -> FileCallType]
    BY <2>8, <2>9, <2>11
  <2>14. ASSUME NEW k \in FileClient
         PROVE  /\ FileCallOK(fcall'[k], fcfg) /\ ReadOK(fcall'[k], data', fcfg)
                /\ fcall'[k].pc = "walk" => WalkOK(fcall'[k], tree')
    <3>1. CASE k = c
      <4>1. fcall'[k] = y
        BY <2>9, <3>1
      <4> QED
        BY <2>11, <2>12, <4>1
    <3>2. CASE k # c
      <4>1. fcall'[k] = r(k)
        BY <2>9, <3>2
      <4> QED
        BY <2>8, <4>1
    <3> QED
      BY <3>1, <3>2
  <2>15. \A k \in FileClient \ {c} : fcall'[k].pc = fcall[k].pc /\ fcall'[k].fd = fcall[k].fd
    BY <2>8, <2>9 DEF SameCall
  <2>16. fcall'[c].pc = "write" /\ fcall'[c].fd = i
    BY <2>9, <2>11
  <2>17. ASSUME NEW j \in Inode \ muddled' PROVE FileOK(j, tree', data', fcall')
    <3>1. CASE j = i
      <4>1. \A k \in FileClient : ~(fcall[k].pc = "write" /\ fcall[k].fd = i)
        BY <2>1, <3>1
      <4>2. \A k \in FileClient \ {c} : ~(fcall'[k].pc = "write" /\ fcall'[k].fd = i)
        BY <2>15, <4>1
      <4> QED
        BY <2>6, <2>16, <3>1, <4>2 DEF FileOK
    <3>2. CASE j # i
      <4>1. j \notin muddled
        BY <2>1, <3>2
      <4>2. FileOK(j, tree, data, fcall)
        BY <4>1 DEF FileInv
      <4>3. \A k \in FileClient : (fcall'[k].pc = "write" /\ fcall'[k].fd = j)
                                     <=> (fcall[k].pc = "write" /\ fcall[k].fd = j)
        BY <1>1, <2>15, <2>16, <3>2
      <4>4. (\E q \in Path : tree'[q] = j) => \E q \in Path : tree[q] = j
        BY <2>3, <3>2
      <4>5. data'[j] = data[j]
        BY <2>6, <3>2
      <4> QED
        BY <4>2, <4>3, <4>4, <4>5 DEF FileOK
    <3> QED
      BY <3>1, <3>2
  <2>18. muddled' \subseteq Inode
    BY <2>1, <2>2 DEF FileInv
  <2>19. fcfg' \in [readOnly : BOOLEAN, max : Nat \ {0}] \cup {Nothing}
    BY <1>1 DEF FileInv
  <2> QED
    BY <1>1, <2>3, <2>4, <2>6, <2>13, <2>14, <2>17, <2>18, <2>19 DEF FileInv
<1> QED
  BY <1>5

\* A call's write comes to its end, whole or not: the file has new, and the
\* call goes on as y.
LEMMA WriteEnds ==
    ASSUME FileInv, NEW c \in FileClient, fcall[c].pc = "write",
           NEW i \in Inode, fcall[c].fd = i, NEW new \in Seq(Block),
           data' = [data EXCEPT ![i] = new],
           NEW y \in FileCallType, y.pc \in {"wrote", "failed"},
           FileCallOK(y, fcfg), ReadOK(y, data', fcfg),
           fcall' = [Raced(i) EXCEPT ![c] = y], UNCHANGED <<tree, fcfg>>,
           muddled' \in SUBSET Inode, muddled \subseteq muddled',
           i \notin muddled' /\ data[i] = <<>> => new \in Texts
    PROVE  FileInv'
<1>0. /\ y \in FileCallType /\ y.pc \in {"wrote", "failed"} /\ FileCallOK(y, fcfg)
      /\ ReadOK(y, data', fcfg) /\ (y.pc = "walk" => WalkOK(y, tree'))
  OBVIOUS
<1>5. data' \in DataType /\ data'[i] = new /\ \A j \in Inode \ {i} : data'[j] = data[j]
  BY DEF FileInv, DataType
<1>6. tree' \in TreeType /\ \A q \in Path : tree[q] # Nothing => tree'[q] # Nothing
  BY DEF FileInv
<1> DEFINE r(k) == [fcall[k] EXCEPT !.raced = @ \/ fcall[k].fd = i]
<1>7. ASSUME NEW k \in FileClient
      PROVE  /\ r(k) \in FileCallType /\ SameCall(r(k), fcall[k])
             /\ FileCallOK(r(k), fcfg) /\ ReadOK(r(k), data', fcfg)
             /\ r(k).pc = "walk" => WalkOK(r(k), tree')
  <2>1. r(k) = [fcall[k] EXCEPT !.raced = @ \/ fcall[k].fd = i]
    OBVIOUS
  <2> HIDE DEF r
  <2> QED
    BY <1>5, <1>6, <2>1, FileChanges
<1>8. fcall' = [k \in FileClient |-> IF k = c THEN y ELSE r(k)]
  BY DEF Raced
<1> HIDE DEF r
<1>9. fcall' \in [FileClient -> FileCallType]
  BY <1>0, <1>7, <1>8
<1>10. ASSUME NEW k \in FileClient
       PROVE  /\ FileCallOK(fcall'[k], fcfg) /\ ReadOK(fcall'[k], data', fcfg)
              /\ fcall'[k].pc = "walk" => WalkOK(fcall'[k], tree')
  <2>1. CASE k = c
    <3>1. fcall'[k] = y
      BY <1>8, <2>1
    <3> QED
      BY <1>0, <3>1
  <2>2. CASE k # c
    <3>1. fcall'[k] = r(k)
      BY <1>8, <2>2
    <3> QED
      BY <1>7, <3>1
  <2> QED
    BY <2>1, <2>2
<1>11. \A k \in FileClient \ {c} : fcall'[k].pc = fcall[k].pc /\ fcall'[k].fd = fcall[k].fd
  BY <1>7, <1>8 DEF SameCall
<1>12. fcall'[c].pc # "write"
  BY <1>0, <1>8
<1>13. ASSUME NEW j \in Inode \ muddled' PROVE FileOK(j, tree', data', fcall')
  <2>1. FileOK(j, tree, data, fcall)
    BY DEF FileInv
  <2>2. CASE j = i
    <3>1. /\ \A k \in FileClient : ~(fcall'[k].pc = "write" /\ fcall'[k].fd = j)
          /\ data[j] = <<>>
      BY <1>11, <1>12, <2>1, <2>2 DEF FileOK
    <3>2. data'[j] \in Texts
      BY <1>5, <2>2, <3>1
    <3> QED
      BY <3>1, <3>2 DEF FileOK
  <2>3. CASE j # i
    <3>1. \A k \in FileClient : (fcall'[k].pc = "write" /\ fcall'[k].fd = j)
                                   <=> (fcall[k].pc = "write" /\ fcall[k].fd = j)
      BY <1>11, <1>12, <2>3
    <3>2. data'[j] = data[j] /\ tree' = tree
      BY <1>5, <2>3
    <3> QED
      BY <2>1, <3>1, <3>2 DEF FileOK
  <2> QED
    BY <2>2, <2>3
<1>14. /\ InDirs(tree') /\ muddled' \subseteq Inode /\ fcfg' = fcfg
       /\ fcfg' \in [readOnly : BOOLEAN, max : Nat \ {0}] \cup {Nothing}
  BY DEF FileInv
<1> QED
  BY <1>5, <1>6, <1>9, <1>10, <1>13, <1>14 DEF FileInv

\* What is written over a file.
LEMMA OverShape ==
    ASSUME NEW text \in Seq(Block), NEW old \in Seq(Block)
    PROVE  Over(text, old) \in Seq(Block) /\ (old = <<>> => Over(text, old) = text)
<1>1. Len(text) \in Nat /\ Len(old) \in Nat
  BY LenProperties
<1>2. SubSeq(old, Len(text) + 1, Len(old)) \in Seq(Block)
  <2>1. \A j \in Len(text) + 1 .. Len(old) : j \in 1 .. Len(old)
    BY <1>1
  <2> QED
    BY <1>1, <2>1, SubSeqProperties
<1>3. Over(text, old) \in Seq(Block)
  BY <1>2, ConcatProperties DEF Over
<1>4. ASSUME old = <<>> PROVE Over(text, old) = text
  <2>1. Len(old) = 0
    BY <1>4, EmptySeq
  <2>2. SubSeq(old, Len(text) + 1, Len(old)) = <<>>
    BY <1>1, <1>4, <2>1, SubSeqEmpty
  <2> QED
    BY <2>2, ConcatEmptySeq DEF Over
<1> QED
  BY <1>3, <1>4

LEMMA WriteTextKeeps ==
    ASSUME FileInv, NEW c \in FileClient, WriteText(c)
    PROVE  FileInv'
<1> DEFINE call == fcall[c]
           i == call.fd
           new == Over(call.text, data[i])
           y == [call EXCEPT !.pc = "wrote"]
<1>1. /\ call.pc = "write" /\ data' = [data EXCEPT ![i] = new]
      /\ fcall' = [Raced(i) EXCEPT ![c] = y] /\ UNCHANGED <<tree, fcfg, muddled>>
  BY DEF WriteText, FileAt
<1>2. /\ call \in FileCallType /\ FileCallOK(call, fcfg) /\ ReadOK(call, data, fcfg)
      /\ muddled \in SUBSET Inode /\ y = [call EXCEPT !.pc = "wrote"] /\ i = call.fd
  BY DEF FileInv
<1>3. i \in Inode /\ call.text \in Texts /\ call.text \in Seq(Block) /\ fcfg # Nothing
  BY <1>1, <1>2 DEF FileCallOK, FileCallType
<1>4. data[i] \in Seq(Block) /\ data'[i] = new
  BY <1>1, <1>3 DEF FileInv, DataType
<1>5. new \in Seq(Block) /\ (data[i] = <<>> => new = call.text)
  BY <1>3, <1>4, OverShape
<1> HIDE DEF y, new
<1>6. /\ y \in FileCallType /\ y.pc = "wrote" /\ y.fd = i /\ y.text = call.text
      /\ y.raced = call.raced
  BY <1>2 DEF FileCallType
<1> HIDE DEF i
<1>7. FileCallOK(y, fcfg)
  BY <1>3, <1>6, FileNames DEF FileCallOK
<1>8. ReadOK(y, data', fcfg)
  <2>1. ~call.raced => data[i] = <<>>
    BY <1>1, <1>2 DEF ReadOK
  <2> QED
    BY <1>4, <1>5, <1>6, <2>1 DEF ReadOK
<1> QED
  BY <1>1, <1>2, <1>3, <1>5, <1>6, <1>7, <1>8, WriteEnds

LEMMA WriteFailsKeeps ==
    ASSUME FileInv, NEW c \in FileClient, WriteFails(c)
    PROVE  FileInv'
<1> DEFINE call == fcall[c]
           i == call.fd
           text == call.text
           y == [NoFileCall EXCEPT !.pc = "failed", !.fd = i]
<1>1. PICK n \in 0 .. Len(text) - 1 : data' = [data EXCEPT ![i] = Over(SubSeq(text, 1, n), @)]
  BY DEF WriteFails
<1> DEFINE new == Over(SubSeq(text, 1, n), data[i])
<1>2. /\ call.pc = "write" /\ data' = [data EXCEPT ![i] = new]
      /\ fcall' = [Raced(i) EXCEPT ![c] = y] /\ UNCHANGED <<tree, fcfg>>
      /\ muddled' = muddled \cup {i}
  BY <1>1 DEF WriteFails, FileAt
<1>3. /\ call \in FileCallType /\ FileCallOK(call, fcfg) /\ muddled \in SUBSET Inode
      /\ y = [NoFileCall EXCEPT !.pc = "failed", !.fd = i]
  BY DEF FileInv
<1>4. i \in Inode /\ text \in Seq(Block) /\ fcfg # Nothing
  BY <1>2, <1>3 DEF FileCallOK, FileCallType
<1>5. data[i] \in Seq(Block)
  BY <1>4 DEF FileInv, DataType
<1>6. SubSeq(text, 1, n) \in Seq(Block)
  <2>1. \A j \in 1 .. n : j \in 1 .. Len(text)
    BY <1>4, LenProperties
  <2> QED
    BY <1>4, <2>1, LenProperties, SubSeqProperties
<1>7. new \in Seq(Block)
  BY <1>5, <1>6, OverShape
<1> HIDE DEF y, new, i, NoFileCall
<1>8. y \in FileCallType /\ y.pc = "failed" /\ y.fd = i
  BY <1>3, <1>4, IdleFileCall DEF FileCallType
<1>9. FileCallOK(y, fcfg) /\ ReadOK(y, data', fcfg)
  BY <1>4, <1>8, FileNames DEF FileCallOK, ReadOK
<1>10. fcall[c].fd = i /\ i \in muddled' /\ muddled' \in SUBSET Inode /\ muddled \subseteq muddled'
  BY <1>2, <1>3, <1>4 DEF i
<1> QED
  BY <1>2, <1>4, <1>7, <1>8, <1>9, <1>10, WriteEnds

\* What ends a call or unlinks a path, and with it frees what is not referred
\* to any more: no call of the next state is at work on a file that is freed.
LEMMA FilesFree ==
    ASSUME FileInv, tree' \in TreeType, InDirs(tree'),
           \A q \in Path, j \in Inode : tree'[q] = j => tree[q] = j,
           fcall' \in [FileClient -> FileCallType],
           \A k \in FileClient :
              /\ FileCallOK(fcall'[k], fcfg') /\ ReadOK(fcall'[k], data, fcfg')
              /\ fcall'[k].pc = "walk" => WalkOK(fcall'[k], tree')
              /\ fcall'[k].pc = "write" => fcall[k].pc = "write" /\ fcall'[k].fd = fcall[k].fd,
           NEW spoilt \in SUBSET Inode, muddled \subseteq spoilt, Frees(spoilt),
           \A k \in FileClient : fcall[k].pc = "write" /\ fcall[k].fd \notin spoilt =>
              fcall'[k].pc = "write" /\ fcall'[k].fd = fcall[k].fd,
           fcfg' \in [readOnly : BOOLEAN, max : Nat \ {0}] \cup {Nothing}
    PROVE  FileInv'
<1> DEFINE kept == Referred(tree', fcall')
<1>1. /\ data' = [j \in Inode |-> IF j \in kept THEN data[j] ELSE <<>>]
      /\ muddled' = spoilt \cap kept
  BY DEF Frees
<1>2. /\ \A p \in Path : tree'[p] \in kept
      /\ \A k \in FileClient : fcall'[k].fd \in kept
  BY DEF Referred
<1> HIDE DEF kept
<1>3. data' \in DataType
  BY <1>1 DEF FileInv, DataType
<1>4. ASSUME NEW k \in FileClient PROVE ReadOK(fcall'[k], data', fcfg')
  <2>1. FileCallOK(fcall'[k], fcfg') /\ ReadOK(fcall'[k], data, fcfg') /\ fcall'[k] \in FileCallType
    OBVIOUS
  <2>2. fcall'[k].pc \in {"read", "write", "wrote"} => data'[fcall'[k].fd] = data[fcall'[k].fd]
    BY <1>1, <1>2, <2>1 DEF FileCallOK, FileCallType
  <2> QED
    BY <2>1, <2>2 DEF ReadOK
<1>5. ASSUME NEW j \in Inode \ muddled' PROVE FileOK(j, tree', data', fcall')
  <2>1. CASE j \notin kept
    <3>1. /\ \A k \in FileClient : fcall'[k].fd # j
          /\ \A p \in Path : tree'[p] # j
      BY <1>2, <2>1
    <3> QED
      BY <3>1 DEF FileOK
  <2>2. CASE j \in kept
    <3>1. j \notin spoilt /\ j \notin muddled /\ data'[j] = data[j]
      BY <1>1, <2>2
    <3>2. FileOK(j, tree, data, fcall)
      BY <3>1 DEF FileInv
    <3>3. \A k \in FileClient : (fcall'[k].pc = "write" /\ fcall'[k].fd = j)
                                   <=> (fcall[k].pc = "write" /\ fcall[k].fd = j)
      BY <3>1
    <3>4. (\E p \in Path : tree'[p] = j) => \E p \in Path : tree[p] = j
      OBVIOUS
    <3> QED
      BY <3>1, <3>2, <3>3, <3>4 DEF FileOK
  <2> QED
    BY <2>1, <2>2
<1>6. muddled' \subseteq Inode
  BY <1>1
<1> QED
  BY <1>3, <1>4, <1>5, <1>6 DEF FileInv

LEMMA UnlinksKeeps ==
    ASSUME FileInv, NEW c \in FileClient, Unlinks(c)
    PROVE  FileInv'
<1> DEFINE p == fcall[c].path
           r(k) == [fcall[k] EXCEPT !.stayed = {q \in @ : tree'[q] # Nothing}]
<1> HIDE DEF NoFileCall
<1>1. /\ fcall[c].pc = "remove" /\ p \in Path /\ tree' = Removed(p)
      /\ fcall' = [k \in FileClient |-> IF k = c THEN NoFileCall ELSE r(k)]
      /\ Frees(muddled) /\ fcfg' = fcfg
  BY DEF Unlinks, FileAt, FileInv, FileCallType
<1>2. /\ tree' \in TreeType
      /\ \A q \in Path : tree'[q] # Nothing => tree'[q] = tree[q]
      /\ \A q \in Path : tree'[q] = tree[q] \/ (q = p /\ Children(p) = {})
  <2>1. CASE Children(p) = {}
    <3>1. tree' = [tree EXCEPT ![p] = Nothing]
      BY <1>1, <2>1 DEF Removed
    <3> QED
      BY <1>1, <2>1, <3>1 DEF FileInv, TreeType
  <2>2. CASE Children(p) # {}
    <3>1. tree' = tree
      BY <1>1, <2>2 DEF Removed
    <3> QED
      BY <3>1 DEF FileInv
  <2> QED
    BY <2>1, <2>2
<1>3. InDirs(tree')
  <2> SUFFICES ASSUME NEW q \in Path \ {Root}, tree'[q] # Nothing PROVE tree'[Parent[q]] = Dir
    BY DEF InDirs
  <2>1. Parent[q] \in Path /\ tree[q] # Nothing
    BY <1>2, FileNames
  <2>2. tree[Parent[q]] = Dir
    BY <2>1 DEF FileInv, InDirs
  <2>3. Parent[q] = p => q \in Children(p)
    BY <2>1 DEF Children
  <2> QED
    BY <1>2, <2>1, <2>2, <2>3
<1>4. ASSUME NEW k \in FileClient
      PROVE  /\ r(k) \in FileCallType /\ r(k).pc = fcall[k].pc /\ r(k).fd = fcall[k].fd
             /\ FileCallOK(r(k), fcfg) /\ ReadOK(r(k), data, fcfg)
             /\ r(k).pc = "walk" => WalkOK(r(k), tree')
  <2> DEFINE call == fcall[k]
             still == {q \in call.stayed : tree'[q] # Nothing}
             x == r(k)
  <2>1. /\ call \in FileCallType /\ FileCallOK(call, fcfg) /\ ReadOK(call, data, fcfg)
        /\ call.pc = "walk" => WalkOK(call, tree)
    BY DEF FileInv
  <2>2. x = [call EXCEPT !.stayed = still]
    OBVIOUS
  <2>3. still \in SUBSET Path /\ call.stayed \subseteq Path
    BY <2>1 DEF FileCallType
  <2>s. \A q : q \in still <=> q \in call.stayed /\ tree'[q] # Nothing
    OBVIOUS
  <2> HIDE DEF call, still, x
  <2>4. /\ x \in FileCallType /\ x.pc = call.pc /\ x.fd = call.fd /\ x.text = call.text
        /\ x.size = call.size /\ x.todo = call.todo /\ x.hits = call.hits
        /\ x.limit = call.limit /\ x.stayed = still /\ x.raced = call.raced
        /\ x.skipped = call.skipped
    BY <2>1, <2>2, <2>3 DEF FileCallType
  <2>5. FileCallOK(x, fcfg) /\ ReadOK(x, data, fcfg)
    BY <2>1, <2>4 DEF FileCallOK, ReadOK
  <2>6. call.pc = "walk" => WalkOK(x, tree')
    <3> SUFFICES ASSUME call.pc = "walk" PROVE WalkOK(x, tree')
      OBVIOUS
    <3>1. WalkOK(call, tree)
      BY <2>1
    <3>2. \A V : Covered(V, call) => Covered(V, x)
      BY <2>4, <2>s DEF Covered
    <3>3. ASSUME NEW q \in still PROVE tree'[q] # Nothing /\ (q # Root => Parent[q] \in still)
      <4>1. q \in call.stayed /\ tree'[q] # Nothing /\ q \in Path
        BY <2>3, <2>s
      <4>2. ASSUME q # Root PROVE Parent[q] \in still
        <5>1. Parent[q] \in call.stayed
          BY <3>1, <4>1, <4>2 DEF WalkOK
        <5>2. tree'[Parent[q]] = Dir
          BY <1>3, <4>1, <4>2 DEF InDirs
        <5> QED
          BY <2>s, <5>1, <5>2, FileNames
      <4> QED
        BY <4>1, <4>2
    <3> QED
      BY <2>4, <3>1, <3>2, <3>3 DEF WalkOK
  <2> QED
    BY <2>4, <2>5, <2>6 DEF call, x
<1> HIDE DEF r
<1>5. fcall' \in [FileClient -> FileCallType]
  BY <1>1, <1>4, IdleFileCall
<1>6. ASSUME NEW k \in FileClient
      PROVE  /\ FileCallOK(fcall'[k], fcfg') /\ ReadOK(fcall'[k], data, fcfg')
             /\ fcall'[k].pc = "walk" => WalkOK(fcall'[k], tree')
             /\ fcall'[k].pc = "write" <=> fcall[k].pc = "write"
             /\ fcall'[k].pc = "write" => fcall'[k].fd = fcall[k].fd
  <2>1. CASE k = c
    <3>1. fcall'[k] = NoFileCall /\ fcall[k].pc # "write"
      BY <1>1, <2>1
    <3> QED
      BY <3>1, IdleFileCall
  <2>2. CASE k # c
    <3>1. fcall'[k] = r(k)
      BY <1>1, <2>2
    <3> QED
      BY <1>1, <1>4, <3>1
  <2> QED
    BY <2>1, <2>2
<1>7. \A q \in Path, j \in Inode : tree'[q] = j => tree[q] = j
  BY <1>2, FileNames
<1>8. muddled \in SUBSET Inode /\ fcfg' \in [readOnly : BOOLEAN, max : Nat \ {0}] \cup {Nothing}
  BY <1>1 DEF FileInv
<1> QED
  BY <1>1, <1>2, <1>3, <1>5, <1>6, <1>7, <1>8, FilesFree

-----------------------------------------------------------------------------
(* filesystem: every step, and what the invariant says of the answers. *)

LEMMA ReturnKeeps ==
    ASSUME FileInv, NEW c \in FileClient, Return(c)
    PROVE  FileInv'
<1> HIDE DEF NoFileCall
<1>1. /\ fcall[c].pc # "write" /\ fcall' = [fcall EXCEPT ![c] = NoFileCall]
      /\ UNCHANGED <<tree, fcfg>> /\ Frees(muddled)
  BY DEF Return, Walked, FileAt
<1>2. \A k \in FileClient : fcall'[k] = IF k = c THEN NoFileCall ELSE fcall[k]
  BY <1>1 DEF FileInv
<1>3. fcall' \in [FileClient -> FileCallType]
  BY <1>1, IdleFileCall DEF FileInv
<1>4. ASSUME NEW k \in FileClient
      PROVE  /\ FileCallOK(fcall'[k], fcfg') /\ ReadOK(fcall'[k], data, fcfg')
             /\ fcall'[k].pc = "walk" => WalkOK(fcall'[k], tree')
             /\ fcall'[k].pc = "write" <=> fcall[k].pc = "write"
             /\ fcall'[k].pc = "write" => fcall'[k].fd = fcall[k].fd
  BY <1>1, <1>2, IdleFileCall DEF FileInv
<1>5. /\ tree' \in TreeType /\ InDirs(tree') /\ muddled \in SUBSET Inode
      /\ fcfg' \in [readOnly : BOOLEAN, max : Nat \ {0}] \cup {Nothing}
      /\ \A q \in Path, j \in Inode : tree'[q] = j => tree[q] = j
  BY <1>1 DEF FileInv
<1> QED
  BY <1>1, <1>3, <1>4, <1>5, FilesFree

LEMMA FilesDieKeeps == ASSUME FileInv, FilesDie PROVE FileInv'
<1> DEFINE spoilt == muddled \cup {i \in Inode : \E c \in FileClient :
                                     fcall[c].pc = "write" /\ fcall[c].fd = i}
<1> HIDE DEF NoFileCall
<1>1. /\ fcfg' = Nothing /\ fcall' = [c \in FileClient |-> NoFileCall] /\ tree' = tree
      /\ Frees(spoilt)
  BY DEF FilesDie
<1>2. spoilt \in SUBSET Inode /\ muddled \subseteq spoilt
  BY DEF FileInv
<1>3. ASSUME NEW k \in FileClient, fcall[k].pc = "write" PROVE fcall[k].fd \in spoilt
  <2>1. fcall[k].fd \in Inode
    BY <1>3 DEF FileInv, FileCallOK, FileCallType
  <2> QED
    BY <1>3, <2>1
<1> HIDE DEF spoilt
<1>4. fcall' \in [FileClient -> FileCallType]
  BY <1>1, IdleFileCall
<1>5. ASSUME NEW k \in FileClient
      PROVE  /\ FileCallOK(fcall'[k], fcfg') /\ ReadOK(fcall'[k], data, fcfg')
             /\ fcall'[k].pc = "idle"
  BY <1>1, IdleFileCall
<1>6. /\ tree' \in TreeType /\ InDirs(tree')
      /\ \A q \in Path, j \in Inode : tree'[q] = j => tree[q] = j
  BY <1>1 DEF FileInv
<1> QED
  BY <1>1, <1>2, <1>3, <1>4, <1>5, <1>6, FilesFree

LEMMA InitFilesKeeps == ASSUME FileInv, InitFiles PROVE FileInv'
<1>1. /\ fcfg = Nothing /\ UNCHANGED <<tree, data, fcall, muddled>>
  BY DEF InitFiles
<1>2. fcfg' \in [readOnly : BOOLEAN, max : Nat \ {0}]
  <2>1. \A n \in Limits : Limit(n) \in Nat \ {0}
    BY FileAssumption DEF Limit
  <2> QED
    BY <2>1 DEF InitFiles
<1>3. ASSUME NEW k \in FileClient
      PROVE  FileCallOK(fcall[k], fcfg') /\ ReadOK(fcall[k], data, fcfg') /\ fcall[k].pc = "idle"
  <2>1. FileCallOK(fcall[k], fcfg) /\ fcall[k].pc = "idle"
    BY <1>1 DEF FileInv, FileCallOK
  <2> QED
    BY <2>1 DEF FileCallOK, ReadOK
<1> QED
  BY <1>1, <1>2, <1>3 DEF FileInv

LEMMA FileKeeps == FileInv /\ [FilesNext]_fvars => FileInv'
<1> SUFFICES ASSUME FileInv, [FilesNext]_fvars PROVE FileInv'
  OBVIOUS
<1>1. CASE InitFiles
  BY <1>1, InitFilesKeeps
<1>2. ASSUME fcfg # Nothing, NEW c \in FileClient, NEW p \in Path, OpenRead(c, p) PROVE FileInv'
  BY <1>2, OpenReadKeeps
<1>3. ASSUME fcfg # Nothing, NEW c \in FileClient, NEW p \in Path, StatDelete(c, p) PROVE FileInv'
  BY <1>3, StatDeleteKeeps
<1>4. ASSUME fcfg # Nothing, NEW c \in FileClient, NEW p \in Path, NEW text \in Texts,
             NEW dirs \in BOOLEAN, Stat(c, p, text, dirs)
      PROVE  FileInv'
  BY <1>4, StatKeeps
<1>5. ASSUME fcfg # Nothing, NEW c \in FileClient, NEW n \in Wanted, StartWalk(c, n) PROVE FileInv'
  <2>1. n \in Int
    BY FileAssumption
  <2> QED
    BY <1>5, <2>1, StartWalkKeeps
<1>6. ASSUME NEW c \in FileClient, ReadAll(c) PROVE FileInv'
  BY <1>6, ReadAllKeeps
<1>7. ASSUME NEW c \in FileClient, OpenWrite(c) PROVE FileInv'
  BY <1>7, OpenWriteKeeps
<1>8. ASSUME NEW c \in FileClient, WriteText(c) PROVE FileInv'
  BY <1>8, WriteTextKeeps
<1>9. ASSUME NEW c \in FileClient, Unlinks(c) PROVE FileInv'
  BY <1>9, UnlinksKeeps
<1>10. ASSUME NEW c \in FileClient, Visit(c) PROVE FileInv'
  BY <1>10, VisitKeeps
<1>11. ASSUME NEW c \in FileClient, Return(c) PROVE FileInv'
  BY <1>11, ReturnKeeps
<1>12. CASE UNCHANGED fvars
  BY <1>12 DEF fvars, FileInv
<1>13. CASE FilesDie
  BY <1>13, FilesDieKeeps
<1>14. ASSUME NEW c \in FileClient, WriteFails(c) PROVE FileInv'
  BY <1>14, WriteFailsKeeps
<1>15. ASSUME NEW c \in FileClient, Skip(c) PROVE FileInv'
  BY <1>15, SkipKeeps
<1> QED
  BY <1>1, <1>2, <1>3, <1>4, <1>5, <1>6, <1>7, <1>8, <1>9, <1>10, <1>11, <1>12, <1>13, <1>14,
     <1>15 DEF FilesNext

\* Of paths that are not Root one has its directory not among them: the one
\* that Order has first.
LEMMA TopOfPaths ==
    ASSUME NEW S \in SUBSET (Path \ {Root}), S # {}
    PROVE  \E q \in S : Parent[q] \notin S
<1> DEFINE I == {j \in 1 .. Len(Order) : Order[j] \in S}
<1>1. /\ Order \in [1 .. Len(Order) -> Path] /\ Len(Order) \in Nat /\ DOMAIN Order = 1 .. Len(Order)
  BY FileAssumption, LenProperties
<1>2. \A p \in Path : \E j \in 1 .. Len(Order) : Order[j] = p
  BY <1>1, FileAssumption DEF ToSet
<1>3. I \in SUBSET Nat /\ I # {}
  BY <1>1, <1>2
<1>4. PICK j \in I : \A k \in I : j <= k
  BY <1>3, LeastIsThere
<1>5. Order[j] \in S /\ Order[j] # Root /\ j \in 1 .. Len(Order)
  BY <1>4
<1>6. ASSUME Parent[Order[j]] \in S PROVE FALSE
  <2>1. PICK k \in 1 .. Len(Order) : Order[k] = Parent[Order[j]]
    BY <1>2, <1>6
  <2>2. k < j
    BY <1>1, <1>5, <2>1, FileAssumption
  <2>3. j <= k
    BY <1>4, <1>6, <2>1
  <2> QED
    BY <1>1, <1>5, <2>1, <2>2, <2>3
<1> QED
  BY <1>5, <1>6

\* What is above the directory of a path is above the path.
LEMMA AncestorsOfParent ==
    ASSUME NEW q \in Path, q # Root
    PROVE  Parent[q] \in Path /\ {Parent[q]} \cup Ancestors[Parent[q]] \subseteq Ancestors[q]
<1>1. Parent[q] \in Path
  BY FileNames
<1>2. /\ Ancestors[q] = {r \in Path : \A S \in SUBSET Path :
                           Upward(S) /\ (q # Root => Parent[q] \in S) => r \in S}
      /\ Ancestors[Parent[q]] =
            {r \in Path : \A S \in SUBSET Path :
               Upward(S) /\ (Parent[q] # Root => Parent[Parent[q]] \in S) => r \in S}
  BY <1>1 DEF Ancestors
<1>3. Parent[q] \in Ancestors[q]
  BY <1>1, <1>2
<1>4. ASSUME NEW r \in Ancestors[Parent[q]] PROVE r \in Ancestors[q]
  <2>1. r \in Path
    BY <1>2
  <2>2. ASSUME NEW S \in SUBSET Path, Upward(S), Parent[q] \in S PROVE r \in S
    <3>1. Parent[q] # Root => Parent[Parent[q]] \in S
      BY <2>2 DEF Upward
    <3> QED
      BY <1>2, <2>2, <3>1
  <2> QED
    BY <1>2, <2>1, <2>2
<1> QED
  BY <1>1, <1>3, <1>4

LEMMA FileShown == FileInv => FileTypeOK /\ WritesAreWhole /\ ReadsFit /\ SearchIsComplete
<1> SUFFICES ASSUME FileInv PROVE FileTypeOK /\ WritesAreWhole /\ ReadsFit /\ SearchIsComplete
  OBVIOUS
<1>1. FileTypeOK
  BY DEF FileInv, FileTypeOK, TreeType, DataType, FileCallType
<1>2. WritesAreWhole
  <2>1. ASSUME NEW p \in Path, tree[p] \in Inode \ muddled,
               ~ \E c \in FileClient : FileAt(c, "write") /\ fcall[c].fd = tree[p]
        PROVE  data[tree[p]] \in Texts
    <3>1. FileOK(tree[p], tree, data, fcall)
      BY <2>1 DEF FileInv
    <3>2. \A k \in FileClient : ~(fcall[k].pc = "write" /\ fcall[k].fd = tree[p])
      BY <2>1 DEF FileAt
    <3> QED
      BY <3>1, <3>2 DEF FileOK
  <2>2. ASSUME NEW c \in FileClient, FileAt(c, "wrote"), ~fcall[c].raced
        PROVE  data[fcall[c].fd] = fcall[c].text
    BY <2>2 DEF FileInv, ReadOK, FileAt
  <2> QED
    BY <2>1, <2>2 DEF WritesAreWhole
<1>3. ReadsFit
  BY DEF FileInv, ReadOK, ReadsFit, FileAt
<1>4. SearchIsComplete
  <2> SUFFICES ASSUME NEW c \in FileClient, Walked(c)
               PROVE  LET n == Cardinality(fcall[c].hits)
                          reached == {p \in Path :
                                        fcall[c].skipped \cap ({p} \cup Ancestors[p]) = {}}
                      IN  /\ n = 0 \/ n <= fcall[c].limit
                          /\ n < fcall[c].limit =>
                                Matching \cap fcall[c].stayed \cap reached \subseteq fcall[c].hits
    BY DEF SearchIsComplete
  <2> DEFINE skipped == fcall[c].skipped
             reached == {p \in Path : skipped \cap ({p} \cup Ancestors[p]) = {}}
  <2>1. /\ fcall[c].todo = {} /\ WalkOK(fcall[c], tree) /\ fcall[c].stayed \subseteq Path
    BY DEF Walked, FileAt, FileInv, FileCallType
  <2>2. ASSUME Cardinality(fcall[c].hits) < fcall[c].limit
        PROVE  Matching \cap fcall[c].stayed \cap reached \subseteq fcall[c].hits
    <3>1. PICK V \in SUBSET Path : Covered(V, fcall[c])
      BY <2>1, <2>2 DEF WalkOK
    <3> DEFINE S == (fcall[c].stayed \cap reached) \ V
    <3>2. ASSUME NEW q \in S PROVE q \in Path \ {Root} /\ Parent[q] \in S
      <4>1. q \in fcall[c].stayed \ V /\ q \notin skipped /\ q \in Path
        BY <2>1, <3>2
      <4>2. q # Root /\ Parent[q] \notin V
        BY <2>1, <3>1, <4>1 DEF Covered
      <4>3. Parent[q] \in fcall[c].stayed
        BY <2>1, <4>1, <4>2 DEF WalkOK
      <4>4. Parent[q] \in reached
        <5>1. skipped \cap Ancestors[q] = {}
          BY <3>2
        <5> QED
          BY <4>1, <4>2, <5>1, AncestorsOfParent
      <4> QED
        BY <4>1, <4>2, <4>3, <4>4
    <3>3. S = {}
      <4>1. S \in SUBSET (Path \ {Root}) /\ \A q \in S : Parent[q] \in S
        BY <3>2
      <4> HIDE DEF S
      <4> QED
        BY <4>1, TopOfPaths
    <3> QED
      BY <3>1, <3>3 DEF Covered
  <2> QED
    BY <2>1, <2>2 DEF WalkOK
<1> QED
  BY <1>1, <1>2, <1>3, <1>4

-----------------------------------------------------------------------------
(* All connectors: a step is of one of them, and the others rest.           *)

ConnectorsInv == FileInv /\ GitInv /\ FetchInv /\ SwagInv /\ ObjInv /\ SqlInv

LEMMA ConnectorsStart == ConnectorsInit => ConnectorsInv
BY FilesStart, GitStartsOff, FetchStarts, SwagStarts, ObjStarts, SqlStarts
   DEF ConnectorsInit, ConnectorsInv

\* A step is a step of each connector, or one that it rests in.
LEMMA StepOfEach ==
    [ConnectorsNext]_all => /\ [FilesNext]_fvars /\ [GitNext]_gvars /\ [FetchNext]_hvars
                            /\ [SwaggerNext]_svars /\ [ObjectsNext]_ovars /\ [SqlNext]_qvars
BY DEF ConnectorsNext, all, rest

LEMMA ConnectorsKeep == ConnectorsInv /\ [ConnectorsNext]_all => ConnectorsInv'
BY StepOfEach, FileKeeps, GitKeeps, FetchKeeps, SwagKeeps, ObjKeeps, SqlKeeps DEF ConnectorsInv

LEMMA ConnectorsHold == ConnectorsSpec => []ConnectorsInv
BY ConnectorsStart, ConnectorsKeep, PTL DEF ConnectorsSpec

\* The variables of the connectors keep their types, whatever the limits of a
\* configuration and however many clients call: a limit is never zero.
THEOREM ConnectorsTyping == ConnectorsSpec => []ConnectorsTypeOK
<1>1. ConnectorsInv => ConnectorsTypeOK
  BY FileShown, GitShown, FetchShown, SwagShown, ObjShown, SqlShown
     DEF ConnectorsInv, ConnectorsTypeOK
<1> QED
  BY ConnectorsHold, <1>1, PTL

\* A configured credential is not overridden by the headers of a call (fetch),
\* and what is sent is the operation that the tool's name stands for, with the
\* parameters it needs (swagger), however calls interleave with a reload.
THEOREM RequestsGoOutWhole == ConnectorsSpec => []RequestsAreWhole
<1>1. ConnectorsInv => RequestsAreWhole
  BY FetchShown, SwagShown DEF ConnectorsInv, RequestsAreWhole
<1> QED
  BY ConnectorsHold, <1>1, PTL

\* What a cap, a deadline, a lost connection or a change in the middle cut short
\* does not pass for whole, for every cap and every interleaving of the calls:
\* logs, bodies (marked when cut, with a byte more than the cap), pages, the rows
\* of Query, files that do not change while they are read, and searches but for
\* the entries that could not be read.  It does not speak of the SQL list tools,
\* which never ask rows.Err.
THEOREM ResultsComeWhole == ConnectorsSpec => []ResultsAreWhole
<1>1. ConnectorsInv => ResultsAreWhole
  BY FileShown, GitShown, FetchShown, ObjShown, SqlShown DEF ConnectorsInv, ResultsAreWhole
<1> QED
  BY ConnectorsHold, <1>1, PTL

\* A file has one text whole when no writer is at work, unless two calls wrote it
\* at once or its last write failed or died; a write that came to its end is what
\* is there until the next; and an object call answered as done has done what it
\* says, but for the delete of s3 and errors of oss that look like a missing object.
THEOREM WritesLast == ConnectorsSpec => []WritesTakeEffect
<1>1. ConnectorsInv => WritesTakeEffect
  BY FileShown, ObjShown DEF ConnectorsInv, WritesTakeEffect
<1> QED
  BY ConnectorsHold, <1>1, PTL

\* The rate limiter lets no more than two bursts pass in a minute, whatever the
\* configured rate, the length of a tick and the number of callers.
THEOREM RateHolds == ConnectorsSpec => []RateIsBounded
<1>1. ConnectorsInv => RateIsBounded
  BY SwagShown DEF ConnectorsInv
<1> QED
  BY ConnectorsHold, <1>1, PTL

\* Once the spec of an instance is read, a tool's name stands for one operation.
THEOREM NamesStay == ConnectorsSpec => StableNames
<1>1. ConnectorsInv /\ [ConnectorsNext]_all
         => [ops # <<>> => \A n \in Name : FirstNamed(ops', n) = FirstNamed(ops, n)]_svars
  BY StepOfEach, SwagNames DEF ConnectorsInv
<1> QED
  BY ConnectorsHold, <1>1, PTL DEF ConnectorsSpec, StableNames

=============================================================================
