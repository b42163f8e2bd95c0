------------------------------ MODULE GitCalls ------------------------------
(***************************************************************************)
(* connectors/builtin/git/git.go: every tool runs one git process over the *)
(* repository, which others change, and kills it at a deadline.  A process *)
(* that git itself starts (a text conversion, a file monitor) can keep its *)
(* output open, also when git is gone.  External: git and the repository.  *)
(***************************************************************************)
EXTENDS Integers, SequencesExt

CONSTANTS GitCaller,
          MaxCommits,          \* bound: commits in the repository
          LogCaps, DefaultCap, \* max_log_entries in configurations
          Counts,              \* max_count in calls of log
          Unset

ASSUME GitAssumption == /\ MaxCommits \in Nat \ {0} /\ DefaultCap \in Nat \ {0}
                        /\ LogCaps \subseteq Int /\ Counts \subseteq Int /\ Unset \notin Int

VARIABLES
    commits,  \* how many commits there are: 1 is the oldest
    matching, \* some tracked line matches the query
    logCap,   \* cfg.MaxLogEntries, or Unset before Init
    gcall     \* the call of each client and its git process

gvars == <<commits, matching, logCap, gcall>>

NoGitCall == [pc |-> "idle", tool |-> "log", count |-> 0, want |-> <<>>, out |-> <<>>,
              exit |-> 0, helper |-> FALSE, ok |-> FALSE]

GitInit == /\ commits = 1 /\ matching \in BOOLEAN
           /\ logCap = Unset
           /\ gcall = [c \in GitCaller |-> NoGitCall]

GitAt(c, pc) == gcall[c].pc = pc
Least(a, b) == IF a < b THEN a ELSE b

-----------------------------------------------------------------------------
\* Init
Cap(n) == IF n <= 0 THEN DefaultCap ELSE n

InitGit == /\ logCap = Unset
           /\ \E n \in LogCaps : logCap' = Cap(n)
           /\ UNCHANGED <<commits, matching, gcall>>

\* What others do to the repository.
RepoChanges == /\ \/ commits < MaxCommits /\ commits' = commits + 1 /\ UNCHANGED matching
                  \/ matching' = ~matching /\ UNCHANGED commits
               /\ UNCHANGED <<logCap, gcall>>

\* The number after the dash in git's arguments: only capped from above.
Asked(count) == Least(count, logCap)

Run(c, tool, count) ==
    /\ logCap # Unset /\ GitAt(c, "idle")
    /\ gcall' = [gcall EXCEPT ![c] = [NoGitCall EXCEPT !.pc = "run", !.tool = tool,
                                                       !.count = count]]
    /\ UNCHANGED <<commits, matching, logCap>>

RunLog(c) == \E n \in Counts : Run(c, "log", Asked(n))
RunSearch(c) == Run(c, "search", 0)
\* show, diff, status, branches and blame: their arguments, and what git's
\* text is taken apart into, play no part here.
RunPlain(c) == Run(c, "plain", 0)

-----------------------------------------------------------------------------
(* The git process *)

\* Newest first; -0 is none, and a negative count is no option of git's.
LogLines(n) == [k \in 1 .. Least(n, commits) |-> commits + 1 - k]

GitStarts(c) ==
    LET call == gcall[c]
        exit == IF call.tool = "log" /\ call.count < 0 THEN 128
                ELSE IF call.tool = "search" /\ ~matching THEN 1 ELSE 0
        want == IF exit # 0 THEN <<>> ELSE IF call.tool = "log" THEN LogLines(call.count)
                                           ELSE <<commits>>
    IN  /\ GitAt(c, "run")
        /\ \E n \in 0 .. Len(want), helper \in BOOLEAN :
              gcall' = [gcall EXCEPT ![c].pc = "running", ![c].want = want,
                           ![c].out = SubSeq(want, 1, n), ![c].exit = exit,
                           ![c].helper = helper]
        /\ UNCHANGED <<commits, matching, logCap>>

GitExits(c) == /\ GitAt(c, "running")
               /\ gcall' = [gcall EXCEPT ![c].pc = "exited", ![c].out = gcall[c].want]
               /\ UNCHANGED <<commits, matching, logCap>>

\* The context's deadline: git is killed with what it has written so far.
Deadline(c) == /\ gcall[c].pc \in {"run", "running"}
               /\ gcall' = [gcall EXCEPT ![c].pc = "exited", ![c].exit = -1]
               /\ UNCHANGED <<commits, matching, logCap>>

HelperEnds(c) == /\ gcall[c].helper
                 /\ gcall' = [gcall EXCEPT ![c].helper = FALSE]
                 /\ UNCHANGED <<commits, matching, logCap>>

-----------------------------------------------------------------------------
\* cmd.Run waits for git and for the end of its output.  Every exit but 0 is
\* an error, also 1 of git grep: run wraps the ExitError that toolSearch
\* looks for.
Returns(call) == call.exit = 0

Answer(c) == /\ GitAt(c, "exited") /\ ~gcall[c].helper
             /\ gcall' = [gcall EXCEPT ![c].pc = "answered", ![c].ok = Returns(gcall[c])]
             /\ UNCHANGED <<commits, matching, logCap>>

Leave(c) == /\ GitAt(c, "answered")
            /\ gcall' = [gcall EXCEPT ![c] = NoGitCall]
            /\ UNCHANGED <<commits, matching, logCap>>

GitCallStep(c) == Deadline(c) \/ Answer(c) \/ Leave(c)

GitNext == \/ InitGit \/ RepoChanges
           \/ \E c \in GitCaller : \/ RunLog(c) \/ RunSearch(c) \/ RunPlain(c)
                                   \/ GitStarts(c) \/ GitExits(c) \/ HelperEnds(c)
                                   \/ GitCallStep(c)

\* The deadline comes; nobody can say that of git, or of what git starts.
GitFairSpec == /\ GitInit /\ [][GitNext]_gvars
               /\ \A c \in GitCaller : WF_gvars(GitCallStep(c))

-----------------------------------------------------------------------------
GitTypeOK == /\ commits \in 1 .. MaxCommits /\ matching \in BOOLEAN
             /\ logCap \in (Nat \ {0}) \cup {Unset}
             /\ \A c \in GitCaller : gcall[c].exit \in {-1, 0, 1, 128}

Answered(c, tool) == GitAt(c, "answered") /\ gcall[c].tool = tool

\* "MaxLogEntries caps the size of log results", and they are the most recent
\* commits, without a gap, of one moment of the call.
LogIsCapped ==
    \A c \in GitCaller : Answered(c, "log") /\ gcall[c].ok =>
       LET out == gcall[c].out
       IN  /\ Len(out) <= logCap
           /\ \A k \in DOMAIN out : out[k] = out[1] + 1 - k /\ out[k] <= commits

\* An answer that is not an error is all that git had to say: what a killed
\* git had written before never counts as its answer.
NothingTorn ==
    \A c \in GitCaller : gcall[c].pc = "answered" /\ gcall[c].ok =>
       gcall[c].out = gcall[c].want /\ gcall[c].exit = 0

\* "TimeoutSec bounds each git invocation": a call ends although git does not,
\* unless a process that git started keeps the output open for good: that one
\* is not killed, and the call waits for it.
GitCallEnds ==
    \A c \in GitCaller : \/ <>[]gcall[c].helper
                         \/ GitAt(c, "run") ~> GitAt(c, "idle")
=============================================================================
