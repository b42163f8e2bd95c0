---------------------------- MODULE MCConnectors ----------------------------
(***************************************************************************)
(* A small instance of each connector: a behaviour is of one of them, and  *)
(* the others rest.                                                        *)
(***************************************************************************)
EXTENDS FileTools, GitCalls, FetchCalls, SwaggerCalls, ObjectCalls, SqlCalls
CONSTANTS root, d, f, getA, putA, getB, c1, c2

VARIABLE part

\* A file in a directory, two texts of unlike length.
MCParent == [p \in {d, f} |-> IF p = d THEN root ELSE d]
MCOrder == <<root, d, f>>
MCTexts == {<<1>>, <<2, 2>>}
MCLimits == {-1, 0, 1}

\* Two paths with a tool of one name each, one of them with a second method.
MCPathRank == [o \in Op |-> IF o = getB THEN 2 ELSE 1]
MCToolName == [o \in Op |-> IF o = putA THEN "put" ELSE "get"]
MCRates == {-1, 0, 1, 2}

MCCounts == {-1, 0, 1, 3}
MCMaxConfig == {-1, 0, 1, 2, 3}

-----------------------------------------------------------------------------
rest == <<fvars, gvars, hvars, svars, ovars, qvars>>

ConnectorsInit ==
    /\ FilesInit /\ GitInit /\ FetchInit /\ SwaggerInit /\ ObjectsInit /\ SqlInit
    /\ part \in {"files", "git", "fetch", "swagger", "objects", "sql"}
    /\ part # "files" => \A p \in Path \ {Root} : tree[p] = Nothing
    /\ part # "git" => ~matching
    /\ usual = Gone <=> driver = "s3"
    /\ part # "objects" => driver = "s3"

ConnectorsNext ==
    /\ UNCHANGED part
    /\ \/ part = "files" /\ FilesNext /\ UNCHANGED <<gvars, hvars, svars, ovars, qvars>>
       \/ part = "git" /\ GitNext /\ UNCHANGED <<fvars, hvars, svars, ovars, qvars>>
       \/ part = "fetch" /\ FetchNext /\ UNCHANGED <<fvars, gvars, svars, ovars, qvars>>
       \/ part = "swagger" /\ SwaggerNext /\ UNCHANGED <<fvars, gvars, hvars, ovars, qvars>>
       \/ part = "objects" /\ ObjectsNext /\ UNCHANGED <<fvars, gvars, hvars, svars, qvars>>
       \/ part = "sql" /\ SqlNext /\ UNCHANGED <<fvars, gvars, hvars, svars, ovars>>

all == <<rest, part>>

\* The fairness of GitFairSpec, FetchFairSpec, SwaggerFairSpec and SqlFairSpec.
CallStep(c) ==
    /\ UNCHANGED part
    /\ \/ part = "git" /\ c \in GitCaller /\ GitCallStep(c)
                       /\ UNCHANGED <<fvars, hvars, svars, ovars, qvars>>
       \/ part = "fetch" /\ FetchStep /\ UNCHANGED <<fvars, gvars, svars, ovars, qvars>>
       \/ part = "swagger" /\ HttpEnds(c) /\ UNCHANGED <<fvars, gvars, hvars, ovars, qvars>>
       \/ part = "sql" /\ SqlCallStep(c) /\ UNCHANGED <<fvars, gvars, hvars, svars, ovars>>
TakeMutex(c) == /\ part = "swagger" /\ (Lock(c) \/ Healthy(c))
                /\ UNCHANGED <<fvars, gvars, hvars, ovars, qvars, part>>

ConnectorsSpec == /\ ConnectorsInit /\ [][ConnectorsNext]_all
                  /\ \A c \in {c1, c2} : WF_all(CallStep(c)) /\ SF_all(TakeMutex(c))

-----------------------------------------------------------------------------
\* The variables of every connector keep their types, the limits of its
\* configuration and its use of locks and connections among them.
ConnectorsTypeOK == /\ FileTypeOK /\ GitTypeOK /\ FetchTypeOK
                    /\ SwaggerTypeOK /\ ObjectTypeOK /\ SqlTypeOK

\* What goes out is what the configuration, the spec and the arguments say.
RequestsAreWhole == AuthWins /\ SentIsWhole

\* A result that was cut short, by a cap, a deadline, a lost connection or a
\* change in the middle, does not pass for a whole one.  What does pass, and is
\* exempted by name: a search without entries it could not read, a list of an
\* SQL tool whose connection broke off, and a file read while it changed.
ResultsAreWhole == /\ ReadsFit /\ SearchIsComplete
                   /\ LogIsCapped /\ NothingTorn
                   /\ CutIsMarked /\ PageIsHonest /\ ResultIsWhole

\* What a tool changed, and was answered as done, is there whole.  Exempted by
\* name: a file that two calls wrote at once or whose last write failed or was
\* cut short, the delete of s3, and the delete of oss that takes an error with
\* 404 in its text for a missing object.
WritesTakeEffect == WritesAreWhole /\ OkIsDone

\* A call comes to its end although what it waits for does not.
CallsEnd == GitCallEnds /\ FetchEnds /\ AllGetThrough /\ QueryEnds
=============================================================================
