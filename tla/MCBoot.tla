------------------------------- MODULE MCBoot -------------------------------
(***************************************************************************)
(* A small instance of Load, and one of the process with its plugins: a    *)
(* behaviour is of one or of the other, which share no state.  Bound: one  *)
(* of the process has calls of the plugin manager or open streams.         *)
(***************************************************************************)
EXTENDS ConfigBoot, Boot
CONSTANTS A, B, plain, xso, xdll, fso, x, filesystem, l2

VARIABLE part

MCMade == [f \in Field |-> CASE f = "user" -> plain [] f = "secret" -> "s" [] OTHER -> "h"]

Ref(v) == <<Open, v, Shut>>
Or(v, def) == <<Open, v, Sep>> \o def \o <<Shut>>

\* Unset, empty, plain, or a reference to the other or to itself.
Values == {None, <<>>, <<plain>>}
MCEnvs == {[v \in Word |-> CASE v = A -> a [] v = B -> b [] OTHER -> None] :
              a \in Values \cup {Ref(A), Ref(B)}, b \in Values \cup {Ref(A)}}

\* Plain texts, references, a nested default, one without an end.
MCEdited == {[user |-> <<plain>>, secret |-> s, hash |-> h] :
               s \in {<<plain>>, Ref(A), Ref(A) \o Ref(B)},
               h \in {<<>>, <<plain>>, Or(A, Ref(B)), <<Open, A>>}}

\* Two files of one base name, and one named like a builtin connector.
MCBaseOf == [f \in File |-> IF f = fso THEN filesystem ELSE x]
MCExts == [b \in Base |-> IF b = x THEN <<xso, xdll>> ELSE <<fso>>]

\* Bounds: only xso has a second version, and nobody uploads fso anew.
OneNew == \A f \in {xdll, fso} : dir[f] # l2
Fixed == /\ \A c \in Caller : call'[c].pc = "next" => call'[c].files # {fso}
         /\ dir'[fso] \in {dir[fso], Absent}

Init == /\ CfgInit /\ BootInit
        /\ \/ part = "config" /\ \A f \in File : dir[f] = Absent
           \/ /\ part \in {"plugins", "streams"} /\ OneNew
              /\ disk = None /\ \A v \in Word : env[v] = None

Next == \/ part = "config" /\ CfgNext /\ UNCHANGED <<pvars, bvars, part>>
        \/ /\ part # "config" /\ BootNext /\ OneNew' /\ Fixed
           /\ IF part = "plugins" THEN streams' = 0 ELSE \A c \in Caller : call'[c] = Rest
           /\ UNCHANGED <<cvars, part>>

all == <<cvars, pvars, bvars, part>>

\* The fairness of CfgFairSpec and BootFairSpec.
Spec == /\ Init /\ [][Next]_all
        /\ WF_all(part = "config" /\ LoadStep /\ UNCHANGED <<pvars, bvars, part>>)
        /\ WF_all(part # "config" /\ RunStep /\ UNCHANGED <<cvars, part>>)

-----------------------------------------------------------------------------
\* The variables of both parts keep their types.
BootsTypeOK == CfgTypeOK /\ BootTypeOK

\* Neither a start nor a stop hangs: the first as long as no variable of the
\* environment leads back to itself, the second also with open streams.
StartAndStopEnd == SubstituteEnds /\ StopEnds
=============================================================================
