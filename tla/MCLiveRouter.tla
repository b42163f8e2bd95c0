---------------------------- MODULE MCLiveRouter ----------------------------
(* Small instances of the router: versions of one or two connectors.       *)
EXTENDS LiveRouter, TLC
CONSTANTS v1, v2, n1, n2, t1, plug, unknown, hp

Ref(t, n) == [type |-> t, name |-> n]

\* A builtin connector; one of a builtin type, one of a plugin's and one of no
\* registered type.
MCRefs == v1 :> <<Ref(t1, n1)>>
       @@ v2 :> <<Ref(t1, n2), Ref(plug, n1), Ref(unknown, n1)>>

\* A plugin's connector in every version.
MCRefsPlugin == [v \in Ver |-> <<Ref(plug, n1)>>]

\* The object of the plugin, if there is one.
MCShared == [t \in Plugin |-> hp]
=============================================================================
