---------------------------- MODULE MCMcpServers ----------------------------
(* Small instances of the servers over the router.                         *)
EXTENDS McpServers
CONSTANTS v1, v2, n1, n2, t1, plug, hp

Ref(t, n) == [type |-> t, name |-> n]

\* One connector each, with different names.
MCRefs == [v \in Ver |-> IF v = v1 THEN <<Ref(t1, n1)>> ELSE <<Ref(t1, n2)>>]

\* A builtin connector and one of a plugin.
MCRefsMixed == [v \in Ver |-> <<Ref(t1, n1), Ref(plug, n2)>>]

\* The object of the plugin, if there is one.
MCShared == [t \in Plugin |-> hp]
=============================================================================
