-------------------------------- MODULE Boot --------------------------------
(***************************************************************************)
(* cmd/egmcp/main.go: the life of a process.  run loads the plugins and    *)
(* registers them beside the builtin connectors (pkg/connector/registry.go,*)
(* where a name taken twice is a panic), starts the router, serves until a *)
(* signal, waits for the open streams for ten seconds, and closes.         *)
(***************************************************************************)
EXTENDS PluginManager

CONSTANTS Builtin,    \* names registered before the plugins
          MaxStreams

ASSUME BootAssumption == Builtin \subseteq Base /\ MaxStreams \in Nat

VARIABLES
    run,      \* where run is
    todo,     \* plugins still to register
    registry, \* the names in the registry
    streams   \* MCP requests in flight

bvars == <<run, todo, registry, streams>>

BootInit == /\ PluginInit
            /\ run = "down" /\ todo = {} /\ registry = {} /\ streams = 0

-----------------------------------------------------------------------------
\* The configuration is loaded and the builtin connectors are registered;
\* without a plugin manager the process goes on without plugins.
StartRun == /\ run = "down"
            /\ \/ LoadAll /\ run' = "plugins"
               \/ run' = "register" /\ UNCHANGED pvars
            /\ registry' = Builtin
            /\ UNCHANGED <<todo, streams>>

\* LoadAll has returned; its error is only logged.
Snapshot == /\ run = "plugins" /\ call[Booter].pc = "done"
            /\ todo' = Connectors
            /\ run' = "register"
            /\ UNCHANGED <<pvars, registry, streams>>

\* MustRegister for the next connector, in map order.
Register == /\ run = "register"
            /\ \E b \in todo : /\ b \notin registry
                               /\ registry' = registry \cup {b}
                               /\ todo' = todo \ {b}
            /\ UNCHANGED <<pvars, run, streams>>

End == /\ PluginReset
       /\ run' = "down" /\ todo' = {} /\ registry' = {} /\ streams' = 0

\* Register's panic.
Panic == run = "register" /\ todo \cap registry # {} /\ End

\* core.New, then ListenAndServe.
Serve == /\ run = "register" /\ todo = {}
         /\ run' = "serve"
         /\ UNCHANGED <<pvars, todo, registry, streams>>

Connect == /\ run = "serve" /\ streams < MaxStreams
           /\ streams' = streams + 1
           /\ UNCHANGED <<pvars, run, todo, registry>>

Disconnect == /\ streams > 0
              /\ streams' = streams - 1
              /\ UNCHANGED <<pvars, run, todo, registry>>

Signal == /\ run = "serve"
          /\ run' = "drain"
          /\ UNCHANGED <<pvars, todo, registry, streams>>

\* srv.Shutdown returns: nothing is open, or the ten seconds are over.
Drained == /\ run = "drain"
           /\ run' = "close"
           /\ UNCHANGED <<pvars, todo, registry, streams>>

\* The deferred router.Close; connectors go, also from under open streams.
Close == run = "close" /\ End

\* core.New or ListenAndServe fails, or the process is killed.
Die == run # "down" /\ End

RunStep == Snapshot \/ Register \/ Panic \/ Serve \/ Drained \/ Close
BootNext ==
    \/ StartRun \/ RunStep \/ Connect \/ Disconnect \/ Signal \/ Die
    \/ /\ \/ \E c \in Proc : CallStep(c)
          \/ run = "serve" /\ \E c \in Caller : Request(c)
       /\ UNCHANGED bvars

BootSpec == BootInit /\ [][BootNext]_<<pvars, bvars>>

\* The main goroutine runs; nobody has to stop, and no call has to return.
BootFairSpec == BootSpec /\ WF_<<pvars, bvars>>(RunStep)

-----------------------------------------------------------------------------
BootTypeOK == /\ PluginTypeOK
              /\ run \in {"down", "plugins", "register", "serve", "drain", "close"}
              /\ todo \subseteq Base /\ registry \subseteq Base
              /\ streams \in 0 .. MaxStreams

\* "A plugin that fails to load is recorded and skipped; the rest of the
\* platform keeps running": what main registers is every plugin that works and
\* nothing else, whatever else is in the directory (a base name with two files
\* has the entry of whichever was loaded last), and Register panics only on one
\* that works and is named like a builtin connector.
SkipsBadPlugins ==
    run = "register" =>
       /\ call[Booter].pc = "done" => \A b \in Base \ Builtin : \A f \in File :
             OnDisk(b) = {f} => (b \in todo \cup registry <=> dir[f] # Bad)
       /\ todo \cap registry # {} =>
             \E f \in File : dir[f] \in Lib /\ BaseOf[f] \in Builtin

\* A signal stops the process in bounded time, also when streams stay open.
StopEnds == run = "drain" ~> run = "down"
=============================================================================
