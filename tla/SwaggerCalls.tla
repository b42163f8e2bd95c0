---------------------------- MODULE SwaggerCalls ----------------------------
(***************************************************************************)
(* connectors/builtin/swagger/swagger.go: the tools of one OpenAPI spec.   *)
(* A call holds the connector's mutex from the look-up of its tool to the  *)
(* end of the HTTP call; health checks (of /health and of the test of an   *)
(* instance) wait for it, whatever the deadline of their context.          *)
(* Time goes in ticks, and tokens are counted in parts of 1 / Ticks.       *)
(***************************************************************************)
EXTENDS Integers, FiniteSetsExt, SequencesExt

CONSTANTS SwagCaller,
          Op,         \* the operations of the spec (path and method)
          PathRank,   \* the place of each one's path in the sorted paths
          ToolName,   \* safeName of each: unlike paths can come to one name
          Needy,      \* the operations with a required parameter
          Rates,      \* max_rpm in configurations
          Ticks,      \* ticks in a minute
          Free

ASSUME SwaggerAssumption ==
    /\ IsFiniteSet(Op) /\ Op # {} /\ Needy \subseteq Op
    /\ PathRank \in [Op -> Nat] /\ DOMAIN ToolName = Op
    /\ \A o, q \in Op : PathRank[o] = PathRank[q] /\ o # q => ToolName[o] # ToolName[q]
    /\ Rates \subseteq Int /\ Ticks \in Nat \ {0} /\ Free \notin SwagCaller

VARIABLES
    ops,     \* c.ops; empty before Init
    perMin,  \* the limiter's rate; 0: no limiter
    tokens,
    owner,   \* who has c.mu
    scall,   \* the call of each client: a tool, or a health check
    window   \* history: how many calls this limiter let pass since the last tick,
             \* since the one before, and so on for a minute

svars == <<ops, perMin, tokens, owner, scall, window>>

NoSwag == [pc |-> "idle", op |-> Free, name |-> Free, given |-> FALSE]
Name == {ToolName[o] : o \in Op}
Quiet == [t \in 1 .. Ticks |-> 0]

SwaggerInit == /\ ops = <<>> /\ perMin = 0 /\ tokens = 0 /\ owner = Free
               /\ scall = [c \in SwagCaller |-> NoSwag]
               /\ window = Quiet

SwagAt(c, pc) == scall[c].pc = pc
Lowest(a, b) == IF a < b THEN a ELSE b

-----------------------------------------------------------------------------
(* Wrong variants of some definitions below, each a bug the code could have. *)

\* without the sort, in map order
SomeOrder == SetToSeqs(Op)
RefillFull(n) == n
SpentNot(n) == n

-----------------------------------------------------------------------------
(* Init, of a new connector each time: collectOperations and the limiter *)

\* Paths are sorted, the methods of a path come in map order.
Collected == {s \in SetToSeqs(Op) :
                \A i, j \in 1 .. Cardinality(Op) : i < j => PathRank[s[i]] <= PathRank[s[j]]}

InitSwagger == /\ \A c \in SwagCaller : SwagAt(c, "idle")
               /\ ops' \in Collected
               /\ \E n \in Rates : /\ perMin' = IF n <= 0 THEN 0 ELSE n
                                   /\ tokens' = perMin' * Ticks
               /\ window' = Quiet
               /\ UNCHANGED <<owner, scall>>

\* The first of this name in c.ops.
FirstNamed(s, name) == s[SelectInSeq(s, LAMBDA o : ToolName[o] = name)]

-----------------------------------------------------------------------------
(* rateLimiter.allow, with the refill of the time since the last call *)

Refill(n) == Lowest(n, perMin * Ticks)
Spent(n) == n - Ticks
Counted == [t \in 1 .. Ticks |-> window[t] + 1]

Tick == /\ ops # <<>>
        /\ tokens' = Refill(tokens + perMin)
        /\ window' = [t \in 1 .. Ticks |-> IF t = 1 THEN 0 ELSE window[t - 1]]
        /\ UNCHANGED <<ops, perMin, owner, scall>>

Allowed == perMin = 0 \/ tokens >= Ticks

-----------------------------------------------------------------------------
(* InvokeTool *)

Invoke(c) == /\ ops # <<>> /\ SwagAt(c, "idle")
             /\ \E name \in Name, given \in BOOLEAN :
                   scall' = [scall EXCEPT ![c] = [pc |-> "lock", op |-> Free, name |-> name,
                                                  given |-> given]]
             /\ UNCHANGED <<ops, perMin, tokens, owner, window>>

\* bindOperation has all it needs.
Bound(op, given) == op \in Needy => given

\* The lock is free: the call takes it, and a token, and only then binds its
\* arguments: a call that cannot be bound has cost a token.
Lock(c) ==
    LET op == FirstNamed(ops, scall[c].name)
        sends == Allowed /\ Bound(op, scall[c].given)
    IN  /\ SwagAt(c, "lock") /\ owner = Free
        /\ owner' = IF sends THEN c ELSE Free
        /\ scall' = [scall EXCEPT ![c] = IF sends THEN [@ EXCEPT !.pc = "http", !.op = op]
                                         ELSE NoSwag]
        /\ tokens' = IF perMin > 0 /\ Allowed THEN Spent(tokens) ELSE tokens
        /\ window' = IF perMin > 0 /\ Allowed THEN Counted ELSE window
        /\ UNCHANGED <<ops, perMin>>

\* The answer is there, or the client's timeout; the deferred Unlock.
HttpEnds(c) == /\ SwagAt(c, "http")
               /\ scall' = [scall EXCEPT ![c] = NoSwag]
               /\ owner' = Free
               /\ UNCHANGED <<ops, perMin, tokens, window>>

(* HealthCheck *)

AskHealth(c) == /\ ops # <<>> /\ SwagAt(c, "idle")
                /\ scall' = [scall EXCEPT ![c].pc = "health"]
                /\ UNCHANGED <<ops, perMin, tokens, owner, window>>

Healthy(c) == /\ SwagAt(c, "health") /\ owner = Free
              /\ scall' = [scall EXCEPT ![c] = NoSwag]
              /\ UNCHANGED <<ops, perMin, tokens, owner, window>>

SwaggerNext == \/ InitSwagger \/ Tick
               \/ \E c \in SwagCaller : \/ Invoke(c) \/ Lock(c) \/ HttpEnds(c)
                                        \/ AskHealth(c) \/ Healthy(c)

\* The client's timeout bounds each HTTP call, and a sync.Mutex that many want
\* is handed on in order.
SwaggerFairSpec ==
    /\ SwaggerInit /\ [][SwaggerNext]_svars
    /\ \A c \in SwagCaller : WF_svars(HttpEnds(c)) /\ SF_svars(Lock(c) \/ Healthy(c))

-----------------------------------------------------------------------------
SwaggerTypeOK == /\ ops \in {<<>>} \cup Collected
                 /\ perMin \in Nat /\ tokens \in 0 .. perMin * Ticks
                 /\ owner \in SwagCaller \cup {Free}
                 /\ \A c \in SwagCaller : SwagAt(c, "http") => owner = c
                 /\ window \in [1 .. Ticks -> Nat]

\* "MaxRPM (requests per minute)": a connector that was quiet can let pass
\* its full bucket and the refill of a minute, in that minute, and never more.
RateIsBounded ==
    perMin > 0 => window[Ticks] <= 2 * perMin

\* "Sorted order for stable tool naming": a tool of this name is the same
\* operation after each Init of this spec.
StableNames ==
    [][ops # <<>> => \A n \in Name : FirstNamed(ops', n) = FirstNamed(ops, n)]_svars

\* What is sent is the operation that the name stands for, with what it needs.
SentIsWhole ==
    \A c \in SwagCaller : SwagAt(c, "http") =>
       /\ scall[c].op = FirstNamed(ops, scall[c].name)
       /\ scall[c].op \in Needy => scall[c].given

\* Whoever waits for the mutex gets it: one slow upstream delays every call and
\* every health check of the connector, and stops none.
AllGetThrough ==
    \A c \in SwagCaller : scall[c].pc \in {"lock", "health"} ~> SwagAt(c, "idle")
=============================================================================
