----------------------------- MODULE FetchCalls -----------------------------
(***************************************************************************)
(* connectors/builtin/fetch/fetch.go: one call of a tool builds a request  *)
(* from the configuration and the arguments, sends it, and reads the body  *)
(* of the answer up to a limit.  Calls share nothing but the instance.     *)
(* Headers are who set them, bodies how long they are; an int has few      *)
(* bits.  External: the upstream and net/http's client with its timeout.   *)
(***************************************************************************)
EXTENDS Integers

CONSTANTS MaxInt,     \* the largest int
          Unlimited,  \* the default of max_response_bytes
          MaxConfig,  \* max_response_bytes in configurations
          MaxBody,    \* bound: the longest body the upstream sends
          NoAnswer

ASSUME FetchAssumption == /\ {MaxInt, MaxBody} \subseteq Nat /\ MaxConfig \subseteq Int
                          /\ Unlimited \in 1 .. MaxInt - 1
                          /\ \A n \in MaxConfig : n <= MaxInt

Header == {"Authorization", "Content-Type", "X-Key"}
Auth == {"none", "bearer", "basic", "apiKey header", "apiKey query"}
Body == {"none", "text", "base64", "bad base64"}   \* with the flag base64

VARIABLES
    fetchCfg, \* the instance: max, auth and default headers; NoAnswer before Init
    fetch     \* the call: where it is, its arguments, the request, the answer

hvars == <<fetchCfg, fetch>>

NoFetch == [pc |-> "idle", body |-> "none", set |-> [h \in Header |-> "nobody"],
            key |-> FALSE, sent |-> "none", length |-> 0, read |-> 0, truncated |-> FALSE]

FetchInit == fetchCfg = NoAnswer /\ fetch = NoFetch

Narrow(n) == IF n > MaxInt THEN n - 2 * (MaxInt + 1) ELSE n

-----------------------------------------------------------------------------
(* Wrong variants of some definitions below, each a bug the code could have. *)

AuthHeaderFirst(h, given) == given

-----------------------------------------------------------------------------
(* Init *)

Cut(n) == IF n <= 0 THEN Unlimited ELSE n

InitFetch == /\ fetchCfg = NoAnswer
             /\ \E n \in MaxConfig, auth \in Auth, hs \in SUBSET Header :
                   fetchCfg' = [max |-> Cut(n), auth |-> auth, headers |-> hs]
             /\ UNCHANGED fetch

(* InvokeTool: the request *)

\* A header after applyAuth, when given had set it before.
AuthHeader(h, given) ==
    IF \/ h = "Authorization" /\ fetchCfg.auth \in {"bearer", "basic"}
       \/ h = "X-Key" /\ fetchCfg.auth = "apiKey header"
    THEN "auth" ELSE given

\* callArgs.body: what does not decode is no body, and no error.
Decoded(body) == IF body = "bad base64" THEN "none" ELSE body

\* Default headers, then those of the call, then auth, then the content type.
Headers(hs, body) ==
    LET given(h) == IF h \in hs THEN "call"
                    ELSE IF h \in fetchCfg.headers THEN "config" ELSE "nobody"
        auth == [h \in Header |-> AuthHeader(h, given(h))]
    IN  [auth EXCEPT !["Content-Type"] =
           IF Decoded(body) = "base64" THEN "body"
           ELSE IF Decoded(body) = "text" /\ @ = "nobody" THEN "body" ELSE @]

\* The schema says a query maps names to texts; callArgs takes lists of texts,
\* so a call with one as the schema has it ends here, with an error.
Send == /\ fetchCfg # NoAnswer /\ fetch.pc = "idle"
        /\ \E hs \in SUBSET Header, body \in Body :
              fetch' = [NoFetch EXCEPT !.pc = "waiting", !.body = body,
                          !.set = Headers(hs, body), !.sent = Decoded(body),
                          !.key = fetchCfg.auth = "apiKey query"]
        /\ UNCHANGED fetchCfg

\* The upstream answers.
Upstream == /\ fetch.pc = "waiting"
            /\ \E n \in 0 .. MaxBody :
                  fetch' = [fetch EXCEPT !.pc = "body", !.length = n]
            /\ UNCHANGED fetchCfg

\* One byte past the maximum, to tell a cut from an end.
ReadLimit(max) == Narrow(max + 1)

\* io.ReadAll of a LimitReader, which is empty when its limit is not positive.
ReadBody == LET limit == ReadLimit(fetchCfg.max)
                n == IF limit <= 0 THEN 0
                     ELSE IF fetch.length < limit THEN fetch.length ELSE limit
            IN  /\ fetch.pc = "body"
                /\ fetch' = [fetch EXCEPT !.pc = "answered", !.read = n,
                                          !.truncated = n >= limit]
                /\ UNCHANGED fetchCfg

\* The client's timeout, while it waits for the answer or for its body.
GiveUp == /\ fetch.pc \in {"waiting", "body"}
          /\ fetch' = NoFetch
          /\ UNCHANGED fetchCfg

Done == /\ fetch.pc = "answered"
        /\ fetch' = NoFetch
        /\ UNCHANGED fetchCfg

FetchStep == GiveUp \/ Done
FetchNext == InitFetch \/ Send \/ Upstream \/ ReadBody \/ FetchStep

\* The timeout comes; the upstream need not answer.
FetchFairSpec == FetchInit /\ [][FetchNext]_hvars /\ WF_hvars(FetchStep)

-----------------------------------------------------------------------------
FetchTypeOK ==
    /\ fetchCfg # NoAnswer => fetchCfg.max \in 1 .. MaxInt /\ fetchCfg.auth \in Auth
    /\ fetch.set \in [Header -> {"nobody", "config", "call", "auth", "body"}]
    /\ fetch.read \in 0 .. MaxBody

\* A body that is cut short is marked as truncated and a whole one is not, and it
\* has at most one byte more than the cap: a cut body always has that byte, where
\* fetch.go:33 says that max_response_bytes caps the body returned.  A cap that is
\* the largest int leaves nothing of any body.
CutIsMarked ==
    fetch.pc = "answered" =>
       /\ fetch.truncated <=> fetch.length > fetchCfg.max \/ fetchCfg.max = MaxInt
       /\ fetch.read < fetch.length => fetch.truncated
       /\ fetch.read <= fetchCfg.max + 1

\* What the configuration says about authentication goes out with every
\* request, whatever headers a call brings, and what else a call sets is what
\* the upstream gets, over the defaults.
AuthWins ==
    fetch.pc # "idle" =>
       /\ fetchCfg.auth \in {"bearer", "basic"} => fetch.set["Authorization"] = "auth"
       /\ fetchCfg.auth = "apiKey header" => fetch.set["X-Key"] = "auth"
       /\ fetchCfg.auth = "apiKey query" => fetch.key
       /\ fetch.sent = "base64" => fetch.set["Content-Type"] = "body"

\* "TimeoutSec bounds each call": also when the upstream never answers.
FetchEnds == fetch.pc = "waiting" ~> fetch.pc = "idle"
=============================================================================
