------------------------------ MODULE RateLimiter ------------------------------
(***************************************************************************)
(* The per-key sliding-window rate limiter of cmd/mock-llm-api/main.go,    *)
(* with the handlers that use it: chat completions (check, then stats) and *)
(* the debug endpoint, which prunes only half of a window.  Every method   *)
(* holds rateLimiter.mu, so it is one step; a handler is several.          *)
(***************************************************************************)
EXTENDS Integers, Sequences

CONSTANTS
    Keys,       \* API keys
    Handlers,   \* requests in flight at a time
    Sizes,      \* promptTokens + 200 of a request
    RPM,        \* rpmLimit
    TPM,        \* tpmLimit; 0 is unlimited
    Window,     \* a minute, in ticks of the clock
    Second,     \* a second, in ticks
    MaxTime,    \* bound on the clock
    None

\* with an rpmLimit of 0, check would index an empty slice
ASSUME LimiterAssumption ==
    /\ RPM \in Nat \ {0} /\ TPM \in Nat /\ Sizes \subseteq Nat
    /\ Window \in Nat \ {0} /\ Second \in Nat \ {0} /\ MaxTime \in Nat
    /\ None \notin Nat /\ None \notin Keys

VARIABLES
    now,       \* time.Now(), read under the lock
    requests,  \* window.requests of each key
    tokens,    \* window.tokens
    serving,   \* the key each handler still has to call stats for
    admitted,  \* <<time, size>> of every request that was allowed (history)
    promise    \* when the last 429 for RPM said to come back (history)

windows == <<requests, tokens>>
vars    == <<now, windows, serving, admitted, promise>>

Init ==
    /\ now = 0
    /\ requests = [k \in Keys |-> <<>>]
    /\ tokens = [k \in Keys |-> <<>>]
    /\ serving = [h \in Handlers |-> None]
    /\ admitted = [k \in Keys |-> <<>>]
    /\ promise = [k \in Keys |-> None]

-----------------------------------------------------------------------------
(* rateLimiter *)

Total(s) == LET sum[i \in 0..Len(s)] == IF i = 0 THEN 0 ELSE sum[i - 1] + s[i]
            IN  sum[Len(s)]

\* t.After(now - 1 minute)
Recent(t) == t > now - Window
pruneTime(times) ==
    LET kept[i \in 0..Len(times)] ==
            IF i = 0 THEN <<>>
            ELSE IF Recent(times[i]) THEN Append(kept[i - 1], times[i]) ELSE kept[i - 1]
    IN  kept[Len(times)]

\* drop from the front what pruneTime has dropped
pruneTokens_Back(times, sizes) == SubSeq(sizes, 1, Len(times))
pruneTokens(times, sizes) ==
    IF Len(sizes) > Len(times) THEN SubSeq(sizes, Len(sizes) - Len(times) + 1, Len(sizes))
    ELSE sizes

Prune(k) ==
    /\ requests' = [requests EXCEPT ![k] = pruneTime(@)]
    /\ tokens' = [tokens EXCEPT ![k] = pruneTokens(pruneTime(requests[k]), @)]

\* check's two tests, on the pruned window
OverRPM(k) == Len(pruneTime(requests[k])) >= RPM
OverTPM_BeforeThis(k, n) ==
    /\ TPM > 0
    /\ Total(pruneTokens(pruneTime(requests[k]), tokens[k])) >= TPM
OverTPM(k, n) ==
    /\ TPM > 0
    /\ Total(pruneTokens(pruneTime(requests[k]), tokens[k])) + n > TPM

\* time.Until(oldest + 1 minute), sent as whole seconds rounded up
RetryAfter_Truncated(k) == ((pruneTime(requests[k])[1] + Window - now) \div Second) * Second
RetryAfter(k) == ((pruneTime(requests[k])[1] + Window - now) \div Second + 1) * Second

-----------------------------------------------------------------------------
(* POST /v1/chat/completions *)

Busy(h, k) == serving' = [serving EXCEPT ![h] = k]

\* a simulated failure returns at once, and the request counts all the same
CheckAllowed(h, k, n) ==
    /\ serving[h] = None
    /\ ~OverRPM(k) /\ ~OverTPM(k, n)
    /\ requests' = [requests EXCEPT ![k] = Append(pruneTime(@), now)]
    /\ tokens' = [tokens EXCEPT ![k] = Append(pruneTokens(pruneTime(requests[k]), @), n)]
    /\ admitted' = [admitted EXCEPT ![k] = Append(@, <<now, n>>)]
    /\ promise' = [promise EXCEPT ![k] = None]
    /\ \E after \in {k, None} : Busy(h, after)
    /\ UNCHANGED now

CheckOverRPM(h, k) ==
    /\ serving[h] = None
    /\ OverRPM(k)
    /\ Prune(k)
    /\ promise' = [promise EXCEPT ![k] = now + RetryAfter(k)]
    /\ Busy(h, k)
    /\ UNCHANGED <<now, admitted>>

\* a fixed suggestion of 30 seconds, which promises nothing
CheckOverTPM(h, k, n) ==
    /\ serving[h] = None
    /\ ~OverRPM(k) /\ OverTPM(k, n)
    /\ Prune(k)
    /\ Busy(h, k)
    /\ UNCHANGED <<now, admitted, promise>>

\* stats for the log line, before the 429 or after the simulated latency
Stats(h) ==
    /\ serving[h] # None
    /\ Prune(serving[h])
    /\ Busy(h, None)
    /\ UNCHANGED <<now, admitted, promise>>

-----------------------------------------------------------------------------
(* GET /debug/rate-limits, and the clock *)

\* requests are pruned, tokens are not
Debug ==
    /\ requests' = [k \in Keys |-> pruneTime(requests[k])]
    /\ UNCHANGED <<now, tokens, serving, admitted, promise>>

Tick ==
    /\ now < MaxTime
    /\ now' = now + 1
    /\ UNCHANGED <<windows, serving, admitted, promise>>

Next ==
    \/ \E h \in Handlers, k \in Keys :
         \/ \E n \in Sizes : CheckAllowed(h, k, n) \/ CheckOverTPM(h, k, n)
         \/ CheckOverRPM(h, k)
    \/ \E h \in Handlers : Stats(h)
    \/ Debug
    \/ Tick

Spec == Init /\ [][Next]_vars

-----------------------------------------------------------------------------
(* Properties *)

SizesOf(s) == [i \in 1..Len(s) |-> s[i][2]]
LastOf(s, n) == SubSeq(s, Len(s) - n + 1, Len(s))

\* The two slices of a window are pruned by different rules, and by the debug
\* endpoint only one of them is; still each request keeps its own token count:
\* the last tokens are those of the requests, which are the last ones admitted.
Aligned ==
    \A k \in Keys :
        LET n == Len(requests[k]) IN
        /\ n <= Len(tokens[k]) /\ Len(tokens[k]) <= Len(admitted[k])
        /\ requests[k] = [i \in 1..n |-> LastOf(admitted[k], n)[i][1]]
        /\ tokens[k] = SizesOf(LastOf(admitted[k], Len(tokens[k])))

\* Whatever mix of rejected requests, logging, debugging and waiting comes
\* between, no minute has more than rpmLimit requests of one key, nor more than
\* tpmLimit tokens: a run of admitted requests is within both if its first was
\* less than a minute old when its last was admitted.
LimitsKept ==
    \A k \in Keys : \A i, j \in 1..Len(admitted[k]) :
        i <= j /\ admitted[k][i][1] > admitted[k][j][1] - Window =>
            /\ j - i + 1 <= RPM
            /\ TPM > 0 => Total(SizesOf(SubSeq(admitted[k], i, j))) <= TPM

\* A client that was refused for RPM and comes back when Retry-After said is not
\* refused for RPM again, unless somebody used the key in between.
RetryHonoured ==
    \A k \in Keys : promise[k] # None /\ now >= promise[k] => ~OverRPM(k)
=============================================================================
