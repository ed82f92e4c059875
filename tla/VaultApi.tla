------------------------------ MODULE VaultApi ------------------------------
(* The relayer's DeFindex routes as an outage sees them: the fixed-window      *)
(* limiter in front of each group of routes, the calls to DeFindex that are    *)
(* awaited and answer in any order, and the failure streaks behind the alert.  *)
EXTENDS Integers, Sequences, FiniteSets

CONSTANTS
    Clients, Routes,
    limit, windowMs,                    \* rateLimit's options
    ALERT_AFTER_CONSECUTIVE_FAILURES,
    MaxTime, MaxRequests                \* bounds

VARIABLES
    now,
    windows,    \* per client: [count, resetAt]
    inFlight,   \* requests DeFindex has not answered, by route
    stats,      \* per route: consecutiveServerErrors and the counters
    admitted,   \* history: <<client, time>> of requests that passed the limiter
    failed,     \* history per route: for each answer, whether it was a server error
    alerts,     \* history per route: alerts logged
    requests

vars == <<now, windows, inFlight, stats, admitted, failed, alerts, requests>>

NoWindow == [count |-> 0, resetAt |-> 0]
emptyStats == [requests |-> 0, clientErrors |-> 0, serverErrors |-> 0, rateLimited |-> 0, streak |-> 0]

Init ==
    /\ now = 0 /\ requests = 0
    /\ windows = [c \in Clients |-> NoWindow]
    /\ inFlight = [r \in Routes |-> 0]
    /\ stats = [r \in Routes |-> emptyStats]
    /\ admitted = <<>>
    /\ failed = [r \in Routes |-> <<>>] /\ alerts = [r \in Routes |-> 0]

Tick ==
    /\ now < MaxTime /\ now' = now + 1
    /\ UNCHANGED <<windows, inFlight, stats, admitted, failed, alerts, requests>>

alertNow(streak) == streak = ALERT_AFTER_CONSECUTIVE_FAILURES

\* recordVaultRequest, once the response is sent.  A refusal of the limiter ends a
\* streak like any other answer below 500.
recordVaultRequest(r, status) ==
    LET error == status >= 500
        streak == IF error THEN stats[r].streak + 1 ELSE 0
        one(b) == IF b THEN 1 ELSE 0
    IN /\ stats' = [stats EXCEPT ![r] =
            [requests |-> @.requests + 1, streak |-> streak,
             serverErrors |-> @.serverErrors + one(error),
             rateLimited |-> @.rateLimited + one(status = 429),
             clientErrors |-> @.clientErrors + one(status >= 400 /\ ~error /\ status # 429)]]
       /\ alerts' = [alerts EXCEPT ![r] = @ + one(error /\ alertNow(streak))]
       /\ failed' = [failed EXCEPT ![r] = Append(@, error)]

vaultMetricsSnapshot(r) ==
    [failing |-> stats[r].streak >= ALERT_AFTER_CONSECUTIVE_FAILURES, counters |-> stats[r]]

expired(w) == w = NoWindow \/ w.resetAt <= now

\* rateLimit: the first request opens a window, later ones count against it.
passes(c) == expired(windows[c]) \/ windows[c].count < limit

rateLimit(c) ==
    windows' = [windows EXCEPT ![c] =
        IF expired(@) THEN [count |-> 1, resetAt |-> now + windowMs]
        ELSE IF @.count < limit THEN [count |-> @.count + 1, resetAt |-> @.resetAt] ELSE @]

\* trackVaultRoute, the limiter, then the route: a bad address or amount is
\* answered 400 and a missing vault 500 before anything is awaited.
Request(c, r) ==
    /\ requests < MaxRequests /\ requests' = requests + 1
    /\ rateLimit(c)
    /\ admitted' = IF passes(c) THEN Append(admitted, <<c, now>>) ELSE admitted
    /\ \/ ~passes(c) /\ recordVaultRequest(r, 429) /\ UNCHANGED inFlight
       \/ /\ passes(c) /\ UNCHANGED inFlight
          /\ \E status \in {400, 500} : recordVaultRequest(r, status)
       \/ passes(c) /\ inFlight' = [inFlight EXCEPT ![r] = @ + 1] /\ UNCHANGED <<stats, failed, alerts>>
    /\ UNCHANGED now

\* What DeFindex and the network can answer, as mapDefindexError sends it on:
\* our own credentials are a 500, contract errors, limits and outages a 502.
mapDefindexError(err) ==
    CASE err = "NotFound" -> 404
      [] err \in {"BadRequest", "ValidationFailed"} -> 400
      [] err \in {"Unauthorized", "Forbidden", "TokenExpired", "InvalidCredentials"} -> 500
      [] OTHER -> 502

\* An answer: the value, no transaction to sign (502), or an error.
Answer(r) ==
    /\ inFlight[r] > 0 /\ inFlight' = [inFlight EXCEPT ![r] = @ - 1]
    /\ \/ recordVaultRequest(r, 200)
       \/ \E err \in {"NotFound", "ValidationFailed", "Unauthorized", "ContractError"} :
            recordVaultRequest(r, mapDefindexError(err))
    /\ UNCHANGED <<now, windows, admitted, requests>>

Next == Tick \/ (\E c \in Clients, r \in Routes : Request(c, r)) \/ (\E r \in Routes : Answer(r))

Spec == Init /\ [][Next]_vars

-----------------------------------------------------------------------------
AdmittedIn(c, from) ==
    Cardinality({i \in DOMAIN admitted : admitted[i][1] = c /\ admitted[i][2] \in from..(from + windowMs - 1)})

\* Failure streaks of r, counted where they reach the threshold.
Streaks(r) ==
    LET n == ALERT_AFTER_CONSECUTIVE_FAILURES
    IN {i \in DOMAIN failed[r] :
            /\ i >= n
            /\ \A j \in (i - n + 1)..i : failed[r][j]
            /\ i > n => ~failed[r][i - n]}

\* Fixed windows let a client through twice at a boundary, and no more: in any
\* span of one window length at most 2 * limit - 1 of its requests pass.  And
\* "exactly once per failure streak": each run of failures that reaches the
\* threshold logs one alert, though answers of concurrent requests interleave
\* with each other and with refusals, and an alert means the route is failing or
\* has recovered since.
BurstsAndAlertsBounded ==
    /\ \A c \in Clients, t \in 0..now : AdmittedIn(c, t) <= 2 * limit - 1
    /\ \A r \in Routes :
          /\ alerts[r] = Cardinality(Streaks(r))
          /\ vaultMetricsSnapshot(r).failing => alerts[r] > 0
=============================================================================
