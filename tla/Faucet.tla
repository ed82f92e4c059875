------------------------------- MODULE Faucet -------------------------------
(* The Signet faucet: browser tabs that fund an account after a social login   *)
(* (runAutoClaim), and the relayer that pays each account once from one hot    *)
(* wallet.  Every await ends a step, so claims of several tabs interleave; the *)
(* relayer may restart, which loses its nonces, its queue and its reserved     *)
(* coins but not its table of claims.                                          *)
(*                                                                             *)
(* A coin <<r, v>> holds v payments; spending it leaves the change             *)
(* <<r, v - 1>>.  All tabs sit behind one client address, and a tick of now is *)
(* a UTC day.                                                                  *)
EXTENDS Integers, Sequences, FiniteSets

CONSTANTS
    Tabs, Accounts, AccountOf,  \* the account each tab is signed in to
    Coins,                      \* what the faucet holds at first
    dailyCap, ipClaimsPerWindow, ipWindow,
    NoCoin,
    MaxDays, MaxFaults          \* bounds

VARIABLES
    now,
    \* Signet and Esplora
    unspent,    \* the faucet's coins as the node has them
    listed,     \* the same as Esplora lists them, which lags
    payouts,    \* payments per account
    seen,       \* accounts whose payment Esplora lists
    \* the relayer
    nonces,     \* tabs with a live challenge
    claims,     \* faucet_claims: the day each account was paid, -1 if it was not
    reserved, pendingChange,
    queue,      \* tabs waiting for or holding the send lock
    req,        \* where each tab's request is
    coin,       \* the coin the payment under way spends
    \* the browser
    tab, saved, \* runAutoClaim per tab; SavedClaim per account
    \* history
    unsure,     \* accounts with a payment the node took and the relayer did not record
    conflicts,  \* a broadcast spent a coin that was spent already
    restarted, faults

btcVars == <<unspent, listed, payouts, seen>>
memVars == <<nonces, reserved, pendingChange, queue, req, coin>>
vars == <<now, btcVars, memVars, claims, tab, saved, unsure, conflicts, restarted, faults>>

Init ==
    /\ now = 0
    /\ unspent = Coins /\ listed = Coins
    /\ payouts = [a \in Accounts |-> 0] /\ seen = {}
    /\ nonces = {} /\ claims = [a \in Accounts |-> -1]
    /\ reserved = {} /\ pendingChange = {} /\ queue = <<>> /\ coin = NoCoin
    /\ req = [t \in Tabs |-> "none"]
    /\ tab = [t \in Tabs |-> "idle"] /\ saved = {}
    /\ unsure = {} /\ conflicts = FALSE /\ restarted = FALSE /\ faults = 0

Fault == faults < MaxFaults /\ faults' = faults + 1

-----------------------------------------------------------------------------
(* Time and Esplora                                                            *)

Midnight ==
    /\ now < MaxDays /\ now' = now + 1
    /\ UNCHANGED <<btcVars, memVars, claims, tab, saved, unsure, conflicts, restarted, faults>>

\* The indexer catches up with the node.  Reservations outlive its lag.
Index ==
    /\ listed' = unspent /\ seen' = {a \in Accounts : payouts[a] > 0}
    /\ <<listed', seen'>> # <<listed, seen>>
    /\ UNCHANGED <<now, unspent, payouts, memVars, claims, tab, saved, unsure, conflicts, restarted, faults>>

\* RESERVATION_TTL_MS passes.
ReservationsExpire ==
    /\ listed = unspent /\ (reserved # {} \/ pendingChange # {})
    /\ reserved' = {} /\ pendingChange' = {}
    /\ UNCHANGED <<now, btcVars, nonces, queue, req, coin, claims, tab, saved, unsure, conflicts, restarted, faults>>

-----------------------------------------------------------------------------
(* The browser: runAutoClaim                                                   *)

OnlyTab(t, state) ==
    /\ tab' = [tab EXCEPT ![t] = state]
    /\ UNCHANGED <<now, btcVars, claims, reserved, pendingChange, queue, coin, unsure, conflicts, restarted>>

\* A saved payout is followed; otherwise the balance is read.
runAutoClaim(t) ==
    /\ tab[t] \in {"idle", "failed"}
    /\ OnlyTab(t, IF AccountOf[t] \in saved THEN "sent" ELSE "checking")
    /\ UNCHANGED <<nonces, req, saved, faults>>

\* An unreadable balance does not stop the claim.
balance(t) ==
    /\ tab[t] = "checking"
    /\ \/ OnlyTab(t, IF AccountOf[t] \in seen THEN "funded" ELSE "claiming") /\ UNCHANGED faults
       \/ OnlyTab(t, "claiming") /\ AccountOf[t] \in seen /\ Fault
    /\ UNCHANGED <<nonces, req, saved>>

\* GET /faucet/signet/nonce: NonceBook.issue.
issueNonce(t) ==
    /\ tab[t] = "claiming" /\ t \notin nonces
    /\ nonces' = nonces \union {t}
    /\ OnlyTab(t, "signing")
    /\ UNCHANGED <<req, saved, faults>>

\* The nonce's five minutes pass.
NonceExpires(t) ==
    /\ t \in nonces /\ Fault
    /\ nonces' = nonces \ {t}
    /\ OnlyTab(t, tab[t])
    /\ UNCHANGED <<req, saved>>

\* POST /faucet/signet.
claimSignetCoins(t) ==
    /\ tab[t] = "signing" /\ req[t] = "none"
    /\ req' = [req EXCEPT ![t] = "posted"]
    /\ OnlyTab(t, "posted")
    /\ UNCHANGED <<nonces, saved, faults>>

\* The answer arrives, or the connection breaks before it: then the tab reports a
\* failure and the request goes on.
Answered(t) ==
    /\ tab[t] = "posted" /\ req[t] \in {"paid", "refused"}
    /\ req' = [req EXCEPT ![t] = "none"]
    /\ OnlyTab(t, IF req[t] = "paid" THEN "sent" ELSE "failed")
    /\ saved' = IF req[t] = "paid" THEN saved \union {AccountOf[t]} ELSE saved
    /\ UNCHANGED <<nonces, faults>>

ConnectionLost(t) ==
    /\ tab[t] = "posted" /\ Fault
    /\ OnlyTab(t, "failed")
    /\ UNCHANGED <<nonces, req, saved>>

\* Nobody waits for the answer any more.
AnswerDropped(t) ==
    /\ tab[t] # "posted" /\ req[t] \in {"paid", "refused"}
    /\ req' = [req EXCEPT ![t] = "none"]
    /\ OnlyTab(t, tab[t])
    /\ UNCHANGED <<nonces, saved, faults>>

follow(t) ==
    /\ tab[t] = "sent" /\ AccountOf[t] \in seen
    /\ OnlyTab(t, "confirmed")
    /\ UNCHANGED <<nonces, req, saved, faults>>

-----------------------------------------------------------------------------
(* The relayer: SignetFaucet.claim                                             *)

hasClaim(a) == claims[a] # -1
ipClaims == {a \in Accounts : hasClaim(a) /\ claims[a] >= now - ipWindow + 1}
claimsToday == {a \in Accounts : claims[a] = now}

checkLimits(a) ==
    /\ ~hasClaim(a)
    /\ Cardinality(ipClaims) < ipClaimsPerWindow
    /\ Cardinality(claimsToday) < dailyCap

Request(t, state) ==
    /\ req' = [req EXCEPT ![t] = state]
    /\ UNCHANGED <<now, claims, tab, saved, restarted>>

\* NonceBook.consume spends the challenge whatever happens next.
consume(t) == nonces' = nonces \ {t}

\* Shape, nonce, key control, then the limits, before anything is awaited.
claim(t) ==
    /\ req[t] = "posted"
    /\ consume(t)
    /\ Request(t, IF t \in nonces /\ checkLimits(AccountOf[t]) THEN "verify" ELSE "refused")
    /\ UNCHANGED <<btcVars, reserved, pendingChange, queue, coin, unsure, conflicts, faults>>

\* Pollar answers for the login; a live social login of the app joins the queue.
\* It may not be one, and Pollar may not answer.
verify(t) ==
    /\ req[t] = "verify"
    /\ \/ /\ checkLimits(AccountOf[t])
          /\ Request(t, "queued") /\ queue' = Append(queue, t)
          /\ UNCHANGED faults
       \/ /\ ~checkLimits(AccountOf[t])
          /\ Request(t, "refused") /\ UNCHANGED <<queue, faults>>
       \/ Request(t, "refused") /\ Fault /\ UNCHANGED queue
    /\ UNCHANGED <<btcVars, nonces, reserved, pendingChange, coin, unsure, conflicts>>

\* Mutant: the limits are not checked again once the queue has been waited for.
checkInLock_Skips(a) == TRUE

checkInLock(a) == checkLimits(a)

EndSend(t, state) == Request(t, state) /\ queue' = Tail(queue) /\ coin' = NoCoin

\* withLock: the head of the queue runs.
withLock(t) ==
    /\ queue # <<>> /\ t = Head(queue) /\ req[t] = "queued"
    /\ IF checkInLock(AccountOf[t]) THEN Request(t, "select") /\ UNCHANGED <<queue, coin>>
       ELSE EndSend(t, "refused")
    /\ UNCHANGED <<btcVars, nonces, reserved, pendingChange, unsure, conflicts, faults>>

usable == listed \ reserved

\* spendable() and the payment: listed coins first, then change of our own.
send(t) ==
    LET pending == (pendingChange \ listed) \ reserved
        choice == IF usable # {} THEN usable ELSE pending
    IN
    /\ req[t] = "select"
    /\ pendingChange' = pendingChange \ listed
    /\ \/ \E c \in choice : coin' = c /\ Request(t, "broadcast") /\ UNCHANGED <<queue, faults>>
       \/ choice = {} /\ EndSend(t, "refused") /\ UNCHANGED faults
       \/ EndSend(t, "refused") /\ Fault
    /\ UNCHANGED <<btcVars, nonces, reserved, unsure, conflicts>>

Change(c) == IF c[2] > 1 THEN {<<c[1], c[2] - 1>>} ELSE {}

\* The transaction reaches the node, which takes it unless the coin is spent.
Broadcast(t) ==
    /\ req[t] = "broadcast"
    /\ IF coin \in unspent
       THEN /\ unspent' = (unspent \ {coin}) \union Change(coin)
            /\ payouts' = [payouts EXCEPT ![AccountOf[t]] = @ + 1]
            /\ Request(t, "accepted") /\ UNCHANGED <<conflicts, queue, coin>>
       ELSE /\ conflicts' = TRUE
            /\ EndSend(t, "refused")
            /\ UNCHANGED <<unspent, payouts>>
    /\ UNCHANGED <<listed, seen, nonces, reserved, pendingChange, unsure, faults>>

reserve(c) == reserved' = reserved \union {c}

record(t) == claims' = [claims EXCEPT ![AccountOf[t]] = now]

\* The node's answer arrives: reserve, keep the change, record.
Paid(t) ==
    /\ req[t] = "accepted"
    /\ reserve(coin)
    /\ pendingChange' = (pendingChange \ {coin}) \union Change(coin)
    /\ record(t)
    /\ req' = [req EXCEPT ![t] = "paid"] /\ queue' = Tail(queue) /\ coin' = NoCoin
    /\ UNCHANGED <<now, tab, saved, restarted, btcVars, nonces, unsure, conflicts, faults>>

\* History: the node has the payment of t and the relayer ends without a row.
Unrecorded(t) == unsure' = unsure \union {AccountOf[t]}

\* The coins are sent and the row cannot be written: the answer is the same.
RecordFails(t) ==
    /\ req[t] = "accepted" /\ Fault
    /\ reserve(coin)
    /\ pendingChange' = (pendingChange \ {coin}) \union Change(coin)
    /\ EndSend(t, "paid")
    /\ Unrecorded(t)
    /\ UNCHANGED <<btcVars, nonces, conflicts>>

\* A timeout or a 5xx, before or after the node took it: nothing is recorded.
OutcomeUnknown(t) ==
    /\ req[t] \in {"broadcast", "accepted"} /\ Fault
    /\ reserve(coin)
    /\ pendingChange' = pendingChange \ {coin}
    /\ EndSend(t, "refused")
    /\ IF req[t] = "accepted" THEN Unrecorded(t) ELSE UNCHANGED unsure
    /\ UNCHANGED <<btcVars, nonces, conflicts>>

Restart ==
    /\ Fault /\ restarted' = TRUE
    /\ nonces' = {} /\ reserved' = {} /\ pendingChange' = {} /\ queue' = <<>> /\ coin' = NoCoin
    /\ req' = [t \in Tabs |-> "none"]
    /\ tab' = [t \in Tabs |-> IF tab[t] = "posted" THEN "failed" ELSE tab[t]]
    /\ unsure' = unsure \union {AccountOf[t] : t \in {u \in Tabs : req[u] = "accepted"}}
    /\ UNCHANGED <<now, btcVars, claims, saved, conflicts>>

TabStep(t) ==
    \/ runAutoClaim(t) \/ balance(t) \/ issueNonce(t) \/ claimSignetCoins(t)
    \/ Answered(t) \/ AnswerDropped(t) \/ follow(t)
ServerStep(t) == claim(t) \/ verify(t) \/ withLock(t) \/ send(t) \/ Broadcast(t) \/ Paid(t)

Next ==
    \/ \E t \in Tabs : \/ TabStep(t) \/ ServerStep(t) \/ NonceExpires(t) \/ ConnectionLost(t)
                       \/ RecordFails(t) \/ OutcomeUnknown(t)
    \/ Midnight \/ Index \/ ReservationsExpire \/ Restart

Spec == Init /\ [][Next]_vars

-----------------------------------------------------------------------------
\* "one claim ever per Pollar account": two tabs, retries and restarts included,
\* an account is paid again only after a payment whose outcome the relayer could
\* not record (unknown broadcast, failed write, restart in between).
PaidTwiceOnlyIfUnsure == \A a \in Accounts : payouts[a] > 1 => a \in unsure

\* The daily cap and the allowance per client address hold for recorded claims,
\* however many claims passed the first checks together.
LimitsHold ==
    \A day \in 0..now :
        /\ Cardinality({a \in Accounts : claims[a] = day}) <= dailyCap
        /\ Cardinality({a \in Accounts : claims[a] \in (day - ipWindow + 1)..day /\ claims[a] # -1}) <= ipClaimsPerWindow

\* service.ts: "the faucet never double-spends its own UTXOs", except that a
\* restart forgets what it reserved while Esplora still lists it.
ConflictOnlyAfterRestart == conflicts => restarted
=============================================================================
