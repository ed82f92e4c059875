------------------------------ MODULE Receive ------------------------------
(***************************************************************************)
(* Step 2 of a borrow in the web app: the USDC the borrow paid out is      *)
(* swapped for another asset on Stellar or burned for Base Sepolia, and    *)
(* the burn is handed to the relay and followed until it has arrived.      *)
(*                                                                         *)
(* The flow keeps everything in the step: a closed page forgets it, and so *)
(* does a disconnect, which unmounts the step on a page that stays; signing *)
(* in on that page mounts it afresh, while what it was doing goes on.       *)
(* What the flow reports (useFlow), what the step shows (receivePhase), the *)
(* calls the account signed and the relay that mints are separate pieces   *)
(* of state that change in any order; the relay is CctpRelay seen from     *)
(* outside.                                                                *)
(***************************************************************************)
EXTENDS Integers, Sequences, FiniteSets

CONSTANTS
    None,
    MaxCalls,       \* bound on the calls signed
    MaxFaults       \* bound on lost answers and requests, deliveries retried and
                    \* disconnects

VARIABLES
    open,           \* the step is on the page
    away,           \* the page's wallet: "not", "away" or "back" after a disconnect
    stray,          \* what an unmounted step goes on with: [at, hash]
    intent,         \* "swap" or "chain", chosen before the borrow
    kept,           \* the borrower kept the USDC
    flow,           \* useFlow's phase
    at,             \* where toAsset or toChain is
    hash,           \* the call it waits for
    done,           \* the swap's result, or the leg's burn
    attested,       \* the leg is "confirmed"
    calls,          \* calls signed: [main, st]
    allowance,      \* what approve gave and no burn has used
    trusted,        \* the wallet has the asset's trustline
    ask,            \* what useRelayDelivery does next
    relay,          \* the relay's transfer
    shown,          \* the delivery the step shows
    unsure,         \* history: a call reported failed while it can still land
    forgot,         \* history: the step came back and had a call done or under way
    lostPost,       \* history: the request to the relay never reached it
    faults

account == <<calls, allowance, trusted>>
page == <<open, away, stray, forgot, intent, kept, flow, at, hash, done, attested>>
delivery == <<ask, relay, shown, lostPost>>
vars == <<account, page, delivery, unsure, faults>>

(* The swaps and burns that have spent the USDC or still may.               *)
Spending == {h \in 1..Len(calls) :
                calls[h].main /\ calls[h].st \in {"pending", "success"}}

InFlight == {"preparing", "awaiting_signature", "submitted"}
Fault == faults < MaxFaults /\ faults' = faults + 1
Nothing == [at |-> "idle", hash |-> 0]

(* The trustline matters to a swap only and the allowance to a burn only.   *)
Init ==
    /\ open = TRUE /\ intent \in {"swap", "chain"} /\ kept = FALSE
    /\ away = "not" /\ stray = Nothing /\ forgot = FALSE
    /\ flow = "idle" /\ at = "idle" /\ hash = 0
    /\ done = 0 /\ attested = FALSE
    /\ calls = << >> /\ allowance \in BOOLEAN /\ trusted \in BOOLEAN
    /\ IF intent = "swap" THEN ~allowance ELSE trusted
    /\ ask = "no" /\ relay = "none" /\ shown = "none"
    /\ unsure = FALSE /\ lostPost = FALSE /\ faults = 0

(* Mutant: what was done already is not looked at.                         *)
receivePhase_FlowOnly ==
    IF kept THEN "kept"
    ELSE IF flow \in InFlight THEN "running"
    ELSE IF flow \in {"failed", "signature_cancelled"} THEN "recover"
    ELSE "ready"

receivePhase ==
    IF kept THEN "kept"
    ELSE IF done # 0 /\ intent = "swap" THEN "swap_done"
    ELSE IF done # 0 THEN IF shown = "linked" THEN "chain_arrived"
                          ELSE IF attested THEN "chain_confirmed"
                          ELSE "chain_sent"
    ELSE IF flow \in InFlight THEN "running"
    ELSE IF flow \in {"failed", "signature_cancelled"} THEN "recover"
    ELSE "ready"

-----------------------------------------------------------------------------
(* toAsset and toChain.                                                    *)

Step(from, to, phase) == at = from /\ at' = to /\ flow' = phase
Session == <<open, away, stray, forgot>>
PageKeeps == UNCHANGED <<Session, intent, kept>>

(* "Convert", "Send" and "Try again": onGo.                                *)
onGo ==
    /\ open /\ receivePhase \in {"ready", "recover"}
    /\ at' = "read" /\ flow' = "preparing"
    /\ UNCHANGED <<account, Session, intent, kept, hash, done, attested,
                   delivery, unsure, faults>>

onKeep ==
    /\ open /\ receivePhase \in {"ready", "recover"} /\ kept' = TRUE
    /\ UNCHANGED <<account, Session, intent, flow, at, hash, done, attested,
                   delivery, unsure, faults>>

(* hasTrustline, the quote, the fee and the allowance: what is missing is  *)
(* asked for first.                                                        *)
readFirst ==
    /\ open
    /\ IF (intent = "swap" /\ ~trusted) \/ (intent = "chain" /\ ~allowance)
       THEN Step("read", "sign_first", "awaiting_signature")
       ELSE Step("read", "build", "preparing")
    /\ PageKeeps /\ UNCHANGED <<account, hash, done, attested, delivery,
                                unsure, faults>>

(* swapUsdcTo and deposit_for_burn are built; a build may fail.            *)
build ==
    /\ open
    /\ \/ Step("build", "sign", "awaiting_signature") /\ UNCHANGED faults
       \/ Step("build", "idle", "failed") /\ Fault
    /\ PageKeeps /\ UNCHANGED <<account, hash, done, attested, delivery,
                                unsure>>

Signing == {"sign_first", "sign"}

signed ==
    /\ open /\ at \in Signing /\ Len(calls) < MaxCalls
    /\ calls' = Append(calls, [main |-> at = "sign", st |-> "pending"])
    /\ hash' = Len(calls')
    /\ Step(at, IF at = "sign" THEN "wait" ELSE "wait_first", "submitted")
    /\ PageKeeps /\ UNCHANGED <<allowance, trusted, done, attested, delivery,
                                unsure, faults>>

signatureRejected ==
    /\ open /\ at \in Signing
    /\ Step(at, "idle", "signature_cancelled")
    /\ PageKeeps /\ UNCHANGED <<account, hash, done, attested, delivery,
                                unsure, faults>>

Waiting == {"wait_first", "wait"}
Waited == open /\ at \in Waiting

(* signAndSubmit returns.  The burn starts the leg, and the relay is asked. *)
settled ==
    /\ Waited /\ calls[hash].st = "success"
    /\ \/ /\ Step("wait_first", "build", "preparing")
          /\ UNCHANGED <<done, ask>>
       \/ /\ Step("wait", "idle", "settled") /\ done' = hash
          /\ ask' = IF intent = "chain" THEN "post" ELSE ask
    /\ PageKeeps /\ UNCHANGED <<account, hash, attested, relay, shown,
                                lostPost, unsure, faults>>

(* Failed on chain or refused by the network.                              *)
dropped ==
    /\ Waited
    /\ \/ calls[hash].st \in {"failed", "expired"} /\ UNCHANGED calls
       \/ /\ calls[hash].st = "pending"
          /\ calls' = [calls EXCEPT ![hash].st = "refused"]
    /\ Step(at, "idle", "failed")
    /\ PageKeeps /\ UNCHANGED <<allowance, trusted, hash, done, attested,
                                delivery, unsure, faults>>

(* TransactionStillPending, or no answer at all: useReceive reports every  *)
(* error, TxTimedOutError too, as "failed".                                *)
unanswered ==
    /\ Waited /\ Fault
    /\ Step(at, "idle", "failed") /\ unsure' = TRUE
    /\ PageKeeps /\ UNCHANGED <<account, hash, done, attested, delivery>>

-----------------------------------------------------------------------------
(* Following a burn.                                                       *)

fetchAttestation ==
    /\ open /\ done # 0 /\ intent = "chain" /\ ~attested /\ attested' = TRUE
    /\ UNCHANGED <<account, Session, intent, kept, flow, at, hash, done,
                   delivery, unsure, faults>>

(* Mutant: an arrival is not asked about again.                            *)
nextRelayPoll_ArrivedStops(d) == IF d = "working" THEN "poll" ELSE "no"

(* What a delivery calls for: more reads until it has its link or is over. *)
nextRelayPoll(d) == IF d \in {"working", "minted"} THEN "poll" ELSE "no"

(* startDelivery: the request may not arrive, its answer may not either.   *)
(* A relay that is off says so.                                            *)
startDelivery ==
    /\ open /\ ask = "post"
    /\ \/ /\ relay' = IF relay \in {"none", "gave_up"} THEN "working" ELSE relay
          /\ \/ shown' = relay' /\ ask' = nextRelayPoll(relay')
                /\ UNCHANGED faults
             \/ Fault /\ ask' = "poll" /\ UNCHANGED shown
          /\ UNCHANGED lostPost
       \/ /\ Fault /\ ask' = "poll" /\ lostPost' = TRUE
          /\ UNCHANGED <<relay, shown>>
       \/ /\ Fault /\ shown' = "disabled" /\ ask' = "no"
          /\ UNCHANGED <<relay, lostPost>>
    /\ UNCHANGED <<account, page, unsure>>

(* deliveryOf: 404 for a transfer the relay was never asked for, which is  *)
(* read again like any failed read.                                        *)
deliveryOf ==
    /\ open /\ ask = "poll"
    /\ \/ /\ relay # "none" /\ shown' = relay /\ ask' = nextRelayPoll(relay)
          /\ <<shown', ask'>> # <<shown, ask>>
          /\ UNCHANGED faults
       \/ Fault /\ UNCHANGED <<shown, ask>>
    /\ UNCHANGED <<account, page, relay, lostPost, unsure>>

(* "Try again" of a delivery, where the relay says it can start over.      *)
retryRelay ==
    /\ open /\ shown = "gave_up" /\ ask = "no" /\ ask' = "post"
    /\ faults < MaxFaults /\ faults' = faults + 1
    /\ UNCHANGED <<account, page, relay, shown, lostPost, unsure>>

relayWorks ==
    /\ \/ relay = "working" /\ relay' \in {"minted", "gave_up", "failed"}
       \/ relay = "minted" /\ relay' = "linked"
    /\ UNCHANGED <<account, page, ask, shown, lostPost, unsure, faults>>

(* The page is left: flow, leg and delivery are gone with it.              *)
close ==
    /\ open \/ away = "away"
    /\ open' = FALSE /\ away' = "back" /\ stray' = Nothing
    /\ at' = "idle" /\ flow' = "idle" /\ ask' = "no"
    /\ UNCHANGED <<account, forgot, intent, kept, hash, done, attested, relay,
                   shown, lostPost, unsure, faults>>

(* A disconnect while the page stays (LoanView's "disconnected"): the step *)
(* is unmounted and what it knew is gone.  Nothing stops a run that has     *)
(* still to ask for a signature; what comes of a call it waits for reaches  *)
(* nobody.  Bounds: one disconnect of a page, counted as a fault.           *)
disconnect ==
    /\ open /\ away = "not" /\ Fault
    /\ open' = FALSE /\ away' = "away"
    /\ stray' = IF at = "wait" THEN Nothing ELSE [at |-> at, hash |-> hash]
    /\ at' = "idle" /\ flow' = "idle" /\ hash' = 0 /\ done' = 0
    /\ attested' = FALSE /\ ask' = "no" /\ shown' = "none"
    /\ relay' = "none" /\ lostPost' = FALSE
    /\ UNCHANGED <<account, forgot, intent, kept, unsure>>

(* The account signs in on the page that stayed: the loan page still says  *)
(* the borrow settled and how it is received, unless the USDC was kept, so *)
(* the step is mounted afresh.                                              *)
signIn ==
    /\ away = "away" /\ ~kept /\ away' = "back" /\ open' = TRUE
    /\ forgot' = (Spending # {} \/ stray.at # "idle")
    /\ UNCHANGED <<account, stray, intent, kept, flow, at, hash, done, attested,
                   delivery, unsure, faults>>

(* The run of the unmounted step: as toAsset and toChain, unseen.          *)
strayRuns ==
    /\ stray.at # "idle"
    /\ \/ stray' = Nothing /\ UNCHANGED calls
       \/ /\ stray.at = "read" /\ UNCHANGED calls
          /\ stray' = [stray EXCEPT !.at =
                  IF (intent = "swap" /\ ~trusted) \/ (intent = "chain" /\ ~allowance)
                  THEN "sign_first" ELSE "sign"]
       \/ /\ stray.at = "build" /\ UNCHANGED calls
          /\ stray' = [stray EXCEPT !.at = "sign"]
       \/ /\ stray.at \in Signing /\ Len(calls) < MaxCalls
          /\ calls' = Append(calls, [main |-> stray.at = "sign", st |-> "pending"])
          /\ stray' = IF stray.at = "sign" THEN Nothing
                      ELSE [at |-> "wait_first", hash |-> Len(calls')]
       \/ /\ stray.at = "wait_first" /\ calls[stray.hash].st = "success"
          /\ stray' = [stray EXCEPT !.at = "build"] /\ UNCHANGED calls
    /\ UNCHANGED <<allowance, trusted, open, away, forgot, intent, kept, flow, at,
                   hash, done, attested, delivery, unsure, faults>>

-----------------------------------------------------------------------------
(* Stellar.                                                                *)

land(h) ==
    /\ calls[h].st = "pending"
    /\ \/ /\ calls' = [calls EXCEPT ![h].st = "success"]
          /\ calls[h].main /\ intent = "chain" => allowance
          /\ allowance' = (intent = "chain" /\ ~calls[h].main)
          /\ trusted' = (trusted \/ intent = "swap")
       \/ /\ calls' = [calls EXCEPT ![h].st = "failed"]
          /\ UNCHANGED <<allowance, trusted>>
    /\ UNCHANGED <<page, delivery, unsure, faults>>

expire(h) ==
    /\ calls[h].st = "pending" /\ calls' = [calls EXCEPT ![h].st = "expired"]
    /\ UNCHANGED <<allowance, trusted, page, delivery, unsure, faults>>

PageSteps ==
    \/ onGo \/ onKeep \/ readFirst \/ build \/ signed \/ signatureRejected
    \/ settled \/ dropped \/ unanswered
    \/ fetchAttestation \/ startDelivery \/ deliveryOf \/ retryRelay

Next ==
    \/ PageSteps \/ close \/ disconnect \/ signIn \/ strayRuns \/ relayWorks
    \/ \E h \in 1..Len(calls) : land(h) \/ expire(h)

(* The poll timers and the relay go on by themselves.                      *)
Follow == startDelivery \/ deliveryOf
Fairness == WF_vars(Follow) /\ WF_vars(relayWorks)
Spec == Init /\ [][Next]_vars /\ Fairness

-----------------------------------------------------------------------------
(* The borrowed USDC is swapped or burned once: a second swap or burn is   *)
(* signed only after one was reported as failed without being known to     *)
(* have failed, or after a disconnect made the step forget one that was    *)
(* done or under way, whatever is declined, refused, retried or closed.    *)
SpentTwiceOnlyIfUnsure == Cardinality(Spending) > 1 => unsure \/ forgot

(* The page reads the delivery or shows it under way, and its request got   *)
(* through.                                                                *)
Asked == (ask = "poll" \/ shown \in {"working", "minted"}) /\ ~lostPost
Followed == ~open \/ shown \in {"linked", "gave_up", "failed"}

(* relay.ts:41, "Arrived without its link: every ~30 s until the relay     *)
(* names the transaction": as long as the page is open, a burn the relay   *)
(* was asked for is followed to its mint's link or to its failure; only a  *)
(* request that never reached the relay leaves the page polling for good.  *)
(* Retries are few, so that a page which stops following stops for good.   *)
DeliveryIsFollowed == <>[](Asked => Followed)

=============================================================================
