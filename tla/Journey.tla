------------------------------ MODULE Journey ------------------------------
(***************************************************************************)
(* The deposit page: the steps from an amount over the two wallets to the  *)
(* review, the slider that asks the Bitcoin wallet to pay, the deposit it  *)
(* then waits for and registers, and the page of another device's deposit. *)
(*                                                                         *)
(* One tab, in which accounts and wallets change under open prompts and    *)
(* reads, next to another tab that works on the same deposits.  The runs   *)
(* that send, follow and register a deposit are DepositFlow's: here they    *)
(* are their outcomes and what they tell the page.                         *)
(***************************************************************************)
EXTENDS Integers, FiniteSets

CONSTANTS
    None,
    Accounts,           \* Stellar accounts
    BtcKeys,            \* Bitcoin wallets
    MIN_DEPOSIT_SATS,
    MaxSats,            \* bound on an amount and on a balance
    MaxActs,            \* bound on what the user does
    MaxMoves            \* bound on answers, failures and the other tab

VARIABLES
    account, key,       \* the connected wallets
    answer,             \* each read's last answer, with what it was for
    asked,              \* the reads under way for the connected wallets
    lowAckFor,
    amount, amountConfirmed, editing, ack, newDeviceOpen, txidCheck,
    tip,                \* useDepositLock: None, "failed" or "ready"
    flow, action,
    starts,             \* sends and saves of a pasted txid under way
    tracking,           \* trackDeposit runs in this tab
    trailing,           \* accounts an aborted trackDeposit is still at work for
    registering,        \* the accounts whose deposits are being registered
    pending,            \* pendingDeposits, shared by the tabs
    elsewhere,          \* accounts whose deposit another tab drives
    funds, held,        \* the chains: XLM of an account, sats of a wallet
    found,              \* history: accounts whose loans were found,
    spent,              \*   wallets that paid since their balance was read,
    touched,            \*   accounts another tab worked for,
    loose,              \*   the flow is in flight with nothing under way: left so,
                        \*   or put there by an aborted run,
    crossed,            \*   the page went on while a run was under way, heard
                        \*   an aborted one, or missed that its deposit was made,
    lost,               \*   accounts a deposit's record was replaced for
    acts, moves

form == <<amount, amountConfirmed, editing, ack, newDeviceOpen, txidCheck>>
reads == <<answer, asked, lowAckFor, tip>>
runs == <<flow, action, starts, tracking, trailing, registering>>
outside == <<pending, elsewhere, funds, held>>
history == <<found, spent, touched, loose, crossed, lost>>
vars == <<account, key, reads, form, runs, outside, history, acts, moves>>

Reads == {"network", "funding", "find", "balance"}
Failed == -1

(* A page that has made its first reads, empty or with its form filled in. *)
Init ==
    /\ account = (CHOOSE a \in Accounts : TRUE) /\ key = (CHOOSE k \in BtcKeys : TRUE)
    /\ \E f \in {"ok", "unfunded"} :
           /\ funds = [a \in Accounts |-> IF a = account THEN f ELSE "low"]
           /\ answer = [r \in Reads |->
                 CASE r = "network" -> [key |-> account, value |-> "right"]
                   [] r = "funding" -> [key |-> account, value |-> f]
                   [] r = "find" -> [key |-> account, value |-> "found"]
                   [] r = "balance" -> [key |-> key, value |-> MaxSats]]
    /\ asked = {} /\ found = {account} /\ tip = None
    /\ held = [k \in BtcKeys |-> MaxSats] /\ lowAckFor = None
    /\ amount \in {None, MIN_DEPOSIT_SATS} /\ amountConfirmed = (amount # None)
    /\ editing = None /\ ack = amountConfirmed /\ newDeviceOpen = FALSE /\ txidCheck = "idle"
    /\ flow = "idle" /\ action = None
    /\ starts = {} /\ tracking = FALSE /\ trailing = {} /\ registering = {}
    /\ pending = [a \in Accounts |-> None] /\ elsewhere = {}
    /\ spent = {} /\ touched = {}
    /\ loose = FALSE /\ crossed = FALSE /\ lost = {}
    /\ acts = 0 /\ moves = 0

Act == acts < MaxActs /\ acts' = acts + 1 /\ UNCHANGED moves
Move == moves < MaxMoves /\ moves' = moves + 1 /\ UNCHANGED acts

-----------------------------------------------------------------------------
(* What the page has read.                                                 *)
Key(r) == IF r = "balance" THEN key ELSE account

(* Mutant: an answer is shown for whichever wallet is connected.           *)
forKey_AnyKey(r) == Key(r) # None /\ answer[r] # None

forKey(r) == Key(r) # None /\ answer[r] # None /\ answer[r].key = Key(r)

Read(r, v) == forKey(r) /\ answer[r].value = v

parseBtcAmount(v) == v # None /\ v >= MIN_DEPOSIT_SATS

confirmedSats == IF amountConfirmed /\ parseBtcAmount(amount) THEN amount ELSE None
mine == IF account = None THEN None ELSE pending[account]
sats == IF mine # None THEN mine.sats ELSE confirmedSats

fundingOk ==
    \/ Read("funding", "failed") \/ Read("funding", "ok")
    \/ Read("funding", "low") /\ lowAckFor = account
wrongNetwork == Read("network", "wrong")
stellarReady ==
    account # None /\ ~wrongNetwork /\ fundingOk /\ Read("find", "found")

lockReady == key # None /\ tip = "ready"
covers(b, s) == b = Failed \/ (s # None /\ b >= s)
bitcoinReady == lockReady /\ forKey("balance") /\ covers(answer["balance"].value, sats)

-----------------------------------------------------------------------------
(* The flow and the step it leads to.                                      *)
TERMINAL == {"idle", "ready", "settled", "declined_bitcoin", "declined_stellar",
             "timed_out", "failed", "needs_attention"}
isInFlight == flow \notin TERMINAL
preparing == {"preparing", "locating", "building"}

reduceFlow(s, e) ==
    IF s \in TERMINAL \ {"idle", "ready"}
         /\ ~(s = "timed_out" /\ e \in {"settled", "failed"})
    THEN s ELSE e

emit(e) == flow' = reduceFlow(flow, e)

confirmed(pd) == pd.step = "ready" \/ pd.confirmed

(* The status turns to ready_to_register with the confirmations.           *)
depositStage(pd) ==
    IF flow \in {"ready", "submitted", "post_processing", "needs_attention",
                 "timed_out", "asks_stellar", "declined_stellar", "building"}
         \/ confirmed(pd)
    THEN "register" ELSE "wait"

sending == mine = None /\ action = "send" /\ isInFlight
stage == IF mine = None THEN None ELSE depositStage(mine)

routeStep ==
    IF mine # None THEN stage
    ELSE IF flow = "settled" THEN "done"
    ELSE IF sending THEN "review"
    ELSE IF editing # None THEN editing
    ELSE IF ~amountConfirmed THEN "amount"
    ELSE IF ~stellarReady THEN "stellar"
    ELSE IF ~bitcoinReady THEN "bitcoin" ELSE "review"

STEPS == <<"amount", "stellar", "bitcoin", "review">>
canEdit(target) ==
    /\ routeStep \in {"stellar", "bitcoin", "review"} /\ ~sending
    /\ \E i, j \in 1..4 : i < j /\ STEPS[i] = target /\ STEPS[j] = routeStep

(* ReviewStep shows the slider unless a panel or the wallet's turn is on.  *)
slider ==
    /\ routeStep = "review" /\ ~newDeviceOpen
    /\ flow \notin preparing \cup {"asks_bitcoin"}

offered == slider /\ ack /\ lockReady /\ sats # None

(* registerView, and the views in which Register is a button.              *)
registerView ==
    CASE flow \in preparing \cup {"asks_bitcoin", "asks_stellar", "submitted",
                                  "post_processing"} -> "progress"
      [] flow \in {"declined_bitcoin", "declined_stellar"} -> "cancelled"
      [] flow = "needs_attention" -> "attention"
      [] flow \in {"timed_out", "failed"} -> flow
      [] OTHER -> "ready"

registrable == routeStep = "register" /\ registerView \in {"ready", "cancelled", "failed"}

-----------------------------------------------------------------------------
(* Wallets and reads.                                                      *)
Tracks(a, p) == a # None /\ p[a] # None /\ a \notin elsewhere

(* The run on account a that an effect's cleanup aborts.  The signal is    *)
(* seen in its sleeps only: until the next one it goes on, and tells.      *)
Cut(a) == IF tracking /\ a = account THEN {a} ELSE {}

switchAccount(a) ==
    /\ a # account /\ Act
    /\ account' = a /\ flow' = "idle" /\ loose' = FALSE
    /\ asked' = (asked \cap {"balance"})
                  \cup (IF a = None THEN {} ELSE Reads \ {"balance"})
    /\ tracking' = Tracks(a, pending) /\ trailing' = trailing \cup Cut(account)
    /\ crossed' = (crossed \/ starts # {} \/ registering # {})
    /\ UNCHANGED <<key, answer, lowAckFor, tip, form, action, starts, registering,
                   outside, found, spent, touched, lost>>

switchKey(k) ==
    /\ k # key /\ Act
    /\ key' = k
    /\ asked' = (asked \ {"balance"}) \cup (IF k = None THEN {} ELSE {"balance"})
    /\ UNCHANGED <<account, answer, lowAckFor, tip, form, runs, outside, history>>

Asked(r) == answer' = [answer EXCEPT ![r] = None] /\ asked' = asked \cup {r}
Told(r, v) ==
    /\ r \in asked /\ asked' = asked \ {r}
    /\ answer' = [answer EXCEPT ![r] = [key |-> Key(r), value |-> v]]
    /\ UNCHANGED <<account, key, lowAckFor, tip, form, runs, outside, touched,
                   loose, crossed, lost>>

loadFunding == Told("funding", funds[account]) /\ UNCHANGED <<found, spent, acts, moves>>
discoverPositions ==
    Told("find", "found") /\ found' = found \cup {account} /\ UNCHANGED <<spent, acts, moves>>
getNetwork == Told("network", "right") /\ UNCHANGED <<found, spent, acts, moves>>
loadBalance ==
    Told("balance", held[key]) /\ spent' = spent \ {key} /\ UNCHANGED <<found, acts, moves>>

readFails ==
    /\ \/ Told("funding", "failed") \/ Told("find", "failed")
       \/ Told("network", "wrong") \/ Told("balance", Failed)
    /\ Move /\ UNCHANGED <<found, spent>>

(* retryFind, recheckFunding, recheck, the focus of the window, and        *)
(* Friendbot, after which the account is read again.                       *)
recheck(r) ==
    /\ Act /\ (r = "balance" => key # None) /\ (r # "balance" => account # None)
    /\ Asked(r)
    /\ UNCHANGED <<account, key, lowAckFor, tip, form, runs, outside, history>>

fund ==
    /\ routeStep = "stellar" /\ Read("funding", "unfunded") /\ Act
    /\ funds' = [funds EXCEPT ![account] = "ok"] /\ Asked("funding")
    /\ UNCHANGED <<account, key, lowAckFor, tip, form, runs, pending, elsewhere,
                   held, history>>

ackLow ==
    /\ routeStep = "stellar" /\ Read("funding", "low") /\ Act
    /\ lowAckFor' = account
    /\ UNCHANGED <<account, key, answer, asked, tip, form, runs, outside, history>>

(* useDepositLock: the height is read once and kept for the page's life.   *)
(* The review's "Try again" after a failed read is never reached: without  *)
(* a lock address the page stays on the Bitcoin step, which has none.      *)
depositLock ==
    /\ key # None /\ tip = None
    /\ \/ tip' = "ready" /\ UNCHANGED <<acts, moves>>
       \/ tip' = "failed" /\ Move
    /\ UNCHANGED <<account, key, answer, asked, lowAckFor, form, runs, outside, history>>

-----------------------------------------------------------------------------
(* The form.                                                               *)
Form == UNCHANGED <<account, key, reads, runs, outside, history>>

setAmount(v) ==
    /\ routeStep = "amount" /\ Act /\ amount' = v
    /\ UNCHANGED <<amountConfirmed, editing, ack, newDeviceOpen, txidCheck>> /\ Form

submitAmount ==
    /\ routeStep = "amount" /\ parseBtcAmount(amount)
    /\ amountConfirmed' = TRUE /\ editing' = None
    /\ UNCHANGED <<amount, ack, newDeviceOpen, txidCheck, acts, moves>> /\ Form

edit(target) ==
    /\ canEdit(target) /\ Act /\ editing' = target
    /\ UNCHANGED <<amount, amountConfirmed, ack, newDeviceOpen, txidCheck>> /\ Form

finishEdit ==
    /\ \/ routeStep = "stellar" /\ stellarReady
       \/ routeStep = "bitcoin" /\ bitcoinReady
    /\ editing # None /\ editing' = None
    /\ UNCHANGED <<amount, amountConfirmed, ack, newDeviceOpen, txidCheck, acts, moves>>
    /\ Form

setAck ==
    /\ slider /\ ack' = ~ack /\ Act
    /\ UNCHANGED <<amount, amountConfirmed, editing, newDeviceOpen, txidCheck>> /\ Form

(* "I already sent BTC", its Cancel, and a txid typed and found on Bitcoin. *)
short ==
    /\ routeStep = "bitcoin" /\ forKey("balance") /\ answer["balance"].value # Failed
    /\ sats # None /\ answer["balance"].value < sats
panel == newDeviceOpen /\ (routeStep = "review" \/ short)

openPanel ==
    /\ slider \/ (short /\ ~newDeviceOpen)
    /\ Act /\ newDeviceOpen' = TRUE
    /\ UNCHANGED <<amount, amountConfirmed, editing, ack, txidCheck>> /\ Form

Saving == \E s \in starts : s.kind = "txid"

cancelPanel ==
    /\ panel /\ Act /\ newDeviceOpen' = FALSE
    /\ crossed' = (crossed \/ Saving)
    /\ UNCHANGED <<amount, amountConfirmed, editing, ack, txidCheck, account, key,
                   reads, runs, outside, found, spent, touched, loose, lost>>

checkTxid ==
    /\ panel /\ key # None /\ txidCheck' = "found" /\ txidCheck # "found" /\ Act
    /\ crossed' = (crossed \/ Saving)
    /\ UNCHANGED <<amount, amountConfirmed, editing, ack, newDeviceOpen, account, key,
                   reads, runs, outside, found, spent, touched, loose, lost>>

-----------------------------------------------------------------------------
(* Sending, and saving a deposit sent before.                              *)
Starting(kind, n) == starts' = starts \cup {[kind |-> kind, owner |-> account,
                                             key |-> key, sats |-> n,
                                             id |-> Cardinality(starts)]}

(* send, to the moment the wallet is asked.                                *)
send ==
    /\ offered /\ account # None /\ mine = None /\ Act
    /\ action' = "send" /\ flow' = "asks_bitcoin" /\ loose' = FALSE
    /\ Starting("send", sats)
    /\ UNCHANGED <<account, key, reads, form, tracking, trailing, registering, outside,
                   found, spent, touched, crossed, lost>>

confirmTxid ==
    /\ panel /\ txidCheck = "found" /\ account # None /\ key # None /\ mine = None /\ Act
    /\ action' = "txid" /\ txidCheck' = "saving" /\ emit("locating")
    /\ Starting("txid", MaxSats)
    /\ UNCHANGED <<account, key, reads, amount, amountConfirmed, editing, ack,
                   newDeviceOpen, tracking, trailing, registering, outside, history>>

(* pendingDeposits.save replaces whatever the account's record was; the    *)
(* page of that account then follows the deposit.                          *)
Saved(s, step) ==
    /\ pending' = [pending EXCEPT ![s.owner] =
                     [key |-> s.key, sats |-> s.sats, step |-> step,
                      confirmed |-> FALSE, signed |-> FALSE, onChain |-> FALSE]]
    /\ lost' = lost \cup {a \in {s.owner} : pending[a] # None}
    /\ trailing' = trailing \cup Cut(s.owner)
    /\ tracking' = IF s.owner = account THEN account \notin elsewhere ELSE tracking

sent(s) ==
    /\ s.kind = "send" /\ held[s.key] >= s.sats
    /\ starts' = starts \ {s} /\ Saved(s, "sent")
    /\ held' = [held EXCEPT ![s.key] = @ - s.sats] /\ spent' = spent \cup {s.key}
    /\ ack' = FALSE
    /\ UNCHANGED <<account, key, reads, amount, amountConfirmed, editing,
                   newDeviceOpen, txidCheck, flow, action, registering, elsewhere,
                   funds, found, touched, loose, crossed, acts, moves>>

sendFails(s) ==
    /\ s.kind = "send" /\ Move /\ starts' = starts \ {s}
    /\ \/ flow = "asks_bitcoin" /\ flow' = "declined_bitcoin"
       \/ emit("failed")
    /\ UNCHANGED <<account, key, reads, form, action, tracking, trailing, registering,
                   outside, history>>

saved(s) ==
    /\ s.kind = "txid"
    /\ starts' = starts \ {s} /\ Saved(s, "confirming") /\ newDeviceOpen' = FALSE
    /\ UNCHANGED <<account, key, reads, amount, amountConfirmed, editing, ack,
                   txidCheck, flow, action, registering, elsewhere, funds, held,
                   found, spent, touched, loose, crossed, acts, moves>>

(* The panel shows the error; the flow is not told and stays in flight.    *)
saveFails(s) ==
    /\ s.kind = "txid" /\ Move /\ starts' = starts \ {s} /\ txidCheck' = "idle"
    /\ loose' = TRUE
    /\ UNCHANGED <<account, key, reads, amount, amountConfirmed, editing, ack,
                   newDeviceOpen, flow, action, tracking, trailing, registering,
                   outside, found, spent, touched, crossed, lost>>

-----------------------------------------------------------------------------
(* The deposit on its way.  trackDeposit for account a locates the output, *)
(* waits for a registration it finds signed, counts the confirmations (or  *)
(* finds no relayer) and is ready.                                         *)
Open(a) == pending[a] # None /\ ~pending[a].onChain

Locates(a) ==
    /\ Open(a) /\ pending[a].step = "sent"
    /\ pending' = [pending EXCEPT ![a].step = "confirming"] /\ emit("locating")

Awaits(a) == Open(a) /\ pending[a].signed /\ emit("submitted") /\ UNCHANGED pending

Counts(a) ==
    /\ Open(a) /\ pending[a].step # "sent" /\ emit("waiting_btc") /\ UNCHANGED pending

Readies(a) ==
    /\ Open(a) /\ pending[a].step # "sent" /\ pending[a].confirmed
    /\ pending' = [pending EXCEPT ![a].step = "ready", ![a].signed = FALSE]
    /\ emit("ready")

Runs(tracks) ==
    /\ tracking' = tracks
    /\ UNCHANGED <<account, key, reads, form, action, starts, trailing, registering,
                   elsewhere, funds, held, history, acts, moves>>

located == tracking /\ (Locates(account) \/ Awaits(account)) /\ Runs(TRUE)
counted == tracking /\ Counts(account) /\ Runs(TRUE)
readied == tracking /\ Readies(account) /\ Runs(FALSE)

trackFails ==
    /\ tracking /\ emit("failed") /\ tracking' = FALSE /\ Move
    /\ UNCHANGED <<account, key, reads, form, action, starts, trailing, registering,
                   outside, history>>

(* The chain has the position: its record is closed.  A flow that ended as *)
(* "failed" or "needs_attention" takes no news of it and shows no Done.    *)
active ==
    /\ tracking /\ mine.onChain
    /\ pending' = [pending EXCEPT ![account] = None]
    /\ emit("settled") /\ tracking' = FALSE
    /\ crossed' = (crossed \/ flow' # "settled" \/ registering # {})
    /\ UNCHANGED <<account, key, reads, form, action, starts, trailing, registering,
                   elsewhere, funds, held, found, spent, touched, loose, lost, acts, moves>>

(* An aborted run, up to its next sleep: it may have read the record and   *)
(* the chain before the record was closed, or replaced by another's.       *)
Stale(a) ==
    /\ pending[a] = None \/ a \in lost
    /\ \/ /\ \E e \in {"locating", "waiting_btc", "submitted"} : emit(e)
          /\ UNCHANGED pending
       \/ /\ emit("ready")
          /\ pending' = IF pending[a] = None THEN pending
                        ELSE [pending EXCEPT ![a].step = "ready"]
       \/ emit("settled") /\ pending' = [pending EXCEPT ![a] = None]

trails(a) ==
    /\ a \in trailing
    /\ \/ Locates(a) /\ UNCHANGED trailing
       \/ /\ \/ Open(a) /\ pending[a].step = "sent" /\ emit("locating")
                /\ UNCHANGED pending
             \/ Awaits(a) \/ Counts(a) \/ Readies(a) \/ Stale(a)
             \/ /\ pending[a] # None /\ pending[a].onChain
                /\ emit("settled") /\ pending' = [pending EXCEPT ![a] = None]
             \/ UNCHANGED <<flow, pending>>
          /\ trailing' = (trailing \ {a}) \cup (IF pending'[a] = None THEN Cut(a) ELSE {})
    /\ tracking' = (tracking /\ (a = account => pending'[a] # None))
    /\ loose' = (loose \/ (flow' # flow /\ flow' \notin TERMINAL))
    /\ crossed' = (crossed \/ flow' # flow \/ (pending[a] # None /\ pending'[a] = None))
    /\ UNCHANGED <<account, key, reads, form, action, starts, registering, elsewhere,
                   funds, held, found, spent, touched, lost, acts, moves>>

(* finish, and recheck while nothing is in flight: track it again.         *)
again ==
    /\ mine # None /\ ~isInFlight /\ ~tracking /\ account \notin elsewhere /\ Act
    /\ tracking' = TRUE
    /\ UNCHANGED <<account, key, reads, form, flow, action, starts, trailing, registering,
                   outside, history>>

(* register: the key must be the deposit's and the account's transaction   *)
(* lock free, or it fails at once.                                         *)
register ==
    /\ registrable /\ (account \in registering => isInFlight) /\ Act
    /\ action' = "register" /\ loose' = FALSE
    /\ IF key # mine.key \/ account \in registering
       THEN flow' = "failed" /\ UNCHANGED registering
       ELSE flow' = "asks_bitcoin" /\ registering' = registering \cup {account}
    /\ UNCHANGED <<account, key, reads, form, starts, tracking, trailing, outside, found,
                   spent, touched, crossed, lost>>

(* A run tells the page of the tab, whatever account it shows by then.     *)
(* registerDeposit tracks the deposit once more, and signs when it is      *)
(* ready; the order in which it tells of the two is left open.             *)
checks(a) ==
    /\ a \in registering /\ (Locates(a) \/ Awaits(a) \/ Counts(a) \/ Readies(a))
    /\ Runs(tracking)

signs(a) ==
    /\ a \in registering
    /\ pending[a] # None /\ a \notin lost => pending[a].step = "ready"
    /\ \/ \E e \in {"building", "asks_stellar"} : emit(e) /\ UNCHANGED pending
       \/ /\ emit("submitted")
          /\ pending' = IF pending[a] = None THEN pending
                        ELSE [pending EXCEPT ![a].signed = TRUE]
    /\ Runs(tracking)

registered(a) ==
    /\ a \in registering /\ pending[a] # None /\ pending[a].confirmed
    /\ registering' = registering \ {a} /\ emit("settled")
    /\ pending' = [pending EXCEPT ![a] = None]
    /\ tracking' = (tracking /\ a # account) /\ trailing' = trailing \cup Cut(a)
    /\ UNCHANGED <<account, key, reads, form, action, starts, elsewhere, funds, held,
                   history, acts, moves>>

(* Declined; failed, or timed out and reported as failed; dropped, which   *)
(* forgets the signed transaction; or recorded on the chain and not read   *)
(* back.                                                                   *)
registerFails(a) ==
    /\ a \in registering /\ registering' = registering \ {a} /\ Move
    /\ \/ flow = "asks_stellar" /\ flow' = "declined_stellar" /\ UNCHANGED pending
       \/ emit("failed") /\ UNCHANGED pending
       \/ /\ pending[a] # None /\ pending[a].signed /\ emit("failed")
          /\ pending' = [pending EXCEPT ![a].signed = FALSE]
       \/ /\ pending[a] # None /\ pending[a].confirmed
          /\ pending' = [pending EXCEPT ![a].onChain = TRUE]
          /\ emit("failed") \/ emit("needs_attention")
    /\ UNCHANGED <<account, key, reads, form, action, starts, tracking, trailing, elsewhere,
                   funds, held, history>>

(* "Make another deposit".                                                 *)
reset ==
    /\ routeStep = "done" /\ Act
    /\ flow' = "idle" /\ action' = None
    /\ amount' = None /\ amountConfirmed' = FALSE /\ editing' = None
    /\ ack' = FALSE /\ newDeviceOpen' = FALSE /\ txidCheck' = "idle"
    /\ UNCHANGED <<account, key, reads, starts, tracking, trailing, registering, outside,
                   history>>

-----------------------------------------------------------------------------
(* Bitcoin, and another tab that sends or registers for the account.       *)
confirms(a) ==
    /\ pending[a] # None /\ ~pending[a].confirmed
    /\ pending' = [pending EXCEPT ![a].confirmed = TRUE]
    /\ UNCHANGED <<account, key, reads, form, runs, elsewhere, funds, held, history,
                   acts, moves>>

otherSends(a) ==
    /\ pending[a] = None /\ Move
    /\ pending' = [pending EXCEPT ![a] =
                     [key |-> CHOOSE k \in BtcKeys : TRUE, sats |-> MIN_DEPOSIT_SATS,
                      step |-> "sent", confirmed |-> FALSE, signed |-> FALSE,
                      onChain |-> FALSE]]
    /\ elsewhere' = elsewhere \cup {a} /\ touched' = touched \cup {a}
    /\ UNCHANGED <<account, key, reads, form, runs, funds, held, found, spent, loose,
                   crossed, lost>>

otherRegisters(a) ==
    /\ pending[a] # None /\ pending[a].confirmed /\ a \notin registering /\ Move
    /\ pending' = [pending EXCEPT ![a] = None]
    /\ elsewhere' = elsewhere \ {a} /\ touched' = touched \cup {a}
    /\ tracking' = (tracking /\ a # account) /\ trailing' = trailing \cup Cut(a)
    /\ loose' = (loose \/ (a = account /\ isInFlight))
    /\ UNCHANGED <<account, key, reads, form, flow, action, starts, registering,
                   funds, held, found, spent, crossed, lost>>

-----------------------------------------------------------------------------
Next ==
    \/ \E a \in Accounts \cup {None} : switchAccount(a)
    \/ \E k \in BtcKeys : switchKey(k)
    \/ loadFunding \/ discoverPositions \/ getNetwork \/ loadBalance \/ readFails
    \/ \E r \in Reads : recheck(r)
    \/ fund \/ ackLow \/ depositLock
    \/ \E v \in 1..MaxSats : setAmount(v)
    \/ submitAmount \/ \E t \in {"amount", "stellar", "bitcoin"} : edit(t)
    \/ finishEdit \/ setAck \/ openPanel \/ cancelPanel \/ checkTxid
    \/ send \/ confirmTxid
    \/ \E s \in starts : sent(s) \/ sendFails(s) \/ saved(s) \/ saveFails(s)
    \/ located \/ counted \/ readied \/ trackFails \/ active \/ again
    \/ \E a \in Accounts : trails(a)
    \/ register
    \/ \E a \in Accounts : checks(a) \/ signs(a) \/ registered(a) \/ registerFails(a)
    \/ reset
    \/ \E a \in Accounts : confirms(a) \/ otherSends(a) \/ otherRegisters(a)

Spec == Init /\ [][Next]_vars

-----------------------------------------------------------------------------
\* useLiveJourney.ts:45: while the slider offers to send, the connected account
\* is the one whose loans were found and whose funding was read, no deposit of
\* its is under way, and the connected wallet held the amount, of at least the
\* minimum, when its balance was read.  A flow in flight after a send is the one
\* way around these checks: one another tab's work left so, or one the tracker of
\* an account put there after the page had left that account.
OfferIsSound ==
    offered =>
        /\ mine = None /\ sats >= MIN_DEPOSIT_SATS
        /\ sending => loose \/ crossed
        /\ ~sending => /\ account \in found
                       /\ funds[account] # "unfunded" \/ Read("funding", "failed")
                       /\ \/ held[key] >= sats \/ key \in spent
                          \/ Read("balance", Failed)

\* pendingDeposit.ts:3-7: the record of a deposit is replaced by that of another
\* only if the page went on while a run was under way, heard an aborted one, or
\* another tab sent for the same account.
RecordIsKept == \A a \in lost : crossed \/ a \in touched

\* ReviewStep: a page that says the deposit is being made ready or the wallet is
\* asked has a run under way, unless a pasted txid could not be saved, another
\* tab finished the deposit, or the tracker of an account the page had left, or
\* of a record already closed, told it so before it stopped.
PromptIsReal ==
    routeStep = "review" /\ flow \in preparing \cup {"asks_bitcoin"}
        => starts # {} \/ registering # {} \/ loose

\* journey.ts:151: Register is offered for deposits Bitcoin has confirmed, as
\* long as one tab works on the account, waits for its own runs, hears of their
\* end and of no run it had aborted: a flow that stayed "declined_stellar" when
\* its deposit was closed would offer it for the next one.
RegisterIsDue ==
    registrable /\ account \notin touched /\ ~crossed => mine.confirmed
=============================================================================
