----------------------------- MODULE LoanScreen -----------------------------
(***************************************************************************)
(* The loan page of the web app: the status it derives and keeps, the      *)
(* actions it offers from it, and the flow that runs one.                  *)
(*                                                                         *)
(* A status read is several network reads, each at its own moment; reads   *)
(* overlap, hang, fail and end in any order, and each is for the local     *)
(* record it was started with.  Meanwhile the page's own flow, another     *)
(* device, the relayer, the price and Bitcoin change what is read.         *)
(***************************************************************************)
EXTENDS Integers, Sequences, FiniteSets

CONSTANTS
    None,
    MaxReads,       \* bound on the status reads that overlap
    MaxActs,        \* bound on the actions the page runs
    MaxFaults       \* bound on failed reads, lost answers, busy locks and
                    \* calls of another device

VARIABLES
    loan,           \* on writz-lend: "fresh" (no debt), "owes", "closed", "liquidated"
    low,            \* the debt's ratio is below the borrow limit
    out,            \* the lock output: "unspent", "sent" or "confirmed" (spent)
    psbt,           \* the relayer has published the release
    rec,            \* the local record: "active", "closed", "released"
    pend,           \* a call of this loan is on the list of pending ones
    cache,          \* StatusStore: the derived status of each live statusKey
    reads,          \* StatusStore: the refreshes of those, oldest first
    last,           \* useSteadyStatus: the last answer that was not "checking"
    flow, action,   \* useFlow, and the tab whose flow it is
    at,             \* where that flow is
    call,           \* the call it submitted
    left,           \* the call leaves debt behind: a borrow, or a part
    acts, faults

chainSide == <<loan, low, out, psbt>>
store == <<cache, reads, last>>
local == <<rec, pend>>
page == <<flow, action, at, call, left>>
vars == <<chainSide, store, local, page, acts, faults>>

Tabs == {"borrow", "repay", "release"}
Unread == "unread"
Missing == "missing"
CHECKING == "checking"
Fault == faults < MaxFaults /\ faults' = faults + 1
Act == acts < MaxActs /\ acts' = acts + 1

(* The key holds the record's status and the hashes of the pending calls:  *)
(* with the record as it is, the one without a call can come back and the  *)
(* one with a call is gone for good with its call.                         *)
statusKey == pend

Init ==
    /\ loan \in {"fresh", "owes"} /\ low = FALSE /\ out = "unspent"
    /\ psbt = FALSE /\ rec = "active" /\ pend = FALSE
    /\ cache = [k \in BOOLEAN |-> CHECKING] /\ reads = << >> /\ last = CHECKING
    /\ flow = "idle" /\ action = None /\ at = "idle" /\ call = None
    /\ left = FALSE /\ acts = 0 /\ faults = 0

-----------------------------------------------------------------------------
(* derivePositionStatus.                                                   *)

releaseFromOutspend(o) == IF o = "confirmed" THEN "released" ELSE "releasing"

(* Mutant: a loan that cannot be read is taken from the local record.      *)
known_Local(c, r) ==
    IF c # Missing THEN c
    ELSE IF r = "active" THEN "owes" ELSE "closed"

(* The loan as read; the local record is a hint and stands for nothing.    *)
known(c, r) == c

openStatus(c0, o, r) ==
    LET c == known(c0, r)
        spent == o \in {"sent", "confirmed"}
    IN CASE r = "released" /\ spent -> releaseFromOutspend(o)
         [] ~(r = "released" /\ spent) /\ c = Missing -> CHECKING
         [] OTHER ->
            IF c = "liquidated" THEN "liquidated"
            ELSE IF spent THEN releaseFromOutspend(o)
            ELSE IF o = Missing /\ (r = "released" \/ c # "owes") THEN CHECKING
            ELSE IF r = "released" THEN "releasing"
            ELSE IF c = "closed"
                 THEN IF psbt THEN "repaid_locked" ELSE "syncing"
            ELSE IF c = "fresh" THEN "never_borrowed"
            ELSE IF low THEN "low" ELSE "healthy"

(* What the page shows: the store's answer for the record as it is now, or *)
(* the last answer while there is none.                                    *)
steady(k, c, l) == IF c[k] # CHECKING THEN c[k] ELSE l
shown == steady(statusKey, cache, last)
Steadied == last' = steady(statusKey', cache', last)

(* The record or the pending call has changed: what the store keeps for    *)
(* keys that cannot come back, and the reads for them, no longer matter.   *)
(* The reads for a key that can come back began before the others.         *)
Rekeyed ==
    LET dead == IF rec' # rec THEN BOOLEAN ELSE {TRUE}
        live == {j \in DOMAIN reads : reads[j].key \notin dead}
    IN /\ cache' = [k \in BOOLEAN |-> IF k \in dead THEN CHECKING ELSE cache[k]]
       /\ reads' = SubSeq(reads, 1, Cardinality(live))
       /\ Steadied

-----------------------------------------------------------------------------
(* StatusStore.refresh and readStatusInputs.                               *)

others == <<chainSide, local, page, acts>>

(* pollWhileVisible, useRefreshStatus.                                     *)
poll ==
    /\ Len(reads) < MaxReads
    /\ reads' = Append(reads, [key |-> statusKey, pos |-> Unread,
                               out |-> Unread, late |-> FALSE])
    /\ UNCHANGED <<cache, last, others, faults>>

getPosition(i) ==
    /\ reads[i].pos = Unread
    /\ \/ reads' = [reads EXCEPT ![i].pos = loan] /\ UNCHANGED faults
       \/ reads' = [reads EXCEPT ![i].pos = Missing] /\ Fault
    /\ UNCHANGED <<cache, last, others>>

getOutspend(i) ==
    /\ reads[i].out = Unread
    /\ \/ reads' = [reads EXCEPT ![i].out = out] /\ UNCHANGED faults
       \/ reads' = [reads EXCEPT ![i].out = Missing] /\ Fault
    /\ UNCHANGED <<cache, last, others>>

(* Mutant: only the newest read is applied.                                *)
applies_Newest(i) == i = Len(reads)

(* A read is applied unless a newer one of its key has been.               *)
applies(i) == ~reads[i].late

(* The price and the release are read last, then the status is derived.    *)
refreshed(i) ==
    LET r == reads[i]
        overtaken(q) == [q EXCEPT !.late = @ \/ (q.key = r.key /\ applies(i))]
        rest == [j \in 1..Len(reads) - 1 |->
                    IF j < i THEN overtaken(reads[j]) ELSE reads[j + 1]]
    IN /\ r.pos # Unread /\ r.out # Unread
       /\ reads' = rest
       /\ cache' = IF applies(i)
                   THEN [cache EXCEPT ![r.key] = openStatus(r.pos, r.out, rec)]
                   ELSE cache
       /\ UNCHANGED <<others, faults>> /\ Steadied

-----------------------------------------------------------------------------
(* What is offered, and the flow engine.                                   *)

(* loanTabs: what the status allows, unless something else is running.     *)
enabled(tab) ==
    /\ flow \notin {"preparing", "awaiting_signature", "submitted"}
    /\ shown # "syncing"
    /\ CASE tab = "borrow" -> shown \in {"never_borrowed", "healthy"}
         [] tab = "repay" -> shown \in {"healthy", "low"}
         [] tab = "release" -> shown \in {"never_borrowed", "repaid_locked"}

TERMINAL == {"idle", "settled", "signature_cancelled", "timed_out", "failed"}

(* reduceFlow: an ended flow takes no more events but start and reset, and *)
(* the outcome of a flow that timed out.                                   *)
reduceFlow(s, e) ==
    IF e = "reset" THEN "idle"
    ELSE IF e = "start" THEN "preparing"
    ELSE IF s = "timed_out" /\ e \in {"settled", "failed"} THEN e
    ELSE IF s \in TERMINAL /\ s # "idle" THEN s
    ELSE IF s = "idle" /\ e = "signature_cancelled" THEN s
    ELSE e

Emit(e) == flow' = reduceFlow(flow, e)

guardsUnload(s) == s \in {"awaiting_signature", "submitted"}

Keep == UNCHANGED <<chainSide, store>>

(* useLiveLoan's run.                                                      *)
run(tab) ==
    /\ at = "idle" /\ enabled(tab) /\ Act
    /\ Emit("start") /\ action' = tab /\ at' = "lock" /\ call' = None
    /\ Keep /\ UNCHANGED <<local, left, faults>>

(* Another tab of the account may hold the lock.                           *)
withTxLock ==
    /\ at = "lock"
    /\ \/ at' = "prepare" /\ UNCHANGED <<flow, faults>>
       \/ Fault /\ at' = "idle" /\ Emit("failed")
    /\ Keep /\ UNCHANGED <<local, action, call, left, acts>>

(* The flow reads the loan itself and refuses what it does not allow.      *)
prepare ==
    /\ at = "prepare"
    /\ CASE action = "release" /\ loan = "closed" ->
              at' = "cosign" /\ Emit("preparing")
         [] \/ action = "borrow" /\ loan \in {"fresh", "owes"} /\ ~low
            \/ action = "repay" /\ loan = "owes"
            \/ action = "release" /\ loan = "fresh" ->
              at' = "sign" /\ Emit("awaiting_signature")
         [] OTHER -> at' = "idle" /\ Emit("failed")
    /\ Keep /\ UNCHANGED <<local, action, call, left, acts, faults>>

(* A repayment is of everything or of a part.                              *)
signed ==
    /\ at = "sign" /\ at' = "wait" /\ Emit("submitted")
    /\ call' = "pending" /\ pend' = TRUE
    /\ left' \in IF action = "repay" THEN BOOLEAN ELSE {action = "borrow"}
    /\ UNCHANGED <<chainSide, rec, action, acts, faults>> /\ Rekeyed

rejected ==
    /\ at \in {"sign", "btcsign"} /\ at' = "idle" /\ Emit("signature_cancelled")
    /\ Keep /\ UNCHANGED <<local, action, call, left, acts, faults>>

(* The local change of a confirmed call: a repayment of everything closes  *)
(* the record even when the interest of the last ledgers is left.          *)
apply ==
    /\ rec' = IF left THEN rec ELSE "closed"
    /\ pend' = FALSE /\ call' = None /\ left' = FALSE

(* submitPositionTx; a release goes on.  The repayments of the remainder   *)
(* that a repayment may go on with are part of the call (PositionTx has    *)
(* them one by one).                                                       *)
confirmed ==
    /\ at = "wait" /\ call = "success" /\ apply
    /\ CASE action = "release" -> at' = "cosign" /\ Emit("preparing")
         [] OTHER -> at' = "idle" /\ Emit("settled")
    /\ UNCHANGED <<chainSide, action, acts, faults>> /\ Rekeyed

dropped ==
    /\ at = "wait" /\ call = "failed" /\ at' = "idle" /\ Emit("failed")
    /\ pend' = FALSE /\ call' = None /\ left' = FALSE
    /\ UNCHANGED <<chainSide, rec, action, acts, faults>> /\ Rekeyed

(* TxTimedOutError: submitPositionTx reports the time-out and rethrows, so *)
(* run's catch reports a failure over it; the call stays on the list.      *)
timedOut ==
    /\ at = "wait" /\ Fault /\ at' = "idle"
    /\ flow' = reduceFlow(reduceFlow(flow, "timed_out"), "failed")
    /\ UNCHANGED <<chainSide, store, local, action, call, left, acts>>

reconcileActivity ==
    /\ at = "idle" /\ pend /\ call \in {"success", "failed"}
    /\ IF call = "success" THEN apply
       ELSE pend' = FALSE /\ call' = None /\ left' = FALSE /\ UNCHANGED rec
    /\ UNCHANGED <<chainSide, flow, action, at, acts, faults>> /\ Rekeyed

cosigned ==
    /\ at = "cosign"
    /\ \/ psbt /\ at' = "btcsign" /\ Emit("awaiting_signature") /\ UNCHANGED faults
       \/ ~psbt /\ Fault /\ at' = "idle" /\ Emit("failed")
    /\ UNCHANGED <<chainSide, store, local, action, call, left, acts>>

released ==
    /\ at = "btcsign" /\ at' = "idle"
    /\ IF out = "unspent"
       THEN out' = "sent" /\ rec' = "released" /\ Emit("settled")
       ELSE Emit("failed") /\ UNCHANGED <<out, rec>>
    /\ UNCHANGED <<loan, low, psbt, pend, action, call, left, acts, faults>>
    /\ Rekeyed

dismiss ==
    /\ flow = "failed" /\ Emit("reset") /\ action' = None
    /\ Keep /\ UNCHANGED <<local, at, call, left, acts, faults>>

-----------------------------------------------------------------------------
(* Everything else.                                                        *)

here == <<store, local, page>>

(* The call lands: a repayment of everything may leave the interest of the *)
(* ledgers it took.                                                        *)
land ==
    /\ call = "pending"
    /\ IF \/ action = "borrow" /\ loan \in {"fresh", "owes"}
          \/ action = "repay" /\ loan = "owes"
          \/ action = "release" /\ loan = "fresh"
       THEN /\ call' = "success"
            /\ loan' \in IF action = "borrow" \/ left THEN {"owes"}
                        ELSE IF action = "repay" THEN {"closed", "owes"} ELSE {"closed"}
       ELSE call' = "failed" /\ UNCHANGED loan
    /\ low' = (low /\ loan' = "owes" /\ left)
    /\ UNCHANGED <<out, psbt, store, local, flow, action, at, left, acts, faults>>

(* The owner's other device borrows, repays or closes.                     *)
otherDevice ==
    /\ Fault /\ low' = FALSE
    /\ loan' \in CASE loan = "fresh" -> {"owes", "closed"}
                   [] loan = "owes" -> {"closed"}
                   [] OTHER -> {}
    /\ UNCHANGED <<out, psbt, here, acts>>

priceFalls ==
    /\ loan = "owes" /\ ~low /\ low' = TRUE
    /\ UNCHANGED <<loan, out, psbt, here, acts, faults>>

liquidate ==
    /\ loan = "owes" /\ low /\ loan' = "liquidated"
    /\ UNCHANGED <<low, out, psbt, here, acts, faults>>

publish_release_psbt ==
    /\ loan = "closed" /\ ~psbt /\ psbt' = TRUE
    /\ UNCHANGED <<loan, low, out, here, acts, faults>>

mined ==
    /\ out = "sent" /\ out' = "confirmed"
    /\ UNCHANGED <<loan, low, psbt, here, acts, faults>>

Flows ==
    \/ \E t \in Tabs : run(t)
    \/ withTxLock \/ prepare \/ signed \/ rejected \/ confirmed \/ dropped
    \/ timedOut \/ reconcileActivity \/ cosigned \/ released \/ dismiss

World ==
    \/ land \/ otherDevice \/ priceFalls \/ liquidate
    \/ publish_release_psbt \/ mined

Reading(i) == getPosition(i) \/ getOutspend(i) \/ refreshed(i)

Next ==
    \/ poll \/ \E i \in 1..Len(reads) : Reading(i)
    \/ Flows \/ World

(* A visible page polls on a timer and every read ends or times out.       *)
Fairness ==
    /\ WF_vars(poll)
    /\ \A i \in 1..MaxReads : WF_vars(i <= Len(reads) /\ Reading(i))
Spec == Init /\ [][Next]_vars /\ Fairness

-----------------------------------------------------------------------------
Now == openStatus(loan, out, rec)

(* types.ts:8, "get_position decides, and a missing read yields checking   *)
(* rather than a guess": an end of the loan that the page shows, and the   *)
(* release it offers, are never ahead of the chain, although the local     *)
(* record may be (a full repayment that left interest) and a status is put *)
(* together from reads of different moments.                               *)
ShownEndIsReal ==
    /\ shown \in {"repaid_locked", "syncing"} => loan = "closed"
    /\ shown = "liquidated" => loan = "liquidated"
    /\ shown = "released" => out = "confirmed"
    /\ shown = "releasing" => out # "unspent"

(* engine.ts:157, "Leaving now could lose a signature or a submission": as *)
(* long as a wallet is asked or a call is waited for, the tab warns before *)
(* it closes, over cancelled, dismissed and repeated runs.                 *)
UnloadGuarded == at \in {"sign", "wait", "btcsign"} => guardsUnload(flow)

=============================================================================
