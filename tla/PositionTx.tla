----------------------------- MODULE PositionTx -----------------------------
(***************************************************************************)
(* Borrowing, repaying, releasing and lending from the web app.            *)
(*                                                                         *)
(* A flow runs under the account's transaction lock, so there is at most   *)
(* one in all tabs: it reads the loan, builds a call, has it signed,       *)
(* records its hash with the local change it implies, submits it and       *)
(* waits.  A tab may close anywhere, an answer may be late or lost, and    *)
(* reads may trail the ledger.  What a flow leaves behind is picked up by  *)
(* reconcileActivity, in any tab, while other flows run.  The loan itself  *)
(* grows interest, may be liquidated, and once closed gets its release     *)
(* published by the relayer.                                               *)
(***************************************************************************)
EXTENDS Integers, Sequences, FiniteSets

CONSTANTS
    None,
    MAX_REMAINDER_REPAYS,
    MaxDebt,        \* bound on the debt
    MaxCalls,       \* bound on the calls signed
    MaxInterest,    \* bound on the ledgers that add interest
    MaxFaults       \* bound on closed tabs, lost answers and abandoned waits

VARIABLES
    chain,          \* the loan on writz-lend
    seen,           \* the loan as a node that trails answers it
    calls,          \* every call ever signed; a hash is its place here
    psbt,           \* the relayer has published the release
    btc,            \* the deposit output: "locked" or "spent"
    saved,          \* the record of the loan on this device
    activity,       \* writz.activity: the hashes written before submit
    flow,           \* the flow that holds the transaction lock
    rec,            \* hashes another tab's reconciliation has left to ask about
    told,           \* what the last "repay all" reported
    applied,        \* history: calls whose effects this device has
    blind,          \* history: calls dropped from the list unanswered
    trailed,        \* history: a flow went on with a read that trails
    interest, faults

ledger == <<chain, seen, calls, psbt, btc, interest>>
device == <<saved, activity, applied, blind>>
vars == <<ledger, device, flow, rec, told, trailed, faults>>

Idle == [at |-> "idle", kind |-> None, amount |-> 0, full |-> FALSE,
         base |-> None, hash |-> 0, again |-> 0]
Record(d, st) == [debt |-> d, status |-> st]
Loan(d, st, v) == [debt |-> d, status |-> st, ledger |-> v]

Init ==
    /\ \E d \in 0..1 : chain = Loan(d, "active", 0) /\ saved = Record(d, "active")
    /\ seen = chain
    /\ calls = << >> /\ psbt = FALSE /\ btc = "locked"
    /\ activity = {}
    /\ flow = Idle /\ rec = {} /\ told = None
    /\ applied = {} /\ blind = {} /\ trailed = FALSE
    /\ interest = 0 /\ faults = 0

Hashes == 1..Len(calls)
Status(h) == calls[h].st
Fault == faults < MaxFaults /\ faults' = faults + 1

-----------------------------------------------------------------------------
(* Running a flow under withTxLock.                                        *)

At(s) == flow.at = s
Goto(f) == flow' = f

(* The flow is over and the lock is free again.                            *)
End == flow' = Idle

(* borrow(1), repay of an amount up to the debt shown, release, and a call *)
(* without a local change: supply, withdraw, or one through the Earn vault. *)
Start(kind, amount) ==
    /\ At("idle") /\ (kind = "repay" => amount <= seen.debt)
    /\ flow' = [Idle EXCEPT
            !.at = IF kind = "earn" THEN "build" ELSE "read",
            !.kind = kind, !.amount = amount, !.base = seen]
    /\ told' = None
    /\ UNCHANGED <<ledger, device, rec, trailed, faults>>

(* What a repayment sends: the whole debt when the amount covers the debt  *)
(* shown or the debt read, never more.                                     *)
repayPlan(amount, shown, debt) ==
    LET full == amount >= shown \/ amount >= debt
    IN [amount |-> IF full THEN debt ELSE amount, full |-> full]

(* requireOpenPosition and the first read of releaseBtc.                   *)
readPosition ==
    /\ At("read")
    /\ \E c \in {chain, seen} :
        LET f == [flow EXCEPT !.base = c]
            plan == repayPlan(f.amount, flow.base.debt, c.debt)
        IN \/ /\ f.kind = "borrow" /\ c.status = "active"
              /\ Goto([f EXCEPT !.at = "build"])
           \/ /\ f.kind = "repay" /\ c.status = "active"
              /\ Goto([f EXCEPT !.at = "build", !.amount = plan.amount,
                                   !.full = plan.full])
           \/ /\ f.kind = "release" /\ c.status = "active" /\ c.debt = 0
              /\ Goto([f EXCEPT !.at = "build", !.amount = 0])
           \/ /\ f.kind = "release" /\ c.status = "closed"
              /\ Goto([f EXCEPT !.at = "cosign"])
           \/ /\ \/ f.kind \in {"borrow", "repay"} /\ c.status # "active"
                 \/ f.kind = "release" /\ c.status = "liquidated"
                 \/ f.kind = "release" /\ c.status = "active" /\ c.debt > 0
              /\ End
    /\ UNCHANGED <<ledger, device, rec, told, trailed, faults>>

(* What writz-lend makes of a call.                                        *)
accepts(kind, amount) ==
    CASE kind = "borrow" -> chain.status = "active" /\ chain.debt < MaxDebt
      [] kind \in {"repay", "release"} ->
            chain.status = "active" /\ amount <= chain.debt
      [] OTHER -> TRUE

(* Beyond that, writz-lend asks a borrow for what is not the position's (no *)
(* pause, a fresh Bitcoin tip, a timelock far enough away, the pool, the    *)
(* exposure cap), and so do the pool and the Earn vault: a call of theirs   *)
(* may be refused whatever the position is.                                *)
mayRefuse(kind, amount) ==
    ~accepts(kind, amount) \/ kind \notin {"repay", "release"}

(* What the repayment of everything came to, after its last call.          *)
Told(said) == [said |-> said, hash |-> flow.hash]

(* The simulation: a call the contract refuses is never signed.            *)
simulate ==
    /\ At("build")
    /\ \/ /\ accepts(flow.kind, flow.amount)
          /\ Goto([flow EXCEPT !.at = "sign"]) /\ UNCHANGED told
       \/ /\ mayRefuse(flow.kind, flow.amount) /\ End
          /\ told' = IF flow.again > 0 THEN Told("refused") ELSE told
    /\ UNCHANGED <<ledger, device, rec, trailed, faults>>

(* The local change a call implies once it is confirmed.                   *)
updated(f) ==
    CASE f.kind = "borrow" -> Record(f.base.debt + f.amount, "active")
      [] f.kind = "repay" ->
            LET left == IF f.base.debt > f.amount
                        THEN f.base.debt - f.amount ELSE 0
            IN Record(left, IF left = 0 THEN "closed" ELSE "active")
      [] OTHER -> None

(* onSigned: the hash is recorded before anything reaches the network.     *)
sign ==
    LET h == Len(calls) + 1 IN
    /\ At("sign") /\ h <= MaxCalls
    /\ calls' = Append(calls, [kind |-> flow.kind, st |-> "pending",
                               amount |-> flow.amount,
                               update |-> updated(flow)])
    /\ activity' = activity \union {h}
    /\ Goto([flow EXCEPT !.at = "await", !.hash = h])
    /\ UNCHANGED <<chain, seen, psbt, btc, interest, saved, applied, blind,
                   rec, told, trailed, faults>>

signRejected ==
    /\ At("sign") \/ At("btcsign")
    /\ End
    /\ UNCHANGED <<ledger, device, rec, told, trailed, faults>>

Forget(h) == activity' = activity \ {h}

(* submitPositionTx and submitTrackedTx once the call is confirmed.        *)
settled ==
    LET f == flow IN
    /\ At("await") /\ Status(f.hash) = "success"
    /\ saved' = IF calls[f.hash].update = None THEN saved
                ELSE calls[f.hash].update
    /\ Forget(f.hash) /\ applied' = applied \union {f.hash}
    /\ CASE f.kind = "repay" /\ f.full ->
              Goto([f EXCEPT !.at = "after"])
         [] f.kind = "release" ->
              Goto([f EXCEPT !.at = "cosign"])
         [] OTHER -> End
    /\ UNCHANGED <<ledger, blind, rec, told, trailed, faults>>

(* The call failed on chain, or the network refused it.                    *)
dropped ==
    LET h == flow.hash IN
    /\ At("await")
    /\ \/ Status(h) = "failed" /\ UNCHANGED calls
       \/ Status(h) = "pending" /\ calls' = [calls EXCEPT ![h].st = "refused"]
    /\ Forget(h) /\ End
    /\ UNCHANGED <<chain, seen, psbt, btc, interest, saved, applied, blind,
                   rec, told, trailed, faults>>

(* No answer in time, or none at all: the hash stays on the list.  The     *)
(* Earn flow drops the hash when the send itself gets no answer.           *)
unanswered ==
    /\ At("await") /\ Fault
    /\ \/ End /\ UNCHANGED <<activity, blind>>
       \/ /\ flow.kind = "earn" /\ End
          /\ Forget(flow.hash) /\ blind' = blind \union {flow.hash}
    /\ UNCHANGED <<ledger, saved, applied, rec, told, trailed>>

(* Mutant: any read counts as one that has the repayment.                  *)
caughtUp_Always(c, h) == TRUE

(* readAfter: the read is of the ledger the call landed in, or a later one. *)
caughtUp(c, h) == c.status # "active" \/ c.ledger >= calls[h].landed

(* After a full repayment: what is left is repaid again, twice at most.    *)
(* The tries run out before the reads catch up only as a fault.            *)
readAfter ==
    LET f == flow IN
    /\ At("after")
    /\ \E c \in {chain, seen} :
        /\ \/ caughtUp(c, f.hash) /\ UNCHANGED <<faults, trailed>>
           \/ ~caughtUp(c, f.hash) /\ Fault /\ trailed' = TRUE
        /\ IF c.status # "active" \/ c.debt = 0
              \/ f.again >= MAX_REMAINDER_REPAYS
           THEN /\ told' = Told(IF c.status = "active" THEN "active"
                                ELSE "closed")
                /\ End
           ELSE /\ Goto([f EXCEPT !.at = "build", !.amount = c.debt,
                              !.base = c, !.again = @ + 1]) /\ UNCHANGED told
    /\ UNCHANGED <<ledger, device, rec>>

(* releaseBtc: waits for the co-signature, checks it, asks for the user's. *)
cosigned ==
    /\ At("cosign")
    /\ \/ psbt /\ Goto([flow EXCEPT !.at = "btcsign"]) /\ UNCHANGED faults
       \/ ~psbt /\ Fault /\ End
    /\ UNCHANGED <<ledger, device, rec, told, trailed>>

broadcast ==
    /\ At("btcsign")
    /\ IF btc = "locked"
       THEN /\ btc' = "spent"
            /\ Goto([flow EXCEPT !.at = "broadcast"])
       ELSE End /\ UNCHANGED btc
    /\ UNCHANGED <<chain, seen, calls, psbt, interest, device, rec, told,
                   trailed, faults>>

(* The record the flow started from is saved as released.                  *)
saveReleased ==
    /\ At("broadcast")
    /\ saved' = Record(flow.base.debt, "released")
    /\ End
    /\ UNCHANGED <<ledger, activity, applied, blind, rec, told, trailed,
                   faults>>

(* The tab closes: its flow is gone and the browser frees its lock.        *)
close ==
    /\ Fault /\ flow # Idle
    /\ flow' = Idle
    /\ UNCHANGED <<ledger, device, rec, told, trailed>>

-----------------------------------------------------------------------------
(* What was left over.                                                     *)

(* reconcileActivity starts from the list as it is now, once per tab.      *)
reconcile ==
    /\ rec = {} /\ activity # {}
    /\ rec' = activity
    /\ UNCHANGED <<ledger, device, flow, told, trailed, faults>>

(* Mutant: a call that is not found is dropped however young it is.        *)
decideReconcile_NotFound(st) ==
    IF st = "success" THEN "apply"
    ELSE IF st = "pending" THEN "drop" ELSE "drop"

(* A call that is not found and older than STELLAR_TX_TTL_MS has expired.  *)
decideReconcile(st) ==
    IF st = "success" THEN "apply" ELSE IF st = "pending" THEN "keep" ELSE "drop"

(* One call of the list: its status is read, or the read fails and it is   *)
(* left for later.  An update is applied whatever the record holds by now. *)
applyPendingTx(h) ==
    saved' = IF calls[h].update = None THEN saved ELSE calls[h].update

reconcileOne(h) ==
    /\ rec' = rec \ {h}
    /\ \/ UNCHANGED <<saved, activity, applied>>
       \/ /\ decideReconcile(Status(h)) = "apply"
          /\ applyPendingTx(h) /\ applied' = applied \union {h} /\ Forget(h)
       \/ /\ decideReconcile(Status(h)) = "drop"
          /\ Forget(h) /\ UNCHANGED <<saved, applied>>
    /\ UNCHANGED <<ledger, blind, flow, told, trailed, faults>>

(* localStatus: a release this device sent is kept.                        *)
localStatus(c) ==
    IF c.status # "liquidated" /\ saved.status = "released" THEN "released"
    ELSE c.status

syncPosition ==
    /\ \E c \in {chain, seen} : saved' = Record(c.debt, localStatus(c))
    /\ saved' # saved
    /\ UNCHANGED <<ledger, activity, applied, blind, flow, rec, told,
                   trailed, faults>>

-----------------------------------------------------------------------------
(* Stellar, Bitcoin and the relayer.                                       *)

outside == <<psbt, btc, device, flow, rec, told, trailed, faults>>

after(c, k) ==
    CASE k.kind = "borrow" -> [c EXCEPT !.debt = @ + k.amount]
      [] k.kind \in {"repay", "release"} ->
            [c EXCEPT !.debt = @ - k.amount,
                      !.status = IF c.debt = k.amount THEN "closed" ELSE @]
      [] OTHER -> c

land(h) ==
    /\ Status(h) = "pending"
    /\ \/ /\ accepts(calls[h].kind, calls[h].amount)
          /\ chain' = [after(chain, calls[h]) EXCEPT !.ledger = @ + 1]
          /\ calls' = [calls EXCEPT ![h] =
                 [kind |-> @.kind, st |-> "success", amount |-> @.amount,
                  update |-> @.update, landed |-> chain.ledger + 1,
                  left |-> chain'.debt]]
       \/ /\ mayRefuse(calls[h].kind, calls[h].amount)
          /\ UNCHANGED chain /\ calls' = [calls EXCEPT ![h].st = "failed"]
    /\ UNCHANGED <<seen, interest, outside>>

(* A call is valid for five minutes; past that it never lands.             *)
expire(h) ==
    /\ Status(h) = "pending" /\ calls' = [calls EXCEPT ![h].st = "expired"]
    /\ UNCHANGED <<chain, seen, interest, outside>>

accrue ==
    /\ chain.status = "active" /\ chain.debt \in 1..(MaxDebt - 1)
    /\ interest < MaxInterest /\ interest' = interest + 1
    /\ chain' = [chain EXCEPT !.debt = @ + 1]
    /\ UNCHANGED <<seen, calls, outside>>

liquidate ==
    /\ chain.status = "active" /\ chain.debt = MaxDebt
    /\ chain' = [chain EXCEPT !.status = "liquidated", !.debt = 0,
                              !.ledger = @ + 1]
    /\ UNCHANGED <<seen, calls, interest, outside>>

catchUp ==
    /\ seen # chain /\ seen' = chain
    /\ UNCHANGED <<chain, calls, interest, outside>>

(* The repay watcher publishes the half-signed release of a closed loan.   *)
publish_release_psbt ==
    /\ chain.status = "closed" /\ ~psbt /\ psbt' = TRUE
    /\ UNCHANGED <<chain, seen, calls, btc, interest, device, flow,
                   rec, told, trailed, faults>>

borrow == Start("borrow", 1)
repay == \E a \in 1..MaxDebt : Start("repay", a)
releaseBtc == Start("release", 0)
submit == Start("earn", 0)

Runs ==
    \/ readPosition \/ simulate \/ sign \/ signRejected
    \/ settled \/ dropped \/ unanswered
    \/ readAfter \/ cosigned \/ broadcast \/ saveReleased

Next ==
    \/ borrow \/ repay \/ releaseBtc \/ submit \/ Runs \/ close
    \/ reconcile \/ \E h \in rec : reconcileOne(h)
    \/ syncPosition
    \/ \E h \in Hashes : land(h) \/ expire(h)
    \/ accrue \/ liquidate \/ catchUp \/ publish_release_psbt

Spec == Init /\ [][Next]_vars

-----------------------------------------------------------------------------
(* pendingTx.ts:6, "a reload mid-confirmation never leaves local state     *)
(* behind the chain": a call that landed or still can has its effects on   *)
(* this device or its hash on the list that is reconciled, through closed  *)
(* tabs, lost answers and reconciliations in several tabs; only an Earn    *)
(* call whose send got no answer is let go.                                *)
NoConfirmedTxForgotten ==
    \A h \in Hashes :
        Status(h) \in {"pending", "success"}
            => h \in applied \union activity \union blind

(* repay.ts:56, "Repaying the whole debt closes the position on chain": a  *)
(* repayment of everything reports the loan closed only when it is no      *)
(* longer active, and reports it still open, or has what it sends again    *)
(* for the interest that grew refused, only when its last call really left *)
(* something owed, unless the node it reads from trailed for too long.     *)
RepayAllCloses ==
    told # None /\ ~trailed =>
        IF told.said = "closed" THEN chain.status # "active"
        ELSE calls[told.hash].left > 0

=============================================================================
