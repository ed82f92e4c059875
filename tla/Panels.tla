------------------------------- MODULE Panels -------------------------------
(***************************************************************************)
(* The borrow and repay panels of the loan page: the amounts they offer,   *)
(* accept and send, from a debt, a price, a pool and a balance that were   *)
(* each read at their own moment.                                          *)
(*                                                                         *)
(* Amounts are in stroops; a field holds cents, or what the user typed.    *)
(* Ratios are in halves: the borrow limit is three of them.                *)
(***************************************************************************)
EXTENDS Integers

CONSTANTS
    None,
    CENT, SAT, CollateralSats,
    BORROW_LIMIT, UNIT,  \* 15_000 and 10_000 basis points
    SHARE,          \* the suggestion is one part in this many: 4
    Prices, MaxDebt, MaxPool, MaxUsdc,
    MaxMoves,       \* bound on what happens outside the page
    MaxActs         \* bound on the calls sent

VARIABLES
    debt, price, pool, usdc, trust,  \* the loan, the oracle, the pool, the wallet
    room,           \* what all debts may still grow by under max_total_borrowed
    lending,        \* writz-lend runs, its tip is fresh, the timelock far enough away
    view,           \* the same as last read; None for what could not be
    tab,
    field, from,    \* the amount in the field, and who put it there
    prefilled,      \* the suggestion has been put in once
    call,           \* the call sent
    moves, acts

chain == <<debt, price, pool, usdc, trust, room, lending>>
form == <<tab, field, from, prefilled>>
vars == <<chain, view, form, call, moves, acts>>

smaller(a, b) == IF a < b THEN a ELSE b
above(a, b) == IF a > b THEN a - b ELSE 0

Init ==
    /\ debt \in 0..MaxDebt /\ price \in Prices /\ pool = MaxPool
    /\ usdc \in {0, debt} /\ trust = (debt > 0) /\ room = MaxPool /\ lending = TRUE
    /\ view = [debt |-> debt, price |-> price, pool |-> pool, usdc |-> usdc,
               trust |-> trust]
    /\ tab = "borrow"
    /\ field = None /\ from = None /\ prefilled = FALSE /\ call = None
    /\ moves = 0 /\ acts = 0

-----------------------------------------------------------------------------
(* lib/loan/model.ts and lib/onboarding/defaults.ts.                       *)

ratioLimitStroops(p) == ((CollateralSats * p * UNIT) \div SAT) \div BORROW_LIMIT

(* Mutant: the pool's liquidity does not cap what can be borrowed.         *)
availableToBorrow_NoPool(d, p, l) ==
    above(ratioLimitStroops(p), d)

(* The smaller of the ratio's headroom and the pool; a pool that could not *)
(* be read caps nothing.                                                   *)
availableToBorrow(d, p, l) ==
    LET headroom == above(ratioLimitStroops(p), d)
    IN IF l = None THEN headroom ELSE smaller(headroom, l)

repayToSafeStroops(d, p) ==
    ((above(d, ratioLimitStroops(p)) + CENT - 1) \div CENT) * CENT

suggestBorrowStroops(m) == ((m \div SHARE) \div CENT) * CENT

repayShortfallStroops(d, w) ==
    IF d <= w THEN 0 ELSE ((d - w) \div CENT + 1) * CENT

(* The field shows cents and is parsed back from them.                     *)
toFieldValue(s) == (s \div CENT) * CENT

max == availableToBorrow(view.debt, view.price, view.pool)
all == IF view.usdc # None THEN smaller(view.usdc, view.debt) ELSE view.debt

-----------------------------------------------------------------------------
(* The reads and the form.                                                 *)

Put(v, who) == field' = v /\ from' = who
outside == <<chain, moves, acts>>

(* A status read, or a read of the price, the pool or the balance, ends;   *)
(* one that fails leaves nothing.                                          *)
refresh ==
    /\ view' \in {[view EXCEPT !.debt = debt], [view EXCEPT !.price = price],
                  [view EXCEPT !.pool = pool], [view EXCEPT !.pool = None],
                  [view EXCEPT !.usdc = usdc, !.trust = trust],
                  [view EXCEPT !.usdc = None, !.trust = None]}
    /\ view' # view
    /\ UNCHANGED <<form, call, outside>>

(* The panel of another tab is a new form; at risk it opens on the amount  *)
(* that makes the loan safe.                                               *)
open(t) ==
    LET initial == repayToSafeStroops(view.debt, view.price) IN
    /\ tab # t /\ tab' = t /\ prefilled' = FALSE
    /\ IF t = "repay" /\ initial > 0
       THEN Put(toFieldValue(IF initial < all \/ all = 0 THEN initial ELSE all), "safe")
       ELSE Put(None, None)
    /\ UNCHANGED <<view, call, outside>>

onChange ==
    /\ \E v \in 1..MaxDebt : v # field /\ Put(v, "typed")
    /\ UNCHANGED <<view, tab, prefilled, call, outside>>

(* The guided loop opens on a quarter of the safe maximum.                 *)
suggest ==
    LET s == suggestBorrowStroops(max) IN
    /\ tab = "borrow" /\ view.debt = 0 /\ s > 0
    /\ ~prefilled /\ field = None
    /\ prefilled' = TRUE /\ Put(toFieldValue(s), "offered")
    /\ UNCHANGED <<view, tab, call, outside>>

(* "Max safe" and its presets, a half and a quarter.                       *)
maxSafe ==
    /\ tab = "borrow"
    /\ \E v \in {max, max \div 2, max \div 4} : Put(toFieldValue(v), "offered")
    /\ <<field, from>>' # <<field, from>>
    /\ UNCHANGED <<view, tab, prefilled, call, outside>>

(* "Repay all", which the guided loop presses by itself.                   *)
repayAll ==
    /\ tab = "repay" /\ Put(toFieldValue(all), "all")
    /\ <<field, from>>' # <<field, from>>
    /\ UNCHANGED <<view, tab, prefilled, call, outside>>

(* Top up: the shortfall of a full repayment is bought with XLM.           *)
buyUsdc ==
    LET short == repayShortfallStroops(view.debt, view.usdc) IN
    /\ tab = "repay" /\ call = None /\ view.usdc # None /\ view.debt > 0 /\ short > 0
    /\ usdc + short <= MaxUsdc
    /\ call' = [kind |-> "buy", amount |-> short, full |-> FALSE, from |-> None]
    /\ UNCHANGED <<view, form, outside>>

addUsdc ==
    /\ view.trust = FALSE /\ call = None
    /\ call' = [kind |-> "trust", amount |-> 0, full |-> FALSE, from |-> None]
    /\ UNCHANGED <<view, form, outside>>

(* What the panels send; a trustline or a balance that could not be read   *)
(* refuses nothing.                                                        *)
BorrowPanel == field > 0 /\ field <= max /\ view.trust # FALSE
RepayPanel ==
    /\ field > 0 /\ field <= view.debt
    /\ view.usdc # None => field <= view.usdc

(* A repayment that covers the debt shown or the debt read is of all of it. *)
repayPlan(amount, shown, d) ==
    LET full == amount >= shown \/ amount >= d
    IN [amount |-> IF full THEN d ELSE amount, full |-> full]

onSubmit ==
    /\ field # None /\ call = None /\ acts < MaxActs /\ acts' = acts + 1
    /\ \/ /\ tab = "borrow" /\ BorrowPanel
          /\ call' = [kind |-> "borrow", amount |-> field, full |-> FALSE, from |-> from]
       \/ /\ tab = "repay" /\ RepayPanel
          /\ LET plan == repayPlan(field, view.debt, debt)
             IN call' = [kind |-> "repay", amount |-> plan.amount,
                         full |-> plan.full, from |-> from]
    /\ UNCHANGED <<view, form, chain, moves>>

-----------------------------------------------------------------------------
(* writz-lend and the rest of the world.                                   *)

(* What borrow asks for and the panel reads nothing of: the contract is    *)
(* not paused, the Bitcoin tip is fresh and the timelock clears it by the  *)
(* margin, and all debts together stay within the exposure cap.            *)
refused(a) == ~lending \/ a > room

(* borrow: the ratio of the new debt is at least the limit, as the         *)
(* contract rounds it, and the pool has the amount.                        *)
borrowTaken(a) ==
    /\ ~refused(a) /\ a <= pool /\ debt + a > 0
    /\ ((((CollateralSats * price) \div SAT) * UNIT) \div (debt + a)) >= BORROW_LIMIT
repayTaken(a) == a <= debt /\ a <= usdc

done == call' = None /\ UNCHANGED <<price, lending, view, form, moves, acts>>

land ==
    /\ call # None /\ done
    /\ CASE call.kind = "borrow" /\ trust /\ borrowTaken(call.amount) ->
              /\ debt' = debt + call.amount /\ pool' = pool - call.amount
              /\ usdc' = usdc + call.amount /\ room' = room - call.amount
              /\ UNCHANGED trust
         [] call.kind = "repay" /\ repayTaken(call.amount) ->
              /\ debt' = debt - call.amount /\ pool' = pool + call.amount
              /\ usdc' = usdc - call.amount /\ room' = room + call.amount
              /\ UNCHANGED trust
         [] call.kind = "buy" ->
              usdc' = usdc + call.amount /\ UNCHANGED <<debt, pool, trust, room>>
         [] call.kind = "trust" -> trust' = TRUE /\ UNCHANGED <<debt, pool, usdc, room>>
         [] OTHER -> UNCHANGED <<debt, pool, usdc, trust, room>>

Move == moves < MaxMoves /\ moves' = moves + 1

accrue ==
    /\ Move /\ debt \in 1..(MaxDebt - 1) /\ debt' = debt + 1 /\ room' = room - 1
    /\ UNCHANGED <<price, pool, usdc, trust, lending, view, form, call, acts>>

(* The oracle, other lenders and borrowers, the admin, Bitcoin.            *)
moved ==
    /\ Move
    /\ \/ price' \in Prices \ {price} /\ UNCHANGED <<pool, room, lending>>
       \/ pool' \in 0..(pool - 1) /\ UNCHANGED <<price, room, lending>>
       \/ room' \in 0..(room - 1) /\ UNCHANGED <<price, pool, lending>>
       \/ lending' = ~lending /\ UNCHANGED <<price, pool, room>>
    /\ UNCHANGED <<debt, usdc, trust, view, form, call, acts>>

Next ==
    \/ refresh \/ \E t \in {"borrow", "repay"} : open(t)
    \/ onChange \/ suggest \/ maxSafe \/ repayAll
    \/ buyUsdc \/ addUsdc \/ onSubmit \/ land \/ accrue \/ moved

Spec == Init /\ [][Next]_vars

-----------------------------------------------------------------------------
fresh == view = [debt |-> debt, price |-> price, pool |-> pool, usdc |-> usdc,
                 trust |-> trust]

(* model.ts:18-49 and parts.tsx:638-652: while what the page has read is   *)
(* so, an amount it offers and would send is one that writz-lend takes, or *)
(* is the whole headroom and one stroop above it, since the app and the    *)
(* contract round the ratio in different orders, unless borrowing is       *)
(* refused for what the panel does not read; the amount it opens on at     *)
(* risk brings the ratio it shows back to the limit; and a top up buys     *)
(* enough to repay everything.                                             *)
OffersAreTaken ==
    /\ fresh /\ tab = "borrow" /\ from = "offered" /\ BorrowPanel
        => \/ borrowTaken(field) \/ (field = max /\ borrowTaken(field - 1))
           \/ refused(field)
    /\ fresh /\ tab = "repay" /\ from \in {"safe", "all"} /\ RepayPanel
        => repayTaken(field)
    /\ fresh /\ debt > 0 /\ repayToSafeStroops(debt, price) < debt
        => debt - repayToSafeStroops(debt, price) <= ratioLimitStroops(price)
    /\ fresh => usdc + repayShortfallStroops(debt, usdc) >= debt

(* repay.ts:40, "'Repay all' sends the debt shown when the panel rendered; *)
(* interest since then belongs to it too": a repayment of what "Repay all" *)
(* put in the field, from a wallet that covers the debt, is of everything. *)
RepayAllSendsDebt ==
    call # None /\ call.kind = "repay" /\ call.from = "all" /\ usdc >= debt
        => call.full

=============================================================================
