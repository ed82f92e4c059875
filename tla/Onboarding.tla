----------------------------- MODULE Onboarding -----------------------------
(***************************************************************************)
(* The onboarding funnel and the guide that leads through a first loan.    *)
(*                                                                         *)
(* Each browser remembers the steps it saw (its milestones) and reports    *)
(* each step once to the relayer.  A report can be lost, its answer can be *)
(* lost, and reports arrive in any order; anybody may send one.  The       *)
(* relayer records a loan step only after reading the loan on writz-lend.  *)
(* The guide on Home ticks its five steps from the loan and from the       *)
(* milestones of the browser it runs in, which may be another browser than *)
(* the one the loan was borrowed in.                                       *)
(***************************************************************************)
EXTENDS Integers, FiniteSets

CONSTANTS
    Browsers,       \* the browsers one person uses
    owner,          \* that person's Stellar address
    other,          \* another address, with a loan of its own
    MaxReports,     \* bound on the reports ever sent
    MaxRows         \* bound on the rows of the funnel

VARIABLES
    loan,           \* address -> the state of its loan on writz-lend
    borrowed,       \* addresses that ever borrowed
    released,       \* the owner's BTC is back
    milestones,     \* browser -> steps it saw
    partly,         \* browsers that reported a repayment which left some debt
    sent,           \* browser -> steps it will not report again
    net,            \* reports under way
    rows,           \* the relayer's funnel_events
    reports         \* reports sent so far

vars == <<loan, borrowed, released, milestones, partly, sent, net, rows, reports>>

CHAIN_STEPS == {"deposit", "borrow", "repay", "release"}
Steps == {"sign_in"} \union CHAIN_STEPS
Addresses == {owner, other}

Report(step, address, txid, from) ==
    [step |-> step, address |-> address, txid |-> txid, from |-> from]

Init ==
    /\ loan \in [Addresses -> {"none", "open"}] /\ loan[owner] = "none"
    /\ borrowed = {} /\ released = FALSE
    /\ milestones = [b \in Browsers |-> {}]
    /\ partly = {}
    /\ sent = [b \in Browsers |-> {}]
    /\ net = {} /\ rows = {} /\ reports = 0

-----------------------------------------------------------------------------
(* The browser.                                                            *)

(* reportStep: the milestones are marked first; a step the relayer already *)
(* has, or has refused for good, is not sent again.                        *)
reportStep(b, steps) ==
    LET new == {Report(s, owner, owner, b) : s \in steps \ sent[b]} IN
    /\ milestones' = [milestones EXCEPT ![b] = @ \union steps]
    /\ reports + Cardinality(new) <= MaxReports
    /\ reports' = reports + Cardinality(new)
    /\ net' = net \union new
    /\ UNCHANGED <<sent, rows>>

(* The page is closed before it comes to report what it did.               *)
closedFirst == UNCHANGED <<milestones, sent, net, rows, reports>>

signIn(b) ==
    /\ "sign_in" \notin milestones[b]
    /\ reportStep(b, {"sign_in"})
    /\ UNCHANGED <<loan, borrowed, released, partly>>

(* The flows that end a step on the chain, then report it (useLiveJourney, *)
(* useLiveLoan).  A repayment closes the loan or leaves some debt, and is  *)
(* reported either way; the release follows a closed loan.                 *)
Act(b, step) ==
    /\ \/ /\ step = "deposit" /\ loan[owner] = "none"
          /\ loan' = [loan EXCEPT ![owner] = "open"]
          /\ UNCHANGED <<borrowed, released>>
       \/ /\ step = "borrow" /\ loan[owner] \in {"open", "debt"}
          /\ loan' = [loan EXCEPT ![owner] = "debt"]
          /\ borrowed' = borrowed \union {owner} /\ UNCHANGED released
       \/ /\ step = "repay" /\ loan[owner] = "debt"
          /\ \E after \in {"debt", "closed"} :
                loan' = [loan EXCEPT ![owner] = after]
          /\ UNCHANGED <<borrowed, released>>
       \/ /\ step = "release" /\ loan[owner] = "closed" /\ ~released
          /\ released' = TRUE /\ UNCHANGED <<loan, borrowed>>
    /\ \/ /\ reportStep(b, {step})
          /\ partly' = IF step = "repay" /\ loan'[owner] = "debt"
                       THEN partly \union {b} ELSE partly
       \/ closedFirst /\ UNCHANGED partly

(* A borrower is liquidated; a release closes a loan that was never        *)
(* borrowed against with a repayment of zero first; the other address goes *)
(* on with its own loan.                                                   *)
ChainMoves ==
    /\ \E a \in Addresses :
         \/ /\ loan[a] = "open" /\ loan' = [loan EXCEPT ![a] = "closed"]
            /\ UNCHANGED borrowed
         \/ /\ loan[a] = "debt" /\ loan' = [loan EXCEPT ![a] = "liquidated"]
            /\ UNCHANGED borrowed
         \/ /\ a = other /\ loan[a] = "open"
            /\ loan' = [loan EXCEPT ![a] = "debt"]
            /\ borrowed' = borrowed \union {a}
         \/ /\ a = other /\ loan[a] = "debt"
            /\ loan' = [loan EXCEPT ![a] = "closed"] /\ UNCHANGED borrowed
    /\ UNCHANGED <<released, milestones, partly, sent, net, rows, reports>>

(* Home opens: what the chain shows is reported too, for a step done on    *)
(* another device or one whose report failed.                              *)
shownByChain ==
    {"deposit"}
        \union (IF loan[owner] = "debt" THEN {"borrow"} ELSE {})
        \union (IF released THEN {"release"} ELSE {})

GetStarted(b) ==
    /\ loan[owner] # "none"
    /\ ~(shownByChain \subseteq milestones[b] \intersect sent[b])
    /\ reportStep(b, shownByChain)
    /\ UNCHANGED <<loan, borrowed, released, partly>>

-----------------------------------------------------------------------------
(* The relayer.                                                            *)

positionReached(step, status) ==
    \/ step \in {"deposit", "repay"}
    \/ step = "borrow" /\ status # "open"
    \/ step = "release" /\ status = "closed"

(* The status of the answer to a report.                                   *)
status(r) ==
    IF r.step \notin CHAIN_STEPS THEN 202
    ELSE IF loan[r.txid] = "none" THEN 422
    ELSE IF r.txid # r.address THEN 403
    ELSE IF positionReached(r.step, loan[r.txid]) THEN 202 ELSE 422

(* One row per subject, step and outcome, written the first time.          *)
record(subject, step, outcome, verified) ==
    IF \E r \in rows : r.subject = subject /\ r.step = step
                       /\ r.outcome = outcome
    THEN rows
    ELSE rows \union {[subject |-> subject, step |-> step,
                       outcome |-> outcome, verified |-> verified]}

(* Which answers end the reporting of a step: 2xx, and a 4xx that will not *)
(* change.  422 (not on the chain yet), 429 and 5xx are tried again.       *)
final(st) == st \in {202, 403}

(* report, and the browser's reaction to its answer, which may be lost.    *)
(* The relayer answers 503 when it cannot read the chain.                  *)
Deliver(r) ==
    /\ net' = net \ {r}
    /\ \E st \in {status(r)}
                 \union (IF r.step \in CHAIN_STEPS THEN {503} ELSE {}) :
        /\ rows' = IF st = 202
                   THEN record(r.address, r.step, "ok",
                               r.step \in CHAIN_STEPS)
                   ELSE rows
        /\ \/ /\ r.from \in Browsers /\ final(st)
              /\ sent' = [sent EXCEPT ![r.from] = @ \union {r.step}]
           \/ UNCHANGED sent
    /\ UNCHANGED <<loan, borrowed, released, milestones, partly, reports>>

(* Any client may post an event that names any address and any loan.       *)
SomebodyReports ==
    /\ \E s \in Steps, a \in Addresses, t \in Addresses :
          LET r == Report(s, a, t, "nobody") IN
          /\ status(r) = 202
          /\ rows' = record(a, s, "ok", s \in CHAIN_STEPS)
    /\ rows' # rows
    /\ UNCHANGED <<loan, borrowed, released, milestones, partly, sent, net, reports>>

(* A report that never arrives, or that the rate limit refuses.            *)
Lose(r) ==
    /\ net' = net \ {r}
    /\ UNCHANGED <<loan, borrowed, released, milestones, partly, sent, rows, reports>>

(* recordFaucet: the faucet route writes the outcome of a claim itself.    *)
recordFaucet(a) ==
    /\ \E outcome \in {"paid", "refused"} :
          /\ rows' = record(a, "faucet_claim", outcome, outcome = "paid")
          /\ rows' # rows
    /\ UNCHANGED <<loan, borrowed, released, milestones, partly, sent, net, reports>>

(* summary: the distinct subjects a step counts.                           *)
reached(step) ==
    {r.subject : r \in {x \in rows :
        /\ x.step = step
        /\ step = "faucet_claim" => x.outcome = "paid"
        /\ step \in CHAIN_STEPS => x.verified}}

activated == reached("faucet_claim") \intersect reached("deposit")
                                     \intersect reached("borrow")

-----------------------------------------------------------------------------
(* The guide.                                                              *)

GUIDE_STEPS == <<"fund", "deposit", "borrow", "repay", "release">>

(* What guideProgress ticks by itself in browser b.                        *)
ticked(b) ==
    LET seen == milestones[b]
        closed == loan[owner] = "closed"
        hasBorrowed == "borrow" \in seen \/ loan[owner] = "debt"
    IN {s \in {"fund", "deposit"} : loan[owner] # "none"}
         \union {s \in {"borrow"} : hasBorrowed \/ (closed /\ "repay" \in seen)}
         \union {s \in {"repay"} : "repay" \in seen \/ (closed /\ hasBorrowed)}
         \union {s \in {"release"} : "release" \in seen \/ released}

(* Mutant: a later step does not tick the earlier ones.                    *)
done_NoPropagation(b) == ticked(b)

done(b) ==
    {GUIDE_STEPS[i] : i \in {j \in 1..5 :
        \E k \in j..5 : GUIDE_STEPS[k] \in ticked(b)}}

(* The first step that is not done: the one whose button is shown.         *)
current(b) ==
    LET todo == {i \in 1..5 : GUIDE_STEPS[i] \notin done(b)} IN
    IF todo = {} THEN "none"
    ELSE GUIDE_STEPS[CHOOSE i \in todo : \A j \in todo : i <= j]

Step ==
    \/ \E b \in Browsers : signIn(b)
    \/ \E b \in Browsers, s \in CHAIN_STEPS : Act(b, s)
    \/ ChainMoves
    \/ \E b \in Browsers : GetStarted(b)
    \/ SomebodyReports
    \/ \E r \in net : Deliver(r)
    \/ \E r \in net : Lose(r)
    \/ \E a \in Addresses : recordFaucet(a)

Next == Step /\ Cardinality(rows') <= MaxRows

Spec == Init /\ [][Next]_vars

-----------------------------------------------------------------------------
(* What the summary counts happened: a counted deposit, borrow or release  *)
(* belongs to an address whose loan on writz-lend went through that step,  *)
(* or, for a borrow, whose loan is closed, and an activated social user    *)
(* was paid, deposited and borrowed, whoever sent the reports and in       *)
(* whatever order they arrived.                                            *)
CountedIsReal ==
    /\ \A a \in reached("deposit") : loan[a] # "none"
    /\ \A a \in reached("borrow") : a \in borrowed \/ loan[a] = "closed"
    /\ \A a \in reached("release") : loan[a] = "closed"
    /\ \A a \in activated :
          [subject |-> a, step |-> "faucet_claim", outcome |-> "paid",
           verified |-> TRUE] \in rows

(* The guide leads forward: the steps it ticks come one after the other,   *)
(* it never asks for a deposit again, and the step whose button it shows   *)
(* fits the loan.  It does not in three cases only: the loan was           *)
(* liquidated; this browser saw neither the borrowing nor the repayment of *)
(* a closed loan, which it then offers to borrow against; or this browser  *)
(* saw a repayment that left some debt, after which it offers to release   *)
(* a loan that is still owed (any repayment marks the step).               *)
GuideLeadsForward ==
    \A b \in Browsers :
        LET now == current(b) IN
        /\ now = "deposit" => loan[owner] = "none"
        /\ now = "borrow" =>
              \/ loan[owner] = "open"
              \/ loan[owner] \in {"closed", "liquidated"}
                 /\ milestones[b] \intersect {"borrow", "repay"} = {}
        /\ now = "repay" => loan[owner] \in {"debt", "liquidated"}
        /\ now = "release" =>
              ~released /\ (loan[owner] = "closed" \/ b \in partly)
        /\ released => now = "none"

=============================================================================
