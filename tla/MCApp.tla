------------------------------- MODULE MCApp -------------------------------
(* The web app's money flows, one component per behaviour: a deposit that    *)
(* two tabs with two Bitcoin transactions work on, and the calls of an open  *)
(* loan (PositionTx).                                                        *)
EXTENDS DepositFlow, TLC

CONSTANTS
    MAX_REMAINDER_REPAYS, MaxDebt, MaxCalls, MaxInterest, MaxFaults

(* A repayment names whole stroops.                                          *)
ASSUME LoanAssumption == MaxDebt \in Nat

VARIABLES
    part,           \* the component this behaviour is about
    lend, seen, calls, psbt, btcOut, savedRecord, activity, flow, rec, told,
    applied, blind, trailed, interest, faults

Sym == Permutations(Tabs) \cup Permutations(Txids)

\* Nothing is claimed of the states after a race, so they are not explored.
BeforeRace == part = "deposit" => ~raced

Loan == INSTANCE PositionTx WITH
    chain <- lend, btc <- btcOut, saved <- savedRecord

loanVars == <<
    lend, seen, calls, psbt, btcOut, savedRecord, activity, flow, rec, told,
    applied, blind, trailed, interest, faults>>
all == <<part, vars, loanVars>>

-----------------------------------------------------------------------------
(* The components that are not at work have no state.                    *)
NoLoan ==
    /\ lend = None /\ seen = None /\ calls = None /\ psbt = None
    /\ btcOut = None /\ savedRecord = None /\ activity = None /\ flow = None
    /\ rec = None /\ told = None /\ applied = None /\ blind = None
    /\ trailed = None /\ interest = None /\ faults = None

\* The two flags exempt a behaviour without a deposit from what is said of one.
NoDeposit ==
    /\ slot = None /\ reserved = None /\ saved = None
    /\ depositLock = None /\ txLock = None
    /\ pc = None /\ mem = None /\ arg = None /\ aborted = None
    /\ btc = None /\ reg = None /\ tx = None
    /\ stops = None /\ cut = TRUE /\ raced = TRUE

MCInit ==
    \/ part = "deposit" /\ Init /\ NoLoan
    \/ part = "loan" /\ NoDeposit /\ Loan!Init

DepositNext ==
    /\ part = "deposit" /\ Next
    /\ UNCHANGED <<part, loanVars>>

LoanNext ==
    /\ part = "loan" /\ Loan!Next
    /\ UNCHANGED <<part, vars>>

MCNext == DepositNext \/ LoanNext

MCSpec == MCInit /\ [][MCNext]_all

-----------------------------------------------------------------------------
\* positionTx.ts records a call before it is submitted and pendingTx.ts
\* reconciles it later: whatever call of the loan the network confirmed is in
\* the local record or still on the pending list, through lost answers, expired
\* calls, trailing reads, reloads and reconciliations that overlap the flow.
NoConfirmedTxForgotten == part = "loan" => Loan!NoConfirmedTxForgotten

\* repay.ts goes on with what accrued until a repayment of everything leaves
\* nothing: a flow that reports the loan as closed is right, unless the reads it
\* had trailed behind or failed.
RepayAllCloses == part = "loan" => Loan!RepayAllCloses

=============================================================================
