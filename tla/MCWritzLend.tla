---------------------------- MODULE MCWritzLend ----------------------------
(* Small instances of WritzLend for TLC.                                      *)
EXTENDS WritzLend

CONSTANTS alice, bob, kay, t1, t2, spv1, oracle1

Facts(o, h) == [owner |-> o, sats |-> 10, timelock |-> h + 6, height |-> h, writzScript |-> TRUE]
OneUtxo == [t \in {t1} |-> Facts(alice, 1)]
TwoUtxos == [t \in {t1, t2} |-> Facts(alice, 1)]

PoolConfig == [paused |-> FALSE, keeper |-> alice, relayer |-> alice, spv |-> spv1, oracle |-> oracle1,
             min_confirmations |-> 1, min_deposit |-> 1, max_total_borrowed |-> 20,
             stale_after |-> 1, borrow_margin |-> 3, max_tip_age |-> 9, entry_ttl |-> 1]

FullConfig == [PoolConfig EXCEPT !.keeper = kay, !.relayer = kay, !.max_tip_age = 2]

CONSTANT MaxCalls       \* contract calls, and moves of tips, prices and registries, in one behaviour
VARIABLE calls          \* how many so far

Call(step) == calls < MaxCalls /\ calls' = calls + 1 /\ step
World(step) == UNCHANGED calls /\ step

MCInit == Init /\ calls = 0

\* Money only: lenders and borrowers, with a price and a tip that stand still.
PoolNext == Call(LenderStep) \/ Call(BorrowerStep) \/ World(CloseLedger)
PoolSpec == MCInit /\ [][PoolNext]_<<vars, calls>>

\* Every operation, with prices and tips that move.
FullNext ==
    \/ Call(LenderStep) \/ Call(BorrowerStep) \/ Call(KeeperStep) \/ Call(RelayerStep)
    \/ Call(AdminStep) \/ Call(WorldMoves) \/ World(CloseLedger)
FullSpec == MCInit /\ [][FullNext]_<<vars, calls>>
============================================================================
