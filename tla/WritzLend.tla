----------------------------- MODULE WritzLend -----------------------------
(***************************************************************************)
(* The writz-lend Soroban contract: lenders supply USDC to one pool,       *)
(* borrowers draw from it against Bitcoin deposits proved through          *)
(* bitcoin-spv, interest accrues through a borrow index and a supply       *)
(* index, and positions end by full repayment or by liquidation.           *)
(*                                                                         *)
(* A contract call is one atomic step: an Err or a trap rolls the whole    *)
(* transaction back, so every early return of the code is a guard here.    *)
(* The ledger sequence and the ledger timestamp advance together, one unit *)
(* per CloseLedger.  Entry TTLs are configuration only: an archived entry  *)
(* is restored, unchanged, before any call can read it.                    *)
(***************************************************************************)
EXTENDS Integers, FiniteSets, FiniteSetsExt

CONSTANTS
    Users,          \* Stellar addresses: lenders, borrowers, keepers, relayers
    Txids,          \* Bitcoin transactions that may be pledged
    Utxo,           \* [Txids -> facts of the Bitcoin transaction, see UtxoFacts]
    Spvs,           \* deployed bitcoin-spv contracts
    Oracles,        \* deployed price oracles
    InitialConfig,  \* the record __constructor stores
    NoUser          \* depositor of a position that does not exist

CONSTANTS           \* rates.rs and the constructor's fixed ratios
    INDEX_ONE, BP_SCALE, U_OPTIMAL_BP, SLOPE1_BP, SLOPE2_BP, PROTOCOL_FEE_BP,
    LEDGERS_PER_YEAR, MIN_COLLATERAL_RATIO_BP, LIQUIDATION_THRESHOLD_BP,
    LIQUIDATION_BONUS_BP, SATS_PER_BTC

CONSTANTS           \* lib.rs, oracle.rs, spv-types script.rs
    DEFAULT_BORROW_TIMELOCK_MARGIN, LIQUIDATION_CUTOFF_BLOCKS,
    MIN_MAX_TIP_AGE, MAX_MAX_TIP_AGE, MAX_MIN_CONFIRMATIONS, MIN_DEPOSIT_FLOOR,
    MIN_TIMELOCK_MARGIN, MAX_TIMELOCK_MARGIN, MAX_PRICE_STALENESS, PRICE_DIVISOR,
    PRICE_MULTIPLIER

CONSTANTS           \* bounds of the explored inputs
    MaxLedger,      \* last ledger the clock reaches
    Amounts,        \* USDC amounts callers pass (i128, so possibly negative)
    Prices,         \* raw oracle prices; 0 and below are unusable
    TipHeights,     \* heights a bitcoin-spv tip may report
    Caps, StaleWindows, BorrowMargins, TipAges,  \* what the admin sets
    EntryTtls       \* entry windows inside the bounds of set_entry_ttl

Statuses == {"None", "Active", "Closed", "Liquidated"}

\* What a deposit proof establishes about a Bitcoin transaction: who holds its
\* user key, the value and timelock of its Writz output, the block holding it,
\* and whether the output is the P2WSH of the Writz script with distinct keys.
UtxoFacts == [owner: Users, sats: Nat, timelock: Nat, height: Nat, writzScript: BOOLEAN]

Positions == [status: Statuses, usdc_debt: Nat, debt_index: Nat, depositor: Users \union {NoUser}]

Configs == [paused: BOOLEAN, keeper: Users, relayer: Users, spv: Spvs, oracle: Oracles,
            min_confirmations: Nat, min_deposit: Nat, max_total_borrowed: Int,
            stale_after: Nat, borrow_margin: Nat, max_tip_age: Nat,
            entry_ttl: EntryTtls]

\* Facts of the code's own constants (INDEX_ONE, the scales and divisors are
\* positive; the fee is a share) and the types of the inputs.
ASSUME RatesAssumption ==
    /\ INDEX_ONE \in Nat \ {0} /\ BP_SCALE \in Nat \ {0}
    /\ LEDGERS_PER_YEAR \in Nat \ {0} /\ SATS_PER_BTC \in Nat \ {0}
    /\ U_OPTIMAL_BP \in 1..(BP_SCALE - 1)
    /\ SLOPE1_BP \in Nat /\ SLOPE2_BP \in Nat
    /\ PROTOCOL_FEE_BP \in 0..BP_SCALE
    /\ LIQUIDATION_BONUS_BP \in 0..BP_SCALE
    /\ LIQUIDATION_THRESHOLD_BP \in Nat /\ MIN_COLLATERAL_RATIO_BP \in Nat

ASSUME InputsAssumption ==
    /\ IsFiniteSet(Users) /\ NoUser \notin Users
    /\ Amounts \subseteq Int /\ Prices \subseteq Int /\ TipHeights \subseteq Nat
    /\ Utxo \in [Txids -> UtxoFacts]
    /\ MaxLedger \in Nat /\ MAX_PRICE_STALENESS \in Nat
    /\ PRICE_DIVISOR \in Nat \ {0} /\ PRICE_MULTIPLIER \in Nat \ {0}
    /\ PRICE_DIVISOR = 1 \/ PRICE_MULTIPLIER = 1
    /\ Caps \subseteq Int /\ StaleWindows \subseteq Nat
    /\ BorrowMargins \subseteq Nat /\ TipAges \subseteq Nat
    /\ LIQUIDATION_CUTOFF_BLOCKS \in Nat /\ DEFAULT_BORROW_TIMELOCK_MARGIN \in Nat
    /\ MIN_MAX_TIP_AGE \in Nat /\ MAX_MAX_TIP_AGE \in Nat
    /\ MIN_TIMELOCK_MARGIN \in Nat /\ MAX_TIMELOCK_MARGIN \in Nat

\* What __constructor refuses to deploy without, and defaults it stores.
ASSUME ConstructorAssumption ==
    /\ InitialConfig \in Configs
    /\ ~InitialConfig.paused
    /\ InitialConfig.min_confirmations \in 1..MAX_MIN_CONFIRMATIONS
    /\ InitialConfig.min_deposit >= MIN_DEPOSIT_FLOOR
    /\ InitialConfig.borrow_margin = DEFAULT_BORROW_TIMELOCK_MARGIN
    /\ InitialConfig.max_tip_age \in MIN_MAX_TIP_AGE..MAX_MAX_TIP_AGE

VARIABLES
    ledger,                 \* ledger sequence, and timestamp
    cash,                   \* USDC the contract's own address holds
    \* ProtocolState; stored is FALSE until the first set_protocol
    reserve_usdc, total_scaled_supply, supply_index, total_borrowed,
    borrow_index, index_ledger, last_keeper_heartbeat, stored,
    balance,                \* SupplyBalance: scaled units per lender
    position,               \* Position per Bitcoin txid
    release_psbt,           \* txids with a published release PSBT
    config,
    tip,                    \* per bitcoin-spv contract: its best tip
    registry,               \* per bitcoin-spv contract: who consumed each txid
    feed                    \* per oracle: last price and its timestamp

proto == <<reserve_usdc, total_scaled_supply, supply_index, total_borrowed,
           borrow_index, index_ledger, last_keeper_heartbeat, stored>>
environment == <<tip, registry, feed>>
vars == <<ledger, cash, proto, balance, position, release_psbt, config, environment>>

-----------------------------------------------------------------------------
(* rates.rs *)

Magnitude(a) == IF a < 0 THEN -a ELSE a

\* Rust's integer division truncates toward zero; TLA+'s rounds down.
Quot(a, b) ==
    LET q == Magnitude(a) \div Magnitude(b) IN IF (a < 0) = (b < 0) THEN q ELSE -q

total_supply_assets(scaled, index) == (scaled * index) \div INDEX_ONE

accrue_interest(debt, rate_bp, elapsed) ==
    debt + Quot(debt * rate_bp * elapsed, LEDGERS_PER_YEAR * BP_SCALE)

grow_index(index, rate_bp, elapsed) ==
    IF elapsed <= 0 \/ rate_bp <= 0 THEN index ELSE accrue_interest(index, rate_bp, elapsed)

utilization_bp(borrowed, assets) ==
    LET u == Quot(borrowed * BP_SCALE, assets) IN IF u <= BP_SCALE THEN u ELSE BP_SCALE

borrow_rate_bp(borrowed, assets) ==
    LET u == utilization_bp(borrowed, assets)
    IN  IF assets = 0 \/ borrowed = 0 THEN 0
        ELSE IF u <= U_OPTIMAL_BP THEN Quot(u * SLOPE1_BP, U_OPTIMAL_BP)
        ELSE SLOPE1_BP + ((u - U_OPTIMAL_BP) * SLOPE2_BP) \div (BP_SCALE - U_OPTIMAL_BP)

-----------------------------------------------------------------------------
(* project(): the protocol state accrued to the current ledger.  The views    *)
(* read these values and accrue_global stores them.                           *)

Elapsed == IF stored THEN ledger - index_ledger ELSE 0

Assets == total_supply_assets(total_scaled_supply, supply_index)

BorrowIndexNow == grow_index(borrow_index, borrow_rate_bp(total_borrowed, Assets), Elapsed)

\* Interest of the interval just ended, on all outstanding debt.
InterestNow ==
    IF total_borrowed > 0 /\ BorrowIndexNow > borrow_index
    THEN (total_borrowed * (BorrowIndexNow - borrow_index)) \div borrow_index
    ELSE 0

FeeNow == (InterestNow * PROTOCOL_FEE_BP) \div BP_SCALE

TotalBorrowedNow == total_borrowed + InterestNow

ReserveNow == reserve_usdc + FeeNow

\* Mutant: the lenders are credited the protocol's fee as well.
SupplyIndexNow_KeepsFee ==
    IF total_scaled_supply > 0
    THEN supply_index + (InterestNow * INDEX_ONE) \div total_scaled_supply
    ELSE supply_index

SupplyIndexNow ==
    IF total_scaled_supply > 0
    THEN supply_index + ((InterestNow - FeeNow) * INDEX_ONE) \div total_scaled_supply
    ELSE supply_index

AssetsNow == total_supply_assets(total_scaled_supply, SupplyIndexNow)

AvailableNow == AssetsNow - TotalBorrowedNow

\* Mutant: a lender's value is rounded up.
ValueNow_RoundsUp(l) == (balance[l] * SupplyIndexNow + INDEX_ONE - 1) \div INDEX_ONE

ValueNow(l) == (balance[l] * SupplyIndexNow) \div INDEX_ONE

\* usdc_debt of a position after accrue_position_interest.
DebtNow(t) ==
    IF position[t].usdc_debt > 0 /\ position[t].debt_index > 0
    THEN (position[t].usdc_debt * BorrowIndexNow) \div position[t].debt_index
    ELSE position[t].usdc_debt

\* get_protocol's lazy default: the heartbeat clock starts at first contact.
HeartbeatNow == IF stored THEN last_keeper_heartbeat ELSE ledger

\* Mutant: the interval is closed without advancing the borrow index.
AccrueGlobal_KeepsIndex ==
    /\ borrow_index' = borrow_index
    /\ supply_index' = SupplyIndexNow
    /\ index_ledger' = ledger
    /\ stored' = TRUE

\* accrue_global followed by set_protocol, for the fields no caller adjusts.
AccrueGlobal ==
    /\ borrow_index' = BorrowIndexNow
    /\ supply_index' = SupplyIndexNow
    /\ index_ledger' = ledger
    /\ stored' = TRUE

KeepHeartbeat == last_keeper_heartbeat' = HeartbeatNow

-----------------------------------------------------------------------------
(* oracle.rs, and the time checks of lib.rs *)

\* The oracle's price in USDC stroops per BTC; 0 stands for every error.  A feed
\* of more decimals than USDC's is divided down, one of fewer multiplied up.
BtcPrice ==
    LET f == feed[config.oracle]
        stroops == Quot(f.price * PRICE_MULTIPLIER, PRICE_DIVISOR)
    IN  IF ledger - f.at > MAX_PRICE_STALENESS \/ stroops <= 0 THEN 0 ELSE stroops

collateral_value(sats) == (sats * BtcPrice) \div SATS_PER_BTC

\* health_ratio_bp(collateral, debt) >= bp; the ratio of a debt of 0 is i128::MAX.
HealthAtLeast(collateral, debt, bp) == debt = 0 \/ (collateral * BP_SCALE) \div debt >= bp

fresh_tip == tip[config.spv].height >= 0 /\ ledger <= tip[config.spv].time + config.max_tip_age

timelock_clears(t, blocks) == Utxo[t].timelock >= tip[config.spv].height + blocks

KeeperIsStale == ledger > HeartbeatNow + config.stale_after

-----------------------------------------------------------------------------
\* Mutant: a closed or liquidated position still takes calls.
IsActive_NotFinal(t) == position[t].status # "None"

\* Mutant: a pause freezes existing positions too.
IsActive_UnlessPaused(t) == position[t].status = "Active" /\ ~config.paused

IsActive(t) == position[t].status = "Active"

\* Debt of a position after accrual and a draw of amount.
debt_after(t, amount) == DebtNow(t) + amount

NoPosition == [status |-> "None", usdc_debt |-> 0, debt_index |-> 0, depositor |-> NoUser]
NoTip == [height |-> -1, time |-> 0]

Init ==
    /\ ledger = 0 /\ cash = 0
    /\ reserve_usdc = 0 /\ total_scaled_supply = 0 /\ total_borrowed = 0
    /\ supply_index = INDEX_ONE /\ borrow_index = INDEX_ONE
    /\ index_ledger = 0 /\ last_keeper_heartbeat = 0 /\ stored = FALSE
    /\ balance = [l \in Users |-> 0]
    /\ position = [t \in Txids |-> NoPosition]
    /\ release_psbt = {}
    /\ config = InitialConfig
    /\ tip \in [Spvs -> {NoTip} \union [height: TipHeights, time: {0}]]
    /\ registry = [s \in Spvs |-> [t \in Txids |-> "free"]]
    /\ feed \in [Oracles -> [price: Prices, at: {0}]]

\* The output is exactly the P2WSH of the Writz script for the protocol key, a
\* distinct and well-formed user key, and the stated timelock.
p2wsh_matches(t) == Utxo[t].writzScript

\* bitcoin-spv's answer: the block is on its best chain and deep enough.
verify_transaction(t) ==
    tip[config.spv].height >= 0 /\ tip[config.spv].height - Utxo[t].height + 1 >= config.min_confirmations

timelock_in_bounds(t) ==
    Utxo[t].timelock \in (Utxo[t].height + MIN_TIMELOCK_MARGIN)..(Utxo[t].height + MAX_TIMELOCK_MARGIN)

\* Only the holder of the script's user key can sign for a depositor.
signed_by(depositor, t) == Utxo[t].owner = depositor

\* Value of the output that carries the script.
find_p2wsh_output(t) == Utxo[t].sats

(* Registers a Bitcoin deposit.  The SPV proof, script match, key proof and   *)
(* value check read facts of the transaction; the txid is consumed in the     *)
(* registry of the configured bitcoin-spv contract.                           *)
deposit(depositor, t) ==
    /\ ~config.paused
    /\ p2wsh_matches(t)
    /\ verify_transaction(t)
    /\ timelock_in_bounds(t)
    /\ signed_by(depositor, t)
    /\ position[t].status = "None"
    /\ registry[config.spv][t] = "free"
    /\ find_p2wsh_output(t) >= config.min_deposit
    /\ registry' = [registry EXCEPT ![config.spv][t] = "lend"]
    /\ position' = [position EXCEPT ![t] =
           [status |-> "Active", usdc_debt |-> 0, debt_index |-> INDEX_ONE, depositor |-> depositor]]
    /\ UNCHANGED <<ledger, cash, proto, balance, release_psbt, config, tip, feed>>

supply_usdc(supplier, amount) ==
    LET scaled == (amount * INDEX_ONE) \div SupplyIndexNow IN
    /\ ~config.paused
    /\ scaled > 0
    /\ AccrueGlobal /\ KeepHeartbeat
    /\ total_borrowed' = TotalBorrowedNow /\ reserve_usdc' = ReserveNow
    /\ total_scaled_supply' = total_scaled_supply + scaled
    /\ balance' = [balance EXCEPT ![supplier] = @ + scaled]
    /\ cash' = cash + amount
    /\ UNCHANGED <<ledger, position, release_psbt, config, environment>>

\* Mutant: a partial withdrawal burns rounded down.
burn_RoundsDown(supplier, amount) ==
    IF amount = ValueNow(supplier) THEN balance[supplier]
    ELSE (amount * INDEX_ONE) \div SupplyIndexNow

\* Mutant: USDC are burned as if they were scaled units.
burn_Unscaled(supplier, amount) == amount

\* Scaled units withdraw_supply burns: the whole balance for the whole value,
\* otherwise rounded up, in the pool's favour.
burn(supplier, amount) ==
    LET up == (amount * INDEX_ONE + SupplyIndexNow - 1) \div SupplyIndexNow
    IN  IF amount = ValueNow(supplier) \/ up > balance[supplier] THEN balance[supplier] ELSE up

withdraw_supply(supplier, amount) ==
    /\ amount > 0
    /\ amount <= ValueNow(supplier)
    /\ amount <= AvailableNow
    /\ amount <= cash                       \* the token's own check
    /\ AccrueGlobal /\ KeepHeartbeat
    /\ total_borrowed' = TotalBorrowedNow /\ reserve_usdc' = ReserveNow
    /\ total_scaled_supply' = total_scaled_supply - burn(supplier, amount)
    /\ balance' = [balance EXCEPT ![supplier] = @ - burn(supplier, amount)]
    /\ cash' = cash - amount
    /\ UNCHANGED <<ledger, position, release_psbt, config, environment>>

borrow(borrower, t, amount) ==
    LET new_debt == debt_after(t, amount) IN
    /\ ~config.paused
    /\ IsActive(t)
    /\ position[t].depositor = borrower
    /\ fresh_tip /\ timelock_clears(t, config.borrow_margin)
    /\ amount <= AvailableNow
    /\ TotalBorrowedNow + amount <= config.max_total_borrowed
    /\ BtcPrice > 0
    /\ HealthAtLeast(collateral_value(Utxo[t].sats), new_debt, MIN_COLLATERAL_RATIO_BP)
    /\ amount >= 0 /\ amount <= cash        \* the token's own checks
    /\ AccrueGlobal /\ KeepHeartbeat
    /\ total_borrowed' = TotalBorrowedNow + amount /\ reserve_usdc' = ReserveNow
    /\ position' = [position EXCEPT ![t].usdc_debt = new_debt, ![t].debt_index = BorrowIndexNow]
    /\ cash' = cash - amount
    /\ UNCHANGED <<ledger, total_scaled_supply, balance, release_psbt, config, environment>>

\* Anyone may repay.  A repayment of the whole debt closes the position and
\* emits repay_full, the event the relayer releases the Bitcoin on.
repay(t, amount) ==
    LET debt == DebtNow(t) - amount IN
    /\ IsActive(t)
    /\ amount <= DebtNow(t)
    /\ amount >= 0                          \* the token's own check
    /\ AccrueGlobal /\ KeepHeartbeat
    /\ total_borrowed' = TotalBorrowedNow - amount /\ reserve_usdc' = ReserveNow
    /\ position' = [position EXCEPT
           ![t].usdc_debt = debt, ![t].debt_index = BorrowIndexNow,
           ![t].status = IF debt = 0 THEN "Closed" ELSE "Active"]
    /\ cash' = cash + amount
    /\ UNCHANGED <<ledger, total_scaled_supply, balance, release_psbt, config, environment>>

\* The keeper's bonus comes from the reserve and is capped at what it holds.
bonus_paid(debt) ==
    LET due == (debt * LIQUIDATION_BONUS_BP) \div BP_SCALE
    IN  IF due <= ReserveNow THEN due ELSE ReserveNow

liquidate(keeper, t) ==
    /\ keeper = config.keeper \/ KeeperIsStale
    /\ IsActive(t)
    /\ fresh_tip /\ timelock_clears(t, LIQUIDATION_CUTOFF_BLOCKS)
    /\ BtcPrice > 0
    /\ ~HealthAtLeast(collateral_value(Utxo[t].sats), DebtNow(t), LIQUIDATION_THRESHOLD_BP)
    /\ bonus_paid(DebtNow(t)) <= cash + DebtNow(t)      \* the token's own check
    /\ AccrueGlobal
    /\ last_keeper_heartbeat' = IF keeper = config.keeper THEN ledger ELSE HeartbeatNow
    /\ total_borrowed' = TotalBorrowedNow - DebtNow(t)
    /\ reserve_usdc' = ReserveNow - bonus_paid(DebtNow(t))
    /\ position' = [position EXCEPT ![t].status = "Liquidated", ![t].usdc_debt = 0,
                                    ![t].debt_index = BorrowIndexNow]
    /\ cash' = cash + DebtNow(t) - bonus_paid(DebtNow(t))
    /\ UNCHANGED <<ledger, total_scaled_supply, balance, release_psbt, config, environment>>

\* set_protocol writes back the lazily defaulted state with a new heartbeat;
\* keeper_heartbeat does not accrue.
keeper_heartbeat(keeper) ==
    /\ keeper = config.keeper
    /\ last_keeper_heartbeat' = ledger
    /\ index_ledger' = IF stored THEN index_ledger ELSE ledger
    /\ stored' = TRUE
    /\ UNCHANGED <<ledger, cash, reserve_usdc, total_scaled_supply, supply_index, total_borrowed,
                   borrow_index, balance, position, release_psbt, config, environment>>

\* The contract asks that the position exists, not that it is Closed.
publish_release_psbt(relayer, t) ==
    /\ relayer = config.relayer
    /\ position[t].status # "None"
    /\ release_psbt' = release_psbt \union {t}
    /\ UNCHANGED <<ledger, cash, proto, balance, position, config, environment>>

-----------------------------------------------------------------------------
(* Admin setters; the contract checks caller = config.admin in each. *)

SetConfig(new) ==
    /\ config' = new
    /\ UNCHANGED <<ledger, cash, proto, balance, position, release_psbt, environment>>

set_paused(v) == SetConfig([config EXCEPT !.paused = v])
set_keeper(u) == SetConfig([config EXCEPT !.keeper = u])
set_relayer(u) == SetConfig([config EXCEPT !.relayer = u])
set_oracle(o) == SetConfig([config EXCEPT !.oracle = o])
set_spv_contract(s) == SetConfig([config EXCEPT !.spv = s])
set_max_total_borrowed(m) == SetConfig([config EXCEPT !.max_total_borrowed = m])
set_keeper_stale_window(w) == SetConfig([config EXCEPT !.stale_after = w])

\* Mutant: the admin may lower the margin below the deployment default.
set_borrow_timelock_margin_NoFloor(b) ==
    /\ b <= MAX_TIMELOCK_MARGIN
    /\ SetConfig([config EXCEPT !.borrow_margin = b])

\* The margin can be raised, never lowered below the deployment default.
set_borrow_timelock_margin(b) ==
    /\ b \in DEFAULT_BORROW_TIMELOCK_MARGIN..MAX_TIMELOCK_MARGIN
    /\ SetConfig([config EXCEPT !.borrow_margin = b])

set_max_tip_age(a) ==
    /\ a \in MIN_MAX_TIP_AGE..MAX_MAX_TIP_AGE
    /\ SetConfig([config EXCEPT !.max_tip_age = a])

set_entry_ttl(n) == SetConfig([config EXCEPT !.entry_ttl = n])

AdminStep ==
    \/ \E v \in BOOLEAN : set_paused(v)
    \/ \E u \in Users : set_keeper(u)
    \/ \E u \in Users : set_relayer(u)
    \/ \E o \in Oracles : set_oracle(o)
    \/ \E s \in Spvs : set_spv_contract(s)
    \/ \E m \in Caps : set_max_total_borrowed(m)
    \/ \E w \in StaleWindows : set_keeper_stale_window(w)
    \/ \E b \in BorrowMargins : set_borrow_timelock_margin(b)
    \/ \E a \in TipAges : set_max_tip_age(a)
    \/ \E n \in EntryTtls : set_entry_ttl(n)

-----------------------------------------------------------------------------
(* The world around the contract. *)

CloseLedger ==
    /\ ledger < MaxLedger
    /\ ledger' = ledger + 1
    /\ UNCHANGED <<cash, proto, balance, position, release_psbt, config, environment>>

\* bitcoin-spv moves its best tip; a reorganisation may lower the height.
TipMoves(s, h) ==
    /\ tip' = [tip EXCEPT ![s] = [height |-> h, time |-> ledger]]
    /\ UNCHANGED <<ledger, cash, proto, balance, position, release_psbt, config, registry, feed>>

\* Another consumer of the same bitcoin-spv registry takes a txid.
OtherPoolConsumes(s, t) ==
    /\ registry[s][t] = "free"
    /\ registry' = [registry EXCEPT ![s][t] = "other"]
    /\ UNCHANGED <<ledger, cash, proto, balance, position, release_psbt, config, tip, feed>>

OracleReports(o, p) ==
    /\ feed' = [feed EXCEPT ![o] = [price |-> p, at |-> ledger]]
    /\ UNCHANGED <<ledger, cash, proto, balance, position, release_psbt, config, tip, registry>>

WorldMoves ==
    \/ \E s \in Spvs, h \in TipHeights : TipMoves(s, h)
    \/ \E s \in Spvs, t \in Txids : OtherPoolConsumes(s, t)
    \/ \E o \in Oracles, p \in Prices : OracleReports(o, p)

LenderStep ==
    \/ \E u \in Users, a \in Amounts : supply_usdc(u, a)
    \/ \E u \in Users, a \in Amounts : withdraw_supply(u, a)
    \/ \E u \in Users : withdraw_supply(u, ValueNow(u))

BorrowerStep ==
    \/ \E u \in Users, t \in Txids : deposit(u, t)
    \/ \E u \in Users, t \in Txids, a \in Amounts : borrow(u, t, a)
    \/ \E t \in Txids, a \in Amounts : repay(t, a)
    \/ \E t \in Txids : repay(t, DebtNow(t))

KeeperStep ==
    \/ \E u \in Users, t \in Txids : liquidate(u, t)
    \/ \E u \in Users : keeper_heartbeat(u)

RelayerStep == \E u \in Users, t \in Txids : publish_release_psbt(u, t)

Next == LenderStep \/ BorrowerStep \/ KeeperStep \/ RelayerStep \/ AdminStep \/ WorldMoves \/ CloseLedger

Spec == Init /\ [][Next]_vars

-----------------------------------------------------------------------------
(* Properties *)

\* Every stored amount keeps its type; scaled balances, debts, the reserve and
\* the USDC held never go below zero (i128 fields the code never re-checks).
TypeOK ==
    /\ ledger \in Nat /\ cash \in Nat
    /\ reserve_usdc \in Nat /\ total_scaled_supply \in Int /\ total_borrowed \in Int
    /\ supply_index \in Nat /\ borrow_index \in Nat
    /\ index_ledger \in 0..ledger /\ last_keeper_heartbeat \in 0..ledger /\ stored \in BOOLEAN
    /\ balance \in [Users -> Nat]
    /\ position \in [Txids -> Positions]
    /\ release_psbt \subseteq Txids
    /\ config \in Configs

\* Solvency (assert_solvent in test.rs): accrued to the current ledger, what the
\* lenders and the reserve may claim never exceeds the USDC held plus what is
\* recorded as borrowed.  It is what makes every withdrawal, draw and bonus the
\* guards of withdraw_supply, borrow and liquidate admit payable in cash,
\* through every rounding of project, supply_usdc and withdraw_supply.
Solvent == AssetsNow + ReserveNow <= cash + TotalBorrowedNow

\* The lenders' displayed balances together never exceed the pool's supplied
\* assets (invariant 1 of the random-sequence test): shares are minted and
\* burned in step with total_scaled_supply and no rounding favours a lender.
ClaimsCovered == MapThenSumSet(ValueNow, Users) <= AssetsNow

\* No call moves value between lenders: a lender whose balance a step leaves
\* alone never loses value, and one who supplies or withdraws gains at most the
\* USDC they put in, and loses at least the USDC they take out.
FairShare ==
    [][\A l \in Users :
         LET gain == ValueNow(l)' - ValueNow(l)
         IN  IF balance'[l] = balance[l] THEN gain >= 0 ELSE gain <= cash' - cash]_vars

\* A debt accrued to the current ledger falls only by USDC paid into the
\* contract, whatever other positions and lenders do: the part a liquidation
\* hands back to the keeper comes out of the reserve.
DebtFallsOnlyByPayment ==
    [][\A t \in Txids :
         DebtNow(t)' < DebtNow(t) =>
            DebtNow(t) - DebtNow(t)' <= (cash' - cash) + (ReserveNow - ReserveNow')]_vars

\* A repaid or liquidated position is final and owes nothing: the relayer may
\* release the Bitcoin of a Closed position because no later call reopens it.
PositionsEndForGood ==
    [][\A t \in Txids :
         /\ position[t].status \in {"Closed", "Liquidated"} => position'[t] = position[t]
         /\ position'[t].status \in {"Closed", "Liquidated"} => position'[t].usdc_debt = 0]_vars

\* A pause never traps anyone (set_paused's contract): every open position can
\* be repaid in full, every lender can withdraw what is available, and an
\* undercollateralised position inside its window can be liquidated, all of it
\* covered by the USDC held.
ExitsStayOpen ==
    /\ \A t \in Txids : position[t].status = "Active" => ENABLED repay(t, DebtNow(t))
    /\ \A l \in Users :
         LET most == IF ValueNow(l) < AvailableNow THEN ValueNow(l) ELSE AvailableNow
         IN  most > 0 => ENABLED withdraw_supply(l, most)
    /\ \A t \in Txids :
         /\ position[t].status = "Active" /\ BtcPrice > 0
         /\ fresh_tip /\ timelock_clears(t, LIQUIDATION_CUTOFF_BLOCKS)
         /\ ~HealthAtLeast(collateral_value(Utxo[t].sats), DebtNow(t), LIQUIDATION_THRESHOLD_BP)
         => ENABLED liquidate(config.keeper, t)

\* Whatever the admin sets, new debt is only taken while the borrower's own
\* exit is at least the default margin away, measured on a tip no older than
\* the longest age the admin may choose.
LoanLeavesExitFarAway ==
    [][\A t \in Txids :
         position'[t].usdc_debt > DebtNow(t) =>
            /\ Utxo[t].timelock >= tip[config.spv].height + DEFAULT_BORROW_TIMELOCK_MARGIN
            /\ ledger <= tip[config.spv].time + MAX_MAX_TIP_AGE]_vars

\* lib.rs:388: "Withdrawing the whole displayed value burns the whole balance,
\* so it can never fail on rounding."  With no debt outstanding only rounding
\* could make the displayed value of a balance exceed what can be withdrawn.
FullWithdrawalNeverFailsOnRounding ==
    (\A t \in Txids : DebtNow(t) = 0) => \A l \in Users : ValueNow(l) <= AvailableNow
============================================================================
