-------------------------- MODULE WritzLendProofs --------------------------
(* Proofs about WritzLend for every pool, every price and every sequence of   *)
(* calls: the types, solvency, and what no step does: take value from a       *)
(* lender, forgive a debt nobody paid, or lend to a borrower whose own exit   *)
(* is near; and that the lenders' claims, together, are covered.              *)
EXTENDS WritzLend, NumberFacts

\* A share: p of every s units of x, rounded down, lies between 0 and x.
LEMMA ShareBounds ==
    ASSUME NEW x \in Nat, NEW s \in Nat \ {0}, NEW p \in 0..s
    PROVE  (x * p) \div s \in 0..x
<1>1. x * p \in Nat /\ x * p <= x * s
    OBVIOUS
<1>2. (x * p) \div s \in Nat
    BY <1>1, DivNat
<1>3. s * ((x * p) \div s) <= s * x
    BY <1>1, DivBounds
<1> QED
    BY <1>2, <1>3

-----------------------------------------------------------------------------
(* What the lenders hold claim to, under each way it changes. *)

LEMMA AssetsInt ==
    ASSUME NEW S \in Int, NEW i \in Nat
    PROVE  total_supply_assets(S, i) \in Int
<1>1. S * i \in Int /\ INDEX_ONE \in Nat \ {0}
    BY RatesAssumption
<1> QED
    BY <1>1, DivBounds DEF total_supply_assets

\* An index step of L * INDEX_ONE \div scaled credits the lenders at most L.
LEMMA IndexStepCredits ==
    ASSUME NEW S \in Nat \ {0}, NEW i \in Nat, NEW L \in Nat
    PROVE  total_supply_assets(S, i + (L * INDEX_ONE) \div S)
             <= total_supply_assets(S, i) + L
<1> DEFINE g == (L * INDEX_ONE) \div S
<1>1. INDEX_ONE \in Nat \ {0} /\ L * INDEX_ONE \in Nat
    BY RatesAssumption
<1>2. g \in Int /\ S * g <= L * INDEX_ONE
    BY <1>1, DivBounds
<1>3. S * (i + g) <= S * i + L * INDEX_ONE /\ S * (i + g) \in Int /\ S * i \in Int
    BY <1>1, <1>2
<1> DEFINE x == S * (i + g)
             y == S * i
<1>4. x \in Int /\ y \in Int /\ x <= y + L * INDEX_ONE
    BY <1>1, <1>3
<1> HIDE DEF x, y
<1>5. x \div INDEX_ONE <= (y \div INDEX_ONE) + L
    BY <1>1, <1>4, DivAtMost
<1>6. y \div INDEX_ONE \in Int
    BY <1>1, <1>4, DivBounds
<1> QED
    BY <1>5, <1>6 DEF total_supply_assets, x, y

\* Minting amount * INDEX_ONE \div i units adds at most amount to the claims.
LEMMA MintCredits ==
    ASSUME NEW S \in Int, NEW i \in Nat \ {0}, NEW a \in Int
    PROVE  total_supply_assets(S + (a * INDEX_ONE) \div i, i) <= total_supply_assets(S, i) + a
<1> DEFINE m == (a * INDEX_ONE) \div i
<1>1. INDEX_ONE \in Nat \ {0} /\ a * INDEX_ONE \in Int
    BY RatesAssumption
<1>2. m \in Int /\ i * m <= a * INDEX_ONE
    BY <1>1, DivBounds
<1>3. (S + m) * i <= S * i + a * INDEX_ONE /\ (S + m) * i \in Int /\ S * i \in Int
    BY <1>1, <1>2
<1> DEFINE x == (S + m) * i
             y == S * i
<1>4. x \in Int /\ y \in Int /\ x <= y + a * INDEX_ONE
    BY <1>1, <1>3
<1> HIDE DEF x, y
<1>5. x \div INDEX_ONE <= (y \div INDEX_ONE) + a
    BY <1>1, <1>4, DivAtMost
<1>6. y \div INDEX_ONE \in Int
    BY <1>1, <1>4, DivBounds
<1> QED
    BY <1>5, <1>6 DEF total_supply_assets, x, y

\* Burning b units worth at least amount removes at least amount.
LEMMA BurnDebits ==
    ASSUME NEW S \in Int, NEW i \in Nat, NEW b \in Int, NEW a \in Int, a * INDEX_ONE <= b * i
    PROVE  total_supply_assets(S - b, i) <= total_supply_assets(S, i) - a
<1>1. INDEX_ONE \in Nat \ {0}
    BY RatesAssumption
<1>2. (S - b) * i <= S * i + (-a) * INDEX_ONE /\ (S - b) * i \in Int /\ S * i \in Int
    BY <1>1
<1> DEFINE x == (S - b) * i
             y == S * i
             k == -a
<1>4. x \in Int /\ y \in Int /\ k \in Int /\ x <= y + k * INDEX_ONE
    BY <1>1, <1>2
<1> HIDE DEF x, y, k
<1>5. x \div INDEX_ONE <= (y \div INDEX_ONE) + k
    BY <1>1, <1>4, DivAtMost
<1>6. y \div INDEX_ONE \in Int
    BY <1>1, <1>4, DivBounds
<1> QED
    BY <1>5, <1>6 DEF total_supply_assets, x, y, k

-----------------------------------------------------------------------------
(* The projected state. *)

\* Rust's division of integers gives an integer, and no negative one of natural numbers.
LEMMA QuotInt ==
    ASSUME NEW a \in Int, NEW b \in Int, b # 0
    PROVE  Quot(a, b) \in Int /\ (a >= 0 /\ b > 0 => Quot(a, b) >= 0)
<1>1. Magnitude(a) \in Nat /\ Magnitude(b) \in Nat \ {0}
    BY DEF Magnitude
<1>2. Magnitude(a) \div Magnitude(b) \in Nat
    BY <1>1, DivNat
<1> QED
    BY <1>2 DEF Quot

\* The borrow rate is an integer, whatever the utilization.
LEMMA RateInt ==
    ASSUME NEW b \in Int, NEW a \in Int
    PROVE  borrow_rate_bp(b, a) \in Int
<1> DEFINE u == utilization_bp(b, a)
<1>1. BP_SCALE \in Nat \ {0} /\ U_OPTIMAL_BP \in Nat \ {0} /\ BP_SCALE - U_OPTIMAL_BP \in Nat \ {0}
      /\ SLOPE1_BP \in Nat /\ SLOPE2_BP \in Nat
    BY RatesAssumption
<1>2. CASE a = 0 \/ b = 0
    BY <1>2 DEF borrow_rate_bp
<1>3. CASE a # 0 /\ b # 0
  <2>1. b * BP_SCALE \in Int
      BY <1>1
  <2>2. Quot(b * BP_SCALE, a) \in Int
      BY <1>3, <2>1, QuotInt
  <2>3. u \in Int
      BY <1>1, <2>2 DEF utilization_bp
  <2>4. u * SLOPE1_BP \in Int /\ (u - U_OPTIMAL_BP) * SLOPE2_BP \in Int
      BY <1>1, <2>3
  <2>5. Quot(u * SLOPE1_BP, U_OPTIMAL_BP) \in Int
      BY <1>1, <2>4, QuotInt
  <2>6. ((u - U_OPTIMAL_BP) * SLOPE2_BP) \div (BP_SCALE - U_OPTIMAL_BP) \in Int
      BY <1>1, <2>4, DivBounds
  <2> QED
      BY <1>1, <1>3, <2>5, <2>6 DEF borrow_rate_bp
<1> QED
    BY <1>2, <1>3

\* An index never falls by accrual.
LEMMA IndexGrows ==
    ASSUME NEW i \in Nat, NEW r \in Int, NEW e \in Int
    PROVE  grow_index(i, r, e) \in Nat /\ grow_index(i, r, e) >= i
<1>1. CASE e <= 0 \/ r <= 0
    BY <1>1 DEF grow_index
<1>2. CASE e > 0 /\ r > 0
  <2>1. LEDGERS_PER_YEAR * BP_SCALE \in Nat \ {0}
      BY RatesAssumption
  <2>2. i * r * e \in Nat
      BY <1>2
  <2>3. Quot(i * r * e, LEDGERS_PER_YEAR * BP_SCALE) \in Nat
      BY <2>1, <2>2, QuotInt
  <2> QED
      BY <1>2, <2>3 DEF grow_index, accrue_interest
<1> QED
    BY <1>1, <1>2

IndexesPositive == supply_index >= INDEX_ONE /\ borrow_index >= INDEX_ONE

\* Solvency as stored, before the accrual of the interval that is running.
StoredSolvent == Assets + reserve_usdc <= cash + total_borrowed

Inv == TypeOK /\ IndexesPositive /\ StoredSolvent

\* Accrual keeps every type and never lowers an index.
LEMMA Projection ==
    ASSUME TypeOK, IndexesPositive
    PROVE  /\ INDEX_ONE \in Nat \ {0}
           /\ Assets \in Int /\ AssetsNow \in Int
           /\ BorrowIndexNow \in Nat /\ BorrowIndexNow >= borrow_index
           /\ InterestNow \in Nat /\ FeeNow \in 0..InterestNow
           /\ TotalBorrowedNow \in Int /\ ReserveNow \in Nat
           /\ SupplyIndexNow \in Nat /\ SupplyIndexNow >= supply_index
<1>1. INDEX_ONE \in Nat \ {0} /\ BP_SCALE \in Nat \ {0} /\ PROTOCOL_FEE_BP \in 0..BP_SCALE
    BY RatesAssumption
<1>2. /\ total_scaled_supply \in Int /\ supply_index \in Nat \ {0} /\ total_borrowed \in Int
      /\ borrow_index \in Nat \ {0} /\ reserve_usdc \in Nat /\ Elapsed \in Int
    BY <1>1 DEF TypeOK, IndexesPositive, Elapsed
<1>3. total_scaled_supply * supply_index \in Int
    BY <1>2
<1>4. Assets \in Int
    BY <1>1, <1>3, DivBounds DEF Assets, total_supply_assets
<1>5. BorrowIndexNow \in Nat /\ BorrowIndexNow >= borrow_index
    BY <1>2, <1>4, RateInt, IndexGrows DEF BorrowIndexNow
<1>6. InterestNow \in Nat
  <2>1. CASE total_borrowed > 0 /\ BorrowIndexNow > borrow_index
    <3>1. total_borrowed * (BorrowIndexNow - borrow_index) \in Nat
        BY <1>2, <1>5, <2>1
    <3> QED
        BY <1>2, <2>1, <3>1, DivNat DEF InterestNow
  <2> QED
      BY <2>1 DEF InterestNow
<1>7. FeeNow \in 0..InterestNow
    BY <1>1, <1>6, ShareBounds DEF FeeNow
<1>8. TotalBorrowedNow \in Int /\ ReserveNow \in Nat
    BY <1>2, <1>6, <1>7 DEF TotalBorrowedNow, ReserveNow
<1>9. SupplyIndexNow \in Nat /\ SupplyIndexNow >= supply_index
  <2>1. CASE total_scaled_supply > 0
    <3>1. (InterestNow - FeeNow) * INDEX_ONE \in Nat /\ total_scaled_supply \in Nat \ {0}
        BY <1>1, <1>2, <1>6, <1>7, <2>1
    <3>2. ((InterestNow - FeeNow) * INDEX_ONE) \div total_scaled_supply \in Nat
        BY <3>1, DivNat
    <3> QED
        BY <1>2, <2>1, <3>2 DEF SupplyIndexNow
  <2> QED
      BY <1>2, <2>1 DEF SupplyIndexNow
<1>10. AssetsNow \in Int
  <2>1. total_scaled_supply * SupplyIndexNow \in Int
      BY <1>2, <1>9
  <2> QED
      BY <1>1, <2>1, DivBounds DEF AssetsNow, total_supply_assets
<1> QED
    BY <1>1, <1>4, <1>5, <1>6, <1>7, <1>8, <1>9, <1>10

\* Accruing the running interval keeps the pool solvent: the interest added to
\* total_borrowed covers the fee and what the lenders are credited.
LEMMA AccrualSolvent == Inv => Solvent
<1> SUFFICES ASSUME Inv PROVE Solvent
    OBVIOUS
<1> DEFINE L == InterestNow - FeeNow
<1>1. /\ Assets \in Int /\ AssetsNow \in Int /\ InterestNow \in Nat /\ FeeNow \in 0..InterestNow
      /\ supply_index \in Nat /\ total_scaled_supply \in Int
    BY Projection DEF Inv, TypeOK
<1>2. L \in Nat
    BY <1>1
<1>3. AssetsNow <= Assets + L
  <2>1. CASE total_scaled_supply > 0
    <3>1. total_scaled_supply \in Nat \ {0}
        BY <1>1, <2>1
    <3>2. SupplyIndexNow = supply_index + (L * INDEX_ONE) \div total_scaled_supply
        BY <2>1 DEF SupplyIndexNow
    <3> QED
        BY <1>1, <1>2, <3>1, <3>2, IndexStepCredits DEF AssetsNow, Assets
  <2>2. CASE ~(total_scaled_supply > 0)
    <3>1. AssetsNow = Assets
        BY <2>2 DEF AssetsNow, Assets, SupplyIndexNow
    <3> QED
        BY <1>1, <1>2, <3>1
  <2> QED
      BY <2>1, <2>2
<1>4. Assets + reserve_usdc <= cash + total_borrowed
    BY DEF Inv, StoredSolvent
<1>5. reserve_usdc \in Nat /\ cash \in Nat /\ total_borrowed \in Int
    BY DEF Inv, TypeOK
<1> QED
    BY <1>1, <1>3, <1>4, <1>5 DEF Solvent, ReserveNow, TotalBorrowedNow

\* An accrued debt is a natural number.
LEMMA DebtNat ==
    ASSUME TypeOK, IndexesPositive, NEW t \in Txids
    PROVE  DebtNow(t) \in Nat
<1>1. position[t].usdc_debt \in Nat /\ position[t].debt_index \in Nat
    BY DEF TypeOK, Positions
<1>2. BorrowIndexNow \in Nat
    BY Projection
<1>3. CASE position[t].usdc_debt > 0 /\ position[t].debt_index > 0
  <2>1. position[t].usdc_debt * BorrowIndexNow \in Nat /\ position[t].debt_index \in Nat \ {0}
      BY <1>1, <1>2, <1>3
  <2> QED
      BY <1>3, <2>1, DivNat DEF DebtNow
<1> QED
    BY <1>1, <1>3 DEF DebtNow

\* The liquidation bonus is at most the debt and at most the reserve.
LEMMA BonusBounds ==
    ASSUME TypeOK, IndexesPositive, NEW d \in Nat
    PROVE  bonus_paid(d) \in 0..d /\ bonus_paid(d) <= ReserveNow
<1>1. ReserveNow \in Nat
    BY Projection
<1>2. (d * LIQUIDATION_BONUS_BP) \div BP_SCALE \in 0..d
    BY RatesAssumption, ShareBounds
<1> QED
    BY <1>1, <1>2 DEF bonus_paid

\* A withdrawal burns no more than the balance, and units worth the amount.
LEMMA BurnBounds ==
    ASSUME TypeOK, IndexesPositive, NEW l \in Users, NEW a \in Nat, a <= ValueNow(l)
    PROVE  burn(l, a) \in 0..balance[l] /\ a * INDEX_ONE <= burn(l, a) * SupplyIndexNow
<1> DEFINE i == SupplyIndexNow
           b == balance[l]
           up == (a * INDEX_ONE + i - 1) \div i
<1>1. INDEX_ONE \in Nat \ {0} /\ i \in Nat \ {0} /\ b \in Nat
    BY Projection DEF TypeOK, IndexesPositive
<1>2. b * i \in Nat /\ a * INDEX_ONE \in Nat
    BY <1>1
<1>3. a * INDEX_ONE <= b * i
    BY <1>1, <1>2, DivCovers DEF ValueNow
<1>4. up \in Nat /\ a * INDEX_ONE <= up * i
  <2>1. a * INDEX_ONE + i - 1 \in Nat
      BY <1>1, <1>2
  <2>2. up \in Nat
      BY <1>1, <2>1, DivNat
  <2>3. a * INDEX_ONE + i - 1 < i * up + i
      BY <1>1, <2>1, DivBounds
  <2> QED
      BY <1>1, <1>2, <2>2, <2>3
<1>5. burn(l, a) = b \/ (burn(l, a) = up /\ up <= b)
    BY <1>1, <1>4 DEF burn
<1> QED
    BY <1>1, <1>3, <1>4, <1>5

-----------------------------------------------------------------------------
(* Each call keeps the invariant. *)

\* What every call that writes the protocol state does to indexes and claims.
LEMMA AccountingKeeps ==
    ASSUME Inv, AccrueGlobal, total_scaled_supply' \in Int,
           total_supply_assets(total_scaled_supply', SupplyIndexNow) + reserve_usdc'
             <= cash' + total_borrowed'
    PROVE  IndexesPositive' /\ StoredSolvent'
<1>1. /\ BorrowIndexNow \in Nat /\ BorrowIndexNow >= borrow_index
      /\ SupplyIndexNow \in Nat /\ SupplyIndexNow >= supply_index /\ INDEX_ONE \in Nat
    BY Projection DEF Inv
<1>2. IndexesPositive'
    BY <1>1 DEF Inv, TypeOK, IndexesPositive, AccrueGlobal
<1>3. Assets' = total_supply_assets(total_scaled_supply', SupplyIndexNow)
    BY DEF Assets, AccrueGlobal, total_supply_assets
<1> QED
    BY <1>2, <1>3 DEF StoredSolvent

\* The facts each of the lemmas below starts from.
LEMMA CallFacts ==
    ASSUME Inv
    PROVE  /\ TypeOK /\ IndexesPositive /\ Solvent
           /\ INDEX_ONE \in Nat \ {0} /\ AssetsNow \in Int
           /\ BorrowIndexNow \in Nat /\ TotalBorrowedNow \in Int /\ ReserveNow \in Nat
           /\ SupplyIndexNow \in Nat \ {0} /\ total_scaled_supply \in Int /\ cash \in Nat
<1>1. TypeOK /\ IndexesPositive /\ Solvent
    BY AccrualSolvent DEF Inv
<1>2. /\ INDEX_ONE \in Nat \ {0} /\ AssetsNow \in Int /\ BorrowIndexNow \in Nat
      /\ TotalBorrowedNow \in Int /\ ReserveNow \in Nat
      /\ SupplyIndexNow \in Nat /\ SupplyIndexNow >= supply_index
    BY <1>1, Projection
<1> QED
    BY <1>1, <1>2 DEF TypeOK, IndexesPositive

LEMMA SupplyKeeps ==
    ASSUME Inv, NEW u \in Users, NEW a \in Int, supply_usdc(u, a)
    PROVE  Inv'
<1> DEFINE m == (a * INDEX_ONE) \div SupplyIndexNow
<1>1. m \in Int /\ m > 0 /\ a * INDEX_ONE \in Int /\ SupplyIndexNow * m <= a * INDEX_ONE
  <2>1. a * INDEX_ONE \in Int
      BY CallFacts
  <2> QED
      BY <2>1, CallFacts, DivBounds DEF supply_usdc
<1>2. a \in Nat
    BY <1>1, CallFacts
<1>3. TypeOK'
    BY <1>1, <1>2, CallFacts
    DEF TypeOK, supply_usdc, AccrueGlobal, KeepHeartbeat, HeartbeatNow
<1>4. total_supply_assets(total_scaled_supply + m, SupplyIndexNow) <= AssetsNow + a
    BY CallFacts, MintCredits DEF AssetsNow
<1>5. total_supply_assets(total_scaled_supply + m, SupplyIndexNow) \in Int
    BY <1>1, CallFacts, AssetsInt
<1>6. AccrueGlobal /\ total_scaled_supply' = total_scaled_supply + m /\ cash' = cash + a
      /\ total_borrowed' = TotalBorrowedNow /\ reserve_usdc' = ReserveNow
    BY DEF supply_usdc
<1>7. IndexesPositive' /\ StoredSolvent'
    BY <1>1, <1>2, <1>4, <1>5, <1>6, CallFacts, AccountingKeeps DEF Solvent
<1> QED
    BY <1>3, <1>7 DEF Inv

LEMMA WithdrawKeeps ==
    ASSUME Inv, NEW u \in Users, NEW a \in Int, withdraw_supply(u, a)
    PROVE  Inv'
<1> DEFINE b == burn(u, a)
<1>1. a \in Nat /\ a <= ValueNow(u) /\ a <= cash
    BY DEF withdraw_supply
<1>2. b \in 0..balance[u] /\ a * INDEX_ONE <= b * SupplyIndexNow /\ balance[u] \in Nat
    BY <1>1, CallFacts, BurnBounds DEF TypeOK
<1> HIDE DEF b
<1>3. /\ AccrueGlobal /\ KeepHeartbeat /\ total_scaled_supply' = total_scaled_supply - b
      /\ cash' = cash - a /\ total_borrowed' = TotalBorrowedNow /\ reserve_usdc' = ReserveNow
      /\ balance' = [balance EXCEPT ![u] = @ - b]
      /\ UNCHANGED <<ledger, position, release_psbt, config>>
    BY DEF withdraw_supply, b
<1>4. TypeOK'
    BY <1>1, <1>2, <1>3, CallFacts DEF TypeOK, AccrueGlobal, KeepHeartbeat, HeartbeatNow
<1>5. total_supply_assets(total_scaled_supply - b, SupplyIndexNow) <= AssetsNow - a
    BY <1>1, <1>2, CallFacts, BurnDebits DEF AssetsNow
<1>6. total_supply_assets(total_scaled_supply - b, SupplyIndexNow) \in Int
    BY <1>2, CallFacts, AssetsInt
<1>7. IndexesPositive' /\ StoredSolvent'
    BY <1>1, <1>2, <1>3, <1>5, <1>6, CallFacts, AccountingKeeps DEF Solvent
<1> QED
    BY <1>4, <1>7 DEF Inv

LEMMA BorrowKeeps ==
    ASSUME Inv, NEW u \in Users, NEW t \in Txids, NEW a \in Int, borrow(u, t, a)
    PROVE  Inv'
<1>1. a \in Nat /\ a <= cash /\ DebtNow(t) \in Nat
    BY CallFacts, DebtNat DEF borrow
<1> DEFINE n == DebtNow(t) + a
<1>n. n \in Nat
    BY <1>1
<1> HIDE DEF n
<1>2. /\ AccrueGlobal /\ KeepHeartbeat /\ total_scaled_supply' = total_scaled_supply
      /\ cash' = cash - a /\ total_borrowed' = TotalBorrowedNow + a /\ reserve_usdc' = ReserveNow
      /\ position' = [position EXCEPT ![t].usdc_debt = n, ![t].debt_index = BorrowIndexNow]
      /\ UNCHANGED <<ledger, balance, release_psbt, config>>
    BY DEF borrow, debt_after, n
<1>3. TypeOK'
  <2>1. position' \in [Txids -> Positions]
      BY <1>n, <1>2, CallFacts DEF TypeOK, Positions
  <2> QED
      BY <1>1, <1>2, <2>1, CallFacts DEF TypeOK, AccrueGlobal, KeepHeartbeat, HeartbeatNow
<1>4. IndexesPositive' /\ StoredSolvent'
    BY <1>1, <1>2, CallFacts, AccountingKeeps DEF Solvent, AssetsNow
<1> QED
    BY <1>3, <1>4 DEF Inv

LEMMA RepayKeeps ==
    ASSUME Inv, NEW t \in Txids, NEW a \in Int, repay(t, a)
    PROVE  Inv'
<1>1. a \in Nat /\ a <= DebtNow(t) /\ DebtNow(t) \in Nat
    BY CallFacts, DebtNat DEF repay
<1> DEFINE n == DebtNow(t) - a
<1>n. n \in Nat
    BY <1>1
<1> HIDE DEF n
<1>2. PICK st \in Statuses :
      /\ AccrueGlobal /\ KeepHeartbeat /\ total_scaled_supply' = total_scaled_supply
      /\ cash' = cash + a /\ total_borrowed' = TotalBorrowedNow - a /\ reserve_usdc' = ReserveNow
      /\ position' = [position EXCEPT ![t].usdc_debt = n,
                         ![t].debt_index = BorrowIndexNow, ![t].status = st]
      /\ UNCHANGED <<ledger, balance, release_psbt, config>>
    BY DEF repay, Statuses, n
<1>3. TypeOK'
  <2>1. position' \in [Txids -> Positions]
      BY <1>n, <1>2, CallFacts DEF TypeOK, Positions
  <2> QED
      BY <1>1, <1>2, <2>1, CallFacts DEF TypeOK, AccrueGlobal, KeepHeartbeat, HeartbeatNow
<1>4. IndexesPositive' /\ StoredSolvent'
    BY <1>1, <1>2, CallFacts, AccountingKeeps DEF Solvent, AssetsNow
<1> QED
    BY <1>3, <1>4 DEF Inv

LEMMA LiquidateKeeps ==
    ASSUME Inv, NEW u \in Users, NEW t \in Txids, liquidate(u, t)
    PROVE  Inv'
<1> DEFINE d == DebtNow(t)
           b == bonus_paid(d)
<1>1. d \in Nat /\ b \in 0..d /\ b <= ReserveNow
    BY CallFacts, DebtNat, BonusBounds
<1> HIDE DEF d, b
<1>2. /\ AccrueGlobal /\ total_scaled_supply' = total_scaled_supply
      /\ last_keeper_heartbeat' \in {ledger, HeartbeatNow}
      /\ cash' = cash + d - b /\ total_borrowed' = TotalBorrowedNow - d
      /\ reserve_usdc' = ReserveNow - b
      /\ position' = [position EXCEPT ![t].status = "Liquidated", ![t].usdc_debt = 0,
                         ![t].debt_index = BorrowIndexNow]
      /\ UNCHANGED <<ledger, balance, release_psbt, config>>
    BY DEF liquidate, d, b
<1>3. TypeOK'
  <2>1. position' \in [Txids -> Positions]
      BY <1>2, CallFacts DEF TypeOK, Positions, Statuses
  <2> QED
      BY <1>1, <1>2, <2>1, CallFacts DEF TypeOK, AccrueGlobal, HeartbeatNow
<1>4. IndexesPositive' /\ StoredSolvent'
    BY <1>1, <1>2, CallFacts, AccountingKeeps DEF Solvent, AssetsNow
<1> QED
    BY <1>3, <1>4 DEF Inv

\* Steps that leave the accounting alone keep solvency as stored.
LEMMA QuietKeeps ==
    ASSUME Inv, TypeOK',
           UNCHANGED <<cash, reserve_usdc, total_scaled_supply, supply_index, total_borrowed, borrow_index>>
    PROVE  Inv'
BY DEF Inv, IndexesPositive, StoredSolvent, Assets, total_supply_assets

LEMMA OtherCallsKeep ==
    ASSUME Inv,
           \/ \E u \in Users, t \in Txids : deposit(u, t)
           \/ \E u \in Users : keeper_heartbeat(u)
           \/ RelayerStep
    PROVE  Inv'
<1>1. ASSUME NEW u \in Users, NEW t \in Txids, deposit(u, t) PROVE Inv'
  <2>1. position' \in [Txids -> Positions]
    <3>1. [status |-> "Active", usdc_debt |-> 0, debt_index |-> INDEX_ONE, depositor |-> u] \in Positions
        BY RatesAssumption DEF Positions, Statuses
    <3> QED
        BY <1>1, <3>1 DEF deposit, Inv, TypeOK
  <2>2. TypeOK'
      BY <1>1, <2>1 DEF deposit, proto, Inv, TypeOK
  <2> QED
      BY <1>1, <2>2, QuietKeeps DEF deposit, proto
<1>2. ASSUME NEW u \in Users, keeper_heartbeat(u) PROVE Inv'
  <2>1. TypeOK'
      BY <1>2 DEF keeper_heartbeat, Inv, TypeOK
  <2> QED
      BY <1>2, <2>1, QuietKeeps DEF keeper_heartbeat
<1>3. ASSUME NEW u \in Users, NEW t \in Txids, publish_release_psbt(u, t) PROVE Inv'
  <2>1. TypeOK'
      BY <1>3 DEF publish_release_psbt, proto, Inv, TypeOK
  <2> QED
      BY <1>3, <2>1, QuietKeeps DEF publish_release_psbt, proto
<1> QED
    BY <1>1, <1>2, <1>3 DEF RelayerStep

LEMMA AdminKeeps ==
    ASSUME Inv, AdminStep
    PROVE  Inv'
<1>1. ASSUME NEW c \in Configs, SetConfig(c) PROVE Inv'
  <2>1. TypeOK'
      BY <1>1 DEF SetConfig, proto, Inv, TypeOK
  <2> QED
      BY <1>1, <2>1, QuietKeeps DEF SetConfig, proto
<1>2. config \in Configs
    BY DEF Inv, TypeOK
<1>3. CASE \E v \in BOOLEAN : set_paused(v)
    BY <1>1, <1>2, <1>3 DEF set_paused, Configs
<1>4. CASE (\E u \in Users : set_keeper(u)) \/ (\E u \in Users : set_relayer(u))
    BY <1>1, <1>2, <1>4 DEF set_keeper, set_relayer, Configs
<1>5. CASE (\E o \in Oracles : set_oracle(o)) \/ (\E z \in Spvs : set_spv_contract(z))
    BY <1>1, <1>2, <1>5 DEF set_oracle, set_spv_contract, Configs
<1>6. CASE \E m \in Caps : set_max_total_borrowed(m)
    BY <1>1, <1>2, <1>6, InputsAssumption DEF set_max_total_borrowed, Configs
<1>7. CASE \E w \in StaleWindows : set_keeper_stale_window(w)
    BY <1>1, <1>2, <1>7, InputsAssumption DEF set_keeper_stale_window, Configs
<1>8. CASE \E b \in BorrowMargins : set_borrow_timelock_margin(b)
    BY <1>1, <1>2, <1>8, InputsAssumption DEF set_borrow_timelock_margin, Configs
<1>9. CASE \E g \in TipAges : set_max_tip_age(g)
    BY <1>1, <1>2, <1>9, InputsAssumption DEF set_max_tip_age, Configs
<1>10. CASE \E n \in EntryTtls : set_entry_ttl(n)
    BY <1>1, <1>2, <1>10 DEF set_entry_ttl, Configs
<1> QED
    BY <1>3, <1>4, <1>5, <1>6, <1>7, <1>8, <1>9, <1>10 DEF AdminStep

LEMMA WorldKeeps ==
    ASSUME Inv, WorldMoves \/ CloseLedger
    PROVE  Inv'
<1>1. CASE WorldMoves
  <2>1. UNCHANGED <<ledger, cash, proto, balance, position, release_psbt, config>>
      BY <1>1 DEF WorldMoves, TipMoves, OtherPoolConsumes, OracleReports
  <2>2. TypeOK'
      BY <2>1 DEF proto, Inv, TypeOK
  <2> QED
      BY <2>1, <2>2, QuietKeeps DEF proto
<1>2. CASE CloseLedger
  <2>1. TypeOK'
      BY <1>2 DEF CloseLedger, proto, Inv, TypeOK
  <2> QED
      BY <1>2, <2>1, QuietKeeps DEF CloseLedger, proto
<1> QED
    BY <1>1, <1>2

LEMMA LendersAndBorrowersKeep ==
    ASSUME Inv, LenderStep \/ BorrowerStep \/ KeeperStep
    PROVE  Inv'
<1>1. ASSUME NEW u \in Users PROVE ValueNow(u) \in Int
  <2>1. balance[u] \in Nat
      BY DEF Inv, TypeOK
  <2> QED
      BY <2>1, CallFacts, AssetsInt DEF ValueNow, total_supply_assets
<1>2. ASSUME NEW t \in Txids PROVE DebtNow(t) \in Int
    BY CallFacts, DebtNat
<1>3. CASE LenderStep
    BY <1>1, <1>3, SupplyKeeps, WithdrawKeeps, InputsAssumption DEF LenderStep
<1>4. CASE BorrowerStep
    BY <1>2, <1>4, OtherCallsKeep, BorrowKeeps, RepayKeeps, InputsAssumption DEF BorrowerStep
<1>5. CASE KeeperStep
    BY <1>5, LiquidateKeeps, OtherCallsKeep DEF KeeperStep
<1> QED
    BY <1>3, <1>4, <1>5

-----------------------------------------------------------------------------
(* The theorems. *)

LEMMA InitInv == Init => Inv
<1> SUFFICES ASSUME Init PROVE Inv
    OBVIOUS
<1>1. INDEX_ONE \in Nat \ {0}
    BY RatesAssumption
<1>2. position \in [Txids -> Positions]
    BY DEF Init, NoPosition, Positions, Statuses
<1>3. TypeOK
  <2>1. /\ ledger = 0 /\ cash = 0 /\ reserve_usdc = 0 /\ total_scaled_supply = 0
        /\ total_borrowed = 0 /\ supply_index = INDEX_ONE /\ borrow_index = INDEX_ONE
        /\ index_ledger = 0 /\ last_keeper_heartbeat = 0 /\ release_psbt = {}
      BY DEF Init
  <2>2. balance \in [Users -> Nat]
      BY DEF Init
  <2>3. stored \in BOOLEAN
      BY DEF Init
  <2>4. config \in Configs
      BY ConstructorAssumption DEF Init
  <2> QED
      BY <1>1, <1>2, <2>1, <2>2, <2>3, <2>4 DEF TypeOK
<1>4. IndexesPositive
    BY <1>1 DEF Init, IndexesPositive
<1>5. Assets = 0
    BY <1>1 DEF Init, Assets, total_supply_assets
<1> QED
    BY <1>3, <1>4, <1>5 DEF Init, Inv, StoredSolvent

LEMMA NextInv == Inv /\ [Next]_vars => Inv'
<1> SUFFICES ASSUME Inv, [Next]_vars PROVE Inv'
    OBVIOUS
<1>1. CASE LenderStep \/ BorrowerStep \/ KeeperStep
    BY <1>1, LendersAndBorrowersKeep
<1>2. CASE RelayerStep
    BY <1>2, OtherCallsKeep
<1>3. CASE AdminStep
    BY <1>3, AdminKeeps
<1>4. CASE WorldMoves \/ CloseLedger
    BY <1>4, WorldKeeps
<1>5. CASE UNCHANGED vars
  <2>1. TypeOK'
      BY <1>5 DEF vars, proto, Inv, TypeOK
  <2> QED
      BY <1>5, <2>1, QuietKeeps DEF vars, proto
<1> QED
    BY <1>1, <1>2, <1>3, <1>4, <1>5 DEF Next

\* Every reachable state is well typed: in particular no sequence of supplies,
\* withdrawals, draws, repayments and liquidations drives a scaled balance, a
\* debt, the reserve or the USDC held below zero.
THEOREM TypeCorrect == Spec => []TypeOK
<1>1. Init => Inv
    BY InitInv
<1>2. Inv /\ [Next]_vars => Inv'
    BY NextInv
<1>3. Inv => TypeOK
    BY DEF Inv
<1> QED
    BY <1>1, <1>2, <1>3, PTL DEF Spec

\* The pool is solvent for every rate model, fee, index scale, amount, price
\* and sequence of calls: rounding in project, supply_usdc and withdraw_supply
\* never creates a claim the contract's USDC and recorded debt do not cover.
THEOREM PoolSolvency == Spec => []Solvent
<1>1. Init => Inv
    BY InitInv
<1>2. Inv /\ [Next]_vars => Inv'
    BY NextInv
<1>3. Inv => Solvent
    BY AccrualSolvent
<1> QED
    BY <1>1, <1>2, <1>3, PTL DEF Spec

-----------------------------------------------------------------------------
(* Positions end for good. *)

Ended(t) == position[t].status \in {"Closed", "Liquidated"}

\* A position that ended owes nothing: what PositionsEndForGood needs of the
\* state before a step.
EndedOwesNothing == \A t \in Txids : Ended(t) => position[t].usdc_debt = 0

\* What a step may do to positions.
EndsForGood ==
    \A t \in Txids :
        /\ Ended(t) => position'[t] = position[t]
        /\ position'[t].status \in {"Closed", "Liquidated"} => position'[t].usdc_debt = 0

\* A call that replaces one open or missing position, and leaves it owing
\* nothing if that ends it, keeps every other position as it is.
LEMMA OneChanges ==
    ASSUME Inv, EndedOwesNothing, NEW t \in Txids, ~Ended(t), NEW p,
           position' = [position EXCEPT ![t] = p],
           p.status \in {"Closed", "Liquidated"} => p.usdc_debt = 0
    PROVE  EndsForGood
<1>1. position'[t] = p
    BY DEF Inv, TypeOK
<1>2. ASSUME NEW z \in Txids, z # t PROVE position'[z] = position[z]
    BY <1>2 DEF Inv, TypeOK
<1> QED
    BY <1>1, <1>2 DEF EndsForGood, EndedOwesNothing, Ended

\* A step that leaves the positions alone ends none.
LEMMA NoneChanges ==
    ASSUME EndedOwesNothing, position' = position
    PROVE  EndsForGood
BY DEF EndsForGood, EndedOwesNothing, Ended

\* The four calls that touch a position only take one that has not ended.
LEMMA CallsEndForGood ==
    ASSUME Inv, EndedOwesNothing, NEW t \in Txids
    PROVE  /\ \A u \in Users : deposit(u, t) => EndsForGood
           /\ \A u \in Users : \A a : borrow(u, t, a) => EndsForGood
           /\ \A a : repay(t, a) => EndsForGood
           /\ \A u \in Users : liquidate(u, t) => EndsForGood
<1>0. position[t] \in Positions /\ position \in [Txids -> Positions]
    BY DEF Inv, TypeOK
<1>1. ASSUME NEW u \in Users, deposit(u, t) PROVE EndsForGood
  <2> DEFINE p == [status |-> "Active", usdc_debt |-> 0, debt_index |-> INDEX_ONE, depositor |-> u]
  <2>1. position' = [position EXCEPT ![t] = p] /\ ~Ended(t)
      BY <1>1 DEF deposit, Ended
  <2> QED
      BY <2>1, OneChanges
<1>2. ASSUME NEW u \in Users, NEW a, borrow(u, t, a) PROVE EndsForGood
  <2> DEFINE p == [position[t] EXCEPT !.usdc_debt = debt_after(t, a), !.debt_index = BorrowIndexNow]
  <2>1. position' = [position EXCEPT ![t] = p] /\ position[t].status = "Active"
      BY <1>0, <1>2 DEF borrow, IsActive
  <2>2. p.status = "Active"
      BY <1>0, <2>1 DEF Positions
  <2> QED
      BY <2>1, <2>2, OneChanges DEF Ended
<1>3. ASSUME NEW a, repay(t, a) PROVE EndsForGood
  <2> DEFINE debt == DebtNow(t) - a
             p == [position[t] EXCEPT !.usdc_debt = debt, !.debt_index = BorrowIndexNow,
                                      !.status = IF debt = 0 THEN "Closed" ELSE "Active"]
  <2>1. position' = [position EXCEPT ![t] = p] /\ position[t].status = "Active"
      BY <1>0, <1>3 DEF repay, IsActive
  <2>2. p.usdc_debt = debt /\ (debt # 0 => p.status = "Active")
      BY <1>0 DEF Positions
  <2> QED
      BY <2>1, <2>2, OneChanges DEF Ended
<1>4. ASSUME NEW u \in Users, liquidate(u, t) PROVE EndsForGood
  <2> DEFINE p == [position[t] EXCEPT !.status = "Liquidated", !.usdc_debt = 0, !.debt_index = BorrowIndexNow]
  <2>1. position' = [position EXCEPT ![t] = p] /\ position[t].status = "Active"
      BY <1>0, <1>4 DEF liquidate, IsActive
  <2>2. p.usdc_debt = 0
      BY <1>0 DEF Positions
  <2> QED
      BY <2>1, <2>2, OneChanges DEF Ended
<1> QED
    BY <1>1, <1>2, <1>3, <1>4

\* No step changes a position that ended.
LEMMA StepEndsForGood ==
    ASSUME Inv, EndedOwesNothing, [Next]_vars
    PROVE  EndsForGood
<1>1. CASE LenderStep
    BY <1>1, NoneChanges DEF LenderStep, supply_usdc, withdraw_supply
<1>2. CASE BorrowerStep
    BY <1>2, CallsEndForGood DEF BorrowerStep
<1>3. CASE KeeperStep
  <2>1. CASE \E u \in Users, t \in Txids : liquidate(u, t)
      BY <2>1, CallsEndForGood
  <2>2. CASE \E u \in Users : keeper_heartbeat(u)
      BY <2>2, NoneChanges DEF keeper_heartbeat
  <2> QED
      BY <1>3, <2>1, <2>2 DEF KeeperStep
<1>4. CASE RelayerStep
    BY <1>4, NoneChanges DEF RelayerStep, publish_release_psbt
<1>5. CASE AdminStep
    BY <1>5, NoneChanges DEF AdminStep, SetConfig, set_paused, set_keeper, set_relayer, set_oracle,
       set_spv_contract, set_max_total_borrowed, set_keeper_stale_window, set_borrow_timelock_margin,
       set_max_tip_age, set_entry_ttl
<1>6. CASE WorldMoves \/ CloseLedger
    BY <1>6, NoneChanges DEF WorldMoves, TipMoves, OtherPoolConsumes, OracleReports, CloseLedger
<1>7. CASE UNCHANGED vars
    BY <1>7, NoneChanges DEF vars
<1> QED
    BY <1>1, <1>2, <1>3, <1>4, <1>5, <1>6, <1>7 DEF Next

\* A position repaid in full or liquidated never changes again and owes nothing,
\* for every set of users, amounts, prices and settings: the relayer may give
\* the Bitcoin of a Closed position back because no later call of lib.rs
\* reopens it.
THEOREM PositionsFinal == Spec => PositionsEndForGood
<1>1. Init => Inv /\ EndedOwesNothing
  <2>1. Init => EndedOwesNothing
      BY DEF Init, NoPosition, EndedOwesNothing, Ended
  <2> QED
      BY <2>1, InitInv
<1>2. Inv /\ EndedOwesNothing /\ [Next]_vars => (Inv /\ EndedOwesNothing)'
  <2>1. Inv /\ EndedOwesNothing /\ [Next]_vars => EndedOwesNothing'
      BY StepEndsForGood DEF EndsForGood, EndedOwesNothing, Ended
  <2> QED
      BY <2>1, NextInv
<1>3. Inv /\ EndedOwesNothing /\ [Next]_vars
        => [\A t \in Txids :
              /\ position[t].status \in {"Closed", "Liquidated"} => position'[t] = position[t]
              /\ position'[t].status \in {"Closed", "Liquidated"} => position'[t].usdc_debt = 0]_vars
    BY StepEndsForGood DEF EndsForGood, Ended
<1> QED
    BY <1>1, <1>2, <1>3, PTL DEF Spec, PositionsEndForGood

-----------------------------------------------------------------------------
(* Accrual over a longer interval never credits less. *)

\* Division rounding down is monotone.
LEMMA DivMonotone ==
    ASSUME NEW a \in Int, NEW c \in Int, NEW b \in Nat \ {0}, a <= c
    PROVE  a \div b <= c \div b
BY DivAtMost, DivBounds

\* A longer interval grows an index at least as far.
LEMMA GrowthMonotone ==
    ASSUME NEW i \in Nat, NEW r \in Int, NEW e \in Nat, NEW f \in Nat, e <= f
    PROVE  grow_index(i, r, e) <= grow_index(i, r, f)
<1> DEFINE D == LEDGERS_PER_YEAR * BP_SCALE
<1>1. CASE e = 0 \/ r <= 0
  <2>1. grow_index(i, r, e) = i
      BY <1>1 DEF grow_index
  <2> QED
      BY <2>1, IndexGrows
<1>2. CASE e > 0 /\ r > 0
  <2>1. D \in Nat \ {0}
      BY RatesAssumption
  <2>2. i * r \in Nat
      BY <1>2
  <2>3. i * r * e \in Nat /\ i * r * f \in Nat /\ i * r * e <= i * r * f
      BY <2>2
  <2>4. (i * r * e) \div D <= (i * r * f) \div D
      BY <2>1, <2>3, DivMonotone
  <2>5. Quot(i * r * e, D) = (i * r * e) \div D /\ Quot(i * r * f, D) = (i * r * f) \div D
      BY <2>1, <2>3 DEF Quot, Magnitude
  <2>6. (i * r * e) \div D \in Int /\ (i * r * f) \div D \in Int
      BY <2>1, <2>3, DivBounds
  <2> QED
      BY <1>2, <2>4, <2>5, <2>6 DEF grow_index, accrue_interest
<1> QED
    BY <1>1, <1>2

\* The lenders' part of more interest is no smaller, nor is the protocol's.
LEMMA SplitMonotone ==
    ASSUME NEW x \in Nat, NEW y \in Nat, x <= y, NEW s \in Nat \ {0}, NEW p \in 0..s
    PROVE  /\ (x * p) \div s <= (y * p) \div s
           /\ x - (x * p) \div s <= y - (y * p) \div s
<1>1. x * p \in Nat /\ y * p \in Nat /\ x * p <= y * p
    OBVIOUS
<1>2. (x * p) \div s <= (y * p) \div s
    BY <1>1, DivMonotone
<1> DEFINE k == y - x
<1>3. k \in Nat /\ k * p <= k * s
    OBVIOUS
<1>4. y * p <= x * p + k * s
    BY <1>3
<1>5. k \in Int
    BY <1>3
<1> HIDE DEF k
<1>6. (y * p) \div s <= (x * p) \div s + k
    BY <1>1, <1>4, <1>5, DivAtMost
<1>7. (y * p) \div s \in Int /\ (x * p) \div s \in Int
    BY <1>1, DivBounds
<1> QED
    BY <1>2, <1>6, <1>7 DEF k

-----------------------------------------------------------------------------
(* The projection as functions of what it starts from.                        *)

Interest(debt, i, j) == IF debt > 0 /\ j > i THEN (debt * (j - i)) \div i ELSE 0

Fee(interest) == (interest * PROTOCOL_FEE_BP) \div BP_SCALE

Kept(reserve, interest) == reserve + Fee(interest)

Credited(scaled, index, interest) ==
    IF scaled > 0 THEN index + ((interest - Fee(interest)) * INDEX_ONE) \div scaled ELSE index

GrownFrom(borrowed, assets, index, elapsed) ==
    grow_index(index, borrow_rate_bp(borrowed, assets), elapsed)

\* The definitions of WritzLend are these functions of the stored state.
LEMMA ProjectionIs ==
    /\ Assets = total_supply_assets(total_scaled_supply, supply_index)
    /\ BorrowIndexNow = GrownFrom(total_borrowed, Assets, borrow_index, Elapsed)
    /\ InterestNow = Interest(total_borrowed, borrow_index, BorrowIndexNow)
    /\ ReserveNow = Kept(reserve_usdc, InterestNow)
    /\ SupplyIndexNow = Credited(total_scaled_supply, supply_index, InterestNow)
BY DEF Assets, BorrowIndexNow, GrownFrom, InterestNow, Interest, ReserveNow, Kept, FeeNow, Fee,
       SupplyIndexNow, Credited

\* A higher index means no less interest.
LEMMA InterestMonotone ==
    ASSUME NEW b \in Int, NEW i \in Nat \ {0}, NEW j \in Nat, NEW k \in Nat, i <= j, j <= k
    PROVE  /\ Interest(b, i, j) \in Nat /\ Interest(b, i, k) \in Nat
           /\ Interest(b, i, j) <= Interest(b, i, k)
<1>1. ASSUME NEW h \in Nat, i <= h PROVE Interest(b, i, h) \in Nat
  <2>1. CASE b > 0 /\ h > i
    <3>1. b * (h - i) \in Nat
        BY <1>1, <2>1
    <3> QED
        BY <2>1, <3>1, DivNat DEF Interest
  <2> QED
      BY <2>1 DEF Interest
<1>2. CASE b > 0 /\ j > i
  <2> DEFINE x == b * (j - i)
             y == b * (k - i)
  <2>1. x \in Int /\ y \in Int /\ x <= y
      BY <1>2
  <2>2. Interest(b, i, j) = x \div i /\ Interest(b, i, k) = y \div i
      BY <1>2 DEF Interest
  <2> HIDE DEF x, y
  <2>3. x \div i <= y \div i
      BY <2>1, DivMonotone
  <2> QED
      BY <1>1, <2>2, <2>3
<1>3. CASE ~(b > 0 /\ j > i)
  <2>1. Interest(b, i, j) = 0
      BY <1>3 DEF Interest
  <2> QED
      BY <1>1, <2>1
<1> QED
    BY <1>1, <1>2, <1>3

\* More interest means no less for the reserve and for the lenders.
LEMMA CreditMonotone ==
    ASSUME NEW x \in Nat, NEW y \in Nat, x <= y, NEW r \in Nat, NEW S \in Int, NEW i \in Nat
    PROVE  Kept(r, x) <= Kept(r, y) /\ Credited(S, i, x) <= Credited(S, i, y)
<1>1. INDEX_ONE \in Nat /\ BP_SCALE \in Nat \ {0} /\ PROTOCOL_FEE_BP \in 0..BP_SCALE
    BY RatesAssumption
<1>2. Fee(x) \in 0..x /\ Fee(y) \in 0..y
    BY <1>1, ShareBounds DEF Fee
<1>3. Fee(x) <= Fee(y) /\ x - Fee(x) <= y - Fee(y)
    BY <1>1, SplitMonotone DEF Fee
<1>4. CASE S > 0
  <2> DEFINE a == x - Fee(x)
             b == y - Fee(y)
  <2>1. a \in Int /\ b \in Int /\ a <= b
      BY <1>2, <1>3
  <2> HIDE DEF a, b
  <2>2. a * INDEX_ONE \in Int /\ b * INDEX_ONE \in Int /\ a * INDEX_ONE <= b * INDEX_ONE
      BY <1>1, <2>1
  <2>3. (a * INDEX_ONE) \div S <= (b * INDEX_ONE) \div S
      BY <1>4, <2>2, DivMonotone
  <2>4. (a * INDEX_ONE) \div S \in Int /\ (b * INDEX_ONE) \div S \in Int
      BY <1>4, <2>2, DivBounds
  <2>5. Credited(S, i, x) = i + (a * INDEX_ONE) \div S /\ Credited(S, i, y) = i + (b * INDEX_ONE) \div S
      BY <1>4 DEF Credited, a, b
  <2> QED
      BY <1>2, <1>3, <2>3, <2>4, <2>5 DEF Kept
<1>5. CASE ~(S > 0)
    BY <1>2, <1>3, <1>5 DEF Kept, Credited
<1> QED
    BY <1>4, <1>5

\* Nothing is credited for an interval in which the borrow index stood still.
LEMMA NothingAccrues ==
    ASSUME NEW b, NEW a, NEW i \in Nat, NEW r \in Nat, NEW S \in Int, NEW j \in Nat
    PROVE  /\ GrownFrom(b, a, i, 0) = i /\ Interest(b, i, i) = 0
           /\ Kept(r, 0) = r /\ Credited(S, j, 0) = j
<1>1. INDEX_ONE \in Nat /\ BP_SCALE \in Nat \ {0} /\ PROTOCOL_FEE_BP \in Nat
    BY RatesAssumption
<1>2. Fee(0) = 0
    BY <1>1 DEF Fee
<1>3. Credited(S, j, 0) = j
    BY <1>1, <1>2 DEF Credited
<1>4. GrownFrom(b, a, i, 0) = i
    BY DEF GrownFrom, grow_index
<1> QED
    BY <1>2, <1>3, <1>4 DEF Interest, Kept

-----------------------------------------------------------------------------
(* What each kind of step does to the projected state. *)

Projected ==
    /\ BorrowIndexNow \in Nat /\ borrow_index <= BorrowIndexNow
    /\ InterestNow \in Nat /\ SupplyIndexNow \in Nat /\ ReserveNow \in Nat
    /\ Elapsed \in Nat
    /\ BorrowIndexNow = GrownFrom(total_borrowed, Assets, borrow_index, Elapsed)
    /\ InterestNow = Interest(total_borrowed, borrow_index, BorrowIndexNow)
    /\ ReserveNow = Kept(reserve_usdc, InterestNow)
    /\ SupplyIndexNow = Credited(total_scaled_supply, supply_index, InterestNow)

\* The invariant gives the projection its types.
LEMMA NowProjected == Inv => Projected
<1> SUFFICES ASSUME Inv PROVE Projected
    OBVIOUS
<1>1. Elapsed \in Nat /\ borrow_index \in Nat
    BY DEF Inv, TypeOK, Elapsed
<1> QED
    BY <1>1, ProjectionIs, Projection DEF Inv, Projected

\* The same of the state after a step.
LEMMA NextProjected ==
    ASSUME Inv'
    PROVE  Projected'
<1>1. (Inv => Projected)'
    BY NowProjected, PTL
<1> QED
    BY <1>1

\* Right after a call that accrued, nothing more has accrued.
LEMMA AccruedIsNow ==
    ASSUME Inv, Inv', AccrueGlobal, ledger' = ledger
    PROVE  /\ BorrowIndexNow' = BorrowIndexNow
           /\ SupplyIndexNow' = SupplyIndexNow
           /\ ReserveNow' = reserve_usdc'
<1>1. /\ borrow_index' = BorrowIndexNow /\ supply_index' = SupplyIndexNow
      /\ borrow_index' \in Nat /\ supply_index' \in Nat /\ reserve_usdc' \in Nat
      /\ total_scaled_supply' \in Int /\ ledger \in Nat
    BY DEF AccrueGlobal, Inv, TypeOK
<1>2. Elapsed' = 0
    BY <1>1 DEF Elapsed, AccrueGlobal
<1>3. Projected'
    BY NextProjected
<1>4. BorrowIndexNow' = borrow_index'
    BY <1>1, <1>2, <1>3, NothingAccrues DEF Projected
<1>5. InterestNow' = 0
    BY <1>1, <1>3, <1>4, NothingAccrues DEF Projected
<1> QED
    BY <1>1, <1>3, <1>4, <1>5, NothingAccrues DEF Projected

accounts == <<reserve_usdc, total_scaled_supply, supply_index, total_borrowed, borrow_index>>

\* A step without a call only lets the running interval grow.
LEMMA LongerInterval ==
    ASSUME Inv, Inv', UNCHANGED accounts, Elapsed <= Elapsed'
    PROVE  /\ BorrowIndexNow <= BorrowIndexNow'
           /\ SupplyIndexNow <= SupplyIndexNow'
           /\ ReserveNow <= ReserveNow'
<1>1. Projected /\ Projected'
    BY NowProjected, NextProjected
<1>2. /\ borrow_index \in Nat \ {0} /\ total_borrowed \in Int /\ supply_index \in Nat
      /\ total_scaled_supply \in Int /\ reserve_usdc \in Nat
    BY RatesAssumption DEF Inv, TypeOK, IndexesPositive
<1>3. Assets' = Assets /\ Assets \in Int
    BY Projection DEF Inv, Assets, accounts, total_supply_assets
<1>4. BorrowIndexNow <= BorrowIndexNow'
  <2>1. borrow_rate_bp(total_borrowed, Assets) \in Int
      BY <1>2, <1>3, RateInt
  <2>2. GrownFrom(total_borrowed, Assets, borrow_index, Elapsed)
          <= GrownFrom(total_borrowed, Assets, borrow_index, Elapsed')
      BY <1>1, <1>2, <2>1, GrowthMonotone DEF GrownFrom, Projected
  <2> QED
      BY <1>1, <1>3, <2>2 DEF Projected, accounts
<1>5. InterestNow <= InterestNow'
    BY <1>1, <1>2, <1>4, InterestMonotone DEF Projected, accounts
<1> QED
    BY <1>1, <1>2, <1>4, <1>5, CreditMonotone DEF Projected, accounts

-----------------------------------------------------------------------------
(* The steps, by what they do to the accounts. *)

LenderCall ==
    \E u \in Users, a \in Int : supply_usdc(u, a) \/ withdraw_supply(u, a)

DebtCall ==
    \E u \in Users, t \in Txids, a \in Int : borrow(u, t, a) \/ repay(t, a) \/ liquidate(u, t)

Quiet ==
    /\ UNCHANGED <<accounts, cash, balance>>
    /\ Elapsed <= Elapsed'
    /\ position' = position \/ \E u \in Users, t \in Txids : deposit(u, t)

\* Every step is a lender's call, a call that moves debt, or neither.
LEMMA StepKinds ==
    ASSUME Inv, [Next]_vars
    PROVE  LenderCall \/ DebtCall \/ Quiet
<1>1. ASSUME NEW l \in Users PROVE ValueNow(l) \in Int
  <2>1. balance[l] \in Nat
      BY DEF Inv, TypeOK
  <2> QED
      BY <2>1, CallFacts, AssetsInt DEF ValueNow, total_supply_assets
<1>2. ASSUME NEW t \in Txids PROVE DebtNow(t) \in Int
    BY CallFacts, DebtNat
<1>3. Elapsed \in Nat /\ ledger \in Nat
    BY DEF Inv, TypeOK, Elapsed
<1>4. ASSUME UNCHANGED <<ledger, proto>> PROVE Elapsed <= Elapsed'
  <2>1. Elapsed' = Elapsed
      BY <1>4 DEF Elapsed, proto
  <2> QED
      BY <1>3, <2>1
<1>5. CASE LenderStep
    BY <1>1, <1>5, InputsAssumption DEF LenderStep, LenderCall
<1>6. CASE BorrowerStep
  <2>1. CASE \E u \in Users, t \in Txids : deposit(u, t)
      BY <1>4, <2>1 DEF Quiet, deposit, accounts, proto
  <2>2. CASE \E u \in Users, t \in Txids, a \in Amounts : borrow(u, t, a)
      BY <2>2, InputsAssumption DEF DebtCall
  <2>3. CASE (\E t \in Txids, a \in Amounts : repay(t, a)) \/ (\E t \in Txids : repay(t, DebtNow(t)))
    <3>1. config.keeper \in Users
        BY DEF Inv, TypeOK, Configs
    <3> QED
        BY <1>2, <2>3, <3>1, InputsAssumption DEF DebtCall
  <2> QED
      BY <1>6, <2>1, <2>2, <2>3 DEF BorrowerStep
<1>7. CASE KeeperStep
  <2>1. CASE \E u \in Users, t \in Txids : liquidate(u, t)
      BY <2>1 DEF DebtCall
  <2>2. CASE \E u \in Users : keeper_heartbeat(u)
    <3>1. Elapsed' = Elapsed
        BY <1>3, <2>2 DEF keeper_heartbeat, Elapsed
    <3> QED
        BY <1>3, <2>2, <3>1 DEF keeper_heartbeat, Quiet, accounts
  <2> QED
      BY <1>7, <2>1, <2>2 DEF KeeperStep
<1>8. CASE RelayerStep
    BY <1>4, <1>8 DEF RelayerStep, publish_release_psbt, Quiet, accounts, proto
<1>9. CASE AdminStep
    BY <1>4, <1>9 DEF AdminStep, SetConfig, set_paused, set_keeper, set_relayer, set_oracle,
       set_spv_contract, set_max_total_borrowed, set_keeper_stale_window, set_borrow_timelock_margin,
       set_max_tip_age, set_entry_ttl, Quiet, accounts, proto
<1>10. CASE WorldMoves
    BY <1>4, <1>10 DEF WorldMoves, TipMoves, OtherPoolConsumes, OracleReports, Quiet, accounts, proto
<1>11. CASE CloseLedger
  <2>1. /\ UNCHANGED <<accounts, cash, balance>> /\ position' = position
        /\ ledger' = ledger + 1 /\ stored' = stored /\ index_ledger' = index_ledger
      BY <1>11 DEF CloseLedger, accounts, proto
  <2>2. index_ledger \in Nat /\ ledger \in Nat
      BY DEF Inv, TypeOK
  <2>3. Elapsed <= Elapsed'
      BY <2>1, <2>2 DEF Elapsed
  <2> QED
      BY <2>1, <2>3 DEF Quiet
<1>12. CASE UNCHANGED vars
    BY <1>4, <1>12 DEF vars, Quiet, accounts, proto
<1> QED
    BY <1>5, <1>6, <1>7, <1>8, <1>9, <1>10, <1>11, <1>12 DEF Next

\* Every call that moves money accrues first; borrowers' calls leave balances alone.
LEMMA CallsAccrue ==
    ASSUME LenderCall \/ DebtCall
    PROVE  AccrueGlobal /\ ledger' = ledger /\ (DebtCall => balance' = balance)
<1>1. ASSUME NEW u, NEW a, supply_usdc(u, a) \/ withdraw_supply(u, a)
      PROVE  AccrueGlobal /\ ledger' = ledger
    BY <1>1 DEF supply_usdc, withdraw_supply
<1>2. ASSUME NEW u, NEW t, NEW a, borrow(u, t, a) \/ repay(t, a) \/ liquidate(u, t)
      PROVE  AccrueGlobal /\ ledger' = ledger /\ balance' = balance
  <2>1. CASE borrow(u, t, a)
      BY <2>1 DEF borrow
  <2>2. CASE repay(t, a)
      BY <2>2 DEF repay
  <2>3. CASE liquidate(u, t)
      BY <2>3 DEF liquidate
  <2> QED
      BY <1>2, <2>1, <2>2, <2>3
<1> QED
    BY <1>1, <1>2 DEF LenderCall, DebtCall

\* No step lowers an index, accrued to the current ledger.
LEMMA IndexesNeverFall ==
    ASSUME Inv, Inv', LenderCall \/ DebtCall \/ Quiet
    PROVE  BorrowIndexNow <= BorrowIndexNow' /\ SupplyIndexNow <= SupplyIndexNow'
<1>1. CASE LenderCall \/ DebtCall
  <2>1. AccrueGlobal /\ ledger' = ledger
      BY <1>1, CallsAccrue
  <2>2. BorrowIndexNow \in Nat /\ SupplyIndexNow \in Nat
      BY NowProjected DEF Projected
  <2> QED
      BY <2>1, <2>2, AccruedIsNow
<1>2. CASE Quiet
    BY <1>2, LongerInterval DEF Quiet
<1> QED
    BY <1>1, <1>2

-----------------------------------------------------------------------------
(* Between lenders. *)

FairStep ==
    \A l \in Users :
        LET gain == ValueNow(l)' - ValueNow(l)
        IN  IF balance'[l] = balance[l] THEN gain >= 0 ELSE gain <= cash' - cash

Value(units, index) == (units * index) \div INDEX_ONE

\* A higher index never lowers the value of a balance.
LEMMA ValueMonotone ==
    ASSUME NEW b \in Nat, NEW i \in Nat, NEW j \in Nat, i <= j
    PROVE  Value(b, i) \in Int /\ Value(b, j) \in Int /\ Value(b, i) <= Value(b, j)
<1>1. b * i \in Int /\ b * j \in Int /\ b * i <= b * j
    OBVIOUS
<1>2. INDEX_ONE \in Nat \ {0}
    BY RatesAssumption
<1> QED
    BY <1>1, <1>2, DivMonotone, DivBounds DEF Value

\* What a step may do to one lender.
LEMMA FairLenders ==
    ASSUME Inv, Inv', LenderCall \/ DebtCall \/ Quiet, NEW l \in Users
    PROVE  /\ ValueNow(l) \in Int /\ ValueNow(l)' \in Int
           /\ IF balance'[l] = balance[l] THEN ValueNow(l) <= ValueNow(l)'
              ELSE ValueNow(l)' <= ValueNow(l) + (cash' - cash)
<1>1. /\ balance[l] \in Nat /\ balance'[l] \in Nat /\ balance \in [Users -> Nat]
      /\ SupplyIndexNow \in Nat /\ SupplyIndexNow' \in Nat /\ cash \in Nat
      /\ SupplyIndexNow <= SupplyIndexNow'
    BY NowProjected, NextProjected, IndexesNeverFall DEF Inv, TypeOK, Projected
<1>2. ValueNow(l) = Value(balance[l], SupplyIndexNow) /\ ValueNow(l)' = Value(balance'[l], SupplyIndexNow')
    BY DEF ValueNow, Value
<1>3. ValueNow(l) \in Int /\ ValueNow(l)' \in Int
    BY <1>1, <1>2, ValueMonotone
<1>4. CASE balance'[l] = balance[l]
    BY <1>1, <1>2, <1>3, <1>4, ValueMonotone
<1>5. CASE balance'[l] # balance[l]
  <2>1. PICK u \in Users, a \in Int : supply_usdc(u, a) \/ withdraw_supply(u, a)
      BY <1>5, CallsAccrue DEF LenderCall, Quiet
  <2>2. SupplyIndexNow' = SupplyIndexNow
      BY <2>1, AccruedIsNow DEF supply_usdc, withdraw_supply
  <2>3. CASE supply_usdc(u, a)
    <3> DEFINE m == (a * INDEX_ONE) \div SupplyIndexNow
    <3>1. balance' = [balance EXCEPT ![u] = @ + m] /\ cash' = cash + a
        BY <2>3 DEF supply_usdc
    <3>2. l = u /\ balance'[l] = balance[l] + m
        BY <1>1, <1>5, <3>1
    <3> HIDE DEF m
    <3>3. Value(balance[l] + m, SupplyIndexNow) <= Value(balance[l], SupplyIndexNow) + a
        BY <1>1, CallFacts, MintCredits DEF Value, total_supply_assets, m
    <3> QED
        BY <1>1, <1>2, <1>3, <1>5, <2>2, <3>1, <3>2, <3>3
  <2>4. CASE withdraw_supply(u, a)
    <3> DEFINE b == burn(u, a)
    <3>1. /\ balance' = [balance EXCEPT ![u] = @ - b] /\ cash' = cash - a
          /\ a \in Nat /\ a <= ValueNow(u)
        BY <2>4 DEF withdraw_supply
    <3>2. l = u /\ balance'[l] = balance[l] - b
        BY <1>1, <1>5, <3>1
    <3>3. b \in 0..balance[l] /\ a * INDEX_ONE <= b * SupplyIndexNow
        BY <3>1, <3>2, CallFacts, BurnBounds
    <3> HIDE DEF b
    <3>4. Value(balance[l] - b, SupplyIndexNow) <= Value(balance[l], SupplyIndexNow) - a
        BY <1>1, <3>1, <3>3, BurnDebits DEF Value, total_supply_assets
    <3> QED
        BY <1>1, <1>2, <1>3, <1>5, <2>2, <3>1, <3>2, <3>4
  <2> QED
      BY <2>1, <2>3, <2>4
<1> QED
    BY <1>3, <1>4, <1>5

\* Every step is fair to every lender.
LEMMA StepIsFair ==
    ASSUME Inv, [Next]_vars
    PROVE  FairStep
<1>1. Inv' /\ (LenderCall \/ DebtCall \/ Quiet)
    BY NextInv, StepKinds
<1>2. cash \in Nat /\ cash' \in Nat
    BY <1>1 DEF Inv, TypeOK
<1> QED
    BY <1>1, <1>2, FairLenders DEF FairStep

\* Whatever anyone calls, a lender who does nothing never loses value, and one
\* who supplies or withdraws never gains at the expense of the others: accrual,
\* minting and burning in lib.rs round toward the pool for every index, amount
\* and number of lenders.
THEOREM LendersFair == Spec => FairShare
<1>1. Init => Inv
    BY InitInv
<1>2. Inv /\ [Next]_vars => Inv'
    BY NextInv
<1>3. Inv /\ [Next]_vars
        => [\A l \in Users :
              LET gain == ValueNow(l)' - ValueNow(l)
              IN  IF balance'[l] = balance[l] THEN gain >= 0 ELSE gain <= cash' - cash]_vars
    BY StepIsFair DEF FairStep
<1> QED
    BY <1>1, <1>2, <1>3, PTL DEF Spec, FairShare

-----------------------------------------------------------------------------
(* Debts. *)

\* Only an open position owes, and no position was touched in the future.
DebtsSound ==
    \A t \in Txids :
        /\ position[t].status # "Active" => position[t].usdc_debt = 0
        /\ position[t].debt_index <= borrow_index

Owed(debt, since, index) == IF debt > 0 /\ since > 0 THEN (debt * index) \div since ELSE debt

\* A higher index never lowers what is owed.
LEMMA OwedMonotone ==
    ASSUME NEW d \in Nat, NEW s \in Nat, NEW i \in Nat, NEW j \in Nat, i <= j
    PROVE  Owed(d, s, i) \in Nat /\ Owed(d, s, j) \in Nat /\ Owed(d, s, i) <= Owed(d, s, j)
<1>1. CASE d > 0 /\ s > 0
  <2>1. d * i \in Nat /\ d * j \in Nat /\ d * i <= d * j
      OBVIOUS
  <2>2. (d * i) \div s \in Nat /\ (d * j) \div s \in Nat
      BY <1>1, <2>1, DivNat
  <2>3. (d * i) \div s <= (d * j) \div s
      BY <1>1, <2>1, DivMonotone
  <2> QED
      BY <1>1, <2>2, <2>3 DEF Owed
<1>2. CASE ~(d > 0 /\ s > 0)
    BY <1>2 DEF Owed
<1> QED
    BY <1>1, <1>2

\* A debt accrued at a later index is no smaller, and right after a call exact.
LEMMA OwedSince ==
    ASSUME NEW d \in Nat, NEW s \in Nat, NEW i \in Nat
    PROVE  (s <= i => d <= Owed(d, s, i)) /\ Owed(d, i, i) = d /\ Owed(0, s, i) = 0
<1>1. ASSUME s <= i PROVE d <= Owed(d, s, i)
  <2>1. CASE d > 0 /\ s > 0
    <3>1. d * i \in Int /\ s * d <= d * i
        BY <1>1
    <3>2. d <= (d * i) \div s
        BY <2>1, <3>1, DivLargest
    <3> QED
        BY <2>1, <3>2 DEF Owed
  <2> QED
      BY <2>1 DEF Owed
<1>2. Owed(d, i, i) = d
  <2>1. CASE d > 0 /\ i > 0
    <3>1. d * i \in Int /\ i * d <= d * i
        OBVIOUS
    <3>2. d <= (d * i) \div i
        BY <2>1, <3>1, DivLargest
    <3>3. (d * i) \div i \in Int /\ i * ((d * i) \div i) <= d * i
        BY <2>1, <3>1, DivBounds
    <3>4. (d * i) \div i <= d
      <4> SUFFICES ASSUME (d * i) \div i >= d + 1 PROVE FALSE
          BY <3>3
      <4>1. i * ((d * i) \div i) >= i * (d + 1)
          BY <2>1, <3>3
      <4> QED
          BY <2>1, <3>3, <4>1
    <3> QED
        BY <2>1, <3>2, <3>3, <3>4 DEF Owed
  <2> QED
      BY <2>1 DEF Owed
<1> QED
    BY <1>1, <1>2 DEF Owed

\* What a call leaves in a position, and what it takes in or pays out.
DebtMoves(t) ==
    LET old == DebtNow(t)
        new == position'[t].usdc_debt
    IN  /\ position'[t].debt_index = BorrowIndexNow
        /\ borrow_index' = BorrowIndexNow /\ BorrowIndexNow' = BorrowIndexNow
        /\ position'[t].status # "Active" => new = 0
        /\ \/ /\ new >= old
              /\ Utxo[t].timelock >= tip[config.spv].height + config.borrow_margin
              /\ ledger <= tip[config.spv].time + config.max_tip_age
           \/ new <= old /\ old - new = (cash' - cash) + (ReserveNow - ReserveNow')

Opened(t) ==
    /\ position[t].status = "None"
    /\ position'[t].usdc_debt = 0 /\ position'[t].debt_index = INDEX_ONE

\* A draw, a repayment or a liquidation moves the debt of one position only, by what is paid.
LEMMA CallMovesDebt ==
    ASSUME Inv, Inv', NEW u \in Users, NEW t \in Txids, NEW a \in Int,
           borrow(u, t, a) \/ repay(t, a) \/ liquidate(u, t)
    PROVE  DebtMoves(t) /\ \A z \in Txids \ {t} : position'[z] = position[z]
<1>1. /\ AccrueGlobal /\ ledger' = ledger
      /\ position \in [Txids -> Positions] /\ position[t] \in Positions
      /\ cash \in Nat /\ DebtNow(t) \in Nat /\ ReserveNow \in Nat
  <2>1. DebtCall
      BY DEF DebtCall
  <2> QED
      BY <2>1, CallsAccrue, DebtNat, NowProjected DEF Inv, TypeOK, Projected
<1>2. BorrowIndexNow' = BorrowIndexNow /\ ReserveNow' = reserve_usdc'
    BY <1>1, AccruedIsNow
<1>b. borrow_index' = BorrowIndexNow
    BY <1>1 DEF AccrueGlobal
<1>3. CASE borrow(u, t, a)
  <2>1. position' = [position EXCEPT ![t].usdc_debt = DebtNow(t) + a, ![t].debt_index = BorrowIndexNow]
      BY <1>3 DEF borrow, debt_after
  <2>2. /\ position'[t].usdc_debt = DebtNow(t) + a /\ position'[t].debt_index = BorrowIndexNow
        /\ position'[t].status = "Active"
        /\ \A z \in Txids \ {t} : position'[z] = position[z]
      BY <1>1, <1>3, <2>1 DEF Positions, borrow, IsActive
  <2>3. a >= 0 /\ fresh_tip /\ timelock_clears(t, config.borrow_margin)
      BY <1>3 DEF borrow
  <2> QED
      BY <1>1, <1>2, <1>b, <2>2, <2>3 DEF DebtMoves, fresh_tip, timelock_clears
<1>4. CASE repay(t, a)
  <2>1. PICK st \in Statuses :
           /\ position' = [position EXCEPT ![t].usdc_debt = DebtNow(t) - a,
                              ![t].debt_index = BorrowIndexNow, ![t].status = st]
           /\ DebtNow(t) - a = 0 \/ st = "Active"
      BY <1>4 DEF repay, Statuses
  <2>2. /\ position'[t].usdc_debt = DebtNow(t) - a /\ position'[t].debt_index = BorrowIndexNow
        /\ position'[t].status = st
        /\ \A z \in Txids \ {t} : position'[z] = position[z]
      BY <1>1, <2>1 DEF Positions
  <2>3. a >= 0 /\ a <= DebtNow(t) /\ cash' = cash + a /\ reserve_usdc' = ReserveNow
      BY <1>4 DEF repay
  <2> QED
      BY <1>1, <1>2, <1>b, <2>1, <2>2, <2>3 DEF DebtMoves
<1>5. CASE liquidate(u, t)
  <2> DEFINE b == bonus_paid(DebtNow(t))
  <2>1. position' = [position EXCEPT ![t].status = "Liquidated", ![t].usdc_debt = 0,
                                    ![t].debt_index = BorrowIndexNow]
      BY <1>5 DEF liquidate
  <2>2. /\ position'[t].usdc_debt = 0 /\ position'[t].debt_index = BorrowIndexNow
        /\ \A z \in Txids \ {t} : position'[z] = position[z]
      BY <1>1, <2>1 DEF Positions
  <2>3. cash' = cash + DebtNow(t) - b /\ reserve_usdc' = ReserveNow - b /\ b \in Nat
      BY <1>1, <1>5, CallFacts, BonusBounds DEF liquidate
  <2> HIDE DEF b
  <2> QED
      BY <1>1, <1>2, <1>b, <2>2, <2>3 DEF DebtMoves
<1> QED
    BY <1>3, <1>4, <1>5

\* A deposit opens one position, without debt.
LEMMA DepositOpens ==
    ASSUME Inv, NEW u \in Users, NEW t \in Txids, deposit(u, t)
    PROVE  Opened(t) /\ \A z \in Txids \ {t} : position'[z] = position[z]
<1>1. position \in [Txids -> Positions]
    BY DEF Inv, TypeOK
<1> QED
    BY <1>1 DEF deposit, Opened

\* Per position, a step is one of three.
LEMMA PerPosition ==
    ASSUME Inv, Inv', LenderCall \/ DebtCall \/ Quiet, NEW t \in Txids
    PROVE  position'[t] = position[t] \/ Opened(t) \/ DebtMoves(t)
<1>1. CASE LenderCall
    BY <1>1 DEF LenderCall, supply_usdc, withdraw_supply
<1>2. CASE DebtCall
    BY <1>2, CallMovesDebt DEF DebtCall
<1>3. CASE Quiet
    BY <1>3, DepositOpens DEF Quiet
<1> QED
    BY <1>1, <1>2, <1>3

SettingsBounded ==
    /\ config.borrow_margin >= DEFAULT_BORROW_TIMELOCK_MARGIN
    /\ config.max_tip_age <= MAX_MAX_TIP_AGE

\* No setter takes the margin or the tip's age out of its bounds.
LEMMA SettingsStayBounded ==
    ASSUME Inv, SettingsBounded, [Next]_vars
    PROVE  SettingsBounded'
<1>1. CASE config' = config
    BY <1>1 DEF SettingsBounded
<1>2. CASE AdminStep
  <2>1. ASSUME NEW c \in Configs, SetConfig(c), c.borrow_margin >= DEFAULT_BORROW_TIMELOCK_MARGIN,
               c.max_tip_age <= MAX_MAX_TIP_AGE
        PROVE  SettingsBounded'
      BY <2>1 DEF SetConfig, SettingsBounded
  <2>2. config \in Configs
      BY DEF Inv, TypeOK
  <2>3. CASE \E v \in BOOLEAN : set_paused(v)
      BY <2>1, <2>2, <2>3 DEF set_paused, Configs, SettingsBounded
  <2>4. CASE (\E u \in Users : set_keeper(u)) \/ (\E u \in Users : set_relayer(u))
      BY <2>1, <2>2, <2>4 DEF set_keeper, set_relayer, Configs, SettingsBounded
  <2>5. CASE (\E o \in Oracles : set_oracle(o)) \/ (\E z \in Spvs : set_spv_contract(z))
      BY <2>1, <2>2, <2>5 DEF set_oracle, set_spv_contract, Configs, SettingsBounded
  <2>6. CASE \E m \in Caps : set_max_total_borrowed(m)
      BY <2>1, <2>2, <2>6, InputsAssumption DEF set_max_total_borrowed, Configs, SettingsBounded
  <2>7. CASE \E w \in StaleWindows : set_keeper_stale_window(w)
      BY <2>1, <2>2, <2>7, InputsAssumption DEF set_keeper_stale_window, Configs, SettingsBounded
  <2>8. CASE \E b \in BorrowMargins : set_borrow_timelock_margin(b)
      BY <2>1, <2>2, <2>8, InputsAssumption DEF set_borrow_timelock_margin, Configs, SettingsBounded
  <2>9. CASE \E g \in TipAges : set_max_tip_age(g)
      BY <2>1, <2>2, <2>9, InputsAssumption DEF set_max_tip_age, Configs, SettingsBounded
  <2>10. CASE \E n \in EntryTtls : set_entry_ttl(n)
      BY <2>1, <2>2, <2>10 DEF set_entry_ttl, Configs, SettingsBounded
  <2> QED
      BY <1>2, <2>3, <2>4, <2>5, <2>6, <2>7, <2>8, <2>9, <2>10 DEF AdminStep
<1>3. CASE LenderStep \/ BorrowerStep
    BY <1>1, <1>3 DEF LenderStep, BorrowerStep, supply_usdc, withdraw_supply, deposit, borrow, repay
<1>4. CASE KeeperStep \/ RelayerStep
    BY <1>1, <1>4 DEF KeeperStep, RelayerStep, liquidate, keeper_heartbeat, publish_release_psbt
<1>5. CASE WorldMoves \/ CloseLedger
    BY <1>1, <1>5 DEF WorldMoves, TipMoves, OtherPoolConsumes, OracleReports, CloseLedger
<1>6. CASE UNCHANGED vars
    BY <1>1, <1>6 DEF vars
<1> QED
    BY <1>2, <1>3, <1>4, <1>5, <1>6 DEF Next

\* No step lowers the stored borrow index.
LEMMA IndexStored ==
    ASSUME Inv, Inv', LenderCall \/ DebtCall \/ Quiet
    PROVE  borrow_index \in Nat /\ borrow_index' \in Nat /\ borrow_index <= borrow_index'
           /\ INDEX_ONE <= borrow_index'
<1>1. borrow_index \in Nat /\ borrow_index' \in Nat /\ INDEX_ONE <= borrow_index'
    BY RatesAssumption DEF Inv, TypeOK, IndexesPositive
<1>2. CASE LenderCall \/ DebtCall
    BY <1>1, <1>2, CallsAccrue, NowProjected DEF AccrueGlobal, Projected
<1>3. CASE Quiet
    BY <1>1, <1>3 DEF Quiet, accounts
<1> QED
    BY <1>1, <1>2, <1>3

\* Ended positions go on owing nothing and no position is ahead of the index.
LEMMA DebtsStaySound ==
    ASSUME Inv, DebtsSound, [Next]_vars
    PROVE  DebtsSound'
<1>1. Inv' /\ (LenderCall \/ DebtCall \/ Quiet)
    BY NextInv, StepKinds
<1>2. SUFFICES ASSUME NEW t \in Txids
      PROVE  /\ position'[t].status # "Active" => position'[t].usdc_debt = 0
             /\ position'[t].debt_index <= borrow_index'
    BY DEF DebtsSound
<1>3. /\ borrow_index \in Nat /\ borrow_index' \in Nat /\ borrow_index <= borrow_index'
      /\ INDEX_ONE <= borrow_index' /\ INDEX_ONE \in Nat
    BY <1>1, IndexStored, RatesAssumption
<1>4. CASE position'[t] = position[t]
  <2>1. position[t].debt_index \in Nat
      BY DEF Inv, TypeOK, Positions
  <2> QED
      BY <1>3, <1>4, <2>1 DEF DebtsSound
<1>5. CASE Opened(t)
    BY <1>3, <1>5 DEF Opened
<1>6. CASE DebtMoves(t)
    BY <1>3, <1>6 DEF DebtMoves
<1> QED
    BY <1>1, <1>4, <1>5, <1>6, PerPosition

DebtStep(t) ==
    /\ DebtNow(t)' < DebtNow(t) =>
          DebtNow(t) - DebtNow(t)' <= (cash' - cash) + (ReserveNow - ReserveNow')
    /\ position'[t].usdc_debt > DebtNow(t) =>
          /\ Utxo[t].timelock >= tip[config.spv].height + config.borrow_margin
          /\ ledger <= tip[config.spv].time + config.max_tip_age

\* Every step moves a debt only by what it paid.
LEMMA DebtsMoveSoundly ==
    ASSUME Inv, DebtsSound, [Next]_vars, NEW t \in Txids
    PROVE  DebtStep(t)
<1>1. Inv' /\ (LenderCall \/ DebtCall \/ Quiet)
    BY NextInv, StepKinds
<1> DEFINE p == position[t]
           q == position'[t]
<1>2. p \in Positions /\ q \in Positions
    BY <1>1 DEF Inv, TypeOK
<1>3. /\ p.usdc_debt \in Nat /\ p.debt_index \in Nat /\ q.usdc_debt \in Nat /\ q.debt_index \in Nat
    BY <1>2 DEF Positions
<1>4. DebtNow(t) = Owed(p.usdc_debt, p.debt_index, BorrowIndexNow)
      /\ DebtNow(t)' = Owed(q.usdc_debt, q.debt_index, BorrowIndexNow')
    BY DEF DebtNow, Owed
<1>5. /\ BorrowIndexNow \in Nat /\ BorrowIndexNow' \in Nat /\ BorrowIndexNow <= BorrowIndexNow'
      /\ borrow_index \in Nat /\ borrow_index <= BorrowIndexNow
    BY <1>1, NowProjected, NextProjected, IndexesNeverFall DEF Projected, Inv, TypeOK
<1>6. p.debt_index <= borrow_index /\ (p.status # "Active" => p.usdc_debt = 0)
    BY DEF DebtsSound
<1> HIDE DEF p, q
<1>7. DebtNow(t) \in Nat /\ DebtNow(t)' \in Nat
  <2>1. /\ Owed(p.usdc_debt, p.debt_index, BorrowIndexNow) \in Nat
        /\ Owed(q.usdc_debt, q.debt_index, BorrowIndexNow') \in Nat
      BY <1>3, <1>5, OwedMonotone
  <2> QED
      BY <1>4, <2>1
<1>8. CASE q = p
  <2>1. DebtNow(t) <= DebtNow(t)'
    <3>1. Owed(p.usdc_debt, p.debt_index, BorrowIndexNow)
            <= Owed(p.usdc_debt, p.debt_index, BorrowIndexNow')
        BY <1>3, <1>5, OwedMonotone
    <3> QED
        BY <1>4, <1>8, <3>1
  <2>2. p.usdc_debt <= DebtNow(t)
      BY <1>3, <1>4, <1>5, <1>6, OwedSince
  <2> QED
      BY <1>3, <1>7, <1>8, <2>1, <2>2 DEF DebtStep, p, q
<1>9. CASE Opened(t)
  <2>1. DebtNow(t) = 0 /\ q.usdc_debt = 0
      BY <1>3, <1>4, <1>5, <1>6, <1>9, OwedSince DEF Opened, p, q
  <2> QED
      BY <1>7, <2>1 DEF DebtStep, q
<1>10. CASE DebtMoves(t)
  <2>1. DebtNow(t)' = q.usdc_debt
      BY <1>3, <1>4, <1>5, <1>10, OwedSince DEF DebtMoves, q
  <2> QED
      BY <1>3, <1>7, <1>10, <2>1 DEF DebtStep, DebtMoves, q
<1> QED
    BY <1>1, <1>8, <1>9, <1>10, PerPosition DEF p, q

\* At first nobody owes and the settings are the constructor's.
LEMMA InitDebts == Init => DebtsSound /\ SettingsBounded
<1> SUFFICES ASSUME Init PROVE DebtsSound /\ SettingsBounded
    OBVIOUS
<1>1. DebtsSound
    BY RatesAssumption DEF Init, NoPosition, DebtsSound
<1>2. SettingsBounded
    BY ConstructorAssumption, InputsAssumption DEF Init, SettingsBounded, Configs
<1> QED
    BY <1>1, <1>2

\* A debt, accrued to the current ledger, is reduced only by USDC somebody paid
\* in or, in a liquidation, by the reserve: no accrual, rounding or call on
\* another position in lib.rs forgives any of it, whatever the rates and amounts.
THEOREM DebtsPaidDown == Spec => DebtFallsOnlyByPayment
<1>1. Init => Inv /\ DebtsSound
    BY InitInv, InitDebts
<1>2. Inv /\ DebtsSound /\ [Next]_vars => (Inv /\ DebtsSound)'
    BY NextInv, DebtsStaySound
<1>3. Inv /\ DebtsSound /\ [Next]_vars
        => [\A t \in Txids :
              DebtNow(t)' < DebtNow(t) =>
                 DebtNow(t) - DebtNow(t)' <= (cash' - cash) + (ReserveNow - ReserveNow')]_vars
    BY DebtsMoveSoundly DEF DebtStep
<1> QED
    BY <1>1, <1>2, <1>3, PTL DEF Spec, DebtFallsOnlyByPayment

TipKnown == tip \in [Spvs -> [height: Int, time: Int]]

\* A tip's height and time stay integers.
LEMMA TipStaysKnown ==
    ASSUME Inv, TipKnown, [Next]_vars
    PROVE  TipKnown'
<1>1. CASE tip' = tip
    BY <1>1 DEF TipKnown
<1>2. CASE WorldMoves
  <2>1. ASSUME NEW z \in Spvs, NEW h \in TipHeights, TipMoves(z, h) PROVE TipKnown'
    <3>1. h \in Int /\ ledger \in Int
        BY InputsAssumption DEF Inv, TypeOK
    <3> QED
        BY <2>1, <3>1 DEF TipMoves, TipKnown
  <2> QED
      BY <1>1, <1>2, <2>1 DEF WorldMoves, OtherPoolConsumes, OracleReports
<1>3. CASE LenderStep \/ BorrowerStep
    BY <1>1, <1>3 DEF LenderStep, BorrowerStep, supply_usdc, withdraw_supply, deposit, borrow, repay, environment
<1>4. CASE KeeperStep \/ RelayerStep
    BY <1>1, <1>4 DEF KeeperStep, RelayerStep, liquidate, keeper_heartbeat, publish_release_psbt, environment
<1>5. CASE AdminStep
    BY <1>1, <1>5 DEF AdminStep, SetConfig, set_paused, set_keeper, set_relayer, set_oracle,
       set_spv_contract, set_max_total_borrowed, set_keeper_stale_window, set_borrow_timelock_margin,
       set_max_tip_age, set_entry_ttl, environment
<1>6. CASE CloseLedger \/ UNCHANGED vars
    BY <1>1, <1>6 DEF CloseLedger, vars, environment
<1> QED
    BY <1>2, <1>3, <1>4, <1>5, <1>6 DEF Next

\* The draw that raised a debt passed the guards on tip and timelock.
LEMMA LoansFarAway ==
    ASSUME Inv, DebtsSound, SettingsBounded, TipKnown, [Next]_vars, NEW t \in Txids,
           position'[t].usdc_debt > DebtNow(t)
    PROVE  /\ Utxo[t].timelock >= tip[config.spv].height + DEFAULT_BORROW_TIMELOCK_MARGIN
           /\ ledger <= tip[config.spv].time + MAX_MAX_TIP_AGE
<1> DEFINE h == tip[config.spv].height
           w == tip[config.spv].time
<1>1. h + config.borrow_margin <= Utxo[t].timelock /\ ledger <= w + config.max_tip_age
    BY DebtsMoveSoundly DEF DebtStep
<1>2. /\ h \in Int /\ w \in Int /\ ledger \in Int /\ Utxo[t].timelock \in Int
      /\ config.borrow_margin \in Int /\ config.max_tip_age \in Int
    BY InputsAssumption DEF Inv, TypeOK, Configs, TipKnown, UtxoFacts
<1>3. /\ DEFAULT_BORROW_TIMELOCK_MARGIN \in Int /\ MAX_MAX_TIP_AGE \in Int
      /\ DEFAULT_BORROW_TIMELOCK_MARGIN <= config.borrow_margin
      /\ config.max_tip_age <= MAX_MAX_TIP_AGE
    BY InputsAssumption DEF SettingsBounded
<1> HIDE DEF h, w
<1>4. h + DEFAULT_BORROW_TIMELOCK_MARGIN <= Utxo[t].timelock /\ ledger <= w + MAX_MAX_TIP_AGE
    BY <1>1, <1>2, <1>3
<1> QED
    BY <1>4 DEF h, w

\* Debt only grows by a draw whose borrower cannot take the Bitcoin back for at
\* least the default margin, measured on a tip no older than the oldest one the
\* admin may allow: no order of set_borrow_timelock_margin, set_max_tip_age and
\* set_spv_contract with deposits and draws gets around it, and neither accrual
\* nor a repayment ever raises a stored debt.
THEOREM LoansLeaveExitFarAway == Spec => LoanLeavesExitFarAway
<1>1. Init => Inv /\ DebtsSound /\ SettingsBounded /\ TipKnown
  <2>1. Init => TipKnown
    <3>1. NoTip \in [height: Int, time: Int]
        BY DEF NoTip
    <3>2. ASSUME NEW x \in [height: TipHeights, time: {0}] PROVE x \in [height: Int, time: Int]
      <4>1. PICK h \in TipHeights : x = [height |-> h, time |-> 0]
          OBVIOUS
      <4>2. h \in Int
          BY InputsAssumption
      <4> QED
          BY <4>1, <4>2
    <3> QED
        BY <3>1, <3>2 DEF Init, TipKnown
  <2> QED
      BY <2>1, InitInv, InitDebts
<1>2. Inv /\ DebtsSound /\ SettingsBounded /\ TipKnown /\ [Next]_vars
        => (Inv /\ DebtsSound /\ SettingsBounded /\ TipKnown)'
    BY NextInv, DebtsStaySound, SettingsStayBounded, TipStaysKnown
<1>3. Inv /\ DebtsSound /\ SettingsBounded /\ TipKnown /\ [Next]_vars
        => [\A t \in Txids :
              position'[t].usdc_debt > DebtNow(t) =>
                 /\ Utxo[t].timelock >= tip[config.spv].height + DEFAULT_BORROW_TIMELOCK_MARGIN
                 /\ ledger <= tip[config.spv].time + MAX_MAX_TIP_AGE]_vars
    BY LoansFarAway
<1> QED
    BY <1>1, <1>2, <1>3, PTL DEF Spec, LoanLeavesExitFarAway

-----------------------------------------------------------------------------
(* The USDC held covers whatever the guards admit. *)

CashCovers ==
    /\ \A a \in Nat : a <= AvailableNow => a <= cash
    /\ \A t \in Txids : bonus_paid(DebtNow(t)) <= cash + DebtNow(t)

\* withdraw_supply and borrow compare the amount with the liquidity they compute
\* and liquidate caps the bonus at the reserve; the token's own balance check
\* behind them never refuses what these admit. It is the part of ExitsStayOpen
\* that depends on the history of calls.
THEOREM CashCoversExits == Spec => []CashCovers
<1>1. Init => Inv
    BY InitInv
<1>2. Inv /\ [Next]_vars => Inv'
    BY NextInv
<1>3. Inv => CashCovers
  <2> SUFFICES ASSUME Inv PROVE CashCovers
      OBVIOUS
  <2>1. /\ AssetsNow \in Int /\ TotalBorrowedNow \in Int /\ ReserveNow \in Nat /\ cash \in Nat
        /\ AssetsNow + ReserveNow <= cash + TotalBorrowedNow
      BY CallFacts DEF Solvent
  <2>2. AvailableNow <= cash /\ AvailableNow \in Int
      BY <2>1 DEF AvailableNow
  <2>3. ASSUME NEW t \in Txids PROVE bonus_paid(DebtNow(t)) <= cash + DebtNow(t)
    <3>1. DebtNow(t) \in Nat /\ bonus_paid(DebtNow(t)) \in 0..DebtNow(t)
        BY CallFacts, DebtNat, BonusBounds
    <3> QED
        BY <2>1, <3>1
  <2> QED
      BY <2>1, <2>2, <2>3 DEF CashCovers
<1> QED
    BY <1>1, <1>2, <1>3, PTL DEF Spec
-----------------------------------------------------------------------------
(* The lenders' claims, together. *)

\* Multiplication distributes over addition.
LEMMA Distributes ==
    ASSUME NEW x \in Int, NEW y \in Int, NEW n \in Int
    PROVE  x * n + y * n = (x + y) * n
OBVIOUS

\* Two parts that fit scaled by d fit together.
LEMMA PartsFit ==
    ASSUME NEW x \in Int, NEW y \in Int, NEW d \in Int, NEW m \in Int, NEW n \in Int,
           d * x <= m, d * y <= n
    PROVE  d * (x + y) <= m + n
OBVIOUS

\* Rounding each share down favours none of them over the whole.
LEMMA TotalOfShares ==
    ASSUME NEW S, IsFiniteSet(S), NEW b \in [S -> Nat], NEW i \in Nat, NEW d \in Nat \ {0},
           NEW v \in [S -> Int], \A l \in S : v[l] = (b[l] * i) \div d,
           NEW G, SumsUp(G, v, SUBSET S)
    PROVE  Total(b, S) \in Int /\ G[S] \in Int /\ G[S] <= (Total(b, S) * i) \div d
<1>1. PICK F : SumsUp(F, b, SUBSET S) /\ Total(b, S) = F[S]
    BY TotalSums
<1>2. Adds(F, b, S) /\ Adds(G, v, S)
  <2>1. b \in [S -> Int]
      OBVIOUS
  <2> QED
      BY <1>1, <2>1, SumStep
<1> DEFINE T == {s \in SUBSET S : d * G[s] <= F[s] * i}
<1>3. {} \in T
    BY <1>2 DEF Adds
<1>4. ASSUME NEW s \in SUBSET S, s # {}, s \ {Picked(s)} \in T PROVE s \in T
  <2> DEFINE p == Picked(s)
             rest == s \ {p}
  <2>1. p \in S /\ rest \in SUBSET S
      BY <1>4, Rest
  <2>2. F[s] = b[p] + F[rest] /\ G[s] = v[p] + G[rest]
      BY <1>2, <1>4 DEF Adds
  <2>3. F[rest] \in Int /\ G[rest] \in Int /\ b[p] \in Nat /\ v[p] \in Int
      BY <1>2, <2>1 DEF Adds
  <2>4. d * G[rest] <= F[rest] * i
      BY <1>4
  <2>5. d * v[p] <= b[p] * i
    <3>1. v[p] = (b[p] * i) \div d /\ b[p] * i \in Int
        BY <2>1, <2>3
    <3> QED
        BY <3>1, DivBounds
  <2> HIDE DEF p, rest
  <2>6. d * (v[p] + G[rest]) <= b[p] * i + F[rest] * i
    <3>1. b[p] * i \in Int /\ F[rest] * i \in Int /\ d \in Int
        BY <2>3
    <3> QED
        BY <2>3, <2>4, <2>5, <3>1, PartsFit
  <2>7. b[p] * i + F[rest] * i = (b[p] + F[rest]) * i
    <3>1. b[p] \in Int /\ F[rest] \in Int /\ i \in Int
        BY <2>3
    <3> QED
        BY <3>1, Distributes, Zenon
  <2> QED
      BY <2>2, <2>6, <2>7
<1> HIDE DEF T
<1>5. S \in T
    BY <1>3, <1>4, SubsetInduction
<1>6. F[S] \in Int /\ G[S] \in Int /\ d * G[S] <= F[S] * i
    BY <1>2, <1>5 DEF T, Adds
<1>7. F[S] * i \in Int
    BY <1>6
<1> QED
    BY <1>1, <1>6, <1>7, DivLargest

\* The shares minted are the shares recorded: the two are never adjusted apart.
SharesAddUp == Total(balance, Users) = total_scaled_supply

\* Every step adjusts a balance and the total by the same amount.
LEMMA SharesStayTrue ==
    ASSUME Inv, SharesAddUp, [Next]_vars
    PROVE  SharesAddUp'
<1>1. Inv' /\ (LenderCall \/ DebtCall \/ Quiet)
    BY NextInv, StepKinds
<1>2. IsFiniteSet(Users) /\ balance \in [Users -> Int] /\ balance' \in [Users -> Int]
    BY <1>1, InputsAssumption DEF Inv, TypeOK
<1>3. CASE UNCHANGED <<balance, total_scaled_supply>>
    BY <1>3 DEF SharesAddUp
<1>4. ASSUME NEW u \in Users, NEW k \in Int, balance' = [balance EXCEPT ![u] = @ + k],
             total_scaled_supply' = total_scaled_supply + k
      PROVE  SharesAddUp'
  <2>1. balance'[u] = balance[u] + k /\ \A y \in Users \ {u} : balance'[y] = balance[y]
      BY <1>2, <1>4
  <2>2. Total(balance', Users) = Total(balance, Users) + (balance'[u] - balance[u])
      BY <1>2, <2>1, TotalChanges
  <2>3. balance[u] \in Int /\ total_scaled_supply \in Int
      BY <1>2 DEF Inv, TypeOK
  <2> QED
      BY <1>4, <2>1, <2>2, <2>3 DEF SharesAddUp
<1>5. CASE LenderCall
  <2>1. PICK u \in Users, a \in Int : supply_usdc(u, a) \/ withdraw_supply(u, a)
      BY <1>5 DEF LenderCall
  <2>2. CASE supply_usdc(u, a)
    <3> DEFINE m == (a * INDEX_ONE) \div SupplyIndexNow
    <3>1. balance' = [balance EXCEPT ![u] = @ + m] /\ total_scaled_supply' = total_scaled_supply + m
        BY <2>2 DEF supply_usdc
    <3>2. m \in Int
      <4>1. a * INDEX_ONE \in Int /\ SupplyIndexNow \in Nat \ {0}
          BY CallFacts
      <4> QED
          BY <4>1, DivBounds
    <3> QED
        BY <1>4, <3>1, <3>2
  <2>3. CASE withdraw_supply(u, a)
    <3> DEFINE k == -burn(u, a)
    <3>1. burn(u, a) \in 0..balance[u] /\ balance[u] \in Nat
        BY <2>3, CallFacts, BurnBounds DEF withdraw_supply, TypeOK
    <3>2. k \in Int /\ total_scaled_supply' = total_scaled_supply + k
        BY <2>3, <3>1 DEF withdraw_supply, Inv, TypeOK
    <3>3. balance' = [balance EXCEPT ![u] = @ + k]
      <4>1. balance' = [balance EXCEPT ![u] = @ - burn(u, a)]
          BY <2>3 DEF withdraw_supply
      <4>2. balance[u] - burn(u, a) = balance[u] + k
          BY <3>1
      <4> QED
          BY <4>1, <4>2
    <3> QED
        BY <1>4, <3>2, <3>3
  <2> QED
      BY <2>1, <2>2, <2>3
<1>6. CASE DebtCall
  <2>1. balance' = balance
      BY <1>6, CallsAccrue
  <2>2. total_scaled_supply' = total_scaled_supply
      BY <1>6 DEF DebtCall, borrow, repay, liquidate
  <2> QED
      BY <1>3, <2>1, <2>2
<1>7. CASE Quiet
    BY <1>3, <1>7 DEF Quiet, accounts
<1> QED
    BY <1>1, <1>5, <1>6, <1>7

\* Before any supply there are no shares.
LEMMA InitShares == Init => SharesAddUp
<1> SUFFICES ASSUME Init PROVE SharesAddUp
    OBVIOUS
<1>1. balance \in [Users -> {0}] /\ total_scaled_supply = 0 /\ IsFiniteSet(Users)
    BY InputsAssumption DEF Init
<1> QED
    BY <1>1, TotalOfZeros DEF SharesAddUp

\* The displayed balances as a function, and their sum as the property has it.
LEMMA ClaimsSum ==
    ASSUME NEW v, v = [l \in Users |-> ValueNow(l)]
    PROVE  \E G : SumsUp(G, v, SUBSET Users) /\ MapThenSumSet(ValueNow, Users) = G[Users]
<1> DEFINE Sums(F) == F = [s \in SUBSET Users |->
                             IF s = {} THEN 0 ELSE ValueNow(Picked(s)) + F[s \ {Picked(s)}]]
           G == CHOOSE F : Sums(F)
<1>1. ASSUME NEW s \in SUBSET Users, s # {} PROVE v[Picked(s)] = ValueNow(Picked(s))
  <2>1. Picked(s) \in Users
      BY <1>1, Rest, InputsAssumption
  <2> QED
      BY <2>1
<1>2. ASSUME NEW F PROVE SumsUp(F, v, SUBSET Users) <=> Sums(F)
  <2>1. [s \in SUBSET Users |-> IF s = {} THEN 0 ELSE v[Picked(s)] + F[s \ {Picked(s)}]]
          = [s \in SUBSET Users |-> IF s = {} THEN 0 ELSE ValueNow(Picked(s)) + F[s \ {Picked(s)}]]
      BY <1>1
  <2> QED
      BY <2>1 DEF SumsUp
<1>3. Sums(G)
  <2>1. \E F : Sums(F)
      BY <1>2, SumsExist, InputsAssumption
  <2> QED
      BY <2>1
<1>4. MapThenSumSet(ValueNow, Users) = G[Users]
    BY DEF MapThenSumSet, MapThenFoldSet, Picked
<1> QED
    BY <1>2, <1>3, <1>4

\* However many lenders there are, and however their supplies, withdrawals and
\* the accruals between them interleave, the balances get_supply_value shows
\* them add up to no more than the pool's supplied assets.
THEOREM ClaimsAreCovered == Spec => []ClaimsCovered
<1>1. Init => Inv /\ SharesAddUp
    BY InitInv, InitShares
<1>2. Inv /\ SharesAddUp /\ [Next]_vars => Inv' /\ SharesAddUp'
    BY NextInv, SharesStayTrue
<1>3. Inv /\ SharesAddUp => ClaimsCovered
  <2> SUFFICES ASSUME Inv, SharesAddUp PROVE ClaimsCovered
      OBVIOUS
  <2> DEFINE v == [l \in Users |-> ValueNow(l)]
  <2>1. /\ balance \in [Users -> Nat] /\ SupplyIndexNow \in Nat /\ INDEX_ONE \in Nat \ {0}
        /\ IsFiniteSet(Users)
      BY CallFacts, InputsAssumption DEF TypeOK
  <2>2. \A l \in Users : v[l] = (balance[l] * SupplyIndexNow) \div INDEX_ONE
      BY DEF ValueNow
  <2>3. v \in [Users -> Int]
    <3>1. ASSUME NEW l \in Users PROVE ValueNow(l) \in Int
      <4>1. balance[l] * SupplyIndexNow \in Int
          BY <2>1
      <4> QED
          BY <2>1, <4>1, DivBounds DEF ValueNow
    <3> QED
        BY <3>1
  <2>4. PICK G : SumsUp(G, v, SUBSET Users) /\ MapThenSumSet(ValueNow, Users) = G[Users]
      BY ClaimsSum
  <2> HIDE DEF v
  <2>5. G[Users] <= (Total(balance, Users) * SupplyIndexNow) \div INDEX_ONE
      BY <2>1, <2>2, <2>3, <2>4, TotalOfShares
  <2> QED
      BY <2>4, <2>5 DEF SharesAddUp, ClaimsCovered, AssetsNow, total_supply_assets
<1> QED
    BY <1>1, <1>2, <1>3, PTL DEF Spec
=============================================================================
