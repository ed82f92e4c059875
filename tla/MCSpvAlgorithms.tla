-------------------------- MODULE MCSpvAlgorithms --------------------------
(* bitcoin-spv's pure algorithms over bounded inputs.  A behaviour either      *)
(* retargets the difficulty period after period, from any target, or checks    *)
(* one Merkle claim about a block of up to three transactions.                 *)
EXTENDS Difficulty, Merkle

CONSTANTS POW_LIMIT, MaxSpan    \* network limit, bound on a period's length

\* The limits of mainnet and signet leave room for the longest timespan.
PowLimitAssumption == POW_LIMIT * TARGET_TIMESPAN * 4 <= U256_MAX

VARIABLES target, bits      \* a target, and the bits that encode it

retargeting == <<target, bits>>

Representable == {bits_to_target(b) : b \in 0..((DIGITS + 3) * FIELD + FIELD - 1)} \ {InvalidDifficultyBits}

\* A claim that is refused at once, to stand beside the retargets.
Idle ==
    /\ txs = <<>> /\ txid = Foreign /\ tx_index = 0 /\ proof = <<>>
    /\ current = Foreign /\ index = 0 /\ i = 0 /\ result = "MerkleProofInvalid"

MCInit ==
    \/ Idle /\ target \in 0..U256_MAX /\ bits = target_to_bits(target)
    \/ Init /\ target = 0 /\ bits = 0

\* The first header of the next period, which may have taken any time: Bitcoin
\* timestamps may even run backwards.
Retarget ==
    /\ Idle
    /\ target <= POW_LIMIT
    /\ \E span \in -MaxSpan..MaxSpan :
         bits' = expected_bits([bits |-> bits, time |-> span, period_start_time |-> 0],
                               RETARGET_INTERVAL, POW_LIMIT)
    /\ target' = bits_to_target(bits')
    /\ UNCHANGED vars

MCNext == Retarget \/ (Next /\ UNCHANGED retargeting)

all == <<vars, retargeting>>

MCSpec == MCInit /\ [][MCNext]_all

\* Encoding a target loses as little as the format allows: it decodes to the
\* largest representable target that is not above it, so a header mined to the
\* encoded bits never needs less work than the retarget asked for.
EncodesFromBelow ==
    Idle => LET decoded == bits_to_target(bits)
            IN  decoded \in Representable /\ decoded <= target
                /\ \A t \in Representable : t <= target => t <= decoded

\* Work is floor(2^256 / (target + 1)), although 2^256 does not fit a U256.
WorkIsExact == Idle => work_from_target(target) = POWER[DIGITS] \div (target + 1)

============================================================================
