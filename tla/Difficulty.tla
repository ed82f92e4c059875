----------------------------- MODULE Difficulty -----------------------------
(* bitcoin-spv's difficulty arithmetic (difficulty.rs).  A target is a number  *)
(* of DIGITS digits in base BASE (32 bytes in the code); compact bits hold an  *)
(* exponent, a sign bit and a mantissa of three digits less that bit.          *)
EXTENDS Integers, FiniteSetsExt

CONSTANTS
    BASE,               \* 256
    DIGITS,             \* 32
    RETARGET_INTERVAL,  \* 2016 blocks
    TARGET_TIMESPAN     \* two weeks, in seconds

ASSUME DifficultyAssumption ==
    /\ BASE \in Nat /\ BASE > 1 /\ BASE % 2 = 0
    /\ DIGITS \in Nat /\ DIGITS >= 3
    /\ RETARGET_INTERVAL \in Nat \ {0} /\ TARGET_TIMESPAN \in Nat \ {0}
    /\ TARGET_TIMESPAN % 4 = 0

\* What shifting by n digits multiplies by.
POWER == LET power[n \in Nat] == IF n = 0 THEN 1 ELSE BASE * power[n - 1] IN power

U256_MAX == POWER[DIGITS] - 1
FIELD == POWER[3]           \* exponent is bits \div FIELD
SIGN == FIELD \div 2        \* sign bit, and bound of the mantissa
InvalidDifficultyBits == -1

\* arith_uint256::SetCompact; a negative or overflowing target is refused.
bits_to_target(bits) ==
    LET exponent == bits \div FIELD
        mantissa == bits % SIGN
        negative == (bits \div SIGN) % 2 = 1
        overflow == \/ exponent > DIGITS + 2
                    \/ mantissa > BASE - 1 /\ exponent > DIGITS + 1
                    \/ mantissa > BASE * BASE - 1 /\ exponent > DIGITS
    IN  IF mantissa = 0 THEN 0
        ELSE IF negative \/ overflow THEN InvalidDifficultyBits
        ELSE IF exponent <= 3 THEN mantissa \div POWER[3 - exponent]
        ELSE mantissa * POWER[exponent - 3]

digit_count(target) == Min({n \in 0..DIGITS : target < POWER[n]})

\* Mutant: the sign bit is not kept clear.
target_to_bits_NoSignShift(target) ==
    LET size == digit_count(target)
    IN  IF target = 0 THEN 0
        ELSE size * FIELD + (IF size <= 3 THEN target * POWER[3 - size]
                                          ELSE target \div POWER[size - 3])

\* arith_uint256::GetCompact: three leading digits, moved down by one digit
\* when they would set the sign bit.
target_to_bits(target) ==
    LET size == digit_count(target)
        compact == IF size <= 3 THEN target * POWER[3 - size] ELSE target \div POWER[size - 3]
    IN  IF target = 0 THEN 0
        ELSE IF compact >= SIGN THEN (size + 1) * FIELD + compact \div BASE
        ELSE size * FIELD + compact

work_from_target(target) == (U256_MAX - target) \div (target + 1) + 1

clamped_timespan(seconds) ==
    IF seconds < TARGET_TIMESPAN \div 4 THEN TARGET_TIMESPAN \div 4
    ELSE IF seconds > TARGET_TIMESPAN * 4 THEN TARGET_TIMESPAN * 4
    ELSE seconds

\* The bits a header at height must carry, given its parent's entry.
expected_bits(parent, height, pow_limit) ==
    LET product == bits_to_target(parent.bits) * clamped_timespan(parent.time - parent.period_start_time)
        scaled == product \div TARGET_TIMESPAN
    IN  IF height % RETARGET_INTERVAL # 0 THEN parent.bits
        ELSE IF product <= U256_MAX /\ scaled <= pow_limit THEN target_to_bits(scaled)
        ELSE target_to_bits(pow_limit)
============================================================================
