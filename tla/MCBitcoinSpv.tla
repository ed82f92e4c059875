---------------------------- MODULE MCBitcoinSpv ----------------------------
(* Small block trees for BitcoinSpv.                                          *)
EXTENDS BitcoinSpv

CONSTANTS ada, sam, tx, c0, a1, a2, b1, b2, b3, d0, e1, e2, e3, e4, f1, f2, f3

\* The compact forms, in base 4, of the targets 31, 62, 23 and 124 (the easiest).
At31 == 223
At62 == 271
At23 == 215
PowLimitBits == 287

\* A block whose hash meets its target.
Mined(p, bits, stamp) == [prev |-> p, bits |-> bits, time |-> stamp, hash_int |-> 0]

CheckpointAt(b, h) == [height |-> h, block_hash |-> b, bits |-> At31, time |-> 0, period_start_time |-> 0]
AtC == CheckpointAt(c0, 0)
AtD == CheckpointAt(d0, 2)
OnlyD == {AtD}
Both == {AtC, AtD}

\* Below c0, two branches inside one difficulty period; the last block of b is
\* stamped in the future.  Below d0, two branches that cross a retarget with
\* different timestamps: the slow branch e becomes easier (work 67 per block),
\* the quick branch f harder (170).  Block f3 claims the easier difficulty.
Forks == [b \in Blocks |->
    CASE b = c0 -> Mined(NoBlock, At31, 0)
      [] b = a1 -> Mined(c0, At31, 0)   [] b = a2 -> Mined(a1, At31, 0)
      [] b = b1 -> Mined(c0, At31, 0)   [] b = b2 -> Mined(b1, At31, 0)  [] b = b3 -> Mined(b2, At31, 19)
      [] b = d0 -> Mined(NoBlock, At31, 0)
      [] b = e1 -> Mined(d0, At31, 16)  [] b = e2 -> Mined(e1, At62, 17) [] b = e3 -> Mined(e2, At62, 18)
      [] b = e4 -> Mined(e3, At62, 19)
      [] b = f1 -> Mined(d0, At31, 6)   [] b = f2 -> Mined(f1, At23, 7)  [] b = f3 -> Mined(f2, At62, 8)]
============================================================================
