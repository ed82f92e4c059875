----------------------------- MODULE MCBitcoin -----------------------------
(* Bitcoin as Writz sees it, one component per behaviour: the light client   *)
(* on the block trees of MCBitcoinSpv, its algorithms, and the relayer's     *)
(* proof service against a Bitcoin chain that reorganises.                   *)
EXTENDS MCBitcoinSpv, TLC

CONSTANTS
    Txs, Short, Foreign, MaxTxs, POW_LIMIT, MaxSpan, confirmations,
    DEEP_CONFIRMATION_DEPTH, None, Unknown, MaxBlocks, MaxReorgs, MaxFaults

VARIABLES
    part,           \* the component this behaviour is about
    txs, txid, tx_index, proof, current, index, climbed, result, target, bits,
    bitcoin, lagged, holders, mined, inMempool, lc, lcSeen, build, cached,
    answer, reorgs, faults

\* A block may hold a transaction whose halves are both the foreign one's id.
OneShort == {<<Foreign, Foreign>>}

Algorithms == INSTANCE MCSpvAlgorithms WITH i <- climbed
Proof == INSTANCE SpvProof WITH
    chain <- bitcoin, known <- inMempool

algorithmsVars == <<
    txs, txid, tx_index, proof, current, index, climbed, result, target, bits>>
proofVars == <<
    bitcoin, lagged, holders, mined, inMempool, lc, lcSeen, build, cached,
    answer, reorgs, faults>>
all == <<part, vars, algorithmsVars, proofVars>>

-----------------------------------------------------------------------------
(* The components that are not at work have no state.                    *)
NoAlgorithms ==
    /\ txs = None /\ txid = None /\ tx_index = None /\ proof = None
    /\ current = None /\ index = None /\ climbed = None /\ result = None
    /\ target = None /\ bits = None
NoProof ==
    /\ bitcoin = None /\ lagged = None /\ holders = None /\ mined = None
    /\ inMempool = None /\ lc = None /\ lcSeen = None /\ build = None
    /\ cached = None /\ answer = None /\ reorgs = None /\ faults = None

MCInit ==
    /\ Init
    /\ \/ part = "spv" /\ NoAlgorithms /\ NoProof
       \/ part = "algorithms" /\ Algorithms!MCInit /\ NoProof
       \/ part = "proof" /\ Proof!Init /\ NoAlgorithms

SpvNext ==
    /\ part = "spv" /\ Next
    /\ UNCHANGED <<part, algorithmsVars, proofVars>>

AlgorithmsNext ==
    /\ part = "algorithms" /\ Algorithms!MCNext
    /\ UNCHANGED <<part, vars, proofVars>>

ProofNext ==
    /\ part = "proof" /\ Proof!Next
    /\ UNCHANGED <<part, vars, algorithmsVars>>

MCNext == SpvNext \/ AlgorithmsNext \/ ProofNext

MCSpec == MCInit /\ [][MCNext]_all

-----------------------------------------------------------------------------
ASSUME LimitAssumption == Algorithms!PowLimitAssumption

\* A request asks for a header at least, and a block is final at some depth.
ASSUME ProofAssumption == confirmations \in Nat \ {0} /\ DEEP_CONFIRMATION_DEPTH \in Nat

\* The bounds and the network's limit are numbers.
ASSUME BoundsAssumption == MaxTxs \in Nat /\ POW_LIMIT \in Nat /\ MaxSpan \in Nat

\* difficulty.rs: a target is encoded as the largest representable one below it,
\* and work is floor(2^256 / (target + 1)) in a type that cannot hold 2^256.
TargetsAreExact ==
    part = "algorithms" => Algorithms!EncodesFromBelow /\ Algorithms!WorkIsExact

\* verify_merkle_inclusion: whatever siblings and index a caller sends, an
\* accepted txid is a transaction of the block, unless the block holds one of 64
\* bytes; and every genuine path is accepted, the duplicated last leaf of an odd
\* level included.
InclusionIsExact ==
    part = "algorithms" => Algorithms!AcceptedIsInBlock /\ Algorithms!GenuineProofAccepted

\* spv.ts and routes/proof.ts: a proof that is served as ready is one the light
\* client accepts, or it was put together across a reorganisation.
ServedProofVerifies == part = "proof" => Proof!ServedProofVerifies

=============================================================================
