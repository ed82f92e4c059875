------------------------------ MODULE SpvProof ------------------------------
(***************************************************************************)
(* The proof a deposit is registered with: GET /spv-proof/:txid.           *)
(*                                                                         *)
(* buildSPVProof reads the confirming height, the Bitcoin tip, the Merkle  *)
(* path and the block hashes in separate requests, each answered by the    *)
(* primary Esplora host or, when that one is unavailable, by a fallback    *)
(* that may lag behind it.  The answer is cached: for an hour once the     *)
(* block is DEEP_CONFIRMATION_DEPTH blocks deep, for seconds otherwise.    *)
(* Bitcoin may reorganise between any two of these steps, and the light    *)
(* client on Stellar follows Bitcoin with a delay of its own.              *)
(*                                                                         *)
(* A block is a number, never used twice; holders are the blocks that      *)
(* contain the deposit transaction, and a Merkle path is named after the   *)
(* block it leads to.                                                      *)
(***************************************************************************)
EXTENDS Integers, Sequences

CONSTANTS
    confirmations,              \* headers a request asks for
    DEEP_CONFIRMATION_DEPTH,
    None,                       \* nothing read, nothing cached
    Unknown,                    \* an undefined light-client tip
    MaxBlocks,                  \* bound on the blocks ever mined
    MaxReorgs,                  \* bound on the reorganisations
    MaxFaults                   \* bound on requests the primary host fails

VARIABLES
    chain,      \* Bitcoin's best chain, from height 1
    lagged,     \* the chain the fallback host knows
    holders,    \* the blocks that contain the transaction
    mined,      \* blocks mined so far
    known,      \* the transaction has been broadcast
    lc,         \* the chain the bitcoin-spv contract holds
    lcSeen,     \* the light-client tip height the route has cached
    build,      \* the proof being built, or None
    cached,      \* the cached answer, or None
    answer,     \* the last answer sent
    reorgs, faults

vars == <<chain, lagged, holders, mined, known, lc, lcSeen, build, cached,
          answer, reorgs, faults>>

bitcoin == <<chain, lagged, holders, mined, known, reorgs>>

(* The service starts before the transaction is sent, or after it was      *)
(* mined and followed by a block.                                          *)
Init ==
    /\ \/ known = FALSE /\ chain = <<1>> /\ holders = {}
       \/ known = TRUE /\ chain = <<1, 2, 3>> /\ holders = {2}
    /\ lagged = chain /\ mined = Len(chain)
    /\ lc = <<1>> /\ lcSeen = Unknown
    /\ build = None /\ cached = None /\ answer = None
    /\ reorgs = 0 /\ faults = 0

-----------------------------------------------------------------------------
(* Bitcoin, its indexers and the light client.                             *)

IsPrefixOf(s, t) == Len(s) <= Len(t) /\ s = SubSeq(t, 1, Len(s))

Confirmed(c) == \E h \in 1..Len(c) : c[h] \in holders
HeightIn(c) == CHOOSE h \in 1..Len(c) : c[h] \in holders

(* The transaction is broadcast and waits to be mined.                     *)
Broadcast ==
    /\ ~known /\ known' = TRUE
    /\ UNCHANGED <<chain, lagged, holders, mined, lc, lcSeen, build, cached,
                   answer, reorgs, faults>>

(* A block extends the chain, with the transaction or without.             *)
Mine ==
    /\ mined < MaxBlocks
    /\ mined' = mined + 1
    /\ lagged' = chain
    /\ chain' = Append(chain, mined + 1)
    /\ \/ holders' = holders
       \/ known /\ ~Confirmed(chain) /\ holders' = holders \union {mined + 1}
    /\ UNCHANGED <<known, lc, lcSeen, build, cached, answer, reorgs, faults>>

(* A heavier branch replaces the last blocks, fewer than the depth from    *)
(* which the code takes a block to be final.  The transaction may return   *)
(* in any block of the branch, or in none.  A build under way and a        *)
(* shallow cached proof may now mix the two branches.                      *)
Reorg(n) ==
    /\ reorgs < MaxReorgs /\ n < Len(chain) /\ mined + n + 1 <= MaxBlocks
    /\ LET stays == SubSeq(chain, 1, Len(chain) - n)
           fresh == [i \in 1..(n + 1) |-> mined + i]
       IN /\ chain' = stays \o fresh
          /\ \/ holders' = holders
             \/ /\ known /\ ~Confirmed(stays)
                /\ \E b \in mined + 1 .. mined + n + 1 :
                      holders' = holders \union {b}
    /\ mined' = mined + n + 1
    /\ lagged' = chain
    /\ reorgs' = reorgs + 1
    /\ build' = IF build = None THEN None ELSE [build EXCEPT !.clean = FALSE]
    /\ cached' = IF cached = None \/ cached.ttl = "long" THEN cached
                ELSE [cached EXCEPT !.clean = FALSE]
    /\ UNCHANGED <<known, lc, lcSeen, answer, faults>>

FallbackCatchesUp ==
    /\ lagged # chain /\ lagged' = chain
    /\ UNCHANGED <<chain, holders, mined, known, lc, lcSeen, build, cached,
                   answer, reorgs, faults>>

(* The header sync submits more of the best chain (HeaderSync).            *)
LightClientSyncs ==
    /\ lc # chain
    /\ \E n \in 1..Len(chain) :
          /\ n > Len(lc)
          /\ lc' = SubSeq(chain, 1, n)
    /\ UNCHANGED <<bitcoin, lcSeen, build, cached, answer, faults>>

(* cachedTipReader: one read of the tip serves every request for a while.  *)
(* A failed read is cached in the same way, as undefined.                  *)
cachedTipReader ==
    /\ \/ lcSeen' = Len(lc)
       \/ faults < MaxFaults /\ lcSeen' = Unknown
    /\ lcSeen' # lcSeen
    /\ faults' = IF lcSeen' = Unknown THEN faults + 1 ELSE faults
    /\ UNCHANGED <<bitcoin, lc, build, cached, answer>>

-----------------------------------------------------------------------------
(* Building a proof.                                                       *)

(* EsploraClient.request: c is the chain of the host that answers, the     *)
(* primary, or the fallback once the primary has failed its retries.       *)
request(c) ==
    \/ c = chain /\ UNCHANGED faults
    \/ c = lagged /\ faults < MaxFaults /\ faults' = faults + 1

(* Both hosts are unavailable: 503, and nothing is cached.                 *)
upstreamUnavailable ==
    /\ build # None /\ build.at # "done" /\ faults < MaxFaults
    /\ faults' = faults + 1
    /\ build' = None /\ answer' = [status |-> 503, good |-> TRUE]
    /\ UNCHANGED <<bitcoin, lc, lcSeen, cached>>

(* An answer the build cannot use: a Merkle path of a transaction that was *)
(* reorganised away, or a height the host does not have: 502, not cached.  *)
fails502 == build' = None /\ answer' = [status |-> 502, good |-> TRUE]

keep(b) == build' = b /\ UNCHANGED answer

(* A miss starts one build; others of the same key wait for the same one.  *)
startBuild ==
    /\ build = None /\ cached = None
    /\ build' = [at |-> "info", height |-> None, tip |-> None, path |-> None,
                 hashes |-> << >>, clean |-> TRUE]
    /\ UNCHANGED <<bitcoin, lc, lcSeen, cached, answer, faults>>

(* What is cached for seconds: not known, not confirmed, not deep enough.  *)
notYet(status) ==
    /\ build' = None
    /\ cached' = [status |-> status, proof |-> None, ttl |-> "short",
                 clean |-> TRUE]

(* A read from a host that lags behind the primary is not clean either.    *)
cleanAfter(c) == build.clean /\ c = chain

getTxInfo ==
    /\ build # None /\ build.at = "info"
    /\ \E c \in {chain, lagged} :
          /\ request(c)
          /\ IF Confirmed(c)
             THEN /\ build' = [build EXCEPT !.at = "tip", !.height = HeightIn(c),
                                            !.clean = cleanAfter(c)]
                  /\ UNCHANGED cached
             ELSE notYet(404)
    /\ UNCHANGED <<bitcoin, lc, lcSeen, answer>>

available(tip, height) == tip - height + 1

getTipHeight ==
    /\ build # None /\ build.at = "tip"
    /\ \E c \in {chain, lagged} :
          /\ request(c)
          /\ IF available(Len(c), build.height) < confirmations
             THEN notYet(409)
             ELSE /\ build' = [build EXCEPT !.at = "path", !.tip = Len(c),
                                            !.clean = cleanAfter(c)]
                  /\ UNCHANGED cached
    /\ UNCHANGED <<bitcoin, lc, lcSeen, answer>>

(* The raw transaction is the same in every block; the path is the one of  *)
(* the block that holds the transaction now.  Its block_height is not      *)
(* compared with the height read first.                                    *)
getMerkleProof ==
    /\ build # None /\ build.at = "path"
    /\ \E c \in {chain, lagged} :
          /\ request(c)
          /\ IF Confirmed(c)
             THEN keep([build EXCEPT !.at = "hashes", !.path = c[HeightIn(c)],
                                     !.clean = cleanAfter(c)])
             ELSE fails502
    /\ UNCHANGED <<bitcoin, lc, lcSeen, cached>>

(* The block hashes are asked for together and answered each at its own    *)
(* time, here in the order of their heights: the contract looks at the     *)
(* first alone.  The headers follow from the hashes.                       *)
getBlockHashAtHeight ==
    /\ build # None /\ build.at = "hashes"
    /\ LET h == build.height + Len(build.hashes) IN
       \E c \in {chain, lagged} :
          /\ request(c)
          /\ IF h <= Len(c)
             THEN keep([build EXCEPT
                    !.hashes = Append(@, c[h]),
                    !.at = IF Len(build.hashes) + 1 = confirmations
                           THEN "done" ELSE "hashes",
                    !.clean = cleanAfter(c)])
             ELSE fails502
    /\ UNCHANGED <<bitcoin, lc, lcSeen, cached>>

isDeep(b) == available(b.tip, b.height) >= DEEP_CONFIRMATION_DEPTH

computeProof ==
    /\ build # None /\ build.at = "done"
    /\ cached' = [status |-> 200,
                 proof |-> [path |-> build.path, hashes |-> build.hashes,
                            height |-> build.height],
                 ttl |-> IF isDeep(build) THEN "long" ELSE "short",
                 clean |-> build.clean]
    /\ build' = None
    /\ UNCHANGED <<bitcoin, lc, lcSeen, answer, faults>>

(* A cached answer expires, is evicted, or is lost with the process.       *)
CacheExpires ==
    /\ cached # None /\ cached' = None
    /\ UNCHANGED <<bitcoin, lc, lcSeen, build, answer, faults>>

-----------------------------------------------------------------------------
(* Answering.                                                              *)

(* What verify_transaction requires of a proof: the block is stored, deep  *)
(* enough, on the contract's own chain, and the path leads to its root.    *)
verifies(p) ==
    /\ p.height + confirmations - 1 <= Len(lc)
    /\ lc[p.height] = p.hashes[1]
    /\ p.path = p.hashes[1]

(* Mutant: a proof is served once Bitcoin has buried it.                   *)
lightClientHolds_Unasked(p) == TRUE

lightClientHolds(p) ==
    lcSeen = Unknown \/ lcSeen >= p.height + confirmations - 1

(* good: the answer is a proof the contract accepts now, or nothing says   *)
(* it should be: the tip was not read, the light client sits on a branch   *)
(* that lost, or the proof was disturbed by a reorganisation or a lagging  *)
(* host while it was built or while it was cached as shallow.              *)
Answer ==
    /\ cached # None
    /\ answer' =
         IF cached.status # 200 THEN [status |-> cached.status, good |-> TRUE]
         ELSE IF ~lightClientHolds(cached.proof)
         THEN [status |-> 409, good |-> TRUE]
         ELSE [status |-> 200,
               good |-> \/ lcSeen = Unknown
                        \/ ~IsPrefixOf(lc, chain)
                        \/ ~cached.clean
                        \/ verifies(cached.proof)]
    /\ UNCHANGED <<bitcoin, lc, lcSeen, build, cached, faults>>

Next ==
    \/ Broadcast
    \/ Mine
    \/ \E n \in 1..(DEEP_CONFIRMATION_DEPTH - 1) : Reorg(n)
    \/ FallbackCatchesUp
    \/ LightClientSyncs
    \/ cachedTipReader
    \/ startBuild
    \/ upstreamUnavailable
    \/ getTxInfo
    \/ getTipHeight
    \/ getMerkleProof
    \/ getBlockHashAtHeight
    \/ computeProof
    \/ CacheExpires
    \/ Answer

Spec == Init /\ [][Next]_vars

-----------------------------------------------------------------------------
(* A proof that is answered with 200 is one the light client accepts when  *)
(* the caller submits it: the path leads to the root of the block it       *)
(* names, which the contract stores deep enough.  This holds for a proof   *)
(* cached for an hour through every later reorganisation shorter than the  *)
(* final depth; only a reorganisation or a lagging fallback host during    *)
(* the build itself (the height, the path and the hashes are read at       *)
(* different times), a shallow proof overtaken in its short time, or a     *)
(* light client on a losing branch can make it useless.                    *)
ServedProofVerifies == answer # None => answer.good

=============================================================================
