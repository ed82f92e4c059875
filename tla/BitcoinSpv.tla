----------------------------- MODULE BitcoinSpv -----------------------------
(* The bitcoin-spv contract: an on-chain Bitcoin light client.  Anyone (or    *)
(* one configured submitter) adds headers below an admin-set checkpoint; the  *)
(* contract keeps every valid header, the tip of the heaviest chain and an    *)
(* index from height to block hash, against which verify_transaction proves a *)
(* deposit.  It also keeps the registry of deposits that lending pools share. *)
(* A block stands for its hash and Header for the fields hashed into it; a    *)
(* failed call reverts and is no step.  An archived entry is restored before  *)
(* any call reads it, so the TTL windows are configuration only.              *)
EXTENDS Difficulty, Sequences, SequencesExt

CONSTANTS
    Blocks, NoBlock,
    Header,                 \* per block: prev, bits, time, and its hash as a number
    CheckpointArgs,         \* what an admin may pass to set_checkpoint
    Addresses, NoAddress,   \* callers, pools and submitters
    Txids,
    InitialAdmin,
    POW_LIMIT_BITS,
    MAX_HEADERS_PER_SUBMIT, MAX_REORG_DEPTH, MAX_FUTURE_DRIFT_SECS,
    TtlWindows,             \* windows inside the bounds of set_ttls
    MaxHeight, MaxNow       \* bounds

HeaderFields == [prev: Blocks \union {NoBlock}, bits: Nat, time: Nat, hash_int: Nat]
Heights == 0..MaxHeight

ASSUME SpvAssumption ==
    /\ NoBlock \notin Blocks /\ NoAddress \notin Addresses
    /\ InitialAdmin \in Addresses
    /\ Header \in [Blocks -> HeaderFields]
    /\ U256_MAX \in Nat /\ bits_to_target(POW_LIMIT_BITS) \in 1..U256_MAX
    /\ MAX_HEADERS_PER_SUBMIT \in Nat \ {0} /\ MAX_REORG_DEPTH \in Nat /\ MAX_FUTURE_DRIFT_SECS \in Nat
    /\ CheckpointArgs \subseteq [height: Heights, block_hash: Blocks, bits: Nat, time: Nat, period_start_time: Nat]
    /\ MaxHeight \in Nat /\ MaxNow \in Nat /\ TtlWindows \subseteq Nat /\ TtlWindows # {}

VARIABLES
    config,         \* admin, submitter (NoAddress: everyone), TTL windows
    checkpoint,     \* the arguments of set_checkpoint, or NoCheckpoint
    headers,        \* Header(hash): the entry of each stored block
    canonical,      \* Canonical(height): block hash
    best,           \* BestTip
    consumers,      \* pools that may consume deposits
    consumed,       \* deposit txids consumed
    now             \* ledger time

registry == <<consumers, consumed>>
chain == <<checkpoint, headers, canonical, best>>
vars == <<config, chain, registry, now>>

Configs == [admin: Addresses, submitter: Addresses \union {NoAddress},
            header_ttl_ledgers: TtlWindows, consumed_ttl_ledgers: TtlWindows]

NoCheckpoint == [height |-> -1]
NotStored == [height |-> -1]
NoTip == [hash |-> NoBlock, height |-> -1, chainwork |-> 0]

HasCheckpoint == checkpoint # NoCheckpoint
Stored(hdrs) == {b \in Blocks : hdrs[b] # NotStored}
pow_limit == bits_to_target(POW_LIMIT_BITS)

Init ==
    /\ config \in [admin: {InitialAdmin}, submitter: {NoAddress},
                   header_ttl_ledgers: TtlWindows, consumed_ttl_ledgers: TtlWindows]
    /\ checkpoint = NoCheckpoint
    /\ headers = [b \in Blocks |-> NotStored]
    /\ canonical = [h \in Heights |-> NoBlock]
    /\ best = NoTip
    /\ consumers = {} /\ consumed = {}
    /\ now = 0

-----------------------------------------------------------------------------
(* Administration *)

set_checkpoint(caller, args) ==
    /\ caller = config.admin
    /\ ~HasCheckpoint
    /\ bits_to_target(args.bits) \in 0..pow_limit
    /\ args.period_start_time <= args.time
    /\ checkpoint' = args
    /\ headers' = [headers EXCEPT ![args.block_hash] =
           [prev |-> NoBlock, height |-> args.height, bits |-> args.bits, time |-> args.time,
            period_start_time |-> args.period_start_time, chainwork |-> 0]]
    /\ canonical' = [canonical EXCEPT ![args.height] = args.block_hash]
    /\ best' = [hash |-> args.block_hash, height |-> args.height, chainwork |-> 0]
    /\ UNCHANGED <<config, registry, now>>

SetConfig(caller, new) ==
    /\ caller = config.admin
    /\ config' = new
    /\ UNCHANGED <<chain, registry, now>>

set_admin(caller, new_admin) == SetConfig(caller, [config EXCEPT !.admin = new_admin])

set_submitter(caller, submitter) == SetConfig(caller, [config EXCEPT !.submitter = submitter])

set_ttls(caller, header_ttl, consumed_ttl) ==
    SetConfig(caller, [config EXCEPT !.header_ttl_ledgers = header_ttl,
                                     !.consumed_ttl_ledgers = consumed_ttl])

set_consumer(caller, consumer, allowed) ==
    /\ caller = config.admin
    /\ consumers' = IF allowed THEN consumers \union {consumer} ELSE consumers \ {consumer}
    /\ UNCHANGED <<config, chain, consumed, now>>

consume_deposit(consumer, txid) ==
    /\ consumer \in consumers
    /\ txid \notin consumed
    /\ consumed' = consumed \union {txid}
    /\ UNCHANGED <<config, chain, consumers, now>>

-----------------------------------------------------------------------------
(* submit_headers *)

validate_proof_of_work(b) == Header[b].hash_int < bits_to_target(Header[b].bits)

\* A header is skipped when stored, and otherwise must pass every check.
header_ok(hdrs, b) ==
    \/ b \in Stored(hdrs)
    \/ /\ Header[b].prev \in Stored(hdrs)
       /\ validate_proof_of_work(b)
       /\ LET parent == hdrs[Header[b].prev]
          IN  /\ Header[b].bits = expected_bits(parent, parent.height + 1, pow_limit)
              /\ parent.height < MaxHeight
       /\ Header[b].time <= now + MAX_FUTURE_DRIFT_SECS

\* Mutant: the period start is never moved on.
entry_KeepsPeriod(hdrs, b) ==
    LET parent == hdrs[Header[b].prev] IN
    [prev |-> Header[b].prev, height |-> parent.height + 1, bits |-> Header[b].bits, time |-> Header[b].time,
     period_start_time |-> parent.period_start_time,
     chainwork |-> parent.chainwork + work_from_target(bits_to_target(Header[b].bits))]

entry(hdrs, b) ==
    LET parent == hdrs[Header[b].prev] IN
    [prev |-> Header[b].prev,
     height |-> parent.height + 1,
     bits |-> Header[b].bits,
     time |-> Header[b].time,
     period_start_time |-> IF (parent.height + 1) % RETARGET_INTERVAL = 0
                           THEN Header[b].time ELSE parent.period_start_time,
     chainwork |-> parent.chainwork + work_from_target(bits_to_target(Header[b].bits))]

\* The chain that ends in b, from height lowest to b's own.
Branch(lowest, hdrs, b) ==
    LET up[i \in lowest..hdrs[b].height] ==
          IF i = hdrs[b].height THEN b ELSE hdrs[up[i + 1]].prev
    IN  up

Ancestor(hdrs, b, h) == Branch(checkpoint.height, hdrs, b)[h]

\* Where the walk back from a new tip stops: the highest height whose index
\* entry already is the tip's own ancestor.
fork_height(hdrs, b) ==
    Max({h \in checkpoint.height..hdrs[b].height : canonical[h] = Ancestor(hdrs, b, h)})

heavier(e) == e.chainwork > best.chainwork

\* Mutant: the limit is off by one.
reorg_allowed_OffByOne(rewritten) == rewritten < MAX_REORG_DEPTH

\* Mutant: no limit.
reorg_allowed_Always(rewritten) == TRUE

reorg_allowed(rewritten) == rewritten <= MAX_REORG_DEPTH

\* Mutant: only the tip's own height is indexed.
reindex_TipOnly(hdrs, b) == [canonical EXCEPT ![hdrs[b].height] = b]

\* Index entries above the stopping point are pointed at b's chain.
reindex(hdrs, b) ==
    [h \in Heights |-> IF h \in (fork_height(hdrs, b) + 1)..hdrs[b].height
                       THEN Ancestor(hdrs, b, h) ELSE canonical[h]]

\* The best tip and the index move to b's chain when it is heavier.
adopt(hdrs, b) ==
    \/ /\ ~heavier(hdrs[b])
       /\ UNCHANGED <<canonical, best>>
    \/ /\ heavier(hdrs[b])
       /\ reorg_allowed(hdrs[b].height - fork_height(hdrs, b))
       /\ canonical' = reindex(hdrs, b)
       /\ best' = [hash |-> b, height |-> hdrs[b].height, chainwork |-> hdrs[b].chainwork]

with_header(hdrs, b) == IF b \in Stored(hdrs) THEN hdrs ELSE [hdrs EXCEPT ![b] = entry(hdrs, b)]

\* The stored headers after each header of the batch.
Ingest(batch) ==
    LET after[i \in 0..Len(batch)] == IF i = 0 THEN headers ELSE with_header(after[i - 1], batch[i])
    IN  after

submit_headers(caller, batch) ==
    LET after == Ingest(batch) IN
    /\ HasCheckpoint
    /\ config.submitter \in {NoAddress, caller}
    /\ Len(batch) \in 1..MAX_HEADERS_PER_SUBMIT
    /\ \A i \in 1..Len(batch) : header_ok(after[i - 1], batch[i])
    /\ headers' = after[Len(batch)]
    /\ adopt(after[Len(batch)], batch[Len(batch)])
    /\ UNCHANGED <<config, checkpoint, registry, now>>

-----------------------------------------------------------------------------
\* The checks of verify_transaction before the Merkle proof (see Merkle).
verify_transaction(b, min_confirmations) ==
    /\ min_confirmations > 0
    /\ HasCheckpoint
    /\ b \in Stored(headers)
    /\ headers[b].height > checkpoint.height
    /\ headers[b].height <= best.height
    /\ canonical[headers[b].height] = b
    /\ best.height - headers[b].height + 1 >= min_confirmations

TimePasses == now < MaxNow /\ now' = now + 1 /\ UNCHANGED <<config, chain, registry>>

AdminStep ==
    \E caller \in Addresses :
        \/ \E args \in CheckpointArgs : set_checkpoint(caller, args)
        \/ \E a \in Addresses : set_admin(caller, a)
        \/ \E a \in Addresses \union {NoAddress} : set_submitter(caller, a)
        \/ \E h, c \in TtlWindows : set_ttls(caller, h, c)
        \/ \E a \in Addresses, allowed \in BOOLEAN : set_consumer(caller, a, allowed)

Batches == BoundedSeq(Blocks, MAX_HEADERS_PER_SUBMIT)

Next ==
    \/ AdminStep
    \/ \E a \in Addresses, t \in Txids : consume_deposit(a, t)
    \/ \E a \in Addresses, batch \in Batches : submit_headers(a, batch)
    \/ TimePasses

Spec == Init /\ [][Next]_vars

-----------------------------------------------------------------------------
(* Properties *)

\* lib.rs:306, get_canonical_hash: "Returns the most-work chain's block hash at
\* `height`, if known."  At every height up to the best tip the index holds the
\* best tip's own ancestor, whatever forks came and went.
CanonicalIsBestChain ==
    HasCheckpoint =>
        \A h \in checkpoint.height..best.height : canonical[h] = Ancestor(headers, best.hash, h)

\* Every stored header claims the checkpoint's difficulty: no retarget happened.
OneDifficulty == \A b \in Stored(headers) : headers[b].bits = checkpoint.bits

\* The same, while no retarget has happened.
CanonicalWithinPeriod == OneDifficulty => CanonicalIsBestChain

\* When the difficulty period of b really began, on b's own branch.
PeriodStart(b) ==
    LET first == headers[b].height - (headers[b].height % RETARGET_INTERVAL)
    IN  IF first > checkpoint.height THEN headers[Ancestor(headers, b, first)].time
        ELSE checkpoint.period_start_time

\* Every stored header carries the start of its own branch's difficulty period
\* and the bits Bitcoin's rule gives for it, however the batches of competing
\* branches were mixed.
DifficultyFollowsOwnBranch ==
    \A b \in Stored(headers) : b # checkpoint.block_hash =>
        LET p == headers[b].prev IN
        /\ headers[b].period_start_time = PeriodStart(b)
        /\ headers[b].bits = expected_bits([headers[p] EXCEPT !.period_start_time = PeriodStart(p)],
                                           headers[b].height, pow_limit)

\* A deposit as deep as the reorganisation limit is final: while blocks weigh
\* the same, once a block has MAX_REORG_DEPTH confirmations no later call
\* un-confirms it.
DeepBlocksStay ==
    [][\A b \in Stored(headers) :
         verify_transaction(b, MAX_REORG_DEPTH) /\ OneDifficulty'
            => verify_transaction(b, MAX_REORG_DEPTH)']_vars

\* The height at which two chains part.
ForkPoint(a, b) ==
    Max({h \in checkpoint.height..(IF headers[a].height < headers[b].height
                                   THEN headers[a].height ELSE headers[b].height) :
           Ancestor(headers, a, h) = Ancestor(headers, b, h)})

\* A heavier stored branch that parts from the best chain fewer than
\* MAX_REORG_DEPTH blocks down is never locked out by ReorgTooDeep: some header
\* of it can be resubmitted now and becomes the best tip, while blocks weigh the same.
ShallowForkNotStuck ==
    HasCheckpoint /\ OneDifficulty =>
        \A b \in Stored(headers) :
            heavier(headers[b]) /\ best.height - ForkPoint(best.hash, b) < MAX_REORG_DEPTH =>
                \E h \in ForkPoint(best.hash, b)..headers[b].height :
                    LET a == Ancestor(headers, b, h)
                    IN  heavier(headers[a]) /\ reorg_allowed(h - fork_height(headers, a))
============================================================================
