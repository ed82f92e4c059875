------------------------------- MODULE Merkle -------------------------------
(* verify_merkle_inclusion (merkle.rs), one step per loop iteration, behind    *)
(* verify_transaction's check on the transaction's length.  SHA256d is taken   *)
(* as collision-free: the hash of 64 bytes is the pair of their halves, and no *)
(* other hash is a pair.  So a transaction of 64 bytes has a pair for its id,  *)
(* like an inner node, and a block may hold one.                               *)
EXTENDS Integers, Sequences, SequencesExt, FiniteSets

CONSTANTS
    Txs,        \* ids of transactions of any other length than 64 bytes
    Short,      \* ids of 64-byte transactions: pairs of whatever their halves are
    Foreign,    \* the id of a transaction of no block, not 64 bytes long either
    MaxTxs      \* bound on the transactions of a block

VARIABLES
    txs,                    \* the block's transactions, whose root its header commits to
    txid, tx_index, proof,  \* the claim: arguments of the call
    current, index, i,      \* the loop
    result                  \* "running", "Ok", "MerkleProofInvalid", "AmbiguousTransactionLength"

claim == <<txs, txid, tx_index, proof>>
vars == <<claim, current, index, i, result>>

hash_merkle_pair(l, r) == <<l, r>>

\* Bitcoin's tree: each level pairs neighbours, the last of an odd level with
\* itself.  Level 0 is the block's transactions.
LevelAbove(low) ==
    [n \in 1..((Len(low) + 1) \div 2) |->
        hash_merkle_pair(low[2 * n - 1], IF 2 * n <= Len(low) THEN low[2 * n] ELSE low[2 * n - 1])]

Levels(leaves) ==
    LET lev[k \in 0..Len(leaves)] == IF k = 0 THEN leaves ELSE LevelAbove(lev[k - 1])
    IN  lev

Depth(leaves) == CHOOSE k \in 0..Len(leaves) : Len(Levels(leaves)[k]) = 1
                                               /\ \A j \in 0..(k - 1) : Len(Levels(leaves)[j]) > 1
merkle_root(leaves) == Levels(leaves)[Depth(leaves)][1]

Nodes(leaves) == UNION {Range(Levels(leaves)[k]) : k \in 0..Depth(leaves)}

\* Where the transaction at position p has its ancestor on each level.
Ancestors(leaves, p) ==
    LET at[k \in 0..Len(leaves)] == IF k = 0 THEN p ELSE at[k - 1] \div 2
    IN  at

\* The proof an honest caller sends for the transaction at position p.
Siblings(leaves, p) ==
    [k \in 1..Depth(leaves) |->
        LET low == Levels(leaves)[k - 1]
            at == Ancestors(leaves, p)[k - 1]
            sib == IF at % 2 = 1 THEN at - 1 ELSE at + 1
        IN  low[(IF sib < Len(low) THEN sib ELSE at) + 1]]

IsInnerNode(x) == x \notin Txs \union {Foreign}

\* Mutant: transactions of any length are hashed.
length_ok_Any(x) == TRUE

\* raw_tx is 64 bytes long exactly when its hash is a pair.  Nothing looks at the
\* length of the other transactions of the block, nor compares the proof's
\* length with the depth of the tree.
length_ok(x) == ~IsInnerNode(x)

TxLists == UNION {{b \in [1..n -> Txs \union Short] : IsInjective(b)} : n \in 1..MaxTxs}

Init ==
    /\ txs \in TxLists
    /\ txid \in Nodes(txs) \union {Foreign}
    /\ tx_index \in 0..(2 * MaxTxs - 1)
    /\ proof \in BoundedSeq(Nodes(txs) \union {Foreign}, Depth(txs) + 1)
    /\ current = txid /\ index = tx_index /\ i = 0
    /\ result = IF length_ok(txid) THEN "running" ELSE "AmbiguousTransactionLength"

combine(sibling) ==
    IF index % 2 = 1 THEN hash_merkle_pair(sibling, current) ELSE hash_merkle_pair(current, sibling)

Climb ==
    /\ result = "running" /\ i < Len(proof)
    /\ current' = combine(proof[i + 1])
    /\ index' = index \div 2
    /\ i' = i + 1
    /\ UNCHANGED <<claim, result>>

Compare ==
    /\ result = "running" /\ i = Len(proof)
    /\ result' = IF current = merkle_root(txs) THEN "Ok" ELSE "MerkleProofInvalid"
    /\ UNCHANGED <<claim, current, index, i>>

Next == Climb \/ Compare
Spec == Init /\ [][Next]_vars

\* Whatever siblings and index a caller sends, an accepted txid is one of the
\* block's transactions: no inner node and no foreign hash passes.  That is so
\* of the blocks without a 64-byte transaction, whose halves would count as
\* nodes of a level below the leaves.
AcceptedIsInBlock == result = "Ok" => txid \in Range(txs) \/ Range(txs) \intersect Short # {}

\* The sibling path of every transaction, the duplicated last one of an odd
\* level included, is accepted.
GenuineProofAccepted ==
    \A p \in 0..(Len(txs) - 1) :
        txid = txs[p + 1] /\ tx_index = p /\ proof = Siblings(txs, p) => result # "MerkleProofInvalid"
============================================================================
