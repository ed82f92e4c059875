----------------------------- MODULE CctpRelay -----------------------------
(* The relayer's CCTP relay (cctp/service.ts): one background job per Stellar  *)
(* burn polls Circle, then mints on Base Sepolia behind one lock, and retries  *)
(* transient failures until a deadline.  Every await of a job is a step of its *)
(* own; records survive a crash, jobs and the lock do not.                     *)
EXTENDS Integers, Sequences, SequencesExt, FiniteSets

CONSTANTS
    Burns,
    Kinds,              \* kinds of burns that occur, see kind
    dailyCap, maxOpen, MINT_LOOKUP_ATTEMPTS,
    None, Other,        \* no mint, a mint somebody else sent
    MaxSends,           \* bound on broadcasts
    MaxReverts,         \* bound on mints that revert for want of gas
    MaxCrashes          \* bound

ASSUME RelayAssumption ==
    /\ Kinds \subseteq {"mint", "foreign", "bad"}
    /\ dailyCap \in Nat /\ maxOpen \in Nat \ {0} /\ MINT_LOOKUP_ATTEMPTS \in Nat \ {0}
    /\ MaxSends \in Nat /\ MaxReverts \in Nat /\ MaxCrashes \in Nat
    /\ IsFiniteSet(Burns) /\ {None, Other} \cap Nat = {} /\ None # Other

VARIABLES
    kind,       \* what a burn is: "mint", "foreign" (no Base Sepolia mint), "bad" (the chain refuses it)
    record,     \* cctp_relays
    pc, queue,  \* the jobs, and who holds or waits for the lock
    tx,         \* per burn, what became of each of the relay's broadcasts
    minter,     \* the transaction that spent the burn's nonce
    unsure,     \* burns with a broadcast the relay does not know of
    reverts, crashes

chainVars == <<tx, minter, reverts>>
vars == <<kind, record, pc, queue, chainVars, unsure, crashes>>

NoRecord == [state |-> "none"]
NewRecord == [state |-> "sent", attestation |-> FALSE, mintHash |-> None, mintedBy |-> "none",
              failureCode |-> "none", retryable |-> FALSE, retryAt |-> "none",
              attempts |-> 0, retryingSince |-> "none", submittedAt |-> "none"]

Known(b) == record[b] # NoRecord
isSettled(r) == r.state \in {"arrived", "failed"}
isRetrying(r) == r.state = "failed" /\ r.retryAt # "none"
Final(b) == record[b].state = "arrived" \/ (record[b].state = "failed" /\ ~isRetrying(record[b]))
jobs == {b \in Burns : pc[b] # "idle"}
isNonceUsed(b) == minter[b] # None

Init ==
    /\ kind \in [Burns -> Kinds]
    /\ record = [b \in Burns |-> NoRecord]
    /\ pc = [b \in Burns |-> "idle"] /\ queue = <<>>
    /\ tx = [b \in Burns |-> <<>>] /\ minter = [b \in Burns |-> None]
    /\ unsure = {} /\ reverts = 0 /\ crashes = 0

-----------------------------------------------------------------------------
(* Outcomes of a job *)

fail(r, code) ==
    [r EXCEPT !.state = "failed", !.failureCode = code, !.retryAt = "none",
              !.retryable = code \notin {"refused", "mint_refused"}]

\* Scheduled for a retry ("transient" stands for the codes that are all retried
\* alike: confirm_timeout, rpc, send_failed, not_mined, reverted, unexpected), or
\* final once the streak has lasted RETRY_GIVE_UP_MS.
transient(r, code) ==
    IF r.retryingSince = "old" THEN fail(r, "gave_up")
    ELSE [r EXCEPT !.state = "failed", !.failureCode = code, !.retryable = TRUE,
                   !.retryAt = IF code = "daily_cap" THEN "midnight" ELSE "later",
                   !.retryingSince = "recent"]

arrived(r, hash, by) ==
    [r EXCEPT !.state = "arrived", !.mintHash = hash, !.mintedBy = by, !.failureCode = "none",
              !.retryable = FALSE, !.retryAt = IF hash = None THEN "later" ELSE "none",
              !.attempts = 0, !.retryingSince = "none"]

EndJob(b, r) ==
    /\ record' = [record EXCEPT ![b] = r]
    /\ pc' = [pc EXCEPT ![b] = "idle"]
    /\ queue' = IF queue # <<>> /\ Head(queue) = b THEN Tail(queue) ELSE queue
    /\ UNCHANGED <<kind, crashes>>

GoTo(b, step) ==
    /\ pc' = [pc EXCEPT ![b] = step]
    /\ UNCHANGED <<kind, record, queue, crashes>>

\* run: straight to the lock once Circle has signed, to Iris before.
run(b, r) ==
    /\ record' = [record EXCEPT ![b] = r]
    /\ pc' = [pc EXCEPT ![b] = IF r.attestation THEN "lock" ELSE "iris"]
    /\ queue' = IF r.attestation THEN Append(queue, b) ELSE queue
    /\ UNCHANGED <<kind, crashes>>

Reopened(r) == [r EXCEPT !.state = IF r.attestation THEN "confirmed" ELSE "sent",
                         !.failureCode = "none", !.retryAt = "none", !.retryable = FALSE]
-----------------------------------------------------------------------------
(* Requests and the sweep *)

startsOver(r) == r.state = "failed" /\ ~isRetrying(r) /\ r.retryable

\* POST /cctp/relay for a burn that is new, or that stopped without refusal;
\* for any other it only reports, or retries what is due.
request(b) ==
    /\ Cardinality(jobs) < maxOpen
    /\ pc[b] = "idle"
    /\ \/ ~Known(b) /\ run(b, NewRecord)
       \/ Known(b) /\ startsOver(record[b])
          /\ run(b, [Reopened(record[b]) EXCEPT !.attempts = 0, !.retryingSince = "none"])
    /\ UNCHANGED <<chainVars, unsure>>

\* Mutant: the streak starts again with every attempt.
resumeFailed_NewStreak(r) == [Reopened(r) EXCEPT !.retryingSince = "none"]

resumeFailed(r) == Reopened(r)

\* The sweep, GET /cctp/relay/:burnHash, or a POST for a transfer whose retry is due.
retry(b) ==
    /\ Known(b) /\ record[b].retryAt = "due"
    /\ pc[b] = "idle" /\ Cardinality(jobs) < maxOpen
    /\ \/ record[b].state = "arrived" /\ GoTo(b, "lookup")
       \/ isRetrying(record[b]) /\ record[b].failureCode = "out_of_gas" /\ GoTo(b, "gas")
       \/ isRetrying(record[b]) /\ record[b].failureCode # "out_of_gas" /\ run(b, resumeFailed(record[b]))
    /\ UNCHANGED <<chainVars, unsure>>

\* resumeFailed after canPayForMint.
CheckGas(b) ==
    /\ pc[b] = "gas"
    /\ \/ run(b, resumeFailed(record[b]))
       \/ EndJob(b, transient(record[b], "out_of_gas"))
    /\ UNCHANGED <<chainVars, unsure>>

-----------------------------------------------------------------------------
(* awaitMessage *)

IrisPending(b) ==
    /\ pc[b] = "iris" /\ record[b].state = "sent"
    /\ record' = [record EXCEPT ![b].state = "confirming"]
    /\ UNCHANGED <<kind, pc, queue, chainVars, unsure, crashes>>

\* Only a Stellar to Base Sepolia USDC mint that anyone may complete.
assertRelayable(b) == kind[b] # "foreign"

IrisComplete(b) ==
    /\ pc[b] = "iris"
    /\ \/ ~assertRelayable(b) /\ EndJob(b, fail(record[b], "refused"))
       \/ assertRelayable(b) /\ run(b, [record[b] EXCEPT !.state = "confirmed", !.attestation = TRUE])
    /\ UNCHANGED <<chainVars, unsure>>

IrisTimeout(b) ==
    /\ pc[b] = "iris"
    /\ \/ record[b].state = "sent" /\ EndJob(b, fail(record[b], "unseen"))
       \/ record[b].state # "sent" /\ EndJob(b, transient(record[b], "transient"))
    /\ UNCHANGED <<chainVars, unsure>>

-----------------------------------------------------------------------------
(* mint, inside the lock *)

\* Mutant: a job does not wait for the lock.
in_turn_Always(b) == TRUE

in_turn(b) == Head(queue) = b

own_broadcast(r) == r.mintHash # None /\ r.mintedBy = "relay"

Lock(b) ==
    /\ pc[b] = "lock" /\ in_turn(b)
    /\ GoTo(b, IF own_broadcast(record[b]) THEN "own" ELSE "nonce")
    /\ UNCHANGED <<chainVars, unsure>>

\* What waitForReceipt says of the transaction the record names.
receipt(b) == LET s == tx[b][record[b].mintHash] IN IF s = "dropped" THEN "pending" ELSE s

OwnReceipt(b) ==
    /\ pc[b] = "own"
    /\ \/ receipt(b) = "success" /\ EndJob(b, arrived(record[b], record[b].mintHash, "relay"))
       \/ receipt(b) = "reverted" /\ GoTo(b, "nonce")
       \/ receipt(b) = "pending" /\ GoTo(b, "own_nonce")
    /\ UNCHANGED <<chainVars, unsure>>

OwnPending(b) ==
    /\ pc[b] = "own_nonce"
    /\ \/ isNonceUsed(b) /\ GoTo(b, "nonce")
       \/ ~isNonceUsed(b) /\ EndJob(b, transient(record[b], "transient"))
    /\ UNCHANGED <<chainVars, unsure>>

SubmittedToday == {b \in Burns : Known(b) /\ record[b].submittedAt = "today"}

CheckNonce(b) ==
    /\ pc[b] = "nonce"
    /\ \/ isNonceUsed(b) /\ GoTo(b, "find")
       \/ ~isNonceUsed(b) /\ Cardinality(SubmittedToday) >= dailyCap
          /\ EndJob(b, transient(record[b], "daily_cap"))
       \/ ~isNonceUsed(b) /\ Cardinality(SubmittedToday) < dailyCap /\ GoTo(b, "simulate")
    /\ UNCHANGED <<chainVars, unsure>>

simulateReceive(b) ==
    /\ pc[b] = "simulate"
    /\ \/ ~isNonceUsed(b) /\ kind[b] = "mint" /\ GoTo(b, "send")
       \/ (isNonceUsed(b) \/ kind[b] = "bad") /\ GoTo(b, "sim_revert")
       \/ GoTo(b, "sim_rpc")
    /\ UNCHANGED <<chainVars, unsure>>

SimulationFailed(b) ==
    /\ pc[b] \in {"sim_revert", "sim_rpc"}
    /\ \/ isNonceUsed(b) /\ GoTo(b, "find")
       \/ ~isNonceUsed(b) /\ pc[b] = "sim_rpc" /\ EndJob(b, transient(record[b], "transient"))
       \/ ~isNonceUsed(b) /\ pc[b] = "sim_revert" /\ EndJob(b, fail(record[b], "mint_refused"))
    /\ UNCHANGED <<chainVars, unsure>>

Sends == UNION {{b} \X DOMAIN tx[b] : b \in Burns}

Broadcast(b) == Cardinality(Sends) < MaxSends /\ tx' = [tx EXCEPT ![b] = Append(@, "pending")]

\* sendReceive: the node takes the transaction, and its answer may be lost.
sendReceive(b) ==
    /\ pc[b] = "send"
    /\ Broadcast(b)
    /\ \/ GoTo(b, "sent") /\ UNCHANGED unsure
       \/ EndJob(b, transient(record[b], "transient")) /\ unsure' = unsure \union {b}
    /\ UNCHANGED <<minter, reverts>>

NotSent(b) ==
    /\ pc[b] = "send"
    /\ \E code \in {"out_of_gas", "transient"} : EndJob(b, transient(record[b], code))
    /\ UNCHANGED <<chainVars, unsure>>

\* Back from the await: the broadcast is recorded.
Submitted(b) ==
    /\ pc[b] = "sent"
    /\ record' = [record EXCEPT ![b].state = "submitted", ![b].mintHash = Len(tx[b]),
                                ![b].mintedBy = "relay", ![b].submittedAt = "today"]
    /\ pc' = [pc EXCEPT ![b] = "receipt"]
    /\ UNCHANGED <<kind, queue, chainVars, unsure, crashes>>

awaitReceipt(b) ==
    /\ pc[b] = "receipt"
    /\ \/ receipt(b) = "success" /\ EndJob(b, arrived(record[b], record[b].mintHash, "relay"))
       \/ receipt(b) = "reverted" /\ GoTo(b, "reverted")
       \/ receipt(b) = "pending" /\ GoTo(b, "not_mined")
    /\ UNCHANGED <<chainVars, unsure>>

NotMined(b) ==
    /\ pc[b] \in {"reverted", "not_mined"}
    /\ \/ isNonceUsed(b) /\ GoTo(b, "find")
       \/ ~isNonceUsed(b) /\ EndJob(b, transient(record[b], "transient"))
    /\ UNCHANGED <<chainVars, unsure>>

\* An RPC read throws: launch's catch schedules a retry.
Throws(b) ==
    /\ pc[b] \in {"own", "own_nonce", "nonce", "sim_revert", "sim_rpc", "receipt", "reverted", "not_mined"}
    /\ EndJob(b, transient(record[b], "transient"))
    /\ UNCHANGED <<chainVars, unsure>>

mintedByOf(hash) == IF hash \in {None, Other} THEN "other" ELSE "relay"

\* Mutant: the relay's own last broadcast is taken for the mint.
findMintTx_OwnLast(b) == IF record[b].mintHash # None THEN record[b].mintHash ELSE minter[b]

findMintTx(b) == minter[b]

\* The RPC and the indexer name the transaction, or neither does.
mintedElsewhere(b) ==
    /\ pc[b] = "find"
    /\ \E found \in {findMintTx(b), None} : EndJob(b, arrived(record[b], found, mintedByOf(found)))
    /\ UNCHANGED <<chainVars, unsure>>

more(attempts) == attempts < MINT_LOOKUP_ATTEMPTS

lookupMintAgain(b) ==
    /\ pc[b] = "lookup"
    /\ LET r == record[b] IN
       \/ EndJob(b, [r EXCEPT !.mintHash = findMintTx(b), !.mintedBy = mintedByOf(findMintTx(b)),
                              !.retryAt = "none", !.attempts = 0])
       \/ EndJob(b, [r EXCEPT !.attempts = r.attempts + 1,
                              !.retryAt = IF more(r.attempts + 1) THEN "later" ELSE "none"])
    /\ UNCHANGED <<chainVars, unsure>>

Job(b) ==
    \/ CheckGas(b) \/ IrisPending(b) \/ IrisComplete(b) \/ IrisTimeout(b)
    \/ Lock(b) \/ OwnReceipt(b) \/ OwnPending(b) \/ CheckNonce(b) \/ simulateReceive(b) \/ SimulationFailed(b)
    \/ sendReceive(b) \/ NotSent(b) \/ Submitted(b) \/ awaitReceipt(b) \/ NotMined(b) \/ Throws(b)
    \/ mintedElsewhere(b) \/ lookupMintAgain(b)
-----------------------------------------------------------------------------
(* Base Sepolia, clocks and crashes *)

\* A pending mint is mined: it spends the nonce, or reverts because the nonce
\* is spent or, rarely, for want of gas.
Mine(b, i) ==
    /\ tx[b][i] = "pending"
    /\ \/ ~isNonceUsed(b) /\ tx' = [tx EXCEPT ![b][i] = "success"]
          /\ minter' = [minter EXCEPT ![b] = i] /\ UNCHANGED reverts
       \/ isNonceUsed(b) /\ tx' = [tx EXCEPT ![b][i] = "reverted"] /\ UNCHANGED <<minter, reverts>>
       \/ ~isNonceUsed(b) /\ reverts < MaxReverts
          /\ tx' = [tx EXCEPT ![b][i] = "reverted"] /\ reverts' = reverts + 1 /\ UNCHANGED minter
    /\ UNCHANGED <<kind, record, pc, queue, unsure, crashes>>

\* The node forgets a pending transaction.
Drop(b, i) ==
    /\ tx[b][i] = "pending"
    /\ tx' = [tx EXCEPT ![b][i] = "dropped"]
    /\ UNCHANGED <<kind, record, pc, queue, minter, reverts, unsure, crashes>>

\* Anyone may complete a transfer Circle has signed.
OtherMints(b) ==
    /\ kind[b] = "mint" /\ ~isNonceUsed(b)
    /\ minter' = [minter EXCEPT ![b] = Other]
    /\ UNCHANGED <<kind, record, pc, queue, tx, reverts, unsure, crashes>>

RetryTimeComes(b) ==
    /\ Known(b) /\ record[b].retryAt = "later"
    /\ record' = [record EXCEPT ![b].retryAt = "due"]
    /\ UNCHANGED <<kind, pc, queue, chainVars, unsure, crashes>>

\* RETRY_GIVE_UP_MS after the first failure of the streak; nothing reads the
\* streak of a final record again.
DeadlinePasses(b) ==
    /\ Known(b) /\ record[b].retryingSince = "recent" /\ ~Final(b)
    /\ record' = [record EXCEPT ![b].retryingSince = "old"]
    /\ UNCHANGED <<kind, pc, queue, chainVars, unsure, crashes>>

Midnight ==
    /\ record' = [b \in Burns |->
           IF ~Known(b) THEN NoRecord
           ELSE [record[b] EXCEPT !.submittedAt = IF @ = "today" THEN "before" ELSE @,
                                  !.retryAt = IF @ = "midnight" THEN "due" ELSE @]]
    /\ record' # record
    /\ UNCHANGED <<kind, pc, queue, chainVars, unsure, crashes>>

listOpen == {b \in Burns : Known(b) /\ ~isSettled(record[b])}

\* The process dies and its successor resumes every open record.
Crash ==
    /\ crashes < MaxCrashes
    /\ crashes' = crashes + 1
    /\ pc' = [b \in Burns |-> IF b \notin listOpen THEN "idle"
                              ELSE IF record[b].attestation THEN "lock" ELSE "iris"]
    /\ queue' \in SetToSeqs({b \in listOpen : record[b].attestation})
    /\ unsure' = unsure \union {b \in Burns : pc[b] = "sent"}
    /\ UNCHANGED <<kind, record, chainVars>>

Next ==
    \/ \E b \in Burns :
         \/ request(b) \/ retry(b) \/ Job(b)
         \/ \E i \in 1..Len(tx[b]) : Mine(b, i) \/ Drop(b, i)
         \/ OtherMints(b) \/ RetryTimeComes(b) \/ DeadlinePasses(b)
    \/ Midnight \/ Crash

\* Jobs run on, clocks move, the chain settles or forgets what it holds, and
\* the sweep finds a free slot again and again.
Fairness ==
    /\ \A b \in Burns :
         /\ WF_vars(Job(b)) /\ SF_vars(retry(b))
         /\ WF_vars(\E i \in 1..Len(tx[b]) : Mine(b, i) \/ Drop(b, i))
         /\ WF_vars(RetryTimeComes(b)) /\ WF_vars(DeadlinePasses(b))
    /\ WF_vars(Midnight)

Spec == Init /\ [][Next]_vars /\ Fairness
-----------------------------------------------------------------------------
(* Properties *)

\* What the app shows as arrived is minted, and the transaction it links to is
\* the one that minted it, whoever sent it and however many the relay sent.
LinkIsTheMint ==
    \A b \in Burns : record[b].state = "arrived" =>
        isNonceUsed(b) /\ record[b].mintHash \in {None, minter[b]}

\* The relay never has two mints of one burn in flight unless it lost the
\* answer to the first, or died before it could record it (service.ts:17, "it
\* never sends a mint it can know to be redundant").
RedundantOnlyIfUnsure ==
    \A b \in Burns : Cardinality({i \in DOMAIN tx[b] : tx[b][i] = "pending"}) > 1 => b \in unsure

\* No day sees more transfers submitted than the cap, although the count is
\* read long before the broadcast is recorded.
CapHolds == Cardinality(SubmittedToday) <= dailyCap

\* A transfer in flight always has a job, after a restart as well: nothing is
\* left at "confirmed" or "submitted" with nobody working on it.
OpenHasJob == \A b \in Burns : Known(b) /\ ~isSettled(record[b]) => b \in jobs

\* Every transfer the relay took on comes to a final answer through failed
\* reads, empty accounts, the daily cap and a crash: retrying always ends.
RetryingEnds == \A b \in Burns : Known(b) ~> Final(b)

\* service.ts:24, "an app that asked once is never left at a dead end": a
\* transfer that can be minted arrives if it is asked for again and again.
AskedAgainArrives ==
    \A b \in Burns : Known(b) /\ kind[b] = "mint" ~> isNonceUsed(b) \/ Cardinality(Sends) = MaxSends
============================================================================
