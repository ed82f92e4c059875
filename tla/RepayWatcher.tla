---------------------------- MODULE RepayWatcher ----------------------------
(* The relayer's repay watcher: it reads repay_full events of writz-lend from  *)
(* a persisted cursor, records each as a pending release in the transaction    *)
(* that advances the cursor, and publishes the pending releases one by one     *)
(* with retries.  The process may crash between any two awaits; the database,  *)
(* the chain and a transaction in the network's queue survive.                 *)
EXTENDS Integers, Sequences, SequencesExt, FiniteSets

CONSTANTS
    Txids,                  \* positions
    Unsignable,             \* positions the handler can never sign (script mismatch)
    MAX_RELEASE_ATTEMPTS,   \* 24
    PUBLISH_RETRIES,        \* 2
    DueLimit,               \* rows taken per sweep (10)
    NoTxid,
    MaxCrashes              \* bound

ASSUME WatcherAssumption ==
    /\ IsFiniteSet(Txids)
    /\ Unsignable \subseteq Txids /\ NoTxid \notin Txids
    /\ MAX_RELEASE_ATTEMPTS \in Nat \ {0} /\ PUBLISH_RETRIES \in Nat
    /\ DueLimit \in Nat \ {0} /\ MaxCrashes \in Nat

VARIABLES
    \* the chain
    log,            \* events of writz-lend, oldest first
    publishes,      \* how often publish_release_psbt landed, per position
    queued,         \* the position whose publish waits in the network's queue
    \* watcher.db
    cursor,         \* events read; 0 starts at WRITZ_LEND_DEPLOY_LEDGER
    rows,           \* pending_releases
    \* the process
    pc, todo, attempt, fate,
    unsure,         \* positions with an attempt that ended before its transaction did
    crashes

chainVars == <<log, publishes, queued>>
dbVars == <<cursor, rows>>
procVars == <<pc, todo, attempt, fate>>
vars == <<chainVars, dbVars, procVars, unsure, crashes>>

NoRow == [attempts |-> -1, backoff |-> FALSE, first_seen |-> 0]
Row(seen) == [attempts |-> 0, backoff |-> FALSE, first_seen |-> seen]
Pending == {t \in Txids : rows[t] # NoRow}

Init ==
    /\ log = <<>>
    /\ publishes = [t \in Txids |-> 0]
    /\ queued = NoTxid
    /\ cursor = 0
    /\ rows = [t \in Txids |-> NoRow]
    /\ pc = "down" /\ todo = <<>> /\ attempt = 0 /\ fate = "none"
    /\ unsure = {} /\ crashes = 0

-----------------------------------------------------------------------------
(* The chain *)

\* An active position ends once, by full repayment or by liquidation.
PositionEnds(t, topic) ==
    /\ \A i \in 1..Len(log) : log[i].txid # t
    /\ log' = Append(log, [topic |-> topic, txid |-> t])
    /\ UNCHANGED <<publishes, queued, dbVars, procVars, unsure, crashes>>

\* The queued publish lands; the contract overwrites an earlier one.
Land ==
    /\ queued # NoTxid
    /\ publishes' = [publishes EXCEPT ![queued] = @ + 1]
    /\ queued' = NoTxid
    /\ fate' = IF fate = "queued" THEN "landed" ELSE fate
    /\ UNCHANGED <<log, dbVars, pc, todo, attempt, unsure, crashes>>

\* Its validity window ends first, or the network drops it.
Expire ==
    /\ queued # NoTxid
    /\ queued' = NoTxid
    /\ fate' = IF fate = "queued" THEN "expired" ELSE fate
    /\ UNCHANGED <<log, publishes, dbVars, pc, todo, attempt, unsure, crashes>>

-----------------------------------------------------------------------------
(* runPollCycle *)

\* Mutant: every event of the contract counts as a repayment.
repaid_AnyTopic(from, to) == {log[i].txid : i \in (from + 1)..to}

repaid(from, to) == {log[i].txid : i \in {j \in (from + 1)..to : log[j].topic = "repay_full"}}

\* Mutant: the cursor moves, the rows are written elsewhere.
recordBatch_CursorOnly(txids, new) == cursor' = new /\ UNCHANGED rows

\* INSERT OR IGNORE and the cursor in one transaction.
recordBatch(txids, new) ==
    /\ rows' = [t \in Txids |-> IF t \in txids /\ t \notin Pending THEN Row(new) ELSE rows[t]]
    /\ cursor' = new

\* One page of events.  A failed read or write changes nothing and is retried.
runPollCycle ==
    /\ pc = "poll"
    /\ \E new \in cursor..Len(log) : recordBatch(repaid(cursor, new), new)
    /\ pc' = "sweep"
    /\ UNCHANGED <<chainVars, todo, attempt, fate, unsure, crashes>>

-----------------------------------------------------------------------------
(* runReleaseSweep *)

\* Mutant: a row that failed once is not taken again.
due_FirstTryOnly == {t \in Pending : rows[t].attempts = 0}

due == {t \in Pending : ~rows[t].backoff /\ rows[t].attempts < MAX_RELEASE_ATTEMPTS}

\* ORDER BY first_seen_at, txid LIMIT: rows of one batch in some fixed order.
runReleaseSweep ==
    /\ pc = "sweep"
    /\ \E order \in SetToSeqs(due) :
         /\ \A i, j \in 1..Len(order) : i < j => rows[order[i]].first_seen <= rows[order[j]].first_seen
         /\ todo' = SubSeq(order, 1, IF Len(order) < DueLimit THEN Len(order) ELSE DueLimit)
    /\ pc' = "row"
    /\ UNCHANGED <<chainVars, dbVars, attempt, fate, unsure, crashes>>

NextRow ==
    /\ pc = "row"
    /\ pc' = IF todo = <<>> THEN "poll" ELSE "read"
    /\ attempt' = 0
    /\ UNCHANGED <<chainVars, dbVars, todo, fate, unsure, crashes>>

\* The row is done with for this sweep.
LeaveRow == pc' = "row" /\ todo' = Tail(todo) /\ UNCHANGED attempt

\* The whole handler is retried promptly before the row is marked failed.
Mark == [rows EXCEPT ![Head(todo)] =
            [attempts |-> @.attempts + 1, backoff |-> TRUE, first_seen |-> @.first_seen]]

AttemptFails ==
    \/ /\ attempt < PUBLISH_RETRIES
       /\ attempt' = attempt + 1 /\ pc' = "read"
       /\ UNCHANGED <<rows, todo>>
    \/ /\ attempt = PUBLISH_RETRIES
       /\ rows' = Mark
       /\ LeaveRow

needs_publish(t) == publishes[t] = 0

\* handleRepayFull up to the read of get_release_psbt.
ReadRelease ==
    /\ pc = "read"
    /\ pc' = IF needs_publish(Head(todo)) THEN "send" ELSE "confirm"
    /\ UNCHANGED <<chainVars, dbVars, todo, attempt, fate, unsure, crashes>>

\* A read, the script check, Esplora or the signer fails.
ReadFails ==
    /\ pc \in {"read", "send"}
    /\ AttemptFails
    /\ UNCHANGED <<chainVars, cursor, fate, unsure, crashes>>

\* Script check, signature and signAndSend.  A transaction still queued holds
\* the sequence number this one is built from, and the network refuses it.
Publish ==
    /\ pc = "send"
    /\ Head(todo) \notin Unsignable
    /\ queued = NoTxid
    /\ queued' = Head(todo)
    /\ fate' = "queued"
    /\ pc' = "wait"
    /\ UNCHANGED <<log, publishes, dbVars, todo, attempt, unsure, crashes>>

Published ==
    /\ pc = "wait" /\ fate = "landed"
    /\ pc' = "confirm" /\ fate' = "none"
    /\ UNCHANGED <<chainVars, dbVars, todo, attempt, unsure, crashes>>

\* The wait ends without the transaction: it expired, or the answer was lost
\* while it is still queued or has landed.
WaitFails ==
    /\ pc = "wait"
    /\ AttemptFails
    /\ fate' = "none"
    /\ unsure' = IF fate = "queued" THEN unsure \union {queued} ELSE unsure
    /\ UNCHANGED <<chainVars, cursor, crashes>>

isPublished(t) == publishes[t] > 0

RemoveRow ==
    /\ pc = "confirm"
    /\ isPublished(Head(todo))
    /\ rows' = [rows EXCEPT ![Head(todo)] = NoRow]
    /\ LeaveRow
    /\ UNCHANGED <<chainVars, cursor, fate, unsure, crashes>>

\* "published, but the release is not visible on chain yet", or the read fails.
NotVisible ==
    /\ pc = "confirm"
    /\ rows' = Mark
    /\ LeaveRow
    /\ UNCHANGED <<chainVars, cursor, fate, unsure, crashes>>

\* next_attempt passes.
BackoffEnds(t) ==
    /\ t \in Pending /\ rows[t].backoff
    /\ rows' = [rows EXCEPT ![t].backoff = FALSE]
    /\ UNCHANGED <<chainVars, cursor, procVars, unsure, crashes>>

-----------------------------------------------------------------------------
Crash ==
    /\ pc # "down" /\ crashes < MaxCrashes
    /\ crashes' = crashes + 1
    /\ pc' = "down" /\ todo' = <<>> /\ attempt' = 0 /\ fate' = "none"
    /\ unsure' = IF fate = "queued" THEN unsure \union {queued} ELSE unsure
    /\ UNCHANGED <<chainVars, dbVars>>

Start ==
    /\ pc = "down"
    /\ pc' = "poll"
    /\ UNCHANGED <<chainVars, dbVars, todo, attempt, fate, unsure, crashes>>

\* The watcher's loop.
Step ==
    \/ Start \/ runPollCycle \/ runReleaseSweep \/ NextRow
    \/ ReadRelease \/ ReadFails \/ Publish \/ Published \/ WaitFails \/ RemoveRow \/ NotVisible

Network == Land \/ Expire

Next ==
    \/ \E t \in Txids : PositionEnds(t, "repay_full") \/ PositionEnds(t, "liquidated") \/ BackoffEnds(t)
    \/ Network \/ Step \/ Crash

\* The event loop runs, getEvents answers in the end with everything new, the
\* network settles every transaction and clocks move on.  Nothing is assumed
\* about publishing ever succeeding.
Fairness ==
    /\ WF_vars(Step) /\ WF_vars(Network)
    /\ SF_vars(runPollCycle /\ cursor' = Len(log))
    /\ \A t \in Txids : WF_vars(BackoffEnds(t))

Spec == Init /\ [][Next]_vars /\ Fairness

-----------------------------------------------------------------------------
(* Properties *)

\* A crash can neither skip a repayment nor lose track of one: a repayment the
\* cursor has passed is either on the contract or still a row
\* (release-store.ts: "A row leaves the table only when the contract shows the
\* release").
NoRepaymentLost ==
    \A i \in 1..cursor :
        log[i].topic = "repay_full" => publishes[log[i].txid] > 0 \/ log[i].txid \in Pending

Repaid(t) == \E i \in 1..Len(log) : log[i] = [topic |-> "repay_full", txid |-> t]
Stuck(t) == t \in Pending /\ rows[t].attempts >= MAX_RELEASE_ATTEMPTS

\* Every borrower who repays gets a release on chain, or a row that used up
\* all of its attempts and shows as stuck; a position that can never be signed
\* holds up no other, and neither do crashes or lost answers.
ReleasedOrStuck == \A t \in Txids : Repaid(t) ~> (publishes[t] > 0 \/ Stuck(t))

\* The promise to the borrower, as an abstract specification.
Promise == INSTANCE Release WITH
    owed <- {log[i].txid : i \in {j \in 1..Len(log) : log[j].topic = "repay_full"}},
    released <- {t \in Txids : publishes[t] > 0}
PromiseKept == Promise!Spec

\* poller.ts:141, "it re-checks `get_release_psbt` first (nothing is published
\* twice)", holds while answers arrive: a release lands twice only when an
\* earlier attempt ended before its own transaction did.
PublishedTwiceOnlyIfUnsure == \A t \in Txids : publishes[t] > 1 => t \in unsure

\* The watcher's safety: across crashes, expired calls and lost answers.
RepaymentsKept == NoRepaymentLost /\ PublishedTwiceOnlyIfUnsure
============================================================================
