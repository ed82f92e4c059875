---------------------------- MODULE AccountLock ----------------------------
(* The relayer's submitters (header sync and repay watcher) share one Stellar  *)
(* account.  withAccountLock queues them, so that each builds, sends and       *)
(* confirms alone.  Stellar Core keeps one queued transaction per account and  *)
(* lets a later one with the same sequence number replace it for ten times     *)
(* the bid.                                                                    *)
EXTENDS Integers, Sequences, SequencesExt, FiniteSets

CONSTANTS
    Submitters,
    Bid,            \* inclusion fee each submitter bids
    NoTx

LockAssumption ==
    /\ Bid \in [Submitters -> Nat \ {0}] /\ NoTx \notin Submitters

VARIABLES
    queue,      \* the account's promise chain: who runs and who waits
    state,      \* per submitter
    current,    \* submitters about to send with what is still the account's next sequence number
    outcome,    \* what became of the transaction it sent
    pool,       \* the queued transaction
    evicted,    \* submitters whose queued transaction was replaced
    orphaned    \* a task ended, once, while its transaction was still queued

lockVars == <<queue, state, current, outcome, pool, evicted, orphaned>>

LockInit ==
    /\ queue = <<>> /\ pool = NoTx /\ current = {}
    /\ state = [s \in Submitters |-> "idle"]
    /\ outcome = [s \in Submitters |-> "none"]
    /\ evicted = {} /\ orphaned = FALSE

-----------------------------------------------------------------------------
withAccountLock(s) ==
    /\ state[s] = "idle"
    /\ queue' = Append(queue, s)
    /\ state' = [state EXCEPT ![s] = "waiting"]
    /\ UNCHANGED <<current, outcome, pool, evicted, orphaned>>

\* Mutant: a submitter does not wait for the lock.
my_turn_Always(s) == TRUE

my_turn(s) == Head(queue) = s

\* getAccount: the transaction takes the next sequence number.
Build(s) ==
    /\ state[s] = "waiting" /\ my_turn(s)
    /\ state' = [state EXCEPT ![s] = "built"]
    /\ current' = current \union {s}
    /\ UNCHANGED <<queue, outcome, pool, evicted, orphaned>>

\* previous.then(task, task): the next task runs whether this one succeeds.
Settle(s) ==
    /\ queue' = Tail(queue)
    /\ state' = [state EXCEPT ![s] = "idle"]

\* The simulation fails, or the fee is above the ceiling: nothing is sent.
NotSent(s) ==
    /\ state[s] = "built"
    /\ Settle(s)
    /\ current' = current \ {s}
    /\ UNCHANGED <<outcome, pool, evicted, orphaned>>

Accepted(s) == s \in current /\ (pool # NoTx => Bid[s] >= 10 * Bid[pool])

Send(s) ==
    /\ state[s] = "built" /\ Accepted(s)
    /\ evicted' = IF pool = NoTx THEN evicted ELSE evicted \union {pool}
    /\ outcome' = [x \in Submitters |-> IF x = s THEN "queued" ELSE IF x = pool THEN "gone" ELSE outcome[x]]
    /\ pool' = s
    /\ state' = [state EXCEPT ![s] = "sent"]
    /\ current' = current \ {s}
    /\ UNCHANGED <<queue, orphaned>>

Rejected(s) ==
    /\ state[s] = "built" /\ ~Accepted(s)
    /\ Settle(s)
    /\ current' = current \ {s}
    /\ UNCHANGED <<outcome, pool, evicted, orphaned>>

Land ==
    /\ pool # NoTx
    /\ current' = {}
    /\ outcome' = [outcome EXCEPT ![pool] = "landed"]
    /\ pool' = NoTx
    /\ UNCHANGED <<queue, state, evicted, orphaned>>

Expire ==
    /\ pool # NoTx
    /\ outcome' = [outcome EXCEPT ![pool] = "gone"]
    /\ pool' = NoTx
    /\ UNCHANGED <<queue, state, current, evicted, orphaned>>

Confirm(s) ==
    /\ state[s] = "sent" /\ outcome[s] = "landed"
    /\ outcome' = [outcome EXCEPT ![s] = "none"]
    /\ Settle(s)
    /\ UNCHANGED <<current, pool, evicted, orphaned>>

\* The wait outlasts the 60 s the transaction is valid for.
TimedOut(s) ==
    /\ state[s] = "sent" /\ outcome[s] = "gone"
    /\ outcome' = [outcome EXCEPT ![s] = "none"]
    /\ Settle(s)
    /\ UNCHANGED <<current, pool, evicted, orphaned>>

\* getTransaction throws and the task rejects at once.
AnswerLost(s) ==
    /\ state[s] = "sent" /\ outcome[s] = "queued"
    /\ orphaned' = TRUE
    /\ Settle(s)
    /\ UNCHANGED <<current, outcome, pool, evicted>>

Crash ==
    /\ queue' = <<>>
    /\ state' = [s \in Submitters |-> "idle"]
    /\ orphaned' = (orphaned \/ pool # NoTx)
    /\ current' = {}
    /\ UNCHANGED <<outcome, pool, evicted>>

-----------------------------------------------------------------------------

\* The incident the lock was written for, a header batch that replaces a queued
\* release without an error, needs a task that ended while its transaction was
\* queued: a lost answer or a crash.  Waiting 90 s for a transaction valid for
\* 60 s rules out every other way.
EvictedOnlyAfterLostAnswer == evicted # {} => orphaned

============================================================================
