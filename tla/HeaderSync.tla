----------------------------- MODULE HeaderSync -----------------------------
(* The relayer's header sync feeds bitcoin-spv with Bitcoin headers, through   *)
(* the account lock it shares with the repay watcher.  Each await of a pass    *)
(* ends a step, and the Bitcoin chain an Esplora server reports may grow or    *)
(* reorganise between two of them.                                             *)
(*                                                                             *)
(* A block is the sequence of branch labels from the checkpoint to it, so its  *)
(* height is its length, its parent its Front, and <<>> is the checkpoint.     *)
(* Difficulty is constant: more work is more height.                           *)
EXTENDS AccountLock

CONSTANTS
    headers,                \* the submitter that carries header batches
    configuredFrom,         \* SPV_SYNC_FROM_HEIGHT
    REORG_RESUBMIT_DEPTH, MAX_HEADERS_PER_SUBMIT, MAX_REORG_DEPTH,
    NoTip,                  \* the contract before set_checkpoint
    MaxHeight, MaxReorgs,   \* bounds
    MaxFaults               \* bound on failed calls, expiries and crashes together

SyncAssumption ==
    /\ headers \in Submitters /\ configuredFrom \in Nat \ {0}
    /\ REORG_RESUBMIT_DEPTH \in Nat /\ MAX_REORG_DEPTH \in Nat
    /\ MAX_HEADERS_PER_SUBMIT \in Nat /\ NoTip \notin Seq(Nat)
    \* A first batch reaches above the contract's tip (16 and 6).
    /\ MAX_HEADERS_PER_SUBMIT > REORG_RESUBMIT_DEPTH + 1

VARIABLES
    bitcoin,    \* best block of Bitcoin, as Esplora reports it
    reorgs,     \* reorganisations so far; each one uses a new branch label
    stored,     \* headers bitcoin-spv holds
    tip,        \* its best tip
    pass,       \* the pass under way
    batch,      \* headers fetched for the next submit_headers
    sent,       \* headers of the queued call
    emptyCall,  \* a call was paid for that stored nothing, outside a tie
    faults

syncVars == <<bitcoin, reorgs, stored, tip, pass, batch, sent, emptyCall, faults>>
vars == <<syncVars, lockVars>>

NoPass == [at |-> "idle", height |-> 0, hash |-> <<>>, next |-> 0]

Init ==
    /\ LockInit
    /\ bitcoin = <<0>> /\ reorgs = 0
    /\ stored = {} /\ tip = NoTip
    /\ pass = NoPass /\ batch = <<>> /\ sent = <<>> /\ emptyCall = FALSE /\ faults = 0

-----------------------------------------------------------------------------
(* Bitcoin and bitcoin-spv                                                     *)

BlockAt(h) == SubSeq(bitcoin, 1, h)

Mine ==
    /\ Len(bitcoin) < MaxHeight
    /\ bitcoin' = Append(bitcoin, reorgs)
    /\ UNCHANGED <<reorgs, stored, tip, sent, pass, batch, emptyCall, faults, lockVars>>

\* Another branch of at least the same height replaces the blocks above fork.
Reorganise(fork, height) ==
    /\ reorgs < MaxReorgs /\ fork < Len(bitcoin)
    /\ height \in {Len(bitcoin), Len(bitcoin) + 1} /\ height <= MaxHeight
    /\ reorgs' = reorgs + 1
    /\ bitcoin' = [h \in 1..height |-> IF h <= fork THEN bitcoin[h] ELSE reorgs + 1]
    /\ UNCHANGED <<stored, tip, sent, pass, batch, emptyCall, faults, lockVars>>

set_checkpoint ==
    /\ tip = NoTip
    /\ tip' = <<>> /\ stored' = {<<>>}
    /\ UNCHANGED <<bitcoin, reorgs, sent, pass, batch, emptyCall, faults, lockVars>>

\* Every header is stored already or follows one that is, in the run or before.
ParentsKnown(run) ==
    \A i \in DOMAIN run :
        run[i] \in stored \/ Front(run[i]) \in stored \union {run[j] : j \in 1..(i - 1)}

CommonHeight(a, b) == Len(LongestCommonPrefix({a, b}))

\* submit_headers fails as a whole, or stores the run and moves to its last
\* header if that is heavier.
submit_ok(run) ==
    /\ tip # NoTip /\ ParentsKnown(run)
    /\ \/ Len(Last(run)) <= Len(tip)
       \/ Len(Last(run)) - CommonHeight(Last(run), tip) <= MAX_REORG_DEPTH

submit_headers(run) ==
    /\ submit_ok(run)
    /\ stored' = stored \union Range(run)
    /\ tip' = IF Len(Last(run)) > Len(tip) THEN Last(run) ELSE tip

-----------------------------------------------------------------------------
(* A pass                                                                      *)

\* tick: a pass starts unless one is running, and asks for Bitcoin's height.
getTipHeight ==
    /\ pass.at = "idle"
    /\ pass' = [NoPass EXCEPT !.at = "hash", !.height = Len(bitcoin)]
    /\ UNCHANGED <<bitcoin, reorgs, stored, tip, sent, batch, emptyCall, faults, lockVars>>

\* The block at that height by now.
getBlockHash ==
    /\ pass.at = "hash"
    /\ pass' = [pass EXCEPT !.at = "tip", !.hash = BlockAt(pass.height)]
    /\ UNCHANGED <<bitcoin, reorgs, stored, tip, sent, batch, emptyCall, faults, lockVars>>

hasNewHeaders(bitcoinTip, contractTip) ==
    \/ contractTip = NoTip
    \/ Len(bitcoinTip) > Len(contractTip)
    \/ Len(bitcoinTip) = Len(contractTip) /\ bitcoinTip # contractTip

\* Mutant: a pass starts above the contract's tip.
syncStartHeight_AtTip(contractTip) ==
    IF contractTip = NoTip THEN configuredFrom ELSE Max({configuredFrom, Len(contractTip) + 1})

syncStartHeight(contractTip) ==
    IF contractTip = NoTip THEN configuredFrom
    ELSE Max({configuredFrom, Len(contractTip) - REORG_RESUBMIT_DEPTH})

\* get_best_tip by simulation.
ContractTip == tip

readContractTip ==
    /\ pass.at = "tip"
    /\ pass' = IF hasNewHeaders(pass.hash, ContractTip)
               THEN [pass EXCEPT !.at = "fetch", !.next = syncStartHeight(ContractTip)]
               ELSE NoPass
    /\ UNCHANGED <<bitcoin, reorgs, stored, tip, sent, batch, emptyCall, faults, lockVars>>

\* planHeaderBatches: the batch is full, or the range ends with it.
BatchComplete == Len(batch) = MAX_HEADERS_PER_SUBMIT \/ (batch # <<>> /\ pass.next > pass.height)

\* getHeaderHex of the next height, on whatever branch is best by now.
getHeaderHex ==
    /\ pass.at = "fetch" /\ ~BatchComplete /\ pass.next <= pass.height
    /\ batch' = Append(batch, BlockAt(pass.next))
    /\ pass' = [pass EXCEPT !.next = @ + 1]
    /\ UNCHANGED <<bitcoin, reorgs, stored, tip, sent, emptyCall, faults, lockVars>>

submitHeadersOnChain ==
    /\ pass.at = "fetch" /\ BatchComplete
    /\ withAccountLock(headers)
    /\ pass' = [pass EXCEPT !.at = "submit"]
    /\ UNCHANGED <<bitcoin, reorgs, stored, tip, sent, batch, emptyCall, faults>>

\* syncHeaders returns: every batch has landed, or the range was empty.
PassDone ==
    /\ pass.at = "fetch" /\ batch = <<>> /\ pass.next > pass.height
    /\ pass' = NoPass
    /\ UNCHANGED <<bitcoin, reorgs, stored, tip, sent, batch, emptyCall, faults, lockVars>>

Fault == faults < MaxFaults /\ faults' = faults + 1

\* A read of Esplora or of the contract throws, after its retries.
ReadFails ==
    /\ pass.at \in {"hash", "tip", "fetch"} /\ Fault
    /\ pass' = NoPass /\ batch' = <<>>
    /\ UNCHANGED <<bitcoin, reorgs, stored, tip, sent, emptyCall, lockVars>>

PassFails == pass' = NoPass /\ batch' = <<>>

-----------------------------------------------------------------------------
(* sendHeaders: the pass's transaction under the lock                          *)

BuildHeaders ==
    /\ Build(headers)
    /\ UNCHANGED syncVars

\* Simulation fails on the contract's state, or the fee is above the ceiling.
HeadersNotSent ==
    /\ NotSent(headers) /\ PassFails
    /\ \/ ~submit_ok(batch) /\ UNCHANGED faults
       \/ submit_ok(batch) /\ Fault
    /\ UNCHANGED <<bitcoin, reorgs, stored, tip, sent, emptyCall>>

SendHeaders ==
    /\ Send(headers) /\ submit_ok(batch)
    /\ sent' = batch
    /\ UNCHANGED <<bitcoin, reorgs, stored, tip, pass, batch, emptyCall, faults>>

HeadersRejected ==
    /\ Rejected(headers) /\ submit_ok(batch) /\ PassFails
    /\ UNCHANGED <<bitcoin, reorgs, stored, tip, sent, emptyCall, faults>>

\* The call is confirmed; the pass goes on with its next batch.
HeadersConfirmed ==
    /\ Confirm(headers)
    /\ pass' = [pass EXCEPT !.at = "fetch"] /\ batch' = <<>>
    /\ UNCHANGED <<bitcoin, reorgs, stored, tip, sent, emptyCall, faults>>

HeadersTimedOut ==
    /\ TimedOut(headers) /\ PassFails
    /\ UNCHANGED <<bitcoin, reorgs, stored, tip, sent, emptyCall, faults>>

HeadersAnswerLost ==
    /\ AnswerLost(headers) /\ PassFails /\ Fault
    /\ UNCHANGED <<bitcoin, reorgs, stored, tip, sent, emptyCall>>

-----------------------------------------------------------------------------
(* The network, the repay watcher and the process                              *)

\* The queued header call is applied.  A call in which every header was stored
\* already has only cost its fee; a tie, and a call of an earlier pass that lands
\* late, are the known reasons.
HeadersLand ==
    /\ pool = headers /\ Land
    /\ submit_headers(sent)
    /\ emptyCall' = (emptyCall \/ /\ Range(sent) \subseteq stored
                                  /\ ~orphaned /\ (Len(pass.hash) # Len(tip) \/ pass.hash = tip))
    /\ sent' = <<>>
    /\ UNCHANGED <<bitcoin, reorgs, pass, batch, faults>>

HeadersExpire ==
    /\ pool = headers /\ Expire /\ Fault
    /\ sent' = <<>>
    /\ UNCHANGED <<bitcoin, reorgs, stored, tip, pass, batch, emptyCall>>

\* publish_release_psbt of the repay watcher, under the same lock.
ReleaseTask(s) ==
    /\ s # headers
    /\ Build(s) \/ NotSent(s) \/ Send(s) \/ Rejected(s) \/ Confirm(s) \/ TimedOut(s)
    /\ UNCHANGED syncVars

ReleaseAsked(s) ==
    /\ s # headers /\ withAccountLock(s)
    /\ UNCHANGED syncVars

ReleaseAnswerLost(s) ==
    /\ s # headers /\ AnswerLost(s) /\ Fault
    /\ UNCHANGED <<bitcoin, reorgs, stored, tip, pass, batch, sent, emptyCall>>

ReleaseSettles ==
    /\ pool # headers /\ (Land \/ Expire)
    /\ UNCHANGED syncVars

ProcessDies ==
    /\ Crash /\ PassFails /\ Fault
    /\ UNCHANGED <<bitcoin, reorgs, stored, tip, sent, emptyCall>>

PassStep == getTipHeight \/ getBlockHash \/ readContractTip \/ getHeaderHex \/ submitHeadersOnChain \/ PassDone
SendStep == \/ BuildHeaders \/ HeadersNotSent \/ SendHeaders \/ HeadersRejected
            \/ HeadersConfirmed \/ HeadersTimedOut

Next ==
    \/ Mine \/ set_checkpoint
    \/ \E fork \in 0..(MaxHeight - 1), height \in 1..MaxHeight : Reorganise(fork, height)
    \/ PassStep \/ SendStep
    \/ ReadFails \/ HeadersAnswerLost \/ HeadersLand \/ HeadersExpire
    \/ \E s \in Submitters : ReleaseAsked(s) \/ ReleaseTask(s) \/ ReleaseAnswerLost(s)
    \/ ReleaseSettles \/ ProcessDies

\* Passes run on a timer and each of their awaits ends; the network settles what
\* it queued; the watcher's task goes on.  Faults are finite.
Fairness ==
    /\ WF_vars(PassStep) /\ WF_vars(SendStep) /\ WF_vars(set_checkpoint)
    /\ WF_vars(HeadersLand) /\ WF_vars(ReleaseSettles)
    /\ \A s \in Submitters : WF_vars(ReleaseTask(s))

Spec == Init /\ [][Next]_vars /\ Fairness

-----------------------------------------------------------------------------
\* Blocks of the contract's branch that Bitcoin has replaced.
ReorgDepth == Len(tip) - CommonHeight(tip, bitcoin)

CaughtUp == tip # NoTip /\ (Len(tip) = Len(bitcoin) \/ ReorgDepth > REORG_RESUBMIT_DEPTH)

\* hasNewHeaders is there to spend nothing on calls that store nothing: it
\* fails to only when the contract sits on another block of the same height, or
\* when a call of an earlier pass landed after that pass had ended.
NoEmptyCall == ~emptyCall
=============================================================================
