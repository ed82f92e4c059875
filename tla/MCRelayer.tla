----------------------------- MODULE MCRelayer -----------------------------
(* What the relayer keeps doing by itself, one component per behaviour: the  *)
(* header sync, which shares its account with the releases, the repay        *)
(* watcher, and the CCTP relay.                                              *)
(* The header sync bids 1,000,000 stroops, the release 100.  A pass goes     *)
(* back one block instead of six, with batches of three instead of 16.  One  *)
(* position of the watcher can be signed and one never can.                  *)
EXTENDS RepayWatcher

CONSTANTS
    headers, release, Submitters, Bid, NoTx, NoTip, configuredFrom,
    REORG_RESUBMIT_DEPTH, MAX_HEADERS_PER_SUBMIT, MAX_REORG_DEPTH, MaxHeight,
    MaxReorgs, MaxFaults, good, bad, Burns, Kinds, dailyCap, maxOpen,
    MINT_LOOKUP_ATTEMPTS, None, Other, MaxSends, MaxReverts

VARIABLES
    part,           \* the component this behaviour is about
    queue, state, current, outcome, pool, evicted, orphaned,
    bitcoin, reorgs, stored, tip, pass, batch, sent, emptyCall, faults,
    kind, record, mintsPc, mintsQueue, tx, minter, mintsUnsure, reverts,
    mintsCrashes

Bids == [s \in {headers, release} |-> IF s = headers THEN 1000000 ELSE 100]

Headers == INSTANCE HeaderSync
Mints == INSTANCE CctpRelay WITH
    pc <- mintsPc, queue <- mintsQueue, unsure <- mintsUnsure,
    crashes <- mintsCrashes

headersVars == <<
    queue, state, current, outcome, pool, evicted, orphaned,
    bitcoin, reorgs, stored, tip, pass, batch, sent, emptyCall, faults>>
mintsVars == <<
    kind, record, mintsPc, mintsQueue, tx, minter, mintsUnsure, reverts,
    mintsCrashes>>
all == <<part, vars, headersVars, mintsVars>>

-----------------------------------------------------------------------------
(* The components that are not at work have no state; the watcher is down. *)
NoHeaders ==
    /\ queue = None /\ state = None /\ current = None /\ outcome = None
    /\ pool = None /\ evicted = None /\ orphaned = None
    /\ bitcoin = None /\ reorgs = None /\ stored = None /\ tip = None
    /\ pass = None /\ batch = None /\ sent = None /\ emptyCall = None
    /\ faults = None
NoMints ==
    /\ kind = None /\ record = None /\ mintsPc = None /\ mintsQueue = None
    /\ tx = None /\ minter = None /\ mintsUnsure = None /\ reverts = None
    /\ mintsCrashes = None

MCInit ==
    /\ Init
    /\ \/ part = "headers" /\ Headers!Init /\ NoMints
       \/ part = "watcher" /\ NoHeaders /\ NoMints
       \/ part = "mints" /\ NoHeaders /\ Mints!Init

HeadersNext ==
    /\ part = "headers" /\ Headers!Next
    /\ UNCHANGED <<part, vars, mintsVars>>

WatcherNext ==
    /\ part = "watcher" /\ Next
    /\ UNCHANGED <<part, headersVars, mintsVars>>

MintsNext ==
    /\ part = "mints" /\ Mints!Next
    /\ UNCHANGED <<part, vars, headersVars>>

MCNext == HeadersNext \/ WatcherNext \/ MintsNext

ASSUME RelayerAssumption == Headers!LockAssumption /\ Headers!SyncAssumption

(* The fairness each module states, for the component at work.             *)
MCFairness ==
    /\ WF_headersVars(part = "headers" /\ Headers!PassStep)
    /\ WF_headersVars(part = "headers" /\ Headers!SendStep)
    /\ WF_headersVars(part = "headers" /\ Headers!set_checkpoint)
    /\ WF_headersVars(part = "headers" /\ Headers!HeadersLand)
    /\ WF_headersVars(part = "headers" /\ Headers!ReleaseSettles)
    /\ \A s \in Submitters : WF_headersVars(part = "headers" /\ Headers!ReleaseTask(s))
    /\ WF_vars(part = "watcher" /\ Step)
    /\ WF_vars(part = "watcher" /\ Network)
    /\ SF_vars(part = "watcher" /\ runPollCycle /\ cursor' = Len(log))
    /\ \A t \in Txids : WF_vars(part = "watcher" /\ BackoffEnds(t))
    /\ \A b \in Burns :
         /\ WF_mintsVars(part = "mints" /\ Mints!Job(b))
         /\ SF_mintsVars(part = "mints" /\ Mints!retry(b))
         /\ WF_mintsVars(part = "mints" /\ \E i \in 1..Len(tx[b]) : Mints!Mine(b, i) \/ Mints!Drop(b, i))
         /\ WF_mintsVars(part = "mints" /\ Mints!RetryTimeComes(b))
         /\ WF_mintsVars(part = "mints" /\ Mints!DeadlinePasses(b))
    /\ WF_mintsVars(part = "mints" /\ Mints!Midnight)

MCSpec == MCInit /\ [][MCNext]_all /\ MCFairness

-----------------------------------------------------------------------------
\* account-lock.ts and hasNewHeaders (header-sync.ts): a queued call is evicted
\* only after a task ended before its own call was settled, and no call is paid
\* for that stores nothing, as far as a pass can know.
NoCallWasted ==
    part = "headers" => Headers!EvictedOnlyAfterLostAnswer /\ Headers!NoEmptyCall

\* header-sync.ts:65: unless Bitcoin replaces more than REORG_RESUBMIT_DEPTH
\* blocks of the contract's branch, the contract comes to have as much work as
\* Bitcoin, whatever interrupts the passes and whoever else needs the account.
HeadersCatchUp == <>[](part = "headers" => Headers!CaughtUp)

\* service.ts transient: every transfer taken on comes to a final answer through
\* failed reads, empty accounts, the daily cap and a crash.
RetryingEnds ==
    \A b \in Burns : (part = "mints" /\ Mints!Known(b)) ~> (part = "mints" /\ Mints!Final(b))

=============================================================================
