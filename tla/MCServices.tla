---------------------------- MODULE MCServices ----------------------------
(* The relayer's services, one per behaviour: two CCTP transfers that        *)
(* compete for the last mint of the day, the archive of lend events and its  *)
(* rebuild, the faucet, the vault watcher and API, the deposit status, and   *)
(* the onboarding funnel with the guide that feeds it.                       *)
EXTENDS CctpRelay

CONSTANTS
    t1, t2, t3, alice, bob, Txids, Suppliers, FilesComplete, NoFile,
    MAX_VERIFY_ROUNDS, MaxLog, MaxLosses, MaxRetired, Tabs, Accounts, ipClaimsPerWindow,
    ipWindow, NoCoin, MaxDays, MaxFaults, Depositors, Amounts, THIRTY_DAYS,
    NoCursor, Clients, Routes, limit, windowMs,
    ALERT_AFTER_CONSECUTIVE_FAILURES, MaxTime, MaxRequests, required, PAGE,
    MAX_PAGES_PER_REFRESH, Unknown, MaxTip, MaxOps, Browsers, owner, other,
    MaxReports, MaxRows, AccountOf, Coins, Genesis, MaxVaultCrashes

VARIABLES
    part,           \* the component this behaviour is about
    log, oldest, released, archive, main, releases, relayer, file, rebuild,
    losses,
    now, unspent, listed, payouts, seen, nonces, claims, reserved,
    pendingChange, faucetQueue, req, coin, tab, saved, faucetUnsure,
    conflicts, restarted, faults,
    vaultLog, vaultOldest, vaultNow, rows, cursor, phase, tip, batch, next,
    sawFailure, since, vaultCrashes, vaultFaults,
    apiNow, windows, inFlight, stats, admitted, failed, alerts, requests,
    statusTip, height, lcTip, ops, statusOldest, sub, records, statusCursor,
    fresh, walk, key, reg, got, firstSeen, cache, skipped, statusFaults,
    loan, borrowed, funnelReleased, milestones, partly, sent, net, funnelRows,
    reports

\* Two tabs of one account and one of another.
Holder == [t \in Tabs |-> IF t = t3 THEN bob ELSE alice]

(* What config.ts makes of the faucet's settings: positive integers.         *)
ASSUME FaucetAssumption ==
    /\ IsFiniteSet(Accounts) /\ AccountOf \in [Tabs -> Accounts]
    /\ dailyCap \in Nat \ {0} /\ ipClaimsPerWindow \in Nat \ {0}
    /\ ipWindow \in Nat

(* The limits in front of the DeFindex routes, and when an outage is logged. *)
ASSUME ApiAssumption ==
    /\ limit \in Nat \ {0} /\ windowMs \in Nat \ {0}
    /\ ALERT_AFTER_CONSECUTIVE_FAILURES \in Nat \ {0}

(* The vault's events as the chain emits them; those that genesis-events.ts  *)
(* lists are all different.                                                  *)
VaultEvents ==
    [tx : Nat, depositor : Depositors, kind : {"deposit", "withdraw"}, amount : Int]

ASSUME VaultAssumption ==
    /\ Amounts \subseteq Int /\ NoCursor \notin Int
    /\ Genesis \in Seq(VaultEvents)
    /\ \A i, j \in DOMAIN Genesis : Genesis[i] = Genesis[j] => i = j

(* A refresh of the index of position events walks a page at least.          *)
ASSUME StatusAssumption ==
    /\ PAGE \in Nat \ {0} /\ MAX_PAGES_PER_REFRESH \in Nat \ {0}
    /\ MaxOps \in Nat /\ required \in Nat
    /\ None \notin {"success", "failed", "not_found"}

\* Nothing tells one burn from another.
Alike == Permutations(Burns)

\* One coin, worth two payments.
FirstCoins == {<<1, 2>>}

FirstDeposit == << [tx |-> 1, depositor |-> "d1", kind |-> "deposit", amount |-> 1] >>

Archive == INSTANCE LendArchive
Claims == INSTANCE Faucet WITH
    queue <- faucetQueue, unsure <- faucetUnsure
Vault == INSTANCE VaultWatcher WITH
    MaxCrashes <- MaxVaultCrashes, log <- vaultLog, oldest <- vaultOldest,
    now <- vaultNow, crashes <- vaultCrashes, faults <- vaultFaults
Api == INSTANCE VaultApi WITH
    now <- apiNow
Reads == INSTANCE DepositReads WITH
    tip <- statusTip, oldest <- statusOldest, cursor <- statusCursor,
    faults <- statusFaults
Funnel == INSTANCE Onboarding WITH
    released <- funnelReleased, rows <- funnelRows

archiveVars == <<
    log, oldest, released, archive, main, releases, relayer, file, rebuild,
    losses>>
claimsVars == <<
    now, unspent, listed, payouts, seen, nonces, claims, reserved,
    pendingChange, faucetQueue, req, coin, tab, saved, faucetUnsure,
    conflicts, restarted, faults>>
vaultVars == <<
    vaultLog, vaultOldest, vaultNow, rows, cursor, phase, tip, batch, next,
    sawFailure, since, vaultCrashes, vaultFaults>>
apiVars == <<
    apiNow, windows, inFlight, stats, admitted, failed, alerts, requests>>
readsVars == <<
    statusTip, height, lcTip, ops, statusOldest, sub, records, statusCursor,
    fresh, walk, key, reg, got, firstSeen, cache, skipped, statusFaults>>
funnelVars == <<
    loan, borrowed, funnelReleased, milestones, partly, sent, net, funnelRows,
    reports>>
all == <<part, vars, archiveVars, claimsVars, vaultVars, apiVars, readsVars, funnelVars>>

-----------------------------------------------------------------------------
(* The components that are not at work have no state.                    *)
NoArchive ==
    /\ log = None /\ oldest = None /\ released = None /\ archive = None
    /\ main = None /\ releases = None /\ relayer = None /\ file = None
    /\ rebuild = None /\ losses = None
NoClaims ==
    /\ now = None /\ unspent = None /\ listed = None /\ payouts = None
    /\ seen = None /\ nonces = None /\ claims = None /\ reserved = None
    /\ pendingChange = None /\ faucetQueue = None /\ req = None
    /\ coin = None /\ tab = None /\ saved = None /\ faucetUnsure = None
    /\ conflicts = None /\ restarted = None /\ faults = None
NoVault ==
    /\ vaultLog = None /\ vaultOldest = None /\ vaultNow = None
    /\ rows = None /\ cursor = None /\ phase = None /\ tip = None
    /\ batch = None /\ next = None /\ sawFailure = None /\ since = None
    /\ vaultCrashes = None /\ vaultFaults = None
NoApi ==
    /\ apiNow = None /\ windows = None /\ inFlight = None /\ stats = None
    /\ admitted = None /\ failed = None /\ alerts = None /\ requests = None
NoReads ==
    /\ statusTip = None /\ height = None /\ lcTip = None /\ ops = None
    /\ statusOldest = None /\ sub = None /\ records = None
    /\ statusCursor = None /\ fresh = None /\ walk = None /\ key = None
    /\ reg = None /\ got = None /\ firstSeen = None /\ cache = None
    /\ skipped = None /\ statusFaults = None
NoFunnel ==
    /\ loan = None /\ borrowed = None /\ funnelReleased = None
    /\ milestones = None /\ partly = None /\ sent = None /\ net = None
    /\ funnelRows = None /\ reports = None

MCInit ==
    /\ Init
    /\ \/ part = "mints" /\ NoArchive /\ NoClaims /\ NoVault /\ NoApi /\ NoReads /\ NoFunnel
       \/ part = "archive" /\ Archive!Init /\ NoClaims /\ NoVault
          /\ NoApi /\ NoReads /\ NoFunnel
       \/ part = "faucet" /\ Claims!Init /\ NoArchive /\ NoVault
          /\ NoApi /\ NoReads /\ NoFunnel
       \/ part = "vault" /\ Vault!Init /\ NoArchive /\ NoClaims /\ NoApi
          /\ NoReads /\ NoFunnel
       \/ part = "api" /\ Api!Init /\ NoArchive /\ NoClaims /\ NoVault
          /\ NoReads /\ NoFunnel
       \/ part = "status" /\ Reads!Init /\ NoArchive /\ NoClaims
          /\ NoVault /\ NoApi /\ NoFunnel
       \/ part = "funnel" /\ Funnel!Init /\ NoArchive /\ NoClaims
          /\ NoVault /\ NoApi /\ NoReads

MintsNext ==
    /\ part = "mints" /\ Next
    /\ UNCHANGED <<part, archiveVars, claimsVars, vaultVars, apiVars, readsVars, funnelVars>>

ArchiveNext ==
    /\ part = "archive" /\ Archive!Next
    /\ UNCHANGED <<part, vars, claimsVars, vaultVars, apiVars, readsVars, funnelVars>>

ClaimsNext ==
    /\ part = "faucet" /\ Claims!Next
    /\ UNCHANGED <<part, vars, archiveVars, vaultVars, apiVars, readsVars, funnelVars>>

VaultNext ==
    /\ part = "vault" /\ Vault!Next
    /\ UNCHANGED <<part, vars, archiveVars, claimsVars, apiVars, readsVars, funnelVars>>

ApiNext ==
    /\ part = "api" /\ Api!Next
    /\ UNCHANGED <<part, vars, archiveVars, claimsVars, vaultVars, readsVars, funnelVars>>

ReadsNext ==
    /\ part = "status" /\ Reads!Next
    /\ UNCHANGED <<part, vars, archiveVars, claimsVars, vaultVars, apiVars, funnelVars>>

FunnelNext ==
    /\ part = "funnel" /\ Funnel!Next
    /\ UNCHANGED <<part, vars, archiveVars, claimsVars, vaultVars, apiVars, readsVars>>

MCNext ==
    \/ MintsNext \/ ArchiveNext \/ ClaimsNext \/ VaultNext \/ ApiNext
    \/ ReadsNext \/ FunnelNext

MCSpec == MCInit /\ [][MCNext]_all

-----------------------------------------------------------------------------
\* cctp/service.ts: what is shown as arrived is minted and linked to its mint,
\* a second mint is sent only when the first is not known of (service.ts:17),
\* and a transfer in flight has a job, after a restart too.
MintsAreTrue ==
    part = "mints" => LinkIsTheMint /\ RedundantOnlyIfUnsure /\ OpenHasJob

\* lend-events/poller.ts commits rows and cursor together and rebuild.ts swaps
\* files: the archive holds every event of the pool up to its cursor, and no
\* repayment behind the watcher's cursor lacks its release or its row, in whatever
\* round a rebuild is and wherever it dies.
ArchiveIsWhole ==
    part = "archive" => Archive!ArchiveHasNoGap /\ Archive!NoReleaseSkipped

\* faucet/service.ts: an account is paid twice within its limit only after a
\* broadcast whose outcome stayed unknown, the wallet builds on a spent coin only
\* after a restart forgot its reservations, and no day and no address window sees
\* more recorded claims than allowed, although claims are checked before they
\* wait for the lock.
ClaimsAreBounded ==
    part = "faucet" =>
        /\ Claims!PaidTwiceOnlyIfUnsure
        /\ Claims!ConflictOnlyAfterRestart
        /\ Claims!LimitsHold

\* vault-watcher/poller.ts, rate-limit.ts and defindex/metrics.ts: every vault
\* event behind the cursor has exactly one row and the figures made of them are
\* the chain's; no burst passes twice the limit within a window, and an outage is
\* reported once.
VaultsAreServed ==
    /\ part = "vault" => Vault!IndexIsExact
    /\ part = "api" => Api!BurstsAndAlertsBounded

\* routes/deposit-status.ts: what a deposit's status says was true on chain when
\* it was put together, and the event index misses only what fell out of the
\* RPC's retention.
StatusIsTruthful ==
    part = "status" => Reads!StatusIsTruthful /\ Reads!IndexMissesOnlySkipped

\* funnel.ts and guide.ts: the funnel counts only steps that writz-lend or the
\* faucet saw, and the guide never goes back and offers the step the loan is at,
\* with the exceptions that GuideLeadsForward names.
OnboardingIsTrue ==
    part = "funnel" => Funnel!CountedIsReal /\ Funnel!GuideLeadsForward

=============================================================================
