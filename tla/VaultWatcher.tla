---------------------------- MODULE VaultWatcher ----------------------------
(* The indexer of the DeFindex vault: the poll cycle over Soroban RPC events,  *)
(* its two sqlite files (events and cursor), the events seeded at every boot,  *)
(* and the figures computed from the table (TVL, unique depositors, 30-day     *)
(* cohorts).  Inserts are transactions of their own and the cursor is in       *)
(* another file, so a crash may fall between any two of them.                  *)
(*                                                                             *)
(* Event i of log closes in ledger i at time i; a cursor is the number of      *)
(* events before it.                                                           *)
EXTENDS Integers, Sequences, FiniteSets, FiniteSetsExt

CONSTANTS
    Depositors, Amounts,
    Genesis,            \* the vault's events before the watcher's first poll
    THIRTY_DAYS,
    NoCursor,
    MaxLog, MaxCrashes, MaxFaults   \* bounds

VARIABLES
    log,        \* the vault's events on chain
    oldest,     \* events up to here are outside the RPC's retention
    now,        \* the time of the last ledger
    rows,       \* vault_events, by its UNIQUE key, with the close time
    cursor,     \* watcher_cursor
    phase, tip, \* the poll cycle
    batch,      \* [from, to] of the answer; events still to persist are next..to
    next, sawFailure,
    since,      \* the cursor lines are unbroken from here
    crashes, faults

rpcVars == <<log, oldest, now>>
cycle == <<phase, tip, batch, next, sawFailure>>
vars == <<rpcVars, rows, cursor, cycle, since, crashes, faults>>

OtherEvent == [kind |-> "other"]

decodeVaultEvent(event) == event.kind \in {"deposit", "withdraw"}

Row(i) == [event |-> log[i], closed |-> i]

\* insertVaultEvent: INSERT OR IGNORE on (tx_hash, depositor, kind, amount).
\* Mutant: the table has no unique key.
insertVaultEvent_Always(i) == rows \union {[event |-> log[i], closed |-> i, again |-> next]}

insertVaultEvent(i) ==
    IF \E r \in rows : r.event = log[i] THEN rows ELSE rows \union {Row(i)}

\* seedGenesisVaultEvents runs at every boot.
seedGenesisVaultEvents(table) ==
    table \union {[event |-> Genesis[i], closed |-> i] : i \in DOMAIN Genesis}

Init ==
    /\ log = Genesis /\ oldest = 0 /\ now = Len(Genesis)
    /\ rows = seedGenesisVaultEvents({})
    /\ cursor = NoCursor /\ since = NoCursor
    /\ phase = "idle" /\ tip = 0 /\ batch = [from |-> 0, to |-> 0] /\ next = 1 /\ sawFailure = FALSE
    /\ crashes = 0 /\ faults = 0

-----------------------------------------------------------------------------
(* The chain and the RPC                                                       *)

\* A transaction emits one or, in one transaction, two equal events.
Emit ==
    /\ Len(log) < MaxLog
    /\ \/ \E d \in Depositors, k \in {"deposit", "withdraw"}, a \in Amounts :
            LET e == [tx |-> Len(log) + 1, depositor |-> d, kind |-> k, amount |-> a]
            IN log' = Append(log, e)
       \/ log' = Append(log, OtherEvent)
       \/ log # <<>> /\ log[Len(log)].kind # "other" /\ log' = Append(log, log[Len(log)])
    /\ now' = Len(log')
    /\ UNCHANGED <<oldest, rows, cursor, cycle, since, crashes, faults>>

DropOld ==
    /\ oldest < Len(log) /\ oldest' = oldest + 1
    /\ UNCHANGED <<log, now, rows, cursor, cycle, since, crashes, faults>>

-----------------------------------------------------------------------------
(* runVaultPollCycle                                                           *)

Cycle(p) == phase' = p /\ UNCHANGED <<rpcVars, rows, cursor, since, crashes, faults>>

\* Without a cursor the cycle starts at the current tip.
getLatestLedger ==
    /\ phase = "idle" /\ cursor = NoCursor
    /\ tip' = Len(log) /\ Cycle("tip")
    /\ UNCHANGED <<batch, next, sawFailure>>

Fetch(from) ==
    \E to \in from..Len(log) :
        /\ batch' = [from |-> from, to |-> to] /\ next' = from + 1 /\ sawFailure' = FALSE
        /\ Cycle("persist") /\ UNCHANGED tip

\* The answer may stop short of the tip, and is refused outside the retention.
getEvents ==
    \/ phase = "idle" /\ cursor # NoCursor /\ cursor >= oldest /\ Fetch(cursor)
    \/ phase = "tip" /\ tip - 1 >= oldest /\ Fetch(tip - 1)
    \/ phase = "tip" /\ tip = 0 /\ Fetch(0)

\* The loop catches it and polls again after its interval.
PollFailed ==
    /\ phase = "tip" /\ faults < MaxFaults /\ faults' = faults + 1
    /\ phase' = "idle"
    /\ UNCHANGED <<rpcVars, rows, cursor, tip, batch, next, sawFailure, since, crashes>>

persist ==
    /\ phase = "persist" /\ next <= batch.to
    /\ next' = next + 1
    /\ \/ /\ rows' = IF decodeVaultEvent(log[next]) THEN insertVaultEvent(next) ELSE rows
          /\ UNCHANGED <<sawFailure, faults>>
       \/ /\ decodeVaultEvent(log[next]) /\ faults < MaxFaults
          /\ faults' = faults + 1 /\ sawFailure' = TRUE /\ UNCHANGED rows
    /\ UNCHANGED <<rpcVars, cursor, phase, tip, batch, since, crashes>>

mayAdvance == ~sawFailure

\* A first cursor starts the unbroken line.
writeCursor ==
    /\ phase = "persist" /\ next > batch.to /\ phase' = "idle"
    /\ IF mayAdvance
       THEN cursor' = batch.to /\ since' = IF cursor = NoCursor THEN batch.from ELSE since
       ELSE UNCHANGED <<cursor, since>>
    /\ UNCHANGED <<rpcVars, rows, tip, batch, next, sawFailure, crashes, faults>>

\* The documented recovery: an operator stops the service and stores
\* cursorForLedger of an earlier ledger.
Rewind ==
    /\ phase = "idle" /\ cursor # NoCursor
    /\ \E c \in oldest..(cursor - 1) :
         cursor' = c /\ since' = IF c < since THEN c ELSE since
    /\ UNCHANGED <<rpcVars, rows, cycle, crashes, faults>>

\* The process dies and startVaultWatcher runs again.
Restart ==
    /\ crashes < MaxCrashes /\ crashes' = crashes + 1
    /\ phase' = "idle"
    /\ rows' = seedGenesisVaultEvents(rows)
    /\ UNCHANGED <<rpcVars, cursor, tip, batch, next, sawFailure, since, faults>>

Next ==
    \/ Emit \/ DropOld \/ getLatestLedger \/ getEvents \/ PollFailed
    \/ persist \/ writeCursor \/ Rewind \/ Restart

Spec == Init /\ [][Next]_vars

-----------------------------------------------------------------------------
(* The figures                                                                 *)

Signed(e) == IF e.kind = "deposit" THEN e.amount ELSE -e.amount

computeTvlSummary(table) ==
    [netDeposited |-> MapThenSumSet(LAMBDA r : Signed(r.event), table),
     uniqueDepositors |-> Cardinality({r.event.depositor : r \in {x \in table : x.event.kind = "deposit"}})]

\* The cohort of each depositor who has deposited: its day, whether thirty days
\* have passed, and whether something was left at that mark.
computeRetentionCohorts(table, time) ==
    LET of(d) == {r \in table : r.event.depositor = d}
        deposits(d) == {r \in of(d) : r.event.kind = "deposit"}
        day(d) == Min({r.closed : r \in deposits(d)})
        cutoff(d) == day(d) + THIRTY_DAYS
        net(d) == MapThenSumSet(LAMBDA r : Signed(r.event), {r \in of(d) : r.closed <= cutoff(d)})
        members(c) == {d \in Depositors : deposits(d) # {} /\ day(d) = c}
        eligible(c) == {d \in members(c) : time >= cutoff(d)}
    IN {[cohort |-> c, depositors |-> Cardinality(members(c)), eligible |-> Cardinality(eligible(c)),
         retained |-> Cardinality({d \in eligible(c) : net(d) > 0})]
            : c \in {day(d) : d \in {x \in Depositors : deposits(x) # {}}}}

\* GET /metrics/tvl warns when the table is off by more than a fifth.
TvlDiverges(onChain, net) == net > 0 /\ (IF onChain > net THEN onChain - net ELSE net - onChain) * 100 > net * 20

-----------------------------------------------------------------------------
\* Events that the table must hold: genesis and those behind the cursor.
Covered == {i \in DOMAIN log : log[i].kind # "other"
                /\ (i <= Len(Genesis) \/ (cursor # NoCursor /\ since < i /\ i <= cursor))}

\* Two events of one transaction that the UNIQUE key cannot tell apart.
Twins == \E i, j \in DOMAIN log : i # j /\ log[i] = log[j] /\ log[i].kind # "other"

ChainNet == MapThenSumSet(LAMBDA i : Signed(log[i]), {i \in DOMAIN log : log[i].kind # "other"})

\* "at-least-once ... never double-counts": through crashes, failed inserts,
\* rewinds and reseeding, every event behind the cursor (from where its line
\* began) has exactly one row, every row is an event of the chain, and with the
\* whole chain read and no twins, the published TVL and retention cohorts are
\* those of the chain and no divergence is reported.
IndexIsExact ==
    /\ \A i \in Covered : Cardinality({r \in rows : r.event = log[i]}) = 1
    /\ \A r \in rows : \E i \in DOMAIN log : log[i] = r.event
    /\ (cursor = Len(log) /\ since <= Len(Genesis) /\ ~Twins) =>
          LET net == computeTvlSummary(rows).netDeposited
              chain == {Row(i) : i \in {j \in DOMAIN log : log[j].kind # "other"}}
          IN /\ net = ChainNet /\ ~TvlDiverges(ChainNet, net)
             /\ computeRetentionCohorts(rows, now) = computeRetentionCohorts(chain, now)

=============================================================================
