---------------------------- MODULE DepositReads ----------------------------
(* How the relayer answers "where is my deposit" and "what happened to my      *)
(* loan": GET /deposit-status, with and without the hash of the deposit call,  *)
(* and GET /timeline, for one Bitcoin transaction.  Each answer is put         *)
(* together from reads of Bitcoin, of the light client and of Stellar that     *)
(* happen at different moments while all of them move; the routes share one    *)
(* in-memory index of position events, and each key has a short cache.         *)
(*                                                                             *)
(* ops is what the owner and the pool did on Stellar, one per ledger; a ledger *)
(* is its place in ops, and RPC serves events from ledger oldest on.           *)
EXTENDS Integers, Sequences, FiniteSets, FiniteSetsExt

CONSTANTS
    required,                   \* Config::min_confirmations
    PAGE, MAX_PAGES_PER_REFRESH,
    None, Unknown,
    MaxTip, MaxOps, MaxFaults   \* bounds

Keys == {"plain", "named", "timeline"}   \* txid, txid:hash, and the timeline's txid

VARIABLES
    tip, height,    \* the Bitcoin tip; the deposit's block, 0 in the mempool, -1 unseen
    lcTip,          \* bitcoin-spv's best tip
    ops, oldest,
    sub,            \* the deposit call the app submitted
    records, cursor, fresh,     \* PositionEventIndex
    walk,           \* pages walked by the refresh under way, or None
    key,            \* whose requests are followed; others show in the index only
    reg, got,       \* how far its Stellar reads are, and what was read
    firstSeen,      \* the named hash: not seen, within its window, past it
    cache,          \* the answer, or None
    skipped,        \* history: events that left the RPC's window unseen
    faults

world == <<tip, height, lcTip, ops, oldest, sub>>
index == <<records, cursor, fresh, walk>>
vars == <<world, index, key, reg, got, firstSeen, cache, skipped, faults>>

Nothing == [record |-> FALSE, exists |-> FALSE, seen |-> {}, sub |-> None, height |-> None, lcTip |-> None,
            before |-> FALSE]

Init ==
    /\ tip = 0 /\ height = -1 /\ lcTip = 0 /\ ops = <<>> /\ oldest = 1 /\ sub = "none"
    /\ records = {} /\ cursor = 0 /\ fresh = FALSE /\ walk = None
    /\ key \in Keys /\ reg = "idle" /\ got = Nothing
    /\ firstSeen = "no" /\ cache = None /\ skipped = {} /\ faults = 0

Fault == faults < MaxFaults /\ faults' = faults + 1

Is(kinds) == {i \in DOMAIN ops : ops[i] \in kinds}
Registered == Is({"deposit"}) # {}
PositionEvents == Is({"deposit", "borrow", "repay"})

-----------------------------------------------------------------------------
(* The chains                                                                  *)

World == UNCHANGED <<index, key, reg, got, firstSeen, cache, faults>>
Stellar(kind) == Len(ops) < MaxOps /\ ops' = Append(ops, kind) /\ UNCHANGED <<tip, height, lcTip, oldest, skipped>> /\ World

Bitcoin ==
    /\ \/ height = -1 /\ height' = 0 /\ UNCHANGED <<tip, lcTip>>
       \/ tip < MaxTip /\ tip' = tip + 1 /\ UNCHANGED lcTip /\ height' \in {height, IF height = 0 THEN tip + 1 ELSE height}
       \/ lcTip < tip /\ lcTip' = lcTip + 1 /\ UNCHANGED <<tip, height>>
    /\ UNCHANGED <<ops, oldest, sub, skipped>> /\ World

Provable == height > 0 /\ lcTip >= height + required - 1

\* The deposit call: sent once the transaction is in a block, in a ledger or not
\* within the SDK's time bound; only a request that names it sees it.  Another submission of the same deposit may win.
Submit == key = "named" /\ height > 0 /\ sub = "none" /\ sub' = "sent" /\ UNCHANGED <<tip, height, lcTip, ops, oldest, skipped>> /\ World
Land ==
    /\ sub = "sent"
    /\ \/ Provable /\ ~Registered /\ sub' = "success" /\ Stellar("deposit")
       \/ /\ ~Provable \/ Registered
          /\ sub' = "failed" /\ UNCHANGED <<tip, height, lcTip, ops, oldest, skipped>> /\ World
Expire == sub = "sent" /\ sub' = "expired" /\ UNCHANGED <<tip, height, lcTip, ops, oldest, skipped>> /\ World
OtherSubmission == Provable /\ ~Registered /\ Stellar("deposit") /\ UNCHANGED sub
\* Only the timeline tells the operations after a deposit apart.
Act == Registered /\ key = "timeline" /\ (\E kind \in {"borrow", "repay", "elsewhere", "burn"} : Stellar(kind)) /\ UNCHANGED sub

DropOld ==
    /\ oldest <= Len(ops) /\ oldest' = oldest + 1
    /\ skipped' = IF cursor < oldest /\ ops[oldest] \in {"deposit", "borrow", "repay"} THEN skipped \union {oldest} ELSE skipped
    /\ UNCHANGED <<tip, height, lcTip, ops, sub>> /\ World

-----------------------------------------------------------------------------
(* PositionEventIndex                                                          *)

\* refresh() joins the walk under way; refresh(true) starts another after it.
startWalk ==
    /\ reg \in {"refresh", "force"} /\ walk = None /\ ~(fresh /\ reg = "refresh")
    /\ walk' = 0 /\ reg' = "waiting"
    /\ UNCHANGED <<world, records, cursor, fresh, key, got, firstSeen, cache, skipped, faults>>

joinWalk ==
    /\ reg = "refresh" /\ walk # None /\ ~fresh
    /\ reg' = "waiting"
    /\ UNCHANGED <<world, index, key, got, firstSeen, cache, skipped, faults>>

\* A request for another transaction, or the warm-up at boot.
OtherCaller ==
    /\ walk = None /\ walk' = 0
    /\ UNCHANGED <<world, records, cursor, fresh, key, reg, got, firstSeen, cache, skipped, faults>>

\* Where the next page starts: the cursor, or the oldest ledger kept once the
\* cursor has fallen out of the window.
walkFrom == IF cursor + 1 >= oldest THEN cursor ELSE oldest - 1

EndWalk(state) == walk' = None /\ reg' = IF reg = "waiting" THEN state ELSE reg

\* One getEvents page.  The walk ends at the tip, or at its page limit.
walkPage ==
    LET last == Min({walkFrom + PAGE, Len(ops)})
        done == last = Len(ops) \/ walk + 1 = MAX_PAGES_PER_REFRESH
    IN
    /\ walk # None
    /\ records' = records \union {i \in PositionEvents : walkFrom < i /\ i <= last}
    /\ cursor' = last
    /\ IF done THEN fresh' = TRUE /\ EndWalk("lookup")
       ELSE walk' = walk + 1 /\ UNCHANGED <<fresh, reg>>
    /\ UNCHANGED <<world, key, got, firstSeen, cache, skipped, faults>>

\* Every caller of the walk fails; pages already read stay.
walkFails ==
    /\ walk # None /\ Fault /\ EndWalk("idle")
    /\ got' = IF reg = "waiting" THEN Nothing ELSE got
    /\ UNCHANGED <<world, records, cursor, fresh, key, firstSeen, cache, skipped>>

freshForMsPasses ==
    /\ fresh /\ fresh' = FALSE
    /\ UNCHANGED <<world, records, cursor, walk, key, reg, got, firstSeen, cache, skipped, faults>>

-----------------------------------------------------------------------------
(* The routes.  A computation per key is shared by its callers (TtlCache).     *)

\* The route's checks pass and nothing is cached: getOrCompute.
Request ==
    /\ reg = "idle" /\ cache = None
    /\ key = "named" => sub # "none"
    /\ reg' = "refresh" /\ got' = [Nothing EXCEPT !.before = Registered]
    /\ firstSeen' = IF key = "named" /\ firstSeen = "no" THEN "window" ELSE firstSeen
    /\ UNCHANGED <<world, index, key, cache, skipped, faults>>

\* SUBMISSION_WINDOW_MS is longer than the call's time bound.
WindowPasses ==
    /\ firstSeen = "window" /\ sub # "sent" /\ firstSeen' = "over"
    /\ UNCHANGED <<world, index, key, reg, got, cache, skipped, faults>>

Reads(r, state) == got' = r /\ reg' = state /\ UNCHANGED <<world, index, key, firstSeen, cache, skipped>>
Read(r, state) == Reads(r, state) /\ UNCHANGED faults

Indexed == {i \in records : ops[i] = "deposit"} # {}

\* history(): after the walk, or at once when the index is fresh.
lookup ==
    /\ reg = "lookup" \/ (reg = "refresh" /\ fresh)
    /\ Read([got EXCEPT !.record = Indexed, !.seen = IF key = "timeline" THEN records ELSE {}],
            IF (Indexed /\ key # "timeline") \/ got.exists THEN "read" ELSE "exists")

\* Mutant: a position without an event is answered at once.
needsForce_Never == FALSE

needsForce == key # "timeline" /\ Registered

\* positionExists / readPosition.  A position without an event forces a walk that
\* starts after this read.
positionExists ==
    /\ reg = "exists"
    /\ Read([got EXCEPT !.exists = Registered], IF needsForce THEN "force" ELSE "read")

Computing == reg \notin {"idle", "answer"}

\* checkDepositSubmission, read alongside the registration.
readSubmission ==
    /\ key = "named" /\ Computing /\ got.sub = None
    /\ Read([got EXCEPT !.sub = IF sub \in {"success", "failed"} THEN sub ELSE "not_found"], reg)

\* Bitcoin is read alongside too.
readBitcoin ==
    /\ Computing /\ got.height = None
    /\ \/ Read([got EXCEPT !.height = height], reg)
       \/ Reads([got EXCEPT !.height = Unknown], reg) /\ Fault

Settled == reg = "read" /\ got.height # None /\ (key = "named" => got.sub # None)
IsRegistered(r) == r.record \/ r.exists

\* bitcoin-spv's tip is asked for last, when Bitcoin alone would allow a proof.
lightClientTip ==
    LET deep == got.height # Unknown /\ got.height > 0 /\ tip - got.height + 1 >= required IN
    /\ Settled /\ key # "timeline"
    /\ \/ Read([got EXCEPT !.lcTip = IF deep THEN lcTip ELSE None], "answer")
       \/ deep /\ Reads([got EXCEPT !.lcTip = Unknown], "answer") /\ Fault

proofReady(r) == r.lcTip # None /\ (r.lcTip = Unknown \/ r.lcTip >= r.height + required - 1)

\* computeStatus: the registration decides first, then the named call, then Bitcoin.
stage(r) ==
    IF IsRegistered(r) THEN "verified"
    ELSE IF r.height = Unknown THEN "error"
    ELSE IF r.sub = "failed" THEN "failed"
    ELSE IF r.sub = "success" \/ (r.sub = "not_found" /\ r.height > 0 /\ firstSeen = "window") THEN "submitted"
    ELSE IF r.height = -1 THEN "unseen"
    ELSE IF r.height = 0 THEN "mempool"
    ELSE IF proofReady(r) THEN "ready" ELSE "confirming"

\* A computation that throws is not cached.
Answer(value) ==
    /\ cache' = value /\ reg' = "idle" /\ got' = Nothing
    /\ UNCHANGED <<world, index, key, firstSeen, skipped>>

\* Bitcoin unreadable is an error unless the deposit is registered.
AnswerStatus ==
    /\ reg = "answer"
    /\ Answer(IF stage(got) = "error" THEN None
              ELSE [stage |-> stage(got), hash |-> got.record \/ (got.exists /\ got.sub = "success"),
                    tipKnown |-> got.lcTip # Unknown, before |-> got.before])
    /\ UNCHANGED faults

\* attributeReceiveLegs: a burn belongs to the owner's last borrow unless a repay
\* came between.
attributeReceiveLegs(borrows) ==
    {i \in Is({"burn"}) :
        LET acts == {j \in Is({"borrow", "elsewhere", "repay"}) : j < i}
        IN acts # {} /\ Max(acts) \in borrows}

\* computeTimeline: the owner's operations are read after the index; gaps name
\* what could not be read.
AnswerTimeline ==
    LET borrows == {i \in got.seen : ops[i] = "borrow"}
        timeline(horizonRead) ==
            [events |-> got.seen, legs |-> IF horizonRead THEN attributeReceiveLegs(borrows) ELSE {},
             complete |-> got.record /\ got.height # Unknown /\ (horizonRead \/ borrows = {})]
    IN
    /\ key = "timeline" /\ Settled
    /\ \/ Answer(IF got.seen = {} /\ ~got.exists THEN None ELSE timeline(TRUE)) /\ UNCHANGED faults
       \/ borrows # {} /\ Answer(timeline(FALSE)) /\ Fault

CacheExpires ==
    /\ cache # None /\ cache' = None
    /\ UNCHANGED <<world, index, key, reg, got, firstSeen, skipped, faults>>

Restart ==
    /\ Fault
    /\ records' = {} /\ cursor' = 0 /\ fresh' = FALSE /\ walk' = None
    /\ reg' = "idle" /\ got' = Nothing /\ firstSeen' = "no" /\ cache' = None
    /\ skipped' = {i \in PositionEvents : i < oldest}
    /\ UNCHANGED <<world, key>>

Next ==
    \/ Bitcoin \/ Submit \/ Land \/ Expire \/ OtherSubmission \/ Act \/ DropOld
    \/ startWalk \/ joinWalk \/ OtherCaller \/ walkPage \/ walkFails \/ freshForMsPasses
    \/ Request \/ WindowPasses \/ lookup \/ positionExists \/ readSubmission \/ readBitcoin
    \/ lightClientTip \/ AnswerStatus \/ AnswerTimeline \/ CacheExpires \/ Restart

Spec == Init /\ [][Next]_vars

-----------------------------------------------------------------------------
\* deposit-status.ts: what an answer says held when it was put together.  verified
\* only for a registered deposit, and without its transaction only when the event
\* is past the RPC's retention; failed only for a call that failed on a deposit
\* that was not registered when the computation began; ready, when the light
\* client could be asked, only when it can verify the proof.
StatusIsTruthful ==
    (cache # None /\ key # "timeline") =>
        /\ cache.stage = "verified" => Registered
        /\ (cache.stage = "verified" /\ ~cache.hash) => \E i \in Is({"deposit"}) : i < oldest
        /\ cache.stage = "failed" => sub = "failed" /\ ~cache.before
        /\ (cache.stage = "ready" /\ cache.tipKnown) => Provable

\* timeline.ts: "False when a source could not be read in full".  The index has
\* every event behind its cursor except those that left the RPC's window before a
\* walk reached them, through partial walks, failed walks and restarts; so a
\* timeline marked complete has no hole below its last event except those, and
\* every leg it shows follows a borrow that it shows.
IndexMissesOnlySkipped ==
    /\ \A i \in PositionEvents : i <= cursor => i \in records \/ i \in skipped
    /\ (cache # None /\ key = "timeline") =>
          /\ (cache.complete => \A i \in PositionEvents : i <= Max(cache.events) => i \in cache.events \/ i \in skipped)
          /\ \A leg \in cache.legs : \E b \in cache.events : b < leg /\ ops[b] = "borrow"
=============================================================================
