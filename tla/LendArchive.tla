----------------------------- MODULE LendArchive -----------------------------
(* The relayer's archive of writz-lend events, the file it exports, and the    *)
(* rebuild of the archive and of the release table after data was lost.  The   *)
(* relayer and the rebuild are two processes on one data directory; Stellar    *)
(* RPC serves only the events of recent ledgers.                               *)
(*                                                                             *)
(* One event per ledger, so an event's ID, its ledger and the cursor that      *)
(* points at it are its place in the log; 0 is the cursor before the first.    *)
(* Borrows and partial repayments, which no check reads, are left out.         *)
EXTENDS Integers, Sequences, FiniteSets, FiniteSetsExt

CONSTANTS
    Txids, Suppliers,
    FilesComplete,          \* FALSE: an archive file may lack some of its events
    NoFile,
    MAX_VERIFY_ROUNDS,      \* 5
    MaxLog, MaxLosses,      \* bounds
    MaxRetired              \* bound on the events that leave RPC's retention

VARIABLES
    log,        \* events of the contract
    oldest,     \* first ledger RPC still serves
    released,   \* positions whose release is on chain
    archive,    \* lend-events.db as a reader sees it, write-ahead log included
    main,       \* the part of it that is in the database file itself
    releases,   \* watcher.db: pending releases and the watcher's cursor
    relayer,    \* down, up, or up with the archive file replaced under it
    file,       \* the exported archive
    rebuild,    \* the rebuild process
    losses

chainVars == <<log, oldest, released>>
vars == <<chainVars, archive, main, releases, relayer, file, rebuild, losses>>

EmptyArchive == [rows |-> {}, cursor |-> 0]
NoRebuild == [at |-> "idle", from |-> NoFile, temp |-> EmptyArchive, before |-> 0,
              unread |-> {}, mismatch |-> FALSE, missing |-> {}, round |-> 1]

Init ==
    /\ log = <<>> /\ oldest = 1 /\ released = {}
    /\ archive = EmptyArchive /\ main = EmptyArchive
    /\ releases = [rows |-> {}, cursor |-> 0]
    /\ relayer = "down" /\ file = NoFile /\ rebuild = NoRebuild /\ losses = 0

-----------------------------------------------------------------------------
(* What a set of archived events says of the contract (replay.ts)              *)

Named(ids, names, subject) == {i \in ids : log[i].name \in names /\ log[i].subject = subject}

\* "none" for a position the events do not mention.
replayStatus(ids, t) ==
    LET ends == Named(ids, {"deposit", "repay_full", "liquidate"}, t)
    IN  IF ends = {} THEN "none"
        ELSE [deposit |-> "Active", repay_full |-> "Closed", liquidate |-> "Liquidated"][log[Max(ends)].name]

replayScaled(ids, s) ==
    Cardinality(Named(ids, {"supply"}, s)) - Cardinality(Named(ids, {"withdraw"}, s))

replayTotal(ids) == MapThenSumSet(LAMBDA s : replayScaled(ids, s), Suppliers)

repaidInFull(ids) == {t \in Txids : Named(ids, {"repay_full"}, t) # {}}

\* The contract's own state is what all of its events say.
Status(t) == replayStatus(DOMAIN log, t)
ScaledSupply(s) == replayScaled(DOMAIN log, s)

-----------------------------------------------------------------------------
(* The chain                                                                   *)

Emit(name, subject) ==
    /\ Len(log) < MaxLog
    /\ \/ name = "deposit" /\ subject \in Txids /\ Status(subject) = "none"
       \/ name \in {"repay_full", "liquidate"} /\ subject \in Txids /\ Status(subject) = "Active"
       \/ name = "supply" /\ subject \in Suppliers
       \/ name = "withdraw" /\ subject \in Suppliers /\ ScaledSupply(subject) > 0
       \/ name = "admin" /\ subject = NoFile
    /\ log' = Append(log, [name |-> name, subject |-> subject])
    /\ UNCHANGED <<oldest, released, archive, main, releases, relayer, file, rebuild, losses>>

Retire ==
    /\ oldest <= Len(log) /\ oldest <= MaxRetired
    /\ oldest' = oldest + 1
    /\ UNCHANGED <<log, released, archive, main, releases, relayer, file, rebuild, losses>>

\* getEvents after a cursor fails once an event behind it is no longer served.
Served(cursor) == cursor + 1 >= oldest

-----------------------------------------------------------------------------
(* The relayer                                                                 *)

\* decodeLendEvent: administrative events are not archived.
Archived(ids) == {i \in ids : log[i].name # "admin"}

\* Rows and cursor in one transaction.
commit(store, new) ==
    [rows |-> store.rows \union Archived((store.cursor + 1)..new), cursor |-> new]

\* claimDataDir marks the directory and asks nothing: a rebuild may be running.
StartRelayer ==
    /\ relayer = "down" /\ relayer' = "up"
    /\ UNCHANGED <<chainVars, archive, main, releases, file, rebuild, losses>>

\* Closing the database moves the write-ahead log into the file; a crash leaves it.
StopRelayer ==
    /\ relayer # "down" /\ relayer' = "down"
    /\ main' \in IF relayer = "up" THEN {main, archive} ELSE {main}
    /\ UNCHANGED <<chainVars, archive, releases, file, rebuild, losses>>

\* Pages up to the newest event.  A failed read leaves the cursor where it was.
runLendEventsCycle ==
    /\ relayer = "up" /\ Served(archive.cursor) /\ archive.cursor < Len(log)
    /\ archive' = commit(archive, Len(log))
    /\ UNCHANGED <<chainVars, main, releases, relayer, file, rebuild, losses>>

recordBatch(txids, new) == releases' = [rows |-> releases.rows \union txids, cursor |-> new]

\* The repay watcher's page, and its publishing (RepayWatcher has the detail).
WatcherPage ==
    /\ relayer # "down" /\ Served(releases.cursor) /\ releases.cursor < Len(log)
    /\ recordBatch(repaidInFull((releases.cursor + 1)..Len(log)), Len(log))
    /\ UNCHANGED <<chainVars, archive, main, relayer, file, rebuild, losses>>

WatcherReleases(t) ==
    /\ relayer # "down" /\ t \in releases.rows
    /\ released' = released \union {t}
    /\ releases' = [releases EXCEPT !.rows = @ \ {t}]
    /\ UNCHANGED <<log, oldest, archive, main, relayer, file, rebuild, losses>>

snapshot == archive

\* export-lend-events, or GET /lend-events/export: rows and cursor of one moment.
\* One export, from before the loss: later ones would only be fresher.
Export ==
    /\ archive.cursor > 0 /\ file = NoFile /\ losses = 0
    /\ file' = snapshot
    /\ UNCHANGED <<chainVars, archive, main, releases, relayer, rebuild, losses>>

\* A disk is lost or restored empty: either database, or both.
LoseData ==
    /\ losses < MaxLosses /\ losses' = losses + 1
    /\ relayer = "down" /\ rebuild.at = "idle"
    /\ \/ archive' = EmptyArchive /\ main' = EmptyArchive /\ UNCHANGED releases
       \/ archive' = EmptyArchive /\ main' = EmptyArchive /\ releases' = [rows |-> {}, cursor |-> 0]
       \/ releases' = [rows |-> {}, cursor |-> 0] /\ UNCHANGED <<archive, main>>
    /\ UNCHANGED <<chainVars, relayer, file, rebuild>>

-----------------------------------------------------------------------------
(* rebuild-lend-state                                                          *)

OnlyRebuild == UNCHANGED <<chainVars, archive, main, releases, relayer, file, losses>>

\* parseArchive accepts the file: its events are in order, match their raw XDR
\* and end before the cursor.  It cannot see that one is missing.
parseArchive(f) ==
    IF FilesComplete THEN {f} ELSE {[f EXCEPT !.rows = r] : r \in SUBSET f.rows}

\* assertDataDirFree, once, before anything else.  An operator rebuilds what was lost.
StartRebuild ==
    /\ rebuild.at = "idle" /\ relayer = "down" /\ losses > 0
    /\ \E from \in {NoFile} \union (IF file = NoFile THEN {} ELSE parseArchive(file)) :
         rebuild' = [NoRebuild EXCEPT !.at = "range", !.from = from]
    /\ OnlyRebuild

ledgerRange ==
    /\ rebuild.at = "range"
    /\ IF rebuild.from = NoFile THEN 1 >= oldest ELSE rebuild.from.cursor >= oldest
    /\ rebuild' = [NoRebuild EXCEPT !.at = "catchUp",
                                    !.temp = IF rebuild.from = NoFile THEN EmptyArchive ELSE rebuild.from]
    /\ OnlyRebuild

\* replay(): what a round of verifyAgainstChain will ask the contract about.
Round(temp, round) ==
    [NoRebuild EXCEPT !.at = "views", !.temp = temp, !.before = Cardinality(temp.rows), !.round = round,
                      !.unread = {t \in Txids : replayStatus(temp.rows, t) # "none"}
                                 \union {s \in Suppliers : Named(temp.rows, {"supply"}, s) # {}}]

\* runLendEventsCycle into the temporary store until the chain has nothing newer,
\* and the first replay.
catchUp ==
    /\ rebuild.at = "catchUp" /\ Served(rebuild.temp.cursor)
    /\ rebuild' = Round(commit(rebuild.temp, Len(log)), 1)
    /\ OnlyRebuild

Agrees(x) ==
    IF x \in Txids THEN Status(x) = replayStatus(rebuild.temp.rows, x)
    ELSE ScaledSupply(x) = replayScaled(rebuild.temp.rows, x)

\* positionStatus or scaledSupply, each at the ledger of its own call.
ReadView ==
    /\ rebuild.at = "views"
    /\ \E x \in rebuild.unread :
         rebuild' = IF Agrees(x) THEN [rebuild EXCEPT !.unread = @ \ {x}]
                    ELSE [rebuild EXCEPT !.at = "again", !.unread = {}, !.mismatch = TRUE]
    /\ OnlyRebuild

ReadTotal ==
    LET same == replayTotal(DOMAIN log) = replayTotal(rebuild.temp.rows) IN
    /\ rebuild.at = "views" /\ rebuild.unread = {}
    /\ rebuild' = [rebuild EXCEPT !.at = IF same THEN "releases" ELSE "again", !.mismatch = ~same]
    /\ OnlyRebuild

hasRelease ==
    /\ rebuild.at = "releases"
    /\ rebuild' = [rebuild EXCEPT !.at = "again", !.missing = repaidInFull(rebuild.temp.rows) \ released]
    /\ OnlyRebuild

\* Mutant: what was verified counts, whatever arrived meanwhile.
Quiet_Always(rows) == TRUE

\* No event was archived while the views were read.
Quiet(rows) == Cardinality(rows) = rebuild.before

\* The second catchUp and what follows it without an await.
verified ==
    LET temp == commit(rebuild.temp, Len(log)) IN
    /\ rebuild.at = "again" /\ Served(rebuild.temp.cursor)
    /\ \/ ~Quiet(temp.rows) /\ rebuild.round < MAX_VERIFY_ROUNDS
          /\ rebuild' = Round(temp, rebuild.round + 1)
       \/ Quiet(temp.rows) /\ ~rebuild.mismatch
          /\ rebuild' = [NoRebuild EXCEPT !.at = "swap", !.temp = temp, !.missing = rebuild.missing]
    /\ OnlyRebuild

\* The old write-ahead log goes first: until the rename, a crash leaves the old
\* file without it.  A relayer that started meanwhile keeps the unlinked files.
RemoveWal ==
    /\ rebuild.at = "swap"
    /\ archive' = main
    /\ relayer' = IF relayer = "up" THEN "orphan" ELSE relayer
    /\ rebuild' = [rebuild EXCEPT !.at = "rename"]
    /\ UNCHANGED <<chainVars, main, releases, file, losses>>

Rename ==
    /\ rebuild.at = "rename"
    /\ archive' = rebuild.temp /\ main' = rebuild.temp
    /\ relayer' = IF relayer = "up" THEN "orphan" ELSE relayer
    /\ rebuild' = [rebuild EXCEPT !.at = "record"]
    /\ UNCHANGED <<chainVars, releases, file, losses>>

RecordMissing ==
    /\ rebuild.at = "record"
    /\ recordBatch(rebuild.missing, rebuild.temp.cursor)
    /\ rebuild' = NoRebuild
    /\ UNCHANGED <<chainVars, archive, main, relayer, file, losses>>

\* A check fails, a read fails, it was a dry run, or the process dies.
RebuildEnds ==
    /\ rebuild.at # "idle"
    /\ rebuild' = NoRebuild
    /\ OnlyRebuild

Next ==
    \/ \E name \in {"deposit", "repay_full", "liquidate", "supply", "withdraw", "admin"},
          subject \in Txids \union Suppliers \union {NoFile} : Emit(name, subject)
    \/ Retire \/ StartRelayer \/ StopRelayer \/ runLendEventsCycle
    \/ WatcherPage \/ (\E t \in Txids : WatcherReleases(t)) \/ Export \/ LoseData
    \/ StartRebuild \/ ledgerRange \/ catchUp \/ ReadView \/ ReadTotal \/ hasRelease
    \/ verified \/ RemoveWal \/ Rename \/ RecordMissing \/ RebuildEnds

Spec == Init /\ [][Next]_vars

-----------------------------------------------------------------------------
\* store.ts: "a crash can leave neither a gap nor a double read".  Whatever mix
\* of polls, lost disks, exports, rebuilds from RPC or from an old file, and
\* crashes of a rebuild half-way through its swap, the archive holds exactly the
\* events up to its cursor.
ArchiveHasNoGap ==
    \A store \in {archive, main} : store.rows = Archived(1..store.cursor)

\* No repayment before the watcher's cursor is forgotten: also after the table
\* was lost and a rebuild set the cursor from what it verified while new events
\* kept arriving, a repaid position is released or has a row.
NoReleaseSkipped ==
    \A t \in repaidInFull(1..releases.cursor) : t \in released \/ t \in releases.rows

\* rebuild.ts: a source of events "is either proven by the chain or rejected".
AcceptedFileIsProven ==
    rebuild.at \in {"rename", "record"} => \A t \in repaidInFull(1..rebuild.temp.cursor) : t \in released \union rebuild.missing
=============================================================================
