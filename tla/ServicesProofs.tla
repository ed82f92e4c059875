--------------------------- MODULE ServicesProofs ---------------------------
(* Proofs about the relayer's services as MCServices puts them together, for  *)
(* every value of the constants and every bound.                              *)
EXTENDS MCServices, NumberFacts

\* Counting is the same in every component.
LEMMA Counting ==
    ASSUME NEW S
    PROVE  /\ Archive!Cardinality(S) = Cardinality(S)
           /\ Claims!Cardinality(S) = Cardinality(S)
           /\ Api!Cardinality(S) = Cardinality(S)
           /\ Vault!Cardinality(S) = Cardinality(S)
<1>1. Archive!Cardinality(S) = Cardinality(S)
    BY DEF Archive!Cardinality, Cardinality
<1>2. Claims!Cardinality(S) = Cardinality(S)
    BY DEF Claims!Cardinality, Cardinality
<1>3. Api!Cardinality(S) = Cardinality(S)
    BY DEF Api!Cardinality, Cardinality
<1>4. Vault!Cardinality(S) = Cardinality(S)
    BY DEF Vault!Cardinality, Cardinality
<1> QED
    BY <1>1, <1>2, <1>3, <1>4

(* The archive of lend events and its rebuild.                                *)

\* The archived events among the first n of a log.
RowsOf(l, n) == {i \in 1..n : l[i].name # "admin"}

\* The store holds exactly the archived events up to its cursor.
Whole(l, store) ==
    /\ store = [rows |-> store.rows, cursor |-> store.cursor]
    /\ store.cursor \in 0..Len(l)
    /\ store.rows = RowsOf(l, store.cursor)

\* The positions that a log repays in full at one of the places ids.
Repaid(l, ids) == {t \in Txids : \E i \in ids : l[i].name = "repay_full" /\ l[i].subject = t}

\* What RPC can serve: an event per ledger.
Entries ==
    [name : {"deposit", "repay_full", "liquidate", "supply", "withdraw", "admin"},
     subject : Txids \union Suppliers \union {NoFile}]

\* A log that only got longer.
Extends(l, longer) ==
    /\ Len(l) \in Nat /\ Len(longer) \in Nat /\ Len(l) <= Len(longer)
    /\ \A i \in 1..Len(l) : longer[i] = l[i]

\* A log that got one entry longer says of the old places what it said before.
LEMMA AppendExtends ==
    ASSUME NEW S, NEW l \in Seq(S), NEW e \in S
    PROVE  Extends(l, Append(l, e)) /\ Append(l, e) \in Seq(S)
BY DEF Extends

\* A store stays whole when the log grows.
LEMMA WholeWhenLonger ==
    ASSUME NEW l, NEW longer, Extends(l, longer), NEW store, Whole(l, store)
    PROVE  Whole(longer, store)
<1>1. store.cursor \in 0..Len(longer)
    BY DEF Whole, Extends
<1>2. RowsOf(longer, store.cursor) = RowsOf(l, store.cursor)
    BY DEF Whole, Extends, RowsOf
<1> QED
    BY <1>1, <1>2 DEF Whole

\* So do the repayments among the old places.
LEMMA RepaidWhenLonger ==
    ASSUME NEW l, NEW longer, Extends(l, longer), NEW n \in 0..Len(l)
    PROVE  Repaid(longer, 1..n) = Repaid(l, 1..n)
BY DEF Repaid, Extends

\* No repayment is among the events that are not archived.
LEMMA RepaidIsArchived ==
    ASSUME NEW l, NEW n
    PROVE  Repaid(l, RowsOf(l, n)) = Repaid(l, 1..n)
BY DEF Repaid, RowsOf

\* Repayments up to n are those up to c and those after it.
LEMMA RepaidSplits ==
    ASSUME NEW l, NEW n \in Nat, NEW c \in 0..n
    PROVE  Repaid(l, 1..n) = Repaid(l, 1..c) \union Repaid(l, (c + 1)..n)
<1>1. 1..n = (1..c) \union ((c + 1)..n)
    OBVIOUS
<1> QED
    BY <1>1 DEF Repaid

\* commit of a whole store leaves one.
LEMMA CommitIsWhole ==
    ASSUME NEW store, Whole(log, store), Len(log) \in Nat
    PROVE  /\ Whole(log, Archive!commit(store, Len(log)))
           /\ Archive!commit(store, Len(log)).cursor = Len(log)
           /\ Archive!commit(store, Len(log)).rows = RowsOf(log, Len(log))
           /\ store.rows \subseteq RowsOf(log, Len(log))
<1>1. store.cursor \in 0..Len(log) /\ store.rows = RowsOf(log, store.cursor)
    BY DEF Whole
<1>2. 1..Len(log) = (1..store.cursor) \union ((store.cursor + 1)..Len(log))
    BY <1>1
<1>3. RowsOf(log, Len(log)) = store.rows \union Archive!Archived((store.cursor + 1)..Len(log))
    BY <1>1, <1>2 DEF RowsOf, Archive!Archived
<1> QED
    BY <1>3 DEF Whole, Archive!commit

\* A round that archived nothing has the rows of the round before.
LEMMA QuietIsSame ==
    ASSUME NEW store, Whole(log, store), Len(log) \in Nat,
           Cardinality(RowsOf(log, Len(log))) = Cardinality(store.rows)
    PROVE  store.rows = RowsOf(log, Len(log))
<1>1. store.rows \subseteq RowsOf(log, Len(log))
    BY CommitIsWhole
<1>2. IsFiniteSet(1..Len(log)) /\ RowsOf(log, Len(log)) \in SUBSET (1..Len(log))
    BY FS_Interval DEF RowsOf
<1>3. IsFiniteSet(RowsOf(log, Len(log)))
    BY <1>2, FS_Subset
<1> QED
    BY <1>1, <1>3, FS_Subset

\* What the rebuild knows at each of its steps.  Once the releases were looked
\* up, every repayment its store has seen is released or noted as missing.
RebuildInv ==
    /\ rebuild = [at |-> rebuild.at, from |-> rebuild.from, temp |-> rebuild.temp,
                  before |-> rebuild.before, unread |-> rebuild.unread,
                  mismatch |-> rebuild.mismatch, missing |-> rebuild.missing, round |-> rebuild.round]
    /\ rebuild.at \in {"idle", "range", "catchUp", "views", "releases", "again", "swap", "rename", "record"}
    /\ rebuild.at = "range" /\ rebuild.from # NoFile => Whole(log, rebuild.from)
    /\ rebuild.at \notin {"idle", "range"} => Whole(log, rebuild.temp)
    /\ rebuild.at \in {"views", "releases", "again"} => rebuild.before = Cardinality(rebuild.temp.rows)
    /\ (rebuild.at = "again" /\ rebuild.mismatch = FALSE) \/ rebuild.at \in {"swap", "rename", "record"} =>
          Repaid(log, 1..rebuild.temp.cursor) \subseteq released \union rebuild.missing

\* The archive, the exported file and the rebuild's store are whole, and the
\* table of releases has seen every repayment behind its cursor.
ArchiveInv ==
    /\ log \in Seq(Entries)
    /\ Whole(log, archive) /\ Whole(log, main)
    /\ releases = [rows |-> releases.rows, cursor |-> releases.cursor]
    /\ releases.cursor \in 0..Len(log)
    /\ Repaid(log, 1..releases.cursor) \subseteq released \union releases.rows
    /\ file # NoFile => Whole(log, file)
    /\ RebuildInv

\* All but the chain and the rebuild, left alone or not, with the log as it was.
LEMMA ArchiveKept ==
    ASSUME ArchiveInv, UNCHANGED <<log, archive, main, releases, file>>,
           released \subseteq released', RebuildInv'
    PROVE  ArchiveInv'
BY DEF ArchiveInv, Whole, RowsOf, Repaid

\* The rebuild's knowledge survives what does not touch it: repayments are only
\* ever released, never taken back.
LEMMA RebuildKept ==
    ASSUME RebuildInv, UNCHANGED <<log, rebuild>>, released \subseteq released'
    PROVE  RebuildInv'
BY DEF RebuildInv, Whole, RowsOf, Repaid

\* A new event on the chain.
LEMMA EmitKeepsArchive ==
    ASSUME ArchiveInv, NEW name, NEW subject,
           name \in {"deposit", "repay_full", "liquidate", "supply", "withdraw", "admin"},
           subject \in Txids \union Suppliers \union {NoFile},
           Archive!Emit(name, subject)
    PROVE  ArchiveInv'
<1> DEFINE e == [name |-> name, subject |-> subject]
<1>1. log' = Append(log, e) /\ UNCHANGED <<released, archive, main, releases, file, rebuild>>
    BY DEF Archive!Emit
<1>2. log \in Seq(Entries) /\ e \in Entries
    BY DEF ArchiveInv, Entries
<1>3. Extends(log, log') /\ log' \in Seq(Entries)
    BY <1>1, <1>2, AppendExtends
<1>4. ASSUME NEW s, Whole(log, s) PROVE Whole(log', s)
    BY <1>3, <1>4, WholeWhenLonger
<1>5. ASSUME NEW n \in 0..Len(log) PROVE Repaid(log', 1..n) = Repaid(log, 1..n)
    BY <1>3, RepaidWhenLonger
<1>6. Len(log) \in Nat /\ Len(log') \in Nat /\ Len(log) <= Len(log')
    BY <1>3 DEF Extends
<1>7. Whole(log', archive) /\ Whole(log', main) /\ (file # NoFile => Whole(log', file))
    BY <1>4 DEF ArchiveInv
<1>8. releases.cursor \in 0..Len(log') /\ Repaid(log', 1..releases.cursor) \subseteq released \union releases.rows
    BY <1>5, <1>6 DEF ArchiveInv
<1>9. RebuildInv'
  <2> DEFINE r == rebuild
  <2>1. rebuild' = rebuild /\ released' = released /\ RebuildInv
      BY <1>1 DEF ArchiveInv
  <2>2. rebuild.at \notin {"idle", "range"} => rebuild.temp.cursor \in 0..Len(log)
      BY <2>1 DEF RebuildInv, Whole
  <2>3. rebuild.at \notin {"idle", "range"} =>
          Repaid(log', 1..rebuild.temp.cursor) = Repaid(log, 1..rebuild.temp.cursor)
      BY <1>5, <2>2
  <2>4. /\ rebuild.at = "range" /\ rebuild.from # NoFile => Whole(log', rebuild.from)
        /\ rebuild.at \notin {"idle", "range"} => Whole(log', rebuild.temp)
      BY <1>4, <2>1 DEF RebuildInv
  <2>5. (rebuild.at = "again" /\ rebuild.mismatch = FALSE) \/ rebuild.at \in {"swap", "rename", "record"} =>
          Repaid(log', 1..rebuild.temp.cursor) \subseteq released \union rebuild.missing
      BY <2>1, <2>3 DEF RebuildInv
  <2> QED
      BY <2>1, <2>4, <2>5 DEF RebuildInv
<1> QED
    BY <1>1, <1>3, <1>7, <1>8, <1>9 DEF ArchiveInv

\* A poll, of the archive or of the watcher.
LEMMA PollKeepsArchive ==
    ASSUME ArchiveInv, Archive!runLendEventsCycle \/ Archive!WatcherPage
    PROVE  ArchiveInv'
<1>0. Len(log) \in Nat
    BY DEF ArchiveInv
<1>1. CASE Archive!runLendEventsCycle
  <2>1. /\ archive' = Archive!commit(archive, Len(log))
        /\ UNCHANGED <<log, released, main, releases, file, rebuild>>
      BY <1>1 DEF Archive!runLendEventsCycle, Archive!chainVars
  <2>2. Whole(log, archive')
      BY <1>0, <2>1, CommitIsWhole DEF ArchiveInv
  <2>3. RebuildInv'
      BY <2>1, RebuildKept DEF ArchiveInv
  <2> QED
      BY <2>1, <2>2, <2>3 DEF ArchiveInv, Whole, RowsOf, Repaid
<1>2. CASE Archive!WatcherPage
  <2> DEFINE new == Repaid(log, (releases.cursor + 1)..Len(log))
  <2>1. /\ releases' = [rows |-> releases.rows \union new, cursor |-> Len(log)]
        /\ UNCHANGED <<log, released, archive, main, file, rebuild>>
      BY <1>2 DEF Archive!WatcherPage, Archive!recordBatch, Archive!repaidInFull, Archive!Named,
                  Archive!chainVars, Repaid
  <2>2. Repaid(log, 1..Len(log)) = Repaid(log, 1..releases.cursor) \union new
      BY <1>0, RepaidSplits DEF ArchiveInv
  <2>3. Repaid(log, 1..Len(log)) \subseteq released \union (releases.rows \union new)
      BY <2>2 DEF ArchiveInv
  <2>4. RebuildInv'
      BY <2>1, RebuildKept DEF ArchiveInv
  <2>5. /\ releases'.cursor = Len(log) /\ Len(log) \in 0..Len(log)
        /\ releases' = [rows |-> releases'.rows, cursor |-> releases'.cursor]
        /\ Repaid(log, 1..releases'.cursor) \subseteq released \union releases'.rows
      BY <1>0, <2>1, <2>3
  <2> QED
      BY <2>1, <2>4, <2>5 DEF ArchiveInv, Whole, RowsOf, Repaid
<1> QED
    BY <1>1, <1>2

\* The other steps of the chain, the relayer and the disks.
LEMMA RelayerKeepsArchive ==
    ASSUME ArchiveInv,
           \/ Archive!Retire \/ Archive!StartRelayer \/ Archive!StopRelayer
           \/ (\E t \in Txids : Archive!WatcherReleases(t)) \/ Archive!Export \/ Archive!LoseData
    PROVE  ArchiveInv'
<1>0. Len(log) \in Nat
    BY DEF ArchiveInv
<1>1. CASE Archive!Retire \/ Archive!StartRelayer
  <2>1. UNCHANGED <<log, released, archive, main, releases, file, rebuild>>
      BY <1>1 DEF Archive!Retire, Archive!StartRelayer, Archive!chainVars
  <2> QED
      BY <2>1, RebuildKept, ArchiveKept DEF ArchiveInv
<1>2. CASE Archive!StopRelayer
  <2>1. main' \in {main, archive} /\ UNCHANGED <<log, released, archive, releases, file, rebuild>>
      BY <1>2 DEF Archive!StopRelayer, Archive!chainVars
  <2>2. RebuildInv'
      BY <2>1, RebuildKept DEF ArchiveInv
  <2>3. Whole(log, main')
      BY <2>1 DEF ArchiveInv
  <2> QED
      BY <2>1, <2>2, <2>3 DEF ArchiveInv, Whole, RowsOf, Repaid
<1>3. CASE \E t \in Txids : Archive!WatcherReleases(t)
  <2>1. PICK t \in Txids : Archive!WatcherReleases(t)
      BY <1>3
  <2>2. /\ released' = released \union {t}
        /\ releases' = [rows |-> releases.rows \ {t}, cursor |-> releases.cursor]
        /\ UNCHANGED <<log, archive, main, file, rebuild>>
      BY <2>1 DEF Archive!WatcherReleases, ArchiveInv
  <2>3. RebuildInv'
      BY <2>2, RebuildKept DEF ArchiveInv
  <2>4. /\ releases' = [rows |-> releases'.rows, cursor |-> releases'.cursor]
        /\ releases'.cursor = releases.cursor /\ releases'.rows = releases.rows \ {t}
      BY <2>2
  <2>5. Repaid(log, 1..releases'.cursor) \subseteq released' \union releases'.rows
      BY <2>2, <2>4 DEF ArchiveInv
  <2> QED
      BY <2>2, <2>3, <2>4, <2>5 DEF ArchiveInv, Whole, RowsOf, Repaid
<1>4. CASE Archive!Export
  <2>1. file' = archive /\ UNCHANGED <<log, released, archive, main, releases, rebuild>>
      BY <1>4 DEF Archive!Export, Archive!snapshot, Archive!chainVars
  <2>2. RebuildInv'
      BY <2>1, RebuildKept DEF ArchiveInv
  <2> QED
      BY <2>1, <2>2 DEF ArchiveInv, Whole, RowsOf, Repaid
<1>5. CASE Archive!LoseData
  <2>1. /\ archive' \in {archive, Archive!EmptyArchive} /\ main' \in {main, Archive!EmptyArchive}
        /\ releases' \in {releases, [rows |-> {}, cursor |-> 0]}
        /\ UNCHANGED <<log, released, file, rebuild>>
      BY <1>5 DEF Archive!LoseData, Archive!chainVars
  <2>2. RebuildInv'
      BY <2>1, RebuildKept DEF ArchiveInv
  <2>3. Whole(log, Archive!EmptyArchive)
    <3>1. RowsOf(log, 0) = {}
        BY DEF RowsOf
    <3> QED
        BY <1>0, <3>1 DEF Archive!EmptyArchive, Whole
  <2>4. Whole(log, archive') /\ Whole(log, main')
      BY <2>1, <2>3 DEF ArchiveInv
  <2>5. CASE releases' = releases
      BY <2>1, <2>2, <2>4, <2>5 DEF ArchiveInv, Whole, RowsOf, Repaid
  <2>6. CASE releases' = [rows |-> {}, cursor |-> 0]
    <3>1. Repaid(log, 1..0) = {}
        BY DEF Repaid
    <3>2. /\ releases'.cursor = 0 /\ releases' = [rows |-> releases'.rows, cursor |-> releases'.cursor]
        BY <2>6
    <3> QED
        BY <1>0, <2>1, <2>2, <2>4, <3>1, <3>2 DEF ArchiveInv, Whole, RowsOf, Repaid
  <2> QED
      BY <2>1, <2>5, <2>6
<1> QED
    BY <1>1, <1>2, <1>3, <1>4, <1>5

\* The rebuild up to its swap.
LEMMA RebuildKeepsArchive ==
    ASSUME FilesComplete = TRUE, ArchiveInv,
           \/ Archive!StartRebuild \/ Archive!ledgerRange \/ Archive!catchUp \/ Archive!ReadView
           \/ Archive!ReadTotal \/ Archive!hasRelease \/ Archive!verified \/ Archive!RebuildEnds
    PROVE  ArchiveInv'
<1>0. Len(log) \in Nat /\ RebuildInv
    BY DEF ArchiveInv
<1>1. UNCHANGED <<log, released, archive, main, releases, file>>
    BY DEF Archive!StartRebuild, Archive!ledgerRange, Archive!catchUp, Archive!ReadView, Archive!ReadTotal,
           Archive!hasRelease, Archive!verified, Archive!RebuildEnds, Archive!OnlyRebuild, Archive!chainVars
<1>2. SUFFICES RebuildInv'
    BY <1>1, ArchiveKept
\* What has to hold of the next state of the rebuild, the log being as it was.
<1> DEFINE Good(r) ==
    /\ r = [at |-> r.at, from |-> r.from, temp |-> r.temp, before |-> r.before, unread |-> r.unread,
            mismatch |-> r.mismatch, missing |-> r.missing, round |-> r.round]
    /\ r.at \in {"idle", "range", "catchUp", "views", "releases", "again", "swap", "rename", "record"}
    /\ r.at = "range" /\ r.from # NoFile => Whole(log, r.from)
    /\ r.at \notin {"idle", "range"} => Whole(log, r.temp)
    /\ r.at \in {"views", "releases", "again"} => r.before = Cardinality(r.temp.rows)
    /\ (r.at = "again" /\ r.mismatch = FALSE) \/ r.at \in {"swap", "rename", "record"} =>
          Repaid(log, 1..r.temp.cursor) \subseteq released \union r.missing
<1>3. Good(rebuild') => RebuildInv'
    BY <1>1 DEF RebuildInv, Whole, RowsOf, Repaid
<1>4. SUFFICES Good(rebuild')
    BY <1>3
<1>5. CASE Archive!StartRebuild
  <2>1. PICK from \in {NoFile} \union (IF file = NoFile THEN {} ELSE Archive!parseArchive(file)) :
            rebuild' = [Archive!NoRebuild EXCEPT !.at = "range", !.from = from]
      BY <1>5 DEF Archive!StartRebuild
  <2>2. Archive!parseArchive(file) = {file}
      BY DEF Archive!parseArchive
  <2>3. from # NoFile => Whole(log, from)
      BY <2>1, <2>2 DEF ArchiveInv
  <2> QED
      BY <2>1, <2>3 DEF Archive!NoRebuild
<1>6. CASE Archive!ledgerRange
  <2> DEFINE temp == IF rebuild.from = NoFile THEN Archive!EmptyArchive ELSE rebuild.from
  <2>1. rebuild.at = "range" /\ rebuild' = [Archive!NoRebuild EXCEPT !.at = "catchUp", !.temp = temp]
      BY <1>6 DEF Archive!ledgerRange
  <2>2. Whole(log, Archive!EmptyArchive)
    <3>1. RowsOf(log, 0) = {}
        BY DEF RowsOf
    <3> QED
        BY <1>0, <3>1 DEF Archive!EmptyArchive, Whole
  <2>3. Whole(log, temp)
      BY <1>0, <2>1, <2>2 DEF RebuildInv
  <2> QED
      BY <2>1, <2>3 DEF Archive!NoRebuild
<1>7. ASSUME rebuild.at \notin {"idle", "range"}, NEW n,
             rebuild' = Archive!Round(Archive!commit(rebuild.temp, Len(log)), n)
      PROVE  Good(rebuild')
  <2> DEFINE temp == Archive!commit(rebuild.temp, Len(log))
  <2>1. Whole(log, temp)
      BY <1>0, <1>7, CommitIsWhole DEF RebuildInv
  <2> HIDE DEF temp
  <2>2. /\ rebuild'.at = "views" /\ rebuild'.temp = temp /\ rebuild'.before = Cardinality(temp.rows)
        /\ rebuild' = [at |-> rebuild'.at, from |-> rebuild'.from, temp |-> rebuild'.temp,
                       before |-> rebuild'.before, unread |-> rebuild'.unread,
                       mismatch |-> rebuild'.mismatch, missing |-> rebuild'.missing, round |-> rebuild'.round]
      BY <1>7, Counting DEF Archive!Round, Archive!NoRebuild, temp
  <2> QED
      BY <2>1, <2>2
<1>8. CASE Archive!catchUp
    BY <1>7, <1>8 DEF Archive!catchUp
<1>9. CASE Archive!ReadView
    BY <1>0, <1>9 DEF Archive!ReadView, RebuildInv
<1>10. CASE Archive!ReadTotal
  <2> DEFINE same == Archive!replayTotal(DOMAIN log) = Archive!replayTotal(rebuild.temp.rows)
  <2>1. /\ rebuild.at = "views"
        /\ rebuild' = [rebuild EXCEPT !.at = IF same THEN "releases" ELSE "again", !.mismatch = ~same]
      BY <1>10 DEF Archive!ReadTotal
  <2> HIDE DEF same
  <2>2. CASE same
      BY <1>0, <2>1, <2>2 DEF RebuildInv
  <2>3. CASE ~same
      BY <1>0, <2>1, <2>3 DEF RebuildInv
  <2> QED
      BY <2>2, <2>3
<1>11. CASE Archive!hasRelease
  <2> DEFINE missing == Repaid(log, rebuild.temp.rows) \ released
  <2>1. rebuild.at = "releases" /\ rebuild' = [rebuild EXCEPT !.at = "again", !.missing = missing]
      BY <1>11 DEF Archive!hasRelease, Archive!repaidInFull, Archive!Named, Repaid
  <2>2. Repaid(log, 1..rebuild.temp.cursor) \subseteq released \union missing
      BY <1>0, <2>1, RepaidIsArchived DEF RebuildInv, Whole
  <2> HIDE DEF missing
  <2> QED
      BY <1>0, <2>1, <2>2 DEF RebuildInv
<1>12. CASE Archive!verified
  <2> DEFINE temp == Archive!commit(rebuild.temp, Len(log))
  <2>1. rebuild.at = "again" /\ Whole(log, rebuild.temp) /\ rebuild.before = Cardinality(rebuild.temp.rows)
      BY <1>0, <1>12 DEF Archive!verified, RebuildInv
  <2>2. CASE rebuild' = Archive!Round(temp, rebuild.round + 1)
      BY <1>7, <2>1, <2>2
  <2>3. CASE /\ Archive!Quiet(temp.rows) /\ ~rebuild.mismatch
             /\ rebuild' = [Archive!NoRebuild EXCEPT !.at = "swap", !.temp = temp, !.missing = rebuild.missing]
    <3>1. Whole(log, temp) /\ temp.rows = RowsOf(log, Len(log)) /\ temp.cursor = Len(log)
        BY <1>0, <2>1, CommitIsWhole
    <3>2. Cardinality(temp.rows) = rebuild.before
        BY <2>3, Counting DEF Archive!Quiet
    <3>3. rebuild.temp.rows = RowsOf(log, Len(log))
        BY <1>0, <2>1, <3>1, <3>2, QuietIsSame
    <3>4. Repaid(log, 1..rebuild.temp.cursor) = Repaid(log, 1..Len(log))
        BY <2>1, <3>3, RepaidIsArchived DEF Whole
    <3>5. Repaid(log, 1..rebuild.temp.cursor) \subseteq released \union rebuild.missing
        BY <1>0, <2>1, <2>3 DEF RebuildInv
    <3> HIDE DEF temp
    <3> QED
        BY <2>3, <3>1, <3>4, <3>5 DEF Archive!NoRebuild
  <2> QED
      BY <1>12, <2>2, <2>3 DEF Archive!verified
<1>13. CASE Archive!RebuildEnds
    BY <1>13 DEF Archive!RebuildEnds, Archive!NoRebuild
<1> QED
    BY <1>5, <1>6, <1>8, <1>9, <1>10, <1>11, <1>12, <1>13

\* The swap: the old write-ahead log goes, the new file comes, and the table of
\* releases is set to what was verified.
LEMMA SwapKeepsArchive ==
    ASSUME ArchiveInv, Archive!RemoveWal \/ Archive!Rename \/ Archive!RecordMissing
    PROVE  ArchiveInv'
<1>0. Len(log) \in Nat /\ RebuildInv
    BY DEF ArchiveInv
<1>1. UNCHANGED <<log, released, file>>
    BY DEF Archive!RemoveWal, Archive!Rename, Archive!RecordMissing, Archive!chainVars
<1>2. CASE Archive!RemoveWal \/ Archive!Rename
  <2>1. /\ rebuild.at \in {"swap", "rename"} /\ UNCHANGED releases
        /\ \E at \in {"rename", "record"} : rebuild' = [rebuild EXCEPT !.at = at]
        /\ archive' \in {main, rebuild.temp} /\ main' \in {main, rebuild.temp}
      BY <1>2 DEF Archive!RemoveWal, Archive!Rename
  <2>2. Whole(log, archive') /\ Whole(log, main')
      BY <1>0, <2>1 DEF ArchiveInv, RebuildInv
  <2>3. rebuild' = [rebuild EXCEPT !.at = rebuild'.at] /\ rebuild'.at \in {"rename", "record"}
      BY <1>0, <2>1 DEF RebuildInv
  <2>4. RebuildInv'
      BY <1>0, <1>1, <2>1, <2>3 DEF RebuildInv, Whole, RowsOf, Repaid
  <2> QED
      BY <1>1, <2>1, <2>2, <2>4 DEF ArchiveInv, Whole, RowsOf, Repaid
<1>3. CASE Archive!RecordMissing
  <2>1. /\ rebuild.at = "record" /\ UNCHANGED <<archive, main>>
        /\ releases' = [rows |-> releases.rows \union rebuild.missing, cursor |-> rebuild.temp.cursor]
        /\ rebuild' = Archive!NoRebuild
      BY <1>3 DEF Archive!RecordMissing, Archive!recordBatch
  <2>2. rebuild.temp.cursor \in 0..Len(log)
      BY <1>0, <2>1 DEF RebuildInv, Whole
  <2>3. Repaid(log, 1..rebuild.temp.cursor) \subseteq released \union rebuild.missing
      BY <1>0, <2>1 DEF RebuildInv
  <2>4. /\ releases' = [rows |-> releases'.rows, cursor |-> releases'.cursor]
        /\ releases'.rows = releases.rows \union rebuild.missing /\ releases'.cursor = rebuild.temp.cursor
      BY <2>1
  <2>5. RebuildInv'
      BY <2>1 DEF RebuildInv, Archive!NoRebuild
  <2> QED
      BY <1>1, <2>1, <2>2, <2>3, <2>4, <2>5 DEF ArchiveInv, Whole, RowsOf, Repaid
<1> QED
    BY <1>2, <1>3

\* Every step of the archive's component keeps the invariant.
LEMMA ArchiveStep ==
    ASSUME FilesComplete = TRUE, ArchiveInv, Archive!Next
    PROVE  ArchiveInv'
BY EmitKeepsArchive, PollKeepsArchive, RelayerKeepsArchive, RebuildKeepsArchive, SwapKeepsArchive
   DEF Archive!Next

\* The archive starts empty.
LEMMA ArchiveStart ==
    ASSUME Archive!Init
    PROVE  ArchiveInv
<1>1. log = <<>> /\ Len(log) = 0 /\ log \in Seq(Entries)
    BY DEF Archive!Init
<1>2. RowsOf(log, 0) = {} /\ Repaid(log, 1..0) = {}
    BY DEF RowsOf, Repaid
<1>3. archive = Archive!EmptyArchive /\ main = Archive!EmptyArchive /\ file = NoFile
      /\ releases = [rows |-> {}, cursor |-> 0] /\ rebuild = Archive!NoRebuild
    BY DEF Archive!Init
<1>4. Whole(log, Archive!EmptyArchive)
    BY <1>1, <1>2 DEF Archive!EmptyArchive, Whole
<1>5. RebuildInv
    BY <1>3 DEF RebuildInv, Archive!NoRebuild
<1> QED
    BY <1>1, <1>2, <1>3, <1>4, <1>5 DEF ArchiveInv

\* An archive whose exported files are complete holds every event of the pool up
\* to its cursor, and the relayer forgets no repayment behind its own.
LEMMA ArchiveInvIsEnough ==
    ASSUME ArchiveInv
    PROVE  Archive!ArchiveHasNoGap /\ Archive!NoReleaseSkipped /\ Archive!AcceptedFileIsProven
<1>1. Archive!ArchiveHasNoGap
    BY DEF ArchiveInv, Whole, RowsOf, Archive!ArchiveHasNoGap, Archive!Archived
<1>2. Archive!NoReleaseSkipped
    BY DEF ArchiveInv, Repaid, Archive!NoReleaseSkipped, Archive!repaidInFull, Archive!Named
<1>3. Archive!AcceptedFileIsProven
    BY DEF ArchiveInv, RebuildInv, Repaid, Archive!AcceptedFileIsProven, Archive!repaidInFull, Archive!Named
<1> QED
    BY <1>1, <1>2, <1>3

\* lend-events/store.ts and rebuild.ts: the archive holds exactly the events of
\* the pool up to its cursor and no repayment behind the watcher's cursor lacks
\* its release or its row, through polls, lost disks, exports, rebuilds from RPC
\* or from a complete file, and crashes half-way through the swap.
THEOREM ArchiveStaysWhole ==
    ASSUME FilesComplete = TRUE
    PROVE  MCSpec => []ArchiveIsWhole
<1> DEFINE Inv == part = "archive" => ArchiveInv
<1>1. MCInit => Inv
    BY ArchiveStart DEF MCInit
<1>2. Inv /\ [MCNext]_all => Inv'
  <2> SUFFICES ASSUME Inv, [MCNext]_all, part' = "archive" PROVE ArchiveInv'
      OBVIOUS
  <2>1. CASE ArchiveNext
      BY <2>1, ArchiveStep DEF ArchiveNext
  <2>2. CASE UNCHANGED all
    <3>1. part = "archive" /\ UNCHANGED archiveVars
        BY <2>2 DEF all
    <3> QED
        BY <3>1 DEF archiveVars, ArchiveInv, RebuildInv, Whole, RowsOf, Repaid
  <2>3. CASE MCNext /\ ~ArchiveNext
      BY <2>3 DEF MCNext, MintsNext, ClaimsNext, VaultNext, ApiNext, ReadsNext, FunnelNext
  <2> QED
      BY <2>1, <2>2, <2>3
<1>3. Inv => ArchiveIsWhole
    BY ArchiveInvIsEnough DEF ArchiveIsWhole
<1> QED
    BY <1>1, <1>2, <1>3, PTL DEF MCSpec

(* The faucet.                                                                *)

\* Where a request holds the send lock.
Sending == {"select", "broadcast", "accepted"}
Requests == {"none", "posted", "verify", "queued", "paid", "refused"} \union Sending

\* Accounts paid on a day, and in the days a limit looks back on.
PaidOn(day) == {x \in Accounts : claims[x] = day}
PaidWithin(from, to) == {x \in Accounts : claims[x] \in from..to /\ claims[x] # -1}

ClaimsType ==
    /\ now \in Nat
    /\ payouts \in [Accounts -> Nat] /\ claims \in [Accounts -> Int]
    /\ \A x \in Accounts : claims[x] \in -1..now
    /\ req \in [Tabs -> Requests] /\ faucetQueue \in Seq(Tabs)

\* One request sends, the head of the queue.
SendLocked ==
    \A t \in Tabs : req[t] \in Sending => faucetQueue # <<>> /\ Head(faucetQueue) = t

\* What was checked when the lock was taken holds until the claim is recorded:
\* a day that begins meanwhile only frees the limits.
CheckStands ==
    \A t \in Tabs : req[t] \in Sending =>
        /\ claims[AccountOf[t]] = -1
        /\ Cardinality(PaidOn(now)) < dailyCap
        /\ Cardinality(PaidWithin(now - ipWindow + 1, now)) < ipClaimsPerWindow

\* An account has at most one payment, and while it is not recorded it is under
\* way, except where the relayer does not know.
PayoutsCounted ==
    \A x \in Accounts \ faucetUnsure :
        \/ payouts[x] = 0
        \/ /\ payouts[x] = 1
           /\ claims[x] # -1 \/ \E t \in Tabs : req[t] = "accepted" /\ AccountOf[t] = x

LimitsInv ==
    \A day \in 0..now :
        /\ Cardinality(PaidOn(day)) <= dailyCap
        /\ Cardinality(PaidWithin(day - ipWindow + 1, day)) <= ipClaimsPerWindow

\* The coin of a payment that the node took and the relayer has not reserved yet.
Underway == {c \in {coin} : \E t \in Tabs : req[t] = "accepted"}

\* A coin that Esplora lists although it is spent is reserved, or just being so,
\* and the change kept for later is there.
CoinsInv ==
    restarted = FALSE =>
        /\ conflicts = FALSE
        /\ listed \ unspent \subseteq reserved \union Underway
        /\ pendingChange \ unspent \subseteq Underway
        /\ \A t \in Tabs : /\ req[t] = "broadcast" => coin \in unspent
                           /\ req[t] = "accepted" => Claims!Change(coin) \subseteq unspent

ClaimsInv ==
    ClaimsType /\ SendLocked /\ CheckStands /\ PayoutsCounted /\ LimitsInv /\ CoinsInv

\* The limits that the code reads are the ones counted here.
LEMMA LimitsAre ==
    ASSUME ClaimsType, NEW x \in Accounts
    PROVE  Claims!checkLimits(x) <=>
             /\ claims[x] = -1
             /\ Cardinality(PaidOn(now)) < dailyCap
             /\ Cardinality(PaidWithin(now - ipWindow + 1, now)) < ipClaimsPerWindow
<1>1. Claims!ipClaims = PaidWithin(now - ipWindow + 1, now)
  <2>1. now - ipWindow + 1 \in Int /\ now \in Int
      BY FaucetAssumption DEF ClaimsType
  <2>2. \A y \in Accounts : claims[y] \in Int /\ claims[y] <= now
      BY DEF ClaimsType
  <2> QED
      BY <2>1, <2>2 DEF Claims!ipClaims, Claims!hasClaim, PaidWithin
<1>2. Claims!claimsToday = PaidOn(now)
    BY DEF Claims!claimsToday, PaidOn
<1> QED
    BY <1>1, <1>2, Counting DEF Claims!checkLimits, Claims!hasClaim

\* A request that never held the lock moves, and may join the queue.
LEMMA ElsewhereKeepsClaims ==
    ASSUME ClaimsInv, NEW t \in Tabs, NEW s \in Requests, s \notin Sending,
           req' = req \/ (req[t] \notin Sending /\ req' = [req EXCEPT ![t] = s]),
           faucetQueue' = faucetQueue \/ faucetQueue' = Append(faucetQueue, t),
           UNCHANGED <<now, unspent, listed, payouts, reserved, pendingChange, coin, claims,
                       faucetUnsure, conflicts, restarted>>
    PROVE  ClaimsInv'
<1>1. req \in [Tabs -> Requests] /\ faucetQueue \in Seq(Tabs)
    BY DEF ClaimsInv, ClaimsType
<1>2. /\ req' \in [Tabs -> Requests]
      /\ \A u \in Tabs : /\ req'[u] \in Sending <=> req[u] \in Sending
                         /\ req'[u] = "accepted" <=> req[u] = "accepted"
                         /\ req'[u] = "broadcast" <=> req[u] = "broadcast"
    BY <1>1 DEF Sending
<1>3. faucetQueue' \in Seq(Tabs) /\ (faucetQueue # <<>> => faucetQueue' # <<>> /\ Head(faucetQueue') = Head(faucetQueue))
    BY <1>1
<1>4. ClaimsType'
    BY <1>2, <1>3 DEF ClaimsInv, ClaimsType
<1>5. SendLocked'
    BY <1>2, <1>3 DEF ClaimsInv, SendLocked
<1>6. CheckStands' /\ LimitsInv'
    BY <1>2 DEF ClaimsInv, CheckStands, LimitsInv, PaidOn, PaidWithin
<1>7. PayoutsCounted'
    BY <1>2 DEF ClaimsInv, PayoutsCounted
<1>8. CoinsInv'
  <2>1. Underway' = Underway
      BY <1>2 DEF Underway
  <2> QED
      BY <1>2, <2>1 DEF ClaimsInv, CoinsInv, Claims!Change
<1> QED
    BY <1>4, <1>5, <1>6, <1>7, <1>8 DEF ClaimsInv

\* The browser's steps and the relayer's before the lock.
LEMMA TabKeepsClaims ==
    ASSUME ClaimsInv, NEW t \in Tabs,
           \/ Claims!TabStep(t) \/ Claims!claim(t) \/ Claims!verify(t)
           \/ Claims!NonceExpires(t) \/ Claims!ConnectionLost(t)
    PROVE  ClaimsInv'
<1>1. UNCHANGED <<now, unspent, listed, payouts, reserved, pendingChange, coin, claims,
                  faucetUnsure, conflicts, restarted>>
    BY DEF Claims!TabStep, Claims!runAutoClaim, Claims!balance, Claims!issueNonce,
           Claims!claimSignetCoins, Claims!Answered, Claims!AnswerDropped, Claims!follow,
           Claims!NonceExpires, Claims!ConnectionLost, Claims!claim, Claims!verify,
           Claims!OnlyTab, Claims!Request, Claims!btcVars
<1>2. faucetQueue' = faucetQueue \/ faucetQueue' = Append(faucetQueue, t)
    BY DEF Claims!TabStep, Claims!runAutoClaim, Claims!balance, Claims!issueNonce,
           Claims!claimSignetCoins, Claims!Answered, Claims!AnswerDropped, Claims!follow,
           Claims!NonceExpires, Claims!ConnectionLost, Claims!claim, Claims!verify,
           Claims!OnlyTab, Claims!Request
<1>3. \/ req' = req
      \/ /\ req[t] \in {"none", "posted", "verify", "paid", "refused"}
         /\ \E s \in {"none", "posted", "verify", "queued", "refused"} : req' = [req EXCEPT ![t] = s]
  <2>1. CASE Claims!claim(t)
      BY <2>1 DEF Claims!claim, Claims!Request
  <2>2. CASE Claims!verify(t)
      BY <2>2 DEF Claims!verify, Claims!Request
  <2>3. CASE Claims!TabStep(t) \/ Claims!NonceExpires(t) \/ Claims!ConnectionLost(t)
      BY <2>3 DEF Claims!TabStep, Claims!runAutoClaim, Claims!balance, Claims!issueNonce,
             Claims!claimSignetCoins, Claims!Answered, Claims!AnswerDropped, Claims!follow,
             Claims!NonceExpires, Claims!ConnectionLost
  <2> QED
      BY <2>1, <2>2, <2>3
<1>4. CASE req' = req
  <2>1. "none" \in Requests /\ "none" \notin Sending
      BY DEF Sending, Requests
  <2> QED
      BY <1>1, <1>2, <1>4, <2>1, ElsewhereKeepsClaims
<1>5. CASE req' # req
  <2>1. PICK s \in {"none", "posted", "verify", "queued", "refused"} : req' = [req EXCEPT ![t] = s]
      BY <1>3, <1>5
  <2>2. s \in Requests /\ s \notin Sending /\ req[t] \notin Sending
      BY <1>3, <1>5 DEF Sending, Requests
  <2> QED
      BY <1>1, <1>2, <2>1, <2>2, ElsewhereKeepsClaims
<1> QED
    BY <1>4, <1>5

\* A new day frees the limits and takes nothing from them.
LEMMA MidnightKeepsClaims ==
    ASSUME ClaimsInv, Claims!Midnight
    PROVE  ClaimsInv'
<1>1. /\ now' = now + 1 /\ now \in Nat /\ now' \in Nat
      /\ UNCHANGED <<unspent, listed, payouts, reserved, pendingChange, coin, claims, req,
                     faucetQueue, faucetUnsure, conflicts, restarted>>
    BY DEF Claims!Midnight, Claims!btcVars, Claims!memVars, ClaimsInv, ClaimsType
<1>2. \A x \in Accounts : claims[x] \in Int /\ claims[x] <= now
    BY DEF ClaimsInv, ClaimsType
<1>3. ClaimsType' /\ SendLocked' /\ PayoutsCounted' /\ CoinsInv'
  <2>1. ClaimsType'
      BY <1>1 DEF ClaimsInv, ClaimsType
  <2>2. SendLocked' /\ PayoutsCounted'
      BY <1>1 DEF ClaimsInv, SendLocked, PayoutsCounted
  <2>3. CoinsInv'
      BY <1>1 DEF ClaimsInv, CoinsInv, Underway, Claims!Change
  <2> QED
      BY <2>1, <2>2, <2>3
<1>4. PaidOn(now + 1) = {} /\ Cardinality({}) = 0
    BY <1>1, <1>2, FS_EmptySet DEF PaidOn
<1>5. /\ Cardinality(PaidWithin((now + 1) - ipWindow + 1, now + 1)) \in Nat
      /\ Cardinality(PaidWithin(now - ipWindow + 1, now)) \in Nat
      /\ Cardinality(PaidWithin((now + 1) - ipWindow + 1, now + 1)) <= Cardinality(PaidWithin(now - ipWindow + 1, now))
  <2>1. PaidWithin((now + 1) - ipWindow + 1, now + 1) \in SUBSET PaidWithin(now - ipWindow + 1, now)
      BY <1>1, <1>2, FaucetAssumption DEF PaidWithin
  <2>2. IsFiniteSet(PaidWithin(now - ipWindow + 1, now))
      BY FaucetAssumption, FS_Subset DEF PaidWithin
  <2> QED
      BY <2>1, <2>2, FS_Subset, FS_CardinalityType
<1>6. CheckStands'
  <2>1. ASSUME NEW t \in Tabs, req[t] \in Sending
        PROVE  /\ claims[AccountOf[t]] = -1
               /\ Cardinality(PaidOn(now + 1)) < dailyCap
               /\ Cardinality(PaidWithin((now + 1) - ipWindow + 1, now + 1)) < ipClaimsPerWindow
    <3>1. /\ claims[AccountOf[t]] = -1
          /\ Cardinality(PaidWithin(now - ipWindow + 1, now)) < ipClaimsPerWindow
        BY <2>1 DEF ClaimsInv, CheckStands
    <3>2. dailyCap \in Int /\ dailyCap > 0 /\ ipClaimsPerWindow \in Int
        BY FaucetAssumption
    <3> QED
        BY <1>4, <1>5, <3>1, <3>2
  <2>2. PaidOn(now)' = PaidOn(now + 1)
      BY <1>1 DEF PaidOn
  <2>3. PaidWithin(now - ipWindow + 1, now)' = PaidWithin((now + 1) - ipWindow + 1, now + 1)
    <3>1. now' - ipWindow + 1 = (now + 1) - ipWindow + 1 /\ now' = now + 1 /\ claims' = claims
        BY <1>1, FaucetAssumption
    <3> QED
        BY <3>1, Zenon DEF PaidWithin
  <2> QED
      BY <1>1, <2>1, <2>2, <2>3 DEF CheckStands
<1>7. LimitsInv'
  <2>1. SUFFICES ASSUME NEW day \in 0..(now + 1)
                 PROVE  /\ Cardinality(PaidOn(day)) <= dailyCap
                        /\ Cardinality(PaidWithin(day - ipWindow + 1, day)) <= ipClaimsPerWindow
      BY <1>1 DEF LimitsInv, PaidOn, PaidWithin
  <2>2. CASE day \in 0..now
      BY <2>2 DEF ClaimsInv, LimitsInv
  <2>3. CASE day = now + 1
    <3>1. Cardinality(PaidWithin(now - ipWindow + 1, now)) <= ipClaimsPerWindow
        BY <1>1 DEF ClaimsInv, LimitsInv
    <3>2. dailyCap \in Int /\ dailyCap > 0 /\ ipClaimsPerWindow \in Int
        BY FaucetAssumption
    <3>3. Cardinality(PaidWithin((now + 1) - ipWindow + 1, now + 1)) <= ipClaimsPerWindow
        BY <1>5, <3>1, <3>2
    <3>4. PaidOn(day) = {} /\ Cardinality(PaidOn(day)) = 0
        BY <1>4, <2>3, Zenon
    <3>5. PaidWithin(day - ipWindow + 1, day) = PaidWithin((now + 1) - ipWindow + 1, now + 1)
        BY <2>3, Zenon
    <3>6. Cardinality(PaidWithin(day - ipWindow + 1, day)) <= ipClaimsPerWindow
        BY <3>3, <3>5, Zenon
    <3>7. 0 <= dailyCap
        BY <3>2
    <3> QED
        BY <3>4, <3>6, <3>7, Zenon
  <2> QED
      BY <1>1, <2>2, <2>3
<1> QED
    BY <1>3, <1>6, <1>7 DEF ClaimsInv

\* What leaves the requests, the claims and the payments alone.
LEMMA CoinsAside ==
    ASSUME ClaimsInv, CoinsInv',
           UNCHANGED <<now, payouts, req, faucetQueue, claims, faucetUnsure>>
    PROVE  ClaimsInv'
<1>1. ClaimsType' /\ SendLocked' /\ PayoutsCounted'
    BY DEF ClaimsInv, ClaimsType, SendLocked, PayoutsCounted
<1>2. CheckStands' /\ LimitsInv'
    BY DEF ClaimsInv, CheckStands, LimitsInv, PaidOn, PaidWithin
<1> QED
    BY <1>1, <1>2 DEF ClaimsInv

\* Esplora catches up, and reservations that outlived its lag expire.
LEMMA IndexKeepsClaims ==
    ASSUME ClaimsInv, Claims!Index \/ Claims!ReservationsExpire
    PROVE  ClaimsInv'
<1>1. /\ UNCHANGED <<now, payouts, req, faucetQueue, claims, faucetUnsure, unspent, coin,
                     conflicts, restarted>>
      /\ listed' = unspent
      /\ pendingChange' = pendingChange \/ pendingChange' = {}
    BY DEF Claims!Index, Claims!ReservationsExpire, Claims!memVars, Claims!btcVars
<1>2. CoinsInv'
    BY <1>1 DEF ClaimsInv, CoinsInv, Underway, Claims!Change
<1> QED
    BY <1>1, <1>2, CoinsAside

\* The head of the queue goes on; nobody else sends.
LEMMA LockGoesOn ==
    ASSUME ClaimsInv, NEW t \in Tabs, NEW s \in Sending,
           faucetQueue # <<>>, Head(faucetQueue) = t,
           req' = [req EXCEPT ![t] = s], faucetQueue' = faucetQueue
    PROVE  /\ SendLocked' /\ req' \in [Tabs -> Requests] /\ req'[t] = s
           /\ \A u \in Tabs \ {t} : req[u] \notin Sending /\ req'[u] \notin Sending
<1>1. req \in [Tabs -> Requests] /\ \A u \in Tabs \ {t} : req[u] \notin Sending
    BY DEF ClaimsInv, ClaimsType, SendLocked
<1> QED
    BY <1>1 DEF SendLocked, Requests

\* It leaves, and nobody sends.
LEMMA LockIsLeft ==
    ASSUME ClaimsInv, NEW t \in Tabs, NEW s \in Requests, s \notin Sending,
           faucetQueue # <<>>, Head(faucetQueue) = t,
           req' = [req EXCEPT ![t] = s], faucetQueue' = Tail(faucetQueue)
    PROVE  /\ SendLocked' /\ CheckStands' /\ Underway' = {}
           /\ req' \in [Tabs -> Requests] /\ faucetQueue' \in Seq(Tabs)
           /\ \A u \in Tabs : req'[u] \notin Sending
<1>1. /\ req \in [Tabs -> Requests] /\ \A u \in Tabs \ {t} : req[u] \notin Sending
      /\ faucetQueue \in Seq(Tabs)
    BY DEF ClaimsInv, ClaimsType, SendLocked
<1>2. faucetQueue' \in Seq(Tabs)
    BY <1>1
<1>3. req' \in [Tabs -> Requests] /\ \A u \in Tabs : req'[u] \notin Sending
    BY <1>1
<1>4. "accepted" \in Sending
    BY DEF Sending
<1>5. Underway' = {}
    BY <1>3, <1>4 DEF Underway
<1> QED
    BY <1>2, <1>3, <1>5 DEF SendLocked, CheckStands

\* The lock is taken by a request whose limits were just checked.
LEMMA LockingKeepsClaims ==
    ASSUME ClaimsInv, NEW t \in Tabs, Claims!withLock(t)
    PROVE  ClaimsInv'
<1>1. /\ faucetQueue # <<>> /\ Head(faucetQueue) = t /\ req[t] = "queued"
      /\ UNCHANGED <<now, unspent, listed, payouts, reserved, pendingChange, claims,
                     faucetUnsure, conflicts, restarted>>
    BY DEF Claims!withLock, Claims!Request, Claims!EndSend, Claims!btcVars
<1>2. LimitsInv'
    BY <1>1 DEF ClaimsInv, LimitsInv, PaidOn, PaidWithin
<1>3. req \in [Tabs -> Requests] /\ faucetQueue \in Seq(Tabs) /\ AccountOf[t] \in Accounts /\ ClaimsType
    BY FaucetAssumption DEF ClaimsInv, ClaimsType
<1>4. /\ \A u \in Tabs : req[u] \notin Sending
      /\ Underway = {}
  <2>1. \A u \in Tabs : req[u] \notin Sending
      BY <1>1 DEF ClaimsInv, SendLocked, Sending
  <2> QED
      BY <2>1 DEF Underway, Sending
<1>5. CASE Claims!checkInLock(AccountOf[t])
  <2>1. req' = [req EXCEPT ![t] = "select"] /\ faucetQueue' = faucetQueue /\ coin' = coin
      BY <1>5 DEF Claims!withLock, Claims!Request
  <2>2. "select" \in Sending
      BY DEF Sending
  <2>3. /\ SendLocked' /\ req' \in [Tabs -> Requests] /\ req'[t] = "select"
        /\ \A u \in Tabs \ {t} : req'[u] \notin Sending
      BY <1>1, <2>1, <2>2, LockGoesOn
  <2>4. CheckStands'
    <3>1. /\ claims[AccountOf[t]] = -1
          /\ Cardinality(PaidOn(now)) < dailyCap
          /\ Cardinality(PaidWithin(now - ipWindow + 1, now)) < ipClaimsPerWindow
        BY <1>3, <1>5, LimitsAre DEF Claims!checkInLock
    <3> QED
        BY <1>1, <2>3, <3>1 DEF CheckStands, PaidOn, PaidWithin
  <2>5. \A u \in Tabs : req'[u] # "accepted" /\ req'[u] # "broadcast" /\ req[u] # "accepted"
      BY <1>4, <2>3 DEF Sending
  <2>6. Underway' = {}
      BY <2>5 DEF Underway
  <2>7. CoinsInv'
      BY <1>1, <1>4, <2>5, <2>6 DEF ClaimsInv, CoinsInv
  <2>8. PayoutsCounted'
      BY <1>1, <2>5 DEF ClaimsInv, PayoutsCounted
  <2>9. ClaimsType'
      BY <1>1, <2>1, <2>3 DEF ClaimsInv, ClaimsType
  <2> QED
      BY <1>2, <2>3, <2>4, <2>7, <2>8, <2>9 DEF ClaimsInv
<1>6. CASE ~Claims!checkInLock(AccountOf[t])
  <2>1. req' = [req EXCEPT ![t] = "refused"] /\ faucetQueue' = Tail(faucetQueue)
      BY <1>6 DEF Claims!withLock, Claims!EndSend, Claims!Request
  <2>2. "refused" \in Requests /\ "refused" \notin Sending
      BY DEF Requests, Sending
  <2>3. /\ SendLocked' /\ CheckStands' /\ Underway' = {}
        /\ req' \in [Tabs -> Requests] /\ faucetQueue' \in Seq(Tabs)
        /\ \A u \in Tabs : req'[u] \notin Sending
      BY <1>1, <2>1, <2>2, LockIsLeft
  <2>4. \A u \in Tabs : req'[u] # "accepted" /\ req'[u] # "broadcast" /\ req[u] # "accepted"
      BY <1>4, <2>3 DEF Sending
  <2>5. CoinsInv'
      BY <1>1, <1>4, <2>3, <2>4 DEF ClaimsInv, CoinsInv
  <2>6. PayoutsCounted'
      BY <1>1, <2>4 DEF ClaimsInv, PayoutsCounted
  <2>7. ClaimsType'
      BY <1>1, <2>3 DEF ClaimsInv, ClaimsType
  <2> QED
      BY <1>2, <2>3, <2>5, <2>6, <2>7 DEF ClaimsInv
<1> QED
    BY <1>5, <1>6

\* A payment that ends without a record: the account is unsure if the node had
\* taken it.
LEMMA EndingKeepsClaims ==
    ASSUME ClaimsInv, NEW t \in Tabs, NEW s \in {"paid", "refused"},
           req[t] \in Sending, Claims!EndSend(t, s), CoinsInv',
           payouts' = payouts, faucetUnsure \subseteq faucetUnsure',
           req[t] = "accepted" => AccountOf[t] \in faucetUnsure'
    PROVE  ClaimsInv'
<1>1. faucetQueue # <<>> /\ Head(faucetQueue) = t /\ s \in Requests /\ s \notin Sending
    BY DEF ClaimsInv, SendLocked, Requests, Sending
<1>2. /\ req' = [req EXCEPT ![t] = s] /\ faucetQueue' = Tail(faucetQueue)
      /\ UNCHANGED <<now, claims>>
    BY DEF Claims!EndSend, Claims!Request
<1>3. /\ SendLocked' /\ CheckStands'
      /\ req' \in [Tabs -> Requests] /\ faucetQueue' \in Seq(Tabs)
    BY <1>1, <1>2, LockIsLeft
<1>4. ClaimsType'
    BY <1>2, <1>3 DEF ClaimsInv, ClaimsType
<1>5. LimitsInv'
    BY <1>2 DEF ClaimsInv, LimitsInv, PaidOn, PaidWithin
<1>6. PayoutsCounted'
  <2>1. \A u \in Tabs : req[u] = "accepted" => u = t
      BY <1>1 DEF ClaimsInv, SendLocked, Sending
  <2> QED
      BY <1>2, <2>1 DEF ClaimsInv, PayoutsCounted
<1> QED
    BY <1>3, <1>4, <1>5, <1>6 DEF ClaimsInv

\* A coin is chosen, or none is left.
LEMMA SendKeepsClaims ==
    ASSUME ClaimsInv, NEW t \in Tabs, Claims!send(t)
    PROVE  ClaimsInv'
<1>1. /\ req[t] = "select" /\ pendingChange' = pendingChange \ listed
      /\ UNCHANGED <<now, unspent, listed, payouts, reserved, claims, faucetUnsure, conflicts, restarted>>
    BY DEF Claims!send, Claims!Request, Claims!EndSend, Claims!btcVars
<1>2. /\ faucetQueue # <<>> /\ Head(faucetQueue) = t /\ "select" \in Sending
      /\ req \in [Tabs -> Requests]
      /\ \A u \in Tabs : req[u] \in Sending => u = t
    BY <1>1 DEF ClaimsInv, ClaimsType, SendLocked, Sending
<1>3. (\A u \in Tabs : req[u] # "accepted") /\ Underway = {}
    BY <1>1, <1>2 DEF Underway, Sending
<1>4. CASE \E s \in {"refused"} : Claims!EndSend(t, s)
  <2>1. Claims!EndSend(t, "refused")
      BY <1>4
  <2>2. req' = [req EXCEPT ![t] = "refused"] /\ faucetQueue' = Tail(faucetQueue)
      BY <2>1 DEF Claims!EndSend, Claims!Request
  <2>3. "refused" \in Requests /\ "refused" \notin Sending
      BY DEF Requests, Sending
  <2>4. Underway' = {} /\ \A u \in Tabs : req'[u] \notin Sending
      BY <1>1, <1>2, <2>2, <2>3, LockIsLeft
  <2>5. \A u \in Tabs : req'[u] # "accepted" /\ req'[u] # "broadcast"
      BY <2>4 DEF Sending
  <2>6. CoinsInv'
      BY <1>1, <1>3, <2>4, <2>5 DEF ClaimsInv, CoinsInv
  <2> QED
      BY <1>1, <1>2, <2>1, <2>6, EndingKeepsClaims
<1>5. CASE \E c \in (listed \ reserved) \union ((pendingChange \ listed) \ reserved) :
             coin' = c /\ Claims!Request(t, "broadcast") /\ UNCHANGED faucetQueue
  <2>1. PICK c \in (listed \ reserved) \union ((pendingChange \ listed) \ reserved) :
             coin' = c /\ req' = [req EXCEPT ![t] = "broadcast"] /\ faucetQueue' = faucetQueue
      BY <1>5 DEF Claims!Request
  <2>2. "broadcast" \in Sending /\ "broadcast" \in Requests /\ "accepted" \in Sending
      BY DEF Sending, Requests
  <2>3. /\ SendLocked' /\ req' \in [Tabs -> Requests] /\ req'[t] = "broadcast"
        /\ \A u \in Tabs \ {t} : req[u] \notin Sending /\ req'[u] \notin Sending
      BY <1>2, <2>1, <2>2, LockGoesOn
  <2>4. (\A u \in Tabs : req'[u] # "accepted") /\ Underway' = {}
      BY <2>2, <2>3 DEF Underway
  <2>5. CoinsInv'
    <3>1. SUFFICES ASSUME restarted = FALSE PROVE CoinsInv'
        BY <1>1 DEF CoinsInv
    <3>2. conflicts = FALSE /\ listed \ unspent \subseteq reserved /\ pendingChange \subseteq unspent
        BY <1>3, <3>1 DEF ClaimsInv, CoinsInv
    <3>3. c \in unspent
        BY <3>2
    <3> QED
        BY <1>1, <2>1, <2>4, <3>2, <3>3 DEF CoinsInv
  <2>6. CheckStands'
      BY <1>1, <1>2, <2>3 DEF ClaimsInv, CheckStands, PaidOn, PaidWithin
  <2>7. ClaimsType' /\ LimitsInv'
    <3>1. ClaimsType'
        BY <1>1, <2>1, <2>3 DEF ClaimsInv, ClaimsType
    <3>2. LimitsInv'
        BY <1>1 DEF ClaimsInv, LimitsInv, PaidOn, PaidWithin
    <3> QED
        BY <3>1, <3>2
  <2>8. PayoutsCounted'
      BY <1>1, <1>3 DEF ClaimsInv, PayoutsCounted
  <2> QED
      BY <2>3, <2>5, <2>6, <2>7, <2>8 DEF ClaimsInv
<1> QED
    BY <1>4, <1>5 DEF Claims!send, Claims!usable

\* The node takes the payment, or refuses a coin that is spent.
LEMMA BroadcastKeepsClaims ==
    ASSUME ClaimsInv, NEW t \in Tabs, Claims!Broadcast(t)
    PROVE  ClaimsInv'
<1>1. /\ req[t] = "broadcast"
      /\ UNCHANGED <<now, listed, reserved, pendingChange, claims, faucetUnsure, restarted>>
    BY DEF Claims!Broadcast, Claims!Request, Claims!EndSend
<1>2. /\ faucetQueue # <<>> /\ Head(faucetQueue) = t /\ "broadcast" \in Sending /\ "accepted" \in Sending
      /\ req \in [Tabs -> Requests] /\ AccountOf[t] \in Accounts
      /\ \A u \in Tabs : req[u] \in Sending => u = t
    BY <1>1, FaucetAssumption DEF ClaimsInv, ClaimsType, SendLocked, Sending
<1>3. (\A u \in Tabs : req[u] # "accepted") /\ Underway = {}
    BY <1>1, <1>2 DEF Underway
<1>4. CASE coin \in unspent
  <2>1. /\ unspent' = (unspent \ {coin}) \union Claims!Change(coin)
        /\ payouts' = [payouts EXCEPT ![AccountOf[t]] = @ + 1]
        /\ req' = [req EXCEPT ![t] = "accepted"] /\ UNCHANGED <<conflicts, faucetQueue, coin>>
      BY <1>4 DEF Claims!Broadcast, Claims!Request
  <2>2. /\ SendLocked' /\ req' \in [Tabs -> Requests] /\ req'[t] = "accepted"
        /\ \A u \in Tabs \ {t} : req[u] \notin Sending /\ req'[u] \notin Sending
      BY <1>2, <2>1, LockGoesOn
  <2>3. Underway' = {coin} /\ \A u \in Tabs : req'[u] # "broadcast"
    <3>1. \A u \in Tabs : req'[u] # "broadcast"
        BY <1>2, <2>2
    <3> QED
        BY <2>1, <2>2, <3>1 DEF Underway
  <2>4. CoinsInv'
    <3>1. SUFFICES ASSUME restarted = FALSE PROVE CoinsInv'
        BY <1>1 DEF CoinsInv
    <3>2. conflicts = FALSE /\ listed \ unspent \subseteq reserved /\ pendingChange \subseteq unspent
        BY <1>3, <3>1 DEF ClaimsInv, CoinsInv
    <3>3. listed \ unspent' \subseteq reserved \union {coin} /\ pendingChange \ unspent' \subseteq {coin}
          /\ Claims!Change(coin) \subseteq unspent'
        BY <2>1, <3>2
    <3>4. Claims!Change(coin)' = Claims!Change(coin)
        BY <2>1 DEF Claims!Change
    <3> QED
        BY <1>1, <2>1, <2>3, <3>2, <3>3, <3>4 DEF CoinsInv
  <2>5. CheckStands'
      BY <1>1, <1>2, <2>2 DEF ClaimsInv, CheckStands, PaidOn, PaidWithin
  <2>6. ClaimsType'
      BY <1>1, <1>2, <2>1, <2>2 DEF ClaimsInv, ClaimsType
  <2>7. LimitsInv'
      BY <1>1 DEF ClaimsInv, LimitsInv, PaidOn, PaidWithin
  <2>8. PayoutsCounted'
    <3>1. claims[AccountOf[t]] = -1
        BY <1>1, <1>2 DEF ClaimsInv, CheckStands
    <3>2. SUFFICES ASSUME NEW x \in Accounts \ faucetUnsure
                   PROVE  \/ payouts'[x] = 0
                          \/ /\ payouts'[x] = 1
                             /\ claims[x] # -1 \/ \E u \in Tabs : req'[u] = "accepted" /\ AccountOf[u] = x
        BY <1>1 DEF PayoutsCounted
    <3>3. payouts[x] = 0 \/ (payouts[x] = 1 /\ claims[x] # -1)
        BY <1>3 DEF ClaimsInv, PayoutsCounted
    <3>4. payouts \in [Accounts -> Nat]
        BY DEF ClaimsInv, ClaimsType
    <3>5. CASE x = AccountOf[t]
        BY <2>1, <2>2, <3>1, <3>3, <3>4, <3>5
    <3>6. CASE x # AccountOf[t]
        BY <2>1, <3>3, <3>4, <3>6
    <3> QED
        BY <3>5, <3>6
  <2> QED
      BY <2>2, <2>4, <2>5, <2>6, <2>7, <2>8 DEF ClaimsInv
<1>5. CASE coin \notin unspent
  <2>1. Claims!EndSend(t, "refused") /\ UNCHANGED <<unspent, payouts>>
      BY <1>5 DEF Claims!Broadcast
  <2>2. restarted # FALSE
      BY <1>1, <1>5 DEF ClaimsInv, CoinsInv
  <2>3. CoinsInv'
      BY <1>1, <2>2 DEF CoinsInv
  <2> QED
      BY <1>1, <1>2, <2>1, <2>3, EndingKeepsClaims
<1> QED
    BY <1>4, <1>5

\* A payment that is recorded counts once, on its day.
LEMMA RecordKeepsLimits ==
    ASSUME ClaimsInv, NEW x \in Accounts, claims[x] = -1,
           Cardinality(PaidOn(now)) < dailyCap,
           Cardinality(PaidWithin(now - ipWindow + 1, now)) < ipClaimsPerWindow,
           claims' = [claims EXCEPT ![x] = now], now' = now
    PROVE  LimitsInv'
<1>1. /\ now \in Nat /\ claims \in [Accounts -> Int] /\ IsFiniteSet(Accounts)
      /\ dailyCap \in Int /\ ipClaimsPerWindow \in Int
    BY FaucetAssumption DEF ClaimsInv, ClaimsType
<1>2. \A y \in Accounts : claims'[y] = IF y = x THEN now ELSE claims[y]
    BY <1>1
<1>3. ASSUME NEW s \in SUBSET Accounts, NEW u \in SUBSET Accounts, s \subseteq u \union {x}
      PROVE  /\ Cardinality(s) \in Nat /\ Cardinality(u) \in Nat
             /\ Cardinality(s) <= Cardinality(u) + 1
  <2>1. IsFiniteSet(u) /\ IsFiniteSet(s)
      BY <1>1, FS_Subset
  <2>2. IsFiniteSet(u \union {x}) /\ Cardinality(u \union {x}) \in {Cardinality(u), Cardinality(u) + 1}
      BY <2>1, FS_AddElement
  <2>3. Cardinality(s) <= Cardinality(u \union {x})
      BY <1>3, <2>2, FS_Subset
  <2> QED
      BY <2>1, <2>2, <2>3, FS_CardinalityType
<1>4. SUFFICES ASSUME NEW day \in 0..now
               PROVE  /\ Cardinality(PaidOn(day)') <= dailyCap
                      /\ Cardinality(PaidWithin(day - ipWindow + 1, day)') <= ipClaimsPerWindow
    BY <1>1 DEF LimitsInv, PaidOn, PaidWithin
<1>5. CASE day # now
  <2>1. PaidOn(day)' = PaidOn(day)
      BY <1>1, <1>2, <1>5 DEF PaidOn
  <2>2. PaidWithin(day - ipWindow + 1, day)' = PaidWithin(day - ipWindow + 1, day)
    <3>1. now \notin (day - ipWindow + 1)..day
        BY <1>1, <1>5
    <3> QED
        BY <1>2, <3>1 DEF PaidWithin
  <2> QED
      BY <2>1, <2>2 DEF ClaimsInv, LimitsInv
<1>6. CASE day = now
  <2>1. PaidOn(now)' \subseteq PaidOn(now) \union {x}
      BY <1>1, <1>2 DEF PaidOn
  <2>2. PaidWithin(now - ipWindow + 1, now)' \subseteq PaidWithin(now - ipWindow + 1, now) \union {x}
      BY <1>1, <1>2 DEF PaidWithin
  <2>3. /\ PaidOn(now) \in SUBSET Accounts /\ PaidOn(now)' \in SUBSET Accounts
        /\ PaidWithin(now - ipWindow + 1, now) \in SUBSET Accounts
        /\ PaidWithin(now - ipWindow + 1, now)' \in SUBSET Accounts
      BY DEF PaidOn, PaidWithin
  <2>4. Cardinality(PaidOn(now)') <= dailyCap
      BY <1>1, <1>3, <2>1, <2>3
  <2>5. Cardinality(PaidWithin(now - ipWindow + 1, now)') <= ipClaimsPerWindow
      BY <1>1, <1>3, <2>2, <2>3
  <2>6. PaidOn(day)' = PaidOn(now)' /\ PaidWithin(day - ipWindow + 1, day)' = PaidWithin(now - ipWindow + 1, now)'
      BY <1>6 DEF PaidOn, PaidWithin
  <2> QED
      BY <2>4, <2>5, <2>6
<1> QED
    BY <1>5, <1>6

\* The coin is reserved as the lock is left.
LEMMA ReserveKeepsCoins ==
    ASSUME ClaimsInv, NEW t \in Tabs, req[t] \in {"broadcast", "accepted"},
           reserved' = reserved \union {coin},
           \/ pendingChange' = pendingChange \ {coin}
           \/ req[t] = "accepted" /\ pendingChange' = (pendingChange \ {coin}) \union Claims!Change(coin),
           NEW s \in {"paid", "refused"}, req' = [req EXCEPT ![t] = s], faucetQueue' = Tail(faucetQueue),
           UNCHANGED <<unspent, listed, conflicts, restarted>>
    PROVE  CoinsInv'
<1>1. /\ faucetQueue # <<>> /\ Head(faucetQueue) = t /\ s \in Requests /\ s \notin Sending
    BY DEF ClaimsInv, SendLocked, Requests, Sending
<1>2. Underway' = {} /\ \A u \in Tabs : req'[u] \notin Sending
    BY <1>1, LockIsLeft
<1>3. \A u \in Tabs : req'[u] # "accepted" /\ req'[u] # "broadcast"
    BY <1>2 DEF Sending
<1>4. Underway \subseteq {coin}
    BY DEF Underway
<1> QED
    BY <1>2, <1>3, <1>4 DEF ClaimsInv, CoinsInv

\* The payment is recorded.
LEMMA PaidKeepsClaims ==
    ASSUME ClaimsInv, NEW t \in Tabs, Claims!Paid(t)
    PROVE  ClaimsInv'
<1>1. /\ req[t] = "accepted" /\ req' = [req EXCEPT ![t] = "paid"] /\ faucetQueue' = Tail(faucetQueue)
      /\ claims' = [claims EXCEPT ![AccountOf[t]] = now]
      /\ reserved' = reserved \union {coin}
      /\ pendingChange' = (pendingChange \ {coin}) \union Claims!Change(coin)
      /\ UNCHANGED <<now, unspent, listed, payouts, faucetUnsure, conflicts, restarted>>
    BY DEF Claims!Paid, Claims!reserve, Claims!record, Claims!btcVars
<1>2. /\ faucetQueue # <<>> /\ Head(faucetQueue) = t /\ "paid" \in Requests /\ "paid" \notin Sending
      /\ AccountOf[t] \in Accounts
      /\ \A u \in Tabs : req[u] = "accepted" => u = t
    BY <1>1, FaucetAssumption DEF ClaimsInv, SendLocked, Requests, Sending
<1>3. /\ SendLocked' /\ CheckStands'
      /\ req' \in [Tabs -> Requests] /\ faucetQueue' \in Seq(Tabs)
    BY <1>1, <1>2, LockIsLeft
<1>4. /\ claims[AccountOf[t]] = -1
      /\ Cardinality(PaidOn(now)) < dailyCap
      /\ Cardinality(PaidWithin(now - ipWindow + 1, now)) < ipClaimsPerWindow
    BY <1>1 DEF ClaimsInv, CheckStands, Sending
<1>5. LimitsInv'
    BY <1>1, <1>2, <1>4, RecordKeepsLimits
<1>6. ClaimsType'
    BY <1>1, <1>2, <1>3 DEF ClaimsInv, ClaimsType
<1>7. PayoutsCounted'
  <2>1. claims \in [Accounts -> Int] /\ now \in Nat
      BY DEF ClaimsInv, ClaimsType
  <2>2. \A x \in Accounts : claims'[x] = IF x = AccountOf[t] THEN now ELSE claims[x]
      BY <1>1, <2>1
  <2> QED
      BY <1>1, <1>2, <2>1, <2>2 DEF ClaimsInv, PayoutsCounted
<1>8. CoinsInv'
    BY <1>1, ReserveKeepsCoins
<1> QED
    BY <1>3, <1>5, <1>6, <1>7, <1>8 DEF ClaimsInv

\* The row cannot be written, or the node's answer is lost.
LEMMA LossKeepsClaims ==
    ASSUME ClaimsInv, NEW t \in Tabs, Claims!RecordFails(t) \/ Claims!OutcomeUnknown(t)
    PROVE  ClaimsInv'
<1>1. /\ req[t] \in {"broadcast", "accepted"} /\ req[t] \in Sending
      /\ \E s \in {"paid", "refused"} : Claims!EndSend(t, s)
      /\ reserved' = reserved \union {coin}
      /\ \/ pendingChange' = pendingChange \ {coin}
         \/ req[t] = "accepted" /\ pendingChange' = (pendingChange \ {coin}) \union Claims!Change(coin)
      /\ UNCHANGED <<unspent, listed, payouts, conflicts, restarted>>
      /\ faucetUnsure \subseteq faucetUnsure' /\ (req[t] = "accepted" => AccountOf[t] \in faucetUnsure')
  <2>1. CASE Claims!RecordFails(t)
      BY <2>1 DEF Claims!RecordFails, Claims!reserve, Claims!Unrecorded, Claims!EndSend, Claims!Request,
                  Claims!btcVars, Sending
  <2>2. CASE Claims!OutcomeUnknown(t)
      BY <2>2 DEF Claims!OutcomeUnknown, Claims!reserve, Claims!Unrecorded, Claims!EndSend, Claims!Request,
                  Claims!btcVars, Sending
  <2> QED
      BY <2>1, <2>2
<1>2. PICK s \in {"paid", "refused"} : Claims!EndSend(t, s)
    BY <1>1
<1>3. req' = [req EXCEPT ![t] = s] /\ faucetQueue' = Tail(faucetQueue)
    BY <1>2 DEF Claims!EndSend, Claims!Request
<1>4. CoinsInv'
    BY <1>1, <1>3, ReserveKeepsCoins
<1> QED
    BY <1>1, <1>2, <1>4, EndingKeepsClaims

\* A restart forgets the requests and the reservations, and becomes unsure of
\* the account whose payment the node had taken.
LEMMA RestartKeepsClaims ==
    ASSUME ClaimsInv, Claims!Restart
    PROVE  ClaimsInv'
<1>1. /\ restarted' = TRUE /\ faucetQueue' = <<>> /\ req' = [t \in Tabs |-> "none"]
      /\ faucetUnsure' = faucetUnsure \union {AccountOf[t] : t \in {u \in Tabs : req[u] = "accepted"}}
      /\ UNCHANGED <<now, payouts, claims>>
    BY DEF Claims!Restart, Claims!btcVars
<1>2. req' \in [Tabs -> Requests] /\ \A t \in Tabs : req'[t] \notin Sending
    BY <1>1 DEF Requests, Sending
<1>3. ClaimsType'
    BY <1>1, <1>2 DEF ClaimsInv, ClaimsType
<1>4. SendLocked' /\ CheckStands'
    BY <1>2 DEF SendLocked, CheckStands
<1>5. PayoutsCounted'
    BY <1>1 DEF ClaimsInv, PayoutsCounted
<1>6. LimitsInv'
    BY <1>1 DEF ClaimsInv, LimitsInv, PaidOn, PaidWithin
<1>7. CoinsInv'
    BY <1>1 DEF CoinsInv
<1> QED
    BY <1>3, <1>4, <1>5, <1>6, <1>7 DEF ClaimsInv

\* Every step of the faucet keeps the invariant.
LEMMA ClaimsStep ==
    ASSUME ClaimsInv, Claims!Next
    PROVE  ClaimsInv'
BY TabKeepsClaims, MidnightKeepsClaims, IndexKeepsClaims, LockingKeepsClaims, SendKeepsClaims,
   BroadcastKeepsClaims, PaidKeepsClaims, LossKeepsClaims, RestartKeepsClaims
   DEF Claims!Next, Claims!ServerStep

\* Nobody is paid at first.
LEMMA ClaimsStart ==
    ASSUME Claims!Init
    PROVE  ClaimsInv
<1>1. /\ now = 0 /\ faucetQueue = <<>> /\ req = [t \in Tabs |-> "none"] /\ restarted = FALSE
      /\ payouts = [x \in Accounts |-> 0] /\ claims = [x \in Accounts |-> -1]
      /\ unspent = Coins /\ listed = Coins /\ reserved = {} /\ pendingChange = {} /\ conflicts = FALSE
    BY DEF Claims!Init
<1>2. ClaimsType /\ \A t \in Tabs : req[t] = "none"
    BY <1>1 DEF ClaimsType, Requests
<1>3. SendLocked /\ CheckStands /\ PayoutsCounted
    BY <1>1, <1>2 DEF SendLocked, CheckStands, PayoutsCounted, Sending
<1>4. LimitsInv
  <2>1. \A day \in 0..0 : PaidOn(day) = {} /\ PaidWithin(day - ipWindow + 1, day) = {}
      BY <1>1 DEF PaidOn, PaidWithin
  <2>2. Cardinality({}) = 0 /\ 0 <= dailyCap /\ 0 <= ipClaimsPerWindow
      BY FS_EmptySet, FaucetAssumption
  <2>3. \A day \in 0..0 : /\ Cardinality(PaidOn(day)) <= dailyCap
                          /\ Cardinality(PaidWithin(day - ipWindow + 1, day)) <= ipClaimsPerWindow
      BY <2>1, <2>2, Zenon
  <2> QED
      BY <1>1, <2>3, Zenon DEF LimitsInv
<1>5. CoinsInv
    BY <1>1, <1>2 DEF CoinsInv
<1> QED
    BY <1>2, <1>3, <1>4, <1>5 DEF ClaimsInv

\* What the invariant says of the faucet's promises.
LEMMA ClaimsInvIsEnough ==
    ASSUME ClaimsInv
    PROVE  Claims!PaidTwiceOnlyIfUnsure /\ Claims!ConflictOnlyAfterRestart /\ Claims!LimitsHold
<1>1. Claims!PaidTwiceOnlyIfUnsure
    BY DEF ClaimsInv, PayoutsCounted, Claims!PaidTwiceOnlyIfUnsure
<1>2. Claims!ConflictOnlyAfterRestart
    BY DEF ClaimsInv, CoinsInv, Claims!ConflictOnlyAfterRestart
<1>3. Claims!LimitsHold
    BY Counting DEF ClaimsInv, LimitsInv, PaidOn, PaidWithin, Claims!LimitsHold
<1> QED
    BY <1>1, <1>2, <1>3

\* faucet/service.ts: "one claim ever per Pollar account", "never double-spends
\* its own UTXOs", and the limits that are checked before and after the queue
\* hold for what is recorded, whatever tabs, days, faults and restarts come
\* between two awaits of a claim.
THEOREM ClaimsStayBounded == MCSpec => []ClaimsAreBounded
<1> DEFINE Inv == part = "faucet" => ClaimsInv
<1>1. MCInit => Inv
    BY ClaimsStart DEF MCInit
<1>2. Inv /\ [MCNext]_all => Inv'
  <2> SUFFICES ASSUME Inv, [MCNext]_all, part' = "faucet" PROVE ClaimsInv'
      OBVIOUS
  <2>1. CASE ClaimsNext
      BY <2>1, ClaimsStep DEF ClaimsNext
  <2>2. CASE UNCHANGED all
    <3>1. part = "faucet" /\ UNCHANGED claimsVars
        BY <2>2 DEF all
    <3>2. UNCHANGED <<now, payouts, claims, req, faucetQueue, faucetUnsure>> /\ CoinsInv'
        BY <3>1 DEF claimsVars, ClaimsInv, CoinsInv, Underway, Claims!Change
    <3> QED
        BY <3>1, <3>2, CoinsAside
  <2>3. CASE MCNext /\ ~ClaimsNext
      BY <2>3 DEF MCNext, MintsNext, ArchiveNext, VaultNext, ApiNext, ReadsNext, FunnelNext
  <2> QED
      BY <2>1, <2>2, <2>3
<1>3. Inv => ClaimsAreBounded
    BY ClaimsInvIsEnough DEF ClaimsAreBounded
<1> QED
    BY <1>1, <1>2, <1>3, PTL DEF MCSpec

(* The limiter of the DeFindex routes and the alerts of an outage.            *)

\* Counting a part of a set with one more member, with one fewer, and of two sets.
LEMMA PartWithOneMore ==
    ASSUME NEW S, IsFiniteSet(S), NEW x, NEW T, T \subseteq S \union {x}
    PROVE  /\ IsFiniteSet(T) /\ Cardinality(T) \in Nat /\ Cardinality(S) \in Nat
           /\ Cardinality(T) <= Cardinality(S) + 1
<1>1. IsFiniteSet(S \union {x}) /\ Cardinality(S \union {x}) = IF x \in S THEN Cardinality(S) ELSE Cardinality(S) + 1
    BY FS_AddElement
<1>2. IsFiniteSet(T) /\ Cardinality(T) <= Cardinality(S \union {x})
    BY <1>1, FS_Subset
<1>3. Cardinality(T) \in Nat /\ Cardinality(S) \in Nat
    BY <1>2, FS_CardinalityType
<1> QED
    BY <1>1, <1>2, <1>3

LEMMA PartWithOneFewer ==
    ASSUME NEW S, IsFiniteSet(S), NEW x \in S, NEW T, T \subseteq S, x \notin T
    PROVE  Cardinality(T) \in Nat /\ Cardinality(S) \in Nat /\ Cardinality(T) <= Cardinality(S) - 1
<1>1. IsFiniteSet(S \ {x}) /\ Cardinality(S \ {x}) = Cardinality(S) - 1
    BY FS_RemoveElement
<1>2. T \subseteq S \ {x}
    OBVIOUS
<1>3. IsFiniteSet(T) /\ Cardinality(T) <= Cardinality(S \ {x})
    BY <1>1, <1>2, FS_Subset
<1>4. Cardinality(T) \in Nat /\ Cardinality(S) \in Nat
    BY <1>3, FS_CardinalityType
<1> QED
    BY <1>1, <1>3, <1>4

LEMMA PartOfTwo ==
    ASSUME NEW A, NEW B, IsFiniteSet(A), IsFiniteSet(B), NEW T, T \subseteq A \union B
    PROVE  /\ Cardinality(T) \in Nat /\ Cardinality(A) \in Nat /\ Cardinality(B) \in Nat
           /\ Cardinality(T) <= Cardinality(A) + Cardinality(B)
<1>1. /\ IsFiniteSet(A \union B) /\ IsFiniteSet(A \intersect B)
      /\ Cardinality(A \union B) = Cardinality(A) + Cardinality(B) - Cardinality(A \intersect B)
    BY FS_Union, FS_Intersection
<1>2. IsFiniteSet(T) /\ Cardinality(T) <= Cardinality(A \union B)
    BY <1>1, FS_Subset
<1>3. /\ Cardinality(T) \in Nat /\ Cardinality(A) \in Nat /\ Cardinality(B) \in Nat
      /\ Cardinality(A \intersect B) \in Nat
    BY <1>1, <1>2, FS_CardinalityType
<1> QED
    BY <1>1, <1>2, <1>3

\* The requests of a client that passed in a span of time, or since a time.
Passed(c, from, to) ==
    {i \in DOMAIN admitted : admitted[i][1] = c /\ from <= admitted[i][2] /\ admitted[i][2] <= to}
PassedSince(c, from) == {i \in DOMAIN admitted : admitted[i][1] = c /\ from <= admitted[i][2]}

\* Where the client's window began.
Opened(c) == windows[c].resetAt - windowMs

WindowsType ==
    /\ apiNow \in Nat
    /\ windows \in [Clients -> [count : Nat, resetAt : Nat]]
    /\ admitted \in Seq(Clients \X Nat)
    /\ \A i \in DOMAIN admitted : admitted[i][2] <= apiNow

\* A window counts what passed since it began, its first request among them, and
\* nothing later than its end.
WindowCounts(c) ==
    /\ Opened(c) \in 0..apiNow
    /\ windows[c].count \in 1..limit
    /\ windows[c].count = Cardinality(PassedSince(c, Opened(c)))
    /\ \E i \in DOMAIN admitted : admitted[i][1] = c /\ admitted[i][2] = Opened(c)
    /\ \A i \in DOMAIN admitted : admitted[i][1] = c => admitted[i][2] < windows[c].resetAt

\* Of the window before, at most limit - 1 requests are less than a window away.
FewBefore(c) ==
    \A t \in Nat : Opened(c) - windowMs < t /\ t < Opened(c) =>
        Cardinality(Passed(c, t, Opened(c) - 1)) <= limit - 1

BurstsBounded(c) ==
    \A t \in 0..apiNow : Cardinality(Passed(c, t, t + windowMs - 1)) <= 2 * limit - 1

LimiterInv ==
    /\ WindowsType
    /\ \A c \in Clients :
          /\ windows[c] = Api!NoWindow => \A i \in DOMAIN admitted : admitted[i][1] # c
          /\ windows[c] # Api!NoWindow => WindowCounts(c) /\ FewBefore(c)
          /\ BurstsBounded(c)

\* What passed is a finite set of places, and part of another is no larger.
LEMMA PassedIsFinite ==
    ASSUME WindowsType, NEW c, NEW from, NEW to
    PROVE  /\ IsFiniteSet(Passed(c, from, to)) /\ Cardinality(Passed(c, from, to)) \in Nat
           /\ IsFiniteSet(PassedSince(c, from)) /\ Cardinality(PassedSince(c, from)) \in Nat
<1>1. IsFiniteSet(DOMAIN admitted)
  <2>1. DOMAIN admitted = 1..Len(admitted) /\ Len(admitted) \in Nat
      BY DEF WindowsType
  <2> QED
      BY <2>1, FS_Interval
<1>2. Passed(c, from, to) \in SUBSET DOMAIN admitted /\ PassedSince(c, from) \in SUBSET DOMAIN admitted
    BY DEF Passed, PassedSince
<1>3. IsFiniteSet(Passed(c, from, to)) /\ IsFiniteSet(PassedSince(c, from))
    BY <1>1, <1>2, FS_Subset
<1> QED
    BY <1>3, FS_CardinalityType

\* A request that passes: one more place, of its client, at this time.
LEMMA PassesOnce ==
    ASSUME WindowsType, NEW c \in Clients, admitted' = Append(admitted, <<c, apiNow>>)
    PROVE  /\ admitted' \in Seq(Clients \X Nat)
           /\ Len(admitted) + 1 \notin DOMAIN admitted
           /\ DOMAIN admitted' = DOMAIN admitted \union {Len(admitted) + 1}
           /\ \A i \in DOMAIN admitted : admitted'[i] = admitted[i]
           /\ admitted'[Len(admitted) + 1][1] = c /\ admitted'[Len(admitted) + 1][2] = apiNow
<1>1. admitted \in Seq(Clients \X Nat) /\ <<c, apiNow>> \in Clients \X Nat
    BY DEF WindowsType
<1>2. /\ admitted' \in Seq(Clients \X Nat) /\ Len(admitted') = Len(admitted) + 1
      /\ Len(admitted) \in Nat /\ DOMAIN admitted = 1..Len(admitted) /\ DOMAIN admitted' = 1..Len(admitted')
      /\ \A i \in 1..Len(admitted) : admitted'[i] = admitted[i]
      /\ admitted'[Len(admitted) + 1] = <<c, apiNow>>
    BY <1>1
<1>3. 1..(Len(admitted) + 1) = (1..Len(admitted)) \union {Len(admitted) + 1} /\ Len(admitted) + 1 \notin 1..Len(admitted)
    BY <1>2
<1> QED
    BY <1>2, <1>3

\* What the invariant says of one client.
LimiterOf(c) ==
    /\ windows[c] = Api!NoWindow => \A i \in DOMAIN admitted : admitted[i][1] # c
    /\ windows[c] # Api!NoWindow => WindowCounts(c) /\ FewBefore(c)
    /\ BurstsBounded(c)

\* It stays so where neither its window nor what it passed changed.
LEMMA LimiterOfOther ==
    ASSUME NEW c \in Clients, LimiterOf(c),
           windows'[c] = windows[c], apiNow' = apiNow,
           \A i \in DOMAIN admitted' : admitted'[i][1] = c => i \in DOMAIN admitted,
           \A i \in DOMAIN admitted : i \in DOMAIN admitted' /\ admitted'[i] = admitted[i]
    PROVE  LimiterOf(c)'
<1>1. ASSUME NEW x, NEW y PROVE Passed(c, x, y)' = Passed(c, x, y) /\ PassedSince(c, x)' = PassedSince(c, x)
    BY DEF Passed, PassedSince
<1>2. Opened(c)' = Opened(c)
    BY DEF Opened
<1>3. (windows[c] = Api!NoWindow)' <=> windows[c] = Api!NoWindow
    BY DEF Api!NoWindow
<1>4. BurstsBounded(c)' <=> BurstsBounded(c)
    BY <1>1 DEF BurstsBounded, Passed
<1>5. FewBefore(c)' <=> FewBefore(c)
    BY <1>1, <1>2 DEF FewBefore, Passed
<1>6. WindowCounts(c) => WindowCounts(c)'
  <2>1. PassedSince(c, Opened(c))' = PassedSince(c, Opened(c))
      BY <1>1, <1>2 DEF PassedSince
  <2> QED
      BY <1>2, <2>1 DEF WindowCounts
<1> QED
    BY <1>3, <1>4, <1>5, <1>6 DEF LimiterOf

\* A first request opens a window.
LEMMA OpeningKeepsLimiter ==
    ASSUME WindowsType, NEW c \in Clients, LimiterOf(c), Api!expired(windows[c]),
           windows'[c] = [count |-> 1, resetAt |-> apiNow + windowMs], apiNow' = apiNow,
           admitted' = Append(admitted, <<c, apiNow>>)
    PROVE  LimiterOf(c)'
<1> DEFINE new == Len(admitted) + 1
<1>1. /\ new \notin DOMAIN admitted /\ DOMAIN admitted' = DOMAIN admitted \union {new}
      /\ \A i \in DOMAIN admitted : admitted'[i] = admitted[i]
      /\ admitted'[new][1] = c /\ admitted'[new][2] = apiNow
    BY PassesOnce
<1>2. /\ apiNow \in Nat /\ windowMs \in Nat \ {0} /\ limit \in Nat \ {0}
      /\ \A i \in DOMAIN admitted : admitted[i][2] \in Nat /\ admitted[i][2] <= apiNow
  <2>1. \A i \in DOMAIN admitted : admitted[i] \in Clients \X Nat
      BY DEF WindowsType
  <2> QED
      BY <2>1, ApiAssumption DEF WindowsType
<1> HIDE DEF new
\* Nothing of this client passed at this time yet.
<1>3. \A i \in DOMAIN admitted : admitted[i][1] = c => admitted[i][2] < apiNow
  <2>1. CASE windows[c] = Api!NoWindow
      BY <2>1 DEF LimiterOf
  <2>2. CASE windows[c] # Api!NoWindow
    <3>1. windows[c].resetAt <= apiNow /\ windows[c].resetAt \in Nat
        BY <2>2 DEF Api!expired, WindowsType
    <3>2. \A i \in DOMAIN admitted : admitted[i][1] = c => admitted[i][2] < windows[c].resetAt
        BY <2>2 DEF LimiterOf, WindowCounts
    <3> QED
        BY <1>2, <3>1, <3>2
  <2> QED
      BY <2>1, <2>2
<1>4. Opened(c)' = apiNow /\ windows'[c].count = 1 /\ windows'[c].resetAt = apiNow + windowMs
    BY <1>2 DEF Opened
<1>5. windows'[c] # Api!NoWindow
    BY <1>4 DEF Api!NoWindow
<1>6. WindowCounts(c)'
  <2>1. PassedSince(c, apiNow)' = {new}
      BY <1>1, <1>2, <1>3 DEF PassedSince
  <2>2. PassedSince(c, Opened(c))' = {new}
      BY <1>4, <2>1 DEF PassedSince
  <2>3. Cardinality({new}) = 1
      BY FS_Singleton
  <2>4. \A i \in DOMAIN admitted' : admitted'[i][1] = c => admitted'[i][2] < apiNow + windowMs
      BY <1>1, <1>2
  <2>5. \E i \in DOMAIN admitted' : admitted'[i][1] = c /\ admitted'[i][2] = apiNow
      BY <1>1
  <2>6. 1 \in 1..limit /\ apiNow \in 0..apiNow
      BY <1>2
  <2> QED
      BY <1>4, <2>2, <2>3, <2>4, <2>5, <2>6 DEF WindowCounts
\* Less than a window ago, the window before had already let its first one in.
<1>7. ASSUME NEW t \in Nat, apiNow - windowMs < t, t < apiNow
      PROVE  Cardinality(Passed(c, t, apiNow - 1)) <= limit - 1
  <2>1. CASE windows[c] = Api!NoWindow
    <3>1. Passed(c, t, apiNow - 1) = {}
        BY <2>1 DEF LimiterOf, Passed
    <3>2. Cardinality(Passed(c, t, apiNow - 1)) = 0
        BY <3>1, FS_EmptySet, Zenon
    <3>3. limit \in Nat \ {0}
        BY <1>2
    <3> QED
        BY <3>2, <3>3
  <2>2. CASE windows[c] # Api!NoWindow
    <3>1. /\ Opened(c) \in Int /\ Opened(c) + windowMs <= apiNow
          /\ WindowCounts(c) /\ windows[c].count \in Nat
        BY <1>2, <2>2 DEF Api!expired, WindowsType, LimiterOf, Opened
    <3>2. PICK i \in DOMAIN admitted : admitted[i][1] = c /\ admitted[i][2] = Opened(c)
        BY <3>1 DEF WindowCounts
    <3>3. i \in PassedSince(c, Opened(c)) /\ i \notin Passed(c, t, apiNow - 1)
        BY <1>2, <1>7, <3>1, <3>2 DEF PassedSince, Passed
    <3>4. Passed(c, t, apiNow - 1) \subseteq PassedSince(c, Opened(c))
        BY <1>2, <1>7, <3>1 DEF PassedSince, Passed
    <3>5. IsFiniteSet(PassedSince(c, Opened(c)))
        BY PassedIsFinite
    <3>6. /\ Cardinality(Passed(c, t, apiNow - 1)) \in Nat
          /\ Cardinality(PassedSince(c, Opened(c))) \in Nat
          /\ Cardinality(Passed(c, t, apiNow - 1)) <= Cardinality(PassedSince(c, Opened(c))) - 1
        BY <3>3, <3>4, <3>5, PartWithOneFewer
    <3>7. Cardinality(PassedSince(c, Opened(c))) = windows[c].count /\ windows[c].count \in 1..limit
        BY <3>1 DEF WindowCounts
    <3>8. Cardinality(PassedSince(c, Opened(c))) \in 1..limit
        BY <3>7, Zenon
    <3>9. limit \in Nat
        BY <1>2
    <3> QED
        BY <3>6, <3>8, <3>9
  <2> QED
      BY <2>1, <2>2
<1>8. FewBefore(c)'
  <2>1. \A t \in Nat : Passed(c, t, apiNow - 1)' = Passed(c, t, apiNow - 1)
      BY <1>1, <1>2 DEF Passed
  <2>2. \A t \in Nat : Passed(c, t, Opened(c) - 1)' = Passed(c, t, apiNow - 1)
      BY <1>4, <2>1 DEF Passed
  <2> QED
      BY <1>4, <1>7, <2>2 DEF FewBefore
<1>9. BurstsBounded(c)'
  <2>1. SUFFICES ASSUME NEW t \in 0..apiNow
                 PROVE  Cardinality(Passed(c, t, t + windowMs - 1)') <= 2 * limit - 1
      BY DEF BurstsBounded
  <2>2. CASE t + windowMs - 1 < apiNow
    <3>1. Passed(c, t, t + windowMs - 1)' = Passed(c, t, t + windowMs - 1)
        BY <1>1, <1>2, <2>2 DEF Passed
    <3> QED
        BY <3>1 DEF LimiterOf, BurstsBounded
  <2>3. CASE t + windowMs - 1 >= apiNow /\ t < apiNow
    <3>1. Passed(c, t, t + windowMs - 1)' \subseteq Passed(c, t, apiNow - 1) \union {new}
        BY <1>1, <1>2, <1>3, <2>3 DEF Passed
    <3>2. Cardinality(Passed(c, t, apiNow - 1)) <= limit - 1
        BY <1>2, <1>7, <2>3
    <3>3. IsFiniteSet(Passed(c, t, apiNow - 1))
        BY PassedIsFinite
    <3>4. /\ Cardinality(Passed(c, t, t + windowMs - 1)') <= Cardinality(Passed(c, t, apiNow - 1)) + 1
          /\ Cardinality(Passed(c, t, t + windowMs - 1)') \in Nat
          /\ Cardinality(Passed(c, t, apiNow - 1)) \in Nat
        BY <3>1, <3>3, PartWithOneMore
    <3>5. limit \in Nat \ {0}
        BY <1>2
    <3> QED
        BY <3>2, <3>4, <3>5
  <2>4. CASE t = apiNow
    <3>1. Passed(c, t, t + windowMs - 1)' = {new}
        BY <1>1, <1>2, <1>3, <2>4 DEF Passed
    <3>2. Cardinality(Passed(c, t, t + windowMs - 1)') = 1
        BY <3>1, FS_Singleton, Zenon
    <3>3. limit \in Nat \ {0}
        BY <1>2
    <3> QED
        BY <3>2, <3>3
  <2> QED
      BY <1>2, <2>2, <2>3, <2>4
<1> QED
    BY <1>5, <1>6, <1>8, <1>9 DEF LimiterOf

\* A later request counts against the window that is open.
LEMMA CountingKeepsLimiter ==
    ASSUME WindowsType, NEW c \in Clients, LimiterOf(c), ~Api!expired(windows[c]),
           windows[c].count < limit,
           windows'[c] = [count |-> windows[c].count + 1, resetAt |-> windows[c].resetAt], apiNow' = apiNow,
           admitted' = Append(admitted, <<c, apiNow>>)
    PROVE  LimiterOf(c)'
<1> DEFINE new == Len(admitted) + 1
<1>s. PICK s : s = Opened(c)
    OBVIOUS
<1>1. /\ new \notin DOMAIN admitted /\ DOMAIN admitted' = DOMAIN admitted \union {new}
      /\ \A i \in DOMAIN admitted : admitted'[i] = admitted[i]
      /\ admitted'[new][1] = c /\ admitted'[new][2] = apiNow
    BY PassesOnce
<1> HIDE DEF new
<1>2. /\ apiNow \in Nat /\ windowMs \in Nat \ {0} /\ limit \in Nat \ {0}
      /\ \A i \in DOMAIN admitted : admitted[i][2] \in Nat /\ admitted[i][2] <= apiNow
  <2>1. \A i \in DOMAIN admitted : admitted[i] \in Clients \X Nat
      BY DEF WindowsType
  <2> QED
      BY <2>1, ApiAssumption DEF WindowsType
<1>3. /\ windows[c] # Api!NoWindow /\ windows[c] \in [count : Nat, resetAt : Nat]
      /\ apiNow < windows[c].resetAt
    BY <1>2 DEF Api!expired, WindowsType
<1>4. WindowCounts(c) /\ FewBefore(c) /\ BurstsBounded(c)
    BY <1>3 DEF LimiterOf
<1>5. s \in Nat /\ s <= apiNow /\ apiNow < s + windowMs /\ windows[c].resetAt = s + windowMs
  <2>1. s = windows[c].resetAt - windowMs /\ s \in 0..apiNow
      BY <1>4, <1>s DEF Opened, WindowCounts
  <2>2. windows[c].resetAt \in Nat
      BY <1>3
  <2> QED
      BY <1>2, <1>3, <2>1, <2>2
<1>6. /\ windows'[c].count = windows[c].count + 1 /\ windows'[c].resetAt = windows[c].resetAt
      /\ windows[c].count \in Nat
    BY <1>3
<1>7. Opened(c)' = s
    BY <1>6, <1>s DEF Opened
<1>8. windows'[c] # Api!NoWindow
    BY <1>6 DEF Api!NoWindow
<1>9. PassedSince(c, s)' = PassedSince(c, s) \union {new} /\ new \notin PassedSince(c, s)
    BY <1>1, <1>5 DEF PassedSince
<1>10. Cardinality(PassedSince(c, s)') = windows'[c].count /\ IsFiniteSet(PassedSince(c, s)')
  <2>1. IsFiniteSet(PassedSince(c, s))
      BY PassedIsFinite
  <2>2. /\ Cardinality(PassedSince(c, s) \union {new}) = Cardinality(PassedSince(c, s)) + 1
        /\ IsFiniteSet(PassedSince(c, s) \union {new})
      BY <1>9, <2>1, FS_AddElement
  <2>3. Cardinality(PassedSince(c, s)) = windows[c].count
      BY <1>4, <1>s DEF WindowCounts
  <2> QED
      BY <1>6, <1>9, <2>2, <2>3, Zenon
<1>11. windows'[c].count \in 1..limit
    BY <1>2, <1>6
<1>12. WindowCounts(c)'
  <2>1. PassedSince(c, Opened(c))' = PassedSince(c, s)'
      BY <1>7 DEF PassedSince
  <2>2. \E i \in DOMAIN admitted' : admitted'[i][1] = c /\ admitted'[i][2] = s
    <3>1. PICK i \in DOMAIN admitted : admitted[i][1] = c /\ admitted[i][2] = s
        BY <1>4, <1>s DEF WindowCounts
    <3> QED
        BY <1>1, <3>1
  <2>3. \A i \in DOMAIN admitted' : admitted'[i][1] = c => admitted'[i][2] < windows[c].resetAt
    <3>1. \A i \in DOMAIN admitted : admitted[i][1] = c => admitted[i][2] < windows[c].resetAt
        BY <1>4 DEF WindowCounts
    <3> QED
        BY <1>1, <1>3, <3>1
  <2>4. s \in 0..apiNow
      BY <1>2, <1>5
  <2> QED
      BY <1>6, <1>7, <1>10, <1>11, <2>1, <2>2, <2>3, <2>4 DEF WindowCounts
<1>13. ASSUME NEW t PROVE Passed(c, t, s - 1)' = Passed(c, t, s - 1)
    BY <1>1, <1>2, <1>5 DEF Passed
<1>14. FewBefore(c)'
  <2>1. ASSUME NEW t \in Nat, s - windowMs < t, t < s
        PROVE  Cardinality(Passed(c, t, s - 1)) <= limit - 1
      BY <1>4, <1>s, <2>1 DEF FewBefore
  <2>2. \A t \in Nat : Passed(c, t, Opened(c) - 1)' = Passed(c, t, s - 1)
    <3>1. \A t \in Nat : Passed(c, t, Opened(c) - 1)' = Passed(c, t, s - 1)'
        BY <1>7 DEF Passed
    <3> QED
        BY <3>1, <1>13, Zenon
  <2> QED
      BY <1>7, <2>1, <2>2 DEF FewBefore
<1>15. BurstsBounded(c)'
  <2>1. SUFFICES ASSUME NEW t \in 0..apiNow
                 PROVE  Cardinality(Passed(c, t, t + windowMs - 1)') <= 2 * limit - 1
      BY DEF BurstsBounded
  <2>2. CASE t + windowMs - 1 < apiNow
    <3>1. Passed(c, t, t + windowMs - 1)' = Passed(c, t, t + windowMs - 1)
        BY <1>1, <1>2, <2>2 DEF Passed
    <3> QED
        BY <1>4, <3>1 DEF BurstsBounded
  <2>3. CASE t >= s
    <3>1. Passed(c, t, t + windowMs - 1)' \subseteq PassedSince(c, s)'
        BY <1>1, <1>2, <1>5, <2>3 DEF Passed, PassedSince
    <3>2. /\ Cardinality(Passed(c, t, t + windowMs - 1)') <= Cardinality(PassedSince(c, s)')
          /\ IsFiniteSet(Passed(c, t, t + windowMs - 1)')
        BY <1>10, <3>1, FS_Subset
    <3>3. Cardinality(Passed(c, t, t + windowMs - 1)') \in Nat
        BY <3>2, FS_CardinalityType
    <3>4. Cardinality(PassedSince(c, s)') \in 1..limit
        BY <1>10, <1>11, Zenon
    <3>5. limit \in Nat \ {0}
        BY <1>2
    <3> QED
        BY <3>2, <3>3, <3>4, <3>5
  <2>4. CASE t < s /\ t + windowMs - 1 >= apiNow
    <3>1. Passed(c, t, t + windowMs - 1)' \subseteq Passed(c, t, s - 1) \union PassedSince(c, s)'
        BY <1>1, <1>2, <1>5, <2>4 DEF Passed, PassedSince
    <3>2. t \in Nat /\ s - windowMs < t
        BY <1>2, <1>5, <2>4
    <3>3. Cardinality(Passed(c, t, s - 1)) <= limit - 1
        BY <1>4, <1>s, <2>4, <3>2 DEF FewBefore
    <3>4. IsFiniteSet(Passed(c, t, s - 1))
        BY PassedIsFinite
    <3>5. /\ Cardinality(Passed(c, t, t + windowMs - 1)') \in Nat
          /\ Cardinality(Passed(c, t, s - 1)) \in Nat
          /\ Cardinality(Passed(c, t, t + windowMs - 1)')
               <= Cardinality(Passed(c, t, s - 1)) + Cardinality(PassedSince(c, s)')
        BY <1>10, <3>1, <3>4, PartOfTwo
    <3>6. Cardinality(PassedSince(c, s)') \in 1..limit
        BY <1>10, <1>11, Zenon
    <3>7. limit \in Nat \ {0}
        BY <1>2
    <3> QED
        BY <3>3, <3>5, <3>6, <3>7
  <2> QED
      BY <1>2, <1>5, <2>2, <2>3, <2>4
<1> QED
    BY <1>8, <1>12, <1>14, <1>15 DEF LimiterOf

\* The places of the answers that end a run of failures reaching the threshold.
StreaksOf(fs) ==
    LET n == ALERT_AFTER_CONSECUTIVE_FAILURES
    IN {i \in DOMAIN fs :
            /\ i >= n
            /\ \A j \in (i - n + 1)..i : fs[j]
            /\ i > n => ~fs[i - n]}

\* A route's failing streak is the run of failures its answers end with, and the
\* alerts are as many as the runs that reached the threshold.
StreakCounts(r) ==
    /\ failed[r] \in Seq(BOOLEAN)
    /\ stats[r].streak \in 0..Len(failed[r])
    /\ \A j \in (Len(failed[r]) - stats[r].streak + 1)..Len(failed[r]) : failed[r][j]
    /\ stats[r].streak < Len(failed[r]) => ~failed[r][Len(failed[r]) - stats[r].streak]
    /\ alerts[r] = Cardinality(StreaksOf(failed[r]))
    /\ stats[r].streak >= ALERT_AFTER_CONSECUTIVE_FAILURES => alerts[r] > 0

AlertsInv ==
    /\ stats \in [Routes -> [requests : Int, clientErrors : Int, serverErrors : Int,
                             rateLimited : Int, streak : Int]]
    /\ alerts \in [Routes -> Nat] /\ failed \in [Routes -> Seq(BOOLEAN)]
    /\ \A r \in Routes : StreakCounts(r)

\* One more answer: a new place, and it ends a run exactly at the threshold.
LEMMA AnswerCounts ==
    ASSUME NEW fs \in Seq(BOOLEAN), NEW k \in 0..Len(fs), NEW error \in BOOLEAN,
           \A j \in (Len(fs) - k + 1)..Len(fs) : fs[j],
           k < Len(fs) => ~fs[Len(fs) - k]
    PROVE  StreaksOf(Append(fs, error)) =
             IF error /\ k + 1 = ALERT_AFTER_CONSECUTIVE_FAILURES
             THEN StreaksOf(fs) \union {Len(fs) + 1} ELSE StreaksOf(fs)
<1> DEFINE n == ALERT_AFTER_CONSECUTIVE_FAILURES
<1> DEFINE l == Len(fs)
<1> DEFINE longer == Append(fs, error)
<1>1. n \in Nat \ {0} /\ l \in Nat
    BY ApiAssumption
<1>2. /\ DOMAIN fs = 1..l /\ DOMAIN longer = 1..(l + 1)
      /\ \A i \in 1..l : longer[i] = fs[i]
      /\ longer[l + 1] = error
    OBVIOUS
<1>3. k \in 0..l /\ (\A j \in ((l - k) + 1)..l : fs[j]) /\ (k < l => ~fs[l - k])
    OBVIOUS
<1>4. /\ StreaksOf(fs) = {i \in DOMAIN fs : i >= n /\ (\A j \in ((i - n) + 1)..i : fs[j]) /\ (i > n => ~fs[i - n])}
      /\ StreaksOf(longer) =
           {i \in DOMAIN longer : i >= n /\ (\A j \in ((i - n) + 1)..i : longer[j]) /\ (i > n => ~longer[i - n])}
    BY DEF StreaksOf
<1> HIDE DEF n, l, longer
<1>5. \A i \in 1..l : i \in StreaksOf(longer) <=> i \in StreaksOf(fs)
  <2> SUFFICES ASSUME NEW i \in 1..l, i >= n
               PROVE  i \in StreaksOf(longer) <=> i \in StreaksOf(fs)
      BY <1>2, <1>4
  <2>1. \A j \in ((i - n) + 1)..i : longer[j] = fs[j]
      BY <1>1, <1>2
  <2>2. i > n => longer[i - n] = fs[i - n]
      BY <1>1, <1>2
  <2>3. i \in DOMAIN fs /\ i \in DOMAIN longer
      BY <1>1, <1>2
  <2> QED
      BY <1>4, <2>1, <2>2, <2>3
<1>6. l + 1 \in StreaksOf(longer) <=> error /\ k + 1 = n
  <2>1. ASSUME l + 1 \in StreaksOf(longer) PROVE error /\ k + 1 = n
    <3>1. /\ l + 1 >= n /\ (\A j \in (((l + 1) - n) + 1)..(l + 1) : longer[j])
          /\ (l + 1 > n => ~longer[(l + 1) - n])
        BY <1>4, <2>1
    <3>2. error
        BY <1>1, <1>2, <3>1
    <3>3. ~(k + 1 < n)
      <4> SUFFICES ASSUME k + 1 < n PROVE FALSE
          OBVIOUS
      <4>1. k < l /\ l - k \in (((l + 1) - n) + 1)..(l + 1) /\ l - k \in 1..l
          BY <1>1, <1>3, <3>1
      <4> QED
          BY <1>2, <1>3, <3>1, <4>1
    <3>4. ~(k + 1 > n)
      <4> SUFFICES ASSUME k + 1 > n PROVE FALSE
          OBVIOUS
      <4>1. l + 1 > n /\ (l + 1) - n \in ((l - k) + 1)..l /\ (l + 1) - n \in 1..l
          BY <1>1, <1>3
      <4> QED
          BY <1>2, <1>3, <3>1, <4>1
    <3> QED
        BY <1>1, <1>3, <3>2, <3>3, <3>4
  <2>2. ASSUME error, k + 1 = n PROVE l + 1 \in StreaksOf(longer)
    <3>1. l + 1 \in DOMAIN longer /\ l + 1 >= n
        BY <1>1, <1>2, <1>3, <2>2
    <3>2. \A j \in (((l + 1) - n) + 1)..(l + 1) : longer[j]
      <4> TAKE j \in (((l + 1) - n) + 1)..(l + 1)
      <4>1. j = l + 1 \/ (j \in ((l - k) + 1)..l /\ j \in 1..l)
          BY <1>1, <1>3, <2>2
      <4> QED
          BY <1>2, <1>3, <2>2, <4>1
    <3>3. l + 1 > n => ~longer[(l + 1) - n]
      <4>1. l + 1 > n => k < l /\ (l + 1) - n = l - k /\ l - k \in 1..l
          BY <1>1, <1>3, <2>2
      <4> QED
          BY <1>2, <1>3, <4>1
    <3> QED
        BY <1>4, <3>1, <3>2, <3>3
  <2> QED
      BY <2>1, <2>2
<1>7. StreaksOf(fs) \subseteq 1..l /\ StreaksOf(longer) \subseteq 1..(l + 1)
    BY <1>2, <1>4
<1>8. \A i \in 1..(l + 1) : i \in 1..l \/ i = l + 1
    BY <1>1
<1>9. l + 1 \notin 1..l /\ 1..l \subseteq 1..(l + 1)
    BY <1>1
<1>10. StreaksOf(longer) = IF error /\ k + 1 = n THEN StreaksOf(fs) \union {l + 1} ELSE StreaksOf(fs)
  <2>1. CASE error /\ k + 1 = n
    <3>1. \A x : x \in StreaksOf(longer) <=> x \in StreaksOf(fs) \/ x = l + 1
        BY <1>5, <1>6, <1>7, <1>8, <1>9, <2>1, Zenon
    <3> QED
        BY <2>1, <3>1, Zenon
  <2>2. CASE ~(error /\ k + 1 = n)
    <3>1. \A x : x \in StreaksOf(longer) <=> x \in StreaksOf(fs)
        BY <1>5, <1>6, <1>7, <1>8, <1>9, <2>2, Zenon
    <3> QED
        BY <2>2, <3>1, Zenon
  <2> QED
      BY <2>1, <2>2
<1> QED
    BY <1>10 DEF n, l, longer

\* The places of the runs are finitely many.
LEMMA StreaksAreFinite ==
    ASSUME NEW fs \in Seq(BOOLEAN)
    PROVE  IsFiniteSet(StreaksOf(fs)) /\ Cardinality(StreaksOf(fs)) \in Nat /\ StreaksOf(fs) \subseteq 1..Len(fs)
<1>1. StreaksOf(fs) \subseteq 1..Len(fs) /\ Len(fs) \in Nat
    BY DEF StreaksOf
<1>2. IsFiniteSet(1..Len(fs))
    BY <1>1, FS_Interval
<1>3. IsFiniteSet(StreaksOf(fs))
    BY <1>1, <1>2, FS_Subset
<1> QED
    BY <1>1, <1>3, FS_CardinalityType

\* recordVaultRequest keeps the streaks and the alerts of every route.
LEMMA RecordKeepsAlerts ==
    ASSUME AlertsInv, NEW r \in Routes, NEW status \in Int, Api!recordVaultRequest(r, status)
    PROVE  AlertsInv'
<1> DEFINE n == ALERT_AFTER_CONSECUTIVE_FAILURES
<1>0. PICK error \in BOOLEAN : error = (status >= 500)
  <2>1. CASE status >= 500
    <3>1. TRUE = (status >= 500)
        BY <2>1
    <3> QED
        BY <3>1, Zenon
  <2>2. CASE ~(status >= 500)
    <3>1. FALSE = (status >= 500)
        BY <2>2
    <3> QED
        BY <3>1, Zenon
  <2> QED
      BY <2>1, <2>2
<1>1. PICK fs : fs = failed[r]
    OBVIOUS
<1>2. PICK k : k = stats[r].streak
    OBVIOUS
<1>3. n \in Nat \ {0}
    BY ApiAssumption
<1>4. /\ fs \in Seq(BOOLEAN) /\ k \in 0..Len(fs)
      /\ \A j \in (Len(fs) - k + 1)..Len(fs) : fs[j]
      /\ k < Len(fs) => ~fs[Len(fs) - k]
      /\ alerts[r] = Cardinality(StreaksOf(fs))
      /\ k >= n => alerts[r] > 0
    BY <1>1, <1>2 DEF AlertsInv, StreakCounts
<1>5. failed' = [failed EXCEPT ![r] = Append(fs, error)]
    BY <1>0, <1>1 DEF Api!recordVaultRequest
<1>6. failed'[r] = Append(fs, error) /\ failed' \in [Routes -> Seq(BOOLEAN)]
  <2>1. failed \in [Routes -> Seq(BOOLEAN)] /\ Append(fs, error) \in Seq(BOOLEAN)
      BY <1>4 DEF AlertsInv
  <2> QED
      BY <1>5, <2>1
<1>7. /\ stats' \in [Routes -> [requests : Int, clientErrors : Int, serverErrors : Int,
                                rateLimited : Int, streak : Int]]
      /\ stats'[r].streak = IF error THEN k + 1 ELSE 0
      /\ \A x \in Routes : x # r => stats'[x] = stats[x]
  <2> DEFINE Counters == [requests : Int, clientErrors : Int, serverErrors : Int, rateLimited : Int, streak : Int]
  <2> DEFINE counted == [requests |-> stats[r].requests + 1, streak |-> IF error THEN k + 1 ELSE 0,
                         serverErrors |-> stats[r].serverErrors + (IF error THEN 1 ELSE 0),
                         rateLimited |-> stats[r].rateLimited + (IF status = 429 THEN 1 ELSE 0),
                         clientErrors |-> stats[r].clientErrors
                             + (IF status >= 400 /\ ~error /\ status # 429 THEN 1 ELSE 0)]
  <2>1. stats \in [Routes -> Counters]
      BY DEF AlertsInv
  <2>2. stats' = [stats EXCEPT ![r] = counted]
    <3>1. CASE error
      <4>1. status >= 500
          BY <1>0, <3>1
      <4> QED
          BY <1>2, <3>1, <4>1 DEF Api!recordVaultRequest
    <3>2. CASE ~error
      <4>1. ~(status >= 500)
          BY <1>0, <3>2
      <4> QED
          BY <1>2, <3>2, <4>1 DEF Api!recordVaultRequest
    <3> QED
        BY <3>1, <3>2
  <2>3. counted \in Counters /\ counted.streak = IF error THEN k + 1 ELSE 0
    <3>1. k \in Int /\ stats[r] \in Counters
        BY <1>2, <2>1
    <3> QED
        BY <3>1
  <2> HIDE DEF Counters, counted
  <2>4. stats' \in [Routes -> Counters] /\ stats'[r] = counted /\ \A x \in Routes : x # r => stats'[x] = stats[x]
      BY <2>1, <2>2, <2>3
  <2> QED
      BY <2>3, <2>4 DEF Counters
<1>8. /\ alerts' \in [Routes -> Nat]
      /\ alerts'[r] = IF error /\ k + 1 = n THEN alerts[r] + 1 ELSE alerts[r]
      /\ \A x \in Routes : x # r => alerts'[x] = alerts[x]
  <2>1. alerts \in [Routes -> Nat]
      BY DEF AlertsInv
  <2>2. k \in Int
      BY <1>2 DEF AlertsInv
  <2>3. alerts' = [alerts EXCEPT ![r] = @ + (IF error /\ k + 1 = n THEN 1 ELSE 0)]
    <3>1. CASE error
        BY <1>0, <1>2, <3>1 DEF Api!recordVaultRequest, Api!alertNow
    <3>2. CASE ~error
        BY <1>0, <1>2, <3>2 DEF Api!recordVaultRequest, Api!alertNow
    <3> QED
        BY <3>1, <3>2
  <2> QED
      BY <2>1, <2>3
<1>9. /\ Len(Append(fs, error)) = Len(fs) + 1 /\ Len(fs) \in Nat
      /\ \A i \in 1..Len(fs) : Append(fs, error)[i] = fs[i]
      /\ Append(fs, error)[Len(fs) + 1] = error
    BY <1>4
<1>10. StreaksOf(Append(fs, error)) =
         IF error /\ k + 1 = n THEN StreaksOf(fs) \union {Len(fs) + 1} ELSE StreaksOf(fs)
    BY <1>4, AnswerCounts
<1>11. /\ IsFiniteSet(StreaksOf(fs)) /\ Cardinality(StreaksOf(fs)) \in Nat
       /\ Len(fs) + 1 \notin StreaksOf(fs)
  <2>1. /\ IsFiniteSet(StreaksOf(fs)) /\ Cardinality(StreaksOf(fs)) \in Nat
        /\ StreaksOf(fs) \subseteq 1..Len(fs)
      BY <1>4, StreaksAreFinite
  <2>2. Len(fs) + 1 \notin 1..Len(fs)
      BY <1>9
  <2> QED
      BY <2>1, <2>2
<1>12. alerts'[r] = Cardinality(StreaksOf(failed'[r]))
  <2>1. CASE error /\ k + 1 = n
    <3>1. Cardinality(StreaksOf(fs) \union {Len(fs) + 1}) = Cardinality(StreaksOf(fs)) + 1
        BY <1>11, FS_AddElement
    <3>2. StreaksOf(failed'[r]) = StreaksOf(fs) \union {Len(fs) + 1}
        BY <1>6, <1>10, <2>1, Zenon
    <3>3. alerts'[r] = Cardinality(StreaksOf(fs)) + 1
        BY <1>4, <1>8, <2>1, Zenon
    <3> QED
        BY <3>1, <3>2, <3>3, Zenon
  <2>2. CASE ~(error /\ k + 1 = n)
    <3>1. StreaksOf(failed'[r]) = StreaksOf(fs)
        BY <1>6, <1>10, <2>2, Zenon
    <3> QED
        BY <1>4, <1>8, <2>2, <3>1, Zenon
  <2> QED
      BY <2>1, <2>2
<1>13. stats'[r].streak >= n => alerts'[r] > 0
  <2>1. k \in Nat /\ alerts[r] \in Nat
      BY <1>4, <1>9 DEF AlertsInv
  <2>2. k >= n => alerts[r] > 0
      BY <1>4
  <2> QED
      BY <1>3, <1>7, <1>8, <2>1, <2>2
<1>14. StreakCounts(r)'
  <2>1. stats'[r].streak \in 0..(Len(fs) + 1)
      BY <1>4, <1>7, <1>9
  <2>2. ASSUME NEW j \in ((Len(fs) + 1) - stats'[r].streak + 1)..(Len(fs) + 1)
        PROVE  Append(fs, error)[j]
    <3>1. CASE error
      <4>1. stats'[r].streak = k + 1
          BY <1>7, <3>1
      <4>2. j = Len(fs) + 1 \/ (j \in (Len(fs) - k + 1)..Len(fs) /\ j \in 1..Len(fs))
          BY <1>4, <1>9, <2>2, <4>1
      <4> QED
          BY <1>4, <1>9, <3>1, <4>2
    <3>2. CASE ~error
      <4>1. stats'[r].streak = 0
          BY <1>7, <3>2
      <4> QED
          BY <1>9, <2>2, <4>1
    <3> QED
        BY <3>1, <3>2
  <2>3. ASSUME stats'[r].streak < Len(fs) + 1
        PROVE  ~Append(fs, error)[(Len(fs) + 1) - stats'[r].streak]
    <3>1. CASE error
      <4>1. k < Len(fs) /\ (Len(fs) + 1) - stats'[r].streak = Len(fs) - k /\ Len(fs) - k \in 1..Len(fs)
          BY <1>4, <1>7, <1>9, <2>3, <3>1
      <4> QED
          BY <1>4, <1>9, <4>1
    <3>2. CASE ~error
      <4>1. (Len(fs) + 1) - stats'[r].streak = Len(fs) + 1
          BY <1>7, <1>9, <3>2
      <4> QED
          BY <1>9, <3>2, <4>1
    <3> QED
        BY <3>1, <3>2
  <2>4. Len(failed'[r]) = Len(fs) + 1 /\ failed'[r] \in Seq(BOOLEAN)
      BY <1>6, <1>9
  <2> QED
      BY <1>6, <1>12, <1>13, <2>1, <2>2, <2>3, <2>4 DEF StreakCounts
<1>15. ASSUME NEW x \in Routes, x # r PROVE StreakCounts(x)'
  <2>1. failed'[x] = failed[x]
      BY <1>5, <1>15 DEF AlertsInv
  <2>2. stats'[x] = stats[x] /\ alerts'[x] = alerts[x]
      BY <1>7, <1>8, <1>15
  <2>3. StreakCounts(x)
      BY DEF AlertsInv
  <2> QED
      BY <2>1, <2>2, <2>3 DEF StreakCounts
<1> QED
    BY <1>6, <1>7, <1>8, <1>14, <1>15 DEF AlertsInv

ApiInv == LimiterInv /\ AlertsInv

\* The limiter, whatever it decides about a request, keeps its invariant.
LEMMA RequestKeepsLimiter ==
    ASSUME LimiterInv, NEW c \in Clients, Api!rateLimit(c), apiNow' = apiNow,
           admitted' = IF Api!passes(c) THEN Append(admitted, <<c, apiNow>>) ELSE admitted
    PROVE  LimiterInv'
<1>1. WindowsType /\ \A d \in Clients : LimiterOf(d)
    BY DEF LimiterInv, LimiterOf
<1>2. apiNow \in Nat /\ windowMs \in Nat \ {0} /\ limit \in Nat \ {0} /\ windows[c] \in [count : Nat, resetAt : Nat]
    BY <1>1, ApiAssumption DEF WindowsType
<1>3. windows \in [Clients -> [count : Nat, resetAt : Nat]]
    BY <1>1 DEF WindowsType
<1>4. admitted \in Seq(Clients \X Nat) /\ \A i \in DOMAIN admitted : admitted[i][2] <= apiNow
    BY <1>1 DEF WindowsType
<1>5. ASSUME NEW w \in [count : Nat, resetAt : Nat], windows' = [windows EXCEPT ![c] = w],
             admitted' = Append(admitted, <<c, apiNow>>), LimiterOf(c)'
      PROVE  LimiterInv'
  <2>1. /\ admitted' \in Seq(Clients \X Nat)
        /\ DOMAIN admitted' = DOMAIN admitted \union {Len(admitted) + 1}
        /\ \A i \in DOMAIN admitted : admitted'[i] = admitted[i]
        /\ admitted'[Len(admitted) + 1][1] = c /\ admitted'[Len(admitted) + 1][2] = apiNow
      BY <1>1, <1>5, PassesOnce
  <2>2. windows' \in [Clients -> [count : Nat, resetAt : Nat]] /\ \A d \in Clients : d # c => windows'[d] = windows[d]
      BY <1>3, <1>5
  <2>3. \A i \in DOMAIN admitted' : admitted'[i][2] <= apiNow
      BY <1>2, <1>4, <2>1
  <2>4. ASSUME NEW d \in Clients, d # c PROVE LimiterOf(d)'
    <3>1. windows'[d] = windows[d]
        BY <2>2, <2>4
    <3>2. \A i \in DOMAIN admitted' : admitted'[i][1] = d => i \in DOMAIN admitted
        BY <2>1, <2>4
    <3> QED
        BY <1>1, <2>1, <3>1, <3>2, LimiterOfOther
  <2> QED
      BY <1>2, <1>5, <2>1, <2>2, <2>3, <2>4 DEF LimiterInv, LimiterOf, WindowsType
<1>6. CASE Api!expired(windows[c])
  <2> DEFINE w == [count |-> 1, resetAt |-> apiNow + windowMs]
  <2>1. windows' = [windows EXCEPT ![c] = w]
      BY <1>3, <1>6 DEF Api!rateLimit
  <2>2. admitted' = Append(admitted, <<c, apiNow>>)
      BY <1>6 DEF Api!passes
  <2>3. w \in [count : Nat, resetAt : Nat] /\ windows'[c] = w
      BY <1>2, <1>3, <2>1
  <2>4. LimiterOf(c)'
      BY <1>1, <1>6, <2>2, <2>3, OpeningKeepsLimiter
  <2> QED
      BY <1>5, <2>1, <2>2, <2>3, <2>4
<1>7. CASE ~Api!expired(windows[c]) /\ windows[c].count < limit
  <2> DEFINE w == [count |-> windows[c].count + 1, resetAt |-> windows[c].resetAt]
  <2>1. windows' = [windows EXCEPT ![c] = w]
      BY <1>2, <1>3, <1>7 DEF Api!rateLimit
  <2>2. admitted' = Append(admitted, <<c, apiNow>>)
      BY <1>7 DEF Api!passes
  <2>3. w \in [count : Nat, resetAt : Nat] /\ windows'[c] = w
      BY <1>2, <1>3, <2>1
  <2>4. LimiterOf(c)'
      BY <1>1, <1>7, <2>2, <2>3, CountingKeepsLimiter
  <2> QED
      BY <1>5, <2>1, <2>2, <2>3, <2>4
<1>8. CASE ~Api!expired(windows[c]) /\ ~(windows[c].count < limit)
  <2>1. windows' = windows
      BY <1>3, <1>8 DEF Api!rateLimit
  <2>2. admitted' = admitted
      BY <1>8 DEF Api!passes
  <2>3. ASSUME NEW d \in Clients PROVE LimiterOf(d)'
      BY <1>1, <2>1, <2>2, LimiterOfOther
  <2>4. WindowsType'
      BY <1>1, <2>1, <2>2 DEF WindowsType
  <2> QED
      BY <2>3, <2>4 DEF LimiterInv, LimiterOf
<1> QED
    BY <1>6, <1>7, <1>8

\* Time passes: nothing has passed at the new time yet.
LEMMA TickKeepsLimiter ==
    ASSUME LimiterInv, apiNow' = apiNow + 1, UNCHANGED <<windows, admitted>>
    PROVE  LimiterInv'
<1>1. WindowsType /\ apiNow \in Nat /\ limit \in Nat \ {0}
    BY ApiAssumption DEF LimiterInv, WindowsType
<1>2. \A i \in DOMAIN admitted : admitted[i][2] \in Nat /\ admitted[i][2] <= apiNow
  <2>1. \A i \in DOMAIN admitted : admitted[i] \in Clients \X Nat
      BY <1>1 DEF WindowsType
  <2> QED
      BY <1>1, <2>1 DEF WindowsType
<1>3. WindowsType'
    BY <1>1, <1>2 DEF WindowsType
<1>4. ASSUME NEW c \in Clients PROVE LimiterOf(c)'
  <2>1. LimiterOf(c)
      BY DEF LimiterInv, LimiterOf
  <2>2. ASSUME NEW x, NEW y PROVE Passed(c, x, y)' = Passed(c, x, y) /\ PassedSince(c, x)' = PassedSince(c, x)
      BY DEF Passed, PassedSince
  <2>3. BurstsBounded(c)'
    <3> SUFFICES ASSUME NEW t \in 0..(apiNow + 1)
                 PROVE  Cardinality(Passed(c, t, t + windowMs - 1)) <= 2 * limit - 1
        BY DEF BurstsBounded, Passed
    <3>1. CASE t \in 0..apiNow
        BY <2>1, <3>1 DEF LimiterOf, BurstsBounded
    <3>2. CASE t = apiNow + 1
      <4>1. Passed(c, t, t + windowMs - 1) = {}
          BY <1>1, <1>2, <3>2 DEF Passed
      <4>2. Cardinality(Passed(c, t, t + windowMs - 1)) = 0
          BY <4>1, FS_EmptySet, Zenon
      <4> QED
          BY <1>1, <4>2
    <3> QED
        BY <1>1, <3>1, <3>2
  <2>4. WindowCounts(c) => WindowCounts(c)'
    <3>1. Opened(c)' = Opened(c)
        BY DEF Opened
    <3>2. PassedSince(c, Opened(c))' = PassedSince(c, Opened(c))
        BY <2>2, <3>1 DEF PassedSince
    <3>3. Opened(c) \in 0..apiNow => Opened(c) \in 0..(apiNow + 1)
        BY <1>1
    <3> QED
        BY <3>1, <3>2, <3>3 DEF WindowCounts
  <2>5. FewBefore(c) => FewBefore(c)'
      BY DEF FewBefore, Opened, Passed
  <2>6. (windows[c] = Api!NoWindow)' <=> windows[c] = Api!NoWindow
      BY DEF Api!NoWindow
  <2> QED
      BY <2>1, <2>3, <2>4, <2>5, <2>6 DEF LimiterOf
<1> QED
    BY <1>3, <1>4 DEF LimiterInv, LimiterOf

\* Where neither windows, history nor time change, nothing of the limiter does;
\* and likewise of the alerts.
LEMMA LimiterAside ==
    ASSUME LimiterInv, UNCHANGED <<apiNow, windows, admitted>>
    PROVE  LimiterInv'
<1>1. ASSUME NEW c \in Clients PROVE LimiterOf(c)'
  <2>1. LimiterOf(c)
      BY DEF LimiterInv, LimiterOf
  <2> QED
      BY <2>1, LimiterOfOther
<1> QED
    BY <1>1 DEF LimiterInv, LimiterOf, WindowsType

LEMMA AlertsAside ==
    ASSUME AlertsInv, UNCHANGED <<stats, failed, alerts>>
    PROVE  AlertsInv'
<1>1. ASSUME NEW r \in Routes PROVE StreakCounts(r)'
  <2>1. StreakCounts(r)
      BY DEF AlertsInv
  <2> QED
      BY <2>1 DEF StreakCounts
<1> QED
    BY <1>1 DEF AlertsInv

\* Every step of the API keeps the invariant, and it holds at the start.
LEMMA ApiStep == ApiInv /\ Api!Next => ApiInv'
<1> SUFFICES ASSUME LimiterInv, AlertsInv, Api!Next PROVE LimiterInv' /\ AlertsInv'
    BY DEF ApiInv
<1>1. CASE Api!Tick
    BY <1>1, TickKeepsLimiter, AlertsAside DEF Api!Tick
<1>2. ASSUME NEW c \in Clients, NEW r \in Routes, Api!Request(c, r) PROVE LimiterInv' /\ AlertsInv'
  <2>1. LimiterInv'
      BY <1>2, RequestKeepsLimiter DEF Api!Request
  <2>2. CASE UNCHANGED <<stats, failed, alerts>>
      BY <2>1, <2>2, AlertsAside
  <2>3. CASE \E status \in {400, 429, 500} : Api!recordVaultRequest(r, status)
      BY <2>1, <2>3, RecordKeepsAlerts
  <2> QED
      BY <1>2, <2>1, <2>2, <2>3 DEF Api!Request
<1>3. ASSUME NEW r \in Routes, Api!Answer(r) PROVE LimiterInv' /\ AlertsInv'
  <2>1. LimiterInv'
      BY <1>3, LimiterAside DEF Api!Answer
  <2>2. \A err : Api!mapDefindexError(err) \in Int
      BY DEF Api!mapDefindexError
  <2>3. \E status \in Int : Api!recordVaultRequest(r, status)
      BY <1>3, <2>2 DEF Api!Answer
  <2> QED
      BY <2>1, <2>3, RecordKeepsAlerts
<1> QED
    BY <1>1, <1>2, <1>3 DEF Api!Next

LEMMA ApiStart == Api!Init => ApiInv
<1> SUFFICES ASSUME Api!Init PROVE LimiterInv /\ AlertsInv
    BY DEF ApiInv
<1>1. /\ apiNow = 0 /\ admitted = <<>> /\ windows = [c \in Clients |-> Api!NoWindow]
      /\ stats = [r \in Routes |-> Api!emptyStats]
      /\ failed = [r \in Routes |-> <<>>] /\ alerts = [r \in Routes |-> 0]
    BY DEF Api!Init
<1>2. limit \in Nat \ {0} /\ ALERT_AFTER_CONSECUTIVE_FAILURES \in Nat \ {0}
    BY ApiAssumption
<1>3. WindowsType
    BY <1>1 DEF WindowsType, Api!NoWindow
<1>4. ASSUME NEW c \in Clients PROVE LimiterOf(c)
  <2>1. ASSUME NEW x, NEW y PROVE Cardinality(Passed(c, x, y)) = 0
    <3>1. Passed(c, x, y) = {}
        BY <1>1 DEF Passed
    <3> QED
        BY <3>1, FS_EmptySet, Zenon
  <2>2. BurstsBounded(c)
      BY <1>2, <2>1 DEF BurstsBounded
  <2> QED
      BY <1>1, <2>2 DEF LimiterOf
<1>5. ASSUME NEW r \in Routes PROVE StreakCounts(r)
  <2>1. failed[r] = <<>> /\ alerts[r] = 0 /\ stats[r].streak = 0
      BY <1>1 DEF Api!emptyStats
  <2>2. StreaksOf(<<>>) = {}
      BY DEF StreaksOf
  <2>3. Cardinality(StreaksOf(<<>>)) = 0
      BY <2>2, FS_EmptySet, Zenon
  <2> QED
      BY <1>2, <2>1, <2>3 DEF StreakCounts
<1>6. /\ stats \in [Routes -> [requests : Int, clientErrors : Int, serverErrors : Int,
                               rateLimited : Int, streak : Int]]
      /\ alerts \in [Routes -> Nat] /\ failed \in [Routes -> Seq(BOOLEAN)]
    BY <1>1 DEF Api!emptyStats
<1> QED
    BY <1>3, <1>4, <1>5, <1>6 DEF LimiterInv, LimiterOf, AlertsInv

\* What the invariant says is what the run checks.
LEMMA ApiInvIsEnough == ApiInv => Api!BurstsAndAlertsBounded
<1> SUFFICES ASSUME LimiterInv, AlertsInv PROVE Api!BurstsAndAlertsBounded
    BY DEF ApiInv
<1>1. ASSUME NEW c \in Clients, NEW t \in 0..apiNow PROVE Api!AdmittedIn(c, t) <= 2 * limit - 1
  <2>1. \A i \in DOMAIN admitted : admitted[i][2] \in Nat
    <3>1. \A i \in DOMAIN admitted : admitted[i] \in Clients \X Nat
        BY DEF LimiterInv, WindowsType
    <3> QED
        BY <3>1
  <2>2. windowMs \in Nat /\ t \in Int
      BY ApiAssumption
  <2>3. {i \in DOMAIN admitted : admitted[i][1] = c /\ admitted[i][2] \in t..(t + windowMs - 1)}
          = Passed(c, t, t + windowMs - 1)
      BY <2>1, <2>2 DEF Passed
  <2>4. Api!AdmittedIn(c, t) = Cardinality(Passed(c, t, t + windowMs - 1))
      BY <2>3, Counting, Zenon DEF Api!AdmittedIn
  <2> QED
      BY <2>4 DEF LimiterInv, BurstsBounded
<1>2. ASSUME NEW r \in Routes
      PROVE  /\ alerts[r] = Api!Cardinality(Api!Streaks(r))
             /\ Api!vaultMetricsSnapshot(r).failing => alerts[r] > 0
  <2>1. StreakCounts(r)
      BY DEF AlertsInv
  <2>2. Api!Streaks(r) = StreaksOf(failed[r])
      BY DEF Api!Streaks, StreaksOf
  <2>3. alerts[r] = Api!Cardinality(Api!Streaks(r))
      BY <2>1, <2>2, Counting, Zenon DEF StreakCounts
  <2> QED
      BY <2>1, <2>3 DEF StreakCounts, Api!vaultMetricsSnapshot
<1> QED
    BY <1>1, <1>2 DEF Api!BurstsAndAlertsBounded

(* The vault's index.                                                         *)

\* The event at a place of the chain has a row.
Held(i) == \E r \in rows : r.event = vaultLog[i]

IsOther(i) == vaultLog[i].kind = "other"

\* The chain starts with the events that the watcher knows.
VaultLogInv ==
    /\ vaultLog \in Seq(VaultEvents \union {Vault!OtherEvent})
    /\ vaultOldest \in Nat
    /\ Len(Genesis) <= Len(vaultLog)
    /\ \A i \in 1..Len(Genesis) : vaultLog[i] = Genesis[i]

\* Every row is of an event of the chain, no two rows of equal events, and the
\* known ones have theirs.
VaultRowsInv ==
    /\ \A r \in rows : \E i \in 1..Len(vaultLog) : r = Vault!Row(i) /\ ~IsOther(i)
    /\ \A r, s \in rows : r.event = s.event => r = s
    /\ \A i \in 1..Len(Genesis) : Vault!Row(i) \in rows

\* What lies between the start of the cursor's line and the cursor has its rows.
VaultCursorInv ==
    cursor # NoCursor =>
        /\ cursor \in 0..Len(vaultLog) /\ since \in Nat
        /\ \A i \in (since + 1)..cursor : IsOther(i) \/ Held(i)

\* A cycle starts at the cursor, and until an insert fails all it went through
\* has its rows.
VaultCycleInv ==
    /\ phase \in {"idle", "tip", "persist"}
    /\ tip \in 0..Len(vaultLog)
    /\ phase = "tip" => cursor = NoCursor
    /\ phase = "persist" =>
        /\ batch.from \in Nat /\ batch.to \in batch.from..Len(vaultLog)
        /\ next \in (batch.from + 1)..(batch.to + 1)
        /\ cursor # NoCursor => batch.from = cursor
        /\ ~sawFailure => \A i \in (batch.from + 1)..(next - 1) : IsOther(i) \/ Held(i)

VaultInv == VaultLogInv /\ VaultRowsInv /\ VaultCursorInv /\ VaultCycleInv

\* What is held stays so when the chain grows at its end and rows only come.
LEMMA HeldStays ==
    ASSUME VaultLogInv, Len(vaultLog') \in Nat, Len(vaultLog) <= Len(vaultLog'),
           \A i \in 1..Len(vaultLog) : vaultLog'[i] = vaultLog[i],
           rows \subseteq rows', NEW i \in 1..Len(vaultLog)
    PROVE  (Held(i) => Held(i)') /\ (IsOther(i)' <=> IsOther(i)) /\ Vault!Row(i)' = Vault!Row(i)
BY DEF Held, IsOther, Vault!Row

\* The chain grows.
LEMMA VaultEmits == VaultInv /\ Vault!Emit => VaultInv'
<1> SUFFICES ASSUME VaultInv, Vault!Emit PROVE VaultInv'
    OBVIOUS
<1>1. VaultLogInv /\ VaultRowsInv /\ VaultCursorInv /\ VaultCycleInv
    BY DEF VaultInv
<1>2. UNCHANGED <<vaultOldest, rows, cursor, since, phase, tip, batch, next, sawFailure>>
    BY DEF Vault!Emit, Vault!cycle
<1>3. PICK e \in VaultEvents \union {Vault!OtherEvent} : vaultLog' = Append(vaultLog, e)
  <2>1. ASSUME NEW d \in Depositors, NEW k \in {"deposit", "withdraw"}, NEW m \in Amounts
        PROVE  [tx |-> Len(vaultLog) + 1, depositor |-> d, kind |-> k, amount |-> m] \in VaultEvents
    <3>1. Len(vaultLog) \in Nat /\ m \in Int
        BY <1>1, VaultAssumption DEF VaultLogInv
    <3> QED
        BY <3>1 DEF VaultEvents
  <2>2. vaultLog # <<>> => vaultLog[Len(vaultLog)] \in VaultEvents \union {Vault!OtherEvent}
      BY <1>1 DEF VaultLogInv
  <2> QED
      BY <2>1, <2>2 DEF Vault!Emit
<1>4. /\ vaultLog' \in Seq(VaultEvents \union {Vault!OtherEvent})
      /\ Len(vaultLog') = Len(vaultLog) + 1 /\ Len(vaultLog) \in Nat
      /\ \A i \in 1..Len(vaultLog) : vaultLog'[i] = vaultLog[i]
    BY <1>1, <1>3 DEF VaultLogInv
<1>5. \A i \in 1..Len(vaultLog) :
        (Held(i) => Held(i)') /\ (IsOther(i)' <=> IsOther(i)) /\ Vault!Row(i)' = Vault!Row(i)
    BY <1>1, <1>2, <1>4, HeldStays
<1>6. Len(Genesis) \in Nat
    BY VaultAssumption
<1>7. VaultLogInv'
    BY <1>1, <1>2, <1>4, <1>6 DEF VaultLogInv
<1>8. VaultRowsInv'
  <2>1. Len(Genesis) <= Len(vaultLog)
      BY <1>1 DEF VaultLogInv
  <2>2. \A i \in 1..Len(Genesis) : i \in 1..Len(vaultLog)
      BY <1>4, <1>6, <2>1
  <2>3. \A i \in 1..Len(Genesis) : Vault!Row(i)' \in rows
      BY <1>1, <1>5, <2>2 DEF VaultRowsInv
  <2>4. \A i \in 1..Len(vaultLog) : i \in 1..(Len(vaultLog) + 1)
      BY <1>4
  <2>5. \A r \in rows : \E i \in 1..(Len(vaultLog) + 1) : r = Vault!Row(i)' /\ ~IsOther(i)'
      BY <1>1, <1>5, <2>4 DEF VaultRowsInv
  <2> QED
      BY <1>1, <1>2, <1>4, <2>3, <2>5 DEF VaultRowsInv
<1>9. VaultCursorInv'
  <2> SUFFICES ASSUME cursor # NoCursor
               PROVE  /\ cursor \in 0..(Len(vaultLog) + 1) /\ since \in Nat
                      /\ \A i \in (since + 1)..cursor : IsOther(i)' \/ Held(i)'
      BY <1>2, <1>4 DEF VaultCursorInv
  <2>1. /\ cursor \in 0..Len(vaultLog) /\ since \in Nat
        /\ \A i \in (since + 1)..cursor : IsOther(i) \/ Held(i)
      BY <1>1 DEF VaultCursorInv
  <2>2. \A i \in (since + 1)..cursor : i \in 1..Len(vaultLog)
      BY <1>4, <2>1
  <2> QED
      BY <1>4, <1>5, <2>1, <2>2
<1>10. VaultCycleInv'
  <2>1. tip' \in 0..Len(vaultLog') /\ phase' \in {"idle", "tip", "persist"} /\ (phase' = "tip" => cursor' = NoCursor)
      BY <1>1, <1>2, <1>4 DEF VaultCycleInv
  <2>2. ASSUME phase = "persist"
        PROVE  /\ batch.from \in Nat /\ batch.to \in batch.from..(Len(vaultLog) + 1)
               /\ next \in (batch.from + 1)..(batch.to + 1)
               /\ cursor # NoCursor => batch.from = cursor
               /\ ~sawFailure => \A i \in (batch.from + 1)..(next - 1) : IsOther(i)' \/ Held(i)'
    <3>1. /\ batch.from \in Nat /\ batch.to \in batch.from..Len(vaultLog)
          /\ next \in (batch.from + 1)..(batch.to + 1)
          /\ cursor # NoCursor => batch.from = cursor
          /\ ~sawFailure => \A i \in (batch.from + 1)..(next - 1) : IsOther(i) \/ Held(i)
        BY <1>1, <2>2 DEF VaultCycleInv
    <3>2. \A i \in (batch.from + 1)..(next - 1) : i \in 1..Len(vaultLog)
        BY <1>4, <3>1
    <3>3. batch.to \in batch.from..(Len(vaultLog) + 1)
        BY <1>4, <3>1
    <3> QED
        BY <1>5, <3>1, <3>2, <3>3
  <2> QED
      BY <1>2, <1>4, <2>1, <2>2 DEF VaultCycleInv
<1> QED
    BY <1>7, <1>8, <1>9, <1>10 DEF VaultInv

\* Steps that leave chain and rows alone keep what is said of them.
LEMMA VaultAside ==
    ASSUME VaultInv, UNCHANGED <<vaultLog, rows>>, vaultOldest' \in Nat
    PROVE  /\ VaultLogInv' /\ VaultRowsInv'
           /\ \A i : (Held(i)' <=> Held(i)) /\ (IsOther(i)' <=> IsOther(i))
<1>1. VaultLogInv'
    BY DEF VaultInv, VaultLogInv
<1>2. \A i : (Held(i)' <=> Held(i)) /\ (IsOther(i)' <=> IsOther(i)) /\ Vault!Row(i)' = Vault!Row(i)
    BY DEF Held, IsOther, Vault!Row
<1>3. VaultRowsInv'
    BY <1>2 DEF VaultInv, VaultRowsInv
<1> QED
    BY <1>1, <1>2, <1>3

\* Retention ends, a cycle begins, fails, fetches, stores its cursor, or the
\* cursor is set back.
LEMMA VaultCycles ==
    ASSUME VaultInv,
           \/ Vault!DropOld \/ Vault!getLatestLedger \/ Vault!getEvents \/ Vault!PollFailed
           \/ Vault!writeCursor \/ Vault!Rewind
    PROVE  VaultInv'
<1>1. VaultLogInv /\ VaultRowsInv /\ VaultCursorInv /\ VaultCycleInv
    BY DEF VaultInv
<1>2. vaultOldest \in Nat /\ Len(vaultLog) \in Nat
    BY <1>1 DEF VaultLogInv
<1>3. UNCHANGED <<vaultLog, rows>> /\ vaultOldest' \in Nat
    BY <1>2 DEF Vault!DropOld, Vault!getLatestLedger, Vault!getEvents, Vault!PollFailed, Vault!writeCursor,
                Vault!Rewind, Vault!Cycle, Vault!Fetch, Vault!rpcVars
<1>4. /\ VaultLogInv' /\ VaultRowsInv'
      /\ \A i : (Held(i)' <=> Held(i)) /\ (IsOther(i)' <=> IsOther(i))
    BY <1>3, VaultAside
<1>5. ASSUME UNCHANGED <<cursor, since>> PROVE VaultCursorInv'
    BY <1>1, <1>3, <1>4, <1>5 DEF VaultCursorInv
<1>6. ASSUME UNCHANGED <<cursor, phase, tip, batch, next, sawFailure>> PROVE VaultCycleInv'
    BY <1>1, <1>3, <1>4, <1>6 DEF VaultCycleInv
<1>7. CASE Vault!DropOld
    BY <1>4, <1>5, <1>6, <1>7 DEF Vault!DropOld, Vault!cycle, VaultInv
<1>8. CASE Vault!getLatestLedger
  <2>1. VaultCycleInv'
      BY <1>2, <1>3, <1>8 DEF Vault!getLatestLedger, Vault!Cycle, VaultCycleInv
  <2> QED
      BY <1>4, <1>5, <1>8, <2>1 DEF Vault!getLatestLedger, Vault!Cycle, VaultInv
<1>9. CASE Vault!PollFailed
  <2>1. VaultCycleInv'
      BY <1>1, <1>3, <1>9 DEF Vault!PollFailed, VaultCycleInv
  <2> QED
      BY <1>4, <1>5, <1>9, <2>1 DEF Vault!PollFailed, VaultInv
<1>10. CASE Vault!getEvents
  <2>1. PICK from \in 0..Len(vaultLog) : Vault!Fetch(from) /\ (cursor # NoCursor => from = cursor)
    <3>1. CASE phase = "idle" /\ cursor # NoCursor /\ Vault!Fetch(cursor)
        BY <1>1, <3>1 DEF VaultCursorInv
    <3>2. CASE phase = "tip" /\ tip - 1 >= vaultOldest /\ Vault!Fetch(tip - 1)
      <4>1. tip \in 0..Len(vaultLog) /\ cursor = NoCursor
          BY <1>1, <3>2 DEF VaultCycleInv
      <4>2. tip - 1 \in 0..Len(vaultLog)
          BY <1>2, <3>2, <4>1
      <4> QED
          BY <3>2, <4>1, <4>2
    <3>3. CASE phase = "tip" /\ tip = 0 /\ Vault!Fetch(0)
      <4>1. 0 \in 0..Len(vaultLog) /\ cursor = NoCursor
          BY <1>1, <1>2, <3>3 DEF VaultCycleInv
      <4> QED
          BY <3>3, <4>1
    <3> QED
        BY <1>10, <3>1, <3>2, <3>3 DEF Vault!getEvents
  <2>2. PICK to \in from..Len(vaultLog) :
            /\ batch' = [from |-> from, to |-> to] /\ next' = from + 1 /\ sawFailure' = FALSE
            /\ Vault!Cycle("persist") /\ UNCHANGED tip
      BY <2>1 DEF Vault!Fetch
  <2>3. batch'.from = from /\ batch'.to = to
      BY <2>2
  <2>4. \A i \in (from + 1)..((from + 1) - 1) : FALSE
      BY <2>1
  <2>5. phase' = "persist" /\ UNCHANGED <<cursor, since, tip>>
      BY <2>2 DEF Vault!Cycle
  <2>6. tip \in 0..Len(vaultLog)
      BY <1>1 DEF VaultCycleInv
  <2>7. from \in Nat /\ from + 1 \in (from + 1)..(to + 1)
      BY <1>2, <2>1, <2>2
  <2>8. \A i \in (batch'.from + 1)..(next' - 1) : FALSE
      BY <2>2, <2>3, <2>4
  <2>9. VaultCycleInv'
      BY <1>3, <2>1, <2>2, <2>3, <2>5, <2>6, <2>7, <2>8 DEF VaultCycleInv
  <2> QED
      BY <1>4, <1>5, <2>5, <2>9 DEF VaultInv
<1>11. CASE Vault!writeCursor
  <2>1. /\ phase = "persist" /\ next > batch.to /\ phase' = "idle" /\ UNCHANGED tip
        /\ \/ ~sawFailure /\ cursor' = batch.to /\ since' = IF cursor = NoCursor THEN batch.from ELSE since
           \/ UNCHANGED <<cursor, since>>
      BY <1>11 DEF Vault!writeCursor, Vault!mayAdvance
  <2>2. VaultCycleInv'
      BY <1>1, <1>3, <2>1 DEF VaultCycleInv
  <2>3. /\ batch.from \in Nat /\ batch.to \in batch.from..Len(vaultLog)
        /\ next \in (batch.from + 1)..(batch.to + 1)
        /\ cursor # NoCursor => batch.from = cursor
        /\ ~sawFailure => \A i \in (batch.from + 1)..(next - 1) : IsOther(i) \/ Held(i)
      BY <1>1, <2>1 DEF VaultCycleInv
  <2>4. next - 1 = batch.to
      BY <1>2, <2>1, <2>3
  <2>5. CASE ~sawFailure /\ cursor' = batch.to /\ since' = IF cursor = NoCursor THEN batch.from ELSE since
    <3>1. \A i \in (batch.from + 1)..batch.to : IsOther(i) \/ Held(i)
        BY <2>3, <2>4, <2>5
    <3>2. batch.to \in 0..Len(vaultLog)
        BY <1>2, <2>3
    <3>3. since' \in Nat /\ \A i \in (since' + 1)..batch.to : IsOther(i) \/ Held(i)
      <4>1. CASE cursor = NoCursor
          BY <2>3, <2>5, <3>1, <4>1
      <4>2. CASE cursor # NoCursor
        <5>1. /\ cursor \in 0..Len(vaultLog) /\ since \in Nat /\ batch.from = cursor
              /\ \A i \in (since + 1)..cursor : IsOther(i) \/ Held(i)
            BY <1>1, <2>3, <4>2 DEF VaultCursorInv
        <5>2. \A i \in (since + 1)..batch.to : i \in (since + 1)..cursor \/ i \in (batch.from + 1)..batch.to
            BY <2>3, <3>2, <5>1
        <5> QED
            BY <2>5, <3>1, <4>2, <5>1, <5>2
      <4> QED
          BY <4>1, <4>2
    <3>4. VaultCursorInv'
        BY <1>3, <1>4, <2>5, <3>2, <3>3 DEF VaultCursorInv
    <3> QED
        BY <1>4, <2>2, <3>4 DEF VaultInv
  <2>6. CASE UNCHANGED <<cursor, since>>
      BY <1>4, <1>5, <2>2, <2>6 DEF VaultInv
  <2> QED
      BY <2>1, <2>5, <2>6
<1>12. CASE Vault!Rewind
  <2>1. /\ phase = "idle" /\ cursor # NoCursor
        /\ UNCHANGED <<phase, tip, batch, next, sawFailure>>
      BY <1>12 DEF Vault!Rewind, Vault!cycle
  <2>2. PICK c \in vaultOldest..(cursor - 1) : cursor' = c /\ since' = IF c < since THEN c ELSE since
      BY <1>12 DEF Vault!Rewind
  <2>3. /\ cursor \in 0..Len(vaultLog) /\ since \in Nat
        /\ \A i \in (since + 1)..cursor : IsOther(i) \/ Held(i)
      BY <1>1, <2>1 DEF VaultCursorInv
  <2>4. c \in 0..Len(vaultLog) /\ c <= cursor
      BY <1>2, <2>2, <2>3
  <2>5. since' \in Nat /\ \A i \in (since' + 1)..c : i \in (since + 1)..cursor
    <3>1. CASE c < since
        BY <2>2, <2>3, <2>4, <3>1
    <3>2. CASE ~(c < since)
        BY <2>2, <2>3, <2>4, <3>2
    <3> QED
        BY <3>1, <3>2
  <2>6. VaultCursorInv'
      BY <1>3, <1>4, <2>2, <2>3, <2>4, <2>5 DEF VaultCursorInv
  <2>7. VaultCycleInv'
      BY <1>1, <1>3, <2>1 DEF VaultCycleInv
  <2> QED
      BY <1>4, <2>6, <2>7 DEF VaultInv
<1> QED
    BY <1>7, <1>8, <1>9, <1>10, <1>11, <1>12

\* An event is persisted, or its insert fails.
LEMMA VaultPersists == VaultInv /\ Vault!persist => VaultInv'
<1> SUFFICES ASSUME VaultInv, Vault!persist PROVE VaultInv'
    OBVIOUS
<1>1. VaultLogInv /\ VaultRowsInv /\ VaultCursorInv /\ VaultCycleInv
    BY DEF VaultInv
<1>2. /\ phase = "persist" /\ next <= batch.to /\ next' = next + 1
      /\ UNCHANGED <<vaultLog, vaultOldest, cursor, since, phase, tip, batch>>
    BY DEF Vault!persist, Vault!rpcVars
<1>3. /\ batch.from \in Nat /\ batch.to \in batch.from..Len(vaultLog) /\ Len(vaultLog) \in Nat
      /\ next \in (batch.from + 1)..(batch.to + 1)
      /\ cursor # NoCursor => batch.from = cursor
      /\ ~sawFailure => \A i \in (batch.from + 1)..(next - 1) : IsOther(i) \/ Held(i)
    BY <1>1, <1>2 DEF VaultCycleInv, VaultLogInv
<1>4. next \in 1..Len(vaultLog) /\ next \in Nat
    BY <1>2, <1>3
<1>5. Vault!decodeVaultEvent(vaultLog[next]) <=> ~IsOther(next)
  <2>1. vaultLog[next] \in VaultEvents \union {Vault!OtherEvent}
      BY <1>1, <1>4 DEF VaultLogInv
  <2>2. vaultLog[next].kind \in {"deposit", "withdraw"} \/ vaultLog[next].kind = "other"
      BY <2>1 DEF VaultEvents, Vault!OtherEvent
  <2> QED
      BY <2>2 DEF Vault!decodeVaultEvent, IsOther
<1>6. /\ rows' = rows \/ (rows' = rows \union {Vault!Row(next)} /\ ~IsOther(next)
                            /\ \A r \in rows : r.event # vaultLog[next])
      /\ \/ sawFailure' = TRUE
         \/ sawFailure' = sawFailure /\ (IsOther(next) \/ \E r \in rows' : r.event = vaultLog[next])
  <2>1. CASE rows' = IF Vault!decodeVaultEvent(vaultLog[next]) THEN Vault!insertVaultEvent(next) ELSE rows
    <3>1. sawFailure' = sawFailure \/ sawFailure' = TRUE
        BY DEF Vault!persist
    <3>2. Vault!Row(next).event = vaultLog[next]
        BY DEF Vault!Row
    <3>3. CASE IsOther(next)
        BY <1>5, <2>1, <3>1, <3>3
    <3>4. CASE ~IsOther(next) /\ \E r \in rows : r.event = vaultLog[next]
        BY <1>5, <2>1, <3>1, <3>4 DEF Vault!insertVaultEvent
    <3>5. CASE ~IsOther(next) /\ ~\E r \in rows : r.event = vaultLog[next]
      <4>1. rows' = rows \union {Vault!Row(next)}
          BY <1>5, <2>1, <3>5 DEF Vault!insertVaultEvent
      <4> QED
          BY <3>1, <3>2, <3>5, <4>1
    <3> QED
        BY <3>3, <3>4, <3>5
  <2>2. CASE sawFailure' = TRUE /\ rows' = rows
      BY <2>2
  <2> QED
      BY <2>1, <2>2 DEF Vault!persist
<1>7. \A i : (Held(i) => Held(i)') /\ (IsOther(i)' <=> IsOther(i)) /\ Vault!Row(i)' = Vault!Row(i)
    BY <1>2, <1>6 DEF Held, IsOther, Vault!Row
<1>8. VaultLogInv'
    BY <1>1, <1>2 DEF VaultLogInv
<1>9. VaultRowsInv'
  <2>1. \A r \in rows' : \E i \in 1..Len(vaultLog) : r = Vault!Row(i) /\ ~IsOther(i)
      BY <1>1, <1>4, <1>6 DEF VaultRowsInv
  <2>2. \A r, s \in rows' : r.event = s.event => r = s
    <3>1. Vault!Row(next).event = vaultLog[next]
        BY DEF Vault!Row
    <3>2. CASE rows' = rows
        BY <1>1, <3>2 DEF VaultRowsInv
    <3>3. CASE rows' = rows \union {Vault!Row(next)} /\ \A r \in rows : r.event # vaultLog[next]
        BY <1>1, <3>1, <3>3 DEF VaultRowsInv
    <3> QED
        BY <1>6, <3>2, <3>3
  <2>3. \A i \in 1..Len(Genesis) : Vault!Row(i) \in rows'
      BY <1>1, <1>6 DEF VaultRowsInv
  <2> QED
      BY <1>2, <1>7, <2>1, <2>2, <2>3 DEF VaultRowsInv
<1>10. VaultCursorInv'
    BY <1>1, <1>2, <1>7 DEF VaultCursorInv
<1>11. VaultCycleInv'
  <2>1. next + 1 \in (batch.from + 1)..(batch.to + 1) /\ (next + 1) - 1 = next
      BY <1>2, <1>3, <1>4
  <2>2. ASSUME ~sawFailure' PROVE \A i \in (batch.from + 1)..next : IsOther(i) \/ Held(i)'
    <3>n. PICK n : n = next
        OBVIOUS
    <3>1. ~sawFailure /\ (IsOther(n) \/ Held(n)')
        BY <1>2, <1>6, <2>2, <3>n DEF Held
    <3>2. \A i \in (batch.from + 1)..next : i = next \/ i \in (batch.from + 1)..(next - 1)
        BY <1>3, <1>4
    <3> QED
        BY <1>3, <1>7, <3>n, <3>1, <3>2
  <2>3. tip \in 0..Len(vaultLog)
      BY <1>1 DEF VaultCycleInv
  <2> QED
      BY <1>2, <1>3, <1>7, <2>1, <2>2, <2>3 DEF VaultCycleInv
<1> QED
    BY <1>8, <1>9, <1>10, <1>11 DEF VaultInv

\* What the watcher offers again at every boot is there already.
LEMMA VaultRestarts == VaultInv /\ Vault!Restart => VaultInv'
<1> SUFFICES ASSUME VaultInv, Vault!Restart PROVE VaultInv'
    OBVIOUS
<1>1. VaultLogInv /\ VaultRowsInv /\ VaultCursorInv /\ VaultCycleInv
    BY DEF VaultInv
<1>2. \A i \in DOMAIN Genesis : [event |-> Genesis[i], closed |-> i] \in rows
  <2>1. DOMAIN Genesis = 1..Len(Genesis)
      BY VaultAssumption
  <2> QED
      BY <1>1, <2>1 DEF VaultLogInv, VaultRowsInv, Vault!Row
<1>3. rows' = rows
    BY <1>2 DEF Vault!Restart, Vault!seedGenesisVaultEvents
<1>4. UNCHANGED <<vaultLog, vaultOldest, cursor, since, tip, batch, next, sawFailure>> /\ phase' = "idle"
    BY DEF Vault!Restart, Vault!rpcVars
<1>5. /\ VaultLogInv' /\ VaultRowsInv'
      /\ \A i : (Held(i)' <=> Held(i)) /\ (IsOther(i)' <=> IsOther(i))
  <2>1. vaultOldest' \in Nat
      BY <1>1, <1>4 DEF VaultLogInv
  <2> QED
      BY <1>3, <1>4, <2>1, VaultAside
<1>6. VaultCursorInv'
    BY <1>1, <1>4, <1>5 DEF VaultCursorInv
<1>7. VaultCycleInv'
    BY <1>1, <1>4 DEF VaultCycleInv
<1> QED
    BY <1>5, <1>6, <1>7 DEF VaultInv

LEMMA VaultStep == VaultInv /\ Vault!Next => VaultInv'
BY VaultEmits, VaultCycles, VaultPersists, VaultRestarts DEF Vault!Next

LEMMA VaultStart == Vault!Init => VaultInv
<1> SUFFICES ASSUME Vault!Init PROVE VaultInv
    OBVIOUS
<1>1. /\ vaultLog = Genesis /\ vaultOldest = 0 /\ cursor = NoCursor /\ phase = "idle" /\ tip = 0
      /\ rows = {[event |-> Genesis[i], closed |-> i] : i \in DOMAIN Genesis}
    BY DEF Vault!Init, Vault!seedGenesisVaultEvents
<1>2. /\ Genesis \in Seq(VaultEvents) /\ DOMAIN Genesis = 1..Len(Genesis) /\ Len(Genesis) \in Nat
      /\ \A i, j \in DOMAIN Genesis : Genesis[i] = Genesis[j] => i = j
    BY VaultAssumption
<1>3. VaultLogInv
    BY <1>1, <1>2 DEF VaultLogInv
<1>4. VaultRowsInv
  <2>1. \A i \in 1..Len(Genesis) : ~IsOther(i)
    <3>1. \A i \in 1..Len(Genesis) : Genesis[i] \in VaultEvents
        BY <1>2
    <3> QED
        BY <1>1, <3>1 DEF VaultEvents, IsOther
  <2> QED
      BY <1>1, <1>2, <2>1 DEF VaultRowsInv, Vault!Row
<1>5. VaultCursorInv /\ VaultCycleInv
    BY <1>1, <1>2 DEF VaultCursorInv, VaultCycleInv
<1> QED
    BY <1>3, <1>4, <1>5 DEF VaultInv

\* The published sums, as functions that add up over sets of rows and of places.
LEMMA RowsSum ==
    ASSUME IsFiniteSet(rows), NEW g, g = [r \in rows |-> Vault!Signed(r.event)]
    PROVE  \E G : SumsUp(G, g, SUBSET rows) /\ Vault!computeTvlSummary(rows).netDeposited = G[rows]
<1> DEFINE Sums(F) == F = [s \in SUBSET rows |->
                             IF s = {} THEN 0 ELSE Vault!Signed(Picked(s).event) + F[s \ {Picked(s)}]]
           G == CHOOSE F : Sums(F)
<1>1. ASSUME NEW s \in SUBSET rows, s # {} PROVE g[Picked(s)] = Vault!Signed(Picked(s).event)
  <2>1. Picked(s) \in rows
      BY <1>1, Rest
  <2> QED
      BY <2>1
<1>2. ASSUME NEW F PROVE SumsUp(F, g, SUBSET rows) <=> Sums(F)
  <2>1. [s \in SUBSET rows |-> IF s = {} THEN 0 ELSE g[Picked(s)] + F[s \ {Picked(s)}]]
          = [s \in SUBSET rows |-> IF s = {} THEN 0 ELSE Vault!Signed(Picked(s).event) + F[s \ {Picked(s)}]]
      BY <1>1
  <2> QED
      BY <2>1 DEF SumsUp
<1>3. Sums(G)
  <2>1. \E F : Sums(F)
      BY <1>2, SumsExist
  <2> QED
      BY <2>1
<1>4. Vault!computeTvlSummary(rows).netDeposited = G[rows]
    BY DEF Vault!computeTvlSummary, Vault!MapThenSumSet, Vault!MapThenFoldSet, Picked
<1> QED
    BY <1>2, <1>3, <1>4

\* The places of the vault's own events.
Places == {i \in DOMAIN vaultLog : vaultLog[i].kind # "other"}

LEMMA ChainSum ==
    ASSUME IsFiniteSet(Places), NEW f, f = [i \in Places |-> Vault!Signed(vaultLog[i])]
    PROVE  \E F : SumsUp(F, f, SUBSET Places) /\ Vault!ChainNet = F[Places]
<1> DEFINE Sums(F) == F = [s \in SUBSET Places |->
                             IF s = {} THEN 0 ELSE Vault!Signed(vaultLog[Picked(s)]) + F[s \ {Picked(s)}]]
           G == CHOOSE F : Sums(F)
<1>1. ASSUME NEW s \in SUBSET Places, s # {} PROVE f[Picked(s)] = Vault!Signed(vaultLog[Picked(s)])
  <2>1. Picked(s) \in Places
      BY <1>1, Rest
  <2> QED
      BY <2>1
<1>2. ASSUME NEW F PROVE SumsUp(F, f, SUBSET Places) <=> Sums(F)
  <2>1. [s \in SUBSET Places |-> IF s = {} THEN 0 ELSE f[Picked(s)] + F[s \ {Picked(s)}]]
          = [s \in SUBSET Places |-> IF s = {} THEN 0 ELSE Vault!Signed(vaultLog[Picked(s)]) + F[s \ {Picked(s)}]]
      BY <1>1
  <2> QED
      BY <2>1 DEF SumsUp
<1>3. Sums(G)
  <2>1. \E F : Sums(F)
      BY <1>2, SumsExist
  <2> QED
      BY <2>1
<1>4. Vault!ChainNet = G[Places]
    BY DEF Vault!ChainNet, Vault!MapThenSumSet, Vault!MapThenFoldSet, Picked, Places
<1> QED
    BY <1>2, <1>3, <1>4

\* With the whole chain read and no twins, the rows are those of the chain.
LEMMA RowsAreTheChain ==
    ASSUME VaultInv, cursor = Len(vaultLog), since <= Len(Genesis), ~Vault!Twins
    PROVE  rows = {Vault!Row(i) : i \in Places}
<1>1. VaultLogInv /\ VaultRowsInv /\ VaultCursorInv
    BY DEF VaultInv
<1>2. /\ Len(vaultLog) \in Nat /\ DOMAIN vaultLog = 1..Len(vaultLog)
      /\ Len(Genesis) \in Nat /\ cursor # NoCursor
    BY <1>1, VaultAssumption DEF VaultLogInv
<1>3. since \in Nat /\ \A i \in (since + 1)..cursor : IsOther(i) \/ Held(i)
    BY <1>1, <1>2 DEF VaultCursorInv
<1>4. \A r \in rows : \E i \in Places : r = Vault!Row(i)
    BY <1>1, <1>2 DEF VaultRowsInv, Places, IsOther
<1>5. ASSUME NEW i \in Places PROVE Vault!Row(i) \in rows
  <2>1. i \in 1..Len(vaultLog) /\ ~IsOther(i)
      BY <1>2 DEF Places, IsOther
  <2>2. CASE i <= Len(Genesis)
      BY <1>1, <1>2, <2>1, <2>2 DEF VaultRowsInv
  <2>3. CASE ~(i <= Len(Genesis))
    <3>1. i \in (since + 1)..cursor
        BY <1>2, <1>3, <2>1, <2>3
    <3>2. PICK r \in rows : r.event = vaultLog[i]
        BY <1>3, <2>1, <3>1 DEF Held
    <3>3. PICK j \in Places : r = Vault!Row(j)
        BY <1>4
    <3>4. vaultLog[j] = vaultLog[i] /\ j \in DOMAIN vaultLog /\ vaultLog[j].kind # "other"
        BY <3>2, <3>3 DEF Vault!Row, Places
    <3>5. j = i
        BY <1>2, <2>1, <3>4 DEF Vault!Twins
    <3> QED
        BY <3>3, <3>5
  <2> QED
      BY <2>2, <2>3
<1> QED
    BY <1>4, <1>5

\* The sums then agree.
LEMMA NetIsTheChains ==
    ASSUME VaultInv, cursor = Len(vaultLog), since <= Len(Genesis), ~Vault!Twins
    PROVE  Vault!computeTvlSummary(rows).netDeposited = Vault!ChainNet /\ Vault!ChainNet \in Int
<1>1. VaultLogInv
    BY DEF VaultInv
<1>2. Len(vaultLog) \in Nat /\ DOMAIN vaultLog = 1..Len(vaultLog)
    BY <1>1 DEF VaultLogInv
<1>3. rows = {Vault!Row(i) : i \in Places}
    BY RowsAreTheChain
<1>4. IsFiniteSet(Places)
  <2>1. IsFiniteSet(1..Len(vaultLog)) /\ Places \subseteq 1..Len(vaultLog)
      BY <1>2, FS_Interval DEF Places
  <2> QED
      BY <2>1, FS_Subset
<1> DEFINE h == [i \in Places |-> Vault!Row(i)]
           f == [i \in Places |-> Vault!Signed(vaultLog[i])]
           g == [r \in rows |-> Vault!Signed(r.event)]
<1>5. h \in [Places -> rows] /\ (\A x, y \in Places : h[x] = h[y] => x = y) /\ \A z \in rows : \E x \in Places : h[x] = z
    BY <1>3 DEF Vault!Row
<1>6. IsFiniteSet(rows)
    BY <1>4, <1>5, FS_Surjection DEF Surjection
<1>7. \A i \in Places : Vault!Signed(vaultLog[i]) \in Int
  <2>1. \A i \in Places : vaultLog[i] \in VaultEvents
      BY <1>1, <1>2 DEF VaultLogInv, Places, Vault!OtherEvent
  <2>2. \A e \in VaultEvents : Vault!Signed(e) \in Int
      BY DEF VaultEvents, Vault!Signed
  <2> QED
      BY <2>1, <2>2
<1>8. f \in [Places -> Int]
    BY <1>7
<1>9. \A x \in Places : g[h[x]] = f[x]
    BY <1>3 DEF Vault!Row
<1>10. g \in [rows -> Int]
    BY <1>3, <1>7 DEF Vault!Row
<1>11. PICK F : SumsUp(F, f, SUBSET Places) /\ Vault!ChainNet = F[Places]
    BY <1>4, ChainSum
<1>12. PICK G : SumsUp(G, g, SUBSET rows) /\ Vault!computeTvlSummary(rows).netDeposited = G[rows]
    BY <1>6, RowsSum
<1>13. F[Places] = G[rows] /\ F[Places] \in Int
  <2> HIDE DEF f, g, h
  <2> QED
      BY <1>4, <1>5, <1>6, <1>8, <1>9, <1>10, <1>11, <1>12, SumMoves
<1> QED
    BY <1>11, <1>12, <1>13

\* What the invariant says is what the run checks.
LEMMA VaultInvIsEnough == VaultInv => Vault!IndexIsExact
<1> SUFFICES ASSUME VaultInv PROVE Vault!IndexIsExact
    OBVIOUS
<1>1. VaultLogInv /\ VaultRowsInv /\ VaultCursorInv
    BY DEF VaultInv
<1>2. Len(vaultLog) \in Nat /\ DOMAIN vaultLog = 1..Len(vaultLog) /\ Len(Genesis) \in Nat
    BY <1>1, VaultAssumption DEF VaultLogInv
<1>3. ASSUME NEW i \in Vault!Covered PROVE Vault!Cardinality({r \in rows : r.event = vaultLog[i]}) = 1
  <2>1. i \in 1..Len(vaultLog) /\ ~IsOther(i)
      BY <1>2 DEF Vault!Covered, IsOther
  <2>2. Held(i)
    <3>1. CASE i <= Len(Genesis)
      <4>1. i \in 1..Len(Genesis)
          BY <1>2, <2>1, <3>1
      <4>2. Vault!Row(i) \in rows /\ Vault!Row(i).event = vaultLog[i]
          BY <1>1, <4>1 DEF VaultRowsInv, Vault!Row
      <4> QED
          BY <4>2 DEF Held
    <3>2. CASE cursor # NoCursor /\ since < i /\ i <= cursor
      <4>1. /\ cursor \in 0..Len(vaultLog) /\ since \in Nat
            /\ \A j \in (since + 1)..cursor : IsOther(j) \/ Held(j)
          BY <1>1, <3>2 DEF VaultCursorInv
      <4>2. i \in (since + 1)..cursor
          BY <1>2, <2>1, <3>2, <4>1
      <4> QED
          BY <2>1, <4>1, <4>2
    <3> QED
        BY <3>1, <3>2 DEF Vault!Covered
  <2>3. PICK r \in rows : r.event = vaultLog[i]
      BY <2>2 DEF Held
  <2>4. {s \in rows : s.event = vaultLog[i]} = {r}
      BY <1>1, <2>3 DEF VaultRowsInv
  <2>5. Cardinality({r}) = 1
      BY FS_Singleton, Zenon
  <2> QED
      BY <2>4, <2>5, Counting, Zenon
<1>4. \A r \in rows : \E i \in DOMAIN vaultLog : vaultLog[i] = r.event
    BY <1>1, <1>2 DEF VaultRowsInv, Vault!Row
<1>5. ASSUME cursor = Len(vaultLog), since <= Len(Genesis), ~Vault!Twins
      PROVE  /\ Vault!computeTvlSummary(rows).netDeposited = Vault!ChainNet
             /\ ~Vault!TvlDiverges(Vault!ChainNet, Vault!computeTvlSummary(rows).netDeposited)
             /\ Vault!computeRetentionCohorts(rows, vaultNow)
                  = Vault!computeRetentionCohorts({Vault!Row(i) : i \in Places}, vaultNow)
  <2>1. Vault!computeTvlSummary(rows).netDeposited = Vault!ChainNet /\ Vault!ChainNet \in Int
      BY <1>5, NetIsTheChains
  <2>2. ASSUME NEW n \in Int PROVE ~Vault!TvlDiverges(n, n)
      BY DEF Vault!TvlDiverges
  <2>3. rows = {Vault!Row(i) : i \in Places}
      BY <1>5, RowsAreTheChain
  <2>4. Vault!computeRetentionCohorts(rows, vaultNow)
          = Vault!computeRetentionCohorts({Vault!Row(i) : i \in Places}, vaultNow)
      BY <2>3, Zenon
  <2>5. ~Vault!TvlDiverges(Vault!ChainNet, Vault!computeTvlSummary(rows).netDeposited)
      BY <2>1, <2>2, Zenon
  <2> QED
      BY <2>1, <2>4, <2>5
<1> QED
    BY <1>3, <1>4, <1>5, Zenon DEF Vault!IndexIsExact, Places

\* vault-watcher/poller.ts, "at-least-once ... never double-counts"; rate-limit.ts and
\* metrics.ts, "exactly once per failure streak": through crashes, failed
\* inserts, rewinds and reseeding each vault event behind the cursor has one row
\* and the published figures are the chain's; whatever the arrival times, at most
\* 2 * limit - 1 requests of a client pass in one window's length; and whatever
\* the order of answers an outage logs one alert.
THEOREM VaultIsServed == MCSpec => []VaultsAreServed
<1> DEFINE Inv == (part = "vault" => VaultInv) /\ (part = "api" => ApiInv)
<1>1. MCInit => Inv
    BY VaultStart, ApiStart DEF MCInit
<1>2. Inv /\ [MCNext]_all => Inv'
  <2> SUFFICES ASSUME Inv, [MCNext]_all PROVE Inv'
      OBVIOUS
  <2>1. CASE VaultNext
      BY <2>1, VaultStep DEF VaultNext
  <2>2. CASE ApiNext
      BY <2>2, ApiStep DEF ApiNext
  <2>3. CASE UNCHANGED all
    <3>1. UNCHANGED <<part, vaultVars, apiVars>>
        BY <2>3 DEF all
    <3>2. ASSUME part = "vault" PROVE VaultInv'
      <4>1. VaultInv /\ UNCHANGED <<vaultLog, vaultOldest, rows, cursor, since, phase, tip, batch, next, sawFailure>>
          BY <3>1, <3>2 DEF vaultVars
      <4> QED
          BY <4>1 DEF VaultInv, VaultLogInv, VaultRowsInv, VaultCursorInv, VaultCycleInv, Held, IsOther, Vault!Row
    <3>3. ASSUME part = "api" PROVE ApiInv'
      <4>1. ApiInv /\ UNCHANGED <<apiNow, windows, admitted, stats, failed, alerts>>
          BY <3>1, <3>3 DEF apiVars
      <4> QED
          BY <4>1, LimiterAside, AlertsAside DEF ApiInv
    <3> QED
        BY <3>1, <3>2, <3>3
  <2>4. CASE MintsNext \/ ArchiveNext \/ ClaimsNext \/ ReadsNext \/ FunnelNext
      BY <2>4 DEF MintsNext, ArchiveNext, ClaimsNext, ReadsNext, FunnelNext
  <2> QED
      BY <2>1, <2>2, <2>3, <2>4 DEF MCNext
<1>3. Inv => VaultsAreServed
    BY VaultInvIsEnough, ApiInvIsEnough DEF VaultsAreServed
<1> QED
    BY <1>1, <1>2, <1>3, PTL DEF MCSpec

(* The onboarding funnel and the guide.                                       *)

LoanStates == {"none", "open", "debt", "closed", "liquidated"}

\* A debt was borrowed, and only a closed loan is released.
LoansInv ==
    /\ loan \in [Funnel!Addresses -> LoanStates]
    /\ \A x \in Funnel!Addresses : loan[x] \in {"debt", "liquidated"} => x \in borrowed
    /\ funnelReleased => loan[owner] = "closed"

\* What the relayer's rows say, each of the loan of its own subject.
RowTrue(r) ==
    /\ r = [subject |-> r.subject, step |-> r.step, outcome |-> r.outcome, verified |-> r.verified]
    /\ r.step = "faucet_claim" /\ r.outcome = "paid" => r.verified = TRUE
    /\ r.verified /\ r.step = "deposit" => loan[r.subject] # "none"
    /\ r.verified /\ r.step = "borrow" => r.subject \in borrowed \/ loan[r.subject] = "closed"
    /\ r.verified /\ r.step = "release" => loan[r.subject] = "closed"

\* A browser that saw a repayment saw the loan closed, or some debt left.
RepaymentsSeen ==
    \A x \in Browsers : "repay" \in milestones[x] => loan[owner] = "closed" \/ x \in partly

\* Reports name known steps and addresses; a browser that saw a borrowing saw one
\* of a loan that has been borrowed against.
FunnelInv ==
    /\ LoansInv
    /\ \A r \in net : r.step \in Funnel!Steps /\ r.address \in Funnel!Addresses
    /\ \A r \in funnelRows : r.subject \in Funnel!Addresses /\ RowTrue(r)
    /\ milestones \in [Browsers -> SUBSET Funnel!Steps]
    /\ \A x \in Browsers : "borrow" \in milestones[x] => loan[owner] \in {"debt", "closed", "liquidated"}
    /\ RepaymentsSeen

\* How a loan goes on: never back, and never out of closed.
LoanGoesOn(x) ==
    /\ loan[x] # "none" => loan'[x] # "none"
    /\ loan[x] = "closed" => loan'[x] = "closed"
    /\ loan[x] \in {"debt", "closed", "liquidated"} => loan'[x] \in {"debt", "closed", "liquidated"}

\* Rows stay true while loans go on.
LEMMA RowStaysTrue ==
    ASSUME NEW r, RowTrue(r), r.subject \in Funnel!Addresses, borrowed \subseteq borrowed',
           \A x \in Funnel!Addresses : LoanGoesOn(x)
    PROVE  RowTrue(r)'
<1>1. LoanGoesOn(r.subject)
    OBVIOUS
<1> QED
    BY <1>1 DEF RowTrue, LoanGoesOn

\* A row that is recorded for an answered report is true.
LEMMA RecordedIsTrue ==
    ASSUME FunnelInv, UNCHANGED <<loan, borrowed>>, NEW r, Funnel!status(r) = 202,
           r.step \in Funnel!Steps, r.address \in Funnel!Addresses,
           funnelRows' = Funnel!record(r.address, r.step, "ok", r.step \in Funnel!CHAIN_STEPS)
    PROVE  \A x \in funnelRows' : x.subject \in Funnel!Addresses /\ RowTrue(x)'
<1> DEFINE new == [subject |-> r.address, step |-> r.step, outcome |-> "ok", verified |-> r.step \in Funnel!CHAIN_STEPS]
<1>1. \A x \in funnelRows' : x \in funnelRows \/ x = new
    BY DEF Funnel!record
<1>2. \A x \in funnelRows : x.subject \in Funnel!Addresses /\ RowTrue(x)'
    BY DEF FunnelInv, RowTrue
<1>3. r.step \in Funnel!CHAIN_STEPS =>
        loan[r.address] # "none" /\ Funnel!positionReached(r.step, loan[r.address])
    BY DEF Funnel!status
<1>4. loan[r.address] \in LoanStates /\ (loan[r.address] \in {"debt", "liquidated"} => r.address \in borrowed)
    BY DEF FunnelInv, LoansInv
<1>5. new.subject = r.address /\ new.step = r.step /\ new.outcome = "ok" /\ (new.verified <=> r.step \in Funnel!CHAIN_STEPS)
    OBVIOUS
<1>6. new = [subject |-> new.subject, step |-> new.step, outcome |-> new.outcome, verified |-> new.verified]
    OBVIOUS
<1> HIDE DEF new
<1>7. new.verified /\ new.step = "deposit" => loan[new.subject] # "none"
    BY <1>3, <1>5
<1>8. new.verified /\ new.step = "borrow" => new.subject \in borrowed \/ loan[new.subject] = "closed"
    BY <1>3, <1>4, <1>5 DEF Funnel!positionReached, LoanStates
<1>9. new.verified /\ new.step = "release" => loan[new.subject] = "closed"
    BY <1>3, <1>5 DEF Funnel!positionReached
<1>10. RowTrue(new)'
  <2>1. new' = new
      BY DEF new
  <2> QED
      BY <1>5, <1>6, <1>7, <1>8, <1>9, <2>1 DEF RowTrue
<1> QED
    BY <1>1, <1>2, <1>5, <1>10

\* What a browser reports of the steps it saw.
LEMMA ReportingKeeps ==
    ASSUME FunnelInv, NEW x \in Browsers, NEW steps \in SUBSET Funnel!Steps, Funnel!reportStep(x, steps),
           "borrow" \in steps => loan'[owner] \in {"debt", "closed", "liquidated"},
           "repay" \in steps => loan'[owner] = "closed" \/ x \in partly',
           LoanGoesOn(owner), partly \subseteq partly'
    PROVE  /\ funnelRows' = funnelRows
           /\ \A r \in net' : r.step \in Funnel!Steps /\ r.address \in Funnel!Addresses
           /\ milestones' \in [Browsers -> SUBSET Funnel!Steps]
           /\ \A y \in Browsers : "borrow" \in milestones'[y] => loan'[owner] \in {"debt", "closed", "liquidated"}
           /\ RepaymentsSeen'
<1>1. milestones' = [milestones EXCEPT ![x] = @ \union steps] /\ funnelRows' = funnelRows
    BY DEF Funnel!reportStep
<1>2. net' = net \union {Funnel!Report(s, owner, owner, x) : s \in steps \ sent[x]}
    BY DEF Funnel!reportStep
<1>3. owner \in Funnel!Addresses
    BY DEF Funnel!Addresses
<1>4. \A r \in net' : r.step \in Funnel!Steps /\ r.address \in Funnel!Addresses
    BY <1>2, <1>3 DEF FunnelInv, Funnel!Report
<1>5. milestones \in [Browsers -> SUBSET Funnel!Steps]
    BY DEF FunnelInv
<1>6. milestones' \in [Browsers -> SUBSET Funnel!Steps]
    BY <1>1, <1>5
<1>7. ASSUME NEW y \in Browsers, "borrow" \in milestones'[y] PROVE loan'[owner] \in {"debt", "closed", "liquidated"}
  <2>1. "borrow" \in milestones[y] \/ "borrow" \in steps
      BY <1>1, <1>5, <1>7
  <2>2. CASE "borrow" \in steps
      BY <2>2
  <2>3. CASE "borrow" \in milestones[y]
      BY <2>3 DEF FunnelInv, LoanGoesOn
  <2> QED
      BY <2>1, <2>2, <2>3
<1>8. ASSUME NEW y \in Browsers, "repay" \in milestones'[y] PROVE loan'[owner] = "closed" \/ y \in partly'
  <2>1. "repay" \in milestones[y] \/ (y = x /\ "repay" \in steps)
      BY <1>1, <1>5, <1>8
  <2>2. CASE y = x /\ "repay" \in steps
      BY <2>2
  <2>3. CASE "repay" \in milestones[y]
      BY <2>3 DEF FunnelInv, RepaymentsSeen, LoanGoesOn
  <2> QED
      BY <2>1, <2>2, <2>3
<1> QED
    BY <1>1, <1>4, <1>6, <1>7, <1>8 DEF RepaymentsSeen

\* The loans move, and nobody reports.
LEMMA LoansMove ==
    ASSUME FunnelInv, LoansInv', borrowed \subseteq borrowed', \A x \in Funnel!Addresses : LoanGoesOn(x),
           UNCHANGED <<milestones, partly, net, funnelRows>>
    PROVE  FunnelInv'
<1>1. owner \in Funnel!Addresses
    BY DEF Funnel!Addresses
<1>2. \A r \in funnelRows : r.subject \in Funnel!Addresses /\ RowTrue(r)'
    BY RowStaysTrue DEF FunnelInv
<1>3. LoanGoesOn(owner)
    BY <1>1
<1> QED
    BY <1>2, <1>3 DEF FunnelInv, RepaymentsSeen, LoanGoesOn

\* A step on the chain, whether it is reported or the page is closed first.
LEMMA ActKeepsFunnel ==
    ASSUME FunnelInv, NEW x \in Browsers, NEW step \in Funnel!CHAIN_STEPS, Funnel!Act(x, step)
    PROVE  FunnelInv'
<1>1. LoansInv /\ loan \in [Funnel!Addresses -> LoanStates] /\ owner \in Funnel!Addresses
    BY DEF FunnelInv, LoansInv, Funnel!Addresses
<1>2. \/ /\ step = "deposit" /\ loan[owner] = "none" /\ loan' = [loan EXCEPT ![owner] = "open"]
         /\ UNCHANGED <<borrowed, funnelReleased>>
      \/ /\ step = "borrow" /\ loan[owner] \in {"open", "debt"} /\ loan' = [loan EXCEPT ![owner] = "debt"]
         /\ borrowed' = borrowed \union {owner} /\ funnelReleased' = funnelReleased
      \/ /\ step = "repay" /\ loan[owner] = "debt"
         /\ \E after \in {"debt", "closed"} : loan' = [loan EXCEPT ![owner] = after]
         /\ UNCHANGED <<borrowed, funnelReleased>>
      \/ /\ step = "release" /\ loan[owner] = "closed" /\ funnelReleased' = TRUE
         /\ UNCHANGED <<loan, borrowed>>
    BY DEF Funnel!Act
<1>3. /\ \A y \in Funnel!Addresses : LoanGoesOn(y)
      /\ loan' \in [Funnel!Addresses -> LoanStates]
      /\ step = "borrow" => loan'[owner] = "debt"
    BY <1>1, <1>2 DEF LoanGoesOn, LoanStates
<1>4. /\ borrowed \subseteq borrowed'
      /\ \A y \in Funnel!Addresses : loan'[y] \in {"debt", "liquidated"} => y \in borrowed'
      /\ funnelReleased' => loan'[owner] = "closed"
    BY <1>1, <1>2 DEF LoansInv, LoanStates
<1>5. LoansInv'
    BY <1>3, <1>4 DEF LoansInv
<1>6. CASE /\ Funnel!reportStep(x, {step})
           /\ partly' = IF step = "repay" /\ loan'[owner] = "debt" THEN partly \union {x} ELSE partly
  <2>1. {step} \in SUBSET Funnel!Steps
      BY DEF Funnel!Steps
  <2>2. LoanGoesOn(owner) /\ ("borrow" \in {step} => loan'[owner] \in {"debt", "closed", "liquidated"})
      BY <1>1, <1>3
  <2>5. partly \subseteq partly' /\ ("repay" \in {step} => loan'[owner] = "closed" \/ x \in partly')
      BY <1>1, <1>2, <1>6
  <2>3. /\ funnelRows' = funnelRows
        /\ \A r \in net' : r.step \in Funnel!Steps /\ r.address \in Funnel!Addresses
        /\ milestones' \in [Browsers -> SUBSET Funnel!Steps]
        /\ \A y \in Browsers : "borrow" \in milestones'[y] => loan'[owner] \in {"debt", "closed", "liquidated"}
        /\ RepaymentsSeen'
      BY <1>6, <2>1, <2>2, <2>5, ReportingKeeps
  <2>4. \A r \in funnelRows : r.subject \in Funnel!Addresses /\ RowTrue(r)'
      BY <1>3, <1>4, RowStaysTrue DEF FunnelInv
  <2> QED
      BY <1>5, <2>3, <2>4 DEF FunnelInv
<1>7. CASE Funnel!closedFirst /\ partly' = partly
    BY <1>3, <1>4, <1>5, <1>7, LoansMove DEF Funnel!closedFirst
<1> QED
    BY <1>6, <1>7 DEF Funnel!Act

\* A liquidation, a release without debt, or the other address.
LEMMA ChainKeepsFunnel == FunnelInv /\ Funnel!ChainMoves => FunnelInv'
<1> SUFFICES ASSUME FunnelInv, Funnel!ChainMoves PROVE FunnelInv'
    OBVIOUS
<1>1. LoansInv /\ loan \in [Funnel!Addresses -> LoanStates]
    BY DEF FunnelInv, LoansInv
<1>2. PICK x \in Funnel!Addresses :
         \/ loan[x] = "open" /\ loan' = [loan EXCEPT ![x] = "closed"] /\ borrowed' = borrowed
         \/ loan[x] = "debt" /\ loan' = [loan EXCEPT ![x] = "liquidated"] /\ borrowed' = borrowed
         \/ loan[x] = "open" /\ loan' = [loan EXCEPT ![x] = "debt"] /\ borrowed' = borrowed \union {x}
         \/ loan[x] = "debt" /\ loan' = [loan EXCEPT ![x] = "closed"] /\ borrowed' = borrowed
    BY DEF Funnel!ChainMoves
<1>3. UNCHANGED <<funnelReleased, milestones, partly, net, funnelRows>>
    BY DEF Funnel!ChainMoves
<1>4. /\ \A y \in Funnel!Addresses : LoanGoesOn(y)
      /\ loan' \in [Funnel!Addresses -> LoanStates]
    BY <1>1, <1>2 DEF LoanGoesOn, LoanStates
<1>5. /\ borrowed \subseteq borrowed'
      /\ \A y \in Funnel!Addresses : loan'[y] \in {"debt", "liquidated"} => y \in borrowed'
    BY <1>1, <1>2 DEF LoansInv, LoanStates
<1>6. funnelReleased => loan'[owner] = "closed"
  <2>1. owner \in Funnel!Addresses
      BY DEF Funnel!Addresses
  <2> QED
      BY <1>1, <1>4, <2>1 DEF LoansInv, LoanGoesOn
<1>7. LoansInv'
    BY <1>3, <1>4, <1>5, <1>6 DEF LoansInv
<1> QED
    BY <1>3, <1>4, <1>5, <1>7, LoansMove

\* Reports are sent, arrive, get lost or are made up; nothing happens on the chain.
LEMMA ReportsKeepFunnel ==
    ASSUME FunnelInv,
           \/ \E x \in Browsers : Funnel!signIn(x) \/ Funnel!GetStarted(x)
           \/ Funnel!SomebodyReports
           \/ \E r \in net : Funnel!Deliver(r) \/ Funnel!Lose(r)
           \/ \E x \in Funnel!Addresses : Funnel!recordFaucet(x)
    PROVE  FunnelInv'
<1>1. UNCHANGED <<loan, borrowed, funnelReleased, partly>>
    BY DEF Funnel!signIn, Funnel!GetStarted, Funnel!SomebodyReports, Funnel!Deliver, Funnel!Lose, Funnel!recordFaucet
<1>2. LoansInv' /\ \A y : LoanGoesOn(y)
    BY <1>1 DEF FunnelInv, LoansInv, LoanGoesOn
<1>3. \A r \in funnelRows : r.subject \in Funnel!Addresses /\ RowTrue(r)'
    BY <1>1 DEF FunnelInv, RowTrue
<1>4. ASSUME NEW x \in Browsers, NEW steps \in SUBSET Funnel!Steps, Funnel!reportStep(x, steps),
             "borrow" \in steps => loan'[owner] \in {"debt", "closed", "liquidated"}, "repay" \notin steps
      PROVE  FunnelInv'
  <2>1. /\ funnelRows' = funnelRows
        /\ \A r \in net' : r.step \in Funnel!Steps /\ r.address \in Funnel!Addresses
        /\ milestones' \in [Browsers -> SUBSET Funnel!Steps]
        /\ \A y \in Browsers : "borrow" \in milestones'[y] => loan'[owner] \in {"debt", "closed", "liquidated"}
        /\ RepaymentsSeen'
      BY <1>1, <1>2, <1>4, ReportingKeeps
  <2> QED
      BY <1>2, <1>3, <2>1 DEF FunnelInv
<1>5. ASSUME NEW x \in Browsers, Funnel!signIn(x) PROVE FunnelInv'
  <2>1. {"sign_in"} \in SUBSET Funnel!Steps /\ "borrow" \notin {"sign_in"} /\ "repay" \notin {"sign_in"}
      BY DEF Funnel!Steps
  <2> QED
      BY <1>4, <1>5, <2>1 DEF Funnel!signIn
<1>6. ASSUME NEW x \in Browsers, Funnel!GetStarted(x) PROVE FunnelInv'
  <2>1. /\ Funnel!shownByChain \in SUBSET Funnel!Steps /\ "repay" \notin Funnel!shownByChain
        /\ "borrow" \in Funnel!shownByChain => loan[owner] = "debt"
      BY DEF Funnel!shownByChain, Funnel!Steps, Funnel!CHAIN_STEPS
  <2> QED
      BY <1>1, <1>4, <1>6, <2>1 DEF Funnel!GetStarted
<1>7. ASSUME net' \subseteq net, milestones' = milestones,
             \A r \in funnelRows' : r.subject \in Funnel!Addresses /\ RowTrue(r)'
      PROVE  FunnelInv'
    BY <1>1, <1>2, <1>7 DEF FunnelInv, RepaymentsSeen
<1>8. CASE Funnel!SomebodyReports
  <2>1. PICK s \in Funnel!Steps, x \in Funnel!Addresses, t \in Funnel!Addresses :
            /\ Funnel!status(Funnel!Report(s, x, t, "nobody")) = 202
            /\ funnelRows' = Funnel!record(x, s, "ok", s \in Funnel!CHAIN_STEPS)
      BY <1>8 DEF Funnel!SomebodyReports
  <2>2. PICK r : r = Funnel!Report(s, x, t, "nobody")
      OBVIOUS
  <2>3. r.step = s /\ r.address = x /\ Funnel!status(r) = 202
      BY <2>1, <2>2 DEF Funnel!Report
  <2>4. \A y \in funnelRows' : y.subject \in Funnel!Addresses /\ RowTrue(y)'
      BY <1>1, <2>1, <2>3, RecordedIsTrue
  <2> QED
      BY <1>7, <1>8, <2>4 DEF Funnel!SomebodyReports
<1>9. ASSUME NEW r \in net, Funnel!Deliver(r) PROVE FunnelInv'
  <2>1. r.step \in Funnel!Steps /\ r.address \in Funnel!Addresses
      BY DEF FunnelInv
  <2>2. net' \subseteq net /\ milestones' = milestones
      BY <1>9 DEF Funnel!Deliver
  <2>3. \/ funnelRows' = funnelRows
        \/ /\ Funnel!status(r) = 202
           /\ funnelRows' = Funnel!record(r.address, r.step, "ok", r.step \in Funnel!CHAIN_STEPS)
      BY <1>9 DEF Funnel!Deliver
  <2>4. \A y \in funnelRows' : y.subject \in Funnel!Addresses /\ RowTrue(y)'
      BY <1>1, <1>3, <2>1, <2>3, RecordedIsTrue
  <2> QED
      BY <1>7, <2>2, <2>4
<1>10. ASSUME NEW r \in net, Funnel!Lose(r) PROVE FunnelInv'
    BY <1>3, <1>7, <1>10 DEF Funnel!Lose
<1>11. ASSUME NEW x \in Funnel!Addresses, Funnel!recordFaucet(x) PROVE FunnelInv'
  <2>1. PICK outcome \in {"paid", "refused"} :
            funnelRows' = Funnel!record(x, "faucet_claim", outcome, outcome = "paid")
      BY <1>11 DEF Funnel!recordFaucet
  <2> DEFINE new == [subject |-> x, step |-> "faucet_claim", outcome |-> outcome, verified |-> outcome = "paid"]
  <2>2. \A y \in funnelRows' : y \in funnelRows \/ y = new
      BY <2>1 DEF Funnel!record
  <2>3. new.subject \in Funnel!Addresses /\ RowTrue(new)'
      BY DEF RowTrue
  <2>4. \A y \in funnelRows' : y.subject \in Funnel!Addresses /\ RowTrue(y)'
    <3> HIDE DEF new
    <3>1. new' = new
        BY DEF new
    <3> QED
        BY <1>3, <2>2, <2>3, <3>1
  <2> QED
      BY <1>7, <1>11, <2>4 DEF Funnel!recordFaucet
<1> QED
    BY <1>5, <1>6, <1>8, <1>9, <1>10, <1>11

LEMMA FunnelStep == FunnelInv /\ Funnel!Next => FunnelInv'
BY ActKeepsFunnel, ChainKeepsFunnel, ReportsKeepFunnel DEF Funnel!Next, Funnel!Step

LEMMA FunnelStart == Funnel!Init => FunnelInv
<1> SUFFICES ASSUME Funnel!Init PROVE FunnelInv
    OBVIOUS
<1>1. /\ loan \in [Funnel!Addresses -> {"none", "open"}] /\ borrowed = {} /\ funnelReleased = FALSE
      /\ milestones = [x \in Browsers |-> {}] /\ net = {} /\ funnelRows = {}
    BY DEF Funnel!Init
<1> QED
    BY <1>1 DEF FunnelInv, RepaymentsSeen, LoansInv, LoanStates

\* The five steps of the guide in their order: a step is done when it or a later
\* one is ticked, and the current one is the first that is not done.
LEMMA GuideSteps ==
    ASSUME NEW x \in Browsers, NEW T, T = Funnel!ticked(x), NEW due, due = Funnel!current(x)
    PROVE  /\ due \in {"fund", "deposit", "borrow", "repay", "release", "none"}
           /\ due = "deposit" => "fund" \in T /\ "deposit" \notin T
           /\ due = "borrow" =>
                "deposit" \in T /\ "borrow" \notin T /\ "repay" \notin T /\ "release" \notin T
           /\ due = "repay" => "borrow" \in T /\ "repay" \notin T /\ "release" \notin T
           /\ due = "release" => "repay" \in T /\ "release" \notin T
           /\ "release" \in T => due = "none"
<1> DEFINE G == Funnel!GUIDE_STEPS
           D == Funnel!done(x)
           Later(i) == \E k \in i..5 : G[k] \in T
           todo == {i \in 1..5 : G[i] \notin D}
<1>1. G = <<"fund", "deposit", "borrow", "repay", "release">>
    BY DEF Funnel!GUIDE_STEPS
<1>2. /\ G[1] = "fund" /\ G[2] = "deposit" /\ G[3] = "borrow" /\ G[4] = "repay" /\ G[5] = "release"
    BY <1>1
<1> HIDE DEF G
<1>3. \A i, j \in 1..5 : G[i] = G[j] => i = j
  <2>1. ASSUME NEW i \in 1..5 PROVE i = 1 \/ i = 2 \/ i = 3 \/ i = 4 \/ i = 5
      OBVIOUS
  <2> QED
      BY <1>2, <2>1
<1>4. D = {G[i] : i \in {j \in 1..5 : Later(j)}}
    BY DEF Funnel!done, G
<1>5. \A i \in 1..5 : G[i] \in D <=> Later(i)
    BY <1>3, <1>4
<1>6. /\ Later(1) <=> G[1] \in T \/ G[2] \in T \/ G[3] \in T \/ G[4] \in T \/ G[5] \in T
      /\ Later(2) <=> G[2] \in T \/ G[3] \in T \/ G[4] \in T \/ G[5] \in T
      /\ Later(3) <=> G[3] \in T \/ G[4] \in T \/ G[5] \in T
      /\ Later(4) <=> G[4] \in T \/ G[5] \in T
      /\ Later(5) <=> G[5] \in T
    OBVIOUS
<1>7. due = IF todo = {} THEN "none" ELSE G[CHOOSE i \in todo : \A j \in todo : i <= j]
    BY DEF Funnel!current, G
<1> HIDE DEF Later, D
<1>8. \A i \in 1..5 : i \in todo <=> ~Later(i)
    BY <1>5
<1>9. todo # {} => \E i \in todo : \A j \in todo : i <= j
  <2>1. \A i \in 1..5 : Later(i) \/ i \in todo
      BY <1>8
  <2>2. \A i \in todo : i = 1 \/ i = 2 \/ i = 3 \/ i = 4 \/ i = 5
      OBVIOUS
  <2>3. CASE 1 \in todo
      BY <2>2, <2>3
  <2>4. CASE 1 \notin todo /\ 2 \in todo
      BY <2>2, <2>4
  <2>5. CASE 1 \notin todo /\ 2 \notin todo /\ 3 \in todo
      BY <2>2, <2>5
  <2>6. CASE 1 \notin todo /\ 2 \notin todo /\ 3 \notin todo /\ 4 \in todo
      BY <2>2, <2>6
  <2>7. CASE 1 \notin todo /\ 2 \notin todo /\ 3 \notin todo /\ 4 \notin todo
      BY <2>2, <2>7
  <2> QED
      BY <2>3, <2>4, <2>5, <2>6, <2>7
<1>10. (todo = {} /\ due = "none") \/ \E i \in todo : due = G[i] /\ \A j \in todo : i <= j
    BY <1>7, <1>9
<1>11. \/ due = "none" /\ Later(1) /\ Later(2) /\ Later(3) /\ Later(4) /\ Later(5)
       \/ due = G[1] /\ ~Later(1)
       \/ due = G[2] /\ ~Later(2) /\ Later(1)
       \/ due = G[3] /\ ~Later(3) /\ Later(2)
       \/ due = G[4] /\ ~Later(4) /\ Later(3)
       \/ due = G[5] /\ ~Later(5) /\ Later(4)
  <2>1. CASE todo = {} /\ due = "none"
      BY <1>8, <2>1
  <2>2. CASE \E i \in todo : due = G[i] /\ \A j \in todo : i <= j
    <3>1. PICK i \in todo : due = G[i] /\ \A j \in todo : i <= j
        BY <2>2
    <3>2. i \in 1..5 /\ ~Later(i) /\ \A j \in 1..5 : j < i => Later(j)
        BY <1>8, <3>1
    <3>3. i = 1 \/ i = 2 \/ i = 3 \/ i = 4 \/ i = 5
        BY <3>2
    <3> QED
        BY <3>1, <3>2, <3>3
  <2> QED
      BY <1>10, <2>1, <2>2
<1> HIDE DEF todo
<1> QED
    BY <1>2, <1>6, <1>11

\* What the invariant says is what the run checks.
LEMMA FunnelInvIsEnough == FunnelInv => Funnel!CountedIsReal /\ Funnel!GuideLeadsForward
<1> SUFFICES ASSUME FunnelInv PROVE Funnel!CountedIsReal /\ Funnel!GuideLeadsForward
    OBVIOUS
<1>1. ASSUME NEW step, NEW x \in Funnel!reached(step)
      PROVE  \E r \in funnelRows :
                /\ r.subject = x /\ r.step = step /\ RowTrue(r)
                /\ step = "faucet_claim" => r.outcome = "paid"
                /\ step \in Funnel!CHAIN_STEPS => r.verified
    BY DEF Funnel!reached, FunnelInv
<1>2. Funnel!CountedIsReal
  <2>1. ASSUME NEW x \in Funnel!reached("deposit") PROVE loan[x] # "none"
    <3>1. PICK r \in funnelRows : r.subject = x /\ r.step = "deposit" /\ RowTrue(r) /\ r.verified
        BY <1>1 DEF Funnel!CHAIN_STEPS
    <3> QED
        BY <3>1 DEF RowTrue
  <2>2. ASSUME NEW x \in Funnel!reached("borrow") PROVE x \in borrowed \/ loan[x] = "closed"
    <3>1. PICK r \in funnelRows : r.subject = x /\ r.step = "borrow" /\ RowTrue(r) /\ r.verified
        BY <1>1 DEF Funnel!CHAIN_STEPS
    <3> QED
        BY <3>1 DEF RowTrue
  <2>3. ASSUME NEW x \in Funnel!reached("release") PROVE loan[x] = "closed"
    <3>1. PICK r \in funnelRows : r.subject = x /\ r.step = "release" /\ RowTrue(r) /\ r.verified
        BY <1>1 DEF Funnel!CHAIN_STEPS
    <3> QED
        BY <3>1 DEF RowTrue
  <2>4. ASSUME NEW x \in Funnel!activated
        PROVE  [subject |-> x, step |-> "faucet_claim", outcome |-> "paid", verified |-> TRUE] \in funnelRows
    <3>1. x \in Funnel!reached("faucet_claim")
        BY DEF Funnel!activated
    <3>2. PICK r \in funnelRows :
              r.subject = x /\ r.step = "faucet_claim" /\ RowTrue(r) /\ r.outcome = "paid"
        BY <1>1, <3>1
    <3>3. r = [subject |-> x, step |-> "faucet_claim", outcome |-> "paid", verified |-> TRUE]
        BY <3>2 DEF RowTrue
    <3> QED
        BY <3>3
  <2> QED
      BY <2>1, <2>2, <2>3, <2>4 DEF Funnel!CountedIsReal
<1>3. ASSUME NEW x \in Browsers
      PROVE  LET now_ == Funnel!current(x) IN
             /\ now_ = "deposit" => loan[owner] = "none"
             /\ now_ = "borrow" =>
                   \/ loan[owner] = "open"
                   \/ loan[owner] \in {"closed", "liquidated"} /\ milestones[x] \intersect {"borrow", "repay"} = {}
             /\ now_ = "repay" => loan[owner] \in {"debt", "liquidated"}
             /\ now_ = "release" => ~funnelReleased /\ (loan[owner] = "closed" \/ x \in partly)
             /\ funnelReleased => now_ = "none"
  <2>1. PICK T : T = Funnel!ticked(x)
      OBVIOUS
  <2>2. PICK step : step = Funnel!current(x)
      OBVIOUS
  <2>3. /\ "fund" \in T <=> loan[owner] # "none"
        /\ "deposit" \in T <=> loan[owner] # "none"
        /\ "borrow" \in T <=> \/ "borrow" \in milestones[x] \/ loan[owner] = "debt"
                              \/ loan[owner] = "closed" /\ "repay" \in milestones[x]
        /\ "repay" \in T <=> \/ "repay" \in milestones[x]
                             \/ loan[owner] = "closed" /\ ("borrow" \in milestones[x] \/ loan[owner] = "debt")
        /\ "release" \in T <=> "release" \in milestones[x] \/ funnelReleased
      BY <2>1 DEF Funnel!ticked
  <2>4. /\ loan[owner] \in LoanStates /\ (funnelReleased => loan[owner] = "closed")
        /\ "borrow" \in milestones[x] => loan[owner] \in {"debt", "closed", "liquidated"}
        /\ "repay" \in milestones[x] => loan[owner] = "closed" \/ x \in partly
      BY DEF FunnelInv, RepaymentsSeen, LoansInv, Funnel!Addresses
  <2>5. /\ step = "deposit" => "fund" \in T /\ "deposit" \notin T
        /\ step = "borrow" =>
             "deposit" \in T /\ "borrow" \notin T /\ "repay" \notin T /\ "release" \notin T
        /\ step = "repay" => "borrow" \in T /\ "repay" \notin T /\ "release" \notin T
        /\ step = "release" => "repay" \in T /\ "release" \notin T
        /\ "release" \in T => step = "none"
      BY <2>1, <2>2, GuideSteps
  <2>6. step = "deposit" => loan[owner] = "none"
      BY <2>3, <2>5
  <2>7. step = "borrow" =>
          \/ loan[owner] = "open"
          \/ loan[owner] \in {"closed", "liquidated"} /\ milestones[x] \intersect {"borrow", "repay"} = {}
      BY <2>3, <2>4, <2>5 DEF LoanStates
  <2>10. step = "repay" => loan[owner] \in {"debt", "liquidated"}
      BY <2>3, <2>4, <2>5 DEF LoanStates
  <2>11. step = "release" => ~funnelReleased /\ (loan[owner] = "closed" \/ x \in partly)
      BY <2>3, <2>4, <2>5 DEF LoanStates
  <2>12. funnelReleased => step = "none"
      BY <2>3, <2>5
  <2> QED
      BY <2>2, <2>6, <2>7, <2>10, <2>11, <2>12
<1>4. Funnel!GuideLeadsForward
    BY <1>3 DEF Funnel!GuideLeadsForward
<1> QED
    BY <1>2, <1>4

\* funnel.ts and guide.ts: whoever sends the reports, and in whatever order they
\* arrive or get lost, the summary counts only what writz-lend or the faucet saw,
\* and the guide offers in every browser the step the loan is at, but for the
\* exceptions that GuideLeadsForward names.
THEOREM OnboardingStaysTrue == MCSpec => []OnboardingIsTrue
<1> DEFINE Inv == part = "funnel" => FunnelInv
<1>1. MCInit => Inv
    BY FunnelStart DEF MCInit
<1>2. Inv /\ [MCNext]_all => Inv'
  <2> SUFFICES ASSUME Inv, [MCNext]_all, part' = "funnel" PROVE FunnelInv'
      OBVIOUS
  <2>1. CASE FunnelNext
      BY <2>1, FunnelStep DEF FunnelNext
  <2>2. CASE UNCHANGED all
    <3>1. FunnelInv /\ UNCHANGED <<loan, borrowed, funnelReleased, milestones, partly, net, funnelRows>>
        BY <2>2 DEF all, funnelVars
    <3> QED
        BY <3>1 DEF FunnelInv, RepaymentsSeen, LoansInv, RowTrue
  <2>3. CASE MCNext /\ ~FunnelNext
      BY <2>3 DEF MCNext, MintsNext, ArchiveNext, ClaimsNext, VaultNext, ApiNext, ReadsNext
  <2> QED
      BY <2>1, <2>2, <2>3
<1>3. Inv => OnboardingIsTrue
    BY FunnelInvIsEnough DEF OnboardingIsTrue
<1> QED
    BY <1>1, <1>2, <1>3, PTL DEF MCSpec

(* The deposit status and the timeline.                                       *)

OpKinds == {"deposit", "borrow", "repay", "elsewhere", "burn"}

\* A transaction is registered once, RPC serves from some ledger on, and only the
\* timeline tells the operations after a deposit apart.
WorldInv ==
    /\ ops \in Seq(OpKinds) /\ Len(ops) <= MaxOps
    /\ statusOldest \in 1..(Len(ops) + 1)
    /\ statusTip \in Nat /\ height \in Int /\ lcTip \in Int
    /\ \A i, j \in Reads!Is({"deposit"}) : i = j
    /\ key # "timeline" => DOMAIN ops \subseteq Reads!Is({"deposit"})

\* The index has what lies behind its cursor, and what it lacks left the window
\* unseen.
IndexInv ==
    /\ statusCursor \in 0..Len(ops)
    /\ records \subseteq Reads!PositionEvents /\ \A i \in records : i <= statusCursor
    /\ skipped \subseteq Reads!PositionEvents /\ \A i \in skipped : i < statusOldest
    /\ \A i \in Reads!PositionEvents :
          i <= statusCursor \/ i < statusOldest => i \in records \/ i \in skipped

\* No hole below a member, but for what left the window unseen.
Complete(s) == \A j \in s, i \in Reads!PositionEvents : i <= j => i \in s \/ i \in skipped

\* The deposit's own event left the window.
EventIsGone == \E i \in Reads!Is({"deposit"}) : i < statusOldest

\* What a computation has read so far is true, and stays so.
GotInv ==
    /\ got = [record |-> got.record, exists |-> got.exists, seen |-> got.seen, sub |-> got.sub,
              height |-> got.height, lcTip |-> got.lcTip, before |-> got.before]
    /\ got.record \/ got.exists \/ got.before => Reads!Registered
    /\ got.sub = "failed" => sub = "failed"
    /\ got.height \notin {None, Unknown} => got.height \in Int /\ (got.height > 0 => height = got.height)
    /\ got.seen \subseteq Reads!PositionEvents /\ Complete(got.seen)
    /\ got.record /\ key = "timeline" => got.seen # {}

\* Where a computation stands.
RegInv ==
    /\ reg \in {"idle", "refresh", "waiting", "lookup", "exists", "force", "read", "answer"}
    /\ reg \in {"refresh", "exists"} => ~got.exists
    /\ reg \in {"read", "answer"} /\ got.before => got.record \/ got.exists
    /\ reg \in {"read", "answer"} /\ key # "timeline" /\ got.exists /\ ~got.record => EventIsGone
    /\ reg = "answer" \/ (reg \in {"force", "waiting", "lookup"} /\ got.exists) => key # "timeline"
    /\ reg = "lookup" /\ got.exists => \A i \in Reads!Is({"deposit"}) : i <= statusCursor
    /\ reg = "answer" /\ got.lcTip \notin {None, Unknown} =>
          got.lcTip \in Int /\ got.lcTip <= lcTip /\ got.height \in Int /\ got.height > 0 /\ height = got.height

\* What an answer says.
CacheInv ==
    /\ cache # None /\ key # "timeline" =>
          /\ cache.stage = "verified" => Reads!Registered
          /\ cache.stage = "verified" /\ ~cache.hash => EventIsGone
          /\ cache.stage = "failed" => sub = "failed" /\ ~cache.before
          /\ cache.stage = "ready" /\ cache.tipKnown => Reads!Provable
    /\ cache # None /\ key = "timeline" =>
          /\ cache.events \subseteq Reads!PositionEvents /\ Complete(cache.events)
          /\ cache.complete => cache.events # {}
          /\ \A leg \in cache.legs : \E d \in cache.events : d < leg /\ ops[d] = "borrow"

StatusInv == WorldInv /\ IndexInv /\ GotInv /\ RegInv /\ CacheInv

\* The world goes on: logs grow, a block stays, and a failed call stays failed.
WorldGoesOn ==
    /\ ops' \in Seq(OpKinds) /\ Len(ops) <= Len(ops') /\ \A i \in 1..Len(ops) : ops'[i] = ops[i]
    /\ statusOldest' \in Nat /\ statusOldest <= statusOldest'
    /\ height' \in Int /\ (height > 0 => height' = height) /\ lcTip' \in Int /\ lcTip <= lcTip'
    /\ sub = "failed" => sub' = "failed"
    /\ skipped \subseteq skipped'

\* What was true of the chains stays true.
LEMMA TrueStays ==
    ASSUME WorldInv, WorldGoesOn
    PROVE  /\ Reads!Registered => Reads!Registered'
           /\ EventIsGone => EventIsGone'
           /\ Reads!Provable => Reads!Provable'
           /\ Reads!PositionEvents \subseteq 1..Len(ops)
           /\ \A i \in 1..Len(ops) : /\ i \in Reads!PositionEvents' <=> i \in Reads!PositionEvents
                                     /\ i \in Reads!Is({"deposit"})' <=> i \in Reads!Is({"deposit"})
           /\ Reads!Is({"deposit"}) \subseteq 1..Len(ops)
           /\ Reads!PositionEvents' \subseteq 1..Len(ops')
<1>1. /\ Len(ops) \in Nat /\ DOMAIN ops = 1..Len(ops) /\ Len(ops') \in Nat /\ DOMAIN ops' = 1..Len(ops')
      /\ \A i \in 1..Len(ops) : i \in 1..Len(ops') /\ ops'[i] = ops[i]
    BY DEF WorldInv, WorldGoesOn
<1>2. /\ Reads!PositionEvents \subseteq 1..Len(ops) /\ Reads!Is({"deposit"}) \subseteq 1..Len(ops)
      /\ Reads!PositionEvents' \subseteq 1..Len(ops')
      /\ \A i \in 1..Len(ops) : /\ i \in Reads!PositionEvents' <=> i \in Reads!PositionEvents
                                /\ i \in Reads!Is({"deposit"})' <=> i \in Reads!Is({"deposit"})
    BY <1>1 DEF Reads!PositionEvents, Reads!Is
<1>3. Reads!Registered => Reads!Registered'
    BY <1>2 DEF Reads!Registered
<1>4. EventIsGone => EventIsGone'
  <2>1. ASSUME NEW i \in Reads!Is({"deposit"}), i < statusOldest PROVE i \in Reads!Is({"deposit"})' /\ i < statusOldest'
      BY <1>1, <1>2, <2>1 DEF WorldInv, WorldGoesOn
  <2> QED
      BY <2>1 DEF EventIsGone
<1>5. Reads!Provable => Reads!Provable'
    BY StatusAssumption DEF Reads!Provable, WorldInv, WorldGoesOn
<1> QED
    BY <1>2, <1>3, <1>4, <1>5

\* And so does what has been read of them and what was answered.
LEMMA CompleteStays ==
    ASSUME WorldInv, WorldGoesOn, NEW s, s \subseteq Reads!PositionEvents, Complete(s)
    PROVE  s \subseteq Reads!PositionEvents' /\ Complete(s)'
<1>1. /\ Reads!PositionEvents \subseteq 1..Len(ops) /\ Reads!PositionEvents' \subseteq 1..Len(ops')
      /\ \A i \in 1..Len(ops) : i \in Reads!PositionEvents' <=> i \in Reads!PositionEvents
    BY TrueStays
<1>2. Len(ops) \in Nat /\ Len(ops') \in Nat
    BY DEF WorldInv, WorldGoesOn
<1>3. ASSUME NEW j \in s, NEW i \in Reads!PositionEvents', i <= j PROVE i \in s \/ i \in skipped'
  <2>1. j \in 1..Len(ops) /\ i \in 1..Len(ops')
      BY <1>1
  <2>2. i \in 1..Len(ops)
      BY <1>2, <1>3, <2>1
  <2> QED
      BY <1>1, <1>3, <2>2 DEF Complete, WorldGoesOn
<1> QED
    BY <1>1, <1>3 DEF Complete

LEMMA CacheStays ==
    ASSUME WorldInv, WorldGoesOn, CacheInv, UNCHANGED <<cache, key>>
    PROVE  CacheInv'
<1>1. CASE cache # None /\ key # "timeline"
    BY <1>1, TrueStays DEF CacheInv, WorldGoesOn
<1>2. CASE cache # None /\ key = "timeline"
  <2>1. cache.events \subseteq Reads!PositionEvents' /\ Complete(cache.events)'
    <3>1. PICK s : s = cache.events
        OBVIOUS
    <3>2. s \subseteq Reads!PositionEvents /\ Complete(s)
        BY <1>2, <3>1 DEF CacheInv
    <3>3. s \subseteq Reads!PositionEvents' /\ Complete(s)'
        BY <3>2, CompleteStays
    <3> QED
        BY <3>1, <3>3 DEF Complete
  <2>2. \A d \in cache.events : ops'[d] = ops[d]
    <3>1. Reads!PositionEvents \subseteq 1..Len(ops)
        BY TrueStays
    <3> QED
        BY <1>2, <3>1 DEF CacheInv, WorldGoesOn
  <2> QED
      BY <1>2, <2>1, <2>2 DEF CacheInv, Complete
<1>3. CASE cache = None
    BY <1>3 DEF CacheInv
<1> QED
    BY <1>1, <1>2, <1>3

LEMMA GotStays ==
    ASSUME WorldInv, WorldGoesOn, GotInv, UNCHANGED <<got, key>>
    PROVE  GotInv'
<1>1. PICK s : s = got.seen
    OBVIOUS
<1>2. s \subseteq Reads!PositionEvents' /\ Complete(s)'
    BY <1>1, CompleteStays DEF GotInv
<1>3. got.seen \subseteq Reads!PositionEvents' /\ Complete(got.seen)'
    BY <1>1, <1>2 DEF Complete
<1>4. got.record \/ got.exists \/ got.before => Reads!Registered'
    BY TrueStays DEF GotInv
<1>5. got.height \notin {None, Unknown} => got.height \in Int /\ (got.height > 0 => height' = got.height)
    BY DEF GotInv, WorldGoesOn, WorldInv
<1> QED
    BY <1>3, <1>4, <1>5 DEF GotInv, WorldGoesOn

LEMMA RegStays ==
    ASSUME WorldInv, WorldInv', WorldGoesOn, GotInv, RegInv, UNCHANGED <<got, key, reg, statusCursor>>
    PROVE  RegInv'
<1>1. /\ EventIsGone => EventIsGone'
      /\ Reads!Is({"deposit"}) \subseteq 1..Len(ops)
      /\ \A i \in 1..Len(ops) : i \in Reads!Is({"deposit"})' <=> i \in Reads!Is({"deposit"})
    BY TrueStays
<1>2. ASSUME reg = "lookup", got.exists, NEW i \in Reads!Is({"deposit"})'
      PROVE  i <= statusCursor
  <2>1. PICK j \in Reads!Is({"deposit"}) : TRUE
      BY <1>2 DEF GotInv, Reads!Registered
  <2>2. j <= statusCursor /\ j \in Reads!Is({"deposit"})'
      BY <1>1, <1>2 DEF RegInv
  <2>3. i = j
      BY <2>2 DEF WorldInv
  <2> QED
      BY <2>2, <2>3
<1>3. reg = "lookup" /\ got.exists => \A i \in Reads!Is({"deposit"})' : i <= statusCursor
    BY <1>2
<1>4. reg = "answer" /\ got.lcTip \notin {None, Unknown} =>
        got.lcTip \in Int /\ got.lcTip <= lcTip' /\ got.height \in Int /\ got.height > 0 /\ height' = got.height
    BY DEF RegInv, WorldGoesOn, WorldInv
<1> QED
    BY <1>1, <1>3, <1>4 DEF RegInv

\* An operation is added to the log of Stellar.
LEMMA OpsGrow ==
    ASSUME WorldInv, IndexInv, NEW added \in OpKinds,
           IF added = "deposit" THEN ~Reads!Registered ELSE key = "timeline",
           Len(ops) < MaxOps, ops' = Append(ops, added), sub = "failed" => sub' = "failed",
           UNCHANGED <<statusTip, height, lcTip, statusOldest, statusCursor, records, skipped, key>>
    PROVE  WorldInv' /\ WorldGoesOn /\ IndexInv'
<1>1. ops \in Seq(OpKinds) /\ Len(ops) \in Nat /\ statusOldest \in 1..(Len(ops) + 1)
    BY DEF WorldInv
<1>2. /\ ops' \in Seq(OpKinds) /\ Len(ops') = Len(ops) + 1
      /\ \A i \in 1..Len(ops) : ops'[i] = ops[i]
      /\ ops'[Len(ops) + 1] = added
    BY <1>1
<1>3. WorldGoesOn
    BY <1>1, <1>2 DEF WorldGoesOn, WorldInv
<1>4. /\ DOMAIN ops' = DOMAIN ops \union {Len(ops) + 1} /\ Len(ops) + 1 \notin DOMAIN ops
      /\ DOMAIN ops = 1..Len(ops)
    BY <1>1, <1>2
<1>5. \A i, j \in Reads!Is({"deposit"})' : i = j
  <2>1. \A i \in Reads!Is({"deposit"})' :
           i \in Reads!Is({"deposit"}) \/ (i = Len(ops) + 1 /\ added = "deposit")
      BY <1>2, <1>4 DEF Reads!Is
  <2>2. CASE added = "deposit"
      BY <2>1, <2>2 DEF Reads!Registered
  <2>3. CASE added # "deposit"
      BY <2>1, <2>3 DEF WorldInv
  <2> QED
      BY <2>2, <2>3
<1>6. WorldInv'
  <2>0. key # "timeline" => DOMAIN ops' \subseteq Reads!Is({"deposit"})'
      BY <1>2, <1>4 DEF WorldInv, Reads!Is
  <2>1. statusOldest' \in 1..(Len(ops') + 1) /\ Len(ops') <= MaxOps
      BY <1>1, <1>2, StatusAssumption
  <2> QED
      BY <1>2, <1>5, <2>0, <2>1 DEF WorldInv
<1>7. \A i \in 1..Len(ops) : i \in Reads!PositionEvents' <=> i \in Reads!PositionEvents
    BY <1>3, TrueStays
<1>8. Reads!PositionEvents \subseteq 1..Len(ops) /\ Reads!PositionEvents' \subseteq 1..(Len(ops) + 1)
    BY <1>2, <1>3, TrueStays
<1>9. statusCursor \in 0..Len(ops)
    BY DEF IndexInv
<1>10. ASSUME NEW i \in Reads!PositionEvents', i <= statusCursor \/ i < statusOldest
       PROVE  i \in records \/ i \in skipped
  <2>1. i \in 1..Len(ops)
      BY <1>1, <1>8, <1>9, <1>10
  <2> QED
      BY <1>7, <1>10, <2>1 DEF IndexInv
<1>11. records \subseteq Reads!PositionEvents' /\ skipped \subseteq Reads!PositionEvents'
    BY <1>7, <1>8 DEF IndexInv
<1>12. statusCursor \in 0..Len(ops')
    BY <1>1, <1>2, <1>9
<1>13. IndexInv'
    BY <1>10, <1>11, <1>12 DEF IndexInv
<1> QED
    BY <1>3, <1>6, <1>13

\* Nothing but the position of the chains changes, or the call's fate.
LEMMA ChainsGrow ==
    ASSUME WorldInv, IndexInv, statusTip' \in Nat, height' \in Int, height > 0 => height' = height,
           lcTip' \in Int, lcTip <= lcTip', sub = "failed" => sub' = "failed",
           UNCHANGED <<ops, statusOldest, statusCursor, records, skipped, key>>
    PROVE  WorldInv' /\ WorldGoesOn /\ IndexInv'
<1>1. WorldInv'
    BY DEF WorldInv, Reads!Is
<1>2. WorldGoesOn
    BY DEF WorldInv, WorldGoesOn
<1>3. IndexInv'
    BY DEF IndexInv, Reads!PositionEvents, Reads!Is
<1> QED
    BY <1>1, <1>2, <1>3

\* The RPC drops its oldest ledger.
LEMMA WindowMoves ==
    ASSUME WorldInv, IndexInv, Reads!DropOld
    PROVE  WorldInv' /\ WorldGoesOn /\ IndexInv'
<1>1. /\ statusOldest \in 1..Len(ops) /\ statusOldest' = statusOldest + 1
      /\ skipped' = IF statusCursor < statusOldest /\ ops[statusOldest] \in {"deposit", "borrow", "repay"}
                    THEN skipped \union {statusOldest} ELSE skipped
      /\ UNCHANGED <<statusTip, height, lcTip, ops, sub, statusCursor, records, key>>
    BY DEF Reads!DropOld, Reads!World, Reads!index, WorldInv
<1>2. WorldInv'
    BY <1>1 DEF WorldInv, Reads!Is
<1>3. WorldGoesOn
    BY <1>1 DEF WorldInv, WorldGoesOn
<1>4. /\ Reads!PositionEvents' = Reads!PositionEvents
      /\ (statusOldest \in Reads!PositionEvents) <=> (ops[statusOldest] \in {"deposit", "borrow", "repay"})
    BY <1>1 DEF Reads!PositionEvents, Reads!Is, WorldInv
<1>5. Reads!PositionEvents \subseteq 1..Len(ops) /\ statusCursor \in 0..Len(ops) /\ Len(ops) \in Nat
    BY <1>3, TrueStays DEF IndexInv, WorldInv
<1>6. skipped' \subseteq Reads!PositionEvents /\ \A i \in skipped' : i < statusOldest'
  <2> SUFFICES ASSUME NEW i \in skipped' PROVE i \in Reads!PositionEvents /\ i < statusOldest'
      BY DEF IndexInv
  <2>1. CASE i \in skipped
    <3>1. i \in Reads!PositionEvents /\ i < statusOldest
        BY <2>1 DEF IndexInv
    <3> QED
        BY <1>1, <1>5, <3>1
  <2>2. CASE i \notin skipped
    <3>1. i = statusOldest /\ ops[statusOldest] \in {"deposit", "borrow", "repay"}
        BY <1>1, <2>2
    <3> QED
        BY <1>1, <1>4, <3>1
  <2> QED
      BY <2>1, <2>2
<1>7. ASSUME NEW i \in Reads!PositionEvents, i <= statusCursor \/ i < statusOldest'
      PROVE  i \in records \/ i \in skipped'
  <2>1. CASE i <= statusCursor \/ i < statusOldest
      BY <1>1, <2>1 DEF IndexInv
  <2>2. CASE ~(i <= statusCursor \/ i < statusOldest)
    <3>1. i = statusOldest /\ statusCursor < statusOldest
        BY <1>1, <1>5, <1>7, <2>2
    <3> QED
        BY <1>1, <1>4, <3>1
  <2> QED
      BY <2>1, <2>2
<1>8. IndexInv'
    BY <1>1, <1>4, <1>5, <1>6, <1>7 DEF IndexInv
<1> QED
    BY <1>2, <1>3, <1>8

\* Bitcoin, Stellar and the RPC's window move on.
LEMMA WorldMoves ==
    ASSUME StatusInv,
           \/ Reads!Bitcoin \/ Reads!Submit \/ Reads!Land \/ Reads!Expire \/ Reads!OtherSubmission
           \/ Reads!Act \/ Reads!DropOld
    PROVE  StatusInv'
<1>1. WorldInv /\ IndexInv /\ GotInv /\ RegInv /\ CacheInv
    BY DEF StatusInv
<1>2. UNCHANGED <<records, statusCursor, key, reg, got, cache>>
    BY DEF Reads!Bitcoin, Reads!Submit, Reads!Land, Reads!Expire, Reads!OtherSubmission, Reads!Act, Reads!DropOld,
           Reads!Stellar, Reads!World, Reads!index
<1>3. ASSUME WorldInv', WorldGoesOn, IndexInv' PROVE StatusInv'
    BY <1>1, <1>2, <1>3, GotStays, CacheStays, RegStays DEF StatusInv
<1>4. ASSUME NEW added \in OpKinds, IF added = "deposit" THEN ~Reads!Registered ELSE key = "timeline",
             Reads!Stellar(added), sub = "failed" => sub' = "failed"
      PROVE  StatusInv'
  <2>1. WorldInv' /\ WorldGoesOn /\ IndexInv'
      BY <1>1, <1>2, <1>4, OpsGrow DEF Reads!Stellar
  <2> QED
      BY <1>3, <2>1
<1>5. ASSUME statusTip' \in Nat, height' \in Int, height > 0 => height' = height,
             lcTip' \in Int, lcTip <= lcTip', sub = "failed" => sub' = "failed",
             UNCHANGED <<ops, statusOldest, skipped>>
      PROVE  StatusInv'
  <2>1. WorldInv' /\ WorldGoesOn /\ IndexInv'
      BY <1>1, <1>2, <1>5, ChainsGrow
  <2> QED
      BY <1>3, <2>1
<1>6. CASE Reads!Bitcoin
  <2>1. statusTip \in Nat /\ height \in Int /\ lcTip \in Int
      BY <1>1 DEF WorldInv
  <2>2. /\ statusTip' \in Nat /\ height' \in Int /\ (height > 0 => height' = height)
        /\ lcTip' \in Int /\ lcTip <= lcTip'
      BY <1>6, <2>1 DEF Reads!Bitcoin
  <2> QED
      BY <1>5, <1>6, <2>2 DEF Reads!Bitcoin
<1>7. ASSUME UNCHANGED <<statusTip, height, lcTip, ops, statusOldest, skipped>>, sub = "sent" \/ sub = "none"
      PROVE  StatusInv'
    BY <1>1, <1>5, <1>7 DEF WorldInv
<1>8. CASE Reads!Submit \/ Reads!Expire
    BY <1>7, <1>8 DEF Reads!Submit, Reads!Expire
<1>9. CASE Reads!Land
  <2>1. CASE ~Reads!Registered /\ Reads!Stellar("deposit")
      BY <1>4, <1>9, <2>1 DEF Reads!Land, OpKinds
  <2>2. CASE ~(~Reads!Registered /\ Reads!Stellar("deposit"))
      BY <1>7, <1>9, <2>2 DEF Reads!Land
  <2> QED
      BY <2>1, <2>2
<1>10. CASE Reads!OtherSubmission
    BY <1>4, <1>10 DEF Reads!OtherSubmission, OpKinds
<1>11. CASE Reads!Act
  <2>1. PICK added \in {"borrow", "repay", "elsewhere", "burn"} : Reads!Stellar(added) /\ key = "timeline" /\ sub' = sub
      BY <1>11 DEF Reads!Act
  <2> QED
      BY <1>4, <2>1 DEF OpKinds
<1>12. CASE Reads!DropOld
    BY <1>1, <1>3, <1>12, WindowMoves
<1> QED
    BY <1>6, <1>8, <1>9, <1>10, <1>11, <1>12

\* While the world stands still, so does what is true of it.
LEMMA WorldStands ==
    ASSUME WorldInv, CacheInv, UNCHANGED <<Reads!world, key, skipped>>
    PROVE  /\ WorldInv' /\ (UNCHANGED cache => CacheInv')
           /\ Reads!PositionEvents' = Reads!PositionEvents /\ Reads!Is({"deposit"})' = Reads!Is({"deposit"})
           /\ Reads!Registered' = Reads!Registered /\ Reads!Provable' = Reads!Provable
           /\ (EventIsGone' <=> EventIsGone)
           /\ \A s : Complete(s) => Complete(s)'
<1>0. UNCHANGED <<statusTip, height, lcTip, ops, statusOldest, sub, key, skipped>>
    BY DEF Reads!world
<1>1. Reads!PositionEvents' = Reads!PositionEvents /\ Reads!Is({"deposit"})' = Reads!Is({"deposit"})
    BY <1>0 DEF Reads!PositionEvents, Reads!Is
<1>2. Reads!Registered' = Reads!Registered /\ Reads!Provable' = Reads!Provable /\ (EventIsGone' <=> EventIsGone)
    BY <1>0, <1>1 DEF Reads!Registered, Reads!Provable, EventIsGone
<1>3. WorldInv'
    BY <1>0, <1>1 DEF WorldInv
<1>4. \A s : Complete(s) => Complete(s)'
    BY <1>0, <1>1 DEF Complete
<1>5. ASSUME UNCHANGED cache PROVE CacheInv'
  <2>1. WorldGoesOn
      BY <1>0 DEF WorldInv, WorldGoesOn
  <2> QED
      BY <1>0, <1>5, <2>1, CacheStays
<1> QED
    BY <1>1, <1>2, <1>3, <1>4, <1>5

LEMMA GotStands ==
    ASSUME WorldInv, CacheInv, UNCHANGED <<Reads!world, key, skipped>>, GotInv, UNCHANGED got
    PROVE  GotInv'
<1>1. WorldGoesOn
    BY DEF Reads!world, WorldInv, WorldGoesOn
<1> QED
    BY <1>1, GotStays

\* Nothing read yet.
LEMMA GotNothing ==
    ASSUME WorldInv, GotInv, got' = Reads!Nothing
    PROVE  GotInv'
<1>1. got'.record = FALSE /\ got'.exists = FALSE /\ got'.before = FALSE /\ got'.seen = {} /\ got'.sub = None
      /\ got'.height = None /\ got'.lcTip = None
    BY DEF Reads!Nothing
<1>2. got' = [record |-> got'.record, exists |-> got'.exists, seen |-> got'.seen, sub |-> got'.sub,
              height |-> got'.height, lcTip |-> got'.lcTip, before |-> got'.before]
    BY DEF Reads!Nothing
<1>3. Complete(got.seen)'
    BY <1>1 DEF Complete
<1> QED
    BY <1>1, <1>2, <1>3, StatusAssumption DEF GotInv

LEMMA MinOfTwo ==
    ASSUME NEW x \in Int, NEW y \in Int
    PROVE  Reads!Min({x, y}) = IF x <= y THEN x ELSE y
    BY DEF Reads!Min

\* A page of events.
LEMMA PageIsRead ==
    ASSUME StatusInv, Reads!walkPage
    PROVE  StatusInv'
<1> DEFINE last == Reads!Min({Reads!walkFrom + PAGE, Len(ops)})
           page == {i \in Reads!PositionEvents : Reads!walkFrom < i /\ i <= last}
<1>1. /\ records' = records \union page /\ statusCursor' = last
      /\ \/ last # Len(ops) /\ UNCHANGED reg
         \/ reg' = IF reg = "waiting" THEN "lookup" ELSE reg
      /\ last = Len(ops) => reg' = IF reg = "waiting" THEN "lookup" ELSE reg
      /\ UNCHANGED <<Reads!world, key, got, cache, skipped>>
    BY DEF Reads!walkPage, Reads!EndWalk
<1>2. WorldInv /\ IndexInv /\ GotInv /\ RegInv /\ CacheInv
    BY DEF StatusInv
<1>3. /\ WorldInv' /\ CacheInv' /\ GotInv'
      /\ Reads!PositionEvents' = Reads!PositionEvents /\ Reads!Is({"deposit"})' = Reads!Is({"deposit"})
      /\ (EventIsGone' <=> EventIsGone)
      /\ UNCHANGED <<statusTip, height, lcTip, ops, statusOldest, sub, key, skipped>>
    BY <1>1, <1>2, WorldStands, GotStands DEF Reads!world
<1>4. /\ Len(ops) \in Nat /\ statusOldest \in 1..(Len(ops) + 1) /\ statusCursor \in 0..Len(ops) /\ PAGE \in Nat \ {0}
      /\ Reads!PositionEvents \subseteq 1..Len(ops) /\ Reads!Is({"deposit"}) \subseteq 1..Len(ops)
  <2>1. WorldGoesOn
      BY <1>2, <1>3 DEF WorldInv, WorldGoesOn
  <2> QED
      BY <1>2, <2>1, TrueStays, StatusAssumption DEF WorldInv, IndexInv
<1>5. PICK from \in Int : from = Reads!walkFrom /\ statusCursor <= from /\ from <= Len(ops)
                       /\ (from = statusCursor \/ from = statusOldest - 1)
    BY <1>4 DEF Reads!walkFrom
<1>6. last \in 0..Len(ops) /\ from <= last /\ (last = Len(ops) \/ last = from + PAGE)
    BY <1>4, <1>5, MinOfTwo
<1>7. \A i : i \in page <=> i \in Reads!PositionEvents /\ from < i /\ i <= last
    BY <1>5
<1> HIDE DEF page, last
<1>8. IndexInv'
  <2>1. records' \subseteq Reads!PositionEvents /\ \A i \in records' : i <= last
    <3>1. \A i \in records : i \in Reads!PositionEvents /\ i <= statusCursor
        BY <1>2 DEF IndexInv
    <3>2. ASSUME NEW i \in records PROVE i <= last
      <4>1. i \in 1..Len(ops) /\ i <= statusCursor
          BY <1>4, <3>1
      <4> QED
          BY <1>4, <1>5, <1>6, <4>1
    <3> QED
        BY <1>1, <1>7, <3>1, <3>2
  <2>2. ASSUME NEW i \in Reads!PositionEvents, i <= last \/ i < statusOldest
        PROVE  i \in records' \/ i \in skipped
    <3>1. i \in 1..Len(ops)
        BY <1>4
    <3>2. CASE i <= statusCursor \/ i < statusOldest
        BY <1>1, <1>2, <3>2 DEF IndexInv
    <3>3. CASE ~(i <= statusCursor \/ i < statusOldest)
      <4>1. from < i /\ i <= last
          BY <1>4, <1>5, <2>2, <3>1, <3>3
      <4> QED
          BY <1>1, <1>7, <4>1
    <3> QED
        BY <3>2, <3>3
  <2> QED
      BY <1>1, <1>2, <1>3, <1>6, <2>1, <2>2 DEF IndexInv
<1>9. key # "timeline" => last = Len(ops)
  <2>1. key # "timeline" => Len(ops) <= 1
    <3>1. key # "timeline" /\ Len(ops) > 1 => 1 \in Reads!Is({"deposit"}) /\ 2 \in Reads!Is({"deposit"})
        BY <1>2, <1>4 DEF WorldInv
    <3> QED
        BY <1>2, <1>4, <3>1 DEF WorldInv
  <2> QED
      BY <1>4, <1>5, <1>6, <2>1
<1>10. RegInv'
  <2>1. got' = got /\ reg' \in {reg, "lookup"} /\ (reg' = reg \/ reg = "waiting") /\ key' = key
      BY <1>1
  <2>2. reg' = "lookup" /\ got.exists => \A i \in Reads!Is({"deposit"}) : i <= statusCursor'
    <3>1. ASSUME reg' = "lookup", got.exists PROVE last = Len(ops)
        BY <1>2, <1>9, <2>1, <3>1 DEF RegInv
    <3> QED
        BY <1>1, <1>4, <3>1
  <2> QED
      BY <1>2, <1>3, <2>1, <2>2 DEF RegInv
<1> QED
    BY <1>3, <1>8, <1>10 DEF StatusInv

\* The refreshes of the index.
LEMMA IndexSteps ==
    ASSUME StatusInv,
           \/ Reads!startWalk \/ Reads!joinWalk \/ Reads!OtherCaller \/ Reads!walkFails \/ Reads!freshForMsPasses
    PROVE  StatusInv'
<1>1. WorldInv /\ IndexInv /\ GotInv /\ RegInv /\ CacheInv
    BY DEF StatusInv
<1>2. UNCHANGED <<Reads!world, key, skipped, cache, records, statusCursor>>
    BY DEF Reads!startWalk, Reads!joinWalk, Reads!OtherCaller, Reads!walkFails, Reads!freshForMsPasses, Reads!index
<1>3. /\ WorldInv' /\ CacheInv'
      /\ Reads!PositionEvents' = Reads!PositionEvents /\ Reads!Is({"deposit"})' = Reads!Is({"deposit"})
      /\ (EventIsGone' <=> EventIsGone)
      /\ UNCHANGED <<statusTip, height, lcTip, ops, statusOldest, sub, key, skipped>>
    BY <1>1, <1>2, WorldStands DEF Reads!world
<1>4. IndexInv'
    BY <1>1, <1>2, <1>3 DEF IndexInv
<1>5. \/ got' = got /\ reg' = reg
      \/ got' = got /\ reg \in {"refresh", "force"} /\ reg' = "waiting"
      \/ got' = Reads!Nothing /\ reg' = "idle"
    BY DEF Reads!startWalk, Reads!joinWalk, Reads!OtherCaller, Reads!walkFails, Reads!freshForMsPasses,
           Reads!index, Reads!EndWalk
<1>6. GotInv'
    BY <1>1, <1>2, <1>5, GotStands, GotNothing
<1>7. RegInv'
  <2>1. CASE got' = got /\ reg' = reg
      BY <1>1, <1>2, <1>3, <2>1 DEF RegInv
  <2>2. CASE got' = got /\ reg \in {"refresh", "force"} /\ reg' = "waiting"
      BY <1>1, <1>3, <2>2 DEF RegInv
  <2>3. CASE got' = Reads!Nothing /\ reg' = "idle"
      BY <2>3 DEF RegInv
  <2> QED
      BY <1>5, <2>1, <2>2, <2>3
<1> QED
    BY <1>3, <1>4, <1>6, <1>7 DEF StatusInv

\* The routes read; they change neither the chains nor the index.
LEMMA RoutesOnlyRead ==
    ASSUME StatusInv, UNCHANGED <<Reads!world, Reads!index, key, skipped>>
    PROVE  /\ WorldInv' /\ IndexInv' /\ (UNCHANGED cache => CacheInv')
           /\ (EventIsGone' <=> EventIsGone) /\ Reads!Registered' = Reads!Registered
           /\ Reads!PositionEvents' = Reads!PositionEvents /\ Reads!Is({"deposit"})' = Reads!Is({"deposit"})
           /\ \A s : Complete(s) => Complete(s)'
           /\ Reads!Provable' = Reads!Provable
           /\ UNCHANGED <<statusTip, height, lcTip, ops, statusOldest, sub, records, statusCursor>>
<1>1. /\ WorldInv' /\ (UNCHANGED cache => CacheInv')
      /\ (EventIsGone' <=> EventIsGone) /\ Reads!Registered' = Reads!Registered
      /\ Reads!PositionEvents' = Reads!PositionEvents /\ Reads!Is({"deposit"})' = Reads!Is({"deposit"})
      /\ \A s : Complete(s) => Complete(s)'
      /\ Reads!Provable' = Reads!Provable
    BY WorldStands DEF StatusInv
<1>2. UNCHANGED <<statusTip, height, lcTip, ops, statusOldest, sub, records, statusCursor>>
    BY DEF Reads!world, Reads!index
<1>3. IndexInv'
    BY <1>1, <1>2 DEF IndexInv, StatusInv
<1> QED
    BY <1>1, <1>2, <1>3

\* A request comes in, or its window passes.
LEMMA RequestComes ==
    ASSUME StatusInv, Reads!Request \/ Reads!WindowPasses
    PROVE  StatusInv'
<1>1. UNCHANGED <<Reads!world, Reads!index, key, skipped, cache>>
    BY DEF Reads!Request, Reads!WindowPasses
<1>2. /\ WorldInv' /\ IndexInv' /\ CacheInv'
      /\ (EventIsGone' <=> EventIsGone) /\ Reads!Registered' = Reads!Registered
      /\ Reads!Is({"deposit"})' = Reads!Is({"deposit"})
      /\ UNCHANGED <<statusTip, height, lcTip, ops, statusOldest, sub, records, statusCursor>>
    BY <1>1, RoutesOnlyRead
<1>3. CASE Reads!Request
  <2>1. /\ got' = [record |-> FALSE, exists |-> FALSE, seen |-> {}, sub |-> None, height |-> None,
                   lcTip |-> None, before |-> Reads!Registered]
        /\ reg' = "refresh"
      BY <1>3 DEF Reads!Request, Reads!Nothing
  <2>2. Complete(got.seen)'
      BY <2>1 DEF Complete
  <2>3. /\ got'.record = FALSE /\ got'.exists = FALSE /\ got'.before = Reads!Registered /\ got'.seen = {}
        /\ got'.sub = None /\ got'.height = None /\ got'.lcTip = None
      BY <2>1
  <2>4. GotInv'
    <3>1. got' = [record |-> got'.record, exists |-> got'.exists, seen |-> got'.seen, sub |-> got'.sub,
                  height |-> got'.height, lcTip |-> got'.lcTip, before |-> got'.before]
        BY <2>1
    <3> QED
        BY <1>2, <2>2, <2>3, <3>1, StatusAssumption DEF GotInv
  <2>5. RegInv'
      BY <2>1, <2>3 DEF RegInv
  <2> QED
      BY <1>2, <2>4, <2>5 DEF StatusInv
<1>4. CASE Reads!WindowPasses
  <2>1. got' = got /\ reg' = reg
      BY <1>4 DEF Reads!WindowPasses
  <2>2. GotInv'
      BY <1>1, <2>1, GotStands DEF StatusInv
  <2>3. RegInv'
      BY <1>1, <1>2, <2>1 DEF RegInv, StatusInv
  <2> QED
      BY <1>2, <2>2, <2>3 DEF StatusInv
<1> QED
    BY <1>3, <1>4

\* history(): what the index holds is complete.
LEMMA LookupReads ==
    ASSUME StatusInv, Reads!lookup
    PROVE  StatusInv'
<1>1. /\ UNCHANGED <<Reads!world, Reads!index, key, skipped, cache>>
      /\ reg = "lookup" \/ reg = "refresh"
      /\ got' = [got EXCEPT !.record = Reads!Indexed, !.seen = IF key = "timeline" THEN records ELSE {}]
      /\ reg' = IF (Reads!Indexed /\ key # "timeline") \/ got.exists THEN "read" ELSE "exists"
    BY DEF Reads!lookup, Reads!Read, Reads!Reads
<1>2. /\ WorldInv' /\ IndexInv' /\ CacheInv'
      /\ (EventIsGone' <=> EventIsGone) /\ Reads!Registered' = Reads!Registered
      /\ Reads!PositionEvents' = Reads!PositionEvents /\ Reads!Is({"deposit"})' = Reads!Is({"deposit"})
      /\ \A s : Complete(s) => Complete(s)'
      /\ UNCHANGED <<statusTip, height, lcTip, ops, statusOldest, sub, records, statusCursor>>
    BY <1>1, RoutesOnlyRead
<1>3. WorldInv /\ IndexInv /\ GotInv /\ RegInv
    BY DEF StatusInv
<1>4. got' = [record |-> Reads!Indexed, exists |-> got.exists, seen |-> IF key = "timeline" THEN records ELSE {},
              sub |-> got.sub, height |-> got.height, lcTip |-> got.lcTip, before |-> got.before]
    BY <1>1, <1>3 DEF GotInv
<1>5. /\ got'.record = Reads!Indexed /\ got'.exists = got.exists /\ got'.before = got.before
      /\ got'.seen = (IF key = "timeline" THEN records ELSE {})
      /\ got'.sub = got.sub /\ got'.height = got.height /\ got'.lcTip = got.lcTip
    BY <1>4
<1>6. Reads!Indexed => Reads!Registered /\ records # {}
  <2>1. ASSUME NEW i \in records, ops[i] = "deposit" PROVE i \in Reads!Is({"deposit"})
      BY <1>3, <2>1 DEF IndexInv, Reads!PositionEvents, Reads!Is
  <2> QED
      BY <2>1 DEF Reads!Indexed, Reads!Registered
<1>7. Complete(records) /\ Complete({})
  <2>1. ASSUME NEW j \in records, NEW i \in Reads!PositionEvents, i <= j PROVE i \in records \/ i \in skipped
    <3>1. j \in Int /\ i \in Int /\ j <= statusCursor /\ statusCursor \in Int
        BY <1>3 DEF IndexInv, Reads!PositionEvents, Reads!Is, WorldInv
    <3>2. i <= statusCursor
        BY <2>1, <3>1
    <3> QED
        BY <1>3, <3>2 DEF IndexInv
  <2> QED
      BY <2>1 DEF Complete
<1>8. GotInv'
  <2>1. got' = [record |-> got'.record, exists |-> got'.exists, seen |-> got'.seen, sub |-> got'.sub,
                height |-> got'.height, lcTip |-> got'.lcTip, before |-> got'.before]
      BY <1>4
  <2>2. got'.seen \subseteq Reads!PositionEvents /\ Complete(got.seen)'
    <3>1. CASE key = "timeline"
      <4>1. got'.seen = records
          BY <1>5, <3>1
      <4> QED
          BY <1>2, <1>3, <1>7, <4>1 DEF IndexInv, Complete
    <3>2. CASE key # "timeline"
      <4>1. got'.seen = {}
          BY <1>5, <3>2
      <4> QED
          BY <4>1 DEF Complete
    <3> QED
        BY <3>1, <3>2
  <2>3. got'.record \/ got'.exists \/ got'.before => Reads!Registered
      BY <1>3, <1>5, <1>6 DEF GotInv
  <2>4. got'.record /\ key = "timeline" => got'.seen # {}
      BY <1>5, <1>6
  <2>5. /\ got'.sub = "failed" => sub = "failed"
        /\ got'.height \notin {None, Unknown} => got'.height \in Int /\ (got'.height > 0 => height = got'.height)
      BY <1>3, <1>5 DEF GotInv
  <2> QED
      BY <1>1, <1>2, <2>1, <2>2, <2>3, <2>4, <2>5 DEF GotInv
<1>9. got.exists /\ ~Reads!Indexed => EventIsGone
  <2>1. ASSUME got.exists, ~Reads!Indexed PROVE EventIsGone
    <3>1. PICK i \in Reads!Is({"deposit"}) : TRUE
        BY <1>3, <2>1 DEF GotInv, Reads!Registered
    <3>2. i <= statusCursor
        BY <1>1, <1>3, <2>1 DEF RegInv
    <3>3. i \in Reads!PositionEvents /\ ops[i] = "deposit"
        BY DEF Reads!PositionEvents, Reads!Is
    <3>4. i \notin records
        BY <2>1, <3>3 DEF Reads!Indexed
    <3>5. i < statusOldest
        BY <1>3, <3>2, <3>3, <3>4 DEF IndexInv
    <3> QED
        BY <3>5 DEF EventIsGone
  <2> QED
      BY <2>1
<1>10. RegInv'
  <2>1. CASE (Reads!Indexed /\ key # "timeline") \/ got.exists
    <3>1. reg' = "read"
        BY <1>1, <2>1
    <3> QED
        BY <1>2, <1>5, <1>9, <2>1, <3>1 DEF RegInv
  <2>2. CASE ~((Reads!Indexed /\ key # "timeline") \/ got.exists)
    <3>1. reg' = "exists"
        BY <1>1, <2>2
    <3> QED
        BY <1>5, <2>2, <3>1 DEF RegInv
  <2> QED
      BY <2>1, <2>2
<1> QED
    BY <1>2, <1>8, <1>10 DEF StatusInv

\* positionExists() reads Stellar after the index.
LEMMA ExistsReads ==
    ASSUME StatusInv, Reads!positionExists
    PROVE  StatusInv'
<1>1. /\ UNCHANGED <<Reads!world, Reads!index, key, skipped, cache>> /\ reg = "exists"
      /\ got' = [got EXCEPT !.exists = Reads!Registered]
      /\ reg' = IF key # "timeline" /\ Reads!Registered THEN "force" ELSE "read"
    BY DEF Reads!positionExists, Reads!needsForce, Reads!Read, Reads!Reads
<1>2. /\ WorldInv' /\ IndexInv' /\ CacheInv' /\ Reads!Registered' = Reads!Registered
      /\ Reads!PositionEvents' = Reads!PositionEvents
      /\ \A s : Complete(s) => Complete(s)'
      /\ UNCHANGED <<statusTip, height, lcTip, ops, statusOldest, sub, records, statusCursor>>
    BY <1>1, RoutesOnlyRead
<1>3. GotInv /\ RegInv
    BY DEF StatusInv
<1>4. got' = [record |-> got.record, exists |-> Reads!Registered, seen |-> got.seen, sub |-> got.sub,
              height |-> got.height, lcTip |-> got.lcTip, before |-> got.before]
    BY <1>1, <1>3 DEF GotInv
<1>5. /\ got'.record = got.record /\ got'.exists = Reads!Registered /\ got'.before = got.before
      /\ got'.seen = got.seen /\ got'.sub = got.sub /\ got'.height = got.height /\ got'.lcTip = got.lcTip
      /\ got' = [record |-> got'.record, exists |-> got'.exists, seen |-> got'.seen, sub |-> got'.sub,
                 height |-> got'.height, lcTip |-> got'.lcTip, before |-> got'.before]
    BY <1>4
<1>6. Complete(got.seen)'
    BY <1>2, <1>3, <1>5 DEF GotInv, Complete
<1>7. GotInv'
    BY <1>1, <1>2, <1>3, <1>5, <1>6 DEF GotInv
<1>8. RegInv'
  <2>1. CASE key # "timeline" /\ Reads!Registered
    <3>1. reg' = "force" /\ key' # "timeline"
        BY <1>1, <2>1
    <3> QED
        BY <3>1 DEF RegInv
  <2>2. CASE ~(key # "timeline" /\ Reads!Registered)
    <3>1. reg' = "read" /\ key' = key
        BY <1>1, <2>2
    <3> QED
        BY <1>3, <1>5, <2>2, <3>1 DEF RegInv, GotInv
  <2> QED
      BY <2>1, <2>2
<1> QED
    BY <1>2, <1>7, <1>8 DEF StatusInv

\* checkDepositSubmission and Bitcoin are read alongside.
LEMMA AlongsideReads ==
    ASSUME StatusInv, Reads!readSubmission \/ Reads!readBitcoin
    PROVE  StatusInv'
<1>1. /\ UNCHANGED <<Reads!world, Reads!index, key, skipped, cache, reg>> /\ reg # "answer"
      /\ \/ got' = [got EXCEPT !.sub = IF sub \in {"success", "failed"} THEN sub ELSE "not_found"]
         \/ got' = [got EXCEPT !.height = height]
         \/ got' = [got EXCEPT !.height = Unknown]
    BY DEF Reads!readSubmission, Reads!readBitcoin, Reads!Computing, Reads!Read, Reads!Reads
<1>2. /\ WorldInv' /\ IndexInv' /\ CacheInv' /\ Reads!Registered' = Reads!Registered
      /\ (EventIsGone' <=> EventIsGone)
      /\ Reads!PositionEvents' = Reads!PositionEvents /\ Reads!Is({"deposit"})' = Reads!Is({"deposit"})
      /\ \A s : Complete(s) => Complete(s)'
      /\ UNCHANGED <<statusTip, height, lcTip, ops, statusOldest, sub, records, statusCursor>>
    BY <1>1, RoutesOnlyRead
<1>3. GotInv /\ RegInv /\ WorldInv
    BY DEF StatusInv
<1>4. PICK s, h : /\ got' = [record |-> got.record, exists |-> got.exists, seen |-> got.seen, sub |-> s,
                             height |-> h, lcTip |-> got.lcTip, before |-> got.before]
                  /\ s = got.sub \/ s = sub \/ s = "not_found"
                  /\ h = got.height \/ h = height \/ h = Unknown
    BY <1>1, <1>3 DEF GotInv
<1>5. /\ got'.record = got.record /\ got'.exists = got.exists /\ got'.before = got.before
      /\ got'.seen = got.seen /\ got'.sub = s /\ got'.height = h /\ got'.lcTip = got.lcTip
      /\ got' = [record |-> got'.record, exists |-> got'.exists, seen |-> got'.seen, sub |-> got'.sub,
                 height |-> got'.height, lcTip |-> got'.lcTip, before |-> got'.before]
    BY <1>4
<1>6. /\ Complete(got.seen)'
      /\ s = "failed" => sub = "failed"
      /\ h \notin {None, Unknown} => h \in Int /\ (h > 0 => height = h)
    BY <1>2, <1>3, <1>4, <1>5 DEF GotInv, Complete, WorldInv
<1>7. GotInv'
    BY <1>1, <1>2, <1>3, <1>5, <1>6 DEF GotInv
<1>8. RegInv'
    BY <1>1, <1>2, <1>3, <1>5 DEF RegInv
<1> QED
    BY <1>2, <1>7, <1>8 DEF StatusInv

\* The light client is asked last.
LEMMA TipReads ==
    ASSUME StatusInv, Reads!lightClientTip
    PROVE  StatusInv'
<1>1. /\ UNCHANGED <<Reads!world, Reads!index, key, skipped, cache>>
      /\ reg = "read" /\ reg' = "answer" /\ key # "timeline" /\ got.height # None
      /\ \/ got' = [got EXCEPT !.lcTip = None] \/ got' = [got EXCEPT !.lcTip = Unknown]
         \/ got.height # Unknown /\ got.height > 0 /\ got' = [got EXCEPT !.lcTip = lcTip]
    BY DEF Reads!lightClientTip, Reads!Settled, Reads!Read, Reads!Reads
<1>2. /\ WorldInv' /\ IndexInv' /\ CacheInv' /\ Reads!Registered' = Reads!Registered
      /\ (EventIsGone' <=> EventIsGone)
      /\ Reads!PositionEvents' = Reads!PositionEvents /\ Reads!Is({"deposit"})' = Reads!Is({"deposit"})
      /\ \A s : Complete(s) => Complete(s)'
      /\ UNCHANGED <<statusTip, height, lcTip, ops, statusOldest, sub, records, statusCursor>>
    BY <1>1, RoutesOnlyRead
<1>3. GotInv /\ RegInv /\ WorldInv
    BY DEF StatusInv
<1>4. PICK n : /\ got' = [record |-> got.record, exists |-> got.exists, seen |-> got.seen, sub |-> got.sub,
                          height |-> got.height, lcTip |-> n, before |-> got.before]
               /\ n \in {None, Unknown} \/ (n = lcTip /\ got.height # Unknown /\ got.height > 0)
    BY <1>1, <1>3 DEF GotInv
<1>5. /\ got'.record = got.record /\ got'.exists = got.exists /\ got'.before = got.before
      /\ got'.seen = got.seen /\ got'.sub = got.sub /\ got'.height = got.height /\ got'.lcTip = n
      /\ got' = [record |-> got'.record, exists |-> got'.exists, seen |-> got'.seen, sub |-> got'.sub,
                 height |-> got'.height, lcTip |-> got'.lcTip, before |-> got'.before]
    BY <1>4
<1>6. Complete(got.seen)'
    BY <1>2, <1>3, <1>5 DEF GotInv, Complete
<1>7. GotInv'
    BY <1>1, <1>2, <1>3, <1>5, <1>6 DEF GotInv
<1>8. n \notin {None, Unknown} =>
        n \in Int /\ n <= lcTip /\ got.height \in Int /\ got.height > 0 /\ height = got.height
    BY <1>1, <1>3, <1>4 DEF GotInv, WorldInv
<1>9. RegInv'
    BY <1>1, <1>2, <1>3, <1>5, <1>8 DEF RegInv
<1> QED
    BY <1>2, <1>7, <1>9 DEF StatusInv

\* computeStatus in words.
LEMMA StageIs ==
    /\ Reads!stage(got) = "verified" => got.record \/ got.exists
    /\ Reads!stage(got) = "failed" => got.sub = "failed" /\ ~(got.record \/ got.exists)
    /\ Reads!stage(got) = "ready" => Reads!proofReady(got)
    BY DEF Reads!stage, Reads!IsRegistered

\* The answer of the status route.
LEMMA StatusAnswers ==
    ASSUME StatusInv, Reads!AnswerStatus
    PROVE  StatusInv'
<1>1. /\ UNCHANGED <<Reads!world, Reads!index, key, skipped>> /\ reg = "answer" /\ reg' = "idle"
      /\ got' = Reads!Nothing
      /\ cache' = IF Reads!stage(got) = "error" THEN None
                  ELSE [stage |-> Reads!stage(got), hash |-> got.record \/ (got.exists /\ got.sub = "success"),
                        tipKnown |-> got.lcTip # Unknown, before |-> got.before]
    BY DEF Reads!AnswerStatus, Reads!Answer
<1>2. /\ WorldInv' /\ IndexInv' /\ Reads!Registered' = Reads!Registered
      /\ (EventIsGone' <=> EventIsGone) /\ Reads!Provable' = Reads!Provable
      /\ UNCHANGED <<statusTip, height, lcTip, ops, statusOldest, sub, records, statusCursor>>
    BY <1>1, RoutesOnlyRead
<1>3. GotInv /\ RegInv /\ WorldInv /\ CacheInv
    BY DEF StatusInv
<1>4. GotInv'
    BY <1>1, <1>3, GotNothing
<1>5. RegInv'
    BY <1>1 DEF RegInv, Reads!Nothing
<1>6. key # "timeline"
    BY <1>1, <1>3 DEF RegInv
<1>7. ASSUME cache' # None
      PROVE  /\ cache'.stage = "verified" => Reads!Registered
             /\ cache'.stage = "verified" /\ ~cache'.hash => EventIsGone
             /\ cache'.stage = "failed" => sub = "failed" /\ ~cache'.before
             /\ cache'.stage = "ready" /\ cache'.tipKnown => Reads!Provable
  <2>1. /\ cache'.stage = Reads!stage(got) /\ cache'.hash = (got.record \/ (got.exists /\ got.sub = "success"))
        /\ cache'.tipKnown = (got.lcTip # Unknown) /\ cache'.before = got.before
      BY <1>1, <1>7
  <2>2. cache'.stage = "verified" => Reads!Registered
      BY <1>3, <2>1, StageIs DEF GotInv
  <2>3. cache'.stage = "verified" /\ ~cache'.hash => EventIsGone
      BY <1>1, <1>3, <1>6, <2>1, StageIs DEF RegInv
  <2>4. cache'.stage = "failed" => sub = "failed" /\ ~cache'.before
      BY <1>1, <1>3, <2>1, StageIs DEF RegInv, GotInv
  <2>5. cache'.stage = "ready" /\ cache'.tipKnown => Reads!Provable
    <3>1. ASSUME Reads!proofReady(got), got.lcTip # Unknown PROVE Reads!Provable
      <4>1. /\ got.lcTip \in Int /\ got.lcTip <= lcTip /\ got.height \in Int /\ got.height > 0 /\ height = got.height
            /\ got.lcTip >= got.height + required - 1
          BY <1>1, <1>3, <3>1 DEF RegInv, Reads!proofReady
      <4> QED
          BY <1>3, <4>1, StatusAssumption DEF Reads!Provable, WorldInv
    <3> QED
        BY <2>1, <3>1, StageIs
  <2> QED
      BY <2>2, <2>3, <2>4, <2>5
<1>8. CacheInv'
    BY <1>1, <1>2, <1>6, <1>7 DEF CacheInv
<1> QED
    BY <1>2, <1>4, <1>5, <1>8 DEF StatusInv

\* attributeReceiveLegs: a leg follows the borrow that it belongs to.
LEMMA LegsFollowBorrows ==
    ASSUME WorldInv, NEW borrows, NEW leg \in Reads!attributeReceiveLegs(borrows)
    PROVE  \E d \in borrows : d < leg
<1> DEFINE acts == {j \in Reads!Is({"borrow", "elsewhere", "repay"}) : j < leg}
<1>1. leg \in Reads!Is({"burn"}) /\ acts # {} /\ Reads!Max(acts) \in borrows
    BY DEF Reads!attributeReceiveLegs
<1>2. leg \in Int /\ acts \in SUBSET Int /\ \A x \in acts : x <= leg /\ x < leg
    BY <1>1 DEF Reads!Is, WorldInv
<1> HIDE DEF acts
<1>3. Max(acts) \in acts
    BY <1>1, <1>2, MaxIs
<1>4. Reads!Max(acts) = Max(acts)
    BY DEF Reads!Max, Max
<1> QED
    BY <1>1, <1>2, <1>3, <1>4

\* The answer of the timeline.
LEMMA TimelineAnswers ==
    ASSUME StatusInv, Reads!AnswerTimeline
    PROVE  StatusInv'
<1> DEFINE borrows == {i \in got.seen : ops[i] = "borrow"}
<1>1. /\ UNCHANGED <<Reads!world, Reads!index, key, skipped>> /\ key = "timeline" /\ reg' = "idle"
      /\ got' = Reads!Nothing
      /\ \/ cache' = None
         \/ /\ cache'.events = got.seen /\ (cache'.complete => got.record)
            /\ cache'.legs = {} \/ cache'.legs = Reads!attributeReceiveLegs(borrows)
  <2> DEFINE timeline(horizonRead) ==
                [events |-> got.seen, legs |-> IF horizonRead THEN Reads!attributeReceiveLegs(borrows) ELSE {},
                 complete |-> got.record /\ got.height # Unknown /\ (horizonRead \/ borrows = {})]
  <2>1. /\ key = "timeline"
        /\ Reads!Answer(None) \/ Reads!Answer(timeline(TRUE)) \/ Reads!Answer(timeline(FALSE))
      BY DEF Reads!AnswerTimeline
  <2>2. \A h \in BOOLEAN :
           /\ timeline(h).events = got.seen /\ (timeline(h).complete => got.record)
           /\ timeline(h).legs = {} \/ timeline(h).legs = Reads!attributeReceiveLegs(borrows)
      OBVIOUS
  <2> HIDE DEF timeline, borrows
  <2> QED
      BY <2>1, <2>2 DEF Reads!Answer
<1>2. /\ WorldInv' /\ IndexInv' /\ Reads!PositionEvents' = Reads!PositionEvents
      /\ \A s : Complete(s) => Complete(s)'
      /\ UNCHANGED <<statusTip, height, lcTip, ops, statusOldest, sub, records, statusCursor>>
    BY <1>1, RoutesOnlyRead
<1>3. GotInv /\ RegInv /\ WorldInv
    BY DEF StatusInv
<1>4. GotInv'
    BY <1>1, <1>3, GotNothing
<1>5. RegInv'
    BY <1>1 DEF RegInv, Reads!Nothing
<1>6. ASSUME cache' # None
      PROVE  /\ cache'.events \subseteq Reads!PositionEvents /\ Complete(cache.events)'
             /\ cache'.complete => cache'.events # {}
             /\ \A leg \in cache'.legs : \E d \in cache'.events : d < leg /\ ops[d] = "borrow"
  <2>1. /\ cache'.events = got.seen /\ (cache'.complete => got.record)
        /\ cache'.legs = {} \/ cache'.legs = Reads!attributeReceiveLegs(borrows)
      BY <1>1, <1>6
  <2>2. Complete(cache.events)'
    <3>1. PICK s : s = got.seen
        OBVIOUS
    <3>2. Complete(s)'
        BY <1>2, <1>3, <3>1 DEF GotInv
    <3> QED
        BY <2>1, <3>1, <3>2 DEF Complete
  <2>3. ASSUME NEW leg \in cache'.legs PROVE \E d \in cache'.events : d < leg /\ ops[d] = "borrow"
    <3>1. leg \in Reads!attributeReceiveLegs(borrows)
        BY <2>1
    <3>2. PICK d \in borrows : d < leg
        BY <1>3, <3>1, LegsFollowBorrows
    <3> QED
        BY <2>1, <3>2
  <2>4. cache'.events \subseteq Reads!PositionEvents /\ (cache'.complete => cache'.events # {})
      BY <1>1, <1>3, <2>1 DEF GotInv
  <2> QED
      BY <2>2, <2>3, <2>4
<1>7. CacheInv'
    BY <1>1, <1>2, <1>6 DEF CacheInv
<1> QED
    BY <1>2, <1>4, <1>5, <1>7 DEF StatusInv

\* An answer expires.
LEMMA AnswerExpires ==
    ASSUME StatusInv, Reads!CacheExpires
    PROVE  StatusInv'
<1>1. UNCHANGED <<Reads!world, Reads!index, key, skipped, got, reg>> /\ cache' = None
    BY DEF Reads!CacheExpires
<1>2. /\ WorldInv' /\ IndexInv' /\ (EventIsGone' <=> EventIsGone)
      /\ Reads!Is({"deposit"})' = Reads!Is({"deposit"})
      /\ UNCHANGED <<statusTip, height, lcTip, ops, statusOldest, sub, records, statusCursor>>
    BY <1>1, RoutesOnlyRead
<1>3. GotInv'
    BY <1>1, GotStands DEF StatusInv
<1>4. RegInv'
    BY <1>1, <1>2 DEF RegInv, StatusInv
<1>5. CacheInv'
    BY <1>1 DEF CacheInv
<1> QED
    BY <1>2, <1>3, <1>4, <1>5 DEF StatusInv

\* A restart forgets the index: what left the window before it is never seen.
LEMMA IndexIsForgotten ==
    ASSUME StatusInv, Reads!Restart
    PROVE  StatusInv'
<1>1. /\ UNCHANGED <<Reads!world, key>> /\ records' = {} /\ statusCursor' = 0
      /\ reg' = "idle" /\ got' = Reads!Nothing /\ cache' = None
      /\ skipped' = {i \in Reads!PositionEvents : i < statusOldest}
    BY DEF Reads!Restart
<1>2. UNCHANGED <<statusTip, height, lcTip, ops, statusOldest, sub, key>>
    BY <1>1 DEF Reads!world
<1>3. Reads!PositionEvents' = Reads!PositionEvents /\ Reads!Is({"deposit"})' = Reads!Is({"deposit"})
    BY <1>2 DEF Reads!PositionEvents, Reads!Is
<1>4. WorldInv /\ IndexInv
    BY DEF StatusInv
<1>5. WorldInv'
    BY <1>2, <1>3, <1>4 DEF WorldInv
<1>6. IndexInv'
  <2>1. \A i \in Reads!PositionEvents : i \in Int /\ i >= 1
      BY <1>4 DEF Reads!PositionEvents, Reads!Is, WorldInv
  <2>2. 0 \in 0..Len(ops)
      BY <1>4 DEF WorldInv
  <2> QED
      BY <1>1, <1>2, <1>3, <1>4, <2>1, <2>2 DEF IndexInv
<1>7. GotInv'
  <2>1. /\ got'.record = FALSE /\ got'.exists = FALSE /\ got'.before = FALSE /\ got'.seen = {} /\ got'.sub = None
        /\ got'.height = None
        /\ got' = [record |-> got'.record, exists |-> got'.exists, seen |-> got'.seen, sub |-> got'.sub,
                   height |-> got'.height, lcTip |-> got'.lcTip, before |-> got'.before]
      BY <1>1 DEF Reads!Nothing
  <2>2. Complete(got.seen)'
      BY <2>1 DEF Complete
  <2> QED
      BY <2>1, <2>2, StatusAssumption DEF GotInv
<1>8. RegInv' /\ CacheInv'
    BY <1>1 DEF RegInv, CacheInv, Reads!Nothing
<1> QED
    BY <1>5, <1>6, <1>7, <1>8 DEF StatusInv

LEMMA StatusStart == Reads!Init => StatusInv
<1> SUFFICES ASSUME Reads!Init PROVE StatusInv
    OBVIOUS
<1>1. /\ statusTip = 0 /\ height = -1 /\ lcTip = 0 /\ ops = <<>> /\ statusOldest = 1
      /\ records = {} /\ statusCursor = 0 /\ reg = "idle" /\ got = Reads!Nothing /\ cache = None /\ skipped = {}
    BY DEF Reads!Init
<1>2. Reads!PositionEvents = {} /\ Reads!Is({"deposit"}) = {} /\ DOMAIN ops = {} /\ Len(ops) = 0
    BY <1>1 DEF Reads!PositionEvents, Reads!Is
<1>3. WorldInv
    BY <1>1, <1>2, StatusAssumption DEF WorldInv
<1>4. IndexInv
    BY <1>1, <1>2 DEF IndexInv
<1>5. GotInv
  <2>1. /\ got.record = FALSE /\ got.exists = FALSE /\ got.before = FALSE /\ got.seen = {} /\ got.sub = None
        /\ got.height = None
        /\ got = [record |-> got.record, exists |-> got.exists, seen |-> got.seen, sub |-> got.sub,
                  height |-> got.height, lcTip |-> got.lcTip, before |-> got.before]
      BY <1>1 DEF Reads!Nothing
  <2> QED
      BY <1>2, <2>1, StatusAssumption DEF GotInv, Complete
<1>6. RegInv /\ CacheInv
    BY <1>1 DEF RegInv, CacheInv, Reads!Nothing
<1> QED
    BY <1>3, <1>4, <1>5, <1>6 DEF StatusInv

\* What the run's property says follows from the invariant.
LEMMA StatusInvIsEnough == StatusInv => Reads!StatusIsTruthful /\ Reads!IndexMissesOnlySkipped
<1> SUFFICES ASSUME StatusInv PROVE Reads!StatusIsTruthful /\ Reads!IndexMissesOnlySkipped
    OBVIOUS
<1>1. WorldInv /\ IndexInv /\ CacheInv
    BY DEF StatusInv
<1>2. Reads!StatusIsTruthful
    BY <1>1 DEF CacheInv, EventIsGone, Reads!StatusIsTruthful
<1>3. \A i \in Reads!PositionEvents : i <= statusCursor => i \in records \/ i \in skipped
    BY <1>1 DEF IndexInv
<1>4. ASSUME cache # None, key = "timeline", cache.complete, NEW i \in Reads!PositionEvents,
             i <= Reads!Max(cache.events)
      PROVE  i \in cache.events \/ i \in skipped
  <2>1. PICK s : s = cache.events
      OBVIOUS
  <2>2. s # {} /\ s \subseteq Reads!PositionEvents /\ Complete(s)
      BY <1>1, <1>4, <2>1 DEF CacheInv
  <2>3. Len(ops) \in Int /\ s \in SUBSET Int /\ \A x \in s : x <= Len(ops)
      BY <1>1, <2>2 DEF Reads!PositionEvents, Reads!Is, WorldInv
  <2>4. Max(s) \in s
      BY <2>2, <2>3, MaxIs
  <2>5. Reads!Max(s) = Max(s)
      BY DEF Reads!Max, Max
  <2> QED
      BY <1>4, <2>1, <2>2, <2>4, <2>5 DEF Complete
<1>5. cache # None /\ key = "timeline" => \A leg \in cache.legs : \E d \in cache.events : d < leg /\ ops[d] = "borrow"
    BY <1>1 DEF CacheInv
<1>6. Reads!IndexMissesOnlySkipped
    BY <1>3, <1>4, <1>5 DEF Reads!IndexMissesOnlySkipped
<1> QED
    BY <1>2, <1>6

LEMMA StatusGoesOn ==
    ASSUME StatusInv, Reads!Next
    PROVE  StatusInv'
    BY WorldMoves, PageIsRead, IndexSteps, RequestComes, LookupReads, ExistsReads, AlongsideReads, TipReads,
       StatusAnswers, TimelineAnswers, AnswerExpires, IndexIsForgotten DEF Reads!Next

\* routes/deposit-status.ts and timeline.ts: what an answer says of the deposit was
\* true on chain when it was put together, however the chains, the index's walks,
\* the reads and the RPC's window interleave, and a timeline called complete has no
\* hole but for what left the window unseen.
THEOREM StatusStaysTruthful == MCSpec => []StatusIsTruthful
<1> DEFINE Inv == part = "status" => StatusInv
<1>1. MCInit => Inv
    BY StatusStart DEF MCInit
<1>2. Inv /\ [MCNext]_all => Inv'
  <2> SUFFICES ASSUME Inv, [MCNext]_all PROVE Inv'
      OBVIOUS
  <2>1. CASE ReadsNext
      BY <2>1, StatusGoesOn DEF ReadsNext
  <2>2. CASE UNCHANGED <<part, readsVars>>
    <3>1. /\ part' = part
          /\ UNCHANGED <<statusTip, height, lcTip, ops, statusOldest, sub, records, statusCursor,
                         fresh, walk, key, reg, got, firstSeen, cache, skipped, statusFaults>>
        BY <2>2 DEF readsVars
    <3>2. StatusInv' <=> StatusInv
        BY <3>1 DEF StatusInv, WorldInv, IndexInv, GotInv, RegInv, CacheInv, Complete, EventIsGone,
                    Reads!PositionEvents, Reads!Is, Reads!Registered, Reads!Provable
    <3> QED
        BY <3>1, <3>2
  <2>3. CASE MCNext /\ ~ReadsNext
      BY <2>2, <2>3 DEF MCNext, MintsNext, ArchiveNext, ClaimsNext, VaultNext, ApiNext, FunnelNext
  <2> QED
      BY <2>1, <2>2, <2>3 DEF all
<1>3. Inv => StatusIsTruthful
    BY StatusInvIsEnough DEF StatusIsTruthful
<1> QED
    BY <1>1, <1>2, <1>3, PTL DEF MCSpec
=============================================================================
