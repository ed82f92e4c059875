--------------------------- MODULE RelayerProofs ---------------------------
(* Proofs about what the relayer keeps doing by itself.  The repay watcher,   *)
(* for any number of positions, batches, retries and crashes: no repayment    *)
(* behind its cursor is lost, and it implements Release.  The account's lock  *)
(* and the header sync, for any submitters, bids, chains and reorganisations: *)
(* what evicts a queued call, and what a pass pays for.                       *)
EXTENDS MCRelayer, NumberFacts, SequenceTheorems

Topics == {"repay_full", "liquidated"}
Events == [topic : Topics, txid : Txids]
Rows == {NoRow} \union [attempts : Nat, backoff : BOOLEAN, first_seen : Nat]

\* Loans repaid in full.
Owed == {log[i].txid : i \in {j \in 1..Len(log) : log[j].topic = "repay_full"}}

Shapes ==
    /\ log \in Seq(Events)
    /\ publishes \in [Txids -> Nat]
    /\ queued \in Txids \union {NoTxid}
    /\ cursor \in 0..Len(log)
    /\ rows \in [Txids -> Rows]
    /\ todo \in Seq(Txids)
    /\ pc \in {"down", "poll", "sweep", "row", "read", "send", "wait", "confirm"}
    /\ pc \in {"read", "send", "wait", "confirm"} => todo # <<>>
    /\ fate \in {"none", "queued", "landed", "expired"}

\* Only loans repaid in full are worked on.
OnlyOwed ==
    /\ Pending \subseteq Owed
    /\ \A i \in DOMAIN todo : todo[i] \in Owed
    /\ queued # NoTxid => queued \in Owed
    /\ \A t \in Txids : publishes[t] > 0 => t \in Owed

\* What the process knows of the queued call.
Watched ==
    /\ fate # "none" => pc = "wait"
    /\ fate = "queued" => queued # NoTxid
    /\ fate \in {"landed", "expired"} => queued = NoTxid
    /\ queued # NoTxid /\ fate # "queued" => queued \in unsure
    /\ pc = "send" /\ publishes[Head(todo)] > 0 => Head(todo) \in unsure
    /\ queued # NoTxid /\ publishes[queued] > 0 => queued \in unsure

Inv == Shapes /\ OnlyOwed /\ Watched /\ NoRepaymentLost /\ PublishedTwiceOnlyIfUnsure

-----------------------------------------------------------------------------
(* Sequences, rows and the log.                                               *)

\* Head and tail of a sequence, element by element.
LEMMA HeadAndTail ==
    ASSUME NEW S, NEW s \in Seq(S), s # <<>>
    PROVE  /\ Head(s) \in S /\ 1 \in DOMAIN s /\ Head(s) = s[1]
           /\ Tail(s) \in Seq(S)
           /\ \A i \in DOMAIN Tail(s) : i + 1 \in DOMAIN s /\ Tail(s)[i] = s[i + 1]
<1>1. Len(s) \in Nat /\ Len(s) > 0
    OBVIOUS
<1>2. Tail(s) \in Seq(S) /\ DOMAIN Tail(s) = 1..(Len(s) - 1)
    BY <1>1
<1>3. \A i \in 1..(Len(s) - 1) : i + 1 \in DOMAIN s /\ Tail(s)[i] = s[i + 1]
    BY <1>1
<1> QED
    BY <1>1, <1>2, <1>3

\* What is owed is what the log says was repaid in full.
LEMMA OwedIs ==
    ASSUME NEW t
    PROVE  t \in Owed <=> \E i \in 1..Len(log) : log[i].topic = "repay_full" /\ log[i].txid = t
BY DEF Owed

\* Events are about positions.
LEMMA LogTyped ==
    ASSUME Shapes, NEW i \in 1..Len(log)
    PROVE  log[i].txid \in Txids
<1>1. log[i] \in Events
    BY DEF Shapes
<1> QED
    BY <1>1 DEF Events

\* The row of a failed attempt is still a row.
LEMMA MarkKeepsRows ==
    ASSUME Shapes, todo # <<>>
    PROVE  /\ Mark \in [Txids -> Rows]
           /\ Mark[Head(todo)] # NoRow
           /\ \A t \in Txids : t # Head(todo) => Mark[t] = rows[t]
<1> DEFINE h == Head(todo)
           new == Mark
<1>1. h \in Txids /\ rows \in [Txids -> Rows]
    BY HeadAndTail DEF Shapes
<1>2. rows[h].attempts + 1 \in Nat /\ rows[h].first_seen \in Nat
    BY <1>1 DEF Rows, NoRow
<1>3. new[h] = [attempts |-> rows[h].attempts + 1, backoff |-> TRUE, first_seen |-> rows[h].first_seen]
    BY <1>1 DEF Mark
<1>4. DOMAIN new = Txids /\ new = [t \in Txids |-> new[t]] /\ \A t \in Txids : t # h => new[t] = rows[t]
    BY <1>1 DEF Mark
<1>5. new[h] \in Rows /\ new[h] # NoRow
    BY <1>2, <1>3 DEF Rows, NoRow
<1> HIDE DEF new, h
<1>6. new \in [Txids -> Rows]
    BY <1>1, <1>4, <1>5
<1> QED
    BY <1>4, <1>5, <1>6 DEF new, h

\* A failed attempt is tried again or leaves the row for a later sweep.
LEMMA AttemptFailsIs ==
    ASSUME Inv, todo # <<>>, AttemptFails
    PROVE  /\ rows' \in [Txids -> Rows] /\ todo' \in Seq(Txids)
           /\ pc' \in {"read", "row"} /\ (pc' = "read" => todo' # <<>>)
           /\ Pending \subseteq Pending' /\ Pending' \subseteq Owed
           /\ \A i \in DOMAIN todo' : todo'[i] \in Owed
<1>1. /\ rows \in [Txids -> Rows] /\ todo \in Seq(Txids)
      /\ Pending \subseteq Owed /\ \A i \in DOMAIN todo : todo[i] \in Owed
    BY DEF Inv, Shapes, OnlyOwed
<1>2. CASE pc' = "read" /\ rows' = rows /\ todo' = todo
    BY <1>1, <1>2 DEF Pending
<1>3. CASE rows' = Mark /\ LeaveRow
  <2>1. Head(todo) \in Txids /\ Head(todo) \in Owed
      BY <1>1, HeadAndTail
  <2>2. /\ rows' \in [Txids -> Rows] /\ rows'[Head(todo)] # NoRow
        /\ \A t \in Txids : t # Head(todo) => rows'[t] = rows[t]
      BY <1>3, MarkKeepsRows DEF Inv
  <2>3. todo' \in Seq(Txids) /\ pc' = "row" /\ todo' = Tail(todo)
      BY <1>1, <1>3, HeadAndTail DEF LeaveRow
  <2>4. \A i \in DOMAIN todo' : todo'[i] \in Owed
      BY <1>1, <2>3, HeadAndTail
  <2>5. Pending \subseteq Pending' /\ Pending' \subseteq Owed
      BY <1>1, <2>1, <2>2 DEF Pending
  <2> QED
      BY <2>2, <2>3, <2>4, <2>5
<1> QED
    BY <1>2, <1>3 DEF AttemptFails

\* The log and the contract do not move.
LEMMA OwedKept ==
    ASSUME log' = log
    PROVE  Owed' = Owed
BY DEF Owed

\* A step that only adds rows loses no repayment.
LEMMA NothingLost ==
    ASSUME NoRepaymentLost, log' = log, cursor' = cursor, publishes' = publishes,
           Pending \subseteq Pending'
    PROVE  NoRepaymentLost'
BY DEF NoRepaymentLost

-----------------------------------------------------------------------------
(* The chain.                                                                 *)

LEMMA EndsInv ==
    ASSUME Inv, NEW t \in Txids, NEW topic \in Topics, PositionEnds(t, topic)
    PROVE  Inv'
<1> DEFINE e == [topic |-> topic, txid |-> t]
<1>1. /\ log \in Seq(Events) /\ log' = Append(log, e) /\ e \in Events
      /\ UNCHANGED <<publishes, queued, cursor, rows, pc, todo, attempt, fate, unsure>>
    BY DEF PositionEnds, Inv, Shapes, Events, dbVars, procVars
<1> HIDE DEF e
<1>2. /\ log' \in Seq(Events) /\ Len(log') = Len(log) + 1 /\ Len(log) \in Nat
      /\ \A i \in 1..Len(log) : log'[i] = log[i]
    BY <1>1
<1>3. Owed \subseteq Owed'
  <2>1. ASSUME NEW x \in Owed PROVE x \in Owed'
    <3>1. PICK i \in 1..Len(log) : log[i].topic = "repay_full" /\ log[i].txid = x
        BY <2>1, OwedIs
    <3>2. i \in 1..Len(log') /\ log'[i] = log[i]
        BY <1>2
    <3> QED
        BY <3>1, <3>2 DEF Owed
  <2> QED
      BY <2>1
<1>4. Shapes'
    BY <1>1, <1>2 DEF Inv, Shapes
<1>5. OnlyOwed'
  <2>1. Pending' = Pending
      BY <1>1 DEF Pending
  <2> QED
      BY <1>1, <1>3, <2>1 DEF Inv, OnlyOwed
<1>6. Watched'
    BY <1>1 DEF Inv, Watched
<1>7. NoRepaymentLost'
  <2>1. \A i \in 1..cursor : log'[i] = log[i]
      BY <1>2 DEF Inv, Shapes
  <2>2. Pending' = Pending
      BY <1>1 DEF Pending
  <2> QED
      BY <1>1, <2>1, <2>2 DEF Inv, NoRepaymentLost
<1>8. PublishedTwiceOnlyIfUnsure'
    BY <1>1 DEF Inv, PublishedTwiceOnlyIfUnsure
<1> QED
    BY <1>4, <1>5, <1>6, <1>7, <1>8 DEF Inv

LEMMA LandInv == ASSUME Inv, Land PROVE Inv'
<1>1. /\ queued \in Txids /\ queued' = NoTxid /\ NoTxid \notin Txids
      /\ publishes \in [Txids -> Nat] /\ publishes' = [publishes EXCEPT ![queued] = @ + 1]
      /\ fate' = IF fate = "queued" THEN "landed" ELSE fate
      /\ UNCHANGED <<log, cursor, rows, pc, todo, unsure>>
    BY WatcherAssumption DEF Land, Inv, Shapes, dbVars
<1>2. /\ publishes' \in [Txids -> Nat] /\ publishes'[queued] = publishes[queued] + 1
      /\ \A t \in Txids : t # queued => publishes'[t] = publishes[t]
    BY <1>1
<1>3. Owed' = Owed /\ Pending' = Pending
    BY <1>1, OwedKept DEF Pending
<1>4. Shapes'
    BY <1>1, <1>2 DEF Inv, Shapes
<1>5. OnlyOwed'
    BY <1>1, <1>2, <1>3 DEF Inv, OnlyOwed
<1>6. Watched'
  <2>1. fate # "queued" => queued \in unsure
      BY <1>1 DEF Inv, Watched
  <2>2. fate # "none" => pc = "wait"
      BY DEF Inv, Watched
  <2>3. pc = "send" => Head(todo) \in Txids
      BY HeadAndTail DEF Inv, Shapes
  <2>4. pc = "send" /\ publishes'[Head(todo)] > 0 => Head(todo) \in unsure
    <3>1. CASE Head(todo) = queued
        BY <2>1, <2>2, <3>1
    <3>2. CASE Head(todo) # queued
        BY <1>2, <2>3, <3>2 DEF Inv, Watched
    <3> QED
        BY <3>1, <3>2
  <2> QED
      BY <1>1, <2>2, <2>4 DEF Inv, Watched
<1>7. NoRepaymentLost'
  <2>1. ASSUME NEW i \in 1..cursor, publishes[log[i].txid] > 0 PROVE publishes'[log[i].txid] > 0
    <3>1. log[i].txid \in Txids
      <4>1. i \in 1..Len(log)
          BY DEF Inv, Shapes
      <4> QED
          BY <4>1, LogTyped DEF Inv
    <3> QED
        BY <1>1, <1>2, <2>1, <3>1
  <2> QED
      BY <1>1, <1>3, <2>1 DEF Inv, NoRepaymentLost
<1>8. PublishedTwiceOnlyIfUnsure'
  <2>1. ASSUME NEW t \in Txids, publishes'[t] > 1 PROVE t \in unsure
    <3>1. CASE t = queued
      <4>1. publishes[queued] > 0
          BY <1>1, <1>2, <2>1, <3>1
      <4> QED
          BY <1>1, <3>1, <4>1 DEF Inv, Watched
    <3>2. CASE t # queued
        BY <1>2, <2>1, <3>2 DEF Inv, PublishedTwiceOnlyIfUnsure
    <3> QED
        BY <3>1, <3>2
  <2> QED
      BY <1>1, <2>1 DEF PublishedTwiceOnlyIfUnsure
<1> QED
    BY <1>4, <1>5, <1>6, <1>7, <1>8 DEF Inv

LEMMA ExpireInv == ASSUME Inv, Expire PROVE Inv'
<1>1. /\ queued # NoTxid /\ queued' = NoTxid
      /\ fate' = IF fate = "queued" THEN "expired" ELSE fate
      /\ UNCHANGED <<log, publishes, cursor, rows, pc, todo, unsure>>
    BY DEF Expire, dbVars
<1>2. Owed' = Owed /\ Pending' = Pending
    BY <1>1, OwedKept DEF Pending
<1>3. Shapes'
    BY <1>1 DEF Inv, Shapes
<1>4. OnlyOwed'
    BY <1>1, <1>2 DEF Inv, OnlyOwed
<1>5. Watched'
    BY <1>1 DEF Inv, Watched
<1>6. NoRepaymentLost'
    BY <1>1, <1>2, NothingLost DEF Inv
<1>7. PublishedTwiceOnlyIfUnsure'
    BY <1>1 DEF Inv, PublishedTwiceOnlyIfUnsure
<1> QED
    BY <1>3, <1>4, <1>5, <1>6, <1>7 DEF Inv

-----------------------------------------------------------------------------
(* Reading events.                                                            *)

\* A page of events becomes rows in the step that moves the cursor.
LEMMA PollInv == ASSUME Inv, runPollCycle PROVE Inv'
<1>1. PICK new \in cursor..Len(log) :
          /\ rows' = [t \in Txids |-> IF t \in repaid(cursor,
                new) /\ t \notin Pending THEN Row(new) ELSE rows[t]]
          /\ cursor' = new
    BY DEF runPollCycle, recordBatch
<1>2. UNCHANGED <<log, publishes, queued, todo, fate, unsure>> /\ pc = "poll" /\ pc' = "sweep"
    BY DEF runPollCycle, chainVars
<1>3. /\ Len(log) \in Nat /\ cursor \in Nat /\ new \in Nat /\ new <= Len(log) /\ cursor <= new
      /\ rows \in [Txids -> Rows] /\ log \in Seq(Events)
    BY <1>1 DEF Inv, Shapes
<1>4. Row(new) \in Rows /\ Row(new) # NoRow
    BY <1>3 DEF Row, Rows, NoRow
<1>5. repaid(cursor, new) \subseteq Owed
    BY <1>3 DEF repaid, Owed
<1>6. rows' \in [Txids -> Rows]
    BY <1>1, <1>3, <1>4
<1>7. \A t \in Txids : t \in Pending' <=> t \in Pending \/ t \in repaid(cursor, new)
    BY <1>1, <1>4 DEF Pending
<1>8. Owed' = Owed
    BY <1>2, OwedKept
<1>9. Shapes'
    BY <1>1, <1>2, <1>3, <1>6 DEF Inv, Shapes
<1>10. OnlyOwed'
  <2>1. Pending' \subseteq Owed'
      BY <1>5, <1>7, <1>8 DEF Inv, OnlyOwed, Pending
  <2> QED
      BY <1>2, <1>8, <2>1 DEF Inv, OnlyOwed
<1>11. Watched'
    BY <1>2 DEF Inv, Watched
<1>12. NoRepaymentLost'
  <2>1. ASSUME NEW i \in 1..new, log[i].topic = "repay_full"
        PROVE  publishes[log[i].txid] > 0 \/ log[i].txid \in Pending'
    <3>1. i \in 1..Len(log) /\ log[i].txid \in Txids
        BY <1>3, LogTyped DEF Inv
    <3>2. CASE i <= cursor
      <4>1. i \in 1..cursor
          BY <1>3, <3>2
      <4>2. publishes[log[i].txid] > 0 \/ log[i].txid \in Pending
          BY <2>1, <4>1 DEF Inv, NoRepaymentLost
      <4> QED
          BY <1>7, <3>1, <4>2
    <3>3. CASE i > cursor
      <4>1. i \in (cursor + 1)..new
          BY <1>3, <3>3
      <4>2. log[i].txid \in repaid(cursor, new)
          BY <2>1, <4>1 DEF repaid
      <4> QED
          BY <1>7, <3>1, <4>2
    <3> QED
        BY <1>3, <3>2, <3>3
  <2> QED
      BY <1>1, <1>2, <2>1 DEF NoRepaymentLost
<1>13. PublishedTwiceOnlyIfUnsure'
    BY <1>2 DEF Inv, PublishedTwiceOnlyIfUnsure
<1> QED
    BY <1>9, <1>10, <1>11, <1>12, <1>13 DEF Inv

-----------------------------------------------------------------------------
(* The sweep.                                                                 *)

\* What a step keeps when log, contract and cursor stay as they are.
LEMMA QuietStep ==
    ASSUME Inv, log' = log, publishes' = publishes, cursor' = cursor,
           Pending \subseteq Pending', unsure \subseteq unsure'
    PROVE  NoRepaymentLost' /\ PublishedTwiceOnlyIfUnsure' /\ Owed' = Owed
<1>1. NoRepaymentLost'
    BY NothingLost DEF Inv
<1>2. PublishedTwiceOnlyIfUnsure'
    BY DEF Inv, PublishedTwiceOnlyIfUnsure
<1> QED
    BY <1>1, <1>2, OwedKept

LEMMA SweepInv == ASSUME Inv, runReleaseSweep PROVE Inv'
<1>1. PICK order \in SetToSeqs(due) :
          todo' = SubSeq(order, 1, IF Len(order) < DueLimit THEN Len(order) ELSE DueLimit)
    BY DEF runReleaseSweep
<1>2. /\ pc = "sweep" /\ pc' = "row"
      /\ UNCHANGED <<log, publishes, queued, cursor, rows, fate, unsure>>
    BY DEF runReleaseSweep, chainVars, dbVars
<1>3. due \subseteq Pending /\ Pending \subseteq Txids /\ IsFiniteSet(due)
  <2>1. due \subseteq Pending /\ Pending \subseteq Txids
      BY DEF due, Pending
  <2> QED
      BY <2>1, WatcherAssumption, FS_Subset
<1>4. order \in Seq(due)
  <2>1. Cardinality(due) \in Nat
      BY <1>3, FS_CardinalityType
  <2>2. order \in [1..Cardinality(due) -> due]
      BY DEF SetToSeqs
  <2> QED
      BY <2>1, <2>2
<1>5. todo' \in Seq(due)
  <2> DEFINE n == IF Len(order) < DueLimit THEN Len(order) ELSE DueLimit
  <2>1. n \in Nat /\ n <= Len(order)
      BY <1>4, WatcherAssumption
  <2> HIDE DEF n
  <2>2. SubSeq(order, 1, n) \in Seq(due)
      BY <1>4, <2>1
  <2> QED
      BY <1>1, <2>2 DEF n
<1>6. /\ todo' \in Seq(Txids)
      /\ \A i \in DOMAIN todo' : todo'[i] \in Pending
    BY <1>3, <1>5
<1>7. Pending' = Pending
    BY <1>2 DEF Pending
<1>8. NoRepaymentLost' /\ PublishedTwiceOnlyIfUnsure' /\ Owed' = Owed
    BY <1>2, <1>7, QuietStep
<1>9. Shapes'
    BY <1>2, <1>6 DEF Inv, Shapes
<1>10. OnlyOwed'
    BY <1>2, <1>6, <1>7, <1>8 DEF Inv, OnlyOwed
<1>11. Watched'
    BY <1>2 DEF Inv, Watched
<1> QED
    BY <1>8, <1>9, <1>10, <1>11 DEF Inv

\* Steps that touch neither the chain nor the database, and keep what they know.
LEMMA LocalStep ==
    ASSUME Inv, UNCHANGED <<log, publishes, queued, cursor, rows, todo, unsure>>,
           pc' \in {"poll", "read", "send", "confirm"},
           pc' \in {"read", "send", "confirm"} => todo # <<>>,
           pc' = "send" => publishes[Head(todo)] = 0,
           fate' = "none", fate # "queued"
    PROVE  Inv'
<1>1. Pending' = Pending
    BY DEF Pending
<1>2. NoRepaymentLost' /\ PublishedTwiceOnlyIfUnsure' /\ Owed' = Owed
    BY <1>1, QuietStep
<1>3. Shapes'
    BY DEF Inv, Shapes
<1>4. OnlyOwed'
    BY <1>1, <1>2 DEF Inv, OnlyOwed
<1>5. Watched'
  <2>1. pc' = "send" => ~(publishes[Head(todo)] > 0)
      OBVIOUS
  <2> QED
      BY <2>1 DEF Inv, Watched
<1> QED
    BY <1>2, <1>3, <1>4, <1>5 DEF Inv

LEMMA NextRowInv == ASSUME Inv, NextRow PROVE Inv'
<1>1. /\ UNCHANGED <<log, publishes, queued, cursor, rows, todo, unsure>>
      /\ pc' \in {"poll", "read"} /\ (pc' = "read" => todo # <<>>)
      /\ pc = "row" /\ fate' = fate
    BY DEF NextRow, chainVars, dbVars
<1>2. fate = "none"
    BY <1>1 DEF Inv, Watched
<1> QED
    BY <1>1, <1>2, LocalStep

LEMMA ReadInv == ASSUME Inv, ReadRelease PROVE Inv'
<1>1. /\ UNCHANGED <<log, publishes, queued, cursor, rows, todo, unsure>>
      /\ pc' \in {"send", "confirm"} /\ (pc' = "send" => publishes[Head(todo)] = 0)
      /\ pc = "read" /\ fate' = fate
    BY DEF ReadRelease, needs_publish, chainVars, dbVars
<1>2. fate = "none" /\ todo # <<>>
    BY <1>1 DEF Inv, Watched, Shapes
<1> QED
    BY <1>1, <1>2, LocalStep

LEMMA PublishedInv == ASSUME Inv, Published PROVE Inv'
<1>1. /\ UNCHANGED <<log, publishes, queued, cursor, rows, todo, unsure>>
      /\ pc' = "confirm" /\ pc = "wait" /\ fate = "landed" /\ fate' = "none"
    BY DEF Published, chainVars, dbVars
<1>2. todo # <<>>
    BY <1>1 DEF Inv, Shapes
<1> QED
    BY <1>1, <1>2, LocalStep

LEMMA StartInv == ASSUME Inv, Start PROVE Inv'
<1>1. /\ UNCHANGED <<log, publishes, queued, cursor, rows, todo, unsure>>
      /\ pc' = "poll" /\ pc = "down" /\ fate' = fate
    BY DEF Start, chainVars, dbVars
<1>2. fate = "none"
    BY <1>1 DEF Inv, Watched
<1> QED
    BY <1>1, <1>2, LocalStep

\* Steps after which the process waits for no call of its own: whatever is still
\* queued is unsure.
LEMMA AttemptOver ==
    ASSUME Inv, UNCHANGED <<log, publishes, queued, cursor>>,
           rows' \in [Txids -> Rows], todo' \in Seq(Txids),
           Pending' \subseteq Owed,
           \A t \in Pending : t \in Pending' \/ publishes[t] > 0,
           \A i \in DOMAIN todo' : todo'[i] \in Owed,
           pc' \in {"down", "row", "read"}, pc' = "read" => todo' # <<>>,
           fate' = "none", unsure' = IF fate = "queued" THEN unsure \union {queued} ELSE unsure
    PROVE  Inv'
<1>1. Owed' = Owed
    BY OwedKept
<1>2. unsure \subseteq unsure' /\ (queued # NoTxid => queued \in unsure')
    BY DEF Inv, Watched
<1>3. Shapes'
    BY DEF Inv, Shapes
<1>4. OnlyOwed'
    BY <1>1 DEF Inv, OnlyOwed
<1>5. Watched'
    BY <1>2 DEF Inv, Watched
<1>6. NoRepaymentLost'
    BY DEF Inv, NoRepaymentLost
<1>7. PublishedTwiceOnlyIfUnsure'
    BY <1>2 DEF Inv, PublishedTwiceOnlyIfUnsure
<1> QED
    BY <1>3, <1>4, <1>5, <1>6, <1>7 DEF Inv

LEMMA ReadFailsInv == ASSUME Inv, ReadFails PROVE Inv'
<1>1. pc \in {"read", "send"} /\ AttemptFails /\ UNCHANGED <<log, publishes, queued, cursor, fate, unsure>>
    BY DEF ReadFails, chainVars
<1>2. todo # <<>> /\ fate = "none"
    BY <1>1 DEF Inv, Shapes, Watched
<1>3. /\ rows' \in [Txids -> Rows] /\ todo' \in Seq(Txids)
      /\ pc' \in {"read", "row"} /\ (pc' = "read" => todo' # <<>>)
      /\ Pending \subseteq Pending' /\ Pending' \subseteq Owed
      /\ \A i \in DOMAIN todo' : todo'[i] \in Owed
    BY <1>1, <1>2, AttemptFailsIs
<1> QED
    BY <1>1, <1>2, <1>3, AttemptOver

LEMMA WaitFailsInv == ASSUME Inv, WaitFails PROVE Inv'
<1>1. /\ pc = "wait" /\ AttemptFails /\ UNCHANGED <<log, publishes, queued, cursor>> /\ fate' = "none"
      /\ unsure' = IF fate = "queued" THEN unsure \union {queued} ELSE unsure
    BY DEF WaitFails, chainVars
<1>2. todo # <<>>
    BY <1>1 DEF Inv, Shapes
<1>3. /\ rows' \in [Txids -> Rows] /\ todo' \in Seq(Txids)
      /\ pc' \in {"read", "row"} /\ (pc' = "read" => todo' # <<>>)
      /\ Pending \subseteq Pending' /\ Pending' \subseteq Owed
      /\ \A i \in DOMAIN todo' : todo'[i] \in Owed
    BY <1>1, <1>2, AttemptFailsIs
<1> QED
    BY <1>1, <1>2, <1>3, AttemptOver

LEMMA NotVisibleInv == ASSUME Inv, NotVisible PROVE Inv'
<1>1. /\ pc = "confirm" /\ rows' = Mark /\ LeaveRow
      /\ UNCHANGED <<log, publishes, queued, cursor, fate, unsure>>
    BY DEF NotVisible, chainVars
<1>2. /\ todo # <<>> /\ todo \in Seq(Txids) /\ fate = "none" /\ Pending \subseteq Owed
      /\ \A i \in DOMAIN todo : todo[i] \in Owed
    BY <1>1 DEF Inv, Shapes, Watched, OnlyOwed
<1>3. /\ rows' \in [Txids -> Rows] /\ rows'[Head(todo)] # NoRow
      /\ \A t \in Txids : t # Head(todo) => rows'[t] = rows[t]
    BY <1>1, <1>2, MarkKeepsRows DEF Inv
<1>4. todo' = Tail(todo) /\ todo' \in Seq(Txids) /\ pc' = "row" /\ Head(todo) \in Txids /\ Head(todo) \in Owed
    BY <1>1, <1>2, HeadAndTail DEF LeaveRow
<1>5. \A i \in DOMAIN todo' : todo'[i] \in Owed
    BY <1>2, <1>4, HeadAndTail
<1>6. Pending \subseteq Pending' /\ Pending' \subseteq Owed
    BY <1>2, <1>3, <1>4 DEF Pending
<1> QED
    BY <1>1, <1>2, <1>3, <1>4, <1>5, <1>6, AttemptOver

\* A row leaves the table only when the contract shows the release.
LEMMA RemoveRowInv == ASSUME Inv, RemoveRow PROVE Inv'
<1>1. /\ pc = "confirm" /\ publishes[Head(todo)] > 0
      /\ rows' = [rows EXCEPT ![Head(todo)] = NoRow] /\ LeaveRow
      /\ UNCHANGED <<log, publishes, queued, cursor, fate, unsure>>
    BY DEF RemoveRow, isPublished, chainVars
<1>2. /\ todo # <<>> /\ todo \in Seq(Txids) /\ fate = "none" /\ Pending \subseteq Owed
      /\ rows \in [Txids -> Rows] /\ \A i \in DOMAIN todo : todo[i] \in Owed
    BY <1>1 DEF Inv, Shapes, Watched, OnlyOwed
<1>3. todo' = Tail(todo) /\ todo' \in Seq(Txids) /\ pc' = "row" /\ Head(todo) \in Txids
    BY <1>1, <1>2, HeadAndTail DEF LeaveRow
<1>4. \A i \in DOMAIN todo' : todo'[i] \in Owed
    BY <1>2, <1>3, HeadAndTail
<1>5. /\ rows' \in [Txids -> Rows] /\ rows'[Head(todo)] = NoRow
      /\ \A t \in Txids : t # Head(todo) => rows'[t] = rows[t]
  <2>1. NoRow \in Rows
      BY DEF Rows
  <2> QED
      BY <1>1, <1>2, <1>3, <2>1
<1>6. Pending' \subseteq Owed /\ \A t \in Pending : t \in Pending' \/ publishes[t] > 0
    BY <1>1, <1>2, <1>3, <1>5 DEF Pending
<1> QED
    BY <1>1, <1>2, <1>3, <1>4, <1>5, <1>6, AttemptOver

LEMMA CrashInv == ASSUME Inv, Crash PROVE Inv'
<1>1. /\ pc' = "down" /\ todo' = <<>> /\ fate' = "none"
      /\ unsure' = IF fate = "queued" THEN unsure \union {queued} ELSE unsure
      /\ UNCHANGED <<log, publishes, queued, cursor, rows>>
    BY DEF Crash, chainVars, dbVars
<1>2. /\ rows' \in [Txids -> Rows] /\ todo' \in Seq(Txids) /\ \A i \in DOMAIN todo' : todo'[i] \in Owed
    BY <1>1 DEF Inv, Shapes
<1>3. Pending' = Pending /\ Pending \subseteq Owed
    BY <1>1 DEF Pending, Inv, OnlyOwed
<1> QED
    BY <1>1, <1>2, <1>3, AttemptOver

\* A release is signed and sent for a position that was read as not released.
LEMMA PublishInv == ASSUME Inv, Publish PROVE Inv'
<1>1. /\ pc = "send" /\ queued = NoTxid /\ queued' = Head(todo) /\ fate' = "queued" /\ pc' = "wait"
      /\ UNCHANGED <<log, publishes, cursor, rows, todo, unsure>>
    BY DEF Publish, dbVars
<1>2. todo # <<>> /\ todo \in Seq(Txids) /\ \A i \in DOMAIN todo : todo[i] \in Owed
    BY <1>1 DEF Inv, Shapes, OnlyOwed
<1>3. Head(todo) \in Txids /\ Head(todo) \in Owed /\ Head(todo) # NoTxid
    BY <1>2, HeadAndTail, WatcherAssumption
<1>4. Pending' = Pending
    BY <1>1 DEF Pending
<1>5. NoRepaymentLost' /\ PublishedTwiceOnlyIfUnsure' /\ Owed' = Owed
    BY <1>1, <1>4, QuietStep
<1>6. Shapes'
    BY <1>1, <1>2, <1>3 DEF Inv, Shapes
<1>7. OnlyOwed'
    BY <1>1, <1>3, <1>4, <1>5 DEF Inv, OnlyOwed
<1>8. Watched'
    BY <1>1, <1>3 DEF Inv, Watched
<1> QED
    BY <1>5, <1>6, <1>7, <1>8 DEF Inv

LEMMA BackoffInv == ASSUME Inv, NEW t \in Txids, BackoffEnds(t) PROVE Inv'
<1>1. /\ t \in Pending /\ rows' = [rows EXCEPT ![t].backoff = FALSE]
      /\ UNCHANGED <<log, publishes, queued, cursor, pc, todo, fate, unsure>>
    BY DEF BackoffEnds, chainVars, procVars
<1>2. rows \in [Txids -> Rows] /\ rows[t] # NoRow
    BY <1>1 DEF Inv, Shapes, Pending
<1>3. rows[t] \in [attempts : Nat, backoff : BOOLEAN, first_seen : Nat]
    BY <1>2 DEF Rows
<1>4. rows'[t] = [rows[t] EXCEPT !.backoff = FALSE] /\ \A x \in Txids : x # t => rows'[x] = rows[x]
    BY <1>1, <1>2
<1>5. rows'[t] \in [attempts : Nat, backoff : BOOLEAN, first_seen : Nat] /\ rows'[t].attempts \in Nat
    BY <1>3, <1>4
<1>6. rows'[t] \in Rows /\ rows'[t] # NoRow
    BY <1>5 DEF Rows, NoRow
<1>7. rows' \in [Txids -> Rows]
    BY <1>1, <1>2, <1>4, <1>6
<1>8. Pending' = Pending
    BY <1>2, <1>4, <1>6 DEF Pending
<1>9. NoRepaymentLost' /\ PublishedTwiceOnlyIfUnsure' /\ Owed' = Owed
    BY <1>1, <1>8, QuietStep
<1>10. Shapes'
    BY <1>1, <1>7 DEF Inv, Shapes
<1>11. OnlyOwed'
    BY <1>1, <1>8, <1>9 DEF Inv, OnlyOwed
<1>12. Watched'
    BY <1>1 DEF Inv, Watched
<1> QED
    BY <1>9, <1>10, <1>11, <1>12 DEF Inv

-----------------------------------------------------------------------------
(* The invariant, and what the watcher promises.                              *)

LEMMA InitInv == Init => Inv
<1> SUFFICES ASSUME Init PROVE Inv
    OBVIOUS
<1>1. /\ log = <<>> /\ publishes = [t \in Txids |-> 0] /\ queued = NoTxid /\ cursor = 0
      /\ rows = [t \in Txids |-> NoRow] /\ pc = "down" /\ todo = <<>> /\ fate = "none" /\ unsure = {}
    BY DEF Init
<1>2. NoRow \in Rows
    BY DEF Rows
<1>3. Shapes
  <2>1. log \in Seq(Events) /\ Len(log) = 0 /\ todo \in Seq(Txids)
      BY <1>1
  <2> QED
      BY <1>1, <1>2, <2>1 DEF Shapes
<1>4. OnlyOwed
    BY <1>1 DEF OnlyOwed, Pending
<1>5. Watched
    BY <1>1 DEF Watched
<1>6. NoRepaymentLost /\ PublishedTwiceOnlyIfUnsure
    BY <1>1 DEF NoRepaymentLost, PublishedTwiceOnlyIfUnsure
<1> QED
    BY <1>3, <1>4, <1>5, <1>6 DEF Inv

LEMMA NextInv == Inv /\ [Next]_vars => Inv'
<1> SUFFICES ASSUME Inv, [Next]_vars PROVE Inv'
    OBVIOUS
<1>1. ASSUME NEW t \in Txids, PositionEnds(t, "repay_full") \/ PositionEnds(t, "liquidated")
      PROVE  Inv'
  <2>1. "repay_full" \in Topics /\ "liquidated" \in Topics
      BY DEF Topics
  <2> QED
      BY <1>1, <2>1, EndsInv
<1>2. CASE Network
    BY <1>2, LandInv, ExpireInv DEF Network
<1>3. CASE Start \/ runPollCycle \/ runReleaseSweep \/ NextRow \/ ReadRelease \/ ReadFails
    BY <1>3, StartInv, PollInv, SweepInv, NextRowInv, ReadInv, ReadFailsInv
<1>4. CASE Publish \/ Published \/ WaitFails \/ RemoveRow \/ NotVisible \/ Crash
    BY <1>4, PublishInv, PublishedInv, WaitFailsInv, RemoveRowInv, NotVisibleInv, CrashInv
<1>5. ASSUME NEW t \in Txids, BackoffEnds(t) PROVE Inv'
    BY <1>5, BackoffInv
<1>6. CASE UNCHANGED vars
    BY <1>6 DEF vars, chainVars, dbVars, procVars, Inv, Shapes, OnlyOwed, Owed, Pending, Watched,
                NoRepaymentLost, PublishedTwiceOnlyIfUnsure
<1> QED
    BY <1>1, <1>2, <1>3, <1>4, <1>5, <1>6 DEF Next, Step

\* Types, NoRepaymentLost and PublishedTwiceOnlyIfUnsure with what they rest on, after
\* any polls, sweeps and crashes of poller.ts.
THEOREM Invariance == Spec => []Inv
BY InitInv, NextInv, PTL DEF Spec

\* release-store.ts: "A row leaves the table only when the contract shows the
\* release", and poller.ts:141, "nothing is published twice": through crashes,
\* expired calls and lost answers a repayment the cursor has passed is released
\* or still a row, and a release lands twice only after an attempt that ended
\* before its own call did.
THEOREM RepaymentsAreKept == Spec => []RepaymentsKept
<1>1. Inv => RepaymentsKept
    BY DEF Inv, RepaymentsKept
<1> QED
    BY <1>1, Invariance, PTL

\* runPollCycle and handleRepayFull: only a loan repaid in full is released, and
\* a release stays on the contract: the watcher implements Release.
THEOREM WatcherKeepsPromise == Spec => PromiseKept
<1> DEFINE released == {t \in Txids : publishes[t] > 0}
<1>1. Init => Promise!Init
    BY DEF Init, Promise!Init
<1>2. Inv /\ [Next]_vars => [Promise!Next]_<<Owed, released>>
  <2> SUFFICES ASSUME Inv, [Next]_vars, ~UNCHANGED <<Owed, released>>
               PROVE  \E t \in Txids : Promise!RepayInFull(t) \/ Promise!Publish(t)
      BY DEF Promise!Next
  <2>1. UNCHANGED <<log, publishes>> => FALSE
      BY OwedKept
  <2>2. ASSUME NEW t \in Txids, PositionEnds(t, "repay_full") PROVE Promise!RepayInFull(t)
    <3> DEFINE e == [topic |-> "repay_full", txid |-> t]
    <3>1. log \in Seq(Events) /\ log' = Append(log, e) /\ publishes' = publishes
        BY <2>2 DEF PositionEnds, Inv, Shapes
    <3>2. \A i \in 1..Len(log) : log[i].txid # t
        BY <2>2 DEF PositionEnds
    <3>3. e.topic = "repay_full" /\ e.txid = t
        OBVIOUS
    <3> HIDE DEF e
    <3>4. Len(log) \in Nat /\ Len(log') = Len(log) + 1 /\ log'[Len(log) + 1] = e
          /\ \A i \in 1..Len(log) : log'[i] = log[i]
        BY <3>1
    <3>5. t \notin Owed
        BY <3>2 DEF Owed
    <3>6. Owed' = Owed \union {t}
      <4>1. ASSUME NEW x PROVE x \in Owed' <=> x \in Owed \/ x = t
        <5>1. x \in Owed' <=> \E i \in 1..Len(log') : log'[i].topic = "repay_full" /\ log'[i].txid = x
            BY DEF Owed
        <5>2. \A i \in 1..Len(log') : i \in 1..Len(log) \/ i = Len(log) + 1
            BY <3>4
        <5>3. \A i \in 1..Len(log) : i \in 1..Len(log')
            BY <3>4
        <5>4. Len(log) + 1 \in 1..Len(log')
            BY <3>4
        <5> QED
            BY <3>3, <3>4, <5>1, <5>2, <5>3, <5>4, OwedIs
      <4> QED
          BY <4>1
    <3> QED
        BY <3>1, <3>5, <3>6 DEF Promise!RepayInFull, Owed
  <2>3. ASSUME NEW t \in Txids, PositionEnds(t, "liquidated") PROVE FALSE
    <3> DEFINE e == [topic |-> "liquidated", txid |-> t]
    <3>1. log \in Seq(Events) /\ log' = Append(log, e) /\ publishes' = publishes
        BY <2>3 DEF PositionEnds, Inv, Shapes
    <3>2. e.topic # "repay_full"
        OBVIOUS
    <3> HIDE DEF e
    <3>3. Len(log) \in Nat /\ Len(log') = Len(log) + 1 /\ log'[Len(log) + 1] = e
          /\ \A i \in 1..Len(log) : log'[i] = log[i]
        BY <3>1
    <3>4. ASSUME NEW x PROVE x \in Owed' <=> x \in Owed
      <4>1. x \in Owed' <=> \E i \in 1..Len(log') : log'[i].topic = "repay_full" /\ log'[i].txid = x
          BY DEF Owed
      <4>2. \A i \in 1..Len(log') : i \in 1..Len(log) \/ i = Len(log) + 1
          BY <3>3
      <4>3. \A i \in 1..Len(log) : i \in 1..Len(log')
          BY <3>3
      <4> QED
          BY <3>2, <3>3, <4>1, <4>2, <4>3, OwedIs
    <3> QED
        BY <3>1, <3>4
  <2>4. ASSUME NEW q \in Txids, q = queued, Land PROVE Promise!Publish(q)
    <3>1. /\ queued # NoTxid /\ publishes' = [publishes EXCEPT ![queued] = @ + 1] /\ log' = log
          /\ q \in Owed /\ publishes \in [Txids -> Nat]
        BY <2>4 DEF Land, Inv, Shapes, OnlyOwed
    <3>2. /\ publishes'[q] = publishes[q] + 1
          /\ \A t \in Txids : t # q => publishes'[t] = publishes[t]
        BY <2>4, <3>1
    <3>3. Owed' = Owed
        BY <3>1, OwedKept
    <3>4. released' = released \union {q}
        BY <3>1, <3>2
    <3>5. q \notin released
        BY <3>3, <3>4
    <3> QED
        BY <3>1, <3>3, <3>4, <3>5 DEF Promise!Publish, Owed
  <2>5. \/ UNCHANGED <<log, publishes>> \/ Land
        \/ \E t \in Txids : PositionEnds(t, "repay_full") \/ PositionEnds(t, "liquidated")
    <3>1. CASE Network
        BY <3>1 DEF Network, Expire
    <3>2. CASE Start \/ runPollCycle \/ runReleaseSweep \/ NextRow \/ ReadRelease \/ ReadFails
        BY <3>2 DEF Start, runPollCycle, runReleaseSweep, NextRow, ReadRelease, ReadFails, chainVars
    <3>3. CASE Publish \/ Published \/ WaitFails \/ RemoveRow \/ NotVisible \/ Crash
        BY <3>3 DEF Publish, Published, WaitFails, RemoveRow, NotVisible, Crash, chainVars
    <3>4. CASE \E t \in Txids : BackoffEnds(t)
        BY <3>4 DEF BackoffEnds, chainVars
    <3>5. CASE UNCHANGED vars
        BY <3>5 DEF vars, chainVars
    <3> QED
        BY <3>1, <3>2, <3>3, <3>4, <3>5 DEF Next, Step
  <2>6. CASE Land
    <3>1. PICK q \in Txids : q = queued
        BY <2>6 DEF Land, Inv, Shapes
    <3>2. Promise!Publish(q)
        BY <2>4, <2>6, <3>1
    <3> QED
        BY <3>2
  <2>7. CASE \E t \in Txids : PositionEnds(t, "repay_full") \/ PositionEnds(t, "liquidated")
    <3>1. PICK t \in Txids : PositionEnds(t, "repay_full") \/ PositionEnds(t, "liquidated")
        BY <2>7
    <3>2. Promise!RepayInFull(t)
        BY <2>2, <2>3, <3>1
    <3> QED
        BY <3>2
  <2> QED
      BY <2>1, <2>5, <2>6, <2>7
<1> QED
    BY <1>1, <1>2, Invariance, PTL DEF Spec, PromiseKept, Promise!Spec, Owed

-----------------------------------------------------------------------------
(* The account lock and the header sync.                                      *)

\* A task of the chain that is running.
Holding == {"built", "sent"}

LockShapes ==
    /\ queue \in Seq(Submitters)
    /\ state \in [Submitters -> {"idle", "waiting"} \union Holding]
    /\ outcome \in [Submitters -> {"none", "queued", "landed", "gone"}]
    /\ pool \in Submitters \union {NoTx}
    /\ orphaned \in BOOLEAN

\* The promise chain holds each task once, and only its first one runs.
Exclusive ==
    /\ \A i, j \in 1..Len(queue) : queue[i] = queue[j] => i = j
    /\ \A s \in Submitters : state[s] # "idle" <=> \E i \in 1..Len(queue) : queue[i] = s
    /\ \A i \in 1..Len(queue) : state[queue[i]] \in Holding => i = 1

\* Whose call is queued waits for it, unless a task ended before its call did.
LockWatched ==
    /\ pool # NoTx => outcome[pool] = "queued"
    /\ pool # NoTx => state[pool] = "sent" \/ orphaned

LockInv == LockShapes /\ Exclusive /\ LockWatched /\ Headers!EvictedOnlyAfterLostAnswer

\* The pass under way reads the chain below a height Bitcoin has reached, and is
\* at its call exactly while the header task is in the promise chain.
PassShapes ==
    /\ bitcoin \in Seq(Nat) /\ reorgs \in Nat
    /\ pass \in [at : {"idle", "hash", "tip", "fetch", "submit"}, height : Nat, hash : Seq(Nat), next : Nat]
    /\ Len(bitcoin) >= 1
    /\ pass.at # "idle" => pass.height \in 1..Len(bitcoin)
    /\ pass.at \in {"tip", "fetch", "submit"} => Len(pass.hash) = pass.height
    /\ pass.at \notin {"fetch", "submit"} => batch = <<>>
    /\ state[headers] # "idle" <=> pass.at = "submit"

\* Height of the first header of the batch.
First == pass.next - Len(batch)

\* A batch is one header of each height from its first on.
BatchShapes ==
    /\ batch \in Seq(Seq(Nat)) /\ Len(batch) <= MAX_HEADERS_PER_SUBMIT
    /\ \A i \in 1..Len(batch) : Len(batch[i]) = First + i - 1
    /\ pass.at \in {"fetch", "submit"} => First >= 1
    /\ batch # <<>> => pass.next <= pass.height + 1
    /\ pass.at = "submit" => batch # <<>> /\ Headers!BatchComplete

\* So is the run of the queued call, whose last header is its highest.
SentShapes ==
    /\ sent \in Seq(Seq(Nat))
    /\ \A i \in 1..Len(sent) : Len(sent[i]) <= Len(sent[Len(sent)])
    /\ pool = headers => sent # <<>>

\* The contract's tip is the highest of the headers it holds.
TipIsHighest ==
    \/ tip = NoTip /\ stored = {}
    \/ /\ tip \in Seq(Nat) /\ stored \subseteq Seq(Nat)
       /\ \A b \in stored : Len(b) <= Len(tip)

\* A batch that starts at a height ends above the contract's tip, or the pass
\* knows of a tie.
Ahead(from) ==
    \/ tip = NoTip
    \/ /\ from + MAX_HEADERS_PER_SUBMIT > Len(tip) + 1
       /\ pass.height > Len(tip) \/ (pass.height = Len(tip) /\ pass.hash # tip)

\* The pass's own call has been applied and it has not seen that yet.
Landed == pass.at = "submit" /\ state[headers] = "sent" /\ outcome[headers] = "landed"

\* What the pass is about to pay for is not there yet.
Worthwhile ==
    /\ Landed /\ pass.next <= pass.height => Ahead(pass.next)
    /\ ~Landed /\ pass.at \in {"fetch", "submit"} /\ (batch # <<>> \/ pass.next <= pass.height)
       => Ahead(First)

\* The queued call carries the batch of the pass under way.
OwnCall == pool = headers => sent = batch

SyncInv ==
    /\ PassShapes /\ BatchShapes /\ SentShapes /\ TipIsHighest
    /\ ~orphaned => Worthwhile /\ OwnCall
    /\ Headers!NoEmptyCall

HeadersInv == LockInv /\ SyncInv

-----------------------------------------------------------------------------
(* The promise chain, by kinds of steps.                                      *)

\* At most one task runs, and no call of another is queued meanwhile.
LEMMA OneRuns ==
    ASSUME LockInv, NEW s \in Submitters, state[s] \in Holding
    PROVE  /\ queue # <<>> /\ queue[1] = s
           /\ \A c \in Submitters : state[c] \in Holding => c = s
<1>1. Len(queue) \in Nat
    BY DEF LockInv, LockShapes
<1>2. ASSUME NEW c \in Submitters, state[c] \in Holding
      PROVE  1 \in 1..Len(queue) /\ queue[1] = c
  <2>1. state[c] # "idle"
      BY <1>2 DEF Holding
  <2>2. PICK i \in 1..Len(queue) : queue[i] = c
      BY <2>1 DEF LockInv, Exclusive
  <2>3. i = 1
      BY <1>2, <2>2 DEF LockInv, Exclusive
  <2> QED
      BY <2>2, <2>3
<1> QED
    BY <1>1, <1>2 DEF LockInv, LockShapes

\* The first task ends and the next may run.
LEMMA Leaves ==
    ASSUME LockInv, NEW s \in Submitters, state[s] \in Holding, Headers!Settle(s)
    PROVE  /\ Exclusive' /\ queue' \in Seq(Submitters)
           /\ state' \in [Submitters -> {"idle", "waiting"} \union Holding]
           /\ \A c \in Submitters : state'[c] = IF c = s THEN "idle" ELSE state[c]
<1>1. /\ queue \in Seq(Submitters) /\ Len(queue) \in Nat /\ queue # <<>> /\ queue[1] = s
      /\ \A i \in 1..Len(queue) : queue[i] \in Submitters
    BY OneRuns DEF LockInv, LockShapes
<1>2. /\ queue' = Tail(queue) /\ queue' \in Seq(Submitters) /\ Len(queue') = Len(queue) - 1
      /\ \A i \in 1..Len(queue') : queue'[i] = queue[i + 1] /\ i + 1 \in 1..Len(queue)
    BY <1>1, HeadTailProperties DEF Headers!Settle
<1>3. /\ state' \in [Submitters -> {"idle", "waiting"} \union Holding]
      /\ \A c \in Submitters : state'[c] = IF c = s THEN "idle" ELSE state[c]
    BY DEF Headers!Settle, LockInv, LockShapes
<1>4. \A i, j \in 1..Len(queue') : queue'[i] = queue'[j] => i = j
    BY <1>1, <1>2 DEF LockInv, Exclusive
<1>5. \A i \in 1..Len(queue') : queue'[i] # s
    BY <1>1, <1>2 DEF LockInv, Exclusive
<1>6. ASSUME NEW c \in Submitters
      PROVE  state'[c] # "idle" <=> \E i \in 1..Len(queue') : queue'[i] = c
  <2>1. CASE c = s
      BY <1>3, <1>5, <2>1
  <2>2. CASE c # s
    <3>1. ASSUME NEW i \in 1..Len(queue), queue[i] = c
          PROVE  i - 1 \in 1..Len(queue') /\ queue'[i - 1] = c
      <4>1. i # 1
          BY <1>1, <2>2, <3>1
      <4> QED
          BY <1>1, <1>2, <3>1, <4>1
    <3>2. (\E i \in 1..Len(queue) : queue[i] = c) <=> (\E i \in 1..Len(queue') : queue'[i] = c)
        BY <1>2, <3>1
    <3> QED
        BY <1>3, <2>2, <3>2 DEF LockInv, Exclusive
  <2> QED
      BY <2>1, <2>2
<1>7. \A i \in 1..Len(queue') : state'[queue'[i]] \in Holding => i = 1
  <2>1. \A c \in Submitters : state'[c] \notin Holding
      BY <1>3, OneRuns DEF Holding
  <2> QED
      BY <1>1, <1>2, <2>1
<1> QED
    BY <1>2, <1>3, <1>4, <1>6, <1>7 DEF Exclusive

\* Joining the chain takes nobody's turn.
LEMMA Joins ==
    ASSUME LockInv, NEW s \in Submitters, Headers!withAccountLock(s)
    PROVE  LockInv'
<1>1. /\ queue \in Seq(Submitters) /\ Len(queue) \in Nat /\ state[s] = "idle"
      /\ \A i \in 1..Len(queue) : queue[i] \in Submitters
    BY DEF LockInv, LockShapes, Headers!withAccountLock
<1>2. /\ state' \in [Submitters -> {"idle", "waiting"} \union Holding]
      /\ \A c \in Submitters : state'[c] = IF c = s THEN "waiting" ELSE state[c]
    BY DEF LockInv, LockShapes, Headers!withAccountLock
<1>3. /\ queue' \in Seq(Submitters) /\ Len(queue') = Len(queue) + 1
      /\ \A i \in 1..Len(queue) : queue'[i] = queue[i]
      /\ queue'[Len(queue')] = s
    BY <1>1 DEF Headers!withAccountLock
<1>4. \A i \in 1..Len(queue') : i \in 1..Len(queue) \/ i = Len(queue')
    BY <1>1, <1>3
<1>5. \A i \in 1..Len(queue) : queue[i] # s
    BY <1>1 DEF LockInv, Exclusive
<1>6. \A i, j \in 1..Len(queue') : queue'[i] = queue'[j] => i = j
    BY <1>1, <1>3, <1>4, <1>5 DEF LockInv, Exclusive
<1>7. ASSUME NEW c \in Submitters
      PROVE  state'[c] # "idle" <=> \E i \in 1..Len(queue') : queue'[i] = c
  <2>1. CASE c = s
      BY <1>1, <1>2, <1>3, <2>1
  <2>2. CASE c # s
    <3>1. (\E i \in 1..Len(queue') : queue'[i] = c) <=> (\E i \in 1..Len(queue) : queue[i] = c)
        BY <1>1, <1>3, <1>4, <2>2
    <3> QED
        BY <1>2, <2>2, <3>1 DEF LockInv, Exclusive
  <2> QED
      BY <2>1, <2>2
<1>8. \A i \in 1..Len(queue') : state'[queue'[i]] \in Holding => i = 1
  <2>1. "waiting" \notin Holding
      BY DEF Holding
  <2> QED
      BY <1>1, <1>2, <1>3, <1>4, <1>5, <2>1 DEF LockInv, Exclusive
<1>9. LockWatched' /\ Headers!EvictedOnlyAfterLostAnswer'
    BY <1>1, <1>2 DEF LockInv, LockShapes, LockWatched, Headers!EvictedOnlyAfterLostAnswer,
                      Headers!withAccountLock
<1> QED
    BY <1>2, <1>3, <1>6, <1>7, <1>8, <1>9 DEF LockInv, LockShapes, Exclusive, Headers!withAccountLock

\* The first task goes on, and the chain stays as it is.
LEMMA GoesOn ==
    ASSUME LockInv, NEW s \in Submitters, NEW q \in Holding,
           state[s] \in Holding \/ (state[s] = "waiting" /\ Headers!my_turn(s)),
           state' = [state EXCEPT ![s] = q], queue' = queue
    PROVE  /\ Exclusive'
           /\ state' \in [Submitters -> {"idle", "waiting"} \union Holding]
           /\ \A c \in Submitters : state'[c] = IF c = s THEN q ELSE state[c]
<1>1. /\ queue \in Seq(Submitters) /\ Len(queue) \in Nat
      /\ \A i \in 1..Len(queue) : queue[i] \in Submitters
    BY DEF LockInv, LockShapes
<1>2. /\ state' \in [Submitters -> {"idle", "waiting"} \union Holding]
      /\ \A c \in Submitters : state'[c] = IF c = s THEN q ELSE state[c]
      /\ state[s] # "idle" /\ q # "idle"
    BY DEF LockInv, LockShapes, Holding
<1>3. 1 \in 1..Len(queue) /\ queue[1] = s
  <2>1. CASE state[s] \in Holding
      BY <1>1, <2>1, OneRuns
  <2>2. CASE state[s] = "waiting" /\ Headers!my_turn(s)
    <3>1. PICK i \in 1..Len(queue) : queue[i] = s
        BY <1>2 DEF LockInv, Exclusive
    <3> QED
        BY <1>1, <2>2, <3>1 DEF Headers!my_turn
  <2> QED
      BY <2>1, <2>2
<1>4. \A c \in Submitters : state'[c] # "idle" <=> state[c] # "idle"
    BY <1>2
<1>5. \A i \in 1..Len(queue) : state'[queue[i]] \in Holding => i = 1
    BY <1>1, <1>2, <1>3 DEF LockInv, Exclusive
<1> QED
    BY <1>2, <1>4, <1>5 DEF LockInv, Exclusive

\* getAccount: a call is built, and nothing is queued by that.
LEMMA Builds ==
    ASSUME LockInv, NEW s \in Submitters, Headers!Build(s)
    PROVE  LockInv'
<1>1. /\ state[s] = "waiting" /\ Headers!my_turn(s) /\ state' = [state EXCEPT ![s] = "built"]
      /\ UNCHANGED <<queue, outcome, pool, evicted, orphaned>>
    BY DEF Headers!Build
<1>2. /\ Exclusive' /\ state' \in [Submitters -> {"idle", "waiting"} \union Holding]
      /\ \A c \in Submitters : state'[c] = IF c = s THEN "built" ELSE state[c]
    BY <1>1, GoesOn DEF Holding
<1> QED
    BY <1>1, <1>2 DEF LockInv, LockShapes, LockWatched, Headers!EvictedOnlyAfterLostAnswer

\* A queued call is not the task's own while that task has only built.
LEMMA NotItsOwn ==
    ASSUME LockInv, NEW s \in Submitters, state[s] = "built", ~orphaned
    PROVE  pool = NoTx
<1>1. ASSUME pool # NoTx
      PROVE  FALSE
  <2>1. pool \in Submitters /\ state[pool] = "sent" /\ state[s] \in Holding /\ state[pool] \in Holding
      BY <1>1 DEF LockInv, LockShapes, LockWatched, Holding
  <2>2. pool = s
      BY <2>1, OneRuns
  <2> QED
      BY <2>1, <2>2
<1> QED
    BY <1>1

\* A task ends before it has sent anything.
LEMMA EndsUnsent ==
    ASSUME LockInv, NEW s \in Submitters, state[s] = "built", Headers!Settle(s),
           UNCHANGED <<outcome, pool, evicted, orphaned>>
    PROVE  LockInv'
<1>1. /\ Exclusive' /\ queue' \in Seq(Submitters)
      /\ state' \in [Submitters -> {"idle", "waiting"} \union Holding]
      /\ \A c \in Submitters : state'[c] = IF c = s THEN "idle" ELSE state[c]
    BY Leaves DEF Holding
<1>2. LockWatched'
    BY <1>1, NotItsOwn DEF LockInv, LockShapes, LockWatched
<1> QED
    BY <1>1, <1>2 DEF LockInv, LockShapes, Headers!EvictedOnlyAfterLostAnswer

\* A call is queued: it replaces another only once a task was cut short.
LEMMA Sends ==
    ASSUME Headers!LockAssumption, LockInv, NEW s \in Submitters, Headers!Send(s)
    PROVE  LockInv'
<1>1. /\ state[s] = "built" /\ queue' = queue /\ orphaned' = orphaned /\ pool' = s
      /\ evicted' = IF pool = NoTx THEN evicted ELSE evicted \union {pool}
      /\ outcome' = [x \in Submitters |-> IF x = s THEN "queued" ELSE IF x = pool THEN "gone" ELSE outcome[x]]
      /\ state' = [state EXCEPT ![s] = "sent"]
    BY DEF Headers!Send
<1>2. /\ Exclusive' /\ state' \in [Submitters -> {"idle", "waiting"} \union Holding]
      /\ \A c \in Submitters : state'[c] = IF c = s THEN "sent" ELSE state[c]
  <2>1. state[s] \in Holding \/ (state[s] = "waiting" /\ Headers!my_turn(s))
      BY <1>1 DEF Holding
  <2>2. "sent" \in Holding /\ state' = [state EXCEPT ![s] = "sent"] /\ queue' = queue
      BY <1>1 DEF Holding
  <2> QED
      BY <2>1, <2>2, GoesOn
<1>3. ASSUME ~orphaned
      PROVE  pool = NoTx
  <2>1. state[s] = "built"
      BY <1>1
  <2> QED
      BY <1>3, <2>1, NotItsOwn
<1>4. Headers!EvictedOnlyAfterLostAnswer'
    BY <1>1, <1>3 DEF LockInv, Headers!EvictedOnlyAfterLostAnswer
<1>5. outcome' \in [Submitters -> {"none", "queued", "landed", "gone"}] /\ outcome'[s] = "queued"
    BY <1>1 DEF LockInv, LockShapes
<1>6. LockWatched'
    BY <1>1, <1>2, <1>5 DEF LockWatched
<1> QED
    BY <1>1, <1>2, <1>4, <1>5, <1>6 DEF LockInv, LockShapes

\* The network settles the queued call.
LEMMA NetworkSettles ==
    ASSUME Headers!LockAssumption, LockInv, Headers!Land \/ Headers!Expire
    PROVE  LockInv'
<1>1. /\ pool # NoTx /\ pool' = NoTx
      /\ \E o \in {"landed", "gone"} : outcome' = [outcome EXCEPT ![pool] = o]
      /\ UNCHANGED <<queue, state, evicted, orphaned>>
    BY DEF Headers!Land, Headers!Expire
<1>2. outcome' \in [Submitters -> {"none", "queued", "landed", "gone"}]
    BY <1>1 DEF LockInv, LockShapes
<1> QED
    BY <1>1, <1>2 DEF LockInv, LockShapes, Exclusive, LockWatched, Headers!EvictedOnlyAfterLostAnswer

\* A task sees what became of its call, which is queued no more.
LEMMA EndsSettled ==
    ASSUME Headers!LockAssumption, LockInv, NEW s \in Submitters, Headers!Confirm(s) \/ Headers!TimedOut(s)
    PROVE  LockInv'
<1>1. /\ state[s] = "sent" /\ outcome[s] \in {"landed", "gone"} /\ Headers!Settle(s)
      /\ outcome' = [outcome EXCEPT ![s] = "none"]
      /\ UNCHANGED <<pool, evicted, orphaned>>
    BY DEF Headers!Confirm, Headers!TimedOut
<1>2. /\ Exclusive' /\ queue' \in Seq(Submitters)
      /\ state' \in [Submitters -> {"idle", "waiting"} \union Holding]
      /\ \A c \in Submitters : state'[c] = IF c = s THEN "idle" ELSE state[c]
    BY <1>1, Leaves DEF Holding
<1>3. /\ outcome' \in [Submitters -> {"none", "queued", "landed", "gone"}]
      /\ \A c \in Submitters : c # s => outcome'[c] = outcome[c]
    BY <1>1 DEF LockInv, LockShapes
<1>4. pool # s
    BY <1>1 DEF Headers!LockAssumption, LockInv, LockShapes, LockWatched
<1>5. LockWatched'
    BY <1>1, <1>2, <1>3, <1>4 DEF LockInv, LockShapes, LockWatched
<1> QED
    BY <1>1, <1>2, <1>3, <1>5 DEF LockInv, LockShapes, Headers!EvictedOnlyAfterLostAnswer

\* A task is cut short while its call is queued.
LEMMA EndsUnsure ==
    ASSUME LockInv, NEW s \in Submitters, Headers!AnswerLost(s)
    PROVE  LockInv'
<1>1. /\ state[s] = "sent" /\ Headers!Settle(s) /\ orphaned' = TRUE
      /\ UNCHANGED <<outcome, pool, evicted>>
    BY DEF Headers!AnswerLost
<1>2. /\ Exclusive' /\ queue' \in Seq(Submitters)
      /\ state' \in [Submitters -> {"idle", "waiting"} \union Holding]
    BY <1>1, Leaves DEF Holding
<1> QED
    BY <1>1, <1>2 DEF LockInv, LockShapes, LockWatched, Headers!EvictedOnlyAfterLostAnswer

\* A crash forgets the chain.
LEMMA ChainForgotten ==
    ASSUME LockInv, Headers!Crash
    PROVE  LockInv'
<1>1. /\ queue' = <<>> /\ state' = [s \in Submitters |-> "idle"]
      /\ orphaned' = (orphaned \/ pool # NoTx) /\ UNCHANGED <<outcome, pool, evicted>>
    BY DEF Headers!Crash
<1>2. /\ queue' \in Seq(Submitters) /\ Len(queue') = 0
      /\ \A s \in Submitters : state'[s] = "idle"
    BY <1>1
<1>3. Exclusive'
    BY <1>2 DEF Exclusive
<1> QED
    BY <1>1, <1>2, <1>3 DEF LockInv, LockShapes, LockWatched, Headers!EvictedOnlyAfterLostAnswer

-----------------------------------------------------------------------------
(* The pass, by kinds of steps.                                               *)

\* The two parameters and the first submitter.
LEMMA Parameters ==
    ASSUME Headers!LockAssumption, Headers!SyncAssumption
    PROVE  /\ headers \in Submitters /\ NoTx \notin Submitters
           /\ configuredFrom \in Nat /\ configuredFrom >= 1
           /\ REORG_RESUBMIT_DEPTH \in Nat /\ MAX_HEADERS_PER_SUBMIT \in Nat
           /\ MAX_HEADERS_PER_SUBMIT > REORG_RESUBMIT_DEPTH + 1
           /\ NoTip \notin Seq(Nat)
BY DEF Headers!LockAssumption, Headers!SyncAssumption

\* While no task has been cut short, a header call in the queue is the pass's.
LEMMA CallIsWatched ==
    ASSUME Headers!LockAssumption, Headers!SyncAssumption, LockInv, SyncInv, ~orphaned, pool = headers
    PROVE  pass.at = "submit" /\ state[headers] = "sent" /\ outcome[headers] = "queued" /\ sent = batch
<1>1. headers \in Submitters /\ pool # NoTx
    BY Parameters
<1>2. state[headers] = "sent" /\ outcome[headers] = "queued"
    BY <1>1 DEF LockInv, LockWatched
<1> QED
    BY <1>2 DEF SyncInv, PassShapes, OwnCall

\* A step that leaves the pass and the contract alone, and what it can change.
LEMMA Elsewhere ==
    ASSUME SyncInv, UNCHANGED <<bitcoin, reorgs, stored, tip, pass, batch, sent, emptyCall>>,
           state'[headers] # "idle" <=> state[headers] # "idle",
           pool' = headers => pool = headers,
           ~orphaned' => ~orphaned /\ (Landed' <=> Landed)
    PROVE  SyncInv'
<1>1. UNCHANGED <<bitcoin, reorgs, stored, tip, pass, batch, sent, emptyCall>>
    OBVIOUS
<1>2. PassShapes' /\ SentShapes' /\ TipIsHighest' /\ Headers!NoEmptyCall'
    BY <1>1 DEF SyncInv, PassShapes, SentShapes, TipIsHighest, Headers!NoEmptyCall
<1>3. BatchShapes'
    BY <1>1 DEF SyncInv, BatchShapes, Headers!BatchComplete, First
<1>4. ASSUME ~orphaned'
      PROVE  Worthwhile' /\ OwnCall'
  <2>1. Worthwhile /\ OwnCall /\ (Landed' <=> Landed)
      BY <1>4 DEF SyncInv
  <2>2. (Ahead(First)' <=> Ahead(First)) /\ (Ahead(pass.next)' <=> Ahead(pass.next))
      BY <1>1 DEF First, Ahead
  <2> QED
      BY <1>1, <2>1, <2>2 DEF Worthwhile, OwnCall
<1> QED
    BY <1>2, <1>3, <1>4 DEF SyncInv

\* Bitcoin gets another best block, no lower than the one before.
LEMMA BitcoinMoves ==
    ASSUME Headers!SyncAssumption, SyncInv, bitcoin' \in Seq(Nat), reorgs' \in Nat,
           Len(bitcoin') >= Len(bitcoin),
           UNCHANGED <<stored, tip, sent, pass, batch, emptyCall, faults, Headers!lockVars>>
    PROVE  SyncInv'
<1>1. UNCHANGED <<stored, tip, sent, pass, batch, emptyCall, state, pool, outcome, orphaned>>
    BY DEF Headers!lockVars
<1>2. PassShapes'
    BY <1>1 DEF SyncInv, PassShapes
<1>3. SentShapes' /\ TipIsHighest' /\ Headers!NoEmptyCall'
    BY <1>1 DEF SyncInv, SentShapes, TipIsHighest, Headers!NoEmptyCall
<1>4. BatchShapes'
    BY <1>1 DEF SyncInv, BatchShapes, Headers!BatchComplete, First
<1>5. ~orphaned' => Worthwhile' /\ OwnCall'
  <2>1. /\ Landed' <=> Landed
        /\ Ahead(pass.next)' <=> Ahead(pass.next)
        /\ Ahead(First)' <=> Ahead(First)
      BY <1>1 DEF Landed, First, Ahead
  <2> QED
      BY <1>1, <2>1 DEF SyncInv, Worthwhile, OwnCall
<1> QED
    BY <1>2, <1>3, <1>4, <1>5 DEF SyncInv

\* A pass ends before its task is in the chain, or with it.
LEMMA PassEnds ==
    ASSUME Headers!SyncAssumption, SyncInv, pass' = Headers!NoPass, batch' = <<>>,
           UNCHANGED <<bitcoin, reorgs, stored, tip, sent, emptyCall>>,
           state'[headers] = "idle", pool' = pool,
           ~orphaned' => pool # headers
    PROVE  SyncInv'
<1>1. /\ Headers!NoPass \in [at : {"idle", "hash", "tip", "fetch", "submit"}, height : Nat,
            hash : Seq(Nat), next : Nat]
      /\ Headers!NoPass.at = "idle"
    BY DEF Headers!NoPass
<1>2. PassShapes'
    BY <1>1 DEF SyncInv, PassShapes
<1>3. batch' \in Seq(Seq(Nat)) /\ Len(batch') = 0
    OBVIOUS
<1>4. SentShapes' /\ TipIsHighest' /\ Headers!NoEmptyCall'
    BY DEF SyncInv, SentShapes, TipIsHighest, Headers!NoEmptyCall
<1>5. BatchShapes'
    BY <1>1, <1>3 DEF Headers!SyncAssumption, BatchShapes
<1>6. ~orphaned' => Worthwhile' /\ OwnCall'
    BY <1>1 DEF Worthwhile, Landed, OwnCall
<1> QED
    BY <1>2, <1>4, <1>5, <1>6 DEF SyncInv

-----------------------------------------------------------------------------
(* The steps of a pass.                                                       *)

\* The block of the best chain at a height Bitcoin has reached.
LEMMA BlockAtIs ==
    ASSUME bitcoin \in Seq(Nat), NEW h \in Nat, h <= Len(bitcoin)
    PROVE  Headers!BlockAt(h) \in Seq(Nat) /\ Len(Headers!BlockAt(h)) = h
<1>1. h \in 0..Len(bitcoin) /\ Len(bitcoin) \in Nat
    OBVIOUS
<1> QED
    BY <1>1 DEF Headers!BlockAt

\* A pass that knows the contract's tip starts low enough to be accepted and
\* high enough to reach above it with its first batch.
LEMMA StartIsAhead ==
    ASSUME Headers!LockAssumption, Headers!SyncAssumption, TipIsHighest
    PROVE  /\ Headers!syncStartHeight(tip) \in Nat /\ Headers!syncStartHeight(tip) >= 1
           /\ tip # NoTip => Headers!syncStartHeight(tip) + MAX_HEADERS_PER_SUBMIT > Len(tip) + 1
<1>1. CASE tip = NoTip
    BY <1>1, Parameters DEF Headers!syncStartHeight
<1>2. CASE tip # NoTip
  <2> DEFINE low == Len(tip) - REORG_RESUBMIT_DEPTH
  <2>1. tip \in Seq(Nat) /\ Len(tip) \in Nat /\ low \in Int /\ configuredFrom \in Int
      BY <1>2, Parameters DEF TipIsHighest
  <2>2. Headers!syncStartHeight(tip) = Max({configuredFrom, low})
      BY <1>2 DEF Headers!syncStartHeight, Headers!Max, Max
  <2>3. /\ Max({configuredFrom, low}) \in {configuredFrom, low}
        /\ Max({configuredFrom, low}) >= configuredFrom /\ Max({configuredFrom, low}) >= low
      BY <2>1, MaxOfTwo
  <2> QED
      BY <2>1, <2>2, <2>3, Parameters
<1> QED
    BY <1>1, <1>2

\* The reads of a pass up to its first header.
LEMMA PassReads ==
    ASSUME Headers!LockAssumption, Headers!SyncAssumption, SyncInv, Headers!getTipHeight \/
           Headers!getBlockHash \/ Headers!readContractTip
    PROVE  SyncInv'
<1>1. /\ UNCHANGED <<bitcoin, reorgs, stored, tip, sent, batch, emptyCall, state, pool, outcome, orphaned>>
      /\ batch = <<>> /\ pass.at # "submit" /\ state[headers] = "idle"
      /\ bitcoin \in Seq(Nat) /\ Len(bitcoin) \in Nat /\ Len(bitcoin) >= 1
    BY DEF Headers!getTipHeight, Headers!getBlockHash, Headers!readContractTip, Headers!lockVars,
           SyncInv, PassShapes
<1>2. SentShapes' /\ TipIsHighest' /\ Headers!NoEmptyCall'
    BY <1>1 DEF SyncInv, SentShapes, TipIsHighest, Headers!NoEmptyCall
<1>3. CASE Headers!getTipHeight
  <2>1. pass' = [at |-> "hash", height |-> Len(bitcoin), hash |-> <<>>, next |-> 0]
      BY <1>3 DEF Headers!getTipHeight, Headers!NoPass
  <2> QED
      BY <1>1, <1>2, <2>1 DEF SyncInv, PassShapes, BatchShapes, Worthwhile, OwnCall, Landed
<1>4. CASE Headers!getBlockHash
  <2>1. /\ pass.at = "hash" /\ pass.height \in Nat /\ pass.height <= Len(bitcoin)
        /\ pass' = [pass EXCEPT !.at = "tip", !.hash = Headers!BlockAt(pass.height)]
      BY <1>4, <1>1 DEF Headers!getBlockHash, SyncInv, PassShapes
  <2>2. Headers!BlockAt(pass.height) \in Seq(Nat) /\ Len(Headers!BlockAt(pass.height)) = pass.height
      BY <1>1, <2>1, BlockAtIs
  <2>3. PassShapes'
      BY <1>1, <2>1, <2>2 DEF SyncInv, PassShapes
  <2>4. pass'.at = "tip"
      BY <2>1 DEF SyncInv, PassShapes
  <2>5. BatchShapes'
      BY <1>1, <2>4 DEF SyncInv, BatchShapes
  <2>6. ~orphaned' => Worthwhile' /\ OwnCall'
      BY <1>1, <2>4 DEF SyncInv, Worthwhile, OwnCall, Landed
  <2> QED
      BY <1>2, <2>3, <2>5, <2>6 DEF SyncInv
<1>5. CASE Headers!readContractTip /\ ~Headers!hasNewHeaders(pass.hash, tip)
  <2>1. pass' = Headers!NoPass
      BY <1>5 DEF Headers!readContractTip, Headers!ContractTip
  <2>2. ~orphaned' => OwnCall
      BY <1>1 DEF SyncInv
  <2>3. PassShapes' /\ pass'.at = "idle"
      BY <1>1, <2>1 DEF SyncInv, PassShapes, Headers!NoPass
  <2>4. BatchShapes'
      BY <1>1, <2>3 DEF SyncInv, BatchShapes
  <2>5. ~orphaned' => Worthwhile' /\ OwnCall'
      BY <1>1, <2>2, <2>3 DEF Worthwhile, OwnCall, Landed
  <2> QED
      BY <1>2, <2>3, <2>4, <2>5 DEF SyncInv
<1>6. CASE Headers!readContractTip /\ Headers!hasNewHeaders(pass.hash, tip)
  <2>1. /\ pass.at = "tip" /\ Len(pass.hash) = pass.height /\ pass.height \in Nat
        /\ pass' = [pass EXCEPT !.at = "fetch", !.next = Headers!syncStartHeight(tip)]
      BY <1>6, <1>1 DEF Headers!readContractTip, Headers!ContractTip, SyncInv, PassShapes
  <2>2. /\ Headers!syncStartHeight(tip) \in Nat /\ Headers!syncStartHeight(tip) >= 1
        /\ tip # NoTip => Headers!syncStartHeight(tip) + MAX_HEADERS_PER_SUBMIT > Len(tip) + 1
      BY StartIsAhead DEF SyncInv
  <2>3. PassShapes'
      BY <1>1, <2>1, <2>2 DEF SyncInv, PassShapes
  <2>4. /\ pass'.at = "fetch" /\ pass'.next = Headers!syncStartHeight(tip)
        /\ pass'.height = pass.height /\ pass'.hash = pass.hash
      BY <2>1 DEF SyncInv, PassShapes
  <2>5. First' = Headers!syncStartHeight(tip)
      BY <1>1, <2>2, <2>4 DEF First
  <2>6. BatchShapes'
      BY <1>1, <2>2, <2>4, <2>5 DEF SyncInv, BatchShapes
  <2>7. Ahead(First)'
    <3>1. tip # NoTip => tip \in Seq(Nat) /\ Len(tip) \in Nat
        BY DEF SyncInv, TipIsHighest
    <3>2. tip # NoTip => pass.height > Len(tip) \/ (pass.height = Len(tip) /\ pass.hash # tip)
        BY <1>6, <2>1, <3>1 DEF Headers!hasNewHeaders
    <3> QED
        BY <1>1, <2>2, <2>4, <2>5, <3>2 DEF Ahead
  <2>8. ~orphaned' => Worthwhile' /\ OwnCall'
      BY <1>1, <2>4, <2>7 DEF SyncInv, Worthwhile, OwnCall, Landed
  <2> QED
      BY <1>2, <2>3, <2>6, <2>8 DEF SyncInv
<1> QED
    BY <1>3, <1>4, <1>5, <1>6

\* The next header joins the batch.
LEMMA HeaderJoins ==
    ASSUME Headers!LockAssumption, Headers!SyncAssumption, LockInv, SyncInv, Headers!getHeaderHex
    PROVE  SyncInv'
<1> DEFINE h == Headers!BlockAt(pass.next)
<1>1. /\ UNCHANGED <<bitcoin, reorgs, stored, tip, sent, emptyCall, state, pool, outcome, orphaned>>
      /\ pass.at = "fetch" /\ pass.next <= pass.height /\ ~Headers!BatchComplete
      /\ batch' = Append(batch, h) /\ pass' = [pass EXCEPT !.next = pass.next + 1]
    BY DEF Headers!getHeaderHex, Headers!lockVars
<1>2. /\ bitcoin \in Seq(Nat) /\ Len(bitcoin) \in Nat /\ pass.next \in Nat /\ pass.height \in Nat
      /\ pass.height <= Len(bitcoin) /\ state[headers] = "idle"
      /\ batch \in Seq(Seq(Nat)) /\ Len(batch) \in Nat /\ MAX_HEADERS_PER_SUBMIT \in Nat
  <2>1. /\ bitcoin \in Seq(Nat) /\ Len(bitcoin) \in Nat /\ pass.next \in Nat /\ pass.height \in Nat
        /\ pass.height <= Len(bitcoin) /\ state[headers] = "idle"
      BY <1>1 DEF SyncInv, PassShapes
  <2>2. batch \in Seq(Seq(Nat)) /\ Len(batch) \in Nat
      BY DEF SyncInv, BatchShapes
  <2> QED
      BY <2>1, <2>2, Parameters
<1>3. h \in Seq(Nat) /\ Len(h) = pass.next
    BY <1>1, <1>2, BlockAtIs
<1>4. /\ pass'.at = "fetch" /\ pass'.next = pass.next + 1 /\ pass'.height = pass.height /\ pass'.hash = pass.hash
    BY <1>1 DEF SyncInv, PassShapes
<1>5. PassShapes'
  <2>1. pass' \in [at : {"idle", "hash", "tip", "fetch", "submit"}, height : Nat, hash : Seq(Nat), next : Nat]
    <3>1. /\ pass \in [at : {"idle", "hash", "tip", "fetch", "submit"}, height : Nat,
                hash : Seq(Nat), next : Nat]
          /\ pass.next + 1 \in Nat
        BY <1>2 DEF SyncInv, PassShapes
    <3> QED
        BY <1>1, <3>1
  <2>2. Len(bitcoin) >= 1 /\ pass.height \in 1..Len(bitcoin) /\ Len(pass.hash) = pass.height
      BY <1>1 DEF SyncInv, PassShapes
  <2> QED
      BY <1>1, <1>2, <1>4, <2>1, <2>2 DEF SyncInv, PassShapes
<1>6. /\ batch' \in Seq(Seq(Nat)) /\ Len(batch') = Len(batch) + 1
      /\ \A i \in 1..Len(batch) : batch'[i] = batch[i]
      /\ batch'[Len(batch) + 1] = h
    BY <1>1, <1>2, <1>3
<1>7. First' = First /\ First = pass.next - Len(batch) /\ First \in Int
  <2>1. First = pass.next - Len(batch) /\ First' = pass'.next - Len(batch')
      BY DEF First
  <2> DEFINE n == pass'.next
             l == Len(batch')
  <2>2. n = pass.next + 1 /\ l = Len(batch) + 1
      BY <1>4, <1>6
  <2> HIDE DEF n, l
  <2>3. pass.next \in Nat /\ Len(batch) \in Nat
      BY <1>2
  <2>4. n - l = pass.next - Len(batch)
      BY <2>2, <2>3
  <2>5. First' = n - l
      BY <2>1 DEF n, l
  <2> QED
      BY <2>1, <2>3, <2>4, <2>5
<1>8. Len(batch') <= MAX_HEADERS_PER_SUBMIT
    BY <1>1, <1>2, <1>6 DEF Headers!BatchComplete, SyncInv, BatchShapes
<1>9. \A i \in 1..Len(batch') : Len(batch'[i]) = First + i - 1
  <2>1. ASSUME NEW i \in 1..Len(batch')
        PROVE  Len(batch'[i]) = First + i - 1
    <3>1. CASE i \in 1..Len(batch)
        BY <1>6, <3>1 DEF SyncInv, BatchShapes
    <3>2. CASE i = Len(batch) + 1
        BY <1>2, <1>3, <1>6, <1>7, <3>2
    <3> QED
        BY <1>2, <1>6, <3>1, <3>2
  <2> QED
      BY <2>1
<1>10. BatchShapes'
  <2>1. First >= 1 /\ pass'.next <= pass'.height + 1
      BY <1>1, <1>2, <1>4 DEF SyncInv, BatchShapes
  <2> QED
      BY <1>4, <1>6, <1>7, <1>8, <1>9, <2>1 DEF BatchShapes
<1>11. SentShapes' /\ TipIsHighest' /\ Headers!NoEmptyCall'
    BY <1>1 DEF SyncInv, SentShapes, TipIsHighest, Headers!NoEmptyCall
<1>12. ASSUME ~orphaned'
       PROVE  Worthwhile' /\ OwnCall'
  <2>1. Worthwhile /\ OwnCall /\ ~Landed /\ ~Landed'
      BY <1>1, <1>4, <1>12 DEF SyncInv, Landed
  <2>2. Ahead(First)
      BY <1>1, <2>1 DEF Worthwhile
  <2>3. Ahead(First)'
      BY <1>1, <1>4, <1>7, <2>2 DEF Ahead
  <2>4. pool # headers
      BY <1>1, <1>12, CallIsWatched
  <2> QED
      BY <1>1, <2>1, <2>3, <2>4 DEF Worthwhile, OwnCall
<1> QED
    BY <1>5, <1>10, <1>11, <1>12 DEF SyncInv

\* A full or last batch asks for the account.
LEMMA BatchWaits ==
    ASSUME Headers!LockAssumption, Headers!SyncAssumption, LockInv, SyncInv, Headers!submitHeadersOnChain
    PROVE  SyncInv'
<1>1. /\ UNCHANGED <<bitcoin, reorgs, stored, tip, sent, batch, emptyCall, pool, outcome, orphaned>>
      /\ pass.at = "fetch" /\ Headers!BatchComplete /\ pass' = [pass EXCEPT !.at = "submit"]
      /\ state' = [state EXCEPT ![headers] = "waiting"]
    BY DEF Headers!submitHeadersOnChain, Headers!withAccountLock
<1>2. state'[headers] = "waiting"
    BY <1>1, Parameters DEF LockInv, LockShapes
<1>3. /\ pass'.at = "submit" /\ pass'.next = pass.next /\ pass'.height = pass.height /\ pass'.hash = pass.hash
      /\ pass' \in [at : {"idle", "hash", "tip", "fetch", "submit"}, height : Nat, hash : Seq(Nat),
            next : Nat]
    BY <1>1 DEF SyncInv, PassShapes
<1>4. PassShapes'
    BY <1>1, <1>2, <1>3 DEF SyncInv, PassShapes
<1>5. First' = First /\ (Headers!BatchComplete' <=> Headers!BatchComplete)
    BY <1>1, <1>3 DEF First, Headers!BatchComplete
<1>6. batch # <<>>
  <2>1. Len(batch) = MAX_HEADERS_PER_SUBMIT \/ batch # <<>>
      BY <1>1 DEF Headers!BatchComplete
  <2> QED
      BY <2>1, Parameters
<1>7. BatchShapes'
    BY <1>1, <1>3, <1>5, <1>6 DEF SyncInv, BatchShapes
<1>8. SentShapes' /\ TipIsHighest' /\ Headers!NoEmptyCall'
    BY <1>1 DEF SyncInv, SentShapes, TipIsHighest, Headers!NoEmptyCall
<1>9. ASSUME ~orphaned'
      PROVE  Worthwhile' /\ OwnCall'
  <2>1. ~Landed /\ ~Landed' /\ Worthwhile /\ OwnCall
      BY <1>1, <1>2, <1>9 DEF SyncInv, Landed
  <2>2. Ahead(First)
      BY <1>1, <1>6, <2>1 DEF Worthwhile
  <2>3. Ahead(First)'
      BY <1>1, <1>3, <1>5, <2>2 DEF Ahead
  <2> QED
      BY <1>1, <2>1, <2>3 DEF Worthwhile, OwnCall
<1> QED
    BY <1>4, <1>7, <1>8, <1>9 DEF SyncInv

\* A pass ends without a call: nothing to fetch, or a read has failed.
LEMMA EndsUncalled ==
    ASSUME Headers!LockAssumption, Headers!SyncAssumption, LockInv, SyncInv, Headers!PassDone \/
           Headers!ReadFails
    PROVE  SyncInv'
<1>1. /\ pass' = Headers!NoPass /\ pass.at # "submit" /\ pass.at # "idle"
      /\ UNCHANGED <<bitcoin, reorgs, stored, tip, sent, emptyCall, state, pool, orphaned>>
    BY DEF Headers!PassDone, Headers!ReadFails, Headers!lockVars
<1>2. batch' = <<>>
    BY DEF Headers!PassDone, Headers!ReadFails
<1>3. state'[headers] = "idle"
    BY <1>1 DEF SyncInv, PassShapes
<1>4. ~orphaned' => pool # headers
    BY <1>1, CallIsWatched
<1> QED
    BY <1>1, <1>2, <1>3, <1>4, PassEnds

\* The task of a pass ends without its call being confirmed, or all tasks do.
LEMMA EndsUnconfirmed ==
    ASSUME Headers!LockAssumption, Headers!SyncAssumption, LockInv, SyncInv,
           Headers!HeadersNotSent \/ Headers!HeadersRejected \/ Headers!HeadersTimedOut \/
           Headers!HeadersAnswerLost \/ Headers!ProcessDies
    PROVE  SyncInv'
<1>1. /\ pass' = Headers!NoPass /\ batch' = <<>> /\ headers \in Submitters
      /\ UNCHANGED <<bitcoin, reorgs, stored, tip, sent, emptyCall>>
    BY Parameters DEF Headers!HeadersNotSent, Headers!HeadersRejected, Headers!HeadersTimedOut,
                      Headers!HeadersAnswerLost, Headers!ProcessDies, Headers!PassFails
<1>2. CASE Headers!HeadersNotSent \/ Headers!HeadersRejected
  <2>1. state[headers] = "built" /\ Headers!Settle(headers) /\ UNCHANGED <<pool, orphaned>>
      BY <1>2 DEF Headers!HeadersNotSent, Headers!HeadersRejected, Headers!NotSent, Headers!Rejected
  <2>2. state'[headers] = "idle"
      BY <1>1, <2>1 DEF Headers!Settle, LockInv, LockShapes
  <2>3. ~orphaned' => pool # headers
      BY <1>1, <2>1, CallIsWatched
  <2> QED
      BY <1>1, <2>1, <2>2, <2>3, PassEnds
<1>3. CASE Headers!HeadersTimedOut
  <2>1. outcome[headers] = "gone" /\ Headers!Settle(headers) /\ UNCHANGED <<pool, orphaned>>
      BY <1>3 DEF Headers!HeadersTimedOut, Headers!TimedOut
  <2>2. state'[headers] = "idle"
      BY <1>1, <2>1 DEF Headers!Settle, LockInv, LockShapes
  <2>3. ~orphaned' => pool # headers
      BY <1>1, <2>1, CallIsWatched
  <2> QED
      BY <1>1, <2>1, <2>2, <2>3, PassEnds
<1>4. CASE Headers!HeadersAnswerLost
  <2>1. orphaned' /\ Headers!Settle(headers) /\ UNCHANGED pool
      BY <1>4 DEF Headers!HeadersAnswerLost, Headers!AnswerLost
  <2>2. state'[headers] = "idle"
      BY <1>1, <2>1 DEF Headers!Settle, LockInv, LockShapes
  <2> QED
      BY <1>1, <2>1, <2>2, PassEnds
<1>5. CASE Headers!ProcessDies
  <2>1. /\ state' = [s \in Submitters |-> "idle"] /\ UNCHANGED pool
        /\ orphaned' = (orphaned \/ pool # NoTx)
      BY <1>5 DEF Headers!ProcessDies, Headers!Crash
  <2>2. state'[headers] = "idle"
      BY <1>1, <2>1
  <2>3. ~orphaned' => pool # headers
      BY <1>1, <2>1, Parameters
  <2> QED
      BY <1>1, <2>1, <2>2, <2>3, PassEnds
<1> QED
    BY <1>2, <1>3, <1>4, <1>5

\* The header task builds its transaction.
LEMMA HeadersBuilt ==
    ASSUME Headers!LockAssumption, Headers!SyncAssumption, LockInv, SyncInv, Headers!BuildHeaders
    PROVE  SyncInv'
<1>1. /\ state[headers] = "waiting" /\ state'[headers] = "built"
      /\ UNCHANGED <<bitcoin, reorgs, stored, tip, pass, batch, sent, emptyCall, pool, orphaned>>
    BY Parameters DEF Headers!BuildHeaders, Headers!Build, LockInv, LockShapes, Headers!syncVars
<1>2. ~Landed /\ ~Landed'
    BY <1>1 DEF Landed
<1> QED
    BY <1>1, <1>2, Elsewhere

\* The header task sends it.
LEMMA HeadersSent ==
    ASSUME Headers!LockAssumption, Headers!SyncAssumption, LockInv, SyncInv, Headers!SendHeaders
    PROVE  SyncInv'
<1>1. /\ UNCHANGED <<bitcoin, reorgs, stored, tip, pass, batch, emptyCall, orphaned>>
      /\ state[headers] = "built" /\ pool' = headers /\ sent' = batch
      /\ headers \in Submitters
    BY Parameters DEF Headers!SendHeaders, Headers!Send
<1>2. state'[headers] = "sent" /\ outcome'[headers] = "queued"
    BY <1>1 DEF Headers!SendHeaders, Headers!Send, LockInv, LockShapes
<1>3. pass.at = "submit" /\ batch # <<>>
    BY <1>1 DEF SyncInv, PassShapes, BatchShapes
<1>4. PassShapes'
    BY <1>1, <1>2, <1>3 DEF SyncInv, PassShapes
<1>5. BatchShapes'
    BY <1>1 DEF SyncInv, BatchShapes, Headers!BatchComplete, First
<1>6. SentShapes'
  <2>1. /\ batch \in Seq(Seq(Nat)) /\ Len(batch) \in Nat /\ Len(batch) \in 1..Len(batch)
        /\ \A i \in 1..Len(batch) : Len(batch[i]) = First + i - 1
      BY <1>3 DEF SyncInv, BatchShapes
  <2>2. First \in Int
      BY <2>1 DEF First, SyncInv, PassShapes
  <2>3. ASSUME NEW i \in 1..Len(batch)
        PROVE  Len(batch[i]) <= Len(batch[Len(batch)])
    <3>1. Len(batch[i]) = First + i - 1 /\ Len(batch[Len(batch)]) = First + Len(batch) - 1
        BY <2>1
    <3>2. i <= Len(batch) /\ Len(batch) \in Nat /\ i \in Nat
        BY <2>1
    <3> QED
        BY <2>2, <3>1, <3>2
  <2> QED
      BY <1>1, <1>3, <2>1, <2>3 DEF SentShapes
<1>7. TipIsHighest' /\ Headers!NoEmptyCall'
    BY <1>1 DEF SyncInv, TipIsHighest, Headers!NoEmptyCall
<1>8. ASSUME ~orphaned'
      PROVE  Worthwhile' /\ OwnCall'
  <2>1. ~Landed /\ ~Landed' /\ Worthwhile
      BY <1>1, <1>2, <1>8 DEF SyncInv, Landed
  <2>2. Ahead(First)' <=> Ahead(First)
      BY <1>1 DEF First, Ahead
  <2> QED
      BY <1>1, <2>1, <2>2 DEF Worthwhile, OwnCall
<1> QED
    BY <1>4, <1>5, <1>6, <1>7, <1>8 DEF SyncInv

\* The task sees its call applied, and the pass goes on above it.
LEMMA HeadersSeen ==
    ASSUME Headers!LockAssumption, Headers!SyncAssumption, LockInv, SyncInv, Headers!HeadersConfirmed
    PROVE  SyncInv'
<1>1. /\ UNCHANGED <<bitcoin, reorgs, stored, tip, sent, emptyCall, pool, orphaned>>
      /\ state[headers] = "sent" /\ outcome[headers] = "landed" /\ headers \in Submitters
      /\ pass' = [pass EXCEPT !.at = "fetch"] /\ batch' = <<>>
    BY Parameters DEF Headers!HeadersConfirmed, Headers!Confirm
<1>2. state'[headers] = "idle"
    BY <1>1 DEF Headers!HeadersConfirmed, Headers!Confirm, Headers!Settle, LockInv, LockShapes
<1>3. pass.at = "submit" /\ Landed
    BY <1>1 DEF SyncInv, PassShapes, Landed
<1>4. /\ pass'.at = "fetch" /\ pass'.next = pass.next /\ pass'.height = pass.height /\ pass'.hash = pass.hash
      /\ pass' \in [at : {"idle", "hash", "tip", "fetch", "submit"}, height : Nat, hash : Seq(Nat),
            next : Nat]
    BY <1>1 DEF SyncInv, PassShapes
<1>5. PassShapes'
    BY <1>1, <1>2, <1>3, <1>4 DEF SyncInv, PassShapes
<1>6. /\ Len(batch) \in Nat /\ pass.next \in Nat /\ pass.next - Len(batch) >= 1
      /\ batch' \in Seq(Seq(Nat)) /\ Len(batch') = 0
  <2>1. pass.next \in Nat
      BY DEF SyncInv, PassShapes
  <2>2. Len(batch) \in Nat /\ pass.next - Len(batch) >= 1
      BY <1>3 DEF SyncInv, BatchShapes, First
  <2> QED
      BY <1>1, <2>1, <2>2
<1>7. First' = pass.next
    BY <1>4, <1>6 DEF First
<1>8. pass.next >= 1
    BY <1>6
<1>9. BatchShapes'
    BY <1>1, <1>4, <1>6, <1>7, <1>8, Parameters DEF BatchShapes
<1>10. SentShapes' /\ TipIsHighest' /\ Headers!NoEmptyCall'
    BY <1>1 DEF SyncInv, SentShapes, TipIsHighest, Headers!NoEmptyCall
<1>11. ASSUME ~orphaned'
       PROVE  Worthwhile' /\ OwnCall'
  <2>1. Worthwhile /\ ~Landed' /\ pool # headers
      BY <1>1, <1>2, <1>11, CallIsWatched DEF SyncInv, Landed
  <2>2. pass.next <= pass.height => Ahead(pass.next)
      BY <1>3, <2>1 DEF Worthwhile
  <2>3. pass.next <= pass.height => Ahead(First)'
      BY <1>1, <1>4, <1>7, <2>2 DEF Ahead
  <2> QED
      BY <1>1, <1>4, <2>1, <2>3 DEF Worthwhile, OwnCall
<1> QED
    BY <1>5, <1>9, <1>10, <1>11 DEF SyncInv

\* The call expires in the queue.
LEMMA HeadersGone ==
    ASSUME Headers!LockAssumption, Headers!SyncAssumption, LockInv, SyncInv, Headers!HeadersExpire
    PROVE  SyncInv'
<1>1. /\ UNCHANGED <<bitcoin, reorgs, stored, tip, pass, batch, emptyCall, state, orphaned>>
      /\ pool = headers /\ pool' = NoTx /\ sent' = <<>> /\ headers # NoTx
      /\ outcome' = [outcome EXCEPT ![headers] = "gone"]
    BY Parameters DEF Headers!HeadersExpire, Headers!Expire
<1>2. PassShapes' /\ TipIsHighest' /\ Headers!NoEmptyCall'
    BY <1>1 DEF SyncInv, PassShapes, TipIsHighest, Headers!NoEmptyCall
<1>3. BatchShapes'
    BY <1>1 DEF SyncInv, BatchShapes, Headers!BatchComplete, First
<1>4. SentShapes'
    BY <1>1 DEF SentShapes
<1>5. ASSUME ~orphaned'
      PROVE  Worthwhile' /\ OwnCall'
  <2>1. outcome[headers] = "queued" /\ outcome'[headers] = "gone"
      BY <1>1, <1>5, CallIsWatched, Parameters DEF LockInv, LockShapes
  <2>2. ~Landed /\ ~Landed' /\ Worthwhile
      BY <1>1, <1>5, <2>1 DEF Landed, SyncInv
  <2>3. Ahead(First)' <=> Ahead(First)
      BY <1>1 DEF First, Ahead
  <2> QED
      BY <1>1, <2>2, <2>3 DEF Worthwhile, OwnCall
<1> QED
    BY <1>2, <1>3, <1>4, <1>5 DEF SyncInv

\* A call that carries a batch ahead of the tip stores its last header.
LEMMA LastIsNew ==
    ASSUME Headers!LockAssumption, Headers!SyncAssumption, SyncInv, pass.at = "submit", tip # NoTip,
           Ahead(First), Len(pass.hash) # Len(tip) \/ pass.hash = tip
    PROVE  /\ batch # <<>> /\ Len(batch) \in 1..Len(batch) /\ batch[Len(batch)] \in Seq(Nat)
           /\ Len(batch[Len(batch)]) = pass.next - 1 /\ pass.next - 1 > Len(tip)
<1>1. /\ pass.next \in Nat /\ pass.height \in Nat /\ Len(pass.hash) = pass.height
    BY DEF SyncInv, PassShapes
<1>2. /\ batch \in Seq(Seq(Nat)) /\ batch # <<>> /\ Len(batch) \in Nat /\ Len(batch) \in 1..Len(batch)
      /\ Len(batch) <= MAX_HEADERS_PER_SUBMIT /\ Headers!BatchComplete
      /\ Len(batch[Len(batch)]) = First + Len(batch) - 1
      /\ batch[Len(batch)] \in Seq(Nat)
    BY DEF SyncInv, BatchShapes
<1>3. First = pass.next - Len(batch)
    BY DEF First
<1>4. tip \in Seq(Nat) /\ Len(tip) \in Nat
    BY DEF SyncInv, TipIsHighest
<1>5. pass.height > Len(tip) /\ First + MAX_HEADERS_PER_SUBMIT > Len(tip) + 1
    BY <1>1, <1>4 DEF Ahead
<1>6. Len(batch) = MAX_HEADERS_PER_SUBMIT \/ pass.next > pass.height
    BY <1>2 DEF Headers!BatchComplete
<1>7. pass.next \in Nat /\ Len(batch) \in Nat
    BY <1>1, <1>2
<1>8. First + Len(batch) - 1 = pass.next - 1 /\ First + Len(batch) = pass.next
    BY <1>3, <1>7
<1>9. pass.next - 1 > Len(tip)
    BY <1>1, <1>4, <1>5, <1>6, <1>8, Parameters
<1> QED
    BY <1>2, <1>8, <1>9

\* The call is applied: it has stored something, or the pass knew of a tie.
LEMMA HeadersApplied ==
    ASSUME Headers!LockAssumption, Headers!SyncAssumption, LockInv, SyncInv, Headers!HeadersLand
    PROVE  SyncInv'
<1> DEFINE last == sent[Len(sent)]
           worth == Len(pass.hash) # Len(tip) \/ pass.hash = tip
<1>1. /\ UNCHANGED <<bitcoin, reorgs, pass, batch, state, orphaned>>
      /\ pool = headers /\ pool' = NoTx /\ sent' = <<>> /\ headers # NoTx
      /\ outcome' = [outcome EXCEPT ![headers] = "landed"]
    BY Parameters DEF Headers!HeadersLand, Headers!Land
<1>2. /\ tip # NoTip /\ stored' = stored \union {sent[i] : i \in DOMAIN sent}
      /\ tip' = IF Len(last) > Len(tip) THEN last ELSE tip
    BY DEF Headers!HeadersLand, Headers!submit_headers, Headers!submit_ok,
           Headers!Range, Range, Headers!Last, Last
<1>3. emptyCall' = (emptyCall \/ ({sent[i] : i \in DOMAIN sent} \subseteq stored /\ ~orphaned /\ worth))
    BY DEF Headers!HeadersLand, Headers!Range, Range
<1>4. /\ sent \in Seq(Seq(Nat)) /\ sent # <<>> /\ Len(sent) \in 1..Len(sent) /\ DOMAIN sent = 1..Len(sent)
      /\ last \in Seq(Nat) /\ Len(last) \in Nat
      /\ \A i \in 1..Len(sent) : sent[i] \in Seq(Nat) /\ Len(sent[i]) \in Nat /\ Len(sent[i]) <= Len(last)
  <2>1. /\ sent \in Seq(Seq(Nat)) /\ sent # <<>>
        /\ \A i \in 1..Len(sent) : Len(sent[i]) <= Len(last)
      BY <1>1 DEF SyncInv, SentShapes
  <2>2. /\ Len(sent) \in 1..Len(sent) /\ DOMAIN sent = 1..Len(sent)
        /\ \A i \in 1..Len(sent) : sent[i] \in Seq(Nat)
      BY <2>1
  <2>3. \A s \in Seq(Nat) : Len(s) \in Nat
      OBVIOUS
  <2> QED
      BY <2>1, <2>2, <2>3
<1>5. /\ tip \in Seq(Nat) /\ Len(tip) \in Nat /\ stored \subseteq Seq(Nat)
      /\ \A b \in stored : Len(b) \in Nat /\ Len(b) <= Len(tip)
    BY <1>2 DEF SyncInv, TipIsHighest
<1> HIDE DEF last, worth
<1>6. TipIsHighest'
  <2>1. tip' \in Seq(Nat) /\ Len(tip') \in Nat /\ Len(tip') >= Len(tip) /\ Len(tip') >= Len(last)
      BY <1>2, <1>4, <1>5
  <2>2. ASSUME NEW b \in stored'
        PROVE  b \in Seq(Nat) /\ Len(b) <= Len(tip')
    <3>1. CASE b \in stored
        BY <1>5, <2>1, <3>1
    <3>2. CASE b \in {sent[i] : i \in DOMAIN sent}
      <4>1. PICK i \in 1..Len(sent) : b = sent[i]
          BY <1>4, <3>2
      <4>2. b \in Seq(Nat) /\ Len(b) \in Nat /\ Len(b) <= Len(last)
          BY <1>4, <4>1
      <4> QED
          BY <1>4, <2>1, <4>2
    <3> QED
        BY <1>2, <3>1, <3>2
  <2> QED
      BY <2>1, <2>2 DEF TipIsHighest
<1>7. PassShapes' /\ SentShapes'
    BY <1>1 DEF SyncInv, PassShapes, SentShapes
<1>8. BatchShapes'
    BY <1>1 DEF SyncInv, BatchShapes, Headers!BatchComplete, First
<1>9. ASSUME ~orphaned
      PROVE  /\ pass.at = "submit" /\ state[headers] = "sent" /\ sent = batch /\ batch # <<>>
             /\ Ahead(First)
             /\ worth => Len(last) = pass.next - 1 /\ pass.next - 1 > Len(tip)
  <2>1. pass.at = "submit" /\ state[headers] = "sent" /\ outcome[headers] = "queued" /\ sent = batch
      BY <1>1, <1>9, CallIsWatched
  <2>2. batch # <<>>
      BY <1>4, <2>1
  <2>3. Ahead(First)
      BY <1>9, <2>1, <2>2 DEF SyncInv, Worthwhile, Landed
  <2>4. worth => Len(last) = pass.next - 1 /\ pass.next - 1 > Len(tip)
      BY <1>2, <2>1, <2>3, LastIsNew DEF last, worth
  <2> QED
      BY <2>1, <2>2, <2>3, <2>4
<1>10. Headers!NoEmptyCall'
  <2>1. ASSUME ~orphaned, worth, {sent[i] : i \in DOMAIN sent} \subseteq stored
        PROVE  FALSE
    <3>1. last \in stored
        BY <1>4, <2>1 DEF last
    <3>2. Len(last) <= Len(tip) /\ Len(last) > Len(tip)
        BY <1>5, <1>9, <2>1, <3>1
    <3> QED
        BY <1>4, <1>5, <3>2
  <2>2. ~emptyCall
      BY DEF SyncInv, Headers!NoEmptyCall
  <2> QED
      BY <1>3, <2>1, <2>2 DEF Headers!NoEmptyCall
<1>11. ASSUME ~orphaned'
       PROVE  Worthwhile' /\ OwnCall'
  <2>1. /\ ~orphaned /\ pass.at = "submit" /\ state[headers] = "sent" /\ outcome'[headers] = "landed"
        /\ Ahead(First) /\ batch # <<>>
      BY <1>1, <1>9, <1>11, Parameters DEF LockInv, LockShapes
  <2>2. Landed'
      BY <1>1, <2>1 DEF Landed
  <2>3. /\ pass.next \in Nat /\ pass.height \in Nat /\ Len(pass.hash) = pass.height
        /\ MAX_HEADERS_PER_SUBMIT \in Nat /\ MAX_HEADERS_PER_SUBMIT > 0
      BY <2>1, Parameters DEF SyncInv, PassShapes
  <2>4. ASSUME pass.next <= pass.height
        PROVE  Ahead(pass.next)'
    <3>1. CASE worth
      <4>1. Len(last) = pass.next - 1 /\ pass.next - 1 > Len(tip)
          BY <1>9, <2>1, <3>1
      <4>2. Len(tip') = pass.next - 1
          BY <1>2, <4>1
      <4>3. pass.next + MAX_HEADERS_PER_SUBMIT > Len(tip') + 1 /\ pass.height > Len(tip')
          BY <2>3, <2>4, <4>2
      <4> QED
          BY <1>1, <4>3 DEF Ahead
    <3>2. CASE ~worth
      <4>1. pass.height = Len(tip)
          BY <2>3, <3>2 DEF worth
      <4>2. First + MAX_HEADERS_PER_SUBMIT > Len(tip) + 1
          BY <1>2, <2>1 DEF Ahead
      <4>3. Len(batch) = MAX_HEADERS_PER_SUBMIT
        <5>1. Headers!BatchComplete
            BY <2>1 DEF SyncInv, BatchShapes
        <5> QED
            BY <2>3, <2>4, <5>1 DEF Headers!BatchComplete
      <4>4. First = pass.next - MAX_HEADERS_PER_SUBMIT
          BY <4>3 DEF First
      <4> QED
          BY <1>5, <2>3, <2>4, <4>1, <4>2, <4>4
    <3> QED
        BY <3>1, <3>2
  <2>5. pass.next <= pass.height => Ahead(pass.next)'
      BY <2>4
  <2> QED
      BY <1>1, <2>2, <2>5 DEF Worthwhile, OwnCall
<1> QED
    BY <1>6, <1>7, <1>8, <1>10, <1>11 DEF SyncInv

-----------------------------------------------------------------------------
(* The other submitters, and every step.                                      *)

\* A task of another submitter does not touch the header task or its call.
LEMMA OthersApart ==
    ASSUME Headers!LockAssumption, Headers!SyncAssumption, LockInv, SyncInv, NEW s \in Submitters,
           Headers!ReleaseTask(s) \/ Headers!ReleaseAsked(s) \/ Headers!ReleaseAnswerLost(s)
    PROVE  SyncInv'
<1>1. headers \in Submitters /\ headers # NoTx /\ s # headers
    BY Parameters DEF Headers!ReleaseTask, Headers!ReleaseAsked, Headers!ReleaseAnswerLost
<1>2. UNCHANGED <<bitcoin, reorgs, stored, tip, pass, batch, sent, emptyCall>>
    BY DEF Headers!ReleaseTask, Headers!ReleaseAsked, Headers!ReleaseAnswerLost, Headers!syncVars
<1>3. \E q : state' = [state EXCEPT ![s] = q]
    BY DEF Headers!ReleaseTask, Headers!ReleaseAsked, Headers!ReleaseAnswerLost, Headers!Build,
           Headers!NotSent, Headers!Send, Headers!Rejected, Headers!Confirm,
           Headers!TimedOut, Headers!AnswerLost, Headers!Settle, Headers!withAccountLock
<1>4. state'[headers] = state[headers]
    BY <1>1, <1>3 DEF LockInv, LockShapes
<1>5. pool' = pool \/ pool' = s
    BY DEF Headers!ReleaseTask, Headers!ReleaseAsked, Headers!ReleaseAnswerLost, Headers!Build,
           Headers!NotSent, Headers!Send, Headers!Rejected, Headers!Confirm,
           Headers!TimedOut, Headers!AnswerLost, Headers!withAccountLock
<1>6. orphaned' = orphaned \/ orphaned' = TRUE
    BY DEF Headers!ReleaseTask, Headers!ReleaseAsked, Headers!ReleaseAnswerLost, Headers!Build,
           Headers!NotSent, Headers!Send, Headers!Rejected, Headers!Confirm,
           Headers!TimedOut, Headers!AnswerLost, Headers!withAccountLock
<1>7. ASSUME ~orphaned'
      PROVE  outcome'[headers] = outcome[headers]
  <2>1. CASE Headers!Send(s)
    <3>1. ~orphaned /\ state[s] = "built"
        BY <1>6, <1>7, <2>1 DEF Headers!Send
    <3>2. pool = NoTx
        BY <3>1, NotItsOwn
    <3>3. outcome' = [x \in Submitters |-> IF x = s THEN "queued" ELSE IF x = pool THEN "gone" ELSE outcome[x]]
        BY <2>1 DEF Headers!Send
    <3> QED
        BY <1>1, <3>2, <3>3
  <2>2. CASE ~Headers!Send(s)
    <3>1. outcome' = outcome \/ outcome' = [outcome EXCEPT ![s] = "none"]
        BY <2>2 DEF Headers!ReleaseTask, Headers!ReleaseAsked, Headers!ReleaseAnswerLost,
                    Headers!Build, Headers!NotSent, Headers!Rejected, Headers!Confirm,
                    Headers!TimedOut, Headers!AnswerLost, Headers!withAccountLock
    <3> QED
        BY <1>1, <3>1 DEF LockInv, LockShapes
  <2> QED
      BY <2>1, <2>2
<1>8. ~orphaned' => ~orphaned /\ (Landed' <=> Landed)
    BY <1>2, <1>4, <1>6, <1>7 DEF Landed
<1>9. pool' = headers => pool = headers
    BY <1>1, <1>5
<1> QED
    BY <1>2, <1>4, <1>8, <1>9, Elsewhere

\* Nor does the network when it settles that submitter's call.
LEMMA OthersSettle ==
    ASSUME Headers!LockAssumption, Headers!SyncAssumption, LockInv, SyncInv, Headers!ReleaseSettles
    PROVE  SyncInv'
<1>1. /\ headers \in Submitters /\ headers # NoTx /\ pool # headers /\ pool # NoTx /\ pool' = NoTx
      /\ UNCHANGED <<bitcoin, reorgs, stored, tip, pass, batch, sent, emptyCall, state, orphaned>>
      /\ \E o \in {"landed", "gone"} : outcome' = [outcome EXCEPT ![pool] = o]
    BY Parameters DEF Headers!ReleaseSettles, Headers!Land, Headers!Expire, Headers!syncVars
<1>2. outcome'[headers] = outcome[headers]
    BY <1>1 DEF LockInv, LockShapes
<1>3. Landed' <=> Landed
    BY <1>1, <1>2 DEF Landed
<1> QED
    BY <1>1, <1>3, Elsewhere

\* Every step is one of the lock's, or leaves it alone.
LEMMA LockKept ==
    ASSUME Headers!LockAssumption, Headers!SyncAssumption, LockInv, [Headers!Next]_(Headers!vars)
    PROVE  LockInv'
<1>1. ASSUME UNCHANGED Headers!lockVars
      PROVE  LockInv'
    BY <1>1 DEF Headers!lockVars, LockInv, LockShapes, Exclusive, LockWatched,
                Headers!EvictedOnlyAfterLostAnswer
<1>2. ASSUME NEW s \in Submitters,
             \/ Headers!withAccountLock(s) \/ Headers!Build(s) \/ Headers!NotSent(s)
             \/ Headers!Send(s) \/ Headers!Rejected(s)
             \/ Headers!Confirm(s) \/ Headers!TimedOut(s) \/ Headers!AnswerLost(s)
      PROVE  LockInv'
    BY <1>2, Joins, Builds, EndsUnsent, Sends, EndsSettled, EndsUnsure DEF Headers!NotSent, Headers!Rejected
<1>3. headers \in Submitters
    BY Parameters
<1>4. CASE UNCHANGED Headers!vars
    BY <1>1, <1>4 DEF Headers!vars
<1>5. CASE \/ Headers!Mine \/ Headers!set_checkpoint
           \/ \E fork \in 0..(MaxHeight - 1), height \in 1..MaxHeight : Headers!Reorganise(fork, height)
    BY <1>1, <1>5 DEF Headers!Mine, Headers!set_checkpoint, Headers!Reorganise
<1>6. CASE Headers!PassStep
  <2>1. UNCHANGED Headers!lockVars \/ Headers!withAccountLock(headers)
      BY <1>6 DEF Headers!PassStep, Headers!getTipHeight, Headers!getBlockHash,
                  Headers!readContractTip, Headers!getHeaderHex,
                  Headers!submitHeadersOnChain, Headers!PassDone
  <2> QED
      BY <1>1, <1>2, <1>3, <2>1
<1>7. CASE Headers!SendStep \/ Headers!HeadersAnswerLost
    BY <1>2, <1>3, <1>7 DEF Headers!SendStep, Headers!BuildHeaders, Headers!HeadersNotSent,
                            Headers!SendHeaders, Headers!HeadersRejected,
                            Headers!HeadersConfirmed, Headers!HeadersTimedOut, Headers!HeadersAnswerLost
<1>8. CASE Headers!ReadFails
    BY <1>1, <1>8 DEF Headers!ReadFails
<1>9. CASE Headers!HeadersLand \/ Headers!HeadersExpire \/ Headers!ReleaseSettles
    BY <1>9, NetworkSettles DEF Headers!HeadersLand, Headers!HeadersExpire, Headers!ReleaseSettles
<1>10. CASE \E s \in Submitters : Headers!ReleaseAsked(s) \/ Headers!ReleaseTask(s) \/
Headers!ReleaseAnswerLost(s)
    BY <1>2, <1>10 DEF Headers!ReleaseAsked, Headers!ReleaseTask, Headers!ReleaseAnswerLost
<1>11. CASE Headers!ProcessDies
    BY <1>11, ChainForgotten DEF Headers!ProcessDies
<1> QED
    BY <1>4, <1>5, <1>6, <1>7, <1>8, <1>9, <1>10, <1>11 DEF Headers!Next

\* Another branch, or the same with a block more, is a chain at least as high.
LEMMA ChainGrows ==
    ASSUME Headers!SyncAssumption, SyncInv,
           \/ Headers!Mine
           \/ \E fork \in 0..(MaxHeight - 1), height \in 1..MaxHeight : Headers!Reorganise(fork, height)
    PROVE  SyncInv'
<1>1. bitcoin \in Seq(Nat) /\ Len(bitcoin) \in Nat /\ Len(bitcoin) >= 1 /\ reorgs \in Nat
    BY DEF SyncInv, PassShapes
<1>2. CASE Headers!Mine
  <2>1. /\ bitcoin' = Append(bitcoin, reorgs)
        /\ UNCHANGED <<reorgs, stored, tip, sent, pass, batch, emptyCall, faults, Headers!lockVars>>
      BY <1>2 DEF Headers!Mine
  <2>2. bitcoin' \in Seq(Nat) /\ Len(bitcoin') >= Len(bitcoin)
      BY <1>1, <2>1
  <2> QED
      BY <1>1, <2>1, <2>2, BitcoinMoves
<1>3. CASE \E fork \in 0..(MaxHeight - 1), height \in 1..MaxHeight : Headers!Reorganise(fork, height)
  <2>1. PICK fork \in 0..(MaxHeight - 1), height \in 1..MaxHeight : Headers!Reorganise(fork, height)
      BY <1>3
  <2>2. /\ bitcoin' = [h \in 1..height |-> IF h <= fork THEN bitcoin[h] ELSE reorgs + 1]
        /\ reorgs' = reorgs + 1 /\ fork < Len(bitcoin)
        /\ height \in {Len(bitcoin), Len(bitcoin) + 1}
        /\ UNCHANGED <<stored, tip, sent, pass, batch, emptyCall, faults, Headers!lockVars>>
      BY <2>1 DEF Headers!Reorganise
  <2>3. height \in Nat /\ height >= Len(bitcoin) /\ fork \in Int
      BY <1>1, <2>1, <2>2
  <2>4. \A h \in 1..height : (IF h <= fork THEN bitcoin[h] ELSE reorgs + 1) \in Nat
      BY <1>1, <2>2, <2>3
  <2>5. bitcoin' \in Seq(Nat) /\ Len(bitcoin') = height
      BY <2>2, <2>3, <2>4
  <2> QED
      BY <1>1, <2>2, <2>3, <2>5, BitcoinMoves
<1> QED
    BY <1>2, <1>3

\* The contract gets its checkpoint, below every header a pass fetches.
LEMMA CheckpointSet ==
    ASSUME Headers!LockAssumption, Headers!SyncAssumption, SyncInv, Headers!set_checkpoint
    PROVE  SyncInv'
<1>1. /\ UNCHANGED <<bitcoin, reorgs, sent, pass, batch, emptyCall, state, pool, outcome, orphaned>>
      /\ tip' = <<>> /\ stored' = {<<>>}
    BY DEF Headers!set_checkpoint, Headers!lockVars
<1>2. PassShapes' /\ SentShapes' /\ Headers!NoEmptyCall'
    BY <1>1 DEF SyncInv, PassShapes, SentShapes, Headers!NoEmptyCall
<1>3. BatchShapes'
    BY <1>1 DEF SyncInv, BatchShapes, Headers!BatchComplete, First
<1>4. TipIsHighest'
  <2>1. tip' \in Seq(Nat) /\ stored' \subseteq Seq(Nat)
      BY <1>1
  <2>2. \A b \in stored' : Len(b) <= Len(tip')
      BY <1>1
  <2> QED
      BY <2>1, <2>2 DEF TipIsHighest
<1>5. ASSUME pass.at \in {"fetch", "submit"}
      PROVE  /\ batch # <<>> \/ pass.next <= pass.height => Ahead(First)'
             /\ pass.next <= pass.height => Ahead(pass.next)'
  <2>1. /\ pass.height \in Nat /\ pass.height > 0 /\ Len(tip') = 0 /\ pass.next \in Nat
      BY <1>1, <1>5 DEF SyncInv, PassShapes
  <2>2. First >= 1 /\ Len(batch) \in Nat /\ First = pass.next - Len(batch)
      BY <1>5 DEF SyncInv, BatchShapes, First
  <2>3. First' = First
      BY <1>1 DEF First
  <2>4. pass.next >= 1 /\ First \in Int
      BY <2>1, <2>2
  <2>5. First + MAX_HEADERS_PER_SUBMIT > 1 /\ pass.next + MAX_HEADERS_PER_SUBMIT > 1
      BY <2>1, <2>2, <2>4, Parameters
  <2> QED
      BY <1>1, <2>1, <2>3, <2>5 DEF Ahead
<1>6. ~orphaned' => Worthwhile' /\ OwnCall'
  <2>1. Landed' <=> Landed
      BY <1>1 DEF Landed
  <2> QED
      BY <1>1, <1>5, <2>1 DEF SyncInv, Worthwhile, OwnCall, Landed
<1> QED
    BY <1>2, <1>3, <1>4, <1>6 DEF SyncInv

\* Every step keeps what is known of the pass, the call and the contract.
LEMMA SyncKept ==
    ASSUME Headers!LockAssumption, Headers!SyncAssumption, LockInv, SyncInv, [Headers!Next]_(Headers!vars)
    PROVE  SyncInv'
<1>1. CASE UNCHANGED Headers!vars
    BY <1>1, Elsewhere DEF Headers!vars, Headers!lockVars, Headers!syncVars, Landed
<1>2. CASE \/ Headers!Mine
           \/ \E fork \in 0..(MaxHeight - 1), height \in 1..MaxHeight : Headers!Reorganise(fork, height)
    BY <1>2, ChainGrows
<1>3. CASE Headers!set_checkpoint
    BY <1>3, CheckpointSet
<1>4. CASE Headers!PassStep \/ Headers!ReadFails
    BY <1>4, PassReads, HeaderJoins, BatchWaits, EndsUncalled DEF Headers!PassStep
<1>5. CASE Headers!SendStep \/ Headers!HeadersAnswerLost \/ Headers!ProcessDies
    BY <1>5, HeadersBuilt, HeadersSent, HeadersSeen, EndsUnconfirmed DEF Headers!SendStep
<1>6. CASE Headers!HeadersLand \/ Headers!HeadersExpire
    BY <1>6, HeadersApplied, HeadersGone
<1>7. CASE \E s \in Submitters : Headers!ReleaseAsked(s) \/ Headers!ReleaseTask(s) \/
Headers!ReleaseAnswerLost(s)
    BY <1>7, OthersApart
<1>8. CASE Headers!ReleaseSettles
    BY <1>8, OthersSettle
<1> QED
    BY <1>1, <1>2, <1>3, <1>4, <1>5, <1>6, <1>7, <1>8 DEF Headers!Next

\* A relayer starts with an empty chain and no pass.
LEMMA Starts ==
    ASSUME Headers!LockAssumption, Headers!SyncAssumption, Headers!Init
    PROVE  HeadersInv
<1>1. LockInv
  <2>1. /\ queue = <<>> /\ pool = NoTx /\ evicted = {} /\ orphaned = FALSE
        /\ state = [s \in Submitters |-> "idle"] /\ outcome = [s \in Submitters |-> "none"]
      BY DEF Headers!Init, Headers!LockInit
  <2>2. queue \in Seq(Submitters) /\ Len(queue) = 0
      BY <2>1
  <2>3. LockShapes
      BY <2>1, <2>2 DEF LockShapes
  <2>4. Exclusive
      BY <2>1, <2>2 DEF Exclusive, Holding
  <2> QED
      BY <2>1, <2>3, <2>4 DEF LockInv, LockWatched, Headers!EvictedOnlyAfterLostAnswer
<1>2. SyncInv
  <2>1. /\ bitcoin = <<0>> /\ reorgs = 0 /\ stored = {} /\ tip = NoTip /\ pass = Headers!NoPass
        /\ batch = <<>> /\ sent = <<>> /\ emptyCall = FALSE /\ pool = NoTx
        /\ state = [s \in Submitters |-> "idle"] /\ headers \in Submitters
        /\ headers # NoTx
      BY Parameters DEF Headers!Init, Headers!LockInit
  <2>2. bitcoin \in Seq(Nat) /\ Len(bitcoin) = 1 /\ state[headers] = "idle"
      BY <2>1
  <2>3. /\ Headers!NoPass \in [at : {"idle", "hash", "tip", "fetch", "submit"}, height : Nat,
              hash : Seq(Nat), next : Nat]
        /\ Headers!NoPass.at = "idle"
      BY DEF Headers!NoPass
  <2>4. PassShapes
      BY <2>1, <2>2, <2>3 DEF PassShapes
  <2>5. /\ batch \in Seq(Seq(Nat)) /\ Len(batch) = 0
        /\ sent \in Seq(Seq(Nat)) /\ Len(sent) = 0
      BY <2>1
  <2>6. BatchShapes /\ SentShapes
      BY <2>1, <2>3, <2>5, Parameters DEF BatchShapes, SentShapes
  <2> QED
      BY <2>1, <2>3, <2>4, <2>6 DEF SyncInv, TipIsHighest, Worthwhile, Landed, OwnCall, Headers!NoEmptyCall
<1> QED
    BY <1>1, <1>2 DEF HeadersInv

-----------------------------------------------------------------------------
\* account-lock.ts and header-sync.ts: the promise chain holds every task once
\* and runs only its first, and what a pass pays for is ahead of the contract.
THEOREM HeadersInvariance ==
    ASSUME Headers!LockAssumption, Headers!SyncAssumption
    PROVE  Headers!Spec => []HeadersInv
<1>1. Headers!Init => HeadersInv
    BY Starts
<1>2. HeadersInv /\ [Headers!Next]_(Headers!vars) => HeadersInv'
    BY LockKept, SyncKept DEF HeadersInv
<1> QED
    BY <1>1, <1>2, PTL DEF Headers!Spec

\* account-lock.ts: the incident the lock was written for does not come back.
\* Whatever two submitters bid, a call in the queue is replaced only after a task
\* ended before its own call was settled.
THEOREM NoSilentEviction ==
    ASSUME Headers!LockAssumption, Headers!SyncAssumption
    PROVE  Headers!Spec => []Headers!EvictedOnlyAfterLostAnswer
<1>1. HeadersInv => Headers!EvictedOnlyAfterLostAnswer
    BY DEF HeadersInv, LockInv
<1> QED
    BY <1>1, HeadersInvariance, PTL

\* hasNewHeaders and syncStartHeight (header-sync.ts): with batches longer than
\* the part of the chain a pass sends again, no call is paid for that stores
\* nothing, except in a tie or after a task ended before its own call.
THEOREM NoEmptyBatch ==
    ASSUME Headers!LockAssumption, Headers!SyncAssumption
    PROVE  Headers!Spec => []Headers!NoEmptyCall
<1>1. HeadersInv => Headers!NoEmptyCall
    BY DEF HeadersInv, SyncInv
<1> QED
    BY <1>1, HeadersInvariance, PTL

-----------------------------------------------------------------------------
\* The two above in the runs' specification, where a behaviour is about one
\* component and the others stand still.
\* account-lock.ts and header-sync.ts: a queued call is evicted only after a task
\* ended before its own call was settled, and no call is paid for that stores
\* nothing, as far as a pass can know.
THEOREM NoCallIsWasted == MCSpec => []NoCallWasted
<1> DEFINE MCInv == part = "headers" => HeadersInv
<1>1. MCInit => MCInv
  <2> SUFFICES ASSUME MCInit, part = "headers" PROVE HeadersInv
      OBVIOUS
  <2>1. Headers!Init
      BY DEF MCInit
  <2> QED
      BY <2>1, RelayerAssumption, Starts
<1>2. MCInv /\ [MCNext]_all => MCInv'
  <2> SUFFICES ASSUME MCInv, [MCNext]_all, part' = "headers" PROVE HeadersInv'
      OBVIOUS
  <2>1. part = "headers" /\ [Headers!Next]_(Headers!vars)
      BY DEF MCNext, HeadersNext, WatcherNext, MintsNext, all, headersVars,
             Headers!vars, Headers!lockVars, Headers!syncVars
  <2> QED
      BY <2>1, RelayerAssumption, LockKept, SyncKept DEF HeadersInv
<1>3. MCInv => NoCallWasted
    BY DEF HeadersInv, LockInv, SyncInv, NoCallWasted
<1> QED
    BY <1>1, <1>2, <1>3, PTL DEF MCSpec
=============================================================================
