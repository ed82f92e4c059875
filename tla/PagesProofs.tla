---------------------------- MODULE PagesProofs ----------------------------
(* Proofs about the pages of the web app (MCPages), for any number of calls,  *)
(* reads, acts and failures.                                                  *)
EXTENDS MCPages, NumberFacts, SequenceTheorems

-----------------------------------------------------------------------------
(* The loan page (LoanScreen).                                                *)
Loans == {"fresh", "owes", "closed", "liquidated"}
Outs == {"unspent", "sent", "confirmed"}
Keyed == [key : BOOLEAN, pos : Loans \cup {Unread, Missing}, out : Outs \cup {Unread, Missing},
          late : BOOLEAN]

\* An end of the loan l, or of its output o, that has been reached.
Reached(s, l, o) ==
    /\ s \in {"repaid_locked", "syncing"} => l = "closed"
    /\ s = "liquidated" => l = "liquidated"
    /\ s = "released" => o = "confirmed"
    /\ s = "releasing" => o # "unspent"

\* What a read may have found: an end that it saw is one for good.
WasTrue(r, l, o) ==
    /\ r.pos = "closed" => l = "closed"
    /\ r.pos = "liquidated" => l = "liquidated"
    /\ r.out = "sent" => o # "unspent"
    /\ r.out = "confirmed" => o = "confirmed"

ScreenShapes ==
    /\ loan \in Loans /\ out \in Outs /\ pend \in BOOLEAN
    /\ rec \in {"active", "closed", "released"}
    /\ rec = "released" => out # "unspent"

StoreIsTrue ==
    /\ reads \in Seq(Keyed)
    /\ \A i \in 1..Len(reads) : WasTrue(reads[i], loan, out)
    /\ cache = [k \in BOOLEAN |-> cache[k]] /\ \A k \in BOOLEAN : Reached(cache[k], loan, out)
    /\ Reached(last, loan, out)

FlowFits ==
    /\ at \in {"idle", "lock", "prepare", "cosign", "sign", "btcsign", "wait"}
    /\ at \in {"lock", "prepare", "cosign"} => flow = "preparing"
    /\ at \in {"sign", "btcsign"} => flow = "awaiting_signature"
    /\ at = "wait" => flow = "submitted"

ScreenInv == ScreenShapes /\ StoreIsTrue /\ FlowFits

\* What is derived from a true read has been reached.
LEMMA DerivedIsReached ==
    ASSUME NEW q, NEW r, out \in Outs, WasTrue(q, loan, out), r = "released" => out # "unspent"
    PROVE  Reached(openStatus(q.pos, q.out, r), loan, out)
    BY DEF Reached, WasTrue, openStatus, known, releaseFromOutspend, CHECKING, Missing, Outs

\* The chains take back no end.
LaterOn ==
    /\ loan \in {"closed", "liquidated"} => loan' = loan
    /\ out = "sent" => out' \in {"sent", "confirmed"}
    /\ out = "confirmed" => out' = "confirmed"

\* An end that was reached stays reached.
LEMMA EndsStay ==
    ASSUME ScreenInv, LaterOn
    PROVE  /\ \A s : Reached(s, loan, out) => Reached(s, loan', out')
           /\ \A r : WasTrue(r, loan, out) => WasTrue(r, loan', out')
    BY DEF LaterOn, Reached, WasTrue, ScreenInv, ScreenShapes, Outs

\* Whatever else happens on the chains, or on another device.
LEMMA ChainsGoOn ==
    ASSUME ScreenInv, World
    PROVE  ScreenInv'
<1>1. /\ UNCHANGED <<cache, reads, last, rec, pend, flow, at>>
      /\ loan' \in Loans /\ out' \in Outs /\ LaterOn
    BY DEF World, land, otherDevice, priceFalls, liquidate, publish_release_psbt, mined, here,
           store, local, page, ScreenInv, ScreenShapes, Loans, Outs, LaterOn
<1>2. ScreenShapes'
    BY <1>1 DEF ScreenInv, ScreenShapes, Outs, LaterOn
<1>3. StoreIsTrue'
    BY <1>1, EndsStay DEF ScreenInv, StoreIsTrue
<1>4. FlowFits'
    BY <1>1 DEF ScreenInv, FlowFits
<1> QED
    BY <1>2, <1>3, <1>4 DEF ScreenInv

\* What is shown is one of the statuses kept.
LEMMA SteadyIsReached ==
    ASSUME NEW k \in BOOLEAN, NEW c, NEW s, NEW l, NEW o,
           \A j \in BOOLEAN : Reached(c[j], l, o), Reached(s, l, o)
    PROVE  Reached(steady(k, c, s), l, o)
    BY DEF steady

\* The inductive invariant implies what the run checks.
LEMMA PageIsTrue ==
    ASSUME ScreenInv
    PROVE  ShownEndIsReal /\ UnloadGuarded
<1>1. Reached(shown, loan, out)
    BY SteadyIsReached DEF shown, statusKey, ScreenInv, ScreenShapes, StoreIsTrue
<1>2. ShownEndIsReal
    BY <1>1 DEF ShownEndIsReal, Reached
<1> QED
    BY <1>2 DEF UnloadGuarded, guardsUnload, ScreenInv, FlowFits

\* What the store keeps of a record that changed was true already.
LEMMA StoreIsRekeyed ==
    ASSUME ScreenInv, Rekeyed, LaterOn, pend' \in BOOLEAN
    PROVE  StoreIsTrue'
<1> DEFINE dead == IF rec' # rec THEN BOOLEAN ELSE {TRUE}
           live == {j \in DOMAIN reads : reads[j].key \notin dead}
           n == Cardinality(live)
<1>1. /\ cache' = [k \in BOOLEAN |-> IF k \in dead THEN CHECKING ELSE cache[k]]
      /\ reads' = SubSeq(reads, 1, n) /\ last' = steady(pend', cache', last)
    BY DEF Rekeyed, Steadied, statusKey
<1>2. reads \in Seq(Keyed) /\ Len(reads) \in Nat
    BY DEF ScreenInv, StoreIsTrue
<1>3. n \in Nat /\ n <= Len(reads)
  <2>1. IsFiniteSet(1..Len(reads)) /\ Cardinality(1..Len(reads)) = Len(reads)
    <3> HIDE DEF dead, live, n
    <3>1. PICK m \in Nat : m = Len(reads)
        BY <1>2
    <3>2. IsFiniteSet(1..m) /\ Cardinality(1..m) = m
        BY FS_Interval
    <3> QED
        BY <3>1, <3>2
  <2>2. live \subseteq 1..Len(reads)
      BY <1>2
  <2>3. IsFiniteSet(live) /\ Cardinality(live) <= Cardinality(1..Len(reads))
      BY <2>1, <2>2, FS_Subset
  <2> QED
      BY <2>1, <2>3, FS_CardinalityType
<1> HIDE DEF n, live
<1>4. reads' \in Seq(Keyed) /\ Len(reads') = n /\ \A i \in 1..n : reads'[i] = reads[i]
    BY <1>1, <1>2, <1>3
<1>5. \A i \in 1..Len(reads') : WasTrue(reads'[i], loan', out')
    BY <1>3, <1>4, EndsStay DEF ScreenInv, StoreIsTrue
<1>6. \A k \in BOOLEAN : cache'[k] = CHECKING \/ cache'[k] = cache[k]
    BY <1>1
<1>7. Reached(CHECKING, loan', out') /\ Reached(last, loan', out')
    BY EndsStay DEF ScreenInv, StoreIsTrue, Reached, CHECKING
<1>8. \A k \in BOOLEAN : Reached(cache'[k], loan', out')
    BY <1>6, <1>7, EndsStay DEF ScreenInv, StoreIsTrue
<1>9. cache' = [k \in BOOLEAN |-> cache'[k]]
    BY <1>1
<1> QED
    BY <1>1, <1>4, <1>5, <1>7, <1>8, <1>9, SteadyIsReached DEF StoreIsTrue

\* One read of the list changes, for one that may have found the same.
LEMMA ReadGoesOn ==
    ASSUME ScreenInv, NEW i \in 1..Len(reads), NEW q \in Keyed, WasTrue(q, loan, out),
           reads' = [reads EXCEPT ![i] = q], UNCHANGED <<cache, last, chainSide, local, page>>
    PROVE  ScreenInv'
<1>1. UNCHANGED <<loan, out, rec, pend, flow, at>>
    BY DEF chainSide, local, page
<1>2. reads' \in Seq(Keyed) /\ Len(reads') = Len(reads)
      /\ \A j \in 1..Len(reads) : reads'[j] = IF j = i THEN q ELSE reads[j]
    BY DEF ScreenInv, StoreIsTrue
<1>3. StoreIsTrue'
    BY <1>1, <1>2 DEF ScreenInv, StoreIsTrue
<1>4. ScreenShapes' /\ FlowFits'
    BY <1>1 DEF ScreenInv, ScreenShapes, FlowFits
<1> QED
    BY <1>3, <1>4 DEF ScreenInv

\* The loan's and the output's read, or their failures.
LEMMA ChainIsRead ==
    ASSUME ScreenInv, NEW i \in 1..Len(reads), getPosition(i) \/ getOutspend(i)
    PROVE  ScreenInv'
<1>1. /\ reads[i] \in Keyed /\ WasTrue(reads[i], loan, out) /\ loan \in Loans /\ out \in Outs
    BY DEF ScreenInv, ScreenShapes, StoreIsTrue
<1>2. UNCHANGED <<cache, last, chainSide, local, page>>
    BY DEF getPosition, getOutspend, others
<1>3. CASE getPosition(i)
  <2>1. PICK p \in {loan, Missing} : reads' = [reads EXCEPT ![i].pos = p]
      BY <1>3 DEF getPosition
  <2>2. PICK q : q = [reads[i] EXCEPT !.pos = p]
      OBVIOUS
  <2>3. q \in Keyed /\ WasTrue(q, loan, out) /\ reads' = [reads EXCEPT ![i] = q]
      BY <1>1, <2>1, <2>2 DEF Keyed, WasTrue, Missing
  <2> QED
      BY <1>2, <2>3, ReadGoesOn
<1>4. CASE getOutspend(i)
  <2>1. PICK o \in {out, Missing} : reads' = [reads EXCEPT ![i].out = o]
      BY <1>4 DEF getOutspend
  <2>2. PICK q : q = [reads[i] EXCEPT !.out = o]
      OBVIOUS
  <2>3. q \in Keyed /\ WasTrue(q, loan, out) /\ reads' = [reads EXCEPT ![i] = q]
      BY <1>1, <2>1, <2>2 DEF Keyed, WasTrue, Missing, Outs
  <2> QED
      BY <1>2, <2>3, ReadGoesOn
<1> QED
    BY <1>3, <1>4

\* A read begins with nothing found.
LEMMA ReadBeginsHere ==
    ASSUME ScreenInv, poll
    PROVE  ScreenInv'
<1>1. PICK q : q = [key |-> statusKey, pos |-> Unread, out |-> Unread, late |-> FALSE]
    OBVIOUS
<1>2. /\ reads' = Append(reads, q)
      /\ UNCHANGED <<cache, last, loan, out, rec, pend, flow, at>>
    BY <1>1 DEF poll, others, chainSide, local, page
<1>3. q \in Keyed /\ WasTrue(q, loan, out)
    BY <1>1 DEF Keyed, WasTrue, Unread, statusKey, ScreenInv, ScreenShapes
<1>4. /\ reads' \in Seq(Keyed) /\ Len(reads') = Len(reads) + 1 /\ Len(reads) \in Nat
      /\ reads'[Len(reads) + 1] = q
      /\ \A i \in 1..Len(reads) : reads'[i] = reads[i]
    BY <1>2, <1>3 DEF ScreenInv, StoreIsTrue
<1>5. \A i \in 1..Len(reads') : WasTrue(reads'[i], loan, out)
    BY <1>3, <1>4 DEF ScreenInv, StoreIsTrue
<1>6. StoreIsTrue'
    BY <1>2, <1>4, <1>5 DEF ScreenInv, StoreIsTrue
<1>7. ScreenShapes' /\ FlowFits'
    BY <1>2 DEF ScreenInv, ScreenShapes, FlowFits
<1> QED
    BY <1>6, <1>7 DEF ScreenInv

\* A read that ends leaves the list, and the status it gives has been reached.
LEMMA ReadEnds ==
    ASSUME ScreenInv, NEW i \in 1..Len(reads), refreshed(i)
    PROVE  ScreenInv'
<1> DEFINE overtaken(q) == [q EXCEPT !.late = @ \/ (q.key = reads[i].key /\ applies(i))]
           rest == [j \in 1..Len(reads) - 1 |->
                       IF j < i THEN overtaken(reads[j]) ELSE reads[j + 1]]
           status == openStatus(reads[i].pos, reads[i].out, rec)
<1>1. /\ reads' = rest
      /\ cache' = IF applies(i) THEN [cache EXCEPT ![reads[i].key] = status] ELSE cache
      /\ last' = steady(pend', cache', last)
      /\ UNCHANGED <<loan, out, rec, pend, flow, at>>
    BY DEF refreshed, Steadied, statusKey, others, chainSide, local, page
<1>2. /\ reads \in Seq(Keyed) /\ Len(reads) \in Nat \ {0}
      /\ \A j \in 1..Len(reads) : reads[j] \in Keyed /\ WasTrue(reads[j], loan, out)
    BY DEF ScreenInv, StoreIsTrue
<1>3. \A q \in Keyed : /\ overtaken(q) \in Keyed
                       /\ WasTrue(q, loan, out) => WasTrue(overtaken(q), loan, out)
    BY DEF Keyed, WasTrue
<1> HIDE DEF overtaken
<1>4. \A j \in 1..Len(reads) - 1 : rest[j] \in Keyed /\ WasTrue(rest[j], loan, out)
    BY <1>2, <1>3
<1>5. reads' \in Seq(Keyed) /\ Len(reads') = Len(reads) - 1
    BY <1>1, <1>2, <1>4
<1>6. \A j \in 1..Len(reads') : WasTrue(reads'[j], loan', out')
    BY <1>1, <1>4, <1>5
<1>7. Reached(status, loan, out)
    BY <1>2, DerivedIsReached DEF ScreenInv, ScreenShapes
<1> HIDE DEF status
<1>8. /\ cache' = [k \in BOOLEAN |-> cache'[k]]
      /\ \A k \in BOOLEAN : cache'[k] = cache[k] \/ cache'[k] = status
  <2>1. CASE cache' = cache
      BY <2>1 DEF ScreenInv, StoreIsTrue
  <2>2. CASE cache' = [cache EXCEPT ![reads[i].key] = status]
      BY <2>2 DEF ScreenInv, StoreIsTrue
  <2> QED
      BY <1>1, <2>1, <2>2
<1>9. \A k \in BOOLEAN : Reached(cache'[k], loan', out')
    BY <1>1, <1>7, <1>8 DEF ScreenInv, StoreIsTrue
<1>10. Reached(last', loan', out')
    BY <1>1, <1>9, SteadyIsReached DEF ScreenInv, ScreenShapes, StoreIsTrue
<1>11. StoreIsTrue'
    BY <1>5, <1>6, <1>8, <1>9, <1>10 DEF StoreIsTrue
<1>12. ScreenShapes' /\ FlowFits'
    BY <1>1 DEF ScreenInv, ScreenShapes, FlowFits
<1> QED
    BY <1>11, <1>12 DEF ScreenInv

\* The steps of a flow: the engine says what it waits for, and the record that
\* says "released" comes with the spending of the output.
LEMMA FlowGoesOn ==
    ASSUME ScreenInv, Flows
    PROVE  ScreenInv'
<1>1. FlowFits'
  <2> USE DEF ScreenInv, FlowFits, Emit, reduceFlow, TERMINAL
  <2>1. CASE (\E t \in Tabs : run(t)) \/ withTxLock \/ prepare
      BY <2>1 DEF run, withTxLock, prepare
  <2>2. CASE signed \/ rejected \/ confirmed
      BY <2>2 DEF signed, rejected, confirmed
  <2>3. CASE dropped \/ timedOut \/ reconcileActivity \/ dismiss
      BY <2>3 DEF dropped, timedOut, reconcileActivity, dismiss
  <2>4. CASE cosigned \/ released
      BY <2>4 DEF cosigned, released
  <2> QED
      BY <2>1, <2>2, <2>3, <2>4 DEF Flows
<1>2. CASE signed \/ confirmed \/ dropped \/ reconcileActivity \/ released
  <2>1. /\ loan' = loan /\ (out' = out \/ (out = "unspent" /\ out' = "sent"))
        /\ pend' \in BOOLEAN /\ rec' \in {"active", "closed", "released"}
        /\ rec' = "released" => rec = "released" \/ out' # "unspent"
        /\ Rekeyed
      BY <1>2 DEF signed, confirmed, dropped, reconcileActivity, released, apply, chainSide,
                  ScreenInv, ScreenShapes
  <2>2. LaterOn
      BY <2>1 DEF LaterOn
  <2>3. ScreenShapes'
      BY <2>1 DEF ScreenInv, ScreenShapes, Outs
  <2> QED
      BY <1>1, <2>1, <2>2, <2>3, StoreIsRekeyed DEF ScreenInv
<1>3. CASE \/ \E t \in Tabs : run(t)
           \/ withTxLock \/ prepare \/ rejected \/ timedOut \/ cosigned \/ dismiss
  <2>1. UNCHANGED <<loan, out, rec, pend, cache, reads, last>>
      BY <1>3 DEF run, withTxLock, prepare, rejected, timedOut, cosigned, dismiss, Keep,
                  chainSide, store, local
  <2>2. ScreenShapes' /\ StoreIsTrue'
      BY <2>1 DEF ScreenInv, ScreenShapes, StoreIsTrue
  <2> QED
      BY <1>1, <2>2 DEF ScreenInv
<1> QED
    BY <1>2, <1>3 DEF Flows

\* types.ts:8, engine.ts:157: for any number of reads, runs and failures, an end
\* of the loan that its page shows is one the chain has reached, and the tab
\* warns before it closes while a wallet is asked or a call is waited for.
THEOREM PageStaysHonest == MCSpec => []PageIsHonest
<1> DEFINE MCInv == part = "loan" => ScreenInv
<1>1. MCInit => MCInv
  <2> SUFFICES ASSUME Init PROVE ScreenInv
      BY DEF MCInit
  <2>1. /\ loan \in {"fresh", "owes"} /\ out = "unspent" /\ rec = "active" /\ pend = FALSE
        /\ cache = [k \in BOOLEAN |-> CHECKING] /\ reads = << >> /\ last = CHECKING
        /\ at = "idle"
      BY DEF Init
  <2>2. cache = [k \in BOOLEAN |-> cache[k]] /\ \A k \in BOOLEAN : cache[k] = CHECKING
      BY <2>1
  <2>3. Reached(CHECKING, loan, out)
      BY DEF Reached, CHECKING
  <2>4. reads \in Seq(Keyed) /\ Len(reads) = 0
      BY <2>1
  <2>5. StoreIsTrue
      BY <2>1, <2>2, <2>3, <2>4 DEF StoreIsTrue
  <2> QED
      BY <2>1, <2>5 DEF ScreenInv, ScreenShapes, FlowFits, Loans, Outs
<1>2. MCInv /\ [MCNext]_all => MCInv'
  <2> SUFFICES ASSUME MCInv, [MCNext]_all, part' = "loan" PROVE ScreenInv'
      OBVIOUS
  <2>1. CASE LoanNext
    <3>1. ScreenInv /\ Next
        BY <2>1 DEF LoanNext
    <3> QED
        BY <3>1, ReadBeginsHere, ChainIsRead, ReadEnds, FlowGoesOn, ChainsGoOn DEF Next, Reading
  <2>2. CASE part = part' /\ UNCHANGED vars
    <3>1. ScreenInv
        BY <2>2
    <3>2. UNCHANGED <<loan, out, rec, pend, cache, reads, last, flow, at>>
        BY <2>2 DEF vars, chainSide, store, local, page
    <3> QED
        BY <3>1, <3>2 DEF ScreenInv, ScreenShapes, StoreIsTrue, FlowFits
  <2> QED
      BY <2>1, <2>2 DEF MCNext, ReceiveNext, PanelsNext, WalletsNext, TestKeyNext, FundsNext,
                        JourneyNext, all
<1>3. MCInv => PageIsHonest
    BY PageIsTrue DEF PageIsHonest
<1> QED
    BY <1>1, <1>2, <1>3, PTL DEF MCSpec

-----------------------------------------------------------------------------
(* The delivery of borrowed USDC (Receive).                                   *)

\* The module is instantiated with its own copy of FiniteSets.
LEMMA SameCount == \A S : Receive!Cardinality(S) = Cardinality(S)
    BY DEF Receive!Cardinality, Cardinality

Fates == {"pending", "success", "failed", "expired", "refused"}
SignedCalls == [main : BOOLEAN, st : Fates]
Places == {"idle", "read", "sign_first", "build", "sign", "wait_first", "wait"}

ReceiveShapes ==
    /\ calls \in Seq(SignedCalls) /\ hash \in Nat /\ done \in Nat
    /\ receiveAt \in Places
    /\ receiveFlow \in Receive!InFlight <=> receiveAt # "idle"
    /\ done # 0 => receiveAt = "idle"
    /\ receiveAt \in {"wait_first", "wait"} =>
           hash \in 1..Len(calls) /\ calls[hash].main = (receiveAt = "wait")
    /\ stray \in [at : Places, hash : Nat]

\* What spends is what the step waits for or has seen done, and a run that an
\* unmounted step left behind has spent nothing.
OneSpent ==
    /\ \A g, h \in Receive!Spending : g = h
    /\ open => /\ stray.at = "idle"
               /\ \A h \in Receive!Spending : (receiveAt = "wait" /\ hash = h) \/ done = h
    /\ stray.at # "idle" => Receive!Spending = {}

ReceiveInv == ReceiveShapes /\ (unsure \/ forgot \/ OneSpent)

\* Steps that sign nothing and wait for nothing new.
LEMMA NothingSpent ==
    ASSUME ReceiveInv, UNCHANGED <<calls, done, unsure, forgot>>, open' => open,
           stray' = stray \/ stray' = Receive!Nothing, receiveAt' \in Places, receiveFlow' \in Receive!InFlight <=> receiveAt' # "idle",
           hash' = hash, done # 0 => receiveAt' = "idle",
           receiveAt' # receiveAt => receiveAt' \notin {"wait_first", "wait"},
           receiveAt = "wait" => receiveAt' = "wait" \/ ~open' \/ unsure
    PROVE  ReceiveInv'
<1>1. ReceiveShapes'
    BY DEF ReceiveInv, ReceiveShapes, Receive!Nothing, Places
<1>2. Receive!Spending' = Receive!Spending
    BY DEF Receive!Spending
<1>3. unsure \/ forgot \/ OneSpent'
    BY <1>2 DEF ReceiveInv, ReceiveShapes, OneSpent, Receive!Nothing
<1> QED
    BY <1>1, <1>3 DEF ReceiveInv

\* A call gets its fate, and one that could spend no more spends no more.
LEMMA CallSettles ==
    ASSUME ReceiveInv, NEW h \in 1..Len(calls), NEW fate \in Fates,
           calls' = [calls EXCEPT ![h].st = fate], calls[h].st = "pending"
    PROVE  /\ calls' \in Seq(SignedCalls) /\ Len(calls') = Len(calls)
           /\ Receive!Spending' \subseteq Receive!Spending
           /\ fate \notin {"pending", "success"} => h \notin Receive!Spending'
           /\ \A i \in 1..Len(calls) : calls'[i].main = calls[i].main
<1>1. calls \in Seq(SignedCalls) /\ Len(calls) \in Nat
    BY DEF ReceiveInv, ReceiveShapes
<1>2. PICK c : c = [calls[h] EXCEPT !.st = fate]
    OBVIOUS
<1>3. calls[h] \in SignedCalls
    BY <1>1
<1>4. c \in SignedCalls /\ c.main = calls[h].main /\ c.st = fate
    BY <1>2, <1>3 DEF SignedCalls
<1>5. calls' = [calls EXCEPT ![h] = c]
    BY <1>2
<1>6. /\ calls' \in Seq(SignedCalls) /\ Len(calls') = Len(calls)
      /\ \A i \in 1..Len(calls) : calls'[i] = IF i = h THEN c ELSE calls[i]
    BY <1>1, <1>4, <1>5
<1> QED
    BY <1>1, <1>4, <1>6 DEF Receive!Spending

\* The steps of the page that sign nothing and learn nothing of a call.
LEMMA PageGoesOn ==
    ASSUME ReceiveInv,
           \/ Receive!onGo \/ Receive!onKeep \/ Receive!readFirst \/ Receive!build
           \/ Receive!signatureRejected \/ Receive!fetchAttestation \/ Receive!startDelivery
           \/ Receive!deliveryOf \/ Receive!retryRelay \/ Receive!relayWorks \/ Receive!close
    PROVE  ReceiveInv'
<1>1. /\ receiveAt \in Places
      /\ receiveFlow \in Receive!InFlight <=> receiveAt # "idle"
      /\ done # 0 => receiveAt = "idle"
    BY DEF ReceiveInv, ReceiveShapes
<1>2. CASE Receive!onGo
  <2>1. done = 0 /\ receiveFlow \notin Receive!InFlight
      BY <1>2 DEF Receive!onGo, Receive!receivePhase
  <2> QED
      BY <1>1, <1>2, <2>1, NothingSpent DEF Receive!onGo, Receive!account, Receive!delivery,
         Receive!Session, Places, Receive!InFlight
<1>3. CASE \/ Receive!onKeep \/ Receive!fetchAttestation \/ Receive!startDelivery
           \/ Receive!deliveryOf \/ Receive!retryRelay \/ Receive!relayWorks
  <2>1. /\ UNCHANGED <<calls, done, unsure, forgot, stray, hash>> /\ open' = open
        /\ receiveAt' = receiveAt /\ receiveFlow' = receiveFlow
      BY <1>3 DEF Receive!onKeep, Receive!fetchAttestation, Receive!startDelivery,
         Receive!deliveryOf,
         Receive!retryRelay, Receive!relayWorks, Receive!account, Receive!page, Receive!Session
  <2>2. receiveFlow' \in Receive!InFlight <=> receiveAt' # "idle"
      BY <1>1, <2>1
  <2> QED
      BY <1>1, <2>1, <2>2, NothingSpent
<1>4. CASE Receive!readFirst \/ Receive!build \/ Receive!signatureRejected
  <2>1. /\ UNCHANGED <<calls, done, unsure, forgot, stray, hash, open>>
        /\ receiveAt \in {"read", "build", "sign_first", "sign"}
        /\ receiveAt' \in {"idle", "sign_first", "build", "sign"}
        /\ receiveFlow' \in Receive!InFlight <=> receiveAt' # "idle"
      BY <1>4 DEF Receive!readFirst, Receive!build, Receive!signatureRejected, Receive!Step,
         Receive!Signing,
         Receive!PageKeeps, Receive!Session, Receive!account, Receive!InFlight
  <2> QED
      BY <1>1, <2>1, NothingSpent DEF Places
<1>5. CASE Receive!close
    BY <1>1, <1>5, NothingSpent DEF Receive!close, Receive!account, Receive!InFlight, Places
<1> QED
    BY <1>2, <1>3, <1>4, <1>5

\* A disconnect: the step forgets, and a run it leaves behind has spent nothing.
LEMMA StepUnmounts ==
    ASSUME ReceiveInv, Receive!disconnect
    PROVE  ReceiveInv'
<1>1. /\ UNCHANGED <<calls, unsure, forgot>> /\ open /\ ~open'
      /\ stray' = (IF receiveAt = "wait" THEN Receive!Nothing ELSE [at |-> receiveAt, hash |-> hash])
      /\ receiveAt' = "idle" /\ receiveFlow' = "idle" /\ hash' = 0 /\ done' = 0
    BY DEF Receive!disconnect, Receive!account
<1>2. ReceiveShapes'
    BY <1>1 DEF ReceiveInv, ReceiveShapes, Receive!Nothing, Places, Receive!InFlight
<1>3. Receive!Spending' = Receive!Spending /\ 0 \notin Receive!Spending
    BY <1>1 DEF Receive!Spending, ReceiveInv, ReceiveShapes
<1>4. ASSUME OneSpent PROVE OneSpent'
  <2>1. stray'.at # "idle" => Receive!Spending = {}
      BY <1>1, <1>3, <1>4 DEF OneSpent, ReceiveInv, ReceiveShapes, Receive!Nothing
  <2> QED
      BY <1>1, <1>3, <1>4, <2>1 DEF OneSpent
<1> QED
    BY <1>1, <1>2, <1>4 DEF ReceiveInv

\* The step comes back: it has forgotten something, or there was nothing.
LEMMA StepComesBack ==
    ASSUME ReceiveInv, Receive!signIn
    PROVE  ReceiveInv'
<1>1. /\ UNCHANGED <<calls, unsure, stray, receiveAt, receiveFlow, hash, done>>
      /\ forgot' = (Receive!Spending # {} \/ stray.at # "idle")
    BY DEF Receive!signIn, Receive!account
<1>2. ReceiveShapes'
    BY <1>1 DEF ReceiveInv, ReceiveShapes
<1>3. Receive!Spending' = Receive!Spending
    BY <1>1 DEF Receive!Spending
<1>4. forgot' \/ OneSpent'
    BY <1>1, <1>3 DEF OneSpent
<1> QED
    BY <1>2, <1>4 DEF ReceiveInv

\* The run an unmounted step left behind goes on, and may sign.
LEMMA StrayGoesOn ==
    ASSUME ReceiveInv, Receive!strayRuns
    PROVE  ReceiveInv'
<1>1. /\ UNCHANGED <<unsure, forgot, open, receiveAt, receiveFlow, hash, done>>
      /\ stray.at # "idle" /\ stray \in [at : Places, hash : Nat]
      /\ calls \in Seq(SignedCalls) /\ Len(calls) \in Nat
    BY DEF Receive!strayRuns, Receive!delivery, ReceiveInv, ReceiveShapes
<1>2. CASE calls' = calls
  <2>1. stray' \in [at : Places, hash : Nat]
      BY <1>1, <1>2 DEF Receive!strayRuns, Receive!Nothing, Places
  <2>2. Receive!Spending' = Receive!Spending
      BY <1>2 DEF Receive!Spending
  <2>3. ReceiveShapes'
      BY <1>1, <1>2, <2>1 DEF ReceiveInv, ReceiveShapes
  <2>4. OneSpent => OneSpent'
      BY <1>1, <2>2 DEF OneSpent
  <2> QED
      BY <1>1, <2>3, <2>4 DEF ReceiveInv
<1>3. CASE /\ stray.at \in Receive!Signing
           /\ calls' = Append(calls, [main |-> stray.at = "sign", st |-> "pending"])
           /\ stray' = IF stray.at = "sign" THEN Receive!Nothing
                       ELSE [at |-> "wait_first", hash |-> Len(calls')]
  <2>1. PICK c : c = [main |-> stray.at = "sign", st |-> "pending"]
      OBVIOUS
  <2>2. c \in SignedCalls /\ c.main = (stray.at = "sign")
      BY <2>1 DEF SignedCalls, Fates
  <2>3. calls' = Append(calls, c)
      BY <1>3, <2>1
  <2>4. /\ calls' \in Seq(SignedCalls) /\ Len(calls') = Len(calls) + 1
        /\ calls'[Len(calls) + 1] = c /\ \A i \in 1..Len(calls) : calls'[i] = calls[i]
      BY <1>1, <2>2, <2>3
  <2>5. stray' \in [at : Places, hash : Nat] /\ (stray'.at # "idle" => ~c.main)
    <3>1. CASE stray.at = "sign"
      <4>1. stray' = [at |-> "idle", hash |-> 0]
          BY <1>3, <3>1 DEF Receive!Nothing
      <4> QED
          BY <4>1 DEF Places
    <3>2. CASE stray.at # "sign"
      <4>1. PICK h \in Nat : h = Len(calls')
          BY <1>1, <2>4
      <4>2. stray' = [at |-> "wait_first", hash |-> h]
          BY <1>3, <3>2, <4>1
      <4>3. ~c.main
          BY <2>2, <3>2
      <4> QED
          BY <4>1, <4>2, <4>3 DEF Places
    <3> QED
        BY <3>1, <3>2
  <2>6. ReceiveShapes'
      BY <1>1, <2>4, <2>5 DEF ReceiveInv, ReceiveShapes
  <2>7. ASSUME OneSpent PROVE OneSpent'
    <3>1. Receive!Spending = {} /\ ~open
        BY <1>1, <2>7 DEF OneSpent
    <3>2. \A h \in Receive!Spending' : h = Len(calls) + 1 /\ c.main
        BY <1>1, <2>4, <3>1 DEF Receive!Spending
    <3> QED
        BY <1>1, <2>5, <3>1, <3>2 DEF OneSpent
  <2> QED
      BY <1>1, <2>6, <2>7 DEF ReceiveInv
<1> QED
    BY <1>2, <1>3 DEF Receive!strayRuns

\* A signature is given: nothing spent before the one of "sign", unless unsure.
LEMMA SignedSpends ==
    ASSUME ReceiveInv, Receive!signed
    PROVE  ReceiveInv'
<1>1. /\ calls \in Seq(SignedCalls) /\ Len(calls) \in Nat /\ done \in Nat
      /\ receiveAt \in {"sign_first", "sign"} /\ done = 0 /\ done' = 0 /\ open /\ open'
      /\ UNCHANGED <<unsure, forgot, stray>>
    BY DEF ReceiveInv, ReceiveShapes, Receive!signed, Receive!Signing, Receive!PageKeeps,
       Receive!Session
<1>2. PICK c : c = [main |-> receiveAt = "sign", st |-> "pending"]
    OBVIOUS
<1>3. c \in SignedCalls /\ c.main = (receiveAt = "sign")
    BY <1>2 DEF SignedCalls, Fates
<1>4. calls' = Append(calls, c)
    BY <1>2 DEF Receive!signed
<1>5. /\ calls' \in Seq(SignedCalls) /\ Len(calls') = Len(calls) + 1 /\ calls'[Len(calls) + 1] = c
      /\ \A i \in 1..Len(calls) : calls'[i] = calls[i]
    BY <1>1, <1>3, <1>4
<1>6. /\ hash' = Len(calls) + 1
      /\ receiveAt' = IF receiveAt = "sign" THEN "wait" ELSE "wait_first"
      /\ receiveFlow' = "submitted"
    BY <1>5 DEF Receive!signed, Receive!Step
<1>7. ReceiveShapes'
    BY <1>1, <1>3, <1>5, <1>6 DEF ReceiveInv, ReceiveShapes, Places, Receive!InFlight
<1>8. ASSUME ~unsure, ~forgot PROVE OneSpent'
  <2>1. Receive!Spending = {}
      BY <1>1, <1>8 DEF ReceiveInv, OneSpent, Receive!Spending
  <2>2. \A h \in Receive!Spending' : h = Len(calls) + 1 /\ c.main
      BY <1>1, <1>5, <2>1 DEF Receive!Spending
  <2>3. stray'.at = "idle"
      BY <1>1, <1>8 DEF ReceiveInv, OneSpent
  <2> QED
      BY <1>3, <1>6, <2>2, <2>3 DEF OneSpent
<1> QED
    BY <1>1, <1>7, <1>8 DEF ReceiveInv

\* What the page learns of the call it waits for, and what it does not.
LEMMA AnswerComes ==
    ASSUME ReceiveInv, Receive!settled \/ Receive!dropped \/ Receive!unanswered
    PROVE  ReceiveInv'
<1>1. /\ calls \in Seq(SignedCalls) /\ done \in Nat /\ hash \in 1..Len(calls)
      /\ calls[hash].main = (receiveAt = "wait") /\ receiveAt \in {"wait_first", "wait"}
      /\ done = 0 /\ open /\ hash' = hash /\ Len(calls) \in Nat
      /\ UNCHANGED <<forgot, stray>> /\ stray \in [at : Places, hash : Nat]
    BY DEF Receive!PageKeeps, Receive!Session, ReceiveInv, ReceiveShapes, Receive!settled, Receive!dropped, Receive!unanswered,
       Receive!Waited,
           Receive!Waiting
<1>2. CASE Receive!settled
  <2>1. /\ calls' = calls /\ unsure' = unsure /\ open' = open
        /\ \/ receiveAt = "wait_first" /\ receiveAt' = "build" /\ receiveFlow' = "preparing" /\ done' = done
           \/ receiveAt = "wait" /\ receiveAt' = "idle" /\ receiveFlow' = "settled" /\ done' = hash
      BY <1>2 DEF Receive!settled, Receive!Step, Receive!PageKeeps, Receive!Session,
         Receive!account
  <2>2. ReceiveShapes'
      BY <1>1, <2>1 DEF ReceiveInv, ReceiveShapes, Places, Receive!InFlight
  <2>3. Receive!Spending' = Receive!Spending
      BY <2>1 DEF Receive!Spending
  <2>4. unsure \/ forgot \/ OneSpent'
      BY <1>1, <2>1, <2>3 DEF ReceiveInv, OneSpent, Receive!Spending
  <2> QED
      BY <1>1, <2>1, <2>2, <2>4 DEF ReceiveInv
<1>3. CASE Receive!dropped
  <2>1. /\ receiveAt' = "idle" /\ receiveFlow' = "failed" /\ UNCHANGED <<done, unsure, open>>
        /\ \/ calls' = calls /\ calls[hash].st \in {"failed", "expired"}
           \/ calls' = [calls EXCEPT ![hash].st = "refused"] /\ calls[hash].st = "pending"
      BY <1>3 DEF Receive!dropped, Receive!Step, Receive!PageKeeps, Receive!Session
  <2>2. /\ calls' \in Seq(SignedCalls) /\ Receive!Spending' \subseteq Receive!Spending
        /\ hash \notin Receive!Spending'
    <3>1. CASE calls' = calls /\ calls[hash].st \in {"failed", "expired"}
        BY <1>1, <3>1 DEF Receive!Spending
    <3>2. CASE calls' = [calls EXCEPT ![hash].st = "refused"] /\ calls[hash].st = "pending"
        BY <1>1, <3>2, CallSettles DEF Fates
    <3> QED
        BY <2>1, <3>1, <3>2
  <2>3. ReceiveShapes'
      BY <1>1, <2>1, <2>2 DEF ReceiveShapes, Places, Receive!InFlight
  <2>4. 0 \notin Receive!Spending
      BY <1>1 DEF Receive!Spending
  <2>5. unsure \/ forgot \/ OneSpent'
      BY <1>1, <2>1, <2>2, <2>4 DEF ReceiveInv, OneSpent
  <2> QED
      BY <1>1, <2>1, <2>3, <2>5 DEF ReceiveInv
<1>4. CASE Receive!unanswered
  <2>1. /\ calls' = calls /\ unsure' = TRUE /\ receiveAt' = "idle" /\ receiveFlow' = "failed" /\ done' = done
      BY <1>4 DEF Receive!unanswered, Receive!Step, Receive!PageKeeps, Receive!account
  <2> QED
      BY <1>1, <2>1 DEF ReceiveInv, ReceiveShapes, Places, Receive!InFlight
<1> QED
    BY <1>2, <1>3, <1>4

\* Stellar applies a call or lets it expire.
LEMMA CallEnds ==
    ASSUME ReceiveInv, NEW h \in 1..Len(calls), Receive!land(h) \/ Receive!expire(h)
    PROVE  ReceiveInv'
<1>1. /\ calls[h].st = "pending" /\ UNCHANGED <<open, receiveAt, receiveFlow, hash, done, unsure>>
      /\ \E fate \in Fates : calls' = [calls EXCEPT ![h].st = fate]
      /\ UNCHANGED <<forgot, stray>>
    BY DEF Receive!land, Receive!expire, Receive!page, Fates
<1>2. /\ calls' \in Seq(SignedCalls) /\ Len(calls') = Len(calls)
      /\ Receive!Spending' \subseteq Receive!Spending
      /\ \A i \in 1..Len(calls) : calls'[i].main = calls[i].main
    BY <1>1, CallSettles
<1>3. ReceiveShapes'
    BY <1>1, <1>2 DEF ReceiveInv, ReceiveShapes
<1>4. unsure \/ forgot \/ OneSpent'
    BY <1>1, <1>2 DEF ReceiveInv, OneSpent
<1> QED
    BY <1>1, <1>3, <1>4 DEF ReceiveInv

\* useReceive.ts: the borrowed USDC is swapped or burned once; a second swap or
\* burn is signed only after one was reported as failed without being known to
\* have failed, or after a disconnect made the step forget one that was done or
\* under way, whatever is declined, refused, retried or closed.
THEOREM SpentOnce == MCSpec => []SpentTwiceOnlyIfUnsure
<1> DEFINE MCInv == part = "receive" => ReceiveInv
<1>1. MCInit => MCInv
  <2> SUFFICES ASSUME MCInit, part = "receive" PROVE ReceiveInv
      OBVIOUS
  <2>1. Receive!Init
      BY DEF MCInit
  <2>2. calls = <<>> /\ Receive!Spending = {}
      BY <2>1 DEF Receive!Init, Receive!Spending
  <2> QED
      BY <2>1, <2>2 DEF Receive!Init, ReceiveInv, ReceiveShapes, OneSpent, Places,
         Receive!InFlight, Receive!Nothing
<1>2. MCInv /\ [MCNext]_all => MCInv'
  <2> SUFFICES ASSUME MCInv, [MCNext]_all, part' = "receive" PROVE ReceiveInv'
      OBVIOUS
  <2>1. CASE ReceiveNext
    <3>1. ReceiveInv /\ Receive!Next
        BY <2>1 DEF ReceiveNext
    <3> QED
        BY <3>1, PageGoesOn, SignedSpends, AnswerComes, CallEnds, StepUnmounts,
           StepComesBack, StrayGoesOn DEF Receive!Next,
           Receive!PageSteps
  <2>2. CASE part = part' /\ UNCHANGED receiveVars
      BY <2>2 DEF receiveVars, ReceiveInv, ReceiveShapes, OneSpent, Receive!Spending
  <2> QED
      BY <2>1, <2>2 DEF MCNext, LoanNext, PanelsNext, WalletsNext, TestKeyNext, FundsNext,
         JourneyNext, all
<1>3. MCInv => SpentTwiceOnlyIfUnsure
  <2> SUFFICES ASSUME ReceiveInv, ~unsure, ~forgot PROVE ~(Receive!Cardinality(Receive!Spending) > 1)
      BY DEF SpentTwiceOnlyIfUnsure, Receive!SpentTwiceOnlyIfUnsure
  <2>1. \A g, h \in Receive!Spending : g = h
      BY DEF ReceiveInv, OneSpent
  <2>2. CASE Receive!Spending = {}
      BY <2>2, SameCount, FS_EmptySet
  <2>3. CASE Receive!Spending # {}
    <3>1. PICK h \in Receive!Spending : Receive!Spending = {h}
        BY <2>1, <2>3
    <3>2. Cardinality({h}) = 1
        BY FS_Singleton
    <3> QED
        BY <3>1, <3>2, SameCount
  <2> QED
      BY <2>2, <2>3
<1> QED
    BY <1>1, <1>2, <1>3, PTL DEF MCSpec

-----------------------------------------------------------------------------
(* The borrow and repay panels (Panels).                                      *)

Stroops == Nat \cup {None}

PanelShapes ==
    /\ debt \in Nat /\ price \in Prices /\ pool \in Nat /\ usdc \in Nat /\ trust \in BOOLEAN
    /\ room \in Int
    /\ view \in [debt : Nat, price : Prices, pool : Stroops, usdc : Stroops,
                 trust : BOOLEAN \cup {None}]
    /\ field \in Int \cup {None}
    /\ sent # None => sent.amount \in Nat

\* An amount the page offers is of whole cents.
PanelsInv ==
    /\ PanelShapes
    /\ from = "offered" => \E n \in Int : field = n * CENT

\* The contract takes every amount below the app's headroom; the last stroop of
\* it may be one too many, since the app divides once where the contract rounds
\* the value of the collateral first.
LEMMA HeadroomIsTaken ==
    ASSUME NEW d \in Nat, NEW p \in Prices, NEW a \in Nat \ {0},
           a < Panels!above(Panels!ratioLimitStroops(p), d)
    PROVE  ((((CollateralSats * p) \div SAT) * UNIT) \div (d + a)) >= BORROW_LIMIT
<1> DEFINE V == CollateralSats * p
           q == V \div SAT
           R == ((V * UNIT) \div SAT) \div BORROW_LIMIT
<1>1. /\ SAT \in Nat \ {0} /\ UNIT \in Nat \ {0} /\ BORROW_LIMIT \in Nat \ {0}
      /\ BORROW_LIMIT >= UNIT /\ V \in Nat
    BY PanelsAssumption
<1> HIDE DEF V
<1>2. q \in Nat /\ V < SAT * q + SAT
    BY <1>1, DivBounds, DivNat
<1>3. V * UNIT \in Nat /\ V * UNIT < (q * UNIT + UNIT) * SAT
  <2>1. V * UNIT < (SAT * q + SAT) * UNIT
      BY <1>1, <1>2
  <2>2. (SAT * q + SAT) * UNIT = (q * UNIT + UNIT) * SAT
      BY <1>1, <1>2
  <2> QED
      BY <1>1, <2>1, <2>2
<1>4. (V * UNIT) \div SAT < q * UNIT + UNIT
  <2>1. SAT * ((V * UNIT) \div SAT) <= V * UNIT /\ (V * UNIT) \div SAT \in Nat
      BY <1>1, <1>3, DivBounds, DivNat
  <2>2. SAT * ((V * UNIT) \div SAT) < (q * UNIT + UNIT) * SAT
      BY <1>1, <1>2, <1>3, <2>1
  <2> QED
      BY <1>1, <1>2, <2>1, <2>2
<1>5. BORROW_LIMIT * R <= (V * UNIT) \div SAT /\ R \in Nat
  <2>1. (V * UNIT) \div SAT \in Nat
      BY <1>1, <1>3, DivNat
  <2> QED
      BY <1>1, <2>1, DivBounds, DivNat
<1>6. a + d <= R - 1
    BY <1>5 DEF Panels!above, Panels!ratioLimitStroops, V
<1> HIDE DEF q, R
<1>7. BORROW_LIMIT * (d + a) <= BORROW_LIMIT * R - BORROW_LIMIT
  <2>1. BORROW_LIMIT * (d + a) <= BORROW_LIMIT * (R - 1)
      BY <1>1, <1>5, <1>6
  <2> QED
      BY <1>1, <1>5, <2>1
<1>8. BORROW_LIMIT * (d + a) <= q * UNIT
  <2>1. /\ (V * UNIT) \div SAT \in Nat /\ q * UNIT \in Nat
        /\ BORROW_LIMIT * R \in Nat /\ BORROW_LIMIT * (d + a) \in Nat
      BY <1>1, <1>2, <1>3, <1>5, DivNat
  <2> QED
      BY <1>1, <1>4, <1>5, <1>7, <2>1
<1>9. (d + a) * BORROW_LIMIT <= q * UNIT /\ q * UNIT \in Int /\ d + a \in Nat \ {0}
    BY <1>1, <1>2, <1>8
<1> QED
    BY <1>1, <1>9, DivLargest DEF q, V

LEMMA PanelConstants ==
    /\ None \notin Int /\ None # "offered" /\ CENT \in Nat \ {0, 1} /\ SAT \in Nat \ {0}
    /\ SHARE \in Nat \ {0} /\ BORROW_LIMIT \in Nat \ {0} /\ CollateralSats \in Nat
    /\ UNIT \in Nat /\ Prices \subseteq Nat /\ MaxDebt \in Nat /\ MaxPool \in Nat
    BY PanelsAssumption

LEMMA LimitIsAmount ==
    ASSUME NEW p \in Prices
    PROVE  Panels!ratioLimitStroops(p) \in Nat
<1>1. CollateralSats * p \in Nat
    BY PanelConstants
<1> DEFINE V == CollateralSats * p
<1> HIDE DEF V
<1>2. V * UNIT \in Nat
    BY <1>1, PanelConstants DEF V
<1>3. (V * UNIT) \div SAT \in Nat
    BY <1>2, PanelConstants, DivNat
<1> QED
    BY <1>3, PanelConstants, DivNat DEF Panels!ratioLimitStroops, V

\* What a field shows is of whole cents.
LEMMA FieldIsCents ==
    ASSUME NEW v \in Int
    PROVE  Panels!toFieldValue(v) \in Int /\ \E n \in Int : Panels!toFieldValue(v) = n * CENT
<1>1. v \div CENT \in Int
    BY PanelConstants, DivBounds
<1> QED
    BY <1>1, PanelConstants DEF Panels!toFieldValue

LEMMA OffersAreAmounts ==
    ASSUME PanelShapes
    PROVE  /\ Panels!max \in Int /\ Panels!all \in Int
           /\ Panels!suggestBorrowStroops(Panels!max) \in Int
           /\ Panels!max \div 2 \in Int /\ Panels!max \div 4 \in Int
           /\ Panels!repayToSafeStroops(view.debt, view.price) \in Int
<1>1. /\ view.debt \in Nat /\ view.price \in Prices
      /\ view.pool \in Stroops /\ view.usdc \in Stroops
    BY DEF PanelShapes
<1>2. Panels!ratioLimitStroops(view.price) \in Nat
    BY <1>1, LimitIsAmount
<1>3. Panels!max \in Int
    BY <1>1, <1>2 DEF Panels!max, Panels!availableToBorrow, Panels!above, Panels!smaller, Stroops
<1>4. Panels!all \in Int
    BY <1>1 DEF Panels!all, Panels!smaller, Stroops
<1>5. Panels!max \div 2 \in Int /\ Panels!max \div 4 \in Int /\ Panels!max \div SHARE \in Int
    BY <1>3, PanelConstants, DivBounds
<1>6. (Panels!max \div SHARE) \div CENT \in Int
    BY <1>5, PanelConstants, DivBounds
<1>7. Panels!suggestBorrowStroops(Panels!max) \in Int
    BY <1>6, PanelConstants DEF Panels!suggestBorrowStroops
<1>8. Panels!above(view.debt, Panels!ratioLimitStroops(view.price)) + CENT - 1 \in Int
    BY <1>1, <1>2, PanelConstants DEF Panels!above
<1>9. (Panels!above(view.debt, Panels!ratioLimitStroops(view.price)) + CENT - 1) \div CENT \in Int
    BY <1>8, PanelConstants, DivBounds
<1>10. Panels!repayToSafeStroops(view.debt, view.price) \in Int
    BY <1>9, PanelConstants DEF Panels!repayToSafeStroops
<1> QED
    BY <1>3, <1>4, <1>5, <1>7, <1>10

\* The steps that fill the field.
LEMMA FieldIsFilled ==
    ASSUME PanelsInv,
           \/ \E t \in {"borrow", "repay"} : Panels!open(t)
           \/ Panels!onChange \/ Panels!suggest \/ Panels!maxSafe \/ Panels!repayAll
    PROVE  PanelsInv'
<1>1. UNCHANGED <<debt, price, pool, usdc, trust, room, view, sent>>
    BY DEF Panels!open, Panels!onChange, Panels!suggest, Panels!maxSafe, Panels!repayAll,
           Panels!outside, Panels!chain
<1>2. PanelShapes
    BY DEF PanelsInv
<1>3. field' \in Int \cup {None} /\ (from' = "offered" => \E n \in Int : field' = n * CENT)
  <2>1. ASSUME NEW t \in {"borrow", "repay"}, Panels!open(t)
        PROVE  field' \in Int \cup {None} /\ from' # "offered"
    <3>1. \/ field' = None /\ from' = None
          \/ from' = "safe" /\ \E v \in Int : field' = Panels!toFieldValue(v)
        BY <2>1, <1>2, OffersAreAmounts DEF Panels!open, Panels!Put
    <3> QED
        BY <3>1, FieldIsCents, PanelConstants
  <2>2. CASE Panels!onChange
      BY <2>2, PanelConstants DEF Panels!onChange, Panels!Put
  <2>3. CASE Panels!suggest
      BY <2>3, <1>2, OffersAreAmounts, FieldIsCents DEF Panels!suggest, Panels!Put
  <2>4. CASE Panels!maxSafe
      BY <2>4, <1>2, OffersAreAmounts, FieldIsCents DEF Panels!maxSafe, Panels!Put
  <2>5. CASE Panels!repayAll
      BY <2>5, <1>2, OffersAreAmounts, FieldIsCents DEF Panels!repayAll, Panels!Put
  <2> QED
      BY <2>1, <2>2, <2>3, <2>4, <2>5
<1> QED
    BY <1>1, <1>2, <1>3 DEF PanelsInv, PanelShapes

\* Reads leave the chain's values, or nothing.
LEMMA ViewIsRead ==
    ASSUME PanelsInv, Panels!refresh
    PROVE  PanelsInv'
<1>1. UNCHANGED <<debt, price, pool, usdc, trust, room, field, from, sent>>
    BY DEF Panels!refresh, Panels!form, Panels!outside, Panels!chain
<1>2. view' \in [debt : Nat, price : Prices, pool : Stroops, usdc : Stroops,
                 trust : BOOLEAN \cup {None}]
    BY DEF PanelsInv, PanelShapes, Panels!refresh, Stroops
<1> QED
    BY <1>1, <1>2 DEF PanelsInv, PanelShapes

\* What is sent is an amount.
LEMMA CallIsSent ==
    ASSUME PanelsInv, Panels!buyUsdc \/ Panels!addUsdc \/ Panels!onSubmit
    PROVE  PanelsInv'
<1>1. UNCHANGED <<debt, price, pool, usdc, trust, room, view, field, from>>
    BY DEF Panels!buyUsdc, Panels!addUsdc, Panels!onSubmit, Panels!form, Panels!outside,
           Panels!chain
<1>2. sent'.amount \in Nat
  <2>1. CASE Panels!buyUsdc
    <3>1. /\ view.usdc \in Nat /\ view.debt \in Nat
          /\ sent'.amount = Panels!repayShortfallStroops(view.debt, view.usdc)
        BY <2>1 DEF Panels!buyUsdc, PanelsInv, PanelShapes, Stroops
    <3>2. view.debt > view.usdc => (view.debt - view.usdc) \div CENT \in Nat
        BY <3>1, PanelConstants, DivNat
    <3>3. view.debt > view.usdc => ((view.debt - view.usdc) \div CENT + 1) * CENT \in Nat
        BY <3>2, PanelConstants
    <3> QED
        BY <3>1, <3>3 DEF Panels!repayShortfallStroops
  <2>2. CASE Panels!addUsdc
      BY <2>2 DEF Panels!addUsdc
  <2>3. CASE Panels!onSubmit
    <3>1. field \in Int /\ debt \in Nat /\ field > 0
        BY <2>3 DEF Panels!onSubmit, Panels!BorrowPanel, Panels!RepayPanel, PanelsInv, PanelShapes
    <3> QED
        BY <2>3, <3>1 DEF Panels!onSubmit, Panels!repayPlan
  <2> QED
      BY <2>1, <2>2, <2>3
<1> QED
    BY <1>1, <1>2 DEF PanelsInv, PanelShapes

\* The call lands, or the world moves.
LEMMA ChainMoves ==
    ASSUME PanelsInv, Panels!land \/ Panels!accrue \/ Panels!moved
    PROVE  PanelsInv'
<1>1. UNCHANGED <<view, field, from>> /\ (sent' = sent \/ sent' = None)
    BY DEF Panels!land, Panels!accrue, Panels!moved, Panels!done, Panels!form
<1>2. /\ debt' \in Nat /\ price' \in Prices /\ pool' \in Nat /\ usdc' \in Nat
      /\ trust' \in BOOLEAN /\ room' \in Int
  <2>1. CASE Panels!land
    <3>1. /\ sent.amount \in Nat /\ price' = price /\ room \in Int
          /\ debt \in Nat /\ price \in Prices /\ pool \in Nat /\ usdc \in Nat /\ trust \in BOOLEAN
        BY <2>1 DEF Panels!land, Panels!done, PanelsInv, PanelShapes
    <3>2. /\ Panels!borrowTaken(sent.amount) => sent.amount <= pool
          /\ Panels!repayTaken(sent.amount) => sent.amount <= debt /\ sent.amount <= usdc
        BY DEF Panels!borrowTaken, Panels!repayTaken
    <3>3. \/ /\ Panels!borrowTaken(sent.amount)
             /\ debt' = debt + sent.amount /\ pool' = pool - sent.amount /\ usdc' = usdc + sent.amount
          \/ /\ Panels!repayTaken(sent.amount)
             /\ debt' = debt - sent.amount /\ pool' = pool + sent.amount /\ usdc' = usdc - sent.amount
          \/ debt' = debt /\ pool' = pool /\ usdc' = usdc + sent.amount
          \/ debt' = debt /\ pool' = pool /\ usdc' = usdc
        BY <2>1 DEF Panels!land
    <3>4. /\ trust' = trust \/ trust' = TRUE
          /\ room' \in {room, room - sent.amount, room + sent.amount}
        BY <2>1 DEF Panels!land
    <3>5. debt' \in Nat /\ pool' \in Nat /\ usdc' \in Nat
        BY <3>1, <3>2, <3>3
    <3>6. trust' \in BOOLEAN
        BY <3>1, <3>4
    <3>7. room' \in Int
        BY <3>1, <3>4
    <3> QED
        BY <3>1, <3>5, <3>6, <3>7
  <2>2. CASE Panels!accrue \/ Panels!moved
      BY <2>2, PanelConstants DEF Panels!accrue, Panels!moved, PanelsInv, PanelShapes
  <2> QED
      BY <2>1, <2>2
<1> QED
    BY <1>1, <1>2 DEF PanelsInv, PanelShapes

\* What the four parts of the promise rest on, once what was read is so.
LEMMA FreshOffersHold ==
    ASSUME PanelsInv, Panels!fresh
    PROVE  Panels!OffersAreTaken
<1>1. /\ debt \in Nat /\ price \in Prices /\ pool \in Nat /\ usdc \in Nat
      /\ view.debt = debt /\ view.price = price /\ view.pool = pool /\ view.usdc = usdc
      /\ pool # None /\ usdc # None /\ room \in Int
    BY PanelConstants DEF PanelsInv, PanelShapes, Panels!fresh
<1> DEFINE R == Panels!ratioLimitStroops(price)
<1>2. R \in Nat
    BY <1>1, LimitIsAmount
<1> HIDE DEF R
<1>3. /\ Panels!max <= Panels!above(R, debt) /\ Panels!max <= pool /\ Panels!max \in Int
      /\ Panels!above(R, debt) \in Nat
    BY <1>1, <1>2 DEF Panels!max, Panels!availableToBorrow, Panels!smaller, Panels!above, R
<1>4. ASSUME from = "offered", Panels!BorrowPanel
      PROVE  \/ Panels!borrowTaken(field) \/ (field = Panels!max /\ Panels!borrowTaken(field - 1))
             \/ Panels!refused(field)
  <2>1. field \in Int /\ field > 0 /\ field <= Panels!max /\ field >= 2
    <3>1. field \in Int /\ field > 0 /\ field <= Panels!max
        BY <1>4, PanelConstants DEF Panels!BorrowPanel, PanelsInv
    <3>2. PICK n \in Int : field = n * CENT
        BY <1>4 DEF PanelsInv
    <3>3. n >= 1
        BY <3>1, <3>2, PanelConstants
    <3>4. n * CENT >= CENT
        BY <3>3, PanelConstants
    <3> QED
        BY <3>1, <3>2, <3>4, PanelConstants
  <2>2. ASSUME NEW a \in Nat \ {0}, a <= field, a < Panels!above(R, debt),
               ~Panels!refused(field)
        PROVE  Panels!borrowTaken(a)
    <3>1. ((((CollateralSats * price) \div SAT) * UNIT) \div (debt + a)) >= BORROW_LIMIT
        BY <1>1, <2>2, HeadroomIsTaken DEF R
    <3>2. a <= pool /\ debt + a > 0
        BY <1>1, <1>3, <2>1, <2>2
    <3>3. ~Panels!refused(a)
      <4>1. room \in Int
          BY DEF PanelsInv, PanelShapes
      <4> QED
          BY <2>1, <2>2, <4>1 DEF Panels!refused
    <3> QED
        BY <3>1, <3>2, <3>3 DEF Panels!borrowTaken
  <2>3. CASE field < Panels!above(R, debt)
      BY <2>1, <2>2, <2>3
  <2>4. CASE field >= Panels!above(R, debt)
    <3>1. field = Panels!max /\ field - 1 \in Nat \ {0} /\ field - 1 <= field
          /\ field - 1 < Panels!above(R, debt)
        BY <1>3, <2>1, <2>4
    <3> QED
        BY <2>2, <3>1
  <2> QED
      BY <1>3, <2>1, <2>3, <2>4
<1>5. Panels!RepayPanel => Panels!repayTaken(field)
    BY <1>1 DEF Panels!RepayPanel, Panels!repayTaken
<1>6. debt - Panels!repayToSafeStroops(debt, price) <= R
  <2> DEFINE over == Panels!above(debt, R)
  <2>1. over \in Nat /\ debt <= R + over
      BY <1>1, <1>2 DEF Panels!above
  <2> HIDE DEF over
  <2>2. over + CENT - 1 \in Int
      BY <2>1, PanelConstants
  <2>3. /\ (over + CENT - 1) \div CENT \in Int
        /\ over + CENT - 1 < CENT * ((over + CENT - 1) \div CENT) + CENT
      BY <2>2, PanelConstants, DivBounds
  <2>4. CENT * ((over + CENT - 1) \div CENT) = ((over + CENT - 1) \div CENT) * CENT
      BY <2>3, PanelConstants
  <2>5. over <= ((over + CENT - 1) \div CENT) * CENT /\ ((over + CENT - 1) \div CENT) * CENT \in Int
      BY <2>1, <2>3, <2>4, PanelConstants
  <2>6. Panels!repayToSafeStroops(debt, price) = ((over + CENT - 1) \div CENT) * CENT
      BY DEF Panels!repayToSafeStroops, over, R
  <2> QED
      BY <1>1, <1>2, <2>1, <2>5, <2>6
<1>7. usdc + Panels!repayShortfallStroops(debt, usdc) >= debt
  <2>1. CASE debt <= usdc
      BY <1>1, <2>1 DEF Panels!repayShortfallStroops
  <2>2. CASE debt > usdc
    <3> DEFINE short == debt - usdc
    <3>1. short \in Nat
        BY <1>1, <2>2
    <3> HIDE DEF short
    <3>2. (short \div CENT) \in Int /\ short < CENT * (short \div CENT) + CENT
        BY <3>1, PanelConstants, DivBounds
    <3>3. ((short \div CENT) + 1) * CENT = CENT * (short \div CENT) + CENT
        BY <3>2, PanelConstants
    <3>4. Panels!repayShortfallStroops(debt, usdc) = ((short \div CENT) + 1) * CENT
        BY <1>1, <2>2 DEF Panels!repayShortfallStroops, short
    <3>5. ((short \div CENT) + 1) * CENT \in Int
        BY <3>2, PanelConstants
    <3>6. ((short \div CENT) + 1) * CENT > short
        BY <3>1, <3>2, <3>3, <3>5
    <3> QED
        BY <1>1, <3>1, <3>4, <3>5, <3>6 DEF short
  <2> QED
      BY <1>1, <2>1, <2>2
<1> QED
    BY <1>4, <1>5, <1>6, <1>7 DEF Panels!OffersAreTaken, R

\* model.ts: while what the page has read is so, the amounts its panels offer are
\* taken by writz-lend, but for the last stroop of the whole headroom and for the
\* refusals the panels do not read (pause, stale tip, near timelock, exposure cap);
\* the amount it opens on at risk makes the loan safe, and a top up covers the debt.
THEOREM OffersHold == MCSpec => []OffersAreTaken
<1> DEFINE MCInv == part = "panels" => PanelsInv
<1>1. MCInit => MCInv
  <2> SUFFICES ASSUME MCInit, part = "panels" PROVE PanelsInv
      OBVIOUS
  <2>1. Panels!Init
      BY DEF MCInit
  <2>2. /\ debt \in Nat /\ price \in Prices /\ pool \in Nat /\ usdc \in Nat /\ trust \in BOOLEAN
        /\ field = None /\ from = None /\ sent = None /\ room \in Int
      BY <2>1, PanelConstants DEF Panels!Init
  <2>3. view = [debt |-> debt, price |-> price, pool |-> pool, usdc |-> usdc, trust |-> trust]
      BY <2>1 DEF Panels!Init
  <2> QED
      BY <2>2, <2>3, PanelConstants DEF PanelsInv, PanelShapes, Stroops
<1>2. MCInv /\ [MCNext]_all => MCInv'
  <2> SUFFICES ASSUME MCInv, [MCNext]_all, part' = "panels" PROVE PanelsInv'
      OBVIOUS
  <2>1. CASE PanelsNext
    <3>1. PanelsInv /\ Panels!Next
        BY <2>1 DEF PanelsNext
    <3> QED
        BY <3>1, FieldIsFilled, ViewIsRead, CallIsSent, ChainMoves DEF Panels!Next
  <2>2. CASE part = part' /\ UNCHANGED panelVars
      BY <2>2 DEF panelVars, PanelsInv, PanelShapes
  <2> QED
      BY <2>1, <2>2 DEF MCNext, LoanNext, ReceiveNext, WalletsNext, TestKeyNext, FundsNext,
                        JourneyNext, all
<1>3. MCInv => OffersAreTaken
    BY FreshOffersHold DEF OffersAreTaken, Panels!OffersAreTaken
<1> QED
    BY <1>1, <1>2, <1>3, PTL DEF MCSpec

-----------------------------------------------------------------------------
(* The Lend and Earn pages (Funds).                                           *)

Keys == [who : Accounts \cup {"pool"}, n : Int]
Reads == [poll : Funds!Polls, key : Keys \cup {None}, value : Int \cup {None}, seen : Int]
Numbers == [key : Keys, value : Int \cup {None}, error : BOOLEAN, seen : Int]
Sent == [kind : {"in", "out", "trust"}, who : Accounts, amount : Int, all : BOOLEAN,
         emptied : BOOLEAN, fresh : BOOLEAN, calm : BOOLEAN, at : {"build", "sign"}]

FundsShapes ==
    /\ fundsPage \in {"lend", "earn"} /\ account \in Accounts \cup {None} /\ nonce \in Int
    /\ heldBy \in [Accounts -> Int] /\ inWallet \in [Accounts -> Int] /\ liquid \in Int
    /\ paused \in BOOLEAN /\ share \in Int
    /\ ops \in [Accounts -> Nat] /\ reported = ops
    /\ polled \in [Funds!Polls -> Numbers \cup {None}]
    /\ reading \in SUBSET Reads
    /\ tx \in Sent \cup {None}

\* A key of today's nonce, of some account, and what is known under it.
Fits(p, x) ==
    /\ \E a \in Accounts : x.key = [who |-> IF p = "pool" THEN p ELSE a, n |-> nonce]
    /\ p # "pool" => x.seen = ops[x.key.who]

\* What is shown, and what answers will come, are of today's nonce and were read
\* after every transaction of their account.
NumbersAreNew ==
    /\ \A p \in Funds!Polls : polled[p] # None => polled[p].key # None /\ Fits(p, polled[p])
    /\ \A r \in reading : r.key # None => r.value \in Int /\ Fits(r.poll, r)

\* The amount that would be sent now.
Due == IF tx.all /\ tx.at = "build" THEN Funds!wholeBalance(tx.who, tx.amount) ELSE tx.amount

\* A call made from true numbers would be taken, and one made by Max would empty.
CallIsSound ==
    tx # None =>
        /\ tx.kind # "trust" => tx.amount > 0
        /\ tx.all => fundsPage = "lend" /\ tx.kind = "out"
        /\ tx.fresh => Funds!accepts(tx.kind, tx.who, Due)
        /\ tx.emptied => tx.kind = "out" /\ (fundsPage = "lend" => tx.all)
        /\ tx.emptied /\ tx.calm =>
               IF fundsPage = "lend"
               THEN tx.at = "sign" => tx.amount = Funds!smaller(heldBy[tx.who], liquid)
               ELSE tx.amount = (heldBy[tx.who] \div CENT) * CENT

FundsInv ==
    FundsShapes /\ NumbersAreNew /\ CallIsSound /\ ~refusedFresh /\ ~remained
    /\ blanked # "current"

LEMMA FundsConstants ==
    /\ Accounts # {} /\ None \notin Accounts /\ None \notin Int
    /\ None # "current" /\ None \notin Numbers
    /\ CENT \in Nat \ {0} /\ MaxHeld \in Nat \ {0}
    BY FundsAssumption, PanelsAssumption DEF Numbers, Keys

\* The key of an account's poll.
LEMMA KeyOfAccount ==
    ASSUME NEW a \in Accounts, NEW p, NEW n
    PROVE  Funds!key(p, a, n) = [who |-> IF p = "pool" THEN p ELSE a, n |-> n]
    BY FundsConstants DEF Funds!key

\* A new key leaves nothing behind that was read under the old one.
LEMMA NewKeyForgets ==
    ASSUME FundsInv, NEW n \in {nonce, nonce + 1}, Funds!NewKey(n), fundsPage' = fundsPage,
           ops' \in [Accounts -> Nat], n = nonce => ops' = ops
    PROVE  /\ NumbersAreNew' /\ nonce' \in Int
           /\ polled' \in [Funds!Polls -> Numbers \cup {None}]
           /\ reading' \in SUBSET Reads
<1>1. FundsShapes /\ NumbersAreNew /\ nonce' = n /\ nonce \in Int /\ nonce' \in Int
    BY DEF FundsInv, FundsShapes, Funds!NewKey
<1>2. Funds!Polls' = Funds!Polls
    BY DEF Funds!Polls
<1>3. polled' = [p \in Funds!Polls |-> IF polled[p] # None /\ Funds!Over(p, polled[p].key, n)
                                       THEN None ELSE polled[p]]
    BY DEF Funds!NewKey, Funds!Kept
<1>4. reading' = {IF Funds!Over(r.poll, r.key, n)
                  THEN [r EXCEPT !.key = None, !.value = None, !.seen = 0] ELSE r : r \in reading}
    BY DEF Funds!NewKey, Funds!Late
<1>5. ASSUME NEW p, NEW x, Fits(p, x), n # nonce
      PROVE  Funds!Over(p, x.key, n)
  <2>1. PICK a \in Accounts : x.key = [who |-> IF p = "pool" THEN p ELSE a, n |-> nonce]
      BY <1>5 DEF Fits
  <2>2. x.key.n = nonce
      BY <2>1
  <2>3. ASSUME NEW b \in Accounts PROVE Funds!key(p, b, n) # x.key
    <3>1. Funds!key(p, b, n).n = n
        BY KeyOfAccount
    <3> QED
        BY <1>5, <2>2, <3>1
  <2> QED
      BY <2>3 DEF Funds!Over
<1>6. \A p \in Funds!Polls : polled'[p] \in {None, polled[p]} /\ (n # nonce => polled'[p] = None)
  <2> SUFFICES ASSUME NEW p \in Funds!Polls
               PROVE  polled'[p] \in {None, polled[p]} /\ (n # nonce => polled'[p] = None)
      OBVIOUS
  <2>1. polled'[p] = IF polled[p] # None /\ Funds!Over(p, polled[p].key, n)
                    THEN None ELSE polled[p]
      BY <1>3
  <2>2. polled[p] # None => Fits(p, polled[p])
      BY <1>1 DEF NumbersAreNew
  <2> QED
      BY <1>5, <2>1, <2>2
<1>7. \A r \in reading' : r \in Reads /\ (r.key = None \/ (r \in reading /\ n = nonce))
  <2> SUFFICES ASSUME NEW r \in reading
               PROVE  LET s == IF Funds!Over(r.poll, r.key, n)
                               THEN [r EXCEPT !.key = None, !.value = None, !.seen = 0] ELSE r
                      IN  s \in Reads /\ (s.key = None \/ (s \in reading /\ n = nonce))
      BY <1>4
  <2>1. r \in Reads /\ (r.key # None => Fits(r.poll, r))
      BY <1>1 DEF FundsShapes, NumbersAreNew
  <2>2. CASE Funds!Over(r.poll, r.key, n)
    <3>1. PICK s : s = [r EXCEPT !.key = None, !.value = None, !.seen = 0]
        OBVIOUS
    <3>2. r \in Reads /\ 0 \in Int
        BY <2>1
    <3>3. s \in Reads /\ s.key = None
        BY <3>1, <3>2 DEF Reads
    <3> QED
        BY <2>2, <3>1, <3>3
  <2>3. CASE ~Funds!Over(r.poll, r.key, n)
      BY <1>5, <2>1, <2>3
  <2> QED
      BY <2>2, <2>3
<1>8. Reads' = Reads
    BY <1>2 DEF Reads
<1>9. polled' \in [Funds!Polls -> Numbers \cup {None}]
    BY <1>1, <1>3, <1>6 DEF FundsShapes
<1>10. NumbersAreNew'
  <2>1. ASSUME NEW p \in Funds!Polls, polled'[p] # None
        PROVE  /\ polled'[p].key # None
               /\ \E a \in Accounts :
                      polled'[p].key = [who |-> IF p = "pool" THEN p ELSE a, n |-> nonce']
               /\ p # "pool" => polled'[p].seen = ops'[polled'[p].key.who]
    <3>1. polled'[p] = polled[p] /\ n = nonce /\ polled[p] # None
        BY <1>6, <2>1
    <3> QED
        BY <1>1, <3>1 DEF NumbersAreNew, Fits
  <2>2. ASSUME NEW r \in reading', r.key # None
        PROVE  /\ r.value \in Int
               /\ \E a \in Accounts :
                      r.key = [who |-> IF r.poll = "pool" THEN r.poll ELSE a, n |-> nonce']
               /\ r.poll # "pool" => r.seen = ops'[r.key.who]
    <3>1. r \in reading /\ n = nonce
        BY <1>7, <2>2
    <3> QED
        BY <1>1, <2>2, <3>1 DEF NumbersAreNew, Fits
  <2> QED
      BY <1>2, <2>1, <2>2 DEF NumbersAreNew, Fits
<1> QED
    BY <1>1, <1>7, <1>9, <1>10

\* The call is as sound as it was when nothing it rests on changes.
LEMMA CallStaysSound ==
    ASSUME FundsInv, UNCHANGED <<fundsPage, heldBy, inWallet, liquid, paused, share, tx>>
    PROVE  CallIsSound'
    BY DEF FundsInv, CallIsSound, Due, Funds!accepts, Funds!unread, Funds!wholeBalance, Funds!smaller

\* A read begins, under the key of the moment.
LEMMA ReadBegins ==
    ASSUME FundsInv, NEW p \in Funds!Polls, Funds!load(p)
    PROVE  FundsInv'
<1>1. /\ UNCHANGED <<fundsPage, account, nonce, heldBy, inWallet, liquid, paused, share, polled, tx, ops, reported,
                     blanked, refusedFresh, remained>>
      /\ reading' = reading \cup
           {[poll |-> p, key |-> Funds!Key(p), value |-> Funds!read(p, Funds!Key(p)),
             seen |-> IF p = "pool" THEN 0 ELSE ops[account]]}
      /\ Funds!Key(p) # None
    BY DEF Funds!load, Funds!chain, Funds!history
<1>2. FundsShapes /\ NumbersAreNew /\ Funds!Polls' = Funds!Polls
    BY <1>1 DEF FundsInv, Funds!Polls
<1>3. p \in {"pool", "held", "wallet"}
    BY DEF Funds!Polls
<1>4. p # "pool" => account \in Accounts
    BY <1>1, <1>2 DEF Funds!Key, Funds!key, FundsShapes
<1>5. Funds!Key(p) = [who |-> IF p = "pool" THEN p ELSE account, n |-> nonce]
    BY <1>1 DEF Funds!Key, Funds!key
<1>6. PICK r : r = [poll |-> p, key |-> Funds!Key(p), value |-> Funds!read(p, Funds!Key(p)),
                    seen |-> IF p = "pool" THEN 0 ELSE ops[account]]
    OBVIOUS
<1>7. Funds!read(p, Funds!Key(p)) \in Int
    BY <1>2, <1>3, <1>4, <1>5 DEF Funds!read, FundsShapes
<1>8. Funds!Key(p) \in Keys
    BY <1>2, <1>4, <1>5 DEF Keys, FundsShapes
<1>9. (IF p = "pool" THEN 0 ELSE ops[account]) \in Int
    BY <1>2, <1>4 DEF FundsShapes
<1>10. r \in Reads
    BY <1>6, <1>7, <1>8, <1>9 DEF Reads
<1>11. r.value \in Int /\ Fits(r.poll, r)
  <2>1. r.poll = p /\ r.key = Funds!Key(p) /\ r.value \in Int
        /\ r.seen = (IF p = "pool" THEN 0 ELSE ops[account])
      BY <1>6, <1>7
  <2>2. \E a \in Accounts : r.key = [who |-> IF p = "pool" THEN p ELSE a, n |-> nonce]
      BY <1>4, <1>5, <2>1, FundsConstants
  <2>3. p # "pool" => r.key.who = account
      BY <1>5, <2>1
  <2> QED
      BY <2>1, <2>2, <2>3 DEF Fits
<1>12. reading' = reading \cup {r}
    BY <1>1, <1>6
<1>13. reading' \in SUBSET Reads'
    BY <1>2, <1>10, <1>12 DEF FundsShapes, Reads
<1>14. NumbersAreNew'
    BY <1>1, <1>2, <1>11, <1>12 DEF NumbersAreNew, Fits
<1>15. FundsShapes'
    BY <1>1, <1>2, <1>13 DEF FundsShapes
<1> QED
    BY <1>1, <1>14, <1>15, CallStaysSound DEF FundsInv

\* An answer is applied, whatever the page shows by then.
LEMMA AnswerIsApplied ==
    ASSUME FundsInv, NEW r \in reading, NEW ok \in BOOLEAN, Funds!answered(r, ok)
    PROVE  FundsInv'
<1>1. /\ UNCHANGED <<fundsPage, account, nonce, heldBy, inWallet, liquid, paused, share, tx, ops, reported,
                     refusedFresh, remained>>
      /\ reading' = reading \ {r}
      /\ polled' = [polled EXCEPT ![r.poll] = IF r.key = None THEN None ELSE Funds!applyRead(@, r, ok)]
    BY DEF Funds!answered, Funds!chain
<1>2. FundsShapes /\ NumbersAreNew /\ blanked # "current" /\ Funds!Polls' = Funds!Polls
    BY <1>1 DEF FundsInv, Funds!Polls
<1>3. r \in Reads /\ r.poll \in Funds!Polls
    BY <1>2 DEF FundsShapes, Reads
<1> DEFINE prev == polled[r.poll]
           next == IF r.key = None THEN None ELSE Funds!applyRead(prev, r, ok)
<1>4. polled' = [polled EXCEPT ![r.poll] = next] /\ prev \in Numbers \cup {None}
    BY <1>1, <1>2, <1>3 DEF FundsShapes
<1> HIDE DEF prev
<1>5. /\ next \in Numbers \cup {None}
      /\ next # None => next.key # None /\ Fits(r.poll, next)
      /\ r.key # None /\ prev # None /\ prev.key = r.key /\ prev.value # None =>
             next # None /\ next.value # None /\ next.key = r.key
  <2>1. CASE r.key = None
      BY <2>1
  <2>2. CASE r.key # None /\ ~ok /\ prev # None /\ prev.key = r.key
    <3>1. PICK s : s = [prev EXCEPT !.error = (r.poll = "held")]
        OBVIOUS
    <3>2. next = s
        BY <2>2, <3>1 DEF Funds!applyRead
    <3>3. prev \in Numbers /\ (r.poll = "held") \in BOOLEAN
        BY <1>4, <2>2
    <3>4. s \in Numbers /\ s.key = prev.key /\ s.value = prev.value /\ s.seen = prev.seen
        BY <3>1, <3>3 DEF Numbers
    <3>5. prev.key # None /\ Fits(r.poll, prev)
        BY <1>2, <1>3, <2>2 DEF NumbersAreNew, prev
    <3> QED
        BY <2>2, <3>2, <3>4, <3>5, FundsConstants DEF Fits
  <2>3. CASE r.key # None /\ ~(~ok /\ prev # None /\ prev.key = r.key)
    <3>1. PICK s : s = [key |-> r.key, value |-> IF ok THEN r.value ELSE None,
                        error |-> (~ok /\ r.poll = "held"), seen |-> r.seen]
        OBVIOUS
    <3>2. next = s
        BY <2>3, <3>1 DEF Funds!applyRead
    <3>3. /\ r.key \in Keys /\ r.seen \in Int /\ r.value \in Int /\ Fits(r.poll, r)
          /\ (~ok /\ r.poll = "held") \in BOOLEAN
        BY <1>2, <1>3, <2>3 DEF NumbersAreNew, Reads
    <3>4. s \in Numbers /\ s.key = r.key /\ s.seen = r.seen /\ (ok => s.value = r.value)
        BY <3>1, <3>3 DEF Numbers
    <3>5. ok => s.value # None
        BY <3>3, <3>4, FundsConstants
    <3>6. next \in Numbers /\ next # None /\ next.key # None /\ Fits(r.poll, next)
        BY <2>3, <3>2, <3>3, <3>4, FundsConstants DEF Fits
    <3>7. prev # None /\ prev.key = r.key => next.value # None /\ next.key = r.key
        BY <2>3, <3>2, <3>4, <3>5
    <3> QED
        BY <3>6, <3>7
  <2> QED
      BY <2>1, <2>2, <2>3
<1> HIDE DEF next
<1>6. polled' \in [Funds!Polls -> Numbers \cup {None}] /\ polled'[r.poll] = next
      /\ \A p \in Funds!Polls : p # r.poll => polled'[p] = polled[p]
    BY <1>2, <1>3, <1>4, <1>5 DEF FundsShapes
<1>7. blanked' # "current"
  <2> SUFFICES ASSUME r.key = Funds!Key(r.poll), Funds!value(r.poll) # None,
                      Funds!value(r.poll)' = None
               PROVE  FALSE
      BY <1>2, FundsConstants DEF Funds!answered
  <2>1. /\ polled[r.poll] # None /\ polled[r.poll].key = Funds!Key(r.poll)
        /\ polled[r.poll].value # None
      BY DEF Funds!value, Funds!current
  <2>2. polled[r.poll].key # None
      BY <1>2, <1>3, <2>1 DEF NumbersAreNew
  <2>3. next.value # None /\ next # None /\ next.key = r.key
      BY <1>5, <2>1, <2>2 DEF prev
  <2>4. polled'[r.poll] # None /\ polled'[r.poll].value # None
      BY <1>6, <2>3
  <2>5. Funds!Key(r.poll)' = Funds!Key(r.poll)
      BY <1>1 DEF Funds!Key, Funds!key
  <2>6. polled'[r.poll].key = Funds!Key(r.poll)
      BY <1>6, <2>1, <2>3
  <2> QED
      BY <2>4, <2>5, <2>6 DEF Funds!value, Funds!current
<1>8. NumbersAreNew'
  <2>1. ASSUME NEW p \in Funds!Polls, polled'[p] # None
        PROVE  polled'[p].key # None /\ Fits(p, polled'[p])
      BY <1>2, <1>5, <1>6, <2>1 DEF NumbersAreNew
  <2>2. \A s \in reading' : s.key # None => s.value \in Int /\ Fits(s.poll, s)
      BY <1>1, <1>2 DEF NumbersAreNew
  <2>3. nonce' = nonce /\ ops' = ops
      BY <1>1
  <2> QED
      BY <1>2, <2>1, <2>2, <2>3 DEF NumbersAreNew, Fits
<1>9. FundsShapes'
  <2>1. Reads' = Reads /\ reading' \in SUBSET Reads
      BY <1>1, <1>2 DEF Reads, FundsShapes
  <2> QED
      BY <1>1, <1>2, <1>6, <2>1 DEF FundsShapes
<1> QED
    BY <1>1, <1>7, <1>8, <1>9, CallStaysSound DEF FundsInv

\* "Try again", and another account.
LEMMA AccountSwitches ==
    ASSUME FundsInv, Funds!refresh \/ Funds!switch
    PROVE  FundsInv'
<1>1. /\ UNCHANGED <<fundsPage, heldBy, inWallet, liquid, paused, share, tx, ops, reported, blanked, refusedFresh, remained>>
      /\ account' \in Accounts \cup {None}
      /\ Funds!NewKey(nonce + 1) \/ UNCHANGED <<nonce, polled, reading>>
    BY DEF Funds!refresh, Funds!switch, Funds!chain, Funds!history, FundsInv, FundsShapes
<1>2. FundsShapes /\ Funds!Polls' = Funds!Polls /\ nonce + 1 \in Int
    BY <1>1 DEF FundsInv, FundsShapes, Funds!Polls
<1>3. /\ NumbersAreNew' /\ nonce' \in Int
      /\ polled' \in [Funds!Polls -> Numbers \cup {None}] /\ reading' \in SUBSET Reads
  <2>1. CASE Funds!NewKey(nonce + 1)
    <3>1. nonce + 1 # nonce /\ ops' \in [Accounts -> Nat]
        BY <1>1, <1>2 DEF FundsShapes
    <3> QED
        BY <1>1, <2>1, <3>1, NewKeyForgets
  <2>2. CASE UNCHANGED <<nonce, polled, reading>>
      BY <1>1, <1>2, <2>2 DEF FundsInv, FundsShapes, NumbersAreNew, Fits
  <2> QED
      BY <1>1, <2>1, <2>2
<1>4. FundsShapes'
    BY <1>1, <1>2, <1>3 DEF FundsShapes, Reads
<1> QED
    BY <1>1, <1>3, <1>4, CallStaysSound DEF FundsInv

\* What the page offers when its numbers are the chain's.
LEMMA TrueNumbersOffer ==
    ASSUME FundsInv, account \in Accounts, Funds!supplied = heldBy[account]
    PROVE  /\ fundsPage = "earn" => Funds!max("out") = heldBy[account]
           /\ fundsPage = "lend" /\ Funds!liquidity = liquid =>
                  Funds!max("out") = Funds!smaller(heldBy[account], liquid)
<1>1. /\ heldBy[account] \in Int /\ liquid \in Int /\ fundsPage \in {"lend", "earn"}
      /\ heldBy[account] # None /\ liquid # None
    BY FundsConstants DEF FundsInv, FundsShapes
<1>2. Funds!max("out") = Funds!withdrawable(heldBy[account], Funds!liquidity).stroops
    BY <1>1 DEF Funds!max, Funds!out
<1>3. fundsPage = "earn" => Funds!liquidity = None
    BY DEF Funds!liquidity
<1> QED
    BY <1>1, <1>2, <1>3 DEF Funds!withdrawable, Funds!smaller

\* A call is made: from true numbers it is one that is taken.
LEMMA CallIsMade ==
    ASSUME FundsInv, NEW side \in {"in", "out"}, NEW v \in 1..MaxHeld, Funds!submit(side, v)
    PROVE  FundsInv'
<1>1. /\ UNCHANGED <<fundsPage, account, nonce, heldBy, inWallet, liquid, paused, share, polled, reading, ops, reported,
                     blanked, refusedFresh, remained>>
      /\ account # None /\ v > 0 /\ (Funds!max(side) # None => v <= Funds!max(side))
    BY DEF Funds!submit, Funds!still, Funds!chain, Funds!history, Funds!card, Funds!checkAmount
<1>2. FundsShapes /\ account \in Accounts /\ Funds!Polls' = Funds!Polls /\ v \in Int
    BY <1>1 DEF FundsInv, FundsShapes, Funds!Polls
<1>3. /\ heldBy[account] \in Int /\ inWallet[account] \in Int /\ liquid \in Int
      /\ fundsPage \in {"lend", "earn"}
    BY <1>2 DEF FundsShapes
<1> DEFINE whole == Funds!whole(side, v)
           emptied == /\ side = "out" /\ Funds!max(side) # None /\ v = Funds!maxField(side)
                      /\ IF fundsPage = "lend" THEN whole ELSE Funds!supplied = heldBy[account]
           fresh == Funds!upToDate /\ ~Funds!unread(side, v)
<1>4. whole \in BOOLEAN /\ emptied \in BOOLEAN /\ fresh \in BOOLEAN
    BY <1>3 DEF Funds!whole, Funds!upToDate, Funds!unread
<1>5. PICK c : c = [kind |-> side, who |-> account, amount |-> v, all |-> whole, emptied |-> emptied,
                    fresh |-> fresh, calm |-> TRUE, at |-> "build"]
    OBVIOUS
<1>6. tx' = c
    BY <1>5 DEF Funds!submit
<1> HIDE DEF whole, emptied, fresh
<1>7. /\ c \in Sent /\ c.kind = side /\ c.who = account /\ c.amount = v /\ c.all = whole
      /\ c.emptied = emptied /\ c.fresh = fresh /\ c.at = "build"
    BY <1>2, <1>4, <1>5 DEF Sent
<1>8. whole => fundsPage = "lend" /\ side = "out"
    BY DEF whole, Funds!whole
<1>9. ASSUME Funds!upToDate, side = "in" PROVE v <= inWallet[account]
  <2>1. Funds!max(side) = inWallet[account] /\ inWallet[account] # None
      BY <1>3, <1>9, FundsConstants DEF Funds!max, Funds!upToDate
  <2> QED
      BY <1>1, <2>1
<1>10. ASSUME Funds!upToDate, side = "out"
       PROVE  /\ v <= heldBy[account] /\ (fundsPage = "lend" => v <= liquid)
              /\ whole => Funds!wholeBalance(account, v) = Funds!smaller(heldBy[account], liquid)
  <2>1. Funds!supplied = heldBy[account] /\ (fundsPage = "lend" => Funds!liquidity = liquid)
      BY <1>10 DEF Funds!upToDate
  <2>2. /\ fundsPage = "earn" => Funds!max(side) = heldBy[account]
        /\ fundsPage = "lend" => Funds!max(side) = Funds!smaller(heldBy[account], liquid)
      BY <1>2, <1>10, <2>1, TrueNumbersOffer
  <2>3. heldBy[account] # None /\ Funds!smaller(heldBy[account], liquid) # None
      BY <1>3, FundsConstants DEF Funds!smaller
  <2>4. v <= heldBy[account] /\ (fundsPage = "lend" => v <= liquid)
      BY <1>1, <1>2, <1>3, <2>2, <2>3 DEF Funds!smaller
  <2> QED
      BY <1>1, <1>2, <1>3, <1>8, <2>4 DEF Funds!wholeBalance, Funds!smaller
<1>11. fresh =>
           Funds!accepts(side, account, IF whole THEN Funds!wholeBalance(account, v) ELSE v)
  <2> SUFFICES ASSUME Funds!upToDate, ~Funds!unread(side, v)
               PROVE  Funds!accepts(side, account,
                                    IF whole THEN Funds!wholeBalance(account, v) ELSE v)
      BY DEF fresh
  <2>1. CASE side = "in"
      BY <1>8, <1>9, <2>1 DEF Funds!accepts
  <2>2. CASE side = "out"
      BY <1>3, <1>10, <2>2 DEF Funds!accepts, Funds!unread, Funds!smaller
  <2> QED
      BY <2>1, <2>2
<1>12. emptied => side = "out" /\ (fundsPage = "lend" => whole)
    BY DEF emptied
<1>13. emptied /\ fundsPage # "lend" => v = (heldBy[account] \div CENT) * CENT
  <2> SUFFICES ASSUME emptied, fundsPage # "lend"
               PROVE  v = (heldBy[account] \div CENT) * CENT
      OBVIOUS
  <2>1. /\ Funds!supplied = heldBy[account] /\ fundsPage = "earn" /\ side = "out"
        /\ v = (Funds!max(side) \div CENT) * CENT
      BY <1>3 DEF emptied, Funds!maxField
  <2>2. Funds!max(side) = heldBy[account]
      BY <1>2, <2>1, TrueNumbersOffer
  <2> QED
      BY <2>1, <2>2
<1>14. /\ fundsPage' = fundsPage /\ heldBy' = heldBy /\ inWallet' = inWallet /\ liquid' = liquid
       /\ paused' = paused /\ share' = share
    BY <1>1
<1>15. CallIsSound'
  <2>1. Due' = IF whole THEN Funds!wholeBalance(account, v) ELSE v
      BY <1>6, <1>7, <1>14 DEF Due, Funds!wholeBalance, Funds!smaller
  <2>2. tx'.fresh => Funds!accepts(tx.kind, tx.who, Due)'
      BY <1>6, <1>7, <1>11, <1>14, <2>1 DEF Funds!accepts, Funds!unread
  <2> QED
      BY <1>1, <1>6, <1>7, <1>8, <1>12, <1>13, <1>14, <2>2 DEF CallIsSound
<1>16. FundsShapes' /\ NumbersAreNew'
    BY <1>1, <1>2, <1>6, <1>7 DEF FundsInv, FundsShapes, NumbersAreNew, Fits, Reads
<1> QED
    BY <1>1, <1>15, <1>16 DEF FundsInv

LEMMA TrustlineIsAdded ==
    ASSUME FundsInv, Funds!addTrust
    PROVE  FundsInv'
<1>1. /\ UNCHANGED <<fundsPage, account, nonce, heldBy, inWallet, liquid, paused, share, polled, reading, ops, reported,
                     blanked, refusedFresh, remained>>
      /\ account # None
    BY DEF Funds!addTrust, Funds!still, Funds!chain, Funds!history
<1>2. FundsShapes /\ account \in Accounts /\ Funds!Polls' = Funds!Polls
    BY <1>1 DEF FundsInv, FundsShapes, Funds!Polls
<1>3. tx' = [kind |-> "trust", who |-> account, amount |-> 0, all |-> FALSE,
             emptied |-> FALSE, fresh |-> TRUE, calm |-> TRUE, at |-> "sign"]
    BY DEF Funds!addTrust
<1>4. tx' \in Sent
    BY <1>2, <1>3 DEF Sent
<1>5. tx'.fresh => Funds!accepts(tx.kind, tx.who, Due)'
    BY <1>3 DEF Funds!accepts
<1>6. CallIsSound'
    BY <1>3, <1>5 DEF CallIsSound
<1>7. FundsShapes' /\ NumbersAreNew'
    BY <1>1, <1>2, <1>4 DEF FundsInv, FundsShapes, NumbersAreNew, Fits, Reads
<1> QED
    BY <1>1, <1>6, <1>7 DEF FundsInv

\* The result is reported: everything is read again under a new key, unless a
\* trustline was not added.
LEMMA ResultIsReported ==
    ASSUME FundsInv, NEW succeeded \in BOOLEAN, tx # None, Funds!Report(succeeded),
           ~succeeded => ops' = ops,
           ops' = ops \/ ops' = [ops EXCEPT ![tx.who] = @ + 1],
           heldBy' \in [Accounts -> Int], inWallet' \in [Accounts -> Int], liquid' \in Int,
           UNCHANGED <<paused, share>>, ~refusedFresh', ~remained'
    PROVE  FundsInv'
<1>1. /\ tx' = None /\ reported' = [reported EXCEPT ![tx.who] = ops'[tx.who]]
      /\ UNCHANGED <<fundsPage, account, blanked>>
    BY DEF Funds!Report
<1>2. FundsShapes /\ tx \in Sent /\ tx.who \in Accounts
    BY DEF FundsInv, FundsShapes, Sent
<1>3. ops' \in [Accounts -> Nat] /\ reported' = ops'
  <2>1. CASE ops' = ops
      BY <1>1, <1>2, <2>1 DEF FundsShapes
  <2>2. CASE ops' = [ops EXCEPT ![tx.who] = @ + 1]
    <3>1. ops \in [Accounts -> Nat] /\ reported = ops /\ ops[tx.who] + 1 \in Nat
        BY <1>2 DEF FundsShapes
    <3>2. ops' \in [Accounts -> Nat] /\ ops'[tx.who] = ops[tx.who] + 1
        BY <1>2, <2>2, <3>1
    <3> QED
        BY <1>1, <2>2, <3>1, <3>2
  <2> QED
      BY <2>1, <2>2
<1>4. PICK n \in {nonce, nonce + 1} : Funds!NewKey(n) /\ (n = nonce => ops' = ops)
  <2>1. nonce + 1 # nonce
      BY <1>2 DEF FundsShapes
  <2> QED
      BY <2>1 DEF Funds!Report
<1>5. /\ NumbersAreNew' /\ nonce' \in Int
      /\ polled' \in [Funds!Polls -> Numbers \cup {None}] /\ reading' \in SUBSET Reads
    BY <1>1, <1>3, <1>4, NewKeyForgets
<1>6. Funds!Polls' = Funds!Polls
    BY <1>1 DEF Funds!Polls
<1>7. FundsShapes'
    BY <1>1, <1>2, <1>3, <1>5, <1>6 DEF FundsShapes, Reads
<1>8. CallIsSound'
    BY <1>1 DEF CallIsSound
<1> QED
    BY <1>1, <1>5, <1>7, <1>8 DEF FundsInv

\* Nothing the page was right about is refused.
LEMMA RefusalIsReported ==
    ASSUME FundsInv, tx # None, Funds!Refused, ~Funds!accepts(tx.kind, tx.who, Due)
    PROVE  FundsInv'
<1>1. /\ refusedFresh' = (refusedFresh \/ tx.fresh) /\ Funds!Report(FALSE)
      /\ UNCHANGED <<heldBy, inWallet, liquid, paused, share, ops, remained>>
    BY DEF Funds!Refused, Funds!chain
<1>2. ~refusedFresh' /\ ~remained'
    BY <1>1 DEF FundsInv, CallIsSound
<1> QED
    BY <1>1, <1>2, ResultIsReported DEF FundsInv, FundsShapes

\* The amount is settled and the simulation passes or refuses.
LEMMA CallIsBuilt ==
    ASSUME FundsInv, Funds!build
    PROVE  FundsInv'
<1> DEFINE moved == IF tx.all THEN Funds!wholeBalance(tx.who, tx.amount) ELSE tx.amount
<1>1. tx # None /\ tx.at = "build" /\ moved = Due
    BY DEF Funds!build, Funds!busy, Due
<1>2. FundsShapes /\ tx \in Sent
    BY <1>1 DEF FundsInv, FundsShapes
<1>3. /\ tx.who \in Accounts /\ tx.amount \in Int /\ heldBy[tx.who] \in Int /\ liquid \in Int
      /\ tx.all \in BOOLEAN /\ tx.calm \in BOOLEAN /\ tx.kind \in {"in", "out", "trust"}
    BY <1>2 DEF FundsShapes, Sent
<1>4. moved \in Int
    BY <1>3 DEF Funds!wholeBalance, Funds!smaller
<1>5. CASE ~Funds!accepts(tx.kind, tx.who, moved)
  <2>1. Funds!Refused
      BY <1>5 DEF Funds!build
  <2> QED
      BY <1>1, <1>5, <2>1, RefusalIsReported
<1>6. CASE Funds!accepts(tx.kind, tx.who, moved)
  <2>1. /\ tx' = [tx EXCEPT !.at = "sign", !.amount = moved, !.calm = tx.all \/ tx.calm]
        /\ UNCHANGED <<fundsPage, account, nonce, heldBy, inWallet, liquid, paused, share, polled, reading, ops, reported,
                       blanked, refusedFresh, remained>>
      BY <1>6 DEF Funds!build, Funds!chain, Funds!history
  <2> HIDE DEF moved
  <2>2. PICK c : c = [tx EXCEPT !.at = "sign", !.amount = moved, !.calm = tx.all \/ tx.calm]
      OBVIOUS
  <2>3. /\ c \in Sent /\ tx' = c /\ c.at = "sign" /\ c.amount = moved /\ c.kind = tx.kind
        /\ c.who = tx.who /\ c.all = tx.all /\ c.emptied = tx.emptied /\ c.fresh = tx.fresh
        /\ c.calm = (tx.all \/ tx.calm)
      BY <1>2, <1>3, <1>4, <2>1, <2>2 DEF Sent
  <2>4. tx.kind # "trust" => moved > 0
      BY <1>1, <1>3 DEF FundsInv, CallIsSound, moved, Funds!wholeBalance, Funds!smaller
  <2>5. tx.emptied /\ c.calm =>
            IF fundsPage = "lend" THEN moved = Funds!smaller(heldBy[tx.who], liquid)
            ELSE moved = (heldBy[tx.who] \div CENT) * CENT
    <3>1. CASE fundsPage = "lend"
      <4> SUFFICES ASSUME tx.emptied PROVE moved = Funds!smaller(heldBy[tx.who], liquid)
          BY <3>1
      <4>1. tx.all /\ tx.kind = "out" /\ tx.amount > 0
          BY <1>1, <3>1 DEF FundsInv, CallIsSound
      <4>2. moved <= heldBy[tx.who] /\ moved <= liquid
          BY <1>6, <3>1, <4>1 DEF Funds!accepts, moved
      <4> QED
          BY <1>3, <2>4, <4>1, <4>2 DEF moved, Funds!wholeBalance, Funds!smaller
    <3>2. CASE fundsPage # "lend"
      <4>1. ~tx.all
          BY <1>1, <3>2 DEF FundsInv, CallIsSound
      <4> QED
          BY <1>1, <1>3, <2>3, <3>2, <4>1 DEF FundsInv, CallIsSound, moved
    <3> QED
        BY <3>1, <3>2
  <2>6. /\ fundsPage' = fundsPage /\ heldBy' = heldBy /\ inWallet' = inWallet /\ liquid' = liquid
        /\ paused' = paused /\ share' = share
      BY <2>1
  <2>7. Due' = moved
      BY <2>3 DEF Due
  <2>8. tx'.fresh => Funds!accepts(tx.kind, tx.who, Due)'
      BY <1>6, <2>3, <2>6, <2>7 DEF Funds!accepts, Funds!unread, moved
  <2>9. CallIsSound'
    <3>1. /\ tx.all => fundsPage = "lend" /\ tx.kind = "out"
          /\ tx.emptied => tx.kind = "out" /\ (fundsPage = "lend" => tx.all)
        BY <1>1 DEF FundsInv, CallIsSound
    <3> QED
        BY <2>3, <2>4, <2>5, <2>6, <2>8, <3>1 DEF CallIsSound
  <2>10. Funds!Polls' = Funds!Polls /\ Reads' = Reads
      BY <2>1 DEF Funds!Polls, Reads
  <2>11. FundsShapes'
      BY <1>2, <2>1, <2>3, <2>10 DEF FundsShapes
  <2>12. NumbersAreNew'
      BY <2>1, <2>10 DEF FundsInv, NumbersAreNew, Fits
  <2> QED
      BY <2>1, <2>9, <2>11, <2>12 DEF FundsInv
<1> QED
    BY <1>5, <1>6

\* A transaction takes effect; Max leaves nothing that could have been taken.
LEMMA EffectIsReported ==
    ASSUME FundsInv, tx # None, tx.at = "sign", Funds!accepts(tx.kind, tx.who, tx.amount),
           Funds!Apply, refusedFresh' = refusedFresh, Funds!Report(TRUE),
           remained' = (remained \/ (tx.emptied /\ tx.calm /\ liquid' > 0
                            /\ heldBy'[tx.who] >= IF fundsPage = "lend" THEN 1 ELSE CENT))
    PROVE  FundsInv'
<1>1. FundsShapes /\ tx \in Sent /\ ~remained /\ ~refusedFresh
    BY DEF FundsInv, FundsShapes
<1>2. /\ tx.who \in Accounts /\ tx.amount \in Int /\ tx.kind \in {"in", "out", "trust"}
      /\ heldBy[tx.who] \in Int /\ inWallet[tx.who] \in Int /\ liquid \in Int
      /\ heldBy \in [Accounts -> Int] /\ inWallet \in [Accounts -> Int]
    BY <1>1 DEF FundsShapes, Sent
<1>3. ops' = [ops EXCEPT ![tx.who] = @ + 1] /\ UNCHANGED <<paused, share>>
    BY DEF Funds!Apply
<1>4. CASE tx.kind = "trust"
  <2>1. /\ inWallet' = [inWallet EXCEPT ![tx.who] = 0] /\ heldBy' = heldBy /\ liquid' = liquid
      BY <1>4 DEF Funds!Apply
  <2>2. inWallet' \in [Accounts -> Int]
      BY <1>2, <2>1
  <2>3. ~tx.emptied
      BY <1>4 DEF FundsInv, CallIsSound
  <2> QED
      BY <1>1, <1>2, <1>3, <2>1, <2>2, <2>3, ResultIsReported
<1>5. CASE tx.kind # "trust"
  <2> DEFINE d == IF tx.kind = "in" THEN tx.amount ELSE -tx.amount
  <2>1. /\ heldBy' = [heldBy EXCEPT ![tx.who] = @ + d]
        /\ inWallet' = [inWallet EXCEPT ![tx.who] = @ - d]
        /\ liquid' = IF fundsPage = "lend" THEN liquid + d ELSE liquid
      BY <1>5 DEF Funds!Apply
  <2>2. d \in Int
      BY <1>2
  <2> HIDE DEF d
  <2>3. /\ heldBy' \in [Accounts -> Int] /\ inWallet' \in [Accounts -> Int] /\ liquid' \in Int
        /\ heldBy'[tx.who] = heldBy[tx.who] + d
      BY <1>2, <2>1, <2>2
  <2>4. ~remained'
    <3> SUFFICES ASSUME tx.emptied, tx.calm, liquid' > 0,
                        heldBy'[tx.who] >= IF fundsPage = "lend" THEN 1 ELSE CENT
                 PROVE  FALSE
        BY <1>1
    <3>1. tx.kind = "out" /\ d = -tx.amount
        BY DEF FundsInv, CallIsSound, d
    <3>2. CASE fundsPage = "lend"
      <4>1. tx.amount = Funds!smaller(heldBy[tx.who], liquid)
          BY <3>2 DEF FundsInv, CallIsSound
      <4> QED
          BY <1>2, <2>1, <2>3, <3>1, <3>2, <4>1 DEF Funds!smaller
    <3>3. CASE fundsPage # "lend"
      <4>1. tx.amount = (heldBy[tx.who] \div CENT) * CENT
          BY <3>3 DEF FundsInv, CallIsSound
      <4>2. /\ heldBy[tx.who] \div CENT \in Int
            /\ heldBy[tx.who] < CENT * (heldBy[tx.who] \div CENT) + CENT
          BY <1>2, FundsConstants, DivBounds
      <4>3. CENT * (heldBy[tx.who] \div CENT) = (heldBy[tx.who] \div CENT) * CENT
          BY <4>2, FundsConstants
      <4>4. heldBy'[tx.who] >= CENT
          BY <3>3
      <4> QED
          BY <1>2, <2>3, <3>1, <4>1, <4>2, <4>3, <4>4, FundsConstants
    <3> QED
        BY <3>2, <3>3
  <2> QED
      BY <1>1, <1>3, <2>3, <2>4, ResultIsReported
<1> QED
    BY <1>4, <1>5

\* The transaction is final, refused, or never seen again.
LEMMA CallIsOver ==
    ASSUME FundsInv, Funds!confirmed
    PROVE  FundsInv'
<1>1. tx # None /\ tx.at = "sign" /\ Due = tx.amount
    BY DEF Funds!confirmed, Funds!busy, Due
<1>2. CASE ~Funds!accepts(tx.kind, tx.who, tx.amount) /\ Funds!Refused
    BY <1>1, <1>2, RefusalIsReported
<1>3. CASE /\ UNCHANGED <<heldBy, inWallet, liquid, paused, share, ops, remained, refusedFresh>>
           /\ Funds!Report(FALSE)
    BY <1>1, <1>3, ResultIsReported DEF FundsInv, FundsShapes
<1>4. CASE /\ Funds!accepts(tx.kind, tx.who, tx.amount) /\ Funds!Apply
           /\ refusedFresh' = refusedFresh /\ Funds!Report(TRUE)
           /\ remained' = (remained \/ (tx.emptied /\ tx.calm /\ liquid' > 0
                               /\ heldBy'[tx.who] >= IF fundsPage = "lend" THEN 1 ELSE CENT))
    BY <1>1, <1>4, EffectIsReported
<1> QED
    BY <1>2, <1>3, <1>4 DEF Funds!confirmed, Funds!chain

\* Interest, what borrowers take, and a pause: nothing the call promises rests on it
\* now.
LEMMA PoolMoves ==
    ASSUME FundsInv, Funds!accrue \/ Funds!borrowed \/ Funds!pause
    PROVE  FundsInv'
<1>1. /\ UNCHANGED <<fundsPage, account, nonce, polled, reading, ops, reported, blanked, refusedFresh,
                     remained, inWallet>>
      /\ tx' = IF tx # None THEN [tx EXCEPT !.fresh = FALSE, !.calm = FALSE] ELSE None
    BY DEF Funds!accrue, Funds!borrowed, Funds!pause, Funds!Moved, Funds!busy, Funds!history
<1>2. FundsShapes /\ Funds!Polls' = Funds!Polls /\ Reads' = Reads
    BY <1>1 DEF FundsInv, Funds!Polls, Reads
<1>3. /\ heldBy' \in [Accounts -> Int] /\ liquid' \in Int
      /\ paused' \in BOOLEAN /\ share' \in Int
  <2>1. CASE Funds!accrue
    <3>1. /\ heldBy' = [a \in Accounts |-> IF heldBy[a] \in 1..MaxHeld - 1
                                           THEN heldBy[a] + 1 ELSE heldBy[a]]
          /\ liquid' = liquid /\ paused' = paused /\ share' \in {share, share + 1}
        BY <2>1 DEF Funds!accrue
    <3> QED
        BY <1>2, <3>1 DEF FundsShapes
  <2>2. CASE Funds!borrowed
      BY <1>2, <2>2 DEF Funds!borrowed, FundsShapes
  <2>3. CASE Funds!pause
      BY <1>2, <2>3 DEF Funds!pause, FundsShapes
  <2> QED
      BY <2>1, <2>2, <2>3
<1>4. tx' \in Sent \cup {None} /\ CallIsSound'
  <2>1. CASE tx = None
      BY <1>1, <2>1 DEF CallIsSound
  <2>2. CASE tx # None
    <3>1. PICK c : c = [tx EXCEPT !.fresh = FALSE, !.calm = FALSE]
        OBVIOUS
    <3>2. tx \in Sent
        BY <1>2, <2>2 DEF FundsShapes
    <3>3. /\ c \in Sent /\ tx' = c /\ ~c.fresh /\ ~c.calm /\ c.kind = tx.kind
          /\ c.amount = tx.amount /\ c.all = tx.all /\ c.emptied = tx.emptied
        BY <1>1, <2>2, <3>1, <3>2 DEF Sent
    <3>4. /\ tx.kind # "trust" => tx.amount > 0
          /\ tx.all => fundsPage = "lend" /\ tx.kind = "out"
          /\ tx.emptied => tx.kind = "out" /\ (fundsPage = "lend" => tx.all)
        BY <2>2 DEF FundsInv, CallIsSound
    <3> QED
        BY <1>1, <3>3, <3>4 DEF CallIsSound
  <2> QED
      BY <2>1, <2>2
<1>5. FundsShapes'
    BY <1>1, <1>2, <1>3, <1>4 DEF FundsShapes
<1>6. NumbersAreNew'
    BY <1>1, <1>2 DEF FundsInv, NumbersAreNew, Fits
<1> QED
    BY <1>1, <1>4, <1>5, <1>6 DEF FundsInv

\* usePolledValue.ts, lend.ts: on the Lend and Earn pages every number is the
\* connected account's and newer than its last reported transaction, a failed read
\* of its key blanks none, what is sent from true numbers is taken but for a pause
\* or a deposit worth no unit, and Max empties.
THEOREM FundsStayHonest == MCSpec => []FundsAreHonest
<1> DEFINE MCInv == part = "funds" => FundsInv
<1>1. MCInit => MCInv
  <2> SUFFICES ASSUME MCInit, part = "funds" PROVE FundsInv
      OBVIOUS
  <2>1. Funds!Init
      BY DEF MCInit
  <2>2. account \in Accounts
      BY <2>1, FundsConstants DEF Funds!Init
  <2>3. /\ heldBy = [a \in Accounts |-> IF a = account THEN MaxHeld - 1 ELSE 0]
        /\ inWallet = [a \in Accounts |-> IF heldBy[a] = 0 THEN -1 ELSE 1]
        /\ liquid = MaxHeld - 1 /\ ops = [a \in Accounts |-> 0] /\ reported = ops
        /\ polled = [p \in Funds!Polls |-> None] /\ reading = {} /\ tx = None
        /\ fundsPage \in {"lend", "earn"} /\ nonce = 0
        /\ blanked = None /\ ~refusedFresh /\ ~remained
      BY <2>1 DEF Funds!Init
  <2>4. paused = FALSE /\ share = 1
      BY <2>1 DEF Funds!Init
  <2>5. paused \in BOOLEAN /\ share \in Int
    <3>1. paused \in BOOLEAN
        BY <2>4, Zenon
    <3>2. share \in Int
        BY <2>4
    <3> QED
        BY <3>1, <3>2
  <2>6. /\ heldBy \in [Accounts -> Int] /\ inWallet \in [Accounts -> Int] /\ liquid \in Int
        /\ ops \in [Accounts -> Nat]
      BY <2>3, FundsConstants
  <2>7. FundsShapes
      BY <2>2, <2>3, <2>5, <2>6 DEF FundsShapes
  <2> QED
      BY <2>3, <2>7, FundsConstants DEF FundsInv, NumbersAreNew, CallIsSound
<1>2. MCInv /\ [MCNext]_all => MCInv'
  <2> SUFFICES ASSUME MCInv, [MCNext]_all, part' = "funds" PROVE FundsInv'
      OBVIOUS
  <2>1. CASE FundsNext
    <3>1. FundsInv /\ Funds!Next
        BY <2>1 DEF FundsNext
    <3> QED
        BY <3>1, ReadBegins, AnswerIsApplied, AccountSwitches, CallIsMade, TrustlineIsAdded,
           CallIsBuilt, CallIsOver, PoolMoves DEF Funds!Next, Funds!send
  <2>2. CASE part = part' /\ UNCHANGED fundsVars
    <3>1. FundsInv /\ UNCHANGED <<fundsPage, account, nonce, heldBy, inWallet, liquid, paused, share, polled, reading,
                                  tx, ops, reported, blanked, refusedFresh, remained>>
        BY <2>2 DEF fundsVars
    <3>2. FundsShapes' /\ NumbersAreNew'
        BY <3>1 DEF FundsInv, FundsShapes, NumbersAreNew, Fits, Reads, Funds!Polls
    <3> QED
        BY <3>1, <3>2, CallStaysSound DEF FundsInv
  <2> QED
      BY <2>1, <2>2 DEF MCNext, LoanNext, ReceiveNext, PanelsNext, WalletsNext, TestKeyNext,
                        JourneyNext, all
<1>3. MCInv => FundsAreHonest
  <2> SUFFICES ASSUME FundsInv PROVE Funds!NumbersAreCurrent
      BY DEF FundsAreHonest, Funds!FailureKeepsNumbers, Funds!FreshIsTaken, Funds!MaxEmpties,
         FundsInv
  <2> SUFFICES ASSUME NEW p \in {"held", "wallet"}, Funds!value(p) # None
               PROVE  /\ Funds!current(p).key.who = account
                      /\ Funds!current(p).seen >= reported[account]
      BY DEF Funds!NumbersAreCurrent
  <2>1. p \in Funds!Polls /\ FundsShapes
      BY DEF Funds!Polls, FundsInv
  <2>2. polled[p] # None /\ polled[p].key = Funds!Key(p) /\ Funds!current(p) = polled[p]
      BY DEF Funds!value, Funds!current
  <2>3. Fits(p, polled[p]) /\ polled[p].key # None
      BY <2>1, <2>2 DEF FundsInv, NumbersAreNew
  <2>4. account \in Accounts /\ Funds!Key(p) = [who |-> account, n |-> nonce]
      BY <2>1, <2>2, <2>3 DEF Funds!Key, Funds!key, FundsShapes
  <2>5. polled[p].key.who = account
      BY <2>2, <2>4
  <2>6. polled[p].seen = ops[account] /\ ops[account] \in Nat /\ reported = ops
      BY <2>1, <2>3, <2>4, <2>5 DEF Fits, FundsShapes
  <2> QED
      BY <2>2, <2>5, <2>6
<1> QED
    BY <1>1, <1>2, <1>3, PTL DEF MCSpec

-----------------------------------------------------------------------------
(* The deposit page (Journey).                                                *)
Deposits == [key : BtcKeys, sats : Nat, step : {"sent", "confirming", "ready"},
             confirmed : BOOLEAN, signed : BOOLEAN, onChain : BOOLEAN]
Said == {"ok", "low", "unfunded", "found", "right", "wrong", "failed"}
Answers == [key : Accounts \cup BtcKeys, value : Nat \cup {Journey!Failed} \cup Said]
Late == {"ready", "submitted", "post_processing", "needs_attention", "timed_out",
         "asks_stellar", "declined_stellar", "building"}

JourneyShapes ==
    /\ depositor \in Accounts \cup {None} /\ btcKey \in BtcKeys \cup {None}
    /\ pendingDeposits \in [Accounts -> Deposits \cup {None}]
    /\ funds \in [Accounts -> {"ok", "low", "unfunded"}] /\ sats \in [BtcKeys -> Nat]
    /\ \A s \in starts : /\ s.kind \in {"send", "txid"} /\ s.owner \in Accounts
                         /\ s.key \in BtcKeys /\ s.sats \in Nat
    /\ answer \in [Journey!Reads -> Answers \cup {None}]
    /\ asked \subseteq Journey!Reads /\ \A r \in asked : Journey!Key(r) # None
    /\ amount \in Nat \cup {None} /\ editing \in {None, "amount", "stellar", "bitcoin"}
    /\ registering \subseteq Accounts

\* What was read was so, and is unless this page paid from the wallet since.
ReadsWereTrue ==
    /\ answer["find"] # None /\ answer["find"].value = "found"
           => answer["find"].key \in found
    /\ answer["funding"] # None /\ answer["funding"].value \in {"ok", "low"}
           => /\ answer["funding"].key \in Accounts
              /\ funds[answer["funding"].key] # "unfunded"
    /\ answer["balance"] # None
           => /\ answer["balance"].key \in BtcKeys
              /\ answer["balance"].value \in Nat \cup {Journey!Failed}
              /\ \/ answer["balance"].value = Journey!Failed
                 \/ sats[answer["balance"].key] >= answer["balance"].value
                 \/ answer["balance"].key \in spent

\* The page went on past none of its runs, and no other tab had the account.
Alone == ~crossed /\ depositor \notin touched

TrackingIsOwn == tracking => Journey!mine # None

FlightHasRun ==
    Journey!isInFlight /\ Journey!mine = None =>
        (\E s \in starts : s.owner = depositor) \/ registering # {} \/ loose

RegisteringIsOwn ==
    ~crossed /\ registering # {} =>
        /\ registering = {depositor} /\ Journey!mine # None
        /\ depositor \notin touched => Journey!mine.confirmed
        /\ depositFlow \notin {"declined_stellar", "needs_attention", "timed_out"}

SendingAsks ==
    ~crossed /\ ~loose /\ Journey!sending => depositFlow = "asks_bitcoin"

StartIsAlone ==
    /\ ~crossed => \A s \in starts : s.owner = depositor
    /\ Alone =>
        /\ \A s, t \in starts : s = t
        /\ \A s \in starts :
               /\ Journey!mine = None /\ depositFlow # "settled"
               /\ s.kind = "send" => /\ depositFlow = "asks_bitcoin"
                                     /\ depositAction = "send" /\ ~newDeviceOpen
               /\ s.kind = "txid" => newDeviceOpen /\ txidCheck = "saving"

\* A record says ready, or signed, of a confirmed deposit.
RecordIsTrue(a) ==
    /\ ~crossed /\ a \notin touched /\ pendingDeposits[a] # None
    /\ pendingDeposits[a].step = "ready" \/ pendingDeposits[a].signed
    => pendingDeposits[a].confirmed

LateIsConfirmed ==
    /\ \A a \in Accounts : RecordIsTrue(a)
    /\ Alone /\ depositFlow \in Late => Journey!mine # None /\ Journey!mine.confirmed

RunsInv ==
    /\ TrackingIsOwn /\ FlightHasRun /\ RegisteringIsOwn /\ SendingAsks
    /\ StartIsAlone /\ LateIsConfirmed

JourneyInv == JourneyShapes /\ ReadsWereTrue /\ RunsInv /\ Journey!RecordIsKept

\* What the assumptions give about the constants.
LEMMA JourneyConstants ==
    /\ Accounts # {} /\ None \notin Accounts /\ BtcKeys # {} /\ None \notin BtcKeys
    /\ MIN_DEPOSIT_SATS \in Nat /\ MaxSats \in Nat /\ None \notin Deposits
    /\ None \notin Int /\ Journey!Failed = -1 /\ Journey!Failed \notin Nat
    BY JourneyAssumption, PanelsAssumption DEF Deposits, Journey!Failed

\* The inductive invariant implies what the run checks.
LEMMA JourneyHolds ==
    ASSUME JourneyInv
    PROVE  DepositIsOrderly
<1>1. Journey!OfferIsSound
  <2> SUFFICES ASSUME Journey!offered
               PROVE  /\ Journey!mine = None /\ Journey!sats >= MIN_DEPOSIT_SATS
                      /\ Journey!sending => loose \/ crossed
                      /\ ~Journey!sending =>
                           /\ depositor \in found
                           /\ funds[depositor] # "unfunded" \/ Journey!Read("funding", "failed")
                           /\ \/ sats[btcKey] >= Journey!sats \/ btcKey \in spent
                              \/ Journey!Read("balance", Journey!Failed)
      BY DEF Journey!OfferIsSound
  <2>1. /\ Journey!routeStep = "review" /\ Journey!sats # None /\ btcKey # None
        /\ depositFlow \notin {"preparing", "locating", "building", "asks_bitcoin"}
      BY DEF Journey!offered, Journey!slider, Journey!preparing, Journey!lockReady
  <2>2. Journey!mine = None
      BY <2>1 DEF Journey!routeStep, Journey!stage, Journey!depositStage
  <2>3. Journey!sats \in Nat /\ Journey!sats >= MIN_DEPOSIT_SATS
      BY <2>1, <2>2, JourneyConstants
         DEF Journey!sats, Journey!confirmedSats, Journey!parseBtcAmount, JourneyInv,
         JourneyShapes
  <2>4. Journey!sending => loose \/ crossed
      BY <2>1 DEF JourneyInv, RunsInv, SendingAsks
  <2>5. ASSUME ~Journey!sending
        PROVE  /\ depositor \in found
               /\ funds[depositor] # "unfunded" \/ Journey!Read("funding", "failed")
               /\ \/ sats[btcKey] >= Journey!sats \/ btcKey \in spent
                  \/ Journey!Read("balance", Journey!Failed)
    <3>1. Journey!stellarReady /\ Journey!bitcoinReady
        BY <2>1, <2>2, <2>5 DEF Journey!routeStep, JourneyInv, JourneyShapes
    <3>2. depositor \in found
        BY <3>1 DEF Journey!stellarReady, Journey!Read, Journey!forKey, Journey!Key, JourneyInv,
                    ReadsWereTrue
    <3>3. funds[depositor] # "unfunded" \/ Journey!Read("funding", "failed")
        BY <3>1 DEF Journey!stellarReady, Journey!fundingOk, Journey!Read, Journey!forKey,
                    Journey!Key, JourneyInv, ReadsWereTrue
    <3>4. /\ answer["balance"] # None /\ answer["balance"].key = btcKey
          /\ Journey!covers(answer["balance"].value, Journey!sats)
        BY <3>1 DEF Journey!bitcoinReady, Journey!forKey, Journey!Key
    <3>5. CASE answer["balance"].value = Journey!Failed
        BY <3>1, <3>2, <3>3, <3>5 DEF Journey!Read, Journey!bitcoinReady, Journey!Failed
    <3>6. CASE answer["balance"].value # Journey!Failed
      <4>1. answer["balance"].value \in Nat /\ sats[btcKey] \in Nat
          BY <3>4, <3>6 DEF JourneyInv, ReadsWereTrue, JourneyShapes
      <4> QED
          BY <2>3, <3>2, <3>3, <3>4, <3>6, <4>1 DEF Journey!covers, Journey!Failed, JourneyInv,
             ReadsWereTrue
    <3> QED
        BY <3>2, <3>3, <3>5, <3>6
  <2> QED
      BY <2>2, <2>3, <2>4, <2>5
<1>2. Journey!PromptIsReal
    BY DEF Journey!PromptIsReal, Journey!routeStep, Journey!stage, Journey!depositStage,
           JourneyInv, RunsInv, FlightHasRun, Journey!isInFlight, Journey!TERMINAL,
           Journey!preparing
<1>3. Journey!RegisterIsDue
  <2> SUFFICES ASSUME Journey!registrable, Alone PROVE Journey!mine.confirmed
      BY DEF Journey!RegisterIsDue, Alone
  <2>1. Journey!mine # None /\ Journey!depositStage(Journey!mine) = "register"
      BY DEF Journey!registrable, Journey!routeStep, Journey!stage, JourneyInv, JourneyShapes
  <2> QED
      BY <2>1 DEF Journey!depositStage, Journey!confirmed, Late, JourneyInv, RunsInv,
                  LateIsConfirmed, RecordIsTrue, Alone, JourneyShapes, Journey!mine, Deposits
<1> QED
    BY <1>1, <1>2, <1>3 DEF DepositIsOrderly, JourneyInv

\* Steps that touch no run, record or panel.
LEMMA RunsStay ==
    ASSUME JourneyInv,
           UNCHANGED <<depositor, depositFlow, depositAction, starts, tracking, registering,
                       pendingDeposits, touched, loose, newDeviceOpen, txidCheck, crossed, lost>>
    PROVE  RunsInv' /\ Journey!RecordIsKept'
<1>1. Journey!mine' = Journey!mine
    BY DEF Journey!mine
<1>2. TrackingIsOwn' /\ FlightHasRun' /\ RegisteringIsOwn' /\ SendingAsks'
    BY <1>1 DEF JourneyInv, RunsInv, TrackingIsOwn, FlightHasRun, RegisteringIsOwn, SendingAsks,
                Journey!isInFlight, Journey!sending
<1>3. StartIsAlone' /\ LateIsConfirmed'
    BY <1>1 DEF JourneyInv, RunsInv, StartIsAlone, LateIsConfirmed, RecordIsTrue, Alone
<1> QED
    BY <1>2, <1>3 DEF RunsInv, JourneyInv, Journey!RecordIsKept

\* A read's answer, for the wallets connected when it lands, is the truth of then.
LEMMA AnswerLands ==
    ASSUME JourneyInv, NEW r \in Journey!Reads, NEW v \in Nat \cup {Journey!Failed} \cup Said,
           Journey!Told(r, v), UNCHANGED <<depositFlow, pendingDeposits>>,
           found \subseteq found',
           r = "find" /\ v = "found" => depositor \in found',
           r = "funding" /\ v \in {"ok", "low"} => funds[depositor] # "unfunded",
           r = "balance" => v \in Nat \cup {Journey!Failed}
                            /\ (v = Journey!Failed \/ sats[btcKey] >= v),
           r # "balance" => spent' = spent
    PROVE  JourneyInv'
<1>1. /\ r \in asked /\ asked' = asked \ {r} /\ Journey!Key(r) # None
      /\ answer' = [answer EXCEPT ![r] = [key |-> Journey!Key(r), value |-> v]]
      /\ UNCHANGED <<depositor, btcKey, amount, editing, depositFlow, depositAction, starts,
                     tracking, registering, pendingDeposits, funds, sats, touched, loose,
                     crossed, lost, newDeviceOpen, txidCheck>>
    BY DEF Journey!Told, JourneyInv, JourneyShapes, Journey!form, Journey!runs, Journey!outside
<1>2. RunsInv' /\ Journey!RecordIsKept'
    BY <1>1, RunsStay
<1>3. PICK a : a = [key |-> Journey!Key(r), value |-> v]
    OBVIOUS
<1>4. /\ a \in Answers /\ answer' = [answer EXCEPT ![r] = a]
      /\ a.key = Journey!Key(r) /\ a.value = v
    BY <1>1, <1>3 DEF Answers, Journey!Key, JourneyInv, JourneyShapes
<1>5. JourneyShapes'
    BY <1>1, <1>4 DEF JourneyInv, JourneyShapes, Journey!Key
<1>6. ReadsWereTrue'
  <2>1. answer'[r] = a /\ \A s \in Journey!Reads \ {r} : answer'[s] = answer[s]
      BY <1>4 DEF JourneyInv, JourneyShapes
  <2>2. CASE r = "find"
      BY <1>1, <1>4, <2>1, <2>2 DEF JourneyInv, ReadsWereTrue, Journey!Key, Journey!Reads
  <2>3. CASE r = "funding"
      BY <1>1, <1>4, <2>1, <2>3
         DEF JourneyInv, JourneyShapes, ReadsWereTrue, Journey!Key, Journey!Reads
  <2>4. CASE r = "balance"
      BY <1>1, <1>4, <2>1, <2>4
         DEF JourneyInv, JourneyShapes, ReadsWereTrue, Journey!Key, Journey!Reads
  <2>5. CASE r = "network"
      BY <1>1, <1>4, <2>1, <2>5 DEF JourneyInv, ReadsWereTrue, Journey!Reads
  <2> QED
      BY <2>2, <2>3, <2>4, <2>5 DEF Journey!Reads
<1> QED
    BY <1>2, <1>5, <1>6 DEF JourneyInv

\* The four reads and their failures.
LEMMA ReadAnswers ==
    ASSUME JourneyInv,
           Journey!loadFunding \/ Journey!discoverPositions \/ Journey!getNetwork
             \/ Journey!loadBalance \/ Journey!readFails
    PROVE  JourneyInv'
<1> USE JourneyConstants
<1>1. ASSUME NEW r \in Journey!Reads, NEW v, Journey!Told(r, v)
      PROVE  /\ UNCHANGED <<depositFlow, pendingDeposits>>
             /\ Journey!Key(r) # None
    BY <1>1 DEF Journey!Told, Journey!runs, Journey!outside, JourneyInv, JourneyShapes
<1>2. CASE Journey!loadFunding
  <2>1. Journey!Told("funding", funds[depositor]) /\ found' = found /\ spent' = spent
      BY <1>2 DEF Journey!loadFunding
  <2>2. depositor \in Accounts /\ funds[depositor] \in {"ok", "low", "unfunded"}
      BY <1>1, <2>1 DEF Journey!Key, Journey!Reads, JourneyInv, JourneyShapes
  <2> QED
      BY <1>1, <2>1, <2>2, AnswerLands DEF Journey!Reads, Said
<1>3. CASE Journey!discoverPositions
    BY <1>1, <1>3, AnswerLands DEF Journey!discoverPositions, Journey!Reads, Said
<1>4. CASE Journey!getNetwork
    BY <1>1, <1>4, AnswerLands DEF Journey!getNetwork, Journey!Reads, Said
<1>5. CASE Journey!loadBalance
  <2>1. Journey!Told("balance", sats[btcKey]) /\ found' = found
      BY <1>5 DEF Journey!loadBalance
  <2>2. btcKey \in BtcKeys /\ sats[btcKey] \in Nat
      BY <1>1, <2>1 DEF Journey!Key, Journey!Reads, JourneyInv, JourneyShapes
  <2> QED
      BY <1>1, <2>1, <2>2, AnswerLands DEF Journey!Reads
<1>6. CASE Journey!readFails
    BY <1>1, <1>6, AnswerLands DEF Journey!readFails, Journey!Reads, Said
<1> QED
    BY <1>2, <1>3, <1>4, <1>5, <1>6

\* A read that begins forgets its last answer, and funding an account only helps it.
LEMMA ReadsBegin ==
    ASSUME JourneyInv,
           \/ \E k \in BtcKeys : Journey!switchKey(k)
           \/ \E r \in Journey!Reads : Journey!recheck(r)
           \/ Journey!fund \/ Journey!ackLow \/ Journey!depositLock
    PROVE  JourneyInv'
<1> USE JourneyConstants
<1>1. /\ UNCHANGED <<depositor, amount, editing, depositFlow, depositAction, starts, tracking,
                     registering, pendingDeposits, sats, found, spent, touched, loose, crossed,
                     lost, newDeviceOpen, txidCheck>>
    BY DEF Journey!switchKey, Journey!recheck, Journey!fund, Journey!ackLow, Journey!depositLock,
           Journey!form, Journey!runs, Journey!outside, Journey!history
<1>2. RunsInv' /\ Journey!RecordIsKept'
    BY <1>1, RunsStay
<1>3. CASE \E k \in BtcKeys : Journey!switchKey(k)
  <2>1. PICK k \in BtcKeys : Journey!switchKey(k)
      BY <1>3
  <2>2. /\ btcKey' = k /\ answer' = answer /\ funds' = funds
        /\ asked' = (asked \ {"balance"}) \cup (IF k = None THEN {} ELSE {"balance"})
      BY <2>1 DEF Journey!switchKey, Journey!outside
  <2>3. JourneyShapes'
      BY <1>1, <2>2 DEF JourneyInv, JourneyShapes, Journey!Key, Journey!Reads
  <2> QED
      BY <1>1, <1>2, <2>2, <2>3 DEF JourneyInv, ReadsWereTrue
<1>4. ASSUME NEW r \in Journey!Reads, Journey!Asked(r), btcKey' = btcKey,
             Journey!Key(r) # None, funds' = funds \/ funds' = [funds EXCEPT ![depositor] = "ok"]
      PROVE  JourneyShapes' /\ ReadsWereTrue'
  <2>1. answer' = [answer EXCEPT ![r] = None] /\ asked' = asked \cup {r}
      BY <1>4 DEF Journey!Asked
  <2>2. JourneyShapes'
      BY <1>1, <1>4, <2>1 DEF JourneyInv, JourneyShapes, Journey!Key
  <2>3. \A s \in Journey!Reads : answer'[s] # None => answer'[s] = answer[s]
      BY <2>1 DEF JourneyInv, JourneyShapes
  <2>4. \A a \in Accounts : funds[a] # "unfunded" => funds'[a] # "unfunded"
      BY <1>4 DEF JourneyInv, JourneyShapes
  <2> QED
      BY <1>1, <2>2, <2>3, <2>4 DEF JourneyInv, ReadsWereTrue, Journey!Reads
<1>5. CASE \E r \in Journey!Reads : Journey!recheck(r)
    BY <1>2, <1>4, <1>5 DEF Journey!recheck, Journey!outside, Journey!Key, JourneyInv
<1>6. CASE Journey!fund
    BY <1>2, <1>4, <1>6
       DEF Journey!fund, Journey!Read, Journey!forKey, Journey!Key, Journey!Reads, JourneyInv
<1>7. CASE Journey!ackLow \/ Journey!depositLock
  <2>1. UNCHANGED <<btcKey, answer, asked, funds>>
      BY <1>7 DEF Journey!ackLow, Journey!depositLock, Journey!outside
  <2> QED
      BY <1>1, <1>2, <2>1 DEF JourneyInv, JourneyShapes, ReadsWereTrue, Journey!Key
<1> QED
    BY <1>3, <1>5, <1>6, <1>7

\* The form decides no run.
LEMMA FormIsFilled ==
    ASSUME JourneyInv,
           \/ \E v \in 1..MaxSats : Journey!setAmount(v)
           \/ Journey!submitAmount \/ \E t \in {"amount", "stellar", "bitcoin"} : Journey!edit(t)
           \/ Journey!finishEdit \/ Journey!setAck
    PROVE  JourneyInv'
<1> USE JourneyConstants
<1>1. /\ UNCHANGED <<depositor, btcKey, answer, asked, depositFlow, depositAction, starts,
                     tracking, registering, pendingDeposits, funds, sats, found, spent, touched,
                     loose, crossed, lost, newDeviceOpen, txidCheck>>
      /\ amount' \in Nat \cup {None} /\ editing' \in {None, "amount", "stellar", "bitcoin"}
    BY DEF Journey!setAmount, Journey!submitAmount, Journey!edit, Journey!finishEdit,
           Journey!setAck, Journey!Form, Journey!reads, Journey!runs, Journey!outside,
           Journey!history, JourneyInv, JourneyShapes
<1>2. RunsInv' /\ Journey!RecordIsKept'
    BY <1>1, RunsStay
<1>3. JourneyShapes' /\ ReadsWereTrue'
    BY <1>1 DEF JourneyInv, JourneyShapes, ReadsWereTrue, Journey!Key
<1> QED
    BY <1>2, <1>3 DEF JourneyInv

\* "I already sent BTC" is not open while the wallet is asked, and stays open
\* while a deposit is saved, or the page went on.
LEMMA PanelTurns ==
    ASSUME JourneyInv, Journey!openPanel \/ Journey!cancelPanel \/ Journey!checkTxid
    PROVE  JourneyInv'
<1> USE JourneyConstants
<1>1. UNCHANGED <<depositor, btcKey, answer, asked, amount, editing, depositFlow, depositAction,
                  starts, tracking, registering, pendingDeposits, funds, sats, found, spent,
                  touched, loose, lost>>
    BY DEF Journey!openPanel, Journey!cancelPanel, Journey!checkTxid, Journey!Form,
           Journey!reads, Journey!runs, Journey!outside, Journey!history
<1>2. crossed => crossed'
    BY DEF Journey!openPanel, Journey!cancelPanel, Journey!checkTxid, Journey!Form,
           Journey!history
<1>3. JourneyShapes' /\ ReadsWereTrue'
    BY <1>1 DEF JourneyInv, JourneyShapes, ReadsWereTrue, Journey!Key
<1>4. Journey!mine' = Journey!mine
    BY <1>1 DEF Journey!mine
<1>5. TrackingIsOwn' /\ FlightHasRun' /\ RegisteringIsOwn' /\ SendingAsks' /\ LateIsConfirmed'
    BY <1>1, <1>2, <1>4
       DEF JourneyInv, RunsInv, TrackingIsOwn, FlightHasRun, RegisteringIsOwn, SendingAsks,
           LateIsConfirmed, RecordIsTrue, Alone, Journey!isInFlight, Journey!sending
<1>6. StartIsAlone'
  <2> SUFFICES ASSUME ~crossed', depositor \notin touched, NEW s \in starts
               PROVE  /\ s.kind = "send" => ~newDeviceOpen'
                      /\ s.kind = "txid" => newDeviceOpen' /\ txidCheck' = "saving"
      BY <1>1, <1>2, <1>4 DEF StartIsAlone, Alone, JourneyInv, RunsInv
  <2>1. /\ s.kind \in {"send", "txid"} /\ Journey!mine = None
        /\ s.kind = "send" => /\ depositFlow = "asks_bitcoin"
                              /\ depositAction = "send" /\ ~newDeviceOpen
        /\ s.kind = "txid" => newDeviceOpen /\ txidCheck = "saving"
      BY <1>2 DEF StartIsAlone, Alone, JourneyInv, RunsInv, JourneyShapes
  <2>2. CASE Journey!openPanel
    <3>1. s.kind # "send"
      <4> SUFFICES ASSUME s.kind = "send" PROVE FALSE
          OBVIOUS
      <4>1. Journey!sending
          BY <2>1 DEF Journey!sending, Journey!isInFlight, Journey!TERMINAL
      <4> QED
          BY <2>1, <2>2, <4>1 DEF Journey!openPanel, Journey!slider, Journey!short,
             Journey!routeStep,
                                Journey!preparing
    <3> QED
        BY <2>1, <2>2, <3>1 DEF Journey!openPanel
  <2>3. CASE Journey!cancelPanel \/ Journey!checkTxid
    <3>1. s.kind # "txid"
        BY <2>3 DEF Journey!cancelPanel, Journey!checkTxid, Journey!Saving
    <3> QED
        BY <2>1, <2>3, <3>1 DEF Journey!cancelPanel, Journey!checkTxid, Journey!panel
  <2> QED
      BY <2>2, <2>3
<1> QED
    BY <1>1, <1>2, <1>3, <1>5, <1>6 DEF JourneyInv, RunsInv, Journey!RecordIsKept

\* The flow starts over, and the page went on past whatever was under way.
LEMMA AccountSwitchesOnPage ==
    ASSUME JourneyInv, NEW a \in Accounts \cup {None}, Journey!switchAccount(a)
    PROVE  JourneyInv'
<1> USE JourneyConstants
<1>1. /\ depositor' = a /\ depositFlow' = "idle" /\ loose' = FALSE
      /\ asked' = (asked \cap {"balance"})
                    \cup (IF a = None THEN {} ELSE Journey!Reads \ {"balance"})
      /\ tracking' = (a # None /\ pendingDeposits[a] # None /\ a \notin elsewhere)
      /\ crossed' = (crossed \/ starts # {} \/ registering # {})
      /\ UNCHANGED <<btcKey, answer, amount, editing, depositAction, starts, registering,
                     pendingDeposits, funds, sats, found, spent, touched, lost, newDeviceOpen,
                     txidCheck>>
    BY DEF Journey!switchAccount, Journey!Tracks, Journey!form, Journey!outside
<1>2. JourneyShapes' /\ ReadsWereTrue'
    BY <1>1 DEF JourneyInv, JourneyShapes, ReadsWereTrue, Journey!Key, Journey!Reads
<1>3. Journey!mine' = IF a = None THEN None ELSE pendingDeposits[a]
    BY <1>1 DEF Journey!mine
<1>4. ~Journey!isInFlight' /\ ~Journey!sending'
    BY <1>1 DEF Journey!isInFlight, Journey!sending, Journey!TERMINAL
<1>5. crossed' \/ (~crossed /\ starts = {} /\ registering = {})
    BY <1>1
<1>6. TrackingIsOwn' /\ FlightHasRun' /\ RegisteringIsOwn' /\ SendingAsks'
    BY <1>1, <1>3, <1>4, <1>5 DEF TrackingIsOwn, FlightHasRun, RegisteringIsOwn, SendingAsks
<1>7. StartIsAlone'
    BY <1>1, <1>5 DEF StartIsAlone, Alone
<1>8. LateIsConfirmed'
    BY <1>1 DEF JourneyInv, RunsInv, LateIsConfirmed, RecordIsTrue, Late
<1>9. Journey!RecordIsKept'
    BY <1>1, <1>5 DEF JourneyInv, Journey!RecordIsKept
<1> QED
    BY <1>2, <1>6, <1>7, <1>8, <1>9 DEF JourneyInv, RunsInv

\* The slider is not shown while this page has a start of its own.
LEMMA DepositIsSent ==
    ASSUME JourneyInv, Journey!send
    PROVE  JourneyInv'
<1> USE JourneyConstants
<1>1. PICK n : n = [kind |-> "send", owner |-> depositor, key |-> btcKey,
                    sats |-> Journey!sats, id |-> Journey!Cardinality(starts)]
    OBVIOUS
<1>2. /\ starts' = starts \cup {n}
      /\ n.kind = "send" /\ n.owner = depositor /\ n.key = btcKey /\ n.sats = Journey!sats
    BY <1>1 DEF Journey!send, Journey!Starting
<1>3. /\ depositAction' = "send" /\ depositFlow' = "asks_bitcoin" /\ loose' = FALSE
      /\ depositor # None /\ Journey!mine = None /\ Journey!offered
      /\ UNCHANGED <<depositor, btcKey, answer, asked, amount, editing, tracking, registering,
                     pendingDeposits, funds, sats, found, spent, touched, crossed, lost,
                     newDeviceOpen, txidCheck>>
    BY DEF Journey!send, Journey!form, Journey!reads, Journey!outside
<1>4. /\ Journey!mine' = None /\ ~newDeviceOpen /\ depositFlow # "asks_bitcoin"
      /\ btcKey # None /\ Journey!sats # None
    BY <1>3 DEF Journey!mine, Journey!offered, Journey!slider, Journey!lockReady
<1>5. Journey!sats \in Nat
    BY <1>3, <1>4 DEF Journey!sats, Journey!confirmedSats, JourneyInv, JourneyShapes
<1>6. JourneyShapes' /\ ReadsWereTrue'
    BY <1>2, <1>3, <1>4, <1>5 DEF JourneyInv, JourneyShapes, ReadsWereTrue, Journey!Key
<1>7. TrackingIsOwn' /\ FlightHasRun' /\ RegisteringIsOwn' /\ SendingAsks'
    BY <1>2, <1>3, <1>4
       DEF JourneyInv, RunsInv, TrackingIsOwn, FlightHasRun, RegisteringIsOwn, SendingAsks
<1>8. StartIsAlone'
  <2> SUFFICES ASSUME Alone PROVE StartIsAlone'
      BY <1>2, <1>3 DEF JourneyInv, RunsInv, StartIsAlone, Alone
  <2>1. starts = {}
      BY <1>4 DEF JourneyInv, RunsInv, StartIsAlone, JourneyShapes
  <2> QED
      BY <1>2, <1>3, <1>4, <2>1 DEF StartIsAlone
<1>9. LateIsConfirmed' /\ Journey!RecordIsKept'
    BY <1>3 DEF JourneyInv, RunsInv, LateIsConfirmed, RecordIsTrue, Late, Journey!RecordIsKept
<1> QED
    BY <1>6, <1>7, <1>8, <1>9 DEF JourneyInv, RunsInv

\* A txid is confirmed at a panel no other start leaves open.
LEMMA TxidIsSaved ==
    ASSUME JourneyInv, Journey!confirmTxid
    PROVE  JourneyInv'
<1> USE JourneyConstants
<1>1. PICK n : n = [kind |-> "txid", owner |-> depositor, key |-> btcKey,
                    sats |-> MaxSats, id |-> Journey!Cardinality(starts)]
    OBVIOUS
<1>2. /\ starts' = starts \cup {n}
      /\ n.kind = "txid" /\ n.owner = depositor /\ n.key = btcKey /\ n.sats = MaxSats
    BY <1>1 DEF Journey!confirmTxid, Journey!Starting
<1>3. /\ depositAction' = "txid" /\ txidCheck' = "saving"
      /\ depositFlow' = Journey!reduceFlow(depositFlow, "locating")
      /\ depositor # None /\ btcKey # None /\ Journey!mine = None
      /\ Journey!panel /\ txidCheck = "found"
      /\ UNCHANGED <<depositor, btcKey, answer, asked, amount, editing, tracking, registering,
                     pendingDeposits, funds, sats, found, spent, touched, crossed, lost, loose,
                     newDeviceOpen>>
    BY DEF Journey!confirmTxid, Journey!reads, Journey!outside, Journey!history, Journey!emit
<1>4. /\ Journey!mine' = None /\ newDeviceOpen /\ depositFlow # "settled"
    BY <1>3 DEF Journey!mine, Journey!panel, Journey!short, Journey!routeStep
<1>5. /\ depositFlow' \in {depositFlow, "locating"}
      /\ depositFlow' = depositFlow \/ depositFlow' = "locating"
    BY <1>3 DEF Journey!reduceFlow
<1>6. JourneyShapes' /\ ReadsWereTrue'
    BY <1>2, <1>3 DEF JourneyInv, JourneyShapes, ReadsWereTrue, Journey!Key
<1>7. TrackingIsOwn' /\ FlightHasRun' /\ RegisteringIsOwn' /\ SendingAsks'
    BY <1>2, <1>3, <1>4, <1>5
       DEF JourneyInv, RunsInv, TrackingIsOwn, FlightHasRun, RegisteringIsOwn, SendingAsks,
           Journey!sending
<1>8. StartIsAlone'
  <2> SUFFICES ASSUME Alone PROVE StartIsAlone'
      BY <1>2, <1>3 DEF JourneyInv, RunsInv, StartIsAlone, Alone
  <2>1. starts = {}
      BY <1>3, <1>4 DEF JourneyInv, RunsInv, StartIsAlone, JourneyShapes
  <2> QED
      BY <1>2, <1>3, <1>4, <1>5, <2>1 DEF StartIsAlone
<1>9. LateIsConfirmed' /\ Journey!RecordIsKept'
    BY <1>3, <1>4, <1>5
       DEF JourneyInv, RunsInv, LateIsConfirmed, RecordIsTrue, Late, Alone, Journey!RecordIsKept
<1> QED
    BY <1>6, <1>7, <1>8, <1>9 DEF JourneyInv, RunsInv

\* The only start of an account whose page stayed becomes its only record.
LEMMA RecordIsSaved ==
    ASSUME JourneyInv, NEW s \in starts, NEW step \in {"sent", "confirming"},
           Journey!Saved(s, step), starts' = starts \ {s},
           UNCHANGED <<depositor, btcKey, answer, asked, amount, editing, depositFlow,
                       depositAction, registering, funds, found, touched, crossed, loose,
                       txidCheck>>,
           sats' \in [BtcKeys -> Nat], spent \subseteq spent',
           \A k \in BtcKeys : sats'[k] = sats[k] \/ k \in spent'
    PROVE  JourneyInv'
<1> USE JourneyConstants
<1>1. /\ s.owner \in Accounts /\ s.key \in BtcKeys /\ s.sats \in Nat
      /\ s.kind \in {"send", "txid"}
    BY DEF JourneyInv, JourneyShapes
<1>2. PICK d : d = [key |-> s.key, sats |-> s.sats, step |-> step,
                    confirmed |-> FALSE, signed |-> FALSE, onChain |-> FALSE]
    OBVIOUS
<1>3. /\ d \in Deposits /\ d # None /\ d.step # "ready" /\ d.signed = FALSE
      /\ pendingDeposits' = [pendingDeposits EXCEPT ![s.owner] = d]
  <2>1. pendingDeposits' = [pendingDeposits EXCEPT ![s.owner] =
                              [key |-> s.key, sats |-> s.sats, step |-> step,
                               confirmed |-> FALSE, signed |-> FALSE, onChain |-> FALSE]]
      BY Zenon DEF Journey!Saved
  <2>2. d \in Deposits /\ d.step # "ready" /\ d.signed = FALSE
      BY <1>1, <1>2 DEF Deposits
  <2> QED
      BY <1>2, <2>1, <2>2
<1>4. /\ \A a \in lost' : a \in lost \/ (a = s.owner /\ pendingDeposits[a] # None)
      /\ s.owner # depositor => tracking' = tracking
    BY DEF Journey!Saved
<1>5. /\ pendingDeposits'[s.owner] = d
      /\ \A a \in Accounts : a # s.owner => pendingDeposits'[a] = pendingDeposits[a]
    BY <1>1, <1>3 DEF JourneyInv, JourneyShapes
<1>6. JourneyShapes'
    BY <1>3 DEF JourneyInv, JourneyShapes, Journey!Key
<1>7. ReadsWereTrue'
    BY DEF JourneyInv, ReadsWereTrue
<1>8. /\ s.owner = depositor => Journey!mine' = d
      /\ s.owner # depositor => Journey!mine' = Journey!mine
    BY <1>1, <1>5 DEF Journey!mine, JourneyInv, JourneyShapes
<1>9. /\ ~crossed => s.owner = depositor
      /\ Alone => Journey!mine = None /\ starts' = {} /\ registering = {}
    BY DEF JourneyInv, RunsInv, StartIsAlone, RegisteringIsOwn, Alone
<1>10. TrackingIsOwn'
    BY <1>3, <1>8, <1>4 DEF JourneyInv, RunsInv, TrackingIsOwn
<1>11. FlightHasRun'
    BY <1>3, <1>8 DEF JourneyInv, RunsInv, FlightHasRun, Journey!isInFlight
<1>12. RegisteringIsOwn'
    BY <1>3, <1>8, <1>9 DEF JourneyInv, RunsInv, RegisteringIsOwn, Alone
<1>13. SendingAsks'
    BY <1>3, <1>8
       DEF JourneyInv, RunsInv, SendingAsks, Journey!sending, Journey!isInFlight
<1>14. StartIsAlone'
    BY <1>9 DEF JourneyInv, RunsInv, StartIsAlone, Alone
<1>15. LateIsConfirmed'
  <2>1. \A a \in Accounts : RecordIsTrue(a)'
      BY <1>3, <1>5 DEF JourneyInv, RunsInv, LateIsConfirmed, RecordIsTrue
  <2>2. ASSUME Alone' PROVE depositFlow' \notin Late
      BY <1>9, <2>2 DEF JourneyInv, RunsInv, LateIsConfirmed, RecordIsTrue, Alone
  <2> QED
      BY <2>1, <2>2 DEF LateIsConfirmed
<1>16. Journey!RecordIsKept'
  <2> SUFFICES ASSUME NEW a \in lost', ~crossed PROVE a \in touched
      BY DEF Journey!RecordIsKept
  <2>1. CASE a \in lost
      BY <2>1 DEF JourneyInv, Journey!RecordIsKept
  <2>2. CASE a = s.owner /\ pendingDeposits[a] # None
      BY <1>1, <1>9, <2>2 DEF Alone, Journey!mine, JourneyInv, JourneyShapes
  <2> QED
      BY <1>4, <2>1, <2>2
<1> QED
    BY <1>6, <1>7, <1>10, <1>11, <1>12, <1>13, <1>14, <1>15, <1>16 DEF JourneyInv, RunsInv

\* A send or a save ends well or fails.
LEMMA StartEnds ==
    ASSUME JourneyInv, NEW s \in starts,
           Journey!sent(s) \/ Journey!saved(s) \/ Journey!sendFails(s) \/ Journey!saveFails(s)
    PROVE  JourneyInv'
<1> USE JourneyConstants
<1>1. /\ s.owner \in Accounts /\ s.key \in BtcKeys /\ s.sats \in Nat
      /\ s.kind \in {"send", "txid"} /\ sats \in [BtcKeys -> Nat]
    BY DEF JourneyInv, JourneyShapes
<1>2. CASE Journey!sent(s)
  <2>1. /\ Journey!Saved(s, "sent") /\ starts' = starts \ {s} /\ sats[s.key] >= s.sats
        /\ sats' = [sats EXCEPT ![s.key] = @ - s.sats] /\ spent' = spent \cup {s.key}
        /\ UNCHANGED <<depositor, btcKey, answer, asked, amount, editing, depositFlow,
                       depositAction, registering, funds, found, touched, crossed, loose,
                       txidCheck>>
      BY <1>2 DEF Journey!sent, Journey!reads
  <2>2. /\ sats' \in [BtcKeys -> Nat]
        /\ \A k \in BtcKeys : sats'[k] = sats[k] \/ k \in spent'
      BY <1>1, <2>1
  <2> QED
      BY <2>1, <2>2, RecordIsSaved
<1>3. CASE Journey!saved(s)
  <2>1. /\ Journey!Saved(s, "confirming") /\ starts' = starts \ {s}
        /\ UNCHANGED <<depositor, btcKey, answer, asked, amount, editing, depositFlow,
                       depositAction, registering, funds, found, touched, crossed, loose,
                       txidCheck, sats, spent>>
      BY <1>3 DEF Journey!saved, Journey!reads
  <2> QED
      BY <1>1, <2>1, RecordIsSaved
<1>4. CASE Journey!sendFails(s) \/ Journey!saveFails(s)
  <2>1. /\ starts' = starts \ {s}
        /\ UNCHANGED <<depositor, btcKey, answer, asked, amount, editing, depositAction, tracking,
                       registering, pendingDeposits, funds, sats, found, spent, touched, crossed,
                       lost, newDeviceOpen>>
        /\ \/ depositFlow' \in {"declined_bitcoin", "failed"} /\ loose' = loose
           \/ depositFlow' = depositFlow /\ depositFlow \in Journey!TERMINAL /\ loose' = loose
           \/ depositFlow' = depositFlow /\ loose'
        /\ s.kind = "send" => txidCheck' = txidCheck
      BY <1>1, <1>4
         DEF Journey!sendFails, Journey!saveFails, Journey!reads, Journey!form, Journey!outside,
             Journey!history, Journey!emit, Journey!reduceFlow, Journey!TERMINAL
  <2>2. Journey!mine' = Journey!mine
      BY <2>1 DEF Journey!mine
  <2>3. JourneyShapes' /\ ReadsWereTrue'
      BY <2>1 DEF JourneyInv, JourneyShapes, ReadsWereTrue, Journey!Key
  <2>4. TrackingIsOwn' /\ FlightHasRun'
      BY <2>1, <2>2
         DEF JourneyInv, RunsInv, TrackingIsOwn, FlightHasRun, Journey!isInFlight,
             Journey!TERMINAL
  <2>5. RegisteringIsOwn' /\ SendingAsks'
      BY <2>1, <2>2
         DEF JourneyInv, RunsInv, RegisteringIsOwn, SendingAsks, Journey!sending,
             Journey!isInFlight, Journey!TERMINAL
  <2>6. StartIsAlone'
      BY <2>1 DEF JourneyInv, RunsInv, StartIsAlone, Alone
  <2>7. LateIsConfirmed' /\ Journey!RecordIsKept'
      BY <2>1, <2>2
         DEF JourneyInv, RunsInv, LateIsConfirmed, RecordIsTrue, Late, Alone, Journey!RecordIsKept
  <2> QED
      BY <2>3, <2>4, <2>5, <2>6, <2>7 DEF JourneyInv, RunsInv
<1> QED
    BY <1>2, <1>3, <1>4

\* A step for a deposit whose record stays: the connected account's, or that of
\* a registration the page went on from.
LEMMA DepositMovesOn ==
    ASSUME JourneyInv, NEW a \in Accounts, pendingDeposits[a] # None, NEW d \in Deposits,
           UNCHANGED <<depositor, btcKey, answer, asked, amount, editing, depositAction, starts,
                       registering, funds, sats, found, spent, touched, crossed, loose, lost,
                       newDeviceOpen, txidCheck>>,
           a = depositor \/ (crossed /\ registering # {}),
           tracking' => Journey!mine # None,
           pendingDeposits' = [pendingDeposits EXCEPT ![a] = d],
           d.confirmed = pendingDeposits[a].confirmed,
           d.step = "ready" \/ d.signed => d.confirmed \/ crossed \/ a \in touched,
           depositFlow' # depositFlow =>
               depositFlow' \in {"locating", "waiting_btc", "ready", "failed", "building",
                                 "asks_stellar", "submitted"},
           depositFlow' # depositFlow /\ depositFlow' \in Late =>
               d.confirmed \/ crossed \/ a \in touched
    PROVE  JourneyInv'
<1> USE JourneyConstants
<1>1. d # None
    OBVIOUS
<1>2. /\ \A b \in Accounts : b # a => pendingDeposits'[b] = pendingDeposits[b]
      /\ pendingDeposits'[a] = d
    BY <1>1 DEF JourneyInv, JourneyShapes
<1>3. /\ a = depositor => Journey!mine' = d /\ Journey!mine = pendingDeposits[a]
      /\ a # depositor => Journey!mine' = Journey!mine
    BY <1>2 DEF Journey!mine, JourneyInv, JourneyShapes
<1>4. JourneyShapes' /\ ReadsWereTrue'
    BY DEF JourneyInv, JourneyShapes, ReadsWereTrue, Journey!Key
<1>5. TrackingIsOwn' /\ FlightHasRun'
    BY <1>1, <1>3
       DEF JourneyInv, RunsInv, TrackingIsOwn, FlightHasRun, Journey!isInFlight
<1>6. RegisteringIsOwn' /\ SendingAsks'
    BY <1>1, <1>3
       DEF JourneyInv, RunsInv, RegisteringIsOwn, SendingAsks, Journey!sending
<1>7. StartIsAlone'
    BY <1>1, <1>3 DEF JourneyInv, RunsInv, StartIsAlone, Alone
<1>8. \A b \in Accounts : RecordIsTrue(b)'
    BY <1>1, <1>2 DEF JourneyInv, RunsInv, LateIsConfirmed, RecordIsTrue
<1>9. LateIsConfirmed'
    BY <1>1, <1>3, <1>8 DEF JourneyInv, RunsInv, LateIsConfirmed, Late, Alone
<1>10. Journey!RecordIsKept'
    BY DEF JourneyInv, Journey!RecordIsKept
<1> QED
    BY <1>4, <1>5, <1>6, <1>7, <1>9, <1>10 DEF JourneyInv, RunsInv

\* What trackDeposit does for account a short of its end, as DepositMovesOn takes it.
LEMMA TrackMoves ==
    ASSUME JourneyInv, NEW a \in Accounts,
           Journey!Locates(a) \/ Journey!Awaits(a) \/ Journey!Counts(a) \/ Journey!Readies(a)
    PROVE  /\ pendingDeposits[a] # None
           /\ \E d \in Deposits :
                 /\ pendingDeposits' = [pendingDeposits EXCEPT ![a] = d]
                 /\ d.confirmed = pendingDeposits[a].confirmed
                 /\ d.step = "ready" \/ d.signed => d.confirmed \/ crossed \/ a \in touched
                 /\ depositFlow' # depositFlow =>
                       depositFlow' \in {"locating", "waiting_btc", "ready", "submitted"}
                 /\ depositFlow' # depositFlow /\ depositFlow' \in Late =>
                       d.confirmed \/ crossed \/ a \in touched
<1> USE JourneyConstants
<1>1. /\ pendingDeposits[a] # None /\ pendingDeposits[a] \in Deposits
      /\ pendingDeposits = [pendingDeposits EXCEPT ![a] = pendingDeposits[a]]
      /\ pendingDeposits[a].step = "ready" \/ pendingDeposits[a].signed
             => pendingDeposits[a].confirmed \/ crossed \/ a \in touched
    BY DEF Journey!Locates, Journey!Awaits, Journey!Counts, Journey!Readies, Journey!Open,
           JourneyInv, JourneyShapes, RunsInv, LateIsConfirmed, RecordIsTrue
<1>2. CASE Journey!Locates(a)
  <2>1. PICK d : d = [pendingDeposits[a] EXCEPT !.step = "confirming"]
      OBVIOUS
  <2>2. /\ d \in Deposits /\ d.confirmed = pendingDeposits[a].confirmed
        /\ d.step = "confirming" /\ d.signed = pendingDeposits[a].signed
      BY <1>1, <2>1 DEF Deposits
  <2>3. /\ pendingDeposits' = [pendingDeposits EXCEPT ![a] = d]
        /\ depositFlow' \in {depositFlow, "locating"}
      BY <1>2, <2>1 DEF Journey!Locates, Journey!emit, Journey!reduceFlow
  <2> QED
      BY <1>1, <2>2, <2>3 DEF Late
<1>3. CASE Journey!Awaits(a) \/ Journey!Counts(a)
  <2>1. /\ pendingDeposits' = pendingDeposits
        /\ depositFlow' \in {depositFlow, "submitted", "waiting_btc"}
        /\ depositFlow' # depositFlow /\ depositFlow' \in Late => pendingDeposits[a].signed
      BY <1>3 DEF Journey!Awaits, Journey!Counts, Journey!emit, Journey!reduceFlow, Late
  <2> QED
      BY <1>1, <2>1
<1>4. CASE Journey!Readies(a)
  <2>1. PICK d : d = [pendingDeposits[a] EXCEPT !.step = "ready", !.signed = FALSE]
      OBVIOUS
  <2>2. d \in Deposits /\ d.confirmed = pendingDeposits[a].confirmed
      BY <1>1, <2>1 DEF Deposits
  <2>3. /\ pendingDeposits' = [pendingDeposits EXCEPT ![a] = d] /\ pendingDeposits[a].confirmed
        /\ depositFlow' \in {depositFlow, "ready"}
      BY <1>4, <2>1 DEF Journey!Readies, Journey!emit, Journey!reduceFlow
  <2> QED
      BY <1>1, <2>2, <2>3
<1> QED
    BY <1>2, <1>3, <1>4

\* The tracker's steps are steps of the connected account's deposit.
LEMMA DepositIsTracked ==
    ASSUME JourneyInv,
           Journey!located \/ Journey!counted \/ Journey!readied \/ Journey!trackFails
             \/ Journey!again
    PROVE  JourneyInv'
<1> USE JourneyConstants
<1>1. Journey!mine # None
    BY DEF Journey!located, Journey!counted, Journey!readied, Journey!trackFails, Journey!again,
           JourneyInv, RunsInv, TrackingIsOwn
<1>2. /\ depositor \in Accounts /\ pendingDeposits[depositor] # None
      /\ pendingDeposits[depositor] \in Deposits
      /\ pendingDeposits = [pendingDeposits EXCEPT ![depositor] = pendingDeposits[depositor]]
      /\ RecordIsTrue(depositor)
    BY <1>1 DEF Journey!mine, JourneyInv, JourneyShapes, RunsInv, LateIsConfirmed
<1>3. UNCHANGED <<depositor, btcKey, answer, asked, amount, editing, starts, registering,
                  funds, sats, found, spent, touched, crossed, loose, lost, depositAction,
                  newDeviceOpen, txidCheck>>
    BY DEF Journey!located, Journey!counted, Journey!readied, Journey!trackFails, Journey!again,
           Journey!Runs, Journey!reads, Journey!form, Journey!outside, Journey!history
<1>4. CASE Journey!located \/ Journey!counted \/ Journey!readied
  <2>1. \/ Journey!Locates(depositor) \/ Journey!Awaits(depositor)
        \/ Journey!Counts(depositor) \/ Journey!Readies(depositor)
      BY <1>4 DEF Journey!located, Journey!counted, Journey!readied
  <2> QED
      BY <1>1, <1>2, <1>3, <2>1, TrackMoves, DepositMovesOn
<1>5. CASE Journey!trackFails \/ Journey!again
  <2>1. pendingDeposits' = pendingDeposits /\ depositFlow' \in {depositFlow, "failed"}
      BY <1>5 DEF Journey!trackFails, Journey!again, Journey!emit, Journey!reduceFlow,
                  Journey!outside
  <2> QED
      BY <1>1, <1>2, <1>3, <2>1, DepositMovesOn DEF RecordIsTrue, Late
<1> QED
    BY <1>4, <1>5

\* An aborted run either tells what the page already shows and leaves the record
\* to say what is so, or marks that the page heard it.
LEMMA AbortedRunTrails ==
    ASSUME JourneyInv, NEW a \in Accounts, Journey!trails(a)
    PROVE  JourneyInv'
<1> USE JourneyConstants
<1>1. /\ UNCHANGED <<depositor, btcKey, answer, asked, amount, editing, depositAction, starts,
                     registering, funds, sats, found, spent, touched, lost, newDeviceOpen,
                     txidCheck>>
      /\ tracking' => tracking /\ (a = depositor => pendingDeposits'[a] # None)
      /\ loose' = (loose \/ (depositFlow' # depositFlow
                                /\ depositFlow' \notin Journey!TERMINAL))
      /\ crossed' = (crossed \/ depositFlow' # depositFlow
                       \/ (pendingDeposits[a] # None /\ pendingDeposits'[a] = None))
    BY DEF Journey!trails, Journey!reads, Journey!form
<1>2. /\ \E d \in Deposits \cup {None} :
            /\ pendingDeposits' = [pendingDeposits EXCEPT ![a] = d]
            /\ d # None => pendingDeposits[a] # None /\ d.confirmed = pendingDeposits[a].confirmed
            /\ d # None => (d.step = "ready" \/ d.signed
                               => d.confirmed \/ crossed \/ a \in touched)
      /\ pendingDeposits[a] # None /\ pendingDeposits'[a] = None
            => depositFlow' \in Journey!TERMINAL
  <2>1. /\ pendingDeposits[a] \in Deposits \cup {None}
        /\ pendingDeposits = [pendingDeposits EXCEPT ![a] = pendingDeposits[a]]
        /\ pendingDeposits[a] # None =>
              (pendingDeposits[a].step = "ready" \/ pendingDeposits[a].signed
                  => pendingDeposits[a].confirmed \/ crossed \/ a \in touched)
        /\ \A d : [pendingDeposits EXCEPT ![a] = d][a] = d
      BY DEF JourneyInv, JourneyShapes, RunsInv, LateIsConfirmed, RecordIsTrue
  <2>2. CASE \/ Journey!Locates(a) \/ Journey!Awaits(a) \/ Journey!Counts(a)
             \/ Journey!Readies(a)
      BY <2>1, <2>2, TrackMoves
  <2>3. CASE pendingDeposits' = pendingDeposits
      BY <2>1, <2>3
  <2>4. CASE /\ depositFlow' = Journey!reduceFlow(depositFlow, "settled")
             /\ pendingDeposits' = [pendingDeposits EXCEPT ![a] = None]
    <3>1. depositFlow' \in Journey!TERMINAL
        BY <2>4 DEF Journey!reduceFlow, Journey!TERMINAL
    <3> QED
        BY <2>4, <3>1
  <2>5. CASE /\ a \in lost /\ pendingDeposits[a] # None
             /\ pendingDeposits' = [pendingDeposits EXCEPT ![a].step = "ready"]
    <3>1. PICK d : d = [pendingDeposits[a] EXCEPT !.step = "ready"]
        OBVIOUS
    <3>2. d \in Deposits /\ d.confirmed = pendingDeposits[a].confirmed
        BY <2>1, <2>5, <3>1 DEF Deposits
    <3>3. pendingDeposits' = [pendingDeposits EXCEPT ![a] = d]
        BY <2>5, <3>1
    <3>4. crossed \/ a \in touched
        BY <2>5 DEF JourneyInv, Journey!RecordIsKept
    <3> QED
        BY <2>1, <2>5, <3>2, <3>3, <3>4
  <2> QED
      BY <2>2, <2>3, <2>4, <2>5 DEF Journey!trails, Journey!Stale, Journey!emit
<1>3. PICK d \in Deposits \cup {None} :
          /\ pendingDeposits' = [pendingDeposits EXCEPT ![a] = d]
          /\ d # None => pendingDeposits[a] # None /\ d.confirmed = pendingDeposits[a].confirmed
          /\ d # None => (d.step = "ready" \/ d.signed
                             => d.confirmed \/ crossed \/ a \in touched)
    BY <1>2
<1>4. /\ pendingDeposits'[a] = d
      /\ \A b \in Accounts : b # a => pendingDeposits'[b] = pendingDeposits[b]
      /\ a = depositor => Journey!mine' = d /\ Journey!mine = pendingDeposits[a]
      /\ a # depositor => Journey!mine' = Journey!mine
    BY <1>1, <1>3 DEF Journey!mine, JourneyInv, JourneyShapes
<1>5. JourneyShapes' /\ ReadsWereTrue'
    BY <1>1, <1>3 DEF JourneyInv, JourneyShapes, ReadsWereTrue, Journey!Key
<1>6. TrackingIsOwn'
    BY <1>1, <1>4 DEF JourneyInv, RunsInv, TrackingIsOwn
<1>7. FlightHasRun'
    BY <1>1, <1>2, <1>4 DEF JourneyInv, RunsInv, FlightHasRun, Journey!isInFlight
<1>8. ~crossed' => /\ ~crossed /\ depositFlow' = depositFlow
                   /\ Journey!mine' = None <=> Journey!mine = None
                   /\ d = None => pendingDeposits[a] = None
    BY <1>1, <1>3, <1>4
<1>9. RegisteringIsOwn' /\ SendingAsks' /\ StartIsAlone'
    BY <1>1, <1>3, <1>4, <1>8
       DEF JourneyInv, RunsInv, RegisteringIsOwn, SendingAsks, StartIsAlone, Alone,
           Journey!sending, Journey!isInFlight
<1>10. \A b \in Accounts : RecordIsTrue(b)'
    BY <1>1, <1>3, <1>4, <1>8 DEF JourneyInv, RunsInv, LateIsConfirmed, RecordIsTrue
<1>11. LateIsConfirmed'
    BY <1>1, <1>3, <1>4, <1>8, <1>10 DEF JourneyInv, RunsInv, LateIsConfirmed, Alone
<1>12. Journey!RecordIsKept'
    BY <1>1 DEF JourneyInv, Journey!RecordIsKept
<1> QED
    BY <1>5, <1>6, <1>7, <1>9, <1>11, <1>12 DEF JourneyInv, RunsInv

\* The record of account a is closed, and its page hears of the end or went on.
LEMMA RecordIsClosed ==
    ASSUME JourneyInv, NEW a \in Accounts,
           UNCHANGED <<depositor, btcKey, answer, asked, amount, editing, depositAction, starts,
                       funds, sats, found, spent, lost, newDeviceOpen, txidCheck>>,
           pendingDeposits' = [pendingDeposits EXCEPT ![a] = None],
           tracking' => tracking /\ a # depositor,
           registering' \subseteq registering,
           touched \subseteq touched', crossed => crossed', loose => loose',
           \/ a # depositor /\ depositFlow' = depositFlow /\ registering' = registering
           \/ loose' /\ depositFlow' = depositFlow
           \/ depositFlow' \in Journey!TERMINAL
                 /\ (a = depositor \/ crossed') /\ depositFlow' \in {depositFlow, "settled"},
           a = depositor => \/ crossed' \/ depositor \in touched'
                            \/ depositFlow' \notin Late /\ starts = {},
           a = depositor => registering' = {} \/ crossed'
    PROVE  JourneyInv'
<1> USE JourneyConstants
<1>1. /\ pendingDeposits'[a] = None
      /\ \A b \in Accounts : b # a => pendingDeposits'[b] = pendingDeposits[b]
    BY DEF JourneyInv, JourneyShapes
<1>2. /\ a # depositor => Journey!mine' = Journey!mine
      /\ a = depositor => Journey!mine' = None
    BY <1>1 DEF Journey!mine, JourneyInv, JourneyShapes
<1>3. JourneyShapes' /\ ReadsWereTrue'
    BY DEF JourneyInv, JourneyShapes, ReadsWereTrue, Journey!Key
<1>4. TrackingIsOwn' /\ FlightHasRun'
    BY <1>2 DEF JourneyInv, RunsInv, TrackingIsOwn, FlightHasRun, Journey!isInFlight
<1>5. RegisteringIsOwn'
    BY <1>2 DEF JourneyInv, RunsInv, RegisteringIsOwn
<1>6. SendingAsks'
    BY <1>2 DEF JourneyInv, RunsInv, SendingAsks, Journey!sending, Journey!isInFlight
<1>7. StartIsAlone'
    BY <1>2 DEF JourneyInv, RunsInv, StartIsAlone, Alone
<1>8. LateIsConfirmed'
    BY <1>1, <1>2 DEF JourneyInv, RunsInv, LateIsConfirmed, RecordIsTrue, Alone
<1>9. Journey!RecordIsKept'
    BY DEF JourneyInv, Journey!RecordIsKept
<1> QED
    BY <1>3, <1>4, <1>5, <1>6, <1>7, <1>8, <1>9 DEF JourneyInv, RunsInv

\* Register is shown for a confirmed deposit of the connected account.
LEMMA RegisterIsSound ==
    ASSUME JourneyInv, Journey!registrable
    PROVE  Journey!mine # None /\ (Alone => Journey!mine.confirmed)
<1>1. Journey!mine # None /\ Journey!depositStage(Journey!mine) = "register"
    BY DEF Journey!registrable, Journey!routeStep, Journey!stage, JourneyInv, JourneyShapes
<1> QED
    BY <1>1 DEF Journey!depositStage, Journey!confirmed, Late, JourneyInv, RunsInv,
                LateIsConfirmed, RecordIsTrue, Alone, JourneyShapes, Journey!mine, Deposits

\* A deposit is closed by the tracker, by its own registration or by another tab.
LEMMA DepositIsOver ==
    ASSUME JourneyInv,
           Journey!active \/ \E a \in Accounts : Journey!registered(a) \/ Journey!otherRegisters(a)
    PROVE  JourneyInv'
<1> USE JourneyConstants
<1>1. CASE Journey!active
  <2>1. /\ UNCHANGED <<depositor, btcKey, answer, asked, amount, editing, depositAction, starts,
                       funds, sats, found, spent, lost, newDeviceOpen, txidCheck, registering,
                       touched, loose>>
        /\ pendingDeposits' = [pendingDeposits EXCEPT ![depositor] = None]
        /\ tracking /\ tracking' = FALSE
      BY <1>1 DEF Journey!active, Journey!reads, Journey!form
  <2>2. /\ crossed => crossed'
        /\ crossed' \/ (depositFlow' = "settled" /\ registering = {})
        /\ depositFlow' \in {depositFlow, "settled"} /\ depositFlow' \in Journey!TERMINAL
      BY <1>1 DEF Journey!active, Journey!emit, Journey!reduceFlow, Journey!TERMINAL
  <2>3. depositor \in Accounts /\ Journey!mine # None
      BY <2>1 DEF Journey!mine, JourneyInv, JourneyShapes, RunsInv, TrackingIsOwn
  <2>4. crossed' \/ depositor \in touched' \/ (depositFlow' \notin Late /\ starts = {})
      BY <2>1, <2>2, <2>3 DEF JourneyInv, RunsInv, StartIsAlone, Alone, Late
  <2> QED
      BY <2>1, <2>2, <2>3, <2>4, RecordIsClosed
<1>2. ASSUME NEW a \in Accounts, Journey!registered(a)
      PROVE  JourneyInv'
  <2>1. /\ UNCHANGED <<depositor, btcKey, answer, asked, amount, editing, depositAction, starts,
                       funds, sats, found, spent, lost, newDeviceOpen, txidCheck, touched, loose,
                       crossed>>
        /\ pendingDeposits' = [pendingDeposits EXCEPT ![a] = None]
        /\ a \in registering /\ registering' = registering \ {a}
      BY <1>2 DEF Journey!registered, Journey!reads, Journey!form, Journey!history
  <2>2. tracking' => tracking /\ a # depositor
      BY <1>2 DEF Journey!registered
  <2>3. /\ depositFlow' \in {depositFlow, "settled"} /\ depositFlow' \in Journey!TERMINAL
        /\ depositFlow' # "settled" => depositFlow \in Journey!TERMINAL \ {"idle", "ready"}
        /\ depositFlow = "timed_out" => depositFlow' = "settled"
      BY <1>2 DEF Journey!registered, Journey!emit, Journey!reduceFlow, Journey!TERMINAL
  <2>4. crossed \/ (/\ a = depositor /\ registering' = {} /\ Journey!mine # None
                    /\ depositFlow' \notin Late)
      BY <2>1, <2>3 DEF JourneyInv, RunsInv, RegisteringIsOwn, Late, Journey!TERMINAL
  <2>5. crossed \/ depositor \in touched \/ starts = {}
      BY <2>4 DEF JourneyInv, RunsInv, StartIsAlone, Alone
  <2> QED
      BY <2>1, <2>2, <2>3, <2>4, <2>5, RecordIsClosed
<1>3. ASSUME NEW a \in Accounts, Journey!otherRegisters(a)
      PROVE  JourneyInv'
  <2>1. /\ UNCHANGED <<depositor, btcKey, answer, asked, amount, editing, depositAction, starts,
                       funds, sats, found, spent, lost, newDeviceOpen, txidCheck, depositFlow,
                       crossed, registering>>
        /\ pendingDeposits' = [pendingDeposits EXCEPT ![a] = None]
        /\ a \notin registering /\ touched' = touched \cup {a}
      BY <1>3 DEF Journey!otherRegisters, Journey!reads, Journey!form
  <2>2. tracking' => tracking /\ a # depositor
      BY <1>3 DEF Journey!otherRegisters
  <2>3. (loose => loose') /\ (a = depositor /\ depositFlow \notin Journey!TERMINAL => loose')
      BY <1>3 DEF Journey!otherRegisters, Journey!isInFlight
  <2>4. a = depositor => registering = {} \/ crossed
      BY <2>1 DEF JourneyInv, RunsInv, RegisteringIsOwn
  <2> QED
      BY <2>1, <2>2, <2>3, <2>4, RecordIsClosed
<1> QED
    BY <1>1, <1>2, <1>3

\* A registration begins from a confirmed deposit, or fails at once.
LEMMA RegistrationBegins ==
    ASSUME JourneyInv, Journey!register
    PROVE  JourneyInv'
<1> USE JourneyConstants
<1>1. /\ UNCHANGED <<depositor, btcKey, answer, asked, amount, editing, starts, tracking,
                     pendingDeposits, funds, sats, found, spent, touched, crossed, lost,
                     newDeviceOpen, txidCheck>>
      /\ Journey!registrable /\ depositAction' = "register" /\ loose' = FALSE
    BY DEF Journey!register, Journey!reads, Journey!form, Journey!outside
<1>2. \/ depositFlow' = "failed" /\ registering' = registering
      \/ depositFlow' = "asks_bitcoin" /\ registering' = registering \cup {depositor}
    BY DEF Journey!register
<1>3. /\ Journey!mine # None /\ (Alone => Journey!mine.confirmed) /\ depositor \in Accounts
      /\ Journey!mine' = Journey!mine
    BY <1>1, RegisterIsSound DEF Journey!mine, JourneyInv, JourneyShapes
<1>4. JourneyShapes' /\ ReadsWereTrue'
    BY <1>1, <1>2, <1>3 DEF JourneyInv, JourneyShapes, ReadsWereTrue, Journey!Key
<1>5. TrackingIsOwn' /\ FlightHasRun' /\ SendingAsks'
    BY <1>1, <1>3 DEF TrackingIsOwn, FlightHasRun, SendingAsks, Journey!sending
<1>6. RegisteringIsOwn'
    BY <1>1, <1>2, <1>3 DEF JourneyInv, RunsInv, RegisteringIsOwn, Alone
<1>7. StartIsAlone' /\ LateIsConfirmed'
    BY <1>1, <1>2, <1>3 DEF JourneyInv, RunsInv, StartIsAlone, LateIsConfirmed,
       RecordIsTrue, Alone, Late
<1>8. Journey!RecordIsKept'
    BY <1>1 DEF JourneyInv, Journey!RecordIsKept
<1> QED
    BY <1>4, <1>5, <1>6, <1>7, <1>8 DEF JourneyInv, RunsInv

\* A registration's news is about the deposit of the page, or the page went on.
LEMMA RegistrationSigns ==
    ASSUME JourneyInv, NEW a \in Accounts, Journey!checks(a) \/ Journey!signs(a)
    PROVE  JourneyInv'
<1> USE JourneyConstants
<1>1. /\ UNCHANGED <<depositor, btcKey, answer, asked, amount, editing, depositAction, starts,
                     registering, funds, sats, found, spent, touched, crossed, lost, loose,
                     newDeviceOpen, txidCheck>>
      /\ tracking' = tracking /\ a \in registering
    BY DEF Journey!checks, Journey!signs, Journey!Runs, Journey!reads, Journey!form,
           Journey!history
<1>2. /\ tracking' => Journey!mine # None
      /\ a = depositor \/ (crossed /\ registering # {})
      /\ crossed \/ pendingDeposits[a] # None
      /\ pendingDeposits[a] # None =>
            pendingDeposits[a].confirmed \/ crossed \/ a \in touched
    BY <1>1 DEF JourneyInv, JourneyShapes, RunsInv, TrackingIsOwn, RegisteringIsOwn,
                Journey!mine
<1>3. CASE Journey!checks(a)
  <2>1. \/ Journey!Locates(a) \/ Journey!Awaits(a) \/ Journey!Counts(a) \/ Journey!Readies(a)
      BY <1>3 DEF Journey!checks
  <2> QED
      BY <1>1, <1>2, <2>1, TrackMoves, DepositMovesOn
<1>4. CASE Journey!signs(a) /\ pendingDeposits[a] # None
  <2>1. /\ pendingDeposits[a] \in Deposits
        /\ pendingDeposits = [pendingDeposits EXCEPT ![a] = pendingDeposits[a]]
        /\ RecordIsTrue(a)
      BY <1>4 DEF JourneyInv, JourneyShapes, RunsInv, LateIsConfirmed
  <2>2. depositFlow' # depositFlow => depositFlow' \in {"building", "asks_stellar", "submitted"}
      BY <1>4 DEF Journey!signs, Journey!emit, Journey!reduceFlow
  <2>3. CASE pendingDeposits' = pendingDeposits
      BY <1>1, <1>2, <1>4, <2>1, <2>2, <2>3, DepositMovesOn DEF RecordIsTrue
  <2>4. CASE pendingDeposits' = [pendingDeposits EXCEPT ![a].signed = TRUE]
    <3>1. PICK d : d = [pendingDeposits[a] EXCEPT !.signed = TRUE]
        OBVIOUS
    <3>2. /\ d \in Deposits /\ d.confirmed = pendingDeposits[a].confirmed
          /\ pendingDeposits' = [pendingDeposits EXCEPT ![a] = d]
        BY <2>1, <2>4, <3>1 DEF Deposits
    <3> QED
        BY <1>1, <1>2, <1>4, <2>2, <3>2, DepositMovesOn
  <2> QED
      BY <1>4, <2>3, <2>4 DEF Journey!signs
<1>5. CASE Journey!signs(a) /\ pendingDeposits[a] = None
  <2>1. /\ pendingDeposits' = pendingDeposits /\ crossed /\ Journey!mine' = Journey!mine
        /\ depositFlow' \in {depositFlow, "building", "asks_stellar", "submitted"}
      BY <1>1, <1>2, <1>5 DEF Journey!signs, Journey!emit, Journey!reduceFlow, Journey!mine
  <2>2. JourneyShapes' /\ ReadsWereTrue'
      BY <1>1, <2>1 DEF JourneyInv, JourneyShapes, ReadsWereTrue, Journey!Key
  <2>3. TrackingIsOwn' /\ FlightHasRun' /\ RegisteringIsOwn' /\ SendingAsks' /\ StartIsAlone'
      BY <1>1, <2>1
         DEF JourneyInv, RunsInv, TrackingIsOwn, FlightHasRun, RegisteringIsOwn, SendingAsks,
             StartIsAlone, Alone
  <2>4. LateIsConfirmed' /\ Journey!RecordIsKept'
      BY <1>1, <2>1
         DEF JourneyInv, RunsInv, LateIsConfirmed, RecordIsTrue, Alone, Journey!RecordIsKept
  <2> QED
      BY <2>2, <2>3, <2>4 DEF JourneyInv, RunsInv
<1> QED
    BY <1>3, <1>4, <1>5

\* Account a's record is the same deposit, with more known of it.
LEMMA RecordIsUpdated ==
    ASSUME JourneyInv, NEW a \in Accounts, NEW d \in Deposits, pendingDeposits[a] # None,
           pendingDeposits' = [pendingDeposits EXCEPT ![a] = d],
           d.step = pendingDeposits[a].step, pendingDeposits[a].confirmed => d.confirmed,
           d.signed => pendingDeposits[a].signed, UNCHANGED <<crossed, touched>>
    PROVE  /\ pendingDeposits' \in [Accounts -> Deposits \cup {None}]
           /\ depositor' = depositor =>
                  /\ Journey!mine' = None <=> Journey!mine = None
                  /\ Journey!mine # None /\ Journey!mine.confirmed => Journey!mine'.confirmed
           /\ \A b \in Accounts : RecordIsTrue(b)'
<1> USE JourneyConstants
<1>1. /\ pendingDeposits'[a] = d /\ d # None
      /\ \A b \in Accounts : b # a => pendingDeposits'[b] = pendingDeposits[b]
    BY DEF JourneyInv, JourneyShapes
<1>2. pendingDeposits' \in [Accounts -> Deposits \cup {None}]
    BY DEF JourneyInv, JourneyShapes
<1>3. ASSUME depositor' = depositor
      PROVE  /\ Journey!mine' = None <=> Journey!mine = None
             /\ Journey!mine # None /\ Journey!mine.confirmed => Journey!mine'.confirmed
    BY <1>1, <1>3 DEF Journey!mine, JourneyInv, JourneyShapes
<1>4. \A b \in Accounts : RecordIsTrue(b)'
    BY <1>1 DEF JourneyInv, RunsInv, LateIsConfirmed, RecordIsTrue
<1> QED
    BY <1>2, <1>3, <1>4

\* A registration that fails leaves its record, confirmed as it was.
LEMMA RegistrationFails ==
    ASSUME JourneyInv, NEW a \in Accounts, Journey!registerFails(a)
    PROVE  JourneyInv'
<1> USE JourneyConstants
<1>1. /\ UNCHANGED <<depositor, btcKey, answer, asked, amount, editing, depositAction, starts,
                     tracking, funds, sats, found, spent, touched, crossed, lost, loose,
                     newDeviceOpen, txidCheck>>
      /\ a \in registering /\ registering' = registering \ {a}
    BY DEF Journey!registerFails, Journey!reads, Journey!form, Journey!history
<1>2. depositFlow' \in Journey!TERMINAL
    BY DEF Journey!registerFails, Journey!emit, Journey!reduceFlow, Journey!TERMINAL
<1>3. \/ pendingDeposits' = pendingDeposits
      \/ /\ pendingDeposits[a] # None /\ pendingDeposits[a].confirmed
         /\ pendingDeposits' = [pendingDeposits EXCEPT ![a].onChain = TRUE]
      \/ /\ pendingDeposits[a] # None
         /\ pendingDeposits' = [pendingDeposits EXCEPT ![a].signed = FALSE]
    BY DEF Journey!registerFails
<1>4. /\ pendingDeposits' \in [Accounts -> Deposits \cup {None}]
      /\ Journey!mine' = None <=> Journey!mine = None
      /\ Journey!mine # None /\ Journey!mine.confirmed => Journey!mine'.confirmed
      /\ \A b \in Accounts : RecordIsTrue(b)'
  <2>1. CASE pendingDeposits' = pendingDeposits
      BY <1>1, <2>1 DEF Journey!mine, JourneyInv, JourneyShapes, RunsInv, LateIsConfirmed, RecordIsTrue
  <2>2. CASE /\ pendingDeposits[a] # None /\ pendingDeposits[a].confirmed
             /\ pendingDeposits' = [pendingDeposits EXCEPT ![a].onChain = TRUE]
    <3>1. PICK d : d = [pendingDeposits[a] EXCEPT !.onChain = TRUE]
        OBVIOUS
    <3>2. /\ d \in Deposits /\ d.step = pendingDeposits[a].step
          /\ d.confirmed = pendingDeposits[a].confirmed /\ d.signed = pendingDeposits[a].signed
          /\ pendingDeposits' = [pendingDeposits EXCEPT ![a] = d]
        BY <2>2, <3>1 DEF Deposits, JourneyInv, JourneyShapes
    <3> QED
        BY <1>1, <2>2, <3>2, RecordIsUpdated
  <2>3. CASE /\ pendingDeposits[a] # None
             /\ pendingDeposits' = [pendingDeposits EXCEPT ![a].signed = FALSE]
    <3>1. PICK d : d = [pendingDeposits[a] EXCEPT !.signed = FALSE]
        OBVIOUS
    <3>2. /\ d \in Deposits /\ d.step = pendingDeposits[a].step
          /\ d.confirmed = pendingDeposits[a].confirmed /\ d.signed = FALSE
          /\ pendingDeposits' = [pendingDeposits EXCEPT ![a] = d]
        BY <2>3, <3>1 DEF Deposits, JourneyInv, JourneyShapes
    <3> QED
        BY <1>1, <2>3, <3>2, RecordIsUpdated
  <2> QED
      BY <1>3, <2>1, <2>2, <2>3
<1>5. crossed \/ (/\ registering' = {} /\ Journey!mine # None
                  /\ Alone => Journey!mine.confirmed)
    BY <1>1 DEF JourneyInv, RunsInv, RegisteringIsOwn, Alone
<1>6. JourneyShapes' /\ ReadsWereTrue'
    BY <1>1, <1>4 DEF JourneyInv, JourneyShapes, ReadsWereTrue, Journey!Key
<1>7. TrackingIsOwn' /\ FlightHasRun' /\ RegisteringIsOwn' /\ SendingAsks'
    BY <1>1, <1>2, <1>4, <1>5
       DEF JourneyInv, RunsInv, TrackingIsOwn, FlightHasRun, RegisteringIsOwn, SendingAsks,
           Journey!sending, Journey!isInFlight
<1>8. StartIsAlone' /\ LateIsConfirmed'
    BY <1>1, <1>4, <1>5 DEF JourneyInv, RunsInv, StartIsAlone, LateIsConfirmed, RecordIsTrue, Alone
<1>9. Journey!RecordIsKept'
    BY <1>1 DEF JourneyInv, Journey!RecordIsKept
<1> QED
    BY <1>6, <1>7, <1>8, <1>9 DEF JourneyInv, RunsInv

\* The page starts over after a settled deposit, with nothing under way.
LEMMA PageIsReset ==
    ASSUME JourneyInv, Journey!reset
    PROVE  JourneyInv'
<1> USE JourneyConstants
<1>1. /\ UNCHANGED <<depositor, btcKey, answer, asked, starts, tracking, registering,
                     pendingDeposits, funds, sats, found, spent, touched, crossed, lost, loose>>
      /\ depositFlow' = "idle" /\ amount' = None /\ editing' = None
      /\ Journey!routeStep = "done"
    BY DEF Journey!reset, Journey!reads, Journey!outside, Journey!history
<1>2. Journey!mine' = Journey!mine /\ Journey!mine = None /\ depositFlow = "settled"
    BY <1>1 DEF Journey!mine, Journey!routeStep, Journey!stage, Journey!depositStage,
                JourneyInv, JourneyShapes
<1>3. JourneyShapes' /\ ReadsWereTrue'
    BY <1>1 DEF JourneyInv, JourneyShapes, ReadsWereTrue, Journey!Key
<1>4. TrackingIsOwn' /\ FlightHasRun' /\ RegisteringIsOwn' /\ SendingAsks'
    BY <1>1, <1>2
       DEF JourneyInv, RunsInv, TrackingIsOwn, FlightHasRun, RegisteringIsOwn, SendingAsks,
           Journey!sending, Journey!isInFlight, Journey!TERMINAL
<1>5. StartIsAlone' /\ LateIsConfirmed'
    BY <1>1, <1>2 DEF JourneyInv, RunsInv, StartIsAlone, LateIsConfirmed,
       RecordIsTrue, Alone, Late
<1>6. Journey!RecordIsKept'
    BY <1>1 DEF JourneyInv, Journey!RecordIsKept
<1> QED
    BY <1>3, <1>4, <1>5, <1>6 DEF JourneyInv, RunsInv

\* A confirmation only ever helps.
LEMMA BitcoinConfirms ==
    ASSUME JourneyInv, NEW a \in Accounts, Journey!confirms(a)
    PROVE  JourneyInv'
<1> USE JourneyConstants
<1>1. /\ UNCHANGED <<depositor, btcKey, answer, asked, amount, editing, depositFlow,
                     depositAction, starts, tracking, registering, funds, sats, found, spent,
                     touched, crossed, lost, loose, newDeviceOpen, txidCheck>>
      /\ pendingDeposits[a] # None
      /\ pendingDeposits' = [pendingDeposits EXCEPT ![a].confirmed = TRUE]
    BY DEF Journey!confirms, Journey!reads, Journey!form, Journey!runs, Journey!history
<1>2. PICK d : d = [pendingDeposits[a] EXCEPT !.confirmed = TRUE]
    OBVIOUS
<1>3. /\ d \in Deposits /\ d.step = pendingDeposits[a].step /\ d.confirmed
      /\ d.signed = pendingDeposits[a].signed
      /\ pendingDeposits' = [pendingDeposits EXCEPT ![a] = d]
    BY <1>1, <1>2 DEF Deposits, JourneyInv, JourneyShapes
<1>4. /\ pendingDeposits' \in [Accounts -> Deposits \cup {None}]
      /\ Journey!mine' = None <=> Journey!mine = None
      /\ Journey!mine # None /\ Journey!mine.confirmed => Journey!mine'.confirmed
      /\ \A b \in Accounts : RecordIsTrue(b)'
    BY <1>1, <1>3, RecordIsUpdated
<1>5. JourneyShapes' /\ ReadsWereTrue'
    BY <1>1, <1>4 DEF JourneyInv, JourneyShapes, ReadsWereTrue, Journey!Key
<1>6. TrackingIsOwn' /\ FlightHasRun' /\ RegisteringIsOwn' /\ SendingAsks'
    BY <1>1, <1>4
       DEF JourneyInv, RunsInv, TrackingIsOwn, FlightHasRun, RegisteringIsOwn, SendingAsks,
           Journey!sending, Journey!isInFlight
<1>7. StartIsAlone' /\ LateIsConfirmed'
    BY <1>1, <1>4 DEF JourneyInv, RunsInv, StartIsAlone, LateIsConfirmed, RecordIsTrue, Alone
<1>8. Journey!RecordIsKept'
    BY <1>1 DEF JourneyInv, Journey!RecordIsKept
<1> QED
    BY <1>5, <1>6, <1>7, <1>8 DEF JourneyInv, RunsInv

\* Another tab's deposit marks the account as touched.
LEMMA OtherTabSends ==
    ASSUME JourneyInv, NEW a \in Accounts, Journey!otherSends(a)
    PROVE  JourneyInv'
<1> USE JourneyConstants
<1>1. /\ UNCHANGED <<depositor, btcKey, answer, asked, amount, editing, depositFlow,
                     depositAction, starts, tracking, registering, funds, sats, found, spent,
                     crossed, lost, loose, newDeviceOpen, txidCheck>>
      /\ pendingDeposits[a] = None /\ touched' = touched \cup {a}
    BY DEF Journey!otherSends, Journey!reads, Journey!form, Journey!runs
<1>2. PICK d : d = [key |-> CHOOSE k \in BtcKeys : TRUE, sats |-> MIN_DEPOSIT_SATS,
                    step |-> "sent", confirmed |-> FALSE, signed |-> FALSE,
                    onChain |-> FALSE]
    OBVIOUS
<1>3. /\ d \in Deposits /\ d # None /\ d.step = "sent"
      /\ pendingDeposits' = [pendingDeposits EXCEPT ![a] = d]
  <2>1. pendingDeposits' = [pendingDeposits EXCEPT ![a] =
                     [key |-> CHOOSE k \in BtcKeys : TRUE, sats |-> MIN_DEPOSIT_SATS,
                      step |-> "sent", confirmed |-> FALSE, signed |-> FALSE,
                      onChain |-> FALSE]]
      BY Zenon DEF Journey!otherSends
  <2>2. (CHOOSE k \in BtcKeys : TRUE) \in BtcKeys
      OBVIOUS
  <2>3. d \in Deposits /\ d.step = "sent"
      BY <1>2, <2>2 DEF Deposits
  <2> QED
      BY <1>2, <2>1, <2>3
<1>4. /\ pendingDeposits'[a] = d
      /\ \A b \in Accounts : b # a => pendingDeposits'[b] = pendingDeposits[b]
      /\ a # depositor => Journey!mine' = Journey!mine
      /\ a = depositor => Journey!mine' = d
    BY <1>1, <1>3 DEF Journey!mine, JourneyInv, JourneyShapes
<1>5. JourneyShapes' /\ ReadsWereTrue'
    BY <1>1, <1>3 DEF JourneyInv, JourneyShapes, ReadsWereTrue, Journey!Key
<1>6. TrackingIsOwn' /\ FlightHasRun' /\ SendingAsks'
    BY <1>1, <1>3, <1>4
       DEF JourneyInv, RunsInv, TrackingIsOwn, FlightHasRun, SendingAsks, Journey!sending,
           Journey!isInFlight
<1>7. RegisteringIsOwn'
    BY <1>1, <1>3, <1>4 DEF JourneyInv, RunsInv, RegisteringIsOwn
<1>8. StartIsAlone' /\ LateIsConfirmed'
    BY <1>1, <1>3, <1>4 DEF JourneyInv, RunsInv, StartIsAlone, LateIsConfirmed, RecordIsTrue, Alone
<1>9. Journey!RecordIsKept'
    BY <1>1 DEF JourneyInv, Journey!RecordIsKept
<1> QED
    BY <1>5, <1>6, <1>7, <1>8, <1>9 DEF JourneyInv, RunsInv

\* A page that made its first reads.
LEMMA JourneyBegins ==
    ASSUME Journey!Init
    PROVE  JourneyInv
<1> USE JourneyConstants
<1>1. /\ depositor = (CHOOSE a \in Accounts : TRUE) /\ btcKey = (CHOOSE k \in BtcKeys : TRUE)
      /\ asked = {} /\ found = {depositor}
      /\ sats = [k \in BtcKeys |-> MaxSats] /\ amount \in {None, MIN_DEPOSIT_SATS}
      /\ editing = None /\ ~newDeviceOpen /\ txidCheck = "idle"
      /\ depositFlow = "idle" /\ depositAction = None
      /\ starts = {} /\ tracking = FALSE /\ registering = {}
      /\ pendingDeposits = [a \in Accounts |-> None]
      /\ loose = FALSE /\ crossed = FALSE /\ lost = {}
    BY DEF Journey!Init
<1>2. depositor \in Accounts /\ btcKey \in BtcKeys
    BY <1>1
<1> DEFINE First(f, r) == CASE r = "network" -> [key |-> depositor, value |-> "right"]
                            [] r = "funding" -> [key |-> depositor, value |-> f]
                            [] r = "find" -> [key |-> depositor, value |-> "found"]
                            [] r = "balance" -> [key |-> btcKey, value |-> MaxSats]
<1>3. PICK f \in {"ok", "unfunded"} :
          /\ funds = [a \in Accounts |-> IF a = depositor THEN f ELSE "low"]
          /\ answer = [r \in Journey!Reads |-> First(f, r)]
    BY DEF Journey!Init
<1>4. /\ First(f, "network") = [key |-> depositor, value |-> "right"]
      /\ First(f, "funding") = [key |-> depositor, value |-> f]
      /\ First(f, "find") = [key |-> depositor, value |-> "found"]
      /\ First(f, "balance") = [key |-> btcKey, value |-> MaxSats]
    OBVIOUS
<1> HIDE DEF First
<1>5. \A r \in Journey!Reads : First(f, r) \in Answers /\ answer[r] = First(f, r)
    BY <1>2, <1>3, <1>4 DEF Answers, Said, Journey!Reads
<1>6. answer \in [Journey!Reads -> Answers \cup {None}]
    BY <1>3, <1>5
<1>7. JourneyShapes
    BY <1>1, <1>2, <1>3, <1>6 DEF JourneyShapes, Journey!Key
<1>8. ReadsWereTrue
  <2>1. /\ answer["find"].key = depositor
        /\ answer["funding"].key = depositor /\ answer["funding"].value = f
        /\ answer["balance"].key = btcKey /\ answer["balance"].value = MaxSats
      BY <1>4, <1>5 DEF Journey!Reads
  <2>2. funds[depositor] = f /\ f # "low" /\ sats[btcKey] = MaxSats
      BY <1>1, <1>2, <1>3
  <2>3. answer["find"].key \in found /\ sats[btcKey] >= MaxSats
      BY <1>1, <2>1, <2>2
  <2> QED
      BY <1>2, <2>1, <2>2, <2>3 DEF ReadsWereTrue
<1>9. RunsInv
    BY <1>1, <1>2
       DEF RunsInv, TrackingIsOwn, FlightHasRun, RegisteringIsOwn, SendingAsks, StartIsAlone,
           LateIsConfirmed, RecordIsTrue, Late, Journey!sending, Journey!isInFlight, Journey!TERMINAL
<1> QED
    BY <1>1, <1>7, <1>8, <1>9 DEF JourneyInv, Journey!RecordIsKept

\* Every step of the page keeps the invariant.
LEMMA JourneyGoesOn ==
    ASSUME JourneyInv, Journey!Next
    PROVE  JourneyInv'
<1>1. CASE \E a \in Accounts \cup {None} : Journey!switchAccount(a)
    BY <1>1, AccountSwitchesOnPage
<1>2. CASE \/ \E k \in BtcKeys : Journey!switchKey(k)
           \/ \E r \in Journey!Reads : Journey!recheck(r)
           \/ Journey!fund \/ Journey!ackLow \/ Journey!depositLock
    BY <1>2, ReadsBegin
<1>3. CASE Journey!loadFunding \/ Journey!discoverPositions \/ Journey!getNetwork
             \/ Journey!loadBalance \/ Journey!readFails
    BY <1>3, ReadAnswers
<1>4. CASE \/ \E v \in 1..MaxSats : Journey!setAmount(v)
           \/ Journey!submitAmount \/ \E t \in {"amount", "stellar", "bitcoin"} : Journey!edit(t)
           \/ Journey!finishEdit \/ Journey!setAck
    BY <1>4, FormIsFilled
<1>5. CASE Journey!openPanel \/ Journey!cancelPanel \/ Journey!checkTxid
    BY <1>5, PanelTurns
<1>6. CASE Journey!send \/ Journey!confirmTxid
    BY <1>6, DepositIsSent, TxidIsSaved
<1>7. CASE \E s \in starts : Journey!sent(s) \/ Journey!sendFails(s) \/ Journey!saved(s)
                               \/ Journey!saveFails(s)
    BY <1>7, StartEnds
<1>8. CASE Journey!located \/ Journey!counted \/ Journey!readied \/ Journey!trackFails
             \/ Journey!again
    BY <1>8, DepositIsTracked
<1>9. CASE Journey!active \/ \E a \in Accounts : Journey!registered(a) \/ Journey!otherRegisters(a)
    BY <1>9, DepositIsOver
<1>10. CASE Journey!register \/ Journey!reset
    BY <1>10, RegistrationBegins, PageIsReset
<1>11. CASE \E a \in Accounts : \/ Journey!trails(a) \/ Journey!checks(a)
                                \/ Journey!signs(a) \/ Journey!registerFails(a)
                                \/ Journey!confirms(a) \/ Journey!otherSends(a)
    BY <1>11, AbortedRunTrails, RegistrationSigns, RegistrationFails, BitcoinConfirms, OtherTabSends
<1> QED
    BY <1>1, <1>2, <1>3, <1>4, <1>5, <1>6, <1>7, <1>8, <1>9, <1>10, <1>11 DEF Journey!Next

\* useLiveJourney.ts, steps.tsx: over any number of acts, answers and failures,
\* the deposit page offers to send only what the connected wallets were read to
\* allow, replaces no deposit's record, says a wallet is asked only while one is,
\* and offers to register what Bitcoin has confirmed, where accounts do not change
\* under a run, one tab works on the account and no aborted tracker is heard.
THEOREM DepositStaysOrderly == MCSpec => []DepositIsOrderly
<1> DEFINE MCInv == part = "journey" => JourneyInv
<1>1. MCInit => MCInv
    BY JourneyBegins DEF MCInit
<1>2. MCInv /\ [MCNext]_all => MCInv'
  <2> SUFFICES ASSUME MCInv, [MCNext]_all, part' = "journey" PROVE JourneyInv'
      OBVIOUS
  <2>1. CASE JourneyNext
      BY <2>1, JourneyGoesOn DEF JourneyNext
  <2>2. CASE part = part' /\ UNCHANGED journeyVars
    <3>1. JourneyInv
        BY <2>2
    <3>2. UNCHANGED <<depositor, btcKey, answer, asked, amount, editing, depositFlow,
                      depositAction, starts, tracking, registering, pendingDeposits, funds, sats,
                      found, spent, touched, crossed, lost, loose, newDeviceOpen, txidCheck>>
        BY <2>2 DEF journeyVars
    <3>3. RunsInv' /\ Journey!RecordIsKept'
        BY <3>1, <3>2, RunsStay
    <3>4. JourneyShapes' /\ ReadsWereTrue'
        BY <3>1, <3>2 DEF JourneyInv, JourneyShapes, ReadsWereTrue, Journey!Key
    <3> QED
        BY <3>3, <3>4 DEF JourneyInv
  <2> QED
      BY <2>1, <2>2 DEF MCNext, LoanNext, ReceiveNext, PanelsNext, WalletsNext, TestKeyNext,
                        FundsNext, all
<1>3. MCInv => DepositIsOrderly
    BY JourneyHolds DEF DepositIsOrderly
<1> QED
    BY <1>1, <1>2, <1>3, PTL DEF MCSpec

-----------------------------------------------------------------------------
(* The Stellar session (Wallets).                                             *)

\* The kit is asked and has an account only while the page uses it.
KitFits ==
    /\ asking # None => backend = "kit" /\ kitAddress = None
    /\ asking = "restore" => remembered = "kit"
    /\ kitAddress # None => backend = "kit" /\ remembered = "kit" /\ kitHeld \in {None, kitAddress}

\* Pollar's session is the page's, unless a logout was lost.
PollarFits ==
    /\ user \in Accounts
    /\ auth \in {"unready", "idle", "working", "error", "authenticated"}
    /\ auth \in {"idle", "working", "error"} => ~session
    /\ auth = "authenticated" => session
    /\ auth = "working" => backend = "pollar"
    /\ session /\ ~stranded => backend = "pollar"
    /\ auth = "unready" /\ backend = "pollar" => remembered = "pollar"
    /\ told /\ backend = "pollar" /\ auth = "authenticated" =>
           remembered = "pollar" /\ (custody # "none" \/ stranded)

\* Who disconnected has nothing that could come back.
OutIsOut ==
    wanted = "out" => /\ backend = None /\ remembered = None
                      /\ kitAddress = None /\ asking = None

\* A signature.
IsSig(s) ==
    s = [at |-> s.at, for |-> s.for, by |-> s.by, custody |-> s.custody, as |-> s.as,
         left |-> s.left, end |-> s.end]

\* While it is not yet asked for and the user has not left, the wallet it was
\* started with is still there.
StarterIsThere ==
    sig.at = "check" /\ sig.left # TRUE =>
        \/ sig.by = "kit" /\ kitAddress # None /\ kitAddress = sig.for
        \/ sig.by = "pollar" /\ auth = "authenticated" /\ user = sig.for

\* It was asked of the account it was started for, or the user has left.
AskedStarter(s) ==
    /\ s.at = "prompt" /\ s.left # TRUE => s.as = s.for
    /\ s.end = "signed" /\ s.left # TRUE => s.as = s.for
    /\ s.at \in {"none", "check", "prompt"} => s.end = None

SessionInv ==
    KitFits /\ PollarFits /\ OutIsOut /\ IsSig(sig) /\ StarterIsThere /\ AskedStarter(sig)

\* The wallets' names are not mistaken for none.
LEMMA WalletsHaveNames ==
    /\ None # "kit" /\ None # "pollar" /\ None # "restore" /\ None # "modal"
    /\ None # "signed" /\ None \notin Accounts
    BY WalletsAssumption

LEMMA SessionHolds ==
    ASSUME SessionInv
    PROVE  Wallets!SessionIsSteady /\ Wallets!SignedByStarter
    BY WalletsHaveNames
    DEF SessionInv, KitFits, PollarFits, OutIsOut, Wallets!SessionIsSteady,
        Wallets!SignedByStarter, Wallets!address, Wallets!pollarAddress, Wallets!underway,
        Wallets!offered, AskedStarter

\* Leaving is noted on the signature under way.
LEMMA LeavingIsNoted ==
    ASSUME IsSig(sig), AskedStarter(sig), Wallets!Left
    PROVE  IsSig(sig') /\ AskedStarter(sig') /\ sig'.left = TRUE
<1>1. PICK a, w, b, r, s, l, e :
        sig = [at |-> a, for |-> w, by |-> b, custody |-> r, as |-> s, left |-> l, end |-> e]
    BY DEF IsSig
<1>2. PICK n : n = [sig EXCEPT !.left = TRUE]
    OBVIOUS
<1>3. n = [at |-> a, for |-> w, by |-> b, custody |-> r, as |-> s, left |-> TRUE, end |-> e]
    BY <1>1, <1>2
<1>4. sig' = n
    BY <1>2 DEF Wallets!Left
<1> QED
    BY <1>1, <1>3, <1>4 DEF IsSig, AskedStarter

\* While nobody leaves, what a signature is asked for is what it was started for.
LEMMA SignatureKeepsStarter ==
    ASSUME SessionInv, Wallets!sign \/ Wallets!preflightSign \/ Wallets!answered
    PROVE  SessionInv'
<1>1. /\ backend' = backend /\ remembered' = remembered /\ kitAddress' = kitAddress
      /\ kitHeld' = kitHeld /\ asking' = asking /\ auth' = auth /\ custody' = custody
      /\ session' = session /\ user' = user /\ told' = told /\ wanted' = wanted
      /\ stranded' = stranded
    BY DEF Wallets!sign, Wallets!preflightSign, Wallets!answered, Wallets!rest, Wallets!page,
           Wallets!pollarSide, Wallets!kitSide
<1>2. PICK a, w, b, r, s, l, e :
        sig = [at |-> a, for |-> w, by |-> b, custody |-> r, as |-> s, left |-> l, end |-> e]
    BY DEF SessionInv, IsSig
<1>3. IsSig(sig') /\ StarterIsThere' /\ AskedStarter(sig')
  <2>1. CASE Wallets!sign
    <3>1. \/ backend = "pollar" /\ auth = "authenticated" /\ Wallets!address = user
          \/ backend = "kit" /\ kitAddress # None /\ Wallets!address = kitAddress
        BY <2>1, WalletsHaveNames DEF Wallets!sign, Wallets!address, Wallets!pollarAddress,
           SessionInv, KitFits
    <3>2. PICK f : f = Wallets!address
        OBVIOUS
    <3>3. PICK o : o = Wallets!NoSig
        OBVIOUS
    <3>4. o = [at |-> "none", for |-> None, by |-> None, custody |-> None, as |-> None,
               left |-> FALSE, end |-> None]
        BY <3>3 DEF Wallets!NoSig
    <3>5. PICK n : n = [o EXCEPT !.at = "check", !.for = f, !.by = backend,
                                 !.custody = custody]
        OBVIOUS
    <3>6. n = [at |-> "check", for |-> f, by |-> backend, custody |-> custody,
               as |-> None, left |-> FALSE, end |-> None]
        BY <3>4, <3>5
    <3>7. sig' = n
        BY <2>1, <3>2, <3>3, <3>5, Zenon DEF Wallets!sign
    <3>8. IsSig(sig') /\ AskedStarter(sig')
        BY <3>6, <3>7, WalletsHaveNames DEF IsSig, AskedStarter
    <3> QED
        BY <1>1, <3>1, <3>2, <3>6, <3>7, <3>8 DEF StarterIsThere
  <2>2. ASSUME NEW x, NEW n, n = [sig EXCEPT !.at = "done", !.end = x], sig' = n,
               x # "signed" \/ a = "prompt"
        PROVE  IsSig(sig') /\ StarterIsThere' /\ AskedStarter(sig')
    <3>1. n = [at |-> "done", for |-> w, by |-> b, custody |-> r, as |-> s, left |-> l,
               end |-> x]
        BY <1>2, <2>2
    <3>2. a = "prompt" /\ l # TRUE => s = w
        BY <1>2 DEF SessionInv, AskedStarter
    <3>3. AskedStarter(n)
      <4>1. n.at = "done" /\ n.end = x /\ n.as = s /\ n.for = w
          BY <3>1
      <4>2. n.left = l
          BY <3>1, Zenon
      <4>3. n.at # "prompt" /\ n.at \notin {"none", "check", "prompt"}
          BY <4>1
      <4> QED
          BY <2>2, <3>2, <4>1, <4>2, <4>3, Zenon DEF AskedStarter
    <3>4. IsSig(n) /\ n.at # "check"
        BY <3>1 DEF IsSig
    <3> QED
        BY <2>2, <3>3, <3>4 DEF StarterIsThere
  <2>3. CASE Wallets!preflightSign
    <3>1. a = "check"
        BY <1>2, <2>3 DEF Wallets!preflightSign
    <3>2. CASE Wallets!signer # None /\ sig' = [sig EXCEPT !.at = "prompt", !.as = Wallets!signer]
      <4>1. PICK g : g = Wallets!signer
          OBVIOUS
      <4>2. PICK n : n = [sig EXCEPT !.at = "prompt", !.as = g]
          OBVIOUS
      <4>3. n = [at |-> "prompt", for |-> w, by |-> b, custody |-> r, as |-> g, left |-> l,
                 end |-> e]
          BY <1>2, <4>2
      <4>4. sig' = n
          BY <3>2, <4>1, <4>2, Zenon
      <4>5. l # TRUE => g = w
          BY <1>2, <3>1, <3>2, <4>1
          DEF SessionInv, StarterIsThere, KitFits, Wallets!signer
      <4>6. e = None
          BY <1>2, <3>1 DEF SessionInv, AskedStarter
      <4> QED
          BY <4>3, <4>4, <4>5, <4>6 DEF IsSig, StarterIsThere, AskedStarter
    <3>3. CASE \E x : x # "signed" /\ Wallets!Ended(x)
      <4>1. PICK x : x # "signed" /\ sig' = [sig EXCEPT !.at = "done", !.end = x]
          BY <3>3, Zenon DEF Wallets!Ended
      <4>2. PICK n : n = [sig EXCEPT !.at = "done", !.end = x]
          OBVIOUS
      <4>3. sig' = n
          BY <4>1, <4>2, Zenon
      <4> QED
          BY <2>2, <4>1, <4>2, <4>3, Zenon
    <3> QED
        BY <2>3, <3>2, <3>3 DEF Wallets!preflightSign
  <2>4. CASE Wallets!answered
    <3>1. a = "prompt" /\ \E x : Wallets!Ended(x)
        BY <1>2, <2>4 DEF Wallets!answered
    <3>2. PICK x : sig' = [sig EXCEPT !.at = "done", !.end = x]
        BY <3>1, Zenon DEF Wallets!Ended
    <3>3. PICK n : n = [sig EXCEPT !.at = "done", !.end = x]
        OBVIOUS
    <3>4. sig' = n
        BY <3>2, <3>3, Zenon
    <3> QED
        BY <2>2, <3>1, <3>3, <3>4, Zenon
  <2> QED
      BY <2>1, <2>3, <2>4
<1> QED
    BY <1>1, <1>3 DEF SessionInv, KitFits, PollarFits, OutIsOut

\* A disconnect of the kit ends late: the kit may lose the account the page has.
LEMMA KitLosesAccount ==
    ASSUME SessionInv, Wallets!kitDropped
    PROVE  SessionInv'
<1>1. /\ backend' = backend /\ remembered' = remembered /\ kitAddress' = kitAddress
      /\ asking' = asking /\ auth' = auth /\ custody' = custody /\ session' = session
      /\ user' = user /\ told' = told /\ sig' = sig /\ wanted' = wanted
      /\ stranded' = stranded /\ kitHeld' \in {None, kitHeld}
    BY DEF Wallets!kitDropped, Wallets!page, Wallets!pollarSide
<1> QED
    BY <1>1 DEF SessionInv, KitFits, PollarFits, OutIsOut, StarterIsThere

\* The effect on Pollar's session.
LEMMA EffectRuns ==
    ASSUME SessionInv, Wallets!sync
    PROVE  SessionInv'
<1>1. /\ kitAddress' = kitAddress /\ kitHeld' = kitHeld /\ asking' = asking
      /\ auth' = auth /\ session' = session /\ user' = user /\ sig' = sig /\ wanted' = wanted /\ stranded' = stranded
    BY DEF Wallets!sync, Wallets!kitSide
<1>2. CASE backend # "pollar" \/ auth \in {"unready", "working"}
  <2>1. backend' = backend /\ remembered' = remembered /\ custody' = custody
      BY <1>2 DEF Wallets!sync
  <2> QED
      BY <1>1, <1>2, <2>1 DEF SessionInv, KitFits, PollarFits, OutIsOut,
         StarterIsThere
<1>3. CASE backend = "pollar" /\ auth = "authenticated"
  <2>1. backend' = backend /\ remembered' = "pollar" /\ custody' # "none"
      BY <1>3 DEF Wallets!sync
  <2> QED
      BY <1>1, <1>3, <2>1, WalletsHaveNames DEF SessionInv, KitFits, PollarFits, OutIsOut,
         StarterIsThere
<1>4. CASE backend = "pollar" /\ auth \in {"idle", "error"}
  <2>1. \/ backend' = None /\ remembered' = None
        \/ backend' = backend /\ remembered' = remembered
      BY <1>4 DEF Wallets!sync
  <2> QED
      BY <1>1, <1>4, <2>1, WalletsHaveNames DEF SessionInv, KitFits, PollarFits, OutIsOut,
         StarterIsThere
<1> QED
    BY <1>2, <1>3, <1>4 DEF SessionInv, PollarFits

\* The kit answers, when the page loads or from its modal.
LEMMA KitAnswers ==
    ASSUME SessionInv, Wallets!restored \/ Wallets!chosen
    PROVE  SessionInv'
<1>1. /\ asking \in {"restore", "modal"} /\ asking' = None /\ told' = FALSE /\ auth' = auth
      /\ user' = user
      /\ session' = session /\ sig' = sig /\ wanted' = wanted /\ stranded' = stranded
      /\ \/ kitAddress' = kitHeld' /\ backend' = backend
            /\ (remembered' = "kit" \/ (asking = "restore" /\ remembered' = remembered))
         \/ backend' = None /\ kitAddress' = kitAddress /\ kitHeld' \in {kitHeld}
    BY DEF Wallets!restored, Wallets!chosen, Wallets!Effects, Wallets!quietly,
           Wallets!pollarSide, Wallets!kitSide
<1> QED
    BY <1>1, WalletsHaveNames DEF SessionInv, KitFits, PollarFits, OutIsOut,
         StarterIsThere

\* A sign-in begins, with the kit or with Pollar, where no wallet is connected.
LEMMA SignInBegins ==
    ASSUME SessionInv, Wallets!connect \/ Wallets!startPollar
    PROVE  SessionInv'
<1>1. /\ Wallets!address = None /\ ~Wallets!connecting /\ Wallets!walletsKnown /\ told
      /\ told' = FALSE /\ wanted' = "in" /\ remembered' = remembered
      /\ kitAddress' = kitAddress /\ kitHeld' = kitHeld /\ session' = session
      /\ user' = user /\ sig' = sig
      /\ stranded' = stranded /\ custody' = custody
    BY DEF Wallets!connect, Wallets!startPollar, Wallets!Effects, Wallets!pollarSide,
           Wallets!kitSide
<1>2. kitAddress = None /\ asking = None
  <2>1. CASE asking # None
      BY <1>1, <2>1, WalletsHaveNames
      DEF SessionInv, KitFits, Wallets!connecting, Wallets!walletsKnown, Wallets!restoring
  <2>2. CASE kitAddress # None
      BY <1>1, <2>2, WalletsHaveNames DEF SessionInv, KitFits, Wallets!address
  <2> QED
      BY <2>1, <2>2
<1>3. CASE Wallets!connect
  <2>1. backend' = "kit" /\ asking' = "modal" /\ auth' = auth
      BY <1>3 DEF Wallets!connect, Wallets!pollarSide
  <2>2. auth # "working"
      BY <1>1 DEF SessionInv, PollarFits, Wallets!connecting, Wallets!pollarConnecting
  <2>3. session => stranded
      BY <1>1, WalletsHaveNames
      DEF SessionInv, PollarFits, Wallets!address, Wallets!pollarAddress,
          Wallets!connecting, Wallets!pollarConnecting
  <2> QED
      BY <1>1, <1>2, <2>1, <2>2, <2>3, WalletsHaveNames
      DEF SessionInv, KitFits, PollarFits, OutIsOut,
         StarterIsThere
<1>4. CASE Wallets!startPollar
  <2>1. backend' = "pollar" /\ asking' = asking /\ auth' = "working" /\ ~session
      BY <1>4 DEF Wallets!startPollar, Wallets!offered, SessionInv, PollarFits
  <2> QED
      BY <1>1, <1>2, <2>1, WalletsHaveNames DEF SessionInv, KitFits, PollarFits, OutIsOut,
         StarterIsThere
<1> QED
    BY <1>3, <1>4

\* Pollar answers: to the load, the sign-in, a cancelled one, the creation of a
\* wallet, or with the end of its session.
LEMMA PollarAnswers ==
    ASSUME SessionInv,
           \/ Wallets!ready \/ Wallets!signedIn \/ Wallets!cancel \/ Wallets!createWallet
           \/ Wallets!expires
    PROVE  SessionInv'
<1>1. /\ backend' = backend /\ remembered' = remembered /\ kitAddress' = kitAddress
      /\ kitHeld' = kitHeld /\ asking' = asking /\ wanted' = wanted
      /\ (user' = user \/ (auth = "working" /\ user' \in Accounts))
    BY DEF Wallets!ready, Wallets!signedIn, Wallets!cancel, Wallets!createWallet,
           Wallets!expires, Wallets!page, Wallets!quietly, Wallets!kitSide
<1>2. PollarFits'
  <2>1. CASE Wallets!ready \/ Wallets!signedIn \/ Wallets!cancel \/ Wallets!expires
    <3>1. told' = FALSE /\ stranded' = stranded
        BY <2>1 DEF Wallets!ready, Wallets!signedIn, Wallets!cancel, Wallets!expires,
                    Wallets!Effects, Wallets!quietly
    <3>2. \/ /\ auth = "unready" /\ session' = session
             /\ auth' = IF session THEN "authenticated" ELSE "idle"
          \/ /\ auth = "working" /\ auth' = "authenticated" /\ session' = TRUE
          \/ /\ auth = "working" /\ auth' \in {"error", "idle"} /\ session' = session
          \/ /\ session /\ session' = FALSE
             /\ auth' = IF auth = "authenticated" THEN "idle" ELSE auth
        BY <2>1 DEF Wallets!ready, Wallets!signedIn, Wallets!cancel, Wallets!expires
    <3> QED
        BY <1>1, <3>1, <3>2 DEF SessionInv, PollarFits
  <2>2. CASE Wallets!createWallet
    <3>1. /\ auth' = auth /\ session' = session /\ told /\ custody = "creating"
          /\ (stranded => stranded') /\ (custody' = "none" => stranded')
        BY <2>2 DEF Wallets!createWallet
    <3> QED
        BY <1>1, <3>1 DEF SessionInv, PollarFits
  <2> QED
      BY <2>1, <2>2
<1>3. IsSig(sig') /\ StarterIsThere' /\ AskedStarter(sig')
  <2>1. CASE Wallets!ready \/ Wallets!signedIn \/ Wallets!cancel
    <3>1. sig' = sig /\ auth \in {"unready", "working"}
        BY <2>1 DEF Wallets!ready, Wallets!signedIn, Wallets!cancel, Wallets!quietly
    <3> QED
        BY <1>1, <3>1 DEF SessionInv, StarterIsThere
  <2>2. CASE Wallets!createWallet
    <3>1. sig' = sig /\ auth' = auth /\ user' = user
        BY <2>2 DEF Wallets!createWallet
    <3> QED
        BY <1>1, <3>1 DEF SessionInv, StarterIsThere
  <2>3. CASE Wallets!expires
    <3>1. sig.by = "pollar" => Wallets!Left
        BY <2>3 DEF Wallets!expires
    <3>2. sig.by # "pollar" => sig' = sig
        BY <2>3 DEF Wallets!expires
    <3>3. CASE sig.by = "pollar"
        BY <3>1, <3>3, LeavingIsNoted DEF SessionInv, StarterIsThere
    <3>4. CASE sig.by # "pollar"
        BY <1>1, <3>2, <3>4 DEF SessionInv, StarterIsThere
    <3> QED
        BY <3>3, <3>4
  <2> QED
      BY <2>1, <2>2, <2>3
<1> QED
    BY <1>1, <1>2, <1>3 DEF SessionInv, KitFits, OutIsOut

\* Disconnecting forgets the wallet, even when the logout is lost.
LEMMA DisconnectForgets ==
    ASSUME SessionInv, Wallets!disconnect
    PROVE  SessionInv'
<1>1. /\ Wallets!address # None /\ kitAddress' = None /\ backend' = None
      /\ remembered' = None /\ wanted' = "out" /\ told' = FALSE /\ asking' = asking
      /\ Wallets!Left /\ user' = user
    BY DEF Wallets!disconnect, Wallets!forget, Wallets!Effects, Wallets!pollarSide
<1>2. asking = None
    BY <1>1, WalletsHaveNames DEF SessionInv, KitFits, Wallets!address
<1>3. \/ backend = "pollar" /\ auth' = "idle" /\ session' = FALSE /\ stranded' = stranded
      \/ /\ backend = "pollar" /\ stranded' = TRUE /\ auth' = auth /\ session' = session
      \/ /\ backend # "pollar" /\ auth' = auth /\ session' = session /\ stranded' = stranded
    BY DEF Wallets!disconnect, Wallets!pollarSide
<1>4. backend = "pollar" => auth = "authenticated"
    BY <1>1 DEF Wallets!address, Wallets!pollarAddress
<1>5. IsSig(sig') /\ StarterIsThere' /\ AskedStarter(sig')
    BY <1>1, LeavingIsNoted DEF SessionInv, StarterIsThere
<1>6. KitFits' /\ PollarFits' /\ OutIsOut'
    BY <1>1, <1>2, <1>3, <1>4, WalletsHaveNames DEF SessionInv, KitFits, PollarFits, OutIsOut
<1> QED
    BY <1>5, <1>6 DEF SessionInv

\* A reload starts from what the browser remembers.
LEMMA PageReloads ==
    ASSUME SessionInv, Wallets!reload
    PROVE  SessionInv'
<1>1. /\ told /\ backend' = remembered /\ kitAddress' = None /\ auth' = "unready"
      /\ asking' = IF remembered = "kit" THEN "restore" ELSE None
      /\ told' = FALSE /\ sig' = Wallets!NoSig /\ remembered' = remembered
      /\ user' = user
      /\ session' = session /\ wanted' = wanted /\ stranded' = stranded
    BY DEF Wallets!reload
<1>2. IsSig(sig') /\ AskedStarter(sig') /\ StarterIsThere'
    BY <1>1, WalletsHaveNames DEF Wallets!NoSig, IsSig, AskedStarter, StarterIsThere
<1> QED
    BY <1>1, <1>2, WalletsHaveNames DEF SessionInv, KitFits, PollarFits, OutIsOut,
         StarterIsThere

LEMMA SessionBegins ==
    ASSUME Wallets!Init
    PROVE  SessionInv
<1>1. IsSig(sig) /\ AskedStarter(sig) /\ StarterIsThere
    BY WalletsHaveNames DEF Wallets!Init, Wallets!NoSig, IsSig, AskedStarter, StarterIsThere
<1> QED
    BY <1>1, WalletsHaveNames DEF Wallets!Init, SessionInv, KitFits, PollarFits, OutIsOut

LEMMA SessionGoesOn ==
    ASSUME SessionInv, Wallets!Next
    PROVE  SessionInv'
    BY EffectRuns, KitAnswers, KitLosesAccount, SignInBegins, PollarAnswers, DisconnectForgets,
       PageReloads, SignatureKeepsStarter DEF Wallets!Next

-----------------------------------------------------------------------------
(* The payments of a test key (TestKey).                                      *)

\* The instance's own copies of the library's operators.
LEMMA SameSize ==
    ASSUME NEW S
    PROVE  TestKey!Cardinality(S) = Cardinality(S)
    BY DEF TestKey!Cardinality, Cardinality

LEMMA SameTotal ==
    ASSUME NEW n
    PROVE  TestKey!TotalOf(n) = Total(coins, TestKey!largest(n))
    BY DEF TestKey!TotalOf, Total, TestKey!MapThenSumSet, MapThenSumSet,
           TestKey!MapThenFoldSet, MapThenFoldSet

\* A purse: coins that are worth something.
Purse == coins = [i \in DOMAIN coins |-> coins[i]]
         /\ (\E N \in Nat : DOMAIN coins = 1..N)
         /\ \A i \in DOMAIN coins : coins[i] \in Nat

LEMMA PurseHasCoins ==
    ASSUME Purse
    PROVE  /\ Len(coins) \in Nat /\ DOMAIN coins = 1..Len(coins)
           /\ coins \in [1..Len(coins) -> Int]
           /\ IsFiniteSet(1..Len(coins)) /\ Cardinality(1..Len(coins)) = Len(coins)
<1>1. PICK N \in Nat : DOMAIN coins = 1..N
    BY DEF Purse
<1>2. coins \in [1..N -> Int]
    BY <1>1 DEF Purse
<1>3. coins \in Seq(Int)
    BY <1>2
<1>4. Len(coins) = N
    BY <1>1, <1>3
<1> QED
    BY <1>1, <1>2, <1>4, FS_Interval

\* The coins that come first are a part of the purse, n of them at most, and all
\* of them when n is the number of coins.
LEMMA FirstCoins ==
    ASSUME Purse, NEW n \in Nat
    PROVE  /\ TestKey!largest(n) \in SUBSET (1..Len(coins))
           /\ Cardinality(TestKey!largest(n)) <= n
           /\ n = Len(coins) => TestKey!largest(n) = 1..Len(coins)
<1> DEFINE D == 1..Len(coins)
           Before == [i \in D |-> {j \in D : TestKey!ahead(j, i)}]
<1>1. /\ Len(coins) \in Nat /\ DOMAIN coins = D /\ IsFiniteSet(D)
      /\ Cardinality(D) = Len(coins)
    BY PurseHasCoins
<1>2. \A i \in D : coins[i] \in Nat
    BY <1>1 DEF Purse
<1>3. TestKey!largest(n) = {i \in D : Cardinality(Before[i]) < n}
    BY <1>1, SameSize DEF TestKey!largest
<1>4. Before \in [D -> SUBSET D] /\ \A i \in D : i \notin Before[i]
    BY <1>1, <1>2 DEF TestKey!ahead
<1>5. \A i, j \in D : i # j => i \in Before[j] \/ j \in Before[i]
    BY <1>1, <1>2 DEF TestKey!ahead
<1>6. ASSUME NEW i \in D, NEW j \in D, i \in Before[j] PROVE Before[i] \subseteq Before[j]
  <2> SUFFICES ASSUME NEW k \in D, TestKey!ahead(k, i) PROVE TestKey!ahead(k, j)
      OBVIOUS
  <2>1. TestKey!ahead(i, j) /\ coins[i] \in Nat /\ coins[j] \in Nat /\ coins[k] \in Nat
      BY <1>2, <1>6
  <2>2. i \in Int /\ j \in Int /\ k \in Int
      BY <1>1
  <2> QED
      BY <2>1, <2>2 DEF TestKey!ahead
<1>7. ASSUME NEW i \in D PROVE Cardinality(Before[i]) < Len(coins)
    BY <1>1, <1>4, PartIsSmaller
<1> HIDE DEF Before
<1>8. Cardinality(TestKey!largest(n)) <= n
    BY <1>1, <1>3, <1>4, <1>5, <1>6, FirstAreFew
<1> QED
    BY <1>1, <1>3, <1>7, <1>8

\* The numbers a payment is made of.
LEMMA TotalsAreNumbers ==
    ASSUME Purse, NEW n \in Nat
    PROVE  TestKey!TotalOf(n) \in Int
<1>1. IsFiniteSet(1..Len(coins)) /\ coins \in [1..Len(coins) -> Int]
    BY PurseHasCoins
<1>2. \A i \in 1..Len(coins) : coins[i] >= 0
    BY PurseHasCoins DEF Purse
<1> QED
    BY <1>1, <1>2, SameTotal, FirstCoins, PartAddsUp

\* Where no coin is lost to its own fee, all coins pay for at least as much as some.
LEMMA MoreCoinsPayMore ==
    ASSUME Purse, \A i \in DOMAIN coins : coins[i] >= 2, NEW n \in Nat, n <= Len(coins)
    PROVE  TestKey!TotalOf(Len(coins)) - Len(coins) >= TestKey!TotalOf(n) - n
<1> DEFINE D == 1..Len(coins)
           A == TestKey!largest(n)
<1>1. /\ Len(coins) \in Nat /\ DOMAIN coins = D /\ coins \in [D -> Int]
      /\ IsFiniteSet(D) /\ Cardinality(D) = Len(coins)
    BY PurseHasCoins
<1>2. A \in SUBSET D /\ Cardinality(A) <= n
    BY FirstCoins
<1>3. TestKey!TotalOf(Len(coins)) = Total(coins, D) /\ TestKey!TotalOf(n) = Total(coins, A)
    BY <1>1, SameTotal, FirstCoins
<1>4. Cardinality(A) \in Nat
    BY <1>1, <1>2, FS_Subset, FS_CardinalityType
<1> HIDE DEF A, D
<1>5. /\ Total(coins, D) \in Int /\ Total(coins, A) \in Int
      /\ Total(coins, D) >= Total(coins, A) + 2 * (Cardinality(D) - Cardinality(A))
    BY <1>1, <1>2, PartAddsUp
<1> QED
    BY <1>1, <1>2, <1>3, <1>4, <1>5

\* A payment is exact, whatever the purse.
LEMMA PaymentsAreExact ==
    ASSUME Purse
    PROVE  TestKey!PaymentIsExact
<1> DEFINE most == Len(coins)
           picks == {n \in 1..most : TestKey!enough(n)}
           n == IF picks = {} THEN most ELSE CHOOSE x \in picks : \A y \in picks : x <= y
           total == TestKey!TotalOf(n)
           rest == total - AmountSats - TestKey!paymentVsize(n, 2)
           change == IF rest < DUST_SATS THEN 0 ELSE rest
           payment == [inputs |-> n, change |-> change, fee |-> total - AmountSats - change]
<1>1. TestKey!buildPayment =
          IF total < AmountSats + TestKey!paymentVsize(n, 1) THEN None ELSE payment
    BY DEF TestKey!buildPayment
<1>2. /\ most \in Nat /\ AmountSats \in Nat /\ DUST_SATS \in Nat \ {0}
      /\ \A m \in Nat : TestKey!TotalOf(m) \in Int
    BY PurseHasCoins, TotalsAreNumbers, WalletsAssumption
<1>3. n \in Nat /\ (picks # {} => n \in picks)
  <2>1. CASE picks = {}
      BY <1>2, <2>1
  <2>2. CASE picks # {}
    <3>1. picks \in SUBSET Nat
        BY <1>2
    <3> HIDE DEF picks
    <3>2. \E x \in picks : \A y \in picks : x <= y
        BY <2>2, <3>1, LeastIs
    <3> QED
        BY <2>2, <3>1, <3>2
  <2> QED
      BY <2>1, <2>2
<1>4. total \in Int
    BY <1>2, <1>3
<1>5. CASE total < AmountSats + TestKey!paymentVsize(n, 1)
  <2>1. picks = {}
    <3> SUFFICES ASSUME picks # {} PROVE FALSE
        OBVIOUS
    <3>1. TestKey!enough(n)
        BY <1>3
    <3> HIDE DEF n
    <3> QED
        BY <1>2, <1>3, <1>4, <1>5, <3>1 DEF TestKey!enough, TestKey!paymentVsize
  <2>2. n = most
      BY <2>1
  <2> SUFFICES ASSUME NEW m \in 1..Len(coins), ~(\E i \in DOMAIN coins : coins[i] <= 1)
               PROVE  TestKey!TotalOf(m) < AmountSats + TestKey!paymentVsize(m, 1)
      BY <1>1, <1>5, Zenon DEF TestKey!PaymentIsExact
  <2>3. TestKey!TotalOf(most) - most >= TestKey!TotalOf(m) - m
      BY <1>2, MoreCoinsPayMore DEF Purse
  <2> HIDE DEF n
  <2> QED
      BY <1>2, <1>5, <2>2, <2>3 DEF TestKey!paymentVsize
<1>6. CASE ~(total < AmountSats + TestKey!paymentVsize(n, 1))
  <2>1. TestKey!buildPayment = payment
      BY <1>1, <1>6
  <2> HIDE DEF n, total
  <2>2. rest \in Int /\ change \in Int
      BY <1>2, <1>3, <1>4 DEF TestKey!paymentVsize
  <2>3. payment.inputs = n /\ payment.change = change /\ payment.fee = total - AmountSats - change
      OBVIOUS
  <2>4. \/ change = 0 /\ rest < DUST_SATS
        \/ change = rest /\ rest >= DUST_SATS
      BY <1>2, <2>2
  <2>5. /\ payment.fee >= TestKey!paymentVsize(n, IF change > 0 THEN 2 ELSE 1)
        /\ change = 0 \/ change >= DUST_SATS
        /\ payment.fee < TestKey!paymentVsize(n, 2) + DUST_SATS
      BY <1>2, <1>3, <1>4, <1>6, <2>2, <2>3, <2>4 DEF TestKey!paymentVsize
  <2>6. payment # None
      BY <1>2, <1>3, <1>4, <2>2, WalletsAssumption
  <2> HIDE DEF change, payment
  <2> QED
      BY <1>3, <2>1, <2>3, <2>5, <2>6 DEF TestKey!PaymentIsExact
<1> QED
    BY <1>5, <1>6

-----------------------------------------------------------------------------
(* The test keys (TestKey).                                                   *)
KeyShapes ==
    /\ made \in Nat /\ made <= MaxKeys
    /\ stored \in [Accounts -> 1..made \cup {None}]
    /\ owners \in [1..MaxKeys -> SUBSET Accounts]
    /\ backups \subseteq 1..made
    /\ embedded \in [OpenTabs -> {None} \cup [account : Accounts, key : 1..made]]
    /\ signedIn \in [OpenTabs -> Accounts \cup {None}]
    /\ locked \subseteq 0..made

\* The browser or a backup file has the key, or a restore has overwritten it.
Held(k) == k \in backups \cup replaced \/ \E a \in Accounts : stored[a] = k

\* A key that a tab holds is of the account it holds it for, and held.
TabFits(e) == e # None => e.account \in owners[e.key] /\ Held(e.key)

KeyInv ==
    /\ KeyShapes
    /\ \A a \in Accounts : stored[a] # None => a \in owners[stored[a]]
    /\ \A t \in OpenTabs : TabFits(embedded[t])
    /\ \A k \in locked \ {0} : Held(k)

LEMMA KeysHaveBounds ==
    MaxKeys \in Nat /\ None \notin Accounts
    BY WalletsAssumption

LEMMA KeyHolds ==
    ASSUME KeyInv
    PROVE  TestKey!UsedKeyIsKept /\ TestKey!KeyIsOwn
<1>1. TestKey!UsedKeyIsKept
    BY DEF KeyInv, Held, TestKey!UsedKeyIsKept, TestKey!XverseKey
<1>2. TestKey!KeyIsOwn
    BY DEF KeyInv, TabFits, TestKey!KeyIsOwn, TestKey!key
<1> QED
    BY <1>1, <1>2

\* A key in use is the tab's own.
LEMMA KeyInUse ==
    ASSUME KeyInv, NEW t \in OpenTabs, TestKey!key(t) # None
    PROVE  /\ embedded[t] # None /\ TestKey!key(t) = embedded[t].key
           /\ TestKey!key(t) \in 1..made /\ Held(TestKey!key(t))
           /\ signedIn[t] = embedded[t].account /\ signedIn[t] \in Accounts
    BY DEF KeyInv, KeyShapes, TabFits, TestKey!key

\* Sign-ins, other wallets, reloads and the start of a release touch no key.
LEMMA NoKeyMoves ==
    ASSUME KeyInv, NEW t \in OpenTabs,
           \/ \E a \in Accounts \cup {None} : TestKey!session(t, a)
           \/ TestKey!connect(t) \/ TestKey!disconnect(t) \/ TestKey!use(t)
           \/ TestKey!reload(t) \/ \E k \in locked : TestKey!release(t, k)
    PROVE  KeyInv'
<1>1. /\ stored' = stored /\ made' = made /\ owners' = owners /\ backups' = backups
      /\ replaced' = replaced /\ locked' = locked
      /\ embedded' = embedded \/ embedded' = [embedded EXCEPT ![t] = None]
      /\ signedIn' = signedIn \/ \E a \in Accounts \cup {None} : signedIn' = [signedIn EXCEPT ![t] = a]
    BY DEF TestKey!session, TestKey!connect, TestKey!disconnect, TestKey!use, TestKey!reload,
           TestKey!release, TestKey!disk, TestKey!elsewhere
<1>2. /\ embedded' \in [OpenTabs -> {None} \cup [account : Accounts, key : 1..made]]
      /\ \A u \in OpenTabs : embedded'[u] \in {None, embedded[u]}
      /\ signedIn' \in [OpenTabs -> Accounts \cup {None}]
    BY <1>1 DEF KeyInv, KeyShapes
<1>3. KeyShapes'
    BY <1>1, <1>2 DEF KeyInv, KeyShapes
<1> QED
    BY <1>1, <1>2, <1>3 DEF KeyInv, TabFits, Held

\* Coins are locked to the key in use, and a signature frees them.
LEMMA CoinsMove ==
    ASSUME KeyInv, NEW t \in OpenTabs, TestKey!sendBtc(t) \/ TestKey!signPsbt(t)
    PROVE  KeyInv'
<1>1. /\ stored' = stored /\ made' = made /\ owners' = owners /\ backups' = backups
      /\ replaced' = replaced /\ embedded' = embedded /\ signedIn' = signedIn
    BY DEF TestKey!sendBtc, TestKey!signPsbt, TestKey!disk, TestKey!tab
<1>2. \A k \in locked' : k \in locked \/ k = 0 \/ (k \in 1..made /\ Held(k))
  <2>1. CASE TestKey!sendBtc(t)
    <3>1. locked' = locked \cup {TestKey!btcPubkey(t)} /\ TestKey!btcPubkey(t) # None
        BY <2>1 DEF TestKey!sendBtc
    <3>2. TestKey!btcPubkey(t) \in {0, TestKey!key(t), None}
        BY DEF TestKey!btcPubkey, TestKey!XverseKey
    <3> QED
        BY <3>1, <3>2, KeyInUse
  <2>2. CASE TestKey!signPsbt(t)
      BY <2>2 DEF TestKey!signPsbt
  <2> QED
      BY <2>1, <2>2
<1>3. \A k : Held(k)' <=> Held(k)
    BY <1>1 DEF Held
<1>4. locked' \subseteq 0..made
  <2>1. made \in Nat /\ locked \subseteq 0..made
      BY DEF KeyInv, KeyShapes
  <2>2. ASSUME NEW k \in locked' PROVE k \in 0..made
    <3>1. CASE k \in locked
        BY <2>1, <3>1
    <3>2. CASE k = 0
        BY <2>1, <3>2
    <3>3. CASE k \in 1..made
        BY <2>1, <3>3
    <3> QED
        BY <1>2, <2>2, <3>1, <3>2, <3>3
  <2> QED
      BY <2>2
<1>5. KeyShapes'
    BY <1>1, <1>4 DEF KeyInv, KeyShapes
<1>6. \A k \in locked' \ {0} : Held(k)'
    BY <1>2, <1>3 DEF KeyInv
<1>7. \A u \in OpenTabs : TabFits(embedded[u])'
    BY <1>1, <1>3 DEF KeyInv, TabFits
<1> QED
    BY <1>1, <1>5, <1>6, <1>7 DEF KeyInv

LEMMA KeyIsExported ==
    ASSUME KeyInv, NEW t \in OpenTabs, TestKey!exportFile(t)
    PROVE  KeyInv'
<1>1. /\ stored' = stored /\ made' = made /\ owners' = owners /\ replaced' = replaced
      /\ embedded' = embedded /\ signedIn' = signedIn /\ locked' = locked
      /\ backups' = backups \cup {TestKey!key(t)} /\ TestKey!key(t) # None
    BY DEF TestKey!exportFile, TestKey!embeddedActive, TestKey!tab, TestKey!elsewhere
<1>2. KeyShapes'
    BY <1>1, KeyInUse DEF KeyInv, KeyShapes
<1>3. \A k : Held(k) => Held(k)'
    BY <1>1 DEF Held
<1> QED
    BY <1>1, <1>2, <1>3 DEF KeyInv, TabFits

\* A key is loaded, or made and kept, or not handed out.
LEMMA KeyIsLoaded ==
    ASSUME KeyInv, NEW t \in OpenTabs, TestKey!loadOrCreateKey(t)
    PROVE  KeyInv'
<1> DEFINE a == signedIn[t]
<1>1. /\ a \in Accounts /\ a # None
      /\ backups' = backups /\ replaced' = replaced /\ signedIn' = signedIn
      /\ locked' = locked
    BY DEF TestKey!loadOrCreateKey, TestKey!elsewhere, TestKey!disk, KeyInv, KeyShapes
<1>2. CASE stored[a] # None
  <2>1. /\ stored' = stored /\ made' = made /\ owners' = owners
        /\ embedded' = [embedded EXCEPT ![t] = [account |-> a, key |-> stored[a]]]
      BY <1>2 DEF TestKey!loadOrCreateKey, TestKey!disk
  <2> HIDE DEF a
  <2>2. stored[a] \in 1..made /\ Held(stored[a]) /\ a \in owners[stored[a]]
      BY <1>1, <1>2 DEF KeyInv, KeyShapes, Held
  <2>3. /\ embedded' \in [OpenTabs -> {None} \cup [account : Accounts, key : 1..made]]
        /\ \A u \in OpenTabs : embedded'[u] = embedded[u]
                               \/ embedded'[u] = [account |-> a, key |-> stored[a]]
      BY <1>1, <2>1, <2>2 DEF KeyInv, KeyShapes
  <2>4. KeyShapes'
      BY <1>1, <2>1, <2>3 DEF KeyInv, KeyShapes
  <2>5. \A k : Held(k)' <=> Held(k)
      BY <1>1, <2>1 DEF Held
  <2>6. ASSUME NEW u \in OpenTabs PROVE TabFits(embedded[u])'
    <3>1. PICK e : e = embedded'[u]
        OBVIOUS
    <3>2. CASE e = embedded[u]
        BY <2>1, <2>5, <3>1, <3>2 DEF KeyInv, TabFits
    <3>3. CASE e = [account |-> a, key |-> stored[a]]
      <4>1. e.account = a /\ e.key = stored[a]
          BY <3>3
      <4>2. e.account \in owners'[e.key] /\ Held(e.key)
          BY <2>1, <2>2, <4>1
      <4> QED
          BY <2>5, <3>1, <4>2 DEF TabFits
    <3> QED
        BY <2>3, <3>1, <3>2, <3>3
  <2> QED
      BY <1>1, <2>1, <2>4, <2>5, <2>6 DEF KeyInv
<1>3. CASE stored[a] = None
  <2> DEFINE new == made + 1
             key == [account |-> a, key |-> new]
  <2>1. /\ made < MaxKeys /\ made' = new /\ owners' = [owners EXCEPT ![new] = {a}]
        /\ \/ stored' = [stored EXCEPT ![a] = new] /\ embedded' = [embedded EXCEPT ![t] = key]
           \/ stored' = stored /\ embedded' = embedded
    <3>1. /\ made < MaxKeys /\ made' = new /\ owners' = [owners EXCEPT ![new] = {a}]
          /\ stored' = IF keeps THEN [stored EXCEPT ![a] = new] ELSE stored
          /\ embedded' = IF stored'[a] = new THEN [embedded EXCEPT ![t] = key] ELSE embedded
        BY <1>3 DEF TestKey!loadOrCreateKey, TestKey!readBack
    <3>2. stored[a] # new
        BY <1>3, PanelsAssumption DEF KeyInv, KeyShapes
    <3>3. keeps => stored'[a] = new
        BY <1>1, <3>1 DEF KeyInv, KeyShapes
    <3> QED
        BY <3>1, <3>2, <3>3
  <2> HIDE DEF a
  <2>2. /\ made \in Nat /\ new \in 1..MaxKeys /\ new \in 1..new /\ new \notin 1..made
        /\ 1..made \subseteq 1..new /\ 0..made \subseteq 0..new
      BY <2>1, KeysHaveBounds DEF KeyInv, KeyShapes
  <2>3. /\ owners' \in [1..MaxKeys -> SUBSET Accounts]
        /\ owners'[new] = {a} /\ \A k \in 1..made : owners'[k] = owners[k]
      BY <1>1, <2>1, <2>2 DEF KeyInv, KeyShapes
  <2>4. /\ stored' \in [Accounts -> 1..new \cup {None}]
        /\ \A b \in Accounts : stored'[b] = stored[b] \/ (b = a /\ stored'[b] = new)
      BY <1>1, <2>1, <2>2 DEF KeyInv, KeyShapes
  <2>5. key \in [account : Accounts, key : 1..new]
      BY <1>1, <2>2
  <2>6. /\ embedded' \in [OpenTabs -> {None} \cup [account : Accounts, key : 1..new]]
        /\ \A u \in OpenTabs : \/ embedded'[u] = embedded[u]
                               \/ embedded'[u] = key /\ stored'[a] = new
    <3>1. /\ embedded \in [OpenTabs -> {None} \cup [account : Accounts, key : 1..new]]
          /\ stored \in [Accounts -> 1..made \cup {None}]
        BY <2>2 DEF KeyInv, KeyShapes
    <3> HIDE DEF key
    <3> QED
        BY <1>1, <2>1, <2>5, <3>1
  <2>7. KeyShapes'
    <3>1. made' \in Nat /\ made' <= MaxKeys
        BY <2>1, <2>2
    <3>2. backups' \subseteq 1..made' /\ locked' \subseteq 0..made'
        BY <1>1, <2>1, <2>2 DEF KeyInv, KeyShapes
    <3>3. signedIn' \in [OpenTabs -> Accounts \cup {None}]
        BY <1>1 DEF KeyInv, KeyShapes
    <3> QED
        BY <2>1, <2>3, <2>4, <2>6, <3>1, <3>2, <3>3 DEF KeyShapes
  <2>8. \A k \in 1..made : Held(k) => Held(k)'
    <3>1. \A k \in 1..made : k # None
        BY PanelsAssumption, <2>2
    <3> QED
        BY <1>1, <1>3, <2>4, <3>1 DEF Held, KeyInv, KeyShapes
  <2>9. ASSUME NEW u \in OpenTabs PROVE TabFits(embedded[u])'
    <3>1. PICK e : e = embedded'[u]
        OBVIOUS
    <3>2. CASE e = embedded[u] /\ e # None
      <4>1. e \in [account : Accounts, key : 1..made] /\ e.account \in owners[e.key] /\ Held(e.key)
          BY <3>2 DEF KeyInv, KeyShapes, TabFits
      <4>2. e.key \in 1..made
          BY <4>1
      <4>3. e.account \in owners'[e.key] /\ Held(e.key)'
          BY <2>3, <2>8, <4>1, <4>2
      <4> QED
          BY <3>1, <4>3 DEF TabFits
    <3>3. CASE e = key /\ stored'[a] = new
      <4>1. e.account = a /\ e.key = new
          BY <3>3
      <4>2. e.account \in owners'[e.key] /\ Held(e.key)'
          BY <1>1, <2>3, <3>3, <4>1 DEF Held
      <4> QED
          BY <3>1, <4>2 DEF TabFits
    <3> QED
        BY <2>6, <3>1, <3>2, <3>3 DEF TabFits
  <2>10. \A k \in locked' \ {0} : Held(k)'
    <3>1. \A k \in locked \ {0} : k \in 1..made /\ Held(k)
        BY <2>2 DEF KeyInv, KeyShapes
    <3> QED
        BY <1>1, <2>8, <3>1
  <2>11. \A b \in Accounts : stored'[b] # None => b \in owners'[stored'[b]]
    <3> SUFFICES ASSUME NEW b \in Accounts, stored'[b] # None PROVE b \in owners'[stored'[b]]
        OBVIOUS
    <3>1. CASE stored'[b] = stored[b]
      <4>1. stored[b] \in 1..made /\ b \in owners[stored[b]]
          BY <3>1 DEF KeyInv, KeyShapes
      <4> QED
          BY <2>3, <3>1, <4>1
    <3> QED
        BY <2>3, <2>4, <3>1
  <2> QED
      BY <2>7, <2>9, <2>10, <2>11 DEF KeyInv
<1> QED
    BY <1>2, <1>3

\* A restored key takes the place of the account's, which is remembered.
LEMMA KeyIsRestored ==
    ASSUME KeyInv, NEW t \in OpenTabs, TestKey!importFile(t)
    PROVE  KeyInv'
<1> DEFINE a == signedIn[t]
<1>1. PICK k \in backups :
          /\ replaced' = replaced \cup ({stored[a]} \ {None, k})
          /\ stored' = IF keeps THEN [stored EXCEPT ![a] = k] ELSE stored
          /\ owners' = [owners EXCEPT ![k] = @ \cup {a}]
          /\ embedded' = [embedded EXCEPT ![t] = [account |-> a, key |-> k]]
    BY DEF TestKey!importFile
<1>2. /\ made' = made /\ backups' = backups /\ signedIn' = signedIn /\ locked' = locked
      /\ TestKey!key(t) # None
    BY DEF TestKey!importFile, TestKey!elsewhere, TestKey!embeddedActive
<1>3. /\ a \in Accounts /\ made \in Nat /\ k \in 1..made /\ k \in 1..MaxKeys
    BY <1>2, KeyInUse, KeysHaveBounds DEF KeyInv, KeyShapes
<1> HIDE DEF a
<1>4. /\ owners' \in [1..MaxKeys -> SUBSET Accounts] /\ a \in owners'[k]
      /\ \A j \in 1..MaxKeys : owners[j] \subseteq owners'[j]
    BY <1>1, <1>3 DEF KeyInv, KeyShapes
<1>5. /\ stored' \in [Accounts -> 1..made \cup {None}]
      /\ \A b \in Accounts : stored'[b] = stored[b] \/ (b = a /\ stored'[b] = k)
    BY <1>1, <1>3 DEF KeyInv, KeyShapes
<1> DEFINE key == [account |-> a, key |-> k]
<1>6. key \in [account : Accounts, key : 1..made] /\ key.account = a /\ key.key = k
    BY <1>3
<1>7. embedded' = [embedded EXCEPT ![t] = key]
    BY <1>1
<1> HIDE DEF key
<1>8. /\ embedded' \in [OpenTabs -> {None} \cup [account : Accounts, key : 1..made]]
      /\ \A u \in OpenTabs : embedded'[u] = embedded[u] \/ embedded'[u] = key
    BY <1>6, <1>7 DEF KeyInv, KeyShapes
<1>9. KeyShapes'
    BY <1>2, <1>4, <1>5, <1>8 DEF KeyInv, KeyShapes
<1>10. \A j \in 1..made : Held(j) => Held(j)'
  <2> SUFFICES ASSUME NEW j \in 1..made, Held(j) PROVE Held(j)'
      OBVIOUS
  <2>0. j # None
      BY PanelsAssumption, <1>3
  <2>1. CASE j \in backups \cup replaced \/ j = k
      BY <1>1, <1>2, <2>1 DEF Held
  <2>2. CASE j \notin backups \cup replaced /\ j # k
    <3>1. PICK b \in Accounts : stored[b] = j
        BY <2>2 DEF Held
    <3>2. CASE b = a
        BY <1>1, <2>0, <2>2, <3>1, <3>2 DEF Held
    <3>3. CASE b # a
        BY <1>5, <3>1, <3>3 DEF Held
    <3> QED
        BY <3>2, <3>3
  <2> QED
      BY <2>1, <2>2
<1>11. ASSUME NEW u \in OpenTabs PROVE TabFits(embedded[u])'
  <2>1. PICK e : e = embedded'[u]
      OBVIOUS
  <2>2. CASE e = embedded[u] /\ e # None
    <3>1. e \in [account : Accounts, key : 1..made] /\ e.account \in owners[e.key] /\ Held(e.key)
        BY <2>2 DEF KeyInv, KeyShapes, TabFits
    <3>2. e.key \in 1..made /\ e.key \in 1..MaxKeys
        BY <1>3, <3>1, KeysHaveBounds DEF KeyInv, KeyShapes
    <3>3. e.account \in owners'[e.key] /\ Held(e.key)'
        BY <1>4, <1>10, <3>1, <3>2
    <3> QED
        BY <2>1, <3>3 DEF TabFits
  <2>3. CASE e = key
    <3>1. e.account \in owners'[e.key] /\ Held(e.key)'
        BY <1>2, <1>4, <1>6, <2>3 DEF Held
    <3> QED
        BY <2>1, <3>1 DEF TabFits
  <2> QED
      BY <1>8, <2>1, <2>2, <2>3 DEF TabFits
<1>12. \A j \in locked' \ {0} : Held(j)'
  <2>1. \A j \in locked \ {0} : j \in 1..made /\ Held(j)
      BY <1>3 DEF KeyInv, KeyShapes
  <2> QED
      BY <1>2, <1>10, <2>1
<1>13. ASSUME NEW b \in Accounts, stored'[b] # None PROVE b \in owners'[stored'[b]]
  <2>1. CASE stored'[b] = stored[b]
    <3>1. stored[b] \in 1..made /\ b \in owners[stored[b]]
        BY <1>13, <2>1 DEF KeyInv, KeyShapes
    <3>2. stored[b] \in 1..MaxKeys
        BY <1>3, <3>1, KeysHaveBounds DEF KeyInv, KeyShapes
    <3> QED
        BY <1>4, <2>1, <3>1, <3>2
  <2> QED
      BY <1>4, <1>5, <2>1
<1> QED
    BY <1>9, <1>11, <1>12, <1>13 DEF KeyInv

LEMMA KeysGoOn ==
    ASSUME KeyInv, TestKey!Next
    PROVE  KeyInv' /\ coins' = coins
<1>1. PICK t \in OpenTabs : TestKey!Wallets(t)
    BY DEF TestKey!Next
<1>2. coins' = coins
    BY <1>1 DEF TestKey!Wallets, TestKey!session, TestKey!loadOrCreateKey, TestKey!exportFile,
       TestKey!importFile, TestKey!connect, TestKey!disconnect, TestKey!use, TestKey!reload,
       TestKey!sendBtc, TestKey!signPsbt, TestKey!release, TestKey!elsewhere
<1>3. KeyInv'
    BY <1>1, NoKeyMoves, CoinsMove, KeyIsExported, KeyIsLoaded, KeyIsRestored DEF TestKey!Wallets
<1> QED
    BY <1>2, <1>3

LEMMA KeysBegin ==
    ASSUME TestKey!Init
    PROVE  KeyInv /\ Purse
<1>1. KeyInv
    BY KeysHaveBounds DEF TestKey!Init, KeyInv, KeyShapes, TabFits, Held, TestKey!Keys
<1>2. PICK N \in 0..MaxCoins : coins \in [1..N -> 1..MaxCoinSats]
    BY DEF TestKey!Init
<1>3. N \in Nat /\ MaxCoinSats \in Nat
    BY <1>2, WalletsAssumption
<1>4. Purse
    BY <1>2, <1>3 DEF Purse
<1> QED
    BY <1>1, <1>4

\* WalletProvider.tsx, useBitcoinWallet.tsx, key.ts: over any sign-ins, late and lost
\* answers, reloads, restores and tabs, the session is steady, a signature is given
\* by the account a flow was started for unless the user left that account under
\* it, no test key in use is lost or another account's, and whatever the purse a
\* payment is exact.
THEOREM WalletsStayKept == MCSpec => []WalletsAreKept
<1> DEFINE MCInv == /\ part = "wallets" => SessionInv
                    /\ part = "testkey" => KeyInv /\ Purse
<1>1. MCInit => MCInv
    BY SessionBegins, KeysBegin DEF MCInit
<1>2. MCInv /\ [MCNext]_all => MCInv'
  <2> SUFFICES ASSUME MCInv, [MCNext]_all PROVE MCInv'
      OBVIOUS
  <2>1. CASE WalletsNext
      BY <2>1, SessionGoesOn DEF WalletsNext
  <2>2. CASE TestKeyNext
    <3>1. part = "testkey" /\ part' = part /\ KeyInv' /\ coins' = coins
        BY <2>2, KeysGoOn DEF TestKeyNext
    <3>2. Purse'
        BY <2>2, <3>1 DEF Purse, TestKeyNext
    <3> QED
        BY <3>1, <3>2
  <2>3. CASE part' = part /\ (part = "wallets" => UNCHANGED walletVars)
             /\ (part = "testkey" => UNCHANGED keyVars)
    <3>1. part = "wallets" => SessionInv'
      <4> SUFFICES ASSUME part = "wallets" PROVE SessionInv'
          BY <2>3
      <4>1. UNCHANGED walletVars /\ SessionInv
          BY <2>3
      <4>2. KitFits' /\ PollarFits' /\ OutIsOut'
          BY <4>1 DEF walletVars, SessionInv, KitFits, PollarFits, OutIsOut
      <4>3. IsSig(sig)' /\ StarterIsThere' /\ AskedStarter(sig)'
          BY <4>1 DEF walletVars, SessionInv, IsSig, StarterIsThere, AskedStarter
      <4> QED
          BY <4>2, <4>3 DEF SessionInv
    <3>2. part = "testkey" => KeyInv' /\ Purse'
        BY <2>3 DEF keyVars, KeyInv, KeyShapes, TabFits, Held, Purse
    <3> QED
        BY <2>3, <3>1, <3>2
  <2> QED
      BY <2>1, <2>2, <2>3 DEF MCNext, LoanNext, ReceiveNext, PanelsNext, FundsNext,
                              JourneyNext, all
<1>3. MCInv => WalletsAreKept
    BY SessionHolds, KeyHolds, PaymentsAreExact DEF WalletsAreKept
<1> QED
    BY <1>1, <1>2, <1>3, PTL DEF MCSpec

=============================================================================
