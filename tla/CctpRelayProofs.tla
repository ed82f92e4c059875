-------------------------- MODULE CctpRelayProofs --------------------------
(* Proofs about CctpRelay for any number of transfers, any cap, and any       *)
(* number of broadcasts, reverts and crashes: the lock, the daily cap, and    *)
(* what a record says of the chain.                                           *)
EXTENDS MCServices, FiniteSetTheorems, SequenceTheorems, TLAPS

(* The inductive invariant, one transfer at a time: its record r, the step p  *)
(* of its job, its broadcasts t, who spent its nonce (m), and whether the     *)
(* relay may have lost a broadcast (u).                                       *)

\* Steps inside the lock, after Lock.
Holding == {"own", "own_nonce", "nonce", "find", "simulate", "sim_revert", "sim_rpc",
            "send", "sent", "receipt", "reverted", "not_mined"}
Steps == {"idle", "gas", "iris", "lookup", "lock"} \union Holding
Fates == {"pending", "success", "reverted", "dropped"}
Hashes == Nat \union {None, Other}
Codes == {"none", "refused", "mint_refused", "unseen", "transient", "out_of_gas", "daily_cap", "gave_up"}

Records == [state : {"sent", "confirming", "confirmed", "submitted", "arrived", "failed"},
            attestation : BOOLEAN, mintHash : Hashes, mintedBy : {"none", "other", "relay"},
            failureCode : Codes, retryable : BOOLEAN,
            retryAt : {"none", "later", "due", "midnight"}, attempts : Nat,
            retryingSince : {"none", "recent", "old"}, submittedAt : {"none", "today", "before"}]

Typed(r, p, t, m) ==
    /\ r \in Records \union {NoRecord} /\ p \in Steps
    /\ t \in Seq(Fates) /\ m \in {None, Other} \union DOMAIN t
    /\ r = NoRecord => p = "idle" /\ t = <<>>
    /\ p = "sent" => t # <<>>

\* A record in flight has a job.
Worked(r, p) == r # NoRecord /\ ~isSettled(r) => p # "idle"

\* The record and the chain agree on who minted.
Linked(r, p, t, m) ==
    /\ \A i \in DOMAIN t : t[i] = "success" => m = i
    /\ r # NoRecord /\ r.mintedBy = "relay" => r.mintHash \in DOMAIN t
    /\ p \in {"own", "own_nonce", "receipt"} => own_broadcast(r)
    /\ p = "find" => m # None
    /\ p = "lookup" => r.state = "arrived"
    /\ r.state = "arrived" => m # None /\ r.mintHash \in {None, m}

\* Short of a lost answer the relay knows its only broadcast in flight, and
\* goes on to a second one when there is none.
InFlight(r, p, t, m) ==
    /\ \A i, j \in DOMAIN t : t[i] = "pending" /\ t[j] = "pending" => i = j
    /\ \A i \in DOMAIN t : t[i] = "pending" =>
         /\ m # None \/ (p = "sent" /\ i = Len(t)) \/ (own_broadcast(r) /\ r.mintHash = i)
         /\ p \notin {"simulate", "sim_revert", "sim_rpc", "send"}
         /\ p = "nonce" => m # None
         /\ p = "sent" => i = Len(t)

Sound(r, p, t, m, u) ==
    Typed(r, p, t, m) /\ Worked(r, p) /\ Linked(r, p, t, m) /\ (u \/ InFlight(r, p, t, m))

Shapes ==
    /\ kind \in [Burns -> Kinds] /\ record \in [Burns -> Records \union {NoRecord}]
    /\ pc \in [Burns -> Steps] /\ tx \in [Burns -> Seq(Fates)]
    /\ minter \in [Burns -> Hashes] /\ unsure \subseteq Burns

TransfersSound == \A b \in Burns : Sound(record[b], pc[b], tx[b], minter[b], b \in unsure)

\* The lock: its holder is at the head of the queue and every other job in the
\* queue waits.
Exclusive ==
    /\ queue \in Seq(Burns)
    /\ \A i, j \in 1..Len(queue) : queue[i] = queue[j] => i = j
    /\ \A b \in Burns : pc[b] \in Holding \union {"lock"} <=> \E i \in 1..Len(queue) : queue[i] = b
    /\ \A i \in 1..Len(queue) : pc[queue[i]] \in Holding => i = 1

\* The count a job read before it broadcasts is still below the cap.
UnderCap ==
    /\ Cardinality(SubmittedToday) <= dailyCap
    /\ \A b \in Burns : pc[b] \in {"simulate", "send", "sent"} => Cardinality(SubmittedToday) < dailyCap

Inv == Shapes /\ TransfersSound /\ Exclusive /\ UnderCap

-----------------------------------------------------------------------------
(* What the outcomes of a job leave of a record.                              *)

\* s is r with another state, failure and schedule.
Keeps(r, s) ==
    /\ s \in Records
    /\ s.attestation = r.attestation /\ s.submittedAt = r.submittedAt
    /\ s.mintHash = r.mintHash /\ s.mintedBy = r.mintedBy

\* fail and transient change the state, not what is known of mints and days.
LEMMA FailureKeeps ==
    ASSUME NEW r \in Records, NEW code \in Codes
    PROVE  /\ Keeps(r, fail(r, code)) /\ fail(r, code).state = "failed"
           /\ Keeps(r, transient(r, code)) /\ transient(r, code).state = "failed"
<1>1. /\ fail(r, code) \in Records /\ fail(r, code).state = "failed"
      /\ fail(r, code).attestation = r.attestation /\ fail(r, code).submittedAt = r.submittedAt
      /\ fail(r, code).mintHash = r.mintHash /\ fail(r, code).mintedBy = r.mintedBy
    BY DEF fail, Records
<1>2. CASE r.retryingSince = "old"
  <2>1. "gave_up" \in Codes
      BY DEF Codes
  <2>2. transient(r, code) = fail(r, "gave_up")
      BY <1>2 DEF transient
  <2>3. Keeps(r, fail(r, "gave_up")) /\ fail(r, "gave_up").state = "failed"
      BY <2>1 DEF fail, Records, Keeps
  <2> QED
      BY <1>1, <2>2, <2>3 DEF Keeps
<1>3. CASE r.retryingSince # "old"
  <2> DEFINE s == transient(r, code)
  <2>1. s = [r EXCEPT !.state = "failed", !.failureCode = code, !.retryable = TRUE,
                      !.retryAt = IF code = "daily_cap" THEN "midnight" ELSE "later",
                      !.retryingSince = "recent"]
      BY <1>3 DEF transient
  <2>2. s \in Records /\ s.state = "failed"
      BY <2>1 DEF Records
  <2>3. /\ s.attestation = r.attestation /\ s.submittedAt = r.submittedAt
        /\ s.mintHash = r.mintHash /\ s.mintedBy = r.mintedBy
      BY <2>1 DEF Records
  <2> QED
      BY <1>1, <2>2, <2>3 DEF Keeps
<1> QED
    BY <1>2, <1>3

\* Nor does reopening a failed record.
LEMMA ReopenedKeeps ==
    ASSUME NEW r \in Records
    PROVE  /\ Keeps(r, Reopened(r)) /\ ~isSettled(Reopened(r))
           /\ LET s == [Reopened(r) EXCEPT !.attempts = 0, !.retryingSince = "none"]
              IN Keeps(r, s) /\ ~isSettled(s)
<1> DEFINE s == Reopened(r)
           v == [s EXCEPT !.attempts = 0, !.retryingSince = "none"]
<1>1. s \in Records /\ s.state \in {"sent", "confirmed"}
  <2>1. "none" \in Codes
      BY DEF Codes
  <2>2. CASE r.attestation
    <3>1. s = [r EXCEPT !.state = "confirmed", !.failureCode = "none", !.retryAt = "none",
                        !.retryable = FALSE]
        BY <2>2 DEF Reopened
    <3> QED
        BY <2>1, <3>1 DEF Records
  <2>3. CASE ~r.attestation
    <3>1. s = [r EXCEPT !.state = "sent", !.failureCode = "none", !.retryAt = "none",
                        !.retryable = FALSE]
        BY <2>3 DEF Reopened
    <3> QED
        BY <2>1, <3>1 DEF Records
  <2> QED
      BY <2>2, <2>3
<1>2. /\ s.attestation = r.attestation /\ s.submittedAt = r.submittedAt
      /\ s.mintHash = r.mintHash /\ s.mintedBy = r.mintedBy
    BY DEF Reopened, Records
<1> HIDE DEF s
<1>3. v \in Records /\ v.state = s.state
    BY <1>1 DEF Records
<1>4. /\ v.attestation = s.attestation /\ v.submittedAt = s.submittedAt
      /\ v.mintHash = s.mintHash /\ v.mintedBy = s.mintedBy
    BY <1>1 DEF Records
<1>5. Keeps(r, s) /\ Keeps(r, v)
    BY <1>1, <1>2, <1>3, <1>4 DEF Keeps
<1>6. ~isSettled(s) /\ ~isSettled(v)
    BY <1>1, <1>3 DEF isSettled
<1> QED
    BY <1>5, <1>6 DEF s

\* What arrived writes.
LEMMA ArrivedIs ==
    ASSUME NEW r \in Records, NEW hash \in Hashes, NEW by \in {"other", "relay"}
    PROVE  LET s == arrived(r, hash, by)
           IN /\ s \in Records /\ s.state = "arrived" /\ s.submittedAt = r.submittedAt
              /\ s.mintHash = hash /\ s.mintedBy = by
<1> DEFINE s == arrived(r, hash, by)
<1>1. "none" \in Codes
    BY DEF Codes
<1> DEFINE v == [r EXCEPT !.state = "arrived", !.mintHash = hash, !.mintedBy = by, !.failureCode = "none"]
           w == [v EXCEPT !.retryable = FALSE, !.retryAt = IF hash = None THEN "later" ELSE "none",
                          !.attempts = 0, !.retryingSince = "none"]
<1>2. s = w
    BY DEF arrived
<1>3. v \in Records /\ v.submittedAt = r.submittedAt
    BY <1>1 DEF Records
<1>4. v.state = "arrived" /\ v.mintHash = hash /\ v.mintedBy = by
    BY DEF Records
<1> HIDE DEF v
<1>5. w \in Records
  <2>1. ASSUME NEW at \in {"none", "later"}
        PROVE  [v EXCEPT !.retryable = FALSE, !.retryAt = at, !.attempts = 0, !.retryingSince = "none"]
                   \in Records
      BY <1>3 DEF Records
  <2> QED
      BY <2>1
<1>6. /\ w.state = v.state /\ w.submittedAt = v.submittedAt
      /\ w.mintHash = v.mintHash /\ w.mintedBy = v.mintedBy
    BY <1>3 DEF Records
<1> QED
    BY <1>2, <1>3, <1>4, <1>5, <1>6

\* A request's record.
LEMMA NewRecordIs ==
    /\ NewRecord \in Records /\ NewRecord.state = "sent" /\ ~NewRecord.attestation
    /\ NewRecord.mintHash = None /\ NewRecord.mintedBy = "none" /\ NewRecord.submittedAt = "none"
<1>1. "none" \in Codes /\ None \in Hashes
    BY DEF Codes, Hashes
<1> QED
    BY <1>1 DEF NewRecord, Records

\* No record is told from every record.
LEMMA NoRecordIsNone == NoRecord \notin Records /\ NoRecord.state = "none" /\ ~isSettled(NoRecord)
<1>1. NoRecord.state = "none"
    BY DEF NoRecord
<1>2. \A r \in Records : r.state # "none"
    BY DEF Records
<1> QED
    BY <1>1, <1>2 DEF isSettled

-----------------------------------------------------------------------------
(* One transfer at a time: what each kind of step needs to keep it sound.     *)

\* The record of a job that stops, waits for Iris or queues for the lock.
LEMMA ReworkSound ==
    ASSUME NEW r \in Records, NEW p, NEW t, NEW m, NEW u \in BOOLEAN, Sound(r, p, t, m, u),
           p # "sent", NEW s \in Records, s.mintHash = r.mintHash, s.mintedBy = r.mintedBy,
           s.state # "arrived", NEW q \in {"idle", "iris", "lock"}, q = "idle" => isSettled(s)
    PROVE  Sound(s, q, t, m, u)
<1>1. Typed(s, q, t, m)
    BY NoRecordIsNone DEF Sound, Typed, Steps
<1>2. Worked(s, q)
    BY DEF Worked
<1>3. Linked(s, q, t, m)
    BY NoRecordIsNone DEF Sound, Linked
<1>4. u \/ InFlight(s, q, t, m)
    BY DEF Sound, InFlight, own_broadcast
<1> QED
    BY <1>1, <1>2, <1>3, <1>4 DEF Sound

\* A job may end as arrived when the burn is minted and the link is true.
LEMMA ArriveSound ==
    ASSUME NEW r \in Records, NEW p, NEW t, NEW m, NEW u \in BOOLEAN, Sound(r, p, t, m, u),
           m # None, NEW s \in Records, s.state = "arrived", s.mintHash \in {None, m},
           s.mintedBy = "relay" => s.mintHash \in DOMAIN t
    PROVE  Sound(s, "idle", t, m, u)
<1>1. Typed(s, "idle", t, m)
    BY NoRecordIsNone DEF Sound, Typed, Steps
<1>2. Worked(s, "idle")
    BY DEF Worked, isSettled
<1>3. Linked(s, "idle", t, m)
    BY DEF Sound, Linked
<1>4. u \/ InFlight(s, "idle", t, m)
    BY DEF Sound, InFlight
<1> QED
    BY <1>1, <1>2, <1>3, <1>4 DEF Sound

NonePending(t) == \A i \in DOMAIN t : t[i] # "pending"

\* A job may go to a step when what the step relies on is so.
LEMMA GoSound ==
    ASSUME NEW r \in Records, NEW p, NEW t, NEW m, NEW u \in BOOLEAN, Sound(r, p, t, m, u),
           p # "sent", NEW q \in Steps \ {"idle", "sent"},
           q \in {"own", "own_nonce", "receipt"} => own_broadcast(r),
           q = "find" => m # None, q = "lookup" => r.state = "arrived",
           q = "nonce" => u \/ m # None \/ NonePending(t),
           q \in {"simulate", "sim_revert", "sim_rpc", "send"} => u \/ NonePending(t)
    PROVE  Sound(r, q, t, m, u)
<1>1. Typed(r, q, t, m)
    BY NoRecordIsNone DEF Sound, Typed
<1>2. Worked(r, q)
    BY DEF Worked
<1>3. Linked(r, q, t, m)
    BY DEF Sound, Linked
<1>4. u \/ InFlight(r, q, t, m)
    BY DEF Sound, InFlight, NonePending
<1> QED
    BY <1>1, <1>2, <1>3, <1>4 DEF Sound

\* A record whose schedule moves while its job does not.
LEMMA TimeSound ==
    ASSUME NEW r \in Records, NEW p, NEW t, NEW m, NEW u \in BOOLEAN, Sound(r, p, t, m, u),
           NEW s \in Records, s.mintHash = r.mintHash, s.mintedBy = r.mintedBy,
           s.state = r.state
    PROVE  Sound(s, p, t, m, u)
<1>1. Typed(s, p, t, m)
    BY NoRecordIsNone DEF Sound, Typed
<1>2. Worked(s, p)
    BY NoRecordIsNone DEF Sound, Worked, isSettled
<1>3. Linked(s, p, t, m)
    BY NoRecordIsNone DEF Sound, Linked, own_broadcast
<1>4. u \/ InFlight(s, p, t, m)
    BY DEF Sound, InFlight, own_broadcast
<1> QED
    BY <1>1, <1>2, <1>3, <1>4 DEF Sound

\* A broadcast on top of what is known to be settled, or one whose answer is
\* lost.
LEMMA BroadcastSound ==
    ASSUME NEW r \in Records, NEW t, NEW m, NEW u \in BOOLEAN, Sound(r, "send", t, m, u)
    PROVE  /\ Sound(r, "sent", Append(t, "pending"), m, u)
           /\ \A s \in Records :
                s.mintHash = r.mintHash /\ s.mintedBy = r.mintedBy /\ s.state = "failed"
                  => Sound(s, "idle", Append(t, "pending"), m, TRUE)
<1> DEFINE v == Append(t, "pending")
<1>1. t \in Seq(Fates) /\ m \in {None, Other} \union DOMAIN t
    BY DEF Sound, Typed
<1>2. /\ v \in Seq(Fates) /\ Len(t) \in Nat /\ Len(v) = Len(t) + 1
      /\ DOMAIN t = 1..Len(t) /\ DOMAIN v = 1..Len(v)
      /\ \A i \in DOMAIN t : v[i] = t[i]
      /\ v[Len(v)] = "pending"
    BY <1>1 DEF Fates
<1>3. \A i \in DOMAIN v : i \in DOMAIN t \/ i = Len(v)
    BY <1>2
<1>4. DOMAIN t \subseteq DOMAIN v
    BY <1>2
<1> HIDE DEF v
<1>5. \A i \in DOMAIN v : v[i] = "success" => m = i
    BY <1>2, <1>3 DEF Sound, Linked
<1>6. Sound(r, "sent", v, m, u)
  <2>1. Typed(r, "sent", v, m)
      BY <1>1, <1>2, <1>4, NoRecordIsNone DEF Sound, Typed, Steps, Holding
  <2>2. Worked(r, "sent")
      BY DEF Worked
  <2>3. Linked(r, "sent", v, m)
      BY <1>4, <1>5 DEF Sound, Linked
  <2>4. u \/ InFlight(r, "sent", v, m)
    <3>1. u \/ \A i \in DOMAIN v : v[i] = "pending" => i = Len(v)
        BY <1>2, <1>3 DEF Sound, InFlight
    <3> QED
        BY <3>1 DEF InFlight
  <2> QED
      BY <2>1, <2>2, <2>3, <2>4 DEF Sound
<1>7. ASSUME NEW s \in Records, s.mintHash = r.mintHash, s.mintedBy = r.mintedBy, s.state = "failed"
      PROVE  Sound(s, "idle", v, m, TRUE)
  <2>1. Typed(s, "idle", v, m)
      BY <1>1, <1>2, <1>4, <1>7, NoRecordIsNone DEF Sound, Typed, Steps
  <2>2. Worked(s, "idle")
      BY <1>7 DEF Worked, isSettled
  <2>3. Linked(s, "idle", v, m)
      BY <1>4, <1>5, <1>7, NoRecordIsNone DEF Sound, Linked
  <2> QED
      BY <2>1, <2>2, <2>3 DEF Sound
<1> QED
    BY <1>6, <1>7 DEF v

\* The broadcast recorded is the one the node holds.
LEMMA SubmittedSound ==
    ASSUME NEW r \in Records, NEW t, NEW m, NEW u \in BOOLEAN, Sound(r, "sent", t, m, u),
           NEW s \in Records, s.mintHash = Len(t), s.mintedBy = "relay", s.state = "submitted"
    PROVE  Sound(s, "receipt", t, m, u)
<1>1. t \in Seq(Fates) /\ t # <<>>
    BY DEF Sound, Typed
<1>2. Len(t) \in DOMAIN t /\ Len(t) \in Nat
    BY <1>1
<1>3. own_broadcast(s)
    BY <1>2, RelayAssumption DEF own_broadcast
<1>4. Typed(s, "receipt", t, m)
    BY NoRecordIsNone DEF Sound, Typed, Steps, Holding
<1>5. Worked(s, "receipt")
    BY DEF Worked
<1>6. Linked(s, "receipt", t, m)
    BY <1>2, <1>3 DEF Sound, Linked
<1>7. u \/ InFlight(s, "receipt", t, m)
    BY <1>3 DEF Sound, InFlight
<1> QED
    BY <1>4, <1>5, <1>6, <1>7 DEF Sound

\* A mint that succeeds on Base makes nothing untrue.
LEMMA MintedOnChain ==
    ASSUME NEW r, NEW p, NEW t, NEW m, NEW u \in BOOLEAN, Sound(r, p, t, m, u),
           NEW i \in DOMAIN t, t[i] = "pending", m = None,
           NEW v, v = [t EXCEPT ![i] = "success"]
    PROVE  Sound(r, p, v, i, u)
<1>1. t \in Seq(Fates) /\ m \in {None, Other} \union DOMAIN t
    BY DEF Sound, Typed
<1>2. /\ v \in Seq(Fates) /\ DOMAIN v = DOMAIN t /\ DOMAIN t \subseteq Nat
      /\ Len(v) = Len(t)
      /\ \A j \in DOMAIN t : v[j] = IF j = i THEN "success" ELSE t[j]
    BY <1>1, ExceptSeq DEF Fates
<1>3. i \in DOMAIN v /\ i # None
    BY <1>1, <1>2, RelayAssumption
<1>4. v # <<>> /\ t # <<>>
    BY <1>2
<1>5. \A j \in DOMAIN v : v[j] = "success" => i = j
    BY <1>2, <1>3, RelayAssumption DEF Sound, Linked
<1>6. \A j \in DOMAIN v : v[j] = "pending" => t[j] = "pending"
    BY <1>2
<1>7. Typed(r, p, v, i)
    BY <1>2, <1>3, <1>4 DEF Sound, Typed
<1>8. Worked(r, p)
    BY DEF Sound
<1>9. Linked(r, p, v, i)
    BY <1>2, <1>3, <1>5 DEF Sound, Linked
<1>10. u \/ InFlight(r, p, v, i)
    BY <1>2, <1>3, <1>6 DEF Sound, InFlight
<1> QED
    BY <1>7, <1>8, <1>9, <1>10 DEF Sound

\* Nor does one that reverts or is dropped.
LEMMA FailedOnChain ==
    ASSUME NEW r, NEW p, NEW t, NEW m, NEW u \in BOOLEAN, Sound(r, p, t, m, u),
           NEW i \in DOMAIN t, t[i] = "pending", NEW fate \in {"reverted", "dropped"},
           NEW v, v = [t EXCEPT ![i] = fate]
    PROVE  Sound(r, p, v, m, u)
<1>1. t \in Seq(Fates) /\ m \in {None, Other} \union DOMAIN t
    BY DEF Sound, Typed
<1>2. /\ v \in Seq(Fates) /\ DOMAIN v = DOMAIN t /\ DOMAIN t \subseteq Nat
      /\ Len(v) = Len(t)
      /\ \A j \in DOMAIN t : v[j] = IF j = i THEN fate ELSE t[j]
    BY <1>1, ExceptSeq DEF Fates
<1>3. m \in {None, Other} \union DOMAIN v
    BY <1>1, <1>2, RelayAssumption
<1>4. v # <<>> /\ t # <<>>
    BY <1>2
<1>5. \A j \in DOMAIN v : v[j] = "success" => m = j
    BY <1>2, <1>3, RelayAssumption DEF Sound, Linked
<1>6. \A j \in DOMAIN v : v[j] = "pending" => t[j] = "pending"
    BY <1>2
<1>7. Typed(r, p, v, m)
    BY <1>2, <1>3, <1>4 DEF Sound, Typed
<1>8. Worked(r, p)
    BY DEF Sound
<1>9. Linked(r, p, v, m)
    BY <1>2, <1>3, <1>5 DEF Sound, Linked
<1>10. u \/ InFlight(r, p, v, m)
    BY <1>2, <1>3, <1>6 DEF Sound, InFlight
<1> QED
    BY <1>7, <1>8, <1>9, <1>10 DEF Sound

\* Nor does a mint by somebody else.
LEMMA OtherSound ==
    ASSUME NEW r, NEW p, NEW t, NEW u \in BOOLEAN, Sound(r, p, t, None, u)
    PROVE  Sound(r, p, t, Other, u)
<1>1. t \in Seq(Fates) /\ DOMAIN t \subseteq Nat /\ None # Other /\ None \notin Nat
    BY RelayAssumption DEF Sound, Typed
<1>2. Typed(r, p, t, Other)
    BY DEF Sound, Typed
<1>3. Worked(r, p)
    BY DEF Sound
<1>4. Linked(r, p, t, Other)
    BY <1>1 DEF Sound, Linked
<1>5. u \/ InFlight(r, p, t, Other)
    BY <1>1 DEF Sound, InFlight
<1> QED
    BY <1>2, <1>3, <1>4, <1>5 DEF Sound

-----------------------------------------------------------------------------
(* The lock, by kinds of steps.                                               *)

\* The lock passes to the next in the queue when its holder ends.
LEMMA QueueEnds ==
    ASSUME Shapes, Exclusive, NEW b \in Burns, pc[b] # "lock",
           pc' = [pc EXCEPT ![b] = "idle"],
           queue' = IF queue # <<>> /\ Head(queue) = b THEN Tail(queue) ELSE queue
    PROVE  Exclusive'
<1>1. /\ queue \in Seq(Burns) /\ Len(queue) \in Nat /\ pc \in [Burns -> Steps]
      /\ \A i \in 1..Len(queue) : queue[i] \in Burns
    BY DEF Exclusive, Shapes
<1>2. /\ \A c \in Burns : pc'[c] = IF c = b THEN "idle" ELSE pc[c]
      /\ "idle" \notin Holding \union {"lock"}
    BY <1>1 DEF Holding
<1>3. CASE queue # <<>> /\ queue[1] = b
  <2>1. queue' = Tail(queue)
      BY <1>3
  <2>2. /\ queue' \in Seq(Burns) /\ Len(queue') = Len(queue) - 1
        /\ \A i \in 1..Len(queue') : queue'[i] = queue[i + 1] /\ i + 1 \in 1..Len(queue)
      BY <1>1, <1>3, <2>1, HeadTailProperties
  <2>3. \A i, j \in 1..Len(queue') : queue'[i] = queue'[j] => i = j
      BY <1>1, <2>2 DEF Exclusive
  <2>4. \A i \in 1..Len(queue') : queue'[i] # b
      BY <1>1, <1>3, <2>2 DEF Exclusive
  <2>5. ASSUME NEW c \in Burns
        PROVE  pc'[c] \in Holding \union {"lock"} <=> \E i \in 1..Len(queue') : queue'[i] = c
    <3>1. CASE c = b
        BY <1>2, <2>4, <3>1
    <3>2. CASE c # b
      <4>1. pc'[c] = pc[c]
          BY <1>2, <3>2
      <4>2. ASSUME NEW i \in 1..Len(queue), queue[i] = c
            PROVE  i - 1 \in 1..Len(queue') /\ queue'[i - 1] = c
        <5>1. i # 1
            BY <1>3, <3>2, <4>2
        <5> QED
            BY <1>1, <2>2, <4>2, <5>1
      <4>3. (\E i \in 1..Len(queue) : queue[i] = c) => \E i \in 1..Len(queue') : queue'[i] = c
          BY <4>2
      <4>4. (\E i \in 1..Len(queue') : queue'[i] = c) => \E i \in 1..Len(queue) : queue[i] = c
          BY <2>2
      <4> QED
          BY <4>1, <4>3, <4>4 DEF Exclusive
    <3> QED
        BY <3>1, <3>2
  <2>6. \A i \in 1..Len(queue') : pc'[queue'[i]] \in Holding => i = 1
      BY <1>1, <1>2, <2>2 DEF Exclusive
  <2> QED
      BY <2>2, <2>3, <2>5, <2>6 DEF Exclusive
<1>4. CASE ~(queue # <<>> /\ queue[1] = b)
  <2>1. queue' = queue
      BY <1>1, <1>4
  <2>2. pc[b] \notin Holding
      BY <1>1, <1>4 DEF Exclusive
  <2>3. \A i \in 1..Len(queue) : queue[i] # b
      BY <1>1, <2>2 DEF Exclusive
  <2> QED
      BY <1>1, <1>2, <2>1, <2>2, <2>3 DEF Exclusive
<1> QED
    BY <1>3, <1>4

\* Waiting for the lock takes it from nobody.
LEMMA QueueWaits ==
    ASSUME Shapes, Exclusive, NEW b \in Burns, pc[b] \notin Holding \union {"lock"},
           pc' = [pc EXCEPT ![b] = "lock"], queue' = Append(queue, b)
    PROVE  Exclusive'
<1>1. /\ queue \in Seq(Burns) /\ Len(queue) \in Nat /\ pc \in [Burns -> Steps]
      /\ \A i \in 1..Len(queue) : queue[i] \in Burns
    BY DEF Exclusive, Shapes
<1>2. /\ \A c \in Burns : pc'[c] = IF c = b THEN "lock" ELSE pc[c]
      /\ "lock" \notin Holding
    BY <1>1 DEF Holding
<1>3. /\ queue' \in Seq(Burns) /\ Len(queue') = Len(queue) + 1
      /\ \A i \in 1..Len(queue) : queue'[i] = queue[i]
      /\ queue'[Len(queue')] = b
    BY <1>1
<1>4. \A i \in 1..Len(queue') : i \in 1..Len(queue) \/ i = Len(queue')
    BY <1>1, <1>3
<1>5. \A i \in 1..Len(queue) : queue[i] # b
    BY <1>1 DEF Exclusive
<1>6. \A i, j \in 1..Len(queue') : queue'[i] = queue'[j] => i = j
    BY <1>1, <1>3, <1>4, <1>5 DEF Exclusive
<1>7. ASSUME NEW c \in Burns
      PROVE  pc'[c] \in Holding \union {"lock"} <=> \E i \in 1..Len(queue') : queue'[i] = c
  <2>1. CASE c = b
      BY <1>1, <1>2, <1>3, <2>1
  <2>2. CASE c # b
    <3>1. pc'[c] = pc[c]
        BY <1>2, <2>2
    <3>2. (\E i \in 1..Len(queue') : queue'[i] = c) <=> (\E i \in 1..Len(queue) : queue[i] = c)
        BY <1>1, <1>3, <1>4, <2>2
    <3> QED
        BY <3>1, <3>2 DEF Exclusive
  <2> QED
      BY <2>1, <2>2
<1>8. \A i \in 1..Len(queue') : pc'[queue'[i]] \in Holding => i = 1
    BY <1>1, <1>2, <1>3, <1>4, <1>5 DEF Exclusive
<1> QED
    BY <1>3, <1>6, <1>7, <1>8 DEF Exclusive

\* Within the lock, into it at the head of the queue, or outside it.
LEMMA QueueStays ==
    ASSUME Shapes, Exclusive, NEW b \in Burns, NEW q, pc' = [pc EXCEPT ![b] = q], queue' = queue,
           \/ pc[b] \in Holding /\ q \in Holding
           \/ pc[b] = "lock" /\ Head(queue) = b /\ q \in Holding
           \/ pc[b] \notin Holding \union {"lock"} /\ q \notin Holding \union {"lock"}
    PROVE  Exclusive'
<1>1. /\ queue \in Seq(Burns) /\ Len(queue) \in Nat /\ pc \in [Burns -> Steps]
      /\ \A i \in 1..Len(queue) : queue[i] \in Burns
    BY DEF Exclusive, Shapes
<1>2. \A c \in Burns : pc'[c] = IF c = b THEN q ELSE pc[c]
    BY <1>1
<1>3. \A c \in Burns : pc'[c] \in Holding \union {"lock"} <=> pc[c] \in Holding \union {"lock"}
    BY <1>2
<1>4. ASSUME NEW i \in 1..Len(queue), pc'[queue[i]] \in Holding
      PROVE  i = 1
  <2>1. CASE queue[i] # b \/ pc[b] \in Holding
      BY <1>1, <1>2, <1>4, <2>1 DEF Exclusive
  <2>2. CASE queue[i] = b /\ pc[b] = "lock" /\ Head(queue) = b
    <3>1. queue[1] = queue[i] /\ 1 \in 1..Len(queue)
        BY <1>1, <2>2
    <3> QED
        BY <3>1 DEF Exclusive
  <2>3. CASE queue[i] = b /\ q \notin Holding
      BY <1>1, <1>2, <1>4, <2>3
  <2> QED
      BY <2>1, <2>2, <2>3
<1> QED
    BY <1>1, <1>3, <1>4 DEF Exclusive

\* A restart: the open transfers Circle has signed queue in some order.
LEMMA QueueRestarts ==
    ASSUME Shapes, Crash
    PROVE  Exclusive'
<1> DEFINE S == {b \in listOpen : record[b].attestation}
           n == Cardinality(S)
<1>1. S \subseteq Burns /\ IsFiniteSet(Burns)
    BY RelayAssumption DEF listOpen
<1>2. IsFiniteSet(S) /\ n \in Nat
    BY <1>1, FS_Subset, FS_CardinalityType
<1>3. queue' \in SetToSeqs(S)
    BY DEF Crash
<1>4. queue' \in [1..n -> S] /\ \A i, j \in 1..n : i # j => queue'[i] # queue'[j]
    BY <1>3 DEF SetToSeqs
<1>5. queue' \in Injection(1..n, S)
    BY <1>4 DEF Injection, IsInjective
<1>6. IsFiniteSet(1..n) /\ Cardinality(1..n) = n
    BY <1>2, FS_Interval
<1>7. queue' \in Surjection(1..n, S)
    BY <1>2, <1>5, <1>6, FS_Injection
<1>8. \A b \in S : \E i \in 1..n : queue'[i] = b
    BY <1>7 DEF Surjection
<1>9. queue' \in Seq(Burns) /\ Len(queue') = n
    BY <1>1, <1>2, <1>4
<1>10. \A b \in Burns : pc'[b] \in {"idle", "iris", "lock"} /\ (pc'[b] = "lock" <=> b \in S)
    BY DEF Crash, listOpen
<1>11. \A b \in Burns : pc'[b] \notin Holding /\ (pc'[b] = "lock" <=> b \in S)
    BY <1>10 DEF Holding
<1> HIDE DEF S, n
<1>12. \A i, j \in 1..Len(queue') : queue'[i] = queue'[j] => i = j
    BY <1>4, <1>9
<1>13. \A b \in Burns : pc'[b] \in Holding \union {"lock"} <=> \E i \in 1..Len(queue') : queue'[i] = b
    BY <1>4, <1>8, <1>9, <1>11
<1>14. \A i \in 1..Len(queue') : pc'[queue'[i]] \notin Holding
    BY <1>1, <1>4, <1>9, <1>11
<1> QED
    BY <1>9, <1>12, <1>13, <1>14 DEF Exclusive

\* Only the head of the queue is past the lock.
LEMMA HolderIsAlone ==
    ASSUME Exclusive, NEW b \in Burns, NEW c \in Burns, pc[b] \in Holding, pc[c] \in Holding
    PROVE  b = c
BY DEF Exclusive

-----------------------------------------------------------------------------
(* A step of one transfer keeps the invariant.                                *)

\* What the invariant says about one burn.
LEMMA TransferFacts ==
    ASSUME Inv, NEW b \in Burns
    PROVE  /\ Sound(record[b], pc[b], tx[b], minter[b], b \in unsure)
           /\ record[b] \in Records \union {NoRecord} /\ pc[b] \in Steps
           /\ tx[b] \in Seq(Fates) /\ minter[b] \in {None, Other} \union DOMAIN tx[b]
           /\ minter[b] \in Hashes /\ (b \in unsure) \in BOOLEAN
           /\ pc[b] # "idle" => record[b] \in Records
           /\ Known(b) <=> record[b] \in Records
<1>1. Sound(record[b], pc[b], tx[b], minter[b], b \in unsure)
    BY DEF Inv, TransfersSound
<1> QED
    BY <1>1, NoRecordIsNone DEF Sound, Typed, Known, Inv, Shapes

\* A step of one burn leaves the others sound.
LEMMA OneTransferMoves ==
    ASSUME Inv, NEW b \in Burns, NEW r \in Records, NEW q, NEW t, NEW m, kind' = kind,
           record' = [record EXCEPT ![b] = r], pc' = [pc EXCEPT ![b] = q],
           tx' = [tx EXCEPT ![b] = t], minter' = [minter EXCEPT ![b] = m],
           unsure' = unsure \/ unsure' = unsure \union {b},
           Sound(r, q, t, m, b \in unsure')
    PROVE  Shapes' /\ TransfersSound'
<1>1. q \in Steps /\ t \in Seq(Fates) /\ m \in {None, Other} \union DOMAIN t
    BY DEF Sound, Typed
<1>2. m \in Hashes
    BY <1>1 DEF Hashes
<1>3. Shapes'
    BY <1>1, <1>2 DEF Inv, Shapes
<1>4. ASSUME NEW c \in Burns
      PROVE  Sound(record'[c], pc'[c], tx'[c], minter'[c], c \in unsure')
  <2>1. CASE c = b
    <3>1. record'[c] = r /\ pc'[c] = q /\ tx'[c] = t /\ minter'[c] = m
        BY <2>1 DEF Inv, Shapes
    <3> QED
        BY <2>1, <3>1
  <2>2. CASE c # b
    <3>1. record'[c] = record[c] /\ pc'[c] = pc[c] /\ tx'[c] = tx[c] /\ minter'[c] = minter[c]
        BY <2>2 DEF Inv, Shapes
    <3>2. (c \in unsure') = (c \in unsure)
        BY <2>2
    <3> QED
        BY <3>1, <3>2 DEF Inv, TransfersSound
  <2> QED
      BY <2>1, <2>2
<1> QED
    BY <1>3, <1>4 DEF TransfersSound

\* The count of the day stays when no broadcast is recorded.
LEMMA CountStays ==
    ASSUME Shapes, NEW b \in Burns, NEW r \in Records, record' = [record EXCEPT ![b] = r],
           Known(b) => r.submittedAt = record[b].submittedAt,
           ~Known(b) => r.submittedAt # "today"
    PROVE  SubmittedToday' = SubmittedToday
<1>1. \A c \in Burns : record'[c] = IF c = b THEN r ELSE record[c]
    BY DEF Shapes
<1>2. r # NoRecord
    BY NoRecordIsNone
<1>3. ASSUME NEW c \in Burns
      PROVE  (record'[c] # NoRecord /\ record'[c].submittedAt = "today")
                <=> (record[c] # NoRecord /\ record[c].submittedAt = "today")
  <2>1. CASE c # b
      BY <1>1, <2>1
  <2>2. CASE c = b
      BY <1>1, <1>2, <2>2 DEF Known
  <2> QED
      BY <2>1, <2>2
<1> QED
    BY <1>3 DEF SubmittedToday, Known

Counting == {"simulate", "send", "sent"}

\* A job's step keeps the invariant if its own burn stays sound, the lock exclusive and
\* the day's count true.
LEMMA StepKeeps ==
    ASSUME Inv, NEW b \in Burns, NEW r \in Records, NEW q, NEW t, NEW m, kind' = kind,
           record' = [record EXCEPT ![b] = r], pc' = [pc EXCEPT ![b] = q],
           tx' = [tx EXCEPT ![b] = t], minter' = [minter EXCEPT ![b] = m],
           unsure' = unsure \/ unsure' = unsure \union {b},
           Sound(r, q, t, m, b \in unsure'),
           Exclusive',
           Known(b) => r.submittedAt = record[b].submittedAt,
           ~Known(b) => r.submittedAt # "today",
           q \in Counting => pc[b] \in Counting \/ Cardinality(SubmittedToday) < dailyCap
    PROVE  Inv'
<1>1. Shapes' /\ TransfersSound'
    BY OneTransferMoves
<1>2. SubmittedToday' = SubmittedToday
    BY CountStays DEF Inv
<1>3. \A c \in Burns : pc'[c] = IF c = b THEN q ELSE pc[c]
    BY DEF Inv, Shapes
<1>4. UnderCap'
  <2>1. Cardinality(SubmittedToday') <= dailyCap
      BY <1>2 DEF Inv, UnderCap
  <2>2. ASSUME NEW c \in Burns, pc'[c] \in Counting
        PROVE  Cardinality(SubmittedToday') < dailyCap
      BY <1>2, <1>3, <2>2 DEF Inv, UnderCap, Counting
  <2> QED
      BY <2>1, <2>2 DEF UnderCap, Counting
<1> QED
    BY <1>1, <1>4 DEF Inv

\* A function left alone is one updated with what it holds.
LEMMA Unchanging ==
    ASSUME Inv, NEW b \in Burns
    PROVE  /\ record' = record => record' = [record EXCEPT ![b] = record[b]]
           /\ pc' = pc => pc' = [pc EXCEPT ![b] = pc[b]]
           /\ tx' = tx => tx' = [tx EXCEPT ![b] = tx[b]]
           /\ minter' = minter => minter' = [minter EXCEPT ![b] = minter[b]]
           /\ pc' = pc /\ queue' = queue => Exclusive'
<1>1. /\ record = [record EXCEPT ![b] = record[b]] /\ pc = [pc EXCEPT ![b] = pc[b]]
      /\ tx = [tx EXCEPT ![b] = tx[b]] /\ minter = [minter EXCEPT ![b] = minter[b]]
    BY DEF Inv, Shapes
<1>2. pc' = pc /\ queue' = queue => Exclusive'
    BY DEF Inv, Exclusive
<1> QED
    BY <1>1, <1>2

\* The job ends, the chain as it was.
LEMMA EndKeeps ==
    ASSUME Inv, NEW b \in Burns, NEW s \in Records, EndJob(b, s), pc[b] \notin {"idle", "lock"},
           UNCHANGED <<chainVars, unsure>>, s.submittedAt = record[b].submittedAt,
           Sound(s, "idle", tx[b], minter[b], b \in unsure)
    PROVE  Inv'
<1>1. /\ tx' = [tx EXCEPT ![b] = tx[b]] /\ minter' = [minter EXCEPT ![b] = minter[b]]
      /\ unsure' = unsure
    BY Unchanging DEF chainVars
<1>2. Exclusive'
    BY QueueEnds DEF Inv, EndJob
<1>3. Known(b)
    BY TransferFacts
<1>4. "idle" \notin Counting
    BY DEF Counting
<1>5. record' = [record EXCEPT ![b] = s] /\ pc' = [pc EXCEPT ![b] = "idle"] /\ kind' = kind
    BY DEF EndJob
<1> QED
    BY <1>1, <1>2, <1>3, <1>4, <1>5, StepKeeps

\* A job that ends as failed.
LEMMA FailKeeps ==
    ASSUME Inv, NEW b \in Burns, NEW s, EndJob(b, s), pc[b] \notin {"idle", "lock", "sent"},
           UNCHANGED <<chainVars, unsure>>,
           Keeps(record[b], s), s.state = "failed"
    PROVE  Inv'
<1>1. /\ Sound(record[b], pc[b], tx[b], minter[b], b \in unsure) /\ record[b] \in Records
      /\ (b \in unsure) \in BOOLEAN
    BY TransferFacts
<1>2. s \in Records /\ isSettled(s)
    BY DEF Keeps, isSettled
<1>3. Sound(s, "idle", tx[b], minter[b], b \in unsure)
    BY <1>1, <1>2, ReworkSound DEF Keeps
<1> QED
    BY <1>2, <1>3, EndKeeps DEF Keeps

\* A job that goes to its next step and writes nothing.
LEMMA GoKeeps ==
    ASSUME Inv, NEW b \in Burns, NEW q, GoTo(b, q), UNCHANGED <<chainVars, unsure>>, Known(b),
           \/ pc[b] \in Holding /\ q \in Holding
           \/ pc[b] = "lock" /\ Head(queue) = b /\ q \in Holding
           \/ pc[b] \notin Holding \union {"lock"} /\ q \notin Holding \union {"lock"},
           Sound(record[b], q, tx[b], minter[b], b \in unsure),
           q \in Counting => pc[b] \in Counting \/ Cardinality(SubmittedToday) < dailyCap
    PROVE  Inv'
<1>1. /\ tx' = [tx EXCEPT ![b] = tx[b]] /\ minter' = [minter EXCEPT ![b] = minter[b]]
      /\ record' = [record EXCEPT ![b] = record[b]] /\ unsure' = unsure
    BY Unchanging DEF chainVars, GoTo
<1>2. pc' = [pc EXCEPT ![b] = q] /\ queue' = queue /\ kind' = kind
    BY DEF GoTo
<1>3. Exclusive'
    BY <1>2, QueueStays DEF Inv
<1>4. record[b] \in Records
    BY TransferFacts
<1> QED
    BY <1>1, <1>2, <1>3, <1>4, StepKeeps

\* A job that starts.
LEMMA RunKeeps ==
    ASSUME Inv, NEW b \in Burns, NEW s \in Records, run(b, s), UNCHANGED <<chainVars, unsure>>,
           pc[b] \in {"idle", "gas", "iris"},
           Sound(s, IF s.attestation THEN "lock" ELSE "iris", tx[b], minter[b], b \in unsure),
           Known(b) => s.submittedAt = record[b].submittedAt,
           ~Known(b) => s.submittedAt # "today"
    PROVE  Inv'
<1> DEFINE q == IF s.attestation THEN "lock" ELSE "iris"
<1>1. /\ tx' = [tx EXCEPT ![b] = tx[b]] /\ minter' = [minter EXCEPT ![b] = minter[b]]
      /\ unsure' = unsure
    BY Unchanging DEF chainVars
<1>2. record' = [record EXCEPT ![b] = s] /\ pc' = [pc EXCEPT ![b] = q] /\ kind' = kind
    BY DEF run
<1>3. pc[b] \notin Holding \union {"lock"} /\ "iris" \notin Holding \union {"lock"}
    BY DEF Holding
<1>4. Exclusive'
  <2>1. CASE s.attestation
    <3>1. pc' = [pc EXCEPT ![b] = "lock"] /\ queue' = Append(queue, b)
        BY <2>1 DEF run
    <3> QED
        BY <1>3, <3>1, QueueWaits DEF Inv
  <2>2. CASE ~s.attestation
    <3>1. pc' = [pc EXCEPT ![b] = "iris"] /\ queue' = queue
        BY <2>2 DEF run
    <3> QED
        BY <1>3, <3>1, QueueStays DEF Inv
  <2> QED
      BY <2>1, <2>2
<1>5. q \notin Counting
    BY DEF Counting
<1> HIDE DEF q
<1>6. Sound(s, q, tx[b], minter[b], b \in unsure')
    BY <1>1 DEF q
<1> QED
    BY <1>1, <1>2, <1>4, <1>5, <1>6, StepKeeps

-----------------------------------------------------------------------------
(* Every step keeps the invariant, one action at a time.                      *)

\* A job that ends with an error, whether to be retried or not.
LEMMA TransientKeeps ==
    ASSUME Inv, NEW b \in Burns, NEW code \in Codes, pc[b] \notin {"idle", "lock", "sent"},
           EndJob(b, transient(record[b], code)) \/ EndJob(b, fail(record[b], code)),
           UNCHANGED <<chainVars, unsure>>
    PROVE  Inv'
<1>1. record[b] \in Records
    BY TransferFacts
<1> QED
    BY <1>1, FailureKeeps, FailKeeps

\* A job may start again from the record a failed one left.
LEMMA ResumedSound ==
    ASSUME Inv, NEW b \in Burns, record[b] \in Records, pc[b] # "sent",
           NEW s, Keeps(record[b], s), ~isSettled(s)
    PROVE  Sound(s, IF s.attestation THEN "lock" ELSE "iris", tx[b], minter[b], b \in unsure)
<1> DEFINE u == b \in unsure
           r == record[b]
<1>1. Sound(r, pc[b], tx[b], minter[b], u) /\ u \in BOOLEAN /\ r \in Records
    BY TransferFacts
<1>2. /\ s \in Records /\ s.mintHash = r.mintHash /\ s.mintedBy = r.mintedBy
      /\ s.state # "arrived"
    BY DEF Keeps, isSettled
<1> HIDE DEF u, r
<1>3. Sound(s, "lock", tx[b], minter[b], u)
    BY <1>1, <1>2, ReworkSound
<1>4. Sound(s, "iris", tx[b], minter[b], u)
    BY <1>1, <1>2, ReworkSound
<1> QED
    BY <1>3, <1>4 DEF u

LEMMA RequestKeeps ==
    ASSUME Inv, NEW b \in Burns, request(b)
    PROVE  Inv'
<1>1. /\ Sound(record[b], pc[b], tx[b], minter[b], b \in unsure)
      /\ (b \in unsure) \in BOOLEAN /\ pc[b] = "idle"
      /\ UNCHANGED <<chainVars, unsure>>
    BY TransferFacts DEF request
<1>2. CASE ~Known(b) /\ run(b, NewRecord)
  <2>1. record[b] = NoRecord
      BY <1>2 DEF Known
  <2>2. tx[b] = <<>> /\ minter[b] \in {None, Other} \union DOMAIN tx[b]
      BY <1>1, <2>1 DEF Sound, Typed
  <2>3. Typed(NewRecord, "iris", tx[b], minter[b])
      BY <1>1, <2>2, NewRecordIs, NoRecordIsNone DEF Sound, Typed, Steps
  <2>4. Worked(NewRecord, "iris")
      BY DEF Worked
  <2>5. Linked(NewRecord, "iris", tx[b], minter[b])
      BY <2>2, NewRecordIs DEF Linked
  <2>6. InFlight(NewRecord, "iris", tx[b], minter[b])
      BY <2>2 DEF InFlight
  <2>7. Sound(NewRecord, "iris", tx[b], minter[b], b \in unsure)
      BY <2>3, <2>4, <2>5, <2>6 DEF Sound
  <2> QED
      BY <1>1, <1>2, <2>7, NewRecordIs, RunKeeps
<1>3. CASE Known(b) /\ run(b, [Reopened(record[b]) EXCEPT !.attempts = 0, !.retryingSince = "none"])
  <2> DEFINE s == [Reopened(record[b]) EXCEPT !.attempts = 0, !.retryingSince = "none"]
  <2>1. record[b] \in Records
      BY <1>3, TransferFacts
  <2>2. Keeps(record[b], s) /\ ~isSettled(s)
      BY <2>1, ReopenedKeeps
  <2>3. run(b, s) /\ Known(b)
      BY <1>3
  <2> HIDE DEF s
  <2>4. Sound(s, IF s.attestation THEN "lock" ELSE "iris", tx[b], minter[b], b \in unsure)
      BY <1>1, <2>1, <2>2, ResumedSound
  <2> QED
      BY <1>1, <2>2, <2>3, <2>4, RunKeeps DEF Keeps
<1> QED
    BY <1>2, <1>3 DEF request

LEMMA ResumeKeeps ==
    ASSUME Inv, NEW b \in Burns, Known(b), run(b, resumeFailed(record[b])),
           pc[b] \in {"idle", "gas"}, UNCHANGED <<chainVars, unsure>>
    PROVE  Inv'
<1> DEFINE s == resumeFailed(record[b])
<1>1. /\ Sound(record[b], pc[b], tx[b], minter[b], b \in unsure)
      /\ (b \in unsure) \in BOOLEAN /\ record[b] \in Records
    BY TransferFacts
<1>2. Keeps(record[b], s) /\ ~isSettled(s)
    BY <1>1, ReopenedKeeps DEF resumeFailed
<1> HIDE DEF s
<1>3. Sound(s, IF s.attestation THEN "lock" ELSE "iris", tx[b], minter[b], b \in unsure)
    BY <1>1, <1>2, ResumedSound
<1>4. run(b, s)
    BY DEF s
<1> QED
    BY <1>2, <1>3, <1>4, RunKeeps DEF Keeps

LEMMA RetryKeeps ==
    ASSUME Inv, NEW b \in Burns, retry(b)
    PROVE  Inv'
<1>1. /\ Sound(record[b], pc[b], tx[b], minter[b], b \in unsure)
      /\ (b \in unsure) \in BOOLEAN /\ record[b] \in Records
      /\ pc[b] = "idle" /\ Known(b) /\ UNCHANGED <<chainVars, unsure>>
    BY TransferFacts DEF retry
<1>2. ASSUME NEW q, GoTo(b, q), q \in {"lookup", "gas"},
             Sound(record[b], q, tx[b], minter[b], b \in unsure)
      PROVE  Inv'
  <2>1. q \notin Holding \union {"lock"} /\ pc[b] \notin Holding \union {"lock"} /\ q \notin Counting
      BY <1>1, <1>2 DEF Holding, Counting
  <2> QED
      BY <1>1, <1>2, <2>1, GoKeeps
<1>4. CASE record[b].state = "arrived" /\ GoTo(b, "lookup")
  <2>1. "lookup" \in Steps
      BY DEF Steps
  <2>2. Sound(record[b], "lookup", tx[b], minter[b], b \in unsure)
      BY <1>1, <1>4, <2>1, GoSound
  <2> QED
      BY <1>2, <1>4, <2>2
<1>5. CASE GoTo(b, "gas")
  <2>1. "gas" \in Steps
      BY DEF Steps
  <2>2. Sound(record[b], "gas", tx[b], minter[b], b \in unsure)
      BY <1>1, <2>1, GoSound
  <2> QED
      BY <1>2, <1>5, <2>2
<1>3. CASE run(b, resumeFailed(record[b]))
    BY <1>1, <1>3, ResumeKeeps
<1> QED
    BY <1>3, <1>4, <1>5 DEF retry

LEMMA CheckGasKeeps ==
    ASSUME Inv, NEW b \in Burns, CheckGas(b)
    PROVE  Inv'
<1>1. pc[b] = "gas" /\ UNCHANGED <<chainVars, unsure>> /\ "out_of_gas" \in Codes
    BY DEF CheckGas, Codes
<1>2. Known(b)
    BY <1>1, TransferFacts
<1> QED
    BY <1>1, <1>2, ResumeKeeps, TransientKeeps DEF CheckGas

\* Only the schedule of a record moves.
LEMMA ScheduleKeeps ==
    ASSUME Inv, NEW b \in Burns, NEW s \in Records, Known(b), record' = [record EXCEPT ![b] = s],
           UNCHANGED <<kind, pc, queue, chainVars, unsure>>,
           s.submittedAt = record[b].submittedAt,
           Sound(s, pc[b], tx[b], minter[b], b \in unsure)
    PROVE  Inv'
<1>1. /\ tx' = [tx EXCEPT ![b] = tx[b]] /\ minter' = [minter EXCEPT ![b] = minter[b]]
      /\ pc' = [pc EXCEPT ![b] = pc[b]] /\ unsure' = unsure /\ Exclusive' /\ kind' = kind
    BY Unchanging DEF chainVars
<1> QED
    BY <1>1, StepKeeps

LEMMA IrisPendingKeeps ==
    ASSUME Inv, NEW b \in Burns, IrisPending(b)
    PROVE  Inv'
<1> DEFINE s == [record[b] EXCEPT !.state = "confirming"]
<1>1. /\ Sound(record[b], pc[b], tx[b], minter[b], b \in unsure) /\ (b \in unsure) \in BOOLEAN
      /\ record[b] \in Records /\ pc[b] = "iris" /\ Known(b)
    BY TransferFacts DEF IrisPending
<1>2. /\ s \in Records /\ s.state = "confirming" /\ s.submittedAt = record[b].submittedAt
      /\ s.mintHash = record[b].mintHash /\ s.mintedBy = record[b].mintedBy
    BY <1>1 DEF Records
<1>3. record' = [record EXCEPT ![b] = s]
    BY DEF IrisPending
<1> HIDE DEF s
<1>4. Sound(s, "iris", tx[b], minter[b], b \in unsure)
    BY <1>1, <1>2, ReworkSound
<1> QED
    BY <1>1, <1>2, <1>3, <1>4, ScheduleKeeps DEF IrisPending

LEMMA IrisCompleteKeeps ==
    ASSUME Inv, NEW b \in Burns, IrisComplete(b)
    PROVE  Inv'
<1> DEFINE s == [record[b] EXCEPT !.state = "confirmed", !.attestation = TRUE]
<1>1. /\ Sound(record[b], pc[b], tx[b], minter[b], b \in unsure) /\ (b \in unsure) \in BOOLEAN
      /\ record[b] \in Records /\ pc[b] = "iris" /\ Known(b) /\ UNCHANGED <<chainVars, unsure>>
    BY TransferFacts DEF IrisComplete
<1>2. /\ s \in Records /\ s.state = "confirmed" /\ s.submittedAt = record[b].submittedAt
      /\ s.mintHash = record[b].mintHash /\ s.mintedBy = record[b].mintedBy /\ s.attestation = TRUE
    BY <1>1 DEF Records
<1> HIDE DEF s
<1>3. CASE run(b, s)
  <2>1. Sound(s, "lock", tx[b], minter[b], b \in unsure)
      BY <1>1, <1>2, ReworkSound
  <2> QED
      BY <1>1, <1>2, <1>3, <2>1, RunKeeps
<1>4. CASE EndJob(b, fail(record[b], "refused"))
  <2>1. "refused" \in Codes
      BY DEF Codes
  <2> QED
      BY <1>1, <1>4, <2>1, TransientKeeps
<1> QED
    BY <1>3, <1>4 DEF IrisComplete, s

LEMMA IrisTimeoutKeeps ==
    ASSUME Inv, NEW b \in Burns, IrisTimeout(b)
    PROVE  Inv'
<1>1. pc[b] = "iris" /\ UNCHANGED <<chainVars, unsure>> /\ {"unseen", "transient"} \subseteq Codes
    BY DEF IrisTimeout, Codes
<1> QED
    BY <1>1, TransientKeeps DEF IrisTimeout

-----------------------------------------------------------------------------
(* Inside the lock.                                                           *)

\* A step between two awaits inside the lock.
LEMMA WithinLock ==
    ASSUME Inv, NEW b \in Burns, NEW q, GoTo(b, q), UNCHANGED <<chainVars, unsure>>,
           pc[b] \in Holding \ {"sent"}, q \in Holding \ {"sent"},
           Sound(record[b], pc[b], tx[b], minter[b], b \in unsure)
               => Sound(record[b], q, tx[b], minter[b], b \in unsure),
           q \in Counting => pc[b] \in Counting \/ Cardinality(SubmittedToday) < dailyCap
    PROVE  Inv'
<1>1. Sound(record[b], q, tx[b], minter[b], b \in unsure)
    BY TransferFacts
<1>2. Known(b)
  <2>1. pc[b] # "idle"
      BY DEF Holding
  <2> QED
      BY <2>1, TransferFacts
<1> QED
    BY <1>1, <1>2, GoKeeps

\* The steps of the lock a job takes without knowing more than its record.
LEMMA FindSound ==
    ASSUME NEW r \in Records, NEW p, NEW t, NEW m, NEW u \in BOOLEAN, Sound(r, p, t, m, u),
           p # "sent", m # None
    PROVE  Sound(r, "find", t, m, u) /\ Sound(r, "nonce", t, m, u)
<1>1. "find" \in Steps /\ "nonce" \in Steps
    BY DEF Steps, Holding
<1> QED
    BY <1>1, GoSound

\* An own broadcast may be asked after.
LEMMA OwnSound ==
    ASSUME NEW r \in Records, NEW p, NEW t, NEW m, NEW u \in BOOLEAN, Sound(r, p, t, m, u),
           p # "sent", own_broadcast(r)
    PROVE  Sound(r, "own", t, m, u) /\ Sound(r, "own_nonce", t, m, u)
<1>1. "own" \in Steps /\ "own_nonce" \in Steps
    BY DEF Steps, Holding
<1> QED
    BY <1>1, GoSound

\* The nonce may be read when nothing of the relay is in flight, or it cannot know.
LEMMA NonceSound ==
    ASSUME NEW r \in Records, NEW p, NEW t, NEW m, NEW u \in BOOLEAN, Sound(r, p, t, m, u),
           p # "sent", u \/ m # None \/ NonePending(t)
    PROVE  Sound(r, "nonce", t, m, u)
<1>1. "nonce" \in Steps
    BY DEF Steps, Holding
<1> QED
    BY <1>1, GoSound

\* So may the mint be simulated and sent.
LEMMA SimulationSound ==
    ASSUME NEW r \in Records, NEW p, NEW t, NEW m, NEW u \in BOOLEAN, Sound(r, p, t, m, u),
           p # "sent", u \/ NonePending(t)
    PROVE  /\ Sound(r, "simulate", t, m, u) /\ Sound(r, "send", t, m, u)
           /\ Sound(r, "sim_revert", t, m, u) /\ Sound(r, "sim_rpc", t, m, u)
<1>1. {"simulate", "sim_revert", "sim_rpc", "send"} \subseteq Steps
    BY DEF Steps, Holding
<1> QED
    BY <1>1, GoSound

\* A receipt that is missing or reverted asks for nothing.
LEMMA UnminedSound ==
    ASSUME NEW r \in Records, NEW p, NEW t, NEW m, NEW u \in BOOLEAN, Sound(r, p, t, m, u),
           p # "sent"
    PROVE  Sound(r, "reverted", t, m, u) /\ Sound(r, "not_mined", t, m, u)
<1>1. "reverted" \in Steps /\ "not_mined" \in Steps
    BY DEF Steps, Holding
<1> QED
    BY <1>1, GoSound

\* The search for the mint starts once the burn's nonce is used.
LEMMA FindKeeps ==
    ASSUME Inv, NEW b \in Burns, GoTo(b, "find"), UNCHANGED <<chainVars, unsure>>,
           pc[b] \in Holding \ {"sent"}, isNonceUsed(b)
    PROVE  Inv'
<1>1. record[b] \in Records /\ (b \in unsure) \in BOOLEAN
  <2>1. pc[b] # "idle"
      BY DEF Holding
  <2> QED
      BY <2>1, TransferFacts
<1>2. "find" \in Holding \ {"sent"} /\ "find" \notin Counting
    BY DEF Holding, Counting
<1>3. Sound(record[b], pc[b], tx[b], minter[b], b \in unsure)
          => Sound(record[b], "find", tx[b], minter[b], b \in unsure)
    BY <1>1, FindSound DEF isNonceUsed
<1> QED
    BY <1>2, <1>3, WithinLock

\* The same as ArriveSound, of a burn in the current state.
LEMMA ArrivedSound ==
    ASSUME Inv, NEW b \in Burns, NEW s \in Records, record[b] \in Records, s.state = "arrived",
           s.mintHash \in {None, minter[b]}, minter[b] # None,
           s.mintedBy = "relay" => s.mintHash \in DOMAIN tx[b]
    PROVE  Sound(s, "idle", tx[b], minter[b], b \in unsure)
<1> DEFINE u == b \in unsure
<1>1. Sound(record[b], pc[b], tx[b], minter[b], u) /\ u \in BOOLEAN
    BY TransferFacts
<1> HIDE DEF u
<1>2. Sound(s, "idle", tx[b], minter[b], u)
    BY <1>1, ArriveSound
<1> QED
    BY <1>2 DEF u

\* A job that ends as arrived.
LEMMA ArrivalKeeps ==
    ASSUME Inv, NEW b \in Burns, NEW hash \in {None, minter[b]}, NEW by \in {"other", "relay"},
           pc[b] \notin {"idle", "lock"}, EndJob(b, arrived(record[b], hash, by)),
           UNCHANGED <<chainVars, unsure>>, isNonceUsed(b),
           by = "relay" => hash \in DOMAIN tx[b]
    PROVE  Inv'
<1> DEFINE s == arrived(record[b], hash, by)
<1>1. /\ Sound(record[b], pc[b], tx[b], minter[b], b \in unsure) /\ (b \in unsure) \in BOOLEAN
      /\ record[b] \in Records /\ hash \in Hashes
    BY TransferFacts DEF Hashes
<1>2. /\ s \in Records /\ s.state = "arrived" /\ s.submittedAt = record[b].submittedAt
      /\ s.mintHash = hash /\ s.mintedBy = by
    BY <1>1, ArrivedIs
<1>3. EndJob(b, s)
    OBVIOUS
<1> HIDE DEF s
<1>4. /\ s.mintHash \in {None, minter[b]} /\ minter[b] # None
      /\ s.mintedBy = "relay" => s.mintHash \in DOMAIN tx[b]
    BY <1>2 DEF isNonceUsed
<1>5. Sound(s, "idle", tx[b], minter[b], b \in unsure)
    BY <1>1, <1>2, <1>4, ArrivedSound
<1> QED
    BY <1>2, <1>3, <1>5, EndKeeps

\* What the receipt of the transaction the record names says of the nonce.
LEMMA ReceiptTells ==
    ASSUME Inv, NEW b \in Burns, pc[b] \in {"own", "receipt"}
    PROVE  /\ record[b] \in Records /\ own_broadcast(record[b]) /\ record[b].mintHash \in DOMAIN tx[b]
           /\ receipt(b) = "success" => minter[b] = record[b].mintHash /\ isNonceUsed(b)
           /\ receipt(b) = "reverted" => b \in unsure \/ minter[b] # None \/ NonePending(tx[b])
<1>1. /\ Sound(record[b], pc[b], tx[b], minter[b], b \in unsure)
      /\ record[b] \in Records /\ tx[b] \in Seq(Fates)
    BY TransferFacts
<1>2. own_broadcast(record[b])
    BY <1>1 DEF Sound, Linked
<1>3. record[b].mintHash \in DOMAIN tx[b]
    BY <1>1, <1>2, NoRecordIsNone DEF Sound, Linked, own_broadcast
<1>4. record[b].mintHash # None
    BY <1>2 DEF own_broadcast
<1>5. receipt(b) = "success" => tx[b][record[b].mintHash] = "success"
    BY DEF receipt
<1>6. receipt(b) = "reverted" => tx[b][record[b].mintHash] = "reverted"
    BY DEF receipt
<1>7. receipt(b) = "success" => minter[b] = record[b].mintHash
    BY <1>1, <1>3, <1>5 DEF Sound, Linked
<1>8. ASSUME receipt(b) = "reverted", b \notin unsure, minter[b] = None
      PROVE  NonePending(tx[b])
  <2>1. InFlight(record[b], pc[b], tx[b], minter[b]) /\ pc[b] # "sent"
      BY <1>1, <1>8 DEF Sound
  <2>2. \A i \in DOMAIN tx[b] : tx[b][i] = "pending" => record[b].mintHash = i
      BY <1>8, <2>1 DEF InFlight
  <2> QED
      BY <1>6, <1>8, <2>2 DEF NonePending
<1> QED
    BY <1>1, <1>2, <1>3, <1>4, <1>7, <1>8 DEF isNonceUsed

LEMMA LockKeeps ==
    ASSUME Inv, NEW b \in Burns, Lock(b)
    PROVE  Inv'
<1>1. /\ Sound(record[b], pc[b], tx[b], minter[b], b \in unsure) /\ (b \in unsure) \in BOOLEAN
      /\ record[b] \in Records /\ pc[b] = "lock" /\ Known(b) /\ Head(queue) = b
      /\ UNCHANGED <<chainVars, unsure>>
    BY TransferFacts DEF Lock, in_turn
<1>2. {"own", "nonce"} \subseteq (Holding \intersect Steps) \ {"idle", "sent"} /\ {"own", "nonce"} \intersect Counting = {}
    BY DEF Holding, Steps, Counting
<1>3. CASE own_broadcast(record[b]) /\ GoTo(b, "own")
  <2>1. Sound(record[b], "own", tx[b], minter[b], b \in unsure)
      BY <1>1, <1>3, OwnSound
  <2> QED
      BY <1>1, <1>2, <1>3, <2>1, GoKeeps
<1>4. CASE ~own_broadcast(record[b]) /\ GoTo(b, "nonce")
  <2>1. b \in unsure \/ minter[b] # None \/ NonePending(tx[b])
      BY <1>1, <1>4 DEF Sound, InFlight, NonePending
  <2>2. Sound(record[b], "nonce", tx[b], minter[b], b \in unsure)
      BY <1>1, <2>1, NonceSound
  <2> QED
      BY <1>1, <1>2, <1>4, <2>2, GoKeeps
<1> QED
    BY <1>3, <1>4 DEF Lock

LEMMA OwnReceiptKeeps ==
    ASSUME Inv, NEW b \in Burns, OwnReceipt(b)
    PROVE  Inv'
<1>1. /\ record[b] \in Records /\ (b \in unsure) \in BOOLEAN /\ pc[b] = "own"
      /\ UNCHANGED <<chainVars, unsure>>
    BY TransferFacts DEF OwnReceipt
<1>2. /\ pc[b] \in Holding \ {"sent"} /\ {"own_nonce", "nonce"} \subseteq (Holding \intersect Steps) \ {"idle", "sent"}
      /\ {"own_nonce", "nonce"} \intersect Counting = {}
    BY <1>1 DEF Holding, Steps, Counting
<1>3. CASE receipt(b) = "success" /\ EndJob(b, arrived(record[b], record[b].mintHash, "relay"))
  <2>1. /\ record[b].mintHash \in {None, minter[b]} /\ record[b].mintHash \in DOMAIN tx[b]
        /\ isNonceUsed(b)
      BY <1>1, <1>3, ReceiptTells
  <2> QED
      BY <1>1, <1>3, <2>1, ArrivalKeeps
<1>4. CASE receipt(b) = "reverted" /\ GoTo(b, "nonce")
  <2>1. b \in unsure \/ minter[b] # None \/ NonePending(tx[b])
      BY <1>1, <1>4, ReceiptTells
  <2>2. Sound(record[b], pc[b], tx[b], minter[b], b \in unsure)
            => Sound(record[b], "nonce", tx[b], minter[b], b \in unsure)
      BY <1>1, <2>1, NonceSound
  <2> QED
      BY <1>1, <1>2, <1>4, <2>2, WithinLock
<1>5. CASE GoTo(b, "own_nonce")
  <2>1. own_broadcast(record[b])
      BY <1>1, ReceiptTells
  <2>2. Sound(record[b], pc[b], tx[b], minter[b], b \in unsure)
            => Sound(record[b], "own_nonce", tx[b], minter[b], b \in unsure)
      BY <1>1, <2>1, OwnSound
  <2> QED
      BY <1>1, <1>2, <1>5, <2>2, WithinLock
<1> QED
    BY <1>3, <1>4, <1>5 DEF OwnReceipt

LEMMA OwnPendingKeeps ==
    ASSUME Inv, NEW b \in Burns, OwnPending(b)
    PROVE  Inv'
<1>1. /\ record[b] \in Records /\ (b \in unsure) \in BOOLEAN /\ pc[b] = "own_nonce"
      /\ UNCHANGED <<chainVars, unsure>> /\ "transient" \in Codes
    BY TransferFacts DEF OwnPending, Codes
<1>2. pc[b] \in Holding \ {"sent"} /\ "nonce" \in Holding \ {"sent"} /\ "nonce" \notin Counting
    BY <1>1 DEF Holding, Counting
<1>3. CASE isNonceUsed(b) /\ GoTo(b, "nonce")
  <2>1. Sound(record[b], pc[b], tx[b], minter[b], b \in unsure)
            => Sound(record[b], "nonce", tx[b], minter[b], b \in unsure)
      BY <1>1, <1>3, FindSound DEF isNonceUsed
  <2> QED
      BY <1>1, <1>2, <1>3, <2>1, WithinLock
<1>4. CASE EndJob(b, transient(record[b], "transient"))
    BY <1>1, <1>4, TransientKeeps
<1> QED
    BY <1>3, <1>4 DEF OwnPending

\* With the nonce unspent, a job that comes to the nonce has nothing in flight
\* that it knows of.
LEMMA NothingInFlight ==
    ASSUME Inv, NEW b \in Burns,
           \/ pc[b] = "nonce" /\ ~isNonceUsed(b)
           \/ pc[b] \in {"simulate", "sim_revert", "sim_rpc", "send"}
    PROVE  b \in unsure \/ NonePending(tx[b])
BY TransferFacts DEF Sound, InFlight, NonePending, isNonceUsed

LEMMA CheckNonceKeeps ==
    ASSUME Inv, NEW b \in Burns, CheckNonce(b)
    PROVE  Inv'
<1>1. /\ record[b] \in Records /\ (b \in unsure) \in BOOLEAN /\ pc[b] = "nonce"
      /\ UNCHANGED <<chainVars, unsure>> /\ "daily_cap" \in Codes
    BY TransferFacts DEF CheckNonce, Codes
<1>2. pc[b] \in Holding \ {"sent"} /\ "simulate" \in Holding \ {"sent"}
    BY <1>1 DEF Holding
<1>3. CASE isNonceUsed(b) /\ GoTo(b, "find")
    BY <1>1, <1>2, <1>3, FindKeeps
<1>4. CASE EndJob(b, transient(record[b], "daily_cap"))
    BY <1>1, <1>4, TransientKeeps
<1>5. CASE ~isNonceUsed(b) /\ Cardinality(SubmittedToday) < dailyCap /\ GoTo(b, "simulate")
  <2>1. b \in unsure \/ NonePending(tx[b])
      BY <1>1, <1>5, NothingInFlight
  <2>2. Sound(record[b], pc[b], tx[b], minter[b], b \in unsure)
            => Sound(record[b], "simulate", tx[b], minter[b], b \in unsure)
      BY <1>1, <2>1, SimulationSound
  <2> QED
      BY <1>1, <1>2, <1>5, <2>2, WithinLock
<1> QED
    BY <1>3, <1>4, <1>5 DEF CheckNonce

LEMMA SimulateKeeps ==
    ASSUME Inv, NEW b \in Burns, simulateReceive(b)
    PROVE  Inv'
<1>1. /\ record[b] \in Records /\ (b \in unsure) \in BOOLEAN /\ pc[b] = "simulate"
      /\ UNCHANGED <<chainVars, unsure>>
    BY TransferFacts DEF simulateReceive
<1>2. b \in unsure \/ NonePending(tx[b])
    BY <1>1, NothingInFlight
<1>3. ASSUME NEW q, GoTo(b, q), q \in {"send", "sim_revert", "sim_rpc"},
             Sound(record[b], pc[b], tx[b], minter[b], b \in unsure)
                 => Sound(record[b], q, tx[b], minter[b], b \in unsure)
      PROVE  Inv'
  <2>1. pc[b] \in (Holding \intersect Counting) \ {"sent"} /\ q \in Holding \ {"sent"}
      BY <1>1, <1>3 DEF Holding, Counting
  <2> QED
      BY <1>1, <1>3, <2>1, WithinLock
<1>4. Sound(record[b], pc[b], tx[b], minter[b], b \in unsure)
          => /\ Sound(record[b], "send", tx[b], minter[b], b \in unsure)
             /\ Sound(record[b], "sim_revert", tx[b], minter[b], b \in unsure)
             /\ Sound(record[b], "sim_rpc", tx[b], minter[b], b \in unsure)
    BY <1>1, <1>2, SimulationSound
<1> QED
    BY <1>3, <1>4 DEF simulateReceive

LEMMA SimulationFailedKeeps ==
    ASSUME Inv, NEW b \in Burns, SimulationFailed(b)
    PROVE  Inv'
<1>1. /\ pc[b] \in {"sim_revert", "sim_rpc"} /\ UNCHANGED <<chainVars, unsure>>
      /\ {"transient", "mint_refused"} \subseteq Codes
    BY DEF SimulationFailed, Codes
<1>2. pc[b] \in Holding \ {"sent"} /\ pc[b] \notin {"idle", "lock", "sent"}
    BY <1>1 DEF Holding
<1>3. CASE isNonceUsed(b) /\ GoTo(b, "find")
    BY <1>1, <1>2, <1>3, FindKeeps
<1> QED
    BY <1>1, <1>2, <1>3, TransientKeeps DEF SimulationFailed

LEMMA SendKeeps ==
    ASSUME Inv, NEW b \in Burns, sendReceive(b)
    PROVE  Inv'
<1> DEFINE t == Append(tx[b], "pending")
           u == b \in unsure
           s == transient(record[b], "transient")
<1>1. /\ Sound(record[b], "send", tx[b], minter[b], u) /\ u \in BOOLEAN
      /\ record[b] \in Records /\ pc[b] = "send" /\ Known(b) /\ "transient" \in Codes
    BY TransferFacts DEF sendReceive, Codes
<1>2. /\ tx' = [tx EXCEPT ![b] = t] /\ minter' = [minter EXCEPT ![b] = minter[b]]
    BY Unchanging DEF sendReceive, Broadcast
<1>3. /\ pc[b] \in Holding \intersect Counting /\ "sent" \in Holding /\ "idle" \notin Counting
      /\ pc[b] # "lock"
    BY <1>1 DEF Holding, Counting
<1> HIDE DEF u
<1>4. /\ Sound(record[b], "sent", t, minter[b], u)
      /\ \A v \in Records :
           v.mintHash = record[b].mintHash /\ v.mintedBy = record[b].mintedBy /\ v.state = "failed"
             => Sound(v, "idle", t, minter[b], TRUE)
    BY <1>1, BroadcastSound
<1> HIDE DEF t
<1>5. CASE GoTo(b, "sent") /\ UNCHANGED unsure
  <2>1. /\ record' = [record EXCEPT ![b] = record[b]] /\ pc' = [pc EXCEPT ![b] = "sent"]
        /\ kind' = kind /\ queue' = queue /\ unsure' = unsure
      BY <1>5, Unchanging DEF GoTo
  <2>2. Exclusive'
      BY <1>3, <2>1, QueueStays DEF Inv
  <2>3. Sound(record[b], "sent", t, minter[b], b \in unsure')
      BY <1>4, <2>1 DEF u
  <2> QED
      BY <1>1, <1>2, <1>3, <2>1, <2>2, <2>3, StepKeeps
<1>6. CASE EndJob(b, s) /\ unsure' = unsure \union {b}
  <2>1. Keeps(record[b], s) /\ s.state = "failed"
      BY <1>1, FailureKeeps
  <2> HIDE DEF s
  <2>2. /\ record' = [record EXCEPT ![b] = s] /\ pc' = [pc EXCEPT ![b] = "idle"] /\ kind' = kind
      BY <1>6 DEF EndJob
  <2>3. Exclusive'
      BY <1>3, <1>6, QueueEnds DEF Inv, EndJob
  <2>4. Sound(s, "idle", t, minter[b], TRUE)
      BY <1>4, <2>1 DEF Keeps
  <2>5. (b \in unsure') = TRUE
      BY <1>6
  <2>6. Sound(s, "idle", t, minter[b], b \in unsure')
      BY <2>4, <2>5
  <2>7. s \in Records /\ s.submittedAt = record[b].submittedAt
      BY <2>1 DEF Keeps
  <2> QED
      BY <1>1, <1>2, <1>3, <1>6, <2>2, <2>3, <2>6, <2>7, StepKeeps
<1> QED
    BY <1>5, <1>6 DEF sendReceive

LEMMA NotSentKeeps ==
    ASSUME Inv, NEW b \in Burns, NotSent(b)
    PROVE  Inv'
<1>1. pc[b] = "send" /\ UNCHANGED <<chainVars, unsure>> /\ {"out_of_gas", "transient"} \subseteq Codes
    BY DEF NotSent, Codes
<1> QED
    BY <1>1, TransientKeeps DEF NotSent

\* The one step that adds to the day's count: its job is alone in the lock, so
\* the count it read is still true.
LEMMA SubmittedKeeps ==
    ASSUME Inv, NEW b \in Burns, Submitted(b)
    PROVE  Inv'
<1> DEFINE t == tx[b]
           u == b \in unsure
           v == [record[b] EXCEPT !.state = "submitted", !.mintHash = Len(t)]
           s == [v EXCEPT !.mintedBy = "relay", !.submittedAt = "today"]
<1>1. /\ Sound(record[b], "sent", t, minter[b], u) /\ u \in BOOLEAN
      /\ record[b] \in Records /\ pc[b] = "sent" /\ t \in Seq(Fates)
    BY TransferFacts DEF Submitted
<1>2. /\ record' = [record EXCEPT ![b] = s] /\ pc' = [pc EXCEPT ![b] = "receipt"]
      /\ tx' = [tx EXCEPT ![b] = t] /\ minter' = [minter EXCEPT ![b] = minter[b]]
      /\ unsure' = unsure /\ kind' = kind /\ queue' = queue
    BY Unchanging DEF Submitted, chainVars
<1>3. Len(t) \in Hashes
    BY <1>1 DEF Hashes
<1> HIDE DEF t, u
<1>4. v \in Records /\ v.state = "submitted" /\ v.mintHash = Len(t)
    BY <1>1, <1>3 DEF Records
<1> HIDE DEF v
<1>5. /\ s \in Records /\ s.state = "submitted" /\ s.mintHash = Len(t) /\ s.mintedBy = "relay"
      /\ s.submittedAt = "today"
    BY <1>4 DEF Records
<1> HIDE DEF s
<1>6. Sound(s, "receipt", t, minter[b], u)
    BY <1>1, <1>5, SubmittedSound
<1>7. Shapes' /\ TransfersSound'
  <2>1. Sound(s, "receipt", t, minter[b], b \in unsure')
      BY <1>2, <1>6 DEF u
  <2> QED
      BY <1>2, <1>5, <2>1, OneTransferMoves
<1>8. pc[b] \in Holding /\ "receipt" \in Holding
    BY <1>1 DEF Holding
<1>9. Exclusive'
    BY <1>2, <1>8, QueueStays DEF Inv
<1>10. SubmittedToday' = SubmittedToday \union {b}
  <2>1. \A c \in Burns : record'[c] = IF c = b THEN s ELSE record[c]
      BY <1>2 DEF Inv, Shapes
  <2>2. s # NoRecord
      BY <1>5, NoRecordIsNone
  <2> QED
      BY <1>5, <2>1, <2>2 DEF SubmittedToday, Known
<1>11. IsFiniteSet(SubmittedToday) /\ Cardinality(SubmittedToday) \in Nat
    BY RelayAssumption, FS_Subset, FS_CardinalityType DEF SubmittedToday
<1>12. /\ Cardinality(SubmittedToday \union {b}) \in Nat
       /\ Cardinality(SubmittedToday \union {b}) <= Cardinality(SubmittedToday) + 1
  <2> DEFINE S == SubmittedToday
  <2>1. /\ IsFiniteSet(S \union {b})
        /\ Cardinality(S \union {b}) = IF b \in S THEN Cardinality(S) ELSE Cardinality(S) + 1
      BY <1>11, FS_AddElement
  <2> HIDE DEF S
  <2>2. CASE b \in S
      BY <1>11, <2>1, <2>2 DEF S
  <2>3. CASE b \notin S
      BY <1>11, <2>1, <2>3 DEF S
  <2> QED
      BY <2>2, <2>3
<1>13. Cardinality(SubmittedToday) < dailyCap
    BY <1>1 DEF Inv, UnderCap
<1>14. \A c \in Burns : pc'[c] \notin Counting
  <2>1. ASSUME NEW c \in Burns, c # b
        PROVE  pc[c] \notin Counting
    <3>1. Counting \subseteq Holding
        BY DEF Counting, Holding
    <3> QED
        BY <1>8, <2>1, <3>1, HolderIsAlone DEF Inv
  <2>2. \A c \in Burns : pc'[c] = IF c = b THEN "receipt" ELSE pc[c]
      BY <1>2 DEF Inv, Shapes
  <2> QED
      BY <2>1, <2>2 DEF Counting
<1>15. UnderCap'
  <2>1. Cardinality(SubmittedToday \union {b}) <= dailyCap
      BY <1>11, <1>12, <1>13, RelayAssumption
  <2> QED
      BY <1>10, <1>14, <2>1 DEF UnderCap, Counting
<1> QED
    BY <1>7, <1>9, <1>15 DEF Inv

LEMMA AwaitReceiptKeeps ==
    ASSUME Inv, NEW b \in Burns, awaitReceipt(b)
    PROVE  Inv'
<1>1. /\ record[b] \in Records /\ (b \in unsure) \in BOOLEAN /\ pc[b] = "receipt"
      /\ UNCHANGED <<chainVars, unsure>>
    BY TransferFacts DEF awaitReceipt
<1>2. CASE receipt(b) = "success" /\ EndJob(b, arrived(record[b], record[b].mintHash, "relay"))
  <2>1. /\ record[b].mintHash \in {None, minter[b]} /\ record[b].mintHash \in DOMAIN tx[b]
        /\ isNonceUsed(b)
      BY <1>1, <1>2, ReceiptTells
  <2> QED
      BY <1>1, <1>2, <2>1, ArrivalKeeps
<1>3. ASSUME NEW q, GoTo(b, q), q \in {"reverted", "not_mined"},
             Sound(record[b], pc[b], tx[b], minter[b], b \in unsure)
                 => Sound(record[b], q, tx[b], minter[b], b \in unsure)
      PROVE  Inv'
  <2>1. pc[b] \in Holding \ {"sent"} /\ q \in Holding \ {"sent"} /\ q \notin Counting
      BY <1>1, <1>3 DEF Holding, Counting
  <2> QED
      BY <1>1, <1>3, <2>1, WithinLock
<1>4. Sound(record[b], pc[b], tx[b], minter[b], b \in unsure)
          => /\ Sound(record[b], "reverted", tx[b], minter[b], b \in unsure)
             /\ Sound(record[b], "not_mined", tx[b], minter[b], b \in unsure)
    BY <1>1, UnminedSound
<1> QED
    BY <1>2, <1>3, <1>4 DEF awaitReceipt

LEMMA NotMinedKeeps ==
    ASSUME Inv, NEW b \in Burns, NotMined(b)
    PROVE  Inv'
<1>1. /\ pc[b] \in {"reverted", "not_mined"} /\ UNCHANGED <<chainVars, unsure>> /\ "transient" \in Codes
    BY DEF NotMined, Codes
<1>2. pc[b] \in Holding \ {"sent"} /\ pc[b] \notin {"idle", "lock", "sent"}
    BY <1>1 DEF Holding
<1>3. CASE isNonceUsed(b) /\ GoTo(b, "find")
    BY <1>1, <1>2, <1>3, FindKeeps
<1> QED
    BY <1>1, <1>2, <1>3, TransientKeeps DEF NotMined

LEMMA ThrowsKeeps ==
    ASSUME Inv, NEW b \in Burns, Throws(b)
    PROVE  Inv'
<1>1. /\ pc[b] \notin {"idle", "lock", "sent"} /\ UNCHANGED <<chainVars, unsure>>
      /\ EndJob(b, transient(record[b], "transient")) /\ "transient" \in Codes
    BY DEF Throws, Codes
<1> QED
    BY <1>1, TransientKeeps

\* Another's transaction, or one of the relay's own, is what spent the nonce.
LEMMA MinterIsFound ==
    ASSUME Inv, NEW b \in Burns, NEW found \in {minter[b], None}
    PROVE  /\ mintedByOf(found) \in {"other", "relay"}
           /\ mintedByOf(found) = "relay" => found \in DOMAIN tx[b]
BY TransferFacts DEF mintedByOf

LEMMA MintedElsewhereKeeps ==
    ASSUME Inv, NEW b \in Burns, mintedElsewhere(b)
    PROVE  Inv'
<1>1. pc[b] = "find" /\ UNCHANGED <<chainVars, unsure>>
    BY DEF mintedElsewhere
<1>2. isNonceUsed(b)
    BY <1>1, TransferFacts DEF Sound, Linked, isNonceUsed
<1>3. PICK found \in {minter[b], None} : EndJob(b, arrived(record[b], found, mintedByOf(found)))
    BY DEF mintedElsewhere, findMintTx
<1>4. /\ mintedByOf(found) \in {"other", "relay"}
      /\ mintedByOf(found) = "relay" => found \in DOMAIN tx[b]
    BY MinterIsFound
<1> QED
    BY <1>1, <1>2, <1>3, <1>4, ArrivalKeeps

LEMMA LookupKeeps ==
    ASSUME Inv, NEW b \in Burns, lookupMintAgain(b)
    PROVE  Inv'
<1> DEFINE r == record[b]
           found == minter[b]
           by == mintedByOf(found)
           s == [r EXCEPT !.mintHash = found, !.mintedBy = by, !.retryAt = "none", !.attempts = 0]
           when == IF more(r.attempts + 1) THEN "later" ELSE "none"
           v == [r EXCEPT !.attempts = r.attempts + 1, !.retryAt = when]
<1>1. /\ Sound(r, pc[b], tx[b], minter[b], b \in unsure) /\ r \in Records /\ found \in Hashes
      /\ pc[b] = "lookup" /\ UNCHANGED <<chainVars, unsure>>
    BY TransferFacts DEF lookupMintAgain
<1>2. r.state = "arrived" /\ minter[b] # None /\ r.mintHash \in {None, minter[b]}
      /\ (r.mintedBy = "relay" => r.mintHash \in DOMAIN tx[b])
    BY <1>1, NoRecordIsNone DEF Sound, Linked
<1>3. by \in {"other", "relay"} /\ (by = "relay" => found \in DOMAIN tx[b])
    BY MinterIsFound
<1>4. EndJob(b, s) \/ EndJob(b, v)
    BY DEF lookupMintAgain, findMintTx
<1>5. when \in {"none", "later"} /\ r.attempts + 1 \in Nat
    BY <1>1 DEF Records
<1> HIDE DEF found, by, when
<1>6. s \in Records /\ s.state = r.state /\ s.submittedAt = r.submittedAt /\ s.mintHash = found /\ s.mintedBy = by
    BY <1>1, <1>3 DEF Records
<1>7. /\ v \in Records /\ v.state = r.state /\ v.submittedAt = r.submittedAt
      /\ v.mintHash = r.mintHash /\ v.mintedBy = r.mintedBy
    BY <1>1, <1>5 DEF Records
<1> HIDE DEF s, v
<1>8. CASE EndJob(b, s)
  <2>1. Sound(s, "idle", tx[b], minter[b], b \in unsure)
    <3>1. /\ s.mintHash \in {None, minter[b]} /\ s.state = "arrived"
          /\ s.mintedBy = "relay" => s.mintHash \in DOMAIN tx[b]
        BY <1>2, <1>3, <1>6 DEF found
    <3> QED
        BY <1>1, <1>2, <1>6, <3>1, ArrivedSound
  <2> QED
      BY <1>1, <1>6, <1>8, <2>1, EndKeeps
<1>9. CASE EndJob(b, v)
  <2>1. Sound(v, "idle", tx[b], minter[b], b \in unsure)
    <3>1. /\ v.mintHash \in {None, minter[b]} /\ v.state = "arrived"
          /\ v.mintedBy = "relay" => v.mintHash \in DOMAIN tx[b]
        BY <1>2, <1>7
    <3> QED
        BY <1>1, <1>2, <1>7, <3>1, ArrivedSound
  <2> QED
      BY <1>1, <1>7, <1>9, <2>1, EndKeeps
<1> QED
    BY <1>4, <1>8, <1>9

LEMMA JobKeeps ==
    ASSUME Inv, NEW b \in Burns, Job(b)
    PROVE  Inv'
BY CheckGasKeeps, IrisPendingKeeps, IrisCompleteKeeps, IrisTimeoutKeeps, LockKeeps, OwnReceiptKeeps,
   OwnPendingKeeps, CheckNonceKeeps, SimulateKeeps, SimulationFailedKeeps, SendKeeps, NotSentKeeps,
   SubmittedKeeps, AwaitReceiptKeeps, NotMinedKeeps, ThrowsKeeps, MintedElsewhereKeeps, LookupKeeps
   DEF Job

-----------------------------------------------------------------------------
(* Base Sepolia, clocks and crashes.                                          *)

\* A step of Base Sepolia keeps the invariant if the burn stays sound.
LEMMA ChainKeeps ==
    ASSUME Inv, NEW b \in Burns, NEW t, NEW m, tx' = [tx EXCEPT ![b] = t],
           minter' = [minter EXCEPT ![b] = m], UNCHANGED <<kind, record, pc, queue, unsure>>,
           Sound(record[b], pc[b], t, m, b \in unsure)
    PROVE  Inv'
<1>1. /\ Exclusive' /\ record \in [Burns -> Records \union {NoRecord}]
    BY Unchanging DEF Inv, Shapes
<1>2. t \in Seq(Fates) /\ m \in {None, Other} \union DOMAIN t
    BY DEF Sound, Typed
<1>3. m \in Hashes
    BY <1>2 DEF Hashes
<1>4. Shapes'
    BY <1>2, <1>3 DEF Inv, Shapes
<1>5. ASSUME NEW c \in Burns
      PROVE  Sound(record[c], pc[c], tx'[c], minter'[c], c \in unsure)
  <2>1. CASE c = b
    <3>1. tx'[c] = t /\ minter'[c] = m
        BY <2>1 DEF Inv, Shapes
    <3> QED
        BY <2>1, <3>1
  <2>2. CASE c # b
    <3>1. tx'[c] = tx[c] /\ minter'[c] = minter[c]
        BY <2>2 DEF Inv, Shapes
    <3> QED
        BY <3>1 DEF Inv, TransfersSound
  <2> QED
      BY <2>1, <2>2
<1>6. TransfersSound'
    BY <1>5 DEF TransfersSound
<1>7. SubmittedToday' = SubmittedToday
    BY DEF SubmittedToday, Known
<1>8. UnderCap'
    BY <1>7 DEF Inv, UnderCap
<1> QED
    BY <1>1, <1>4, <1>6, <1>8 DEF Inv

\* Whatever becomes of a broadcast, the burn stays sound.
LEMMA MinedSound ==
    ASSUME Inv, NEW b \in Burns, NEW i \in DOMAIN tx[b], tx[b][i] = "pending"
    PROVE  /\ ~isNonceUsed(b) =>
                 Sound(record[b], pc[b], [tx[b] EXCEPT ![i] = "success"], i, b \in unsure)
           /\ Sound(record[b], pc[b], [tx[b] EXCEPT ![i] = "reverted"], minter[b], b \in unsure)
           /\ Sound(record[b], pc[b], [tx[b] EXCEPT ![i] = "dropped"], minter[b], b \in unsure)
<1> DEFINE u == b \in unsure
           r == record[b]
           p == pc[b]
           t == tx[b]
           m == minter[b]
<1>1. Sound(r, p, t, m, u) /\ u \in BOOLEAN /\ i \in DOMAIN t /\ t[i] = "pending"
    BY TransferFacts
<1> HIDE DEF u, r, p, t, m
<1>2. ASSUME m = None, NEW v, v = [t EXCEPT ![i] = "success"]
      PROVE  Sound(r, p, v, i, u)
    BY <1>1, <1>2, MintedOnChain
<1>3. ASSUME NEW v, v = [t EXCEPT ![i] = "reverted"]
      PROVE  Sound(r, p, v, m, u)
    BY <1>1, <1>3, FailedOnChain
<1>4. ASSUME NEW v, v = [t EXCEPT ![i] = "dropped"]
      PROVE  Sound(r, p, v, m, u)
    BY <1>1, <1>4, FailedOnChain
<1> QED
    BY <1>2, <1>3, <1>4 DEF u, r, p, t, m, isNonceUsed

LEMMA MineKeeps ==
    ASSUME Inv, NEW b \in Burns, NEW i \in 1..Len(tx[b]), Mine(b, i) \/ Drop(b, i)
    PROVE  Inv'
<1>1. tx[b][i] = "pending" /\ UNCHANGED <<kind, record, pc, queue, unsure>> /\ i \in DOMAIN tx[b]
    BY TransferFacts DEF Mine, Drop
<1>5. CASE ~isNonceUsed(b) /\ tx' = [tx EXCEPT ![b][i] = "success"] /\ minter' = [minter EXCEPT ![b] = i]
  <2>1. tx' = [tx EXCEPT ![b] = [tx[b] EXCEPT ![i] = "success"]]
      BY <1>5
  <2> QED
      BY <1>1, <1>5, <2>1, MinedSound, ChainKeeps
<1>6. CASE tx' = [tx EXCEPT ![b][i] = "reverted"] /\ UNCHANGED minter
  <2>1. /\ tx' = [tx EXCEPT ![b] = [tx[b] EXCEPT ![i] = "reverted"]]
        /\ minter' = [minter EXCEPT ![b] = minter[b]]
      BY <1>6, Unchanging
  <2> QED
      BY <1>1, <2>1, MinedSound, ChainKeeps
<1>7. CASE tx' = [tx EXCEPT ![b][i] = "dropped"] /\ UNCHANGED minter
  <2>1. /\ tx' = [tx EXCEPT ![b] = [tx[b] EXCEPT ![i] = "dropped"]]
        /\ minter' = [minter EXCEPT ![b] = minter[b]]
      BY <1>7, Unchanging
  <2> QED
      BY <1>1, <2>1, MinedSound, ChainKeeps
<1> QED
    BY <1>5, <1>6, <1>7 DEF Mine, Drop

LEMMA OtherMintsKeeps ==
    ASSUME Inv, NEW b \in Burns, OtherMints(b)
    PROVE  Inv'
<1> DEFINE u == b \in unsure
<1>1. Sound(record[b], pc[b], tx[b], None, u) /\ u \in BOOLEAN
    BY TransferFacts DEF OtherMints, isNonceUsed
<1>2. /\ UNCHANGED <<kind, record, pc, queue, unsure>> /\ tx' = [tx EXCEPT ![b] = tx[b]]
      /\ minter' = [minter EXCEPT ![b] = Other]
    BY Unchanging DEF OtherMints
<1> HIDE DEF u
<1>3. Sound(record[b], pc[b], tx[b], Other, u)
    BY <1>1, OtherSound
<1> QED
    BY <1>2, <1>3, ChainKeeps DEF u

LEMMA TimePassesKeeps ==
    ASSUME Inv, NEW b \in Burns, RetryTimeComes(b) \/ DeadlinePasses(b)
    PROVE  Inv'
<1> DEFINE u == b \in unsure
<1>1. /\ Sound(record[b], pc[b], tx[b], minter[b], u) /\ u \in BOOLEAN
      /\ record[b] \in Records /\ Known(b) /\ UNCHANGED <<kind, pc, queue, chainVars, unsure>>
    BY TransferFacts DEF RetryTimeComes, DeadlinePasses
<1>2. PICK s : /\ record' = [record EXCEPT ![b] = s]
               /\ \/ s = [record[b] EXCEPT !.retryAt = "due"]
                  \/ s = [record[b] EXCEPT !.retryingSince = "old"]
    BY DEF RetryTimeComes, DeadlinePasses
<1>3. s \in Records
    BY <1>1, <1>2 DEF Records
<1>4. /\ s.submittedAt = record[b].submittedAt /\ s.state = record[b].state
      /\ s.mintHash = record[b].mintHash /\ s.mintedBy = record[b].mintedBy
    BY <1>1, <1>2 DEF Records
<1> HIDE DEF u
<1>5. Sound(s, pc[b], tx[b], minter[b], u)
    BY <1>1, <1>3, <1>4, TimeSound
<1> QED
    BY <1>1, <1>2, <1>3, <1>4, <1>5, ScheduleKeeps DEF u

\* Midnight empties the count.
LEMMA MidnightKeeps ==
    ASSUME Inv, Midnight
    PROVE  Inv'
<1> DEFINE AtMidnight(r) == [r EXCEPT !.submittedAt = IF @ = "today" THEN "before" ELSE @,
                                        !.retryAt = IF @ = "midnight" THEN "due" ELSE @]
<1>1. /\ UNCHANGED <<kind, pc, queue, chainVars, unsure>>
      /\ record' = [b \in Burns |-> IF ~Known(b) THEN NoRecord ELSE AtMidnight(record[b])]
    BY DEF Midnight
<1>2. ASSUME NEW r \in Records
      PROVE  /\ AtMidnight(r) \in Records /\ AtMidnight(r).submittedAt # "today"
             /\ AtMidnight(r).mintHash = r.mintHash /\ AtMidnight(r).mintedBy = r.mintedBy
             /\ AtMidnight(r).state = r.state
  <2>1. PICK day \in {"none", "before"}, at \in {"none", "later", "due"} :
             AtMidnight(r) = [r EXCEPT !.submittedAt = day, !.retryAt = at]
    <3>1. r.submittedAt \in {"none", "today", "before"} /\ r.retryAt \in {"none", "later", "due", "midnight"}
        BY <1>2 DEF Records
    <3> QED
        BY <3>1
  <2> QED
      BY <2>1 DEF Records
<1> HIDE DEF AtMidnight
<1>3. ASSUME NEW b \in Burns
      PROVE  /\ record'[b] \in Records \union {NoRecord}
             /\ record'[b] \in Records => record'[b].submittedAt # "today"
             /\ Sound(record'[b], pc[b], tx[b], minter[b], b \in unsure)
  <2> DEFINE u == b \in unsure
  <2>1. Sound(record[b], pc[b], tx[b], minter[b], u) /\ u \in BOOLEAN /\ (Known(b) <=> record[b] \in Records)
      BY TransferFacts
  <2> HIDE DEF u
  <2>2. CASE ~Known(b)
    <3>1. record'[b] = NoRecord /\ record[b] = NoRecord
        BY <1>1, <2>2 DEF Known
    <3> QED
        BY <2>1, <3>1, NoRecordIsNone DEF u
  <2>3. CASE Known(b)
    <3>1. record'[b] = AtMidnight(record[b])
        BY <1>1, <2>3
    <3>2. Sound(AtMidnight(record[b]), pc[b], tx[b], minter[b], u)
        BY <1>2, <2>1, <2>3, TimeSound
    <3> QED
        BY <1>2, <2>1, <2>3, <3>1, <3>2 DEF u
  <2> QED
      BY <2>2, <2>3
<1>4. record' \in [Burns -> Records \union {NoRecord}]
  <2>1. ASSUME NEW b \in Burns
        PROVE  (IF ~Known(b) THEN NoRecord ELSE AtMidnight(record[b])) \in Records \union {NoRecord}
      BY <1>2, TransferFacts
  <2> QED
      BY <1>1, <2>1
<1>5. Shapes' /\ TransfersSound' /\ Exclusive'
  <2>1. Shapes'
      BY <1>1, <1>4 DEF Inv, Shapes, chainVars
  <2>2. TransfersSound'
      BY <1>1, <1>3 DEF TransfersSound, chainVars
  <2>3. Exclusive'
      BY <1>1 DEF Inv, Exclusive
  <2> QED
      BY <2>1, <2>2, <2>3
<1>6. SubmittedToday' = {}
  <2>1. \A b \in Burns : ~(record'[b] # NoRecord /\ record'[b].submittedAt = "today")
      BY <1>3
  <2> QED
      BY <2>1 DEF SubmittedToday, Known
<1>7. UnderCap'
  <2>1. Cardinality({}) = 0
      BY FS_EmptySet
  <2>2. IsFiniteSet(SubmittedToday) /\ Cardinality(SubmittedToday) \in Nat
      BY RelayAssumption, FS_Subset, FS_CardinalityType DEF SubmittedToday
  <2>3. 0 <= dailyCap /\ \A b \in Burns : pc[b] \in Counting => 0 < dailyCap
      BY <2>2, RelayAssumption DEF Inv, UnderCap, Counting
  <2> QED
      BY <1>1, <1>6, <2>1, <2>3 DEF UnderCap, Counting
<1> QED
    BY <1>5, <1>7 DEF Inv

\* After a restart a job starts over, and the relay may have lost an answer.
LEMMA RestartSound ==
    ASSUME NEW r \in Records, NEW p, NEW t, NEW m, NEW u \in BOOLEAN, Sound(r, p, t, m, u),
           NEW q \in {"idle", "iris", "lock"}, q = "idle" => isSettled(r),
           NEW v \in BOOLEAN, u => v, p = "sent" => v
    PROVE  Sound(r, q, t, m, v)
<1>1. Typed(r, q, t, m)
    BY NoRecordIsNone DEF Sound, Typed, Steps
<1>2. Worked(r, q)
    BY DEF Worked
<1>3. Linked(r, q, t, m)
    BY DEF Sound, Linked
<1>4. v \/ InFlight(r, q, t, m)
    BY DEF Sound, InFlight
<1> QED
    BY <1>1, <1>2, <1>3, <1>4 DEF Sound

\* A successor finds the records; what was broadcast and not recorded is unsure.
LEMMA CrashKeeps ==
    ASSUME Inv, Crash
    PROVE  Inv'
<1>1. /\ UNCHANGED <<kind, record, chainVars>>
      /\ unsure' = unsure \union {b \in Burns : pc[b] = "sent"}
      /\ pc' = [b \in Burns |-> IF b \notin listOpen THEN "idle"
                                ELSE IF record[b].attestation THEN "lock" ELSE "iris"]
    BY DEF Crash
<1>2. Exclusive'
    BY QueueRestarts DEF Inv
<1>3. \A b \in Burns : pc'[b] \in {"idle", "iris", "lock"} /\ (pc'[b] = "idle" <=> b \notin listOpen)
    BY <1>1
<1>4. ASSUME NEW b \in Burns
      PROVE  Sound(record[b], pc'[b], tx[b], minter[b], b \in unsure')
  <2> DEFINE u == b \in unsure
             v == b \in unsure'
             q == pc'[b]
  <2>1. /\ Sound(record[b], pc[b], tx[b], minter[b], u) /\ u \in BOOLEAN /\ v \in BOOLEAN
        /\ (Known(b) <=> record[b] \in Records) /\ (u => v) /\ (pc[b] = "sent" => v)
        /\ q \in {"idle", "iris", "lock"}
      BY <1>1, <1>3, TransferFacts
  <2>2. CASE ~Known(b)
    <3>1. record[b] = NoRecord /\ q = "idle"
        BY <1>3, <2>2 DEF Known, listOpen
    <3>2. pc[b] = "idle"
        BY <2>1, <3>1 DEF Sound, Typed
    <3>3. v = u
        BY <1>1, <3>2
    <3> QED
        BY <2>1, <3>1, <3>2, <3>3
  <2>3. CASE Known(b)
    <3>1. q = "idle" => isSettled(record[b])
        BY <1>3, <2>3 DEF listOpen
    <3> HIDE DEF u, v, q
    <3>2. Sound(record[b], q, tx[b], minter[b], v)
        BY <2>1, <2>3, <3>1, RestartSound
    <3> QED
        BY <3>2 DEF v, q
  <2> QED
      BY <2>2, <2>3
<1>5. pc' \in [Burns -> Steps]
    BY <1>1 DEF Steps
<1>6. Shapes'
    BY <1>1, <1>5 DEF Inv, Shapes, chainVars
<1>7. TransfersSound'
    BY <1>1, <1>4 DEF TransfersSound, chainVars
<1>8. SubmittedToday' = SubmittedToday
    BY <1>1 DEF SubmittedToday, Known
<1>9. UnderCap'
  <2>1. \A b \in Burns : pc'[b] \notin Counting
      BY <1>3 DEF Counting
  <2> QED
      BY <1>8, <2>1 DEF Inv, UnderCap, Counting
<1> QED
    BY <1>2, <1>6, <1>7, <1>9 DEF Inv

-----------------------------------------------------------------------------
(* Theorems.                                                                  *)

LEMMA InitInv == Init => Inv
<1> SUFFICES ASSUME Init PROVE Inv
    OBVIOUS
<1>1. \A b \in Burns : record[b] = NoRecord /\ pc[b] = "idle" /\ tx[b] = <<>> /\ minter[b] = None
    BY DEF Init
<1>2. Shapes
    BY DEF Init, Shapes, Steps, Hashes
<1>3. ASSUME NEW b \in Burns, NEW u \in BOOLEAN
      PROVE  Sound(NoRecord, "idle", <<>>, None, u)
  <2>1. Typed(NoRecord, "idle", <<>>, None)
      BY DEF Typed, Steps
  <2>2. Worked(NoRecord, "idle")
      BY DEF Worked
  <2>3. Linked(NoRecord, "idle", <<>>, None)
      BY NoRecordIsNone DEF Linked
  <2>4. InFlight(NoRecord, "idle", <<>>, None)
      BY DEF InFlight
  <2> QED
      BY <2>1, <2>2, <2>3, <2>4 DEF Sound
<1>4. TransfersSound
  <2>1. ASSUME NEW b \in Burns
        PROVE  Sound(record[b], pc[b], tx[b], minter[b], b \in unsure)
    <3> DEFINE u == b \in unsure
    <3>1. u \in BOOLEAN
        OBVIOUS
    <3> HIDE DEF u
    <3>2. Sound(NoRecord, "idle", <<>>, None, u)
        BY <1>3, <3>1
    <3> QED
        BY <1>1, <3>2 DEF u
  <2> QED
      BY <2>1 DEF TransfersSound
<1>5. Exclusive
    BY <1>1 DEF Init, Exclusive, Holding
<1>6. UnderCap
  <2>1. SubmittedToday = {}
      BY <1>1 DEF SubmittedToday, Known
  <2>2. Cardinality({}) = 0
      BY FS_EmptySet
  <2>3. \A b \in Burns : pc[b] \notin Counting
      BY <1>1 DEF Counting
  <2> QED
      BY <2>1, <2>2, <2>3, RelayAssumption DEF UnderCap, Counting
<1> QED
    BY <1>2, <1>4, <1>5, <1>6 DEF Inv

LEMMA StutterKeeps == Inv /\ UNCHANGED vars => Inv'
<1> SUFFICES ASSUME Inv, UNCHANGED vars PROVE Inv'
    OBVIOUS
<1>1. UNCHANGED <<kind, record, pc, queue, tx, minter, unsure>>
    BY DEF vars, chainVars
<1>2. SubmittedToday' = SubmittedToday
    BY <1>1 DEF SubmittedToday, Known
<1> QED
    BY <1>1, <1>2 DEF Inv, Shapes, TransfersSound, Exclusive, UnderCap

LEMMA NextInv == Inv /\ [Next]_vars => Inv'
<1>1. ASSUME Inv, Next PROVE Inv'
  <2>1. CASE \E b \in Burns : request(b) \/ retry(b) \/ Job(b)
      BY <1>1, <2>1, RequestKeeps, RetryKeeps, JobKeeps
  <2>2. CASE \E b \in Burns : \E i \in 1..Len(tx[b]) : Mine(b, i) \/ Drop(b, i)
      BY <1>1, <2>2, MineKeeps
  <2>3. CASE \E b \in Burns : OtherMints(b) \/ RetryTimeComes(b) \/ DeadlinePasses(b)
      BY <1>1, <2>3, OtherMintsKeeps, TimePassesKeeps
  <2>4. CASE Midnight \/ Crash
      BY <1>1, <2>4, MidnightKeeps, CrashKeeps
  <2> QED
      BY <1>1, <2>1, <2>2, <2>3, <2>4 DEF Next
<1> QED
    BY <1>1, StutterKeeps

\* The invariant holds after any requests, jobs, blocks and restarts.
LEMMA InvAlways == Spec => []Inv
BY InitInv, NextInv, PTL DEF Spec

\* withLock: no two jobs are between the lock and the end of their mint, so the
\* account's nonce and the day's count are never read by one and used by another.
OneHolder == \A b, c \in Burns : pc[b] \in Holding /\ pc[c] \in Holding => b = c

\* withLock admits one job at a time, whatever fails, restarts or asks again.
THEOREM LockIsExclusive == Spec => []OneHolder
<1>1. Inv => OneHolder
    BY HolderIsAlone DEF Inv, OneHolder
<1> QED
    BY <1>1, InvAlways, PTL

\* mint: the cap of the day holds although the count is read several awaits
\* before the broadcast is recorded, whatever fails or restarts in between.
THEOREM CapNeverPassed == Spec => []CapHolds
<1>1. Inv => CapHolds
    BY DEF Inv, UnderCap, CapHolds
<1> QED
    BY <1>1, InvAlways, PTL

\* What the invariant says of a transfer that arrived, of two mints in flight,
\* and of a transfer in flight.
LEMMA ArrivedIsMint == Inv => LinkIsTheMint
<1> SUFFICES ASSUME Inv, NEW b \in Burns, record[b].state = "arrived"
             PROVE  isNonceUsed(b) /\ record[b].mintHash \in {None, minter[b]}
    BY DEF LinkIsTheMint
<1> QED
    BY TransferFacts DEF Sound, Linked, isNonceUsed

LEMMA RedundantIfUnsure == Inv => RedundantOnlyIfUnsure
<1> SUFFICES ASSUME Inv, NEW b \in Burns, b \notin unsure
             PROVE  ~(Cardinality({i \in DOMAIN tx[b] : tx[b][i] = "pending"}) > 1)
    BY DEF RedundantOnlyIfUnsure
<1> DEFINE S == {i \in DOMAIN tx[b] : tx[b][i] = "pending"}
<1>1. \A i, j \in S : i = j
    BY TransferFacts DEF Sound, InFlight
<1>2. CASE S = {}
    BY <1>2, FS_EmptySet
<1>3. CASE S # {}
  <2>1. PICK i \in S : S = {i}
      BY <1>1, <1>3
  <2>2. Cardinality({i}) = 1
      BY FS_Singleton
  <2> QED
      BY <2>1, <2>2
<1> QED
    BY <1>2, <1>3

LEMMA OpenIsWorkedOn == Inv => OpenHasJob
    BY TransferFacts DEF Sound, Worked, OpenHasJob, Known, jobs

\* GET /cctp/relay: what is shown as arrived is minted, and the transaction it
\* links to is the one that minted it.
THEOREM ArrivalsAreMints == Spec => []LinkIsTheMint
BY ArrivedIsMint, InvAlways, PTL

\* service.ts:17, "it never sends a mint it can know to be redundant".
THEOREM NoKnownRedundantMint == Spec => []RedundantOnlyIfUnsure
BY RedundantIfUnsure, InvAlways, PTL

\* resumeOpen: a transfer in flight has a job, after any number of restarts.
THEOREM InFlightIsWorkedOn == Spec => []OpenHasJob
BY OpenIsWorkedOn, InvAlways, PTL

-----------------------------------------------------------------------------
\* cctp/service.ts: what is shown as arrived is minted and linked to its mint, a
\* second mint is sent only when the first is not known of, and a transfer in
\* flight has a job, after a restart too: the three above in the specification of
\* the runs, where a behaviour is about one service.
THEOREM MintsStayTrue == MCSpec => []MintsAreTrue
<1> DEFINE MCInv == part = "mints" => Inv
<1>1. MCInit => MCInv
    BY InitInv DEF MCInit
<1>2. MCInv /\ [MCNext]_all => MCInv'
  <2> SUFFICES ASSUME MCInv, [MCNext]_all, part' = "mints" PROVE Inv'
      OBVIOUS
  <2>1. part = "mints" /\ [Next]_vars
      BY DEF MCNext, MintsNext, ArchiveNext, ClaimsNext, VaultNext, ApiNext, ReadsNext,
             FunnelNext, all
  <2> QED
      BY <2>1, NextInv
<1>3. MCInv => MintsAreTrue
    BY ArrivedIsMint, RedundantIfUnsure, OpenIsWorkedOn DEF MintsAreTrue
<1> QED
    BY <1>1, <1>2, <1>3, PTL DEF MCSpec
=============================================================================
