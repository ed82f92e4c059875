----------------------------- MODULE AppProofs -----------------------------
(* Proofs about the web app's money flows.  Deposits, for any tabs and        *)
(* Bitcoin transactions: the inductive invariant says what each runner may    *)
(* believe of the slot: a tab that is about to sign holds the transaction     *)
(* lock, its txid is the slot's, and no call for it can still land, as long   *)
(* as no tab overwrote or overlooked what another had written.  The calls of  *)
(* a loan, for any number of calls and faults: it says what a read of a node  *)
(* that trails may show, and of which call the flow speaks.                   *)
EXTENDS MCApp, NumberFacts, SequenceTheorems

Indices == 0..MaxIndex
Statuses == {"pending", "success", "failed", "expired"}

\* The steps of registerDeposit, all under the transaction lock, and those that
\* work on a deposit in memory.
Tracking == {"depositor", "status", "output", "confirm", "finalize"}
LockSteps == Tracking \cup {"asleep", "bundle", "sign", "await"}
Carrying == Tracking \cup {"bundle", "wallet", "save"}
Steps == LockSteps \cup {"idle", "done", "wallet", "save", "locate"}

\* What a runner at a step has in memory, and who may be there.
Sane(r, step, pd, x, lock, log) ==
    /\ step \in Carrying => pd \in Deposits(Indices)
    /\ step \in {"sign", "await"} => x \in Txids /\ pd \in Deposits(Indices) \cup {None}
    /\ step = "locate" => pd # None
    /\ step \in {"wallet", "locate", "save"} => pd.hash = None
    /\ step = "status" => pd.hash # None
    /\ step = "await" => log[x] # <<>>
    /\ r[2] = "effect" => step \in Tracking \cup {"asleep", "idle", "done"}
    /\ r[2] = "action" /\ step \in LockSteps => lock = r[1]

Crew(steps, copies, args, lock, log) ==
    /\ steps \in [Runners -> Steps]
    /\ copies \in [Runners -> Deposits(0..(MaxIndex + 1)) \cup {None}]
    /\ args \in [Runners -> Txids \cup {None}]
    /\ \A r \in Runners : Sane(r, steps[r], copies[r], args[r], lock, log)

Typed ==
    /\ slot \in Deposits(Indices) \cup {None}
    /\ reserved \in SUBSET Indices
    /\ saved \in [Txids -> Indices \cup {None}]
    /\ btc \in [Txids -> {"unsent", "mempool", "confirmed"}]
    /\ reg \in [Txids -> {"none", "landed", "mine", "other"}]
    /\ tx \in [Txids -> Seq(Statuses)]
    /\ cut \in BOOLEAN /\ raced \in BOOLEAN
    /\ Crew(pc, mem, arg, txLock, tx)

Holds(s, x) == s # None /\ s.txid = x
Unhashed(s) == s = None \/ s.hash = None
\* The slot knows of every call that may still land, and of the one that
\* landed until reads show its position; a position that is read has no other.
Books(s, log, owner) ==
    /\ \A x \in Txids : \A i \in DOMAIN log[x] :
        log[x][i] = "pending" => Holds(s, x) /\ s.hash = <<x, i>> /\ owner[x] # "mine"
    /\ \A x \in Txids :
        owner[x] = "landed" => Holds(s, x) /\ s.hash # None /\ log[s.hash[1]][s.hash[2]] = "success"

\* What the action of a tab may rely on.
Owns(step, pd, x, s, log, owner) ==
    /\ step = "depositor" /\ pd.hash = None => Unhashed(s)
    /\ step \in {"confirm", "bundle", "sign"} => Unhashed(s)
    /\ step \in {"depositor", "status", "output", "confirm", "bundle"} /\ owner[pd.txid] # "mine"
       => Holds(s, pd.txid)
    /\ step = "sign" => owner[x] \notin {"landed", "mine"} /\ Holds(s, x)
    /\ step = "await" => Unhashed(s) \/ s.hash = <<x, Len(log[x])>>

Knows(steps, copies, args, s, log, owner) ==
    \A t \in Tabs :
        Owns(steps[Action(t)], copies[Action(t)], args[Action(t)], s, log, owner)

Inv ==
    /\ Typed
    /\ ~raced => Books(slot, tx, reg) /\ Knows(pc, mem, arg, slot, tx, reg)
    /\ OrphanedOnlyByRace

\* What a step may do to the slot without a race: patch the deposit, forgetting
\* only a hash whose call is over, empty it once the position is read, fill it.
Kept(s, s2, log) ==
    \/ s2 = s
    \/ /\ s # None /\ s2 # None /\ s2.txid = s.txid
       /\ \/ s2.hash = s.hash
          \/ /\ s2.hash = None
             /\ s.hash = None \/ log[s.hash[1]][s.hash[2]] \in {"failed", "expired"}

Fits(s, s2, log, owner) ==
    \/ Kept(s, s2, log)
    \/ s2 = None /\ s # None /\ owner[s.txid] = "mine"
    \/ s = None /\ s2 # None /\ s2.hash = None

-----------------------------------------------------------------------------
(* Facts about values *)

\* A deposit is not None, and its fields are what their names say.
LEMMA DepositFields ==
    ASSUME NEW n \in Nat, NEW d \in Deposits(0..n)
    PROVE  /\ d # None /\ d.txid \in Txids /\ d.index \in 0..n
           /\ d.hash \in {None} \cup (Txids \X Nat)
<1>1. d \in Deposits(Nat)
    BY DEF Deposits
<1> QED
    BY <1>1, DepositAssumption DEF Deposits

\* A patched deposit is a deposit of the same Bitcoin transaction.
LEMMA Patched ==
    ASSUME NEW d \in Deposits(Indices)
    PROVE  /\ d \in Deposits(0..(MaxIndex + 1))
           /\ \A h \in {None} \cup (Txids \X Nat) :
               /\ [d EXCEPT !["hash"] = h] \in Deposits(Indices)
               /\ [d EXCEPT !["hash"] = h].txid = d.txid
               /\ [d EXCEPT !["hash"] = h].hash = h
           /\ \A x \in Txids :
               /\ [d EXCEPT !["vout"] = x] \in Deposits(Indices)
               /\ [d EXCEPT !["vout"] = x].txid = d.txid
               /\ [d EXCEPT !["vout"] = x].hash = d.hash
<1>1. Indices \subseteq 0..(MaxIndex + 1)
    BY DepositAssumption DEF Indices
<1> QED
    BY <1>1 DEF Deposits

\* A new deposit, with an index in bounds.
LEMMA NewDeposit ==
    ASSUME NEW x \in Txids, NEW out \in Txids \cup {None}, NEW n \in Nat, NEW i \in 0..n
    PROVE  newPending(x, out, i) \in Deposits(0..n) /\ newPending(x, out, i).hash = None
BY DEF newPending, Deposits

\* The next index is at most one above the highest in use.
LEMMA NextIndex ==
    ASSUME NEW S \in SUBSET Indices
    PROVE  nextPositionIndex(S) \in 0..(MaxIndex + 1)
<1>1. MaxIndex \in Nat
    BY DepositAssumption
<1>2. CASE S = {}
    BY <1>1, <1>2 DEF nextPositionIndex
<1>3. CASE S # {}
  <2>1. S \in SUBSET Int /\ \A i \in S : i <= MaxIndex
      BY <1>1 DEF Indices
  <2>2. Max(S) \in S
      BY <1>1, <1>3, <2>1, MaxIs
  <2>3. Max(S) \in 0..MaxIndex
      BY <2>2 DEF Indices
  <2> QED
      BY <1>1, <1>3, <2>3 DEF nextPositionIndex
<1> QED
    BY <1>2, <1>3

\* One entry of a log of calls is changed: it keeps its length.
LEMMA LogSet ==
    ASSUME NEW log \in [Txids -> Seq(Statuses)], NEW x \in Txids, NEW i \in DOMAIN log[x],
           NEW st \in Statuses, NEW log2,
           log2 = [log EXCEPT ![x] = [@ EXCEPT ![i] = st]]
    PROVE  /\ log2 \in [Txids -> Seq(Statuses)]
           /\ \A y \in Txids : DOMAIN log2[y] = DOMAIN log[y] /\ Len(log2[y]) = Len(log[y])
           /\ \A y \in Txids : log[y] # <<>> => log2[y] # <<>>
           /\ log2[x][i] = st
           /\ \A y \in Txids : \A j \in DOMAIN log[y] :
               <<y, j>> # <<x, i>> => log2[y][j] = log[y][j]
<1> DEFINE q == [log[x] EXCEPT ![i] = st]
<1>1. log[x] \in Seq(Statuses) /\ i \in 1..Len(log[x])
    OBVIOUS
<1>2. q \in Seq(Statuses) /\ Len(q) = Len(log[x])
    BY <1>1, ExceptSeq
<1>3. DOMAIN q = DOMAIN log[x] /\ q[i] = st /\ \A j \in DOMAIN log[x] : j # i => q[j] = log[x][j]
    OBVIOUS
<1>4. log[x] # <<>> /\ q # <<>>
    BY <1>1, <1>2
<1>5. log2 = [log EXCEPT ![x] = q]
    OBVIOUS
<1> HIDE DEF q
<1> QED
    BY <1>2, <1>3, <1>4, <1>5

\* One call is appended to a log.
LEMMA LogAppend ==
    ASSUME NEW log \in [Txids -> Seq(Statuses)], NEW x \in Txids, NEW st \in Statuses, NEW log2,
           log2 = [log EXCEPT ![x] = Append(@, st)]
    PROVE  /\ log2 \in [Txids -> Seq(Statuses)]
           /\ log2[x] # <<>> /\ Len(log2[x]) = Len(log[x]) + 1
           /\ DOMAIN log2[x] = DOMAIN log[x] \cup {Len(log[x]) + 1}
           /\ \A j \in DOMAIN log[x] : log2[x][j] = log[x][j]
           /\ \A y \in Txids \ {x} : log2[y] = log[y]
           /\ \A y \in Txids : log[y] # <<>> => log2[y] # <<>>
<1> DEFINE q == Append(log[x], st)
<1>1. log[x] \in Seq(Statuses)
    OBVIOUS
<1>2. /\ q \in Seq(Statuses) /\ Len(q) = Len(log[x]) + 1
      /\ \A j \in 1..Len(log[x]) : q[j] = log[x][j]
    BY <1>1
<1>3. DOMAIN q = 1..(Len(log[x]) + 1) /\ DOMAIN log[x] = 1..Len(log[x]) /\ Len(log[x]) \in Nat
    BY <1>1, <1>2
<1>4. DOMAIN q = DOMAIN log[x] \cup {Len(log[x]) + 1} /\ q # <<>>
    BY <1>3, <1>2
<1>5. log2 = [log EXCEPT ![x] = q]
    OBVIOUS
<1> HIDE DEF q
<1> QED
    BY <1>1, <1>2, <1>3, <1>4, <1>5

-----------------------------------------------------------------------------
(* What a step of one runner leaves true of the others *)

\* The transaction lock is taken when free, or given back by its holder.
LEMMA CrewMoves ==
    ASSUME NEW p, NEW m, NEW a, NEW lock, NEW log, Crew(p, m, a, lock, log),
           NEW r \in Runners,
           NEW p2 \in [Runners -> Steps],
           NEW m2 \in [Runners -> Deposits(0..(MaxIndex + 1)) \cup {None}],
           NEW a2 \in [Runners -> Txids \cup {None}], NEW lock2,
           \A q \in Runners \ {r} : p2[q] = p[q] /\ m2[q] = m[q] /\ a2[q] = a[q],
           lock2 = lock \/ lock = None \/ r = Action(lock),
           Sane(r, p2[r], m2[r], a2[r], lock2, log)
    PROVE  Crew(p2, m2, a2, lock2, log)
<1> SUFFICES ASSUME NEW q \in Runners PROVE Sane(q, p2[q], m2[q], a2[q], lock2, log)
    BY DEF Crew
<1>1. CASE q = r
    BY <1>1
<1>2. CASE q # r
  <2>1. Sane(q, p[q], m[q], a[q], lock, log) /\ p2[q] = p[q] /\ m2[q] = m[q] /\ a2[q] = a[q]
      BY <1>2 DEF Crew
  <2>2. ASSUME q[2] = "action", p[q] \in LockSteps PROVE lock2 = q[1]
    <3>1. lock = q[1]
        BY <2>1, <2>2 DEF Sane
    <3>2. q[1] \in Tabs /\ q = <<q[1], q[2]>>
        BY DEF Runners
    <3>3. lock # None
        BY <3>1, <3>2, DepositAssumption
    <3>4. r # Action(lock)
        BY <1>2, <2>2, <3>1, <3>2 DEF Action
    <3> QED
        BY <3>1, <3>3, <3>4
  <2> QED
      BY <2>1, <2>2 DEF Sane
<1> QED
    BY <1>1, <1>2

\* A log in which no call disappears.
LEMMA CrewLog ==
    ASSUME NEW p, NEW m, NEW a, NEW lock, NEW log, Crew(p, m, a, lock, log), NEW log2,
           \A x \in Txids : log[x] # <<>> => log2[x] # <<>>
    PROVE  Crew(p, m, a, lock, log2)
BY DEF Crew, Sane

\* Only the runner that moved has to account for its step anew.
LEMMA KnowsMoves ==
    ASSUME NEW p, NEW m, NEW a, NEW s, NEW log, NEW owner, Knows(p, m, a, s, log, owner),
           NEW r \in Runners, NEW p2, NEW m2, NEW a2,
           \A q \in Runners \ {r} : p2[q] = p[q] /\ m2[q] = m[q] /\ a2[q] = a[q],
           r[2] = "action" => Owns(p2[r], m2[r], a2[r], s, log, owner)
    PROVE  Knows(p2, m2, a2, s, log, owner)
<1> SUFFICES ASSUME NEW t \in Tabs
             PROVE  Owns(p2[Action(t)], m2[Action(t)], a2[Action(t)], s, log, owner)
    BY DEF Knows
<1>1. Action(t) \in Runners /\ Action(t)[2] = "action"
    BY DEF Action, Runners
<1> QED
    BY <1>1 DEF Knows

\* Of two actions, only one is in registerDeposit; the others know nothing.
LEMMA OthersAreOutside ==
    ASSUME NEW p, NEW m, NEW a, NEW lock, NEW log, Crew(p, m, a, lock, log),
           NEW t \in Tabs, p[Action(t)] \in LockSteps, NEW u \in Tabs, u # t,
           NEW s, NEW log2, NEW owner
    PROVE  Owns(p[Action(u)], m[Action(u)], a[Action(u)], s, log2, owner)
<1>1. /\ Action(t) \in Runners /\ Action(t)[1] = t /\ Action(t)[2] = "action"
      /\ Action(u) \in Runners /\ Action(u)[1] = u /\ Action(u)[2] = "action"
    BY DEF Action, Runners
<1>2. lock = t /\ (p[Action(u)] \in LockSteps => lock = u)
    BY <1>1 DEF Crew, Sane
<1>3. p[Action(u)] \notin LockSteps
    BY <1>2
<1> QED
    BY <1>3 DEF Owns, LockSteps, Tracking

\* A slot that changed as Fits allows still knows of every call.
LEMMA BooksFit ==
    ASSUME NEW s, NEW s2, NEW log \in [Txids -> Seq(Statuses)], NEW owner,
           Books(s, log, owner), Fits(s, s2, log, owner)
    PROVE  Books(s2, log, owner)
<1>1. ASSUME NEW x \in Txids, NEW i \in DOMAIN log[x], log[x][i] = "pending"
      PROVE  Holds(s2, x) /\ s2.hash = <<x, i>> /\ owner[x] # "mine"
  <2>1. Holds(s, x) /\ s.hash = <<x, i>> /\ owner[x] # "mine" /\ s.hash # None
    <3>1. <<x, i>> # None
        BY DepositAssumption
    <3> QED
        BY <1>1, <3>1 DEF Books
  <2> QED
      BY <1>1, <2>1 DEF Fits, Kept, Holds
<1>2. ASSUME NEW x \in Txids, owner[x] = "landed"
      PROVE  Holds(s2, x) /\ s2.hash # None /\ log[s2.hash[1]][s2.hash[2]] = "success"
    BY <1>2 DEF Books, Fits, Kept, Holds
<1> QED
    BY <1>1, <1>2 DEF Books

\* What an action relies on survives such a change.
LEMMA OwnsFit ==
    ASSUME NEW step, NEW pd, NEW x, NEW s, NEW s2, NEW log, NEW owner,
           Owns(step, pd, x, s, log, owner), Fits(s, s2, log, owner)
    PROVE  Owns(step, pd, x, s2, log, owner)
<1>1. Unhashed(s) => Unhashed(s2)
    BY DEF Fits, Kept, Unhashed
<1>2. ASSUME NEW y, owner[y] # "mine", Holds(s, y) PROVE Holds(s2, y)
    BY <1>2 DEF Fits, Kept, Holds
<1>3. Unhashed(s) \/ s.hash = <<x, Len(log[x])>> => Unhashed(s2) \/ s2.hash = <<x, Len(log[x])>>
    BY DEF Fits, Kept, Unhashed
<1> QED
    BY <1>1, <1>2, <1>3 DEF Owns

\* What an action relies on is not disturbed by a slot that still fits the log.
LEMMA KnowsFit ==
    ASSUME NEW p, NEW m, NEW a, NEW s, NEW s2, NEW log, NEW owner,
           Knows(p, m, a, s, log, owner), Fits(s, s2, log, owner)
    PROVE  Knows(p, m, a, s2, log, owner)
BY OwnsFit DEF Knows

-----------------------------------------------------------------------------
(* The two ways in which a runner ends a step *)

\* A deposit is remembered by the slot, a saved loan or a tab about to save it;
\* a step that leaves these, or moves the deposit from one to another, forgets
\* none.
LEMMA StillRemembered ==
    ASSUME Inv, ~cut', ~raced', ~cut, ~raced,
           \A x \in Txids : btc'[x] # "unsent"
               => \/ btc[x] # "unsent"
                  \/ \E t \in Tabs : pc'[Action(t)] = "save" /\ mem'[Action(t)].txid = x,
           \A x \in Txids : saved[x] # None => saved'[x] # None,
           \A x \in Txids : Holds(slot, x) => Holds(slot', x) \/ saved'[x] # None,
           \A t \in Tabs : At(Action(t), "save")
               => \/ pc'[Action(t)] = "save" /\ mem'[Action(t)] = mem[Action(t)]
                  \/ Holds(slot', mem[Action(t)].txid)
    PROVE  OrphanedOnlyByRace'
<1> SUFFICES ASSUME NEW x \in Txids, btc'[x] # "unsent" PROVE Remembered(x)'
    BY DEF OrphanedOnlyByRace
<1>1. Remembered(x) \/ \E t \in Tabs : pc'[Action(t)] = "save" /\ mem'[Action(t)].txid = x
    BY DEF Inv, OrphanedOnlyByRace
<1>2. CASE Holds(slot, x)
    BY <1>2 DEF Holds, Remembered
<1>3. CASE saved[x] # None
    BY <1>3 DEF Remembered
<1>4. CASE \E t \in Tabs : At(Action(t), "save") /\ mem[Action(t)].txid = x
    BY <1>4 DEF Holds, Remembered, At
<1>5. CASE \E t \in Tabs : pc'[Action(t)] = "save" /\ mem'[Action(t)].txid = x
    BY <1>5 DEF Remembered, At
<1> QED
    BY <1>1, <1>2, <1>3, <1>4, <1>5 DEF Remembered, Holds

\* A runner goes on to another step, and may have patched the slot on its way.
LEMMA ContinueKeeps ==
    ASSUME Inv, NEW r \in Runners, ~At(r, "save"),
           NEW step \in Steps, NEW pd \in Deposits(0..(MaxIndex + 1)) \cup {None},
           Continue(r, step, pd), Sane(r, step, pd, arg[r], txLock, tx),
           saved' = saved, reg' = reg, tx' = tx, cut' = cut,
           btc' \in [Txids -> {"unsent", "mempool", "confirmed"}],
           \A x \in Txids : btc'[x] # btc[x]
               => r[2] = "action" /\ step = "save" /\ pd.txid = x,
           reserved' \in SUBSET Indices, slot' \in Deposits(Indices) \cup {None},
           raced' \in BOOLEAN, raced => raced',
           ~raced' => Kept(slot, slot', tx),
           ~raced' /\ r[2] = "action" => Owns(step, pd, arg[r], slot', tx, reg)
    PROVE  Inv'
<1>1. /\ pc' \in [Runners -> Steps] /\ pc'[r] = step
      /\ mem' \in [Runners -> Deposits(0..(MaxIndex + 1)) \cup {None}] /\ mem'[r] = pd
      /\ arg' = arg /\ txLock' = txLock /\ arg \in [Runners -> Txids \cup {None}]
      /\ \A q \in Runners \ {r} : pc'[q] = pc[q] /\ mem'[q] = mem[q]
    BY DEF Inv, Typed, Crew, Continue
<1>2. Crew(pc, mem, arg, txLock, tx)
    BY DEF Inv, Typed
<1>3. Crew(pc', mem', arg', txLock', tx')
    BY <1>1, <1>2, CrewMoves
<1>4. Typed'
    BY <1>3 DEF Inv, Typed
<1>5. ASSUME ~raced' PROVE Books(slot', tx', reg') /\ Knows(pc', mem', arg', slot', tx', reg')
  <2>1. Books(slot, tx, reg) /\ Knows(pc, mem, arg, slot, tx, reg) /\ Fits(slot, slot', tx, reg)
      BY <1>5 DEF Inv, Fits
  <2>2. Books(slot', tx, reg)
      BY <2>1, BooksFit DEF Inv, Typed
  <2>3. Knows(pc, mem, arg, slot', tx, reg)
      BY <2>1, KnowsFit
  <2>4. Knows(pc', mem', arg', slot', tx, reg)
      BY <1>1, <1>5, <2>3, KnowsMoves
  <2> QED
      BY <2>2, <2>4
<1>6. OrphanedOnlyByRace'
  <2>1. SUFFICES ASSUME ~cut', ~raced' PROVE OrphanedOnlyByRace'
      BY DEF OrphanedOnlyByRace
  <2>2. ~cut /\ ~raced
      BY <2>1 DEF Inv, Typed
  <2>3. \A x \in Txids : Holds(slot, x) => Holds(slot', x)
      BY <2>1 DEF Kept, Holds
  <2>4. ASSUME NEW t \in Tabs, At(Action(t), "save")
        PROVE  pc'[Action(t)] = "save" /\ mem'[Action(t)] = mem[Action(t)]
    <3>1. Action(t) \in Runners /\ Action(t) # r
        BY <2>4 DEF Action, Runners
    <3> QED
        BY <1>1, <2>4, <3>1 DEF At
  <2>5. ASSUME NEW x \in Txids, btc'[x] # "unsent"
        PROVE  \/ btc[x] # "unsent"
               \/ \E t \in Tabs : pc'[Action(t)] = "save" /\ mem'[Action(t)].txid = x
    <3>1. CASE btc'[x] # btc[x]
      <4>1. r[1] \in Tabs /\ r = Action(r[1])
          BY <3>1 DEF Runners, Action
      <4> QED
          BY <1>1, <3>1, <4>1
    <3> QED
        BY <2>5, <3>1
  <2> QED
      BY <2>1, <2>2, <2>3, <2>4, <2>5, StillRemembered
<1> QED
    BY <1>4, <1>5, <1>6 DEF Inv

\* A runner ends, and may have patched or emptied the slot.
LEMMA StopKeeps ==
    ASSUME Inv, NEW r \in Runners, Stop(r),
           btc' = btc, reg' = reg, tx' = tx, cut' = cut,
           saved' \in [Txids -> Indices \cup {None}],
           reserved' \in SUBSET Indices, slot' \in Deposits(Indices) \cup {None},
           raced' \in BOOLEAN, raced => raced',
           ~raced' => Fits(slot, slot', tx, reg),
           \A x \in Txids : saved[x] # None => saved'[x] # None,
           ~raced' => \A x \in Txids : Holds(slot, x) => Holds(slot', x) \/ saved'[x] # None,
           ~raced' /\ At(r, "save") => Holds(slot', mem[r].txid)
    PROVE  Inv'
<1>1. /\ pc' \in [Runners -> Steps] /\ pc'[r] \in {"idle", "done"}
      /\ mem' \in [Runners -> Deposits(0..(MaxIndex + 1)) \cup {None}]
      /\ arg' \in [Runners -> Txids \cup {None}]
      /\ \A q \in Runners \ {r} : pc'[q] = pc[q] /\ mem'[q] = mem[q] /\ arg'[q] = arg[q]
      /\ txLock' = txLock \/ r = Action(txLock)
    BY DEF Inv, Typed, Crew, Stop, Steps
<1>2. Crew(pc, mem, arg, txLock, tx)
    BY DEF Inv, Typed
<1>3. Sane(r, pc'[r], mem'[r], arg'[r], txLock', tx)
    BY <1>1 DEF Sane, Carrying, LockSteps, Tracking
<1>4. Crew(pc', mem', arg', txLock', tx)
    BY <1>1, <1>2, <1>3, CrewMoves
<1>5. Typed'
    BY <1>4 DEF Inv, Typed
<1>6. ASSUME ~raced' PROVE Books(slot', tx', reg') /\ Knows(pc', mem', arg', slot', tx', reg')
  <2>1. Books(slot, tx, reg) /\ Knows(pc, mem, arg, slot, tx, reg) /\ Fits(slot, slot', tx, reg)
      BY <1>6 DEF Inv
  <2>2. Books(slot', tx, reg)
      BY <2>1, BooksFit DEF Inv, Typed
  <2>3. Knows(pc, mem, arg, slot', tx, reg)
      BY <2>1, KnowsFit
  <2>4. Owns(pc'[r], mem'[r], arg'[r], slot', tx, reg)
      BY <1>1 DEF Owns
  <2>5. Knows(pc', mem', arg', slot', tx, reg)
      BY <1>1, <2>3, <2>4, KnowsMoves
  <2> QED
      BY <2>2, <2>5
<1>7. OrphanedOnlyByRace'
  <2>1. SUFFICES ASSUME ~cut', ~raced' PROVE OrphanedOnlyByRace'
      BY DEF OrphanedOnlyByRace
  <2>2. ~cut /\ ~raced
      BY <2>1 DEF Inv, Typed
  <2>3. ASSUME NEW t \in Tabs, At(Action(t), "save")
        PROVE  \/ pc'[Action(t)] = "save" /\ mem'[Action(t)] = mem[Action(t)]
               \/ Holds(slot', mem[Action(t)].txid)
    <3>1. Action(t) \in Runners
        BY DEF Action, Runners
    <3> QED
        BY <1>1, <2>1, <2>3, <3>1 DEF At
  <2> QED
      BY <2>1, <2>2, <2>3, StillRemembered
<1> QED
    BY <1>5, <1>6, <1>7 DEF Inv

\* A runner ends and leaves everything else alone.
LEMMA EndKeeps ==
    ASSUME Inv, NEW r \in Runners, Stop(r), ~At(r, "save"), UNCHANGED <<storage, chain, cut, raced>>
    PROVE  Inv'
<1>1. /\ saved \in [Txids -> Indices \cup {None}] /\ reserved \in SUBSET Indices
      /\ slot \in Deposits(Indices) \cup {None} /\ raced \in BOOLEAN
    BY DEF Inv, Typed
<1>2. Fits(slot, slot', tx, reg)
    BY DEF Fits, Kept, storage
<1> QED
    BY <1>1, <1>2, StopKeeps DEF storage, chain

\* The runners of a tab.
LEMMA TabRunners ==
    ASSUME NEW t \in Tabs
    PROVE  /\ Action(t) \in Runners /\ Action(t)[1] = t /\ Action(t)[2] = "action"
           /\ Effect(t) \in Runners /\ Effect(t)[1] = t /\ Effect(t)[2] = "effect"
BY DEF Action, Effect, Runners

\* What a runner has in memory while it works on a deposit.
LEMMA InMemory ==
    ASSUME Inv, NEW r \in Runners, pc[r] \in Carrying
    PROVE  mem[r] \in Deposits(Indices) /\ mem[r] # None /\ mem[r].txid \in Txids
           /\ mem[r].index \in Indices
<1>1. mem[r] \in Deposits(Indices)
    BY DEF Inv, Typed, Crew, Sane
<1> QED
    BY <1>1, DepositFields, DepositAssumption DEF Indices

\* The indices the app counts as used.
LEMMA UsedIndices ==
    ASSUME Inv
    PROVE  usedIndices \in SUBSET Indices /\ reserved \in SUBSET Indices
BY DEF Inv, Typed, usedIndices

-----------------------------------------------------------------------------
(* Starting a deposit *)

LEMMA SendKeeps ==
    ASSUME Inv, NEW t \in Tabs, send(t) PROVE Inv'
<1> DEFINE r == Action(t)
           i == reservePositionIndex
<1>1. i \in Indices
  <2>1. usedIndices \cup reserved \in SUBSET Indices
      BY UsedIndices
  <2>2. i \in 0..(MaxIndex + 1) /\ i <= MaxIndex
      BY <2>1, NextIndex DEF send, reservePositionIndex
  <2> QED
      BY <2>2, DepositAssumption DEF Indices
<1> HIDE DEF i
<1>2. PICK x \in Txids : Continue(r, "wallet", newPending(x, None, i))
    BY DEF send, i
<1> DEFINE pd == newPending(x, None, i)
<1>3. pd \in Deposits(Indices) /\ pd.hash = None
    BY <1>1, NewDeposit, DepositAssumption DEF Indices
<1> HIDE DEF pd
<1>4. pd \in Deposits(0..(MaxIndex + 1))
    BY <1>3, Patched
<1>5. Continue(r, "wallet", pd) /\ ~At(r, "save") /\ r \in Runners /\ r[2] = "action"
    BY <1>2, TabRunners DEF send, At, pd
<1>6. Sane(r, "wallet", pd, arg[r], txLock, tx)
    BY <1>3, <1>5 DEF Sane, LockSteps, Tracking
<1>7. reserved' \in SUBSET Indices
    BY <1>1, UsedIndices DEF send, i
<1>8. Owns("wallet", pd, arg[r], slot', tx, reg) /\ Kept(slot, slot', tx)
    BY DEF Owns, Kept, send
<1>9. /\ slot \in Deposits(Indices) \cup {None} /\ raced \in BOOLEAN
      /\ btc \in [Txids -> {"unsent", "mempool", "confirmed"}]
    BY DEF Inv, Typed
<1> HIDE DEF r
<1> QED
    BY <1>4, <1>5, <1>6, <1>7, <1>8, <1>9, ContinueKeeps DEF send, chain, history, Steps

LEMMA WalletRejectsKeeps ==
    ASSUME Inv, NEW t \in Tabs, WalletRejects(t) PROVE Inv'
<1>1. Action(t) \in Runners /\ ~At(Action(t), "save") /\ Stop(Action(t))
    BY TabRunners DEF WalletRejects, At
<1>2. reserved' \in SUBSET Indices /\ saved' = saved /\ slot' = slot
    BY UsedIndices DEF WalletRejects
<1>3. /\ saved \in [Txids -> Indices \cup {None}]
      /\ slot \in Deposits(Indices) \cup {None} /\ raced \in BOOLEAN
    BY DEF Inv, Typed
<1>4. Fits(slot, slot', tx, reg)
    BY <1>2 DEF Fits, Kept
<1> QED
    BY <1>1, <1>2, <1>3, <1>4, StopKeeps DEF WalletRejects, chain, history

LEMMA LocateFailsKeeps ==
    ASSUME Inv, NEW t \in Tabs, LocateFails(t) PROVE Inv'
BY TabRunners, EndKeeps DEF LocateFails, At, history

LEMMA SaveKeeps ==
    ASSUME Inv, NEW t \in Tabs, save(t) PROVE Inv'
<1> DEFINE r == Action(t)
<1>1. r \in Runners /\ At(r, "save") /\ Stop(r)
    BY TabRunners DEF save
<1>2. mem[r] \in Deposits(Indices) /\ mem[r] # None /\ mem[r].hash = None
  <2>1. pc[r] \in Carrying /\ pc[r] = "save"
      BY <1>1 DEF At, Carrying
  <2>2. mem[r].hash = None
      BY <1>1, <2>1 DEF Inv, Typed, Crew, Sane
  <2> QED
      BY <1>1, <2>1, <2>2, InMemory
<1>3. slot' = mem[r] /\ raced' = (raced \/ slot # None) /\ reserved' = reserved /\ saved' = saved
    BY DEF save
<1>4. ~raced' => Fits(slot, slot', tx, reg)
    BY <1>2, <1>3 DEF Fits
<1>5. Holds(slot', mem[r].txid) /\ (~raced' => \A x \in Txids : ~Holds(slot, x))
    BY <1>2, <1>3 DEF Holds
<1>6. /\ saved \in [Txids -> Indices \cup {None}] /\ reserved \in SUBSET Indices
      /\ raced \in BOOLEAN
    BY DEF Inv, Typed
<1> HIDE DEF r
<1> QED
    BY <1>1, <1>2, <1>3, <1>4, <1>5, <1>6, StopKeeps DEF save, chain

LEMMA StartDepositFromTxidKeeps ==
    ASSUME Inv, NEW t \in Tabs, startDepositFromTxid(t) PROVE Inv'
<1> DEFINE r == Action(t)
           i == nextPositionIndex(usedIndices)
<1>1. i \in 0..(MaxIndex + 1)
    BY UsedIndices, NextIndex
<1> HIDE DEF i
<1>2. PICK x \in Txids : Continue(r, "locate", newPending(x, x, i))
    BY DEF startDepositFromTxid, i
<1> DEFINE pd == newPending(x, x, i)
<1>3. pd \in Deposits(0..(MaxIndex + 1)) /\ pd.hash = None /\ pd # None
    BY <1>1, NewDeposit, DepositFields, DepositAssumption
<1> HIDE DEF pd
<1>4. Continue(r, "locate", pd) /\ ~At(r, "save") /\ r \in Runners /\ r[2] = "action"
    BY <1>2, TabRunners DEF startDepositFromTxid, At, pd
<1>5. Sane(r, "locate", pd, arg[r], txLock, tx)
    BY <1>3, <1>4 DEF Sane, LockSteps, Tracking, Carrying
<1>6. Owns("locate", pd, arg[r], slot', tx, reg) /\ Kept(slot, slot', tx)
    BY DEF Owns, Kept, startDepositFromTxid, storage
<1>7. /\ slot \in Deposits(Indices) \cup {None} /\ raced \in BOOLEAN
      /\ reserved \in SUBSET Indices /\ btc \in [Txids -> {"unsent", "mempool", "confirmed"}]
    BY DEF Inv, Typed
<1> HIDE DEF r
<1> QED
    BY <1>3, <1>4, <1>5, <1>6, <1>7, ContinueKeeps
    DEF startDepositFromTxid, storage, chain, history, Steps

LEMMA LocateDepositKeeps ==
    ASSUME Inv, NEW t \in Tabs, locateDeposit(t) PROVE Inv'
<1> DEFINE r == Action(t)
           i == Max({mem[r].index, nextPositionIndex(reserved)})
           pd == [mem[r] EXCEPT !.index = i]
<1>1. r \in Runners /\ r[2] = "action" /\ At(r, "locate") /\ ~At(r, "save")
    BY TabRunners DEF locateDeposit, At
<1>2. mem[r] \in Deposits(0..(MaxIndex + 1)) /\ mem[r].hash = None
    BY <1>1 DEF Inv, Typed, Crew, Sane, At
<1>3. i \in Indices
  <2>1. mem[r].index \in 0..(MaxIndex + 1) /\ nextPositionIndex(reserved) \in 0..(MaxIndex + 1)
      BY <1>2, DepositFields, UsedIndices, NextIndex, DepositAssumption
  <2> DEFINE S == {mem[r].index, nextPositionIndex(reserved)}
  <2>2. S \in SUBSET Int /\ S # {} /\ MaxIndex + 1 \in Int /\ \A j \in S : j <= MaxIndex + 1
      BY <2>1, DepositAssumption
  <2> HIDE DEF S
  <2>3. Max(S) \in S
      BY <2>2, MaxIs
  <2>4. Max(S) \in 0..(MaxIndex + 1)
      BY <2>1, <2>3 DEF S
  <2>5. Max(S) <= MaxIndex
      BY DEF locateDeposit, S
  <2> QED
      BY <2>4, <2>5, DepositAssumption DEF Indices, S
<1>4. Continue(r, "save", pd) /\ reserved' = reserved \cup {i}
    BY DEF locateDeposit
<1>5. raced' \in BOOLEAN /\ (raced => raced')
    BY DEF locateDeposit, Inv, Typed
<1> HIDE DEF i, r
<1>6. pd \in Deposits(Indices) /\ pd.hash = None
    BY <1>2, <1>3 DEF Deposits
<1> HIDE DEF pd
<1>7. pd \in Deposits(0..(MaxIndex + 1))
    BY <1>6, Patched
<1>8. Sane(r, "save", pd, arg[r], txLock, tx)
    BY <1>1, <1>6 DEF Sane, LockSteps, Tracking
<1>9. /\ UNCHANGED <<slot, saved, depositLock, chain, stops, cut>>
      /\ Owns("save", pd, arg[r], slot', tx, reg) /\ Kept(slot, slot', tx)
    BY DEF locateDeposit, Owns, Kept
<1>10. /\ slot \in Deposits(Indices) \cup {None} /\ reserved' \in SUBSET Indices
       /\ btc \in [Txids -> {"unsent", "mempool", "confirmed"}]
    BY <1>3, <1>4 DEF Inv, Typed
<1> QED
    BY <1>1, <1>4, <1>5, <1>7, <1>8, <1>9, <1>10, ContinueKeeps DEF chain, Steps

LEMMA SendBtcKeeps ==
    ASSUME Inv, NEW t \in Tabs, sendBtc(t) PROVE Inv'
<1> DEFINE r == Action(t)
           pd == mem[r]
<1>1. r \in Runners /\ r[2] = "action" /\ At(r, "wallet") /\ ~At(r, "save")
    BY TabRunners DEF sendBtc, At
<1>2. pd \in Deposits(Indices) /\ pd.txid \in Txids /\ pd.hash = None
  <2>1. pc[r] \in Carrying /\ pc[r] = "wallet"
      BY <1>1 DEF At, Carrying
  <2>2. pd.hash = None
      BY <1>1, <2>1 DEF Inv, Typed, Crew, Sane
  <2> QED
      BY <1>1, <2>1, <2>2, InMemory
<1>3. Continue(r, "save", pd) /\ btc' = [btc EXCEPT ![pd.txid] = "mempool"]
    BY DEF sendBtc
<1> HIDE DEF pd, r
<1>4. Sane(r, "save", pd, arg[r], txLock, tx)
    BY <1>1, <1>2 DEF Sane, LockSteps, Tracking
<1>5. pd \in Deposits(0..(MaxIndex + 1))
    BY <1>2, Patched
<1>6. /\ UNCHANGED <<storage, depositLock, reg, tx, history>>
      /\ Owns("save", pd, arg[r], slot', tx, reg) /\ Kept(slot, slot', tx)
    BY DEF sendBtc, storage, Owns, Kept
<1>7. /\ slot \in Deposits(Indices) \cup {None} /\ reserved \in SUBSET Indices
      /\ raced \in BOOLEAN /\ btc \in [Txids -> {"unsent", "mempool", "confirmed"}]
    BY DEF Inv, Typed
<1>8. /\ btc' \in [Txids -> {"unsent", "mempool", "confirmed"}]
      /\ \A x \in Txids : btc'[x] # btc[x] => pd.txid = x
    BY <1>2, <1>3, <1>7
<1> QED
    BY <1>1, <1>3, <1>4, <1>5, <1>6, <1>7, <1>8, ContinueKeeps DEF storage, history, Steps

-----------------------------------------------------------------------------
(* Tracking a deposit *)

\* A runner goes on and writes nothing.
LEMMA GoOnKeeps ==
    ASSUME Inv, NEW r \in Runners, ~At(r, "save"),
           NEW step \in Steps, NEW pd \in Deposits(Indices) \cup {None},
           Continue(r, step, pd), Sane(r, step, pd, arg[r], txLock, tx),
           UNCHANGED <<storage, chain, cut, raced>>,
           ~raced /\ r[2] = "action" => Owns(step, pd, arg[r], slot, tx, reg)
    PROVE  Inv'
<1>1. /\ slot \in Deposits(Indices) \cup {None} /\ reserved \in SUBSET Indices
      /\ raced \in BOOLEAN /\ btc \in [Txids -> {"unsent", "mempool", "confirmed"}]
    BY DEF Inv, Typed
<1>2. pd \in Deposits(0..(MaxIndex + 1)) \cup {None}
    BY Patched
<1>3. Kept(slot, slot', tx)
    BY DEF Kept, storage
<1> QED
    BY <1>1, <1>2, <1>3, ContinueKeeps DEF storage, chain

\* The head of the tracker's loop, with the slot as it now is.
LEMMA LoadKeeps ==
    ASSUME Inv, NEW r \in Runners, Load(r, slot'), ~At(r, "save"),
           r[2] = "action" => pc[r] \in LockSteps,
           UNCHANGED <<reserved, saved, chain, cut, raced>>,
           slot' \in Deposits(Indices) \cup {None}, Kept(slot, slot', tx)
    PROVE  Inv'
<1>1. /\ saved \in [Txids -> Indices \cup {None}] /\ reserved \in SUBSET Indices
      /\ raced \in BOOLEAN /\ btc \in [Txids -> {"unsent", "mempool", "confirmed"}]
    BY DEF Inv, Typed
<1>2. CASE slot' = None
  <2>1. Stop(r)
      BY <1>2 DEF Load
  <2>2. Fits(slot, slot', tx, reg) /\ \A x \in Txids : Holds(slot, x) => Holds(slot', x)
      BY DEF Fits, Kept, Holds
  <2> QED
      BY <1>1, <2>1, <2>2, StopKeeps DEF chain
<1>3. CASE slot' # None
  <2>1. Continue(r, "depositor", slot') /\ slot' \in Deposits(Indices)
      BY <1>3 DEF Load
  <2>2. slot' \in Deposits(0..(MaxIndex + 1))
      BY <2>1, Patched
  <2>3. r[2] = "action" => txLock = r[1]
      BY DEF Inv, Typed, Crew, Sane
  <2>4. Sane(r, "depositor", slot', arg[r], txLock, tx)
      BY <2>1, <2>3 DEF Sane, Tracking
  <2>5. Owns("depositor", slot', arg[r], slot', tx, reg)
      BY <1>3 DEF Owns, Holds, Unhashed
  <2> QED
      BY <1>1, <2>1, <2>2, <2>4, <2>5, ContinueKeeps DEF chain, Steps, LockSteps, Tracking
<1> QED
    BY <1>2, <1>3

LEMMA DriveKeeps ==
    ASSUME Inv, NEW t \in Tabs, drive(t) PROVE Inv'
<1>1. Effect(t) \in Runners /\ Effect(t)[2] # "action" /\ ~At(Effect(t), "save")
    BY TabRunners DEF drive, At
<1>2. slot' = slot /\ slot \in Deposits(Indices) \cup {None} /\ Kept(slot, slot', tx)
    BY DEF drive, storage, Kept, Inv, Typed
<1> QED
    BY <1>1, <1>2, LoadKeeps DEF drive, storage, history

LEMMA WakeKeeps ==
    ASSUME Inv, NEW r \in Runners, wake(r) PROVE Inv'
<1>1. pc[r] \in LockSteps /\ ~At(r, "save")
    BY DEF wake, At, LockSteps
<1>2. slot' = slot /\ slot \in Deposits(Indices) \cup {None} /\ Kept(slot, slot', tx)
    BY DEF wake, storage, Kept, Inv, Typed
<1> QED
    BY <1>1, <1>2, LoadKeeps DEF wake, storage, history

LEMMA ReadFailsKeeps ==
    ASSUME Inv, NEW r \in Runners, ReadFails(r) PROVE Inv'
BY EndKeeps DEF ReadFails, At, history

LEMMA FinalizeFailsKeeps ==
    ASSUME Inv, NEW r \in Runners, FinalizeFails(r) PROVE Inv'
BY EndKeeps DEF FinalizeFails, At, history

\* A runner of a tab that tracks a deposit: what the invariant says of it.
LEMMA Trackers ==
    ASSUME Inv, NEW r \in Runners, pc[r] \in LockSteps
    PROVE  /\ pc[r] \in Carrying => mem[r] \in Deposits(Indices)
           /\ r[2] = "action" => txLock = r[1]
           /\ ~raced /\ r[2] = "action" => Owns(pc[r], mem[r], arg[r], slot, tx, reg)
<1>1. Sane(r, pc[r], mem[r], arg[r], txLock, tx)
    BY DEF Inv, Typed, Crew
<1>2. r[2] = "action" => r[1] \in Tabs /\ r = Action(r[1])
    BY DEF Runners, Action
<1> QED
    BY <1>1, <1>2 DEF Sane, Inv, Knows

\* A runner sleeps, or ends because it was told to.
LEMMA SleepKeeps ==
    ASSUME Inv, NEW r \in Runners, ~At(r, "save"),
           NEW step \in Steps, NEW pd \in Deposits(Indices) \cup {None},
           Sleep(r, step, pd), Sane(r, step, pd, arg[r], txLock, tx),
           UNCHANGED <<storage, chain, cut, raced>>,
           ~raced /\ r[2] = "action" => Owns(step, pd, arg[r], slot, tx, reg)
    PROVE  Inv'
<1>1. CASE IsAborted(r)
    BY <1>1, EndKeeps DEF Sleep
<1>2. CASE ~IsAborted(r)
    BY <1>2, GoOnKeeps DEF Sleep
<1> QED
    BY <1>1, <1>2

Plans == {"finalize", "conflict", "await_stellar", "locate_output", "wait_confirmations"}

\* Carrying out a plan, given why a hash may be forgotten.
LEMMA ResumeKeeps ==
    ASSUME Inv, NEW r \in Runners, pc[r] \in {"depositor", "status"},
           NEW plan \in Plans, Resume(r, plan),
           UNCHANGED <<reserved, saved, depositLock, chain, stops, cut>>,
           plan = "wait_confirmations" /\ mem[r].hash = None
               => (~raced /\ r[2] = "action" => Unhashed(slot)),
           plan = "wait_confirmations" /\ mem[r].hash # None
               => Status(mem[r].hash) \in {"failed", "expired"}
    PROVE  Inv'
<1>1. pc[r] \in LockSteps /\ pc[r] \in Carrying /\ ~At(r, "save")
    BY DEF LockSteps, Carrying, Tracking, At
<1>2. /\ mem[r] \in Deposits(Indices)
      /\ r[2] = "action" => txLock = r[1]
      /\ ~raced /\ r[2] = "action" => Owns(pc[r], mem[r], arg[r], slot, tx, reg)
    BY <1>1, Trackers
<1>3. /\ saved \in [Txids -> Indices \cup {None}] /\ reserved \in SUBSET Indices
      /\ slot \in Deposits(Indices) \cup {None} /\ raced \in BOOLEAN
      /\ btc \in [Txids -> {"unsent", "mempool", "confirmed"}]
    BY DEF Inv, Typed
<1>4. CASE plan = "finalize"
  <2>1. Continue(r, "finalize", mem[r]) /\ UNCHANGED <<slot, raced>>
      BY <1>4 DEF Resume
  <2>2. Sane(r, "finalize", mem[r], arg[r], txLock, tx)
      BY <1>2 DEF Sane, Tracking
  <2>3. Owns("finalize", mem[r], arg[r], slot, tx, reg)
      BY DEF Owns
  <2> QED
      BY <1>1, <1>2, <2>1, <2>2, <2>3, GoOnKeeps DEF storage, Steps, LockSteps, Tracking
<1>5. CASE plan = "conflict"
    BY <1>1, <1>5, EndKeeps DEF Resume, storage
<1>6. CASE plan = "await_stellar"
  <2>1. Sleep(r, "asleep", None) /\ UNCHANGED <<slot, raced>>
      BY <1>6 DEF Resume
  <2>2. Sane(r, "asleep", None, arg[r], txLock, tx)
      BY <1>2 DEF Sane, Carrying, Tracking
  <2>3. Owns("asleep", None, arg[r], slot, tx, reg)
      BY DEF Owns
  <2> QED
      BY <1>1, <2>1, <2>2, <2>3, SleepKeeps DEF storage, Steps, LockSteps
<1>7. CASE plan = "locate_output"
  <2>1. Continue(r, "output", mem[r]) /\ UNCHANGED <<slot, raced>>
      BY <1>7 DEF Resume
  <2>2. Sane(r, "output", mem[r], arg[r], txLock, tx)
      BY <1>2 DEF Sane, Tracking
  <2>3. ~raced /\ r[2] = "action" => Owns("output", mem[r], arg[r], slot, tx, reg)
      BY <1>2 DEF Owns
  <2> QED
      BY <1>1, <1>2, <2>1, <2>2, <2>3, GoOnKeeps DEF storage, Steps, LockSteps, Tracking
<1>8. CASE plan = "wait_confirmations" /\ mem[r].hash = None
  <2>1. Continue(r, "confirm", mem[r]) /\ UNCHANGED <<slot, raced>>
      BY <1>8 DEF Resume
  <2>2. Sane(r, "confirm", mem[r], arg[r], txLock, tx)
      BY <1>2 DEF Sane, Tracking
  <2>3. ~raced /\ r[2] = "action" => Owns("confirm", mem[r], arg[r], slot, tx, reg)
      BY <1>2, <1>8 DEF Owns
  <2> QED
      BY <1>1, <1>2, <2>1, <2>2, <2>3, GoOnKeeps DEF storage, Steps, LockSteps, Tracking
<1>9. CASE plan = "wait_confirmations" /\ mem[r].hash # None
  <2>1. /\ slot' = forget_hash(r)
        /\ raced' = (raced \/ (slot # None /\ slot'.hash = None /\ slot.hash \notin {None, mem[r].hash}))
      BY <1>9 DEF Resume
  <2>2. CASE slot = None
    <3>1. Stop(r) /\ slot' = None /\ raced' = raced
        BY <1>3, <1>9, <2>1, <2>2 DEF Resume, forget_hash, update
    <3> QED
        BY <1>1, <2>2, <3>1, EndKeeps DEF storage
  <2>3. CASE slot # None
    <3>1. /\ Continue(r, "confirm", slot')
          /\ slot' = [slot EXCEPT !["hash"] = None]
        BY <1>9, <2>1, <2>3 DEF Resume, forget_hash, update
    <3>2. slot \in Deposits(Indices)
        BY <1>3, <2>3
    <3>3. /\ slot' \in Deposits(Indices) /\ slot'.txid = slot.txid /\ slot'.hash = None
        BY <3>1, <3>2, Patched
    <3>4. slot' \in Deposits(0..(MaxIndex + 1)) /\ slot' # None
        BY <3>3, Patched, DepositFields, DepositAssumption
    <3>5. raced' \in BOOLEAN /\ (raced => raced')
          /\ (~raced' => ~raced /\ slot.hash \in {None, mem[r].hash})
        BY <1>3, <2>1, <2>3, <3>3
    <3>6. ~raced' => Kept(slot, slot', tx)
        BY <1>9, <2>3, <3>3, <3>4, <3>5 DEF Kept, Status
    <3>7. Sane(r, "confirm", slot', arg[r], txLock, tx)
        BY <1>2, <3>3 DEF Sane, Tracking
    <3>8. Owns("confirm", slot', arg[r], slot', tx, reg)
        BY <3>3, <3>4 DEF Owns, Unhashed, Holds
    <3> QED
        BY <1>1, <1>3, <3>1, <3>3, <3>4, <3>5, <3>6, <3>7, <3>8, ContinueKeeps
        DEF chain, Steps, LockSteps, Tracking
  <2> QED
      BY <2>2, <2>3
<1> QED
    BY <1>4, <1>5, <1>6, <1>7, <1>8, <1>9 DEF Plans

LEMMA GetDepositorKeeps ==
    ASSUME Inv, NEW r \in Runners, getDepositor(r) PROVE Inv'
<1> DEFINE onChain == reg[mem[r].txid]
           plan == planResume(mem[r], onChain, "unread")
<1>1. pc[r] = "depositor" /\ pc[r] \in LockSteps /\ pc[r] \in Carrying /\ ~At(r, "save")
    BY DEF getDepositor, At, LockSteps, Carrying, Tracking
<1>2. /\ mem[r] \in Deposits(Indices)
      /\ r[2] = "action" => txLock = r[1]
      /\ ~raced /\ r[2] = "action" => Owns("depositor", mem[r], arg[r], slot, tx, reg)
    BY <1>1, Trackers
<1>3. mem[r].txid \in Txids
    BY <1>1, InMemory
<1>4. onChain \in {"none", "landed", "mine", "other"}
    BY <1>3 DEF Inv, Typed
<1>5. UNCHANGED <<reserved, saved, depositLock, chain, stops, cut>>
    BY DEF getDepositor
<1>6. CASE onChain \in {"none", "landed"} /\ mem[r].hash # None
  <2>1. Continue(r, "status", mem[r]) /\ UNCHANGED <<slot, raced>>
      BY <1>6 DEF getDepositor
  <2>2. Sane(r, "status", mem[r], arg[r], txLock, tx)
      BY <1>2, <1>6 DEF Sane, Tracking
  <2>3. ~raced /\ r[2] = "action" => Owns("status", mem[r], arg[r], slot, tx, reg)
      BY <1>2 DEF Owns
  <2> QED
      BY <1>1, <1>2, <1>5, <2>1, <2>2, <2>3, GoOnKeeps DEF storage, Steps, LockSteps, Tracking
<1>7. CASE ~(onChain \in {"none", "landed"} /\ mem[r].hash # None)
  <2>1. Resume(r, plan)
      BY <1>7 DEF getDepositor
  <2>2. CASE onChain = "mine"
    <3>1. plan = "finalize"
        BY <2>2 DEF planResume
    <3> QED
        BY <1>1, <1>5, <2>1, <3>1, ResumeKeeps DEF Plans
  <2>3. CASE onChain = "other"
    <3>1. plan = "conflict"
        BY <2>3 DEF planResume
    <3> QED
        BY <1>1, <1>5, <2>1, <3>1, ResumeKeeps DEF Plans
  <2>4. CASE onChain \in {"none", "landed"} /\ mem[r].hash = None
    <3>1. plan = IF mem[r].vout = None THEN "locate_output" ELSE "wait_confirmations"
        BY <2>4 DEF planResume
    <3>2. plan \in Plans
        BY <3>1 DEF Plans
    <3>3. ~raced /\ r[2] = "action" => Unhashed(slot)
        BY <1>2, <2>4 DEF Owns
    <3> HIDE DEF plan, onChain
    <3> QED
        BY <1>1, <1>5, <2>1, <2>4, <3>2, <3>3, ResumeKeeps
  <2> QED
      BY <1>4, <1>7, <2>2, <2>3, <2>4
<1> QED
    BY <1>6, <1>7

LEMMA GetTxStatusKeeps ==
    ASSUME Inv, NEW r \in Runners, getTxStatus(r) PROVE Inv'
<1>1. pc[r] = "status" /\ pc[r] \in LockSteps
    BY DEF getTxStatus, At, LockSteps, Tracking
<1>2. mem[r].hash # None
    BY <1>1 DEF Inv, Typed, Crew, Sane
<1>3. PICK answer \in {Status(mem[r].hash), "not_found"} :
        Resume(r, planResume(mem[r], "none", answer))
    BY DEF getTxStatus
<1> DEFINE plan == planResume(mem[r], "none", answer)
           waits == /\ answer # "failed"
                    /\ answer = "success" \/ Status(mem[r].hash) # "expired"
<1>4. CASE waits
  <2>1. plan = "await_stellar"
      BY <1>2, <1>4 DEF planResume
  <2> QED
      BY <1>1, <1>3, <2>1, ResumeKeeps DEF getTxStatus, Plans
<1>5. CASE ~waits
  <2>1. plan = IF mem[r].vout = None THEN "locate_output" ELSE "wait_confirmations"
      BY <1>5 DEF planResume
  <2>2. plan \in Plans
      BY <2>1 DEF Plans
  <2>3. Status(mem[r].hash) \in {"failed", "expired"}
      BY <1>5
  <2>4. Resume(r, plan) /\ UNCHANGED <<reserved, saved, depositLock, chain, stops, cut>>
      BY <1>3 DEF getTxStatus
  <2> HIDE DEF plan
  <2> QED
      BY <1>1, <1>2, <2>2, <2>3, <2>4, ResumeKeeps
<1> QED
    BY <1>4, <1>5

LEMMA LocateOutputKeeps ==
    ASSUME Inv, NEW r \in Runners, locateOutput(r) PROVE Inv'
<1>1. /\ pc[r] = "output" /\ pc[r] \in LockSteps /\ pc[r] \in Carrying /\ ~At(r, "save")
      /\ UNCHANGED <<reserved, saved, depositLock, chain, history>>
    BY DEF locateOutput, At, LockSteps, Carrying, Tracking
<1>2. /\ mem[r] \in Deposits(Indices) /\ mem[r].txid \in Txids
      /\ r[2] = "action" => txLock = r[1]
      /\ ~raced /\ r[2] = "action" => Owns("output", mem[r], arg[r], slot, tx, reg)
    BY <1>1, Trackers, InMemory
<1>3. CASE Sleep(r, "output", mem[r]) /\ UNCHANGED slot
  <2>1. Sane(r, "output", mem[r], arg[r], txLock, tx)
      BY <1>2 DEF Sane, Tracking
  <2> QED
      BY <1>1, <1>2, <1>3, <2>1, SleepKeeps DEF storage, history, Steps, LockSteps, Tracking
<1>4. CASE Stop(r) /\ UNCHANGED slot
    BY <1>1, <1>4, EndKeeps DEF storage, history
<1>5. CASE slot' = update("vout", mem[r].txid) /\ Load(r, slot')
  <2>1. slot \in Deposits(Indices) \cup {None}
      BY DEF Inv, Typed
  <2>2. slot' \in Deposits(Indices) \cup {None} /\ Kept(slot, slot', tx)
    <3>1. CASE slot = None
        BY <1>5, <3>1 DEF update, Kept
    <3>2. CASE slot # None
      <4>1. slot \in Deposits(Indices) /\ slot' = [slot EXCEPT !["vout"] = mem[r].txid]
          BY <1>5, <2>1, <3>2 DEF update
      <4>2. /\ slot' \in Deposits(Indices) /\ slot'.txid = slot.txid /\ slot'.hash = slot.hash
          BY <1>2, <4>1, Patched
      <4>3. slot' # None
          BY <4>2, Patched, DepositFields, DepositAssumption
      <4> QED
          BY <3>2, <4>2, <4>3 DEF Kept
    <3> QED
        BY <3>1, <3>2
  <2> QED
      BY <1>1, <1>5, <2>2, LoadKeeps DEF history
<1> QED
    BY <1>3, <1>4, <1>5 DEF locateOutput

LEMMA WaitForConfirmationsKeeps ==
    ASSUME Inv, NEW r \in Runners, waitForConfirmations(r) PROVE Inv'
<1>1. /\ pc[r] = "confirm" /\ pc[r] \in LockSteps /\ pc[r] \in Carrying /\ ~At(r, "save")
      /\ UNCHANGED <<storage, depositLock, chain, history>>
    BY DEF waitForConfirmations, At, LockSteps, Carrying, Tracking
<1>2. /\ mem[r] \in Deposits(Indices)
      /\ r[2] = "action" => txLock = r[1]
      /\ ~raced /\ r[2] = "action" => Owns("confirm", mem[r], arg[r], slot, tx, reg)
    BY <1>1, Trackers
<1>3. CASE Sleep(r, "confirm", mem[r])
  <2>1. Sane(r, "confirm", mem[r], arg[r], txLock, tx)
      BY <1>2 DEF Sane, Tracking
  <2> QED
      BY <1>1, <1>2, <1>3, <2>1, SleepKeeps DEF history, Steps, LockSteps, Tracking
<1>4. CASE Stop(r)
    BY <1>1, <1>4, EndKeeps DEF history
<1>5. ASSUME slot # None, NEW step \in {"confirm", "bundle"}, Continue(r, step, slot),
             step = "bundle" => r[2] # "effect"
      PROVE  Inv'
  <2>1. slot \in Deposits(Indices)
      BY <1>5 DEF Inv, Typed
  <2>2. Sane(r, step, slot, arg[r], txLock, tx)
      BY <1>2, <1>5, <2>1 DEF Sane, Tracking
  <2>3. ~raced /\ r[2] = "action" => Owns(step, slot, arg[r], slot, tx, reg)
      BY <1>2, <1>5 DEF Owns, Holds
  <2> QED
      BY <1>1, <1>5, <2>1, <2>2, <2>3, GoOnKeeps DEF history, Steps, LockSteps, Tracking
<1> QED
    BY <1>3, <1>4, <1>5 DEF waitForConfirmations

LEMMA FinalizeDepositKeeps ==
    ASSUME Inv, NEW r \in Runners, finalizeDeposit(r) PROVE Inv'
<1> DEFINE pd == mem[r]
<1>1. /\ pc[r] = "finalize" /\ pc[r] \in Carrying /\ ~At(r, "save")
      /\ reg[pd.txid] = "mine" /\ Stop(r) /\ slot' = None
      /\ saved' = [saved EXCEPT ![pd.txid] = IF @ = None THEN pd.index ELSE @]
      /\ raced' = (raced \/ (slot # None /\ slot.txid # pd.txid))
      /\ reserved' = reserved \ {pd.index}
      /\ UNCHANGED <<depositLock, chain, stops, cut>>
    BY DEF finalizeDeposit, At, Carrying, Tracking
<1>2. pd.txid \in Txids /\ pd.index \in Indices /\ pd.index # None
    BY <1>1, InMemory, DepositAssumption DEF Indices
<1> HIDE DEF pd
<1>3. /\ saved \in [Txids -> Indices \cup {None}] /\ reserved \in SUBSET Indices
      /\ raced \in BOOLEAN
    BY DEF Inv, Typed
<1>4. /\ saved' \in [Txids -> Indices \cup {None}] /\ saved'[pd.txid] # None
      /\ \A x \in Txids : saved[x] # None => saved'[x] # None
    BY <1>1, <1>2, <1>3
<1>5. raced' \in BOOLEAN /\ (raced => raced') /\ (~raced' => slot = None \/ slot.txid = pd.txid)
    BY <1>1, <1>3
<1>6. ~raced' => Fits(slot, slot', tx, reg)
    BY <1>1, <1>5 DEF Fits, Kept
<1>7. ~raced' => \A x \in Txids : Holds(slot, x) => saved'[x] # None
    BY <1>4, <1>5 DEF Holds
<1> QED
    BY <1>1, <1>3, <1>4, <1>5, <1>6, <1>7, StopKeeps DEF chain

-----------------------------------------------------------------------------
(* Registering a deposit *)

\* A step of an action that leaves storage, but for a patch of the slot, and
\* Bitcoin alone: what remains to be shown of it.
LEMMA RegisterKeeps ==
    ASSUME Inv, NEW t \in Tabs, ~At(Action(t), "save"),
           \A q \in Runners \ {Action(t)} : pc'[q] = pc[q] /\ mem'[q] = mem[q],
           UNCHANGED <<reserved, saved, btc, cut, raced>>,
           slot' \in Deposits(Indices) \cup {None},
           \A x \in Txids : Holds(slot, x) => Holds(slot', x),
           reg' \in [Txids -> {"none", "landed", "mine", "other"}],
           tx' \in [Txids -> Seq(Statuses)], Crew(pc', mem', arg', txLock', tx'),
           ~raced => Books(slot', tx', reg') /\ Knows(pc', mem', arg', slot', tx', reg')
    PROVE  Inv'
<1>1. Typed'
    BY DEF Inv, Typed
<1>2. OrphanedOnlyByRace'
  <2>1. SUFFICES ASSUME ~cut', ~raced' PROVE OrphanedOnlyByRace'
      BY DEF OrphanedOnlyByRace
  <2>2. ASSUME NEW u \in Tabs, At(Action(u), "save")
        PROVE  pc'[Action(u)] = "save" /\ mem'[Action(u)] = mem[Action(u)]
    <3>1. Action(u) \in Runners \ {Action(t)}
        BY <2>2, TabRunners DEF At
    <3> QED
        BY <2>2, <3>1 DEF At
  <2> QED
      BY <2>1, <2>2, StillRemembered
<1> QED
    BY <1>1, <1>2 DEF Inv

LEMMA StartRegisterKeeps ==
    ASSUME Inv, NEW t \in Tabs, register(t) PROVE Inv'
<1> DEFINE r == Action(t)
<1>1. /\ pc[r] = "idle" /\ ~At(r, "save") /\ slot # None /\ txLock' = t
      /\ pc' = [pc EXCEPT ![r] = "depositor"] /\ mem' = [mem EXCEPT ![r] = slot] /\ arg' = arg
      /\ UNCHANGED <<storage, depositLock, chain, history>>
    BY DEF register, At
<1>2. txLock = None
    BY DEF register, tx_lock_free
<1>3. r \in Runners /\ r[1] = t /\ r[2] = "action"
    BY TabRunners
<1>4. slot \in Deposits(Indices) /\ slot \in Deposits(0..(MaxIndex + 1))
    BY <1>1, Patched DEF Inv, Typed
<1>5. Crew(pc, mem, arg, txLock, tx)
    BY DEF Inv, Typed
<1>6. /\ pc' \in [Runners -> Steps] /\ pc'[r] = "depositor"
      /\ mem' \in [Runners -> Deposits(0..(MaxIndex + 1)) \cup {None}] /\ mem'[r] = slot
      /\ arg' \in [Runners -> Txids \cup {None}]
      /\ \A q \in Runners \ {r} : pc'[q] = pc[q] /\ mem'[q] = mem[q] /\ arg'[q] = arg[q]
    BY <1>1, <1>3, <1>4, <1>5 DEF Crew, Steps, LockSteps, Tracking
<1> HIDE DEF r
<1>7. Sane(r, "depositor", slot, arg'[r], txLock', tx)
    BY <1>1, <1>3, <1>4 DEF Sane, Tracking
<1>8. Crew(pc', mem', arg', txLock', tx)
    BY <1>2, <1>3, <1>5, <1>6, <1>7, CrewMoves
<1>9. ASSUME ~raced PROVE Knows(pc', mem', arg', slot, tx, reg)
  <2>1. Knows(pc, mem, arg, slot, tx, reg)
      BY <1>9 DEF Inv
  <2>2. Owns("depositor", slot, arg'[r], slot, tx, reg)
      BY <1>1 DEF Owns, Unhashed, Holds
  <2> QED
      BY <1>3, <1>6, <2>1, <2>2, KnowsMoves
<1> QED
    BY <1>1, <1>6, <1>8, <1>9, RegisterKeeps DEF r, Inv, Typed, storage, chain, history

\* The call is prepared: its txid has no position, and no call for it is under way.
LEMMA RealRegisterKeeps ==
    ASSUME Inv, NEW t \in Tabs, realRegister(t) PROVE Inv'
<1> DEFINE r == Action(t)
           x == mem[r].txid
<1>1. pc[r] = "bundle" /\ ~At(r, "save") /\ UNCHANGED <<storage, depositLock, chain, history>>
    BY DEF realRegister, At
<1>2. r \in Runners /\ r[1] = t /\ r[2] = "action" /\ pc[r] \in LockSteps /\ pc[r] \in Carrying
    BY <1>1, TabRunners DEF LockSteps, Carrying
<1>3. CASE Stop(r)
    BY <1>1, <1>2, <1>3, EndKeeps DEF history
<1>4. CASE /\ reg[x] \in {"none", "landed"}
           /\ pc' = [pc EXCEPT ![r] = "sign"] /\ arg' = [arg EXCEPT ![r] = x]
           /\ mem' = [mem EXCEPT ![r] = slot] /\ UNCHANGED <<aborted, txLock>>
  <2>1. x \in Txids
      BY <1>2, InMemory
  <2>2. slot \in Deposits(Indices) \cup {None} /\ slot \in Deposits(0..(MaxIndex + 1)) \cup {None}
      BY Patched DEF Inv, Typed
  <2>3. Crew(pc, mem, arg, txLock, tx)
      BY DEF Inv, Typed
  <2> HIDE DEF r, x
  <2>4. /\ pc' \in [Runners -> Steps] /\ pc'[r] = "sign"
        /\ mem' \in [Runners -> Deposits(0..(MaxIndex + 1)) \cup {None}] /\ mem'[r] = slot
        /\ arg' \in [Runners -> Txids \cup {None}] /\ arg'[r] = x
        /\ \A q \in Runners \ {r} : pc'[q] = pc[q] /\ mem'[q] = mem[q] /\ arg'[q] = arg[q]
      BY <1>2, <1>4, <2>1, <2>2, <2>3 DEF Crew, Steps, LockSteps
  <2>5. txLock = t /\ txLock' = txLock
      BY <1>2, <1>4, Trackers
  <2>6. Sane(r, "sign", slot, x, txLock', tx)
      BY <1>2, <2>1, <2>2, <2>5 DEF Sane, Carrying, Tracking
  <2>7. Crew(pc', mem', arg', txLock', tx)
      BY <1>2, <2>3, <2>4, <2>5, <2>6, CrewMoves
  <2>8. ASSUME ~raced PROVE Knows(pc', mem', arg', slot, tx, reg)
    <3>1. Knows(pc, mem, arg, slot, tx, reg) /\ Books(slot, tx, reg)
        BY <2>8 DEF Inv
    <3>2. Owns("bundle", mem[r], arg[r], slot, tx, reg)
        BY <1>1, <1>2, <2>8, Trackers DEF r
    <3>3. Unhashed(slot) /\ Holds(slot, x)
        BY <1>4, <3>2 DEF Owns, x
    <3>4. reg[x] # "landed"
        BY <2>1, <3>1, <3>3 DEF Books, Unhashed, Holds
    <3>5. Owns("sign", slot, x, slot, tx, reg)
        BY <1>4, <3>3, <3>4 DEF Owns
    <3> QED
        BY <1>2, <2>4, <3>1, <3>5, KnowsMoves
  <2> QED
      BY <1>1, <2>2, <2>4, <2>7, <2>8, RegisterKeeps DEF r, Inv, Typed, storage, chain, history
<1> QED
    BY <1>3, <1>4 DEF realRegister

LEMMA SignRejectedKeeps ==
    ASSUME Inv, NEW t \in Tabs, SignRejected(t) PROVE Inv'
BY TabRunners, EndKeeps DEF SignRejected, At, history

LEMMA TxTimedOutKeeps ==
    ASSUME Inv, NEW t \in Tabs, TxTimedOut(t) PROVE Inv'
BY TabRunners, EndKeeps DEF TxTimedOut, At, history

\* A hash written to whatever deposit the slot holds.
LEMMA HashWritten ==
    ASSUME Inv, NEW h \in {None} \cup (Txids \X Nat), NEW s2, s2 = update("hash", h)
    PROVE  /\ s2 \in Deposits(Indices) \cup {None}
           /\ \A x \in Txids : Holds(slot, x) => Holds(s2, x)
           /\ s2 # None <=> slot # None
           /\ slot # None => s2.txid = slot.txid /\ s2.hash = h
<1>1. slot \in Deposits(Indices) \cup {None}
    BY DEF Inv, Typed
<1>2. CASE slot = None
    BY <1>2 DEF update, Holds
<1>3. CASE slot # None
  <2>1. slot \in Deposits(Indices) /\ s2 = [slot EXCEPT !["hash"] = h]
      BY <1>1, <1>3 DEF update
  <2>2. s2 \in Deposits(Indices) /\ s2.txid = slot.txid /\ s2.hash = h
    <3>1. \A k \in {None} \cup (Txids \X Nat) :
            /\ [slot EXCEPT !["hash"] = k] \in Deposits(Indices)
            /\ [slot EXCEPT !["hash"] = k].txid = slot.txid
            /\ [slot EXCEPT !["hash"] = k].hash = k
        BY <2>1, Patched
    <3>2. /\ [slot EXCEPT !["hash"] = h] \in Deposits(Indices)
          /\ [slot EXCEPT !["hash"] = h].txid = slot.txid
          /\ [slot EXCEPT !["hash"] = h].hash = h
        BY <3>1, Zenon
    <3> QED
        BY <2>1, <3>2
  <2>3. s2 # None
      BY <2>2, Patched, DepositFields, DepositAssumption
  <2> QED
      BY <1>3, <2>2, <2>3 DEF Holds
<1> QED
    BY <1>2, <1>3

\* The call is recorded and sent: from now on the slot knows of it.
LEMMA SignKeeps ==
    ASSUME Inv, NEW t \in Tabs, sign(t) PROVE Inv'
<1> DEFINE r == Action(t)
           x == arg[r]
           h == <<x, Len(tx[x]) + 1>>
<1>1. /\ pc[r] = "sign" /\ ~At(r, "save")
      /\ tx' = [tx EXCEPT ![x] = Append(@, "pending")]
      /\ slot' = update("hash", h) /\ Continue(r, "await", slot')
      /\ UNCHANGED <<reserved, saved, depositLock, btc, reg, history>>
    BY DEF sign, At
<1>2. r \in Runners /\ r[1] = t /\ r[2] = "action" /\ pc[r] \in LockSteps
    BY <1>1, TabRunners DEF LockSteps
<1>3. x \in Txids
    BY <1>1, <1>2 DEF Inv, Typed, Crew, Sane
<1>4. tx \in [Txids -> Seq(Statuses)] /\ Crew(pc, mem, arg, txLock, tx)
    BY DEF Inv, Typed
<1>5. tx[x] \in Seq(Statuses) /\ Len(tx[x]) \in Nat /\ h \in Txids \X Nat /\ h # None
    BY <1>3, <1>4, DepositAssumption
<1>6. "pending" \in Statuses
    BY DEF Statuses
<1> HIDE DEF r, x
<1>7. /\ tx' \in [Txids -> Seq(Statuses)]
      /\ tx'[x] # <<>> /\ Len(tx'[x]) = Len(tx[x]) + 1
      /\ DOMAIN tx'[x] = DOMAIN tx[x] \cup {Len(tx[x]) + 1}
      /\ \A j \in DOMAIN tx[x] : tx'[x][j] = tx[x][j]
      /\ \A y \in Txids \ {x} : tx'[y] = tx[y]
      /\ \A y \in Txids : tx[y] # <<>> => tx'[y] # <<>>
    BY <1>1, <1>3, <1>4, <1>6, LogAppend
<1>8. /\ slot' \in Deposits(Indices) \cup {None}
      /\ \A y \in Txids : Holds(slot, y) => Holds(slot', y)
      /\ slot' # None <=> slot # None
      /\ slot # None => slot'.txid = slot.txid /\ slot'.hash = h
    BY <1>1, <1>5, HashWritten
<1>9. /\ pc' \in [Runners -> Steps] /\ pc'[r] = "await"
      /\ mem' \in [Runners -> Deposits(0..(MaxIndex + 1)) \cup {None}] /\ mem'[r] = slot'
      /\ arg' = arg /\ arg \in [Runners -> Txids \cup {None}] /\ txLock' = txLock
      /\ \A q \in Runners \ {r} : pc'[q] = pc[q] /\ mem'[q] = mem[q] /\ arg'[q] = arg[q]
  <2>1. slot' \in Deposits(0..(MaxIndex + 1)) \cup {None}
      BY <1>8, Patched
  <2> QED
      BY <1>1, <1>2, <1>4, <2>1 DEF Crew, Continue, Steps, LockSteps
<1>10. Crew(pc', mem', arg', txLock', tx')
  <2>1. Crew(pc, mem, arg, txLock, tx')
      BY <1>4, <1>7, CrewLog
  <2>2. txLock = t
      BY <1>2, Trackers
  <2>3. Sane(r, "await", slot', x, txLock, tx')
      BY <1>2, <1>3, <1>7, <1>8, <2>2 DEF Sane, Carrying, Tracking
  <2> QED
      BY <1>2, <1>9, <2>1, <2>3, CrewMoves DEF x
<1>11. ASSUME ~raced PROVE Books(slot', tx', reg) /\ Knows(pc', mem', arg', slot', tx', reg)
  <2>1. Books(slot, tx, reg) /\ Knows(pc, mem, arg, slot, tx, reg)
      BY <1>11 DEF Inv
  <2>2. slot # None /\ slot.txid = x /\ slot.hash = None /\ reg[x] \notin {"landed", "mine"}
    <3>1. Owns("sign", mem[r], x, slot, tx, reg)
        BY <1>1, <1>2, <1>11, Trackers DEF x
    <3> QED
        BY <3>1 DEF Owns, Holds, Unhashed
  <2>3. slot' # None /\ slot'.txid = x /\ slot'.hash = h
      BY <1>8, <2>2
  <2>4. \A y \in Txids : \A i \in DOMAIN tx[y] : tx[y][i] # "pending"
    <3>1. SUFFICES ASSUME NEW y \in Txids, NEW i \in DOMAIN tx[y], tx[y][i] = "pending" PROVE FALSE
        OBVIOUS
    <3>2. slot.hash = <<y, i>>
        BY <2>1, <3>1 DEF Books
    <3>3. <<y, i>> \in Txids \X Nat
        BY <1>4, <3>1
    <3> QED
        BY <2>2, <3>2, <3>3, DepositAssumption
  <2>5. \A y \in Txids : reg[y] # "landed"
      BY <2>1, <2>2 DEF Books
  <2>6. ASSUME NEW y \in Txids, NEW i \in DOMAIN tx'[y], tx'[y][i] = "pending"
        PROVE  y = x /\ i = Len(tx[x]) + 1
      BY <1>7, <2>4, <2>6
  <2>7. Books(slot', tx', reg)
      BY <1>3, <2>2, <2>3, <2>5, <2>6 DEF Books, Holds
  <2>8. Owns("await", slot', x, slot', tx', reg)
      BY <1>7, <2>3 DEF Owns
  <2>9. ASSUME NEW u \in Tabs PROVE Owns(pc'[Action(u)], mem'[Action(u)], arg'[Action(u)], slot', tx', reg)
    <3>1. CASE u = t
        BY <1>9, <2>8, <3>1 DEF r, x
    <3>2. CASE u # t
      <4>1. Owns(pc[Action(u)], mem[Action(u)], arg[Action(u)], slot', tx', reg)
          BY <1>2, <1>4, <3>2, OthersAreOutside DEF r
      <4>2. Action(u) \in Runners \ {r}
          BY <3>2, TabRunners DEF r
      <4> QED
          BY <1>9, <4>1, <4>2
    <3> QED
        BY <3>1, <3>2
  <2> QED
      BY <2>7, <2>9 DEF Knows
<1> QED
  <2>1. /\ UNCHANGED <<reserved, saved, btc, cut, raced>> /\ reg' = reg
        /\ reg \in [Txids -> {"none", "landed", "mine", "other"}]
      BY <1>1 DEF history, Inv, Typed
  <2> QED
      BY <1>1, <1>7, <1>8, <1>9, <1>10, <1>11, <2>1, RegisterKeeps DEF r

\* The slot of a runner whose call is over, when it drops the call's hash.
LEMMA Dropped ==
    ASSUME Inv, NEW r \in Runners, dropped(r)
    PROVE  /\ slot' \in Deposits(Indices) \cup {None}
           /\ \A x \in Txids : Holds(slot, x) => Holds(slot', x)
           /\ \/ slot' = slot
              \/ slot # None /\ slot' # None /\ slot'.txid = slot.txid /\ slot'.hash = None
<1>1. slot \in Deposits(Indices) \cup {None}
    BY DEF Inv, Typed
<1>2. CASE slot' = slot
    BY <1>1, <1>2
<1>3. CASE slot' = update("hash", None)
  <2>1. CASE slot = None
      BY <1>2, <1>3, <2>1 DEF update
  <2>2. CASE slot # None
      BY <1>3, <2>2, HashWritten
  <2> QED
      BY <2>1, <2>2
<1> QED
    BY <1>2, <1>3 DEF dropped

\* What is known of a runner that waits for its call.
LEMMA Waiting ==
    ASSUME Inv, NEW t \in Tabs, At(Action(t), "await")
    PROVE  /\ Action(t) \in Runners /\ arg[Action(t)] \in Txids
           /\ mem[Action(t)] \in Deposits(Indices) \cup {None} /\ txLock = t
           /\ Call(Action(t))[1] = arg[Action(t)] /\ Call(Action(t)) # None
           /\ Call(Action(t))[2] \in DOMAIN tx[arg[Action(t)]]
           /\ ~raced => Unhashed(slot) \/ slot.hash = Call(Action(t))
<1> DEFINE r == Action(t)
           x == arg[r]
<1>1. r \in Runners /\ r[1] = t /\ r[2] = "action" /\ pc[r] = "await" /\ pc[r] \in LockSteps
    BY TabRunners DEF At, LockSteps
<1>2. Sane(r, "await", mem[r], x, txLock, tx)
    BY <1>1 DEF Inv, Typed, Crew
<1>3. x \in Txids /\ mem[r] \in Deposits(Indices) \cup {None} /\ txLock = t /\ tx[x] # <<>>
    BY <1>1, <1>2 DEF Sane
<1>4. tx[x] \in Seq(Statuses)
    BY <1>3 DEF Inv, Typed
<1>5. Len(tx[x]) \in Nat /\ Len(tx[x]) \in DOMAIN tx[x]
    BY <1>3, <1>4
<1>6. ~raced => Owns("await", mem[r], x, slot, tx, reg)
    BY <1>1, Trackers
<1> HIDE DEF r, x
<1>7. Call(r) = <<x, Len(tx[x])>> /\ Call(r) # None
    BY <1>3, <1>5, DepositAssumption DEF Call, x
<1> QED
    BY <1>1, <1>3, <1>5, <1>6, <1>7 DEF r, x, Owns

LEMMA SettledKeeps ==
    ASSUME Inv, NEW t \in Tabs, settled(t) PROVE Inv'
<1> DEFINE r == Action(t)
<1>1. /\ At(r, "await") /\ ~At(r, "save") /\ pc[r] \in LockSteps
      /\ UNCHANGED <<reserved, saved, depositLock, chain, history>>
    BY DEF settled, At, LockSteps
<1>2. /\ r \in Runners /\ mem[r] \in Deposits(Indices) \cup {None} /\ txLock = t
      /\ ~raced => Unhashed(slot) \/ slot.hash = Call(r)
    BY <1>1, Waiting
<1>3. r[1] = t /\ r[2] = "action"
    BY TabRunners
<1>4. CASE Stop(r) /\ UNCHANGED slot
    BY <1>1, <1>2, <1>4, EndKeeps DEF storage, history
<1>5. CASE mem[r] # None /\ Continue(r, "finalize", mem[r]) /\ UNCHANGED slot
  <2>1. mem[r] \in Deposits(Indices)
      BY <1>2, <1>5
  <2> HIDE DEF r
  <2>2. Sane(r, "finalize", mem[r], arg[r], txLock, tx)
      BY <1>2, <1>3, <2>1 DEF Sane, Tracking
  <2>3. Owns("finalize", mem[r], arg[r], slot, tx, reg)
      BY DEF Owns
  <2> QED
      BY <1>1, <1>2, <1>5, <2>1, <2>2, <2>3, GoOnKeeps DEF storage, history, Steps, LockSteps, Tracking
<1>6. CASE Status(Call(r)) = "failed" /\ Stop(r) /\ dropped(r)
  <2> HIDE DEF r
  <2>1. /\ slot' \in Deposits(Indices) \cup {None}
        /\ \A x \in Txids : Holds(slot, x) => Holds(slot', x)
        /\ \/ slot' = slot
           \/ slot # None /\ slot' # None /\ slot'.txid = slot.txid /\ slot'.hash = None
      BY <1>2, <1>6, Dropped
  <2>2. ~raced => Fits(slot, slot', tx, reg)
      BY <1>2, <1>6, <2>1 DEF Fits, Kept, Unhashed, Status
  <2>3. /\ saved \in [Txids -> Indices \cup {None}] /\ reserved \in SUBSET Indices
        /\ raced \in BOOLEAN
      BY DEF Inv, Typed
  <2> QED
      BY <1>1, <1>2, <1>6, <2>1, <2>2, <2>3, StopKeeps DEF chain, history
<1> QED
    BY <1>4, <1>5, <1>6 DEF settled

\* The network refused the only call under way.
LEMMA SendFailedKeeps ==
    ASSUME Inv, NEW t \in Tabs, SendFailed(t) PROVE Inv'
<1> DEFINE r == Action(t)
           x == arg[r]
           i == Call(r)[2]
<1>1. /\ pc[r] = "await" /\ At(r, "await") /\ ~At(r, "save") /\ pc[r] \in LockSteps
      /\ Status(Call(r)) = "pending" /\ Becomes(Call(r), "expired") /\ dropped(r) /\ Stop(r)
      /\ UNCHANGED <<reserved, saved, depositLock, btc, reg, history>>
    BY DEF SendFailed, At, LockSteps
<1>2. /\ r \in Runners /\ x \in Txids /\ txLock = t
      /\ Call(r)[1] = x /\ i \in DOMAIN tx[x]
    BY <1>1, Waiting
<1>3. r[1] = t /\ r[2] = "action"
    BY TabRunners
<1>4. /\ tx \in [Txids -> Seq(Statuses)] /\ Crew(pc, mem, arg, txLock, tx)
      /\ reg \in [Txids -> {"none", "landed", "mine", "other"}]
    BY DEF Inv, Typed
<1>5. tx[x][i] = "pending" /\ tx' = [tx EXCEPT ![x] = [@ EXCEPT ![i] = "expired"]]
    BY <1>1, <1>2 DEF Status, Becomes
<1> HIDE DEF r, x, i
<1>6. /\ tx' \in [Txids -> Seq(Statuses)] /\ tx'[x][i] = "expired"
      /\ \A y \in Txids : DOMAIN tx'[y] = DOMAIN tx[y]
      /\ \A y \in Txids : tx[y] # <<>> => tx'[y] # <<>>
      /\ \A y \in Txids : \A j \in DOMAIN tx[y] : <<y, j>> # <<x, i>> => tx'[y][j] = tx[y][j]
  <2>1. "expired" \in Statuses
      BY DEF Statuses
  <2> QED
      BY <1>2, <1>4, <1>5, <2>1, LogSet
<1>7. /\ slot' \in Deposits(Indices) \cup {None}
      /\ \A y \in Txids : Holds(slot, y) => Holds(slot', y)
    BY <1>1, <1>2, Dropped
<1>8. /\ pc' \in [Runners -> Steps] /\ pc'[r] = "idle" /\ txLock' = None
      /\ mem' \in [Runners -> Deposits(0..(MaxIndex + 1)) \cup {None}]
      /\ arg' \in [Runners -> Txids \cup {None}]
      /\ \A q \in Runners \ {r} : pc'[q] = pc[q] /\ mem'[q] = mem[q] /\ arg'[q] = arg[q]
    BY <1>1, <1>2, <1>3, <1>4 DEF Crew, Stop, Steps, r
<1>9. Crew(pc', mem', arg', txLock', tx')
  <2>1. Crew(pc, mem, arg, txLock, tx')
      BY <1>4, <1>6, CrewLog
  <2>2. Sane(r, pc'[r], mem'[r], arg'[r], txLock', tx')
      BY <1>8 DEF Sane, Carrying, LockSteps, Tracking
  <2>3. r = Action(txLock)
      BY <1>2 DEF r
  <2> QED
      BY <1>2, <1>8, <2>1, <2>2, <2>3, CrewMoves
<1>10. ASSUME ~raced PROVE Books(slot', tx', reg) /\ Knows(pc', mem', arg', slot', tx', reg)
  <2>1. Books(slot, tx, reg)
      BY <1>10 DEF Inv
  <2>2. slot.hash = <<x, i>>
      BY <1>2, <1>5, <2>1 DEF Books
  <2>3. ASSUME NEW y \in Txids, NEW j \in DOMAIN tx'[y] PROVE tx'[y][j] # "pending"
    <3>1. CASE <<y, j>> = <<x, i>>
        BY <1>6, <3>1
    <3>2. CASE <<y, j>> # <<x, i>>
      <4>1. j \in DOMAIN tx[y] /\ tx'[y][j] = tx[y][j]
          BY <1>6, <2>3, <3>2
      <4> QED
          BY <2>1, <2>2, <3>2, <4>1 DEF Books
    <3> QED
        BY <3>1, <3>2
  <2>4. \A y \in Txids : reg[y] # "landed"
      BY <1>5, <2>1, <2>2 DEF Books
  <2>5. Books(slot', tx', reg)
      BY <2>3, <2>4 DEF Books
  <2>6. ASSUME NEW u \in Tabs PROVE Owns(pc'[Action(u)], mem'[Action(u)], arg'[Action(u)], slot', tx', reg)
    <3>1. CASE u = t
        BY <1>8, <3>1 DEF r, Owns
    <3>2. CASE u # t
      <4>1. Owns(pc[Action(u)], mem[Action(u)], arg[Action(u)], slot', tx', reg)
          BY <1>1, <1>4, <3>2, OthersAreOutside DEF r
      <4>2. Action(u) \in Runners \ {r}
          BY <3>2, TabRunners DEF r
      <4> QED
          BY <1>8, <4>1, <4>2
    <3> QED
        BY <3>1, <3>2
  <2> QED
      BY <2>5, <2>6 DEF Knows
<1> QED
    BY <1>1, <1>4, <1>6, <1>7, <1>8, <1>9, <1>10, RegisterKeeps DEF r, history

-----------------------------------------------------------------------------
(* Bitcoin, Stellar and the browser *)

\* A step of the networks: what remains to be shown of it.
LEMMA NetworkKeeps ==
    ASSUME Inv, UNCHANGED <<storage, txLock, pc, mem, arg, cut, raced>>,
           btc' \in [Txids -> {"unsent", "mempool", "confirmed"}],
           \A x \in Txids : btc'[x] # "unsent" => btc[x] # "unsent",
           reg' \in [Txids -> {"none", "landed", "mine", "other"}],
           \A x \in Txids : reg'[x] # "mine" => reg[x] # "mine",
           ~raced /\ Unhashed(slot) =>
               \A x \in Txids : reg[x] \notin {"landed", "mine"} => reg'[x] \notin {"landed", "mine"},
           tx' \in [Txids -> Seq(Statuses)],
           \A x \in Txids : Len(tx'[x]) = Len(tx[x]),
           \A x \in Txids : tx[x] # <<>> => tx'[x] # <<>>,
           ~raced => Books(slot, tx', reg')
    PROVE  Inv'
<1>1. Crew(pc, mem, arg, txLock, tx)
    BY DEF Inv, Typed
<1>2. Typed'
    BY <1>1, CrewLog DEF Inv, Typed, storage
<1>3. ASSUME ~raced, NEW t \in Tabs
      PROVE  Owns(pc[Action(t)], mem[Action(t)], arg[Action(t)], slot, tx', reg')
  <2> DEFINE r == Action(t)
  <2>1. Owns(pc[r], mem[r], arg[r], slot, tx, reg)
      BY <1>3 DEF Inv, Knows
  <2>2. r \in Runners
      BY TabRunners
  <2>3. Sane(r, pc[r], mem[r], arg[r], txLock, tx)
      BY <1>1, <2>2 DEF Crew
  <2> SUFFICES Owns(pc[r], mem[r], arg[r], slot, tx', reg')
      OBVIOUS
  <2> HIDE DEF r
  <2>4. CASE pc[r] \in {"depositor", "status", "output", "confirm", "bundle"}
    <3>1. mem[r].txid \in Txids
        BY <2>2, <2>4, InMemory DEF Carrying, Tracking
    <3> QED
        BY <2>1, <2>4, <3>1 DEF Owns
  <2>5. CASE pc[r] \in {"sign", "await"}
    <3>1. arg[r] \in Txids
        BY <2>3, <2>5 DEF Sane
    <3> QED
        BY <1>3, <2>1, <2>5, <3>1 DEF Owns
  <2>6. CASE pc[r] \notin {"depositor", "status", "output", "confirm", "bundle", "sign", "await"}
      BY <2>6 DEF Owns
  <2> QED
      BY <2>4, <2>5, <2>6
<1>4. OrphanedOnlyByRace'
  <2>1. SUFFICES ASSUME ~cut', ~raced' PROVE OrphanedOnlyByRace'
      BY DEF OrphanedOnlyByRace
  <2> QED
      BY <2>1, StillRemembered DEF storage, At
<1> QED
    BY <1>2, <1>3, <1>4 DEF Inv, Knows, storage

LEMMA ConfirmsKeeps ==
    ASSUME Inv, NEW x \in Txids, Confirms(x) PROVE Inv'
<1>1. /\ btc[x] = "mempool" /\ btc' = [btc EXCEPT ![x] = "confirmed"]
      /\ UNCHANGED <<storage, txLock, pc, mem, arg, cut, raced, reg, tx>>
    BY DEF Confirms, history
<1>2. /\ btc \in [Txids -> {"unsent", "mempool", "confirmed"}]
      /\ reg \in [Txids -> {"none", "landed", "mine", "other"}] /\ tx \in [Txids -> Seq(Statuses)]
      /\ ~raced => Books(slot, tx, reg)
    BY DEF Inv, Typed
<1>3. /\ btc' \in [Txids -> {"unsent", "mempool", "confirmed"}]
      /\ \A y \in Txids : btc'[y] # "unsent" => btc[y] # "unsent"
    BY <1>1, <1>2
<1> QED
    BY <1>1, <1>2, <1>3, NetworkKeeps

\* Reads see the position: the call that landed is the one the slot knows of.
LEMMA CatchUpKeeps ==
    ASSUME Inv, NEW x \in Txids, CatchUp(x) PROVE Inv'
<1>1. /\ reg[x] = "landed" /\ reg' = [reg EXCEPT ![x] = "mine"]
      /\ UNCHANGED <<storage, txLock, pc, mem, arg, cut, raced, btc, tx>>
    BY DEF CatchUp, history
<1>2. /\ btc \in [Txids -> {"unsent", "mempool", "confirmed"}]
      /\ reg \in [Txids -> {"none", "landed", "mine", "other"}] /\ tx \in [Txids -> Seq(Statuses)]
      /\ ~raced => Books(slot, tx, reg)
    BY DEF Inv, Typed
<1>3. /\ reg' \in [Txids -> {"none", "landed", "mine", "other"}] /\ reg'[x] = "mine"
      /\ \A y \in Txids \ {x} : reg'[y] = reg[y]
    BY <1>1, <1>2
<1>4. ASSUME ~raced PROVE ~Unhashed(slot) /\ Books(slot, tx, reg')
  <2>1. Holds(slot, x) /\ slot.hash # None /\ tx[slot.hash[1]][slot.hash[2]] = "success"
      BY <1>1, <1>2, <1>4 DEF Books
  <2>2. \A y \in Txids : \A i \in DOMAIN tx[y] : tx[y][i] # "pending"
      BY <1>2, <1>4, <2>1 DEF Books
  <2>3. \A y \in Txids : reg'[y] = "landed" => reg[y] = "landed"
      BY <1>3
  <2> QED
      BY <1>2, <1>4, <2>1, <2>2, <2>3 DEF Books, Unhashed, Holds
<1> QED
    BY <1>1, <1>2, <1>3, <1>4, NetworkKeeps

LEMMA OtherRegistersKeeps ==
    ASSUME Inv, NEW x \in Txids, OtherRegisters(x) PROVE Inv'
<1>1. /\ reg[x] = "none" /\ reg' = [reg EXCEPT ![x] = "other"]
      /\ UNCHANGED <<storage, txLock, pc, mem, arg, cut, raced, btc, tx>>
    BY DEF OtherRegisters
<1>2. /\ btc \in [Txids -> {"unsent", "mempool", "confirmed"}]
      /\ reg \in [Txids -> {"none", "landed", "mine", "other"}] /\ tx \in [Txids -> Seq(Statuses)]
      /\ ~raced => Books(slot, tx, reg)
    BY DEF Inv, Typed
<1>3. /\ reg' \in [Txids -> {"none", "landed", "mine", "other"}] /\ reg'[x] = "other"
      /\ \A y \in Txids \ {x} : reg'[y] = reg[y]
    BY <1>1, <1>2
<1>4. ~raced => Books(slot, tx, reg')
    BY <1>1, <1>2, <1>3 DEF Books
<1> QED
    BY <1>1, <1>2, <1>3, <1>4, NetworkKeeps

\* The only call under way ends: it lands, fails or expires.
LEMMA CallEnds ==
    ASSUME Inv, NEW x \in Txids, NEW i \in DOMAIN tx[x], tx[x][i] = "pending",
           NEW st \in {"success", "failed", "expired"},
           tx' = [tx EXCEPT ![x] = [@ EXCEPT ![i] = st]],
           IF st = "success" THEN reg[x] = "none" /\ reg' = [reg EXCEPT ![x] = "landed"] ELSE reg' = reg,
           UNCHANGED <<storage, txLock, pc, mem, arg, cut, raced, btc>>
    PROVE  Inv'
<1>1. /\ btc \in [Txids -> {"unsent", "mempool", "confirmed"}]
      /\ reg \in [Txids -> {"none", "landed", "mine", "other"}] /\ tx \in [Txids -> Seq(Statuses)]
      /\ ~raced => Books(slot, tx, reg)
    BY DEF Inv, Typed
<1>2. /\ tx' \in [Txids -> Seq(Statuses)] /\ tx'[x][i] = st
      /\ \A y \in Txids : DOMAIN tx'[y] = DOMAIN tx[y] /\ Len(tx'[y]) = Len(tx[y])
      /\ \A y \in Txids : tx[y] # <<>> => tx'[y] # <<>>
      /\ \A y \in Txids : \A j \in DOMAIN tx[y] : <<y, j>> # <<x, i>> => tx'[y][j] = tx[y][j]
  <2>1. st \in Statuses
      BY DEF Statuses
  <2> QED
      BY <1>1, <2>1, LogSet
<1>3. /\ reg' \in [Txids -> {"none", "landed", "mine", "other"}]
      /\ \A y \in Txids \ {x} : reg'[y] = reg[y]
      /\ st = "success" => reg[x] = "none" /\ reg'[x] = "landed"
      /\ st # "success" => reg'[x] = reg[x]
    BY <1>1
<1>4. ASSUME ~raced PROVE ~Unhashed(slot) /\ Books(slot, tx', reg')
  <2>1. Holds(slot, x) /\ slot.hash = <<x, i>> /\ reg[x] # "mine" /\ slot.hash # None
    <3>1. <<x, i>> \in Txids \X Nat
        BY <1>1
    <3> QED
        BY <1>1, <1>4, <3>1, DepositAssumption DEF Books
  <2>2. ASSUME NEW y \in Txids, NEW j \in DOMAIN tx'[y] PROVE tx'[y][j] # "pending"
    <3>1. CASE <<y, j>> = <<x, i>>
        BY <1>2, <3>1
    <3>2. CASE <<y, j>> # <<x, i>>
        BY <1>1, <1>2, <1>4, <2>1, <2>2, <3>2 DEF Books
    <3> QED
        BY <3>1, <3>2
  <2>3. \A y \in Txids : reg[y] # "landed"
      BY <1>1, <1>4, <2>1 DEF Books
  <2>4. ASSUME NEW y \in Txids, reg'[y] = "landed"
        PROVE  Holds(slot, y) /\ tx'[slot.hash[1]][slot.hash[2]] = "success"
    <3>1. y = x /\ st = "success"
        BY <1>3, <2>3, <2>4
    <3> QED
        BY <1>2, <2>1, <3>1
  <2> QED
      BY <2>1, <2>2, <2>4 DEF Books, Unhashed, Holds
<1> QED
    BY <1>1, <1>2, <1>3, <1>4, NetworkKeeps

LEMMA LandKeeps ==
    ASSUME Inv, NEW h \in Calls, Land(h) PROVE Inv'
<1>1. /\ h[1] \in Txids /\ h[2] \in DOMAIN tx[h[1]] /\ tx[h[1]][h[2]] = "pending"
      /\ UNCHANGED <<storage, txLock, pc, mem, arg, cut, raced, btc>>
  <2>1. h[1] \in Txids /\ h[2] \in 1..MaxSigned /\ h[2] <= Len(tx[h[1]])
      BY DEF Land, Calls, Signed
  <2>2. tx[h[1]] \in Seq(Statuses) /\ MaxSigned \in Nat
      BY <2>1, DepositAssumption DEF Inv, Typed
  <2> QED
      BY <2>1, <2>2 DEF Land, Status, history
<1>2. CASE reg[h[1]] = "none"
  <2>1. /\ tx' = [tx EXCEPT ![h[1]] = [@ EXCEPT ![h[2]] = "success"]]
        /\ reg' = [reg EXCEPT ![h[1]] = "landed"]
      BY <1>2 DEF Land, Becomes
  <2> QED
      BY <1>1, <1>2, <2>1, CallEnds
<1>3. CASE reg[h[1]] # "none"
  <2>1. tx' = [tx EXCEPT ![h[1]] = [@ EXCEPT ![h[2]] = "failed"]] /\ reg' = reg
      BY <1>3 DEF Land, Becomes
  <2> QED
      BY <1>1, <2>1, CallEnds
<1> QED
    BY <1>2, <1>3

LEMMA ExpireKeeps ==
    ASSUME Inv, NEW h \in Calls, Expire(h) PROVE Inv'
<1>1. /\ h[1] \in Txids /\ h[2] \in DOMAIN tx[h[1]] /\ tx[h[1]][h[2]] = "pending"
      /\ tx' = [tx EXCEPT ![h[1]] = [@ EXCEPT ![h[2]] = "expired"]] /\ reg' = reg
      /\ UNCHANGED <<storage, txLock, pc, mem, arg, cut, raced, btc>>
  <2>1. h[1] \in Txids /\ h[2] \in 1..MaxSigned /\ h[2] <= Len(tx[h[1]])
      BY DEF Expire, Calls, Signed
  <2>2. tx[h[1]] \in Seq(Statuses) /\ MaxSigned \in Nat
      BY <2>1, DepositAssumption DEF Inv, Typed
  <2> QED
      BY <2>1, <2>2 DEF Expire, Status, Becomes, history
<1> QED
    BY <1>1, CallEnds

\* The effect starts afresh, or is told to stop.
LEMMA CleanupKeeps ==
    ASSUME Inv, NEW t \in Tabs, cleanup(t) PROVE Inv'
<1> DEFINE r == Effect(t)
<1>1. /\ r \in Runners /\ r[2] = "effect"
      /\ pc' = pc \/ pc' = [pc EXCEPT ![r] = "idle"]
      /\ UNCHANGED <<storage, txLock, mem, arg, chain, cut, raced>>
    BY TabRunners DEF cleanup
<1>2. Crew(pc, mem, arg, txLock, tx)
    BY DEF Inv, Typed
<1> HIDE DEF r
<1>3. CASE pc' = pc
  <2>1. Typed' /\ (~raced' => Books(slot', tx', reg') /\ Knows(pc', mem', arg', slot', tx', reg'))
      BY <1>1, <1>3 DEF Inv, Typed, storage, chain
  <2>2. OrphanedOnlyByRace'
    <3>1. SUFFICES ASSUME ~cut', ~raced' PROVE OrphanedOnlyByRace'
        BY DEF OrphanedOnlyByRace
    <3> QED
        BY <1>1, <1>3, <3>1, StillRemembered DEF storage, chain, At
  <2> QED
      BY <2>1, <2>2 DEF Inv
<1>4. CASE pc' = [pc EXCEPT ![r] = "idle"]
  <2>1. /\ pc' \in [Runners -> Steps] /\ pc'[r] = "idle"
        /\ mem' = mem /\ mem \in [Runners -> Deposits(0..(MaxIndex + 1)) \cup {None}]
        /\ arg' = arg /\ arg \in [Runners -> Txids \cup {None}] /\ txLock' = txLock
        /\ \A q \in Runners \ {r} : pc'[q] = pc[q] /\ mem'[q] = mem[q] /\ arg'[q] = arg[q]
      BY <1>1, <1>2, <1>4 DEF Crew, Steps
  <2>2. Sane(r, pc'[r], mem'[r], arg'[r], txLock', tx)
      BY <1>1, <2>1 DEF Sane, Carrying, Tracking
  <2>3. Crew(pc', mem', arg', txLock', tx)
      BY <1>1, <1>2, <2>1, <2>2, CrewMoves
  <2>4. Typed'
      BY <1>1, <2>3 DEF Inv, Typed, storage, chain
  <2>5. ASSUME ~raced PROVE Knows(pc', mem', arg', slot, tx, reg)
    <3>1. Knows(pc, mem, arg, slot, tx, reg)
        BY <2>5 DEF Inv
    <3> QED
        BY <1>1, <2>1, <3>1, KnowsMoves
  <2>6. OrphanedOnlyByRace'
    <3>1. SUFFICES ASSUME ~cut', ~raced' PROVE OrphanedOnlyByRace'
        BY DEF OrphanedOnlyByRace
    <3>2. ASSUME NEW u \in Tabs, At(Action(u), "save") PROVE pc'[Action(u)] = "save"
      <4>1. Action(u) \in Runners \ {r}
          BY <1>1, TabRunners
      <4> QED
          BY <2>1, <3>2, <4>1 DEF At
    <3> QED
        BY <1>1, <3>1, <3>2, StillRemembered DEF storage, chain
  <2> QED
      BY <1>1, <2>4, <2>5, <2>6 DEF Inv, storage, chain
<1> QED
    BY <1>1, <1>3, <1>4

\* A tab closes: what it knew is gone, and its locks are free.
LEMMA CloseKeeps ==
    ASSUME Inv, NEW t \in Tabs, close(t) PROVE Inv'
<1>1. /\ pc' = [r \in Runners |-> IF r[1] = t THEN "idle" ELSE pc[r]]
      /\ mem' = [r \in Runners |-> IF r[1] = t THEN None ELSE mem[r]]
      /\ arg' = [r \in Runners |-> IF r[1] = t THEN None ELSE arg[r]]
      /\ txLock' = IF txLock = t THEN None ELSE txLock
      /\ cut' = (cut \/ At(Action(t), "save"))
      /\ UNCHANGED <<storage, chain, raced>>
    BY DEF close, Freed
<1>2. Crew(pc, mem, arg, txLock, tx)
    BY DEF Inv, Typed
<1>3. /\ pc' \in [Runners -> Steps]
      /\ mem' \in [Runners -> Deposits(0..(MaxIndex + 1)) \cup {None}]
      /\ arg' \in [Runners -> Txids \cup {None}]
      /\ \A q \in Runners : IF q[1] = t
             THEN pc'[q] = "idle"
             ELSE pc'[q] = pc[q] /\ mem'[q] = mem[q] /\ arg'[q] = arg[q]
    BY <1>1, <1>2 DEF Crew, Steps
<1>4. ASSUME NEW q \in Runners PROVE Sane(q, pc'[q], mem'[q], arg'[q], txLock', tx)
  <2>1. CASE q[1] = t
      BY <1>3, <2>1 DEF Sane, Carrying, LockSteps, Tracking
  <2>2. CASE q[1] # t
    <3>1. Sane(q, pc[q], mem[q], arg[q], txLock, tx) /\ pc'[q] = pc[q] /\ mem'[q] = mem[q]
          /\ arg'[q] = arg[q]
        BY <1>2, <1>3, <2>2 DEF Crew
    <3> QED
        BY <1>1, <2>2, <3>1 DEF Sane
  <2> QED
      BY <2>1, <2>2
<1>5. Crew(pc', mem', arg', txLock', tx)
    BY <1>3, <1>4 DEF Crew
<1>6. Typed'
    BY <1>1, <1>5 DEF Inv, Typed, storage, chain
<1>7. ASSUME ~raced PROVE Knows(pc', mem', arg', slot, tx, reg)
  <2>1. SUFFICES ASSUME NEW u \in Tabs
                 PROVE  Owns(pc'[Action(u)], mem'[Action(u)], arg'[Action(u)], slot, tx, reg)
      BY DEF Knows
  <2>2. Action(u) \in Runners /\ Action(u)[1] = u
      BY TabRunners
  <2>3. Owns(pc[Action(u)], mem[Action(u)], arg[Action(u)], slot, tx, reg)
      BY <1>7 DEF Inv, Knows
  <2>4. CASE u = t
    <3>1. pc'[Action(u)] = "idle"
        BY <1>3, <2>2, <2>4
    <3> QED
        BY <3>1 DEF Owns
  <2>5. CASE u # t
      BY <1>3, <2>2, <2>3, <2>5
  <2> QED
      BY <2>4, <2>5
<1>8. OrphanedOnlyByRace'
  <2>1. SUFFICES ASSUME ~cut', ~raced' PROVE OrphanedOnlyByRace'
      BY DEF OrphanedOnlyByRace
  <2>2. ~cut /\ ~At(Action(t), "save")
      BY <1>1, <2>1 DEF Inv, Typed
  <2>3. ASSUME NEW u \in Tabs, At(Action(u), "save")
        PROVE  pc'[Action(u)] = "save" /\ mem'[Action(u)] = mem[Action(u)]
    <3>1. Action(u) \in Runners /\ Action(u)[1] # t
        BY <2>2, <2>3, TabRunners
    <3> QED
        BY <1>3, <2>3, <3>1 DEF At
  <2> QED
      BY <1>1, <2>1, <2>2, <2>3, StillRemembered DEF storage, chain
<1> QED
    BY <1>1, <1>6, <1>7, <1>8 DEF Inv, storage, chain

-----------------------------------------------------------------------------
(* The theorems *)

\* Nothing is sent, saved or signed at first.
LEMMA InitEstablishes == Init => Inv
<1> SUFFICES ASSUME Init PROVE Inv
    OBVIOUS
<1>1. Crew(pc, mem, arg, txLock, tx)
  <2>1. /\ pc \in [Runners -> Steps]
        /\ mem \in [Runners -> Deposits(0..(MaxIndex + 1)) \cup {None}]
        /\ arg \in [Runners -> Txids \cup {None}]
        /\ \A r \in Runners : pc[r] = "idle"
      BY DEF Init, Steps
  <2>2. \A r \in Runners : Sane(r, pc[r], mem[r], arg[r], txLock, tx)
      BY <2>1 DEF Sane, Carrying, LockSteps, Tracking
  <2> QED
      BY <2>1, <2>2 DEF Crew
<1>2. tx \in [Txids -> Seq(Statuses)] /\ \A x \in Txids : DOMAIN tx[x] = {}
    BY DEF Init
<1>3. Typed
    BY <1>1, <1>2 DEF Init, Typed
<1>4. Books(slot, tx, reg)
    BY <1>2 DEF Init, Books
<1>5. Knows(pc, mem, arg, slot, tx, reg)
  <2>1. \A t \in Tabs : pc[Action(t)] = "idle"
      BY TabRunners DEF Init
  <2> QED
      BY <2>1 DEF Knows, Owns
<1>6. OrphanedOnlyByRace
    BY DEF Init, OrphanedOnlyByRace
<1> QED
    BY <1>3, <1>4, <1>5, <1>6 DEF Inv

\* Every step of a tab, of the networks or of the browser keeps the invariant.
LEMMA StepKeeps == Inv /\ [Next]_vars => Inv'
<1> SUFFICES ASSUME Inv, [Next]_vars PROVE Inv'
    OBVIOUS
<1>1. ASSUME NEW r \in Runners, Track(r) PROVE Inv'
    BY <1>1, WakeKeeps, GetDepositorKeeps, ReadFailsKeeps, GetTxStatusKeeps, LocateOutputKeeps,
       WaitForConfirmationsKeeps, FinalizeDepositKeeps, FinalizeFailsKeeps DEF Track
<1>2. ASSUME NEW t \in Tabs, Start(t) PROVE Inv'
    BY <1>2, SendKeeps, WalletRejectsKeeps, SendBtcKeeps, SaveKeeps, StartDepositFromTxidKeeps,
       LocateDepositKeeps, LocateFailsKeeps DEF Start
<1>3. ASSUME NEW t \in Tabs, Register(t) PROVE Inv'
    BY <1>3, StartRegisterKeeps, RealRegisterKeeps, SignKeeps, SignRejectedKeeps, SendFailedKeeps,
       SettledKeeps, TxTimedOutKeeps DEF Register
<1>4. ASSUME NEW t \in Tabs, drive(t) \/ cleanup(t) \/ close(t) PROVE Inv'
    BY <1>4, DriveKeeps, CleanupKeeps, CloseKeeps
<1>5. ASSUME NEW x \in Txids, Confirms(x) \/ CatchUp(x) \/ OtherRegisters(x) PROVE Inv'
    BY <1>5, ConfirmsKeeps, CatchUpKeeps, OtherRegistersKeeps
<1>6. ASSUME NEW h \in Calls, Land(h) \/ Expire(h) PROVE Inv'
    BY <1>6, LandKeeps, ExpireKeeps
<1>7. CASE UNCHANGED vars
    BY <1>7 DEF vars, storage, chain, history, Inv, Typed, OrphanedOnlyByRace, Remembered, At
<1> QED
    BY <1>1, <1>2, <1>3, <1>4, <1>5, <1>6, <1>7 DEF Next

\* The inductive invariant holds in every reachable state.
THEOREM Invariance == Spec => []Inv
<1> QED
    BY InitEstablishes, StepKeeps, PTL DEF Spec

\* pendingDeposit.ts writes the deposit the moment sendBtc returns: for any tabs
\* and deposits, closed tabs, lost answers and late reads, BTC that was sent is
\* a saved loan, the pending deposit or about to be saved, unless a tab closed
\* between the two or tabs raced for the slot.
THEOREM DepositsAreRemembered == Spec => []OrphanedOnlyByRace
<1>1. Inv => OrphanedOnlyByRace
    BY DEF Inv
<1> QED
    BY <1>1, Invariance, PTL

\* trackDeposit and registerDeposit (deposit.ts) sign a second deposit() call for
\* a Bitcoin transaction only when the first can no longer land, however many
\* tabs, calls and closed pages there are, unless tabs raced for the slot.
THEOREM OneCallAtATime == Spec => []SecondCallOnlyByRace
<1>1. Inv => SecondCallOnlyByRace
  <2>1. SUFFICES ASSUME Inv, ~raced, NEW x \in Txids
                 PROVE  Cardinality({i \in DOMAIN tx[x] : tx[x][i] = "pending"}) <= 1
      BY DEF SecondCallOnlyByRace
  <2> DEFINE under == {i \in DOMAIN tx[x] : tx[x][i] = "pending"}
  <2>2. \A i \in under : slot.hash = <<x, i>>
      BY <2>1 DEF Inv, Books
  <2>3. \A i, j \in under : i = j
      BY <2>2
  <2>4. under = {} \/ \E i : under = {i}
      BY <2>3
  <2> SUFFICES Cardinality(under) <= 1
      OBVIOUS
  <2> HIDE DEF under
  <2>5. CASE under = {}
      BY <2>5, FS_EmptySet
  <2>6. CASE \E i : under = {i}
      BY <2>6, FS_Singleton
  <2> QED
      BY <2>4, <2>5, <2>6
<1> QED
    BY <1>1, Invariance, PTL

-----------------------------------------------------------------------------
(* The calls of an open loan (PositionTx).                                    *)

Calling == {"borrow", "repay", "release", "earn"}
Loans == [debt : Nat, status : {"active", "closed", "liquidated"}, ledger : Nat]
Updates == [debt : Nat, status : {"active", "closed"}] \cup {None}
Open == [kind : Calling, st : {"pending", "failed", "refused", "expired"}, amount : Nat, update : Updates]
Landed == [kind : Calling, st : {"success"}, amount : Nat, update : Updates, landed : Nat, left : Nat]
Places == {"idle", "read", "build", "sign", "await", "after", "cosign", "btcsign", "broadcast"}

\* A trailing node shows an earlier loan; a repayment that left nothing ended the
\* loan, which every read of its ledger or a later one shows.
LedgerInv ==
    /\ lend \in Loans /\ seen \in Loans /\ calls \in Seq(Open \cup Landed)
    /\ seen.ledger <= lend.ledger
    /\ seen.status # "active" => lend.status # "active"
    /\ \A h \in 1..Len(calls) : calls[h].st = "success" =>
          /\ calls[h].landed <= lend.ledger
          /\ calls[h].kind = "repay" /\ calls[h].left = 0 =>
                /\ lend.status # "active"
                /\ seen.ledger >= calls[h].landed => seen.status # "active"

\* Where the flow stands, and of which call it speaks.
LeftSome(h) == h \in 1..Len(calls) /\ calls[h].st = "success" /\ calls[h].left > 0

RunInv ==
    /\ flow \in [at : Places, kind : Calling \cup {None}, amount : Nat, full : BOOLEAN,
                 base : Loans \cup {None}, hash : Nat, again : Nat]
    /\ flow.at # "idle" => flow.kind \in Calling /\ flow.base \in Loans
    /\ flow.at = "read" => flow.again = 0
    /\ flow.at \in {"await", "after"} => flow.hash \in 1..Len(calls) /\ calls[flow.hash].kind = flow.kind
    /\ flow.at = "after" => flow.kind = "repay" /\ calls[flow.hash].st = "success"
    /\ flow.at = "build" /\ flow.again > 0 /\ ~trailed => LeftSome(flow.hash)

\* What was reported is so.
ToldInv ==
    told # None /\ ~trailed =>
        IF told.said = "closed" THEN lend.status # "active" ELSE LeftSome(told.hash)

LoanInv == LedgerInv /\ RunInv /\ ToldInv /\ Loan!NoConfirmedTxForgotten

\* Calls are only added, and a settled one stays as it is.
CallsGoOn ==
    /\ calls' \in Seq(Open \cup Landed) /\ Len(calls) <= Len(calls')
    /\ \A h \in 1..Len(calls) :
          /\ calls'[h].kind = calls[h].kind
          /\ calls[h].st = "success" => calls'[h] = calls[h]
          /\ calls[h].st # "pending" => calls'[h].st = calls[h].st

LEMMA LeftSomeStays ==
    ASSUME LedgerInv, CallsGoOn, NEW h, LeftSome(h)
    PROVE  LeftSome(h)'
BY DEF LedgerInv, CallsGoOn, LeftSome

\* The flow and what it reported stay true while calls land and the loan goes on.
LEMMA RunStays ==
    ASSUME LedgerInv, RunInv, CallsGoOn, UNCHANGED <<flow, trailed>>
    PROVE  RunInv'
<1>1. flow.at = "build" /\ flow.again > 0 /\ ~trailed => LeftSome(flow.hash)'
    BY LeftSomeStays DEF RunInv
<1>2. flow.at \in {"await", "after"} => flow.hash \in 1..Len(calls') /\ calls'[flow.hash].kind = flow.kind
    BY DEF LedgerInv, RunInv, CallsGoOn
<1>3. flow.at = "after" => flow.kind = "repay" /\ calls'[flow.hash].st = "success"
    BY DEF LedgerInv, RunInv, CallsGoOn
<1> QED
    BY <1>1, <1>2, <1>3 DEF RunInv, LeftSome

LEMMA ToldStays ==
    ASSUME LedgerInv, ToldInv, CallsGoOn, UNCHANGED <<told, trailed>>,
           lend.status # "active" => lend'.status # "active"
    PROVE  ToldInv'
<1>1. ASSUME told # None, ~trailed, told.said # "closed" PROVE LeftSome(told.hash)'
    BY <1>1, LeftSomeStays DEF ToldInv
<1> QED
    BY <1>1 DEF ToldInv, LeftSome

\* The list and the record still cover what is under way.
LEMMA ListStays ==
    ASSUME LedgerInv, Loan!NoConfirmedTxForgotten, CallsGoOn, Len(calls') = Len(calls),
           \A h \in activity \ activity' :
               h \in applied' \cup blind' \/ (h \in 1..Len(calls) => calls'[h].st \notin {"pending", "success"}),
           applied \subseteq applied', blind \subseteq blind'
    PROVE  Loan!NoConfirmedTxForgotten'
<1> SUFFICES ASSUME NEW h \in 1..Len(calls), calls'[h].st \in {"pending", "success"}
             PROVE  h \in applied' \cup activity' \cup blind'
    BY DEF Loan!NoConfirmedTxForgotten, Loan!Hashes, Loan!Status
<1>1. calls[h].st \in {"pending", "success"}
    BY DEF CallsGoOn, LedgerInv
<1>2. h \in applied \cup activity \cup blind
    BY <1>1 DEF Loan!NoConfirmedTxForgotten, Loan!Hashes, Loan!Status
<1> QED
    BY <1>2

LEMMA LedgerStands ==
    ASSUME LedgerInv, UNCHANGED <<lend, seen, calls>>
    PROVE  /\ LedgerInv' /\ CallsGoOn
           /\ \A h : LeftSome(h) => LeftSome(h)'
BY DEF LedgerInv, CallsGoOn, LeftSome

\* Between calls the flow is in no place to be wrong.
LEMMA FlowEnds ==
    ASSUME flow' = Loan!Idle
    PROVE  RunInv'
<1>1. flow' = [at |-> "idle", kind |-> None, amount |-> 0, full |-> FALSE, base |-> None, hash |-> 0, again |-> 0]
    BY DEF Loan!Idle
<1> QED
    BY <1>1 DEF RunInv, Places

\* A flow is started, on the loan as it is shown.
LEMMA FlowStarts ==
    ASSUME LoanInv, NEW what \in Calling, NEW sum \in Nat, Loan!Start(what, sum)
    PROVE  LoanInv'
<1>1. /\ flow' = [at |-> IF what = "earn" THEN "build" ELSE "read", kind |-> what, amount |-> sum,
                  full |-> FALSE, base |-> seen, hash |-> 0, again |-> 0]
      /\ told' = None /\ UNCHANGED <<lend, seen, calls, activity, applied, blind, trailed>>
    BY DEF Loan!Start, Loan!Idle, Loan!ledger, Loan!device
<1>2. LedgerInv' /\ CallsGoOn
    BY <1>1, LedgerStands DEF LoanInv
<1>3. RunInv'
    BY <1>1 DEF RunInv, Places, LoanInv, LedgerInv
<1>4. ToldInv'
    BY <1>1 DEF ToldInv
<1>5. Loan!NoConfirmedTxForgotten'
    BY <1>1, <1>2, ListStays DEF LoanInv
<1> QED
    BY <1>2, <1>3, <1>4, <1>5 DEF LoanInv

\* requireOpenPosition and the reads of releaseBtc.
LEMMA FlowReads ==
    ASSUME LoanInv, Loan!readPosition
    PROVE  LoanInv'
<1>1. /\ flow.at = "read" /\ UNCHANGED <<lend, seen, calls, activity, applied, blind, trailed, told>>
      /\ LedgerInv /\ RunInv /\ ToldInv
    BY DEF Loan!readPosition, Loan!At, Loan!ledger, Loan!device, LoanInv
<1>2. LedgerInv' /\ CallsGoOn
    BY <1>1, LedgerStands
<1>3. ToldInv'
    BY <1>1, <1>2, ToldStays
<1>4. Loan!NoConfirmedTxForgotten'
    BY <1>1, <1>2, ListStays DEF LoanInv
<1>5. /\ flow = [at |-> flow.at, kind |-> flow.kind, amount |-> flow.amount, full |-> flow.full,
                 base |-> flow.base, hash |-> flow.hash, again |-> flow.again]
      /\ flow.kind \in Calling /\ flow.amount \in Nat /\ flow.full \in BOOLEAN /\ flow.hash \in Nat /\ flow.again = 0
    BY <1>1 DEF RunInv
<1>6. ASSUME NEW c \in Loans, NEW place \in {"build", "cosign"}, NEW sum \in Nat, NEW whole \in BOOLEAN,
             flow' = [at |-> place, kind |-> flow.kind, amount |-> sum, full |-> whole,
                      base |-> c, hash |-> flow.hash, again |-> flow.again]
      PROVE  RunInv'
  <2>1. flow' \in [at : Places, kind : Calling \cup {None}, amount : Nat, full : BOOLEAN,
                   base : Loans \cup {None}, hash : Nat, again : Nat]
      BY <1>5, <1>6 DEF Places
  <2>2. flow'.at = place /\ flow'.kind \in Calling /\ flow'.base \in Loans /\ flow'.again = 0
      BY <1>5, <1>6
  <2> QED
      BY <2>1, <2>2 DEF RunInv
<1>7. PICK c \in {lend, seen} :
        LET f == [flow EXCEPT !.base = c]
            plan == Loan!repayPlan(f.amount, flow.base.debt, c.debt)
        IN \/ flow' = [f EXCEPT !.at = "build"]
           \/ flow' = [f EXCEPT !.at = "build", !.amount = plan.amount, !.full = plan.full]
           \/ flow' = [f EXCEPT !.at = "build", !.amount = 0]
           \/ flow' = [f EXCEPT !.at = "cosign"]
           \/ flow' = Loan!Idle
    BY DEF Loan!readPosition, Loan!Goto, Loan!End
<1>8. c \in Loans
    BY <1>1 DEF LedgerInv
<1> DEFINE plan == Loan!repayPlan(flow.amount, flow.base.debt, c.debt)
           F(place, sum, whole) == [at |-> place, kind |-> flow.kind, amount |-> sum, full |-> whole,
                                    base |-> c, hash |-> flow.hash, again |-> flow.again]
<1>9. [flow EXCEPT !.base = c].amount = flow.amount
    BY <1>5
<1>10. plan.amount \in Nat /\ plan.full \in BOOLEAN
    BY <1>5, <1>8 DEF Loan!repayPlan, Loans
<1>11. \/ flow' = F("build", flow.amount, flow.full) \/ flow' = F("build", plan.amount, plan.full)
       \/ flow' = F("build", 0, flow.full) \/ flow' = F("cosign", flow.amount, flow.full)
       \/ flow' = Loan!Idle
    BY <1>5, <1>7, <1>9
<1> HIDE DEF plan
<1>12. RunInv'
    BY <1>5, <1>6, <1>8, <1>10, <1>11, FlowEnds
<1> QED
    BY <1>2, <1>3, <1>4, <1>12 DEF LoanInv

\* A tab closes, a signature is refused, or an answer does not come.
LEMMA FlowIsLeft ==
    ASSUME LoanInv, flow' = Loan!Idle, UNCHANGED <<lend, seen, calls, told, trailed, applied>>, blind \subseteq blind',
           \A h \in activity \ activity' : h \in blind'
    PROVE  LoanInv'
<1>1. LedgerInv' /\ CallsGoOn
    BY LedgerStands DEF LoanInv
<1>2. ToldInv' /\ RunInv'
    BY <1>1, ToldStays, FlowEnds DEF LoanInv
<1>3. Loan!NoConfirmedTxForgotten'
    BY <1>1, ListStays DEF LoanInv
<1> QED
    BY <1>1, <1>2, <1>3 DEF LoanInv

\* The simulation.
LEMMA FlowSimulates ==
    ASSUME LoanInv, Loan!simulate
    PROVE  LoanInv'
<1>1. /\ flow.at = "build" /\ UNCHANGED <<lend, seen, calls, activity, applied, blind, trailed>>
      /\ LedgerInv /\ RunInv /\ ToldInv
      /\ \/ flow' = [flow EXCEPT !.at = "sign"] /\ told' = told
         \/ /\ flow' = Loan!Idle
            /\ told' = IF flow.again > 0 THEN [said |-> "refused", hash |-> flow.hash] ELSE told
    BY DEF Loan!simulate, Loan!At, Loan!ledger, Loan!device, Loan!Goto, Loan!End, Loan!Told, LoanInv
<1>2. LedgerInv' /\ CallsGoOn
    BY <1>1, LedgerStands
<1>3. Loan!NoConfirmedTxForgotten'
    BY <1>1, <1>2, ListStays DEF LoanInv
<1>4. RunInv'
  <2>1. CASE flow' = [flow EXCEPT !.at = "sign"]
    <3>1. /\ flow' \in [at : Places, kind : Calling \cup {None}, amount : Nat, full : BOOLEAN,
                        base : Loans \cup {None}, hash : Nat, again : Nat]
          /\ flow'.at = "sign" /\ flow'.kind = flow.kind /\ flow'.base = flow.base
        BY <1>1, <2>1 DEF RunInv, Places
    <3> QED
        BY <1>1, <3>1 DEF RunInv
  <2> QED
      BY <1>1, <2>1, FlowEnds
<1>5. ToldInv'
  <2>1. CASE told' = told
      BY <1>1, <1>2, <2>1, ToldStays
  <2>2. CASE flow.again > 0 /\ told' = [said |-> "refused", hash |-> flow.hash]
    <3>0. PICK h : h = flow.hash
        OBVIOUS
    <3>1. ~trailed => LeftSome(h)
        BY <1>1, <2>2, <3>0 DEF RunInv
    <3>2. ~trailed => LeftSome(h)'
        BY <1>1, <3>1, LedgerStands
    <3>3. told'.said # "closed" /\ told'.hash = h
        BY <2>2, <3>0
    <3> QED
        BY <1>1, <3>2, <3>3 DEF ToldInv, LeftSome
  <2> QED
      BY <1>1, <2>1, <2>2
<1> QED
    BY <1>2, <1>3, <1>4, <1>5 DEF LoanInv

\* onSigned: the call is on the list before it can land.
LEMMA FlowSigns ==
    ASSUME LoanInv, Loan!sign
    PROVE  LoanInv'
<1> DEFINE k == [kind |-> flow.kind, st |-> "pending", amount |-> flow.amount, update |-> Loan!updated(flow)]
           top == Len(calls) + 1
<1>1. /\ flow.at = "sign" /\ calls' = Append(calls, k) /\ activity' = activity \cup {top}
      /\ flow' = [flow EXCEPT !.at = "await", !.hash = top]
      /\ UNCHANGED <<lend, seen, applied, blind, told, trailed>>
    BY DEF Loan!sign, Loan!At, Loan!Goto
<1>2. LedgerInv /\ RunInv /\ ToldInv /\ Loan!NoConfirmedTxForgotten
    BY DEF LoanInv
<1>3. flow.kind \in Calling /\ flow.base \in Loans /\ flow.amount \in Nat
    BY <1>1, <1>2 DEF RunInv
<1>4. Loan!updated(flow) \in Updates
  <2>1. flow.base.debt \in Nat /\ flow.base.debt + flow.amount \in Nat
        /\ (flow.base.debt > flow.amount => flow.base.debt - flow.amount \in Nat)
      BY <1>3 DEF Loans
  <2>2. \A n \in Nat, s \in {"active", "closed"} : Loan!Record(n, s) \in Updates
      BY DEF Loan!Record, Updates
  <2>3. CASE flow.kind = "borrow"
      BY <2>1, <2>2, <2>3 DEF Loan!updated
  <2>4. CASE flow.kind = "repay"
      BY <2>1, <2>2, <2>4 DEF Loan!updated
  <2>5. CASE flow.kind \notin {"borrow", "repay"}
      BY <2>5 DEF Loan!updated, Updates
  <2> QED
      BY <2>3, <2>4, <2>5
<1>5. k \in Open /\ k.st = "pending" /\ k.kind = flow.kind
    BY <1>3, <1>4 DEF Open
<1> HIDE DEF k
<1>6. /\ calls \in Seq(Open \cup Landed) /\ calls' \in Seq(Open \cup Landed) /\ Len(calls) \in Nat
      /\ Len(calls') = top /\ calls'[top] = k /\ \A h \in 1..Len(calls) : calls'[h] = calls[h]
    BY <1>1, <1>2, <1>5 DEF LedgerInv
<1>7. CallsGoOn
    BY <1>6 DEF CallsGoOn
<1>8. \A h \in 1..Len(calls') : h = top \/ h \in 1..Len(calls)
    BY <1>6
<1>9. LedgerInv'
  <2>1. ASSUME NEW h \in 1..Len(calls'), calls'[h].st = "success"
        PROVE  h \in 1..Len(calls) /\ calls'[h] = calls[h]
      BY <1>5, <1>6, <1>8, <2>1
  <2> QED
      BY <1>1, <1>2, <1>6, <2>1 DEF LedgerInv
<1>10. RunInv'
  <2>1. /\ flow' \in [at : Places, kind : Calling \cup {None}, amount : Nat, full : BOOLEAN,
                      base : Loans \cup {None}, hash : Nat, again : Nat]
        /\ flow'.at = "await" /\ flow'.kind = flow.kind /\ flow'.base = flow.base /\ flow'.hash = top
    <3>1. PICK n \in Nat : n = top
        BY <1>6
    <3>2. flow' = [flow EXCEPT !.at = "await", !.hash = n]
        BY <1>1, <3>1
    <3> HIDE DEF top
    <3> QED
        BY <1>2, <3>1, <3>2 DEF RunInv, Places
  <2>2. top \in 1..Len(calls') /\ calls'[top].kind = flow.kind
      BY <1>5, <1>6
  <2> QED
      BY <1>3, <2>1, <2>2 DEF RunInv
<1>11. ToldInv'
    BY <1>1, <1>2, <1>7, ToldStays
<1>12. Loan!NoConfirmedTxForgotten'
  <2> SUFFICES ASSUME NEW h \in 1..Len(calls'), calls'[h].st \in {"pending", "success"}
               PROVE  h \in applied' \cup activity' \cup blind'
      BY DEF Loan!NoConfirmedTxForgotten, Loan!Hashes, Loan!Status
  <2>1. CASE h = top
      BY <1>1, <2>1
  <2>2. CASE h \in 1..Len(calls)
    <3>1. h \in applied \cup activity \cup blind
        BY <1>2, <1>6, <2>2 DEF Loan!NoConfirmedTxForgotten, Loan!Hashes, Loan!Status
    <3> QED
        BY <1>1, <3>1
  <2> QED
      BY <1>8, <2>1, <2>2
<1> QED
    BY <1>9, <1>10, <1>11, <1>12 DEF LoanInv

\* A confirmed call is applied and leaves the list.
LEMMA FlowSettles ==
    ASSUME LoanInv, Loan!settled
    PROVE  LoanInv'
<1>1. /\ flow.at = "await" /\ calls[flow.hash].st = "success"
      /\ activity' = activity \ {flow.hash} /\ applied' = applied \cup {flow.hash}
      /\ \/ flow.kind = "repay" /\ flow' = [flow EXCEPT !.at = "after"]
         \/ flow' = [flow EXCEPT !.at = "cosign"] \/ flow' = Loan!Idle
      /\ UNCHANGED <<lend, seen, calls, blind, told, trailed>>
    BY DEF Loan!settled, Loan!At, Loan!Status, Loan!Forget, Loan!Goto, Loan!End, Loan!ledger
<1>2. LedgerInv /\ RunInv /\ ToldInv /\ Loan!NoConfirmedTxForgotten
    BY DEF LoanInv
<1>3. LedgerInv' /\ CallsGoOn
    BY <1>1, <1>2, LedgerStands
<1>4. ToldInv'
    BY <1>1, <1>2, <1>3, ToldStays
<1>5. Loan!NoConfirmedTxForgotten'
    BY <1>1, <1>2, <1>3, ListStays
<1>6. RunInv'
  <2>1. ASSUME NEW place \in {"after", "cosign"}, flow' = [flow EXCEPT !.at = place],
               place = "after" => flow.kind = "repay"
        PROVE  RunInv'
    <3>1. /\ flow' \in [at : Places, kind : Calling \cup {None}, amount : Nat, full : BOOLEAN,
                        base : Loans \cup {None}, hash : Nat, again : Nat]
          /\ flow'.at = place /\ flow'.kind = flow.kind /\ flow'.base = flow.base /\ flow'.hash = flow.hash
        BY <1>2, <2>1 DEF RunInv, Places
    <3> QED
        BY <1>1, <1>2, <2>1, <3>1 DEF RunInv
  <2> QED
      BY <1>1, <2>1, FlowEnds
<1> QED
    BY <1>3, <1>4, <1>5, <1>6 DEF LoanInv

\* A call that failed or is refused leaves the list.
LEMMA CallChanges ==
    ASSUME LedgerInv, NEW h \in 1..Len(calls), NEW k,
           calls' = [calls EXCEPT ![h] = k], k \in Open \cup Landed, k.kind = calls[h].kind,
           calls[h].st = "pending" \/ k = calls[h]
    PROVE  /\ CallsGoOn /\ Len(calls') = Len(calls) /\ calls'[h] = k
           /\ \A i \in 1..Len(calls) : i # h => calls'[i] = calls[i]
<1>1. calls \in Seq(Open \cup Landed)
    BY DEF LedgerInv
<1>2. calls' \in Seq(Open \cup Landed) /\ Len(calls') = Len(calls) /\ calls'[h] = k
      /\ \A i \in 1..Len(calls) : i # h => calls'[i] = calls[i]
    BY <1>1
<1> QED
    BY <1>1, <1>2 DEF CallsGoOn

\* A call that will not land any more.
LEMMA CallGivenUp ==
    ASSUME LedgerInv, NEW h \in 1..Len(calls), NEW fate \in {"failed", "refused", "expired"},
           calls[h].st = "pending", calls' = [calls EXCEPT ![h].st = fate], UNCHANGED <<lend, seen>>
    PROVE  LedgerInv' /\ CallsGoOn /\ Len(calls') = Len(calls) /\ calls'[h].st = fate
<1>1. calls \in Seq(Open \cup Landed) /\ calls[h] \in Open \cup Landed
    BY DEF LedgerInv
<1>2. calls[h] \in Open
    BY <1>1 DEF Open, Landed
<1>3. PICK k : k = [calls[h] EXCEPT !.st = fate]
    OBVIOUS
<1>4. k \in Open /\ k.st = fate /\ k.kind = calls[h].kind
    BY <1>2, <1>3 DEF Open
<1>5. calls' = [calls EXCEPT ![h] = k]
    BY <1>3
<1>6. CallsGoOn /\ Len(calls') = Len(calls) /\ calls'[h] = k /\ \A i \in 1..Len(calls) : i # h => calls'[i] = calls[i]
    BY <1>4, <1>5, CallChanges
<1>7. ASSUME NEW i \in 1..Len(calls'), calls'[i].st = "success"
      PROVE  calls'[i] = calls[i] /\ i \in 1..Len(calls)
    BY <1>4, <1>6, <1>7
<1>8. LedgerInv'
    BY <1>6, <1>7 DEF LedgerInv, CallsGoOn
<1> QED
    BY <1>4, <1>6, <1>8

LEMMA FlowDrops ==
    ASSUME LoanInv, Loan!dropped
    PROVE  LoanInv'
<1>1. /\ flow.at = "await" /\ flow' = Loan!Idle /\ activity' = activity \ {flow.hash}
      /\ \/ calls[flow.hash].st = "failed" /\ UNCHANGED calls
         \/ calls[flow.hash].st = "pending" /\ calls' = [calls EXCEPT ![flow.hash].st = "refused"]
      /\ UNCHANGED <<lend, seen, applied, blind, told, trailed>>
    BY DEF Loan!dropped, Loan!At, Loan!Status, Loan!Forget, Loan!End
<1>2. LedgerInv /\ RunInv /\ ToldInv /\ Loan!NoConfirmedTxForgotten
    BY DEF LoanInv
<1>3. PICK h \in 1..Len(calls) : h = flow.hash
    BY <1>1, <1>2 DEF RunInv
<1>4. LedgerInv' /\ CallsGoOn /\ Len(calls') = Len(calls) /\ calls'[h].st \in {"failed", "refused"}
    BY <1>1, <1>2, <1>3, LedgerStands, CallGivenUp
<1>5. ToldInv' /\ RunInv'
    BY <1>1, <1>2, <1>4, ToldStays, FlowEnds
<1>6. Loan!NoConfirmedTxForgotten'
    BY <1>1, <1>2, <1>3, <1>4, ListStays
<1> QED
    BY <1>4, <1>5, <1>6 DEF LoanInv

\* A read that has the repayment shows an open loan only if something was left.
LEMMA ReadTells ==
    ASSUME LedgerInv, NEW c \in {lend, seen}, NEW h \in 1..Len(calls), calls[h].kind = "repay",
           calls[h].st = "success", Loan!caughtUp(c, h), c.status = "active"
    PROVE  LeftSome(h)
<1>1. c.ledger >= calls[h].landed
    BY DEF Loan!caughtUp
<1>2. calls[h] \in Landed
    BY DEF LedgerInv, Open, Landed
<1>3. calls[h].left # 0
    BY <1>1 DEF LedgerInv
<1> QED
    BY <1>2, <1>3 DEF LeftSome, Landed

\* After a repayment of everything.
LEMMA FlowReadsAfter ==
    ASSUME LoanInv, Loan!readAfter
    PROVE  LoanInv'
<1>1. PICK c \in {lend, seen} :
        /\ \/ Loan!caughtUp(c, flow.hash) /\ trailed' = trailed
           \/ trailed' = TRUE
        /\ \/ /\ told' = [said |-> IF c.status = "active" THEN "active" ELSE "closed", hash |-> flow.hash]
              /\ flow' = Loan!Idle
           \/ /\ c.status = "active" /\ told' = told
              /\ flow' = [flow EXCEPT !.at = "build", !.amount = c.debt, !.base = c, !.again = flow.again + 1]
    BY DEF Loan!readAfter, Loan!Told, Loan!End, Loan!Goto
<1>2. flow.at = "after" /\ UNCHANGED <<lend, seen, calls, activity, applied, blind>>
    BY DEF Loan!readAfter, Loan!At, Loan!ledger, Loan!device
<1>3. LedgerInv /\ RunInv /\ ToldInv /\ Loan!NoConfirmedTxForgotten
    BY DEF LoanInv
<1>4. LedgerInv' /\ CallsGoOn
    BY <1>2, <1>3, LedgerStands
<1>5. Loan!NoConfirmedTxForgotten'
    BY <1>2, <1>3, <1>4, ListStays
<1>6. PICK h \in 1..Len(calls) : h = flow.hash
    BY <1>2, <1>3 DEF RunInv
<1>7. ~trailed' /\ c.status = "active" => LeftSome(h)'
  <2>1. ASSUME ~trailed', c.status = "active" PROVE LeftSome(h)
      BY <1>1, <1>2, <1>3, <1>6, <2>1, ReadTells DEF RunInv
  <2> QED
      BY <1>2, <1>3, <2>1, LedgerStands
<1>8. c \in Loans /\ (c.status # "active" => lend.status # "active")
    BY <1>3 DEF LedgerInv
<1>9. CASE /\ told' = [said |-> IF c.status = "active" THEN "active" ELSE "closed", hash |-> flow.hash]
           /\ flow' = Loan!Idle
  <2>1. told'.said = (IF c.status = "active" THEN "active" ELSE "closed") /\ told'.hash = h
      BY <1>6, <1>9
  <2>2. ToldInv'
      BY <1>2, <1>7, <1>8, <2>1 DEF ToldInv, LeftSome
  <2> QED
      BY <1>4, <1>5, <1>9, <2>2, FlowEnds DEF LoanInv
<1>10. CASE /\ c.status = "active" /\ told' = told
            /\ flow' = [flow EXCEPT !.at = "build", !.amount = c.debt, !.base = c, !.again = flow.again + 1]
  <2>1. /\ flow' \in [at : Places, kind : Calling \cup {None}, amount : Nat, full : BOOLEAN,
                      base : Loans \cup {None}, hash : Nat, again : Nat]
        /\ flow'.at = "build" /\ flow'.kind = flow.kind /\ flow'.base = c /\ flow'.hash = h
    <3>1. c.debt \in Nat
        BY <1>8 DEF Loans
    <3>2. flow' = [at |-> "build", kind |-> flow.kind, amount |-> c.debt, full |-> flow.full,
                   base |-> c, hash |-> flow.hash, again |-> flow.again + 1]
        BY <1>3, <1>10 DEF RunInv
    <3>3. flow.kind \in Calling \cup {None} /\ flow.full \in BOOLEAN /\ flow.hash \in Nat /\ flow.again + 1 \in Nat
        BY <1>3 DEF RunInv
    <3> QED
        BY <1>6, <1>8, <3>1, <3>2, <3>3 DEF Places
  <2>2. RunInv'
      BY <1>2, <1>3, <1>7, <1>8, <1>10, <2>1 DEF RunInv, LeftSome
  <2>3. ToldInv'
    <3>1. CASE trailed' = TRUE
        BY <3>1 DEF ToldInv
    <3>2. CASE trailed' = trailed
        BY <1>2, <1>3, <1>4, <1>10, <3>2, ToldStays
    <3> QED
        BY <1>1, <3>1, <3>2
  <2> QED
      BY <1>4, <1>5, <2>2, <2>3 DEF LoanInv
<1> QED
    BY <1>1, <1>9, <1>10

\* The rest of a release, and the steps outside the flow that touch no call.
LEMMA FlowReleases ==
    ASSUME LoanInv, Loan!cosigned \/ Loan!broadcast
    PROVE  LoanInv'
<1>1. /\ flow.at \in {"cosign", "btcsign"} /\ UNCHANGED <<lend, seen, calls, activity, applied, blind, told, trailed>>
      /\ \/ flow' = [flow EXCEPT !.at = "btcsign"] \/ flow' = [flow EXCEPT !.at = "broadcast"]
         \/ flow' = Loan!Idle
    BY DEF Loan!cosigned, Loan!broadcast, Loan!At, Loan!ledger, Loan!device, Loan!Goto, Loan!End
<1>2. LedgerInv /\ RunInv /\ ToldInv /\ Loan!NoConfirmedTxForgotten
    BY DEF LoanInv
<1>3. LedgerInv' /\ CallsGoOn
    BY <1>1, <1>2, LedgerStands
<1>4. ToldInv' /\ Loan!NoConfirmedTxForgotten'
    BY <1>1, <1>2, <1>3, ToldStays, ListStays
<1>5. ASSUME NEW place \in {"btcsign", "broadcast"}, flow' = [flow EXCEPT !.at = place]
      PROVE  RunInv'
  <2>1. /\ flow' \in [at : Places, kind : Calling \cup {None}, amount : Nat, full : BOOLEAN,
                      base : Loans \cup {None}, hash : Nat, again : Nat]
        /\ flow'.at = place /\ flow'.kind = flow.kind /\ flow'.base = flow.base
      BY <1>2, <1>5 DEF RunInv, Places
  <2> QED
      BY <1>1, <1>2, <2>1 DEF RunInv
<1>6. RunInv'
    BY <1>1, <1>5, FlowEnds
<1> QED
    BY <1>3, <1>4, <1>6 DEF LoanInv

LEMMA Unconcerned ==
    ASSUME LoanInv, UNCHANGED <<lend, seen, calls, flow, told, trailed, blind>>, applied \subseteq applied',
           \A h \in activity \ activity' :
               h \in applied' \/ (h \in 1..Len(calls) => calls[h].st \notin {"pending", "success"})
    PROVE  LoanInv'
<1>1. LedgerInv /\ RunInv /\ ToldInv /\ Loan!NoConfirmedTxForgotten
    BY DEF LoanInv
<1>2. LedgerInv' /\ CallsGoOn
    BY <1>1, LedgerStands
<1>3. RunInv' /\ ToldInv'
    BY <1>1, <1>2, RunStays, ToldStays
<1>4. Loan!NoConfirmedTxForgotten'
    BY <1>1, <1>2, ListStays
<1> QED
    BY <1>2, <1>3, <1>4 DEF LoanInv

\* reconcileActivity decides each call of the list on its own.
LEMMA Reconciles ==
    ASSUME LoanInv, NEW h, Loan!reconcileOne(h)
    PROVE  LoanInv'
<1>1. UNCHANGED <<lend, seen, calls, flow, told, trailed, blind>>
    BY DEF Loan!reconcileOne, Loan!ledger
<1>2. \/ UNCHANGED <<activity, applied>>
      \/ applied' = applied \cup {h} /\ activity' = activity \ {h}
      \/ calls[h].st \notin {"pending", "success"} /\ activity' = activity \ {h} /\ UNCHANGED applied
    BY DEF Loan!reconcileOne, Loan!decideReconcile, Loan!Status, Loan!Forget
<1> QED
    BY <1>1, <1>2, Unconcerned

\* writz-lend takes a call or refuses it.
LEMMA CallLands ==
    ASSUME LoanInv, NEW h \in 1..Len(calls), Loan!land(h)
    PROVE  LoanInv'
<1>1. /\ calls[h].st = "pending" /\ UNCHANGED <<seen, flow, told, trailed, applied, activity, blind>>
      /\ \/ /\ Loan!accepts(calls[h].kind, calls[h].amount)
            /\ lend' = [Loan!after(lend, calls[h]) EXCEPT !.ledger = @ + 1]
            /\ calls' = [calls EXCEPT ![h] =
                  [kind |-> @.kind, st |-> "success", amount |-> @.amount,
                   update |-> @.update, landed |-> lend.ledger + 1, left |-> lend'.debt]]
         \/ UNCHANGED lend /\ calls' = [calls EXCEPT ![h].st = "failed"]
    BY DEF Loan!land, Loan!Status, Loan!outside, Loan!device
<1>2. LedgerInv /\ RunInv /\ ToldInv /\ Loan!NoConfirmedTxForgotten
    BY DEF LoanInv
<1>3. ASSUME LedgerInv', CallsGoOn, Len(calls') = Len(calls), lend.status # "active" => lend'.status # "active"
      PROVE  LoanInv'
  <2>1. RunInv' /\ ToldInv'
      BY <1>1, <1>2, <1>3, RunStays, ToldStays
  <2>2. Loan!NoConfirmedTxForgotten'
      BY <1>1, <1>2, <1>3, ListStays
  <2> QED
      BY <1>3, <2>1, <2>2 DEF LoanInv
<1>4. CASE UNCHANGED lend /\ calls' = [calls EXCEPT ![h].st = "failed"]
    BY <1>1, <1>2, <1>3, <1>4, CallGivenUp
<1>5. CASE /\ Loan!accepts(calls[h].kind, calls[h].amount)
           /\ lend' = [Loan!after(lend, calls[h]) EXCEPT !.ledger = @ + 1]
           /\ calls' = [calls EXCEPT ![h] =
                  [kind |-> @.kind, st |-> "success", amount |-> @.amount,
                   update |-> @.update, landed |-> lend.ledger + 1, left |-> lend'.debt]]
  <2>1. calls[h] \in Open /\ lend \in Loans /\ seen \in Loans /\ seen.ledger <= lend.ledger
    <3>1. calls[h] \in Open \cup Landed
        BY <1>2 DEF LedgerInv
    <3> QED
        BY <1>1, <1>2, <3>1 DEF LedgerInv, Landed
  <2>2. PICK m : m = calls[h]
      OBVIOUS
  <2>3. m.kind \in Calling /\ m.amount \in Nat /\ m.update \in Updates
      BY <2>1, <2>2 DEF Open
  <2>4. /\ lend' \in Loans /\ lend'.ledger = lend.ledger + 1
        /\ lend.status # "active" => lend'.status # "active"
        /\ m.kind = "repay" /\ lend'.debt = 0 => lend'.status # "active"
    <3>1. lend.debt \in Nat /\ lend.ledger \in Nat /\ lend.status \in {"active", "closed", "liquidated"}
          /\ lend = [debt |-> lend.debt, status |-> lend.status, ledger |-> lend.ledger]
        BY <2>1 DEF Loans
    <3>2. lend' = [Loan!after(lend, m) EXCEPT !.ledger = lend.ledger + 1]
      <4>1. Loan!after(lend, m).ledger = lend.ledger
          BY <2>3, <3>1 DEF Loan!after, Calling
      <4> QED
          BY <1>5, <2>2, <4>1
    <3>3. CASE m.kind = "borrow"
      <4>1. Loan!after(lend, m) = [debt |-> lend.debt + m.amount, status |-> lend.status, ledger |-> lend.ledger]
          BY <3>1, <3>3 DEF Loan!after
      <4> QED
          BY <2>3, <3>1, <3>2, <3>3, <4>1 DEF Loans
    <3>4. CASE m.kind \in {"repay", "release"}
      <4>1. m.amount <= lend.debt /\ lend.debt - m.amount \in Nat
          BY <1>5, <2>2, <2>3, <3>1, <3>4 DEF Loan!accepts
      <4>2. Loan!after(lend, m) =
              [debt |-> lend.debt - m.amount, status |-> IF lend.debt = m.amount THEN "closed" ELSE lend.status,
               ledger |-> lend.ledger]
          BY <3>1, <3>4 DEF Loan!after
      <4>3. lend' = [debt |-> lend.debt - m.amount, status |-> IF lend.debt = m.amount THEN "closed" ELSE lend.status,
                     ledger |-> lend.ledger + 1]
          BY <3>2, <4>2
      <4>4. lend'.debt = 0 => lend'.status = "closed"
          BY <2>3, <3>1, <4>1, <4>3
      <4> QED
          BY <3>1, <4>1, <4>3, <4>4 DEF Loans
    <3>5. CASE m.kind = "earn"
      <4>1. Loan!after(lend, m) = lend
          BY <3>5 DEF Loan!after
      <4> QED
          BY <3>1, <3>2, <3>5, <4>1 DEF Loans
    <3> QED
        BY <2>3, <3>3, <3>4, <3>5 DEF Calling
  <2>5. PICK k : k = [kind |-> m.kind, st |-> "success", amount |-> m.amount, update |-> m.update,
                      landed |-> lend.ledger + 1, left |-> lend'.debt]
      OBVIOUS
  <2>6. k \in Landed /\ k.kind = m.kind /\ k.landed = lend.ledger + 1 /\ k.left = lend'.debt /\ k.st = "success"
      BY <2>1, <2>3, <2>4, <2>5 DEF Landed, Loans
  <2>7. calls' = [calls EXCEPT ![h] = k]
      BY <1>2, <1>5, <2>2, <2>5 DEF LedgerInv
  <2>8. CallsGoOn /\ Len(calls') = Len(calls) /\ calls'[h] = k /\ \A i \in 1..Len(calls) : i # h => calls'[i] = calls[i]
      BY <1>1, <1>2, <2>2, <2>6, <2>7, CallChanges
  <2>9. LedgerInv'
    <3>1. ASSUME NEW i \in 1..Len(calls'), calls'[i].st = "success"
          PROVE  /\ calls'[i].landed <= lend'.ledger
                 /\ calls'[i].kind = "repay" /\ calls'[i].left = 0 =>
                       /\ lend'.status # "active"
                       /\ seen'.ledger >= calls'[i].landed => seen'.status # "active"
      <4>1. lend.ledger \in Nat /\ seen.ledger \in Nat
          BY <2>1 DEF Loans
      <4>2. CASE i = h
          BY <1>1, <2>1, <2>4, <2>6, <2>8, <4>1, <4>2
      <4>3. CASE i # h
        <5>1. i \in 1..Len(calls) /\ calls'[i] = calls[i] /\ calls[i].st = "success"
            BY <2>8, <3>1, <4>3
        <5>2. calls[i] \in Landed
            BY <1>2, <5>1 DEF LedgerInv, Open
        <5>3. calls[i].landed \in Nat
            BY <5>2 DEF Landed
        <5> QED
            BY <1>1, <1>2, <2>4, <4>1, <5>1, <5>3 DEF LedgerInv
      <4> QED
          BY <4>2, <4>3
    <3> QED
      <4>1. seen' \in Loans /\ seen'.ledger <= lend'.ledger
          BY <1>1, <2>1, <2>4 DEF Loans
      <4>2. seen'.status # "active" => lend'.status # "active"
          BY <1>1, <1>2, <2>4 DEF LedgerInv
      <4> QED
          BY <2>4, <2>8, <3>1, <4>1, <4>2 DEF LedgerInv, CallsGoOn
  <2> QED
      BY <1>3, <2>4, <2>8, <2>9
<1> QED
    BY <1>1, <1>4, <1>5

\* A call expires, interest accrues, a keeper liquidates, the node catches up.
LEMMA LoanGoesOn ==
    ASSUME LoanInv,
           \/ \E h \in Loan!Hashes : Loan!expire(h)
           \/ Loan!accrue \/ Loan!liquidate \/ Loan!catchUp
    PROVE  LoanInv'
<1>1. LedgerInv /\ RunInv /\ ToldInv /\ Loan!NoConfirmedTxForgotten
    BY DEF LoanInv
<1>2. UNCHANGED <<flow, told, trailed, applied, activity, blind>>
    BY DEF Loan!expire, Loan!accrue, Loan!liquidate, Loan!catchUp, Loan!outside, Loan!device
<1>3. ASSUME LedgerInv', CallsGoOn, Len(calls') = Len(calls), lend.status # "active" => lend'.status # "active"
      PROVE  LoanInv'
  <2>1. RunInv' /\ ToldInv'
      BY <1>1, <1>2, <1>3, RunStays, ToldStays
  <2>2. Loan!NoConfirmedTxForgotten'
      BY <1>1, <1>2, <1>3, ListStays
  <2> QED
      BY <1>3, <2>1, <2>2 DEF LoanInv
<1>4. CASE \E h \in Loan!Hashes : Loan!expire(h)
  <2>1. PICK h \in 1..Len(calls) : calls[h].st = "pending" /\ calls' = [calls EXCEPT ![h].st = "expired"]
                                   /\ UNCHANGED <<lend, seen>>
      BY <1>4 DEF Loan!Hashes, Loan!expire, Loan!Status
  <2> QED
      BY <1>1, <1>3, <2>1, CallGivenUp
<1>5. UNCHANGED calls => CallsGoOn /\ Len(calls') = Len(calls)
    BY <1>1 DEF LedgerInv, CallsGoOn
<1>6. /\ lend.debt \in Nat /\ lend.ledger \in Nat /\ seen.ledger \in Nat
      /\ lend = [debt |-> lend.debt, status |-> lend.status, ledger |-> lend.ledger]
      /\ lend.status \in {"active", "closed", "liquidated"}
    BY <1>1 DEF LedgerInv, Loans
<1>7. \A h \in 1..Len(calls) : calls[h].st = "success" => calls[h].landed \in Nat
  <2>1. \A h \in 1..Len(calls) : calls[h] \in Open \cup Landed
      BY <1>1 DEF LedgerInv
  <2> QED
      BY <2>1 DEF Open, Landed
<1>8. ASSUME UNCHANGED <<calls, seen>>, lend' \in Loans, lend.ledger <= lend'.ledger,
             lend.status # "active" => lend'.status # "active"
      PROVE  LoanInv'
  <2>1. lend'.ledger \in Nat
      BY <1>8 DEF Loans
  <2>2. LedgerInv'
      BY <1>1, <1>6, <1>7, <1>8, <2>1 DEF LedgerInv
  <2> QED
      BY <1>3, <1>5, <1>8, <2>2
<1>9. CASE Loan!accrue
  <2>1. lend' = [debt |-> lend.debt + 1, status |-> lend.status, ledger |-> lend.ledger] /\ UNCHANGED <<calls, seen>>
      BY <1>6, <1>9 DEF Loan!accrue
  <2> QED
      BY <1>6, <1>8, <2>1 DEF Loans
<1>10. CASE Loan!liquidate
  <2>1. lend' = [debt |-> 0, status |-> "liquidated", ledger |-> lend.ledger + 1] /\ UNCHANGED <<calls, seen>>
      BY <1>6, <1>10 DEF Loan!liquidate
  <2> QED
      BY <1>6, <1>8, <2>1 DEF Loans
<1>11. CASE Loan!catchUp
  <2>1. seen' = lend /\ UNCHANGED <<calls, lend>>
      BY <1>11 DEF Loan!catchUp
  <2>2. LedgerInv'
      BY <1>1, <1>6, <1>7, <2>1 DEF LedgerInv
  <2> QED
      BY <1>3, <1>5, <2>1, <2>2
<1> QED
    BY <1>4, <1>9, <1>10, <1>11

LEMMA LoanStarts == Loan!Init => LoanInv
<1> SUFFICES ASSUME Loan!Init PROVE LoanInv
    OBVIOUS
<1>1. PICK n \in 0..1 : lend = [debt |-> n, status |-> "active", ledger |-> 0]
    BY DEF Loan!Init, Loan!Loan
<1>2. seen = lend /\ calls = <<>> /\ flow = Loan!Idle /\ told = None
    BY DEF Loan!Init
<1>3. LedgerInv
    BY <1>1, <1>2 DEF LedgerInv, Loans
<1>4. RunInv
  <2>1. flow = [at |-> "idle", kind |-> None, amount |-> 0, full |-> FALSE, base |-> None, hash |-> 0, again |-> 0]
      BY <1>2 DEF Loan!Idle
  <2> QED
      BY <2>1 DEF RunInv, Places
<1>5. ToldInv /\ Loan!NoConfirmedTxForgotten
    BY <1>2 DEF ToldInv, Loan!NoConfirmedTxForgotten, Loan!Hashes
<1> QED
    BY <1>3, <1>4, <1>5 DEF LoanInv

LEMMA LoanKept ==
    ASSUME LoanInv, Loan!Next
    PROVE  LoanInv'
<1>1. CASE Loan!borrow \/ Loan!repay \/ Loan!releaseBtc \/ Loan!submit
  <2>1. PICK what \in Calling, sum \in Nat : Loan!Start(what, sum)
      BY <1>1, LoanAssumption DEF Loan!borrow, Loan!repay, Loan!releaseBtc, Loan!submit, Calling
  <2> QED
      BY <2>1, FlowStarts
<1>2. CASE Loan!Runs
  <2>1. CASE Loan!signRejected \/ Loan!unanswered \/ Loan!saveReleased
    <3>1. /\ flow' = Loan!Idle /\ UNCHANGED <<lend, seen, calls, told, trailed, applied>>
          /\ blind \subseteq blind' /\ \A h \in activity \ activity' : h \in blind'
        BY <2>1 DEF Loan!signRejected, Loan!unanswered, Loan!saveReleased, Loan!End, Loan!Forget,
                    Loan!ledger, Loan!device
    <3> QED
        BY <3>1, FlowIsLeft
  <2> QED
      BY <1>2, <2>1, FlowReads, FlowSimulates, FlowSigns, FlowSettles, FlowDrops, FlowReadsAfter, FlowReleases
         DEF Loan!Runs
<1>3. CASE Loan!close
  <2>1. flow' = Loan!Idle /\ UNCHANGED <<lend, seen, calls, told, trailed, applied, activity, blind>>
      BY <1>3 DEF Loan!close, Loan!ledger, Loan!device
  <2> QED
      BY <2>1, FlowIsLeft
<1>4. CASE Loan!reconcile \/ Loan!syncPosition \/ Loan!publish_release_psbt
  <2>1. UNCHANGED <<lend, seen, calls, flow, told, trailed, applied, activity, blind>>
      BY <1>4 DEF Loan!reconcile, Loan!syncPosition, Loan!publish_release_psbt, Loan!ledger, Loan!device
  <2> QED
      BY <2>1, Unconcerned
<1>5. CASE \E h \in rec : Loan!reconcileOne(h)
    BY <1>5, Reconciles
<1>6. CASE \E h \in Loan!Hashes : Loan!land(h)
    BY <1>6, CallLands DEF Loan!Hashes
<1>7. CASE (\E h \in Loan!Hashes : Loan!expire(h)) \/ Loan!accrue \/ Loan!liquidate \/ Loan!catchUp
    BY <1>7, LoanGoesOn
<1> QED
    BY <1>1, <1>2, <1>3, <1>4, <1>5, <1>6, <1>7 DEF Loan!Next

LEMMA LoanAlways == MCSpec => [](part = "loan" => LoanInv)
<1> DEFINE Always == part = "loan" => LoanInv
<1>1. MCInit => Always
    BY LoanStarts DEF MCInit
<1>2. Always /\ [MCNext]_all => Always'
  <2> SUFFICES ASSUME Always, [MCNext]_all PROVE Always'
      OBVIOUS
  <2>1. CASE LoanNext
      BY <2>1, LoanKept DEF LoanNext
  <2>2. CASE UNCHANGED <<part, loanVars>>
    <3>1. /\ part' = part
          /\ UNCHANGED <<lend, seen, calls, flow, told, trailed, applied, activity, blind>>
        BY <2>2 DEF loanVars
    <3>2. LoanInv' <=> LoanInv
        BY <3>1 DEF LoanInv, LedgerInv, RunInv, ToldInv, LeftSome, Loan!NoConfirmedTxForgotten, Loan!Hashes, Loan!Status
    <3> QED
        BY <3>1, <3>2
  <2>3. CASE DepositNext
      BY <2>2, <2>3 DEF DepositNext
  <2> QED
      BY <2>1, <2>2, <2>3 DEF MCNext, all
<1> QED
    BY <1>1, <1>2, PTL DEF MCSpec

\* pendingTx.ts:6 "a reload mid-confirmation never leaves local state behind the
\* chain": whatever the network confirmed or still can is in the local record, on
\* the list that is reconciled, or an Earn call whose send got no answer, for any
\* number of calls, closed tabs, lost answers and reconciliations.
THEOREM ConfirmedIsRemembered == MCSpec => []NoConfirmedTxForgotten
<1>1. (part = "loan" => LoanInv) => NoConfirmedTxForgotten
    BY DEF LoanInv, NoConfirmedTxForgotten
<1> QED
    BY <1>1, LoanAlways, PTL

\* repay.ts:56 "Repaying the whole debt closes the position on chain": a repayment
\* of everything that reports the loan closed is right, and one that reports it open
\* or sends again for the interest left something owed, whatever accrues, however
\* often it is tried, unless a read it went on with trailed its own call.
THEOREM FullRepaymentIsTrue == MCSpec => []RepayAllCloses
<1>1. (part = "loan" => LoanInv) => RepayAllCloses
    BY DEF LoanInv, ToldInv, LeftSome, RepayAllCloses, Loan!RepayAllCloses
<1> QED
    BY <1>1, LoanAlways, PTL
=============================================================================
