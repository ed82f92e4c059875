---------------------------- MODULE DepositFlow ----------------------------
(* A borrower's deposit in the web app (flows/deposit.ts, flow/lock.ts,       *)
(* flow/pendingDeposit.ts, useLiveJourney.ts): BTC is sent from the wallet,   *)
(* remembered in one localStorage slot per owner, tracked by the tab that     *)
(* holds the deposit lock, and registered on Stellar by the tab that holds    *)
(* the transaction lock.  Each tab runs an effect (the tracker) and at most   *)
(* one action the user started; every await ends a step.                      *)
EXTENDS Integers, Sequences, FiniteSets, FiniteSetsExt

CONSTANTS
    Tabs, Txids,
    None,
    MaxSigned,      \* bound: deposit() calls signed
    MaxStops,       \* bound: trackers aborted, tabs closed, deposits registered elsewhere
    MaxIndex        \* bound: position indices

\* A pending deposit; its hash is the n-th deposit() call signed for its txid.
Deposits(indices) == [
    txid : Txids, vout : Txids \cup {None}, index : indices,
    hash : {None} \cup (Txids \X Nat)]

\* None is not one of the values it may stand beside.
ASSUME DepositAssumption ==
    /\ IsFiniteSet(Tabs) /\ IsFiniteSet(Txids)
    /\ MaxSigned \in Nat \ {0} /\ MaxStops \in Nat /\ MaxIndex \in Nat
    /\ None \notin Tabs \cup Txids /\ None \notin Nat
    /\ None \notin Txids \X Nat /\ None \notin Deposits(Nat)

VARIABLES
    slot,           \* writz.pendingDeposit.<owner>, or None
    reserved,       \* writz.reservedIndices.<owner>
    saved,          \* writz.positions: the index of each loan on this device, or None
    depositLock, txLock,    \* the tabs that hold the Web Locks
    pc, mem, arg,   \* per runner: its next step, its copy of the pending deposit, the txid it registers
    aborted,        \* tabs whose tracker was told to stop
    btc,            \* per txid: "unsent", "mempool" or "confirmed"
    reg,            \* per txid: "none", "landed" (reads still trail), "mine" or "other"
    tx,             \* per txid: what became of each deposit() call signed for it
    stops,          \* how many of those happened
    cut,            \* history: a tab closed between the send and the save
    raced           \* history: a tab overwrote or overlooked what another had written

storage == <<slot, reserved, saved>>
chain == <<btc, reg, tx>>
history == <<stops, cut, raced>>
vars == <<storage, depositLock, txLock, pc, mem, arg, aborted, chain, history>>

Runners == Tabs \X {"effect", "action"}
Effect(t) == <<t, "effect">>
Action(t) == <<t, "action">>
Calls == Txids \X (1..MaxSigned)
Signed(h) == h[2] <= Len(tx[h[1]])
Status(h) == tx[h[1]][h[2]]

newPending(x, out, i) == [txid |-> x, vout |-> out, index |-> i, hash |-> None]

\* Patches whatever deposit the slot holds now; None when it holds none.
update(field, v) == IF slot = None THEN None ELSE [slot EXCEPT ![field] = v]

Init ==
    /\ slot = None /\ reserved = {} /\ saved = [x \in Txids |-> None]
    /\ depositLock = None /\ txLock = None
    /\ pc = [r \in Runners |-> "idle"] /\ mem = [r \in Runners |-> None] /\ arg = [r \in Runners |-> None]
    /\ aborted = {}
    /\ btc = [x \in Txids |-> "unsent"] /\ reg = [x \in Txids |-> "none"] /\ tx = [x \in Txids |-> <<>>]
    /\ stops = 0 /\ cut = FALSE /\ raced = FALSE

-----------------------------------------------------------------------------
(* Steps of a runner *)

At(r, step) == pc[r] = step
IsAborted(r) == r[2] = "effect" /\ r[1] \in aborted

\* Goes on at step with pd in memory.
Continue(r, step, pd) ==
    /\ pc' = [pc EXCEPT ![r] = step]
    /\ mem' = [mem EXCEPT ![r] = pd]
    /\ UNCHANGED <<arg, aborted, txLock>>

\* The effect keeps the deposit lock when its tracker ends, until its cleanup;
\* an action gives the transaction lock back.
Stop(r) ==
    /\ pc' = [pc EXCEPT ![r] = IF r[2] = "action" \/ IsAborted(r) THEN "idle" ELSE "done"]
    /\ mem' = [mem EXCEPT ![r] = None] /\ arg' = [arg EXCEPT ![r] = None]
    /\ aborted' = IF r[2] = "effect" THEN aborted \ {r[1]} ELSE aborted
    /\ txLock' = IF r = Action(txLock) THEN None ELSE txLock

\* A sleep rejects once the tracker was aborted; nothing else looks at the signal.
Sleep(r, step, pd) == IF IsAborted(r) THEN Stop(r) ELSE Continue(r, step, pd)

\* The head of trackDeposit's loop, with the slot's content pd.
Load(r, pd) == IF pd = None THEN Stop(r) ELSE Continue(r, "depositor", pd)

-----------------------------------------------------------------------------
(* Starting a deposit.  The index is reserved in the click's own step: the    *)
(* index lock is granted in order, so a release asked for later comes later.  *)

nextPositionIndex(used) == IF used = {} THEN 0 ELSE Max(used) + 1
usedIndices == {saved[x] : x \in {y \in Txids : saved[y] # None}}

reservePositionIndex == nextPositionIndex(usedIndices \cup reserved)

send(t) ==
    /\ At(Action(t), "idle") /\ slot = None /\ reservePositionIndex <= MaxIndex
    /\ reserved' = reserved \cup {reservePositionIndex}
    /\ \E x \in Txids :
        /\ btc[x] = "unsent" /\ \A r \in Runners : At(r, "wallet") => mem[r].txid # x
        /\ Continue(Action(t), "wallet", newPending(x, None, reservePositionIndex))
    /\ UNCHANGED <<slot, saved, depositLock, chain, history>>

WalletRejects(t) ==
    /\ At(Action(t), "wallet")
    /\ reserved' = reserved \ {mem[Action(t)].index}
    /\ Stop(Action(t))
    /\ UNCHANGED <<slot, saved, depositLock, chain, history>>

sendBtc(t) ==
    /\ At(Action(t), "wallet")
    /\ btc' = [btc EXCEPT ![mem[Action(t)].txid] = "mempool"]
    /\ Continue(Action(t), "save", mem[Action(t)])
    /\ UNCHANGED <<storage, depositLock, reg, tx, history>>

save(t) ==
    /\ At(Action(t), "save")
    /\ slot' = mem[Action(t)]
    /\ raced' = (raced \/ slot # None)
    /\ Stop(Action(t))
    /\ UNCHANGED <<reserved, saved, depositLock, chain, stops, cut>>

\* The user pastes the txid of a deposit this device does not list; the indices
\* in use are read at the click.
startDepositFromTxid(t) ==
    /\ At(Action(t), "idle") /\ slot = None
    /\ \E x \in Txids :
        /\ btc[x] # "unsent" /\ saved[x] = None
        /\ Continue(Action(t), "locate", newPending(x, x, nextPositionIndex(usedIndices)))
    /\ UNCHANGED <<storage, depositLock, chain, history>>

\* Bitcoin tells the output, and the index is reserved.
locateDeposit(t) ==
    LET r == Action(t)
        i == Max({mem[r].index, nextPositionIndex(reserved)})
    IN /\ At(r, "locate") /\ i <= MaxIndex
       /\ reserved' = reserved \cup {i}
       /\ raced' = (raced \/ mem[r].index # nextPositionIndex(usedIndices))
       /\ Continue(r, "save", [mem[r] EXCEPT !.index = i])
       /\ UNCHANGED <<slot, saved, depositLock, chain, stops, cut>>

\* Bitcoin does not answer, or knows no such output.
LocateFails(t) ==
    /\ At(Action(t), "locate")
    /\ Stop(Action(t))
    /\ UNCHANGED <<storage, depositLock, chain, history>>

-----------------------------------------------------------------------------
(* trackDeposit, run by an effect and by registerDeposit *)

\* The effect takes the deposit lock; other tabs wait for it.
drive(t) ==
    /\ At(Effect(t), "idle") /\ slot # None /\ depositLock = None
    /\ depositLock' = t
    /\ Load(Effect(t), slot)
    /\ UNCHANGED <<storage, chain, history>>

\* The effect's cleanup: another deposit is pending, or the user asked to check
\* again.  A tracker in the middle of a read goes on until its next sleep.
cleanup(t) ==
    /\ depositLock = t
    /\ depositLock' = None
    /\ \/ /\ At(Effect(t), "done")
          /\ pc' = [pc EXCEPT ![Effect(t)] = "idle"] /\ UNCHANGED <<aborted, stops>>
       \/ /\ ~At(Effect(t), "done") /\ stops < MaxStops
          /\ aborted' = aborted \cup {t} /\ stops' = stops + 1 /\ UNCHANGED pc
    /\ UNCHANGED <<storage, txLock, mem, arg, chain, cut, raced>>

\* What the plan reads: an expired call is one older than STELLAR_TX_TTL_MS.
planResume(pd, onChain, stellarTx) ==
    CASE onChain = "mine" -> "finalize"
      [] onChain = "other" -> "conflict"
      [] /\ onChain \in {"none", "landed"} /\ pd.hash # None /\ stellarTx # "failed"
         /\ stellarTx = "success" \/ Status(pd.hash) # "expired" -> "await_stellar"
      [] OTHER -> IF pd.vout = None THEN "locate_output" ELSE "wait_confirmations"

\* wait_confirmations first forgets the hash that failed or expired.
forget_hash(r) == update("hash", None)

\* A plan is carried out in the step of the read that completed it.
Resume(r, plan) ==
    /\ CASE plan = "finalize" -> Continue(r, "finalize", mem[r])
         [] plan = "conflict" -> Stop(r)
         [] plan = "await_stellar" -> Sleep(r, "asleep", None)
         [] plan = "locate_output" -> Continue(r, "output", mem[r])
         [] plan = "wait_confirmations" ->
                IF mem[r].hash = None THEN Continue(r, "confirm", mem[r])
                ELSE IF slot = None THEN Stop(r)
                ELSE Continue(r, "confirm", forget_hash(r))
    /\ IF plan = "wait_confirmations" /\ mem[r].hash # None
       THEN /\ slot' = forget_hash(r)
            /\ raced' = (raced \/ (slot # None /\ slot'.hash = None /\ slot.hash \notin {None, mem[r].hash}))
       ELSE UNCHANGED <<slot, raced>>

\* Wakes up from the wait for a submitted call.
wake(r) ==
    /\ At(r, "asleep")
    /\ Load(r, slot)
    /\ UNCHANGED <<storage, depositLock, chain, history>>

\* The position's depositor; a position that just landed may not be read yet.
getDepositor(r) ==
    /\ At(r, "depositor")
    /\ LET onChain == reg[mem[r].txid]
       IN IF onChain \in {"none", "landed"} /\ mem[r].hash # None
          THEN Continue(r, "status", mem[r]) /\ UNCHANGED <<slot, raced>>
          ELSE Resume(r, planResume(mem[r], onChain, "unread"))
    /\ UNCHANGED <<reserved, saved, depositLock, chain, stops, cut>>

\* Three reads of the depositor failed.
ReadFails(r) ==
    /\ At(r, "depositor")
    /\ Stop(r)
    /\ UNCHANGED <<storage, depositLock, chain, history>>

\* A read that throws counts as NOT_FOUND.
getTxStatus(r) ==
    /\ At(r, "status")
    /\ \E answer \in {Status(mem[r].hash), "not_found"} : Resume(r, planResume(mem[r], "none", answer))
    /\ UNCHANGED <<reserved, saved, depositLock, chain, stops, cut>>

\* Not seen yet, the read fails, or the output is found.
locateOutput(r) ==
    /\ At(r, "output")
    /\ \/ Sleep(r, "output", mem[r]) /\ UNCHANGED slot
       \/ Stop(r) /\ UNCHANGED slot
       \/ slot' = update("vout", mem[r].txid) /\ Load(r, slot')
    /\ UNCHANGED <<reserved, saved, depositLock, chain, history>>

\* Saving a new count, or the end of the wait, leaves the tracker with the
\* deposit the slot holds by then.
waitForConfirmations(r) ==
    /\ At(r, "confirm")
    /\ \/ Sleep(r, "confirm", mem[r])
       \/ slot # None /\ ~IsAborted(r) /\ Continue(r, "confirm", slot)
       \/ /\ btc[mem[r].txid] = "confirmed"
          /\ IF r[2] = "effect" \/ slot = None THEN Stop(r) ELSE Continue(r, "bundle", slot)
    /\ UNCHANGED <<storage, depositLock, chain, history>>

\* Saves the loan once it is read back, then empties the slot and frees the index.
finalizeDeposit(r) ==
    LET pd == mem[r]
    IN /\ At(r, "finalize") /\ reg[pd.txid] = "mine"
       /\ saved' = [saved EXCEPT ![pd.txid] = IF @ = None THEN pd.index ELSE @]
       /\ slot' = None
       /\ raced' = (raced \/ (slot # None /\ slot.txid # pd.txid))
       /\ reserved' = reserved \ {pd.index}
       /\ Stop(r)
       /\ UNCHANGED <<depositLock, chain, stops, cut>>

\* Mutant: the slot is emptied although the loan was not saved.
FinalizeFails_Clears(r) ==
    /\ At(r, "finalize")
    /\ slot' = None
    /\ Stop(r)
    /\ UNCHANGED <<reserved, saved, depositLock, chain, history>>

\* The read back fails or trails, and after some more tries the runner stops.
FinalizeFails(r) ==
    /\ At(r, "finalize")
    /\ Stop(r)
    /\ UNCHANGED <<storage, depositLock, chain, history>>

-----------------------------------------------------------------------------
(* registerDeposit *)

\* Mutant: every tab may start.
tx_lock_free_Always == TRUE

\* withTxLock refuses while any tab holds the lock.
tx_lock_free == txLock = None

register(t) ==
    /\ At(Action(t), "idle") /\ slot # None /\ tx_lock_free
    /\ txLock' = t
    /\ pc' = [pc EXCEPT ![Action(t)] = "depositor"]
    /\ mem' = [mem EXCEPT ![Action(t)] = slot]
    /\ UNCHANGED <<storage, depositLock, arg, aborted, chain, history>>

\* The proof arrives, onLocated reads the slot again, the Bitcoin key signs, and
\* the simulation passes: the contract refuses a txid that has a position,
\* unless the simulation trails.
realRegister(t) ==
    LET r == Action(t)
    IN /\ At(r, "bundle") /\ btc[mem[r].txid] = "confirmed"
       /\ \/ /\ reg[mem[r].txid] \in {"none", "landed"}
             /\ pc' = [pc EXCEPT ![r] = "sign"]
             /\ arg' = [arg EXCEPT ![r] = mem[r].txid]
             /\ mem' = [mem EXCEPT ![r] = slot]
             /\ UNCHANGED <<aborted, txLock>>
          \/ Stop(r)
       /\ UNCHANGED <<storage, depositLock, chain, history>>

\* onSigned records the hash, then the call is sent.
sign(t) ==
    LET r == Action(t)
        x == arg[r]
    IN /\ At(r, "sign") /\ Cardinality({h \in Calls : Signed(h)}) < MaxSigned
       /\ tx' = [tx EXCEPT ![x] = Append(@, "pending")]
       /\ slot' = update("hash", <<x, Len(tx[x]) + 1>>)
       /\ Continue(r, "await", slot')
       /\ UNCHANGED <<reserved, saved, depositLock, btc, reg, history>>

SignRejected(t) ==
    /\ At(Action(t), "sign")
    /\ Stop(Action(t))
    /\ UNCHANGED <<storage, depositLock, chain, history>>

Call(r) == <<arg[r], Len(tx[arg[r]])>>
Becomes(h, s) == tx' = [tx EXCEPT ![h[1]] = [@ EXCEPT ![h[2]] = s]]

\* onDropped: the hash leaves the slot, unless no deposit was there when it was signed.
dropped(r) == slot' = IF mem[r] = None THEN slot ELSE update("hash", None)

\* SendFailed: the network refused the call, it never lands.
SendFailed(t) ==
    /\ At(Action(t), "await") /\ Status(Call(Action(t))) = "pending"
    /\ Becomes(Call(Action(t)), "expired") /\ dropped(Action(t))
    /\ Stop(Action(t))
    /\ UNCHANGED <<reserved, saved, depositLock, btc, reg, history>>

settled(t) ==
    LET r == Action(t)
    IN /\ At(r, "await")
       /\ \/ /\ Status(Call(r)) = "success" /\ UNCHANGED slot
             /\ IF mem[r] = None THEN Stop(r) ELSE Continue(r, "finalize", mem[r])
          \/ Status(Call(r)) = "failed" /\ Stop(r) /\ dropped(r)
       /\ UNCHANGED <<reserved, saved, depositLock, chain, history>>

\* TransactionStillPending, or an answer that is lost: the hash stays.
TxTimedOut(t) ==
    /\ At(Action(t), "await")
    /\ Stop(Action(t))
    /\ UNCHANGED <<storage, depositLock, chain, history>>

-----------------------------------------------------------------------------
(* Bitcoin, Stellar and the browser *)

Confirms(x) ==
    /\ btc[x] = "mempool"
    /\ btc' = [btc EXCEPT ![x] = "confirmed"]
    /\ UNCHANGED <<storage, depositLock, txLock, pc, mem, arg, aborted, reg, tx, history>>

Land(h) ==
    /\ Signed(h) /\ Status(h) = "pending"
    /\ IF reg[h[1]] = "none"
       THEN Becomes(h, "success") /\ reg' = [reg EXCEPT ![h[1]] = "landed"]
       ELSE Becomes(h, "failed") /\ UNCHANGED reg
    /\ UNCHANGED <<storage, depositLock, txLock, pc, mem, arg, aborted, btc, history>>

\* A call is valid for 300 s and counts as young for 360 s: one that never
\* landed is past both.
Expire(h) ==
    /\ Signed(h) /\ Status(h) = "pending"
    /\ Becomes(h, "expired")
    /\ UNCHANGED <<storage, depositLock, txLock, pc, mem, arg, aborted, btc, reg, history>>

\* Reads of the position catch up with the ledger it landed in.
CatchUp(x) ==
    /\ reg[x] = "landed"
    /\ reg' = [reg EXCEPT ![x] = "mine"]
    /\ UNCHANGED <<storage, depositLock, txLock, pc, mem, arg, aborted, btc, tx, history>>

\* The owner registers the deposit for another Stellar account.
OtherRegisters(x) ==
    /\ btc[x] = "confirmed" /\ reg[x] = "none"
    /\ stops < MaxStops /\ stops' = stops + 1
    /\ reg' = [reg EXCEPT ![x] = "other"]
    /\ UNCHANGED <<storage, depositLock, txLock, pc, mem, arg, aborted, btc, tx, cut, raced>>

Freed(lock, t) == IF lock = t THEN None ELSE lock

\* The tab's runners are gone and the browser drops its locks.
close(t) ==
    /\ stops < MaxStops /\ stops' = stops + 1
    /\ pc' = [r \in Runners |-> IF r[1] = t THEN "idle" ELSE pc[r]]
    /\ mem' = [r \in Runners |-> IF r[1] = t THEN None ELSE mem[r]]
    /\ arg' = [r \in Runners |-> IF r[1] = t THEN None ELSE arg[r]]
    /\ aborted' = aborted \ {t}
    /\ depositLock' = Freed(depositLock, t) /\ txLock' = Freed(txLock, t)
    /\ cut' = (cut \/ At(Action(t), "save"))
    /\ UNCHANGED <<storage, chain, raced>>

-----------------------------------------------------------------------------
Track(r) ==
    \/ wake(r) \/ getDepositor(r) \/ ReadFails(r) \/ getTxStatus(r) \/ locateOutput(r)
    \/ waitForConfirmations(r) \/ finalizeDeposit(r) \/ FinalizeFails(r)
Start(t) ==
    \/ send(t) \/ WalletRejects(t) \/ sendBtc(t) \/ save(t)
    \/ startDepositFromTxid(t) \/ locateDeposit(t) \/ LocateFails(t)
Register(t) ==
    \/ register(t) \/ realRegister(t) \/ sign(t) \/ SignRejected(t)
    \/ SendFailed(t) \/ settled(t) \/ TxTimedOut(t)

Next ==
    \/ \E r \in Runners : Track(r)
    \/ \E t \in Tabs : Start(t) \/ Register(t) \/ drive(t) \/ cleanup(t) \/ close(t)
    \/ \E x \in Txids : Confirms(x) \/ CatchUp(x) \/ OtherRegisters(x)
    \/ \E h \in Calls : Land(h) \/ Expire(h)

Spec == Init /\ [][Next]_vars

-----------------------------------------------------------------------------
(* Properties *)

Remembered(x) ==
    \/ slot # None /\ slot.txid = x
    \/ saved[x] # None
    \/ \E t \in Tabs : At(Action(t), "save") /\ mem[Action(t)].txid = x

\* pendingDeposit.ts:4, "Written the moment `sendBtc` returns, keyed by Stellar
\* address, so a reload or a closed tab never orphans locked BTC": sent BTC is always a saved loan,
\* the pending deposit, or about to be saved, unless a tab closed between the
\* wallet's answer and the save, or tabs raced for the one slot.
OrphanedOnlyByRace == ~cut /\ ~raced => \A x \in Txids : btc[x] # "unsent" => Remembered(x)

\* deposit.ts:421, "a resumed deposit never calls `deposit()` twice": across
\* closed tabs, lost answers and reads that trail, a second call for a Bitcoin transaction
\* is signed only once the first can no longer land, unless tabs raced for the
\* one slot.
SecondCallOnlyByRace ==
    ~raced => \A x \in Txids : Cardinality({i \in DOMAIN tx[x] : tx[x][i] = "pending"}) <= 1

============================================================================
