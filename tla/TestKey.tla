------------------------------ MODULE TestKey ------------------------------
(***************************************************************************)
(* The Bitcoin side of the web app's wallets: the Signet test key that a   *)
(* social sign-in gets in this browser, its backup and restore, and Xverse *)
(* next to it; which of them a deposit is locked to and a release signed   *)
(* with; and the payments the test key makes.                              *)
(*                                                                         *)
(* Tabs share the browser's storage and nothing else: a tab holds the key  *)
(* it loaded until its account changes.                                    *)
(***************************************************************************)
EXTENDS Integers, Sequences, FiniteSets, FiniteSetsExt

CONSTANTS
    None,
    OpenTabs, Accounts,
    MaxKeys,        \* bound on the keys ever generated
    MaxActs,        \* bound on what the users do
    DUST_SATS, AmountSats, MaxCoins, MaxCoinSats  \* bounds of the payments

VARIABLES
    keeps,          \* the storage keeps what is written to it
    stored,         \* localStorage: the key of each account
    made,           \* keys generated so far; a key is its number, Xverse's is 0
    owners,         \* history: the accounts each key was made or restored for
    backups,        \* keys in a downloaded file
    replaced,       \* history: keys that a restore has overwritten
    signedIn,       \* per tab: the Pollar account
    embedded,       \* per tab: embeddedState, or None
    loaded,         \* per tab: the effect has run for that account
    xverse,         \* per tab: Xverse is connected
    preferXverse,
    locked,         \* keys that coins or a loan are locked to
    releasing,      \* per tab: the release under way, or None
    acts,
    coins           \* the coins of a payment, when the behaviour is about one

tab == <<signedIn, embedded, loaded, xverse, preferXverse, releasing>>
disk == <<stored, made, owners, backups, replaced>>
vars == <<keeps, disk, tab, locked, acts, coins>>

Act == acts < MaxActs /\ acts' = acts + 1
XverseKey == 0
Keys == 1..MaxKeys

Init ==
    /\ keeps \in BOOLEAN
    /\ stored = [a \in Accounts |-> None] /\ made = 0
    /\ owners = [k \in Keys |-> {}] /\ backups = {} /\ replaced = {}
    /\ signedIn = [t \in OpenTabs |-> None] /\ embedded = [t \in OpenTabs |-> None]
    /\ loaded = [t \in OpenTabs |-> FALSE] /\ xverse = [t \in OpenTabs |-> FALSE]
    /\ preferXverse = [t \in OpenTabs |-> FALSE] /\ locked = {}
    /\ releasing = [t \in OpenTabs |-> None] /\ acts = 0
    /\ coins \in UNION {[1..n -> 1..MaxCoinSats] : n \in 0..MaxCoins}
    /\ coins # << >> => keeps

-----------------------------------------------------------------------------
(* Mutant: the key the tab holds is offered whoever is signed in.          *)
key_AnyAccount(t) ==
    IF embedded[t] # None /\ signedIn[t] # None THEN embedded[t].key ELSE None

(* The key of this render: the state's, if it is of the account signed in. *)
key(t) ==
    IF embedded[t] # None /\ embedded[t].account = signedIn[t]
    THEN embedded[t].key ELSE None

embeddedActive(t) == key(t) # None /\ ~(preferXverse[t] /\ xverse[t])
btcPubkey(t) ==
    IF embeddedActive(t) THEN key(t)
    ELSE IF xverse[t] THEN XverseKey ELSE None

elsewhere == UNCHANGED <<keeps, locked, coins>>

(* The Pollar session of the tab changes: in, out or to another account.   *)
session(t, a) ==
    /\ signedIn[t] # a /\ Act
    /\ signedIn' = [signedIn EXCEPT ![t] = a]
    /\ loaded' = [loaded EXCEPT ![t] = FALSE]
    /\ UNCHANGED <<disk, embedded, xverse, preferXverse, releasing>> /\ elsewhere

(* loadOrCreateKey throws when the storage dropped what it wrote.          *)
readBack(ok) == ok

(* The effect on the account: its key, generated and stored on first use.  *)
loadOrCreateKey(t) ==
    LET a == signedIn[t]
        new == made + 1
    IN /\ a # None /\ ~loaded[t]
       /\ loaded' = [loaded EXCEPT ![t] = TRUE]
       /\ IF stored[a] # None
          THEN /\ embedded' = [embedded EXCEPT ![t] = [account |-> a, key |-> stored[a]]]
               /\ UNCHANGED disk
          ELSE /\ made < MaxKeys /\ made' = new
               /\ owners' = [owners EXCEPT ![new] = {a}]
               /\ stored' = IF keeps THEN [stored EXCEPT ![a] = new] ELSE stored
               /\ embedded' = IF readBack(stored'[a] = new)
                              THEN [embedded EXCEPT ![t] = [account |-> a, key |-> new]]
                              ELSE embedded
               /\ UNCHANGED <<backups, replaced>>
       /\ UNCHANGED <<signedIn, xverse, preferXverse, releasing, acts>> /\ elsewhere

exportFile(t) ==
    /\ embeddedActive(t) /\ key(t) \notin backups
    /\ backups' = backups \union {key(t)}
    /\ UNCHANGED <<stored, made, owners, replaced, tab, acts>> /\ elsewhere

(* A backup replaces the account's key in this browser and in this tab;    *)
(* another tab goes on with the one it holds.                              *)
importFile(t) ==
    LET a == signedIn[t] IN
    /\ embeddedActive(t) /\ Act
    /\ \E k \in backups \ {key(t)} :
        /\ replaced' = replaced \union ({stored[a]} \ {None, k})
        /\ stored' = IF keeps THEN [stored EXCEPT ![a] = k] ELSE stored
        /\ owners' = [owners EXCEPT ![k] = @ \union {a}]
        /\ embedded' = [embedded EXCEPT ![t] = [account |-> a, key |-> k]]
    /\ preferXverse' = [preferXverse EXCEPT ![t] = FALSE]
    /\ UNCHANGED <<made, backups, signedIn, loaded, xverse, releasing>> /\ elsewhere

(* wallet_connect: an account on the right network, or an error.           *)
connect(t) ==
    /\ ~xverse[t] /\ Act
    /\ xverse' = [xverse EXCEPT ![t] = TRUE]
    /\ preferXverse' = [preferXverse EXCEPT ![t] = TRUE]
    /\ UNCHANGED <<disk, signedIn, embedded, loaded, releasing>> /\ elsewhere

disconnect(t) ==
    /\ xverse[t] /\ Act
    /\ xverse' = [xverse EXCEPT ![t] = FALSE]
    /\ preferXverse' = [preferXverse EXCEPT ![t] = FALSE]
    /\ UNCHANGED <<disk, signedIn, embedded, loaded, releasing>> /\ elsewhere

use(t) ==
    /\ key(t) # None /\ preferXverse[t] /\ Act
    /\ preferXverse' = [preferXverse EXCEPT ![t] = FALSE]
    /\ UNCHANGED <<disk, signedIn, embedded, loaded, xverse, releasing>> /\ elsewhere

reload(t) ==
    /\ Act /\ embedded' = [embedded EXCEPT ![t] = None]
    /\ loaded' = [loaded EXCEPT ![t] = FALSE]
    /\ xverse' = [xverse EXCEPT ![t] = FALSE]
    /\ preferXverse' = [preferXverse EXCEPT ![t] = FALSE]
    /\ releasing' = [releasing EXCEPT ![t] = None]
    /\ UNCHANGED <<disk, signedIn>> /\ elsewhere

-----------------------------------------------------------------------------
(* sendBtc and signMessage: coins are locked to the key of the wallet.     *)
sendBtc(t) ==
    /\ btcPubkey(t) \notin locked \union {None}
    /\ locked' = locked \union {btcPubkey(t)}
    /\ UNCHANGED <<keeps, disk, tab, acts, coins>>

(* The connected key must be the deposit's.                                *)
releaseBlocker(t, k) ==
    IF btcPubkey(t) = None THEN "no_wallet"
    ELSE IF btcPubkey(t) # k THEN "wrong_account" ELSE None

(* What the panel shows: the steps of a release under way, why there can   *)
(* be none, or the slide that starts one.                                  *)
ReleasePanel(t, k) ==
    IF releasing[t] # None THEN "steps"
    ELSE IF releaseBlocker(t, k) # None THEN releaseBlocker(t, k) ELSE "slide"

release(t, k) ==
    /\ k \in locked /\ ReleasePanel(t, k) = "slide" /\ Act
    /\ releasing' = [releasing EXCEPT ![t] = [of |-> k, by |-> btcPubkey(t)]]
    /\ UNCHANGED <<disk, signedIn, embedded, loaded, xverse, preferXverse>>
    /\ elsewhere

(* signReleasePsbt, with the key of the render the release started from;   *)
(* Xverse may meanwhile be on another account and refuse.                  *)
signPsbt(t) ==
    LET r == releasing[t] IN
    /\ r # None
    /\ \/ r.by = r.of /\ locked' = locked \ {r.of}
       \/ r.by = XverseKey /\ UNCHANGED locked
    /\ releasing' = [releasing EXCEPT ![t] = None]
    /\ UNCHANGED <<keeps, disk, signedIn, embedded, loaded, xverse,
                   preferXverse, acts, coins>>

Wallets(t) ==
    \/ \E a \in Accounts \union {None} : session(t, a)
    \/ loadOrCreateKey(t) \/ exportFile(t) \/ importFile(t)
    \/ connect(t) \/ disconnect(t) \/ use(t) \/ reload(t)
    \/ sendBtc(t) \/ signPsbt(t)
    \/ \E k \in locked : release(t, k)

(* A behaviour is about the coins of one payment or about the wallets.     *)
Next == coins = << >> /\ \E t \in OpenTabs : Wallets(t)

Spec == Init /\ [][Next]_vars

-----------------------------------------------------------------------------
(* Payments: coins are taken largest first until they pay the amount with  *)
(* a change output.  One unit is the fee of one input or output.           *)

paymentVsize(inputs, outputs) == inputs + outputs

(* The order the coins are sorted in, and the n that come first in it.     *)
ahead(i, j) == coins[i] > coins[j] \/ (coins[i] = coins[j] /\ i < j)
largest(n) ==
    {i \in DOMAIN coins : Cardinality({j \in DOMAIN coins : ahead(j, i)}) < n}
TotalOf(n) == MapThenSumSet(LAMBDA i : coins[i], largest(n))

enough(n) == TotalOf(n) >= AmountSats + paymentVsize(n, 2)

buildPayment ==
    LET all == Len(coins)
        picks == {n \in 1..all : enough(n)}
        n == IF picks = {} THEN all
             ELSE CHOOSE x \in picks : \A y \in picks : x <= y
        total == TotalOf(n)
        rest == total - AmountSats - paymentVsize(n, 2)
        change == IF rest < DUST_SATS THEN 0 ELSE rest
    IN IF total < AmountSats + paymentVsize(n, 1) THEN None
       ELSE [inputs |-> n, change |-> change, fee |-> total - AmountSats - change]

(* key.ts:293-310: a payment pays its outputs and at least the fee of its  *)
(* size, has no dust change, and overpays by less than a dust output and   *)
(* the size of the change; and it is refused only when no number of the    *)
(* largest coins would do, or a coin is worth no more than its own fee.    *)
PaymentIsExact ==
    LET p == buildPayment IN
    IF p = None
    THEN \A n \in 1..Len(coins) :
            \/ TotalOf(n) < AmountSats + paymentVsize(n, 1)
            \/ \E i \in DOMAIN coins : coins[i] <= 1
    ELSE LET outputs == IF p.change > 0 THEN 2 ELSE 1
         IN /\ p.fee >= paymentVsize(p.inputs, outputs)
            /\ p.change = 0 \/ p.change >= DUST_SATS
            /\ p.fee < paymentVsize(p.inputs, 2) + DUST_SATS

-----------------------------------------------------------------------------
(* key.ts:107, "a storage that silently drops writes must not hand out a   *)
(* key it will forget": coins are only locked to a key that this browser   *)
(* has, a backup file has, or a restore, in whatever tab, has overwritten. *)
UsedKeyIsKept ==
    \A k \in locked \ {XverseKey} :
        k \in backups \union replaced \/ \E a \in Accounts : stored[a] = k

(* useBitcoinWallet.tsx:113: no tab offers, spends or signs with a key of  *)
(* another account of this browser, between any sign-ins and reloads.      *)
KeyIsOwn ==
    \A t \in OpenTabs : key(t) # None => signedIn[t] \in owners[key(t)]

=============================================================================
