------------------------------- MODULE Funds -------------------------------
(***************************************************************************)
(* The Lend and Earn pages: the numbers they poll, the form that moves     *)
(* USDC into and out of the pool or the vault, and the transactions it     *)
(* sends.                                                                  *)
(*                                                                         *)
(* Every poll is keyed by the account and by a nonce that each transaction *)
(* raises.  Reads overlap, fail and answer in any order, the account can   *)
(* change under them, and the pool moves meanwhile.                        *)
(***************************************************************************)
EXTENDS Integers, FiniteSets

CONSTANTS
    None,
    Accounts,
    CENT,           \* stroops in the smallest amount a field shows by default
    MaxHeld,        \* bound on a balance
    MaxReads,       \* bound on the reads under way, of one poll at a time
    MaxMoves,       \* bound on what happens outside the page
    MaxActs         \* bound on what the user does

VARIABLES
    page,           \* "lend" (the pool) or "earn" (the vault)
    account,        \* the connected account
    nonce,
    heldBy,         \* the chain: each account's pool or vault balance,
    inWallet,       \*   its wallet, -1 without a trustline,
    liquid,         \*   what the pool has not lent out,
    paused,         \*   whether deposits are refused,
    share,          \*   and the least deposit that is worth a unit of supply
    polled,         \* usePolledValue: the state of each poll
    reading,        \* the reads under way
    tx,             \* the transaction the page waits for
    ops,            \* history: how many transactions changed each account,
    told,           \*   and how many when a result was last reported for it
    blanked,        \* history: the key a failed read blanked a number under:
                    \*   None, "left" (by the page) or "current"
    refusedFresh,   \* history: a call was refused though the page was right
    remained,       \* history: a Max withdrawal left more than it may
    moves, acts

(* The Earn page polls the vault's APY too, on which nothing depends.      *)
Polls == IF page = "lend" THEN {"pool", "held", "wallet"} ELSE {"held", "wallet"}
chain == <<heldBy, inWallet, liquid, paused, share>>
history == <<ops, told, blanked, refusedFresh, remained>>
vars == <<page, account, nonce, chain, polled, reading, tx, history, moves, acts>>

Init ==
    /\ page \in {"lend", "earn"} /\ nonce = 0
    /\ account = (CHOOSE a \in Accounts : TRUE)
    /\ heldBy = [a \in Accounts |-> IF a = account THEN MaxHeld - 1 ELSE 0]
    /\ inWallet = [a \in Accounts |-> IF heldBy[a] = 0 THEN -1 ELSE 1]
    /\ liquid = MaxHeld - 1 /\ paused = FALSE /\ share = 1
    /\ polled = [p \in Polls |-> None] /\ reading = {}
    /\ tx = None
    /\ ops = [a \in Accounts |-> 0] /\ told = ops
    /\ blanked = None /\ refusedFresh = FALSE /\ remained = FALSE
    /\ moves = 0 /\ acts = 0

-----------------------------------------------------------------------------
(* usePolledValue.                                                         *)

(* Mutant: a transaction does not change the key the balances are read     *)
(* under.                                                                  *)
key_NoNonce(p, a, n) ==
    IF p # "pool" /\ a = None THEN None
    ELSE [who |-> IF p = "pool" THEN p ELSE a, n |-> 0]

key(p, a, n) ==
    IF p # "pool" /\ a = None THEN None
    ELSE [who |-> IF p = "pool" THEN p ELSE a, n |-> n]

Key(p) == key(p, account, nonce)

(* getLendPool, getSupplyValue or getPosition, and getAssetBalance.        *)
read(p, k) ==
    CASE p = "pool" -> liquid
      [] p = "held" -> heldBy[k.who]
      [] p = "wallet" -> inWallet[k.who]

current(p) == IF polled[p] # None /\ polled[p].key = Key(p) THEN polled[p] ELSE None
value(p) == IF current(p) = None THEN None ELSE current(p).value

(* Only the balance's error is looked at.                                  *)
applyRead(prev, r, ok) ==
    LET error == ~ok /\ r.poll = "held" IN
    IF ~ok /\ prev # None /\ prev.key = r.key THEN [prev EXCEPT !.error = error]
    ELSE [key |-> r.key, value |-> IF ok THEN r.value ELSE None, error |-> error,
          seen |-> r.seen]

-----------------------------------------------------------------------------
(* What the page makes of the polls.                                       *)

(* The Earn page treats a balance whose last read failed as unknown.       *)
supplied == IF page = "earn" /\ current("held") # None /\ current("held").error
            THEN None ELSE value("held")
liquidity == IF page = "lend" THEN value("pool") ELSE None
wallet == IF value("wallet") # None /\ value("wallet") < 0 THEN 0 ELSE value("wallet")
checking == current("wallet") = None
trustPanel == value("wallet") = -1

withdrawable(held, l) ==
    IF l = None THEN [stroops |-> held, limitedByPool |-> FALSE]
    ELSE [stroops |-> IF l >= held THEN held ELSE l, limitedByPool |-> l < held]

out == withdrawable(supplied, liquidity)

max(side) ==
    IF side = "in" THEN wallet ELSE IF supplied = None THEN None ELSE out.stroops

blocked(side) ==
    \/ checking
    \/ side = "in" /\ wallet = 0
    \/ side = "out" /\ (supplied = 0 \/ liquidity = 0)

(* Every stroop when withdrawing from the pool, cents elsewhere.           *)
maxField(side) ==
    IF page = "lend" /\ side = "out" THEN max(side) ELSE (max(side) \div CENT) * CENT

busy == tx # None

-----------------------------------------------------------------------------
(* Reads.                                                                  *)

(* A tick of the timer, the first read of a new key, or "Try again" on the *)
(* Earn page.                                                              *)
load(p) ==
    /\ Key(p) # None
    /\ Cardinality(reading) < MaxReads /\ \A r \in reading : r.poll = p
    /\ reading' = reading \cup
         {[poll |-> p, key |-> Key(p), value |-> read(p, Key(p)),
           seen |-> IF p = "pool" THEN 0 ELSE ops[account]]}
    /\ reading' # reading
    /\ UNCHANGED <<page, account, nonce, chain, polled, tx, history, moves, acts>>

(* The nonce never comes back: a state of an earlier one is as good as     *)
(* none, and so is what a read for it answers.                             *)
Over(p, k, n) == \A a \in Accounts : key(p, a, n) # k
Kept(n) == [p \in Polls |-> IF polled[p] # None /\ Over(p, polled[p].key, n)
                            THEN None ELSE polled[p]]
Late(n) == {IF Over(r.poll, r.key, n) THEN [r EXCEPT !.key = None, !.value = None, !.seen = 0] ELSE r
              : r \in reading}

NewKey(n) == nonce' = n /\ polled' = Kept(n) /\ reading' = Late(n)

(* A read of a key the page has left is applied like any other, and the    *)
(* page then has no number until the next read.                            *)
answered(r, ok) ==
    /\ reading' = reading \ {r}
    /\ polled' = [polled EXCEPT ![r.poll] =
                     IF r.key = None THEN None ELSE applyRead(@, r, ok)]
    /\ UNCHANGED <<page, account, nonce, chain, tx, ops, told, refusedFresh, remained, moves, acts>>
    /\ blanked' = IF ok \/ value(r.poll) = None \/ value(r.poll)' # None THEN blanked
                  ELSE IF r.key = Key(r.poll) THEN "current"
                  ELSE IF blanked = None THEN "left" ELSE blanked

-----------------------------------------------------------------------------
(* The user.                                                               *)

Act == acts < MaxActs /\ acts' = acts + 1
still == <<page, chain, polled, reading, history, moves>>

(* "Try again" of the Lend page and "Check again" of both.                 *)
refresh ==
    /\ account # None /\ Act /\ NewKey(nonce + 1)
    /\ UNCHANGED <<page, account, chain, tx, history, moves>>

(* Connect, disconnect, or another account.                                *)
switch ==
    /\ Act /\ account' \in (Accounts \cup {None}) \ {account}
    /\ UNCHANGED <<page, nonce, polled, chain, reading, tx, history, moves>>

card == account # None /\ ~trustPanel /\ ~busy

checkAmount(side, v) == v > 0 /\ (max(side) # None => v <= max(side))

(* The page shows the chain as it is.                                      *)
upToDate ==
    /\ supplied = heldBy[account] /\ wallet = inWallet[account]
    /\ page = "lend" => liquidity = liquid

(* What the pool and the vault look at and the page does not read: a pause, *)
(* and a deposit worth no unit.                                             *)
unread(kind, amount) ==
    \/ paused /\ (kind = "in" \/ page = "earn")
    \/ kind = "in" /\ amount < share

(* A withdrawal of everything the page offers is one of the whole balance. *)
whole(side, v) ==
    /\ page = "lend" /\ side = "out"
    /\ value("held") # None
    /\ ~withdrawable(value("held"), value("pool")).limitedByPool
    /\ v = withdrawable(value("held"), value("pool")).stroops

(* The field is filled when it is sent: what Max put there earlier, from   *)
(* other readings or another account, is an amount that can be typed.      *)
submit(side, v) ==
    /\ card /\ ~blocked(side) /\ checkAmount(side, v) /\ Act
    /\ tx' = [kind |-> side, who |-> account, amount |-> v, all |-> whole(side, v),
              emptied |-> /\ side = "out" /\ max(side) # None /\ v = maxField(side)
                          /\ IF page = "lend" THEN whole(side, v)
                             ELSE supplied = heldBy[account],
              fresh |-> upToDate /\ ~unread(side, v), calm |-> TRUE, at |-> "build"]
    /\ UNCHANGED <<still, account, nonce>>

send == \E side \in {"in", "out"}, v \in 1..MaxHeld : submit(side, v)

addTrust ==
    /\ account # None /\ trustPanel /\ ~busy /\ Act
    /\ tx' = [kind |-> "trust", who |-> account, amount |-> 0, all |-> FALSE,
              emptied |-> FALSE, fresh |-> TRUE, calm |-> TRUE, at |-> "sign"]
    /\ UNCHANGED <<still, account, nonce>>

-----------------------------------------------------------------------------
(* lib/flows/lend.ts, earn.ts and trustline.ts.                            *)

smaller(a, b) == IF a < b THEN a ELSE b

wholeBalance(a, fallback) ==
    LET amount == smaller(heldBy[a], liquid) IN
    IF amount > 0 THEN amount ELSE fallback

(* The contract's, the vault's and the token's own conditions: the pool    *)
(* pauses deposits only, the vault may serve nobody for a while.           *)
accepts(kind, a, amount) ==
    \/ kind = "trust"
    \/ /\ ~unread(kind, amount)
       /\ kind = "in" => amount <= inWallet[a]
       /\ kind = "out" => amount <= heldBy[a] /\ (page = "lend" => amount <= liquid)

(* The result is reported, and every number is read again under a new key. *)
Report(succeeded) ==
    /\ tx' = None
    /\ NewKey(IF tx.kind = "trust" /\ ~succeeded THEN nonce ELSE nonce + 1)
    /\ told' = [told EXCEPT ![tx.who] = ops'[tx.who]]
    /\ UNCHANGED <<page, account, blanked, moves, acts>>

Refused ==
    /\ refusedFresh' = (refusedFresh \/ tx.fresh)
    /\ UNCHANGED <<chain, ops, remained>> /\ Report(FALSE)

(* The amount of a whole withdrawal is read again before it is built; the  *)
(* simulation refuses what the contract would.                             *)
build ==
    LET amount == IF tx.all THEN wholeBalance(tx.who, tx.amount) ELSE tx.amount IN
    /\ busy /\ tx.at = "build"
    /\ IF accepts(tx.kind, tx.who, amount)
       THEN /\ tx' = [tx EXCEPT !.at = "sign", !.amount = amount,
                              !.calm = tx.all \/ tx.calm]
            /\ UNCHANGED <<page, account, nonce, chain, polled, reading,
                           history, moves, acts>>
       ELSE Refused

Apply ==
    LET d == IF tx.kind = "in" THEN tx.amount ELSE -tx.amount IN
    /\ IF tx.kind = "trust"
       THEN inWallet' = [inWallet EXCEPT ![tx.who] = 0] /\ UNCHANGED <<heldBy, liquid>>
       ELSE /\ heldBy' = [heldBy EXCEPT ![tx.who] = @ + d]
            /\ inWallet' = [inWallet EXCEPT ![tx.who] = @ - d]
            /\ liquid' = IF page = "lend" THEN liquid + d ELSE liquid
    /\ ops' = [ops EXCEPT ![tx.who] = @ + 1] /\ UNCHANGED <<paused, share>>

(* Signed, submitted and final; or rejected, or never seen again.          *)
confirmed ==
    /\ busy /\ tx.at = "sign"
    /\ \/ /\ accepts(tx.kind, tx.who, tx.amount) /\ Apply
          /\ remained' = (remained \/ (tx.emptied /\ tx.calm /\ liquid' > 0
                               /\ heldBy'[tx.who] >= IF page = "lend" THEN 1 ELSE CENT))
          /\ UNCHANGED refusedFresh /\ Report(TRUE)
       \/ ~accepts(tx.kind, tx.who, tx.amount) /\ Refused
       \/ UNCHANGED <<chain, ops, remained, refusedFresh>> /\ Report(FALSE)

-----------------------------------------------------------------------------
(* Outside the page.                                                       *)

Moved ==
    /\ moves < MaxMoves /\ moves' = moves + 1
    /\ tx' = IF busy THEN [tx EXCEPT !.fresh = FALSE, !.calm = FALSE] ELSE None
    /\ UNCHANGED <<page, account, nonce, polled, reading, history, acts>>

(* Interest, which raises what a unit of supply is worth; what borrowers   *)
(* take; and the admin, or whatever stops the vault.                       *)
accrue ==
    /\ heldBy' = [a \in Accounts |-> IF heldBy[a] \in 1..MaxHeld - 1
                                     THEN heldBy[a] + 1 ELSE heldBy[a]]
    /\ heldBy' # heldBy /\ share' = share + 1
    /\ UNCHANGED <<inWallet, liquid, paused>> /\ Moved

borrowed ==
    /\ page = "lend" /\ liquid > 0 /\ liquid' = liquid - 1
    /\ UNCHANGED <<heldBy, inWallet, paused, share>> /\ Moved

pause == paused' = ~paused /\ UNCHANGED <<heldBy, inWallet, liquid, share>> /\ Moved

Next ==
    \/ \E p \in Polls : load(p)
    \/ \E r \in reading, ok \in BOOLEAN : answered(r, ok)
    \/ refresh \/ switch \/ send \/ addTrust
    \/ build \/ confirmed \/ accrue \/ borrowed \/ pause

Spec == Init /\ [][Next]_vars

-----------------------------------------------------------------------------
(* usePolledValue.ts:8-17 and useLiveLend.ts:43: a number on the page was  *)
(* read for the connected account, and after the last transaction of that  *)
(* account whose result the page reported; the answers that were under way *)
(* when it was reported are not shown, whenever they come.                 *)
NumbersAreCurrent ==
    \A p \in {"held", "wallet"} :
        value(p) # None => /\ current(p).key.who = account
                           /\ current(p).seen >= told[account]

(* usePolledValue.ts:8-12 and 86-90: the only failed read that blanks a     *)
(* number is a late one, of a key the page has left: applyRead replaces the *)
(* state then, whatever is on the page.                                     *)
FailureKeepsNumbers == blanked # "current"

(* funds/model.ts:13-26: what the page lets through while its numbers are  *)
(* right is not refused, but for a pause or a deposit worth no unit.       *)
FreshIsTaken == ~refusedFresh

(* lend.ts:48-66 and useLiveLend.ts:78: Max empties the account.           *)
MaxEmpties == ~remained

=============================================================================
