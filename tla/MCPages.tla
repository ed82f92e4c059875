------------------------------ MODULE MCPages ------------------------------
(* The pages of the web app, one per behaviour: the loan's status, its       *)
(* panels, the delivery of the borrowed USDC, the deposit page, the Lend and *)
(* Earn pages, and the wallets next to them.                                 *)
EXTENDS LoanScreen

CONSTANTS
    MaxCalls,
    CENT, SAT, CollateralSats, BORROW_LIMIT, UNIT, SHARE, Prices, MaxDebt,
    MaxPool, MaxUsdc, MaxMoves,
    OpenTabs, Accounts, MaxKeys, DUST_SATS, AmountSats, MaxCoins, MaxCoinSats,
    MaxUserActs, MaxHeld, BtcKeys, MIN_DEPOSIT_SATS, MaxSats

VARIABLES
    part,           \* the component this behaviour is about
    open, away, stray, forgot, intent, kept, receiveFlow, receiveAt, hash, done,
    attested, calls, allowance, trusted, ask, relay, link, unsure, lostPost,
    receiveFaults,
    debt, price, pool, usdc, trust, room, lending, view, tab, field, from, prefilled, sent,
    moves,
    backend, remembered, kitAddress, kitHeld, dropping, asking, auth, custody,
    session, user, loggingIn, told, sig, wanted, stranded,
    keeps, stored, made, owners, backups, replaced, signedIn, embedded, loaded,
    xverse, preferXverse, locked, releasing, coins,
    fundsPage, account, nonce, heldBy, inWallet, liquid, paused, share, polled, reading,
    tx, ops, reported, blanked, refusedFresh, remained, fundsMoves,
    depositor, btcKey, answer, asked, lowAckFor, amount, amountConfirmed, editing,
    ack, newDeviceOpen, txidCheck, tip, depositFlow, depositAction, starts, tracking,
    trailing, registering, pendingDeposits, elsewhere, funds, sats, found, spent, touched,
    loose, crossed, lost, depositMoves,
    userActs        \* acts of the part that counts them

Receive == INSTANCE Receive WITH
    MaxFaults <- 2, shown <- link, flow <- receiveFlow, at <- receiveAt,
    faults <- receiveFaults

Panels == INSTANCE Panels WITH call <- sent, acts <- userActs
Wallets == INSTANCE Wallets WITH acts <- userActs, MaxActs <- MaxUserActs
TestKey == INSTANCE TestKey WITH acts <- userActs, MaxActs <- MaxUserActs
Funds == INSTANCE Funds WITH acts <- userActs, MaxActs <- 2,
    page <- fundsPage, told <- reported, moves <- fundsMoves

Journey == INSTANCE Journey WITH
    MaxActs <- 3, acts <- userActs, moves <- depositMoves, account <- depositor,
    key <- btcKey, flow <- depositFlow, action <- depositAction,
    pending <- pendingDeposits, held <- sats

(* config.ts: a field shows cents of more than one stroop, and the borrow     *)
(* limit asks for at least the debt in collateral.                           *)
ASSUME PanelsAssumption ==
    /\ None \notin Int /\ None # "offered" /\ None # "current"
    /\ CENT \in Nat \ {0, 1} /\ SAT \in Nat \ {0} /\ SHARE \in Nat \ {0}
    /\ UNIT \in Nat \ {0} /\ BORROW_LIMIT \in Nat /\ BORROW_LIMIT >= UNIT
    /\ CollateralSats \in Nat /\ Prices \subseteq Nat
    /\ MaxDebt \in Nat /\ MaxPool \in Nat

(* Somebody is connected, balances are in stroops, and nothing is no number  *)
(* that was read.                                                            *)
ASSUME FundsAssumption ==
    /\ Accounts # {} /\ None \notin Accounts
    /\ CENT \in Nat \ {0} /\ MaxHeld \in Nat \ {0}
    /\ None \notin [key : [who : Accounts \cup {"pool"}, n : Int],
                    value : Int \cup {None}, error : BOOLEAN, seen : Int]

(* There are wallets and a page, and nothing is no deposit and no key.       *)
ASSUME JourneyAssumption ==
    /\ Accounts # {} /\ None \notin Accounts /\ BtcKeys # {} /\ None \notin BtcKeys
    /\ MIN_DEPOSIT_SATS \in Nat /\ MaxSats \in Nat
    /\ None \notin [key : BtcKeys, sats : Nat, step : {"sent", "confirming", "ready"},
                    confirmed : BOOLEAN, signed : BOOLEAN, onChain : BOOLEAN]

(* The wallets have names of their own, and coins and fees are in satoshis.  *)
ASSUME WalletsAssumption ==
    /\ None \notin {"kit", "pollar", "restore", "modal", "signed"} /\ None \notin Accounts
    /\ MaxKeys \in Nat /\ MaxCoins \in Nat /\ MaxCoinSats \in Nat
    /\ AmountSats \in Nat /\ DUST_SATS \in Nat \ {0}
    /\ None \notin [inputs : Nat, change : Int, fee : Int]

receiveVars == <<
    open, away, stray, forgot, intent, kept, receiveFlow, receiveAt, hash, done,
    attested, calls, allowance, trusted, ask, relay, link, unsure, lostPost,
    receiveFaults>>
panelVars == <<debt, price, pool, usdc, trust, room, lending, view, tab, field, from,
               prefilled, sent, moves>>
walletVars == <<backend, remembered, kitAddress, kitHeld, dropping, asking, auth,
                custody, session, user, loggingIn, told, sig, wanted, stranded>>
keyVars == <<keeps, stored, made, owners, backups, replaced, signedIn, embedded,
             loaded, xverse, preferXverse, locked, releasing, coins>>
fundsVars == <<fundsPage, account, nonce, heldBy, inWallet, liquid, paused, share, polled,
               reading, tx, ops, reported, blanked, refusedFresh, remained,
               fundsMoves>>
journeyVars == <<
    depositor, btcKey, answer, asked, lowAckFor, amount, amountConfirmed, editing,
    ack, newDeviceOpen, txidCheck, tip, depositFlow, depositAction, starts, tracking,
    trailing, registering, pendingDeposits, elsewhere, funds, sats, found, spent, touched,
    loose, crossed, lost, depositMoves>>
all == <<part, vars, receiveVars, panelVars, walletVars, keyVars, fundsVars,
         journeyVars, userActs>>

-----------------------------------------------------------------------------
(* The components that are not at work have no state.                    *)
NoReceive ==
    /\ open = None /\ away = None /\ stray = None /\ forgot = None /\ intent = None
    /\ kept = None /\ receiveFlow = None
    /\ receiveAt = None /\ hash = None /\ done = None /\ attested = None
    /\ calls = None /\ allowance = None /\ trusted = None /\ ask = None
    /\ relay = None /\ link = None /\ unsure = None /\ lostPost = None
    /\ receiveFaults = None

NoPanels ==
    /\ debt = None /\ price = None /\ pool = None /\ usdc = None /\ trust = None
    /\ room = None /\ lending = None /\ view = None /\ tab = None /\ field = None /\ from = None
    /\ prefilled = None /\ sent = None /\ moves = None

NoWallets ==
    /\ backend = None /\ remembered = None /\ kitAddress = None /\ asking = None
    /\ kitHeld = None /\ dropping = None /\ user = None
    /\ auth = None /\ custody = None /\ session = None /\ loggingIn = None
    /\ told = None /\ sig = None /\ wanted = None /\ stranded = None

NoTestKey ==
    /\ keeps = None /\ stored = None /\ made = None /\ owners = None
    /\ backups = None /\ replaced = None /\ signedIn = None /\ embedded = None
    /\ loaded = None /\ xverse = None /\ preferXverse = None /\ locked = None
    /\ releasing = None /\ coins = None

NoFunds ==
    /\ fundsPage = None /\ account = None /\ nonce = None /\ heldBy = None
    /\ inWallet = None /\ liquid = None /\ paused = None /\ share = None
    /\ polled = None /\ reading = None
    /\ tx = None /\ ops = None
    /\ reported = None /\ blanked = None /\ refusedFresh = None
    /\ remained = None /\ fundsMoves = None

NoJourney ==
    /\ depositor = None /\ btcKey = None /\ answer = None /\ asked = None
    /\ lowAckFor = None /\ amount = None /\ amountConfirmed = None
    /\ editing = None /\ ack = None /\ newDeviceOpen = None /\ txidCheck = None
    /\ tip = None /\ depositFlow = None /\ depositAction = None /\ starts = None
    /\ tracking = None /\ trailing = None /\ registering = None /\ pendingDeposits = None
    /\ elsewhere = None /\ funds = None /\ sats = None /\ found = None
    /\ spent = None /\ touched = None /\ loose = None /\ crossed = None
    /\ lost = None /\ depositMoves = None

(* The loan's page is in every behaviour, and only its first state in the  *)
(* ones that are about another part.                                       *)
LoanAsLoaded == Init /\ loan = "owes"

MCInit ==
    \/ /\ part = "loan" /\ Init /\ NoReceive /\ NoPanels /\ NoWallets
       /\ NoTestKey /\ NoFunds /\ NoJourney /\ userActs = None
    \/ /\ part = "receive" /\ LoanAsLoaded /\ Receive!Init /\ NoPanels
       /\ NoWallets /\ NoTestKey /\ NoFunds /\ NoJourney /\ userActs = None
    \/ /\ part = "panels" /\ LoanAsLoaded /\ NoReceive /\ Panels!Init
       /\ NoWallets /\ NoTestKey /\ NoFunds /\ NoJourney
    \/ /\ part = "wallets" /\ LoanAsLoaded /\ NoReceive /\ NoPanels
       /\ Wallets!Init /\ NoTestKey /\ NoFunds /\ NoJourney
    \/ /\ part = "testkey" /\ LoanAsLoaded /\ NoReceive /\ NoPanels
       /\ NoWallets /\ TestKey!Init /\ NoFunds /\ NoJourney
    \/ /\ part = "funds" /\ LoanAsLoaded /\ NoReceive /\ NoPanels
       /\ NoWallets /\ NoTestKey /\ Funds!Init /\ NoJourney
    \/ /\ part = "journey" /\ LoanAsLoaded /\ NoReceive /\ NoPanels
       /\ NoWallets /\ NoTestKey /\ NoFunds /\ Journey!Init

LoanNext ==
    /\ part = "loan" /\ Next
    /\ UNCHANGED <<part, receiveVars, panelVars, walletVars, keyVars, fundsVars, journeyVars,
                   userActs>>

ReceiveNext ==
    /\ part = "receive" /\ Receive!Next
    /\ UNCHANGED <<part, vars, panelVars, walletVars, keyVars, fundsVars, journeyVars, userActs>>

PanelsNext ==
    /\ part = "panels" /\ Panels!Next
    /\ UNCHANGED <<part, vars, receiveVars, walletVars, keyVars, fundsVars, journeyVars>>

WalletsNext ==
    /\ part = "wallets" /\ Wallets!Next
    /\ UNCHANGED <<part, vars, receiveVars, panelVars, keyVars, fundsVars, journeyVars>>

TestKeyNext ==
    /\ part = "testkey" /\ TestKey!Next
    /\ UNCHANGED <<part, vars, receiveVars, panelVars, walletVars, fundsVars, journeyVars>>

FundsNext ==
    /\ part = "funds" /\ Funds!Next
    /\ UNCHANGED <<part, vars, receiveVars, panelVars, walletVars, keyVars, journeyVars>>

JourneyNext ==
    /\ part = "journey" /\ Journey!Next
    /\ UNCHANGED <<part, vars, receiveVars, panelVars, walletVars, keyVars, fundsVars>>

MCNext ==
    \/ LoanNext \/ ReceiveNext \/ PanelsNext \/ WalletsNext \/ TestKeyNext
    \/ FundsNext \/ JourneyNext

(* The fairness each module states, for the page that is open.             *)
MCFairness ==
    /\ WF_vars(part = "loan" /\ poll)
    /\ \A k \in 1..MaxReads : WF_vars(part = "loan" /\ k <= Len(reads) /\ Reading(k))
    /\ WF_receiveVars(part = "receive" /\ Receive!Follow)
    /\ WF_receiveVars(part = "receive" /\ Receive!relayWorks)

MCSpec == MCInit /\ [][MCNext]_all /\ MCFairness

-----------------------------------------------------------------------------
\* store.ts:51: a loan page that stays visible comes to show the loan as it is,
\* however its status reads overlap, fail and trail.
PageCatchesUp == <>[](part = "loan" => shown = Now)

\* types.ts:8 and engine.ts:157: the page never shows an end of the loan the
\* chain has not reached, and warns before it closes while a wallet is asked or
\* a call is waited for.
PageIsHonest == part = "loan" => ShownEndIsReal /\ UnloadGuarded

\* useReceive.ts: a second swap or burn of the borrowed USDC is signed only
\* after one was reported as failed without being known to have failed, or after
\* a disconnect made the step forget one.
SpentTwiceOnlyIfUnsure == part = "receive" => Receive!SpentTwiceOnlyIfUnsure

\* relay.ts:41: while the page is open, a burn that the relay was asked for is
\* followed to its link or its failure.
DeliveryIsFollowed ==
    <>[](part = "receive" /\ Receive!Asked => Receive!Followed)

\* model.ts:18-49: while what the page has read is so, the amounts it offers are
\* the contract's, to the stroop, but for what the panels do not read: a pause, a
\* stale tip, a near timelock, a full exposure cap.
OffersAreTaken == part = "panels" => Panels!OffersAreTaken

\* WalletProvider.tsx: who disconnected stays out, a reload asks for the kind
\* of wallet that is connected, and a signature is given by the account the flow was started for unless
\* the user left under it;
\* key.ts:107 and useBitcoinWallet.tsx:113: coins are only locked to test keys
\* that are kept, no tab uses another account's key, and the payments of a test
\* key pay exactly.
WalletsAreKept ==
    /\ part = "wallets" => Wallets!SessionIsSteady /\ Wallets!SignedByStarter
    /\ part = "testkey" =>
           TestKey!UsedKeyIsKept /\ TestKey!KeyIsOwn /\ TestKey!PaymentIsExact

\* usePolledValue.ts:8-17 and lend.ts:48: on the Lend and Earn pages a number is
\* the connected account's and not from before a transaction that was reported,
\* no failed read of it blanks it, what is sent while the numbers are right is
\* taken but for a pause or a deposit worth no unit, and Max empties the account.
FundsAreHonest ==
    part = "funds" => /\ Funds!NumbersAreCurrent /\ Funds!FailureKeepsNumbers
                      /\ Funds!FreshIsTaken /\ Funds!MaxEmpties

\* useLiveJourney.ts and steps.tsx: the deposit page offers to send what the
\* connected wallets were read to allow, keeps the record of every deposit sent,
\* says that a wallet is asked only while one is, and offers to register what
\* Bitcoin has confirmed, except where accounts change or tabs race under it, or
\* a tracker it had aborted still told it news.
DepositIsOrderly ==
    part = "journey" => /\ Journey!OfferIsSound /\ Journey!RecordIsKept
                        /\ Journey!PromptIsReal /\ Journey!RegisterIsDue

=============================================================================
