# Writz: TLA+ models, checks and proofs

Writz lends USDC on Stellar against Bitcoin that stays in a timelocked Bitcoin
output. This directory models the parts of the repository whose correctness
depends on sequences of steps, checks them with TLC on small instances, and
proves with TLAPS, for every value of the constants, nearly all of the safety
properties that TLC checks.

`PROJECT.json` lists the components, the runs, a mutant for every property that
holds, the source lines behind each definition, the hazards and the theorems.

## The system

| Component | State it keeps | Operations | What makes it correct |
|---|---|---|---|
| `contracts/writz-lend` | pool totals, two interest indices, reserve, lenders' scaled balances, positions by Bitcoin txid, release PSBTs, settings | deposit, supply, withdraw, borrow, repay, liquidate, heartbeat, publish a release, admin setters | solvency through every rounding, fairness between lenders, positions that end for good, exits that stay open |
| `contracts/bitcoin-spv` | checkpoint, headers, index from height to hash, best tip, registry of consumed deposits | set the checkpoint, submit headers, verify a transaction, consume a deposit, admin setters | the index is the chain with most work, difficulty follows Bitcoin's rule, deep blocks stay |
| relayer: header sync, repay watcher, account lock | a promise chain per account; event cursor and `pending_releases` (SQLite) | passes over headers, polls, sweeps, publication | the light client keeps up, each full repayment leads to a release, no call of one job evicts the other's |
| relayer: `cctp` | one record per burn (SQLite), jobs and a lock in memory | request, poll Circle, mint on Base Sepolia, retry, resume | minted once as far as can be known, linked to the right transaction, never stranded, daily cap |
| relayer: event archive and rebuild | archive and release table with a cursor each | poll, export, rebuild, swap | no event missed, a rebuild loses no release |
| relayer: faucet | claims (SQLite); nonces, queue and reserved coins in memory | challenge, claim, broadcast, record | limits hold, an account is paid once, coins are not spent twice |
| relayer: vault index, API, status and proof routes, onboarding funnel | cursors and rows, caches, counters | poll, answer, count | counted once, answered truthfully while the sources move |
| app: deposits | one pending deposit per owner and reserved indices (localStorage), Web Locks; the deposit page | send BTC, paste a txid, track, register, finish | sent BTC stays remembered, one `deposit()` call in flight, the page offers and records for the right wallet |
| app: loans and funds | positions and pending transactions (localStorage), a status cache, polled numbers | borrow, repay, release, swap or carry the USDC, supply, withdraw | no confirmed call forgotten, an honest page, offers the contract takes, money sent twice only when nobody could know |
| app: wallets | a remembered backend, the test key of each account | sign in and out, create, back up and restore a key | the session is steady, a key in use is never lost or mixed up |

How they interact: a borrower sends BTC (app), the header sync keeps
`bitcoin-spv` at Bitcoin's tip (relayer, through the account lock), the app
registers the deposit with a proof from the proof route that `writz-lend` verifies through
`bitcoin-spv`, the borrower draws USDC, possibly swapped or carried to Base by CCTP and
minted by the relay. A full repayment emits `repay_full`, which the repay
watcher answers with a co-signed release on the contract (again through the
account lock) and the archive keeps. Contract calls are atomic; everything else is asynchronous, may
crash, and talks to services whose answers get lost or arrive late.

The hard behaviours are therefore: rounding that accumulates over calls of many
users; reorganisations that arrive in pieces; a process that dies between an
external effect and the record of it; a transaction that lands after its sender
gave up; browser tabs that share storage; and pages whose reads overlap with
what the user does.

## Modules

| Module | Models |
|---|---|
| `WritzLend` | `writz-lend/src/lib.rs`, `rates.rs`, `oracle.rs`, `storage.rs` |
| `Difficulty`, `Merkle` | `bitcoin-spv/src/difficulty.rs`, `merkle.rs` |
| `BitcoinSpv` | `bitcoin-spv/src/lib.rs` and its storage, on top of `Difficulty` |
| `SpvProof` | `relayer/src/bitcoin/spv.ts`, `routes/proof.ts`, `proof-cache.ts` |
| `AccountLock`, `HeaderSync` | `relayer/src/account-lock.ts`, `bitcoin/header-sync.ts`, `bitcoin/spv-submit.ts` |
| `RepayWatcher`, `Release` | `relayer/src/repay-watcher/`; `Release` is the abstract promise to the borrower |
| `CctpRelay` | `relayer/src/cctp/` |
| `LendArchive` | `relayer/src/lend-events/`, `lend-rebuild/`, `data-lock.ts` |
| `Faucet` | `relayer/src/faucet/` and the app's `autoClaim.ts` |
| `VaultWatcher`, `VaultApi` | `relayer/src/vault-watcher/`, `defindex/`, `rate-limit.ts` |
| `DepositReads` | `relayer/src/lend/`, `routes/deposit-status.ts`, `routes/timeline.ts` |
| `Onboarding` | `relayer/src/onboarding/` and the app's `lib/onboarding/` |
| `DepositFlow` | `frontend/app/src/lib/flows/deposit.ts` with `lib/flow/` |
| `Journey` | `components/borrow/` and `lib/borrow/journey.ts`: the deposit page |
| `PositionTx` | `lib/flows/` (borrow, repay, release, earn, positionTx), `lib/flow/pendingTx.ts` |
| `LoanScreen`, `Panels` | `components/loan/`, `lib/status/`, `lib/flow/engine.ts`, `lib/loan/model.ts` |
| `Receive` | `lib/receive/`, `components/loan/ReceiveStep.tsx` |
| `Funds` | `components/lend/`, `components/earn/`, `components/funds/`, `lib/earn/`, `lib/flows/lend.ts` |
| `Wallets`, `TestKey` | `lib/wallet/`, `lib/bitcoin/` |
| `WritzLendProofs` | theorems about the pool: the invariants, then what no step does and what the lenders' claims add up to |
| `BitcoinSpvProofs` | theorems about the light client, its Merkle and difficulty algorithms and the proof route |
| `RelayerProofs`, `CctpRelayProofs` | theorems about the watcher, the account lock and the header sync; about the mints |
| `ServicesProofs` | theorems about the archive, the faucet, the vault index and API, the status routes and the funnel |
| `AppProofs`, `PagesProofs` | theorems about the signing flows; about the pages and the wallets |
| `NumberFacts` | lemmas: induction over numbers in steps, least and greatest elements, sums over finite sets, products and division rounding down |
| `MC*` | instances for TLC |

Operators whose comment starts with "Mutant" are altered forms of the
definition that follows them, used to show that a property can fail; nothing
else refers to them.

**Compositions.** Where components interact, one module uses the other:
`BitcoinSpv` extends `Difficulty`, `HeaderSync` extends `AccountLock` and runs
next to the repay watcher's task, `RepayWatcher` implements `Release`. Where
they do not share state, an `MC` module checks several of them in one run: a
variable `part` says which component a behaviour is about, the others stay in
one state without meaning, and each property is stated for its part. The module
it extends (`BitcoinSpv`, `RepayWatcher`, `CctpRelay`, `DepositFlow`) is one of
them, whose properties are checked under the names its theorems prove. `MCBitcoin`
(light client, algorithms, proof route), `MCRelayer` (header sync, watcher,
retries of mints), `MCServices` (mints at the cap, archive, faucet, vault index, vault API,
status routes, funnel), `MCApp` (deposits, position transactions) and `MCPages`
(loan page, panels, delivery, deposit page, Lend and Earn, session, test key) are
of this kind. A property such as `WalletsAreKept` is the conjunction of the named invariants of
its modules (`SessionIsSteady`, `SignedByStarter`, `KeyIsOwn`, `PaymentIsExact`,
`UsedKeyIsKept`), each stated and commented where its component is.

### WritzLend

A call is one step: an error rolls everything back, so an early return is a
guard. Accrual (`project`) is the family of `...Now` operators (`BorrowIndexNow`,
`InterestNow`, `SupplyIndexNow`, ...), which the calls assign from, as the code does with
`accrue_global`. Amounts, prices and indices are integers with the code's
divisions; i128 overflow is out of reach of the amounts a USDC pool can hold.
What a deposit proof establishes is a record of facts per Bitcoin transaction
(`Utxo`); `bitcoin-spv` appears as the tip it reports and its registry. Ledger
number and timestamp advance together. TTL windows are configuration only.

### Difficulty, Merkle, BitcoinSpv

`Difficulty` works in a number system of `DIGITS` digits of base `BASE` (256-bit
numbers in base 256 in the code); `POWER` is what a shift by so many digits
multiplies by. `Merkle` is `verify_merkle_inclusion` as a
loop, against Bitcoin's own tree with its duplicated last leaf. The hash of 64
bytes is the pair of their halves, so an inner node is a pair, and so is the id of
a transaction of 64 bytes, of which a block may hold some (`Short`); the contract
refuses a claimed one and looks at no other. In `BitcoinSpv` a block stands for its hash and `Header`
gives the fields hashed into it; `submit_headers` takes a batch of any blocks in
any order (`Ingest` is the loop over it), and its walk back from a new tip
(`fork_height`, `reindex`) stops at the first index entry that matches, as the
code's loop does. What the code computes in a loop (`Branch`, `Ingest`, `POWER`, the
`Levels` and `Ancestors` of Bitcoin's tree) is a recursive function, which the
proofs can use.

### SpvProof

A build of a proof reads the height, the tip, the Merkle path and each block hash
in a step of its own, from the primary host or, on a fault, from one that lags.
Bitcoin may reorganise between any two of them. `clean` is history: nothing
disturbed the build. The cache keeps the answer for an hour when it is deep,
for seconds otherwise; requests of one key share a build.

### AccountLock and HeaderSync

The promise chain is a queue; a task builds with the next sequence number, sends
and confirms. `pool` is the one transaction Stellar queues per account, which a
later one with the same sequence number replaces for ten times the bid. A header
pass reads Bitcoin's height and hash, the contract's tip and each header at
different moments; the contract takes a batch by the rules of `BitcoinSpv` at
constant difficulty.

### RepayWatcher and Release

Each await of the poll loop and of `handleRepayFull` ends a step. The database,
the chain and a queued transaction survive `Crash`; the process state does not.
`unsure` remembers attempts that ended before their transaction did.
`Release` says what a borrower is promised: a release appears only for a loan
repaid in full and stays. `PromiseKept` is the refinement, with the repaid loans of
the event log as `owed` and the published ones as `released`.

### CctpRelay

One job per burn, each await a step. Times are classes (`retryAt` later, at
midnight, due; `retryingSince` recent or old; `submittedAt` today or before) and
`RetryTimeComes`, `DeadlinePasses` and `Midnight` move them. Base Sepolia mines,
reverts or drops each broadcast, and anybody may mint first.

### LendArchive

The relayer and the rebuild are two processes on one data directory, kept apart
by the data lock. The archive, its main copy and the release table are separate
files; a crash may fall between any two writes, a disk may be lost, and RPC
serves only recent ledgers, so a rebuild may have to start from an exported
file. With `FilesComplete = FALSE` a file may lack the events of a position.

### Faucet, VaultWatcher, VaultApi, DepositReads, Onboarding

`Faucet` has a tab's `runAutoClaim` and the server's `claim` with each await a
step: three tabs of two accounts pass the first checks together and meet again
in the payment queue. A restart forgets nonces, queue and reservations.
`unsure` holds accounts with a payment the node took and the relayer did not record.
`VaultWatcher` inserts rows and moves its cursor in two files; genesis events are
seeded at every boot. `VaultApi` is the fixed-window limiter and the failure
streaks. `DepositReads` builds each answer from reads at different moments over
a shared index whose cursor may fall out of RPC's retention. `Onboarding` counts
a loan step only with the chain's evidence, and the guide reads the loan and the
milestones of its own browser; `partly` holds the browsers that saw a repayment
which left some debt.

### DepositFlow and Journey

`DepositFlow`: two runners per tab, the effect that tracks the pending deposit under the
deposit lock, and the action the user started. `slot` is the one localStorage
entry per owner, `mem` each runner's copy of it from before its awaits, and
`update` patches whatever the slot holds at that moment, as the store does. A
tab may close, a tracker may be aborted (and only notice at its next sleep),
wallets refuse, answers get lost, reads trail the ledger by a while, and a
signed call may land long after its sender stopped waiting. A tab starts its next tracker only once its
aborted one has stopped. A call that never landed is past both its 300 s
validity and the 360 s after which the app stops waiting for it.

`Journey` is the page around it, in one tab: `answer` holds keyed reads, which may
answer for a wallet that is no longer connected; accounts and Bitcoin keys
change under an open prompt; another tab sends, follows or finishes the same
deposits. The runs of `DepositFlow` appear as their outcomes and the events they
emit. `tracking` is the tracker of the account on the page; one that was aborted
moves to `trailing` and goes on telling the page of its account until it next
sleeps (`trails`), with what it read before its record was closed or replaced
(`Stale`). A registration tracks once more (`checks`) and then signs. `OfferIsSound`, `RecordIsKept`, `PromptIsReal` and `RegisterIsDue` are what
`DepositIsOrderly` joins.

### PositionTx, LoanScreen, Panels, Receive

`PositionTx` is one position with its calls: read, build, sign, record the hash
with the local change, submit, wait, reconcile later in any tab; `repay` reads
the debt again after it landed and sends the rest. Interest grows between any
two steps and reads may trail (`trailed`).
`LoanScreen` has the status store: each read is several network reads made for
the local record of its start, applied by sequence number. `reduceFlow` is the
flow engine with its terminal phases. `Panels` works in stroops with two stroops
to the cent, so that the field's rounding shows; `room` is what the pool's exposure
cap leaves and `lending` whether borrowing is open (a pause, an old tip or a near
timelock close it), neither of which the panels read (`refused`). `Receive` keeps
everything in the page, as the code does: a closed page forgets it, while the signed
calls and the relay go on. A disconnect unmounts the step while the page stays
(`away`), and a sign-in on that page mounts it afresh; `stray` is the run that was
under way, which may still ask for a signature, and `forgot` says that the step
forgot a call that was done or in flight.

### Funds, Wallets, TestKey

`Funds`: every poll is keyed by the account and a nonce that each transaction
raises; reads overlap, fail and answer late. A pause of deposits and a deposit worth
less than one unit of supply (`share` stroops) are refused by the contract and not
read by the page (`unread`). `Wallets`: the kit and the Pollar
backend, restore on load, sign-in, creation of the custodial wallet, a logout
that nobody waits for, reloads and expired sessions. A flow remembers whom it was
started for (`sig.for`); the signer is whoever is connected when the wallet is
asked (`signer`), and `sig.left` says that the user left the first in between. `TestKey`: two tabs share
storage and nothing else; a tab holds the key it loaded until its account
changes; `locked` are the keys deposits are locked to, `replaced` those a restore
overwrote on purpose. A payment takes the largest coins (`largest`, by rank, so
that no order of the list matters); it is checked for every purse within the bounds.

## Runs

| Run | Instance | Shows |
|---|---|---|
| `lend_pool` | two users who lend and borrow, two deposits, two ledgers of interest, 7 calls (188k states) | `TypeOK`, `Solvent`, `ClaimsCovered`, `FairShare`, `DebtFallsOnlyByPayment`, `PositionsEndForGood` |
| `lend_full` | every call and setting, moving price and tip, 5 calls (289k states) | `ExitsStayOpen`, `LoanLeavesExitFarAway` |
| `lend_rounding` | as `lend_pool` | finding: `FullWithdrawalNeverFailsOnRounding` fails |
| `bitcoin` | two trees of two branches, inside a period and across a retarget, batches of two; every 12-bit target, timespans from -40 to 40, blocks of up to three transactions, one of 64 bytes among them; a proof route over six blocks, one reorganisation and one fault (1.7M states) | `CanonicalWithinPeriod`, `ShallowForkNotStuck`, `DeepBlocksStay`, `DifficultyFollowsOwnBranch`, `TargetsAreExact`, `InclusionIsExact`, `ServedProofVerifies` |
| `spv_stale_index` | the retarget tree with one block more | finding: `CanonicalIsBestChain` fails |
| `relayer` | header passes over four heights with a reorganisation next to the watcher's task; one position that can be signed and one that never can; one burn of each kind with two broadcasts and a revert; one crash each (173k states) | `NoCallWasted`, `HeadersCatchUp`, `RepaymentsKept`, `PromiseKept`, `ReleasedOrStuck`, `RetryingEnds` |
| `services` | two burns that nothing tells apart, a cap of one and one crash; an archive of three events with a lost disk; three tabs of two accounts at the faucet; two depositors of the vault; two clients of the API; three operations of a loan; one browser and an owner elsewhere (2.6M states) | `CapHolds`, `MintsAreTrue`, `ArchiveIsWhole`, `ClaimsAreBounded`, `VaultsAreServed`, `StatusIsTruthful`, `OnboardingIsTrue` |
| `app` | two tabs, two Bitcoin transactions, two signed calls, one closed tab or aborted tracker; a position with two calls, one unit of interest and one fault (2.6M states) | `OrphanedOnlyByRace`, `SecondCallOnlyByRace`, `NoConfirmedTxForgotten`, `RepayAllCloses` |
| `pages` | seven pages, see the bounds (1.2M states) | `PageIsHonest`, `PageCatchesUp`, `OffersAreTaken`, `SpentTwiceOnlyIfUnsure`, `DeliveryIsFollowed`, `FundsAreHonest`, `WalletsAreKept`, `DepositIsOrderly` |
| `cctp_dropped` | one burn, an app that keeps asking | finding: `AskedAgainArrives` fails |
| `archive_incomplete` | an archive file that may lack events | finding: `AcceptedFileIsProven` fails |
| `repay_all_cents` | a debt with half a cent | finding: `RepayAllSendsDebt` fails |

### Bounds

- Lending: the scales are 10 instead of 10^12 and 10^4, so that every division
  rounds visibly within a few calls; amounts 3 and 7 do not divide each other or
  the indices. Two lenders are what fairness needs, two positions what the
  per-position rounding needs, two ledgers what a second accrual on a rounded
  result needs. The theorems lift these bounds.
- SPV: a reorganisation limit of 2 with branches of 2 and 3 blocks puts both
  sides of the limit in reach; a period of 4 blocks puts a retarget one block
  below the checkpoint. The stale index needs a longer, a heavier and again a
  longer branch, which the fourth block on the slow branch gives. Proofs take two
  confirmations of a final depth of three, so shallow and deep proofs are both
  cached and reorganised around. The proof route starts before the
  transaction is sent or two blocks later. One transaction of 64 bytes is the pair
  of two hashes that are on no leaf (`OneShort`); proofs are up to one node longer than
  the block's tree.
- Relayer: one fault (a failed read, a lost answer, an expiry or a crash) can happen
  at any step; two retries and
  one row per sweep make exhaustion and head-of-line waiting happen. A header pass
  starts one block below the tip and Bitcoin replaces up to three, so both sides of
  `REORG_RESUBMIT_DEPTH` are reached.
- Services: a cap of one is raced for by two burns; three tabs are the least
  that can collide on an account and on the limits of the address at once; three
  events leave one behind a cursor, one at it and one after it. At most one event
  falls out of the RPC's window (`MaxRetired`); four requests against a limit of two
  (`MaxRequests`) fill a window and meet the next.
- App: two tabs and two transactions are the least that can overwrite
  each other. The properties of `DepositFlow` claim nothing after a race for the slot (`raced`),
  so those states are not expanded. `MaxIndex` bounds the indices, which two
  tabs that keep cancelling would raise for ever. One unit of interest is
  enough to fall between the debt shown, the debt read and the landing.
- Pages: two overlapping status reads; a debt, a price, a pool, the room under the
  cap and a balance of which one moves once; a call, its allowance and a fault; two accounts, two tabs,
  two keys and purses of up to four coins; two Bitcoin keys and three acts of the
  user on the deposit page, which are enough for an account that changes under a
  prompt while the other tab sends (five acts were checked apart from the run).

`CHECK_DEADLOCK FALSE` throughout: contracts may simply not be called, and the
bounded counters end the others.

### Fairness

- `RepayWatcher`: the loop runs on a timer and every network call has a timeout
  (`Step`), a queued transaction lands or expires (`Network`), back-off ends, and
  polls reach the log's end again and again (strong fairness: the RPC may fail, not
  for ever). Publishing may fail every time; then the row ends up stuck.
- `HeaderSync`: passes run on a timer, each await ends, a queued call lands or
  expires, and the other task goes on. Faults are finite.
- `CctpRelay`: a job's awaits end, the sweep's timer keeps firing (strong
  fairness of `retry`, since a due record can be taken by a request instead), a
  broadcast is mined or dropped, and clocks advance. No service is assumed to
  answer well. `cctp_dropped` additionally gives the app and every service all
  the patience one could ask for, so only the relay's own logic holds the
  transfer back.
- `LoanScreen`: a visible page polls on a timer and each read in flight ends, well or not.
- `Receive`: the page polls the relay until it settles, and the relay works on
  what it was given (which `RetryingEnds` shows of it).
- The other modules state no liveness.

## Findings

1. `lend_rounding`: `lib.rs:388` says a withdrawal of the whole displayed value
   "can never fail on rounding". Debts round down per position and
   `total_borrowed` once on the total, so a few stroops stay borrowed after every
   loan is repaid, and the whole value exceeds what is available.
2. `spv_stale_index`: `get_canonical_hash` promises the most-work chain's block.
   After a shorter, heavier branch and the return of the longer one, the walk
   back stops at a stale entry above the shorter tip, and lower heights keep the
   abandoned branch. Inside one difficulty period this cannot happen
   (`CanonicalWithinPeriod`).
3. `cctp_dropped`: a mint that Base Sepolia drops is waited for in every later
   attempt, after "ask again to start over" as well; it is never sent again.
4. `archive_incomplete`: `rebuild.ts:8` says a source of events "is either proven
   by the chain or rejected". The checks ask only about what the replay names, so
   a file that leaves out a settled position is accepted, and a repayment in it
   never gets its release.
5. `repay_all_cents`: `repay.ts:40` says "Repay all" sends the debt shown. The
   field holds cents, rounded down, so a debt with a part of a cent is repaid up
   to it and the loan stays open.

### Observations

Behaviours the models show that no document promises otherwise:

- In `DepositFlow` the two comments the properties quote (`pendingDeposit.ts:4`,
  `deposit.ts:421`) hold up to the races they name. Those races exist: two tabs in
  the wallet at once overwrite each other's slot (`deposit.ts:275`), a late
  finalizer clears another deposit (366), and a tracker that read an expired hash
  erases a newer one (408).
- A header call of an earlier pass may land after that pass ended and make the
  next one empty; after a reorganisation deeper than `REORG_RESUBMIT_DEPTH` no
  pass submits the missing parents.
- A call that timed out is rethrown, and the page's catch reports `failed`, which
  `reduceFlow` takes for the reconciled outcome: the `timed_out` phase, and with
  it "Don't send it again" and the hidden form (`parts.tsx:674`, 810), never stays
  on screen. The error text still says it. A swap or burn that was not answered
  in time is offered again in the same way.
- A "Finish deposit" that succeeds shows no Done page, because `needs_attention`
  is terminal and the tracker's `settled` is ignored. A failed save of a pasted txid leaves
  the flow preparing, and the review shows "Getting your deposit ready" until a
  reload. When another tab finishes a deposit, this tab's review keeps `sending`
  and its readiness checks are bypassed. So are they by an aborted tracker: it is
  told to stop, but emits until its next sleep (`deposit.ts:316`, 346), after the
  page was reset for the new account (`useLiveJourney.ts:116`), and a flow in flight
  after a send counts as sending (386); the same events can put "Getting your
  deposit ready" on a page with no run. The review's "Try again" for the
  timelock cannot be reached: a failed tip read keeps the page on the Bitcoin step.
- Events of a registration are shown on the page of whichever account is
  connected when they arrive; the Bitcoin balance is not read again after "Make
  another deposit".
- The receive step remembers in its own state that the USDC was swapped or burned.
  A disconnect unmounts it (`LoanView.tsx:101`) while the page's borrow flow and
  choice stay, and a sign-in on the page mounts it afresh (164): the same sum is
  offered again, and only the wallet's balance stands in the way.
- The borrow panel reads the loan, the price and the pool's liquidity; a pause, an
  old tip, a near timelock and the exposure cap (`writz-lend/src/lib.rs:443`-479)
  are found out by the simulation. The Lend page likewise does not read a pause of
  deposits or that an amount is worth less than one unit (322-334).
- Any repayment marks the guide's milestone, one of a part as well
  (`useLiveLoan.ts:193`), so the guide may offer to release a loan still in debt; the
  loan page then offers to repay it.
- The account is read when a signature is asked for (`WalletProvider.tsx:254`, 283):
  a user who leaves the wallet and connects another of the same kind under a flow
  is asked to sign the first account's flow with the second's wallet.
- `verify_transaction` checks the length of the claimed transaction, not the proof's
  length against the tree, so its claim rests on the other leaves of the block not
  being 64 bytes long either; Bitcoin's relay policy does not pass such transactions on.
- After a logout that was lost, the custodial session stays alive in the browser
  although the page shows nobody signed in (`stranded`); `usePolledValue.ts:8` says
  that a failed poll never blanks a number, and a late failure of a key the page has
  left blanks it until the next poll (86-90); a Max taken before a poll leaves the interest of that poll behind.

## Proofs

The theorems hold for all values of the constants that satisfy the named
assumptions, which every run evaluates. A component's module states those of its
own constants: positive scales, shares between zero and one, integer inputs,
finitely many users and what `__constructor` checks (`WritzLend`); a base that is
even, at least three digits, positive periods, a limit target that fits the
numbers after a retarget multiplied it (`Difficulty`, `BitcoinSpv`); batches
longer than the part of the chain sent again (`HeaderSync`); finitely many tabs,
transactions and transfers, and values that are not mistaken for `None`. The `MC`
modules name the rest: `FaucetAssumption`, `ApiAssumption`, `VaultAssumption`,
`StatusAssumption` (limits and page sizes that `config.ts` accepts, distinct genesis
events), `PanelsAssumption` (a cent has more than one stroop, the borrow limit
asks for at least the debt in collateral), `FundsAssumption`, `JourneyAssumption`,
`WalletsAssumption`, `LoanAssumption`, `ProofAssumption`, `BoundsAssumption`
(types of inputs). Two theorems have a hypothesis of their own:
`ArchiveStaysWhole` takes `FilesComplete = TRUE`, without which finding 4 refutes
it, and `InclusionStaysExact` takes `LeavesAreNoPairs`, that no transaction of
another length than 64 bytes and no foreign hash is the hash of 64 bytes: hashing is
free of collisions. Blocks with 64-byte transactions are among those it is about,
and excepted by the property itself.

Each component has an inductive invariant (`Inv`, or named after the component), a
lemma per action or group of actions that it is kept, and `Init`, `Next` and the
property combined in the last step. A theorem about an `MC` module's `MCSpec` says
`part = "x" => XInv` of its part, so the constants of the component stay arbitrary
and only the composition is the one that TLC runs.

| Theorem | States | Run |
|---|---|---|
| `TypeCorrect`, `PoolSolvency` | `TypeOK`, `Solvent` always | `lend_pool` |
| `ClaimsAreCovered` | `ClaimsCovered` always | `lend_pool` |
| `LendersFair`, `DebtsPaidDown`, `PositionsFinal` | `FairShare`, `DebtFallsOnlyByPayment`, `PositionsEndForGood` | `lend_pool` |
| `LoansLeaveExitFarAway` | `LoanLeavesExitFarAway` | `lend_full` |
| `CashCoversExits` | `CashCovers` always: the history-dependent part of `ExitsStayOpen` | |
| `IndexIsBestChain`, `DifficultyIsItsOwn`, `ShallowForksResolve` | `CanonicalWithinPeriod`, `DifficultyFollowsOwnBranch`, `ShallowForkNotStuck` always | `bitcoin` |
| `DeepBlocksAreFinal` | `DeepBlocksStay` | `bitcoin` |
| `TargetsStayExact`, `InclusionStaysExact`, `ProofsServedVerify` | `TargetsAreExact`, `InclusionIsExact`, `ServedProofVerifies` always | `bitcoin` |
| `NoSilentEviction`, `NoEmptyBatch`, `NoCallIsWasted` | `EvictedOnlyAfterLostAnswer`, `NoEmptyCall` and their conjunction `NoCallWasted` always | `relayer` |
| `RepaymentsAreKept` | `RepaymentsKept` always | `relayer` |
| `WatcherKeepsPromise` | `PromiseKept`, the refinement of `Release` | `relayer` |
| `CapNeverPassed` | `CapHolds` always | `services` |
| `LockIsExclusive` | `OneHolder` always | |
| `ArrivalsAreMints`, `NoKnownRedundantMint`, `InFlightIsWorkedOn`, `MintsStayTrue` | `LinkIsTheMint`, `RedundantOnlyIfUnsure`, `OpenHasJob` and their conjunction `MintsAreTrue` always | `services` |
| `ArchiveStaysWhole`, `ClaimsStayBounded`, `VaultIsServed` | `ArchiveIsWhole`, `ClaimsAreBounded`, `VaultsAreServed` always | `services` |
| `StatusStaysTruthful`, `OnboardingStaysTrue` | `StatusIsTruthful`, `OnboardingIsTrue` always | `services` |
| `DepositsAreRemembered`, `OneCallAtATime` | `OrphanedOnlyByRace`, `SecondCallOnlyByRace` always | `app` |
| `ConfirmedIsRemembered`, `FullRepaymentIsTrue` | `NoConfirmedTxForgotten`, `RepayAllCloses` always | `app` |
| `PageStaysHonest`, `OffersHold`, `SpentOnce` | `PageIsHonest`, `OffersAreTaken`, `SpentTwiceOnlyIfUnsure` always | `pages` |
| `DepositStaysOrderly`, `FundsStayHonest`, `WalletsStayKept` | `DepositIsOrderly`, `FundsAreHonest`, `WalletsAreKept` always | `pages` |

**The pool.** `Solvent` speaks of figures accrued to the current ledger and is not
inductive: a step sees stored figures. `Inv` is types, both indices at
least `INDEX_ONE`, and `StoredSolvent`, solvency of the stored figures. The
argument has three parts. `AccrualSolvent`: accruing any interval keeps
solvency, because the index step credits lenders at most the interest less the
fee (`IndexStepCredits`). `AccountingKeeps`: a call that accrues and then moves
totals keeps `Inv` if the new totals are covered; `MintCredits` and `BurnDebits`
bound what supplying and withdrawing do to the rounded total. Each call then has
a lemma of its own. All nonlinear arithmetic rests on a few lemmas on integer
division at the top of the module. `PositionsFinal` adds `EndedOwesNothing` to
`Inv`: a position that ended owes nothing, which a step that leaves it alone has to know.

The second half of the module sorts the steps into lenders' calls, calls that move debt,
and the rest (`StepKinds`). A call accrues and leaves both accrued indices where
they were (`AccruedIsNow`); any other step only lengthens the interval, and a longer
interval never lowers an index (`LongerInterval`). `DebtsPaidDown` needs
`DebtsSound` besides: no position was touched at an index ahead of the stored
one. `LoansLeaveExitFarAway` needs `SettingsBounded`: no order of setters takes the
margin or the tip's age out of the bounds the constructor and the setters check.
For `ClaimsAreCovered` the invariant is `SharesAddUp`: the scaled balances add up to
`total_scaled_supply`. `NumberFacts` first shows that the sum of the community
modules exists for every finite set and what it does when one term changes
(`TotalChanges`); `TotalOfShares` then says that shares rounded down one by one
add up to no more than the whole rounded down.

**The light client.** `Inv` says that the stored headers are a tree from
the checkpoint (`Tree`), each with the difficulty its parent asks for, that the
best tip is stored and, while all blocks weigh the same (`Same`), that it is the
heaviest and the index is its own chain. `BatchGrowsTree` takes
`submit_headers` one header at a time; `ForkIs` says where the walk back stops;
`HeavierIsHigher` turns work into height inside one period. Outside it the index
claim fails, which is the finding of `spv_stale_index`, so the hypothesis is needed.
`DifficultyIsItsOwn` has no such hypothesis.

**The account lock and the header sync.** `LockInv` says that the promise chain
holds each task once and runs only its first (`Exclusive`), and that whoever's call
is queued still waits for it unless a task was cut short (`Watched`): so a task
that sends finds the queue empty (`NotItsOwn`). `SyncInv` follows a pass: a batch
is one header of each height from its first on, the contract's tip is the highest
of the headers it holds, and what the pass is about to pay for ends above that tip
or is a known tie (`Ahead`, `Worthwhile`). That needs batches longer than the part of
the chain a pass sends again, 16 against 6 in the code (`SyncAssumption`): with
shorter ones a first batch could hold nothing new.

**The repay watcher.** `Inv` adds to `NoRepaymentLost` and
`PublishedTwiceOnlyIfUnsure` that only repaid loans are worked on (`OnlyOwed`) and
what the process knows of its queued call (`Watched`): a call queued without being
watched is one of an attempt that ended too early. The refinement maps `owed` to
the repaid loans of the log and `released` to the published ones; `PositionEnds`
is the abstract repayment, a landing call the abstract release, everything else a stutter.

**The CCTP relay.** `Inv` states `Sound` for one burn at a time: its
record, its job's step, its broadcasts and who spent its nonce fit together, so
that a step of one burn leaves the others alone (`OneTransferMoves`).
`InFlight` is why no second mint is sent: short of a lost answer the relay knows
its only broadcast in flight, wherever the job stands. `Exclusive` ties the lock
to the head of the queue, and `UnderCap` says that the count read before a broadcast is
still below the cap, since only the lock's holder adds to it.

**The deposit flow.** Each runner works on a copy of the pending deposit that
may be old. `Books` says the slot knows every `deposit()` call that may still
land, and `Knows` what the action of a tab may rely on at each of its steps;
both hold until a tab overwrites or overlooks what another had written (`raced`).
A step that changes the slot keeps them if it fits (`Fits`): it patches the
same deposit and forgets only a hash whose call is over, empties the slot once
the position is read, or fills an empty one.

**Positions.** `LoanInv` relates the ledger to what a trailing node shows of it
(`LedgerInv`): a repayment that left nothing ended the loan, and every read of
its ledger or a later one says so. `RunInv` carries that through a run that reads
and repays again, `ToldInv` to the report; `NoConfirmedTxForgotten` is inductive beside it.

**Merkle and difficulty.** `InclusionStaysExact` first shows what the recursive
functions are: each level of the tree halves the one below (`LevelsShrink`), and an
inner node is the pair of its two children (`NodeIsPair`). `ClaimInv` follows the
verifier's loop: if what it stands on is a node of the tree, the claimed id is a
node as many levels below as the loop has climbed (`Stands`), and since the check
of the length leaves no claimed id that looks like a pair, that level is the
bottom, unless a leaf is itself a pair; an honest path goes up from ancestor to ancestor (`OnPath`). `TargetsStayExact`
computes the compact form of any target: the bits with exponent e stand for
`m * BASE ^ e / BASE ^ 3` rounded down, `digit_count` gives the least exponent
whose leading digits fit (`LeadingFits`, `EncodingIs`), and a larger mantissa or
another exponent stands for more than the target or is not representable. It
holds for every even base and every width of at least three digits, the code's
256 and 32 among them.

**The proof route.** `ProofInv` says that blocks are used once (`ChainIsPlain`), that
the light client's known tip never exceeds its chain (`ClientGrows`), and that what an
undisturbed build has read is still so (`BuildIsTrue`), as is what is cached: a
proof kept for an hour is below the depth a reorganisation reaches (`ServesTrue`).

**The services.** The archive's `ArchiveInv` says that archive, main copy, file
and the rebuild's store each hold exactly the log up to their cursor (`Whole`) and
that every repayment behind the release table's cursor is released or a row;
`RebuildInv` adds, step by step, that the rebuild has released or noted every
repayment it has seen. For the faucet, `CheckStands` is the point: what was
checked on taking the lock holds until the claim is recorded, since the lock is
held (`SendLocked`) and a new day only frees limits; `PayoutsCounted` and `CoinsInv`
name what a restart or an unknown broadcast may break. `VaultInv` ties rows,
cursor and the cycle under way to the log; a crash or a failed insert leaves the
cursor where the rows are. `LimiterInv` counts what the window before may add
(`FewBefore`), which gives `2 * limit - 1` for any window's length, and `AlertsInv`
that a streak is as long as the answers say. `StatusInv` says of each computation
that what it has read so far was so and stays so (`GotInv`), in a world that only
goes on (`WorldInv`), over an index that lacks only what left the RPC's window
unseen (`IndexInv`). With keys other than the timeline's the model's log holds the
deposit alone (last conjunct of `WorldInv`), so one walk of the index reaches its
tip, and the theorem says nothing of deposits whose event lies pages back.
`FunnelInv` says what evidence each verified row has.

**The pages.** `ScreenInv`: each read was true when made (`WasTrue`), so what is
derived from it has been reached, whatever order reads are applied in.
`ReceiveInv`: what spends is what the step on the page waits for or has seen done,
until `unsure` or `forgot`; a run that a disconnect left behind is the only other
one that may sign, and then the step was forgotten with it. `PanelsInv` is small, and the work is in the arithmetic: the app divides
once where the contract rounds the value of the collateral first, which is why the
last stroop of the headroom is excepted. `FundsInv`: what is shown and what
answers will come carry today's nonce and were read after every transaction of
their account (`NumbersAreNew`). `JourneyInv`: what was read was so and is unless this
page paid from the wallet since (`ReadsWereTrue`), and who is alone on an account
has one run, for the connected wallet (`RunsInv`); its proof showed which changes
of the account, and which news of an aborted tracker, have to count as `crossed`. `SessionInv` and `KeyInv`: a key that is
used is in the browser, in a backup, or was overwritten by a restore
(`Held`), and belongs to the account it is used for (`TabFits`). A payment is
exact for every purse, since taking coins by rank adds up (`AddsOnPart` of `NumberFacts`).

**Only model-checked.** Liveness (`HeadersCatchUp`, `ReleasedOrStuck`, `RetryingEnds`,
`PageCatchesUp`, `DeliveryIsFollowed`), which needs fairness, and `ExitsStayOpen`, which
uses ENABLED; what of it depends on history is proved as `CashCoversExits`. The
properties that the findings refute are, of course, not proved.

## Not modelled

- Byte-level parsing, scripts, PSBTs and signatures (`spv-types`, `bitcoin-script`,
  `writz-spv-client`), entry lifetimes and rent, generated clients and the SDK.
- Third-party services, except for the answers they may give; failing writes to
  the local database; start-up and configuration of the relayer.
- Views that only render (home, activity, protocol, landing, reclaim), and the
  wording of errors and statuses everywhere.
- Of modelled components: the per-tab lock used where the browser has no Web
  Locks and the lock announcements (`DepositFlow`); the suggested amount and the
  "too close" hint (`Journey`); quotes and paths (`Receive`); the balance check
  before a header call (`HeaderSync`); the Xverse provider (`TestKey`); what DeFindex
  answers (`VaultApi`).

## State of the project

Every module of the original plan is written and checked, and every safety
property that a run checks is proved but for `ExitsStayOpen`. What remains is
outside the models: the components listed above, and the two hazards no property
covers (a Bitcoin reorganisation deeper than a header pass goes back; a timed out
call that the page reports as failed), both described under the observations.
