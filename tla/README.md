# A TLA+ model of LFG's money-moving core

LFG is an NFT platform on the XRP Ledger. Users mint, swap and trade characters
and traits; a fungible token, BRIX, is accrued by holders, paid out by a
distributor wallet and spent in a peer-to-peer order book, the Closet Market.
One aiohttp service (`src/lfg_service/app.py`) runs everything that moves money.
This directory models that core in TLA+: what TLC has checked on small
instances, and what TLAPS has proved for every size.

## Inventory of the system

| Part | State it keeps | Operations | What is hard about it | What makes it correct |
|---|---|---|---|---|
| Backend transactions (`lfg_core/xrpl_ops.py`) | nothing durable; the row's `pending_phase`, `pending_lls` | sign and submit with a pinned LastLedgerSequence, confirm, scan by memo | unknown outcomes, lagging servers, crashes around each step | a phase succeeds at most once; none that may land is forgotten |
| Closet Market book (`closet_market_store.py`) | `closet_orders`, `closet_fills`, `closet_assets` | create, cancel, cross, fill, claim, abort, move, mark mirrored; each one sqlite transaction | promised units stay in the Closet; two buyers race for one ask | no unit promised twice; an order is sold once |
| Closet Market settlement (`closet_market_flow.py`) | `pending_*`, `*_hash` columns; escrows on the ledger | `advance_bid`, `settle_fill`, called inline and by a 2-minute sweep | interleaved passes, expiry, escrow finish racing cancel, refunds of several steps | money in equals money out for every ended fill and bid; everything ends |
| BRIX accrual (`brix_drip.py`, `scripts/accrue_brix.py`) | `brix_accruals`, the cursor in `brix_meta` | nightly walk over the closed epochs | missed, deferred, interrupted nights | no epoch skipped, none early |
| BRIX claims (`brix_drip.py`, `app.py`) | `brix_claims`, `brix_accruals.claim_id` | open, pay, record, settle, recover | overlapping requests, recovery beside a live service, late outcomes | no accrual paid twice; confirmed means paid |
| Endpoint failover (`xrpl_rpc.py`) | cooldowns, in memory | one request to the first endpoint that answers | two requests see two servers | (its consequence only) |
| Owner locks (`owner_lock.py`) | one lock per owner, order or fill, in memory | serialise a read-modify-write | lost at a restart | one driver per row |
| Closet token, mirror and listener (`closet_token.py`, `economy_store.py`, `nft_listener.py`) | the Closet NFT's contents; its mirror `closet_assets`, with URI, stamp and pending flag in `closet_tokens`; the archive | overwrite the token from the mirror, rebuild the mirror from a version | two processes; versions late, unread, undated or never applied | the mirror is the version it names; no version known to be there is overwritten |
| Trait economy (`economy_flow.py`) | sessions in memory, journal files | harvest, assemble, equip, extract, deposit | an irreversible step, then a full overwrite that may fail, be unknown or lose its mirror; compensations that fail too | no trait lost or doubled unless the journal says so |
| Fee cover (`fee_cover*.py`, `app.py`) | `fee_cover_campaigns`, `_quotes`, `_promises`, `_refunds`; bid sessions in memory | quote, promise, release, fill, claim, pay, recover, requeue | the archive lags the ledger; poll, sweep, startup recovery and an operator's script overlap; restarts | no refund twice; no sold bid released; each quote answered; the budget checked wherever it is spent |
| Sponsored mint, burn (`sponsored_*.py`, `app.py`) | `free_mint_claims`, `free_mint_burns`; mint sessions in memory | reserve, rebind, release, journal, forward, record; lease, burn, reconcile, retire | sessions of one wallet overlap; an outcome unknown at a restart; leases that lapse; scans that lag | one free mint per wallet; its debt burned exactly once |
| Mint, bulk mint (`mint_flow.py`, `bulk_mint_flow.py`, `app.py`) | sessions in memory, job records on disk, `payment_ledger`, `mint_credits` | admit, await and claim the payment, cancel, mint each unit, offer it, credit it, resume | restart between any two writes, writes that fail, unknown mints, cancel racing the payment | a claimed payment is never dropped; a unit is settled once |
| Headroom (`headroom.py`, `supply.py`) | `headroom_reservations`, `headroom_pending`; the listener's index | reserve, release, retire a slot to pending, rebuild | the index lags the ledger; counts come from two databases | no more tokens than MAX_COLLECTION_SIZE |
| Swap (`swap_flow.py`, `nft_index.py`, `app.py`) | sessions in memory; the swap journal; `onchain_nfts` | await the fee; mint replacements, modify in place, burn the originals, offer | a failure after any step is compensated, and compensations fail too; two sessions on one token; an index behind the ledger | one token of an edition in the owner's hands; traits neither copied nor lost; the journal tells what happened |
| Market, shop, burn-to-mint | sessions, orders | offers, paid orders | payment and delivery apart | nobody pays twice |
| Listener, history, epoch replay | `onchain_nfts`, `nft_events` | ingest, replay | gaps and ordering | the replay equals the chain |
| Surfaces, configuration, art, deployment | - | thin clients, pure functions, scripts | - | - |

How they interact: a surface calls the service; the service writes a row, the
user signs a transaction in a wallet, or the service signs one itself; a sweep
(`_settlement_sweep_loop`) picks up every row that needs attention. All
durable state is sqlite. Everything in memory (locks, tasks, jobs) is lost by a
restart. The ledger is read through several public endpoints that may lag each
other.

## Modules

| Module | Models |
|---|---|
| `PinnedTx` | the write-ahead protocol of one backend transaction |
| `OncePayment` | the abstract promise `PinnedTx` implements |
| `PinnedTxProofs` | proofs about `PinnedTx` |
| `BrixAccrual` | the nightly accrual and its cursor |
| `BrixClaims` | claims, payouts, recovery |
| `BrixProofs` | proofs about `BrixAccrual` and `BrixClaims` |
| `ClosetBook` | every transaction of the book's store |
| `ClosetMarket`, `MCClosetMarket` | both settlement machines over the book; the instance for TLC |
| `ClosetMarketProofs` | proofs about `ClosetMarket` |
| `FeeCover` | a covered bid from its quote to its refund |
| `FeeCoverProofs` | proofs about `FeeCover` |
| `Headroom` | the store of reservations, and what its callers owe it |
| `Minting`, `MCMinting` | single sessions and bulk jobs over that store; the instance for TLC |
| `MintingProofs` | proofs about `Headroom` and `Minting` |
| `ClosetToken` | one owner's Closet token, its mirror, the flows, a fill, the listener |
| `ClosetTokenProofs` | proofs about `ClosetToken` |
| `MCRows` | `ClosetToken` and `BrixClaims` together, for TLC |
| `MCBackground` | `MCMinting`, `PinnedTx` and `BrixAccrual` together, for TLC |
| `SponsoredMint` | one wallet's free mint, its recovery, and the burn of its debt |
| `SponsoredMintProofs` | proofs about `SponsoredMint` |
| `Swap`, `MCSwap` | swap sessions, the ledger's tokens, the index and the journal; the instance for TLC |
| `SwapProofs` | proofs about `Swap` |

### PinnedTx

A row's phase (say `forward`: pay the seller) is sent by this sequence. `Begin`
reads the validated index and commits `pending_phase`, `pending_lls`
(`_begin_fill_phase`, `_begin_order_phase`). `Submit` reads the index again, pins
`LastLedgerSequence` to the lower of the two deadlines and hands the signed
transaction over (`_submit_app_tx`). From then on it may validate in any ledger
up to that sequence, or never (`CloseLedger`). `Confirmed`, `Rejected` and
`Unknown` are the three verdicts of `_apply_fill_outcome`; `NotSubmitted` is
`TxNotSubmitted`. An intent found on a row goes through `ReadIndex`, then one of
`ScanLanded`, `ScanAbsent`, `ScanWait` (`_phase_outcome` and
`_resolve_fill_phase`): the index is read before the scan, the scan starts
`Slack` below the deadline, and raises unless some page reached the deadline.
`Crash` may strike between any two of these. Cancelling a task does not stop a
submission already running in a thread; as the transaction joins `pool` when it
is signed, a late one is covered.

`validated` is the ledger's true index; every read returns some `Views` value,
which may lag by any amount. One driver runs at a time: the row's `owner_lock`.

### BrixAccrual

`JobStart` computes the epochs owed, `JobWrite` commits one epoch's rows,
`JobAdvance` commits the cursor, `JobDefer` is an epoch that the archive cannot
certify or of whose tokens too many have unknown listing state. `closeState` is what each epoch's close
really looked like. Simplifications: eligibility, system accounts and owner
drift only choose the set of payable tokens, which is an input; the very first run (no
cursor: yesterday only) is the cursor's initial value.

### BrixClaims

`ReadProvisional` to `SettleOutcome` follow `_claim_one_wallet` step by step,
several requests at a time; `RecoverIndex` to `RecoverSettle` follow
`_recover_from_chain`, whose list of open claims and the one `recover` selects
are two reads. `record_submission` and `settle_claim` write whatever state the row is in;
the model keeps that, and the unique index that may refuse it (`IndexAllows`).
A claim's amount is the number of rows it binds.

### ClosetBook and ClosetMarket

`ClosetBook` has one operator per function of the store, on one trait key: the
order and fill rows (`asks`, `bids`, `fills`), the units each owner holds
(`held`), the owners whose Closet is active. Prices are small integers, the
oldest order is the one with the lowest id. `ClosetMarket` adds the ledger (`escrow`,
`signed` by users, `tx` per backend tag, `clock` relative to each bid's
CancelAfter), the position of each driver (`job`), the endpoints' handlers
(`PlaceAsk`, `WithdrawAsk`, `PlaceBid`, `WithdrawBid`, `SellIntoBid`, `BuyAsk`), and
the sweep's two machines:
`BidStep` (`advance_bid`) and `FillStep` (`settle_fill`), which share `Begin`,
`Submit`, `NotSubmitted`, `Confirmed`, `Rejected`, `Unknown` and `Resolve`.

Composition by contract: inside `ClosetMarket`, `Resolve` concludes "absent"
only when no transaction of the tag can land any more. That is what
`PinnedTxProofs` proves of the detailed protocol (`AbsentIsTrue`), so the ledger
indices are not repeated there. The same holds of a user's transaction:
"absent" needs its own deadline to have passed (`_reconcile_escrow`,
`_reconcile_invoice`), which is `signed = "dead"`.

`clock` has four zones, cut where the code compares times: before the finish
guard (300 s before CancelAfter), inside it, past CancelAfter, and past the 60 s
slack. In the third zone the ledger's own time may still be before CancelAfter, so both an
EscrowFinish and an EscrowCancel may succeed.

Left out: rows that predate `user_lls`; a fee that leaves nothing to forward;
several trait keys (they share nothing but the live-bid rule, which is per
key); a second payment to the same invoice; the daily 24 h give-up of a take
fill with no lookup configured.

### FeeCover

`POST /api/market/bid` quotes a bid as covered (`QuoteBid`). Once the bid is on
the ledger, the status poll of its session (`AdvanceSession`) or the sweep's
reconciler (`Reconcile`, from the durable quote) writes the promise:
`Evaluate`, `RecordPromise`, `CloseQuote` are the separate steps of
`_fee_cover_record_promise`. A broker's sale of the bid appears in the history
archive (`Index`), and `Settle` turns the promise into a refund; a cancelled or
expired bid is released (`ReleaseCancelled`, or `Certify` and `ReleaseExpired`,
the two looks at the archive). The sweep claims the refund, sends its payout
and records the outcome (`ClaimForPayout`, `SendRefund`, `RecordPayout`,
`ReturnToOwed`); `RecoverRead`, `RecoverFound`, `RecoverAbsent` are
`recover_refunds`, run by the sweep and by the task `Beside`, which is the
startup recovery or the operator's script (`RequeueScan`, `Requeue`).

`clock` has the zones the code compares times with: before the bid's expiry,
past it, past `EXPIRY_RELEASE_MARGIN_SECONDS`, past the day after which a quote
is abandoned. `cursor` is the archive's validated time on the same scale. It
may pass a sale that is not derived yet, but not by the ten minutes of the
margin: the listener's own assumption, and the content of `FlushCursor`. Each
payout attempt is one transaction that lands or dies; that a scan past the
deadline is final is what `PinnedTxProofs` proves of the common protocol, here
with servers that do not lag.

Whatever only chooses between a promise and a decline (wallet cap, minimum bid,
system wallets, a listing sold meanwhile), or between a refund and a decline
(who the broker was, royalties, linked wallets), is a choice. Left out: promises
made without a quote, bids without an expiration, recorded continuity gaps (the
cursor then stays).

Two limits seen while modelling. `update_campaign` may lower a budget below
what is committed, so `audit_violations` can report a campaign that pays more
than its budget although every check was made. And a promise written before a campaign
stops may leave its quote closed as "uncovered" (the write of the quote failed,
and the repeat met a stopped campaign); the promise is honoured all the same.

### Headroom and Minting

`Headroom` has one action per transaction of the store: `TryReserve`, `Release`,
`DropSlot` and `ReleaseOne`, `Retire` (a slot becomes a pending row named by its
token), `Rebuild` at a restart. `Available` prunes the pending rows the index
has caught up with and counts slots, pending rows and index. The guards of
`HeadroomNext` are the contract of its callers: mint only against a slot, keep a
slot until its token is pending.

`Minting` is the code of the callers, and `UsesHeadroomWell` says that every
behaviour of it is one of `HeadroomSpec`: a refinement, by which the theorem
`CapHolds` of the abstract store carries over (`CapHoldsForMinting`). One action is what the event
loop runs between two awaits: `Insert`, `Reserve`, `Prepared` admit; `Claim` is
`wait_for_payment`'s commit of the claim and `WaitReturns` what follows it;
`CancelCheck` and `CancelCommit` are the two halves of a cancel; `Submit`,
`MintConfirmed`, `NoMint` mint a unit; `Offer`, `Credit`, `EndSession`, `Finish`
settle it; `Restart` loses `mem` and resumes what `disk` holds. Each write that
may fail (`persist`, the store's transactions) fails as a fault. `lost` records
that a caller lost track of a unit: an unknown mint taken for a failure (finding
2), or a restart from a record that was behind.

`MCMinting` cuts the interleavings in two ways that hide nothing. A session
whose next step reads and writes only its own state takes it at once; and the index
moves only while somebody may still reserve, as nothing else reads it.

Left out: sponsored sessions, burn-to-mint jobs, `_expire_abandoned`, payments
that arrive after their record is gone, `record_refusal`, a signer other than
the payer, `regenerate_payment`, the buy-and-burn of the proceeds, and the lock
that allows one active job. One hazard stays outside: a `retire_to_pending` that
fails and a job that ends release the slot of a minted token that is not
indexed yet; the comments accept that undercount, and `lost` excuses it.

### ClosetToken

`chain` is the sequence of the token's versions, `mirror` what the database says
of it: contents, the version its URI names, the stamp, the pending flag. A flow
(`Harvest`, `Assemble`, `Equip`, `Extract`, `Deposit`) checks the mirror
(`Usable`: no flag, not `Behind` the archive), does its step on the character or the
trait token (`StepConfirmed`, `StepFails`, `StepUnclear`), and overwrites the
token with `Contents` (`Submit`, then `SyncConfirmed`, `SyncUnclear` or
`SyncFails`). `Undo` is the modify-back or burn-back, `Mark` the flag
of a modify whose mirror write failed or that came back undated. `journal` keeps
each flow's last record. Modifies in the air (`flying`) land in the order they were sent, or die:
one account signs them all. `Promise`, `MoveAsset`, `MirrorFill`, `Settle` are one fill
of the Closet Market seen from this owner, who sells or buys. The listener, another process,
judges a version (`Read`, with `Verdict`), then writes (`Apply`): `closet_mirror_write` takes the write
lock only with its first DML, so the service may commit in between. `Settle` is the five minutes of
`MIRROR_SETTLE_SECONDS`, wherever the listener is by then. `Archive` puts it into
the history, which after an outage may also happen without it ever being applied.

One owner, one character with one slot, units told apart, and one fill are
enough for the properties, which speak of one Closet. The order of versions is
that in which they validate. Left out: the delivery offers of a minted trait or
reminted character (`minted_no_offer`, `reminted_no_offer`), which do not touch the
Closet; deposits into another's Closet; `ensure_closet` and `confirm_accept`; the
operator's `backfill_economy`; the display block of orders. A character's own
index is taken to be current.

No guard of the model is missing in the code: flows start off an archive that lags, sales are made off
any mirror, the listener's checks and its write are two steps. What the code says and these behaviours break is shown by three
violation runs (findings 4 to 6). What holds for all of them is `JournalIsTrue`. The other two
properties say from when on they no longer hold, in the history variable `slips`: "torn" when a write of the
listener is not the one that checks at that moment would have given (finding 4), "late" when a fill's five minutes
are over before the listener has applied its version. The second is about the environment: `has_recent_fill` counts on
the ledger's readers to catch up within `MIRROR_SETTLE_SECONDS`.

- `MirrorIsItsVersion`: without a slip, the mirror's contents are those of the version its record names, with
  the fill's move where the version is older. Flags, unknown outcomes and sales off a stale mirror do not
  break this; a mirror may be old, but it says which version it is.
- `KnownIsKept`: without a slip, no version is overwritten that the archive held or the mirror named when
  the flow or fill read the mirror (`knew`). That is exactly what the check of `ensure_mirror_current` can give;
  a version it could not know of is finding 5.

An archive that cannot be read skips the flows' check, which the code does on purpose and logs; the
model has no such action.

### SponsoredMint

`claim` is the wallet's row of `free_mint_claims`, `burn` that of `free_mint_burns`,
`mint` and `burnTx` are the signed transactions and what the ledger did with
them. A transaction is named by who signed it: mint `s` is the one session `s` prepared,
burn `b` the b-th one of the obligation. A deadline is a choice: what has not landed may expire
at any moment, and what landed may be past its deadline at any moment.

`Request` to `Admit` are the handler `handle_mint_start` as far as the claim goes, cut at its awaits:
the rule of one active session is per user and surface, so several sessions of a wallet overlap.
`LookForOrphan` reads the claim and the session that holds it, `Rebind` compares and sets it.
`Start` to `Offer` are `run_mint_session` and `mint_one_unit`: the signed mint is journaled
(`Journal`), then the claim becomes irreversible (`Forward`), then it is sent. `Fail` is any failure before that
boundary, with the release of the `finally`. `RecordMinted` writes the mint and its debt in one transaction.
`Crash` loses the sessions; `Recover...` is the startup sweep, which runs before the site serves:
`RecoverExpired` is `prove_expiry`, `RecoverReplay` sends the persisted transaction again, `RecoverUnclear` leaves
sponsorship off until the next restart.

A worker (`Worker`) leases the obligation (`Acquire`, or `Reclaim` when the lease of a dead one ran out),
signs and journals a burn (`PrepareBurn`), sends it, or reconciles what an earlier lease left: `Scan`, `ProveExpiry`,
`Rescan`. There are two: the service's and another process's. `LeaseLapses` lets a lease run out under a
worker that still works. A worker dies alone (`WorkerDies`), with or without the service.

Assumed, and a constant: `LookupsMayFail = FALSE` (finding 3). Left out: who is eligible (archive, device and funding
gates, the cap; a refused session is a paid one, modelled by `Minting`), the headroom of sponsored sessions, acceptance and its
replay from the archive, the projection of the NFT, offers found on the ledger, incomplete journals, the
self-issuer no-op, a scope mismatch, and a handler cancelled by its client.

### Swap

A token is an edition and its maker: `First`, or the session that minted it. `nft` is what the ledger says of
it: where it is, its trait, whether it was offered, which session burned it. `index` is its row in
`onchain_nfts`, `journal` the last record of each swap. A session's `items` are the `TraitSwap`
items with the traits computed at the start, `step` and `at` where its task is, `left` what an unwinding still has to do.

`Start` is the end of `handle_swap_start`: from its second `_active_session` check to the registration there is no
await, so the rule of one session per user and surface holds. The roster it takes the NFTs from was read a moment
before, and is taken as read there. `PreCheck` to `OfferOne` are the stages of `run_swap_session`, one action per
transaction with the code that runs until the next: `PaymentSeen`, `NoPayment`, `Cancel` end the wait for the fee;
`MintOne`, `ModifyOne`, `BurnOne`, `OfferOne` are its loops; `BurnStale` is the last look at an original that turns out
to be gone. `Proceed` chooses the next stage that has work and its journal writes (`Opening`, `Closing`), any of which may
fail silently (`behind`). `UnwindAll` is `_revert_modifies` with `_burn_replacements`, `BurnFails` the choice the code makes
between it and the partial end, `Rescue` the delivery of a half swap that cannot be undone. A transaction of
unknown outcome raises, ends the session, and may still land (`Land`). `Restart` loses the sessions, which nothing resumes.

`disturbed` is a history variable: it becomes true where a swap is known not to run to plan, and only `TraitsConserved` reads it.
`MCSwap` picks one of each pair of symmetric behaviours (sessions, surfaces, editions), lets owner and
listener move only while the second session has not begun, as nothing reads the index later, and takes the private
end of a payment wait at once unless a session starts meanwhile.

Left out: prices, art and the exact layers exchanged (a trait stands for all of them), the cross-body matrix,
`regenerate_payment`, offers found on the ledger after an unclear create (they count as created), a wallet that is the
issuer itself, transfers of the originals during a swap, the listing of the roster.

## Runs

| Run | Instance | What it shows |
|---|---|---|
| `rows` | claims: 1 wallet, 2 rows, 2 requests, 2 claims, 3 ledgers; Closet: 3 units, 2 flows, 1 fill, 1 fault | `NoDoublePay`, `ConfirmedIsBacked`, `PayoutHoldsRows`; `JournalIsTrue`, `MirrorIsItsVersion`, `KnownIsKept` |
| `background` | a bulk job of 2 units and a single session, room for 2, 2 attempts, 1 fault, 1 restart; or one phase: margin 2, slack 2, 6 ledgers, 2 attempts; or the accrual: 1 wallet, 3 tokens, 2 days | `NoOvershoot`, `PaidIsHonoured`, `SettledOnce`, the refinement `UsesHeadroomWell`, `PaidIsWorkedOff`; `AtMostOnce`, `NeverForgotten`, the refinement `PaysOnce`, `IntentResolves`; `AccruedBehindCursor`, `EveryEpochAccrues` |
| `closet_market` | 3 owners; two buyers race for an ask, two sellers for a bid, or an ask and a bid cross; 2 fills, 1 fault | `EndedBidIsHome`, `OneSalePerOrder`, `TerminalFillsAreBalanced`, `PayoutsAreFunded`, `PromisesAreHeld`, `OrdersEnd` |
| `fee_cover` | 1 bid, 2 budgets, 2 payout attempts, 2 faults | `PaidOnce`, `VerdictsAreFinal`, `SoldIsNeverReleased`, `QuoteTellsTheTruth`, `CoverIsHonoured` |
| `fee_cover_spanning` | 1 bid, 3 attempts, a recovery may outlive its claim | violation of `PaidOnce` (finding 1) |
| `minting_unknown` | a bulk job, an unknown mint | violation of `MintedOnce` (finding 2) |
| `closet_token_torn` | 3 units, 2 flows, no fault | violation of `NeverRolledBack` (finding 4) |
| `closet_token_unseen` | 3 units, 2 flows, 1 fault | violation of `NoLostUpdate` (finding 5) |
| `closet_token_sale` | 3 units, 2 flows, 1 fill, 1 fault | violation of `AccountedFor` (finding 6) |
| `sponsored` | 2 sessions of a wallet, 2 burn workers, 4 burns, 3 faults | `HolderOwnsClaim`, `OneFreeMint`, `BurnedOnce`, `DebtIsBurned` |
| `sponsored_expiry` | 1 worker, 2 faults, a lookup at a mint's expiry may fail | violation of `OneFreeMint` (finding 3) |
| `swap` | 2 sessions, 2 editions, mutable or legacy, 2 surfaces, 2 faults | `OneTokenPerEdition`, `BurialsAreTrue`, `TraitsConserved`, `JournalTellsOutcome`, `SwapEnds` |

Two runs check several components side by side. `rows` is the claims of BRIX or one owner's Closet, `background` a
bulk job, a phase with an intent, or the nightly accrual: these share no variable, so in a behaviour one of
them moves and the others stay where they started (`moving`) or are through (`atWork`), and
each is explored as completely as it would be alone. `MCRows` further lets a flow or fill take
a step at once that nobody can see or prevent (`Private`), and treats rows and requests of the claims
as interchangeable, which is sound since only safety is checked there.

Why the bounds are enough. A double payment needs one transaction that landed and one sent
after it, hence two attempts; six ledgers give two deadlines of margin two
and room past the second. A double claim needs two claims over one row, two
requests to race and, with a margin of one, three ledgers. Two fills suffice
for a second buyer or for a bid that is released and matched again. For
the safety properties, the proofs remove these bounds. One fault (`MaxFaults`:
a crash, an unknown outcome, a transaction that is lost though it could have succeeded, a
deleted Closet) is the smallest number with which each recovery path runs;
failures that follow from the ledger's rules are not faults and are not
counted. A covered bid shares only its campaign's budget with the others, so
one bid suffices for everything but the budget, whose check (`Headroom`) is
modelled where the code makes it and is not a property of a run. `MCClosetMarket` tells three stories and no mixture of them; what
a mixture would add is the meeting of three orders of one key, which share no
row but an owner's units. Two faults let a quote lose its promise write and its session, or
a payout its claim and its outcome. A bulk job of two units has a first, a next and a last one; with the single session it
wants three slots of two. A lost update needs a version that the mirror
misses and one flow after it, hence two flows; three units let the character,
the Closet and the market hold one each. A crash counts as a fault there.
With two faults instead of one, `Minting`'s safety properties hold as well (1.7 million states), which
is too slow to run each time. Two days let the job miss one and make it up on the next. Every run may end (all rows created and settled, or the last ledger
closed), so deadlock is not checked. `sponsored`
needs a session that holds the promise and one that wants it; three faults let
an unknown outcome, a crash and a worker that dies meet; each burn that fails costs a fault, so one burn more
than faults suffices. A swap has two tokens, each in place or reminted; two faults
let a failure meet the failure of its compensation or of its record; a second session is the smallest race.

## Fairness

`PinnedTx`: ledgers close; a submission gets some verdict; the sweep resolves a
recorded intent again and again, and infinitely often an endpoint in sync
answers both the index and the scan (strong fairness: restarts may come in
between). `BrixAccrual`: cron runs the job every night; an epoch is certified
in the end, however often it was deferred (strong). `ClosetMarket`: the sweep
visits each open row every two minutes (`orders_needing_attention`,
`fills_needing_attention`), users' requests lapse, and each signed transaction
lands or passes its deadline. Nothing is assumed of users, of `Unknown`, of
crashes, or of the clock. `FeeCover`: the sweep reaches every quote, promise and
refund again and again (the batch of quotes rotates by `touch_quote`), strongly
where it must first be free of other rows; the listener derives each event, a
linkage lookup works in the end, payouts land or die. Nothing is assumed of
operators, campaigns or time. `SponsoredMint`: some worker's loop runs on, in whichever process; its scan
completes in the end however often it fails (strong), the ledger decides each burn. Nothing is assumed of
sessions, recovery or restarts. `Minting`: the task of a bulk job runs on, and the ledger
decides a submitted mint; nothing is assumed of payers, cancels, the listener or restarts. `Swap`: the
event loop runs on some task that can go on; the wait for a payment has a deadline.
`ClosetToken` states none: the code leaves an unmirrored version to the listener and
an unsettled journal to an operator.

## What is proved

`PinnedTxProofs`, for every margin not larger than the slack, any horizon and
number of attempts, under `OneServerPerScan`: `InductiveInvariant`,
`TypeCorrect`, `NeverPaidTwice`, `IntentOutlivesPayment`, `RowTellsTheTruth`,
`ImplementsOncePayment`. `AtMostOnce` is
not inductive. The invariant adds that at most one signed transaction of the
tag has landed or can still land (`OnePossible`); that while there is one the
intent is durable and its deadline bounds it from above and from below
(`Bounded`); and what the driver knows at each point (`DriverKnows`). The
lemma `AbsentIsTrue` is the heart: an index past the deadline together with a
scan that reached it leaves no possible transaction.

`BrixProofs`, of the accrual, for any number of days, wallets and tokens and any tolerated
fraction: `AccrualTypeCorrect`, `NoEpochSkipped`, `RowsAreWrittenOnce`. The strengthening is where the job
stands (`Walk`): its epoch is the one after the cursor and before today, and once it
is written, what is unpaid of it is tolerated, also when an interrupted night
had written part of it before; `FewerIsTolerated` is the one fact about counting.
`RowsAreWrittenOnce` is what `Accrue` of `BrixClaims` takes from the job: a row appears once,
for the holder at the close of a day that is over. Nothing else links the two: the claims bind
rows whatever their epoch.

Of the claims, for any number of wallets, rows, requests and claims, under
`MonotoneReads`: `InductiveInvariant`, `TypeCorrect`, `NeverClaimedTwice`,
`ConfirmedClaimsArePaid`, `RowsStayBound`. The invariant says that a payout which landed, may land or is about to be
signed keeps its rows bound (`Holds`); that the stored deadline and
every copy recovery holds of it bound the payout (`DeadlineBounds`) and lie low
enough for the scan's window (`ScanReaches`); and that "found" and "absent" in
recovery's hands are true of the ledgers up to its index (`RecoveryKnows`).

The two assumptions are not guaranteed by the code. The pages of one
`account_tx` scan may come from different servers, newest first, and
`find_app_txs_by_memo` trusts the largest `ledger_index_max` of all pages; and
`_find_memo_tagged_tx` does not check how far its server is behind the one that gave
recovery its index. With either false, TLC refutes the properties. In the
same way the run of `ClosetMarket`, and of its theorems only `EndedBidsAreHome`, assumes that one `None` of `get_escrow` is true
(`LaggingReads = FALSE`): `_advance_cancelling_bid` and `_escrow_funds` end a bid on it, and with
a lagging server TLC finds a bid ended whose BRIX is still locked.

`FeeCoverProofs`, for any number of bids, campaigns, attempts and faults: `TypeCorrect`,
`SoldStaysPromised`, `QuotesAreTrue`, and, under `OneClaimPerPass` (finding 1), `RefundPaidOnce`
and `VerdictsHold`. `PaidOnce` is not inductive: a requeue could open an attempt beside one
that may still land. `Sound` adds that every attempt before the row's current one is dead and none
after it was sent, and that the row says of the current one what is true; `TasksKnow`, that the payer's
attempt is the current one, and that a recovery which saw a deadline pass holds a decided
attempt. For the promise, `LedgerKnows` says that an archive past the margin holds the sale if there
was one, and `ReleaseKnows` that a release rests on a cancel or on such an archive.
Also under `OneClaimPerPass`, `BudgetHolds`: no step reserves more of a campaign than its budget
(`AddsWithinBudget`; an operator may lower the budget under what is promised, so this is said of the
steps and not of the states). What is committed is a sum over the bids: `SumExists` and `SumsDiffer` show,
by induction over the size of the set (`EveryNumber`), that the recursive function in `MapThenSumSet` exists and
that two sums which differ in one term differ by that term. A promise and a requeue check the budget;
`record_payout` and `recover_refunds`, which may confirm a failed refund, do not, and `PayInv` shows that
none has landed. No run checks it: the run's one bid covers one drop, which every budget allows,
and a cover of two leaves no time for liveness. TLC agrees on that instance without
liveness, and refutes it when the requeue does not check.

`MintingProofs`, for any cap, claimants, units, tokens, faults and restarts. Of the store, as long as its callers keep
to its contract: `CountedOnce`, `CapHolds`. The cap alone is not inductive. `Kept` adds that
every minted token not yet handed over is backed by a slot of its own (`SlotPerMint`), that a handed-over
token is pending or indexed (`Counted`), and that slots, pending rows and index
together fit under the cap (`Room`); the proof is an injection of the minted
tokens into those three. Of the callers: `TypeCorrect`, `MoneyHonoured`, `InductiveInvariant`, `KeepsTheContract` (the
refinement `UsesHeadroomWell`), hence `CapHoldsForMinting`, and `UnitsSettledOnce`. `Orderly` holds always: a row, in
memory or on disk, is true of the ledger and the credits (`TrueRows`), a session is where its step says
(`InOrder`), and a record whose payment was claimed can be resumed or is done. The rest holds until some
caller has lost track (`lost`). `SettledOnce` is not inductive: a second mint or credit must find the first. `Accounted` says that every
token is the one its unit names or the one the session waits for, and that only a unit given up has a credit;
`OnTheWay`, that nothing else is in the air; `Current`, that a record which is not known to be behind is not, so that a
resumed job knows what the lost one knew. The contract asks for a slot at each mint and at each release: `Backed` counts a slot
for each unit to come and for each token not handed over, `FlagIsTrue` keeps a single session from settling twice, and
`Closed` is what an ended one leaves. `Stays` says of each step that the contract allows it and that it keeps all this, or that
it loses track; `OtherBooks`, that the other claimants see nothing of it.

`SponsoredMintProofs`, for any number of sessions, workers, burns and faults:
`TypeCorrect`, `PromiseHasOneHolder`, `DebtBurnedOnce`, and, under `TrueLookups` (finding 3),
`NeverTwoFreeMints`. `ClaimInv` carries the first. `HolderOwnsClaim` is not inductive: a rebind could take the
claim from a holder, unless the orphan it saw is still over (`OrphanIsOver`); an offer could be
recorded on another's claim (`OfferAfterMint`); the sweep could race a session (`SweepIsAlone`). `OneFreeMint` adds that whatever
may land is what the claim has journaled past its boundary (`SentIsClaimed`). `BurnInv` carries the debt: every burn that
may land is the journaled one (`SignedIsJournaled`); a worker with the lease knows the journal, and what it
saw expire is decided (`WorkerKnows`), so the journal is emptied only when nothing can land; a debt has its
landed mint (`DebtHasMint`), which stays, because a session signs once (`SignsOnce`). None of this asks the lease to last.

`SwapProofs`, for any number of editions, sessions, surfaces and faults: `TypeCorrect`, `EditionIsSingle`
(`OneTokenPerEdition`), `BurialsHold`, `JournalTold`, `TraitsKept` (`TraitsConserved`). A session that burned an original must hold the replacement it
made, and this is not inductive: a transaction given up as unknown may still land, and an unwinding burns replacements
back. `Ledger` says whose burn took an original, and that only that session's replacement is in or on its way to the
owner's hands; `StepOK` says what each session knows of its items at its step, and what its unwinding may
still burn; `Undecided`, that a session has at most one transaction in the air after it ended, and a `Safe` one, which
leaves `Ledger` true whenever it lands. That a session's steps disturb no other session on the same editions is
`Grows`, from which `OutsideKeeps` carries the invariant over the landings and acceptances. For the journal, `Records`
adds what the disk may hold at each step (`RecordOK`): no outcome is claimed before the session ends, but for the reason of a
rescue, and the replacements are on record, or the record is known to be behind, before the first burn. `NextTells` says
it of whichever of a stride's writes reaches the disk; `LateOK`, that what is in the air when a session
ends leaves its record true when it lands. `TraitsConserved` speaks of the moments between swaps only. `Kept` says where
the traits are during them: the `HomeIs` of an edition is the trait its one living token shows, or, while a session works on
it, the trait the session took it with, and no two editions have the same home; what a session's items show at each step is
`WorkKept`. A step hands its two editions on, back or across (`Handed`), `HandedKeeps` carries the rest over it, and
`OthersKeep` does so for what happens outside. That a session begins with what the ledger shows (`RosterIsRight`) needs the
exemptions of `disturbed`: a roster up to date, and no other session on the token.

`ClosetMarketProofs`, for any owners, any finite tables of asks, bids and fills, any prices and faults, and all three
stories of `MCClosetMarket` mixed: `InductiveInvariant`, `TypeCorrect`, `OncePerPhase`, `SaleIsSingle`, `PromisesHold`,
`PayoutsHold`, `TerminalBalanced`, and, with `LaggingReads = FALSE`, `EndedBidsAreHome`. None of the four properties of
fills and orders is inductive alone. The key is the stage of a fill (`At`): its state, and while its outcome is
unknown, the state its phase would roll back to. `TagOK` says of each phase that at most one transaction of it is in the air or landed,
none that the row's intent does not guard, and that the row tells what landed; `FillShape` and `BidShape`
say which intents a stage may have, so that forward and refund exclude each other; `FillInv` and `BidInv` add whose money came and
where the escrow is. `ClaimsOK` says from when on a fill has its orders to itself: a bid from the match, an ask that a
taker buys only from his payment, which is why a second payment finds it gone and is refunded. `PromisesAreHeld` is
kept by counting: each operation adds to an owner's promises at most what its check left room for
(`PromisesFrame`, `OneMorePromise`, `OneLessPromise`). `EndedBidsAreHome` adds `EndedIsUnlocked`, which fails when a lookup may miss an escrow
that is there.

`ClosetTokenProofs`, for any units of one owner and any number of flows, versions, faults and crashes, with no
assumption but that the character has one slot: `InductiveInvariant`, `TypeCorrect`,
`JournalTellsTheTruth`, `MirrorTellsItsVersion`, `KnownVersionsKept`. The journal comes first: `JournalIsTrue`
is not inductive, as a record that says "nothing was sent" could be contradicted by what lands later. `Numbered` says
that submissions and records are numbered in order, so that a modify belongs to one record; `Progress`, what the ledger
shows at each step of the flow under way, and that nothing of its number is there before it is submitted. Neither mentions the
listener, so these hold whatever it does. `Order` is what the order of landing gives: once a version knows of the fill's
move, so do all after it, in the ledger and in the air (`MovesInOrder`), and what was sent is what the
mirror will hold (`SentIsOurs`). `Tells` is the part that ends with the first slip. `Named` and `SettledIsSeen`
say that the mirror's URI and stamp agree, that its contents stand for that version, and that a fill whose five minutes are over has
been seen. `Informed` says that whoever read the newest version read what it stands for, and `FlyersSafe`
that each modify in the air, however many there are and whose flow is long over, overwrites nothing if the newest version is still the one
its reader knew. A modify that lands gives the others a newer version, so that claim is about at most one of
them at a time.

Only model-checked: liveness. Induction over
numbers is within reach where a least element will do: `LeastOf` of `MintingProofs` finds the next unit of a job and the next token,
and `EveryNumber` of `FeeCoverProofs` a number whose predecessor is in a set while it is not.

## Findings

1. `recover_refunds` writes "failed" to whatever claim the row holds by then,
   not to the one it judged. Run `fee_cover_spanning`; `fee_cover` assumes that no
   pass spans two claims (`SpanningRecovery = FALSE`).
2. `mint_one_unit` turns an unknown mint into a failed one, and `_fulfill_unit`
   mints the unit again. Run `minting_unknown`; `background` excuses it (`lost`).
3. `submit_sponsored_mint` takes a lookup without an answer for the proof that an
   expired mint never landed, and the startup recovery gives the wallet a second free
   mint. Run `sponsored_expiry`; `sponsored` assumes that this lookup tells the truth.
4. `_apply_closet` checks before its transaction holds the write lock, and then rolls back
   what a flow of the service has committed in between. Run `closet_token_torn`.
5. A Closet modify of unknown outcome sets no flag, and the archive does not have it yet: the
   owner's next flow overwrites it, and a harvested trait is lost. Run `closet_token_unseen`. The same
   comes of a restart between a confirmed modify and `set_mirror_pending`.
6. `create_ask` and `move_asset` count the rows of a mirror that is flagged or behind, so a unit that its
   owner already wears is sold. Run `closet_token_sale`.

What the checks showed beside these, without a run of its own: a cancel that falls
between the claim of a payment and the session's next state cancels a paid session
(`MintSession.cancel` says it never can); a backend transaction of unknown
outcome ends a swap on the spot, with no unwinding and no record of the failure
(`run_swap_session`'s last `except`), so that a token modified or a replacement minted before stays; two
sessions of a wallet, one per surface, swap the same token, and the revert of one restores what the other has
changed; the two scans and
the escrow lookup that trust one server ("What is proved").

Two sentences of the code are stronger than what is checked. `swap_flow.py:27-30` says that journal statuses
tell outcomes apart one-to-one and that "stale_pointer_partial" means the first replacement was delivered. The
record is written before its offer is made (line 1011), so after a crash in between it stands although nothing was
delivered; `JournalTellsOutcome` says of it no more than that at most that one was. And `Swap` and `Minting` take it that a
transaction of unknown outcome raises, and that a returned refusal did not commit. By
`mint_flow.py:1122-1126` a `None` can also come back for a mint that did commit, when its metadata is malformed
or absent; that case is excluded.

## Not modelled

- Epoch replay (`epoch_state.py`, `brix_backfill.py`): a pure function of the
  history archive; its result is an input of `BrixAccrual`.
- Marketplace and trait sales, shop, burn-to-mint: their own sessions and
  offers. Their paid orders use the sweep and the transaction protocol modelled
  here, but their states are not modelled.
- Signing and identity (`signing/`, `xumm_ops.py`): a signed transaction is an
  input of the models.
- House Closet, deployment, surfaces, configuration, rarity, art, statistics:
  one-time scripts, thin clients, rendering and pure functions without concurrent state.
- What is left out of a modelled part is named under that part above.

## Plan

Done: the modules above, in the order in which they are listed.

1. An abstract "fair sale" (money for a unit, or both back) that `ClosetMarket` implements.
   `ClosetMarketProofs` already has the parts: `TerminalBalanced`, `SaleIsSingle`, `PromisesHold`.
2. Market, shop and burn-to-mint orders.
3. Two swap sessions on one token: a run that shows what `TraitsConserved` exempts.
4. A crossed book is matched in the end (liveness over the book), once the
   instance is small enough.
