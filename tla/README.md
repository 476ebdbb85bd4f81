# Mailslot in TLA+

Mailslot is a mailbox server whose messages are paid for with StackFlow payment
channels. A sender pays the server over the sender's channel ("tap" or "pipe")
with a hash-locked transfer; the server makes a smaller hash-locked transfer to
the recipient on the recipient's channel; the recipient decrypts the message,
finds the secret, and reveals it to claim. This directory has TLA+ modules of
the server, of its clients and of their composition, model-checked with TLC on
small instances, and theorems about them for all values of the constants, checked
with TLAPS: every invariant, action property and refinement that a run checks is
also proved; what is left to TLC is liveness.

Paths below are relative to the repository; `R` is
`packages/server/src/reservoir.ts`, `A` is `packages/server/src/app.ts`, `S`
is `packages/server/src/store.ts`, `W` is `packages/web/src/main.ts`, `C` is
`packages/client/src/client.ts` and `K` is `scripts/mailslot-client.ts`.

## The system

### Components

| Component | State | Operations | What makes it correct | Module |
|---|---|---|---|---|
| Pipe tables (R) | `reservoir_pipes`: one *enforceable* checkpoint per pipe; `reservoir_pending_states`: the *optimistic* rows above it | newest row of a pipe, upsert of a checkpoint (column by column), upsert and deletion of optimistic rows | a merge never mixes columns of two states in a way that loses money or a dispute | `PipeRows` |
| `ReservoirService`, payments (R) | locals of the methods that are waiting | `verifyIncomingPayment`, `createOutgoingPayment`, `recordCompletedIncomingPayment`, `cancelMessage`, `createTapWithBorrowedLiquidityParams`, `syncTapState` | every row adds up to a total of the channel; balances stay non-negative; checkpoints are final; open HTLCs are not forgotten | `Reservoir` |
| `ReservoirService`, liquidity and disputes (R) | `reservoir_refreshes` (cooldown) | `createAddFundsParams`, `createBorrowLiquidityParams`, `submitDisputeForCounterparty` | money of a changed tap still adds up; the cooldown is kept as far as it can be; the checkpoint can be disputed | `Liquidity` |
| Message handlers (A) | locals of the requests that are waiting | `handleSend`, `handleGetInbox`, `handlePreview`, `handleCancelMessage`, `handleClaim` | each message keeps to its lifecycle; caps hold; a commitment shown to the recipient stays; a cancelled message is refunded what is due | `Mailbox`, `Mailslot` |
| Message store (S) | `messages`, `message_settlements`, `public_keys` | one statement (or one transaction) each | conditional updates do nothing on a row that has changed | `Mailbox`, `InboxClient` |
| Runtime settings (`settings.ts`) | `runtime_settings`, a row for each key | `init`, `get`, `update` | what was put in force survives restarts; an update leaves valid settings | `RuntimeSettings` |
| Authentication, sessions (`auth.ts`, A, W) | tokens and proofs kept by the page | proofs, session tokens, their expiry and renewal | credentials are those of the connected wallet; nobody is shut out by a stale one | `InboxSession` |
| Rate limiter (A) | fixed-window buckets in memory | `consumeRateLimit` | a bound on what one run of the server lets through in any stretch of time; `Retry-After` is enough | `RateLimiter` |
| Start-up, identity (`index.ts`) | `meta`: key and address | `resolveServerIdentity`, `main` | one generated key at most; a restart is not refused | `ServerIdentity` |
| Client library (C), standalone SDK (K) | remembered tap state, session token | send, poll, preview, claim, add funds, borrow, sync | a message is claimed once and not lost with a reply; the view of the tap is one it has had | `TapClient`, `InboxClient` |
| Web application (W) | page, view of the tap, buttons, credentials | opening a tap, sending, liquidity, inbox | the same, and the page shows a tap only to its owner | `TapOpening`, `TapClient`, `InboxSession`, `InboxClient` |
| Scripts, crypto, SIP-018 encoding | | drivers, primitives | outside the models | |

### How they interact

The server is one Node process. A handler calls the store (SQLite, synchronous)
and the payment service (`ReservoirService`), and waits (`await`) for signing,
signature checks and the Stacks node's `get-pipe`. Other handlers run at those
awaits, so what a handler read before an await may be stale after it. Nothing
else runs in parallel: the code between two awaits is atomic. The handlers of
`app.ts` and the service share no memory, only the two databases' tables and the
commitment or error that the service returns.

What is hard here, and where it bites, is listed line by line under `hazards` in
`PROJECT.json`: reads before an await that are used after it, messages claimed
in another order than they were paid, a checkpoint that is merged from several
sources, on-chain state that changes under off-chain states, caps checked before
an await, claims cut short by a crash, and a cancellation that fails half-way.

## The modules

| Module | What it is |
|---|---|
| `PipeRows` | rows of the pipe tables and the SQL statements on them; pure operators |
| `Reservoir` | `ReservoirService`: one action for each stretch of a method between awaits |
| `MCReservoir` | values for TLC: anchors, settings, symmetry |
| `ReservoirProofs` | type correctness, conservation of money, finality of checkpoints, secrets and hashes, coverage of optimistic rows |
| `MessageLifecycle` | abstract specification: what the mailbox promises about one message |
| `Mailbox` | the message handlers over the message tables, split at their awaits |
| `MCMailbox` | values for TLC: who writes to whom |
| `MailboxProofs` | type correctness, `Mailbox` implements `MessageLifecycle`, previews, claims, queue bound |
| `Mailslot`, `MCMailslot` | the composition of `Mailbox` and `Reservoir`: the server |
| `MailslotProofs` | the composition implements both parts and `MessageLifecycle`, and what only the whole promises |
| `Liquidity`, `MCLiquidity` | extends `Reservoir` with deposits, refreshes, their cooldown and the chain that executes them |
| `LiquidityProofs` | types, money and the cooldown, on top of `ReservoirProofs` |
| `TapClient`, `MCTapClient` | a user's view of a tap, in the browser and in the SDK |
| `TapClientProofs` | types, and the view of the browser |
| `TapOpening`, `MCTapOpening` | the browser's pages and the opening of a tap |
| `TapOpeningProofs` | types, and whose tap the page shows |
| `InboxSession` | wallet proofs and session tokens, in the browser and on the server |
| `InboxClient`, `MCInboxClient` | polling, claiming and opening messages over a lossy network |
| `InboxClientProofs` | types, and that a message is returned once |
| `RateLimiter` | the rate limits |
| `RuntimeSettings` | the settings store, key by key, with crashes |
| `ServerIdentity` | the key and the addresses of the server over its restarts |
| `MCServer` | the three of them in one instance for TLC |
| `ServerProofs` | the theorems about these three, and about `InboxSession` |

### `PipeRows` and `Reservoir`

A SQL value that may be `NULL`, and a row that may be missing, is a set with at
most one member. `pipes[p]` and `pendingStates[p]` are the rows of pipe `p` in
the two tables, `chain[p]` is what `get-pipe` would answer, and `call[h]` is the
method in which handler `h` waits, with the local variables it will use
afterwards. `accepted` is the set of proofs for which `verifyIncomingPayment`
returned (the server keeps them as the `payment_id` of messages). `anchored` is a
history variable: the states from which the server has tracked a pipe, either read from
the chain or signed in an opening, whose transaction the borrower has yet to send
(the server does not wait for it).

| Code | Actions |
|---|---|
| `verifyIncomingPayment` | `VerifyTracked` or `VerifyUntracked` (up to `get-pipe`), `VerifyLookedUp` (`get-pipe` answers), `VerifyAccepted` (the signature is good; the row is stored) |
| `createOutgoingPayment` | `Forward` (reads the latest row), `ForwardSigned` (stores the row it computed) |
| `recordCompletedIncomingPayment` | `RecordCompleted`, which never waits |
| `cancelMessage` | `Cancel`, `CancelRefunded` (stores the refund; then ends, fails, or goes on to the recipient), `CancelReversed` |
| `createTapWithBorrowedLiquidityParams` | `OpenTap`, `OpenTapSigned` |
| `syncTapState` | `SyncTap`, `SyncTapStored` |
| any error after an await | `Fail` |
| the process dies | `Restart`: locals are lost, tables stay (WAL, and `initTables` only creates what is missing) |
| the chain | `ChainMoves`, external |

The callers of the service are left free: any accepted proof can be forwarded to
any pipe, completed or cancelled at any time and any number of times. What holds
here does not depend on `app.ts`. A signature is named by the state it signs;
`syncTapState` stores whatever signatures the browser sends without checking
them, and the model lets the browser send none or right ones. Prices and fees can
change between any two steps, which is what `Setting` is for: a payment is
accepted at one setting, forwarded at another (deferred messages are forwarded
when the inbox is loaded), and cancelled with the fee that was in force at the
send.

A nonce is a `TEXT` column. Where SQL orders or deletes by it, it is cast to an
`INTEGER` of SQLite, which stops at 2^63 - 1: `AsInteger`, with `MaxInteger` for that
number. Above it nonces tie, rows that tie are ordered by `updated_at`, which has the
resolution of a second, and a deletion at or below one such nonce deletes them all.
In TypeScript the same nonces are compared as `BigInt`s. So `getLatestPendingPipeRow`
(SQL) is the set of rows the query may return, and `chooseLatestRow` (TypeScript) the
set of rows the code may choose between that row and the checkpoint. The sender names
the nonce of a first payment, and the code bounds it from below only. The model takes
it as a decimal numeral, which is how every client writes it. `OptimisticRowsCovered`
therefore speaks of the rows whose nonce SQLite can represent; for those it holds
whatever the other nonces are, and for the rest it does not (`ClaimKeepsLaterRows`).

Every `await` is an interleaving point. For the calls of `get-pipe` and of the
node's API this is exactly so; signing and verifying await a module import, which
after the first time only yields to the microtask queue, so there the model
allows more interleavings than Node usually does. What is shown of the model holds
of the code all the same.

### `Mailbox` and `MessageLifecycle`

`status`, `payment`, `sentAt` and `settlement` are columns; a row that is not
there yet has status `none`, and one that `expireDeferredMessages` deleted has
`expired`, so that the abstract lifecycle can speak of it. `lapsed` is the set of
messages whose `deferred_until` is in the past. `minted[m]` counts the
commitments `createOutgoingPayment` made for a message (a commitment is its
number), `completed` the messages whose proof went to the checkpoint, and
`disclosed` is a history variable of what previews have shown.

| Code | Actions |
|---|---|
| `handleSend` | `Send` (caps on unclaimed messages), then `SendReady`, or `SendUnfunded` (caps on deferred messages) and `SendDeferred` |
| `handleGetInbox` | `GetInbox` (expires, selects the batch), `Activated` once for each message of the batch |
| `handlePreview` | `Preview` |
| `handleCancelMessage` | `Cancel`, `Cancelled` (reads the row again after the refund) |
| `handleClaim` | `Claim`, or `ClaimCut` when the process dies between its three writes |
| errors, crash, time | `Fail`, `Restart`, `Lapse` |

The payment service appears by its outcomes: a commitment, none, or an error.
Requests that authentication or parsing refuses change nothing and are left out.
Messages inserted in the same millisecond (equal `sent_at`) are not modelled: an
insertion has its own position in the order. Caps are fixed during a behaviour.

### `Mailslot`

`R == INSTANCE Reservoir WITH call <- service` and
`B == INSTANCE Mailbox WITH Address <- Pipe, call <- request`; each action is a step of
one of them or, where a handler calls a method, of both. What the two leave to
each other is settled here:

- `verified[h]` is the payment a handler holds between `verifyIncomingPayment`
  and the insertion of a message; `Rejected` is every early return in between,
  which leaves the payment accepted.
- `CreateOutgoingPayment` runs in the step that calls it. It returns null when the
  recipient's tap cannot pay, and then `GaveUp(h)` holds; after `OutgoingSigned`
  `Succeeded(h)` holds. `SendReady` and `Activated` need the second, `SendUnfunded`
  the first.
- `Cancel` reads payment and commitment with the row; `Refunded` and `Reversed` are
  the two halves of `cancelMessage`, and only then comes `Cancelled`.
- `forwards`, `reversals` and `refunds` are history: how many transfers were signed
  for each message.

`ImplementsReservoir == R!Spec` and `ImplementsMailbox == B!Spec` are properties of
the run: what is proved of the parts holds of the whole. Taps do not change on
the chain here and are not opened; that is `Liquidity`.

The settings allow a fee of the whole price. A message sent with such a fee has
nothing to refund: `cancelMessage` returns at once, reverses nothing, and the handler
cancels the row. This is the second alternative of `Cancel`, and `NothingDue` is the
exception that `CancelledIsRefunded` makes for it. The `Setting` of the run has a fee
that rises to the price and falls again, so both kinds of cancellation occur.

### `Liquidity`

`change[q]` is the liquidity method request `q` waits in. `AddFunds` is what `get-pipe`
answers, `AddFundsChecked` the checks after the burn height has been fetched,
`AddFundsSigned` the signature; `Borrow` has the checks of a refresh (target, cap,
cooldown), `BorrowSigned` what follows the fee and the signatures, recording the
cooldown included. Neither stores the state it signs: `signed` is what the user can take
to the chain, `Mine` executes it (a deposit leaves a pending leg until `Mature`),
and the tap reaches the server again with `SyncTap` of `Reservoir`. The clock
(`Tick`) matters for the cooldown only.

### `TapClient`

One tap; the server's handlers in one step each, since `Reservoir` and
`Liquidity` have their interleavings. `pipeState` is the client's view,
`task[t]` what a task of the client waits for: a refresh (`Refresh`, `ReadFrom`,
`Refreshed`), a send (`SendMessage`, `SendStored` or `SendRefused`, `Sent`,
`SendTimesOut`) or a change of liquidity (`AddFunds`, `RefreshCapacity`,
`BorrowMore`, `ParamsSigned` or `ParamsRefused`, `Broadcast`, `Confirmed`, `Synced`,
`ChangeAbandoned`). A proof whose sender has given up is in `late` and can still
arrive. `ServerPays` and `MessageClaimed` move the tap from the other side.
`FirstReading` is what the amount of a refresh is computed from: in the browser the
view, when there is no answer at all. `Client` chooses between browser and SDK where
they differ: the SDK has no view to keep, and its on-chain fallback leaves the pending
legs out. The run `tap_client` is the
browser's; what the SDK does otherwise is in two of the statements further down.

### `TapOpening`

`page`, `pipeState` and `disabled` are the panel, the tap and the buttons of the
page; `task[t]` is a function that waits. `connectWallet` keeps the address as soon as the
wallet has given it (`Connected`), waits for the server's settings, changes the panel
(`Greeted`) and waits once more before it asks for the tap (`Checking`), so wallet and
panel do not change together, and other functions run in between. Functions go on
when the wallet is disconnected. What keeps them from showing one wallet the tap of
another is that the connect buttons stay disabled after a success: a second wallet
takes a page that is loaded again (`Reload`), which ends every function.
`resolveTapState` gives the set of answers: the server's row if its owner is
connected, the chain's if the server gives none, and no tap when a query fails.
`OpeningSigned` is the server's part: it stores the tap when it signs the opening.
`Mined` executes or drops an opening.

### `InboxSession`, `InboxClient`

`InboxSession` keeps the age of each credential instead of a clock: of the proof
being signed, of the cached proof (with the time it has been in the cache), of the
session token. `Tick` ages them all together (`Aged`: those that are being signed or
are on their way too). `Valid` is `requireAuth`; there is one clock, so nothing is dated
in the future, which the server also refuses. `captureInboxSession` keeps a token that
has not expired on its way (`Unexpired`). `connectable` is the state of the connect
buttons and `Reload` a page that is loaded again, as in `TapOpening`: a signature or a
reply that comes after the wallet was disconnected puts a credential of that wallet
back, and it is a property that none is ever kept or sent for another one.
`Rekey` is a restart with another key,
which every token signed with the old one does not survive.

`InboxClient` has the list (`LoadInbox`, the newest `Limit` entries), the preview
and the claim of each entry, lost replies and claims that arrive late. A task is
a `poll` of the library, a `readNewMessages` of the SDK, or one look at the
list and one click in the browser, where a claimed message can be opened again;
`client` says which, and `Limit` is a function of it.

### `RateLimiter`, `RuntimeSettings`, `ServerIdentity`

`RateLimiter` has the clock in fractions of a second (`Second` of them in one), as
`Retry-After` is rounded to seconds. The buckets are in memory: a `Restart` empties them,
and `earlier` keeps what each run of the server had let through. `BurstBounded` is about
each run by itself; a stretch of time that meets several runs may hold as much from every
one of them. `RuntimeSettings` writes `Keys` in the order
of `RUNTIME_SETTING_KEYS`; the two keys that constrain each other and one for the
nine others. `StartCut` and `UpdateCut` die between two keys. `ServerIdentity` has
the two rows of `meta`, an environment chosen at each start, and `StartCut`
between the two writes; `Resolve` and `Listen` are the rest of `main`, whose lookup
of the StackFlow contract may fail. A start that is refused for its key or address
throws before it writes; one with a reservoir contract id that is not valid throws
after it, which is the same as a `Start` that is followed by a `Stop`.

The three share no state. `MCServer` puts them into one instance: `part` is the one that
runs in a behaviour, the others keep their initial state, and TLC explores the
sum of the three state spaces.

## The runs

Every run checks for deadlock except `inbox_client`: a browser user who has opened
every message is done.

| Run | Instance | What it asks |
|---|---|---|
| `one_tap` | one pipe, one secret, two handlers, total 3 | any two methods interleaved, with crashes, on one pipe, with nonces beyond the largest `INTEGER`: types, totals, finality, coverage |
| `two_taps` | sender and recipient pipe, two secrets, two fees, one handler | money moves on the right pipe, the fee changes between a send and its cancellation; secret and hash of a merged checkpoint belong together |
| `mailbox` | three messages of two senders, two handlers, global deferred cap 1 | types, previews, claims cut by crashes, by how much concurrent sends can exceed the cap |
| `deferred` | two messages, two handlers, inbox caps of 1, two commitments each | lifecycle refinement; no message stays deferred for ever |
| `mailslot` | one message of alice to bob, one unit on each side of both taps, two handlers | the composition implements its parts; refunds, reversals and commitments belong together, with a fee below the price and one of the whole price |
| `liquidity` | one tap of total 2, one payment, two requests that add 1 or refresh to 2, a clock of 4, cooldown 2 | totals, while a signed change waits for the chain and payments go on; refreshes signed in any stretch shorter than the cooldown |
| `tap_client` | one reader, one sender, one changer, one unit on each side | every view of the browser is a state the tap has had, and the view comes back to the server's state |
| `tap_opening` | two wallets, two tasks, disconnections and reloads at any await | the page shows the tap of its wallet; a mined opening leads to the mailbox |
| `inbox_session` | two wallets, one request at a time, limits in the proportion 5 : 5 : 4 : 2 of the code, disconnections and reloads at any await | no credential of another wallet is kept or sent; nobody is shut out |
| `inbox_client` | a readable message and one that is not, two tasks, lists of 2 (agent, SDK) and 1 (browser) | no message is returned twice; every readable one is claimed, every settled one read |
| `server` | limits of 2 and 0 in a window of 5 half seconds, a clock of 8, one restart; two values for three settings; three keys, one reservoir | bursts and `Retry-After`; what survives of the settings, and repair by an update; one generated key, restarts accepted |
| `refund_twice` (violation) | as `mailslot`, with one nonce more | a sentence of the repository that the code does not keep; see below |

Bounds. `MaxBalance` and `MaxNonce` bound the proofs a sender presents and the
nonces that are signed; 3 allows two payments of one unit above the first state
and a refund or forward on top of one. `MaxInteger` is one less than `MaxNonce` in
`one_tap` and `two_taps`, so that nonces tie; elsewhere the casts are not the question.
`MaxPayments` bounds accepted proofs at two: the properties relate at most two payments of one pipe (one is claimed,
cancelled or forwarded while another is verified). Two handlers give every
pair of waiting methods; the rows have no field that a third could race for, and the
theorems cover the general case. `MaxMint` is two in `deferred`, so that two
inbox loads can each make a commitment for the same message. Symmetry is used
for handlers, secrets, pipes, requests and keys, never in a run with a liveness
property.

In `mailslot` one message suffices for what is said of one message, and total 2 for
a forward, its reversal and a refund; two handlers give a cancellation that meets a
preview, an activation, a claim or a second cancellation. In `liquidity` one
payment over the tap is enough to move its balances between a signature and its
mining. The clock of `RateLimiter` reaches so far that a stretch as long as the window can
begin at any time of the first window and end in the next; `MaxRuns` is 1, for a run
before and one after a restart; `Second` is 2 with a window of 5 so that
rounding matters. The limits of `inbox_session` are in minutes (five for a proof
and, for the bound, a token; four in the cache; two at the wallet). Three keys of
`ServerIdentity` are one that is stored, one that is configured and one that is
generated in between. `MaxNonce` of `TapOpening` is one payment above an opening.

Three runs leave out combinations, with a `CONSTRAINT` that their MC module defines
as `Explored`. `liquidity`: payments and deposits go with one change at a time at one
moment, overlapping refreshes and the clock without payments and deposits.
`tap_client`: no send times out while a change is in the mempool, and no change is
broadcast while a proof is late. `tap_opening`: the second wallet has a tap from the
start and is not paid. What the last two cut off are steps without a fairness
assumption, so the fair behaviours that are left are behaviours of the module, and
the liveness properties are about those.

Each property has a mutant in `PROJECT.json`, an operator with a plausible bug
(next to the original in the module), under which TLC finds the property
violated in the same run.

### Fairness

`FairSpec` of `Mailbox` assumes weak fairness of each handler's continuation (a
promise in Node settles and its handler is resumed; the network calls fail in the
end), of `Lapse` (the clock goes on), and strong fairness of `GetInbox`. The last
one says that some owner keeps loading an inbox: `MailslotClient.poll` does, in an
interval (`packages/client/src/client.ts:455-472`), and `docs/payment-flow.md`
says that deferred messages are retried and collected on inbox loads only. It is
strong because the model has two handlers and the server has as many as there are
requests: that both are busy at times must not count as the client having given
up. Without any inbox load a deferred message stays for ever; the server has no
timer.

`TapClient`: the user keeps looking at the tap (`Refresh`, weak), the server's answer
gets through again and again (`SF` of a read that returns the tracked state: a
request that can fail does not fail for ever), a task whose answer is there goes on, and
the chain mines what is broadcast. Tracked readings need a proof or a token, which
`InboxSession` has in detail: assumed here is a user who signs again and again when the
wallet asks for a proof. Nothing is assumed of sends, of the signatures of payments and
changes, or of messages arriving, and `ViewCatchesUp` is `[]<>`, since the server can move the tap
again at any time.

`InboxSession`: time passes, the user goes on opening the inbox, signs again and again,
requests and replies are not lost for ever. Strong fairness, because each of
these can be overtaken by a loss or a refusal. `InboxClient`: the agent polls
(`C:453` shows the interval), the user loads both lists and clicks every
message again and again; previews, claims and their replies get through now and
then. `TapOpening`: a user who has broadcast an opening keeps pressing the check
button, every query ends, the answer to a check that there is a tap is not lost for
ever, and a prompt ends. That every query ends is an assumption about the chain's API:
the `fetch` of `W:1378` has no time limit.

## Where the code and its documentation disagree

`refund_twice` is a run that ends in a counterexample: a cancellation that fails
after its refund can be repeated, and the sender is refunded twice. The quotation is
in `PROJECT.json` under `findings`.

The modules end with further sentences of the repository that the code does not
keep, each as a definition with the line it is from. TLC finds a counterexample when the
definition takes the place of the properties of the run in the last column (as an
`INVARIANT` or, if it has a `[]` or `~>`, a `PROPERTY`), with the change of the
constants given there.

| Definition | What the code does instead | Shown in |
|---|---|---|
| `ClaimKeepsLaterRows` | nonces are compared as `INTEGER`s that saturate, so above 2^63 - 1 a claim deletes optimistic rows that are newer than its own (`R:777`) | `one_tap` |
| `CheckpointIsNewest` | claims in another order than the payments lower the checkpoint (`R:1218`) | `one_tap` |
| `AcceptedIsNewer` | a first payment that started before the pipe was tracked is compared with the chain only, and stored over a row with the same nonce (`R:1148`) | `one_tap` |
| `CompletedIsDisputable` | a completed incoming transfer has no server signature of its state, so the checkpoint cannot be submitted in a dispute (`R:706`) | `one_tap` |
| `OutgoingProofsKept` | two forwards to one recipient are signed on the same row, and the signed proof of the first is replaced (`R:1302`) | `one_tap` |
| `RecipientCapHolds` | activation takes up to a whole cap of deferred messages, whatever is already in the inbox (`A:248`) | `mailbox` |
| `DeferredCapHolds` | the deferred caps are checked before an await and used after it; `DeferredOvershoot` says how far this goes (`A:549`) | `mailbox` |
| `ClaimedHasSecret` | a crash between the first and the second write of a claim loses the revealed secret, and the claim cannot be repeated (`A:729`) | `mailbox` |
| `CancelledIsReversed` | a message activated during its cancellation keeps its forward (`A:666`) | `refund_twice` |
| `RefundedIsUnseen` | a preview during a cancellation does not stop the refund (`A:660`) | `mailslot` |
| `RefreshRateLimited` | two refreshes pass the cooldown together; `RefreshOvershootBounded` says how far this goes (`R:1680`) | `liquidity` |
| `AddFundsKeepsCompleted` | after all messages are claimed, a deposit is signed on the balances of the chain, without what the claims have paid (`R:1535`) | `liquidity` |
| `BorrowKeepsSpendable` | a refresh that is mined after a payment gives the payment back (`R:1640`) | `liquidity` |
| `BorrowCapHolds` | the first loan of a tap is not capped (`R:1394`) | `liquidity`, `Anchor <- BigTap` |
| `BothAreBlocked` | outstanding payments and pending deposits block deposits only (`R:1639`) | `liquidity` |
| `FallbackCountsPending` | the SDK's reading of the chain leaves pending balances out (`K:741`) | `tap_client`, `Client = "sdk"` |
| `RestingTapTakesFunds` | the SDK prepares deposits on tracked balances, the server expects those of the chain (`K:778`) | `tap_client`, `Client = "sdk"` |
| `ConfirmedIsSynced` | the browser stops waiting after three minutes and never syncs (`W:1735`) | `tap_client` |
| `CachedProofIsValid` | the four minutes of a cached proof start when the wallet has signed, the server's five when it was asked (`W:1137`) | `inbox_session`, one wallet and half minutes: limits 10, 10, 8 and 4 |
| `PollClaimsAll` | messages that cannot be claimed fill the list of every poll (`C:456`) | `inbox_client`, `Limit <- ShortList` |
| `SettledIsSaved` | with the reply to a claim its proof is lost (`C:351`) | `inbox_client` |
| `RunsWithValidSettings` | an update cut short leaves a fee above the price (`SET:93`) | `RuntimeSettings` itself, `Value = {0, 1}` |
| `IdentityIsDurable` | the first start that reads the legacy reservoir address overwrites it (`I:178`) | `ServerIdentity` itself, two keys, one reservoir |
| `ReadyTapExists` | the page shows a tap the server has signed and nobody has mined (`W:1448`) | `tap_opening` |
| `OpeningKeepsCheckpoint` | a failed query is taken for no tap, and opening it again replaces the checkpoint (`R:1471`) | `tap_opening` |

`SET` is `packages/server/src/settings.ts`, `I` is `packages/server/src/index.ts`.

## What is proved

For every set of pipes, secrets, handlers, messages, addresses, wallets, tasks and
keys and all values of the bounds, caps, prices and limits, from the named assumptions
of the modules:

- on-chain states are natural numbers without an HTLC (`AnchorAssumption`), and a fee
  is at most the price (`SettingAssumption`, which `validateRuntimeSettings`
  enforces);
- bounds, caps, limits, intervals and SQLite's largest `INTEGER` are natural numbers, a
  rate limit's window and second and the client's price not zero;
- messages, handlers and liquidity requests are finite sets, the handlers not empty,
  for the arguments that count;
- no value stands for a missing key and for a key (`NoneAssumption`:
  `normalizePrivateKey` takes 32 bytes of hex only).

`PartsAssumption` of `Mailslot` is no more than the assumptions of its two parts: an
`INSTANCE` carries none over.

In most modules the property itself is not inductive, for a value is read before an
await and used after it. The strengthening then says the same of the value while it
waits. Every inductive invariant below was checked by TLC on the instance of
its run before it was proved.

### The payment service: `ReservoirProofs`

- `TypeCorrect`: no interleaving gives a variable a value outside its type. The content
  is in the subtractions: a balance that was compared before an await is subtracted
  from the row it was read with, so no signed or stored balance is negative. `TypeOK`
  is inductive as it is.
- `MoneyConserved`: every row adds up to a total the pipe has been given, on the chain
  or in an opening. `Conserved` adds the same statement about the locals of waiting
  handlers and about accepted proofs. Each action then only copies a known total, adds
  an anchor, or moves an amount from one side to the other (`NextTransfer`). This
  would fail without the comparison of totals in `verifyIncomingPayment`.
- `CheckpointsAreFinal`, `SecretsOpenCheckpoints`: by `CheckpointWrites`, a lemma that
  names the only three sources of a new checkpoint (a completed payment, an opening,
  a sync). Balances and nonce always come from one source; for the secret the
  argument is that every write either gives secret and hash together or gives
  neither, so `COALESCE` keeps the pair.
- `OptimisticRowsAreCovered`: an action property; only a claim and a sync delete, at or
  below the nonce they store, and an upsert replaces a row only by one of the same
  nonce. It is stated and proved for the rows whose nonce is at most `MaxInteger`, with no
  bound on the nonces of claims, syncs and other rows: for such a row a comparison of
  casts says the same as one of the nonces, also when the other side saturates. (That the
  replaced row may belong to another payment is the case of `AcceptedIsNewer`.)

### The message handlers: `MailboxProofs`

- `TypeCorrect`, and `LifecycleImplemented`: `Mailbox` implements `MessageLifecycle`.
  The step proof needs two invariants about waiting requests: `Unsent` (a message
  being sent has no row, and only one request sends it) and `Unpaid` (a message
  without a row has no commitment). Steps after an await map to a lifecycle step or,
  if the row has changed, to a stutter.
- `DisclosedStays`, `ClaimsAreOrdered`: together as `Kept`, which is inductive with
  `Unsent`.
- `OvershootIsBounded`, `SharesAreBounded`: the number of deferred rows plus the sends
  waiting to become one is less than the cap plus the number of handlers, for the whole
  queue, for every recipient and for every sender to a recipient. All three are one
  lemma about a group of messages (`NextWithin`): when a send of the group passes the
  check, the group is below its cap and the other waiting sends are other handlers;
  when it inserts, one moves from one count to the other.

### The server: `MailslotProofs`

- `TypeCorrect`; `ServiceImplemented` and `MailboxImplemented`: every step of the
  composition is a step of `Reservoir` or leaves it alone, and the same for
  `Mailbox` (`NextParts`, action by action). Types are needed for it: a transfer is
  begun for a payment that is in `accepted`.
- `ServiceKeepsItsPromises` and `RequestsKeepTheirPromises` draw the conclusion: what
  `ReservoirProofs` and `MailboxProofs` show of their invariants, for free callers and
  for a service that answers as it likes, holds of the server; `LifecycleIsKept` is the
  same step for `MessageLifecycle`, which the server implements.
- `CommitmentsAreBacked`: every commitment was signed for its message. `Linked` says
  which method of the service a handler may be in while a request waits for what. With
  it the property is inductive as it is, since it counts the transfers that are signed
  and not yet handed out along with the commitments.
- `CancellationsRefundFirst`: `RefundsFirst` says that the refunds of a message are at
  least its reversals, those in progress included, and that a cancellation which has
  got that far has refunded what is due: at least one refund, or none if the fee stored
  with the message was all it paid. The fee of a message never changes, so what was
  due stays due (`DueKept`). This is what survives of `RefundedOnce`, which fails.

### Changes of liquidity: `LiquidityProofs`

- `LTypeCorrect`, `LMoneyConserved`: every step is one of `Reservoir` or mines a signed
  change (`LStep`), and what is mined is on the chain only; the pipe tables learn of it
  when it is synced, which `Reservoir` already covers.
- `RefreshesAreBounded`: with `LastIsLatest` and `RefreshesLimited`: in every window that
  is open now, the refreshes signed and the refreshes that wait for their signature are
  no more than the requests. A request passes the cooldown only when nothing was
  signed in the window (`NothingSince`); what waits at that moment are other requests.

### Limits, settings, identity and authentication: `ServerProofs`

- `RetryAfterSuffices`: `RetryIsAfter` says that the time named by a refusal is
  the end of the window or later, over the rounding to whole seconds (`RetryAfterCovers`).
- `BurstsAreBounded`: in each run an admission is either in the current bucket or before its
  start (`WindowsCount`), and any stretch as long as the window meets at most one edge.
  The bound of a run stays when the run ends; nothing is said of several runs together.
- `SettingsSurvive`: `SettingsKept`, once a start has gone through every key has a row, so
  that a start writes no defaults again. `UpdatesRepair`: an update validates the merged
  settings it then writes.
- `KeysAreGeneratedOnce`: `GeneratedOnce` counts the keys that were generated, wherever they
  are: stored, waiting for the chain, or used. `RestartsAreAccepted`: `LastStartResolves`,
  the environment of the last start leads to a key and to that key's address,
  whichever of the two rows was written.
- `ServerTypeCorrect`; `PartsOfTheServer`: a behaviour of `MCServer` is one of each part,
  so these theorems are about what the run checks.
- `SessionTypeCorrect`, `CredentialsAreOwn`: `AllNameWallet` says of a signature, a
  request and a reply on the way what is to be said of the credentials that are kept,
  since each may become one of them. A late one is of the wallet that was connected
  last; that no other can follow on the same page is its second part: while the
  buttons are enabled nothing is kept and nothing is on the way (`Unconnected`).

### The clients: `TapClientProofs`, `TapOpeningProofs`, `InboxClientProofs`

- `TapClientProofs!TypeCorrect`, `ViewIsHeld`: `RepliesWereHeld` says that a state which a
  task has read, or which a good reply confirms, is one the tap has had. That a stored
  proof is then the newest row needs `RowsOrdered`: there is a newest row among
  the optimistic ones. Both theorems assume `Client = "web"`: the SDK's reading of the
  chain leaves pending deposits out (`FallbackCountsPending`), so it may show a state
  the tap never had, and compute from it.
- `TapOpeningProofs!TypeCorrect`, `PanelIsOwnTap`: `OwnTap` has three parts. While the
  connect buttons are enabled, or a wallet is asked for its address, the page is as
  it was loaded (`ConnectedOnce`), so that one wallet at most is connected to a page. Every
  query and every answer is then for that wallet, if it is connected (`ForWallet`). And an
  answer with a tap, like the tap that is shown, is of one that is there (`TapIsThere`),
  which uses `TapsStay`: neither the server nor the chain drops a tap.
- `InboxClientProofs!TypeCorrect`: with `Readable`, what is claimed, late or settled is what
  the client can read. `MailIsReturnedOnce`: `OneGoodReply`, of all the overlapping claims of a
  message one gets a good reply, and nothing is returned before that reply is read.

### Model-checked only

Liveness under fairness, which is out of the prover's reach: `DeferredIsTemporary`,
`ViewCatchesUp`, `EventuallyServed`, `ReadableIsSettled`, `SettledIsRead`,
`PendingBecomesReady`. And the counterexamples: `refund_twice` and the list above.

## What is not modelled

- `submitDisputeForCounterparty` broadcasts a transaction and stores nothing; only the
  checkpoint it could submit is modelled (`CompletedIsDisputable`).
- The borrow fee: fetched from the chain, signed by nobody and stored nowhere.
- That `x-forwarded-for` is taken from the request, that buckets of the rate limiter
  are never removed, and that the StackFlow contract is looked up once: no statement
  of the repository is about them.
- Encryption, SIP-018 encoding, Clarity serialization and HTTP parsing: data
  transformation without state.
- Of the web interface the rendering, the discovery of wallets, the handling of the
  decryption key and the admin forms; of the client library the builders of proofs
  and headers.
- The command line, demonstration and maintenance scripts: sequential drivers of
  the operations that are modelled.
- The StackFlow contract, except for what `get-pipe` returns and for deposits, loans
  and openings being executed or not.
- `public_keys` (a map of the last key seen) and `pending_payment_info` (unused).

## Plan

What could be added, in this order:

1. `TapClient`: what can be said of the SDK's view while no deposit is pending.
2. The operators of `PipeRows` for their own sake: what `chooseLatestRow` returns when
   both tables have a row of the newest nonce.
