# 1cent: models, checks and proofs

1cent sells small web-intelligence operations over HTTP 402: an API server
answers an unpaid call with a price, a client signs a USDC transfer, the server
lets a facilitator verify and settle it and delivers the result.  A buyer bridge
on the client's machine pays such calls under its user's approval.  An owner
runs the service from a Telegram bot.

## Inventory

| Component | State | Operations | What is hard | Correct when | Module |
|---|---|---|---|---|---|
| Payment gateway (`services/payments.py`, `repositories/payments.py`) | `payment_events`, `payment_attempts`, advisory lock 825402 | pause check, idempotency lookup, quota, reservation, SDK round trip, final write | every await interleaves; READ COMMITTED; lost facilitator answers; crashes between commits; retries | revenue is backed by transfers, paid results go to payers only, quotas hold, settled means settled | `PaymentGateway`, `PaymentBook` |
| Buyer ledger and bridge (`buyer_state.py`, `buyer_bridge.py`) | SQLite `bridge_payments`, paid calls in flight | quote, approve, reserve, sign and submit, finish | several processes; clock read before the lock; expiry; prices that move between visits; no answer; death | charged what was approved, once; money at risk stays on the books; the cap holds | `BuyerLedger`, `BuyerBridge`, `SpendPromise` |
| Catalog, price promotion, price cache (`repositories/catalog.py`, `services/payments.py`) | tool prices, legacy price settings, promotion rows, advisory lock 825413, one-second cache | activate, restore when expired, set a price, quote, show | reads before the lock; restorers against activation against the owner; racing cache loads | no promotional price outlives its promotion, the cache never goes back | `PricePromo` |
| Settings service and bot (`services/settings_registry.py`, `bot/app.py`) | runtime settings, change log, audit, pending confirmations, `action_lock` | update with version, undo, preset, pause; request, confirm, confirm again, cancel | undo without a lock; partial presets; double presses; values shown earlier; restarts | the history tells the truth, what was shown is what is replaced | `SettingsTable`, `OwnerConsole` |
| URL cache and snapshots (`repositories/data.py`, `services/operations.py`, `services/tool_operations.py`) | `url_cache`, `url_snapshots` | look up, fetch, store, compare, add, record; batch | fetch, then read, then add; late inserts and overwrites; a broken session | answers are as young as promised, no version of a page slips in unannounced | `UrlHistory` |
| Fetcher, URL guard, robots (`services/fetcher.py`, `url_guard.py`, `robots.py`) | one operation's fetches | guard, connect, redirect, read, robots | names resolve anew at each hop; bounds over a chain | only public addresses, bounded requests, an end | `Fetcher` |
| Demo and preview quotas (`repositories/demo.py`, `services/live_demo.py`, `trial_preview.py`) | `free_demo_usage` | consume, then look | late upserts, broken connections, two kinds in one table | limit per window, nobody refused with quota left | `PreviewQuota` |
| Watch loop and client installer (`buyer_cli.py`) | ledger status, shared baseline; configuration file, backup | watch, pay, compare; copy, empty, fill | repeated payments; a price that moves; a seller that works late; a process killed mid-write | changes are reported; the user's entries survive | `BuyerWatch`, `ClientInstaller` |
| Migrations and releases (`migrations/`, `scripts/deploy_buyer_activation_070.sh`) | schema, catalog rows, images, pause flag | upgrade, replace, resume, roll back | any step fails or is killed, those of the rollback too; containers migrate when they start | the API that answers has its schema; a rollback that goes through restores; sales resume | `Schema`, `Deployment` |
| Funnel, traffic audit, MCP relay (`repositories/funnel.py`, `services/traffic_audit.py`, `mcp_server.py`) | request contexts, funnel and audit events | build a context, relay, record, classify | a paid MCP call is two requests; a crash between settlement and event | events put down to their request, settlements counted once | `TrafficAudit` |
| Connection pool (`db.py`) | connections and their waiters | take, wait, give back, time out | a request that holds one and wants another | telemetry fails no request | `SessionPool` |
| HTTP routes, outcome classification, readiness, costs, receipts, discovery, templates, wallet, node package | none that decides | | | | not modelled |

The HTTP API calls the gateway, the gateway the route handlers and the
facilitator; all share the database with the bot, which changes prices, settings
and the pause flag while calls are in flight.  The MCP server relays a paid tool
to its own HTTP route.  The bridge and the watch reach the server only over HTTP.
`PROJECT.json` lists every component with its status and every hazard with its
line.

## Modules

`PaymentGateway` models `gateway_impl` from the arrival of a call to its answer.
A call's place (`pc`) is the await it stands at; each query, commit and
facilitator round trip is one action, so calls interleave exactly where the
event loop lets them.  `rows` is `payment_events`, `attempts` is
`payment_attempts`, `quotaLock` the advisory lock, `local` what `gateway_impl`
keeps across awaits.  `Assign` is the rule by which the ORM writes only columns
whose value differs from the one it loaded, which decides who wins when two
calls write one row.  Verify, operation and settle are modelled from how the
gateway uses the x402 SDK: an authorization moves money at most once, and an
answer may be lost.  `AuthsOf` says which authorizations a client sends under an
id; an id with one authorization is also the case of an id derived from the
signature.  `PaymentBook` is what the gateway promises of payment ids: open once,
settle once with an own transfer, settled for good.  `ImplementsBook` is the
refinement.

`BuyerLedger` has one operator for each transaction of `BuyerLedger`, with the
caller's clock reading as a parameter, since the code reads the clock before it
waits for the write lock.  `BuyerBridge` extends it with the calls: quote from
the seller, ledger quote and approval, wallet, reservation, one signed
submission, outcome, and death at any step.  `signed` is what was submitted,
`paid` what has moved; the seller may collect at any time after submission, also
after the buyer has given up.  All bridges of one ledger share its cap.
`SpendPromise` is what they promise for a fingerprint: one open payment, one
charge for a payment, only a confirmed payment makes room for the next.

`PricePromo` has sessions of four kinds: requests and batches that quote through
the price cache, pages that read the price rows, and the operator who activates a
promotion.  `seen` is the session's identity map: what it has read of the
promotion stays what it sees, before and behind the advisory lock.
`RestorePrices` is the part of `restore_price_promo_if_expired` behind the lock,
`CommitActivation` the end of `activate_uniform_price_promo`.  `written` in a
cache entry is a history value, the number of the commit it was loaded after.

The floor of a price (`Floored`) has the
owner's approval to go below it as a constant, `FloorApproved`; the run has it off.

`SettingsTable` is the settings catalogue, the presets and the bounds;
`OwnerConsole` the confirmations and the service behind them.  A pressed button
removes its token and starts a job, which waits for `action_lock`, reads the
rows, and commits.  `Written` is the ORM's rule for the columns of a row.  An
undo takes no lock and picks its change, loads the row and commits in three steps.

`UrlHistory` models the calls of every operation by a `Plan`: under which kind a
document is looked up and stored, and whether it is compared with a snapshot.  A
page is a version that moves on by itself.  `Merge` and `Store` are the two
halves of `session.merge`, so that two inserts of one key may collide and leave
the session `broken`.  Comparisons overlap freely and may hash two texts of one page.
`NextPlaces` is where a call goes after a URL: a batch reads its price again behind its
last one, which may raise in a broken session and, since the read tries to end a
promotion (`catalog.py:58`, `:70`, `:73`), in a sound one as well.

`Fetcher` is `safe_fetch` with its guard: each hop resolves its name anew, then
connects, and the server answers with a redirection, chunks, silence or an
error; robots.txt and a tool's second resource are fetched the same way.

`PreviewQuota` takes a request's window when it arrives and counts it when the
upsert runs, in one table for both kinds.  `admitted` and `counted` are history.

`BuyerWatch` is the loop of `onecent watch` with the ledger it pays from and the
server's baseline.  Tool, page and seller are the same in every call of a watch, so
that of what the ledger's fingerprint contains only the price can vary: `inDoubt` is
the set of prices with a pending or unknown entry, and a payment is refused when its
own price is in it.  The seller does the work of a payment without an answer at once
or later (`late`).  `ClientInstaller` is `install_client` with the file, its
backup and a kill between any two of their writes.  The installer takes no lock; that
nobody else saves the file from its copy to its rewriting is the assumption
`UserWaits`.  JSON that is no object (`NoObject`) is taken for an empty configuration
as in the code, an `mcpServers` that is none (`OddServers`) is an error.  `MCBuyerMachine` composes the
two: they are processes of one program on one machine, each with files of its own.

`Schema` says what the migrations 0001 to 0009 create, add, insert, drop and
delete.  `Deployment` is the release script with its trap, the container that
migrates whenever it starts, buyers, and the owner's pause, prices and
promotions.  Every command of the rollback may fail.  Behind the stop, the downgrade,
the tags, the recreation and the resume stands `|| true`, so the next one runs; a
failure at the maintenance file or the saved `.env` ends the trap, and a signal begins
it again (`TrapAgain`).  A command that fails may have taken effect, in part for the
recreation (`PartlyCreated`).  `failures` is history: which commands have failed.

`TrafficAudit` follows a request through the tracing middleware, the MCP relay,
the gateway and its events.  `outer` is the context of the relayed MCP request,
`ctx` that of the paid route.  `SessionPool` has the pool, the session of a
request and the one that `_record_funnel` opens.

The `MC` modules choose instances for TLC; the `...Proofs` modules hold theorems, and
`FiniteSums` what they need of sums over sets.

## Runs

| Run | Shows |
|---|---|
| GatewayRaces | any authorization under any id, overlapping calls, a pause: revenue backed by own transfers, paid results only for payers, ids bound for good |
| GatewayPromises | clients that sign once per id, both daily quotas, two prices, a midnight: the quotas hold for rows that never gave their slot back, paid results can be had again, `ImplementsBook`, and every call is answered |
| BridgeShared | an automatic bridge with a cap beside two manual ones: the whole of the ledger's and the bridge's safety, and `ImplementsPromise` |
| PromoPrices | a promotion, its expiry, the owner's prices, two readers of the cache and a page |
| ConsoleSerial | two admins and a stranger, a preset of two settings and a red one, an undo, expiry and a restart: the history, the versions, what was shown, two presses for red, and the action lock with its job |
| HistoryCalls | a batch of two spellings of a page, a fresh url_diff and a url_changed of it, in any overlap and with two texts: answers are as young as promised, and who brings a new version is told that it is new |
| FetchEnds | redirections, private and rebinding names, refused URLs, a second resource, silence; safety and termination |
| ReleaseRollback | a release from revision 7 that fails, is interrupted or killed at any step, with a rollback any of whose commands may fail, restarting containers, a promotion and a payment: the schema under the API that answers, unless the stop failed; the release before, when the rollback went through; sales that resume, unless the resume or the files failed |
| AuditCalls | two calls over REST, the browser and MCP, with the same payment, none or an unreadable one |
| BuyerMachine | two runs of a watch, two starts of it, two prices, late work of the seller, three installations, kills |
| PreviewCounts | two live demos and three previews of two clients across two hours and a day |
| PoolReplays | finding: replays that hold a connection while telemetry waits for another make requests fail |

Bounds.  Two calls race for a row and a third observes or replays, so three
calls show every pairwise race with a bystander; two ids and two requests are
enough to confuse one with the other.  `GatewayPromises` has a limit of one
settlement and of two units of revenue.  The count is reached by a first call and
exceeded by a second; the revenue limit is then rarely the one that binds, and that it
holds for any prices and limits is the theorem `QuotasAreHeld`.  Three ledger entries allow a paid, a live and an
expired entry of one fingerprint; a third price is above the per-call cap.  The
clock of `PromoPrices` reaches the expiry of the one promotion that its bound
admits (a second activation is tried and refused while it is active), and one
cache lifetime.  `HistoryCalls` has one page, three versions of it and two ticks, enough
for an entry that is stored a tick after its fetch and read a tick later; the batch has
two spellings of the page, which `distinct_urls` compares before they are normalized.
`ConsoleSerial` has the settings that the preset "safe" changes and a red one, and one
value to type.  `ReleaseRollback` has one payment, before, during or after the rollback,
and any number of restarts, pauses and signals.  `BuyerMachine` has two runs at two
prices, so that one of them may be paid beside a doubt at the other, and an interval of
one tick.
`FetchEnds` allows two redirections in each of the operation's fetches;
`PreviewCounts` has a limit of one of each kind and two days; to break the limit with
late counts alone would take more requests than that, and the theorem
`PreviewsAreLimited` is about any number of them.  `MaxDay`,
`MaxClock`, `MaxTime`, `MaxPauses`, `MaxRestarts`, `MaxPayments`, `MaxRuns`,
`MaxPromos` and `MaxChanges` bound what would otherwise go on for ever.  Where
symmetry is used the sets are interchangeable in the instance; it is not used with
liveness or with `CHOOSE` in a refinement mapping.  All runs end because their
calls do, so deadlock checking is off.

Fairness.  `PaymentGateway!FairSpec` asks weak fairness for the progress of each
call: every await has a timeout or a driver behind it, and the event loop resumes
each ready coroutine.  Nothing is asked of arrivals, the owner, the clock or
failures; the lock needs no strong fairness because its waiters are finitely many
and each takes it once.  `Fetcher!FairFetchSpec` asks it of the client's own steps and
of the timeout, never of a server.  The other `FairSpec`s ask it of the event
loop (console), of commands that return and of the restart policy (deployment),
of the process that watches, and of the pool's timeout.

## Proofs

Each theorem holds for every value of the constants under the named assumptions of
its module, where the runs show one instance.  The invariant that the runs check is
seldom inductive: it speaks of the moment when the harm is done, and must be joined
by what the calls in flight remember.  Each proof module states that strengthening,
proves that it holds at first, that every action keeps it, one step per action, and
that it implies the property.  Four kinds of lemma recur: `...Init`; `...Effect`,
what one action does to the variables it writes; `...Step`, the induction; and
`...Always`, the invariant of the specification.

| Module | Theorems | Strengthening |
|---|---|---|
| `PaymentGatewayProofs` | `IdStaysBound`, `RevenueIsMoney`, `NothingForFree`, `QuotasAreHeld`; with `~Overlap` also `PaidResultsLast`, `GatewayKeepsTheBook` | `BaseInv`, `MoneyInv`, `QuotaInv`, `AloneInv` |
| `BuyerBridgeProofs` | `LiveEntriesApart`, `UnresolvedEntriesApart`, `ReservationsHaveOneCall`, `ChargesAreApproved`, `ChargesStayOnTheBooks`, `ApprovalsAge`, `BridgeKeepsPromise`, `CapHeldWithinTheDay`; with automatic calls only, `AutomaticModeKeepsTheCap` | `BaseInv`, `HoldInv`, `CapInv` |
| `PricePromoProofs` | `PricesComeBack`, `CacheNeverGoesBack`, `NoPromoOnLatePages` | `PromoInv`, `CacheInv`, `PageInv` |
| `OwnerConsoleProofs` | `RedTakesTwoPresses`, `TokensAreSingleUse`, `OneJobAtATime`; with `~Overlap` also `HistoryIsTheTruth`, `VersionsAreNotReused`, `ConfirmedIsApplied` | `PressInv`, `LockInv`, `SerialInv` |
| `ServiceProofs` | `PublicOnly`, `RequestsWithinBounds`, `BodiesBounded`; `PreviewsAreLimited`, `RefusalsAreRight`; `AnswersAreRecent`, `VersionsAreAnnounced`; `SalesGoOn`, `AnswersWithItsSchema`, `RollbackGivesBack` | `IInv`; `PreviewInv`; `Ages`, `Announced`; `Resumed`, `Restoring` |
| `TrafficAuditProofs` | `CountedOnce`, `SalesAttributed`, `CallsAreTraced` | `IInv`, `LinkInv` |
| `BuyerMachineProofs` | with `~Others` `ChangesReported`; with `UserWaits` `UsersEntriesKept`, `EmptiedIsBackedUp` | `WatchInv`, `InstallInv` |
| `FiniteSums` | what `SumFunctionOnSet` of the community modules returns | |

`TypeCorrect` is proved for the gateway, the bridge, the promotion, the console and
the fetcher.

`PaymentGatewayProofs`.  `RevenueBacked` compares a row with a transfer that was made
several awaits ago, so `MoneyInv` says in between that a transfer is that of the call
that presented its authorization (`ByItsCall`), and that a call which remembers a
settlement has made it (`ToldTruly`); this holds with any overlap, since what a call
was told cannot become untrue.  `QuotasHeld` needs that the usage a call has read is
still an upper bound when it inserts (`RoomLeft`): it holds because the advisory lock
covers the queries and the insert (`OneAtLimit`), because rows leave the usage only
when they are `Released`, and because a midnight in between starts a day that has no
row yet (`NotAhead`).  `Overlap` is false when a client keeps one call of a payment id
in flight at a time.  `PaidIsReplayable` and the refinement of `PaymentBook` are false
without that (see `SettledStaysRecorded` below), so it is a hypothesis of their two
theorems: then what a call has loaded of its row is still what the table holds
(`RowsAlone`).  In the refinement every action of the gateway is a stutter but the
reservation, which opens the id, the transfer, and the write that records a settlement.

`BuyerBridgeProofs`.  The lemmas about the ledger say what one transaction does to
one entry, for any clock reading, so that two processes whose readings are out of order
are covered.  `KeptApart`: a rewriting of the ledger that creates no second open entry
keeps the entries apart.  `HoldInv` adds what a call in flight remembers of the entry it
holds (`Hold`) and what the entry says of the money (`Money`); `PromiseStep` reads the
refinement of `SpendPromise` off it, fingerprint by fingerprint.  The cap is checked
against the ledger's date of an entry, which is that of its quote, while the promise is
about the day the money was reserved.  `CapInv` is the part that the code does keep: the
entries reserved on the day they were quoted stay below the cap.  From it follow
`CapHeldWithinTheDay`, that the cap holds in every state in which these two days agree
(`DaysAgree`), and `AutomaticModeKeepsTheCap`, that with automatic calls, which quote and
reserve in one transaction, they always do.  Manual approvals across a midnight are
the counterexample below.

`PricePromoProofs`.  A session may restore from a snapshot it took before it waited for
the lock.  `PromoInv` says of every snapshot, in the row and in each session, that no
promotional price is in it, whenever it was taken; so a snapshot that is
old when it is restored brings no promotional price back.  `CacheInv` has the order of the commits: one request at a time
loads a price, and the row it has read is no older than any entry of the cache.
`NoPromoOnLatePages` assumes that the promotional price is not also a regular one of
some tool; if it is, a page that shows it tells nothing.

`OwnerConsoleProofs`.  `PressInv` follows a token to the change records it leaves: a
token whose action needs a second press names a first one, used up, of the same admin.
It needs no assumption about undos, nor does `LockInv`: the action lock is held exactly
while one job is between taking it and leaving it, also after a refused version and a
restart (`OneJobAtATime`).  `SerialInv` is about what a job or an undo has loaded
and commits later.  The service gives an undo no lock, so nothing in the code keeps it
from a job's rows; under `~Overlap`, that no undo runs beside a job or another undo, what
was loaded is what the table holds (`Alone`), every commit takes the next version, and a
version stands for one value (`ShownStands`).  Without the hypothesis all three
are false, as `VerifiedIsEffective` and `UndoesTheNewest` below show.

`ServiceProofs` extends four modules, `Fetcher`, `PreviewQuota`, `UrlHistory` and
`Deployment`, which share no state; three of them therefore call their specifications
`FetchSpec`, `PreviewSpec` and `ReleaseSpec`.  That no private address is reached needs
to know that the address a connection goes to was pinned by the guard of the same hop
(`Pinned`); the bounds need the redirections of the current fetch counted
(`RequestsCounted`) and that an operation without a second resource has no second half
(`Short`).

The count of the previews is one row per client, which forgets a window when the next
one begins, and a request may carry a window older than its row.  `Kept` joins the row to
the history: it counts the requests of its own window, there is a `k` such that `k`
windows have begun before it, and all requests together are at most `k` limits and what
the row counts.  So a late request can use the current window up, which is why
`RefusedWhenUsedUp` counts from the beginning of the window of the one refused
(`Refusals`).

`AnswerAge` bounds what no single step bounds: a document may be fetched, wait, be stored
over a newer one, and be answered a lifetime later.  `InTime` is how long it has waited
at the merge, `Lifetimes` what that makes of its row; it holds for any number of calls
because the row carries the time of its fetch, whoever stored it last.  `VersionsAreAnnounced`
holds of comparisons in any overlap, with documents from the cache and with two texts:
what a call compares with was a snapshot of some call before it, so a version that no
snapshot has is never compared with itself.  `Announced` says for this of each snapshot
that its hash is of its version and its call has compared (`Written`), and of each call
that what it compares with is there (`SeesSome`).  What is not true under overlap,
that each verdict is right, is `ToldTheTruth` below.

`SalesResume` needs to hold already at the smoke tests and when the trap comes to its
exit, and through the owner's pauses (`Resumed`); a signal that begins the trap again
leads back to the resume, unless a file command ends it.  `ServesItsSchema` and
`RollbackRestores` are about the recursive functions by which `Schema` upgrades and
downgrades.  A function of that kind exists and its values follow from one another
(`ChainExists`, `UpgradeUnfolds`, by well-founded minima, since an induction rule cannot
be instantiated here); the nine migrations give each revision its tables and columns
(`TablesAt`, `ColumnsAt`), and a migration can fail only over the rows it inserts
(`MigrationStep`).  `Restoring` then says that the database has at any time the layout of
one of two revisions, that before the release or the present one, with the catalog that
belongs to it (`ToolsAt`); that, unless the stop has failed, the API is stopped when the
downgrade runs and a container of the new image that answers has migrated
(`ServedSound`): a tag that fails leaves the new image behind, and its container then
migrates the database up again before it answers; that each command which went through
has had its effect when the trap ends (`UndoneSound`); and that a promotion, which can
end in the middle of this, puts back a snapshot of the same tools, because the restore
compares the two counts.

`TrafficAuditProofs`.  `CountedOnce` and `SalesAttributed` follow from what a request
remembers between settlement and its event (`Attributed`, `SettledOnce`, `Counted`).
`CallsAreTraced` needs where the two contexts of a relayed call are at each place
(`Placed`): a claimed request id of an outside caller never gets into one.

`BuyerMachineProofs`.  `ChangesReported` assumes that nobody else has the page compared
(`~Others`), and needs that the server's baseline is what the watch was told last, as
long as no payment is in doubt but the one in progress (`Baseline`): a payment in doubt at
another price may have moved it, or may do so later (`Due`), and the answer paid for
beside it is excepted.  For the installer the strengthening follows the user's content from
the read to the copy to the emptied file (`ReadsAFile`, `Saved`, `Copied`, `Emptied`).

`FiniteSums`.  The revenue and the cap are sums over sets of rows, and the community
modules define such a sum by recursion over the set.  The lemmas about it are proved by
induction over the subsets of a finite set, stated about a set of good subsets and not
about a predicate (`SubsetInduction`): the recursion has a solution (`RecursionExists`),
a smaller set has the same solution (`RecursionRestricts`), and so a sum does not depend
on which element is taken first (`SumRemove`), grows with its set and with its terms.

Only model-checked: the liveness under fairness (`EveryCallAnswered`, `EveryFetchEnds`),
which speaks of ENABLED and is beyond the prover.

## Divergences: where the code departs from its documents

`PoolReplays` is a listed run: `Available` fails because a replay (and a paused
call, `payments.py:511`, `:547`) still holds the connection its reads took while
`_record_funnel` waits for a second one of the same pool.

The following came up while modelling.  Each property is stated in its module and
TLC finds it violated on the instance described, which otherwise is that of the
component's run.  "Overlap" and the like are constants of the module.  Where a listed
run checks a property that also appears here, its instance is one in which the
documents' promise holds, and the constant that separates the two is the finding.

| Property | Instance | The code | The document |
|---|---|---|---|
| `SettledStaysRecorded` | two calls, one id, one authorization, Overlap | the loser of a settlement race writes `not_settled` over the settled row (`payments.py:816`) | `BUYER_COMPATIBILITY_AND_CONVERSION_REPORT.md:34` "cached idempotent responses and UNKNOWN no-retry behavior remain active" |
| `OneSettlementPerPaymentId` | one id, two authorizations, Overlap FALSE | an unsettled row is resumed with whatever authorization the call carries (`payments.py:564`) | `README.md:131` "UNKNOWN settlement never retried automatically" |
| `RevenueIsWhatWasPaid` | the same, two prices | the settled write leaves the amount of the first reservation (`payments.py:756`) | `STAGE_7B_REPORT.md:39` "matching payment ID, transaction, network and amount" |
| `DailyLimitKept` | three calls, SignOnce, limit 1, Overlap FALSE | a resumed `not_settled` id skips the quota (`payments.py:564`) | `payments.py:614` "mainnet daily settlement/revenue limit reached" |
| `DailyCapHeld` | manual calls across midnight: four calls, DayLength 2, MaxClock 2, TTL 2, two entries, DailyLimit 2 | a reservation after midnight stays on the day of its quote (`buyer_state.py:263`) | `buyer_state.py:261` "local daily spend cap would be exceeded" |
| `PromoLastsItsTerm` | MaxPromos 2, MaxClock 3, one request, one page | a restorer does not look again behind the lock and ends the next promotion (`catalog.py:65`) | `tests/unit/test_price_promo.py:110` "test_promo_does_not_restore_before_expiry" |
| `NoPromoQuoteAfterExpiry` | two requests, MaxClock 3 | a cached entry is answered without a look at the expiry (`payments.py:97`) | `PRICE_PROMO_7_DAY_REPORT.md:24` "the first catalog, discovery or paid-route price lookup restores all original prices before responding" |
| `ReportsTheQuote` | one batch, owner's price 3, MaxClock 2 | a batch reads the unit price again after its work (`tool_operations.py:773`) | `api/app.py:1277` "Price is quoted before work" |
| `UndoesTheNewest`, `VerifiedIsEffective` | one admin, one key, value 3, two tokens, Overlap | an undo takes neither lock (`settings_registry.py:399`); an update verifies the object it wrote itself (`:367`) | `STAGE_11_TELEGRAM_CONTROL_REPORT.md:18` "when no newer same-key change exists" |
| `UndoIsAudited` | one token, Overlap FALSE | no `audit` call (`bot/app.py:473`) | `STAGE_11_TELEGRAM_CONTROL_REPORT.md:31` "`/undo_setting` is audited." |
| `ToldTheTruth` | two url_changed, SameText TRUE, MaxVersion 2 | page, newest snapshot and own snapshot are three steps under no lock (`operations.py:392`) | `tool_catalog.py:22` "Know whether normalized content changed since the prior snapshot." |
| `ToldTheTruth` | the run's url_changed and url_diff, SameText FALSE | the two hash different texts of one page (`tool_operations.py:689`) | `tool_catalog.py:227` "Compare the normalized content hash with the previous stored snapshot." |
| `BatchSurvives` | the run's | a failed item does not roll its session back (`tool_operations.py:764`), and the price read behind the last one (`:773`) may raise | `tool_operations.py:748` "deterministic partial failures" |
| `DomainLimitHeld` | the run's, PerDomain 1 | nothing reads `per_domain_concurrency` (`tool_operations.py:658`) | `README.md:129` "concurrency and queue depth" |
| `RequestsAsPromised` | HasSecondary FALSE, MaxRedirects 5 | up to twelve requests (`fetcher.py:63`) | `discovery.py:31` "Uses at most eight external HTTP requests" |
| `RobotsEnforced` | MaxRedirects 1 | a redirection's host is not asked for its robots.txt (`fetcher.py:78`) | `STAGE_11_TOOL_EXPANSION_REPORT.md:39` "robots enforcement" |
| `TotalTimeoutHeld` | TotalTimeout 2, MaxRedirects 1 | the timeout starts anew at each hop (`fetcher.py:67`) | `settings_registry.py:175`, "total download timeout" in Russian |
| `RateHeld` | three live requests of one client, LiveLimit 2, HourLength 2, DayLength 4, MaxTime 3 | the window is taken before the upsert runs (`demo.py:21`) | `demo.py:18` "Atomically consume one request from the current UTC-hour bucket." |
| `RefusedHadItsPreview` | two trials of one client | the count is committed before the URL is looked at (`trial_preview.py:21`) | `API.md:45` "limited to one accepted preview per safe client" |
| `ReportsChanges` | Others TRUE | the baseline is the newest snapshot, whoever had it taken (`operations.py:392`) | `README.md:118` "finite, capped change monitoring" |
| `ReportsEveryChange` | the run's | an answer is compared with what a payment in doubt, at another price, has had the seller record (`operations.py:392`) | `README.md:118`, as above |
| `NoPaymentInDoubt` | the run's | the fingerprint contains the amount (`buyer_bridge.py:255`), and a doubt blocks its fingerprint only (`buyer_state.py:222`) | `buyer_bridge.py:395` "automatic retry blocked for this request" |
| `KeepsTheUsers`, `BackedUp` | UserWaits FALSE | the installer reads, empties and fills the file under no lock (`buyer_cli.py:286`) | `MCP.md:86`, as below |
| `Recoverable` | two installations | a torn file is copied over the backup (`buyer_cli.py:284`) | `MCP.md:86` "creates a backup before modifying" |
| `ClientFindsBridge` | ClientKey "servers" | the entry goes under `mcpServers` for every client (`buyer_cli.py:291`) | `BUYER_BRIDGE.md:79` "under the top-level `servers` object" |
| `InstallServes` | From 0 | 0004 inserts the tools that 0009 inserts again (`0004_...:65`) | `README.md:158` "docker compose up -d --build" |
| `AlwaysResumes` | the run's | the resume may fail (`deploy_buyer_activation_070.sh:75`), or a file command end the trap before it (`:64`, `:69`) | `STAGE_12_QUALITY_AND_CONVERSION_REPORT.md:89` "resumes service on any post-switch failure" |
| `AlwaysServes` | the run's | the downgrade runs also when the stop has failed (`deploy_buyer_activation_070.sh:66`) | none: that the stop comes first is the script's own order |
| `SwitchIsNoted` | the run's | a signal between the migration and the note of it leaves a migrated database that the trap does not take back (`deploy_buyer_activation_070.sh:130`) | none, as above |
| `OwnersPauseHolds` | From 8 | the script resumes whoever had paused (`deploy_buyer_activation_070.sh:58`) | `INCIDENT_RESPONSE.md:48`, a resume requires the owner's approval |
| `PromoEnds` | From 8, Promos TRUE | a release that adds tools makes the restore raise (`catalog.py:69`) | `PRICE_PROMO_7_DAY_REPORT.md:24`, as above |
| `ReferralKept`, `OwnerThroughout` | one call of any kind | the relay forwards no referral (`mcp_server.py:384`); the outer context never learns of the owner (`payments.py:480`) | `BUYER_ACTIVATION_070_REPORT.md:20`, `TRAFFIC_ATTRIBUTION_AND_AUDIT_REPORT.md:26` |

## Further properties

These are stated in the modules, hold on instances like those of the runs, and are
in no listed run: the type invariants of the modules whose run does not name it;
`EveryPressAnswered` (`FairSpec`, one admin, one key, three tokens, one undo, Overlap, MaxRestarts 0),
`SingleUse` and `WithinBounds` of `OwnerConsole`; `WatchEnds` and `KeepsInterval` of
`BuyerWatch`; `ServesAgain` and `RowsKept` of `Deployment` (From 8);
`EveryoneAnswered` of `SessionPool` (four requests, pool of two);
`BodyBounded` of `Fetcher`; `SignersAreNotCounted` of `TrafficAudit`; `ApprovalIsFresh`
of `BuyerBridge`, and `DailyCapHeld` for automatic calls across a midnight.

## Plan

What is left, in this order.
1. Proofs about the properties under "Further properties" that no theorem states yet, such
   as `RowsKept` of `Deployment`, `KeepsInterval` and `SignersAreNotCounted`.
2. The composition of bridge and gateway, which are now joined by what each assumes of
   the other: the bridge that a seller may collect at any time after a submission, the
   gateway that a client may repeat a call.
3. The outcome classification (`payment_outcome.py`) as operators, so that the
   bridge's three outcomes follow from the gateway's answers.

## Not modelled

- Wording, message templates, discovery documents, HTML and JSON: they decide nothing
  that a property here is about.
- What a tool computes from a page: long pure functions over documents; the model keeps
  the page's version and whether two texts agree.
- Offer receipts, the wallet file and the keyring: cryptography and the operating
  system's store; a signature is a member of a set.
- Outcome classification, readiness and costs: pure functions of one response or one
  configuration; their results are the nondeterministic outcomes of the models.
- An answer 200 without PAYMENT-RESPONSE: the gateway writes the same row as for a
  settlement that was refused (`payments.py:814-831`), and the model has that write only.
- A second operator of the bot who activates a promotion at the same time: the check
  that none is active precedes the lock (`catalog.py:128`).
- Run-time changes of limits, statistics queries, indexes and column types.
- The bot's container, backups, the node package (a wrapper that starts the Python
  program).
- Proof of liveness and of ENABLED, for the reason above.
