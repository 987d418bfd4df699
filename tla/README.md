# Zylova API: specifications

TLA+ models of the Zylova API (NestJS 11, Prisma, PostgreSQL), the TLC runs that
check them and the TLAPS proofs about them. Paths are relative to the root of the
repository, so the services are under `src/src/`.

The fact that shapes everything below: **the API opens no database transaction.**
A handler is a sequence of awaited statements, and between two of them any other
request may run. Rows are read, a decision is taken, and the row is then updated
by its id, with no condition on what was read. So each model has one action per
awaited statement (with the synchronous code up to the next await), and every
property says whether it needs requests not to overlap.

A second fact decides what the inputs are: **no validation runs.** The DTOs carry
decorators of `class-validator`, but `main.ts` installs no `ValidationPipe`, and no module
or controller does. So a handler meets any body that its own code does not refuse: negative
quantities and totals, empty lists, an id or an address twice, an id of nothing. The models
take such inputs wherever the code goes on with them.

## 1. The system

| Component | State | Operations | Talks to |
|---|---|---|---|
| Orders (`orders/`) | `orders` rows: status, items, method, Stripe session, download token | create, confirm, update status | products, payment, events, e-mail |
| Payment (`payment/`) | none of its own | refund at the gateway, Stripe webhook | Stripe; the webhook calls `confirmPayment` |
| Admin (`admin/`) | none of its own | update, bulk update and bulk delete of orders and products; bundles; flash sales; users; statistics | every table, audit, events, payment |
| Products (`products/`) | `products` rows: status, exclusive, sold | list, page, create, update, approve, clone, remove | cache |
| Cache (`cache/`) | one in-memory map with expiry times | get, set, delete by pattern, clear | products, admin |
| Download (`download/`) | `product_files` and `download_logs` rows | download by token, upload and delete a product's file | orders (reads), storage, CDN |
| Storage, CDN (`storage/`) | objects on S3 or on the local disk | upload, stream, delete, sign a URL | |
| Licenses (`licenses/`) | none (reads orders and logs) | list, show | |
| Authentication (`auth/`) | `users` rows: password, refresh hash, verification and reset tokens | register, verify, log in, refresh, reset, OAuth | e-mail, referral |
| Two-factor (`auth/two-factor`) | secret, failed attempts, lock | set up, enable, verify, disable | authentication |
| Cart, wishlist | `cart_items` rows; a list in the user row | add, change, remove, sync; toggle | products |
| Tickets, chat | `tickets`, `ticket_replies`, `chat_messages` | open, reply, close; send, mark read | events |
| Events gateway (`events/`) | sockets in rooms, a rate limiter | join, notify | everything that notifies |
| Referral, coupon, newsletter | their rows | create code, apply; validate; subscribe | users |
| Bundles, flash sales | their rows | create, update, remove, price | products |
| Reviews, contact, changelog, FAQ, services | their rows | create, read, update, delete | |
| Audit, e-mail, uploads, maintenance | a table, none, files, a flag file | log; send; store; filter | whoever calls |
| Backups, seeding (`scripts/`, `prestart.js`) | files in a directory; the users | dump, upload, prune; delete and create again | S3; the database |

What is hard here, and where:

- *interleavings*: two updates of one order; a confirmation by the browser and one by
  the webhook; two downloads with one token; two uploads for one product; two logins that
  count a wrong code; two additions to one cart; two resets of the account table; two edits
  of one bundle; two backups in one directory;
- *stale reads*: the `sold` flag is checked when an order is placed, not when it is paid;
  the bulk update announces the row it read; the order is checked several awaits before
  its file is handed over; a reader fills the cache after a writer has cleared it; an
  expired lock is cleared, a profile linked and a ticket reopened on rows read before;
- *partial failures*: a confirmation that stops before it marked its products; a log
  written for a file that could not be fetched; a file deleted for an upload that fails;
  a gateway refund that fails after the status says `refunded`; a sync of the cart that
  writes some of its items; an update of a bundle that deletes its products and stops;
- *crashes*: a local stream of a missing file has no error listener and ends the process;
  sockets, rooms and the cache die with it; the seed deletes all accounts at each start;
- *ordering*: a chat message is stored, then pushed, while clients join and load; the
  total and the rows of a page are two statements; a report is several;
- *unreliable delivery*: Stripe repeats its events.

`hazards` in `PROJECT.json` lists each one at its line, with the properties that watch it,
or with the reason why nothing can be promised.

What makes each component correct: an order moves only along `VALID_TRANSITIONS` and its
money goes back only once it is on record as refunded; an exclusive product is withdrawn
when paid for, and never without payment; one download per product and order, never
before payment, never unlogged; the row of a file and its object come and go together;
the cache is exact, or wrong for a bounded time; five wrong codes lock an account, a reset
link works once, a ban stops logins, a reset leaves the accounts it was asked for; the cart
makes up no quantity; a reply to a ticket is heard; a user has one referral code; a bundle
is empty only by a request's own list or failure; edits touch the fields they name; who
follows a chat misses nothing; who walks through the pages misses no row; the parts of a
report agree; the newest backups stay.

## 2. Modules

| Module | Models | Role |
|---|---|---|
| `OrderStatus` | what the order table promises | abstract specification |
| `OrderLifecycle` | orders, payment, the order routes of admin | detailed specification |
| `OrderLifecycleProofs`, `OrderSerialProofs` | | theorems about it |
| `FileShelf` | what the store of product files promises | abstract specification |
| `Downloads` | download, storage, CDN, upload and deletion of product files | detailed specification |
| `DownloadsProofs` | | theorems about it |
| `Shop` | `OrderLifecycle` and `Downloads` over one order table | composition |
| `ShopProofs` | | theorems about it |
| `Catalog` | products, cache, and the writers that pass it by | detailed specification |
| `Slots` | the slots in which handlers run | extended by the modules below |
| `Lockout` | the second factor, the count of wrong codes and the lock | one account |
| `Access` | sessions, the ban, password resets | one account |
| `Accounts` | registration, verification, provider sign-in, resets of the table | the account table |
| `Carts` | the cart and the wish list | one user |
| `Tickets` | one ticket, its replies and its status | |
| `Referrals` | the referral code of a user, the referrals of an address | |
| `Bundles` | bundles and their products, by both services that edit them | |
| `Records` | flash sales, change logs, questions, services, reviews, contacts, coupons, referrals: rows that are created, edited by id and removed; the audit log | one table at a time |
| `Rooms` | sockets, rooms, the limiter, chat messages | |
| `Pages` | walking through a paged list | |
| `Reports` | the statistics | |
| `Backups` | the backup script | |
| `Services` | the twelve after `Slots`, and `Catalog`, side by side | composition |
| `ServicesProofs` | the second factor, the records, the chat, the backups | theorems |
| `AccountProofs` | `Access` and `Accounts` | theorems |
| `BuyerProofs` | `Tickets`, `Referrals`, `Bundles`, `Carts` | theorems |
| `CatalogProofs` | `Catalog` with its cache, `Pages` and `Reports`; the types of all services | theorems |
| other `MC...` | the values of constants that a configuration file cannot write | instances |

### How a model corresponds to the code

*Requests.* A request is a slot `r` with a program counter `pc[r]` and a record `job[r]`
of what the handler was asked and has read. Slots are used again, so there is no bound on
how many requests a behaviour has, only on how many are in flight. The switch `Overlap`
says whether a handler may start while another one runs; with it off, the models show what
the code would guarantee one request at a time, and the difference is the price of having
no transactions. The switch `MayFail` lets a handler stop between any two statements: the
process dies, or the database rejects a statement. What was written stays.

*`OrderLifecycle`.* `CreateStart`, `CreateCheck`, `CreateInsert` are `OrdersService.create`
(one read per item, then the insert). `ReadPending`, `ConfirmWrite`, `MarkRead`, `MarkSold`,
`ConfirmFinish` are `confirmPayment`, entered by `Confirm` (the route) and `Webhook`.
`ReadOne` or `ReadMany`, `WriteStatus`, `Refund`, `Announce` are `updateStatus`,
`updateOrderStatus` and `bulkUpdateOrdersStatus`: the three differ only in how many orders
they read and in the row they announce. `DeleteOrders`, `RemoveProducts` and `EditProduct`
are handlers with one statement. The gateway answers a refund as it likes (`money`), also
by moving the money and losing its answer. History variables: `visited[o]` (the statuses
`o` has had), `returned` (the orders whose money went back), `told[o]` (the last event).
Prices, names, e-mail addresses and the internal note are left out.

*`Downloads`.* `ReadOrder`, `ReadFile`, `ReadLog`, `WriteLog`, `HandOver` are
`downloadProduct`; `HandOver` also covers what the controller and the three back ends do
when the object is gone. `Save` or `Delete`, `Drop`, `Unlink`, `Store`, `Publish` are
`saveProductFile` and `deleteProductFile` with the calls of `StorageService`. A row is
deleted by its own id; since every upload makes a new object name, the name stands for the
id. Names are taken to be new, although they are built from the product and the
millisecond. `copies` counts the files handed over, and a signed URL counts as one, however
often it is used in its 15 minutes. The orders are an environment (`OrdersMove`, `Expire`).

*`Shop`* runs both over one order table, and checks that `OrderLifecycle` moves the orders
only as the environment of `Downloads` does. With overlapping requests that is theorem
`PaymentGateHolds`: `OrdersMove` allows exactly what `Gate` allows. `MayFail` stops the
handlers of the orders, `FilesFail` those of the files.

*`Catalog`.* `FindAll`, `QueryRows`, `CacheList` are `findAll`; `FindById`, `LoadRow`,
`CacheItem` are `findById`, alone or as the first step of `update`, `updateStatus` and
`remove`, which go on with `Write` and `Purge`. `AdminStatus`, `AdminDelete` and `Sell` write
the table and leave the cache alone; they run if `Silent` is set. A row is a status (approved or not) and a flag
(exclusive and sold, or not); queries differ in the products they match; pages, sorting and
the total are left out. `Tick` is a minute; the entries live 120 s and 300 s, and no tick falls
inside a request, which takes far less than a minute. The process
dies with its cache in `Restart`.

*The service modules* all extend `Slots`: `pc[r]` names the next awaited statement of the
handler in slot `r`, and the names of the actions are those of the methods.

- `Lockout`: `LoginWith2fa`, `CheckLockout`, `Unlock` lead to the check of a code, then
  `CountFailure` (an atomic increment), `Recount` and `Lock`. The activation of the second
  factor (`ReadSecret`, `RecordFailedAttempt`) counts in the same row with other statements.
  Whether a code is right is an input; `wrong` counts the wrong ones since the last lock ran
  out (history). `RunOut` is the end of the 30 minutes.
- `Access`: the row holds one reset token and one hash of a refresh token. bcrypt compares 72
  bytes only, and the first 72 of two tokens of one account are the same, so `Refresh` asks
  whether any hash is stored, not which. An e-mail that fails is swallowed (`SendLink`).
- `Accounts`: handlers write by id, so `Holds` compares ids; `Insert` obeys the unique keys.
  `ResetUsers` and `CreateAdmin` are the route, the script and the start of the process, each
  with a list of its own: the route passes on whatever `body.emails` holds, so a list may be
  empty, name an address twice or hold an entry that `create` refuses (`None`). `latest` is
  the list of the last reset and `reset` what has happened to it since (history).
- `Carts`: `AddItem` and `WriteAddition` are `addItem`. `Sync` fills several slots at once,
  since it adds its items with `Promise.all`. A quantity is any number; only an update
  removes an item that is not positive. `due` and `wished` are what the answered requests add
  up to, `asked` and `back` what the positive and the negative quantities named by the writes
  of one row add up to (history).
- `Bundles`: a list is the products it names and whether it is `proper`: a list that is not
  names a product twice or one that never was. `stock` is what is in the table of products,
  so a list may also name one that was deleted. Of those lists the insert is refused, and of
  the empty one it inserts nothing, in each case after the old products were deleted.
- `Tickets`, `Referrals`, `Bundles`: one action per statement of `addReply`, `findById` and
  `updateStatus`; of `getOrCreateCode` and `applyReferralCode`; of the two `update`s.
- `Records`: the methods differ in which fields they name, in whether they look before they
  write (`Find`, `Blind`) and in whether the admin service logs the change (`Log`).
- `Rooms`: `CheckRateLimit` is awaited before each join; `SendMessage` stores and `Push`
  delivers; `GetMessages` and `MarkRead` come over HTTP. `Restart` closes the sockets.
- `Pages`: five lists, of which two count first and three ask for rows and total at once.
  `seen`, `start` and `drift` are the reader's (history).
- `Reports`: the queries of a `Promise.all` are answered in any order. `Place`, `Move` and
  `DeleteOrder` are all that `OrderLifecycle` can do to an order with overlap: `Follows` is
  `PaymentGate`, so a stale handler may write over `refunded`. `came` collects the orders that
  were placed, or taken out of `refunded`, since the report was asked for (history). A total
  may be below zero.
- `Backups`: a slot is a process. A file is a time and a form; a process that fails leaves
  its file half written, and the script counts that file like any other.

## 3. Runs

| Run | Instance | Shows |
|---|---|---|
| `orders_serial` | 2 orders, 1 exclusive product, every route, failures, no overlap | `TypeOK`; the table implements `OrderStatus` (`FollowsLifecycle`); a refunded order stays refunded (`RefundIsFinal`); no order for a sold exclusive product (`SoldNotOrdered`) |
| `orders_overlap` | 1 order, 2 slots, failures, all routes but product edits, Stripe and MoMo | `LegalHistory`, `PaymentGate`, `MoneyBackOnRecord`, `SoldNeedsPayment`, `ConfirmSells` |
| `orders_live` | 1 order, 2 slots, 2 products, no failures, fairness | `HandlersFinish`, `PaymentWithdraws` |
| `orders_bought_twice` | 2 orders, 1 slot | violated: `BoughtOnce` |
| `orders_unsold` | 1 order, 1 slot | violated: `OrderingWithdraws` |
| `orders_stale_event` | 1 order, 1 slot | violated: `RoomIsCurrent` |
| `downloads_overlap` | 1 token, 2 products, 3 object names, 2 slots, local disk, failures, refusals | `TypeOK`, `CopiesAreLogged`, `OverlapBounds`, `NoFileUnpaid`, `RowsAreBacked`; rows and objects implement `FileShelf` (`OneShelf`) |
| `downloads_twice` | 1 token, 1 product, 2 slots, CDN | violated: `OneDownload` |
| `shop_serial` | 1 order, 2 products (1 exclusive), 1 slot on each side, S3, orders fail | `OneDownload`, `TablesAgree`, `RefundEndsDownloads`, `OrdersAreItsEnvironment` |
| `services_serial` | thirteen services, no overlap | `TypeOK`, `CartIsExact`, `RepliesAreHeard`, `CacheIsExact` |
| `services_overlap` | thirteen services, 2 slots | `LockFollows`, `WrongIsBounded`, `BanStopsLogins`, `LinkIsSpent`, `AdminsSurvive`, `NothingIsMadeUp`, `CodesSettle`, `ReferredOnce`, `EmptyForAReason`, `EditsKeepToTheirFields`, `NothingIsMissed`, `MissesAreExplained`, `NewestStay`, `PartsAgree`, `StaleIsBounded` |
| `rooms_limit` | 2 sockets, a limit of 2 | violated: `OverLimitIsClosed` |

*The services side by side.* The services of `Services` share no column: the lock, the
session, the account, the wish list and the referral code are fields of one `users` row, but
no two services write the same one, and an update writes the fields it names and leaves the
others. Where one service takes a row away from another, the model of the other has a step
for it (`Cascade`, `DeleteProduct`) or fails there. So their composition needs no
interleaving. A behaviour is about one of them, chosen at the start in `service`, and the
states of the run are the sum of theirs and not the product. `MCServices` gives the values.
Its two configurations differ in `Overlap`; `Some(small, large)` makes the instances of the
serial run larger. `Reports` only reads, so one report at a time, with writers between its
queries, meets all it can meet.

*What the serial run says, and the overlapping one.* What a service promises one request at a
time is often lost when requests overlap: an addition to the cart is lost, a reply is not
heard, the cache is wrong. Such a property is in the serial run and says nothing about the
races; `hazards` does not list it for them. The overlapping run states what is left: an item
of the cart holds no more than the positive quantities that were asked for, and no less than
the negative ones; stale resets of the lock cost a bounded number of wrong codes
(`n * (MAX_FAILED_ATTEMPTS - 1) + (n * (n - 1)) \div 2` where `n` run together, which
TLC meets exactly for one, two and three); a reset link, a ban and a referral are
exceeded by the requests in flight and no more; the cache is wrong for as long as an entry
lives. Failures are on in both runs for most services; they are off for serial tickets, where
a failure leaves a reply unheard, and for `Lockout`, where a login that stops between
counting and locking leaves the lock to the next.

*What a reset and a bundle promise.* Either begins by deleting, so one request is enough to
leave nothing: a list that is empty, a repeated or refused entry, a handler that stops.
`AdminsSurvive` and `EmptyForAReason` say that there is no other way, and that overlap adds
none. A reset creates its accounts one by one and stops at the first entry that `create`
refuses or that its list repeats, the repeated one being already there; up to that one every
address has a row when all resets have ended, if they have the same list. It matters that the
address is not repeated *anywhere* in the list: of two resets with `<<ann, bob, ann>>`, one
may meet the row that the other has just made of the last entry, and stop at the first. With
different lists only the first address of the last list is sure. A reset that failed is made
good by the next one only, and so the property leaves it out. A bundle is without products
between requests only if `emptied` says why: by the request's own list, by a failure between
the two statements, or because its last product was deleted.

*What a report promises.* Its months are of the paid orders at one moment and its revenue of
all but the refunded ones at an earlier one. The months exceed the revenue at most by
`Leeway`: the orders that came in between, and the totals below zero, which lower a revenue
they are part of and not the months.

*Why the bounds are enough.* Orders never look at each other; they meet through an exclusive
product, so two orders and one product show every conflict between them, and one order shows
every conflict between handlers of that order. A conflict here is between a handler that has
read and one that writes, so two slots produce each of them, and slots are used again.
`Keys` bounds the objects that exist at one time: names that nothing refers to are used
again, and `downloads_overlap` has one for each row and one for an upload in flight (an
upload that finds none free is one the store refuses). `LIST_TTL` and `ITEM_TTL` are the
real ones, in minutes, in `services_overlap`; `age` stops at `Oldest`, beyond which no entry
lives. `MAX_FAILED_ATTEMPTS` is the real five. `MAX_ID`, `MAX_ITEM`, `MAX_ROWS` and `MAX_TIME`
bound what is ever inserted, drawn or written: `MAX_ID` lets two addresses be created twice
over, `MAX_ITEM` lets a quantity be added twice and taken back twice, `MAX_ROWS` makes three
pages of two, `MAX_TIME` makes files beyond `KEEP` for two processes. `KEEP` is 2 for 14
files, `LIMIT` 2 for a page, `POINTS` 1 or 2 for 30 events: each is compared with a count that
the instance exceeds. `MCAdminLists` has two orders of two addresses, lists that repeat one,
an empty list and a refused entry; `MCQuantities` a positive and a negative quantity, and zero
in the serial run; `MCTotal` a total above and one below zero. Tokens and codes are drawn once
each.
`Symmetry` is used for the interchangeable constants of `Downloads` and for the slots of
`MCServices`, and only for safety.

*Fairness.* `orders_live` assumes weak fairness of `Continue(r)` for each slot: Node's event
loop resumes every handler whose statement has been answered. Nothing is assumed about new
requests, about the gateway's answer (any answer will do) or about deletions. The run has no
failures: a handler that dies does not end by itself, and a payment it recorded withdraws
nothing. `RemoveProducts` is off there, since a product that is gone cannot be withdrawn.

*Deadlock* is checked in every run but the two of `MCServices`: a slot at rest can always take
a request. In `MCServices` a behaviour ends where ids, tokens or codes of the instance run out.

*What the violated properties mean.* `BoughtOnce`: two pending orders for one exclusive
product are both confirmed, even one request at a time, because the flag is read when an
order is placed; `TONG_QUAN.md` says a second purchase is refused. `OrderingWithdraws`: the
same document says (line 113) that `POST /api/orders` itself marks a product as exclusive and
sold if need be; `create` writes no product, and only `confirmPayment` does, so an exclusive
product in a pending order is still for sale. `SoldNeedsPayment` states what the code does
instead, and its mutant is the documented route. `RoomIsCurrent`: after a bulk update the
last event carries the status before it. `OneDownload`: two overlapping downloads both pass
the check of the log; the country look-up widens the gap to two seconds. `OverLimitIsClosed`:
`docs/rate-limiting.md` says that a connection over the limit is told so and disconnected; the
gateway tells it, drops the message and leaves it connected.

## 4. Theorems

All are proved by TLAPS for every value of the constants, from the named assumptions in the
modules (flags are Boolean, sets are contained as declared, `None` is not a value, and slots
are finitely many where they are counted) and from what is named here with a theorem. Each
states a property that a run checks, of the specification that the run checks.

*`OrderLifecycleProofs`*: whatever overlaps, fails or repeats.

- `TypeCorrect`: `TypeOK` is inductive.
- `HistoryIsLegal`, `RefundsAreOnRecord`, `PaymentGateHolds` rest on one invariant,
  `SafetyInv`. `LegalHistory` is not inductive: a handler that is about to write trusts what
  it read. The strengthening records just that: a confirmation holds an order that was
  pending, an update holds orders that had the status it saw, that status allows its goal,
  and a refund is asked for an order whose `visited` already has `refunded`. Since `visited`
  only grows, what a handler has read stays true of the past, if not of the present; hence
  these theorems speak of history and hold with any overlap.
- `SoldIsPaidFor` and `ConfirmationsSell` assume that no administrator edits the flags
  (`"editProduct" \notin Routes`), and rest on `ProductInv`: each product that a confirmation
  has passed is sold, gone or not exclusive, and stays so.

*`OrderSerialProofs`*: one request at a time (`Overlap = FALSE`), failures included.

- `SerialFollowsLifecycle`: the detailed specification implements `OrderStatus`, with the
  identity as refinement mapping; each step is a step of `OrderStatus` or a stutter.
- `SerialRefundIsFinal`. Both rest on `SerialInv`: at most one slot is active, and what it
  has read is still what the table says.
- `SerialSoldNotOrdered` (`SoldNotOrdered`). `CheckedInv`: the products that an order in the
  making has gone past are not sold, since whatever else writes a product waits.

*`DownloadsProofs`*: whatever overlaps, fails or is refused, but for the two that say so.

- `DownloadsTypeCorrect`: `TypeOK` is inductive.
- `NoFileIsUnpaid`: a handler past its check, or a log, belongs to an order that is neither
  new nor pending, and by the environment's rule no order becomes so again.
- `FilesFormOneShelf`: rows and objects implement `FileShelf`. `ShelfInv` says that rows name
  different objects and that an object stored and not yet published is named by no row and by
  no other handler; deleting an object thus empties one shelf at most, and publishing fills an
  empty one.
- `RowsHaveObjects`: `RowsAreBacked`. `BackedInv` adds that an object about to be dropped is
  named by no row but the one its handler has read, and that an object about to be published
  is there and no handler drops it.
- `EveryCopyIsLogged` (`CopiesAreLogged`) and `LogsAreBounded` (`OverlapBounds`), for finitely
  many requests. Neither is inductive; `TallyInv` counts the handlers at two places: copies
  and handlers about to hand over are together at most the logs, logs and handlers about to
  log at most the requests. A handler goes to log only when there is no log yet, hence the
  second bound.
- `SerialOneDownload` (`Overlap = FALSE`): `OneDownload`, which `shop_serial` checks. Between
  the check of the log and the log itself no other handler moves, so a handler about to log
  finds the count at zero and one about to hand over finds it at one, with no copy handed over
  yet (`OnceInv`). With overlap the property is false: that is `downloads_twice`.
- `SerialTablesAgree` (one request at a time, no failure, no refusal): `TablesAgree`, checked
  there too. `AgreeInv` describes the store at every statement and not only between requests: it holds
  the objects that rows name, but for the one just unlinked, and the one just stored; each
  log has its copy, or a handler about to hand it over.

*`ShopProofs`*: the two over one order table.

- `ShopHasDownloads` (`OrdersAreItsEnvironment`), whatever overlaps and fails: a step of
  `OrderLifecycle` moves the orders as the environment of `Downloads` may, by the step behind
  `PaymentGateHolds`. So every theorem of `DownloadsProofs` holds of the shop.
- `ShopRefundsEndDownloads` (`Overlap = FALSE`): `RefundEndsDownloads`. `ShopInv` adds to
  `SerialInv` that a download past its check has an order that is paid.

*`ServicesProofs`*. A behaviour of `Services` is about one service; each invariant below is kept
by the steps of its own service, and holds of `Services` as long as that one runs.

- `LockFollowsFive` (`LockFollows`), for any number of requests. Together with the types it is
  inductive (`LockInv`): it already speaks of the handlers in flight, and whichever of them
  counts the fifth wrong code goes on to the statement that locks.
- `WrongCodesAreBounded` (`WrongIsBounded`), for every number `n` of requests that run together.
  A lock that has run out is read as such by some, and each of them clears the count once, at
  a moment of its own. `LockTally` splits the handlers into those that will still clear it,
  those that may still count a code and those on their way to the lock: once a first of them
  has cleared it, twice the codes lost is at most `Lost(d) = (d - 1) * (d + 8)` when `d` of the
  `n` have no clearing ahead of them.
- `EditsKeepApart` (`EditsKeepToTheirFields`). `EditInv` gives the types of the table and of
  what is in flight, and says that a row that was never made is not there; a write lays just
  the fields of its own edit over the row as it is now.
- `ChatIsComplete` (`NothingIsMissed`). `ChatInv` adds that who is ready has joined a room of
  the chat, and stays in it until the socket closes.
- `NewestBackupsStay` (`NewestStay`). `BackupInv`: files have their own times, and whatever a
  process is about to delete was followed by `KEEP` files when it sorted, and since time only
  grows it still is.

*`AccountProofs`*

- `LinkSpends` (`LinkIsSpent`) and `BanStops` (`BanStopsLogins`), whatever overlaps and fails.
  Passwords written with a link and handlers about to write one are together at most the
  requests that run together, since nobody joins them once the token is gone (`SpentInv`);
  logins answered since the ban and about to be are fewer by the one that wrote it (`BanInv`).
- `AdminsStay` (`AdminsSurvive`), for any lists, with overlap and failures. `SeedInv`: since a
  reset, and until one fails or somebody signs up with an address of its list, each promised
  address that is missing is still ahead of some handler that finds all it has to create before
  that one missing too, and so does not stop before.

*`BuyerProofs`*

- `RepliesHeard` (`RepliesAreHeard`), one request at a time and without failures in this
  service. With overlap a ticket may be closed after the reply was read as open.
- `CodesAreBounded` (`CodesSettle`) and `ReferralsAreBounded` (`ReferredOnce`): codes given
  away, or referrals made, and handlers about to do so are at most the requests that run
  together, since nobody joins them once there is one (`CodeInv`, `AppliedInv`).
- `EmptyBundlesHaveReasons` (`EmptyForAReason`), with overlap and failures, for any lists: an
  empty bundle without a reason has a handler between its two statements, with a list that can
  be inserted and is not empty (`BundleInv`), or a product is deleted from under it, which is a
  reason.
- `CartAddsUp` (`NothingIsMadeUp`), with overlap and failures, for any quantities. `CartInv`
  relates the row that a handler read to the row there now: if it is still the same row, by its
  id, more may have been asked for or taken back since, but not less.
- `CartAddsUpExactly` (`CartIsExact`), one request at a time, failures and the parallel writes
  of a sync included: the writes that run together are about distinct products (`ExactInv`).

*`CatalogProofs`*: for any lifetimes, any filters of queries, any size of a page and any totals.

- `StalenessIsBounded` (`StaleIsBounded`), with overlap and the writers that pass the cache by.
  `AgeInv` adds that what a handler has read and not yet cached differs from the table only
  where a row has changed within this minute. This rests on the abstraction that no tick
  falls inside a request (section 2).
- `CacheStaysExact` (`CacheIsExact`), without overlap and without those writers: every entry is
  exact, or a handler is about to clear it (`CacheInv`).
- `WalksMissLittle` (`MissesAreExplained`), with rows added and deleted during the walk. A row
  is passed by when its place in the table moves to a page that was read. `PageInv` bounds
  the rows at passed places that were not seen by `drift`, and with them, while a page is being
  read, those beyond the total that was counted: a row that is added, or deleted, moves one
  row over each boundary at most.
- `ReportsAgree` (`PartsAgree`), for any number of orders, rows of the log and reports, any
  totals, with orders placed, moved by stale handlers, refunded and deleted between the queries
  of a report. `ReportInv` keeps, beside the revenue that was read, the orders it was read of:
  whatever earns now is one of them or came since the report was asked for. Each count that was
  taken lies between the rows there at the start and those there now. What remains is
  arithmetic of sums. `Sum` and `OverAll` are folds over a function that is chosen.
  `SumIsDifference` shows that such a sum is the difference of the sizes of two sets, of what is
  above zero and of what is below, each with as many elements for a summand as it says
  (`Units`). These differences are one function that adds one element after the other, and it
  is the only one, or take a smallest set at which two of them differ (`WFMin`, which needs no
  induction over an operator). So what is gained grows with the set of orders and what is lost
  does too, and the sums of parts that do not meet add up (`SumOfParts`). `ReportsAssumption`:
  months and countries are finitely many, and a total is an integer, of either sign; how a
  sum of `Float`s is rounded is not modelled.
- `ServicesAreTyped` (`TypeOK`), for all thirteen services, whatever overlaps and fails. The
  types alone are seldom inductive, since a slot says where a handler is and not what it
  holds: each service has a lemma (`CartIsTyped`, `RoomsAreTyped`, ... in the module of its
  proofs) whose invariant adds what a handler holds at each of its statements. For `Accounts`
  that is `AccountInv`; `SeedInv` comes on top of it.

*Only model-checked*: liveness, `HandlersFinish` and `PaymentWithdraws` (TLAPS has no support
here for fairness and `ENABLED`).

## 5. Not modelled

- *Newsletter* (a look and an insert: the unique column decides), *licenses* (views of orders
  and logs), *uploads* (one file under a fresh name), *maintenance mode* (a filter over a
  file), *guards, configuration*: nothing in them has an order to get wrong.
- Reads that change nothing: look-ups by token or e-mail, exports, the top and most recent
  downloads, the percentages of change.
- The checks themselves of passwords, codes and signatures: their outcome is an input.
- Prices, discounts, taxes and bundle prices; the wording of e-mails and events.
- `CouponService.use`, `ReferralService.recordReferralCommission` and
  `ProductsService.markAsSold`, which nothing calls. So a coupon's `maxUses` limits nothing.
- The counters of views and of additions to carts: single atomic increments.
- The audit table outside `Records`: its failure is one of the failures of a handler.

Promised by nobody, and therefore no property: a registration that stops before it stored its
token is never completed; a product stays on sale after a confirmation that stopped; a
change may stay unlogged; with overlap a link to a provider's profile may be written over
another, a toggle of the wish list lost, a closed ticket left with an unheard reply. The
models reach these states.

## 6. Plan

Modelled and checked: everything in the table of section 2. Proved: what section 4 lists,
which is every safety property of the passing runs. Next, in this order:

1. `Shop`: `RefundEndsDownloads` with overlap, as a bound on the requests in flight.
2. `OrderLifecycle`: `RefundIsFinal` with overlap (a stale handler overwrites `refunded`), as a
   bound on the requests in flight.
3. `Reports` with the rounding of `Float` sums, in the form of a bound on the error.
