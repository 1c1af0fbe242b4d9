# A verification project for hotel_ms

hotel_ms ("allStay") is a hotel booking service: a FastAPI back end over
PostgreSQL (a primary and streaming replicas behind PgBouncer), Redis (caches,
rate limiter, Celery broker, publish/subscribe), Celery workers, and a React
client. Two back-end replicas run two gunicorn/uvicorn processes each, and the
synchronous handlers of a process run on a thread pool, so any two requests may
interleave between any two of their SQL statements or Redis commands. Processes
are replaced after a thousand requests, on deployment and when they die.

This directory holds TLA+ modules that model parts of that program, TLC
configurations that check them on small instances, and proofs for TLAPS of
theorems that hold on every instance. `PROJECT.json` lists runs, theorems,
hazards and, for each definition, the source lines it stands for.

All paths below are relative to `src/backend/app/` unless they say otherwise;
those of the browser's part (components, contexts, pages) to
`src/frontend/react-app/src/`.

## 1. Inventory

| Component | State it keeps | Operations | Where it is hard |
| --- | --- | --- | --- |
| **Booking lifecycle** (`api/v1/user/bookings.py`, `api/v1/admin/bookings.py`, `repositories/booking_repository.py`) | `bookings` rows: room, stay, status | create, cancel, check-in, check-out, status override | availability is checked and the row inserted in different statements; a status is loaded, tested and written in different statements; no row lock, no exclusion constraint |
| **Availability queries** (`services/availability.py`) | none; reads `rooms`, `bookings`, `blackout_dates` | `get_available_rooms` | two statements with two snapshots; half-open intervals |
| **Payments** (`services/payment.py`, `repositories/payment_repository.py`) | `payments` rows; the card at the gateway | pay: create pending, charge, record, confirm the booking | four commits around an external charge; a booking may change while its card is charged; a crash between any two |
| **Blackout dates, room activation** (`api/v1/admin/blackout_dates.py`, `rooms.py`) | `blackout_dates`, `rooms.is_active` | create, delete, (de)activate | committed between the queries and the insert of a booking |
| **Request sessions** (`middleware/auth.py`, `core/database.py`) | one SQLAlchemy session per request | begin, commit, roll back | what an identity map remembers across commits decides whether an UPDATE is sent |
| **Notifications** (`repositories/notification_repository.py`) | `notifications` rows | write on check-in and check-out; read, mark read | written after the status was committed |
| **Availability cache, room search** (`services/cache.py`, `api/v1/public/search.py`, `tasks/batch_tasks.py`) | Redis keys `avail:hotel:in:out` | look up, fill, warm up, delete around a booking, expire | fills race deletions; fills read a replica; several writers delete nothing; a deletion is six commands |
| **Token-bucket limiter** (`components/token_bucket.py`) | a Redis hash per client and path | one atomic script | the clock is read by the caller, not by the script; keys expire; fails open |
| **Hotel catalogue and search index** (`api/v1/admin/hotels.py`, `tasks/indexing_tasks.py`, `services/search.py`) | `hotels` rows, two Redis keys, a Meilisearch index | create, update, delete, list, get, re-index, drop from index | cache-aside fills race deletions; index tasks run late, twice and out of order |
| **Sessions and tokens** (`api/v1/public/auth.py`, `services/token_blacklist.py`) | blacklist in Redis, one-time tokens in PostgreSQL | login, refresh, logout, verify e-mail, reset password | test-then-set of `used_at` |
| **WebSocket fan-out** (`services/websocket.py`, `api/v1/ws.py`) | connections per process, one subscription per process | connect, disconnect, publish, deliver | listener death; publish failure falls back to local delivery |
| **Guest accounts, loyalty** (`api/v1/admin/users.py`) | `users` rows | points, tier, ban, VIP | read, change, write without a lock |
| **Profile and photo** (`api/v1/user/profile.py`, `services/storage.py`, `pages/user/ProfileManagement.jsx`, the profiles of admin and staff; `edit_user` of `api/v1/admin/users.py`) | `users.photo_url`, stored files, profile cache; the page and the menu | upload, delete, update, Google's picture; an admin's edit | three systems, no transaction; a second writer of the row that knows nothing of the cache |
| **Reviews, wishlist** (`api/v1/user/reviews.py`, `wishlist.py`) | rows | submit, edit, remove | check, then insert |
| **Pricing** (`services/pricing.py`) | `pricing_rules` | price a stay night by night | rule choice at the boundaries of rules |
| **E-mail tasks** (`tasks/email_tasks.py`, `services/email.py`) | Celery queue | send, retry | the sender swallows the exception the retry waits for |
| **Client session** (`contexts/AuthContext.jsx`, `services/api.js`, `routes/PrivateRoute.jsx`, the sign-in pages) | token and profile per tab; token and cached profile in `localStorage`, shared by tabs | load, sign in, register, Google's callback, sign out, 401 | answers arrive after the state they belong to is gone; a 401 to an old token removes a new one |
| **Socket, toasts, saved rooms** (`contexts/SocketContext.jsx`, `NotificationContext.jsx`, `WishlistContext.jsx`) | one WebSocket and its timer; toasts; hearts | connect, drop, reconnect; toast; load, toggle, switch back | timers and sockets of a session that is over; hearts switched before the server answers |
| **Pages of rows** (`pages/admin/**`, `pages/staff/**`, `pages/user/**`: fifteen pages) | a list, a busy marker, a dialog, counts | read the list; change, add, delete a row | calls overlap; what a click was computed from is stale; a call fails after the server has acted |
| **Guest panel** (`pages/admin/guests/GuestIntelligence.jsx`) | a filtered list, a panel with one guest's profile, notes, bookings | open, close, change flags, notes | answers land in whichever guest's panel is open |
| **Activity feed** (`pages/admin/system/ActivityLogs.jsx`) | a page of the log, entries held back | filter, page, poll, show what was held back | polls, loads and writes interleave |
| **Reports, dashboards, calendar, rooms** (twelve pages) | figures for a chosen period | choose, refresh, export | figures under a period they are not of |
| **Search** (`components/public/BookingSearchBar.jsx`, `pages/public/SearchResults.jsx`, `Hotels.jsx`) | suggestions, results, hotels, rooms, address | type, search, load more, open a hotel, back | answers overtake each other; the address and the mode disagree |
| **Checkout** (`pages/public/RoomDetails.jsx`, `Booking.jsx`, `BookingConfirmation.jsx`, the calendar and the counter) | dates, steps, attempts | pick days, book, pay | booking and payment are two calls, each of several statements at the server; a page is left in between, or gives a call up that the server carries out; the price changes meanwhile; days lost in time zones |

How they interact. A search asks the cache, on a miss the availability queries
(on the replica), and fills the cache. A booking asks the availability queries
(on the primary), inserts, and deletes cache keys. A payment confirms a booking;
check-in completes it; cancellation frees its nights; the status endpoint does
any of this by hand. Blackout dates and room activation change the answers of
the queries and tell nobody. Every request first passes the limiter. In the
browser one router mounts one page at a time, under providers that live as long
as the tab and follow the session; a page calls the server, and its handlers run
to their end whether or not the page, or the session, is still there. Almost no
handler asks whether its answer is still wanted, so most of what is hard in the
browser is one question: what has changed between the call and its answer?

What would make each modelled component correct:

* *bookings*: two bookings that are not cancelled never share a room for a
  night; nothing is confirmed or completed without money, or staff; statuses
  follow a lifecycle; a closed night is not sold.
* *payments*: the record and the gateway agree; a payment is settled; a charged
  card confirms its booking.
* *cache*: what a booking makes wrong goes away at once, and everything else
  within the entries' lifetime; a hit does not resurrect rooms.
* *limiter*: never above the rate, and no refusal below it.
* *catalogue*: an entry or a document that differs from the row has a cause that
  will pass, or a failure; a hotel that is gone leaves no trace.
* *session*: the profile shown is the token's account's; a token is removed only
  when it is no longer good, or wanted; no spinner for ever.
* *providers*: one socket, of the session of the moment; hearts agree with the
  server.
* *pages*: what is shown is the server's, under the heading it is of; what a
  click does is what it meant; and each exception has a cause in the code that
  can be named.
* *checkout*: the stay booked is the one clicked, the price charged is the one
  shown, nothing is paid twice, and no booking is left behind that nobody pays.
  The code keeps none of the last three without exceptions; the property names
  them.

The properties of the browser's modules have one form: *a wrong view comes about
in the listed ways only*. The code gives no stronger promise, since it guards
almost nothing. Every item of a list is a line of the code. That nothing else
goes wrong is a statement about the model: about the handlers, answers, failures
and writers that section 2 names, in any order. A writer that the model does not
have would add to the list; section 6 says what is left out.

`PROJECT.json` lists the hazards, each at its line, and the properties that
cover it; a hazard without one says why it has none.

## 2. Modules

| Module | Models | Notes |
| --- | --- | --- |
| `Availability` | the SQL of `get_available_rooms` | operators on sets of rows; no variables |
| `BookingLedger` | the abstract lifecycle of bookings: a payment is captured once, for one booking, and confirms it at most once; nothing else confirms; only what has been confirmed is completed | what the handlers promise, without requests, sessions or crashes |
| `Bookings` | booking, payment, check-in/-out, override, blackout and room handlers | EXTENDS `Availability`; implements `BookingLedger` |
| `MCBookings` | instances for TLC | |
| `BookingsProofs` | theorems about `Bookings`: money, the ledger, what availability checks have seen | |
| `AvailabilityCache` | cache, search, warm-up, replica, against bookings | EXTENDS `Availability`: the same queries, other readers |
| `MCAvailabilityCache` | instances for TLC | |
| `AvailabilityCacheProofs` | theorems about `AvailabilityCache` | |
| `TokenBucket` | the limiter | checked as it is |
| `TokenBucketProofs` | theorems about `TokenBucket` | |
| `HotelCatalog` | hotel rows, their two cache keys, the search index and its tasks | stands alone |
| `MCHotelCatalog` | instances for TLC | |
| `HotelCatalogProofs` | theorems about `HotelCatalog` | |
| `ClientSession` | token, profile, storage, routes of a tab among other tabs | stands alone |
| `ClientSessionProofs` | theorems about `ClientSession` | |
| `Providers` | socket, toasts, saved rooms, under a session | the session as `ClientSession` changes it |
| `ProvidersProofs` | theorems about `Providers` | |
| `RowPages` | fifteen pages of one scheme, as a table of controls | stands alone |
| `RowPagesProofs` | theorems about `RowPages` | |
| `GuestPanel`, `ActivityFeed`, `ReportViews`, `HotelSearch`, `Checkout`, `ProfilePhoto` | one page, or a few, each; `ProfilePhoto` with the server's side in full | composed by `Router` |
| `Router` | the six page modules under the one router, one mounted at a time | INSTANCE of each |
| `RouterProofs` | theorems about `Router`, whichever page is mounted | the page modules declare no `Spec` of their own |
| `MCClientSession`, `MCProviders`, `MCRowPages`, `MCRouter` | instances for TLC | |

### Bookings

A *worker* is a thread serving one request at a time; `req[w]` holds what its
handler carries between statements. Each action is one SQL statement that reads
shared rows, or one commit, with the Python code around it:

| Code | Actions |
| --- | --- |
| `create_booking_endpoint` | `StartCreate` (room, hotel-wide blackout query), `QueryRooms` (room query), `InsertBooking` |
| `cancel_booking_endpoint` | `StartCancel`, `WriteStatus` |
| `check_in_booking` | `StartCheckIn`, `WriteStatus`, `WriteNotice` |
| `check_out_booking` | `StartCheckOut`, `WriteNotice` |
| `update_booking` (status endpoint) | `StartOverride`, `WriteStatus` |
| `process_payment` | `StartPayment`, `OpenPayment`, `ChargeCard`, `RecordPayment`, `ConfirmBooking` |
| blackout and room endpoints | `CreateBlackout`, `DeleteBlackout`, `DeactivateRoom`, `ActivateRoom` |
| a process or connection that dies, an exception | `Crash` |

SQLAlchemy decides what an UPDATE does. In `update_booking_status` the session
remembers the status it loaded: if the new status is the same, no UPDATE is
sent, although another request may have changed the row since; if it differs,
the UPDATE overwrites whatever the row holds. `WriteStatus` keeps the loaded
status for this. In `process_payment` the earlier commits have expired the
booking, so `ConfirmBooking` always writes.

Prices, guests and the text of notifications are left out: no decision here reads
them. Ownership tests (`user_id`) are left out: they only narrow who may call.
Requests that end in a 4xx without writing are left out, except a refused card
and an unavailable room, whose requests have taken steps.

Five variables are history (`evidence`, `revived`, `confirmed`, `overridden`,
`orphaned`); no action reads them. They say *why* a state came about: which rows
a booking's availability check saw, which bookings came back from "cancelled",
which have been "confirmed" at some time, whose status staff have set, which
payments lost their request.

`BookingLedger` is implemented with `captured` as the succeeded payments, each
with its booking, and `due` as those whose request has recorded the charge and
not yet confirmed. A check-in therefore has to have seen "confirmed" itself: a
desk that asked for a payment only would complete a booking that was paid,
cancelled and never confirmed, which the ledger refuses (this is the mutant).

### AvailabilityCache

The log of committed versions of the tables; the replica is a position in it.
`Hit`/`LoadHit`/`Answer` and `Miss`/`QueryHotel`/`QueryRooms`/`SetEntry` are the
two halves of `search_available_rooms`; `WarmUp` starts the same fill from
`hourly_cache_warmup`, which reads the primary. `InsertBooking` and
`CancelBooking` commit and then `DeleteKey` runs once for each of the six
deletions of `invalidate_availability`, in the order of its loop; `Fail` leaves
it anywhere. `OverrideStatus`, `ChangeBlackouts` and `ChangeRoom` commit and
delete nothing. Creating a booking is coarser here than in `Bookings` (one
check, one insert), because the property is about what follows the commit. The
search endpoint does not validate its dates; only stays that end after they
begin are modelled, as no booking has another.

### TokenBucket

One bucket. `ReadClock` is `time.time()` in the caller, `RunScript` the Lua
script, which Redis runs atomically, `FailOpen` the exception path, `Tick` the
passing of time and the EXPIRE of the bucket. Between a reading and its script
other processes may overtake. A process whose clock is slow is a call that is
late. History: `last`, `rewound` and `admissions` give the *effective time* of
an admission, the time by which the bucket runs: the wall clock, plus all the
time that was refilled twice because a reading went back.

### HotelCatalog

A row is its version. `Steps` is the order of commands in the three write
handlers; `Commit`, `Refresh`, `Enqueue` and `DeleteKey` take them one by one,
`Fail` stops anywhere. `Results` is what SQLAlchemy does when the row has
changed since it was loaded: an update without changes sends nothing, one of a
row that is gone raises, a deletion of a row that is gone goes on, and
`db.refresh` raises when the row went in between. `StartRead`/`ReadRows`/
`SetEntry` are the miss paths of the list and the detail endpoint. Celery is a
queue and several processes: `Take`, then `ReadHotel`/`WriteIndex` for
`reindex_hotel` or `DropDocument` for `delete_hotel_index`; `CrashRunner` is a
process that dies, whose task comes back at either end of the queue or not at
all. Failures that `services/cache.py` and `services/search.py` swallow are the
second disjuncts of `DeleteKey`, `SetEntry` and `Reflect`. A document is in the
index when Meilisearch has accepted it; it works off what it accepted in order.
History: `raced`, `skipped`, `lost` and `newest` say why an entry or a document
is wrong.

### ClientSession

`tab[t]` is the React state and the location of a tab; `access` and `cache` are
`localStorage`. A call carries the token storage held when it left (the request
interceptor). `Load` is a page load with the mount of the `AuthProvider`;
`Routed` is what `PrivateRoute` makes of a state on each render and is part of
every action that changes one. `SubmitLogin`, `SubmitRegister` and
`ReturnFromGoogle` begin a sign-in, `SignedUp` and `SignedIn` are their answers,
after which the profile is read (`welcome`). `Refused` is a 401 with the
interceptor's effect on storage and, from some pages, a reload. `Elsewhere`
stands for the tabs outside `Tabs`: they reach a tab only through storage, and
nothing in the code listens to it. The account of a token is `owner[token]`,
because `decodeJwt` is a function of the token.

### Providers

`SignIn` and `SignOut` change the session and run every provider's effect, as
one render commits them: `Rewire` is the socket effect's cleanup and its new
run, `Reload` the wishlist's. `Open`, `Drop`, `Reconnect` and `Push` are the
socket's events; `ShowToast`, `EndToast` the toast's; `Toggle`, `Serve`,
`Answer`, `Fail` a heart's, with `Serve` the server's side, so that a call may
fail before or after it took effect. History: `doubt`, the rooms whose heart
calls have left uncertain; every way into it is named where it changes.

### RowPages

The fifteen pages are one program written fifteen times. A `Control` says for a
button what its handler calls, which marker disables it, which marker it sets,
what the answer does to the list (replace the row by the returned one, by an
assumed one, drop it, append) and whether a dialog comes first; a page is its
set of controls. Guards of the markup (`Offered`), arguments computed from the
row as shown (`Arguments`) and the server's side (`Served`) complete the table.
The actions (`Enter`, `Return`, `ChooseTab`, `Click`, `OpenDialog`, `Submit`,
`Serve*`, `Succeed`, `Fail`, `ListArrives`, ...) are the scheme. A row is its
flags and a version of everything else. `busy` has one slot per marker and page,
as the code does: a second row's call takes it over. A call outlives the visit it was
made in (`Return`): the server still carries it out, its answer is lost.
A count that has not been read, because its call is out or has failed, is made
up from nothing by the first change that comes to be "pending" (`OneMore`), as
the code does on an empty object. History: `doubt` and `miscounted`.

### GuestPanel, ActivityFeed, ReportViews, HotelSearch, Checkout, ProfilePhoto, Router

Each page module has one action per handler, per answer and per failure, plus
the server's side of its calls and what others change there. In `GuestPanel` a
change's answer goes to `prev`, whoever that is; `Forget` is the 300 ms timer of
`closePanel`; history: `chosen`, and `doubt`, the guests whose flags the panel
may show wrongly. In `ActivityFeed` the newest entry known (`latestIdRef`) and the
entries held back are kept apart from the list, as in the code. `ReportViews` is
a table again: what each of twelve views reads at which choice, whether its
calls are awaited together, what a failure leaves, what the spinner covers (of
the dashboard's reports the occupancy, and not the revenue chart).
`HotelSearch` has the search bar, the results and the hotels, with the address
and the back button. `Checkout` has the calendar with its conversions between
days and strings, the picker with a copy of its own, three steps, and
`handleConfirm` as two calls with an await each. The server's side is in
statements, as coarse as the guest can tell apart: `Query` looks for the room's
bookings and reads the price, `Insert` writes the row; `LoadPayment` loads the
booking, `Charge` charges and confirms, or the process dies once it has charged.
So two tries of one guest, made from two mounts of the page, may both be booked
and both be paid. A call that the page gives up (`AttemptFails`: axios after
15 s, an error on the way) stays at the server, which carries it out or not
(`CallEnds`). `Reprice` is an edit of the room or of a pricing rule: `quoted` is
the price the page was handed with the room, `rate` the server's.

`ProfilePhoto` follows each request through the steps of its handler, which are
kept in `todo`: `authenticate` loads the row, `put` and `delete` act on the
storage, `commit` writes the columns that differ from what was *loaded*,
`readBack` makes the answer, `purge` deletes the cached profile; a reading looks
in the cache and fills it. `Fail` ends a request after any step, `Delete`,
`Fill` and `Purge` may fail silently, as the code lets them. Requests come from
the page, which waits for them, and from the same user elsewhere, among them a
Google sign-in that replaces the photo. `AdminEdits` is `PUT /admin/users/{id}`:
it writes the same row and does not delete the cached profile; its load and its
commit are one step, because it writes the one column it was given. One number
stands for the text columns.
History: `halfway` and `why`.

`Router` is the composition: `mounted` says which module's page is up; the
others' variables rest. It restates each page's properties, so that a run checks
them of the composed specification.

### Mistakes

Some modules hold operators whose comment begins with "Mistake". Each is a
variant of the definition below it as a plausible bug would leave it (a dropped
guard, a missing reset, another order). Nothing uses them; putting one in place
of the definition makes TLC report the property that `PROJECT.json` pairs with
it under `mutants`, so that every property is known to be able to fail.

## 3. Runs

`tlc -workers 2 -config <cfg> <module>`

| Run | Module, cfg | Checks | Shows |
| --- | --- | --- | --- |
| `booking_races` | `MCBookings`, `BookingRaces` | `TypeOK`, `DoubleBookingExplained`, `ClosedStayExplained` | two requests at a time: a double booking comes only from the check-then-insert race or from reviving a cancelled booking; a closed night that is booked was closed after its query |
| `booking_payments` | `MCBookings`, `BookingPayments` | `StayFunded`, `MoneyAccounted`, `PaidButPendingExplained`, `ImplementsLedger`, `PaymentSettles`, `ChargeConfirms` | two requests about one booking, with two payments: money and status agree, the ledger is implemented, and payments get done |
| `booking_double` | `MCBookings`, `BookingDouble` | `NoDoubleBooking` (violated) | the race itself |
| `cache_replica` | `MCAvailabilityCache`, `CacheReplica` | `TypeOK`, `PurgedKeyFresh`, `AnswersActiveRooms`, `EventuallyTrue` | what deletion, loading by id and expiry each guarantee |
| `token_bucket_rate` | `TokenBucket`, `TokenBucketRate` | `TypeOK`, `WithinRate`, `RefusesOnlyOverRate` | the limiter enforces exactly its rate, by the bucket's own time |
| `token_bucket_double` | `TokenBucket`, `TokenBucketDouble` | `NoDoubleCounting` (violated) | the bucket's own time can run ahead of the wall clock |
| `catalog_cache` | `MCHotelCatalog`, `CatalogCache` | `TypeOK`, `CacheExplained`, `CachesSettle` | two requests and a Redis that may fail: every wrong entry has one of three causes, and entries settle |
| `catalog_index` | `MCHotelCatalog`, `CatalogIndex` | `IndexExplained`, `IndexSettles` | two writers, two Celery processes, a crash: every wrong document has one of three causes, and no correction stays due |
| `client_session` | `MCClientSession`, `ClientSession` | `TypeOK`, `StrayProfileExplained`, `StoredTokenKept`, `CacheOutlivesToken`, `SpinnerEnds` | how a tab comes to show another account's profile, what may remove a good token, and that no spinner stays |
| `providers` | `MCProviders`, `Providers` | `TypeOK`, `OneSocketOfTheSession`, `HeartsExplained`, `ProvidersSettle` | one socket or timer, of the session of the moment; every wrong heart has a reason; toasts and loading end |
| `row_pages` | `MCRowPages`, `RowPages` | `RowsExplained`, `TallyExplained`, `IntentServed` | fifteen pages: what the list shows, what a count says and what a click does, and when each may be wrong |
| `router` | `MCRouter`, `Router` | `StayExplained`, `PanelShowsChosen`, `FeedExplained`, `ReportExplained`, `ListsExplained`, `HoldsExplained`, `ProfileExplained` | the six page modules under the router: what is shown, booked, paid and stored goes wrong in the listed ways only |

### Bounds, and why they are enough

* *Bookings.* Conflicts are between two rows of one room, so there is one room
  and at most two bookings. The stays are two, of days 1 to 3 and 2 to 4: two
  bookings have equal stays or share one night. No pair is back-to-back, and the
  one closure, of day 2, falls in both stays and on no day of departure: what
  the queries do at those boundaries the runs do not show. That they
  sell no night twice and no closed night, for any stays and closures, is proved
  (`QueryClears`); that they refuse nothing they should not, no property says.
  Two workers give every interleaving of two requests; a third would have to
  matter to two others at once, and no handler looks at more than one other row.
  Two payments let a payment race another and itself. The proofs remove these
  bounds for every safety property.
* *Statuses.* In runs with overrides staff set "pending" only: it is the one
  status that no other action restores, and it reaches every guard again. The
  proofs allow every status.
* *Cache.* One room, one booking that is made, cancelled and revived, four
  committed versions, one key (a night of the booked stay, which is both deleted
  around the booking and warmed up), a hotel-wide closure. Four versions let a
  fill read before, between and after changes and let the replica be three
  behind. Keys meet only in the order in which one booking deletes them; the
  proofs allow any number of keys, stays and versions.
* *Token bucket.* Capacity two requests, a tick half a request, delay up to two
  ticks, eight ticks: long enough to fill, empty, expire (`Ttl` = 6) and fill
  again, with readings that overtake each other. `CHECK_DEADLOCK FALSE` is there
  because the clock stops at its bound.

* *Catalogue.* One hotel: requests about two hotels meet only in the list key,
  and two requests about one hotel meet there too. Created, updated once and
  deleted, it has every pair of versions that can overtake each other. The
  caches and the index share only the writers, so one run has readers and no
  Celery (three writes, whose tasks stay queued), the other Celery and no
  readers. One crash is enough for a redelivery behind a newer task.
* *Client session.* One tab, with the others as `Elsewhere`: a tab sees another
  only through storage, and `Elsewhere` makes every change of storage another
  tab can. A guest and an administrator, so that roles differ; two tokens, so
  that one can be stale; one call in flight besides a sign-in.
* *Providers.* Two accounts, two sign-ins (one over the other's open session),
  three sockets (one more than sessions, for a reconnection), one room, two
  wishlist calls: a load and a toggle, two toggles or two loads that overlap.
  The proofs allow any number.
* *Pages of rows.* Every page, two rows and one that is created, two calls at a
  time and three in all, and one event more: a second visit (or tab), which a
  call of the first outlives, or one change by somebody else. With them come a
  marker taken over by the other row and a failure after the effect. Three rows add nothing, because a handler reads one row and one marker.
* *Pages under the router.* Two of everything shown; two or three answers out at
  a time, which is what overtaking needs; in the guest panel no new guest and no
  new change is clicked while two are out, and clicks and changes by others are
  three in all, so that a change answered into an emptied panel, then a tab
  opened, are beyond the run; the proof covers them. The log has three entries and pages of
  two, so that a page can be full, short and second, and one poll: that a poll
  replaces the entries that wait takes a second, and is in the proof only. In the
  checkout two days can be clicked, two rooms counted, "Confirm" used twice, and
  three clicks change or leave what was chosen: with them come a booking left
  behind by a refusal, by a timeout before and after the insert, two bookings of
  one night from two mounts, a payment that brings a cancelled booking back, a
  price changed between page and booking; every exception of `HoldsExplained` is
  reached. East of Greenwich two days leave no room for the click that starts
  the choice over with an earlier day; it is in the proof only. The profile
  starts with or without a photo and has the first reading and two more requests, of the page, from
  elsewhere or of an admin, two out at a time besides the refreshes: every cause
  that `ProfileExplained` lists is a pair of requests or one that failed. A fourth
  click on the activity feed adds one cause to `FeedExplained` that three do not
  reach: a load fails on an empty list, the filter is changed, and the button
  fills the list with what was found under the earlier filter, so that the list
  has a gap; the property names it.

`CHECK_DEADLOCK FALSE` in the browser's runs: a visit ends when its clicks, calls
or sign-ins are used up.

### Fairness

`Bookings`: weak fairness of `Continue(w)` for each worker. A request that was
accepted runs on: the thread is scheduled and each statement returns or raises
(the card charge is simulated and always answers). Guests and staff owe nothing,
so `Start` and `Manage` have none; `Crash` has none, and the two liveness
properties except payments whose request crashed, since nothing in the code
picks them up. Weak fairness is enough: no step waits for another request.

`AvailabilityCache`: the same for accepted work, plus weak fairness of
`Replicate` (streaming replication is connected) and of `Expire` (every key is
written with SETEX and a TTL of 300 s). `EventuallyTrue` needs no assumption
that changes stop: `MaxVersions` bounds them.

`HotelCatalog`: the same for accepted work and for `Expire`, plus weak fairness
of `Process` for each Celery process: the worker is running and every call of
Meilisearch returns or raises. `MaxVersion` and `MaxCrashes` bound the changes.

`ClientSession`: weak fairness, for each tab and each kind of call, of the end of
such a call, whatever that end is: axios gives up after 15 s, and the answer,
the error and the timeout are the three ways a call ends. A tab that goes on
having calls of a kind sees one of them end; nothing is promised of one call in
particular. Nothing obliges the user. `Providers`: weak fairness of
the effect that toasts, of the reconnect timer, of each toast's timer, and of
some call's end, for the same reason. Servers owe nothing: a call the server
never sees ends by its timeout.

`TokenBucket`, `RowPages` and `Router` are checked for safety only: what their
pages wait for are calls, which end as above.

## 4. What is proved

`tlapm <module>` checks every proof. The theorems hold for every value of the
constants that satisfies the assumptions named in the modules.

**Bookings.** Assumed: stays end after they begin, `AllRooms` is no room,
closures are blackout dates, overrides are statuses.

* `TypeCorrect`, `MoneyIsAccounted`. The inductive invariant is `CoreInv`:
  types; `RequestInv`, what each request holds (rows that exist; a check-in has
  read "confirmed", and only staff can have made the row pending since);
  `PaymentInv`, which payment row and which charge each payment request is
  responsible for, and that no two requests share one. `MoneyAccounted` alone is
  not inductive: recording a payment is right only because the request that
  records it is the one that charged.
* `StaysAreFunded`. `FundedInv` adds that a check-in about to write, or about
  to notify, is for a booking with money or a mark of staff. It needs that a
  succeeded payment stays so (`BackedGrows`).
* `DoubleBookingsExplained`, `ClosedStaysExplained`. `EvidenceInv` says that
  what a check has seen stays cleared: every booking seen is disjoint from the
  stay, was cancelled or has been revived since, and no closure seen falls in
  it. `QueryClears` proves this from the query's own definition; later steps
  keep it because rooms and stays of rows never change.
* `HandlersImplementLedger`. Every step is a step of `BookingLedger` or leaves
  its variables alone, under the invariants above and `ConfirmedInv`: a booking
  that is confirmed, and one a check-in has read as confirmed and is about to
  complete, has been confirmed at some time. A crash between recording a payment
  and confirming its booking is the ledger's `Lapse`.
* `PaidIsConfirmed`, from `CoreInv` and the fact that `orphaned` grows.
* `SerialNoDoubleBooking`. With one worker, and overrides to "cancelled" only,
  `NoDoubleBooking` holds. These two hypotheses are stated in the theorem and
  each is needed: `booking_double` shows the first, and an override that revives
  a cancelled booking needs no second request. `SerialInv`: what the one request
  read is still so, of any two bookings one was there when the other was
  checked, and nothing has been revived.

**TokenBucket.** Assumed: a request costs something and fits the bucket; a
bucket idle for the expiry time less the longest delay would be full again
(`TtlAssumption`: with EXPIRE 3600 and the rates of `ROUTE_CONFIGS` a bucket is
full after 60 s, so calls may be late by almost an hour).

* `BucketTyped`, `AdmitsWithinRate`, `RefusalsJustified`. The invariant is the
  accounting of the bucket in effective time. `Upper`: from any admission on,
  the requests admitted and the tokens left are at most a full bucket and the
  refill since. `Lower`: from *some* admission on they are at least that, so
  a refusal has a cause. `Stored` and `Dropped` tie the hash and its expiry to
  the last script; `Dropped` is where `TtlAssumption` is used: a new, full
  bucket is no gift.

**Providers.** Assumed: null is no account and no room; the bounds are numbers.

* `ProvidersTyped`, `OneSocket`. `SocketInv`: the effect in force is that of the
  session of the moment; every socket that is open or opening is the one
  `wsRef` names; a timer waits only when there is no socket. The property alone
  is not inductive: a sign-in closes the socket it *knows*.
* `HeartsAreExplained`. `HeartInv` follows a call from the click to its answer: a
  room that is not in doubt has at most one call out, and it is the account's
  own; until the server has carried it out the heart is ahead of the server,
  from then on they agree; a load that has been carried out brings what the
  server still has.

**AvailabilityCache.** Assumed: keys and stays end after they begin, the warm-up
fills keys of one night, closures are blackout dates, there is a first version.

* `CacheTyped`: `TypeOK` is inductive as it stands, since it says what a request
  carries at each place of its handler.
* `PurgedKeysFresh`. `FreshInv` asks of an entry that it is the *truth*: of each
  booking whose last change deleted the key, it says what the tables said at
  some moments since (`Truth`), and it asks the same of each fill on its way to
  the cache (`FillsGood`), which is where the property by itself is not
  inductive. A fill that was under way when the key was deleted, or read a
  replica that was behind, is not "fresh", so that nothing is asked of it. The
  log only grows, and a deletion makes every fill of its key stale; both are
  lemmas (`LogGrows`, `Undeleted`).
* `AnswersActive`. `ActiveInv` follows the rooms of a hit from the reading of the
  cache to the answer: they are restricted to those active at a version no older
  than the beginning.

**HotelCatalog.** Assumed: finitely many workers; `AllHotels` is no hotel; bounds
are numbers.

* `CatalogTyped`. The queue has a bound in the model, and a write that has
  started is promised its place; so typing needs `Room`: tasks queued and tasks
  still to be queued fit together. It is a count over workers, which is why they
  are finitely many. `WritesGood` says that a write is its list of steps minus
  those done, `Sole` that nobody else changes a hotel that is being created.
* `EntriesExplained`. `CacheInv` asks of each fill what the property asks of an
  entry, and that a hotel that has never been has not been read (`Unborn`).
* `DocumentsExplained`. `IndexInv` says of each task that its version has been the
  row's (`TasksGood`), of each document that it is no newer than the row; from
  this a version that is neither in the index nor given up is one a task, or a
  request before its `enqueue`, still brings.

**ClientSession.** Assumed: the pages named in the code are among the locations,
and null is no user and no number.

* `SessionTyped`, with the fact that a call of the sign-in forms is somebody's.
* `StrayProfiles`, `StoredTokens`, `StoredProfiles` are about single steps. Each is
  proved action by action from the type invariant; the work is in what a render,
  a mount, an answer and a refusal make of a tab (`RoutedKeeps`, `MountedAs`,
  `EndedAs`), stated once and used by all.

**Router**, whichever page is mounted. Assumed: null is no number,
message, guest, place, hotel, view or profile; the views are among the twelve of
the table; bounds are numbers.

* `StaysExplained`. `StayInv` adds to the property that a second click is awaited
  only with a check-in and no check-out, and that the third step is reached with
  both: a picker that is taken down between two clicks must not leave half a
  stay behind as a whole one.
* `HoldsAlwaysExplained`, an action property. `HoldInv` follows each use of
  "Confirm" by its number: until its insert nothing is at the server under that
  number; afterwards there is one booking, with its nights, unpaid until the
  charge and paid from then on (`AttemptGood`). A charge is the price once, and
  the price is what the page showed if nothing changed it (`BookingGood`); the
  confirmation page shows a booking that was charged (`Confirmed`). That nobody
  pays twice for a night does *not* follow from the checks being exclusive, for
  they are not. `Looked` says what each check was worth: what the server saw was
  cancelled or had other nights, unless a payment brought it back since; and of
  two bookings from one mount the younger one's check saw the older, if that is
  paid or still may be. The latter needs that a page waits for one try at a time,
  its last (`Newest`, `Waiting`): the older try was given up, and with it its
  payment, unless that was at the server already, and then its booking was there.
  For an orphan, the try to blame is the one that takes the step (`OrphanOf`).
* `PanelAlwaysExplained`: `PanelShowsChosen`, an action property with a state part.
  `PanelInv` has what the state part needs: a guest not in doubt has at most one
  call about the flags out (`OneEach`), which is what `doubt` is for, since the
  panel disables nothing; a profile on its way is of its guest and as the server
  has it (`ProfileGood`); the flags shown are the server's until a change is
  carried out, and from then on what its answer will make of them is
  (`FlagsGood`). For the action part, no step but the end of a call shows
  anything wrong (`PanelUnharmed`), and each end is blamed for what it shows
  (`FailBlamed`, `AnswerBlamed`). The attempt showed that the list of causes was
  too short, beyond the bounds of the run: a change that is answered into a panel
  which a timeout has emptied makes a guest without a number, whose tabs then
  show another's notes and bookings. The property names that cause now, and no
  longer counts a tab as wrong while the reading of it is out.
* `ListsAlwaysExplained`: `ListsExplained`. Most of it compares a request with the
  heading when it ends, which needs only that requests are told apart by their
  numbers (`RequestEnded`). What needs an invariant is the list grown page by
  page: a further page that was asked for while nothing was being read, and after
  which nothing was asked for, is the page after the last one listed
  (`FurtherGood`), and the list ends with the page that was read last
  (`ListedGood`); otherwise a page could be appended twice without any answer
  being late. The timer behind the suggestions waits for one text (`TextsTyped`).
* `ReportsAlwaysExplained`: `ReportExplained`. `LoadGood`: the last load is for the
  choice of now; if nothing was out when it was sent it is alone, and no part it
  brings is older than the one shown. Hence older figures replace newer ones only
  after loads overlapped. `TableRows` is where the twelve views come in: which
  ones await their parts together, have an interval or an export, or a part the
  spinner does not cover.
* `ProfileAlwaysExplained`: `ProfileExplained`, for any number of requests, of the
  page and from elsewhere. `StepsLeft` and `StepTaken` say which steps are left of
  a handler and in which order; all else is about those. Storage (`FilesGood`):
  nobody knows the name of an upload's file before its commit, neither the row
  nor what another request has loaded, so that no other commit can name it or
  deletion take it; and what a request has deleted stays deleted until it
  commits. Then a missing file has a request to blame (`MissingGood`), and a
  commit leaves a file over only if it was overtaken or its deletion failed.
  Cache (`ProfileCached`): a request that changed the row still has its deletion
  to do. Page (`CleanGood`): as long as nothing crossed, changed elsewhere or got
  lost, one request of the page is out, what it has loaded or answers is the row,
  and an upload or a removal that has committed is what will bring the page to
  it (`Changing`); while the first reading is out nothing has changed at all
  (`Unmoved`), so that a cached profile it finds is the row. A save's number is
  followed from the loading of the row to the answer (`SaveGood`). An admin's
  edit leaves a cached profile whose photo is still the row's, and marks the
  number as changed elsewhere (`PhotoEdited`): the clauses about photos survive
  it, the one about the cache has it as its last cause.
* `FeedAlwaysExplained`: `FeedExplained`, for any length of the log and of a page.
  What the server answers is a list of numbers, newest first, with none left out
  between the first and the last (`Listed`): that every finite set of entries can
  be listed so is proved over its largest number, with a least counterexample
  instead of an induction (`Least`, `Enumerated`), and a page is a part of such a
  list (`PartListed`). `FeedInv` keeps this of every answer on its way while
  entries are written (`FeedWrites`), and what waits behind the button newest
  first. Then a list that is replaced by an answer to the question of now has no
  gap and no foreign entry (`FeedReplaces`); and a poll that keeps newer entries
  back leaves a gap only if others were waiting, or if all it found is newer, for
  with an entry at or below `latestIdRef` in it nothing between can be missing
  (`FeedKeeps`). The attempt showed the cause at the button that the bounds of
  the run do not reach (section 3).

**RowPages.** Assumed: the pages are among the fifteen; null, a refusal and the
number of the new row are no rows, row numbers, markers or marks; the statuses
other people set are the four statuses; the server has finitely many rows (only
the count needs it).

* `RowsAlwaysInv`, `RowsAlwaysExplained`. `RowsExplained` speaks of rows that no
  call is on, and so is not inductive: what a row is shown as when its call ends
  was settled when the call was sent, carried out and answered. `RowsInv`
  follows it. `ListGood`: a list on its way has every row as the server has it,
  unless the row moved since the list was taken. `SingleGood`: a row not in doubt
  has at most one call on it, of this visit; until the server has carried it out
  the list agrees with the server, from then on what its answer *will make* of
  the list does (`Present`, `RowAfter`). That there is only one such call is what
  the busy marker is for: either the control was disabled by it, or the row goes
  into doubt (`MarkerHeld`). For the modal page this needs that a dialog was
  opened when the marker was free (`DialogGood`). `NoticeGood`: the page of
  notifications disables nothing, so that its calls overlap; they agree all the
  same because each of them marks a row as read (`AllRead`).
* The lemmas about the tables (`ControlKind`, `ServedTyped`, `ServedAgrees`) are
  where the fifteen pages come in; everything after them is about kinds of
  answers. Three things came out of the attempts to prove it that the model had
  wrong: leaving a page must not take its calls out of flight, a click on a row
  must not send "read all", and a row made while a lost call on its number was
  still out took that call for its own.
* `ClicksAlwaysMeant`: `IntentServed`, an action property. It compares a call
  before and after the server carries it out; that they are one call is known by
  their slots (`Apart`). `SureGood` adds to `RowsInv` that a call that was sure
  when it was sent finds the server's row as the click saw it, as long as its row
  is not in doubt: nobody else changed it, and a second call on the row would
  have put it into doubt or been disabled. It has the page of notifications apart
  again, where calls overlap: there the row is the same up to being read, and
  reading twice is reading once. While a list is read, what a dialog keeps must
  be looked at too (`DialogsApart`): a form outlives the list it was opened from.
* `TallyAlwaysExplained`: `TallyExplained`. A count cannot be followed by its
  number alone: `Tallied` is the set it is the size of, each booking taken as it
  was while its change has been carried out and not been answered, as it is
  otherwise. `StatusGood` says of each change in flight that it is the only one
  on its booking and that the click saw the status the server had; so its answer
  takes out of the count what was in it and puts in what is there now
  (`TallyMoves`). `CountGood` is the same for a counting call on its way. A count
  made up from nothing is miscounted from then on, until a count is read.

**Only model-checked.** The liveness properties (`PaymentSettles`,
`ChargeConfirms`, `EventuallyTrue`, `CachesSettle`, `IndexSettles`,
`SpinnerEnds`, `ProvidersSettle`): liveness under fairness is out of reach of
the prover. Every other property of the runs that pass is a theorem. There is
no recursive operator in any module, so nothing is kept from the prover by its
form.

## 5. Findings

* **Double booking** (`booking_double`). `api/v1/user/bookings.py` queries
  availability (line 39) and inserts (50) in separate statements at READ
  COMMITTED; `src/backend/tests/test_bookings.py:80` says the second booking is
  rejected. It is, unless the two requests overlap in time. `booking_races` and
  the proofs show that this and revival are the only ways.
* **Double counting** (`token_bucket_double`). The limiter's header says that no
  race is possible and that nothing is counted twice across replicas. The clock
  is read outside the script, and an overtaken reading sets the refill time
  back. `AdmitsWithinRate` bounds the effect: time is gained only by as much as
  readings go back.

Two more disagreements between comment and code were met. They need no
concurrency, or are one of the causes a passing run lists, so that no run is
spent on them:

* `invalidate_availability` says it deletes the "exact key + surrounding window
  (±1 day overlap)" (`services/cache.py:104`). Its loop moves one end of the stay
  at a time and leaves out every key moved at both; such an entry offers the
  booked room until it expires. `cache_replica` has the loop as it is.
* The header of `tasks/indexing_tasks.py` (4-5) says that the index stays in sync
  with PostgreSQL. A task reads the row and writes the index in two steps, and
  tasks of several processes overtake each other: a deleted hotel comes back, or
  an old version stays, although every task has succeeded. `IndexExplained`
  names this as one of three causes.

In the browser no doc or test says what the pages promise, so that there is
nothing to contradict; but the properties had to admit these behaviours, which a
reader of the code may want to change:

* `DateRangePicker.jsx:31` writes local midnights with `toISOString`. East of
  Greenwich a chosen stay begins two days early and ends one day early.
* A payment that fails leaves the guest's own pending booking, which then
  refuses the same guest's next try (`Booking.jsx:118`). So does a booking call
  that takes longer than 15 s: the page says that it failed, and the server books
  (`api.js:8`); a payment that takes longer is charged. Leaving the page does not
  stop `handleConfirm`, and its `navigate()` takes the guest along later.
* A guest who leaves the page while it books, comes back and confirms again may
  hold, and pay for, two bookings of one night: the server looks for bookings
  before it inserts (`user/bookings.py:39`, `50`), and the page's `loading` is
  gone with the mount.
* The total on the page counts rooms, the server books one; it ignores pricing
  rules (`Booking.jsx:77`); and it is computed from the price the page was handed
  (`Booking.jsx:32`), the charge from the one at the time of booking
  (`pricing.py:17`).
* The dashboard keeps the revenue chart of the old period under the new one's
  heading while the figures are read (`Dashboard.jsx:237-292`).
* A count of the bookings' tabs that could not be read shows 1 after the first
  change to its status (`AllBookings.jsx:77-83`).
* A user that an admin has edited goes on seeing the old profile until its entry
  expires (`admin/users.py:97-110` does not delete `user:profile:{id}`).
* A 401 to a call that left with an old token removes the new one
  (`api.js:28`); a 401 leaves the cached profile, which the next page load takes,
  whoever signs in.
* Search: `/hotels?hotel_id=` opens a page that says "rooms" and never reads them
  (`Hotels.jsx:228`); a failed search leaves the results of the one before.
* `TodaySummary.jsx:64` shows a checked-in booking as confirmed, and the next
  click on it is refused; the desks' lists hold confirmed bookings only, so their
  "check out" is always refused; `RoomsList.jsx` says delete and deactivates, and
  its toggle sends back the whole row as it was read.
* `GuestIntelligence.jsx:333` and its like patch the guest selected when the
  answer comes; the timer of `closePanel` empties a panel opened again within
  300 ms; changes reload the list under the filter they were clicked under.
* `ActivityLogs.jsx:386-397`: a refresh doubles the entries that wait behind the
  button, and a second poll drops those that waited.
* The page of rooms shows six made-up rooms, which link to real ones, when its
  call fails or the list is empty (`Rooms.jsx:88`, `118`).
* `profile.py:121-124` deletes the old photo before the row is written, so that a
  failure in between leaves the row with the name of a deleted file until the
  next upload. Two changes that overlap leave a file in storage that nothing
  names. A Google sign-in that has read the row puts its picture over a photo
  uploaded since (`auth.py:192-201`); and one after a removal brings it back.
* A cleared phone number is sent as null, which `exclude_none` drops: the page
  says "updated" and shows the old number (`profile.py:63`).
* "Remove photo" stays enabled during an upload (`ProfileManagement.jsx:287`), and
  the answer of a save or of the first reading, when it comes late, sets the
  photo back. A refresh that fails empties the menu's profile (`AuthContext.jsx:92`).
* An export is named for the period chosen while its rows may still be of the
  period before.

## 6. Not modelled, and why

`refund_payment` has no caller and `tasks/payment_tasks.py` is never dispatched:
actions for them would describe a program that does not run. The same holds for
`reindex_room`, which the room endpoints do not dispatch, although the header of
`indexing_tasks.py` names them. No handler calls
`send_to_user` or `broadcast` yet. Reports, guest intelligence, AI endpoints and
system health read and compute. Middleware for metrics and tracing, migrations,
seeds and deployment files have no protocol; deployment fixes the assumptions at
the top. `middleware/rate_limit.py` is a stub that does nothing. In the
browser, static pages (the home page is one), layouts and menus are left out; so
are single forms (password, contact, add a room or a user) that send one call
and show its answer, the assistants, which do the same with a text, and typing
in the profile's form. A page that is reloaded or a tab that is closed is left
out of `Router` (`ClientSession` has the reload): what its calls still do at the
server is there, as calls given up, but not a form that is filled in anew. An
admin's edit of a profile changes the number, not name or e-mail, and changes
made with SQL are nobody's. A profile's row is taken to be there: an account
deleted while its user changes it is answered with 404. `SingleDatePicker` is used by no
page. Client-side filters, sorting and paging choose among rows that are loaded
and are left out of the pages that are modelled.

## 7. Plan

The order follows what a mistake would cost: bookings and money first, then what
guests see, then what keeps the service up, then the rest.

Done: `Availability`, `BookingLedger`, `Bookings` and their proofs;
`AvailabilityCache`, `TokenBucket`, `HotelCatalog`, each with its proofs; the
browser: `ClientSession`, `Providers` and `RowPages` with their proofs, and
`Router` with its six pages and their proofs, of which `ProfilePhoto` includes
the server's side.

Next, in this order:

1. `WebSocketFanout`, with `Providers` as its client: two processes, one channel.
   Property: with live listeners an event reaches each connection of its user
   exactly once; a dead listener explains every loss.
2. `GuestContent` (reviews, wishlist), `GuestAccounts` (loyalty), one-time
   tokens, `EmailTasks`: small modules of check-then-write, with the constraint
   that saves them or not.
3. `Pricing`: the nightly rule choice as a function, against a reference.

Theorem planned: exactly-once delivery of `WebSocketFanout`.
