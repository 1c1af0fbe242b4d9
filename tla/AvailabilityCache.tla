------------------------- MODULE AvailabilityCache -------------------------
(***************************************************************************)
(* The Redis cache of availability answers (services/cache.py) between the *)
(* searches and warm-up that fill it and the bookings that empty it.       *)
(*                                                                         *)
(* An answer is cached under the stay asked for.  A search reads the cache *)
(* and, on a miss, the database, which is the read replica where one is    *)
(* configured; creating or cancelling a booking commits on the primary and *)
(* then deletes some keys, one by one; any other change to bookings, rooms *)
(* or blackout dates deletes none.  An action is one Redis command or one  *)
(* SQL statement.  The log holds every committed version of the tables, so *)
(* the replica is a position in it.  The check that precedes an insert is  *)
(* one step here; Bookings takes it apart.                                 *)
(***************************************************************************)
EXTENDS Availability, Integers, Sequences

CONSTANTS
    Workers,       \* the threads and batch workers
    Keys,          \* bound: the stays that are searched for
    WarmKeys,      \* the keys the hourly warm-up fills: one night each
    Stays,         \* bound: the stays that are booked
    BookingIds,    \* bound: the bookings that can ever be placed
    Closures,      \* bound: the blackout dates staff may enter
    ReadsReplica,  \* is DATABASE_URL_REPLICA set?
    MaxVersions    \* bound: the length of the log

ASSUME KeysAssumption == Keys \subseteq Stay
ASSUME WarmKeysAssumption ==
    WarmKeys \subseteq {k \in Keys : k.check_out = k.check_in + 1}
ASSUME StaysAssumption == Stays \subseteq Stay
ASSUME ClosuresAssumption == Closures \subseteq Blackout
ASSUME ReplicaAssumption == ReadsReplica \in BOOLEAN
ASSUME MaxVersionsAssumption == MaxVersions \in Nat \ {0}

VARIABLES
    log,      \* log[i]: the i-th committed version of the tables
    applied,  \* the version the replica has reached
    cache,    \* cache[k]: the entry under key k
    req,      \* req[w]: what worker w is doing
    \* History variables: no action reads them.
    changed,  \* changed[b]: the version of the last change to booking b
    purged    \* purged[b]: the keys deleted after that change because of it

vars == <<log, applied, cache, req, changed, purged>>

-----------------------------------------------------------------------------
(* Tables, entries and requests. *)

Booking == [room : Rooms, stay : Stays, status : {"live", "cancelled"}]
NoBooking == [status |-> "none"]

Version == [bookings : [BookingIds -> Booking \cup {NoBooking}],
            blackouts : SUBSET Closures,
            activeRooms : SUBSET Rooms]

Rows(v) == {v.bookings[b] : b \in {c \in BookingIds : v.bookings[c] # NoBooking}}

Closed(v, k) == HotelClosed(v.blackouts, k)
Free(v, k) == FreeRooms(Rows(v), v.blackouts, v.activeRooms, k)
Available(v, k) == AvailableRooms(Rows(v), v.blackouts, v.activeRooms, k)

Primary == log[Len(log)]
Replica == IF ReadsReplica THEN log[applied] ELSE Primary

(* How an entry came to be: its rows were the primary's when they were     *)
(* read and its key was not deleted before it was set ("fresh"), its key   *)
(* was deleted in between ("raced"), or it was read from a replica that    *)
(* was behind ("lagging").  An absent entry has origin "none".  The origin *)
(* is history: no action reads it, but for whether there is an entry.      *)
Origin == {"fresh", "raced", "lagging"}
Entry == [origin : Origin, rooms : SUBSET Rooms]
NoEntry == [origin |-> "none", rooms |-> {}]

Cached(k) == cache[k] # NoEntry

Idle == [pc |-> "idle"]

(* From a cache miss, or from the warm-up, to the entry.  What a search     *)
(* then answers is what it has just read.                                  *)
FillRequest ==
    [pc : {"hotel", "rooms", "set"}, by : {"search", "warmup"}, key : Keys,
     origin : Origin, rooms : SUBSET Rooms]

(* From a cache hit to the answer; since is the version the search began   *)
(* at (history).                                                           *)
AnswerRequest ==
    [pc : {"hit", "answer"}, since : Nat, rooms : SUBSET Rooms]

InsertRequest == [pc : {"insert"}, room : Rooms, stay : Stays]

PurgeRequest == [pc : {"purge"}, booking : BookingIds, keys : Seq(Keys)]

Request == {Idle} \cup FillRequest \cup AnswerRequest \cup InsertRequest
               \cup PurgeRequest

Serve(w, r) == req' = [req EXCEPT ![w] = r]

TypeOK ==
    /\ log \in Seq(Version) /\ Len(log) \in 1..MaxVersions
    /\ applied \in 1..Len(log)
    /\ cache \in [Keys -> Entry \cup {NoEntry}]
    /\ req \in [Workers -> Request]
    /\ changed \in [BookingIds -> 0..Len(log)]
    /\ purged \in [BookingIds -> SUBSET Keys]

Init ==
    /\ log = << [bookings |-> [b \in BookingIds |-> NoBooking],
                 blackouts |-> {}, activeRooms |-> Rooms] >>
    /\ applied = 1
    /\ cache = [k \in Keys |-> NoEntry]
    /\ req = [w \in Workers |-> Idle]
    /\ changed = [b \in BookingIds |-> 0]
    /\ purged = [b \in BookingIds |-> {}]

-----------------------------------------------------------------------------
(* GET /public/search/: search_available_rooms, and hourly_cache_warmup.   *)

FirstSeen == IF ReadsReplica THEN applied ELSE Len(log)

Fill(by, k) == [pc |-> "hotel", by |-> by, key |-> k,
                origin |-> "fresh", rooms |-> {}]

(* get_cached_availability finds the key. *)
Hit(w, k) ==
    /\ req[w] = Idle
    /\ Cached(k)
    /\ Serve(w, [pc |-> "hit", since |-> FirstSeen, rooms |-> cache[k].rooms])
    /\ UNCHANGED <<log, applied, cache, changed, purged>>

(* It does not, or Redis does not answer. *)
Miss(w, k) ==
    /\ req[w] = Idle
    /\ Serve(w, Fill("search", k))
    /\ UNCHANGED <<log, applied, cache, changed, purged>>

(* One of the nights of hourly_cache_warmup, which reads the primary.      *)
WarmUp(w, k) ==
    /\ req[w] = Idle
    /\ Serve(w, Fill("warmup", k))
    /\ UNCHANGED <<log, applied, cache, changed, purged>>

Source(r) == IF r.by = "search" THEN Replica ELSE Primary

Behind(r) == r.by = "search" /\ ReadsReplica /\ applied < Len(log)

Read(r) == [r EXCEPT !.origin = IF Behind(r) THEN "lagging" ELSE @]

(* The hotel-wide blackout query: a closed hotel is an empty answer.       *)
QueryHotel(w) ==
    LET r == req[w] IN
    /\ r.pc = "hotel"
    /\ Serve(w, [Read(r) EXCEPT
                    !.pc = IF Closed(Source(r), r.key) THEN "set" ELSE "rooms"])
    /\ UNCHANGED <<log, applied, cache, changed, purged>>

(* The room query. *)
QueryRooms(w) ==
    LET r == req[w] IN
    /\ r.pc = "rooms"
    /\ Serve(w, [Read(r) EXCEPT !.pc = "set", !.rooms = Free(Source(r), r.key)])
    /\ UNCHANGED <<log, applied, cache, changed, purged>>

(* set_cached_availability, which swallows a failure of Redis. *)
SetEntry(w) ==
    LET r == req[w] IN
    /\ r.pc = "set"
    /\ \/ cache' = [cache EXCEPT ![r.key] = [origin |-> r.origin, rooms |-> r.rooms]]
       \/ UNCHANGED cache
    /\ Serve(w, Idle)
    /\ UNCHANGED <<log, applied, changed, purged>>

(* Mistake: the cached ids are answered as they are. *)
ServeHit(w) ==
    /\ req[w].pc = "hit"
    /\ Serve(w, [req[w] EXCEPT !.pc = "answer"])
    /\ UNCHANGED <<log, applied, cache, changed, purged>>

(* On a hit the rooms are loaded by id, those with is_active only. *)
LoadHit(w) ==
    /\ req[w].pc = "hit"
    /\ Serve(w, [req[w] EXCEPT !.pc = "answer", !.rooms = @ \cap Replica.activeRooms])
    /\ UNCHANGED <<log, applied, cache, changed, purged>>

Answer(w) ==
    /\ req[w].pc = "answer"
    /\ Serve(w, Idle)
    /\ UNCHANGED <<log, applied, cache, changed, purged>>

-----------------------------------------------------------------------------
(* Bookings: commit, then delete keys. *)

CommitVersion(v) ==
    /\ Len(log) < MaxVersions
    /\ log' = Append(log, v)

Commits(b) ==
    /\ changed' = [changed EXCEPT ![b] = Len(log) + 1]
    /\ purged' = [purged EXCEPT ![b] = {}]

(* The keys nobody searches for are left out. *)
KeyOf(s) == IF s \in Keys THEN <<s>> ELSE <<>>

(* Shifting one end of the stay at a time, in the order of the loop. *)
Deletions(s) ==
    LET From(d) == [check_in |-> s.check_in + d, check_out |-> s.check_out]
        To(d) == [check_in |-> s.check_in, check_out |-> s.check_out + d]
    IN  KeyOf(From(-1)) \o KeyOf(To(-1)) \o KeyOf(From(0)) \o KeyOf(To(0))
            \o KeyOf(From(1)) \o KeyOf(To(1))

Purge(b, s) == [pc |-> "purge", booking |-> b, keys |-> Deletions(s)]

(* POST /user/bookings: the check, *)
CheckAvailable(w, r, s) ==
    /\ req[w] = Idle
    /\ r \in Available(Primary, s)
    /\ Serve(w, [pc |-> "insert", room |-> r, stay |-> s])
    /\ UNCHANGED <<log, applied, cache, changed, purged>>

(* and the insert. *)
InsertBooking(w, b) ==
    LET r == req[w] IN
    /\ r.pc = "insert"
    /\ Primary.bookings[b] = NoBooking
    /\ CommitVersion([Primary EXCEPT !.bookings[b] =
           [room |-> r.room, stay |-> r.stay, status |-> "live"]])
    /\ Commits(b)
    /\ Serve(w, Purge(b, r.stay))
    /\ UNCHANGED <<applied, cache>>

SetStatus(b, s) == CommitVersion([Primary EXCEPT !.bookings[b].status = s])

(* Mistake: a status the other queries do not look for. *)
CancelMisspelt(w, b) ==
    LET row == Primary.bookings[b] IN
    /\ req[w] = Idle
    /\ row # NoBooking
    /\ SetStatus(b, "canceled")
    /\ Commits(b)
    /\ Serve(w, Purge(b, row.stay))
    /\ UNCHANGED <<applied, cache>>

(* PUT /user/bookings/{id}/cancel: the keys are deleted even when there    *)
(* was nothing to change.                                                  *)
CancelBooking(w, b) ==
    LET row == Primary.bookings[b] IN
    /\ req[w] = Idle
    /\ row # NoBooking
    /\ \/ row.status = "live" /\ SetStatus(b, "cancelled") /\ Commits(b)
       \/ row.status = "cancelled" /\ UNCHANGED <<log, changed, purged>>
    /\ Serve(w, Purge(b, row.stay))
    /\ UNCHANGED <<applied, cache>>

(* A fill that has begun to read when its key is deleted is overtaken.     *)
Overtaken(k) ==
    [v \in Workers |->
        IF req[v].pc \in {"rooms", "set"} /\ req[v].key = k
        THEN [req[v] EXCEPT !.origin = "raced"] ELSE req[v]]

(* Mistake: the keys are built for another hotel. *)
DeleteElsewhere(w) ==
    LET r == req[w] IN
    /\ r.pc = "purge"
    /\ \/ /\ r.keys # <<>>
          /\ purged' = [purged EXCEPT ![r.booking] = @ \cup {Head(r.keys)}]
          /\ Serve(w, [r EXCEPT !.keys = Tail(@)])
       \/ /\ r.keys = <<>>
          /\ Serve(w, Idle)
          /\ UNCHANGED purged
    /\ UNCHANGED <<log, applied, cache, changed>>

(* invalidate_availability: one DELETE. *)
DeleteKey(w) ==
    LET r == req[w] IN
    /\ r.pc = "purge"
    /\ \/ /\ r.keys # <<>>
          /\ cache' = [cache EXCEPT ![Head(r.keys)] = NoEntry]
          /\ purged' = [purged EXCEPT ![r.booking] = @ \cup {Head(r.keys)}]
          /\ req' = [Overtaken(Head(r.keys)) EXCEPT ![w] = [r EXCEPT !.keys = Tail(@)]]
       \/ /\ r.keys = <<>>
          /\ Serve(w, Idle)
          /\ UNCHANGED <<cache, purged>>
    /\ UNCHANGED <<log, applied, changed>>

(* Redis fails and the loop is left, or the process dies. *)
Fail(w) ==
    /\ req[w] # Idle
    /\ Serve(w, Idle)
    /\ UNCHANGED <<log, applied, cache, changed, purged>>

-----------------------------------------------------------------------------
(* Changes that delete no key. *)

(* The status endpoint, and a payment that confirms a cancelled booking.   *)
OverrideStatus(b, s) ==
    /\ Primary.bookings[b] # NoBooking
    /\ Primary.bookings[b].status # s
    /\ SetStatus(b, s)
    /\ Commits(b)
    /\ UNCHANGED <<applied, cache, req>>

ChangeBlackouts(x) ==
    /\ \/ /\ x \notin Primary.blackouts
          /\ CommitVersion([Primary EXCEPT !.blackouts = @ \cup {x}])
       \/ /\ x \in Primary.blackouts
          /\ CommitVersion([Primary EXCEPT !.blackouts = @ \ {x}])
    /\ UNCHANGED <<applied, cache, req, changed, purged>>

ChangeRoom(r) ==
    /\ \/ /\ r \notin Primary.activeRooms
          /\ CommitVersion([Primary EXCEPT !.activeRooms = @ \cup {r}])
       \/ /\ r \in Primary.activeRooms
          /\ CommitVersion([Primary EXCEPT !.activeRooms = @ \ {r}])
    /\ UNCHANGED <<applied, cache, req, changed, purged>>

(* PostgreSQL streams the next commit to the replica. *)
Replicate ==
    /\ applied < Len(log)
    /\ applied' = applied + 1
    /\ UNCHANGED <<log, cache, req, changed, purged>>

(* Mistake: entries are written with SET instead of SETEX. *)
NeverExpire(k) == FALSE /\ UNCHANGED vars

(* AVAILABILITY_TTL has passed since the entry was set. *)
Expire(k) ==
    /\ Cached(k)
    /\ cache' = [cache EXCEPT ![k] = NoEntry]
    /\ UNCHANGED <<log, applied, req, changed, purged>>

-----------------------------------------------------------------------------
Start(w) ==
    \/ \E k \in Keys : Hit(w, k) \/ Miss(w, k)
    \/ \E k \in WarmKeys : WarmUp(w, k)
    \/ \E r \in Rooms, s \in Stays : CheckAvailable(w, r, s)
    \/ \E b \in BookingIds : CancelBooking(w, b)

Continue(w) ==
    \/ QueryHotel(w)
    \/ QueryRooms(w)
    \/ SetEntry(w)
    \/ LoadHit(w)
    \/ Answer(w)
    \/ \E b \in BookingIds : InsertBooking(w, b)
    \/ DeleteKey(w)

Manage ==
    \/ \E b \in BookingIds, s \in {"live", "cancelled"} : OverrideStatus(b, s)
    \/ \E x \in Closures : ChangeBlackouts(x)
    \/ \E r \in Rooms : ChangeRoom(r)

Next ==
    \/ \E w \in Workers : Start(w) \/ Continue(w) \/ Fail(w)
    \/ Manage
    \/ Replicate
    \/ \E k \in Keys : Expire(k)

Spec == Init /\ [][Next]_vars

(* Accepted work runs on, the replica follows, and Redis expires keys.     *)
FairSpec ==
    /\ Spec
    /\ \A w \in Workers : WF_vars(Continue(w))
    /\ WF_vars(Replicate)
    /\ \A k \in Keys : WF_vars(Expire(k))

-----------------------------------------------------------------------------
(* Properties. *)

Live(b) == Primary.bookings[b] # NoBooking /\ Primary.bookings[b].status = "live"

(* Creating and cancelling bookings empties the cache of what they made    *)
(* wrong: an entry under a key that was deleted because of the last change *)
(* of a booking tells of the booking's room what the tables have said      *)
(* since that change, whatever searches and warm-ups run meanwhile.  The   *)
(* exceptions are an answer that was being put together when the key was   *)
(* deleted and one read from a replica that was behind.                    *)
PurgedKeyFresh ==
    \A b \in BookingIds : \A k \in purged[b] :
        cache[k].origin = "fresh" =>
            \E i, j \in changed[b]..Len(log) :
                (Primary.bookings[b].room \in cache[k].rooms)
                    <=> ~ Closed(log[i], k)
                        /\ Primary.bookings[b].room \in Free(log[j], k)

(* A room that is not active from before a search begins until its answer  *)
(* is not in the answer, although the answer comes from the cache and room *)
(* changes do not touch the cache (search_available_rooms loads the cached *)
(* ids with is_active).                                                    *)
AnswersActiveRooms ==
    \A w \in Workers :
        req[w].pc = "answer" =>
            req[w].rooms \subseteq
                UNION {log[i].activeRooms : i \in req[w].since..Len(log)}

(* Once bookings, rooms and blackout dates stop changing, the cache comes  *)
(* to tell the truth and keeps telling it: entries expire, and what is set *)
(* after the replica has caught up is right.                               *)
EventuallyTrue ==
    <>[](\A k \in Keys : Cached(k) => cache[k].rooms = Available(Primary, k))

=============================================================================
