---------------------- MODULE AvailabilityCacheProofs ----------------------
(***************************************************************************)
(* Proofs about AvailabilityCache, for any sets of workers, keys, stays,   *)
(* bookings, rooms and blackout dates, any length of the log, with a read  *)
(* replica or without one.                                                 *)
(***************************************************************************)
EXTENDS AvailabilityCache, SequenceTheorems, TLAPS

(* A request's pc tells which fields it carries. *)
LEMMA RequestByPc ==
    ASSUME NEW r \in Request
    PROVE  /\ r.pc \in {"hotel", "rooms", "set"} => r \in FillRequest
           /\ r.pc \in {"hit", "answer"} => r \in AnswerRequest
           /\ r.pc = "insert" => r \in InsertRequest
           /\ r.pc = "purge" => r \in PurgeRequest
  BY DEF Request, Idle, FillRequest, AnswerRequest, InsertRequest, PurgeRequest

LEMMA LogTyped ==
    ASSUME TypeOK
    PROVE  /\ Len(log) \in Nat \ {0}
           /\ \A i \in 1..Len(log) : log[i] \in Version
           /\ Primary \in Version
           /\ Replica \in Version
  BY MaxVersionsAssumption DEF TypeOK, Primary, Replica

LEMMA RowTyped ==
    ASSUME NEW v \in Version, NEW b \in BookingIds, v.bookings[b] # NoBooking
    PROVE  v.bookings[b] \in Booking
  BY DEF Version

(* Both queries answer rooms of the hotel. *)
LEMMA FreeTyped ==
    ASSUME NEW v \in Version, NEW k
    PROVE  Free(v, k) \subseteq Rooms /\ Available(v, k) \subseteq Rooms
  BY DEF Free, Available, FreeRooms, AvailableRooms, Version

LEMMA DeletionsTyped ==
    ASSUME NEW s
    PROVE  Deletions(s) \in Seq(Keys)
  <1>1. \A x : KeyOf(x) \in Seq(Keys)
    BY DEF KeyOf
  <1>2. \A p, q \in Seq(Keys) : p \o q \in Seq(Keys)
    BY ConcatProperties
  <1>3. QED
    BY <1>1, <1>2 DEF Deletions

-----------------------------------------------------------------------------
(* Type correctness. *)

LEMMA TypeInit == Init => TypeOK
  <1> SUFFICES ASSUME Init PROVE TypeOK
    OBVIOUS
  <1> DEFINE v == [bookings |-> [b \in BookingIds |-> NoBooking],
                   blackouts |-> {}, activeRooms |-> Rooms]
  <1>1. v \in Version
    BY DEF Version
  <1>2. log \in Seq(Version) /\ Len(log) \in 1..MaxVersions /\ applied \in 1..Len(log)
    BY <1>1, MaxVersionsAssumption DEF Init
  <1>3. QED
    BY <1>2 DEF Init, TypeOK, Request

(* What a step that commits a version does to the log. *)
LEMMA CommitTyped ==
    ASSUME TypeOK, NEW v \in Version, CommitVersion(v)
    PROVE  /\ log' \in Seq(Version) /\ Len(log') \in 1..MaxVersions
           /\ Len(log') = Len(log) + 1
           /\ log'[Len(log')] = v
           /\ \A i \in 1..Len(log) : log'[i] = log[i]
           /\ applied \in 1..Len(log')
           /\ \A b \in BookingIds : Commits(b) =>
                 /\ changed' \in [BookingIds -> 0..Len(log')]
                 /\ purged' \in [BookingIds -> SUBSET Keys]
           /\ changed \in [BookingIds -> 0..Len(log')]
  <1>1. /\ log' \in Seq(Version) /\ Len(log') = Len(log) + 1
        /\ log'[Len(log) + 1] = v
        /\ \A i \in 1..Len(log) : log'[i] = log[i]
    BY AppendProperties DEF CommitVersion, TypeOK
  <1>2. Len(log) \in Nat /\ Len(log) < MaxVersions
    BY DEF CommitVersion, TypeOK
  <1>3. Len(log') \in 1..MaxVersions /\ applied \in 1..Len(log')
        /\ 0..Len(log) \subseteq 0..Len(log') /\ Len(log) + 1 \in 0..Len(log')
    BY <1>1, <1>2, MaxVersionsAssumption DEF TypeOK
  <1>4. changed \in [BookingIds -> 0..Len(log')]
    BY <1>3 DEF TypeOK
  <1>5. ASSUME NEW b \in BookingIds, Commits(b)
        PROVE  /\ changed' \in [BookingIds -> 0..Len(log')]
               /\ purged' \in [BookingIds -> SUBSET Keys]
    BY <1>3, <1>4, <1>5 DEF Commits, TypeOK
  <1>6. QED
    BY <1>1, <1>3, <1>4, <1>5

LEMMA StatusTyped ==
    ASSUME TypeOK, NEW b \in BookingIds, Primary.bookings[b] # NoBooking,
           NEW s \in {"live", "cancelled"}
    PROVE  [Primary EXCEPT !.bookings[b].status = s] \in Version
  <1>1. Primary \in Version /\ Primary.bookings[b] \in Booking
    BY LogTyped, RowTyped
  <1>2. [Primary.bookings[b] EXCEPT !.status = s] \in Booking
    BY <1>1 DEF Booking
  <1>3. QED
    BY <1>1, <1>2 DEF Version

LEMMA TypeStart ==
    ASSUME TypeOK, NEW w \in Workers, Start(w)
    PROVE  TypeOK'
  <1> USE DEF TypeOK, Serve
  <1>1. ASSUME NEW k \in Keys, Hit(w, k)
        PROVE  TypeOK'
    <2>1. cache[k].rooms \in SUBSET Rooms /\ FirstSeen \in Nat
      BY DEF Entry, NoEntry, FirstSeen
    <2>2. [pc |-> "hit", since |-> FirstSeen, rooms |-> cache[k].rooms] \in Request
      BY <2>1 DEF Request, AnswerRequest
    <2>3. QED
      BY <1>1, <2>2 DEF Hit
  <1>2. \A k \in Keys : Fill("search", k) \in Request /\ Fill("warmup", k) \in Request
    BY DEF Fill, Request, FillRequest, Origin
  <1>3. ASSUME NEW k \in Keys, Miss(w, k)
        PROVE  TypeOK'
    BY <1>2, <1>3 DEF Miss
  <1>4. ASSUME NEW k \in WarmKeys, WarmUp(w, k)
        PROVE  TypeOK'
    BY <1>2, <1>4, WarmKeysAssumption DEF WarmUp
  <1>5. ASSUME NEW r \in Rooms, NEW s \in Stays, CheckAvailable(w, r, s)
        PROVE  TypeOK'
    <2>1. [pc |-> "insert", room |-> r, stay |-> s] \in Request
      BY DEF Request, InsertRequest
    <2>2. QED
      BY <1>5, <2>1 DEF CheckAvailable
  <1>6. ASSUME NEW b \in BookingIds, CancelBooking(w, b)
        PROVE  TypeOK'
    <2>1. Purge(b, Primary.bookings[b].stay) \in Request
      BY DeletionsTyped DEF Purge, Request, PurgeRequest
    <2>2. req' \in [Workers -> Request]
      BY <1>6, <2>1 DEF CancelBooking
    <2>3. CASE SetStatus(b, "cancelled") /\ Commits(b)
      BY <1>6, <2>2, <2>3, CommitTyped, StatusTyped DEF CancelBooking, SetStatus
    <2>4. CASE UNCHANGED <<log, changed, purged>>
      BY <1>6, <2>2, <2>4 DEF CancelBooking
    <2>5. QED
      BY <1>6, <2>3, <2>4 DEF CancelBooking
  <1>7. QED
    BY <1>1, <1>3, <1>4, <1>5, <1>6 DEF Start

LEMMA OvertakenTyped ==
    ASSUME TypeOK, NEW k
    PROVE  Overtaken(k) \in [Workers -> Request]
  <1> SUFFICES ASSUME NEW v \in Workers
               PROVE  (IF req[v].pc \in {"rooms", "set"} /\ req[v].key = k
                       THEN [req[v] EXCEPT !.origin = "raced"] ELSE req[v]) \in Request
    BY DEF Overtaken
  <1>1. req[v] \in Request
    BY DEF TypeOK
  <1>2. CASE req[v].pc \in {"rooms", "set"}
    <2>1. req[v] \in FillRequest
      BY <1>1, <1>2, RequestByPc
    <2>2. [req[v] EXCEPT !.origin = "raced"] \in FillRequest
      BY <2>1 DEF FillRequest, Origin
    <2>3. QED
      BY <1>1, <2>2 DEF Request
  <1>3. QED
    BY <1>1, <1>2

LEMMA TypeContinue ==
    ASSUME TypeOK, NEW w \in Workers, Continue(w)
    PROVE  TypeOK'
  <1> USE DEF TypeOK, Serve
  <1>0. req[w] \in Request /\ Idle \in Request
    BY DEF Request
  <1>1. ASSUME QueryHotel(w)
        PROVE  TypeOK'
    <2>1. req[w] \in FillRequest
      BY <1>0, <1>1, RequestByPc DEF QueryHotel
    <2>2. /\ [Read(req[w]) EXCEPT !.pc = "set"] \in Request
          /\ [Read(req[w]) EXCEPT !.pc = "rooms"] \in Request
      BY <2>1 DEF Read, FillRequest, Origin, Request
    <2>3. QED
      BY <1>1, <2>2 DEF QueryHotel
  <1>2. ASSUME QueryRooms(w)
        PROVE  TypeOK'
    <2>1. req[w] \in FillRequest
      BY <1>0, <1>2, RequestByPc DEF QueryRooms
    <2>2. Free(Source(req[w]), req[w].key) \in SUBSET Rooms
      BY LogTyped, FreeTyped DEF Source
    <2>3. [Read(req[w]) EXCEPT !.pc = "set", !.rooms = Free(Source(req[w]), req[w].key)]
             \in Request
      BY <2>1, <2>2 DEF Read, FillRequest, Origin, Request
    <2>4. QED
      BY <1>2, <2>3 DEF QueryRooms
  <1>3. ASSUME SetEntry(w)
        PROVE  TypeOK'
    <2>1. req[w] \in FillRequest
      BY <1>0, <1>3, RequestByPc DEF SetEntry
    <2>2. [origin |-> req[w].origin, rooms |-> req[w].rooms] \in Entry /\ req[w].key \in Keys
      BY <2>1 DEF FillRequest, Entry
    <2>3. cache' \in [Keys -> Entry \cup {NoEntry}]
      BY <1>3, <2>2 DEF SetEntry
    <2>4. QED
      BY <1>0, <1>3, <2>3 DEF SetEntry
  <1>4. ASSUME LoadHit(w)
        PROVE  TypeOK'
    <2>1. req[w] \in AnswerRequest
      BY <1>0, <1>4, RequestByPc DEF LoadHit
    <2>2. [req[w] EXCEPT !.pc = "answer", !.rooms = @ \cap Replica.activeRooms] \in Request
      BY <2>1 DEF AnswerRequest, Request
    <2>3. QED
      BY <1>4, <2>2 DEF LoadHit
  <1>5. ASSUME Answer(w)
        PROVE  TypeOK'
    BY <1>0, <1>5 DEF Answer
  <1>6. ASSUME NEW b \in BookingIds, InsertBooking(w, b)
        PROVE  TypeOK'
    <2> DEFINE row == [room |-> req[w].room, stay |-> req[w].stay, status |-> "live"]
    <2>1. req[w] \in InsertRequest
      BY <1>0, <1>6, RequestByPc DEF InsertBooking
    <2>2. row \in Booking
      BY <2>1 DEF InsertRequest, Booking
    <2>3. [Primary EXCEPT !.bookings[b] = row] \in Version
      BY <2>2, LogTyped DEF Version
    <2>4. Purge(b, req[w].stay) \in Request
      BY DeletionsTyped DEF Purge, Request, PurgeRequest
    <2>5. QED
      BY <1>6, <2>3, <2>4, CommitTyped DEF InsertBooking
  <1>7. ASSUME DeleteKey(w)
        PROVE  TypeOK'
    <2>1. req[w] \in PurgeRequest
      BY <1>0, <1>7, RequestByPc DEF DeleteKey
    <2>2. CASE req[w].keys # <<>>
      <3>1. Head(req[w].keys) \in Keys /\ Tail(req[w].keys) \in Seq(Keys)
        BY <2>1, <2>2, HeadTailProperties DEF PurgeRequest
      <3>2. [req[w] EXCEPT !.keys = Tail(@)] \in Request
        BY <2>1, <3>1 DEF PurgeRequest, Request
      <3>3. req' \in [Workers -> Request]
        <4>1. Overtaken(Head(req[w].keys)) \in [Workers -> Request]
          BY OvertakenTyped
        <4>2. req' = [Overtaken(Head(req[w].keys)) EXCEPT
                          ![w] = [req[w] EXCEPT !.keys = Tail(@)]]
          BY <1>7, <2>2 DEF DeleteKey
        <4>3. QED
          BY <3>2, <4>1, <4>2
      <3>4. purged' \in [BookingIds -> SUBSET Keys]
        <4>1. req[w].booking \in BookingIds
          BY <2>1 DEF PurgeRequest
        <4>2. purged' = [purged EXCEPT ![req[w].booking] = @ \cup {Head(req[w].keys)}]
          BY <1>7, <2>2 DEF DeleteKey
        <4>3. QED
          BY <3>1, <4>1, <4>2
      <3>5. QED
        BY <1>7, <2>2, <3>1, <3>3, <3>4 DEF DeleteKey
    <2>3. CASE req[w].keys = <<>>
      BY <1>0, <1>7, <2>3 DEF DeleteKey
    <2>4. QED
      BY <2>2, <2>3
  <1>8. QED
    BY <1>1, <1>2, <1>3, <1>4, <1>5, <1>6, <1>7 DEF Continue

LEMMA TypeManage ==
    ASSUME TypeOK, Manage
    PROVE  TypeOK'
  <1> USE DEF TypeOK
  <1>0. Primary \in Version
    BY LogTyped
  <1>1. ASSUME NEW b \in BookingIds, NEW s \in {"live", "cancelled"}, OverrideStatus(b, s)
        PROVE  TypeOK'
    BY <1>1, StatusTyped, CommitTyped DEF OverrideStatus, SetStatus
  <1>2. ASSUME NEW x \in Closures, ChangeBlackouts(x)
        PROVE  TypeOK'
    <2>1. /\ [Primary EXCEPT !.blackouts = @ \cup {x}] \in Version
          /\ [Primary EXCEPT !.blackouts = @ \ {x}] \in Version
      BY <1>0 DEF Version
    <2>2. QED
      BY <1>2, <2>1, CommitTyped DEF ChangeBlackouts
  <1>3. ASSUME NEW r \in Rooms, ChangeRoom(r)
        PROVE  TypeOK'
    <2>1. /\ [Primary EXCEPT !.activeRooms = @ \cup {r}] \in Version
          /\ [Primary EXCEPT !.activeRooms = @ \ {r}] \in Version
      BY <1>0 DEF Version
    <2>2. QED
      BY <1>3, <2>1, CommitTyped DEF ChangeRoom
  <1>4. QED
    BY <1>1, <1>2, <1>3 DEF Manage

LEMMA TypeNext ==
    ASSUME TypeOK, [Next]_vars
    PROVE  TypeOK'
  <1>1. ASSUME NEW w \in Workers, Fail(w)
        PROVE  TypeOK'
    BY <1>1 DEF TypeOK, Fail, Serve, Request
  <1>2. CASE Replicate
    BY <1>2 DEF TypeOK, Replicate
  <1>3. ASSUME NEW k \in Keys, Expire(k)
        PROVE  TypeOK'
    BY <1>3 DEF TypeOK, Expire
  <1>4. CASE UNCHANGED vars
    BY <1>4 DEF TypeOK, vars
  <1>5. QED
    BY <1>1, <1>2, <1>3, <1>4, TypeStart, TypeContinue, TypeManage DEF Next

(* The log, the replica's place in it, the entries, the requests and the   *)
(* history keep their types, whatever the interleaving of searches,        *)
(* bookings and deletions (services/cache.py, services/availability.py).   *)
THEOREM CacheTyped == Spec => []TypeOK
  <1>1. QED
    BY TypeInit, TypeNext, PTL DEF Spec

-----------------------------------------------------------------------------
(* PurgedKeyFresh.  The property is about entries; what makes an entry     *)
(* right was read one or two steps before it was set, so the invariant     *)
(* says of every fill under way that what it has read so far is no older   *)
(* than the last change of each booking that has had its key deleted.      *)

(* Rooms is what the two queries answered at versions no older than the    *)
(* last change of booking b.                                               *)
Told(b, k, rooms) ==
    \E i, j \in 1..Len(log) :
        /\ changed[b] <= i /\ changed[b] <= j
        /\ rooms = IF Closed(log[i], k) THEN {} ELSE Free(log[j], k)

Truth(k, rooms) ==
    \A b \in BookingIds : k \in purged[b] => Told(b, k, rooms)

(* The hotel was open for k at such a version. *)
SeenOpen(k) ==
    \A b \in BookingIds : k \in purged[b] =>
        \E i \in 1..Len(log) : changed[b] <= i /\ ~ Closed(log[i], k)

FillGood(r) ==
    /\ r.pc \in {"hotel", "rooms"} => r.rooms = {}
    /\ r.pc = "rooms" /\ r.origin = "fresh" => SeenOpen(r.key)
    /\ r.pc = "set" /\ r.origin = "fresh" => Truth(r.key, r.rooms)

FillsGood == \A w \in Workers : FillGood(req[w])

EntriesGood ==
    \A k \in Keys : cache[k].origin = "fresh" => Truth(k, cache[k].rooms)

FreshInv == TypeOK /\ FillsGood /\ EntriesGood

(* The answer built from a hit began no later than the version whose rooms *)
(* it is restricted to.                                                    *)
AnswerGood(r) ==
    /\ r.pc \in {"hit", "answer"} => r.since \in 1..FirstSeen
    /\ r.pc = "answer" =>
          r.rooms \subseteq UNION {log[i].activeRooms : i \in r.since..Len(log)}

AnswersGood == \A w \in Workers : AnswerGood(req[w])

ActiveInv == TypeOK /\ AnswersGood

(* The log only grows, and of the keys deleted for a booking's last change *)
(* k is none that was not one before.                                      *)
LogGrows ==
    /\ Len(log) <= Len(log')
    /\ \A i \in 1..Len(log) : log'[i] = log[i]

Undeleted(k) ==
    \A b \in BookingIds :
        k \in purged'[b] => k \in purged[b] /\ changed'[b] = changed[b]

LEMMA TruthKept ==
    ASSUME TypeOK, TypeOK', LogGrows, NEW k, Undeleted(k), NEW rooms
    PROVE  /\ Truth(k, rooms) => Truth(k, rooms)'
           /\ SeenOpen(k) => SeenOpen(k)'
  <1>1. 1..Len(log) \subseteq 1..Len(log')
    BY DEF TypeOK, LogGrows
  <1>2. ASSUME Truth(k, rooms), NEW b \in BookingIds, k \in purged'[b]
        PROVE  Told(b, k, rooms)'
    <2>1. k \in purged[b] /\ changed'[b] = changed[b]
      BY <1>2 DEF Undeleted
    <2>2. PICK i \in 1..Len(log), j \in 1..Len(log) :
              /\ changed[b] <= i /\ changed[b] <= j
              /\ rooms = IF Closed(log[i], k) THEN {} ELSE Free(log[j], k)
      BY <1>2, <2>1 DEF Truth, Told
    <2>3. log'[i] = log[i] /\ log'[j] = log[j]
      BY DEF LogGrows
    <2>4. QED
      BY <1>1, <2>1, <2>2, <2>3 DEF Told
  <1>3. ASSUME SeenOpen(k), NEW b \in BookingIds, k \in purged'[b]
        PROVE  \E i \in 1..Len(log') : changed'[b] <= i /\ ~ Closed(log'[i], k)
    <2>1. k \in purged[b] /\ changed'[b] = changed[b]
      BY <1>3 DEF Undeleted
    <2>2. PICK i \in 1..Len(log) : changed[b] <= i /\ ~ Closed(log[i], k)
      BY <1>3, <2>1 DEF SeenOpen
    <2>3. log'[i] = log[i]
      BY DEF LogGrows
    <2>4. QED
      BY <1>1, <2>1, <2>2, <2>3
  <1>4. QED
    BY <1>2, <1>3 DEF Truth, SeenOpen

(* What the tables say now they say after every booking's last change.     *)
LEMMA TruthNow ==
    ASSUME TypeOK, NEW k
    PROVE  /\ Closed(Primary, k) => Truth(k, {})
           /\ ~ Closed(Primary, k) => SeenOpen(k)
           /\ SeenOpen(k) => Truth(k, Free(Primary, k))
  <1>1. Len(log) \in 1..Len(log) /\ \A b \in BookingIds : changed[b] <= Len(log)
    BY DEF TypeOK
  <1>2. QED
    BY <1>1 DEF Truth, Told, SeenOpen, Primary

LEMMA FillKept ==
    ASSUME TypeOK, TypeOK', LogGrows, NEW r, Undeleted(r.key), FillGood(r)
    PROVE  FillGood(r)'
  BY TruthKept DEF FillGood

LEMMA Grows ==
    ASSUME TypeOK, UNCHANGED log \/ \E v : CommitVersion(v)
    PROVE  LogGrows
  <1>1. log \in Seq(Version) /\ Len(log) \in Nat
    BY DEF TypeOK
  <1>2. ASSUME NEW v, CommitVersion(v)
        PROVE  LogGrows
    <2>1. log \in Seq(Version \cup {v}) /\ v \in Version \cup {v}
      BY <1>1
    <2>2. QED
      BY <1>1, <1>2, <2>1, AppendProperties DEF CommitVersion, LogGrows
  <1>3. QED
    BY <1>1, <1>2 DEF LogGrows

LEMMA NoKeyDeleted ==
    ASSUME TypeOK,
           UNCHANGED <<changed, purged>> \/ \E b \in BookingIds : Commits(b)
    PROVE  \A k : Undeleted(k)
  BY DEF TypeOK, Undeleted, Commits

(* A step that deletes no key: what it leaves alone stays good. *)
LEMMA FreshFrame ==
    ASSUME FreshInv, TypeOK', LogGrows, \A k : Undeleted(k),
           \A w \in Workers : req'[w] = req[w] \/ FillGood(req[w])',
           \A k \in Keys : \/ cache'[k] = cache[k]
                           \/ cache'[k].origin # "fresh"
                           \/ Truth(k, cache[k].rooms)'
    PROVE  FreshInv'
  <1>1. ASSUME NEW w \in Workers, req'[w] = req[w]
        PROVE  FillGood(req[w])'
    <2>1. PICK r : r = req[w]
      OBVIOUS
    <2>2. FillGood(r)'
      BY <2>1, FillKept DEF FreshInv, FillsGood
    <2>3. QED
      BY <1>1, <2>1, <2>2
  <1>2. ASSUME NEW k \in Keys, cache'[k] = cache[k], cache[k].origin = "fresh"
        PROVE  Truth(k, cache[k].rooms)'
    <2>1. PICK rooms : rooms = cache[k].rooms
      OBVIOUS
    <2>2. Truth(k, rooms)'
      BY <1>2, <2>1, TruthKept DEF FreshInv, EntriesGood
    <2>3. QED
      BY <1>2, <2>1, <2>2
  <1>3. QED
    BY <1>1, <1>2 DEF FreshInv, FillsGood, EntriesGood

LEMMA FreshStart ==
    ASSUME FreshInv, TypeOK', NEW w \in Workers, Start(w)
    PROVE  FreshInv'
  <1>0. TypeOK /\ req \in [Workers -> Request]
    BY DEF FreshInv, TypeOK
  <1>1. ASSUME NEW k \in Keys, Hit(w, k) \/ Miss(w, k) \/ WarmUp(w, k)
        PROVE  FreshInv'
    <2>1. LogGrows /\ \A x : Undeleted(x)
      BY <1>0, <1>1, Grows, NoKeyDeleted DEF Hit, Miss, WarmUp
    <2>2. \A v \in Workers : req'[v] = req[v] \/ FillGood(req[v])'
      BY <1>0, <1>1 DEF Hit, Miss, WarmUp, Serve, Fill, FillGood
    <2>3. UNCHANGED cache
      BY <1>1 DEF Hit, Miss, WarmUp
    <2>4. QED
      BY <2>1, <2>2, <2>3, FreshFrame
  <1>2. ASSUME NEW r \in Rooms, NEW s \in Stays, CheckAvailable(w, r, s)
        PROVE  FreshInv'
    <2>1. LogGrows /\ \A x : Undeleted(x)
      BY <1>0, <1>2, Grows, NoKeyDeleted DEF CheckAvailable
    <2>2. \A v \in Workers : req'[v] = req[v] \/ FillGood(req[v])'
      BY <1>0, <1>2 DEF CheckAvailable, Serve, FillGood
    <2>3. QED
      BY <1>2, <2>1, <2>2, FreshFrame DEF CheckAvailable
  <1>3. ASSUME NEW b \in BookingIds, CancelBooking(w, b)
        PROVE  FreshInv'
    <2>1. LogGrows /\ \A x : Undeleted(x)
      BY <1>0, <1>3, Grows, NoKeyDeleted DEF CancelBooking, SetStatus
    <2>2. \A v \in Workers : req'[v] = req[v] \/ FillGood(req[v])'
      BY <1>0, <1>3 DEF CancelBooking, Serve, Purge, FillGood
    <2>3. QED
      BY <1>3, <2>1, <2>2, FreshFrame DEF CancelBooking
  <1>4. QED
    BY <1>1, <1>2, <1>3, WarmKeysAssumption DEF Start

(* A fill is good after each of its two queries: one that was not behind   *)
(* has read the primary's newest version.                                  *)
LEMMA ReadFresh ==
    ASSUME TypeOK, NEW r \in FillRequest, Read(r).origin = "fresh"
    PROVE  r.origin = "fresh" /\ Source(r) = Primary
  <1>1. r.origin = "fresh" /\ ~ Behind(r)
    BY DEF Read, FillRequest
  <1>2. r.by = "search" /\ ReadsReplica => applied = Len(log)
    BY <1>1 DEF Behind, TypeOK
  <1>3. QED
    BY <1>1, <1>2 DEF Source, Replica, Primary

LEMMA FreshQueries ==
    ASSUME FreshInv, TypeOK', NEW w \in Workers, QueryHotel(w) \/ QueryRooms(w)
    PROVE  FreshInv'
  <1> DEFINE r == req[w]
  <1>0. TypeOK /\ req \in [Workers -> Request] /\ FillGood(r)
    BY DEF FreshInv, TypeOK, FillsGood
  <1>1. r \in FillRequest
    BY <1>0, RequestByPc DEF QueryHotel, QueryRooms
  <1>2. LogGrows /\ (\A x : Undeleted(x)) /\ UNCHANGED <<log, changed, purged, cache>>
    BY <1>0, Grows, NoKeyDeleted DEF QueryHotel, QueryRooms
  <1>3. \A v \in Workers : req'[v] = req[v] \/ v = w
    BY <1>0 DEF QueryHotel, QueryRooms, Serve
  <1>4. \A k, rooms : /\ Truth(k, rooms) => Truth(k, rooms)'
                      /\ SeenOpen(k) => SeenOpen(k)'
    BY <1>0, <1>2, TruthKept
  <1>5. CASE QueryHotel(w)
    <2>1. req'[w] = [Read(r) EXCEPT
                        !.pc = IF Closed(Source(r), r.key) THEN "set" ELSE "rooms"]
      BY <1>0, <1>5 DEF QueryHotel, Serve
    <2>2. /\ req'[w].pc = IF Closed(Source(r), r.key) THEN "set" ELSE "rooms"
          /\ req'[w].origin = Read(r).origin
          /\ req'[w].key = r.key /\ req'[w].rooms = r.rooms
      BY <1>1, <2>1 DEF Read, FillRequest
    <2>3. r.rooms = {}
      BY <1>0, <1>5 DEF FillGood, QueryHotel
    <2>4. CASE req'[w].origin = "fresh"
      <3>1. Source(r) = Primary
        BY <1>0, <1>1, <2>2, <2>4, ReadFresh
      <3>2. \A k : /\ Closed(Primary, k) => Truth(k, {})'
                   /\ ~ Closed(Primary, k) => SeenOpen(k)'
        BY <1>0, <1>4, TruthNow
      <3>3. FillGood(req[w])'
        BY <2>2, <2>3, <3>1, <3>2 DEF FillGood
      <3>4. QED
        BY <1>2, <1>3, <3>3, FreshFrame
    <2>5. CASE req'[w].origin # "fresh"
      <3>1. FillGood(req[w])'
        BY <2>2, <2>3, <2>5 DEF FillGood
      <3>2. QED
        BY <1>2, <1>3, <3>1, FreshFrame
    <2>6. QED
      BY <2>4, <2>5
  <1>6. CASE QueryRooms(w)
    <2>1. req'[w] = [Read(r) EXCEPT !.pc = "set", !.rooms = Free(Source(r), r.key)]
      BY <1>0, <1>6 DEF QueryRooms, Serve
    <2>2. /\ req'[w].pc = "set"
          /\ req'[w].origin = Read(r).origin
          /\ req'[w].key = r.key /\ req'[w].rooms = Free(Source(r), r.key)
      BY <1>1, <2>1 DEF Read, FillRequest
    <2>3. CASE req'[w].origin = "fresh"
      <3>1. Source(r) = Primary /\ SeenOpen(r.key)
        BY <1>0, <1>1, <1>6, <2>2, <2>3, ReadFresh DEF FillGood, QueryRooms
      <3>2. \A k, rooms :
                SeenOpen(k) /\ rooms = Free(Primary, k) => Truth(k, rooms)'
        BY <1>0, <1>4, TruthNow
      <3>3. FillGood(req[w])'
        BY <2>2, <3>1, <3>2 DEF FillGood
      <3>4. QED
        BY <1>2, <1>3, <3>3, FreshFrame
    <2>4. CASE req'[w].origin # "fresh"
      <3>1. FillGood(req[w])'
        BY <2>2, <2>4 DEF FillGood
      <3>2. QED
        BY <1>2, <1>3, <3>1, FreshFrame
    <2>5. QED
      BY <2>3, <2>4
  <1>7. QED
    BY <1>5, <1>6

(* A deletion makes its key one more of those that have to be right, and   *)
(* leaves no entry and no fill that claims to be.                          *)
LEMMA FreshDelete ==
    ASSUME FreshInv, TypeOK', NEW w \in Workers, DeleteKey(w)
    PROVE  FreshInv'
  <1> DEFINE r == req[w]
             key == Head(r.keys)
  <1>0. TypeOK /\ req \in [Workers -> Request] /\ cache \in [Keys -> Entry \cup {NoEntry}]
        /\ FillsGood /\ EntriesGood
    BY DEF FreshInv, TypeOK
  <1>1. r \in PurgeRequest
    BY <1>0, RequestByPc DEF DeleteKey
  <1>2. LogGrows
    BY <1>0, <1>1, Grows DEF DeleteKey
  <1>3. CASE r.keys # <<>>
    <2>1. key \in Keys
      BY <1>1, <1>3, HeadTailProperties DEF PurgeRequest
    <2>2. \A k : k # key => Undeleted(k)
      <3>1. purged' = [purged EXCEPT ![r.booking] = @ \cup {key}] /\ changed' = changed
        BY <1>3 DEF DeleteKey
      <3>2. QED
        BY <1>0, <3>1 DEF TypeOK, Undeleted
    <2>3. cache' = [cache EXCEPT ![key] = NoEntry]
      BY <1>3 DEF DeleteKey
    <2>4. req' = [Overtaken(key) EXCEPT ![w] = [r EXCEPT !.keys = Tail(@)]]
      BY <1>3 DEF DeleteKey
    <2>5. EntriesGood'
      <3> SUFFICES ASSUME NEW k \in Keys, cache'[k].origin = "fresh"
                   PROVE  Truth(k, cache[k].rooms)'
        BY DEF EntriesGood
      <3>1. k # key /\ cache'[k] = cache[k]
        BY <1>0, <2>1, <2>3 DEF NoEntry
      <3>2. PICK rooms : rooms = cache[k].rooms
        OBVIOUS
      <3>3. Truth(k, rooms)'
        BY <1>0, <1>2, <2>2, <3>1, <3>2, TruthKept DEF EntriesGood
      <3>4. QED
        BY <3>1, <3>2, <3>3
    <2>6. FillsGood'
      <3> SUFFICES ASSUME NEW v \in Workers
                   PROVE  FillGood(req[v])'
        BY DEF FillsGood
      <3>1. CASE v = w
        BY <1>1, <2>4, <3>1 DEF Overtaken, PurgeRequest, FillGood
      <3>2. CASE v # w /\ req[v].pc \in {"rooms", "set"} /\ req[v].key = key
        <4>1. req'[v] = [req[v] EXCEPT !.origin = "raced"]
          BY <2>4, <3>2 DEF Overtaken
        <4>2. req[v] \in FillRequest
          BY <1>0, <3>2, RequestByPc
        <4>3. req'[v].pc = req[v].pc /\ req'[v].rooms = req[v].rooms
              /\ req'[v].origin = "raced"
          BY <4>1, <4>2 DEF FillRequest
        <4>4. QED
          BY <1>0, <4>3 DEF FillsGood, FillGood
      <3>3. CASE v # w /\ ~ (req[v].pc \in {"rooms", "set"} /\ req[v].key = key)
        <4>1. req'[v] = req[v]
          BY <2>4, <3>3 DEF Overtaken
        <4>2. CASE req[v].pc \in {"rooms", "set"}
          <5>1. PICK x : x = req[v]
            OBVIOUS
          <5>2. FillGood(x)'
            BY <1>0, <1>2, <2>2, <3>3, <4>2, <5>1, FillKept DEF FillsGood
          <5>3. QED
            BY <4>1, <5>1, <5>2
        <4>3. CASE req[v].pc \notin {"rooms", "set"}
          BY <1>0, <4>1, <4>3 DEF FillsGood, FillGood
        <4>4. QED
          BY <4>2, <4>3
      <3>4. QED
        BY <3>1, <3>2, <3>3
    <2>7. QED
      BY <2>5, <2>6 DEF FreshInv
  <1>4. CASE r.keys = <<>>
    <2>1. UNCHANGED <<changed, purged, cache>>
      BY <1>4 DEF DeleteKey
    <2>2. \A v \in Workers : req'[v] = req[v] \/ FillGood(req[v])'
      BY <1>0, <1>4 DEF DeleteKey, Serve, Idle, FillGood
    <2>3. QED
      BY <1>0, <1>2, <2>1, <2>2, FreshFrame, NoKeyDeleted
  <1>5. QED
    BY <1>3, <1>4

LEMMA FreshContinue ==
    ASSUME FreshInv, TypeOK', NEW w \in Workers, Continue(w)
    PROVE  FreshInv'
  <1>0. TypeOK /\ req \in [Workers -> Request]
    BY DEF FreshInv, TypeOK
  <1>1. ASSUME SetEntry(w)
        PROVE  FreshInv'
    <2> DEFINE r == req[w]
    <2>1. LogGrows /\ \A x : Undeleted(x)
      BY <1>0, <1>1, Grows, NoKeyDeleted DEF SetEntry
    <2>2. \A v \in Workers : req'[v] = req[v] \/ FillGood(req[v])'
      BY <1>0, <1>1 DEF SetEntry, Serve, Idle, FillGood
    <2>3. ASSUME NEW k \in Keys, cache'[k] # cache[k], cache'[k].origin = "fresh"
          PROVE  Truth(k, cache[k].rooms)'
      <3>1. k = r.key /\ cache'[k].rooms = r.rooms /\ r.origin = "fresh"
        BY <1>0, <1>1, <2>3 DEF SetEntry, TypeOK
      <3>2. PICK rooms : rooms = r.rooms
        OBVIOUS
      <3>3. Truth(k, rooms)
        BY <1>1, <3>1, <3>2 DEF FreshInv, FillsGood, FillGood, SetEntry
      <3>4. Truth(k, rooms)'
        BY <1>0, <2>1, <3>3, TruthKept
      <3>5. QED
        BY <3>1, <3>2, <3>4
    <2>4. QED
      BY <2>1, <2>2, <2>3, FreshFrame
  <1>2. ASSUME LoadHit(w) \/ Answer(w)
        PROVE  FreshInv'
    <2>1. LogGrows /\ \A x : Undeleted(x)
      BY <1>0, <1>2, Grows, NoKeyDeleted DEF LoadHit, Answer
    <2>2. req[w] \in AnswerRequest
      BY <1>0, <1>2, RequestByPc DEF LoadHit, Answer
    <2>3. \A v \in Workers : v = w \/ req'[v] = req[v]
      BY <1>0, <1>2 DEF LoadHit, Answer, Serve
    <2>4. req'[w].pc \in {"answer", "idle"}
      <3>1. CASE LoadHit(w)
        BY <1>0, <2>2, <3>1 DEF LoadHit, Serve, AnswerRequest
      <3>2. CASE Answer(w)
        BY <1>0, <3>2 DEF Answer, Serve, Idle
      <3>3. QED
        BY <1>2, <3>1, <3>2
    <2>5. \A v \in Workers : req'[v] = req[v] \/ FillGood(req[v])'
      BY <2>3, <2>4 DEF FillGood
    <2>6. QED
      BY <1>2, <2>1, <2>5, FreshFrame DEF LoadHit, Answer
  <1>3. ASSUME NEW b \in BookingIds, InsertBooking(w, b)
        PROVE  FreshInv'
    <2>1. LogGrows /\ \A x : Undeleted(x)
      BY <1>0, <1>3, Grows, NoKeyDeleted DEF InsertBooking
    <2>2. \A v \in Workers : req'[v] = req[v] \/ FillGood(req[v])'
      BY <1>0, <1>3 DEF InsertBooking, Serve, Purge, FillGood
    <2>3. QED
      BY <1>3, <2>1, <2>2, FreshFrame DEF InsertBooking
  <1>4. QED
    BY <1>1, <1>2, <1>3, FreshQueries, FreshDelete DEF Continue

LEMMA FreshNext ==
    ASSUME FreshInv, [Next]_vars
    PROVE  FreshInv'
  <1>0. TypeOK /\ TypeOK' /\ req \in [Workers -> Request]
    BY TypeNext DEF FreshInv, TypeOK
  <1>1. ASSUME NEW w \in Workers, Fail(w)
        PROVE  FreshInv'
    <2>1. \A v \in Workers : req'[v] = req[v] \/ FillGood(req[v])'
      BY <1>0, <1>1 DEF Fail, Serve, Idle, FillGood
    <2>2. QED
      BY <1>0, <1>1, <2>1, FreshFrame, Grows, NoKeyDeleted DEF Fail
  <1>2. CASE Manage
    <2>1. LogGrows /\ \A x : Undeleted(x)
      BY <1>0, <1>2, Grows, NoKeyDeleted
      DEF Manage, OverrideStatus, SetStatus, ChangeBlackouts, ChangeRoom
    <2>2. UNCHANGED <<req, cache>>
      BY <1>2 DEF Manage, OverrideStatus, ChangeBlackouts, ChangeRoom
    <2>3. QED
      BY <1>0, <2>1, <2>2, FreshFrame
  <1>3. CASE Replicate \/ UNCHANGED vars
    BY <1>0, <1>3, FreshFrame, Grows, NoKeyDeleted DEF Replicate, vars
  <1>4. ASSUME NEW k \in Keys, Expire(k)
        PROVE  FreshInv'
    <2>1. \A x \in Keys : cache'[x] = cache[x] \/ cache'[x].origin # "fresh"
      BY <1>0, <1>4 DEF Expire, TypeOK, NoEntry
    <2>2. QED
      BY <1>0, <1>4, <2>1, FreshFrame, Grows, NoKeyDeleted DEF Expire
  <1>5. QED
    BY <1>0, <1>1, <1>2, <1>3, <1>4, FreshStart, FreshContinue DEF Next

LEMMA FreshInit == Init => FreshInv
  BY TypeInit DEF Init, FreshInv, FillsGood, EntriesGood, FillGood, Idle, NoEntry

(* An entry under a key deleted for the last change of a booking tells of  *)
(* the booking's room what the tables have said since that change, unless  *)
(* it was put together across the deletion or read from a replica that was *)
(* behind (invalidate_availability after the commit in create_booking and  *)
(* cancel_booking, against search_available_rooms and                      *)
(* hourly_cache_warmup).                                                   *)
THEOREM PurgedKeysFresh == Spec => []PurgedKeyFresh
  <1>1. FreshInv => PurgedKeyFresh
    <2> SUFFICES ASSUME FreshInv, NEW b \in BookingIds, NEW k \in purged[b],
                        cache[k].origin = "fresh"
                 PROVE  \E i, j \in changed[b]..Len(log) :
                            (Primary.bookings[b].room \in cache[k].rooms)
                                <=> /\ ~ Closed(log[i], k)
                                    /\ Primary.bookings[b].room \in Free(log[j], k)
      BY DEF PurgedKeyFresh
    <2>1. k \in Keys /\ changed[b] \in Nat /\ Len(log) \in Nat
      BY DEF FreshInv, TypeOK
    <2>2. PICK i \in 1..Len(log), j \in 1..Len(log) :
              /\ changed[b] <= i /\ changed[b] <= j
              /\ cache[k].rooms = IF Closed(log[i], k) THEN {} ELSE Free(log[j], k)
      BY <2>1 DEF FreshInv, EntriesGood, Truth, Told
    <2>3. i \in changed[b]..Len(log) /\ j \in changed[b]..Len(log)
      BY <2>1, <2>2
    <2>4. QED
      BY <2>2, <2>3
  <1>2. QED
    BY <1>1, FreshInit, FreshNext, PTL DEF Spec

-----------------------------------------------------------------------------
(* AnswersActiveRooms.  The version a search began at is not ahead of what *)
(* it can see, and what can be seen only moves forward.                    *)
LEMMA AnswerKept ==
    ASSUME TypeOK, TypeOK', LogGrows, applied <= applied', NEW r,
           AnswerGood(r), r.pc \in {"hit", "answer"} => r \in AnswerRequest
    PROVE  AnswerGood(r)'
  <1>1. FirstSeen \in Nat /\ FirstSeen' \in Nat /\ FirstSeen <= FirstSeen'
    BY DEF FirstSeen, TypeOK, LogGrows
  <1>2. r.pc \in {"hit", "answer"} => r.since \in 1..FirstSeen'
    BY <1>1 DEF AnswerGood
  <1>3. ASSUME r.pc = "answer"
        PROVE  r.rooms \subseteq UNION {log'[i].activeRooms : i \in r.since..Len(log')}
    <2>1. \A i \in r.since..Len(log) :
              /\ i \in r.since..Len(log')
              /\ log'[i] = log[i]
      BY <1>1, <1>3 DEF LogGrows, TypeOK, AnswerGood
    <2>2. QED
      BY <1>3, <2>1 DEF AnswerGood
  <1>4. QED
    BY <1>2, <1>3 DEF AnswerGood

LEMMA ActiveFrame ==
    ASSUME ActiveInv, TypeOK', LogGrows, applied <= applied',
           \A w \in Workers : req'[w] = req[w] \/ AnswerGood(req[w])'
    PROVE  ActiveInv'
  <1>1. ASSUME NEW w \in Workers, req'[w] = req[w]
        PROVE  AnswerGood(req[w])'
    <2>1. PICK r : r = req[w]
      OBVIOUS
    <2>2. r \in Request /\ AnswerGood(r)
      BY <2>1 DEF ActiveInv, AnswersGood, TypeOK
    <2>3. AnswerGood(r)'
      BY <2>2, RequestByPc, AnswerKept DEF ActiveInv
    <2>4. QED
      BY <1>1, <2>1, <2>3
  <1>2. QED
    BY <1>1 DEF ActiveInv, AnswersGood

LEMMA ActiveHit ==
    ASSUME ActiveInv, TypeOK', NEW w \in Workers,
           (\E k \in Keys : Hit(w, k)) \/ LoadHit(w)
    PROVE  ActiveInv'
  <1>0. TypeOK /\ req \in [Workers -> Request] /\ FirstSeen \in 1..Len(log)
    BY DEF ActiveInv, TypeOK, FirstSeen
  <1>1. LogGrows /\ UNCHANGED <<log, applied>> /\ applied <= applied'
    <2>1. UNCHANGED <<log, applied>>
      BY DEF Hit, LoadHit
    <2>2. applied <= applied
      BY <1>0 DEF TypeOK
    <2>3. QED
      BY <1>0, <2>1, <2>2, Grows
  <1>2. \A v \in Workers : v = w \/ req'[v] = req[v]
    BY <1>0 DEF Hit, LoadHit, Serve
  <1>3. ASSUME NEW k \in Keys, Hit(w, k)
        PROVE  AnswerGood(req[w])'
    <2>1. req'[w].pc = "hit" /\ req'[w].since = FirstSeen
      BY <1>0, <1>3 DEF Hit, Serve
    <2>2. FirstSeen' = FirstSeen
      BY <1>1 DEF FirstSeen
    <2>3. QED
      BY <1>0, <2>1, <2>2 DEF AnswerGood
  <1>4. ASSUME LoadHit(w)
        PROVE  AnswerGood(req[w])'
    <2> DEFINE r == req[w]
    <2>1. r \in AnswerRequest /\ r.since \in 1..FirstSeen
      BY <1>0, <1>4, RequestByPc DEF LoadHit, ActiveInv, AnswersGood, AnswerGood
    <2>2. /\ req'[w].pc = "answer" /\ req'[w].since = r.since
          /\ req'[w].rooms \subseteq Replica.activeRooms
      BY <1>0, <1>4, <2>1 DEF LoadHit, Serve, AnswerRequest
    <2>3. Replica = log[FirstSeen]
      BY DEF Replica, Primary, FirstSeen
    <2>4. FirstSeen \in r.since..Len(log)
      BY <1>0, <2>1
    <2>5. Replica.activeRooms \subseteq UNION {log[i].activeRooms : i \in r.since..Len(log)}
      BY <2>3, <2>4
    <2>6. log' = log /\ FirstSeen' = FirstSeen
      BY <1>1 DEF FirstSeen
    <2>7. QED
      BY <2>1, <2>2, <2>5, <2>6 DEF AnswerGood
  <1>5. AnswerGood(req[w])'
    BY <1>3, <1>4
  <1>6. QED
    BY <1>1, <1>2, <1>5, ActiveFrame

(* No other step leaves a worker with a hit or an answer that it had not   *)
(* before.                                                                 *)
LEMMA NoNewAnswer ==
    ASSUME TypeOK, NEW w \in Workers, NEW v \in Workers,
           \/ \E k \in Keys : Miss(w, k) \/ WarmUp(w, k)
           \/ \E r \in Rooms, s \in Stays : CheckAvailable(w, r, s)
           \/ \E b \in BookingIds : CancelBooking(w, b) \/ InsertBooking(w, b)
           \/ QueryHotel(w) \/ QueryRooms(w) \/ SetEntry(w) \/ Answer(w)
           \/ DeleteKey(w) \/ Fail(w)
    PROVE  req'[v] = req[v] \/ req'[v].pc \notin {"hit", "answer"}
  <1>0. req \in [Workers -> Request]
    BY DEF TypeOK
  <1>1. CASE \E k \in Keys : Miss(w, k) \/ WarmUp(w, k)
    BY <1>0, <1>1 DEF Miss, WarmUp, Serve, Fill
  <1>2. CASE \E r \in Rooms, s \in Stays : CheckAvailable(w, r, s)
    BY <1>0, <1>2 DEF CheckAvailable, Serve
  <1>3. CASE \E b \in BookingIds : CancelBooking(w, b) \/ InsertBooking(w, b)
    BY <1>0, <1>3 DEF CancelBooking, InsertBooking, Serve, Purge
  <1>4. CASE QueryHotel(w) \/ QueryRooms(w)
    <2>1. req[w] \in FillRequest
      BY <1>0, <1>4, RequestByPc DEF QueryHotel, QueryRooms
    <2>2. QED
      BY <1>0, <1>4, <2>1 DEF QueryHotel, QueryRooms, Serve, Read, FillRequest
  <1>5. CASE SetEntry(w) \/ Answer(w) \/ Fail(w)
    BY <1>0, <1>5 DEF SetEntry, Answer, Fail, Serve, Idle
  <1>6. CASE DeleteKey(w)
    <2>1. req[w] \in PurgeRequest
      BY <1>0, <1>6, RequestByPc DEF DeleteKey
    <2>2. CASE req[w].keys # <<>> /\ v = w
      BY <1>6, <2>1, <2>2 DEF DeleteKey, Overtaken, PurgeRequest
    <2>3. CASE req[w].keys # <<>> /\ v # w
      <3>1. req'[v] = IF req[v].pc \in {"rooms", "set"} /\ req[v].key = Head(req[w].keys)
                      THEN [req[v] EXCEPT !.origin = "raced"] ELSE req[v]
        BY <1>6, <2>3 DEF DeleteKey, Overtaken
      <3>2. req[v].pc \in {"rooms", "set"} => req[v] \in FillRequest
        BY <1>0, RequestByPc
      <3>3. QED
        BY <3>1, <3>2 DEF FillRequest
    <2>4. CASE req[w].keys = <<>>
      BY <1>0, <1>6, <2>4 DEF DeleteKey, Serve, Idle
    <2>5. QED
      BY <2>2, <2>3, <2>4
  <1>7. QED
    BY <1>1, <1>2, <1>3, <1>4, <1>5, <1>6

LEMMA LogForward ==
    ASSUME TypeOK, [Next]_vars
    PROVE  LogGrows /\ applied <= applied'
  <1>1. applied \in Int
    BY DEF TypeOK
  <1>2. ASSUME NEW w \in Workers, Start(w) \/ Continue(w) \/ Fail(w)
        PROVE  LogGrows /\ applied' = applied
    BY <1>2, Grows
    DEF Start, Continue, Fail, Hit, Miss, WarmUp, CheckAvailable, CancelBooking, SetStatus,
        QueryHotel, QueryRooms, SetEntry, LoadHit, Answer, InsertBooking, DeleteKey
  <1>3. CASE Manage
    <2>1. applied' = applied
      BY <1>3 DEF Manage, OverrideStatus, ChangeBlackouts, ChangeRoom
    <2>2. \E v : CommitVersion(v)
      BY <1>3 DEF Manage, OverrideStatus, SetStatus, ChangeBlackouts, ChangeRoom
    <2>3. QED
      BY <1>1, <2>1, <2>2, Grows
  <1>4. CASE Replicate \/ (\E k \in Keys : Expire(k)) \/ UNCHANGED vars
    BY <1>1, <1>4, Grows DEF Replicate, Expire, vars
  <1>5. QED
    BY <1>1, <1>2, <1>3, <1>4 DEF Next

LEMMA ActiveNext ==
    ASSUME ActiveInv, [Next]_vars
    PROVE  ActiveInv'
  <1>0. TypeOK /\ TypeOK' /\ LogGrows /\ applied <= applied'
    BY TypeNext, LogForward DEF ActiveInv
  <1>1. ASSUME NEW w \in Workers, Start(w) \/ Continue(w) \/ Fail(w)
        PROVE  ActiveInv'
    <2>1. CASE (\E k \in Keys : Hit(w, k)) \/ LoadHit(w)
      BY <1>0, <2>1, ActiveHit
    <2>2. CASE ~ ((\E k \in Keys : Hit(w, k)) \/ LoadHit(w))
      <3>1. \A v \in Workers : req'[v] = req[v] \/ req'[v].pc \notin {"hit", "answer"}
        BY <1>0, <1>1, <2>2, NoNewAnswer, WarmKeysAssumption DEF Start, Continue
      <3>2. \A v \in Workers : req'[v] = req[v] \/ AnswerGood(req[v])'
        BY <3>1 DEF AnswerGood
      <3>3. QED
        BY <1>0, <3>2, ActiveFrame
    <2>3. QED
      BY <2>1, <2>2
  <1>2. CASE Manage \/ Replicate \/ (\E k \in Keys : Expire(k)) \/ UNCHANGED vars
    <2>1. UNCHANGED req
      BY <1>2 DEF Manage, OverrideStatus, ChangeBlackouts, ChangeRoom, Replicate,
                  Expire, vars
    <2>2. QED
      BY <1>0, <2>1, ActiveFrame
  <1>3. QED
    BY <1>1, <1>2 DEF Next

(* A room that is inactive from before a search begins until its answer is *)
(* not answered, though answers come from a cache that no room change      *)
(* touches: search_available_rooms loads the cached ids with is_active.    *)
THEOREM AnswersActive == Spec => []AnswersActiveRooms
  <1>1. Init => ActiveInv
    BY TypeInit DEF Init, ActiveInv, AnswersGood, AnswerGood, Idle
  <1>2. ActiveInv => AnswersActiveRooms
    BY DEF ActiveInv, AnswersGood, AnswerGood, AnswersActiveRooms
  <1>3. QED
    BY <1>1, <1>2, ActiveNext, PTL DEF Spec

=============================================================================
