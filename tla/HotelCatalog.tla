---------------------------- MODULE HotelCatalog ----------------------------
(***************************************************************************)
(* The hotels of the admin API (api/v1/admin/hotels.py): their rows, the   *)
(* Redis entries for the hotel list and for each hotel, and the            *)
(* Meilisearch index that Celery tasks keep (tasks/indexing_tasks.py).     *)
(*                                                                         *)
(* A write is a series of steps: commit, refresh, queue a task, delete one *)
(* or two keys.  A read fills the entry it misses.  Several Celery         *)
(* processes take tasks from one queue.  An action is one SQL statement,   *)
(* one Redis command or one call of Meilisearch.  A hotel's row is its     *)
(* version, counted from its creation; a hit changes nothing and is left   *)
(* out.                                                                    *)
(***************************************************************************)
EXTENDS Integers, Sequences, FiniteSets

CONSTANTS
    Workers,     \* the threads that serve requests
    Runners,     \* the processes of the Celery worker
    Hotels,      \* bound: the hotels that can ever be created
    AllHotels,   \* the key of the hotel list; a hotel is its own detail key
    Keys,        \* bound: the keys that are ever read
    MaxVersion,  \* bound: the versions of a hotel
    MaxPending,  \* bound: writes in progress and queued tasks
    MaxCrashes   \* bound: the crashes of Celery processes

ASSUME WorkersAssumption == IsFiniteSet(Workers)
ASSUME ListKeyAssumption == AllHotels \notin Hotels
ASSUME CatalogKeysAssumption == Keys \subseteq Hotels \cup {AllHotels}
ASSUME BoundsAssumption ==
    MaxVersion \in Nat \ {0} /\ MaxPending \in Nat /\ MaxCrashes \in Nat

VARIABLES
    rows,     \* rows[h]: 0 before h is created, then its version, at last Gone
    cache,    \* cache[k]: the entry under key k
    index,    \* index[h]: the version the index holds of h, or 0
    queue,    \* the Celery queue
    req,      \* req[w]: the request worker w is serving
    run,      \* run[c]: the task process c is running
    crashes,  \* how many times a process has crashed
    \* History variables: no action reads them.
    skipped,  \* keys not deleted after a commit, nor since
    lost,     \* lost[h]: the versions of h whose indexing was given up
    newest    \* newest[h]: the newest version of h the index has held

history == <<skipped, lost, newest>>
vars == <<rows, cache, index, queue, req, run, crashes, history>>

-----------------------------------------------------------------------------
Gone == MaxVersion + 1
Exists(h) == rows[h] \in 1..MaxVersion

(* What the index holds of a hotel, and the list shows of it. *)
Doc(n) == IF n = Gone THEN 0 ELSE n
View(k) == [h \in IF k = AllHotels THEN Hotels ELSE {k} |-> Doc(rows[h])]

Views == UNION {[H -> 0..MaxVersion] : H \in {Hotels} \cup {{h} : h \in Hotels}}

(* raced: the key was deleted between the read and the SETEX (history).    *)
Entry == [view : Views, raced : BOOLEAN]
NoEntry == [view |-> {}]
Cached(k) == cache[k] # NoEntry

Task == [do : {"reindex", "drop"}, hotel : Hotels]
Resting == [do |-> "rest"]
Running == {Resting} \cup Task \cup
           [do : {"write"}, hotel : Hotels, version : 1..MaxVersion]

(* The steps of the three writes, in the order of the code. *)
Ops == {"create", "update", "delete"}
Do(x) == [do |-> x]
Delete(k) == [do |-> "delete", key |-> k]
Step == {Do(x) : x \in {"commit", "refresh", "enqueue"}}
            \cup {Delete(k) : k \in Keys}

(* Keys that are never read are left out. *)
Deletion(k) == IF k \in Keys THEN <<Delete(k)>> ELSE <<>>

(* Mistake: the cache is emptied first. *)
StepsPurgingFirst(op, h) ==
    Deletion(AllHotels) \o Deletion(h) \o <<Do("commit"), Do("enqueue")>>

(* Mistake: the task is queued before the commit. *)
StepsQueueingFirst(op, h) ==
    <<Do("enqueue"), Do("commit")>> \o Deletion(AllHotels) \o Deletion(h)

Steps(op, h) ==
    CASE op = "create" -> <<Do("commit"), Do("refresh"), Do("enqueue")>>
                              \o Deletion(AllHotels)
      [] op = "update" -> <<Do("commit"), Do("refresh"), Do("enqueue")>>
                              \o Deletion(AllHotels) \o Deletion(h)
      [] op = "delete" -> <<Do("commit"), Do("enqueue")>>
                              \o Deletion(AllHotels) \o Deletion(h)

Idle == [op |-> "idle"]

(* version: the version it has committed, 0 if none (history). *)
Write == [op : Ops, hotel : Hotels, version : 0..Gone, todo : Seq(Step)]
Fill == [op : {"read"}, key : Keys]
            \cup [op : {"set"}, key : Keys, view : Views, raced : BOOLEAN]

Serve(w, r) == req' = [req EXCEPT ![w] = r]
Advance(r) == IF Len(r.todo) = 1 THEN Idle ELSE [r EXCEPT !.todo = Tail(@)]
At(w, x) == req[w].op \in Ops /\ Head(req[w].todo).do = x

TypeOK ==
    /\ rows \in [Hotels -> 0..Gone]
    /\ cache \in [Keys -> Entry \cup {NoEntry}]
    /\ index \in [Hotels -> 0..MaxVersion]
    /\ queue \in Seq(Task) /\ Len(queue) <= MaxPending + MaxCrashes
    /\ req \in [Workers -> {Idle} \cup Write \cup Fill]
    /\ run \in [Runners -> Running]
    /\ crashes \in 0..MaxCrashes
    /\ skipped \subseteq Keys
    /\ lost \in [Hotels -> SUBSET (0..Gone)]
    /\ newest \in [Hotels -> 0..Gone]

Init ==
    /\ rows = [h \in Hotels |-> 0]
    /\ cache = [k \in Keys |-> NoEntry]
    /\ index = [h \in Hotels |-> 0]
    /\ queue = <<>>
    /\ req = [w \in Workers |-> Idle]
    /\ run = [c \in Runners |-> Resting]
    /\ crashes = 0
    /\ skipped = {}
    /\ lost = [h \in Hotels |-> {}]
    /\ newest = [h \in Hotels |-> 0]

-----------------------------------------------------------------------------
(* What a request in progress has yet to do about what it committed. *)

Owes(r, s) == r.op \in Ops /\ r.version # 0 /\ \E i \in 1..Len(r.todo) : r.todo[i] = s

(* The request ends here: Redis, the broker or the database fails, the     *)
(* handler raises, or the process dies.                                    *)
Abandon(w) ==
    LET r == req[w] IN
    /\ Serve(w, Idle)
    /\ skipped' = skipped \cup {k \in Keys : Owes(r, Delete(k))}
    /\ lost' = IF Owes(r, Do("enqueue"))
               THEN [lost EXCEPT ![r.hotel] = @ \cup {r.version}] ELSE lost
    /\ UNCHANGED <<rows, cache, index, queue, run, crashes, newest>>

Fail(w) == req[w] # Idle /\ Abandon(w)

-----------------------------------------------------------------------------
(* The writes. *)

Writers == {w \in Workers : req[w].op \in Ops}

(* An update or a deletion first reads the hotel, and answers 404 if there *)
(* is none; a new hotel has an id of its own.                              *)
StartWrite(w, op, h) ==
    /\ req[w] = Idle
    /\ Len(queue) + Cardinality(Writers) < MaxPending
    /\ op = "create" => rows[h] = 0 /\ \A v \in Writers : req[v].hotel # h
    /\ Serve(w, IF op = "create" \/ Exists(h)
                THEN [op |-> op, hotel |-> h, version |-> 0, todo |-> Steps(op, h)]
                ELSE Idle)
    /\ UNCHANGED <<rows, cache, index, queue, run, crashes, history>>

(* Mistake: an update of a hotel that is gone inserts it again. *)
ResultsReviving(op, n) == IF op = "delete" THEN {Gone} ELSE {n + 1}

(* The versions a commit may leave behind.  An update that changes no      *)
(* column sends no UPDATE; one that does raises when the row is gone.  A   *)
(* deletion of a row that is gone goes on.                                 *)
Results(op, n) ==
    CASE op = "create" -> {1}
      [] op = "update" -> {n} \cup IF n < MaxVersion THEN {n + 1} ELSE {}
      [] op = "delete" -> {Gone}

Commit(w) ==
    LET r == req[w] IN
    /\ At(w, "commit")
    /\ \E n \in Results(r.op, rows[r.hotel]) :
          /\ rows' = [rows EXCEPT ![r.hotel] = n]
          /\ Serve(w, [Advance(r) EXCEPT
                          !.version = IF n = rows[r.hotel] THEN 0 ELSE n])
    /\ UNCHANGED <<cache, index, queue, run, crashes, history>>

(* db.refresh raises when the row has been deleted since the commit. *)
Refresh(w) ==
    /\ At(w, "refresh")
    /\ \/ /\ Exists(req[w].hotel)
          /\ Serve(w, Advance(req[w]))
          /\ UNCHANGED <<rows, cache, index, queue, run, crashes, history>>
       \/ /\ ~ Exists(req[w].hotel)
          /\ Abandon(w)

TaskOf(r) == [do |-> IF r.op = "delete" THEN "drop" ELSE "reindex",
              hotel |-> r.hotel]

Enqueue(w) ==
    /\ At(w, "enqueue")
    /\ queue' = Append(queue, TaskOf(req[w]))
    /\ Serve(w, Advance(req[w]))
    /\ UNCHANGED <<rows, cache, index, run, crashes, history>>

Overtaken(k) ==
    [v \in Workers |-> IF req[v].op = "set" /\ req[v].key = k
                       THEN [req[v] EXCEPT !.raced = TRUE] ELSE req[v]]

(* cache_delete swallows a failure. *)
DeleteKey(w) ==
    LET r == req[w]
        k == Head(r.todo).key
    IN  /\ At(w, "delete")
        /\ \/ /\ cache' = [cache EXCEPT ![k] = NoEntry]
              /\ skipped' = skipped \ {k}
              /\ req' = [Overtaken(k) EXCEPT ![w] = Advance(r)]
           \/ /\ skipped' = IF Owes(r, Delete(k)) THEN skipped \cup {k} ELSE skipped
              /\ Serve(w, Advance(r))
              /\ UNCHANGED cache
        /\ UNCHANGED <<rows, index, queue, run, crashes, lost, newest>>

-----------------------------------------------------------------------------
(* The reads: list_hotels_endpoint and get_hotel_endpoint after a miss, or *)
(* after a failure of Redis.                                               *)

StartRead(w, k) ==
    /\ req[w] = Idle
    /\ Serve(w, [op |-> "read", key |-> k])
    /\ UNCHANGED <<rows, cache, index, queue, run, crashes, history>>

(* A hotel that does not exist is answered 404 and not cached. *)
ReadRows(w) ==
    LET k == req[w].key IN
    /\ req[w].op = "read"
    /\ IF k = AllHotels \/ Exists(k)
       THEN Serve(w, [op |-> "set", key |-> k, view |-> View(k), raced |-> FALSE])
       ELSE Serve(w, Idle)
    /\ UNCHANGED <<rows, cache, index, queue, run, crashes, history>>

(* cache_set swallows a failure. *)
SetEntry(w) ==
    LET r == req[w] IN
    /\ r.op = "set"
    /\ \/ cache' = [cache EXCEPT ![r.key] = [view |-> r.view, raced |-> r.raced]]
       \/ UNCHANGED cache
    /\ Serve(w, Idle)
    /\ UNCHANGED <<rows, index, queue, run, crashes, history>>

(* Mistake: entries are written with SET instead of SETEX. *)
NeverExpire(k) == FALSE /\ UNCHANGED vars

Expire(k) ==
    /\ Cached(k)
    /\ cache' = [cache EXCEPT ![k] = NoEntry]
    /\ UNCHANGED <<rows, index, queue, req, run, crashes, history>>

-----------------------------------------------------------------------------
(* The Celery tasks. *)

Run(c, t) == run' = [run EXCEPT ![c] = t]

Take(c) ==
    /\ run[c] = Resting
    /\ queue # <<>>
    /\ Run(c, Head(queue))
    /\ queue' = Tail(queue)
    /\ UNCHANGED <<rows, cache, index, req, crashes, history>>

(* reindex_hotel: a hotel that is not found is left alone. *)
ReadHotel(c) ==
    LET h == run[c].hotel IN
    /\ run[c].do = "reindex"
    /\ Run(c, IF Exists(h) THEN [do |-> "write", hotel |-> h, version |-> rows[h]]
              ELSE Resting)
    /\ UNCHANGED <<rows, cache, index, queue, req, crashes, history>>

Larger(m, n) == IF m < n THEN n ELSE m

(* index_hotel and delete_hotel_from_index swallow a failure. *)
Reflect(h, n) ==
    \/ /\ index' = [index EXCEPT ![h] = Doc(n)]
       /\ newest' = [newest EXCEPT ![h] = Larger(@, n)]
       /\ UNCHANGED lost
    \/ /\ lost' = [lost EXCEPT ![h] = @ \cup {n}]
       /\ UNCHANGED <<index, newest>>

WriteIndex(c) ==
    /\ run[c].do = "write"
    /\ Reflect(run[c].hotel, run[c].version)
    /\ Run(c, Resting)
    /\ UNCHANGED <<rows, cache, queue, req, crashes, skipped>>

(* Mistake: the call of Meilisearch never returns. *)
DropHanging(c) == run[c].do = "drop" /\ UNCHANGED vars

DropDocument(c) ==
    /\ run[c].do = "drop"
    /\ Reflect(run[c].hotel, Gone)
    /\ Run(c, Resting)
    /\ UNCHANGED <<rows, cache, queue, req, crashes, skipped>>

(* task_acks_late: the task of a process that dies is delivered again,     *)
(* except when Celery, still alive, acknowledges it.                       *)
Again(t) == [do |-> IF t.do = "drop" THEN "drop" ELSE "reindex", hotel |-> t.hotel]

Carries(t) == CASE t.do = "write" -> t.version
                [] t.do = "reindex" -> rows[t.hotel]
                [] t.do = "drop" -> Gone

CrashRunner(c) ==
    LET t == run[c] IN
    /\ t # Resting
    /\ crashes < MaxCrashes
    /\ crashes' = crashes + 1
    /\ Run(c, Resting)
    /\ \/ /\ queue' \in {Append(queue, Again(t)), <<Again(t)>> \o queue}
          /\ UNCHANGED lost
       \/ /\ lost' = [lost EXCEPT ![t.hotel] = @ \cup {Carries(t)}]
          /\ UNCHANGED queue
    /\ UNCHANGED <<rows, cache, index, req, skipped, newest>>

-----------------------------------------------------------------------------
Start(w) ==
    \/ \E op \in Ops, h \in Hotels : StartWrite(w, op, h)
    \/ \E k \in Keys : StartRead(w, k)

Continue(w) ==
    \/ Commit(w)
    \/ Refresh(w)
    \/ Enqueue(w)
    \/ DeleteKey(w)
    \/ ReadRows(w)
    \/ SetEntry(w)

Process(c) == Take(c) \/ ReadHotel(c) \/ WriteIndex(c) \/ DropDocument(c)

Next ==
    \/ \E w \in Workers : Start(w) \/ Continue(w) \/ Fail(w)
    \/ \E c \in Runners : Process(c) \/ CrashRunner(c)
    \/ \E k \in Keys : Expire(k)

Spec == Init /\ [][Next]_vars

(* Accepted work runs on, Celery works off its queue, Redis expires keys.  *)
FairSpec ==
    /\ Spec
    /\ \A w \in Workers : WF_vars(Continue(w))
    /\ \A c \in Runners : WF_vars(Process(c))
    /\ \A k \in Keys : WF_vars(Expire(k))

-----------------------------------------------------------------------------
(* Properties. *)

(* What view, held under key k, says of h is right, or the reason is known.*)
Explained(k, h, view, raced) ==
    \/ view[h] = Doc(rows[h])
    \/ raced
    \/ k \in skipped
    \/ \E w \in Workers : /\ Owes(req[w], Delete(k))
                          /\ req[w].hotel = h /\ req[w].version = rows[h]

(* An entry that differs from the rows was put together while its key was  *)
(* being deleted, or the deletion failed, or the request that made the     *)
(* difference has still to delete it (the three write handlers against     *)
(* the two reads).                                                         *)
CacheExplained ==
    \A k \in Keys :
        Cached(k) => \A h \in DOMAIN cache[k].view :
                        Explained(k, h, cache[k].view, cache[k].raced)

(* A task that will bring the current version of h to the index. *)
BringsCurrent(t, h) ==
    /\ t # Resting
    /\ t.hotel = h
    /\ CASE t.do = "reindex" -> Exists(h)
         [] t.do = "write" -> t.version = rows[h]
         [] t.do = "drop" -> rows[h] = Gone

Due(h) ==
    \/ \E w \in Workers : /\ Owes(req[w], Do("enqueue"))
                          /\ req[w].hotel = h /\ req[w].version = rows[h]
    \/ \E i \in 1..Len(queue) : BringsCurrent(queue[i], h)
    \/ \E c \in Runners : BringsCurrent(run[c], h)

InSync(h) == index[h] = Doc(rows[h])
GivenUp(h) == rows[h] \in lost[h]
Overwritten(h) == newest[h] = rows[h]

(* When the index differs from a hotel's row, the task that corrects it is *)
(* still to come, or indexing that version failed and was swallowed, or    *)
(* the index did hold it and a task that had read an older version wrote   *)
(* later (reindex_hotel and delete_hotel_index, run by several processes). *)
IndexExplained ==
    \A h \in Hotels : InSync(h) \/ Due(h) \/ GivenUp(h) \/ Overwritten(h)

(* Once hotels stop changing, the cached list and hotels come to be right  *)
(* and stay so: whatever was raced or skipped expires.                     *)
CachesSettle ==
    <>[](\A k \in Keys : Cached(k) => cache[k].view = View(k))

(* Once hotels stop changing, the index has held the last version of each, *)
(* unless its indexing failed: no correction stays due for ever.           *)
IndexSettles ==
    <>[](\A h \in Hotels : InSync(h) \/ GivenUp(h) \/ Overwritten(h))

=============================================================================
