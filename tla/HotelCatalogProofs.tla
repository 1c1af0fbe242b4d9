------------------------- MODULE HotelCatalogProofs -------------------------
(***************************************************************************)
(* Proofs about HotelCatalog, for any finite set of workers and any sets   *)
(* of Celery processes, hotels and keys that are read.                     *)
(*                                                                         *)
(* What is wrong in the cache or in the index is always some write's own   *)
(* doing, so both safety properties rest on the same facts about a write   *)
(* in progress (WriteGood): until it commits it has done nothing, and what *)
(* it has yet to do after the commit is a tail of its steps.               *)
(***************************************************************************)
EXTENDS HotelCatalog, SequenceTheorems, FiniteSetTheorems, TLAPS

Has(s, x) == \E i \in 1..Len(s) : s[i] = x

Committing(r) == r.op \in Ops /\ Has(r.todo, Do("commit"))
Queueing(r) == r.op \in Ops /\ Has(r.todo, Do("enqueue"))

(* At most one step of a write puts a task on the queue. *)
OneTask(s) ==
    \A i, j \in 1..Len(s) : s[i] = Do("enqueue") /\ s[j] = Do("enqueue") => i = j

WriteGood(r) ==
    /\ r.todo # <<>>
    /\ OneTask(r.todo)
    /\ Has(r.todo, Do("commit")) =>
          /\ r.version = 0
          /\ r.todo = Steps(r.op, r.hotel)
          /\ r.op = "create" => rows[r.hotel] = 0
    /\ ~ Has(r.todo, Do("commit")) /\ r.op = "delete" => rows[r.hotel] = Gone
    /\ r.version # 0 =>
          /\ r.version \in IF r.op = "delete" THEN {Gone} ELSE 1..MaxVersion
          /\ r.version <= rows[r.hotel]

WritesGood == \A w \in Writers : WriteGood(req[w])

(* Nobody else writes a hotel that is being created. *)
Sole ==
    \A v, w \in Writers :
        Committing(req[w]) /\ req[w].op = "create" /\ req[v].hotel = req[w].hotel => v = w

(* Every write still to queue a task has a place on the queue. *)
Producers == {w \in Workers : Queueing(req[w])}
Room == Len(queue) + Cardinality(Producers) <= MaxPending + crashes

TypeInv == TypeOK /\ WritesGood /\ Sole /\ Room

-----------------------------------------------------------------------------
(* CacheExplained: the same of the fills under way as of the entries. *)

Shown(k) == IF k = AllHotels THEN Hotels ELSE {k}

ViewGood(k, view, raced) ==
    /\ DOMAIN view = Shown(k)
    /\ \A h \in Shown(k) : Explained(k, h, view, raced)

EntriesGood ==
    \A k \in Keys : Cached(k) => ViewGood(k, cache[k].view, cache[k].raced)

FillsGood ==
    \A w \in Workers :
        req[w].op = "set" => ViewGood(req[w].key, req[w].view, req[w].raced)

(* A hotel that has never existed has not been read. *)
Held(k) == Cached(k) \/ \E w \in Workers : req[w].op = "set" /\ req[w].key = k
Unborn == \A h \in Hotels \cap Keys : Held(h) => rows[h] # 0

CacheInv == TypeInv /\ EntriesGood /\ FillsGood /\ Unborn

-----------------------------------------------------------------------------
(* IndexExplained: tasks are about versions that have been. *)

TaskGood(t) ==
    /\ t.do = "drop" => rows[t.hotel] = Gone
    /\ t.do = "write" => t.version <= rows[t.hotel]

Elements(q) == {q[i] : i \in 1..Len(q)}
Tasks == Elements(queue) \cup {run[c] : c \in Runners}
TasksGood == \A t \in Tasks : TaskGood(t)

OwesTask(w, h) ==
    /\ Owes(req[w], Do("enqueue"))
    /\ req[w].hotel = h /\ req[w].version = rows[h]

IndexGood(h) ==
    /\ rows[h] = 0 => index[h] = 0
    /\ newest[h] <= rows[h]
    /\ rows[h] = 0 \/ Due(h) \/ GivenUp(h) \/ Overwritten(h)

IndexInv == TypeInv /\ TasksGood /\ \A h \in Hotels : IndexGood(h)

-----------------------------------------------------------------------------
(* Lists of steps. *)

LEMMA HasConcat ==
    ASSUME NEW p \in Seq(Step), NEW q \in Seq(Step), NEW x
    PROVE  Has(p \o q, x) <=> Has(p, x) \/ Has(q, x)
  <1>1. Len(p) \in Nat /\ Len(q) \in Nat /\ Len(p \o q) = Len(p) + Len(q)
    BY ConcatProperties
  <1>2. \A i \in 1..Len(p) : i \in 1..Len(p \o q) /\ (p \o q)[i] = p[i]
    BY <1>1, ConcatProperties
  <1>3. \A i \in 1..Len(q) : Len(p) + i \in 1..Len(p \o q) /\ (p \o q)[Len(p) + i] = q[i]
    BY <1>1, ConcatProperties
  <1>4. ASSUME NEW i \in 1..Len(p \o q)
        PROVE  \/ i \in 1..Len(p) /\ (p \o q)[i] = p[i]
               \/ i - Len(p) \in 1..Len(q) /\ (p \o q)[i] = q[i - Len(p)]
    BY <1>1, ConcatProperties
  <1>5. QED
    BY <1>2, <1>3, <1>4 DEF Has

LEMMA Popped ==
    ASSUME NEW s \in Seq(Step), s # <<>>
    PROVE  /\ Head(s) \in Step /\ Head(s) = s[1]
           /\ Tail(s) \in Seq(Step)
           /\ Len(s) = 1 <=> Tail(s) = <<>>
           /\ \A x : Has(s, x) <=> Head(s) = x \/ Has(Tail(s), x)
           /\ OneTask(s) => /\ OneTask(Tail(s))
                            /\ Head(s) = Do("enqueue") => ~ Has(Tail(s), Do("enqueue"))
  <1>1. /\ Head(s) \in Step /\ Head(s) = s[1] /\ Tail(s) \in Seq(Step)
        /\ Len(s) \in Nat \ {0} /\ Len(Tail(s)) = Len(s) - 1
        /\ \A i \in 1..Len(Tail(s)) : Tail(s)[i] = s[i + 1]
    BY HeadTailProperties, EmptySeq
  <1>2. Len(s) = 1 <=> Tail(s) = <<>>
    <2>1. \A t \in Seq(Step) : t = <<>> <=> Len(t) = 0
      BY EmptySeq
    <2>2. Len(s) = 1 <=> Len(Tail(s)) = 0
      BY <1>1
    <2>3. QED
      BY <1>1, <2>1, <2>2
  <1>3. \A i \in 1..Len(Tail(s)) : i + 1 \in 1..Len(s)
    BY <1>1
  <1>4. \A i \in 1..Len(s) : i = 1 \/ (i - 1 \in 1..Len(Tail(s)) /\ s[i] = Tail(s)[i - 1])
    BY <1>1
  <1>5. 1 \in 1..Len(s)
    BY <1>1
  <1>6. \A x : Has(s, x) <=> Head(s) = x \/ Has(Tail(s), x)
    BY <1>1, <1>3, <1>4, <1>5 DEF Has
  <1>7. ASSUME OneTask(s)
        PROVE  /\ OneTask(Tail(s))
               /\ Head(s) = Do("enqueue") => ~ Has(Tail(s), Do("enqueue"))
    <2>1. OneTask(Tail(s))
      <3> SUFFICES ASSUME NEW i \in 1..Len(Tail(s)), NEW j \in 1..Len(Tail(s)),
                          Tail(s)[i] = Do("enqueue"), Tail(s)[j] = Do("enqueue")
                   PROVE  i = j
        BY DEF OneTask
      <3>1. i + 1 = j + 1
        BY <1>1, <1>3, <1>7 DEF OneTask
      <3>2. QED
        BY <3>1
    <2>2. ASSUME Head(s) = Do("enqueue"), NEW i \in 1..Len(Tail(s)),
                 Tail(s)[i] = Do("enqueue")
          PROVE  FALSE
      <3>1. 1 = i + 1
        BY <1>1, <1>3, <1>5, <1>7, <2>2 DEF OneTask
      <3>2. QED
        BY <3>1
    <2>3. QED
      BY <2>1, <2>2 DEF Has
  <1>8. QED
    BY <1>1, <1>2, <1>6, <1>7

(* Steps that are a commit, perhaps a refresh, a task, and deletions. *)
LEMMA PlanGood ==
    ASSUME NEW p \in Seq(Step), NEW d \in Seq(Step), NEW s, s = p \o d,
           Len(p) >= 2,
           \A i \in 1..Len(p) : /\ p[i] = Do("commit") <=> i = 1
                                /\ p[i] = Do("enqueue") <=> i = Len(p),
           \A i \in 1..Len(d) : d[i].do = "delete"
    PROVE  /\ s \in Seq(Step) /\ s # <<>> /\ OneTask(s)
           /\ Head(s) = Do("commit") /\ Has(s, Do("commit"))
           /\ Tail(s) # <<>>
           /\ ~ Has(Tail(s), Do("commit")) /\ Has(Tail(s), Do("enqueue"))
           /\ \A k : Has(d, Delete(k)) => Has(Tail(s), Delete(k))
  <1>1. /\ s \in Seq(Step) /\ Len(s) = Len(p) + Len(d)
        /\ Len(p) \in Nat /\ Len(d) \in Nat /\ Len(s) \in Nat
        /\ \A i \in 1..Len(s) : s[i] = IF i <= Len(p) THEN p[i] ELSE d[i - Len(p)]
    BY ConcatProperties
  <1>2. \A i \in 1..Len(s) : /\ s[i] = Do("commit") <=> i = 1
                             /\ s[i] = Do("enqueue") <=> i = Len(p)
    <2> SUFFICES ASSUME NEW i \in 1..Len(s)
                 PROVE  /\ s[i] = Do("commit") <=> i = 1
                        /\ s[i] = Do("enqueue") <=> i = Len(p)
      OBVIOUS
    <2>1. CASE i <= Len(p)
      BY <1>1, <2>1
    <2>2. CASE i > Len(p)
      <3>1. s[i] = d[i - Len(p)] /\ i - Len(p) \in 1..Len(d)
        BY <1>1, <2>2
      <3>2. s[i].do = "delete"
        BY <3>1
      <3>3. s[i] # Do("commit") /\ s[i] # Do("enqueue")
        BY <3>2 DEF Do
      <3>4. QED
        BY <1>1, <2>2, <3>3
    <2>3. QED
      BY <1>1, <2>1, <2>2
  <1>3. 1 \in 1..Len(s) /\ Len(p) \in 1..Len(s) /\ Len(s) # 1
    BY <1>1
  <1>4. s # <<>>
    BY <1>3, EmptySeq
  <1>5. Head(s) = Do("commit") /\ Tail(s) # <<>>
    BY <1>1, <1>2, <1>3, <1>4, Popped
  <1>6. Len(Tail(s)) = Len(s) - 1 /\ \A i \in 1..Len(Tail(s)) : Tail(s)[i] = s[i + 1]
    BY <1>1, <1>4, HeadTailProperties
  <1>7. ~ Has(Tail(s), Do("commit"))
    <2> SUFFICES ASSUME NEW i \in 1..Len(Tail(s)), Tail(s)[i] = Do("commit")
                 PROVE  FALSE
      BY DEF Has
    <2>1. i + 1 \in 1..Len(s) /\ i + 1 # 1
      BY <1>1, <1>6
    <2>2. QED
      BY <1>2, <1>6, <2>1
  <1>8. OneTask(s)
    BY <1>2 DEF OneTask
  <1>9. Has(s, Do("enqueue")) /\ Has(s, Do("commit"))
    BY <1>2, <1>3 DEF Has
  <1>10. \A x : x # Do("commit") /\ Has(s, x) => Has(Tail(s), x)
    BY <1>1, <1>4, <1>5, Popped
  <1>11. Do("enqueue") # Do("commit") /\ \A k : Delete(k) # Do("commit")
    BY DEF Do, Delete
  <1>12. \A x : Has(d, x) => Has(s, x)
    BY HasConcat
  <1>13. QED
    BY <1>1, <1>4, <1>5, <1>7, <1>8, <1>9, <1>10, <1>11, <1>12

(* The steps of a write: what is left of them after the commit. *)
LEMMA StepsGood ==
    ASSUME NEW op \in Ops, NEW h \in Hotels
    PROVE  /\ Steps(op, h) \in Seq(Step) /\ Steps(op, h) # <<>>
           /\ OneTask(Steps(op, h))
           /\ Head(Steps(op, h)) = Do("commit") /\ Has(Steps(op, h), Do("commit"))
           /\ Tail(Steps(op, h)) # <<>>
           /\ ~ Has(Tail(Steps(op, h)), Do("commit"))
           /\ Has(Tail(Steps(op, h)), Do("enqueue"))
           /\ AllHotels \in Keys => Has(Tail(Steps(op, h)), Delete(AllHotels))
           /\ op # "create" /\ h \in Keys => Has(Tail(Steps(op, h)), Delete(h))
  <1>1. \A k : /\ Deletion(k) \in Seq(Step)
               /\ k \in Keys => Has(Deletion(k), Delete(k))
               /\ \A i \in 1..Len(Deletion(k)) : Deletion(k)[i].do = "delete"
    <2> SUFFICES ASSUME NEW k
                 PROVE  /\ Deletion(k) \in Seq(Step)
                        /\ k \in Keys => Has(Deletion(k), Delete(k))
                        /\ \A i \in 1..Len(Deletion(k)) : Deletion(k)[i].do = "delete"
      OBVIOUS
    <2>1. CASE k \in Keys
      <3>1. Deletion(k) = <<Delete(k)>> /\ Delete(k) \in Step /\ Delete(k).do = "delete"
        BY <2>1 DEF Deletion, Step, Delete
      <3>2. QED
        BY <3>1 DEF Has
    <2>2. CASE k \notin Keys
      BY <2>2 DEF Deletion
    <2>3. QED
      BY <2>1, <2>2
  <1>2. Do("commit") \in Step /\ Do("refresh") \in Step /\ Do("enqueue") \in Step
        /\ Do("commit") # Do("refresh") /\ Do("commit") # Do("enqueue")
        /\ Do("refresh") # Do("enqueue")
    BY DEF Step, Do
  <1>3. PICK p : p = IF op = "delete" THEN <<Do("commit"), Do("enqueue")>>
                     ELSE <<Do("commit"), Do("refresh"), Do("enqueue")>>
    OBVIOUS
  <1>4. p \in Seq(Step) /\ Len(p) >= 2
        /\ \A i \in 1..Len(p) : /\ p[i] = Do("commit") <=> i = 1
                                /\ p[i] = Do("enqueue") <=> i = Len(p)
    <2>1. CASE op = "delete"
      <3>1. p = <<Do("commit"), Do("enqueue")>>
        BY <1>3, <2>1
      <3>2. QED
        BY <1>2, <3>1
    <2>2. CASE op # "delete"
      <3>1. p = <<Do("commit"), Do("refresh"), Do("enqueue")>>
        BY <1>3, <2>2
      <3>2. QED
        BY <1>2, <3>1
    <2>3. QED
      BY <2>1, <2>2
  <1>5. PICK d : d = IF op = "create" THEN Deletion(AllHotels)
                     ELSE Deletion(AllHotels) \o Deletion(h)
    OBVIOUS
  <1>6. /\ d \in Seq(Step)
        /\ \A i \in 1..Len(d) : d[i].do = "delete"
        /\ AllHotels \in Keys => Has(d, Delete(AllHotels))
        /\ op # "create" /\ h \in Keys => Has(d, Delete(h))
    <2>1. CASE op = "create"
      BY <1>1, <1>5, <2>1
    <2>2. CASE op # "create"
      <3>1. d = Deletion(AllHotels) \o Deletion(h)
        BY <1>5, <2>2
      <3>2. d \in Seq(Step)
        BY <1>1, <3>1, ConcatProperties
      <3>3. \A x : Has(d, x) <=> Has(Deletion(AllHotels), x) \/ Has(Deletion(h), x)
        BY <1>1, <3>1, HasConcat
      <3>4. \A i \in 1..Len(d) : Has(d, d[i])
        BY DEF Has
      <3>5. \A x, k : Has(Deletion(k), x) => x.do = "delete"
        BY <1>1 DEF Has
      <3>6. QED
        BY <1>1, <3>2, <3>3, <3>4, <3>5
    <2>3. QED
      BY <2>1, <2>2
  <1>7. Steps(op, h) = p \o d
    <2>1. CASE op = "create"
      BY <1>3, <1>5, <2>1 DEF Steps
    <2>2. CASE op # "create"
      <3>1. Steps(op, h) = (p \o Deletion(AllHotels)) \o Deletion(h)
        BY <1>3, <2>2 DEF Steps, Ops
      <3>2. d = Deletion(AllHotels) \o Deletion(h)
        BY <1>5, <2>2
      <3>3. QED
        BY <1>1, <1>4, <3>1, <3>2, ConcatAssociative
    <2>3. QED
      BY <2>1, <2>2
  <1>8. QED
    BY <1>4, <1>6, <1>7, PlanGood

-----------------------------------------------------------------------------
(* Requests. *)

LEMMA RequestByOp ==
    ASSUME NEW r \in {Idle} \cup Write \cup Fill
    PROVE  /\ r.op \in Ops => r \in Write
           /\ r.op = "read" => r \in [op : {"read"}, key : Keys]
           /\ r.op = "set" => r \in [op : {"set"}, key : Keys, view : Views,
                                     raced : BOOLEAN]
  BY DEF Idle, Write, Fill, Ops

LEMMA WriterGood ==
    ASSUME TypeInv, NEW w \in Workers, req[w].op \in Ops
    PROVE  /\ w \in Writers /\ req[w] \in Write /\ WriteGood(req[w])
           /\ req[w].hotel \in Hotels
  <1>1. w \in Writers /\ req[w] \in Write
    BY RequestByOp DEF Writers, TypeInv, TypeOK
  <1>2. QED
    BY <1>1 DEF TypeInv, WritesGood, Write

(* A step of a write other than its commit takes that step off the list    *)
(* and changes nothing else of it.                                         *)
LEMMA Advanced ==
    ASSUME NEW r \in Write, WriteGood(r), Head(r.todo) # Do("commit")
    PROVE  /\ Advance(r) \in {Idle} \cup Write
           /\ Advance(r).op \in Ops =>
                 /\ Advance(r).op = r.op /\ Advance(r).hotel = r.hotel
                 /\ WriteGood(Advance(r))
           /\ ~ Committing(Advance(r))
           /\ Queueing(Advance(r)) => Queueing(r)
           /\ Head(r.todo) = Do("enqueue") => Queueing(r) /\ ~ Queueing(Advance(r))
           /\ \A x : /\ Owes(Advance(r), x) => Owes(r, x)
                     /\ Owes(r, x) /\ x # Head(r.todo) =>
                           /\ Owes(Advance(r), x)
                           /\ Advance(r).hotel = r.hotel
                           /\ Advance(r).version = r.version
  <1> DEFINE t == Tail(r.todo)
  <1>1. r.todo \in Seq(Step) /\ r.todo # <<>> /\ r.op \in Ops /\ r.hotel \in Hotels
    BY DEF Write, WriteGood
  <1>2. /\ t \in Seq(Step)
        /\ Len(r.todo) = 1 <=> t = <<>>
        /\ \A x : Has(r.todo, x) <=> Head(r.todo) = x \/ Has(t, x)
        /\ OneTask(r.todo) => OneTask(t)
        /\ OneTask(r.todo) /\ Head(r.todo) = Do("enqueue") => ~ Has(t, Do("enqueue"))
    BY <1>1, Popped
  <1>3. ~ Has(r.todo, Do("commit")) /\ ~ Has(t, Do("commit"))
    BY <1>1, <1>2, StepsGood DEF WriteGood
  <1>4. CASE Len(r.todo) = 1
    <2>1. Advance(r) = Idle /\ Idle.op \notin Ops
      BY <1>4 DEF Advance, Idle, Ops
    <2>2. \A x : ~ Has(t, x)
      BY <1>2, <1>4 DEF Has
    <2>3. QED
      BY <1>1, <1>2, <2>1, <2>2 DEF Committing, Queueing, Owes, Has
  <1>5. CASE Len(r.todo) # 1
    <2>1. Advance(r) = [r EXCEPT !.todo = t]
      BY <1>5 DEF Advance
    <2>2. /\ Advance(r) \in Write
          /\ Advance(r).op = r.op /\ Advance(r).hotel = r.hotel
          /\ Advance(r).version = r.version /\ Advance(r).todo = t
      BY <1>2, <2>1 DEF Write
    <2>3. WriteGood(Advance(r))
      BY <1>2, <1>3, <1>5, <2>2 DEF WriteGood
    <2>4. QED
      BY <1>1, <1>2, <1>3, <2>2, <2>3 DEF Committing, Queueing, Owes, Has, WriteGood
  <1>6. QED
    BY <1>4, <1>5

LEMMA HeadDo ==
    ASSUME NEW r \in Write, WriteGood(r)
    PROVE  /\ Head(r.todo).do = "commit" <=> Head(r.todo) = Do("commit")
           /\ Head(r.todo).do = "enqueue" <=> Head(r.todo) = Do("enqueue")
           /\ Head(r.todo).do = "delete" =>
                 /\ Head(r.todo).key \in Keys
                 /\ Head(r.todo) = Delete(Head(r.todo).key)
  <1>1. Head(r.todo) \in Step
    BY Popped DEF Write, WriteGood
  <1>2. QED
    BY <1>1 DEF Step, Do, Delete

-----------------------------------------------------------------------------
(* Type correctness. *)

LEMMA ProducersFinite ==
    ASSUME NEW S, S \subseteq Workers
    PROVE  IsFiniteSet(S) /\ Cardinality(S) \in Nat
  BY WorkersAssumption, FS_Subset, FS_CardinalityType

LEMMA RoomKept ==
    ASSUME TypeInv, queue' \in Seq(Task), crashes' \in Nat,
           Producers' \subseteq Producers,
           Len(queue') + crashes <= Len(queue) + crashes'
    PROVE  Room'
  <1>1. /\ IsFiniteSet(Producers) /\ Cardinality(Producers) \in Nat
        /\ Cardinality(Producers') \in Nat
    BY ProducersFinite DEF Producers
  <1>2. Cardinality(Producers') <= Cardinality(Producers)
    BY <1>1, FS_Subset
  <1>3. Len(queue) \in Nat /\ Len(queue') \in Nat /\ crashes \in Nat
    BY DEF TypeInv, TypeOK
  <1>4. QED
    BY <1>1, <1>2, <1>3, BoundsAssumption DEF Room, TypeInv

LEMMA QueueBound ==
    ASSUME queue' \in Seq(Task), crashes' \in 0..MaxCrashes, Room'
    PROVE  Len(queue') <= MaxPending + MaxCrashes
  <1>1. Cardinality(Producers') \in Nat
    BY ProducersFinite DEF Producers
  <1>2. Len(queue') \in Nat
    OBVIOUS
  <1>3. QED
    BY <1>1, <1>2, BoundsAssumption DEF Room

(* A step in which each write stands still, ends, or takes a step other    *)
(* than its commit.                                                        *)
LEMMA WritesKept ==
    ASSUME TypeInv, rows' = rows,
           \A w \in Workers : req'[w].op \in Ops =>
               \/ req'[w] = req[w]
               \/ /\ req[w].op \in Ops
                  /\ Head(req[w].todo) # Do("commit")
                  /\ req'[w] = Advance(req[w])
    PROVE  WritesGood' /\ Sole' /\ Producers' \subseteq Producers
  <1>1. ASSUME NEW w \in Workers, req'[w].op \in Ops
        PROVE  /\ w \in Writers
               /\ WriteGood(req[w])'
               /\ req'[w].op = req[w].op /\ req'[w].hotel = req[w].hotel
               /\ Committing(req'[w]) => Committing(req[w])
               /\ Queueing(req'[w]) => Queueing(req[w])
    <2>1. w \in Writers /\ req[w] \in Write /\ WriteGood(req[w])
      <3>1. req[w].op \in Ops
        BY <1>1
      <3>2. QED
        BY <3>1, WriterGood
    <2>2. CASE req'[w] = req[w]
      BY <2>1, <2>2 DEF WriteGood
    <2>3. CASE req'[w] # req[w]
      <3>1. Head(req[w].todo) # Do("commit") /\ req'[w] = Advance(req[w])
        BY <1>1, <2>3
      <3>2. WriteGood(req'[w])
        BY <1>1, <2>1, <3>1, Advanced
      <3>3. WriteGood(req[w])'
        BY <3>2 DEF WriteGood
      <3>4. QED
        BY <1>1, <2>1, <3>1, <3>3, Advanced
    <2>4. QED
      BY <2>2, <2>3
  <1>2. WritesGood'
    BY <1>1 DEF WritesGood, Writers
  <1>3. Sole'
    BY <1>1 DEF Sole, Writers, TypeInv
  <1>4. Producers' \subseteq Producers
    BY <1>1 DEF Producers, Queueing
  <1>5. QED
    BY <1>2, <1>3, <1>4

LEMMA TypeStartWrite ==
    ASSUME TypeInv, NEW w \in Workers, NEW op \in Ops, NEW h \in Hotels,
           StartWrite(w, op, h)
    PROVE  TypeInv'
  <1> DEFINE r == [op |-> op, hotel |-> h, version |-> 0, todo |-> Steps(op, h)]
  <1>0. TypeOK /\ req[w] = Idle /\ UNCHANGED <<rows, queue, crashes>>
    BY DEF TypeInv, StartWrite
  <1>1. CASE op = "create" \/ Exists(h)
    <2>1. req' = [req EXCEPT ![w] = r]
      BY <1>1 DEF StartWrite, Serve
    <2>2. r \in Write
      BY StepsGood, BoundsAssumption DEF Write, Gone
    <2>3. TypeOK'
      BY <1>0, <2>1, <2>2 DEF TypeOK, StartWrite, history
    <2>4. req'[w] = r /\ \A v \in Workers \ {w} : req'[v] = req[v]
      BY <1>0, <2>1 DEF TypeOK
    <2>5. Writers' \subseteq Writers \cup {w}
      BY <2>4 DEF Writers
    <2>6. WriteGood(r)
      <3>1. Has(Steps(op, h), Do("commit")) /\ OneTask(Steps(op, h)) /\ Steps(op, h) # <<>>
        BY StepsGood
      <3>2. op = "create" => rows[h] = 0
        BY DEF StartWrite
      <3>3. QED
        BY <3>1, <3>2 DEF WriteGood
    <2>7. WritesGood'
      <3>1. ASSUME NEW v \in Writers, v # w
            PROVE  WriteGood(req[v])'
        BY <1>0, <2>4, <3>1 DEF TypeInv, WritesGood, WriteGood, Writers
      <3>2. WriteGood(req[w])'
        BY <1>0, <2>4, <2>6 DEF WriteGood
      <3>3. QED
        BY <2>5, <3>1, <3>2 DEF WritesGood
    <2>8. Sole'
      <3> SUFFICES ASSUME NEW u \in Writers', NEW v \in Writers', u # v,
                          Committing(req'[v]), req'[v].op = "create",
                          req'[u].hotel = req'[v].hotel
                   PROVE  FALSE
        BY DEF Sole
      <3>0. /\ u # w => u \in Writers /\ req'[u] = req[u]
            /\ v # w => v \in Writers /\ req'[v] = req[v]
        BY <2>4, <2>5 DEF Writers
      <3>1. CASE u # w /\ v # w
        BY <3>0, <3>1 DEF TypeInv, Sole
      <3>2. CASE v = w
        <4>1. op = "create" /\ req[u].hotel = h /\ u \in Writers
          BY <2>4, <3>0, <3>2
        <4>2. QED
          BY <4>1 DEF StartWrite
      <3>3. CASE u = w
        <4>1. v \in Writers /\ Committing(req[v]) /\ req[v].op = "create"
              /\ req[v].hotel = h
          BY <2>4, <3>0, <3>3
        <4>2. rows[h] = 0
          BY <4>1 DEF TypeInv, WritesGood, WriteGood, Committing
        <4>3. op # "create"
          BY <4>1 DEF StartWrite
        <4>4. QED
          BY <1>1, <4>2, <4>3 DEF Exists
      <3>4. QED
        BY <3>1, <3>2, <3>3
    <2>9. Room'
      <3>1. Producers' \subseteq Writers \cup {w}
        BY <2>5 DEF Producers, Writers, Queueing
      <3>2. /\ IsFiniteSet(Writers) /\ Cardinality(Writers) \in Nat
            /\ Cardinality(Producers') \in Nat
        BY ProducersFinite DEF Producers, Writers
      <3>3. Cardinality(Writers \cup {w}) <= Cardinality(Writers) + 1
            /\ IsFiniteSet(Writers \cup {w})
        <4>1. /\ IsFiniteSet(Writers \cup {w})
              /\ Cardinality(Writers \cup {w})
                    = IF w \in Writers THEN Cardinality(Writers) ELSE Cardinality(Writers) + 1
          BY <3>2, FS_AddElement
        <4>2. QED
          BY <3>2, <4>1
      <3>4. Cardinality(Producers') <= Cardinality(Writers \cup {w})
        BY <3>1, <3>3, FS_Subset
      <3>5. Cardinality(Writers \cup {w}) \in Nat
        BY <3>3, FS_CardinalityType
      <3>6. Len(queue) \in Nat /\ crashes \in Nat /\ Len(queue) + Cardinality(Writers) < MaxPending
        BY DEF TypeInv, TypeOK, StartWrite
      <3>7. Len(queue) + Cardinality(Producers') <= MaxPending + crashes
        BY <3>2, <3>3, <3>4, <3>5, <3>6, BoundsAssumption
      <3>8. QED
        BY <1>0, <3>7 DEF Room
    <2>10. QED
      BY <2>3, <2>7, <2>8, <2>9 DEF TypeInv
  <1>2. CASE ~ (op = "create" \/ Exists(h))
    <2>1. req' = [req EXCEPT ![w] = Idle]
      BY <1>2 DEF StartWrite, Serve
    <2>2. TypeOK'
      BY <1>0, <2>1 DEF TypeOK, StartWrite, history
    <2>3. \A v \in Workers : req'[v] = req[v]
      BY <1>0, <2>1 DEF TypeOK
    <2>4. WritesGood' /\ Sole' /\ Producers' \subseteq Producers
      BY <1>0, <2>3, WritesKept
    <2>5. QED
      BY <1>0, <2>2, <2>4, RoomKept DEF TypeInv, TypeOK
  <1>3. QED
    BY <1>1, <1>2

(* What a commit makes of a row: it is not undone, and a hotel that has    *)
(* been deleted stays so.                                                  *)
LEMMA Committed ==
    ASSUME TypeInv, NEW w \in Workers, Commit(w)
    PROVE  LET r == req[w]
               h == r.hotel
           IN  /\ w \in Writers /\ r \in Write /\ r.version = 0 /\ h \in Hotels
               /\ r.todo = Steps(r.op, h) /\ Has(r.todo, Do("commit"))
               /\ r.op = "create" => rows[h] = 0
               /\ \E n \in 0..Gone, x \in Write :
                     /\ rows' = [rows EXCEPT ![h] = n]
                     /\ req' = [req EXCEPT ![w] = x]
                     /\ x.op = r.op /\ x.hotel = h
                     /\ x.todo = Tail(Steps(r.op, h))
                     /\ x.version = IF n = rows[h] THEN 0 ELSE n
                     /\ n # rows[h] =>
                           n \in IF r.op = "delete" THEN {Gone} ELSE 1..MaxVersion
                     /\ r.op = "delete" => n = Gone
                     /\ r.op = "create" => n = 1
                     /\ rows[h] <= n
  <1> DEFINE r == req[w]
             h == r.hotel
  <1>1. w \in Writers /\ r \in Write /\ WriteGood(r) /\ h \in Hotels
    BY WriterGood DEF Commit, At
  <1>2. r.todo = Steps(r.op, h) /\ r.version = 0 /\ Has(r.todo, Do("commit"))
        /\ (r.op = "create" => rows[h] = 0)
    <2>1. Head(r.todo) = Do("commit")
      BY <1>1, HeadDo DEF Commit, At
    <2>2. r.todo \in Seq(Step) /\ r.todo # <<>>
      BY <1>1 DEF Write, WriteGood
    <2>3. Has(r.todo, Do("commit"))
      BY <2>1, <2>2, Popped
    <2>4. QED
      BY <1>1, <2>3 DEF WriteGood
  <1>3. PICK n \in Results(r.op, rows[h]) :
            /\ rows' = [rows EXCEPT ![h] = n]
            /\ req' = [req EXCEPT ![w] = [Advance(r) EXCEPT
                          !.version = IF n = rows[h] THEN 0 ELSE n]]
    BY DEF Commit, Serve
  <1>4. rows[h] \in 0..Gone
    BY <1>1 DEF TypeInv, TypeOK
  <1>5. r.op \in Ops
    BY <1>1 DEF Write
  <1>6. /\ n \in 0..Gone
        /\ n # rows[h] => n \in IF r.op = "delete" THEN {Gone} ELSE 1..MaxVersion
        /\ r.op = "delete" => n = Gone
        /\ r.op = "create" => n = 1
        /\ rows[h] <= n
    <2>1. CASE r.op = "create"
      <3>1. n = 1 /\ rows[h] = 0
        BY <1>2, <1>3, <2>1 DEF Results
      <3>2. QED
        BY <2>1, <3>1, BoundsAssumption DEF Gone
    <2>2. CASE r.op = "update"
      <3>1. n = rows[h] \/ (rows[h] < MaxVersion /\ n = rows[h] + 1)
        BY <1>3, <2>2 DEF Results
      <3>2. QED
        BY <1>4, <2>2, <3>1, BoundsAssumption DEF Gone
    <2>3. CASE r.op = "delete"
      <3>1. n = Gone
        BY <1>3, <2>3 DEF Results
      <3>2. QED
        BY <1>4, <2>3, <3>1, BoundsAssumption DEF Gone
    <2>4. QED
      BY <1>5, <2>1, <2>2, <2>3 DEF Ops
  <1>7. \E x \in Write :
            /\ x = [Advance(r) EXCEPT !.version = IF n = rows[h] THEN 0 ELSE n]
            /\ x.op = r.op /\ x.hotel = h
            /\ x.todo = Tail(Steps(r.op, h))
            /\ x.version = IF n = rows[h] THEN 0 ELSE n
    <2>1. r.todo \in Seq(Step) /\ r.todo # <<>> /\ Tail(r.todo) # <<>>
      BY <1>1, <1>2, <1>5, StepsGood
    <2>2. Len(r.todo) # 1 /\ Tail(r.todo) \in Seq(Step)
      BY <2>1, Popped
    <2>3. Advance(r) = [r EXCEPT !.todo = Tail(r.todo)]
      BY <2>2 DEF Advance
    <2>4. Advance(r) \in Write /\ Advance(r).todo = Tail(r.todo)
          /\ Advance(r).op = r.op /\ Advance(r).hotel = h
      BY <1>1, <2>2, <2>3 DEF Write
    <2>5. PICK m : m = IF n = rows[h] THEN 0 ELSE n
      OBVIOUS
    <2>6. m \in 0..Gone
      BY <1>6, <2>5, BoundsAssumption DEF Gone
    <2>7. PICK a \in Write : a = Advance(r)
      BY <2>4
    <2>8. PICK x : x = [a EXCEPT !.version = m]
      OBVIOUS
    <2>9. /\ x \in Write /\ x.op = a.op /\ x.hotel = a.hotel /\ x.todo = a.todo
          /\ x.version = m
      BY <2>6, <2>8 DEF Write
    <2>10. QED
      BY <1>2, <2>4, <2>5, <2>7, <2>8, <2>9
  <1>8. QED
    BY <1>1, <1>2, <1>3, <1>6, <1>7

LEMMA TypeCommit ==
    ASSUME TypeInv, NEW w \in Workers, Commit(w)
    PROVE  TypeInv'
  <1> DEFINE r == req[w]
             h == r.hotel
  <1>0. TypeOK /\ UNCHANGED <<cache, index, queue, run, crashes, history>>
    BY DEF TypeInv, Commit
  <1>1. /\ w \in Writers /\ r \in Write /\ r.version = 0 /\ h \in Hotels
        /\ r.todo = Steps(r.op, h) /\ Has(r.todo, Do("commit"))
        /\ r.op = "create" => rows[h] = 0
    BY Committed
  <1>2. PICK n \in 0..Gone, x \in Write :
            /\ rows' = [rows EXCEPT ![h] = n]
            /\ req' = [req EXCEPT ![w] = x]
            /\ x.op = r.op /\ x.hotel = h
            /\ x.todo = Tail(Steps(r.op, h))
            /\ x.version = IF n = rows[h] THEN 0 ELSE n
            /\ n # rows[h] => n \in IF r.op = "delete" THEN {Gone} ELSE 1..MaxVersion
            /\ r.op = "delete" => n = Gone
            /\ r.op = "create" => n = 1
            /\ rows[h] <= n
    BY Committed
  <1>3. req'[w] = x /\ \A v \in Workers \ {w} : req'[v] = req[v]
    BY <1>0, <1>2 DEF TypeOK
  <1>4. /\ r.op \in Ops
        /\ Steps(r.op, h) \in Seq(Step) /\ Steps(r.op, h) # <<>> /\ OneTask(Steps(r.op, h))
        /\ Tail(Steps(r.op, h)) # <<>> /\ ~ Has(Tail(Steps(r.op, h)), Do("commit"))
    BY <1>1, StepsGood DEF Write
  <1>5. Tail(Steps(r.op, h)) \in Seq(Step) /\ OneTask(Tail(Steps(r.op, h)))
        /\ \A s : Has(Tail(Steps(r.op, h)), s) => Has(r.todo, s)
    BY <1>1, <1>4, Popped
  <1>6. TypeOK'
    <2>1. req' \in [Workers -> {Idle} \cup Write \cup Fill]
      BY <1>0, <1>2 DEF TypeOK
    <2>2. rows' \in [Hotels -> 0..Gone]
      BY <1>0, <1>2 DEF TypeOK
    <2>3. QED
      BY <1>0, <2>1, <2>2 DEF TypeOK, history
  <1>7. Writers' = Writers
    BY <1>1, <1>2, <1>3, <1>4 DEF Writers
  <1>8. ASSUME NEW v \in Writers, v # w
        PROVE  WriteGood(req[v])'
    <2>1. req'[v] = req[v] /\ req[v] \in Write /\ WriteGood(req[v]) /\ req[v].hotel \in Hotels
      BY <1>3, <1>8, WriterGood DEF Writers
    <2>2. CASE req[v].hotel # h
      <3>1. rows'[req[v].hotel] = rows[req[v].hotel]
        BY <1>0, <1>2, <2>1, <2>2 DEF TypeOK
      <3>2. QED
        BY <2>1, <3>1 DEF WriteGood
    <2>3. CASE req[v].hotel = h
      <3>1. rows'[h] = n /\ rows[h] <= n /\ rows[h] \in 0..Gone
        BY <1>0, <1>1, <1>2 DEF TypeOK
      <3>2. rows[h] = Gone => n = Gone
        BY <3>1, BoundsAssumption DEF Gone
      <3>3. Has(req[v].todo, Do("commit")) => req[v].op # "create"
        BY <1>1, <1>8, <2>1, <2>3 DEF TypeInv, Sole, Committing, Write
      <3>4. req[v].version <= rows[h] => req[v].version <= n
        BY <2>1, <3>1, BoundsAssumption DEF Write, Gone
      <3>5. QED
        BY <2>1, <2>3, <3>1, <3>2, <3>3, <3>4 DEF WriteGood
    <2>4. QED
      BY <2>2, <2>3
  <1>9. WriteGood(req[w])'
    <2>1. rows'[h] = n
      BY <1>0, <1>1, <1>2 DEF TypeOK
    <2>2. n <= n /\ 0 <= n
      BY <1>2, BoundsAssumption DEF Gone
    <2>3. WriteGood(x)'
      BY <1>2, <1>4, <1>5, <2>1, <2>2 DEF WriteGood
    <2>4. QED
      BY <1>3, <2>3
  <1>10. WritesGood'
    BY <1>7, <1>8, <1>9 DEF WritesGood
  <1>11. ~ Committing(req'[w]) /\ req'[w].hotel = req[w].hotel
    BY <1>2, <1>3, <1>4 DEF Committing
  <1>12. Sole'
    BY <1>1, <1>3, <1>7, <1>11 DEF Sole, TypeInv, Writers
  <1>13. Producers' \subseteq Producers
    <2>1. Queueing(req[w])
      BY <1>1, <1>4, StepsGood, <1>5 DEF Queueing
    <2>2. \A v \in Workers \ {w} : Queueing(req'[v]) => Queueing(req[v])
      BY <1>3
    <2>3. QED
      BY <2>1, <2>2 DEF Producers, Queueing
  <1>14. Room'
    BY <1>0, <1>13, RoomKept DEF TypeOK
  <1>15. QED
    BY <1>6, <1>10, <1>12, <1>14 DEF TypeInv

LEMMA TypeAbandon ==
    ASSUME TypeInv, NEW w \in Workers, Abandon(w)
    PROVE  TypeInv'
  <1>0. TypeOK /\ req' = [req EXCEPT ![w] = Idle]
        /\ UNCHANGED <<rows, cache, index, queue, run, crashes, newest>>
    BY DEF TypeInv, Abandon, Serve
  <1>1. lost' \in [Hotels -> SUBSET (0..Gone)]
    <2>1. CASE Owes(req[w], Do("enqueue"))
      <3>1. req[w] \in Write /\ req[w].hotel \in Hotels
        BY <2>1, WriterGood DEF Owes
      <3>2. req[w].version \in 0..Gone
        BY <3>1 DEF Write
      <3>3. lost' = [lost EXCEPT ![req[w].hotel] = @ \cup {req[w].version}]
        BY <2>1 DEF Abandon
      <3>4. QED
        BY <1>0, <3>1, <3>2, <3>3 DEF TypeOK
    <2>2. CASE ~ Owes(req[w], Do("enqueue"))
      BY <1>0, <2>2 DEF Abandon, TypeOK
    <2>3. QED
      BY <2>1, <2>2
  <1>2. skipped' \subseteq Keys
    BY <1>0 DEF Abandon, TypeOK
  <1>3. TypeOK'
    BY <1>0, <1>1, <1>2 DEF TypeOK
  <1>4. \A v \in Workers : req'[v].op \in Ops => req'[v] = req[v]
    BY <1>0 DEF TypeOK, Idle, Ops
  <1>5. WritesGood' /\ Sole' /\ Producers' \subseteq Producers
    BY <1>0, <1>4, WritesKept
  <1>6. Room'
    BY <1>0, <1>5, RoomKept DEF TypeOK
  <1>7. QED
    BY <1>3, <1>5, <1>6 DEF TypeInv

LEMMA TypeRefresh ==
    ASSUME TypeInv, NEW w \in Workers, Refresh(w)
    PROVE  TypeInv'
  <1>1. CASE Abandon(w)
    BY <1>1, TypeAbandon
  <1>2. CASE Serve(w, Advance(req[w]))
             /\ UNCHANGED <<rows, cache, index, queue, run, crashes, history>>
    <2>0. TypeOK /\ req' = [req EXCEPT ![w] = Advance(req[w])]
      BY <1>2 DEF TypeInv, Serve
    <2>1. /\ req[w] \in Write /\ WriteGood(req[w]) /\ req[w].op \in Ops
          /\ Head(req[w].todo) # Do("commit")
      BY WriterGood, HeadDo DEF Refresh, At
    <2>2. TypeOK'
      BY <1>2, <2>0, <2>1, Advanced DEF TypeOK, history
    <2>3. WritesGood' /\ Sole' /\ Producers' \subseteq Producers
      BY <1>2, <2>0, <2>1, WritesKept DEF TypeOK
    <2>4. Room'
      BY <1>2, <2>0, <2>3, RoomKept DEF TypeOK
    <2>5. QED
      BY <2>2, <2>3, <2>4 DEF TypeInv
  <1>3. QED
    BY <1>1, <1>2 DEF Refresh

LEMMA TypeEnqueue ==
    ASSUME TypeInv, NEW w \in Workers, Enqueue(w)
    PROVE  TypeInv'
  <1>0. TypeOK /\ req' = [req EXCEPT ![w] = Advance(req[w])]
        /\ UNCHANGED <<rows, cache, index, run, crashes, history>>
    BY DEF TypeInv, Enqueue, Serve
  <1>1. /\ req[w] \in Write /\ WriteGood(req[w]) /\ req[w].op \in Ops
        /\ req[w].hotel \in Hotels
        /\ Head(req[w].todo) = Do("enqueue") /\ Head(req[w].todo) # Do("commit")
    BY WriterGood, HeadDo DEF Enqueue, At
  <1>2. TaskOf(req[w]) \in Task
    BY <1>1 DEF TaskOf, Task
  <1>3. queue' \in Seq(Task) /\ Len(queue') = Len(queue) + 1 /\ Len(queue) \in Nat
    BY <1>0, <1>2, AppendProperties DEF Enqueue, TypeOK
  <1>4. WritesGood' /\ Sole' /\ Producers' \subseteq Producers
    BY <1>0, <1>1, WritesKept DEF TypeOK
  <1>5. Room'
    <2>1. w \in Producers /\ w \notin Producers'
      BY <1>0, <1>1, Advanced DEF Producers, TypeOK
    <2>2. Producers' \subseteq Producers \ {w}
      BY <1>4, <2>1
    <2>3. /\ IsFiniteSet(Producers) /\ Cardinality(Producers) \in Nat
          /\ Cardinality(Producers') \in Nat
      BY ProducersFinite DEF Producers
    <2>4. /\ IsFiniteSet(Producers \ {w})
          /\ Cardinality(Producers \ {w}) = Cardinality(Producers) - 1
      BY <2>1, <2>3, FS_RemoveElement
    <2>5. Cardinality(Producers') <= Cardinality(Producers \ {w})
      BY <2>2, <2>4, FS_Subset
    <2>6. Len(queue) + Cardinality(Producers) <= MaxPending + crashes /\ crashes \in Nat
      BY DEF TypeInv, Room, TypeOK
    <2>7. Len(queue') + Cardinality(Producers') <= MaxPending + crashes
      BY <1>3, <2>3, <2>4, <2>5, <2>6, BoundsAssumption
    <2>8. QED
      BY <1>0, <2>7 DEF Room
  <1>6. Len(queue') <= MaxPending + MaxCrashes
    BY <1>0, <1>3, <1>5, QueueBound DEF TypeOK
  <1>7. req' \in [Workers -> {Idle} \cup Write \cup Fill]
    BY <1>0, <1>1, Advanced DEF TypeOK
  <1>8. TypeOK'
    BY <1>0, <1>3, <1>6, <1>7 DEF TypeOK, history
  <1>9. QED
    BY <1>4, <1>5, <1>8 DEF TypeInv

LEMMA OvertakenTyped ==
    ASSUME TypeOK, NEW k, NEW v \in Workers
    PROVE  /\ Overtaken(k)[v] \in {Idle} \cup Write \cup Fill
           /\ Overtaken(k)[v].op = req[v].op
           /\ req[v].op # "set" => Overtaken(k)[v] = req[v]
           /\ req[v].op = "set" =>
                 /\ Overtaken(k)[v].key = req[v].key /\ Overtaken(k)[v].view = req[v].view
                 /\ req[v].key # k => Overtaken(k)[v] = req[v]
                 /\ req[v].key = k => Overtaken(k)[v].raced = TRUE
  <1>1. req[v] \in {Idle} \cup Write \cup Fill
    BY DEF TypeOK
  <1>2. Overtaken(k)[v] = IF req[v].op = "set" /\ req[v].key = k
                          THEN [req[v] EXCEPT !.raced = TRUE] ELSE req[v]
    BY DEF Overtaken
  <1>3. CASE req[v].op = "set" /\ req[v].key = k
    <2>1. req[v] \in [op : {"set"}, key : Keys, view : Views, raced : BOOLEAN]
      BY <1>1, <1>3, RequestByOp
    <2>2. Overtaken(k)[v] = [req[v] EXCEPT !.raced = TRUE]
      BY <1>2, <1>3
    <2>3. Overtaken(k)[v] \in [op : {"set"}, key : Keys, view : Views, raced : BOOLEAN]
      BY <2>1, <2>2
    <2>4. QED
      BY <1>3, <2>1, <2>2, <2>3 DEF Fill
  <1>4. CASE ~ (req[v].op = "set" /\ req[v].key = k)
    BY <1>1, <1>2, <1>4
  <1>5. QED
    BY <1>3, <1>4

LEMMA TypeDeleteKey ==
    ASSUME TypeInv, NEW w \in Workers, DeleteKey(w)
    PROVE  TypeInv'
  <1> DEFINE k == Head(req[w].todo).key
  <1>0. TypeOK /\ UNCHANGED <<rows, index, queue, run, crashes, lost, newest>>
    BY DEF TypeInv, DeleteKey
  <1>1. /\ req[w] \in Write /\ WriteGood(req[w]) /\ req[w].op \in Ops
        /\ Head(req[w].todo) # Do("commit") /\ k \in Keys
    BY WriterGood, HeadDo DEF DeleteKey, At
  <1>2. /\ req'[w] = Advance(req[w])
        /\ \A v \in Workers \ {w} :
              /\ req'[v] \in {Idle} \cup Write \cup Fill
              /\ req'[v].op \in Ops => req'[v] = req[v]
    <2>1. CASE req' = [Overtaken(k) EXCEPT ![w] = Advance(req[w])]
      <3>1. DOMAIN Overtaken(k) = Workers
        BY DEF Overtaken
      <3>2. req'[w] = Advance(req[w])
            /\ \A v \in Workers \ {w} : req'[v] = Overtaken(k)[v]
        BY <2>1, <3>1
      <3>3. "set" \notin Ops
        BY DEF Ops
      <3>4. \A x : \A v \in Workers :
                /\ Overtaken(x)[v] \in {Idle} \cup Write \cup Fill
                /\ Overtaken(x)[v].op = req[v].op
                /\ req[v].op # "set" => Overtaken(x)[v] = req[v]
        BY <1>0, OvertakenTyped
      <3>5. \A v \in Workers \ {w} :
                /\ req'[v] \in {Idle} \cup Write \cup Fill
                /\ req'[v].op = req[v].op
                /\ req[v].op # "set" => req'[v] = req[v]
        BY <3>2, <3>4
      <3>6. ASSUME NEW v \in Workers \ {w}, req'[v].op \in Ops
            PROVE  req'[v] = req[v]
        <4>1. req'[v].op # "set"
          BY <3>3, <3>6
        <4>2. QED
          BY <3>5, <4>1
      <3>7. \A v \in Workers \ {w} : req'[v] \in {Idle} \cup Write \cup Fill
        BY <3>5
      <3>8. QED
        BY <3>2, <3>6, <3>7
    <2>2. CASE Serve(w, Advance(req[w]))
      BY <1>0, <2>2 DEF Serve, TypeOK
    <2>3. QED
      BY <2>1, <2>2 DEF DeleteKey
  <1>3. req' \in [Workers -> {Idle} \cup Write \cup Fill]
    <2>1. req' = [v \in Workers |-> req'[v]]
      <3>1. CASE req' = [Overtaken(k) EXCEPT ![w] = Advance(req[w])]
        BY <3>1 DEF Overtaken
      <3>2. CASE Serve(w, Advance(req[w]))
        BY <1>0, <3>2 DEF Serve, TypeOK
      <3>3. QED
        BY <3>1, <3>2 DEF DeleteKey
    <2>2. \A v \in Workers : req'[v] \in {Idle} \cup Write \cup Fill
      BY <1>1, <1>2, Advanced
    <2>3. QED
      BY <2>1, <2>2
  <1>4. cache' \in [Keys -> Entry \cup {NoEntry}] /\ skipped' \subseteq Keys
    BY <1>0, <1>1 DEF DeleteKey, TypeOK
  <1>5. TypeOK'
    BY <1>0, <1>3, <1>4 DEF TypeOK
  <1>6. WritesGood' /\ Sole' /\ Producers' \subseteq Producers
    BY <1>0, <1>1, <1>2, WritesKept
  <1>7. Room'
    BY <1>0, <1>6, RoomKept DEF TypeOK
  <1>8. QED
    BY <1>5, <1>6, <1>7 DEF TypeInv

LEMMA ViewTyped ==
    ASSUME TypeOK, NEW k \in Keys
    PROVE  /\ View(k) \in Views /\ DOMAIN View(k) = Shown(k)
           /\ \A h \in Shown(k) : View(k)[h] = Doc(rows[h])
           /\ Shown(k) \subseteq Hotels
  <1>1. Shown(k) \subseteq Hotels /\ Shown(k) \in {Hotels} \cup {{h} : h \in Hotels}
    BY CatalogKeysAssumption DEF Shown
  <1>2. View(k) = [h \in Shown(k) |-> Doc(rows[h])]
    BY DEF View, Shown
  <1>3. \A h \in Shown(k) : Doc(rows[h]) \in 0..MaxVersion
    BY <1>1, BoundsAssumption DEF Doc, Gone, TypeOK
  <1>4. View(k) \in [Shown(k) -> 0..MaxVersion]
    BY <1>2, <1>3
  <1>5. QED
    BY <1>1, <1>2, <1>4 DEF Views

LEMMA TypeReads ==
    ASSUME TypeInv, NEW w \in Workers,
           (\E k \in Keys : StartRead(w, k)) \/ ReadRows(w) \/ SetEntry(w)
    PROVE  TypeInv'
  <1>0. TypeOK /\ UNCHANGED <<rows, index, queue, run, crashes, history>>
    BY DEF TypeInv, StartRead, ReadRows, SetEntry
  <1>1. \E r \in {Idle} \cup Fill : req' = [req EXCEPT ![w] = r]
    <2>1. ASSUME NEW k \in Keys, StartRead(w, k)
          PROVE  \E r \in {Idle} \cup Fill : req' = [req EXCEPT ![w] = r]
      BY <2>1 DEF StartRead, Serve, Fill
    <2>2. CASE ReadRows(w)
      <3>1. req[w] \in [op : {"read"}, key : Keys]
        BY <1>0, <2>2, RequestByOp DEF ReadRows, TypeOK
      <3>2. [op |-> "set", key |-> req[w].key, view |-> View(req[w].key), raced |-> FALSE]
              \in Fill
        BY <1>0, <3>1, ViewTyped DEF Fill
      <3>3. QED
        BY <2>2, <3>2 DEF ReadRows, Serve
    <2>3. CASE SetEntry(w)
      BY <2>3 DEF SetEntry, Serve
    <2>4. QED
      BY <2>1, <2>2, <2>3
  <1>2. PICK r \in {Idle} \cup Fill : req' = [req EXCEPT ![w] = r]
    BY <1>1
  <1>3. cache' \in [Keys -> Entry \cup {NoEntry}]
    <2>1. CASE SetEntry(w)
      <3>1. req[w] \in [op : {"set"}, key : Keys, view : Views, raced : BOOLEAN]
        BY <1>0, <2>1, RequestByOp DEF SetEntry, TypeOK
      <3>2. [view |-> req[w].view, raced |-> req[w].raced] \in Entry /\ req[w].key \in Keys
        BY <3>1 DEF Entry
      <3>3. QED
        BY <1>0, <2>1, <3>2 DEF SetEntry, TypeOK
    <2>2. CASE (\E k \in Keys : StartRead(w, k)) \/ ReadRows(w)
      BY <1>0, <2>2 DEF StartRead, ReadRows, TypeOK
    <2>3. QED
      BY <2>1, <2>2
  <1>4. TypeOK'
    BY <1>0, <1>2, <1>3 DEF TypeOK, history
  <1>5. r.op \notin Ops
    BY DEF Idle, Fill, Ops
  <1>6. WritesGood' /\ Sole' /\ Producers' \subseteq Producers
    BY <1>0, <1>2, <1>5, WritesKept DEF TypeOK
  <1>7. Room'
    BY <1>0, <1>6, RoomKept DEF TypeOK
  <1>8. QED
    BY <1>4, <1>6, <1>7 DEF TypeInv

LEMMA TaskByDo ==
    ASSUME NEW t \in Running
    PROVE  /\ t # Resting => t.hotel \in Hotels
           /\ t.do \in {"reindex", "drop"} => t \in Task
           /\ t.do = "write" => t \in [do : {"write"}, hotel : Hotels,
                                       version : 1..MaxVersion]
           /\ t.do \in {"reindex", "drop", "write"} => t # Resting
           /\ t # Resting => t.do \in {"reindex", "drop", "write"}
  BY DEF Running, Resting, Task

LEMMA TypeProcess ==
    ASSUME TypeInv, NEW c \in Runners, Process(c)
    PROVE  TypeInv'
  <1>0. TypeOK /\ run[c] \in Running
        /\ UNCHANGED <<rows, cache, req, crashes, skipped>>
    BY DEF TypeInv, TypeOK, Process, Take, ReadHotel, WriteIndex, DropDocument, history
  <1>1. /\ queue' \in Seq(Task) /\ Len(queue') <= Len(queue) /\ Len(queue) \in Nat
        /\ Len(queue') \in Nat
    <2>1. CASE Take(c)
      BY <1>0, <2>1, HeadTailProperties, EmptySeq DEF Take, TypeOK
    <2>2. CASE ReadHotel(c) \/ WriteIndex(c) \/ DropDocument(c)
      BY <1>0, <2>2 DEF ReadHotel, WriteIndex, DropDocument, TypeOK
    <2>3. QED
      BY <2>1, <2>2 DEF Process
  <1>2. run' \in [Runners -> Running]
    <2>1. CASE Take(c)
      <3>1. Head(queue) \in Running
        BY <1>0, <2>1, HeadTailProperties DEF Take, TypeOK, Running
      <3>2. QED
        BY <1>0, <2>1, <3>1 DEF Take, Run, TypeOK
    <2>2. CASE ReadHotel(c)
      <3>1. run[c].hotel \in Hotels
        BY <1>0, <2>2, TaskByDo DEF ReadHotel
      <3>2. Resting \in Running
            /\ (Exists(run[c].hotel) =>
                   [do |-> "write", hotel |-> run[c].hotel, version |-> rows[run[c].hotel]]
                      \in Running)
        BY <3>1 DEF Running, Exists
      <3>3. QED
        BY <1>0, <2>2, <3>2 DEF ReadHotel, Run, TypeOK
    <2>3. CASE WriteIndex(c) \/ DropDocument(c)
      BY <1>0, <2>3 DEF WriteIndex, DropDocument, Run, TypeOK, Running
    <2>4. QED
      BY <2>1, <2>2, <2>3 DEF Process
  <1>3. /\ index' \in [Hotels -> 0..MaxVersion]
        /\ lost' \in [Hotels -> SUBSET (0..Gone)]
        /\ newest' \in [Hotels -> 0..Gone]
    <2>1. ASSUME NEW h \in Hotels, NEW n \in 1..Gone, Reflect(h, n)
          PROVE  /\ index' \in [Hotels -> 0..MaxVersion]
                 /\ lost' \in [Hotels -> SUBSET (0..Gone)]
                 /\ newest' \in [Hotels -> 0..Gone]
      <3>1. n \in 0..Gone /\ Doc(n) \in 0..MaxVersion
        BY BoundsAssumption DEF Doc, Gone
      <3>2. newest[h] \in 0..Gone /\ Larger(newest[h], n) \in 0..Gone
        BY <1>0, <3>1 DEF TypeOK, Larger
      <3>3. CASE /\ index' = [index EXCEPT ![h] = Doc(n)]
                 /\ newest' = [newest EXCEPT ![h] = Larger(@, n)]
                 /\ UNCHANGED lost
        BY <1>0, <3>1, <3>2, <3>3 DEF TypeOK
      <3>4. CASE /\ lost' = [lost EXCEPT ![h] = @ \cup {n}]
                 /\ UNCHANGED <<index, newest>>
        BY <1>0, <3>1, <3>4 DEF TypeOK
      <3>5. QED
        BY <2>1, <3>3, <3>4 DEF Reflect
    <2>2. CASE WriteIndex(c)
      <3>1. run[c].hotel \in Hotels /\ run[c].version \in 1..MaxVersion
        BY <1>0, <2>2, TaskByDo DEF WriteIndex
      <3>2. run[c].version \in 1..Gone
        BY <3>1, BoundsAssumption DEF Gone
      <3>3. QED
        BY <2>1, <2>2, <3>1, <3>2 DEF WriteIndex
    <2>3. CASE DropDocument(c)
      <3>1. run[c].hotel \in Hotels /\ Gone \in 1..Gone
        BY <1>0, <2>3, TaskByDo, BoundsAssumption DEF DropDocument, Gone
      <3>2. QED
        BY <2>1, <2>3, <3>1 DEF DropDocument
    <2>4. CASE Take(c) \/ ReadHotel(c)
      BY <1>0, <2>4 DEF Take, ReadHotel, TypeOK, history
    <2>5. QED
      BY <2>2, <2>3, <2>4 DEF Process
  <1>4. WritesGood' /\ Sole' /\ Producers' \subseteq Producers
    BY <1>0, WritesKept
  <1>5. Room'
    BY <1>0, <1>1, <1>4, RoomKept DEF TypeOK
  <1>6. Len(queue') <= MaxPending + MaxCrashes
    BY <1>0, <1>1, <1>5, QueueBound DEF TypeOK
  <1>7. TypeOK'
    BY <1>0, <1>1, <1>2, <1>3, <1>6 DEF TypeOK
  <1>8. QED
    BY <1>4, <1>5, <1>7 DEF TypeInv

LEMMA TypeCrash ==
    ASSUME TypeInv, NEW c \in Runners, CrashRunner(c)
    PROVE  TypeInv'
  <1> DEFINE t == run[c]
  <1>0. TypeOK /\ t \in Running /\ t # Resting
        /\ UNCHANGED <<rows, cache, index, req, skipped, newest>>
        /\ crashes' = crashes + 1 /\ crashes < MaxCrashes /\ crashes \in Nat
    BY DEF TypeInv, TypeOK, CrashRunner
  <1>1. t.hotel \in Hotels /\ Again(t) \in Task
    BY <1>0, TaskByDo DEF Again, Task
  <1>2. /\ queue' \in Seq(Task) /\ Len(queue') <= Len(queue) + 1 /\ Len(queue) \in Nat
        /\ Len(queue') \in Nat
    <2>1. <<Again(t)>> \in Seq(Task) /\ Len(<<Again(t)>>) = 1
      BY <1>1
    <2>2. queue \in Seq(Task)
      BY <1>0 DEF TypeOK
    <2>3. CASE queue' = Append(queue, Again(t))
      BY <1>1, <2>2, <2>3, AppendProperties
    <2>4. CASE queue' = <<Again(t)>> \o queue
      BY <2>1, <2>2, <2>4, ConcatProperties
    <2>5. CASE UNCHANGED queue
      BY <2>2, <2>5
    <2>6. QED
      BY <2>3, <2>4, <2>5 DEF CrashRunner
  <1>3. crashes' \in 0..MaxCrashes
    BY <1>0, BoundsAssumption
  <1>4. WritesGood' /\ Sole' /\ Producers' \subseteq Producers
    BY <1>0, WritesKept
  <1>5. Room'
    BY <1>0, <1>2, <1>3, <1>4, RoomKept
  <1>6. Len(queue') <= MaxPending + MaxCrashes
    BY <1>2, <1>3, <1>5, QueueBound
  <1>7. lost' \in [Hotels -> SUBSET (0..Gone)]
    <2>1. Carries(t) \in 0..Gone
      <3>1. CASE t.do = "write"
        BY <1>0, <3>1, TaskByDo, BoundsAssumption DEF Carries, Gone
      <3>2. CASE t.do = "reindex"
        BY <1>0, <1>1, <3>2 DEF Carries, TypeOK
      <3>3. CASE t.do = "drop"
        BY <3>3, BoundsAssumption DEF Carries, Gone
      <3>4. QED
        BY <1>0, <3>1, <3>2, <3>3, TaskByDo
    <2>2. lost' = [lost EXCEPT ![t.hotel] = @ \cup {Carries(t)}] \/ lost' = lost
      BY DEF CrashRunner
    <2>3. \A h \in Hotels, n \in 0..Gone :
              [lost EXCEPT ![h] = @ \cup {n}] \in [Hotels -> SUBSET (0..Gone)]
      BY <1>0 DEF TypeOK
    <2>4. lost \in [Hotels -> SUBSET (0..Gone)]
      BY <1>0 DEF TypeOK
    <2>5. QED
      BY <1>1, <2>1, <2>2, <2>3, <2>4
  <1>8. run' \in [Runners -> Running]
    BY <1>0 DEF CrashRunner, Run, TypeOK, Running
  <1>9. TypeOK'
    BY <1>0, <1>2, <1>3, <1>6, <1>7, <1>8 DEF TypeOK
  <1>10. QED
    BY <1>4, <1>5, <1>9 DEF TypeInv

LEMMA TypeInvInit == Init => TypeInv
  <1> SUFFICES ASSUME Init PROVE TypeInv
    OBVIOUS
  <1>1. TypeOK
    BY BoundsAssumption DEF Init, TypeOK, Gone, Running
  <1>2. Writers = {} /\ Producers = {}
    BY DEF Init, Idle, Ops, Writers, Producers, Queueing
  <1>3. Room
    BY <1>2, FS_EmptySet, BoundsAssumption DEF Init, Room
  <1>4. QED
    BY <1>1, <1>2, <1>3 DEF TypeInv, WritesGood, Sole

LEMMA TypeInvNext ==
    ASSUME TypeInv, [Next]_vars
    PROVE  TypeInv'
  <1>1. ASSUME NEW w \in Workers, Start(w) \/ Continue(w) \/ Fail(w)
        PROVE  TypeInv'
    BY <1>1, TypeStartWrite, TypeReads, TypeCommit, TypeRefresh, TypeEnqueue,
       TypeDeleteKey, TypeAbandon
    DEF Start, Continue, Fail
  <1>2. ASSUME NEW c \in Runners, Process(c) \/ CrashRunner(c)
        PROVE  TypeInv'
    BY <1>2, TypeProcess, TypeCrash
  <1>3. ASSUME (\E k \in Keys : Expire(k)) \/ UNCHANGED vars
        PROVE  TypeInv'
    <2>0. TypeOK /\ UNCHANGED <<rows, index, queue, req, run, crashes, history>>
      BY <1>3 DEF TypeInv, Expire, vars
    <2>1. TypeOK'
      BY <1>3, <2>0 DEF TypeOK, history, Expire, vars
    <2>2. WritesGood' /\ Sole' /\ Producers' \subseteq Producers
      BY <2>0, WritesKept
    <2>3. Room'
      BY <2>0, <2>2, RoomKept DEF TypeOK
    <2>4. QED
      BY <2>1, <2>2, <2>3 DEF TypeInv
  <1>4. QED
    BY <1>1, <1>2, <1>3 DEF Next

(* Rows, entries, tasks and requests keep their types, and the queue never *)
(* holds more tasks than writes were let in and processes crashed          *)
(* (api/v1/admin/hotels.py, tasks/indexing_tasks.py).                      *)
THEOREM CatalogTyped == Spec => []TypeOK
  <1>1. TypeInv => TypeOK
    BY DEF TypeInv
  <1>2. QED
    BY <1>1, TypeInvInit, TypeInvNext, PTL DEF Spec

-----------------------------------------------------------------------------
(* CacheExplained. *)

(* Whoever owed the deletion of k still owes it, or it has been skipped.   *)
KeyKept(k) ==
    /\ k \in skipped => k \in skipped'
    /\ \A w \in Workers : Owes(req[w], Delete(k)) =>
          \/ k \in skipped'
          \/ /\ Owes(req'[w], Delete(k))
             /\ req'[w].hotel = req[w].hotel /\ req'[w].version = req[w].version

LEMMA ViewKept ==
    ASSUME NEW k, NEW view, NEW raced, ViewGood(k, view, raced),
           rows' = rows, KeyKept(k)
    PROVE  ViewGood(k, view, raced)'
  <1>1. ASSUME NEW h, Explained(k, h, view, raced)
        PROVE  Explained(k, h, view, raced)'
    <2>1. ASSUME NEW w \in Workers, Owes(req[w], Delete(k)),
                 req[w].hotel = h, req[w].version = rows[h]
          PROVE  Explained(k, h, view, raced)'
      <3>1. CASE k \in skipped'
        BY <3>1 DEF Explained
      <3>2. CASE k \notin skipped'
        <4>1. Owes(req'[w], Delete(k))
              /\ req'[w].hotel = h /\ req'[w].version = rows'[h]
          BY <2>1, <3>2 DEF KeyKept
        <4>2. Owes(req[w], Delete(k))'
          BY <4>1 DEF Owes, Delete
        <4>3. QED
          BY <4>1, <4>2 DEF Explained
      <3>3. QED
        BY <3>1, <3>2
    <2>2. CASE view[h] = Doc(rows[h]) \/ raced \/ k \in skipped
      BY <2>2 DEF Explained, KeyKept
    <2>3. QED
      BY <1>1, <2>1, <2>2 DEF Explained
  <1>2. QED
    BY <1>1 DEF ViewGood, Shown

(* A step that changes no row and neglects no deletion owed. *)
LEMMA CacheFrame ==
    ASSUME CacheInv, TypeInv', rows' = rows, \A k \in Keys : KeyKept(k),
           \A w \in Workers : req'[w].op = "set" =>
               req'[w] = req[w] \/ ViewGood(req[w].key, req[w].view, req[w].raced)',
           \A k \in Keys :
               \/ cache'[k] = cache[k]
               \/ cache'[k] = NoEntry
               \/ ViewGood(k, cache[k].view, cache[k].raced)',
           \A h \in Hotels \cap Keys : Held(h)' => Held(h) \/ rows[h] # 0
    PROVE  CacheInv'
  <1>1. ASSUME NEW k \in Keys, cache'[k] = cache[k], Cached(k)
        PROVE  ViewGood(k, cache[k].view, cache[k].raced)'
    <2>1. PICK view, raced : view = cache[k].view /\ raced = cache[k].raced
      OBVIOUS
    <2>2. ViewGood(k, view, raced)'
      BY <1>1, <2>1, ViewKept DEF CacheInv, EntriesGood
    <2>3. QED
      BY <1>1, <2>1, <2>2
  <1>2. ASSUME NEW w \in Workers, req'[w] = req[w], req[w].op = "set"
        PROVE  ViewGood(req[w].key, req[w].view, req[w].raced)'
    <2>1. PICK k, view, raced : k = req[w].key /\ view = req[w].view /\ raced = req[w].raced
      OBVIOUS
    <2>2. k \in Keys
      BY <1>2, <2>1, RequestByOp DEF CacheInv, TypeInv, TypeOK
    <2>3. ViewGood(k, view, raced)'
      BY <1>2, <2>1, <2>2, ViewKept DEF CacheInv, FillsGood
    <2>4. QED
      BY <1>2, <2>1, <2>3
  <1>3. EntriesGood'
    BY <1>1 DEF EntriesGood, Cached
  <1>4. FillsGood'
    BY <1>2 DEF FillsGood
  <1>5. Unborn'
    BY DEF Unborn, CacheInv
  <1>6. QED
    BY <1>3, <1>4, <1>5 DEF CacheInv

(* Steps that delete no key and change no row keep what is owed.           *)
LEMMA QuietKept ==
    ASSUME TypeInv, NEW w \in Workers,
           \A v \in Workers \ {w} : req'[v] = req[v],
           \/ /\ req[w].op \notin Ops /\ UNCHANGED skipped
           \/ /\ req[w].op \in Ops /\ UNCHANGED skipped
              /\ Head(req[w].todo).do \notin {"commit", "delete"}
              /\ req'[w] = Advance(req[w])
           \/ Abandon(w)
    PROVE  \A k \in Keys : KeyKept(k)
  <1> SUFFICES ASSUME NEW k \in Keys
               PROVE  KeyKept(k)
    OBVIOUS
  <1>1. skipped \subseteq skipped'
    BY DEF Abandon
  <1>2. ASSUME Owes(req[w], Delete(k))
        PROVE  \/ k \in skipped'
               \/ /\ Owes(req'[w], Delete(k))
                  /\ req'[w].hotel = req[w].hotel /\ req'[w].version = req[w].version
    <2>0. req[w].op \in Ops
      BY <1>2 DEF Owes
    <2>1. CASE Abandon(w)
      BY <1>2, <2>1 DEF Abandon
    <2>2. CASE /\ Head(req[w].todo).do \notin {"commit", "delete"}
               /\ req'[w] = Advance(req[w])
      <3>1. req[w] \in Write /\ WriteGood(req[w])
        BY <2>0, WriterGood
      <3>2. Head(req[w].todo) # Do("commit") /\ Head(req[w].todo) # Delete(k)
        BY <2>2 DEF Do, Delete
      <3>3. QED
        BY <1>2, <2>2, <3>1, <3>2, Advanced
    <2>3. QED
      BY <2>0, <2>1, <2>2
  <1>3. QED
    BY <1>1, <1>2 DEF KeyKept

LEMMA CacheWrites ==
    ASSUME CacheInv, TypeInv', NEW w \in Workers,
           \/ \E op \in Ops, h \in Hotels : StartWrite(w, op, h)
           \/ Refresh(w) \/ Enqueue(w) \/ Abandon(w)
    PROVE  CacheInv'
  <1>0. TypeInv /\ TypeOK /\ UNCHANGED <<rows, cache>>
    BY DEF CacheInv, TypeInv, StartWrite, Refresh, Enqueue, Abandon
  <1>1. \A v \in Workers \ {w} : req'[v] = req[v]
    BY <1>0 DEF StartWrite, Refresh, Enqueue, Abandon, Serve, TypeOK
  <1>2. /\ req'[w].op # "set"
        /\ \A k \in Keys : KeyKept(k)
    <2>1. ASSUME NEW op \in Ops, NEW h \in Hotels, StartWrite(w, op, h)
          PROVE  req'[w].op # "set" /\ \A k \in Keys : KeyKept(k)
      <3>1. req[w].op \notin Ops /\ UNCHANGED skipped
        BY <2>1 DEF StartWrite, Idle, Ops, history
      <3>2. req'[w].op \in {op, "idle"}
        BY <1>0, <2>1 DEF StartWrite, Serve, Idle, TypeOK
      <3>3. QED
        BY <1>0, <1>1, <3>1, <3>2, QuietKept DEF Ops
    <2>2. CASE Abandon(w)
      <3>1. req'[w].op = "idle"
        BY <1>0, <2>2 DEF Abandon, Serve, Idle, TypeOK
      <3>2. QED
        BY <1>0, <1>1, <2>2, <3>1, QuietKept
    <2>3. CASE (Refresh(w) \/ Enqueue(w)) /\ ~ Abandon(w)
      <3>1. /\ req'[w] = Advance(req[w]) /\ UNCHANGED skipped
            /\ req[w].op \in Ops /\ Head(req[w].todo).do \in {"refresh", "enqueue"}
        BY <1>0, <2>3 DEF Refresh, Enqueue, Serve, At, history, TypeOK
      <3>2. req[w] \in Write /\ WriteGood(req[w])
        BY <1>0, <3>1, WriterGood
      <3>3. Advance(req[w]) \in {Idle} \cup Write
        BY <3>1, <3>2, HeadDo, Advanced
      <3>4. Advance(req[w]).op # "set"
        BY <3>3 DEF Idle, Write, Ops
      <3>5. QED
        BY <1>0, <1>1, <3>1, <3>4, QuietKept
    <2>4. QED
      BY <2>1, <2>2, <2>3
  <1>3. \A v \in Workers : req'[v].op = "set" => req'[v] = req[v]
    BY <1>1, <1>2
  <1>4. \A h \in Hotels \cap Keys : Held(h)' => Held(h)
    BY <1>0, <1>3 DEF Held, Cached
  <1>5. QED
    BY <1>0, <1>2, <1>3, <1>4, CacheFrame

LEMMA CacheReads ==
    ASSUME CacheInv, TypeInv', NEW w \in Workers,
           (\E k \in Keys : StartRead(w, k)) \/ ReadRows(w) \/ SetEntry(w)
    PROVE  CacheInv'
  <1>0. TypeInv /\ TypeOK /\ UNCHANGED <<rows, skipped>> /\ req[w].op \notin Ops
    <2>1. TypeInv /\ TypeOK
      BY DEF CacheInv, TypeInv
    <2>2. UNCHANGED <<rows, skipped>>
      BY DEF StartRead, ReadRows, SetEntry, history
    <2>3. req[w].op \in {"idle", "read", "set"}
      <3>1. ASSUME NEW k \in Keys, StartRead(w, k)
            PROVE  req[w].op = "idle"
        BY <3>1 DEF StartRead, Idle
      <3>2. ReadRows(w) => req[w].op = "read"
        BY DEF ReadRows
      <3>3. SetEntry(w) => req[w].op = "set"
        BY DEF SetEntry
      <3>4. QED
        BY <3>1, <3>2, <3>3
    <2>4. QED
      BY <2>1, <2>2, <2>3 DEF Ops
  <1>1. \A v \in Workers \ {w} : req'[v] = req[v]
    BY <1>0 DEF StartRead, ReadRows, SetEntry, Serve, TypeOK
  <1>2. \A k \in Keys : KeyKept(k)
    BY <1>0, <1>1, QuietKept
  <1>3. CASE (\E k \in Keys : StartRead(w, k)) \/ SetEntry(w)
    <2>1. req'[w].op # "set"
      BY <1>0, <1>3 DEF StartRead, SetEntry, Serve, Idle, TypeOK
    <2>2. \A k \in Keys :
              \/ cache'[k] = cache[k]
              \/ /\ req[w].op = "set" /\ req[w].key = k
                 /\ cache'[k] = [view |-> req[w].view, raced |-> req[w].raced]
      BY <1>0, <1>3 DEF StartRead, SetEntry, TypeOK
    <2>3. ASSUME NEW k \in Keys, cache'[k] # cache[k]
          PROVE  ViewGood(k, cache[k].view, cache[k].raced)'
      <3>1. PICK view, raced : view = req[w].view /\ raced = req[w].raced
        OBVIOUS
      <3>2. /\ req[w].op = "set" /\ req[w].key = k
            /\ cache'[k].view = view /\ cache'[k].raced = raced
        BY <2>2, <2>3, <3>1
      <3>3. ViewGood(k, view, raced)
        BY <3>1, <3>2 DEF CacheInv, FillsGood
      <3>4. ViewGood(k, view, raced)'
        BY <1>0, <1>2, <3>3, ViewKept
      <3>5. QED
        BY <3>2, <3>4
    <2>4. \A h \in Hotels \cap Keys : Held(h)' => Held(h)
      BY <1>1, <2>1, <2>2 DEF Held, Cached
    <2>5. QED
      BY <1>0, <1>1, <1>2, <2>1, <2>3, <2>4, CacheFrame
  <1>4. CASE ReadRows(w)
    <2>0. UNCHANGED cache
      BY <1>4 DEF ReadRows
    <2>1. req[w].key \in Keys
      BY <1>0, <1>4, RequestByOp DEF ReadRows, TypeOK
    <2>2. PICK k : k = req[w].key
      OBVIOUS
    <2>3. \/ req'[w].op # "set"
          \/ /\ req'[w].key = k /\ req'[w].view = View(k)
             /\ k = AllHotels \/ Exists(k)
      BY <1>0, <1>4, <2>2 DEF ReadRows, Serve, Idle, TypeOK
    <2>4. ASSUME req'[w].op = "set"
          PROVE  ViewGood(req[w].key, req[w].view, req[w].raced)'
      <3>1. DOMAIN View(k) = Shown(k) /\ \A h \in Shown(k) : View(k)[h] = Doc(rows'[h])
        BY <1>0, <2>1, <2>2, ViewTyped
      <3>2. req'[w].key = k /\ req'[w].view = View(k)
        BY <2>3, <2>4
      <3>3. PICK view, raced : view = View(k) /\ raced = req'[w].raced
        OBVIOUS
      <3>4. ViewGood(k, view, raced)'
        BY <3>1, <3>3 DEF ViewGood, Explained, Shown
      <3>5. QED
        BY <3>2, <3>3, <3>4
    <2>5. \A h \in Hotels \cap Keys : Held(h)' => Held(h) \/ rows[h] # 0
      <3> SUFFICES ASSUME NEW h \in Hotels \cap Keys, Held(h)', ~ Held(h)
                   PROVE  rows[h] # 0
        OBVIOUS
      <3>1. req'[w].op = "set" /\ req'[w].key = h
        BY <1>1, <2>0 DEF Held, Cached
      <3>2. h = k /\ h # AllHotels
        BY <2>3, <3>1, ListKeyAssumption
      <3>3. QED
        BY <2>3, <3>1, <3>2 DEF Exists
    <2>6. QED
      BY <1>0, <1>1, <1>2, <2>0, <2>4, <2>5, CacheFrame
  <1>5. QED
    BY <1>3, <1>4

(* A deletion of k that succeeds leaves no entry under k and no fill of k  *)
(* that would not be raced; one that fails is skipped if it was owed.      *)
LEMMA CacheDeleteKey ==
    ASSUME CacheInv, TypeInv', NEW w \in Workers, DeleteKey(w)
    PROVE  CacheInv'
  <1>0. TypeInv /\ TypeOK /\ UNCHANGED rows
    BY DEF CacheInv, TypeInv, DeleteKey
  <1>1. PICK k : k = Head(req[w].todo).key
    OBVIOUS
  <1>2. /\ req[w] \in Write /\ WriteGood(req[w]) /\ req[w].op \in Ops
        /\ Head(req[w].todo) # Do("commit")
        /\ k \in Keys /\ Head(req[w].todo) = Delete(k)
    BY <1>0, <1>1, WriterGood, HeadDo DEF DeleteKey, At
  <1>3. \A x \in Keys \ {k} :
            Owes(req[w], Delete(x)) =>
                /\ Owes(Advance(req[w]), Delete(x))
                /\ Advance(req[w]).hotel = req[w].hotel
                /\ Advance(req[w]).version = req[w].version
    BY <1>2, Advanced DEF Delete
  <1>4. Advance(req[w]).op # "set"
    <2>1. Advance(req[w]) \in {Idle} \cup Write
      BY <1>2, Advanced
    <2>2. QED
      BY <2>1 DEF Idle, Write, Ops
  <1>5. CASE /\ cache' = [cache EXCEPT ![k] = NoEntry]
             /\ skipped' = skipped \ {k}
             /\ req' = [Overtaken(k) EXCEPT ![w] = Advance(req[w])]
    <2>1. req'[w] = Advance(req[w]) /\ \A v \in Workers \ {w} : req'[v] = Overtaken(k)[v]
      BY <1>5 DEF Overtaken
    <2>2. \A v \in Workers \ {w} :
              /\ req'[v].op = req[v].op
              /\ req[v].op # "set" => req'[v] = req[v]
              /\ req[v].op = "set" =>
                    /\ req'[v].key = req[v].key /\ req'[v].view = req[v].view
                    /\ req[v].key # k => req'[v] = req[v]
                    /\ req[v].key = k => req'[v].raced = TRUE
      <3> SUFFICES ASSUME NEW v \in Workers \ {w}
                   PROVE  /\ req'[v].op = req[v].op
                          /\ req[v].op # "set" => req'[v] = req[v]
                          /\ req[v].op = "set" =>
                                /\ req'[v].key = req[v].key /\ req'[v].view = req[v].view
                                /\ req[v].key # k => req'[v] = req[v]
                                /\ req[v].key = k => req'[v].raced = TRUE
        OBVIOUS
      <3>1. PICK o : o = Overtaken(k)[v]
        OBVIOUS
      <3>2. /\ o.op = req[v].op
            /\ req[v].op # "set" => o = req[v]
            /\ req[v].op = "set" =>
                  /\ o.key = req[v].key /\ o.view = req[v].view
                  /\ req[v].key # k => o = req[v]
                  /\ req[v].key = k => o.raced = TRUE
        BY <1>0, <3>1, OvertakenTyped
      <3>3. req'[v] = o
        BY <2>1, <3>1
      <3>4. QED
        BY <3>2, <3>3
    <2>3. \A x \in Keys \ {k} : KeyKept(x)
      <3> SUFFICES ASSUME NEW x \in Keys \ {k}, NEW v \in Workers, Owes(req[v], Delete(x))
                   PROVE  /\ Owes(req'[v], Delete(x))
                          /\ req'[v].hotel = req[v].hotel /\ req'[v].version = req[v].version
        BY <1>5 DEF KeyKept
      <3>1. CASE v = w
        BY <1>3, <2>1, <3>1
      <3>2. CASE v # w
        <4>1. req[v].op # "set"
          BY DEF Owes, Ops
        <4>2. QED
          BY <2>2, <3>2, <4>1
      <3>3. QED
        BY <3>1, <3>2
    <2>4. EntriesGood'
      <3> SUFFICES ASSUME NEW x \in Keys, Cached(x)'
                   PROVE  ViewGood(x, cache[x].view, cache[x].raced)'
        BY DEF EntriesGood
      <3>1. x # k /\ cache'[x] = cache[x] /\ Cached(x)
        BY <1>0, <1>2, <1>5 DEF Cached, TypeOK
      <3>2. PICK view, raced : view = cache[x].view /\ raced = cache[x].raced
        OBVIOUS
      <3>3. ViewGood(x, view, raced)
        BY <3>1, <3>2 DEF CacheInv, EntriesGood
      <3>4. ViewGood(x, view, raced)'
        BY <1>0, <2>3, <3>1, <3>3, ViewKept
      <3>5. QED
        BY <3>1, <3>2, <3>4
    <2>5. FillsGood'
      <3> SUFFICES ASSUME NEW v \in Workers, req'[v].op = "set"
                   PROVE  ViewGood(req[v].key, req[v].view, req[v].raced)'
        BY DEF FillsGood
      <3>1. v # w /\ req[v].op = "set"
        BY <1>4, <2>1, <2>2
      <3>2. PICK x, view, raced : x = req[v].key /\ view = req[v].view /\ raced = req'[v].raced
        OBVIOUS
      <3>3. x \in Keys /\ req'[v].key = x /\ req'[v].view = view
        BY <1>0, <2>2, <3>1, <3>2, RequestByOp DEF TypeOK
      <3>4. CASE x = k
        <4>1. raced = TRUE /\ DOMAIN view = Shown(x)
          BY <2>2, <3>1, <3>2, <3>4 DEF CacheInv, FillsGood, ViewGood
        <4>2. ViewGood(x, view, raced)'
          BY <4>1 DEF ViewGood, Explained, Shown
        <4>3. QED
          BY <3>2, <3>3, <4>2
      <3>5. CASE x # k
        <4>1. req'[v] = req[v]
          BY <2>2, <3>1, <3>2, <3>5
        <4>2. ViewGood(x, view, raced)
          BY <3>1, <3>2, <4>1 DEF CacheInv, FillsGood
        <4>3. ViewGood(x, view, raced)'
          BY <1>0, <2>3, <3>3, <3>5, <4>2, ViewKept
        <4>4. QED
          BY <3>2, <3>3, <4>3
      <3>6. QED
        BY <3>4, <3>5
    <2>6. Unborn'
      <3> SUFFICES ASSUME NEW h \in Hotels \cap Keys, Held(h)'
                   PROVE  rows'[h] # 0
        BY DEF Unborn
      <3>1. Held(h)
        <4>1. CASE Cached(h)'
          BY <1>0, <1>2, <1>5, <4>1 DEF Cached, TypeOK, Held
        <4>2. ASSUME NEW v \in Workers, req'[v].op = "set", req'[v].key = h
              PROVE  Held(h)
          <5>1. v # w
            BY <1>4, <2>1, <4>2
          <5>2. req[v].op = "set" /\ req[v].key = h
            BY <2>2, <4>2, <5>1
          <5>3. QED
            BY <5>2 DEF Held
        <4>3. QED
          BY <4>1, <4>2 DEF Held
      <3>2. QED
        BY <1>0, <3>1 DEF CacheInv, Unborn
    <2>7. QED
      BY <2>4, <2>5, <2>6 DEF CacheInv
  <1>6. CASE /\ skipped' = IF Owes(req[w], Delete(k)) THEN skipped \cup {k} ELSE skipped
             /\ Serve(w, Advance(req[w]))
             /\ UNCHANGED cache
    <2>1. req'[w] = Advance(req[w]) /\ \A v \in Workers \ {w} : req'[v] = req[v]
      BY <1>0, <1>6 DEF Serve, TypeOK
    <2>2. \A x \in Keys : KeyKept(x)
      <3> SUFFICES ASSUME NEW x \in Keys, NEW v \in Workers, Owes(req[v], Delete(x))
                   PROVE  \/ x \in skipped'
                          \/ /\ Owes(req'[v], Delete(x))
                             /\ req'[v].hotel = req[v].hotel
                             /\ req'[v].version = req[v].version
        BY <1>6 DEF KeyKept
      <3>1. CASE v # w
        BY <2>1, <3>1
      <3>2. CASE v = w /\ x = k
        BY <1>6, <3>2
      <3>3. CASE v = w /\ x # k
        BY <1>3, <2>1, <3>3
      <3>4. QED
        BY <3>1, <3>2, <3>3
    <2>3. \A v \in Workers : req'[v].op = "set" => req'[v] = req[v]
      BY <1>4, <2>1
    <2>4. \A h \in Hotels \cap Keys : Held(h)' => Held(h)
      BY <1>6, <2>3 DEF Held, Cached
    <2>5. QED
      BY <1>0, <1>6, <2>2, <2>3, <2>4, CacheFrame
  <1>7. QED
    BY <1>1, <1>5, <1>6 DEF DeleteKey

(* A commit that changes the row is owed to every key that shows the row,  *)
(* and nobody has read a hotel that is just being created.                 *)
LEMMA CacheCommit ==
    ASSUME CacheInv, TypeInv', NEW w \in Workers, Commit(w)
    PROVE  CacheInv'
  <1>0. TypeInv /\ TypeOK /\ UNCHANGED <<cache, skipped>>
    BY DEF CacheInv, TypeInv, Commit, history
  <1> DEFINE r == req[w]
  <1>1. PICK h0 \in Hotels : h0 = r.hotel
    BY <1>0, Committed
  <1>2. /\ w \in Writers /\ r \in Write /\ r.op \in Ops /\ r.version = 0
        /\ r.op = "create" => rows[h0] = 0
    BY <1>0, <1>1, Committed DEF Write
  <1>3. PICK n \in 0..Gone, x \in Write :
            /\ rows' = [rows EXCEPT ![h0] = n]
            /\ req' = [req EXCEPT ![w] = x]
            /\ x.op = r.op /\ x.hotel = h0
            /\ x.todo = Tail(Steps(r.op, h0))
            /\ x.version = IF n = rows[h0] THEN 0 ELSE n
            /\ n # rows[h0] => n \in IF r.op = "delete" THEN {Gone} ELSE 1..MaxVersion
            /\ rows[h0] <= n
    BY <1>0, <1>1, Committed
  <1>4. /\ rows'[h0] = n /\ \A h \in Hotels \ {h0} : rows'[h] = rows[h]
        /\ req'[w] = x /\ \A v \in Workers \ {w} : req'[v] = req[v]
        /\ rows[h0] \in 0..Gone
    BY <1>0, <1>3 DEF TypeOK
  <1>5. n # rows[h0] => n # 0
    BY <1>3, BoundsAssumption DEF Gone
  <1>6. ASSUME NEW k \in Keys, NEW view, NEW raced, ViewGood(k, view, raced),
               ~ (r.op = "create" /\ k = h0)
        PROVE  ViewGood(k, view, raced)'
    <2> SUFFICES ASSUME NEW h \in Shown(k)
                 PROVE  Explained(k, h, view, raced)'
      BY <1>6 DEF ViewGood, Shown
    <2>1. Explained(k, h, view, raced) /\ h \in Hotels
      BY <1>0, <1>6, ViewTyped DEF ViewGood
    <2>2. CASE h # h0 \/ n = rows[h0]
      <3>1. rows'[h] = rows[h]
        BY <1>4, <2>1, <2>2
      <3>2. ASSUME NEW v \in Workers, Owes(req[v], Delete(k)),
                   req[v].hotel = h, req[v].version = rows[h]
            PROVE  Explained(k, h, view, raced)'
        <4>1. v # w
          BY <1>2, <3>2 DEF Owes
        <4>2. req'[v] = req[v]
          BY <1>4, <4>1
        <4>3. Owes(req[v], Delete(k))'
          BY <3>2, <4>2 DEF Owes, Delete
        <4>4. QED
          BY <3>1, <3>2, <4>2, <4>3 DEF Explained
      <3>3. CASE view[h] = Doc(rows[h]) \/ raced \/ k \in skipped
        BY <1>0, <3>1, <3>3 DEF Explained
      <3>4. QED
        BY <2>1, <3>2, <3>3 DEF Explained
    <2>3. CASE h = h0 /\ n # rows[h0]
      <3>1. k = AllHotels \/ (k = h0 /\ r.op # "create")
        BY <1>6, <2>3 DEF Shown
      <3>2. Has(Tail(Steps(r.op, h0)), Delete(k))
        BY <1>1, <1>2, <3>1, StepsGood
      <3>3. Owes(x, Delete(k)) /\ x.hotel = h /\ x.version = rows'[h]
        BY <1>2, <1>3, <1>4, <1>5, <2>3, <3>2 DEF Owes, Has
      <3>4. Owes(req[w], Delete(k))' /\ req'[w].hotel = h /\ req'[w].version = rows'[h]
        BY <1>4, <3>3 DEF Owes, Delete
      <3>5. QED
        BY <3>4 DEF Explained
    <2>4. QED
      BY <2>2, <2>3
  <1>7. \A k \in Keys : Held(k)' => Held(k)
    <2>1. x.op # "set"
      BY DEF Write, Ops
    <2>2. QED
      BY <1>0, <1>4, <2>1 DEF Held, Cached
  <1>8. \A k \in Keys : Held(k) => ~ (r.op = "create" /\ k = h0)
    BY <1>1, <1>2 DEF CacheInv, Unborn
  <1>9. EntriesGood'
    <2> SUFFICES ASSUME NEW k \in Keys, Cached(k)'
                 PROVE  ViewGood(k, cache[k].view, cache[k].raced)'
      BY DEF EntriesGood
    <2>1. Cached(k) /\ cache'[k] = cache[k] /\ Held(k)
      BY <1>0 DEF Cached, Held
    <2>2. PICK view, raced : view = cache[k].view /\ raced = cache[k].raced
      OBVIOUS
    <2>3. ViewGood(k, view, raced)
      BY <2>1, <2>2 DEF CacheInv, EntriesGood
    <2>4. ViewGood(k, view, raced)'
      BY <1>6, <1>8, <2>1, <2>3
    <2>5. QED
      BY <2>1, <2>2, <2>4
  <1>10. FillsGood'
    <2> SUFFICES ASSUME NEW v \in Workers, req'[v].op = "set"
                 PROVE  ViewGood(req[v].key, req[v].view, req[v].raced)'
      BY DEF FillsGood
    <2>1. x.op # "set"
      BY DEF Write, Ops
    <2>2. req'[v] = req[v]
      BY <1>4, <2>1
    <2>3. PICK k, view, raced : k = req[v].key /\ view = req[v].view /\ raced = req[v].raced
      OBVIOUS
    <2>4. k \in Keys /\ Held(k)
      BY <1>0, <2>2, <2>3, RequestByOp DEF TypeOK, Held
    <2>5. ViewGood(k, view, raced)
      BY <2>2, <2>3 DEF CacheInv, FillsGood
    <2>6. ViewGood(k, view, raced)'
      BY <1>6, <1>8, <2>4, <2>5
    <2>7. QED
      BY <2>2, <2>3, <2>6
  <1>11. Unborn'
    <2> SUFFICES ASSUME NEW h \in Hotels \cap Keys, Held(h)'
                 PROVE  rows'[h] # 0
      BY DEF Unborn
    <2>1. rows[h] # 0
      BY <1>7 DEF CacheInv, Unborn
    <2>2. QED
      BY <1>4, <1>5, <2>1
  <1>12. QED
    BY <1>9, <1>10, <1>11 DEF CacheInv

LEMMA CacheInit == Init => CacheInv
  <1> SUFFICES ASSUME Init PROVE CacheInv
    OBVIOUS
  <1>1. \A k \in Keys : ~ Cached(k)
    BY DEF Init, Cached
  <1>2. \A w \in Workers : req[w].op # "set"
    BY DEF Init, Idle
  <1>3. QED
    BY <1>1, <1>2, TypeInvInit DEF CacheInv, EntriesGood, FillsGood, Unborn, Held

LEMMA CacheNext ==
    ASSUME CacheInv, [Next]_vars
    PROVE  CacheInv'
  <1>0. TypeInv /\ TypeOK /\ TypeInv'
    BY TypeInvNext DEF CacheInv, TypeInv
  <1>1. ASSUME NEW w \in Workers, Start(w) \/ Continue(w) \/ Fail(w)
        PROVE  CacheInv'
    BY <1>0, <1>1, CacheWrites, CacheReads, CacheCommit, CacheDeleteKey
    DEF Start, Continue, Fail
  <1>2. CASE \/ \E c \in Runners : Process(c) \/ CrashRunner(c)
             \/ \E k \in Keys : Expire(k)
             \/ UNCHANGED vars
    <2>1. UNCHANGED <<rows, req, skipped>>
      BY <1>2 DEF Process, Take, ReadHotel, WriteIndex, DropDocument, CrashRunner, Expire,
                  history, vars
    <2>2. \A k \in Keys : cache'[k] = cache[k] \/ cache'[k] = NoEntry
      BY <1>0, <1>2 DEF Process, Take, ReadHotel, WriteIndex, DropDocument, CrashRunner,
                        Expire, history, vars, TypeOK
    <2>3. \A k \in Keys : KeyKept(k)
      BY <2>1 DEF KeyKept
    <2>4. \A h \in Hotels \cap Keys : Held(h)' => Held(h)
      BY <2>1, <2>2 DEF Held, Cached
    <2>5. QED
      BY <1>0, <2>1, <2>2, <2>3, <2>4, CacheFrame
  <1>3. QED
    BY <1>1, <1>2 DEF Next

(* An entry that differs from the rows was put together across a deletion  *)
(* of its key, or the deletion failed, or the write that made the          *)
(* difference has still to delete the key: no interleaving of the three    *)
(* writes of api/v1/admin/hotels.py with its two reads leaves another.     *)
THEOREM EntriesExplained == Spec => []CacheExplained
  <1>1. CacheInv => CacheExplained
    BY DEF CacheInv, EntriesGood, ViewGood, CacheExplained
  <1>2. QED
    BY <1>1, CacheInit, CacheNext, PTL DEF Spec

-----------------------------------------------------------------------------
(* IndexExplained. *)

LEMMA QueueElements ==
    ASSUME NEW q \in Seq(Task), NEW t \in Task
    PROVE  /\ Elements(Append(q, t)) = Elements(q) \cup {t}
           /\ Elements(<<t>> \o q) = Elements(q) \cup {t}
           /\ q # <<>> => Elements(q) = {Head(q)} \cup Elements(Tail(q))
  <1>0. Len(q) \in Nat
    OBVIOUS
  <1>1. Elements(Append(q, t)) = Elements(q) \cup {t}
    <2>1. /\ Len(Append(q, t)) = Len(q) + 1
          /\ \A i \in 1..Len(q) : Append(q, t)[i] = q[i]
          /\ Append(q, t)[Len(q) + 1] = t
      BY AppendProperties
    <2>2. \A i : i \in 1..Len(q) + 1 <=> i \in 1..Len(q) \/ i = Len(q) + 1
      BY <1>0
    <2>3. QED
      BY <2>1, <2>2 DEF Elements
  <1>2. Elements(<<t>> \o q) = Elements(q) \cup {t}
    <2>1. /\ Len(<<t>> \o q) = Len(q) + 1
          /\ (<<t>> \o q)[1] = t
          /\ \A i \in 1..Len(q) : (<<t>> \o q)[i + 1] = q[i]
      <3>1. <<t>> \in Seq(Task) /\ Len(<<t>>) = 1 /\ <<t>>[1] = t
        OBVIOUS
      <3>2. QED
        BY <1>0, <3>1, ConcatProperties
    <2>2. /\ 1 \in 1..Len(q) + 1
          /\ \A i \in 1..Len(q) : i + 1 \in 1..Len(q) + 1
          /\ \A i \in 1..Len(q) + 1 : i = 1 \/ (i - 1 \in 1..Len(q) /\ i = (i - 1) + 1)
      BY <1>0
    <2>3. \A i \in 1..Len(q) + 1 :
              (<<t>> \o q)[i] = t
              \/ (i - 1 \in 1..Len(q) /\ (<<t>> \o q)[i] = q[i - 1])
      BY <2>1, <2>2
    <2>4. \A i \in 1..Len(q) : q[i] \in Elements(<<t>> \o q)
      <3>1. \A i \in 1..Len(q) : i + 1 \in 1..Len(<<t>> \o q) /\ q[i] = (<<t>> \o q)[i + 1]
        BY <2>1, <2>2
      <3>2. QED
        BY <3>1 DEF Elements
    <2>5. t \in Elements(<<t>> \o q)
      <3>1. 1 \in 1..Len(<<t>> \o q) /\ t = (<<t>> \o q)[1]
        BY <2>1, <2>2
      <3>2. QED
        BY <3>1 DEF Elements
    <2>6. Elements(q) \cup {t} \subseteq Elements(<<t>> \o q)
      <3>1. \A x \in Elements(q) : x \in Elements(<<t>> \o q)
        BY <2>4 DEF Elements
      <3>2. QED
        BY <2>5, <3>1
    <2>7. Elements(<<t>> \o q) \subseteq Elements(q) \cup {t}
      <3> SUFFICES ASSUME NEW i \in 1..Len(<<t>> \o q), (<<t>> \o q)[i] # t
                   PROVE  (<<t>> \o q)[i] \in Elements(q)
        BY DEF Elements
      <3>1. i - 1 \in 1..Len(q) /\ (<<t>> \o q)[i] = q[i - 1]
        BY <2>1, <2>3
      <3>2. QED
        BY <3>1 DEF Elements
    <2>8. QED
      BY <2>6, <2>7
  <1>3. ASSUME q # <<>>
        PROVE  Elements(q) = {Head(q)} \cup Elements(Tail(q))
    <2>1. /\ Len(q) \in Nat \ {0} /\ Head(q) = q[1]
          /\ Len(Tail(q)) = Len(q) - 1
          /\ \A i \in 1..Len(Tail(q)) : Tail(q)[i] = q[i + 1]
      BY <1>3, HeadTailProperties, EmptySeq
    <2>2. /\ 1 \in 1..Len(q)
          /\ \A i \in 1..Len(Tail(q)) : i + 1 \in 1..Len(q)
          /\ \A i \in 1..Len(q) : i = 1 \/ i - 1 \in 1..Len(Tail(q))
      BY <2>1
    <2>3. \A i \in 1..Len(q) :
              q[i] = Head(q) \/ (i - 1 \in 1..Len(Tail(q)) /\ q[i] = Tail(q)[i - 1])
      BY <2>1, <2>2
    <2>4. QED
      BY <2>1, <2>2, <2>3 DEF Elements
  <1>4. QED
    BY <1>1, <1>2, <1>3

LEMMA ElementsTyped ==
    ASSUME TypeOK
    PROVE  /\ Tasks \subseteq Running
           /\ Elements(queue) \subseteq Task
  <1>1. \A i \in 1..Len(queue) : queue[i] \in Task
    BY ElementOfSeq DEF TypeOK
  <1>2. QED
    BY <1>1 DEF Tasks, Elements, Running, TypeOK

LEMMA DueByTask ==
    ASSUME NEW h
    PROVE  /\ Due(h) <=> \/ \E w \in Workers : OwesTask(w, h)
                         \/ \E t \in Tasks : BringsCurrent(t, h)
           /\ Due(h)' <=> \/ \E w \in Workers : OwesTask(w, h)'
                          \/ \E t \in Tasks' : BringsCurrent(t, h)'
  <1>1. Due(h) <=> \/ \E w \in Workers : OwesTask(w, h)
                   \/ \E t \in Tasks : BringsCurrent(t, h)
    BY DEF Due, OwesTask, Tasks, Elements
  <1>2. (\E t \in Tasks' : BringsCurrent(t, h)')
            <=> \/ \E i \in 1..Len(queue') : BringsCurrent(queue[i], h)'
                \/ \E c \in Runners : BringsCurrent(run[c], h)'
    <2>1. ASSUME NEW t, NEW i, t = queue'[i]
          PROVE  BringsCurrent(t, h)' <=> BringsCurrent(queue[i], h)'
      BY <2>1 DEF BringsCurrent, Exists
    <2>2. ASSUME NEW t, NEW c, t = run'[c]
          PROVE  BringsCurrent(t, h)' <=> BringsCurrent(run[c], h)'
      BY <2>2 DEF BringsCurrent, Exists
    <2>3. Tasks' = {queue'[i] : i \in 1..Len(queue')} \cup {run'[c] : c \in Runners}
      BY DEF Tasks, Elements
    <2>4. \A i \in 1..Len(queue') : \E t \in Tasks' : t = queue'[i]
      BY <2>3
    <2>5. \A c \in Runners : \E t \in Tasks' : t = run'[c]
      BY <2>3
    <2>6. QED
      BY <2>1, <2>2, <2>3, <2>4, <2>5
  <1>3. Due(h)' <=> \/ \E w \in Workers : OwesTask(w, h)'
                    \/ \E i \in 1..Len(queue') : BringsCurrent(queue[i], h)'
                    \/ \E c \in Runners : BringsCurrent(run[c], h)'
    BY DEF Due, OwesTask
  <1>4. QED
    BY <1>1, <1>2, <1>3

(* A step that leaves the row of h alone. *)
LEMMA HotelKept ==
    ASSUME NEW h \in Hotels, IndexGood(h), rows'[h] = rows[h],
           \A w \in Workers : OwesTask(w, h) =>
               \/ OwesTask(w, h)'
               \/ \E t \in Tasks' : BringsCurrent(t, h)'
               \/ rows[h] \in lost'[h],
           \A t \in Tasks : BringsCurrent(t, h) =>
               \/ \E u \in Tasks' : BringsCurrent(u, h)'
               \/ rows[h] \in lost'[h]
               \/ newest'[h] = rows[h],
           lost[h] \subseteq lost'[h],
           rows[h] = 0 => index'[h] = 0,
           newest'[h] <= rows[h],
           newest[h] = rows[h] => newest'[h] = rows[h]
    PROVE  IndexGood(h)'
  <1>1. Due(h) => Due(h)' \/ GivenUp(h)' \/ Overwritten(h)'
    BY DueByTask DEF GivenUp, Overwritten
  <1>2. GivenUp(h) => GivenUp(h)'
    BY DEF GivenUp
  <1>3. Overwritten(h) => Overwritten(h)'
    BY DEF Overwritten
  <1>4. QED
    BY <1>1, <1>2, <1>3 DEF IndexGood

LEMMA TasksKept ==
    ASSUME TypeInv, TasksGood, TypeInv',
           \A h \in Hotels : rows[h] <= rows'[h],
           \A t \in Tasks' : t \in Tasks \/ TaskGood(t)'
    PROVE  TasksGood'
  <1>1. ASSUME NEW t \in Tasks', TaskGood(t), t \in Tasks
        PROVE  TaskGood(t)'
    <2>1. t \in Running
      BY <1>1, ElementsTyped DEF TypeInv
    <2>2. CASE t.do = "drop"
      <3>1. t.hotel \in Hotels /\ rows[t.hotel] = Gone
        BY <1>1, <2>1, <2>2, TaskByDo DEF TaskGood
      <3>2. rows'[t.hotel] = Gone
        BY <3>1, BoundsAssumption DEF TypeInv, TypeOK, Gone
      <3>3. QED
        BY <2>2, <3>2 DEF TaskGood
    <2>3. CASE t.do = "write"
      <3>1. t.hotel \in Hotels /\ t.version \in 1..MaxVersion /\ t.version <= rows[t.hotel]
        BY <1>1, <2>1, <2>3, TaskByDo DEF TaskGood
      <3>2. rows[t.hotel] \in 0..Gone /\ rows'[t.hotel] \in 0..Gone
            /\ rows[t.hotel] <= rows'[t.hotel]
        BY <3>1 DEF TypeInv, TypeOK
      <3>3. t.version <= rows'[t.hotel]
        BY <3>1, <3>2, BoundsAssumption DEF Gone
      <3>4. QED
        BY <2>3, <3>3 DEF TaskGood
    <2>4. CASE t.do \notin {"drop", "write"}
      BY <2>4 DEF TaskGood
    <2>5. QED
      BY <2>2, <2>3, <2>4
  <1>2. \A t \in Tasks' : TaskGood(t)'
    BY <1>1 DEF TasksGood
  <1>3. QED
    BY <1>2 DEF TasksGood, TaskGood

(* A step of a request that changes neither rows, nor tasks, nor the index: *)
(* whoever owed a task still owes it, or its version has been given up.    *)
LEMMA IndexRequests ==
    ASSUME IndexInv, TypeInv', UNCHANGED <<rows, index, queue, run, newest>>,
           \A h \in Hotels : lost[h] \subseteq lost'[h],
           \A w \in Workers : Owes(req[w], Do("enqueue")) =>
               \/ /\ Owes(req'[w], Do("enqueue"))
                  /\ req'[w].hotel = req[w].hotel /\ req'[w].version = req[w].version
               \/ req[w].version \in lost'[req[w].hotel]
    PROVE  IndexInv'
  <1>1. Tasks' = Tasks
    BY DEF Tasks, Elements
  <1>2. \A h \in Hotels : rows[h] <= rows'[h]
    <2>1. \A h \in Hotels : rows[h] \in 0..Gone
      BY DEF IndexInv, TypeInv, TypeOK
    <2>2. QED
      BY <2>1, BoundsAssumption DEF Gone
  <1>3. TasksGood'
    BY <1>1, <1>2, TasksKept DEF IndexInv
  <1>4. ASSUME NEW h \in Hotels
        PROVE  IndexGood(h)'
    <2>1. ASSUME NEW w \in Workers, OwesTask(w, h)
          PROVE  OwesTask(w, h)' \/ rows[h] \in lost'[h]
      BY <2>1 DEF OwesTask, Owes, Do
    <2>2. ASSUME NEW t \in Tasks, BringsCurrent(t, h)
          PROVE  BringsCurrent(t, h)'
      BY <2>2 DEF BringsCurrent, Exists
    <2>3. QED
      BY <1>1, <2>1, <2>2, HotelKept DEF IndexInv, IndexGood
  <1>5. QED
    BY <1>3, <1>4 DEF IndexInv

LEMMA IndexReads ==
    ASSUME IndexInv, TypeInv', NEW w \in Workers,
           \/ \E op \in Ops, h \in Hotels : StartWrite(w, op, h)
           \/ \E k \in Keys : StartRead(w, k)
           \/ ReadRows(w) \/ SetEntry(w)
    PROVE  IndexInv'
  <1>1. TypeOK /\ req[w].op \notin Ops
        /\ UNCHANGED <<rows, index, queue, run, newest, lost>>
    <2>1. TypeOK /\ UNCHANGED <<rows, index, queue, run, newest, lost>>
      BY DEF IndexInv, TypeInv, StartWrite, StartRead, ReadRows, SetEntry, history
    <2>2. req[w] = Idle \/ req[w].op = "read" \/ req[w].op = "set"
      BY DEF StartWrite, StartRead, ReadRows, SetEntry
    <2>3. QED
      BY <2>1, <2>2 DEF Idle, Ops
  <1>2. \A v \in Workers \ {w} : req'[v] = req[v]
    BY <1>1 DEF StartWrite, StartRead, ReadRows, SetEntry, Serve, TypeOK
  <1>3. QED
    BY <1>1, <1>2, IndexRequests DEF Owes

(* A deletion of a key, a refresh, and a request that ends. *)
LEMMA IndexWrites ==
    ASSUME IndexInv, TypeInv', NEW w \in Workers,
           DeleteKey(w) \/ Refresh(w) \/ Abandon(w)
    PROVE  IndexInv'
  <1>0. TypeInv /\ TypeOK /\ UNCHANGED <<rows, index, queue, run, newest>>
    BY DEF IndexInv, TypeInv, DeleteKey, Refresh, Abandon, history
  <1>1. CASE Abandon(w)
    <2>1. \A v \in Workers \ {w} : req'[v] = req[v]
      BY <1>0, <1>1 DEF Abandon, Serve, TypeOK
    <2>2. CASE Owes(req[w], Do("enqueue"))
      <3>1. req[w].hotel \in Hotels
        BY <1>0, <2>2, WriterGood DEF Owes
      <3>2. lost' = [lost EXCEPT ![req[w].hotel] = @ \cup {req[w].version}]
        BY <1>1, <2>2 DEF Abandon
      <3>3. /\ \A h \in Hotels : lost[h] \subseteq lost'[h]
            /\ req[w].version \in lost'[req[w].hotel]
        BY <1>0, <3>1, <3>2 DEF TypeOK
      <3>4. QED
        BY <1>0, <2>1, <3>3, IndexRequests
    <2>3. CASE ~ Owes(req[w], Do("enqueue"))
      <3>1. lost' = lost
        BY <1>1, <2>3 DEF Abandon
      <3>2. QED
        BY <1>0, <2>1, <2>3, <3>1, IndexRequests
    <2>4. QED
      BY <2>2, <2>3
  <1>2. CASE DeleteKey(w) \/ (Refresh(w) /\ Serve(w, Advance(req[w])) /\ UNCHANGED lost)
    <2>1. lost' = lost
      BY <1>2 DEF DeleteKey
    <2>2. /\ req[w] \in Write /\ WriteGood(req[w]) /\ req[w].op \in Ops
          /\ Head(req[w].todo) # Do("commit") /\ Head(req[w].todo) # Do("enqueue")
      <3>1. req[w].op \in Ops /\ Head(req[w].todo).do \in {"delete", "refresh"}
        BY <1>2 DEF DeleteKey, Refresh, At
      <3>2. QED
        BY <1>0, <3>1, WriterGood DEF Do
    <2>3. \A v \in Workers \ {w} : req[v].op \in Ops => req'[v] = req[v]
      <3>1. CASE DeleteKey(w)
        <4>1. PICK k : k = Head(req[w].todo).key
          OBVIOUS
        <4>2. CASE req' = [Overtaken(k) EXCEPT ![w] = Advance(req[w])]
          <5>1. \A v \in Workers \ {w} : req'[v] = Overtaken(k)[v]
            BY <4>2 DEF Overtaken
          <5>2. \A v \in Workers : req[v].op # "set" => Overtaken(k)[v] = req[v]
            BY <1>0, OvertakenTyped
          <5>3. QED
            BY <5>1, <5>2 DEF Ops
        <4>3. CASE Serve(w, Advance(req[w]))
          BY <1>0, <4>3 DEF Serve, TypeOK
        <4>4. QED
          BY <3>1, <4>1, <4>2, <4>3 DEF DeleteKey
      <3>2. CASE Serve(w, Advance(req[w]))
        BY <1>0, <3>2 DEF Serve, TypeOK
      <3>3. QED
        BY <1>2, <3>1, <3>2
    <2>4. req'[w] = Advance(req[w])
      BY <1>0, <1>2 DEF DeleteKey, Serve, TypeOK, Overtaken
    <2>5. Owes(req[w], Do("enqueue")) =>
              /\ Owes(req'[w], Do("enqueue"))
              /\ req'[w].hotel = req[w].hotel /\ req'[w].version = req[w].version
      BY <2>2, <2>4, Advanced
    <2>6. \A v \in Workers : Owes(req[v], Do("enqueue")) =>
              /\ Owes(req'[v], Do("enqueue"))
              /\ req'[v].hotel = req[v].hotel /\ req'[v].version = req[v].version
      BY <2>3, <2>5 DEF Owes
    <2>7. QED
      BY <1>0, <2>1, <2>6, IndexRequests
  <1>3. QED
    BY <1>1, <1>2 DEF Refresh, history

LEMMA IndexEnqueue ==
    ASSUME IndexInv, TypeInv', NEW w \in Workers, Enqueue(w)
    PROVE  IndexInv'
  <1>0. TypeInv /\ TypeOK /\ req' = [req EXCEPT ![w] = Advance(req[w])]
        /\ UNCHANGED <<rows, index, run, newest, lost>>
    BY DEF IndexInv, TypeInv, Enqueue, Serve, history
  <1>1. /\ req[w] \in Write /\ WriteGood(req[w]) /\ req[w].op \in Ops
        /\ req[w].hotel \in Hotels
        /\ Head(req[w].todo) = Do("enqueue") /\ Head(req[w].todo) # Do("commit")
    BY <1>0, WriterGood, HeadDo DEF Enqueue, At
  <1>2. PICK t : t = TaskOf(req[w])
    OBVIOUS
  <1>3. t \in Task /\ t.hotel = req[w].hotel
        /\ t.do = IF req[w].op = "delete" THEN "drop" ELSE "reindex"
    BY <1>1, <1>2 DEF TaskOf, Task
  <1>4. Tasks' = Tasks \cup {t}
    <2>1. queue' = Append(queue, t)
      BY <1>2 DEF Enqueue
    <2>2. Elements(queue') = Elements(queue) \cup {t}
      BY <1>0, <1>3, <2>1, QueueElements DEF TypeOK
    <2>3. QED
      BY <1>0, <2>2 DEF Tasks, Elements
  <1>5. req[w].op = "delete" => rows[req[w].hotel] = Gone
    <2>1. req[w].todo \in Seq(Step) /\ ~ Has(req[w].todo, Do("commit"))
      BY <1>1, StepsGood DEF Write, WriteGood
    <2>2. QED
      BY <1>1, <2>1 DEF WriteGood
  <1>6. TasksGood'
    <2>1. TaskGood(t)'
      BY <1>0, <1>3, <1>5 DEF TaskGood
    <2>2. \A h \in Hotels : rows[h] \in 0..Gone
      BY <1>0 DEF TypeOK
    <2>3. \A h \in Hotels : rows[h] <= rows'[h]
      BY <1>0, <2>2, BoundsAssumption DEF Gone
    <2>4. QED
      BY <1>0, <1>4, <2>1, <2>3, TasksKept DEF IndexInv
  <1>7. ASSUME NEW h \in Hotels
        PROVE  IndexGood(h)'
    <2>1. ASSUME NEW v \in Workers, OwesTask(v, h)
          PROVE  OwesTask(v, h)' \/ BringsCurrent(t, h)'
      <3>1. CASE v # w
        <4>1. req'[v] = req[v]
          BY <1>0, <3>1 DEF TypeOK
        <4>2. QED
          BY <1>0, <2>1, <4>1 DEF OwesTask, Owes, Do
      <3>2. CASE v = w
        <4>1. req[w].hotel = h /\ req[w].version = rows[h] /\ req[w].version # 0
          BY <2>1, <3>2 DEF OwesTask, Owes
        <4>2. rows[h] \in IF req[w].op = "delete" THEN {Gone} ELSE 1..MaxVersion
          BY <1>1, <4>1 DEF WriteGood
        <4>3. t # Resting
          BY <1>3 DEF Resting
        <4>4. BringsCurrent(t, h)
          BY <1>3, <4>1, <4>2, <4>3 DEF BringsCurrent, Exists
        <4>5. QED
          BY <1>0, <4>4 DEF BringsCurrent, Exists
      <3>3. QED
        BY <3>1, <3>2
    <2>2. ASSUME NEW u \in Tasks, BringsCurrent(u, h)
          PROVE  BringsCurrent(u, h)'
      BY <1>0, <2>2 DEF BringsCurrent, Exists
    <2>3. QED
      BY <1>0, <1>4, <2>1, <2>2, HotelKept DEF IndexInv, IndexGood
  <1>8. QED
    BY <1>6, <1>7 DEF IndexInv

(* A commit that changes the row owes a task that will bring the change.   *)
LEMMA IndexCommit ==
    ASSUME IndexInv, TypeInv', NEW w \in Workers, Commit(w)
    PROVE  IndexInv'
  <1>0. TypeInv /\ TypeOK /\ UNCHANGED <<index, queue, run, newest, lost>>
    BY DEF IndexInv, TypeInv, Commit, history
  <1> DEFINE r == req[w]
  <1>1. PICK h0 \in Hotels : h0 = r.hotel
    BY <1>0, Committed
  <1>2. r \in Write /\ r.op \in Ops /\ r.version = 0
    BY <1>0, Committed DEF Write
  <1>3. PICK n \in 0..Gone, x \in Write :
            /\ rows' = [rows EXCEPT ![h0] = n]
            /\ req' = [req EXCEPT ![w] = x]
            /\ x.op = r.op /\ x.hotel = h0
            /\ x.todo = Tail(Steps(r.op, h0))
            /\ x.version = IF n = rows[h0] THEN 0 ELSE n
            /\ n # rows[h0] => n \in IF r.op = "delete" THEN {Gone} ELSE 1..MaxVersion
            /\ rows[h0] <= n
    BY <1>0, <1>1, Committed
  <1>4. /\ rows'[h0] = n /\ \A h \in Hotels \ {h0} : rows'[h] = rows[h]
        /\ req'[w] = x /\ \A v \in Workers \ {w} : req'[v] = req[v]
        /\ \A h \in Hotels : rows[h] \in 0..Gone
    BY <1>0, <1>3 DEF TypeOK
  <1>5. \A h \in Hotels : rows[h] <= rows'[h]
    BY <1>3, <1>4, BoundsAssumption DEF Gone
  <1>6. Tasks' = Tasks
    BY <1>0 DEF Tasks, Elements
  <1>7. TasksGood'
    BY <1>0, <1>5, <1>6, TasksKept DEF IndexInv
  <1>8. ASSUME NEW h \in Hotels
        PROVE  IndexGood(h)'
    <2>1. CASE rows'[h] = rows[h]
      <3>1. ASSUME NEW v \in Workers, OwesTask(v, h)
            PROVE  OwesTask(v, h)'
        <4>1. v # w
          BY <1>2, <3>1 DEF OwesTask, Owes
        <4>2. req'[v] = req[v]
          BY <1>4, <4>1
        <4>3. QED
          BY <2>1, <3>1, <4>2 DEF OwesTask, Owes, Do
      <3>2. ASSUME NEW u \in Tasks, BringsCurrent(u, h)
            PROVE  BringsCurrent(u, h)'
        BY <2>1, <3>2 DEF BringsCurrent, Exists
      <3>3. QED
        BY <1>0, <1>6, <2>1, <3>1, <3>2, HotelKept DEF IndexInv, IndexGood
    <2>2. CASE rows'[h] # rows[h]
      <3>1. h = h0 /\ n # rows[h0] /\ rows'[h] = n
        BY <1>4, <2>2
      <3>2. n # 0
        BY <1>3, <3>1, BoundsAssumption DEF Gone
      <3>3. Has(Tail(Steps(r.op, h0)), Do("enqueue"))
        BY <1>1, <1>2, StepsGood
      <3>4. Owes(x, Do("enqueue")) /\ x.hotel = h /\ x.version = rows'[h]
        BY <1>2, <1>3, <3>1, <3>2, <3>3 DEF Owes, Has
      <3>5. OwesTask(w, h)'
        BY <1>4, <3>4 DEF OwesTask, Owes, Do
      <3>6. Due(h)'
        BY <3>5, DueByTask
      <3>7. newest'[h] <= rows'[h]
        <4>1. newest[h] <= rows[h] /\ newest[h] \in 0..Gone /\ newest'[h] = newest[h]
          BY <1>0 DEF IndexInv, IndexGood, TypeOK
        <4>2. QED
          BY <1>3, <1>4, <3>1, <4>1, BoundsAssumption DEF Gone
      <3>8. QED
        BY <3>1, <3>2, <3>6, <3>7 DEF IndexGood
    <2>3. QED
      BY <2>1, <2>2
  <1>9. QED
    BY <1>7, <1>8 DEF IndexInv

(* A process puts x in the place of its task. *)
LEMMA TasksOfRun ==
    ASSUME TypeOK, NEW c \in Runners, NEW x, run' = [run EXCEPT ![c] = x],
           queue' = queue
    PROVE  /\ x \in Tasks' /\ Tasks' \subseteq Tasks \cup {x}
           /\ \A t \in Tasks : t \in Tasks' \/ t = run[c]
  <1>1. run'[c] = x /\ \A d \in Runners \ {c} : run'[d] = run[d]
    BY DEF TypeOK
  <1>2. Elements(queue') = Elements(queue)
    OBVIOUS
  <1>3. Tasks' = Elements(queue') \cup {run'[d] : d \in Runners}
    BY DEF Tasks, Elements
  <1>4. QED
    BY <1>1, <1>2, <1>3 DEF Tasks

LEMMA RowsStand ==
    ASSUME TypeOK, rows' = rows
    PROVE  \A h \in Hotels : rows[h] <= rows'[h]
  <1>1. \A h \in Hotels : rows[h] \in 0..Gone
    BY DEF TypeOK
  <1>2. QED
    BY <1>1, BoundsAssumption DEF Gone

LEMMA IndexTake ==
    ASSUME IndexInv, TypeInv', NEW c \in Runners, Take(c) \/ ReadHotel(c)
    PROVE  IndexInv'
  <1>0. TypeInv /\ TypeOK /\ run[c] \in Running
        /\ UNCHANGED <<rows, index, req, newest, lost>>
    BY DEF IndexInv, TypeInv, TypeOK, Take, ReadHotel, history
  <1>1. /\ \A t \in Tasks' : t \in Tasks \/ TaskGood(t)
        /\ \A h \in Hotels, t \in Tasks : BringsCurrent(t, h) =>
              \E u \in Tasks' : BringsCurrent(u, h)
    <2>1. CASE Take(c)
      <3>1. run' = [run EXCEPT ![c] = Head(queue)] /\ queue' = Tail(queue) /\ queue # <<>>
            /\ run[c] = Resting
        BY <2>1 DEF Take, Run
      <3>2. Elements(queue) = {Head(queue)} \cup Elements(queue')
        <4>1. queue \in Seq(Task) /\ Head(queue) \in Task
          BY <1>0, <3>1, HeadTailProperties DEF TypeOK
        <4>2. QED
          BY <3>1, <4>1, QueueElements
      <3>3. run'[c] = Head(queue) /\ \A d \in Runners \ {c} : run'[d] = run[d]
        BY <1>0, <3>1 DEF TypeOK
      <3>4. Tasks' = Elements(queue') \cup {run'[d] : d \in Runners}
        BY DEF Tasks, Elements
      <3>5. Tasks' \subseteq Tasks /\ Tasks \subseteq Tasks' \cup {Resting}
        BY <3>1, <3>2, <3>3, <3>4 DEF Tasks
      <3>6. QED
        BY <3>5 DEF BringsCurrent
    <2>2. CASE ReadHotel(c)
      <3>1. PICK h0 \in Hotels : h0 = run[c].hotel
        BY <1>0, <2>2, TaskByDo DEF ReadHotel
      <3>2. PICK x : x = IF Exists(h0)
                         THEN [do |-> "write", hotel |-> h0, version |-> rows[h0]]
                         ELSE Resting
        OBVIOUS
      <3>3. run' = [run EXCEPT ![c] = x] /\ queue' = queue
        BY <2>2, <3>1, <3>2 DEF ReadHotel, Run
      <3>4. /\ x \in Tasks' /\ Tasks' \subseteq Tasks \cup {x}
            /\ \A t \in Tasks : t \in Tasks' \/ t = run[c]
        BY <1>0, <3>3, TasksOfRun
      <3>5. TaskGood(x)
        BY <1>0, <3>1, <3>2, BoundsAssumption DEF TaskGood, Exists, Resting
      <3>6. ASSUME NEW h \in Hotels, BringsCurrent(run[c], h)
            PROVE  BringsCurrent(x, h)
        <4>1. h = h0 /\ Exists(h0)
          BY <2>2, <3>1, <3>6 DEF BringsCurrent, ReadHotel
        <4>2. QED
          BY <3>2, <4>1 DEF BringsCurrent, Resting
      <3>7. QED
        BY <3>4, <3>5, <3>6
    <2>3. QED
      BY <2>1, <2>2
  <1>2. TasksGood'
    <2>1. \A t : TaskGood(t) => TaskGood(t)'
      BY <1>0 DEF TaskGood
    <2>2. QED
      BY <1>0, <1>1, <2>1, RowsStand, TasksKept DEF IndexInv
  <1>3. ASSUME NEW h \in Hotels
        PROVE  IndexGood(h)'
    <2>1. \A w \in Workers : OwesTask(w, h) => OwesTask(w, h)'
      BY <1>0 DEF OwesTask, Owes, Do
    <2>2. \A t : BringsCurrent(t, h) => BringsCurrent(t, h)'
      BY <1>0 DEF BringsCurrent, Exists
    <2>3. \A t \in Tasks : BringsCurrent(t, h) =>
              \E u \in Tasks' : BringsCurrent(u, h)'
      BY <1>1, <2>2
    <2>4. QED
      BY <1>0, <2>1, <2>3, HotelKept DEF IndexInv, IndexGood
  <1>4. QED
    BY <1>2, <1>3 DEF IndexInv

(* Version n of h0 is written to the index, or its indexing is given up.   *)
LEMMA IndexReflect ==
    ASSUME IndexInv, TypeInv', NEW c \in Runners, WriteIndex(c) \/ DropDocument(c)
    PROVE  IndexInv'
  <1>0. TypeInv /\ TypeOK /\ run[c] \in Running
        /\ UNCHANGED <<rows, req, queue>>
    BY DEF IndexInv, TypeInv, TypeOK, WriteIndex, DropDocument
  <1>1. PICK h0 \in Hotels : h0 = run[c].hotel
    BY <1>0, TaskByDo DEF WriteIndex, DropDocument
  <1>2. PICK n : n = IF run[c].do = "write" THEN run[c].version ELSE Gone
    OBVIOUS
  <1>3. /\ Reflect(h0, n) /\ run' = [run EXCEPT ![c] = Resting]
        /\ run[c].do \in {"write", "drop"}
    BY <1>1, <1>2 DEF WriteIndex, DropDocument, Run
  <1>4. TaskGood(run[c])
    BY DEF IndexInv, TasksGood, Tasks
  <1>5. n \in 1..Gone /\ n <= rows[h0]
    <2>1. CASE run[c].do = "write"
      BY <1>0, <1>1, <1>2, <1>4, <2>1, TaskByDo, BoundsAssumption DEF TaskGood, Gone
    <2>2. CASE run[c].do = "drop"
      BY <1>1, <1>2, <1>4, <2>2, BoundsAssumption DEF TaskGood, Gone
    <2>3. QED
      BY <1>3, <2>1, <2>2
  <1>6. \A h \in Hotels : rows[h] \in 0..Gone /\ newest[h] \in 0..Gone
    BY <1>0 DEF TypeOK
  <1>7. /\ Resting \in Tasks' /\ Tasks' \subseteq Tasks \cup {Resting}
        /\ \A t \in Tasks : t \in Tasks' \/ t = run[c]
    BY <1>0, <1>3, TasksOfRun
  <1>8. TasksGood'
    <2>1. TaskGood(Resting)'
      BY DEF TaskGood, Resting
    <2>2. QED
      BY <1>0, <1>7, <2>1, RowsStand, TasksKept DEF IndexInv
  <1>9. ASSUME NEW h \in Hotels
        PROVE  IndexGood(h)'
    <2>1. \A w \in Workers : OwesTask(w, h) => OwesTask(w, h)'
      BY <1>0 DEF OwesTask, Owes, Do
    <2>2. \A t : BringsCurrent(t, h) => BringsCurrent(t, h)'
      BY <1>0 DEF BringsCurrent, Exists
    <2>3. IndexGood(h)
      BY DEF IndexInv
    <2>4. /\ lost[h] \subseteq lost'[h]
          /\ rows[h] = 0 => index'[h] = 0
          /\ newest'[h] <= rows[h]
          /\ newest[h] = rows[h] => newest'[h] = rows[h]
          /\ h = h0 /\ n = rows[h] => rows[h] \in lost'[h] \/ newest'[h] = rows[h]
      <3>1. CASE /\ index' = [index EXCEPT ![h0] = Doc(n)]
                 /\ newest' = [newest EXCEPT ![h0] = Larger(@, n)]
                 /\ UNCHANGED lost
        <4>1. h # h0 => index'[h] = index[h] /\ newest'[h] = newest[h]
          BY <1>0, <3>1 DEF TypeOK
        <4>2. h = h0 => newest'[h] = Larger(newest[h], n)
          BY <1>0, <3>1 DEF TypeOK
        <4>3. h = h0 => rows[h] # 0
          BY <1>5, <1>6, BoundsAssumption DEF Gone
        <4>4. h = h0 => /\ newest'[h] <= rows[h]
                        /\ newest[h] = rows[h] => newest'[h] = rows[h]
                        /\ n = rows[h] => newest'[h] = rows[h]
          BY <1>5, <1>6, <2>3, <4>2, BoundsAssumption DEF IndexGood, Larger, Gone
        <4>5. QED
          BY <2>3, <3>1, <4>1, <4>3, <4>4 DEF IndexGood
      <3>2. CASE /\ lost' = [lost EXCEPT ![h0] = @ \cup {n}]
                 /\ UNCHANGED <<index, newest>>
        BY <1>0, <2>3, <3>2 DEF IndexGood, TypeOK
      <3>3. QED
        BY <1>3, <3>1, <3>2 DEF Reflect
    <2>5. BringsCurrent(run[c], h) => h = h0 /\ n = rows[h]
      BY <1>1, <1>2, <1>3 DEF BringsCurrent
    <2>6. \A t \in Tasks : BringsCurrent(t, h) =>
              \/ \E u \in Tasks' : BringsCurrent(u, h)'
              \/ rows[h] \in lost'[h]
              \/ newest'[h] = rows[h]
      BY <1>7, <2>2, <2>4, <2>5
    <2>7. QED
      BY <1>0, <2>1, <2>3, <2>4, <2>6, HotelKept
  <1>10. QED
    BY <1>8, <1>9 DEF IndexInv

(* The task of a process that dies is delivered again or given up. *)
LEMMA IndexCrash ==
    ASSUME IndexInv, TypeInv', NEW c \in Runners, CrashRunner(c)
    PROVE  IndexInv'
  <1>0. TypeInv /\ TypeOK /\ run[c] \in Running /\ run[c] # Resting
        /\ UNCHANGED <<rows, index, req, newest>>
        /\ run' = [run EXCEPT ![c] = Resting]
    BY DEF IndexInv, TypeInv, TypeOK, CrashRunner, Run
  <1>1. PICK h0 \in Hotels : h0 = run[c].hotel
    BY <1>0, TaskByDo
  <1>2. PICK a \in Task : a = Again(run[c])
    BY <1>0, TaskByDo DEF Again, Task
  <1>3. /\ a.hotel = h0 /\ a # Resting
        /\ a.do = IF run[c].do = "drop" THEN "drop" ELSE "reindex"
        /\ run[c].do \in {"reindex", "write", "drop"}
    BY <1>0, <1>1, <1>2, TaskByDo DEF Again, Resting, Task
  <1>4. TaskGood(run[c])
    BY DEF IndexInv, TasksGood, Tasks
  <1>5. TaskGood(a)
    BY <1>1, <1>3, <1>4 DEF TaskGood
  <1>6. ASSUME NEW h \in Hotels, BringsCurrent(run[c], h)
        PROVE  BringsCurrent(a, h) /\ h = h0 /\ Carries(run[c]) = rows[h]
    <2>1. h = h0 /\ CASE run[c].do = "reindex" -> Exists(h)
                      [] run[c].do = "write" -> run[c].version = rows[h]
                      [] run[c].do = "drop" -> rows[h] = Gone
      BY <1>1, <1>6 DEF BringsCurrent
    <2>2. CASE run[c].do = "write"
      <3>1. run[c].version = rows[h] /\ run[c].version \in 1..MaxVersion
        BY <1>0, <2>1, <2>2, TaskByDo
      <3>2. QED
        BY <1>3, <2>1, <2>2, <3>1 DEF BringsCurrent, Carries, Exists
    <2>3. CASE run[c].do = "reindex"
      BY <1>1, <1>3, <2>1, <2>3 DEF BringsCurrent, Carries
    <2>4. CASE run[c].do = "drop"
      BY <1>3, <2>1, <2>4 DEF BringsCurrent, Carries
    <2>5. QED
      BY <1>3, <2>2, <2>3, <2>4
  <1>7. CASE /\ queue' \in {Append(queue, Again(run[c])), <<Again(run[c])>> \o queue}
             /\ UNCHANGED lost
    <2>1. Elements(queue') = Elements(queue) \cup {a}
      BY <1>0, <1>2, <1>7, QueueElements DEF TypeOK
    <2>2. run'[c] = Resting /\ \A d \in Runners \ {c} : run'[d] = run[d]
      BY <1>0 DEF TypeOK
    <2>3. Tasks' = Elements(queue') \cup {run'[d] : d \in Runners}
      BY DEF Tasks, Elements
    <2>4. /\ a \in Tasks' /\ Tasks' \subseteq Tasks \cup {a, Resting}
          /\ \A t \in Tasks : t \in Tasks' \/ t = run[c]
      BY <2>1, <2>2, <2>3 DEF Tasks
    <2>5. TasksGood'
      <3>1. TaskGood(Resting)' /\ TaskGood(a)'
        BY <1>0, <1>5 DEF TaskGood, Resting
      <3>2. QED
        BY <1>0, <2>4, <3>1, RowsStand, TasksKept DEF IndexInv
    <2>6. ASSUME NEW h \in Hotels
          PROVE  IndexGood(h)'
      <3>1. \A w \in Workers : OwesTask(w, h) => OwesTask(w, h)'
        BY <1>0 DEF OwesTask, Owes, Do
      <3>2. \A t : BringsCurrent(t, h) => BringsCurrent(t, h)'
        BY <1>0 DEF BringsCurrent, Exists
      <3>3. \A t \in Tasks : BringsCurrent(t, h) =>
                \E u \in Tasks' : BringsCurrent(u, h)'
        BY <1>6, <2>4, <3>2
      <3>4. QED
        BY <1>0, <1>7, <3>1, <3>3, HotelKept DEF IndexInv, IndexGood
    <2>7. QED
      BY <2>5, <2>6 DEF IndexInv
  <1>8. CASE /\ lost' = [lost EXCEPT ![run[c].hotel] = @ \cup {Carries(run[c])}]
             /\ UNCHANGED queue
    <2>1. /\ Resting \in Tasks' /\ Tasks' \subseteq Tasks \cup {Resting}
          /\ \A t \in Tasks : t \in Tasks' \/ t = run[c]
      BY <1>0, <1>8, TasksOfRun
    <2>2. TasksGood'
      <3>1. TaskGood(Resting)'
        BY DEF TaskGood, Resting
      <3>2. QED
        BY <1>0, <2>1, <3>1, RowsStand, TasksKept DEF IndexInv
    <2>3. PICK n : n = Carries(run[c])
      OBVIOUS
    <2>4. lost' = [lost EXCEPT ![h0] = @ \cup {n}]
      BY <1>1, <1>8, <2>3
    <2>5. ASSUME NEW h \in Hotels
          PROVE  IndexGood(h)'
      <3>1. \A w \in Workers : OwesTask(w, h) => OwesTask(w, h)'
        BY <1>0 DEF OwesTask, Owes, Do
      <3>2. \A t : BringsCurrent(t, h) => BringsCurrent(t, h)'
        BY <1>0 DEF BringsCurrent, Exists
      <3>3. lost[h] \subseteq lost'[h] /\ (h = h0 => n \in lost'[h])
        BY <1>0, <2>4 DEF TypeOK
      <3>4. BringsCurrent(run[c], h) => rows[h] \in lost'[h]
        BY <1>6, <2>3, <3>3
      <3>5. \A t \in Tasks : BringsCurrent(t, h) =>
                \/ \E u \in Tasks' : BringsCurrent(u, h)'
                \/ rows[h] \in lost'[h]
        BY <2>1, <3>2, <3>4
      <3>6. QED
        BY <1>0, <3>1, <3>3, <3>5, HotelKept DEF IndexInv, IndexGood
    <2>6. QED
      BY <2>2, <2>5 DEF IndexInv
  <1>9. QED
    BY <1>7, <1>8 DEF CrashRunner

LEMMA IndexInit == Init => IndexInv
  <1> SUFFICES ASSUME Init PROVE IndexInv
    OBVIOUS
  <1>1. Tasks \subseteq {Resting}
    BY DEF Init, Tasks, Elements
  <1>2. TasksGood
    BY <1>1 DEF TasksGood, TaskGood, Resting
  <1>3. \A h \in Hotels : IndexGood(h)
    BY DEF Init, IndexGood
  <1>4. QED
    BY <1>2, <1>3, TypeInvInit DEF IndexInv

LEMMA IndexNext ==
    ASSUME IndexInv, [Next]_vars
    PROVE  IndexInv'
  <1>0. TypeInv /\ TypeInv'
    BY TypeInvNext DEF IndexInv
  <1>1. ASSUME NEW w \in Workers, Start(w) \/ Continue(w) \/ Fail(w)
        PROVE  IndexInv'
    BY <1>0, <1>1, IndexReads, IndexWrites, IndexEnqueue, IndexCommit
    DEF Start, Continue, Fail
  <1>2. ASSUME NEW c \in Runners, Process(c) \/ CrashRunner(c)
        PROVE  IndexInv'
    BY <1>0, <1>2, IndexTake, IndexReflect, IndexCrash DEF Process
  <1>3. CASE (\E k \in Keys : Expire(k)) \/ UNCHANGED vars
    <2>1. UNCHANGED <<rows, index, queue, run, newest, lost, req>>
      BY <1>3 DEF Expire, history, vars
    <2>2. QED
      BY <1>0, <2>1, IndexRequests
  <1>4. QED
    BY <1>1, <1>2, <1>3 DEF Next

(* When the index differs from a hotel's row, the task that corrects it is *)
(* still to come, or indexing that version failed and was swallowed, or    *)
(* the index did hold it and an older task wrote later: no interleaving of *)
(* the writes with any number of Celery processes, which may crash and be  *)
(* sent their task again, loses a correction in another way.               *)
THEOREM DocumentsExplained == Spec => []IndexExplained
  <1>1. ASSUME IndexInv, NEW h \in Hotels
        PROVE  InSync(h) \/ Due(h) \/ GivenUp(h) \/ Overwritten(h)
    <2>1. CASE rows[h] = 0
      <3>1. index[h] = 0 /\ Doc(rows[h]) = 0
        BY <1>1, <2>1, BoundsAssumption DEF IndexInv, IndexGood, Doc, Gone
      <3>2. QED
        BY <3>1 DEF InSync
    <2>2. CASE rows[h] # 0
      BY <1>1, <2>2 DEF IndexInv, IndexGood
    <2>3. QED
      BY <2>1, <2>2
  <1>2. IndexInv => IndexExplained
    BY <1>1 DEF IndexExplained
  <1>3. QED
    BY <1>2, IndexInit, IndexNext, PTL DEF Spec

=============================================================================
