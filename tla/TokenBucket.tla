---------------------------- MODULE TokenBucket ----------------------------
(***************************************************************************)
(* The rate limiter of components/token_bucket.py: one bucket, that is one *)
(* client and one path.  A call reads the wall clock, sends the reading to *)
(* Redis and there a Lua script refills the bucket up to that reading and  *)
(* takes the cost of a request out of it, atomically.  Between the reading *)
(* and the script other calls may run, with later readings.                *)
(*                                                                         *)
(* Time is counted in ticks and tokens in a unit that makes rate and cost  *)
(* whole numbers.  All processes share one clock; a process whose clock is *)
(* slow is a call that is late.                                            *)
(***************************************************************************)
EXTENDS Integers, Sequences

CONSTANTS
    Workers,   \* the server processes, each making one call at a time
    Capacity,  \* tokens in a full bucket
    Rate,      \* tokens added per tick
    Cost,      \* tokens a request takes
    Ttl,       \* ticks after its last use at which Redis drops the bucket
    MaxDelay,  \* ticks from a reading to its script, at most
    MaxClock   \* bound: the last tick

ASSUME RateAssumption == Capacity \in Nat /\ Rate \in Nat
ASSUME CostAssumption == Cost \in Nat \ {0} /\ Cost <= Capacity
ASSUME TimesAssumption == Ttl \in Nat /\ MaxDelay \in Nat /\ MaxClock \in Nat

(* ROUTE_CONFIGS and EXPIRE 3600: a bucket that is dropped would have been *)
(* full again.                                                             *)
ASSUME TtlAssumption == Ttl > MaxDelay /\ Rate * (Ttl - MaxDelay) >= Capacity

VARIABLES
    clock,       \* the wall clock
    bucket,      \* the Redis hash, or NoBucket
    expiresAt,   \* when Redis drops it
    req,         \* req[w]: the call worker w is making
    \* History variables: no action reads them.
    last,        \* the reading of the last script, dropped bucket or not
    rewound,     \* by how much readings have gone back, in total
    admissions   \* the effective times of the admitted requests

vars == <<clock, bucket, expiresAt, req, last, rewound, admissions>>

NoBucket == [tokens |-> -1]

Idle == [pc |-> "idle"]

Call == [pc : {"call"}, now : Nat]

TypeOK ==
    /\ clock \in 0..MaxClock
    /\ bucket \in [tokens : 0..Capacity, last_refill : Nat] \cup {NoBucket}
    /\ expiresAt \in Nat
    /\ req \in [Workers -> Call \cup {Idle}]
    /\ last \in Nat
    /\ rewound \in Nat
    /\ admissions \in Seq(Nat)

Init ==
    /\ clock = 0
    /\ bucket = NoBucket
    /\ expiresAt = 0
    /\ req = [w \in Workers |-> Idle]
    /\ last = 0
    /\ rewound = 0
    /\ admissions = <<>>

-----------------------------------------------------------------------------
(* is_allowed reads time.time() as an argument of the script. *)
ReadClock(w) ==
    /\ req[w] = Idle
    /\ req' = [req EXCEPT ![w] = [pc |-> "call", now |-> clock]]
    /\ UNCHANGED <<clock, bucket, expiresAt, last, rewound, admissions>>

AtLeastZero(n) == IF n > 0 THEN n ELSE 0

AtMostFull(n) == IF n < Capacity THEN n ELSE Capacity

(* Mistake: the refill is not capped. *)
RefilledBeyond(now) ==
    IF bucket = NoBucket THEN Capacity
    ELSE bucket.tokens + AtLeastZero(now - bucket.last_refill) * Rate

(* The bucket after its refill up to a reading; a new bucket is full.      *)
Refilled(now) ==
    IF bucket = NoBucket THEN Capacity
    ELSE AtMostFull(bucket.tokens + AtLeastZero(now - bucket.last_refill) * Rate)

(* Mistake: the time of the refill is not stored with it. *)
StoreTokens(tokens, now) ==
    /\ bucket' = [tokens |-> tokens,
                   last_refill |-> IF bucket = NoBucket THEN now
                                   ELSE bucket.last_refill]
    /\ expiresAt' = clock + Ttl

Store(tokens, now) ==
    /\ bucket' = [tokens |-> tokens, last_refill |-> now]
    /\ expiresAt' = clock + Ttl

(* The time by which the bucket really runs: readings that go back are     *)
(* refilled for a second time.                                             *)
Effective(now) == now + rewound + AtLeastZero(last - now)

(* Mistake: a refused request is charged for all the same. *)
ChargeRefused(w) ==
    LET now == req[w].now IN
    /\ req[w].pc = "call"
    /\ \/ /\ Refilled(now) < Cost
          /\ Store(0, now)
          /\ UNCHANGED admissions
       \/ /\ Refilled(now) >= Cost
          /\ Store(Refilled(now) - Cost, now)
          /\ admissions' = Append(admissions, Effective(now))
    /\ rewound' = rewound + AtLeastZero(last - now)
    /\ last' = now
    /\ req' = [req EXCEPT ![w] = Idle]
    /\ UNCHANGED clock

(* The Lua script.  When its reply is lost the request is let through,     *)
(* which leaves the same bucket behind.                                    *)
RunScript(w) ==
    LET now == req[w].now IN
    /\ req[w].pc = "call"
    /\ \/ /\ Refilled(now) < Cost
          /\ Store(Refilled(now), now)
          /\ UNCHANGED admissions
       \/ /\ Refilled(now) >= Cost
          /\ Store(Refilled(now) - Cost, now)
          /\ admissions' = Append(admissions, Effective(now))
    /\ rewound' = rewound + AtLeastZero(last - now)
    /\ last' = now
    /\ req' = [req EXCEPT ![w] = Idle]
    /\ UNCHANGED clock

(* Redis cannot be reached: the request is let through and not counted.    *)
FailOpen(w) ==
    /\ req[w].pc = "call"
    /\ req' = [req EXCEPT ![w] = Idle]
    /\ UNCHANGED <<clock, bucket, expiresAt, last, rewound, admissions>>

(* Time passes; Redis drops a bucket that has not been used for Ttl.       *)
Tick ==
    /\ clock < MaxClock
    /\ \A w \in Workers : req[w].pc = "call" => clock - req[w].now < MaxDelay
    /\ clock' = clock + 1
    /\ bucket' = IF clock + 1 >= expiresAt THEN NoBucket ELSE bucket
    /\ UNCHANGED <<expiresAt, req, last, rewound, admissions>>

Next ==
    \/ \E w \in Workers : ReadClock(w) \/ RunScript(w) \/ FailOpen(w)
    \/ Tick

Spec == Init /\ [][Next]_vars

-----------------------------------------------------------------------------
(* Properties. *)

(* The i-th and all later admissions, and extra tokens, are within what a  *)
(* bucket that was full at the i-th can give by a later time.              *)
Within(i, extra, time) ==
    (Len(admissions) - i + 1) * Cost + extra <=
        Capacity + Rate * (time - admissions[i])

(* The rate: between any two admitted requests no more are admitted than a *)
(* full bucket and the refill since the first allow.  Time is the time by  *)
(* which the bucket runs, so this is the wall clock's rate as long as no   *)
(* reading overtakes another.                                              *)
WithinRate ==
    \A i, j \in 1..Len(admissions) :
        i <= j => (j - i + 1) * Cost <=
                      Capacity + Rate * (admissions[j] - admissions[i])

Justified(w) ==
    RunScript(w) /\ admissions' = admissions =>
        \E i \in 1..Len(admissions) : ~ Within(i, Cost, Effective(req[w].now))

AllJustified == \A w \in Workers : Justified(w)

(* The limiter is not stricter than its rate either: the script refuses a  *)
(* request only when admitting it would break the rate, however calls are  *)
(* delayed or overtake each other.                                         *)
RefusesOnlyOverRate == [][AllJustified]_vars

(* token_bucket.py: "no race condition is possible" and "no double-        *)
(* counting across replicas": the bucket runs by the wall clock, so no     *)
(* admission has more refill behind it than time has passed.               *)
NoDoubleCounting ==
    Len(admissions) * Cost <= Capacity + Rate * clock
=============================================================================
