------------------------- MODULE TokenBucketProofs -------------------------
(***************************************************************************)
(* Proofs about TokenBucket.  The readings of the scripts, corrected by    *)
(* what they have gone back in total, are a clock that never goes back;    *)
(* against it the script is an exact token bucket.  The invariant says so  *)
(* from both sides: the tokens in the bucket are at most what every        *)
(* admission leaves of them (Upper) and at least what one of them leaves   *)
(* (Lower).  A dropped bucket would have been full (Dropped).              *)
(***************************************************************************)
EXTENDS TokenBucket, TLAPS

Elapsed == last + rewound

Count(i) == Len(admissions) - i + 1

Ordered ==
    /\ last <= clock
    /\ \A w \in Workers : req[w].pc = "call" => req[w].now <= clock

Stored ==
    bucket # NoBucket => bucket.last_refill = last /\ expiresAt >= last + Ttl

Dropped ==
    bucket = NoBucket /\ admissions # <<>> =>
        /\ clock - last >= Ttl - MaxDelay
        /\ \A w \in Workers :
               req[w].pc = "call" => req[w].now - last >= Ttl - MaxDelay

Upper ==
    \A i \in 1..Len(admissions) :
        Within(i, IF bucket = NoBucket THEN 0 ELSE bucket.tokens, Elapsed)

Lower ==
    bucket # NoBucket =>
        \E i \in 1..Len(admissions) :
            Count(i) * Cost + bucket.tokens >= Capacity + Rate * (Elapsed - admissions[i])

MeterInv == Ordered /\ Stored /\ Dropped /\ Upper /\ Lower /\ WithinRate

IInv == TypeOK /\ MeterInv

-----------------------------------------------------------------------------
(* Arithmetic. *)

(* Time that passes adds its refill. *)
LEMMA RefillAdds ==
    ASSUME NEW r \in Int, NEW x \in Int, NEW y \in Int
    PROVE  r * (x + y) = r * x + y * r
OBVIOUS

(* One more admission costs one more Cost. *)
LEMMA OneMore ==
    ASSUME NEW n \in Int, NEW c \in Int
    PROVE  (n + 1) * c = n * c + c
OBVIOUS

LEMMA Products ==
    ASSUME NEW x \in Int, NEW y \in Int
    PROVE  x * y \in Int
OBVIOUS

(* A longer time is refilled with no less. *)
LEMMA Monotone ==
    ASSUME NEW r \in Nat, NEW x \in Int, NEW y \in Int, x <= y
    PROVE  r * x <= r * y
<1>1. PICK d \in Nat : y = x + d
  <2>1. y - x \in Nat /\ y = x + (y - x)
    OBVIOUS
  <2> QED
    BY <2>1
<1>2. r * y = r * x + d * r
  BY <1>1, RefillAdds
<1>3. d * r >= 0
  BY <1>1
<1> QED
  BY <1>2, <1>3, Products
-----------------------------------------------------------------------------
(* Facts about one run of the script. *)

(* The bucket's clock goes on by what the reading adds, and never back.    *)
LEMMA EffectiveTime ==
    ASSUME TypeOK, NEW now \in Nat
    PROVE  /\ Effective(now) \in Nat
           /\ Effective(now) = Elapsed + AtLeastZero(now - last)
           /\ AtLeastZero(now - last) \in Nat
           /\ Effective(now) = now + (rewound + AtLeastZero(last - now))
           /\ rewound + AtLeastZero(last - now) \in Nat
BY DEF TypeOK, Effective, Elapsed, AtLeastZero

(* What the script finds after its refill. *)
LEMMA RefilledBounds ==
    ASSUME IInv, NEW w \in Workers, req[w].pc = "call"
    PROVE  LET now == req[w].now IN
           /\ now \in Nat
           /\ Refilled(now) \in 0..Capacity
           /\ \A i \in 1..Len(admissions) : Within(i, Refilled(now), Effective(now))
           /\ Refilled(now) # Capacity =>
                 \E i \in 1..Len(admissions) :
                     Count(i) * Cost + Refilled(now) >=
                         Capacity + Rate * (Effective(now) - admissions[i])
<1> USE RateAssumption, CostAssumption
<1> DEFINE now == req[w].now
           d == AtLeastZero(now - last)
<1>1. now \in Nat
  <2>1. req[w] \in Call \cup {Idle}
    BY DEF IInv, TypeOK
  <2>2. req[w] \in Call
    BY <2>1 DEF Idle
  <2> QED
    BY <2>2 DEF Call
<1>2. /\ last \in Nat /\ rewound \in Nat /\ clock \in Nat
      /\ admissions \in Seq(Nat) /\ Len(admissions) \in Nat
      /\ \A i \in 1..Len(admissions) : admissions[i] \in Nat
  BY DEF IInv, TypeOK
<1>3. /\ d \in Nat /\ Effective(now) = Elapsed + d
      /\ Elapsed \in Nat /\ Effective(now) \in Nat
  <2>1. Elapsed \in Nat
    BY <1>2 DEF Elapsed
  <2>2. TypeOK
    BY DEF IInv
  <2> QED
    BY <2>1, <2>2, <1>1, EffectiveTime
<1>4. \A i \in 1..Len(admissions) :
         /\ Count(i) \in Nat /\ Count(i) * Cost \in Int
         /\ Elapsed - admissions[i] \in Int
         /\ Rate * (Elapsed - admissions[i]) \in Int
  <2> TAKE i \in 1..Len(admissions)
  <2>1. Count(i) \in Nat /\ Elapsed - admissions[i] \in Int
    BY <1>2, <1>3 DEF Count
  <2> QED
    BY <2>1, Products
<1>5. d * Rate \in Nat
  BY <1>3
<1>6. \A i \in 1..Len(admissions) :
         Rate * (Effective(now) - admissions[i]) =
             Rate * (Elapsed - admissions[i]) + d * Rate
  <2> TAKE i \in 1..Len(admissions)
  <2>1. Effective(now) - admissions[i] = (Elapsed - admissions[i]) + d
    BY <1>2, <1>3
  <2> QED
    BY <2>1, <1>3, <1>4, RefillAdds
<1> HIDE DEF now, d
<1>7. CASE bucket # NoBucket
  <2>1. bucket.tokens \in 0..Capacity /\ bucket.last_refill = last
    BY <1>7 DEF IInv, TypeOK, MeterInv, Stored
  <2>2. Refilled(now) = AtMostFull(bucket.tokens + d * Rate)
    BY <1>7, <2>1 DEF Refilled, d
  <2>3. /\ Refilled(now) \in 0..Capacity
        /\ Refilled(now) <= bucket.tokens + d * Rate
        /\ Refilled(now) # Capacity => Refilled(now) = bucket.tokens + d * Rate
    BY <2>1, <2>2, <1>5 DEF AtMostFull
  <2>4. ASSUME NEW i \in 1..Len(admissions)
        PROVE  Within(i, Refilled(now), Effective(now))
    <3>1. Within(i, bucket.tokens, Elapsed)
      BY <1>7 DEF IInv, MeterInv, Upper
    <3>2. Count(i) * Cost + bucket.tokens <= Capacity + Rate * (Elapsed - admissions[i])
      BY <3>1 DEF Within, Count
    <3> DEFINE c == Count(i) * Cost
               x == Rate * (Elapsed - admissions[i])
               y == Rate * (Effective(now) - admissions[i])
               g == d * Rate
    <3>4. c \in Int /\ x \in Int /\ g \in Nat /\ y = x + g
      BY <1>4, <1>5, <1>6
    <3> HIDE DEF c, x, y, g
    <3>5. c + bucket.tokens <= Capacity + x
      BY <3>2 DEF c, x
    <3>6. Refilled(now) <= bucket.tokens + g
      BY <2>3 DEF g
    <3>3. c + Refilled(now) <= Capacity + y
      BY <3>4, <3>5, <3>6, <2>1, <2>3
    <3> QED
      BY <3>3 DEF Within, Count, c, y
  <2>5. ASSUME Refilled(now) # Capacity
        PROVE  \E i \in 1..Len(admissions) :
                   Count(i) * Cost + Refilled(now) >=
                       Capacity + Rate * (Effective(now) - admissions[i])
    <3>1. PICK i \in 1..Len(admissions) :
             Count(i) * Cost + bucket.tokens >= Capacity + Rate * (Elapsed - admissions[i])
      BY <1>7 DEF IInv, MeterInv, Lower
    <3> DEFINE c == Count(i) * Cost
               x == Rate * (Elapsed - admissions[i])
               y == Rate * (Effective(now) - admissions[i])
               g == d * Rate
    <3>4. c \in Int /\ x \in Int /\ g \in Nat /\ y = x + g
      BY <1>4, <1>5, <1>6
    <3> HIDE DEF c, x, y, g
    <3>5. c + bucket.tokens >= Capacity + x
      BY <3>1 DEF c, x
    <3>6. Refilled(now) = bucket.tokens + g
      BY <2>3, <2>5 DEF g
    <3>2. c + Refilled(now) >= Capacity + y
      BY <3>4, <3>5, <3>6, <2>1
    <3> QED
      BY <3>2 DEF c, y
  <2> QED
    BY <1>1, <2>3, <2>4, <2>5 DEF now
<1>8. CASE bucket = NoBucket
  <2>1. Refilled(now) = Capacity
    BY <1>8 DEF Refilled
  <2>2. ASSUME NEW i \in 1..Len(admissions)
        PROVE  Within(i, Refilled(now), Effective(now))
    <3>1. admissions # <<>>
      BY <1>2
    <3>2. now - last >= Ttl - MaxDelay
      BY <1>8, <3>1 DEF IInv, MeterInv, Dropped, now
    <3>3. d >= Ttl - MaxDelay /\ Ttl - MaxDelay \in Int
      BY <3>2, <1>1, <1>2, TimesAssumption DEF d, AtLeastZero, now
    <3>4. d * Rate >= Capacity
      <4>1. Rate * (Ttl - MaxDelay) <= Rate * d
        BY <3>3, <1>3, Monotone
      <4>2. Rate * d = d * Rate
        BY <1>3
      <4>3. Rate * (Ttl - MaxDelay) \in Int
        BY <3>3, Products
      <4> QED
        BY <4>1, <4>2, <4>3, <1>5, TtlAssumption
    <3>5. Within(i, 0, Elapsed)
      BY <1>8 DEF IInv, MeterInv, Upper
    <3>6. Count(i) * Cost <= Capacity + Rate * (Elapsed - admissions[i])
      BY <3>5, <1>4 DEF Within, Count
    <3>7. Count(i) * Cost + Capacity <=
              Capacity + Rate * (Effective(now) - admissions[i])
      BY <3>4, <3>6, <1>4, <1>5, <1>6
    <3> QED
      BY <3>7, <2>1 DEF Within, Count
  <2> QED
    BY <1>1, <2>1, <2>2 DEF now
<1> QED
  BY <1>7, <1>8
-----------------------------------------------------------------------------
(* The invariant. *)

LEMMA InitEstablishes == Init => IInv
<1> SUFFICES ASSUME Init PROVE IInv
  OBVIOUS
<1> USE RateAssumption, CostAssumption, TimesAssumption DEF Init
<1>1. admissions \in Seq(Nat) /\ Len(admissions) = 0
  OBVIOUS
<1>2. TypeOK
  BY <1>1 DEF TypeOK
<1>3. Ordered /\ Stored /\ Dropped
  BY DEF Ordered, Stored, Dropped, Idle
<1>4. Upper /\ Lower /\ WithinRate
  BY <1>1 DEF Upper, Lower, WithinRate
<1> QED
  BY <1>2, <1>3, <1>4 DEF IInv, MeterInv

(* A refusal only stores the refill. *)
LEMMA RefusalPreserves ==
    ASSUME IInv, NEW w \in Workers, RunScript(w), Refilled(req[w].now) < Cost
    PROVE  Upper' /\ Lower' /\ WithinRate' /\ admissions' = admissions
<1> DEFINE now == req[w].now
<1>1. /\ admissions' = admissions
      /\ bucket' = [tokens |-> Refilled(now), last_refill |-> now]
      /\ Elapsed' = Effective(now)
  <2>1. now \in Nat /\ Refilled(now) \in 0..Capacity
    BY RefilledBounds DEF RunScript
  <2>2. ~ (Refilled(now) >= Cost)
    BY <2>1, RateAssumption, CostAssumption
  <2>3. admissions' = admissions /\ Store(Refilled(now), now)
    BY <2>2 DEF RunScript
  <2>4. last' = now /\ rewound' = rewound + AtLeastZero(last - now)
    BY DEF RunScript
  <2>5. TypeOK
    BY DEF IInv
  <2> QED
    BY <2>1, <2>3, <2>4, <2>5, EffectiveTime DEF Store, Elapsed
<1>2. bucket' # NoBucket /\ bucket'.tokens = Refilled(now)
  <2>1. Refilled(now) # -1
    BY RefilledBounds, RateAssumption DEF RunScript
  <2> QED
    BY <1>1, <2>1 DEF NoBucket
<1>3. Upper'
  <2>1. \A i \in 1..Len(admissions) : Within(i, Refilled(now), Effective(now))
    BY RefilledBounds DEF RunScript
  <2> QED
    BY <1>1, <1>2, <2>1 DEF Upper, Within
<1>4. Lower'
  <2>1. \E i \in 1..Len(admissions) :
           Count(i) * Cost + Refilled(now) >=
               Capacity + Rate * (Effective(now) - admissions[i])
    BY RefilledBounds, RateAssumption, CostAssumption DEF RunScript
  <2> QED
    BY <1>1, <1>2, <2>1 DEF Lower, Count
<1>5. WithinRate'
  BY <1>1 DEF WithinRate, IInv, MeterInv
<1> QED
  BY <1>1, <1>3, <1>4, <1>5

(* An admission takes from the bucket what it adds to the count.           *)
LEMMA AdmissionPreserves ==
    ASSUME IInv, NEW w \in Workers, RunScript(w), ~ (Refilled(req[w].now) < Cost)
    PROVE  /\ Upper' /\ Lower' /\ WithinRate'
           /\ admissions' \in Seq(Nat)
           /\ admissions' # <<>>
<1> USE RateAssumption, CostAssumption
<1> DEFINE now == req[w].now
           e == Effective(now)
           f == Refilled(now)
           n == Len(admissions)
<1>1. /\ now \in Nat /\ f \in Cost..Capacity /\ e \in Nat
      /\ \A i \in 1..n : Within(i, f, e)
  <2>1. /\ now \in Nat /\ f \in 0..Capacity
        /\ \A i \in 1..n : Within(i, f, e)
    BY RefilledBounds DEF RunScript
  <2>2. TypeOK
    BY DEF IInv
  <2>3. e \in Nat
    BY <2>1, <2>2, EffectiveTime
  <2> QED
    BY <2>1, <2>3
<1>2. /\ admissions' = Append(admissions, e)
      /\ bucket' = [tokens |-> f - Cost, last_refill |-> now]
      /\ Elapsed' = e
  <2>1. admissions' = Append(admissions, e) /\ Store(f - Cost, now)
    BY DEF RunScript
  <2>2. last' = now /\ rewound' = rewound + AtLeastZero(last - now)
    BY DEF RunScript
  <2>3. TypeOK
    BY DEF IInv
  <2> QED
    BY <1>1, <2>1, <2>2, <2>3, EffectiveTime DEF Store, Elapsed
<1> HIDE DEF now, e, f
<1>3. bucket' # NoBucket /\ bucket'.tokens = f - Cost /\ f - Cost \in Nat
  <2>1. f - Cost \in Nat
    BY <1>1
  <2> QED
    BY <1>2, <2>1 DEF NoBucket
<1>4. /\ admissions \in Seq(Nat) /\ n \in Nat
      /\ \A i \in 1..n : admissions[i] \in Nat
  BY DEF IInv, TypeOK
<1>5. /\ admissions' \in Seq(Nat) /\ Len(admissions') = n + 1
      /\ admissions'[n + 1] = e
      /\ \A i \in 1..n : admissions'[i] = admissions[i]
  BY <1>1, <1>2, <1>4
<1>6. \A i \in 1..n :
         /\ (n - i + 1) * Cost + f <= Capacity + Rate * (e - admissions[i])
         /\ (n + 1 - i + 1) * Cost = (n - i + 1) * Cost + Cost
         /\ (n - i + 1) * Cost \in Int
         /\ Rate * (e - admissions[i]) \in Int
  <2> TAKE i \in 1..n
  <2>1. (n - i + 1) * Cost + f <= Capacity + Rate * (e - admissions[i])
    BY <1>1 DEF Within
  <2>2. n - i + 1 \in Int /\ e - admissions[i] \in Int /\ n + 1 - i + 1 = (n - i + 1) + 1
    BY <1>1, <1>4
  <2> QED
    BY <2>1, <2>2, OneMore, Products
<1>7. Rate * (e - e) = 0 /\ (n + 1 - (n + 1) + 1) * Cost = Cost
  <2>1. e - e = 0 /\ n + 1 - (n + 1) + 1 = 1
    BY <1>1, <1>4
  <2> QED
    BY <2>1
<1>8. ASSUME NEW i \in 1..(n + 1)
      PROVE  (n + 1 - i + 1) * Cost + (f - Cost) <= Capacity + Rate * (e - admissions'[i])
  <2>1. CASE i = n + 1
    BY <1>1, <1>5, <1>7, <2>1
  <2>2. CASE i # n + 1
    <3>1. i \in 1..n
      BY <1>4, <2>2
    <3> DEFINE c == (n - i + 1) * Cost
               x == Rate * (e - admissions[i])
    <3>2. c \in Int /\ x \in Int /\ c + f <= Capacity + x
          /\ (n + 1 - i + 1) * Cost = c + Cost
      BY <1>6, <3>1
    <3>3. x = Rate * (e - admissions'[i])
      BY <1>5, <3>1
    <3> HIDE DEF c, x
    <3> QED
      BY <1>1, <3>2, <3>3
  <2> QED
    BY <2>1, <2>2
<1>9. Upper'
  <2>1. \A i \in 1..Len(admissions') :
           (Len(admissions') - i + 1) * Cost + bucket'.tokens <=
               Capacity + Rate * (Elapsed' - admissions'[i])
    BY <1>2, <1>3, <1>5, <1>8
  <2> QED
    BY <1>3, <2>1 DEF Upper, Within
<1>10. Lower'
  <2>1. CASE f = Capacity
    <3>1. PICK k \in 1..Len(admissions') : k = n + 1
      BY <1>4, <1>5
    <3>2. (Len(admissions') - k + 1) * Cost = Cost
      BY <1>5, <1>7, <3>1
    <3>3. Rate * (Elapsed' - admissions'[k]) = 0
      BY <1>2, <1>5, <1>7, <3>1
    <3>4. Cost + bucket'.tokens >= Capacity + 0
      BY <1>1, <1>3, <2>1
    <3>5. (Len(admissions') - k + 1) * Cost + bucket'.tokens >=
              Capacity + Rate * (Elapsed' - admissions'[k])
      BY <3>2, <3>3, <3>4
    <3> QED
      BY <3>5 DEF Lower, Count
  <2>2. CASE f # Capacity
    <3>1. PICK i \in 1..n : Count(i) * Cost + f >= Capacity + Rate * (e - admissions[i])
      BY <2>2, RefilledBounds DEF RunScript, now, e, f
    <3> DEFINE c == (n - i + 1) * Cost
               x == Rate * (e - admissions[i])
    <3>2. c \in Int /\ x \in Int /\ c + f >= Capacity + x
      BY <1>6, <3>1 DEF Count
    <3>3. /\ (Len(admissions') - i + 1) * Cost = c + Cost
          /\ Rate * (Elapsed' - admissions'[i]) = x
      BY <1>2, <1>5, <1>6
    <3> HIDE DEF c, x
    <3>4. (c + Cost) + (f - Cost) >= Capacity + x
      BY <1>1, <3>2
    <3>5. (Len(admissions') - i + 1) * Cost + bucket'.tokens >=
              Capacity + Rate * (Elapsed' - admissions'[i])
      BY <3>3, <3>4, <1>3
    <3>6. i \in 1..Len(admissions')
      BY <1>4, <1>5
    <3> QED
      BY <3>5, <3>6 DEF Lower, Count
  <2> QED
    BY <2>1, <2>2
<1>11. WithinRate'
  <2> SUFFICES ASSUME NEW i \in 1..(n + 1), NEW j \in 1..(n + 1), i <= j
               PROVE  (j - i + 1) * Cost <=
                          Capacity + Rate * (admissions'[j] - admissions'[i])
    BY <1>5 DEF WithinRate
  <2>1. CASE j = n + 1
    <3>1. admissions'[j] = e
      BY <1>5, <2>1
    <3> DEFINE c == (n + 1 - i + 1) * Cost
               x == Rate * (e - admissions'[i])
    <3>2. e - admissions'[i] \in Int /\ n + 1 - i + 1 \in Int
      BY <1>1, <1>4, <1>5
    <3>3. c \in Int /\ x \in Int
      BY <3>2, Products
    <3>4. c + (f - Cost) <= Capacity + x
      BY <1>8
    <3> HIDE DEF c, x
    <3>5. c <= Capacity + x
      BY <1>3, <3>3, <3>4
    <3> QED
      BY <2>1, <3>1, <3>5 DEF c, x
  <2>2. CASE j # n + 1
    <3>1. i \in 1..n /\ j \in 1..n
      BY <1>4, <2>2
    <3> QED
      BY <1>5, <3>1 DEF IInv, MeterInv, WithinRate
  <2> QED
    BY <2>1, <2>2
<1> QED
  BY <1>5, <1>9, <1>10, <1>11, <1>4

LEMMA RunScriptPreserves ==
    ASSUME IInv, NEW w \in Workers, RunScript(w)
    PROVE  IInv'
<1> USE RateAssumption, CostAssumption, TimesAssumption
<1> DEFINE now == req[w].now
           f == Refilled(now)
<1>1. /\ now \in Nat /\ f \in 0..Capacity /\ now <= clock /\ clock \in 0..MaxClock
  BY RefilledBounds DEF RunScript, IInv, TypeOK, MeterInv, Ordered
<1>2. Upper' /\ Lower' /\ WithinRate' /\ admissions' \in Seq(Nat)
  <2>1. CASE f < Cost
    BY <2>1, RefusalPreserves DEF IInv, TypeOK
  <2>2. CASE ~ (f < Cost)
    BY <2>2, AdmissionPreserves
  <2> QED
    BY <2>1, <2>2
<1>3. /\ \E t \in 0..Capacity : bucket' = [tokens |-> t, last_refill |-> now]
      /\ expiresAt' = clock + Ttl
  <2>1. CASE f < Cost /\ Store(f, now)
    BY <2>1, <1>1 DEF Store
  <2>2. CASE f >= Cost /\ Store(f - Cost, now)
    <3>1. f - Cost \in 0..Capacity
      BY <2>2, <1>1
    <3> QED
      BY <2>2, <3>1 DEF Store
  <2> QED
    BY <2>1, <2>2 DEF RunScript
<1>4. /\ last' = now /\ rewound' = rewound + AtLeastZero(last - now)
      /\ req' = [req EXCEPT ![w] = Idle] /\ clock' = clock
  BY DEF RunScript
<1>5. bucket' # NoBucket /\ bucket'.last_refill = now
  BY <1>1, <1>3 DEF NoBucket
<1> HIDE DEF now, f
<1>6. TypeOK'
  <2>1. rewound' \in Nat
    <3>1. TypeOK
      BY DEF IInv
    <3> QED
      BY <1>1, <1>4, <3>1, EffectiveTime
  <2> QED
    BY <1>1, <1>2, <1>3, <1>4, <2>1 DEF IInv, TypeOK
<1>7. Ordered'
  BY <1>1, <1>4 DEF IInv, TypeOK, MeterInv, Ordered, Idle
<1>8. Stored' /\ Dropped'
  BY <1>1, <1>3, <1>4, <1>5 DEF Stored, Dropped
<1> QED
  BY <1>2, <1>6, <1>7, <1>8 DEF IInv, MeterInv

(* Steps that leave the bucket and the admissions alone leave the meter    *)
(* alone.                                                                  *)
LEMMA MeterUnchanged ==
    ASSUME IInv, UNCHANGED <<bucket, last, rewound, admissions>>
    PROVE  Upper' /\ Lower' /\ WithinRate'
BY DEF IInv, MeterInv, Upper, Lower, WithinRate, Within, Elapsed, Count

LEMMA TickPreserves ==
    ASSUME IInv, Tick
    PROVE  IInv'
<1> USE RateAssumption, CostAssumption, TimesAssumption
<1>1. TypeOK'
  BY DEF IInv, TypeOK, Tick
<1>2. Ordered'
  BY DEF IInv, TypeOK, MeterInv, Ordered, Tick, Call, Idle
<1>3. Stored'
  BY DEF IInv, MeterInv, Stored, Tick
<1>4. \A w \in Workers : req[w].pc = "call" => req[w].now \in Nat
  BY DEF IInv, TypeOK, Call, Idle
<1>5. Dropped'
  <2> SUFFICES ASSUME bucket' = NoBucket, admissions' # <<>>
               PROVE  /\ clock' - last' >= Ttl - MaxDelay
                      /\ \A w \in Workers :
                             req'[w].pc = "call" => req'[w].now - last' >= Ttl - MaxDelay
    BY DEF Dropped
  <2>1. CASE bucket = NoBucket
    BY <2>1 DEF IInv, TypeOK, MeterInv, Dropped, Tick
  <2>2. CASE bucket # NoBucket
    <3>1. expiresAt >= last + Ttl /\ clock + 1 >= expiresAt
      BY <2>2 DEF IInv, MeterInv, Stored, Tick
    <3>2. last \in Nat /\ clock \in Nat /\ expiresAt \in Nat
      BY DEF IInv, TypeOK
    <3>3. clock' - last' >= Ttl - MaxDelay
      BY <3>1, <3>2 DEF Tick
    <3>4. ASSUME NEW w \in Workers, req'[w].pc = "call"
          PROVE  req'[w].now - last' >= Ttl - MaxDelay
      <4>1. req[w].now \in Nat /\ clock - req[w].now < MaxDelay
        BY <1>4, <3>4 DEF Tick
      <4> QED
        BY <4>1, <3>1, <3>2 DEF Tick
    <3> QED
      BY <3>3, <3>4
  <2> QED
    BY <2>1, <2>2
<1>6. WithinRate'
  BY DEF IInv, MeterInv, WithinRate, Tick
<1>7. Upper' /\ Lower'
  <2>1. CASE bucket' = bucket
    BY <2>1, MeterUnchanged DEF Tick
  <2>2. CASE bucket' = NoBucket /\ bucket # NoBucket
    <3>1. bucket.tokens \in Nat /\ Elapsed \in Nat /\ admissions \in Seq(Nat)
      BY <2>2 DEF IInv, TypeOK, Elapsed
    <3>2. \A i \in 1..Len(admissions) : Within(i, 0, Elapsed)
      <4> TAKE i \in 1..Len(admissions)
      <4> DEFINE c == (Len(admissions) - i + 1) * Cost
                 x == Rate * (Elapsed - admissions[i])
      <4>1. Len(admissions) - i + 1 \in Int /\ Elapsed - admissions[i] \in Int
        BY <3>1
      <4>2. c \in Int /\ x \in Int
        BY <4>1, Products
      <4>3. c + bucket.tokens <= Capacity + x
        BY <2>2 DEF IInv, MeterInv, Upper, Within
      <4> HIDE DEF c, x
      <4>4. c + 0 <= Capacity + x
        BY <3>1, <4>2, <4>3
      <4> QED
        BY <4>4 DEF Within, c, x
    <3>3. Elapsed' = Elapsed /\ admissions' = admissions
      BY DEF Elapsed, Tick
    <3>4. Upper'
      BY <2>2, <3>2, <3>3 DEF Upper, Within
    <3> QED
      BY <2>2, <3>4 DEF Lower
  <2> QED
    BY <2>1, <2>2 DEF Tick
<1> QED
  BY <1>1, <1>2, <1>3, <1>5, <1>6, <1>7 DEF IInv, MeterInv

(* Every step preserves the invariant. *)
LEMMA NextPreserves == IInv /\ [Next]_vars => IInv'
<1> SUFFICES ASSUME IInv, [Next]_vars PROVE IInv'
  OBVIOUS
<1> USE RateAssumption, CostAssumption, TimesAssumption
<1>1. ASSUME NEW w \in Workers, ReadClock(w)
      PROVE  IInv'
  <2>1. TypeOK'
    BY <1>1 DEF IInv, TypeOK, ReadClock, Call
  <2>2. Ordered' /\ Stored' /\ Dropped'
    BY <1>1 DEF IInv, TypeOK, MeterInv, Ordered, Stored, Dropped, ReadClock
  <2> QED
    BY <1>1, <2>1, <2>2, MeterUnchanged DEF IInv, MeterInv, ReadClock
<1>2. ASSUME NEW w \in Workers, FailOpen(w)
      PROVE  IInv'
  <2>1. TypeOK'
    BY <1>2 DEF IInv, TypeOK, FailOpen
  <2>2. Ordered' /\ Stored' /\ Dropped'
    BY <1>2 DEF IInv, TypeOK, MeterInv, Ordered, Stored, Dropped, FailOpen, Idle
  <2> QED
    BY <1>2, <2>1, <2>2, MeterUnchanged DEF IInv, MeterInv, FailOpen
<1>3. CASE UNCHANGED vars
  <2>1. TypeOK' /\ Ordered' /\ Stored' /\ Dropped'
    BY <1>3 DEF IInv, TypeOK, MeterInv, Ordered, Stored, Dropped, vars
  <2> QED
    BY <1>3, <2>1, MeterUnchanged DEF IInv, MeterInv, vars
<1> QED
  BY <1>1, <1>2, <1>3, RunScriptPreserves, TickPreserves DEF Next

THEOREM Invariant == Spec => []IInv
BY InitEstablishes, NextPreserves, PTL DEF Spec

(* Every variable of the limiter keeps its type: in particular the bucket  *)
(* never holds less than nothing or more than its capacity.                *)
THEOREM BucketTyped == Spec => []TypeOK
<1>1. IInv => TypeOK
  BY DEF IInv
<1> QED
  BY <1>1, Invariant, PTL

(* No more requests are admitted between any two of them than a full       *)
(* bucket and its refill allow, by the time by which the bucket runs.      *)
THEOREM AdmitsWithinRate == Spec => []WithinRate
<1>1. IInv => WithinRate
  BY DEF IInv, MeterInv
<1> QED
  BY <1>1, Invariant, PTL

(* The script refuses a request only when admitting it would break the     *)
(* rate.                                                                   *)
THEOREM RefusalsJustified == Spec => RefusesOnlyOverRate
<1>1. ASSUME IInv PROVE AllJustified
  <2> SUFFICES ASSUME NEW w \in Workers, RunScript(w), admissions' = admissions
               PROVE  \E i \in 1..Len(admissions) :
                          ~ Within(i, Cost, Effective(req[w].now))
    BY DEF AllJustified, Justified
  <2> DEFINE now == req[w].now
             f == Refilled(now)
             e == Effective(now)
  <2>0. req[w].pc = "call"
    BY DEF RunScript
  <2>1. /\ now \in Nat /\ f \in 0..Capacity
        /\ f # Capacity =>
              \E i \in 1..Len(admissions) :
                  Count(i) * Cost + f >= Capacity + Rate * (e - admissions[i])
    BY <1>1, <2>0, RefilledBounds
  <2>2. e \in Nat /\ admissions \in Seq(Nat)
    <3>1. TypeOK
      BY <1>1 DEF IInv
    <3>2. e \in Nat
      BY <2>1, <3>1, EffectiveTime
    <3> QED
      BY <3>1, <3>2 DEF TypeOK
  <2>3. f < Cost
    <3>1. CASE f >= Cost
      <4>1. admissions' = Append(admissions, e)
        BY <2>1, <3>1, CostAssumption, RateAssumption DEF RunScript
      <4>2. Len(admissions') = Len(admissions) + 1
        BY <4>1, <2>2
      <4> QED
        BY <4>2, <2>2
    <3> QED
      BY <3>1, <2>1, CostAssumption, RateAssumption
  <2> HIDE DEF now, f, e
  <2>4. PICK i \in 1..Len(admissions) :
           Count(i) * Cost + f >= Capacity + Rate * (e - admissions[i])
    BY <2>1, <2>3, CostAssumption, RateAssumption
  <2> DEFINE c == Count(i) * Cost
             x == Rate * (e - admissions[i])
  <2>5. c \in Int /\ x \in Int
    <3>1. Count(i) \in Int /\ e - admissions[i] \in Int
      BY <2>2 DEF Count
    <3> QED
      BY <3>1, Products, CostAssumption, RateAssumption
  <2>6. c + f >= Capacity + x
    BY <2>4
  <2> HIDE DEF c, x
  <2>7. ~ (c + Cost <= Capacity + x)
    BY <2>1, <2>3, <2>5, <2>6, CostAssumption, RateAssumption
  <2>8. ~ Within(i, Cost, e)
    BY <2>7 DEF c, x, Within, Count
  <2> QED
    BY <2>8 DEF e, now
<1> QED
  BY <1>1, Invariant, PTL DEF RefusesOnlyOverRate
=============================================================================
