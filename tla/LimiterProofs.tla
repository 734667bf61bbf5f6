---------------------------- MODULE LimiterProofs ----------------------------
(***************************************************************************)
(* Theorems about Limiter for all hosts, rates, bursts and clocks: the     *)
(* types, the bound on every window, and that the bucket implements        *)
(* RateLimit.  The bridge between bucket and history is Ledger: a bucket's *)
(* level is what the tightest window of the history leaves free.           *)
(***************************************************************************)
EXTENDS Limiter, TLAPS

(* No window that ends now has more room than the bucket has tokens ... *)
RoomForLevel ==
    \A h \in Hosts : \A i \in DOMAIN grants[h] :
        /\ grants[h][i] <= now
        /\ Level(h) + (Len(grants[h]) - i + 1) * TokenTime
               <= Capacity + (now - grants[h][i])

(* ... and one of them has exactly that room, unless the bucket is full. *)
LevelIsRoom ==
    \A h \in Hosts :
        \/ Level(h) = Capacity
        \/ \E i \in DOMAIN grants[h] :
              Level(h) + (Len(grants[h]) - i + 1) * TokenTime
                  = Capacity + (now - grants[h][i])

(* No bucket was touched in the future. *)
LastPast == \A h \in Hosts : buckets[h] # NoBucket => buckets[h].last <= now

Ledger == RoomForLevel /\ LevelIsRoom

IInv == TypeOK /\ LastPast /\ Ledger
------------------------------------------------------------------------------
LEMMA CapacityFact == Capacity \in Nat /\ TokenTime <= Capacity
<1>1. \A b, t \in Nat : b # 0 => b * t \in Nat /\ t <= b * t
  OBVIOUS
<1> QED BY <1>1, LimiterAssumption DEF Capacity

LEMMA OneMore ==
    \A n, i \in Nat : /\ (n + 1 - i + 1) * TokenTime = (n - i + 1) * TokenTime + TokenTime
                      /\ (n - i + 1) * TokenTime \in Int
BY LimiterAssumption

(* The credited level of a bucket never leaves 0..Capacity. *)
LEMMA LevelRange == TypeOK /\ LastPast => \A h \in Hosts : Level(h) \in 0..Capacity
<1> SUFFICES ASSUME TypeOK, LastPast, NEW h \in Hosts
             PROVE  Level(h) \in 0..Capacity
  OBVIOUS
<1>1. CASE buckets[h] = NoBucket
  BY <1>1, CapacityFact DEF Level, Refilled, Found, TypeOK
<1>2. CASE buckets[h] # NoBucket
  <2>1. buckets[h] \in Bucket
    BY <1>2 DEF TypeOK
  <2> QED BY <1>2, <2>1, CapacityFact, LimiterAssumption
          DEF Level, Refilled, Found, TypeOK, LastPast, Bucket
<1> QED BY <1>1, <1>2

(* Waiting one tick earns one unit, up to a full bucket. *)
LEMMA LevelTick ==
    TypeOK /\ LastPast /\ Tick =>
        \A h \in Hosts : Level(h)' = IF Level(h) = Capacity THEN Capacity ELSE Level(h) + 1
<1> SUFFICES ASSUME TypeOK, LastPast, Tick, NEW h \in Hosts
             PROVE  Level(h)' = IF Level(h) = Capacity THEN Capacity ELSE Level(h) + 1
  OBVIOUS
<1>1. CASE buckets[h] = NoBucket
  BY <1>1, CapacityFact, LimiterAssumption DEF Level, Refilled, Found, TypeOK, Tick
<1>2. CASE buckets[h] # NoBucket
  <2> DEFINE b == buckets[h]
             earned == b.tokens + (now - b.last)
  <2>1. b \in Bucket /\ b.last <= now
    BY <1>2 DEF TypeOK, LastPast
  <2>2. earned \in Nat
    BY <2>1 DEF Bucket, TypeOK
  <2>3. Level(h) = IF earned > Capacity THEN Capacity ELSE earned
    BY <1>2 DEF Level, Refilled, Found
  <2>4. b.tokens + ((now + 1) - b.last) = earned + 1
    BY <2>1 DEF Bucket, TypeOK
  <2>5. Level(h)' = IF earned + 1 > Capacity THEN Capacity ELSE earned + 1
    BY <1>2, <2>4 DEF Level, Refilled, Found, Tick
  <2> QED BY <2>2, <2>3, <2>5, CapacityFact
<1> QED BY <1>1, <1>2

(* A call leaves its own bucket at what Spent says and the others alone. *)
LEMMA LevelAllow ==
    ASSUME TypeOK, LastPast, NEW h \in Hosts, Allow(h)
    PROVE  /\ Level(h)' = Spent(Level(h))
           /\ Level(h)' \in 0..Capacity
           /\ \A k \in Hosts \ {h} : Level(k)' = Level(k)
<1>1. Level(h) \in 0..Capacity
  BY LevelRange
<1>2. Spent(Level(h)) \in 0..Capacity
  BY <1>1, CapacityFact, LimiterAssumption DEF Spent, Affords
<1>3. buckets'[h] = [tokens |-> Spent(Level(h)), last |-> now]
  BY DEF Allow, TypeOK
<1>4. buckets'[h] \in Bucket
  BY <1>2, <1>3 DEF Bucket, TypeOK
<1>5. buckets'[h] # NoBucket
  BY <1>4, LimiterAssumption
<1>6. Found(h)' = [tokens |-> Spent(Level(h)), last |-> now]
  BY <1>3, <1>5 DEF Found
<1>7. Level(h)' = Spent(Level(h))
  BY <1>2, <1>6, CapacityFact, LimiterAssumption DEF Level, Refilled, Allow, TypeOK
<1>8. \A k \in Hosts \ {h} : Level(k)' = Level(k)
  BY DEF Allow, TypeOK, Level, Refilled, Found
<1> QED BY <1>2, <1>7, <1>8
------------------------------------------------------------------------------
(* The types hold in every behaviour, and with them that no bucket was used *)
(* later than now.                                                          *)
LEMMA TypeInit == Init => TypeOK /\ LastPast
BY LimiterAssumption DEF Init, TypeOK, LastPast

LEMMA TypeNext == TypeOK /\ LastPast /\ [Next]_vars => TypeOK' /\ LastPast'
<1> SUFFICES ASSUME TypeOK, LastPast, [Next]_vars
             PROVE  TypeOK' /\ LastPast'
  OBVIOUS
<1>1. CASE Tick
  BY <1>1, LimiterAssumption DEF Tick, TypeOK, LastPast, Bucket
<1>2. ASSUME NEW h \in Hosts, Allow(h)
      PROVE  TypeOK' /\ LastPast'
  <2>1. Spent(Level(h)) \in 0..Capacity
    BY <1>2, LevelAllow
  <2>2. [tokens |-> Spent(Level(h)), last |-> now] \in Bucket
    BY <2>1 DEF Bucket, TypeOK
  <2>3. buckets' \in [Hosts -> Bucket \cup {NoBucket}]
    BY <1>2, <2>2 DEF Allow, TypeOK
  <2>4. grants' \in [Hosts -> Seq(0..MaxTime)]
    BY <1>2 DEF Allow, TypeOK
  <2>5. answer' \in {<<>>} \cup (Hosts \X BOOLEAN)
    <3>1. Affords(Level(h)) \in BOOLEAN
      BY DEF Affords
    <3> QED BY <1>2, <3>1 DEF Allow
  <2>6. LastPast'
    BY <1>2 DEF Allow, TypeOK, LastPast
  <2> QED BY <1>2, <2>3, <2>4, <2>5, <2>6 DEF TypeOK, Allow
<1>3. CASE UNCHANGED vars
  BY <1>3 DEF vars, TypeOK, LastPast
<1> QED BY <1>1, <1>2, <1>3 DEF Next

(* Type correctness: buckets stay within empty and full. *)
THEOREM TypeCorrect == Spec => []TypeOK
<1>1. Spec => [](TypeOK /\ LastPast)
  BY TypeInit, TypeNext, PTL DEF Spec
<1> QED BY <1>1, PTL
------------------------------------------------------------------------------
(* The ledger between bucket and history. *)
LEMMA LedgerInit == Init => Ledger
<1> SUFFICES ASSUME Init PROVE Ledger
  OBVIOUS
<1>1. \A h \in Hosts : grants[h] = <<>> /\ buckets[h] = NoBucket
  BY DEF Init
<1>2. now = 0 /\ Capacity + (0 - 0) = Capacity
  BY CapacityFact DEF Init
<1>3. \A h \in Hosts : Level(h) = Capacity
  <2> SUFFICES ASSUME NEW h \in Hosts PROVE Level(h) = Capacity
    OBVIOUS
  <2>1. Found(h) = [tokens |-> Capacity, last |-> 0]
    BY <1>1, <1>2 DEF Found
  <2> QED BY <1>2, <2>1, CapacityFact DEF Level, Refilled
<1> QED BY <1>1, <1>3 DEF Ledger, RoomForLevel, LevelIsRoom

LEMMA LedgerTick == IInv /\ Tick => Ledger'
<1> SUFFICES ASSUME IInv, Tick PROVE Ledger'
  OBVIOUS
<1> USE DEF IInv
<1>1. now \in Nat /\ now' = now + 1 /\ grants' = grants
  BY DEF Tick, TypeOK
<1>2. ASSUME NEW h \in Hosts, NEW i \in DOMAIN grants[h]
      PROVE  /\ grants[h][i] \in Nat
             /\ (Len(grants[h]) - i + 1) * TokenTime \in Int
  <2>1. grants[h] \in Seq(0..MaxTime)
    BY DEF TypeOK
  <2> QED BY <2>1, OneMore, LimiterAssumption
<1>3. RoomForLevel'
  <2> SUFFICES ASSUME NEW h \in Hosts, NEW i \in DOMAIN grants[h]
               PROVE  /\ grants[h][i] <= now + 1
                      /\ Level(h)' + (Len(grants[h]) - i + 1) * TokenTime
                             <= Capacity + ((now + 1) - grants[h][i])
    BY <1>1 DEF RoomForLevel
  <2>1. Level(h) \in Nat /\ Level(h)' \in Nat /\ Level(h)' <= Level(h) + 1
    BY LevelRange, LevelTick, CapacityFact
  <2>2. /\ grants[h][i] <= now
        /\ Level(h) + (Len(grants[h]) - i + 1) * TokenTime
               <= Capacity + (now - grants[h][i])
    BY DEF Ledger, RoomForLevel
  <2> DEFINE C == (Len(grants[h]) - i + 1) * TokenTime
             t == grants[h][i]
  <2>3. C \in Int /\ t \in Nat
    BY <1>2
  <2>4. Level(h) + C <= Capacity + (now - t) /\ t <= now
    BY <2>2
  <2> HIDE DEF C, t
  <2>5. t <= now + 1 /\ Level(h)' + C <= Capacity + ((now + 1) - t)
    BY <1>1, <2>1, <2>3, <2>4, CapacityFact
  <2> QED BY <2>5 DEF C, t
<1>4. LevelIsRoom'
  <2> SUFFICES ASSUME NEW h \in Hosts, Level(h)' # Capacity
               PROVE  \E i \in DOMAIN grants[h] :
                        Level(h)' + (Len(grants[h]) - i + 1) * TokenTime
                            = Capacity + ((now + 1) - grants[h][i])
    BY <1>1 DEF LevelIsRoom
  <2>1. Level(h) # Capacity /\ Level(h)' = Level(h) + 1 /\ Level(h) \in Nat
    BY LevelRange, LevelTick, CapacityFact
  <2>2. PICK i \in DOMAIN grants[h] :
            Level(h) + (Len(grants[h]) - i + 1) * TokenTime
                = Capacity + (now - grants[h][i])
    BY <2>1 DEF Ledger, LevelIsRoom
  <2> DEFINE C == (Len(grants[h]) - i + 1) * TokenTime
             t == grants[h][i]
  <2>3. C \in Int /\ t \in Nat
    BY <1>2
  <2>4. Level(h) + C = Capacity + (now - t)
    BY <2>2
  <2> HIDE DEF C, t
  <2>5. Level(h)' + C = Capacity + ((now + 1) - t)
    BY <1>1, <2>1, <2>3, <2>4, CapacityFact
  <2> QED BY <2>5 DEF C, t
<1> QED BY <1>3, <1>4 DEF Ledger

LEMMA LedgerAllow == ASSUME IInv, NEW h \in Hosts, Allow(h) PROVE Ledger'
<1> USE DEF IInv
<1>1. /\ Level(h) \in Nat
      /\ Level(h)' = Spent(Level(h))
      /\ \A k \in Hosts \ {h} : Level(k)' = Level(k)
  BY LevelAllow, LevelRange, CapacityFact
<1>2. now \in Nat /\ now' = now
  BY DEF TypeOK, Allow
<1>3. \A k \in Hosts : grants[k] \in Seq(0..MaxTime)
  BY DEF TypeOK
<1>4. CASE ~Affords(Level(h))
  <2>1. grants' = grants /\ \A k \in Hosts : Level(k)' = Level(k)
    BY <1>1, <1>4 DEF Allow, Spent
  <2> QED BY <1>2, <2>1 DEF Ledger, RoomForLevel, LevelIsRoom
<1>5. CASE Affords(Level(h))
  <2> DEFINE g == grants[h]
             n == Len(g)
             C(i) == (n - i + 1) * TokenTime
  <2>1. /\ Level(h)' = Level(h) - TokenTime
        /\ grants'[h] = Append(g, now)
        /\ \A k \in Hosts \ {h} : grants'[k] = grants[k]
    BY <1>1, <1>5 DEF Allow, Spent, TypeOK
  <2>2. /\ n \in Nat /\ DOMAIN g = 1..n /\ DOMAIN (grants'[h]) = 1..(n + 1)
        /\ Len(grants'[h]) = n + 1 /\ grants'[h][n + 1] = now
        /\ \A i \in 1..n : grants'[h][i] = g[i] /\ g[i] \in Nat
    BY <1>3, <2>1, LimiterAssumption
  <2>3. /\ \A i \in 1..n : (n + 1 - i + 1) * TokenTime = C(i) + TokenTime
        /\ \A i \in 1..n : C(i) \in Int
        /\ (n + 1 - (n + 1) + 1) * TokenTime = TokenTime
    BY <2>2, OneMore, LimiterAssumption
  <2> HIDE DEF C, n, g
  <2>4. RoomForLevel'
    <3> SUFFICES ASSUME NEW k \in Hosts, NEW i \in DOMAIN (grants'[k])
                 PROVE  /\ grants'[k][i] <= now
                        /\ Level(k)' + (Len(grants'[k]) - i + 1) * TokenTime
                               <= Capacity + (now - grants'[k][i])
      BY <1>2 DEF RoomForLevel
    <3>1. CASE k # h
      BY <1>1, <2>1, <3>1 DEF Ledger, RoomForLevel
    <3>2. CASE k = h /\ i = n + 1
      <4>1. /\ grants'[k][i] = now
            /\ (Len(grants'[k]) - i + 1) * TokenTime = TokenTime
        BY <2>2, <2>3, <3>2
      <4>2. Level(k)' + TokenTime <= Capacity + (now - now)
        BY <1>1, <1>2, <2>1, <3>2, LevelRange, CapacityFact, LimiterAssumption
      <4> QED BY <1>2, <4>1, <4>2
    <3>3. CASE k = h /\ i \in 1..n
      <4>1. g[i] <= now /\ Level(h) + C(i) <= Capacity + (now - g[i])
        BY <2>2, <3>3 DEF Ledger, RoomForLevel, g, n, C
      <4>2. /\ grants'[k][i] = g[i]
            /\ (Len(grants'[k]) - i + 1) * TokenTime = C(i) + TokenTime
        BY <2>2, <2>3, <3>3
      <4>3. g[i] \in Nat /\ C(i) \in Int
        BY <2>2, <2>3, <3>3
      <4>4. Level(k)' + (C(i) + TokenTime) <= Capacity + (now - g[i])
        BY <1>1, <1>2, <2>1, <3>3, <4>1, <4>3, CapacityFact, LimiterAssumption
      <4> QED BY <4>1, <4>2, <4>4
    <3> QED BY <2>2, <3>1, <3>2, <3>3
  <2>5. LevelIsRoom'
    <3> SUFFICES ASSUME NEW k \in Hosts, Level(k)' # Capacity
                 PROVE  \E i \in DOMAIN (grants'[k]) :
                          Level(k)' + (Len(grants'[k]) - i + 1) * TokenTime
                              = Capacity + (now - grants'[k][i])
      BY <1>2 DEF LevelIsRoom
    <3>1. CASE k # h
      BY <1>1, <2>1, <3>1 DEF Ledger, LevelIsRoom
    <3>2. CASE k = h /\ Level(h) = Capacity
      <4>1. Level(h)' + (Len(grants'[h]) - (n + 1) + 1) * TokenTime
                = Capacity + (now - grants'[h][n + 1])
        <5>1. /\ grants'[h][n + 1] = now
              /\ (Len(grants'[h]) - (n + 1) + 1) * TokenTime = TokenTime
          BY <2>2, <2>3
        <5>2. Level(h)' + TokenTime = Capacity + (now - now)
          BY <1>1, <1>2, <2>1, <3>2, CapacityFact, LimiterAssumption
        <5> QED BY <5>1, <5>2
      <4>2. n + 1 \in DOMAIN (grants'[h])
        BY <2>2
      <4> QED BY <3>2, <4>1, <4>2
    <3>3. CASE k = h /\ Level(h) # Capacity
      <4>1. PICK i \in 1..n : Level(h) + C(i) = Capacity + (now - g[i])
        BY <2>2, <3>3 DEF Ledger, LevelIsRoom, g, n, C
      <4>2. Level(h)' + (Len(grants'[h]) - i + 1) * TokenTime
                = Capacity + (now - grants'[h][i])
        <5>1. /\ grants'[h][i] = g[i] /\ g[i] \in Nat /\ C(i) \in Int
              /\ (Len(grants'[h]) - i + 1) * TokenTime = C(i) + TokenTime
          BY <2>2, <2>3
        <5>2. Level(h)' + (C(i) + TokenTime) = Capacity + (now - g[i])
          BY <1>1, <1>2, <2>1, <4>1, <5>1, CapacityFact, LimiterAssumption
        <5> QED BY <5>1, <5>2
      <4>3. i \in DOMAIN (grants'[h])
        BY <2>2
      <4> QED BY <3>3, <4>2, <4>3
    <3> QED BY <3>1, <3>2, <3>3
  <2> QED BY <2>4, <2>5 DEF Ledger
<1> QED BY <1>4, <1>5

LEMMA Inductive == Spec => []IInv
<1>1. Init => IInv
  BY TypeInit, LedgerInit DEF IInv
<1>2. IInv /\ [Next]_vars => IInv'
  <2> SUFFICES ASSUME IInv, [Next]_vars PROVE IInv'
    OBVIOUS
  <2>1. TypeOK' /\ LastPast'
    BY TypeNext DEF IInv
  <2>2. CASE Tick
    BY <2>1, <2>2, LedgerTick DEF IInv
  <2>3. ASSUME NEW h \in Hosts, Allow(h) PROVE IInv'
    BY <2>1, <2>3, LedgerAllow DEF IInv
  <2>4. CASE UNCHANGED vars
    BY <2>1, <2>4 DEF vars, IInv, Ledger, RoomForLevel, LevelIsRoom,
                      Level, Refilled, Found
  <2> QED BY <2>2, <2>3, <2>4 DEF Next
<1> QED BY <1>1, <1>2, PTL DEF Spec
------------------------------------------------------------------------------
(* No host gets more calls through, between any two of them, than the burst *)
(* and the refill of the time between allow.                                *)
THEOREM WindowsBounded == Spec => []WindowBound
<1>1. Init => WindowBound
  BY DEF Init, WindowBound
<1>2. IInv /\ WindowBound /\ [Next]_vars => WindowBound'
  <2> SUFFICES ASSUME IInv, WindowBound, [Next]_vars PROVE WindowBound'
    OBVIOUS
  <2>1. CASE grants' = grants
    BY <2>1 DEF WindowBound
  <2>2. ASSUME NEW h \in Hosts, Allow(h), Affords(Level(h)) PROVE WindowBound'
    <3> DEFINE g == grants[h]
               n == Len(g)
    <3>1. /\ g \in Seq(0..MaxTime) /\ n \in Nat /\ now \in Nat
          /\ Level(h) \in Nat /\ TokenTime <= Level(h)
      BY <2>2, LevelRange, CapacityFact DEF IInv, TypeOK, Affords
    <3>2. /\ grants'[h] = Append(g, now)
          /\ \A k \in Hosts \ {h} : grants'[k] = grants[k]
      BY <2>2 DEF Allow, IInv, TypeOK
    <3>3. /\ DOMAIN (grants'[h]) = 1..(n + 1) /\ grants'[h][n + 1] = now
          /\ \A i \in 1..n : grants'[h][i] = g[i] /\ g[i] \in Nat
      BY <3>1, <3>2, LimiterAssumption
    <3>4. ASSUME NEW i \in 1..(n + 1)
          PROVE  ((n + 1) - i + 1) * TokenTime <= Capacity + (now - grants'[h][i])
      <4>1. CASE i = n + 1
        <5>1. ((n + 1) - i + 1) * TokenTime = TokenTime
          BY <3>1, <4>1, LimiterAssumption
        <5> QED BY <3>1, <3>3, <4>1, <5>1, CapacityFact, LimiterAssumption
      <4>2. CASE i \in 1..n
        <5>1. Level(h) + (n - i + 1) * TokenTime <= Capacity + (now - g[i])
          BY <3>1, <4>2 DEF IInv, Ledger, RoomForLevel
        <5>2. /\ ((n + 1) - i + 1) * TokenTime = (n - i + 1) * TokenTime + TokenTime
              /\ (n - i + 1) * TokenTime \in Int
          <6>1. n \in Nat /\ i \in Nat
            BY <3>1, <4>2
          <6> HIDE DEF n
          <6> QED BY <6>1, LimiterAssumption
        <5>3. grants'[h][i] = g[i] /\ g[i] \in Nat
          BY <3>3, <4>2
        <5> DEFINE C == (n - i + 1) * TokenTime
                   t == g[i]
                   L == Level(h)
        <5>4. /\ C \in Int /\ t \in Nat /\ L + C <= Capacity + (now - t)
              /\ L \in Nat /\ TokenTime <= L /\ now \in Nat
          BY <3>1, <5>1, <5>2, <5>3
        <5> HIDE DEF C, t, L
        <5>5. C + TokenTime <= Capacity + (now - t)
          BY <5>4, CapacityFact, LimiterAssumption
        <5> QED BY <5>2, <5>3, <5>5 DEF C, t
      <4> QED BY <3>1, <4>1, <4>2
    <3> SUFFICES ASSUME NEW k \in Hosts, NEW j \in DOMAIN (grants'[k]), NEW i \in 1..j
                 PROVE  (j - i + 1) * TokenTime
                            <= Capacity + (grants'[k][j] - grants'[k][i])
      BY DEF WindowBound
    <3>5. CASE k # h
      BY <3>2, <3>5 DEF WindowBound
    <3>6. CASE k = h /\ j = n + 1
      <4>1. i \in 1..(n + 1)
        BY <3>6
      <4>2. ((n + 1) - i + 1) * TokenTime <= Capacity + (now - grants'[h][i])
        BY <3>4, <4>1
      <4> QED BY <3>3, <3>6, <4>2
    <3>7. CASE k = h /\ j \in 1..n
      <4>1. i \in 1..n /\ j \in DOMAIN g
        BY <3>1, <3>7
      <4> QED BY <3>3, <3>7, <4>1 DEF WindowBound
    <3>8. k = h => j \in 1..n \/ j = n + 1
      BY <3>1, <3>3
    <3> QED BY <3>5, <3>6, <3>7, <3>8
  <2>3. [Next]_vars => \/ grants' = grants
                       \/ \E h \in Hosts : Allow(h) /\ Affords(Level(h))
    BY DEF Next, Tick, Allow, vars
  <2> QED BY <2>1, <2>2, <2>3
<1> QED BY <1>1, <1>2, Inductive, PTL DEF Spec

(* A bucket has a token exactly when one more call breaks no window. *)
LEMMA AffordsFits ==
    ASSUME IInv, NEW h \in Hosts
    PROVE  Affords(Level(h)) <=> RL!Fits(grants[h], now)
<1> DEFINE g == grants[h]
           n == Len(g)
           C(i) == (n - i + 1) * TokenTime
<1>1. /\ g \in Seq(0..MaxTime) /\ n \in Nat /\ now \in Nat
      /\ Level(h) \in Nat
  BY LevelRange, CapacityFact DEF IInv, TypeOK
<1>2. ASSUME NEW i \in DOMAIN g
      PROVE  /\ RL!Cost(i, n + 1) = C(i) + TokenTime
             /\ C(i) \in Int /\ g[i] \in Nat
             /\ Level(h) + C(i) <= Capacity + (now - g[i])
  <2>1. i \in Int /\ g[i] \in Nat
    BY <1>1, LimiterAssumption
  <2>2. Level(h) + C(i) <= Capacity + (now - g[i])
    BY DEF IInv, Ledger, RoomForLevel
  <2>3. i \in Nat /\ n \in Nat
    BY <1>1, <2>1
  <2>4. RL!Cost(i, n + 1) = ((n + 1) - i + 1) * TokenTime
    BY DEF RL!Cost
  <2> HIDE DEF n
  <2>5. /\ ((n + 1) - i + 1) * TokenTime = C(i) + TokenTime
        /\ C(i) \in Int
    BY <2>3, LimiterAssumption
  <2> QED BY <2>1, <2>2, <2>4, <2>5
<1>3. RL!Capacity = Capacity
  BY DEF RL!Capacity, Capacity
<1>4. ASSUME Affords(Level(h)) PROVE RL!Fits(g, now)
  <2> SUFFICES ASSUME NEW i \in DOMAIN g
               PROVE  RL!Cost(i, n + 1) <= RL!Capacity + (now - g[i])
    BY DEF RL!Fits
  <2>1. TokenTime <= Level(h)
    BY <1>4 DEF Affords
  <2> HIDE DEF C, g, n
  <2>2. C(i) + TokenTime <= Capacity + (now - g[i])
    BY <1>1, <1>2, <2>1, CapacityFact, LimiterAssumption
  <2> QED BY <1>2, <1>3, <2>2
<1>5. ASSUME RL!Fits(g, now) PROVE Affords(Level(h))
  <2>1. CASE Level(h) = Capacity
    BY <2>1, CapacityFact DEF Affords
  <2>2. CASE Level(h) # Capacity
    <3>1. PICK i \in DOMAIN g : Level(h) + C(i) = Capacity + (now - g[i])
      BY <2>2 DEF IInv, Ledger, LevelIsRoom
    <3>2. C(i) + TokenTime <= Capacity + (now - g[i])
      BY <1>2, <1>3, <1>5 DEF RL!Fits
    <3>3. C(i) \in Int /\ g[i] \in Nat
      BY <1>2
    <3> HIDE DEF C, g, n
    <3>4. TokenTime <= Level(h)
      BY <1>1, <3>1, <3>2, <3>3, CapacityFact, LimiterAssumption
    <3> QED BY <3>4 DEF Affords
  <2> QED BY <2>1, <2>2
<1> QED BY <1>4, <1>5

(* The bucket answers every call like the limiter that remembers all. *)
THEOREM LimiterImplementsRateLimit == Spec => ImplementsRateLimit
<1>1. Init => RL!Init
  BY DEF Init, RL!Init
<1>2. IInv /\ [Next]_vars => [RL!Next]_RL!vars
  <2> SUFFICES ASSUME IInv, [Next]_vars PROVE [RL!Next]_RL!vars
    OBVIOUS
  <2>1. CASE Tick
    BY <2>1 DEF Tick, RL!Tick, RL!Next
  <2>2. ASSUME NEW h \in Hosts, Allow(h) PROVE RL!Next
    <3>1. Affords(Level(h)) <=> RL!Fits(grants[h], now)
      BY AffordsFits
    <3>2. CASE Affords(Level(h))
      <4>1. answer' = <<h, TRUE>>
        BY <2>2, <3>2, Zenon DEF Allow
      <4> QED BY <2>2, <3>1, <3>2, <4>1 DEF Allow, RL!Grant, RL!Next
    <3>3. CASE ~Affords(Level(h))
      <4>1. Affords(Level(h)) \in BOOLEAN
        BY DEF Affords
      <4>2. answer' = <<h, FALSE>>
        BY <2>2, <3>3, <4>1 DEF Allow
      <4> QED BY <2>2, <3>1, <3>3, <4>2 DEF Allow, RL!Refuse, RL!Next
    <3> QED BY <3>2, <3>3
  <2>3. CASE UNCHANGED vars
    BY <2>3 DEF vars, RL!vars
  <2> QED BY <2>1, <2>2, <2>3 DEF Next
<1> QED BY <1>1, <1>2, Inductive, PTL DEF Spec, ImplementsRateLimit, RL!Spec
==============================================================================
