-------------------------- MODULE RateLimiterProofs --------------------------
(***************************************************************************)
(* What the token bucket guarantees at every rate and for every timing of  *)
(* the callers.  WindowBound is not inductive: nothing in it relates the   *)
(* grants of the past to the tokens left, so a state with old grants and a *)
(* full bucket would satisfy it and break it in one more step.  The        *)
(* strengthening, TokensAccounted, says that the grants since any past     *)
(* grant, plus what is still in the bucket, stay within a full bucket and  *)
(* what has flowed in up to the latest call.                               *)
(***************************************************************************)
EXTENDS RateLimiter, TLAPS

\* Grants since the i-th one, and the tokens left, are paid for by a full
\* bucket and the refill between the i-th grant and the latest call.
TokensAccounted ==
    \A i \in DOMAIN grants :
        (Len(grants) - i + 1) * Token + tokens <= Capacity + Credit(last - grants[i])

\* Grants are in the order of the clock, and none is later than the latest call.
GrantsOrdered ==
    /\ \A i \in DOMAIN grants : grants[i] <= last
    /\ \A i, j \in DOMAIN grants : i <= j => grants[i] <= grants[j]

LimiterInv == TypeOK /\ GrantsOrdered /\ TokensAccounted /\ WindowBound
-----------------------------------------------------------------------------
\* The capacity is a positive number of units.
LEMMA CapacityPositive == Capacity \in Nat \ {0}
BY LimiterAssumption DEF LimiterAssumption, Capacity

\* Refill is additive: splitting an interval loses and gains nothing.
LEMMA CreditAdds ==
    ASSUME NEW d \in Int, NEW e \in Int
    PROVE  /\ Credit(d) \in Int
           /\ Credit(d + e) = Credit(d) + Credit(e)
           /\ Credit(0) = 0
           /\ d >= 0 => Credit(d) >= 0
BY LimiterAssumption DEF LimiterAssumption, Credit

\* One more grant costs one more token.
LEMMA TokensAdd ==
    ASSUME NEW n \in Int
    PROVE  /\ n * Token \in Int
           /\ (n + 1) * Token = n * Token + Token
BY LimiterAssumption DEF LimiterAssumption

\* The refilled bucket holds no more than its capacity, and no more than it
\* held plus the refill since the latest call.
LEMMA RefilledBounds ==
    ASSUME TypeOK
    PROVE  /\ Refilled \in 0 .. Capacity
           /\ Refilled <= tokens + Credit(now - last)
<1>1. now - last \in Int /\ now - last >= 0
  BY LimiterAssumption DEF LimiterAssumption, TypeOK
<1>2. Credit(now - last) \in Int /\ Credit(now - last) >= 0
  BY <1>1, CreditAdds
<1> QED
  BY <1>2, CapacityPositive DEF Refilled, TypeOK
-----------------------------------------------------------------------------
\* The initial bucket satisfies the invariant.
LEMMA LimiterInit == Init => LimiterInv
BY CapacityPositive, LimiterAssumption
   DEF Init, LimiterInv, TypeOK, GrantsOrdered, TokensAccounted, WindowBound, LimiterAssumption

\* Every step keeps the types: in particular no refill overflows the bucket.
LEMMA TypeStep == TypeOK /\ [Next]_vars => TypeOK'
<1> SUFFICES ASSUME TypeOK, [Next]_vars PROVE TypeOK'
  OBVIOUS
<1> USE LimiterAssumption DEF LimiterAssumption, TypeOK
<1>0. now \in Nat /\ last \in Nat
  OBVIOUS
<1>1. CASE Tick
  <2>1. grants' \in Seq(0 .. now')
    BY <1>1 DEF Tick
  <2> QED
    BY <1>1, <2>1 DEF Tick, Capacity
<1>2. CASE Grant
  <2>1. tokens' \in 0 .. Capacity
    BY <1>2, RefilledBounds, CapacityPositive DEF Grant
  <2>2. grants' \in Seq(0 .. now')
    BY <1>2 DEF Grant
  <2> QED
    BY <1>2, <2>1, <2>2 DEF Grant, Capacity
<1>3. CASE Deny
  BY <1>3, RefilledBounds DEF Deny, Capacity
<1>4. CASE UNCHANGED vars
  BY <1>4 DEF vars, Capacity
<1> QED
  BY <1>1, <1>2, <1>3, <1>4 DEF Next

\* A grant appends the clock reading: the old grants keep their places.
LEMMA GrantAppends ==
    ASSUME TypeOK, Grant
    PROVE  /\ DOMAIN grants = 1 .. Len(grants)
           /\ Len(grants) \in Nat
           /\ Len(grants') = Len(grants) + 1
           /\ DOMAIN grants' = 1 .. Len(grants) + 1
           /\ \A i \in 1 .. Len(grants) : grants'[i] = grants[i] /\ grants[i] \in Int
           /\ grants'[Len(grants) + 1] = now
           /\ now \in Int /\ last \in Int /\ last <= now
BY LimiterAssumption DEF LimiterAssumption, TypeOK, Grant

\* Every step keeps the grants in the order of the clock.
LEMMA OrderStep == TypeOK /\ GrantsOrdered /\ [Next]_vars => GrantsOrdered'
<1> SUFFICES ASSUME TypeOK, GrantsOrdered, [Next]_vars PROVE GrantsOrdered'
  OBVIOUS
<1>1. CASE Tick
  BY <1>1 DEF Tick, GrantsOrdered
<1>2. CASE Grant
  <2>1. last' = now
    BY <1>2 DEF Grant
  <2> QED
    BY <1>2, <2>1, GrantAppends DEF GrantsOrdered
<1>3. CASE Deny
  <2>1. last' = now /\ grants' = grants /\ last <= now
    BY <1>3 DEF Deny, TypeOK
  <2>2. \A i \in DOMAIN grants : grants[i] \in Int
    BY DEF TypeOK
  <2> QED
    BY <2>1, <2>2, LimiterAssumption DEF GrantsOrdered, TypeOK, LimiterAssumption
<1>4. CASE UNCHANGED vars
  BY <1>4 DEF vars, GrantsOrdered
<1> QED
  BY <1>1, <1>2, <1>3, <1>4 DEF Next

\* Moving the stamp from last to now credits exactly the time in between.
LEMMA StampMoves ==
    ASSUME TypeOK, NEW t \in Int
    PROVE  /\ Credit(now - t) = Credit(last - t) + Credit(now - last)
           /\ Credit(now - t) \in Int
           /\ Credit(last - t) \in Int
           /\ Credit(now - last) \in Int
<1>1. last - t \in Int /\ now - last \in Int /\ now - t = (last - t) + (now - last)
  BY LimiterAssumption DEF TypeOK, LimiterAssumption
<1> QED
  BY <1>1, CreditAdds

\* Every step keeps the account: what a grant takes out of the bucket is what
\* it adds to the grants, and time credits both sides alike.
LEMMA AccountStep == TypeOK /\ TokensAccounted /\ [Next]_vars => TokensAccounted'
<1> SUFFICES ASSUME TypeOK, TokensAccounted, [Next]_vars PROVE TokensAccounted'
  OBVIOUS
<1>0. tokens \in Int /\ Token \in Int /\ Capacity \in Int /\ Refilled \in Int
  BY LimiterAssumption, CapacityPositive, RefilledBounds DEF TypeOK, LimiterAssumption
<1>1. CASE Tick
  BY <1>1 DEF Tick, TokensAccounted, Capacity, Credit
<1>2. CASE Grant
  <2> DEFINE n == Len(grants)
  <2>1. tokens' = Refilled - Token /\ last' = now /\ Len(grants') = n + 1 /\ n \in Nat
    BY <1>2, GrantAppends DEF Grant
  <2>2. ASSUME NEW i \in 1 .. n
        PROVE  (n + 1 - i + 1) * Token + tokens' <= Capacity + Credit(now - grants'[i])
    <3>1. grants'[i] = grants[i] /\ grants[i] \in Int /\ i \in DOMAIN grants
      BY <1>2, GrantAppends
    <3>2. (n - i + 1) * Token + tokens <= Capacity + Credit(last - grants[i])
      BY <3>1 DEF TokensAccounted
    <3>3. /\ (n - i + 1) * Token \in Int
          /\ (n + 1 - i + 1) * Token = (n - i + 1) * Token + Token
      <4>1. n - i + 1 \in Int /\ n + 1 - i + 1 = (n - i + 1) + 1
        BY <2>1
      <4> QED
        BY <4>1, TokensAdd
    <3>4. /\ Credit(now - grants[i]) = Credit(last - grants[i]) + Credit(now - last)
          /\ Credit(last - grants[i]) \in Int /\ Credit(now - last) \in Int
      BY <3>1, StampMoves
    <3>5. Refilled <= tokens + Credit(now - last)
      BY RefilledBounds
    <3> HIDE DEF n
    <3> QED
      BY <1>0, <2>1, <3>1, <3>2, <3>3, <3>4, <3>5
  <2>3. (n + 1 - (n + 1) + 1) * Token + tokens' <= Capacity + Credit(now - grants'[n + 1])
    <3>1. grants'[n + 1] = now /\ now \in Int
      BY <1>2, GrantAppends
    <3>2. (n + 1 - (n + 1) + 1) * Token = Token
      BY <1>0, <2>1
    <3>3. Credit(now - grants'[n + 1]) = 0
      <4>1. now - grants'[n + 1] = 0
        BY <3>1
      <4>2. Credit(0) = 0
        BY CreditAdds
      <4> HIDE DEF n
      <4> QED
        BY <4>1, <4>2
    <3>4. Refilled <= Capacity
      BY RefilledBounds, CapacityPositive
    <3> HIDE DEF n
    <3> QED
      BY <1>0, <2>1, <3>2, <3>3, <3>4
  <2>4. DOMAIN grants' = 1 .. n + 1
    BY <1>2, GrantAppends
  <2>5. ASSUME NEW i \in DOMAIN grants'
        PROVE  (Len(grants') - i + 1) * Token + tokens' <= Capacity + Credit(last' - grants'[i])
    <3>1. i \in 1 .. n \/ i = n + 1
      BY <2>1, <2>4, <2>5
    <3> QED
      BY <2>1, <2>2, <2>3, <3>1
  <2> QED
    BY <2>5 DEF TokensAccounted, Capacity, Credit
<1>3. CASE Deny
  <2>1. tokens' = Refilled /\ last' = now /\ grants' = grants
    BY <1>3 DEF Deny
  <2>2. ASSUME NEW i \in DOMAIN grants
        PROVE  (Len(grants) - i + 1) * Token + tokens' <= Capacity + Credit(now - grants[i])
    <3>1. grants[i] \in Int /\ Len(grants) - i + 1 \in Int
      BY DEF TypeOK
    <3>2. (Len(grants) - i + 1) * Token + tokens <= Capacity + Credit(last - grants[i])
      BY DEF TokensAccounted
    <3>3. (Len(grants) - i + 1) * Token \in Int
      BY <3>1, TokensAdd
    <3>4. /\ Credit(now - grants[i]) = Credit(last - grants[i]) + Credit(now - last)
          /\ Credit(last - grants[i]) \in Int /\ Credit(now - last) \in Int
      BY <3>1, StampMoves
    <3>5. Refilled <= tokens + Credit(now - last)
      BY RefilledBounds
    <3> QED
      BY <1>0, <2>1, <3>2, <3>3, <3>4, <3>5
  <2> QED
    BY <2>1, <2>2 DEF TokensAccounted, Capacity, Credit
<1>4. CASE UNCHANGED vars
  BY <1>4 DEF vars, TokensAccounted, Capacity, Credit
<1> QED
  BY <1>1, <1>2, <1>3, <1>4 DEF Next

\* Every step keeps the window bound: a window that ends with the newest grant
\* is bounded by the account, every other one by the bound before the step.
LEMMA WindowStep ==
    TypeOK /\ TokensAccounted /\ TokensAccounted' /\ TypeOK' /\ WindowBound /\ [Next]_vars
        => WindowBound'
<1> SUFFICES ASSUME TypeOK, TokensAccounted, TokensAccounted', TypeOK', WindowBound, [Next]_vars
             PROVE  WindowBound'
  OBVIOUS
<1>1. CASE grants' = grants
  BY <1>1 DEF WindowBound, Capacity, Credit
<1>2. CASE Grant
  <2> DEFINE n == Len(grants)
  <2>1. SUFFICES ASSUME NEW i \in DOMAIN grants', NEW j \in DOMAIN grants', i <= j
                 PROVE  (j - i + 1) * Token <= Capacity + Credit(grants'[j] - grants'[i])
    BY DEF WindowBound, Capacity, Credit
  <2>2. i \in 1 .. n + 1 /\ j \in 1 .. n + 1 /\ n \in Nat /\ DOMAIN grants = 1 .. n
    BY <1>2, GrantAppends
  <2>3. CASE j \in 1 .. n
    <3>1. i \in 1 .. n
      BY <2>1, <2>2, <2>3
    <3>2. grants'[i] = grants[i] /\ grants'[j] = grants[j]
      BY <1>2, <2>3, <3>1, GrantAppends
    <3> QED
      BY <2>1, <2>2, <2>3, <3>1, <3>2 DEF WindowBound
  <2>4. CASE j = n + 1
    <3>1. Len(grants') = n + 1 /\ grants'[j] = now /\ last' = now
      BY <1>2, <2>4, GrantAppends DEF Grant
    <3>2. (j - i + 1) * Token + tokens' <= Capacity + Credit(grants'[j] - grants'[i])
      BY <2>4, <3>1 DEF TokensAccounted, Capacity, Credit
    <3>3. tokens' \in Int /\ tokens' >= 0 /\ Capacity \in Int
      BY CapacityPositive DEF TypeOK, Capacity
    <3>4. (j - i + 1) * Token \in Int
      <4>1. j - i + 1 \in Int
        BY <2>2
      <4> QED
        BY <4>1, TokensAdd
    <3>5. Credit(grants'[j] - grants'[i]) \in Int
      <4>1. grants'[j] - grants'[i] \in Int
        BY <2>1 DEF TypeOK
      <4> QED
        BY <4>1, CreditAdds
    <3> HIDE DEF n
    <3> QED
      BY <3>2, <3>3, <3>4, <3>5
  <2> QED
    BY <2>2, <2>3, <2>4
<1> QED
  BY <1>1, <1>2 DEF Next, Tick, Deny, vars
-----------------------------------------------------------------------------
\* The invariant holds of every behaviour, whatever the rate and the timing of
\* the calls.
THEOREM LimiterInvariant == Spec => []LimiterInv
<1>1. LimiterInv /\ [Next]_vars => LimiterInv'
  BY TypeStep, OrderStep, AccountStep, WindowStep DEF LimiterInv
<1> QED
  BY LimiterInit, <1>1, PTL DEF Spec

\* The bucket stays between empty and full, and its time stamp never passes the
\* clock.
THEOREM LimiterTypes == Spec => []TypeOK
BY LimiterInvariant, PTL DEF LimiterInv

\* In every window the limiter admits at most a full bucket and the refill of
\* the window.
THEOREM BurstBounded == Spec => []WindowBound
BY LimiterInvariant, PTL DEF LimiterInv

\* A caller that has waited for a token's worth of time is granted, provided the
\* bucket can hold a whole token, that is, for rates of one per second or more.
THEOREM PatientCaller == Capacity >= Token => (Spec => PatientCallerGranted)
<1> SUFFICES ASSUME Capacity >= Token PROVE Spec => PatientCallerGranted
  OBVIOUS
<1>1. TypeOK /\ [Next]_vars => [Deny => Credit(now - last) < Token]_vars
  <2> SUFFICES ASSUME TypeOK, Deny PROVE Credit(now - last) < Token
    OBVIOUS
  <2>1. Refilled < Token
    BY DEF Deny
  <2>2. now - last \in Int
    BY LimiterAssumption DEF TypeOK, LimiterAssumption
  <2>3. Credit(now - last) \in Int /\ Token \in Int /\ Capacity \in Int
    BY <2>2, CreditAdds, CapacityPositive, LimiterAssumption DEF LimiterAssumption
  <2> QED
    BY <2>1, <2>3 DEF Refilled, TypeOK
<1> QED
  BY <1>1, LimiterInvariant, PTL DEF Spec, LimiterInv, PatientCallerGranted

\* A rate of less than one token per second, which __init__ accepts, makes a
\* bucket that cannot hold a token: such a limiter never grants anything.
THEOREM SlowRateGrantsNothing == Capacity < Token => (Spec => [](grants = << >>))
<1> SUFFICES ASSUME Capacity < Token PROVE Spec => [](grants = << >>)
  OBVIOUS
<1>1. Init => grants = << >>
  BY DEF Init
<1>2. TypeOK /\ grants = << >> /\ [Next]_vars => (grants = << >>)'
  <2> SUFFICES ASSUME TypeOK, grants = << >>, [Next]_vars PROVE grants' = << >>
    OBVIOUS
  <2>1. ~Grant
    <3>1. Refilled \in Int /\ Refilled <= Capacity /\ Capacity \in Int /\ Token \in Int
      BY RefilledBounds, CapacityPositive, LimiterAssumption DEF LimiterAssumption
    <3> QED
      BY <3>1 DEF Grant
  <2> QED
    BY <2>1 DEF Next, Tick, Deny, vars
<1> QED
  BY <1>1, <1>2, LimiterTypes, PTL DEF Spec
=============================================================================
