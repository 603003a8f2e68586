------------------------- MODULE RateLimiterProofs --------------------------
(***************************************************************************)
(* What holds of RateLimiter for any number of workers, any limit, delay   *)
(* and time to live, and clocks that differ by any amount.                 *)
(***************************************************************************)
EXTENDS RateLimiter, FiniteSetTheorems, TLAPS

\* A worker with a request in hand has drawn its token.
TurnInv ==
    \A w \in Worker : pc[w] \notin {"idle", "crashed"} => turn[w] >= 1

Typed == TypeOK /\ TurnInv

LEMMA TokenType ==
    ASSUME Typed, NEW w \in Worker, pc[w] \notin {"idle", "crashed"}
    PROVE  TokenOf(w) \in Token
BY LimiterAssumption DEF Typed, TypeOK, TurnInv, TokenOf, Token

LEMMA TypedInit == Init => Typed
BY LimiterAssumption DEF Init, Typed, TypeOK, TurnInv, Steps, Attempt

\* Every step keeps the types.
LEMMA TypedStep == Typed /\ [Next]_vars => Typed'
<1> SUFFICES ASSUME Typed, [Next]_vars PROVE Typed'
  OBVIOUS
<1> USE LimiterAssumption
        DEF Typed, TypeOK, TurnInv, Steps, Attempt, Goto, redis, history
<1>1. ASSUME NEW w \in Worker, Ask(w) PROVE Typed'
  BY <1>1 DEF Ask
<1>2. ASSUME NEW w \in Worker, PassGate(w) PROVE Typed'
  BY <1>2 DEF PassGate
<1>3. ASSUME NEW w \in Worker, ReadClock(w) PROVE Typed'
  BY <1>3 DEF ReadClock
<1>4. ASSUME NEW w \in Worker, Watch(w) PROVE Typed'
  BY <1>4 DEF Watch
<1>5. ASSUME NEW w \in Worker, Trim(w) PROVE Typed'
  BY <1>5 DEF Trim, Touch
<1>6. ASSUME NEW w \in Worker, Count(w) PROVE Typed'
  <2>1. pc' \in [Worker -> Steps]
    BY <1>6 DEF Count
  <2> QED
    BY <1>6, <2>1 DEF Count
<1>7. ASSUME NEW w \in Worker, Execute(w) PROVE Typed'
  <2>1. TokenOf(w) \in Token
    BY <1>7, TokenType DEF Execute
  <2>2. left' \in [Token -> Int]
    BY <1>7, <2>1 DEF Execute
  <2>3. leases' \subseteq Token
    BY <1>7, <2>1 DEF Execute
  <2> QED
    BY <1>7, <2>2, <2>3 DEF Execute, Touch
<1>8. ASSUME NEW w \in Worker, Retry(w) PROVE Typed'
  BY <1>8 DEF Retry
<1>9. ASSUME NEW w \in Worker, Release(w) PROVE Typed'
  BY <1>9 DEF Release, Touch
<1>10. ASSUME NEW w \in Worker, Crash(w) PROVE Typed'
  BY <1>10 DEF Crash
<1>11. ASSUME NEW w \in Worker, Restart(w) PROVE Typed'
  BY <1>11 DEF Restart
<1>12. ASSUME Tick PROVE Typed'
  <2>1. gate' \in 0 .. Delay /\ sinceStart' \in 0 .. Delay
    BY <1>12 DEF Tick
  <2>2. left' \in [Token -> Int]
    BY <1>12 DEF Tick
  <2>3. age' \in [Worker -> 0 .. MaxAge]
    BY <1>12 DEF Tick
  <2> QED
    BY <1>12, <2>1, <2>2, <2>3 DEF Tick
<1>13. ASSUME UNCHANGED vars PROVE Typed'
  BY <1>13 DEF vars
<1> QED
  BY <1>1, <1>2, <1>3, <1>4, <1>5, <1>6, <1>7, <1>8, <1>9, <1>10, <1>11,
     <1>12, <1>13 DEF Next, Step

LEMMA TypedInvariant == Spec => []Typed
BY TypedInit, TypedStep, PTL DEF Spec

\* The state of the limiter keeps its types.
THEOREM LimiterTypes == Spec => []TypeOK
<1>1. Typed => TypeOK
  BY DEF Typed
<1> QED
  BY TypedInvariant, <1>1, PTL

-----------------------------------------------------------------------------
(***************************************************************************)
(* The limit.  ZCARD is read two steps before EXEC, so the bound alone is  *)
(* not inductive: what makes the count good is that a worker whose watched *)
(* key was not touched since knows there is room (RoomInv).                *)
(***************************************************************************)
RoomInv ==
    \A w \in Worker :
        pc[w] = "exec" /\ ~dirty[w] => Cardinality(leases) < Max

\* A lease that no clock has expired is in the set.
KeptInv ==
    \A w \in Worker :
        pc[w] = "fetch" /\ left[TokenOf(w)] > MaxSkew => TokenOf(w) \in leases

LimiterInv ==
    /\ IsFiniteSet(leases)
    /\ LeasesBounded
    /\ RoomInv
    /\ KeptInv

\* A set of leases that only loses members stays finite and bounded.
LEMMA FewerLeases ==
    ASSUME IsFiniteSet(leases), LeasesBounded, leases' \subseteq leases
    PROVE  IsFiniteSet(leases)' /\ LeasesBounded'
<1>1. IsFiniteSet(leases') /\ Cardinality(leases') <= Cardinality(leases)
  BY FS_Subset
<1>2. Cardinality(leases) \in Nat /\ Cardinality(leases') \in Nat
  BY <1>1, FS_CardinalityType
<1> QED
  BY <1>1, <1>2, LimiterAssumption DEF LeasesBounded

\* EXEC adds one lease where there was room for it.
LEMMA OneMoreLease ==
    ASSUME LimiterInv, NEW w \in Worker, Execute(w)
    PROVE  /\ Cardinality(leases) < Max
           /\ IsFiniteSet(leases)' /\ LeasesBounded'
<1>1. Cardinality(leases) < Max
  BY DEF Execute, LimiterInv, RoomInv
<1>2. leases' = leases \cup {TokenOf(w)}
  BY DEF Execute
<1>3. IsFiniteSet(leases') /\ Cardinality(leases') <= Cardinality(leases) + 1
  BY <1>2, FS_AddElement, FS_CardinalityType DEF LimiterInv
<1>4. Cardinality(leases) \in Nat /\ Cardinality(leases') \in Nat
  BY <1>3, FS_CardinalityType DEF LimiterInv
<1> QED
  BY <1>1, <1>3, <1>4, LimiterAssumption DEF LeasesBounded

\* Every step keeps the limit.
LEMMA LimiterStep == Typed /\ LimiterInv /\ [Next]_vars => LimiterInv'
<1> SUFFICES ASSUME Typed, LimiterInv, [Next]_vars PROVE LimiterInv'
  OBVIOUS
<1> USE DEF Goto
<1>1. ASSUME NEW w \in Worker, Trim(w) PROVE LimiterInv'
  <2>1. IsFiniteSet(leases)' /\ LeasesBounded'
    BY <1>1, FewerLeases DEF Trim, LimiterInv
  <2>2. RoomInv'
    <3>1. CASE Stale(w) = {}
      <4>1. leases' = leases /\ dirty' = dirty
        BY <1>1, <3>1 DEF Trim
      <4> QED
        BY <1>1, <4>1 DEF Trim, LimiterInv, RoomInv, Typed, TypeOK
    <3>2. CASE Stale(w) # {}
      BY <1>1, <3>2 DEF Trim, Touch, RoomInv
    <3> QED
      BY <3>1, <3>2
  <2>3. KeptInv'
    <3> SUFFICES ASSUME NEW v \in Worker, pc'[v] = "fetch",
                        left'[TokenOf(v)'] > MaxSkew
                 PROVE  TokenOf(v)' \in leases'
      BY DEF KeptInv
    <3>1. /\ TokenOf(v)' = TokenOf(v) /\ left' = left /\ pc[v] = "fetch"
          /\ leases' = leases \ Stale(w)
      BY <1>1 DEF Trim, TokenOf, Typed, TypeOK
    <3>2. TokenOf(v) \in leases /\ TokenOf(v) \in Token
      BY <3>1, TokenType DEF LimiterInv, KeptInv
    <3>3. TokenOf(v) \notin Stale(w)
      <4>1. /\ Skew[w] \in Int /\ age[w] \in Nat /\ MaxSkew \in Nat
            /\ left[TokenOf(v)] \in Int
            /\ Skew[w] <= MaxSkew
        BY <3>2, LimiterAssumption DEF Typed, TypeOK
      <4>2. Skew[w] - age[w] <= MaxSkew
        BY <4>1
      <4>3. left[TokenOf(v)] > MaxSkew
        BY <3>1
      <4> QED
        BY <4>1, <4>2, <4>3 DEF Stale
    <3> QED
      BY <3>1, <3>2, <3>3
  <2> QED
    BY <2>1, <2>2, <2>3 DEF LimiterInv
<1>2. ASSUME NEW w \in Worker, Execute(w) PROVE LimiterInv'
  <2>1. IsFiniteSet(leases)' /\ LeasesBounded'
    BY <1>2, OneMoreLease
  <2>2. RoomInv'
    BY <1>2 DEF Execute, Touch, RoomInv
  <2>3. KeptInv'
    <3> SUFFICES ASSUME NEW v \in Worker, pc'[v] = "fetch",
                        left'[TokenOf(v)'] > MaxSkew
                 PROVE  TokenOf(v)' \in leases'
      BY DEF KeptInv
    <3>1. TokenOf(v)' = TokenOf(v) /\ leases' = leases \cup {TokenOf(w)}
      BY <1>2 DEF Execute, TokenOf
    <3>2. CASE v = w
      BY <3>1, <3>2
    <3>3. CASE v # w
      <4>1. pc[v] = "fetch" /\ TokenOf(v) # TokenOf(w)
        BY <1>2, <3>3 DEF Execute, TokenOf, Typed, TypeOK
      <4>2. TokenOf(v) \in Token
        BY <4>1, TokenType
      <4>3. left'[TokenOf(v)] = left[TokenOf(v)]
        BY <1>2, <4>1, <4>2 DEF Execute, Typed, TypeOK
      <4> QED
        BY <3>1, <4>1, <4>3 DEF LimiterInv, KeptInv
    <3> QED
      BY <3>2, <3>3
  <2> QED
    BY <2>1, <2>2, <2>3 DEF LimiterInv
<1>3. ASSUME NEW w \in Worker, Release(w) PROVE LimiterInv'
  <2>1. IsFiniteSet(leases)' /\ LeasesBounded'
    BY <1>3, FewerLeases DEF Release, LimiterInv
  <2>2. RoomInv'
    <3>1. CASE TokenOf(w) \in leases
      BY <1>3, <3>1 DEF Release, Touch, RoomInv
    <3>2. CASE TokenOf(w) \notin leases
      <4>1. leases' = leases /\ dirty' = dirty
        BY <1>3, <3>2 DEF Release
      <4> QED
        BY <1>3, <4>1 DEF Release, LimiterInv, RoomInv, Typed, TypeOK
    <3> QED
      BY <3>1, <3>2
  <2>3. KeptInv'
    <3> SUFFICES ASSUME NEW v \in Worker, pc'[v] = "fetch",
                        left'[TokenOf(v)'] > MaxSkew
                 PROVE  TokenOf(v)' \in leases'
      BY DEF KeptInv
    <3>1. /\ v # w /\ pc[v] = "fetch" /\ left' = left
          /\ TokenOf(v)' = TokenOf(v)
          /\ leases' = leases \ {TokenOf(w)}
      BY <1>3 DEF Release, TokenOf, Typed, TypeOK
    <3>2. TokenOf(v) # TokenOf(w)
      BY <3>1 DEF TokenOf
    <3> QED
      BY <3>1, <3>2 DEF LimiterInv, KeptInv
  <2> QED
    BY <2>1, <2>2, <2>3 DEF LimiterInv
<1>4. ASSUME Tick PROVE LimiterInv'
  <2>1. KeptInv'
    <3> SUFFICES ASSUME NEW v \in Worker, pc'[v] = "fetch",
                        left'[TokenOf(v)'] > MaxSkew
                 PROVE  TokenOf(v)' \in leases'
      BY DEF KeptInv
    <3>1. pc[v] = "fetch" /\ TokenOf(v)' = TokenOf(v) /\ leases' = leases
      BY <1>4 DEF Tick, TokenOf
    <3>2. TokenOf(v) \in Token
      BY <3>1, TokenType
    <3>3. left[TokenOf(v)] > MaxSkew
      <4>1. left[TokenOf(v)] \in Int /\ MaxSkew \in Nat
        BY <3>2, LimiterAssumption DEF Typed, TypeOK
      <4>2. \/ left'[TokenOf(v)] = left[TokenOf(v)]
            \/ left'[TokenOf(v)] = left[TokenOf(v)] - 1
        BY <1>4, <3>2 DEF Tick
      <4> QED
        BY <3>1, <4>1, <4>2
    <3> QED
      BY <3>1, <3>3 DEF LimiterInv, KeptInv
  <2> QED
    BY <1>4, <2>1 DEF Tick, LimiterInv, LeasesBounded, RoomInv
<1>5. ASSUME NEW w \in Worker,
             \/ Ask(w) \/ PassGate(w) \/ ReadClock(w) \/ Watch(w) \/ Count(w)
             \/ Retry(w) \/ Crash(w) \/ Restart(w)
      PROVE  LimiterInv'
  <2>1. leases' = leases /\ left' = left
    BY <1>5 DEF Ask, PassGate, ReadClock, Watch, Count, Retry, Crash, Restart,
                redis
  <2>2. \A v \in Worker : pc'[v] = "fetch" =>
            pc[v] = "fetch" /\ TokenOf(v)' = TokenOf(v)
    BY <1>5 DEF Ask, PassGate, ReadClock, Watch, Count, Retry, Crash, Restart,
                TokenOf, Typed, TypeOK
  <2>3. \A v \in Worker : pc'[v] = "exec" /\ ~dirty'[v] =>
            (pc[v] = "exec" /\ ~dirty[v]) \/ Cardinality(leases) < Max
    <3>1. CASE Watch(w)
      BY <3>1 DEF Watch, Typed, TypeOK
    <3>2. CASE Count(w)
      BY <3>2 DEF Count, Typed, TypeOK
    <3>3. CASE ~Watch(w) /\ ~Count(w)
      BY <1>5, <3>3 DEF Ask, PassGate, ReadClock, Retry, Crash, Restart,
                        Typed, TypeOK
    <3> QED
      BY <3>1, <3>2, <3>3
  <2> QED
    BY <2>1, <2>2, <2>3 DEF LimiterInv, LeasesBounded, RoomInv, KeptInv
<1>6. ASSUME UNCHANGED vars PROVE LimiterInv'
  BY <1>6 DEF vars, redis, LimiterInv, LeasesBounded, RoomInv, KeptInv, TokenOf
<1> QED
  BY <1>1, <1>2, <1>3, <1>4, <1>5, <1>6 DEF Next, Step

LEMMA LimiterInvariant == Spec => [](Typed /\ LimiterInv)
<1>1. Init => Typed /\ LimiterInv
  BY TypedInit, FS_EmptySet, LimiterAssumption
     DEF Init, LimiterInv, LeasesBounded, RoomInv, KeptInv
<1> QED
  BY <1>1, TypedStep, LimiterStep, PTL DEF Spec

\* There are never more leases than the limit.
THEOREM LimiterBounds == Spec => []LeasesBounded
<1>1. LimiterInv => LeasesBounded
  BY DEF LimiterInv
<1> QED
  BY LimiterInvariant, <1>1, PTL

\* Requests with a lease in force are at most the limit: each has its own
\* token in the set.
THEOREM LimiterBoundsInFlight == Spec => []InFlightBounded
<1>1. Typed /\ LimiterInv => InFlightBounded
  <2> SUFFICES ASSUME Typed, LimiterInv PROVE InFlightBounded
    OBVIOUS
  <2> DEFINE Flying == {w \in Worker :
                           pc[w] = "fetch" /\ left[TokenOf(w)] > MaxSkew}
             token == [w \in Flying |-> TokenOf(w)]
  <2>1. token \in Injection(Flying, leases)
    BY DEF LimiterInv, KeptInv, TokenOf, Injection, IsInjective
  <2>2. /\ IsFiniteSet(leases) /\ Cardinality(leases) <= Max
    BY DEF LimiterInv, LeasesBounded
  <2> HIDE DEF Flying, token
  <2>3. IsFiniteSet(Flying) /\ Cardinality(Flying) <= Cardinality(leases)
    BY <2>1, <2>2, FS_Injection
  <2>4. Cardinality(Flying) \in Nat /\ Cardinality(leases) \in Nat
    BY <2>2, <2>3, FS_CardinalityType
  <2> QED
    BY <2>2, <2>3, <2>4, LimiterAssumption DEF InFlightBounded, Flying
<1> QED
  BY LimiterInvariant, <1>1, PTL

\* The commands of all workers together implement the semaphore.
THEOREM LimiterImplementsSemaphore == Spec => ImplementsSemaphore
<1>1. Init => Semaphore!Init
  BY DEF Init, Semaphore!Init
<1>2. Typed /\ LimiterInv /\ [Next]_vars => [Semaphore!Next]_leases
  <2> SUFFICES ASSUME Typed, LimiterInv, [Next]_vars
               PROVE  Semaphore!Next \/ leases' = leases
    OBVIOUS
  <2>1. ASSUME NEW w \in Worker, Execute(w), TokenOf(w) \notin leases
        PROVE  Semaphore!Next
    <3>1. TokenOf(w) \in Token
      BY <2>1, TokenType DEF Execute
    <3>2. Cardinality(leases) < Max
      BY <2>1, OneMoreLease
    <3>3. leases \ {} = leases
      OBVIOUS
    <3>4. leases' = leases \cup {TokenOf(w)}
      BY <2>1 DEF Execute
    <3>5. Semaphore!Cardinality(leases) = Cardinality(leases)
      BY DEF Semaphore!Cardinality, Cardinality
    <3>6. Semaphore!Acquire(TokenOf(w), {})
      BY <2>1, <3>2, <3>3, <3>4, <3>5 DEF Semaphore!Acquire
    <3>7. {} \in SUBSET leases
      OBVIOUS
    <3> QED
      BY <3>1, <3>6, <3>7 DEF Semaphore!Next
  <2>2. ASSUME NEW w \in Worker, Execute(w), TokenOf(w) \in leases
        PROVE  leases' = leases
    BY <2>2 DEF Execute
  <2>3. ASSUME NEW w \in Worker, Trim(w) PROVE Semaphore!Next
    BY <2>3 DEF Trim, Stale, Semaphore!Next, Semaphore!Drop
  <2>4. ASSUME NEW w \in Worker, Release(w)
        PROVE  Semaphore!Next \/ leases' = leases
    <3>1. CASE TokenOf(w) \in leases
      BY <2>4, <3>1 DEF Release, Semaphore!Next, Semaphore!Drop
    <3>2. CASE TokenOf(w) \notin leases
      BY <2>4, <3>2 DEF Release
    <3> QED
      BY <3>1, <3>2
  <2>5. ASSUME NEW w \in Worker,
               \/ Ask(w) \/ PassGate(w) \/ ReadClock(w) \/ Watch(w) \/ Count(w)
               \/ Retry(w) \/ Crash(w) \/ Restart(w)
        PROVE  leases' = leases
    BY <2>5 DEF Ask, PassGate, ReadClock, Watch, Count, Retry, Crash, Restart,
                redis
  <2> QED
    BY <2>1, <2>2, <2>3, <2>4, <2>5 DEF Next, Step, Tick, vars, redis
<1> QED
  BY LimiterInvariant, <1>1, <1>2, PTL
     DEF Spec, ImplementsSemaphore, Semaphore!Spec
=============================================================================
