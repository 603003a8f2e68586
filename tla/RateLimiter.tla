---------------------------- MODULE RateLimiter -----------------------------
(***************************************************************************)
(* The rate limit of one domain, shared by all crawl workers through Redis *)
(* (crawl/rate_limiter.py, RedisCoordinatedRateLimiter): a delay gate that *)
(* is a key with a time to live, then a semaphore of leases in a sorted    *)
(* set, taken with optimistic locking (WATCH, MULTI, EXEC).  Each command  *)
(* is an action of its own, since time passes and others run in between.   *)
(*                                                                         *)
(* Time is relative: gate and left count down the ticks that a key or a    *)
(* lease still has, and age counts up the ticks since a worker read its    *)
(* clock, which it does once per attempt (now, line 185) however often     *)
(* EXEC fails.  Clocks of different machines differ by Skew.               *)
(***************************************************************************)
EXTENDS FiniteSets, Integers

CONSTANTS
    Worker,
    Max,         \* max_concurrent_per_domain
    Delay,       \* min_delay_seconds, in ticks
    TTL,         \* lease_ttl_seconds, in ticks
    Skew,        \* [Worker -> Int], how far a worker's clock is ahead
    MaxSkew,     \* bound on the skew, either way
    Tokens,      \* the tokens a worker draws from: one that is in no lease is as new
    MaxAge,      \* bound on the ticks one attempt takes
    MaxCrashes   \* bound on the crashes of a behaviour

ASSUME LimiterAssumption ==
    /\ Max \in Nat \ {0}
    /\ Delay \in Nat
    /\ TTL \in Nat \ {0}
    /\ MaxSkew \in Nat
    /\ Skew \in [Worker -> Int]
    /\ \A w \in Worker : -MaxSkew <= Skew[w] /\ Skew[w] <= MaxSkew
    /\ Tokens \in Nat
    /\ MaxAge \in Nat
    /\ MaxCrashes \in Nat

VARIABLES
    \* Redis
    gate,       \* ticks until the gate key expires, 0 when there is none
    leases,     \* members of the sorted set
    left,       \* ticks until the score of a token is in the past
    \* one entry per worker
    pc,
    turn,       \* the token the worker has drawn last, 0 before the first
    age,        \* ticks since the worker read the clock
    dirty,      \* the watched key was modified: EXEC will fail
    \* history
    sinceStart, \* ticks since the last request started
    crashes

redis   == <<gate, leases, left>>
history == <<sinceStart, crashes>>
vars    == <<redis, pc, turn, age, dirty, history>>

Token     == Worker \X (1 .. Tokens)
TokenOf(w) == <<w, turn[w]>>

\* Below this, every clock and every age agree that a lease is over.
Oldest == -(MaxAge + MaxSkew)

Attempt == {"watch", "trim", "count", "exec"}
Steps   == {"idle", "gate", "clock", "fetch", "crashed"} \cup Attempt

TypeOK ==
    /\ gate \in 0 .. Delay
    /\ leases \subseteq Token
    /\ left \in [Token -> Int]
    /\ pc \in [Worker -> Steps]
    /\ turn \in [Worker -> 0 .. Tokens]
    /\ age \in [Worker -> 0 .. MaxAge]
    /\ dirty \in [Worker -> BOOLEAN]
    /\ sinceStart \in 0 .. Delay
    /\ crashes \in 0 .. MaxCrashes

Init ==
    /\ gate = 0
    /\ leases = {}
    /\ left = [t \in Token |-> 0]
    /\ pc = [w \in Worker |-> "idle"]
    /\ turn = [w \in Worker |-> 0]
    /\ age = [w \in Worker |-> 0]
    /\ dirty = [w \in Worker |-> FALSE]
    /\ sinceStart = Delay
    /\ crashes = 0

-----------------------------------------------------------------------------
Goto(w, step) == pc' = [pc EXCEPT ![w] = step]

\* A write to the key fails the EXEC of all who watch it, the writer too.
Touch == dirty' = [v \in Worker |-> TRUE]

\* acquire draws a token for the request, which nobody has (uuid4): here the
\* first that is in no lease.
Ask(w) ==
    /\ pc[w] = "idle"
    /\ \E n \in 1 .. Tokens :
           /\ <<w, n>> \notin leases /\ \A m \in 1 .. (n - 1) : <<w, m>> \in leases
           /\ turn' = [turn EXCEPT ![w] = n]
    /\ Goto(w, "gate")
    /\ UNCHANGED <<redis, age, dirty, history>>

\* SET NX PX succeeds, or there is no delay.  An attempt on a closed gate
\* changes nothing and is repeated after poll_interval_seconds.
PassGate(w) ==
    /\ pc[w] = "gate"
    /\ gate = 0
    /\ gate' = Delay
    /\ Goto(w, "clock")
    /\ UNCHANGED <<leases, left, turn, age, dirty, history>>

\* now = time.time()
ReadClock(w) ==
    /\ pc[w] = "clock"
    /\ age' = [age EXCEPT ![w] = 0]
    /\ Goto(w, "watch")
    /\ UNCHANGED <<redis, turn, dirty, history>>

Watch(w) ==
    /\ pc[w] = "watch"
    /\ dirty' = [dirty EXCEPT ![w] = FALSE]
    /\ Goto(w, "trim")
    /\ UNCHANGED <<redis, turn, age, history>>

\* The leases whose score is not after the time the worker read.
Stale(w) == {t \in leases : left[t] <= Skew[w] - age[w]}

\* Mutant of Trim: nobody clears the leases of the dead.
TrimNothing(w) ==
    /\ pc[w] = "trim"
    /\ Goto(w, "count")
    /\ UNCHANGED <<redis, dirty, turn, age, history>>

\* ZREMRANGEBYSCORE
Trim(w) ==
    /\ pc[w] = "trim"
    /\ leases' = leases \ Stale(w)
    /\ IF Stale(w) = {} THEN UNCHANGED dirty ELSE Touch
    /\ Goto(w, "count")
    /\ UNCHANGED <<gate, left, turn, age, history>>

\* ZCARD: go on, or UNWATCH and start over with the gate, whose pass is lost.
Count(w) ==
    /\ pc[w] = "count"
    /\ Goto(w, IF Cardinality(leases) < Max THEN "exec" ELSE "gate")
    /\ UNCHANGED <<redis, turn, age, dirty, history>>

\* Mutant of Execute: the watched key may have changed.
ExecuteUnwatched(w) ==
    /\ pc[w] = "exec"
    /\ leases' = leases \cup {TokenOf(w)}
    /\ left' = [left EXCEPT ![TokenOf(w)] = TTL + Skew[w] - age[w]]
    /\ Touch
    /\ sinceStart' = 0
    /\ Goto(w, "fetch")
    /\ UNCHANGED <<gate, turn, age, crashes>>

\* EXEC with the ZADD of the token: acquire returns and the request starts.
Execute(w) ==
    /\ pc[w] = "exec"
    /\ ~dirty[w]
    /\ leases' = leases \cup {TokenOf(w)}
    /\ left' = [left EXCEPT ![TokenOf(w)] = TTL + Skew[w] - age[w]]
    /\ Touch
    /\ sinceStart' = 0
    /\ Goto(w, "fetch")
    /\ UNCHANGED <<gate, turn, age, crashes>>

\* WatchError: once more, with the time read before.
Retry(w) ==
    /\ pc[w] = "exec"
    /\ dirty[w]
    /\ Goto(w, "watch")
    /\ UNCHANGED <<redis, turn, age, dirty, history>>

\* Mutant of Release: it takes every lease of the domain.
ReleaseAll(w) ==
    /\ pc[w] = "fetch"
    /\ leases' = {}
    /\ Touch
    /\ Goto(w, "idle")
    /\ UNCHANGED <<gate, left, turn, age, history>>

\* The request ends and its token is returned (ZREM), if it is still there.
Release(w) ==
    /\ pc[w] = "fetch"
    /\ leases' = leases \ {TokenOf(w)}
    /\ IF TokenOf(w) \in leases THEN Touch ELSE UNCHANGED dirty
    /\ Goto(w, "idle")
    /\ UNCHANGED <<gate, left, turn, age, history>>

\* The worker dies, or Redis fails it; its lease stays behind.
Crash(w) ==
    /\ pc[w] \notin {"idle", "crashed"}
    /\ crashes < MaxCrashes
    /\ crashes' = crashes + 1
    /\ Goto(w, "crashed")
    /\ UNCHANGED <<redis, turn, age, dirty, sinceStart>>

Restart(w) ==
    /\ pc[w] = "crashed"
    /\ Goto(w, "idle")
    /\ UNCHANGED <<redis, turn, age, dirty, history>>

\* Time passes for everyone.
Tick ==
    /\ \A w \in Worker : pc[w] \in Attempt => age[w] < MaxAge
    /\ gate' = IF gate > 0 THEN gate - 1 ELSE 0
    /\ left' = [t \in Token |-> IF left[t] > Oldest THEN left[t] - 1 ELSE left[t]]
    /\ age' = [w \in Worker |-> IF pc[w] \in Attempt THEN age[w] + 1 ELSE age[w]]
    /\ sinceStart' = IF sinceStart < Delay THEN sinceStart + 1 ELSE Delay
    /\ UNCHANGED <<leases, pc, turn, dirty, crashes>>

-----------------------------------------------------------------------------
Step(w) ==
    \/ PassGate(w) \/ ReadClock(w)
    \/ Watch(w) \/ Trim(w) \/ Count(w) \/ Execute(w) \/ Retry(w)
    \/ Release(w)

Next == Tick \/ \E w \in Worker : Ask(w) \/ Step(w) \/ Crash(w) \/ Restart(w)

Spec == Init /\ [][Next]_vars

\* Time goes on, a live process runs, its requests end (the fetcher has a
\* timeout of its own) and the supervisor restarts what failed.  Nobody has to
\* ask again, and anybody may ask for ever.
Fairness ==
    /\ WF_vars(Tick)
    /\ \A w \in Worker : WF_vars(Step(w)) /\ WF_vars(Restart(w))

FairSpec == Spec /\ Fairness

-----------------------------------------------------------------------------
\* There are never more leases than the limit, whichever way the attempts of
\* the workers interleave and however their clocks differ.
LeasesBounded == Cardinality(leases) <= Max

\* The requests whose lease no clock of the cluster has expired are at most
\* the limit: no one else's clean-up or release costs a worker its place.
InFlightBounded ==
    Cardinality({w \in Worker :
        pc[w] = "fetch" /\ left[TokenOf(w)] > MaxSkew}) <= Max

\* The whole protocol of commands is a semaphore with leases.
Semaphore == INSTANCE LeaseSemaphore WITH active <- leases

ImplementsSemaphore == Semaphore!Spec

\* A request that has asked for a turn and has not got it.
Waits(w) == pc[w] \in {"gate", "clock"} \cup Attempt

\* The domain is never blocked: as long as requests wait for a turn, one of
\* them starts, again and again, although one that died left its lease behind,
\* the gate is passed in vain while the leases are full and attempts fail one
\* another's EXEC.  It is not promised to a certain worker: the gate has no
\* queue, and whoever finds it open first goes.
DomainMovesOn ==
    (\E w \in Worker : Waits(w))
        ~> (\E w \in Worker : pc[w] = "fetch") \/ ~\E w \in Worker : Waits(w)

\* What is not so: every request is served.
EveryRequestServed ==
    \A w \in Worker : pc[w] = "gate" ~> pc[w] \in {"fetch", "crashed"}

\* The delay gate "by itself" spaces the starts of requests: at most one new
\* request per delay window in the whole cluster.
StartsAreSpaced ==
    [][\A w \in Worker : Execute(w) => sinceStart >= Delay]_vars
=============================================================================
