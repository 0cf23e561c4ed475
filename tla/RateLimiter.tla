----------------------------- MODULE RateLimiter -----------------------------
(***************************************************************************)
(* The token bucket of reconnaissance/adapters/egress.py, class            *)
(* RateLimiter.  ``try_acquire`` runs under the limiter's own lock, clock  *)
(* reading included, so one call is one step.                              *)
(*                                                                         *)
(* The source counts in floating-point tokens and seconds.  Here time is   *)
(* counted in ticks and the bucket in units: one token is Token units, a   *)
(* tick refills RefillPerTick units, and a second is TicksPerSecond ticks, *)
(* so rate_per_second is RefillPerTick * TicksPerSecond / Token tokens.    *)
(* Fractional rates and fractional refills are therefore exact; only the   *)
(* rounding of floats is left out.                                         *)
(***************************************************************************)
EXTENDS Integers, Sequences

CONSTANTS
    Token,           \* units in one token
    RefillPerTick,   \* units that flow in per tick
    TicksPerSecond,  \* ticks in a second
    MaxClock         \* bound: the clock stops here

\* __init__ refuses a rate that is not positive and accepts every other one.
ASSUME LimiterAssumption ==
    /\ Token \in Nat \ {0}
    /\ RefillPerTick \in Nat \ {0}
    /\ TicksPerSecond \in Nat \ {0}
    /\ MaxClock \in Nat

VARIABLES
    tokens,  \* _tokens, in units
    last,    \* _last, the clock reading of the latest call
    now,     \* the injected monotonic clock
    grants   \* history: the clock reading of every call that returned True

vars == <<tokens, last, now, grants>>

-----------------------------------------------------------------------------
\* _capacity: a second's worth of refill, also what the bucket starts with.
Capacity == RefillPerTick * TicksPerSecond

\* What flows into the bucket in d ticks.
Credit(d) == RefillPerTick * d

\* A slip: the rate is forgotten.
RefilledWithoutRate ==
    LET filled == tokens + (now - last)
    IN  IF filled < Capacity THEN filled ELSE Capacity

\* The bucket as a call that reads the clock now finds it.
Refilled ==
    LET filled == tokens + Credit(now - last)
    IN  IF filled < Capacity THEN filled ELSE Capacity

Init ==
    /\ tokens = Capacity
    /\ last = 0
    /\ now = 0
    /\ grants = << >>

\* Time passes between calls.
Tick ==
    /\ now < MaxClock
    /\ now' = now + 1
    /\ UNCHANGED <<tokens, last, grants>>

\* A slip: the time stamp is not moved, so elapsed time is credited twice.
GrantWithoutStamp ==
    /\ Refilled >= Token
    /\ tokens' = Refilled - Token
    /\ grants' = Append(grants, now)
    /\ UNCHANGED <<last, now>>

\* try_acquire returns True: the bucket is refilled and one token is taken.
Grant ==
    /\ Refilled >= Token
    /\ tokens' = Refilled - Token
    /\ last' = now
    /\ grants' = Append(grants, now)
    /\ UNCHANGED now

\* try_acquire returns False: the refill and the time stamp are kept.
Deny ==
    /\ Refilled < Token
    /\ tokens' = Refilled
    /\ last' = now
    /\ UNCHANGED <<now, grants>>

Next == Tick \/ Grant \/ Deny

Spec == Init /\ [][Next]_vars

-----------------------------------------------------------------------------
TypeOK ==
    /\ tokens \in 0 .. Capacity
    /\ now \in 0 .. MaxClock
    /\ last \in 0 .. now
    /\ grants \in Seq(0 .. now)

\* Between any two grants the limiter admitted no more than a full bucket and
\* what has flowed in since the first of them: whatever the callers' timing,
\* the burst of any window is bounded ("token bucket bounding global
\* requests-per-second").
WindowBound ==
    \A i, j \in DOMAIN grants :
        i <= j => (j - i + 1) * Token <= Capacity + Credit(grants[j] - grants[i])

\* A call is refused only when less than a token's worth of time has passed
\* since the previous call: a caller that waits long enough is never refused,
\* whatever happened before ("Consume one token if available; return False if
\* the bucket is empty").
PatientCallerGranted == [][Deny => Credit(now - last) < Token]_vars
=============================================================================
