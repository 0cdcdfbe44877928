------------------------------ MODULE RateLimit -----------------------------
(***************************************************************************)
(* The requests of one client against one limit: RateLimitMiddleware and   *)
(* the sliding window of its backend, a Redis sorted set shared by all     *)
(* replicas or a deque of one process.                                     *)
(*                                                                         *)
(* The deque is read, pruned and extended without a suspension.  With      *)
(* Redis a hit is stamped and its cut-off computed by the replica's clock  *)
(* before the pipeline travels, so hits may arrive in another order than   *)
(* they were stamped in: up to Late ticks after the stamp (socket_timeout),*)
(* or up to Early before it, when the replica's clock is fast.  Times here *)
(* are those at which the backend serves a hit.                            *)
(***************************************************************************)
EXTENDS Integers, FiniteSetsExt

CONSTANTS
    Window,        \* window_seconds
    BurstLimit,    \* _effective_burst_limit: admitted per window
    Late, Early,   \* how far a stamp may lie behind and ahead
    Grace,         \* what expire adds to the window
    MaxClock,      \* bound: the last tick
    MaxHits        \* bound: hits kept at a time

\* What the constants must be.
RateLimitAssumption ==
    /\ Window \in Nat \ {0} /\ BurstLimit \in Nat /\ MaxClock \in Nat /\ MaxHits \in Nat
    /\ Late \in Nat /\ Early \in Nat /\ Late + Early <= Window
    /\ Grace \in Nat /\ Early <= Grace

Clock == 0 .. MaxClock
Stamps == -Late .. MaxClock + Early

VARIABLES
    backend,   \* "redis" or "process"
    clock,
    hits,      \* [Stamps -> how many hits the backend keeps with that stamp]
    lastHit,   \* when expire was last renewed
    passed     \* history: [Clock -> requests forwarded at that time]

rateVars == <<backend, clock, hits, lastHit, passed>>

NoHits == [s \in Stamps |-> 0]

Init ==
    /\ backend \in {"redis", "process"}
    /\ clock = 0
    /\ hits = NoHits /\ lastHit = 0
    /\ passed = [t \in Clock |-> 0]

Total(f, times) == MapThenSumSet(LAMBDA t : f[t], times)

\* Mutant: the window is a tick short.
EagerCutoff(now) == now - Window + 1

Cutoff(now) == now - Window

\* What is left once a hit stamped now has removed the old ones.
Pruned(now) == [s \in Stamps |-> IF s <= Cutoff(now) THEN 0 ELSE hits[s]]

\* A hit is counted with itself, refused requests included.
Added(now) == [Pruned(now) EXCEPT ![now] = @ + 1]

StampsOfNow ==
    IF backend = "redis" THEN clock - Late .. clock + Early ELSE {clock}

\* hit, then call_next or 429.
Hit(now) ==
    /\ Total(Pruned(now), Stamps) < MaxHits
    /\ hits' = Added(now)
    /\ lastHit' = clock
    /\ passed' = IF Total(Added(now), Stamps) <= BurstLimit
                 THEN [passed EXCEPT ![clock] = @ + 1] ELSE passed
    /\ UNCHANGED <<backend, clock>>

\* The pipeline ran and its answer is lost: the request fails.
LoseAnswer(now) ==
    /\ backend = "redis"
    /\ Total(Pruned(now), Stamps) < MaxHits
    /\ hits' = Added(now)
    /\ lastHit' = clock
    /\ UNCHANGED <<backend, clock, passed>>

\* _cleanup_loop of the process.
Cleanup ==
    /\ backend = "process"
    /\ hits' = Pruned(clock)
    /\ UNCHANGED <<backend, clock, lastHit, passed>>

\* Time passes; Redis drops a key that was idle for longer than its window.
Tick ==
    /\ clock < MaxClock
    /\ clock' = clock + 1
    /\ hits' = IF backend = "redis" /\ clock + 1 >= lastHit + Window + Grace
               THEN NoHits ELSE hits
    /\ UNCHANGED <<backend, lastHit, passed>>

Next == (\E now \in StampsOfNow : Hit(now) \/ LoseAnswer(now)) \/ Cleanup \/ Tick

Spec == Init /\ [][Next]_rateVars

-----------------------------------------------------------------------------
(* Properties.                                                             *)

TypeOK ==
    /\ clock \in Clock /\ lastHit \in 0 .. clock
    /\ hits \in [Stamps -> 0 .. MaxHits]
    /\ passed \in [Clock -> Nat]

\* How much of the window is left when stamps are off.
Span == IF backend = "redis" THEN Window - Late - Early ELSE Window

\* However hits are delayed, reordered or lost and whatever clocks they were stamped
\* by, no span of the window less the delay and the clock skew sees more requests
\* forwarded than the burst limit.
BurstIsLimited ==
    \A t \in Clock : Total(passed, {u \in Clock : t - Span < u /\ u <= t}) <= BurstLimit
=============================================================================
