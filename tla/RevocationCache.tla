--------------------------- MODULE RevocationCache --------------------------
(***************************************************************************)
(* Is this token revoked?  The checker of api/api/middleware/auth.py: a    *)
(* cache in each process, a Redis that only remembers revocations, and the *)
(* database, over TokenRevocationRepository.  One token; the batch checker *)
(* asks the same three in the same order for each of its tokens.           *)
(*                                                                         *)
(* A check takes time: what it read from the database may be old when it   *)
(* reaches the cache.  Time is counted in ticks.                           *)
(*                                                                         *)
(* The check's session names no tenant.  On a migrated PostgreSQL the row  *)
(* security of token_revocations then hides every row from it, unless its  *)
(* role is exempt; SQLite has no row security.                             *)
(***************************************************************************)
EXTENDS Integers

CONSTANTS
    Replicas, Checks,
    ShortTTL, LongTTL,   \* of the process cache, with and without Redis
    MaxDelay,            \* bound: ticks a check takes
    MaxTime              \* bound

\* What the constants must be.
RevocationAssumption ==
    ShortTTL \in Nat /\ LongTTL \in Nat /\ MaxDelay \in Nat /\ MaxTime \in Nat

Never == MaxTime + 1
Unknown == [revoked |-> FALSE, at |-> Never]
Idle == [pc |-> "idle"]

VARIABLES
    now,
    withRedis,     \* is REDIS_URL set?
    hidden,        \* does row security apply to the role of the checks?
    revokedAt,     \* when the revocation was committed, or Never
    redisRevoked,  \* does Redis hold the key?
    l1,            \* [Replicas -> entry of the process cache, or Unknown]
    check,         \* [Checks -> locals of a check, or Idle]
    lastAccepted   \* history: the last time a check answered "not revoked" of the revoked token

config == <<withRedis, hidden>>
revocationVars == <<now, withRedis, hidden, revokedAt, redisRevoked, l1, check, lastAccepted>>

Init ==
    /\ now = 0 /\ lastAccepted = 0
    /\ withRedis \in BOOLEAN /\ hidden \in BOOLEAN
    /\ revokedAt = Never /\ redisRevoked = FALSE
    /\ l1 = [p \in Replicas |-> Unknown]
    /\ check = [c \in Checks |-> Idle]

TTL == IF withRedis THEN ShortTTL ELSE LongTTL

\* Mutant: entries do not expire.
KnownForEver(p) == l1[p] # Unknown

\* _RevocationCache.get
Known(p) == l1[p] # Unknown /\ now - l1[p].at <= TTL

Remember(p, revoked) == l1' = [l1 EXCEPT ![p] = [revoked |-> revoked, at |-> now]]

\* The check ends: the request is refused or goes on.
Answer(c, revoked) ==
    /\ check' = [check EXCEPT ![c] = Idle]
    /\ lastAccepted' = IF revoked \/ revokedAt = Never THEN lastAccepted ELSE now

GoOn(c, pc) == check' = [check EXCEPT ![c].pc = pc] /\ UNCHANGED lastAccepted

-----------------------------------------------------------------------------
(* The steps of a check.                                                   *)

AskCache(c, p) ==
    /\ check[c] = Idle
    /\ IF Known(p) THEN Answer(c, l1[p].revoked)
       ELSE /\ check' = [check EXCEPT ![c] = [pc |-> IF withRedis THEN "redis" ELSE "database",
                                              at |-> p, since |-> now, read |-> FALSE]]
            /\ UNCHANGED lastAccepted
    /\ UNCHANGED <<now, config, revokedAt, redisRevoked, l1>>

\* Unreachable: refused.  A key: revoked.  No key, or an error: on to the database.
AskRedis(c) ==
    /\ check[c].pc = "redis"
    /\ \/ Answer(c, TRUE) /\ UNCHANGED l1
       \/ redisRevoked /\ Answer(c, TRUE) /\ Remember(check[c].at, TRUE)
       \/ GoOn(c, "database") /\ UNCHANGED l1
    /\ UNCHANGED <<now, config, revokedAt, redisRevoked>>

\* is_revoked: a committed row when the statement starts, if the session may see it.
ReadDatabase(c) ==
    /\ check[c].pc = "database"
    /\ check' = [check EXCEPT ![c].pc = "read", ![c].read = revokedAt # Never /\ ~hidden]
    /\ UNCHANGED <<now, config, revokedAt, redisRevoked, l1, lastAccepted>>

\* The answer arrives; a revocation is passed on to Redis, best effort.
Learn(c) ==
    /\ check[c].pc = "read"
    /\ Remember(check[c].at, check[c].read)
    /\ redisRevoked' \in {redisRevoked, redisRevoked \/ (withRedis /\ check[c].read)}
    /\ Answer(c, check[c].read)
    /\ UNCHANGED <<now, config, revokedAt>>

\* The database does not answer: what the cache holds by now, or refused.
DatabaseDown(c) ==
    /\ check[c].pc \in {"database", "read"}
    /\ Answer(c, Known(check[c].at) => l1[check[c].at].revoked)
    /\ UNCHANGED <<now, config, revokedAt, redisRevoked, l1>>

-----------------------------------------------------------------------------
(* The rest of the world.                                                  *)

Revoke ==
    /\ revokedAt = Never
    /\ revokedAt' = now
    /\ UNCHANGED <<now, config, redisRevoked, l1, check, lastAccepted>>

Restart(p) ==
    /\ l1[p] # Unknown
    /\ l1' = [l1 EXCEPT ![p] = Unknown]
    /\ check' = [c \in Checks |-> IF check[c] # Idle /\ check[c].at = p THEN Idle ELSE check[c]]
    /\ UNCHANGED <<now, config, revokedAt, redisRevoked, lastAccepted>>

\* No check takes longer than MaxDelay.
Tick ==
    /\ now < MaxTime
    /\ \A c \in Checks : check[c] # Idle => now - check[c].since < MaxDelay
    /\ now' = now + 1
    /\ UNCHANGED <<config, revokedAt, redisRevoked, l1, check, lastAccepted>>

Next ==
    \/ \E c \in Checks : \/ \E p \in Replicas : AskCache(c, p)
                         \/ AskRedis(c) \/ ReadDatabase(c) \/ Learn(c) \/ DatabaseDown(c)
    \/ \E p \in Replicas : Restart(p)
    \/ Revoke \/ Tick

Spec == Init /\ [][Next]_revocationVars

-----------------------------------------------------------------------------
(* Properties.                                                             *)

TypeOK ==
    /\ now \in 0 .. MaxTime /\ revokedAt \in 0 .. Never /\ lastAccepted \in 0 .. now
    /\ l1 \in [Replicas -> [revoked : BOOLEAN, at : 0 .. Never]]

\* "A token revoked on one replica may still be accepted by other replicas for up to
\* ttl_seconds" (api/api/middleware/auth.py): in every interleaving of checks,
\* outages and restarts, nobody accepts it once the TTL and the longest check have
\* passed, and a revocation the caches or Redis hold is one that was committed.  Where
\* row security hides the rows, no cache ever learns of it.
RevocationSpreads ==
    /\ ~hidden /\ revokedAt # Never => lastAccepted <= revokedAt + MaxDelay + TTL
    /\ \A p \in Replicas : l1[p].revoked => ~hidden /\ revokedAt <= l1[p].at
    /\ redisRevoked => ~hidden /\ revokedAt # Never
=============================================================================
