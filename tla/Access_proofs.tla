---------------------------- MODULE Access_proofs ---------------------------
(***************************************************************************)
(* Proofs about who gets in: RevocationCache, Seats and RateLimit, a       *)
(* section each, in the names their instances have in MCServices.  They    *)
(* hold for any number of replicas, requests and hits and for every time   *)
(* the constants allow.                                                    *)
(***************************************************************************)
EXTENDS MCServices, Induction

-----------------------------------------------------------------------------
(* RevocationCache: types.                                                 *)

Checking ==
    [pc : {"redis", "database", "read"}, at : Replicas, since : 0 .. LastTick, read : BOOLEAN]

\* An entry of the cache is Unknown or was made by now; a check began by now.
RevocationTypeInv ==
    /\ now \in 0 .. LastTick /\ withRedis \in BOOLEAN /\ hidden \in BOOLEAN
    /\ revokedAt \in 0 .. now \cup {Revocation!Never}
    /\ redisRevoked \in BOOLEAN
    /\ lastAccepted \in 0 .. now
    /\ l1 \in [Replicas -> [revoked : BOOLEAN, at : 0 .. Revocation!Never]]
    /\ \A p \in Replicas : l1[p] = Revocation!Unknown \/ l1[p].at <= now
    /\ check \in [Checks -> {Revocation!Idle} \cup Checking]
    /\ \A c \in Checks : check[c] # Revocation!Idle => check[c].since <= now

LEMMA CheckingIsBusy ==
    ASSUME NEW v \in {Revocation!Idle} \cup Checking
    PROVE  /\ v.pc \in {"idle", "redis", "database", "read"}
           /\ v = Revocation!Idle <=> v.pc = "idle"
           /\ v # Revocation!Idle => v \in Checking
  BY DEF Revocation!Idle, Checking

LEMMA RevocationTypeInit ==
    Revocation!RevocationAssumption /\ Revocation!Init => RevocationTypeInv
<1> SUFFICES ASSUME Revocation!RevocationAssumption, Revocation!Init PROVE RevocationTypeInv
  OBVIOUS
<1>1. Revocation!Unknown \in [revoked : BOOLEAN, at : 0 .. Revocation!Never] /\ 0 \in 0 .. LastTick
  BY DEF Revocation!RevocationAssumption, Revocation!Unknown, Revocation!Never
<1>2. /\ l1 \in [Replicas -> [revoked : BOOLEAN, at : 0 .. Revocation!Never]]
      /\ \A p \in Replicas : l1[p] = Revocation!Unknown
  BY <1>1 DEF Revocation!Init
<1>3. /\ check \in [Checks -> {Revocation!Idle} \cup Checking]
      /\ \A c \in Checks : check[c] = Revocation!Idle
  BY DEF Revocation!Init
<1>4. now = 0 /\ lastAccepted = 0 /\ revokedAt = Revocation!Never /\ redisRevoked = FALSE
      /\ withRedis \in BOOLEAN /\ hidden \in BOOLEAN
  BY DEF Revocation!Init
<1>5. lastAccepted \in 0 .. now /\ now \in 0 .. LastTick
  BY <1>1, <1>4
<1> QED
  BY <1>2, <1>3, <1>4, <1>5 DEF RevocationTypeInv

\* What a step does to one check and to the cache of one replica.
LEMMA OneCheck ==
    ASSUME RevocationTypeInv, NEW c \in Checks, NEW v \in {Revocation!Idle} \cup Checking,
           check' = [check EXCEPT ![c] = v], v # Revocation!Idle => v.since <= now
    PROVE  /\ check' \in [Checks -> {Revocation!Idle} \cup Checking]
           /\ check'[c] = v
           /\ \A d \in Checks \ {c} : check'[d] = check[d]
           /\ \A d \in Checks : check'[d] # Revocation!Idle => check'[d].since <= now
<1>1. check \in [Checks -> {Revocation!Idle} \cup Checking]
  BY DEF RevocationTypeInv
<1>2. /\ check' \in [Checks -> {Revocation!Idle} \cup Checking]
      /\ check'[c] = v
      /\ \A d \in Checks \ {c} : check'[d] = check[d]
  BY <1>1
<1>3. \A d \in Checks : check[d] # Revocation!Idle => check[d].since <= now
  BY DEF RevocationTypeInv
<1> QED
  BY <1>2, <1>3

LEMMA OneEntry ==
    ASSUME Revocation!RevocationAssumption, RevocationTypeInv, NEW p \in Replicas,
           NEW revoked \in BOOLEAN,
           Revocation!Remember(p, revoked)
    PROVE  /\ l1' \in [Replicas -> [revoked : BOOLEAN, at : 0 .. Revocation!Never]]
           /\ l1'[p] = [revoked |-> revoked, at |-> now]
           /\ \A q \in Replicas \ {p} : l1'[q] = l1[q]
           /\ \A q \in Replicas : l1'[q] = Revocation!Unknown \/ l1'[q].at <= now
<1>1. now \in 0 .. Revocation!Never
  BY DEF Revocation!RevocationAssumption, RevocationTypeInv, Revocation!Never
<1> QED
  BY <1>1 DEF Revocation!Remember, RevocationTypeInv

\* The end of a check, and a check that goes on.
LEMMA Answered ==
    ASSUME Revocation!RevocationAssumption, RevocationTypeInv, NEW c \in Checks,
           NEW revoked, Revocation!Answer(c, revoked)
    PROVE  /\ check' \in [Checks -> {Revocation!Idle} \cup Checking]
           /\ check'[c] = Revocation!Idle
           /\ \A d \in Checks \ {c} : check'[d] = check[d]
           /\ \A d \in Checks : check'[d] # Revocation!Idle => check'[d].since <= now
           /\ lastAccepted' \in 0 .. now
<1>1. check' = [check EXCEPT ![c] = Revocation!Idle]
  BY DEF Revocation!Answer
<1>2. lastAccepted' \in 0 .. now
  BY DEF Revocation!Answer, RevocationTypeInv, Revocation!RevocationAssumption
<1> QED
  BY <1>1, <1>2, OneCheck

LEMMA GoneOn ==
    ASSUME RevocationTypeInv, NEW c \in Checks, check[c] # Revocation!Idle,
           NEW place \in {"database", "read"},
           NEW answer \in BOOLEAN,
           check' = [check EXCEPT ![c] = [check[c] EXCEPT !.pc = place, !.read = answer]]
    PROVE  /\ check' \in [Checks -> {Revocation!Idle} \cup Checking]
           /\ check'[c].pc = place /\ check'[c].read = answer
           /\ check'[c].since = check[c].since /\ check'[c].at = check[c].at
           /\ \A d \in Checks \ {c} : check'[d] = check[d]
           /\ \A d \in Checks : check'[d] # Revocation!Idle => check'[d].since <= now
<1> DEFINE v == [check[c] EXCEPT !.pc = place, !.read = answer]
<1>1. check[c] \in Checking
  BY CheckingIsBusy DEF RevocationTypeInv
<1>2. v \in Checking /\ v.pc = place /\ v.read = answer /\ v.since = check[c].since
      /\ v.at = check[c].at
  BY <1>1 DEF Checking
<1>3. v.since <= now
  BY <1>2 DEF RevocationTypeInv
<1> HIDE DEF v
<1>4. check' = [check EXCEPT ![c] = v]
  BY DEF v
<1> QED
  BY <1>2, <1>3, <1>4, OneCheck

LEMMA RevocationTypeStep ==
    Revocation!RevocationAssumption /\ RevocationTypeInv
    /\ [Revocation!Next]_(Revocation!revocationVars)
    => RevocationTypeInv'
<1> SUFFICES ASSUME Revocation!RevocationAssumption, RevocationTypeInv,
                    [Revocation!Next]_(Revocation!revocationVars)
             PROVE  RevocationTypeInv'
  OBVIOUS
<1>1. ASSUME NEW c \in Checks, NEW p \in Replicas, Revocation!AskCache(c, p)
      PROVE  RevocationTypeInv'
  <2>1. UNCHANGED <<now, withRedis, hidden, revokedAt, redisRevoked, l1>>
    BY <1>1 DEF Revocation!AskCache, Revocation!config
  <2>2. CASE Revocation!Known(p)
    BY <1>1, <2>1, <2>2, Answered DEF Revocation!AskCache, RevocationTypeInv, Revocation!Never
  <2>3. CASE ~Revocation!Known(p)
    <3> DEFINE v == [pc |-> IF withRedis THEN "redis" ELSE "database", at |-> p,
                     since |-> now, read |-> FALSE]
    <3>1. v \in Checking /\ v.since <= now
      BY DEF Checking, RevocationTypeInv, Revocation!RevocationAssumption
    <3>2. check' = [check EXCEPT ![c] = v] /\ UNCHANGED lastAccepted
      BY <1>1, <2>3 DEF Revocation!AskCache
    <3> HIDE DEF v
    <3> QED
      BY <2>1, <3>1, <3>2, OneCheck DEF RevocationTypeInv, Revocation!Never
  <2> QED
    BY <2>2, <2>3
<1>2. ASSUME NEW c \in Checks, Revocation!AskRedis(c)
      PROVE  RevocationTypeInv'
  <2>0. UNCHANGED <<now, withRedis, hidden, revokedAt, redisRevoked>> /\ check[c] \in Checking
    BY <1>2, CheckingIsBusy
       DEF Revocation!AskRedis, Revocation!config, RevocationTypeInv, Revocation!Idle
  <2>1. CASE Revocation!Answer(c, TRUE) /\ UNCHANGED l1
    BY <2>0, <2>1, Answered DEF RevocationTypeInv, Revocation!Never
  <2>2. CASE Revocation!Answer(c, TRUE) /\ Revocation!Remember(check[c].at, TRUE)
    <3>1. check[c].at \in Replicas
      BY <2>0 DEF Checking
    <3> QED
      BY <2>0, <2>2, <3>1, Answered, OneEntry DEF RevocationTypeInv, Revocation!Never
  <2>3. CASE Revocation!GoOn(c, "database") /\ UNCHANGED l1
    <3>1. check[c].read \in BOOLEAN /\ check[c] # Revocation!Idle
      BY <1>2, <2>0, CheckingIsBusy DEF Checking, Revocation!AskRedis
    <3>2. check' = [check EXCEPT ![c] = [check[c] EXCEPT !.pc = "database",
                                                         !.read = check[c].read]]
      BY <2>0, <2>3 DEF Revocation!GoOn, Checking
    <3> QED
      BY <2>0, <2>3, <3>1, <3>2, GoneOn
         DEF Revocation!GoOn, RevocationTypeInv, Revocation!Never
  <2> QED
    BY <1>2, <2>1, <2>2, <2>3 DEF Revocation!AskRedis
<1>3. ASSUME NEW c \in Checks, Revocation!ReadDatabase(c)
      PROVE  RevocationTypeInv'
  <2>1. check[c] # Revocation!Idle
    BY <1>3 DEF Revocation!ReadDatabase, Revocation!Idle
  <2>2. PICK answer \in BOOLEAN : answer = (revokedAt # Revocation!Never /\ ~hidden)
    BY Zenon
  <2>3. check' = [check EXCEPT ![c] = [check[c] EXCEPT !.pc = "read", !.read = answer]]
    BY <1>3, <2>2 DEF Revocation!ReadDatabase, RevocationTypeInv
  <2> QED
    BY <1>3, <2>1, <2>3, GoneOn
       DEF Revocation!ReadDatabase, Revocation!config, RevocationTypeInv, Revocation!Never
<1>4. ASSUME NEW c \in Checks, Revocation!Learn(c)
      PROVE  RevocationTypeInv'
  <2>1. check[c] \in Checking
    BY <1>4, CheckingIsBusy DEF Revocation!Learn, RevocationTypeInv, Revocation!Idle
  <2>2. check[c].at \in Replicas /\ check[c].read \in BOOLEAN
    BY <2>1 DEF Checking
  <2> QED
    <3>1. redisRevoked' \in BOOLEAN
      BY <1>4, <2>2 DEF Revocation!Learn, RevocationTypeInv
    <3> QED
      BY <1>4, <2>2, <3>1, Answered, OneEntry
         DEF Revocation!Learn, Revocation!config, RevocationTypeInv, Revocation!Never
<1>5. ASSUME NEW c \in Checks, Revocation!DatabaseDown(c)
      PROVE  RevocationTypeInv'
  BY <1>5, Answered
     DEF Revocation!DatabaseDown, Revocation!config, RevocationTypeInv, Revocation!Never
<1>6. ASSUME NEW p \in Replicas, Revocation!Restart(p)
      PROVE  RevocationTypeInv'
  <2>1. Revocation!Unknown \in [revoked : BOOLEAN, at : 0 .. Revocation!Never]
    BY DEF Revocation!RevocationAssumption, Revocation!Unknown, Revocation!Never
  <2>2. /\ l1' \in [Replicas -> [revoked : BOOLEAN, at : 0 .. Revocation!Never]]
        /\ \A q \in Replicas : l1'[q] = Revocation!Unknown \/ l1'[q] = l1[q]
    BY <1>6, <2>1 DEF Revocation!Restart, RevocationTypeInv
  <2>3. /\ check' \in [Checks -> {Revocation!Idle} \cup Checking]
        /\ \A c \in Checks : check'[c] = Revocation!Idle \/ check'[c] = check[c]
    BY <1>6 DEF Revocation!Restart, RevocationTypeInv
  <2> QED
    BY <1>6, <2>2, <2>3
       DEF Revocation!Restart, Revocation!config, RevocationTypeInv, Revocation!Never
<1>7. ASSUME Revocation!Revoke
      PROVE  RevocationTypeInv'
  BY <1>7
     DEF Revocation!Revoke, Revocation!config, RevocationTypeInv,
         Revocation!RevocationAssumption, Revocation!Never
<1>8. ASSUME Revocation!Tick
      PROVE  RevocationTypeInv'
  <2>1. now' \in 0 .. LastTick /\ now <= now' /\ now \in Nat /\ now' \in Nat
    BY <1>8 DEF Revocation!Tick, RevocationTypeInv, Revocation!RevocationAssumption
  <2>2. revokedAt' \in 0 .. now' \cup {Revocation!Never'} /\ lastAccepted' \in 0 .. now'
    BY <1>8, <2>1 DEF Revocation!Tick, RevocationTypeInv, Revocation!Never
  <2>3. \A p \in Replicas : l1'[p] = Revocation!Unknown' \/ l1'[p].at <= now'
    <3> SUFFICES ASSUME NEW p \in Replicas, l1[p] # Revocation!Unknown
                 PROVE  l1[p].at <= now'
      BY <1>8 DEF Revocation!Tick, Revocation!Unknown, Revocation!Never
    <3>1. l1[p].at <= now /\ l1[p].at \in 0 .. Revocation!Never
      BY DEF RevocationTypeInv
    <3> QED
      BY <2>1, <3>1 DEF Revocation!RevocationAssumption, Revocation!Never
  <2>4. \A c \in Checks : check'[c] # Revocation!Idle => check'[c].since <= now'
    <3> SUFFICES ASSUME NEW c \in Checks, check[c] # Revocation!Idle
                 PROVE  check[c].since <= now'
      BY <1>8 DEF Revocation!Tick
    <3>1. check[c].since <= now /\ check[c].since \in 0 .. LastTick
      BY CheckingIsBusy DEF RevocationTypeInv, Checking
    <3> QED
      BY <2>1, <3>1 DEF Revocation!RevocationAssumption
  <2> QED
    BY <1>8, <2>1, <2>2, <2>3, <2>4
       DEF Revocation!Tick, Revocation!config, RevocationTypeInv, Revocation!Never
<1>9. CASE UNCHANGED Revocation!revocationVars
  BY <1>9 DEF Revocation!revocationVars, RevocationTypeInv, Revocation!Never
<1> QED
  BY <1>1, <1>2, <1>3, <1>4, <1>5, <1>6, <1>7, <1>8, <1>9 DEF Revocation!Next

-----------------------------------------------------------------------------
(* RevocationCache: how old an answer can be.                              *)

\* A check that read "not revoked" began before the revocation, unless the rows are
\* hidden from it, and is no older than MaxDelay.
CheckInv ==
    \A c \in Checks : check[c] # Revocation!Idle =>
        /\ now <= check[c].since + MaxDelay
        /\ check[c].pc = "read" /\ check[c].read => revokedAt # Revocation!Never /\ ~hidden
        /\ check[c].pc = "read" /\ ~check[c].read /\ ~hidden => check[c].since <= revokedAt

\* So no entry "not revoked" is newer than the revocation by more than MaxDelay.
CacheInv ==
    /\ redisRevoked => revokedAt # Revocation!Never /\ ~hidden
    /\ \A p \in Replicas : l1[p] # Revocation!Unknown =>
          /\ l1[p].revoked => ~hidden /\ revokedAt <= l1[p].at
          /\ ~l1[p].revoked /\ ~hidden /\ revokedAt # Revocation!Never =>
                l1[p].at <= revokedAt + MaxDelay

AcceptInv ==
    ~hidden /\ revokedAt # Revocation!Never =>
        lastAccepted <= revokedAt + MaxDelay + Revocation!TTL

\* What TypeInv says of the numbers.
LEMMA ClockIsNatural ==
    ASSUME Revocation!RevocationAssumption, RevocationTypeInv
    PROVE  /\ now \in Nat /\ now < Revocation!Never /\ Revocation!Never \in Nat /\ revokedAt \in Nat
           /\ revokedAt # Revocation!Never => revokedAt <= now
           /\ lastAccepted \in Nat /\ lastAccepted <= now
           /\ MaxDelay \in Nat /\ Revocation!TTL \in Nat
           /\ \A p \in Replicas : l1[p].at \in Nat /\ l1[p].revoked \in BOOLEAN
           /\ \A c \in Checks : check[c] # Revocation!Idle =>
                 /\ check[c].since \in Nat /\ check[c].since <= now
                 /\ check[c].at \in Replicas /\ check[c].read \in BOOLEAN
<1>1. \A p \in Replicas : l1[p].at \in 0 .. Revocation!Never /\ l1[p].revoked \in BOOLEAN
  BY DEF RevocationTypeInv
<1>2. \A c \in Checks : check[c] # Revocation!Idle =>
         check[c].since \in 0 .. LastTick /\ check[c].at \in Replicas /\ check[c].read \in BOOLEAN
  BY CheckingIsBusy DEF RevocationTypeInv, Checking
<1>3. LastTick \in Nat /\ Revocation!Never \in Nat /\ MaxDelay \in Nat /\ Revocation!TTL \in Nat
  BY DEF Revocation!RevocationAssumption, Revocation!Never, Revocation!TTL
<1>4. now \in Nat /\ now < Revocation!Never /\ lastAccepted \in Nat /\ lastAccepted <= now
  BY <1>3 DEF RevocationTypeInv, Revocation!Never
<1>5. revokedAt \in Nat /\ (revokedAt # Revocation!Never => revokedAt <= now)
  BY <1>3, <1>4 DEF RevocationTypeInv
<1> QED
  BY <1>1, <1>2, <1>3, <1>4, <1>5 DEF RevocationTypeInv

LEMMA ConfigStays ==
    ASSUME [Revocation!Next]_(Revocation!revocationVars)
    PROVE  UNCHANGED <<withRedis, hidden>>
  BY DEF Revocation!Next, Revocation!AskCache, Revocation!AskRedis, Revocation!ReadDatabase,
         Revocation!Learn, Revocation!DatabaseDown, Revocation!Restart, Revocation!Revoke,
         Revocation!Tick, Revocation!config, Revocation!revocationVars

LEMMA CheckInit == Revocation!RevocationAssumption /\ Revocation!Init => CheckInv
  BY DEF Revocation!Init, CheckInv

LEMMA CheckStep ==
    Revocation!RevocationAssumption /\ RevocationTypeInv /\ CheckInv
    /\ [Revocation!Next]_(Revocation!revocationVars)
    => CheckInv'
<1> SUFFICES ASSUME Revocation!RevocationAssumption, RevocationTypeInv, CheckInv,
                    [Revocation!Next]_(Revocation!revocationVars),
                    NEW d \in Checks, check'[d] # Revocation!Idle
             PROVE  /\ now' <= check'[d].since + MaxDelay
                    /\ check'[d].pc = "read" /\ check'[d].read =>
                           revokedAt' # Revocation!Never /\ ~hidden'
                    /\ check'[d].pc = "read" /\ ~check'[d].read /\ ~hidden' =>
                           check'[d].since <= revokedAt'
  BY DEF CheckInv, Revocation!Idle, Revocation!Never
<1> USE ClockIsNatural
<1>0. UNCHANGED <<withRedis, hidden>>
  BY ConfigStays
<1>1. ASSUME UNCHANGED <<now, revokedAt>>, check'[d] = check[d]
      PROVE  /\ now' <= check'[d].since + MaxDelay
             /\ check'[d].pc = "read" /\ check'[d].read =>
                    revokedAt' # Revocation!Never /\ ~hidden'
             /\ check'[d].pc = "read" /\ ~check'[d].read /\ ~hidden' =>
                    check'[d].since <= revokedAt'
  BY <1>0, <1>1 DEF CheckInv
<1>2. ASSUME NEW c \in Checks, NEW p \in Replicas, Revocation!AskCache(c, p),
             ~Revocation!Known(p), d = c
      PROVE  now' <= check'[d].since + MaxDelay /\ check'[d].pc # "read"
  <2>1. check'[c] = [pc |-> IF withRedis THEN "redis" ELSE "database", at |-> p,
                     since |-> now, read |-> FALSE]
    BY <1>2 DEF Revocation!AskCache, RevocationTypeInv
  <2> QED
    BY <1>2, <2>1 DEF Revocation!AskCache
<1>3. ASSUME NEW c \in Checks, Revocation!AskRedis(c), Revocation!GoOn(c, "database"), d = c
      PROVE  now' <= check'[d].since + MaxDelay /\ check'[d].pc # "read"
  <2>1. check[c] \in Checking
    BY <1>3, CheckingIsBusy DEF Revocation!AskRedis, RevocationTypeInv, Revocation!Idle
  <2>2. check'[c] = [check[c] EXCEPT !.pc = "database"]
    BY <1>3 DEF Revocation!GoOn, RevocationTypeInv
  <2>3. check'[c].since = check[c].since /\ check'[c].pc = "database" /\ check[c] # Revocation!Idle
    BY <1>3, <2>1, <2>2 DEF Checking, Revocation!Idle, Revocation!AskRedis
  <2> QED
    BY <1>3, <2>3 DEF Revocation!AskRedis, CheckInv
<1>4. ASSUME NEW c \in Checks, Revocation!ReadDatabase(c), d = c
      PROVE  /\ now' <= check'[d].since + MaxDelay
             /\ check'[d].read => revokedAt' # Revocation!Never /\ ~hidden'
             /\ ~check'[d].read /\ ~hidden' => check'[d].since <= revokedAt'
  <2>1. check[c] # Revocation!Idle
    BY <1>4 DEF Revocation!ReadDatabase, Revocation!Idle
  <2>2. PICK answer \in BOOLEAN : answer = (revokedAt # Revocation!Never /\ ~hidden)
    BY Zenon
  <2>3. check'[c].read = answer /\ check'[c].since = check[c].since
    <3>1. check' = [check EXCEPT ![c] = [check[c] EXCEPT !.pc = "read", !.read = answer]]
      BY <1>4, <2>2 DEF Revocation!ReadDatabase, RevocationTypeInv
    <3> QED
      BY <2>1, <3>1, GoneOn
  <2>4. UNCHANGED <<now, revokedAt>>
    BY <1>4 DEF Revocation!ReadDatabase
  <2>5. now <= check[c].since + MaxDelay /\ check[c].since <= now
    BY <2>1 DEF CheckInv
  <2>6. now' <= check'[d].since + MaxDelay
    BY <1>4, <2>3, <2>4, <2>5
  <2>7. CASE answer = TRUE
    <3>1. revokedAt # Revocation!Never /\ ~hidden
      BY <2>2, <2>7, Zenon
    <3>2. revokedAt' # Revocation!Never /\ ~hidden'
      BY <1>0, <2>4, <3>1
    <3>3. check'[d].read = TRUE
      BY <1>4, <2>3, <2>7
    <3> QED
      BY <2>6, <3>2, <3>3
  <2>8. CASE answer = FALSE
    <3>1. hidden \/ revokedAt = Revocation!Never
      BY <2>2, <2>8, Zenon
    <3>2. hidden \/ check[c].since <= revokedAt
      BY <2>1, <2>5, <3>1
    <3>3. check'[d].read = FALSE /\ check'[d].since = check[c].since
      BY <1>4, <2>3, <2>8
    <3> QED
      BY <1>0, <2>4, <2>6, <3>2, <3>3
  <2> QED
    BY <2>7, <2>8
<1>5. ASSUME NEW c \in Checks, NEW p \in Replicas, Revocation!AskCache(c, p)
      PROVE  /\ UNCHANGED <<now, revokedAt>>
             /\ (d # c \/ Revocation!Known(p) => check'[d] = check[d])
  <2>1. CASE Revocation!Known(p)
    BY <1>5, <2>1, Answered DEF Revocation!AskCache
  <2>2. CASE ~Revocation!Known(p)
    BY <1>5, <2>2 DEF Revocation!AskCache, RevocationTypeInv
  <2> QED
    BY <2>1, <2>2
<1>6. ASSUME NEW c \in Checks, Revocation!AskRedis(c)
      PROVE  /\ UNCHANGED <<now, revokedAt>>
             /\ (d # c \/ ~Revocation!GoOn(c, "database") => check'[d] = check[d])
  BY <1>6, Answered DEF Revocation!AskRedis, Revocation!GoOn, RevocationTypeInv
<1>7. ASSUME NEW c \in Checks, Revocation!ReadDatabase(c)
      PROVE  UNCHANGED <<now, revokedAt>> /\ (d # c => check'[d] = check[d])
  BY <1>7 DEF Revocation!ReadDatabase, RevocationTypeInv
<1>8. ASSUME NEW c \in Checks, Revocation!Learn(c) \/ Revocation!DatabaseDown(c)
      PROVE  UNCHANGED <<now, revokedAt>> /\ check'[d] = check[d]
  BY <1>8, Answered DEF Revocation!Learn, Revocation!DatabaseDown
<1>9. ASSUME NEW p \in Replicas, Revocation!Restart(p)
      PROVE  UNCHANGED <<now, revokedAt>> /\ check'[d] = check[d]
  BY <1>9 DEF Revocation!Restart
<1>10. CASE Revocation!Revoke
  BY <1>0, <1>10 DEF Revocation!Revoke, CheckInv
<1>11. CASE Revocation!Tick
  BY <1>0, <1>11 DEF Revocation!Tick, CheckInv
<1>12. CASE UNCHANGED Revocation!revocationVars
  BY <1>1, <1>12 DEF Revocation!revocationVars
<1> QED
  BY <1>1, <1>2, <1>3, <1>4, <1>5, <1>6, <1>7, <1>8, <1>9, <1>10, <1>11, <1>12
     DEF Revocation!Next

LEMMA CacheInit == Revocation!Init => CacheInv
  BY DEF Revocation!Init, CacheInv

\* A cache entry made now.
LEMMA NewEntry ==
    ASSUME Revocation!RevocationAssumption, RevocationTypeInv, CacheInv, NEW p \in Replicas,
           NEW revoked \in BOOLEAN,
           Revocation!Remember(p, revoked), UNCHANGED <<revokedAt, hidden>>,
           redisRevoked' => revokedAt # Revocation!Never /\ ~hidden,
           revoked => revokedAt # Revocation!Never /\ ~hidden,
           ~revoked /\ ~hidden /\ revokedAt # Revocation!Never => now <= revokedAt + MaxDelay
    PROVE  CacheInv'
<1>1. l1'[p].revoked = revoked /\ l1'[p].at = now
  <2>1. l1'[p] = [revoked |-> revoked, at |-> now]
    BY OneEntry
  <2>2. CASE revoked = TRUE
    BY <2>1, <2>2
  <2>3. CASE revoked = FALSE
    BY <2>1, <2>3
  <2> QED
    BY <2>2, <2>3
<1>2. revoked => revokedAt <= now
  BY ClockIsNatural
<1> SUFFICES ASSUME NEW q \in Replicas, l1'[q] # Revocation!Unknown
             PROVE  /\ l1'[q].revoked => ~hidden /\ revokedAt <= l1'[q].at
                    /\ ~l1'[q].revoked /\ ~hidden /\ revokedAt # Revocation!Never =>
                          l1'[q].at <= revokedAt + MaxDelay
  BY DEF CacheInv, Revocation!Unknown, Revocation!Never
<1>3. CASE q = p
  BY <1>1, <1>2, <1>3
<1>4. CASE q # p
  <2>1. l1'[q] = l1[q]
    BY <1>4, OneEntry
  <2> QED
    BY <2>1 DEF CacheInv
<1> QED
  BY <1>3, <1>4

LEMMA CacheStep ==
    Revocation!RevocationAssumption /\ RevocationTypeInv /\ CheckInv /\ CacheInv
    /\ [Revocation!Next]_(Revocation!revocationVars)
    => CacheInv'
<1> SUFFICES ASSUME Revocation!RevocationAssumption, RevocationTypeInv, CheckInv, CacheInv,
                    [Revocation!Next]_(Revocation!revocationVars)
             PROVE  CacheInv'
  OBVIOUS
<1> USE ClockIsNatural
<1>0. UNCHANGED hidden
  BY ConfigStays
<1>1. ASSUME UNCHANGED <<revokedAt, redisRevoked, l1>>
      PROVE  CacheInv'
  BY <1>0, <1>1 DEF CacheInv, Revocation!Unknown, Revocation!Never
<1>2. ASSUME NEW c \in Checks, Revocation!AskRedis(c)
      PROVE  CacheInv'
  <2>1. CASE UNCHANGED l1
    BY <1>1, <1>2, <2>1 DEF Revocation!AskRedis
  <2>2. CASE redisRevoked /\ Revocation!Remember(check[c].at, TRUE)
    <3>1. check[c] # Revocation!Idle
      BY <1>2 DEF Revocation!AskRedis, Revocation!Idle
    <3>2. UNCHANGED <<redisRevoked, revokedAt>> /\ revokedAt # Revocation!Never /\ ~hidden
      BY <1>2, <2>2 DEF Revocation!AskRedis, CacheInv
    <3> QED
      BY <1>0, <2>2, <3>1, <3>2, NewEntry
  <2> QED
    BY <1>2, <2>1, <2>2 DEF Revocation!AskRedis
<1>3. ASSUME NEW c \in Checks, Revocation!Learn(c)
      PROVE  CacheInv'
  <2>1. check[c] # Revocation!Idle /\ check[c].read \in BOOLEAN /\ check[c].at \in Replicas
    BY <1>3 DEF Revocation!Learn, Revocation!Idle
  <2>2. UNCHANGED revokedAt /\ (redisRevoked' => revokedAt # Revocation!Never /\ ~hidden)
    BY <1>3, <2>1 DEF Revocation!Learn, CheckInv, CacheInv
  <2>3. check[c].read => revokedAt # Revocation!Never /\ ~hidden
    BY <1>3, <2>1 DEF Revocation!Learn, CheckInv
  <2>4. ~check[c].read /\ ~hidden => now <= revokedAt + MaxDelay
    BY <1>3, <2>1 DEF Revocation!Learn, CheckInv
  <2> QED
    BY <1>0, <1>3, <2>1, <2>2, <2>3, <2>4, NewEntry DEF Revocation!Learn
<1>4. ASSUME NEW p \in Replicas, Revocation!Restart(p)
      PROVE  CacheInv'
  BY <1>0, <1>4
     DEF Revocation!Restart, RevocationTypeInv, CacheInv, Revocation!Unknown,
         Revocation!Never
<1>5. CASE Revocation!Revoke
  <2>1. revokedAt = Revocation!Never /\ revokedAt' = now /\ UNCHANGED <<redisRevoked, l1>>
    BY <1>5 DEF Revocation!Revoke
  <2>2. ASSUME NEW p \in Replicas, l1[p] # Revocation!Unknown
        PROVE  ~l1[p].revoked /\ l1[p].at <= now + MaxDelay
    BY <2>1, <2>2 DEF CacheInv, RevocationTypeInv
  <2> QED
    BY <1>0, <2>1, <2>2 DEF CacheInv, Revocation!Unknown, Revocation!Never
<1>6. CASE Revocation!Tick
  BY <1>1, <1>6 DEF Revocation!Tick
<1> QED
  BY <1>1, <1>2, <1>3, <1>4, <1>5, <1>6
     DEF Revocation!Next, Revocation!AskCache, Revocation!ReadDatabase,
         Revocation!DatabaseDown, Revocation!revocationVars

-----------------------------------------------------------------------------
(* RevocationCache: who accepts a revoked token.                           *)

\* What the cache still knows is no older than the TTL.
LEMMA KnownIsRecent ==
    ASSUME Revocation!RevocationAssumption, RevocationTypeInv, CacheInv, NEW p \in Replicas,
           Revocation!Known(p),
           ~l1[p].revoked, ~hidden, revokedAt # Revocation!Never
    PROVE  now <= revokedAt + MaxDelay + Revocation!TTL
<1>1. l1[p].at <= revokedAt + MaxDelay /\ now - l1[p].at <= Revocation!TTL
  BY DEF CacheInv, Revocation!Known
<1> QED
  BY <1>1, ClockIsNatural

LEMMA AcceptInit == Revocation!Init => AcceptInv
  BY DEF Revocation!Init, AcceptInv

LEMMA AcceptStep ==
    /\ Revocation!RevocationAssumption /\ RevocationTypeInv /\ CheckInv /\ CacheInv /\ AcceptInv
    /\ [Revocation!Next]_(Revocation!revocationVars)
    => AcceptInv'
<1> SUFFICES ASSUME Revocation!RevocationAssumption, RevocationTypeInv, CheckInv, CacheInv,
                    AcceptInv,
                    [Revocation!Next]_(Revocation!revocationVars)
             PROVE  AcceptInv'
  OBVIOUS
<1>0. UNCHANGED <<withRedis, hidden>>
  BY ConfigStays
<1>1. ASSUME UNCHANGED <<revokedAt, lastAccepted>>
      PROVE  AcceptInv'
  BY <1>0, <1>1 DEF AcceptInv, Revocation!TTL, Revocation!Never
<1>2. ASSUME UNCHANGED revokedAt, lastAccepted' \in {lastAccepted, now},
             ~hidden /\ revokedAt # Revocation!Never =>
                 now <= revokedAt + MaxDelay + Revocation!TTL
      PROVE  AcceptInv'
  BY <1>0, <1>2 DEF AcceptInv, Revocation!TTL, Revocation!Never
<1>3. ASSUME NEW c \in Checks, NEW p \in Replicas, Revocation!AskCache(c, p)
      PROVE  AcceptInv'
  BY <1>1, <1>2, <1>3, KnownIsRecent DEF Revocation!AskCache, Revocation!Answer
<1>4. ASSUME NEW c \in Checks, Revocation!AskRedis(c)
      PROVE  AcceptInv'
  BY <1>1, <1>4 DEF Revocation!AskRedis, Revocation!Answer, Revocation!GoOn
<1>5. ASSUME NEW c \in Checks, Revocation!Learn(c)
      PROVE  AcceptInv'
  <2>1. CASE check[c].read
    BY <1>1, <1>5, <2>1 DEF Revocation!Learn, Revocation!Answer
  <2>2. CASE ~check[c].read
    <3>1. check[c] # Revocation!Idle
      BY <1>5 DEF Revocation!Learn, Revocation!Idle
    <3>2. now <= check[c].since + MaxDelay /\ (~hidden => check[c].since <= revokedAt)
      BY <1>5, <2>2, <3>1 DEF Revocation!Learn, CheckInv
    <3>3. ~hidden => now <= revokedAt + MaxDelay + Revocation!TTL
      BY <3>1, <3>2, ClockIsNatural
    <3> QED
      BY <1>2, <1>5, <2>2, <3>3 DEF Revocation!Learn, Revocation!Answer
  <2> QED
    BY <2>1, <2>2
<1>6. ASSUME NEW c \in Checks, Revocation!DatabaseDown(c)
      PROVE  AcceptInv'
  <2>1. check[c].at \in Replicas
    <3>1. check[c] # Revocation!Idle
      BY <1>6 DEF Revocation!DatabaseDown, Revocation!Idle
    <3> QED
      BY <3>1, ClockIsNatural
  <2>2. CASE Revocation!Known(check[c].at) => l1[check[c].at].revoked
    BY <1>1, <1>6, <2>2 DEF Revocation!DatabaseDown, Revocation!Answer
  <2>3. CASE Revocation!Known(check[c].at) /\ ~l1[check[c].at].revoked
    BY <1>2, <1>6, <2>1, <2>3, KnownIsRecent DEF Revocation!DatabaseDown, Revocation!Answer
  <2> QED
    BY <2>2, <2>3
<1>7. CASE Revocation!Revoke
  BY <1>0, <1>7, ClockIsNatural DEF Revocation!Revoke, AcceptInv, Revocation!TTL, Revocation!Never
<1> QED
  BY <1>1, <1>3, <1>4, <1>5, <1>6, <1>7
     DEF Revocation!Next, Revocation!ReadDatabase, Revocation!Restart, Revocation!Tick,
         Revocation!revocationVars

-----------------------------------------------------------------------------
(* RevocationCache: together.                                              *)

RevocationSafeInv == RevocationTypeInv /\ CheckInv /\ CacheInv /\ AcceptInv

\* Checks, outages, restarts and the revocation keep the invariant.
LEMMA RevocationSafe ==
    ASSUME Revocation!RevocationAssumption
    PROVE  Revocation!Spec => []RevocationSafeInv
<1>1. Revocation!Init => RevocationSafeInv
  BY RevocationTypeInit, CheckInit, CacheInit, AcceptInit DEF RevocationSafeInv
<1>2. RevocationSafeInv /\ [Revocation!Next]_(Revocation!revocationVars) => RevocationSafeInv'
  BY RevocationTypeStep, CheckStep, CacheStep, AcceptStep DEF RevocationSafeInv
<1> QED
  BY <1>1, <1>2, PTL DEF Revocation!Spec

\* The checker keeps every variable in its type.
LEMMA RevocationTypeCorrect ==
    ASSUME Revocation!RevocationAssumption
    PROVE  Revocation!Spec => []Revocation!TypeOK
<1>1. RevocationSafeInv => Revocation!TypeOK
  BY ClockIsNatural DEF RevocationSafeInv, RevocationTypeInv, Revocation!TypeOK
<1> QED
  BY <1>1, RevocationSafe, PTL

\* Where the checks see the rows, nobody accepts a revoked token once the TTL of the
\* caches and the longest check have passed, and no cache invents a revocation.
LEMMA RevocationsSpread ==
    ASSUME Revocation!RevocationAssumption
    PROVE  Revocation!Spec => []Revocation!RevocationSpreads
<1>1. RevocationSafeInv => Revocation!RevocationSpreads
  BY DEF RevocationSafeInv, CacheInv, AcceptInv, Revocation!RevocationSpreads,
         Revocation!Unknown
<1> QED
  BY <1>1, RevocationSafe, PTL

-----------------------------------------------------------------------------
(* Seats: types.                                                           *)

Serving ==
    [pc : {"look", "create", "update", "wrote", "synced"},
     kind : {"invite", "remove"}, email : Emails]

LEMMA ServingIsBusy ==
    ASSUME NEW v \in Seat!Locals
    PROVE  /\ v # Seat!Idle <=> v.pc # "idle"
           /\ v # Seat!Idle => v \in Serving
  BY DEF Seat!Locals, Seat!Idle, Serving

\* A request that moves from one step to the next keeps its kind and its email.
LEMMA Moved ==
    ASSUME Seat!TypeOK, NEW r \in Requests, team[r].pc # "idle",
           NEW place \in {"look", "create", "update", "wrote", "synced"},
           team' = [team EXCEPT ![r].pc = place]
    PROVE  /\ team' \in [Requests -> Seat!Locals]
           /\ team'[r].pc = place /\ team'[r].kind = team[r].kind /\ team'[r].email = team[r].email
           /\ \A q \in Requests \ {r} : team'[q] = team[q]
<1> DEFINE v == [team[r] EXCEPT !.pc = place]
<1>1. team[r] \in Serving
  BY ServingIsBusy DEF Seat!TypeOK
<1>2. v \in Serving /\ v.pc = place /\ v.kind = team[r].kind /\ v.email = team[r].email
  BY <1>1 DEF Serving
<1>3. v \in Seat!Locals
  BY <1>2 DEF Serving, Seat!Locals
<1>4. team' = [team EXCEPT ![r] = v]
  OBVIOUS
<1> HIDE DEF v
<1> QED
  BY <1>2, <1>3, <1>4 DEF Seat!TypeOK

\* The end of a request.
LEMMA Ended ==
    ASSUME Seat!TypeOK, NEW r \in Requests, Seat!End(r)
    PROVE  /\ team' \in [Requests -> Seat!Locals] /\ team'[r] = Seat!Idle
           /\ \A q \in Requests \ {r} : team'[q] = team[q]
           /\ seatLock' \in [LockNumbers -> Requests \cup {Nobody}]
           /\ \A n \in LockNumbers : seatLock'[n] = IF seatLock[n] = r THEN Nobody ELSE seatLock[n]
<1>1. Seat!Idle \in Seat!Locals
  BY DEF Seat!Locals
<1> QED
  BY <1>1 DEF Seat!End, Seat!TypeOK

\* The rows a request sees are the committed ones and its own.
LEMMA SeenRows ==
    ASSUME Seat!TypeOK, NEW r \in Requests, team[r].pc # "idle"
    PROVE  /\ team[r].email \in Emails
           /\ Seat!Seen(r) \in [Emails -> {"none", "active", "removed"}]
           /\ \A e \in Emails : e # team[r].email => Seat!Seen(r)[e] = users[e]
           /\ \A e \in Emails : users[e] # "none" => Seat!Seen(r)[e] # "none"
<1>1. team[r] \in Serving
  BY ServingIsBusy DEF Seat!TypeOK
<1>2. team[r].email \in Emails
  BY <1>1 DEF Serving
<1> QED
  BY <1>2 DEF Seat!Seen, Seat!After, Seat!TypeOK

\* Seats names the operators of FiniteSets itself.
LEMMA SeatCardinality ==
    \A S : /\ Seat!Cardinality(S) = Cardinality(S)
           /\ Seat!IsFiniteSet(S) <=> IsFiniteSet(S)
  BY DEF Seat!Cardinality, Cardinality, Seat!IsFiniteSet, IsFiniteSet

LEMMA CountIsNatural ==
    ASSUME Seat!SeatsAssumption, NEW rows
    PROVE  Seat!CountByTenant(rows) \in Nat
<1>1. IsFiniteSet(Emails)
  BY SeatCardinality DEF Seat!SeatsAssumption
<1>2. IsFiniteSet({e \in Emails : rows[e] # "none"})
  BY <1>1, FS_Subset
<1> QED
  BY <1>2, FS_CardinalityType, SeatCardinality DEF Seat!CountByTenant

LEMMA SeatTypeInit == Seat!SeatsAssumption /\ Seat!Init => Seat!TypeOK
<1> SUFFICES ASSUME Seat!Init PROVE Seat!TypeOK
  OBVIOUS
<1>1. team \in [Requests -> Seat!Locals]
  BY DEF Seat!Init, Seat!Locals
<1> QED
  BY <1>1 DEF Seat!Init, Seat!TypeOK

LEMMA SeatTypeStep ==
    Seat!SeatsAssumption /\ Seat!TypeOK /\ [Seat!Next]_(Seat!seatsVars) => Seat!TypeOK'
<1> SUFFICES ASSUME Seat!SeatsAssumption, Seat!TypeOK, [Seat!Next]_(Seat!seatsVars)
             PROVE  Seat!TypeOK'
  OBVIOUS
<1>1. ASSUME NEW r \in Requests, NEW n \in LockNumbers, NEW e \in Emails,
             Seat!CheckSeats(r, n, e)
      PROVE  Seat!TypeOK'
  <2>1. [pc |-> "look", kind |-> "invite", email |-> e] \in Seat!Locals
    BY DEF Seat!Locals
  <2> QED
    BY <1>1, <2>1 DEF Seat!CheckSeats, Seat!TypeOK
<1>2. ASSUME NEW r \in Requests, NEW e \in Emails, Seat!StartRemove(r, e)
      PROVE  Seat!TypeOK'
  <2>1. [pc |-> "look", kind |-> "remove", email |-> e] \in Seat!Locals
    BY DEF Seat!Locals
  <2> QED
    BY <1>2, <2>1 DEF Seat!StartRemove, Seat!TypeOK
<1>3. ASSUME NEW r \in Requests, Seat!Look(r)
      PROVE  Seat!TypeOK'
  <2>1. PICK place \in {"create", "update"} : team' = [team EXCEPT ![r].pc = place]
    BY <1>3 DEF Seat!Look
  <2> QED
    BY <1>3, <2>1, Moved DEF Seat!Look, Seat!TypeOK
<1>4. ASSUME NEW r \in Requests, Seat!Write(r)
      PROVE  Seat!TypeOK'
  <2>1. team[r].pc # "idle" /\ team' = [team EXCEPT ![r].pc = "wrote"]
    BY <1>4 DEF Seat!Write
  <2> QED
    BY <1>4, <2>1, Moved DEF Seat!Write, Seat!TypeOK
<1>5. ASSUME NEW r \in Requests, Seat!Sync(r)
      PROVE  Seat!TypeOK'
  <2>1. quantity' \in Nat
    BY <1>5, CountIsNatural DEF Seat!Sync, Seat!TypeOK
  <2>2. team[r].pc # "idle" /\ team' = [team EXCEPT ![r].pc = "synced"]
    BY <1>5 DEF Seat!Sync
  <2> QED
    BY <1>5, <2>1, <2>2, Moved DEF Seat!Sync, Seat!TypeOK
<1>6. ASSUME NEW r \in Requests, Seat!Commit(r)
      PROVE  Seat!TypeOK'
  BY <1>6, Ended, SeenRows DEF Seat!Commit, Seat!End, Seat!TypeOK
<1>7. ASSUME NEW r \in Requests, Seat!Rollback(r)
      PROVE  Seat!TypeOK'
  BY <1>7, Ended DEF Seat!Rollback, Seat!End, Seat!TypeOK
<1>8. CASE UNCHANGED Seat!seatsVars
  BY <1>8 DEF Seat!seatsVars, Seat!TypeOK
<1> QED
  BY <1>1, <1>2, <1>3, <1>4, <1>5, <1>6, <1>7, <1>8 DEF Seat!Next

-----------------------------------------------------------------------------
(* Seats: locks and rows.                                                  *)

\* An invitation holds a lock whose number is in use, and nobody else holds one.
LockInv ==
    /\ \A n \in LockNumbers : seatLock[n] # Nobody => n \in numbers
    /\ \A r \in Requests : team[r].pc # "idle" /\ team[r].kind = "invite" =>
           \E n \in LockNumbers : seatLock[n] = r

\* A removal that has found its member updates a row that stays.
RemoveInv ==
    \A r \in Requests : team[r].pc \notin {"idle", "look"} /\ team[r].kind = "remove" =>
        users[team[r].email] # "none"

LEMMA LockInit == Seat!SeatsAssumption /\ Seat!Init => LockInv
  BY DEF Seat!SeatsAssumption, Seat!Init, LockInv, Seat!Idle

LEMMA LockStep ==
    Seat!SeatsAssumption /\ Seat!TypeOK /\ LockInv /\ [Seat!Next]_(Seat!seatsVars)
    => LockInv'
<1> SUFFICES ASSUME Seat!SeatsAssumption, Seat!TypeOK, LockInv, [Seat!Next]_(Seat!seatsVars)
             PROVE  LockInv'
  OBVIOUS
<1>1. ASSUME NEW r \in Requests, NEW n \in LockNumbers, NEW e \in Emails,
             Seat!CheckSeats(r, n, e)
      PROVE  LockInv'
  <2>1. seatLock'[n] = r /\ \A m \in LockNumbers \ {n} : seatLock'[m] = seatLock[m]
    BY <1>1 DEF Seat!CheckSeats, Seat!TypeOK
  <2>2. \A q \in Requests \ {r} : team'[q] = team[q]
    BY <1>1 DEF Seat!CheckSeats, Seat!TypeOK
  <2>3. n \in numbers /\ seatLock[n] = Nobody /\ numbers' = numbers
    BY <1>1 DEF Seat!CheckSeats, Seat!LockFree
  <2>4. ASSUME NEW q \in Requests, team'[q].pc # "idle", team'[q].kind = "invite"
        PROVE  \E m \in LockNumbers : seatLock'[m] = q
    <3>1. CASE q = r
      BY <2>1, <3>1
    <3>2. CASE q # r
      <4>1. PICK m \in LockNumbers : seatLock[m] = q
        BY <2>2, <2>4, <3>2 DEF LockInv
      <4>2. m # n
        BY <2>3, <4>1 DEF Seat!SeatsAssumption
      <4> QED
        BY <2>1, <4>1, <4>2
    <3> QED
      BY <3>1, <3>2
  <2> QED
    BY <2>1, <2>3, <2>4 DEF LockInv
<1>2. ASSUME NEW r \in Requests, NEW e \in Emails, Seat!StartRemove(r, e)
      PROVE  LockInv'
  <2>1. team'[r].kind = "remove" /\ \A q \in Requests \ {r} : team'[q] = team[q]
    BY <1>2 DEF Seat!StartRemove, Seat!TypeOK
  <2> QED
    BY <1>2, <2>1 DEF Seat!StartRemove, LockInv
<1>3. ASSUME NEW r \in Requests, Seat!Look(r) \/ Seat!Write(r) \/ Seat!Sync(r)
      PROVE  LockInv'
  <2>1. PICK place \in {"create", "update", "wrote", "synced"} :
            team' = [team EXCEPT ![r].pc = place]
    BY <1>3 DEF Seat!Look, Seat!Write, Seat!Sync
  <2>2. team[r].pc # "idle" /\ UNCHANGED <<numbers, seatLock>>
    BY <1>3 DEF Seat!Look, Seat!Write, Seat!Sync
  <2>3. team'[r].kind = team[r].kind /\ \A q \in Requests \ {r} : team'[q] = team[q]
    BY <2>1, <2>2, Moved
  <2> QED
    BY <2>2, <2>3 DEF LockInv
<1>4. ASSUME NEW r \in Requests, Seat!End(r)
      PROVE  LockInv'
  <2>1. numbers' = numbers
    BY <1>4 DEF Seat!End
  <2>2. team'[r].pc = "idle"
    BY <1>4, Ended DEF Seat!Idle
  <2> QED
    BY <1>4, <2>1, <2>2, Ended DEF LockInv
<1>5. CASE UNCHANGED Seat!seatsVars
  BY <1>5 DEF Seat!seatsVars, LockInv
<1> QED
  BY <1>1, <1>2, <1>3, <1>4, <1>5 DEF Seat!Next, Seat!Commit, Seat!Rollback

LEMMA RemoveInit == Seat!Init => RemoveInv
  BY DEF Seat!Init, RemoveInv, Seat!Idle

\* No step takes a row away.
LEMMA RowsStay ==
    ASSUME Seat!SeatsAssumption, Seat!TypeOK, [Seat!Next]_(Seat!seatsVars)
    PROVE  \A e \in Emails : users[e] # "none" => users'[e] # "none"
<1>1. ASSUME NEW r \in Requests, Seat!Commit(r)
      PROVE  \A e \in Emails : users[e] # "none" => users'[e] # "none"
  BY <1>1, SeenRows DEF Seat!Commit
<1>2. CASE UNCHANGED users
  BY <1>2
<1> QED
  BY <1>1, <1>2
     DEF Seat!Next, Seat!CheckSeats, Seat!StartRemove, Seat!Look, Seat!Write, Seat!Sync,
         Seat!Rollback, Seat!seatsVars

LEMMA RemoveStep ==
    Seat!SeatsAssumption /\ Seat!TypeOK /\ RemoveInv /\ [Seat!Next]_(Seat!seatsVars)
    => RemoveInv'
<1> SUFFICES ASSUME Seat!SeatsAssumption, Seat!TypeOK, RemoveInv, [Seat!Next]_(Seat!seatsVars),
                    NEW q \in Requests,
                    team'[q].pc \notin {"idle", "look"}, team'[q].kind = "remove"
             PROVE  users'[team'[q].email] # "none"
  BY DEF RemoveInv
<1>1. ASSUME team'[q] = team[q]
      PROVE  users'[team'[q].email] # "none"
  <2>1. team[q] \in Serving
    BY <1>1, ServingIsBusy DEF Seat!TypeOK
  <2>2. team[q].email \in Emails
    BY <2>1 DEF Serving
  <2> QED
    BY <1>1, <2>2, RowsStay DEF RemoveInv
<1>2. ASSUME NEW r \in Requests, NEW n \in LockNumbers, NEW e \in Emails,
             Seat!CheckSeats(r, n, e)
      PROVE  users'[team'[q].email] # "none"
  <2>1. team'[r].pc = "look" /\ \A p \in Requests \ {r} : team'[p] = team[p]
    BY <1>2 DEF Seat!CheckSeats, Seat!TypeOK
  <2> QED
    BY <1>1, <2>1
<1>3. ASSUME NEW r \in Requests, NEW e \in Emails, Seat!StartRemove(r, e)
      PROVE  users'[team'[q].email] # "none"
  <2>1. team'[r].pc = "look" /\ \A p \in Requests \ {r} : team'[p] = team[p]
    BY <1>3 DEF Seat!StartRemove, Seat!TypeOK
  <2> QED
    BY <1>1, <2>1
<1>4. ASSUME NEW r \in Requests, Seat!Look(r)
      PROVE  users'[team'[q].email] # "none"
  <2>1. PICK place \in {"create", "update"} : team' = [team EXCEPT ![r].pc = place]
    BY <1>4 DEF Seat!Look
  <2>2. /\ team'[r].kind = team[r].kind /\ team'[r].email = team[r].email
        /\ \A p \in Requests \ {r} : team'[p] = team[p]
    BY <1>4, <2>1, Moved DEF Seat!Look
  <2>3. CASE q = r
    BY <1>4, <2>2, <2>3 DEF Seat!Look
  <2> QED
    BY <1>1, <2>2, <2>3
<1>5. ASSUME NEW r \in Requests, Seat!Write(r) \/ Seat!Sync(r)
      PROVE  users'[team'[q].email] # "none"
  <2>1. PICK place \in {"wrote", "synced"} : team' = [team EXCEPT ![r].pc = place]
    BY <1>5 DEF Seat!Write, Seat!Sync
  <2>2. team[r].pc \notin {"idle", "look"} /\ users' = users
    BY <1>5 DEF Seat!Write, Seat!Sync
  <2>3. /\ team'[r].kind = team[r].kind /\ team'[r].email = team[r].email
        /\ \A p \in Requests \ {r} : team'[p] = team[p]
    BY <2>1, <2>2, Moved
  <2>4. CASE q = r
    BY <2>2, <2>3, <2>4 DEF RemoveInv
  <2> QED
    BY <1>1, <2>3, <2>4
<1>6. ASSUME NEW r \in Requests, Seat!End(r)
      PROVE  users'[team'[q].email] # "none"
  BY <1>1, <1>6, Ended DEF Seat!Idle
<1>7. CASE UNCHANGED Seat!seatsVars
  BY <1>1, <1>7 DEF Seat!seatsVars
<1> QED
  BY <1>2, <1>3, <1>4, <1>5, <1>6, <1>7 DEF Seat!Next, Seat!Commit, Seat!Rollback

-----------------------------------------------------------------------------
(* Seats: the limit.                                                       *)

Rows(f) == {e \in Emails : f[e] # "none"}
Held(f) == {n \in LockNumbers : f[n] # Nobody}

\* Every lock held is a seat that may be taken: a seat was free when it was acquired,
\* and no more locks can be held than there are numbers in use.
SeatInv == Cardinality(Rows(users)) + Cardinality(Held(seatLock)) < SeatLimit + Cardinality(numbers)

LEMMA Finite ==
    ASSUME Seat!SeatsAssumption, Seat!TypeOK, NEW f, NEW g
    PROVE  /\ IsFiniteSet(Rows(f)) /\ Cardinality(Rows(f)) \in Nat
           /\ IsFiniteSet(Held(g)) /\ Cardinality(Held(g)) \in Nat
           /\ IsFiniteSet(numbers) /\ Cardinality(numbers) \in Nat
           /\ Cardinality(numbers) > 0
           /\ SeatLimit \in Nat /\ SeatLimit > 0
<1>0. IsFiniteSet(Emails) /\ IsFiniteSet(LockNumbers)
  BY SeatCardinality DEF Seat!SeatsAssumption
<1>1. IsFiniteSet(Rows(f)) /\ IsFiniteSet(Held(g)) /\ IsFiniteSet(numbers)
  BY <1>0, FS_Subset DEF Rows, Held, Seat!TypeOK
<1>2. Cardinality(Rows(f)) \in Nat /\ Cardinality(Held(g)) \in Nat /\ Cardinality(numbers) \in Nat
  BY <1>1, FS_CardinalityType
<1>3. Cardinality(numbers) # 0
  BY <1>1, FS_EmptySet DEF Seat!TypeOK
<1> QED
  BY <1>1, <1>2, <1>3 DEF Seat!SeatsAssumption

LEMMA SeatInit == Seat!SeatsAssumption /\ Seat!Init => SeatInv
<1> SUFFICES ASSUME Seat!SeatsAssumption, Seat!Init PROVE SeatInv
  OBVIOUS
<1>1. Seat!TypeOK
  BY SeatTypeInit
<1>2. PICK first \in Emails : users = [e \in Emails |-> IF e = first THEN "active" ELSE "none"]
  BY DEF Seat!Init
<1>3. Rows(users) = {first} /\ Held(seatLock) = {}
  BY <1>2 DEF Seat!Init, Rows, Held
<1>4. Cardinality(Rows(users)) = 1 /\ Cardinality(Held(seatLock)) = 0
  BY <1>3, FS_Singleton, FS_EmptySet
<1> QED
  BY <1>1, <1>4, Finite DEF SeatInv

\* The locks of a request that ends are free again.
LEMMA LocksFreed ==
    ASSUME Seat!SeatsAssumption, Seat!TypeOK, NEW r \in Requests, Seat!End(r)
    PROVE  /\ Cardinality(Held(seatLock')) <= Cardinality(Held(seatLock))
           /\ (\E n \in LockNumbers : seatLock[n] = r) =>
                 Cardinality(Held(seatLock')) < Cardinality(Held(seatLock))
<1>1. Held(seatLock') \subseteq Held(seatLock)
  BY Ended DEF Held
<1>2. Cardinality(Held(seatLock')) <= Cardinality(Held(seatLock))
  BY <1>1, Finite, FS_Subset
<1>3. ASSUME NEW n \in LockNumbers, seatLock[n] = r
      PROVE  Cardinality(Held(seatLock')) < Cardinality(Held(seatLock))
  <2>1. n \in Held(seatLock) /\ n \notin Held(seatLock')
    BY <1>3, Ended DEF Held, Seat!SeatsAssumption
  <2>2. Cardinality(Held(seatLock')) # Cardinality(Held(seatLock))
    BY <1>1, <2>1, Finite, FS_Subset
  <2> QED
    BY <1>2, <2>2, Finite
<1> QED
  BY <1>2, <1>3

LEMMA SeatStep ==
    /\ Seat!SeatsAssumption /\ Seat!TypeOK /\ LockInv /\ RemoveInv /\ SeatInv
    /\ [Seat!Next]_(Seat!seatsVars)
    => SeatInv'
<1> SUFFICES ASSUME Seat!SeatsAssumption, Seat!TypeOK, LockInv, RemoveInv, SeatInv,
                    [Seat!Next]_(Seat!seatsVars)
             PROVE  SeatInv'
  OBVIOUS
<1>0. Seat!TypeOK' /\ LockInv'
  BY SeatTypeStep, LockStep
<1>1. CASE UNCHANGED <<numbers, users, seatLock>>
  BY <1>1 DEF SeatInv, Rows, Held
<1>2. ASSUME NEW r \in Requests, NEW n \in LockNumbers, NEW e \in Emails,
             Seat!CheckSeats(r, n, e)
      PROVE  SeatInv'
  <2>1. Cardinality(Rows(users)) < SeatLimit /\ UNCHANGED <<numbers, users>>
    BY <1>2, SeatCardinality DEF Seat!CheckSeats, Seat!CountByTenant, Rows
  <2>2. Held(seatLock') \subseteq numbers
    BY <1>0, <2>1 DEF LockInv, Held
  <2>3. Cardinality(Held(seatLock')) <= Cardinality(numbers)
    BY <2>2, Finite, FS_Subset
  <2>4. Rows(users') = Rows(users)
    BY <2>1 DEF Rows
  <2> QED
    BY <2>1, <2>3, <2>4, Finite DEF SeatInv
<1>3. ASSUME NEW r \in Requests, Seat!Commit(r)
      PROVE  SeatInv'
  <2>1. Seat!End(r) /\ users' = Seat!Seen(r) /\ team[r].pc = "synced" /\ numbers' = numbers
    BY <1>3 DEF Seat!Commit, Seat!End
  <2>2. team[r].email \in Emails /\ team[r].kind \in {"invite", "remove"}
    BY <2>1, ServingIsBusy DEF Seat!TypeOK, Serving, Seat!Idle
  <2>3. /\ Rows(users) \subseteq Rows(users')
        /\ Rows(users') \subseteq Rows(users) \cup {team[r].email}
    BY <2>1, SeenRows DEF Rows
  <2>4. CASE team[r].kind = "invite"
    <3>1. Cardinality(Held(seatLock')) < Cardinality(Held(seatLock))
      BY <2>1, <2>4, LocksFreed DEF LockInv
    <3>2. /\ IsFiniteSet(Rows(users) \cup {team[r].email})
          /\ Cardinality(Rows(users) \cup {team[r].email}) <= Cardinality(Rows(users)) + 1
      <4>1. IsFiniteSet(Rows(users)) /\ Cardinality(Rows(users)) \in Nat
        BY Finite
      <4> QED
        BY <4>1, FS_AddElement
    <3>3. Cardinality(Rows(users')) <= Cardinality(Rows(users)) + 1
      <4>1. Cardinality(Rows(users')) <= Cardinality(Rows(users) \cup {team[r].email})
        BY <2>3, <3>2, FS_Subset
      <4>2. Cardinality(Rows(users) \cup {team[r].email}) \in Nat
        BY <3>2, FS_CardinalityType
      <4> QED
        BY <3>2, <4>1, <4>2, Finite
    <3> QED
      BY <2>1, <3>1, <3>3, Finite DEF SeatInv
  <2>5. CASE team[r].kind = "remove"
    <3>1. users[team[r].email] # "none"
      BY <2>1, <2>5 DEF RemoveInv
    <3>2. Rows(users') = Rows(users)
      BY <2>2, <2>3, <3>1 DEF Rows
    <3>3. Cardinality(Held(seatLock')) <= Cardinality(Held(seatLock))
      BY <2>1, LocksFreed
    <3> QED
      BY <2>1, <3>2, <3>3, Finite DEF SeatInv
  <2> QED
    BY <2>2, <2>4, <2>5
<1>4. ASSUME NEW r \in Requests, Seat!Rollback(r)
      PROVE  SeatInv'
  <2>1. Cardinality(Held(seatLock')) <= Cardinality(Held(seatLock))
    BY <1>4, LocksFreed DEF Seat!Rollback
  <2>2. Rows(users') = Rows(users) /\ numbers' = numbers
    BY <1>4 DEF Seat!Rollback, Seat!End, Rows
  <2> QED
    BY <2>1, <2>2, Finite DEF SeatInv
<1> QED
  BY <1>1, <1>2, <1>3, <1>4
     DEF Seat!Next, Seat!StartRemove, Seat!Look, Seat!Write, Seat!Sync, Seat!seatsVars

-----------------------------------------------------------------------------
(* Seats: together.                                                        *)

SeatSafeInv == Seat!TypeOK /\ LockInv /\ RemoveInv /\ SeatInv

\* Invitations, removals and failures keep the invariant.
LEMMA SeatSafe == ASSUME Seat!SeatsAssumption PROVE Seat!Spec => []SeatSafeInv
<1>1. Seat!Init => SeatSafeInv
  BY SeatTypeInit, LockInit, RemoveInit, SeatInit DEF SeatSafeInv
<1>2. SeatSafeInv /\ [Seat!Next]_(Seat!seatsVars) => SeatSafeInv'
  BY SeatTypeStep, LockStep, RemoveStep, SeatStep DEF SeatSafeInv
<1> QED
  BY <1>1, <1>2, PTL DEF Seat!Spec

\* invite_member and remove_member keep every variable in its type, for any number of
\* requests.
LEMMA SeatTypeCorrect == ASSUME Seat!SeatsAssumption PROVE Seat!Spec => []Seat!TypeOK
<1>1. SeatSafeInv => Seat!TypeOK
  BY DEF SeatSafeInv
<1> QED
  BY <1>1, SeatSafe, PTL

\* The seat limit is passed by less than one member per lock number in use.
LEMMA LimitHolds == ASSUME Seat!SeatsAssumption PROVE Seat!Spec => []Seat!SeatsAreLimited
<1>1. ASSUME SeatSafeInv
      PROVE  Seat!SeatsAreLimited
  <2>1. Seat!Members \subseteq Rows(users)
    BY DEF Seat!Members, Rows
  <2>2. IsFiniteSet(Seat!Members) /\ Cardinality(Seat!Members) <= Cardinality(Rows(users))
    BY <1>1, <2>1, Finite, FS_Subset DEF SeatSafeInv
  <2>3. Cardinality(Seat!Members) \in Nat
    BY <2>2, FS_CardinalityType
  <2> QED
    BY <1>1, <2>2, <2>3, Finite, SeatCardinality
       DEF SeatSafeInv, SeatInv, Seat!SeatsAreLimited
<1> QED
  BY <1>1, SeatSafe, PTL

-----------------------------------------------------------------------------
(* RateLimit: sums of hits and of requests.                                *)

\* The total of the module is the sum.
LEMMA TotalIsSum ==
    ASSUME NEW f, NEW S
    PROVE  Rate!Total(f, S) = Sum(f, S)
  BY DEF Rate!Total, Rate!MapThenSumSet, Rate!MapThenFoldSet, Sum, SumFrom, Some

LEMMA RateConstants ==
    ASSUME Rate!RateLimitAssumption
    PROVE  /\ Window \in Nat /\ BurstLimit \in Nat /\ MaxClock \in Nat /\ MaxHits \in Nat
           /\ Late \in Nat /\ Early \in Nat /\ Grace \in Nat /\ Late + Early <= Window
           /\ IsFiniteSet(Rate!Clock) /\ Rate!Clock \subseteq Nat
           /\ IsFiniteSet(Rate!Stamps) /\ Rate!Stamps \subseteq Int
<1>1. /\ Window \in Nat /\ BurstLimit \in Nat /\ MaxClock \in Nat /\ MaxHits \in Nat
      /\ Late \in Nat /\ Early \in Nat /\ Grace \in Nat /\ Late + Early <= Window
  BY DEF Rate!RateLimitAssumption
<1>2. -Late \in Int /\ MaxClock + Early \in Int /\ 0 \in Int /\ MaxClock \in Int
  BY <1>1
<1>3. IsFiniteSet(0 .. MaxClock)
  BY <1>2, FS_Interval
<1>4. IsFiniteSet(-Late .. MaxClock + Early)
  BY <1>2, FS_Interval
<1> QED
  BY <1>1, <1>3, <1>4 DEF Rate!Clock, Rate!Stamps

-----------------------------------------------------------------------------
(* RateLimit: every request forwarded within the span is still kept as a   *)
(* hit, so the count of a hit covers it.                                   *)

Lag == IF backend = "redis" THEN Late ELSE 0
Lead == IF backend = "redis" THEN Early ELSE 0

\* The times after one, up to now, and the stamps of the hits served then.
Since(start) == {u \in Rate!Clock : start < u /\ u <= clock}
StampedSince(start) == {s \in Rate!Stamps : start - Lag < s}

RateTypes ==
    /\ backend \in {"redis", "process"}
    /\ clock \in Rate!Clock /\ lastHit \in 0 .. clock
    /\ hits \in [Rate!Stamps -> 0 .. MaxHits]
    /\ passed \in [Rate!Clock -> Nat]

ForwardedInv == \A u \in Rate!Clock : passed[u] # 0 => u <= lastHit

CoverInv ==
    \A start \in clock - Rate!Span .. clock :
        Sum(passed, Since(start)) <= Sum(hits, StampedSince(start))

RateInv == RateTypes /\ ForwardedInv /\ CoverInv /\ Rate!BurstIsLimited

\* What there is to know of the sums of a state.
LEMMA RateSums ==
    ASSUME Rate!RateLimitAssumption, NEW f \in [Rate!Stamps -> Nat], NEW S \in SUBSET Rate!Stamps,
           NEW g \in [Rate!Clock -> Nat], NEW T \in SUBSET Rate!Clock
    PROVE  /\ IsFiniteSet(S) /\ Sum(f, S) \in Nat /\ Sum(f, S) <= Sum(f, Rate!Stamps)
           /\ Sum(f, Rate!Stamps) \in Nat
           /\ \A s \in Rate!Stamps : f[s] <= Sum(f, Rate!Stamps)
           /\ IsFiniteSet(T) /\ Sum(g, T) \in Nat
<1>1. /\ IsFiniteSet(Rate!Stamps) /\ IsFiniteSet(Rate!Clock)
  BY RateConstants
<1>2. IsFiniteSet(S) /\ IsFiniteSet(T)
  BY <1>1, FS_Subset
<1>3. (\A s \in Rate!Stamps : f[s] \in Nat) /\ (\A s \in S : f[s] \in Nat)
      /\ (\A t \in T : g[t] \in Nat)
  OBVIOUS
<1>4. Sum(f, S) \in Nat
  BY <1>2, <1>3, SumIsNat
<1>5. Sum(g, T) \in Nat
  BY <1>2, <1>3, SumIsNat
<1>6. Sum(f, Rate!Stamps) \in Nat
  BY <1>1, <1>3, SumIsNat
<1>7. Sum(f, S) <= Sum(f, Rate!Stamps)
  BY <1>1, <1>3, SumOfLargerSet
<1>8. \A s \in Rate!Stamps : f[s] <= Sum(f, Rate!Stamps)
  BY <1>1, <1>3, SummandBelowSum
<1> QED
  BY <1>2, <1>4, <1>5, <1>6, <1>7, <1>8

LEMMA SpanIsShort ==
    ASSUME Rate!RateLimitAssumption, backend \in {"redis", "process"}
    PROVE  /\ Rate!Span \in Nat /\ Lag \in Nat /\ Lead \in Nat
           /\ Rate!Span = Window - Lag - Lead
  BY RateConstants DEF Rate!Span, Lag, Lead

LEMMA RateInit == Rate!RateLimitAssumption /\ Rate!Init => RateInv
<1> SUFFICES ASSUME Rate!RateLimitAssumption, Rate!Init
             PROVE  RateInv
  OBVIOUS
<1>1. /\ backend \in {"redis", "process"} /\ clock = 0 /\ lastHit = 0
      /\ hits = [s \in Rate!Stamps |-> 0] /\ passed = [t \in Rate!Clock |-> 0]
  BY DEF Rate!Init, Rate!NoHits
<1>2. RateTypes
  BY <1>1, RateConstants DEF RateTypes, Rate!Clock
<1>3. ForwardedInv
  BY <1>1 DEF ForwardedInv
<1>4. ASSUME NEW T \in SUBSET Rate!Clock
      PROVE  Sum(passed, T) = 0
  <2>1. IsFiniteSet(T)
    BY RateConstants, FS_Subset
  <2>2. \A t \in T : passed[t] = 0
    BY <1>1
  <2> QED
    BY <2>1, <2>2, SumZero
<1>5. CoverInv
  <2>1. ASSUME NEW start \in clock - Rate!Span .. clock
        PROVE  Sum(passed, Since(start)) <= Sum(hits, StampedSince(start))
    <3>1. Since(start) \in SUBSET Rate!Clock /\ StampedSince(start) \in SUBSET Rate!Stamps
      BY DEF Since, StampedSince
    <3>2. Sum(passed, Since(start)) = 0
      BY <1>4, <3>1
    <3>3. Sum(hits, StampedSince(start)) \in Nat
      <4>1. hits \in [Rate!Stamps -> Nat] /\ passed \in [Rate!Clock -> Nat]
        BY <1>1
      <4> QED
        BY <3>1, <4>1, RateSums
    <3> QED
      BY <3>2, <3>3
  <2> QED
    BY <2>1 DEF CoverInv
<1>6. Rate!BurstIsLimited
  <2>1. ASSUME NEW t \in Rate!Clock
        PROVE  Rate!Total(passed, {u \in Rate!Clock : t - Rate!Span < u /\ u <= t}) <= BurstLimit
    <3> DEFINE T == {u \in Rate!Clock : t - Rate!Span < u /\ u <= t}
    <3>1. T \in SUBSET Rate!Clock
      OBVIOUS
    <3>2. Sum(passed, T) = 0
      BY <1>4, <3>1
    <3>3. Rate!Total(passed, T) = Sum(passed, T)
      BY TotalIsSum
    <3> QED
      BY <3>2, <3>3, RateConstants
  <2> QED
    BY <2>1 DEF Rate!BurstIsLimited
<1> QED
  BY <1>2, <1>3, <1>5, <1>6 DEF RateInv

\* A hit removes no stamp of its span, and its own is of the span.
LEMMA PruningSpares ==
    ASSUME Rate!RateLimitAssumption, RateTypes, NEW stamp \in Rate!StampsOfNow
    PROVE  /\ stamp \in Rate!Stamps
           /\ Rate!Pruned(stamp) \in [Rate!Stamps -> 0 .. MaxHits]
           /\ \A start \in clock - Rate!Span .. clock :
                 /\ start < clock => stamp \in StampedSince(start)
                 /\ \A s \in StampedSince(start) : Rate!Pruned(stamp)[s] = hits[s]
<1>1. /\ Window \in Nat /\ MaxClock \in Nat /\ MaxHits \in Nat /\ Late \in Nat /\ Early \in Nat
      /\ clock \in 0 .. MaxClock
  BY RateConstants DEF RateTypes, Rate!Clock
<1>2. Lag \in Nat /\ Lead \in Nat /\ Lag <= Late /\ Lead <= Early
  BY <1>1 DEF Lag, Lead
<1>3. stamp \in clock - Lag .. clock + Lead
  BY <1>1 DEF Rate!StampsOfNow, Lag, Lead, RateTypes
<1>4. stamp \in Int /\ clock - Lag <= stamp /\ stamp <= clock + Lead
  BY <1>1, <1>2, <1>3
<1>5. stamp \in Rate!Stamps
  BY <1>1, <1>2, <1>4 DEF Rate!Stamps
<1>6. Rate!Pruned(stamp) \in [Rate!Stamps -> 0 .. MaxHits]
  BY <1>1 DEF Rate!Pruned, RateTypes
<1>7. ASSUME NEW start \in clock - Rate!Span .. clock
      PROVE  /\ start < clock => stamp \in StampedSince(start)
             /\ \A s \in StampedSince(start) : Rate!Pruned(stamp)[s] = hits[s]
  <2>1. Rate!Span \in Nat /\ Rate!Span = Window - Lag - Lead
    BY SpanIsShort DEF RateTypes
  <2>2. start \in Int /\ clock - Window + Lag + Lead <= start
    BY <1>1, <1>2, <2>1
  <2>3. start < clock => stamp \in StampedSince(start)
    BY <1>1, <1>2, <1>4, <1>5, <2>2 DEF StampedSince
  <2>4. ASSUME NEW s \in StampedSince(start)
        PROVE  Rate!Pruned(stamp)[s] = hits[s]
    <3>1. s \in Rate!Stamps /\ s \in Int /\ start - Lag < s
      BY RateConstants DEF StampedSince
    <3>2. ~(s <= stamp - Window)
      BY <1>1, <1>2, <1>4, <2>2, <3>1
    <3> QED
      BY <3>1, <3>2 DEF Rate!Pruned, Rate!Cutoff
  <2> QED
    BY <2>3, <2>4
<1> QED
  BY <1>5, <1>6, <1>7

\* What a hit adds to the sums.
LEMMA HitAdds ==
    ASSUME Rate!RateLimitAssumption, RateTypes, NEW stamp \in Rate!StampsOfNow,
           Rate!Total(Rate!Pruned(stamp), Rate!Stamps) < MaxHits
    PROVE  /\ Rate!Added(stamp) \in [Rate!Stamps -> 0 .. MaxHits]
           /\ \A start \in clock - Rate!Span .. clock :
                 Sum(hits, StampedSince(start)) + (IF start < clock THEN 1 ELSE 0)
                     <= Sum(Rate!Added(stamp), StampedSince(start))
<1> DEFINE p == Rate!Pruned(stamp)
           a == Rate!Added(stamp)
<1>1. /\ p \in [Rate!Stamps -> 0 .. MaxHits] /\ stamp \in Rate!Stamps
      /\ \A start \in clock - Rate!Span .. clock :
            /\ start < clock => stamp \in StampedSince(start)
            /\ \A s \in StampedSince(start) : p[s] = hits[s]
  BY PruningSpares
<1>2. a = [p EXCEPT ![stamp] = @ + 1]
  BY DEF Rate!Added
<1>3. MaxHits \in Nat /\ Rate!Stamps \subseteq Int /\ clock \in Int
  BY RateConstants DEF RateTypes, Rate!Clock
<1>4. Sum(p, Rate!Stamps) < MaxHits
  BY TotalIsSum
<1> HIDE DEF p, a
<1>5. p[stamp] < MaxHits
  <2>1. p \in [Rate!Stamps -> Nat]
    BY <1>1, <1>3
  <2>2. IsFiniteSet(Rate!Stamps) /\ \A s \in Rate!Stamps : p[s] \in Nat
    BY <2>1, RateConstants
  <2>3. p[stamp] <= Sum(p, Rate!Stamps)
    BY <1>1, <2>2, SummandBelowSum
  <2>4. Sum(p, Rate!Stamps) \in Nat
    BY <2>2, SumIsNat
  <2> QED
    BY <1>1, <1>3, <1>4, <2>1, <2>3, <2>4
<1>6. a \in [Rate!Stamps -> 0 .. MaxHits] /\ a[stamp] = p[stamp] + 1
      /\ \A s \in Rate!Stamps \ {stamp} : a[s] = p[s]
  BY <1>1, <1>2, <1>3, <1>5
<1>7. ASSUME NEW start \in clock - Rate!Span .. clock
      PROVE  Sum(hits, StampedSince(start)) + (IF start < clock THEN 1 ELSE 0)
                 <= Sum(a, StampedSince(start))
  <2> DEFINE S == StampedSince(start)
  <2>1. S \in SUBSET Rate!Stamps /\ IsFiniteSet(S)
    BY RateConstants, FS_Subset DEF StampedSince
  <2>0. \A s \in S : p[s] = hits[s]
    BY <1>1
  <2>2. \A s \in S : hits[s] \in Nat /\ p[s] = hits[s]
    <3>1. hits \in [Rate!Stamps -> Nat]
      BY <1>3 DEF RateTypes
    <3> QED
      BY <2>0, <2>1, <3>1
  <2>3. start < clock => stamp \in S
    BY <1>1
  <2> HIDE DEF S
  <2>4. \A s \in S : hits[s] \in Nat
    BY <2>2
  <2>5. \A s \in S : hits[s] \in Int
    BY <2>2
  <2>6. Sum(hits, S) \in Nat
    BY <2>1, <2>4, SumIsNat
  <2>7. CASE stamp \in S
    <3>1. a[stamp] \in Int /\ a[stamp] - hits[stamp] = 1
      BY <1>1, <1>3, <1>6, <2>2, <2>7
    <3>2. \A s \in S \ {stamp} : a[s] = hits[s]
      BY <1>6, <2>1, <2>2
    <3>3. Sum(a, S) = Sum(hits, S) + (a[stamp] - hits[stamp])
      BY <2>1, <2>5, <2>7, <3>1, <3>2, SumChanged
    <3> QED
      BY <2>6, <3>1, <3>3 DEF S
  <2>8. CASE stamp \notin S
    <3>1. \A s \in S : a[s] = hits[s]
      BY <1>6, <2>1, <2>2, <2>8
    <3>2. Sum(a, S) = Sum(hits, S)
      BY <2>1, <2>5, <3>1, SumAgree
    <3> QED
      BY <2>3, <2>6, <2>8, <3>2 DEF S
  <2> QED
    BY <2>7, <2>8
<1> QED
  BY <1>6, <1>7 DEF a

\* A span that ends now or later is the one that ends now: nothing was forwarded later.
LEMMA LastSpan ==
    ASSUME Rate!RateLimitAssumption, RateTypes,
           NEW g \in [Rate!Clock -> Nat], \A u \in Rate!Clock : g[u] # 0 => u <= clock,
           Sum(g, Since(clock - Rate!Span)) <= BurstLimit,
           NEW t \in Rate!Clock, clock <= t
    PROVE  Sum(g, {u \in Rate!Clock : t - Rate!Span < u /\ u <= t}) <= BurstLimit
<1> DEFINE T == {u \in Rate!Clock : t - Rate!Span < u /\ u <= t}
           R == {u \in T : u <= clock}
           S == Since(clock - Rate!Span)
<1>1. clock \in Nat /\ t \in Nat /\ Rate!Span \in Nat /\ BurstLimit \in Nat
  BY RateConstants, SpanIsShort DEF RateTypes
<1>2. R \in SUBSET T /\ T \in SUBSET Rate!Clock /\ S \in SUBSET Rate!Clock
  BY DEF Since
<1>3. R \in SUBSET S
  <2>1. ASSUME NEW u \in Rate!Clock, t - Rate!Span < u, u <= clock
        PROVE  clock - Rate!Span < u
    <3>1. u \in Nat
      BY RateConstants
    <3> QED
      BY <1>1, <2>1, <3>1
  <2> QED
    BY <2>1 DEF Since
<1>4. IsFiniteSet(T) /\ IsFiniteSet(S) /\ IsFiniteSet(R)
  BY <1>2, RateConstants, FS_Subset
<1>5. (\A u \in T : g[u] \in Int) /\ (\A u \in S : g[u] \in Nat) /\ (\A u \in R : g[u] \in Nat)
  BY <1>2
<1>6. \A u \in T \ R : g[u] = 0
  BY <1>2
<1> HIDE DEF T, R, S
<1>7. Sum(g, T) = Sum(g, R)
  BY <1>2, <1>4, <1>5, <1>6, SumOverSubset
<1>8. Sum(g, R) <= Sum(g, S)
  BY <1>3, <1>4, <1>5, SumOfLargerSet
<1>9. Sum(g, R) \in Nat /\ Sum(g, S) \in Nat
  BY <1>4, <1>5, SumIsNat
<1>10. Sum(g, S) <= BurstLimit
  BY DEF S
<1>11. Sum(g, T) <= BurstLimit
  BY <1>1, <1>7, <1>8, <1>9, <1>10
<1> QED
  BY <1>11 DEF T

\* A request that is forwarded adds one to both sums.
LEMMA HitStep ==
    ASSUME Rate!RateLimitAssumption, RateInv, NEW stamp \in Rate!StampsOfNow, Rate!Hit(stamp)
    PROVE  RateInv'
<1>1. /\ Rate!Total(Rate!Pruned(stamp), Rate!Stamps) < MaxHits
      /\ hits' = Rate!Added(stamp) /\ lastHit' = clock /\ backend' = backend /\ clock' = clock
      /\ passed' = IF Rate!Total(Rate!Added(stamp), Rate!Stamps) <= BurstLimit
                   THEN [passed EXCEPT ![clock] = @ + 1] ELSE passed
  BY DEF Rate!Hit
<1>2. RateTypes /\ ForwardedInv /\ CoverInv /\ Rate!BurstIsLimited
  BY DEF RateInv
<1>3. /\ clock \in Nat /\ clock \in Rate!Clock /\ lastHit \in Nat /\ lastHit <= clock
      /\ passed \in [Rate!Clock -> Nat] /\ hits \in [Rate!Stamps -> Nat]
      /\ MaxHits \in Nat /\ BurstLimit \in Nat
      /\ Rate!Span \in Nat
  BY <1>2, RateConstants, SpanIsShort DEF RateTypes, Rate!Clock
<1>4. /\ Rate!Added(stamp) \in [Rate!Stamps -> 0 .. MaxHits]
      /\ \A start \in clock - Rate!Span .. clock :
            Sum(hits, StampedSince(start)) + (IF start < clock THEN 1 ELSE 0)
                <= Sum(Rate!Added(stamp), StampedSince(start))
  BY <1>1, <1>2, HitAdds
<1>5. /\ passed' \in [Rate!Clock -> Nat]
      /\ \A u \in Rate!Clock \ {clock} : passed'[u] = passed[u]
      /\ passed'[clock] = passed[clock] \/ passed'[clock] = passed[clock] + 1
  BY <1>1, <1>3
<1>6. RateTypes'
  BY <1>1, <1>2, <1>3, <1>4, <1>5 DEF RateTypes
<1>7. ForwardedInv'
  <2>1. ASSUME NEW u \in Rate!Clock, passed'[u] # 0
        PROVE  u <= clock
    <3>1. u \in Nat
      BY RateConstants
    <3>2. CASE u = clock
      BY <1>3, <3>2
    <3>3. CASE u # clock
      BY <1>2, <1>3, <1>5, <2>1, <3>1, <3>3 DEF ForwardedInv
    <3> QED
      BY <3>2, <3>3
  <2> QED
    BY <1>1, <2>1 DEF ForwardedInv
<1>8. ASSUME NEW start \in clock - Rate!Span .. clock
      PROVE  Sum(passed', Since(start)) <= Sum(hits', StampedSince(start))
  <2>1. Since(start) \in SUBSET Rate!Clock /\ StampedSince(start) \in SUBSET Rate!Stamps
    BY DEF Since, StampedSince
  <2>2. IsFiniteSet(Since(start)) /\ Sum(passed, Since(start)) \in Nat
    BY <1>3, <2>1, RateSums
  <2>3. Sum(hits, StampedSince(start)) \in Nat /\ Sum(hits', StampedSince(start)) \in Nat
    <3>1. hits' \in [Rate!Stamps -> Nat]
      BY <1>1, <1>3, <1>4
    <3> QED
      BY <1>3, <2>1, <3>1, RateSums
  <2>4. Sum(passed, Since(start)) <= Sum(hits, StampedSince(start))
    BY <1>2 DEF CoverInv
  <2>5. \A u \in Since(start) : passed[u] \in Int
    <3>1. \A u \in Rate!Clock : passed[u] \in Int
      BY <1>3
    <3> QED
      BY <2>1, <3>1
  <2>6. start \in Int /\ (clock \in Since(start) => start < clock)
    BY <1>3 DEF Since
  <2>7. Sum(passed', Since(start)) <= Sum(passed, Since(start)) + (IF start < clock THEN 1 ELSE 0)
    <3>1. CASE clock \in Since(start)
      <4>1. passed'[clock] \in Int /\ passed'[clock] - passed[clock] <= 1 /\ passed[clock] \in Int
        BY <1>3, <1>5
      <4>2. \A u \in Since(start) \ {clock} : passed'[u] = passed[u]
        BY <1>5, <2>1
      <4>3. Sum(passed', Since(start)) = Sum(passed, Since(start)) + (passed'[clock] - passed[clock])
        BY <2>2, <2>5, <3>1, <4>1, <4>2, SumChanged
      <4> QED
        BY <2>2, <2>6, <3>1, <4>1, <4>3
    <3>2. CASE clock \notin Since(start)
      <4>1. \A u \in Since(start) : passed'[u] = passed[u]
        BY <1>5, <2>1, <3>2
      <4>2. Sum(passed', Since(start)) = Sum(passed, Since(start))
        BY <2>2, <2>5, <4>1, SumAgree
      <4> QED
        BY <2>2, <4>2
    <3> QED
      BY <3>1, <3>2
  <2>8. Sum(passed', Since(start)) \in Nat
    BY <1>3, <1>5, <2>1, RateSums
  <2>9. Sum(hits, StampedSince(start)) + (IF start < clock THEN 1 ELSE 0)
            <= Sum(hits', StampedSince(start))
    BY <1>1, <1>4
  <2> QED
    BY <2>2, <2>3, <2>4, <2>7, <2>8, <2>9
<1>9. CoverInv'
  BY <1>1, <1>8 DEF CoverInv, Since, StampedSince, Lag, Rate!Span
<1>10. ASSUME NEW t \in Rate!Clock
       PROVE  Sum(passed', {u \in Rate!Clock : t - Rate!Span < u /\ u <= t}) <= BurstLimit
  <2> DEFINE T == {u \in Rate!Clock : t - Rate!Span < u /\ u <= t}
  <2>0. t \in Nat /\ T \in SUBSET Rate!Clock
    BY RateConstants
  <2>1. CASE passed' = passed \/ t < clock
    <3>1. \A u \in T : passed'[u] = passed[u]
      BY <1>3, <1>5, <2>0, <2>1, RateConstants
    <3>2. \A u \in T : passed[u] \in Int
      BY <1>3
    <3>3. IsFiniteSet(T)
      BY <2>0, RateConstants, FS_Subset
    <3>4. Rate!Total(passed, T) <= BurstLimit
      BY <1>2 DEF Rate!BurstIsLimited
    <3> HIDE DEF T
    <3>5. Sum(passed', T) = Sum(passed, T)
      BY <3>1, <3>2, <3>3, SumAgree
    <3>6. Rate!Total(passed, T) = Sum(passed, T)
      BY TotalIsSum
    <3>7. Sum(passed', T) <= BurstLimit
      BY <3>4, <3>5, <3>6
    <3> QED
      BY <3>7 DEF T
  <2>2. CASE passed' # passed /\ clock <= t
    <3>1. Rate!Total(Rate!Added(stamp), Rate!Stamps) <= BurstLimit
      BY <1>1, <2>2
    <3>2. Sum(hits', Rate!Stamps) <= BurstLimit
      BY <1>1, <3>1, TotalIsSum
    <3>3. clock - Rate!Span \in clock - Rate!Span .. clock
      BY <1>3
    <3>4. Sum(passed', Since(clock - Rate!Span)) <= Sum(hits', StampedSince(clock - Rate!Span))
      BY <1>8, <3>3
    <3>5. /\ Sum(hits', StampedSince(clock - Rate!Span)) <= Sum(hits', Rate!Stamps)
          /\ Sum(hits', StampedSince(clock - Rate!Span)) \in Nat
          /\ Sum(hits', Rate!Stamps) \in Nat
      <4>1. hits' \in [Rate!Stamps -> Nat]
        BY <1>1, <1>3, <1>4
      <4>2. StampedSince(clock - Rate!Span) \in SUBSET Rate!Stamps
        BY DEF StampedSince
      <4> QED
        BY <1>3, <4>1, <4>2, RateSums
    <3>6. Sum(passed', Since(clock - Rate!Span)) \in Nat
      <4>1. Since(clock - Rate!Span) \in SUBSET Rate!Clock
        BY DEF Since
      <4> QED
        BY <1>3, <1>5, <4>1, RateSums
    <3>7. Sum(passed', Since(clock - Rate!Span)) <= BurstLimit
      BY <1>3, <3>2, <3>4, <3>5, <3>6
    <3>8. \A u \in Rate!Clock : passed'[u] # 0 => u <= clock
      BY <1>1, <1>7 DEF ForwardedInv
    <3> QED
      BY <1>2, <1>5, <2>2, <3>7, <3>8, LastSpan
  <2> QED
    BY <1>3, <2>0, <2>1, <2>2
<1>11. Rate!BurstIsLimited'
  <2>1. Rate!Span' = Rate!Span
    BY <1>1 DEF Rate!Span
  <2>2. ASSUME NEW t \in Rate!Clock
        PROVE  Rate!Total(passed', {u \in Rate!Clock : t - Rate!Span < u /\ u <= t}) <= BurstLimit
    BY <1>10, TotalIsSum
  <2> QED
    BY <2>1, <2>2 DEF Rate!BurstIsLimited
<1> QED
  BY <1>6, <1>7, <1>9, <1>11 DEF RateInv

\* While nothing is forwarded the window of every time stays what it is.
LEMMA BurstStays ==
    ASSUME Rate!BurstIsLimited, UNCHANGED <<backend, passed>>
    PROVE  Rate!BurstIsLimited'
<1>1. Rate!Span' = Rate!Span
  BY DEF Rate!Span
<1> QED
  BY <1>1, TotalIsSum DEF Rate!BurstIsLimited

\* Old hits may go, and hits may come, as long as the span keeps its own.
LEMMA HitsMayGo ==
    ASSUME Rate!RateLimitAssumption, RateInv, UNCHANGED <<backend, clock, passed>>,
           lastHit' \in {lastHit, clock}, hits' \in [Rate!Stamps -> 0 .. MaxHits],
           \A start \in clock - Rate!Span .. clock :
               Sum(hits, StampedSince(start)) <= Sum(hits', StampedSince(start))
    PROVE  RateInv'
<1>1. RateTypes /\ ForwardedInv /\ CoverInv /\ Rate!BurstIsLimited
  BY DEF RateInv
<1>2. /\ clock \in Nat /\ lastHit \in Nat /\ lastHit <= clock /\ MaxHits \in Nat
      /\ passed \in [Rate!Clock -> Nat] /\ hits \in [Rate!Stamps -> Nat]
      /\ hits' \in [Rate!Stamps -> Nat]
  BY <1>1, RateConstants DEF RateTypes, Rate!Clock
<1>3. RateTypes'
  BY <1>1, <1>2 DEF RateTypes
<1>4. ForwardedInv'
  <2>1. ASSUME NEW u \in Rate!Clock, passed[u] # 0
        PROVE  u <= lastHit'
    <3>1. u \in Nat /\ u <= lastHit
      BY <1>1, <2>1, RateConstants DEF ForwardedInv
    <3> QED
      BY <1>2, <3>1
  <2> QED
    BY <2>1 DEF ForwardedInv
<1>5. CoverInv'
  <2>1. ASSUME NEW start \in clock - Rate!Span .. clock
        PROVE  Sum(passed, Since(start)) <= Sum(hits', StampedSince(start))
    <3>1. Since(start) \in SUBSET Rate!Clock /\ StampedSince(start) \in SUBSET Rate!Stamps
      BY DEF Since, StampedSince
    <3>2. /\ Sum(passed, Since(start)) \in Nat
          /\ Sum(hits, StampedSince(start)) \in Nat /\ Sum(hits', StampedSince(start)) \in Nat
      BY <1>2, <3>1, RateSums
    <3>3. Sum(passed, Since(start)) <= Sum(hits, StampedSince(start))
      BY <1>1 DEF CoverInv
    <3> QED
      BY <3>2, <3>3
  <2> QED
    BY <2>1 DEF CoverInv, Since, StampedSince, Lag, Rate!Span
<1> QED
  BY <1>1, <1>3, <1>4, <1>5, BurstStays DEF RateInv

LEMMA LostStep ==
    ASSUME Rate!RateLimitAssumption, RateInv, NEW stamp \in Rate!StampsOfNow,
           Rate!LoseAnswer(stamp)
    PROVE  RateInv'
<1>1. RateTypes /\ Rate!Total(Rate!Pruned(stamp), Rate!Stamps) < MaxHits
      /\ hits' = Rate!Added(stamp) /\ lastHit' = clock /\ UNCHANGED <<backend, clock, passed>>
  BY DEF Rate!LoseAnswer, RateInv
<1>2. /\ hits' \in [Rate!Stamps -> 0 .. MaxHits]
      /\ \A start \in clock - Rate!Span .. clock :
            Sum(hits, StampedSince(start)) + (IF start < clock THEN 1 ELSE 0)
                <= Sum(hits', StampedSince(start))
  BY <1>1, HitAdds
<1>3. ASSUME NEW start \in clock - Rate!Span .. clock
      PROVE  Sum(hits, StampedSince(start)) <= Sum(hits', StampedSince(start))
  <2>1. StampedSince(start) \in SUBSET Rate!Stamps
    BY DEF StampedSince
  <2>2. hits \in [Rate!Stamps -> Nat] /\ hits' \in [Rate!Stamps -> Nat]
        /\ passed \in [Rate!Clock -> Nat]
    BY <1>1, <1>2, RateConstants DEF RateTypes
  <2>3. {} \in SUBSET Rate!Clock
    OBVIOUS
  <2>4. Sum(hits, StampedSince(start)) \in Nat /\ Sum(hits', StampedSince(start)) \in Nat
    BY <2>1, <2>2, <2>3, RateSums
  <2> QED
    BY <1>2, <2>4
<1> QED
  BY <1>1, <1>2, <1>3, HitsMayGo

LEMMA CleanupStep ==
    ASSUME Rate!RateLimitAssumption, RateInv, Rate!Cleanup
    PROVE  RateInv'
<1>1. /\ RateTypes /\ backend = "process" /\ hits' = Rate!Pruned(clock)
      /\ UNCHANGED <<backend, clock, lastHit, passed>>
  BY DEF Rate!Cleanup, RateInv
<1>2. clock \in Rate!StampsOfNow
  BY <1>1 DEF Rate!StampsOfNow
<1>3. /\ hits' \in [Rate!Stamps -> 0 .. MaxHits]
      /\ \A start \in clock - Rate!Span .. clock :
            \A s \in StampedSince(start) : hits'[s] = hits[s]
  BY <1>1, <1>2, PruningSpares
<1>4. ASSUME NEW start \in clock - Rate!Span .. clock
      PROVE  Sum(hits, StampedSince(start)) <= Sum(hits', StampedSince(start))
  <2>1. StampedSince(start) \in SUBSET Rate!Stamps /\ IsFiniteSet(StampedSince(start))
    BY RateConstants, FS_Subset DEF StampedSince
  <2>2. hits \in [Rate!Stamps -> Nat]
    BY <1>1, RateConstants DEF RateTypes
  <2>3. \A s \in StampedSince(start) : hits[s] \in Int
    BY <2>1, <2>2
  <2>4. \A s \in StampedSince(start) : hits'[s] = hits[s]
    BY <1>3
  <2>5. Sum(hits', StampedSince(start)) = Sum(hits, StampedSince(start))
    BY <2>1, <2>3, <2>4, SumAgree
  <2>6. Sum(hits, StampedSince(start)) \in Int
    BY <2>1, <2>3, SumIsInt
  <2> QED
    BY <2>5, <2>6
<1> QED
  BY <1>1, <1>3, <1>4, HitsMayGo

\* A key that Redis drops was idle for longer than the span.
LEMMA TickStep ==
    ASSUME Rate!RateLimitAssumption, RateInv, Rate!Tick
    PROVE  RateInv'
<1>1. /\ clock < MaxClock /\ clock' = clock + 1 /\ UNCHANGED <<backend, lastHit, passed>>
      /\ hits' = IF backend = "redis" /\ clock + 1 >= lastHit + Window + Grace
                 THEN [s \in Rate!Stamps |-> 0] ELSE hits
  BY DEF Rate!Tick, Rate!NoHits
<1>2. RateTypes /\ ForwardedInv /\ CoverInv /\ Rate!BurstIsLimited
  BY DEF RateInv
<1>3. /\ clock \in Nat /\ lastHit \in Nat /\ lastHit <= clock
      /\ MaxHits \in Nat /\ MaxClock \in Nat /\ Window \in Nat /\ Grace \in Nat
      /\ passed \in [Rate!Clock -> Nat] /\ hits \in [Rate!Stamps -> Nat]
      /\ hits' \in [Rate!Stamps -> Nat] /\ hits' \in [Rate!Stamps -> 0 .. MaxHits]
      /\ Rate!Span \in Nat /\ Lag \in Nat /\ Lead \in Nat /\ Rate!Span = Window - Lag - Lead
  <2>1. /\ clock \in 0 .. MaxClock /\ lastHit \in 0 .. clock
        /\ passed \in [Rate!Clock -> Nat] /\ hits \in [Rate!Stamps -> 0 .. MaxHits]
    BY <1>2 DEF RateTypes, Rate!Clock
  <2>2. /\ MaxHits \in Nat /\ MaxClock \in Nat /\ Window \in Nat /\ Grace \in Nat
    BY RateConstants
  <2>3. /\ Rate!Span \in Nat /\ Lag \in Nat /\ Lead \in Nat
        /\ Rate!Span = Window - Lag - Lead
    BY <1>2, SpanIsShort DEF RateTypes
  <2>4. 0 \in 0 .. MaxHits /\ 0 .. MaxHits \subseteq Nat
    BY <2>2
  <2>5. hits' \in [Rate!Stamps -> 0 .. MaxHits]
    <3>1. CASE hits' = hits
      BY <2>1, <3>1
    <3>2. CASE hits' = [s \in Rate!Stamps |-> 0]
      BY <2>4, <3>2
    <3> QED
      BY <1>1, <3>1, <3>2
  <2>6. hits \in [Rate!Stamps -> Nat] /\ hits' \in [Rate!Stamps -> Nat]
    BY <2>1, <2>4, <2>5
  <2>7. clock \in Nat /\ lastHit \in Nat /\ lastHit <= clock
    BY <2>1, <2>2
  <2> QED
    BY <2>1, <2>2, <2>3, <2>5, <2>6, <2>7
<1>4. RateTypes'
  BY <1>1, <1>2, <1>3 DEF RateTypes, Rate!Clock
<1>5. ForwardedInv'
  BY <1>1, <1>2 DEF ForwardedInv
<1> DEFINE later(start) == {u \in Rate!Clock : start < u /\ u <= clock + 1}
<1>6. ASSUME NEW start \in clock + 1 - Rate!Span .. clock + 1
      PROVE  Sum(passed, later(start)) <= Sum(hits', StampedSince(start))
  <2> DEFINE T == later(start)
  <2>0. start \in Int /\ clock + 1 - Rate!Span <= start /\ start <= clock + 1
    BY <1>3
  <2>1. T \in SUBSET Rate!Clock /\ StampedSince(start) \in SUBSET Rate!Stamps
    BY DEF StampedSince
  <2>2. IsFiniteSet(T)
    BY <2>1, RateConstants, FS_Subset
  <2>3. Sum(passed, T) \in Nat /\ Sum(hits', StampedSince(start)) \in Nat
    BY <1>3, <2>1, RateSums
  <2>4. \A u \in Rate!Clock : u \in Nat /\ (u > lastHit => passed[u] = 0)
    <3>1. ASSUME NEW u \in Rate!Clock, u > lastHit
          PROVE  passed[u] = 0
      <4>1. u \in Nat
        BY RateConstants
      <4> QED
        BY <1>2, <1>3, <3>1, <4>1 DEF ForwardedInv
    <3> QED
      BY <3>1, RateConstants
  <2>5. CASE lastHit <= start
    <3>1. \A u \in T : passed[u] = 0
      <4>1. ASSUME NEW u \in Rate!Clock, start < u
            PROVE  passed[u] = 0
        <5>1. u \in Nat /\ u > lastHit
          BY <1>3, <2>0, <2>4, <2>5, <4>1
        <5> QED
          BY <2>4, <5>1
      <4> QED
        BY <4>1
    <3> HIDE DEF T
    <3>2. Sum(passed, T) = 0
      BY <2>2, <3>1, SumZero
    <3>3. Sum(passed, T) <= Sum(hits', StampedSince(start))
      BY <2>3, <3>2
    <3> QED
      BY <3>3 DEF T
  <2>6. CASE ~(lastHit <= start)
    <3>1. hits' = hits
      BY <1>1, <1>3, <2>0, <2>6
    <3>2. start \in clock - Rate!Span .. clock
      BY <1>3, <2>0, <2>6
    <3>3. Sum(passed, Since(start)) <= Sum(hits, StampedSince(start))
      BY <1>2, <3>2 DEF CoverInv
    <3>4. Since(start) \in SUBSET T
      <4>1. \A u \in Rate!Clock : u <= clock => u <= clock + 1
        BY <1>3, <2>4
      <4> QED
        BY <4>1 DEF Since
    <3>5. \A u \in T \ Since(start) : passed[u] = 0
      <4>1. ASSUME NEW u \in Rate!Clock, start < u, ~(u <= clock)
            PROVE  passed[u] = 0
        <5>1. u \in Nat /\ u > lastHit
          BY <1>3, <2>4, <4>1
        <5> QED
          BY <2>4, <5>1
      <4> QED
        BY <4>1 DEF Since
    <3>6. \A u \in T : passed[u] \in Int
      BY <1>3
    <3> HIDE DEF T
    <3>7. Sum(passed, T) = Sum(passed, Since(start))
      BY <2>2, <3>4, <3>5, <3>6, SumOverSubset
    <3>8. Sum(passed, T) <= Sum(hits', StampedSince(start))
      BY <3>1, <3>3, <3>7
    <3> QED
      BY <3>8 DEF T
  <2> QED
    BY <2>5, <2>6
<1>7. CoverInv'
  <2>1. Rate!Span' = Rate!Span /\ Lag' = Lag
    BY <1>1 DEF Rate!Span, Lag
  <2>2. ASSUME NEW start \in clock' - Rate!Span' .. clock'
        PROVE  Sum(passed', {u \in Rate!Clock : start < u /\ u <= clock'})
                   <= Sum(hits', {s \in Rate!Stamps : start - Lag' < s})
    <3>1. start \in clock + 1 - Rate!Span .. clock + 1
      BY <1>1, <1>3, <2>1
    <3>2. Sum(passed, later(start)) <= Sum(hits', StampedSince(start))
      BY <1>6, <3>1
    <3>3. later(start) = {u \in Rate!Clock : start < u /\ u <= clock'}
      BY <1>1
    <3>4. StampedSince(start) = {s \in Rate!Stamps : start - Lag' < s}
      BY <2>1 DEF StampedSince
    <3> QED
      BY <1>1, <3>2, <3>3, <3>4
  <2> QED
    BY <2>2 DEF CoverInv, Since, StampedSince
<1> QED
  BY <1>1, <1>2, <1>4, <1>5, <1>7, BurstStays DEF RateInv

LEMMA RateStep ==
    Rate!RateLimitAssumption /\ RateInv /\ [Rate!Next]_(Rate!rateVars) => RateInv'
<1> SUFFICES ASSUME Rate!RateLimitAssumption, RateInv, [Rate!Next]_(Rate!rateVars)
             PROVE  RateInv'
  OBVIOUS
<1>1. CASE UNCHANGED Rate!rateVars
  <2>1. UNCHANGED <<backend, clock, hits, lastHit, passed>>
    BY <1>1 DEF Rate!rateVars
  <2>2. Rate!BurstIsLimited'
    BY <2>1, BurstStays DEF RateInv
  <2> QED
    BY <2>1, <2>2
       DEF RateInv, RateTypes, ForwardedInv, CoverInv, Since, StampedSince, Lag, Rate!Span
<1> QED
  BY <1>1, HitStep, LostStep, CleanupStep, TickStep DEF Rate!Next

LEMMA RateSafe ==
    ASSUME Rate!RateLimitAssumption
    PROVE  Rate!Spec => []RateInv
<1>1. Rate!Init => RateInv
  BY RateInit
<1>2. RateInv /\ [Rate!Next]_(Rate!rateVars) => RateInv'
  BY RateStep
<1> QED
  BY <1>1, <1>2, PTL DEF Rate!Spec
=============================================================================
