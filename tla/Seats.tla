-------------------------------- MODULE Seats -------------------------------
(***************************************************************************)
(* The members of one tenant: invite_member and remove_member of           *)
(* TeamService, the seat quota of QuotaService, and the quantity of the    *)
(* Stripe subscription that is to follow the number of members.            *)
(*                                                                         *)
(* An invitation counts the rows of users under an advisory lock held to   *)
(* the end of its transaction.  The lock's number is a salted hash, so     *)
(* processes share it only when they share the salt.  A removal takes no   *)
(* lock, and keeps the row.  Stripe is told before the commit.             *)
(***************************************************************************)
EXTENDS Integers, FiniteSets

CONSTANTS
    Emails,
    Requests,      \* requests being served
    Nobody,
    LockNumbers,   \* what hash("quota_<tenant>_seat_check") may give
    SeatLimit      \* the effective limit: the override, or that of the tier

\* What the constants must be.
SeatsAssumption ==
    /\ IsFiniteSet(Emails) /\ IsFiniteSet(LockNumbers)
    /\ SeatLimit \in Nat \ {0}
    /\ Nobody \notin Requests

VARIABLES
    numbers,   \* the lock numbers of the processes that serve
    users,     \* [Emails -> "none" or the committed row: "active" or "removed"]
    seatLock,  \* [LockNumbers -> the request whose transaction holds it, or Nobody]
    team,      \* [Requests -> the locals of a request, or Idle]
    quantity   \* what Stripe bills: a side effect no rollback undoes

seatsVars == <<numbers, users, seatLock, team, quantity>>

Idle == [pc |-> "idle"]

\* Sign-up has made the first member.
Init ==
    /\ numbers \in (SUBSET LockNumbers) \ {{}}
    /\ \E first \in Emails : users = [e \in Emails |-> IF e = first THEN "active" ELSE "none"]
    /\ seatLock = [n \in LockNumbers |-> Nobody]
    /\ team = [r \in Requests |-> Idle]
    /\ quantity = 1

Busy(r) == team[r].pc # "idle"

\* The request has flushed its row and not ended.
Wrote(r) == team[r].pc \in {"wrote", "synced"}

\* The statement waits for a transaction that wrote the same row or key.
RowFree(r) == \A q \in Requests \ {r} : Wrote(q) => team[q].email # team[r].email

After(r) == IF team[r].kind = "invite" THEN "active" ELSE "removed"

\* What the transaction of r reads.
Seen(r) == IF Wrote(r) THEN [users EXCEPT ![team[r].email] = After(r)] ELSE users

\* count_by_tenant: every row, those of removed members included.
CountByTenant(rows) == Cardinality({e \in Emails : rows[e] # "none"})

-----------------------------------------------------------------------------
(* check_seat_quota.                                                       *)

\* Mutant: the lock excludes nobody.
AnyTime(n) == TRUE

LockFree(n) == seatLock[n] = Nobody

\* A refused invitation (PermissionError) leaves nothing behind.
CheckSeats(r, n, e) ==
    /\ ~Busy(r) /\ n \in numbers /\ LockFree(n)
    /\ CountByTenant(users) < SeatLimit
    /\ seatLock' = [seatLock EXCEPT ![n] = r]
    /\ team' = [team EXCEPT ![r] = [pc |-> "look", kind |-> "invite", email |-> e]]
    /\ UNCHANGED <<numbers, users, quantity>>

StartRemove(r, e) ==
    /\ ~Busy(r)
    /\ team' = [team EXCEPT ![r] = [pc |-> "look", kind |-> "remove", email |-> e]]
    /\ UNCHANGED <<numbers, users, seatLock, quantity>>

-----------------------------------------------------------------------------
(* invite_member and remove_member.                                        *)

\* get_by_email, get_by_id: an active member is not invited again, and only an
\* active one is removed; otherwise the request ends in Rollback.
Look(r) ==
    /\ team[r].pc = "look"
    /\ LET row == users[team[r].email]
       IN  /\ IF team[r].kind = "invite" THEN row # "active" ELSE row = "active"
           /\ team' = [team EXCEPT ![r].pc = IF row = "none" THEN "create" ELSE "update"]
    /\ UNCHANGED <<numbers, users, seatLock, quantity>>

\* The flush.  A row that appeared since is a violation of uq_users_tenant_email;
\* an update takes the row as it is by now.
Write(r) ==
    /\ \/ team[r].pc = "create" /\ users[team[r].email] = "none"
       \/ team[r].pc = "update"
    /\ RowFree(r)
    /\ team' = [team EXCEPT ![r].pc = "wrote"]
    /\ UNCHANGED <<numbers, users, seatLock, quantity>>

\* _sync_stripe_quantity: best effort.
Sync(r) ==
    /\ team[r].pc = "wrote"
    /\ team' = [team EXCEPT ![r].pc = "synced"]
    /\ quantity' = CountByTenant(Seen(r)) \/ UNCHANGED quantity
    /\ UNCHANGED <<numbers, users, seatLock>>

\* The transaction ends, and its locks with it.
End(r) ==
    /\ team' = [team EXCEPT ![r] = Idle]
    /\ seatLock' = [n \in LockNumbers |-> IF seatLock[n] = r THEN Nobody ELSE seatLock[n]]
    /\ UNCHANGED <<numbers, quantity>>

Commit(r) == team[r].pc = "synced" /\ users' = Seen(r) /\ End(r)

\* ValueError, a violated key, a wait that timed out, or the end of the process.
Rollback(r) == Busy(r) /\ End(r) /\ UNCHANGED users

Next ==
    \E r \in Requests :
        \/ \E n \in LockNumbers, e \in Emails : CheckSeats(r, n, e)
        \/ \E e \in Emails : StartRemove(r, e)
        \/ Look(r) \/ Write(r) \/ Sync(r) \/ Commit(r) \/ Rollback(r)

Spec == Init /\ [][Next]_seatsVars

-----------------------------------------------------------------------------
(* Properties.                                                             *)

Locals ==
    {Idle} \cup [pc : {"look", "create", "update", "wrote", "synced"},
                 kind : {"invite", "remove"}, email : Emails]

TypeOK ==
    /\ numbers \in (SUBSET LockNumbers) \ {{}}
    /\ users \in [Emails -> {"none", "active", "removed"}]
    /\ seatLock \in [LockNumbers -> Requests \cup {Nobody}]
    /\ team \in [Requests -> Locals]
    /\ quantity \in Nat

Members == {e \in Emails : users[e] = "active"}

\* However invitations, reactivations, removals and failures interleave, the limit
\* is passed by less than one member per lock number in use: not at all when the
\* processes share the salt (check_seat_quota in api/api/services/quota_service.py).
SeatsAreLimited == Cardinality(Members) < SeatLimit + Cardinality(numbers)

\* "Sync the active member count to the Stripe subscription quantity"
\* (api/api/services/team_service.py): what Stripe is told is the number of active
\* members the request sees, or one.  Removed members are counted too.
StripeBillsMembers ==
    [][quantity' \in {quantity, 1} \/
       \E r \in Requests : Wrote(r) /\
           quantity' = Cardinality({e \in Emails : Seen(r)[e] = "active"})]_seatsVars
=============================================================================
