----------------------------- MODULE AuditChain -----------------------------
(***************************************************************************)
(* The audit log of one tenant: AuditRepository of                         *)
(* core_engine/core_engine/state/repository.py, called by the handlers of  *)
(* every router through AuditService.                                      *)
(*                                                                         *)
(* Each entry carries the hash of the entry before it.  log takes a        *)
(* transaction-scoped advisory lock, reads the hash of the latest entry by *)
(* created_at and inserts.  The timestamp is taken before the lock, and    *)
(* the lock's number is Python's hash of a string, which is salted per     *)
(* process: replicas lock different numbers.                               *)
(*                                                                         *)
(* SHA-256 is taken to be injective and two readings of the clock differ,  *)
(* so an entry's hash is named by its created_at.  0 stands for None.      *)
(***************************************************************************)
EXTENDS Integers, FiniteSets

CONSTANTS
    Sessions,   \* requests that write audit entries
    LockId,     \* [Sessions -> number]: the lock number in the request's process
    Actors,
    Redacted,   \* "[REDACTED]"
    MaxTime,    \* bound: readings of the clock
    Limit       \* the limit given to verify_chain

ASSUME AuditAssumption ==
    /\ MaxTime \in Nat /\ Limit \in Nat \ {0}
    /\ Redacted \notin Actors

Time == 1 .. MaxTime

\* signed is the content entry_hash was computed from, actor what the row holds;
\* lock, which the row does not hold, tells which process wrote it.
Entry == [at : Time, prev : 0 .. MaxTime, signed : Actors,
          actor : Actors \cup {Redacted}, anonymized : BOOLEAN,
          lock : {LockId[s] : s \in Sessions}]

VARIABLES
    clock,
    log,      \* committed audit_log rows
    holds,    \* requests whose transaction holds its advisory lock
    pc, now, who,   \* locals of a request: created_at and actor of the entry
    mine,     \* [Sessions -> rows inserted and not yet committed]
    history   \* history: "pruned" once a cleanup deleted entries, "overlapped"
              \* once a request logged while another one's entries were open

vars == <<clock, log, holds, pc, now, who, mine, history>>

Init ==
    /\ clock = 0
    /\ log = {}
    /\ holds = {}
    /\ pc = [s \in Sessions |-> "idle"]
    /\ now = [s \in Sessions |-> 0]
    /\ who = [s \in Sessions |-> Redacted]
    /\ mine = [s \in Sessions |-> {}]
    /\ history = {}

-----------------------------------------------------------------------------
\* AuditRepository.log up to the lock: the clock is read first.
BeginLog(s, a) ==
    /\ pc[s] \in {"idle", "open"}
    /\ clock < MaxTime
    /\ clock' = clock + 1
    /\ now' = [now EXCEPT ![s] = clock + 1]
    /\ who' = [who EXCEPT ![s] = a]
    /\ pc' = [pc EXCEPT ![s] = "lock"]
    /\ history' = IF \E t \in Sessions \ {s} : pc[t] # "idle"
                  THEN history \cup {"overlapped"} ELSE history
    /\ UNCHANGED <<log, holds, mine>>

\* Mutant: the lock is not there.
NobodyHolds(s) == TRUE

LockFree(s) == \A t \in holds \ {s} : LockId[t] # LockId[s]

\* pg_advisory_xact_lock: held until the transaction ends.
AdvisoryLock(s) ==
    /\ pc[s] = "lock"
    /\ LockFree(s)
    /\ holds' = holds \cup {s}
    /\ pc' = [pc EXCEPT ![s] = "locked"]
    /\ UNCHANGED <<clock, log, now, who, mine, history>>

\* Mutant: the read sees what other transactions have not committed.
DirtyRead(s) == log \cup UNION {mine[t] : t \in Sessions}

\* READ COMMITTED: what is committed and what the request itself wrote.
Visible(s) == log \cup mine[s]

\* get_latest_hash: the hash of the visible entry with the greatest created_at.
IsLatestHash(h, rows) ==
    \/ rows = {} /\ h = 0
    \/ \E e \in rows : h = e.at /\ \A f \in rows : f.at <= e.at

\* log, under the lock: read the latest hash, link, insert.  Nobody sees the row
\* before the commit.
Insert(s) ==
    /\ pc[s] = "locked"
    /\ \E h \in 0 .. MaxTime :
          /\ IsLatestHash(h, Visible(s))
          /\ mine' = [mine EXCEPT ![s] = @ \cup
                 {[at |-> now[s], prev |-> h, signed |-> who[s], actor |-> who[s],
                   anonymized |-> FALSE, lock |-> LockId[s]]}]
    /\ pc' = [pc EXCEPT ![s] = "open"]
    /\ UNCHANGED <<clock, log, holds, now, who, history>>

EndTransaction(s) ==
    /\ pc' = [pc EXCEPT ![s] = "idle"]
    /\ holds' = holds \ {s}
    /\ mine' = [mine EXCEPT ![s] = {}]
    /\ UNCHANGED <<clock, now, who, history>>

Commit(s) ==
    /\ pc[s] = "open"
    /\ log' = log \cup mine[s]
    /\ EndTransaction(s)

\* The handler raised, the wait for the lock reached lock_timeout, or the
\* process died.
Rollback(s) ==
    /\ pc[s] # "idle"
    /\ EndTransaction(s)
    /\ UNCHANGED log

\* Mutants: redacted and not marked; what the hash stands for redacted too.
RedactUnmarked(e) == [e EXCEPT !.actor = Redacted]
RedactAll(e) == [e EXCEPT !.actor = Redacted, !.signed = Redacted, !.anonymized = TRUE]

Redact(e) == [e EXCEPT !.actor = Redacted, !.anonymized = TRUE]

\* anonymize_user_entries and the commit that follows it.
Anonymize(a) ==
    /\ \E e \in log : e.actor = a
    /\ log' = {IF e.actor = a THEN Redact(e) ELSE e : e \in log}
    /\ UNCHANGED <<clock, holds, pc, now, who, mine, history>>

\* cleanup_old_entries and the commit that follows it.
Cleanup(cutoff) ==
    /\ \E e \in log : e.at < cutoff
    /\ log' = {e \in log : e.at >= cutoff}
    /\ history' = history \cup {"pruned"}
    /\ UNCHANGED <<clock, holds, pc, now, who, mine>>

Next ==
    \/ \E s \in Sessions :
          \/ \E a \in Actors : BeginLog(s, a)
          \/ AdvisoryLock(s) \/ Insert(s) \/ Commit(s) \/ Rollback(s)
    \/ \E a \in Actors : Anonymize(a)
    \/ \E t \in Time : Cleanup(t)

Spec == Init /\ [][Next]_vars

-----------------------------------------------------------------------------
(* verify_chain, as GET /audit/verify calls it.                            *)

\* The entries it reads: the Limit oldest.
Checked == {e \in log : Cardinality({f \in log : f.at < e.at}) < Limit}

\* The hash the loop expects as previous_hash when it reaches e.
Expected(e) ==
    LET before == {f \in Checked : f.at < e.at}
    IN  CHOOSE h \in 0 .. MaxTime : IsLatestHash(h, before)

VerifyChain ==
    \A e \in Checked :
        /\ e.prev = Expected(e)
        /\ e.anonymized \/ e.actor = e.signed

-----------------------------------------------------------------------------
(* Properties.                                                             *)

TypeOK ==
    /\ clock \in 0 .. MaxTime
    /\ log \subseteq Entry
    /\ holds \subseteq Sessions
    /\ pc \in [Sessions -> {"idle", "lock", "locked", "open"}]
    /\ now \in [Sessions -> 0 .. MaxTime]
    /\ who \in [Sessions -> Actors \cup {Redacted}]
    /\ mine \in [Sessions -> SUBSET Entry]
    /\ history \subseteq {"pruned", "overlapped"}

\* An entry is never linked to one that was rolled back: whichever order
\* requests of whichever replicas lock, commit and abort in, the hash an entry
\* carries is that of a committed entry (until a cleanup deletes some).
LinksCommitted ==
    "pruned" \notin history => \A e \in log : e.prev # 0 => \E f \in log : f.at = e.prev

\* A replica starts the chain of a tenant once: after its first commit it writes
\* no entry as if the log were empty, even for requests that queued for the lock
\* while it was.
SingleRoot ==
    \A e, f \in log : e.prev = 0 /\ f.prev = 0 /\ e.lock = f.lock => e.at = f.at

\* As long as requests logged one after the other the chain verifies: after
\* rollbacks, several entries in one request, and erasures that rewrite rows the
\* hashes were computed from.
Verifies == history = {} => VerifyChain

(* What the repository says and the code does not do.                      *)

\* "Acquire advisory lock to prevent hash chain race (TOCTOU) ... creating a
\* fork in the hash chain" (log): no two entries follow the same one.
NoFork == \A e, f \in log : e.prev = f.prev => e = f
=============================================================================
