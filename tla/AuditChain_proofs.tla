------------------------- MODULE AuditChain_proofs --------------------------
(***************************************************************************)
(* Proofs about AuditChain, for any number of sessions, any clock bound    *)
(* and any assignment of advisory-lock numbers.                            *)
(***************************************************************************)
EXTENDS AuditChain, FiniteSetTheorems, TLAPS

-----------------------------------------------------------------------------
(* Types.                                                                  *)

\* A request that is past its first statement has a time and an actor.
Stamped ==
    \A s \in Sessions : pc[s] # "idle" => now[s] \in Time /\ who[s] \in Actors

TypeInv == TypeOK /\ Stamped

\* The hash log reads is None, or names an entry the request can see.
LEMMA LatestHash ==
    ASSUME NEW rows \in SUBSET Entry, NEW h \in 0 .. MaxTime, IsLatestHash(h, rows)
    PROVE  \/ rows = {} /\ h = 0
           \/ h # 0 /\ \E e \in rows : e.at = h
  BY AuditAssumption DEF IsLatestHash, Entry, Time

\* Redacting an entry keeps it an entry, with its time, its link and its writer.
LEMMA RedactKeeps ==
    ASSUME NEW e \in Entry
    PROVE  /\ Redact(e) \in Entry
           /\ Redact(e).at = e.at /\ Redact(e).prev = e.prev /\ Redact(e).lock = e.lock
  BY DEF Redact, Entry

\* The row Insert adds.
NewRow(s, h) ==
    [at |-> now[s], prev |-> h, signed |-> who[s], actor |-> who[s], anonymized |-> FALSE,
     lock |-> LockId[s]]

LEMMA InsertAdds ==
    ASSUME TypeInv, NEW s \in Sessions, Insert(s)
    PROVE  \E h \in 0 .. MaxTime :
              /\ IsLatestHash(h, Visible(s))
              /\ mine' = [mine EXCEPT ![s] = @ \cup {NewRow(s, h)}]
              /\ NewRow(s, h) \in Entry
<1>1. PICK h \in 0 .. MaxTime :
          /\ IsLatestHash(h, Visible(s))
          /\ mine' = [mine EXCEPT ![s] = @ \cup {NewRow(s, h)}]
  BY DEF Insert, NewRow
<1>2. now[s] \in Time /\ who[s] \in Actors
  BY DEF Insert, TypeInv, Stamped
<1>3. NewRow(s, h) \in Entry
  BY <1>2 DEF NewRow, Entry
<1> QED
  BY <1>1, <1>3

LEMMA TypeInit == Init => TypeInv
  BY AuditAssumption DEF Init, TypeInv, TypeOK, Stamped

LEMMA TypeStep == TypeInv /\ [Next]_vars => TypeInv'
<1> SUFFICES ASSUME TypeInv, [Next]_vars
             PROVE  TypeInv'
  OBVIOUS
<1> USE AuditAssumption DEF TypeInv, TypeOK, Stamped
<1>1. ASSUME NEW s \in Sessions, NEW a \in Actors, BeginLog(s, a)
      PROVE  TypeInv'
  BY <1>1 DEF BeginLog, Time
<1>2. ASSUME NEW s \in Sessions, AdvisoryLock(s)
      PROVE  TypeInv'
  BY <1>2 DEF AdvisoryLock
<1>3. ASSUME NEW s \in Sessions, Insert(s)
      PROVE  TypeInv'
  <2>1. mine' \in [Sessions -> SUBSET Entry]
    BY <1>3, InsertAdds
  <2> QED
    BY <1>3, <2>1 DEF Insert
<1>4. ASSUME NEW s \in Sessions, Commit(s)
      PROVE  TypeInv'
  BY <1>4 DEF Commit, EndTransaction
<1>5. ASSUME NEW s \in Sessions, Rollback(s)
      PROVE  TypeInv'
  BY <1>5 DEF Rollback, EndTransaction
<1>6. ASSUME NEW a \in Actors, Anonymize(a)
      PROVE  TypeInv'
  <2>1. log' \subseteq Entry
    BY <1>6, RedactKeeps DEF Anonymize
  <2> QED
    BY <1>6, <2>1 DEF Anonymize
<1>7. ASSUME NEW t \in Time, Cleanup(t)
      PROVE  TypeInv'
  BY <1>7 DEF Cleanup
<1>8. CASE UNCHANGED vars
  BY <1>8 DEF vars
<1> QED
  BY <1>1, <1>2, <1>3, <1>4, <1>5, <1>6, <1>7, <1>8 DEF Next

LEMMA TypeAlways == Spec => []TypeInv
  BY TypeInit, TypeStep, PTL DEF Spec

\* Every reachable state is well typed.
THEOREM TypeCorrect == Spec => []TypeOK
<1>1. TypeInv => TypeOK
  BY DEF TypeInv
<1> QED
  BY <1>1, TypeAlways, PTL

-----------------------------------------------------------------------------
(* Links.  Each request sees its own rows as well as the committed ones, so *)
(* the invariant speaks of both.                                           *)

Linked(rows) == \A e \in rows : e.prev # 0 => \E f \in rows : f.at = e.prev

LinksInv ==
    "pruned" \notin history => Linked(log) /\ \A s \in Sessions : Linked(Visible(s))

\* Redaction changes neither times nor links.
LEMMA LinkedRedacted ==
    ASSUME NEW rows \in SUBSET Entry, NEW more \in SUBSET Entry, NEW a,
           Linked(rows \cup more)
    PROVE  Linked({IF e.actor = a THEN Redact(e) ELSE e : e \in rows} \cup more)
<1> DEFINE r(e) == IF e.actor = a THEN Redact(e) ELSE e
<1>1. \A e \in rows : r(e).at = e.at /\ r(e).prev = e.prev
  BY RedactKeeps
<1>2. \A e \in rows \cup more : e.prev # 0 => \E f \in rows \cup more : f.at = e.prev
  BY DEF Linked
<1>3. \A p : (\E f \in rows \cup more : f.at = p)
                 => \E f \in {r(e) : e \in rows} \cup more : f.at = p
  BY <1>1
<1>4. ASSUME NEW g \in {r(e) : e \in rows} \cup more, g.prev # 0
      PROVE  \E f \in rows \cup more : f.at = g.prev
  <2>1. CASE g \in more
    BY <1>2, <1>4, <2>1
  <2>2. CASE g \in {r(e) : e \in rows}
    <3>1. PICK e \in rows : g = r(e)
      BY <2>2
    <3>2. g.prev = e.prev
      BY <3>1, <1>1
    <3> QED
      BY <3>2, <1>4, <1>2
  <2> QED
    BY <2>1, <2>2
<1> HIDE DEF r
<1>5. Linked({r(e) : e \in rows} \cup more)
  BY <1>3, <1>4 DEF Linked
<1> QED
  BY <1>5 DEF r

LEMMA LinkedUnion ==
    ASSUME NEW a, NEW b, Linked(a), Linked(b)
    PROVE  Linked(a \cup b)
  BY DEF Linked

LEMMA LinksStep == TypeInv /\ LinksInv /\ [Next]_vars => LinksInv'
<1> SUFFICES ASSUME TypeInv, LinksInv, [Next]_vars, "pruned" \notin history'
             PROVE  Linked(log') /\ \A t \in Sessions : Linked(log' \cup mine'[t])
  BY DEF LinksInv, Visible
<1>9. "pruned" \notin history
  BY DEF Next, vars, BeginLog, AdvisoryLock, Insert, Commit, Rollback, EndTransaction,
         Anonymize, Cleanup
<1>0. /\ Linked(log)
      /\ \A t \in Sessions : Linked(log \cup mine[t])
      /\ log \in SUBSET Entry /\ mine \in [Sessions -> SUBSET Entry]
  BY <1>9 DEF LinksInv, Visible, TypeInv, TypeOK
<1>1. ASSUME NEW s \in Sessions, NEW a \in Actors, BeginLog(s, a)
      PROVE  Linked(log') /\ \A t \in Sessions : Linked(log' \cup mine'[t])
  BY <1>0, <1>1 DEF BeginLog
<1>2. ASSUME NEW s \in Sessions, AdvisoryLock(s)
      PROVE  Linked(log') /\ \A t \in Sessions : Linked(log' \cup mine'[t])
  BY <1>0, <1>2 DEF AdvisoryLock
<1>3. ASSUME NEW s \in Sessions, Insert(s)
      PROVE  Linked(log') /\ \A t \in Sessions : Linked(log' \cup mine'[t])
  <2>1. PICK h \in 0 .. MaxTime :
            /\ IsLatestHash(h, Visible(s))
            /\ mine' = [mine EXCEPT ![s] = @ \cup {NewRow(s, h)}]
            /\ NewRow(s, h) \in Entry
    BY <1>3, InsertAdds
  <2>2. h # 0 => \E e \in Visible(s) : e.at = h
    BY <1>0, <2>1, LatestHash DEF Visible
  <2>3. Linked(Visible(s) \cup {NewRow(s, h)})
    BY <1>0, <2>2 DEF Linked, NewRow, Visible
  <2>4. log' \cup mine'[s] = Visible(s) \cup {NewRow(s, h)}
    BY <1>0, <1>3, <2>1 DEF Insert, Visible
  <2>5. \A t \in Sessions \ {s} : mine'[t] = mine[t]
    BY <1>0, <2>1
  <2> QED
    BY <1>0, <1>3, <2>3, <2>4, <2>5 DEF Insert
<1>4. ASSUME NEW s \in Sessions, Commit(s)
      PROVE  Linked(log') /\ \A t \in Sessions : Linked(log' \cup mine'[t])
  <2>1. log' = log \cup mine[s] /\ mine' = [mine EXCEPT ![s] = {}]
    BY <1>4 DEF Commit, EndTransaction
  <2>2. Linked(log')
    BY <1>0, <2>1
  <2>3. ASSUME NEW t \in Sessions
        PROVE  Linked(log' \cup mine'[t])
    <3>1. CASE t = s
      BY <1>0, <2>1, <2>2, <3>1
    <3>2. CASE t # s
      <4>1. log' \cup mine'[t] = (log \cup mine[s]) \cup (log \cup mine[t])
        BY <1>0, <2>1, <3>2
      <4> QED
        BY <1>0, <4>1, LinkedUnion
    <3> QED
      BY <3>1, <3>2
  <2> QED
    BY <2>2, <2>3
<1>5. ASSUME NEW s \in Sessions, Rollback(s)
      PROVE  Linked(log') /\ \A t \in Sessions : Linked(log' \cup mine'[t])
  BY <1>0, <1>5 DEF Rollback, EndTransaction
<1>6. ASSUME NEW a \in Actors, Anonymize(a)
      PROVE  Linked(log') /\ \A t \in Sessions : Linked(log' \cup mine'[t])
  <2>1. log' = {IF e.actor = a THEN Redact(e) ELSE e : e \in log} /\ mine' = mine
    BY <1>6 DEF Anonymize
  <2>2. ASSUME NEW t \in Sessions
        PROVE  Linked(log' \cup mine'[t])
    <3>1. log \in SUBSET Entry /\ mine[t] \in SUBSET Entry /\ Linked(log \cup mine[t])
      BY <1>0
    <3>2. Linked({IF e.actor = a THEN Redact(e) ELSE e : e \in log} \cup mine[t])
      BY ONLY <3>1, LinkedRedacted
    <3> QED
      BY <2>1, <3>2
  <2>3. Linked(log')
    <3>1. log = log \cup {} /\ log' = log' \cup {}
      OBVIOUS
    <3>2. Linked(log \cup {})
      BY <1>0, <3>1
    <3>3. Linked({IF e.actor = a THEN Redact(e) ELSE e : e \in log} \cup {})
      BY <1>0, <3>2, LinkedRedacted
    <3> QED
      BY <2>1, <3>1, <3>3
  <2> QED
    BY <2>2, <2>3
<1>7. ASSUME NEW t \in Time, Cleanup(t)
      PROVE  FALSE
  BY <1>7 DEF Cleanup
<1>8. CASE UNCHANGED vars
  BY <1>0, <1>8 DEF vars
<1> QED
  BY <1>1, <1>2, <1>3, <1>4, <1>5, <1>6, <1>7, <1>8 DEF Next

\* Whatever the lock numbers are, a committed entry names a committed entry.
THEOREM LinksAreCommitted == Spec => []LinksCommitted
<1>1. Init => LinksInv
  BY DEF Init, LinksInv, Linked, Visible
<1>2. LinksInv => LinksCommitted
  BY DEF LinksInv, Linked, LinksCommitted
<1> QED
  BY <1>1, <1>2, LinksStep, TypeAlways, PTL DEF Spec

-----------------------------------------------------------------------------
(* One root per lock number.                                               *)

OneRoot(rows) ==
    \A e, f \in rows : e.prev = 0 /\ f.prev = 0 /\ e.lock = f.lock => e.at = f.at

\* Of the requests that share a lock number one at a time is between taking the
\* lock and its end, and only that one has rows of its own.
RootInv ==
    /\ \A s, t \in holds : LockId[s] = LockId[t] => s = t
    /\ \A s \in Sessions : pc[s] = "locked" \/ mine[s] # {} => s \in holds
    /\ \A s \in Sessions : \A e \in mine[s] : e.lock = LockId[s]
    /\ OneRoot(log)
    /\ \A s \in Sessions : OneRoot(Visible(s))

LEMMA OneRootRedacted ==
    ASSUME NEW rows \in SUBSET Entry, NEW more \in SUBSET Entry, NEW a,
           OneRoot(rows \cup more)
    PROVE  OneRoot({IF e.actor = a THEN Redact(e) ELSE e : e \in rows} \cup more)
<1> DEFINE r(e) == IF e.actor = a THEN Redact(e) ELSE e
<1>1. \A e \in rows : r(e).at = e.at /\ r(e).prev = e.prev /\ r(e).lock = e.lock
  BY RedactKeeps
<1>2. ASSUME NEW g \in {r(e) : e \in rows} \cup more
      PROVE  \E e \in rows \cup more : g.at = e.at /\ g.prev = e.prev /\ g.lock = e.lock
  BY <1>1
<1> HIDE DEF r
<1>3. OneRoot({r(e) : e \in rows} \cup more)
  BY <1>2 DEF OneRoot
<1> QED
  BY <1>3 DEF r

LEMMA RootStep == TypeInv /\ RootInv /\ [Next]_vars => RootInv'
<1> SUFFICES ASSUME TypeInv, RootInv, [Next]_vars
             PROVE  RootInv'
  OBVIOUS
<1>0. /\ log \in SUBSET Entry /\ mine \in [Sessions -> SUBSET Entry]
      /\ pc \in [Sessions -> {"idle", "lock", "locked", "open"}]
      /\ holds \in SUBSET Sessions
  BY DEF TypeInv, TypeOK
<1>1. ASSUME NEW s \in Sessions, NEW a \in Actors, BeginLog(s, a)
      PROVE  RootInv'
  BY <1>0, <1>1 DEF BeginLog, RootInv, Visible
<1>2. ASSUME NEW s \in Sessions, AdvisoryLock(s)
      PROVE  RootInv'
  <2>1. \A t \in holds : LockId[s] = LockId[t] => t = s
    BY <1>0, <1>2 DEF AdvisoryLock, LockFree
  <2> QED
    BY <1>0, <1>2, <2>1 DEF AdvisoryLock, RootInv, Visible
<1>3. ASSUME NEW s \in Sessions, Insert(s)
      PROVE  RootInv'
  <2>1. PICK h \in 0 .. MaxTime :
            /\ IsLatestHash(h, Visible(s))
            /\ mine' = [mine EXCEPT ![s] = @ \cup {NewRow(s, h)}]
            /\ NewRow(s, h) \in Entry
    BY <1>3, InsertAdds
  <2>2. Visible(s) = {} \/ h # 0
    BY <1>0, <2>1, LatestHash DEF Visible
  <2>3. OneRoot(Visible(s) \cup {NewRow(s, h)}) /\ NewRow(s, h).lock = LockId[s]
    BY <2>2 DEF RootInv, OneRoot, NewRow
  <2>4. log' = log /\ holds' = holds /\ pc' = [pc EXCEPT ![s] = "open"] /\ s \in holds
    BY <1>3 DEF Insert, RootInv
  <2>5. /\ log' \cup mine'[s] = Visible(s) \cup {NewRow(s, h)}
        /\ \A t \in Sessions \ {s} : mine'[t] = mine[t]
    BY <1>0, <2>1, <2>4 DEF Visible
  <2>6. \A u \in Sessions : \A e \in mine'[u] : e.lock = LockId[u]
    <3>1. mine'[s] = mine[s] \cup {NewRow(s, h)}
      BY <1>0, <2>1
    <3> QED
      BY <2>3, <2>5, <3>1 DEF RootInv
  <2>7. \A u \in Sessions : OneRoot(log' \cup mine'[u])
    BY <2>3, <2>4, <2>5 DEF RootInv, Visible
  <2>8. \A u \in Sessions : pc'[u] = "locked" \/ mine'[u] # {} => u \in holds
    BY <1>0, <2>4, <2>5 DEF RootInv
  <2> QED
    BY <2>4, <2>6, <2>7, <2>8 DEF RootInv, Visible
<1>4. ASSUME NEW s \in Sessions, Commit(s)
      PROVE  RootInv'
  <2>1. /\ log' = log \cup mine[s] /\ mine' = [mine EXCEPT ![s] = {}]
        /\ holds' = holds \ {s} /\ pc' = [pc EXCEPT ![s] = "idle"]
    BY <1>4 DEF Commit, EndTransaction
  <2>2. OneRoot(log')
    BY <2>1 DEF RootInv, Visible
  <2>3. ASSUME NEW t \in Sessions
        PROVE  OneRoot(log' \cup mine'[t])
    <3>1. CASE t = s
      BY <1>0, <2>1, <2>2, <3>1
    <3>2. CASE t # s
      <4>1. mine'[t] = mine[t] /\ OneRoot(log \cup mine[s]) /\ OneRoot(log \cup mine[t])
        BY <1>0, <2>1, <3>2 DEF RootInv, Visible
      <4>2. \A e \in mine[s] : \A f \in mine[t] : e.lock # f.lock
        BY <3>2 DEF RootInv
      <4> QED
        BY <2>1, <4>1, <4>2 DEF OneRoot
    <3> QED
      BY <3>1, <3>2
  <2> QED
    BY <1>0, <2>1, <2>2, <2>3 DEF RootInv, Visible
<1>5. ASSUME NEW s \in Sessions, Rollback(s)
      PROVE  RootInv'
  BY <1>0, <1>5 DEF Rollback, EndTransaction, RootInv, Visible
<1>6. ASSUME NEW a \in Actors, Anonymize(a)
      PROVE  RootInv'
  <2>1. /\ log' = {IF e.actor = a THEN Redact(e) ELSE e : e \in log}
        /\ mine' = mine /\ holds' = holds /\ pc' = pc
    BY <1>6 DEF Anonymize
  <2>2. ASSUME NEW t \in Sessions
        PROVE  OneRoot(log' \cup mine'[t])
    <3>1. OneRoot(log \cup mine[t]) /\ mine[t] \in SUBSET Entry
      BY <1>0 DEF RootInv, Visible
    <3>2. OneRoot({IF e.actor = a THEN Redact(e) ELSE e : e \in log} \cup mine[t])
      BY <1>0, <3>1, OneRootRedacted
    <3> QED
      BY <2>1, <3>2
  <2>3. OneRoot(log')
    <3>1. log = log \cup {} /\ log' = log' \cup {}
      OBVIOUS
    <3>2. OneRoot(log \cup {})
      BY <3>1 DEF RootInv
    <3>3. OneRoot({IF e.actor = a THEN Redact(e) ELSE e : e \in log} \cup {})
      BY <1>0, <3>2, OneRootRedacted
    <3> QED
      BY <2>1, <3>1, <3>3
  <2> QED
    BY <2>1, <2>2, <2>3 DEF RootInv, Visible
<1>7. ASSUME NEW t \in Time, Cleanup(t)
      PROVE  RootInv'
  BY <1>0, <1>7 DEF Cleanup, RootInv, OneRoot, Visible
<1>8. CASE UNCHANGED vars
  BY <1>8 DEF vars, RootInv, OneRoot, Visible
<1> QED
  BY <1>1, <1>2, <1>3, <1>4, <1>5, <1>6, <1>7, <1>8 DEF Next

\* Requests that take the same advisory lock start the chain once.
THEOREM OneChainStart == Spec => []SingleRoot
<1>1. Init => RootInv
  BY DEF Init, RootInv, OneRoot, Visible
<1>2. TypeInv /\ RootInv /\ [Next]_vars => RootInv'
  BY RootStep
<1>3. RootInv => SingleRoot
  BY DEF RootInv, OneRoot, SingleRoot
<1> QED
  BY <1>1, <1>2, <1>3, TypeAlways, PTL DEF Spec

-----------------------------------------------------------------------------
(* Verification.                                                           *)

\* Each entry carries the time of the one before it, and names its author as it
\* was signed or says that it no longer does.
Chained(rows) ==
    /\ \A e, f \in rows : e.at = f.at => e = f
    /\ \A e \in rows : /\ IsLatestHash(e.prev, {f \in rows : f.at < e.at})
                       /\ e.anonymized \/ e.actor = e.signed

\* As long as requests log one after the other: who is about to insert is alone,
\* and its time is later than that of every entry it sees.
ChainInv ==
    history = {} =>
        /\ \A s, t \in Sessions : pc[s] # "idle" /\ pc[t] # "idle" => s = t
        /\ \A s \in Sessions : pc[s] = "idle" => mine[s] = {}
        /\ Chained(log)
        /\ \A s \in Sessions : /\ Chained(Visible(s))
                               /\ \A e \in Visible(s) : e.at <= clock
                               /\ \A e \in log : \A f \in mine[s] : e.at # f.at
        /\ \A s \in Sessions : pc[s] \in {"lock", "locked"} =>
               now[s] <= clock /\ \A e \in Visible(s) : e.at < now[s]

\* A subset closed towards older entries, and a set with a new latest entry.
LEMMA ChainedMore ==
    ASSUME NEW rows \in SUBSET Entry, Chained(rows), NEW r \in Entry,
           \A e \in rows : e.at < r.at,
           IsLatestHash(r.prev, rows), r.actor = r.signed
    PROVE  Chained(rows \cup {r})
<1>0. \A e \in rows \cup {r} : e.at \in Nat
  BY DEF Entry, Time
<1>1. \A e, f \in rows \cup {r} : e.at = f.at => e = f
  BY <1>0 DEF Chained
<1>2. {f \in rows \cup {r} : f.at < r.at} = rows
  BY <1>0
<1>3. \A e \in rows : {f \in rows \cup {r} : f.at < e.at} = {f \in rows : f.at < e.at}
  BY <1>0
<1>4. \A e \in rows \cup {r} : IsLatestHash(e.prev, {f \in rows \cup {r} : f.at < e.at})
  <2>1. \A e \in rows : IsLatestHash(e.prev, {f \in rows \cup {r} : f.at < e.at})
    BY <1>3 DEF Chained
  <2>2. IsLatestHash(r.prev, {f \in rows \cup {r} : f.at < r.at})
    BY <1>2
  <2> QED
    BY <2>1, <2>2
<1> QED
  BY <1>1, <1>4 DEF Chained

\* The latest hash depends on the times of the entries only.
LEMMA SameTimesSameHash ==
    ASSUME NEW a, NEW b, NEW h, {e.at : e \in a} = {e.at : e \in b}, IsLatestHash(h, a)
    PROVE  IsLatestHash(h, b)
<1>1. CASE a = {} /\ h = 0
  <2>1. b = {}
    BY <1>1
  <2> QED
    BY <1>1, <2>1 DEF IsLatestHash
<1>2. CASE \E e \in a : h = e.at /\ \A f \in a : f.at <= e.at
  <2>1. h \in {e.at : e \in a} /\ \A k \in {e.at : e \in a} : k <= h
    BY <1>2
  <2>2. h \in {e.at : e \in b} /\ \A k \in {e.at : e \in b} : k <= h
    BY <2>1
  <2> QED
    BY <2>2 DEF IsLatestHash
<1> QED
  BY <1>1, <1>2 DEF IsLatestHash

LEMMA ChainedRedacted ==
    ASSUME NEW rows \in SUBSET Entry, NEW more \in SUBSET Entry, NEW a,
           Chained(rows \cup more), \A e \in rows : \A f \in more : e.at # f.at
    PROVE  Chained({IF e.actor = a THEN Redact(e) ELSE e : e \in rows} \cup more)
<1> DEFINE r(e) == IF e.actor = a THEN Redact(e) ELSE e
           all == rows \cup more
           new == {r(e) : e \in rows} \cup more
<1>1. \A e \in rows : /\ r(e).at = e.at /\ r(e).prev = e.prev
                      /\ e.anonymized \/ e.actor = e.signed => r(e).anonymized \/ r(e).actor = r(e).signed
  <2>1. \A e \in rows : r(e).at = e.at /\ r(e).prev = e.prev
    BY RedactKeeps
  <2>2. \A e \in rows : Redact(e).anonymized = TRUE
    BY DEF Redact, Entry
  <2> QED
    BY <2>1, <2>2
<1>2. /\ \A e, f \in all : e.at = f.at => e = f
      /\ \A e \in all : IsLatestHash(e.prev, {f \in all : f.at < e.at})
      /\ \A e \in all : e.anonymized \/ e.actor = e.signed
  BY DEF Chained
<1>3. ASSUME NEW g \in new
      PROVE  \E e \in all : /\ g.at = e.at /\ g.prev = e.prev
                            /\ g.anonymized \/ g.actor = g.signed
                            /\ (g \in more /\ g = e) \/ (e \in rows /\ g = r(e))
  <2>1. CASE g \in more
    BY <1>2, <2>1
  <2>2. CASE g \notin more
    <3>1. PICK e \in rows : g = r(e)
      BY <2>2
    <3>2. e \in all /\ (e.anonymized \/ e.actor = e.signed)
      BY <1>2
    <3>3. g.at = e.at /\ g.prev = e.prev /\ (g.anonymized \/ g.actor = g.signed)
      BY <1>1, <3>1, <3>2
    <3> QED
      BY <3>1, <3>2, <3>3
  <2> QED
    BY <2>1, <2>2
<1>4. \A e \in all : \E g \in new : g.at = e.at
  BY <1>1
<1> HIDE DEF r, new
<1>5. \A g, h \in new : g.at = h.at => g = h
  <2> SUFFICES ASSUME NEW g \in new, NEW h \in new, g.at = h.at
               PROVE  g = h
    OBVIOUS
  <2>1. PICK e \in all : g.at = e.at /\ ((g \in more /\ g = e) \/ (e \in rows /\ g = r(e)))
    BY <1>3
  <2>2. PICK f \in all : h.at = f.at /\ ((h \in more /\ h = f) \/ (f \in rows /\ h = r(f)))
    BY <1>3
  <2>3. e = f
    BY <1>2, <2>1, <2>2
  <2> QED
    BY <2>1, <2>2, <2>3
<1>6. ASSUME NEW g \in new
      PROVE  IsLatestHash(g.prev, {h \in new : h.at < g.at}) /\ (g.anonymized \/ g.actor = g.signed)
  <2>1. PICK e \in all : g.at = e.at /\ g.prev = e.prev /\ (g.anonymized \/ g.actor = g.signed)
    BY <1>3
  <2> DEFINE old == {f \in all : f.at < e.at}
             now2 == {h \in new : h.at < g.at}
  <2>2. {f.at : f \in old} = {h.at : h \in now2}
    BY <1>3, <1>4, <2>1
  <2>3. IsLatestHash(g.prev, old)
    BY <1>2, <2>1
  <2> HIDE DEF old, now2
  <2>4. IsLatestHash(g.prev, now2)
    BY <2>2, <2>3, SameTimesSameHash
  <2> QED
    BY <2>1, <2>4 DEF now2
<1>7. Chained(new)
  BY <1>5, <1>6 DEF Chained
<1> QED
  BY <1>7 DEF new, r

LEMMA ChainStep == TypeInv /\ ChainInv /\ [Next]_vars => ChainInv'
<1> SUFFICES ASSUME TypeInv, ChainInv, [Next]_vars, history' = {}
             PROVE  ChainInv'
  BY DEF ChainInv
<1>0. history = {}
  BY DEF Next, vars, BeginLog, AdvisoryLock, Insert, Commit, Rollback, EndTransaction,
         Anonymize, Cleanup
<1>9. /\ log \in SUBSET Entry /\ mine \in [Sessions -> SUBSET Entry]
      /\ pc \in [Sessions -> {"idle", "lock", "locked", "open"}]
      /\ now \in [Sessions -> 0 .. MaxTime] /\ clock \in 0 .. MaxTime
      /\ MaxTime \in Nat /\ \A e \in Entry : e.at \in Nat
  BY AuditAssumption DEF TypeInv, TypeOK, Entry, Time
<1>10. /\ \A s, t \in Sessions : pc[s] # "idle" /\ pc[t] # "idle" => s = t
       /\ \A s \in Sessions : pc[s] = "idle" => mine[s] = {}
       /\ Chained(log)
       /\ \A s \in Sessions : Chained(log \cup mine[s])
       /\ \A s \in Sessions : \A e \in log \cup mine[s] : e.at <= clock
       /\ \A s \in Sessions : \A e \in log : \A f \in mine[s] : e.at # f.at
       /\ \A s \in Sessions : pc[s] \in {"lock", "locked"} =>
              now[s] <= clock /\ \A e \in log \cup mine[s] : e.at < now[s]
  BY <1>0 DEF ChainInv, Visible
<1>1. ASSUME NEW s \in Sessions, NEW a \in Actors, BeginLog(s, a)
      PROVE  ChainInv'
  <2>1. \A t \in Sessions \ {s} : pc[t] = "idle"
    BY <1>1 DEF BeginLog
  <2>2. /\ clock' = clock + 1 /\ now' = [now EXCEPT ![s] = clock + 1]
        /\ pc' = [pc EXCEPT ![s] = "lock"] /\ log' = log /\ mine' = mine
    BY <1>1 DEF BeginLog
  <2>3. \A t \in Sessions : \A e \in log \cup mine[t] : e.at < clock + 1 /\ e.at <= clock + 1
    BY <1>9, <1>10
  <2>4. /\ now'[s] = clock + 1 /\ pc'[s] = "lock"
        /\ \A t \in Sessions \ {s} : pc'[t] = "idle"
    BY <1>9, <2>1, <2>2
  <2>5. clock + 1 <= clock + 1
    BY <1>9
  <2> QED
    BY <1>10, <2>2, <2>3, <2>4, <2>5 DEF ChainInv, Visible
<1>2. ASSUME NEW s \in Sessions, AdvisoryLock(s)
      PROVE  ChainInv'
  BY <1>9, <1>10, <1>2 DEF AdvisoryLock, ChainInv, Visible
<1>3. ASSUME NEW s \in Sessions, Insert(s)
      PROVE  ChainInv'
  <2>1. PICK h \in 0 .. MaxTime :
            /\ IsLatestHash(h, Visible(s))
            /\ mine' = [mine EXCEPT ![s] = @ \cup {NewRow(s, h)}]
            /\ NewRow(s, h) \in Entry
    BY <1>3, InsertAdds
  <2> DEFINE r == NewRow(s, h)
  <2>2. r.at = now[s] /\ r.prev = h /\ r.actor = r.signed
    BY DEF NewRow
  <2>3. /\ log' = log /\ clock' = clock /\ now' = now
        /\ pc[s] = "locked" /\ pc' = [pc EXCEPT ![s] = "open"]
    BY <1>3 DEF Insert
  <2>4. now[s] <= clock /\ \A e \in log \cup mine[s] : e.at < r.at
    BY <1>10, <2>2, <2>3
  <2>5. mine'[s] = mine[s] \cup {r} /\ \A t \in Sessions \ {s} : mine'[t] = mine[t]
    BY <1>9, <2>1
  <2>6. r \in Entry /\ IsLatestHash(r.prev, log \cup mine[s])
    BY <2>1, <2>2 DEF Visible
  <2> HIDE DEF r
  <2>7. Chained((log \cup mine[s]) \cup {r})
    <3> DEFINE rows == log \cup mine[s]
    <3>1. rows \in SUBSET Entry /\ Chained(rows) /\ (\A e \in rows : e.at < r.at)
          /\ IsLatestHash(r.prev, rows)
      BY <1>9, <1>10, <2>4, <2>6
    <3> HIDE DEF rows
    <3>2. Chained(rows \cup {r})
      BY <2>2, <2>6, <3>1, ChainedMore
    <3> QED
      BY <3>2 DEF rows
  <2>8. log' \cup mine'[s] = (log \cup mine[s]) \cup {r}
    BY <2>3, <2>5
  <2>9. \A t \in Sessions : Chained(log' \cup mine'[t])
    BY <1>10, <2>3, <2>5, <2>7, <2>8
  <2>10. \A t \in Sessions : \A e \in log' \cup mine'[t] : e.at <= clock'
    BY <1>10, <2>2, <2>3, <2>4, <2>5
  <2>11. \A t \in Sessions : \A e \in log' : \A f \in mine'[t] : e.at # f.at
    <3>1. \A e \in log : e.at < r.at /\ e.at \in Nat /\ r.at \in Nat
      BY <1>9, <2>4, <2>6
    <3>2. \A e \in log : e.at # r.at
      BY <3>1
    <3> QED
      BY <1>10, <2>3, <2>5, <3>2
  <2>12. \A t \in Sessions : pc'[t] # "idle" => t = s
    BY <1>9, <1>10, <2>3
  <2>13. pc'[s] = "open"
    BY <1>9, <2>3
  <2>14. /\ \A t, u \in Sessions : pc'[t] # "idle" /\ pc'[u] # "idle" => t = u
         /\ \A t \in Sessions : pc'[t] = "idle" => mine'[t] = {}
         /\ \A t \in Sessions : ~(pc'[t] \in {"lock", "locked"})
    BY <1>9, <1>10, <2>3, <2>5, <2>12, <2>13
  <2> QED
    BY <1>10, <2>3, <2>9, <2>10, <2>11, <2>14 DEF ChainInv, Visible
<1>4. ASSUME NEW s \in Sessions, Commit(s)
      PROVE  ChainInv'
  <2>1. /\ log' = log \cup mine[s] /\ mine' = [mine EXCEPT ![s] = {}]
        /\ pc' = [pc EXCEPT ![s] = "idle"] /\ pc[s] = "open" /\ clock' = clock /\ now' = now
    BY <1>4 DEF Commit, EndTransaction
  <2>2. \A t \in Sessions : pc'[t] = "idle" /\ mine'[t] = {}
    BY <1>9, <1>10, <2>1
  <2>3. \A t \in Sessions : log' \cup mine'[t] = log \cup mine[s]
    BY <2>1, <2>2
  <2>4. Chained(log') /\ \A t \in Sessions : Chained(log' \cup mine'[t])
    BY <1>10, <2>1, <2>3
  <2>5. \A t \in Sessions : \A e \in log' \cup mine'[t] : e.at <= clock'
    BY <1>10, <2>1, <2>3
  <2> QED
    BY <2>2, <2>4, <2>5 DEF ChainInv, Visible
<1>5. ASSUME NEW s \in Sessions, Rollback(s)
      PROVE  ChainInv'
  <2>1. /\ log' = log /\ mine' = [mine EXCEPT ![s] = {}]
        /\ pc' = [pc EXCEPT ![s] = "idle"] /\ pc[s] # "idle" /\ clock' = clock /\ now' = now
    BY <1>5 DEF Rollback, EndTransaction
  <2>2. \A t \in Sessions : pc'[t] = "idle" /\ mine'[t] = {}
    BY <1>9, <1>10, <2>1
  <2>3. \A t \in Sessions : log' \cup mine'[t] = log
    BY <2>1, <2>2
  <2>4. \A e \in log : e.at <= clock
    BY <1>10
  <2>5. \A t \in Sessions : Chained(log' \cup mine'[t]) /\ \A e \in log' \cup mine'[t] : e.at <= clock'
    BY <1>10, <2>1, <2>3, <2>4
  <2> QED
    BY <1>10, <2>1, <2>2, <2>5 DEF ChainInv, Visible
<1>6. ASSUME NEW a \in Actors, Anonymize(a)
      PROVE  ChainInv'
  <2>1. /\ log' = {IF e.actor = a THEN Redact(e) ELSE e : e \in log}
        /\ mine' = mine /\ pc' = pc /\ clock' = clock /\ now' = now
    BY <1>6 DEF Anonymize
  <2>2. \A g \in log' : \E e \in log : g.at = e.at
    BY <1>9, <2>1, RedactKeeps
  <2>3. ASSUME NEW t \in Sessions
        PROVE  Chained(log' \cup mine'[t])
    <3>0. mine[t] \in SUBSET Entry /\ Chained(log \cup mine[t]) /\ \A e \in log : \A f \in mine[t] : e.at # f.at
      BY <1>9, <1>10
    <3>1. Chained({IF e.actor = a THEN Redact(e) ELSE e : e \in log} \cup mine[t])
      BY <1>9, <3>0, ChainedRedacted
    <3> QED
      BY <2>1, <3>1
  <2>4. Chained(log')
    <3>1. log = log \cup {} /\ log' = log' \cup {}
      OBVIOUS
    <3>2. Chained(log \cup {}) /\ {} \in SUBSET Entry /\ \A e \in log : \A f \in {} : e.at # f.at
      BY <1>10, <3>1
    <3>3. Chained({IF e.actor = a THEN Redact(e) ELSE e : e \in log} \cup {})
      BY <1>9, <3>2, ChainedRedacted
    <3> QED
      BY <2>1, <3>1, <3>3
  <2>5. \A t \in Sessions : \A e \in log' : \A f \in mine'[t] : e.at # f.at
    BY <1>10, <2>1, <2>2
  <2>6. \A t \in Sessions : \A e \in log' \cup mine'[t] : e.at <= clock'
    BY <1>10, <2>1, <2>2
  <2>7. \A t \in Sessions : pc'[t] \in {"lock", "locked"} =>
            now'[t] <= clock' /\ \A e \in log' \cup mine'[t] : e.at < now'[t]
    BY <1>10, <2>1, <2>2
  <2>8. /\ \A s, t \in Sessions : pc'[s] # "idle" /\ pc'[t] # "idle" => s = t
        /\ \A s \in Sessions : pc'[s] = "idle" => mine'[s] = {}
    BY <1>10, <2>1
  <2> QED
    BY <2>3, <2>4, <2>5, <2>6, <2>7, <2>8 DEF ChainInv, Visible
<1>7. ASSUME NEW t \in Time, Cleanup(t)
      PROVE  FALSE
  BY <1>7 DEF Cleanup
<1>8. CASE UNCHANGED vars
  BY <1>0, <1>10, <1>8 DEF vars, ChainInv, Visible
<1> QED
  BY <1>1, <1>2, <1>3, <1>4, <1>5, <1>6, <1>7, <1>8 DEF Next

\* What verify_chain reads is the older part of the log.
LEMMA CheckedIsOld ==
    ASSUME log \in SUBSET Entry, Chained(log), NEW e \in Checked, NEW f \in log, f.at < e.at
    PROVE  f \in Checked
<1> DEFINE older(g) == {k \in log : k.at < g.at}
           at == [g \in log |-> g.at]
<1>1. \A g \in log : g.at \in Time
  BY DEF Entry
<1>2. at \in Injection(log, Time)
  BY <1>1 DEF Injection, IsInjective, Chained
<1>3. IsFiniteSet(Time)
  BY AuditAssumption, FS_Interval DEF Time
<1>4. IsFiniteSet(log)
  <2> HIDE DEF at
  <2> QED
    BY <1>2, <1>3, FS_Injection
<1>5. e \in log /\ Cardinality(older(e)) < Limit
  BY DEF Checked
<1>6. older(f) \in SUBSET older(e) /\ IsFiniteSet(older(e)) /\ IsFiniteSet(older(f))
  <2>1. f.at \in Nat /\ e.at \in Nat /\ \A k \in log : k.at \in Nat
    BY <1>1, <1>5 DEF Time
  <2>2. older(f) \in SUBSET older(e) /\ older(e) \in SUBSET log /\ older(f) \in SUBSET log
    BY <2>1
  <2> QED
    BY <1>4, <2>2, FS_Subset
<1>7. Cardinality(older(f)) <= Cardinality(older(e))
  BY <1>6, FS_Subset
<1>8. Cardinality(older(f)) \in Nat /\ Cardinality(older(e)) \in Nat /\ Limit \in Nat
  BY <1>6, FS_CardinalityType, AuditAssumption
<1>9. Cardinality(older(f)) < Limit
  <2> HIDE DEF older
  <2> QED
    BY <1>5, <1>7, <1>8
<1> QED
  BY <1>9 DEF Checked

\* As long as requests log one after the other the chain verifies, with rollbacks,
\* several entries in one request, erasures, and whatever limit is given.
THEOREM ChainVerifies == Spec => []Verifies
<1>1. Init => ChainInv
  BY DEF Init, ChainInv, Chained, Visible
<1>2. ASSUME TypeInv, ChainInv
      PROVE  Verifies
  <2> SUFFICES ASSUME history = {}, NEW e \in Checked
               PROVE  e.prev = Expected(e) /\ (e.anonymized \/ e.actor = e.signed)
    BY DEF Verifies, VerifyChain
  <2> DEFINE before == {f \in log : f.at < e.at}
  <2>1. log \in SUBSET Entry /\ Chained(log) /\ e \in log
    BY <1>2 DEF TypeInv, TypeOK, ChainInv, Checked
  <2>2. {f \in Checked : f.at < e.at} = before
    <3>1. Checked \subseteq log
      BY DEF Checked
    <3> QED
      BY <2>1, <3>1, CheckedIsOld
  <2>3. IsLatestHash(e.prev, before) /\ e.prev \in 0 .. MaxTime
    BY <2>1 DEF Chained, Entry
  <2>4. ASSUME NEW h \in 0 .. MaxTime, IsLatestHash(h, before)
        PROVE  h = e.prev
    <3>1. \A f \in before : f.at \in Nat
      BY <2>1 DEF Entry, Time
    <3> HIDE DEF before
    <3> QED
      BY <2>3, <2>4, <3>1 DEF IsLatestHash
  <2>5. Expected(e) = e.prev
    <3> HIDE DEF before
    <3> QED
      BY <2>2, <2>3, <2>4 DEF Expected
  <2>6. e.anonymized \/ e.actor = e.signed
    BY <2>1 DEF Chained
  <2> QED
    BY <2>5, <2>6
<1> QED
  BY <1>1, <1>2, ChainStep, TypeAlways, PTL DEF Spec
=============================================================================
