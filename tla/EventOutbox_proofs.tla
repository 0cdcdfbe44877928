------------------------ MODULE EventOutbox_proofs -------------------------
(***************************************************************************)
(* Proofs about EventOutbox, for any number of events, replicas, handlers, *)
(* attempts and crashes and any batch limit: it implements Delivery, a     *)
(* lone replica never reports a delivered entry as failed, and no entry is *)
(* tried for ever.                                                         *)
(***************************************************************************)
EXTENDS EventOutbox, FiniteSetTheorems, TLAPS

-----------------------------------------------------------------------------
(* Batches and queues.                                                     *)

\* get_pending returns a natural number of rows, at most the limit.
LEMMA BatchIsLimited == BatchSize \in Nat /\ BatchSize <= Limit
  <1>1. IsFiniteSet(Events)
    BY OutboxAssumption, FS_Interval DEF Events
  <1>2. IsFiniteSet(Pending) /\ Cardinality(Pending) \in Nat
    BY <1>1, FS_Subset, FS_CardinalityType DEF Pending
  <1> QED
    BY <1>2, OutboxAssumption DEF BatchSize

\* The snapshots a poller has read and not dispatched yet.
Waiting(p) == {queue[p][i] : i \in DOMAIN queue[p]}

\* Taking the head off a queue.
LEMMA HeadTail ==
    ASSUME NEW q \in Seq(Snap), q # <<>>
    PROVE  /\ Head(q) \in {q[i] : i \in DOMAIN q}
           /\ Head(q) \in Snap
           /\ Tail(q) \in Seq(Snap)
           /\ Len(Tail(q)) <= Len(q)
           /\ {Tail(q)[i] : i \in DOMAIN Tail(q)} \subseteq {q[i] : i \in DOMAIN q}
  <1>1. Len(q) \in Nat \ {0} /\ DOMAIN q = 1 .. Len(q) /\ Head(q) = q[1]
    OBVIOUS
  <1>2. Len(Tail(q)) = Len(q) - 1 /\ DOMAIN Tail(q) = 1 .. Len(q) - 1 /\ Tail(q) \in Seq(Snap)
    BY <1>1
  <1>3. \A i \in 1 .. Len(q) - 1 : Tail(q)[i] = q[i + 1] /\ i + 1 \in DOMAIN q
    BY <1>1
  <1> QED
    BY <1>1, <1>2, <1>3

\* What a poller reads: pending entries, with their attempts.
LEMMA ReadTakesPending ==
    ASSUME TypeOK, NEW p \in Pollers, Read(p)
    PROVE  /\ queue'[p] \in Seq(Snap) /\ Len(queue'[p]) <= Limit
           /\ \A x \in Waiting(p)' : x \in Snap /\ x.id \in Pending /\ x.attempts = attempts[x.id]
           /\ \A q \in Pollers \ {p} : queue'[q] = queue[q]
  <1>1. PICK ids \in [1 .. BatchSize -> Pending] :
            queue' = [queue EXCEPT ![p] =
                 [i \in 1 .. BatchSize |-> [id |-> ids[i], attempts |-> attempts[ids[i]]]]]
    BY DEF Read
  <1>2. queue'[p] = [i \in 1 .. BatchSize |-> [id |-> ids[i], attempts |-> attempts[ids[i]]]]
    BY <1>1 DEF TypeOK
  <1>3. \A i \in 1 .. BatchSize : /\ ids[i] \in Pending /\ ids[i] \in Events
                                  /\ attempts[ids[i]] \in Nat
    BY <1>1 DEF TypeOK, Pending
  <1>4. queue'[p] \in [1 .. BatchSize -> Snap]
    BY <1>2, <1>3 DEF Snap
  <1>5. queue'[p] \in Seq(Snap) /\ Len(queue'[p]) = BatchSize
    BY <1>4, BatchIsLimited
  <1>6. \A x \in Waiting(p)' : x \in Snap /\ x.id \in Pending /\ x.attempts = attempts[x.id]
    BY <1>2, <1>3 DEF Waiting, Snap
  <1> QED
    BY <1>1, <1>5, <1>6, BatchIsLimited DEF TypeOK

-----------------------------------------------------------------------------
(* Types.                                                                  *)

LEMMA TypeInit == Init => TypeOK
  BY OutboxAssumption DEF Init, TypeOK, Snap

\* Marking keeps statuses statuses and counts numbers.
LEMMA MarkTypes ==
    ASSUME TypeOK, NEW p \in Pollers, NEW e \in Events
    PROVE  /\ Marked(p, e) \in {"none", "open", "aborted", "pending", "delivered", "failed",
                                "deleted"}
           /\ Counted(p, e) \in Nat
  BY DEF TypeOK, Marked, Counted

LEMMA TypeStep == TypeOK /\ [Next]_vars => TypeOK'
  <1> SUFFICES ASSUME TypeOK, [Next]_vars PROVE TypeOK'
    OBVIOUS
  <1>1. CASE UNCHANGED vars
    BY <1>1 DEF TypeOK, vars, outbox, poller, world
  <1>2. CASE \E e \in Events : EmitPersistent(e) \/ EndTransaction(e)
    BY <1>2 DEF TypeOK, EmitPersistent, EndTransaction, poller, world
  <1>3. ASSUME NEW p \in Pollers, Read(p) PROVE TypeOK'
    <2>1. queue' \in [Pollers -> Seq(Snap)] /\ \A q \in Pollers : Len(queue'[q]) <= Limit
      <3>1. /\ queue'[p] \in Seq(Snap) /\ Len(queue'[p]) <= Limit
            /\ \A q \in Pollers \ {p} : queue'[q] = queue[q]
        BY <1>3, ReadTakesPending
      <3>2. DOMAIN queue' = Pollers /\ queue' = [q \in DOMAIN queue' |-> queue'[q]]
        BY <1>3 DEF Read, TypeOK
      <3> QED
        BY <3>1, <3>2 DEF TypeOK
    <2> QED
      BY <1>3, <2>1 DEF TypeOK, Read, outbox, world
  <1>4. ASSUME NEW p \in Pollers, Abandon(p) PROVE TypeOK'
    <2>1. Head(queue[p]) \in Snap /\ Tail(queue[p]) \in Seq(Snap) /\ Len(Tail(queue[p])) <= Limit
      BY <1>4, HeadTail, OutboxAssumption DEF Abandon, TypeOK
    <2> QED
      BY <1>4, <2>1 DEF TypeOK, Abandon, outbox, world, Snap
  <1>5. ASSUME NEW p \in Pollers, Dispatch(p) PROVE TypeOK'
    <2> DEFINE e == Head(queue[p]).id
    <2>1. e \in Events /\ Tail(queue[p]) \in Seq(Snap) /\ Len(Tail(queue[p])) <= Limit
      <3>1. queue[p] # <<>> /\ queue[p] \in Seq(Snap) /\ Len(queue[p]) <= Limit
        BY <1>5 DEF Dispatch, TypeOK
      <3>2. Head(queue[p]) \in Snap /\ Tail(queue[p]) \in Seq(Snap) /\ Len(Tail(queue[p])) <= Limit
        BY <3>1, HeadTail, OutboxAssumption
      <3> QED
        BY <3>2 DEF Snap
    <2>2. PICK ok \in SUBSET Handlers, late \in SUBSET Handlers :
              /\ handled' = [handled EXCEPT ![e] = @ \cup ok \cup late]
              /\ tries' = [tries EXCEPT ![e] = IF @ < MaxAttempts THEN @ + 1 ELSE @]
              /\ IF AllOk(ok)
                 THEN delivered' = [delivered EXCEPT ![p] = @ \cup {e}] /\ UNCHANGED retry
                 ELSE retry' = [retry EXCEPT ![p] = @ \cup {e}] /\ UNCHANGED delivered
      BY <1>5 DEF Dispatch
    <2>3. handled' \in [Events -> SUBSET Handlers]
      BY <2>1, <2>2 DEF TypeOK
    <2>4. tries' \in [Events -> 0 .. MaxAttempts]
      BY <2>1, <2>2, OutboxAssumption DEF TypeOK
    <2>5. delivered' \in [Pollers -> SUBSET Events] /\ retry' \in [Pollers -> SUBSET Events]
      <3>1. /\ delivered' = delivered \/ delivered' = [delivered EXCEPT ![p] = @ \cup {e}]
            /\ retry' = retry \/ retry' = [retry EXCEPT ![p] = @ \cup {e}]
        BY <2>2
      <3> HIDE DEF e
      <3>2. /\ [delivered EXCEPT ![p] = @ \cup {e}] \in [Pollers -> SUBSET Events]
            /\ [retry EXCEPT ![p] = @ \cup {e}] \in [Pollers -> SUBSET Events]
        BY <2>1 DEF TypeOK
      <3> QED
        BY <3>1, <3>2 DEF TypeOK
    <2>6. /\ queue' \in [Pollers -> Seq(Snap)]
          /\ \A q \in Pollers : Len(queue'[q]) <= Limit
      BY <1>5, <2>1 DEF Dispatch, TypeOK
    <2> QED
      BY <1>5, <2>3, <2>4, <2>5, <2>6 DEF TypeOK, Dispatch, outbox
  <1>6. ASSUME NEW p \in Pollers, EndPoll(p)
        PROVE  /\ queue' \in [Pollers -> Seq(Snap)] /\ \A q \in Pollers : Len(queue'[q]) <= Limit
               /\ polling' \in [Pollers -> BOOLEAN]
               /\ delivered' \in [Pollers -> SUBSET Events]
               /\ retry' \in [Pollers -> SUBSET Events] /\ giveUp' \in [Pollers -> SUBSET Events]
    BY <1>6, OutboxAssumption DEF EndPoll, TypeOK
  <1>7. ASSUME NEW p \in Pollers, Mark(p) PROVE TypeOK'
    BY <1>6, <1>7, MarkTypes DEF TypeOK, Mark, world
  <1>8. ASSUME NEW p \in Pollers, Crash(p) PROVE TypeOK'
    BY <1>6, <1>8, OutboxAssumption DEF TypeOK, Crash, outbox, world
  <1>9. ASSUME NEW p \in Pollers, Cleanup(p) PROVE TypeOK'
    BY <1>9 DEF TypeOK, Cleanup, poller, world
  <1> QED
    BY <1>1, <1>2, <1>3, <1>4, <1>5, <1>7, <1>8, <1>9 DEF Next, Poll

\* Every reachable state of EventOutbox is well typed.
THEOREM TypeCorrect == Spec => []TypeOK
  BY TypeInit, TypeStep, PTL DEF Spec

-----------------------------------------------------------------------------
(* What a poller has in hand.                                              *)

Committed == {"pending"} \cup Settled

\* Whatever a poller holds has been committed.
HandInv ==
    \A p \in Pollers :
        /\ \A x \in Waiting(p) : status[x.id] \in Committed
        /\ \A e \in delivered[p] \cup giveUp[p] : status[e] \in Committed

\* What it will mark delivered was heard by every handler.
HeardInv == \A p \in Pollers : \A e \in delivered[p] : handled[e] = Handlers

\* Pollers that have dispatched e in vain and have not counted it yet.
Uncounted(e) == {p \in Pollers : e \in retry[p]}

\* The attempts column never runs ahead of the dispatches.
CountInv ==
    \A e \in Events :
        tries[e] = MaxAttempts \/ attempts[e] + Cardinality(Uncounted(e)) <= tries[e]

\* What a poller gives up was tried often enough.
GiveUpInv ==
    \A p \in Pollers :
        /\ \A x \in Waiting(p) : Exhausted(x.attempts) => tries[x.id] = MaxAttempts
        /\ \A e \in giveUp[p] : tries[e] = MaxAttempts

SafeInv == HandInv /\ HeardInv /\ CountInv /\ GiveUpInv

\* The pollers a set of dispatches concerns are finitely many.
LEMMA UncountedIsFinite ==
    ASSUME NEW e
    PROVE  IsFiniteSet(Uncounted(e)) /\ Cardinality(Uncounted(e)) \in Nat
  BY OutboxAssumption, FS_Subset, FS_CardinalityType DEF Uncounted

\* Statuses and dispatches only move on.
LEMMA Onward ==
    ASSUME TypeOK, HandInv, [Next]_vars
    PROVE  /\ \A e \in Events : status[e] \in Committed => status'[e] \in Committed
           /\ \A e \in Events : tries[e] = MaxAttempts => tries'[e] = MaxAttempts
           /\ \A e \in Events : handled[e] = Handlers => handled'[e] = Handlers
  <1>1. CASE UNCHANGED vars
    BY <1>1 DEF vars, outbox, world
  <1>2. CASE \E e \in Events : EmitPersistent(e) \/ EndTransaction(e)
    BY <1>2 DEF EmitPersistent, EndTransaction, world, TypeOK, Committed, Settled
  <1>3. ASSUME NEW p \in Pollers, Read(p) \/ Abandon(p) \/ Crash(p)
        PROVE  UNCHANGED <<status, tries, handled>>
    BY <1>3 DEF Read, Abandon, Crash, outbox, world
  <1>4. ASSUME NEW p \in Pollers, Dispatch(p)
        PROVE  /\ UNCHANGED status
               /\ \A e \in Events : tries[e] = MaxAttempts => tries'[e] = MaxAttempts
               /\ \A e \in Events : handled[e] = Handlers => handled'[e] = Handlers
    <2> DEFINE d == Head(queue[p]).id
    <2>1. PICK ok \in SUBSET Handlers, late \in SUBSET Handlers :
              /\ handled' = [handled EXCEPT ![d] = @ \cup ok \cup late]
              /\ tries' = [tries EXCEPT ![d] = IF @ < MaxAttempts THEN @ + 1 ELSE @]
      BY <1>4 DEF Dispatch
    <2> HIDE DEF d
    <2>2. \A e \in Events : tries[e] = MaxAttempts => tries'[e] = MaxAttempts
      BY <2>1, OutboxAssumption DEF TypeOK
    <2>3. \A e \in Events : handled[e] = Handlers => handled'[e] = Handlers
      BY <2>1 DEF TypeOK
    <2> QED
      BY <1>4, <2>2, <2>3 DEF Dispatch, outbox
  <1>5. ASSUME NEW p \in Pollers, Mark(p)
        PROVE  /\ UNCHANGED <<tries, handled>>
               /\ \A e \in Events : status[e] \in Committed => status'[e] \in Committed
    BY <1>5 DEF Mark, world, Marked, Committed, Settled, TypeOK
  <1>6. ASSUME NEW p \in Pollers, Cleanup(p)
        PROVE  /\ UNCHANGED <<tries, handled>>
               /\ \A e \in Events : status[e] \in Committed => status'[e] \in Committed
    BY <1>6 DEF Cleanup, world, Committed, Settled, TypeOK
  <1> QED
    BY <1>1, <1>2, <1>3, <1>4, <1>5, <1>6 DEF Next, Poll

\* What a step adds to the hands of a poller: pending rows as they are, the head of a
\* queue given up because exhausted, or dispatched to every handler.
LEMMA InHand ==
    ASSUME TypeOK, HandInv, [Next]_vars, NEW p \in Pollers
    PROVE  /\ \A x \in Waiting(p)' :
                 \/ x \in Waiting(p)
                 \/ x.id \in Pending /\ x.attempts = attempts[x.id]
           /\ \A e \in giveUp'[p] :
                 \/ e \in giveUp[p]
                 \/ \E x \in Waiting(p) : x.id = e /\ Exhausted(x.attempts)
           /\ \A e \in delivered'[p] :
                 \/ e \in delivered[p]
                 \/ (\E x \in Waiting(p) : x.id = e) /\ handled'[e] = Handlers
  <1> DEFINE Goal ==
           /\ \A x \in Waiting(p)' :
                 \/ x \in Waiting(p)
                 \/ x.id \in Pending /\ x.attempts = attempts[x.id]
           /\ \A e \in giveUp'[p] :
                 \/ e \in giveUp[p]
                 \/ \E x \in Waiting(p) : x.id = e /\ Exhausted(x.attempts)
           /\ \A e \in delivered'[p] :
                 \/ e \in delivered[p]
                 \/ (\E x \in Waiting(p) : x.id = e) /\ handled'[e] = Handlers
  <1>1. CASE UNCHANGED poller
    BY <1>1 DEF poller, Waiting
  <1>2. ASSUME NEW q \in Pollers, Read(q) PROVE Goal
    <2>1. giveUp' = giveUp /\ delivered' = delivered
      BY <1>2 DEF Read
    <2>2. CASE q = p
      BY <1>2, <2>1, <2>2, ReadTakesPending
    <2>3. CASE q # p
      BY <1>2, <2>1, <2>3, ReadTakesPending DEF Waiting
    <2> QED
      BY <2>2, <2>3
  <1>3. ASSUME NEW q \in Pollers, Abandon(q) PROVE Goal
    <2>1. CASE q # p
      BY <1>3, <2>1 DEF Abandon, TypeOK, Waiting
    <2>2. CASE q = p
      <3>1. /\ queue'[p] = Tail(queue[p]) /\ queue[p] # <<>> /\ queue[p] \in Seq(Snap)
            /\ giveUp'[p] = giveUp[p] \cup {Head(queue[p]).id}
            /\ delivered'[p] = delivered[p]
            /\ Exhausted(Head(queue[p]).attempts)
        BY <1>3, <2>2 DEF Abandon, TypeOK
      <3>2. Head(queue[p]) \in Waiting(p) /\ Waiting(p)' \subseteq Waiting(p)
        BY <3>1, HeadTail DEF Waiting
      <3> QED
        BY <3>1, <3>2
    <2> QED
      BY <2>1, <2>2
  <1>4. ASSUME NEW q \in Pollers, Dispatch(q) PROVE Goal
    <2>1. CASE q # p
      <3>1. queue'[p] = queue[p] /\ giveUp' = giveUp /\ delivered'[p] = delivered[p]
        BY <1>4, <2>1 DEF Dispatch, TypeOK
      <3> QED
        BY <3>1 DEF Waiting
    <2>2. CASE q = p
      <3> DEFINE d == Head(queue[p]).id
      <3>1. /\ queue'[p] = Tail(queue[p]) /\ queue[p] # <<>> /\ queue[p] \in Seq(Snap)
            /\ giveUp' = giveUp
        BY <1>4, <2>2 DEF Dispatch, TypeOK
      <3>2. Head(queue[p]) \in Waiting(p) /\ Waiting(p)' \subseteq Waiting(p) /\ d \in Events
        BY <3>1, HeadTail DEF Waiting, Snap
      <3>3. PICK ok \in SUBSET Handlers, late \in SUBSET Handlers :
                /\ handled' = [handled EXCEPT ![d] = @ \cup ok \cup late]
                /\ ok = Handlers \/ delivered' = delivered
                /\ delivered' = delivered \/ delivered' = [delivered EXCEPT ![p] = @ \cup {d}]
        BY <1>4, <2>2 DEF Dispatch, AllOk
      <3>4. \E x \in Waiting(p) : x.id = d
        BY <3>2
      <3> HIDE DEF d
      <3>5. delivered' # delivered => handled'[d] = Handlers
        BY <3>2, <3>3 DEF TypeOK
      <3>6. \A e \in delivered'[p] : e \in delivered[p] \/ (e = d /\ handled'[d] = Handlers)
        BY <3>3, <3>5 DEF TypeOK
      <3> QED
        BY <3>1, <3>2, <3>4, <3>6
    <2> QED
      BY <2>1, <2>2
  <1>5. ASSUME NEW q \in Pollers, EndPoll(q) PROVE Goal
    BY <1>5 DEF EndPoll, TypeOK, Waiting
  <1>6. \A q \in Pollers : (Mark(q) => EndPoll(q)) /\ (Crash(q) => EndPoll(q))
    BY DEF Mark, Crash
  <1>7. CASE UNCHANGED vars
    BY <1>1, <1>7 DEF vars
  <1>8. CASE \E e \in Events : EmitPersistent(e) \/ EndTransaction(e)
    BY <1>1, <1>8 DEF EmitPersistent, EndTransaction
  <1>9. ASSUME NEW q \in Pollers, Cleanup(q) PROVE Goal
    BY <1>1, <1>9 DEF Cleanup
  <1> QED
    BY <1>2, <1>3, <1>4, <1>5, <1>6, <1>7, <1>8, <1>9 DEF Next, Poll

\* What waits in a queue is an event.
LEMMA WaitingIds ==
    ASSUME TypeOK, NEW p \in Pollers, NEW x \in Waiting(p)
    PROVE  x.id \in Events
  <1>1. PICK i \in DOMAIN queue[p] : x = queue[p][i]
    BY DEF Waiting
  <1>2. queue[p] \in Seq(Snap)
    BY DEF TypeOK
  <1>3. queue[p][i] \in Snap
    BY <1>1, <1>2
  <1> QED
    BY <1>1, <1>3 DEF Snap

\* One poller more.
LEMMA OneMore ==
    ASSUME NEW S, IsFiniteSet(S), NEW x, NEW T, T \subseteq S \cup {x}
    PROVE  Cardinality(T) \in Nat /\ Cardinality(T) <= Cardinality(S) + 1
  <1>1. Cardinality(S) \in Nat
    BY FS_CardinalityType
  <1>2. IsFiniteSet(S \cup {x}) /\ Cardinality(S \cup {x}) \in {Cardinality(S), Cardinality(S) + 1}
    BY <1>1, FS_AddElement
  <1>3. IsFiniteSet(T) /\ Cardinality(T) <= Cardinality(S \cup {x})
    BY <1>2, FS_Subset
  <1>4. Cardinality(T) \in Nat
    BY <1>3, FS_CardinalityType
  <1> QED
    BY <1>1, <1>2, <1>3, <1>4

LEMMA SafeInit == Init => SafeInv
  <1> SUFFICES ASSUME Init PROVE SafeInv
    OBVIOUS
  <1>1. \A p \in Pollers : Waiting(p) = {} /\ delivered[p] = {} /\ giveUp[p] = {}
    BY DEF Init, Waiting
  <1>2. ASSUME NEW e \in Events PROVE attempts[e] + Cardinality(Uncounted(e)) <= tries[e]
    <2>1. Uncounted(e) = {}
      BY DEF Init, Uncounted
    <2> QED
      BY <2>1, FS_EmptySet DEF Init
  <1> QED
    BY <1>1, <1>2 DEF SafeInv, HandInv, HeardInv, CountInv, GiveUpInv

LEMMA HandStep == TypeOK /\ SafeInv /\ [Next]_vars => HandInv'
  <1> SUFFICES ASSUME TypeOK, HandInv, [Next]_vars PROVE HandInv'
    BY DEF SafeInv
  <1>1. \A p \in Pollers : \A x \in Waiting(p) : x.id \in Events
    BY WaitingIds
  <1>2. \A p \in Pollers : delivered[p] \cup giveUp[p] \subseteq Events
    BY DEF TypeOK
  <1>3. \A e \in Pending : e \in Events /\ status[e] \in Committed
    BY DEF Pending, Committed
  <1>4. \A e \in Events : status[e] \in Committed => status'[e] \in Committed
    BY Onward
  <1>5. ASSUME NEW p \in Pollers, NEW x \in Waiting(p)' PROVE status'[x.id] \in Committed
    BY <1>1, <1>3, <1>4, <1>5, InHand DEF HandInv
  <1>6. ASSUME NEW p \in Pollers, NEW e \in delivered'[p] \cup giveUp'[p]
        PROVE  status'[e] \in Committed
    BY <1>1, <1>2, <1>4, <1>6, InHand DEF HandInv
  <1> QED
    BY <1>5, <1>6 DEF HandInv

LEMMA HeardStep == TypeOK /\ SafeInv /\ [Next]_vars => HeardInv'
  <1> SUFFICES ASSUME TypeOK, HandInv, HeardInv, [Next]_vars PROVE HeardInv'
    BY DEF SafeInv
  <1>1. \A p \in Pollers : delivered[p] \subseteq Events
    BY DEF TypeOK
  <1> QED
    BY <1>1, Onward, InHand DEF HeardInv

LEMMA GiveUpStep == TypeOK /\ SafeInv /\ [Next]_vars => GiveUpInv'
  <1> SUFFICES ASSUME TypeOK, SafeInv, [Next]_vars PROVE GiveUpInv'
    OBVIOUS
  <1>1. \A p \in Pollers : \A x \in Waiting(p) : x.id \in Events
    BY WaitingIds
  <1>2. \A p \in Pollers : giveUp[p] \subseteq Events
    BY DEF TypeOK
  <1>3. \A e \in Events : tries[e] = MaxAttempts => tries'[e] = MaxAttempts
    BY Onward DEF SafeInv
  <1>4. ASSUME NEW e \in Events, Exhausted(attempts[e]) PROVE tries[e] = MaxAttempts
    <2>1. attempts[e] \in Nat /\ tries[e] \in 0 .. MaxAttempts
      BY DEF TypeOK
    <2>2. tries[e] = MaxAttempts \/ attempts[e] + Cardinality(Uncounted(e)) <= tries[e]
      BY DEF SafeInv, CountInv
    <2> QED
      BY <1>4, <2>1, <2>2, UncountedIsFinite, OutboxAssumption DEF Exhausted
  <1>5. ASSUME NEW p \in Pollers, NEW x \in Waiting(p)', Exhausted(x.attempts)
        PROVE  tries'[x.id] = MaxAttempts
    <2>1. CASE x \in Waiting(p)
      BY <1>1, <1>3, <1>5, <2>1 DEF SafeInv, GiveUpInv
    <2>2. CASE x.id \in Pending /\ x.attempts = attempts[x.id]
      BY <1>3, <1>4, <1>5, <2>2 DEF Pending
    <2> QED
      BY <2>1, <2>2, InHand DEF SafeInv
  <1>6. ASSUME NEW p \in Pollers, NEW e \in giveUp'[p] PROVE tries'[e] = MaxAttempts
    <2>1. tries[e] = MaxAttempts /\ e \in Events
      BY <1>1, <1>2, <1>6, InHand DEF SafeInv, GiveUpInv
    <2> QED
      BY <1>3, <2>1
  <1> QED
    BY <1>5, <1>6 DEF GiveUpInv

\* The attempts of one event: what a step adds to them it takes from the uncounted, and
\* what it adds to those it adds to the dispatches.
LEMMA CountStep == TypeOK /\ SafeInv /\ [Next]_vars => CountInv'
  <1> SUFFICES ASSUME TypeOK, SafeInv, [Next]_vars, NEW e \in Events
               PROVE  (tries[e] = MaxAttempts \/ attempts[e] + Cardinality(Uncounted(e)) <= tries[e])'
    BY DEF CountInv
  <1> DEFINE Goal ==
        tries'[e] = MaxAttempts \/ attempts'[e] + Cardinality(Uncounted(e)') <= tries'[e]
  <1>1. /\ tries[e] = MaxAttempts \/ attempts[e] + Cardinality(Uncounted(e)) <= tries[e]
        /\ attempts[e] \in Nat /\ tries[e] \in 0 .. MaxAttempts
        /\ IsFiniteSet(Uncounted(e)) /\ Cardinality(Uncounted(e)) \in Nat
    BY UncountedIsFinite DEF SafeInv, CountInv, TypeOK
  <1>2. tries[e] = MaxAttempts => tries'[e] = MaxAttempts
    BY Onward DEF SafeInv
  <1>3. CASE UNCHANGED <<attempts, retry, tries>>
    BY <1>1, <1>3 DEF Uncounted
  <1>4. ASSUME NEW p \in Pollers, Dispatch(p) PROVE Goal
    <2> DEFINE d == Head(queue[p]).id
    <2>1. d \in Events
      BY <1>4, HeadTail DEF Dispatch, TypeOK, Snap
    <2>2. /\ tries' = [tries EXCEPT ![d] = IF @ < MaxAttempts THEN @ + 1 ELSE @]
          /\ retry' = retry \/ retry' = [retry EXCEPT ![p] = @ \cup {d}]
          /\ attempts' = attempts
      BY <1>4 DEF Dispatch, outbox
    <2> HIDE DEF d
    <2>3. CASE e # d
      <3>1. tries'[e] = tries[e]
        BY <2>1, <2>2, <2>3 DEF TypeOK
      <3>2. \A q \in Pollers : e \in retry'[q] <=> e \in retry[q]
        <4>1. CASE retry' = retry
          BY <4>1
        <4>2. CASE retry' = [retry EXCEPT ![p] = @ \cup {d}]
          BY <2>3, <4>2 DEF TypeOK
        <4> QED
          BY <2>2, <4>1, <4>2
      <3>3. Uncounted(e)' = Uncounted(e)
        BY <3>2 DEF Uncounted
      <3> QED
        BY <1>1, <2>2, <3>1, <3>3
    <2>4. CASE e = d
      <3>1. tries'[e] = MaxAttempts \/ tries'[e] = tries[e] + 1
        <4>1. tries'[d] = IF tries[d] < MaxAttempts THEN tries[d] + 1 ELSE tries[d]
          BY <2>1, <2>2 DEF TypeOK
        <4>2. tries[d] \in 0 .. MaxAttempts
          BY <1>1, <2>4
        <4> QED
          BY <2>4, <4>1, <4>2, OutboxAssumption
      <3>2. \A q \in Pollers : e \in retry'[q] => e \in retry[q] \/ q = p
        BY <2>2, <2>4 DEF TypeOK
      <3>3. Uncounted(e)' \subseteq Uncounted(e) \cup {p}
        BY <3>2 DEF Uncounted
      <3>5. Cardinality(Uncounted(e)') \in Nat /\ Cardinality(Uncounted(e)') <= Cardinality(Uncounted(e)) + 1
        BY <1>1, <3>3, OneMore
      <3> QED
        BY <1>1, <1>2, <2>2, <3>1, <3>5
    <2> QED
      BY <2>3, <2>4
  <1>5. ASSUME NEW p \in Pollers, Mark(p) PROVE Goal
    <2>1. /\ tries' = tries /\ attempts'[e] = Counted(p, e)
          /\ retry'[p] = {} /\ \A q \in Pollers \ {p} : retry'[q] = retry[q]
      BY <1>5 DEF Mark, EndPoll, world, TypeOK
    <2>2. Uncounted(e)' = Uncounted(e) \ {p}
      BY <2>1 DEF Uncounted
    <2>3. CASE e \in giveUp[p]
      BY <1>2, <2>3 DEF SafeInv, GiveUpInv
    <2>4. CASE e \in retry[p] /\ e \notin giveUp[p]
      <3>1. p \in Uncounted(e)
        BY <2>4 DEF Uncounted
      <3>2. Cardinality(Uncounted(e)') = Cardinality(Uncounted(e)) - 1
        BY <1>1, <2>2, <3>1, FS_RemoveElement
      <3> QED
        BY <1>1, <2>1, <3>2 DEF Counted
    <2>5. CASE e \notin retry[p] \cup giveUp[p]
      <3>1. Uncounted(e)' = Uncounted(e)
        BY <2>2, <2>5 DEF Uncounted
      <3> QED
        BY <1>1, <2>1, <2>5, <3>1 DEF Counted
    <2> QED
      BY <2>3, <2>4, <2>5
  <1>6. ASSUME NEW p \in Pollers, Crash(p) PROVE Goal
    <2>1. /\ tries' = tries /\ attempts' = attempts
          /\ \A q \in Pollers : retry'[q] \subseteq retry[q]
      BY <1>6 DEF Crash, EndPoll, world, outbox, TypeOK
    <2>2. Uncounted(e)' \subseteq Uncounted(e)
      BY <2>1 DEF Uncounted
    <2>3. Cardinality(Uncounted(e)') \in Nat /\ Cardinality(Uncounted(e)') <= Cardinality(Uncounted(e))
      BY <1>1, <2>2, FS_Subset, FS_CardinalityType
    <2> QED
      BY <1>1, <2>1, <2>3
  <1>7. \A p \in Pollers :
            Read(p) \/ Abandon(p) \/ Cleanup(p) => UNCHANGED <<attempts, retry, tries>>
    BY DEF Read, Abandon, Cleanup, outbox, world, poller
  <1>8. \A f \in Events :
            EmitPersistent(f) \/ EndTransaction(f) => UNCHANGED <<attempts, retry, tries>>
    BY DEF EmitPersistent, EndTransaction, poller, world
  <1>9. UNCHANGED vars => UNCHANGED <<attempts, retry, tries>>
    BY DEF vars, outbox, poller, world
  <1>10. Goal
    BY <1>3, <1>4, <1>5, <1>6, <1>7, <1>8, <1>9 DEF Next, Poll
  <1> QED
    BY <1>10

\* Types and hands together are inductive.
LEMMA Safe == Spec => [](TypeOK /\ SafeInv)
  <1>1. TypeOK /\ SafeInv /\ [Next]_vars => (TypeOK /\ SafeInv)'
    BY TypeStep, HandStep, HeardStep, CountStep, GiveUpStep DEF SafeInv
  <1> QED
    BY <1>1, TypeInit, SafeInit, PTL DEF Spec

-----------------------------------------------------------------------------
(* The refinement.                                                         *)

LEMMA PromiseInit == Init => Promise!Init
  BY DEF Init, Promise!Init, Phase, Settled, Events, Promise!Events

\* The phase of an entry, from its status.
LEMMA PhaseOf ==
    /\ DOMAIN Phase = Events /\ DOMAIN Phase' = Events
    /\ \A e \in Events : /\ Phase[e] = IF status[e] \in Settled THEN "settled" ELSE status[e]
                         /\ Phase'[e] = IF status'[e] \in Settled THEN "settled" ELSE status'[e]
    /\ Phase = [e \in Events |-> Phase[e]] /\ Phase' = [e \in Events |-> Phase'[e]]
  BY DEF Phase

\* Every step of the outbox is one of the promise, or none.
LEMMA PromiseStep ==
    ASSUME TypeOK, SafeInv, [Next]_vars
    PROVE  [Promise!Next]_Promise!vars
  <1> USE DEF Settled
  <1> DEFINE Goal == Promise!Next \/ UNCHANGED Promise!vars
  <1>1. UNCHANGED <<status, handled, tries>> => UNCHANGED Promise!vars
    BY DEF Promise!vars, Phase
  <1>2. ASSUME NEW e \in Events, EmitPersistent(e) PROVE Promise!Emit(e)
    <2>1. /\ status[e] = "none" /\ status' = [status EXCEPT ![e] = "open"]
          /\ handled' = handled /\ tries' = tries
      BY <1>2 DEF EmitPersistent, world
    <2>2. Phase' = [Phase EXCEPT ![e] = "open"]
      BY <2>1, PhaseOf DEF TypeOK
    <2> QED
      BY <2>1, <2>2, PhaseOf DEF Promise!Emit
  <1>3. ASSUME NEW e \in Events, EndTransaction(e) PROVE Promise!Commit(e) \/ Promise!Abort(e)
    <2>1. PICK outcome \in {"pending", "aborted"} : status' = [status EXCEPT ![e] = outcome]
      BY <1>3 DEF EndTransaction
    <2>2. status[e] = "open" /\ handled' = handled /\ tries' = tries
      BY <1>3 DEF EndTransaction, world
    <2>3. Phase' = [Phase EXCEPT ![e] = outcome]
      BY <2>1, PhaseOf DEF TypeOK
    <2> QED
      BY <2>1, <2>2, <2>3, PhaseOf DEF Promise!Commit, Promise!Abort
  <1>4. ASSUME NEW p \in Pollers, Dispatch(p) PROVE \E e \in Events : Promise!Hand(e)
    <2> DEFINE d == Head(queue[p]).id
    <2>1. Head(queue[p]) \in Waiting(p)
      <3>1. queue[p] # <<>> /\ queue[p] \in Seq(Snap)
        BY <1>4 DEF Dispatch, TypeOK
      <3> QED
        BY <3>1, HeadTail DEF Waiting
    <2>2. d \in Events /\ status[d] \in Committed
      BY <2>1, WaitingIds DEF SafeInv, HandInv
    <2>3. PICK ok \in SUBSET Handlers, late \in SUBSET Handlers :
              /\ handled' = [handled EXCEPT ![d] = @ \cup ok \cup late]
              /\ tries' = [tries EXCEPT ![d] = IF @ < MaxAttempts THEN @ + 1 ELSE @]
      BY <1>4 DEF Dispatch
    <2>4. Phase' = Phase
      BY <1>4 DEF Dispatch, outbox, Phase
    <2> HIDE DEF d
    <2>5. handled' = [handled EXCEPT ![d] = @ \cup (ok \cup late)]
      BY <2>3
    <2>6. Phase[d] \in {"pending", "settled"}
      BY <2>2, PhaseOf DEF Committed
    <2>7. Promise!Hand(d)
      BY <2>3, <2>4, <2>5, <2>6 DEF Promise!Hand
    <2> QED
      BY <2>2, <2>7
  <1>5. ASSUME NEW p \in Pollers, Mark(p) PROVE Goal
    <2>1. /\ handled' = handled /\ tries' = tries
          /\ \A e \in Events : status'[e] = Marked(p, e)
      BY <1>5 DEF Mark, world
    <2> DEFINE done == {e \in Events : Phase[e] = "pending" /\ Phase'[e] = "settled"}
    <2>2. \A e \in giveUp[p] \cup delivered[p] : status[e] \in Committed
      BY DEF SafeInv, HandInv
    <2>3. \A e \in Events : IF e \in done THEN Phase'[e] = "settled" ELSE Phase'[e] = Phase[e]
      BY <2>1, <2>2, PhaseOf DEF Marked, Committed
    <2>4. Phase' = [e \in Events |-> IF e \in done THEN "settled" ELSE Phase[e]]
      <3> HIDE DEF done
      <3> QED
        BY <2>3, PhaseOf
    <2>5. ASSUME NEW e \in done PROVE handled[e] = Handlers \/ tries[e] = MaxAttempts
      <3>1. e \in giveUp[p] \cup delivered[p]
        BY <2>1, <2>5, PhaseOf DEF Marked
      <3> QED
        BY <3>1 DEF SafeInv, HeardInv, GiveUpInv
    <2>6. CASE done = {}
      <3>1. Phase' = Phase
        <4> HIDE DEF done
        <4> QED
          BY <2>4, <2>6, PhaseOf
      <3> QED
        BY <2>1, <3>1 DEF Promise!vars
    <2>7. CASE done # {}
      <3>1. done \in SUBSET {e \in Events : Phase[e] = "pending" /\ Promise!Done(e)}
        BY <2>5 DEF Promise!Done
      <3> HIDE DEF done
      <3>2. Promise!Settle
        BY <2>1, <2>4, <2>7, <3>1 DEF Promise!Settle, Promise!Events, Events
      <3> QED
        BY <3>2 DEF Promise!Next
    <2> QED
      BY <2>6, <2>7
  <1>6. ASSUME NEW p \in Pollers, Cleanup(p) PROVE UNCHANGED Promise!vars
    <2>1. PICK e \in Events : status[e] \in Prunable /\ status' = [status EXCEPT ![e] = "deleted"]
      BY <1>6 DEF Cleanup
    <2>2. \A f \in Events : Phase'[f] = Phase[f]
      BY <2>1, PhaseOf DEF TypeOK, Prunable
    <2>3. Phase' = Phase
      BY <2>2, PhaseOf
    <2> QED
      BY <1>6, <2>3 DEF Cleanup, world, Promise!vars
  <1>7. \A p \in Pollers : Read(p) \/ Abandon(p) \/ Crash(p) => UNCHANGED <<status, handled, tries>>
    BY DEF Read, Abandon, Crash, outbox, world
  <1>8. UNCHANGED vars => UNCHANGED <<status, handled, tries>>
    BY DEF vars, outbox, world
  <1>9. Promise!Events = Events
    BY DEF Events, Promise!Events
  <1>10. Goal
    BY <1>1, <1>2, <1>3, <1>4, <1>5, <1>6, <1>7, <1>8, <1>9 DEF Next, Poll, Promise!Next
  <1> QED
    BY <1>10

\* However many replicas poll, the outbox does what Delivery promises: nothing is
\* dispatched before its transaction commits, and a committed event is settled only when
\* every handler has heard of it or after max_attempts dispatches.
THEOREM Implements == Spec => AtLeastOnce
  <1>1. TypeOK /\ SafeInv /\ [Next]_vars => [Promise!Next]_Promise!vars
    BY PromiseStep
  <1> QED
    BY <1>1, PromiseInit, Safe, PTL DEF Spec, AtLeastOnce, Promise!Spec

-----------------------------------------------------------------------------
(* What follows from the promise, by steps of Delivery alone.              *)

PromiseInv == Promise!TypeOK /\ Promise!SettledIsDone /\ Promise!OnlyCommitted

LEMMA PromiseInvInit == Promise!Init => PromiseInv
  <1> SUFFICES ASSUME Promise!Init PROVE PromiseInv
    OBVIOUS
  <1>1. Promise!TypeOK
    BY OutboxAssumption DEF Promise!Init, Promise!TypeOK
  <1>2. Promise!SettledIsDone /\ Promise!OnlyCommitted
    BY DEF Promise!Init, Promise!SettledIsDone, Promise!OnlyCommitted
  <1> QED
    BY <1>1, <1>2 DEF PromiseInv

\* Attempts and answers only add up, so what was done stays done.
LEMMA PromiseInvStep == PromiseInv /\ [Promise!Next]_Promise!vars => PromiseInv'
  <1> SUFFICES ASSUME PromiseInv, [Promise!Next]_Promise!vars PROVE PromiseInv'
    OBVIOUS
  <1> USE DEF PromiseInv, Promise!TypeOK
  <1>1. ASSUME NEW e \in Promise!Events,
               Promise!Emit(e) \/ Promise!Commit(e) \/ Promise!Abort(e)
        PROVE  PromiseInv'
    <2>1. /\ handled' = handled /\ tries' = tries
          /\ \A f \in Promise!Events : f # e => Phase'[f] = Phase[f]
          /\ Phase[e] \in {"none", "open"} /\ Phase'[e] \in {"open", "pending", "aborted"}
          /\ Promise!TypeOK'
      BY <1>1 DEF Promise!Emit, Promise!Commit, Promise!Abort
    <2>2. Promise!SettledIsDone'
      BY <2>1 DEF Promise!SettledIsDone, Promise!Done
    <2>3. Promise!OnlyCommitted'
      BY <2>1 DEF Promise!OnlyCommitted
    <2> QED
      BY <2>1, <2>2, <2>3
  <1>2. ASSUME NEW e \in Promise!Events, Promise!Hand(e)
        PROVE  PromiseInv'
    <2>1. PICK some \in SUBSET Handlers : handled' = [handled EXCEPT ![e] = @ \cup some]
      BY <1>2 DEF Promise!Hand
    <2>2. /\ Phase' = Phase /\ Phase[e] \in {"pending", "settled"}
          /\ tries' = [tries EXCEPT ![e] = IF @ < MaxAttempts THEN @ + 1 ELSE @]
      BY <1>2 DEF Promise!Hand
    <2>3. Promise!TypeOK'
      <3>1. handled' \in [Promise!Events -> SUBSET Handlers]
        BY <2>1
      <3>2. tries' \in [Promise!Events -> 0 .. MaxAttempts]
        BY <2>2, OutboxAssumption
      <3> QED
        BY <2>2, <3>1, <3>2
    <2>4. ASSUME NEW f \in Promise!Events, Promise!Done(f)
          PROVE  Promise!Done(f)'
      <3>1. CASE handled[f] = Handlers
        BY <2>1, <3>1 DEF Promise!Done
      <3>2. CASE tries[f] = MaxAttempts
        BY <2>2, <3>2, OutboxAssumption DEF Promise!Done
      <3> QED
        BY <2>4, <3>1, <3>2 DEF Promise!Done
    <2>5. Promise!SettledIsDone'
      BY <2>2, <2>4 DEF Promise!SettledIsDone
    <2>6. Promise!OnlyCommitted'
      BY <2>1, <2>2 DEF Promise!OnlyCommitted
    <2> QED
      BY <2>3, <2>5, <2>6
  <1>3. CASE Promise!Settle
    <2>1. PICK done \in SUBSET {e \in Promise!Events : Phase[e] = "pending" /\ Promise!Done(e)} :
              Phase' = [e \in Promise!Events |-> IF e \in done THEN "settled" ELSE Phase[e]]
      BY <1>3 DEF Promise!Settle
    <2>2. handled' = handled /\ tries' = tries
      BY <1>3 DEF Promise!Settle
    <2>3. Promise!TypeOK'
      BY <2>1, <2>2
    <2>4. Promise!SettledIsDone'
      BY <2>1, <2>2 DEF Promise!SettledIsDone, Promise!Done
    <2>5. Promise!OnlyCommitted'
      BY <2>1, <2>2 DEF Promise!OnlyCommitted
    <2> QED
      BY <2>3, <2>4, <2>5
  <1>4. CASE UNCHANGED Promise!vars
    BY <1>4 DEF Promise!vars, Promise!SettledIsDone, Promise!Done, Promise!OnlyCommitted
  <1> QED
    BY <1>1, <1>2, <1>3, <1>4 DEF Promise!Next

\* Hence of the outbox: an event that is delivered, failed or deleted was dealt with by
\* every handler or dispatched max_attempts times, and nobody was handed one whose
\* transaction has not committed.
THEOREM PromiseKept == Spec => [](Promise!SettledIsDone /\ Promise!OnlyCommitted)
  <1>1. PromiseInv => Promise!SettledIsDone /\ Promise!OnlyCommitted
    BY DEF PromiseInv
  <1> QED
    BY <1>1, Implements, PromiseInvInit, PromiseInvStep, PTL DEF AtLeastOnce, Promise!Spec

-----------------------------------------------------------------------------
(* A replica on its own.                                                   *)

\* p is the only replica that polls.
Alone(p) == \A q \in replicas : q = p

\* Only replicas poll, nobody holds anything between two polls, and what a lone
\* replica holds to dispatch or to give up is still pending.
AloneInv ==
    /\ \A p \in Pollers : polling[p] => p \in replicas
    /\ \A p \in Pollers : ~polling[p] => queue[p] = <<>> /\ giveUp[p] = {}
    /\ \A p \in Pollers : Alone(p) =>
           /\ \A x \in Waiting(p) : x.id \in Pending
           /\ giveUp[p] \subseteq Pending

LEMMA AloneInit == Init => AloneInv
  BY DEF Init, AloneInv, Waiting

\* An entry leaves "pending" only when it is marked.
LEMMA PendingStays ==
    ASSUME TypeOK, [Next]_vars, NEW e \in Pending
    PROVE  e \in Pending' \/ \E p \in Pollers : Mark(p)
  <1>1. e \in Events /\ status[e] = "pending"
    BY DEF Pending
  <1>2. CASE UNCHANGED status
    BY <1>1, <1>2 DEF Pending
  <1>3. CASE \E f \in Events : EmitPersistent(f) \/ EndTransaction(f)
    BY <1>1, <1>3 DEF EmitPersistent, EndTransaction, TypeOK, Pending
  <1>4. CASE \E p \in Pollers : Cleanup(p)
    BY <1>1, <1>4 DEF Cleanup, TypeOK, Pending, Prunable
  <1>5. \A p \in Pollers : Read(p) \/ Abandon(p) \/ Dispatch(p) \/ Crash(p) => UNCHANGED status
    BY DEF Read, Abandon, Dispatch, Crash, outbox
  <1>6. UNCHANGED vars => UNCHANGED status
    BY DEF vars, outbox
  <1> QED
    BY <1>2, <1>3, <1>4, <1>5, <1>6 DEF Next, Poll

LEMMA PollStep ==
    ASSUME TypeOK, AloneInv, [Next]_vars, NEW p \in Pollers
    PROVE  /\ replicas' = replicas
           /\ polling'[p] => p \in replicas
           /\ ~polling'[p] => queue'[p] = <<>> /\ giveUp'[p] = {}
  <1> DEFINE Goal == /\ replicas' = replicas
                     /\ polling'[p] => p \in replicas
                     /\ ~polling'[p] => queue'[p] = <<>> /\ giveUp'[p] = {}
  <1>1. CASE UNCHANGED <<replicas, poller>>
    BY <1>1 DEF AloneInv, poller
  <1>2. ASSUME NEW q \in Pollers, Read(q) PROVE Goal
    <2>1. /\ replicas' = replicas /\ giveUp' = giveUp /\ q \in replicas
          /\ polling' = [polling EXCEPT ![q] = TRUE]
          /\ p # q => queue'[p] = queue[p]
      BY <1>2, ReadTakesPending DEF Read
    <2> QED
      BY <2>1 DEF AloneInv, TypeOK
  <1>3. ASSUME NEW q \in Pollers, Abandon(q) \/ Dispatch(q) PROVE Goal
    <2>1. /\ replicas' = replicas /\ polling' = polling /\ queue[q] # <<>>
          /\ p # q => queue'[p] = queue[p] /\ giveUp'[p] = giveUp[p]
      BY <1>3 DEF Abandon, Dispatch, TypeOK
    <2> QED
      BY <2>1 DEF AloneInv
  <1>4. ASSUME NEW q \in Pollers, EndPoll(q), replicas' = replicas PROVE Goal
    BY <1>4 DEF EndPoll, AloneInv, TypeOK
  <1>5. \A q \in Pollers : Mark(q) \/ Crash(q) => EndPoll(q) /\ replicas' = replicas
    BY DEF Mark, Crash
  <1>6. \A q \in Pollers : Cleanup(q) => UNCHANGED <<replicas, poller>>
    BY DEF Cleanup
  <1>7. \A e \in Events : EmitPersistent(e) \/ EndTransaction(e) => UNCHANGED <<replicas, poller>>
    BY DEF EmitPersistent, EndTransaction
  <1>8. UNCHANGED vars => UNCHANGED <<replicas, poller>>
    BY DEF vars
  <1>9. Goal
    BY <1>1, <1>2, <1>3, <1>4, <1>5, <1>6, <1>7, <1>8 DEF Next, Poll
  <1> QED
    BY <1>9

LEMMA AloneStep == TypeOK /\ SafeInv /\ AloneInv /\ [Next]_vars => AloneInv'
  <1> SUFFICES ASSUME TypeOK, SafeInv, AloneInv, [Next]_vars PROVE AloneInv'
    OBVIOUS
  <1>1. ASSUME NEW p \in Pollers, Alone(p)'
        PROVE  (\A x \in Waiting(p)' : x.id \in Pending') /\ giveUp'[p] \subseteq Pending'
    <2>1. Alone(p)
      BY <1>1, PollStep DEF Alone
    <2>2. CASE \E q \in Pollers : Mark(q)
      <3>1. PICK q \in Pollers : Mark(q)
        BY <2>2
      <3>2. q = p
        BY <2>1, <3>1 DEF Mark, AloneInv, Alone
      <3>3. queue'[p] = <<>> /\ giveUp'[p] = {}
        BY <3>1, <3>2 DEF Mark, EndPoll, TypeOK
      <3> QED
        BY <3>3 DEF Waiting
    <2>3. CASE \A q \in Pollers : ~Mark(q)
      <3>1. Pending \subseteq Pending'
        BY <2>3, PendingStays
      <3>2. \A x \in Waiting(p) : x.id \in Pending
        BY <2>1 DEF AloneInv
      <3>3. giveUp[p] \subseteq Pending
        BY <2>1 DEF AloneInv
      <3> QED
        BY <3>1, <3>2, <3>3, InHand DEF SafeInv
    <2> QED
      BY <2>2, <2>3
  <1> QED
    BY <1>1, PollStep DEF AloneInv

\* A step of a lone replica fails no delivered entry.
LEMMA LoneStep ==
    ASSUME TypeOK, AloneInv, [Next]_vars, Cardinality(replicas) = 1,
           NEW e \in Events, status[e] = "delivered"
    PROVE  status'[e] # "failed"
  <1>1. PICK r : replicas = {r}
    <2>1. IsFiniteSet(replicas)
      BY OutboxAssumption, FS_Subset DEF TypeOK
    <2> QED
      BY <2>1, FS_Singleton
  <1>2. CASE UNCHANGED status
    BY <1>2
  <1>3. CASE \E f \in Events : EmitPersistent(f) \/ EndTransaction(f)
    BY <1>3 DEF EmitPersistent, EndTransaction, TypeOK
  <1>4. CASE \E p \in Pollers : Cleanup(p)
    BY <1>4 DEF Cleanup, TypeOK
  <1>5. ASSUME NEW p \in Pollers, Mark(p) PROVE status'[e] # "failed"
    <2>1. Alone(p)
      BY <1>1, <1>5 DEF Mark, AloneInv, Alone
    <2>2. e \notin giveUp[p]
      BY <2>1 DEF AloneInv, Pending
    <2> QED
      BY <1>5, <2>2 DEF Mark, Marked
  <1>6. \A p \in Pollers : Read(p) \/ Abandon(p) \/ Dispatch(p) \/ Crash(p) => UNCHANGED status
    BY DEF Read, Abandon, Dispatch, Crash, outbox
  <1>7. UNCHANGED vars => UNCHANGED status
    BY DEF vars, outbox
  <1> QED
    BY <1>2, <1>3, <1>4, <1>5, <1>6, <1>7 DEF Next, Poll

\* A deployment with one poller never reports a delivered entry as failed.
THEOREM LoneDelivery == Spec => DeliveredStays
  <1> DEFINE I == TypeOK /\ SafeInv /\ AloneInv
             A == Cardinality(replicas) = 1 =>
                      \A e \in Events : status[e] = "delivered" => status'[e] # "failed"
  <1>1. Init => I
    BY TypeInit, SafeInit, AloneInit
  <1>2. I /\ [Next]_vars => I'
    BY TypeStep, HandStep, HeardStep, CountStep, GiveUpStep, AloneStep DEF SafeInv
  <1>3. I /\ [Next]_vars => [A]_vars
    BY LoneStep
  <1> QED
    BY <1>1, <1>2, <1>3, PTL DEF Spec, DeliveredStays

-----------------------------------------------------------------------------
(* How often a pending entry is tried.                                     *)

\* The replicas that will count one more attempt at e, or have read it early enough to.
InVain(e) ==
    {p \in replicas : \/ e \in retry[p]
                      \/ \E x \in Waiting(p) : x.id = e /\ ~Exhausted(x.attempts)}

\* While e is not settled, the attempts counted and those under way stay below
\* max_attempts and one for each replica.
OverrunInv ==
    \A e \in Events : status[e] \notin Settled =>
        attempts[e] + Cardinality(InVain(e)) < MaxAttempts + Cardinality(replicas)

\* Some of the replicas.
LEMMA SomeReplicas ==
    ASSUME NEW R \in (SUBSET Pollers) \ {{}}, NEW S \in SUBSET R
    PROVE  /\ IsFiniteSet(S) /\ Cardinality(S) \in Nat
           /\ Cardinality(R) \in Nat \ {0}
           /\ Cardinality(S) <= Cardinality(R)
  <1>1. IsFiniteSet(R) /\ R # {}
    BY OutboxAssumption, FS_Subset
  <1>2. Cardinality(R) \in Nat \ {0}
    BY <1>1, FS_CardinalityType, FS_EmptySet
  <1> QED
    BY <1>1, <1>2, FS_Subset, FS_CardinalityType

LEMMA InVainIsFinite ==
    ASSUME TypeOK, NEW e
    PROVE  /\ IsFiniteSet(InVain(e)) /\ Cardinality(InVain(e)) \in Nat
           /\ Cardinality(replicas) \in Nat \ {0}
           /\ Cardinality(InVain(e)) <= Cardinality(replicas)
  <1>1. InVain(e) \in SUBSET replicas /\ replicas \in (SUBSET Pollers) \ {{}}
    BY DEF InVain, TypeOK
  <1> QED
    BY <1>1, SomeReplicas

LEMMA OverrunInit == Init => OverrunInv
  <1> SUFFICES ASSUME Init, NEW e \in Events
               PROVE  attempts[e] + Cardinality(InVain(e)) < MaxAttempts + Cardinality(replicas)
    BY DEF OverrunInv
  <1>1. InVain(e) = {}
    BY DEF Init, InVain, Waiting
  <1>2. attempts[e] = 0 /\ Cardinality(InVain(e)) = 0
    BY <1>1, FS_EmptySet DEF Init
  <1> QED
    BY <1>2, TypeInit, InVainIsFinite, OutboxAssumption

\* An entry is put aside for another try only when it was dispatched in vain.
LEMMA RetryComes ==
    ASSUME TypeOK, [Next]_vars, NEW p \in Pollers, NEW e \in retry'[p]
    PROVE  e \in retry[p] \/ \E x \in Waiting(p) : x.id = e /\ ~Exhausted(x.attempts)
  <1> DEFINE Goal == e \in retry[p] \/ \E x \in Waiting(p) : x.id = e /\ ~Exhausted(x.attempts)
  <1>1. CASE retry' = retry
    BY <1>1
  <1>2. ASSUME NEW q \in Pollers, Dispatch(q) PROVE Goal
    <2> DEFINE d == Head(queue[q]).id
    <2>1. /\ retry' = retry \/ retry' = [retry EXCEPT ![q] = @ \cup {d}]
          /\ queue[q] # <<>> /\ queue[q] \in Seq(Snap) /\ ~Exhausted(Head(queue[q]).attempts)
      BY <1>2 DEF Dispatch, TypeOK
    <2>2. Head(queue[q]) \in Waiting(q)
      BY <2>1, HeadTail DEF Waiting
    <2>3. \E x \in Waiting(q) : x.id = d /\ ~Exhausted(x.attempts)
      BY <2>1, <2>2
    <2> HIDE DEF d
    <2>4. e \in retry[p] \/ (p = q /\ e = d)
      BY <2>1 DEF TypeOK
    <2> QED
      BY <2>3, <2>4
  <1>3. ASSUME NEW q \in Pollers, EndPoll(q) PROVE Goal
    BY <1>3 DEF EndPoll, TypeOK
  <1>4. \A q \in Pollers : Read(q) \/ Abandon(q) \/ Cleanup(q) => retry' = retry
    BY DEF Read, Abandon, Cleanup, poller
  <1>5. \A f \in Events : EmitPersistent(f) \/ EndTransaction(f) => retry' = retry
    BY DEF EmitPersistent, EndTransaction, poller
  <1>6. \A q \in Pollers : Mark(q) \/ Crash(q) => EndPoll(q)
    BY DEF Mark, Crash
  <1>7. UNCHANGED vars => retry' = retry
    BY DEF vars, poller
  <1> QED
    BY <1>1, <1>2, <1>3, <1>4, <1>5, <1>6, <1>7 DEF Next, Poll

\* A replica joins those that will count an attempt only by reading an entry that is
\* pending and not exhausted.
LEMMA JoinsEarly ==
    ASSUME TypeOK, HandInv, AloneInv, [Next]_vars, NEW e
    PROVE  InVain(e)' \subseteq InVain(e) \/ ~Exhausted(attempts[e])
  <1> SUFFICES ASSUME Exhausted(attempts[e]), NEW p \in InVain(e)'
               PROVE  p \in InVain(e)
    OBVIOUS
  <1>1. p \in Pollers /\ p \in replicas
    BY PollStep DEF InVain, TypeOK
  <1>2. CASE e \in retry'[p]
    BY <1>1, <1>2, RetryComes DEF InVain
  <1>3. ASSUME NEW x \in Waiting(p)', x.id = e, ~Exhausted(x.attempts)
        PROVE  p \in InVain(e)
    BY <1>1, <1>3, InHand DEF InVain
  <1> QED
    BY <1>2, <1>3 DEF InVain

\* Only marking counts, and only for the poller that marks.
LEMMA Counting ==
    ASSUME TypeOK, [Next]_vars, NEW e \in Events
    PROVE  \/ attempts'[e] = attempts[e] /\ (status'[e] \notin Settled => status[e] \notin Settled)
           \/ \E p \in Pollers : Mark(p)
  <1> DEFINE Goal ==
          attempts'[e] = attempts[e] /\ (status'[e] \notin Settled => status[e] \notin Settled)
  <1>1. ASSUME NEW f \in Events, EmitPersistent(f) \/ EndTransaction(f) PROVE Goal
    BY <1>1 DEF EmitPersistent, EndTransaction, TypeOK, Settled
  <1>2. ASSUME NEW p \in Pollers, Cleanup(p) PROVE Goal
    BY <1>2 DEF Cleanup, TypeOK, Settled, Prunable
  <1>3. ASSUME NEW p \in Pollers, Read(p) \/ Abandon(p) \/ Dispatch(p) \/ Crash(p)
        PROVE  Goal
    BY <1>3 DEF Read, Abandon, Dispatch, Crash, outbox
  <1>4. UNCHANGED vars => Goal
    BY DEF vars, outbox
  <1> QED
    BY <1>1, <1>2, <1>3, <1>4 DEF Next, Poll

\* What marking does to an entry that is still pending after it.
LEMMA Marking ==
    ASSUME TypeOK, NEW p \in Pollers, Mark(p), NEW e \in Events, status'[e] \notin Settled
    PROVE  /\ status'[e] = status[e]
           /\ e \notin delivered[p] \cup giveUp[p]
           /\ attempts'[e] = IF e \in retry[p] THEN attempts[e] + 1 ELSE attempts[e]
  <1>1. status'[e] = Marked(p, e) /\ attempts'[e] = Counted(p, e)
    BY DEF Mark
  <1>2. status[e] # "deleted" /\ e \notin giveUp[p] /\ e \notin delivered[p]
    BY <1>1 DEF Marked, Settled
  <1> QED
    BY <1>1, <1>2 DEF Marked, Counted

LEMMA OverrunStep == TypeOK /\ HandInv /\ AloneInv /\ OverrunInv /\ [Next]_vars => OverrunInv'
  <1> SUFFICES ASSUME TypeOK, HandInv, AloneInv, OverrunInv, [Next]_vars,
                      NEW e \in Events, status'[e] \notin Settled
               PROVE  attempts'[e] + Cardinality(InVain(e)')
                          < MaxAttempts + Cardinality(replicas')
    BY DEF OverrunInv
  <1>1. replicas' = replicas
    <2>1. \E p \in Pollers : TRUE
      BY DEF TypeOK
    <2> QED
      BY <2>1, PollStep
  <1>2. /\ attempts[e] \in Nat /\ MaxAttempts \in Nat
        /\ Cardinality(replicas) \in Nat \ {0}
        /\ IsFiniteSet(InVain(e)) /\ Cardinality(InVain(e)) \in Nat
        /\ Cardinality(InVain(e)') \in Nat /\ Cardinality(InVain(e)') <= Cardinality(replicas)
    <2>1. InVain(e)' \in SUBSET replicas /\ replicas \in (SUBSET Pollers) \ {{}}
      BY <1>1 DEF InVain, TypeOK
    <2>2. Cardinality(InVain(e)') \in Nat /\ Cardinality(InVain(e)') <= Cardinality(replicas)
      BY <2>1, SomeReplicas
    <2> QED
      BY <1>1, <2>2, InVainIsFinite, OutboxAssumption DEF TypeOK
  <1>3. status[e] \notin Settled =>
            attempts[e] + Cardinality(InVain(e)) < MaxAttempts + Cardinality(replicas)
    BY DEF OverrunInv
  <1>4. ASSUME NEW p \in Pollers, Mark(p)
        PROVE  attempts'[e] + Cardinality(InVain(e)') < MaxAttempts + Cardinality(replicas)
    <2>1. /\ status[e] \notin Settled
          /\ attempts'[e] = IF e \in retry[p] THEN attempts[e] + 1 ELSE attempts[e]
      BY <1>4, Marking
    <2>2. p \in replicas
      BY <1>4 DEF Mark, AloneInv
    <2>3. InVain(e)' = InVain(e) \ {p}
      <3>1. /\ queue'[p] = <<>> /\ retry'[p] = {}
            /\ \A q \in Pollers \ {p} : queue'[q] = queue[q] /\ retry'[q] = retry[q]
        BY <1>4 DEF Mark, EndPoll, TypeOK
      <3>2. replicas \subseteq Pollers
        BY DEF TypeOK
      <3>3. Waiting(p)' = {} /\ \A q \in Pollers \ {p} : Waiting(q)' = Waiting(q)
        BY <3>1 DEF Waiting
      <3>4. p \notin InVain(e)'
        BY <3>1, <3>3 DEF InVain
      <3>5. \A q \in replicas \ {p} : q \in InVain(e)' <=> q \in InVain(e)
        BY <1>1, <3>1, <3>2, <3>3 DEF InVain
      <3>6. InVain(e)' \subseteq replicas /\ InVain(e) \subseteq replicas
        BY <1>1 DEF InVain
      <3> QED
        BY <3>4, <3>5, <3>6
    <2>4. CASE e \in retry[p]
      <3>1. p \in InVain(e)
        BY <2>2, <2>4 DEF InVain
      <3>2. Cardinality(InVain(e) \ {p}) = Cardinality(InVain(e)) - 1
        BY <1>2, <3>1, FS_RemoveElement
      <3> QED
        BY <1>2, <1>3, <2>1, <2>3, <2>4, <3>2
    <2>5. CASE e \notin retry[p]
      <3>1. Cardinality(InVain(e)') <= Cardinality(InVain(e))
        BY <1>2, <2>3, FS_Subset
      <3> QED
        BY <1>2, <1>3, <2>1, <2>5, <3>1
    <2> QED
      BY <2>4, <2>5
  <1>5. ASSUME attempts'[e] = attempts[e], status[e] \notin Settled
        PROVE  attempts'[e] + Cardinality(InVain(e)') < MaxAttempts + Cardinality(replicas)
    <2>1. CASE ~Exhausted(attempts[e])
      BY <1>2, <1>5, <2>1 DEF Exhausted
    <2>2. CASE InVain(e)' \subseteq InVain(e)
      <3>1. Cardinality(InVain(e)') <= Cardinality(InVain(e))
        BY <1>2, <2>2, FS_Subset
      <3> QED
        BY <1>2, <1>3, <1>5, <3>1
    <2> QED
      BY <2>1, <2>2, JoinsEarly
  <1> QED
    BY <1>1, <1>4, <1>5, Counting

\* Everything a deployment of several replicas keeps.
Kept == TypeOK /\ SafeInv /\ AloneInv /\ OverrunInv

LEMMA Keeps == Spec => []Kept
  <1>1. Init => Kept
    BY TypeInit, SafeInit, AloneInit, OverrunInit DEF Kept
  <1>2. Kept /\ [Next]_vars => Kept'
    BY TypeStep, HandStep, HeardStep, CountStep, GiveUpStep, AloneStep, OverrunStep
       DEF Kept, SafeInv
  <1> QED
    BY <1>1, <1>2, PTL DEF Spec

\* What is left of the attempts at a pending entry.
AttemptsLeft(e) ==
    IF status[e] = "pending" THEN MaxAttempts + Cardinality(replicas) - attempts[e] ELSE 0

\* Each poll that took a pending entry and marks what came of it either settles the entry
\* or brings it nearer to its end, and nothing any replica does takes it back: replicas
\* that read it side by side overrun max_attempts by less than one attempt each, and no
\* entry is tried for ever.
BoundedAttempts ==
    [][\A e \in Events : status[e] = "pending" =>
          /\ AttemptsLeft(e) \in Nat \ {0}
          /\ AttemptsLeft(e)' \in 0 .. AttemptsLeft(e)
          /\ \A p \in Pollers : Mark(p) /\ e \in delivered[p] \cup retry[p] \cup giveUp[p] =>
                AttemptsLeft(e)' < AttemptsLeft(e)]_vars

LEMMA LeftStep ==
    ASSUME Kept, Kept', [Next]_vars, NEW e \in Events, status[e] = "pending"
    PROVE  /\ AttemptsLeft(e) \in Nat \ {0}
           /\ AttemptsLeft(e)' \in 0 .. AttemptsLeft(e)
           /\ \A p \in Pollers : Mark(p) /\ e \in delivered[p] \cup retry[p] \cup giveUp[p] =>
                 AttemptsLeft(e)' < AttemptsLeft(e)
  <1> DEFINE R == Cardinality(replicas)
             left == MaxAttempts + R - attempts[e]
  <1>1. /\ TypeOK /\ AloneInv /\ HandInv /\ OverrunInv
        /\ TypeOK' /\ OverrunInv'
    BY DEF Kept, SafeInv
  <1>2. replicas' = replicas
    <2>1. \E p \in Pollers : TRUE
      BY <1>1 DEF TypeOK
    <2> QED
      BY <1>1, <2>1, PollStep
  <1>3. R \in Nat /\ attempts[e] \in Nat /\ attempts'[e] \in Nat /\ MaxAttempts \in Nat
    BY <1>1, InVainIsFinite, OutboxAssumption DEF TypeOK
  <1>4. attempts[e] < MaxAttempts + R
    <2>1. attempts[e] + Cardinality(InVain(e)) < MaxAttempts + R
      BY <1>1 DEF OverrunInv, Settled
    <2>2. Cardinality(InVain(e)) \in Nat
      BY <1>1, InVainIsFinite
    <2> HIDE DEF R
    <2> QED
      BY <1>3, <2>1, <2>2
  <1>5. status'[e] = "pending" => attempts'[e] < MaxAttempts + R
    <2>1. status'[e] = "pending" =>
              attempts'[e] + Cardinality(InVain(e)') < MaxAttempts + R
      BY <1>1, <1>2 DEF OverrunInv, Settled
    <2>2. Cardinality(InVain(e)') \in Nat
      <3>1. InVain(e)' \in SUBSET replicas /\ replicas \in (SUBSET Pollers) \ {{}}
        BY <1>1, <1>2 DEF InVain, TypeOK
      <3> QED
        BY <3>1, SomeReplicas
    <2> HIDE DEF R
    <2> QED
      BY <1>3, <2>1, <2>2
  <1>6. /\ AttemptsLeft(e) = left
        /\ AttemptsLeft(e)' =
              IF status'[e] = "pending" THEN MaxAttempts + R - attempts'[e] ELSE 0
    BY <1>2 DEF AttemptsLeft
  <1>7. status'[e] = "pending" => attempts[e] <= attempts'[e]
    <2>1. CASE attempts'[e] = attempts[e]
      BY <1>3, <2>1
    <2>2. CASE \E p \in Pollers : Mark(p)
      BY <1>1, <1>3, <2>2, Marking DEF Settled
    <2> QED
      BY <1>1, <2>1, <2>2, Counting
  <1>8. ASSUME NEW p \in Pollers, Mark(p), e \in delivered[p] \cup retry[p] \cup giveUp[p],
               status'[e] = "pending"
        PROVE  attempts'[e] = attempts[e] + 1
    BY <1>1, <1>8, Marking DEF Settled
  <1> HIDE DEF R
  <1> QED
    BY <1>3, <1>4, <1>5, <1>6, <1>7, <1>8

\* A committed entry is settled by the time it has been marked max_attempts times and
\* once more for each replica.
THEOREM AttemptsAreBounded == Spec => BoundedAttempts
  <1>1. Kept /\ Kept' /\ [Next]_vars =>
            [\A e \in Events : status[e] = "pending" =>
                /\ AttemptsLeft(e) \in Nat \ {0}
                /\ AttemptsLeft(e)' \in 0 .. AttemptsLeft(e)
                /\ \A p \in Pollers :
                      Mark(p) /\ e \in delivered[p] \cup retry[p] \cup giveUp[p] =>
                          AttemptsLeft(e)' < AttemptsLeft(e)]_vars
    BY LeftStep
  <1> QED
    BY <1>1, Keeps, PTL DEF Spec, BoundedAttempts
=============================================================================
