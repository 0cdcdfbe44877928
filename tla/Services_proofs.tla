--------------------------- MODULE Services_proofs --------------------------
(***************************************************************************)
(* Proofs about the sum of the services: a behaviour of the sum is one of  *)
(* each service, so what is proved of a service alone holds in the sum.    *)
(* The proofs about RevocationCache, Seats and RateLimit are in            *)
(* Access_proofs; those about the other services are here, a section each. *)
(***************************************************************************)
EXTENDS Access_proofs, SequenceTheorems

-----------------------------------------------------------------------------
(* PlanReview: types.                                                      *)

Approval == [user : Users, rejected : {FALSE}]
Rejection == [user : Users, rejected : {TRUE}]

Approving == [pc : {"approve"}, entry : Approval, read : Seq(Review!Entry)]
Rejecting == [pc : {"reject"}, entry : Rejection, read : Seq(Review!Entry)]
Written == [pc : {"wrote"}, entry : Review!Entry, list : Seq(Review!Entry), form : {"text", "array"}]
Saved == [pc : {"saved"}, entry : Approval]
ReviewLocals == {Review!Idle} \cup Approving \cup Rejecting \cup Written \cup Saved

\* TypeOK, with the shape of a request's locals.
ReviewTypeInv ==
    /\ dialect \in {"postgresql", "sqlite"}
    /\ approvals \in Seq(Review!Entry)
    /\ trail \subseteq Review!Entry
    /\ review \in [Reviews -> ReviewLocals]
    /\ applied \subseteq [reviewed : BOOLEAN, approved : BOOLEAN]

\* What the place of a request says of its locals.
LEMMA LocalsByPlace ==
    ASSUME NEW v \in ReviewLocals
    PROVE  /\ v.pc = "idle" => v = Review!Idle
           /\ v.pc = "approve" => v \in Approving
           /\ v.pc = "reject" => v \in Rejecting
           /\ v.pc = "wrote" => v \in Written
           /\ v.pc = "saved" => v \in Saved
           /\ v.pc # "idle" => v.entry \in Review!Entry
<1>1. CASE v = Review!Idle
  BY <1>1 DEF Review!Idle
<1>2. CASE v \in Approving
  BY <1>2 DEF Approving, Approval, Review!Entry
<1>3. CASE v \in Rejecting
  BY <1>3 DEF Rejecting, Rejection, Review!Entry
<1>4. CASE v \in Written
  BY <1>4 DEF Written
<1>5. CASE v \in Saved
  BY <1>5 DEF Saved, Approval, Review!Entry
<1> QED
  BY <1>1, <1>2, <1>3, <1>4, <1>5 DEF ReviewLocals

LEMMA TypeInvGivesTypeOK == ReviewTypeInv => Review!TypeOK
<1> SUFFICES ASSUME ReviewTypeInv PROVE Review!TypeOK
  OBVIOUS
<1>1. ASSUME NEW r \in Reviews, Review!Busy(r) PROVE review[r].entry \in Review!Entry
  BY <1>1, LocalsByPlace DEF ReviewTypeInv, Review!Busy
<1> QED
  BY <1>1 DEF ReviewTypeInv, Review!TypeOK

\* Every action of a request gives one request new locals.
LEMMA OneRequest ==
    ASSUME ReviewTypeInv, NEW r \in Reviews, NEW v \in ReviewLocals,
           review' = [review EXCEPT ![r] = v]
    PROVE  /\ review' \in [Reviews -> ReviewLocals]
           /\ review'[r] = v
           /\ \A q \in Reviews \ {r} : review'[q] = review[q]
  BY DEF ReviewTypeInv

LEMMA ReviewTypeInit == Review!Init => ReviewTypeInv
<1> SUFFICES ASSUME Review!Init PROVE ReviewTypeInv
  OBVIOUS
<1>1. Review!Idle \in ReviewLocals
  BY DEF ReviewLocals
<1> QED
  BY <1>1 DEF Review!Init, ReviewTypeInv

\* What the place of a request says of what it holds.
LEMMA ReadList ==
    ASSUME ReviewTypeInv, NEW r \in Reviews, review[r].pc \in {"approve", "reject"}
    PROVE  /\ review[r].read \in Seq(Review!Entry) /\ review[r].entry \in Review!Entry
           /\ review[r].pc = "approve" => ~review[r].entry.rejected
           /\ review[r].pc = "reject" => review[r].entry.rejected
<1>1. review[r] \in ReviewLocals
  BY DEF ReviewTypeInv
<1>2. CASE review[r].pc = "approve"
  <2>1. review[r] \in Approving
    BY <1>1, <1>2, LocalsByPlace
  <2> QED
    BY <1>2, <2>1 DEF Approving, Approval, Review!Entry
<1>3. CASE review[r].pc = "reject"
  <2>1. review[r] \in Rejecting
    BY <1>1, <1>3, LocalsByPlace
  <2> QED
    BY <1>3, <2>1 DEF Rejecting, Rejection, Review!Entry
<1> QED
  BY <1>2, <1>3

\* The values the actions write.
LEMMA BegunLocals ==
    ASSUME ReviewTypeInv, NEW u \in Users
    PROVE  /\ [pc |-> "approve", entry |-> [user |-> u, rejected |-> FALSE],
               read |-> approvals] \in ReviewLocals
           /\ [pc |-> "reject", entry |-> [user |-> u, rejected |-> TRUE],
               read |-> approvals] \in ReviewLocals
<1>1. [user |-> u, rejected |-> FALSE] \in Approval /\ [user |-> u, rejected |-> TRUE] \in Rejection
  BY DEF Approval, Rejection
<1>2. approvals \in Seq(Review!Entry)
  BY DEF ReviewTypeInv
<1> QED
  BY <1>1, <1>2 DEF ReviewLocals, Approving, Rejecting

LEMMA BegunRequest ==
    ASSUME ReviewTypeInv, NEW r \in Reviews, NEW u \in Users,
           Review!BeginApprove(r, u) \/ Review!BeginReject(r, u)
    PROVE  /\ review' \in [Reviews -> ReviewLocals]
           /\ review'[r].pc \in {"approve", "reject"} /\ review'[r].read = approvals
           /\ review'[r].pc = "approve" => Review!BeginApprove(r, u)
           /\ review'[r].entry.user = u
           /\ \A q \in Reviews \ {r} : review'[q] = review[q]
           /\ UNCHANGED <<dialect, env, approvals, trail, applied>>
<1>1. UNCHANGED <<dialect, env, approvals, trail, applied>>
  BY DEF Review!BeginApprove, Review!BeginReject, Review!config
<1>2. CASE Review!BeginApprove(r, u)
  BY <1>1, <1>2, BegunLocals, OneRequest DEF Review!BeginApprove, Review!Begin
<1>3. CASE Review!BeginReject(r, u)
  BY <1>1, <1>3, BegunLocals, OneRequest DEF Review!BeginReject, Review!Begin
<1> QED
  BY <1>2, <1>3

LEMMA NewLocals ==
    ASSUME ReviewTypeInv, NEW r \in Reviews
    PROVE  /\ Review!Idle \in ReviewLocals
           /\ review[r].pc = "approve" =>
                 [pc |-> "wrote", entry |-> review[r].entry,
                  list |-> Append(approvals, review[r].entry), form |-> "array"] \in ReviewLocals
           /\ review[r].pc = "approve" =>
                 [pc |-> "saved", entry |-> review[r].entry] \in ReviewLocals
           /\ review[r].pc = "reject" =>
                 [pc |-> "wrote", entry |-> review[r].entry,
                  list |-> Append(review[r].read, review[r].entry), form |-> "text"] \in ReviewLocals
<1>1. ASSUME review[r].pc = "approve"
      PROVE  /\ [pc |-> "wrote", entry |-> review[r].entry,
                 list |-> Append(approvals, review[r].entry), form |-> "array"] \in Written
             /\ [pc |-> "saved", entry |-> review[r].entry] \in Saved
  <2>1. review[r].entry \in Review!Entry /\ review[r].entry \in Approval
    BY <1>1, ReadList, LocalsByPlace DEF ReviewTypeInv, Approving
  <2>2. Append(approvals, review[r].entry) \in Seq(Review!Entry)
    BY <2>1 DEF ReviewTypeInv
  <2> QED
    BY <2>1, <2>2 DEF Written, Saved
<1>2. ASSUME review[r].pc = "reject"
      PROVE  [pc |-> "wrote", entry |-> review[r].entry,
              list |-> Append(review[r].read, review[r].entry), form |-> "text"] \in Written
  <2>1. review[r].entry \in Review!Entry /\ review[r].read \in Seq(Review!Entry)
    BY <1>2, ReadList
  <2>2. Append(review[r].read, review[r].entry) \in Seq(Review!Entry)
    BY <2>1
  <2> QED
    BY <2>1, <2>2 DEF Written
<1> QED
  BY <1>1, <1>2 DEF ReviewLocals

LEMMA ReviewTypeStep == ReviewTypeInv /\ [Review!Next]_(Review!reviewVars) => ReviewTypeInv'
<1> SUFFICES ASSUME ReviewTypeInv, [Review!Next]_(Review!reviewVars)
             PROVE  ReviewTypeInv'
  OBVIOUS
<1>1. ASSUME NEW r \in Reviews, NEW u \in Users,
             Review!BeginApprove(r, u) \/ Review!BeginReject(r, u)
      PROVE  ReviewTypeInv'
  BY <1>1, BegunRequest DEF ReviewTypeInv
<1>2. ASSUME NEW r \in Reviews, Review!AddApproval(r)
      PROVE  ReviewTypeInv'
  BY <1>2, NewLocals, OneRequest
     DEF Review!AddApproval, Review!Wrote, Review!config, ReviewTypeInv
<1>3. ASSUME NEW r \in Reviews, Review!SaveApproval(r)
      PROVE  ReviewTypeInv'
  <2>1. approvals' \in Seq(Review!Entry)
    BY <1>3, ReadList DEF Review!SaveApproval
  <2>2. review' \in [Reviews -> ReviewLocals]
    BY <1>3, NewLocals, OneRequest DEF Review!SaveApproval
  <2> QED
    BY <1>3, <2>1, <2>2 DEF Review!SaveApproval, Review!config, ReviewTypeInv
<1>4. ASSUME NEW r \in Reviews, Review!WriteRejection(r)
      PROVE  ReviewTypeInv'
  BY <1>4, NewLocals, OneRequest
     DEF Review!WriteRejection, Review!Wrote, Review!config, ReviewTypeInv
<1>5. ASSUME NEW r \in Reviews, Review!Commit(r)
      PROVE  ReviewTypeInv'
  <2>1. review[r] \in Written
    BY <1>5, LocalsByPlace DEF Review!Commit, ReviewTypeInv
  <2>2. approvals' \in Seq(Review!Entry) /\ trail' \subseteq Review!Entry
    BY <1>5, <2>1 DEF Review!Commit, Review!Logged, Written, ReviewTypeInv
  <2>3. review' \in [Reviews -> ReviewLocals]
    BY <1>5, NewLocals, OneRequest DEF Review!Commit
  <2> QED
    BY <1>5, <2>2, <2>3 DEF Review!Commit, Review!config, ReviewTypeInv
<1>6. ASSUME NEW r \in Reviews, Review!LogApproval(r)
      PROVE  ReviewTypeInv'
  <2>1. review[r].entry \in Review!Entry
    BY <1>6, LocalsByPlace DEF Review!LogApproval, ReviewTypeInv
  <2>2. review' \in [Reviews -> ReviewLocals]
    BY <1>6, NewLocals, OneRequest DEF Review!LogApproval
  <2> QED
    BY <1>6, <2>1, <2>2 DEF Review!LogApproval, Review!Logged, Review!config, ReviewTypeInv
<1>7. ASSUME NEW r \in Reviews, Review!Rollback(r)
      PROVE  ReviewTypeInv'
  BY <1>7, NewLocals, OneRequest DEF Review!Rollback, Review!config, ReviewTypeInv
<1>8. ASSUME NEW auto \in BOOLEAN, NEW role, Review!Apply(auto, role)
      PROVE  ReviewTypeInv'
  <2> DEFINE a == [reviewed |-> Review!Entries \cap trail # {},
                   approved |-> \E e \in Review!Entries : ~e.rejected]
  <2>1. a \in [reviewed : BOOLEAN, approved : BOOLEAN]
    OBVIOUS
  <2>2. applied' \in {applied, applied \cup {a}}
    BY <1>8 DEF Review!Apply
  <2> QED
    BY <1>8, <2>1, <2>2 DEF Review!Apply, Review!config, ReviewTypeInv
<1>9. CASE UNCHANGED Review!reviewVars
  BY <1>9 DEF Review!reviewVars, ReviewTypeInv
<1> QED
  BY <1>1, <1>2, <1>3, <1>4, <1>5, <1>6, <1>7, <1>8, <1>9 DEF Review!Next

-----------------------------------------------------------------------------
(* PlanReview: lists of reviews.                                           *)

Of(list) == {list[i] : i \in DOMAIN list}

\* Nobody's approval comes after another entry of his.
NoLateApproval(list) ==
    \A i, j \in DOMAIN list : i < j /\ list[i].user = list[j].user => list[j].rejected

\* A list with one more entry.
LEMMA OneMoreEntry ==
    ASSUME NEW list \in Seq(Review!Entry), NEW e \in Review!Entry
    PROVE  /\ Of(Append(list, e)) = Of(list) \cup {e}
           /\ NoLateApproval(list) /\ (e.rejected \/ \A f \in Of(list) : f.user # e.user)
              => NoLateApproval(Append(list, e))
<1> DEFINE more == Append(list, e)
<1>1. more \in Seq(Review!Entry) /\ DOMAIN more = 1 .. Len(list) + 1 /\ DOMAIN list = 1 .. Len(list)
  OBVIOUS
<1>2. Len(list) \in Nat /\ more[Len(list) + 1] = e /\ \A i \in 1 .. Len(list) : more[i] = list[i]
  OBVIOUS
<1> HIDE DEF more
<1>3. \A i \in DOMAIN more : i = Len(list) + 1 \/ i \in DOMAIN list
  BY <1>1, <1>2
<1>4. Of(more) = Of(list) \cup {e}
  BY <1>1, <1>2, <1>3 DEF Of
<1>5. ASSUME NoLateApproval(list), e.rejected \/ \A f \in Of(list) : f.user # e.user,
             NEW i \in DOMAIN more, NEW j \in DOMAIN more,
             i < j, more[i].user = more[j].user
      PROVE  more[j].rejected
  <2>1. i \in DOMAIN list /\ more[i] = list[i] /\ list[i] \in Of(list)
    BY <1>1, <1>2, <1>5 DEF Of
  <2>2. CASE j = Len(list) + 1
    BY <1>2, <1>5, <2>1, <2>2
  <2>3. CASE j \in DOMAIN list
    BY <1>1, <1>2, <1>5, <2>1, <2>3 DEF NoLateApproval
  <2> QED
    BY <1>3, <2>2, <2>3
<1>6. NoLateApproval(list) /\ (e.rejected \/ \A f \in Of(list) : f.user # e.user)
      => NoLateApproval(more)
  BY <1>5 DEF NoLateApproval
<1> QED
  BY <1>4, <1>6 DEF more

-----------------------------------------------------------------------------
(* PlanReview: every committed entry has its audit row, or is an approval  *)
(* on SQLite.                                                              *)

Covered(e) == e \in trail \/ (dialect = "sqlite" /\ ~e.rejected)

\* So is all that a request read; what it wrote adds its own entry.
TrailInv ==
    /\ \A e \in Of(approvals) : Covered(e)
    /\ \A r \in Reviews :
          /\ review[r].pc \in {"approve", "reject"} => \A e \in Of(review[r].read) : Covered(e)
          /\ review[r].pc = "wrote" =>
                \A e \in Of(review[r].list) : Covered(e) \/ e = review[r].entry

LEMMA TrailInit == Review!Init => TrailInv
  BY DEF Review!Init, TrailInv, Of, Review!Idle

LEMMA TrailStep == ReviewTypeInv /\ TrailInv /\ [Review!Next]_(Review!reviewVars) => TrailInv'
<1> SUFFICES ASSUME ReviewTypeInv, TrailInv, [Review!Next]_(Review!reviewVars)
             PROVE  TrailInv'
  OBVIOUS
<1>1. \A e : Covered(e) => Covered(e)'
  BY DEF Review!Next, Review!BeginApprove, Review!BeginReject, Review!AddApproval,
         Review!SaveApproval, Review!WriteRejection, Review!Commit, Review!LogApproval,
         Review!Rollback, Review!Apply, Review!Logged, Review!config, Review!reviewVars, Covered
<1>2. ASSUME NEW r \in Reviews, NEW u \in Users,
             Review!BeginApprove(r, u) \/ Review!BeginReject(r, u)
      PROVE  TrailInv'
  BY <1>1, <1>2, BegunRequest DEF TrailInv
<1>3. ASSUME NEW r \in Reviews, Review!AddApproval(r)
      PROVE  TrailInv'
  <2>1. Of(Append(approvals, review[r].entry)) = Of(approvals) \cup {review[r].entry}
    BY <1>3, ReadList, OneMoreEntry DEF Review!AddApproval, ReviewTypeInv
  <2> QED
    BY <1>1, <1>3, <2>1, NewLocals, OneRequest DEF Review!AddApproval, Review!Wrote, TrailInv
<1>4. ASSUME NEW r \in Reviews, Review!SaveApproval(r)
      PROVE  TrailInv'
  <2>1. review[r].pc = "approve" /\ dialect = "sqlite"
        /\ approvals' = Append(review[r].read, review[r].entry)
    BY <1>4 DEF Review!SaveApproval
  <2>2. Of(approvals') = Of(review[r].read) \cup {review[r].entry}
    BY <2>1, ReadList, OneMoreEntry
  <2>3. Covered(review[r].entry)
    BY <2>1, ReadList DEF Covered
  <2>4. review'[r].pc = "saved" /\ \A q \in Reviews \ {r} : review'[q] = review[q]
    BY <1>4, NewLocals, OneRequest DEF Review!SaveApproval
  <2>5. \A e \in Of(review[r].read) : Covered(e)
    BY <2>1 DEF TrailInv
  <2> QED
    BY <1>1, <2>2, <2>3, <2>4, <2>5 DEF TrailInv
<1>5. ASSUME NEW r \in Reviews, Review!WriteRejection(r)
      PROVE  TrailInv'
  <2>1. Of(Append(review[r].read, review[r].entry)) = Of(review[r].read) \cup {review[r].entry}
    BY <1>5, ReadList, OneMoreEntry DEF Review!WriteRejection
  <2> QED
    BY <1>1, <1>5, <2>1, NewLocals, OneRequest DEF Review!WriteRejection, Review!Wrote, TrailInv
<1>6. ASSUME NEW r \in Reviews, Review!Commit(r)
      PROVE  TrailInv'
  <2>1. (\A e : e = review[r].entry => Covered(e)') /\ approvals' = review[r].list
    BY <1>6 DEF Review!Commit, Review!Logged, Covered
  <2>2. \A e \in Of(review[r].list) : Covered(e) \/ e = review[r].entry
    BY <1>6 DEF Review!Commit, TrailInv
  <2>3. review'[r].pc = "idle" /\ \A q \in Reviews \ {r} : review'[q] = review[q]
    BY <1>6, NewLocals, OneRequest DEF Review!Commit, Review!Idle
  <2>4. \A e \in Of(approvals') : Covered(e)'
    BY <1>1, <2>1, <2>2
  <2> QED
    BY <1>1, <2>3, <2>4 DEF TrailInv
<1>7. ASSUME NEW r \in Reviews, Review!LogApproval(r) \/ Review!Rollback(r)
      PROVE  TrailInv'
  <2>1. review' = [review EXCEPT ![r] = Review!Idle] /\ UNCHANGED approvals
    BY <1>7 DEF Review!LogApproval, Review!Rollback
  <2>2. review'[r].pc = "idle" /\ \A q \in Reviews \ {r} : review'[q] = review[q]
    BY <2>1, NewLocals, OneRequest DEF Review!Idle
  <2> QED
    BY <1>1, <2>1, <2>2 DEF TrailInv
<1>8. CASE UNCHANGED <<approvals, review>>
  BY <1>1, <1>8 DEF TrailInv
<1> QED
  BY <1>2, <1>3, <1>4, <1>5, <1>6, <1>7, <1>8
     DEF Review!Next, Review!Apply, Review!reviewVars

-----------------------------------------------------------------------------
(* PlanReview: nobody approves who has reviewed before.                    *)

\* A request that will approve read no entry of its user.  What add_approval appends to
\* on PostgreSQL is another list, but never committed.
OnceInv ==
    /\ NoLateApproval(approvals)
    /\ \A r \in Reviews :
          /\ review[r].pc \in {"approve", "reject"} => NoLateApproval(review[r].read)
          /\ review[r].pc = "approve" =>
                \A e \in Of(review[r].read) : e.user # review[r].entry.user
          /\ review[r].pc = "wrote" /\ review[r].form = "text" => NoLateApproval(review[r].list)

LEMMA OnceInit == Review!Init => OnceInv
  BY DEF Review!Init, OnceInv, NoLateApproval, Review!Idle

LEMMA OnceStep == ReviewTypeInv /\ OnceInv /\ [Review!Next]_(Review!reviewVars) => OnceInv'
<1> SUFFICES ASSUME ReviewTypeInv, OnceInv, [Review!Next]_(Review!reviewVars)
             PROVE  OnceInv'
  OBVIOUS
<1>1. ASSUME NEW r \in Reviews, NEW u \in Users,
             Review!BeginApprove(r, u) \/ Review!BeginReject(r, u)
      PROVE  OnceInv'
  <2>1. Review!BeginApprove(r, u) => \A e \in Of(approvals) : e.user # u
    BY DEF Review!BeginApprove, Review!HasReviewed, Review!Entries, Of
  <2> QED
    BY <1>1, <2>1, BegunRequest DEF OnceInv
<1>2. ASSUME NEW r \in Reviews, Review!AddApproval(r)
      PROVE  OnceInv'
  BY <1>2, NewLocals, OneRequest DEF Review!AddApproval, Review!Wrote, OnceInv
<1>3. ASSUME NEW r \in Reviews, Review!SaveApproval(r)
      PROVE  OnceInv'
  <2>1. review[r].pc = "approve" /\ approvals' = Append(review[r].read, review[r].entry)
    BY <1>3 DEF Review!SaveApproval
  <2>2. NoLateApproval(approvals')
    BY <2>1, ReadList, OneMoreEntry DEF OnceInv
  <2>3. review'[r].pc = "saved" /\ \A q \in Reviews \ {r} : review'[q] = review[q]
    BY <1>3, NewLocals, OneRequest DEF Review!SaveApproval
  <2> QED
    BY <2>2, <2>3 DEF OnceInv
<1>4. ASSUME NEW r \in Reviews, Review!WriteRejection(r)
      PROVE  OnceInv'
  <2>1. NoLateApproval(Append(review[r].read, review[r].entry))
    BY <1>4, ReadList, OneMoreEntry DEF Review!WriteRejection, OnceInv
  <2> QED
    BY <1>4, <2>1, NewLocals, OneRequest DEF Review!WriteRejection, Review!Wrote, OnceInv
<1>5. ASSUME NEW r \in Reviews, Review!Commit(r)
      PROVE  OnceInv'
  BY <1>5, NewLocals, OneRequest DEF Review!Commit, OnceInv, Review!Idle
<1>6. ASSUME NEW r \in Reviews, Review!LogApproval(r) \/ Review!Rollback(r)
      PROVE  OnceInv'
  <2>1. review' = [review EXCEPT ![r] = Review!Idle] /\ UNCHANGED approvals
    BY <1>6 DEF Review!LogApproval, Review!Rollback
  <2>2. review'[r].pc = "idle" /\ \A q \in Reviews \ {r} : review'[q] = review[q]
    BY <2>1, NewLocals, OneRequest DEF Review!Idle
  <2> QED
    BY <2>1, <2>2 DEF OnceInv
<1>7. CASE UNCHANGED <<approvals, review>>
  BY <1>7 DEF OnceInv
<1> QED
  BY <1>1, <1>2, <1>3, <1>4, <1>5, <1>6, <1>7
     DEF Review!Next, Review!Apply, Review!reviewVars

-----------------------------------------------------------------------------
(* PlanReview: the gate.                                                   *)

GateInv == \A a \in applied : a.reviewed \/ (dialect = "sqlite" /\ a.approved)

LEMMA GateInit == Review!Init => GateInv
  BY DEF Review!Init, GateInv

LEMMA GateStep ==
    ReviewTypeInv /\ TrailInv /\ GateInv /\ [Review!Next]_(Review!reviewVars) => GateInv'
<1> SUFFICES ASSUME ReviewTypeInv, TrailInv, GateInv, [Review!Next]_(Review!reviewVars)
             PROVE  GateInv'
  OBVIOUS
<1>0. UNCHANGED dialect
  BY DEF Review!Next, Review!BeginApprove, Review!BeginReject, Review!AddApproval,
         Review!SaveApproval, Review!WriteRejection, Review!Commit, Review!LogApproval,
         Review!Rollback, Review!Apply, Review!config, Review!reviewVars
<1>1. ASSUME NEW auto \in BOOLEAN, NEW role, Review!Apply(auto, role), ~Review!Bypassed(auto)
      PROVE  GateInv'
  <2>1. approvals # <<>>
    BY <1>1 DEF Review!Apply, Review!Gate
  <2>2. Len(approvals) \in Nat /\ Len(approvals) # 0 /\ DOMAIN approvals = 1 .. Len(approvals)
    BY <2>1 DEF ReviewTypeInv
  <2>3. 1 \in DOMAIN approvals
    BY <2>2
  <2>4. approvals[1] \in Review!Entries /\ Covered(approvals[1])
    BY <2>3 DEF Review!Entries, TrailInv, Of
  <2> DEFINE a == [reviewed |-> Review!Entries \cap trail # {},
                   approved |-> \E e \in Review!Entries : ~e.rejected]
  <2>5. a.reviewed \/ (dialect = "sqlite" /\ a.approved)
    BY <2>4 DEF Covered
  <2>6. applied' = applied \cup {a}
    BY <1>1 DEF Review!Apply
  <2> HIDE DEF a
  <2> QED
    BY <1>0, <2>5, <2>6 DEF GateInv
<1>2. CASE UNCHANGED applied
  BY <1>0, <1>2 DEF GateInv
<1> QED
  BY <1>1, <1>2
     DEF Review!Next, Review!BeginApprove, Review!BeginReject, Review!AddApproval,
         Review!SaveApproval, Review!WriteRejection, Review!Commit, Review!LogApproval,
         Review!Rollback, Review!Apply, Review!reviewVars

-----------------------------------------------------------------------------
(* PlanReview: together.                                                   *)

\* approve_plan, reject_plan and the gate keep every variable in its type, whatever
\* number of reviews overlap.
LEMMA ReviewTypeCorrect == Review!Spec => []Review!TypeOK
<1>1. Review!Spec => []ReviewTypeInv
  BY ReviewTypeInit, ReviewTypeStep, PTL DEF Review!Spec
<1> QED
  BY <1>1, TypeInvGivesTypeOK, PTL

\* Whatever reviews overlap, overwrite one another or fail half-way, an apply outside
\* dev without the ADMIN bypass follows a committed review with its audit row, or on
\* SQLite an approval; and nobody approves who has reviewed before.
LEMMA ReviewPrecedesApply == Review!Spec => []Review!ReviewedBeforeApplied
<1> DEFINE SafeInv == ReviewTypeInv /\ TrailInv /\ OnceInv /\ GateInv
<1>1. Review!Init => SafeInv
  BY ReviewTypeInit, TrailInit, OnceInit, GateInit
<1>2. SafeInv /\ [Review!Next]_(Review!reviewVars) => SafeInv'
  BY ReviewTypeStep, TrailStep, OnceStep, GateStep
<1>3. SafeInv => Review!ReviewedBeforeApplied
  BY DEF TrailInv, OnceInv, GateInv, Review!ReviewedBeforeApplied, Review!Entries, Of,
         NoLateApproval, Covered
<1> QED
  BY <1>1, <1>2, <1>3, PTL DEF Review!Spec

-----------------------------------------------------------------------------
(* UsageReports: types.                                                    *)

Sleeping == [pc : {"waiting"}, since : 0 .. LastInstant]
Counting == [pc : {"counting"}, cutoff : Int]
Sending == [pc : {"sending"}, counted : SUBSET UsageEvents]
ReporterLocals == Sleeping \cup Counting \cup Sending

ReporterInv == Report!TypeOK /\ reporter \in [Reporters -> ReporterLocals]

\* What the place of a reporter says of its locals.
LEMMA ReporterByPlace ==
    ASSUME NEW v \in ReporterLocals
    PROVE  /\ v.pc \in {"waiting", "counting", "sending"}
           /\ v.pc = "waiting" => v \in Sleeping
           /\ v.pc = "counting" => v \in Counting
           /\ v.pc = "sending" => v \in Sending
<1>1. CASE v \in Sleeping
  BY <1>1 DEF Sleeping
<1>2. CASE v \in Counting
  BY <1>2 DEF Counting
<1>3. CASE v \in Sending
  BY <1>3 DEF Sending
<1> QED
  BY <1>1, <1>2, <1>3 DEF ReporterLocals

LEMMA WaitingIsLocal ==
    ASSUME instant \in 0 .. LastInstant
    PROVE  /\ Report!Waiting \in ReporterLocals /\ Report!Waiting \in Sleeping
           /\ Report!Waiting.pc = "waiting" /\ Report!Waiting.since = instant
  BY DEF Report!Waiting, ReporterLocals, Sleeping

\* Each step of a reporter gives one reporter new locals.
LEMMA OneReporter ==
    ASSUME ReporterInv, NEW p \in Reporters, NEW v \in ReporterLocals, Report!Goes(p, v)
    PROVE  /\ reporter' \in [Reporters -> ReporterLocals]
           /\ reporter'[p] = v
           /\ \A q \in Reporters \ {p} : reporter'[q] = reporter[q]
           /\ \A q \in Reporters : reporter'[q].pc \in {"waiting", "counting", "sending"}
<1>1. /\ reporter' \in [Reporters -> ReporterLocals]
      /\ reporter'[p] = v
      /\ \A q \in Reporters \ {p} : reporter'[q] = reporter[q]
  BY DEF Report!Goes, ReporterInv
<1> QED
  BY <1>1, ReporterByPlace

LEMMA ReportInit == Report!ReportsAssumption /\ Report!Init => ReporterInv
<1> SUFFICES ASSUME Report!ReportsAssumption, Report!Init PROVE ReporterInv
  OBVIOUS
<1>1. instant \in 0 .. LastInstant /\ Report!NotYet \in 0 .. Report!NotYet
  BY DEF Report!ReportsAssumption, Report!Init, Report!NotYet
<1>2. reporter \in [Reporters -> ReporterLocals]
  BY <1>1, WaitingIsLocal DEF Report!Init
<1>3. \A p \in Reporters : reporter[p].pc \in {"waiting", "counting", "sending"}
  BY <1>2, ReporterByPlace
<1> QED
  BY <1>1, <1>2, <1>3 DEF Report!Init, ReporterInv, Report!TypeOK

\* Where a count ends: asleep, or with what it is to send.
LEMMA AfterCount ==
    ASSUME ReporterInv, NEW p \in Reporters, Report!Count(p)
    PROVE  /\ reporter[p] \in Counting
           /\ \/ Report!Goes(p, Report!Waiting)
              \/ \E v \in Sending :
                    /\ Report!Goes(p, v)
                    /\ v.counted = {e \in inStore : usedAt[e] >= reporter[p].cutoff}
<1> DEFINE counted == {e \in inStore : usedAt[e] >= reporter[p].cutoff}
<1>1. reporter[p] \in Counting
  BY ReporterByPlace DEF Report!Count, ReporterInv
<1>2. [pc |-> "sending", counted |-> counted] \in Sending
  BY DEF Sending, ReporterInv, Report!TypeOK
<1>3. Report!Goes(p, IF counted = {} THEN Report!Waiting ELSE [pc |-> "sending", counted |-> counted])
  BY DEF Report!Count
<1> QED
  BY <1>1, <1>2, <1>3

LEMMA ReportStep == Report!ReportsAssumption /\ ReporterInv /\ [Report!Next]_(Report!reportsVars) => ReporterInv'
<1> SUFFICES ASSUME Report!ReportsAssumption, ReporterInv, [Report!Next]_(Report!reportsVars)
             PROVE  ReporterInv'
  OBVIOUS
<1>0. instant \in 0 .. LastInstant /\ LastInstant \in Nat /\ Interval \in Nat
  BY DEF ReporterInv, Report!TypeOK, Report!ReportsAssumption
<1>1. ASSUME NEW e \in UsageEvents, Report!Use(e)
      PROVE  ReporterInv'
  <2>1. instant \in 0 .. Report!NotYet /\ instant # Report!NotYet
    BY <1>0 DEF Report!NotYet
  <2> QED
    BY <1>1, <2>1 DEF Report!Use, ReporterInv, Report!TypeOK, Report!NotYet
<1>2. ASSUME NEW e \in UsageEvents, Report!Store(e)
      PROVE  ReporterInv'
  BY <1>2 DEF Report!Store, ReporterInv, Report!TypeOK, Report!NotYet
<1>3. ASSUME NEW p \in Reporters, Report!Wake(p)
      PROVE  ReporterInv'
  <2>1. [pc |-> "counting", cutoff |-> Report!Cutoff(p)] \in ReporterLocals
    BY <1>0 DEF Report!Cutoff, ReporterLocals, Counting
  <2> QED
    BY <1>3, <2>1, OneReporter DEF Report!Wake, ReporterInv, Report!TypeOK, Report!NotYet
<1>4. ASSUME NEW p \in Reporters, Report!Count(p)
      PROVE  ReporterInv'
  <2>1. PICK v \in ReporterLocals : Report!Goes(p, v)
    BY <1>0, <1>4, AfterCount, WaitingIsLocal DEF ReporterLocals
  <2> QED
    BY <1>4, <2>1, OneReporter DEF Report!Count, ReporterInv, Report!TypeOK, Report!NotYet
<1>5. ASSUME NEW p \in Reporters, Report!Send(p)
      PROVE  ReporterInv'
  <2>1. increments' \in [UsageEvents -> 0 .. 2]
    BY <1>5 DEF Report!Send, ReporterInv, Report!TypeOK
  <2> QED
    BY <1>0, <1>5, <2>1, OneReporter, WaitingIsLocal DEF Report!Send, ReporterInv, Report!TypeOK, Report!NotYet
<1>6. ASSUME NEW p \in Reporters, Report!Restart(p)
      PROVE  ReporterInv'
  BY <1>0, <1>6, OneReporter, WaitingIsLocal DEF Report!Restart, ReporterInv, Report!TypeOK, Report!NotYet
<1>7. CASE Report!Tick
  BY <1>0, <1>7 DEF Report!Tick, ReporterInv, Report!TypeOK, Report!NotYet
<1>8. CASE UNCHANGED Report!reportsVars
  BY <1>8 DEF Report!reportsVars, ReporterInv, Report!TypeOK, Report!NotYet
<1> QED
  BY <1>1, <1>2, <1>3, <1>4, <1>5, <1>6, <1>7, <1>8 DEF Report!Next

-----------------------------------------------------------------------------
(* UsageReports: the windows of one reporter do not meet.                  *)

\* What is reported was used before the window that is open, or that will be: every
\* window begins after the report before it ended.
WindowInv(p) ==
    /\ \A e \in UsageEvents : increments[e] <= 1
    /\ \A e \in UsageEvents : increments[e] = 1 =>
          /\ usedAt[e] <= instant
          /\ reporter[p].pc = "waiting" => usedAt[e] <= reporter[p].since
          /\ reporter[p].pc = "counting" => usedAt[e] < reporter[p].cutoff
          /\ reporter[p].pc = "sending" => e \notin reporter[p].counted
    /\ reporter[p].pc = "sending" => \A e \in reporter[p].counted : usedAt[e] # Report!NotYet

\* An event is used by now.
UsedInv == \A e \in UsageEvents : usedAt[e] # Report!NotYet => usedAt[e] <= instant

LEMMA UsedStep == Report!ReportsAssumption /\ ReporterInv /\ UsedInv /\ [Report!Next]_(Report!reportsVars) => UsedInv'
<1> SUFFICES ASSUME Report!ReportsAssumption, ReporterInv, UsedInv, [Report!Next]_(Report!reportsVars)
             PROVE  UsedInv'
  OBVIOUS
<1>0. instant \in Nat /\ \A e \in UsageEvents : usedAt[e] \in Nat
  BY DEF ReporterInv, Report!TypeOK, Report!ReportsAssumption, Report!NotYet
<1>1. ASSUME NEW e \in UsageEvents, Report!Use(e)
      PROVE  UsedInv'
  BY <1>0, <1>1 DEF Report!Use, UsedInv, ReporterInv, Report!TypeOK, Report!NotYet
<1>2. CASE Report!Tick
  BY <1>0, <1>2 DEF Report!Tick, UsedInv, Report!NotYet
<1>3. CASE UNCHANGED <<instant, usedAt>>
  BY <1>3 DEF UsedInv, Report!NotYet
<1> QED
  BY <1>1, <1>2, <1>3 DEF Report!Next, Report!Store, Report!Wake, Report!Count, Report!Send, Report!Restart, Report!reportsVars

\* The reporter goes to sleep after whatever was reported.
LEMMA Asleep ==
    ASSUME Report!ReportsAssumption, ReporterInv, NEW p \in Reporters, Reporters = {p}, WindowInv(p),
           Report!Goes(p, Report!Waiting), UNCHANGED <<instant, usedAt, increments>>
    PROVE  WindowInv(p)'
<1>1. reporter'[p].pc = "waiting" /\ reporter'[p].since = instant
  BY OneReporter, WaitingIsLocal DEF ReporterInv, Report!TypeOK
<1> QED
  BY <1>1 DEF WindowInv

LEMMA WindowStep ==
    ASSUME Report!ReportsAssumption, ReporterInv, UsedInv, NEW p \in Reporters, Reporters = {p},
           WindowInv(p), [Report!Next]_(Report!reportsVars)
    PROVE  WindowInv(p)'
<1>0. /\ instant \in 0 .. LastInstant /\ Interval \in Nat /\ LastInstant \in Nat
      /\ \A e \in UsageEvents : usedAt[e] \in Nat /\ increments[e] \in 0 .. 2
      /\ \A e \in inStore : usedAt[e] # Report!NotYet /\ e \in UsageEvents
  BY DEF ReporterInv, Report!TypeOK, Report!ReportsAssumption, Report!NotYet
<1>1. ASSUME NEW e \in UsageEvents, Report!Use(e)
      PROVE  WindowInv(p)'
  <2>1. increments[e] # 1 /\ usedAt'[e] # Report!NotYet
    BY <1>0, <1>1 DEF Report!Use, WindowInv, Report!NotYet, ReporterInv, Report!TypeOK
  <2>2. \A f \in UsageEvents \ {e} : usedAt'[f] = usedAt[f]
    BY <1>1 DEF Report!Use, ReporterInv, Report!TypeOK
  <2>3. reporter[p].pc = "sending" => \A f \in reporter[p].counted : f \in UsageEvents
    BY ReporterByPlace DEF ReporterInv, Sending
  <2> QED
    BY <1>1, <2>1, <2>2, <2>3 DEF Report!Use, WindowInv, Report!NotYet
<1>2. CASE UNCHANGED <<instant, usedAt, reporter, increments>>
  BY <1>2 DEF WindowInv, Report!NotYet
<1>3. ASSUME Report!Wake(p)
      PROVE  WindowInv(p)'
  <2>1. [pc |-> "counting", cutoff |-> Report!Cutoff(p)] \in ReporterLocals
    BY <1>0 DEF Report!Cutoff, ReporterLocals, Counting
  <2>2. reporter'[p].pc = "counting" /\ reporter'[p].cutoff = instant - Interval
    BY <1>3, <2>1, OneReporter DEF Report!Wake, Report!Cutoff
  <2>3. reporter[p] \in Sleeping
    BY <1>3, ReporterByPlace DEF Report!Wake, ReporterInv
  <2>4. reporter[p].since \in Nat /\ instant > reporter[p].since + Interval
    BY <1>0, <1>3, <2>3 DEF Report!Wake, Sleeping
  <2>5. \A e \in UsageEvents : increments[e] = 1 => usedAt[e] < instant - Interval
    BY <1>0, <1>3, <2>4 DEF Report!Wake, WindowInv
  <2> QED
    BY <1>3, <2>2, <2>5 DEF Report!Wake, WindowInv
<1>4. ASSUME Report!Count(p)
      PROVE  WindowInv(p)'
  <2>1. CASE Report!Goes(p, Report!Waiting)
    BY <1>4, <2>1, Asleep DEF Report!Count
  <2>2. ASSUME NEW v \in Sending, Report!Goes(p, v),
               v.counted = {e \in inStore : usedAt[e] >= reporter[p].cutoff}
        PROVE  WindowInv(p)'
    <3>1. reporter'[p] = v /\ v.pc = "sending"
      BY <2>2, OneReporter DEF ReporterLocals, Sending
    <3>2. reporter[p].cutoff \in Int /\ reporter[p].pc = "counting"
      BY <1>4, AfterCount DEF Report!Count, Counting
    <3>3. /\ \A e \in UsageEvents : increments[e] = 1 => e \notin v.counted
          /\ \A e \in v.counted : usedAt[e] # Report!NotYet
      BY <1>0, <2>2, <3>2 DEF WindowInv
    <3> QED
      BY <1>4, <3>1, <3>3 DEF Report!Count, WindowInv, Report!NotYet
  <2> QED
    BY <1>4, <2>1, <2>2, AfterCount
<1>5. ASSUME Report!Send(p)
      PROVE  WindowInv(p)'
  <2>1. CASE UNCHANGED increments
    BY <1>5, <2>1, Asleep DEF Report!Send
  <2>2. CASE increments' = [e \in UsageEvents |->
                               IF e \in reporter[p].counted /\ increments[e] < 2
                               THEN increments[e] + 1 ELSE increments[e]]
    <3>1. reporter'[p].pc = "waiting" /\ reporter'[p].since = instant
      BY <1>0, <1>5, OneReporter, WaitingIsLocal DEF Report!Send
    <3>2. UNCHANGED <<instant, usedAt>> /\ reporter[p].pc = "sending"
      BY <1>5 DEF Report!Send
    <3>3. \A e \in UsageEvents : increments'[e] <= 1
      BY <1>0, <2>2, <3>2 DEF WindowInv
    <3>4. \A e \in UsageEvents : increments'[e] = 1 => usedAt[e] <= instant
      BY <1>0, <2>2, <3>2 DEF WindowInv, UsedInv
    <3> QED
      BY <3>1, <3>2, <3>3, <3>4 DEF WindowInv
  <2> QED
    BY <1>5, <2>1, <2>2 DEF Report!Send
<1>6. ASSUME Report!Restart(p)
      PROVE  WindowInv(p)'
  BY <1>6, Asleep DEF Report!Restart
<1>7. CASE Report!Tick
  BY <1>0, <1>7 DEF Report!Tick, WindowInv, Report!NotYet
<1> QED
  BY <1>1, <1>2, <1>3, <1>4, <1>5, <1>6, <1>7 DEF Report!Next, Report!Store, Report!reportsVars

\* The two names of one operator.
LEMMA SameCardinality == Report!Cardinality(Reporters) = Cardinality(Reporters)
  BY DEF Report!Cardinality, Cardinality, Report!IsFiniteSet, IsFiniteSet

\* One process never reports an event twice, however long it sleeps, counts and sends,
\* and whatever answers are lost.
LEMMA NeverTwice ==
    ASSUME Report!ReportsAssumption
    PROVE  Report!Spec => []Report!ReportedOnce
<1>1. CASE Cardinality(Reporters) = 1
  <2>0. IsFiniteSet(Reporters)
    BY DEF Report!ReportsAssumption, Report!IsFiniteSet, IsFiniteSet
  <2>1. PICK p : Reporters = {p}
    BY <1>1, <2>0, FS_Singleton
  <2> DEFINE Inv == ReporterInv /\ UsedInv /\ WindowInv(p)
  <2>2. Report!Init => Inv
    <3> SUFFICES ASSUME Report!Init PROVE Inv
      OBVIOUS
    <3>1. ReporterInv
      BY ReportInit
    <3>2. reporter[p].pc = "waiting"
      BY <2>1, <3>1, WaitingIsLocal DEF Report!Init, ReporterInv, Report!TypeOK
    <3> QED
      BY <3>1, <3>2 DEF Report!Init, UsedInv, WindowInv, Report!NotYet
  <2>3. Inv /\ [Report!Next]_(Report!reportsVars) => Inv'
    BY <2>1, ReportStep, UsedStep, WindowStep
  <2>4. Inv => Report!ReportedOnce
    BY DEF WindowInv, Report!ReportedOnce
  <2> QED
    BY <2>2, <2>3, <2>4, PTL DEF Report!Spec
<1>2. CASE Cardinality(Reporters) # 1
  <2>1. Report!ReportedOnce
    BY <1>2, SameCardinality DEF Report!ReportedOnce
  <2> QED
    BY <2>1, PTL
<1> QED
  BY <1>1, <1>2

-----------------------------------------------------------------------------
(* WarehouseRuns: a success has a job that is over.                        *)

\* A call that recorded a success has ended, and its job is over and did not fail: no
\* step of the warehouse or of a call touches such a job again.
JobInv ==
    \A c \in Calls : runRow[c] = "SUCCESS" =>
        /\ call[c] = "ended"
        /\ job[c].life \in Warehouse!Terminal
        /\ Warehouse!MapStatus(job[c]) # "FAIL"

WarehouseInv == Warehouse!TypeOK /\ JobInv

LEMMA WarehouseInit == Warehouse!WarehouseAssumption /\ Warehouse!Init => WarehouseInv
  BY DEF Warehouse!WarehouseAssumption, Warehouse!Init, Warehouse!NoJob, WarehouseInv,
         Warehouse!TypeOK, JobInv

\* The end of a call, with the status of its row.
LEMMA CallEnded ==
    ASSUME WarehouseInv, NEW c \in Calls, NEW status \in {"SUCCESS", "FAIL"},
           Warehouse!End(c, status)
    PROVE  /\ call' \in [Calls -> {"idle", "polling", "ended"}]
           /\ runRow' \in [Calls -> {"none", "SUCCESS", "FAIL"}]
           /\ call'[c] = "ended" /\ runRow'[c] = status
           /\ \A d \in Calls \ {c} : call'[d] = call[d] /\ runRow'[d] = runRow[d]
  BY DEF WarehouseInv, Warehouse!TypeOK, Warehouse!End

\* A job in its next state.
LEMMA JobBecomes ==
    ASSUME WarehouseInv, NEW c \in Calls,
           NEW life \in {"PENDING", "RUNNING", "TERMINATING"} \cup Warehouse!Terminal,
           NEW result \in {"none"} \cup Warehouse!Results, Warehouse!Becomes(c, life, result)
    PROVE  /\ job' \in [Calls -> [life : {"none", "PENDING", "RUNNING", "TERMINATING"}
                                         \cup Warehouse!Terminal,
                                  result : {"none"} \cup Warehouse!Results]]
           /\ \A d \in Calls \ {c} : job'[d] = job[d]
  BY DEF WarehouseInv, Warehouse!TypeOK, Warehouse!Becomes

LEMMA RecordedStatus ==
    ASSUME NEW status
    PROVE  /\ Warehouse!Recorded(status) \in {"SUCCESS", "FAIL"}
           /\ Warehouse!Recorded(status) = "SUCCESS" => status # "FAIL"
  BY DEF Warehouse!Recorded

LEMMA WarehouseStep ==
    /\ Warehouse!WarehouseAssumption /\ WarehouseInv
    /\ [Warehouse!Next]_(Warehouse!warehouseVars)
    => WarehouseInv'
<1> SUFFICES ASSUME Warehouse!WarehouseAssumption, WarehouseInv,
                    [Warehouse!Next]_(Warehouse!warehouseVars)
             PROVE  WarehouseInv'
  OBVIOUS
<1>0. MaxErrors \in Nat /\ MaxErrors > 0 /\ Timeout \in Nat
  BY DEF Warehouse!WarehouseAssumption
<1>1. ASSUME NEW c \in Calls, Warehouse!JobMoves(c)
      PROVE  WarehouseInv'
  <2>1. PICK life \in {"PENDING", "RUNNING", "TERMINATING"} \cup Warehouse!Terminal,
             result \in {"none"} \cup Warehouse!Results : Warehouse!Becomes(c, life, result)
    BY <1>1 DEF Warehouse!JobMoves, Warehouse!Terminal, Warehouse!Results
  <2>2. runRow[c] # "SUCCESS"
    BY <1>1 DEF Warehouse!JobMoves, WarehouseInv, JobInv, Warehouse!Terminal
  <2>3. UNCHANGED <<call, pollErrors, elapsed, runRow>>
    BY <1>1 DEF Warehouse!JobMoves
  <2> QED
    BY <2>1, <2>2, <2>3, JobBecomes DEF WarehouseInv, Warehouse!TypeOK, JobInv
<1>2. ASSUME NEW c \in Calls, Warehouse!Submit(c)
      PROVE  WarehouseInv'
  <2>1. /\ job' \in [Calls -> [life : {"none", "PENDING", "RUNNING", "TERMINATING"}
                                      \cup Warehouse!Terminal,
                               result : {"none"} \cup Warehouse!Results]]
        /\ \A d \in Calls \ {c} : job'[d] = job[d]
    BY <1>2, JobBecomes DEF Warehouse!Submit, WarehouseInv, Warehouse!TypeOK
  <2>2. CASE call' = [call EXCEPT ![c] = "polling"] /\ UNCHANGED runRow
    <3>1. runRow[c] # "SUCCESS"
      BY <1>2 DEF Warehouse!Submit
    <3> QED
      BY <1>2, <2>1, <2>2, <3>1 DEF Warehouse!Submit, WarehouseInv, Warehouse!TypeOK, JobInv
  <2>3. CASE Warehouse!End(c, "FAIL")
    BY <1>2, <2>1, <2>3, CallEnded DEF Warehouse!Submit, WarehouseInv, Warehouse!TypeOK, JobInv
  <2> QED
    BY <1>2, <2>2, <2>3 DEF Warehouse!Submit
<1>3. ASSUME NEW c \in Calls, Warehouse!Turn(c)
      PROVE  elapsed' \in [Calls -> 0 .. Timeout] /\ UNCHANGED job
  BY <1>0, <1>3 DEF Warehouse!Turn, WarehouseInv, Warehouse!TypeOK
<1>4. ASSUME NEW c \in Calls, Warehouse!PollAnswered(c)
      PROVE  WarehouseInv'
  <2>0. Warehouse!Turn(c) /\ pollErrors' \in [Calls -> 0 .. MaxErrors - 1]
    BY <1>0, <1>4 DEF Warehouse!PollAnswered, WarehouseInv, Warehouse!TypeOK
  <2>1. CASE Warehouse!MapStatus(job[c]) \in Warehouse!Finished
    <3> DEFINE status == Warehouse!Recorded(Warehouse!MapStatus(job[c]))
    <3>1. status \in {"SUCCESS", "FAIL"} /\ Warehouse!End(c, status)
      BY <1>4, <2>1, RecordedStatus DEF Warehouse!PollAnswered
    <3>2. status = "SUCCESS" => Warehouse!MapStatus(job[c]) # "FAIL"
      BY RecordedStatus
    <3>3. job[c].life \in Warehouse!Terminal
      BY <2>1 DEF Warehouse!MapStatus, Warehouse!Finished, WarehouseInv, Warehouse!TypeOK
    <3> HIDE DEF status
    <3> QED
      BY <1>3, <2>0, <3>1, <3>2, <3>3, CallEnded DEF WarehouseInv, Warehouse!TypeOK, JobInv
  <2>2. CASE UNCHANGED <<call, runRow>>
    BY <1>3, <2>0, <2>2 DEF WarehouseInv, Warehouse!TypeOK, JobInv
  <2> QED
    BY <1>4, <2>1, <2>2 DEF Warehouse!PollAnswered
<1>5. ASSUME NEW c \in Calls, Warehouse!PollFailed(c)
      PROVE  WarehouseInv'
  <2>0. Warehouse!Turn(c) /\ pollErrors' \in [Calls -> 0 .. MaxErrors - 1]
    BY <1>0, <1>5 DEF Warehouse!PollFailed, WarehouseInv, Warehouse!TypeOK
  <2>1. CASE Warehouse!End(c, "FAIL")
    BY <1>3, <2>0, <2>1, CallEnded DEF WarehouseInv, Warehouse!TypeOK, JobInv
  <2>2. CASE UNCHANGED <<call, runRow>>
    BY <1>3, <2>0, <2>2 DEF WarehouseInv, Warehouse!TypeOK, JobInv
  <2> QED
    BY <1>5, <2>1, <2>2 DEF Warehouse!PollFailed
<1>6. ASSUME NEW c \in Calls, Warehouse!Deadline(c)
      PROVE  WarehouseInv'
  <2>1. /\ job' \in [Calls -> [life : {"none", "PENDING", "RUNNING", "TERMINATING"}
                                      \cup Warehouse!Terminal,
                               result : {"none"} \cup Warehouse!Results]]
        /\ \A d \in Calls \ {c} : job'[d] = job[d]
    BY <1>6, JobBecomes
       DEF Warehouse!Deadline, WarehouseInv, Warehouse!TypeOK, Warehouse!Terminal,
           Warehouse!Results
  <2>2. Warehouse!End(c, "FAIL") /\ UNCHANGED <<pollErrors, elapsed>>
    BY <1>6 DEF Warehouse!Deadline
  <2> QED
    BY <2>1, <2>2, CallEnded DEF WarehouseInv, Warehouse!TypeOK, JobInv
<1>7. ASSUME NEW c \in Calls, Warehouse!CallLost(c)
      PROVE  WarehouseInv'
  BY <1>7 DEF Warehouse!CallLost, WarehouseInv, Warehouse!TypeOK, JobInv
<1>8. CASE UNCHANGED Warehouse!warehouseVars
  BY <1>8 DEF Warehouse!warehouseVars, WarehouseInv, Warehouse!TypeOK, JobInv
<1> QED
  BY <1>1, <1>2, <1>4, <1>5, <1>6, <1>7, <1>8 DEF Warehouse!Next

LEMMA JobsBehindSuccess ==
    ASSUME Warehouse!WarehouseAssumption
    PROVE  Warehouse!Spec => []Warehouse!NoPhantomSuccess
<1>1. WarehouseInv => Warehouse!NoPhantomSuccess
  BY DEF WarehouseInv, JobInv, Warehouse!NoPhantomSuccess, Warehouse!Verdict, Warehouse!Classify
<1>2. Warehouse!Spec => []WarehouseInv
  BY WarehouseInit, WarehouseStep, PTL DEF Warehouse!Spec
<1> QED
  BY <1>1, <1>2, PTL

\* At most how many turns the polling loop of call c still makes.
TurnsLeft(c) == IF call[c] = "polling" THEN Timeout - elapsed[c] + 1 ELSE 0

LEMMA TurnsLeftIsNat ==
    ASSUME Warehouse!WarehouseAssumption, WarehouseInv, NEW c \in Calls
    PROVE  TurnsLeft(c) \in Nat /\ (call[c] = "polling" => TurnsLeft(c) > 0)
<1>1. Timeout \in Nat /\ elapsed[c] \in 0 .. Timeout
  BY DEF Warehouse!WarehouseAssumption, WarehouseInv, Warehouse!TypeOK
<1> QED
  BY <1>1 DEF TurnsLeft

\* Every turn of the loop brings its end nearer.
LEMMA TurnsGoOn ==
    ASSUME Warehouse!WarehouseAssumption, WarehouseInv, NEW c \in Calls,
           Warehouse!PollAnswered(c) \/ Warehouse!PollFailed(c) \/ Warehouse!Deadline(c)
    PROVE  TurnsLeft(c)' \in 0 .. TurnsLeft(c) - 1
<1>1. /\ Timeout \in Nat /\ elapsed \in [Calls -> 0 .. Timeout]
      /\ call \in [Calls -> {"idle", "polling", "ended"}] /\ call[c] = "polling"
  BY DEF Warehouse!WarehouseAssumption, WarehouseInv, Warehouse!TypeOK,
     Warehouse!PollAnswered, Warehouse!PollFailed, Warehouse!Deadline, Warehouse!Turn
<1>2. TurnsLeft(c) \in Nat /\ TurnsLeft(c) > 0
  BY <1>1, TurnsLeftIsNat
<1>3. CASE Warehouse!Turn(c)
  <2>1. elapsed[c] < Timeout /\ elapsed'[c] = elapsed[c] + 1
    BY <1>1, <1>3 DEF Warehouse!Turn, Warehouse!TimeIsUp
  <2>2. TurnsLeft(c) = Timeout - elapsed[c] + 1
    BY <1>1 DEF TurnsLeft
  <2>3. TurnsLeft(c)' = 0 \/ TurnsLeft(c)' = Timeout - elapsed'[c] + 1
    BY DEF TurnsLeft
  <2> QED
    BY <1>1, <2>1, <2>2, <2>3
<1>4. CASE Warehouse!Deadline(c)
  <2>1. call'[c] = "ended"
    BY <1>1, <1>4 DEF Warehouse!Deadline, Warehouse!End
  <2>2. TurnsLeft(c)' = 0
    BY <2>1 DEF TurnsLeft
  <2> QED
    BY <1>2, <2>2
<1> QED
  BY <1>3, <1>4 DEF Warehouse!PollAnswered, Warehouse!PollFailed

\* What the warehouse and the other calls do leaves it as it is.
LEMMA TurnsStay ==
    ASSUME Warehouse!WarehouseAssumption, WarehouseInv, NEW c \in Calls, call[c] = "polling",
           [Warehouse!Next]_(Warehouse!warehouseVars)
    PROVE  TurnsLeft(c)' \in 0 .. TurnsLeft(c)
<1>0. /\ Timeout \in Nat /\ elapsed \in [Calls -> 0 .. Timeout]
      /\ call \in [Calls -> {"idle", "polling", "ended"}]
  BY DEF Warehouse!WarehouseAssumption, WarehouseInv, Warehouse!TypeOK
<1>1. TurnsLeft(c) \in Nat
  BY TurnsLeftIsNat
<1>2. ASSUME elapsed'[c] = elapsed[c], call'[c] = call[c] \/ call'[c] = "ended"
      PROVE  TurnsLeft(c)' \in 0 .. TurnsLeft(c)
  <2>1. TurnsLeft(c)' = TurnsLeft(c) \/ TurnsLeft(c)' = 0
    BY <1>2 DEF TurnsLeft
  <2> QED
    BY <1>1, <2>1
<1>3. CASE Warehouse!PollAnswered(c) \/ Warehouse!PollFailed(c) \/ Warehouse!Deadline(c)
  <2>1. TurnsLeft(c)' \in 0 .. TurnsLeft(c) - 1
    BY <1>3, TurnsGoOn
  <2> QED
    BY <1>1, <2>1
<1>4. CASE Warehouse!CallLost(c)
  BY <1>0, <1>2, <1>4 DEF Warehouse!CallLost
<1>5. ASSUME NEW d \in Calls, Warehouse!JobMoves(d)
      PROVE  TurnsLeft(c)' \in 0 .. TurnsLeft(c)
  BY <1>2, <1>5 DEF Warehouse!JobMoves
<1>6. ASSUME NEW d \in Calls, d # c,
             \/ Warehouse!Submit(d) \/ Warehouse!Turn(d) \/ Warehouse!PollAnswered(d)
             \/ Warehouse!PollFailed(d) \/ Warehouse!Deadline(d) \/ Warehouse!CallLost(d)
      PROVE  elapsed'[c] = elapsed[c]
  BY <1>0, <1>6 DEF Warehouse!Submit, Warehouse!Turn, Warehouse!PollAnswered,
     Warehouse!PollFailed, Warehouse!Deadline, Warehouse!CallLost
<1>7. ASSUME NEW d \in Calls, d # c,
             \/ Warehouse!Submit(d) \/ Warehouse!PollAnswered(d)
             \/ Warehouse!PollFailed(d) \/ Warehouse!Deadline(d) \/ Warehouse!CallLost(d)
      PROVE  call'[c] = call[c]
  BY <1>0, <1>7 DEF Warehouse!Submit, Warehouse!PollAnswered, Warehouse!PollFailed,
     Warehouse!Deadline, Warehouse!CallLost, Warehouse!End
<1>8. CASE UNCHANGED Warehouse!warehouseVars
  BY <1>2, <1>8 DEF Warehouse!warehouseVars
<1>9. ~ Warehouse!Submit(c)
  BY DEF Warehouse!Submit
<1> QED
  BY <1>2, <1>3, <1>4, <1>5, <1>6, <1>7, <1>8, <1>9 DEF Warehouse!Next

\* A call polls at most TurnsLeft times more, however answers and errors alternate: an
\* answer resets the errors, nothing gives back a turn.
BoundedTurns ==
    [][\A c \in Calls :
          /\ TurnsLeft(c) \in Nat
          /\ Warehouse!PollAnswered(c) \/ Warehouse!PollFailed(c) \/ Warehouse!Deadline(c)
                => TurnsLeft(c)' \in 0 .. TurnsLeft(c) - 1
          /\ call[c] = "polling" => TurnsLeft(c)' \in 0 .. TurnsLeft(c)
      ]_(Warehouse!warehouseVars)

LEMMA TurnsBounded ==
    ASSUME Warehouse!WarehouseAssumption
    PROVE  Warehouse!Spec => BoundedTurns
<1>1. WarehouseInv /\ [Warehouse!Next]_(Warehouse!warehouseVars) =>
          [\A c \in Calls :
              /\ TurnsLeft(c) \in Nat
              /\ Warehouse!PollAnswered(c) \/ Warehouse!PollFailed(c) \/ Warehouse!Deadline(c)
                    => TurnsLeft(c)' \in 0 .. TurnsLeft(c) - 1
              /\ call[c] = "polling" => TurnsLeft(c)' \in 0 .. TurnsLeft(c)
          ]_(Warehouse!warehouseVars)
  BY TurnsLeftIsNat, TurnsGoOn, TurnsStay
<1> QED
  BY <1>1, WarehouseInit, WarehouseStep, PTL DEF Warehouse!Spec, BoundedTurns

-----------------------------------------------------------------------------
(* Metering: an event is in one buffer or in one task, or it is stored.    *)

Metered == 1 .. MaxMetered

Ordered(b) == \A i, j \in DOMAIN b : i < j => b[i] < b[j]
Apart(a, b) == \A i \in DOMAIN a, j \in DOMAIN b : a[i] # b[j]

\* A batch of what was recorded so far.
Recent(b, last) == b \in Seq(Metered) /\ Ordered(b) /\ \A i \in DOMAIN b : b[i] <= last

\* What process p may hold in its buffer, given what others hold and what is stored.
Fits(p, b) ==
    /\ \A q \in Processes \ {p} : Apart(b, buffer[q]) /\ Apart(buffer[q], b)
    /\ \A f \in flight : Apart(b, f.batch) /\ Apart(f.batch, b)
    /\ sink = "database" => \A i \in DOMAIN b : stored[b[i]] = 0
    /\ \A i \in DOMAIN b : stored[b[i]] > 0 => failures[p] = Threshold

StoredInv ==
    /\ stored \in [Metered -> 0 .. 2]
    /\ \A e \in Metered : stored[e] > 0 => e <= recorded
    /\ sink = "database" => \A e \in Metered : stored[e] <= 1

FlightInv ==
    /\ flight \subseteq [process : Processes, batch : Seq(Metered)]
    /\ \A f \in flight : /\ Recent(f.batch, recorded)
                         /\ \A i \in DOMAIN f.batch : stored[f.batch[i]] = 0
                         /\ \A g \in flight \ {f} : Apart(f.batch, g.batch)
    /\ sink # "database" => flight = {}

BufferInv ==
    /\ buffer \in [Processes -> Seq(Metered)]
    /\ \A p \in Processes : Recent(buffer[p], recorded) /\ Fits(p, buffer[p])

MeteringInv ==
    /\ recorded \in 0 .. MaxMetered /\ failures \in [Processes -> 0 .. Threshold]
    /\ StoredInv /\ FlightInv /\ BufferInv

LEMMA MeteringInit == Meter!MeteringAssumption /\ Meter!Init => MeteringInv
<1> SUFFICES ASSUME Meter!MeteringAssumption, Meter!Init PROVE MeteringInv
  OBVIOUS
<1>1. recorded \in 0 .. MaxMetered /\ failures \in [Processes -> 0 .. Threshold]
  BY DEF Meter!MeteringAssumption, Meter!Init
<1>2. StoredInv
  BY DEF Meter!Init, Meter!Events, StoredInv, Metered
<1>3. FlightInv
  BY DEF Meter!Init, FlightInv
<1>4. BufferInv
  BY DEF Meter!Init, BufferInv, Recent, Ordered, Fits, Apart
<1> QED
  BY <1>1, <1>2, <1>3, <1>4 DEF MeteringInv

\* A batch that is stored: its events once more, the others as they are.
LEMMA AlsoStored ==
    ASSUME StoredInv, NEW b \in Seq(Metered)
    PROVE  /\ Meter!StoredAlso(b) \in [Metered -> 0 .. 2]
           /\ \A e \in Metered :
                 /\ (\A i \in DOMAIN b : b[i] # e) => Meter!StoredAlso(b)[e] = stored[e]
                 /\ (stored[e] = 0 /\ \E i \in DOMAIN b : b[i] = e) => Meter!StoredAlso(b)[e] = 1
                 /\ Meter!StoredAlso(b)[e] > 0 => stored[e] > 0 \/ \E i \in DOMAIN b : b[i] = e
<1>1. \A e \in Metered : e \in Meter!ToSet(b) <=> \E i \in DOMAIN b : b[i] = e
  BY DEF Meter!ToSet
<1>2. Meter!StoredAlso(b) = [e \in Metered |-> IF e \in Meter!ToSet(b) /\ stored[e] < 2
                                               THEN stored[e] + 1 ELSE stored[e]]
  BY DEF Meter!StoredAlso, Meter!Events, Metered
<1> QED
  BY <1>1, <1>2 DEF StoredInv

\* A part of a batch.
LEMMA Part ==
    ASSUME NEW b \in Seq(Metered), NEW k \in 1 .. Len(b) + 1, NEW m \in k - 1 .. Len(b)
    PROVE  /\ SubSeq(b, k, m) \in Seq(Metered) /\ DOMAIN SubSeq(b, k, m) = 1 .. m - k + 1
           /\ \A i \in 1 .. m - k + 1 : SubSeq(b, k, m)[i] = b[k + i - 1]
                                        /\ k + i - 1 \in DOMAIN b
  OBVIOUS

LEMMA KeptIsPart ==
    ASSUME Meter!MeteringAssumption, NEW b \in Seq(Metered), b # <<>>
    PROVE  /\ Meter!Kept(b) \in Seq(Metered)
           /\ \E s \in Nat : /\ DOMAIN Meter!Kept(b) = 1 .. Len(b) - s
                             /\ \A i \in 1 .. Len(b) - s : /\ Meter!Kept(b)[i] = b[s + i]
                                                           /\ s + i \in DOMAIN b
<1>1. Len(b) \in Nat /\ Len(b) > 0
  OBVIOUS
<1>2. KeepDivisor \in Nat /\ KeepDivisor > 0
  BY DEF Meter!MeteringAssumption
<1>3. Len(b) \div KeepDivisor \in Nat /\ Len(b) \div KeepDivisor <= Len(b)
  BY <1>1, <1>2
<1>4. Meter!KeepCount(b) \in 1 .. Len(b)
  BY <1>1, <1>3 DEF Meter!KeepCount
<1> DEFINE s == Len(b) - Meter!KeepCount(b)
<1>5. s \in Nat /\ s + 1 \in 1 .. Len(b) + 1 /\ Len(b) \in s .. Len(b)
  BY <1>1, <1>4
<1>6. Meter!Kept(b) = SubSeq(b, s + 1, Len(b))
  BY DEF Meter!Kept
<1> HIDE DEF s
<1> QED
  BY <1>1, <1>5, <1>6, Part

LEMMA BatchIsStored ==
    ASSUME StoredInv, NEW last \in Nat, NEW b, Recent(b, last), recorded' = last,
           recorded \in Nat, recorded <= last, stored' = Meter!StoredAlso(b), UNCHANGED sink,
           sink = "database" => \A i \in DOMAIN b : stored[b[i]] = 0
    PROVE  StoredInv'
<1>1. b \in Seq(Metered) /\ \A i \in DOMAIN b : b[i] <= last /\ b[i] \in Metered
  BY DEF Recent
<1>2. stored' \in [Metered -> 0 .. 2]
  BY <1>1, AlsoStored
<1>3. ASSUME NEW e \in Metered, stored'[e] > 0
      PROVE  e <= last
  <2>1. stored[e] > 0 \/ \E i \in DOMAIN b : b[i] = e
    BY <1>1, <1>3, AlsoStored
  <2>2. e <= recorded \/ e <= last
    BY <1>1, <2>1 DEF StoredInv
  <2> QED
    BY <2>2 DEF Metered
<1>4. ASSUME sink = "database", NEW e \in Metered
      PROVE  stored'[e] <= 1
  <2>1. CASE \E i \in DOMAIN b : b[i] = e
    BY <1>1, <1>4, <2>1, AlsoStored
  <2>2. CASE ~ \E i \in DOMAIN b : b[i] = e
    BY <1>1, <1>4, <2>2, AlsoStored DEF StoredInv
  <2> QED
    BY <2>1, <2>2
<1> QED
  BY <1>2, <1>3, <1>4 DEF StoredInv

\* The buffer of one process changes, and nothing of the events of the others.
LEMMA BufferChanges ==
    ASSUME BufferInv, MaxMetered \in Nat, recorded \in Nat, NEW p \in Processes,
           NEW last \in Nat, recorded <= last, recorded' = last, UNCHANGED sink,
           NEW c, Recent(c, last), buffer' = [buffer EXCEPT ![p] = c],
           \A q \in Processes \ {p} :
              /\ Apart(c, buffer[q]) /\ Apart(buffer[q], c) /\ failures'[q] = failures[q]
              /\ \A f \in flight' : Apart(f.batch, buffer[q]) /\ Apart(buffer[q], f.batch)
              /\ \A i \in DOMAIN buffer[q] : stored'[buffer[q][i]] = stored[buffer[q][i]],
           \A f \in flight' : Apart(c, f.batch) /\ Apart(f.batch, c),
           sink = "database" => \A i \in DOMAIN c : stored'[c[i]] = 0,
           \A i \in DOMAIN c : stored'[c[i]] > 0 => failures'[p] = Threshold
    PROVE  BufferInv'
<1>1. buffer' \in [Processes -> Seq(Metered)]
  BY DEF BufferInv, Recent
<1>2. buffer'[p] = c /\ \A q \in Processes \ {p} : buffer'[q] = buffer[q]
  BY DEF BufferInv
<1>3. ASSUME NEW q \in Processes \ {p}
      PROVE  Recent(buffer'[q], recorded') /\ Fits(q, buffer[q])'
  <2>1. Recent(buffer[q], recorded) /\ Fits(q, buffer[q])
    BY DEF BufferInv
  <2>2. Recent(buffer'[q], recorded')
    <3>0. \A i \in DOMAIN buffer[q] : buffer[q][i] \in Metered
      BY <2>1 DEF Recent
    <3>1. \A i \in DOMAIN buffer[q] : buffer[q][i] \in Nat
      BY <3>0 DEF Metered
    <3> QED
      BY <1>2, <2>1, <3>1 DEF Recent
  <2>3. \A r \in Processes \ {q} : Apart(buffer'[q], buffer'[r]) /\ Apart(buffer'[r], buffer'[q])
    BY <1>2, <2>1 DEF Fits
  <2>4. \A f \in flight' : Apart(buffer'[q], f.batch) /\ Apart(f.batch, buffer'[q])
    BY <1>2
  <2>5. sink' = "database" => \A i \in DOMAIN buffer'[q] : stored'[buffer'[q][i]] = 0
    BY <1>2, <2>1 DEF Fits
  <2>6. \A i \in DOMAIN buffer'[q] : stored'[buffer'[q][i]] > 0 => failures'[q] = Threshold
    BY <1>2, <2>1 DEF Fits
  <2> QED
    BY <2>2, <2>3, <2>4, <2>5, <2>6 DEF Fits
<1>4. Recent(buffer'[p], recorded') /\ Fits(p, buffer[p])'
  BY <1>2 DEF Fits
<1> QED
  BY <1>1, <1>3, <1>4 DEF BufferInv

LEMMA BufferEmptied ==
    ASSUME BufferInv, MaxMetered \in Nat, recorded \in Nat, NEW p \in Processes,
           NEW last \in Nat, recorded <= last, recorded' = last, UNCHANGED sink,
           buffer' = [buffer EXCEPT ![p] = <<>>],
           \A q \in Processes \ {p} :
              /\ failures'[q] = failures[q]
              /\ \A f \in flight' : Apart(f.batch, buffer[q]) /\ Apart(buffer[q], f.batch)
              /\ \A i \in DOMAIN buffer[q] : stored'[buffer[q][i]] = stored[buffer[q][i]]
    PROVE  BufferInv'
<1> DEFINE c == <<>>
<1>1. /\ Recent(c, last) /\ DOMAIN c = {}
      /\ \A b : Apart(c, b) /\ Apart(b, c)
  BY DEF Recent, Ordered, Apart
<1>2. buffer' = [buffer EXCEPT ![p] = c]
  OBVIOUS
<1> HIDE DEF c
<1>3. \A q \in Processes \ {p} :
         /\ Apart(c, buffer[q]) /\ Apart(buffer[q], c) /\ failures'[q] = failures[q]
         /\ \A f \in flight' : Apart(f.batch, buffer[q]) /\ Apart(buffer[q], f.batch)
         /\ \A i \in DOMAIN buffer[q] : stored'[buffer[q][i]] = stored[buffer[q][i]]
  BY <1>1
<1>4. /\ \A f \in flight' : Apart(c, f.batch) /\ Apart(f.batch, c)
      /\ \A i \in DOMAIN c : stored'[c[i]] = 0
      /\ \A i \in DOMAIN c : stored'[c[i]] > 0 => failures'[p] = Threshold
  BY <1>1
<1> QED
  BY <1>1, <1>2, <1>3, <1>4, BufferChanges

\* _flush_locked, with a batch that fits.
LEMMA FlushStep ==
    ASSUME Meter!MeteringAssumption, MeteringInv, NEW p \in Processes,
           NEW last \in recorded .. MaxMetered, recorded' = last, UNCHANGED sink,
           NEW b, b # <<>>, Recent(b, last), Fits(p, b), Meter!FlushLocked(p, b)
    PROVE  MeteringInv'
<1>0. /\ recorded \in Nat /\ last \in Nat /\ recorded <= last /\ MaxMetered \in Nat
      /\ recorded' \in 0 .. MaxMetered /\ Threshold \in Nat /\ Threshold > 0
  BY DEF MeteringInv, Meter!MeteringAssumption
<1>1. b \in Seq(Metered) /\ \A i \in DOMAIN b : b[i] \in Metered /\ b[i] <= last
  BY DEF Recent
<1>2. ASSUME UNCHANGED stored
      PROVE  StoredInv'
  BY <1>0, <1>2 DEF MeteringInv, StoredInv, Metered
<1>3. ASSUME UNCHANGED <<stored, flight>>
      PROVE  FlightInv'
  <2>1. ASSUME NEW f \in flight, NEW i \in DOMAIN f.batch
        PROVE  f.batch[i] <= last
    <3>1. f.batch[i] \in Metered /\ f.batch[i] <= recorded
      BY DEF MeteringInv, FlightInv, Recent
    <3> QED
      BY <1>0, <3>1 DEF Metered
  <2> QED
    BY <1>0, <1>3, <2>1 DEF MeteringInv, FlightInv, Recent
<1>4. CASE Meter!DropAll(p, b)
  <2>1. /\ buffer' = [buffer EXCEPT ![p] = <<>>]
        /\ UNCHANGED <<flight, stored, failures>>
    BY <1>4 DEF Meter!DropAll, Meter!Buffer
  <2>2. BufferInv'
    BY <1>0, <2>1, BufferEmptied DEF MeteringInv, BufferInv, Fits
  <2> QED
    BY <1>0, <1>2, <1>3, <2>1, <2>2 DEF MeteringInv
<1>5. CASE Meter!HandOver(p, b)
  <2> DEFINE new == [process |-> p, batch |-> b]
  <2>1. /\ sink = "database" /\ buffer' = [buffer EXCEPT ![p] = <<>>]
        /\ flight' = flight \cup {new} /\ UNCHANGED stored
        /\ failures' \in [Processes -> 0 .. Threshold]
        /\ \A q \in Processes \ {p} : failures'[q] = failures[q]
    BY <1>0, <1>5 DEF Meter!HandOver, Meter!Buffer, MeteringInv
  <2>2. /\ new \in [process : Processes, batch : Seq(Metered)] /\ new.batch = b
    BY <1>1
  <2> HIDE DEF new
  <2>3. FlightInv'
    <3>1. ASSUME NEW f \in flight
          PROVE  Recent(f.batch, last)
      <4>1. \A i \in DOMAIN f.batch : f.batch[i] \in Metered /\ f.batch[i] <= recorded
        BY DEF MeteringInv, FlightInv, Recent
      <4> QED
        BY <1>0, <4>1 DEF MeteringInv, FlightInv, Recent, Metered
    <3>2. ASSUME NEW f \in flight'
          PROVE  /\ Recent(f.batch, last)
                 /\ \A i \in DOMAIN f.batch : stored'[f.batch[i]] = 0
                 /\ \A g \in flight' \ {f} : Apart(f.batch, g.batch)
      BY <2>1, <2>2, <3>1 DEF MeteringInv, FlightInv, Fits
    <3> QED
      BY <2>1, <2>2, <3>2 DEF MeteringInv, FlightInv
  <2>4. BufferInv'
    <3>1. ASSUME NEW q \in Processes \ {p}, NEW f \in flight'
          PROVE  Apart(f.batch, buffer[q]) /\ Apart(buffer[q], f.batch)
      BY <2>1, <2>2 DEF MeteringInv, BufferInv, Fits
    <3> QED
      BY <1>0, <2>1, <3>1, BufferEmptied DEF MeteringInv
  <2> QED
    BY <1>0, <1>2, <2>1, <2>3, <2>4 DEF MeteringInv
<1>6. ASSUME sink = "file", NEW s, Recent(s, last), stored' = Meter!StoredAlso(s),
             \A i \in DOMAIN s : \E j \in DOMAIN b : s[i] = b[j], UNCHANGED flight
      PROVE  /\ StoredInv' /\ FlightInv'
             /\ \A q \in Processes \ {p} : \A i \in DOMAIN buffer[q] :
                    stored'[buffer[q][i]] = stored[buffer[q][i]]
  <2>1. StoredInv'
    BY <1>0, <1>6, BatchIsStored DEF MeteringInv
  <2>2. FlightInv'
    BY <1>6 DEF MeteringInv, FlightInv
  <2>3. ASSUME NEW q \in Processes \ {p}, NEW i \in DOMAIN buffer[q]
        PROVE  stored'[buffer[q][i]] = stored[buffer[q][i]]
    <3>1. buffer[q][i] \in Metered
      BY DEF MeteringInv, BufferInv, Recent
    <3>2. \A j \in DOMAIN s : s[j] # buffer[q][i]
      BY <1>6 DEF Fits, Apart
    <3> QED
      BY <1>6, <3>1, <3>2, AlsoStored DEF MeteringInv, Recent
  <2> QED
    BY <2>1, <2>2, <2>3
<1>7. CASE Meter!WriteFile(p, b)
  <2>1. /\ sink = "file" /\ buffer' = [buffer EXCEPT ![p] = <<>>]
        /\ stored' = Meter!StoredAlso(b) /\ UNCHANGED flight
        /\ failures' \in [Processes -> 0 .. Threshold]
        /\ \A q \in Processes \ {p} : failures'[q] = failures[q]
    BY <1>0, <1>7 DEF Meter!WriteFile, Meter!Buffer, MeteringInv
  <2>2. /\ StoredInv' /\ FlightInv'
        /\ \A q \in Processes \ {p} : \A i \in DOMAIN buffer[q] :
               stored'[buffer[q][i]] = stored[buffer[q][i]]
    BY <1>6, <2>1
  <2>3. BufferInv'
    BY <1>0, <2>1, <2>2, BufferEmptied DEF MeteringInv, BufferInv, Fits
  <2> QED
    BY <1>0, <2>1, <2>2, <2>3 DEF MeteringInv
<1>8. CASE Meter!FailFile(p, b)
  <2>1. PICK written \in 0 .. Len(b) - 1 : stored' = Meter!StoredAlso(SubSeq(b, 1, written))
    BY <1>8 DEF Meter!FailFile
  <2>2. /\ sink = "file" /\ UNCHANGED flight
        /\ failures' \in [Processes -> 0 .. Threshold]
        /\ \A q \in Processes \ {p} : failures'[q] = failures[q]
    BY <1>0, <1>8 DEF Meter!FailFile, MeteringInv
  <2> DEFINE s == SubSeq(b, 1, written)
  <2>3. Recent(s, last) /\ \A i \in DOMAIN s : \E j \in DOMAIN b : s[i] = b[j]
    <3>1. /\ s \in Seq(Metered) /\ DOMAIN s = 1 .. written
          /\ \A i \in 1 .. written : s[i] = b[i] /\ i \in DOMAIN b
      BY <1>1
    <3> HIDE DEF s
    <3> QED
      BY <3>1 DEF Recent, Ordered
  <2>4. /\ StoredInv' /\ FlightInv'
        /\ \A q \in Processes \ {p} : \A i \in DOMAIN buffer[q] :
               stored'[buffer[q][i]] = stored[buffer[q][i]]
    <3> HIDE DEF s
    <3> QED
      BY <1>6, <2>1, <2>2, <2>3 DEF s
  <2>5. CASE failures[p] + 1 >= Threshold
    <3> DEFINE c == Meter!Kept(b)
    <3>1. buffer' = [buffer EXCEPT ![p] = c] /\ failures'[p] = Threshold
      BY <1>0, <1>8, <2>5 DEF Meter!FailFile, Meter!Buffer, MeteringInv
    <3>2. /\ c \in Seq(Metered)
          /\ \E k \in Nat : /\ DOMAIN c = 1 .. Len(b) - k
                            /\ \A i \in 1 .. Len(b) - k : c[i] = b[k + i] /\ k + i \in DOMAIN b
      BY <1>1, KeptIsPart
    <3> HIDE DEF c
    <3>3. Recent(c, last)
      <4>1. PICK k \in Nat : /\ DOMAIN c = 1 .. Len(b) - k
                             /\ \A i \in 1 .. Len(b) - k : c[i] = b[k + i] /\ k + i \in DOMAIN b
        BY <3>2
      <4>2. \A i \in DOMAIN c : c[i] <= last
        BY <1>1, <4>1
      <4>3. ASSUME NEW i \in DOMAIN c, NEW j \in DOMAIN c, i < j
            PROVE  c[i] < c[j]
        <5>1. /\ i \in Nat /\ j \in Nat /\ k + i \in DOMAIN b /\ k + j \in DOMAIN b
              /\ c[i] = b[k + i] /\ c[j] = b[k + j]
          BY <4>1
        <5>2. k + i < k + j
          BY <4>3, <5>1
        <5> QED
          BY <5>1, <5>2 DEF Recent, Ordered
      <4> QED
        BY <3>2, <4>2, <4>3 DEF Recent, Ordered
    <3>4. \A i \in DOMAIN c : \E j \in DOMAIN b : c[i] = b[j]
      BY <3>2
    <3>5. \A q \in Processes \ {p} : Apart(c, buffer[q]) /\ Apart(buffer[q], c)
      BY <3>4 DEF Fits, Apart
    <3>6. flight' = {}
      BY <2>2 DEF MeteringInv, FlightInv
    <3>7. BufferInv'
      BY <1>0, <2>2, <2>4, <3>1, <3>3, <3>5, <3>6, BufferChanges DEF MeteringInv
    <3> QED
      BY <1>0, <2>2, <2>4, <3>7 DEF MeteringInv
  <2>6. CASE ~ (failures[p] + 1 >= Threshold)
    <3>1. buffer' = [buffer EXCEPT ![p] = <<>>]
      BY <1>8, <2>6 DEF Meter!FailFile, Meter!Buffer
    <3>2. BufferInv /\ UNCHANGED <<sink, flight>> /\ flight' = {}
      BY <1>0, <2>2 DEF MeteringInv, FlightInv
    <3>3. BufferInv'
      BY <1>0, <2>2, <2>4, <3>1, <3>2, BufferEmptied
    <3> QED
      BY <1>0, <2>2, <2>4, <3>3 DEF MeteringInv
  <2> QED
    BY <2>5, <2>6
<1> QED
  BY <1>4, <1>5, <1>7, <1>8 DEF Meter!FlushLocked

\* The batch with a new event.
LEMMA WithNewEvent ==
    ASSUME Meter!MeteringAssumption, MeteringInv, NEW p \in Processes, recorded < MaxMetered
    PROVE  LET b == Append(buffer[p], recorded + 1)
           IN  b # <<>> /\ Recent(b, recorded + 1) /\ Fits(p, b)
<1> DEFINE b == Append(buffer[p], recorded + 1)
           n == Len(buffer[p])
<1>0. recorded \in Nat /\ MaxMetered \in Nat
  BY DEF Meter!MeteringAssumption, MeteringInv
<1>1. /\ buffer[p] \in Seq(Metered) /\ Recent(buffer[p], recorded) /\ Fits(p, buffer[p])
      /\ recorded + 1 \in Metered
  BY <1>0 DEF MeteringInv, BufferInv, Metered
<1>2. /\ b \in Seq(Metered) /\ b # <<>> /\ n \in Nat /\ DOMAIN buffer[p] = 1 .. n
      /\ DOMAIN b = 1 .. n + 1 /\ b[n + 1] = recorded + 1
      /\ \A i \in 1 .. n : b[i] = buffer[p][i]
  BY <1>1
<1>3. \A i \in 1 .. n : b[i] \in Metered /\ b[i] \in Nat /\ b[i] <= recorded
  <2>1. \A i \in 1 .. n : b[i] \in Metered /\ b[i] <= recorded
    BY <1>1, <1>2 DEF Recent
  <2> QED
    BY <1>0, <2>1 DEF Metered
<1>4. stored[recorded + 1] = 0
  <2>1. stored[recorded + 1] \in 0 .. 2
    BY <1>1 DEF MeteringInv, StoredInv
  <2>2. ~ (stored[recorded + 1] > 0)
    BY <1>0, <1>1 DEF MeteringInv, StoredInv
  <2> QED
    BY <2>1, <2>2
<1> HIDE DEF b, n
<1>5. Recent(b, recorded + 1)
  <2>1. ASSUME NEW i \in 1 .. n + 1, NEW j \in 1 .. n + 1, i < j
        PROVE  b[i] < b[j]
    <3>1. CASE j = n + 1
      BY <1>0, <1>2, <1>3, <2>1, <3>1
    <3>2. CASE j # n + 1
      BY <1>1, <1>2, <2>1, <3>2 DEF Recent, Ordered
    <3> QED
      BY <3>1, <3>2
  <2>2. \A i \in 1 .. n + 1 : b[i] <= recorded + 1
    BY <1>0, <1>2, <1>3
  <2> QED
    BY <1>2, <2>1, <2>2 DEF Recent, Ordered
\* Nobody else has an event that is not recorded yet.
<1>6. ASSUME NEW other, Recent(other, recorded), Apart(buffer[p], other), Apart(other, buffer[p])
      PROVE  Apart(b, other) /\ Apart(other, b)
  <2>1. \A j \in DOMAIN other : other[j] # recorded + 1
    <3>1. \A j \in DOMAIN other : other[j] \in Metered /\ other[j] <= recorded
      BY <1>6 DEF Recent
    <3> QED
      BY <1>0, <3>1 DEF Metered
  <2> QED
    BY <1>2, <1>6, <2>1 DEF Apart
<1>7. Fits(p, b)
  <2>1. \A q \in Processes \ {p} : Apart(b, buffer[q]) /\ Apart(buffer[q], b)
    BY <1>1, <1>6 DEF MeteringInv, BufferInv, Fits
  <2>2. \A f \in flight : Apart(b, f.batch) /\ Apart(f.batch, b)
    BY <1>1, <1>6 DEF MeteringInv, FlightInv, Fits
  <2>3. sink = "database" => \A i \in DOMAIN b : stored[b[i]] = 0
    BY <1>1, <1>2, <1>4 DEF Fits
  <2>4. \A i \in DOMAIN b : stored[b[i]] > 0 => failures[p] = Threshold
    BY <1>1, <1>2, <1>4 DEF Fits
  <2> QED
    BY <2>1, <2>2, <2>3, <2>4 DEF Fits
<1> QED
  BY <1>2, <1>5, <1>7 DEF b

LEMMA RecordStep ==
    ASSUME Meter!MeteringAssumption, MeteringInv, NEW p \in Processes, Meter!Record(p)
    PROVE  MeteringInv'
<1> DEFINE b == Append(buffer[p], recorded + 1)
<1>0. /\ recorded \in Nat /\ MaxMetered \in Nat /\ recorded < MaxMetered
      /\ recorded' = recorded + 1 /\ UNCHANGED sink
      /\ recorded + 1 \in recorded .. MaxMetered
  BY DEF Meter!MeteringAssumption, MeteringInv, Meter!Record
<1>1. b # <<>> /\ Recent(b, recorded + 1) /\ Fits(p, b)
  BY <1>0, WithNewEvent
<1>2. \/ Meter!FlushLocked(p, b)
      \/ buffer' = [buffer EXCEPT ![p] = b] /\ UNCHANGED <<flight, stored, failures>>
  BY DEF Meter!Record, Meter!Buffer
<1> HIDE DEF b
<1>3. CASE Meter!FlushLocked(p, b)
  BY <1>0, <1>1, <1>3, FlushStep
<1>4. CASE buffer' = [buffer EXCEPT ![p] = b] /\ UNCHANGED <<flight, stored, failures>>
  <2>1. StoredInv'
    BY <1>0, <1>4 DEF MeteringInv, StoredInv, Metered
  <2>2. FlightInv'
    <3>1. ASSUME NEW f \in flight, NEW i \in DOMAIN f.batch
          PROVE  f.batch[i] <= recorded + 1
      <4>1. f.batch[i] \in Metered /\ f.batch[i] <= recorded
        BY DEF MeteringInv, FlightInv, Recent
      <4> QED
        BY <1>0, <4>1 DEF Metered
    <3> QED
      BY <1>0, <1>4, <3>1 DEF MeteringInv, FlightInv, Recent
  <2>3. BufferInv'
    <3>1. \A q \in Processes \ {p} :
             /\ Apart(b, buffer[q]) /\ Apart(buffer[q], b) /\ failures'[q] = failures[q]
             /\ \A f \in flight' : Apart(f.batch, buffer[q]) /\ Apart(buffer[q], f.batch)
             /\ \A i \in DOMAIN buffer[q] : stored'[buffer[q][i]] = stored[buffer[q][i]]
      BY <1>1, <1>4 DEF MeteringInv, BufferInv, Fits
    <3>2. /\ \A f \in flight' : Apart(b, f.batch) /\ Apart(f.batch, b)
          /\ sink = "database" => \A i \in DOMAIN b : stored'[b[i]] = 0
          /\ \A i \in DOMAIN b : stored'[b[i]] > 0 => failures'[p] = Threshold
      BY <1>1, <1>4 DEF Fits
    <3>3. recorded + 1 \in Nat /\ recorded <= recorded + 1
      BY <1>0
    <3>4. BufferInv /\ buffer' = [buffer EXCEPT ![p] = b]
      BY <1>4 DEF MeteringInv
    <3> QED
      BY <1>0, <1>1, <3>1, <3>2, <3>3, <3>4, BufferChanges
  <2> QED
    BY <1>0, <1>4, <2>1, <2>2, <2>3 DEF MeteringInv
<1> QED
  BY <1>2, <1>3, <1>4

LEMMA TaskStep ==
    ASSUME Meter!MeteringAssumption, MeteringInv, Meter!TaskEnds
    PROVE  MeteringInv'
<1>1. PICK f \in flight : /\ flight' = flight \ {f}
                          /\ stored' = Meter!StoredAlso(f.batch) \/ UNCHANGED stored
  BY DEF Meter!TaskEnds
<1>2. UNCHANGED <<sink, recorded, buffer, failures>>
  BY DEF Meter!TaskEnds
<1>3. /\ recorded \in Nat /\ sink = "database" /\ f.batch \in Seq(Metered)
      /\ Recent(f.batch, recorded) /\ \A i \in DOMAIN f.batch : stored[f.batch[i]] = 0
  BY DEF MeteringInv, FlightInv, Recent
<1>4. StoredInv'
  <2>1. CASE stored' = Meter!StoredAlso(f.batch)
    BY <1>2, <1>3, <2>1, BatchIsStored DEF MeteringInv
  <2>2. CASE UNCHANGED stored
    BY <1>2, <2>2 DEF MeteringInv, StoredInv
  <2> QED
    BY <1>1, <2>1, <2>2
\* What is stored now was in this batch, and in no other.
<1>5. ASSUME NEW b \in Seq(Metered), Apart(f.batch, b), NEW i \in DOMAIN b
      PROVE  stored'[b[i]] = stored[b[i]]
  <2>1. b[i] \in Metered /\ \A j \in DOMAIN f.batch : f.batch[j] # b[i]
    BY <1>5 DEF Apart
  <2>2. Meter!StoredAlso(f.batch)[b[i]] = stored[b[i]]
    BY <1>3, <2>1, AlsoStored DEF MeteringInv
  <2> QED
    BY <1>1, <2>2
<1>6. FlightInv'
  BY <1>1, <1>2, <1>5 DEF MeteringInv, FlightInv, Recent
<1>7. BufferInv'
  <2>1. ASSUME NEW p \in Processes, NEW i \in DOMAIN buffer[p]
        PROVE  stored'[buffer[p][i]] = stored[buffer[p][i]]
    BY <1>5 DEF MeteringInv, BufferInv, Fits
  <2> QED
    BY <1>1, <1>2, <2>1 DEF MeteringInv, BufferInv, Fits
<1> QED
  BY <1>2, <1>4, <1>6, <1>7 DEF MeteringInv

LEMMA DeathStep ==
    ASSUME Meter!MeteringAssumption, MeteringInv, NEW p \in Processes, Meter!ProcessDies(p)
    PROVE  MeteringInv'
<1>0. recorded \in Nat /\ MaxMetered \in Nat /\ Threshold \in Nat
  BY DEF Meter!MeteringAssumption, MeteringInv
<1>1. /\ buffer' = [buffer EXCEPT ![p] = <<>>] /\ flight' \subseteq flight
      /\ failures' = [failures EXCEPT ![p] = 0] /\ UNCHANGED <<sink, recorded, stored>>
  BY DEF Meter!ProcessDies, Meter!Buffer
<1>2. StoredInv' /\ FlightInv'
  BY <1>1 DEF MeteringInv, StoredInv, FlightInv
<1>3. BufferInv'
  <2>1. \A q \in Processes \ {p} :
           /\ failures'[q] = failures[q]
           /\ \A f \in flight' : Apart(f.batch, buffer[q]) /\ Apart(buffer[q], f.batch)
           /\ \A i \in DOMAIN buffer[q] : stored'[buffer[q][i]] = stored[buffer[q][i]]
    BY <1>1 DEF MeteringInv, BufferInv, Fits
  <2>2. BufferInv /\ recorded <= recorded /\ recorded' = recorded
    BY <1>0, <1>1 DEF MeteringInv
  <2> QED
    BY <1>0, <1>1, <2>1, <2>2, BufferEmptied
<1> QED
  BY <1>0, <1>1, <1>2, <1>3 DEF MeteringInv

LEMMA MeteringStep ==
    /\ Meter!MeteringAssumption /\ MeteringInv
    /\ [Meter!Next]_(Meter!meteringVars)
    => MeteringInv'
<1> SUFFICES ASSUME Meter!MeteringAssumption, MeteringInv, [Meter!Next]_(Meter!meteringVars)
             PROVE  MeteringInv'
  OBVIOUS
<1>1. ASSUME NEW p \in Processes, Meter!Flush(p)
      PROVE  MeteringInv'
  <2>1. /\ Meter!FlushLocked(p, buffer[p]) /\ buffer[p] # <<>> /\ UNCHANGED <<sink, recorded>>
        /\ recorded \in recorded .. MaxMetered
    BY <1>1 DEF Meter!Flush, MeteringInv
  <2>2. Recent(buffer[p], recorded) /\ Fits(p, buffer[p])
    BY DEF MeteringInv, BufferInv
  <2> QED
    BY <2>1, <2>2, FlushStep
<1>2. ASSUME UNCHANGED <<sink, recorded, buffer, flight, stored, failures>>
      PROVE  MeteringInv'
  BY <1>2 DEF MeteringInv, StoredInv, FlightInv, BufferInv, Fits
<1>3. ASSUME NEW p \in Processes,
             (\E r \in Requests : Meter!Check(r, p)) \/ Meter!EndRequest(p) \/ Meter!BackoffEnds(p)
      PROVE  MeteringInv'
  BY <1>2, <1>3 DEF Meter!Check, Meter!EndRequest, Meter!BackoffEnds, Meter!collector
<1>4. CASE UNCHANGED Meter!meteringVars
  BY <1>2, <1>4 DEF Meter!meteringVars, Meter!collector
<1> QED
  BY <1>1, <1>3, <1>4, RecordStep, TaskStep, DeathStep DEF Meter!Next

LEMMA StoredOnce ==
    ASSUME Meter!MeteringAssumption
    PROVE  Meter!Spec => []Meter!BilledOnce
<1>1. MeteringInv => Meter!BilledOnce
  BY DEF MeteringInv, StoredInv, FlightInv, BufferInv, Fits, Recent, Ordered, Metered,
         Meter!BilledOnce, Meter!Batches, Meter!Events
<1> QED
  BY <1>1, MeteringInit, MeteringStep, PTL DEF Meter!Spec

-----------------------------------------------------------------------------
(* Invoices: the number of a row that is not committed is the next one.    *)

LEMMA InvoiceCardinality ==
    /\ \A S : Invoice!IsFiniteSet(S) <=> IsFiniteSet(S)
    /\ \A S : Invoice!Cardinality(S) = Cardinality(S)
  BY DEF Invoice!Cardinality, Cardinality, Invoice!IsFiniteSet, IsFiniteSet

Begun == [pc : {"begun"}, process : Processes, stripe : StripeIds \cup {NoStripe}]
Numbered == [pc : {"numbered", "inserted"}, process : Processes,
             stripe : StripeIds \cup {NoStripe}, month : Months, number : Nat]
MakingLocals == {Invoice!Idle} \cup Begun \cup Numbered

InvoiceRows == [month : Months, number : Nat, stripe : StripeIds \cup {NoStripe}]

OfMonth(m) == {i \in invoices : i.month = m}
Inserted == {r \in Requests : making[r].pc = "inserted"}

InvoiceTypes ==
    /\ month \in Months /\ pdfs \in Nat
    /\ invoices \subseteq InvoiceRows /\ IsFiniteSet(invoices)
    /\ making \in [Requests -> MakingLocals]

NumberInv ==
    /\ \A m \in Months : {i.number : i \in OfMonth(m)} = 1 .. Cardinality(OfMonth(m))
    /\ \A r \in Requests : making[r] \in Numbered =>
          making[r].number \in 1 .. Cardinality(OfMonth(making[r].month)) + 1
    /\ \A r \in Inserted : /\ \A i \in invoices : ~ Invoice!Same(i, making[r])
                           /\ \A q \in Inserted \ {r} : ~ Invoice!Same(making[q], making[r])

PdfInv == Cardinality(invoices) + Cardinality(Inserted) <= pdfs

InvoiceInv == InvoiceTypes /\ NumberInv /\ PdfInv

LEMMA MakingByPlace ==
    ASSUME NEW v \in MakingLocals
    PROVE  /\ v.pc = "idle" <=> v = Invoice!Idle
           /\ v.pc = "begun" <=> v \in Begun
           /\ v.pc \in {"numbered", "inserted"} <=> v \in Numbered
<1>1. CASE v = Invoice!Idle
  BY <1>1 DEF Invoice!Idle, Begun, Numbered
<1>2. CASE v \in Begun
  BY <1>2 DEF Invoice!Idle, Begun, Numbered
<1>3. CASE v \in Numbered
  BY <1>3 DEF Invoice!Idle, Begun, Numbered
<1> QED
  BY <1>1, <1>2, <1>3 DEF MakingLocals

LEMMA FiniteMonths ==
    ASSUME InvoiceTypes, NEW m
    PROVE  /\ IsFiniteSet(OfMonth(m)) /\ Cardinality(OfMonth(m)) \in Nat
  BY FS_Subset, FS_CardinalityType DEF InvoiceTypes, OfMonth

LEMMA FiniteInserted ==
    ASSUME Invoice!InvoicesAssumption
    PROVE  IsFiniteSet(Inserted) /\ Cardinality(Inserted) \in Nat
<1>1. IsFiniteSet(Requests)
  BY InvoiceCardinality DEF Invoice!InvoicesAssumption
<1>2. Inserted \in SUBSET Requests
  BY DEF Inserted
<1> QED
  BY <1>1, <1>2, FS_Subset, FS_CardinalityType

LEMMA InvoiceInit == Invoice!InvoicesAssumption /\ Invoice!Init => InvoiceInv
<1> SUFFICES ASSUME Invoice!InvoicesAssumption, Invoice!Init PROVE InvoiceInv
  OBVIOUS
<1>1. InvoiceTypes
  BY FS_EmptySet DEF Invoice!InvoicesAssumption, Invoice!Init, InvoiceTypes, MakingLocals
<1>2. \A r \in Requests : making[r].pc = "idle" /\ making[r] = Invoice!Idle
  BY DEF Invoice!Init, Invoice!Idle
<1>3. Inserted = {} /\ Cardinality(Inserted) = 0 /\ Cardinality(invoices) = 0
  BY <1>2, FS_EmptySet DEF Inserted, Invoice!Init
<1>4. \A m : OfMonth(m) = {} /\ Cardinality(OfMonth(m)) = 0
  BY FS_EmptySet DEF OfMonth, Invoice!Init
<1>5. NumberInv
  <2>1. \A r \in Requests : making[r] \notin Numbered
    BY <1>1, <1>2, MakingByPlace DEF InvoiceTypes
  <2> QED
    BY <1>3, <1>4, <2>1 DEF NumberInv
<1>6. PdfInv
  BY <1>3 DEF PdfInv, Invoice!Init
<1> QED
  BY <1>1, <1>5, <1>6 DEF InvoiceInv

\* A request moves, and no row is committed.
LEMMA MakingMoves ==
    ASSUME Invoice!InvoicesAssumption, InvoiceInv, NEW r \in Requests, NEW v \in MakingLocals,
           Invoice!Step(r, v), UNCHANGED invoices, month' \in Months, pdfs' \in Nat,
           v \in Numbered => v.number \in 1 .. Cardinality(OfMonth(v.month)) + 1,
           v.pc = "inserted" =>
              /\ pdfs' = pdfs + 1 /\ making[r].pc = "numbered"
              /\ \A i \in invoices : ~ Invoice!Same(i, v)
              /\ \A q \in Inserted \ {r} : ~ Invoice!Same(making[q], v),
           v.pc # "inserted" => pdfs' >= pdfs
    PROVE  InvoiceInv'
<1>1. /\ making' \in [Requests -> MakingLocals] /\ making'[r] = v
      /\ \A q \in Requests \ {r} : making'[q] = making[q]
  BY DEF Invoice!Step, InvoiceInv, InvoiceTypes
<1>2. InvoiceTypes'
  BY <1>1 DEF InvoiceInv, InvoiceTypes
<1>3. \A m : OfMonth(m)' = OfMonth(m)
  BY DEF OfMonth
<1>4. Inserted' = IF v.pc = "inserted" THEN Inserted \cup {r} ELSE Inserted \ {r}
  BY <1>1 DEF Inserted
<1>5. NumberInv'
  <2>1. \A m \in Months : {i.number : i \in OfMonth(m)'} = 1 .. Cardinality(OfMonth(m)')
    BY <1>3 DEF InvoiceInv, NumberInv
  <2>2. ASSUME NEW q \in Requests, making'[q] \in Numbered
        PROVE  making'[q].number \in 1 .. Cardinality(OfMonth(making'[q].month)) + 1
    BY <1>1, <2>2 DEF InvoiceInv, NumberInv
  <2>3. ASSUME NEW q \in Inserted'
        PROVE  /\ \A i \in invoices : ~ Invoice!Same(i, making'[q])
               /\ \A p \in Inserted' \ {q} : ~ Invoice!Same(making'[p], making'[q])
    <3>1. \A a, b : Invoice!Same(a, b) <=> Invoice!Same(b, a)
      BY DEF Invoice!Same
    <3>2. \A p \in Inserted' : p \in Requests /\ (p # r => p \in Inserted)
      BY <1>4, <2>3 DEF Inserted
    <3>3. r \in Inserted' => v.pc = "inserted"
      BY <1>4
    <3> QED
      BY <1>1, <2>3, <3>1, <3>2, <3>3 DEF InvoiceInv, NumberInv
  <2>4. \A m : Cardinality(OfMonth(m)') = Cardinality(OfMonth(m))
    BY <1>3
  <2> QED
    BY <1>3, <2>1, <2>2, <2>3, <2>4 DEF NumberInv
<1>6. PdfInv'
  <2>1. IsFiniteSet(Inserted) /\ Cardinality(Inserted) \in Nat /\ Cardinality(invoices) \in Nat
    BY FiniteInserted, FS_CardinalityType DEF InvoiceInv, InvoiceTypes
  <2>2. CASE v.pc = "inserted"
    <3>1. Cardinality(Inserted') = Cardinality(Inserted) + 1
      BY <1>4, <2>1, <2>2, FS_AddElement DEF Inserted
    <3> QED
      BY <2>1, <2>2, <3>1 DEF InvoiceInv, InvoiceTypes, PdfInv
  <2>3. CASE v.pc # "inserted"
    <3>1. Cardinality(Inserted') <= Cardinality(Inserted) /\ Cardinality(Inserted') \in Nat
      <4>1. Inserted' \in SUBSET Inserted
        BY <1>4, <2>3
      <4> QED
        BY <2>1, <4>1, FS_Subset, FS_CardinalityType
    <3> QED
      BY <2>1, <2>3, <3>1 DEF InvoiceInv, InvoiceTypes, PdfInv
  <2> QED
    BY <2>2, <2>3
<1> QED
  BY <1>2, <1>5, <1>6 DEF InvoiceInv

LEMMA CommitStep ==
    ASSUME Invoice!InvoicesAssumption, InvoiceInv, NEW r \in Requests, Invoice!Commit(r)
    PROVE  InvoiceInv'
<1> DEFINE new == [month |-> making[r].month, number |-> making[r].number,
                   stripe |-> making[r].stripe]
<1>1. /\ making[r] \in Numbered /\ r \in Inserted
      /\ invoices' = invoices \cup {new} /\ UNCHANGED <<month, pdfs>>
  BY MakingByPlace DEF Invoice!Commit, InvoiceInv, InvoiceTypes, Inserted
<1>2. /\ making' \in [Requests -> MakingLocals] /\ making'[r] = Invoice!Idle
      /\ \A q \in Requests \ {r} : making'[q] = making[q]
  BY DEF Invoice!Commit, Invoice!Step, InvoiceInv, InvoiceTypes, MakingLocals
<1>m. PICK m \in Months : m = making[r].month
  BY <1>1 DEF Numbered
<1>n. PICK n : n = Cardinality(OfMonth(m))
  OBVIOUS
<1>3. /\ making[r].month = m /\ new \in InvoiceRows /\ new.month = m /\ new.number = making[r].number
      /\ Invoice!Same(new, making[r])
  BY <1>1, <1>m DEF Numbered, InvoiceRows, Invoice!Same
<1>4. n \in Nat /\ IsFiniteSet(OfMonth(m))
  BY <1>n, FiniteMonths DEF InvoiceInv
<1>5. new \notin invoices
  BY <1>1, <1>3 DEF InvoiceInv, NumberInv
<1> HIDE DEF new
<1>6. InvoiceTypes'
  BY <1>1, <1>2, <1>3, FS_AddElement DEF InvoiceInv, InvoiceTypes
<1>7. OfMonth(m)' = OfMonth(m) \cup {new} /\ \A k : k # m => OfMonth(k)' = OfMonth(k)
  BY <1>1, <1>3 DEF OfMonth
<1>8. Cardinality(OfMonth(m)') = n + 1
  BY <1>4, <1>5, <1>7, <1>n, FS_AddElement DEF OfMonth
<1>9. new.number = n + 1
  <2>1. new.number \in 1 .. n + 1
    BY <1>1, <1>3, <1>n DEF InvoiceInv, NumberInv
  <2>2. new.number \notin {i.number : i \in OfMonth(m)}
    BY <1>1, <1>3 DEF InvoiceInv, NumberInv, OfMonth, Invoice!Same
  <2>3. {i.number : i \in OfMonth(m)} = 1 .. n
    BY <1>n DEF InvoiceInv, NumberInv
  <2> QED
    BY <1>4, <2>1, <2>2, <2>3
<1>10. Inserted' = Inserted \ {r}
  BY <1>2 DEF Inserted, Invoice!Idle
<1>11. NumberInv'
  <2>1. \A k \in Months : {i.number : i \in OfMonth(k)'} = 1 .. Cardinality(OfMonth(k)')
    <3>1. ASSUME NEW k \in Months, k # m
          PROVE  {i.number : i \in OfMonth(k)'} = 1 .. Cardinality(OfMonth(k)')
      BY <1>7, <3>1 DEF InvoiceInv, NumberInv
    <3>2. {i.number : i \in OfMonth(m)'} = {i.number : i \in OfMonth(m)} \cup {n + 1}
      BY <1>7, <1>9
    <3>3. {i.number : i \in OfMonth(m)} = 1 .. n
      BY <1>n DEF InvoiceInv, NumberInv
    <3>4. {i.number : i \in OfMonth(m)'} = 1 .. n + 1
      BY <1>4, <3>2, <3>3
    <3> QED
      BY <1>8, <3>1, <3>4
  <2>2. \A k : Cardinality(OfMonth(k)) \in Nat /\ Cardinality(OfMonth(k)') \in Nat
               /\ Cardinality(OfMonth(k)) <= Cardinality(OfMonth(k)')
    BY <1>4, <1>7, <1>8, <1>n, FiniteMonths DEF InvoiceInv
  <2>3. ASSUME NEW q \in Requests, making'[q] \in Numbered, NEW k, k = making'[q].month
        PROVE  making'[q].number \in 1 .. Cardinality(OfMonth(k)') + 1
    <3>1. q # r /\ making'[q] = making[q]
      BY <1>2, <2>3 DEF Numbered, Invoice!Idle
    <3>2. making[q].number \in 1 .. Cardinality(OfMonth(k)) + 1
      BY <2>3, <3>1 DEF InvoiceInv, NumberInv
    <3> QED
      BY <2>2, <3>1, <3>2
  <2>4. ASSUME NEW q \in Inserted'
        PROVE  /\ \A i \in invoices' : ~ Invoice!Same(i, making'[q])
               /\ \A p \in Inserted' \ {q} : ~ Invoice!Same(making'[p], making'[q])
    <3>1. /\ q \in Inserted \ {r} /\ making'[q] = making[q]
          /\ \A p \in Inserted' : p \in Inserted \ {r} /\ making'[p] = making[p]
      BY <1>2, <1>10, <2>4 DEF Inserted
    <3>2. ~ Invoice!Same(new, making[q])
      <4>1. ~ Invoice!Same(making[r], making[q])
        BY <1>1, <3>1 DEF InvoiceInv, NumberInv
      <4> QED
        BY <1>3, <4>1 DEF Invoice!Same
    <3> QED
      BY <1>1, <3>1, <3>2 DEF InvoiceInv, NumberInv
  <2> QED
    BY <2>1, <2>3, <2>4 DEF NumberInv
<1>12. PdfInv'
  <2>1. IsFiniteSet(Inserted) /\ Cardinality(Inserted) \in Nat /\ Cardinality(invoices) \in Nat
    BY FiniteInserted, FS_CardinalityType DEF InvoiceInv, InvoiceTypes
  <2>2. Cardinality(Inserted') = Cardinality(Inserted) - 1
    BY <1>1, <1>10, <2>1, FS_RemoveElement
  <2>3. Cardinality(invoices') = Cardinality(invoices) + 1
    BY <1>1, <1>5, FS_AddElement DEF InvoiceInv, InvoiceTypes
  <2> QED
    BY <1>1, <2>1, <2>2, <2>3 DEF InvoiceInv, PdfInv
<1> QED
  BY <1>6, <1>11, <1>12 DEF InvoiceInv

LEMMA InvoiceStep ==
    /\ Invoice!InvoicesAssumption /\ InvoiceInv
    /\ [Invoice!Next]_(Invoice!invoicesVars)
    => InvoiceInv'
<1> SUFFICES ASSUME Invoice!InvoicesAssumption, InvoiceInv,
                    [Invoice!Next]_(Invoice!invoicesVars)
             PROVE  InvoiceInv'
  OBVIOUS
<1>0. /\ month \in Months /\ pdfs \in Nat
      /\ \A r \in Requests : making[r] \in MakingLocals
  BY DEF InvoiceInv, InvoiceTypes
<1>1. ASSUME NEW r \in Requests, NEW p \in Processes, NEW s \in StripeIds \cup {NoStripe},
             Invoice!Begin(r, p, s)
      PROVE  InvoiceInv'
  <2> DEFINE v == [pc |-> "begun", process |-> p, stripe |-> s]
  <2>1. v \in MakingLocals /\ v \in Begun /\ v \notin Numbered /\ v.pc # "inserted"
    BY DEF MakingLocals, Begun, Numbered
  <2>2. Invoice!Step(r, v) /\ UNCHANGED <<month, invoices, pdfs>>
    BY <1>1 DEF Invoice!Begin
  <2> HIDE DEF v
  <2> QED
    BY <1>0, <2>1, <2>2, MakingMoves
<1>2. ASSUME NEW r \in Requests, Invoice!Number(r)
      PROVE  InvoiceInv'
  <2> DEFINE v == [pc |-> "numbered", process |-> making[r].process,
                   stripe |-> making[r].stripe, month |-> month, number |-> Invoice!NextNumber]
             n == Cardinality(OfMonth(month))
  <2>1. making[r] \in Begun
    BY <1>0, <1>2, MakingByPlace DEF Invoice!Number
  <2>2. n \in Nat /\ Invoice!NextNumber = n + 1
    BY FiniteMonths, InvoiceCardinality DEF InvoiceInv, Invoice!NextNumber, OfMonth
  <2>3. v \in MakingLocals /\ v.pc # "inserted" /\ v.month = month /\ v.number = n + 1
    BY <1>0, <2>1, <2>2 DEF MakingLocals, Begun, Numbered
  <2>4. Invoice!Step(r, v) /\ UNCHANGED <<month, invoices, pdfs>>
    BY <1>2 DEF Invoice!Number
  <2>5. v.number \in 1 .. Cardinality(OfMonth(v.month)) + 1
    BY <2>2, <2>3
  <2> HIDE DEF v
  <2> QED
    BY <1>0, <2>3, <2>4, <2>5, MakingMoves
<1>3. ASSUME NEW r \in Requests, NEW pdf \in {0, 1}, Invoice!Step(r, Invoice!Idle),
             pdfs' = pdfs + pdf, UNCHANGED <<month, invoices>>
      PROVE  InvoiceInv'
  <2>1. /\ Invoice!Idle \in MakingLocals /\ Invoice!Idle \notin Numbered
        /\ Invoice!Idle.pc # "inserted"
    BY DEF MakingLocals, Numbered, Invoice!Idle
  <2>2. pdfs' \in Nat /\ pdfs' >= pdfs
    BY <1>0, <1>3
  <2> QED
    BY <1>0, <1>3, <2>1, <2>2, MakingMoves
<1>4. ASSUME NEW r \in Requests, Invoice!Insert(r)
      PROVE  InvoiceInv'
  <2>0. /\ making[r] \in Numbered /\ making[r].pc = "numbered"
        /\ pdfs' = pdfs + 1 /\ UNCHANGED <<month, invoices>>
    BY <1>0, <1>4, MakingByPlace DEF Invoice!Insert
  <2>1. CASE \E i \in invoices : Invoice!Same(i, making[r])
    BY <1>3, <1>4, <2>0, <2>1 DEF Invoice!Insert
  <2>2. CASE ~ \E i \in invoices : Invoice!Same(i, making[r])
    <3> DEFINE v == [making[r] EXCEPT !.pc = "inserted"]
    <3>1. /\ v \in Numbered /\ v \in MakingLocals /\ v.pc = "inserted"
          /\ v.month = making[r].month /\ v.number = making[r].number
      BY <2>0 DEF Numbered, MakingLocals
    <3>2. Invoice!Step(r, v)
      BY <1>4, <2>2 DEF Invoice!Insert
    <3> HIDE DEF v
    <3>3. v.number \in 1 .. Cardinality(OfMonth(v.month)) + 1
      BY <2>0, <3>1 DEF InvoiceInv, NumberInv
    <3>4. /\ \A i \in invoices : ~ Invoice!Same(i, v)
          /\ \A q \in Inserted \ {r} : ~ Invoice!Same(making[q], v)
      BY <1>4, <2>2, <3>1 DEF Invoice!Insert, Invoice!Same, Inserted
    <3>5. pdfs' \in Nat
      BY <1>0, <2>0
    <3> QED
      BY <1>0, <2>0, <3>1, <3>2, <3>3, <3>4, <3>5, MakingMoves
  <2> QED
    BY <2>1, <2>2
<1>5. ASSUME NEW r \in Requests, Invoice!Abort(r)
      PROVE  InvoiceInv'
  <2>1. Invoice!Step(r, Invoice!Idle) /\ pdfs' = pdfs + 0 /\ UNCHANGED <<month, invoices>>
    BY <1>0, <1>5 DEF Invoice!Abort
  <2> QED
    BY <1>3, <2>1
<1>6. CASE Invoice!NextMonth
  <2>1. month' \in Months /\ UNCHANGED <<invoices, pdfs, making>>
    BY <1>6 DEF Invoice!NextMonth
  <2> QED
    BY <2>1 DEF InvoiceInv, InvoiceTypes, NumberInv, PdfInv, OfMonth, Inserted
<1>7. CASE UNCHANGED Invoice!invoicesVars
  BY <1>7 DEF Invoice!invoicesVars, InvoiceInv, InvoiceTypes, NumberInv, PdfInv, OfMonth, Inserted
<1> QED
  BY <1>1, <1>2, <1>4, <1>5, <1>6, <1>7, CommitStep DEF Invoice!Next

LEMMA DenseNumbers ==
    ASSUME Invoice!InvoicesAssumption
    PROVE  Invoice!Spec => []Invoice!NumbersAreDense
<1>1. InvoiceInv => Invoice!NumbersAreDense
  <2> SUFFICES ASSUME InvoiceInv PROVE Invoice!NumbersAreDense
    OBVIOUS
  <2>1. Cardinality(invoices) <= pdfs
    BY FiniteInserted, FS_CardinalityType DEF InvoiceInv, InvoiceTypes, PdfInv
  <2>2. \A m \in Months : {i.number : i \in OfMonth(m)} = 1 .. Cardinality(OfMonth(m))
    BY DEF InvoiceInv, NumberInv
  <2> QED
    BY <2>1, <2>2, InvoiceCardinality DEF Invoice!NumbersAreDense, OfMonth
<1> QED
  BY <1>1, InvoiceInit, InvoiceStep, PTL DEF Invoice!Spec

-----------------------------------------------------------------------------
(* Billing: types.                                                         *)

BillingEvents ==
    [customer : 1 .. MaxCustomers, subscription : 1 .. MaxEvents, tier : Tiers \cup {"none"}]
BillingRows == [customer : Nat, subscription : 0 .. MaxEvents, tier : Tiers \cup {"none"}]

Handling(r) == handling[r] # Bill!Idle

\* A handler has read the row of the customer its event names; nobody names a customer
\* before Stripe has one.
BillingTypeInv ==
    /\ customers \in 0 .. MaxCustomers
    /\ record \in BillingRows /\ record.customer <= customers
    /\ record.customer = 0 => record = Bill!NoRecord
    /\ asking \in [Requests -> 0 .. customers]
    /\ subscriptions \in [1 .. MaxEvents -> [customer : 0 .. MaxCustomers, tier : Tiers \cup {"none"}]]
    /\ \A s \in 1 .. MaxEvents : subscriptions[s].tier # "none" => subscriptions[s].customer # 0
    /\ sent \in Seq(BillingEvents)
    /\ handling \in [Requests -> [event : Nat, read : BillingRows]]
    /\ \A r \in Requests : Handling(r) =>
          /\ handling[r].event \in DOMAIN sent
          /\ sent[handling[r].event].customer = record.customer
          /\ handling[r].read.customer = record.customer

\* What a handler makes of the row it read.
LEMMA AppliedRow ==
    ASSUME Bill!BillingAssumption, NEW row \in BillingRows, NEW e \in BillingEvents
    PROVE  /\ Bill!Applied(row, e) \in BillingRows
           /\ Bill!Applied(row, e).customer = row.customer
           /\ e.tier = "none" => /\ Bill!Applied(row, e).subscription = 0
                                 /\ Bill!Applied(row, e).tier = "community"
           /\ e.tier # "none" => /\ Bill!Applied(row, e).subscription = e.subscription
                                 /\ Bill!Applied(row, e).tier = e.tier
<1>1. "community" \in Tiers /\ MaxEvents \in Nat
  BY DEF Bill!BillingAssumption
<1>2. CASE e.tier = "none"
  <2>1. Bill!Applied(row, e) = [row EXCEPT !.subscription = 0, !.tier = "community"]
    BY <1>2 DEF Bill!Applied
  <2>2. Bill!Applied(row, e)
        = [customer |-> row.customer, subscription |-> 0, tier |-> "community"]
    BY <2>1 DEF BillingRows
  <2> QED
    BY <1>1, <1>2, <2>2 DEF BillingRows
<1>3. CASE e.tier # "none"
  <2>1. Bill!Applied(row, e) = [row EXCEPT !.subscription = e.subscription, !.tier = e.tier]
    BY <1>3 DEF Bill!Applied
  <2>2. Bill!Applied(row, e)
        = [customer |-> row.customer, subscription |-> e.subscription, tier |-> e.tier]
    BY <2>1 DEF BillingRows
  <2> QED
    BY <1>1, <1>3, <2>2 DEF BillingRows, BillingEvents
<1> QED
  BY <1>2, <1>3

\* What it writes: each column is the new one or the one the record has by now, and is
\* the new one if the record is what it read.
LEMMA WrittenRow ==
    ASSUME record \in BillingRows, NEW read \in BillingRows, NEW new \in BillingRows
    PROVE  /\ Bill!Written(read, new) \in BillingRows
           /\ Bill!Written(read, new).customer = record.customer
           /\ Bill!Written(read, new).subscription \in {new.subscription, record.subscription}
           /\ Bill!Written(read, new).tier \in {new.tier, record.tier}
           /\ read = record => /\ Bill!Written(read, new).subscription = new.subscription
                               /\ Bill!Written(read, new).tier = new.tier
  BY DEF Bill!Written, BillingRows

\* No row, and no event.
LEMMA NoneIsTyped ==
    ASSUME Bill!BillingAssumption
    PROVE  /\ Bill!NoRecord \in BillingRows
           /\ Bill!Idle \in [event : Nat, read : BillingRows]
  BY DEF Bill!BillingAssumption, Bill!NoRecord, Bill!Idle, BillingRows

\* One handler begins or ends: the others go on.
LEMMA OneHandler ==
    ASSUME BillingTypeInv, NEW r \in Requests, NEW v \in [event : Nat, read : BillingRows],
           handling' = [handling EXCEPT ![r] = v]
    PROVE  /\ handling' \in [Requests -> [event : Nat, read : BillingRows]]
           /\ handling'[r] = v
           /\ \A q \in Requests : q = r \/ handling'[q] = handling[q]
  BY DEF BillingTypeInv

LEMMA BillingTypeInit == Bill!BillingAssumption /\ Bill!Init => BillingTypeInv
<1> SUFFICES ASSUME Bill!BillingAssumption, Bill!Init PROVE BillingTypeInv
  OBVIOUS
<1>1. record = Bill!NoRecord /\ record \in BillingRows /\ record.customer = 0 /\ customers = 0
  BY NoneIsTyped DEF Bill!Init, Bill!NoRecord
<1>2. customers \in 0 .. MaxCustomers /\ asking \in [Requests -> 0 .. customers]
  BY <1>1 DEF Bill!Init, Bill!BillingAssumption
<1>3. handling \in [Requests -> [event : Nat, read : BillingRows]]
      /\ \A r \in Requests : ~Handling(r)
  BY NoneIsTyped DEF Bill!Init, Handling
<1>4. Bill!NoSubscription \in [customer : 0 .. MaxCustomers, tier : Tiers \cup {"none"}]
      /\ Bill!NoSubscription.tier = "none"
  BY DEF Bill!NoSubscription, Bill!BillingAssumption
<1>5. /\ subscriptions \in [1 .. MaxEvents -> [customer : 0 .. MaxCustomers,
                                               tier : Tiers \cup {"none"}]]
      /\ \A s \in 1 .. MaxEvents : subscriptions[s].tier = "none"
      /\ sent \in Seq(BillingEvents)
  BY <1>4 DEF Bill!Init
<1> QED
  BY <1>1, <1>2, <1>3, <1>5 DEF BillingTypeInv

\* What Stripe sends, and that it adds to what was sent.
LEMMA MoreSent ==
    ASSUME Bill!BillingAssumption, BillingTypeInv, NEW c, NEW s, NEW t,
           c \in 1 .. MaxCustomers, s \in 1 .. MaxEvents, t \in Tiers \cup {"none"},
           Bill!SendEvent(c, s, t)
    PROVE  /\ sent' \in Seq(BillingEvents)
           /\ DOMAIN sent \subseteq DOMAIN sent'
           /\ \A i \in DOMAIN sent : sent'[i] = sent[i]
           /\ UNCHANGED <<customers, record, asking, handling, overlapped>>
           /\ BillingTypeInv'
<1>1. [customer |-> c, subscription |-> s, tier |-> t] \in BillingEvents
  BY DEF BillingEvents
<1>2. /\ sent' \in Seq(BillingEvents)
      /\ DOMAIN sent \subseteq DOMAIN sent'
      /\ \A i \in DOMAIN sent : sent'[i] = sent[i]
  BY <1>1 DEF Bill!SendEvent, BillingTypeInv
<1>3. UNCHANGED <<customers, record, asking, handling, overlapped>>
  BY DEF Bill!SendEvent, Bill!events
<1>4. [customer |-> c, tier |-> t] \in [customer : 0 .. MaxCustomers, tier : Tiers \cup {"none"}]
  OBVIOUS
<1>5. subscriptions' \in [1 .. MaxEvents -> [customer : 0 .. MaxCustomers,
                                             tier : Tiers \cup {"none"}]]
  BY <1>4 DEF Bill!SendEvent, BillingTypeInv
<1>6. ASSUME NEW u \in 1 .. MaxEvents, subscriptions'[u].tier # "none"
      PROVE  subscriptions'[u].customer # 0
  <2>1. CASE u = s
    BY <2>1 DEF Bill!SendEvent, BillingTypeInv
  <2>2. CASE u # s
    BY <1>6, <2>2 DEF Bill!SendEvent, BillingTypeInv
  <2> QED
    BY <2>1, <2>2
<1>7. ASSUME NEW r \in Requests, Handling(r)'
      PROVE  /\ handling'[r].event \in DOMAIN sent'
             /\ sent'[handling'[r].event].customer = record'.customer
             /\ handling'[r].read.customer = record'.customer
  BY <1>2, <1>3, <1>7 DEF BillingTypeInv, Handling
<1> QED
  BY <1>2, <1>3, <1>5, <1>6, <1>7 DEF BillingTypeInv

\* An event of Next is one of those.
LEMMA StripeSends ==
    ASSUME Bill!BillingAssumption, BillingTypeInv,
           \/ \E c \in 1 .. MaxCustomers, t \in Tiers : Bill!Subscribe(c, t)
           \/ \E s \in 1 .. MaxEvents, t \in Tiers \cup {"none"} : Bill!ChangeSubscription(s, t)
    PROVE  \E c \in 1 .. MaxCustomers, s \in 1 .. MaxEvents, t \in Tiers \cup {"none"} :
               Bill!SendEvent(c, s, t)
<1>1. ASSUME NEW c \in 1 .. MaxCustomers, NEW t \in Tiers, Bill!Subscribe(c, t)
      PROVE  Bill!SendEvent(c, Len(sent) + 1, t) /\ Len(sent) + 1 \in 1 .. MaxEvents
  <2>1. Len(sent) \in Nat /\ MaxEvents \in Nat /\ Len(sent) < MaxEvents
    BY <1>1 DEF Bill!Subscribe, Bill!SendEvent, BillingTypeInv, Bill!BillingAssumption
  <2> QED
    BY <1>1, <2>1 DEF Bill!Subscribe
<1>2. ASSUME NEW s \in 1 .. MaxEvents, NEW t \in Tiers \cup {"none"},
             Bill!ChangeSubscription(s, t)
      PROVE  /\ Bill!SendEvent(subscriptions[s].customer, s, t)
             /\ subscriptions[s].customer \in 1 .. MaxCustomers
  <2>1. Bill!SendEvent(subscriptions[s].customer, s, t) /\ subscriptions[s].tier # "none"
    BY <1>2 DEF Bill!ChangeSubscription
  <2>2. subscriptions[s].customer \in 0 .. MaxCustomers /\ subscriptions[s].customer # 0
    BY <2>1 DEF BillingTypeInv
  <2> QED
    BY <2>1, <2>2 DEF Bill!BillingAssumption
<1> QED
  BY <1>1, <1>2

\* The record a handler writes.
LEMMA HandlerWrites ==
    ASSUME Bill!BillingAssumption, BillingTypeInv, NEW r \in Requests, Bill!WriteEvent(r)
    PROVE  /\ handling' = [handling EXCEPT ![r] = Bill!Idle]
           /\ UNCHANGED <<customers, asking, subscriptions, sent, overlapped>>
           /\ record' \in BillingRows /\ record'.customer = record.customer
           /\ record.customer # 0
           /\ \E i \in DOMAIN sent :
                 LET new == Bill!Applied(handling[r].read, sent[i])
                 IN  /\ sent[i] \in BillingEvents /\ sent[i].customer = record.customer
                     /\ handling[r].read \in BillingRows
                     /\ handling[r].read.customer = record.customer
                     /\ record'.subscription \in {new.subscription, record.subscription}
                     /\ record'.tier \in {new.tier, record.tier}
                     /\ handling[r].read = record =>
                           record'.subscription = new.subscription /\ record'.tier = new.tier
<1> DEFINE i == handling[r].event
           read == handling[r].read
           new == Bill!Applied(read, sent[i])
<1>1. Handling(r)
  BY DEF Bill!WriteEvent, Handling
<1>2. /\ i \in DOMAIN sent /\ sent[i].customer = record.customer
      /\ read \in BillingRows /\ read.customer = record.customer
      /\ record \in BillingRows
  BY <1>1 DEF BillingTypeInv
<1>3. sent[i] \in BillingEvents
  BY <1>2 DEF BillingTypeInv
<1>4. record.customer # 0
  BY <1>2, <1>3 DEF BillingEvents
<1>5. new \in BillingRows /\ record' = Bill!Written(read, new)
  BY <1>2, <1>3, AppliedRow DEF Bill!WriteEvent
<1>6. handling' = [handling EXCEPT ![r] = Bill!Idle]
      /\ UNCHANGED <<customers, asking, subscriptions, sent, overlapped>>
  BY DEF Bill!WriteEvent, Bill!atStripe
<1>7. /\ record' \in BillingRows /\ record'.customer = record.customer
      /\ record'.subscription \in {new.subscription, record.subscription}
      /\ record'.tier \in {new.tier, record.tier}
      /\ read = record => record'.subscription = new.subscription /\ record'.tier = new.tier
  <2> HIDE DEF new, read
  <2> QED
    BY <1>2, <1>5, WrittenRow
<1> QED
  BY <1>2, <1>3, <1>4, <1>6, <1>7

LEMMA BillingTypeStep ==
    Bill!BillingAssumption /\ BillingTypeInv /\ [Bill!Next]_(Bill!billingVars)
    => BillingTypeInv'
<1> SUFFICES ASSUME Bill!BillingAssumption, BillingTypeInv, [Bill!Next]_(Bill!billingVars)
             PROVE  BillingTypeInv'
  OBVIOUS
<1>0. MaxCustomers \in Nat /\ MaxEvents \in Nat /\ "community" \in Tiers
  BY DEF Bill!BillingAssumption
<1>1. ASSUME NEW r \in Requests, Bill!CreateCustomer(r)
      PROVE  BillingTypeInv'
  <2>1. /\ customers' = customers + 1 /\ asking' = [asking EXCEPT ![r] = customers + 1]
        /\ customers < MaxCustomers
        /\ UNCHANGED <<record, subscriptions, sent, handling>>
    BY <1>1 DEF Bill!CreateCustomer, Bill!atStripe, Bill!events
  <2>2. customers' \in 0 .. MaxCustomers /\ asking' \in [Requests -> 0 .. customers']
    BY <1>0, <2>1 DEF BillingTypeInv
  <2>3. record'.customer <= customers'
    BY <2>1 DEF BillingTypeInv, BillingRows
  <2> QED
    BY <2>1, <2>2, <2>3 DEF BillingTypeInv, Handling
<1>2. ASSUME NEW r \in Requests, Bill!InsertRecord(r)
      PROVE  BillingTypeInv'
  <2>1. asking' = [asking EXCEPT ![r] = 0] /\ asking[r] # 0
        /\ UNCHANGED <<customers, subscriptions, sent, handling>>
    BY <1>2 DEF Bill!InsertRecord, Bill!atStripe, Bill!events
  <2>2. asking' \in [Requests -> 0 .. customers'] /\ asking[r] \in 0 .. customers
    BY <2>1 DEF BillingTypeInv
  <2>3. CASE record = Bill!NoRecord
    <3>1. record' = [customer |-> asking[r], subscription |-> 0, tier |-> "community"]
      BY <1>2, <2>3 DEF Bill!InsertRecord
    <3>2. record' \in BillingRows /\ record'.customer <= customers' /\ record'.customer # 0
      BY <1>0, <2>1, <2>2, <3>1 DEF BillingRows
    <3>3. \A q \in Requests : ~Handling(q)
      <4> SUFFICES ASSUME NEW q \in Requests, Handling(q) PROVE FALSE
        OBVIOUS
      <4>1. /\ handling[q].event \in DOMAIN sent
            /\ sent[handling[q].event].customer = record.customer
        BY DEF BillingTypeInv
      <4>2. sent[handling[q].event] \in BillingEvents
        BY <4>1 DEF BillingTypeInv
      <4> QED
        BY <2>3, <4>1, <4>2 DEF BillingEvents, Bill!NoRecord
    <3> QED
      BY <2>1, <2>2, <3>2, <3>3 DEF BillingTypeInv, Handling
  <2>4. CASE record # Bill!NoRecord
    BY <1>2, <2>1, <2>2, <2>4 DEF Bill!InsertRecord, BillingTypeInv, Handling
  <2> QED
    BY <2>3, <2>4
<1>3. ASSUME NEW r \in Requests, Bill!RequestLost(r)
      PROVE  BillingTypeInv'
  <2>1. asking' = [asking EXCEPT ![r] = 0]
        /\ UNCHANGED <<customers, record, subscriptions, sent, handling>>
    BY <1>3 DEF Bill!RequestLost, Bill!atStripe, Bill!events
  <2>2. asking' \in [Requests -> 0 .. customers']
    BY <2>1 DEF BillingTypeInv
  <2> QED
    BY <2>1, <2>2 DEF BillingTypeInv, Handling
<1>4. CASE \/ \E c \in 1 .. MaxCustomers, t \in Tiers : Bill!Subscribe(c, t)
           \/ \E s \in 1 .. MaxEvents, t \in Tiers \cup {"none"} : Bill!ChangeSubscription(s, t)
  BY <1>4, StripeSends, MoreSent
<1>5. ASSUME NEW r \in Requests, NEW i \in DOMAIN sent, Bill!ReadEvent(r, i)
      PROVE  BillingTypeInv'
  <2> DEFINE v == [event |-> i, read |-> record]
  <2>1. /\ handling' = [handling EXCEPT ![r] = v]
        /\ sent[i].customer = record.customer
        /\ UNCHANGED <<customers, record, asking, subscriptions, sent>>
    BY <1>5 DEF Bill!ReadEvent, Bill!atStripe
  <2>2. i \in Nat /\ v \in [event : Nat, read : BillingRows]
    BY DEF BillingTypeInv
  <2>3. v.event = i /\ v.read = record
    OBVIOUS
  <2> HIDE DEF v
  <2>4. /\ handling' \in [Requests -> [event : Nat, read : BillingRows]]
        /\ handling'[r] = v
        /\ \A q \in Requests : q = r \/ handling'[q] = handling[q]
    BY <2>1, <2>2, OneHandler
  <2>5. ASSUME NEW q \in Requests, Handling(q)'
        PROVE  /\ handling'[q].event \in DOMAIN sent
               /\ sent[handling'[q].event].customer = record.customer
               /\ handling'[q].read.customer = record.customer
    <3>1. CASE q = r
      BY <2>1, <2>3, <2>4, <3>1
    <3>2. CASE q # r
      BY <2>4, <2>5, <3>2 DEF BillingTypeInv, Handling
    <3> QED
      BY <3>1, <3>2
  <2> QED
    BY <2>1, <2>4, <2>5 DEF BillingTypeInv
<1>6. ASSUME NEW r \in Requests, Bill!WriteEvent(r)
      PROVE  BillingTypeInv'
  <2>1. /\ handling' = [handling EXCEPT ![r] = Bill!Idle]
        /\ UNCHANGED <<customers, asking, subscriptions, sent, overlapped>>
        /\ record' \in BillingRows /\ record'.customer = record.customer
        /\ record.customer # 0
    BY <1>6, HandlerWrites
  <2>2. /\ handling' \in [Requests -> [event : Nat, read : BillingRows]]
        /\ handling'[r] = Bill!Idle
        /\ \A q \in Requests : q = r \/ handling'[q] = handling[q]
    BY <2>1, NoneIsTyped, OneHandler
  <2> QED
    BY <2>1, <2>2 DEF BillingTypeInv, Handling
<1>7. ASSUME NEW r \in Requests, Bill!HandlerFails(r)
      PROVE  BillingTypeInv'
  <2>1. /\ handling' = [handling EXCEPT ![r] = Bill!Idle]
        /\ UNCHANGED <<customers, record, asking, subscriptions, sent>>
    BY <1>7 DEF Bill!HandlerFails, Bill!atStripe
  <2>2. /\ handling' \in [Requests -> [event : Nat, read : BillingRows]]
        /\ handling'[r] = Bill!Idle
        /\ \A q \in Requests : q = r \/ handling'[q] = handling[q]
    BY <2>1, NoneIsTyped, OneHandler
  <2> QED
    BY <2>1, <2>2 DEF BillingTypeInv, Handling
<1>8. CASE UNCHANGED Bill!billingVars
  BY <1>8 DEF Bill!billingVars, Bill!atStripe, Bill!events, BillingTypeInv, Handling
<1> QED
  BY <1>1, <1>2, <1>3, <1>4, <1>5, <1>6, <1>7, <1>8 DEF Bill!Next

-----------------------------------------------------------------------------
(* Billing: Stripe told of each column, to this customer.                  *)

Told(i, row) == sent[i].customer = row.customer /\ sent[i].tier # "none"

Paid(tier) == tier \notin {"none", "community"}

ToldOf(row) ==
    /\ Paid(row.tier) => \E i \in DOMAIN sent : Told(i, row) /\ sent[i].tier = row.tier
    /\ row.subscription # 0 =>
          \E i \in DOMAIN sent : Told(i, row) /\ sent[i].subscription = row.subscription

ToldInv == ToldOf(record) /\ \A r \in Requests : Handling(r) => ToldOf(handling[r].read)

LEMMA ToldInit == Bill!Init => ToldInv
  BY DEF Bill!Init, ToldInv, ToldOf, Paid, Handling, Bill!NoRecord

\* What an event makes of such a row is such a row.
LEMMA AppliedIsTold ==
    ASSUME Bill!BillingAssumption, NEW i \in DOMAIN sent, NEW row \in BillingRows,
           sent[i] \in BillingEvents, sent[i].customer = row.customer, ToldOf(row)
    PROVE  ToldOf(Bill!Applied(row, sent[i]))
<1> DEFINE new == Bill!Applied(row, sent[i])
<1>1. /\ new.customer = row.customer
      /\ sent[i].tier = "none" => new.subscription = 0 /\ new.tier = "community"
      /\ sent[i].tier # "none" => new.subscription = sent[i].subscription
                                  /\ new.tier = sent[i].tier
  BY AppliedRow
<1> HIDE DEF new
<1> SUFFICES ToldOf(new)
  BY DEF new
<1>2. CASE sent[i].tier = "none"
  BY <1>1, <1>2 DEF ToldOf, Paid
<1>3. CASE sent[i].tier # "none"
  BY <1>1, <1>3 DEF ToldOf, Told
<1> QED
  BY <1>2, <1>3

LEMMA ToldStep ==
    ASSUME Bill!BillingAssumption, BillingTypeInv, ToldInv, [Bill!Next]_(Bill!billingVars)
    PROVE  ToldInv'
<1>1. ASSUME UNCHANGED <<record, sent, handling>>
      PROVE  ToldInv'
  BY <1>1 DEF ToldInv, ToldOf, Told, Handling
<1>2. ASSUME NEW r \in Requests, Bill!InsertRecord(r)
      PROVE  ToldInv'
  <2>1. UNCHANGED <<sent, handling>>
    BY <1>2 DEF Bill!InsertRecord, Bill!atStripe, Bill!events
  <2>2. ToldOf(record')
    BY <1>2 DEF Bill!InsertRecord, ToldInv, ToldOf, Paid
  <2>3. ToldOf(record)'
    BY <2>1, <2>2 DEF ToldOf, Told
  <2> QED
    BY <2>1, <2>3 DEF ToldInv, ToldOf, Told, Handling
<1>3. CASE \/ \E c \in 1 .. MaxCustomers, t \in Tiers : Bill!Subscribe(c, t)
           \/ \E s \in 1 .. MaxEvents, t \in Tiers \cup {"none"} : Bill!ChangeSubscription(s, t)
  <2>1. /\ DOMAIN sent \subseteq DOMAIN sent'
        /\ \A i \in DOMAIN sent : sent'[i] = sent[i]
        /\ UNCHANGED <<record, handling>>
    BY <1>3, StripeSends, MoreSent
  <2>2. ASSUME NEW row, ToldOf(row)
        PROVE  /\ Paid(row.tier) => \E i \in DOMAIN sent' :
                     sent'[i].customer = row.customer /\ sent'[i].tier # "none"
                     /\ sent'[i].tier = row.tier
               /\ row.subscription # 0 => \E i \in DOMAIN sent' :
                     sent'[i].customer = row.customer /\ sent'[i].tier # "none"
                     /\ sent'[i].subscription = row.subscription
    BY <2>1, <2>2 DEF ToldOf, Told
  <2> QED
    BY <2>1, <2>2 DEF ToldInv, ToldOf, Told, Handling
<1>4. ASSUME NEW r \in Requests, NEW i \in DOMAIN sent, Bill!ReadEvent(r, i)
      PROVE  ToldInv'
  <2> DEFINE v == [event |-> i, read |-> record]
  <2>1. handling' = [handling EXCEPT ![r] = v] /\ UNCHANGED <<record, sent>>
    BY <1>4 DEF Bill!ReadEvent, Bill!atStripe
  <2>2. v \in [event : Nat, read : BillingRows] /\ v.read = record
    BY DEF BillingTypeInv
  <2> HIDE DEF v
  <2>3. handling'[r].read = record /\ \A q \in Requests : q = r \/ handling'[q] = handling[q]
    BY <2>1, <2>2, OneHandler
  <2> QED
    BY <2>1, <2>3 DEF ToldInv, ToldOf, Told, Handling
<1>5. ASSUME NEW r \in Requests, Bill!WriteEvent(r)
      PROVE  ToldInv'
  <2> DEFINE read == handling[r].read
             new(i) == Bill!Applied(read, sent[i])
  <2>1. /\ handling' = [handling EXCEPT ![r] = Bill!Idle] /\ UNCHANGED sent
        /\ record'.customer = record.customer
    BY <1>5, HandlerWrites
  <2>2. PICK i \in DOMAIN sent :
          /\ sent[i] \in BillingEvents /\ sent[i].customer = record.customer
          /\ read \in BillingRows /\ read.customer = record.customer
          /\ record'.subscription \in {new(i).subscription, record.subscription}
          /\ record'.tier \in {new(i).tier, record.tier}
    BY <1>5, HandlerWrites
  <2>3. ToldOf(read)
    BY <1>5 DEF Bill!WriteEvent, ToldInv, Handling
  <2>4. ToldOf(new(i)) /\ new(i).customer = record.customer
    BY <2>2, <2>3, AppliedIsTold, AppliedRow
  <2> HIDE DEF read, new
  <2>5. ToldOf(record')
    BY <2>1, <2>2, <2>4 DEF ToldOf, Told, ToldInv
  <2>6. ToldOf(record)'
    BY <2>1, <2>5 DEF ToldOf, Told
  <2>7. handling'[r] = Bill!Idle /\ \A q \in Requests : q = r \/ handling'[q] = handling[q]
    BY <2>1, NoneIsTyped, OneHandler
  <2> QED
    BY <2>1, <2>6, <2>7 DEF ToldInv, ToldOf, Told, Handling
<1>6. ASSUME NEW r \in Requests, Bill!HandlerFails(r)
      PROVE  ToldInv'
  <2>1. handling' = [handling EXCEPT ![r] = Bill!Idle] /\ UNCHANGED <<record, sent>>
    BY <1>6 DEF Bill!HandlerFails, Bill!atStripe
  <2>2. handling'[r] = Bill!Idle /\ \A q \in Requests : q = r \/ handling'[q] = handling[q]
    BY <2>1, NoneIsTyped, OneHandler
  <2> QED
    BY <2>1, <2>2 DEF ToldInv, ToldOf, Told, Handling
<1>7. ASSUME \/ \E r \in Requests : Bill!CreateCustomer(r) \/ Bill!RequestLost(r)
             \/ UNCHANGED Bill!billingVars
      PROVE  ToldInv'
  BY <1>1, <1>7
     DEF Bill!CreateCustomer, Bill!RequestLost, Bill!billingVars, Bill!atStripe, Bill!events
<1> QED
  BY <1>2, <1>3, <1>4, <1>5, <1>6, <1>7 DEF Bill!Next

-----------------------------------------------------------------------------
(* Billing: handlers that never overlapped.                                *)

\* The columns of a row belong together.
Coherent(row) ==
    /\ Paid(row.tier) => row.subscription # 0
    /\ row.subscription # 0 =>
          \E i \in DOMAIN sent : /\ Told(i, row)
                                 /\ sent[i].subscription = row.subscription
                                 /\ sent[i].tier = row.tier

\* One handler at a time has read the record as it is.
AloneInv ==
    ~overlapped =>
        /\ Coherent(record)
        /\ \A q, r \in Requests : Handling(q) /\ Handling(r) => q = r
        /\ \A r \in Requests : Handling(r) => handling[r].read = record

LEMMA AloneInit == Bill!Init => AloneInv
  BY DEF Bill!Init, AloneInv, Coherent, Paid, Handling, Bill!NoRecord

LEMMA AloneStep ==
    ASSUME Bill!BillingAssumption, BillingTypeInv, AloneInv, [Bill!Next]_(Bill!billingVars)
    PROVE  AloneInv'
<1> SUFFICES ASSUME ~overlapped' PROVE AloneInv'
  BY DEF AloneInv
<1>0. /\ ~overlapped
      /\ Coherent(record)
      /\ \A q, r \in Requests : Handling(q) /\ Handling(r) => q = r
      /\ \A r \in Requests : Handling(r) => handling[r].read = record
  <2>1. ~overlapped
    BY DEF Bill!Next, Bill!CreateCustomer, Bill!InsertRecord, Bill!RequestLost,
           Bill!Subscribe, Bill!ChangeSubscription, Bill!SendEvent, Bill!ReadEvent,
           Bill!WriteEvent, Bill!HandlerFails, Bill!events, Bill!billingVars
  <2> QED
    BY <2>1 DEF AloneInv
<1>1. ASSUME UNCHANGED <<record, sent, handling>>
      PROVE  AloneInv'
  BY <1>0, <1>1 DEF AloneInv, Coherent, Told, Handling
<1>2. ASSUME NEW r \in Requests, Bill!InsertRecord(r)
      PROVE  AloneInv'
  <2>1. UNCHANGED <<sent, handling>>
    BY <1>2 DEF Bill!InsertRecord, Bill!atStripe, Bill!events
  <2>2. CASE record = Bill!NoRecord
    <3>1. \A q \in Requests : ~Handling(q)
      <4> SUFFICES ASSUME NEW q \in Requests, Handling(q) PROVE FALSE
        OBVIOUS
      <4>1. /\ handling[q].event \in DOMAIN sent
            /\ sent[handling[q].event].customer = record.customer
        BY DEF BillingTypeInv
      <4>2. sent[handling[q].event] \in BillingEvents
        BY <4>1 DEF BillingTypeInv
      <4> QED
        BY <2>2, <4>1, <4>2 DEF BillingEvents, Bill!NoRecord
    <3>2. record' = [customer |-> asking[r], subscription |-> 0, tier |-> "community"]
      BY <1>2, <2>2 DEF Bill!InsertRecord
    <3>3. Coherent(record)'
      BY <3>2 DEF Coherent, Paid
    <3> QED
      BY <2>1, <3>1, <3>3 DEF AloneInv, Handling
  <2>3. CASE record # Bill!NoRecord
    BY <1>1, <1>2, <2>1, <2>3 DEF Bill!InsertRecord
  <2> QED
    BY <2>2, <2>3
<1>3. CASE \/ \E c \in 1 .. MaxCustomers, t \in Tiers : Bill!Subscribe(c, t)
           \/ \E s \in 1 .. MaxEvents, t \in Tiers \cup {"none"} : Bill!ChangeSubscription(s, t)
  <2>1. /\ DOMAIN sent \subseteq DOMAIN sent'
        /\ \A i \in DOMAIN sent : sent'[i] = sent[i]
        /\ UNCHANGED <<record, handling>>
    BY <1>3, StripeSends, MoreSent
  <2>2. Coherent(record)'
    BY <1>0, <2>1 DEF Coherent, Told
  <2> QED
    BY <1>0, <2>1, <2>2 DEF AloneInv, Handling
<1>4. ASSUME NEW r \in Requests, NEW i \in DOMAIN sent, Bill!ReadEvent(r, i)
      PROVE  AloneInv'
  <2> DEFINE v == [event |-> i, read |-> record]
  <2>1. handling' = [handling EXCEPT ![r] = v] /\ UNCHANGED <<record, sent>>
        /\ \A q \in Requests : ~Handling(q)
    BY <1>4 DEF Bill!ReadEvent, Bill!atStripe, Handling
  <2>2. v \in [event : Nat, read : BillingRows] /\ v.read = record
    BY DEF BillingTypeInv
  <2> HIDE DEF v
  <2>3. handling'[r].read = record /\ \A q \in Requests : q = r \/ handling'[q] = handling[q]
    BY <2>1, <2>2, OneHandler
  <2>4. \A q \in Requests : Handling(q)' => q = r
    BY <2>1, <2>3 DEF Handling
  <2>5. Coherent(record)'
    BY <1>0, <2>1 DEF Coherent, Told
  <2> QED
    BY <2>1, <2>3, <2>4, <2>5 DEF AloneInv
<1>5. ASSUME NEW r \in Requests, Bill!WriteEvent(r)
      PROVE  AloneInv'
  <2> DEFINE new(i) == Bill!Applied(record, sent[i])
  <2>1. handling[r].read = record
    BY <1>0, <1>5 DEF Bill!WriteEvent, Handling
  <2>2. /\ handling' = [handling EXCEPT ![r] = Bill!Idle] /\ UNCHANGED sent
        /\ record'.customer = record.customer
    BY <1>5, HandlerWrites
  <2>3. PICK i \in DOMAIN sent :
          /\ sent[i] \in BillingEvents /\ sent[i].customer = record.customer
          /\ record \in BillingRows
          /\ record'.subscription = new(i).subscription /\ record'.tier = new(i).tier
    BY <1>5, <2>1, HandlerWrites
  <2>4. /\ sent[i].tier = "none" => record'.subscription = 0 /\ record'.tier = "community"
        /\ sent[i].tier # "none" => record'.subscription = sent[i].subscription
                                    /\ record'.tier = sent[i].tier
    BY <2>3, AppliedRow
  <2>5. sent[i].subscription # 0
    BY <2>3 DEF BillingEvents
  <2> HIDE DEF new
  <2>6. Coherent(record)'
    <3>1. CASE sent[i].tier = "none"
      BY <2>2, <2>4, <3>1 DEF Coherent, Paid
    <3>2. CASE sent[i].tier # "none"
      <4>1. i \in DOMAIN sent' /\ Told(i, record)' /\ sent'[i].subscription = record'.subscription
            /\ sent'[i].tier = record'.tier
        BY <2>2, <2>3, <2>4, <3>2 DEF Told
      <4>2. record'.subscription # 0
        BY <2>4, <2>5, <3>2
      <4> QED
        BY <4>1, <4>2 DEF Coherent
    <3> QED
      BY <3>1, <3>2
  <2>7. handling'[r] = Bill!Idle /\ \A q \in Requests : q = r \/ handling'[q] = handling[q]
    BY <2>2, NoneIsTyped, OneHandler
  <2>8. \A q \in Requests : ~Handling(q)'
    BY <1>0, <1>5, <2>7 DEF Handling, Bill!WriteEvent
  <2> QED
    BY <2>6, <2>8 DEF AloneInv
<1>6. ASSUME NEW r \in Requests, Bill!HandlerFails(r)
      PROVE  AloneInv'
  <2>1. handling' = [handling EXCEPT ![r] = Bill!Idle] /\ UNCHANGED <<record, sent>>
    BY <1>6 DEF Bill!HandlerFails, Bill!atStripe
  <2>2. handling'[r] = Bill!Idle /\ \A q \in Requests : q = r \/ handling'[q] = handling[q]
    BY <2>1, NoneIsTyped, OneHandler
  <2>3. Coherent(record)'
    BY <1>0, <2>1 DEF Coherent, Told
  <2> QED
    BY <1>0, <2>1, <2>2, <2>3 DEF AloneInv, Handling
<1>7. ASSUME \/ \E r \in Requests : Bill!CreateCustomer(r) \/ Bill!RequestLost(r)
             \/ UNCHANGED Bill!billingVars
      PROVE  AloneInv'
  BY <1>1, <1>7
     DEF Bill!CreateCustomer, Bill!RequestLost, Bill!billingVars, Bill!atStripe, Bill!events
<1> QED
  BY <1>2, <1>3, <1>4, <1>5, <1>6, <1>7 DEF Bill!Next

-----------------------------------------------------------------------------
(* Billing: together.                                                      *)

BillingInv == BillingTypeInv /\ ToldInv /\ AloneInv

LEMMA BillingSafe ==
    ASSUME Bill!BillingAssumption
    PROVE  Bill!Spec => []BillingInv
<1>1. Bill!Init => BillingInv
  BY BillingTypeInit, ToldInit, AloneInit DEF BillingInv
<1>2. BillingInv /\ [Bill!Next]_(Bill!billingVars) => BillingInv'
  BY BillingTypeStep, ToldStep, AloneStep DEF BillingInv
<1> QED
  BY <1>1, <1>2, PTL DEF Bill!Spec

\* Customers, the record, requests and handlers keep their types.
LEMMA BillingTypeCorrect ==
    ASSUME Bill!BillingAssumption
    PROVE  Bill!Spec => []Bill!TypeOK
<1>1. BillingTypeInv => Bill!TypeOK
  BY DEF BillingTypeInv, BillingRows, Handling, Bill!TypeOK
<1> QED
  BY <1>1, BillingSafe, PTL DEF BillingInv

\* Each column of the record is one Stripe gave its customer, and they belong together
\* as long as no two handlers have overlapped.
LEMMA TiersAreTold ==
    ASSUME Bill!BillingAssumption
    PROVE  Bill!Spec => []Bill!TierComesFromStripe
<1>1. ToldInv /\ AloneInv => Bill!TierComesFromStripe
  BY DEF ToldInv, AloneInv, ToldOf, Told, Coherent, Paid, Bill!TierComesFromStripe,
         Bill!PaidTierHasSubscription
<1> QED
  BY <1>1, BillingSafe, PTL DEF BillingInv

-----------------------------------------------------------------------------
(* Environments: a name has one catalog for ever.                          *)

EnvironmentRows == [name : Names, catalog : Catalogs, ephemeral : BOOLEAN,
                    expired : BOOLEAN, deleted : BOOLEAN]

Has(name, catalog) == \E e \in envRows : e.name = name /\ e.catalog = catalog

\* What a promotion or a promoter says of its two environments.
NamesRows(p) == Has(p.source, p.sourceCatalog) /\ Has(p.target, p.targetCatalog)

EnvironmentInv ==
    /\ envRows \subseteq EnvironmentRows
    /\ \A e, f \in envRows : e.name = f.name => e.catalog = f.catalog
    /\ \A p \in promotions : NamesRows(p)
    /\ promoter = [q \in Promoters |-> promoter[q]]
    /\ \A q \in Promoters : promoter[q].pc = "found" => NamesRows(promoter[q])
    /\ \A q \in Promoters : promoter[q].pc # "found" => promoter[q] = Environment!Idle

LEMMA EnvironmentInit == Environment!Init => EnvironmentInv
  BY DEF Environment!Init, Environment!Idle, EnvironmentInv

\* The rows keep their names and catalogs, and nothing else that matters changes.
LEMMA SameNames ==
    ASSUME EnvironmentInv, envRows' \subseteq EnvironmentRows,
           UNCHANGED <<promotions, promoter>>,
           \A e \in envRows : \E f \in envRows' : f.name = e.name /\ f.catalog = e.catalog,
           \A e, f \in envRows' : e.name = f.name => e.catalog = f.catalog
    PROVE  EnvironmentInv'
<1>1. ASSUME NEW p, NamesRows(p)
      PROVE  /\ \E e \in envRows' : e.name = p.source /\ e.catalog = p.sourceCatalog
             /\ \E e \in envRows' : e.name = p.target /\ e.catalog = p.targetCatalog
  BY <1>1 DEF NamesRows, Has
<1> QED
  BY <1>1 DEF EnvironmentInv, NamesRows, Has

Named(e, f) == f.name = e.name /\ f.catalog = e.catalog

LEMMA FlagSet ==
    ASSUME NEW e \in EnvironmentRows
    PROVE  /\ [e EXCEPT !.deleted = TRUE] \in EnvironmentRows
           /\ Named(e, [e EXCEPT !.deleted = TRUE])
           /\ [e EXCEPT !.expired = TRUE] \in EnvironmentRows
           /\ Named(e, [e EXCEPT !.expired = TRUE])
  BY DEF EnvironmentRows, Named

\* Rows of which a set was updated, in a column that is neither name nor catalog.
LEMMA Updated ==
    ASSUME EnvironmentInv, NEW rows \in SUBSET envRows, NEW updated \in SUBSET EnvironmentRows,
           \A e \in rows : \E f \in updated : Named(e, f),
           \A f \in updated : \E e \in rows : Named(e, f),
           envRows' = (envRows \ rows) \cup updated,
           UNCHANGED <<promotions, promoter>>
    PROVE  EnvironmentInv'
<1>1. \A f \in envRows' : \E e \in envRows : f.name = e.name /\ f.catalog = e.catalog
  BY DEF Named
<1>2. \A e \in envRows : \E f \in envRows' : f.name = e.name /\ f.catalog = e.catalog
  BY DEF Named
<1>3. envRows' \subseteq EnvironmentRows
  BY DEF EnvironmentInv
<1>4. \A e, f \in envRows' : e.name = f.name => e.catalog = f.catalog
  BY <1>1 DEF EnvironmentInv
<1> QED
  BY <1>2, <1>3, <1>4, SameNames

LEMMA EnvironmentStep ==
    EnvironmentInv /\ [Environment!Next]_(Environment!environmentsVars) => EnvironmentInv'
<1> SUFFICES ASSUME EnvironmentInv, [Environment!Next]_(Environment!environmentsVars)
             PROVE  EnvironmentInv'
  OBVIOUS
<1>1. ASSUME NEW name \in Names, NEW c \in Catalogs, NEW ephemeral \in BOOLEAN,
             Environment!Create(name, c, ephemeral)
      PROVE  EnvironmentInv'
  <2>1. CASE Environment!Taken(name)
    BY <1>1, <2>1 DEF Environment!Create, EnvironmentInv, NamesRows, Has
  <2>2. CASE ~Environment!Taken(name)
    <3> DEFINE new == [name |-> name, catalog |-> c, ephemeral |-> ephemeral,
                       expired |-> FALSE, deleted |-> FALSE]
    <3>1. envRows' = envRows \cup {new} /\ UNCHANGED <<promotions, promoter>>
      BY <1>1, <2>2 DEF Environment!Create
    <3>2. new \in EnvironmentRows /\ new.name = name
      BY DEF EnvironmentRows
    <3>3. \A e \in envRows : e.name # new.name
      BY <2>2 DEF Environment!Taken
    <3> HIDE DEF new
    <3>4. envRows' \subseteq EnvironmentRows
      BY <3>1, <3>2 DEF EnvironmentInv
    <3>5. \A e, f \in envRows' : e.name = f.name => e.catalog = f.catalog
      BY <3>1, <3>3 DEF EnvironmentInv
    <3> QED
      BY <3>1, <3>4, <3>5, SameNames
  <2> QED
    BY <2>1, <2>2
<1>2. ASSUME NEW rows \in SUBSET envRows, Environment!Delete(rows),
             UNCHANGED <<promotions, promoter>>
      PROVE  EnvironmentInv'
  <2> DEFINE updated == {[e EXCEPT !.deleted = TRUE] : e \in rows}
  <2>1. /\ updated \subseteq EnvironmentRows
        /\ \A e \in rows : \E f \in updated : Named(e, f)
        /\ \A f \in updated : \E e \in rows : Named(e, f)
    BY FlagSet DEF EnvironmentInv
  <2>2. envRows' = (envRows \ rows) \cup updated
    BY <1>2 DEF Environment!Delete
  <2> HIDE DEF updated
  <2> QED
    BY <1>2, <2>1, <2>2, Updated
<1>3. ASSUME NEW name \in Names, Environment!Expire(name)
      PROVE  EnvironmentInv'
  <2> DEFINE rows == Environment!Get(name)
             updated == {[e EXCEPT !.expired = TRUE] : e \in rows}
  <2>0. rows \subseteq envRows
    BY DEF Environment!Get, Environment!Active
  <2>1. /\ updated \subseteq EnvironmentRows
        /\ \A e \in rows : \E f \in updated : Named(e, f)
        /\ \A f \in updated : \E e \in rows : Named(e, f)
    BY <2>0, FlagSet DEF EnvironmentInv
  <2>2. /\ envRows' = (envRows \ rows) \cup updated
        /\ UNCHANGED <<promotions, promoter>>
    BY <1>3 DEF Environment!Expire
  <2> HIDE DEF updated, rows
  <2> QED
    BY <2>0, <2>1, <2>2, Updated
<1>4. ASSUME NEW name \in Names, Environment!SoftDelete(name)
      PROVE  EnvironmentInv'
  BY <1>2, <1>4 DEF Environment!SoftDelete, Environment!Get, Environment!Active
<1>5. ASSUME Environment!CleanupExpired
      PROVE  EnvironmentInv'
  BY <1>2, <1>5 DEF Environment!CleanupExpired, Environment!Active
<1>6. ASSUME NEW q \in Promoters, NEW s \in Names, NEW t \in Names, NEW x \in Snapshots,
             Environment!LookUp(q, s, t, x)
      PROVE  EnvironmentInv'
  <2>1. PICK e \in Environment!Get(s), f \in Environment!Get(t) :
          promoter' = [promoter EXCEPT ![q] =
              [pc |-> "found", source |-> s, target |-> t, snapshot |-> x,
               sourceCatalog |-> e.catalog, targetCatalog |-> f.catalog]]
    BY <1>6 DEF Environment!LookUp
  <2>2. e \in envRows /\ e.name = s /\ f \in envRows /\ f.name = t
    BY DEF Environment!Get, Environment!Active
  <2>3. UNCHANGED <<envRows, promotions>>
    BY <1>6 DEF Environment!LookUp
  <2> QED
    BY <2>1, <2>2, <2>3 DEF EnvironmentInv, NamesRows, Has
<1>7. ASSUME NEW q \in Promoters, Environment!RecordPromotion(q)
      PROVE  EnvironmentInv'
  <2>1. NamesRows(promoter[q])
    BY <1>7 DEF Environment!RecordPromotion, EnvironmentInv
  <2> QED
    BY <1>7, <2>1 DEF Environment!RecordPromotion, Environment!Idle, EnvironmentInv, NamesRows, Has
<1>8. CASE UNCHANGED Environment!environmentsVars
  BY <1>8 DEF Environment!environmentsVars, EnvironmentInv, NamesRows, Has
<1> QED
  BY <1>1, <1>3, <1>4, <1>5, <1>6, <1>7, <1>8 DEF Environment!Next

LEMMA NamesAreOne == Environment!Spec => []Environment!PromotionsNameOneEnvironment
<1>1. EnvironmentInv => Environment!PromotionsNameOneEnvironment
  BY DEF EnvironmentInv, NamesRows, Has, Environment!PromotionsNameOneEnvironment
<1> QED
  BY <1>1, EnvironmentInit, EnvironmentStep, PTL DEF Environment!Spec

-----------------------------------------------------------------------------
(* Division, for any divisor.                                              *)

LEMMA DivMod ==
    ASSUME NEW a \in Int, NEW n \in Nat, n > 0
    PROVE  /\ a \div n \in Int /\ a % n \in Int
           /\ a = (n * (a \div n)) + (a % n)
           /\ 0 <= a % n /\ a % n < n
<1>1. a \div n \in Int /\ a % n \in Int
  BY Z3
<1>2. a = (n * (a \div n)) + (a % n)
  BY Z3
<1>3. 0 <= a % n /\ a % n < n
  BY Z3
<1> QED
  BY <1>1, <1>2, <1>3

-----------------------------------------------------------------------------
(* BudgetGuard.                                                            *)

LEMMA CostIsSum ==
    ASSUME NEW f, NEW S
    PROVE  Budget!SumFunctionOnSet(f, S) = Sum(f, S)
  BY DEF Budget!SumFunctionOnSet, Budget!FoldFunctionOnSet, Budget!MapThenFoldSet,
         Sum, SumFrom, Some

\* The repository forgets no day of the current month, so the guard sees all that was
\* answered in it; and whoever calls the model passed the check, alone.
BudgetTypes ==
    /\ today \in Budget!Days
    /\ usage \in [Budget!Days -> Nat] /\ answered \in [Budget!Days -> Nat]
    /\ calling \subseteq Callers

RecordedInv ==
    \A d \in Budget!Days :
        /\ d > today => usage[d] = 0 /\ answered[d] = 0
        /\ d <= today /\ d \in Budget!MonthDays(today) => usage[d] = answered[d]

CheckedInv ==
    calling # {} => /\ answered[today] < Daily
                    /\ Sum(answered, Budget!MonthDays(today)) < Monthly

SpentInv ==
    \A d \in Budget!Days :
        /\ answered[d] < Daily + MaxCost
        /\ Sum(answered, Budget!MonthDays(d)) < Monthly + MaxCost

BudgetInv ==
    /\ BudgetTypes /\ RecordedInv /\ CheckedInv /\ SpentInv
    /\ \A b, c \in calling : b = c

LEMMA BudgetConstants ==
    ASSUME Budget!BudgetAssumption
    PROVE  /\ Daily \in Nat /\ Daily > 0 /\ Monthly \in Nat /\ Monthly > 0 /\ MaxCost \in Nat
           /\ MonthLength \in Nat /\ MonthLength > 0 /\ MaxDays \in Nat /\ MaxDays > 0
           /\ MaxAge \in Nat /\ MaxAge >= MonthLength
           /\ IsFiniteSet(Budget!Days) /\ Budget!Days \subseteq Nat
<1>1. IsFiniteSet(1 .. MaxDays)
  BY FS_Interval DEF Budget!BudgetAssumption
<1> QED
  BY <1>1 DEF Budget!BudgetAssumption, Budget!Days

\* The days of a month.
LEMMA Month ==
    ASSUME Budget!BudgetAssumption, NEW d \in Budget!Days
    PROVE  /\ Budget!MonthDays(d) \in SUBSET Budget!Days /\ IsFiniteSet(Budget!MonthDays(d))
           /\ d \in Budget!MonthDays(d)
           /\ \A e \in Budget!Days : e \in Budget!MonthDays(d) =>
                 d - e < MonthLength /\ Budget!MonthDays(e) = Budget!MonthDays(d)
           /\ \A e \in Budget!Days : d \in Budget!MonthDays(e) =>
                 Budget!MonthDays(e) = Budget!MonthDays(d)
<1>1. Budget!MonthDays(d) \in SUBSET Budget!Days /\ d \in Budget!MonthDays(d)
  BY DEF Budget!MonthDays
<1>2. IsFiniteSet(Budget!MonthDays(d))
  BY <1>1, BudgetConstants, FS_Subset
<1>3. ASSUME NEW e \in Budget!Days, e \in Budget!MonthDays(d)
      PROVE  d - e < MonthLength
  <2>1. d \in Int /\ e \in Int /\ d - 1 \in Int /\ e - 1 \in Int
        /\ MonthLength \in Nat /\ MonthLength > 0
    BY BudgetConstants
  <2>2. (d - 1) \div MonthLength = (e - 1) \div MonthLength
    BY <1>3 DEF Budget!MonthDays, Budget!MonthOf
  <2>3. /\ d - 1 = (MonthLength * ((d - 1) \div MonthLength)) + ((d - 1) % MonthLength)
        /\ 0 <= (d - 1) % MonthLength /\ (d - 1) % MonthLength < MonthLength
        /\ (d - 1) % MonthLength \in Int /\ (d - 1) \div MonthLength \in Int
    BY <2>1, DivMod
  <2>4. /\ e - 1 = (MonthLength * ((e - 1) \div MonthLength)) + ((e - 1) % MonthLength)
        /\ 0 <= (e - 1) % MonthLength /\ (e - 1) % MonthLength \in Int
    BY <2>1, DivMod
  <2> DEFINE m == MonthLength * ((d - 1) \div MonthLength)
             i == (d - 1) % MonthLength
             j == (e - 1) % MonthLength
  <2>5. m \in Int
    BY <2>1, <2>3
  <2>6. d - 1 = m + i /\ e - 1 = m + j /\ i \in Int /\ j \in Int /\ i < MonthLength /\ 0 <= j
    BY <2>2, <2>3, <2>4
  <2> HIDE DEF m, i, j
  <2> QED
    BY <2>1, <2>5, <2>6
<1>4. ASSUME NEW e \in Budget!Days, e \in Budget!MonthDays(d) \/ d \in Budget!MonthDays(e)
      PROVE  Budget!MonthDays(e) = Budget!MonthDays(d)
  BY <1>4 DEF Budget!MonthDays
<1> QED
  BY <1>1, <1>2, <1>3, <1>4

LEMMA NothingSpent ==
    ASSUME Budget!BudgetAssumption, NEW f, NEW T \in SUBSET Budget!Days, \A d \in T : f[d] = 0
    PROVE  Sum(f, T) = 0
<1>1. IsFiniteSet(T)
  BY BudgetConstants, FS_Subset
<1> QED
  BY <1>1, SumZero

LEMMA BudgetStart ==
    ASSUME Budget!BudgetAssumption
    PROVE  LET none == [d \in Budget!Days |-> 0]
           IN  \A d \in Budget!Days :
                   /\ none[d] < Daily /\ none[d] < Daily + MaxCost
                   /\ Sum(none, Budget!MonthDays(d)) = 0
                   /\ Sum(none, Budget!MonthDays(d)) < Monthly + MaxCost
<1> DEFINE none == [d \in Budget!Days |-> 0]
<1>1. ASSUME NEW d \in Budget!Days
      PROVE  Sum(none, Budget!MonthDays(d)) = 0
  <2>1. Budget!MonthDays(d) \in SUBSET Budget!Days
    BY Month
  <2>2. \A e \in Budget!MonthDays(d) : none[e] = 0
    BY <2>1
  <2> HIDE DEF none
  <2> QED
    BY <2>1, <2>2, NothingSpent
<1>2. \A d \in Budget!Days : none[d] = 0
  OBVIOUS
<1> HIDE DEF none
<1>3. \A d \in Budget!Days :
          /\ none[d] < Daily /\ none[d] < Daily + MaxCost
          /\ Sum(none, Budget!MonthDays(d)) = 0
          /\ Sum(none, Budget!MonthDays(d)) < Monthly + MaxCost
  BY <1>1, <1>2, BudgetConstants
<1> QED
  BY <1>3 DEF none

LEMMA BudgetInit == Budget!BudgetAssumption /\ Budget!Init => BudgetInv
<1> SUFFICES ASSUME Budget!BudgetAssumption, Budget!Init
             PROVE  BudgetInv
  OBVIOUS
<1>1. /\ today = 1 /\ calling = {}
      /\ usage = [d \in Budget!Days |-> 0] /\ answered = [d \in Budget!Days |-> 0]
  BY DEF Budget!Init
<1>2. today \in Budget!Days
  BY <1>1, BudgetConstants DEF Budget!Days
<1>3. SpentInv
  BY <1>1, <1>2, BudgetStart DEF SpentInv
<1> QED
  BY <1>1, <1>2, <1>3 DEF BudgetInv, BudgetTypes, RecordedInv, CheckedInv

\* The check sees what was answered.
LEMMA StartCallStep ==
    ASSUME Budget!BudgetAssumption, BudgetInv, NEW c \in Callers, Budget!StartCall(c)
    PROVE  BudgetInv'
<1>1. /\ calling = {} /\ Budget!WithinBudget /\ calling' = calling \cup {c}
      /\ UNCHANGED <<today, usage, answered>>
  BY DEF Budget!StartCall, Budget!LockIsFree
<1>2. /\ today \in Budget!Days /\ today \in Nat
      /\ usage \in [Budget!Days -> Nat] /\ answered \in [Budget!Days -> Nat]
      /\ RecordedInv
  BY BudgetConstants DEF BudgetInv, BudgetTypes
<1> DEFINE M == Budget!MonthDays(today)
           T == {d \in M : d <= today}
<1>3. M \in SUBSET Budget!Days /\ IsFiniteSet(M) /\ today \in M
  BY <1>2, Month
<1>4. T \in SUBSET M /\ IsFiniteSet(T)
  BY <1>3, FS_Subset
<1>5. usage[today] < Daily
  <2>1. Sum(usage, {today}) < Daily
    BY <1>1, CostIsSum DEF Budget!WithinBudget, Budget!PeriodCost
  <2>0. IsFiniteSet({today})
    BY FS_Singleton
  <2>2. (\A d \in {today} : usage[d] \in Int) /\ {today} \ {today} = {}
    BY <1>2
  <2>3. Sum(usage, {today}) = usage[today] + Sum(usage, {today} \ {today})
    BY <2>0, <2>2, SumLess
  <2>4. Sum(usage, {}) = 0
    BY SumEmpty
  <2>5. Sum(usage, {today} \ {today}) = 0
    BY ONLY <2>2, <2>4, Zenon
  <2>6. usage[today] \in Nat
    BY <1>2
  <2> QED
    BY <2>1, <2>3, <2>5, <2>6
<1>6. Sum(usage, T) < Monthly
  BY <1>1, CostIsSum DEF Budget!WithinBudget, Budget!PeriodCost
<1>7. \A d \in T : usage[d] = answered[d]
  BY <1>2, <1>3 DEF RecordedInv
<1>8. \A d \in M \ T : answered[d] = 0
  <2>1. ASSUME NEW d \in Budget!Days, ~(d <= today)
        PROVE  answered[d] = 0
    <3>1. d \in Nat /\ d > today
      BY <1>2, <2>1, BudgetConstants
    <3> QED
      BY <1>2, <3>1 DEF RecordedInv
  <2> QED
    BY <1>3, <2>1
<1>9. \A d \in M : answered[d] \in Int
  <2>1. \A d \in Budget!Days : answered[d] \in Int
    BY <1>2
  <2> QED
    BY <1>3, <2>1
<1>10. \A d \in T : answered[d] \in Int
  BY <1>9
<1> HIDE DEF M, T
<1>11. Sum(answered, M) = Sum(answered, T)
  BY <1>3, <1>4, <1>8, <1>9, SumOverSubset
<1>12. Sum(usage, T) = Sum(answered, T)
  BY <1>4, <1>7, <1>10, SumAgree
<1>13. Sum(answered, M) < Monthly
  BY <1>6, <1>11, <1>12
<1>14. answered[today] < Daily
  BY <1>2, <1>3, <1>5 DEF RecordedInv, M
<1>15. /\ BudgetTypes' /\ RecordedInv' /\ CheckedInv' /\ SpentInv'
  BY <1>1, <1>13, <1>14
     DEF BudgetInv, BudgetTypes, RecordedInv, CheckedInv, SpentInv, M, Budget!MonthDays
<1> QED
  BY <1>1, <1>15 DEF BudgetInv

\* What recording keeps: every day of the month so far, and no day to come.
LEMMA Recorded ==
    ASSUME Budget!BudgetAssumption, BudgetTypes, RecordedInv, NEW cost \in Nat,
           Budget!Record(cost)
    PROVE  /\ usage' \in [Budget!Days -> Nat]
           /\ \A d \in Budget!Days :
                 /\ d > today => usage'[d] = 0
                 /\ d <= today /\ d \in Budget!MonthDays(today) =>
                       usage'[d] = IF d = today THEN usage[d] + cost ELSE usage[d]
<1>1. PICK oldest \in {today - MaxAge, today - MaxAge + 1} :
          usage' = [d \in Budget!Days |->
                       IF Budget!Kept(d) /\ d >= oldest
                       THEN [usage EXCEPT ![today] = @ + cost][d] ELSE 0]
  BY DEF Budget!Record
<1>2. /\ today \in Budget!Days /\ today \in Nat /\ usage \in [Budget!Days -> Nat]
      /\ MaxAge \in Nat /\ MonthLength \in Nat /\ MaxAge >= MonthLength
      /\ oldest \in Int /\ oldest <= today - MaxAge + 1
  BY BudgetConstants DEF BudgetTypes
<1>3. [usage EXCEPT ![today] = @ + cost] \in [Budget!Days -> Nat]
  BY <1>2
<1>4. usage' \in [Budget!Days -> Nat]
  BY <1>1, <1>3
<1>5. ASSUME NEW d \in Budget!Days
      PROVE  /\ d > today => usage'[d] = 0
             /\ d <= today /\ d \in Budget!MonthDays(today) =>
                   usage'[d] = IF d = today THEN usage[d] + cost ELSE usage[d]
  <2>1. d \in Nat
    BY BudgetConstants
  <2>2. ASSUME d > today
        PROVE  usage'[d] = 0
    BY <1>1, <1>2, <2>1, <2>2 DEF RecordedInv
  <2>3. ASSUME d <= today, d \in Budget!MonthDays(today)
        PROVE  usage'[d] = IF d = today THEN usage[d] + cost ELSE usage[d]
    <3>1. today - d < MonthLength
      BY <1>2, <2>3, Month
    <3>2. Budget!Kept(d) /\ d >= oldest
      BY <1>2, <2>1, <3>1 DEF Budget!Kept
    <3> QED
      BY <1>1, <1>2, <3>2
  <2> QED
    BY <2>2, <2>3
<1> QED
  BY <1>4, <1>5

LEMMA AnswerStep ==
    ASSUME Budget!BudgetAssumption, BudgetInv, NEW c \in Callers, Budget!Answer(c)
    PROVE  BudgetInv'
<1>1. PICK cost \in 0 .. MaxCost :
          Budget!Record(cost) /\ answered' = [answered EXCEPT ![today] = @ + cost]
  BY DEF Budget!Answer
<1>2. c \in calling /\ calling' = calling \ {c} /\ today' = today
  BY DEF Budget!Answer
<1>3. /\ today \in Budget!Days /\ today \in Nat
      /\ usage \in [Budget!Days -> Nat] /\ answered \in [Budget!Days -> Nat]
      /\ BudgetTypes /\ RecordedInv /\ SpentInv
      /\ MaxCost \in Nat /\ cost \in Nat /\ cost <= MaxCost /\ Daily \in Nat /\ Monthly \in Nat
  BY BudgetConstants DEF BudgetInv, BudgetTypes
<1>4. calling' = {} /\ calling # {}
  BY <1>2 DEF BudgetInv
<1>5. answered[today] < Daily /\ Sum(answered, Budget!MonthDays(today)) < Monthly
  BY <1>4 DEF BudgetInv, CheckedInv
<1>6. /\ usage' \in [Budget!Days -> Nat]
      /\ \A d \in Budget!Days :
            /\ d > today => usage'[d] = 0
            /\ d <= today /\ d \in Budget!MonthDays(today) =>
                  usage'[d] = IF d = today THEN usage[d] + cost ELSE usage[d]
  BY <1>1, <1>3, Recorded
<1>7. /\ answered' \in [Budget!Days -> Nat] /\ answered'[today] = answered[today] + cost
      /\ \A d \in Budget!Days \ {today} : answered'[d] = answered[d]
  BY <1>1, <1>3
<1>8. BudgetTypes'
  BY <1>2, <1>3, <1>4, <1>6, <1>7 DEF BudgetTypes
<1>9. RecordedInv'
  <2>1. ASSUME NEW d \in Budget!Days
        PROVE  /\ d > today => usage'[d] = 0 /\ answered'[d] = 0
               /\ d <= today /\ d \in Budget!MonthDays(today) => usage'[d] = answered'[d]
    BY <1>3, <1>6, <1>7 DEF RecordedInv
  <2> QED
    BY <1>2, <2>1 DEF RecordedInv, Budget!MonthDays
<1>10. CheckedInv'
  BY <1>4 DEF CheckedInv
<1>11. ASSUME NEW d \in Budget!Days
       PROVE  /\ answered'[d] < Daily + MaxCost
              /\ Sum(answered', Budget!MonthDays(d)) < Monthly + MaxCost
  <2>1. answered'[d] < Daily + MaxCost
    <3>1. answered[d] \in Nat /\ answered[d] < Daily + MaxCost
      BY <1>3 DEF SpentInv
    <3>2. CASE d = today
      BY <1>3, <1>5, <1>7, <3>1, <3>2
    <3>3. CASE d # today
      BY <1>7, <3>1, <3>3
    <3> QED
      BY <3>2, <3>3
  <2> DEFINE M == Budget!MonthDays(d)
  <2>2. M \in SUBSET Budget!Days /\ IsFiniteSet(M)
    BY Month
  <2>3. today \in M => M = Budget!MonthDays(today)
    BY <1>3, Month
  <2>4. Sum(answered, M) < Monthly + MaxCost
    BY <1>3 DEF SpentInv
  <2>5. \A e \in M : answered[e] \in Int
    <3>1. \A e \in Budget!Days : answered[e] \in Int
      BY <1>3
    <3> QED
      BY <2>2, <3>1
  <2> HIDE DEF M
  <2>6. Sum(answered, M) \in Int
    BY <2>2, <2>5, SumIsInt
  <2>7. CASE today \in M
    <3>1. /\ answered'[today] \in Int /\ answered'[today] - answered[today] = cost
      BY <1>3, <1>7
    <3>2. \A e \in M \ {today} : answered'[e] = answered[e]
      BY <1>7, <2>2
    <3>3. Sum(answered', M) = Sum(answered, M) + (answered'[today] - answered[today])
      BY <2>2, <2>5, <2>7, <3>1, <3>2, SumChanged
    <3>4. Sum(answered, M) < Monthly
      BY <1>5, <2>3, <2>7
    <3>5. Sum(answered', M) < Monthly + MaxCost
      BY <1>3, <2>6, <3>1, <3>3, <3>4
    <3> QED
      BY <2>1, <3>5 DEF M
  <2>8. CASE today \notin M
    <3>1. \A e \in M : answered'[e] = answered[e]
      BY <1>7, <2>2, <2>8
    <3>2. Sum(answered', M) = Sum(answered, M)
      BY <2>2, <2>5, <3>1, SumAgree
    <3> QED
      BY <2>1, <2>4, <3>2 DEF M
  <2> QED
    BY <2>7, <2>8
<1>12. SpentInv'
  BY <1>11 DEF SpentInv
<1> QED
  BY <1>4, <1>8, <1>9, <1>10, <1>12 DEF BudgetInv

LEMMA FailedCallStep ==
    ASSUME Budget!BudgetAssumption, BudgetInv, NEW c \in Callers, Budget!FailedCall(c)
    PROVE  BudgetInv'
<1>1. /\ c \in calling /\ Budget!Record(0) /\ calling' = calling \ {c}
      /\ UNCHANGED <<today, answered>>
  BY DEF Budget!FailedCall
<1>2. /\ today \in Budget!Days /\ today \in Nat
      /\ usage \in [Budget!Days -> Nat] /\ answered \in [Budget!Days -> Nat]
      /\ BudgetTypes /\ RecordedInv /\ SpentInv
  BY BudgetConstants DEF BudgetInv, BudgetTypes
<1>3. calling' = {}
  BY <1>1 DEF BudgetInv
<1>4. /\ usage' \in [Budget!Days -> Nat]
      /\ \A d \in Budget!Days :
            /\ d > today => usage'[d] = 0
            /\ d <= today /\ d \in Budget!MonthDays(today) =>
                  usage'[d] = IF d = today THEN usage[d] + 0 ELSE usage[d]
  BY <1>1, <1>2, Recorded
<1>5. RecordedInv'
  <2>1. ASSUME NEW d \in Budget!Days
        PROVE  /\ d > today => usage'[d] = 0 /\ answered[d] = 0
               /\ d <= today /\ d \in Budget!MonthDays(today) => usage'[d] = answered[d]
    <3>1. usage[d] \in Nat /\ usage[d] + 0 = usage[d]
      BY <1>2
    <3> QED
      BY <1>2, <1>4, <3>1 DEF RecordedInv
  <2> QED
    BY <1>1, <2>1 DEF RecordedInv, Budget!MonthDays
<1>6. BudgetTypes' /\ CheckedInv' /\ SpentInv'
  BY <1>1, <1>2, <1>3, <1>4
     DEF BudgetTypes, CheckedInv, SpentInv, Budget!MonthDays
<1> QED
  BY <1>3, <1>5, <1>6 DEF BudgetInv

LEMMA NextDayStep ==
    ASSUME Budget!BudgetAssumption, BudgetInv, Budget!NextDay
    PROVE  BudgetInv'
<1>1. /\ today < MaxDays /\ today' = today + 1 /\ UNCHANGED <<usage, calling, answered>>
  BY DEF Budget!NextDay
<1>2. /\ today \in Budget!Days /\ today \in Nat /\ MaxDays \in Nat
      /\ BudgetTypes /\ RecordedInv /\ CheckedInv /\ SpentInv
      /\ usage \in [Budget!Days -> Nat] /\ answered \in [Budget!Days -> Nat]
      /\ Daily > 0 /\ Monthly > 0
  BY BudgetConstants DEF BudgetInv, BudgetTypes
<1>3. today + 1 \in Budget!Days
  BY <1>1, <1>2 DEF Budget!Days
<1> DEFINE M == Budget!MonthDays(today)
           N == Budget!MonthDays(today + 1)
<1>4. /\ M \in SUBSET Budget!Days /\ N \in SUBSET Budget!Days /\ today + 1 \in N /\ today \in M
      /\ IsFiniteSet(N) /\ (\A e \in N : Budget!MonthDays(e) = N)
  BY <1>2, <1>3, Month
<1>5. \A d \in N : d <= today => N = M
  <2>1. ASSUME NEW d \in Budget!Days, d \in N, d <= today
        PROVE  N = M
    <3>1. /\ d \in Int /\ d - 1 \in Int /\ today - 1 \in Int
          /\ MonthLength \in Nat /\ MonthLength > 0
      BY <1>2, BudgetConstants
    <3>2. (d - 1) \div MonthLength = today \div MonthLength
      <4> DEFINE e == today + 1
      <4>1. e \in Budget!Days /\ d \in Budget!MonthDays(e)
        BY <1>3, <2>1
      <4>2. e - 1 = today
        BY <1>2
      <4> HIDE DEF e
      <4>3. (d - 1) \div MonthLength = (e - 1) \div MonthLength
        BY <4>1 DEF Budget!MonthDays, Budget!MonthOf
      <4> QED
        BY <4>2, <4>3
    <3>3. (today - 1) \div MonthLength = today \div MonthLength
      <4> DEFINE a == (d - 1) \div MonthLength
                 b == (today - 1) \div MonthLength
      <4>1. /\ d - 1 = (MonthLength * a) + ((d - 1) % MonthLength) /\ a \in Int
            /\ 0 <= (d - 1) % MonthLength /\ (d - 1) % MonthLength \in Int
        BY <3>1, DivMod
      <4>2. /\ today - 1 = (MonthLength * b) + ((today - 1) % MonthLength) /\ b \in Int
            /\ 0 <= (today - 1) % MonthLength /\ (today - 1) % MonthLength < MonthLength
            /\ (today - 1) % MonthLength \in Int
        BY <3>1, DivMod
      <4>3. /\ today = (MonthLength * a) + (today % MonthLength)
            /\ today % MonthLength < MonthLength /\ today % MonthLength \in Int
        BY <1>2, <3>1, <3>2, DivMod
      <4> DEFINE i == (d - 1) % MonthLength
                 j == (today - 1) % MonthLength
                 k == today % MonthLength
      <4> HIDE DEF a, b, i, j, k
      <4>4. /\ d - 1 = (MonthLength * a) + i /\ 0 <= i /\ i \in Int
            /\ today - 1 = (MonthLength * b) + j /\ 0 <= j /\ j < MonthLength /\ j \in Int
            /\ today = (MonthLength * a) + k /\ k < MonthLength /\ k \in Int
            /\ a \in Int /\ b \in Int
        BY <4>1, <4>2, <4>3 DEF i, j, k
      <4>5. MonthLength * a \in Int /\ MonthLength * b \in Int
        BY <3>1, <4>4
      <4>6. MonthLength * a <= today - 1 /\ today - 1 < (MonthLength * a) + MonthLength
        BY <1>2, <2>1, <3>1, <4>4, <4>5
      <4>7. MonthLength * (a - b) < MonthLength /\ MonthLength * (b - a) < MonthLength
        <5>1. MonthLength * (a - b) = (MonthLength * a) - (MonthLength * b)
          BY <3>1, <4>4, Z3
        <5>2. MonthLength * (b - a) = (MonthLength * b) - (MonthLength * a)
          BY <3>1, <4>4, Z3
        <5> QED
          BY <1>2, <3>1, <4>4, <4>5, <4>6, <5>1, <5>2
      <4>8. ~(a - b >= 1)
        BY <3>1, <4>4, <4>7, Z3
      <4>9. ~(b - a >= 1)
        BY <3>1, <4>4, <4>7, Z3
      <4>10. a = b
        BY <4>4, <4>8, <4>9
      <4> QED
        BY <3>2, <4>10 DEF a, b
    <3>4. today \in N
      BY <1>2, <3>1, <3>3 DEF Budget!MonthDays, Budget!MonthOf
    <3> QED
      BY <1>4, <3>4
  <2> QED
    BY <1>4, <2>1
<1>6. RecordedInv'
  <2>1. ASSUME NEW d \in Budget!Days
        PROVE  /\ d > today + 1 => usage[d] = 0 /\ answered[d] = 0
               /\ d <= today + 1 /\ d \in N => usage[d] = answered[d]
    <3>1. d \in Nat
      BY BudgetConstants
    <3>2. d > today => usage[d] = 0 /\ answered[d] = 0
      BY <1>2 DEF RecordedInv
    <3>3. d <= today /\ d \in M => usage[d] = answered[d]
      BY <1>2 DEF RecordedInv
    <3>4. d \in N /\ d <= today => d \in M
      BY <1>5
    <3> HIDE DEF M, N
    <3> QED
      BY <1>2, <3>1, <3>2, <3>3, <3>4
  <2> QED
    BY <1>1, <2>1 DEF RecordedInv, Budget!MonthDays
<1>7. CheckedInv'
  <2>1. ASSUME calling # {}
        PROVE  answered[today + 1] < Daily /\ Sum(answered, N) < Monthly
    <3>1. answered[today + 1] = 0
      BY <1>2, <1>3 DEF RecordedInv
    <3>2. CASE N = M
      BY <1>2, <2>1, <3>1, <3>2 DEF CheckedInv
    <3>3. CASE N # M
      <4>1. \A d \in N : answered[d] = 0
        <5>1. ASSUME NEW d \in N
              PROVE  answered[d] = 0
          <6>1. d \in Budget!Days /\ d \in Nat
            BY <1>4, BudgetConstants
          <6>2. ~(d <= today)
            BY <1>5, <3>3
          <6> QED
            BY <1>2, <6>1, <6>2 DEF RecordedInv
        <5> QED
          BY <5>1
      <4> HIDE DEF N
      <4>2. Sum(answered, N) = 0
        BY <1>4, <4>1, SumZero
      <4> QED
        BY <1>2, <3>1, <4>2
    <3> QED
      BY <3>2, <3>3
  <2> QED
    BY <1>1, <2>1 DEF CheckedInv, Budget!MonthDays
<1>8. BudgetTypes' /\ SpentInv'
  BY <1>1, <1>2, <1>3 DEF BudgetTypes, SpentInv, Budget!MonthDays
<1> QED
  BY <1>1, <1>6, <1>7, <1>8 DEF BudgetInv

LEMMA BudgetStep ==
    Budget!BudgetAssumption /\ BudgetInv /\ [Budget!Next]_(Budget!budgetVars) => BudgetInv'
<1> SUFFICES ASSUME Budget!BudgetAssumption, BudgetInv, [Budget!Next]_(Budget!budgetVars)
             PROVE  BudgetInv'
  OBVIOUS
<1>1. ASSUME NEW c \in Callers, Budget!Cancelled(c)
      PROVE  BudgetInv'
  BY <1>1
     DEF Budget!Cancelled, BudgetInv, BudgetTypes, RecordedInv, CheckedInv, SpentInv,
         Budget!MonthDays
<1>2. CASE Budget!Restart
  <2>1. /\ usage' = [d \in Budget!Days |-> 0] /\ answered' = [d \in Budget!Days |-> 0]
        /\ calling' = {} /\ today' = today /\ today \in Budget!Days
    BY <1>2 DEF Budget!Restart, BudgetInv, BudgetTypes
  <2>2. SpentInv'
    BY <2>1, BudgetStart DEF SpentInv
  <2> QED
    BY <2>1, <2>2 DEF BudgetInv, BudgetTypes, RecordedInv, CheckedInv
<1>3. CASE UNCHANGED Budget!budgetVars
  BY <1>3
     DEF Budget!budgetVars, BudgetInv, BudgetTypes, RecordedInv, CheckedInv, SpentInv,
         Budget!MonthDays
<1> QED
  BY <1>1, <1>2, <1>3, StartCallStep, AnswerStep, FailedCallStep, NextDayStep DEF Budget!Next

LEMMA BudgetSafe ==
    ASSUME Budget!BudgetAssumption
    PROVE  Budget!Spec => []BudgetInv
<1>1. Budget!Init => BudgetInv
  BY BudgetInit
<1>2. BudgetInv /\ [Budget!Next]_(Budget!budgetVars) => BudgetInv'
  BY BudgetStep
<1> QED
  BY <1>1, <1>2, PTL DEF Budget!Spec

-----------------------------------------------------------------------------
(* Schedules: the calendar.                                                *)

\* Quotient and remainder are the only ones.
LEMMA DivModIs ==
    ASSUME NEW a \in Int, NEW n \in Nat, n > 0,
           NEW q \in Int, NEW r \in Int, a = (n * q) + r, 0 <= r, r < n
    PROVE  a \div n = q /\ a % n = r
  BY Z3

\* Multiples of n that differ, differ by n or more.
LEMMA MultiplesApart ==
    ASSUME NEW n \in Nat, n > 0, NEW j \in Int, NEW k \in Int
    PROVE  /\ n * j \in Int /\ n * k \in Int
           /\ j < k => (n * j) + n <= n * k
           /\ n * (j + k) = (n * j) + (n * k)
           /\ n * (j + 1) = (n * j) + n
<1>1. n * j \in Int /\ n * k \in Int
  OBVIOUS
<1>2. n * (j + k) = (n * j) + (n * k)
  BY Z3
<1>3. n * (j + 1) = (n * j) + n
  BY Z3
<1>4. j < k => (n * j) + n <= n * k
  <2>1. ASSUME j < k
        PROVE  (n * j) + n <= n * k
    <3>1. n * (k - j) >= n
      BY <2>1, Z3
    <3>2. n * (k - j) = (n * k) - (n * j)
      BY Z3
    <3> QED
      BY <1>1, <3>1, <3>2
  <2> QED
    BY <2>1
<1> QED
  BY <1>1, <1>2, <1>3, <1>4

\* How the code finds the next time that lies o after a multiple of the period n.
OnPeriod(n, o, t, s, next) ==
    /\ n > 0 /\ o < n /\ s = t % n
    /\ next = t - s + o + (IF t - s + o <= t THEN n ELSE 0)

\* It is the first one after t.
FirstOn(n, o, t, next) ==
    /\ next \in Nat /\ next > t
    /\ \A u \in Int : t < u /\ u <= next => (u % n = o <=> u = next)

LEMMA FirstOfPeriod ==
    ASSUME NEW n \in Nat, NEW o \in Nat, NEW t \in Nat, NEW s \in Int, NEW next \in Int,
           OnPeriod(n, o, t, s, next)
    PROVE  FirstOn(n, o, t, next)
<1> USE DEF OnPeriod
<1> DEFINE q == t \div n
<1>1. t = (n * q) + s /\ q \in Int /\ s \in Int /\ 0 <= s /\ s < n
  BY DivMod
<1>2. next = t - s + o + (IF t - s + o <= t THEN n ELSE 0)
  OBVIOUS
<1> HIDE DEF q
<1>3. n * q \in Int /\ n * (q + 1) = (n * q) + n
  BY <1>1, MultiplesApart
<1>4. PICK j \in {q, q + 1} :
         /\ next = (n * j) + o /\ next > t /\ next - n <= t
  <2>1. CASE (n * q) + o <= t
    <3>1. next = (n * (q + 1)) + o
      BY <1>1, <1>2, <1>3, <2>1
    <3> QED
      BY <1>1, <1>3, <2>1, <3>1
  <2>2. CASE ~((n * q) + o <= t)
    <3>1. next = (n * q) + o
      BY <1>1, <1>2, <1>3, <2>2
    <3> QED
      BY <1>1, <1>3, <2>2, <3>1
  <2> QED
    BY <2>1, <2>2
<1>5. j \in Int /\ n * j \in Int /\ next \in Int
  BY <1>1, <1>3, <1>4
<1>6. next % n = o
  <2>1. o \in Int /\ 0 <= o /\ o < n
    OBVIOUS
  <2>2. next = (n * j) + o
    BY <1>4
  <2> QED
    BY ONLY <1>5, <2>1, <2>2, n \in Nat, n > 0, DivModIs
<1>7. ASSUME NEW u \in Int, t < u, u < next, u % n = o
      PROVE  FALSE
  <2> DEFINE k == u \div n
  <2>1. u = (n * k) + o /\ k \in Int
    BY <1>7, DivMod
  <2> HIDE DEF k
  <2>2. n * k \in Int /\ (k < j => (n * k) + n <= n * j) /\ (j < k => (n * j) + n <= n * k)
    BY <1>5, <2>1, MultiplesApart
  <2>3. CASE k < j
    BY <1>4, <1>5, <1>7, <2>1, <2>2, <2>3
  <2>4. CASE k = j
    BY <1>4, <1>7, <2>1, <2>4
  <2>5. CASE j < k
    BY <1>4, <1>5, <1>7, <2>1, <2>2, <2>5
  <2> QED
    BY <1>5, <2>1, <2>3, <2>4, <2>5
<1>8. next \in Nat
  BY <1>4, <1>5
<1>9. ASSUME NEW u \in Int, t < u, u <= next
      PROVE  u % n = o <=> u = next
  <2>1. CASE u < next
    BY <1>5, <1>7, <1>9, <2>1
  <2>2. CASE u = next
    BY <1>6, <2>2
  <2> QED
    BY <1>5, <1>9, <2>1, <2>2
<1> QED
  BY <1>4, <1>8, <1>9 DEF FirstOn

\* The minute of the day is made of the hour and the minute of the hour, and tells them.
OfDay(H, D, h, m, n, o) ==
    H > 0 /\ D > 0 /\ n = H * D /\ o = (h * H) + m

TellsHour(H, h, m, n, o) ==
    /\ n \in Nat /\ n > 0 /\ o \in Nat /\ o < n
    /\ \A u \in Int : u % n = o <=> u % H = m /\ (u % n) \div H = h

LEMMA MinuteOfDay ==
    ASSUME NEW H \in Nat, NEW D \in Nat, NEW h \in 0 .. D - 1, NEW m \in 0 .. H - 1,
           NEW n \in Int, NEW o \in Int, OfDay(H, D, h, m, n, o)
    PROVE  TellsHour(H, h, m, n, o)
<1> USE DEF OfDay
<1>1. n \in Nat /\ n > 0
  <2>1. H * D \in Nat
    OBVIOUS
  <2>2. H * D > 0
    BY Z3
  <2> QED
    BY <2>1, <2>2
<1>2. h * H = H * h /\ H * h \in Nat
  <2>1. h * H = H * h
    BY Z3
  <2> QED
    BY <2>1
<1>3. (H * h) + H <= H * D
  BY MultiplesApart
<1>4. ASSUME NEW u \in Int
      PROVE  u % n = o <=> u % H = m /\ (u % n) \div H = h
  <2> DEFINE q == u \div n
             s == u % n
  <2>1. u = (n * q) + s /\ q \in Int /\ s \in Int /\ 0 <= s /\ s < n
    BY <1>1, DivMod
  <2> DEFINE a == s \div H
             b == s % H
  <2>2. s = (H * a) + b /\ a \in Int /\ b \in Int /\ 0 <= b /\ b < H
    BY <2>1, DivMod
  <2> HIDE DEF q, s
  <2> HIDE DEF a, b
  <2>3. u = (H * ((D * q) + a)) + b
    <3>1. u = ((H * D) * q) + ((H * a) + b)
      BY <2>1, <2>2
    <3>2. (H * D) * q = H * (D * q) /\ D * q \in Int
      BY <2>1, Z3
    <3>3. H * ((D * q) + a) = (H * (D * q)) + (H * a)
      BY <2>2, <3>2, MultiplesApart
    <3>4. H * a \in Int /\ H * (D * q) \in Int
      BY <2>2, <3>2
    <3> QED
      BY <2>2, <3>1, <3>2, <3>3, <3>4
  <2>4. u % H = b
    <3>1. (D * q) + a \in Int
      BY <2>1, <2>2
    <3> QED
      BY <2>2, <2>3, <3>1, DivModIs
  <2>5. s \div H = a
    BY DEF a
  <2>6. s = (h * H) + m <=> b = m /\ a = h
    <3>1. ASSUME s = (h * H) + m
          PROVE  b = m /\ a = h
      <4>1. s = (H * h) + m
        BY <1>2, <3>1
      <4>2. s \div H = h /\ s % H = m
        BY <2>1, <4>1, DivModIs
      <4> QED
        BY <4>2 DEF a, b
    <3>2. ASSUME b = m, a = h
          PROVE  s = (h * H) + m
      BY <1>2, <2>2, <3>2
    <3> QED
      BY <3>1, <3>2
  <2>7. u % n = s
    BY DEF s
  <2> QED
    BY <2>4, <2>5, <2>6, <2>7
<1>5. o \in Nat /\ o < n
  BY <1>1, <1>2, <1>3
<1> QED
  BY <1>1, <1>4, <1>5 DEF TellsHour

\* Cron's day of the week, and how far it is from day q.
LEMMA DayAhead ==
    ASSUME NEW W \in Nat, W > 0, NEW q \in Int, NEW dow \in 0 .. W - 1,
           NEW w \in Int, w = q % W, NEW p \in Int, p = (dow - 1) % W,
           NEW first \in Int, first = (p - w) % W
    PROVE  first \in 0 .. W - 1 /\ (q + first + 1) % W = dow
<1> DEFINE a == q \div W
           b == (dow - 1) \div W
           c == (p - w) \div W
<1>1. q = (W * a) + w /\ a \in Int /\ w \in Int
  BY DivMod
<1>2. dow - 1 = (W * b) + p /\ b \in Int /\ p \in Int
  <2>1. dow - 1 \in Int
    OBVIOUS
  <2> QED
    BY <2>1, DivMod
<1>3. p - w = (W * c) + first /\ c \in Int /\ first \in Int /\ 0 <= first /\ first < W
  <2>1. p - w \in Int
    BY <1>1, <1>2
  <2> QED
    BY <2>1, DivMod
<1> HIDE DEF a, b, c
<1>4. q + first + 1 = (W * ((a - b) - c)) + dow
  <2>1. W * ((a - b) - c) = (W * a) - (W * b) - (W * c)
    BY <1>1, <1>2, <1>3, Z3
  <2>2. W * a \in Int /\ W * b \in Int /\ W * c \in Int
    BY <1>1, <1>2, <1>3
  <2> QED
    BY <1>1, <1>2, <1>3, <2>1, <2>2
<1>5. (q + first + 1) % W = dow
  <2>1. q + first + 1 \in Int /\ (a - b) - c \in Int /\ 0 <= dow /\ dow < W /\ dow \in Int
    BY <1>1, <1>2, <1>3
  <2> QED
    BY <1>4, <2>1, DivModIs
<1> QED
  BY <1>3, <1>5

LEMMA WeekLater ==
    ASSUME NEW W \in Nat, W > 0, NEW q \in Int
    PROVE  (q + W) % W = q % W
<1> DEFINE d == q \div W
           e == q % W
<1>1. q = (W * d) + e /\ d \in Int /\ e \in Int /\ 0 <= e /\ e < W
  BY DivMod
<1> HIDE DEF d, e
<1>2. q + W = (W * (d + 1)) + e
  <2>1. W * (d + 1) = (W * d) + W /\ W * d \in Int
    BY <1>1, MultiplesApart
  <2> QED
    BY <1>1, <2>1
<1>3. q + W \in Int /\ d + 1 \in Int
  BY <1>1
<1>4. (q + W) % W = e
  BY <1>1, <1>2, <1>3, DivModIs
<1> QED
  BY <1>4 DEF e

LEMMA SameDay ==
    ASSUME NEW W \in Nat, W > 0, NEW q \in Int, NEW k \in Int, k % W = q % W
    PROVE  \E i \in Int : q - k = W * i
<1> DEFINE d == q \div W
           e == q % W
           f == k \div W
<1>1. q = (W * d) + e /\ d \in Int /\ e \in Int
  BY DivMod
<1>2. k = (W * f) + e /\ f \in Int
  BY DivMod
<1> HIDE DEF d, e, f
<1>3. W * (d - f) = (W * d) - (W * f)
  BY <1>1, <1>2, Z3
<1>4. W * d \in Int /\ W * f \in Int /\ d - f \in Int
  BY <1>1, <1>2
<1>5. q - k = W * (d - f)
  BY <1>1, <1>2, <1>3, <1>4
<1> QED
  BY <1>4, <1>5

\* How the code finds the next time o of day dow of the week of W days: the days to
\* go from day q, on which t is minute s.
OnWeek(n, W, o, t, dow, q, s, w, p, first, days, next) ==
    /\ n > 0 /\ W > 0 /\ o < n
    /\ q = t \div n /\ s = t % n /\ w = q % W /\ p = (dow - 1) % W /\ first = (p - w) % W
    /\ days = IF first = 0 /\ t - s + o <= t THEN W ELSE first
    /\ next = t - s + o + (days * n)

FirstOnWeek(n, W, o, t, dow, next) ==
    /\ next \in Nat /\ next > t
    /\ \A u \in Int : t < u /\ u <= next =>
          (u % n = o /\ ((u \div n) + 1) % W = dow <=> u = next)

LEMMA FirstOfWeek ==
    ASSUME NEW n \in Nat, NEW W \in Nat, NEW o \in Nat, NEW t \in Nat,
           NEW dow \in 0 .. W - 1, NEW q \in Int, NEW s \in Int, NEW w \in Int,
           NEW p \in Int, NEW first \in Int, NEW days \in Int, NEW next \in Int,
           OnWeek(n, W, o, t, dow, q, s, w, p, first, days, next)
    PROVE  FirstOnWeek(n, W, o, t, dow, next)
<1> USE DEF OnWeek
<1>1. t = (n * q) + s /\ q \in Int /\ s \in Int /\ 0 <= s /\ s < n
  BY DivMod
<1>2. first \in 0 .. W - 1 /\ (q + first + 1) % W = dow
  BY DayAhead
<1>3. days = IF first = 0 /\ t - s + o <= t THEN W ELSE first
  OBVIOUS
<1>4. next = t - s + o + (days * n)
  OBVIOUS
<1>5. days \in Int /\ 0 <= days /\ days <= W /\ (q + days + 1) % W = dow
  <2>1. CASE days = first
    BY <1>2, <2>1
  <2>2. CASE first = 0 /\ days = W
    <3>1. (q + W + 1) % W = (q + 1) % W
      <4> DEFINE r == q + 1
      <4>1. r \in Int /\ q + W + 1 = r + W
        BY <1>1
      <4> HIDE DEF r
      <4>2. (r + W) % W = r % W
        BY <4>1, WeekLater
      <4>3. (q + W + 1) % W = r % W
        BY ONLY <4>1, <4>2, Zenon
      <4> QED
        BY <4>3 DEF r
    <3>2. (q + 0 + 1) % W = dow
      BY <1>2, <2>2
    <3>3. q + 0 + 1 = q + 1
      BY <1>1
    <3>4. (q + 1) % W = dow
      BY ONLY <3>2, <3>3, Zenon
    <3>5. (q + W + 1) % W = dow
      BY <3>1, <3>4
    <3>6. q + days + 1 = q + W + 1
      BY <2>2
    <3>7. (q + days + 1) % W = dow
      BY ONLY <3>5, <3>6, Zenon
    <3> QED
      BY <2>2, <3>7
  <2> QED
    BY <1>3, <2>1, <2>2
<1>6. next = (n * (q + days)) + o /\ n * q \in Int /\ n * (q + days) \in Int /\ q + days \in Int
  <2>1. days * n = n * days
    BY <1>5, Z3
  <2>2. n * (q + days) = (n * q) + (n * days) /\ n * q \in Int /\ n * days \in Int
    BY <1>1, <1>5, MultiplesApart
  <2>3. q + days \in Int /\ n * (q + days) \in Int
    BY <1>1, <1>5, <2>2
  <2> DEFINE a == n * q
             b == n * days
             sum == n * (q + days)
  <2>4. /\ next = t - s + o + b /\ t = a + s /\ sum = a + b
        /\ a \in Int /\ b \in Int /\ sum \in Int
    BY <1>1, <1>4, <2>1, <2>2, <2>3
  <2>5. next = sum + o
    <3> HIDE DEF a, b, sum
    <3> QED
      BY ONLY <2>4, s \in Int, t \in Nat, o \in Nat
  <2> QED
    BY <2>2, <2>3, <2>5
<1>7. next > t
  <2>1. CASE days = 0
    <3> DEFINE a == n * q
    <3>1. q + days = q /\ a \in Int
      BY ONLY <1>6, <2>1, q \in Int
    <3>2. next = a + o
      BY <1>6, <3>1
    <3>3. ~(t - s + o <= t)
      BY <1>3, <2>1
    <3>4. t = a + s
      BY <1>1
    <3> HIDE DEF a
    <3> QED
      BY ONLY <3>1, <3>2, <3>3, <3>4, s \in Int, t \in Nat, o \in Nat
  <2>2. CASE days # 0
    <3>1. q < q + days
      BY <1>1, <1>5, <2>2
    <3>2. (n * q) + n <= n * (q + days)
      BY <1>1, <1>6, <3>1, MultiplesApart
    <3> QED
      BY <1>1, <1>6, <3>2
  <2> QED
    BY <2>1, <2>2
<1>8. next \in Int /\ next % n = o /\ next \div n = q + days
  <2>1. o \in Int /\ 0 <= o /\ next \in Int /\ next = (n * (q + days)) + o
    BY <1>6
  <2> QED
    BY <1>6, <2>1, DivModIs
<1>9. ((next \div n) + 1) % W = dow
  <2>1. (next \div n) + 1 = q + days + 1
    BY <1>8
  <2> QED
    BY ONLY <1>5, <2>1, Zenon
<1>10. ASSUME NEW u \in Int, t < u, u < next, u % n = o, ((u \div n) + 1) % W = dow
       PROVE  FALSE
  <2> DEFINE k == u \div n
  <2>1. u = (n * k) + o /\ k \in Int /\ (k + 1) % W = dow
    BY <1>10, DivMod
  <2> HIDE DEF k
  <2>2. k < q + days
    <3>1. CASE q + days < k
      <4>1. (n * (q + days)) + n <= n * k /\ n * k \in Int
        BY <1>6, <2>1, <3>1, MultiplesApart
      <4> QED
        BY <1>6, <1>10, <2>1, <4>1
    <3>2. CASE k = q + days
      BY <1>6, <1>10, <2>1, <3>2
    <3> QED
      BY <1>6, <2>1, <3>1, <3>2
  <2>3. q <= k
    <3>1. CASE k < q
      <4>1. (n * k) + n <= n * q /\ n * k \in Int
        BY <1>1, <2>1, <3>1, MultiplesApart
      <4> QED
        BY <1>1, <1>6, <1>10, <2>1, <4>1
    <3> QED
      BY <1>1, <2>1, <3>1
  <2>4. PICK i \in Int : q + days - k = W * i
    <3>1. (k + 1) % W = (q + days + 1) % W
      BY <1>5, <2>1
    <3> DEFINE r == q + days + 1
               l == k + 1
    <3>2. r \in Int /\ l \in Int /\ l % W = r % W
      BY <1>1, <1>5, <2>1, <3>1
    <3>3. r - l = q + days - k
      BY <1>1, <1>5, <2>1
    <3> HIDE DEF r, l
    <3>4. W > 0
      OBVIOUS
    <3>5. \E i \in Int : r - l = W * i
      BY ONLY <3>2, <3>4, SameDay, W \in Nat
    <3> QED
      BY <3>3, <3>5
  <2>5. i >= 1
    <3>1. W * i > 0
      BY <1>1, <1>5, <2>1, <2>2, <2>4
    <3> QED
      BY <3>1, Z3
  <2>6. W * i >= W
    BY <2>5, Z3
  <2>7. days = W /\ k = q
    BY <1>1, <1>5, <2>1, <2>3, <2>4, <2>6
  <2>8. t - s + o <= t
    BY <1>2, <1>3, <2>7
  <2> DEFINE a == n * q
  <2>9. u = a + o /\ t = a + s /\ a \in Int
    BY <1>1, <1>6, <2>1, <2>7
  <2> HIDE DEF a
  <2> QED
    BY ONLY <1>10, <2>8, <2>9, s \in Int, t \in Nat, o \in Nat, u \in Int
<1>11. ASSUME NEW u \in Int, t < u, u <= next
       PROVE  u % n = o /\ ((u \div n) + 1) % W = dow <=> u = next
  <2>1. CASE u < next
    BY <1>8, <1>10, <1>11, <2>1
  <2>2. CASE u = next
    BY <1>8, <1>9, <2>2
  <2> QED
    BY <1>8, <1>11, <2>1, <2>2
<1> QED
  BY <1>7, <1>8, <1>11 DEF FirstOnWeek

-----------------------------------------------------------------------------
(* Schedules: the next run.                                                *)

LEMMA CronFields ==
    ASSUME NEW c \in Schedule!Crons
    PROVE  /\ c.kind \in {"hourly", "daily", "weekly"}
           /\ c.minute \in 0 .. HourLength - 1
           /\ c.kind # "hourly" => c.hour \in 0 .. DayLength - 1
           /\ c.kind = "weekly" => c.dow \in 0 .. WeekLength - 1
  BY DEF Schedule!Crons

\* compute_next_run returns the first minute after t that the expression names.
IsNext(c, t, next) ==
    /\ next \in Nat /\ next > t /\ Schedule!Matches(c, next)
    /\ \A u \in t + 1 .. next - 1 : ~Schedule!Matches(c, u)

LEMMA NextRunIsFirst ==
    ASSUME Schedule!SchedulesAssumption, NEW c \in Schedule!Crons, NEW t \in Nat
    PROVE  IsNext(c, t, Schedule!NextRun(c, t))
<1> DEFINE H == HourLength
           D == DayLength
           W == WeekLength
           m == c.minute
           n == H * D
           o == (c.hour * H) + m
           next == Schedule!NextRun(c, t)
<1>1. H \in Nat /\ H > 0 /\ D \in Nat /\ D > 0 /\ W \in Nat /\ W > 0
  BY DEF Schedule!SchedulesAssumption
<1>2. m \in 0 .. H - 1 /\ m \in Nat /\ m < H
  BY <1>1, CronFields
<1>3. CASE c.kind = "hourly"
  <2>1. next = t - (t % H) + m + (IF t - (t % H) + m <= t THEN H ELSE 0)
    BY <1>3 DEF Schedule!NextRun, Schedule!AtMinute, Schedule!Passed
  <2>2. \A u : Schedule!Matches(c, u) <=> u % H = m
    BY <1>3 DEF Schedule!Matches
  <2> DEFINE s == t % H
  <2>3. s = t % H /\ next = t - s + m + (IF t - s + m <= t THEN H ELSE 0)
    BY <2>1
  <2> HIDE DEF next, H, m
  <2>4. s \in Int
    BY <1>1, DivMod
  <2> HIDE DEF s
  <2>5. next \in Int
    BY <1>1, <1>2, <2>3, <2>4
  <2>6. FirstOn(H, m, t, next)
    <3>1. H \in Nat /\ m \in Nat /\ OnPeriod(H, m, t, s, next)
      BY <1>1, <1>2, <2>3 DEF OnPeriod
    <3> QED
      BY ONLY <3>1, <2>4, <2>5, FirstOfPeriod, t \in Nat, Zenon
  <2> USE DEF FirstOn
  <2>7. ASSUME NEW u \in t + 1 .. next - 1
        PROVE  ~Schedule!Matches(c, u)
    <3>1. u \in Int /\ t < u /\ u < next
      BY <2>6
    <3> QED
      BY <2>2, <2>6, <3>1
  <2>8. IsNext(c, t, next)
    BY <2>2, <2>6, <2>7 DEF IsNext
  <2> QED
    BY <2>8 DEF next
<1>4. ASSUME c.kind # "hourly"
      PROVE  /\ n \in Nat /\ n > 0 /\ n = Schedule!DayMinutes
             /\ o \in Nat /\ o < n
             /\ Schedule!AtHour(c, t) = t - (t % n) + o
             /\ \A u \in Int : u % n = o <=> u % H = c.minute /\ (u % n) \div H = c.hour
  <2>1. c.hour \in 0 .. D - 1
    BY <1>4, CronFields
  <2>2. n = Schedule!DayMinutes
    BY DEF Schedule!DayMinutes
  <2> DEFINE h == c.hour
  <2>3. n = H * D /\ o = (h * H) + m
    OBVIOUS
  <2>4. h \in 0 .. D - 1 /\ h \in Int
    BY <1>1, <2>1
  <2>5. n \in Int /\ o \in Int
    <3>1. H * D \in Int /\ h * H \in Int
      BY <1>1, <2>4
    <3> QED
      BY <1>2, <3>1
  <2>6. TellsHour(H, h, m, n, o)
    <3> HIDE DEF n, o
    <3> HIDE DEF H, D, m, h
    <3>1. H \in Nat /\ D \in Nat /\ m \in 0 .. H - 1 /\ h \in 0 .. D - 1 /\ OfDay(H, D, h, m, n, o)
      BY <1>1, <1>2, <2>3, <2>4 DEF OfDay
    <3> QED
      BY ONLY <3>1, <2>5, MinuteOfDay, Zenon
  <2> USE DEF TellsHour
  <2>7. h * H \in Int /\ t % n \in Int
    <3>1. h * H \in Int
      BY <1>1, <2>1
    <3>2. n \in Nat /\ n > 0
      BY <2>6
    <3> HIDE DEF n
    <3> QED
      BY <3>1, <3>2, DivMod
  <2>8. Schedule!AtHour(c, t) = t - (t % n) + o
    <3>1. Schedule!AtHour(c, t) = t - (t % n) + (h * H) + m
      BY <2>2 DEF Schedule!AtHour
    <3> HIDE DEF n, h, H
    <3> QED
      BY <1>2, <2>7, <3>1 DEF h
  <2> QED
    BY <2>2, <2>6, <2>8
<1>5. CASE c.kind = "daily"
  <2>1. /\ n \in Nat /\ n > 0 /\ n = Schedule!DayMinutes /\ o \in Nat /\ o < n
        /\ Schedule!AtHour(c, t) = t - (t % n) + o
        /\ \A u \in Int : u % n = o <=> u % H = c.minute /\ (u % n) \div H = c.hour
    BY <1>4, <1>5
  <2>2. next = t - (t % n) + o + (IF t - (t % n) + o <= t THEN n ELSE 0)
    BY <1>5, <2>1 DEF Schedule!NextRun, Schedule!Passed
  <2> DEFINE s == t % n
  <2>3. s = t % n /\ next = t - s + o + (IF t - s + o <= t THEN n ELSE 0)
    BY <2>2
  <2> HIDE DEF n, o, next
  <2>4. s \in Int
    BY <2>1, DivMod
  <2> HIDE DEF s
  <2>5. next \in Int
    BY <2>1, <2>3, <2>4
  <2>6. FirstOn(n, o, t, next)
    <3>1. n \in Nat /\ o \in Nat /\ OnPeriod(n, o, t, s, next)
      BY <2>1, <2>3 DEF OnPeriod
    <3> QED
      BY ONLY <3>1, <2>4, <2>5, FirstOfPeriod, t \in Nat, Zenon
  <2> USE DEF FirstOn
  <2>7. \A u \in Int : Schedule!Matches(c, u) <=> u % n = o
    <3>1. \A u \in Int : Schedule!Matches(c, u) <=>
                             u % H = c.minute /\ (u % n) \div H = c.hour
      BY <1>5, <2>1 DEF Schedule!Matches
    <3> QED
      BY <2>1, <3>1
  <2>8. \A u \in t + 1 .. next - 1 : u \in Int /\ t < u /\ u < next
    BY <2>6
  <2>9. IsNext(c, t, next)
    BY <2>6, <2>7, <2>8 DEF IsNext
  <2> QED
    BY <2>9 DEF next
<1>6. CASE c.kind = "weekly"
  <2>1. /\ n \in Nat /\ n > 0 /\ n = Schedule!DayMinutes /\ o \in Nat /\ o < n
        /\ Schedule!AtHour(c, t) = t - (t % n) + o
        /\ \A u \in Int : u % n = o <=> u % H = c.minute /\ (u % n) \div H = c.hour
    BY <1>4, <1>6
  <2>2. c.dow \in 0 .. W - 1
    BY <1>6, CronFields
  <2> DEFINE dow == c.dow
             q == t \div n
             s == t % n
             w == q % W
             p == (dow - 1) % W
             first == (p - w) % W
             days == IF first = 0 /\ t - s + o <= t THEN W ELSE first
  <2>3. next = t - s + o + (days * n)
    <3>1. Schedule!DaysAhead(c, t) = days
      BY <2>1 DEF Schedule!DaysAhead, Schedule!PythonDay, Schedule!Weekday, Schedule!Passed
    <3>2. Schedule!AtHour(c, t) = t - s + o
      BY <2>1
    <3>3. Schedule!NextRun(c, t) = Schedule!AtHour(c, t) + (Schedule!DaysAhead(c, t) * Schedule!DayMinutes)
      BY <1>6 DEF Schedule!NextRun
    <3> HIDE DEF days, n, o, s
    <3> QED
      BY <2>1, <3>1, <3>2, <3>3
  <2>4. \A u \in Int : Schedule!Matches(c, u) <=>
                           u % n = o /\ ((u \div n) + 1) % W = dow
    <3>1. \A u \in Int : Schedule!Matches(c, u) <=>
                             /\ u % H = c.minute /\ (u % n) \div H = c.hour
                             /\ ((u \div n) + 1) % W = dow
      BY <1>6, <2>1 DEF Schedule!Matches
    <3> QED
      BY <2>1, <3>1
  <2>5. /\ q = t \div n /\ s = t % n /\ w = q % W /\ p = (dow - 1) % W
        /\ first = (p - w) % W
        /\ days = IF first = 0 /\ t - s + o <= t THEN W ELSE first
    OBVIOUS
  <2>6. dow \in 0 .. W - 1 /\ dow - 1 \in Int
    BY <1>1, <2>2
  <2> HIDE DEF n, o, next, W, dow
  <2> HIDE DEF days
  <2> HIDE DEF first
  <2> HIDE DEF w, p
  <2> HIDE DEF q, s
  <2>7. q \in Int /\ s \in Int
    BY <2>1, <2>5, DivMod
  <2>8. w \in Int /\ p \in Int
    BY <1>1, <2>5, <2>6, <2>7, DivMod
  <2>9. first \in Int
    <3>1. p - w \in Int
      BY <2>8
    <3> QED
      BY <1>1, <2>5, <3>1, DivMod
  <2>10. days \in Int
    BY <1>1, <2>5, <2>9
  <2>11. next \in Int
    <3>1. days * n \in Int
      BY <2>1, <2>10
    <3> QED
      BY <2>1, <2>3, <2>7, <3>1
  <2>12. FirstOnWeek(n, W, o, t, dow, next)
    <3>1. n \in Nat /\ W \in Nat /\ o \in Nat /\ dow \in 0 .. W - 1
      BY <1>1, <2>1, <2>6
    <3>2. OnWeek(n, W, o, t, dow, q, s, w, p, first, days, next)
      BY <1>1, <2>1, <2>3, <2>5 DEF OnWeek
    <3> QED
      BY ONLY <3>1, <3>2, <2>7, <2>8, <2>9, <2>10, <2>11, t \in Nat, FirstOfWeek, Zenon
  <2> USE DEF FirstOnWeek
  <2>13. \A u \in t + 1 .. next - 1 : u \in Int /\ t < u /\ u < next
    BY <2>12
  <2>14. IsNext(c, t, next)
    BY <2>4, <2>12, <2>13 DEF IsNext
  <2> QED
    BY <2>14 DEF next
<1> QED
  BY <1>3, <1>5, <1>6, CronFields

-----------------------------------------------------------------------------
(* Schedules: one process serves the slots in order.                       *)

Executions ==
    [pc : {"running"}, cron : Schedule!Crons, slot : Nat, now : 0 .. MaxMinute]

ScheduleTypes ==
    /\ minuteNow \in 0 .. MaxMinute
    /\ schedule \in [cron : Schedule!Crons, enabled : BOOLEAN, next : Nat \cup {Absent}]
    /\ loop \in [Schedulers -> {Schedule!Idle} \cup Executions]
    /\ served \in Int /\ -1 <= served /\ served <= minuteNow

\* An execution serves a slot that was due when it began, before now.
DueInv ==
    \A p \in Schedulers : loop[p] # Schedule!Idle =>
        loop[p].slot <= loop[p].now /\ loop[p].now <= minuteNow

ScheduleInv == ScheduleTypes /\ DueInv

\* The row's slot comes after the one served last, and process p works on the row's.
ServedInv(p) ==
    /\ schedule.next # Absent => schedule.next > served
    /\ loop[p] # Schedule!Idle => loop[p].slot > served /\ schedule.next = loop[p].slot

LEMMA ScheduleInit == Schedule!SchedulesAssumption /\ Schedule!Init => ScheduleInv
<1> SUFFICES ASSUME Schedule!SchedulesAssumption, Schedule!Init
             PROVE  ScheduleInv
  OBVIOUS
<1>1. ScheduleTypes
  BY DEF Schedule!Init, Schedule!SchedulesAssumption, ScheduleTypes
<1>2. DueInv
  BY DEF Schedule!Init, DueInv
<1> QED
  BY <1>1, <1>2 DEF ScheduleInv

LEMMA NextRunIsLater ==
    ASSUME Schedule!SchedulesAssumption, NEW c \in Schedule!Crons, NEW t \in Nat
    PROVE  Schedule!NextRun(c, t) \in Nat /\ Schedule!NextRun(c, t) > t
  BY NextRunIsFirst DEF IsNext

\* What p's loop holds while it is busy.
LEMMA ExecutionFields ==
    ASSUME Schedule!SchedulesAssumption, ScheduleInv,
           NEW p \in Schedulers, loop[p] # Schedule!Idle
    PROVE  /\ loop[p].cron \in Schedule!Crons /\ loop[p].slot \in Nat /\ loop[p].now \in Nat
           /\ loop[p].slot <= loop[p].now /\ loop[p].now <= minuteNow
           /\ minuteNow \in Nat
<1>1. loop[p] \in Executions
  BY DEF ScheduleInv, ScheduleTypes
<1>2. loop[p].cron \in Schedule!Crons /\ loop[p].slot \in Nat /\ loop[p].now \in 0 .. MaxMinute
  BY <1>1 DEF Executions
<1> QED
  BY <1>2 DEF Schedule!SchedulesAssumption, ScheduleInv, ScheduleTypes, DueInv

LEMMA ScheduleStep ==
    ASSUME Schedule!SchedulesAssumption, ScheduleInv,
           [Schedule!Next]_(Schedule!schedulesVars)
    PROVE  /\ ScheduleInv'
           /\ \A p : Schedulers = {p} /\ ServedInv(p) => ServedInv(p)'
<1> USE DEF Schedule!SchedulesAssumption
<1>0. /\ minuteNow \in Nat /\ schedule.cron \in Schedule!Crons /\ schedule.enabled \in BOOLEAN
      /\ schedule.next \in Nat \cup {Absent} /\ served \in Int
  BY DEF ScheduleInv, ScheduleTypes
<1>1. ASSUME NEW p \in Schedulers, Schedule!FindDue(p)
      PROVE  ScheduleInv' /\ \A q : Schedulers = {q} /\ ServedInv(q) => ServedInv(q)'
  <2> DEFINE e == [pc |-> "running", cron |-> schedule.cron, slot |-> schedule.next,
                   now |-> minuteNow]
  <2>1. /\ loop' = [loop EXCEPT ![p] = e] /\ loop \in [Schedulers -> {Schedule!Idle} \cup Executions]
        /\ schedule.next # Absent /\ schedule.next <= minuteNow
        /\ minuteNow' = minuteNow /\ schedule' = schedule /\ served' = served
    BY <1>1 DEF Schedule!FindDue, ScheduleInv, ScheduleTypes
  <2>2. schedule.next \in Nat /\ minuteNow \in 0 .. MaxMinute
    BY <1>0, <2>1 DEF ScheduleInv, ScheduleTypes
  <2>3. e \in Executions
    BY <1>0, <2>2 DEF Executions
  <2>4. e.slot = schedule.next /\ e.now = minuteNow
    OBVIOUS
  <2> HIDE DEF e
  <2>5. ScheduleTypes'
    BY <2>1, <2>3 DEF ScheduleInv, ScheduleTypes
  <2>6. DueInv'
    BY <1>0, <2>1, <2>2, <2>4 DEF ScheduleInv, DueInv
  <2>7. ASSUME NEW q, Schedulers = {q}, ServedInv(q)
        PROVE  ServedInv(q)'
    <3>1. q = p /\ loop'[q] = e
      BY <2>1, <2>7
    <3> QED
      BY <2>1, <2>4, <2>7, <3>1 DEF ServedInv
  <2> QED
    BY <2>5, <2>6, <2>7 DEF ScheduleInv
<1>2. ASSUME NEW p \in Schedulers, Schedule!Advance(p)
      PROVE  ScheduleInv' /\ \A q : Schedulers = {q} /\ ServedInv(q) => ServedInv(q)'
  <2> DEFINE next == Schedule!NextRun(loop[p].cron, loop[p].now)
  <2>1. /\ loop[p] # Schedule!Idle /\ loop' = [loop EXCEPT ![p] = Schedule!Idle]
        /\ loop \in [Schedulers -> {Schedule!Idle} \cup Executions]
        /\ schedule' = [schedule EXCEPT !.next = next]
        /\ served' = loop[p].slot /\ minuteNow' = minuteNow
    BY <1>2 DEF Schedule!Advance, ScheduleInv, ScheduleTypes
  <2>2. /\ loop[p].cron \in Schedule!Crons /\ loop[p].slot \in Nat /\ loop[p].now \in Nat
        /\ loop[p].slot <= loop[p].now /\ loop[p].now <= minuteNow
    BY <2>1, ExecutionFields
  <2>3. next \in Nat /\ next > loop[p].now
    BY <2>2, NextRunIsLater
  <2> HIDE DEF next
  <2>4. /\ schedule' \in [cron : Schedule!Crons, enabled : BOOLEAN, next : Nat \cup {Absent}]
        /\ schedule'.next = next
    BY <2>1, <2>3 DEF ScheduleInv, ScheduleTypes
  <2>5. served' \in Int /\ -1 <= served' /\ served' <= minuteNow'
    BY <1>0, <2>1, <2>2
  <2>6. ScheduleTypes'
    BY <2>1, <2>4, <2>5 DEF ScheduleInv, ScheduleTypes
  <2>7. DueInv'
    BY <2>1 DEF ScheduleInv, DueInv
  <2>8. ASSUME NEW q, Schedulers = {q}, ServedInv(q)
        PROVE  ServedInv(q)'
    <3>1. q = p /\ loop'[q] = Schedule!Idle
      BY <2>1, <2>8
    <3>2. schedule'.next > served'
      BY <2>1, <2>2, <2>3, <2>4
    <3> QED
      BY <3>1, <3>2 DEF ServedInv
  <2> QED
    BY <2>6, <2>7, <2>8 DEF ScheduleInv
<1>3. ASSUME NEW p \in Schedulers, Schedule!Undo(p)
      PROVE  ScheduleInv' /\ \A q : Schedulers = {q} /\ ServedInv(q) => ServedInv(q)'
  <2>1. /\ loop' = [loop EXCEPT ![p] = Schedule!Idle]
        /\ loop \in [Schedulers -> {Schedule!Idle} \cup Executions]
        /\ minuteNow' = minuteNow /\ schedule' = schedule /\ served' = served
    BY <1>3 DEF Schedule!Undo, ScheduleInv, ScheduleTypes
  <2>2. ScheduleTypes' /\ DueInv'
    BY <2>1 DEF ScheduleInv, ScheduleTypes, DueInv
  <2>3. ASSUME NEW q, Schedulers = {q}, ServedInv(q)
        PROVE  ServedInv(q)'
    BY <2>1, <2>3 DEF ServedInv
  <2> QED
    BY <2>2, <2>3 DEF ScheduleInv
<1>4. ASSUME NEW c \in Schedule!Crons, NEW enabled \in BOOLEAN, Schedule!Upsert(c, enabled)
      PROVE  ScheduleInv' /\ \A q : Schedulers = {q} /\ ServedInv(q) => ServedInv(q)'
  <2> DEFINE next == IF schedule.next = Absent THEN Schedule!NextRun(c, minuteNow)
                     ELSE schedule.next
  <2>1. /\ schedule' = [cron |-> c, enabled |-> enabled, next |-> next]
        /\ minuteNow' = minuteNow /\ loop' = loop /\ served' = served
    BY <1>4 DEF Schedule!Upsert
  <2>2. /\ next \in Nat
        /\ schedule.next = Absent => next > minuteNow
        /\ schedule.next # Absent => next = schedule.next
    BY <1>0, NextRunIsLater
  <2> HIDE DEF next
  <2>3. ScheduleTypes' /\ DueInv' /\ schedule'.next = next
    BY <2>1, <2>2 DEF ScheduleInv, ScheduleTypes, DueInv
  <2>4. ASSUME NEW q, Schedulers = {q}, ServedInv(q)
        PROVE  ServedInv(q)'
    <3>1. next > served
      BY <1>0, <2>2, <2>4 DEF ServedInv, ScheduleInv, ScheduleTypes
    <3>2. ASSUME loop[q] # Schedule!Idle
          PROVE  loop[q].slot > served /\ next = loop[q].slot
      <4>1. loop[q].slot \in Nat
        BY <2>4, <3>2, ExecutionFields
      <4> QED
        BY <2>2, <2>4, <3>2, <4>1 DEF ServedInv
    <3> QED
      BY <2>1, <2>3, <3>1, <3>2 DEF ServedInv
  <2> QED
    BY <2>3, <2>4 DEF ScheduleInv
<1>5. ASSUME Schedule!Minute
      PROVE  ScheduleInv' /\ \A q : Schedulers = {q} /\ ServedInv(q) => ServedInv(q)'
  <2>1. /\ minuteNow' = minuteNow + 1 /\ minuteNow < MaxMinute
        /\ schedule' = schedule /\ loop' = loop /\ served' = served
    BY <1>5 DEF Schedule!Minute
  <2>2. ScheduleTypes'
    BY <1>0, <2>1 DEF ScheduleInv, ScheduleTypes
  <2>3. ASSUME NEW q \in Schedulers, loop'[q] # Schedule!Idle
        PROVE  loop'[q].slot <= loop'[q].now /\ loop'[q].now <= minuteNow'
    <3>1. loop[q].slot <= loop[q].now /\ loop[q].now <= minuteNow /\ loop[q].now \in Nat
      BY <2>1, <2>3, ExecutionFields
    <3> QED
      BY <1>0, <2>1, <3>1
  <2>4. DueInv'
    BY <2>3 DEF DueInv
  <2>5. ASSUME NEW q, Schedulers = {q}, ServedInv(q)
        PROVE  ServedInv(q)'
    BY <2>1, <2>5 DEF ServedInv
  <2> QED
    BY <2>2, <2>4, <2>5 DEF ScheduleInv
<1>6. ASSUME UNCHANGED Schedule!schedulesVars
      PROVE  ScheduleInv' /\ \A q : Schedulers = {q} /\ ServedInv(q) => ServedInv(q)'
  <2>1. minuteNow' = minuteNow /\ schedule' = schedule /\ loop' = loop /\ served' = served
    BY <1>6 DEF Schedule!schedulesVars
  <2> QED
    BY <2>1 DEF ScheduleInv, ScheduleTypes, DueInv, ServedInv
<1> QED
  BY <1>1, <1>2, <1>3, <1>4, <1>5, <1>6 DEF Schedule!Next

LEMMA ScheduleTypeOK == Schedule!SchedulesAssumption /\ ScheduleInv => Schedule!TypeOK
<1> SUFFICES ASSUME Schedule!SchedulesAssumption, ScheduleInv
             PROVE  Schedule!TypeOK
  OBVIOUS
<1>1. \A p \in Schedulers : loop[p].pc \in {"idle", "running"}
  BY DEF ScheduleInv, ScheduleTypes, Executions, Schedule!Idle
<1>2. served \in -1 .. MaxMinute
  BY DEF ScheduleInv, ScheduleTypes, Schedule!SchedulesAssumption
<1> QED
  BY <1>1, <1>2 DEF ScheduleInv, ScheduleTypes, Schedule!TypeOK

LEMMA ScheduleSafe ==
    ASSUME Schedule!SchedulesAssumption
    PROVE  Schedule!Spec => []ScheduleInv
<1>1. Schedule!Init => ScheduleInv
  BY ScheduleInit
<1>2. ScheduleInv /\ [Schedule!Next]_(Schedule!schedulesVars) => ScheduleInv'
  BY ScheduleStep
<1> QED
  BY <1>1, <1>2, PTL DEF Schedule!Spec

\* The calendar's part of the property.
LEMMA NextIsNext ==
    ASSUME Schedule!SchedulesAssumption, ScheduleInv
    PROVE  LET next == Schedule!NextRun(schedule.cron, minuteNow)
           IN  /\ next > minuteNow /\ Schedule!Matches(schedule.cron, next)
               /\ \A t \in minuteNow + 1 .. next - 1 : ~Schedule!Matches(schedule.cron, t)
<1>1. schedule.cron \in Schedule!Crons /\ minuteNow \in Nat
  BY DEF ScheduleInv, ScheduleTypes, Schedule!SchedulesAssumption
<1> QED
  BY <1>1, NextRunIsFirst DEF IsNext

LEMMA ScheduleCardinality == Schedule!Cardinality(Schedulers) = Cardinality(Schedulers)
  BY DEF Schedule!Cardinality, Cardinality

LEMMA ServedOnce ==
    ASSUME Schedule!SchedulesAssumption
    PROVE  Schedule!Spec => []Schedule!SlotsAreServedOnce
<1>1. CASE Cardinality(Schedulers) = 1
  <2>1. IsFiniteSet(Schedulers)
    BY DEF Schedule!SchedulesAssumption, Schedule!IsFiniteSet, IsFiniteSet
  <2>2. PICK p : Schedulers = {p}
    BY <1>1, <2>1, FS_Singleton
  <2> DEFINE Inv == ScheduleInv /\ ServedInv(p)
  <2>3. Schedule!Init => Inv
    <3> SUFFICES ASSUME Schedule!Init PROVE ScheduleInv /\ ServedInv(p)
      OBVIOUS
    <3>1. schedule.next = Absent
      BY DEF Schedule!Init
    <3>2. loop[p] = Schedule!Idle
      BY <2>2 DEF Schedule!Init
    <3> QED
      BY <3>1, <3>2, ScheduleInit DEF ServedInv
  <2>4. Inv /\ [Schedule!Next]_(Schedule!schedulesVars) => Inv'
    BY <2>2, ScheduleStep
  <2>5. Inv => Schedule!SlotsAreServedOnce
    BY <2>2, NextIsNext DEF ServedInv, Schedule!SlotsAreServedOnce
  <2> QED
    BY <2>3, <2>4, <2>5, PTL DEF Schedule!Spec
<1>2. CASE Cardinality(Schedulers) # 1
  <2>1. ScheduleInv => Schedule!SlotsAreServedOnce
    BY <1>2, NextIsNext, ScheduleCardinality DEF Schedule!SlotsAreServedOnce
  <2> QED
    BY <2>1, ScheduleSafe, PTL
<1> QED
  BY <1>1, <1>2

-----------------------------------------------------------------------------
(* Types of the services whose invariants above say less.                  *)

LEMMA WarehouseTypeCorrect ==
    ASSUME Warehouse!WarehouseAssumption
    PROVE  Warehouse!Spec => []Warehouse!TypeOK
<1>1. WarehouseInv => Warehouse!TypeOK
  BY DEF WarehouseInv
<1>2. Warehouse!Spec => []WarehouseInv
  BY WarehouseInit, WarehouseStep, PTL DEF Warehouse!Spec
<1> QED
  BY <1>1, <1>2, PTL

LEMMA ReportTypeCorrect ==
    ASSUME Report!ReportsAssumption
    PROVE  Report!Spec => []Report!TypeOK
<1>1. ReporterInv => Report!TypeOK
  BY DEF ReporterInv
<1>2. Report!Spec => []ReporterInv
  BY ReportInit, ReportStep, PTL DEF Report!Spec
<1> QED
  BY <1>1, <1>2, PTL

MeteringTypes ==
    /\ admitted \in 0 .. MaxMetered
    /\ circuitOpen \in [Processes -> BOOLEAN]
    /\ quotaLock \in [Processes -> Requests \cup {Nobody}]

LEMMA MeteringTypesStep ==
    ASSUME Meter!MeteringAssumption, MeteringTypes, [Meter!Next]_(Meter!meteringVars)
    PROVE  MeteringTypes'
<1>1. ASSUME NEW p \in Processes, NEW batch, Meter!FlushLocked(p, batch)
      PROVE  circuitOpen' \in [Processes -> BOOLEAN]
  BY <1>1 DEF MeteringTypes, Meter!FlushLocked, Meter!DropAll, Meter!HandOver, Meter!WriteFile,
              Meter!FailFile
<1>2. ASSUME NEW p \in Processes, Meter!Flush(p)
      PROVE  MeteringTypes'
  BY <1>1, <1>2 DEF Meter!Flush, MeteringTypes
<1>3. ASSUME NEW p \in Processes, Meter!Record(p)
      PROVE  MeteringTypes'
  BY <1>1, <1>3 DEF Meter!Record, MeteringTypes
<1>4. ASSUME NEW p \in Processes, NEW r \in Requests, Meter!Check(r, p)
      PROVE  MeteringTypes'
  <2>1. admitted' \in 0 .. MaxMetered
    BY <1>4 DEF Meter!Check, MeteringTypes, Meter!MeteringAssumption
  <2> QED
    BY <1>4, <2>1 DEF Meter!Check, Meter!collector, MeteringTypes
<1>5. ASSUME NEW p \in Processes,
             Meter!EndRequest(p) \/ Meter!ProcessDies(p) \/ Meter!BackoffEnds(p)
      PROVE  MeteringTypes'
  BY <1>5 DEF Meter!EndRequest, Meter!ProcessDies, Meter!BackoffEnds, Meter!collector, MeteringTypes
<1>6. CASE Meter!TaskEnds \/ UNCHANGED Meter!meteringVars
  BY <1>6 DEF Meter!TaskEnds, Meter!meteringVars, Meter!collector, MeteringTypes
<1> QED
  BY <1>2, <1>3, <1>4, <1>5, <1>6 DEF Meter!Next

LEMMA MeteringTypeCorrect ==
    ASSUME Meter!MeteringAssumption
    PROVE  Meter!Spec => []Meter!TypeOK
<1>1. Meter!Init => MeteringInv /\ MeteringTypes
  BY MeteringInit DEF Meter!Init, MeteringTypes, Meter!MeteringAssumption
<1>2. /\ MeteringInv /\ MeteringTypes /\ [Meter!Next]_(Meter!meteringVars)
      => MeteringInv' /\ MeteringTypes'
  BY MeteringStep, MeteringTypesStep
<1>3. MeteringInv /\ MeteringTypes => Meter!TypeOK
  BY DEF MeteringInv, MeteringTypes, StoredInv, FlightInv, BufferInv, Metered, Meter!TypeOK,
         Meter!Events, Meter!Batches
<1> QED
  BY <1>1, <1>2, <1>3, PTL DEF Meter!Spec

LEMMA InvoiceTypeCorrect ==
    ASSUME Invoice!InvoicesAssumption
    PROVE  Invoice!Spec => []Invoice!TypeOK
<1> DEFINE Inv == InvoiceInv /\ pdfs <= MaxInvoices
<1>1. Invoice!Init => Inv
  BY InvoiceInit DEF Invoice!Init, Invoice!InvoicesAssumption
<1>2. Inv /\ [Invoice!Next]_(Invoice!invoicesVars) => Inv'
  <2> SUFFICES ASSUME InvoiceInv, pdfs <= MaxInvoices, [Invoice!Next]_(Invoice!invoicesVars)
               PROVE  pdfs' <= MaxInvoices
    BY InvoiceStep
  <2>1. pdfs \in Nat /\ MaxInvoices \in Nat
    BY DEF InvoiceInv, InvoiceTypes, Invoice!InvoicesAssumption
  <2>2. pdfs' = pdfs \/ (pdfs < MaxInvoices /\ pdfs' = pdfs + 1)
    BY DEF Invoice!Next, Invoice!Begin, Invoice!Number, Invoice!Insert, Invoice!Commit,
           Invoice!Abort, Invoice!NextMonth, Invoice!invoicesVars
  <2> QED
    BY <2>1, <2>2
<1>3. Inv => Invoice!TypeOK
  <2> SUFFICES ASSUME InvoiceInv, pdfs <= MaxInvoices
               PROVE  Invoice!TypeOK
    OBVIOUS
  <2>1. /\ month \in Months /\ pdfs \in 0 .. MaxInvoices
        /\ invoices \subseteq InvoiceRows /\ IsFiniteSet(invoices)
        /\ pdfs \in Nat /\ MaxInvoices \in Nat
    BY DEF InvoiceInv, InvoiceTypes, Invoice!InvoicesAssumption
  <2>2. Cardinality(invoices) \in Nat /\ Cardinality(invoices) <= pdfs
    BY <2>1, FiniteInserted, FS_CardinalityType DEF InvoiceInv, PdfInv
  <2>3. ASSUME NEW i \in invoices
        PROVE  i.number \in 1 .. MaxInvoices
    <3>1. PICK m \in Months : i.month = m
      BY <2>1 DEF InvoiceRows
    <3>2. i.number \in 1 .. Cardinality(OfMonth(m))
      BY <3>1 DEF InvoiceInv, NumberInv, OfMonth
    <3>3. Cardinality(OfMonth(m)) <= Cardinality(invoices) /\ Cardinality(OfMonth(m)) \in Nat
      BY <2>1, FiniteMonths, FS_Subset DEF InvoiceInv, OfMonth
    <3> QED
      BY <2>1, <2>2, <3>2, <3>3
  <2>4. invoices \subseteq [month : Months, number : 1 .. MaxInvoices,
                            stripe : StripeIds \cup {NoStripe}]
    BY <2>1, <2>3 DEF InvoiceRows
  <2> QED
    BY <2>1, <2>4 DEF Invoice!TypeOK
<1> QED
  BY <1>1, <1>2, <1>3, PTL DEF Invoice!Spec

PromotionTypes ==
    /\ \A p \in promotions : p.source \in Names /\ p.target \in Names /\ p.snapshot \in Snapshots
    /\ \A q \in Promoters :
          \/ promoter[q] = Environment!Idle
          \/ /\ promoter[q].pc = "found"
             /\ promoter[q].source \in Names /\ promoter[q].target \in Names
             /\ promoter[q].snapshot \in Snapshots

LEMMA PromotionTypesStep ==
    ASSUME EnvironmentInv, PromotionTypes, [Environment!Next]_(Environment!environmentsVars)
    PROVE  PromotionTypes'
<1>0. promoter = [q \in Promoters |-> promoter[q]]
  BY DEF EnvironmentInv
<1>1. ASSUME UNCHANGED <<promotions, promoter>>
      PROVE  PromotionTypes'
  BY <1>1 DEF PromotionTypes
<1>2. ASSUME NEW q \in Promoters, NEW s \in Names, NEW t \in Names, NEW x \in Snapshots,
             Environment!LookUp(q, s, t, x)
      PROVE  PromotionTypes'
  BY <1>0, <1>2 DEF Environment!LookUp, PromotionTypes
<1>3. ASSUME NEW q \in Promoters, Environment!RecordPromotion(q)
      PROVE  PromotionTypes'
  BY <1>0, <1>3 DEF Environment!RecordPromotion, PromotionTypes
<1>4. CASE \/ \E n \in Names, c \in Catalogs, ephemeral \in BOOLEAN : Environment!Create(n, c, ephemeral)
           \/ \E n \in Names : Environment!SoftDelete(n) \/ Environment!Expire(n)
           \/ Environment!CleanupExpired \/ UNCHANGED Environment!environmentsVars
  BY <1>1, <1>4 DEF Environment!Create, Environment!SoftDelete, Environment!Expire,
                    Environment!CleanupExpired, Environment!environmentsVars
<1> QED
  BY <1>2, <1>3, <1>4 DEF Environment!Next

LEMMA EnvironmentTypeCorrect == Environment!Spec => []Environment!TypeOK
<1>1. Environment!Init => EnvironmentInv /\ PromotionTypes
  BY EnvironmentInit DEF Environment!Init, PromotionTypes
<1>2. /\ EnvironmentInv /\ PromotionTypes /\ [Environment!Next]_(Environment!environmentsVars)
      => EnvironmentInv' /\ PromotionTypes'
  BY EnvironmentStep, PromotionTypesStep
<1>3. EnvironmentInv /\ PromotionTypes => Environment!TypeOK
  BY DEF EnvironmentInv, EnvironmentRows, PromotionTypes, Environment!TypeOK, Environment!Idle
<1> QED
  BY <1>1, <1>2, <1>3, PTL DEF Environment!Spec

-----------------------------------------------------------------------------
(* A behaviour of the sum is one of each service.                          *)

LEMMA RunsReviews == Spec => Review!Spec
<1>1. Init => Review!Init
  BY DEF Init
<1>2. [Next]_vars => [Review!Next]_(Review!reviewVars)
  BY DEF Next, vars, work, reviewVars, Review!reviewVars
<1> QED
  BY <1>1, <1>2, PTL DEF Spec, Review!Spec

LEMMA RunsRevocations == Spec => Revocation!Spec
<1>1. Init => Revocation!Init
  BY DEF Init
<1>2. [Next]_vars => [Revocation!Next]_(Revocation!revocationVars)
  BY DEF Next, vars, access, revocationVars, Revocation!revocationVars
<1> QED
  BY <1>1, <1>2, PTL DEF Spec, Revocation!Spec

LEMMA RunsSeats == Spec => Seat!Spec
<1>1. Init => Seat!Init
  BY DEF Init
<1>2. [Next]_vars => [Seat!Next]_(Seat!seatsVars)
  BY DEF Next, vars, access, seatsVars, Seat!seatsVars
<1> QED
  BY <1>1, <1>2, PTL DEF Spec, Seat!Spec

LEMMA RunsReports == Spec => Report!Spec
<1>1. Init => Report!Init
  BY DEF Init
<1>2. [Next]_vars => [Report!Next]_(Report!reportsVars)
  BY DEF Next, vars, money, reportsVars, Report!reportsVars
<1> QED
  BY <1>1, <1>2, PTL DEF Spec, Report!Spec

LEMMA RunsWarehouse == Spec => Warehouse!Spec
<1>1. Init => Warehouse!Init
  BY DEF Init
<1>2. [Next]_vars => [Warehouse!Next]_(Warehouse!warehouseVars)
  BY DEF Next, vars, work, warehouseVars, Warehouse!warehouseVars
<1> QED
  BY <1>1, <1>2, PTL DEF Spec, Warehouse!Spec

LEMMA RunsMetering == Spec => Meter!Spec
<1>1. Init => Meter!Init
  BY DEF Init
<1>2. [Next]_vars => [Meter!Next]_(Meter!meteringVars)
  BY DEF Next, vars, money, meteringVars, Meter!meteringVars, Meter!collector
<1> QED
  BY <1>1, <1>2, PTL DEF Spec, Meter!Spec

LEMMA RunsInvoices == Spec => Invoice!Spec
<1>1. Init => Invoice!Init
  BY DEF Init
<1>2. [Next]_vars => [Invoice!Next]_(Invoice!invoicesVars)
  BY DEF Next, vars, money, invoicesVars, Invoice!invoicesVars
<1> QED
  BY <1>1, <1>2, PTL DEF Spec, Invoice!Spec

LEMMA RunsBilling == Spec => Bill!Spec
<1>1. Init => Bill!Init
  BY DEF Init
<1>2. [Next]_vars => [Bill!Next]_(Bill!billingVars)
  BY DEF Next, vars, money, billingVars, Bill!billingVars, Bill!atStripe, Bill!events
<1> QED
  BY <1>1, <1>2, PTL DEF Spec, Bill!Spec

LEMMA RunsEnvironments == Spec => Environment!Spec
<1>1. Init => Environment!Init
  BY DEF Init
<1>2. [Next]_vars => [Environment!Next]_(Environment!environmentsVars)
  BY DEF Next, vars, work, environmentsVars, Environment!environmentsVars
<1> QED
  BY <1>1, <1>2, PTL DEF Spec, Environment!Spec

LEMMA RunsBudget == Spec => Budget!Spec
<1>1. Init => Budget!Init
  BY DEF Init
<1>2. [Next]_vars => [Budget!Next]_(Budget!budgetVars)
  BY DEF Next, vars, money, budgetVars, Budget!budgetVars
<1> QED
  BY <1>1, <1>2, PTL DEF Spec, Budget!Spec

LEMMA RunsSchedules == Spec => Schedule!Spec
<1>1. Init => Schedule!Init
  BY DEF Init
<1>2. [Next]_vars => [Schedule!Next]_(Schedule!schedulesVars)
  BY DEF Next, vars, work, schedulesVars, Schedule!schedulesVars
<1> QED
  BY <1>1, <1>2, PTL DEF Spec, Schedule!Spec

LEMMA RunsRates == Spec => Rate!Spec
<1>1. Init => Rate!Init
  BY DEF Init
<1>2. [Next]_vars => [Rate!Next]_(Rate!rateVars)
  BY DEF Next, vars, access, rateVars, Rate!rateVars
<1> QED
  BY <1>1, <1>2, PTL DEF Spec, Rate!Spec

-----------------------------------------------------------------------------
(* Theorems.                                                               *)

\* Whatever reviews overlap, overwrite one another or fail half-way, an apply outside
\* dev without the ADMIN bypass follows a committed review with its audit row, or on
\* SQLite an approval, and nobody approves who has reviewed before (approve_plan,
\* reject_plan, the gate of apply_plan).
THEOREM ReviewsPrecedeApplies == Spec => []ReviewedBeforeApplied
<1>1. Review!ReviewedBeforeApplied => ReviewedBeforeApplied
  BY DEF ReviewedBeforeApplied
<1> QED
  BY <1>1, RunsReviews, ReviewPrecedesApply, PTL

\* Where row security does not hide the revocations from the checks, nobody accepts a
\* revoked token once the TTL of the caches and the longest check have passed; where it
\* does, no cache and no Redis ever learns of one (the revocation checker of the
\* authentication middleware).
THEOREM RevocationsReachAll == Spec => []RevocationSpreads
<1>1. Revocation!RevocationAssumption
  BY ServicesAssumption
<1>2. Revocation!Spec => []Revocation!RevocationSpreads
  BY <1>1, RevocationsSpread
<1>3. Revocation!RevocationSpreads => RevocationSpreads
  BY DEF RevocationSpreads
<1> QED
  BY <1>2, <1>3, RunsRevocations, PTL

\* The seat limit is passed by less than one member per lock number in use
\* (check_seat_quota, invite_member, remove_member).
THEOREM SeatLimitHolds == Spec => []SeatsAreLimited
<1>1. Seat!SeatsAssumption
  BY ServicesAssumption
<1>2. Seat!Spec => []Seat!SeatsAreLimited
  BY <1>1, LimitHolds
<1>3. Seat!SeatsAreLimited => SeatsAreLimited
  BY DEF SeatsAreLimited
<1> QED
  BY <1>2, <1>3, RunsSeats, PTL

\* One process never reports an event to Stripe twice (StripeUsageReporter).
THEOREM ReportsAreOnce == Spec => []ReportedOnce
<1>1. Report!ReportsAssumption
  BY ServicesAssumption
<1>2. Report!Spec => []Report!ReportedOnce
  BY <1>1, NeverTwice
<1>3. Report!ReportedOnce => ReportedOnce
  BY DEF ReportedOnce
<1> QED
  BY <1>2, <1>3, RunsReports, PTL

\* A run recorded SUCCESS has a job that is over and that the warehouse does not report as
\* failed, whatever polls fail, time out or are lost (DatabricksExecutor, _execute_step).
THEOREM SuccessHasItsJob == Spec => []NoPhantomSuccess
<1>1. Warehouse!WarehouseAssumption
  BY ServicesAssumption
<1>2. Warehouse!Spec => []Warehouse!NoPhantomSuccess
  BY <1>1, JobsBehindSuccess
<1>3. Warehouse!NoPhantomSuccess => NoPhantomSuccess
  BY DEF NoPhantomSuccess
<1> QED
  BY <1>2, <1>3, RunsWarehouse, PTL

\* A call of the warehouse ends after a bounded number of turns, for every deadline and
\* number of errors it bears (DatabricksExecutor.execute_step).
THEOREM TurnsAreBounded == Spec => BoundedTurns
<1>1. Warehouse!WarehouseAssumption
  BY ServicesAssumption
<1>2. Warehouse!Spec => BoundedTurns
  BY <1>1, TurnsBounded
<1> QED
  BY <1>2, RunsWarehouse, PTL

\* The database never stores a usage event twice, or one that is still on its way, for
\* batches of every size and any number of processes (MeteringCollector, its sinks).
THEOREM EventsAreBilledOnce == Spec => []BilledOnce
<1>1. Meter!MeteringAssumption
  BY ServicesAssumption
<1>2. Meter!Spec => []Meter!BilledOnce
  BY <1>1, StoredOnce
<1>3. Meter!BilledOnce => BilledOnce
  BY DEF BilledOnce
<1> QED
  BY <1>2, <1>3, RunsMetering, PTL

\* The invoices of each month are numbered from 1 without gap or repetition, and each has
\* its PDF, whichever processes count at the same time (InvoiceService, InvoiceRepository).
THEOREM InvoicesAreDense == Spec => []NumbersAreDense
<1>1. Invoice!InvoicesAssumption
  BY ServicesAssumption
<1>2. Invoice!Spec => []Invoice!NumbersAreDense
  BY <1>1, DenseNumbers
<1>3. Invoice!NumbersAreDense => NumbersAreDense
  BY DEF NumbersAreDense
<1> QED
  BY <1>2, <1>3, RunsInvoices, PTL

\* In whatever order events come, however often, and however their handlers overlap, each
\* column of the billing record is one Stripe gave its customer; and a paid tier has the
\* subscription it came with as long as no two handlers have overlapped (BillingService,
\* stripe_webhook).
THEOREM TiersComeFromStripe == Spec => []TierComesFromStripe
<1>1. Bill!BillingAssumption
  BY ServicesAssumption
<1>2. Bill!Spec => []Bill!TierComesFromStripe
  BY <1>1, TiersAreTold
<1>3. Bill!TierComesFromStripe => TierComesFromStripe
  BY DEF TierComesFromStripe
<1> QED
  BY <1>2, <1>3, RunsBilling, PTL

\* The names in a promotion tell which environments took part, for ever
\* (EnvironmentService.promote over EnvironmentRepository).
THEOREM PromotionsAreTraceable == Spec => []PromotionsNameOneEnvironment
<1>1. Environment!PromotionsNameOneEnvironment => PromotionsNameOneEnvironment
  BY DEF PromotionsNameOneEnvironment
<1> QED
  BY <1>1, RunsEnvironments, NamesAreOne, PTL

\* A budget is passed by less than the cost of one call of one process, on any day and in
\* any month, though the cost of a call is known only when it is over and calls take turns
\* with the checks (BudgetGuard, behind its lock).
THEOREM OvershootsAreOneCall == Spec => []OvershootIsOneCall
<1>1. Budget!BudgetAssumption
  BY ServicesAssumption
<1>2. Budget!Spec => []BudgetInv
  BY <1>1, BudgetSafe
<1>3. BudgetInv => OvershootIsOneCall
  BY CostIsSum DEF BudgetInv, SpentInv, OvershootIsOneCall, Budget!OvershootIsOneCall
<1> QED
  BY <1>2, <1>3, RunsBudget, PTL

\* compute_next_run names the first match after now, for hours, days and weeks of any
\* length, and one process serves each slot once and in order, however long executions
\* take and whatever requests change meanwhile (ReconciliationScheduler, PUT /schedule).
THEOREM SlotsServedOnce == Spec => []SlotsAreServedOnce
<1>1. Schedule!SchedulesAssumption
  BY ServicesAssumption
<1>2. Schedule!Spec => []Schedule!SlotsAreServedOnce
  BY <1>1, ServedOnce
<1>3. Schedule!SlotsAreServedOnce => SlotsAreServedOnce
  BY DEF SlotsAreServedOnce
<1> QED
  BY <1>2, <1>3, RunsSchedules, PTL

\* No span shorter than the window by the delays and the skew sees more requests than the
\* burst limit, for any window, limit, delay and skew (the rate limiter's backends).
THEOREM BurstsAreLimited == Spec => []BurstIsLimited
<1>1. Rate!RateLimitAssumption
  BY ServicesAssumption
<1>2. Rate!Spec => []RateInv
  BY <1>1, RateSafe
<1>3. RateInv => BurstIsLimited
  BY DEF RateInv, BurstIsLimited
<1> QED
  BY <1>2, <1>3, RunsRates, PTL

\* The state of every service keeps its type.
THEOREM TypesCorrect == Spec => []TypesOK
<1>1. Spec => [](active \in Services)
  <2>1. Init => active \in Services
    BY DEF Init
  <2>2. active \in Services /\ [Next]_vars => (active \in Services)'
    BY DEF Next, vars
  <2> QED
    BY <2>1, <2>2, PTL DEF Spec
<1>2. Spec => [](Review!TypeOK /\ Warehouse!TypeOK /\ Environment!TypeOK /\ Schedule!TypeOK)
  <2>1. Warehouse!WarehouseAssumption /\ Schedule!SchedulesAssumption
    BY ServicesAssumption
  <2>2. Warehouse!Spec => []Warehouse!TypeOK
    BY <2>1, WarehouseTypeCorrect
  <2>3. Schedule!Spec => []ScheduleInv
    BY <2>1, ScheduleSafe
  <2>4. ScheduleInv => Schedule!TypeOK
    BY <2>1, ScheduleTypeOK
  <2> QED
    BY <2>2, <2>3, <2>4, RunsReviews, ReviewTypeCorrect, RunsWarehouse, RunsEnvironments,
       EnvironmentTypeCorrect, RunsSchedules, PTL
<1>3. Spec => [](Revocation!TypeOK /\ Seat!TypeOK /\ Rate!TypeOK)
  <2>1. Revocation!RevocationAssumption /\ Seat!SeatsAssumption /\ Rate!RateLimitAssumption
    BY ServicesAssumption
  <2>2. Revocation!Spec => []Revocation!TypeOK
    BY <2>1, RevocationTypeCorrect
  <2>3. Seat!Spec => []Seat!TypeOK
    BY <2>1, SeatTypeCorrect
  <2>4. Rate!Spec => []RateInv
    BY <2>1, RateSafe
  <2>5. RateInv => Rate!TypeOK
    BY DEF RateInv, RateTypes, Rate!TypeOK
  <2> QED
    BY <2>2, <2>3, <2>4, <2>5, RunsRevocations, RunsSeats, RunsRates, PTL
<1>4. Spec => [](Meter!TypeOK /\ Invoice!TypeOK /\ Bill!TypeOK /\ Budget!TypeOK /\ Report!TypeOK)
  <2>1. /\ Meter!MeteringAssumption /\ Invoice!InvoicesAssumption /\ Bill!BillingAssumption
        /\ Budget!BudgetAssumption /\ Report!ReportsAssumption
    BY ServicesAssumption
  <2>2. Meter!Spec => []Meter!TypeOK
    BY <2>1, MeteringTypeCorrect
  <2>3. Invoice!Spec => []Invoice!TypeOK
    BY <2>1, InvoiceTypeCorrect
  <2>4. Bill!Spec => []Bill!TypeOK
    BY <2>1, BillingTypeCorrect
  <2>5. Budget!Spec => []BudgetInv
    BY <2>1, BudgetSafe
  <2>6. BudgetInv => Budget!TypeOK
    BY DEF BudgetInv, BudgetTypes, Budget!TypeOK
  <2>7. Report!Spec => []Report!TypeOK
    BY <2>1, ReportTypeCorrect
  <2> QED
    BY <2>2, <2>3, <2>4, <2>5, <2>6, <2>7, RunsMetering, RunsInvoices, RunsBilling, RunsBudget,
       RunsReports, PTL
<1>5. /\ active \in Services
      /\ Review!TypeOK /\ Warehouse!TypeOK /\ Environment!TypeOK /\ Schedule!TypeOK
      /\ Revocation!TypeOK /\ Seat!TypeOK /\ Rate!TypeOK
      /\ Meter!TypeOK /\ Invoice!TypeOK /\ Bill!TypeOK /\ Budget!TypeOK /\ Report!TypeOK
      => TypesOK
  BY DEF Services, TypesOK
<1> QED
  BY <1>1, <1>2, <1>3, <1>4, <1>5, PTL
=============================================================================
