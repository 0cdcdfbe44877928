------------------------------ MODULE Billing -------------------------------
(***************************************************************************)
(* The billing record of a tenant: BillingService over billing_customers,  *)
(* its Stripe customers, and the webhook events of their subscriptions     *)
(* (api/api/routers/billing.py: stripe_webhook).                           *)
(*                                                                         *)
(* Stripe is external.  The event of each change comes at any time after   *)
(* it, in any order, and any number of times.  A handler reads the row     *)
(* without a lock and later writes the columns it has changed; handlers of *)
(* other events come in between.                                           *)
(*                                                                         *)
(* As the route is written, every event raises before it reaches           *)
(* BillingService (it asks for the session factory without its request)    *)
(* and is sent again: the behaviours in which HandlerFails always comes.   *)
(***************************************************************************)
EXTENDS Integers, Sequences, FiniteSets

CONSTANTS
    Requests,      \* requests being served: they ask for the customer, or bring an event
    Tiers,         \* of the configured prices, "community" among them
    MaxCustomers,  \* bound: Stripe customers
    MaxEvents      \* bound: webhook events sent

\* What the constants must be.
BillingAssumption ==
    /\ "community" \in Tiers /\ "none" \notin Tiers
    /\ MaxCustomers \in Nat /\ MaxEvents \in Nat

NoRecord == [customer |-> 0, subscription |-> 0, tier |-> "none"]
NoSubscription == [customer |-> 0, tier |-> "none"]
Idle == [event |-> 0, read |-> NoRecord]

VARIABLES
    customers,      \* Stripe customers created for the tenant: 1..customers
    record,         \* the committed row of billing_customers, or NoRecord
    asking,         \* [Requests -> the customer just created, or 0]
    subscriptions,  \* at Stripe, by the event that began each: of whom and for what
    sent,           \* sequence of all events: a subscription after each change
    handling,       \* [Requests -> the event being handled and the row that was read]
    overlapped      \* history: have two events been handled at once?

atStripe == <<subscriptions, sent>>
events == <<handling, overlapped>>
billingVars == <<customers, record, asking, atStripe, events>>

Init ==
    /\ customers = 0 /\ record = NoRecord
    /\ asking = [r \in Requests |-> 0]
    /\ subscriptions = [s \in 1 .. MaxEvents |-> NoSubscription]
    /\ sent = <<>>
    /\ handling = [r \in Requests |-> Idle] /\ overlapped = FALSE

Free(r) == asking[r] = 0 /\ handling[r] = Idle

-----------------------------------------------------------------------------
(* get_or_create_customer and create_checkout_session.                     *)

CreateCustomer(r) ==
    /\ record = NoRecord /\ Free(r) /\ customers < MaxCustomers
    /\ customers' = customers + 1
    /\ asking' = [asking EXCEPT ![r] = customers + 1]
    /\ UNCHANGED <<record, atStripe, events>>

\* The row is unique per tenant: the second of two requests fails, and leaves a
\* customer at Stripe that nothing refers to.
InsertRecord(r) ==
    /\ asking[r] # 0
    /\ record' = IF record = NoRecord
                 THEN [customer |-> asking[r], subscription |-> 0, tier |-> "community"]
                 ELSE record
    /\ asking' = [asking EXCEPT ![r] = 0]
    /\ UNCHANGED <<customers, atStripe, events>>

RequestLost(r) ==
    /\ asking[r] # 0
    /\ asking' = [asking EXCEPT ![r] = 0]
    /\ UNCHANGED <<customers, record, atStripe, events>>

-----------------------------------------------------------------------------
(* Stripe.                                                                 *)

SendEvent(c, s, t) ==
    /\ Len(sent) < MaxEvents
    /\ subscriptions' = [subscriptions EXCEPT ![s] = [customer |-> c, tier |-> t]]
    /\ sent' = Append(sent, [customer |-> c, subscription |-> s, tier |-> t])
    /\ UNCHANGED <<customers, record, asking, events>>

Subscribe(c, t) ==
    /\ c <= customers
    /\ SendEvent(c, Len(sent) + 1, t)

\* Another price, or the end: tier "none".
ChangeSubscription(s, t) ==
    /\ subscriptions[s].tier \notin {t, "none"}
    /\ SendEvent(subscriptions[s].customer, s, t)

-----------------------------------------------------------------------------
(* stripe_webhook.                                                         *)

\* Mutant: the end of a subscription does not reset the tier.
TierStays(row, e) ==
    IF e.tier = "none" THEN [row EXCEPT !.subscription = 0]
    ELSE [row EXCEPT !.subscription = e.subscription, !.tier = e.tier]

\* _handle_subscription_update, _handle_subscription_deleted: what they make of a row.
Applied(row, e) ==
    IF e.tier = "none" THEN [row EXCEPT !.subscription = 0, !.tier = "community"]
    ELSE [row EXCEPT !.subscription = e.subscription, !.tier = e.tier]

\* The row of the event's customer is read; an event of a customer that no record
\* names is answered and changes nothing.
ReadEvent(r, i) ==
    /\ Free(r)
    /\ sent[i].customer = record.customer
    /\ handling' = [handling EXCEPT ![r] = [event |-> i, read |-> record]]
    /\ overlapped' = (overlapped \/ \E q \in Requests : handling[q] # Idle)
    /\ UNCHANGED <<customers, record, asking, atStripe>>

\* The session writes the columns that differ from what it read.
Written(read, new) ==
    [record EXCEPT
        !.subscription = IF new.subscription # read.subscription THEN new.subscription ELSE @,
        !.tier         = IF new.tier # read.tier THEN new.tier ELSE @]

WriteEvent(r) ==
    /\ handling[r] # Idle
    /\ record' = Written(handling[r].read, Applied(handling[r].read, sent[handling[r].event]))
    /\ handling' = [handling EXCEPT ![r] = Idle]
    /\ UNCHANGED <<customers, asking, atStripe, overlapped>>

\* It raises, dies or fails to commit.
HandlerFails(r) ==
    /\ handling[r] # Idle
    /\ handling' = [handling EXCEPT ![r] = Idle]
    /\ UNCHANGED <<customers, record, asking, atStripe, overlapped>>

Next ==
    \/ \E r \in Requests : CreateCustomer(r) \/ InsertRecord(r) \/ RequestLost(r)
    \/ \E c \in 1 .. MaxCustomers, t \in Tiers : Subscribe(c, t)
    \/ \E s \in 1 .. MaxEvents, t \in Tiers \cup {"none"} : ChangeSubscription(s, t)
    \/ \E r \in Requests : \/ \E i \in DOMAIN sent : ReadEvent(r, i)
                          \/ WriteEvent(r) \/ HandlerFails(r)

Spec == Init /\ [][Next]_billingVars

-----------------------------------------------------------------------------
(* Properties.                                                             *)

TypeOK ==
    /\ customers \in 0 .. MaxCustomers
    /\ record \in [customer : 0 .. customers, subscription : 0 .. MaxEvents,
                   tier : Tiers \cup {"none"}]
    /\ asking \in [Requests -> 0 .. customers]
    /\ \A r \in Requests : handling[r] # Idle => handling[r].event \in DOMAIN sent

\* "Downgrade the tenant to community tier on subscription cancellation": a paid tier
\* comes with its subscription.
PaidTierHasSubscription ==
    record.tier \notin {"none", "community"} => record.subscription # 0

\* In whatever order events come, however often, and however their handlers overlap,
\* each column of the record is one Stripe gave that very customer.  As long as no two
\* handlers have overlapped, the columns belong together: a paid tier has a
\* subscription, and one event told of both.
TierComesFromStripe ==
    LET told == {sent[i] : i \in {j \in DOMAIN sent :
                                     sent[j].customer = record.customer /\ sent[j].tier # "none"}}
    IN  /\ record.tier \notin {"none", "community"} => \E e \in told : e.tier = record.tier
        /\ record.subscription # 0 => \E e \in told : e.subscription = record.subscription
        /\ ~overlapped =>
               /\ PaidTierHasSubscription
               /\ record.subscription # 0 =>
                      \E e \in told : e.subscription = record.subscription /\ e.tier = record.tier
=============================================================================
