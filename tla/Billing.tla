------------------------------- MODULE Billing ------------------------------
(***************************************************************************)
(* The billing of one organization (app/billing/router.py): checkouts that *)
(* create the provider's customer lazily, cancellations, and the webhook   *)
(* that turns provider events into the organization's subscription row, on *)
(* PostgreSQL.  The provider delivers every event until it is answered     *)
(* 2xx, maybe several times, at once, and in any order.                    *)
(*                                                                         *)
(* A checkout names the customer and the subscription it creates.  A row   *)
(* of subscriptions is written whole by an INSERT, but an UPDATE writes    *)
(* the columns in which the event differs from the row as it was loaded.   *)
(***************************************************************************)
EXTENDS Payments, Sequences, FiniteSets

CONSTANTS
    Checkouts, Deliveries,  \* requests that may overlap
    Says,                   \* what each provider may say: names, statuses and prices
    MaxEvents, MaxDeaths,   \* bounds of the model
    None,                   \* no customer; no row
    Skip                    \* nothing to write

ASSUME BoundsAssumption == MaxEvents \in Nat /\ MaxDeaths \in Nat

\* What events are called by each provider, and the statuses and prices of what
\* they are about.
EventNames ==
    [stripe |-> {"created", "updated", "deleted", "invoice_paid"},
     razorpay |-> {"authenticated", "activated", "charged", "updated", "pending", "halted", "paused",
                   "resumed", "cancelled", "completed", "expired", "payment_captured"}]

Statuses ==
    {"incomplete", "incomplete_expired", "trialing", "active", "past_due", "unpaid", "paused",
     "canceled", "created", "authenticated", "pending", "halted", "cancelled", "completed",
     "expired", "paid"}

Prices == {"price_pro", "price_enterprise", "price_other"}

ASSUME SaysAssumption ==
    \A p \in Providers : Says[p] \subseteq [name : EventNames[p], status : Statuses, price : Prices]

VARIABLES
    provider,   \* settings.payments_provider
    customer,   \* organizations.payments_customer_id
    checkout,   \* where each checkout is
    customerOf, \* the customer each checkout used
    crossed,    \* history: two checkouts overlapped
    log,        \* the provider's events about the organization's customers
    processed,  \* the keys in processed_events, each with the event it was inserted for
    row,        \* the row of subscriptions, or None
    at,         \* where each delivery is
    event,      \* the number of the event it delivers
    loaded,     \* the row as it loaded it, or Skip if the event syncs nothing
    deaths,
    applied,    \* history: how often each event was committed
    unknown,    \* history: events taken for those of an unknown customer
    smooth      \* history: no event was committed before an earlier one or overlapped another

checkoutVars == <<customer, checkout, customerOf, crossed>>
deliveryVars == <<processed, row, at, event, loaded, deaths, applied, unknown, smooth>>
vars == <<provider, checkoutVars, log, deliveryVars>>

Event == [id : Nat, name : UNION {EventNames[p] : p \in Providers}, sub : Checkouts,
          status : Statuses, price : Prices, second : Nat]
Row == [sub : Checkouts, status : Statuses, plan : DOMAIN FeaturesByPlan]

ASSUME NoneAssumption == None \notin Row \cup Checkouts /\ Skip \notin Row \cup {None}

Numbers == 1 .. MaxEvents

TypeOK ==
    /\ provider \in Providers
    /\ customer \in Checkouts \cup {None}
    /\ checkout \in [Checkouts -> {"idle", "started", "done", "dead"}]
    /\ customerOf \in [Checkouts -> Checkouts \cup {None}]
    /\ crossed \in BOOLEAN
    /\ log \in Seq(Event) /\ Len(log) <= MaxEvents
    /\ row \in Row \cup {None}
    /\ at \in [Deliveries -> {"idle", "looked_up", "inserted"}]
    /\ event \in [Deliveries -> Numbers \cup {0}]
    /\ loaded \in [Deliveries -> Row \cup {None, Skip}]
    /\ deaths \in 0 .. MaxDeaths
    /\ applied \in [Numbers -> Nat]
    /\ unknown \subseteq Numbers
    /\ smooth \in BOOLEAN

Init ==
    /\ provider \in Providers
    /\ customer = None
    /\ checkout = [c \in Checkouts |-> "idle"]
    /\ customerOf = [c \in Checkouts |-> None]
    /\ crossed = FALSE
    /\ log = <<>>
    /\ processed = {}
    /\ row = None
    /\ at = [d \in Deliveries |-> "idle"]
    /\ event = [d \in Deliveries |-> 0]
    /\ loaded = [d \in Deliveries |-> Skip]
    /\ deaths = 0
    /\ applied = [n \in Numbers |-> 0]
    /\ unknown = {}
    /\ smooth = TRUE

-----------------------------------------------------------------------------
(* Checkouts                                                                *)

\* Slip: every checkout creates a customer.
EnsureCustomerAnew(c) == c

\* _ensure_customer() of either adapter, of the organization as it is loaded
\* here: the customer is created at the provider at once.  open_customer_portal()
\* of Stripe does as much, a checkout whose URL nobody follows.
EnsureCustomer(c) == IF customer = None THEN c ELSE customer

StartCheckout(c) ==
    /\ checkout[c] = "idle"
    /\ checkout' = [checkout EXCEPT ![c] = "started"]
    /\ customerOf' = [customerOf EXCEPT ![c] = EnsureCustomer(c)]
    /\ crossed' = (crossed \/ \E b \in Checkouts : checkout[b] = "started")
    /\ UNCHANGED <<provider, customer, log, deliveryVars>>

\* The commit writes a customer that was created, and the URL is returned.
CommitCheckout(c) ==
    /\ checkout[c] = "started"
    /\ checkout' = [checkout EXCEPT ![c] = "done"]
    /\ customer' = IF customerOf[c] = c THEN c ELSE customer
    /\ UNCHANGED <<provider, customerOf, crossed, log, deliveryVars>>

\* The request dies between the provider and the commit.
DieInCheckout(c) ==
    /\ checkout[c] = "started"
    /\ checkout' = [checkout EXCEPT ![c] = "dead"]
    /\ UNCHANGED <<provider, customer, customerOf, crossed, log, deliveryVars>>

-----------------------------------------------------------------------------
(* The provider (external)                                                  *)

\* Stripe makes the subscription when the user follows the URL.  Razorpay's
\* start_checkout() makes it, before the commit, and Razorpay tells the customer
\* of it (customer_notify).
Subscribed(c) ==
    IF provider = "stripe" THEN checkout[c] = "done" ELSE checkout[c] # "idle"

\* Names of a subscription's last event.
Last == {"deleted", "cancelled", "completed", "expired"}

Ended(c) == \E n \in 1 .. Len(log) : log[n].sub = c /\ log[n].name \in Last

\* The provider says something of the subscription of c, in the same second
\* as the last event or in a later one.
Send(c, said, sameSecond) ==
    /\ Len(log) < MaxEvents
    /\ log' = Append(log,
         [id |-> Len(log) + 1, name |-> said.name, sub |-> c, status |-> said.status,
          price |-> said.price,
          second |-> IF log = <<>> THEN 0
                     ELSE log[Len(log)].second + (IF sameSecond THEN 0 ELSE 1)])
    /\ UNCHANGED <<provider, checkoutVars, deliveryVars>>

Emit(c) ==
    /\ Subscribed(c)
    /\ ~ Ended(c)
    /\ \E said \in Says[provider], sameSecond \in BOOLEAN :
         /\ sameSecond => log # <<>> /\ provider = "razorpay"
         /\ Send(c, said, sameSecond)

\* get_subscription(): a subscription of the organization's customer; Stripe
\* lists none that has ended.
StripeLists(c) == customerOf[c] = customer /\ Subscribed(c) /\ ~ Ended(c)
RazorpayLists(c) == customerOf[c] = customer /\ Subscribed(c)

\* cancel() of what get_subscription() returned: the provider says so.  Of one
\* that has ended already it is refused, a 500.
Cancel(c) ==
    /\ customer # None
    /\ IF provider = "stripe" THEN StripeLists(c) ELSE RazorpayLists(c)
    /\ ~ Ended(c)
    /\ \E said \in Says[provider] : said.name \in Last /\ Send(c, said, FALSE)

-----------------------------------------------------------------------------
(* The webhook                                                              *)

Payment(n) == ToPaymentEvent(provider, log[n])
Lifecycle(n) == Payment(n).type \in SubscriptionEvents
\* _sync_subscription() finds the organization of the event's customer.
Known(n) == customer # None /\ customerOf[log[n].sub] = customer

\* require_feature(): the features of the row's plan, if it is active.
Granted ==
    FeaturesByPlan[IF row # None /\ row.status \in ActiveStatuses THEN row.plan ELSE "free"]

Goto(d, to) == at' = [at EXCEPT ![d] = to]

\* session.get() finds no row of the event's key; if it does the answer is
\* 200, "duplicate", and nothing changes.
Receive(d, n) ==
    /\ at[d] = "idle"
    /\ n \in 1 .. Len(log)
    /\ Payment(n).id \notin processed
    /\ Goto(d, "looked_up")
    /\ event' = [event EXCEPT ![d] = n]
    /\ UNCHANGED <<provider, checkoutVars, log, processed, row, loaded, deaths, applied,
                   unknown, smooth>>

Finish(d) ==
    /\ Goto(d, "idle")
    /\ event' = [event EXCEPT ![d] = 0]
    /\ loaded' = [loaded EXCEPT ![d] = Skip]

Inserted(key) == \E q \in Deliveries : at[q] = "inserted" /\ Payment(event[q]).id = key

\* Slip: processed_events without its primary key.
InsertUnkeyed(d) ==
    /\ at[d] = "looked_up"
    /\ Goto(d, "inserted")
    /\ loaded' = [loaded EXCEPT ![d] = IF Lifecycle(event[d]) /\ Known(event[d]) THEN row ELSE Skip]
    /\ smooth' = (smooth /\ \A q \in Deliveries : at[q] # "inserted")
    /\ UNCHANGED <<provider, checkoutVars, log, processed, row, event, deaths, applied, unknown>>

\* The autoflush of _sync_subscription()'s first select inserts the key, having
\* waited for another transaction that does; then the organization and its row
\* are read.  An event that syncs nothing is inserted by the commit's flush.
Insert(d) ==
    /\ at[d] = "looked_up"
    /\ Payment(event[d]).id \notin processed
    /\ ~ Inserted(Payment(event[d]).id)
    /\ Goto(d, "inserted")
    /\ loaded' = [loaded EXCEPT ![d] = IF Lifecycle(event[d]) /\ Known(event[d]) THEN row ELSE Skip]
    /\ smooth' = (smooth /\ \A q \in Deliveries : at[q] # "inserted")
    /\ UNCHANGED <<provider, checkoutVars, log, processed, row, event, deaths, applied, unknown>>

\* IntegrityError of the key, 500.
InsertConflict(d) ==
    /\ at[d] = "looked_up"
    /\ Payment(event[d]).id \in processed
    /\ Finish(d)
    /\ UNCHANGED <<provider, checkoutVars, log, processed, row, deaths, applied, unknown, smooth>>

\* The columns of the event that differ from the row as loaded.
Synced(old, current, new) ==
    [c \in DOMAIN new |-> IF old[c] = new[c] THEN current[c] ELSE new[c]]

\* The row that an event makes where there is none.
RowFor(n) == [sub |-> log[n].sub, status |-> Payment(n).status, plan |-> Payment(n).plan]

CommitOf(n, d) ==
    /\ processed' = processed \cup {Payment(n).id}
    /\ row' = CASE loaded[d] = Skip -> row
                [] loaded[d] = None -> RowFor(n)
                [] OTHER -> Synced(loaded[d], row, RowFor(n))
    /\ applied' = [applied EXCEPT ![n] = @ + 1]
    /\ unknown' = IF loaded[d] = Skip /\ Lifecycle(n) THEN unknown \cup {n} ELSE unknown
    /\ smooth' = (smooth /\ \A m \in 1 .. n - 1 : applied[m] > 0)

\* Slip: an event of an unknown customer is refused and rolled back.
CommitKnown(d) ==
    /\ at[d] = "inserted"
    /\ ~ (loaded[d] = None /\ row # None)
    /\ Finish(d)
    /\ IF loaded[d] = Skip /\ Lifecycle(event[d])
       THEN UNCHANGED <<processed, row, applied, unknown, smooth>>
       ELSE CommitOf(event[d], d)
    /\ UNCHANGED <<provider, checkoutVars, log, deaths>>

Commit(d) ==
    /\ at[d] = "inserted"
    /\ ~ (loaded[d] = None /\ row # None)
    /\ Finish(d)
    /\ CommitOf(event[d], d)
    /\ UNCHANGED <<provider, checkoutVars, log, deaths>>

\* IntegrityError of UNIQUE (organization): another sync has inserted the row;
\* the key is rolled back with it, 500.
CommitConflict(d) ==
    /\ at[d] = "inserted"
    /\ loaded[d] = None
    /\ row # None
    /\ Finish(d)
    /\ UNCHANGED <<provider, checkoutVars, log, processed, row, deaths, applied, unknown, smooth>>

\* The server dies before the commit.
Die(d) ==
    /\ at[d] # "idle"
    /\ deaths < MaxDeaths
    /\ deaths' = deaths + 1
    /\ Finish(d)
    /\ UNCHANGED <<provider, checkoutVars, log, processed, row, applied, unknown, smooth>>

Next ==
    \/ \E c \in Checkouts :
         StartCheckout(c) \/ CommitCheckout(c) \/ DieInCheckout(c) \/ Emit(c) \/ Cancel(c)
    \/ \E d \in Deliveries :
         \/ \E n \in Numbers : Receive(d, n)
         \/ Insert(d) \/ InsertConflict(d) \/ Commit(d) \/ CommitConflict(d) \/ Die(d)

\* A delivery under way goes on, and the provider delivers an event again
\* until it is answered 2xx.
Fairness ==
    /\ \A d \in Deliveries : WF_vars(Insert(d) \/ InsertConflict(d) \/ Commit(d) \/ CommitConflict(d))
    /\ \A n \in Numbers : SF_vars(\E d \in Deliveries : Receive(d, n))

Spec == Init /\ [][Next]_vars /\ Fairness

-----------------------------------------------------------------------------
(* Properties                                                               *)

\* Of the deliveries of one event, duplicates and overlapping ones included,
\* payments_webhook() commits at most one.
AppliedOnce == \A n \in Numbers : applied[n] <= 1

\* The webhook is an inbox: an event is heeded when it is committed, with the
\* key of processed_events, and what is kept is the organization's row.
Sent ==
    [n \in 1 .. Len(log) |->
       [key |-> Payment(n).id, says |-> IF Lifecycle(n) THEN RowFor(n) ELSE None]]

I == INSTANCE Inbox WITH sent <- Sent, keys <- processed, heeded <- applied, kept <- row

\* The row changes only in the transaction that commits the key of an event of
\* its subscription, once for each key and only to what that event says,
\* however deliveries overlap, conflict or die.
ImplementsInbox == I!Spec

\* With Stripe no event is taken for one of an unknown customer, and lost,
\* unless two checkouts overlapped and each created a customer.
NothingLost == (provider = "stripe" /\ ~ crossed) => unknown = {}

\* When every event has been applied, each after the one before it, the
\* organization has the features it is due by the provider's last word.
MirrorsProvider ==
    LET about == {n \in 1 .. Len(log) : log[n].name \notin {"invoice_paid", "payment_captured"}}
    IN  (smooth /\ unknown = {} /\ \A n \in 1 .. Len(log) : applied[n] > 0) =>
          \A n \in about : (\A m \in about : m <= n) => Granted = Due(log[n])

\* Every event is applied in the end, or found to have been, whatever dies or
\* conflicts on the way.
EventuallyApplied ==
    \A n \in Numbers : (n <= Len(log)) ~> (n <= Len(log) /\ Payment(n).id \in processed)
=============================================================================
