---------------------------- MODULE BillingProofs ---------------------------
(***************************************************************************)
(* Proofs about Billing: for any number of checkouts, deliveries, events   *)
(* and deaths, an event is applied once, none is lost for want of its      *)
(* customer, and the row follows the provider.                             *)
(***************************************************************************)
EXTENDS Billing, TLAPS

-----------------------------------------------------------------------------
(* The adapters.                                                            *)

\* What the log holds is an event of the provider's, in its words.
LogSound == \A n \in 1 .. Len(log) : log[n] \in Event /\ log[n].name \in EventNames[provider]

\* A name that a map knows is of a lifecycle, and no other.
LEMMA LookupFinds ==
    ASSUME NEW maps, NEW name
    PROVE  Lookup(maps, name) \in SubscriptionEvents
             <=> \E t \in SubscriptionEvents : name \in maps[t]
<1>1. CASE \E t \in SubscriptionEvents : name \in maps[t]
  BY <1>1 DEF Lookup
<1>2. CASE ~ \E t \in SubscriptionEvents : name \in maps[t]
  <2>1. Lookup(maps, name) = "ignored"
    BY <1>2 DEF Lookup
  <2>2. QED
    BY <1>2, <2>1 DEF SubscriptionEvents
<1>3. QED
  BY <1>1, <1>2

\* What the log has room for has a number.
LEMMA Numbered == TypeOK => 1 .. Len(log) \subseteq Numbers
BY BoundsAssumption DEF TypeOK, Numbers

\* Every event normalizes to a row of the table, and is of a lifecycle unless
\* it is about something else (adapters/stripe.py, adapters/razorpay.py).
LEMMA Normalized ==
    ASSUME TypeOK, LogSound, NEW n \in 1 .. Len(log)
    PROVE  /\ RowFor(n) \in Row
           /\ Lifecycle(n) <=> log[n].name \notin {"invoice_paid", "payment_captured"}
<1>1. log[n] \in Event /\ log[n].name \in EventNames[provider] /\ provider \in {"stripe", "razorpay"}
  BY DEF LogSound, TypeOK, Providers
<1>2. CASE provider = "stripe"
  <2>1. Payment(n) = StripeEvent(log[n])
    BY <1>2 DEF Payment, ToPaymentEvent
  <2>2. RowFor(n) \in Row
    BY <1>1, <2>1 DEF RowFor, Row, Event, Prices, StripeEvent, PriceToPlan, FeaturesByPlan
  <2>3. log[n].name \in {"created", "updated", "deleted", "invoice_paid"}
    BY <1>1, <1>2 DEF EventNames
  <2>4. log[n].name \in {"created", "updated", "deleted"} <=>
          \E t \in SubscriptionEvents : log[n].name \in StripeEventMap[t]
    BY DEF SubscriptionEvents, StripeEventMap
  <2>5. (\E t \in SubscriptionEvents : log[n].name \in StripeEventMap[t]) <=> Lifecycle(n)
    BY <2>1, LookupFinds DEF Lifecycle, StripeEvent
  <2>6. QED
    BY <2>2, <2>3, <2>4, <2>5
<1>3. CASE provider = "razorpay"
  <2>1. Payment(n) = RazorpayEvent(log[n])
    BY <1>3 DEF Payment, ToPaymentEvent
  <2>2. RowFor(n) \in Row
    <3>1. log[n].status \in Statuses /\ log[n].price \in Prices /\ log[n].sub \in Checkouts
      BY <1>1 DEF Event
    <3>2. NormalizeStatus(log[n].status) \in Statuses
      BY <3>1 DEF NormalizeStatus, Statuses
    <3>3. PlanIdToPlan(log[n].price) \in DOMAIN FeaturesByPlan
      BY <3>1 DEF PlanIdToPlan, FeaturesByPlan
    <3>4. QED
      BY <2>1, <3>1, <3>2, <3>3 DEF RowFor, Row, RazorpayEvent
  <2>3. log[n].name \in {"authenticated", "activated", "charged", "updated", "pending", "halted",
                         "paused", "resumed", "cancelled", "completed", "expired",
                         "payment_captured"}
    BY <1>1, <1>3 DEF EventNames
  <2>4. log[n].name # "payment_captured" <=>
          \E t \in SubscriptionEvents : log[n].name \in RazorpayEventMap[t]
    BY <2>3 DEF SubscriptionEvents, RazorpayEventMap
  <2>5. (\E t \in SubscriptionEvents : log[n].name \in RazorpayEventMap[t]) <=> Lifecycle(n)
    BY <2>1, LookupFinds DEF Lifecycle, RazorpayEvent
  <2>6. QED
    BY <2>2, <2>3, <2>4, <2>5
<1>4. QED
  BY <1>1, <1>2, <1>3

\* An organization whose row is an event's has the features that the provider
\* charges for (entitlements.py, adapters' status and price maps).
LEMMA GrantedIsDue ==
    ASSUME TypeOK, LogSound, NEW n \in 1 .. Len(log), row = RowFor(n)
    PROVE  Granted = Due(log[n])
<1>1. log[n] \in Event /\ log[n].price \in Prices /\ provider \in {"stripe", "razorpay"}
  BY DEF LogSound, TypeOK, Providers, Event
<1>2. row # None
  BY Normalized, NoneAssumption
<1>3. row.plan = PriceToPlan(log[n].price)
  BY <1>1 DEF RowFor, Payment, ToPaymentEvent, StripeEvent, RazorpayEvent, PriceToPlan, PlanIdToPlan
<1>4. row.status \in ActiveStatuses <=> log[n].status \in {"active", "trialing"}
  BY <1>1 DEF RowFor, Payment, ToPaymentEvent, StripeEvent, RazorpayEvent, NormalizeStatus,
              ActiveStatuses
<1>5. CASE log[n].status \in {"active", "trialing"}
  <2>1. Granted = FeaturesByPlan[PriceToPlan(log[n].price)]
    BY <1>2, <1>3, <1>4, <1>5 DEF Granted
  <2>2. CASE log[n].price = "price_pro"
    BY <1>5, <2>1, <2>2 DEF Due, PriceToPlan, FeaturesByPlan
  <2>3. CASE log[n].price = "price_enterprise"
    BY <1>5, <2>1, <2>3 DEF Due, PriceToPlan, FeaturesByPlan
  <2>4. CASE log[n].price = "price_other"
    BY <1>5, <2>1, <2>4 DEF Due, PriceToPlan, FeaturesByPlan
  <2>5. QED
    BY <1>1, <2>2, <2>3, <2>4 DEF Prices
<1>6. CASE log[n].status \notin {"active", "trialing"}
  BY <1>2, <1>4, <1>6 DEF Granted, Due, FeaturesByPlan
<1>7. QED
  BY <1>5, <1>6

-----------------------------------------------------------------------------
(* The inductive invariant.                                                 *)

\* A delivery that has inserted its key holds it alone, has loaded a row only for
\* an event of a lifecycle, a row that was loaded is still there, and an event
\* applied has left its key.
KeysSound ==
    /\ \A d \in Deliveries : at[d] # "idle" => event[d] \in 1 .. Len(log)
    /\ \A d \in Deliveries : at[d] = "inserted" => Payment(event[d]).id \notin processed
    /\ \A d \in Deliveries : at[d] = "inserted" /\ loaded[d] # Skip => Lifecycle(event[d])
    /\ \A d \in Deliveries : loaded[d] \in Row => row # None
    /\ \A c, d \in Deliveries :
         at[c] = "inserted" /\ at[d] = "inserted" /\ Payment(event[c]).id = Payment(event[d]).id
           => c = d
    /\ \A n \in Numbers : applied[n] > 0 => n <= Len(log) /\ Payment(n).id \in processed
    /\ AppliedOnce

\* As long as no two checkouts overlap, every finished one has used the
\* organization's customer; Stripe speaks of finished ones only.
CustomersAgree ==
    /\ \A c \in Checkouts : checkout[c] = "done" => customer # None /\ customerOf[c] = customer
    /\ \A b, c \in Checkouts : checkout[b] = "started" /\ checkout[c] = "started" => b = c
    /\ \A c \in Checkouts : checkout[c] = "started" => customerOf[c] = EnsureCustomer(c)
    /\ \A n \in 1 .. Len(log) : checkout[log[n].sub] = "done"
    /\ \A d \in Deliveries : at[d] = "inserted" /\ Lifecycle(event[d]) => loaded[d] # Skip
    /\ unknown = {}

CustomersSound == provider = "stripe" /\ ~ crossed => CustomersAgree

\* n is the last of the applied events of a lifecycle.
LastApplied(n) ==
    /\ n \in 1 .. Len(log) /\ applied[n] > 0 /\ Lifecycle(n)
    /\ \A m \in 1 .. Len(log) : applied[m] > 0 /\ Lifecycle(m) => m <= n

\* As long as nothing overlaps or overtakes, a delivery has loaded the row that
\* it will write to, and the row is what the last event made it.
RowSound ==
    smooth =>
        /\ \A c, d \in Deliveries : at[c] = "inserted" /\ at[d] = "inserted" => c = d
        /\ \A d \in Deliveries : at[d] = "inserted" =>
             loaded[d] = Skip \/ (loaded[d] = row /\ Lifecycle(event[d]))
        /\ \A m, n \in Numbers : applied[n] > 0 /\ m < n => applied[m] > 0
        /\ unknown = {} => \A n \in Numbers : LastApplied(n) => row = RowFor(n)

IInv == TypeOK /\ LogSound /\ KeysSound /\ CustomersSound /\ RowSound

-----------------------------------------------------------------------------
(* The beginning.                                                           *)

\* Before the first checkout there are no customers, events or deliveries.
LEMMA InitSound == Init => IInv
<1> SUFFICES ASSUME Init PROVE IInv
  OBVIOUS
<1>1. /\ provider \in Providers /\ customer = None /\ checkout = [c \in Checkouts |-> "idle"]
      /\ customerOf = [c \in Checkouts |-> None] /\ crossed = FALSE /\ log = <<>> /\ processed = {}
      /\ row = None /\ at = [d \in Deliveries |-> "idle"] /\ event = [d \in Deliveries |-> 0]
      /\ loaded = [d \in Deliveries |-> Skip] /\ deaths = 0 /\ applied = [n \in Numbers |-> 0]
      /\ unknown = {} /\ smooth = TRUE
  BY DEF Init
<1>2. TypeOK
  <2>1. log \in Seq(Event) /\ Len(log) <= MaxEvents /\ deaths \in 0 .. MaxDeaths
    BY <1>1, BoundsAssumption
  <2>2. crossed \in BOOLEAN /\ smooth \in BOOLEAN
    BY <1>1, Zenon
  <2>3. checkout \in [Checkouts -> {"idle", "started", "done", "dead"}]
    BY <1>1
  <2>4. customerOf \in [Checkouts -> Checkouts \cup {None}]
    BY <1>1
  <2>5. at \in [Deliveries -> {"idle", "looked_up", "inserted"}]
    BY <1>1
  <2>6. event \in [Deliveries -> Numbers \cup {0}] /\ loaded \in [Deliveries -> Row \cup {None, Skip}]
    BY <1>1
  <2>7. applied \in [Numbers -> Nat]
    BY <1>1
  <2>8. QED
    BY <1>1, <2>1, <2>2, <2>3, <2>4, <2>5, <2>6, <2>7 DEF TypeOK
<1>3. LogSound /\ KeysSound
  BY <1>1, NoneAssumption DEF LogSound, KeysSound, AppliedOnce
<1>4. CustomersSound
  BY <1>1 DEF CustomersSound, CustomersAgree
<1>5. RowSound
  BY <1>1 DEF RowSound, LastApplied
<1>6. QED
  BY <1>2, <1>3, <1>4, <1>5 DEF IInv

-----------------------------------------------------------------------------
(* Checkouts.                                                               *)

\* Checkouts touch no event, key or row.
LEMMA CheckoutFrame ==
    ASSUME IInv, UNCHANGED <<provider, log, deliveryVars>>,
           customer' \in Checkouts \cup {None},
           checkout' \in [Checkouts -> {"idle", "started", "done", "dead"}],
           customerOf' \in [Checkouts -> Checkouts \cup {None}],
           crossed' \in BOOLEAN
    PROVE  TypeOK' /\ LogSound' /\ KeysSound' /\ RowSound'
<1> USE DEF deliveryVars
<1>1. TypeOK'
  BY DEF IInv, TypeOK
<1>2. LogSound' /\ KeysSound'
  BY DEF IInv, LogSound, KeysSound, Lifecycle, Payment, AppliedOnce
<1>3. RowSound'
  BY DEF IInv, RowSound, LastApplied, RowFor, Lifecycle, Payment
<1>4. QED
  BY <1>1, <1>2, <1>3

\* A checkout that begins alone uses the organization's customer, or the first
\* (adapters _ensure_customer).
LEMMA StartStep ==
    ASSUME IInv, NEW c \in Checkouts, StartCheckout(c)
    PROVE  IInv'
<1>1. /\ checkout[c] = "idle" /\ checkout' = [checkout EXCEPT ![c] = "started"]
      /\ customerOf' = [customerOf EXCEPT ![c] = EnsureCustomer(c)]
      /\ UNCHANGED <<provider, customer, log, deliveryVars>>
  BY DEF StartCheckout
<1>2. crossed' \in BOOLEAN /\ (~ crossed' => ~ crossed /\ \A b \in Checkouts : checkout[b] # "started")
  BY Zenon DEF StartCheckout
<1>3. EnsureCustomer(c) \in Checkouts \cup {None}
  BY DEF EnsureCustomer, IInv, TypeOK
<1>4. TypeOK' /\ LogSound' /\ KeysSound' /\ RowSound'
  BY <1>1, <1>2, <1>3, CheckoutFrame DEF IInv, TypeOK
<1>5. /\ checkout'[c] = "started" /\ customerOf'[c] = EnsureCustomer(c)
      /\ \A b \in Checkouts : b # c => checkout'[b] = checkout[b] /\ customerOf'[b] = customerOf[b]
  BY <1>1 DEF IInv, TypeOK
<1>6. CustomersSound'
  <2> SUFFICES ASSUME provider = "stripe", ~ crossed' PROVE CustomersAgree'
    BY <1>1 DEF CustomersSound
  <2>1. CustomersAgree /\ \A b \in Checkouts : checkout[b] # "started"
    BY <1>2 DEF IInv, CustomersSound
  <2>2. \A b \in Checkouts : EnsureCustomer(b)' = EnsureCustomer(b)
    BY <1>1 DEF EnsureCustomer
  <2>3. \A n \in 1 .. Len(log) : log[n].sub \in Checkouts
    BY DEF IInv, LogSound, Event
  <2>4. QED
    BY <1>1, <1>5, <2>1, <2>2, <2>3 DEF CustomersAgree, deliveryVars, Lifecycle, Payment
<1>7. QED
  BY <1>4, <1>6 DEF IInv

\* A checkout that ends alone leaves its customer the organization's (router.py
\* create_checkout_session), and one that dies leaves nothing.
LEMMA EndStep ==
    ASSUME IInv, NEW c \in Checkouts, CommitCheckout(c) \/ DieInCheckout(c)
    PROVE  IInv'
<1>1. /\ checkout[c] = "started" /\ UNCHANGED <<provider, customerOf, crossed, log, deliveryVars>>
      /\ \/ /\ checkout' = [checkout EXCEPT ![c] = "done"]
            /\ customer' = IF customerOf[c] = c THEN c ELSE customer
         \/ checkout' = [checkout EXCEPT ![c] = "dead"] /\ customer' = customer
  BY DEF CommitCheckout, DieInCheckout
<1>2. customer' \in Checkouts \cup {None} /\ None \notin Checkouts
  BY <1>1, NoneAssumption DEF IInv, TypeOK
<1>3. TypeOK' /\ LogSound' /\ KeysSound' /\ RowSound'
  BY <1>1, <1>2, CheckoutFrame DEF IInv, TypeOK
<1>4. checkout'[c] \in {"done", "dead"} /\ \A b \in Checkouts : b # c => checkout'[b] = checkout[b]
  BY <1>1 DEF IInv, TypeOK
<1>5. CustomersSound'
  <2> SUFFICES ASSUME provider = "stripe", ~ crossed PROVE CustomersAgree'
    BY <1>1 DEF CustomersSound
  <2>1. CustomersAgree
    BY DEF IInv, CustomersSound
  <2>2. customerOf[c] = EnsureCustomer(c) /\ \A b \in Checkouts : b # c => checkout'[b] # "started"
    BY <1>1, <1>4, <2>1 DEF CustomersAgree
  <2>3. customer # None => customer' = customer
    BY <1>1, <2>2 DEF EnsureCustomer
  <2>4. checkout'[c] = "done" => customer' # None /\ customerOf[c] = customer'
    BY <1>1, <1>2, <1>4, <2>2 DEF EnsureCustomer, IInv, TypeOK
  <2>5. \A b \in Checkouts :
          checkout'[b] = "done" => customer' # None /\ customerOf[b] = customer'
    BY <1>4, <2>1, <2>3, <2>4 DEF CustomersAgree
  <2>6. \A n \in 1 .. Len(log) : checkout'[log[n].sub] = "done"
    BY <1>1, <1>4, <2>1 DEF CustomersAgree, IInv, LogSound, Event
  <2>7. \A d \in Deliveries : at'[d] = "inserted" /\ Lifecycle(event[d])' => loaded'[d] # Skip
    BY <1>1, <2>1 DEF CustomersAgree, deliveryVars, Lifecycle, Payment
  <2>8. QED
    BY <1>1, <1>4, <2>1, <2>2, <2>5, <2>6, <2>7 DEF CustomersAgree, deliveryVars
<1>6. QED
  BY <1>3, <1>5 DEF IInv

-----------------------------------------------------------------------------
(* The provider.                                                            *)

\* A new event is nobody's yet, and changes nothing of the older ones.
LEMMA SendStep ==
    ASSUME IInv, NEW c \in Checkouts, Emit(c) \/ Cancel(c)
    PROVE  IInv'
<1>1. PICK said \in Says[provider], sameSecond \in BOOLEAN : Send(c, said, sameSecond)
  BY DEF Emit, Cancel
<1> DEFINE e == [id |-> Len(log) + 1, name |-> said.name, sub |-> c, status |-> said.status,
                 price |-> said.price,
                 second |-> IF log = <<>> THEN 0
                            ELSE log[Len(log)].second + (IF sameSecond THEN 0 ELSE 1)]
<1>2. /\ Len(log) < MaxEvents /\ log' = Append(log, e)
      /\ UNCHANGED <<provider, checkoutVars, deliveryVars>>
  BY <1>1 DEF Send
<1>3. log \in Seq(Event) /\ Len(log) \in Nat
  BY DEF IInv, TypeOK
<1>4. e \in Event /\ e.name \in EventNames[provider] /\ e.sub = c
  <2>1. said \in [name : EventNames[provider], status : Statuses, price : Prices]
    BY SaysAssumption DEF IInv, TypeOK
  <2>2. EventNames[provider] \subseteq UNION {EventNames[p] : p \in Providers}
    BY DEF IInv, TypeOK
  <2>3. e.second \in Nat
    <3>1. CASE log = <<>>
      BY <3>1
    <3>2. CASE log # <<>>
      <4>1. log[Len(log)] \in Event
        BY <1>3, <3>2
      <4>2. QED
        BY <3>2, <4>1 DEF Event
    <3>3. QED
      BY <3>1, <3>2
  <2>4. QED
    BY <1>3, <2>1, <2>2, <2>3 DEF Event
<1> HIDE DEF e
<1>5. /\ Len(log') = Len(log) + 1 /\ log' \in Seq(Event) /\ log'[Len(log) + 1] = e
      /\ \A n \in 1 .. Len(log) : log'[n] = log[n]
  BY <1>2, <1>3, <1>4
<1>6. TypeOK'
  BY <1>2, <1>3, <1>5, BoundsAssumption DEF IInv, TypeOK, checkoutVars, deliveryVars
<1>7. LogSound'
  BY <1>2, <1>3, <1>4, <1>5 DEF IInv, LogSound
<1>8. \A n \in 1 .. Len(log) :
        Payment(n)' = Payment(n) /\ (Lifecycle(n)' <=> Lifecycle(n)) /\ RowFor(n)' = RowFor(n)
  BY <1>2, <1>5 DEF Payment, Lifecycle, RowFor
<1>9. \A n \in Numbers : applied[n] > 0 => n \in 1 .. Len(log)
  BY <1>3 DEF IInv, KeysSound, Numbers
<1>10. KeysSound'
  BY <1>2, <1>3, <1>5, <1>8, <1>9 DEF IInv, KeysSound, AppliedOnce, deliveryVars
<1>11. c \in Checkouts /\ (provider = "stripe" => checkout[c] = "done")
  BY DEF Emit, Cancel, Subscribed, StripeLists
<1>12. CustomersSound'
  <2> SUFFICES ASSUME provider = "stripe", ~ crossed PROVE CustomersAgree'
    BY <1>2 DEF CustomersSound, checkoutVars
  <2>1. CustomersAgree
    BY DEF IInv, CustomersSound
  <2>2. \A n \in 1 .. Len(log') : checkout[log'[n].sub] = "done"
    BY <1>3, <1>4, <1>5, <1>11, <2>1 DEF CustomersAgree
  <2>3. \A d \in Deliveries : at[d] = "inserted" /\ Lifecycle(event[d])' => loaded[d] # Skip
    BY <1>2, <1>8, <2>1 DEF CustomersAgree, IInv, KeysSound, deliveryVars
  <2>4. QED
    BY <1>2, <2>1, <2>2, <2>3 DEF CustomersAgree, EnsureCustomer, checkoutVars, deliveryVars
<1>13. RowSound'
  <2> SUFFICES ASSUME smooth PROVE RowSound'
    BY <1>2 DEF RowSound, deliveryVars
  <2>1. \A n \in Numbers : LastApplied(n)' => LastApplied(n) /\ n \in 1 .. Len(log)
    BY <1>2, <1>3, <1>5, <1>8, <1>9 DEF LastApplied, deliveryVars
  <2>2. QED
    BY <1>2, <1>8, <2>1 DEF IInv, RowSound, KeysSound, deliveryVars
<1>14. QED
  BY <1>6, <1>7, <1>10, <1>12, <1>13 DEF IInv

-----------------------------------------------------------------------------
(* Deliveries.                                                              *)

\* What is known of an event stays known while the log does not change.
LEMMA SameEvents ==
    ASSUME UNCHANGED <<provider, log>>
    PROVE  \A n : /\ Payment(n)' = Payment(n) /\ (Lifecycle(n)' <=> Lifecycle(n))
                 /\ RowFor(n)' = RowFor(n)
BY DEF Payment, Lifecycle, RowFor

\* A delivery that is answered 5xx or dies gives its key back (router.py
\* payments_webhook, the session's rollback).
LEMMA ReleaseStep ==
    ASSUME IInv, NEW d \in Deliveries, InsertConflict(d) \/ CommitConflict(d) \/ Die(d)
    PROVE  IInv'
<1>1. /\ UNCHANGED <<provider, checkoutVars, log, processed, row, applied, unknown, smooth>>
      /\ Finish(d)
      /\ deaths' = deaths \/ (deaths < MaxDeaths /\ deaths' = deaths + 1)
  BY DEF InsertConflict, CommitConflict, Die
<1>2. /\ at'[d] = "idle" /\ \A c \in Deliveries :
                               c # d => at'[c] = at[c] /\ event'[c] = event[c] /\ loaded'[c] = loaded[c]
      /\ loaded'[d] = Skip
      /\ at' \in [Deliveries -> {"idle", "looked_up", "inserted"}]
      /\ event' \in [Deliveries -> Numbers \cup {0}]
      /\ loaded' \in [Deliveries -> Row \cup {None, Skip}]
  BY <1>1 DEF Finish, Goto, IInv, TypeOK
<1>3. \A c \in Deliveries : at'[c] # "idle" =>
        c # d /\ at'[c] = at[c] /\ event'[c] = event[c] /\ loaded'[c] = loaded[c]
  BY <1>2
<1>4. deaths' \in 0 .. MaxDeaths
  BY <1>1, BoundsAssumption DEF IInv, TypeOK
<1>5. TypeOK' /\ LogSound'
  BY <1>1, <1>2, <1>4 DEF IInv, TypeOK, LogSound, checkoutVars
<1>6. KeysSound'
  BY <1>1, <1>2, <1>3, SameEvents, NoneAssumption DEF IInv, KeysSound, AppliedOnce
<1>7. CustomersSound'
  BY <1>1, <1>3, SameEvents DEF IInv, CustomersSound, CustomersAgree, EnsureCustomer, checkoutVars
<1>8. RowSound'
  BY <1>1, <1>3, SameEvents DEF IInv, RowSound, LastApplied
<1>9. QED
  BY <1>5, <1>6, <1>7, <1>8 DEF IInv

\* A delivery that has only looked for its key owns nothing.
LEMMA ReceiveStep ==
    ASSUME IInv, NEW d \in Deliveries, NEW n \in Numbers, Receive(d, n)
    PROVE  IInv'
<1>1. /\ UNCHANGED <<provider, checkoutVars, log, processed, row, loaded, deaths, applied, unknown,
                     smooth>>
      /\ n \in 1 .. Len(log) /\ Goto(d, "looked_up") /\ event' = [event EXCEPT ![d] = n]
  BY DEF Receive
<1>2. /\ at'[d] = "looked_up" /\ event'[d] = n
      /\ \A c \in Deliveries : c # d => at'[c] = at[c] /\ event'[c] = event[c]
  BY <1>1 DEF Goto, IInv, TypeOK
<1>3. TypeOK' /\ LogSound'
  BY <1>1 DEF IInv, TypeOK, LogSound, Goto, checkoutVars
<1>4. KeysSound'
  BY <1>1, <1>2, SameEvents DEF IInv, KeysSound, AppliedOnce
<1>5. CustomersSound'
  BY <1>1, <1>2, SameEvents DEF IInv, CustomersSound, CustomersAgree, EnsureCustomer, checkoutVars
<1>6. RowSound'
  BY <1>1, <1>2, SameEvents DEF IInv, RowSound, LastApplied
<1>7. QED
  BY <1>3, <1>4, <1>5, <1>6 DEF IInv

\* The primary key lets one delivery of an event past its INSERT, and what that
\* loads is the row as it stands (router.py payments_webhook,
\* _sync_subscription).
LEMMA InsertStep ==
    ASSUME IInv, NEW d \in Deliveries, Insert(d)
    PROVE  IInv'
<1> DEFINE found == IF Lifecycle(event[d]) /\ Known(event[d]) THEN row ELSE Skip
<1>1. /\ at[d] = "looked_up" /\ Payment(event[d]).id \notin processed
      /\ ~ Inserted(Payment(event[d]).id)
      /\ Goto(d, "inserted") /\ loaded' = [loaded EXCEPT ![d] = found]
      /\ UNCHANGED <<provider, checkoutVars, log, processed, row, event, deaths, applied, unknown>>
  BY DEF Insert
<1>2. smooth' \in BOOLEAN /\ (smooth' => smooth /\ \A q \in Deliveries : at[q] # "inserted")
  BY Zenon DEF Insert, IInv, TypeOK
<1>3. /\ found \in Row \cup {None, Skip} /\ row # Skip
      /\ event[d] \in 1 .. Len(log)
      /\ found = Skip \/ (found = row /\ Lifecycle(event[d]))
  BY <1>1, NoneAssumption DEF IInv, TypeOK, KeysSound
<1>4. customer # None /\ customerOf[log[event[d]].sub] = customer /\ Lifecycle(event[d])
        => found # Skip
  BY <1>3 DEF Known
<1> HIDE DEF found
<1>5. /\ at'[d] = "inserted" /\ loaded'[d] = found
      /\ \A c \in Deliveries : c # d => at'[c] = at[c] /\ loaded'[c] = loaded[c]
  BY <1>1 DEF Goto, IInv, TypeOK
<1>6. TypeOK' /\ LogSound'
  BY <1>1, <1>2, <1>3 DEF IInv, TypeOK, LogSound, Goto, checkoutVars
<1>7. KeysSound'
  <2>1. \A c \in Deliveries : at[c] = "inserted" => Payment(event[c]).id # Payment(event[d]).id
    BY <1>1 DEF Inserted
  <2>2. found \in Row => row # None
    BY <1>3, NoneAssumption
  <2>3. QED
    BY <1>1, <1>3, <1>5, <2>1, <2>2, SameEvents DEF IInv, KeysSound, AppliedOnce
<1>8. CustomersSound'
  <2> SUFFICES ASSUME provider = "stripe", ~ crossed PROVE CustomersAgree'
    BY <1>1 DEF CustomersSound, checkoutVars
  <2>1. CustomersAgree
    BY DEF IInv, CustomersSound
  <2>2. Lifecycle(event[d]) => found # Skip
    BY <1>3, <1>4, <2>1 DEF CustomersAgree, IInv, LogSound, Event
  <2>3. QED
    BY <1>1, <1>5, <2>1, <2>2, SameEvents DEF CustomersAgree, EnsureCustomer, checkoutVars
<1>9. RowSound'
  <2> SUFFICES ASSUME smooth' PROVE RowSound'
    BY DEF RowSound
  <2>1. smooth /\ \A c \in Deliveries : at'[c] = "inserted" => c = d
    BY <1>2, <1>5
  <2>2. QED
    BY <1>1, <1>3, <1>5, <2>1, SameEvents DEF IInv, RowSound, LastApplied
<1>10. QED
  BY <1>6, <1>7, <1>8, <1>9 DEF IInv

\* An UPDATE of a row that nobody changed meanwhile writes what the event says,
\* and of any row leaves a row (router.py _sync_subscription).
LEMMA SyncedRow ==
    ASSUME NEW old \in Row, NEW current \in Row, NEW new \in Row
    PROVE  Synced(old, current, new) \in Row /\ (old = current => Synced(old, current, new) = new)
<1>1. DOMAIN new = {"sub", "status", "plan"}
  BY DEF Row
<1>2. Synced(old, current, new) =
        [sub |-> IF old.sub = new.sub THEN current.sub ELSE new.sub,
         status |-> IF old.status = new.status THEN current.status ELSE new.status,
         plan |-> IF old.plan = new.plan THEN current.plan ELSE new.plan]
  BY <1>1 DEF Synced
<1>3. new = [sub |-> new.sub, status |-> new.status, plan |-> new.plan]
  BY DEF Row
<1>4. QED
  BY <1>2, <1>3 DEF Row

\* The commit leaves the key, counts the event once and, if nothing crossed it,
\* the row that the event makes.
LEMMA CommitStep ==
    ASSUME IInv, NEW d \in Deliveries, Commit(d)
    PROVE  IInv'
<1> DEFINE n == event[d]
<1>1. /\ at[d] = "inserted" /\ ~ (loaded[d] = None /\ row # None)
      /\ Finish(d) /\ CommitOf(n, d) /\ UNCHANGED <<provider, checkoutVars, log, deaths>>
  BY DEF Commit
<1>2. /\ n \in 1 .. Len(log) /\ n \in Numbers /\ Payment(n).id \notin processed
      /\ loaded[d] \in Row \cup {None, Skip} /\ row \in Row \cup {None}
      /\ (loaded[d] \in Row => row # None)
  BY <1>1 DEF IInv, TypeOK, KeysSound, Numbers
<1>3. RowFor(n) \in Row /\ None \notin Row /\ Skip \notin Row /\ Skip # None
  BY <1>2, Normalized, NoneAssumption DEF IInv
<1>4. applied[n] = 0 /\ applied' = [applied EXCEPT ![n] = applied[n] + 1]
  BY <1>1, <1>2 DEF CommitOf, IInv, TypeOK, KeysSound
<1>5. processed' = processed \cup {Payment(n).id}
  BY <1>1 DEF CommitOf
<1>6. /\ (loaded[d] = Skip => row' = row)
      /\ (loaded[d] = None => row' = RowFor(n))
      /\ (loaded[d] \in Row => row' = Synced(loaded[d], row, RowFor(n)))
  BY <1>1, <1>3 DEF CommitOf, RowFor
<1>7. unknown' = IF loaded[d] = Skip /\ Lifecycle(n) THEN unknown \cup {n} ELSE unknown
  BY <1>1 DEF CommitOf
<1>8. smooth' \in BOOLEAN /\ (smooth' => smooth /\ \A m \in 1 .. n - 1 : applied[m] > 0)
  BY <1>1, Zenon DEF CommitOf, IInv, TypeOK
<1>9. /\ at'[d] = "idle" /\ loaded'[d] = Skip
      /\ \A c \in Deliveries :
           c # d => at'[c] = at[c] /\ event'[c] = event[c] /\ loaded'[c] = loaded[c]
      /\ at' \in [Deliveries -> {"idle", "looked_up", "inserted"}]
      /\ event' \in [Deliveries -> Numbers \cup {0}]
      /\ loaded' \in [Deliveries -> Row \cup {None, Skip}]
  BY <1>1 DEF Finish, Goto, IInv, TypeOK
<1> HIDE DEF n
<1>10. row' \in Row \cup {None} /\ (row # None => row' # None)
  BY <1>2, <1>3, <1>6, SyncedRow
<1>11. /\ applied' \in [Numbers -> Nat] /\ applied'[n] = 1
       /\ \A m \in Numbers : m # n => applied'[m] = applied[m]
  BY <1>2, <1>4 DEF IInv, TypeOK
<1>12. TypeOK' /\ LogSound'
  BY <1>1, <1>2, <1>7, <1>8, <1>9, <1>10, <1>11 DEF IInv, TypeOK, LogSound, checkoutVars
<1>13. KeysSound'
  <2>1. \A c \in Deliveries : c # d /\ at[c] = "inserted" => Payment(event[c]).id # Payment(n).id
    BY <1>1 DEF IInv, KeysSound, n
  <2>2. \A m \in Numbers : applied'[m] > 0 =>
          m <= Len(log) /\ Payment(m).id \in processed' /\ applied'[m] <= 1
    BY <1>2, <1>5, <1>11 DEF IInv, KeysSound, AppliedOnce
  <2>3. \A m \in Numbers : applied'[m] <= 1
    BY <1>11 DEF IInv, KeysSound, AppliedOnce
  <2>4. \A c \in Deliveries : loaded'[c] \in Row => row' # None
    BY <1>3, <1>9, <1>10 DEF IInv, KeysSound
  <2>5. \A c \in Deliveries : at'[c] # "idle" =>
          c # d /\ at[c] = at'[c] /\ event'[c] = event[c] /\ loaded'[c] = loaded[c]
    BY <1>9
  <2>6. QED
    BY <1>1, <1>5, <2>1, <2>2, <2>3, <2>4, <2>5, SameEvents DEF IInv, KeysSound, AppliedOnce
<1>14. CustomersSound'
  <2> SUFFICES ASSUME provider = "stripe", ~ crossed PROVE CustomersAgree'
    BY <1>1 DEF CustomersSound, checkoutVars
  <2>1. CustomersAgree
    BY DEF IInv, CustomersSound
  <2>2. unknown' = {}
    BY <1>1, <1>7, <2>1 DEF CustomersAgree, n
  <2>3. \A c \in Deliveries : at'[c] = "inserted" =>
          c # d /\ at[c] = "inserted" /\ event'[c] = event[c] /\ loaded'[c] = loaded[c]
    BY <1>9
  <2>4. QED
    BY <1>1, <2>1, <2>2, <2>3, SameEvents DEF CustomersAgree, EnsureCustomer, checkoutVars
<1>15. RowSound'
  <2> SUFFICES ASSUME smooth' PROVE RowSound'
    BY DEF RowSound
  <2>1. /\ smooth /\ (\A m \in 1 .. n - 1 : applied[m] > 0)
        /\ \A c \in Deliveries : at'[c] # "inserted"
        /\ loaded[d] = Skip \/ (loaded[d] = row /\ Lifecycle(n))
    BY <1>1, <1>8, <1>9 DEF IInv, RowSound, n
  <2>2. \A k \in Numbers : applied[k] > 0 => k < n
    <3> SUFFICES ASSUME NEW k \in Numbers, applied[k] > 0 PROVE k < n
      OBVIOUS
    <3>1. k # n /\ ~ (n < k)
      BY <1>2, <1>4, <2>1 DEF IInv, RowSound
    <3>2. QED
      BY <1>2, <3>1 DEF Numbers
  <2>3. \A m, k \in Numbers : applied'[k] > 0 /\ m < k => applied'[m] > 0
    BY <1>2, <1>11, <2>1, <2>2 DEF IInv, RowSound, Numbers
  <2>4. ASSUME unknown' = {}, NEW k \in Numbers, LastApplied(k)' PROVE row' = RowFor(k)'
    <3>1. /\ k \in 1 .. Len(log) /\ applied'[k] > 0 /\ Lifecycle(k)
          /\ \A m \in 1 .. Len(log) : applied'[m] > 0 /\ Lifecycle(m) => m <= k
      BY <1>1, <2>4, SameEvents DEF LastApplied
    <3>2. CASE Lifecycle(n)
      <4>1. k = n
        BY <1>2, <1>11, <2>2, <3>1, <3>2 DEF Numbers
      <4>2. loaded[d] = row /\ loaded[d] # Skip
        BY <1>7, <2>1, <2>4, <3>2
      <4>3. row' = RowFor(n)
        BY <1>2, <1>3, <1>6, <4>2, SyncedRow
      <4>4. QED
        BY <1>1, <4>1, <4>3, SameEvents
    <3>3. CASE ~ Lifecycle(n)
      <4>1. row' = row /\ unknown = {}
        BY <1>6, <1>7, <2>1, <2>4, <3>3
      <4>2. k # n
        BY <3>1, <3>3
      <4>3. LastApplied(k)
        BY <1>2, <1>4, <1>11, <3>1, <3>3, <4>2, Numbered DEF LastApplied, IInv
      <4>4. QED
        BY <1>1, <2>1, <4>1, <4>3, SameEvents DEF IInv, RowSound
    <3>4. QED
      BY <3>2, <3>3
  <2>5. QED
    BY <2>1, <2>3, <2>4 DEF RowSound
<1>16. QED
  BY <1>12, <1>13, <1>14, <1>15 DEF IInv

-----------------------------------------------------------------------------
(* Theorems.                                                                *)

\* Every step of a checkout, the provider or a delivery keeps the invariant.
THEOREM Inductive == Spec => []IInv
<1>1. Init => IInv
  BY InitSound
<1>2. IInv /\ [Next]_vars => IInv'
  <2> SUFFICES ASSUME IInv, [Next]_vars PROVE IInv'
    OBVIOUS
  <2>1. ASSUME NEW c \in Checkouts,
               \/ StartCheckout(c) \/ CommitCheckout(c) \/ DieInCheckout(c)
               \/ Emit(c) \/ Cancel(c)
        PROVE  IInv'
    BY <2>1, StartStep, EndStep, SendStep
  <2>2. ASSUME NEW d \in Deliveries,
               \/ \E n \in Numbers : Receive(d, n)
               \/ Insert(d) \/ InsertConflict(d) \/ Commit(d) \/ CommitConflict(d) \/ Die(d)
        PROVE  IInv'
    BY <2>2, ReceiveStep, InsertStep, CommitStep, ReleaseStep
  <2>3. CASE UNCHANGED vars
    <3>1. UNCHANGED <<provider, log>>
      BY <2>3 DEF vars
    <3>2. TypeOK' /\ LogSound'
      BY <2>3 DEF vars, checkoutVars, deliveryVars, IInv, TypeOK, LogSound
    <3>3. KeysSound' /\ RowSound'
      BY <2>3, <3>1, SameEvents DEF vars, deliveryVars, IInv, KeysSound, AppliedOnce, RowSound,
                                    LastApplied
    <3>4. CustomersSound'
      BY <2>3, <3>1, SameEvents DEF vars, checkoutVars, deliveryVars, IInv, CustomersSound,
                                    CustomersAgree, EnsureCustomer
    <3>5. QED
      BY <3>2, <3>3, <3>4 DEF IInv
  <2>4. QED
    BY <2>1, <2>2, <2>3 DEF Next
<1>3. QED
  BY <1>1, <1>2, PTL DEF Spec

\* Customers, events, rows and deliveries keep to their types (models.py
\* Subscription).
THEOREM TypeCorrect == Spec => []TypeOK
<1>1. IInv => TypeOK
  BY DEF IInv
<1>2. QED
  BY <1>1, Inductive, PTL

\* No event is committed twice, for any number of deliveries and deaths
\* (models.py ProcessedEvent, router.py payments_webhook).
THEOREM Once == Spec => []AppliedOnce
<1>1. IInv => AppliedOnce
  BY DEF IInv, KeysSound
<1>2. QED
  BY <1>1, Inductive, PTL

\* No event of Stripe's is lost for want of its customer unless two checkouts
\* overlapped (adapters/stripe.py _ensure_customer, router.py
\* create_checkout_session).
THEOREM Kept == Spec => []NothingLost
<1>1. IInv => NothingLost
  BY DEF IInv, CustomersSound, CustomersAgree, NothingLost
<1>2. QED
  BY <1>1, Inductive, PTL

\* When every event has been applied in its turn the organization has what the
\* provider's last word says (router.py _sync_subscription, entitlements.py).
THEOREM Mirrors == Spec => []MirrorsProvider
<1>1. IInv => MirrorsProvider
  <2> SUFFICES ASSUME IInv, smooth, unknown = {}, \A m \in 1 .. Len(log) : applied[m] > 0,
                      NEW n \in 1 .. Len(log),
                      log[n].name \notin {"invoice_paid", "payment_captured"},
                      \A m \in 1 .. Len(log) :
                        log[m].name \notin {"invoice_paid", "payment_captured"} => m <= n
               PROVE  Granted = Due(log[n])
    BY DEF MirrorsProvider
  <2>1. \A m \in 1 .. Len(log) :
          Lifecycle(m) <=> log[m].name \notin {"invoice_paid", "payment_captured"}
    BY Normalized DEF IInv
  <2>2. LastApplied(n) /\ n \in Numbers
    BY <2>1, Numbered DEF LastApplied, IInv
  <2>3. row = RowFor(n)
    BY <2>2 DEF IInv, RowSound
  <2>4. QED
    BY <2>3, GrantedIsDue DEF IInv
<1>2. QED
  BY <1>1, Inductive, PTL

-----------------------------------------------------------------------------
(* The inbox.                                                               *)

\* What was sent reads the same while the log does not change.
LEMMA SameSent ==
    ASSUME UNCHANGED <<provider, log>>
    PROVE  Sent' = Sent
BY SameEvents DEF Sent

\* A checkout and the deliveries' steps before the commit are none of the
\* inbox's.
LEMMA IdleStep ==
    ASSUME UNCHANGED <<provider, log, processed, applied, row>>
    PROVE  UNCHANGED <<Sent, processed, applied, row>>
BY SameSent

\* A new event is sent, and those before it stay (adapters verify_webhook).
LEMMA SendSends ==
    ASSUME IInv, NEW c \in Checkouts, Emit(c) \/ Cancel(c)
    PROVE  I!Send
<1>1. PICK said \in Says[provider], sameSecond \in BOOLEAN : Send(c, said, sameSecond)
  BY DEF Emit, Cancel
<1>2. PICK e : log' = Append(log, e)
  BY <1>1 DEF Send
<1>3. UNCHANGED <<provider, processed, applied, row>>
  BY <1>1 DEF Send, deliveryVars
<1>4. log \in Seq(Event) /\ Len(log) \in Nat
  BY DEF IInv, TypeOK
<1>5. Len(log') = Len(log) + 1 /\ \A n \in 1 .. Len(log) : log'[n] = log[n]
  BY <1>2, <1>4
<1>6. DOMAIN Sent = 1 .. Len(log) /\ DOMAIN Sent' = 1 .. Len(log')
  BY DEF Sent
<1>7. \A n \in 1 .. Len(log) : Sent'[n] = Sent[n]
  <2> SUFFICES ASSUME NEW n \in 1 .. Len(log) PROVE Sent'[n] = Sent[n]
    OBVIOUS
  <2>1. Payment(n)' = Payment(n) /\ (Lifecycle(n)' <=> Lifecycle(n)) /\ RowFor(n)' = RowFor(n)
    BY <1>3, <1>5 DEF Payment, Lifecycle, RowFor
  <2>2. n \in 1 .. Len(log')
    BY <1>4, <1>5
  <2>3. QED
    BY <2>1, <2>2 DEF Sent
<1>8. DOMAIN Sent \subseteq DOMAIN Sent'
  BY <1>4, <1>5, <1>6
<1>9. QED
  BY <1>3, <1>6, <1>7, <1>8 DEF I!Send

\* A commit heeds its event: the key is new, and the row takes columns of the
\* event or stays (router.py payments_webhook, _sync_subscription).
LEMMA CommitHeeds ==
    ASSUME IInv, NEW d \in Deliveries, Commit(d)
    PROVE  I!Heed(event[d]) /\ event[d] \in DOMAIN Sent
<1> DEFINE n == event[d]
<1>1. /\ at[d] = "inserted" /\ ~ (loaded[d] = None /\ row # None)
      /\ CommitOf(n, d) /\ UNCHANGED <<provider, log>>
  BY DEF Commit
<1>2. /\ n \in 1 .. Len(log) /\ Payment(n).id \notin processed
      /\ loaded[d] \in Row \cup {None, Skip} /\ row \in Row \cup {None}
      /\ (loaded[d] \in Row => row # None)
      /\ (loaded[d] # Skip => Lifecycle(n))
  BY <1>1 DEF IInv, TypeOK, KeysSound
<1>3. RowFor(n) \in Row /\ None \notin Row /\ Skip \notin Row /\ Skip # None
  BY <1>2, Normalized, NoneAssumption DEF IInv
<1>4. /\ (loaded[d] = Skip => row' = row)
      /\ (loaded[d] = None => row' = RowFor(n))
      /\ (loaded[d] \in Row => row' = Synced(loaded[d], row, RowFor(n)))
      /\ processed' = processed \cup {Payment(n).id} /\ applied' = [applied EXCEPT ![n] = @ + 1]
  BY <1>1, <1>3 DEF CommitOf
<1> HIDE DEF n
<1>5. /\ n \in DOMAIN Sent /\ Sent[n].key = Payment(n).id
      /\ Sent[n].says = IF Lifecycle(n) THEN RowFor(n) ELSE None
  BY <1>2 DEF Sent
<1>6. CASE loaded[d] = Skip
  BY <1>1, <1>2, <1>4, <1>5, <1>6, SameSent DEF I!Heed, n
<1>7. CASE loaded[d] # Skip
  <2>1. Sent[n].says = RowFor(n)
    BY <1>2, <1>5, <1>7
  <2>2. I!Take(RowFor(n))
    <3>1. CASE loaded[d] = None
      BY <1>1, <1>3, <1>4, <3>1 DEF I!Take
    <3>2. CASE loaded[d] \in Row
      <4>1. row' = Synced(loaded[d], row, RowFor(n)) /\ row \in Row /\ row' \in Row
        BY <1>2, <1>3, <1>4, <3>2, SyncedRow
      <4>2. /\ DOMAIN row' = DOMAIN RowFor(n)
            /\ \A k \in DOMAIN RowFor(n) : row'[k] \in {row[k], RowFor(n)[k]}
        BY <4>1 DEF Synced
      <4>3. QED
        BY <1>3, <4>1, <4>2 DEF I!Take
    <3>3. QED
      BY <1>2, <1>7, <3>1, <3>2
  <2>3. QED
    BY <1>1, <1>2, <1>4, <1>5, <2>1, <2>2, SameSent DEF I!Heed, n
<1>8. QED
  BY <1>5, <1>6, <1>7 DEF n

\* The webhook implements the inbox: whatever overlaps, comes again, conflicts
\* or dies, an event is heeded once, and the row is changed by nothing else
\* (models.py ProcessedEvent, router.py payments_webhook).
THEOREM IsInbox == Spec => ImplementsInbox
<1>1. Init => I!Init
  <2> SUFFICES ASSUME Init PROVE I!Init
    OBVIOUS
  <2>1. DOMAIN Sent = 1 .. 0 /\ 1 .. 0 = {}
    BY DEF Init, Sent
  <2>2. applied = [n \in Numbers |-> 0] /\ processed = {} /\ row = None
    BY DEF Init
  <2>3. QED
    BY <2>1, <2>2 DEF I!Init
<1>2. IInv /\ [Next]_vars => [I!Next]_<<Sent, processed, applied, row>>
  <2> SUFFICES ASSUME IInv, [Next]_vars
               PROVE  I!Next \/ UNCHANGED <<Sent, processed, applied, row>>
    OBVIOUS
  <2>1. ASSUME NEW c \in Checkouts, StartCheckout(c) \/ CommitCheckout(c) \/ DieInCheckout(c)
        PROVE  UNCHANGED <<Sent, processed, applied, row>>
    BY <2>1, IdleStep DEF StartCheckout, CommitCheckout, DieInCheckout, deliveryVars
  <2>2. ASSUME NEW c \in Checkouts, Emit(c) \/ Cancel(c)
        PROVE  I!Next
    BY <2>2, SendSends DEF I!Next
  <2>3. ASSUME NEW d \in Deliveries,
               \/ \E n \in Numbers : Receive(d, n)
               \/ Insert(d) \/ InsertConflict(d) \/ CommitConflict(d) \/ Die(d)
        PROVE  UNCHANGED <<Sent, processed, applied, row>>
    BY <2>3, IdleStep DEF Receive, Insert, InsertConflict, CommitConflict, Die
  <2>4. ASSUME NEW d \in Deliveries, Commit(d)
        PROVE  I!Next
    BY <2>4, CommitHeeds DEF I!Next
  <2>5. CASE UNCHANGED vars
    BY <2>5, IdleStep DEF vars, deliveryVars
  <2>6. QED
    BY <2>1, <2>2, <2>3, <2>4, <2>5 DEF Next
<1>3. QED
  BY <1>1, <1>2, Inductive, PTL DEF Spec, ImplementsInbox, I!Spec
=============================================================================
