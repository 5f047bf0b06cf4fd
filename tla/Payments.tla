------------------------------ MODULE Payments ------------------------------
(***************************************************************************)
(* The payment adapters (app/billing/adapters/stripe.py and razorpay.py,   *)
(* behind ports.py) and the entitlements (entitlements.py): what is made   *)
(* of a provider's webhook event, and what a plan grants.                  *)
(*                                                                         *)
(* A raw event is a record: its name (without "customer.subscription." or  *)
(* "subscription."), the subscription it is about, the status and price of *)
(* that in the provider's words, its unique id, and the second in which it *)
(* was created.                                                            *)
(***************************************************************************)
EXTENDS Naturals

\* The keys of provider._PROVIDERS.
Providers == {"stripe", "razorpay"}

SubscriptionEvents == {"created", "updated", "deleted"}

\* The type that maps, sets of names by type, give a name.
Lookup(maps, name) ==
    IF \E t \in SubscriptionEvents : name \in maps[t]
    THEN CHOOSE t \in SubscriptionEvents : name \in maps[t]
    ELSE "ignored"

-----------------------------------------------------------------------------
(* Stripe                                                                   *)

StripeEventMap ==
    [created |-> {"created"}, updated |-> {"updated"}, deleted |-> {"deleted"}]

\* The plan -> price settings, inverted; a price no plan is configured for is
\* taken for the free plan.
PriceToPlan(price) ==
    CASE price = "price_pro" -> "pro"
      [] price = "price_enterprise" -> "enterprise"
      [] OTHER -> "free"

StripeEvent(raw) ==
    [id |-> <<raw.id>>, type |-> Lookup(StripeEventMap, raw.name), sub |-> raw.sub,
     status |-> raw.status, plan |-> PriceToPlan(raw.price)]

-----------------------------------------------------------------------------
(* Razorpay                                                                 *)

\* Slip: no event stands for the end of a subscription that is cancelled.
RazorpayEventMapShort ==
    [created |-> {"activated"},
     updated |-> {"authenticated", "charged", "updated", "pending", "halted", "paused", "resumed"},
     deleted |-> {"completed", "expired"}]

RazorpayEventMap ==
    [created |-> {"activated"},
     updated |-> {"authenticated", "charged", "updated", "pending", "halted", "paused", "resumed"},
     deleted |-> {"cancelled", "completed", "expired"}]

NormalizeStatus(status) == IF status = "cancelled" THEN "canceled" ELSE status

PlanIdToPlan(planId) ==
    CASE planId = "price_pro" -> "pro"
      [] planId = "price_enterprise" -> "enterprise"
      [] OTHER -> "free"

\* The body has no event id: the key is made of what it has.
RazorpayEvent(raw) ==
    [id |-> <<raw.name, raw.sub, raw.second>>, type |-> Lookup(RazorpayEventMap, raw.name),
     sub |-> raw.sub, status |-> NormalizeStatus(raw.status), plan |-> PlanIdToPlan(raw.price)]

-----------------------------------------------------------------------------

\* The normalized event the port hands to the router.
ToPaymentEvent(provider, raw) ==
    IF provider = "stripe" THEN StripeEvent(raw) ELSE RazorpayEvent(raw)

ActiveStatuses == {"active", "trialing"}

FeaturesByPlan ==
    [free |-> {"core"},
     pro |-> {"core", "advanced_analytics"},
     enterprise |-> {"core", "advanced_analytics", "priority_support", "sso"}]

-----------------------------------------------------------------------------

\* What a customer is due by the provider's own words (external): the features
\* of the price while it is paid for or on trial.
Due(raw) ==
    LET extra == [price_pro |-> {"advanced_analytics"},
                  price_enterprise |-> {"advanced_analytics", "priority_support", "sso"},
                  price_other |-> {}]
    IN  {"core"} \cup IF raw.status \in {"active", "trialing"} THEN extra[raw.price] ELSE {}
=============================================================================
