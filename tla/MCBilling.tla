------------------------------ MODULE MCBilling -----------------------------
EXTENDS Billing

Say(name, status, price) == [name |-> name, status |-> status, price |-> price]

\* Each provider's events: a subscription that begins, one that is no longer
\* due its plan, its end, and one about something else.
MCSays ==
    [stripe |-> {Say("created", "trialing", "price_pro"), Say("updated", "active", "price_other"),
                 Say("deleted", "canceled", "price_pro"), Say("invoice_paid", "paid", "price_pro")},
     razorpay |-> {Say("activated", "active", "price_pro"), Say("halted", "halted", "price_pro"),
                   Say("cancelled", "cancelled", "price_pro")}]
=============================================================================
