------------------------------- MODULE Rating -------------------------------
(***************************************************************************)
(* The rating engine (app/metering/rating.py) and the sums it is given     *)
(* (usage_for_period of app/metering/service.py): what a set of usage      *)
(* events costs on a plan.  An invoice's lines are told apart only by what *)
(* they add to its total.                                                  *)
(***************************************************************************)
EXTENDS Integers, FiniteSetsExt

CONSTANTS
    Cards,          \* the rate cards: a base fee and the meters of each plan
    DefaultPlan,    \* the plan with the card of those that have none
    MeterOf,        \* the meter of each usage event
    QuantityOf      \* its quantity

CardOf(plan) == Cards[IF plan \in DOMAIN Cards THEN plan ELSE DefaultPlan]

\* SUM(quantity) of one meter; a meter without a row counts 0.
Usage(events, meter) ==
    MapThenSumSet(LAMBDA u : QuantityOf[u], {u \in events : MeterOf[u] = meter})

\* The amount of a meter's overage line.
Overage(rate, used) == (IF used > rate.included THEN used - rate.included ELSE 0) * rate.overage

\* total_cents(rate(plan, usage)).
TotalCents(plan, events) ==
    LET card == CardOf(plan) IN
    card.base + MapThenSumSet(LAMBDA m : Overage(card.meters[m], Usage(events, m)),
                              DOMAIN card.meters)
=============================================================================
