----------------------------- MODULE MCMetering -----------------------------
(* Model checking Metering with the prices of Rating.                        *)
EXTENDS Metering, TLC

CONSTANTS o1, o2, t2, k1, k2

\* Everything is of one organization, except that t2 is of the second, if
\* there is one.
MCOrgOf == [r \in Requests |-> IF r = t2 /\ o2 \in Orgs THEN o2 ELSE o1]

\* Usage is sent under one key, top-ups under another.
MCKeyOf == [r \in Usages \cup TopUps |->
               IF r \in Usages THEN k1 ELSE k2]

MCAmountOf == [t \in TopUps |-> 2]

\* A plan of no fee whose quota is a hard cap, and one with a fee and an
\* overage price.
MCCards == [free |-> [base |-> 0, meters |-> [calls |-> [included |-> 1, overage |-> 0]]],
            pro  |-> [base |-> 1, meters |-> [calls |-> [included |-> 1, overage |-> 1]]]]

R == INSTANCE Rating WITH
        Cards <- MCCards, DefaultPlan <- "free",
        MeterOf <- [u \in Usages |-> "calls"], QuantityOf <- [u \in Usages |-> 2]

MCPrice(p, E) == R!TotalCents(p, E)

\* Sound where all requests of a kind have one organization and one key.
Symmetry == Permutations(Closes) \cup Permutations(Usages) \cup Permutations(TopUps)

-----------------------------------------------------------------------------
(* Rating against a reference, on all sets of eight events of two meters:   *)
(* a plan costs its fee and, cent by cent, every unit beyond a quota.        *)

Meters == [calls |-> [included |-> 2, overage |-> 2], tokens |-> [included |-> 0, overage |-> 1],
           seats |-> [included |-> 1, overage |-> 0]]
Events == {<<m, n>> : m \in {"calls", "tokens"}, n \in 0..3}

P == INSTANCE Rating WITH
        Cards <- [free |-> [base |-> 0, meters |-> [calls |-> [included |-> 1, overage |-> 0]]],
                  pro  |-> [base |-> 3, meters |-> Meters]],
        DefaultPlan <- "free",
        MeterOf <- [e \in Events |-> e[1]], QuantityOf <- [e \in Events |-> e[2]]

Units(E) == UNION {{<<e, i>> : i \in 1..e[2]} : e \in E}
UnitsOf(m, E) == Cardinality({x \in Units(E) : x[1][1] = m})

ASSUME RatingMatchesReference == \A E \in SUBSET Events :
    /\ P!TotalCents("pro", E) = 3 + Cardinality(UNION
          {{<<m, i, cent>> : i \in (Meters[m].included + 1)..UnitsOf(m, E),
                             cent \in 1..Meters[m].overage} : m \in DOMAIN Meters})
    /\ P!TotalCents("free", E) = 0
    /\ P!TotalCents("unknown", E) = 0
=============================================================================
