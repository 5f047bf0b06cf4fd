----------------------------- MODULE MCRateLimit ----------------------------
EXTENDS RateLimit

MCLimit == [free |-> 1, pro |-> 3]
=============================================================================
