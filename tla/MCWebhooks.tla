----------------------------- MODULE MCWebhooks -----------------------------
(* Model checking Webhooks.                                                 *)
EXTENDS Webhooks

E == INSTANCE Egress

Hook == [scheme |-> "https", userinfo |-> FALSE, host |-> "hooks", port |-> "absent"]
TheUrls == {Hook, [Hook EXCEPT !.port = "malformed"]}

\* Answers that are good, mixed, mapped and none; the others are judged below.
TheAnswers ==
    {<<E!V4("global")>>, <<E!V4("global"), E!V4("private")>>,
     <<E!Mapped("private")>>, <<>>}

-----------------------------------------------------------------------------

AllUrls == [scheme : {"http", "https", "other"}, userinfo : BOOLEAN,
                   host : {"", "hooks"}, port : {"malformed", "absent", "given"}]

AllAnswers == {<<>>} \cup {<<a>> : a \in E!Address} \cup {<<a, b>> : a, b \in E!Address}

\* A target is had of every answer that is public throughout and of no other,
\* and it keeps the name for routing and for TLS whatever it dials.
GuardMatchesReference ==
    \A u \in AllUrls, s \in AllAnswers :
        LET found == E!ResolvePinnedTarget(u, s)
            blocks == {E!Destination(s[i]).block : i \in DOMAIN s}
        IN  IF blocks = {"global"} /\ u.scheme # "other" /\ u.host = "hooks" /\ u.port # "malformed"
            THEN /\ found.dials \in {s[i] : i \in DOMAIN s}
                 /\ found.sni_hostname = "hooks"
                 /\ found.host_header = <<"hooks", u.port>>
                 /\ found.port = u.port
            ELSE found = E!Refused

ASSUME GuardMatchesReference
=============================================================================
