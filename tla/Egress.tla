------------------------------- MODULE Egress -------------------------------
(***************************************************************************)
(* The egress guard of webhook deliveries (app/webhooks/egress.py): the    *)
(* host of an endpoint's URL is resolved once, refused if any address of   *)
(* the answer is not public, and pinned to the first.                      *)
(*                                                                         *)
(* An address is what ipaddress says of it: its version and the block it   *)
(* lies in; an IPv4-mapped IPv6 address has the block of the IPv4 address  *)
(* it carries.  A resolver answers a sequence of addresses, <<>> when it   *)
(* has none or fails.                                                      *)
(***************************************************************************)
EXTENDS Naturals, Sequences

\* is_private, is_loopback, is_link_local, is_reserved, is_multicast, is_unspecified
Flagged == {"private", "loopback", "link_local", "reserved", "multicast", "unspecified"}

V4(block) == [version |-> 4, block |-> block]
V6(block) == [version |-> 6, block |-> block]
Mapped(block) == [version |-> 6, block |-> "mapped", embedded |-> V4(block)]

\* What ipaddress makes of any address.
Address ==
    {V4(b) : b \in Flagged \cup {"cgnat", "global"}}
        \cup {V6(b) : b \in Flagged \cup {"global"}}
        \cup {Mapped(b) : b \in Flagged \cup {"cgnat", "global"}}

\* Where a packet to the address goes.
Destination(ip) == IF ip.block = "mapped" THEN ip.embedded ELSE ip

\* _is_public(); is_private says nothing of carrier-grade NAT.
IsPublic(ip) ==
    LET judged == Destination(ip)
    IN  /\ judged.block \notin Flagged
        /\ judged.version = 4 => judged.block # "cgnat"

\* _resolve_public_ips()
Resolves(answer) == answer # <<>> /\ \A i \in DOMAIN answer : IsPublic(answer[i])

\* Of a URL as urlsplit() reads it: its host may be missing and its port
\* "malformed", "absent" or "given".
WellFormed(url) ==
    /\ url.scheme \in {"http", "https"}
    /\ url.host # ""
    /\ url.port # "malformed"

Refused == [dials |-> "nothing"]

\* resolve_pinned_target(): the literal dialled, and the names that the Host
\* header and the TLS handshake keep; the userinfo is dropped.
ResolvePinnedTarget(url, answer) ==
    IF WellFormed(url) /\ Resolves(answer)
    THEN [dials |-> Head(answer), port |-> url.port,
          host_header |-> <<url.host, url.port>>, sni_hostname |-> url.host]
    ELSE Refused
=============================================================================
