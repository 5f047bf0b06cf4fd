--------------------------- MODULE MCIdempotency ---------------------------
(* Model checking Idempotency.  Requests and fingerprints are               *)
(* interchangeable: no definition of the specification tells them apart.    *)
EXTENDS Idempotency, TLC, Sequences

B == INSTANCE Buffering

Symmetry == Permutations(Requests) \cup Permutations(Hashes)

-----------------------------------------------------------------------------
(* The buffering functions, for every stream of up to four messages and     *)
(* every cap that its bodies can meet.                                      *)

Bodies == {<<>>, <<"a">>, <<"a", "b">>}
UpTo(n, S) == UNION {[1 .. k -> S] : k \in 0 .. n}

Streams ==
    {Append(s, last) : s \in UpTo(3, {B!Chunk(b, TRUE) : b \in Bodies}),
                       last \in {B!Chunk(b, FALSE) : b \in Bodies} \cup {B!Disconnect}}

RECURSIVE Whole(_)
Whole(s) == IF s = <<>> THEN <<>> ELSE Head(s).body \o Whole(Tail(s))

\* The handler reads, message by message, the request its client sent; and
\* when the body is within the cap, the fingerprint is of the whole of it.
HandlerReadsRequest ==
    \A s \in Streams, max \in 0 .. 4 :
        LET b == B!BufferBody(s, max)
            rest == SubSeq(s, Len(b.messages) + 1, Len(s))
        IN  /\ b.over = (Len(Whole(s)) > max)
            /\ \A n \in DOMAIN s :
                 IF b.over THEN B!ChainReplayer(b.messages, rest, n) = s[n]
                           ELSE B!Replayer(b.messages, n) = s[n]
            /\ ~ b.over => b.body = Whole(s)

Responses ==
    {<<>>} \cup {<<B!Started(status)>> \o s :
                    status \in {200, 404, 500}, s \in UpTo(3, {B!Sent(b) : b \in Bodies})}

\* What is cached is the whole answer the client was sent, and no answer that
\* is an error of the server, too large, or was never begun.
CachedIsWhatWasSent ==
    \A s \in Responses, max \in 0 .. 4 :
        LET c == B!ResponseCapture(s, max)
        IN  /\ B!Cacheable(c) =
                 (s # <<>> /\ s[1].status < 500 /\ Len(Whole(s)) <= max)
            /\ B!Cacheable(c) => c.body = Whole(s) /\ c.status = s[1].status

ASSUME HandlerReadsRequest
ASSUME CachedIsWhatWasSent
=============================================================================
