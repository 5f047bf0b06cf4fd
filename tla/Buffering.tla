----------------------------- MODULE Buffering ------------------------------
(***************************************************************************)
(* How the idempotency middleware reads a request before its handler does, *)
(* and a response while it is sent (app/idempotency/middleware.py).  An    *)
(* ASGI stream is a sequence of messages, a body a sequence of bytes; what *)
(* a receive or a send wraps is given as the stream it yields or is given. *)
(***************************************************************************)
EXTENDS Naturals, Sequences, SequencesExt

Chunk(body, more) == [type |-> "http.request", body |-> body, more |-> more]
Disconnect == [type |-> "http.disconnect", body |-> <<>>, more |-> FALSE]

\* The body in the first n messages of a stream.
BodyOf(stream, n) ==
    FoldLeft(LAMBDA body, message : body \o message.body, <<>>, SubSeq(stream, 1, n))

\* _buffer_body() stops at the first message n that ends the body, is no part
\* of it, or takes it past max_bytes.
StopsAt(stream, n, max) == ~ stream[n].more \/ Len(BodyOf(stream, n)) > max

BufferBody(stream, max) ==
    LET n == CHOOSE i \in DOMAIN stream :
                 StopsAt(stream, i, max) /\ \A k \in 1 .. i - 1 : ~ StopsAt(stream, k, max)
    IN  [body |-> BodyOf(stream, n), messages |-> SubSeq(stream, 1, n),
         over |-> Len(BodyOf(stream, n)) > max]

\* What the n-th receive() of a handler yields: of a buffered request, and of
\* one that is too large.
Replayer(messages, n) == IF n \in DOMAIN messages THEN messages[n] ELSE Chunk(<<>>, FALSE)

ChainReplayer(messages, rest, n) ==
    IF n \in DOMAIN messages THEN messages[n] ELSE rest[n - Len(messages)]

-----------------------------------------------------------------------------

Started(status) == [type |-> "http.response.start", status |-> status, body |-> <<>>]
Sent(body) == [type |-> "http.response.body", status |-> 0, body |-> body]

\* _ResponseCapture before the first message, and its send().
Captured == [status |-> 500, body |-> <<>>, too_big |-> FALSE]

Capture(captured, message, max) ==
    CASE message.type = "http.response.start" -> [captured EXCEPT !.status = message.status]
      [] captured.too_big -> captured
      [] OTHER -> LET body == captured.body \o message.body
                  IN  [captured EXCEPT !.body = body, !.too_big = Len(body) > max]

ResponseCapture(sent, max) ==
    FoldLeft(LAMBDA captured, message : Capture(captured, message, max), Captured, sent)

\* The middleware completes the claim with such an answer, and releases it
\* after any other.
Cacheable(captured) == ~ captured.too_big /\ captured.status < 500
=============================================================================
