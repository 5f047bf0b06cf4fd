------------------------------ MODULE Channel -------------------------------
(***************************************************************************)
(* What the outbox, its relay and the delivery workers promise together,   *)
(* without rows, rounds or tries: a channel that hands every event to      *)
(* every receiver it is owed to at least once, or says it has given up.    *)
(* An event is owed to whoever listened when it was sent and has not       *)
(* stopped since.  The channel may carry and hand over an event again and  *)
(* again; it may not call an event published, or stop carrying it, while a *)
(* receiver it is owed to would be forgotten.                              *)
(***************************************************************************)

CONSTANTS Events, Receivers

VARIABLES
    sent,       \* the events that were sent
    published,  \* the events the sender need no longer care for
    owed,       \* the receivers each event is owed to
    carried,    \* (event, receiver): under way
    received,   \* (event, receiver): handed over
    abandoned   \* (event, receiver): given up

vars == <<sent, published, owed, carried, received, abandoned>>

\* Receiver p is not forgotten: e is on its way, has come, or was given up.
Accounted(e, p) == <<e, p>> \in carried \cup received \cup abandoned

Init ==
    /\ sent = {} /\ published = {}
    /\ owed = [e \in Events |-> {}]
    /\ carried = {} /\ received = {} /\ abandoned = {}

Send(e) ==
    /\ e \notin sent
    /\ sent' = sent \cup {e}
    /\ \E listeners \in SUBSET Receivers : owed' = [owed EXCEPT ![e] = listeners]
    /\ UNCHANGED <<published, carried, received, abandoned>>

\* A receiver stops listening: nothing is owed to it any more.
Leave(p) ==
    /\ owed' = [e \in Events |-> owed[e] \ {p}]
    /\ UNCHANGED <<sent, published, carried, received, abandoned>>

Carry(e, p) ==
    /\ e \in sent \ published
    /\ carried' = carried \cup {<<e, p>>}
    /\ UNCHANGED <<sent, published, owed, received, abandoned>>

Publish(batch) ==
    /\ batch \subseteq sent
    /\ \A e \in batch : \A p \in owed[e] : Accounted(e, p)
    /\ published' = published \cup batch
    /\ UNCHANGED <<sent, owed, carried, received, abandoned>>

HandOver(pair) ==
    /\ pair \in carried
    /\ received' = received \cup {pair}
    /\ UNCHANGED <<sent, published, owed, carried, abandoned>>

\* Another copy may still be under way.
GiveUp(pair) ==
    /\ pair \in carried
    /\ abandoned' = abandoned \cup {pair}
    /\ carried' \in {carried, carried \ {pair}}
    /\ UNCHANGED <<sent, published, owed, received>>

\* Nothing more is done for a pair that came, was given up, or is not owed.
Drop(pair) ==
    /\ pair \in carried
    /\ pair \in received \cup abandoned \/ pair[2] \notin owed[pair[1]]
    /\ carried' = carried \ {pair}
    /\ UNCHANGED <<sent, published, owed, received, abandoned>>

Next ==
    \/ \E e \in Events : Send(e) \/ \E p \in Receivers : Carry(e, p)
    \/ \E p \in Receivers : Leave(p)
    \/ \E batch \in SUBSET Events : Publish(batch)
    \/ \E pair \in Events \X Receivers : HandOver(pair) \/ GiveUp(pair) \/ Drop(pair)

Spec == Init /\ [][Next]_vars

=============================================================================
