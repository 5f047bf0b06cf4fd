-------------------------------- MODULE Inbox -------------------------------
(***************************************************************************)
(* What an inbox promises whose messages come again and again, at once and *)
(* in any order: the messages of one key are heeded once, and what is kept *)
(* changes at no other moment, column by column, and only to what the      *)
(* message heeded says.                                                    *)
(***************************************************************************)
EXTENDS Naturals

CONSTANT None   \* says nothing; nothing is kept

VARIABLES
    sent,       \* the messages: the key of each, and the record it says or None
    keys,       \* the keys of those that were heeded
    heeded,     \* how often each was
    kept        \* the record that is kept, or None

Init ==
    /\ DOMAIN sent = {}
    /\ keys = {}
    /\ \A n \in DOMAIN heeded : heeded[n] = 0
    /\ kept = None

\* What was sent stays as it is.
Send ==
    /\ DOMAIN sent \subseteq DOMAIN sent'
    /\ \A n \in DOMAIN sent : sent'[n] = sent[n]
    /\ UNCHANGED <<keys, heeded, kept>>

\* The record may take any of its columns from what is said; the first one is
\* taken whole.
Take(says) ==
    /\ says # None
    /\ kept' # None
    /\ IF kept = None
       THEN kept' = says
       ELSE /\ DOMAIN kept' = DOMAIN says
            /\ \A c \in DOMAIN says : kept'[c] \in {kept[c], says[c]}

\* A message is heeded with its key, by which none has been before; it may turn
\* out not to concern the receiver.
Heed(n) ==
    /\ sent[n].key \notin keys
    /\ keys' = keys \cup {sent[n].key}
    /\ heeded' = [heeded EXCEPT ![n] = @ + 1]
    /\ kept' = kept \/ Take(sent[n].says)
    /\ UNCHANGED sent

Next == Send \/ \E n \in DOMAIN sent : Heed(n)

Spec == Init /\ [][Next]_<<sent, keys, heeded, kept>>
=============================================================================
