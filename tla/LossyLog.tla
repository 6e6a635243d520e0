------------------------------ MODULE LossyLog ------------------------------
(***************************************************************************)
(* What a buffered stream promises its readers about data: items are       *)
(* published in order, old items may be dropped, at least the last Window  *)
(* are retained, and each delivery to a reader is the oldest retained item *)
(* it has not seen.                                                        *)
(***************************************************************************)
EXTENDS Integers

CONSTANTS Readers, Window

VARIABLES
    published,  \* number of items published so far
    oldest,     \* the oldest item still retained
    last        \* the last item delivered to each reader, -1 if none

logVars == <<published, oldest, last>>

Init ==
    /\ published = 0
    /\ oldest = 0
    /\ last = [r \in Readers |-> -1]

Publish ==
    /\ published' = published + 1
    /\ oldest' \in oldest..published'
    /\ published' - oldest' <= Window
    /\ oldest' > oldest => published' - oldest' = Window
    /\ UNCHANGED last

Deliver(r) ==
    LET item == IF last[r] + 1 < oldest THEN oldest ELSE last[r] + 1 IN
    /\ item < published
    /\ last' = [last EXCEPT ![r] = item]
    /\ UNCHANGED <<published, oldest>>

Next == Publish \/ \E r \in Readers : Deliver(r)

Spec == Init /\ [][Next]_logVars

=============================================================================
