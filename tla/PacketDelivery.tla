--------------------------- MODULE PacketDelivery ---------------------------
(***************************************************************************)
(* What a coordinator wants from another machine: every picture of a       *)
(* packet is made once, and what arrives is all of them, as made.          *)
(***************************************************************************)
EXTENDS Naturals

CONSTANTS Items, None

VARIABLES made,      \* made[i]: which rendering is the picture of i, or 0
          delivered  \* the pictures that were taken over, or None

TypeOK == made \in [Items -> Nat] /\ delivered \in [Items -> Nat] \cup {None}

Init == made = [i \in Items |-> 0] /\ delivered = None

Make(i) ==
    /\ made[i] = 0
    /\ made'[i] \in Nat \ {0}
    /\ made' = [made EXCEPT ![i] = made'[i]]
    /\ UNCHANGED delivered

Deliver ==
    /\ delivered = None
    /\ \A i \in Items : made[i] # 0
    /\ delivered' = made
    /\ UNCHANGED made

Next == Deliver \/ \E i \in Items : Make(i)

Spec == Init /\ [][Next]_<<made, delivered>>
=============================================================================
