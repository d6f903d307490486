-------------------------- MODULE FirstWriterStore --------------------------
(* What a mesh key of the ShugoCore adapter reads as.  It is the first content *)
(* that was offered for the key, or that of an imported row the key was made  *)
(* for, and it never changes: it can only be forgotten and written again.     *)
CONSTANTS Keys, Contents, Nothing

VARIABLES held, offered, minted

vars == <<held, offered, minted>>

Init ==
    /\ held = [k \in Keys |-> Nothing]
    /\ offered = [k \in Keys |-> {}]
    /\ minted = {}

Offer(k, c) ==
    /\ offered' = [offered EXCEPT ![k] = @ \cup {c}]
    /\ UNCHANGED <<held, minted>>

Put(k, c) ==
    /\ held[k] = Nothing
    /\ c \in offered[k]
    /\ held' = [held EXCEPT ![k] = c]
    /\ UNCHANGED <<offered, minted>>

(* A fact of one's own is offered and stored at once.                        *)
PutOwn(k, c) ==
    /\ held[k] = Nothing
    /\ held' = [held EXCEPT ![k] = c]
    /\ offered' = [offered EXCEPT ![k] = @ \cup {c}]
    /\ UNCHANGED minted

(* A key is made for an imported row; the row may be gone by then.           *)
Mint(k, c) ==
    /\ held[k] = Nothing
    /\ held' = [held EXCEPT ![k] = c]
    /\ minted' = minted \cup {k}
    /\ UNCHANGED offered

Forget(k) ==
    /\ held' = [held EXCEPT ![k] = Nothing]
    /\ UNCHANGED <<offered, minted>>

Next ==
    \E k \in Keys :
        \/ Forget(k)
        \/ \E c \in Contents : Offer(k, c) \/ Put(k, c) \/ PutOwn(k, c)
        \/ \E c \in Contents \cup {Nothing} : Mint(k, c)

Spec == Init /\ [][Next]_vars
=============================================================================
