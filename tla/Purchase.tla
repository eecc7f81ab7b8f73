------------------------------ MODULE Purchase ------------------------------
(***************************************************************************)
(* What a caller of mark() is promised, whatever the network does: an      *)
(* order is paid at most once, a mark is handed out only for a paid order, *)
(* a refusal is final - the refused call never pays afterwards - and every *)
(* other ending leaves open whether the call pays.                         *)
(***************************************************************************)
CONSTANTS
    Calls,
    OrderOf,   \* OrderOf[c]: calls that ask for the same purchase share an order
    Nobody

VARIABLES
    state,     \* state[c]
    payer      \* payer[o]: the call that paid order o, or Nobody

vars == <<state, payer>>

Orders == {OrderOf[c] : c \in Calls}

Init ==
    /\ state = [c \in Calls |-> "idle"]
    /\ payer = [o \in Orders |-> Nobody]

Begin(c) ==
    /\ state[c] = "idle"
    /\ state' = [state EXCEPT ![c] = "open"]
    /\ UNCHANGED payer

Pay(c) ==
    /\ state[c] \in {"open", "doubtful"}
    /\ payer[OrderOf[c]] = Nobody
    /\ payer' = [payer EXCEPT ![OrderOf[c]] = c]
    /\ UNCHANGED state

Mark(c) ==
    /\ state[c] = "open"
    /\ payer[OrderOf[c]] # Nobody
    /\ state' = [state EXCEPT ![c] = "marked"]
    /\ UNCHANGED payer

Refuse(c) ==
    /\ state[c] \in {"idle", "open"}
    /\ payer[OrderOf[c]] # c
    /\ state' = [state EXCEPT ![c] = "refused"]
    /\ UNCHANGED payer

Doubt(c) ==
    /\ state[c] = "open"
    /\ state' = [state EXCEPT ![c] = "doubtful"]
    /\ UNCHANGED payer

Next ==
    \E c \in Calls : Begin(c) \/ Pay(c) \/ Mark(c) \/ Refuse(c) \/ Doubt(c)

Spec == Init /\ [][Next]_vars
=============================================================================
