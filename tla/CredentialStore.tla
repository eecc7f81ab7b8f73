-------------------------- MODULE CredentialStore --------------------------
(***************************************************************************)
(* What `porto auth' and `porto config init' promise as long as commands   *)
(* do not overlap: a login changes one wire, a logout removes one wire,    *)
(* init starts over; a command that is cut off has either happened, or     *)
(* not, or has lost the store as a whole.                                  *)
(***************************************************************************)
CONSTANTS
    Slots,       \* the <<provider, wire>> pairs credentials are stored under
    LogoutSlots, \* those a logout can name
    Held,        \* what a slot can hold at first, None included
    Payloads,    \* what a login stores
    None

VARIABLE store   \* store[s]: the payload stored under s, or None

Empty == [s \in Slots |-> None]

Init == store \in [Slots -> Held]

Login(s, x) == store' = [store EXCEPT ![s] = x]

Logout(s) == store' = [store EXCEPT ![s] = None]

StartOver == store' = Empty

Next ==
    \/ \E s \in Slots, x \in Payloads : Login(s, x)
    \/ \E s \in LogoutSlots : Logout(s)
    \/ StartOver

Spec == Init /\ [][Next]_store
=============================================================================
