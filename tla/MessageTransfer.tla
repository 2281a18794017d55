-------------------------- MODULE MessageTransfer ---------------------------
(***************************************************************************)
(* One message on the bus as the callers of receiveData see it, without    *)
(* signals: every listener puts out the bytes of the message in their      *)
(* order, and the listeners keep step with each other, so that none is     *)
(* given a byte before all that are still there have put out the one       *)
(* before.  Nothing is promised once the talker has run out of time.       *)
(***************************************************************************)
EXTENDS Naturals, Sequences

CONSTANT Listeners

VARIABLES
    to,      \* the listeners addressed
    length,  \* of the message
    heard,   \* what each has put out; a byte is its position
    told,    \* why a call of receiveData ended, RECEIVE_INIT while it lasts
    broken   \* the talker has run out of time

vars == <<to, length, heard, told, broken>>

Init ==
    /\ to \in SUBSET Listeners
    /\ length \in Nat \ {0}
    /\ heard = [l \in Listeners |-> << >>]
    /\ told = [l \in Listeners |-> "RECEIVE_INIT"]
    /\ broken = FALSE

(* In a call, or between two calls for parts of the message.               *)
Present(l) == told[l] \in {"RECEIVE_INIT", "RECEIVE_LIMIT"}

(* Only the last byte can be told to be the end.                           *)
Hear(l) ==
    /\ ~broken
    /\ told[l] = "RECEIVE_INIT"
    /\ Len(heard[l]) < length
    /\ \A k \in to : Present(k) => Len(heard[l]) <= Len(heard[k])
    /\ heard' = [heard EXCEPT ![l] = Append(@, Len(@) + 1)]
    /\ \E reason \in {"RECEIVE_INIT", "RECEIVE_LIMIT", "RECEIVE_EOI"} :
          /\ told' = [told EXCEPT ![l] = reason]
          /\ reason = "RECEIVE_EOI" => Len(heard[l]) + 1 = length
    /\ UNCHANGED <<to, length, broken>>

Resume(l) ==
    /\ told[l] = "RECEIVE_LIMIT"
    /\ told' = [told EXCEPT ![l] = "RECEIVE_INIT"]
    /\ UNCHANGED <<to, length, heard, broken>>

(* Time-out, or the controller's ATN.                                      *)
Leave(l) ==
    /\ told[l] = "RECEIVE_INIT"
    /\ \E reason \in {"RECEIVE_ERR", "RECEIVE_ATN"} : told' = [told EXCEPT ![l] = reason]
    /\ UNCHANGED <<to, length, heard, broken>>

Break ==
    /\ broken' = TRUE
    /\ UNCHANGED <<to, length, heard, told>>

Broken == broken /\ broken' = TRUE

Next == Break \/ Broken \/ \E l \in to : Hear(l) \/ Resume(l) \/ Leave(l)

Spec == Init /\ [][Next]_vars
=============================================================================
