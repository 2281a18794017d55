----------------------------- MODULE VxiService -----------------------------
(***************************************************************************)
(* What the gateway promises its VXI-11 clients, without bus, sockets or   *)
(* main loop: a connection is a session; a session may be linked to an     *)
(* address; requests are served one at a time; and a request of a linked   *)
(* session touches the instrument the link stands for, and no other.       *)
(* Of a session that has created no link nothing is promised.              *)
(***************************************************************************)
EXTENDS Integers

CONSTANTS NSlots, Instruments, Caddr

VARIABLES
    session,  \* per slot: Closed, NoLink, or the address of its link
    served    \* the request served and not yet answered: who heard it, who spoke

vars == <<session, served>>

Slots == 1..NSlots
NoLink == 255
Closed == 256
Nothing == [slot |-> 0, to |-> {}, from |-> {}]

Target(address) == IF address = 0 THEN Caddr ELSE address

Init == session = [s \in Slots |-> Closed] /\ served = Nothing

Open(s) ==
    /\ served = Nothing
    /\ session[s] = Closed
    /\ session' = [session EXCEPT ![s] = NoLink]
    /\ UNCHANGED served

CreateLink(s, address) ==
    /\ served = Nothing
    /\ session[s] # Closed
    /\ session' = [session EXCEPT ![s] = address]
    /\ served' = [slot |-> s, to |-> {}, from |-> {}]

Serve(s) ==
    /\ served = Nothing
    /\ session[s] # Closed
    /\ \E to, from \in SUBSET Instruments :
          /\ session[s] # NoLink => to \cup from \subseteq {Target(session[s])}
          /\ served' = [slot |-> s, to |-> to, from |-> from]
    /\ UNCHANGED session

(* The reply, after which the session may be over.                         *)
Answer ==
    /\ served # Nothing
    /\ served' = Nothing
    /\ \/ UNCHANGED session
       \/ session' = [session EXCEPT ![served.slot] = Closed]

(* Between requests any set of sessions may end.                           *)
Close ==
    /\ served = Nothing
    /\ \E S \in SUBSET Slots :
          session' = [s \in Slots |-> IF s \in S THEN Closed ELSE session[s]]
    /\ UNCHANGED served

Restart == session' = [s \in Slots |-> Closed] /\ served' = Nothing

Next ==
    \/ \E s \in Slots : Open(s) \/ Serve(s) \/ \E a \in 0..31 : CreateLink(s, a)
    \/ Answer \/ Close \/ Restart

Spec == Init /\ [][Next]_vars
=============================================================================
