---------------------------- MODULE ConfigStore -----------------------------
(***************************************************************************)
(* What the stored configuration promises, without EEPROM cells, checksum  *)
(* or boot sequence: one whole configuration is kept through power losses, *)
(* and a start begins with it.  Only a save or an erasure that was asked   *)
(* for changes it: to the configuration in use, or to the default, which   *)
(* is what one cut off by a power loss leaves.                             *)
(***************************************************************************)
CONSTANTS
    Configurations,
    Default,
    Started(_),  \* the configuration in use after a start with a stored one
    Down         \* for running: none

VARIABLES
    stored,   \* what the next start loads
    running,  \* the configuration in use
    changing  \* a save or an erasure has been asked for

vars == <<stored, running, changing>>

Init == stored = Default /\ running = Down /\ changing = FALSE

Start ==
    /\ running = Down
    /\ running' = Started(stored)
    /\ UNCHANGED <<stored, changing>>

(* A setting is changed, with or without a save.                           *)
Adjust ==
    /\ running # Down /\ ~changing
    /\ running' \in Configurations
    /\ changing' \in BOOLEAN
    /\ UNCHANGED stored

Save ==
    /\ changing
    /\ stored' = running
    /\ UNCHANGED <<running, changing>>

Lose ==
    /\ changing
    /\ stored' = Default
    /\ UNCHANGED <<running, changing>>

Finish ==
    /\ changing
    /\ changing' = FALSE
    /\ running' \in {running, Default}
    /\ UNCHANGED stored

PowerLoss ==
    /\ running' = Down
    /\ changing' = FALSE
    /\ UNCHANGED stored

Next == Start \/ Adjust \/ Save \/ Lose \/ Finish \/ PowerLoss

Spec == Init /\ [][Next]_vars
=============================================================================
