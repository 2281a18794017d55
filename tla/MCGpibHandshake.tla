-------------------------- MODULE MCGpibHandshake --------------------------
(* Messages for the model-checking run of GpibHandshake.                   *)
EXTENDS GpibHandshake

CONSTANTS talker, l1, l2, l3

Everybody == {l1, l2, l3}

Two == {l1, l2}
TwoAndTalker == {l1, l2, talker}

(* To two listeners: a write of the gateway in one call with CR+LF, one in *)
(* two calls, and a read by the gateway (l1) in reads of one byte; anybody *)
(* may be late.                                                            *)
ToTwo ==
    {[controller |-> talker, listeners |-> Two, slow |-> TwoAndTalker,
      data |-> 1, parts |-> {}, ends |-> 2, limit |-> 0],
     [controller |-> talker, listeners |-> Two, slow |-> TwoAndTalker,
      data |-> 3, parts |-> {2}, ends |-> 0, limit |-> 0],
     [controller |-> l1, listeners |-> Two, slow |-> TwoAndTalker,
      data |-> 2, parts |-> {}, ends |-> 1, limit |-> 1]}

(* To three, of whom two are the late ones: a write in two calls with CR,  *)
(* and a read in one.                                                      *)
ToThree ==
    {[controller |-> talker, listeners |-> Everybody, slow |-> Two,
      data |-> 2, parts |-> {1}, ends |-> 1, limit |-> 0],
     [controller |-> l1, listeners |-> Everybody, slow |-> TwoAndTalker,
      data |-> 3, parts |-> {}, ends |-> 0, limit |-> 0]}

Messages == ToTwo \cup ToThree
=============================================================================
