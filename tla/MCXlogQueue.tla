---------------------------- MODULE MCXlogQueue ----------------------------
(* XlogQueue with packets of two lengths, more than a lap of the ring.     *)
EXTENDS XlogQueue

MCBody == <<1, 0, 1>>
=============================================================================
