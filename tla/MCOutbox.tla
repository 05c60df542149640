------------------------------ MODULE MCOutbox -------------------------------
(***************************************************************************)
(* A small outbox for Outbox: four events, of which the publishers serve   *)
(* three and the sink refuses one.                                         *)
(***************************************************************************)
EXTENDS Outbox

FourEvents == 1..4
ThreeServed == {1, 2, 4}
OneRefused == {2}

=============================================================================
