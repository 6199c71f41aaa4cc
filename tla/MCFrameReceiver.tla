---------------------------- MODULE MCFrameReceiver ----------------------------
(* A version reply, one whose check sum is HEAD, a car type, and a reply   *)
(* whose data hold what looks like a frame, but a too short one.            *)
EXTENDS FrameReceiver

Version == [type |-> 2, data |-> <<3, 1>>]
Sharp   == [type |-> 2, data |-> <<3, 245>>]
CarType == [type |-> 1, data |-> <<4>>]
Nasty   == [type |-> 3, data |-> <<251, 255, 251, 3, 2>>]

FourFrames == {Version, Sharp, CarType, Nasty}
NeedOf == [t \in 1..3 |-> IF t = 1 THEN 1 ELSE 2]
=============================================================================
