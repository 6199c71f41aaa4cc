---------------------------- MODULE MCPavsReports ----------------------------
(* The IMU report: gyroscope, accelerometer and magnetometer are assigned  *)
(* in this order; the chassis driver reads the accelerometer first.        *)
EXTENDS PavsReports

ImuReadOrder == [i \in 1..3 |-> IF i = 1 THEN 2 ELSE IF i = 2 THEN 1 ELSE 3]
ImuClearOrder == [i \in 1..3 |-> IF i = 1 THEN 2 ELSE IF i = 2 THEN 1 ELSE 3]
=============================================================================
