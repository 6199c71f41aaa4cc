--------------------------- MODULE MCCameraFactory ---------------------------
(* CameraFactory for TLC: every process is started without a serial number *)
(* and accepts every camera.                                               *)
EXTENDS CameraFactory

AcceptAll == [n \in Nodes |-> Devices]
=============================================================================
