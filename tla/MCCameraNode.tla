---------------------------- MODULE MCCameraNode ----------------------------
(* A camera with infrared and colour, an Astra Pro whose colour OpenNI does  *)
(* not start, and one whose colour comes from a UVC camera instead.          *)
EXTENDS CameraNode

ThreeCameras ==
  {[uvc |-> FALSE, pro |-> FALSE, offered |-> {"INFRA1", "COLOR"}],
   [uvc |-> FALSE, pro |-> TRUE, offered |-> {"COLOR"}],
   [uvc |-> TRUE, pro |-> FALSE, offered |-> {"COLOR"}]}
=============================================================================
