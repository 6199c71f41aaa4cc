------------------------------ MODULE UvcCamera ------------------------------
(***************************************************************************)
(* The UVC colour camera (class UVCCameraDriver) once it has been opened:  *)
(* the spinner's callbacks that start and stop its streaming, the thread   *)
(* of libuvc that delivers the frames, and the destructor.                 *)
(*                                                                         *)
(* device_lock_ is recursive.  The subscription callbacks hold it while    *)
(* they call startStreaming and stopStreaming, the service does not.       *)
(***************************************************************************)
EXTENDS Spinner

CONSTANT MaxViewers   \* bound: subscribers of the colour image

ASSUME ViewersAssumption == MaxViewers \in Nat

VARIABLES
  handle,     \* is there a device_handle_?
  streaming,  \* is_streaming_started
  usb,        \* the library delivers frames
  buffer,     \* is there a frame_buffer_?
  frame,      \* the library's thread: between frames, or where in the callback
  holder,     \* who holds device_lock_
  viewers,    \* subscribers of color/image_raw
  shut,       \* how far the destructor has got
  refused     \* history: a video mode or a start of the stream was refused

uvcVars == <<handle, streaming, usb, buffer, frame, holder, viewers, shut, refused>>

UvcInit(open) ==
  /\ handle = open
  /\ streaming = FALSE /\ usb = FALSE /\ buffer = FALSE /\ refused = FALSE
  /\ frame = "between" /\ holder = "nobody" /\ viewers = 0 /\ shut = "no"

-----------------------------------------------------------------------------
View ==
  /\ viewers < MaxViewers
  /\ viewers' = viewers + 1
  /\ Queue("subscribed", "uvc")
  /\ UNCHANGED <<handle, streaming, usb, buffer, frame, holder, shut, refused>>

Unview ==
  /\ viewers > 0
  /\ viewers' = viewers - 1
  /\ Queue("unsubscribed", "uvc")
  /\ UNCHANGED <<handle, streaming, usb, buffer, frame, holder, shut, refused>>

CallToggleUvc(do) ==
  /\ do \in {"on", "off"}
  /\ Queue(do, "uvc")
  /\ UNCHANGED uvcVars

-----------------------------------------------------------------------------
(* The callbacks.  "from" is where the spinner's handler is.               *)
Here(from) == call.on = "uvc" /\ at = from
Lockable == holder \in {"nobody", "spinner"}

(* The handler is left and with it every lock it holds.                    *)
Leave ==
  /\ Return
  /\ holder' = IF holder = "spinner" THEN "nobody" ELSE holder

(* imageSubscribedCallback, imageUnsubscribedCallback, toggleUVCCamera.    *)
Enter ==
  /\ Here("begun")
  /\ \/ call.do = "on" /\ GoOn("start") /\ UNCHANGED holder
     \/ call.do = "off" /\ GoOn("stop") /\ UNCHANGED holder
     \/ /\ call.do = "subscribed" /\ Lockable
        /\ GoOn("start") /\ holder' = "spinner"
     \/ /\ call.do = "unsubscribed" /\ Lockable
        /\ IF viewers = 0 THEN GoOn("stop") /\ holder' = "spinner" ELSE Leave
  /\ UNCHANGED <<handle, streaming, usb, buffer, frame, viewers, shut, refused>>

(* startStreaming: nothing to do, or no camera (CHECK), or on it goes.     *)
StartStreaming ==
  /\ Here("start")
  /\ \/ streaming /\ Leave
     \/ ~streaming /\ ~handle /\ Die("handle") /\ UNCHANGED holder
     \/ ~streaming /\ handle /\ GoOn("mode") /\ UNCHANGED holder
  /\ UNCHANGED <<handle, streaming, usb, buffer, frame, viewers, shut, refused>>

(* setVideoMode closes the camera when the mode is refused, and returns.   *)
SetVideoMode ==
  /\ Here("mode") /\ Lockable
  /\ \/ ~handle /\ Die("handle") /\ UNCHANGED <<handle, refused>>
     \/ handle /\ GoOn("open") /\ UNCHANGED <<handle, refused>>
     \/ handle /\ GoOn("open") /\ handle' = FALSE /\ refused' = TRUE
  /\ UNCHANGED <<streaming, usb, buffer, frame, holder, viewers, shut>>

BadOpenStream ==
  /\ Here("open") /\ handle
  /\ GoOn("buffer") /\ usb' = TRUE
  /\ UNCHANGED <<handle, streaming, buffer, frame, holder, viewers, shut, refused>>

(* uvc_start_streaming is called in any case: the library dies of a null   *)
(* handle; if it refuses, the camera is closed.                            *)
OpenStream ==
  /\ Here("open") /\ Lockable
  /\ \/ ~handle /\ Die("handle") /\ UNCHANGED <<handle, usb, holder, refused>>
     \/ /\ handle
        /\ GoOn("buffer") /\ holder' = "spinner"
        /\ usb' = TRUE /\ UNCHANGED <<handle, refused>>
     \/ /\ handle
        /\ Leave
        /\ handle' = FALSE /\ refused' = TRUE /\ UNCHANGED usb
  /\ UNCHANGED <<streaming, buffer, frame, viewers, shut>>

(* The buffer is allocated after the frames have begun to come.            *)
AllocateBuffer ==
  /\ Here("buffer")
  /\ buffer' = TRUE /\ streaming' = TRUE
  /\ Leave
  /\ UNCHANGED <<handle, usb, frame, viewers, shut, refused>>

BadStopStreaming ==
  /\ Here("stop")
  /\ \/ ~streaming /\ Leave /\ UNCHANGED buffer
     \/ /\ streaming /\ Lockable
        /\ GoOn("joining") /\ holder' = "spinner" /\ buffer' = FALSE
  /\ UNCHANGED <<handle, streaming, usb, frame, viewers, shut, refused>>

(* stopStreaming: uvc_stop_streaming ends the frames and then joins the    *)
(* library's thread, with the lock held ...                                *)
StopStreaming ==
  /\ Here("stop")
  /\ \/ ~streaming /\ Leave /\ UNCHANGED usb
     \/ streaming /\ Lockable /\ ~handle /\ Die("handle") /\ UNCHANGED <<usb, holder>>
     \/ /\ streaming /\ Lockable /\ handle
        /\ GoOn("joining") /\ holder' = "spinner" /\ usb' = FALSE
  /\ UNCHANGED <<handle, streaming, buffer, frame, viewers, shut, refused>>

(* ... and the buffer is freed.                                            *)
StopJoined ==
  /\ Here("joining") /\ frame = "between"
  /\ buffer' = FALSE /\ streaming' = FALSE
  /\ Leave
  /\ UNCHANGED <<handle, usb, frame, viewers, shut, refused>>

-----------------------------------------------------------------------------
(* frameCallback: the buffer is looked at (CHECK), then the lock is taken. *)
FrameComes ==
  /\ usb /\ frame = "between"
  /\ \/ buffer /\ frame' = "checked" /\ UNCHANGED spinnerVars
     \/ ~buffer /\ Die("buffer") /\ UNCHANGED frame
  /\ UNCHANGED <<handle, streaming, usb, buffer, holder, viewers, shut, refused>>

FrameLocks ==
  /\ frame = "checked" /\ holder = "nobody"
  /\ frame' = "converted" /\ holder' = "frame"
  /\ UNCHANGED <<spinnerVars, handle, streaming, usb, buffer, viewers, shut, refused>>

FramePublished ==
  /\ frame = "converted"
  /\ frame' = "between" /\ holder' = "nobody"
  /\ UNCHANGED <<spinnerVars, handle, streaming, usb, buffer, viewers, shut, refused>>

(* The destructor: uvc_close joins the library's thread, with the lock     *)
(* held.                                                                   *)
Shut ==
  \/ /\ shut = "no" /\ holder = "nobody"
     /\ shut' = "closing" /\ holder' = "closer" /\ usb' = FALSE
     /\ UNCHANGED <<spinnerVars, handle, streaming, buffer, frame, viewers, refused>>
  \/ /\ shut = "closing" /\ frame = "between"
     /\ shut' = "closed" /\ holder' = "nobody" /\ handle' = FALSE /\ buffer' = FALSE
     /\ UNCHANGED <<spinnerVars, streaming, usb, frame, viewers, refused>>

UvcCallback ==
  \/ Enter \/ StartStreaming \/ SetVideoMode \/ OpenStream \/ AllocateBuffer
  \/ StopStreaming \/ StopJoined

UvcClients == View \/ Unview \/ \E do \in {"on", "off"} : CallToggleUvc(do)
=============================================================================
