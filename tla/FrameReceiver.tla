----------------------------- MODULE FrameReceiver -----------------------------
(***************************************************************************)
(* The receive thread of the PAVS serial driver (__receive_data), byte by  *)
(* byte, and the line from the expansion board.  The thread starts in the  *)
(* middle of the board's reports; bytes are lost or altered on the way.    *)
(***************************************************************************)
EXTENDS Integers, Sequences

CONSTANTS
  Frames,     \* what the board sends: [type, data]
  Types,      \* the types __parse_data knows
  Need,       \* [Types -> Nat]: how many bytes it unpacks of each
  Noise,      \* bound: what a byte may be altered to
  MaxWire,    \* bound: frames on the wire
  MaxFaults   \* bound: bytes lost or altered

HEAD == 255
REPLY_ID == 251        \* __DEVICE_ID - 1
Bytes == 0..255

ASSUME FramesAssumption ==
  \A f \in Frames :
    f \in [type : Bytes, data : Seq(Bytes)] /\ Len(f.data) <= 252
ASSUME NeedAssumption ==
  /\ Types \subseteq Bytes /\ Need \in [Types -> Nat]
  /\ \A f \in Frames : f.type \in Types => Need[f.type] <= Len(f.data)
ASSUME BoundsAssumption ==
  Noise \subseteq Bytes /\ MaxWire \in Nat \ {0} /\ MaxFaults \in Nat

VARIABLES
  wire,       \* [frame, left, damaged]: its bytes not read yet; was its body altered?
  faults,     \* bytes lost or altered
  rx,         \* the read() the thread waits in, or "dead"
  ext_len, ext_type, ext_data, check_sum,
  got         \* the frame parsed last; a bit that changes with every frame

vars == <<wire, faults, rx, ext_len, ext_type, ext_data, check_sum, got>>

(* The board: a header, the length of the rest, and a check sum.           *)
ExtLen(f) == Len(f.data) + 3
Sum(s) ==
  LET upTo[i \in 0..Len(s)] == IF i = 0 THEN 0 ELSE upTo[i - 1] + s[i]
  IN upTo[Len(s)]
Check(f) == (ExtLen(f) + f.type + Sum(f.data)) % 256
Body(f) == <<f.type>> \o f.data \o <<Check(f)>>
Encode(f) == <<HEAD, REPLY_ID, ExtLen(f)>> \o Body(f)
Sent(f, left) == [frame |-> f, left |-> left, damaged |-> FALSE]
Gone(w) == ExtLen(w.frame) + 2 - Len(w.left)    \* its bytes that have left the wire

NoFrame == [frame |-> [type |-> 0, data |-> <<>>], bit |-> 0]

Init ==
  /\ \E f \in Frames : \E k \in DOMAIN Encode(f) :
       wire = <<Sent(f, SubSeq(Encode(f), k, Len(Encode(f))))>>
  /\ faults = 0
  /\ rx = "head1" /\ ext_len = 0 /\ ext_type = 0 /\ ext_data = <<>> /\ check_sum = 0
  /\ got = NoFrame

thread == <<rx, ext_len, ext_type, ext_data, check_sum, got>>

Send(f) ==
  /\ Len(wire) < MaxWire
  /\ wire' = Append(wire, Sent(f, Encode(f)))
  /\ UNCHANGED <<faults, thread>>

(* The next byte leaves the wire.                                          *)
Taken == IF Len(wire[1].left) = 1 THEN Tail(wire)
                                  ELSE [wire EXCEPT ![1].left = Tail(@)]

Lose ==
  /\ wire # <<>> /\ faults < MaxFaults
  /\ wire' = Taken /\ faults' = faults + 1
  /\ UNCHANGED thread

(* A byte is altered: of the header, of the length, or, once in a frame, of *)
(* the body behind them.                                                   *)
InBody(w, k) == Gone(w) + k > 3
Alter(i, k, b) ==
  /\ faults < MaxFaults /\ faults' = faults + 1
  /\ wire[i].left[k] # b
  /\ InBody(wire[i], k) => ~wire[i].damaged
  /\ wire' = [wire EXCEPT ![i].left[k] = b, ![i].damaged = @ \/ InBody(wire[i], k)]
  /\ UNCHANGED thread

-----------------------------------------------------------------------------
(* The thread reads one byte.                                              *)
Read(state) ==
  /\ rx = state /\ wire # <<>>
  /\ wire' = Taken
  /\ UNCHANGED faults

Byte == wire[1].left[1]

Head1 ==
  /\ Read("head1")
  /\ rx' = IF Byte = HEAD THEN "head2" ELSE "head1"
  /\ UNCHANGED <<ext_len, ext_type, ext_data, check_sum, got>>

(* Another byte than the identifier is thrown away, even if it is a HEAD.  *)
Head2 ==
  /\ Read("head2")
  /\ rx' = IF Byte = REPLY_ID THEN "len" ELSE "head1"
  /\ UNCHANGED <<ext_len, ext_type, ext_data, check_sum, got>>

Length ==
  /\ Read("len")
  /\ ext_len' = Byte
  /\ rx' = "type"
  /\ UNCHANGED <<ext_type, ext_data, check_sum, got>>

(* Definitions named Bad... are deliberate defects: none is part of the    *)
(* specification, each shows that some property would notice it.           *)
BadFinish(type, data, sum, rx_check_num) ==
  /\ ext_len' = 0 /\ ext_type' = 0 /\ ext_data' = <<>> /\ check_sum' = 0
  /\ rx' = "head1"
  /\ got' = [frame |-> [type |-> type, data |-> SubSeq(data, 1, Len(data) - 1)],
             bit |-> 1 - got.bit]

(* The frame is complete, its variables are forgotten: it is parsed if the *)
(* check sum is right.  __parse_data raises an error, which ends the       *)
(* thread, if it unpacks more bytes than data has.                         *)
Finish(type, data, sum, rx_check_num) ==
  /\ ext_len' = 0 /\ ext_type' = 0 /\ ext_data' = <<>> /\ check_sum' = 0
  /\ IF sum % 256 # rx_check_num THEN rx' = "head1" /\ got' = got
     ELSE IF type \in Types /\ Len(data) < Need[type] THEN rx' = "dead" /\ got' = got
     ELSE /\ rx' = "head1"
          /\ got' = [frame |-> [type |-> type, data |-> SubSeq(data, 1, Len(data) - 1)],
                     bit |-> 1 - got.bit]

BadType ==
  /\ Read("type")
  /\ ext_type' = Byte /\ ext_data' = <<>> /\ check_sum' = ext_len + Byte
  /\ rx' = "data" /\ UNCHANGED <<ext_len, got>>

(* A frame may have no data at all, not even a check sum.                  *)
Type ==
  /\ Read("type")
  /\ IF ext_len - 2 > 0
       THEN /\ ext_type' = Byte /\ ext_data' = <<>> /\ check_sum' = ext_len + Byte
            /\ rx' = "data" /\ UNCHANGED <<ext_len, got>>
       ELSE Finish(Byte, <<>>, ext_len + Byte, 0)

(* The data up to the last byte, which is the check sum.                   *)
DataUpTo(data_len) ==
  /\ Read("data")
  /\ IF Len(ext_data) + 1 = data_len
       THEN Finish(ext_type, Append(ext_data, Byte), check_sum, Byte)
       ELSE /\ ext_data' = Append(ext_data, Byte) /\ check_sum' = check_sum + Byte
            /\ UNCHANGED <<rx, ext_len, ext_type, got>>

BadData == DataUpTo(ext_len - 1)

Data == DataUpTo(ext_len - 2)

Receive == Head1 \/ Head2 \/ Length \/ Type \/ Data

Next ==
  \/ \E f \in Frames : Send(f)
  \/ Lose
  \/ \E i \in DOMAIN wire : \E k \in DOMAIN wire[i].left, b \in Noise : Alter(i, k, b)
  \/ Receive

Spec == Init /\ [][Next]_vars

(* The board reports every ten milliseconds; the thread reads what comes.  *)
FairSpec == Spec /\ WF_vars(Receive) /\ WF_vars(\E f \in Frames : Send(f))

-----------------------------------------------------------------------------
TypeOK ==
  /\ wire \in Seq([frame : Frames, left : Seq(Bytes) \ {<<>>}, damaged : BOOLEAN])
  /\ Len(wire) <= MaxWire /\ faults \in 0..MaxFaults
  /\ rx \in {"head1", "head2", "len", "type", "data", "dead"}
  /\ ext_len \in Bytes /\ ext_type \in Bytes /\ ext_data \in Seq(Bytes)
  /\ rx = "data" => Len(ext_data) < ext_len - 2
  /\ check_sum \in Nat
  /\ got.bit \in {0, 1}

(* A body as it is sent, or with a byte altered.                           *)
OneByteOff(s, t) ==
  /\ DOMAIN s = DOMAIN t
  /\ \E k \in DOMAIN t : s[k] # t[k] /\ \A j \in DOMAIN t \ {k} : s[j] = t[j]
Comes(s, w) == IF w.damaged THEN OneByteOff(s, Body(w.frame)) ELSE s = Body(w.frame)

(* The thread is in step: it takes the bytes on the wire for what they     *)
(* are, and has those of the frame that have left the wire.                *)
InStep ==
  IF wire = <<>> THEN rx = "head1"
  ELSE LET w == wire[1]
       IN IF Gone(w) < 4
          THEN /\ rx = <<"head1", "head2", "len", "type">>[Gone(w) + 1]
               /\ Gone(w) = 3 => ext_len = ExtLen(w.frame)
          ELSE /\ rx = "data" /\ ext_len = ExtLen(w.frame) /\ Len(ext_data) = Gone(w) - 4
               /\ check_sum = ext_len + ext_type + Sum(ext_data)
               /\ Comes(<<ext_type>> \o ext_data \o w.left, w)

(* The next byte belongs to a header or a length, and is not as it was sent. *)
Misleading ==
  wire # << >> /\ Gone(wire[1]) < 3 /\ Byte # Encode(wire[1].frame)[Gone(wire[1]) + 1]

(* A thread that is in step gets out of step by a lost byte or by reading  *)
(* an altered byte of a header or length, and by nothing else: no content  *)
(* of a frame and no other altered byte misleads it.                       *)
OnlyFaultsSlip == [][InStep /\ ~InStep' => Lose \/ (Receive /\ Misleading)]_vars

(* In step, every sound frame is parsed once, in order and unchanged, and  *)
(* every frame whose body was altered is dropped, whatever the bytes.      *)
Link == INSTANCE FrameLink WITH
          queue <- [i \in DOMAIN wire |-> [frame |-> wire[i].frame,
                                           damaged |-> wire[i].damaged]],
          sync <- InStep
FramesAreLinked == Link!LinkSpec

(* A frame without a HEAD byte behind its header.                          *)
Tame(f) == Check(f) # HEAD /\ f.type # HEAD /\ \A i \in DOMAIN f.data : f.data[i] # HEAD

(* Resynchronisation: a thread that is out of step gets into step once the *)
(* frames on the wire are tame, unless it has died of bytes that looked    *)
(* like a frame.                                                           *)
GetsInStep ==
  <>[](\A i \in DOMAIN wire : Tame(wire[i].frame)) => <>[](InStep \/ rx = "dead")
=============================================================================
