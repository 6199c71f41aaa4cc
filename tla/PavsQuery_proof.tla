--------------------------- MODULE PavsQuery_proof ---------------------------
(* Theorems about PavsQuery that hold for every set of kinds and servos and *)
(* for every bound.                                                         *)
EXTENDS PavsQuery, TLAPS

(* A reply that exists: a getter's request that has been written.           *)
IsReply(n) == n \in DOMAIN asked /\ asked[n].kind \in Kinds

(* Every reply on the way or being parsed answers a request of a getter,    *)
(* and both threads stay within the orders they follow.                     *)
ThreadsInv ==
  /\ \A i \in DOMAIN link : IsReply(link[i])
  /\ rx.reply # 0 => /\ IsReply(rx.reply)
                     /\ rx.at <= Len(ParseOrder(asked[rx.reply].kind))
  /\ pc # "idle" => kind \in Kinds
  /\ pc \in {"idle", "reset", "poll"} => got = << >>
  /\ pc = "read" => /\ Len(got) = at - 1
                    /\ at <= Len(ReadOrder(kind)) + 1

TypeInv == TypeOK /\ ThreadsInv

(* The orders name attributes only.                                         *)
LEMMA Orders ==
  ASSUME NEW k \in AllKinds
  PROVE  /\ Len(ParseOrder(k)) \in 1..4 /\ 1 <= Len(ParseOrder(k))
         /\ \A j \in 1..Len(ParseOrder(k)) : ParseOrder(k)[j] \in Fields
         /\ Len(ReadOrder(k)) \in 1..3
         /\ \A j \in 1..Len(ReadOrder(k)) : ReadOrder(k)[j] \in Fields
         /\ Len(ReadOrder("version")) = 2
  <1>1. CASE k = "servo"
    BY <1>1 DEF ParseOrder, ReadOrder, Fields, ArmFields
  <1>2. CASE k = "arm"
    BY <1>2 DEF ParseOrder, ReadOrder, Fields, ArmFields
  <1>3. CASE k = "pid"
    BY <1>3 DEF ParseOrder, ReadOrder, Fields, ArmFields
  <1>4. CASE k = "offset"
    BY <1>4 DEF ParseOrder, ReadOrder, Fields, ArmFields
  <1>5. CASE k = "car_type"
    BY <1>5 DEF ParseOrder, ReadOrder, Fields, ArmFields
  <1>6. CASE k = "version"
    BY <1>6 DEF ParseOrder, ReadOrder, Fields, ArmFields
  <1>7. CASE k = "akm"
    BY <1>7 DEF ParseOrder, ReadOrder, Fields, ArmFields
  <1>8. QED BY <1>1, <1>2, <1>3, <1>4, <1>5, <1>6, <1>7 DEF AllKinds

LEMMA ReplyType ==
  ASSUME TypeOK, NEW n, IsReply(n)
  PROVE  n \in Nat \ {0} /\ asked[n].kind \in AllKinds /\ asked[n].id \in Nat
  <1>1. asked \in Seq(Command) /\ n \in 1..Len(asked) /\ Len(asked) \in Nat
    BY DEF TypeOK, IsReply
  <1>2. asked[n] \in Command
    BY <1>1
  <1>3. asked[n].id \in Servos \cup {0}
    BY <1>2 DEF Command
  <1>4. asked[n].id \in Nat
    <2>1. Servos \cup {0} \subseteq Nat
      BY ServosAssumption
    <2>2. QED BY <1>3, <2>1, Zenon
  <1>5. asked[n].kind \in AllKinds
    BY KindsAssumption DEF IsReply
  <1>6. QED BY <1>1, <1>4, <1>5

LEMMA InitType == Init => TypeInv
  <1> SUFFICES ASSUME Init PROVE TypeInv
    OBVIOUS
  <1>1. << >> \in Seq(Command) /\ << >> \in Seq(Nat \ {0}) /\ << >> \in Seq(Nat)
    OBVIOUS
  <1>2. <<0, 0>> \in Seq(Nat) /\ Len(<<0, 0>>) = 2
    OBVIOUS
  <1>3. mem \in [Fields -> Nat] /\ rx \in [reply : Nat, at : Nat \ {0}]
    BY DEF Init
  <1>4. TypeOK
    BY <1>1, <1>2, <1>3 DEF Init, TypeOK, AllKinds
  <1>5. ThreadsInv
    BY DEF Init, ThreadsInv
  <1>6. QED BY <1>4, <1>5 DEF TypeInv

LEMMA CallType ==
  ASSUME TypeInv, NEW k \in Kinds, NEW i \in Ids(k), Call(k, i)
  PROVE  TypeInv'
  <1>1. k \in AllKinds /\ i \in Servos \cup {0}
    BY KindsAssumption DEF Ids
  <1>2. got' \in Seq(Nat)
    <2>1. version \in Seq(Nat) /\ << >> \in Seq(Nat)
      BY DEF TypeInv, TypeOK
    <2>2. QED BY <2>1 DEF Call
  <1>3. TypeOK'
    BY <1>1, <1>2 DEF TypeInv, TypeOK, Call
  <1>4. ThreadsInv'
    <2>1. pc' = "read" => Len(got') = at' - 1 /\ at' <= Len(ReadOrder(kind')) + 1
      BY <1>1, Orders DEF Call
    <2>2. QED BY <2>1 DEF TypeInv, ThreadsInv, Call, IsReply
  <1>5. QED BY <1>3, <1>4 DEF TypeInv

LEMMA ResetType ==
  ASSUME TypeInv, Reset
  PROVE  TypeInv'
  <1>1. mem' \in [Fields -> Nat]
    BY DEF TypeInv, TypeOK, Reset, ResetValue, NoServo
  <1>2. TypeOK' /\ ThreadsInv'
    BY <1>1 DEF TypeInv, TypeOK, ThreadsInv, Reset, IsReply
  <1>3. QED BY <1>2 DEF TypeInv

LEMMA RequestType ==
  ASSUME TypeInv, Request
  PROVE  TypeInv'
  <1> DEFINE n == Len(asked) + 1
  <1>1. asked' \in Seq(Command)
        /\ n \in Nat \ {0} /\ Len(asked') = n /\ asked'[n].kind \in Kinds
        /\ \A m \in DOMAIN asked : m \in DOMAIN asked' /\ asked'[m] = asked[m]
    BY DEF TypeInv, TypeOK, ThreadsInv, Request, Command
  <1>2. link' \in Seq(Nat \ {0}) /\ \A i \in DOMAIN link' : IsReply(link[i])'
    <2>1. CASE link' = Append(link, n)
      <3>1. link' \in Seq(Nat \ {0})
        BY <1>1, <2>1 DEF TypeInv, TypeOK
      <3>2. ASSUME NEW i \in DOMAIN link' PROVE IsReply(link[i])'
        <4>1. CASE i = Len(link) + 1
          BY <1>1, <2>1, <4>1 DEF TypeInv, TypeOK, IsReply
        <4>2. CASE i \in DOMAIN link
          BY <1>1, <2>1, <4>2, SMTT(20) DEF TypeInv, TypeOK, ThreadsInv, IsReply
        <4>3. link \in Seq(Nat \ {0})
          BY DEF TypeInv, TypeOK
        <4>4. i = Len(link) + 1 \/ i \in DOMAIN link
          BY <2>1, <4>3
        <4>5. QED BY <4>1, <4>2, <4>4
      <3>3. QED BY <3>1, <3>2
    <2>2. CASE link' = link
      BY <1>1, <2>2 DEF TypeInv, TypeOK, ThreadsInv, IsReply
    <2>3. QED BY <2>1, <2>2 DEF Request
  <1>3. TypeOK'
    BY <1>1, <1>2, BoundsAssumption DEF TypeInv, TypeOK, Request
  <1>4. ThreadsInv'
    BY <1>1, <1>2 DEF TypeInv, TypeOK, ThreadsInv, Request, IsReply
  <1>5. QED BY <1>3, <1>4 DEF TypeInv

LEMMA PollType ==
  ASSUME TypeInv, PollReady \/ PollAgain \/ GiveUp
  PROVE  TypeInv'
  <1>1. TypeOK'
    <2>1. CASE PollReady \/ GiveUp
      BY <2>1 DEF TypeInv, TypeOK, PollReady, GiveUp
    <2>2. CASE PollAgain
      <3>1. late' \in BOOLEAN
        BY <2>2, Zenon DEF TypeInv, TypeOK, PollAgain
      <3>2. polls' \in Nat
        BY <2>2 DEF TypeInv, TypeOK, PollAgain
      <3>3. QED BY <2>2, <3>1, <3>2 DEF TypeInv, TypeOK, PollAgain
    <2>3. QED BY <2>1, <2>2
  <1>2. Len(ReadOrder(kind)) \in 1..3
    BY Orders DEF TypeInv, TypeOK
  <1>3. ThreadsInv'
    <2>1. CASE PollReady
      BY <1>2, <2>1 DEF TypeInv, TypeOK, ThreadsInv, PollReady, IsReply
    <2>2. CASE PollAgain
      BY <2>2 DEF TypeInv, TypeOK, ThreadsInv, PollAgain, IsReply
    <2>3. CASE GiveUp
      BY <1>2, <2>3 DEF TypeInv, TypeOK, ThreadsInv, GiveUp, IsReply
    <2>4. QED BY <2>1, <2>2, <2>3
  <1>4. QED BY <1>1, <1>3 DEF TypeInv

LEMMA ReadType ==
  ASSUME TypeInv, Read
  PROVE  TypeInv'
  <1>1. /\ Len(ReadOrder(kind)) \in 1..3
        /\ \A j \in 1..Len(ReadOrder(kind)) : ReadOrder(kind)[j] \in Fields
    BY Orders DEF TypeInv, TypeOK
  <1>2. mem[ReadOrder(kind)[at]] \in Nat
    BY <1>1 DEF TypeInv, TypeOK, Read
  <1>3. TypeOK'
    BY <1>2 DEF TypeInv, TypeOK, Read
  <1>4. ThreadsInv'
    BY <1>1, <1>2 DEF TypeInv, TypeOK, ThreadsInv, Read, IsReply
  <1>5. QED BY <1>3, <1>4 DEF TypeInv

LEMMA FinishType ==
  ASSUME TypeInv, Finish
  PROVE  TypeInv'
  <1>1. Len(ReadOrder(kind)) \in 1..3 /\ Len(ReadOrder("version")) = 2
    BY Orders DEF TypeInv, TypeOK
  <1>2. Len(got) = Len(ReadOrder(kind))
    BY <1>1 DEF TypeInv, TypeOK, ThreadsInv, Finish
  <1>3. version' \in Seq(Nat) /\ Len(version') = 2
    BY <1>1, <1>2 DEF TypeInv, TypeOK, Finish
  <1>4. got[1] \in Nat
    <2>1. got \in Seq(Nat) /\ 1 \in 1..Len(got)
      BY <1>1, <1>2 DEF TypeInv, TypeOK
    <2>2. QED BY <2>1
  <1>5. TypeOK'
    BY <1>3, <1>4 DEF TypeInv, TypeOK, Finish
  <1>6. ThreadsInv'
    BY DEF TypeInv, TypeOK, ThreadsInv, Finish, IsReply
  <1>7. QED BY <1>5, <1>6 DEF TypeInv

LEMMA CommandType ==
  ASSUME TypeInv,
         Return \/ SetCarType \/ \E forever \in BOOLEAN : SetAkmDefault(forever)
  PROVE  TypeInv'
  <1>1. CASE Return
    <2>1. TypeOK'
      BY <1>1 DEF TypeInv, TypeOK, Return, AllKinds
    <2>2. ThreadsInv'
      BY <1>1 DEF TypeInv, TypeOK, ThreadsInv, Return, IsReply
    <2>3. QED BY <2>1, <2>2 DEF TypeInv
  <1>2. ASSUME NEW c \in {"set_akm", "try_akm", "set_type"},
               asked' = Append(asked, [kind |-> c, id |-> 0]),
               mem' \in [Fields -> Nat],
               UNCHANGED <<link, rx, version, clientVars>>
        PROVE  TypeInv'
    <2>1. TypeOK'
      BY <1>2 DEF TypeInv, TypeOK, clientVars, Command
    <2>2. \A m \in DOMAIN asked : m \in DOMAIN asked' /\ asked'[m] = asked[m]
      BY <1>2 DEF TypeInv, TypeOK
    <2>3. ThreadsInv'
      BY <1>2, <2>2 DEF TypeInv, TypeOK, ThreadsInv, clientVars, IsReply
    <2>4. QED BY <2>1, <2>3 DEF TypeInv
  <1>3. CASE SetCarType
    BY <1>2, <1>3 DEF SetCarType, TypeInv, TypeOK
  <1>4. ASSUME NEW forever \in BOOLEAN, SetAkmDefault(forever)
        PROVE  TypeInv'
    <2>1. mem' \in [Fields -> Nat]
      <3>1. Len(asked) + 1 \in Nat /\ mem \in [Fields -> Nat]
        BY DEF TypeInv, TypeOK
      <3>2. CASE forever
        BY <1>4, <3>1, <3>2 DEF SetAkmDefault
      <3>3. CASE ~forever
        BY <1>4, <3>1, <3>3 DEF SetAkmDefault
      <3>4. QED BY <3>2, <3>3
    <2>2. QED BY <1>2, <1>4, <2>1 DEF SetAkmDefault
  <1>5. QED BY <1>1, <1>3, <1>4

LEMMA ReceiverType ==
  ASSUME TypeInv, Receive \/ Parse
  PROVE  TypeInv'
  <1>1. CASE Receive
    <2>1. /\ Head(link) = link[1] /\ 1 \in DOMAIN link
          /\ \A i \in DOMAIN Tail(link) :
               i + 1 \in DOMAIN link /\ Tail(link)[i] = link[i + 1]
      BY <1>1 DEF TypeInv, TypeOK, Receive
    <2>2. IsReply(Head(link)) /\ asked[Head(link)].kind \in AllKinds
      BY <2>1, KindsAssumption DEF TypeInv, ThreadsInv, IsReply
    <2>3. 1 <= Len(ParseOrder(asked[Head(link)].kind))
      BY <2>2, Orders
    <2>4. TypeOK'
      BY <1>1, <2>1 DEF TypeInv, TypeOK, Receive, clientVars
    <2>5. ThreadsInv'
      <3>1. asked' = asked /\ link' = Tail(link)
            /\ rx' = [reply |-> Head(link), at |-> 1] /\ UNCHANGED clientVars
        BY <1>1 DEF Receive
      <3>2. \A i \in DOMAIN link' : IsReply(link[i])'
        BY <2>1, <3>1 DEF TypeInv, ThreadsInv, IsReply
      <3>3. (rx.reply # 0 => /\ IsReply(rx.reply)
                            /\ rx.at <= Len(ParseOrder(asked[rx.reply].kind)))'
        <4>1. rx'.reply = Head(link) /\ rx'.at = 1 /\ asked' = asked
          BY <3>1
        <4>2. QED BY <2>2, <2>3, <4>1 DEF IsReply
      <3>4. QED BY <3>1, <3>2, <3>3 DEF TypeInv, ThreadsInv, clientVars
    <2>6. QED BY <2>4, <2>5 DEF TypeInv
  <1>2. CASE Parse
    <2> DEFINE k == asked[rx.reply].kind
               f == ParseOrder(k)[rx.at]
    <2>1. IsReply(rx.reply) /\ k \in AllKinds /\ rx.at \in 1..Len(ParseOrder(k))
      BY <1>2, KindsAssumption, Orders DEF TypeInv, TypeOK, ThreadsInv, IsReply, Parse
    <2>2. Len(ParseOrder(k)) \in 1..4 /\ f \in Fields
      BY <2>1, Orders
    <2>3. ParsedValue(f, rx.reply) \in Nat
      <3>1. asked[rx.reply].id \in Nat /\ rx.reply \in Nat
        BY <2>1, ReplyType DEF TypeInv
      <3>2. QED BY <3>1 DEF ParsedValue
    <2>4. mem' \in [Fields -> Nat] /\ UNCHANGED <<asked, link, version, clientVars>>
      BY <1>2, <2>3 DEF TypeInv, TypeOK, Parse
    <2>5. \/ rx' = [reply |-> 0, at |-> 1]
          \/ rx' = [rx EXCEPT !.at = @ + 1] /\ rx.at # Len(ParseOrder(k))
      BY <1>2 DEF Parse
    <2>6. TypeOK'
      BY <2>4, <2>5, SMTT(20) DEF TypeInv, TypeOK, clientVars
    <2>7. ThreadsInv'
      <3>1. \A i \in DOMAIN link' : IsReply(link[i])'
        BY <2>4 DEF TypeInv, ThreadsInv, IsReply
      <3>2. rx'.reply # 0 => rx'.reply = rx.reply /\ rx'.at = rx.at + 1
                             /\ rx.at # Len(ParseOrder(k))
        BY <2>5 DEF TypeInv, TypeOK
      <3>3. (rx.reply # 0 => /\ IsReply(rx.reply)
                            /\ rx.at <= Len(ParseOrder(asked[rx.reply].kind)))'
        BY <2>1, <2>2, <2>4, <3>2 DEF IsReply
      <3>4. QED BY <2>4, <3>1, <3>3 DEF TypeInv, ThreadsInv, clientVars
    <2>8. QED BY <2>6, <2>7 DEF TypeInv
  <1>3. QED BY <1>1, <1>2

LEMMA NextType ==
  ASSUME TypeInv, [Next]_vars
  PROVE  TypeInv'
  <1>1. CASE \E k \in Kinds : \E i \in Ids(k) : Call(k, i)
    BY <1>1, CallType
  <1>2. CASE Client
    BY <1>2, ResetType, RequestType, PollType, ReadType, FinishType, CommandType
       DEF Client
  <1>3. CASE SetCarType \/ \E forever \in BOOLEAN : SetAkmDefault(forever)
    BY <1>3, CommandType
  <1>4. CASE Receive \/ Parse
    BY <1>4, ReceiverType
  <1>5. CASE UNCHANGED vars
    BY <1>5 DEF vars, TypeInv, TypeOK, ThreadsInv, IsReply
  <1>6. QED
    BY <1>1, <1>2, <1>3, <1>4, <1>5 DEF Next, Terminated

(* The attributes, the link and both threads always hold values of their    *)
(* types: in particular every reply the receive thread parses answers a     *)
(* request that was written, whatever is lost and however late it comes.    *)
THEOREM TypeCorrect == Spec => [](TypeOK /\ ThreadsInv)
  <1>1. Init => TypeInv
    BY InitType
  <1>2. TypeInv /\ [Next]_vars => TypeInv'
    BY NextType
  <1>3. TypeInv <=> TypeOK /\ ThreadsInv
    BY DEF TypeInv
  <1>4. QED BY <1>1, <1>2, <1>3, PTL DEF Spec

-----------------------------------------------------------------------------
(* Once get_akm_default_angle may return an angle, one has been assigned.   *)
AkmInv ==
  /\ mem["akm_readed"] = 1 => mem["akm_angle"] # 0
  /\ rx.reply # 0 /\ rx.at = 2 /\ asked[rx.reply].kind = "akm"
       => mem["akm_angle"] # 0
  /\ pc = "read" /\ kind = "akm" => mem["akm_readed"] = 1
  /\ kind = "akm" /\ got # << >> => got[1] # 0

(* No getter resets the two attributes of get_akm_default_angle.            *)
LEMMA ResetKeepsAkm ==
  ASSUME TypeInv, Reset
  PROVE  UNCHANGED <<mem["akm_readed"], mem["akm_angle"], mem["car_type"]>>
  <1>1. kind \in AllKinds /\ at \in 1..Len(ResetOrder(kind))
    BY DEF TypeInv, TypeOK, Reset
  <1>2. {"akm_readed", "akm_angle", "car_type"} \cap ResetOrder(kind)[at] = {}
    <2>1. CASE kind = "servo"
      BY <1>1, <2>1 DEF ResetOrder
    <2>2. CASE kind = "arm"
      BY <1>1, <2>2 DEF ResetOrder, ArmFields
    <2>3. CASE kind = "pid"
      BY <1>1, <2>3 DEF ResetOrder
    <2>4. CASE kind = "offset"
      BY <1>1, <2>4 DEF ResetOrder
    <2>5. CASE kind \in {"car_type", "version", "akm"}
      BY <1>1, <2>5 DEF ResetOrder
    <2>6. QED BY <1>1, <2>1, <2>2, <2>3, <2>4, <2>5 DEF AllKinds
  <1>3. QED BY <1>2 DEF Reset, Fields

(* What a step of Parse does to those attributes.                           *)
LEMMA ParseEffect ==
  ASSUME TypeInv, Parse
  PROVE  LET k == asked[rx.reply].kind IN
         /\ k = "akm" /\ rx.at = 1 =>
              mem' = [mem EXCEPT !["akm_angle"] = rx.reply]
         /\ k = "akm" /\ rx.at # 1 =>
              mem' = [mem EXCEPT !["akm_readed"] = 1] /\ rx'.reply = 0
         /\ k # "akm" => UNCHANGED <<mem["akm_readed"], mem["akm_angle"]>>
         /\ k = "car_type" =>
              mem' = [mem EXCEPT !["car_type"] = rx.reply] /\ rx'.reply = 0
         /\ k # "car_type" => UNCHANGED mem["car_type"]
         /\ rx'.reply \in {0, rx.reply}
  <1> DEFINE k == asked[rx.reply].kind
  <1>1. k \in AllKinds /\ rx.at \in 1..Len(ParseOrder(k)) /\ rx.reply \in Nat
    BY ReplyType, Orders, SMTT(20) DEF TypeInv, TypeOK, ThreadsInv, Parse
  <1>2. rx'.reply \in {0, rx.reply}
        /\ (rx.at = Len(ParseOrder(k)) => rx'.reply = 0)
    BY DEF TypeInv, TypeOK, Parse
  <1> mem' = [mem EXCEPT ![ParseOrder(k)[rx.at]]
                         = ParsedValue(ParseOrder(k)[rx.at], rx.reply)]
    BY DEF Parse
  <1>3. CASE k = "akm"
    <2>1. Len(ParseOrder(k)) = 2
          /\ ParseOrder(k)[1] = "akm_angle" /\ ParseOrder(k)[2] = "akm_readed"
      BY <1>3 DEF ParseOrder
    <2>2. /\ ParsedValue("akm_angle", rx.reply) = rx.reply
          /\ ParsedValue("akm_readed", rx.reply) = 1
      BY DEF ParsedValue
    <2>3. CASE rx.at = 1
      BY <1>2, <1>3, <2>1, <2>2, <2>3 DEF TypeInv, TypeOK, Fields
    <2>4. CASE rx.at = 2
      BY <1>2, <1>3, <2>1, <2>2, <2>4 DEF TypeInv, TypeOK, Fields
    <2>5. rx.at \in {1, 2}
      <3>1. rx.at \in 1..2
        BY <1>1, <2>1
      <3>2. QED BY <3>1
    <2>6. QED BY <2>3, <2>4, <2>5
  <1>4. CASE k = "car_type"
    <2>1. Len(ParseOrder(k)) = 1 /\ ParseOrder(k)[1] = "car_type"
      BY <1>4 DEF ParseOrder
    <2>2. ParsedValue("car_type", rx.reply) = rx.reply /\ rx.at = 1
      BY <1>1, <2>1 DEF ParsedValue
    <2>3. QED BY <1>2, <1>4, <2>1, <2>2 DEF TypeInv, TypeOK, Fields
  <1>5. CASE k \in {"servo", "arm", "version", "pid", "offset"}
    <2>1. ParseOrder(k)[rx.at] \notin {"akm_readed", "akm_angle", "car_type"}
      <3>1. CASE k = "servo"
        BY <1>1, <3>1 DEF ParseOrder
      <3>2. CASE k = "arm"
        BY <1>1, <3>2 DEF ParseOrder
      <3>3. CASE k = "version"
        BY <1>1, <3>3 DEF ParseOrder
      <3>4. CASE k = "pid"
        BY <1>1, <3>4 DEF ParseOrder
      <3>5. CASE k = "offset"
        BY <1>1, <3>5 DEF ParseOrder
      <3>6. QED BY <1>5, <3>1, <3>2, <3>3, <3>4, <3>5
    <2>2. QED BY <1>2, <1>5, <2>1 DEF TypeInv, TypeOK, Parse, Fields
  <1>6. QED BY <1>1, <1>3, <1>4, <1>5 DEF AllKinds

LEMMA AkmStep ==
  ASSUME TypeInv, AkmInv, [Next]_vars
  PROVE  AkmInv'
  <1> USE DEF AkmInv
  <1>1. ASSUME NEW k \in Kinds, NEW i \in Ids(k), Call(k, i)
        PROVE  AkmInv'
    <2>1. k = "akm" => got' = << >>
      BY <1>1 DEF Call
    <2>2. (kind = "akm" /\ pc = "read" => mem["akm_readed"] = 1)'
      BY <1>1 DEF Call
    <2>3. QED BY <1>1, <2>1, <2>2 DEF Call
  <1>2. CASE Reset
    <2>1. UNCHANGED <<asked, rx, kind, pc, got>>
      BY <1>2 DEF Reset
    <2>2. QED BY <1>2, <2>1, ResetKeepsAkm
  <1>3. CASE Request
    <2>1. rx.reply # 0 => asked'[rx.reply] = asked[rx.reply]
      BY <1>3 DEF TypeInv, TypeOK, ThreadsInv, IsReply, Request
    <2>2. QED BY <1>3, <2>1 DEF Request
  <1>4. CASE PollReady \/ PollAgain \/ GiveUp
    <2>1. got = << >>
      BY <1>4 DEF TypeInv, ThreadsInv, PollReady, PollAgain, GiveUp
    <2>2. kind = "akm" /\ pc' = "read" => mem["akm_readed"] = 1
      BY <1>4 DEF PollReady, PollAgain, GiveUp, Ready
    <2>3. QED BY <1>4, <2>1, <2>2 DEF PollReady, PollAgain, GiveUp
  <1>5. CASE Read
    <2>1. kind = "akm" => /\ at = 1 /\ got = << >>
                          /\ got' = Append(got, mem["akm_angle"])
      BY <1>5 DEF Read, ReadOrder, TypeInv, TypeOK, ThreadsInv
    <2>2. kind = "akm" => got'[1] # 0
      BY <1>5, <2>1 DEF Read
    <2>3. QED BY <1>5, <2>2 DEF Read
  <1>6. CASE Finish
    <2>1. UNCHANGED <<mem["akm_readed"], mem["akm_angle"]>>
      BY <1>6 DEF Finish, TypeInv, TypeOK, Fields
    <2>2. QED BY <1>6, <2>1 DEF Finish
  <1>7. CASE Return
    BY <1>7 DEF Return
  <1>8. CASE SetCarType \/ \E forever \in BOOLEAN : SetAkmDefault(forever)
    <2>1. rx.reply # 0 => asked'[rx.reply] = asked[rx.reply]
      <3>1. PICK c : asked' = Append(asked, c)
        BY <1>8 DEF SetCarType, SetAkmDefault
      <3>2. QED BY <3>1 DEF TypeInv, TypeOK, ThreadsInv, IsReply
    <2>2. mem' = mem \/ mem' = [mem EXCEPT !["akm_angle"] = Len(asked) + 1]
      BY <1>8 DEF SetCarType, SetAkmDefault
    <2>3. mem["akm_angle"] # 0 => mem'["akm_angle"] # 0
      BY <2>2 DEF TypeInv, TypeOK, Fields
    <2>4. mem'["akm_readed"] = mem["akm_readed"]
      BY <2>2 DEF TypeInv, TypeOK, Fields
    <2>5. UNCHANGED <<rx, pc, kind, got>>
      BY <1>8 DEF SetCarType, SetAkmDefault, clientVars
    <2>6. QED BY <2>1, <2>3, <2>4, <2>5
  <1>9. CASE Receive
    <2>1. rx'.at = 1 /\ UNCHANGED <<asked, mem, pc, kind, got>>
      BY <1>9 DEF Receive, clientVars
    <2>2. QED BY <2>1
  <1>10. CASE Parse
    <2>1. UNCHANGED <<asked, pc, kind, got>>
      BY <1>10 DEF Parse, clientVars
    <2>2. rx'.reply # 0 => rx'.reply = rx.reply /\ rx'.at = rx.at + 1
      BY <1>10 DEF Parse, TypeInv, TypeOK
    <2>3. rx.reply \in Nat \ {0} /\ rx.at \in Nat \ {0}
      BY <1>10, ReplyType DEF Parse, TypeInv, TypeOK, ThreadsInv
    <2>4. CASE asked[rx.reply].kind = "akm" /\ rx.at = 1
      <3>1. mem' = [mem EXCEPT !["akm_angle"] = rx.reply]
        BY <1>10, <2>4, ParseEffect
      <3>2. mem'["akm_angle"] # 0 /\ mem'["akm_readed"] = mem["akm_readed"]
        BY <2>3, <3>1 DEF TypeInv, TypeOK, Fields
      <3>3. QED BY <2>1, <3>2
    <2>5. CASE asked[rx.reply].kind = "akm" /\ rx.at # 1
      <3>1. mem' = [mem EXCEPT !["akm_readed"] = 1] /\ rx'.reply = 0
        BY <1>10, <2>5, ParseEffect
      <3>2. rx.at = 2
        BY <1>10, <2>5, <2>3 DEF TypeInv, ThreadsInv, Parse, ParseOrder
      <3>3. mem'["akm_angle"] = mem["akm_angle"] /\ mem'["akm_readed"] = 1
        BY <3>1 DEF TypeInv, TypeOK, Fields
      <3>4. QED BY <1>10, <2>1, <2>5, <3>1, <3>2, <3>3 DEF Parse
    <2>6. CASE asked[rx.reply].kind # "akm"
      BY <1>10, <2>1, <2>2, <2>6, ParseEffect
    <2>7. QED BY <2>4, <2>5, <2>6
  <1>11. CASE UNCHANGED vars
    BY <1>11 DEF vars
  <1>12. QED
    BY <1>1, <1>2, <1>3, <1>4, <1>5, <1>6, <1>7, <1>8, <1>9, <1>10, <1>11
       DEF Next, Client, Terminated

(* get_akm_default_angle never returns the placeholder of __init__, in any  *)
(* interleaving of the two threads and with any losses and delays.          *)
THEOREM AkmCorrect == Spec => []AkmNeverPlaceholder
  <1>1. Init => TypeInv /\ AkmInv
    BY InitType DEF Init, AkmInv, Fields
  <1>2. TypeInv /\ AkmInv /\ [Next]_vars => (TypeInv /\ AkmInv)'
    BY NextType, AkmStep
  <1>3. AkmInv => AkmNeverPlaceholder
    BY DEF AkmInv, AkmNeverPlaceholder, Answers
  <1>4. QED BY <1>1, <1>2, <1>3, PTL DEF Spec

-----------------------------------------------------------------------------
(* The replies after n: everything still on its way is newer than n.        *)
Passed(n) ==
  /\ n <= Len(asked)
  /\ \A i \in DOMAIN link : n < link[i]
  /\ rx.reply # 0 => n < rx.reply

(* The link is in order, and what the client was given or is about to be    *)
(* given has left it; an answer not yet cleared has not been returned.      *)
OnceInv ==
  /\ \A i, j \in DOMAIN link : i < j => link[i] < link[j]
  /\ \A i \in DOMAIN link : rx.reply < link[i]
  /\ Passed(taken) /\ Passed(mem["car_type"])
  /\ mem["car_type"] # 0 => taken < mem["car_type"]
  /\ pc = "read" /\ kind = "car_type" =>
       /\ mem["car_type"] # 0
       /\ at = 2 => taken < got[1] /\ Passed(got[1])

LEMMA OnceStep ==
  ASSUME TypeInv, OnceInv, [Next]_vars
  PROVE  OnceInv'
  <1> USE DEF OnceInv, Passed
  <1> mem["car_type"] \in Nat /\ taken \in Nat /\ Len(asked) \in Nat
      /\ link \in Seq(Nat \ {0}) /\ rx.reply \in Nat
    BY DEF TypeInv, TypeOK, Fields
  <1>1. ASSUME NEW k \in Kinds, NEW i \in Ids(k), Call(k, i)
        PROVE  OnceInv'
    BY <1>1 DEF Call
  <1>2. CASE Reset
    BY <1>2, ResetKeepsAkm DEF Reset
  <1>3. CASE Request
    <2>1. Len(asked') = Len(asked) + 1
      BY <1>3 DEF Request, TypeInv, TypeOK
    <2>2. rx.reply <= Len(asked) /\ \A i \in DOMAIN link : link[i] <= Len(asked)
      BY DEF TypeInv, TypeOK, ThreadsInv, IsReply
    <2>3. CASE link' = Append(link, Len(asked) + 1)
      <3>1. \A i \in DOMAIN link' :
              \/ i \in DOMAIN link /\ link'[i] = link[i]
              \/ i = Len(link) + 1 /\ link'[i] = Len(asked) + 1
        BY <2>3
      <3>2. \A i \in DOMAIN link' : i \in Nat
        BY <2>3
      <3>3. UNCHANGED <<rx, mem, taken>> /\ pc' = "poll"
        BY <1>3 DEF Request
      <3>4. \A i, j \in DOMAIN link' : i < j => link'[i] < link'[j]
        <4>1. ASSUME NEW i \in DOMAIN link', NEW j \in DOMAIN link', i < j
              PROVE  link'[i] < link'[j]
          <5>1. i \in DOMAIN link /\ link'[i] = link[i]
            BY <2>3, <3>1, <4>1
          <5>2. CASE j \in DOMAIN link /\ link'[j] = link[j]
            BY <4>1, <5>1, <5>2
          <5>3. CASE j = Len(link) + 1 /\ link'[j] = Len(asked) + 1
            BY <2>2, <5>1, <5>3
          <5>4. QED BY <3>1, <5>2, <5>3
        <4>2. QED BY <4>1
      <3>5. \A i \in DOMAIN link' : rx.reply < link'[i]
        BY <2>2, <3>1
      <3>6. \A i \in DOMAIN link' : taken < link'[i] /\ mem["car_type"] < link'[i]
        BY <2>2, <3>1
      <3>7. QED BY <2>1, <3>3, <3>4, <3>5, <3>6
    <2>4. CASE link' = link
      BY <1>3, <2>1, <2>4 DEF Request
    <2>5. QED BY <1>3, <2>3, <2>4 DEF Request
  <1>4. CASE PollReady \/ PollAgain \/ GiveUp
    <2>1. CASE PollReady
      <3>1. kind = "car_type" => mem["car_type"] # 0
        BY <2>1 DEF PollReady, Ready
      <3>2. QED BY <2>1, <3>1 DEF PollReady
    <2>2. CASE PollAgain
      BY <2>2 DEF PollAgain
    <2>3. CASE GiveUp
      BY <2>3 DEF GiveUp
    <2>4. QED BY <1>4, <2>1, <2>2, <2>3
  <1>5. CASE Read
    <2>1. kind = "car_type" => got' = Append(got, mem["car_type"]) /\ at = 1
                               /\ got = << >> /\ at' = 2
      BY <1>5 DEF Read, ReadOrder, TypeInv, TypeOK, ThreadsInv
    <2>2. kind = "car_type" => got'[1] = mem["car_type"]
      BY <2>1
    <2>3. QED BY <1>5, <2>2 DEF Read
  <1>6. CASE Finish
    <2>1. CASE kind = "car_type"
      <3>1. at = 2
        BY <1>6, <2>1 DEF Finish, ReadOrder, TypeInv, TypeOK, ThreadsInv
      <3>2. mem'["car_type"] = 0 /\ taken' = got[1]
        BY <1>6, <2>1 DEF Finish, TypeInv, TypeOK, Fields
      <3>3. QED BY <1>6, <2>1, <3>1, <3>2 DEF Finish
    <2>2. CASE kind # "car_type"
      BY <1>6, <2>2 DEF Finish
    <2>3. QED BY <2>1, <2>2
  <1>7. CASE Return
    BY <1>7 DEF Return
  <1>8. CASE SetCarType \/ \E forever \in BOOLEAN : SetAkmDefault(forever)
    <2>1. Len(asked') = Len(asked) + 1
      <3>1. PICK c : asked' = Append(asked, c)
        BY <1>8 DEF SetCarType, SetAkmDefault
      <3>2. QED BY <3>1 DEF TypeInv, TypeOK
    <2>2. mem'["car_type"] = mem["car_type"]
      BY <1>8 DEF SetCarType, SetAkmDefault, TypeInv, TypeOK, Fields
    <2>3. UNCHANGED <<link, rx, taken, pc, kind, at, got>>
      BY <1>8 DEF SetCarType, SetAkmDefault, clientVars
    <2>4. pc = "idle"
      BY <1>8 DEF SetCarType, SetAkmDefault
    <2>5. QED BY <2>1, <2>2, <2>3, <2>4
  <1>9. CASE Receive
    <2>1. /\ rx.reply = 0 /\ rx'.reply = link[1] /\ 1 \in DOMAIN link
          /\ \A i \in DOMAIN link' : i + 1 \in DOMAIN link /\ link'[i] = link[i + 1]
      BY <1>9 DEF Receive
    <2>2. UNCHANGED <<asked, mem, taken, pc, kind, at, got>>
      BY <1>9 DEF Receive, clientVars
    <2>3. \A i \in DOMAIN link' : i \in Nat /\ 1 < i + 1
      BY <1>9 DEF Receive
    <2>4. \A i, j \in DOMAIN link' : i < j => link'[i] < link'[j]
      BY <2>1, <2>3
    <2>5. \A i \in DOMAIN link' : rx'.reply < link'[i]
      BY <2>1, <2>3
    <2>6. ASSUME NEW n, Passed(n) PROVE Passed(n)'
      BY <2>1, <2>2, <2>6
    <2>7. Passed(taken)' /\ Passed(mem["car_type"])'
      BY <2>2, <2>6
    <2>8. pc = "read" /\ kind = "car_type" /\ at = 2 => Passed(got[1])'
      BY <2>1, <2>2
    <2>9. QED BY <2>2, <2>4, <2>5, <2>7, <2>8
  <1>10. CASE Parse
    <2>1. UNCHANGED <<asked, link, taken, pc, kind, at, got>>
      BY <1>10 DEF Parse, clientVars
    <2>2. rx'.reply \in {0, rx.reply} /\ rx.reply # 0 /\ rx.reply <= Len(asked)
      BY <1>10, ParseEffect DEF Parse, TypeInv, TypeOK, ThreadsInv, IsReply
    <2>3. \/ mem'["car_type"] = mem["car_type"]
          \/ mem'["car_type"] = rx.reply /\ rx'.reply = 0
      BY <1>10, ParseEffect DEF TypeInv, TypeOK, Fields
    <2>4. QED BY <2>1, <2>2, <2>3
  <1>11. CASE UNCHANGED vars
    BY <1>11 DEF vars
  <1>12. QED
    BY <1>1, <1>2, <1>3, <1>4, <1>5, <1>6, <1>7, <1>8, <1>9, <1>10, <1>11
       DEF Next, Client, Terminated

(* No two calls of get_car_type_from_machine return the same reply, and a   *)
(* later call never returns an older one, however late the replies are.     *)
THEOREM CarTypeCorrect == Spec => CarTypeOnce
  <1>1. Init => TypeInv /\ OnceInv
    <2>1. Init => OnceInv
      BY DEF Init, OnceInv, Passed, Fields
    <2>2. QED BY <2>1, InitType
  <1>2. TypeInv /\ OnceInv /\ [Next]_vars => (TypeInv /\ OnceInv)'
    BY NextType, OnceStep
  <1>3. TypeInv /\ OnceInv /\ [Next]_vars
          => [pc = "read" /\ pc' = "done" /\ kind = "car_type"
                => got[1] > taken]_vars
    <2> SUFFICES ASSUME TypeInv, OnceInv, Next,
                        pc = "read", pc' = "done", kind = "car_type"
                 PROVE  got[1] > taken
      OBVIOUS
    <2>1. Finish
      BY DEF Next, Client, Call, Reset, Request, PollReady, PollAgain, GiveUp,
             Read, Return, SetAkmDefault, SetCarType, Receive, Parse,
             Terminated, clientVars, vars
    <2>2. at = 2
      BY <2>1 DEF Finish, ReadOrder, TypeInv, TypeOK, ThreadsInv
    <2>3. got[1] \in Nat /\ taken \in Nat
      <3>1. got \in Seq(Nat) /\ Len(got) = 1 /\ taken \in Nat
        BY <2>2 DEF TypeInv, TypeOK, ThreadsInv
      <3>2. QED BY <3>1
    <2>4. QED BY <2>2, <2>3 DEF OnceInv
  <1>4. QED BY <1>1, <1>2, <1>3, PTL DEF Spec, CarTypeOnce
-----------------------------------------------------------------------------
(* With prompt replies.  A getter that has seen its condition may go on     *)
(* while the rest of its reply is assigned, if the reply begins with what   *)
(* the condition is about; otherwise nothing is left of the reply.          *)
Split == {"servo", "version", "pid", "offset"}
Rest == rx.reply # 0 => rx.at > 1 /\ asked[rx.reply].kind \in Split
Quiet == link = << >> /\ Rest

(* The statement before which the condition of the last call may still be   *)
(* true.                                                                    *)
Cleared(k) ==
  CASE k = "servo"  -> 2
    [] k = "arm"    -> 3
    [] k = "pid"    -> 5
    [] k = "offset" -> 2
    [] OTHER        -> 1

(* While a getter polls, only its own reply is on the way.                  *)
PollInv ==
  pc = "poll" =>
    /\ Current > 0 /\ asked[Current].kind = kind
    /\ link = << >> \/ (link = <<Current>> /\ rx.reply # Current)
    /\ rx.reply # Current => Rest
    /\ Ready(kind) \/ polls = 0 => Quiet
    /\ polls = 0 => ~Ready(kind)

(* The condition of a getter is false when its request is written, and at   *)
(* any other time nothing but the end of a reply is on the way.             *)
CallInv ==
  /\ pc # "poll" => Quiet
  /\ pc = "reset" /\ at >= Cleared(kind) => ~Ready(kind)

(* The arm's array, the car type and the angle are the current reply's.     *)
ArmInv ==
  kind = "arm" =>
    /\ pc = "poll" =>
         /\ rx.reply = Current /\ rx.at > 1 => mem["arm1"] = Current
         /\ rx.reply = Current /\ rx.at > 2 => mem["arm2"] = Current
    /\ pc = "read" \/ (pc = "poll" /\ mem["arm_ok"] = 1) =>
         mem["arm1"] = Current /\ mem["arm2"] = Current

CarInv ==
  /\ mem["car_type"] # 0 =>
       pc \in {"poll", "read"} /\ kind = "car_type" /\ mem["car_type"] = Current
  /\ pc = "read" /\ kind = "car_type" => mem["car_type"] # 0

GotInv ==
  kind \in {"arm", "car_type"} /\ pc \in {"read", "done"} =>
    \A i \in DOMAIN got : got[i] = Current

SetInv ==
  \A n \in DOMAIN asked : asked[n].kind = "set_akm" =>
    /\ mem["akm_angle"] >= n
    /\ kind = "akm" /\ pc \in {"read", "done"} /\ got # << >> => got[1] >= n

VersionInv ==
  /\ mem["version_H"] # 0 =>
       version[1] # 0 \/ (kind = "version" /\ pc \in {"poll", "read"})
  /\ kind = "version" /\ pc = "read" => mem["version_H"] # 0
  /\ kind = "version" /\ pc \in {"read", "done"} /\ got # << >> => got[1] # 0

PromptInv ==
  ~late => PollInv /\ CallInv /\ ArmInv /\ CarInv /\ GotInv /\ SetInv /\ VersionInv

(* What the conditions are about, and the attributes of the three answers;  *)
(* the end of a reply is about none of them.                                *)
Key == {"read_id", "arm_ok", "pid_index", "offset_id", "car_type", "version_H",
        "akm_readed", "akm_angle"} \cup ArmFields

LEMMA ReadyKept ==
  ASSUME kind \in AllKinds, kind' = kind, id' = id, \A f \in Key : mem'[f] = mem[f]
  PROVE  Ready(kind)' = Ready(kind)
  <1>1. /\ mem'["read_id"] = mem["read_id"] /\ mem'["arm_ok"] = mem["arm_ok"]
        /\ mem'["pid_index"] = mem["pid_index"] /\ mem'["offset_id"] = mem["offset_id"]
        /\ mem'["car_type"] = mem["car_type"] /\ mem'["version_H"] = mem["version_H"]
        /\ mem'["akm_readed"] = mem["akm_readed"]
    BY DEF Key
  <1>2. CASE kind \in {"servo", "arm", "pid"}
    BY <1>1, <1>2 DEF Ready
  <1>3. CASE kind \in {"offset", "car_type", "version", "akm"}
    BY <1>1, <1>3 DEF Ready
  <1>4. QED BY <1>2, <1>3 DEF AllKinds

LEMMA RestParse ==
  ASSUME TypeInv, Parse, Rest
  PROVE  Rest' /\ \A f \in Key : mem'[f] = mem[f]
  <1> DEFINE k == asked[rx.reply].kind
  <1>1. k \in Split /\ rx.at \in 2 .. Len(ParseOrder(k))
    BY ReplyType, Orders DEF TypeInv, TypeOK, ThreadsInv, Parse, Rest
  <1>2. ParseOrder(k)[rx.at] \notin Key
    <2>1. CASE k = "servo"
      BY <1>1, <2>1 DEF ParseOrder, Key, ArmFields
    <2>2. CASE k = "version"
      BY <1>1, <2>2 DEF ParseOrder, Key, ArmFields
    <2>3. CASE k = "pid"
      BY <1>1, <2>3 DEF ParseOrder, Key, ArmFields
    <2>4. CASE k = "offset"
      BY <1>1, <2>4 DEF ParseOrder, Key, ArmFields
    <2>5. QED BY <1>1, <2>1, <2>2, <2>3, <2>4 DEF Split
  <1>3. \A f \in Key : mem'[f] = mem[f]
    BY <1>2 DEF Parse, TypeInv, TypeOK, Key, Fields
  <1>4. Rest'
    <2>1. asked' = asked
      BY DEF Parse
    <2>2. rx'.reply # 0 => rx'.reply = rx.reply /\ rx'.at = rx.at + 1
      BY DEF Parse, TypeInv, TypeOK
    <2>3. QED BY <1>1, <2>1, <2>2 DEF Rest
  <1>5. QED BY <1>3, <1>4

(* What the reply a getter waits for assigns.                               *)
LEMMA OwnParse ==
  ASSUME TypeInv, PromptInv, ~late, Parse, ~Rest
  PROVE  /\ pc = "poll" /\ rx.reply = Current /\ asked[Current].kind = kind
         /\ link = << >> /\ ~Ready(kind) /\ polls # 0
         /\ mem' = [mem EXCEPT ![ParseOrder(kind)[rx.at]]
                                = ParsedValue(ParseOrder(kind)[rx.at], Current)]
         /\ rx' = IF rx.at = Len(ParseOrder(kind)) THEN [reply |-> 0, at |-> 1]
                                          ELSE [reply |-> Current, at |-> rx.at + 1]
  <1>1. pc = "poll" /\ rx.reply = Current /\ asked[Current].kind = kind
    BY DEF PromptInv, CallInv, Quiet, PollInv
  <1>2. link = << >> /\ ~Ready(kind) /\ polls # 0
    BY <1>1 DEF PromptInv, PollInv, Quiet
  <1>3. rx.at # Len(ParseOrder(kind)) =>
          rx' = [reply |-> Current, at |-> rx.at + 1]
    BY <1>1 DEF Parse, TypeInv, TypeOK
  <1>4. QED BY <1>1, <1>2, <1>3 DEF Parse

LEMMA PromptOwn ==
  ASSUME TypeInv, PromptInv, ~late, Parse, ~Rest
  PROVE  PromptInv'
  <1> DEFINE f == ParseOrder(kind)[rx.at]
  <1> /\ pc = "poll" /\ rx.reply = Current /\ asked[Current].kind = kind
      /\ link = << >> /\ ~Ready(kind) /\ polls # 0
      /\ mem' = [mem EXCEPT ![f] = ParsedValue(f, Current)]
      /\ rx' = IF rx.at = Len(ParseOrder(kind)) THEN [reply |-> 0, at |-> 1]
                                       ELSE [reply |-> Current, at |-> rx.at + 1]
    BY OwnParse
  <1>1. kind \in AllKinds /\ rx.at \in 1 .. Len(ParseOrder(kind)) /\ Current \in Nat \ {0}
    BY ReplyType, Orders DEF TypeInv, TypeOK, ThreadsInv, Parse
  <1>2. UNCHANGED <<asked, link, version, pc, kind, id, at, polls, got, late>>
        /\ Current' = Current
    BY DEF Parse, clientVars, Current
  <1>3. mem \in [Fields -> Nat] /\ rx \in [reply : Nat, at : Nat \ {0}] /\ got = << >>
    BY DEF TypeInv, TypeOK, ThreadsInv
  <1>4. CASE kind \in Split
    <2>1. rx.at = 1
      BY <1>1, <1>4 DEF Rest
    <2>2. f \in {"read_id", "version_H", "pid_index", "offset_id"}
          /\ (kind = "version" <=> f = "version_H") /\ Len(ParseOrder(kind)) # 1
      BY <1>4, <2>1 DEF Split, ParseOrder
    <2>3. rx' = [reply |-> Current, at |-> 2] /\ \A g \in Fields \ {f} : mem'[g] = mem[g]
      <3>1. rx' = [reply |-> Current, at |-> rx.at + 1]
        <4>1. rx.at # Len(ParseOrder(kind))
          BY <2>1, <2>2, Zenon
        <4>2. QED BY <4>1
      <3>2. \A g \in Fields \ {f} : mem'[g] = mem[g]
        BY <1>3
      <3>3. QED BY <1>3, <2>1, <3>1, <3>2
    <2>4. Rest'
      BY <1>2, <1>3, <1>4, <2>3 DEF Rest
    <2>5. PollInv' /\ CallInv'
      BY <1>1, <1>2, <1>3, <2>3, <2>4 DEF PollInv, CallInv, Quiet
    <2>6. ArmInv' /\ CarInv' /\ GotInv' /\ SetInv'
      BY <1>2, <1>3, <1>4, <2>2, <2>3
         DEF PromptInv, ArmInv, CarInv, GotInv, SetInv, Split, Fields, ArmFields
    <2>7. VersionInv'
      BY <1>2, <1>3, <2>2, <2>3 DEF PromptInv, VersionInv, Fields
    <2>8. QED BY <2>5, <2>6, <2>7 DEF PromptInv
  <1>5. CASE kind \in {"arm", "akm"}
    <2>1. kind = "arm" => /\ Len(ParseOrder(kind)) = 3 /\ rx.at \in 1..3
                          /\ rx.at = 1 => f = "arm1"
                          /\ rx.at = 2 => f = "arm2"
                          /\ rx.at = 3 => f = "arm_ok"
      BY <1>1 DEF ParseOrder
    <2>2. kind = "akm" => /\ Len(ParseOrder(kind)) = 2 /\ rx.at \in 1..2
                          /\ rx.at = 1 => f = "akm_angle"
                          /\ rx.at = 2 => f = "akm_readed"
      BY <1>1 DEF ParseOrder
    <2>3. /\ mem' = [mem EXCEPT ![f] = ParsedValue(f, Current)]
          /\ f \in {"arm1", "arm2", "akm_angle"} => ParsedValue(f, Current) = Current
      BY DEF ParsedValue
    <2>4. rx.at # Len(ParseOrder(kind)) => f \in {"arm1", "arm2", "akm_angle"}
      <3>1. CASE kind = "arm"
        BY <1>1, <3>1 DEF ParseOrder
      <3>2. CASE kind = "akm"
        BY <1>1, <3>2 DEF ParseOrder
      <3>3. QED BY <1>5, <3>1, <3>2
    <2>5. PollInv' /\ CallInv'
      <3>1. CASE rx.at = Len(ParseOrder(kind))
        <4>1. Rest'
          BY <3>1 DEF Rest
        <4>2. QED BY <1>1, <1>2, <1>3, <3>1, <4>1 DEF PollInv, CallInv, Quiet
      <3>2. CASE rx.at # Len(ParseOrder(kind))
        <4>1. ~Ready(kind)'
          <5>1. \A g \in Fields \ {f} : mem'[g] = mem[g]
            BY <1>3, <2>3
          <5>2. f \in {"arm1", "arm2", "akm_angle"}
            BY <2>4, <3>2
          <5>3. mem'["arm_ok"] = mem["arm_ok"] /\ mem'["akm_readed"] = mem["akm_readed"]
            BY <5>1, <5>2 DEF Fields
          <5>4. QED BY <1>2, <1>5, <5>3 DEF Ready
        <4>2. rx'.reply = Current
          BY <1>3, <3>2
        <4>3. QED BY <1>1, <1>2, <4>1, <4>2 DEF PollInv, CallInv
      <3>3. QED BY <3>1, <3>2
    <2>6. f \in {"arm1", "arm2", "arm_ok", "akm_angle", "akm_readed"}
          /\ \A g \in Fields \ {f} : mem'[g] = mem[g]
          /\ mem'[f] = ParsedValue(f, Current)
      <3>1. f \in {"arm1", "arm2", "arm_ok", "akm_angle", "akm_readed"}
        BY <1>5, <2>1, <2>2
      <3>2. QED BY <1>3, <2>3, <3>1 DEF Fields, ArmFields
    <2>7. ArmInv'
      <3>1. /\ mem'["arm1"] = IF f = "arm1" THEN Current ELSE mem["arm1"]
            /\ mem'["arm2"] = IF f = "arm2" THEN Current ELSE mem["arm2"]
            /\ f # "arm_ok" => mem'["arm_ok"] = mem["arm_ok"]
        BY <2>3, <2>6 DEF Fields, ArmFields
      <3>2. SUFFICES ASSUME kind = "arm" PROVE ArmInv'
        BY <1>2 DEF ArmInv
      <3>3. mem["arm_ok"] # 1
        BY <3>2 DEF Ready
      <3>4. /\ rx.at > 1 => mem["arm1"] = Current
            /\ rx.at > 2 => mem["arm2"] = Current
        BY <3>2 DEF PromptInv, ArmInv
      <3>5. rx.at # 3 => rx'.reply = Current /\ rx'.at = rx.at + 1
        BY <2>1, <3>2
      <3>6. rx.at = 3 => rx'.reply # Current
        BY <1>1, <2>1, <3>2
      <3>7. CASE rx.at = 1
        BY <1>2, <2>1, <3>1, <3>2, <3>3, <3>5, <3>7 DEF ArmInv
      <3>8. CASE rx.at = 2
        BY <1>2, <2>1, <3>1, <3>2, <3>3, <3>4, <3>5, <3>8 DEF ArmInv
      <3>9. CASE rx.at = 3
        BY <1>2, <2>1, <3>1, <3>2, <3>4, <3>6, <3>9 DEF ArmInv
      <3>10. QED BY <2>1, <3>2, <3>7, <3>8, <3>9
    <2>8. CarInv' /\ GotInv' /\ VersionInv'
      BY <1>2, <1>3, <1>5, <2>6 DEF PromptInv, CarInv, GotInv, VersionInv, Fields
    <2>9. SetInv'
      <3>1. mem'["akm_angle"] \in {mem["akm_angle"], Current}
        BY <2>3, <2>6 DEF Fields
      <3>2. \A n \in DOMAIN asked : Current >= n
        BY DEF TypeInv, TypeOK, Current
      <3>3. QED BY <1>2, <1>3, <3>1, <3>2 DEF PromptInv, SetInv
    <2>10. QED BY <2>5, <2>7, <2>8, <2>9 DEF PromptInv
  <1>6. CASE kind = "car_type"
    <2>1. f = "car_type" /\ Len(ParseOrder(kind)) = 1 /\ rx.at = 1
      BY <1>1, <1>6 DEF ParseOrder
    <2>2. mem' = [mem EXCEPT !["car_type"] = Current] /\ rx' = [reply |-> 0, at |-> 1]
      BY <2>1 DEF ParsedValue
    <2>3. \A g \in Fields \ {"car_type"} : mem'[g] = mem[g]
      BY <1>3, <2>2
    <2>4. mem'["car_type"] = Current
      BY <1>3, <2>2 DEF Fields
    <2>5. PollInv' /\ CallInv'
      BY <1>1, <1>2, <2>2 DEF PollInv, CallInv, Quiet, Rest
    <2>6. QED BY <1>2, <1>3, <1>6, <2>3, <2>4, <2>5
              DEF PromptInv, ArmInv, CarInv, GotInv, SetInv, VersionInv, Fields
  <1>7. QED BY <1>1, <1>4, <1>5, <1>6 DEF AllKinds, Split

LEMMA PromptReceiver ==
  ASSUME TypeInv, PromptInv, ~late, Receive \/ Parse
  PROVE  PromptInv'
  <1>1. CASE Receive
    <2>1. UNCHANGED <<asked, mem, version, pc, kind, id, at, polls, got, late>>
          /\ Current' = Current /\ link # << >>
      BY <1>1 DEF Receive, clientVars, Current
    <2>2. pc = "poll" /\ link = <<Current>> /\ ~Ready(kind) /\ polls # 0
      BY <2>1 DEF PromptInv, CallInv, PollInv, Quiet
    <2>3. link' = << >> /\ rx' = [reply |-> Current, at |-> 1]
      BY <1>1, <2>2 DEF Receive
    <2>4. Ready(kind)' = Ready(kind)
      BY <2>1, ReadyKept DEF TypeInv, TypeOK
    <2>5. PollInv' /\ CallInv'
      BY <2>1, <2>2, <2>3, <2>4 DEF PromptInv, PollInv, CallInv
    <2>6. ArmInv'
      BY <2>1, <2>2, <2>3 DEF PromptInv, ArmInv
    <2>7. QED BY <2>1, <2>5, <2>6 DEF PromptInv, CarInv, GotInv, SetInv, VersionInv
  <1>2. CASE Parse /\ ~Rest
    BY <1>2, PromptOwn
  <1>3. CASE Parse /\ Rest
    <2>1. Rest' /\ \A f \in Key : mem'[f] = mem[f]
      BY <1>3, RestParse
    <2>2. UNCHANGED <<asked, link, version, pc, kind, id, at, polls, got, late>>
          /\ Current' = Current /\ rx.reply # 0
      BY <1>3 DEF Parse, clientVars, Current
    <2>3. rx'.reply \in {0, rx.reply}
      BY <1>3 DEF Parse, TypeInv, TypeOK
    <2>4. Ready(kind)' = Ready(kind)
      BY <2>1, <2>2, ReadyKept DEF TypeInv, TypeOK
    <2>5. PollInv' /\ CallInv'
      BY <1>3, <2>1, <2>2, <2>3, <2>4 DEF PromptInv, PollInv, CallInv, Quiet
    <2>6. ArmInv'
      <3>1. pc = "poll" /\ kind = "arm" => rx.reply # Current
        BY <1>3, <2>2 DEF PromptInv, PollInv, Rest, Split
      <3>2. pc = "poll" /\ kind = "arm" => rx'.reply # Current
        BY <2>3, <3>1 DEF PromptInv, PollInv
      <3>3. QED BY <2>1, <2>2, <3>2 DEF PromptInv, ArmInv, Key, ArmFields
    <2>7. CarInv' /\ GotInv' /\ SetInv' /\ VersionInv'
      BY <2>1, <2>2 DEF PromptInv, CarInv, GotInv, SetInv, VersionInv, Key
    <2>8. QED BY <2>5, <2>6, <2>7 DEF PromptInv
  <1>4. QED BY <1>1, <1>2, <1>3

(* A call starts when nothing but the end of a reply is on the way, and a   *)
(* getter that resets nothing has seen its condition false.                 *)
LEMMA PromptCall ==
  ASSUME TypeInv, PromptInv, ~late, NEW k \in Kinds, NEW i \in Ids(k), Call(k, i)
  PROVE  PromptInv'
  <1>1. /\ UNCHANGED <<asked, link, rx, mem, version>> /\ Current' = Current
        /\ pc = "idle" /\ kind' = k /\ at' = 1 /\ Quiet
    BY DEF Call, Current, PromptInv, CallInv
  <1>2. \/ pc' = "done" /\ got' = version /\ k = "version" /\ mem["version_H"] # 0
        \/ pc' = "read" /\ got' = << >> /\ k = "akm"
        \/ /\ pc' = "reset" /\ got' = << >>
           /\ k = "version" => mem["version_H"] = 0
           /\ k = "akm" => mem["akm_readed"] # 1
    BY DEF Call
  <1>3. mem["car_type"] = 0 /\ (mem["version_H"] # 0 => version[1] # 0)
    BY <1>1 DEF PromptInv, CarInv, VersionInv
  <1>4. Quiet'
    BY <1>1 DEF Quiet, Rest
  <1>5. pc' = "reset" /\ 1 >= Cleared(k) => ~Ready(kind)'
    <2>1. CASE k \in {"servo", "arm", "pid", "offset"}
      BY <2>1 DEF Cleared
    <2>2. CASE k = "car_type"
      BY <1>1, <1>3, <2>2 DEF Ready
    <2>3. CASE k = "version"
      BY <1>1, <1>2, <2>3 DEF Ready
    <2>4. CASE k = "akm"
      BY <1>1, <1>2, <2>4 DEF Ready
    <2>5. QED BY <2>1, <2>2, <2>3, <2>4, KindsAssumption DEF AllKinds
  <1>6. PollInv' /\ CallInv'
    BY <1>1, <1>2, <1>4, <1>5 DEF PollInv, CallInv
  <1>7. ArmInv' /\ CarInv' /\ GotInv' /\ VersionInv'
    BY <1>1, <1>2, <1>3 DEF ArmInv, CarInv, GotInv, VersionInv
  <1>8. SetInv'
    BY <1>1, <1>2 DEF PromptInv, SetInv
  <1>9. QED BY <1>6, <1>7, <1>8 DEF PromptInv

(* The statements before a request make the getter's condition false, and   *)
(* touch none of the attributes that are not its own.                       *)
LEMMA ResetEffect ==
  ASSUME TypeInv, Reset, at >= Cleared(kind) => ~Ready(kind)
  PROVE  /\ mem'["version_H"] = mem["version_H"]
         /\ at' >= Cleared(kind) => ~Ready(kind)'
  <1>1. /\ kind \in AllKinds /\ at \in 1..Len(ResetOrder(kind)) /\ at' = at + 1
        /\ kind' = kind /\ id' = id /\ mem \in [Fields -> Nat]
        /\ mem' = [f \in Fields |-> IF f \in ResetOrder(kind)[at]
                                      THEN ResetValue(f) ELSE mem[f]]
    BY DEF TypeInv, TypeOK, Reset
  <1>2. id # NoServo
    <2>1. \A s \in Servos : s # NoServo
      BY ServosAssumption DEF NoServo
    <2>2. id \in Servos \cup {0}
      BY DEF TypeInv, TypeOK
    <2>3. QED BY <2>1, <2>2 DEF NoServo
  <1>3. CASE kind = "servo"
    <2>1. at \in {1, 2} /\ ResetOrder(kind) = <<{"read_id"}, {"read_val"}>>
          /\ Cleared(kind) = 2
      BY <1>1, <1>3 DEF ResetOrder, Cleared
    <2>2. mem'["read_id"] = 0 \/ (at = 2 /\ mem'["read_id"] = mem["read_id"])
      BY <1>1, <2>1 DEF Fields, ResetValue
    <2>3. mem'["version_H"] = mem["version_H"]
      BY <1>1, <2>1 DEF Fields
    <2>4. QED BY <1>1, <1>3, <2>1, <2>2, <2>3 DEF Ready
  <1>4. CASE kind = "arm"
    <2>1. at \in {1, 2} /\ ResetOrder(kind) = <<ArmFields, {"arm_ok"}>>
          /\ Cleared(kind) = 3
      BY <1>1, <1>4 DEF ResetOrder, Cleared
    <2>2. at = 1 \/ mem'["arm_ok"] = 0
      BY <1>1, <2>1 DEF Fields, ResetValue
    <2>3. mem'["version_H"] = mem["version_H"]
      BY <1>1, <2>1 DEF Fields, ArmFields
    <2>4. QED BY <1>1, <1>4, <2>1, <2>2, <2>3 DEF Ready
  <1>5. CASE kind = "pid"
    <2>1. at \in 1..4 /\ ResetOrder(kind) = <<{"kp"}, {"ki"}, {"kd"}, {"pid_index"}>>
          /\ Cleared(kind) = 5
      BY <1>1, <1>5 DEF ResetOrder, Cleared
    <2>2. at < 4 \/ mem'["pid_index"] = 0
      BY <1>1, <2>1 DEF Fields, ResetValue
    <2>3. mem'["version_H"] = mem["version_H"]
      BY <1>1, <2>1 DEF Fields
    <2>4. QED BY <1>1, <1>5, <2>1, <2>2, <2>3 DEF Ready
  <1>6. CASE kind = "offset"
    <2>1. at \in {1, 2} /\ ResetOrder(kind) = <<{"offset_id"}, {"offset_state"}>>
          /\ Cleared(kind) = 2
      BY <1>1, <1>6 DEF ResetOrder, Cleared
    <2>2. mem'["offset_id"] = NoServo
          \/ (at = 2 /\ mem'["offset_id"] = mem["offset_id"])
      BY <1>1, <2>1 DEF Fields, ResetValue
    <2>3. mem'["version_H"] = mem["version_H"]
      BY <1>1, <2>1 DEF Fields
    <2>4. QED BY <1>1, <1>2, <1>6, <2>1, <2>2, <2>3 DEF Ready
  <1>7. CASE kind \in {"car_type", "version", "akm"}
    BY <1>1, <1>7 DEF ResetOrder
  <1>8. QED BY <1>1, <1>3, <1>4, <1>5, <1>6, <1>7 DEF AllKinds

LEMMA PromptReset ==
  ASSUME TypeInv, PromptInv, ~late, Reset
  PROVE  PromptInv'
  <1>1. /\ UNCHANGED <<asked, link, rx, version, pc, kind, id, got>>
        /\ Current' = Current /\ pc = "reset"
    BY DEF Reset, Current
  <1>2. Quiet /\ (at >= Cleared(kind) => ~Ready(kind))
    BY <1>1 DEF PromptInv, CallInv
  <1>3. mem'["version_H"] = mem["version_H"]
        /\ (at' >= Cleared(kind) => ~Ready(kind)')
    BY <1>2, ResetEffect
  <1>4. UNCHANGED <<mem["akm_angle"], mem["car_type"]>>
    BY ResetKeepsAkm
  <1>5. PollInv' /\ CallInv'
    BY <1>1, <1>2, <1>3 DEF PollInv, CallInv, Quiet, Rest, Cleared
  <1>6. ArmInv' /\ CarInv' /\ GotInv' /\ SetInv' /\ VersionInv'
    BY <1>1, <1>3, <1>4
       DEF PromptInv, ArmInv, CarInv, GotInv, SetInv, VersionInv
  <1>7. QED BY <1>5, <1>6 DEF PromptInv

(* The request is written with its condition false and nothing on the way.  *)
LEMMA PromptRequest ==
  ASSUME TypeInv, PromptInv, ~late, Request
  PROVE  PromptInv'
  <1>1. /\ UNCHANGED <<rx, mem, version, kind, id, got>> /\ pc = "reset" /\ pc' = "poll"
        /\ polls' = PollBudget /\ PollBudget # 0 /\ at > Len(ResetOrder(kind))
    BY BoundsAssumption DEF Request
  <1>2. kind \in AllKinds /\ at \in Nat
    BY DEF TypeInv, TypeOK
  <1>3. at >= Cleared(kind)
    <2>1. CASE kind = "servo"
      BY <1>1, <1>2, <2>1 DEF ResetOrder, Cleared
    <2>2. CASE kind = "arm"
      BY <1>1, <1>2, <2>2 DEF ResetOrder, Cleared
    <2>3. CASE kind = "pid"
      BY <1>1, <1>2, <2>3 DEF ResetOrder, Cleared
    <2>4. CASE kind = "offset"
      BY <1>1, <1>2, <2>4 DEF ResetOrder, Cleared
    <2>5. CASE kind \in {"car_type", "version", "akm"}
      BY <1>1, <1>2, <2>5 DEF ResetOrder, Cleared
    <2>6. QED BY <1>2, <2>1, <2>2, <2>3, <2>4, <2>5 DEF AllKinds
  <1>4. Quiet /\ ~Ready(kind)
    BY <1>1, <1>3 DEF PromptInv, CallInv
  <1>5. ~Ready(kind)'
    BY <1>1, <1>2, <1>4, ReadyKept
  <1>6. /\ Current' = Current + 1 /\ Current \in Nat
        /\ asked'[Current'].kind = kind
        /\ \A n \in DOMAIN asked : asked'[n] = asked[n] /\ n \in 1..Current
        /\ \A n \in DOMAIN asked' : n \in DOMAIN asked \/ n = Current'
    BY DEF TypeInv, TypeOK, Request, Current
  <1>7. rx.reply # 0 => rx.reply \in DOMAIN asked
    BY DEF TypeInv, ThreadsInv, IsReply
  <1>8. rx'.reply # Current' /\ Rest'
    BY <1>1, <1>4, <1>6, <1>7 DEF Quiet, Rest
  <1>9. link' = << >> \/ link' = <<Current'>>
    BY <1>4, <1>6 DEF Request, Quiet, Current
  <1>10. PollInv' /\ CallInv'
    BY <1>1, <1>5, <1>6, <1>8, <1>9 DEF PollInv, CallInv
  <1>11. ArmInv'
    <2>1. kind = "arm" => mem["arm_ok"] # 1
      BY <1>4 DEF Ready
    <2>2. QED BY <1>1, <1>8, <2>1 DEF ArmInv
  <1>12. SetInv'
    BY <1>1, <1>2, <1>6 DEF PromptInv, SetInv, AllKinds
  <1>13. CarInv' /\ GotInv' /\ VersionInv'
    BY <1>1 DEF PromptInv, CarInv, GotInv, VersionInv, TypeInv, ThreadsInv
  <1>14. QED BY <1>10, <1>11, <1>12, <1>13 DEF PromptInv

(* The condition of a getter turns true only with its own reply.            *)
LEMMA PromptPoll ==
  ASSUME TypeInv, PromptInv, ~late, ~late', PollReady \/ PollAgain \/ GiveUp
  PROVE  PromptInv'
  <1>1. /\ UNCHANGED <<asked, link, rx, mem, version, kind, id, got>>
        /\ Current' = Current /\ pc = "poll" /\ got = << >>
        /\ kind \in AllKinds /\ polls \in Nat
    BY DEF PollReady, PollAgain, GiveUp, Current, TypeInv, TypeOK, ThreadsInv
  <1>2. Ready(kind)' = Ready(kind) /\ Rest' = Rest /\ Quiet' = Quiet
    BY <1>1, ReadyKept DEF Rest, Quiet
  <1>3. CASE PollReady
    <2>1. Ready(kind) /\ pc' = "read" /\ Quiet
      BY <1>1, <1>3 DEF PollReady, PromptInv, PollInv
    <2>2. /\ kind = "arm" => mem["arm_ok"] = 1
          /\ kind = "car_type" => mem["car_type"] # 0
          /\ kind = "version" => mem["version_H"] # 0
      BY <2>1 DEF Ready
    <2>3. PollInv' /\ CallInv'
      BY <1>2, <2>1 DEF PollInv, CallInv
    <2>4. QED BY <1>1, <2>1, <2>2, <2>3
              DEF PromptInv, ArmInv, CarInv, GotInv, SetInv, VersionInv
  <1>4. CASE PollAgain
    <2>1. pc' = "poll" /\ polls' = polls - 1 /\ ~Ready(kind)
          /\ ~(polls = 1 /\ Outstanding)
      BY <1>1, <1>4 DEF PollAgain
    <2>2. polls' = 0 => Quiet
      <3>1. SUFFICES ASSUME ~Outstanding PROVE Quiet
        BY <1>1, <2>1
      <3>2. link # <<Current>>
        BY <3>1 DEF Outstanding
      <3>3. QED BY <1>1, <3>1, <3>2 DEF PromptInv, PollInv, Outstanding, Quiet
    <2>3. PollInv' /\ CallInv'
      BY <1>1, <1>2, <2>1, <2>2 DEF PromptInv, PollInv, CallInv
    <2>4. QED BY <1>1, <2>1, <2>3
              DEF PromptInv, ArmInv, CarInv, GotInv, SetInv, VersionInv
  <1>5. CASE GiveUp
    <2>1. /\ pc' = IF kind = "offset" THEN "read" ELSE "done"
          /\ Quiet /\ ~Ready(kind)
      BY <1>1, <1>5 DEF GiveUp, PromptInv, PollInv
    <2>2. /\ kind = "car_type" => mem["car_type"] = 0
          /\ kind = "version" => mem["version_H"] = 0
      BY <2>1 DEF Ready
    <2>3. PollInv' /\ CallInv'
      BY <1>2, <2>1 DEF PollInv, CallInv
    <2>4. ArmInv' /\ CarInv' /\ VersionInv'
      BY <1>1, <2>1, <2>2 DEF PromptInv, ArmInv, CarInv, VersionInv
    <2>5. GotInv' /\ SetInv'
      BY <1>1 DEF PromptInv, GotInv, SetInv
    <2>6. QED BY <2>3, <2>4, <2>5 DEF PromptInv
  <1>6. QED BY <1>3, <1>4, <1>5

(* What a getter reads is what its reply assigned.                          *)
LEMMA PromptRead ==
  ASSUME TypeInv, PromptInv, ~late, Read
  PROVE  PromptInv'
  <1>1. /\ UNCHANGED <<asked, link, rx, mem, version, pc, kind, id, late>>
        /\ Current' = Current /\ pc = "read" /\ kind \in AllKinds
        /\ got \in Seq(Nat) /\ Len(got) = at - 1 /\ at \in Nat \ {0}
        /\ at <= Len(ReadOrder(kind))
        /\ got' = Append(got, mem[ReadOrder(kind)[at]])
    BY DEF Read, Current, TypeInv, TypeOK, ThreadsInv
  <1>2. /\ got'[Len(got) + 1] = mem[ReadOrder(kind)[at]]
        /\ \A j \in DOMAIN got' : j = Len(got) + 1 \/ (j \in DOMAIN got /\ got'[j] = got[j])
        /\ got # << >> => got'[1] = got[1]
        /\ got = << >> => at = 1
    BY <1>1
  <1>3. PollInv' /\ CallInv' /\ ArmInv' /\ CarInv'
    BY <1>1 DEF PromptInv, PollInv, CallInv, ArmInv, CarInv, Quiet, Rest
  <1>4. GotInv'
    <2>1. CASE kind = "arm"
      <3>1. ReadOrder(kind)[at] \in {"arm1", "arm2"}
        BY <1>1, <2>1 DEF ReadOrder
      <3>2. mem[ReadOrder(kind)[at]] = Current
        BY <1>1, <2>1, <3>1 DEF PromptInv, ArmInv
      <3>3. QED BY <1>1, <1>2, <2>1, <3>2 DEF PromptInv, GotInv
    <2>2. CASE kind = "car_type"
      <3>1. ReadOrder(kind)[at] = "car_type"
        BY <1>1, <2>2 DEF ReadOrder
      <3>2. mem[ReadOrder(kind)[at]] = Current
        BY <1>1, <2>2, <3>1 DEF PromptInv, CarInv
      <3>3. QED BY <1>1, <1>2, <2>2, <3>2 DEF PromptInv, GotInv
    <2>3. QED BY <1>1, <2>1, <2>2 DEF GotInv
  <1>5. SetInv'
    <2>1. kind = "akm" => got = << >> /\ got'[1] = mem["akm_angle"]
      BY <1>1, <1>2 DEF ReadOrder
    <2>2. QED BY <1>1, <2>1 DEF PromptInv, SetInv
  <1>6. VersionInv'
    <2>1. kind = "version" /\ got = << >> => got'[1] = mem["version_H"]
      BY <1>1, <1>2 DEF ReadOrder
    <2>2. QED BY <1>1, <1>2, <2>1 DEF PromptInv, VersionInv
  <1>7. QED BY <1>3, <1>4, <1>5, <1>6 DEF PromptInv

LEMMA PromptFinish ==
  ASSUME TypeInv, PromptInv, ~late, Finish \/ Return
  PROVE  PromptInv'
  <1>1. UNCHANGED <<asked, link, rx>> /\ Current' = Current /\ Quiet
    BY DEF Finish, Return, Current, PromptInv, CallInv
  <1>2. Quiet'
    BY <1>1 DEF Quiet, Rest
  <1>3. CASE Finish
    <2>1. /\ pc = "read" /\ pc' = "done" /\ UNCHANGED <<kind, got>>
          /\ mem \in [Fields -> Nat] /\ version' = IF kind = "version" THEN got ELSE version
      BY <1>3 DEF Finish, TypeInv, TypeOK
    <2>2. mem'["car_type"] = 0
          /\ UNCHANGED <<mem["version_H"], mem["akm_angle"]>>
      BY <1>3, <2>1 DEF Finish, PromptInv, CarInv, Fields
    <2>3. got # << >>
      <3>1. Len(ReadOrder(kind)) \in 1..3
        BY Orders DEF TypeInv, TypeOK
      <3>2. Len(got) = at - 1 /\ at > Len(ReadOrder(kind)) /\ at \in Nat
        BY <1>3 DEF Finish, TypeInv, TypeOK, ThreadsInv
      <3>3. QED BY <3>1, <3>2
    <2>4. PollInv' /\ CallInv' /\ ArmInv' /\ CarInv'
      BY <1>2, <2>1, <2>2 DEF PollInv, CallInv, ArmInv, CarInv
    <2>5. GotInv' /\ SetInv' /\ VersionInv'
      BY <1>1, <2>1, <2>2, <2>3 DEF PromptInv, GotInv, SetInv, VersionInv
    <2>6. QED BY <2>4, <2>5 DEF PromptInv
  <1>4. CASE Return
    <2>1. /\ UNCHANGED <<mem, version>> /\ pc = "done" /\ pc' = "idle"
          /\ kind' = "version" /\ got' = << >>
      BY <1>4 DEF Return
    <2>2. PollInv' /\ CallInv' /\ ArmInv' /\ GotInv'
      BY <1>2, <2>1 DEF PollInv, CallInv, ArmInv, GotInv
    <2>3. CarInv' /\ SetInv' /\ VersionInv'
      BY <1>1, <2>1 DEF PromptInv, CarInv, SetInv, VersionInv
    <2>4. QED BY <2>2, <2>3 DEF PromptInv
  <1>5. QED BY <1>3, <1>4

(* A command without a reply is written between two calls.                  *)
LEMMA PromptCommand ==
  ASSUME TypeInv, PromptInv, ~late,
         SetCarType \/ \E forever \in BOOLEAN : SetAkmDefault(forever)
  PROVE  PromptInv'
  <1>1. UNCHANGED <<link, rx, version, pc, kind, got>> /\ pc = "idle" /\ Quiet
    BY DEF SetCarType, SetAkmDefault, clientVars, PromptInv, CallInv
  <1>2. PICK c \in {"set_akm", "try_akm", "set_type"} :
          /\ asked' = Append(asked, [kind |-> c, id |-> 0])
          /\ mem' = IF c = "set_akm"
                      THEN [mem EXCEPT !["akm_angle"] = Len(asked) + 1] ELSE mem
    <2>1. CASE SetCarType
      BY <2>1 DEF SetCarType
    <2>2. ASSUME NEW forever \in BOOLEAN, SetAkmDefault(forever)
          PROVE  \E c \in {"set_akm", "try_akm"} :
                   /\ asked' = Append(asked, [kind |-> c, id |-> 0])
                   /\ mem' = IF c = "set_akm"
                               THEN [mem EXCEPT !["akm_angle"] = Len(asked) + 1]
                               ELSE mem
      BY <2>2 DEF SetAkmDefault
    <2>3. QED BY <2>1, <2>2
  <1>3. /\ Len(asked) \in Nat
        /\ \A n \in DOMAIN asked : asked'[n] = asked[n] /\ n \in 1..Len(asked)
        /\ \A n \in DOMAIN asked' : n \in DOMAIN asked \/ n = Len(asked) + 1
        /\ asked'[Len(asked) + 1].kind = c
    BY <1>2 DEF TypeInv, TypeOK
  <1>4. Quiet'
    <2>1. rx.reply # 0 => rx.reply \in DOMAIN asked
      BY DEF TypeInv, ThreadsInv, IsReply
    <2>2. QED BY <1>1, <1>3, <2>1 DEF Quiet, Rest
  <1>5. UNCHANGED <<mem["car_type"], mem["version_H"]>>
        /\ IF c = "set_akm" THEN mem'["akm_angle"] = Len(asked) + 1
                            ELSE mem'["akm_angle"] = mem["akm_angle"]
    BY <1>2 DEF TypeInv, TypeOK, Fields
  <1>6. PollInv' /\ CallInv' /\ ArmInv' /\ GotInv'
    BY <1>1, <1>4 DEF PollInv, CallInv, ArmInv, GotInv
  <1>7. CarInv' /\ VersionInv'
    BY <1>1, <1>5 DEF PromptInv, CarInv, VersionInv
  <1>8. SetInv'
    BY <1>1, <1>3, <1>5 DEF PromptInv, SetInv
  <1>9. QED BY <1>6, <1>7, <1>8 DEF PromptInv

LEMMA PromptStep ==
  ASSUME TypeInv, PromptInv, [Next]_vars
  PROVE  PromptInv'
  <1>1. SUFFICES ASSUME ~late' PROVE PromptInv'
    BY DEF PromptInv
  <1>2. ~late
    BY <1>1 DEF Next, Client, Call, Reset, Request, PollReady, PollAgain, GiveUp,
           Read, Finish, Return, SetAkmDefault, SetCarType, Receive, Parse,
           Terminated, clientVars, vars
  <1>3. CASE \E k \in Kinds : \E i \in Ids(k) : Call(k, i)
    BY <1>2, <1>3, PromptCall
  <1>4. CASE Client
    BY <1>1, <1>2, <1>4, PromptReset, PromptRequest, PromptPoll, PromptRead,
       PromptFinish DEF Client
  <1>5. CASE SetCarType \/ \E forever \in BOOLEAN : SetAkmDefault(forever)
    BY <1>2, <1>5, PromptCommand
  <1>6. CASE Receive \/ Parse
    BY <1>2, <1>6, PromptReceiver
  <1>7. CASE UNCHANGED vars
    BY <1>7 DEF vars, PromptInv, PollInv, CallInv, ArmInv, CarInv, GotInv, SetInv,
                VersionInv, Quiet, Rest, Current, Ready, Cleared
  <1>8. QED BY <1>3, <1>4, <1>5, <1>6, <1>7 DEF Next, Terminated

LEMMA PromptAlways == Spec => [](TypeInv /\ PromptInv)
  <1>1. Init => TypeInv /\ PromptInv
    <2>1. Init => PromptInv
      BY DEF Init, PromptInv, PollInv, CallInv, ArmInv, CarInv, GotInv, SetInv,
             VersionInv, Quiet, Rest, Fields
    <2>2. QED BY <2>1, InitType
  <1>2. TypeInv /\ PromptInv /\ [Next]_vars => (TypeInv /\ PromptInv)'
    BY NextType, PromptStep
  <1>3. QED BY <1>1, <1>2, PTL DEF Spec

(* As long as no reply has been late, the angles of the servo arm that a    *)
(* getter returns are all of the reply to its own request, and so is the    *)
(* car type: no other reply is on the way when they are assigned and read.  *)
THEOREM AnswersCorrect == Spec => []AnswersCurrent
  <1>1. TypeInv /\ PromptInv => AnswersCurrent
    BY DEF PromptInv, GotInv, AnswersCurrent, Answers
  <1>2. QED BY <1>1, PromptAlways, PTL

(* ... get_akm_default_angle returns no angle older than one set with       *)
(* forever=True ...                                                         *)
THEOREM AkmSetCorrect == Spec => []AkmNotOlderThanSet
  <1>1. TypeInv /\ PromptInv => AkmNotOlderThanSet
    BY DEF PromptInv, SetInv, AkmNotOlderThanSet, Answers
  <1>2. QED BY <1>1, PromptAlways, PTL

(* ... and get_version does not return the initial 0: what __version holds  *)
(* once version_H is set has been read from it.                             *)
THEOREM VersionCorrect == Spec => []VersionKnown
  <1>1. TypeInv /\ PromptInv => VersionKnown
    <2> SUFFICES ASSUME PromptInv, ~late, Answers("version") PROVE got # <<0, 0>>
      BY DEF VersionKnown
    <2>1. got[1] # 0
      BY DEF PromptInv, VersionInv, Answers
    <2>2. QED BY <2>1
  <1>2. QED BY <1>1, PromptAlways, PTL
=============================================================================
