-------------------------- MODULE PavsReceive_proof --------------------------
(***************************************************************************)
(* What the receive thread makes of the line, for any frames and bounds:   *)
(* FrameReceiver implements FrameLink.  And SkewBounded, for reports of any *)
(* length, read and cleared in any order.                                  *)
(***************************************************************************)
EXTENDS FrameReceiver, PavsReports, SequenceTheorems,
        WellFoundedInduction, TLAPS

(* Induction, in terms of a set: what holds of 0, and of each number if it   *)
(* holds of the one before, holds of m.                                     *)
LEMMA UpTo ==
  ASSUME NEW m \in Nat, NEW S, 0 \in S, \A i \in 1..m : i - 1 \in S => i \in S
  PROVE  m \in S
  <1> DEFINE Out == {i \in 0..m : i \notin S}
  <1> DEFINE R == OpToRel(<, Nat)
  <1>1. SUFFICES ASSUME m \notin S PROVE FALSE
    OBVIOUS
  <1>2. R = {ss \in Nat \X Nat : ss[1] < ss[2]}
    BY DEF OpToRel
  <1>3. IsWellFoundedOn(R, Nat)
    BY NatLessThanWellFounded
  <1>4. PICK least \in Out : \A k \in Out : <<k, least>> \notin R
    <2>1. Out \subseteq Nat /\ Out # {}
      BY <1>1
    <2> HIDE DEF R, Out
    <2>2. QED BY <1>3, <2>1, WFMin
  <1> HIDE DEF R
  <1>5. least \in 1..m /\ least \notin S
    OBVIOUS
  <1>6. <<least - 1, least>> \in R /\ least - 1 \in 0..m
    BY <1>2, <1>5
  <1>7. least - 1 \in S
    BY <1>4, <1>6
  <1>8. QED BY <1>5, <1>7

(* A first value in T, and the step to each of the values after it.            *)
Steps(last, T, c, G) == last \in Nat /\ c \in T /\ G \in [1..last -> [T -> T]]
Follows(f, last, T, c, G) ==
  f \in [0..last -> T] /\ f[0] = c /\ \A i \in 1..last : f[i] = G[i][f[i - 1]]

(* They determine a function on 0..last.                                    *)
LEMMA RecursionExists ==
  ASSUME NEW last, NEW T, NEW c, NEW G, Steps(last, T, c, G)
  PROVE  \E f : Follows(f, last, T, c, G)
  <1>1. last \in Nat /\ c \in T /\ G \in [1..last -> [T -> T]]
    BY DEF Steps
  <1> DEFINE S == {m \in 0..last : \E f : Follows(f, m, T, c, G)}
  <1>2. 0 \in S
    <2>1. Follows([i \in 0..0 |-> c], 0, T, c, G)
      BY <1>1 DEF Follows
    <2>2. QED BY <1>1, <2>1
  <1>3. ASSUME NEW m \in 1..last, m - 1 \in S
        PROVE  m \in S
    <2>1. PICK f : Follows(f, m - 1, T, c, G)
      BY <1>3
    <2> DEFINE g == [i \in 0..m |-> IF i = m THEN G[m][f[m - 1]] ELSE f[i]]
    <2>2. G[m][f[m - 1]] \in T
      BY <1>1, <2>1 DEF Follows
    <2>3. g \in [0..m -> T]
      <3>1. \A i \in 0..m : i # m => i \in 0..m - 1
        BY <1>1
      <3>2. QED BY <2>1, <2>2, <3>1 DEF Follows
    <2>4. g[0] = c
      BY <1>1, <2>1 DEF Follows
    <2>5. ASSUME NEW i \in 1..m PROVE g[i] = G[i][g[i - 1]]
      <3>1. g[i - 1] = f[i - 1]
        BY <1>1
      <3>2. CASE i = m
        BY <1>1, <3>1, <3>2
      <3>3. CASE i # m
        <4>1. i \in 1..m - 1 /\ g[i] = f[i]
          BY <1>1, <3>3
        <4>2. QED BY <2>1, <3>1, <4>1 DEF Follows
      <3>4. QED BY <3>2, <3>3
    <2>6. Follows(g, m, T, c, G)
      BY <2>3, <2>4, <2>5 DEF Follows
    <2>7. QED BY <1>1, <2>6
  <1>4. last \in S
    <2> HIDE DEF S
    <2>1. \A m \in 1..last : m - 1 \in S => m \in S
      BY <1>3
    <2>2. QED BY <1>1, <1>2, <2>1, UpTo
  <1>5. QED BY <1>4

-----------------------------------------------------------------------------
(* The check sum.                                                           *)

(* u[i] is the sum of the first i bytes of s.                               *)
Partial(u, s) ==
  /\ u \in [0..Len(s) -> Nat] /\ u[0] = 0
  /\ \A i \in 1..Len(s) : u[i] = u[i - 1] + s[i]

LEMMA SumUnfolds ==
  ASSUME NEW s \in Seq(Nat)
  PROVE  \E u : Partial(u, s) /\ Sum(s) = u[Len(s)]
  <1> DEFINE N == Len(s)
  <1> DEFINE G == [i \in 1..N |-> [v \in Nat |-> v + s[i]]]
  <1> DEFINE U == CHOOSE u : u = [i \in 0..N |-> IF i = 0 THEN 0 ELSE u[i - 1] + s[i]]
  <1>1. N \in Nat /\ \A i \in 1..N : s[i] \in Nat
    OBVIOUS
  <1>2. PICK f : Follows(f, N, Nat, 0, G)
    <2>1. Steps(N, Nat, 0, G)
      BY <1>1 DEF Steps
    <2> HIDE DEF G, N
    <2>2. QED BY <2>1, RecursionExists
  <1>3. \A i \in 1..N : f[i - 1] \in Nat /\ f[i] = f[i - 1] + s[i]
    <2>1. \A i \in 1..N : f[i - 1] \in Nat
      <3> HIDE DEF G, N
      <3>1. QED BY <1>1, <1>2 DEF Follows
    <2>2. QED BY <1>1, <1>2, <2>1 DEF Follows
  <1>4. f = [i \in 0..N |-> IF i = 0 THEN 0 ELSE f[i - 1] + s[i]]
    <2>1. \A i \in 0..N : i # 0 => i \in 1..N
      BY <1>1
    <2>2. QED BY <1>2, <1>3, <2>1 DEF Follows
  <1>5. U = [i \in 0..N |-> IF i = 0 THEN 0 ELSE U[i - 1] + s[i]]
    BY <1>4
  <1>6. Sum(s) = U[N]
    BY DEF Sum
  <1> HIDE DEF U
  <1> DEFINE S == {i \in 0..N : U[i] = f[i]}
  <1>7. \A j \in 0..N : j \in S
    <2> SUFFICES ASSUME NEW j \in 0..N PROVE j \in S
      OBVIOUS
    <2>1. j \in Nat /\ 0 \in S
      BY <1>1, <1>4, <1>5
    <2>2. ASSUME NEW i \in 1..j, i - 1 \in S
          PROVE  i \in S
      <3>1. i \in 1..N /\ i \in 0..N /\ i # 0 /\ U[i - 1] = f[i - 1]
        BY <1>1, <2>2
      <3>2. U[i] = U[i - 1] + s[i]
        BY <1>5, <3>1
      <3>3. f[i] = f[i - 1] + s[i]
        BY <1>3, <3>1
      <3>4. QED BY <3>1, <3>2, <3>3
    <2>3. \A i \in 1..j : i - 1 \in S => i \in S
      BY <2>2
    <2> HIDE DEF S
    <2>4. QED BY <2>1, <2>3, UpTo
  <1>8. U[N] = f[N]
    BY <1>1, <1>7
  <1>9. Partial(f, s)
    BY <1>2, <1>3 DEF Partial, Follows
  <1>10. QED BY <1>6, <1>8, <1>9

(* D says how far the sums of t are from those of s.                        *)
Drift(D, m, s, t) ==
  /\ m \in 0..Len(s) /\ m <= Len(t) /\ D \in [0..m -> Int] /\ D[0] = 0
  /\ \A i \in 1..m : t[i] - s[i] = D[i] - D[i - 1]

LEMMA PartialsDrift ==
  ASSUME NEW s \in Seq(Nat), NEW t \in Seq(Nat), NEW u, NEW v, Partial(u, s), Partial(v, t),
         NEW D, NEW m, Drift(D, m, s, t)
  PROVE  v[m] = u[m] + D[m]
  <1> DEFINE S == {i \in 0..m : v[i] = u[i] + D[i]}
  <1>1. m \in Nat /\ 0 \in S
    BY DEF Partial, Drift
  <1>2. ASSUME NEW i \in 1..m, i - 1 \in S
        PROVE  i \in S
    <2>1. /\ i \in 1..Len(s) /\ i \in 1..Len(t) /\ i \in 0..m /\ i - 1 \in 0..m
          /\ i - 1 \in 0..Len(s) /\ i - 1 \in 0..Len(t)
      BY <1>1 DEF Drift
    <2>2. u[i] = u[i - 1] + s[i] /\ v[i] = v[i - 1] + t[i]
      BY <2>1 DEF Partial
    <2>3. u[i - 1] \in Nat /\ v[i - 1] \in Nat
      BY <2>1 DEF Partial
    <2>4. s[i] \in Nat /\ t[i] \in Nat
      BY <2>1
    <2>5. D[i] \in Int /\ D[i - 1] \in Int /\ t[i] - s[i] = D[i] - D[i - 1]
      BY <2>1 DEF Drift
    <2>6. v[i - 1] = u[i - 1] + D[i - 1]
      BY <1>2
    <2>7. v[i] = u[i] + D[i]
      <3> DEFINE a == s[i]
      <3> DEFINE b == t[i]
      <3> DEFINE c == D[i - 1]
      <3> DEFINE d == D[i]
      <3> DEFINE x == u[i - 1]
      <3>1. a \in Int /\ b \in Int
        BY <2>4
      <3>2. c \in Int /\ d \in Int /\ b - a = d - c
        BY <2>5
      <3>3. x \in Int
        BY <2>3
      <3>4. u[i] = x + a /\ v[i] = (x + c) + b
        BY <2>2, <2>6
      <3> HIDE DEF a, b, c, d, x
      <3>5. v[i] = u[i] + d
        BY <3>1, <3>2, <3>3, <3>4
      <3>6. QED BY <3>5 DEF d
    <2>8. QED BY <2>1, <2>7
  <1>3. m \in S
    <2>1. \A i \in 1..m : i - 1 \in S => i \in S
      BY <1>2
    <2> HIDE DEF S
    <2>2. QED BY <1>1, <2>1, UpTo
  <1>4. QED BY <1>3

LEMMA SumEmpty == Sum(<< >>) = 0
  <1>1. << >> \in Seq(Nat) /\ Len(<< >>) = 0
    OBVIOUS
  <1>2. PICK u : Partial(u, << >>) /\ Sum(<< >>) = u[0]
    BY <1>1, SumUnfolds
  <1>3. QED BY <1>2 DEF Partial

LEMMA SumNat ==
  ASSUME NEW s \in Seq(Nat)
  PROVE  Sum(s) \in Nat
  <1>1. PICK u : Partial(u, s) /\ Sum(s) = u[Len(s)]
    BY SumUnfolds
  <1>2. QED BY <1>1 DEF Partial

(* One more byte ...                                                        *)
LEMMA SumAppend ==
  ASSUME NEW s \in Seq(Nat), NEW b \in Nat
  PROVE  Sum(Append(s, b)) = Sum(s) + b
  <1> DEFINE t == Append(s, b)
  <1>1. t \in Seq(Nat) /\ Len(t) = Len(s) + 1 /\ t[Len(t)] = b
        /\ \A i \in 1..Len(s) : t[i] = s[i]
    OBVIOUS
  <1> HIDE DEF t
  <1>2. PICK u : Partial(u, s) /\ Sum(s) = u[Len(s)]
    BY SumUnfolds
  <1>3. PICK v : Partial(v, t) /\ Sum(t) = v[Len(t)]
    BY <1>1, SumUnfolds
  <1>4. v[Len(s)] = u[Len(s)]
    <2> DEFINE D == [i \in 0..Len(s) |-> 0]
    <2>1. Drift(D, Len(s), s, t) /\ D[Len(s)] = 0
      BY <1>1 DEF Drift
    <2> HIDE DEF D
    <2>2. v[Len(s)] = u[Len(s)] + D[Len(s)]
      BY <1>1, <1>2, <1>3, <2>1, PartialsDrift
    <2>3. QED BY <1>2, <2>1, <2>2 DEF Partial
  <1>5. v[Len(t)] = v[Len(t) - 1] + t[Len(t)]
    <2>1. Len(t) \in 1..Len(t)
      BY <1>1
    <2>2. QED BY <1>3, <2>1 DEF Partial
  <1>6. QED BY <1>1, <1>2, <1>3, <1>4, <1>5 DEF t

(* ... and a byte altered.                                                  *)
LEMMA SumAltered ==
  ASSUME NEW s \in Seq(Nat), NEW t \in Seq(Nat), DOMAIN s = DOMAIN t,
         NEW k \in DOMAIN s, \A j \in DOMAIN s \ {k} : t[j] = s[j]
  PROVE  Sum(t) = Sum(s) + (t[k] - s[k])
  <1> DEFINE N == Len(s)
  <1> DEFINE D == [i \in 0..N |-> IF i < k THEN 0 ELSE t[k] - s[k]]
  <1>1. /\ N \in Nat /\ Len(t) = N /\ k \in 1..N /\ s[k] \in Int /\ t[k] \in Int
        /\ \A i \in 1..N : i # k => t[i] = s[i]
    OBVIOUS
  <1>2. PICK u : Partial(u, s) /\ Sum(s) = u[N]
    BY SumUnfolds
  <1>3. PICK v : Partial(v, t) /\ Sum(t) = v[N]
    BY <1>1, SumUnfolds
  <1>4. N \in 0..N /\ D \in [0..N -> Int] /\ D[0] = 0 /\ D[N] = t[k] - s[k]
    BY <1>1
  <1>5. \A i \in 1..N : t[i] - s[i] = D[i] - D[i - 1]
    <2>1. TAKE i \in 1..N
    <2>2. CASE i = k
      BY <1>1, <2>2
    <2>3. CASE i # k
      <3>1. D[i] = D[i - 1] /\ D[i] \in Int
        BY <1>1, <2>3
      <3>2. t[i] = s[i] /\ s[i] \in Int
        BY <1>1, <2>3
      <3> HIDE DEF D
      <3>3. QED BY <3>1, <3>2
    <2>4. QED BY <2>2, <2>3
  <1> HIDE DEF D
  <1>6. v[N] = u[N] + D[N]
    <2>1. Drift(D, N, s, t)
      BY <1>1, <1>4, <1>5 DEF Drift
    <2>2. QED BY <1>1, <1>2, <1>3, <2>1, PartialsDrift
  <1>7. QED BY <1>2, <1>3, <1>4, <1>6

-----------------------------------------------------------------------------
(* Sequences of bytes.                                                      *)

LEMMA ByteRange == \A x : x \in Bytes <=> x \in Int /\ 0 <= x /\ x <= 255
  BY DEF Bytes

LEMMA JoinBytes ==
  ASSUME NEW S, NEW s \in Seq(S), NEW t \in Seq(S)
  PROVE  /\ s \o t \in Seq(S) /\ Len(s \o t) = Len(s) + Len(t)
         /\ \A i \in 1..Len(s) : (s \o t)[i] = s[i]
         /\ \A i \in 1..Len(t) : (s \o t)[Len(s) + i] = t[i]
  OBVIOUS

LEMMA TailBytes ==
  ASSUME NEW S, NEW s \in Seq(S), s # << >>
  PROVE  /\ Len(s) \in Nat /\ Len(s) > 0 /\ Tail(s) \in Seq(S) /\ Len(Tail(s)) = Len(s) - 1
         /\ \A i \in 1..(Len(s) - 1) : Tail(s)[i] = s[i + 1]
         /\ Tail(s) # << >> <=> Len(s) # 1
  <1>1. /\ Len(s) \in Nat \ {0} /\ Tail(s) \in Seq(S) /\ Len(Tail(s)) = Len(s) - 1
        /\ \A i \in 1..Len(Tail(s)) : Tail(s)[i] = s[i + 1]
    BY HeadTailProperties, EmptySeq
  <1>2. Tail(s) # << >> <=> Len(Tail(s)) # 0
    BY <1>1, EmptySeq
  <1>3. Len(s) \in Nat /\ Len(s) > 0 BY <1>1
  <1>4. \A i \in 1..(Len(s) - 1) : Tail(s)[i] = s[i + 1] BY <1>1
  <1>5. Len(Tail(s)) # 0 <=> Len(s) # 1 BY <1>1
  <1>6. QED BY <1>1, <1>2, <1>3, <1>4, <1>5

LEMMA EndBytes ==
  ASSUME NEW S, NEW s \in Seq(S), NEW k \in 1..Len(s)
  PROVE  LET t == SubSeq(s, k, Len(s))
         IN /\ t \in Seq(S) /\ t # << >> /\ Len(t) = Len(s) - k + 1
            /\ \A i \in 1..(Len(s) - k + 1) : t[i] = s[k + i - 1]
  <1> DEFINE t == SubSeq(s, k, Len(s))
  <1>1. Len(s) \in Int /\ k \in Int /\ k <= Len(s) /\ \A i \in k..Len(s) : s[i] \in S
    OBVIOUS
  <1>2. /\ t \in Seq(S) /\ Len(t) = IF k <= Len(s) THEN Len(s) - k + 1 ELSE 0
        /\ \A i \in 1..(Len(s) - k + 1) : t[i] = s[k + i - 1]
    BY <1>1, SubSeqProperties
  <1>3. t # << >>
    <2>1. Len(t) # 0 BY <1>1, <1>2
    <2> HIDE DEF t
    <2>2. QED BY <2>1, EmptySeq
  <1>4. QED BY <1>1, <1>2, <1>3

-----------------------------------------------------------------------------
(* Frames as they are sent.                                                 *)

LEMMA FrameFields ==
  ASSUME NEW f \in Frames
  PROVE  /\ f.type \in Bytes /\ f.data \in Seq(Bytes) /\ f.data \in Seq(Nat)
         /\ f = [type |-> f.type, data |-> f.data]
         /\ ExtLen(f) = Len(f.data) + 3
         /\ ExtLen(f) \in Int /\ 3 <= ExtLen(f) /\ ExtLen(f) <= 255
         /\ Sum(f.data) \in Nat /\ Check(f) \in Bytes
  <1>1. f \in [type : Bytes, data : Seq(Bytes)] /\ Len(f.data) <= 252
    BY FramesAssumption
  <1>2. f.type \in Bytes /\ f.data \in Seq(Bytes)
    BY <1>1
  <1>3. f = [type |-> f.type, data |-> f.data]
    BY <1>1
  <1>4. f.data \in Seq(Nat)
    <2>1. Bytes \subseteq Nat
      BY DEF Bytes
    <2>2. QED BY <1>2, <2>1, SeqMonotonic
  <1>5. Sum(f.data) \in Nat
    BY <1>4, SumNat
  <1>6. /\ ExtLen(f) = Len(f.data) + 3
        /\ ExtLen(f) \in Int /\ 3 <= ExtLen(f) /\ ExtLen(f) <= 255
    BY <1>1, <1>2 DEF ExtLen
  <1>7. Check(f) \in Bytes
    <2>1. f.type \in Int
      BY <1>2, ByteRange
    <2>2. ExtLen(f) + f.type + Sum(f.data) \in Int
      BY <1>5, <1>6, <2>1
    <2>3. QED BY <2>2 DEF Check, Bytes
  <1>8. QED BY <1>2, <1>3, <1>4, <1>5, <1>6, <1>7

LEMMA BodyBytes ==
  ASSUME NEW f \in Frames
  PROVE  /\ Body(f) \in Seq(Bytes) /\ Len(Body(f)) = ExtLen(f) - 1
         /\ Body(f)[1] = f.type /\ Body(f)[ExtLen(f) - 1] = Check(f)
         /\ \A i \in 1..Len(f.data) : Body(f)[i + 1] = f.data[i]
  <1> DEFINE t == <<f.type>>
  <1> DEFINE c == <<Check(f)>>
  <1>1. /\ t \in Seq(Bytes) /\ Len(t) = 1 /\ t[1] = f.type
        /\ c \in Seq(Bytes) /\ Len(c) = 1 /\ c[1] = Check(f)
    BY FrameFields
  <1>2. /\ f.data \in Seq(Bytes) /\ Len(f.data) \in Nat /\ ExtLen(f) = Len(f.data) + 3
    BY FrameFields
  <1>3. Body(f) = (t \o f.data) \o c
    BY DEF Body
  <1> HIDE DEF t, c
  <1> DEFINE s == t \o f.data
  <1>4. /\ s \in Seq(Bytes) /\ Len(s) = 1 + Len(f.data) /\ s[1] = f.type
        /\ \A i \in 1..Len(f.data) : s[1 + i] = f.data[i]
    BY <1>1, <1>2, JoinBytes
  <1>5. Body(f) = s \o c
    BY <1>3
  <1> HIDE DEF s
  <1>6. /\ Body(f) \in Seq(Bytes) /\ Len(Body(f)) = Len(s) + 1
        /\ \A i \in 1..Len(s) : Body(f)[i] = s[i]
        /\ Body(f)[Len(s) + 1] = Check(f)
    <2>1. /\ s \o c \in Seq(Bytes) /\ Len(s \o c) = Len(s) + Len(c)
          /\ \A i \in 1..Len(s) : (s \o c)[i] = s[i]
          /\ \A i \in 1..Len(c) : (s \o c)[Len(s) + i] = c[i]
      <3>1. s \in Seq(Bytes) /\ c \in Seq(Bytes)
        BY <1>1, <1>4
      <3>2. QED BY <3>1, JoinBytes
    <2>2. 1 \in 1..Len(c)
      BY <1>1
    <2>3. QED BY <1>1, <1>5, <2>1, <2>2
  <1>7. Len(Body(f)) = ExtLen(f) - 1 /\ Len(s) + 1 = ExtLen(f) - 1
    BY <1>2, <1>4, <1>6
  <1>8. \A i \in 1..Len(f.data) : i + 1 \in 1..Len(s) /\ i + 1 = 1 + i
    BY <1>2, <1>4
  <1>9. Body(f)[1] = f.type
    BY <1>2, <1>4, <1>6
  <1>10. QED BY <1>4, <1>6, <1>7, <1>8, <1>9

LEMMA EncodeBytes ==
  ASSUME NEW f \in Frames
  PROVE  /\ Encode(f) \in Seq(Bytes) /\ Len(Encode(f)) = ExtLen(f) + 2
         /\ Encode(f)[1] = HEAD /\ Encode(f)[2] = REPLY_ID /\ Encode(f)[3] = ExtLen(f)
         /\ \A i \in 1..(ExtLen(f) - 1) : Encode(f)[3 + i] = Body(f)[i]
  <1> DEFINE h == <<HEAD, REPLY_ID, ExtLen(f)>>
  <1>1. /\ Body(f) \in Seq(Bytes) /\ Len(Body(f)) = ExtLen(f) - 1
        /\ ExtLen(f) \in Int /\ 3 <= ExtLen(f)
    BY FrameFields, BodyBytes
  <1>2. h \in Seq(Bytes)
    <2>1. HEAD \in Bytes /\ REPLY_ID \in Bytes
      BY DEF HEAD, REPLY_ID, Bytes
    <2>2. ExtLen(f) \in Bytes
      BY <1>1, FrameFields, ByteRange
    <2>3. QED BY <2>1, <2>2
  <1>3. Len(h) = 3 /\ h[1] = HEAD /\ h[2] = REPLY_ID /\ h[3] = ExtLen(f)
    OBVIOUS
  <1>4. Encode(f) = h \o Body(f)
    BY DEF Encode
  <1> HIDE DEF h
  <1>5. /\ Encode(f) \in Seq(Bytes) /\ Len(Encode(f)) = 3 + Len(Body(f))
        /\ \A i \in 1..Len(h) : Encode(f)[i] = h[i]
        /\ \A i \in 1..Len(Body(f)) : Encode(f)[3 + i] = Body(f)[i]
    <2>1. /\ h \o Body(f) \in Seq(Bytes) /\ Len(h \o Body(f)) = Len(h) + Len(Body(f))
          /\ \A i \in 1..Len(h) : (h \o Body(f))[i] = h[i]
          /\ \A i \in 1..Len(Body(f)) : (h \o Body(f))[Len(h) + i] = Body(f)[i]
      <3>1. h \in Seq(Bytes) /\ Body(f) \in Seq(Bytes)
        BY <1>1, <1>2
      <3>2. QED BY <3>1, JoinBytes
    <2>2. QED BY <1>3, <1>4, <2>1
  <1>6. 1 \in 1..Len(h) /\ 2 \in 1..Len(h) /\ 3 \in 1..Len(h)
    BY <1>3
  <1>7. Len(Encode(f)) = ExtLen(f) + 2
    BY <1>1, <1>5
  <1>8. QED BY <1>1, <1>3, <1>5, <1>6, <1>7

-----------------------------------------------------------------------------
(* What is on the wire.                                                     *)

Item == [frame : Frames, left : Seq(Bytes) \ {<< >>}, damaged : BOOLEAN]

(* The body of a frame none of whose body has left the wire.                *)
BodyLeft(w) == [k \in 1..(ExtLen(w.frame) - 1) |-> w.left[k + 3 - Gone(w)]]

(* A frame's last bytes.  Those of its body are as sent, but for one of     *)
(* them if damaged; of the others any may have been altered.                *)
OnItsWay(w) ==
  /\ Gone(w) \in Nat
  /\ \A k \in DOMAIN w.left :
       ~w.damaged /\ InBody(w, k) => w.left[k] = Encode(w.frame)[Gone(w) + k]
  /\ w.damaged /\ Gone(w) <= 3 => OneByteOff(BodyLeft(w), Body(w.frame))

LEMMA ItemFields ==
  ASSUME NEW w \in Item
  PROVE  /\ w.frame \in Frames /\ w.damaged \in BOOLEAN
         /\ w.left \in Seq(Bytes) /\ w.left # << >>
         /\ Len(w.left) \in Int /\ 0 < Len(w.left) /\ DOMAIN w.left = 1..Len(w.left)
         /\ ExtLen(w.frame) \in Int /\ 3 <= ExtLen(w.frame) /\ ExtLen(w.frame) <= 255
         /\ Gone(w) \in Int /\ Len(w.left) = ExtLen(w.frame) + 2 - Gone(w)
  <1>1. /\ w.frame \in Frames /\ w.damaged \in BOOLEAN
        /\ w.left \in Seq(Bytes) /\ w.left # << >>
    BY DEF Item
  <1>2. Len(w.left) \in Int /\ 0 < Len(w.left) /\ DOMAIN w.left = 1..Len(w.left)
    BY <1>1, TailBytes
  <1>3. ExtLen(w.frame) \in Int /\ 3 <= ExtLen(w.frame) /\ ExtLen(w.frame) <= 255
    BY <1>1, FrameFields
  <1>4. Gone(w) \in Int /\ Len(w.left) = ExtLen(w.frame) + 2 - Gone(w)
    BY <1>2, <1>3 DEF Gone
  <1>5. QED BY <1>1, <1>2, <1>3, <1>4

(* A frame that has just been sent, or whose end is what the thread starts  *)
(* with.                                                                    *)
LEMMA SentOnItsWay ==
  ASSUME NEW f \in Frames, NEW k \in DOMAIN Encode(f),
         NEW w, w = Sent(f, SubSeq(Encode(f), k, Len(Encode(f))))
  PROVE  w \in Item /\ OnItsWay(w) /\ Gone(w) = k - 1
  <1> DEFINE left == SubSeq(Encode(f), k, Len(Encode(f)))
  <1>1. /\ Encode(f) \in Seq(Bytes) /\ Len(Encode(f)) = ExtLen(f) + 2
        /\ ExtLen(f) \in Int /\ 3 <= ExtLen(f)
    BY EncodeBytes, FrameFields
  <1>2. k \in 1..Len(Encode(f)) /\ k \in Int /\ 1 <= k /\ k <= ExtLen(f) + 2
    BY <1>1
  <1>3. /\ left \in Seq(Bytes) /\ left # << >> /\ Len(left) = Len(Encode(f)) - k + 1
        /\ \A i \in 1..(Len(Encode(f)) - k + 1) : left[i] = Encode(f)[k + i - 1]
    BY <1>1, <1>2, EndBytes
  <1> HIDE DEF left
  <1>4. w.frame = f /\ w.left = left /\ w.damaged = FALSE
    BY DEF Sent, left
  <1>5. w \in Item
    BY <1>3 DEF Sent, Item, left
  <1>6. Gone(w) = k - 1 /\ Gone(w) \in Nat
    <2> DEFINE e == ExtLen(f)
    <2>1. Len(left) = e + 2 - k + 1 /\ Gone(w) = e + 2 - Len(left)
      BY <1>1, <1>3, <1>4 DEF Gone
    <2>2. e \in Int /\ k \in Int /\ 1 <= k
      BY <1>1, <1>2
    <2> HIDE DEF e
    <2>3. QED BY <2>1, <2>2
  <1>7. ASSUME NEW i \in DOMAIN w.left
        PROVE  w.left[i] = Encode(w.frame)[Gone(w) + i]
    <2>1. i \in 1..(Len(Encode(f)) - k + 1)
      BY <1>3, <1>4
    <2>2. k + i - 1 = Gone(w) + i
      BY <1>2, <1>6, <2>1
    <2>3. QED BY <1>3, <1>4, <2>1, <2>2
  <1>8. QED BY <1>4, <1>5, <1>6, <1>7 DEF OnItsWay

(* The first byte leaves a frame that has another.                          *)
LEMMA TailOnItsWay ==
  ASSUME NEW w \in Item, OnItsWay(w), Len(w.left) # 1,
         NEW x, x = [w EXCEPT !.left = Tail(@)]
  PROVE  /\ x \in Item /\ OnItsWay(x) /\ Gone(x) = Gone(w) + 1
         /\ x.frame = w.frame /\ x.damaged = w.damaged /\ x.left = Tail(w.left)
  <1>1. /\ w.left \in Seq(Bytes) /\ w.left # << >>
        /\ Len(w.left) \in Int /\ 0 < Len(w.left) /\ DOMAIN w.left = 1..Len(w.left)
        /\ ExtLen(w.frame) \in Int /\ Gone(w) \in Int
        /\ Len(w.left) = ExtLen(w.frame) + 2 - Gone(w)
    BY ItemFields
  <1>2. x.frame = w.frame /\ x.damaged = w.damaged /\ x.left = Tail(w.left)
    BY DEF Item
  <1>3. /\ Tail(w.left) \in Seq(Bytes) /\ Tail(w.left) # << >>
        /\ Len(Tail(w.left)) = Len(w.left) - 1
        /\ \A k \in 1..(Len(w.left) - 1) : Tail(w.left)[k] = w.left[k + 1]
    BY <1>1, TailBytes
  <1>4. x \in Item
    BY <1>3 DEF Item
  <1>5. Gone(x) = Gone(w) + 1 /\ Gone(x) \in Nat
    <2> DEFINE e == ExtLen(w.frame)
    <2> DEFINE l == Len(w.left)
    <2> DEFINE g == Gone(w)
    <2>1. Gone(x) = e + 2 - (l - 1) /\ g = e + 2 - l
      BY <1>2, <1>3 DEF Gone
    <2>2. e \in Int /\ l \in Int /\ g \in Nat
      BY <1>1 DEF OnItsWay
    <2> HIDE DEF e, l, g
    <2>3. Gone(x) = g + 1 /\ Gone(x) \in Nat
      BY <2>1, <2>2
    <2>4. QED BY <2>3 DEF g
  <1>6. DOMAIN x.left = 1..(Len(w.left) - 1)
    BY <1>2, <1>3
  <1>7. ASSUME NEW k \in DOMAIN x.left, ~x.damaged, InBody(x, k)
        PROVE  x.left[k] = Encode(x.frame)[Gone(x) + k]
    <2>1. k \in 1..(Len(w.left) - 1)
      BY <1>6
    <2>2. k + 1 \in DOMAIN w.left /\ Gone(x) + k = Gone(w) + (k + 1)
      <3>1. k + 1 \in 1..Len(w.left)
        BY <1>1, <2>1
      <3>2. Gone(x) + k = Gone(w) + (k + 1)
        BY <1>1, <1>5, <2>1
      <3>3. QED BY <1>1, <3>1, <3>2
    <2>3. ~w.damaged /\ InBody(w, k + 1)
      BY <1>2, <1>7, <2>2 DEF InBody
    <2>4. w.left[k + 1] = Encode(w.frame)[Gone(w) + (k + 1)]
      BY <2>2, <2>3 DEF OnItsWay
    <2>5. QED BY <1>2, <1>3, <2>1, <2>2, <2>4
  <1>8. ASSUME x.damaged, Gone(x) <= 3
        PROVE  OneByteOff(BodyLeft(x), Body(x.frame))
    <2>1. ASSUME NEW k \in 1..(ExtLen(w.frame) - 1)
          PROVE  x.left[k + 3 - Gone(x)] = w.left[k + 3 - Gone(w)]
      <3> DEFINE m == k + 3 - Gone(x)
      <3>1. m \in 1..(Len(w.left) - 1) /\ m + 1 = k + 3 - Gone(w)
        <4> DEFINE g == Gone(w)
        <4> DEFINE e == ExtLen(w.frame)
        <4> DEFINE l == Len(w.left)
        <4> DEFINE h == Gone(x)
        <4>1. /\ g \in Int /\ e \in Int /\ l \in Int /\ l = e + 2 - g
              /\ h = g + 1 /\ h <= 3 /\ g >= 0 /\ k \in 1..(e - 1) /\ m = k + 3 - h
          BY <1>1, <1>5, <1>8 DEF OnItsWay
        <4> HIDE DEF g, e, l, h, m
        <4>2. m \in 1..(l - 1) /\ m + 1 = k + 3 - g
          BY <4>1
        <4>3. QED BY <4>2 DEF g, l
      <3> HIDE DEF m
      <3>2. Tail(w.left)[m] = w.left[m + 1]
        BY <1>3, <3>1
      <3>3. QED BY <1>2, <3>1, <3>2 DEF m
    <2>2. BodyLeft(x) = BodyLeft(w)
      BY <1>2, <2>1 DEF BodyLeft
    <2>3. Gone(w) <= 3
      BY <1>1, <1>5, <1>8
    <2>4. QED BY <1>2, <1>8, <2>2, <2>3 DEF OnItsWay
  <1>9. QED BY <1>2, <1>4, <1>5, <1>7, <1>8 DEF OnItsWay

(* The wire: nothing has left it of a frame behind the first.               *)
Sound(q) ==
  /\ q \in Seq(Item)
  /\ \A i \in DOMAIN q : OnItsWay(q[i]) /\ (i > 1 => Gone(q[i]) = 0)

ReceiveInv == TypeOK /\ Sound(wire)

(* The frames sent and not wholly read, as FrameLink sees them.             *)
LinkItem == [frame : Frames, damaged : BOOLEAN]
Link1(w) == [frame |-> w.frame, damaged |-> w.damaged]
Awaited(q) == [i \in DOMAIN q |-> Link1(q[i])]

LEMMA FirstItem ==
  ASSUME NEW q \in Seq(Item), q # << >>
  PROVE  /\ Len(q) \in Int /\ 1 <= Len(q) /\ 1 \in DOMAIN q
         /\ q[1] \in Item
         /\ DOMAIN q = 1..Len(q)
  <1>1. Len(q) \in Int /\ 0 < Len(q)
    BY TailBytes
  <1>2. DOMAIN q = 1..Len(q)
    OBVIOUS
  <1>3. 1 \in 1..Len(q)
    BY <1>1
  <1>4. QED BY <1>1, <1>2, <1>3

LEMMA SeqOf ==
  ASSUME NEW S, NEW size \in Nat, NEW g \in [1..size -> S]
  PROVE  g \in Seq(S) /\ Len(g) = size
  OBVIOUS

LEMMA AwaitedIsSeq ==
  ASSUME NEW q \in Seq(Item)
  PROVE  /\ Awaited(q) \in Seq(LinkItem)
         /\ Len(Awaited(q)) = Len(q) /\ DOMAIN Awaited(q) = DOMAIN q
         /\ Awaited(q) = << >> <=> q = << >>
         /\ \A i \in DOMAIN q : Awaited(q)[i] = Link1(q[i])
  <1>1. DOMAIN q = 1..Len(q) /\ Len(q) \in Nat
    OBVIOUS
  <1>2. \A i \in DOMAIN q : Link1(q[i]) \in LinkItem
    <2>1. \A i \in DOMAIN q : q[i] \in Item
      BY <1>1
    <2>2. QED BY <2>1, ItemFields DEF Link1, LinkItem
  <1>3. Awaited(q) \in [1..Len(q) -> LinkItem]
    BY <1>1, <1>2 DEF Awaited
  <1>4. Awaited(q) \in Seq(LinkItem) /\ Len(Awaited(q)) = Len(q)
    BY <1>1, <1>3, SeqOf
  <1>5. DOMAIN Awaited(q) = DOMAIN q
    BY DEF Awaited
  <1>6. Awaited(q) = << >> <=> q = << >>
    BY <1>4, EmptySeq
  <1>7. QED BY <1>4, <1>5, <1>6 DEF Awaited

(* The whole of the first frame has left the wire.                          *)
LEMMA FrameLeaves ==
  ASSUME NEW q, Sound(q), q # << >>
  PROVE  /\ Sound(Tail(q)) /\ Len(Tail(q)) = Len(q) - 1
         /\ Awaited(Tail(q)) = Tail(Awaited(q))
         /\ Tail(q) # << >> => Gone(Tail(q)[1]) = 0
  <1> DEFINE r == Tail(q)
  <1>1. /\ q \in Seq(Item)
        /\ Len(q) \in Int /\ 1 <= Len(q) /\ DOMAIN q = 1..Len(q)
    BY FirstItem DEF Sound
  <1>2. /\ r \in Seq(Item) /\ Len(r) = Len(q) - 1
        /\ \A i \in 1..(Len(q) - 1) : r[i] = q[i + 1]
    BY <1>1, TailBytes
  <1> HIDE DEF r
  <1>3. DOMAIN r = 1..(Len(q) - 1)
    BY <1>2
  <1>4. \A i \in DOMAIN r : i + 1 \in DOMAIN q /\ i + 1 > 1 /\ r[i] = q[i + 1]
    BY <1>1, <1>2, <1>3
  <1>5. \A i \in DOMAIN r : OnItsWay(r[i]) /\ Gone(r[i]) = 0
    BY <1>4 DEF Sound
  <1>6. Sound(r)
    BY <1>2, <1>5 DEF Sound
  <1>7. Awaited(r) = Tail(Awaited(q))
    <2>1. /\ Awaited(q) \in Seq(LinkItem) /\ Len(Awaited(q)) = Len(q) /\ Awaited(q) # << >>
          /\ \A i \in DOMAIN q : Awaited(q)[i] = Link1(q[i])
      BY <1>1, AwaitedIsSeq
    <2>2. /\ Awaited(r) \in Seq(LinkItem) /\ Len(Awaited(r)) = Len(r)
          /\ \A i \in DOMAIN r : Awaited(r)[i] = Link1(r[i])
      BY <1>2, AwaitedIsSeq
    <2> DEFINE t == Tail(Awaited(q))
    <2>3. /\ t \in Seq(LinkItem) /\ Len(t) = Len(q) - 1
          /\ \A i \in 1..(Len(q) - 1) : t[i] = Awaited(q)[i + 1]
      BY <2>1, TailBytes
    <2> HIDE DEF t
    <2>4. ASSUME NEW i \in 1..Len(Awaited(r))
          PROVE  Awaited(r)[i] = t[i]
      <3>1. i \in 1..(Len(q) - 1) /\ i \in DOMAIN r
        BY <1>2, <1>3, <2>2
      <3>2. QED BY <1>4, <2>1, <2>2, <2>3, <3>1
    <2>5. Len(Awaited(r)) = Len(t)
      BY <1>2, <2>2, <2>3
    <2>6. Awaited(r) = t
      BY <2>2, <2>3, <2>4, <2>5, SeqEqual
    <2>7. QED BY <2>6 DEF t
  <1>8. r # << >> => Gone(r[1]) = 0
    BY <1>2, <1>5, FirstItem
  <1>9. QED BY <1>2, <1>6, <1>7, <1>8 DEF r

(* One frame on the wire changes, on its way.                               *)
Changed(q, i, x) == [q EXCEPT ![i] = x]
Allowed(q, i, x) ==
  Sound(q) /\ i \in DOMAIN q /\ x \in Item /\ OnItsWay(x) /\ (i = 1 \/ Gone(x) = 0)

LEMMA ItemChanges ==
  ASSUME NEW q, NEW i, NEW x, Allowed(q, i, x)
  PROVE  LET r == Changed(q, i, x)
         IN /\ Sound(r) /\ Len(r) = Len(q) /\ DOMAIN r = DOMAIN q
            /\ r[i] = x /\ \A j \in DOMAIN q : j # i => r[j] = q[j]
            /\ Awaited(r) = Changed(Awaited(q), i, Link1(x))
  <1> DEFINE r == Changed(q, i, x)
  <1>1. /\ q \in Seq(Item) /\ DOMAIN q = 1..Len(q) /\ i \in DOMAIN q
        /\ x \in Item /\ OnItsWay(x) /\ (i = 1 \/ Gone(x) = 0)
    BY DEF Allowed, Sound
  <1>2. /\ r \in Seq(Item) /\ Len(r) = Len(q)
        /\ \A j \in 1..Len(q) : r[j] = IF j = i THEN x ELSE q[j]
    BY <1>1, ExceptSeq DEF Changed
  <1>3. DOMAIN r = DOMAIN q /\ r[i] = x /\ \A j \in DOMAIN q : j # i => r[j] = q[j]
    BY <1>1, <1>2
  <1>4. Awaited(r) = Changed(Awaited(q), i, Link1(x))
    <2> HIDE DEF r
    <2>1. QED BY <1>3 DEF Awaited, Changed
  <1> HIDE DEF r
  <1>5. Sound(r)
    <2>1. ASSUME NEW j \in DOMAIN r
          PROVE  OnItsWay(r[j]) /\ (j > 1 => Gone(r[j]) = 0)
      <3>1. CASE j = i
        BY <1>1, <1>3, <3>1
      <3>2. CASE j # i
        BY <1>3, <3>2 DEF Allowed, Sound
      <3>3. QED BY <3>1, <3>2
    <2>2. QED BY <1>2, <2>1 DEF Sound
  <1>6. QED BY <1>2, <1>3, <1>4, <1>5 DEF r

(* A byte of the first frame leaves the wire, and others are left of it.    *)
LEMMA ByteLeaves ==
  ASSUME NEW q, Sound(q), q # << >>, Len(q[1].left) # 1,
         NEW r, r = [q EXCEPT ![1].left = Tail(@)]
  PROVE  /\ Sound(r) /\ Len(r) = Len(q) /\ Awaited(r) = Awaited(q) /\ r # << >>
         /\ r[1].frame = q[1].frame /\ r[1].damaged = q[1].damaged
         /\ r[1].left = Tail(q[1].left) /\ Gone(r[1]) = Gone(q[1]) + 1
  <1>1. q \in Seq(Item) /\ 1 \in DOMAIN q /\ q[1] \in Item /\ OnItsWay(q[1])
        /\ Len(q) \in Int /\ 1 <= Len(q)
    BY FirstItem DEF Sound
  <1> DEFINE x == [q[1] EXCEPT !.left = Tail(@)]
  <1>2. r = Changed(q, 1, x)
    BY DEF Changed
  <1>3. /\ x \in Item /\ OnItsWay(x) /\ Gone(x) = Gone(q[1]) + 1
        /\ x.frame = q[1].frame /\ x.damaged = q[1].damaged
        /\ x.left = Tail(q[1].left)
    BY <1>1, TailOnItsWay
  <1> HIDE DEF x
  <1>4. /\ Sound(r) /\ Len(r) = Len(q) /\ DOMAIN r = DOMAIN q /\ r[1] = x
        /\ Awaited(r) = Changed(Awaited(q), 1, Link1(x))
    <2>1. Allowed(q, 1, x)
      BY <1>1, <1>3 DEF Allowed
    <2>2. Sound(Changed(q, 1, x))
      BY <2>1, ItemChanges
    <2>3. Len(Changed(q, 1, x)) = Len(q)
      BY <2>1, ItemChanges
    <2>4. DOMAIN (Changed(q, 1, x)) = DOMAIN q
      BY <2>1, ItemChanges
    <2>5. Changed(q, 1, x)[1] = x
      BY <2>1, ItemChanges
    <2>6. Awaited(Changed(q, 1, x)) = Changed(Awaited(q), 1, Link1(x))
      BY <2>1, ItemChanges
    <2>7. QED BY <1>2, <2>2, <2>3, <2>4, <2>5, <2>6
  <1>5. Awaited(r) = Awaited(q)
    <2>1. Link1(x) = Link1(q[1])
      BY <1>3 DEF Link1
    <2>2. Awaited(q)[1] = Link1(q[1]) /\ Awaited(q) \in Seq(LinkItem)
      BY <1>1, AwaitedIsSeq
    <2>3. Changed(Awaited(q), 1, Awaited(q)[1]) = Awaited(q)
      BY <2>2 DEF Changed
    <2>4. QED BY <1>4, <2>1, <2>2, <2>3
  <1>6. r # << >>
    BY <1>1, <1>4
  <1>7. QED BY <1>3, <1>4, <1>5, <1>6

(* A byte of a frame is altered on its way.                                 *)
Altered(w, k, b) ==
  [frame |-> w.frame, left |-> [w.left EXCEPT ![k] = b],
   damaged |-> w.damaged \/ InBody(w, k)]
MayAlter(w, k, b) ==
  /\ w \in Item /\ OnItsWay(w)
  /\ k \in DOMAIN w.left /\ b \in Bytes /\ w.left[k] # b
  /\ InBody(w, k) => ~w.damaged

LEMMA AlteredOnItsWay ==
  ASSUME NEW w, NEW k, NEW b, MayAlter(w, k, b)
  PROVE  LET x == Altered(w, k, b)
         IN /\ x \in Item /\ OnItsWay(x) /\ Gone(x) = Gone(w)
            /\ x.frame = w.frame /\ x.damaged = (w.damaged \/ InBody(w, k))
            /\ x.left \in Seq(Bytes) /\ Len(x.left) = Len(w.left)
            /\ x.left[k] = b /\ \A j \in DOMAIN w.left : j # k => x.left[j] = w.left[j]
  <1> DEFINE x == Altered(w, k, b)
  <1> DEFINE f == w.frame
  <1> w \in Item /\ OnItsWay(w) /\ k \in DOMAIN w.left
      /\ b \in Bytes /\ w.left[k] # b /\ (InBody(w, k) => ~w.damaged)
    BY DEF MayAlter
  <1>1. /\ f \in Frames /\ w.left \in Seq(Bytes)
        /\ Len(w.left) \in Int /\ 0 < Len(w.left) /\ DOMAIN w.left = 1..Len(w.left)
        /\ ExtLen(f) \in Int /\ 3 <= ExtLen(f)
        /\ Gone(w) \in Int /\ Len(w.left) = ExtLen(f) + 2 - Gone(w)
    BY ItemFields
  <1> DEFINE d == w.damaged \/ InBody(w, k)
  <1>2. x.frame = f /\ x.damaged = d /\ x.left = [w.left EXCEPT ![k] = b]
    BY DEF Altered
  <1>3. /\ x.left \in Seq(Bytes) /\ Len(x.left) = Len(w.left)
        /\ \A j \in 1..Len(w.left) : x.left[j] = IF j = k THEN b ELSE w.left[j]
    BY <1>1, <1>2, ExceptSeq
  <1>4. x.left # << >> /\ DOMAIN x.left = DOMAIN w.left
    <2>1. Len(x.left) # 0
      BY <1>1, <1>3
    <2>2. QED BY <1>1, <1>3, <2>1, EmptySeq
  <1>5. x \in Item
    <2>1. x = [frame |-> f, left |-> x.left, damaged |-> d]
      BY DEF Altered
    <2>2. x.left \in Seq(Bytes) \ {<< >>}
      BY <1>3, <1>4
    <2>3. d \in BOOLEAN
      OBVIOUS
    <2> HIDE DEF x, d
    <2> DEFINE left == x.left
    <2>4. left \in Seq(Bytes) \ {<< >>} /\ x = [frame |-> w.frame, left |-> left, damaged |-> d]
      BY <2>1, <2>2
    <2> HIDE DEF left
    <2>5. QED BY <1>1, <2>3, <2>4, Zenon DEF Item
  <1>6. Gone(x) = Gone(w)
    BY <1>2, <1>3 DEF Gone
  <1> HIDE DEF x
  <1>7. k \in 1..Len(w.left) /\ Gone(w) \in Nat
    BY <1>1 DEF OnItsWay
  <1>8. ASSUME NEW j \in DOMAIN x.left, ~x.damaged, InBody(x, j)
        PROVE  x.left[j] = Encode(f)[Gone(x) + j]
    <2>1. j \in 1..Len(w.left) /\ InBody(w, j) /\ ~w.damaged /\ j # k
      BY <1>1, <1>2, <1>4, <1>6, <1>8 DEF InBody
    <2>2. w.left[j] = Encode(f)[Gone(w) + j]
      BY <1>1, <2>1 DEF OnItsWay
    <2>3. QED BY <1>3, <1>6, <2>1, <2>2
  <1>9. ASSUME Gone(w) <= 3, InBody(w, k)
        PROVE  OneByteOff(BodyLeft(x), Body(f))
    <2> DEFINE end == ExtLen(f) - 1
    <2>1. /\ Body(f) \in Seq(Bytes) /\ DOMAIN Body(f) = 1..end
          /\ \A j \in 1..end : Encode(f)[3 + j] = Body(f)[j]
      BY <1>1, BodyBytes, EncodeBytes
    <2>2. /\ DOMAIN BodyLeft(x) = 1..end
          /\ \A j \in 1..end : BodyLeft(x)[j] = x.left[j + 3 - Gone(w)]
      BY <1>2, <1>6 DEF BodyLeft
    <2> DEFINE e == ExtLen(f)
    <2> DEFINE g == Gone(w)
    <2> DEFINE l == Len(w.left)
    <2>3. e \in Int /\ 3 <= e /\ g \in Int /\ 0 <= g /\ g <= 3 /\ l \in Int /\ l = e + 2 - g
      BY <1>1, <1>7, <1>9
    <2>4. k \in Int /\ 1 <= k /\ k <= l /\ g + k > 3 /\ ~w.damaged
      BY <1>7, <1>9 DEF InBody
    <2>5. \A j \in 1..end : j + 3 - Gone(w) \in 1..Len(w.left)
      <3> HIDE DEF e, g, l
      <3>1. \A j \in 1..(e - 1) : j + 3 - g \in 1..l
        BY <2>3
      <3>2. QED BY <3>1 DEF e, g, l
    <2>6. ASSUME NEW j \in 1..end
          PROVE  w.left[j + 3 - Gone(w)] = Body(f)[j]
      <3> DEFINE i == j + 3 - Gone(w)
      <3>1. i \in 1..Len(w.left) /\ Gone(w) + i = 3 + j
        BY <1>1, <2>5
      <3> HIDE DEF i
      <3>2. InBody(w, i) /\ i \in DOMAIN w.left
        <4>1. 3 + j > 3
          OBVIOUS
        <4>2. QED BY <1>1, <3>1, <4>1 DEF InBody
      <3>3. w.left[i] = Encode(f)[Gone(w) + i]
        BY <2>4, <3>2 DEF OnItsWay
      <3>4. w.left[i] = Body(f)[j]
        BY <2>1, <3>1, <3>3
      <3>5. QED BY <3>4 DEF i
    <2> DEFINE m == Gone(w) + k - 3
    <2>7. m \in 1..end /\ m + 3 - Gone(w) = k
      <3> HIDE DEF e, g, l
      <3>1. g + k - 3 \in 1..(e - 1) /\ g + k - 3 + 3 - g = k
        BY <2>3, <2>4
      <3>2. QED BY <3>1 DEF e, g, l
    <2> HIDE DEF m, end
    <2>8. BodyLeft(x)[m] # Body(f)[m]
      BY <1>3, <1>7, <2>2, <2>6, <2>7
    <2>9. ASSUME NEW j \in 1..end, j # m
          PROVE  BodyLeft(x)[j] = Body(f)[j]
      <3>1. j + 3 - Gone(w) \in 1..Len(w.left)
        BY <2>5
      <3>2. j + 3 - Gone(w) # k
        <4>1. j \in Int /\ j # g + k - 3
          BY <2>3, <2>9 DEF m, end
        <4> HIDE DEF g
        <4>2. j + 3 - g # k
          BY <2>3, <2>4, <4>1
        <4>3. QED BY <4>2 DEF g
      <3>3. QED BY <1>3, <2>2, <2>6, <3>1, <3>2
    <2>10. QED BY <2>1, <2>2, <2>7, <2>8, <2>9 DEF OneByteOff
  <1>10. ASSUME Gone(w) <= 3, ~InBody(w, k), w.damaged
         PROVE  OneByteOff(BodyLeft(x), Body(f))
    <2>1. ASSUME NEW j \in 1..(ExtLen(f) - 1)
          PROVE  x.left[j + 3 - Gone(x)] = w.left[j + 3 - Gone(w)]
      <3> DEFINE e == ExtLen(f)
      <3> DEFINE g == Gone(w)
      <3> DEFINE l == Len(w.left)
      <3>1. /\ e \in Int /\ g \in Int /\ 0 <= g /\ g <= 3 /\ l \in Int /\ l = e + 2 - g
            /\ k \in Int /\ ~(g + k > 3) /\ j \in 1..(e - 1)
        BY <1>1, <1>7, <1>10 DEF InBody
      <3> HIDE DEF e, g, l
      <3>2. j + 3 - g \in 1..l /\ j + 3 - g # k
        BY <3>1
      <3>3. j + 3 - Gone(w) \in 1..Len(w.left) /\ j + 3 - Gone(w) # k
        BY <3>2 DEF g, l
      <3>4. QED BY <1>3, <1>6, <3>3
    <2>2. BodyLeft(x) = BodyLeft(w)
      BY <1>2, <2>1 DEF BodyLeft
    <2>3. QED BY <1>10, <2>2 DEF OnItsWay
  <1>11. OnItsWay(x)
    <2>1. x.damaged /\ Gone(x) <= 3 => OneByteOff(BodyLeft(x), Body(f))
      BY <1>2, <1>6, <1>9, <1>10
    <2>2. QED BY <1>2, <1>6, <1>7, <1>8, <2>1 DEF OnItsWay
  <1>12. x.left[k] = b /\ \A j \in DOMAIN w.left : j # k => x.left[j] = w.left[j]
    BY <1>1, <1>3, <1>7
  <1>13. QED BY <1>2, <1>3, <1>5, <1>6, <1>11, <1>12 DEF x

-----------------------------------------------------------------------------
(* Type correctness, and what is on the wire.                               *)

ThreadOK ==
  /\ rx \in {"head1", "head2", "len", "type", "data", "dead"}
  /\ ext_len \in Bytes /\ ext_type \in Bytes /\ ext_data \in Seq(Bytes)
  /\ rx = "data" => Len(ext_data) < ext_len - 2
  /\ check_sum \in Nat
  /\ got.bit \in {0, 1}

LEMMA TypeParts ==
  TypeOK <=> /\ wire \in Seq(Item) /\ Len(wire) <= MaxWire
             /\ faults \in 0..MaxFaults /\ ThreadOK
  BY DEF TypeOK, ThreadOK, Item

LEMMA OneFrame ==
  ASSUME NEW w \in Item, OnItsWay(w)
  PROVE  Sound(<<w>>) /\ Len(<<w>>) = 1
  <1>1. <<w>> \in Seq(Item) /\ Len(<<w>>) = 1 /\ <<w>>[1] = w /\ DOMAIN <<w>> = {1}
    OBVIOUS
  <1>2. QED BY <1>1 DEF Sound

LEMMA ReceiveInvInit == Init => ReceiveInv
  <1> SUFFICES ASSUME Init PROVE ReceiveInv
    OBVIOUS
  <1>1. PICK f \in Frames : \E k \in DOMAIN Encode(f) :
               wire = <<Sent(f, SubSeq(Encode(f), k, Len(Encode(f))))>>
    BY DEF Init
  <1>2. PICK k \in DOMAIN Encode(f) :
               wire = <<Sent(f, SubSeq(Encode(f), k, Len(Encode(f))))>>
    BY <1>1
  <1> DEFINE w == Sent(f, SubSeq(Encode(f), k, Len(Encode(f))))
  <1>3. w \in Item /\ OnItsWay(w)
    BY SentOnItsWay
  <1> HIDE DEF w
  <1>4. Sound(wire) /\ Len(wire) = 1
    BY <1>2, <1>3, OneFrame DEF w
  <1>5. 1 <= MaxWire /\ 0 \in 0..MaxFaults
    BY BoundsAssumption
  <1>6. ThreadOK
    BY DEF Init, ThreadOK, Bytes, NoFrame
  <1>7. faults \in 0..MaxFaults
    BY <1>5 DEF Init
  <1>8. QED BY <1>4, <1>5, <1>6, <1>7, TypeParts DEF ReceiveInv, Sound

(* The board sends a frame.                                                 *)
LEMMA SendWire ==
  ASSUME NEW q, Sound(q), NEW f \in Frames
  PROVE  LET r == Append(q, Sent(f, Encode(f)))
         IN /\ Sound(r) /\ Len(r) = Len(q) + 1 /\ r # << >>
            /\ r[1] = IF q = << >> THEN Sent(f, Encode(f)) ELSE q[1]
            /\ Awaited(r) = Append(Awaited(q), [frame |-> f, damaged |-> FALSE])
  <1> DEFINE w == Sent(f, Encode(f))
  <1> DEFINE r == Append(q, w)
  <1>1. w \in Item /\ OnItsWay(w) /\ Gone(w) = 0
    <2>1. /\ Encode(f) \in Seq(Bytes) /\ Len(Encode(f)) = ExtLen(f) + 2
          /\ ExtLen(f) \in Int /\ 3 <= ExtLen(f)
      BY EncodeBytes, FrameFields
    <2>2. 1 \in DOMAIN Encode(f)
      BY <2>1
    <2>3. SubSeq(Encode(f), 1, Len(Encode(f))) = Encode(f)
      <3> HIDE DEF w, r
      <3>1. QED BY <2>1
    <2>4. w = Sent(f, SubSeq(Encode(f), 1, Len(Encode(f))))
      BY <2>3, Zenon
    <2>5. 1 - 1 = 0
      OBVIOUS
    <2> HIDE DEF w, r
    <2>6. QED BY <2>2, <2>4, <2>5, SentOnItsWay
  <1>2. Link1(w) = [frame |-> f, damaged |-> FALSE]
    BY DEF Link1, Sent
  <1>3. q \in Seq(Item) /\ Len(q) \in Nat /\ DOMAIN q = 1..Len(q)
    BY DEF Sound
  <1> HIDE DEF w
  <1>4. /\ r \in Seq(Item) /\ Len(r) = Len(q) + 1
        /\ \A i \in 1..Len(q) : r[i] = q[i]
        /\ r[Len(q) + 1] = w /\ DOMAIN r = 1..(Len(q) + 1)
    BY <1>1, <1>3
  <1> HIDE DEF r
  <1>5. Sound(r)
    <2>1. ASSUME NEW j \in DOMAIN r
          PROVE  OnItsWay(r[j]) /\ (j > 1 => Gone(r[j]) = 0)
      <3>1. CASE j \in 1..Len(q)
        BY <1>3, <1>4, <3>1 DEF Sound
      <3>2. CASE j = Len(q) + 1
        BY <1>1, <1>4, <3>2
      <3>3. QED BY <1>3, <1>4, <3>1, <3>2
    <2>2. QED BY <1>4, <2>1 DEF Sound
  <1>6. r # << >> /\ r[1] = IF q = << >> THEN w ELSE q[1]
    <2>1. Len(r) # 0
      BY <1>3, <1>4
    <2>2. CASE q = << >>
      <3>1. Len(q) + 1 = 1
        BY <2>2
      <3>2. r # << >>
        BY <2>1, EmptySeq
      <3>3. QED BY <1>4, <2>2, <3>1, <3>2
    <2>3. CASE q # << >>
      <3>1. 1 \in 1..Len(q)
        BY <1>3, <2>3, FirstItem
      <3>2. QED BY <1>4, <2>1, <2>3, <3>1, EmptySeq
    <2>4. QED BY <2>2, <2>3
  <1>7. Awaited(r) = Append(Awaited(q), Link1(w))
    <2>1. /\ Awaited(q) \in Seq(LinkItem) /\ Len(Awaited(q)) = Len(q)
          /\ \A i \in DOMAIN q : Awaited(q)[i] = Link1(q[i])
      BY <1>3, AwaitedIsSeq
    <2>2. /\ Awaited(r) \in Seq(LinkItem) /\ Len(Awaited(r)) = Len(q) + 1
          /\ \A i \in DOMAIN r : Awaited(r)[i] = Link1(r[i])
      BY <1>4, AwaitedIsSeq
    <2>3. Link1(w) \in LinkItem
      BY <1>1, ItemFields DEF Link1, LinkItem
    <2> DEFINE t == Append(Awaited(q), Link1(w))
    <2>4. /\ t \in Seq(LinkItem) /\ Len(t) = Len(q) + 1 /\ t[Len(q) + 1] = Link1(w)
          /\ \A i \in 1..Len(q) : t[i] = Awaited(q)[i]
      BY <2>1, <2>3
    <2> HIDE DEF t
    <2>5. ASSUME NEW i \in 1..Len(Awaited(r))
          PROVE  Awaited(r)[i] = t[i]
      <3>1. CASE i \in 1..Len(q)
        BY <1>3, <1>4, <2>1, <2>2, <2>4, <3>1
      <3>2. CASE i = Len(q) + 1
        BY <1>4, <2>2, <2>4, <3>2
      <3>3. QED BY <1>3, <2>2, <3>1, <3>2
    <2>6. Awaited(r) = t
      BY <2>2, <2>4, <2>5, SeqEqual
    <2>7. QED BY <2>6 DEF t
  <1>8. QED BY <1>2, <1>4, <1>5, <1>6, <1>7 DEF r, w

LEMMA ReadWire ==
  ASSUME ReceiveInv, wire # << >>, wire' = Taken
  PROVE  /\ Sound(wire') /\ Len(wire') <= MaxWire /\ Byte \in Bytes
         /\ Byte \in Nat
  <1>1. Sound(wire) /\ wire \in Seq(Item) /\ Len(wire) <= MaxWire /\ MaxWire \in Int
    BY TypeParts, BoundsAssumption DEF ReceiveInv, Sound
  <1>2. Len(wire) \in Int /\ wire[1] \in Item
    BY <1>1, FirstItem
  <1>3. Byte \in Bytes
    <2>1. wire[1].left \in Seq(Bytes) /\ 1 \in 1..Len(wire[1].left)
      BY <1>2, ItemFields
    <2>2. QED BY <2>1 DEF Byte
  <1>4. CASE Len(wire[1].left) = 1
    <2>1. wire' = Tail(wire)
      BY <1>4 DEF Taken
    <2>2. Sound(wire') /\ Len(wire') = Len(wire) - 1
      BY <1>1, <2>1, FrameLeaves
    <2>3. QED BY <1>1, <1>2, <1>3, <2>2, ByteRange
  <1>5. CASE Len(wire[1].left) # 1
    <2>1. wire' = [wire EXCEPT ![1].left = Tail(@)]
      BY <1>5 DEF Taken
    <2>2. Sound(wire') /\ Len(wire') = Len(wire)
      BY <1>1, <1>5, <2>1, ByteLeaves
    <2>3. QED BY <1>1, <1>2, <1>3, <2>2, ByteRange
  <1>6. QED BY <1>4, <1>5

(* The frame is forgotten, whatever becomes of it.                          *)
LEMMA FinishTypes ==
  ASSUME ThreadOK, NEW type, NEW data, NEW sum, NEW rx_check_num,
         Finish(type, data, sum, rx_check_num)
  PROVE  ThreadOK'
  <1>1. ext_len' = 0 /\ ext_type' = 0 /\ ext_data' = << >> /\ check_sum' = 0
    BY DEF Finish
  <1>2. rx' \in {"head1", "dead"}
    BY DEF Finish
  <1>3. got'.bit \in {0, 1}
    <2>1. CASE got' = got
      BY <2>1 DEF ThreadOK
    <2>2. CASE got' # got
      <3>1. got'.bit = 1 - got.bit
        BY <2>2 DEF Finish
      <3>2. QED BY <3>1 DEF ThreadOK
    <2>3. QED BY <2>1, <2>2
  <1>4. 0 \in Bytes /\ << >> \in Seq(Bytes) /\ 0 \in Nat
    BY DEF Bytes
  <1>5. rx' # "data" /\ rx' \in {"head1", "head2", "len", "type", "data", "dead"}
    BY <1>2
  <1>6. QED BY <1>1, <1>3, <1>4, <1>5 DEF ThreadOK

LEMMA SetDamaged ==
  ASSUME NEW a, NEW b, NEW c, NEW d
  PROVE  [[frame |-> a, left |-> b, damaged |-> c] EXCEPT !.damaged = d]
           = [frame |-> a, left |-> b, damaged |-> d]
  <1> DEFINE y == [[frame |-> a, left |-> b, damaged |-> c] EXCEPT !.damaged = d]
  <1>1. y \in [frame : {a}, left : {b}, damaged : {d}]
    OBVIOUS
  <1>2. y = [frame |-> y.frame, left |-> y.left, damaged |-> y.damaged]
    BY <1>1
  <1>3. y.frame = a /\ y.left = b /\ y.damaged = d
    BY <1>1
  <1> HIDE DEF y
  <1>4. y = [frame |-> a, left |-> b, damaged |-> d]
    BY <1>2, <1>3
  <1>5. QED BY <1>4 DEF y

WireAltered(q, i, k, b) ==
  [q EXCEPT ![i].left[k] = b, ![i].damaged = @ \/ InBody(q[i], k)]

LEMMA AlterWire ==
  ASSUME NEW q, Sound(q), NEW i \in DOMAIN q, NEW k, NEW b, MayAlter(q[i], k, b)
  PROVE  /\ WireAltered(q, i, k, b) = Changed(q, i, Altered(q[i], k, b))
         /\ Allowed(q, i, Altered(q[i], k, b))
  <1>1. q \in Seq(Item) /\ q[i] \in Item /\ i \in Int /\ i >= 1
    BY DEF Sound
  <1>2. WireAltered(q, i, k, b) = Changed(q, i, Altered(q[i], k, b))
    <2> DEFINE w == q[i]
    <2> DEFINE y == [w EXCEPT !.left[k] = b]
    <2> DEFINE d == w.damaged \/ InBody(w, k)
    <2>1. WireAltered(q, i, k, b) = [q EXCEPT ![i] = [y EXCEPT !.damaged = d]]
      BY <1>1 DEF WireAltered, Item
    <2>2. [y EXCEPT !.damaged = d] = Altered(w, k, b)
      <3>1. w = [frame |-> w.frame, left |-> w.left, damaged |-> w.damaged]
        BY <1>1 DEF Item
      <3> HIDE DEF w
      <3>2. y = [frame |-> w.frame, left |-> [w.left EXCEPT ![k] = b], damaged |-> w.damaged]
        BY <3>1
      <3> HIDE DEF y
      <3> DEFINE l == [w.left EXCEPT ![k] = b]
      <3>3. y = [frame |-> w.frame, left |-> l, damaged |-> w.damaged]
            /\ Altered(w, k, b) = [frame |-> w.frame, left |-> l, damaged |-> d]
        BY <3>2 DEF Altered
      <3> HIDE DEF l, d
      <3>4. [[frame |-> w.frame, left |-> l, damaged |-> w.damaged] EXCEPT !.damaged = d]
              = [frame |-> w.frame, left |-> l, damaged |-> d]
        BY SetDamaged
      <3>5. [y EXCEPT !.damaged = d] = Altered(w, k, b)
        BY <3>3, <3>4
      <3>6. QED BY <3>5 DEF y, d
    <2>3. QED BY <2>1, <2>2 DEF Changed
  <1>3. i = 1 \/ Gone(q[i]) = 0
    BY <1>1 DEF Sound
  <1>4. /\ Altered(q[i], k, b) \in Item /\ OnItsWay(Altered(q[i], k, b))
        /\ Gone(Altered(q[i], k, b)) = Gone(q[i])
    <2> DEFINE w == q[i]
    <2>1. MayAlter(w, k, b)
      OBVIOUS
    <2> HIDE DEF w
    <2>2. Altered(w, k, b) \in Item
      BY <2>1, AlteredOnItsWay
    <2>3. OnItsWay(Altered(w, k, b))
      BY <2>1, AlteredOnItsWay
    <2>4. Gone(Altered(w, k, b)) = Gone(w)
      <3>1. w.left \in Seq(Bytes) /\ k \in DOMAIN w.left
        BY <2>1, ItemFields DEF MayAlter
      <3>2. Len([w.left EXCEPT ![k] = b]) = Len(w.left)
        BY <3>1
      <3>3. QED BY <3>2 DEF Gone, Altered
    <2>5. QED BY <2>2, <2>3, <2>4 DEF w
  <1>5. QED BY <1>1, <1>2, <1>3, <1>4 DEF Allowed

LEMMA ReceiveInvStep == ReceiveInv /\ [Next]_vars => ReceiveInv'
  <1> SUFFICES ASSUME ReceiveInv, [Next]_vars PROVE ReceiveInv'
    OBVIOUS
  <1>1. /\ Sound(wire) /\ wire \in Seq(Item) /\ Len(wire) <= MaxWire
        /\ faults \in 0..MaxFaults /\ ThreadOK
        /\ MaxWire \in Int /\ MaxFaults \in Int
    BY TypeParts, BoundsAssumption DEF ReceiveInv
  <1>2. Len(wire) \in Int
    BY <1>1
  <1>3. /\ ext_len \in Bytes /\ ext_type \in Bytes /\ ext_data \in Seq(Bytes)
        /\ check_sum \in Nat /\ ext_len \in Int /\ ext_len >= 0
    BY <1>1, ByteRange DEF ThreadOK
  <1>4. ASSUME Sound(wire'), Len(wire') <= MaxWire, faults' \in 0..MaxFaults, ThreadOK'
        PROVE  ReceiveInv'
    <2>1. wire' \in Seq(Item)
      BY <1>4 DEF Sound
    <2>2. TypeOK'
      BY <1>4, <2>1 DEF TypeOK, ThreadOK, Item
    <2>3. Sound(wire)'
      BY <1>4 DEF Sound, OnItsWay, InBody, Gone, OneByteOff, BodyLeft
    <2>4. QED BY <2>2, <2>3 DEF ReceiveInv
  <1>5. UNCHANGED thread => ThreadOK'
    BY <1>1 DEF thread, ThreadOK
  <1>6. ASSUME NEW f \in Frames, Send(f) PROVE ReceiveInv'
    <2>1. wire' = Append(wire, Sent(f, Encode(f))) /\ Len(wire) < MaxWire
          /\ faults' = faults /\ UNCHANGED thread
      BY <1>6 DEF Send
    <2>2. Sound(wire') /\ Len(wire') = Len(wire) + 1
      BY <1>1, <2>1, SendWire
    <2>3. Len(wire') <= MaxWire
      BY <1>1, <1>2, <2>1, <2>2
    <2>4. QED BY <1>1, <1>4, <1>5, <2>1, <2>2, <2>3
  <1>7. ASSUME Lose PROVE ReceiveInv'
    <2>1. /\ wire # << >> /\ wire' = Taken /\ UNCHANGED thread
          /\ faults < MaxFaults /\ faults' = faults + 1
      BY <1>7 DEF Lose
    <2>2. Sound(wire') /\ Len(wire') <= MaxWire
      BY <2>1, ReadWire
    <2>3. faults' \in 0..MaxFaults
      BY <1>1, <2>1
    <2>4. QED BY <1>4, <1>5, <2>1, <2>2, <2>3
  <1>8. ASSUME NEW i \in DOMAIN wire, NEW k \in DOMAIN wire[i].left, NEW b \in Noise,
               Alter(i, k, b)
        PROVE  ReceiveInv'
    <2>1. /\ faults < MaxFaults /\ (InBody(wire[i], k) => ~wire[i].damaged)
          /\ wire[i].left[k] # b /\ b \in Bytes /\ faults' = faults + 1
          /\ wire' = [wire EXCEPT ![i].left[k] = b, ![i].damaged = @ \/ InBody(wire[i], k)]
          /\ UNCHANGED thread
      BY <1>8, BoundsAssumption DEF Alter
    <2>2. MayAlter(wire[i], k, b)
      BY <1>1, <2>1 DEF MayAlter, Sound
    <2> DEFINE x == Altered(wire[i], k, b)
    <2>3. wire' = Changed(wire, i, x) /\ Allowed(wire, i, x)
      <3>1. Sound(wire) /\ i \in DOMAIN wire /\ MayAlter(wire[i], k, b)
            /\ wire' = WireAltered(wire, i, k, b)
        BY <1>1, <1>8, <2>1, <2>2 DEF WireAltered
      <3> HIDE DEF x
      <3>2. wire' = Changed(wire, i, Altered(wire[i], k, b))
        BY <3>1, AlterWire
      <3>3. Allowed(wire, i, Altered(wire[i], k, b))
        BY <3>1, AlterWire
      <3>4. QED BY <3>2, <3>3 DEF x
    <2> HIDE DEF x
    <2>4. Sound(Changed(wire, i, x))
      BY <2>3, ItemChanges
    <2>5. Len(Changed(wire, i, x)) = Len(wire)
      BY <2>3, ItemChanges
    <2>6. faults' \in 0..MaxFaults
      BY <1>1, <2>1
    <2>7. QED BY <1>1, <1>4, <1>5, <2>1, <2>4, <2>5, <2>6, <2>3
  <1>9. ASSUME NEW state, Read(state), ThreadOK' PROVE ReceiveInv'
    <2>1. wire # << >> /\ wire' = Taken /\ faults' = faults
      BY <1>9 DEF Read
    <2>2. Sound(wire') /\ Len(wire') <= MaxWire
      BY <2>1, ReadWire
    <2>3. QED BY <1>1, <1>4, <1>9, <2>1, <2>2
  <1>10. ASSUME NEW state, Read(state) PROVE Byte \in Bytes /\ Byte \in Nat
    <2>1. wire # << >> /\ wire' = Taken
      BY <1>10 DEF Read
    <2>2. QED BY <2>1, ReadWire
  <1>11. CASE Head1
    <2>1. Read("head1") /\ ThreadOK'
      BY <1>1, <1>11 DEF Head1, ThreadOK
    <2>2. QED BY <1>9, <2>1
  <1>12. CASE Head2
    <2>1. Read("head2") /\ ThreadOK'
      BY <1>1, <1>12 DEF Head2, ThreadOK
    <2>2. QED BY <1>9, <2>1
  <1>13. CASE Length
    <2>1. Read("len")
      BY <1>13 DEF Length
    <2>2. Byte \in Bytes
      BY <1>10, <2>1
    <2>3. ThreadOK'
      BY <1>1, <1>13, <2>2 DEF Length, ThreadOK
    <2>4. QED BY <1>9, <2>1, <2>3
  <1>14. CASE Type
    <2>1. Read("type")
      BY <1>14 DEF Type
    <2>2. Byte \in Bytes /\ Byte \in Nat
      BY <1>10, <2>1
    <2>3. CASE ext_len - 2 > 0
      <3>1. /\ ext_type' = Byte /\ ext_data' = << >> /\ check_sum' = ext_len + Byte
            /\ rx' = "data" /\ ext_len' = ext_len /\ got' = got
        BY <1>14, <2>3 DEF Type
      <3>2. << >> \in Seq(Bytes) /\ Len(<< >>) < ext_len - 2 /\ ext_len + Byte \in Nat
        BY <1>3, <2>2, <2>3
      <3>3. ThreadOK'
        BY <1>1, <2>2, <3>1, <3>2 DEF ThreadOK
      <3>4. QED BY <1>9, <2>1, <3>3
    <2>4. CASE ~(ext_len - 2 > 0)
      <3>1. Finish(Byte, << >>, ext_len + Byte, 0)
        BY <1>14, <2>4 DEF Type
      <3>2. ThreadOK'
        BY <1>1, <3>1, FinishTypes
      <3>3. QED BY <1>9, <2>1, <3>2
    <2>5. QED BY <2>3, <2>4
  <1>15. CASE Data
    <2>1. Read("data")
      BY <1>15 DEF Data, DataUpTo
    <2>2. Byte \in Bytes /\ Byte \in Nat
      BY <1>10, <2>1
    <2>3. CASE Len(ext_data) + 1 = ext_len - 2
      <3>1. Finish(ext_type, Append(ext_data, Byte), check_sum, Byte)
        BY <1>15, <2>3 DEF Data, DataUpTo
      <3>2. ThreadOK'
        BY <1>1, <3>1, FinishTypes
      <3>3. QED BY <1>9, <2>1, <3>2
    <2>4. CASE Len(ext_data) + 1 # ext_len - 2
      <3>1. /\ ext_data' = Append(ext_data, Byte) /\ check_sum' = check_sum + Byte
            /\ rx' = rx /\ ext_len' = ext_len /\ ext_type' = ext_type /\ got' = got
        BY <1>15, <2>4 DEF Data, DataUpTo
      <3>2. /\ Append(ext_data, Byte) \in Seq(Bytes) /\ check_sum + Byte \in Nat
            /\ Len(Append(ext_data, Byte)) = Len(ext_data) + 1 /\ Len(ext_data) \in Int
        BY <1>3, <2>2
      <3>3. Len(ext_data) < ext_len - 2
        BY <1>1, <2>1 DEF Read, ThreadOK
      <3>4. Len(ext_data') < ext_len - 2
        BY <1>3, <2>4, <3>1, <3>2, <3>3
      <3>5. ThreadOK'
        <4>1. ext_data' \in Seq(Bytes) /\ check_sum' \in Nat /\ Len(ext_data') < ext_len' - 2
          BY <3>1, <3>2, <3>4
        <4>2. /\ rx' \in {"head1", "head2", "len", "type", "data", "dead"}
              /\ ext_len' \in Bytes /\ ext_type' \in Bytes /\ got'.bit \in {0, 1}
          BY <1>1, <3>1 DEF ThreadOK
        <4>3. QED BY <4>1, <4>2 DEF ThreadOK
      <3>6. QED BY <1>9, <2>1, <3>5
    <2>5. QED BY <2>3, <2>4
  <1>16. CASE UNCHANGED vars
    <2>1. wire' = wire /\ faults' = faults /\ UNCHANGED thread
      BY <1>16 DEF vars, thread
    <2>2. QED BY <1>1, <1>4, <1>5, <2>1
  <1>17. QED
    BY <1>6, <1>7, <1>8, <1>11, <1>12, <1>13, <1>14, <1>15, <1>16 DEF Next, Receive

(* What the thread holds stays within its bounds, whatever comes: each byte *)
(* of a frame fits, and it never waits for data it has.                     *)
THEOREM ReceiveTypes == Spec => []TypeOK
  <1>1. Init => ReceiveInv
    BY ReceiveInvInit
  <1>2. ReceiveInv /\ [Next]_vars => ReceiveInv'
    BY ReceiveInvStep
  <1>3. ReceiveInv => TypeOK
    BY DEF ReceiveInv
  <1>4. QED BY <1>1, <1>2, <1>3, PTL DEF Spec

-----------------------------------------------------------------------------
(* The body of a frame as the thread has it: the type, the data so far and  *)
(* what is left on the wire.                                                *)
Held(type, data, left) == <<type>> \o data \o left

Holds(s, type, data, left) ==
  /\ s \in Seq(Bytes) /\ Len(s) = 1 + Len(data) + Len(left) /\ s[1] = type
  /\ \A i \in 1..Len(data) : s[1 + i] = data[i]
  /\ \A i \in 1..Len(left) : s[1 + Len(data) + i] = left[i]

LEMMA HeldBytes ==
  ASSUME NEW type \in Bytes, NEW data \in Seq(Bytes), NEW left \in Seq(Bytes)
  PROVE  Holds(Held(type, data, left), type, data, left)
  <1> DEFINE t == <<type>>
  <1>1. t \in Seq(Bytes) /\ Len(t) = 1 /\ t[1] = type
    OBVIOUS
  <1>2. Held(type, data, left) = (t \o data) \o left
    BY DEF Held
  <1> HIDE DEF t
  <1> DEFINE s == t \o data
  <1>3. /\ s \in Seq(Bytes) /\ Len(s) = 1 + Len(data) /\ s[1] = type
        /\ \A i \in 1..Len(data) : s[1 + i] = data[i]
    <2>1. t \in Seq(Bytes) /\ data \in Seq(Bytes)
      BY <1>1
    <2>2. /\ t \o data \in Seq(Bytes) /\ Len(t \o data) = Len(t) + Len(data)
          /\ \A i \in 1..Len(t) : (t \o data)[i] = t[i]
          /\ \A i \in 1..Len(data) : (t \o data)[Len(t) + i] = data[i]
      BY <2>1, JoinBytes
    <2>3. QED BY <1>1, <2>2
  <1> HIDE DEF s
  <1>4. Held(type, data, left) = s \o left
    BY <1>2 DEF s
  <1>5. /\ s \o left \in Seq(Bytes) /\ Len(s \o left) = Len(s) + Len(left)
        /\ \A i \in 1..Len(s) : (s \o left)[i] = s[i]
        /\ \A i \in 1..Len(left) : (s \o left)[Len(s) + i] = left[i]
    <2>1. s \in Seq(Bytes) /\ left \in Seq(Bytes)
      BY <1>3
    <2>2. QED BY <2>1, JoinBytes
  <1> DEFINE z == Held(type, data, left)
  <1>6. /\ z \in Seq(Bytes) /\ Len(z) = Len(s) + Len(left)
        /\ \A i \in 1..Len(s) : z[i] = s[i]
        /\ \A i \in 1..Len(left) : z[Len(s) + i] = left[i]
    BY <1>4, <1>5
  <1> HIDE DEF z
  <1>7. Len(data) \in Nat /\ 1 \in 1..Len(s)
    BY <1>3
  <1>8. \A i \in 1..Len(data) : 1 + i \in 1..Len(s)
    BY <1>3, <1>7
  <1>9. QED BY <1>3, <1>6, <1>7, <1>8 DEF z, Holds

(* A byte more, from the wire to the data.                                  *)
LEMMA HeldShifts ==
  ASSUME NEW type \in Bytes, NEW data \in Seq(Bytes), NEW left \in Seq(Bytes), left # << >>
  PROVE  Held(type, Append(data, left[1]), Tail(left)) = Held(type, data, left)
  <1> DEFINE d == Append(data, left[1])
  <1> DEFINE e == Tail(left)
  <1>1. /\ Len(left) \in Nat /\ Len(left) > 0 /\ e \in Seq(Bytes) /\ Len(e) = Len(left) - 1
        /\ \A i \in 1..(Len(left) - 1) : e[i] = left[i + 1]
    BY TailBytes
  <1>2. left[1] \in Bytes
    BY <1>1
  <1>3. /\ d \in Seq(Bytes) /\ Len(d) = Len(data) + 1 /\ d[Len(data) + 1] = left[1]
        /\ \A i \in 1..Len(data) : d[i] = data[i]
        /\ Len(data) \in Nat
    BY <1>2
  <1> HIDE DEF d, e
  <1> DEFINE s == Held(type, data, left)
  <1> DEFINE t == Held(type, d, e)
  <1>4. /\ s \in Seq(Bytes) /\ Len(s) = 1 + Len(data) + Len(left) /\ s[1] = type
        /\ \A i \in 1..Len(data) : s[1 + i] = data[i]
        /\ \A i \in 1..Len(left) : s[1 + Len(data) + i] = left[i]
    <2>1. Holds(s, type, data, left)
      BY HeldBytes
    <2> HIDE DEF s, t
    <2>2. QED BY <2>1 DEF Holds
  <1>5. /\ t \in Seq(Bytes) /\ Len(t) = 1 + Len(d) + Len(e) /\ t[1] = type
        /\ \A i \in 1..Len(d) : t[1 + i] = d[i]
        /\ \A i \in 1..Len(e) : t[1 + Len(d) + i] = e[i]
    <2>1. Holds(t, type, d, e)
      BY <1>1, <1>3, HeldBytes
    <2> HIDE DEF s, t
    <2>2. QED BY <2>1 DEF Holds
  <1> HIDE DEF s, t
  <1>6. Len(s) = Len(t)
    BY <1>1, <1>3, <1>4, <1>5
  <1>7. ASSUME NEW i \in 1..Len(s)
        PROVE  t[i] = s[i]
    <2>1. CASE i = 1
      BY <1>4, <1>5, <2>1
    <2>2. CASE i - 1 \in 1..Len(data)
      <3>1. i - 1 \in 1..Len(d) /\ 1 + (i - 1) = i
        BY <1>3, <2>2
      <3>2. t[1 + (i - 1)] = d[i - 1]
        BY <1>5, <3>1
      <3>3. s[1 + (i - 1)] = data[i - 1]
        BY <1>4, <2>2
      <3>4. d[i - 1] = data[i - 1]
        BY <1>3, <2>2
      <3>5. QED BY <3>1, <3>2, <3>3, <3>4
    <2>3. CASE i - 1 = Len(data) + 1
      <3>1. Len(data) + 1 \in 1..Len(d) /\ 1 + (Len(data) + 1) = i
            /\ 1 \in 1..Len(left) /\ 1 + Len(data) + 1 = i
        BY <1>1, <1>3, <2>3
      <3>2. t[i] = d[Len(data) + 1] /\ s[i] = left[1]
        BY <1>4, <1>5, <3>1
      <3>3. QED BY <1>3, <3>2
    <2>4. CASE i - 1 > Len(data) + 1
      <3> DEFINE j == i - 2 - Len(data)
      <3>1. /\ j \in 1..(Len(left) - 1) /\ j \in 1..Len(e) /\ j + 1 \in 1..Len(left)
            /\ 1 + Len(d) + j = i /\ 1 + Len(data) + (j + 1) = i
        BY <1>1, <1>3, <1>4, <2>4
      <3> HIDE DEF j
      <3>2. t[i] = e[j] /\ s[i] = left[j + 1] /\ e[j] = left[j + 1]
        BY <1>1, <1>4, <1>5, <3>1
      <3>3. QED BY <3>2
    <2>5. QED BY <1>1, <1>3, <1>4, <2>1, <2>2, <2>3, <2>4
  <1>8. s = t
    BY <1>4, <1>5, <1>6, <1>7, SeqEqual
  <1>9. QED BY <1>8 DEF s, t, d, e

(* The first byte of a body, from the wire to the type.                     *)
LEMMA HeldStarts ==
  ASSUME NEW left \in Seq(Bytes), left # << >>
  PROVE  Held(left[1], << >>, Tail(left)) = left
  <1> DEFINE e == Tail(left)
  <1>1. /\ Len(left) \in Nat /\ Len(left) > 0 /\ e \in Seq(Bytes) /\ Len(e) = Len(left) - 1
        /\ \A i \in 1..(Len(left) - 1) : e[i] = left[i + 1]
    BY TailBytes
  <1>2. left[1] \in Bytes /\ << >> \in Seq(Bytes) /\ Len(<< >>) = 0
    BY <1>1
  <1> HIDE DEF e
  <1> DEFINE t == Held(left[1], << >>, e)
  <1>3. /\ t \in Seq(Bytes) /\ Len(t) = 1 + 0 + Len(e) /\ t[1] = left[1]
        /\ \A i \in 1..Len(e) : t[1 + 0 + i] = e[i]
    <2>1. Holds(t, left[1], << >>, e)
      BY <1>1, <1>2, HeldBytes
    <2> HIDE DEF t
    <2>2. QED BY <1>2, <2>1 DEF Holds
  <1> HIDE DEF t
  <1>4. Len(t) = Len(left)
    BY <1>1, <1>3
  <1>5. ASSUME NEW i \in 1..Len(left)
        PROVE  t[i] = left[i]
    <2>1. CASE i = 1
      BY <1>3, <2>1
    <2>2. CASE i # 1
      <3>1. /\ i - 1 \in 1..Len(e) /\ i - 1 \in 1..(Len(left) - 1)
            /\ 1 + 0 + (i - 1) = i /\ (i - 1) + 1 = i
        BY <1>1, <2>2
      <3>2. t[1 + 0 + (i - 1)] = e[i - 1] /\ e[i - 1] = left[(i - 1) + 1]
        BY <1>1, <1>3, <3>1
      <3>3. QED BY <3>1, <3>2
    <2>3. QED BY <2>1, <2>2
  <1>6. t = left
    BY <1>3, <1>4, <1>5, SeqEqual
  <1>7. QED BY <1>6 DEF t, e

(* The bytes of a whole body.                                               *)
LEMMA WholeBody ==
  ASSUME NEW f \in Frames, NEW type \in Bytes, NEW data \in Seq(Bytes), NEW b \in Bytes,
         Len(data) = Len(f.data)
  PROVE  LET s == Held(type, data, <<b>>)
         IN /\ DOMAIN s = 1..(ExtLen(f) - 1) /\ DOMAIN Body(f) = 1..(ExtLen(f) - 1)
            /\ s[1] = type /\ Body(f)[1] = f.type
            /\ \A i \in 1..Len(data) : s[1 + i] = data[i] /\ Body(f)[1 + i] = f.data[i]
            /\ s[ExtLen(f) - 1] = b /\ Body(f)[ExtLen(f) - 1] = Check(f)
            /\ s \in Seq(Bytes) /\ Len(s) = ExtLen(f) - 1
  <1> DEFINE s == Held(type, data, <<b>>)
  <1>1. <<b>> \in Seq(Bytes) /\ Len(<<b>>) = 1 /\ <<b>>[1] = b /\ 1 \in 1..Len(<<b>>)
    OBVIOUS
  <1>2. /\ s \in Seq(Bytes) /\ Len(s) = 1 + Len(data) + 1 /\ s[1] = type
        /\ \A i \in 1..Len(data) : s[1 + i] = data[i]
        /\ s[1 + Len(data) + 1] = b
    <2> DEFINE z == <<b>>
    <2>1. z \in Seq(Bytes) /\ Len(z) = 1 /\ z[1] = b /\ 1 \in 1..Len(z)
      BY <1>1
    <2> HIDE DEF z
    <2>2. Holds(Held(type, data, z), type, data, z)
      BY <2>1, HeldBytes
    <2>3. Holds(s, type, data, z)
      BY <2>2 DEF z
    <2> HIDE DEF s
    <2>4. QED BY <2>1, <2>3 DEF Holds
  <1> HIDE DEF s
  <1>3. Len(data) \in Nat /\ ExtLen(f) = Len(data) + 3
    BY FrameFields
  <1>4. 1 + Len(data) + 1 = ExtLen(f) - 1 /\ \A i \in 1..Len(data) : i + 1 = 1 + i
    BY <1>3
  <1>5. /\ Body(f) \in Seq(Bytes) /\ Len(Body(f)) = ExtLen(f) - 1
        /\ Body(f)[1] = f.type /\ Body(f)[ExtLen(f) - 1] = Check(f)
        /\ \A i \in 1..Len(data) : Body(f)[i + 1] = f.data[i]
    BY BodyBytes
  <1>6. DOMAIN s = 1..(ExtLen(f) - 1) /\ DOMAIN Body(f) = 1..(ExtLen(f) - 1)
    BY <1>2, <1>4, <1>5
  <1>7. QED BY <1>2, <1>4, <1>5, <1>6 DEF s

LEMMA Remainders ==
  ASSUME NEW x \in Nat, NEW y \in Nat, x # y, x - y <= 255, y - x <= 255
  PROVE  x % 256 # y % 256
  OBVIOUS

(* A whole body held as it was sent is the frame with its check sum ...     *)
LEMMA SoundParsed ==
  ASSUME NEW f \in Frames, NEW type \in Bytes, NEW data \in Seq(Bytes), NEW b \in Bytes,
         Len(data) = Len(f.data), Held(type, data, <<b>>) = Body(f)
  PROVE  /\ type = f.type /\ data = f.data
         /\ (ExtLen(f) + type + Sum(data)) % 256 = b
  <1> DEFINE s == Held(type, data, <<b>>)
  <1>1. /\ s[1] = type /\ Body(f)[1] = f.type
        /\ \A i \in 1..Len(data) : s[1 + i] = data[i] /\ Body(f)[1 + i] = f.data[i]
        /\ s[ExtLen(f) - 1] = b /\ Body(f)[ExtLen(f) - 1] = Check(f)
    <2> HIDE DEF s
    <2>1. DOMAIN s = 1..(ExtLen(f) - 1)
      BY WholeBody DEF s
    <2>2. QED BY WholeBody DEF s
  <1>2. s = Body(f)
    OBVIOUS
  <1> HIDE DEF s
  <1>3. type = f.type /\ b = Check(f) /\ \A i \in 1..Len(data) : data[i] = f.data[i]
    BY <1>1, <1>2
  <1>4. f.data \in Seq(Bytes)
    BY FrameFields
  <1>5. data = f.data
    BY <1>3, <1>4, SeqEqual
  <1>6. QED BY <1>3, <1>5 DEF Check

(* ... and with a byte altered has the wrong check sum: the sums are less   *)
(* than 256 apart, or the check sum itself is altered.                      *)
THEOREM DamagedSum ==
  ASSUME NEW f \in Frames, NEW type \in Bytes, NEW data \in Seq(Bytes), NEW b \in Bytes,
         Len(data) = Len(f.data), OneByteOff(Held(type, data, <<b>>), Body(f))
  PROVE  (ExtLen(f) + type + Sum(data)) % 256 # b
  <1> DEFINE s == Held(type, data, <<b>>)
  <1> DEFINE end == ExtLen(f) - 1
  <1>1. /\ DOMAIN s = 1..end /\ DOMAIN Body(f) = 1..end
        /\ s[1] = type /\ Body(f)[1] = f.type
        /\ \A i \in 1..Len(data) : s[1 + i] = data[i] /\ Body(f)[1 + i] = f.data[i]
        /\ s[end] = b /\ Body(f)[end] = Check(f)
    BY WholeBody
  <1>2. PICK k \in DOMAIN Body(f) :
          s[k] # Body(f)[k] /\ \A j \in DOMAIN Body(f) \ {k} : s[j] = Body(f)[j]
    BY DEF OneByteOff
  <1> HIDE DEF s
  <1>3. /\ f.type \in Nat /\ type \in Nat /\ f.data \in Seq(Nat) /\ data \in Seq(Nat)
        /\ f.type <= 255 /\ type <= 255
        /\ ExtLen(f) \in Nat /\ ExtLen(f) = Len(data) + 3 /\ Len(data) \in Nat
    <2>1. Bytes \subseteq Nat
      BY DEF Bytes
    <2>2. data \in Seq(Nat)
      BY <2>1, SeqMonotonic
    <2>3. QED BY <2>2, FrameFields, ByteRange
  <1>4. /\ Sum(data) \in Nat /\ Sum(f.data) \in Nat
        /\ Check(f) = (ExtLen(f) + f.type + Sum(f.data)) % 256
    BY <1>3, SumNat DEF Check
  <1>5. end \in Int /\ end = Len(data) + 2 /\ k \in 1..end
    BY <1>1, <1>2, <1>3
  <1> HIDE DEF end
  <1>6. \A i \in 1..end : i # k => s[i] = Body(f)[i]
    BY <1>1, <1>2
  <1>7. 1 \in 1..end /\ end \in 1..end /\ \A i \in 1..Len(data) : 1 + i \in 1..end
    BY <1>3, <1>5
  <1>8. k # 1 => type = f.type
    BY <1>1, <1>6, <1>7
  <1>9. k # end => b = Check(f)
    BY <1>1, <1>6, <1>7
  <1>10. \A i \in 1..Len(data) : 1 + i # k => data[i] = f.data[i]
    BY <1>1, <1>6, <1>7
  <1>11. ASSUME \A i \in 1..Len(data) : data[i] = f.data[i]
         PROVE  data = f.data
    BY <1>3, <1>11, SeqEqual
  <1> DEFINE l == ExtLen(f)
  <1> DEFINE ft == f.type
  <1> DEFINE u == Sum(data)
  <1> DEFINE v == Sum(f.data)
  <1> DEFINE x == l + type + u
  <1> DEFINE y == l + ft + v
  <1>12. /\ l \in Int /\ 0 <= l /\ u \in Int /\ 0 <= u /\ v \in Int /\ 0 <= v
         /\ ft \in Int /\ 0 <= ft /\ ft <= 255 /\ type \in Int /\ 0 <= type /\ type <= 255
         /\ Check(f) = (l + ft + v) % 256
    BY <1>3, <1>4
  <1>13. x \in Nat /\ y \in Nat /\ Check(f) = y % 256
    <2> HIDE DEF l, ft, u, v
    <2>1. QED BY <1>12
  <1>14. CASE k = 1
    <2>1. data = f.data /\ b = Check(f)
      <3>1. \A i \in 1..Len(data) : 1 + i # k
        BY <1>14
      <3>2. k # end
        BY <1>3, <1>5, <1>14
      <3>3. QED BY <1>9, <1>10, <1>11, <3>1, <3>2
    <2>2. type # f.type
      BY <1>1, <1>2, <1>14
    <2>3. x # y /\ x - y <= 255 /\ y - x <= 255
      <3>1. u = v /\ type # ft
        BY <2>1, <2>2
      <3> HIDE DEF l, ft, u, v
      <3>2. QED BY <1>12, <3>1
    <2> HIDE DEF x, y
    <2>4. x % 256 # y % 256
      BY <1>13, <2>3, Remainders
    <2>5. QED BY <1>13, <2>1, <2>4 DEF x
  <1>15. CASE k = end
    <2>1. data = f.data /\ type = f.type
      <3>1. \A i \in 1..Len(data) : 1 + i # k
        BY <1>3, <1>5, <1>15
      <3>2. k # 1
        BY <1>3, <1>5, <1>15
      <3>3. QED BY <1>8, <1>10, <1>11, <3>1, <3>2
    <2>2. b # Check(f)
      BY <1>1, <1>2, <1>15
    <2>3. QED BY <1>13, <2>1, <2>2
  <1>16. CASE k # 1 /\ k # end
    <2> DEFINE i == k - 1
    <2>1. i \in 1..Len(data) /\ 1 + i = k
      BY <1>3, <1>5, <1>16
    <2> HIDE DEF i
    <2>2. /\ data[i] # f.data[i]
          /\ \A j \in 1..Len(data) : j # i => data[j] = f.data[j]
      <3>1. data[i] # f.data[i]
        BY <1>1, <1>2, <2>1
      <3>2. \A j \in 1..Len(data) : j # i => 1 + j # k
        BY <2>1
      <3>3. QED BY <1>10, <3>1, <3>2
    <2>3. Sum(data) = Sum(f.data) + (data[i] - f.data[i])
      <3>1. DOMAIN f.data = DOMAIN data /\ i \in DOMAIN f.data
            /\ DOMAIN data = 1..Len(data)
        <4>1. DOMAIN data = 1..Len(data) /\ DOMAIN f.data = 1..Len(f.data)
          BY <1>3
        <4>2. QED BY <2>1, <4>1
      <3>2. \A j \in DOMAIN f.data \ {i} : data[j] = f.data[j]
        BY <2>2, <3>1
      <3>3. QED BY <1>3, <3>1, <3>2, SumAltered
    <2>4. /\ data[i] \in Int /\ 0 <= data[i] /\ data[i] <= 255
          /\ f.data[i] \in Int /\ 0 <= f.data[i] /\ f.data[i] <= 255
      <3>1. data[i] \in Bytes /\ f.data[i] \in Bytes
        BY <2>1, FrameFields
      <3>2. QED BY <3>1, ByteRange
    <2>5. x # y /\ x - y <= 255 /\ y - x <= 255 /\ b = Check(f)
      <3> DEFINE d == data[i]
      <3> DEFINE e == f.data[i]
      <3>1. /\ d \in Int /\ 0 <= d /\ d <= 255 /\ e \in Int /\ 0 <= e /\ e <= 255
            /\ d # e /\ u = v + (d - e) /\ type = ft
        BY <1>8, <1>16, <2>2, <2>3, <2>4
      <3>2. b = Check(f)
        BY <1>9, <1>16
      <3> HIDE DEF d, e, l, ft, u, v
      <3>3. QED BY <1>12, <3>1, <3>2
    <2> HIDE DEF x, y
    <2>6. x % 256 # y % 256
      BY <1>13, <2>5, Remainders
    <2>7. QED BY <1>13, <2>5, <2>6 DEF x
  <1>17. QED BY <1>14, <1>15, <1>16

(* A byte altered on the wire is one byte of the body the thread will hold. *)
LEMMA AlteredHeld ==
  ASSUME NEW w, NEW k, NEW b, MayAlter(w, k, b), Gone(w) >= 4,
         NEW type \in Bytes, NEW data \in Seq(Bytes), Len(data) = Gone(w) - 4
  PROVE  Held(type, data, w.left) = Body(w.frame)
         <=> OneByteOff(Held(type, data, Altered(w, k, b).left), Body(w.frame))
  <1> DEFINE f == w.frame
  <1> DEFINE x == Altered(w, k, b)
  <1> DEFINE left == w.left
  <1> DEFINE right == x.left
  <1> DEFINE s == Held(type, data, left)
  <1> DEFINE t == Held(type, data, right)
  <1> DEFINE z == Body(f)
  <1>1. /\ w \in Item /\ OnItsWay(w) /\ k \in DOMAIN left
        /\ b \in Bytes /\ left[k] # b
    BY DEF MayAlter
  <1>2. /\ f \in Frames /\ left \in Seq(Bytes) /\ DOMAIN left = 1..Len(left)
        /\ Len(left) \in Int /\ ExtLen(f) \in Int /\ 3 <= ExtLen(f)
        /\ Gone(w) \in Int /\ Len(left) = ExtLen(f) + 2 - Gone(w)
    BY <1>1, ItemFields
  <1>3. right = [left EXCEPT ![k] = b]
    BY DEF Altered
  <1> HIDE DEF left, right, x
  <1>4. /\ right \in Seq(Bytes) /\ Len(right) = Len(left)
        /\ \A j \in 1..Len(left) : right[j] = IF j = k THEN b ELSE left[j]
    BY <1>1, <1>2, <1>3, ExceptSeq
  <1>5. right[k] = b
    BY <1>1, <1>2, <1>4
  <1>6. \A j \in DOMAIN left : j # k => right[j] = left[j]
    BY <1>2, <1>4
  <1>7. /\ z \in Seq(Bytes) /\ Len(z) = ExtLen(f) - 1
        /\ \A j \in 1..(ExtLen(f) - 1) : Encode(f)[3 + j] = z[j]
    BY <1>2, BodyBytes, EncodeBytes
  <1> HIDE DEF z
  <1>8. Holds(s, type, data, left) /\ Holds(t, type, data, right)
    BY <1>2, <1>4, HeldBytes
  <1> HIDE DEF s, t
  <1>9. /\ s \in Seq(Bytes) /\ Len(s) = 1 + Len(data) + Len(left)
        /\ t \in Seq(Bytes) /\ Len(t) = 1 + Len(data) + Len(left)
        /\ s[1] = type /\ t[1] = type
        /\ \A i \in 1..Len(data) : s[1 + i] = data[i] /\ t[1 + i] = data[i]
        /\ \A i \in 1..Len(left) : s[1 + Len(data) + i] = left[i] /\ t[1 + Len(data) + i] = right[i]
    BY <1>4, <1>8 DEF Holds
  <1> DEFINE end == ExtLen(f) - 1
  <1> DEFINE m == 1 + Len(data) + k
  <1>10. /\ Len(s) = end /\ Len(t) = end /\ Len(z) = end /\ end \in Int
         /\ DOMAIN t = 1..end /\ DOMAIN z = 1..end
         /\ k \in 1..Len(left) /\ m \in 1..end /\ m = Gone(w) + k - 3
         /\ Len(data) \in Int /\ 0 <= Len(data) /\ end = 1 + Len(data) + Len(left)
    <2> DEFINE e == ExtLen(f)
    <2> DEFINE g == Gone(w)
    <2> DEFINE l == Len(left)
    <2> DEFINE h == Len(data)
    <2>1. /\ e \in Int /\ g \in Int /\ l \in Int /\ h \in Int /\ 0 <= h
          /\ h = g - 4 /\ l = e + 2 - g /\ k \in 1..l
      BY <1>1, <1>2
    <2>2. /\ Len(s) = 1 + h + l /\ Len(t) = 1 + h + l /\ Len(z) = e - 1
          /\ DOMAIN t = 1..Len(t) /\ DOMAIN z = 1..Len(z)
      BY <1>7, <1>9
    <2>3. end = e - 1 /\ m = 1 + h + k
      OBVIOUS
    <2> HIDE DEF e, g, l, h, end, m
    <2>4. end = 1 + h + l /\ end \in Int /\ m \in 1..end /\ m = g + k - 3
      BY <2>1, <2>3
    <2>5. Len(s) = end /\ Len(t) = end /\ Len(z) = end
      BY <2>2, <2>3, <2>4
    <2>6. QED BY <2>1, <2>2, <2>4, <2>5 DEF e, g, l, h
  <1>11. left[k] = z[m]
    <2>1. InBody(w, k)
      <3> DEFINE g == Gone(w)
      <3>1. g \in Int /\ g >= 4 /\ k \in Int /\ k >= 1
        BY <1>2, <1>10
      <3> HIDE DEF g
      <3>2. g + k > 3
        BY <3>1
      <3>3. QED BY <3>2 DEF g, InBody
    <2>2. left[k] = Encode(f)[Gone(w) + k]
      BY <1>1, <2>1 DEF MayAlter, OnItsWay, left
    <2>3. Gone(w) + k = 3 + m
      BY <1>2, <1>10
    <2> HIDE DEF m
    <2>4. QED BY <1>7, <1>10, <2>2, <2>3
  <1>12. s[m] = left[k] /\ t[m] = b
    BY <1>5, <1>9, <1>10
  <1>13. ASSUME NEW j \in 1..end, j # m
         PROVE  t[j] = s[j]
    <2>1. CASE j = 1
      BY <1>9, <2>1
    <2>2. CASE j - 1 \in 1..Len(data)
      <3>1. 1 + (j - 1) = j
        OBVIOUS
      <3>2. s[1 + (j - 1)] = t[1 + (j - 1)]
        BY <1>9, <2>2
      <3>3. QED BY <3>1, <3>2
    <2>3. CASE j - 1 > Len(data)
      <3> DEFINE i == j - 1 - Len(data)
      <3>1. i \in 1..Len(left) /\ 1 + Len(data) + i = j /\ i # k
        <4> DEFINE l == Len(left)
        <4> DEFINE h == Len(data)
        <4>1. /\ l \in Int /\ h \in Int /\ end = 1 + h + l /\ end \in Int /\ k \in 1..l
              /\ j # 1 + h + k /\ j - 1 > h /\ j \in 1..end
          BY <1>2, <1>10, <1>13, <2>3
        <4>2. i = j - 1 - h
          OBVIOUS
        <4> HIDE DEF l, h, end, i
        <4>3. i \in 1..l /\ 1 + h + i = j /\ i # k
          BY <4>1, <4>2
        <4>4. QED BY <4>3 DEF l, h
      <3> HIDE DEF i
      <3>2. s[1 + Len(data) + i] = left[i] /\ t[1 + Len(data) + i] = right[i]
        BY <1>9, <3>1
      <3>3. right[i] = left[i]
        BY <1>2, <1>6, <3>1 DEF left
      <3>4. QED BY <3>1, <3>2, <3>3
    <2>4. QED BY <1>10, <2>1, <2>2, <2>3
  <1> HIDE DEF end, m
  <1>14. s[m] # t[m] /\ s[m] = z[m]
    BY <1>1, <1>11, <1>12 DEF left
  <1>15. ASSUME s = z PROVE OneByteOff(t, z)
    BY <1>10, <1>13, <1>14, <1>15 DEF OneByteOff
  <1>16. ASSUME OneByteOff(t, z) PROVE s = z
    <2>1. PICK i \in 1..end : \A j \in 1..end \ {i} : t[j] = z[j]
      BY <1>10, <1>16 DEF OneByteOff
    <2>2. i = m
      BY <1>10, <1>14, <2>1
    <2>3. \A j \in 1..end : s[j] = z[j]
      BY <1>13, <1>14, <2>1, <2>2
    <2>4. QED BY <1>7, <1>9, <1>10, <2>3, SeqEqual
  <1>17. QED BY <1>15, <1>16 DEF s, t, z, f, left, right, x

-----------------------------------------------------------------------------
(* FrameReceiver implements FrameLink: what each step of the thread and of  *)
(* the line is to the link.                                                 *)

LEMMA InStepBoolean == InStep \in BOOLEAN /\ InStep' \in BOOLEAN
  <1>1. InStep \in BOOLEAN
    BY DEF InStep
  <1>2. InStep' \in BOOLEAN
    BY DEF InStep
  <1>3. QED BY <1>1, <1>2

LEMMA QueueIs ==
  /\ Link!linkVars = <<Awaited(wire), got, InStep>>
  /\ Link!linkVars' = <<Awaited(wire'), got', InStep'>>
  BY DEF Link!linkVars, Awaited, Link1

LEMMA IsStutter ==
  ASSUME Awaited(wire') = Awaited(wire), got' = got, InStep' <=> InStep
  PROVE  UNCHANGED Link!linkVars
  <1>1. InStep' = InStep
    BY InStepBoolean
  <1>2. QED BY <1>1, QueueIs

LEMMA IsSendFrame ==
  ASSUME NEW f \in Frames, Awaited(wire') = Append(Awaited(wire), [frame |-> f, damaged |-> FALSE]),
         got' = got, InStep' <=> InStep
  PROVE  Link!LinkNext
  <1>1. InStep' = InStep
    BY InStepBoolean
  <1>2. Link!SendFrame
    BY <1>1 DEF Link!SendFrame, Awaited, Link1
  <1>3. QED BY <1>2 DEF Link!LinkNext

LEMMA IsDamage ==
  ASSUME NEW i \in DOMAIN Awaited(wire),
         Awaited(wire') = [Awaited(wire) EXCEPT ![i].damaged = TRUE],
         got' = got, InStep' <=> InStep
  PROVE  Link!LinkNext
  <1>1. InStep' = InStep
    BY InStepBoolean
  <1>2. Link!Damage
    BY <1>1 DEF Link!Damage, Awaited, Link1
  <1>3. QED BY <1>2 DEF Link!LinkNext

LEMMA IsDeliver ==
  ASSUME InStep, InStep', Awaited(wire) # << >>, ~Head(Awaited(wire)).damaged,
         got' = [frame |-> Head(Awaited(wire)).frame, bit |-> 1 - got.bit],
         Awaited(wire') = Tail(Awaited(wire))
  PROVE  Link!LinkNext
  <1>1. InStep' = InStep
    BY InStepBoolean
  <1>2. Link!Deliver
    BY <1>1 DEF Link!Deliver, Awaited, Link1
  <1>3. QED BY <1>2 DEF Link!LinkNext

LEMMA IsDrop ==
  ASSUME InStep, InStep', Awaited(wire) # << >>, Head(Awaited(wire)).damaged,
         got' = got, Awaited(wire') = Tail(Awaited(wire))
  PROVE  Link!LinkNext
  <1>1. InStep' = InStep
    BY InStepBoolean
  <1>2. Link!Drop
    BY <1>1 DEF Link!Drop, Awaited, Link1
  <1>3. QED BY <1>2 DEF Link!LinkNext

LEMMA IsSlip ==
  ASSUME InStep, ~InStep', got' = got,
         \/ Awaited(wire') = Awaited(wire)
         \/ Awaited(wire) # << >> /\ Awaited(wire') = Tail(Awaited(wire))
  PROVE  Link!LinkNext
  <1>1. Link!Slip
    BY DEF Link!Slip, Awaited, Link1
  <1>2. QED BY <1>1 DEF Link!LinkNext

LEMMA IsOutOfStep ==
  ASSUME ~InStep,
         \/ Awaited(wire') = Awaited(wire)
         \/ Awaited(wire) # << >> /\ Awaited(wire') = Tail(Awaited(wire))
  PROVE  Link!LinkNext
  <1>1. Link!OutOfStep
    BY DEF Link!OutOfStep, Awaited, Link1
  <1>2. QED BY <1>1 DEF Link!LinkNext

(* InStep, of any wire q and any thread.                                    *)
At(q, state, len, type, data, sum) ==
  IF q = << >> THEN state = "head1"
  ELSE IF Gone(q[1]) < 4
       THEN /\ state = <<"head1", "head2", "len", "type">>[Gone(q[1]) + 1]
            /\ Gone(q[1]) = 3 => len = ExtLen(q[1].frame)
       ELSE /\ state = "data" /\ len = ExtLen(q[1].frame) /\ Len(data) = Gone(q[1]) - 4
            /\ sum = len + type + Sum(data)
            /\ Comes(Held(type, data, q[1].left), q[1])

LEMMA InStepAt ==
  /\ InStep <=> At(wire, rx, ext_len, ext_type, ext_data, check_sum)
  /\ InStep' <=> At(wire', rx', ext_len', ext_type', ext_data', check_sum')
  <1>1. InStep <=> At(wire, rx, ext_len, ext_type, ext_data, check_sum)
    BY DEF InStep, At, Held
  <1>2. InStep' <=> At(wire', rx', ext_len', ext_type', ext_data', check_sum')
    BY DEF InStep, At, Held, Comes, OneByteOff, Gone
  <1>3. QED BY <1>1, <1>2

LEMMA AtHeader ==
  ASSUME NEW q, NEW state, NEW len, NEW type, NEW data, NEW sum
  PROVE  LET at == At(q, state, len, type, data, sum)
         IN /\ q = << >> => (at <=> state = "head1")
            /\ q # << >> /\ Gone(q[1]) = 0 => (at <=> state = "head1")
            /\ q # << >> /\ Gone(q[1]) = 1 => (at <=> state = "head2")
            /\ q # << >> /\ Gone(q[1]) = 2 => (at <=> state = "len")
            /\ q # << >> /\ Gone(q[1]) = 3
                 => (at <=> state = "type" /\ len = ExtLen(q[1].frame))
  BY DEF At

LEMMA AtBody ==
  ASSUME NEW q, NEW state, NEW len, NEW type, NEW data, NEW sum,
         q # << >>, Gone(q[1]) \in Int, Gone(q[1]) >= 4
  PROVE  At(q, state, len, type, data, sum)
         <=> /\ state = "data" /\ len = ExtLen(q[1].frame) /\ Len(data) = Gone(q[1]) - 4
             /\ sum = len + type + Sum(data)
             /\ Comes(Held(type, data, q[1].left), q[1])
  BY DEF At

(* The thread waits for a frame's first byte between frames.                *)
LEMMA BetweenFrames ==
  ASSUME NEW q, q = << >> \/ Gone(q[1]) = 0,
         NEW state, NEW len, NEW type, NEW data, NEW sum
  PROVE  At(q, state, len, type, data, sum) <=> state = "head1"
  BY AtHeader

LEMMA FirstOnItsWay ==
  ASSUME NEW q, Sound(q), q # << >>
  PROVE  /\ q \in Seq(Item) /\ q[1] \in Item /\ OnItsWay(q[1])
         /\ Gone(q[1]) \in Int /\ 0 <= Gone(q[1])
         /\ ExtLen(q[1].frame) \in Int /\ 3 <= ExtLen(q[1].frame)
         /\ Gone(q[1]) < ExtLen(q[1].frame) + 2
         /\ Len(q[1].left) = ExtLen(q[1].frame) + 2 - Gone(q[1])
         /\ q[1].frame \in Frames /\ q[1].damaged \in BOOLEAN
         /\ q[1].left \in Seq(Bytes) /\ q[1].left # << >>
  <1>1. q \in Seq(Item) /\ q[1] \in Item /\ OnItsWay(q[1])
    BY FirstItem DEF Sound
  <1> DEFINE w == q[1]
  <1>2. /\ w.frame \in Frames /\ w.damaged \in BOOLEAN
        /\ w.left \in Seq(Bytes) /\ w.left # << >>
        /\ Len(w.left) \in Int /\ 0 < Len(w.left)
        /\ ExtLen(w.frame) \in Int /\ 3 <= ExtLen(w.frame)
        /\ Gone(w) \in Int /\ Len(w.left) = ExtLen(w.frame) + 2 - Gone(w)
    <2>1. w \in Item
      BY <1>1
    <2> HIDE DEF w
    <2>2. QED BY <2>1, ItemFields
  <1>3. 0 <= Gone(w)
    BY <1>1 DEF OnItsWay
  <1> DEFINE g == Gone(w)
  <1> DEFINE e == ExtLen(w.frame)
  <1> DEFINE l == Len(w.left)
  <1>4. g < e + 2
    <2>1. l \in Int /\ 0 < l /\ e \in Int /\ g \in Int /\ l = e + 2 - g
      BY <1>2
    <2> HIDE DEF g, e, l
    <2>2. QED BY <2>1
  <1>5. QED BY <1>1, <1>2, <1>3, <1>4

(* A frame that is sent leaves the thread in step or out of step.           *)
LEMMA SendLinks ==
  ASSUME ReceiveInv, NEW f \in Frames, Send(f)
  PROVE  (InStep' <=> InStep) /\ Link!LinkNext
  <1>1. Sound(wire)
    BY DEF ReceiveInv
  <1>2. wire' = Append(wire, Sent(f, Encode(f))) /\ UNCHANGED thread
    BY DEF Send
  <1>3. /\ wire' # << >>
        /\ wire'[1] = IF wire = << >> THEN Sent(f, Encode(f)) ELSE wire[1]
        /\ Awaited(wire') = Append(Awaited(wire), [frame |-> f, damaged |-> FALSE])
    BY <1>1, <1>2, SendWire
  <1>4. /\ rx' = rx /\ ext_len' = ext_len /\ ext_type' = ext_type /\ ext_data' = ext_data
        /\ check_sum' = check_sum /\ got' = got
    BY <1>2 DEF thread
  <1>5. InStep' <=> InStep
    <2>1. CASE wire = << >>
      <3>1. Gone(Sent(f, Encode(f))) = 0
        BY EncodeBytes, FrameFields DEF Gone, Sent
      <3>2. Gone(wire'[1]) = 0
        BY <1>3, <2>1, <3>1
      <3>3. InStep <=> rx = "head1"
        BY <2>1, InStepAt, BetweenFrames
      <3>4. InStep' <=> rx' = "head1"
        BY <3>2, InStepAt, BetweenFrames
      <3>5. QED BY <1>4, <3>3, <3>4
    <2>2. CASE wire # << >>
      <3>1. wire'[1] = wire[1]
        BY <1>3, <2>2
      <3>2. At(wire', rx, ext_len, ext_type, ext_data, check_sum)
            <=> At(wire, rx, ext_len, ext_type, ext_data, check_sum)
        BY <1>3, <2>2, <3>1 DEF At
      <3>3. QED BY <1>4, <3>2, InStepAt
    <2>3. QED BY <2>1, <2>2
  <1>6. QED BY <1>3, <1>4, <1>5, IsSendFrame

LEMMA MarkDamaged ==
  ASSUME NEW a, NEW c, NEW d
  PROVE  [[frame |-> a, damaged |-> c] EXCEPT !.damaged = d] = [frame |-> a, damaged |-> d]
  <1> DEFINE y == [[frame |-> a, damaged |-> c] EXCEPT !.damaged = d]
  <1>1. y \in [frame : {a}, damaged : {d}]
    OBVIOUS
  <1>2. y = [frame |-> y.frame, damaged |-> y.damaged]
    BY <1>1
  <1>3. y.frame = a /\ y.damaged = d
    BY <1>1
  <1> HIDE DEF y
  <1>4. y = [frame |-> a, damaged |-> d]
    BY <1>2, <1>3
  <1>5. QED BY <1>4 DEF y

(* So does a byte altered, until the thread reads it: a frame is damaged by *)
(* it, for the link, if it is of the body.                                  *)
LEMMA AlterLinks ==
  ASSUME ReceiveInv, NEW i \in DOMAIN wire, NEW k \in DOMAIN wire[i].left, NEW b \in Noise,
         Alter(i, k, b)
  PROVE  (InStep' <=> InStep) /\ [Link!LinkNext]_(Link!linkVars)
  <1>1. Sound(wire) /\ wire \in Seq(Item) /\ b \in Bytes
    BY BoundsAssumption DEF ReceiveInv, Sound
  <1>2. MayAlter(wire[i], k, b)
    BY <1>1 DEF MayAlter, Alter, Sound
  <1> DEFINE x == Altered(wire[i], k, b)
  <1>3. wire' = WireAltered(wire, i, k, b) /\ UNCHANGED thread
    BY DEF Alter, WireAltered
  <1>4. WireAltered(wire, i, k, b) = Changed(wire, i, x)
    BY <1>1, <1>2, AlterWire
  <1>5. Allowed(wire, i, x)
    BY <1>1, <1>2, AlterWire
  <1>6. x.frame = wire[i].frame /\ x.damaged = (wire[i].damaged \/ InBody(wire[i], k))
    BY DEF Altered
  <1>7. Gone(x) = Gone(wire[i])
    <2> DEFINE w == wire[i]
    <2>1. MayAlter(w, k, b)
      BY <1>2
    <2> HIDE DEF w
    <2>2. w.left \in Seq(Bytes) /\ k \in DOMAIN w.left
      BY <2>1, ItemFields DEF MayAlter
    <2>3. Len([w.left EXCEPT ![k] = b]) = Len(w.left)
      BY <2>2
    <2>4. Gone(Altered(w, k, b)) = Gone(w)
      BY <2>3 DEF Gone, Altered
    <2>5. QED BY <2>4 DEF w
  <1>8. /\ rx' = rx /\ ext_len' = ext_len /\ ext_type' = ext_type /\ ext_data' = ext_data
        /\ check_sum' = check_sum /\ got' = got
    BY <1>3 DEF thread
  <1> DEFINE A == Awaited(wire)
  <1>9. /\ DOMAIN A = DOMAIN wire /\ i \in DOMAIN A /\ A[i] = Link1(wire[i])
    BY <1>1, AwaitedIsSeq
  <1> HIDE DEF x
  <1>10. /\ DOMAIN wire' = DOMAIN wire /\ wire'[i] = x
         /\ \A j \in DOMAIN wire : j # i => wire'[j] = wire[j]
    <2>1. DOMAIN Changed(wire, i, x) = DOMAIN wire
      BY <1>5, ItemChanges
    <2>2. Changed(wire, i, x)[i] = x
      BY <1>5, ItemChanges
    <2>3. \A j \in DOMAIN wire : j # i => Changed(wire, i, x)[j] = wire[j]
      BY <1>5, ItemChanges
    <2>4. QED BY <1>3, <1>4, <2>1, <2>2, <2>3
  <1>11. /\ InBody(wire[i], k) => Awaited(wire') = [A EXCEPT ![i].damaged = TRUE]
         /\ ~InBody(wire[i], k) => Awaited(wire') = A
    <2>1. Awaited(wire') = Changed(A, i, Link1(x))
      BY <1>3, <1>4, <1>5, ItemChanges
    <2> DEFINE y == A[i]
    <2>2. ASSUME InBody(wire[i], k)
          PROVE  Awaited(wire') = [A EXCEPT ![i].damaged = TRUE]
      <3>1. y = [frame |-> wire[i].frame, damaged |-> wire[i].damaged]
        BY <1>9 DEF Link1
      <3>2. Link1(x) = [frame |-> wire[i].frame, damaged |-> TRUE]
        BY <1>6, <2>2 DEF Link1
      <3>3. [A EXCEPT ![i].damaged = TRUE] = [A EXCEPT ![i] = [y EXCEPT !.damaged = TRUE]]
        OBVIOUS
      <3> DEFINE f == wire[i].frame
      <3> DEFINE c == wire[i].damaged
      <3> HIDE DEF y, f, c, A
      <3>4. [[frame |-> f, damaged |-> c] EXCEPT !.damaged = TRUE] = [frame |-> f, damaged |-> TRUE]
        BY MarkDamaged
      <3>5. [y EXCEPT !.damaged = TRUE] = Link1(x)
        BY <3>1, <3>2, <3>4 DEF f, c
      <3>6. QED BY <2>1, <3>3, <3>5 DEF Changed
    <2>3. ASSUME ~InBody(wire[i], k)
          PROVE  Awaited(wire') = A
      <3>1. wire[i].damaged \in BOOLEAN
        BY <1>2, ItemFields DEF MayAlter
      <3>2. Link1(x) = A[i]
        BY <1>6, <1>9, <2>3, <3>1 DEF Link1
      <3>3. A \in Seq(LinkItem)
        BY <1>1, AwaitedIsSeq
      <3> HIDE DEF A
      <3>4. QED BY <2>1, <3>2, <3>3 DEF Changed
    <2>4. QED BY <2>2, <2>3
  <1>12. wire # << >> /\ wire' # << >> /\ 1 \in DOMAIN wire
    <2>1. wire # << >>
      BY <1>1
    <2>2. 1 \in DOMAIN wire
      BY <1>1, <2>1, FirstItem
    <2>3. wire' # << >>
      BY <1>10, <2>2
    <2>4. QED BY <2>1, <2>2, <2>3
  <1>13. InStep' <=> InStep
    <2>1. CASE i # 1
      <3>1. wire'[1] = wire[1]
        BY <1>10, <1>12, <2>1
      <3>2. At(wire', rx, ext_len, ext_type, ext_data, check_sum)
            <=> At(wire, rx, ext_len, ext_type, ext_data, check_sum)
        BY <1>12, <3>1 DEF At
      <3>3. QED BY <1>8, <3>2, InStepAt
    <2>2. CASE i = 1 /\ Gone(wire[1]) < 4
      <3>1. Gone(wire'[1]) = Gone(wire[1]) /\ wire'[1].frame = wire[1].frame
        BY <1>6, <1>7, <1>10, <2>2
      <3>2. At(wire', rx, ext_len, ext_type, ext_data, check_sum)
            <=> At(wire, rx, ext_len, ext_type, ext_data, check_sum)
        BY <1>12, <2>2, <3>1 DEF At
      <3>3. QED BY <1>8, <3>2, InStepAt
    <2>3. CASE i = 1 /\ ~(Gone(wire[1]) < 4)
      <3> DEFINE w == wire[1]
      <3>1. Gone(w) \in Int /\ Gone(w) >= 4 /\ w.damaged = FALSE /\ InBody(w, k)
        <4> DEFINE g == Gone(w)
        <4>1. g \in Int /\ w.damaged \in BOOLEAN /\ k \in Int /\ k >= 1
          <5>1. DOMAIN w.left = 1..Len(w.left)
            BY <1>2, <2>3, ItemFields DEF MayAlter
          <5>2. k \in DOMAIN w.left
            BY <2>3
          <5>3. QED BY <1>1, <1>12, <5>1, <5>2, FirstOnItsWay
        <4>2. ~(g < 4)
          BY <2>3
        <4> HIDE DEF g
        <4>3. g >= 4 /\ g + k > 3
          BY <4>1, <4>2
        <4>4. InBody(w, k)
          BY <4>3 DEF g, InBody
        <4>5. QED BY <1>2, <2>3, <4>1, <4>3, <4>4 DEF MayAlter, g
      <3>2. /\ wire'[1] = x /\ x = Altered(w, k, b) /\ MayAlter(w, k, b)
            /\ x.frame = w.frame /\ Gone(x) = Gone(w) /\ x.damaged = TRUE
        BY <1>2, <1>6, <1>7, <1>10, <2>3, <3>1 DEF x
      <3>3. /\ Comes(Held(ext_type, ext_data, w.left), w)
               <=> Held(ext_type, ext_data, w.left) = Body(w.frame)
            /\ Comes(Held(ext_type, ext_data, x.left), x)
               <=> OneByteOff(Held(ext_type, ext_data, x.left), Body(w.frame))
        BY <3>1, <3>2 DEF Comes
      <3>4. ext_type \in Bytes /\ ext_data \in Seq(Bytes)
        BY DEF ReceiveInv, TypeOK
      <3> HIDE DEF w
      <3>5. ASSUME Len(ext_data) = Gone(w) - 4
            PROVE  Comes(Held(ext_type, ext_data, w.left), w)
                   <=> Comes(Held(ext_type, ext_data, x.left), x)
        <4>1. Held(ext_type, ext_data, w.left) = Body(w.frame)
              <=> OneByteOff(Held(ext_type, ext_data, Altered(w, k, b).left), Body(w.frame))
          BY <3>1, <3>2, <3>4, <3>5, AlteredHeld
        <4>2. QED BY <3>2, <3>3, <4>1
      <3>6. At(wire, rx, ext_len, ext_type, ext_data, check_sum)
            <=> /\ rx = "data" /\ ext_len = ExtLen(w.frame) /\ Len(ext_data) = Gone(w) - 4
                /\ check_sum = ext_len + ext_type + Sum(ext_data)
                /\ Comes(Held(ext_type, ext_data, w.left), w)
        BY <1>12, <3>1, AtBody DEF w
      <3>7. At(wire', rx, ext_len, ext_type, ext_data, check_sum)
            <=> /\ rx = "data" /\ ext_len = ExtLen(x.frame) /\ Len(ext_data) = Gone(x) - 4
                /\ check_sum = ext_len + ext_type + Sum(ext_data)
                /\ Comes(Held(ext_type, ext_data, x.left), x)
        <4>1. wire'[1] = x /\ Gone(x) \in Int /\ Gone(x) >= 4
          BY <3>1, <3>2
        <4>2. QED BY <1>12, <4>1, AtBody
      <3>8. At(wire', rx, ext_len, ext_type, ext_data, check_sum)
            <=> At(wire, rx, ext_len, ext_type, ext_data, check_sum)
        BY <3>2, <3>5, <3>6, <3>7
      <3>9. QED BY <1>8, <3>8, InStepAt
    <2>4. QED BY <2>1, <2>2, <2>3
  <1> HIDE DEF A
  <1>14. CASE InBody(wire[i], k)
    BY <1>8, <1>9, <1>11, <1>13, <1>14, IsDamage DEF A
  <1>15. CASE ~InBody(wire[i], k)
    BY <1>8, <1>11, <1>13, <1>15, IsStutter DEF A
  <1>16. QED BY <1>13, <1>14, <1>15

LEMMA LastByteTaken ==
  ASSUME Sound(wire), wire # << >>, wire' = Taken, Len(wire[1].left) = 1
  PROVE  /\ Awaited(wire) # << >> /\ Awaited(wire') = Tail(Awaited(wire))
         /\ wire' = << >> \/ Gone(wire'[1]) = 0
  <1>1. wire' = Tail(wire) /\ wire \in Seq(Item)
    BY DEF Taken, Sound
  <1>2. /\ Awaited(Tail(wire)) = Tail(Awaited(wire))
        /\ Tail(wire) # << >> => Gone(Tail(wire)[1]) = 0
    BY FrameLeaves
  <1>3. QED BY <1>1, <1>2, AwaitedIsSeq

LEMMA ByteTaken ==
  ASSUME Sound(wire), wire # << >>, wire' = Taken, Len(wire[1].left) # 1
  PROVE  /\ Awaited(wire') = Awaited(wire) /\ wire' # << >>
         /\ wire'[1].frame = wire[1].frame /\ wire'[1].damaged = wire[1].damaged
         /\ wire'[1].left = Tail(wire[1].left) /\ Gone(wire'[1]) = Gone(wire[1]) + 1
  <1>1. wire' = [wire EXCEPT ![1].left = Tail(@)]
    BY DEF Taken
  <1>2. QED BY <1>1, ByteLeaves

LEMMA TakenQueue ==
  ASSUME Sound(wire), wire # << >>, wire' = Taken
  PROVE  \/ Awaited(wire') = Awaited(wire)
         \/ Awaited(wire) # << >> /\ Awaited(wire') = Tail(Awaited(wire))
  BY LastByteTaken, ByteTaken

(* A byte lost puts a thread that is in step out of step.                   *)
LEMMA LoseSlips ==
  ASSUME ReceiveInv, Lose, InStep
  PROVE  ~InStep'
  <1>1. Sound(wire)
    BY DEF ReceiveInv
  <1>2. /\ wire # << >> /\ wire' = Taken /\ rx' = rx /\ ext_len' = ext_len
        /\ ext_type' = ext_type /\ ext_data' = ext_data /\ check_sum' = check_sum
    BY DEF Lose, thread
  <1> DEFINE w == wire[1]
  <1> DEFINE g == Gone(w)
  <1> DEFINE e == ExtLen(w.frame)
  <1>3. /\ g \in Int /\ 0 <= g /\ e \in Int /\ 3 <= e /\ g < e + 2
        /\ Len(w.left) = e + 2 - g
    BY <1>1, <1>2, FirstOnItsWay
  <1>4. /\ g = 0 => rx = "head1"
        /\ g = 1 => rx = "head2"
        /\ g = 2 => rx = "len"
        /\ g = 3 => rx = "type"
    BY <1>2, AtHeader, InStepAt
  <1>5. g >= 4 => rx = "data" /\ Len(ext_data) = g - 4
    BY <1>2, <1>3, AtBody, InStepAt
  <1>6. CASE Len(w.left) = 1
    <2>1. wire' = << >> \/ Gone(wire'[1]) = 0
      BY <1>1, <1>2, <1>6, LastByteTaken
    <2>2. InStep' <=> rx' = "head1"
      BY <2>1, BetweenFrames, InStepAt
    <2>3. g >= 4
      <3> DEFINE l == Len(w.left)
      <3>1. l = 1 /\ l = e + 2 - g
        BY <1>3, <1>6
      <3> HIDE DEF l, e, g
      <3>2. QED BY <1>3, <3>1
    <2>4. QED BY <1>2, <1>5, <2>2, <2>3
  <1>7. CASE Len(w.left) # 1
    <2> DEFINE h == Gone(wire'[1])
    <2>1. wire' # << >> /\ h = g + 1
      BY <1>1, <1>2, <1>7, ByteTaken
    <2>2. /\ h = 1 => (InStep' <=> rx' = "head2")
          /\ h = 2 => (InStep' <=> rx' = "len")
          /\ h = 3 => (InStep' => rx' = "type")
      BY <2>1, AtHeader, InStepAt
    <2>3. h \in Int /\ h >= 4 => (InStep' => rx' = "data" /\ Len(ext_data') = h - 4)
      BY <2>1, AtBody, InStepAt
    <2> HIDE DEF g, h
    <2>4. h \in Int /\ (h = 1 \/ h = 2 \/ h = 3 \/ h = 4 \/ h >= 5)
      BY <1>3, <2>1
    <2>5. CASE h = 1
      BY <1>2, <1>3, <1>4, <2>1, <2>2, <2>5
    <2>6. CASE h = 2
      BY <1>2, <1>3, <1>4, <2>1, <2>2, <2>6
    <2>7. CASE h = 3
      BY <1>2, <1>3, <1>4, <2>1, <2>2, <2>7
    <2>8. CASE h = 4
      BY <1>2, <1>3, <1>4, <2>1, <2>3, <2>8
    <2>9. CASE h >= 5
      BY <1>2, <1>3, <1>5, <2>1, <2>3, <2>4, <2>9
    <2>10. QED BY <2>4, <2>5, <2>6, <2>7, <2>8, <2>9
  <1>8. QED BY <1>6, <1>7

LEMMA LoseLinks ==
  ASSUME ReceiveInv, Lose
  PROVE  Link!LinkNext
  <1>1. wire # << >> /\ wire' = Taken /\ got' = got /\ Sound(wire)
    BY DEF Lose, thread, ReceiveInv
  <1>2. \/ Awaited(wire') = Awaited(wire)
        \/ Awaited(wire) # << >> /\ Awaited(wire') = Tail(Awaited(wire))
    BY <1>1, TakenQueue
  <1>3. CASE InStep
    BY <1>1, <1>2, <1>3, LoseSlips, IsSlip
  <1>4. CASE ~InStep
    BY <1>2, <1>4, IsOutOfStep
  <1>5. QED BY <1>3, <1>4

(* Where a thread that is in step is, and what it does with the next byte.  *)
LEMMA ReceiveReads ==
  ASSUME Receive
  PROVE  /\ wire # << >> /\ wire' = Taken
         /\ rx = "head1" => Head1
         /\ rx = "head2" => Head2
         /\ rx = "len" => Length
         /\ rx = "type" => Type
         /\ rx = "data" => Data
  BY DEF Receive, Head1, Head2, Length, Type, Data, DataUpTo, Read

LEMMA HeaderByte ==
  ASSUME ReceiveInv, wire # << >>, wire' = Taken, Gone(wire[1]) <= 2
  PROVE  /\ Awaited(wire') = Awaited(wire) /\ wire' # << >>
         /\ wire'[1].frame = wire[1].frame /\ Gone(wire'[1]) = Gone(wire[1]) + 1
  <1> DEFINE w == wire[1]
  <1> DEFINE g == Gone(w)
  <1> DEFINE e == ExtLen(w.frame)
  <1> DEFINE l == Len(w.left)
  <1>1. Sound(wire)
    BY DEF ReceiveInv
  <1>2. /\ g \in Int /\ 0 <= g /\ g <= 2 /\ e \in Int /\ 3 <= e /\ l = e + 2 - g
    BY <1>1, FirstOnItsWay
  <1>3. l # 1 /\ l \in Int /\ 1 <= l
    <2> HIDE DEF g, e, l
    <2>1. QED BY <1>2
  <1>4. QED BY <1>1, <1>3, ByteTaken

LEMMA HeaderLinks ==
  ASSUME ReceiveInv, Receive, InStep, Gone(wire[1]) <= 2
  PROVE  /\ InStep' \/ Misleading
         /\ [Link!LinkNext]_(Link!linkVars)
  <1> DEFINE w == wire[1]
  <1> DEFINE g == Gone(w)
  <1>1. wire # << >> /\ wire' = Taken /\ Sound(wire)
    BY ReceiveReads DEF ReceiveInv
  <1>2. /\ Awaited(wire') = Awaited(wire) /\ wire' # << >>
        /\ wire'[1].frame = w.frame /\ Gone(wire'[1]) = g + 1
    BY <1>1, HeaderByte
  <1>3. g \in Int /\ 0 <= g /\ g <= 2 /\ w.frame \in Frames
    BY <1>1, FirstOnItsWay
  <1>4. /\ Encode(w.frame)[1] = HEAD /\ Encode(w.frame)[2] = REPLY_ID
        /\ Encode(w.frame)[3] = ExtLen(w.frame)
    BY <1>3, EncodeBytes
  <1>5. g = 0 \/ g = 1 \/ g = 2
    <2> HIDE DEF g
    <2>1. QED BY <1>3
  <1>6. got' = got
    <2>1. (g = 0 => Head1) /\ (g = 1 => Head2) /\ (g = 2 => Length)
      BY <1>1, AtHeader, InStepAt, ReceiveReads
    <2>2. QED BY <1>5, <2>1 DEF Head1, Head2, Length
  <1>7. CASE Byte = Encode(w.frame)[g + 1]
    <2>1. ASSUME g = 0 PROVE InStep'
      <3>1. Head1
        BY <1>1, <2>1, AtHeader, InStepAt, ReceiveReads
      <3>2. rx' = "head2"
        BY <1>4, <1>7, <2>1, <3>1 DEF Head1
      <3>3. QED BY <1>2, <2>1, <3>2, AtHeader, InStepAt
    <2>2. ASSUME g = 1 PROVE InStep'
      <3>1. Head2
        BY <1>1, <2>2, AtHeader, InStepAt, ReceiveReads
      <3>2. rx' = "len"
        BY <1>4, <1>7, <2>2, <3>1 DEF Head2
      <3>3. QED BY <1>2, <2>2, <3>2, AtHeader, InStepAt
    <2>3. ASSUME g = 2 PROVE InStep'
      <3>1. Length
        BY <1>1, <2>3, AtHeader, InStepAt, ReceiveReads
      <3>2. rx' = "type" /\ ext_len' = ExtLen(w.frame)
        BY <1>4, <1>7, <2>3, <3>1 DEF Length
      <3>3. QED BY <1>2, <2>3, <3>2, AtHeader, InStepAt
    <2>4. InStep'
      BY <1>5, <2>1, <2>2, <2>3
    <2>5. QED BY <1>2, <1>6, <2>4, IsStutter
  <1>8. CASE Byte # Encode(w.frame)[g + 1]
    <2>1. Misleading
      <3>1. g < 3
        BY <1>5
      <3>2. QED BY <1>1, <1>8, <3>1 DEF Misleading
    <2>2. CASE InStep'
      BY <1>2, <1>6, <2>1, <2>2, IsStutter
    <2>3. CASE ~InStep'
      BY <1>2, <1>6, <2>1, <2>3, IsSlip
    <2>4. QED BY <2>2, <2>3
  <1>9. QED BY <1>7, <1>8

(* The body as it comes: its first byte is the type ...                     *)
LEMMA LeftIsBody ==
  ASSUME NEW w \in Item, OnItsWay(w), Gone(w) = 3
  PROVE  Comes(w.left, w)
  <1> DEFINE z == Body(w.frame)
  <1> DEFINE e == ExtLen(w.frame)
  <1>1. /\ w.frame \in Frames /\ w.damaged \in BOOLEAN
        /\ w.left \in Seq(Bytes) /\ DOMAIN w.left = 1..Len(w.left)
        /\ e \in Int /\ 3 <= e /\ Len(w.left) = e + 2 - Gone(w)
    BY ItemFields
  <1>2. Len(w.left) = e - 1
    <2> DEFINE l == Len(w.left)
    <2>1. l = e + 2 - 3
      BY <1>1
    <2> HIDE DEF l, e
    <2>2. l = e - 1
      BY <1>1, <2>1
    <2>3. QED BY <2>2 DEF l
  <1>3. /\ z \in Seq(Bytes) /\ Len(z) = e - 1
        /\ \A j \in 1..(e - 1) : Encode(w.frame)[3 + j] = z[j]
    BY <1>1, BodyBytes, EncodeBytes
  <1> HIDE DEF e, z
  <1>4. CASE ~w.damaged
    <2>1. \A j \in 1..(e - 1) : w.left[j] = z[j]
      <3>1. TAKE j \in 1..(e - 1)
      <3>2. j \in DOMAIN w.left /\ InBody(w, j)
        BY <1>1, <1>2 DEF InBody
      <3>3. QED BY <1>3, <1>4, <3>2 DEF OnItsWay
    <2>2. w.left = z
      BY <1>1, <1>2, <1>3, <2>1, SeqEqual
    <2>3. QED BY <1>4, <2>2 DEF Comes, z
  <1>5. CASE w.damaged
    <2>1. OneByteOff(BodyLeft(w), z)
      BY <1>5 DEF OnItsWay, z
    <2>2. BodyLeft(w) = [j \in 1..(e - 1) |-> w.left[j + 3 - 3]]
      BY DEF BodyLeft, e
    <2>3. \A j \in 1..(e - 1) : BodyLeft(w)[j] = w.left[j]
      BY <2>2
    <2>4. DOMAIN BodyLeft(w) = DOMAIN w.left /\ DOMAIN w.left = 1..(e - 1) /\ DOMAIN z = 1..(e - 1)
      BY <1>1, <1>2, <1>3, <2>2
    <2>5. OneByteOff(w.left, z)
      BY <2>1, <2>3, <2>4 DEF OneByteOff
    <2>6. QED BY <1>5, <2>5 DEF Comes, z
  <1>6. QED BY <1>4, <1>5

LEMMA TypeLinks ==
  ASSUME ReceiveInv, Receive, InStep, Gone(wire[1]) = 3
  PROVE  InStep' /\ UNCHANGED Link!linkVars
  <1> DEFINE w == wire[1]
  <1> DEFINE v == wire'[1]
  <1> DEFINE e == ExtLen(w.frame)
  <1>1. wire # << >> /\ wire' = Taken /\ Sound(wire)
    BY ReceiveReads DEF ReceiveInv
  <1>2. /\ w \in Item /\ OnItsWay(w) /\ w.frame \in Frames
        /\ w.left \in Seq(Bytes) /\ w.left # << >>
        /\ e \in Int /\ 3 <= e /\ Len(w.left) = e + 2 - 3
    BY <1>1, FirstOnItsWay
  <1>3. rx = "type" /\ ext_len = e
    BY <1>1, AtHeader, InStepAt
  <1>4. Len(w.left) # 1
    <2> DEFINE l == Len(w.left)
    <2>1. l = e + 2 - 3
      BY <1>2
    <2> HIDE DEF l, e
    <2>2. l # 1
      BY <1>2, <2>1
    <2>3. QED BY <2>2 DEF l
  <1>5. /\ Awaited(wire') = Awaited(wire) /\ wire' # << >>
        /\ v.frame = w.frame /\ v.damaged = w.damaged
        /\ v.left = Tail(w.left) /\ Gone(v) = 4
    <2>1. Gone(v) = Gone(w) + 1
      BY <1>1, <1>4, ByteTaken
    <2>2. QED BY <1>1, <1>4, <2>1, ByteTaken
  <1>6. Type /\ ext_len - 2 > 0
    BY <1>2, <1>3, ReceiveReads
  <1>7. /\ ext_type' = w.left[1] /\ ext_data' = << >> /\ check_sum' = ext_len + w.left[1]
        /\ rx' = "data" /\ ext_len' = ext_len /\ got' = got
    BY <1>6 DEF Type, Byte
  <1>8. w.left[1] \in Bytes /\ w.left[1] \in Int /\ ext_len \in Int
    BY <1>2, <1>3, ByteRange
  <1>9. Held(ext_type', ext_data', v.left) = w.left
    BY <1>2, <1>5, <1>7, HeldStarts
  <1>10. Comes(w.left, v)
    <2>1. Comes(w.left, w)
      BY <1>2, LeftIsBody
    <2>2. QED BY <1>5, <2>1 DEF Comes
  <1>11. /\ rx' = "data" /\ ext_len' = ExtLen(v.frame) /\ Len(ext_data') = Gone(v) - 4
         /\ check_sum' = ext_len' + ext_type' + Sum(ext_data')
         /\ Comes(Held(ext_type', ext_data', v.left), v)
    <2>1. Len(<< >>) = 4 - 4
      OBVIOUS
    <2>2. ext_len + w.left[1] = ext_len + w.left[1] + 0
      BY <1>8
    <2>3. QED BY <1>3, <1>5, <1>7, <1>9, <1>10, <2>1, <2>2, SumEmpty
  <1>12. InStep'
    <2>1. Gone(v) \in Int /\ Gone(v) >= 4
      BY <1>5
    <2>2. QED BY <1>5, <1>11, <2>1, AtBody, InStepAt
  <1>13. QED BY <1>5, <1>7, <1>12, IsStutter

LEMMA BodyState ==
  ASSUME ReceiveInv, wire # << >>, InStep, ~(Gone(wire[1]) <= 3)
  PROVE  /\ Gone(wire[1]) \in Int /\ Gone(wire[1]) >= 4
         /\ rx = "data" /\ ext_len = ExtLen(wire[1].frame) /\ Len(ext_data) = Gone(wire[1]) - 4
         /\ check_sum = ext_len + ext_type + Sum(ext_data)
         /\ Comes(Held(ext_type, ext_data, wire[1].left), wire[1])
         /\ ext_type \in Bytes /\ ext_data \in Seq(Bytes)
         /\ ext_len \in Int /\ ext_type \in Int /\ Sum(ext_data) \in Int /\ ext_data \in Seq(Nat)
         /\ Len(ext_data) + 1 = ext_len - 2 <=> Len(wire[1].left) = 1
  <1> DEFINE w == wire[1]
  <1> DEFINE g == Gone(w)
  <1> DEFINE e == ExtLen(w.frame)
  <1> DEFINE l == Len(w.left)
  <1> DEFINE h == Len(ext_data)
  <1>1. Sound(wire) /\ ext_type \in Bytes /\ ext_data \in Seq(Bytes)
    BY DEF ReceiveInv, TypeOK
  <1>2. g \in Int /\ e \in Int /\ l = e + 2 - g
    BY <1>1, FirstOnItsWay
  <1>3. g >= 4
    <2> HIDE DEF g
    <2>1. ~(g <= 3)
      BY DEF g
    <2>2. QED BY <1>2, <2>1
  <1>4. /\ rx = "data" /\ ext_len = e /\ h = g - 4
        /\ check_sum = ext_len + ext_type + Sum(ext_data)
        /\ Comes(Held(ext_type, ext_data, w.left), w)
    BY <1>2, <1>3, AtBody, InStepAt
  <1>5. ext_data \in Seq(Nat)
    <2>1. Bytes \subseteq Nat
      BY DEF Bytes
    <2>2. QED BY <1>1, <2>1, SeqMonotonic
  <1>6. Sum(ext_data) \in Int /\ ext_type \in Int
    BY <1>1, <1>5, SumNat, ByteRange
  <1>7. h + 1 = e - 2 <=> l = 1
    <2>1. h = g - 4
      BY <1>4
    <2> HIDE DEF g, e, l, h
    <2>2. QED BY <1>2, <2>1
  <1>8. QED BY <1>1, <1>2, <1>3, <1>4, <1>5, <1>6, <1>7

(* ... the others, but for the last, are data ...                           *)
LEMMA DataLinks ==
  ASSUME ReceiveInv, Receive, InStep, ~(Gone(wire[1]) <= 3), Len(wire[1].left) # 1
  PROVE  InStep' /\ UNCHANGED Link!linkVars
  <1> DEFINE w == wire[1]
  <1> DEFINE v == wire'[1]
  <1>1. wire # << >> /\ wire' = Taken /\ Sound(wire)
    BY ReceiveReads DEF ReceiveInv
  <1>2. /\ Gone(w) \in Int /\ Gone(w) >= 4
        /\ rx = "data" /\ ext_len = ExtLen(w.frame) /\ Len(ext_data) = Gone(w) - 4
        /\ check_sum = ext_len + ext_type + Sum(ext_data)
        /\ Comes(Held(ext_type, ext_data, w.left), w)
        /\ ext_type \in Bytes /\ ext_data \in Seq(Bytes)
        /\ ext_len \in Int /\ ext_type \in Int /\ Sum(ext_data) \in Int /\ ext_data \in Seq(Nat)
        /\ Len(ext_data) + 1 # ext_len - 2
    BY <1>1, BodyState
  <1>3. w.left \in Seq(Bytes) /\ w.left # << >>
    BY <1>1, FirstOnItsWay
  <1>4. /\ Awaited(wire') = Awaited(wire) /\ wire' # << >>
        /\ v.frame = w.frame /\ v.damaged = w.damaged
        /\ v.left = Tail(w.left) /\ Gone(v) = Gone(w) + 1
    BY <1>1, ByteTaken
  <1>5. /\ ext_data' = Append(ext_data, w.left[1]) /\ check_sum' = check_sum + w.left[1]
        /\ rx' = rx /\ ext_len' = ext_len /\ ext_type' = ext_type /\ got' = got
    BY <1>2, ReceiveReads DEF Data, DataUpTo, Byte
  <1>6. w.left[1] \in Nat /\ w.left[1] \in Bytes /\ w.left[1] \in Int
    BY <1>3, ByteRange
  <1>7. check_sum' = ext_len' + ext_type' + Sum(ext_data')
    <2> DEFINE b == w.left[1]
    <2> DEFINE u == Sum(ext_data)
    <2>1. Sum(ext_data') = u + b
      BY <1>2, <1>5, <1>6, SumAppend
    <2>2. /\ check_sum' = check_sum + b /\ check_sum = ext_len + ext_type + u
          /\ ext_len' = ext_len /\ ext_type' = ext_type
      BY <1>2, <1>5
    <2>3. b \in Int /\ u \in Int /\ ext_len \in Int /\ ext_type \in Int
      <3>1. b \in Int
        BY <1>6
      <3>2. QED BY <1>2, <3>1
    <2> HIDE DEF b, u
    <2>4. (ext_len + ext_type + u) + b = ext_len + ext_type + (u + b)
      BY <2>3
    <2>5. QED BY <2>1, <2>2, <2>4
  <1>8. Len(ext_data') = Gone(v) - 4
    <2> DEFINE b == w.left[1]
    <2> DEFINE g == Gone(w)
    <2>1. ext_data' = Append(ext_data, b) /\ ext_data \in Seq(Bytes) /\ b \in Bytes
      BY <1>2, <1>5, <1>6
    <2>2. Len(ext_data) = g - 4 /\ g \in Int /\ Gone(v) = g + 1
      BY <1>2, <1>4
    <2> HIDE DEF b, g
    <2>3. Len(ext_data') = Len(ext_data) + 1
      BY <2>1
    <2>4. Len(ext_data') = g + 1 - 4
      BY <2>2, <2>3
    <2>5. QED BY <2>2, <2>4
  <1>9. Held(ext_type', ext_data', v.left) = Held(ext_type, ext_data, w.left)
    BY <1>2, <1>3, <1>4, <1>5, HeldShifts
  <1>10. Comes(Held(ext_type', ext_data', v.left), v)
    BY <1>2, <1>4, <1>9 DEF Comes
  <1>11. InStep'
    <2>1. Gone(v) \in Int /\ Gone(v) >= 4
      <3> DEFINE g == Gone(w)
      <3>1. Gone(v) = g + 1 /\ g \in Int /\ g >= 4
        BY <1>2, <1>4
      <3> HIDE DEF g, v
      <3>2. QED BY <3>1
    <2>2. rx' = "data" /\ ext_len' = ExtLen(v.frame)
      BY <1>2, <1>4, <1>5
    <2>3. QED BY <1>4, <1>7, <1>8, <1>10, <2>1, <2>2, AtBody, InStepAt
  <1>12. QED BY <1>4, <1>5, <1>11, IsStutter

(* ... and the last is the check sum, which is right of a sound frame and   *)
(* wrong of a damaged one.                                                  *)
LEMMA EndLinks ==
  ASSUME ReceiveInv, Receive, InStep, ~(Gone(wire[1]) <= 3), Len(wire[1].left) = 1
  PROVE  InStep' /\ Link!LinkNext
  <1> DEFINE w == wire[1]
  <1> DEFINE f == w.frame
  <1> DEFINE b == w.left[1]
  <1>1. wire # << >> /\ wire' = Taken /\ Sound(wire)
    BY ReceiveReads DEF ReceiveInv
  <1>2. /\ Gone(w) \in Int /\ Gone(w) >= 4
        /\ rx = "data" /\ ext_len = ExtLen(f) /\ Len(ext_data) = Gone(w) - 4
        /\ check_sum = ext_len + ext_type + Sum(ext_data)
        /\ Comes(Held(ext_type, ext_data, w.left), w)
        /\ ext_type \in Bytes /\ ext_data \in Seq(Bytes)
        /\ Len(ext_data) + 1 = ext_len - 2
    BY <1>1, BodyState
  <1>3. /\ w.left \in Seq(Bytes) /\ w.left # << >> /\ f \in Frames /\ w.damaged \in BOOLEAN
        /\ wire \in Seq(Item)
    BY <1>1, FirstOnItsWay
  <1>4. b \in Bytes /\ w.left = <<b>>
    BY <1>3
  <1>5. Len(ext_data) = Len(f.data)
    <2> DEFINE h == Len(ext_data)
    <2> DEFINE e == ExtLen(f)
    <2> DEFINE d == Len(f.data)
    <2>1. e = d + 3 /\ d \in Int
      BY <1>3, FrameFields
    <2>2. h + 1 = e - 2 /\ h \in Int
      BY <1>2
    <2> HIDE DEF h, e, d
    <2>3. h = d
      BY <2>1, <2>2
    <2>4. QED BY <2>3 DEF h, d
  <1>6. /\ Awaited(wire) # << >> /\ Awaited(wire') = Tail(Awaited(wire))
        /\ wire' = << >> \/ Gone(wire'[1]) = 0
    BY <1>1, LastByteTaken
  <1>7. Head(Awaited(wire)) = Link1(w)
    <2>1. Awaited(wire) \in Seq(LinkItem) /\ Awaited(wire)[1] = Link1(w)
      BY <1>1, <1>3, FirstItem, AwaitedIsSeq
    <2>2. QED BY <1>6, <2>1
  <1>8. Finish(ext_type, Append(ext_data, b), check_sum, b)
    BY <1>2, ReceiveReads DEF Data, DataUpTo, Byte
  <1>9. InStep' <=> rx' = "head1"
    BY <1>6, BetweenFrames, InStepAt
  <1> HIDE DEF b, f
  <1>10. Comes(Held(ext_type, ext_data, <<b>>), w)
    BY <1>2, <1>4
  <1>11. CASE ~w.damaged
    <2>1. Held(ext_type, ext_data, <<b>>) = Body(f)
      BY <1>10, <1>11 DEF Comes, f
    <2>2. /\ ext_type = f.type /\ ext_data = f.data
          /\ (ExtLen(f) + ext_type + Sum(ext_data)) % 256 = b
      BY <1>2, <1>3, <1>4, <1>5, <2>1, SoundParsed
    <2> DEFINE data == Append(ext_data, b)
    <2>3. /\ Len(data) = Len(f.data) + 1 /\ SubSeq(data, 1, Len(data) - 1) = f.data
          /\ Len(f.data) \in Int
      BY <1>2, <1>4, <2>2
    <2> HIDE DEF data
    <2>4. ~(ext_type \in Types /\ Len(data) < Need[ext_type])
      <3>1. ASSUME ext_type \in Types
            PROVE  Need[ext_type] \in Nat /\ Need[ext_type] <= Len(f.data)
        BY <1>3, <2>2, <3>1, NeedAssumption
      <3>2. QED BY <2>3, <3>1
    <2>5. check_sum % 256 = b
      BY <1>2, <2>2
    <2>6. /\ rx' = "head1"
          /\ got' = [frame |-> [type |-> f.type, data |-> f.data], bit |-> 1 - got.bit]
      BY <1>8, <2>2, <2>3, <2>4, <2>5 DEF Finish, data
    <2>7. got' = [frame |-> f, bit |-> 1 - got.bit]
      BY <1>3, <2>6, FrameFields
    <2>8. Head(Awaited(wire)).frame = f /\ ~Head(Awaited(wire)).damaged
      BY <1>7, <1>11 DEF Link1, f
    <2>9. QED BY <1>6, <1>9, <2>6, <2>7, <2>8, IsDeliver
  <1>12. CASE w.damaged
    <2>1. OneByteOff(Held(ext_type, ext_data, <<b>>), Body(f))
      BY <1>10, <1>12 DEF Comes, f
    <2>2. (ExtLen(f) + ext_type + Sum(ext_data)) % 256 # b
      BY <1>2, <1>3, <1>4, <1>5, <2>1, DamagedSum
    <2>3. check_sum % 256 # b
      BY <1>2, <2>2
    <2>4. rx' = "head1" /\ got' = got
      BY <1>8, <2>3 DEF Finish
    <2>5. Head(Awaited(wire)).damaged
      BY <1>7, <1>12 DEF Link1
    <2>6. QED BY <1>6, <1>9, <2>4, <2>5, IsDrop
  <1>13. QED BY <1>3, <1>11, <1>12

LEMMA ReceiveLinks ==
  ASSUME ReceiveInv, Receive
  PROVE  /\ InStep => InStep' \/ Misleading
         /\ [Link!LinkNext]_(Link!linkVars)
  <1>1. wire # << >> /\ wire' = Taken /\ Sound(wire)
    BY ReceiveReads DEF ReceiveInv
  <1>2. CASE ~InStep
    BY <1>1, <1>2, TakenQueue, IsOutOfStep
  <1>3. Gone(wire[1]) \in Int
    BY <1>1, FirstOnItsWay
  <1>4. CASE InStep /\ Gone(wire[1]) <= 2
    BY <1>4, HeaderLinks
  <1>5. CASE InStep /\ Gone(wire[1]) = 3
    BY <1>5, TypeLinks
  <1>6. CASE InStep /\ ~(Gone(wire[1]) <= 3)
    BY <1>6, DataLinks, EndLinks
  <1>7. QED BY <1>2, <1>3, <1>4, <1>5, <1>6

LEMMA LinkInitially == ReceiveInv => Link!LinkInit
  <1> SUFFICES ASSUME ReceiveInv PROVE Link!LinkInit
    OBVIOUS
  <1>1. Awaited(wire) \in Seq(LinkItem)
    BY AwaitedIsSeq DEF ReceiveInv, Sound
  <1>2. QED BY <1>1, InStepBoolean DEF Link!LinkInit, Awaited, Link1, LinkItem

LEMMA LinkStep == ReceiveInv /\ [Next]_vars => [Link!LinkNext]_(Link!linkVars)
  <1> SUFFICES ASSUME ReceiveInv, [Next]_vars
               PROVE  [Link!LinkNext]_(Link!linkVars)
    OBVIOUS
  <1>1. CASE \E f \in Frames : Send(f)
    BY <1>1, SendLinks
  <1>2. CASE Lose
    BY <1>2, LoseLinks
  <1>3. CASE \E i \in DOMAIN wire : \E k \in DOMAIN wire[i].left, b \in Noise : Alter(i, k, b)
    BY <1>3, AlterLinks
  <1>4. CASE Receive
    BY <1>4, ReceiveLinks
  <1>5. CASE UNCHANGED vars
    BY <1>5 DEF vars, Link!linkVars, InStep, Comes, OneByteOff, Gone
  <1>6. QED BY <1>1, <1>2, <1>3, <1>4, <1>5 DEF Next

(* In step, every sound frame is parsed once, in order and unchanged, and   *)
(* every damaged one is dropped, whatever bytes the frames are made of.     *)
THEOREM FramesLinked == Spec => FramesAreLinked
  <1>1. Init => Link!LinkInit
    BY ReceiveInvInit, LinkInitially
  <1>2. ReceiveInv /\ [Next]_vars => [Link!LinkNext]_(Link!linkVars)
    BY LinkStep
  <1>3. QED
    BY <1>1, <1>2, ReceiveInvInit, ReceiveInvStep, PTL
    DEF Spec, FramesAreLinked, Link!LinkSpec

(* A thread that is in step gets out of step by a lost byte or by reading  *)
(* an altered byte of a header or length, and by nothing else: whatever the *)
(* frames hold, and whichever bytes of their bodies are altered, it takes   *)
(* no frame for another (pavs_stm32_com.py 253-277).                        *)
THEOREM OnlyFaultsSlipCorrect == Spec => OnlyFaultsSlip
  <1>1. ReceiveInv /\ [Next]_vars
          => [InStep /\ ~InStep' => Lose \/ (Receive /\ Misleading)]_vars
    <2> SUFFICES ASSUME ReceiveInv, Next, InStep, ~Lose, ~(Receive /\ Misleading)
                 PROVE  InStep'
      OBVIOUS
    <2>1. CASE \E f \in Frames : Send(f)
      BY <2>1, SendLinks
    <2>2. CASE \E i \in DOMAIN wire : \E k \in DOMAIN wire[i].left, b \in Noise : Alter(i, k, b)
      BY <2>2, AlterLinks
    <2>3. CASE Receive
      BY <2>3, ReceiveLinks
    <2>4. QED BY <2>1, <2>2, <2>3 DEF Next
  <1>2. QED BY <1>1, ReceiveInvInit, ReceiveInvStep, PTL DEF Spec, OnlyFaultsSlip

-----------------------------------------------------------------------------
(* The periodic reports, read and cleared while they are assigned.          *)

ReadSoFar(a) == doing = "read" /\ \E i \in 1..step : ReadOrder[i] = a

(* An attribute is from the report being received, from the one before it   *)
(* if its turn has not come, or cleared.                                    *)
ValFresh(a) ==
  val[a] <= n /\ (val[a] # 0 => val[a] + 1 >= n /\ (a < next <=> val[a] = n))

(* What was read is from the report that was being received then, or from   *)
(* the one before it, or cleared; and no newer than what is assigned.       *)
GotFresh(a) ==
  ReadSoFar(a) =>
    /\ reading[a] <= seen[a] /\ seen[a] <= n
    /\ reading[a] # 0 => reading[a] + 1 >= seen[a]
    /\ reading[a] # 0 /\ reading[a] = n => a < next

(* What SkewBounded says of two attributes.                                 *)
Apart(a, b) ==
  LET newer == reading[b] - reading[a]
      came == seen[b] - seen[a]
  IN came - 1 <= newer /\ newer <= came + 1 /\ (b < a => newer >= 0)

SkewInv ==
  /\ ReportsTypeOK
  /\ \A a \in Attributes : ValFresh(a)
  /\ \A a \in Attributes : GotFresh(a)
  /\ SkewBounded

(* The three orders on 1..K are injective: a position is not read twice.    *)
LEMMA OrderInjective ==
  ASSUME NEW i \in Attributes, NEW j \in Attributes, i # j
  PROVE  /\ ReadOrder[i] \in Attributes /\ ReadOrder[i] # ReadOrder[j]
         /\ ClearOrder[i] \in Attributes
  <1>1. IsOrder(ReadOrder) /\ IsOrder(ClearOrder)
    BY OrderAssumption
  <1>2. ReadOrder \in [Attributes -> Attributes] /\ ClearOrder \in [Attributes -> Attributes]
    BY <1>1 DEF IsOrder
  <1>3. ReadOrder[i] # ReadOrder[j]
    BY <1>1 DEF IsOrder
  <1>4. QED BY <1>2, <1>3

LEMMA OrderRange ==
  ASSUME NEW i \in Attributes
  PROVE  ReadOrder[i] \in Attributes /\ ClearOrder[i] \in Attributes
  BY OrderAssumption DEF IsOrder

LEMMA InitSkew == ReportsInit => SkewInv
  BY KAssumption
  DEF ReportsInit, SkewInv, ReportsTypeOK, SkewBounded, ReadSoFar, Attributes, ValFresh, GotFresh

(* Reading one attribute: it joins those read before, whose newest are no   *)
(* newer than the report being received.                                    *)
LEMMA ReadSkew ==
  ASSUME SkewInv, ReadOne
  PROVE  SkewInv'
  <1> DEFINE r == ReadOrder[step + 1]
  <1>1. K \in Nat /\ step \in Nat /\ step < K /\ n \in Nat /\ next \in Nat
        /\ val \in [Attributes -> Nat] /\ reading \in [Attributes -> Nat]
        /\ seen \in [Attributes -> Nat]
    BY KAssumption DEF SkewInv, ReportsTypeOK, ReadOne
  <1>2. step + 1 \in Attributes
    BY <1>1 DEF Attributes
  <1>3. r \in Attributes
    BY <1>2, OrderRange
  <1>4. \A i \in 1..step : ReadOrder[i] # r
    <2>1. TAKE i \in 1..step
    <2>2. i \in Attributes /\ i # step + 1
      BY <1>1 DEF Attributes
    <2>3. QED BY <2>2, <1>2, OrderInjective
  <1>5. /\ UNCHANGED <<n, next, val, doing>> /\ step' = step + 1 /\ doing = "read"
        /\ reading' = [reading EXCEPT ![r] = val[r]] /\ seen' = [seen EXCEPT ![r] = n]
    BY DEF ReadOne
  <1>6. /\ reading' \in [Attributes -> Nat] /\ reading'[r] = val[r]
        /\ seen' \in [Attributes -> Nat] /\ seen'[r] = n
        /\ \A a \in Attributes : a # r => reading'[a] = reading[a] /\ seen'[a] = seen[a]
    BY <1>1, <1>3, <1>5
  <1>7. ReportsTypeOK'
    BY <1>1, <1>5, <1>6 DEF SkewInv, ReportsTypeOK
  <1>8. \A a \in Attributes : ReadSoFar(a)' => a = r \/ (ReadSoFar(a) /\ a # r)
    BY <1>1, <1>4, <1>5 DEF ReadSoFar
  <1>9. \A a \in Attributes : ValFresh(a)'
    BY <1>5 DEF SkewInv, ValFresh
  <1>10. \A a \in Attributes : GotFresh(a)'
    <2> SUFFICES ASSUME NEW a \in Attributes, ReadSoFar(a)'
                 PROVE  GotFresh(a)'
      BY DEF GotFresh
    <2>1. CASE a = r
      <3>1. reading'[a] = val[a] /\ seen'[a] = n /\ ValFresh(a)
        BY <2>1, <1>6, <1>3 DEF SkewInv
      <3>2. val[a] \in Nat
        BY <1>1
      <3>3. QED BY <3>1, <3>2, <1>1, <1>5 DEF ValFresh, GotFresh
    <2>2. CASE a # r
      <3>1. ReadSoFar(a) /\ GotFresh(a)
        BY <1>8, <2>2 DEF SkewInv
      <3>2. reading'[a] = reading[a] /\ seen'[a] = seen[a]
        BY <1>6, <2>2
      <3>3. QED BY <3>1, <3>2, <1>5 DEF GotFresh
    <2>3. QED BY <2>1, <2>2
  <1>11. SkewBounded'
    <2> SUFFICES ASSUME NEW a \in Attributes, NEW b \in Attributes,
                        ReadBefore(a, b)', reading'[a] # 0, reading'[b] # 0
                 PROVE  Apart(a, b)'
      BY <1>5 DEF SkewBounded, Apart
    <2>1. PICK i \in 1..(step + 1), j \in 1..(step + 1) :
             i < j /\ ReadOrder[i] = a /\ ReadOrder[j] = b
      BY <1>5 DEF ReadBefore
    <2>2. i \in 1..step
      BY <2>1, <1>1
    <2>3. a # r /\ ReadSoFar(a) /\ reading'[a] = reading[a] /\ seen'[a] = seen[a]
      BY <2>1, <2>2, <1>4, <1>5, <1>6 DEF ReadSoFar
    <2>4. CASE j \in 1..step
      <3>1. b # r /\ ReadBefore(a, b) /\ reading'[b] = reading[b] /\ seen'[b] = seen[b]
        BY <2>1, <2>2, <2>4, <1>4, <1>6 DEF ReadBefore
      <3>2. Apart(a, b)
        BY <3>1, <2>3, <1>5 DEF SkewInv, SkewBounded, Apart
      <3>3. QED BY <3>1, <3>2, <2>3 DEF Apart
    <2>5. CASE j = step + 1
      <3>1. b = r /\ reading'[b] = val[b] /\ seen'[b] = n /\ ValFresh(b) /\ GotFresh(a)
        BY <2>1, <2>5, <1>6 DEF SkewInv
      <3>2. /\ reading[a] \in Nat /\ seen[a] \in Nat /\ val[b] \in Nat
            /\ a \in Nat /\ b \in Nat
        BY <1>1, <1>3 DEF Attributes
      <3>3. /\ reading[a] <= seen[a] /\ seen[a] <= n
            /\ reading[a] + 1 >= seen[a] /\ (reading[a] = n => a < next)
        BY <3>1, <2>3 DEF GotFresh
      <3>4. val[b] <= n /\ val[b] + 1 >= n /\ (b < next => val[b] = n)
        BY <3>1 DEF ValFresh
      <3>5. b < a => val[b] >= reading[a]
        BY <3>2, <3>3, <3>4, <1>1
      <3>6. /\ (n - seen[a]) - 1 <= val[b] - reading[a]
            /\ val[b] - reading[a] <= (n - seen[a]) + 1
            /\ b < a => val[b] - reading[a] >= 0
        BY <3>2, <3>3, <3>4, <3>5, <1>1
      <3>7. QED BY <3>1, <3>6, <2>3 DEF Apart
    <2>6. QED BY <2>4, <2>5, <1>1
  <1>12. QED BY <1>7, <1>9, <1>10, <1>11 DEF SkewInv

(* The other steps disturb only val, n or next; none while the client reads  *)
(* changes what it has read.                                                *)
LEMMA ReceiveSkew ==
  ASSUME SkewInv, Report \/ Assign
  PROVE  SkewInv'
  <1>1. K \in Nat /\ step \in Nat /\ n \in Nat /\ next \in 1..(K + 1)
        /\ val \in [Attributes -> Nat] /\ reading \in [Attributes -> Nat]
        /\ seen \in [Attributes -> Nat]
    BY KAssumption DEF SkewInv, ReportsTypeOK
  <1>2. UNCHANGED <<doing, step, reading, seen>>
    BY DEF Report, Assign
  <1>3. SkewBounded'
    BY <1>2 DEF SkewInv, SkewBounded, ReadBefore
  <1>4. \A a \in Attributes : ReadSoFar(a)' <=> ReadSoFar(a)
    BY <1>2 DEF ReadSoFar
  <1>5. \A a \in Attributes : /\ a \in Nat /\ a <= K /\ val[a] \in Nat
                             /\ reading[a] \in Nat /\ seen[a] \in Nat
    BY <1>1 DEF Attributes
  <1>6. CASE Report
    <2>1. n' = n + 1 /\ next' = 1 /\ next = K + 1 /\ val' = val
      BY <1>6 DEF Report
    <2>2. ReportsTypeOK'
      BY <2>1, <1>1, <1>2 DEF SkewInv, ReportsTypeOK
    <2>3. ASSUME NEW a \in Attributes PROVE ValFresh(a)' /\ GotFresh(a)'
      <3>1. ValFresh(a) /\ GotFresh(a) BY DEF SkewInv
      <3>2. ValFresh(a)' BY <2>1, <3>1, <1>1, <1>5 DEF ValFresh, Attributes
      <3>3. GotFresh(a)' BY <2>1, <3>1, <1>1, <1>2, <1>4, <1>5 DEF GotFresh
      <3>4. QED BY <3>2, <3>3
    <2>4. QED BY <2>2, <2>3, <1>3 DEF SkewInv
  <1>7. CASE Assign
    <2>1. n' = n /\ next' = next + 1 /\ next <= K /\ val' = [val EXCEPT ![next] = n]
      BY <1>7 DEF Assign
    <2>2. next \in Attributes
      BY <2>1, <1>1 DEF Attributes
    <2>3. val' \in [Attributes -> Nat] /\ val'[next] = n
          /\ \A a \in Attributes : a # next => val'[a] = val[a]
      BY <2>1, <2>2, <1>1
    <2>4. ReportsTypeOK'
      BY <2>1, <2>3, <1>1, <1>2 DEF SkewInv, ReportsTypeOK
    <2>5. ASSUME NEW a \in Attributes PROVE ValFresh(a)' /\ GotFresh(a)'
      <3>1. ValFresh(a) /\ GotFresh(a) BY DEF SkewInv
      <3>2. ValFresh(a)'
        <4>1. CASE a = next BY <4>1, <2>1, <2>3, <1>1 DEF ValFresh
        <4>2. CASE a # next
          <5>1. val'[a] = val[a] BY <4>2, <2>3
          <5>2. a < next' <=> a < next BY <4>2, <2>1, <1>5, <1>1
          <5>3. QED BY <5>1, <5>2, <3>1, <2>1 DEF ValFresh
        <4>3. QED BY <4>1, <4>2
      <3>3. GotFresh(a)' BY <2>1, <3>1, <1>1, <1>2, <1>4, <1>5 DEF GotFresh
      <3>4. QED BY <3>2, <3>3
    <2>6. QED BY <2>4, <2>5, <1>3 DEF SkewInv
  <1>8. QED BY <1>6, <1>7

LEMMA ClearSkew ==
  ASSUME SkewInv, ClearOne
  PROVE  SkewInv'
  <1>1. /\ K \in Nat /\ step \in 0..K /\ step < K
        /\ val \in [Attributes -> Nat]
        /\ val' = [val EXCEPT ![ClearOrder[step + 1]] = 0]
        /\ step' = step + 1 /\ doing = "clear" /\ UNCHANGED <<n, next, doing, reading, seen>>
    BY KAssumption DEF SkewInv, ReportsTypeOK, ClearOne
  <1>2. val' \in [Attributes -> Nat]
    BY <1>1
  <1>3. ReportsTypeOK'
    BY <1>1, <1>2 DEF SkewInv, ReportsTypeOK
  <1>4. \A a \in Attributes : val'[a] = val[a] \/ val'[a] = 0
    BY <1>1
  <1>5. \A a \in Attributes : ValFresh(a)'
    BY <1>1, <1>4 DEF SkewInv, ValFresh, ReportsTypeOK
  <1>6. (\A a \in Attributes : GotFresh(a)') /\ SkewBounded'
    BY <1>1 DEF GotFresh, ReadSoFar, SkewBounded
  <1>7. QED BY <1>3, <1>5, <1>6 DEF SkewInv

LEMMA StartStopSkew ==
  ASSUME SkewInv, Stop \/ \E what \in {"read", "clear"} : Start(what)
  PROVE  SkewInv'
  <1>1. /\ K \in Nat /\ step' = 0 /\ UNCHANGED <<n, next, val>>
        /\ doing' \in {"nothing", "read", "clear"}
        /\ reading' \in [Attributes -> Nat] /\ seen' \in [Attributes -> Nat]
    BY KAssumption DEF SkewInv, ReportsTypeOK, Stop, Start
  <1>2. ReportsTypeOK'
    BY <1>1 DEF SkewInv, ReportsTypeOK
  <1>3. \A a \in Attributes : ValFresh(a)'
    BY <1>1 DEF SkewInv, ValFresh
  <1>4. (\A a \in Attributes : GotFresh(a)') /\ SkewBounded'
    BY <1>1 DEF GotFresh, ReadSoFar, SkewBounded, ReadBefore
  <1>5. QED BY <1>2, <1>3, <1>4 DEF SkewInv

LEMMA SkewInductive == SkewInv /\ [ReportsNext]_reportsVars => SkewInv'
  <1> SUFFICES ASSUME SkewInv, [ReportsNext]_reportsVars PROVE SkewInv'
    OBVIOUS
  <1>1. CASE Report \/ Assign BY <1>1, ReceiveSkew
  <1>2. CASE ReadOne BY <1>2, ReadSkew
  <1>3. CASE ClearOne BY <1>3, ClearSkew
  <1>4. CASE Stop \/ \E what \in {"read", "clear"} : Start(what)
    BY <1>4, StartStopSkew
  <1>5. CASE UNCHANGED reportsVars
    BY <1>5 DEF reportsVars, SkewInv, ReportsTypeOK, ValFresh, GotFresh, ReadSoFar, SkewBounded, ReadBefore
  <1>6. QED BY <1>1, <1>2, <1>3, <1>4, <1>5 DEF ReportsNext

(* Of two attributes that one getter returns, the one read later is newer    *)
(* by the reports received between the two reads, give or take one, and      *)
(* never older if it is assigned earlier: for every number of attributes and *)
(* reports, whatever the orders of reading and clearing (the getters at      *)
(* pavs_stm32_com.py 1092-1144 against __parse_data 137-192).                *)
THEOREM ReportsCorrect == ReportsSpec => []SkewBounded
  <1>1. SkewInv => SkewBounded
    BY DEF SkewInv
  <1>2. QED BY <1>1, InitSkew, SkewInductive, PTL DEF ReportsSpec
=============================================================================
