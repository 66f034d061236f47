---------------------------- MODULE SocketIOProofs ----------------------------
(***************************************************************************)
(* Proofs about SocketIO, for every list of frames, length of a MAC and    *)
(* width of a size_t.                                                      *)
(***************************************************************************)
EXTENDS SocketIO, SequenceTheorems, SetInduction, TLAPS

(***************************************************************************)
(* Types                                                                   *)
(***************************************************************************)

\* The receiver's buffer is filled up to its count as long as no reset has been
\* reported; that is the last thing that is received.
Filling ==
  /\ link = "drained" => wire = <<>>
  /\ link # "drained" /\ Receiving => Len(buf[rpart]) = received
  /\ rpart = "ct" => buf["mac"] = <<>>

\* Nothing has been tried again before the link went down.
FirstTry == link \in {"up", "reset"} => rretries = 0

TypeInv == TypeOK /\ Filling /\ FirstTry

LEMMA ModSmall ==
  ASSUME NEW count \in 0..(Wrap - 1)
  PROVE  count % Wrap = count
<1>1. Wrap \in Nat \ {0}
  BY SocketsAssumption
<1> QED  BY <1>1

LEMMA ModType ==
  ASSUME NEW count \in Int
  PROVE  count % Wrap \in 0..(Wrap - 1)
  BY SocketsAssumption

LEMMA PartLenType ==
  ASSUME NEW frame \in DOMAIN Lengths, NEW part \in Parts
  PROVE  PartLen(frame, part) \in Nat /\ PartLen(frame, part) < Wrap
  BY SocketsAssumption DEF PartLen, Parts

LEMMA LengthsType ==
  /\ Len(Lengths) \in Nat /\ DOMAIN Lengths = 1..Len(Lengths)
  /\ \A i \in DOMAIN Lengths : Lengths[i] \in Nat
  BY SocketsAssumption, LenProperties, ElementOfSeq

LEMMA ByteIsOne ==
  ASSUME NEW frame \in DOMAIN Lengths, NEW part \in Parts, NEW i \in 1..PartLen(frame, part)
  PROVE  Byte(frame, part, i) \in Bytes
<1>1. Byte(frame, part, i) \in ToSet(Content(frame, part))
  BY DEF ToSet, Content
<1> QED  BY <1>1 DEF Bytes

LEMMA InitType == Init => TypeInv
<1> SUFFICES ASSUME Init
             PROVE  TypeInv
  OBVIOUS
<1>1. <<>> \in Seq(Bytes) /\ <<>> \in Seq(BOOLEAN) /\ Len(<<>>) = 0
  BY EmptySeq
<1>2. 0 \in 0..(Wrap - 1) /\ 1 \in 1..(Len(Lengths) + 1) /\ 0 \in 0..MaxRetries
  BY SocketsAssumption, LengthsType
<1> QED  BY <1>1, <1>2 DEF Init, Blank, Parts, TypeInv, TypeOK, Filling, FirstTry

LEMMA TypeStep ==
  ASSUME TypeInv, [Next]_vars
  PROVE  TypeInv'
<1> USE DEF TypeInv, TypeOK, Filling, FirstTry, sender, receiver
<1>0. Len(Lengths) \in Nat /\ DOMAIN Lengths = 1..Len(Lengths)
  BY LengthsType
<1>1. ASSUME NEW n \in Lens, SendBytes(n)
      PROVE  TypeInv'
  <2>1. /\ sframe \in DOMAIN Lengths /\ sent + n \in Int
        /\ \A i \in 1..n : sent + i \in 1..PartLen(sframe, spart)
    BY <1>1, PartLenType DEF SendBytes, SendLoops, Sending
  <2>2. sent' \in 0..(Wrap - 1)
    BY <1>1, <2>1, ModType DEF SendBytes, Plus
  <2>3. wire' \in Seq(Bytes) /\ link # "drained"
    <3>1. \A i \in 1..n : Byte(sframe, spart, sent + i) \in Bytes
      BY <2>1, ByteIsOne
    <3>2. [i \in 1..n |-> Byte(sframe, spart, sent + i)] \in Seq(Bytes)
      BY <1>1, <3>1, IsASeq DEF Lens
    <3> QED  BY <1>1, <3>2, ConcatProperties DEF SendBytes
  <2> QED  BY <1>1, <2>2, <2>3 DEF SendBytes, Receiving
<1>2. CASE SendError
  <2>1. sent' \in 0..(Wrap - 1)
    <3>1. sent + (-1) \in Int
      OBVIOUS
    <3> QED  BY <1>2, <3>1, ModType DEF SendError, Plus
  <2>2. sretries' \in 0..MaxRetries
    BY <1>2, SocketsAssumption DEF SendError, SendLoops
  <2> QED  BY <1>2, <2>1, <2>2 DEF SendError, Receiving
<1>3. CASE SendSignals
  BY <1>0, <1>3 DEF SendSignals, Receiving
<1>4. CASE SendReturns
  <2>1. 0 \in 0..(Wrap - 1) /\ 0 \in 0..MaxRetries
    BY SocketsAssumption
  <2>2. sframe' \in 1..(Len(Lengths) + 1) /\ spart' \in Parts
    BY <1>0, <1>4 DEF SendReturns, Sending, Parts
  <2> QED  BY <1>4, <2>1, <2>2 DEF SendReturns, Receiving
<1>5. CASE SenderCloses
  BY <1>5 DEF SenderCloses, Receiving
<1>6. CASE SenderEnds
  <2>1. wire' \in Seq(Bytes)
    <3>1. ASSUME NEW n \in 0..Len(wire), wire' = SubSeq(wire, 1, n)
          PROVE  wire' \in Seq(Bytes)
      <4>1. \A i \in 1..n : wire[i] \in Bytes
        BY ElementOfSeq, LenProperties
      <4> QED  BY <3>1, <4>1, SubSeqProperties
    <3> QED  BY <1>6, <3>1 DEF SenderEnds
  <2>2. sframe' \in 1..(Len(Lengths) + 1)
    BY <1>0, <1>6 DEF SenderEnds
  <2> QED  BY <1>6, <2>1, <2>2 DEF SenderEnds, Receiving
<1>7. ASSUME NEW n \in Lens, RecvBytes(n)
      PROVE  TypeInv'
  <2>1. /\ rframe \in DOMAIN Lengths /\ n \in Nat /\ n >= 1 /\ Len(wire) \in Nat
        /\ n <= Len(wire) /\ received + n <= PartLen(rframe, rpart) /\ link # "drained"
    BY <1>7, PartLenType, EmptySeq, LenProperties DEF RecvBytes, RecvLoops, Receiving
  <2>2. received' = received + n /\ received' \in 0..(Wrap - 1)
    <3>1. received + n \in 0..(Wrap - 1)
      <4>1. PartLen(rframe, rpart) \in Nat /\ PartLen(rframe, rpart) < Wrap /\ Wrap \in Nat
        BY <2>1, PartLenType, SocketsAssumption
      <4> QED  BY <2>1, <4>1
    <3> QED  BY <1>7, <3>1, ModSmall DEF RecvBytes, Plus
  <2>3. \A i \in 1..Len(wire) : wire[i] \in Bytes
    BY ElementOfSeq
  <2>4. /\ SubSeq(wire, 1, n) \in Seq(Bytes) /\ Len(SubSeq(wire, 1, n)) = n
        /\ SubSeq(wire, n + 1, Len(wire)) \in Seq(Bytes)
    BY <2>1, <2>3, SubSeqProperties, SMTT(30)
  <2>5. /\ SubSeq(buf[rpart], 1, received) \in Seq(Bytes)
        /\ Len(SubSeq(buf[rpart], 1, received)) = received
    <3>1. \A i \in 1..received : buf[rpart][i] \in Bytes
      BY <2>1, ElementOfSeq DEF Receiving
    <3>2. received \in Nat /\ 1 \in Int
      BY DEF TypeInv, TypeOK
    <3> HIDE DEF TypeInv
    <3>3. /\ SubSeq(buf[rpart], 1, received) \in Seq(Bytes)
          /\ Len(SubSeq(buf[rpart], 1, received))
               = IF 1 <= received THEN received - 1 + 1 ELSE 0
      BY <3>1, <3>2, SubSeqProperties
    <3> QED  BY <3>2, <3>3
  <2>6. /\ Written(buf[rpart], received, SubSeq(wire, 1, n)) \in Seq(Bytes)
        /\ Len(Written(buf[rpart], received, SubSeq(wire, 1, n))) = received'
    BY <2>2, <2>4, <2>5, ConcatProperties, SMTT(30) DEF Written
  <2>7. /\ buf' \in [Parts -> Seq(Bytes)] /\ Len(buf'[rpart]) = received'
        /\ rpart = "ct" => buf'["mac"] = buf["mac"]
    BY <1>7, <2>6 DEF RecvBytes
  <2> QED  BY <1>7, <2>1, <2>2, <2>4, <2>7 DEF RecvBytes, Receiving
<1>8. CASE RecvEnd
  <2>1. rretries' \in 0..MaxRetries
    BY <1>8, SocketsAssumption DEF RecvEnd
  <2> QED  BY <1>8, <2>1 DEF RecvEnd, Receiving
<1>9. CASE RecvError
  <2>1. received' \in 0..(Wrap - 1)
    <3>1. received + (-1) \in Int
      OBVIOUS
    <3> QED  BY <1>9, <3>1, ModType DEF RecvError, Plus
  <2>2. rretries' \in 0..MaxRetries
    BY <1>9, SocketsAssumption DEF RecvError
  <2> QED  BY <1>9, <2>1, <2>2 DEF RecvError
<1>10. CASE RecvReturns
  <2>1. 0 \in 0..(Wrap - 1) /\ 0 \in 0..MaxRetries
    BY SocketsAssumption
  <2>2. ASSUME NEW result \in BOOLEAN, CallReturns(result)
        PROVE  TypeInv'
    <3>1. results' \in Seq(BOOLEAN)
      BY <2>2, AppendProperties DEF CallReturns
    <3>2. rframe' \in 1..(Len(Lengths) + 1)
      BY <1>0, <1>10, <2>2 DEF RecvReturns, Receiving, CallReturns
    <3>3. <<>> \in Seq(Bytes) /\ Len(<<>>) = 0
      BY EmptySeq
    <3>4. buf' \in [Parts -> Seq(Bytes)] /\ buf'["mac"] = <<>> /\ Len(buf'["ct"]) = 0
          /\ rpart' = "ct"
      BY <2>2, <3>3 DEF CallReturns, Blank, Parts
    <3> QED  BY <1>10, <2>1, <3>1, <3>2, <3>4 DEF RecvReturns, Parts
  <2>3. CASE rpart = "ct" /\ rpart' = "mac" /\ UNCHANGED <<rframe, buf, results>>
    <3>1. Len(<<>>) = 0
      BY EmptySeq
    <3> QED  BY <1>10, <2>1, <2>3, <3>1 DEF RecvReturns, Parts
  <2>4. Verified \in BOOLEAN
    BY DEF Verified
  <2>5. CASE rretries = MaxRetries
    BY <1>10, <2>2, <2>5 DEF RecvReturns
  <2>6. CASE rretries # MaxRetries /\ rpart = "mac"
    BY <1>10, <2>2, <2>4, <2>6 DEF RecvReturns
  <2>7. CASE rretries # MaxRetries /\ rpart = "ct"
    BY <1>10, <2>3, <2>7 DEF RecvReturns
  <2> QED  BY <2>5, <2>6, <2>7 DEF Parts
<1>11. CASE ReceiverEnds
  <2>1. rframe' = Len(Lengths) + 1 /\ ~(rframe' \in DOMAIN Lengths) /\ wire' \in Seq(Bytes)
    BY <1>0, <1>11, EmptySeq DEF ReceiverEnds
  <2> QED  BY <1>0, <1>11, <2>1 DEF ReceiverEnds, Receiving
<1>12. CASE UNCHANGED vars
  BY <1>12 DEF vars, Receiving
<1> QED
  BY <1>1, <1>2, <1>3, <1>4, <1>5, <1>6, <1>7, <1>8, <1>9, <1>10, <1>11, <1>12
  DEF Next, SendStep, RecvStep

LEMMA TypeInvariant == Spec => []TypeInv
<1>1. TypeInv /\ [Next]_vars => TypeInv'
  BY TypeStep
<1> QED  BY <1>1, InitType, PTL DEF Spec

\* The counts of the loops of send and recv stay size_t values and below their
\* limits, and what the receiver holds are bytes of frames that were sent.
THEOREM TypeCorrect == Spec => []TypeOK
  BY TypeInvariant, PTL DEF TypeInv

(***************************************************************************)
(* The stream                                                              *)
(***************************************************************************)

\* The first byte of a frame, and the one that comes after some of a part.
Start(frame) ==
  IF frame \in DOMAIN Lengths /\ Lengths[frame] = 0 THEN Byte(frame, "mac", 1)
  ELSE Byte(frame, "ct", 1)

After(frame, part, count) ==
  IF frame \notin DOMAIN Lengths THEN Start(frame)
  ELSE IF count < PartLen(frame, part) THEN Byte(frame, part, count + 1)
  ELSE IF part = "ct" THEN Byte(frame, "mac", 1)
  ELSE Start(frame + 1)

NextTo(byte) == After(byte[1], byte[2], byte[3])

\* What is under way begins behind what was received, has no gap and ends before
\* what is still to be sent.
InOrder ==
  /\ wire = <<>> => After(rframe, rpart, received) = After(sframe, spart, sent)
  /\ wire # <<>> =>
       /\ wire[1] = After(rframe, rpart, received)
       /\ NextTo(wire[Len(wire)]) = After(sframe, spart, sent)
  /\ \A i \in 1..(Len(wire) - 1) : wire[i + 1] = NextTo(wire[i])

\* The receiver holds what was sent.
Faithful ==
  /\ \A i \in 1..received : buf[rpart][i] = Byte(rframe, rpart, i)
  /\ rpart = "mac" => buf["ct"] = Content(rframe, "ct")

\* Both sides are inside their parts, and no call was repeated.
Places ==
  /\ sretries = 0 /\ rretries = 0
  /\ Sending => sent <= PartLen(sframe, spart)
  /\ ~Sending => spart = "ct" /\ sent = 0
  /\ Receiving => received <= PartLen(rframe, rpart)
  /\ ~Receiving => rpart = "ct" /\ received = 0
  /\ link = "closed" => ~Sending

StreamInv == link \in {"up", "closed"} => Places /\ InOrder /\ (Receiving => Faithful)

AnswerInv ==
  /\ link \notin {"ended", "reset", "drained"} => \A i \in DOMAIN results : results[i]
  /\ link \in {"gone", "broken"} => ~Receiving

LEMMA NextToByte ==
  ASSUME NEW frame, NEW part, NEW i
  PROVE  NextTo(Byte(frame, part, i)) = After(frame, part, i)
  BY DEF NextTo, Byte

LEMMA InitStream == Init => StreamInv /\ AnswerInv
<1> SUFFICES ASSUME Init
             PROVE  StreamInv /\ AnswerInv
  OBVIOUS
<1>1. Len(wire) = 0 /\ DOMAIN results = {}
  BY EmptySeq DEF Init
<1>2. Sending => PartLen(sframe, spart) \in Nat
  BY PartLenType DEF Init, Sending, Parts
<1>3. Places
  BY <1>2 DEF Init, Places, Sending, Receiving
<1> QED  BY <1>1, <1>3 DEF Init, StreamInv, AnswerInv, InOrder, Faithful

\* The kernel takes bytes of the sender.
LEMMA SendOrder ==
  ASSUME TypeInv, StreamInv, link = "up", NEW n \in Lens, SendBytes(n)
  PROVE  StreamInv'
<1> USE DEF TypeInv, TypeOK, StreamInv
<1> DEFINE w == [i \in 1..n |-> Byte(sframe, spart, sent + i)]
<1>1. /\ sframe \in DOMAIN Lengths /\ spart \in Parts /\ sent \in Nat /\ n \in Nat /\ n >= 1
      /\ PartLen(sframe, spart) \in Nat /\ PartLen(sframe, spart) < Wrap /\ Wrap \in Nat
      /\ sent + n <= PartLen(sframe, spart)
  BY PartLenType, SocketsAssumption, SMTT(30) DEF SendBytes, SendLoops, Sending, Lens
<1>2. sent' = sent + n
  <2>1. sent + n \in 0..(Wrap - 1)
    BY <1>1
  <2> QED  BY <2>1, ModSmall DEF SendBytes, Plus
<1>3. /\ wire' = wire \o w /\ wire \in Seq(Bytes) /\ w \in Seq(Bytes)
      /\ Len(w) = n /\ \A i \in 1..n : w[i] = Byte(sframe, spart, sent + i)
  <2>1. \A i \in 1..n : Byte(sframe, spart, sent + i) \in Bytes
    BY <1>1, ByteIsOne
  <2>2. w \in Seq(Bytes)
    BY <1>1, <2>1, IsASeq
  <2> QED  BY <1>1, <2>2 DEF SendBytes
<1>4. /\ Len(wire') = Len(wire) + n /\ Len(wire) \in Nat
      /\ \A i \in 1..Len(wire) : wire'[i] = wire[i]
      /\ \A i \in 1..n : wire'[Len(wire) + i] = Byte(sframe, spart, sent + i)
  <2> HIDE DEF w
  <2>1. /\ Len(wire') = Len(wire) + n /\ Len(wire) \in Nat
        /\ \A i \in 1..(Len(wire) + n) :
             wire'[i] = IF i <= Len(wire) THEN wire[i] ELSE w[i - Len(wire)]
    BY <1>3, ConcatProperties, LenProperties
  <2>2. \A i \in 1..Len(wire) : wire'[i] = wire[i]
    BY <1>1, <2>1
  <2>3. ASSUME NEW i \in 1..n
        PROVE  wire'[Len(wire) + i] = Byte(sframe, spart, sent + i)
    <3>1. /\ Len(wire) + i \in 1..(Len(wire) + n) /\ ~(Len(wire) + i <= Len(wire))
          /\ (Len(wire) + i) - Len(wire) = i
      BY <1>1, <2>1
    <3> QED  BY <1>3, <2>1, <3>1
  <2> QED  BY <2>1, <2>2, <2>3
<1>5. /\ After(sframe, spart, sent) = Byte(sframe, spart, sent + 1)
      /\ \A i \in 1..(n - 1) :
           NextTo(Byte(sframe, spart, sent + i)) = Byte(sframe, spart, sent + (i + 1))
      /\ NextTo(Byte(sframe, spart, sent + n)) = After(sframe, spart, sent')
  <2>1. After(sframe, spart, sent) = Byte(sframe, spart, sent + 1)
    BY <1>1 DEF After
  <2>2. ASSUME NEW i \in 1..(n - 1)
        PROVE  NextTo(Byte(sframe, spart, sent + i)) = Byte(sframe, spart, sent + (i + 1))
    <3>1. sent + i < PartLen(sframe, spart) /\ (sent + i) + 1 = sent + (i + 1)
      BY <1>1
    <3> QED  BY <1>1, <3>1, NextToByte DEF After
  <2> QED  BY <1>2, <2>1, <2>2, NextToByte
<1>6. UNCHANGED <<kind, link, sframe, spart, sretries, rframe, rpart, received, rretries, buf>>
  BY DEF SendBytes, receiver
<1>7. Places'
  BY <1>1, <1>2, <1>6 DEF Places, Sending, Receiving
<1>8. wire'[1] = After(rframe, rpart, received)
  <2>1. CASE wire = <<>>
    <3>1. Len(wire) = 0 /\ wire'[Len(wire) + 1] = Byte(sframe, spart, sent + 1)
      BY <1>1, <1>4, <2>1, EmptySeq
    <3> QED  BY <1>5, <2>1, <3>1 DEF InOrder
  <2>2. CASE wire # <<>>
    <3>1. 1 \in 1..Len(wire)
      BY <1>3, <1>4, <2>2, EmptySeq
    <3> QED  BY <1>4, <2>2, <3>1 DEF InOrder
  <2> QED  BY <2>1, <2>2
<1>9. NextTo(wire'[Len(wire')]) = After(sframe, spart, sent')
  <2>1. wire'[Len(wire')] = Byte(sframe, spart, sent + n)
    BY <1>1, <1>4
  <2> QED  BY <1>5, <2>1
<1>10. ASSUME NEW i \in 1..(Len(wire') - 1)
       PROVE  wire'[i + 1] = NextTo(wire'[i])
  <2>1. CASE i < Len(wire)
    <3>1. i \in 1..(Len(wire) - 1) /\ i \in 1..Len(wire) /\ i + 1 \in 1..Len(wire)
      BY <1>4, <2>1
    <3> QED  BY <1>4, <3>1 DEF InOrder
  <2>2. CASE i = Len(wire)
    <3>1. i \in 1..Len(wire) /\ wire'[Len(wire) + 1] = Byte(sframe, spart, sent + 1)
      <4>1. i \in 1..Len(wire) /\ 1 \in 1..n
        BY <1>1, <1>4, <2>2
      <4> QED  BY <1>4, <4>1
    <3>2. wire # <<>>
      BY <2>2, <1>4, EmptySeq
    <3>3. NextTo(wire[Len(wire)]) = After(sframe, spart, sent)
      BY <3>2 DEF InOrder
    <3> QED  BY <1>4, <1>5, <2>2, <3>1, <3>3
  <2>3. CASE i > Len(wire)
    <3> DEFINE k == i - Len(wire)
    <3>1. k \in 1..(n - 1) /\ k \in 1..n /\ k + 1 \in 1..n
      BY <1>1, <1>4, <2>3, SMTT(30)
    <3>2. i = Len(wire) + k /\ i + 1 = Len(wire) + (k + 1)
      BY <1>4
    <3> HIDE DEF k
    <3> QED  BY <1>4, <1>5, <3>1, <3>2
  <2> QED  BY <1>4, <2>1, <2>2, <2>3
<1>11. InOrder'
  <2>1. wire' # <<>>
    BY <1>1, <1>4, EmptySeq
  <2> QED  BY <1>6, <1>8, <1>9, <1>10, <2>1 DEF InOrder
<1>12. Receiving' => Faithful'
  BY <1>6 DEF Faithful, Receiving
<1> QED  BY <1>7, <1>11, <1>12

\* What the kernel gives is the next piece of the part that is received.
LEMMA NextPiece ==
  ASSUME TypeInv, InOrder, NEW n \in Nat, n >= 1, n <= Len(wire), Receiving,
         received + n <= PartLen(rframe, rpart)
  PROVE  \A i \in 1..n : wire[i] = Byte(rframe, rpart, received + i)
<1> DEFINE S == { k \in Nat : k + 1 <= n => wire[k + 1] = Byte(rframe, rpart, received + (k + 1)) }
<1>0. /\ received \in Nat /\ PartLen(rframe, rpart) \in Nat /\ rframe \in DOMAIN Lengths
      /\ Len(wire) \in Nat /\ wire # <<>>
  BY PartLenType, LenProperties, EmptySeq DEF TypeInv, TypeOK, Receiving
<1>1. 0 \in S
  <2>1. wire[1] = After(rframe, rpart, received)
    BY <1>0 DEF InOrder
  <2> QED  BY <1>0, <2>1 DEF After
<1>2. ASSUME NEW k \in Nat, k \in S
      PROVE  k + 1 \in S
  <2> SUFFICES ASSUME (k + 1) + 1 <= n
               PROVE  wire[(k + 1) + 1] = Byte(rframe, rpart, received + ((k + 1) + 1))
    OBVIOUS
  <2>1. wire[k + 1] = Byte(rframe, rpart, received + (k + 1))
    BY <1>2
  <2>2. k + 1 \in 1..(Len(wire) - 1)
    BY <1>0
  <2>3. wire[(k + 1) + 1] = After(rframe, rpart, received + (k + 1))
    BY <2>1, <2>2, NextToByte DEF InOrder
  <2>4. /\ received + (k + 1) < PartLen(rframe, rpart)
        /\ (received + (k + 1)) + 1 = received + ((k + 1) + 1)
    BY <1>0
  <2> QED  BY <1>0, <2>3, <2>4 DEF After
<1>3. Nat \subseteq S
  <2> HIDE DEF S
  <2> QED  BY <1>1, <1>2, InductionBySet
<1> SUFFICES ASSUME NEW i \in 1..n
             PROVE  wire[i] = Byte(rframe, rpart, received + i)
  OBVIOUS
<1>4. i - 1 \in Nat /\ (i - 1) + 1 = i /\ i <= n
  OBVIOUS
<1>5. i - 1 \in S
  BY <1>3, <1>4
<1> QED  BY <1>4, <1>5

\* The receiver takes it.
LEMMA RecvOrder ==
  ASSUME TypeInv, StreamInv, link \in {"up", "closed"}, NEW n \in Lens, RecvBytes(n)
  PROVE  StreamInv'
<1> USE DEF StreamInv
<1> DEFINE w == SubSeq(wire, 1, n)
           old == SubSeq(buf[rpart], 1, received)
<1>1. /\ rframe \in DOMAIN Lengths /\ rpart \in Parts /\ received \in Nat /\ n \in Nat /\ n >= 1
      /\ PartLen(rframe, rpart) \in Nat /\ PartLen(rframe, rpart) < Wrap /\ Wrap \in Nat
      /\ received + n <= PartLen(rframe, rpart) /\ n <= Len(wire) /\ Len(wire) \in Nat
      /\ wire \in Seq(Bytes) /\ buf \in [Parts -> Seq(Bytes)] /\ Len(buf[rpart]) = received
  BY PartLenType, LenProperties, SocketsAssumption, SMTT(30)
  DEF RecvBytes, RecvLoops, Receiving, Lens, TypeInv, TypeOK, Filling
<1>2. received' = received + n
  <2>1. received + n \in 0..(Wrap - 1)
    BY <1>1
  <2> QED  BY <2>1, ModSmall DEF RecvBytes, Plus
<1>3. /\ wire' = SubSeq(wire, n + 1, Len(wire)) /\ buf' = [buf EXCEPT ![rpart] = old \o w]
      /\ UNCHANGED <<kind, link, sframe, spart, sent, sretries, rframe, rpart, rretries>>
  BY DEF RecvBytes, Written, sender
<1>4. \A i \in 1..n : wire[i] = Byte(rframe, rpart, received + i)
  BY <1>1, NextPiece DEF Receiving
<1>5. /\ Len(wire') = Len(wire) - n
      /\ \A i \in 1..Len(wire') : wire'[i] = wire[n + i]
  <2>1. \A i \in (n + 1)..Len(wire) : wire[i] \in Bytes
    BY <1>1, ElementOfSeq
  <2>2. /\ Len(wire') = IF n + 1 <= Len(wire) THEN Len(wire) - (n + 1) + 1 ELSE 0
        /\ \A i \in 1..(Len(wire) - (n + 1) + 1) : wire'[i] = wire[(n + 1) + i - 1]
    BY <1>1, <1>3, <2>1, SubSeqProperties
  <2>3. Len(wire') = Len(wire) - n
    BY <1>1, <2>2
  <2>4. ASSUME NEW i \in 1..Len(wire')
        PROVE  wire'[i] = wire[n + i]
    <3>1. i \in 1..(Len(wire) - (n + 1) + 1) /\ (n + 1) + i - 1 = n + i
      BY <1>1, <2>3
    <3> QED  BY <2>2, <3>1
  <2> QED  BY <2>3, <2>4
<1>6. NextTo(wire[n]) = After(rframe, rpart, received')
  BY <1>1, <1>2, <1>4, NextToByte
<1>7. Places'
  BY <1>1, <1>2, <1>3 DEF Places, Sending, Receiving
<1>8. InOrder'
  <2>1. InOrder
    OBVIOUS
  <2>2. CASE n = Len(wire)
    <3>1. wire' = <<>> /\ wire # <<>>
      BY <1>1, <1>3, <1>5, <2>2, EmptySeq, SubSeqEmpty
    <3>2. NextTo(wire[n]) = After(sframe, spart, sent)
      BY <2>1, <2>2, <3>1 DEF InOrder
    <3>3. Len(wire') = 0
      BY <1>1, <1>5, <2>2
    <3>4. After(rframe, rpart, received') = After(sframe, spart, sent)
      BY <1>6, <3>2
    <3>5. ~ \E i : i \in 1..(Len(wire') - 1)
      BY <3>3
    <3> QED  BY <1>3, <3>1, <3>4, <3>5 DEF InOrder
  <2>3. CASE n < Len(wire)
    <3>1. /\ wire' # <<>> /\ wire # <<>> /\ n \in 1..(Len(wire) - 1)
          /\ 1 \in 1..Len(wire') /\ Len(wire') \in 1..Len(wire') /\ n + Len(wire') = Len(wire)
      BY <1>1, <1>5, <2>3, EmptySeq
    <3>2. wire'[1] = After(rframe, rpart, received')
      BY <1>5, <1>6, <2>1, <3>1 DEF InOrder
    <3>3. NextTo(wire'[Len(wire')]) = After(sframe, spart, sent)
      BY <1>5, <2>1, <3>1 DEF InOrder
    <3>4. ASSUME NEW i \in 1..(Len(wire') - 1)
          PROVE  wire'[i + 1] = NextTo(wire'[i])
      <4>1. /\ i \in 1..Len(wire') /\ i + 1 \in 1..Len(wire')
            /\ n + i \in 1..(Len(wire) - 1) /\ n + (i + 1) = (n + i) + 1
        BY <1>1, <1>5, <2>3
      <4> QED  BY <1>5, <2>1, <4>1 DEF InOrder
    <3> QED  BY <1>3, <3>1, <3>2, <3>3, <3>4 DEF InOrder
  <2> QED  BY <1>1, <2>2, <2>3
<1>9. Faithful'
  <2>1. Faithful /\ received <= PartLen(rframe, rpart)
    BY <1>1 DEF Places, Receiving
  <2>2. /\ old \in Seq(Bytes) /\ Len(old) = received
        /\ \A i \in 1..received : old[i] = buf[rpart][i]
    <3>1. \A i \in 1..received : buf[rpart][i] \in Bytes
      BY <1>1, ElementOfSeq
    <3>2. /\ old \in Seq(Bytes) /\ Len(old) = IF 1 <= received THEN received - 1 + 1 ELSE 0
          /\ \A i \in 1..(received - 1 + 1) : old[i] = buf[rpart][1 + i - 1]
      BY <1>1, <3>1, SubSeqProperties
    <3> HIDE DEF old
    <3>3. ASSUME NEW i \in 1..received
          PROVE  old[i] = buf[rpart][i]
      <4>1. i \in 1..(received - 1 + 1) /\ 1 + i - 1 = i
        BY <1>1
      <4> QED  BY <3>2, <4>1
    <3> QED  BY <1>1, <3>2, <3>3
  <2>3. /\ w \in Seq(Bytes) /\ Len(w) = n
        /\ \A i \in 1..n : w[i] = wire[i]
    <3>1. \A i \in 1..n : wire[i] \in Bytes
      BY <1>1, ElementOfSeq
    <3>2. /\ w \in Seq(Bytes) /\ Len(w) = IF 1 <= n THEN n - 1 + 1 ELSE 0
          /\ \A i \in 1..(n - 1 + 1) : w[i] = wire[1 + i - 1]
      BY <1>1, <3>1, SubSeqProperties
    <3> HIDE DEF w
    <3>3. ASSUME NEW i \in 1..n
          PROVE  w[i] = wire[i]
      <4>1. i \in 1..(n - 1 + 1) /\ 1 + i - 1 = i
        BY <1>1
      <4> QED  BY <3>2, <4>1
    <3> QED  BY <1>1, <3>2, <3>3
  <2> HIDE DEF old, w
  <2>4. \A i \in 1..(received + n) : (old \o w)[i] = IF i <= received THEN old[i] ELSE w[i - received]
    BY <2>2, <2>3, ConcatProperties
  <2>5. ASSUME NEW i \in 1..(received + n)
        PROVE  (old \o w)[i] = Byte(rframe, rpart, i)
    <3>1. CASE i <= received
      BY <1>1, <2>1, <2>2, <2>4, <3>1 DEF Faithful
    <3>2. CASE ~(i <= received)
      <4>1. i - received \in 1..n /\ received + (i - received) = i
        BY <1>1, <3>2
      <4> QED  BY <1>4, <2>3, <2>4, <3>2, <4>1
    <3> QED  BY <3>1, <3>2
  <2>6. buf'[rpart] = old \o w /\ (rpart = "mac" => buf'["ct"] = buf["ct"])
    BY <1>1, <1>3 DEF Parts
  <2> QED  BY <1>2, <1>3, <2>1, <2>5, <2>6 DEF Faithful
<1> QED  BY <1>7, <1>8, <1>9

\* A part has been received to its end, and after its MAC a frame is what was sent.
LEMMA PartComplete ==
  ASSUME TypeInv, StreamInv, link \in {"up", "closed"}, RecvReturns
  PROVE  /\ rframe \in DOMAIN Lengths /\ received = PartLen(rframe, rpart) /\ rretries = 0
         /\ buf[rpart] = Content(rframe, rpart)
         /\ rpart = "mac" => Verified
<1>1. /\ rframe \in DOMAIN Lengths /\ rpart \in Parts /\ received \in Nat
      /\ PartLen(rframe, rpart) \in Nat
      /\ Places /\ Faithful /\ buf[rpart] \in Seq(Bytes) /\ Len(buf[rpart]) = received
  BY PartLenType DEF RecvReturns, Receiving, TypeInv, TypeOK, StreamInv, Filling
<1>2. received = PartLen(rframe, rpart) /\ rretries = 0
  <2>1. MaxRetries \in Nat /\ MaxRetries > 0
    BY SocketsAssumption
  <2> QED  BY <1>1, <2>1 DEF Places, RecvReturns, RecvLoops, Receiving
<1>3. buf[rpart] = Content(rframe, rpart)
  <2>1. buf[rpart] = [i \in 1..Len(buf[rpart]) |-> buf[rpart][i]]
    BY <1>1
  <2>2. \A i \in 1..received : buf[rpart][i] = Byte(rframe, rpart, i)
    BY <1>1 DEF Faithful
  <2> QED  BY <1>1, <1>2, <2>1, <2>2 DEF Content
<1>4. rpart = "mac" => Verified
  BY <1>1, <1>3 DEF Faithful, Verified
<1> QED  BY <1>1, <1>2, <1>3, <1>4

\* The last byte of a part is followed by the first of the next.
LEMMA NextPart ==
  ASSUME NEW frame \in DOMAIN Lengths
  PROVE  /\ After(frame, "ct", PartLen(frame, "ct")) = After(frame, "mac", 0)
         /\ After(frame, "mac", PartLen(frame, "mac")) = After(frame + 1, "ct", 0)
<1>1. /\ Lengths[frame] \in Nat /\ MacLen \in Nat /\ MacLen > 0 /\ frame \in Nat
      /\ \A i \in DOMAIN Lengths : Lengths[i] \in Nat
  BY LengthsType, SocketsAssumption
<1>2. After(frame, "ct", PartLen(frame, "ct")) = After(frame, "mac", 0)
  BY <1>1 DEF After, PartLen
<1>3. After(frame, "mac", PartLen(frame, "mac")) = Start(frame + 1)
  BY <1>1 DEF After, PartLen
<1>4. After(frame + 1, "ct", 0) = Start(frame + 1)
  BY <1>1 DEF After, PartLen, Start
<1> QED  BY <1>2, <1>3, <1>4

LEMMA StreamStep ==
  ASSUME TypeInv, StreamInv, [Next]_vars
  PROVE  StreamInv'
<1> SUFFICES ASSUME link' \in {"up", "closed"}
             PROVE  StreamInv'
  BY DEF StreamInv
<1>0. Len(Lengths) \in Nat /\ DOMAIN Lengths = 1..Len(Lengths)
  BY LengthsType
<1>1. ASSUME NEW n \in Lens, SendBytes(n)
      PROVE  StreamInv'
  <2>1. link' = link
    BY <1>1 DEF SendBytes
  <2>2. link = "up"
    BY <1>1, <2>1 DEF SendBytes
  <2> QED  BY <1>1, <2>2, SendOrder
<1>2. CASE SendError \/ SendSignals \/ SenderEnds \/ RecvError \/ ReceiverEnds
  BY <1>2 DEF SendError, SendSignals, SenderEnds, RecvError, ReceiverEnds
<1>3. CASE SendReturns
  <2>1. /\ UNCHANGED <<kind, wire, link, rframe, rpart, received, rretries, buf>>
        /\ sent' = 0 /\ sretries' = 0
    BY <1>3 DEF SendReturns, receiver
  <2>2. /\ Places /\ InOrder /\ (Receiving => Faithful)
        /\ sframe \in DOMAIN Lengths /\ spart \in Parts /\ sent \in Nat
        /\ PartLen(sframe, spart) \in Nat
    BY <1>3, <2>1, PartLenType DEF SendReturns, Sending, StreamInv, TypeInv, TypeOK
  <2>3. sent = PartLen(sframe, spart)
    <3>1. MaxRetries \in Nat /\ MaxRetries > 0
      BY SocketsAssumption
    <3> QED  BY <1>3, <2>2, <3>1 DEF Places, SendReturns, SendLoops, Sending
  <2>4. After(sframe, spart, sent) = After(sframe', spart', sent')
    BY <1>3, <2>1, <2>2, <2>3, NextPart DEF SendReturns, Parts
  <2>5. InOrder'
    BY <2>1, <2>2, <2>4 DEF InOrder
  <2>6. Places'
    <3>1. Sending' => sent' <= PartLen(sframe', spart')
      <4>1. spart' \in Parts
        BY <1>3 DEF SendReturns, Parts
      <4> QED  BY <2>1, <4>1, PartLenType DEF Sending
    <3>2. ~Sending' => spart' = "ct"
      BY <1>3 DEF SendReturns, Sending
    <3>3. link # "closed"
      BY <1>3, <2>2 DEF Places, SendReturns
    <3> QED  BY <2>1, <2>2, <3>1, <3>2, <3>3 DEF Places, Receiving
  <2> QED  BY <2>1, <2>2, <2>5, <2>6 DEF StreamInv, Faithful, Receiving
<1>4. CASE SenderCloses
  BY <1>4 DEF SenderCloses, StreamInv, Places, InOrder, Faithful, Sending, Receiving,
              sender, receiver
<1>5. ASSUME NEW n \in Lens, RecvBytes(n)
      PROVE  StreamInv'
  BY <1>5, RecvOrder DEF RecvBytes
<1>6. CASE RecvEnd
  <2>1. /\ Places /\ InOrder /\ rframe \in DOMAIN Lengths /\ received < PartLen(rframe, rpart)
        /\ wire = <<>> /\ sframe \notin DOMAIN Lengths /\ sframe = Len(Lengths) + 1
    BY <1>0, <1>6 DEF RecvEnd, RecvLoops, Receiving, StreamInv, Places, Sending, TypeInv, TypeOK
  <2>2. After(rframe, rpart, received) = Byte(rframe, rpart, received + 1)
    BY <2>1 DEF After
  <2>3. After(sframe, spart, sent) = Byte(sframe, "ct", 1)
    BY <2>1 DEF After, Start
  <2>4. rframe # sframe
    BY <2>1
  <2> QED  BY <2>1, <2>2, <2>3, <2>4 DEF InOrder, Byte
<1>7. CASE RecvReturns
  <2>1. /\ UNCHANGED <<kind, wire, link, sframe, spart, sent, sretries>>
        /\ received' = 0 /\ rretries' = 0
    BY <1>7 DEF RecvReturns, sender
  <2>2. /\ Places /\ InOrder /\ Faithful
        /\ rframe \in DOMAIN Lengths /\ rpart \in Parts
        /\ received = PartLen(rframe, rpart) /\ rretries = 0
        /\ buf[rpart] = Content(rframe, rpart)
    BY <1>7, <2>1, PartComplete DEF RecvReturns, Receiving, StreamInv, TypeInv, TypeOK
  <2>3. \/ rpart = "ct" /\ rpart' = "mac" /\ rframe' = rframe /\ buf' = buf
        \/ rpart = "mac" /\ rpart' = "ct" /\ rframe' = rframe + 1
    <3>1. MaxRetries \in Nat /\ MaxRetries > 0
      BY SocketsAssumption
    <3>4. rretries # MaxRetries
      BY <2>2, <3>1
    <3>2. CASE rpart = "ct"
      <4>1. rpart' = "mac" /\ UNCHANGED <<rframe, buf>>
        BY <1>7, <3>2, <3>4 DEF RecvReturns
      <4> QED  BY <3>2, <4>1
    <3>3. CASE rpart = "mac"
      <4>1. CallReturns(Verified)
        BY <1>7, <3>3, <3>4 DEF RecvReturns
      <4> QED  BY <3>3, <4>1 DEF CallReturns
    <3> QED  BY <2>2, <3>2, <3>3 DEF Parts
  <2>4. After(rframe, rpart, received) = After(rframe', rpart', received')
    BY <2>1, <2>2, <2>3, NextPart
  <2>5. InOrder'
    BY <2>1, <2>2, <2>4 DEF InOrder
  <2>6. Places'
    <3>1. Receiving' => received' <= PartLen(rframe', rpart')
      <4>1. rpart' \in Parts
        BY <2>3 DEF Parts
      <4> QED  BY <2>1, <4>1, PartLenType DEF Receiving
    <3>2. ~Receiving' => rpart' = "ct"
      BY <2>2, <2>3 DEF Receiving
    <3> QED  BY <2>1, <2>2, <3>1, <3>2 DEF Places, Sending
  <2>7. Faithful'
    BY <2>1, <2>2, <2>3 DEF Faithful
  <2> QED  BY <2>5, <2>6, <2>7 DEF StreamInv
<1>8. CASE UNCHANGED vars
  BY <1>8 DEF vars, StreamInv, Places, InOrder, Faithful, Sending, Receiving,
              sender, receiver
<1> QED
  BY <1>1, <1>2, <1>3, <1>4, <1>5, <1>6, <1>7, <1>8 DEF Next, SendStep, RecvStep

LEMMA AppendResult ==
  ASSUME NEW s \in Seq(BOOLEAN), NEW x \in BOOLEAN
  PROVE  /\ Append(s, x) \in Seq(BOOLEAN)
         /\ Len(Append(s, x)) = Len(s) + 1
         /\ \A i \in 1..Len(s) : Append(s, x)[i] = s[i]
         /\ Append(s, x)[Len(s) + 1] = x
BY AppendProperties

LEMMA AnswerStep ==
  ASSUME TypeInv, StreamInv, AnswerInv, [Next]_vars
  PROVE  AnswerInv'
<1>0. Len(Lengths) \in Nat /\ DOMAIN Lengths = 1..Len(Lengths)
  BY LengthsType
<1>1. ASSUME results' = results, rframe' = rframe,
             link' # link => link' \in {"closed", "ended", "reset", "drained", "broken"},
             link' = "closed" => link \in {"up", "closed"},
             link' = "broken" => link \in {"gone", "broken"},
             link \in {"ended", "reset", "drained"} => link' \in {"ended", "reset", "drained"}
      PROVE  AnswerInv'
  BY <1>1 DEF AnswerInv, Receiving
<1>2. ASSUME NEW n \in Lens, SendBytes(n) \/ RecvBytes(n)
      PROVE  AnswerInv'
  BY <1>1, <1>2 DEF SendBytes, RecvBytes, sender, receiver
<1>3. CASE SendError \/ SendSignals \/ SendReturns \/ SenderCloses \/ SenderEnds
  BY <1>1, <1>3 DEF SendError, SendSignals, SendReturns, SenderCloses, SenderEnds, receiver
<1>4. CASE RecvEnd \/ RecvError
  BY <1>1, <1>4 DEF RecvEnd, RecvError
<1>5. CASE RecvReturns
  <2>1. link' = link /\ link \notin {"gone", "broken"}
    BY <1>5 DEF RecvReturns, AnswerInv
  <2>2. CASE link \in {"ended", "reset", "drained"}
    BY <2>1, <2>2 DEF AnswerInv
  <2>3. CASE link \in {"up", "closed"}
    <3>1. rretries = 0 /\ MaxRetries \in Nat /\ MaxRetries > 0 /\ (rpart = "mac" => Verified)
      BY <1>5, <2>3, PartComplete, SocketsAssumption
    <3>2. \A i \in DOMAIN results : results[i]
      BY <2>3 DEF AnswerInv
    <3>3. CASE results' = results
      BY <2>1, <2>3, <3>2, <3>3 DEF AnswerInv
    <3>4. CASE results' = Append(results, Verified) /\ Verified
      <4>1. results \in Seq(BOOLEAN) /\ Verified \in BOOLEAN
        BY DEF TypeInv, TypeOK, Verified
      <4>5. /\ Append(results, Verified) \in Seq(BOOLEAN)
            /\ Len(Append(results, Verified)) = Len(results) + 1
            /\ \A i \in 1..Len(results) : Append(results, Verified)[i] = results[i]
            /\ Append(results, Verified)[Len(results) + 1] = Verified
        BY <4>1, AppendResult, Zenon
      <4>6. DOMAIN results = 1..Len(results) /\ Len(results) \in Nat
        BY <4>1, LenProperties
      <4>7. DOMAIN Append(results, Verified) = 1..(Len(results) + 1)
        BY <4>5, LenProperties
      <4>2. /\ DOMAIN results' = 1..(Len(results) + 1) /\ DOMAIN results = 1..Len(results)
            /\ Len(results) \in Nat /\ results'[Len(results) + 1] = Verified
            /\ \A i \in 1..Len(results) : results'[i] = results[i]
        BY <3>4, <4>5, <4>6, <4>7
      <4>3. \A i \in DOMAIN results' : i \in DOMAIN results \/ i = Len(results) + 1
        BY <4>2
      <4>4. \A i \in DOMAIN results' : results'[i]
        BY <3>2, <3>4, <4>2, <4>3
      <4> QED  BY <2>1, <2>3, <4>4 DEF AnswerInv
    <3>5. rpart \in Parts
      BY DEF TypeInv, TypeOK
    <3>8. rretries # MaxRetries
      BY <3>1
    <3>6. CASE rpart = "ct"
      <4>1. results' = results
        BY <1>5, <3>6, <3>8 DEF RecvReturns
      <4> QED  BY <3>3, <4>1
    <3>7. CASE rpart = "mac"
      <4>1. CallReturns(Verified)
        BY <1>5, <3>7, <3>8 DEF RecvReturns
      <4> QED  BY <3>1, <3>4, <3>7, <4>1 DEF CallReturns
    <3> QED  BY <3>5, <3>6, <3>7 DEF Parts
  <2> QED  BY <2>1, <2>2, <2>3 DEF TypeInv, TypeOK
<1>6. CASE ReceiverEnds
  <2>1. ~Receiving'
    BY <1>0, <1>6 DEF ReceiverEnds, Receiving
  <2> QED  BY <1>6, <2>1 DEF ReceiverEnds, AnswerInv
<1>7. CASE UNCHANGED vars
  BY <1>1, <1>7 DEF vars, receiver
<1> QED
  BY <1>2, <1>3, <1>4, <1>5, <1>6, <1>7 DEF Next, SendStep, RecvStep

\* Into however many pieces the kernel cuts them, and wherever it cuts, frames
\* arrive as they were sent: a call of recv fails only where the sender's process
\* has ended before its last frame.
THEOREM FramesArrive == Spec => []OnlyAnEndFails
<1>1. TypeInv /\ StreamInv /\ [Next]_vars => StreamInv'
  BY StreamStep
<1>2. TypeInv /\ StreamInv /\ AnswerInv /\ [Next]_vars => AnswerInv'
  BY AnswerStep
<1>3. AnswerInv => OnlyAnEndFails
  BY DEF AnswerInv, OnlyAnEndFails
<1>4. Init => StreamInv /\ AnswerInv
  BY InitStream
<1>5. Spec => []StreamInv
  BY <1>1, <1>4, TypeInvariant, PTL DEF Spec
<1> QED  BY <1>2, <1>3, <1>4, <1>5, TypeInvariant, PTL DEF Spec
=============================================================================
