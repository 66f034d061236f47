------------------------------ MODULE SocketIO ------------------------------
(***************************************************************************)
(* One direction of an encrypted connection: the loops of send and recv    *)
(* over what the kernel's send and recv return, and the frames, each a     *)
(* ciphertext and its MAC, that they carry.                                *)
(*                                                                         *)
(* The sender sends frames of the given lengths and closes; the receiver   *)
(* calls recv for the same lengths, and goes on when one of them fails, as *)
(* its callers do.  Either process may end on the way.  A count is a       *)
(* size_t, to which the int that the kernel returns is added.              *)
(***************************************************************************)
EXTENDS Integers, SequencesExt

CONSTANTS
  Lengths,    \* the length of each frame
  MacLen,     \* Crypto::MAC_LEN
  Wrap,       \* the number of values of a size_t
  MaxRetries  \* 10

ASSUME SocketsAssumption ==
  /\ Lengths \in Seq(Nat) /\ MacLen \in Nat \ {0} /\ MaxRetries \in Nat \ {0}
  /\ Wrap \in Nat \ {0} /\ \A i \in DOMAIN Lengths : Lengths[i] + MacLen < Wrap - 1

VARIABLES
  kind,      \* whether the receiver is a "client" or a "server" socket
  wire,      \* the bytes under way
  link,      \* "up", then how it went down: by the sender, "closed" (after the
             \* last frame), "ended" or "reset", and then "drained" once recv has
             \* told so; by the receiver, "gone", then "broken" once send has
  sframe, spart, sent, sretries,      \* the sender: its place and counts
  rframe, rpart, received, rretries,  \* the receiver: its place and counts
  buf,       \* what the receiver's buffers hold
  results    \* what the receiver's calls have returned

sender == <<sframe, spart, sent, sretries>>
receiver == <<rframe, rpart, received, rretries, buf>>
vars == <<kind, wire, link, sender, receiver, results>>

-----------------------------------------------------------------------------
Parts == {"ct", "mac"}
PartLen(frame, part) == IF part = "mac" THEN MacLen ELSE Lengths[frame]

\* The i-th byte of a part of a frame.
Byte(frame, part, i) == <<frame, part, i>>
Content(frame, part) == [i \in 1..PartLen(frame, part) |-> Byte(frame, part, i)]

\* Mutant of Plus: a count is a signed int.
PlusSigned(count, r) == count + r

\* size_t += int
Plus(count, r) == (count + r) % Wrap

Sending == sframe \in DOMAIN Lengths
Receiving == rframe \in DOMAIN Lengths

\* Mutant of RecvLoops: no limit on either side.
RecvLoopsOn == Receiving /\ received < PartLen(rframe, rpart)

\* Each side is in its loop.
SendLoops == Sending /\ sretries < MaxRetries /\ sent < PartLen(sframe, spart)
RecvLoops ==
  /\ Receiving /\ received < PartLen(rframe, rpart)
  /\ kind = "server" => rretries < MaxRetries

Blank == [part \in Parts |-> <<>>]

Init ==
  /\ kind \in {"client", "server"}
  /\ wire = <<>> /\ link = "up"
  /\ sframe = 1 /\ spart = "ct" /\ sent = 0 /\ sretries = 0
  /\ rframe = 1 /\ rpart = "ct" /\ received = 0 /\ rretries = 0
  /\ buf = Blank /\ results = <<>>

-----------------------------------------------------------------------------
(* The sender *)

\* The kernel takes some of the bytes; into the void when the receiver is gone.
SendBytes(n) ==
  /\ SendLoops /\ link \in {"up", "gone"}
  /\ n \in 1..(PartLen(sframe, spart) - sent)
  /\ wire' = IF link = "gone" THEN wire
             ELSE wire \o [i \in 1..n |-> Byte(sframe, spart, sent + i)]
  /\ sent' = Plus(sent, n)
  /\ UNCHANGED <<kind, link, sframe, spart, sretries, receiver, results>>

\* The receiver's end was reset: -1, once.
SendError ==
  /\ SendLoops /\ link = "gone"
  /\ link' = "broken"
  /\ sent' = Plus(sent, -1) /\ sretries' = sretries + 1
  /\ UNCHANGED <<kind, wire, sframe, spart, receiver, results>>

\* A send that the receiver's kernel has refused: SIGPIPE ends the sender.
SendSignals ==
  /\ SendLoops /\ link \in {"gone", "broken"}
  /\ sframe' = Len(Lengths) + 1 /\ link' = "broken"
  /\ UNCHANGED <<kind, wire, spart, sent, sretries, receiver, results>>

\* send returns; the result is not looked at.  The MAC goes after the
\* ciphertext, and the next frame after that.
SendReturns ==
  /\ Sending /\ ~SendLoops
  /\ IF spart = "ct" THEN spart' = "mac" /\ UNCHANGED sframe
     ELSE spart' = "ct" /\ sframe' = sframe + 1
  /\ sent' = 0 /\ sretries' = 0
  /\ UNCHANGED <<kind, wire, link, receiver, results>>

\* The sender closes after the last frame.
SenderCloses ==
  /\ link = "up" /\ ~Sending
  /\ link' = "closed"
  /\ UNCHANGED <<kind, wire, sender, receiver, results>>

\* The sender's process ends; with a reset, which drops what has not left, if
\* there is something that it has not read.
SenderEnds ==
  /\ link = "up" /\ Sending
  /\ \/ link' = "ended" /\ UNCHANGED wire
     \/ link' = "reset" /\ \E n \in 0..Len(wire) : wire' = SubSeq(wire, 1, n)
  /\ sframe' = Len(Lengths) + 1
  /\ UNCHANGED <<kind, spart, sent, sretries, receiver, results>>

-----------------------------------------------------------------------------
(* The receiver *)

\* The buffer, with bytes written from a place on.
Written(buffer, count, bytes) == SubSeq(buffer, 1, count) \o bytes

\* Mutant of RecvBytes: each read starts at the front of the buffer.
RecvRestarts(n) ==
  /\ RecvLoops /\ n \in 1..(PartLen(rframe, rpart) - received) /\ n <= Len(wire)
  /\ buf' = [buf EXCEPT ![rpart] = SubSeq(wire, 1, n)]
  /\ wire' = SubSeq(wire, n + 1, Len(wire))
  /\ received' = Plus(received, n)
  /\ UNCHANGED <<kind, link, sender, rframe, rpart, rretries, results>>

\* The kernel gives some of the bytes that have come.
RecvBytes(n) ==
  /\ RecvLoops /\ n \in 1..(PartLen(rframe, rpart) - received) /\ n <= Len(wire)
  /\ buf' = [buf EXCEPT ![rpart] = Written(@, received, SubSeq(wire, 1, n))]
  /\ wire' = SubSeq(wire, n + 1, Len(wire))
  /\ received' = Plus(received, n)
  /\ UNCHANGED <<kind, link, sender, rframe, rpart, rretries, results>>

\* The end of the stream: 0, every time.
RecvEnd ==
  /\ RecvLoops /\ wire = <<>> /\ link \in {"closed", "ended", "drained"}
  /\ rretries' = IF rretries < MaxRetries THEN rretries + 1 ELSE rretries
  /\ UNCHANGED <<kind, wire, link, sender, rframe, rpart, received, buf, results>>

\* The connection was reset: -1, once.
RecvError ==
  /\ RecvLoops /\ wire = <<>> /\ link = "reset"
  /\ link' = "drained"
  /\ received' = Plus(received, -1) /\ rretries' = rretries + 1
  /\ UNCHANGED <<kind, wire, sender, rframe, rpart, buf, results>>

\* recv of the MAC, and DecryptAndVerify: what was sent is what is verified.
Verified == buf["mac"] = Content(rframe, "mac") /\ buf["ct"] = Content(rframe, "ct")

\* The next call, after one that has returned a result.
CallReturns(result) ==
  /\ results' = Append(results, result)
  /\ rframe' = rframe + 1 /\ rpart' = "ct" /\ buf' = Blank

\* recv returns, and with it the call unless the MAC is still to come.
RecvReturns ==
  /\ Receiving /\ ~RecvLoops
  /\ CASE rretries = MaxRetries -> CallReturns(FALSE)
       [] rretries # MaxRetries /\ rpart = "mac" -> CallReturns(Verified)
       [] rretries # MaxRetries /\ rpart = "ct" ->
            rpart' = "mac" /\ UNCHANGED <<rframe, buf, results>>
  /\ received' = 0 /\ rretries' = 0
  /\ UNCHANGED <<kind, wire, link, sender>>

\* The receiver's process ends.
ReceiverEnds ==
  /\ link = "up" /\ Receiving
  /\ link' = "gone" /\ wire' = <<>>
  /\ rframe' = Len(Lengths) + 1
  /\ UNCHANGED <<kind, sender, rpart, received, rretries, buf, results>>

-----------------------------------------------------------------------------
Lens == 1..(Wrap - 1)

SendStep == (\E n \in Lens : SendBytes(n)) \/ SendError \/ SendSignals \/ SendReturns
RecvStep == (\E n \in Lens : RecvBytes(n)) \/ RecvEnd \/ RecvError \/ RecvReturns

Next == SendStep \/ RecvStep \/ SenderCloses \/ SenderEnds \/ ReceiverEnds

Spec == Init /\ [][Next]_vars

\* Both processes run, and the sender closes in the end.
FairSpec == Spec /\ WF_vars(SendStep) /\ WF_vars(RecvStep) /\ WF_vars(SenderCloses)

-----------------------------------------------------------------------------
(* Properties *)

Bytes == UNION { ToSet(Content(f, part)) : f \in DOMAIN Lengths, part \in Parts }

\* The count of a loop is a size_t whatever was added to it, and that of its retries
\* never passes the limit.
TypeOK ==
  /\ kind \in {"client", "server"}
  /\ wire \in Seq(Bytes)
  /\ link \in {"up", "closed", "ended", "reset", "drained", "gone", "broken"}
  /\ sframe \in 1..(Len(Lengths) + 1) /\ rframe \in 1..(Len(Lengths) + 1)
  /\ spart \in Parts /\ rpart \in Parts
  /\ sent \in 0..(Wrap - 1) /\ received \in 0..(Wrap - 1)
  /\ sretries \in 0..MaxRetries /\ rretries \in 0..MaxRetries
  /\ buf \in [Parts -> Seq(Bytes)] /\ results \in Seq(BOOLEAN)

\* However the bytes are cut into pieces on the way, a frame arrives as it was
\* sent: a call fails only when the sender has ended before its last frame.
OnlyAnEndFails ==
  \A i \in DOMAIN results : results[i] \/ link \in {"ended", "reset", "drained"}

\* A call of recv returns: a server's always, because it gives up, and a
\* client's unless the other side has ended.
RecvReturnsAtLast ==
  \A f \in DOMAIN Lengths :
    rframe = f ~> rframe # f \/ (kind = "client" /\ link \in {"ended", "drained"})

\* AbstSocket: "Receive len bytes from the other side and store in buf".  A recv
\* that returns true has done so.
RecvFills ==
  [][ RecvReturns /\ rretries # MaxRetries => Len(buf[rpart]) = PartLen(rframe, rpart) ]_vars

=============================================================================
