--------------------------- MODULE HandshakeProofs ---------------------------
(***************************************************************************)
(* Proofs about Handshake, for every set of clients.                       *)
(***************************************************************************)
EXTENDS Handshake, SequenceTheorems, TLAPS

\* The two ends of a connection.
LEMMA PeerIsAnEnd ==
  ASSUME NEW e \in Ends
  PROVE  Peer(e) \in Ends /\ Peer(Peer(e)) = e /\ Peer(e) # e
  BY DEF Ends, Peer

LEMMA SidesOfAnEnd ==
  ASSUME NEW e \in Ends
  PROVE  /\ e[1] \in Clients /\ e[2] \in {"client", "server"}
         /\ Peer(e)[1] = e[1] /\ Peer(e)[2] # e[2] /\ Peer(e)[2] \in {"client", "server"}
         /\ Process(e) \in Clients \cup {Server}
  BY DEF Ends, Peer, Process

(***************************************************************************)
(* Types                                                                   *)
(***************************************************************************)

\* What can be under way to an end.
Fields(e) == [name : {"size"}, value : {"length"}]
             \cup [name : {"pub", "iv"}, value : {Peer(e)}]
             \cup [name : {"ct", "mac"}, value : Keys \X Ivs]

\* The labels at which an end has its key, and those at which it has shared the IV.
HasKey == {"iv", "send_ct", "send_mac", "recv_ct", "recv_mac", "verify", "done"}
HasIv == HasKey \ {"iv"}

ProcType ==
  /\ proc \in [Clients \cup {Server} -> {"up", "threw", "killed", "interrupted"}]
  /\ pc \in [Ends -> Labels]
  /\ down \in [Ends -> {"up", "closed", "reset", "drained"}]

InType == DOMAIN in = Ends /\ \A e \in Ends : in[e] \in Seq(Fields(e))

GotType ==
  /\ DOMAIN got = Ends
  /\ \A e \in Ends :
       /\ DOMAIN got[e] = {"size", "pub", "ct", "mac"}
       /\ got[e].size \in {"length", Unfilled}
       /\ got[e].pub \in {Peer(e), Unfilled}
       /\ got[e].ct \in (Keys \X Ivs) \cup {Unfilled}
       /\ got[e].mac \in (Keys \X Ivs) \cup {Unfilled}

\* A key is made of the keys of both ends.
KeyType ==
  /\ DOMAIN key = Ends /\ DOMAIN iv = Ends
  /\ \A e \in Ends :
       /\ key[e] \in Keys \cup {Unfilled} /\ iv[e] \in Ivs
       /\ key[e] # Unfilled => key[e].secret = {e, Peer(e)}
       /\ pc[e] \in HasKey => key[e] # Unfilled

TypeInv == ProcType /\ InType /\ GotType /\ KeyType

LEMMA TypesAreOK ==
  ASSUME TypeInv
  PROVE  TypeOK
<1> USE DEF TypeInv
<1>1. \A e \in Ends : \A i \in DOMAIN in[e] :
        CASE in[e][i].name = "size" -> in[e][i].value = "length"
          [] in[e][i].name \in {"pub", "iv"} -> in[e][i].value = Peer(e)
          [] in[e][i].name \in {"ct", "mac"} -> in[e][i].value \in Keys \X Ivs
  <2> SUFFICES ASSUME NEW e \in Ends, NEW i \in DOMAIN in[e]
               PROVE  CASE in[e][i].name = "size" -> in[e][i].value = "length"
                        [] in[e][i].name \in {"pub", "iv"} -> in[e][i].value = Peer(e)
                        [] in[e][i].name \in {"ct", "mac"} -> in[e][i].value \in Keys \X Ivs
    OBVIOUS
  <2>1. in[e][i] \in Fields(e)
    BY DEF InType
  <2> QED  BY <2>1 DEF Fields
<1>2. \A e \in Ends :
        /\ key[e] \in Keys \cup {Unfilled} /\ iv[e] \in Ivs
        /\ got[e].size \in {"length", Unfilled} /\ got[e].pub \in Ends \cup {Unfilled}
  BY PeerIsAnEnd DEF GotType, KeyType
<1> QED  BY <1>1, <1>2 DEF TypeOK, ProcType

LEMMA InitType == Init => TypeInv
  BY DEF Init, TypeInv, ProcType, InType, GotType, KeyType, Labels, HasKey, Ivs

\* An end goes on: the others stay where they are.
LEMMA AtType ==
  ASSUME ProcType, NEW e \in Ends, NEW from, NEW to \in Labels, At(e, from, to)
  PROVE  /\ pc' \in [Ends -> Labels] /\ pc[e] = from /\ pc'[e] = to
         /\ \A d \in Ends \ {e} : pc'[d] = pc[d]
  BY DEF ProcType, At

\* What send puts under way, and recv takes from there.
LEMMA SendAdds ==
  ASSUME InType, NEW e \in Ends, NEW from, NEW to, NEW name, NEW value,
         Send(e, from, to, name, value),
         [name |-> name, value |-> value] \in Fields(Peer(e))
  PROVE  /\ InType'
         /\ \A d \in Ends : d # Peer(e) => in'[d] = in[d]
         /\ in'[Peer(e)] = IF Up(Peer(e))
                           THEN Append(in[Peer(e)], [name |-> name, value |-> value])
                           ELSE in[Peer(e)]
<1>1. Peer(e) \in Ends /\ in[Peer(e)] \in Seq(Fields(Peer(e)))
  BY PeerIsAnEnd DEF InType
<1>2. Append(in[Peer(e)], [name |-> name, value |-> value]) \in Seq(Fields(Peer(e)))
  BY <1>1, AppendProperties
<1> QED  BY <1>1, <1>2 DEF InType, Send

LEMMA FilledTakes ==
  ASSUME InType, NEW e \in Ends, NEW name, Filled(e, name)
  PROVE  /\ InType'
         /\ in[e] # <<>> /\ in'[e] = Tail(in[e]) /\ \A d \in Ends : d # e => in'[d] = in[d]
         /\ in[e][1] \in Fields(e) /\ in[e][1].name = name /\ Head(in[e]) = in[e][1]
         /\ 1 \in 1..Len(in[e])
<1>1. in[e] \in Seq(Fields(e)) /\ in[e] # <<>>
  BY DEF InType, Filled
<1>2. /\ Tail(in[e]) \in Seq(Fields(e)) /\ Head(in[e]) \in Fields(e)
      /\ Head(in[e]) = in[e][1] /\ 1 \in 1..Len(in[e])
  BY <1>1, EmptySeq, HeadTailProperties, LenProperties
<1> QED  BY <1>1, <1>2 DEF InType, Filled

LEMMA EndOfType ==
  ASSUME TypeInv, NEW p \in Clients \cup {Server},
         NEW how \in {"threw", "killed", "interrupted"}, EndOf(p, how)
  PROVE  TypeInv'
<1>1. UNCHANGED <<pc, in, got, key, iv>>
  BY DEF EndOf
<1>2. ProcType'
  BY DEF EndOf, TypeInv, ProcType, Closing
<1> QED  BY <1>1, <1>2 DEF TypeInv, InType, GotType, KeyType

\* What a recv into one of the buffers leaves there.
LEMMA RecvType ==
  ASSUME TypeInv, NEW e \in Ends, NEW from, NEW to \in Labels,
         to \in HasKey => from \in HasKey,
         NEW name \in {"size", "pub", "ct", "mac"}, Recv(e, from, to, name)
  PROVE  TypeInv'
<1> USE DEF TypeInv
<1>1. /\ pc' \in [Ends -> Labels] /\ pc[e] = from /\ pc'[e] = to
      /\ \A d \in Ends \ {e} : pc'[d] = pc[d]
  BY AtType DEF Recv
<1>2. UNCHANGED <<proc, key, iv>>
  BY DEF Recv
<1>3. KeyType'
  BY <1>1, <1>2 DEF KeyType
<1>4. CASE Filled(e, name) /\ got' = [got EXCEPT ![e][name] = Head(in[e]).value]
  <2>1. InType' /\ Head(in[e]) \in Fields(e) /\ Head(in[e]).name = name
    BY <1>4, FilledTakes
  <2>2. /\ name = "size" => Head(in[e]).value = "length"
        /\ name = "pub" => Head(in[e]).value = Peer(e)
        /\ name \in {"ct", "mac"} => Head(in[e]).value \in Keys \X Ivs
    BY <2>1 DEF Fields
  <2>3. GotType'
    BY <1>4, <2>2 DEF GotType
  <2>4. ProcType'
    BY <1>1, <1>2, <1>4 DEF ProcType, Filled
  <2> QED  BY <1>3, <2>1, <2>3, <2>4
<1>5. CASE Starved(e) /\ UNCHANGED got
  BY <1>1, <1>2, <1>3, <1>5 DEF Starved, ProcType, InType, GotType
<1> QED  BY <1>4, <1>5 DEF Recv

LEMMA SendType ==
  ASSUME TypeInv, NEW e \in Ends, NEW from, NEW to \in Labels,
         to \in HasKey => from \in HasKey, NEW name, NEW value,
         Send(e, from, to, name, value), key' = key,
         [name |-> name, value |-> value] \in Fields(Peer(e)),
         DOMAIN iv' = Ends, \A d \in Ends : iv'[d] \in Ivs
  PROVE  TypeInv'
<1>1. /\ pc' \in [Ends -> Labels] /\ pc[e] = from /\ pc'[e] = to
      /\ \A d \in Ends \ {e} : pc'[d] = pc[d]
  BY AtType DEF Send, TypeInv
<1>2. InType'
  BY SendAdds DEF TypeInv
<1> QED  BY <1>1, <1>2 DEF TypeInv, ProcType, GotType, KeyType, Send

LEMMA ConfirmationType ==
  ASSUME TypeInv, NEW e \in Ends, pc[e] \in HasKey
  PROVE  Confirmation(e) \in Keys \X Ivs
  BY DEF TypeInv, KeyType, Confirmation

\* No step of an end leaves the typed states ...
LEMMA TypeStepOfEnd ==
  ASSUME TypeInv, NEW e \in Ends, Step(e)
  PROVE  TypeInv'
<1>0. Peer(e) \in Ends /\ Peer(Peer(e)) = e /\ Process(e) \in Clients \cup {Server}
  BY PeerIsAnEnd, SidesOfAnEnd
<1> USE DEF Labels, HasKey
<1>1. CASE SendSize(e) \/ SendPub(e)
  <2>1. /\ [name |-> "size", value |-> "length"] \in Fields(Peer(e))
        /\ [name |-> "pub", value |-> e] \in Fields(Peer(e))
    BY <1>0 DEF Fields
  <2>2. DOMAIN iv = Ends /\ \A d \in Ends : iv[d] \in Ivs
    BY DEF TypeInv, KeyType
  <2>3. CASE SendSize(e)
    BY <2>1, <2>2, <2>3, SendType DEF SendSize
  <2>4. CASE SendPub(e)
    BY <2>1, <2>2, <2>4, SendType DEF SendPub
  <2> QED  BY <1>1, <2>3, <2>4
<1>2. CASE SendCt(e) \/ SendMac(e)
  <2>1. /\ pc[e] \in HasKey
        /\ DOMAIN iv = Ends /\ \A d \in Ends : iv[d] \in Ivs
    BY <1>2 DEF SendCt, SendMac, Send, At, TypeInv, KeyType
  <2>2. /\ [name |-> "ct", value |-> Confirmation(e)] \in Fields(Peer(e))
        /\ [name |-> "mac", value |-> Confirmation(e)] \in Fields(Peer(e))
    BY <2>1, ConfirmationType DEF Fields
  <2>3. CASE SendCt(e)
    BY <2>1, <2>2, <2>3, SendType DEF SendCt
  <2>4. CASE SendMac(e)
    BY <2>1, <2>2, <2>4, SendType DEF SendMac
  <2> QED  BY <1>2, <2>3, <2>4
<1>3. CASE SendIv(e)
  <2>1. [name |-> "iv", value |-> e] \in Fields(Peer(e))
    BY <1>0 DEF Fields
  <2>2. DOMAIN iv' = Ends /\ \A d \in Ends : iv'[d] \in Ivs
    BY <1>3 DEF SendIv, TypeInv, KeyType, Ivs
  <2> QED  BY <1>3, <2>1, <2>2, SendType DEF SendIv
<1>4. CASE RecvSize(e) \/ RecvPub(e) \/ RecvCt(e) \/ RecvMac(e)
  <2>1. CASE RecvSize(e)
    BY <2>1, RecvType DEF RecvSize
  <2>2. CASE RecvPub(e)
    BY <2>2, RecvType DEF RecvPub
  <2>3. CASE RecvCt(e)
    BY <2>3, RecvType DEF RecvCt
  <2>4. CASE RecvMac(e)
    BY <2>4, RecvType DEF RecvMac
  <2> QED  BY <1>4, <2>1, <2>2, <2>3, <2>4
<1>5. CASE RecvIv(e)
  <2>1. /\ pc' \in [Ends -> Labels] /\ pc[e] = "iv" /\ pc'[e] = "send_ct"
        /\ \A d \in Ends \ {e} : pc'[d] = pc[d]
    BY <1>5, AtType DEF RecvIv, TypeInv
  <2>2. InType' /\ ProcType' /\ DOMAIN iv' = Ends /\ \A d \in Ends : iv'[d] \in Ivs
    <3>1. CASE Filled(e, "iv") /\ iv' = [iv EXCEPT ![e] = Head(in[e]).value]
      <4>1. InType' /\ Head(in[e]) \in Fields(e) /\ Head(in[e]).name = "iv"
        BY <3>1, FilledTakes DEF TypeInv
      <4>2. Head(in[e]).value \in Ivs
        BY <1>0, <4>1 DEF Fields, Ivs
      <4> QED  BY <1>5, <2>1, <3>1, <4>1, <4>2 DEF RecvIv, Filled, TypeInv, ProcType, KeyType
    <3>2. CASE Starved(e) /\ UNCHANGED iv
      BY <1>5, <2>1, <3>2 DEF RecvIv, Starved, TypeInv, ProcType, InType, KeyType
    <3> QED  BY <1>5, <3>1, <3>2 DEF RecvIv
  <2> QED  BY <1>5, <2>1, <2>2 DEF RecvIv, TypeInv, GotType, KeyType
<1>6. CASE Agree(e)
  <2>1. /\ pc' \in [Ends -> Labels] /\ pc[e] = "agree" /\ pc'[e] = "iv"
        /\ \A d \in Ends \ {e} : pc'[d] = pc[d]
    BY <1>6, AtType DEF Agree, TypeInv
  <2>2. DeriveKey(e) \in Keys /\ DeriveKey(e).secret = {e, Peer(e)}
    BY <1>0, <1>6 DEF Agree, DeriveKey, Keys, TypeInv, GotType
  <2>3. KeyType'
    BY <1>6, <2>1, <2>2, UnfilledAssumption DEF Agree, TypeInv, KeyType
  <2> QED  BY <1>6, <2>1, <2>3 DEF Agree, TypeInv, ProcType, InType, GotType
<1>7. CASE Verify(e)
  <2>1. /\ pc' \in [Ends -> Labels] /\ pc[e] = "verify" /\ pc'[e] = "done"
        /\ \A d \in Ends \ {e} : pc'[d] = pc[d]
    BY <1>7, AtType DEF Verify, TypeInv
  <2> QED  BY <1>7, <2>1 DEF Verify, TypeInv, ProcType, InType, GotType, KeyType
<1>8. CASE BadSize(e) \/ AgreeThrows(e) \/ VerifyThrows(e)
  BY <1>0, <1>8, EndOfType DEF BadSize, AgreeThrows, VerifyThrows
<1> QED
  BY <1>1, <1>2, <1>3, <1>4, <1>5, <1>6, <1>7, <1>8 DEF Step

\* ... nor does one of the connection or of somebody outside.
LEMMA TypeStep ==
  ASSUME TypeInv, [Next]_vars
  PROVE  TypeInv'
<1>1. ASSUME NEW c \in Clients, Connect(c) \/ ConnectFails(c) \/ Accept(c)
      PROVE  TypeInv'
  <2>1. <<c, "client">> \in Ends /\ <<c, "server">> \in Ends
    BY DEF Ends
  <2>2. PICK e \in Ends, to \in Labels \ HasKey : At(e, "start", to)
    BY <1>1, <2>1 DEF Connect, ConnectFails, Accept, Labels, HasKey
  <2>3. /\ pc' \in [Ends -> Labels] /\ pc'[e] \notin HasKey
        /\ \A d \in Ends \ {e} : pc'[d] = pc[d]
    BY <2>2, AtType DEF TypeInv
  <2>4. UNCHANGED <<proc, in, got, key, iv>>
    BY <1>1 DEF Connect, ConnectFails, Accept
  <2>5. down' \in [Ends -> {"up", "closed", "reset", "drained"}]
    BY <1>1 DEF Connect, ConnectFails, Accept, TypeInv, ProcType
  <2> QED  BY <2>3, <2>4, <2>5 DEF TypeInv, ProcType, InType, GotType, KeyType
<1>2. ASSUME NEW e \in Ends, SendSignals(e)
      PROVE  TypeInv'
  BY <1>2, EndOfType, SidesOfAnEnd DEF SendSignals
<1>3. ASSUME NEW e \in Ends, Lost(e) \/ Torn(e)
      PROVE  TypeInv'
  <2>1. InType'
    BY <1>3, EmptySeq DEF Lost, Torn, TypeInv, InType
  <2> QED  BY <1>3, <2>1 DEF Lost, Torn, TypeInv, ProcType, GotType, KeyType
<1>4. ASSUME NEW p \in Clients \cup {Server}, Interrupt(p)
      PROVE  TypeInv'
  BY <1>4, EndOfType DEF Interrupt
<1>5. CASE UNCHANGED vars
  BY <1>5 DEF vars, TypeInv, ProcType, InType, GotType, KeyType
<1> QED
  BY <1>1, <1>2, <1>3, <1>4, <1>5, TypeStepOfEnd DEF Next, Progress

LEMMA TypeInvariant == Spec => []TypeInv
<1>1. TypeInv /\ [Next]_vars => TypeInv'
  BY TypeStep
<1> QED  BY <1>1, InitType, PTL DEF Spec

\* Nothing an end receives is taken for something else, and no key is derived
\* from what it has not received.
THEOREM TypeCorrect == Spec => []TypeOK
<1>1. TypeInv => TypeOK
  BY TypesAreOK
<1> QED  BY <1>1, TypeInvariant, PTL

(***************************************************************************)
(* Keys                                                                    *)
(***************************************************************************)

\* An end that has shared the IV, and has made this confirmation of it.
ConfirmedBy(e, value) == pc[e] \in HasIv /\ value = Confirmation(e)

\* A confirmation that is under way or was received is the one the other end has.
SecretInv ==
  \A e \in Ends :
    /\ \A i \in 1..Len(in[e]) :
         in[e][i].name \in {"ct", "mac"} => ConfirmedBy(Peer(e), in[e][i].value)
    /\ got[e].ct # Unfilled => ConfirmedBy(Peer(e), got[e].ct)
    /\ got[e].mac # Unfilled => ConfirmedBy(Peer(e), got[e].mac)
    /\ pc[e] = "done" => ConfirmedBy(Peer(e), Confirmation(e))

LEMMA SecretImpliesKeysAgree ==
  ASSUME TypeInv, SecretInv
  PROVE  KeysAgree
<1> SUFFICES ASSUME NEW e \in Ends, pc[e] = "done"
             PROVE  { d \in Ends : key[d] = key[e] /\ iv[d] = iv[e] } = {e, Peer(e)}
  BY DEF KeysAgree
<1>1. key[Peer(e)] = key[e] /\ iv[Peer(e)] = iv[e] /\ Peer(e) \in Ends
  BY PeerIsAnEnd DEF SecretInv, ConfirmedBy, Confirmation
<1>2. key[e] \in Keys /\ key[e].secret = {e, Peer(e)}
  BY DEF TypeInv, KeyType, HasKey
<1>3. ASSUME NEW d \in Ends, key[d] = key[e]
      PROVE  d \in {e, Peer(e)}
  <2>1. key[d].secret = {d, Peer(d)}
    BY <1>2, <1>3, UnfilledAssumption DEF TypeInv, KeyType
  <2> QED  BY <1>2, <1>3, <2>1
<1> QED  BY <1>1, <1>3

LEMMA InitSecret == Init => SecretInv
<1> SUFFICES ASSUME Init, NEW e \in Ends
             PROVE  /\ Len(in[e]) = 0 /\ got[e].ct = Unfilled /\ got[e].mac = Unfilled
                    /\ pc[e] # "done"
  BY DEF SecretInv
<1> QED  BY EmptySeq DEF Init

\* Once an end has shared the IV it goes by the key and the IV it has.
LEMMA ConfirmationStays ==
  ASSUME TypeInv, [Next]_vars, NEW d \in Ends, pc[d] \in HasIv
  PROVE  pc'[d] \in HasIv /\ Confirmation(d)' = Confirmation(d)
<1> SUFFICES pc'[d] \in HasIv /\ key'[d] = key[d] /\ iv'[d] = iv[d]
  BY DEF Confirmation
<1> USE DEF HasKey, HasIv, At, TypeInv, ProcType, KeyType
<1>1. ASSUME NEW e \in Ends, Step(e)
      PROVE  pc'[d] \in HasIv /\ key'[d] = key[d] /\ iv'[d] = iv[d]
  <2>1. CASE SendSize(e) \/ SendPub(e) \/ SendCt(e) \/ SendMac(e) \/ SendIv(e)
    BY <2>1 DEF SendSize, SendPub, SendCt, SendMac, SendIv, Send
  <2>2. CASE RecvSize(e) \/ RecvPub(e) \/ RecvCt(e) \/ RecvMac(e) \/ RecvIv(e)
    BY <2>2 DEF RecvSize, RecvPub, RecvCt, RecvMac, RecvIv, Recv
  <2>3. CASE Agree(e) \/ Verify(e)
    BY <2>3 DEF Agree, Verify
  <2>4. CASE BadSize(e) \/ AgreeThrows(e) \/ VerifyThrows(e)
    BY <2>4 DEF BadSize, AgreeThrows, VerifyThrows, EndOf
  <2> QED  BY <1>1, <2>1, <2>2, <2>3, <2>4 DEF Step
<1>2. ASSUME NEW c \in Clients, Connect(c) \/ ConnectFails(c) \/ Accept(c)
      PROVE  pc'[d] \in HasIv /\ key'[d] = key[d] /\ iv'[d] = iv[d]
  BY <1>2 DEF Connect, ConnectFails, Accept
<1>3. ASSUME NEW e \in Ends, SendSignals(e) \/ Lost(e) \/ Torn(e)
      PROVE  pc'[d] \in HasIv /\ key'[d] = key[d] /\ iv'[d] = iv[d]
  BY <1>3 DEF SendSignals, Lost, Torn, EndOf
<1>4. ASSUME NEW p \in Clients \cup {Server}, Interrupt(p)
      PROVE  pc'[d] \in HasIv /\ key'[d] = key[d] /\ iv'[d] = iv[d]
  BY <1>4 DEF Interrupt, EndOf
<1>5. CASE UNCHANGED vars
  BY <1>5 DEF vars
<1> QED  BY <1>1, <1>2, <1>3, <1>4, <1>5 DEF Next, Progress

\* So it suffices that what is new is confirmed by what is.
LEMMA SecretFrom ==
  ASSUME TypeInv, [Next]_vars,
         \A e \in Ends :
           /\ \A i \in 1..Len(in'[e]) :
                in'[e][i].name \in {"ct", "mac"} => ConfirmedBy(Peer(e), in'[e][i].value)
           /\ got'[e].ct # Unfilled => ConfirmedBy(Peer(e), got'[e].ct)
           /\ got'[e].mac # Unfilled => ConfirmedBy(Peer(e), got'[e].mac)
           /\ pc'[e] = "done" => pc[e] \in HasIv /\ ConfirmedBy(Peer(e), Confirmation(e))
  PROVE  SecretInv'
<1>1. ASSUME NEW d \in Ends, NEW value, ConfirmedBy(d, value)
      PROVE  ConfirmedBy(d, value)'
  BY <1>1, ConfirmationStays DEF ConfirmedBy
<1> SUFFICES ASSUME NEW e \in Ends
             PROVE  /\ \A i \in 1..Len(in'[e]) :
                         in'[e][i].name \in {"ct", "mac"} => ConfirmedBy(Peer(e), in[e][i].value)'
                    /\ got'[e].ct # Unfilled => ConfirmedBy(Peer(e), got[e].ct)'
                    /\ got'[e].mac # Unfilled => ConfirmedBy(Peer(e), got[e].mac)'
                    /\ pc'[e] = "done" => ConfirmedBy(Peer(e), Confirmation(e))'
  BY DEF SecretInv
<1>2. Peer(e) \in Ends
  BY PeerIsAnEnd
<1>3. \A i \in 1..Len(in'[e]) :
        in'[e][i].name \in {"ct", "mac"} => ConfirmedBy(Peer(e), in[e][i].value)'
  BY <1>1, <1>2 DEF ConfirmedBy
<1>4. /\ got'[e].ct # Unfilled => ConfirmedBy(Peer(e), got[e].ct)'
      /\ got'[e].mac # Unfilled => ConfirmedBy(Peer(e), got[e].mac)'
  BY <1>1, <1>2 DEF ConfirmedBy
<1>5. pc'[e] = "done" => ConfirmedBy(Peer(e), Confirmation(e))'
  BY <1>1, <1>2, ConfirmationStays DEF ConfirmedBy
<1> QED  BY <1>3, <1>4, <1>5

LEMMA SecretStep ==
  ASSUME TypeInv, SecretInv, [Next]_vars
  PROVE  SecretInv'
<1> DEFINE Goal == \A d \in Ends :
             /\ \A i \in 1..Len(in'[d]) :
                  in'[d][i].name \in {"ct", "mac"} => ConfirmedBy(Peer(d), in'[d][i].value)
             /\ got'[d].ct # Unfilled => ConfirmedBy(Peer(d), got'[d].ct)
             /\ got'[d].mac # Unfilled => ConfirmedBy(Peer(d), got'[d].mac)
             /\ pc'[d] = "done" => pc[d] \in HasIv /\ ConfirmedBy(Peer(d), Confirmation(d))
<1>1. SUFFICES Goal
  BY SecretFrom
<1>2. ASSUME \A d \in Ends : in'[d] = in[d] \/ Len(in'[d]) = 0, got' = got,
             \A d \in Ends : pc'[d] = "done" => pc[d] = "done"
      PROVE  Goal
  BY <1>2 DEF SecretInv, HasIv, HasKey
<1>3. ASSUME NEW e \in Ends, NEW from, NEW to \in Labels \ {"done"}, NEW name, NEW value,
             Send(e, from, to, name, value),
             [name |-> name, value |-> value] \in Fields(Peer(e)),
             name \in {"ct", "mac"} => ConfirmedBy(e, value)
      PROVE  Goal
  <2>0. Peer(e) \in Ends /\ Peer(Peer(e)) = e /\ in[Peer(e)] \in Seq(Fields(Peer(e)))
    BY PeerIsAnEnd DEF TypeInv, InType
  <2>1. /\ \A d \in Ends : d # Peer(e) => in'[d] = in[d]
        /\ \/ in'[Peer(e)] = in[Peer(e)]
           \/ in'[Peer(e)] = Append(in[Peer(e)], [name |-> name, value |-> value])
    BY <1>3, SendAdds DEF TypeInv
  <2>2. \A i \in 1..Len(in'[Peer(e)]) :
          in'[Peer(e)][i].name \in {"ct", "mac"} => ConfirmedBy(e, in'[Peer(e)][i].value)
    <3>1. CASE in'[Peer(e)] = in[Peer(e)]
      BY <2>0, <3>1 DEF SecretInv
    <3>2. CASE in'[Peer(e)] = Append(in[Peer(e)], [name |-> name, value |-> value])
      <4>1. /\ Len(in'[Peer(e)]) = Len(in[Peer(e)]) + 1 /\ Len(in[Peer(e)]) \in Nat
            /\ in'[Peer(e)][Len(in[Peer(e)]) + 1] = [name |-> name, value |-> value]
            /\ \A i \in 1..Len(in[Peer(e)]) : in'[Peer(e)][i] = in[Peer(e)][i]
        BY <2>0, <3>2, AppendProperties, LenProperties
      <4>2. \A i \in 1..Len(in'[Peer(e)]) : i \in 1..Len(in[Peer(e)]) \/ i = Len(in[Peer(e)]) + 1
        BY <4>1
      <4> QED  BY <1>3, <2>0, <4>1, <4>2 DEF SecretInv
    <3> QED  BY <2>1, <3>1, <3>2
  <2>3. \A d \in Ends : pc'[d] = "done" => pc[d] = "done"
    BY <1>3 DEF Send, At, TypeInv, ProcType
  <2>4. got' = got
    BY <1>3 DEF Send
  <2> QED  BY <2>0, <2>1, <2>2, <2>3, <2>4 DEF SecretInv, HasIv, HasKey
<1>4. ASSUME NEW e \in Ends, NEW name, Filled(e, name)
      PROVE  /\ \A d \in Ends : \A i \in 1..Len(in'[d]) :
                  in'[d][i].name \in {"ct", "mac"} => ConfirmedBy(Peer(d), in'[d][i].value)
             /\ name \in {"ct", "mac"} => ConfirmedBy(Peer(e), Head(in[e]).value)
  <2>1. /\ in[e] \in Seq(Fields(e)) /\ in[e] # <<>>
        /\ in'[e] = Tail(in[e]) /\ \A d \in Ends : d # e => in'[d] = in[d]
        /\ in[e][1].name = name /\ Head(in[e]) = in[e][1] /\ 1 \in 1..Len(in[e])
    BY <1>4, FilledTakes DEF TypeInv, InType
  <2>2. /\ Len(in'[e]) = Len(in[e]) - 1 /\ Len(in[e]) \in Nat
        /\ \A i \in 1..Len(in'[e]) : in'[e][i] = in[e][i + 1]
    BY <2>1, HeadTailProperties, LenProperties
  <2>3. \A i \in 1..Len(in'[e]) : i + 1 \in 1..Len(in[e])
    BY <2>2
  <2>4. ASSUME NEW i \in 1..Len(in'[e]), in'[e][i].name \in {"ct", "mac"}
        PROVE  ConfirmedBy(Peer(e), in'[e][i].value)
    <3>1. in'[e][i] = in[e][i + 1] /\ i + 1 \in 1..Len(in[e])
      BY <2>2, <2>3
    <3> QED  BY <2>4, <3>1 DEF SecretInv
  <2>5. name \in {"ct", "mac"} => ConfirmedBy(Peer(e), Head(in[e]).value)
    BY <2>1 DEF SecretInv
  <2> QED  BY <2>1, <2>4, <2>5 DEF SecretInv
<1>5. ASSUME NEW e \in Ends, NEW from, NEW to \in Labels \ {"done"},
             NEW name \in {"size", "pub", "ct", "mac"}, Recv(e, from, to, name)
      PROVE  Goal
  <2>1. \A d \in Ends : pc'[d] = "done" => pc[d] = "done"
    BY <1>5 DEF Recv, At, TypeInv, ProcType
  <2>2. CASE Filled(e, name) /\ got' = [got EXCEPT ![e][name] = Head(in[e]).value]
    <3>1. /\ \A d \in Ends : d # e => got'[d] = got[d]
          /\ got'[e].ct = IF name = "ct" THEN Head(in[e]).value ELSE got[e].ct
          /\ got'[e].mac = IF name = "mac" THEN Head(in[e]).value ELSE got[e].mac
      BY <2>2 DEF TypeInv, GotType
    <3>2. \A d \in Ends : /\ got'[d].ct # Unfilled => ConfirmedBy(Peer(d), got'[d].ct)
                          /\ got'[d].mac # Unfilled => ConfirmedBy(Peer(d), got'[d].mac)
      BY <1>4, <2>2, <3>1 DEF SecretInv
    <3> QED  BY <1>4, <2>1, <2>2, <3>2 DEF SecretInv, HasIv, HasKey
  <2>3. CASE Starved(e) /\ UNCHANGED got
    BY <1>2, <2>1, <2>3 DEF Starved
  <2> QED  BY <1>5, <2>2, <2>3 DEF Recv
<1>6. ASSUME NEW e \in Ends, Step(e)
      PROVE  Goal
  <2> USE DEF Labels
  <2>1. CASE SendSize(e) \/ SendPub(e) \/ SendIv(e)
    <3>1. /\ [name |-> "size", value |-> "length"] \in Fields(Peer(e))
          /\ [name |-> "pub", value |-> e] \in Fields(Peer(e))
          /\ [name |-> "iv", value |-> e] \in Fields(Peer(e))
      BY PeerIsAnEnd DEF Fields
    <3>2. CASE SendSize(e)
      BY <1>3, <3>1, <3>2 DEF SendSize
    <3>3. CASE SendPub(e)
      BY <1>3, <3>1, <3>3 DEF SendPub
    <3>4. CASE SendIv(e)
      BY <1>3, <3>1, <3>4 DEF SendIv
    <3> QED  BY <2>1, <3>2, <3>3, <3>4
  <2>2. CASE SendCt(e) \/ SendMac(e)
    <3>1. ConfirmedBy(e, Confirmation(e)) /\ pc[e] \in HasKey
      BY <2>2 DEF SendCt, SendMac, Send, At, ConfirmedBy, HasIv, HasKey
    <3>2. /\ [name |-> "ct", value |-> Confirmation(e)] \in Fields(Peer(e))
          /\ [name |-> "mac", value |-> Confirmation(e)] \in Fields(Peer(e))
      BY <3>1, ConfirmationType DEF Fields
    <3>3. CASE SendCt(e)
      BY <1>3, <3>1, <3>2, <3>3 DEF SendCt
    <3>4. CASE SendMac(e)
      BY <1>3, <3>1, <3>2, <3>4 DEF SendMac
    <3> QED  BY <2>2, <3>3, <3>4
  <2>3. CASE RecvSize(e) \/ RecvPub(e) \/ RecvCt(e) \/ RecvMac(e)
    BY <1>5, <2>3 DEF RecvSize, RecvPub, RecvCt, RecvMac
  <2>4. CASE RecvIv(e)
    <3>1. got' = got /\ \A d \in Ends : pc'[d] = "done" => pc[d] = "done"
      BY <2>4 DEF RecvIv, At, TypeInv, ProcType
    <3>2. CASE Filled(e, "iv")
      BY <1>4, <3>1, <3>2 DEF SecretInv, HasIv, HasKey
    <3>3. CASE Starved(e)
      BY <1>2, <3>1, <3>3 DEF Starved
    <3> QED  BY <2>4, <3>2, <3>3 DEF RecvIv
  <2>5. CASE Agree(e)
    BY <1>2, <2>5 DEF Agree, At, TypeInv, ProcType
  <2>6. CASE Verify(e)
    <3>1. /\ UNCHANGED <<in, got>> /\ pc[e] = "verify" /\ Confirms(e)
          /\ \A d \in Ends : d # e => pc'[d] = pc[d]
      BY <2>6 DEF Verify, At, TypeInv, ProcType
    <3>2. Confirmation(e) # Unfilled
      BY <3>1, ConfirmationType, UnfilledAssumption DEF HasKey
    <3>3. ConfirmedBy(Peer(e), Confirmation(e)) /\ pc[e] \in HasIv
      BY <3>1, <3>2 DEF Confirms, SecretInv, HasIv, HasKey
    <3> QED  BY <3>1, <3>3 DEF SecretInv, HasIv, HasKey
  <2>7. CASE BadSize(e) \/ AgreeThrows(e) \/ VerifyThrows(e)
    BY <1>2, <2>7 DEF BadSize, AgreeThrows, VerifyThrows, EndOf
  <2> QED  BY <1>6, <2>1, <2>2, <2>3, <2>4, <2>5, <2>6, <2>7 DEF Step
<1>7. ASSUME NEW c \in Clients, Connect(c) \/ ConnectFails(c) \/ Accept(c)
      PROVE  Goal
  BY <1>2, <1>7 DEF Connect, ConnectFails, Accept, At, TypeInv, ProcType
<1>8. ASSUME NEW e \in Ends, SendSignals(e) \/ Lost(e) \/ Torn(e)
      PROVE  Goal
  <2>1. \A d \in Ends : in'[d] = in[d] \/ Len(in'[d]) = 0
    BY <1>8, EmptySeq DEF SendSignals, Lost, Torn, EndOf, TypeInv, InType
  <2> QED  BY <1>2, <1>8, <2>1 DEF SendSignals, Lost, Torn, EndOf
<1>9. ASSUME NEW p \in Clients \cup {Server}, Interrupt(p)
      PROVE  Goal
  BY <1>2, <1>9 DEF Interrupt, EndOf
<1>10. CASE UNCHANGED vars
  BY <1>2, <1>10 DEF vars
<1> QED  BY <1>6, <1>7, <1>8, <1>9, <1>10 DEF Next, Progress

\* An end whose handshake has returned shares its key and its IV with the other
\* end of its connection and with nobody else, whatever was lost or cut off on
\* the way: nothing but the confirmation of the other end is verified.
THEOREM KeysAreShared == Spec => []KeysAgree
<1>1. TypeInv /\ SecretInv /\ [Next]_vars => SecretInv'
  BY SecretStep
<1>2. TypeInv /\ SecretInv => KeysAgree
  BY SecretImpliesKeysAgree
<1> QED  BY <1>1, <1>2, InitSecret, TypeInvariant, PTL DEF Spec

(***************************************************************************)
(* Who ends whom                                                           *)
(***************************************************************************)

\* What each end sends, in order.
Order(e) == IF e[2] = "client" THEN <<"size", "pub", "ct", "mac">>
                               ELSE <<"size", "pub", "iv", "ct", "mac">>

\* How many of them it has sent at a label, and how many of those of the other
\* end it has received.
SentAt(e, label) ==
  CASE label \in {"start", "refused", "send_size"} -> 0
    [] label = "send_pub" -> 1
    [] label \in {"recv_size", "recv_pub", "agree", "iv"} -> 2
    [] label = "send_ct" -> IF e[2] = "client" THEN 2 ELSE 3
    [] label = "send_mac" -> IF e[2] = "client" THEN 3 ELSE 4
    [] OTHER -> IF e[2] = "client" THEN 4 ELSE 5

TakenAt(e, label) ==
  CASE label \in {"start", "refused", "send_size", "send_pub", "recv_size"} -> 0
    [] label = "recv_pub" -> 1
    [] label \in {"agree", "iv"} -> 2
    [] label \in {"send_ct", "send_mac", "recv_ct"} -> IF e[2] = "client" THEN 3 ELSE 2
    [] label = "recv_mac" -> IF e[2] = "client" THEN 4 ELSE 3
    [] OTHER -> IF e[2] = "client" THEN 5 ELSE 4

Sent(e) == SentAt(e, pc[e])
Taken(e) == TakenAt(e, pc[e])

\* What is under way to an end is what the other end has sent and it has not
\* received yet.
Exact(e) ==
  /\ Len(in[e]) + Taken(e) = Sent(Peer(e))
  /\ \A i \in 1..Len(in[e]) : in[e][i].name = Order(Peer(e))[Taken(e) + i]

\* No buffer it has received into is as it was made.
AllReceived(e) ==
  /\ pc[e] \in {"recv_pub", "agree"} \cup HasKey => got[e].size # Unfilled
  /\ pc[e] \in {"agree"} \cup HasKey => got[e].pub # Unfilled
  /\ pc[e] \in {"recv_mac", "verify", "done"} => got[e].ct # Unfilled
  /\ pc[e] \in {"verify", "done"} => got[e].mac # Unfilled
  /\ pc[e] \in HasIv => iv[e] = <<e[1], "server">>
  /\ key[e] # Unfilled => key[e].tail = "derived"

\* A client that has not been interrupted in its handshake ...
Sane(c) == proc[c] = "up" \/ (proc[c] = "interrupted" /\ pc[<<c, "client">>] = "done")

\* ... has a connection on which nothing is missing.
Undisturbed(c) ==
  /\ \A e \in Ends : e[1] = c => pc[e] # "refused" /\ Exact(e) /\ AllReceived(e)
  /\ down[<<c, "client">>] = "up"
  /\ \/ down[<<c, "server">>] = "up"
     \/ down[<<c, "server">>] = "closed" /\ pc[<<c, "client">>] = "done"

ServedInv ==
  proc[Server] = "up" =>
    \A c \in Clients : proc[c] \in {"up", "interrupted"} /\ (Sane(c) => Undisturbed(c))

BlameInv == OnlyAnEndThrows /\ ServedInv

LEMMA InitBlame == Init => BlameInv
<1> SUFFICES ASSUME Init
             PROVE  BlameInv
  OBVIOUS
<1>1. OnlyAnEndThrows
  BY DEF Init, OnlyAnEndThrows
<1>2. ASSUME NEW e \in Ends
      PROVE  pc[e] # "refused" /\ Exact(e) /\ AllReceived(e) /\ down[e] = "up"
  BY PeerIsAnEnd, EmptySeq
  DEF Init, Exact, AllReceived, Sent, Taken, SentAt, TakenAt, HasKey, HasIv
<1>3. \A c \in Clients : <<c, "client">> \in Ends /\ <<c, "server">> \in Ends
  BY DEF Ends
<1> QED  BY <1>1, <1>2, <1>3 DEF Init, BlameInv, ServedInv, Undisturbed

\* A process that has ended goes nowhere.
LEMMA EndedForGood ==
  ASSUME TypeInv, [Next]_vars, NEW p \in Clients \cup {Server}, proc[p] # "up"
  PROVE  proc'[p] = proc[p] /\ \A e \in Ends : Process(e) = p => pc'[e] = pc[e]
<1> USE DEF TypeInv, ProcType, At, Up
<1>1. ASSUME NEW e \in Ends, Step(e)
      PROVE  proc'[p] = proc[p] /\ \A d \in Ends : Process(d) = p => pc'[d] = pc[d]
  <2>1. CASE SendSize(e) \/ SendPub(e) \/ SendCt(e) \/ SendMac(e) \/ SendIv(e)
    BY <2>1 DEF SendSize, SendPub, SendCt, SendMac, SendIv, Send
  <2>2. CASE RecvSize(e) \/ RecvPub(e) \/ RecvCt(e) \/ RecvMac(e) \/ RecvIv(e)
    BY <2>2 DEF RecvSize, RecvPub, RecvCt, RecvMac, RecvIv, Recv
  <2>3. CASE Agree(e) \/ Verify(e)
    BY <2>3 DEF Agree, Verify
  <2>4. CASE BadSize(e) \/ AgreeThrows(e) \/ VerifyThrows(e)
    BY <2>4 DEF BadSize, AgreeThrows, VerifyThrows, EndOf
  <2> QED  BY <1>1, <2>1, <2>2, <2>3, <2>4 DEF Step
<1>2. ASSUME NEW c \in Clients, Connect(c) \/ ConnectFails(c) \/ Accept(c)
      PROVE  proc'[p] = proc[p] /\ \A d \in Ends : Process(d) = p => pc'[d] = pc[d]
  BY <1>2 DEF Connect, ConnectFails, Accept
<1>3. ASSUME NEW e \in Ends, SendSignals(e) \/ Lost(e) \/ Torn(e)
      PROVE  proc'[p] = proc[p] /\ \A d \in Ends : Process(d) = p => pc'[d] = pc[d]
  BY <1>3 DEF SendSignals, Lost, Torn, EndOf
<1>4. ASSUME NEW q \in Clients \cup {Server}, Interrupt(q)
      PROVE  proc'[p] = proc[p] /\ \A d \in Ends : Process(d) = p => pc'[d] = pc[d]
  BY <1>4 DEF Interrupt, EndOf
<1>5. CASE UNCHANGED vars
  BY <1>5 DEF vars
<1> QED  BY <1>1, <1>2, <1>3, <1>4, <1>5 DEF Next, Progress

\* The connections of the others are not touched.
LEMMA OthersUndisturbed ==
  ASSUME NEW c \in Clients, Undisturbed(c),
         \A e \in Ends : e[1] = c =>
           /\ pc'[e] = pc[e] /\ in'[e] = in[e] /\ down'[e] = down[e]
           /\ got'[e] = got[e] /\ key'[e] = key[e] /\ iv'[e] = iv[e]
  PROVE  Undisturbed(c)'
<1>1. ASSUME NEW e \in Ends, e[1] = c
      PROVE  pc'[e] # "refused" /\ Exact(e)' /\ AllReceived(e)'
  <2>1. Peer(e) \in Ends /\ Peer(e)[1] = c
    BY <1>1, PeerIsAnEnd, SidesOfAnEnd
  <2> QED  BY <1>1, <2>1 DEF Undisturbed, Exact, AllReceived, Sent, Taken
<1>2. <<c, "client">> \in Ends /\ <<c, "server">> \in Ends
  BY DEF Ends
<1> QED  BY <1>1, <1>2 DEF Undisturbed

\* As long as nothing is missing, both processes are there for what is sent ...
LEMMA HeardOut ==
  ASSUME TypeInv, NEW e \in Ends, proc[Server] = "up", Sane(e[1]), Undisturbed(e[1]),
         \/ pc[e] \in {"send_size", "send_pub", "send_ct", "send_mac"}
         \/ pc[e] = "iv" /\ GeneratesIv(e)
  PROVE  Up(Peer(e))
<1> SUFFICES ASSUME ~Up(Peer(e))
             PROVE  FALSE
  OBVIOUS
<1> DEFINE d == Peer(e)
<1>1. /\ d \in Ends /\ Peer(d) = e /\ d[1] = e[1] /\ d[2] # e[2] /\ d[2] \in {"client", "server"}
      /\ e[2] \in {"client", "server"} /\ e[1] \in Clients
  BY PeerIsAnEnd, SidesOfAnEnd
<1>2. d[2] = "client" /\ d = <<e[1], "client">> /\ pc[d] = "done"
  BY <1>1 DEF Up, Process, Sane, Ends
<1>3. Exact(d)
  BY <1>1 DEF Undisturbed
<1>4. in[d] \in Seq(Fields(d)) /\ Len(in[d]) \in Nat
  BY <1>1, LenProperties DEF TypeInv, InType
<1>5. Taken(d) = 5 /\ Sent(e) \in 0..4
  BY <1>1, <1>2 DEF Taken, TakenAt, Sent, SentAt, GeneratesIv
<1> QED  BY <1>1, <1>3, <1>4, <1>5 DEF Exact

\* ... and what is received comes before the connection ends.
LEMMA NotStarved ==
  ASSUME TypeInv, NEW e \in Ends, Undisturbed(e[1]),
         \/ pc[e] \in {"recv_size", "recv_pub", "recv_ct", "recv_mac"}
         \/ pc[e] = "iv" /\ ~GeneratesIv(e)
  PROVE  ~Starved(e)
<1> SUFFICES ASSUME Starved(e)
             PROVE  FALSE
  OBVIOUS
<1> DEFINE d == Peer(e)
<1>1. /\ d \in Ends /\ Peer(d) = e /\ d[1] = e[1] /\ d[2] # e[2] /\ d[2] \in {"client", "server"}
      /\ e[2] \in {"client", "server"} /\ e[1] \in Clients
  BY PeerIsAnEnd, SidesOfAnEnd
<1>2. /\ e[2] = "client" => e = <<e[1], "client">>
      /\ e[2] = "server" => e = <<e[1], "server">> /\ d = <<e[1], "client">>
  BY <1>1 DEF Ends, Peer
<1>3. e[2] = "server" /\ pc[d] = "done" /\ d[2] = "client"
  BY <1>1, <1>2 DEF Starved, Undisturbed
<1>4. Exact(e) /\ Len(in[e]) = 0
  BY EmptySeq DEF Undisturbed, Starved
<1>5. Sent(d) = 4 /\ Taken(e) \in 0..3
  BY <1>1, <1>3 DEF Taken, TakenAt, Sent, SentAt, GeneratesIv
<1> QED  BY <1>1, <1>4, <1>5 DEF Exact

\* A field is sent to where it is the next one ...
LEMMA SendExact ==
  ASSUME TypeInv, NEW e \in Ends, proc[Server] = "up", Sane(e[1]), Undisturbed(e[1]),
         \/ pc[e] \in {"send_size", "send_pub", "send_ct", "send_mac"}
         \/ pc[e] = "iv" /\ GeneratesIv(e),
         NEW to \in Labels \ {"refused"}, NEW name, NEW value, Send(e, pc[e], to, name, value),
         [name |-> name, value |-> value] \in Fields(Peer(e)),
         SentAt(e, to) = Sent(e) + 1, TakenAt(e, to) = Taken(e), Order(e)[Sent(e) + 1] = name,
         key' = key, AllReceived(e)', \A d \in Ends \ {e} : iv'[d] = iv[d],
         pc[e] = "done" => to = "done"
  PROVE  Undisturbed(e[1])'
<1> DEFINE d == Peer(e)
<1>1. /\ d \in Ends /\ Peer(d) = e /\ d # e /\ d[1] = e[1] /\ e[1] \in Clients
  BY PeerIsAnEnd, SidesOfAnEnd
<1>2. /\ pc'[e] = to /\ pc'[d] = pc[d]
      /\ UNCHANGED <<proc, down, got, key>>
  BY <1>1 DEF Send, At, TypeInv, ProcType
<1>3. /\ in[d] \in Seq(Fields(d)) /\ Len(in[d]) \in Nat
      /\ in'[d] = Append(in[d], [name |-> name, value |-> value]) /\ in'[e] = in[e]
  <2>1. Up(d)
    BY HeardOut
  <2>2. in[d] \in Seq(Fields(d)) /\ Len(in[d]) \in Nat
    BY <1>1, LenProperties DEF TypeInv, InType
  <2>3. /\ \A f \in Ends : f # d => in'[f] = in[f]
        /\ in'[d] = IF Up(d) THEN Append(in[d], [name |-> name, value |-> value]) ELSE in[d]
    BY SendAdds DEF TypeInv
  <2> QED  BY <1>1, <2>1, <2>2, <2>3
<1>4. /\ Len(in'[d]) = Len(in[d]) + 1
      /\ in'[d][Len(in[d]) + 1].name = name
      /\ \A i \in 1..Len(in[d]) : in'[d][i] = in[d][i]
  BY <1>3, AppendProperties
<1>5. Exact(d) /\ Exact(e) /\ AllReceived(d)
  BY <1>1 DEF Undisturbed
<1>6. /\ Taken(d)' = Taken(d) /\ Sent(e)' = Sent(e) + 1
      /\ Taken(e)' = Taken(e) /\ Sent(d)' = Sent(d)
  BY <1>2 DEF Taken, Sent
<1>7. Taken(d) \in Nat /\ Sent(e) \in Nat
  BY DEF Taken, TakenAt, Sent, SentAt
<1>8. Exact(d)'
  <2>1. Len(in[d]) + Taken(d) = Sent(e)
    BY <1>1, <1>5 DEF Exact
  <2>2. Len(in'[d]) + Taken(d)' = Sent(e)'
    BY <1>3, <1>4, <1>6, <1>7, <2>1
  <2>3. ASSUME NEW i \in 1..Len(in'[d])
        PROVE  in'[d][i].name = Order(e)[Taken(d) + i]
    <3>1. CASE i \in 1..Len(in[d])
      BY <1>1, <1>4, <1>5, <3>1 DEF Exact
    <3>2. CASE i = Len(in[d]) + 1
      <4>1. Taken(d) + i = Sent(e) + 1
        BY <1>3, <1>7, <2>1, <3>2
      <4> QED  BY <1>4, <3>2, <4>1
    <3> QED  BY <1>3, <1>4, <3>1, <3>2
  <2> QED  BY <1>1, <1>6, <2>2, <2>3 DEF Exact
<1>9. Exact(e)'
  BY <1>1, <1>3, <1>5, <1>6 DEF Exact
<1>10. AllReceived(d)'
  BY <1>1, <1>2, <1>5 DEF AllReceived
<1>11. \A f \in Ends : f[1] = e[1] => f \in {e, d}
  BY DEF Ends, Peer
<1>12. to # "refused" /\ pc[d] # "refused"
  BY <1>1 DEF Undisturbed
<1>13. down' = down /\ (pc[<<e[1], "client">>] = "done" => pc'[<<e[1], "client">>] = "done")
  <2>1. <<e[1], "client">> \in {e, d}
    BY <1>1, <1>11 DEF Ends
  <2> QED  BY <1>2, <2>1
<1> QED  BY <1>2, <1>8, <1>9, <1>10, <1>11, <1>12, <1>13 DEF Undisturbed

\* ... and received where it is the one that was waited for.
LEMMA FilledExact ==
  ASSUME TypeInv, NEW e \in Ends, Undisturbed(e[1]), NEW name, Filled(e, name),
         NEW to \in Labels \ {"refused"}, At(e, pc[e], to), pc[e] # "done",
         SentAt(e, to) = Sent(e), TakenAt(e, to) = Taken(e) + 1,
         key' = key, AllReceived(e)',
         \A d \in Ends \ {e} : iv'[d] = iv[d] /\ got'[d] = got[d]
  PROVE  Undisturbed(e[1])'
<1> DEFINE d == Peer(e)
<1>1. /\ d \in Ends /\ Peer(d) = e /\ d # e /\ d[1] = e[1] /\ e[1] \in Clients
  BY PeerIsAnEnd, SidesOfAnEnd
<1>2. /\ pc'[e] = to /\ pc'[d] = pc[d] /\ down' = down
  BY <1>1 DEF Filled, At, TypeInv, ProcType
<1>3. /\ in[e] \in Seq(Fields(e)) /\ in[e] # <<>> /\ in'[e] = Tail(in[e]) /\ in'[d] = in[d]
      /\ Len(in[e]) \in Nat
  BY <1>1, LenProperties, FilledTakes DEF TypeInv, InType
<1>4. /\ Len(in'[e]) = Len(in[e]) - 1
      /\ \A i \in 1..Len(in'[e]) : in'[e][i] = in[e][i + 1]
  BY <1>3, HeadTailProperties
<1>5. Exact(d) /\ Exact(e) /\ AllReceived(d)
  BY <1>1 DEF Undisturbed
<1>6. /\ Taken(d)' = Taken(d) /\ Sent(e)' = Sent(e)
      /\ Taken(e)' = Taken(e) + 1 /\ Sent(d)' = Sent(d)
  BY <1>2 DEF Taken, Sent
<1>7. Taken(e) \in Nat /\ Sent(d) \in Nat
  BY DEF Taken, TakenAt, Sent, SentAt
<1>8. Exact(e)'
  <2>1. Len(in[e]) + Taken(e) = Sent(d)
    BY <1>5 DEF Exact
  <2>2. Len(in'[e]) + Taken(e)' = Sent(d)'
    BY <1>3, <1>4, <1>6, <1>7, <2>1
  <2>3. ASSUME NEW i \in 1..Len(in'[e])
        PROVE  in'[e][i].name = Order(d)[Taken(e) + 1 + i]
    <3>1. i + 1 \in 1..Len(in[e]) /\ Taken(e) + (i + 1) = Taken(e) + 1 + i
      BY <1>3, <1>4, <1>7
    <3> QED  BY <1>4, <1>5, <3>1 DEF Exact
  <2> QED  BY <1>6, <2>2, <2>3 DEF Exact
<1>9. Exact(d)'
  BY <1>1, <1>3, <1>5, <1>6 DEF Exact
<1>10. AllReceived(d)'
  BY <1>1, <1>2, <1>5 DEF AllReceived
<1>11. \A f \in Ends : f[1] = e[1] => f \in {e, d}
  BY DEF Ends, Peer
<1>12. pc[d] # "refused"
  BY <1>1 DEF Undisturbed
<1>13. pc[<<e[1], "client">>] = "done" => pc'[<<e[1], "client">>] = "done"
  <2>1. <<e[1], "client">> \in {e, d}
    BY <1>1, <1>11 DEF Ends
  <2> QED  BY <1>2, <2>1
<1> QED  BY <1>2, <1>8, <1>9, <1>10, <1>11, <1>12, <1>13 DEF Undisturbed

\* A step in which nothing is sent or received.
LEMMA AloneExact ==
  ASSUME TypeInv, NEW e \in Ends, Undisturbed(e[1]),
         NEW to \in Labels \ {"refused"}, At(e, pc[e], to), pc[e] # "done",
         SentAt(e, to) = Sent(e), TakenAt(e, to) = Taken(e),
         in' = in, got' = got, iv' = iv, \A d \in Ends \ {e} : key'[d] = key[d],
         AllReceived(e)',
         \A d \in Ends : d[1] = e[1] => down'[d] = down[d]
  PROVE  Undisturbed(e[1])'
<1> DEFINE d == Peer(e)
<1>1. /\ d \in Ends /\ Peer(d) = e /\ d # e /\ d[1] = e[1] /\ e[1] \in Clients
  BY PeerIsAnEnd, SidesOfAnEnd
<1>2. /\ pc'[e] = to /\ pc'[d] = pc[d]
  BY <1>1 DEF At, TypeInv, ProcType
<1>5. Exact(d) /\ Exact(e) /\ AllReceived(d)
  BY <1>1 DEF Undisturbed
<1>6. /\ Taken(d)' = Taken(d) /\ Sent(e)' = Sent(e)
      /\ Taken(e)' = Taken(e) /\ Sent(d)' = Sent(d)
  BY <1>2 DEF Taken, Sent
<1>8. Exact(e)' /\ Exact(d)'
  BY <1>1, <1>5, <1>6 DEF Exact
<1>10. AllReceived(d)'
  BY <1>1, <1>2, <1>5 DEF AllReceived
<1>11. \A f \in Ends : f[1] = e[1] => f \in {e, d}
  BY DEF Ends, Peer
<1>12. pc[d] # "refused"
  BY <1>1 DEF Undisturbed
<1>13. /\ <<e[1], "client">> \in {e, d} /\ <<e[1], "client">> \in Ends
       /\ <<e[1], "server">> \in Ends
  BY <1>1, <1>11 DEF Ends
<1> QED  BY <1>2, <1>8, <1>10, <1>11, <1>12, <1>13 DEF Undisturbed

\* Where nothing is missing no end of the connection throws or is killed.
LEMMA NobodyThrows ==
  ASSUME TypeInv, SecretInv, NEW e \in Ends, proc[Server] = "up",
         Sane(e[1]), Undisturbed(e[1])
  PROVE  ~(SendSignals(e) \/ BadSize(e) \/ AgreeThrows(e) \/ VerifyThrows(e))
<1> DEFINE d == Peer(e)
<1>1. /\ d \in Ends /\ Peer(d) = e /\ d[1] = e[1] /\ e[1] \in Clients
  BY PeerIsAnEnd, SidesOfAnEnd
<1>2. AllReceived(e) /\ AllReceived(d)
  BY <1>1 DEF Undisturbed
<1>3. ~SendSignals(e)
  BY HeardOut DEF SendSignals
<1>4. ~BadSize(e) /\ ~AgreeThrows(e)
  BY <1>2 DEF BadSize, AgreeThrows, AllReceived
<1>5. ASSUME pc[e] = "verify"
      PROVE  Confirms(e)
  <2>1. /\ got[e].ct = Confirmation(d) /\ got[e].mac = Confirmation(d) /\ pc[d] \in HasIv
    BY <1>2, <1>5 DEF AllReceived, SecretInv, ConfirmedBy
  <2>2. iv[e] = iv[d]
    BY <1>1, <1>2, <1>5, <2>1 DEF AllReceived, HasIv, HasKey
  <2>3. /\ key[e] \in Keys /\ key[d] \in Keys /\ key[e].secret = key[d].secret
        /\ key[e].tail = "derived" /\ key[d].tail = "derived"
    <3>1. pc[e] \in HasKey /\ pc[d] \in HasKey
      BY <1>5, <2>1 DEF HasIv, HasKey
    <3>2. key[e] # Unfilled /\ key[d] # Unfilled /\ key[e] \in Keys /\ key[d] \in Keys
      BY <1>1, <3>1 DEF TypeInv, KeyType
    <3>3. key[e].secret = {e, d} /\ key[d].secret = {d, e}
      BY <1>1, <3>2 DEF TypeInv, KeyType
    <3> QED  BY <1>2, <3>2, <3>3 DEF AllReceived
  <2>4. key[e] = key[d]
    BY <2>3 DEF Keys
  <2> QED  BY <2>1, <2>2, <2>4 DEF Confirms, Confirmation
<1> QED  BY <1>3, <1>4, <1>5 DEF VerifyThrows

\* A step of an end of an undisturbed connection leaves it undisturbed.
LEMMA OwnUndisturbed ==
  ASSUME BlockLen = KeyLen, TypeInv, SecretInv, NEW e \in Ends, proc[Server] = "up",
         Sane(e[1]), Undisturbed(e[1]), Step(e)
  PROVE  Undisturbed(e[1])'
<1>0. /\ e[2] \in {"client", "server"} /\ Peer(e) \in Ends
      /\ AllReceived(e) /\ (e[2] = "server" => e = <<e[1], "server">>)
      /\ (e[2] = "client" => Peer(e) = <<e[1], "server">>)
  BY PeerIsAnEnd, SidesOfAnEnd DEF Undisturbed, Ends, Peer
<1>1. CASE SendSize(e) \/ SendPub(e)
  <2>1. /\ [name |-> "size", value |-> "length"] \in Fields(Peer(e))
        /\ [name |-> "pub", value |-> e] \in Fields(Peer(e))
    BY PeerIsAnEnd DEF Fields
  <2>2. CASE SendSize(e)
    <3>1. /\ Send(e, pc[e], "send_pub", "size", "length") /\ pc[e] = "send_size"
          /\ pc'[e] = "send_pub" /\ UNCHANGED <<got, key, iv>>
      BY <2>2 DEF SendSize, Send, At, TypeInv, ProcType
    <3>2. AllReceived(e)'
      BY <1>0, <3>1 DEF AllReceived, HasKey, HasIv
    <3>3. /\ SentAt(e, "send_pub") = Sent(e) + 1 /\ TakenAt(e, "send_pub") = Taken(e)
          /\ Order(e)[Sent(e) + 1] = "size"
      BY <1>0, <3>1 DEF SentAt, TakenAt, Sent, Taken, Order
    <3> QED  BY <2>1, <3>1, <3>2, <3>3, SendExact DEF Labels
  <2>3. CASE SendPub(e)
    <3>1. /\ Send(e, pc[e], "recv_size", "pub", e) /\ pc[e] = "send_pub"
          /\ pc'[e] = "recv_size" /\ UNCHANGED <<got, key, iv>>
      BY <2>3 DEF SendPub, Send, At, TypeInv, ProcType
    <3>2. AllReceived(e)'
      BY <1>0, <3>1 DEF AllReceived, HasKey, HasIv
    <3>3. /\ SentAt(e, "recv_size") = Sent(e) + 1 /\ TakenAt(e, "recv_size") = Taken(e)
          /\ Order(e)[Sent(e) + 1] = "pub"
      BY <1>0, <3>1 DEF SentAt, TakenAt, Sent, Taken, Order
    <3> QED  BY <2>1, <3>1, <3>2, <3>3, SendExact DEF Labels
  <2> QED  BY <1>1, <2>2, <2>3
<1>2. CASE SendIv(e)
  <2>1. /\ Send(e, pc[e], "send_ct", "iv", e) /\ pc[e] = "iv" /\ GeneratesIv(e)
        /\ pc'[e] = "send_ct" /\ UNCHANGED <<got, key>> /\ iv' = [iv EXCEPT ![e] = e]
    BY <1>2 DEF SendIv, Send, At, TypeInv, ProcType
  <2>2. iv'[e] = e /\ e = <<e[1], "server">> /\ e[2] = "server"
    BY <1>0, <2>1 DEF GeneratesIv, TypeInv, KeyType
  <2>3. AllReceived(e)'
    BY <1>0, <2>1, <2>2 DEF AllReceived, HasKey, HasIv
  <2>4. /\ SentAt(e, "send_ct") = Sent(e) + 1 /\ TakenAt(e, "send_ct") = Taken(e)
        /\ Order(e)[Sent(e) + 1] = "iv"
    BY <2>1, <2>2 DEF SentAt, TakenAt, Sent, Taken, Order
  <2>5. /\ [name |-> "iv", value |-> e] \in Fields(Peer(e))
        /\ \A d \in Ends \ {e} : iv'[d] = iv[d]
    BY <2>1, PeerIsAnEnd DEF Fields, TypeInv, KeyType
  <2> QED  BY <2>1, <2>3, <2>4, <2>5, SendExact DEF Labels
<1>3. CASE SendCt(e) \/ SendMac(e)
  <2>1. /\ [name |-> "ct", value |-> Confirmation(e)] \in Fields(Peer(e))
        /\ [name |-> "mac", value |-> Confirmation(e)] \in Fields(Peer(e))
    <3>1. pc[e] \in HasKey
      BY <1>3 DEF SendCt, SendMac, Send, At, HasKey
    <3> QED  BY <3>1, ConfirmationType DEF Fields
  <2>2. CASE SendCt(e)
    <3>1. /\ Send(e, pc[e], "send_mac", "ct", Confirmation(e)) /\ pc[e] = "send_ct"
          /\ pc'[e] = "send_mac" /\ UNCHANGED <<got, key, iv>>
      BY <2>2 DEF SendCt, Send, At, TypeInv, ProcType
    <3>2. AllReceived(e)'
      BY <1>0, <3>1 DEF AllReceived, HasKey, HasIv
    <3>3. /\ SentAt(e, "send_mac") = Sent(e) + 1 /\ TakenAt(e, "send_mac") = Taken(e)
          /\ Order(e)[Sent(e) + 1] = "ct"
      BY <1>0, <3>1 DEF SentAt, TakenAt, Sent, Taken, Order
    <3> QED  BY <2>1, <3>1, <3>2, <3>3, SendExact DEF Labels
  <2>3. CASE SendMac(e)
    <3>1. /\ Send(e, pc[e], "recv_ct", "mac", Confirmation(e)) /\ pc[e] = "send_mac"
          /\ pc'[e] = "recv_ct" /\ UNCHANGED <<got, key, iv>>
      BY <2>3 DEF SendMac, Send, At, TypeInv, ProcType
    <3>2. AllReceived(e)'
      BY <1>0, <3>1 DEF AllReceived, HasKey, HasIv
    <3>3. /\ SentAt(e, "recv_ct") = Sent(e) + 1 /\ TakenAt(e, "recv_ct") = Taken(e)
          /\ Order(e)[Sent(e) + 1] = "mac"
      BY <1>0, <3>1 DEF SentAt, TakenAt, Sent, Taken, Order
    <3> QED  BY <2>1, <3>1, <3>2, <3>3, SendExact DEF Labels
  <2> QED  BY <1>3, <2>2, <2>3
<1>4. ASSUME NEW to \in Labels \ {"refused"}, NEW name \in {"size", "pub", "ct", "mac"},
             Recv(e, pc[e], to, name),
             <<pc[e], to, name>> \in {<<"recv_size", "recv_pub", "size">>,
                                      <<"recv_pub", "agree", "pub">>,
                                      <<"recv_ct", "recv_mac", "ct">>,
                                      <<"recv_mac", "verify", "mac">>}
      PROVE  Undisturbed(e[1])'
  <2>1. ~Starved(e)
    BY <1>4, NotStarved
  <2>2. /\ Filled(e, name) /\ got' = [got EXCEPT ![e][name] = Head(in[e]).value]
        /\ UNCHANGED <<proc, key, iv>> /\ At(e, pc[e], to) /\ pc'[e] = to
    BY <1>4, <2>1 DEF Recv, At, TypeInv, ProcType
  <2>3. Head(in[e]) \in Fields(e) /\ Head(in[e]).name = name
    BY <2>2, FilledTakes DEF TypeInv
  <2>4. Head(in[e]).value # Unfilled
    BY <1>0, <1>4, <2>3, UnfilledAssumption DEF Fields
  <2>5. /\ \A d \in Ends \ {e} : got'[d] = got[d]
        /\ \A n \in {"size", "pub", "ct", "mac"} :
             got'[e][n] = IF n = name THEN Head(in[e]).value ELSE got[e][n]
    BY <2>2 DEF TypeInv, GotType
  <2>6. AllReceived(e)'
    BY <1>0, <1>4, <2>2, <2>4, <2>5 DEF AllReceived, HasKey, HasIv
  <2>7. SentAt(e, to) = Sent(e) /\ TakenAt(e, to) = Taken(e) + 1
    BY <1>0, <1>4 DEF SentAt, TakenAt, Sent, Taken
  <2> QED  BY <1>4, <2>2, <2>5, <2>6, <2>7, FilledExact
<1>5. CASE RecvSize(e) \/ RecvPub(e) \/ RecvCt(e) \/ RecvMac(e)
  <2> USE DEF Labels
  <2>1. CASE RecvSize(e)
    <3>1. pc[e] = "recv_size"
      BY <2>1 DEF RecvSize, Recv, At
    <3> QED  BY <1>4, <2>1, <3>1 DEF RecvSize
  <2>2. CASE RecvPub(e)
    <3>1. pc[e] = "recv_pub"
      BY <2>2 DEF RecvPub, Recv, At
    <3> QED  BY <1>4, <2>2, <3>1 DEF RecvPub
  <2>3. CASE RecvCt(e)
    <3>1. pc[e] = "recv_ct"
      BY <2>3 DEF RecvCt, Recv, At
    <3> QED  BY <1>4, <2>3, <3>1 DEF RecvCt
  <2>4. CASE RecvMac(e)
    <3>1. pc[e] = "recv_mac"
      BY <2>4 DEF RecvMac, Recv, At
    <3> QED  BY <1>4, <2>4, <3>1 DEF RecvMac
  <2> QED  BY <1>5, <2>1, <2>2, <2>3, <2>4
<1>6. CASE RecvIv(e)
  <2>1. pc[e] = "iv" /\ ~GeneratesIv(e) /\ ~Starved(e)
    BY <1>6, NotStarved DEF RecvIv, At
  <2>2. /\ Filled(e, "iv") /\ iv' = [iv EXCEPT ![e] = Head(in[e]).value]
        /\ UNCHANGED <<proc, key, got>> /\ At(e, pc[e], "send_ct") /\ pc'[e] = "send_ct"
    BY <1>6, <2>1 DEF RecvIv, At, TypeInv, ProcType
  <2>3. Head(in[e]) \in Fields(e) /\ Head(in[e]).name = "iv"
    BY <2>2, FilledTakes DEF TypeInv
  <2>4. e[2] = "client" /\ Head(in[e]).value = <<e[1], "server">>
    BY <1>0, <2>1, <2>3 DEF Fields, GeneratesIv
  <2>5. iv'[e] = <<e[1], "server">> /\ \A d \in Ends \ {e} : iv'[d] = iv[d]
    BY <2>2, <2>4 DEF TypeInv, KeyType
  <2>6. AllReceived(e)'
    BY <1>0, <2>1, <2>2, <2>5 DEF AllReceived, HasKey, HasIv
  <2>7. SentAt(e, "send_ct") = Sent(e) /\ TakenAt(e, "send_ct") = Taken(e) + 1
    BY <2>1, <2>4 DEF SentAt, TakenAt, Sent, Taken
  <2> QED  BY <2>1, <2>2, <2>5, <2>6, <2>7, FilledExact DEF Labels
<1>7. CASE Agree(e)
  <2>1. /\ pc[e] = "agree" /\ At(e, pc[e], "iv") /\ pc'[e] = "iv"
        /\ UNCHANGED <<proc, in, down, got, iv>> /\ key' = [key EXCEPT ![e] = DeriveKey(e)]
    BY <1>7 DEF Agree, At, TypeInv, ProcType
  <2>2. key'[e].tail = "derived" /\ \A d \in Ends \ {e} : key'[d] = key[d]
    BY <2>1, HandshakeAssumption DEF DeriveKey, TypeInv, KeyType
  <2>3. AllReceived(e)'
    BY <1>0, <2>1, <2>2 DEF AllReceived, HasKey, HasIv
  <2>4. SentAt(e, "iv") = Sent(e) /\ TakenAt(e, "iv") = Taken(e)
    BY <2>1 DEF SentAt, TakenAt, Sent, Taken
  <2> QED  BY <2>1, <2>2, <2>3, <2>4, AloneExact DEF Labels
<1>8. CASE Verify(e)
  <2>1. /\ pc[e] = "verify" /\ At(e, pc[e], "done") /\ pc'[e] = "done"
        /\ UNCHANGED <<proc, in, down, got, iv, key>>
    BY <1>8 DEF Verify, At, TypeInv, ProcType
  <2>2. AllReceived(e)'
    BY <1>0, <2>1 DEF AllReceived, HasKey, HasIv
  <2>3. SentAt(e, "done") = Sent(e) /\ TakenAt(e, "done") = Taken(e)
    BY <1>0, <2>1 DEF SentAt, TakenAt, Sent, Taken
  <2> QED  BY <2>1, <2>2, <2>3, AloneExact DEF Labels
<1> QED
  BY <1>1, <1>2, <1>3, <1>5, <1>6, <1>7, <1>8, NobodyThrows DEF Step

\* A step of an end, or of the connection, concerns no other connection.
Elsewhere(c) ==
  \A d \in Ends : d[1] # c =>
    /\ pc'[d] = pc[d] /\ in'[d] = in[d] /\ down'[d] = down[d]
    /\ got'[d] = got[d] /\ key'[d] = key[d] /\ iv'[d] = iv[d]

LEMMA OneConnection ==
  ASSUME TypeInv, NEW e \in Ends, proc' = proc,
         \/ Step(e) /\ ~(BadSize(e) \/ AgreeThrows(e) \/ VerifyThrows(e))
         \/ Lost(e) \/ Torn(e)
         \/ Connect(e[1]) \/ ConnectFails(e[1]) \/ Accept(e[1])
  PROVE  Elsewhere(e[1])
<1> SUFFICES ASSUME NEW d \in Ends, d[1] # e[1]
             PROVE  /\ pc'[d] = pc[d] /\ in'[d] = in[d] /\ down'[d] = down[d]
                    /\ got'[d] = got[d] /\ key'[d] = key[d] /\ iv'[d] = iv[d]
  BY DEF Elsewhere
<1>0. d # e /\ d # Peer(e) /\ d # <<e[1], "client">> /\ d # <<e[1], "server">>
  BY SidesOfAnEnd
<1> USE <1>0 DEF TypeInv, ProcType, InType, GotType, KeyType, At
<1>1. CASE SendSize(e) \/ SendPub(e) \/ SendCt(e) \/ SendMac(e) \/ SendIv(e)
  BY <1>1 DEF SendSize, SendPub, SendCt, SendMac, SendIv, Send
<1>2. CASE RecvSize(e) \/ RecvPub(e) \/ RecvCt(e) \/ RecvMac(e) \/ RecvIv(e)
  BY <1>2 DEF RecvSize, RecvPub, RecvCt, RecvMac, RecvIv, Recv, Filled, Starved
<1>3. CASE Agree(e) \/ Verify(e)
  BY <1>3 DEF Agree, Verify
<1>4. CASE Lost(e) \/ Torn(e)
  BY <1>4 DEF Lost, Torn
<1>5. CASE Connect(e[1]) \/ ConnectFails(e[1]) \/ Accept(e[1])
  BY <1>5 DEF Connect, ConnectFails, Accept
<1> QED  BY <1>1, <1>2, <1>3, <1>4, <1>5 DEF Step

\* The two ends of a client's connection are ends.
LEMMA EndsOfAClient ==
  ASSUME NEW c \in Clients
  PROVE  /\ <<c, "client">> \in Ends /\ <<c, "server">> \in Ends
         /\ Process(<<c, "client">>) = c /\ Process(<<c, "server">>) = Server
         /\ Peer(<<c, "client">>) = <<c, "server">> /\ Peer(<<c, "server">>) = <<c, "client">>
  BY DEF Ends, Process, Peer

\* A step in which no process ends, and by which an undisturbed connection stays
\* undisturbed.
LEMMA NobodyEnds ==
  ASSUME TypeInv, BlameInv, [Next]_vars, proc[Server] = "up", proc' = proc,
         NEW c \in Clients, Elsewhere(c),
         Sane(c) => Undisturbed(c)'
  PROVE  BlameInv'
<1>1. ASSUME NEW d \in Clients, Sane(d)'
      PROVE  Sane(d)
  <2>1. CASE proc[d] = "up"
    BY <2>1 DEF Sane
  <2>2. CASE proc[d] # "up"
    BY <1>1, <2>2, EndedForGood, EndsOfAClient DEF Sane
  <2> QED  BY <2>1, <2>2
<1>2. ASSUME NEW d \in Clients, Sane(d), d # c
      PROVE  Undisturbed(d)'
  <2>1. Undisturbed(d)
    BY <1>2 DEF BlameInv, ServedInv
  <2>2. \A e \in Ends : e[1] = d =>
          /\ pc'[e] = pc[e] /\ in'[e] = in[e] /\ down'[e] = down[e]
          /\ got'[e] = got[e] /\ key'[e] = key[e] /\ iv'[e] = iv[e]
    BY <1>2 DEF Elsewhere
  <2> QED  BY <2>1, <2>2, OthersUndisturbed
<1>3. ServedInv'
  BY <1>1, <1>2 DEF BlameInv, ServedInv
<1>4. OnlyAnEndThrows'
  BY DEF BlameInv, ServedInv, OnlyAnEndThrows
<1> QED  BY <1>3, <1>4 DEF BlameInv

\* The server's process is ended by an end of a connection that was disturbed.
LEMMA ServerBlamesClient ==
  ASSUME TypeInv, BlameInv, proc[Server] = "up", NEW e \in Ends, Up(e), ~Sane(e[1]),
         NEW how \in {"threw", "killed"}, EndOf(Process(e), how)
  PROVE  BlameInv'
<1>1. e[1] \in Clients /\ proc[e[1]] = "interrupted" /\ pc[<<e[1], "client">>] # "done"
  BY SidesOfAnEnd DEF BlameInv, ServedInv, Sane
<1>2. Process(e) = Server /\ e[1] # Server
  BY <1>1, HandshakeAssumption DEF Up, Process
<1>3. proc'[Server] = how /\ proc'[e[1]] = "interrupted" /\ pc' = pc
  BY <1>1, <1>2 DEF EndOf, TypeInv, ProcType
<1> QED  BY <1>1, <1>3 DEF BlameInv, OnlyAnEndThrows, ServedInv

\* A client is interrupted, or the server.
LEMMA InterruptBlame ==
  ASSUME TypeInv, BlameInv, proc[Server] = "up", NEW p \in Clients \cup {Server}, Interrupt(p)
  PROVE  BlameInv'
<1>1. CASE p = Server
  <2>1. proc'[Server] = "interrupted"
    BY <1>1 DEF Interrupt, EndOf, TypeInv, ProcType
  <2> QED  BY <2>1 DEF BlameInv, OnlyAnEndThrows, ServedInv
<1>2. CASE p \in Clients
  <2>1. /\ p # Server /\ proc[p] = "up" /\ proc' = [proc EXCEPT ![p] = "interrupted"]
        /\ UNCHANGED <<pc, in, got, key, iv>>
    BY <1>2, HandshakeAssumption DEF Interrupt, EndOf
  <2>2. /\ proc'[Server] = "up" /\ proc'[p] = "interrupted"
        /\ \A d \in Clients : d # p => proc'[d] = proc[d]
    BY <2>1 DEF TypeInv, ProcType
  <2>3. \A e \in Ends : down'[e] = IF Process(Peer(e)) = p /\ pc[e] # "start" /\ down[e] = "up"
                                   THEN Closing(e) ELSE down[e]
    BY <1>2 DEF Interrupt, EndOf
  <2>4. ASSUME NEW d \in Clients, Sane(d)'
        PROVE  Undisturbed(d)'
    <3>1. Sane(d) /\ Undisturbed(d)
      BY <2>1, <2>2, <2>4 DEF Sane, BlameInv, ServedInv
    <3>2. CASE d # p
      <4>1. \A e \in Ends : e[1] = d => down'[e] = down[e]
        BY <2>1, <2>3, <3>2, SidesOfAnEnd DEF Process
      <4> QED  BY <2>1, <3>1, <4>1, OthersUndisturbed
    <3>3. CASE d = p
      <4> DEFINE C == <<d, "client">>
                 S == <<d, "server">>
      <4>1. /\ C \in Ends /\ S \in Ends /\ Process(C) = d /\ Process(S) = Server
            /\ Peer(C) = S /\ Peer(S) = C
        BY EndsOfAClient
      <4>2. pc[C] = "done"
        BY <2>1, <2>2, <2>4, <3>3 DEF Sane
      <4>3. down'[C] = "up"
        BY <2>1, <2>3, <3>1, <4>1 DEF Undisturbed
      <4>4. Exact(C) /\ in[C] \in Seq(Fields(C)) /\ Len(in[C]) \in Nat
        BY <3>1, <4>1, LenProperties DEF Undisturbed, TypeInv, InType
      <4>5. Taken(C) = 5 /\ Sent(S) \in 0..5
        BY <4>2 DEF Taken, TakenAt, Sent, SentAt
      <4>6. Len(in[C]) = 0 /\ Sent(S) = 5
        <5>1. Len(in[C]) + Taken(C) = Sent(S)
          BY <4>1, <4>4 DEF Exact
        <5> QED  BY <4>4, <4>5, <5>1
      <4>7. in[C] = <<>> /\ pc[S] # "start"
        BY <4>4, <4>6, EmptySeq DEF Sent, SentAt
      <4>8. Closing(S) = "closed"
        BY <4>1, <4>7 DEF Closing
      <4>9. down'[S] = "closed"
        BY <2>3, <3>1, <3>3, <4>1, <4>7, <4>8 DEF Undisturbed
      <4>10. ASSUME NEW e \in Ends, e[1] = d
             PROVE  pc'[e] # "refused" /\ Exact(e)' /\ AllReceived(e)'
        BY <2>1, <3>1, <4>10 DEF Undisturbed, Exact, AllReceived, Sent, Taken
      <4> QED  BY <2>1, <4>2, <4>3, <4>9, <4>10 DEF Undisturbed
    <3> QED  BY <3>2, <3>3
  <2>5. ServedInv'
    BY <2>2, <2>4 DEF BlameInv, ServedInv
  <2>6. OnlyAnEndThrows'
    BY <2>2, <2>5 DEF OnlyAnEndThrows, ServedInv
  <2> QED  BY <2>5, <2>6 DEF BlameInv
<1> QED  BY <1>1, <1>2

LEMMA BlameStep ==
  ASSUME BlockLen = KeyLen, TypeInv, SecretInv, BlameInv, [Next]_vars
  PROVE  BlameInv'
<1>1. CASE proc[Server] # "up"
  <2>1. proc'[Server] = proc[Server]
    BY <1>1, EndedForGood
  <2>2. ASSUME NEW c \in Clients, proc[c] = "interrupted", pc[<<c, "client">>] # "done"
        PROVE  proc'[c] = "interrupted" /\ pc'[<<c, "client">>] # "done"
    BY <2>2, EndedForGood, EndsOfAClient
  <2> QED  BY <1>1, <2>1, <2>2 DEF BlameInv, OnlyAnEndThrows, ServedInv
<1> SUFFICES ASSUME proc[Server] = "up"
             PROVE  BlameInv'
  BY <1>1
<1>2. ASSUME NEW e \in Ends, SendSignals(e) \/ BadSize(e) \/ AgreeThrows(e) \/ VerifyThrows(e)
      PROVE  BlameInv'
  <2>1. ~Sane(e[1])
    BY <1>2, NobodyThrows, SidesOfAnEnd DEF BlameInv, ServedInv
  <2> QED  BY <1>2, <2>1, ServerBlamesClient
           DEF SendSignals, BadSize, AgreeThrows, VerifyThrows
<1>3. ASSUME NEW e \in Ends, Step(e), ~(BadSize(e) \/ AgreeThrows(e) \/ VerifyThrows(e))
      PROVE  BlameInv'
  <2>1. proc' = proc
    BY <1>3 DEF Step, SendSize, SendPub, SendCt, SendMac, SendIv, Send, RecvSize, RecvPub,
                RecvCt, RecvMac, RecvIv, Recv, Agree, Verify
  <2>2. Elsewhere(e[1]) /\ e[1] \in Clients
    BY <1>3, <2>1, OneConnection, SidesOfAnEnd
  <2>3. Sane(e[1]) => Undisturbed(e[1])'
    BY <1>3, <2>2, OwnUndisturbed DEF BlameInv, ServedInv
  <2> QED  BY <2>1, <2>2, <2>3, NobodyEnds
<1>4. ASSUME NEW e \in Ends, Lost(e) \/ Torn(e)
      PROVE  BlameInv'
  <2>1. proc' = proc /\ down[e] = "reset"
    BY <1>4 DEF Lost, Torn
  <2>2. Elsewhere(e[1]) /\ e[1] \in Clients
    BY <1>4, <2>1, OneConnection, SidesOfAnEnd
  <2>3. ~Sane(e[1])
    <3>1. e \in {<<e[1], "client">>, <<e[1], "server">>}
      BY DEF Ends
    <3>2. ~Undisturbed(e[1])
      BY <2>1, <3>1 DEF Undisturbed
    <3> QED  BY <2>2, <3>2 DEF BlameInv, ServedInv
  <2> QED  BY <2>1, <2>2, <2>3, NobodyEnds
<1>5. ASSUME NEW c \in Clients, Connect(c) \/ ConnectFails(c) \/ Accept(c)
      PROVE  BlameInv'
  <2> DEFINE C == <<c, "client">>
             S == <<c, "server">>
  <2>1. proc' = proc /\ ~ConnectFails(c)
    BY <1>5 DEF Connect, ConnectFails, Accept
  <2>2. C \in Ends /\ S \in Ends /\ C[1] = c /\ S[1] = c /\ C[2] = "client" /\ S[2] = "server"
    BY EndsOfAClient
  <2>3. Elsewhere(c)
    <3>1. Elsewhere(C[1])
      BY <1>5, <2>1, <2>2, OneConnection
    <3> QED  BY <3>1
  <2>4. ASSUME Sane(c)
        PROVE  Undisturbed(c)'
    <3>1. Undisturbed(c)
      BY <2>4 DEF BlameInv, ServedInv
    <3>2. CASE Connect(c)
      <4>1. /\ At(C, pc[C], "send_size") /\ pc[C] = "start" /\ pc'[C] = "send_size"
            /\ UNCHANGED <<proc, in, down, got, key, iv>>
        BY <2>2, <3>2 DEF Connect, At, TypeInv, ProcType
      <4>2. SentAt(C, "send_size") = Sent(C) /\ TakenAt(C, "send_size") = Taken(C)
        BY <4>1 DEF SentAt, TakenAt, Sent, Taken
      <4>3. AllReceived(C)'
        BY <2>2, <3>1, <4>1 DEF Undisturbed, AllReceived, HasKey, HasIv
      <4> HIDE DEF C
      <4> QED  BY <2>2, <3>1, <4>1, <4>2, <4>3, AloneExact DEF Labels
    <3>3. CASE Accept(c)
      <4>1. /\ At(S, pc[S], "send_size") /\ pc[S] = "start" /\ pc'[S] = "send_size"
            /\ UNCHANGED <<proc, in, got, key, iv>>
            /\ down' = [down EXCEPT ![S] = IF proc[c] = "up" THEN "up" ELSE "closed"]
        BY <2>2, <3>3 DEF Accept, At, TypeInv, ProcType
      <4>2. SentAt(S, "send_size") = Sent(S) /\ TakenAt(S, "send_size") = Taken(S)
        BY <4>1 DEF SentAt, TakenAt, Sent, Taken
      <4>3. AllReceived(S)'
        BY <2>2, <3>1, <4>1 DEF Undisturbed, AllReceived, HasKey, HasIv
      <4>4. proc[c] = "up" /\ pc[C] # "done"
        <5>1. Exact(C) /\ in[C] \in Seq(Fields(C)) /\ Len(in[C]) \in Nat
          BY <2>2, <3>1, LenProperties DEF Undisturbed, TypeInv, InType
        <5>2. Sent(S) = 0 /\ Peer(C) = S
          BY <4>1, EndsOfAClient DEF Sent, SentAt
        <5>3. pc[C] = "done" => Taken(C) = 5
          BY DEF Taken, TakenAt
        <5>4. pc[C] # "done"
          BY <5>1, <5>2, <5>3 DEF Exact
        <5> QED  BY <2>4, <5>4 DEF Sane
      <4>5. down[S] = "up"
        BY <3>1, <4>4 DEF Undisturbed
      <4>6. down' = down
        BY <4>1, <4>4, <4>5 DEF TypeInv, ProcType
      <4> HIDE DEF S
      <4> QED  BY <2>2, <3>1, <4>1, <4>2, <4>3, <4>6, AloneExact DEF Labels
    <3> QED  BY <1>5, <2>1, <3>2, <3>3
  <2> QED  BY <2>1, <2>3, <2>4, NobodyEnds
<1>6. ASSUME NEW p \in Clients \cup {Server}, Interrupt(p)
      PROVE  BlameInv'
  BY <1>6, InterruptBlame
<1>7. CASE UNCHANGED vars
  <2>1. proc' = proc /\ \A c \in Clients : Elsewhere(c) /\ (Undisturbed(c) => Undisturbed(c)')
    BY <1>7, OthersUndisturbed DEF vars, Elsewhere
  <2>2. CASE Clients = {}
    BY <2>1, <2>2 DEF BlameInv, OnlyAnEndThrows, ServedInv
  <2>3. ASSUME NEW c \in Clients
        PROVE  BlameInv'
    BY <2>1, <2>3, NobodyEnds DEF BlameInv, ServedInv
  <2> QED  BY <2>2, <2>3
<1> QED  BY <1>2, <1>3, <1>4, <1>5, <1>6, <1>7 DEF Next, Progress, Step

\* A handshake throws, or a process gets a signal in it, only where the other
\* process was ended in the middle of it: the server's by an interrupted client,
\* a client's after the server's.  A build whose blocks are as long as the key
\* is assumed, since the rest of the key is otherwise what each end had there.
THEOREM EndsAreBlamed ==
  ASSUME BlockLen = KeyLen
  PROVE  Spec => []OnlyAnEndThrows
<1>1. TypeInv /\ SecretInv /\ BlameInv /\ [Next]_vars => BlameInv'
  BY BlameStep
<1>2. BlameInv => OnlyAnEndThrows
  BY DEF BlameInv
<1>3. Spec => []SecretInv
  <2>1. TypeInv /\ SecretInv /\ [Next]_vars => SecretInv'
    BY SecretStep
  <2> QED  BY <2>1, InitSecret, TypeInvariant, PTL DEF Spec
<1> QED  BY <1>1, <1>2, <1>3, InitBlame, TypeInvariant, PTL DEF Spec
=============================================================================
