------------------------------ MODULE Handshake ------------------------------
(***************************************************************************)
(* Crypto::handshake, which both ends of a connection run, between clients *)
(* and one server whose accept thread runs it for one connection after the *)
(* other.                                                                  *)
(*                                                                         *)
(* Each end sends the size of its public key and the key, receives those   *)
(* of the other, derives a key from them, shares the server's IV, and      *)
(* sends and verifies a confirmation.  No result of a send or a recv is    *)
(* looked at: a recv that gave up leaves its buffer as it was made.  An    *)
(* exception ends the process on either side, and with the server's        *)
(* process all its connections.                                            *)
(***************************************************************************)
EXTENDS Naturals, SequencesExt

CONSTANTS
  Clients,   \* the clients, each with one connection
  Server,    \* the process of the server
  KeyLen,    \* Crypto::KEY_LEN
  BlockLen,  \* sizeof(CryptoPP::SecByteBlock) in the build
  Unfilled   \* what a buffer holds before anything is received into it

\* A block that is longer than the key would be written past its end.
ASSUME HandshakeAssumption ==
  Server \notin Clients /\ KeyLen \in Nat /\ BlockLen \in 1..KeyLen

Ends == Clients \X {"client", "server"}
Peer(e) == <<e[1], IF e[2] = "client" THEN "server" ELSE "client">>
Process(e) == IF e[2] = "client" THEN e[1] ELSE Server

Keys == [secret : SUBSET Ends, tail : Ends \cup {"derived"}]
Ivs == Ends \cup {Unfilled}

\* What memory holds by chance is nothing an end of a handshake would send.
ASSUME UnfilledAssumption == Unfilled \notin {"length"} \cup Ends \cup Keys \cup (Keys \X Ivs)

VARIABLES
  proc,  \* each process: "up", or how it ended
  pc,    \* where each end is in its handshake
  in,    \* the fields under way to each end
  down,  \* how the connection ended as the end sees it, or "up"
  got,   \* what its receive buffers hold
  key,   \* derived_key
  iv     \* the socket's IV

vars == <<proc, pc, in, down, got, key, iv>>

-----------------------------------------------------------------------------
Up(e) == proc[Process(e)] = "up"

At(e, from, to) == Up(e) /\ pc[e] = from /\ pc' = [pc EXCEPT ![e] = to]

Init ==
  /\ proc = [p \in Clients \cup {Server} |-> "up"]
  /\ pc = [e \in Ends |-> "start"]
  /\ in = [e \in Ends |-> <<>>]
  /\ down = [e \in Ends |-> "up"]
  /\ got = [e \in Ends |-> [name \in {"size", "pub", "ct", "mac"} |-> Unfilled]]
  /\ key = [e \in Ends |-> Unfilled]
  /\ iv = [e \in Ends |-> Unfilled]

\* How the kernel closes the connection of end e when the other process ends:
\* with a reset where that has not accepted it, or not read all that came.
Closing(e) ==
  IF in[Peer(e)] = <<>> /\ (e[2] = "client" => pc[Peer(e)] # "start")
  THEN "closed" ELSE "reset"

\* The process of an end ends, and with it all its connections.
EndOf(p, how) ==
  /\ proc' = [proc EXCEPT ![p] = how]
  /\ down' = [e \in Ends |->
       IF Process(Peer(e)) = p /\ pc[e] # "start" /\ down[e] = "up"
       THEN Closing(e) ELSE down[e]]
  /\ UNCHANGED <<pc, in, got, key, iv>>

-----------------------------------------------------------------------------
(* The connection *)

\* Mutant of GeneratesIv: neither end makes an IV.
GeneratesIvNeither(e) == FALSE

\* gen_iv: the server's socket passes true.
GeneratesIv(e) == e[2] = "server"

\* connect of the client, which the kernel of the server answers.
Connect(c) ==
  /\ At(<<c, "client">>, "start", "send_size")
  /\ proc[Server] = "up"
  /\ UNCHANGED <<proc, in, down, got, key, iv>>

\* The connection is refused: connect prints, and the handshake is left out.
ConnectFails(c) ==
  /\ At(<<c, "client">>, "start", "refused")
  /\ proc[Server] # "up"
  /\ UNCHANGED <<proc, in, down, got, key, iv>>

\* accept, when the handshake of the connection before is over, and the
\* constructor of the socket.
Accept(c) ==
  /\ At(<<c, "server">>, "start", "send_size")
  /\ pc[<<c, "client">>] # "start"
  /\ \A d \in Clients : pc[<<d, "server">>] \in {"start", "done"}
  /\ down' = [down EXCEPT ![<<c, "server">>] =
                IF proc[c] = "up" THEN "up" ELSE "closed"]
  /\ UNCHANGED <<proc, in, got, key, iv>>

\* send: the field goes to the other end, or nowhere once that has ended.
Send(e, from, to, name, value) ==
  /\ At(e, from, to)
  /\ in' = IF Up(Peer(e))
           THEN [in EXCEPT ![Peer(e)] = Append(@, [name |-> name, value |-> value])]
           ELSE in
  /\ UNCHANGED <<proc, down, got>>

\* The other end has refused an earlier send: SIGPIPE.
SendSignals(e) ==
  /\ Up(e) /\ ~Up(Peer(e))
  /\ \/ pc[e] \in {"send_size", "send_pub", "send_ct", "send_mac"}
     \/ pc[e] = "iv" /\ GeneratesIv(e)
  /\ EndOf(Process(e), "killed")

\* recv finds a field, which is the next one the other end has sent.
Filled(e, name) ==
  /\ in[e] # <<>> /\ Head(in[e]).name = name
  /\ in' = [in EXCEPT ![e] = Tail(@)]
  /\ UNCHANGED down

\* recv returns with nothing: on a server's socket at the end of the stream,
\* after its retries, on either one after a reset, which wraps the count.
Starved(e) ==
  /\ in[e] = <<>>
  /\ \/ down[e] = "reset"
     \/ e[2] = "server" /\ down[e] \in {"closed", "drained"}
  /\ down' = [down EXCEPT ![e] = IF @ = "reset" THEN "drained" ELSE @]
  /\ UNCHANGED in

\* A recv into one of the buffers.
Recv(e, from, to, name) ==
  /\ At(e, from, to)
  /\ \/ Filled(e, name) /\ got' = [got EXCEPT ![e][name] = Head(in[e]).value]
     \/ Starved(e) /\ UNCHANGED got
  /\ UNCHANGED <<proc, key, iv>>

\* A reset overtakes what was under way.
Lost(e) ==
  /\ down[e] = "reset" /\ in[e] # <<>>
  /\ in' = [in EXCEPT ![e] = <<>>]
  /\ UNCHANGED <<proc, pc, down, got, key, iv>>

\* A reset in the middle of a field takes a byte back from the count, and a
\* client's recv goes on after it, for ever.
Torn(e) ==
  /\ Up(e) /\ e[2] = "client" /\ down[e] = "reset" /\ in[e] = <<>>
  /\ down' = [down EXCEPT ![e] = "drained"]
  /\ UNCHANGED <<proc, pc, in, got, key, iv>>

-----------------------------------------------------------------------------
(* Crypto::handshake *)

SendSize(e) == Send(e, "send_size", "send_pub", "size", "length") /\ UNCHANGED <<key, iv>>
SendPub(e) == Send(e, "send_pub", "recv_size", "pub", e) /\ UNCHANGED <<key, iv>>

RecvSize(e) == Recv(e, "recv_size", "recv_pub", "size")
RecvPub(e) == Recv(e, "recv_pub", "agree", "pub")

\* A size that was never received is what the memory held: too large to
\* allocate, or that of a key which Agree refuses.
BadSize(e) ==
  /\ Up(e) /\ pc[e] = "recv_pub" /\ got[e].size = Unfilled
  /\ EndOf(Process(e), "threw")

\* Mutant of DeriveKey: the tail of the key is left as the memory was.
DeriveKeyShort(e) == [secret |-> {e, got[e].pub}, tail |-> e]

\* The key both ends can derive, as far as DeriveKey is told to write it.
DeriveKey(e) ==
  [secret |-> {e, got[e].pub}, tail |-> IF BlockLen < KeyLen THEN e ELSE "derived"]

\* Mutant of Agree: the result of the agreement is not looked at.
AgreeUnchecked(e) ==
  /\ At(e, "agree", "iv")
  /\ key' = [key EXCEPT ![e] = DeriveKey(e)]
  /\ UNCHANGED <<proc, in, down, got, iv>>

Agree(e) ==
  /\ At(e, "agree", "iv")
  /\ got[e].pub # Unfilled
  /\ key' = [key EXCEPT ![e] = DeriveKey(e)]
  /\ UNCHANGED <<proc, in, down, got, iv>>

AgreeThrows(e) ==
  /\ Up(e) /\ pc[e] = "agree" /\ got[e].pub = Unfilled
  /\ EndOf(Process(e), "threw")

\* GenerateBlock and send, and SetKeyWithIV.
SendIv(e) ==
  /\ GeneratesIv(e)
  /\ Send(e, "iv", "send_ct", "iv", e)
  /\ iv' = [iv EXCEPT ![e] = e]
  /\ UNCHANGED key

\* recv, and SetKeyWithIV with whatever is then in iv.
RecvIv(e) ==
  /\ ~GeneratesIv(e)
  /\ At(e, "iv", "send_ct")
  /\ \/ Filled(e, "iv") /\ iv' = [iv EXCEPT ![e] = Head(in[e]).value]
     \/ Starved(e) /\ UNCHANGED iv
  /\ UNCHANGED <<proc, got, key>>

\* CONFIRM, encrypted: only who has the key and the IV can make or verify it.
Confirmation(e) == <<key[e], iv[e]>>

SendCt(e) == Send(e, "send_ct", "send_mac", "ct", Confirmation(e)) /\ UNCHANGED <<key, iv>>
SendMac(e) ==
  Send(e, "send_mac", "recv_ct", "mac", Confirmation(e)) /\ UNCHANGED <<key, iv>>

RecvCt(e) == Recv(e, "recv_ct", "recv_mac", "ct")
RecvMac(e) == Recv(e, "recv_mac", "verify", "mac")

\* Mutant of Confirms: the result of DecryptAndVerify is not looked at.
ConfirmsAnything(e) == TRUE

Confirms(e) == got[e].ct = Confirmation(e) /\ got[e].mac = Confirmation(e)

\* handshake returns true.
Verify(e) ==
  /\ At(e, "verify", "done")
  /\ Confirms(e)
  /\ UNCHANGED <<proc, in, down, got, key, iv>>

VerifyThrows(e) ==
  /\ Up(e) /\ pc[e] = "verify" /\ ~Confirms(e)
  /\ EndOf(Process(e), "threw")

-----------------------------------------------------------------------------
\* A process is ended from outside: a client, or the server.
Interrupt(p) ==
  /\ proc[p] = "up"
  /\ EndOf(p, "interrupted")

Step(e) ==
  \/ SendSize(e) \/ SendPub(e) \/ RecvSize(e) \/ RecvPub(e) \/ BadSize(e)
  \/ Agree(e) \/ AgreeThrows(e) \/ SendIv(e) \/ RecvIv(e) \/ SendCt(e) \/ SendMac(e)
  \/ RecvCt(e) \/ RecvMac(e) \/ Verify(e) \/ VerifyThrows(e)

Progress ==
  \/ \E e \in Ends : Step(e)
  \/ \E c \in Clients : Connect(c) \/ ConnectFails(c) \/ Accept(c)

Next ==
  \/ Progress
  \/ \E e \in Ends : SendSignals(e) \/ Lost(e) \/ Torn(e)
  \/ \E p \in Clients \cup {Server} : Interrupt(p)

Spec == Init /\ [][Next]_vars

\* Every thread that can go on does.
FairSpec == Spec /\ WF_vars(Progress)

-----------------------------------------------------------------------------
(* Properties *)

Labels == {"start", "refused", "send_size", "send_pub", "recv_size", "recv_pub", "agree",
           "iv", "send_ct", "send_mac", "recv_ct", "recv_mac", "verify", "done"}

\* No key is derived from what was never received, and none is used before it
\* is derived.
TypeOK ==
  /\ proc \in [Clients \cup {Server} -> {"up", "threw", "killed", "interrupted"}]
  /\ pc \in [Ends -> Labels]
  /\ down \in [Ends -> {"up", "closed", "reset", "drained"}]
  /\ \A e \in Ends :
       /\ key[e] \in Keys \cup {Unfilled} /\ iv[e] \in Ivs
       /\ got[e].size \in {"length", Unfilled} /\ got[e].pub \in Ends \cup {Unfilled}
       /\ \A i \in DOMAIN in[e] :
            CASE in[e][i].name = "size" -> in[e][i].value = "length"
              [] in[e][i].name \in {"pub", "iv"} -> in[e][i].value = Peer(e)
              [] in[e][i].name \in {"ct", "mac"} -> in[e][i].value \in Keys \X Ivs

\* An end whose handshake has returned has a key and an IV that the other end
\* of its connection, and no end of any other, has as well: whatever failed on
\* the way, what it sends from then on can be verified over there.
KeysAgree ==
  \A e \in Ends : pc[e] = "done" =>
    { d \in Ends : key[d] = key[e] /\ iv[d] = iv[e] } = {e, Peer(e)}

\* The exceptions and signals of a handshake are the work of somebody else: the
\* server's process is ended by a client that was interrupted in the middle of
\* its handshake, and a client's only after the server's has ended.
OnlyAnEndThrows ==
  /\ proc[Server] \in {"threw", "killed"} =>
       \E c \in Clients : proc[c] = "interrupted" /\ pc[<<c, "client">>] # "done"
  /\ \A c \in Clients : proc[c] \in {"threw", "killed"} => proc[Server] # "up"

\* Every connection is made and its handshake over at last, on both sides,
\* although the accept thread takes one at a time and looks at no result:
\* unless one of the two processes has ended.
HandshakesEnd ==
  \A c \in Clients :
    <>(\/ pc[<<c, "client">>] = "done" /\ pc[<<c, "server">>] = "done"
       \/ proc[c] # "up" \/ proc[Server] # "up")

=============================================================================
