-------------------------- MODULE IndexSessionProofs --------------------------
(***************************************************************************)
(* Proofs about IndexSession, for every set of runs of the client.         *)
(***************************************************************************)
EXTENDS IndexSession, SequenceTheorems, FiniteSetTheorems, SetInduction, TLAPS

(***************************************************************************)
(* What is under way on a connection                                       *)
(*                                                                         *)
(* The state of one connection, by its values: the run s, the labels c and *)
(* h of the client and of the handler, the frames u and d under way to the *)
(* handler and to the client, and cs and hs that each has still to send.   *)
(***************************************************************************)

\* A client sends its version and its address, and then commands, some with a
\* number.  At a label a handler has taken this many of the frames, since the
\* last command that was answered.
Place(h) ==
  IF h \in {"off", "version"} THEN 0 ELSE IF h \in {"host_len", "rejected"} THEN 1
  ELSE IF h = "host" THEN 2 ELSE IF h = "port" THEN 3 ELSE IF h = "message" THEN 4
  ELSE IF h \in {"add_number", "lookup_number"} THEN 5 ELSE 6

Commands == {ADD, LIST, LOOKUP, DISCONNECT}

\* What the k-th of these frames is.
Fits(s, f, k) ==
  /\ k = 1 => f = Frame("version", Version[s])
  /\ k = 2 => f.tag = "host_len"
  /\ k = 3 => f.tag = "host"
  /\ k = 4 => f.tag = "port"
  /\ k = 5 => \E w \in Commands : f = Command(w)
  /\ k = 6 => f.tag = "number" /\ f.val \in Rfc
  /\ k \in 1..6 /\ (k > 1 => Version[s] = ServerVersion)

\* The frames to the handler are those that come after the ones it has taken.
UpFits(s, h, u, cs) ==
  /\ \A i \in 1..Len(u) : Fits(s, u[i], Place(h) + i)
  /\ \A i \in 1..Len(cs) : Fits(s, cs[i], Place(h) + Len(u) + i)

\* The command that a client waits for an answer to.
CommandOf(c) ==
  IF c \in {"add_code", "got_code"} THEN ADD
  ELSE IF c \in {"list_size", "list_body"} THEN LIST
  ELSE IF c \in {"lookup_size", "lookup_body"} THEN LOOKUP ELSE DISCONNECT

\* A command on its way is the one that the client waits for an answer to; after
\* an end, it is one that takes a number if anything comes behind it.
UpWord(c, h, u, cs) ==
  /\ c # "ended" =>
       /\ \A i \in 1..Len(u) : Place(h) + i = 5 => u[i] = Command(CommandOf(c))
       /\ \A i \in 1..Len(cs) : Place(h) + Len(u) + i = 5 => cs[i] = Command(CommandOf(c))
  /\ \A i \in 1..Len(u) :
       Place(h) + i = 5 /\ i < Len(u) => u[i] \in {Command(ADD), Command(LOOKUP)}

Introducing == {"version", "host_len", "host", "port", "message"}

\* Either the command of a client is under way, or its handler is at work on it,
\* or the answer is: n frames to the handler, and a to the client.
Counts(c, h, n, a) ==
  /\ c = "off" => h = "off" /\ n = 0 /\ a = 0
  /\ c = "version" => \/ h = "off" /\ n = 1 /\ a = 0
                      \/ h = "version" /\ n = 1 /\ a = 1
                      \/ h \in {"host_len", "rejected"} /\ n = 0 /\ a = 1
  /\ c \in {"announce", "prompt", "fetch", "store"} =>
       h \in Introducing /\ Place(h) + n = 4 /\ a = 0
  /\ c \in {"add_code", "got_code"} =>
       \/ h \in Introducing \cup {"add_number"} /\ Place(h) + n = 6 /\ a = 0
       \/ h = "message" /\ n = 0 /\ a = 1
  /\ c = "list_size" => \/ h \in Introducing /\ Place(h) + n = 5 /\ a = 0
                        \/ h \in {"list", "respond"} /\ n = 0 /\ a = 0
                        \/ h = "message" /\ n = 0 /\ a = 2
  /\ c = "lookup_size" =>
       \/ h \in Introducing \cup {"lookup_number"} /\ Place(h) + n = 6 /\ a = 0
       \/ h = "respond" /\ n = 0 /\ a = 0
       \/ h = "message" /\ n = 0 /\ a = 2
  /\ c \in {"list_body", "lookup_body"} => h = "message" /\ n = 0 /\ a = 1
  /\ c = "quit" => /\ a = 0
                   /\ \/ h \in Introducing /\ Place(h) + n = 5
                      \/ h \in {"remove", "leave", "finished"} /\ n = 0

\* A handler that waits for nothing is sent nothing.
Taken(h, u) ==
  /\ h \in {"rejected", "list", "respond", "remove", "leave", "finished"} => Len(u) = 0
  /\ h = "off" => Len(u) <= 1

\* The i-th frame of the answer that a client waits for.
AnswerFits(c, f, i) ==
  /\ c = "version" => f = Frame("version", ServerVersion)
  /\ c \in {"add_code", "got_code"} => f.tag = "code"
  /\ c \in {"list_size", "lookup_size"} => f.tag = IF i = 1 THEN "size" ELSE "body"
  /\ c \in {"list_body", "lookup_body"} => f.tag = "body"

DownFits(c, d, hs) ==
  c # "ended" =>
    /\ \A i \in 1..Len(d) : AnswerFits(c, d[i], i)
    /\ \A i \in 1..Len(hs) : AnswerFits(c, hs[i], Len(d) + i) \/ hs[i] = Null

Conn(s, c, h, u, cs, d, hs) ==
  /\ UpFits(s, h, u, cs) /\ UpWord(c, h, u, cs) /\ DownFits(c, d, hs) /\ Taken(h, u)
  /\ Counts(c, h, Len(u) + Len(cs), Len(d) + Len(hs))
  /\ c = "ended" => Len(cs) = 0 /\ Len(d) = 0
  /\ c \in {"fetch", "store"} => Len(cs) = 0
  /\ c \notin {"off", "version", "ended"} => Version[s] = ServerVersion
  /\ h = "rejected" => Version[s] # ServerVersion

ConnInv ==
  \A s \in Sessions : Conn(s, cpc[s], hpc[s], up[s], cout[s], down[s], hout[s])

(***************************************************************************)
(* What a client is at                                                     *)
(***************************************************************************)

\* The number of a command is the one that the client is about.
WantInv ==
  \A s \in Sessions :
    /\ cpc[s] \in {"lookup_size", "lookup_body", "fetch", "store", "got_code"} => want[s] \in Rfc
    /\ cpc[s] = "add_code" => files[s] # <<>>

\* A handler that has read a DISCONNECT does nothing but remove the client, and
\* has nothing to send to a client that has sent it one.
GoneInv ==
  \A s \in Sessions :
    /\ message[s] = DISCONNECT => hpc[s] \in {"remove", "leave", "finished"}
    /\ message[s] = DISCONNECT \/ (\E i \in 1..Len(up[s]) : up[s][i] = Command(DISCONNECT)) =>
         hout[s] = <<>> /\ cpc[s] \in {"quit", "ended"}

\* A peer that no response can hold comes from a client that has sent a command.
Unlistable == \E s \in Sessions : ~Listable(PeerOf[s]) /\ message[s] # None
PeerInv ==
  /\ \A s \in Sessions : hpc[s] = "add_number" => message[s] # None
  /\ (\E e \in holders : ~Listable(e.peer)) => Unlistable
  /\ \A s \in Sessions : (\E e \in reply[s] : ~Listable(e.peer)) => Unlistable
  /\ \A s \in Sessions : (\E i \in 1..Len(hout[s]) : hout[s][i] = Null) => Unlistable

(***************************************************************************)
(* Values                                                                  *)
(***************************************************************************)

LEMMA WordValues ==
  /\ \A w \in Commands : NtoHL(Command(w).val) = w /\ Command(w).val \in Nat
  /\ \A w \in Words : NtoHL(w) \in Nat /\ NtoHL(NtoHL(w)) = w
  /\ \A v, w \in Commands : Command(v) = Command(w) => v = w
  /\ \A w \in Commands : Command(w).tag = "message" /\ Command(w) # Null
<1>1. /\ \A w \in Words : NtoHL(w) \in Nat /\ NtoHL(NtoHL(w)) = w
      /\ Commands \subseteq Words
  BY DEF Commands, Words, NtoHL, HELLO, ADD, LIST, LOOKUP, DISCONNECT
<1>2. \A w \in Commands : Command(w).val = NtoHL(w)
  BY DEF Command, Frame
<1>3. \A w \in Commands : NtoHL(Command(w).val) = w
  BY <1>1, <1>2
<1>4. \A w \in Commands : Command(w).tag = "message" /\ Command(w) # Null
  BY DEF Command, Frame, Null
<1> QED  BY <1>1, <1>2, <1>3, <1>4

LEMMA SeqFacts ==
  ASSUME NEW S, NEW q \in Seq(S)
  PROVE  Len(q) \in Nat /\ (q = <<>> <=> Len(q) = 0)
BY LenProperties, EmptySeq

LEMMA TailFacts ==
  ASSUME NEW S, NEW q \in Seq(S), q # <<>>
  PROVE  /\ Tail(q) \in Seq(S) /\ Len(Tail(q)) = Len(q) - 1 /\ Len(q) >= 1
         /\ \A i \in 1..(Len(q) - 1) : Tail(q)[i] = q[i + 1]
         /\ Head(q) = q[1] /\ Head(q) \in S
BY HeadTailProperties, LenProperties, EmptySeq

LEMMA AppendFacts ==
  ASSUME NEW S, NEW q \in Seq(S), NEW x \in S
  PROVE  /\ Append(q, x) \in Seq(S) /\ Len(Append(q, x)) = Len(q) + 1
         /\ \A i \in 1..Len(q) : Append(q, x)[i] = q[i]
         /\ Append(q, x)[Len(q) + 1] = x
BY AppendProperties

LEMMA OneOrMore ==
  ASSUME NEW n \in Nat, n >= 1, ~(n >= 2)
  PROVE  n = 1
OBVIOUS

LEMMA OneOfTwo ==
  ASSUME NEW m \in Nat, NEW n \in Nat, m >= 1, m + n \in {0, 1}
  PROVE  m = 1
OBVIOUS

LEMMA FiveOrMore ==
  ASSUME NEW p \in Nat, NEW m \in Nat, NEW n \in Nat, p + m + 1 = 5, n >= 1
  PROVE  p + (m + n) >= 5 /\ m + n >= 1 /\ m + n \in Nat
OBVIOUS

LEMMA BothZero ==
  ASSUME NEW m \in Nat, NEW n \in Nat, m + n = 0
  PROVE  m = 0 /\ n = 0
OBVIOUS

LEMMA NotZero ==
  ASSUME NEW m \in Nat, NEW n \in Nat, m >= 1 \/ n >= 1
  PROVE  m + n # 0
OBVIOUS

LEMMA UpToFour ==
  ASSUME NEW p \in 0..6, NEW m \in Nat, NEW n \in Nat, p + (m + n) = 4, NEW i \in 1..m
  PROVE  p + i \in 1..4
OBVIOUS

LEMMA PlaceType ==
  ASSUME NEW h
  PROVE  Place(h) \in 0..6
BY DEF Place

LEMMA Labels ==
  /\ ClientLabels = {"off", "version", "announce", "add_code", "prompt", "list_size", "list_body",
                     "lookup_size", "lookup_body", "fetch", "store", "got_code", "quit", "ended"}
  /\ HandlerLabels = {"off", "version", "host_len", "host", "port", "message", "add_number",
                      "lookup_number", "rejected", "list", "respond", "remove", "leave", "finished"}
  /\ DOMAIN ClientExpects = {"version", "add_code", "got_code", "list_size", "list_body",
                             "lookup_size", "lookup_body"}
  /\ DOMAIN HandlerExpects = {"version", "host_len", "host", "port", "message", "add_number",
                              "lookup_number"}
BY DEF ClientLabels, HandlerLabels, ClientExpects, HandlerExpects

LEMMA SmallSeqs ==
  /\ Len(<<>>) = 0
  /\ \A x : Len(<<x>>) = 1 /\ <<x>>[1] = x
  /\ \A x, y : Len(<<x, y>>) = 2 /\ <<x, y>>[1] = x /\ <<x, y>>[2] = y
  /\ \A x, y, z : Len(<<x, y, z>>) = 3 /\ <<x, y, z>>[1] = x /\ <<x, y, z>>[2] = y
                  /\ <<x, y, z>>[3] = z
OBVIOUS

(***************************************************************************)
(* What happens to a connection                                            *)
(***************************************************************************)

\* A client sends a frame.
LEMMA ConnSend ==
  ASSUME NEW s, NEW c \in ClientLabels, NEW h \in HandlerLabels,
         NEW u \in Seq(Frames), NEW cs \in Seq(Frames), NEW d \in Seq(Frames),
         NEW hs \in Seq(Frames),
         Conn(s, c, h, u, cs, d, hs), cs # <<>>
  PROVE  Conn(s, c, h, Append(u, Head(cs)), Tail(cs), d, hs)
<1> DEFINE v == Append(u, Head(cs))
           t == Tail(cs)
<1>1. /\ Len(u) \in Nat /\ Len(cs) \in Nat /\ Len(cs) >= 1
      /\ Len(t) = Len(cs) - 1 /\ \A i \in 1..(Len(cs) - 1) : t[i] = cs[i + 1]
      /\ Len(v) = Len(u) + 1 /\ v[Len(u) + 1] = cs[1] /\ \A i \in 1..Len(u) : v[i] = u[i]
  BY SeqFacts, TailFacts, AppendFacts
<1>2. Place(h) \in 0..6
  BY PlaceType
<1>3. /\ UpFits(s, h, u, cs) /\ UpWord(c, h, u, cs) /\ DownFits(c, d, hs)
      /\ Counts(c, h, Len(u) + Len(cs), Len(d) + Len(hs)) /\ c # "ended"
      /\ c \notin {"off", "version", "ended"} => Version[s] = ServerVersion
  BY <1>1 DEF Conn
<1> HIDE DEF v, t
<1>4. UpFits(s, h, v, t)
  <2>1. ASSUME NEW i \in 1..Len(v)
        PROVE  Fits(s, v[i], Place(h) + i)
    <3>1. CASE i \in 1..Len(u)
      BY <1>1, <1>3, <3>1 DEF UpFits
    <3>2. CASE i = Len(u) + 1
      <4>1. Place(h) + Len(u) + 1 = Place(h) + (Len(u) + 1)
        BY <1>1, <1>2
      <4> QED  BY <1>1, <1>3, <3>2, <4>1 DEF UpFits
    <3> QED  BY <1>1, <3>1, <3>2
  <2>2. ASSUME NEW i \in 1..Len(t)
        PROVE  Fits(s, t[i], Place(h) + Len(v) + i)
    <3>2. i \in 1..(Len(cs) - 1) /\ i + 1 \in 1..Len(cs)
      BY <1>1
    <3>4. i \in Nat /\ Len(v) = Len(u) + 1 /\ Len(u) \in Nat /\ Place(h) \in Nat
      BY <1>1, <1>2, <3>2
    <3>3. Place(h) + Len(v) + i = Place(h) + Len(u) + (i + 1)
      BY <3>4
    <3>1. /\ i + 1 \in 1..Len(cs) /\ t[i] = cs[i + 1]
          /\ Place(h) + Len(v) + i = Place(h) + Len(u) + (i + 1)
      BY <1>1, <3>2, <3>3
    <3> QED  BY <1>3, <3>1 DEF UpFits
  <2> QED  BY <2>1, <2>2 DEF UpFits
<1>5. UpWord(c, h, v, t)
  <2>1. ASSUME NEW i \in 1..Len(v), Place(h) + i = 5
        PROVE  v[i] = Command(CommandOf(c))
    <3>1. CASE i \in 1..Len(u)
      BY <1>1, <1>3, <2>1, <3>1 DEF UpWord
    <3>2. CASE i = Len(u) + 1
      <4>1. Place(h) + Len(u) + 1 = 5 /\ 1 \in 1..Len(cs)
        BY <1>1, <1>2, <2>1, <3>2
      <4> QED  BY <1>1, <1>3, <3>2, <4>1 DEF UpWord
    <3> QED  BY <1>1, <3>1, <3>2
  <2>2. ASSUME NEW i \in 1..Len(t), Place(h) + Len(v) + i = 5
        PROVE  t[i] = Command(CommandOf(c))
    <3>2. i \in 1..(Len(cs) - 1) /\ i + 1 \in 1..Len(cs)
      BY <1>1
    <3>3. Place(h) + Len(u) + (i + 1) = 5
      BY <1>1, <1>2, <2>2, SMTT(30)
    <3>1. /\ i + 1 \in 1..Len(cs) /\ t[i] = cs[i + 1] /\ Place(h) + Len(u) + (i + 1) = 5
      BY <1>1, <3>2, <3>3
    <3> QED  BY <1>3, <3>1 DEF UpWord
  <2>3. ASSUME NEW i \in 1..Len(v), Place(h) + i = 5, i < Len(v)
        PROVE  v[i] \in {Command(ADD), Command(LOOKUP)}
    <3>1. Place(h) + (Len(u) + Len(cs)) >= 6
      BY <1>1, <1>2, <2>3
    <3>3. Len(u) + Len(cs) \in Nat /\ Len(u) + Len(cs) >= 1
      BY <1>1
    <3>2. c \in {"add_code", "got_code", "lookup_size"}
      BY <1>2, <1>3, <3>1, <3>3, Labels DEF Counts, Introducing, Place
    <3> QED  BY <1>1, <1>3, <2>1, <2>3, <3>2 DEF CommandOf
  <2> QED  BY <2>1, <2>2, <2>3 DEF UpWord
<1>6. Len(v) + Len(t) = Len(u) + Len(cs) /\ Len(u) + Len(cs) >= 1
  BY <1>1
<1>7. Taken(h, v)
  BY <1>1, <1>3, <1>6, Labels DEF Taken, Counts, Introducing
<1> QED  BY <1>3, <1>4, <1>5, <1>6, <1>7 DEF Conn, v, t

\* A client ends.
LEMMA ConnEnd ==
  ASSUME NEW s, NEW c \in ClientLabels, NEW h \in HandlerLabels,
         NEW u \in Seq(Frames), NEW cs \in Seq(Frames), NEW d \in Seq(Frames),
         NEW hs \in Seq(Frames),
         Conn(s, c, h, u, cs, d, hs)
  PROVE  Conn(s, "ended", h, u, <<>>, <<>>, hs)
BY SmallSeqs DEF Conn, UpFits, UpWord, DownFits, Counts

\* With its client gone a handler may send what it likes, and once it has read
\* everything it may go where it likes.
LEMMA ConnEnded ==
  ASSUME NEW s, NEW h \in HandlerLabels,
         NEW u \in Seq(Frames), NEW cs \in Seq(Frames), NEW d \in Seq(Frames),
         NEW hs \in Seq(Frames), NEW hs2 \in Seq(Frames), NEW h2 \in HandlerLabels,
         Conn(s, "ended", h, u, cs, d, hs), h2 = h \/ (u = <<>> /\ h2 # "rejected")
  PROVE  Conn(s, "ended", h2, u, cs, d, hs2)
<1>1. CASE h2 = h
  BY <1>1 DEF Conn, DownFits, Counts
<1>2. CASE u = <<>> /\ h2 # "rejected"
  BY <1>2, SmallSeqs DEF Conn, UpFits, UpWord, DownFits, Counts, Taken
<1> QED  BY <1>1, <1>2

\* A handler sends a frame.
LEMMA ConnAnswer ==
  ASSUME NEW s, NEW c \in ClientLabels, NEW h \in HandlerLabels,
         NEW u \in Seq(Frames), NEW cs \in Seq(Frames), NEW d \in Seq(Frames),
         NEW hs \in Seq(Frames),
         Conn(s, c, h, u, cs, d, hs), hs # <<>>, Head(hs) # Null, c # "ended"
  PROVE  Conn(s, c, h, u, cs, Append(d, Head(hs)), Tail(hs))
<1> DEFINE v == Append(d, Head(hs))
           t == Tail(hs)
<1>1. /\ Len(d) \in Nat /\ Len(hs) \in Nat /\ Len(hs) >= 1 /\ Head(hs) = hs[1]
      /\ Len(t) = Len(hs) - 1 /\ \A i \in 1..(Len(hs) - 1) : t[i] = hs[i + 1]
      /\ Len(v) = Len(d) + 1 /\ v[Len(d) + 1] = hs[1] /\ \A i \in 1..Len(d) : v[i] = d[i]
  BY SeqFacts, TailFacts, AppendFacts
<1>2. /\ \A i \in 1..Len(d) : AnswerFits(c, d[i], i)
      /\ \A i \in 1..Len(hs) : AnswerFits(c, hs[i], Len(d) + i) \/ hs[i] = Null
  BY DEF Conn, DownFits
<1> HIDE DEF v, t
<1>3. ASSUME NEW i \in 1..Len(v)
      PROVE  AnswerFits(c, v[i], i)
  <2>1. CASE i \in 1..Len(d)
    BY <1>1, <1>2, <2>1
  <2>2. CASE i = Len(d) + 1
    <3>1. 1 \in 1..Len(hs)
      BY <1>1
    <3> QED  BY <1>1, <1>2, <2>2, <3>1
  <2> QED  BY <1>1, <2>1, <2>2
<1>4. ASSUME NEW i \in 1..Len(t)
      PROVE  AnswerFits(c, t[i], Len(v) + i) \/ t[i] = Null
  <2>1. i \in 1..(Len(hs) - 1) /\ i + 1 \in 1..Len(hs)
    BY <1>1
  <2>2. Len(v) + i = Len(d) + (i + 1)
    BY <1>1, <2>1
  <2> QED  BY <1>1, <1>2, <2>1, <2>2
<1>5. DownFits(c, v, t)
  BY <1>3, <1>4 DEF DownFits
<1>6. Len(v) + Len(t) = Len(d) + Len(hs)
  BY <1>1
<1> QED  BY <1>5, <1>6 DEF Conn, v, t

\* A client takes the answer that it waits for, or a part of it.
LEMMA ConnTake ==
  ASSUME NEW s, NEW c \in ClientLabels, NEW h \in HandlerLabels,
         NEW u \in Seq(Frames), NEW d \in Seq(Frames), NEW hs \in Seq(Frames),
         Conn(s, c, h, u, <<>>, d, hs), d # <<>>, NEW c2,
         \/ c \in {"add_code", "got_code", "list_body", "lookup_body"}
              /\ c2 \in {"announce", "prompt", "fetch"}
         \/ c = "list_size" /\ c2 = "list_body"
         \/ c = "lookup_size" /\ c2 = "lookup_body"
  PROVE  Conn(s, c2, h, u, <<>>, Tail(d), hs)
<1> DEFINE t == Tail(d)
<1>1. /\ Len(d) \in Nat /\ Len(d) >= 1 /\ Len(t) = Len(d) - 1 /\ Len(hs) \in Nat
      /\ \A i \in 1..(Len(d) - 1) : t[i] = d[i + 1] /\ Len(u) \in Nat
  BY SeqFacts, TailFacts
<1>2. /\ UpFits(s, h, u, <<>>) /\ UpWord(c, h, u, <<>>) /\ DownFits(c, d, hs) /\ Taken(h, u)
      /\ Counts(c, h, Len(u), Len(d) + Len(hs)) /\ Version[s] = ServerVersion
  BY <1>1, SmallSeqs DEF Conn
<1> HIDE DEF t
<1>3. /\ h = "message" /\ Len(u) = 0
      /\ c \in {"add_code", "got_code", "list_body", "lookup_body"} => Len(d) + Len(hs) = 1
      /\ c \in {"list_size", "lookup_size"} => Len(d) + Len(hs) = 2
  <2>1. Len(d) + Len(hs) >= 1
    BY <1>1
  <2> QED  BY <1>2, <2>1 DEF Counts
<1>4. /\ c \in {"add_code", "got_code", "list_body", "lookup_body"} => Len(t) + Len(hs) = 0
      /\ c \in {"list_size", "lookup_size"} => Len(t) + Len(hs) = 1
  BY <1>1, <1>3
<1>5. Counts(c2, h, Len(u), Len(t) + Len(hs))
  BY <1>3, <1>4 DEF Counts, Introducing, Place
<1>6. DownFits(c2, t, hs)
  <2>1. CASE c \in {"add_code", "got_code", "list_body", "lookup_body"}
    <3>1. Len(t) = 0 /\ Len(hs) = 0
      BY <1>1, <1>4, <2>1
    <3> QED  BY <3>1 DEF DownFits
  <2>2. CASE c \in {"list_size", "lookup_size"}
    <3>1. ASSUME NEW i \in 1..Len(t)
          PROVE  AnswerFits(c2, t[i], i)
      <4>1. i \in 1..(Len(d) - 1) /\ i + 1 \in 1..Len(d) /\ i + 1 # 1
        BY <1>1
      <4> QED  BY <1>1, <1>2, <2>2, <4>1 DEF DownFits, AnswerFits
    <3>2. ASSUME NEW i \in 1..Len(hs)
          PROVE  AnswerFits(c2, hs[i], Len(t) + i) \/ hs[i] = Null
      <4>1. Len(d) + i # 1
        BY <1>1
      <4> QED  BY <1>2, <2>2, <4>1 DEF DownFits, AnswerFits
    <3> QED  BY <3>1, <3>2 DEF DownFits
  <2> QED  BY <2>1, <2>2
<1>7. UpFits(s, h, u, <<>>) /\ UpWord(c2, h, u, <<>>)
  BY <1>2, <1>3, SmallSeqs DEF UpWord
<1> QED  BY <1>1, <1>2, <1>5, <1>6, <1>7, SmallSeqs DEF Conn, t

\* After the version of a server that speaks its own, a client introduces itself.
LEMMA ConnVersion ==
  ASSUME NEW s \in Sessions, NEW h \in HandlerLabels,
         NEW u \in Seq(Frames), NEW d \in Seq(Frames), NEW hs \in Seq(Frames),
         Conn(s, "version", h, u, <<>>, d, hs), d # <<>>, Head(d).val = Version[s]
  PROVE  Conn(s, "announce", h, u,
              <<Frame("host_len", 0), Frame("host", 0), Frame("port", 0)>>, Tail(d), hs)
<1> DEFINE t == Tail(d)
           x == <<Frame("host_len", 0), Frame("host", 0), Frame("port", 0)>>
<1>1. /\ Len(d) \in Nat /\ Len(d) >= 1 /\ Len(t) = Len(d) - 1 /\ Len(hs) \in Nat
      /\ Len(u) \in Nat /\ Head(d) = d[1]
  BY SeqFacts, TailFacts
<1>2. /\ UpFits(s, h, u, <<>>) /\ UpWord("version", h, u, <<>>) /\ DownFits("version", d, hs)
      /\ Taken(h, u) /\ Counts("version", h, Len(u), Len(d) + Len(hs))
      /\ h = "rejected" => Version[s] # ServerVersion
  BY <1>1, SmallSeqs DEF Conn
<1>3. Version[s] = ServerVersion
  <2>1. AnswerFits("version", d[1], 1)
    BY <1>1, <1>2 DEF DownFits
  <2> QED  BY <1>1, <2>1 DEF AnswerFits, Frame
<1>4. /\ Len(x) = 3 /\ x[1].tag = "host_len" /\ x[2].tag = "host" /\ x[3].tag = "port"
      /\ \A i \in 1..Len(x) : i = 1 \/ i = 2 \/ i = 3
  BY SmallSeqs DEF Frame
<1> HIDE DEF t, x
<1>5. Len(t) + Len(hs) = 0 /\ Len(t) = 0 /\ Len(hs) = 0
  <2>1. Len(d) + Len(hs) = 1
    BY <1>1, <1>2 DEF Counts
  <2> QED  BY <1>1, <2>1
<1>6. \/ h = "version" /\ Len(u) = 1
      \/ h = "host_len" /\ Len(u) = 0
  <2>1. \/ h = "off" /\ Len(d) + Len(hs) = 0
        \/ h = "version" /\ Len(u) = 1
        \/ h \in {"host_len", "rejected"} /\ Len(u) = 0
    BY <1>2 DEF Counts
  <2>2. ~(h = "off" /\ Len(d) + Len(hs) = 0)
    BY <1>1
  <2>3. h # "rejected"
    BY <1>2, <1>3
  <2> QED  BY <2>1, <2>2, <2>3
<1>7. Place(h) + Len(u) = 1
  BY <1>6 DEF Place
<1>8. UpFits(s, h, u, x)
  <2>1. ASSUME NEW i \in 1..Len(x)
        PROVE  Fits(s, x[i], Place(h) + Len(u) + i)
    <3>1. Place(h) + Len(u) + i = 1 + i
      BY <1>7
    <3>2. CASE i = 1
      BY <1>3, <1>4, <3>1, <3>2 DEF Fits
    <3>3. CASE i = 2
      BY <1>3, <1>4, <3>1, <3>3 DEF Fits
    <3>4. CASE i = 3
      BY <1>3, <1>4, <3>1, <3>4 DEF Fits
    <3> QED  BY <1>4, <3>2, <3>3, <3>4
  <2> QED  BY <1>2, <2>1 DEF UpFits
<1>9. UpWord("announce", h, u, x)
  <2>4. Place("version") = 0 /\ Place("host_len") = 1
    BY DEF Place
  <2>1. Len(u) \in {0, 1} /\ Place(h) \in {0, 1}
    <3>1. CASE h = "version" /\ Len(u) = 1
      BY <2>4, <3>1
    <3>2. CASE h = "host_len" /\ Len(u) = 0
      BY <2>4, <3>2
    <3> QED  BY <1>6, <3>1, <3>2
  <2>2. ASSUME NEW i \in 1..Len(u)
        PROVE  Place(h) + i # 5
    <3>1. CASE Len(u) = 0
      BY <3>1
    <3>2. CASE Len(u) = 1
      <4>1. i = 1
        BY <3>2
      <4> QED  BY <2>1, <4>1
    <3> QED  BY <2>1, <3>1, <3>2
  <2>3. \A i \in 1..Len(x) : Place(h) + Len(u) + i # 5
    BY <1>4, <1>7
  <2> QED  BY <2>2, <2>3 DEF UpWord
<1>10. Counts("announce", h, Len(u) + Len(x), Len(t) + Len(hs))
  <2>1. Place(h) + (Len(u) + Len(x)) = 4
    BY <1>1, <1>4, <1>7, PlaceType, SMTT(30)
  <2> QED  BY <1>5, <1>6, <2>1 DEF Counts, Introducing
<1>11. DownFits("announce", t, hs)
  BY <1>5 DEF DownFits
<1> QED  BY <1>2, <1>3, <1>8, <1>9, <1>10, <1>11 DEF Conn, t, x

\* Between commands, a client goes on without a word to the server.
LEMMA ConnGo ==
  ASSUME NEW s, NEW c \in {"announce", "prompt", "fetch", "store"}, NEW h \in HandlerLabels,
         NEW c2 \in {"announce", "prompt", "fetch", "store"},
         NEW u \in Seq(Frames), NEW cs \in Seq(Frames), NEW d \in Seq(Frames),
         NEW hs \in Seq(Frames),
         Conn(s, c, h, u, cs, d, hs), c2 \in {"fetch", "store"} => c = "fetch"
  PROVE  Conn(s, c2, h, u, cs, d, hs)
<1>1. UpWord(c2, h, u, cs)
  <2>1. /\ UpWord(c, h, u, cs) /\ Place(h) + (Len(u) + Len(cs)) = 4
        /\ Place(h) \in Nat /\ Len(u) \in Nat /\ Len(cs) \in Nat
    BY PlaceType, SeqFacts DEF Conn, Counts
  <2>2. \A i \in 1..Len(u) : Place(h) + i # 5
    BY <2>1
  <2>3. \A i \in 1..Len(cs) : Place(h) + Len(u) + i # 5
    BY <2>1
  <2> QED  BY <2>1, <2>2, <2>3 DEF UpWord
<1>2. Len(d) = 0 /\ Len(hs) = 0
  <2>1. Len(d) \in Nat /\ Len(hs) \in Nat /\ Len(d) + Len(hs) = 0
    BY SeqFacts DEF Conn, Counts
  <2> QED  BY <2>1
<1>3. DownFits(c2, d, hs)
  BY <1>2 DEF DownFits
<1>4. Counts(c2, h, Len(u) + Len(cs), Len(d) + Len(hs))
  BY DEF Conn, Counts
<1> QED  BY <1>1, <1>3, <1>4 DEF Conn

\* The frames of the command that a client at a label waits for an answer to.
CommandSeq(c, x) ==
  \/ c \in {"list_size", "quit"} /\ x = <<Command(CommandOf(c))>>
  \/ /\ c \in {"add_code", "got_code", "lookup_size"}
     /\ \E n \in Rfc : x = <<Command(CommandOf(c)), Frame("number", n)>>

\* A client gives a command, with a number where it takes one.
LEMMA ConnCommand ==
  ASSUME NEW s, NEW c \in {"announce", "prompt", "store"}, NEW h \in HandlerLabels,
         NEW u \in Seq(Frames), NEW d \in Seq(Frames), NEW hs \in Seq(Frames),
         Conn(s, c, h, u, <<>>, d, hs), NEW c2, NEW x, CommandSeq(c2, x)
  PROVE  Conn(s, c2, h, u, x, d, hs)
<1>0. /\ c2 \in {"add_code", "got_code", "list_size", "lookup_size", "quit"}
      /\ x[1] = Command(CommandOf(c2)) /\ Len(x) \in {1, 2}
      /\ c2 \in {"list_size", "quit"} => Len(x) = 1
      /\ c2 \in {"add_code", "got_code", "lookup_size"} =>
           Len(x) = 2 /\ x[2].tag = "number" /\ x[2].val \in Rfc
  <2>1. CASE c2 \in {"list_size", "quit"} /\ x = <<Command(CommandOf(c2))>>
    BY <2>1, SmallSeqs
  <2>2. ASSUME c2 \in {"add_code", "got_code", "lookup_size"}, NEW n \in Rfc,
               x = <<Command(CommandOf(c2)), Frame("number", n)>>
        PROVE  Len(x) = 2 /\ x[1] = Command(CommandOf(c2)) /\ x[2].tag = "number" /\ x[2].val \in Rfc
    BY <2>2, SmallSeqs DEF Frame
  <2> QED  BY <2>1, <2>2 DEF CommandSeq
<1>1. /\ UpFits(s, h, u, <<>>) /\ UpWord(c, h, u, <<>>) /\ Taken(h, u)
      /\ h \in Introducing /\ Place(h) + Len(u) = 4
      /\ Len(d) + Len(hs) = 0 /\ Version[s] = ServerVersion
      /\ Len(u) \in Nat /\ Len(d) \in Nat /\ Len(hs) \in Nat /\ Place(h) \in Nat
  BY SmallSeqs, SeqFacts, PlaceType DEF Conn, Counts
<1>2. Len(d) = 0 /\ Len(hs) = 0 /\ Place(h) + (Len(u) + Len(x)) = 4 + Len(x)
  BY <1>1
<1>3. \A i \in 1..Len(x) : i = 1 \/ i = 2
  <2>1. CASE Len(x) = 1
    BY <2>1
  <2>2. CASE Len(x) = 2
    BY <2>2
  <2> QED  BY <1>0, <2>1, <2>2
<1>4. UpFits(s, h, u, x)
  <2>1. ASSUME NEW i \in 1..Len(x)
        PROVE  Fits(s, x[i], Place(h) + Len(u) + i)
    <3>1. Place(h) + Len(u) + i = 4 + i
      BY <1>1
    <3>2. CASE i = 1
      <4>1. CommandOf(c2) \in Commands
        BY DEF CommandOf, Commands
      <4> QED  BY <1>0, <1>1, <3>1, <3>2, <4>1 DEF Fits
    <3>3. CASE i = 2
      <4>1. Place(h) + Len(u) + i = 6 /\ x[i].tag = "number" /\ x[i].val \in Rfc
        <5>1. Len(x) = 2
          <6>1. 2 \in 1..Len(x)
            BY <3>3
          <6>2. ASSUME Len(x) = 1
                PROVE  FALSE
            <7>1. 2 \in 1..1
              BY <6>1, <6>2
            <7> QED  BY <7>1
          <6> QED  BY <1>0, <6>2
        <5> QED  BY <1>0, <3>1, <3>3, <5>1
      <4> QED  BY <1>1, <4>1 DEF Fits
    <3> QED  BY <1>3, <3>2, <3>3
  <2> QED  BY <1>1, <2>1 DEF UpFits
<1>5. UpWord(c2, h, u, x)
  <2>1. \A i \in 1..Len(u) : Place(h) + i # 5
    BY <1>1
  <2>2. \A i \in 1..Len(x) : Place(h) + Len(u) + i = 5 => i = 1
    BY <1>1
  <2> QED  BY <1>0, <2>1, <2>2 DEF UpWord
<1>6. DownFits(c2, d, hs)
  BY <1>2 DEF DownFits
<1>7. Counts(c2, h, Len(u) + Len(x), Len(d) + Len(hs))
  <2>1. CASE c2 \in {"list_size", "quit"}
    <3>1. Place(h) + (Len(u) + Len(x)) = 5
      <4>1. Len(x) = 1
        BY <1>0, <2>1
      <4> QED  BY <1>2, <4>1
    <3> QED  BY <1>1, <2>1, <3>1 DEF Counts
  <2>2. CASE c2 \in {"add_code", "got_code", "lookup_size"}
    <3>1. Place(h) + (Len(u) + Len(x)) = 6
      <4>1. Len(x) = 2
        BY <1>0, <2>2
      <4> QED  BY <1>2, <4>1
    <3> QED  BY <1>1, <2>2, <3>1 DEF Counts
  <2> QED  BY <1>0, <2>1, <2>2
<1> QED  BY <1>0, <1>1, <1>4, <1>5, <1>6, <1>7, SmallSeqs DEF Conn

\* A handler takes a frame that others may follow.
LEMMA ConnRead ==
  ASSUME NEW s, NEW c \in ClientLabels, NEW h \in HandlerLabels, NEW h2,
         NEW u \in Seq(Frames), NEW cs \in Seq(Frames), NEW d \in Seq(Frames),
         Conn(s, c, h, u, cs, d, <<>>), u # <<>>,
         \/ h = "version" /\ h2 = "host_len"
         \/ h = "host_len" /\ h2 = "host"
         \/ h = "host" /\ h2 = "port"
         \/ h = "port" /\ h2 = "message"
         \/ h = "message" /\ h2 = "add_number" /\ Head(u) = Command(ADD)
         \/ h = "message" /\ h2 = "lookup_number" /\ Head(u) = Command(LOOKUP)
  PROVE  Conn(s, c, h2, Tail(u), cs, d, <<>>)
<1> DEFINE t == Tail(u)
<1>1. /\ Len(u) \in Nat /\ Len(cs) \in Nat /\ Len(d) \in Nat /\ Len(u) >= 1 /\ Head(u) = u[1]
      /\ Len(t) = Len(u) - 1 /\ \A i \in 1..(Len(u) - 1) : t[i] = u[i + 1]
  BY SeqFacts, TailFacts
<1>2. /\ UpFits(s, h, u, cs) /\ UpWord(c, h, u, cs) /\ DownFits(c, d, <<>>) /\ Taken(h, u)
      /\ Counts(c, h, Len(u) + Len(cs), Len(d))
  BY <1>1, SmallSeqs DEF Conn
<1>3. Place(h2) = Place(h) + 1 /\ Place(h) \in Nat
  <2>1. Place("version") = 0 /\ Place("host_len") = 1 /\ Place("host") = 2 /\ Place("port") = 3
        /\ Place("message") = 4 /\ Place("add_number") = 5 /\ Place("lookup_number") = 5
    BY DEF Place
  <2> QED  BY <2>1
<1> HIDE DEF t
<1>4. ASSUME NEW i \in 1..Len(t)
      PROVE  /\ i + 1 \in 1..Len(u) /\ t[i] = u[i + 1] /\ Place(h2) + i = Place(h) + (i + 1)
             /\ i < Len(t) => i + 1 < Len(u)
  <2>1. i \in 1..(Len(u) - 1) /\ i + 1 \in 1..Len(u) /\ (i < Len(t) => i + 1 < Len(u))
    BY <1>1
  <2>2. Place(h2) + i = Place(h) + (i + 1)
    BY <1>3, <2>1
  <2> QED  BY <1>1, <2>1, <2>2
<1>5. ASSUME NEW i \in 1..Len(cs)
      PROVE  Place(h2) + Len(t) + i = Place(h) + Len(u) + i
  BY <1>1, <1>3
<1>6. UpFits(s, h2, t, cs)
  BY <1>2, <1>4, <1>5 DEF UpFits
<1>7. UpWord(c, h2, t, cs)
  <2>1. ASSUME c # "ended"
        PROVE  /\ \A i \in 1..Len(t) : Place(h2) + i = 5 => t[i] = Command(CommandOf(c))
               /\ \A i \in 1..Len(cs) :
                    Place(h2) + Len(t) + i = 5 => cs[i] = Command(CommandOf(c))
    BY <1>2, <1>4, <1>5, <2>1 DEF UpWord
  <2>2. \A i \in 1..Len(t) :
          Place(h2) + i = 5 /\ i < Len(t) => t[i] \in {Command(ADD), Command(LOOKUP)}
    BY <1>2, <1>4 DEF UpWord
  <2> QED  BY <2>1, <2>2 DEF UpWord
<1>8. Counts(c, h2, Len(t) + Len(cs), Len(d))
  <2>1. /\ Len(t) + Len(cs) = Len(u) + Len(cs) - 1 /\ Len(u) + Len(cs) >= 1
        /\ Len(u) + Len(cs) \in Nat
    BY <1>1
  <2>2. Place(h2) + (Len(t) + Len(cs)) = Place(h) + (Len(u) + Len(cs))
    BY <1>3, <2>1
  <2>3. CASE h \in {"version", "host_len", "host", "port"}
    BY <1>2, <2>1, <2>2, <2>3, Labels DEF Counts, Introducing
  <2>4. CASE h = "message" /\ h2 = "add_number" /\ Head(u) = Command(ADD)
    <3>1. Place("message") = 4 /\ 1 \in 1..Len(u)
      BY <1>1 DEF Place
    <3>2. c # "ended" => Command(CommandOf(c)) = Command(ADD)
      BY <1>1, <1>2, <2>4, <3>1 DEF UpWord
    <3>3. c # "ended" => CommandOf(c) = ADD
      BY <3>2, WordValues DEF CommandOf, Commands
    <3>4. c \in {"add_code", "got_code", "ended"}
      BY <3>3, Labels DEF CommandOf, ADD, LIST, LOOKUP, DISCONNECT
    <3> QED  BY <1>2, <2>1, <2>2, <2>4, <3>4 DEF Counts
  <2>5. CASE h = "message" /\ h2 = "lookup_number" /\ Head(u) = Command(LOOKUP)
    <3>1. Place("message") = 4 /\ 1 \in 1..Len(u)
      BY <1>1 DEF Place
    <3>2. c # "ended" => Command(CommandOf(c)) = Command(LOOKUP)
      BY <1>1, <1>2, <2>5, <3>1 DEF UpWord
    <3>3. c # "ended" => CommandOf(c) = LOOKUP
      BY <3>2, WordValues DEF CommandOf, Commands
    <3>4. c \in {"lookup_size", "lookup_body", "ended"}
      BY <3>3, Labels DEF CommandOf, ADD, LIST, LOOKUP, DISCONNECT
    <3> QED  BY <1>2, <2>1, <2>2, <2>5, <3>4 DEF Counts
  <2> QED  BY <2>3, <2>4, <2>5
<1>9. Taken(h2, t) /\ h2 # "rejected"
  BY DEF Taken
<1> QED  BY <1>2, <1>6, <1>7, <1>8, <1>9, SmallSeqs DEF Conn, t

\* A handler takes a frame that nothing follows.
LEMMA ConnReadLast ==
  ASSUME NEW s, NEW c \in ClientLabels, NEW h \in HandlerLabels, NEW h2,
         NEW u \in Seq(Frames), NEW cs \in Seq(Frames), NEW d \in Seq(Frames),
         NEW hs \in Seq(Frames),
         Conn(s, c, h, u, cs, d, <<>>), u # <<>>,
         \/ h = "version" /\ h2 = "rejected" /\ Head(u).val # ServerVersion /\ hs = <<>>
         \/ h = "message" /\ h2 = "list" /\ Head(u) = Command(LIST) /\ hs = <<>>
         \/ h = "message" /\ h2 = "remove" /\ Head(u) = Command(DISCONNECT) /\ hs = <<>>
         \/ h = "lookup_number" /\ h2 = "respond" /\ hs = <<>>
         \/ h = "add_number" /\ h2 = "message" /\ Len(hs) = 1 /\ hs[1].tag = "code"
  PROVE  Tail(u) = <<>> /\ Conn(s, c, h2, Tail(u), cs, d, hs)
<1>1. /\ Len(u) \in Nat /\ Len(cs) \in Nat /\ Len(d) \in Nat /\ Len(u) >= 1 /\ Head(u) = u[1]
      /\ Len(hs) \in Nat /\ 1 \in 1..Len(u)
  BY SeqFacts, TailFacts
<1>2. /\ UpFits(s, h, u, cs) /\ UpWord(c, h, u, cs) /\ DownFits(c, d, <<>>) /\ Taken(h, u)
      /\ Counts(c, h, Len(u) + Len(cs), Len(d)) /\ (c = "ended" => Len(cs) = 0 /\ Len(d) = 0)
      /\ c \notin {"off", "version", "ended"} => Version[s] = ServerVersion
  BY <1>1, SmallSeqs DEF Conn
<1>3. Place("version") = 0 /\ Place("message") = 4 /\ Place("add_number") = 5
      /\ Place("lookup_number") = 5
  BY DEF Place
<1>4. h = "version" /\ h2 = "rejected" => Version[s] # ServerVersion
  <2>1. h = "version" => Fits(s, u[1], 1)
    BY <1>1, <1>2, <1>3 DEF UpFits
  <2>2. h = "version" => u[1] = Frame("version", Version[s])
    BY <2>1 DEF Fits
  <2>3. Frame("version", Version[s]).val = Version[s]
    BY DEF Frame
  <2> QED  BY <1>1, <2>2, <2>3
<1>5. Len(u) = 1
  <2> SUFFICES ASSUME Len(u) >= 2
               PROVE  FALSE
    BY <1>1, OneOrMore, Zenon
  <2>5. 2 \in 1..Len(u)
    BY <1>1
  <2>1. Fits(s, u[2], Place(h) + 2)
    BY <1>2, <2>5 DEF UpFits
  <2>2. CASE h = "version"
    BY <1>3, <1>4, <2>1, <2>2 DEF Fits
  <2>3. CASE h = "message"
    <3>1. u[1] \in {Command(ADD), Command(LOOKUP)}
      BY <1>1, <1>2, <1>3, <2>3 DEF UpWord
    <3>2. u[1] \in {Command(LIST), Command(DISCONNECT)}
      BY <1>1, <2>3
    <3> QED  BY <3>1, <3>2, WordValues DEF Commands, ADD, LIST, LOOKUP, DISCONNECT
  <2>4. CASE h \in {"add_number", "lookup_number"}
    <3>1. Place(h) + 2 = 7
      BY <1>3, <2>4
    <3> QED  BY <2>1, <3>1 DEF Fits
  <2> QED  BY <2>2, <2>3, <2>4
<1>6. Tail(u) = <<>>
  <2>1. Tail(u) \in Seq(Frames) /\ Len(Tail(u)) = 0
    BY <1>5, TailFacts
  <2> QED  BY <2>1, SeqFacts
<1>7. h = "message" /\ c # "ended" => u[1] = Command(CommandOf(c))
  BY <1>1, <1>2, <1>3 DEF UpWord
<1>8. /\ h2 = "list" => c \in {"list_size", "list_body", "ended"}
      /\ h2 = "remove" => c \notin {"list_size", "list_body", "lookup_size", "lookup_body",
                                   "add_code", "got_code"}
  <2>1. CommandOf(c) \in Commands
    BY DEF CommandOf, Commands
  <2>2. /\ h2 = "list" /\ c # "ended" => CommandOf(c) = LIST
        /\ h2 = "remove" /\ c # "ended" => CommandOf(c) = DISCONNECT
    BY <1>1, <1>7, <2>1, WordValues DEF Commands
  <2> QED  BY <2>2, Labels DEF CommandOf, ADD, LIST, LOOKUP, DISCONNECT
<1>9. Len(u) + Len(cs) = 1 + Len(cs) /\ 1 + Len(cs) >= 1 /\ 1 + Len(cs) # 0
      /\ (1 + Len(cs) = 1 <=> Len(cs) = 0)
  BY <1>1, <1>5
<1>10. /\ Len(cs) = 0
       /\ Counts(c, h2, 0, Len(d) + Len(hs))
       /\ c # "ended" /\ hs # <<>> => c \in {"add_code", "got_code"} /\ Len(d) = 0
  <2>1. CASE h = "version" /\ h2 = "rejected" /\ hs = <<>>
    BY <1>1, <1>2, <1>3, <1>4, <1>9, <2>1, SmallSeqs, Labels DEF Counts, Introducing
  <2>2. CASE h = "message" /\ h2 \in {"list", "remove"} /\ hs = <<>>
    BY <1>1, <1>2, <1>3, <1>8, <1>9, <2>2, SmallSeqs, Labels DEF Counts, Introducing
  <2>3. CASE h = "lookup_number" /\ h2 = "respond" /\ hs = <<>>
    BY <1>1, <1>2, <1>3, <1>9, <2>3, SmallSeqs, Labels DEF Counts, Introducing
  <2>4. CASE h = "add_number" /\ h2 = "message" /\ Len(hs) = 1
    BY <1>1, <1>2, <1>3, <1>9, <2>4, SmallSeqs, Labels DEF Counts, Introducing
  <2> QED  BY <2>1, <2>2, <2>3, <2>4
<1>11. DownFits(c, d, hs)
  <2>1. CASE hs = <<>>
    BY <1>2, <2>1
  <2>2. CASE Len(hs) = 1 /\ hs[1].tag = "code" /\ hs # <<>>
    BY <1>10, <2>2 DEF DownFits, AnswerFits
  <2> QED  BY <2>1, <2>2
<1>12. UpFits(s, h2, <<>>, cs) /\ UpWord(c, h2, <<>>, cs) /\ Taken(h2, <<>>)
  BY <1>10, SmallSeqs DEF UpFits, UpWord, Taken
<1>13. Len(<<>>) + Len(cs) = 0
  BY <1>10, SmallSeqs
<1> QED
  BY <1>2, <1>4, <1>6, <1>10, <1>11, <1>12, <1>13, SmallSeqs DEF Conn

\* A handler goes on by itself.
LEMMA ConnLocal ==
  ASSUME NEW s, NEW c \in ClientLabels, NEW h \in HandlerLabels, NEW h2,
         NEW u \in Seq(Frames), NEW cs \in Seq(Frames), NEW d \in Seq(Frames),
         NEW hs \in Seq(Frames), NEW hs2 \in Seq(Frames),
         Conn(s, c, h, u, cs, d, hs),
         \/ h = "list" /\ h2 = "respond" /\ hs2 = hs
         \/ h = "remove" /\ h2 = "leave" /\ hs2 = hs
         \/ h = "leave" /\ h2 = "finished" /\ hs2 = hs
         \/ h = "respond" /\ h2 = "message" /\ Len(hs2) = 2 /\ hs2[1].tag = "size"
              /\ (hs2[2].tag = "body" \/ hs2[2] = Null)
  PROVE  Conn(s, c, h2, u, cs, d, hs2)
<1>1. /\ UpFits(s, h, u, cs) /\ UpWord(c, h, u, cs) /\ DownFits(c, d, hs) /\ Taken(h, u)
      /\ Counts(c, h, Len(u) + Len(cs), Len(d) + Len(hs)) /\ (c = "ended" => Len(cs) = 0)
      /\ Len(u) \in Nat /\ Len(cs) \in Nat /\ Len(d) \in Nat /\ Len(hs) \in Nat
  BY SeqFacts DEF Conn
<1>2. Len(u) = 0
  BY <1>1 DEF Taken
<1>3. Len(cs) = 0
  <2>1. c # "ended" => Len(u) + Len(cs) = 0
    BY <1>1, Labels DEF Counts, Introducing
  <2> QED  BY <1>1, <1>2, <2>1
<1>4. h \in {"list", "respond", "remove", "leave"} /\ Len(u) + Len(cs) = 0
  BY <1>2, <1>3
<1>5. UpFits(s, h2, u, cs) /\ UpWord(c, h2, u, cs) /\ Taken(h2, u) /\ h2 # "rejected"
  BY <1>2, <1>3 DEF UpFits, UpWord, Taken
<1>6. CASE hs2 = hs /\ \/ h = "list" /\ h2 = "respond"
                       \/ h = "remove" /\ h2 = "leave"
                       \/ h = "leave" /\ h2 = "finished"
  <2>1. Counts(c, h2, 0, Len(d) + Len(hs))
    BY <1>1, <1>4, <1>6, Labels DEF Counts, Introducing
  <2> QED  BY <1>1, <1>4, <1>5, <1>6, <2>1 DEF Conn
<1>7. CASE /\ h = "respond" /\ h2 = "message" /\ Len(hs2) = 2 /\ hs2[1].tag = "size"
           /\ hs2[2].tag = "body" \/ hs2[2] = Null
  <2>1. c \in {"list_size", "lookup_size", "ended"}
    BY <1>1, <1>4, <1>7, Labels DEF Counts, Introducing
  <2>2. c # "ended" => Len(d) = 0
    <3>1. c # "ended" => Len(d) + Len(hs) = 0
      BY <1>1, <1>4, <1>7, <2>1 DEF Counts, Introducing
    <3> QED  BY <1>1, <3>1
  <2>3. c # "ended" => Len(d) + Len(hs2) = 2
    BY <1>7, <2>2
  <2>4. Counts(c, h2, 0, Len(d) + Len(hs2))
    BY <1>7, <2>1, <2>3 DEF Counts
  <2>5. DownFits(c, d, hs2)
    <3>1. ASSUME c # "ended", NEW i \in 1..Len(hs2)
          PROVE  AnswerFits(c, hs2[i], Len(d) + i) \/ hs2[i] = Null
      <4>1. i = 1 \/ i = 2
        BY <1>7
      <4>2. Len(d) + i = i
        BY <2>2, <3>1
      <4> QED  BY <1>7, <2>1, <3>1, <4>1, <4>2 DEF AnswerFits
    <3> QED  BY <2>2, <3>1 DEF DownFits
  <2> QED  BY <1>4, <1>5, <2>4, <2>5 DEF Conn
<1> QED  BY <1>6, <1>7

\* A handler starts on a connection, with its version.
LEMMA ConnAccept ==
  ASSUME NEW s, NEW c \in ClientLabels \ {"off"}, NEW u \in Seq(Frames),
         NEW cs \in Seq(Frames), NEW d \in Seq(Frames), NEW hs \in Seq(Frames),
         Conn(s, c, "off", u, cs, d, hs)
  PROVE  Conn(s, c, "version", u, cs, d, <<Frame("version", ServerVersion)>>)
<1> DEFINE x == <<Frame("version", ServerVersion)>>
<1>1. /\ UpFits(s, "off", u, cs) /\ UpWord(c, "off", u, cs) /\ DownFits(c, d, hs)
      /\ Counts(c, "off", Len(u) + Len(cs), Len(d) + Len(hs))
      /\ Len(d) \in Nat /\ Len(hs) \in Nat
  BY SeqFacts DEF Conn
<1>2. Place("version") = Place("off")
  BY DEF Place
<1>3. Len(x) = 1 /\ x[1] = Frame("version", ServerVersion) /\ \A i \in 1..Len(x) : i = 1
  BY SmallSeqs
<1> HIDE DEF x
<1>4. c \in {"version", "ended"}
  BY <1>1, Labels DEF Counts, Introducing
<1>5. c = "version" => Len(u) + Len(cs) = 1 /\ Len(d) = 0
  <2>1. c = "version" => Len(u) + Len(cs) = 1 /\ Len(d) + Len(hs) = 0
    BY <1>1 DEF Counts
  <2> QED  BY <1>1, <2>1
<1>6. Counts(c, "version", Len(u) + Len(cs), Len(d) + Len(x))
  <2>1. c = "version" => Len(d) + Len(x) = 1
    BY <1>3, <1>5
  <2> QED  BY <1>4, <1>5, <2>1 DEF Counts
<1>7. DownFits(c, d, x)
  BY <1>3, <1>4, <1>5 DEF DownFits, AnswerFits
<1>8. UpFits(s, "version", u, cs) /\ UpWord(c, "version", u, cs) /\ Taken("version", u)
  BY <1>1, <1>2 DEF UpFits, UpWord, Taken
<1> QED  BY <1>6, <1>7, <1>8 DEF Conn, x

\* A client starts.
LEMMA ConnStart ==
  ASSUME NEW s \in Sessions, NEW h, NEW u \in Seq(Frames), NEW cs \in Seq(Frames),
         NEW d \in Seq(Frames), NEW hs \in Seq(Frames),
         Conn(s, "off", h, u, cs, d, hs)
  PROVE  Conn(s, "version", h, u, <<Frame("version", Version[s])>>, d, hs)
<1> DEFINE x == <<Frame("version", Version[s])>>
<1>1. /\ h = "off" /\ Len(u) + Len(cs) = 0 /\ Len(d) + Len(hs) = 0 /\ Taken(h, u)
      /\ Len(d) \in Nat /\ Len(hs) \in Nat /\ Len(u) \in Nat /\ Len(cs) \in Nat
  BY SeqFacts DEF Conn, Counts
<1>2. Len(u) = 0 /\ Len(d) = 0 /\ Len(hs) = 0
  BY <1>1
<1>3. Len(x) = 1 /\ x[1] = Frame("version", Version[s]) /\ \A i \in 1..Len(x) : i = 1
  BY SmallSeqs
<1> HIDE DEF x
<1>4. Place(h) = 0
  BY <1>1 DEF Place
<1>5. UpFits(s, h, u, x)
  <2>1. Place(h) + Len(u) + 1 = 1
    BY <1>2, <1>4
  <2> QED  BY <1>2, <1>3, <2>1 DEF UpFits, Fits
<1>6. UpWord("version", h, u, x)
  <2>1. Place(h) + Len(u) + 1 # 5
    BY <1>2, <1>4
  <2> QED  BY <1>2, <1>3, <2>1 DEF UpWord
<1>7. Counts("version", h, Len(u) + Len(x), Len(d) + Len(hs))
  <2>1. Len(u) + Len(x) = 1
    BY <1>2, <1>3
  <2> QED  BY <1>1, <2>1 DEF Counts
<1>8. DownFits("version", d, hs)
  BY <1>2 DEF DownFits
<1> QED  BY <1>1, <1>5, <1>6, <1>7, <1>8 DEF Conn, x

(***************************************************************************)
(* What get_rfcs returns                                                   *)
(***************************************************************************)

Rising(q) == \A i, j \in DOMAIN q : i < j => q[i] < q[j]

LEMMA NumbersBounded ==
  \E n \in Nat : Rfc \subseteq 1..n
<1>1. Rfc \subseteq 1..ShortMax
  BY SessionsAssumption
<1>2. ShortMax \in Nat
  BY DEF ShortMax
<1> QED  BY <1>1, <1>2

LEMMA RisingExists ==
  ASSUME NEW S \in SUBSET Rfc
  PROVE  IsFiniteSet(S) /\ \E q \in [1..Cardinality(S) -> S] : Rising(q)
<1> DEFINE P == { m \in Nat : \A T \in SUBSET (1..m) :
                                \E q \in [1..Cardinality(T) -> T] : Rising(q) }
<1>1. 0 \in P
  <2>1. SUBSET (1..0) = {{}}
    OBVIOUS
  <2>2. [i \in 1..0 |-> i] \in [1..0 -> {}] /\ Rising([i \in 1..0 |-> i])
    BY DEF Rising
  <2>3. Cardinality({}) = 0
    BY FS_EmptySet
  <2> QED  BY <2>1, <2>2, <2>3
<1>2. ASSUME NEW m \in Nat, m \in P
      PROVE  m + 1 \in P
  <2> SUFFICES ASSUME NEW T \in SUBSET (1..(m + 1))
               PROVE  \E q \in [1..Cardinality(T) -> T] : Rising(q)
    <3>1. m + 1 \in Nat
      OBVIOUS
    <3> QED  BY <3>1, Zenon
  <2>1. CASE m + 1 \notin T
    <3>1. T \in SUBSET (1..m)
      BY <2>1
    <3> QED  BY <1>2, <3>1
  <2>2. CASE m + 1 \in T
    <3> DEFINE R == T \ {m + 1}
               k == Cardinality(R)
    <3>1. R \in SUBSET (1..m)
      OBVIOUS
    <3>2. PICK p \in [1..k -> R] : Rising(p)
      BY <1>2, <3>1
    <3>3. IsFiniteSet(T)
      <4>1. IsFiniteSet(1..(m + 1))
        BY FS_Interval
      <4> QED  BY <4>1, FS_Subset
    <3>4. IsFiniteSet(R) /\ k = Cardinality(T) - 1 /\ Cardinality(T) \in Nat
      BY <2>2, <3>3, FS_RemoveElement, FS_CardinalityType
    <3>5. k \in Nat /\ Cardinality(T) = k + 1
      BY <3>4, FS_CardinalityType
    <3> DEFINE q == [i \in 1..(k + 1) |-> IF i = k + 1 THEN m + 1 ELSE p[i]]
    <3> HIDE DEF k, R
    <3>6. \A i \in 1..k : p[i] \in T /\ p[i] \in Int /\ p[i] < m + 1
      <4>1. \A i \in 1..k : p[i] \in R
        BY <3>2
      <4>2. \A i \in 1..k : p[i] \in 1..m
        BY <3>1, <4>1
      <4>3. \A i \in 1..k : p[i] \in T
        BY <4>1 DEF R
      <4>4. \A x \in 1..m : x \in Int /\ x < m + 1
        OBVIOUS
      <4> QED  BY <4>2, <4>3, <4>4
    <3>7. q \in [1..(k + 1) -> T]
      BY <2>2, <3>5, <3>6
    <3>8. Rising(q)
      <4> SUFFICES ASSUME NEW i \in 1..(k + 1), NEW j \in 1..(k + 1), i < j
                   PROVE  q[i] < q[j]
        BY DEF Rising
      <4>1. i \in 1..k
        BY <3>5
      <4>2. CASE j = k + 1
        BY <3>5, <3>6, <4>1, <4>2
      <4>3. CASE j # k + 1
        <5>1. j \in 1..k
          BY <3>5, <4>3
        <5>2. p[i] < p[j]
          BY <3>2, <4>1, <5>1 DEF Rising
        <5> QED  BY <3>5, <4>1, <4>3, <5>2
      <4> QED  BY <4>2, <4>3
    <3> QED  BY <3>5, <3>7, <3>8
  <2> QED  BY <2>1, <2>2
<1>3. Nat \subseteq P
  <2> HIDE DEF P
  <2> QED  BY <1>1, <1>2, InductionBySet
<1>4. PICK n \in Nat : S \in SUBSET (1..n)
  BY NumbersBounded
<1>5. IsFiniteSet(S)
  <2>1. IsFiniteSet(1..n)
    BY FS_Interval
  <2> QED  BY <1>4, <2>1, FS_Subset
<1>6. n \in P
  BY <1>3
<1> QED  BY <1>4, <1>5, <1>6

\* get_rfcs returns each number of the directory once.
LEMMA SortedHoldsEach ==
  ASSUME NEW S \in SUBSET Rfc
  PROVE  /\ Sorted(S) \in Seq(Rfc) /\ ToSet(Sorted(S)) = S
         /\ \A i, j \in 1..Len(Sorted(S)) : Sorted(S)[i] = Sorted(S)[j] => i = j
<1> DEFINE q == Sorted(S)
           n == Cardinality(S)
<1>1. q \in [1..n -> S] /\ Rising(q)
  BY RisingExists DEF Sorted, Rising
<1>2. IsFiniteSet(S) /\ n \in Nat
  BY RisingExists, FS_CardinalityType
<1> HIDE DEF q, n
<1>3. q \in Seq(Rfc) /\ Len(q) = n
  BY <1>1, <1>2
<1>4. \A i \in 1..n : q[i] \in Int
  <2>1. \A x \in Rfc : x \in Int
    BY SessionsAssumption
  <2> QED  BY <1>1, <2>1
<1>5. \A i, j \in 1..n : q[i] = q[j] => i = j
  BY <1>1, <1>2, <1>4 DEF Rising
<1>6. ToSet(q) = S
  <2>1. q \in Injection(1..n, S)
    BY <1>1, <1>5 DEF Injection, IsInjective
  <2>2. Cardinality(1..n) = n
    BY <1>2, FS_Interval
  <2>3. q \in Surjection(1..n, S)
    BY <1>2, <2>1, <2>2, FS_Injection DEF n
  <2>4. \A x \in S : \E i \in 1..n : q[i] = x
    BY <2>3 DEF Surjection
  <2> QED  BY <1>1, <2>4 DEF ToSet
<1> QED  BY <1>3, <1>5, <1>6 DEF q

(***************************************************************************)
(* Types                                                                   *)
(***************************************************************************)

QueueTypes ==
  /\ up \in [Sessions -> Seq(Frames)] /\ down \in [Sessions -> Seq(Frames)]
  /\ cout \in [Sessions -> Seq(Frames)] /\ hout \in [Sessions -> Seq(Frames)]

TypeInv == TypeOK /\ QueueTypes /\ WantInv

LEMMA FrameTypes ==
  /\ \A n \in Nat, tag \in {"version", "host_len", "host", "port", "number", "code", "size"} :
       Frame(tag, n) \in Frames
  /\ \A w \in Commands : Command(w) \in Frames
  /\ Null \in Frames
  /\ \A S \in SUBSET Holder : [tag |-> "body", val |-> 0, body |-> S] \in Frames
<1>1. \A n \in Nat, tag \in {"version", "host_len", "host", "port", "number", "code", "size",
                             "message", "null"} : Frame(tag, n) \in Frames
  BY DEF Frame, Frames
<1>2. \A w \in Commands : NtoHL(w) \in Nat
  BY WordValues DEF Commands, Words
<1>3. \A w \in Commands : Command(w) \in Frames
  BY <1>1, <1>2 DEF Command
<1>4. Null \in Frames
  BY <1>1 DEF Null
<1>5. \A S \in SUBSET Holder : [tag |-> "body", val |-> 0, body |-> S] \in Frames
  BY DEF Frames
<1> QED  BY <1>1, <1>3, <1>4, <1>5

LEMMA ShortSeqs ==
  /\ <<>> \in Seq(Frames)
  /\ \A x \in Frames : <<x>> \in Seq(Frames)
  /\ \A x, y \in Frames : <<x, y>> \in Seq(Frames)
  /\ \A x, y, z \in Frames : <<x, y, z>> \in Seq(Frames)
OBVIOUS

LEMMA NumberTypes ==
  /\ \A n \in Rfc : n \in Nat /\ n # None /\ Frame("number", n) \in Frames
  /\ \A s \in Sessions : PeerOf[s] \in Peer /\ Version[s] \in Nat /\ Files[s] \in Seq(Rfc)
  /\ \A s \in Sessions : After[s] \in Sessions \cup {None}
  /\ \A n \in Rfc, s \in Sessions : [rfc |-> n, peer |-> PeerOf[s]] \in Holder
<1>1. \A n \in Rfc : n \in Nat
  <2>1. PICK k \in Nat : Rfc \subseteq 1..k
    BY NumbersBounded
  <2>2. 1..k \subseteq Nat
    OBVIOUS
  <2> QED  BY <2>1, <2>2
<1>2. /\ \A s \in Sessions : PeerOf[s] \in Peer /\ Version[s] \in Nat /\ Files[s] \in Seq(Rfc)
      /\ \A s \in Sessions : After[s] \in Sessions \cup {None}
  BY SessionsAssumption, SMTT(30)
<1>3. None \notin Nat
  BY SessionsAssumption
<1> QED  BY <1>1, <1>2, <1>3, FrameTypes DEF Holder, HolderOver

LEMMA ToSetType ==
  ASSUME NEW q \in Seq(Rfc)
  PROVE  ToSet(q) \in SUBSET Rfc
BY ElementOfSeq DEF ToSet

LEMMA InitTypes ==
  Init => TypeInv /\ ConnInv
<1> SUFFICES ASSUME Init
             PROVE  TypeInv /\ ConnInv
  OBVIOUS
<1>1. <<>> \in Seq(Frames) /\ <<>> \in Seq(Rfc)
  BY ShortSeqs
<1>2. TypeOK
  BY <1>1, Labels DEF Init, Index!Init, TypeOK
<1>3. QueueTypes /\ WantInv
  BY <1>1 DEF Init, QueueTypes, WantInv
<1>4. \A s : Conn(s, "off", "off", <<>>, <<>>, <<>>, <<>>)
  BY SmallSeqs DEF Conn, UpFits, UpWord, DownFits, Taken, Counts
<1>5. ConnInv
  BY <1>4 DEF Init, ConnInv
<1> QED  BY <1>2, <1>3, <1>5 DEF TypeInv

LEMMA StartTypes ==
  ASSUME TypeInv, ConnInv, NEW s \in Sessions, Start(s)
  PROVE  TypeInv'
<1> USE DEF TypeInv, TypeOK, QueueTypes, WantInv
<1>1. files'[s] \in Seq(Rfc) /\ files' \in [Sessions -> Seq(Rfc)]
  <2>1. CASE After[s] = None /\ files' = [files EXCEPT ![s] = Files[s]]
    BY <2>1, NumberTypes
  <2>2. CASE After[s] # None /\ files' = [files EXCEPT ![s] = Sorted(stored[After[s]])]
    <3>1. Sorted(stored[After[s]]) \in Seq(Rfc)
      BY <2>2, NumberTypes, SortedHoldsEach
    <3> QED  BY <2>2, <3>1
  <2> QED  BY <2>1, <2>2 DEF Start
<1>2. stored' \in [Sessions -> SUBSET Rfc]
  BY <1>1, ToSetType DEF Start
<1>3. <<Frame("version", Version[s])>> \in Seq(Frames)
  BY NumberTypes, FrameTypes, ShortSeqs
<1>4. cout' \in [Sessions -> Seq(Frames)]
  BY <1>3 DEF Start
<1>5. cpc' = [cpc EXCEPT ![s] = "version"] /\ cpc' \in [Sessions -> ClientLabels]
  BY Labels DEF Start, ClientGoto
<1>6. UNCHANGED <<index, server_up, up, down, want, from, handler>>
  BY DEF Start
<1>7. TypeOK'
  BY <1>1, <1>2, <1>4, <1>5, <1>6 DEF index, handler
<1>8. WantInv'
  BY <1>5, <1>6 DEF Start
<1> QED  BY <1>4, <1>6, <1>7, <1>8 DEF handler

\* A step that changes nothing but a client and what is under way.
LEMMA ClientTypes ==
  ASSUME TypeInv, UNCHANGED <<index, server_up, handler>>,
         up' \in [Sessions -> Seq(Frames)], down' \in [Sessions -> Seq(Frames)],
         cout' \in [Sessions -> Seq(Frames)], cpc' \in [Sessions -> ClientLabels],
         files' \in [Sessions -> Seq(Rfc)], stored' \in [Sessions -> SUBSET Rfc],
         want' \in [Sessions -> Rfc \cup {None}], from' \in [Sessions -> Sessions \cup {None}],
         WantInv'
  PROVE  TypeInv'
BY DEF TypeInv, TypeOK, QueueTypes, index, handler

LEMMA ClientTakesTypes ==
  ASSUME TypeInv, NEW s \in Sessions, NEW label, NEW next \in ClientLabels,
         ClientTakes(s, label, next)
  PROVE  /\ down' = [down EXCEPT ![s] = Tail(down[s])] /\ down' \in [Sessions -> Seq(Frames)]
         /\ cpc' = [cpc EXCEPT ![s] = next] /\ cpc' \in [Sessions -> ClientLabels]
         /\ cpc[s] = label /\ cpc'[s] = next /\ \A r \in Sessions \ {s} : cpc'[r] = cpc[r]
<1>1. down[s] \in Seq(Frames) /\ down[s] # <<>>
  BY DEF TypeInv, QueueTypes, ClientTakes
<1>2. Tail(down[s]) \in Seq(Frames)
  BY <1>1, TailFacts
<1> QED  BY <1>1, <1>2 DEF TypeInv, TypeOK, QueueTypes, ClientTakes, ClientGoto

LEMMA EndTypes ==
  ASSUME TypeInv, NEW s \in Sessions, End(s)
  PROVE  /\ down' = [down EXCEPT ![s] = <<>>] /\ down' \in [Sessions -> Seq(Frames)]
         /\ cout' = [cout EXCEPT ![s] = <<>>] /\ cout' \in [Sessions -> Seq(Frames)]
         /\ cpc' = [cpc EXCEPT ![s] = "ended"] /\ cpc' \in [Sessions -> ClientLabels]
BY ShortSeqs, Labels DEF TypeInv, TypeOK, QueueTypes, End, ClientGoto

LEMMA ClientSendTypes ==
  ASSUME TypeInv, NEW s \in Sessions, ClientSend(s)
  PROVE  TypeInv'
<1>1. /\ up[s] \in Seq(Frames) /\ cout[s] \in Seq(Frames) /\ cout[s] # <<>>
      /\ UNCHANGED <<index, server_up, down, cpc, files, stored, want, from, handler>>
  BY DEF TypeInv, QueueTypes, ClientSend
<1>2. Tail(cout[s]) \in Seq(Frames) /\ Head(cout[s]) \in Frames
  BY <1>1, TailFacts
<1>3. Append(up[s], Head(cout[s])) \in Seq(Frames)
  BY <1>1, <1>2, AppendFacts
<1>4. up' \in [Sessions -> Seq(Frames)] /\ cout' \in [Sessions -> Seq(Frames)]
  BY <1>2, <1>3 DEF ClientSend, TypeInv, QueueTypes
<1> QED  BY <1>1, <1>4, ClientTypes DEF TypeInv, TypeOK, QueueTypes, WantInv

LEMMA ClientEndsTypes ==
  ASSUME TypeInv, NEW s \in Sessions,
         ClientSendFails(s) \/ PeerIsGone(s) \/ Close(s) \/ Interrupt(s)
  PROVE  TypeInv'
<1>1. End(s) /\ UNCHANGED <<index, server_up, up, files, stored, want, from, handler>>
  BY DEF ClientSendFails, PeerIsGone, Close, Interrupt
<1>2. /\ down' \in [Sessions -> Seq(Frames)] /\ cout' \in [Sessions -> Seq(Frames)]
      /\ cpc' = [cpc EXCEPT ![s] = "ended"] /\ cpc' \in [Sessions -> ClientLabels]
  BY <1>1, EndTypes
<1>3. WantInv'
  BY <1>1, <1>2 DEF TypeInv, TypeOK, WantInv
<1> QED  BY <1>1, <1>2, <1>3, ClientTypes DEF TypeInv, TypeOK, QueueTypes

LEMMA ClientTakeTypes ==
  ASSUME TypeInv, NEW s \in Sessions,
         ClientVersion(s) \/ Announced(s) \/ ResponseSize(s) \/ Listed(s)
           \/ LookupMissing(s) \/ PeerConnects(s) \/ GotCode(s)
  PROVE  TypeInv'
<1> USE DEF TypeInv, TypeOK, QueueTypes, WantInv
<1>1. CASE ClientVersion(s)
  <2>1. <<Frame("host_len", 0), Frame("host", 0), Frame("port", 0)>> \in Seq(Frames)
    BY FrameTypes, ShortSeqs
  <2>2. cout' \in [Sessions -> Seq(Frames)]
    BY <1>1, <2>1 DEF ClientVersion
  <2>3. PICK next \in {"announce", "ended"} : ClientTakes(s, "version", next)
    BY <1>1 DEF ClientVersion
  <2>4. next \in ClientLabels
    BY Labels
  <2>5. UNCHANGED <<index, server_up, up, files, stored, want, from, handler>>
    BY <1>1 DEF ClientVersion
  <2>6. WantInv'
    BY <2>3, <2>4, <2>5, ClientTakesTypes
  <2> QED  BY <2>2, <2>3, <2>4, <2>5, <2>6, ClientTakesTypes, ClientTypes
<1>2. CASE Announced(s)
  <2>1. PICK next \in {"announce", "prompt"} : ClientTakes(s, "add_code", next)
    BY <1>2 DEF Announced
  <2>2. next \in ClientLabels
    BY Labels
  <2>3. files[s] \in Seq(Rfc) /\ files[s] # <<>>
    BY <2>1, <2>2, ClientTakesTypes
  <2>4. Tail(files[s]) \in Seq(Rfc) /\ <<>> \in Seq(Rfc)
    BY <2>3, TailFacts
  <2>5. UNCHANGED <<index, server_up, up, cout, stored, want, from, handler>>
    BY <1>2 DEF Announced
  <2>6. /\ files' \in [Sessions -> Seq(Rfc)]
        /\ \A r \in Sessions \ {s} : files'[r] = files[r]
    <3>1. CASE files' = [files EXCEPT ![s] = Tail(files[s])]
      BY <2>4, <3>1
    <3>2. CASE files' = [files EXCEPT ![s] = <<>>]
      BY <2>4, <3>2
    <3> QED  BY <1>2, <3>1, <3>2 DEF Announced
  <2>8. /\ cpc'[s] \in {"announce", "prompt"}
        /\ \A r \in Sessions \ {s} : cpc'[r] = cpc[r]
    BY <2>1, <2>2, ClientTakesTypes
  <2>7. WantInv'
    BY <2>5, <2>6, <2>8
  <2> QED  BY <2>1, <2>2, <2>5, <2>6, <2>7, ClientTakesTypes, ClientTypes
<1>3. CASE ResponseSize(s)
  <2>1. PICK label, next : ClientTakes(s, label, next)
                           /\ <<label, next>> \in {<<"list_size", "list_body">>,
                                                  <<"lookup_size", "lookup_body">>}
    BY <1>3 DEF ResponseSize
  <2>2. next \in ClientLabels /\ (next = "lookup_body" => label = "lookup_size")
        /\ next \in {"list_body", "lookup_body"}
    BY <2>1, Labels
  <2>3. UNCHANGED <<index, server_up, up, cout, files, stored, want, from, handler>>
    BY <1>3 DEF ResponseSize
  <2>4. WantInv'
    BY <2>1, <2>2, <2>3, ClientTakesTypes
  <2> QED  BY <2>1, <2>2, <2>3, <2>4, ClientTakesTypes, ClientTypes
<1>4. CASE Listed(s) \/ LookupMissing(s) \/ GotCode(s)
  <2>1. PICK label : ClientTakes(s, label, "prompt")
    BY <1>4 DEF Listed, LookupMissing, GotCode
  <2>2. "prompt" \in ClientLabels
    BY Labels
  <2>3. UNCHANGED <<index, server_up, up, cout, files, stored, handler>>
    BY <1>4 DEF Listed, LookupMissing, GotCode
  <2>4. /\ want' \in [Sessions -> Rfc \cup {None}] /\ from' \in [Sessions -> Sessions \cup {None}]
        /\ \A r \in Sessions \ {s} : want'[r] = want[r]
    BY <1>4 DEF Listed, LookupMissing, GotCode
  <2>5. WantInv'
    BY <2>1, <2>2, <2>3, <2>4, ClientTakesTypes
  <2> QED  BY <2>1, <2>2, <2>3, <2>4, <2>5, ClientTakesTypes, ClientTypes
<1>5. CASE PeerConnects(s)
  <2>1. ClientTakes(s, "lookup_body", "fetch") /\ "fetch" \in ClientLabels
    BY <1>5, Labels DEF PeerConnects
  <2>2. UNCHANGED <<index, server_up, up, cout, files, stored, want, handler>>
    BY <1>5 DEF PeerConnects
  <2>3. from' \in [Sessions -> Sessions \cup {None}]
    BY <1>5 DEF PeerConnects, Serving
  <2>4. WantInv'
    BY <2>1, <2>2, ClientTakesTypes
  <2> QED  BY <2>1, <2>2, <2>3, <2>4, ClientTakesTypes, ClientTypes
<1> QED  BY <1>1, <1>2, <1>3, <1>4, <1>5

LEMMA ClientCommandTypes ==
  ASSUME TypeInv, NEW s \in Sessions,
         Announce(s) \/ ListRemote(s) \/ (\E n \in Rfc : Get(s, n)) \/ Quit(s) \/ FetchDone(s)
  PROVE  TypeInv'
<1> USE DEF TypeInv, TypeOK, QueueTypes, WantInv
<1>1. /\ Command(ADD) \in Frames /\ Command(LIST) \in Frames
      /\ Command(LOOKUP) \in Frames /\ Command(DISCONNECT) \in Frames
  BY FrameTypes DEF Commands
<1>2. \A n \in Rfc, w \in {ADD, LOOKUP} : <<Command(w), Frame("number", n)>> \in Seq(Frames)
  BY <1>1, NumberTypes, ShortSeqs
<1>3. CASE Announce(s)
  <2>1. UNCHANGED <<index, server_up, up, down, files, stored, want, from, handler>>
    BY <1>3 DEF Announce
  <2>2. CASE files[s] = <<>>
    <3>1. cpc' = [cpc EXCEPT ![s] = "prompt"] /\ cout' = cout
      BY <1>3, <2>2 DEF Announce, ClientGoto
    <3>2. cpc' \in [Sessions -> ClientLabels] /\ WantInv'
      BY <2>1, <3>1, Labels
    <3> QED  BY <2>1, <3>1, <3>2, ClientTypes
  <2>3. CASE files[s] # <<>>
    <3>1. cpc' = [cpc EXCEPT ![s] = "add_code"]
          /\ cout' = [cout EXCEPT ![s] = <<Command(ADD), Frame("number", Head(files[s]))>>]
      BY <1>3, <2>3 DEF Announce, ClientGoto
    <3>2. Head(files[s]) \in Rfc
      BY <2>3, TailFacts
    <3>3. cout' \in [Sessions -> Seq(Frames)]
      BY <1>2, <3>1, <3>2
    <3>4. cpc' \in [Sessions -> ClientLabels] /\ WantInv'
      BY <2>1, <2>3, <3>1, Labels
    <3> QED  BY <2>1, <3>3, <3>4, ClientTypes
  <2> QED  BY <2>2, <2>3
<1>4. CASE ListRemote(s)
  <2>1. cpc' = [cpc EXCEPT ![s] = "list_size"] /\ cout' = [cout EXCEPT ![s] = <<Command(LIST)>>]
        /\ UNCHANGED <<index, server_up, up, down, files, stored, want, from, handler>>
    BY <1>4 DEF ListRemote, ClientGoto
  <2>2. cout' \in [Sessions -> Seq(Frames)]
    BY <1>1, <2>1, ShortSeqs
  <2>3. cpc' \in [Sessions -> ClientLabels] /\ WantInv'
    BY <2>1, Labels
  <2> QED  BY <2>1, <2>2, <2>3, ClientTypes
<1>5. ASSUME NEW n \in Rfc, Get(s, n)
      PROVE  TypeInv'
  <2>1. /\ cpc' = [cpc EXCEPT ![s] = "lookup_size"] /\ want' = [want EXCEPT ![s] = n]
        /\ cout' = [cout EXCEPT ![s] = <<Command(LOOKUP), Frame("number", n)>>]
        /\ UNCHANGED <<index, server_up, up, down, files, stored, from, handler>>
    BY <1>5 DEF Get, ClientGoto
  <2>2. cout' \in [Sessions -> Seq(Frames)]
    BY <1>2, <2>1
  <2>3. cpc' \in [Sessions -> ClientLabels] /\ want' \in [Sessions -> Rfc \cup {None}] /\ WantInv'
    BY <2>1, Labels
  <2> QED  BY <2>1, <2>2, <2>3, ClientTypes
<1>6. CASE Quit(s)
  <2>1. cpc' = [cpc EXCEPT ![s] = "quit"] /\ cout' = [cout EXCEPT ![s] = <<Command(DISCONNECT)>>]
        /\ UNCHANGED <<index, server_up, up, down, files, stored, want, from, handler>>
    BY <1>6 DEF Quit, ClientGoto
  <2>2. cout' \in [Sessions -> Seq(Frames)]
    BY <1>1, <2>1, ShortSeqs
  <2>3. cpc' \in [Sessions -> ClientLabels] /\ WantInv'
    BY <2>1, Labels
  <2> QED  BY <2>1, <2>2, <2>3, ClientTypes
<1>7. CASE FetchDone(s)
  <2>1. /\ cpc[s] = "store" /\ cpc' = [cpc EXCEPT ![s] = "got_code"]
        /\ stored' = [stored EXCEPT ![s] = stored[s] \cup {want[s]}]
        /\ cout' = [cout EXCEPT ![s] = <<Command(ADD), Frame("number", want[s])>>]
        /\ UNCHANGED <<index, server_up, up, down, files, want, from, handler>>
    BY <1>7 DEF FetchDone, ClientGoto
  <2>2. want[s] \in Rfc
    BY <2>1
  <2>3. cout' \in [Sessions -> Seq(Frames)]
    BY <1>2, <2>1, <2>2
  <2>4. cpc' \in [Sessions -> ClientLabels] /\ stored' \in [Sessions -> SUBSET Rfc] /\ WantInv'
    BY <2>1, <2>2, Labels
  <2> QED  BY <2>1, <2>3, <2>4, ClientTypes
<1> QED  BY <1>3, <1>4, <1>5, <1>6, <1>7

LEMMA ClientGoTypes ==
  ASSUME TypeInv, NEW s \in Sessions, PeerAnswers(s) \/ FetchMissing(s)
  PROVE  TypeInv'
<1> USE DEF TypeInv, TypeOK, QueueTypes, WantInv
<1>1. CASE PeerAnswers(s)
  <2>1. /\ cpc[s] = "fetch" /\ cpc' = [cpc EXCEPT ![s] = "store"]
        /\ UNCHANGED <<index, server_up, up, down, cout, files, stored, want, from, handler>>
    BY <1>1 DEF PeerAnswers, ClientGoto
  <2>2. cpc' \in [Sessions -> ClientLabels] /\ WantInv'
    BY <2>1, Labels
  <2> QED  BY <2>1, <2>2, ClientTypes
<1>2. CASE FetchMissing(s)
  <2>1. /\ want' = [want EXCEPT ![s] = None] /\ from' = [from EXCEPT ![s] = None]
        /\ UNCHANGED <<index, server_up, up, files, stored, handler>>
    BY <1>2 DEF FetchMissing
  <2>2. want' \in [Sessions -> Rfc \cup {None}] /\ from' \in [Sessions -> Sessions \cup {None}]
    BY <2>1
  <2>3. CASE cpc' = [cpc EXCEPT ![s] = "prompt"] /\ UNCHANGED <<cout, down>>
    <3>1. cpc' \in [Sessions -> ClientLabels] /\ WantInv'
      BY <2>1, <2>3, Labels
    <3> QED  BY <2>1, <2>2, <2>3, <3>1, ClientTypes
  <2>4. ASSUME NEW t, t = from[s], cpc' = [cpc EXCEPT ![s] = "prompt", ![t] = "ended"],
               cout' = [cout EXCEPT ![t] = <<>>], down' = [down EXCEPT ![t] = <<>>]
        PROVE  TypeInv'
    <3>1. cpc' \in [Sessions -> ClientLabels]
      BY <2>4, Labels
    <3>2. cout' \in [Sessions -> Seq(Frames)] /\ down' \in [Sessions -> Seq(Frames)]
      BY <2>4, ShortSeqs
    <3>3. /\ \A r \in Sessions \ {s} : cpc'[r] = cpc[r] \/ cpc'[r] = "ended"
          /\ cpc'[s] \in {"prompt", "ended"}
      BY <2>4
    <3>4. WantInv'
      BY <2>1, <3>3
    <3> QED  BY <2>1, <2>2, <3>1, <3>2, <3>4, ClientTypes
  <2> QED  BY <1>2, <2>3, <2>4 DEF FetchMissing, ClientGoto
<1> QED  BY <1>1, <1>2

\* A step that changes nothing but a handler, the index and what is under way.
LEMMA HandlerTypes ==
  ASSUME TypeInv, UNCHANGED client,
         registered' \subseteq Peer, holders' \subseteq Holder,
         reply' \in [Sessions -> SUBSET Holder], server_up' \in BOOLEAN,
         up' \in [Sessions -> Seq(Frames)], down' \in [Sessions -> Seq(Frames)],
         hout' \in [Sessions -> Seq(Frames)], hpc' \in [Sessions -> HandlerLabels],
         message' \in [Sessions -> Words \cup { NtoHL(w) : w \in Words } \cup {None}]
  PROVE  TypeInv'
BY DEF TypeInv, TypeOK, QueueTypes, WantInv, client

LEMMA HandlerTakesTypes ==
  ASSUME TypeInv, NEW s \in Sessions, NEW label, NEW next \in HandlerLabels,
         HandlerTakes(s, label, next)
  PROVE  /\ up' = [up EXCEPT ![s] = Tail(up[s])] /\ up' \in [Sessions -> Seq(Frames)]
         /\ hpc' = [hpc EXCEPT ![s] = next] /\ hpc' \in [Sessions -> HandlerLabels]
<1>1. up[s] \in Seq(Frames) /\ up[s] # <<>>
  BY DEF TypeInv, QueueTypes, HandlerTakes
<1>2. Tail(up[s]) \in Seq(Frames)
  BY <1>1, TailFacts
<1> QED  BY <1>1, <1>2 DEF TypeInv, TypeOK, QueueTypes, HandlerTakes, HandlerGoto

LEMMA HandlerSendTypes ==
  ASSUME TypeInv, NEW s \in Sessions,
         Accept(s) \/ HandlerSend(s) \/ HandlerSendNull(s) \/ HandlerSendFails(s)
  PROVE  TypeInv'
<1> USE DEF TypeInv, TypeOK, QueueTypes
<1>1. CASE Accept(s)
  <2>1. /\ hpc' = [hpc EXCEPT ![s] = "version"]
        /\ hout' = [hout EXCEPT ![s] = <<Frame("version", ServerVersion)>>]
        /\ UNCHANGED <<index, server_up, up, down, client, message>>
    BY <1>1 DEF Accept, HandlerGoto
  <2>2. <<Frame("version", ServerVersion)>> \in Seq(Frames)
    BY FrameTypes, ShortSeqs DEF ServerVersion
  <2>3. hpc' \in [Sessions -> HandlerLabels] /\ hout' \in [Sessions -> Seq(Frames)]
    BY <2>1, <2>2, Labels
  <2> QED  BY <2>1, <2>3, HandlerTypes DEF index
<1>2. CASE HandlerSend(s)
  <2>1. /\ hout[s] \in Seq(Frames) /\ hout[s] # <<>> /\ down[s] \in Seq(Frames)
        /\ down' = [down EXCEPT ![s] = Append(down[s], Head(hout[s]))]
        /\ hout' = [hout EXCEPT ![s] = Tail(hout[s])]
        /\ UNCHANGED <<index, server_up, up, client, hpc, message>>
    BY <1>2 DEF HandlerSend
  <2>2. Tail(hout[s]) \in Seq(Frames) /\ Head(hout[s]) \in Frames
    BY <2>1, TailFacts
  <2>3. Append(down[s], Head(hout[s])) \in Seq(Frames)
    BY <2>1, <2>2, AppendFacts
  <2>4. down' \in [Sessions -> Seq(Frames)] /\ hout' \in [Sessions -> Seq(Frames)]
    BY <2>1, <2>2, <2>3
  <2> QED  BY <2>1, <2>4, HandlerTypes DEF index
<1>3. CASE HandlerSendNull(s)
  BY <1>3, HandlerTypes DEF HandlerSendNull, index, handler
<1>4. CASE HandlerSendFails(s)
  <2>1. /\ hout[s] \in Seq(Frames) /\ hout[s] # <<>>
        /\ UNCHANGED <<index, up, down, client, hpc, message>>
    BY <1>4 DEF HandlerSendFails
  <2>2. Tail(hout[s]) \in Seq(Frames)
    BY <2>1, TailFacts
  <2>3. hout' \in [Sessions -> Seq(Frames)] /\ server_up' \in BOOLEAN
    BY <1>4, <2>2 DEF HandlerSendFails
  <2> QED  BY <2>1, <2>3, HandlerTypes DEF index
<1> QED  BY <1>1, <1>2, <1>3, <1>4

LEMMA HeadFits ==
  ASSUME NEW s, NEW c, NEW h, NEW u \in Seq(Frames), NEW cs, NEW d, NEW hs,
         Conn(s, c, h, u, cs, d, hs), u # <<>>
  PROVE  Fits(s, Head(u), Place(h) + 1)
<1>1. Head(u) = u[1] /\ 1 \in 1..Len(u)
  BY SeqFacts, TailFacts
<1> QED  BY <1>1 DEF Conn, UpFits

LEMMA MessageIsCommand ==
  ASSUME TypeInv, ConnInv, NEW s \in Sessions, HandlerMessage(s)
  PROVE  \E w \in Commands :
           /\ Head(up[s]) = Command(w) /\ NtoHL(Head(up[s]).val) = w
           /\ HandlerTakes(s, "message", Dispatch(w)) /\ Dispatch(w) \in HandlerLabels
           /\ message' = [message EXCEPT ![s] = w]
<1>1. /\ Conn(s, cpc[s], "message", up[s], cout[s], down[s], hout[s])
      /\ up[s] \in Seq(Frames) /\ up[s] # <<>>
  BY DEF ConnInv, TypeInv, QueueTypes, HandlerMessage, HandlerTakes
<1>2. Fits(s, Head(up[s]), 5)
  <2>1. Place("message") + 1 = 5
    BY DEF Place
  <2> QED  BY <1>1, <2>1, HeadFits
<1>3. PICK w \in Commands : Head(up[s]) = Command(w)
  BY <1>2 DEF Fits
<1>4. NtoHL(Head(up[s]).val) = w
  BY <1>3, WordValues
<1>5. Dispatch(w) \in HandlerLabels
  BY Labels DEF Dispatch, Commands, ADD, LIST, LOOKUP, DISCONNECT
<1> QED  BY <1>3, <1>4, <1>5 DEF HandlerMessage, ToHandler

\* What a word leads to.
LEMMA DispatchOf ==
  /\ Dispatch(ADD) = "add_number" /\ Dispatch(LIST) = "list"
  /\ Dispatch(LOOKUP) = "lookup_number" /\ Dispatch(DISCONNECT) = "remove"
  /\ \A w : Dispatch(w) \in {"add_number", "list", "lookup_number", "remove", "message"}
  /\ \A w : w \notin Commands => Dispatch(w) = "message"
  /\ \A w : Dispatch(w) = "remove" <=> w = DISCONNECT
<1> USE DEF Dispatch, Commands, ADD, LIST, LOOKUP, DISCONNECT
<1>1. /\ Dispatch(ADD) = "add_number" /\ Dispatch(LIST) = "list"
      /\ Dispatch(LOOKUP) = "lookup_number" /\ Dispatch(DISCONNECT) = "remove"
  OBVIOUS
<1>2. ASSUME NEW w, w \notin Commands
      PROVE  Dispatch(w) = "message"
  BY <1>2
<1>3. ASSUME NEW w
      PROVE  /\ Dispatch(w) \in {"add_number", "list", "lookup_number", "remove", "message"}
             /\ Dispatch(w) = "remove" <=> w = DISCONNECT
  BY <1>1, <1>2
<1> QED  BY <1>1, <1>2, <1>3

LEMMA HandlerReadTypes ==
  ASSUME TypeInv, ConnInv, NEW s \in Sessions,
         HandlerVersion(s) \/ HandlerHost(s) \/ HandlerPort(s)
           \/ HandlerMessage(s) \/ HandlerStaleMessage(s)
  PROVE  TypeInv'
<1> USE DEF TypeInv, TypeOK, QueueTypes
<1>1. CASE HandlerVersion(s) \/ HandlerHost(s)
  <2>1. PICK label \in {"version", "host_len", "host"},
             next \in {"host_len", "host", "port", "rejected"} : HandlerTakes(s, label, next)
    BY <1>1 DEF HandlerVersion, HandlerHost
  <2>2. next \in HandlerLabels /\ server_up' \in BOOLEAN
    BY <1>1, <2>1, Labels DEF HandlerVersion, HandlerHost
  <2>3. UNCHANGED <<index, down, client, hout, message>>
    BY <1>1 DEF HandlerVersion, HandlerHost
  <2> QED  BY <2>1, <2>2, <2>3, HandlerTakesTypes, HandlerTypes DEF index
<1>2. CASE HandlerPort(s)
  <2>1. /\ HandlerTakes(s, "port", "message") /\ "message" \in HandlerLabels
        /\ UNCHANGED <<holders, reply, server_up, down, client, hout, message>>
        /\ registered' = registered \cup {PeerOf[s]}
    BY <1>2, Labels DEF HandlerPort, Index!Register
  <2>2. registered' \subseteq Peer
    BY <2>1, NumberTypes
  <2> QED  BY <2>1, <2>2, HandlerTakesTypes, HandlerTypes
<1>3. CASE HandlerMessage(s)
  <2>1. PICK w \in Commands : /\ HandlerTakes(s, "message", Dispatch(w))
                              /\ Dispatch(w) \in HandlerLabels
                              /\ message' = [message EXCEPT ![s] = w]
    BY <1>3, MessageIsCommand
  <2>2. w \in Words
    BY DEF Commands, Words
  <2>3. message' \in [Sessions -> Words \cup { NtoHL(v) : v \in Words } \cup {None}]
    BY <2>1, <2>2
  <2>4. UNCHANGED <<index, server_up, down, client, hout>>
    BY <1>3 DEF HandlerMessage
  <2> QED  BY <2>1, <2>3, <2>4, HandlerTakesTypes, HandlerTypes DEF index
<1>4. CASE HandlerStaleMessage(s)
  <2>1. PICK old \in IF message[s] = None THEN {HELLO, ADD, LIST, LOOKUP, DISCONNECT}
                                          ELSE {NtoHL(message[s])} :
               /\ HandlerStarves(s, "message", Dispatch(old))
               /\ message' = [message EXCEPT ![s] = old]
    BY <1>4 DEF HandlerStaleMessage
  <2>2. old \in Words \cup { NtoHL(v) : v \in Words }
    <3>1. CASE message[s] = None
      BY <2>1, <3>1 DEF Words
    <3>2. CASE message[s] # None
      <4>1. message[s] \in Words \/ \E v \in Words : message[s] = NtoHL(v)
        BY <3>2
      <4>2. old = NtoHL(message[s])
        BY <2>1, <3>2
      <4> QED  BY <4>1, <4>2, WordValues
    <3> QED  BY <3>1, <3>2
  <2>3. message' \in [Sessions -> Words \cup { NtoHL(v) : v \in Words } \cup {None}]
    BY <2>1, <2>2
  <2>4. /\ UNCHANGED <<index, server_up, down, client, hout, up>>
        /\ hpc' = [hpc EXCEPT ![s] = Dispatch(old)]
    BY <1>4, <2>1 DEF HandlerStaleMessage, HandlerStarves, HandlerGoto
  <2>5. Dispatch(old) \in HandlerLabels
    BY DispatchOf, Labels
  <2>6. hpc' \in [Sessions -> HandlerLabels]
    BY <2>4, <2>5
  <2> QED  BY <2>3, <2>4, <2>6, HandlerTypes DEF index
<1> QED  BY <1>1, <1>2, <1>3, <1>4

LEMMA HandlerNumberTypes ==
  ASSUME TypeInv, NEW s \in Sessions, NEW n, NEW label, NEW next \in HandlerLabels,
         HandlerNumber(s, n, label, next)
  PROVE  /\ up' \in [Sessions -> Seq(Frames)]
         /\ hpc' = [hpc EXCEPT ![s] = next] /\ hpc' \in [Sessions -> HandlerLabels]
<1>1. CASE HandlerTakes(s, label, next)
  BY <1>1, HandlerTakesTypes
<1>2. CASE HandlerStarves(s, label, next)
  BY <1>2 DEF HandlerStarves, HandlerGoto, TypeInv, TypeOK, QueueTypes
<1> QED  BY <1>1, <1>2 DEF HandlerNumber

LEMMA ResponseType ==
  ASSUME NEW S \in SUBSET Holder
  PROVE  /\ Response(S) \in Seq(Frames) /\ Len(Response(S)) = 2
         /\ Response(S)[1].tag = "size" /\ Response(S)[1] # Null
         /\ \/ Response(S)[2].tag = "body" /\ Response(S)[2] # Null
            \/ Response(S)[2] = Null /\ ~Valid(S)
<1> DEFINE x == IF Valid(S) THEN [tag |-> "body", val |-> 0, body |-> S] ELSE Null
<1>1. /\ x \in Frames
      /\ \/ x.tag = "body" /\ x # Null
         \/ x = Null /\ ~Valid(S)
  <2>1. CASE Valid(S)
    BY <2>1, FrameTypes DEF Null, Frame
  <2>2. CASE ~Valid(S)
    BY <2>2, FrameTypes
  <2> QED  BY <2>1, <2>2
<1>2. Frame("size", 0) \in Frames /\ Frame("size", 0).tag = "size" /\ Frame("size", 0) # Null
  BY FrameTypes DEF Frame, Null
<1> HIDE DEF x
<1>3. Response(S) = <<Frame("size", 0), x>>
  BY DEF Response, x
<1>4. Response(S) \in Seq(Frames)
  BY <1>1, <1>2, <1>3, ShortSeqs
<1> QED  BY <1>1, <1>2, <1>3, <1>4, SmallSeqs

LEMMA HandlerWorkTypes ==
  ASSUME TypeInv, NEW s \in Sessions,
         HandlerAdd(s) \/ HandlerList(s) \/ HandlerLookup(s) \/ HandlerRespond(s)
           \/ HandlerRemove(s)
  PROVE  TypeInv'
<1> USE DEF TypeInv, TypeOK, QueueTypes
<1>1. CASE HandlerAdd(s)
  <2>1. PICK n \in Rfc : HandlerNumber(s, n, "add_number", "message")
          /\ \/ Index!Announce(s, n) /\ hout' = [hout EXCEPT ![s] = <<Frame("code", 200)>>]
             \/ UNCHANGED index /\ hout' = [hout EXCEPT ![s] = <<Frame("code", 400)>>]
    BY <1>1 DEF HandlerAdd
  <2>2. <<Frame("code", 200)>> \in Seq(Frames) /\ <<Frame("code", 400)>> \in Seq(Frames)
    BY FrameTypes, ShortSeqs
  <2>3. hout' \in [Sessions -> Seq(Frames)]
    BY <2>1, <2>2
  <2>4. holders' \subseteq Holder /\ UNCHANGED <<registered, reply>>
    BY <2>1, NumberTypes DEF Index!Announce, index
  <2>5. UNCHANGED <<server_up, down, client, message>>
    BY <1>1 DEF HandlerAdd
  <2>6. "message" \in HandlerLabels
    BY Labels
  <2>7. up' \in [Sessions -> Seq(Frames)] /\ hpc' \in [Sessions -> HandlerLabels]
    BY <2>1, <2>6, HandlerNumberTypes
  <2> QED  BY <2>3, <2>4, <2>5, <2>7, HandlerTypes
<1>2. ASSUME NEW n, Index!Query(s, n)
      PROVE  reply' \in [Sessions -> SUBSET Holder] /\ UNCHANGED <<registered, holders>>
  BY <1>2 DEF Index!Query
<1>3. CASE HandlerList(s)
  <2>1. /\ hpc' = [hpc EXCEPT ![s] = "respond"] /\ Index!Query(s, None)
        /\ UNCHANGED <<server_up, up, down, client, hout, message>>
    BY <1>3 DEF HandlerList, HandlerGoto
  <2>2. hpc' \in [Sessions -> HandlerLabels]
    BY <2>1, Labels
  <2> QED  BY <1>2, <2>1, <2>2, HandlerTypes
<1>4. CASE HandlerLookup(s)
  <2>1. PICK n \in Rfc : HandlerNumber(s, n, "lookup_number", "respond") /\ Index!Query(s, n)
    BY <1>4 DEF HandlerLookup
  <2>2. UNCHANGED <<server_up, down, client, hout, message>> /\ "respond" \in HandlerLabels
    BY <1>4, Labels DEF HandlerLookup
  <2> QED  BY <1>2, <2>1, <2>2, HandlerNumberTypes, HandlerTypes
<1>5. CASE HandlerRespond(s)
  <2>1. /\ hpc' = [hpc EXCEPT ![s] = "message"]
        /\ hout' = [hout EXCEPT ![s] = Response(reply[s])]
        /\ reply' = [reply EXCEPT ![s] = {}]
        /\ UNCHANGED <<registered, holders, server_up, up, down, client, message>>
    BY <1>5 DEF HandlerRespond, HandlerGoto, Index!Respond
  <2>2. hpc' \in [Sessions -> HandlerLabels] /\ reply' \in [Sessions -> SUBSET Holder]
    BY <2>1, Labels
  <2>3. hout' \in [Sessions -> Seq(Frames)]
    BY <2>1, ResponseType
  <2> QED  BY <2>1, <2>2, <2>3, HandlerTypes
<1>6. CASE HandlerRemove(s)
  <2>1. /\ \/ hpc' = [hpc EXCEPT ![s] = "leave"]
           \/ hpc' = [hpc EXCEPT ![s] = "finished"]
        /\ holders' \subseteq holders /\ registered' \subseteq registered
        /\ UNCHANGED <<reply, server_up, up, down, client, hout, message>>
    BY <1>6 DEF HandlerRemove, HandlerGoto, Index!Withdraw, Index!Unregister
  <2>2. hpc' \in [Sessions -> HandlerLabels]
    BY <2>1, Labels
  <2>3. holders' \subseteq Holder /\ registered' \subseteq Peer
    BY <2>1
  <2> QED  BY <2>1, <2>2, <2>3, HandlerTypes
<1> QED  BY <1>1, <1>3, <1>4, <1>5, <1>6

LEMMA TypeStep ==
  ASSUME TypeInv, ConnInv, [Next]_vars
  PROVE  TypeInv'
<1>1. ASSUME NEW s \in Sessions, User(s)
      PROVE  TypeInv'
  BY <1>1, StartTypes, ClientCommandTypes, ClientEndsTypes DEF User
<1>2. ASSUME NEW s \in Sessions, ClientStep(s)
      PROVE  TypeInv'
  BY <1>2, ClientSendTypes, ClientEndsTypes, ClientTakeTypes, ClientCommandTypes, ClientGoTypes
     DEF ClientStep
<1>3. ASSUME NEW s \in Sessions, HandlerStep(s)
      PROVE  TypeInv'
  BY <1>3, HandlerSendTypes, HandlerReadTypes, HandlerWorkTypes DEF HandlerStep
<1>4. CASE UNCHANGED vars
  <2>1. UNCHANGED <<index, server_up, handler>> /\ UNCHANGED <<up, down, client>>
    BY <1>4 DEF vars
  <2> QED
    BY <2>1 DEF index, handler, client, TypeInv, TypeOK, QueueTypes, WantInv
<1> QED  BY <1>1, <1>2, <1>3, <1>4 DEF Next

(***************************************************************************)
(* The frames match                                                        *)
(***************************************************************************)

\* A step of one run and its handler leaves the others alone.
Only(s) ==
  \A r \in Sessions \ {s} :
    /\ cpc'[r] = cpc[r] /\ hpc'[r] = hpc[r] /\ message'[r] = message[r]
    /\ up'[r] = up[r] /\ cout'[r] = cout[r] /\ down'[r] = down[r] /\ hout'[r] = hout[r]

LEMMA ConnStays ==
  ASSUME ConnInv, NEW s \in Sessions, Only(s),
         Conn(s, cpc'[s], hpc'[s], up'[s], cout'[s], down'[s], hout'[s])
  PROVE  ConnInv'
BY DEF ConnInv, Only

\* The values of a connection.
LEMMA ConnOf ==
  ASSUME TypeInv, ConnInv, NEW s \in Sessions
  PROVE  /\ Conn(s, cpc[s], hpc[s], up[s], cout[s], down[s], hout[s])
         /\ cpc[s] \in ClientLabels /\ hpc[s] \in HandlerLabels
         /\ up[s] \in Seq(Frames) /\ cout[s] \in Seq(Frames)
         /\ down[s] \in Seq(Frames) /\ hout[s] \in Seq(Frames)
BY DEF TypeInv, TypeOK, QueueTypes, ConnInv

LEMMA ClientConnStep ==
  ASSUME TypeInv, ConnInv, NEW s \in Sessions, User(s) \/ ClientStep(s), ~FetchMissing(s)
  PROVE  Only(s) /\ Conn(s, cpc'[s], hpc'[s], up'[s], cout'[s], down'[s], hout'[s])
<1> USE DEF Only, handler
<1>0. /\ up \in [Sessions -> Seq(Frames)] /\ down \in [Sessions -> Seq(Frames)]
      /\ cout \in [Sessions -> Seq(Frames)] /\ cpc \in [Sessions -> ClientLabels]
  BY DEF TypeInv, TypeOK, QueueTypes
<1>1. CASE Start(s)
  <2>1. /\ cpc[s] = "off" /\ cpc'[s] = "version" /\ Only(s)
        /\ cout'[s] = <<Frame("version", Version[s])>>
        /\ UNCHANGED <<hpc, up, down, hout>>
    BY <1>0, <1>1 DEF Start, ClientGoto
  <2> QED  BY <2>1, ConnOf, ConnStart
<1>2. CASE ClientSend(s)
  <2>1. /\ cout[s] # <<>> /\ up'[s] = Append(up[s], Head(cout[s])) /\ cout'[s] = Tail(cout[s])
        /\ UNCHANGED <<cpc, hpc, down, hout>> /\ Only(s)
    BY <1>0, <1>2 DEF ClientSend
  <2> QED  BY <2>1, ConnOf, ConnSend
<1>3. CASE ClientSendFails(s) \/ PeerIsGone(s) \/ Close(s) \/ Interrupt(s)
  <2>1. /\ cpc'[s] = "ended" /\ cout'[s] = <<>> /\ down'[s] = <<>>
        /\ UNCHANGED <<up, hpc, hout>> /\ Only(s)
    BY <1>0, <1>3 DEF ClientSendFails, PeerIsGone, Close, Interrupt, End, ClientGoto
  <2> QED  BY <2>1, ConnOf, ConnEnd
<1>4. ASSUME NEW label, NEW next, ClientTakes(s, label, next)
      PROVE  /\ cpc[s] = label /\ cpc'[s] = next /\ cout[s] = <<>> /\ down[s] # <<>>
             /\ down'[s] = Tail(down[s])
             /\ \A r \in Sessions \ {s} : cpc'[r] = cpc[r] /\ down'[r] = down[r]
  BY <1>0, <1>4 DEF ClientTakes, ClientGoto
<1>5. CASE ClientVersion(s)
  <2>1. CASE /\ ClientTakes(s, "version", "announce") /\ Head(down[s]).val = Version[s]
             /\ cout' = [cout EXCEPT ![s] =
                           <<Frame("host_len", 0), Frame("host", 0), Frame("port", 0)>>]
    <3>1. UNCHANGED <<up, hpc, hout, message>>
      BY <1>5 DEF ClientVersion
    <3>2. Only(s)
      BY <1>0, <1>4, <2>1, <3>1
    <3>3. cout'[s] = <<Frame("host_len", 0), Frame("host", 0), Frame("port", 0)>>
      BY <1>0, <2>1
    <3>4. Conn(s, "version", hpc[s], up[s], <<>>, down[s], hout[s]) /\ down[s] # <<>>
      BY <1>4, <2>1, ConnOf
    <3>5. Conn(s, "announce", hpc[s], up[s],
               <<Frame("host_len", 0), Frame("host", 0), Frame("port", 0)>>, Tail(down[s]), hout[s])
      BY <2>1, <3>4, ConnOf, ConnVersion
    <3> QED  BY <1>4, <2>1, <3>1, <3>2, <3>3, <3>5
  <2>2. CASE ClientTakes(s, "version", "ended") /\ UNCHANGED cout
    <3>1. UNCHANGED <<up, hpc, hout, message>>
      BY <1>5 DEF ClientVersion
    <3>2. Only(s)
      BY <1>0, <1>4, <2>2, <3>1
    <3>3. Tail(down[s]) = <<>>
      <4>1. /\ Counts("version", hpc[s], Len(up[s]) + Len(cout[s]), Len(down[s]) + Len(hout[s]))
            /\ down[s] \in Seq(Frames) /\ hout[s] \in Seq(Frames) /\ down[s] # <<>>
        BY <1>4, <2>2, ConnOf DEF Conn
      <4>2. Len(down[s]) \in Nat /\ Len(hout[s]) \in Nat /\ Len(down[s]) >= 1
        BY <4>1, SeqFacts, TailFacts
      <4>3. Len(down[s]) + Len(hout[s]) \in {0, 1}
        BY <4>1 DEF Counts
      <4>4. Len(down[s]) = 1
        BY <4>2, <4>3, OneOfTwo, Zenon
      <4>5. Tail(down[s]) \in Seq(Frames) /\ Len(Tail(down[s])) = 0
        BY <4>1, <4>4, TailFacts
      <4> QED  BY <4>5, SeqFacts
    <3>4. Conn(s, "ended", hpc[s], up[s], <<>>, <<>>, hout[s])
      BY ConnOf, ConnEnd
    <3> QED  BY <1>4, <2>2, <3>1, <3>2, <3>3, <3>4, ZenonT(30)
  <2> QED  BY <1>5, <2>1, <2>2 DEF ClientVersion, ToClient
<1>6. CASE Announced(s) \/ Listed(s) \/ LookupMissing(s) \/ GotCode(s) \/ PeerConnects(s)
             \/ ResponseSize(s)
  <2>1. PICK label, next :
          /\ ClientTakes(s, label, next)
          /\ \/ label \in {"add_code", "got_code", "list_body", "lookup_body"}
                  /\ next \in {"announce", "prompt", "fetch"}
             \/ label = "list_size" /\ next = "list_body"
             \/ label = "lookup_size" /\ next = "lookup_body"
    BY <1>6 DEF Announced, Listed, LookupMissing, GotCode, PeerConnects, ResponseSize
  <2>2. UNCHANGED <<up, cout, hpc, hout, message>>
    BY <1>6 DEF Announced, Listed, LookupMissing, GotCode, PeerConnects, ResponseSize
  <2>3. Only(s)
    BY <1>4, <2>1, <2>2
  <2>4. Conn(s, label, hpc[s], up[s], <<>>, down[s], hout[s]) /\ label \in ClientLabels
    BY <1>4, <2>1, ConnOf
  <2>5. Conn(s, next, hpc[s], up[s], <<>>, Tail(down[s]), hout[s])
    BY <1>4, <2>1, <2>4, ConnOf, ConnTake
  <2> QED  BY <1>4, <2>1, <2>2, <2>3, <2>5
<1>7. ASSUME cpc[s] \in {"announce", "prompt", "store"}, cout[s] = <<>>,
             CommandSeq(cpc'[s], cout'[s]), UNCHANGED <<up, down, hpc, hout, message>>,
             \A r \in Sessions \ {s} : cpc'[r] = cpc[r] /\ cout'[r] = cout[r]
      PROVE  Only(s) /\ Conn(s, cpc'[s], hpc'[s], up'[s], cout'[s], down'[s], hout'[s])
  <2>1. Only(s)
    BY <1>7
  <2>2. Conn(s, cpc[s], hpc[s], up[s], <<>>, down[s], hout[s])
    BY <1>7, ConnOf
  <2>3. Conn(s, cpc'[s], hpc[s], up[s], cout'[s], down[s], hout[s])
    BY <1>7, <2>2, ConnOf, ConnCommand
  <2> QED  BY <1>7, <2>1, <2>3
<1>8. ASSUME NEW c2 \in {"announce", "prompt", "fetch", "store"},
             cpc[s] \in {"announce", "prompt", "fetch", "store"},
             c2 \in {"fetch", "store"} => cpc[s] = "fetch",
             cpc' = [cpc EXCEPT ![s] = c2], UNCHANGED <<up, cout, down, hpc, hout, message>>
      PROVE  Only(s) /\ Conn(s, cpc'[s], hpc'[s], up'[s], cout'[s], down'[s], hout'[s])
  <2>1. Only(s) /\ cpc'[s] = c2
    BY <1>0, <1>8
  <2>2. Conn(s, c2, hpc[s], up[s], cout[s], down[s], hout[s])
    BY <1>8, ConnOf, ConnGo, ZenonT(30)
  <2> QED  BY <1>8, <2>1, <2>2
<1>9. CASE Announce(s)
  <2>1. cpc[s] = "announce" /\ cout[s] = <<>> /\ UNCHANGED <<up, down, hpc, hout, message>>
    BY <1>9 DEF Announce
  <2>2. CASE files[s] = <<>>
    <3>1. cpc' = [cpc EXCEPT ![s] = "prompt"] /\ UNCHANGED cout
      BY <1>9, <2>2 DEF Announce, ClientGoto
    <3> QED  BY <1>8, <2>1, <3>1
  <2>3. CASE files[s] # <<>>
    <3>1. /\ cpc' = [cpc EXCEPT ![s] = "add_code"]
          /\ cout' = [cout EXCEPT ![s] = <<Command(ADD), Frame("number", Head(files[s]))>>]
      BY <1>9, <2>3 DEF Announce, ClientGoto
    <3>2. Head(files[s]) \in Rfc
      <4>1. files[s] \in Seq(Rfc)
        BY DEF TypeInv, TypeOK
      <4> QED  BY <2>3, <4>1, TailFacts
    <3>3. CommandSeq("add_code", <<Command(ADD), Frame("number", Head(files[s]))>>)
      BY <3>2 DEF CommandSeq, CommandOf
    <3>4. /\ CommandSeq(cpc'[s], cout'[s])
          /\ \A r \in Sessions \ {s} : cpc'[r] = cpc[r] /\ cout'[r] = cout[r]
      BY <1>0, <3>1, <3>3
    <3> QED  BY <1>7, <2>1, <3>4
  <2> QED  BY <2>2, <2>3
<1>10. CASE ListRemote(s)
  <2>1. /\ cpc[s] = "prompt" /\ cout[s] = <<>> /\ UNCHANGED <<up, down, hpc, hout, message>>
        /\ cpc' = [cpc EXCEPT ![s] = "list_size"] /\ cout' = [cout EXCEPT ![s] = <<Command(LIST)>>]
    BY <1>10 DEF ListRemote, AtPrompt, ClientGoto
  <2>2. CommandSeq("list_size", <<Command(LIST)>>)
    BY DEF CommandSeq, CommandOf
  <2>3. /\ CommandSeq(cpc'[s], cout'[s])
        /\ \A r \in Sessions \ {s} : cpc'[r] = cpc[r] /\ cout'[r] = cout[r]
    BY <1>0, <2>1, <2>2
  <2> QED  BY <1>7, <2>1, <2>3
<1>11. ASSUME NEW n \in Rfc, Get(s, n)
       PROVE  Only(s) /\ Conn(s, cpc'[s], hpc'[s], up'[s], cout'[s], down'[s], hout'[s])
  <2>1. /\ cpc[s] = "prompt" /\ cout[s] = <<>> /\ UNCHANGED <<up, down, hpc, hout, message>>
        /\ cpc' = [cpc EXCEPT ![s] = "lookup_size"]
        /\ cout' = [cout EXCEPT ![s] = <<Command(LOOKUP), Frame("number", n)>>]
    BY <1>11 DEF Get, AtPrompt, ClientGoto
  <2>2. CommandSeq("lookup_size", <<Command(LOOKUP), Frame("number", n)>>)
    BY DEF CommandSeq, CommandOf
  <2>3. /\ CommandSeq(cpc'[s], cout'[s])
        /\ \A r \in Sessions \ {s} : cpc'[r] = cpc[r] /\ cout'[r] = cout[r]
    BY <1>0, <2>1, <2>2
  <2> QED  BY <1>7, <2>1, <2>3
<1>12. CASE Quit(s)
  <2>1. /\ cpc[s] = "prompt" /\ cout[s] = <<>> /\ UNCHANGED <<up, down, hpc, hout, message>>
        /\ cpc' = [cpc EXCEPT ![s] = "quit"] /\ cout' = [cout EXCEPT ![s] = <<Command(DISCONNECT)>>]
    BY <1>12 DEF Quit, AtPrompt, ClientGoto
  <2>2. CommandSeq("quit", <<Command(DISCONNECT)>>)
    BY DEF CommandSeq, CommandOf
  <2>3. /\ CommandSeq(cpc'[s], cout'[s])
        /\ \A r \in Sessions \ {s} : cpc'[r] = cpc[r] /\ cout'[r] = cout[r]
    BY <1>0, <2>1, <2>2
  <2> QED  BY <1>7, <2>1, <2>3
<1>13. CASE FetchDone(s)
  <2>1. /\ cpc[s] = "store" /\ UNCHANGED <<up, down, hpc, hout, message>>
        /\ cpc' = [cpc EXCEPT ![s] = "got_code"]
        /\ cout' = [cout EXCEPT ![s] = <<Command(ADD), Frame("number", want[s])>>]
    BY <1>13 DEF FetchDone, ClientGoto
  <2>2. want[s] \in Rfc
    BY <2>1 DEF TypeInv, WantInv
  <2>3. CommandSeq("got_code", <<Command(ADD), Frame("number", want[s])>>)
    BY <2>2 DEF CommandSeq, CommandOf
  <2>4. /\ CommandSeq(cpc'[s], cout'[s])
        /\ \A r \in Sessions \ {s} : cpc'[r] = cpc[r] /\ cout'[r] = cout[r]
    BY <1>0, <2>1, <2>3
  <2>5. Len(cout[s]) = 0 /\ cout[s] \in Seq(Frames)
    BY <2>1, ConnOf DEF Conn
  <2>6. cout[s] = <<>>
    BY <2>5, SeqFacts
  <2> QED  BY <1>7, <2>1, <2>4, <2>6
<1>14. CASE PeerAnswers(s)
  <2>1. /\ cpc[s] = "fetch" /\ cpc' = [cpc EXCEPT ![s] = "store"]
        /\ UNCHANGED <<up, cout, down, hpc, hout, message>>
    BY <1>14 DEF PeerAnswers, ClientGoto
  <2> QED  BY <1>8, <2>1
<1> QED
  BY <1>1, <1>2, <1>3, <1>5, <1>6, <1>9, <1>10, <1>11, <1>12, <1>13, <1>14 DEF User, ClientStep

\* The file is not there: the client is back at its prompt, and its peer may end.
LEMMA MissingConnStep ==
  ASSUME TypeInv, ConnInv, NEW s \in Sessions, FetchMissing(s)
  PROVE  ConnInv'
<1>0. /\ cpc \in [Sessions -> ClientLabels] /\ cout \in [Sessions -> Seq(Frames)]
      /\ down \in [Sessions -> Seq(Frames)] /\ cpc[s] = "fetch"
      /\ UNCHANGED <<up, hpc, hout>>
  BY DEF TypeInv, TypeOK, QueueTypes, FetchMissing, handler
<1>1. \A r \in Sessions :
        \/ cpc'[r] = cpc[r] /\ cout'[r] = cout[r] /\ down'[r] = down[r]
        \/ cpc[r] = "fetch" /\ cpc'[r] = "prompt" /\ cout'[r] = cout[r] /\ down'[r] = down[r]
        \/ cpc'[r] = "ended" /\ cout'[r] = <<>> /\ down'[r] = <<>>
  <2>1. CASE ClientGoto(s, "prompt") /\ UNCHANGED <<cout, down>>
    BY <1>0, <2>1 DEF ClientGoto
  <2>2. CASE /\ cpc' = [cpc EXCEPT ![s] = "prompt", ![from[s]] = "ended"]
             /\ cout' = [cout EXCEPT ![from[s]] = <<>>]
             /\ down' = [down EXCEPT ![from[s]] = <<>>]
    BY <1>0, <2>2
  <2> QED  BY <2>1, <2>2 DEF FetchMissing
<1>2. ASSUME NEW r \in Sessions
      PROVE  Conn(r, cpc'[r], hpc[r], up[r], cout'[r], down'[r], hout[r])
  <2>1. CASE cpc'[r] = cpc[r] /\ cout'[r] = cout[r] /\ down'[r] = down[r]
    BY <2>1, ConnOf
  <2>2. CASE /\ cpc[r] = "fetch" /\ cpc'[r] = "prompt"
             /\ cout'[r] = cout[r] /\ down'[r] = down[r]
    <3>1. Conn(r, "fetch", hpc[r], up[r], cout[r], down[r], hout[r])
      BY <2>2, ConnOf
    <3>2. Conn(r, "prompt", hpc[r], up[r], cout[r], down[r], hout[r])
      BY <3>1, ConnOf, ConnGo
    <3> QED  BY <2>2, <3>2
  <2>3. CASE cpc'[r] = "ended" /\ cout'[r] = <<>> /\ down'[r] = <<>>
    BY <2>3, ConnOf, ConnEnd
  <2> QED  BY <1>1, <2>1, <2>2, <2>3
<1> QED  BY <1>0, <1>2 DEF ConnInv

\* A handler takes a frame, or finds that its client has ended.
LEMMA HandlerTakesConn ==
  ASSUME TypeInv, NEW s \in Sessions, NEW label, NEW next, HandlerTakes(s, label, next)
  PROVE  /\ hpc[s] = label /\ hpc'[s] = next /\ hout[s] = <<>> /\ up[s] # <<>>
         /\ up'[s] = Tail(up[s])
         /\ \A r \in Sessions \ {s} : hpc'[r] = hpc[r] /\ up'[r] = up[r]
BY DEF TypeInv, TypeOK, QueueTypes, HandlerTakes, HandlerGoto

LEMMA HandlerStarvesConn ==
  ASSUME TypeInv, ConnInv, NEW s \in Sessions, NEW label, NEW next \in HandlerLabels \ {"rejected"},
         HandlerStarves(s, label, next), UNCHANGED <<cpc, cout, down>>,
         hout'[s] \in Seq(Frames)
  PROVE  /\ Conn(s, cpc'[s], hpc'[s], up'[s], cout'[s], down'[s], hout'[s])
         /\ \A r \in Sessions \ {s} : hpc'[r] = hpc[r] /\ up'[r] = up[r]
<1>1. /\ up[s] = <<>> /\ cpc[s] = "ended" /\ hpc'[s] = next /\ UNCHANGED up
      /\ \A r \in Sessions \ {s} : hpc'[r] = hpc[r]
  BY DEF TypeInv, TypeOK, HandlerStarves, HandlerGoto, Ended
<1>2. Conn(s, "ended", hpc[s], up[s], cout[s], down[s], hout[s])
  BY <1>1, ConnOf
<1>3. Conn(s, "ended", next, up[s], cout[s], down[s], hout'[s])
  BY <1>1, <1>2, ConnOf, ConnEnded
<1> QED  BY <1>1, <1>3

\* The answer to an ADD.
LEMMA CodeFrame ==
  \A n \in Nat : /\ <<Frame("code", n)>> \in Seq(Frames) /\ Len(<<Frame("code", n)>>) = 1
                 /\ <<Frame("code", n)>>[1].tag = "code" /\ <<Frame("code", n)>>[1] # Null
<1>1. \A n \in Nat : Frame("code", n) \in Frames
  BY FrameTypes
<1>2. \A n \in Nat : Frame("code", n).tag = "code" /\ Frame("code", n) # Null
  BY DEF Frame, Null
<1> QED  BY <1>1, <1>2, ShortSeqs, SmallSeqs

LEMMA HandlerConnStep ==
  ASSUME TypeInv, ConnInv, NEW s \in Sessions, HandlerStep(s)
  PROVE  Only(s) /\ Conn(s, cpc'[s], hpc'[s], up'[s], cout'[s], down'[s], hout'[s])
<1> DEFINE Good == Only(s) /\ Conn(s, cpc'[s], hpc'[s], up'[s], cout'[s], down'[s], hout'[s])
<1>0. /\ up \in [Sessions -> Seq(Frames)] /\ down \in [Sessions -> Seq(Frames)]
      /\ hout \in [Sessions -> Seq(Frames)] /\ hpc \in [Sessions -> HandlerLabels]
      /\ DOMAIN message = Sessions
  BY DEF TypeInv, TypeOK, QueueTypes
<1>1. CASE Accept(s)
  <2>1. /\ hpc[s] = "off" /\ cpc[s] # "off" /\ hpc'[s] = "version"
        /\ hout'[s] = <<Frame("version", ServerVersion)>>
        /\ UNCHANGED <<up, down, cpc, cout>> /\ Only(s)
    BY <1>0, <1>1 DEF Accept, HandlerGoto, Only, client
  <2>2. Conn(s, cpc[s], "off", up[s], cout[s], down[s], hout[s])
    BY <2>1, ConnOf
  <2>3. Conn(s, cpc[s], "version", up[s], cout[s], down[s], <<Frame("version", ServerVersion)>>)
    BY <2>1, <2>2, ConnOf, ConnAccept
  <2> QED  BY <2>1, <2>3
<1>2. CASE HandlerSend(s)
  <2>1. /\ hout[s] # <<>> /\ Head(hout[s]) # Null /\ cpc[s] # "ended"
        /\ down'[s] = Append(down[s], Head(hout[s])) /\ hout'[s] = Tail(hout[s])
        /\ UNCHANGED <<up, cpc, cout, hpc>> /\ Only(s)
    BY <1>0, <1>2 DEF HandlerSend, Ended, Only, client
  <2> QED  BY <2>1, ConnOf, ConnAnswer
<1>3. CASE HandlerSendNull(s)
  <2>1. UNCHANGED <<up, down, cpc, cout, hpc, hout, message>>
    BY <1>3 DEF HandlerSendNull, client, handler
  <2> QED  BY <2>1, ConnOf DEF Only
<1>4. CASE HandlerSendFails(s)
  <2>1. /\ cpc[s] = "ended" /\ UNCHANGED <<up, down, cpc, cout, hpc>> /\ Only(s)
        /\ hout[s] # <<>> /\ (hout'[s] = hout[s] \/ hout'[s] = Tail(hout[s]))
    BY <1>0, <1>4 DEF HandlerSendFails, Ended, Only, client
  <2>2. hout'[s] \in Seq(Frames)
    BY <2>1, ConnOf, TailFacts
  <2>3. Conn(s, "ended", hpc[s], up[s], cout[s], down[s], hout[s])
    BY <2>1, ConnOf
  <2>4. Conn(s, "ended", hpc[s], up[s], cout[s], down[s], hout'[s])
    BY <2>2, <2>3, ConnOf, ConnEnded
  <2> QED  BY <2>1, <2>4
<1>5. ASSUME NEW label, NEW next, HandlerTakes(s, label, next),
             UNCHANGED <<cpc, cout, down, hout, message>>,
             \/ label = "version" /\ next = "host_len"
             \/ label = "host_len" /\ next = "host"
             \/ label = "host" /\ next = "port"
             \/ label = "port" /\ next = "message"
      PROVE  Good
  <2>1. Conn(s, cpc[s], label, up[s], cout[s], down[s], <<>>) /\ label \in HandlerLabels
    BY <1>5, HandlerTakesConn, ConnOf
  <2>2. Conn(s, cpc[s], next, Tail(up[s]), cout[s], down[s], <<>>)
    BY <1>5, <2>1, HandlerTakesConn, ConnOf, ConnRead
  <2> QED  BY <1>5, <2>2, HandlerTakesConn DEF Only
<1>6. CASE HandlerVersion(s)
  <2>1. UNCHANGED <<cpc, cout, down, hout, message>>
    BY <1>6 DEF HandlerVersion, client
  <2>2. CASE Head(up[s]).val = ServerVersion
    <3>1. HandlerTakes(s, "version", "host_len")
      BY <1>6, <2>2 DEF HandlerVersion, ToHandler
    <3> QED  BY <1>5, <2>1, <3>1
  <2>3. CASE Head(up[s]).val # ServerVersion
    <3>1. HandlerTakes(s, "version", "rejected")
      BY <1>6, <2>3 DEF HandlerVersion, ToHandler
    <3>2. Conn(s, cpc[s], "version", up[s], cout[s], down[s], <<>>) /\ "version" \in HandlerLabels
      BY <3>1, HandlerTakesConn, ConnOf
    <3>3. Conn(s, cpc[s], "rejected", Tail(up[s]), cout[s], down[s], <<>>)
      BY <2>3, <3>1, <3>2, HandlerTakesConn, ConnOf, ShortSeqs, ConnReadLast
    <3> QED  BY <2>1, <3>1, <3>3, HandlerTakesConn DEF Only
  <2> QED  BY <2>2, <2>3
<1>7. CASE HandlerHost(s) \/ HandlerPort(s)
  <2>1. UNCHANGED <<cpc, cout, down, hout, message>>
    BY <1>7 DEF HandlerHost, HandlerPort, client
  <2> QED  BY <1>5, <1>7, <2>1 DEF HandlerHost, HandlerPort
<1>8. CASE HandlerMessage(s)
  <2>1. PICK w \in Commands : /\ Head(up[s]) = Command(w)
                              /\ HandlerTakes(s, "message", Dispatch(w))
                              /\ message' = [message EXCEPT ![s] = w]
    BY <1>8, MessageIsCommand
  <2>2. UNCHANGED <<cpc, cout, down, hout>>
    BY <1>8 DEF HandlerMessage, client
  <2>3. Conn(s, cpc[s], "message", up[s], cout[s], down[s], <<>>) /\ "message" \in HandlerLabels
    BY <2>1, HandlerTakesConn, ConnOf
  <2>4. up[s] # <<>>
    BY <2>1, HandlerTakesConn
  <2>5. Conn(s, cpc[s], Dispatch(w), Tail(up[s]), cout[s], down[s], <<>>)
    <3>1. CASE w = ADD
      BY <2>1, <2>3, <2>4, <3>1, DispatchOf, ConnOf, ConnRead
    <3>2. CASE w = LOOKUP
      BY <2>1, <2>3, <2>4, <3>2, DispatchOf, ConnOf, ConnRead
    <3>3. CASE w = LIST
      BY <2>1, <2>3, <2>4, <3>3, DispatchOf, ConnOf, ShortSeqs, ConnReadLast
    <3>4. CASE w = DISCONNECT
      BY <2>1, <2>3, <2>4, <3>4, DispatchOf, ConnOf, ShortSeqs, ConnReadLast
    <3> QED  BY <3>1, <3>2, <3>3, <3>4 DEF Commands
  <2>6. Only(s)
    BY <1>0, <2>1, <2>2, HandlerTakesConn DEF Only
  <2> QED  BY <2>1, <2>2, <2>5, <2>6, HandlerTakesConn
<1>9. CASE HandlerStaleMessage(s)
  <2>1. PICK old : /\ HandlerStarves(s, "message", Dispatch(old))
                   /\ message' = [message EXCEPT ![s] = old]
    BY <1>9 DEF HandlerStaleMessage
  <2>2. UNCHANGED <<cpc, cout, down, hout>>
    BY <1>9 DEF HandlerStaleMessage, client
  <2>3. Dispatch(old) \in HandlerLabels \ {"rejected"}
    BY DispatchOf, Labels
  <2> QED  BY <1>0, <2>1, <2>2, <2>3, ConnOf, HandlerStarvesConn DEF Only
<1>10. CASE HandlerAdd(s)
  <2>1. PICK n \in Rfc : /\ HandlerNumber(s, n, "add_number", "message")
                         /\ \/ hout' = [hout EXCEPT ![s] = <<Frame("code", 200)>>]
                            \/ hout' = [hout EXCEPT ![s] = <<Frame("code", 400)>>]
    BY <1>10 DEF HandlerAdd
  <2>2. UNCHANGED <<cpc, cout, down, message>> /\ "message" \in HandlerLabels \ {"rejected"}
    BY <1>10, Labels DEF HandlerAdd, client
  <2>3. /\ hout'[s] \in Seq(Frames) /\ Len(hout'[s]) = 1 /\ hout'[s][1].tag = "code"
        /\ \A r \in Sessions \ {s} : hout'[r] = hout[r]
    <3>1. \A r \in Sessions \ {s} : hout'[r] = hout[r]
      BY <1>0, <2>1
    <3>2. CASE hout' = [hout EXCEPT ![s] = <<Frame("code", 200)>>]
      <4>1. hout'[s] = <<Frame("code", 200)>>
        BY <1>0, <3>2
      <4> QED  BY <3>1, <4>1, CodeFrame
    <3>3. CASE hout' = [hout EXCEPT ![s] = <<Frame("code", 400)>>]
      <4>1. hout'[s] = <<Frame("code", 400)>>
        BY <1>0, <3>3
      <4> QED  BY <3>1, <4>1, CodeFrame
    <3> QED  BY <2>1, <3>2, <3>3
  <2>4. CASE HandlerTakes(s, "add_number", "message")
    <3>1. /\ Conn(s, cpc[s], "add_number", up[s], cout[s], down[s], <<>>)
          /\ "add_number" \in HandlerLabels
      BY <2>4, HandlerTakesConn, ConnOf
    <3>2. Conn(s, cpc[s], "message", Tail(up[s]), cout[s], down[s], hout'[s])
      <4>1. up[s] # <<>>
        BY <2>4, HandlerTakesConn
      <4> QED  BY <2>3, <3>1, <4>1, ConnOf, ConnReadLast
    <3> QED  BY <2>2, <2>3, <2>4, <3>2, HandlerTakesConn DEF Only
  <2>5. CASE HandlerStarves(s, "add_number", "message")
    BY <2>2, <2>3, <2>5, HandlerStarvesConn DEF Only
  <2> QED  BY <2>1, <2>4, <2>5 DEF HandlerNumber
<1>11. CASE HandlerLookup(s)
  <2>1. PICK n \in Rfc : HandlerNumber(s, n, "lookup_number", "respond")
    BY <1>11 DEF HandlerLookup
  <2>2. UNCHANGED <<cpc, cout, down, hout, message>> /\ "respond" \in HandlerLabels \ {"rejected"}
    BY <1>11, Labels DEF HandlerLookup, client
  <2>4. CASE HandlerTakes(s, "lookup_number", "respond")
    <3>1. /\ Conn(s, cpc[s], "lookup_number", up[s], cout[s], down[s], <<>>)
          /\ "lookup_number" \in HandlerLabels
      BY <2>4, HandlerTakesConn, ConnOf
    <3>2. Conn(s, cpc[s], "respond", Tail(up[s]), cout[s], down[s], <<>>)
      BY <2>4, <3>1, HandlerTakesConn, ConnOf, ShortSeqs, ConnReadLast
    <3> QED  BY <2>2, <2>4, <3>2, HandlerTakesConn DEF Only
  <2>5. CASE HandlerStarves(s, "lookup_number", "respond")
    BY <2>2, <2>5, ConnOf, HandlerStarvesConn DEF Only
  <2> QED  BY <2>1, <2>4, <2>5 DEF HandlerNumber
<1>12. CASE HandlerList(s) \/ HandlerRemove(s)
  <2>1. /\ \/ hpc[s] = "list" /\ hpc'[s] = "respond"
           \/ hpc[s] = "remove" /\ hpc'[s] = "leave"
           \/ hpc[s] = "leave" /\ hpc'[s] = "finished"
        /\ UNCHANGED <<up, cpc, cout, down, hout, message>>
        /\ \A r \in Sessions \ {s} : hpc'[r] = hpc[r]
    BY <1>0, <1>12 DEF HandlerList, HandlerRemove, HandlerGoto, client
  <2>2. Conn(s, cpc[s], hpc'[s], up[s], cout[s], down[s], hout[s])
    BY <2>1, ConnOf, ConnLocal
  <2> QED  BY <2>1, <2>2 DEF Only
<1>13. CASE HandlerRespond(s)
  <2>1. /\ hpc[s] = "respond" /\ hpc'[s] = "message" /\ hout'[s] = Response(reply[s])
        /\ UNCHANGED <<up, cpc, cout, down, message>> /\ Only(s)
    BY <1>0, <1>13 DEF HandlerRespond, HandlerGoto, Only, client
  <2>2. reply[s] \in SUBSET Holder
    BY DEF TypeInv, TypeOK
  <2>3. /\ hout'[s] \in Seq(Frames) /\ Len(hout'[s]) = 2 /\ hout'[s][1].tag = "size"
        /\ hout'[s][2].tag = "body" \/ hout'[s][2] = Null
    BY <2>1, <2>2, ResponseType
  <2>4. Conn(s, cpc[s], "message", up[s], cout[s], down[s], hout'[s])
    BY <2>1, <2>3, ConnOf, ConnLocal
  <2> QED  BY <2>1, <2>4
<1> QED
  BY <1>1, <1>2, <1>3, <1>4, <1>6, <1>7, <1>8, <1>9, <1>10, <1>11, <1>12, <1>13 DEF HandlerStep

LEMMA ConnStep ==
  ASSUME TypeInv, ConnInv, [Next]_vars
  PROVE  ConnInv'
<1>1. ASSUME NEW s \in Sessions, User(s) \/ ClientStep(s)
      PROVE  ConnInv'
  BY <1>1, MissingConnStep, ClientConnStep, ConnStays
<1>2. ASSUME NEW s \in Sessions, HandlerStep(s)
      PROVE  ConnInv'
  BY <1>2, HandlerConnStep, ConnStays
<1>3. CASE UNCHANGED vars
  BY <1>3 DEF vars, client, handler, ConnInv
<1> QED  BY <1>1, <1>2, <1>3 DEF Next

LEMMA Invariance ==
  Spec => [](TypeInv /\ ConnInv)
<1>1. Init => TypeInv /\ ConnInv
  BY InitTypes
<1>2. TypeInv /\ ConnInv /\ [Next]_vars => (TypeInv /\ ConnInv)'
  BY TypeStep, ConnStep
<1> QED  BY <1>1, <1>2, PTL DEF Spec

\* The clients and the handlers are at their labels, with frames that the other
\* side may send and with numbers that the clients have.
THEOREM TypeCorrect == Spec => []TypeOK
<1>1. TypeInv => TypeOK
  BY DEF TypeInv
<1> QED  BY <1>1, Invariance, PTL

LEMMA ConnMatches ==
  ASSUME NEW s, NEW c \in ClientLabels, NEW h \in HandlerLabels,
         NEW u \in Seq(Frames), NEW cs \in Seq(Frames), NEW d \in Seq(Frames),
         NEW hs \in Seq(Frames), Conn(s, c, h, u, cs, d, hs)
  PROVE  /\ d # <<>> => c \in DOMAIN ClientExpects /\ Head(d).tag = ClientExpects[c]
         /\ u # <<>> /\ h \in DOMAIN HandlerExpects => Head(u).tag = HandlerExpects[h]
         /\ h \in {"rejected", "finished"} => u = <<>>
<1>1. ASSUME d # <<>>
      PROVE  c \in DOMAIN ClientExpects /\ Head(d).tag = ClientExpects[c]
  <2>1. Head(d) = d[1] /\ 1 \in 1..Len(d) /\ Len(d) + Len(hs) # 0 /\ Len(d) # 0
    BY <1>1, SeqFacts, TailFacts
  <2>2. c # "ended" /\ AnswerFits(c, Head(d), 1)
    BY <2>1 DEF Conn, DownFits
  <2>3. c \in DOMAIN ClientExpects
    BY <2>1, <2>2, Labels DEF Conn, Counts
  <2> QED  BY <2>2, <2>3, Labels DEF AnswerFits, ClientExpects, Frame
<1>2. ASSUME u # <<>>, h \in DOMAIN HandlerExpects
      PROVE  Head(u).tag = HandlerExpects[h]
  <2>1. Fits(s, Head(u), Place(h) + 1)
    BY <1>2, HeadFits
  <2>2. /\ Place("version") + 1 = 1 /\ Place("host_len") + 1 = 2 /\ Place("host") + 1 = 3
        /\ Place("port") + 1 = 4 /\ Place("message") + 1 = 5
        /\ Place("add_number") + 1 = 6 /\ Place("lookup_number") + 1 = 6
    BY DEF Place
  <2> QED  BY <1>2, <2>1, <2>2, Labels, WordValues DEF Fits, HandlerExpects, Frame
<1>3. h \in {"rejected", "finished"} => u = <<>>
  BY SeqFacts DEF Conn, Taken
<1> QED  BY <1>1, <1>2, <1>3

\* Whatever arrives, at a client or at a handler, is what it is about to take,
\* and nothing arrives that nobody takes: the client program and client_handler
\* send and receive the same frames in the same order on every path, whenever a
\* client is interrupted.
THEOREM FramesAgree == Spec => []FramesMatch
<1>1. TypeInv /\ ConnInv => FramesMatch
  BY ConnOf, ConnMatches DEF FramesMatch, ToClient, ToHandler
<1> QED  BY <1>1, Invariance, PTL

(***************************************************************************)
(* Who may end the server                                                  *)
(***************************************************************************)

\* A client that has sent its DISCONNECT, or has ended, takes no other step than
\* to end; what it has sent, and its handler, are left alone by every client.
LEMMA ClientLeaves ==
  ASSUME TypeInv, NEW s \in Sessions, User(s) \/ ClientStep(s)
  PROVE  /\ \A r \in Sessions : cpc[r] \in {"quit", "ended"} => cpc'[r] \in {cpc[r], "ended"}
         /\ UNCHANGED <<registered, holders, reply, server_up, hpc, hout, message>>
         /\ ~ClientSend(s) => UNCHANGED up
         /\ \A r \in Sessions \ {s} : up'[r] = up[r]
<1>0. cpc \in [Sessions -> ClientLabels] /\ DOMAIN up = Sessions
  BY DEF TypeInv, TypeOK, QueueTypes
<1> USE DEF index, handler
<1>1. CASE Start(s) \/ (\E n \in Rfc : Get(s, n)) \/ ListRemote(s) \/ Quit(s) \/ Interrupt(s)
             \/ Announce(s)
  BY <1>0, <1>1
     DEF Start, Get, ListRemote, Quit, Interrupt, Announce, AtPrompt, ClientGoto, End
<1>2. CASE ClientSend(s) \/ ClientSendFails(s) \/ PeerIsGone(s) \/ Close(s)
  BY <1>0, <1>2 DEF ClientSend, ClientSendFails, PeerIsGone, Close, End, ClientGoto
<1>3. CASE ClientVersion(s) \/ Announced(s) \/ ResponseSize(s) \/ Listed(s) \/ LookupMissing(s)
             \/ PeerConnects(s) \/ GotCode(s)
  <2>1. PICK label, next :
          label \in ClientLabels \ {"quit", "ended"} /\ ClientTakes(s, label, next)
    BY <1>3, Labels DEF ClientVersion, Announced, ResponseSize, Listed, LookupMissing,
                        PeerConnects, GotCode
  <2>2. \A r \in Sessions : cpc[r] \in {"quit", "ended"} => cpc'[r] = cpc[r]
    BY <1>0, <2>1 DEF ClientTakes, ClientGoto
  <2>3. UNCHANGED <<registered, holders, reply, server_up, hpc, hout, message, up>>
    BY <1>3 DEF ClientVersion, Announced, ResponseSize, Listed, LookupMissing, PeerConnects, GotCode
  <2> QED  BY <2>2, <2>3
<1>4. CASE PeerAnswers(s) \/ FetchDone(s)
  BY <1>0, <1>4 DEF PeerAnswers, FetchDone, ClientGoto
<1>5. CASE FetchMissing(s)
  <2>1. /\ cpc[s] = "fetch"
        /\ \/ cpc' = [cpc EXCEPT ![s] = "prompt"]
           \/ cpc' = [cpc EXCEPT ![s] = "prompt", ![from[s]] = "ended"]
        /\ UNCHANGED <<registered, holders, reply, server_up, hpc, hout, message, up>>
    BY <1>5 DEF FetchMissing, ClientGoto
  <2> QED  BY <1>0, <2>1
<1> QED  BY <1>1, <1>2, <1>3, <1>4, <1>5 DEF User, ClientStep

\* Only a client that quits sends a DISCONNECT, and it is owed no answer then.
LEMMA DisconnectSent ==
  ASSUME NEW s, NEW c \in ClientLabels, NEW h \in HandlerLabels,
         NEW u \in Seq(Frames), NEW cs \in Seq(Frames), NEW d \in Seq(Frames),
         NEW hs \in Seq(Frames), Conn(s, c, h, u, cs, d, hs),
         cs # <<>>, Head(cs) = Command(DISCONNECT)
  PROVE  c = "quit" /\ hs = <<>>
<1>1. /\ Head(cs) = cs[1] /\ 1 \in 1..Len(cs) /\ Len(cs) # 0
      /\ Len(u) \in Nat /\ Len(cs) \in Nat /\ Len(cs) >= 1 /\ Len(d) \in Nat /\ Len(hs) \in Nat
  BY SeqFacts, TailFacts
<1>2. Fits(s, cs[1], Place(h) + Len(u) + 1) /\ c # "ended"
  BY <1>1 DEF Conn, UpFits
<1>3. Place(h) + Len(u) + 1 = 5
  <2>1. cs[1].tag = "message"
    BY <1>1, WordValues DEF Commands
  <2> QED  BY <1>2, <2>1 DEF Fits, Frame
<1>4. cs[1] = Command(CommandOf(c))
  BY <1>1, <1>2, <1>3 DEF Conn, UpWord
<1>5. CommandOf(c) = DISCONNECT
  BY <1>1, <1>4, WordValues DEF CommandOf, Commands
<1>6. Place(h) + (Len(u) + Len(cs)) >= 5 /\ Len(u) + Len(cs) >= 1 /\ Len(u) + Len(cs) \in Nat
  <2>1. Place(h) \in 0..6
    BY PlaceType
  <2>2. Place(h) \in Nat
    BY <2>1
  <2> QED  BY <1>1, <1>3, <2>2, FiveOrMore, Zenon
<1>7. c \notin {"add_code", "got_code", "list_size", "list_body", "lookup_size", "lookup_body"}
  BY <1>5 DEF CommandOf, ADD, LIST, LOOKUP, DISCONNECT
<1>8. Counts(c, h, Len(u) + Len(cs), Len(d) + Len(hs))
  BY DEF Conn
<1>9. c = "quit"
  <2>1. c \notin {"off", "announce", "prompt", "fetch", "store"}
    BY <1>6, <1>8, PlaceType DEF Counts
  <2>2. c # "version"
    <3>1. Place("off") = 0 /\ Place("version") = 0
      BY DEF Place
    <3> QED  BY <1>6, <1>8, <3>1 DEF Counts
  <2> QED  BY <1>2, <1>7, <2>1, <2>2, Labels
<1>10. Len(d) + Len(hs) = 0
  BY <1>8, <1>9 DEF Counts
<1> QED  BY <1>1, <1>9, <1>10, SeqFacts

\* A DISCONNECT is among the frames.
Bye(u) == \E i \in 1..Len(u) : u[i] = Command(DISCONNECT)

\* GoneInv, of one run.
Gone(h, m, u, hs, c) ==
  /\ m = DISCONNECT => h \in {"remove", "leave", "finished"}
  /\ m = DISCONNECT \/ Bye(u) => hs = <<>> /\ c \in {"quit", "ended"}

LEMMA GoneOf ==
  /\ GoneInv <=> \A s \in Sessions : Gone(hpc[s], message[s], up[s], hout[s], cpc[s])
  /\ GoneInv' <=> \A s \in Sessions : Gone(hpc'[s], message'[s], up'[s], hout'[s], cpc'[s])
BY DEF GoneInv, Gone, Bye

LEMMA ByeTail ==
  ASSUME NEW u \in Seq(Frames), u # <<>>, Bye(Tail(u))
  PROVE  Bye(u)
<1>1. PICK i \in 1..Len(Tail(u)) : Tail(u)[i] = Command(DISCONNECT)
  BY DEF Bye
<1>2. Len(Tail(u)) = Len(u) - 1 /\ Len(u) \in Nat /\ \A j \in 1..(Len(u) - 1) : Tail(u)[j] = u[j + 1]
  BY TailFacts, SeqFacts
<1>3. i + 1 \in 1..Len(u) /\ u[i + 1] = Command(DISCONNECT)
  BY <1>1, <1>2
<1> QED  BY <1>3 DEF Bye

LEMMA ByeAppend ==
  ASSUME NEW u \in Seq(Frames), NEW x \in Frames, Bye(Append(u, x))
  PROVE  Bye(u) \/ x = Command(DISCONNECT)
<1> DEFINE v == Append(u, x)
<1>1. /\ Len(v) = Len(u) + 1 /\ Len(u) \in Nat /\ \A j \in 1..Len(u) : v[j] = u[j]
      /\ v[Len(u) + 1] = x
  BY AppendFacts, SeqFacts
<1>2. PICK i \in 1..Len(v) : v[i] = Command(DISCONNECT)
  BY DEF Bye
<1> HIDE DEF v
<1>3. i \in 1..Len(u) \/ i = Len(u) + 1
  BY <1>1, <1>2
<1> QED  BY <1>1, <1>2, <1>3 DEF Bye

\* A handler that has not got as far as a command cannot have one in front of it
\* yet, nor one that works on a command.
LEMMA NoBye ==
  ASSUME NEW s, NEW c, NEW h, NEW u \in Seq(Frames), NEW cs, NEW d, NEW hs,
         Conn(s, c, h, u, cs, d, hs),
         h \in {"off", "rejected", "list", "respond", "remove", "leave", "finished"}
  PROVE  ~Bye(u)
<1>1. Len(u) \in Nat /\ (h = "off" => Len(u) <= 1) /\ (h # "off" => Len(u) = 0)
  BY SeqFacts DEF Conn, Taken
<1>2. ASSUME NEW i \in 1..Len(u), u[i] = Command(DISCONNECT)
      PROVE  FALSE
  <2>1. h = "off" /\ i = 1
    BY <1>1
  <2>2. Fits(s, u[1], 1)
    <3>1. Place("off") + 1 = 1
      BY DEF Place
    <3> QED  BY <2>1, <3>1 DEF Conn, UpFits
  <2>3. u[1].tag = "version"
    BY <2>2 DEF Fits, Frame
  <2> QED  BY <1>2, <2>1, <2>3, WordValues DEF Commands
<1> QED  BY <1>2 DEF Bye

LEMMA ClientGoneStep ==
  ASSUME TypeInv, ConnInv, GoneInv, NEW s \in Sessions, User(s) \/ ClientStep(s)
  PROVE  GoneInv'
<1>1. ASSUME NEW r \in Sessions
      PROVE  Gone(hpc[r], message[r], up'[r], hout[r], cpc'[r])
  <2>1. Gone(hpc[r], message[r], up[r], hout[r], cpc[r])
    BY GoneOf
  <2>2. cpc[r] \in {"quit", "ended"} => cpc'[r] \in {"quit", "ended"}
    BY ClientLeaves
  <2>3. CASE up'[r] = up[r]
    BY <2>1, <2>2, <2>3 DEF Gone
  <2>4. CASE r = s /\ ClientSend(s)
    <3>1. /\ cout[s] # <<>> /\ up'[s] = Append(up[s], Head(cout[s])) /\ cpc'[s] = cpc[s]
          /\ up[s] \in Seq(Frames) /\ cout[s] \in Seq(Frames) /\ Head(cout[s]) \in Frames
      BY <2>4, ConnOf, TailFacts DEF ClientSend, TypeInv, QueueTypes
    <3>2. Head(cout[s]) = Command(DISCONNECT) => cpc[s] = "quit" /\ hout[s] = <<>>
      BY <3>1, ConnOf, DisconnectSent
    <3>3. Bye(up'[s]) => Bye(up[s]) \/ Head(cout[s]) = Command(DISCONNECT)
      BY <3>1, ByeAppend
    <3> QED  BY <2>1, <2>4, <3>1, <3>2, <3>3 DEF Gone
  <2> QED  BY <2>3, <2>4, ClientLeaves
<1> QED  BY <1>1, ClientLeaves, GoneOf

LEMMA HandlerGoneStep ==
  ASSUME TypeInv, ConnInv, GoneInv, NEW s \in Sessions, HandlerStep(s)
  PROVE  GoneInv'
<1>0. /\ hout \in [Sessions -> Seq(Frames)] /\ hpc \in [Sessions -> HandlerLabels]
      /\ DOMAIN message = Sessions
      /\ Gone(hpc[s], message[s], up[s], hout[s], cpc[s])
  BY GoneOf DEF TypeInv, TypeOK, QueueTypes
<1> SUFFICES Gone(hpc'[s], message'[s], up'[s], hout'[s], cpc'[s])
  <2>1. \A r \in Sessions \ {s} : Gone(hpc'[r], message'[r], up'[r], hout'[r], cpc'[r])
    BY GoneOf, HandlerConnStep DEF Only
  <2> QED  BY <2>1, GoneOf
<1>1. CASE Accept(s)
  <2>1. hpc[s] = "off" /\ UNCHANGED <<up, message>>
    BY <1>1 DEF Accept
  <2>2. ~Bye(up[s])
    <3>1. Conn(s, cpc[s], "off", up[s], cout[s], down[s], hout[s]) /\ up[s] \in Seq(Frames)
      BY <2>1, ConnOf
    <3> QED  BY <3>1, NoBye
  <2> QED  BY <1>0, <2>1, <2>2 DEF Gone
<1>2. CASE HandlerSend(s) \/ HandlerSendNull(s) \/ HandlerSendFails(s)
  <2>1. hout[s] # <<>> /\ UNCHANGED <<hpc, message, up, cpc>>
    BY <1>2 DEF HandlerSend, HandlerSendNull, HandlerSendFails, client, handler
  <2> QED  BY <1>0, <2>1 DEF Gone
<1>3. ASSUME NEW label, NEW next, HandlerTakes(s, label, next)
      PROVE  Bye(up'[s]) => Bye(up[s])
  <2>1. up[s] # <<>> /\ up[s] \in Seq(Frames) /\ up'[s] = Tail(up[s])
    BY <1>3, ConnOf, HandlerTakesConn
  <2> QED  BY <2>1, ByeTail
<1>4. CASE HandlerVersion(s) \/ HandlerHost(s) \/ HandlerPort(s)
  <2>1. PICK label, next :
          label \in {"version", "host_len", "host", "port"} /\ HandlerTakes(s, label, next)
    BY <1>4 DEF HandlerVersion, HandlerHost, HandlerPort
  <2>2. UNCHANGED <<cpc, hout, message>>
    BY <1>4 DEF HandlerVersion, HandlerHost, HandlerPort, client
  <2>3. message[s] # DISCONNECT
    BY <1>0, <2>1, HandlerTakesConn DEF Gone
  <2> QED  BY <1>0, <1>3, <2>1, <2>2, <2>3 DEF Gone
<1>5. CASE HandlerMessage(s)
  <2>1. PICK w \in Commands : /\ Head(up[s]) = Command(w)
                              /\ HandlerTakes(s, "message", Dispatch(w))
                              /\ message' = [message EXCEPT ![s] = w]
    BY <1>5, MessageIsCommand
  <2>2. UNCHANGED <<cpc, hout>> /\ message'[s] = w /\ hpc'[s] = Dispatch(w)
    BY <1>0, <1>5, <2>1, HandlerTakesConn DEF HandlerMessage, client
  <2>3. w = DISCONNECT => Bye(up[s])
    <3>1. Head(up[s]) = up[s][1] /\ 1 \in 1..Len(up[s])
      BY <2>1, HandlerTakesConn, ConnOf, TailFacts, SeqFacts
    <3> QED  BY <2>1, <3>1 DEF Bye
  <2> QED  BY <1>0, <1>3, <2>1, <2>2, <2>3, DispatchOf DEF Gone
<1>6. ASSUME NEW label, NEW next, HandlerStarves(s, label, next)
      PROVE  cpc[s] = "ended" /\ hout[s] = <<>> /\ ~Bye(up'[s]) /\ hpc[s] = label /\ hpc'[s] = next
  <2>1. up'[s] = <<>>
    BY <1>6 DEF HandlerStarves
  <2>2. ~Bye(up'[s])
    BY <2>1, SmallSeqs DEF Bye
  <2> QED  BY <1>0, <1>6, <2>2 DEF HandlerStarves, Ended, HandlerGoto
<1>7. CASE HandlerStaleMessage(s)
  <2>1. PICK old : /\ HandlerStarves(s, "message", Dispatch(old))
                   /\ message' = [message EXCEPT ![s] = old]
    BY <1>7 DEF HandlerStaleMessage
  <2>2. UNCHANGED <<cpc, hout>> /\ message'[s] = old
    BY <1>0, <1>7, <2>1 DEF HandlerStaleMessage, client
  <2> QED  BY <1>6, <2>1, <2>2, DispatchOf DEF Gone
<1>8. CASE HandlerAdd(s) \/ HandlerLookup(s)
  <2>1. PICK label, next :
          /\ label \in {"add_number", "lookup_number"}
          /\ HandlerTakes(s, label, next) \/ HandlerStarves(s, label, next)
    <3>1. CASE HandlerAdd(s)
      BY <3>1 DEF HandlerAdd, HandlerNumber
    <3>2. CASE HandlerLookup(s)
      BY <3>2 DEF HandlerLookup, HandlerNumber
    <3> QED  BY <1>8, <3>1, <3>2
  <2>2. hpc[s] = label /\ message'[s] = message[s]
    BY <1>6, <1>8, <2>1, HandlerTakesConn DEF HandlerAdd, HandlerLookup
  <2>3. message'[s] # DISCONNECT
    BY <1>0, <2>1, <2>2 DEF Gone
  <2>4. ~Bye(up'[s])
    <3>1. CASE HandlerStarves(s, label, next)
      BY <1>6, <3>1
    <3>2. CASE HandlerTakes(s, label, next)
      <4>1. /\ Conn(s, cpc[s], hpc[s], up[s], cout[s], down[s], <<>>) /\ up[s] # <<>>
            /\ hpc[s] = "add_number" \/ hpc[s] = "lookup_number"
        BY <2>1, <2>2, <3>2, ConnOf, HandlerTakesConn
      <4>2. PICK hs \in Seq(Frames) : Len(hs) = 1 /\ hs[1].tag = "code"
        BY CodeFrame
      <4>3. Tail(up[s]) = <<>>
        <5>1. CASE hpc[s] = "add_number"
          BY <4>1, <4>2, <5>1, ConnOf, ConnReadLast
        <5>2. CASE hpc[s] = "lookup_number"
          BY <4>1, <5>2, ConnOf, ShortSeqs, ConnReadLast
        <5> QED  BY <4>1, <5>1, <5>2
      <4>4. up'[s] = <<>>
        BY <3>2, <4>3, HandlerTakesConn
      <4> QED  BY <4>4, SmallSeqs DEF Bye
    <3> QED  BY <2>1, <3>1, <3>2
  <2> QED  BY <2>3, <2>4 DEF Gone
<1>9. CASE HandlerList(s) \/ HandlerRespond(s)
  <2>1. hpc[s] \in {"list", "respond"} /\ UNCHANGED <<up, message>>
    BY <1>9 DEF HandlerList, HandlerRespond
  <2>2. ~Bye(up[s])
    BY <2>1, ConnOf, NoBye
  <2> QED  BY <1>0, <2>1, <2>2 DEF Gone
<1>10. CASE HandlerRemove(s)
  <2>1. hpc'[s] \in {"leave", "finished"} /\ UNCHANGED <<up, cpc, hout, message>>
    BY <1>0, <1>10 DEF HandlerRemove, HandlerGoto, client
  <2> QED  BY <1>0, <2>1 DEF Gone
<1> QED  BY <1>1, <1>2, <1>4, <1>5, <1>7, <1>8, <1>9, <1>10 DEF HandlerStep

\* A handler's message changes to a word, when it takes a command or finds that
\* its client has ended.
LEMMA MessageGiven ==
  ASSUME TypeInv, ConnInv, NEW s \in Sessions, HandlerStep(s)
  PROVE  /\ message'[s] # message[s] => message'[s] # None
         /\ hpc'[s] = "add_number" => hpc[s] = "add_number" \/ message'[s] # None
<1>0. hpc \in [Sessions -> HandlerLabels] /\ DOMAIN message = Sessions
  BY DEF TypeInv, TypeOK
<1>1. \A w \in Words : w # None /\ NtoHL(w) # None
  <2>1. \A w \in Words : w \in Nat /\ NtoHL(w) \in Nat
    BY WordValues DEF Words, HELLO, ADD, LIST, LOOKUP, DISCONNECT
  <2>2. None \notin Nat
    BY SessionsAssumption
  <2> QED  BY <2>1, <2>2
<1>2. CASE HandlerMessage(s)
  <2>1. PICK w \in Commands : message' = [message EXCEPT ![s] = w]
    BY <1>2, MessageIsCommand
  <2> QED  BY <1>0, <1>1, <2>1 DEF Commands, Words
<1>3. CASE HandlerStaleMessage(s)
  <2>1. PICK old \in IF message[s] = None THEN {HELLO, ADD, LIST, LOOKUP, DISCONNECT}
                                          ELSE {NtoHL(message[s])} :
               message' = [message EXCEPT ![s] = old]
    BY <1>3 DEF HandlerStaleMessage
  <2>2. old # None
    <3>1. CASE message[s] = None
      BY <1>1, <2>1, <3>1 DEF Words
    <3>2. CASE message[s] # None
      <4>1. message[s] \in Words \/ \E v \in Words : message[s] = NtoHL(v)
        BY <3>2 DEF TypeInv, TypeOK
      <4>2. old = NtoHL(message[s])
        BY <2>1, <3>2
      <4> QED  BY <1>1, <4>1, <4>2, WordValues
    <3> QED  BY <3>1, <3>2
  <2> QED  BY <1>0, <2>1, <2>2
<1>4. CASE HandlerVersion(s) \/ HandlerHost(s) \/ HandlerPort(s) \/ HandlerAdd(s) \/ HandlerLookup(s)
  <2>1. \E next \in {"host_len", "host", "port", "message", "rejected", "respond"} :
          \E label : HandlerTakes(s, label, next) \/ HandlerStarves(s, label, next)
    <3>1. CASE HandlerVersion(s)
      BY <3>1 DEF HandlerVersion
    <3>2. CASE HandlerHost(s) \/ HandlerPort(s)
      BY <3>2 DEF HandlerHost, HandlerPort
    <3>3. CASE HandlerAdd(s) \/ HandlerLookup(s)
      BY <3>3 DEF HandlerAdd, HandlerLookup, HandlerNumber
    <3> QED  BY <1>4, <3>1, <3>2, <3>3
  <2>2. hpc'[s] # "add_number"
    BY <1>0, <2>1 DEF HandlerTakes, HandlerStarves, HandlerGoto
  <2>3. UNCHANGED message
    BY <1>4 DEF HandlerVersion, HandlerHost, HandlerPort, HandlerAdd, HandlerLookup
  <2> QED  BY <2>2, <2>3
<1>5. CASE Accept(s) \/ HandlerSend(s) \/ HandlerSendNull(s) \/ HandlerSendFails(s)
             \/ HandlerList(s) \/ HandlerRespond(s) \/ HandlerRemove(s)
  BY <1>0, <1>5 DEF Accept, HandlerSend, HandlerSendNull, HandlerSendFails, HandlerList,
                    HandlerRespond, HandlerRemove, HandlerGoto, handler
<1> QED  BY <1>2, <1>3, <1>4, <1>5 DEF HandlerStep

\* What a handler's step does to the index and to what it has still to send.
LEMMA IndexStep ==
  ASSUME TypeInv, ConnInv, NEW s \in Sessions, HandlerStep(s)
  PROVE  /\ \A e \in holders' : e \in holders \/ (e.peer = PeerOf[s] /\ hpc[s] = "add_number")
         /\ \A r \in Sessions : reply'[r] \subseteq reply[r] \cup holders
         /\ \/ \A i \in 1..Len(hout'[s]) : hout'[s][i] = Null =>
                 \E j \in 1..Len(hout[s]) : hout[s][j] = Null
            \/ hout'[s] = Response(reply[s])
<1>0. /\ reply \in [Sessions -> SUBSET Holder] /\ hout \in [Sessions -> Seq(Frames)]
      /\ hpc \in [Sessions -> HandlerLabels]
  BY DEF TypeInv, TypeOK, QueueTypes
<1> DEFINE SameNulls == \A i \in 1..Len(hout'[s]) : hout'[s][i] = Null =>
                          \E j \in 1..Len(hout[s]) : hout[s][j] = Null
<1>1. ASSUME hout[s] # <<>>, hout'[s] = Tail(hout[s])
      PROVE  SameNulls
  <2>1. /\ Len(Tail(hout[s])) = Len(hout[s]) - 1 /\ Len(hout[s]) \in Nat
        /\ \A i \in 1..(Len(hout[s]) - 1) : Tail(hout[s])[i] = hout[s][i + 1]
    BY <1>0, <1>1, TailFacts, SeqFacts
  <2>2. ASSUME NEW i \in 1..Len(hout'[s])
        PROVE  i + 1 \in 1..Len(hout[s]) /\ hout'[s][i] = hout[s][i + 1]
    BY <1>1, <2>1
  <2> QED  BY <2>2
<1>2. CASE HandlerSend(s) \/ HandlerSendNull(s) \/ HandlerSendFails(s)
  <2>1. UNCHANGED <<holders, reply>>
    BY <1>2 DEF HandlerSend, HandlerSendNull, HandlerSendFails, index
  <2>2. \/ hout'[s] = hout[s]
        \/ hout[s] # <<>> /\ hout'[s] = Tail(hout[s])
    BY <1>0, <1>2 DEF HandlerSend, HandlerSendNull, HandlerSendFails, handler
  <2> QED  BY <1>1, <2>1, <2>2
<1>3. CASE Accept(s)
  <2>1. UNCHANGED <<holders, reply>> /\ hout'[s] = <<Frame("version", ServerVersion)>>
    BY <1>0, <1>3 DEF Accept, index
  <2>2. \A i \in 1..Len(hout'[s]) : hout'[s][i] # Null
    BY <2>1, SmallSeqs DEF Frame, Null
  <2> QED  BY <2>1, <2>2
<1>4. CASE HandlerVersion(s) \/ HandlerHost(s) \/ HandlerPort(s) \/ HandlerMessage(s)
             \/ HandlerStaleMessage(s) \/ HandlerRemove(s)
  <2>1. holders' \subseteq holders /\ UNCHANGED <<reply, hout>>
    BY <1>4 DEF HandlerVersion, HandlerHost, HandlerPort, HandlerMessage, HandlerStaleMessage,
                HandlerRemove, Index!Register, Index!Withdraw, Index!Unregister, index
  <2> QED  BY <2>1
<1>5. ASSUME NEW n, Index!Query(s, n)
      PROVE  UNCHANGED holders /\ \A r \in Sessions : reply'[r] \subseteq reply[r] \cup holders
  BY <1>0, <1>5 DEF Index!Query
<1>6. CASE HandlerList(s) \/ HandlerLookup(s)
  <2>1. PICK n : Index!Query(s, n)
    BY <1>6 DEF HandlerList, HandlerLookup
  <2>2. UNCHANGED hout
    BY <1>6 DEF HandlerList, HandlerLookup
  <2> QED  BY <1>5, <2>1, <2>2
<1>7. CASE HandlerAdd(s)
  <2>1. PICK n \in Rfc : /\ HandlerNumber(s, n, "add_number", "message")
                         /\ \/ Index!Announce(s, n) /\ hout' = [hout EXCEPT ![s] = <<Frame("code", 200)>>]
                            \/ UNCHANGED index /\ hout' = [hout EXCEPT ![s] = <<Frame("code", 400)>>]
    BY <1>7 DEF HandlerAdd
  <2>2. hpc[s] = "add_number"
    BY <2>1 DEF HandlerNumber, HandlerTakes, HandlerStarves
  <2>3. /\ \A e \in holders' : e \in holders \/ e.peer = PeerOf[s]
        /\ UNCHANGED reply
    BY <2>1 DEF Index!Announce, index
  <2>4. hout'[s] = <<Frame("code", 200)>> \/ hout'[s] = <<Frame("code", 400)>>
    BY <1>0, <2>1
  <2>5. \A i \in 1..Len(hout'[s]) : hout'[s][i] # Null
    BY <2>4, SmallSeqs DEF Frame, Null
  <2> QED  BY <2>2, <2>3, <2>5
<1>8. CASE HandlerRespond(s)
  <2>1. hout'[s] = Response(reply[s]) /\ UNCHANGED holders /\ reply' = [reply EXCEPT ![s] = {}]
    BY <1>0, <1>8 DEF HandlerRespond, Index!Respond
  <2> QED  BY <1>0, <2>1
<1> QED  BY <1>2, <1>3, <1>4, <1>6, <1>7, <1>8 DEF HandlerStep

\* A response has no bytes only if it is to hold a peer that none can.
LEMMA NullFrom ==
  ASSUME NEW S \in SUBSET Holder, NEW i \in 1..Len(Response(S)), Response(S)[i] = Null
  PROVE  \E e \in S : ~Listable(e.peer)
<1>1. ~Valid(S)
  <2>1. i = 1 \/ i = 2
    BY ResponseType
  <2> QED  BY <2>1, ResponseType
<1> QED  BY <1>1 DEF Valid

\* A command once received is never forgotten.
LEMMA MessageStays ==
  ASSUME TypeInv, ConnInv, [Next]_vars
  PROVE  \A s \in Sessions : message[s] # None => message'[s] # None
<1>1. ASSUME NEW s \in Sessions, User(s) \/ ClientStep(s)
      PROVE  UNCHANGED message
  BY <1>1, ClientLeaves
<1>2. ASSUME NEW s \in Sessions, HandlerStep(s)
      PROVE  message'[s] # message[s] => message'[s] # None
  BY <1>2, MessageGiven
<1>3. ASSUME NEW s \in Sessions, HandlerStep(s)
      PROVE  \A r \in Sessions \ {s} : message'[r] = message[r]
  BY <1>3, HandlerConnStep DEF Only
<1>4. CASE UNCHANGED vars
  BY <1>4 DEF vars, handler
<1> QED  BY <1>1, <1>2, <1>3, <1>4 DEF Next

LEMMA UnlistableStays ==
  ASSUME TypeInv, ConnInv, [Next]_vars, Unlistable
  PROVE  Unlistable'
BY MessageStays DEF Unlistable

\* Such holders, in the index or in an answer, are those of such a client.
LEMMA PeerStep ==
  ASSUME TypeInv, ConnInv, PeerInv, NEW s \in Sessions, HandlerStep(s)
  PROVE  PeerInv'
<1>0. /\ reply \in [Sessions -> SUBSET Holder] /\ hout \in [Sessions -> Seq(Frames)]
      /\ hpc \in [Sessions -> HandlerLabels]
      /\ Unlistable => Unlistable'
  BY UnlistableStays DEF TypeInv, TypeOK, QueueTypes, Next
<1>1. \A r \in Sessions : hpc'[r] = "add_number" => message'[r] # None
  <2>1. hpc'[s] = "add_number" => message'[s] # None
    BY MessageGiven, MessageStays DEF PeerInv, Next
  <2>2. \A r \in Sessions \ {s} : hpc'[r] = hpc[r] /\ message'[r] = message[r]
    BY HandlerConnStep DEF Only
  <2> QED  BY <2>1, <2>2 DEF PeerInv
<1>2. (\E e \in holders' : ~Listable(e.peer)) => Unlistable'
  <2>1. ASSUME NEW e \in holders', ~Listable(e.peer)
        PROVE  Unlistable'
    <3>1. CASE e \in holders
      BY <1>0, <2>1, <3>1 DEF PeerInv
    <3>2. CASE e \notin holders
      <4>1. e.peer = PeerOf[s] /\ hpc[s] = "add_number"
        BY <2>1, <3>2, IndexStep
      <4>2. message[s] # None
        BY <4>1 DEF PeerInv
      <4>3. Unlistable
        BY <2>1, <4>1, <4>2 DEF Unlistable
      <4> QED  BY <1>0, <4>3
    <3> QED  BY <3>1, <3>2
  <2> QED  BY <2>1
<1>3. \A r \in Sessions : (\E e \in reply'[r] : ~Listable(e.peer)) => Unlistable'
  <2>1. \A r \in Sessions : reply'[r] \subseteq reply[r] \cup holders
    BY IndexStep
  <2> QED  BY <1>0, <2>1 DEF PeerInv
<1>4. \A r \in Sessions : (\E i \in 1..Len(hout'[r]) : hout'[r][i] = Null) => Unlistable'
  <2>1. ASSUME NEW r \in Sessions, NEW i \in 1..Len(hout'[r]), hout'[r][i] = Null
        PROVE  \/ \E j \in 1..Len(hout[r]) : hout[r][j] = Null
               \/ \E e \in reply[r] : ~Listable(e.peer)
    <3>1. CASE r # s
      BY <2>1, <3>1, HandlerConnStep DEF Only
    <3>2. CASE r = s /\ hout'[s] = Response(reply[s])
      BY <1>0, <2>1, <3>2, NullFrom
    <3> QED  BY <2>1, <3>1, <3>2, IndexStep
  <2> QED  BY <1>0, <2>1 DEF PeerInv
<1> QED  BY <1>1, <1>2, <1>3, <1>4 DEF PeerInv

\* The server has ended where it read an empty host.
Nameless == \E s \in Sessions : PeerOf[s].host = NoHost /\ hpc[s] = "port"

\* Nothing ends the server but an answer to a client that is gone, one that is to
\* hold a peer that none can, or an empty host.
LEMMA ServerEnds ==
  ASSUME TypeInv, ConnInv, GoneInv, PeerInv, NEW s \in Sessions, HandlerStep(s),
         server_up' # server_up
  PROVE  Abandoned(s)' \/ Unlistable' \/ Nameless'
<1>1. CASE HandlerSendNull(s)
  <2>1. hout[s] \in Seq(Frames) /\ hout[s] # <<>> /\ Head(hout[s]) = Null
    BY <1>1, ConnOf DEF HandlerSendNull
  <2>2. 1 \in 1..Len(hout[s]) /\ hout[s][1] = Null
    BY <2>1, TailFacts, SeqFacts
  <2>3. Unlistable
    BY <2>2 DEF PeerInv
  <2> QED  BY <2>3, UnlistableStays DEF Next
<1>2. CASE HandlerSendFails(s)
  <2>1. /\ hout[s] # <<>> /\ cpc[s] = "ended" /\ UNCHANGED <<cpc, message, up>>
        /\ up[s] \in Seq(Frames)
    BY <1>2, ConnOf DEF HandlerSendFails, Ended, client
  <2>2. message[s] # DISCONNECT /\ ~Bye(up[s])
    BY <2>1, GoneOf DEF Gone
  <2>3. Command(DISCONNECT) \notin ToSet(up[s])
    BY <2>1, <2>2 DEF Bye, ToSet
  <2> QED  BY <2>1, <2>2, <2>3 DEF Abandoned, Ended
<1>3. CASE HandlerHost(s)
  <2>1. PeerOf[s].host = NoHost /\ HandlerTakes(s, "host", "port")
    BY <1>3 DEF HandlerHost
  <2>2. hpc'[s] = "port"
    BY <2>1, HandlerTakesConn
  <2> QED  BY <2>1, <2>2 DEF Nameless
<1>4. ~HandlerSendNull(s) /\ ~HandlerSendFails(s) /\ ~HandlerHost(s) => UNCHANGED server_up
  BY DEF HandlerStep, Accept, HandlerSend, HandlerVersion, HandlerPort,
         HandlerMessage, HandlerStaleMessage, HandlerAdd, HandlerList, HandlerLookup,
         HandlerRespond, HandlerRemove
<1> QED  BY <1>1, <1>2, <1>3, <1>4

\* With the server gone no handler takes a step, and no frame is sent.
LEMMA NothingAfter ==
  ASSUME TypeInv, ConnInv, ~server_up, [Next]_vars
  PROVE  /\ \A r \in Sessions : Abandoned(r) => Abandoned(r)'
         /\ Nameless => Nameless'
<1>1. ASSUME NEW s \in Sessions, HandlerStep(s)
      PROVE  FALSE
  BY <1>1 DEF HandlerStep, Accept, HandlerSend, HandlerSendNull, HandlerSendFails,
              HandlerVersion, HandlerHost, HandlerPort, HandlerMessage, HandlerStaleMessage,
              HandlerAdd, HandlerList, HandlerLookup, HandlerRespond, HandlerRemove,
              HandlerNumber, HandlerTakes, HandlerStarves
<1>2. ASSUME NEW s \in Sessions, User(s) \/ ClientStep(s)
      PROVE  /\ UNCHANGED <<up, message, hpc>>
             /\ \A r \in Sessions : Ended(r) => Ended(r)'
  <2>1. ~ClientSend(s)
    BY DEF ClientSend
  <2> QED  BY <1>2, <2>1, ClientLeaves DEF Ended
<1>3. CASE UNCHANGED vars
  BY <1>3 DEF vars, client, handler, Abandoned, Ended, Nameless
<1> QED  BY <1>1, <1>2, <1>3 DEF Next, Abandoned, Nameless

EndInv == GoneInv /\ PeerInv /\ QuittersEndNoServer

LEMMA EndStep ==
  ASSUME TypeInv, ConnInv, EndInv, [Next]_vars
  PROVE  EndInv'
<1>1. GoneInv' /\ PeerInv'
  <2>1. ASSUME NEW s \in Sessions, User(s) \/ ClientStep(s)
        PROVE  GoneInv' /\ PeerInv'
    <3>1. PeerInv'
      BY <2>1, ClientLeaves DEF EndInv, PeerInv, Unlistable
    <3> QED  BY <2>1, <3>1, ClientGoneStep DEF EndInv
  <2>2. ASSUME NEW s \in Sessions, HandlerStep(s)
        PROVE  GoneInv' /\ PeerInv'
    BY <2>2, HandlerGoneStep, PeerStep DEF EndInv
  <2>3. CASE UNCHANGED vars
    BY <2>3 DEF vars, index, client, handler, EndInv, GoneInv, PeerInv, Unlistable
  <2> QED  BY <2>1, <2>2, <2>3 DEF Next
<1>2. QuittersEndNoServer'
  <2> SUFFICES ASSUME ~server_up'
               PROVE  (\E s \in Sessions : Abandoned(s)') \/ Unlistable' \/ Nameless'
    BY DEF QuittersEndNoServer, Unlistable, Nameless
  <2>1. CASE ~server_up
    <3>1. (\E s \in Sessions : Abandoned(s)) \/ Unlistable \/ Nameless
      BY <2>1 DEF EndInv, QuittersEndNoServer, Unlistable, Nameless
    <3> QED  BY <2>1, <3>1, NothingAfter, UnlistableStays
  <2>2. CASE server_up
    <3>1. server_up' # server_up
      BY <2>2, Zenon
    <3>2. PICK s \in Sessions : HandlerStep(s)
      BY <3>1, ClientLeaves DEF Next, vars
    <3> QED  BY <3>1, <3>2, ServerEnds DEF EndInv
  <2> QED  BY <2>1, <2>2
<1> QED  BY <1>1, <1>2 DEF EndInv

\* No client that ends by quit ends the server: if the server is gone, then a
\* client went without its DISCONNECT having been sent, or one whose host is
\* empty or whose port is not positive, which no response can hold, has had a
\* command received, or the host itself if it is empty.
THEOREM OnlyAbandonedEnd == Spec => []QuittersEndNoServer
<1>1. Init => EndInv
  <2> SUFFICES ASSUME Init
               PROVE  EndInv
    OBVIOUS
  <2>1. message = [s \in Sessions |-> None] /\ None # DISCONNECT
    <3>1. DISCONNECT \in Nat /\ None \notin Nat
      BY SessionsAssumption DEF DISCONNECT
    <3> QED  BY <3>1 DEF Init
  <2>2. GoneInv /\ PeerInv
    BY <2>1, SmallSeqs DEF Init, Index!Init, GoneInv, PeerInv
  <2>3. QuittersEndNoServer
    BY DEF Init, QuittersEndNoServer
  <2> QED  BY <2>2, <2>3 DEF EndInv
<1>2. TypeInv /\ ConnInv /\ EndInv /\ [Next]_vars => EndInv'
  BY EndStep
<1>3. EndInv => QuittersEndNoServer
  BY DEF EndInv
<1> QED  BY <1>1, <1>2, <1>3, Invariance, PTL DEF Spec

(***************************************************************************)
(* Who is listed                                                           *)
(***************************************************************************)

\* A sequence with nothing twice.
Distinct(q) == \A i, j \in 1..Len(q) : q[i] = q[j] => i = j

\* No two runs have the same address, and no two files of a directory the same number.
Apart ==
  /\ \A s, t \in Sessions : PeerOf[s] = PeerOf[t] => s = t
  /\ \A s \in Sessions : Distinct(Files[s])

\* The numbers that the index holds for a run.
Held(s) == { n \in Rfc : [rfc |-> n, peer |-> PeerOf[s]] \in holders }

\* The handler has answered what the client waits for.
IsAnswered(s) == Len(down[s]) + Len(hout[s]) # 0

\* The numbers that the index has still to learn from a run.
Rest(s) ==
  IF cpc[s] \in {"version", "announce"} THEN ToSet(files[s])
  ELSE IF cpc[s] = "add_code"
       THEN ToSet(IF IsAnswered(s) THEN Tail(files[s]) ELSE files[s])
  ELSE IF cpc[s] = "got_code" /\ ~IsAnswered(s) THEN {want[s]} ELSE {}

\* The number that goes with an ADD.
NumberOf(s) == IF cpc[s] = "add_code" THEN Head(files[s]) ELSE want[s]

\* A handler at these labels has its client in the index; at those, it has told
\* the index of none yet.
Enlisted == {"message", "add_number", "lookup_number", "list", "respond", "remove", "leave"}
Unlisted == {"off", "version", "host_len", "host", "port", "rejected"}

ListedRun(s) ==
  /\ hpc[s] \in Enlisted => PeerOf[s] \in registered
  /\ hpc[s] \in Unlisted => Held(s) = {}
  /\ cpc[s] \notin {"off", "quit", "ended"} => Held(s) \cup Rest(s) = stored[s]
  /\ cpc[s] \in {"version", "announce", "add_code"} =>
       Distinct(files[s]) /\ Held(s) \cap Rest(s) = {}
  /\ cpc[s] \in {"add_code", "got_code"} =>
       \A f \in ToSet(up[s]) \cup ToSet(cout[s]) : f.tag = "number" => f.val = NumberOf(s)
  /\ cpc[s] = "add_code" => \A f \in ToSet(down[s]) \cup ToSet(hout[s]) : f.val = 200

ListedInv == \A s \in Sessions : ListedRun(s)

LEMMA SetOfSeq ==
  ASSUME NEW S, NEW q \in Seq(S)
  PROVE  /\ ToSet(q) = { q[i] : i \in 1..Len(q) } /\ ToSet(q) \subseteq S
         /\ q = <<>> => ToSet(q) = {}
         /\ q # <<>> => ToSet(q) = {Head(q)} \cup ToSet(Tail(q))
         /\ \A x \in S : ToSet(Append(q, x)) = ToSet(q) \cup {x}
<1>1. \A p \in Seq(S) : ToSet(p) = { p[i] : i \in 1..Len(p) } /\ \A i \in 1..Len(p) : p[i] \in S
  BY ElementOfSeq, LenProperties DEF ToSet
<1>2. ASSUME q = <<>>
      PROVE  ToSet(q) = {}
  <2>1. Len(q) = 0
    BY <1>2, SeqFacts
  <2>2. 1..Len(q) = {}
    BY <2>1
  <2> QED  BY <1>1, <2>2
<1>3. ASSUME q # <<>>
      PROVE  ToSet(q) = {Head(q)} \cup ToSet(Tail(q))
  <2>1. /\ Tail(q) \in Seq(S) /\ Len(Tail(q)) = Len(q) - 1 /\ Len(q) >= 1 /\ Len(q) \in Nat
        /\ \A i \in 1..(Len(q) - 1) : Tail(q)[i] = q[i + 1]
        /\ Head(q) = q[1]
    BY <1>3, TailFacts, SeqFacts
  <2>2. ASSUME NEW x \in ToSet(q)
        PROVE  x \in {Head(q)} \cup ToSet(Tail(q))
    <3>1. PICK i \in 1..Len(q) : x = q[i]
      BY <1>1
    <3>2. CASE i = 1
      BY <2>1, <3>1, <3>2
    <3>3. CASE i # 1
      <4>1. i - 1 \in 1..(Len(q) - 1) /\ (i - 1) + 1 = i
        BY <2>1, <3>1, <3>3
      <4>2. Tail(q)[i - 1] = x /\ i - 1 \in 1..Len(Tail(q))
        BY <2>1, <3>1, <4>1
      <4> QED  BY <1>1, <2>1, <4>2
    <3> QED  BY <3>2, <3>3
  <2>3. ASSUME NEW x \in ToSet(Tail(q))
        PROVE  x \in ToSet(q)
    <3>1. PICK i \in 1..Len(Tail(q)) : x = Tail(q)[i]
      BY <1>1, <2>1
    <3>2. i \in 1..(Len(q) - 1) /\ i + 1 \in 1..Len(q)
      BY <2>1, <3>1
    <3>3. x = q[i + 1]
      BY <2>1, <3>1, <3>2
    <3> QED  BY <1>1, <3>2, <3>3
  <2>4. Head(q) \in ToSet(q)
    <3>1. 1 \in 1..Len(q)
      BY <2>1
    <3> QED  BY <1>1, <2>1, <3>1
  <2> QED  BY <2>2, <2>3, <2>4
<1>4. ASSUME NEW x \in S
      PROVE  ToSet(Append(q, x)) = ToSet(q) \cup {x}
  <2> DEFINE v == Append(q, x)
  <2>1. /\ v \in Seq(S) /\ Len(v) = Len(q) + 1 /\ Len(q) \in Nat
        /\ \A i \in 1..Len(q) : v[i] = q[i]
        /\ v[Len(q) + 1] = x
    BY AppendFacts, SeqFacts
  <2> HIDE DEF v
  <2>2. \A i \in 1..Len(v) : i \in 1..Len(q) \/ i = Len(q) + 1
    BY <2>1
  <2>3. \A i \in 1..Len(q) : i \in 1..Len(v)
    BY <2>1
  <2>4. Len(q) + 1 \in 1..Len(v)
    BY <2>1
  <2>5. ToSet(v) = { v[i] : i \in 1..Len(v) } /\ ToSet(q) = { q[i] : i \in 1..Len(q) }
    BY <1>1, <2>1
  <2>6. ASSUME NEW y \in ToSet(v)
        PROVE  y \in ToSet(q) \cup {x}
    <3>1. PICK i \in 1..Len(v) : y = v[i]
      BY <2>5
    <3> QED  BY <2>1, <2>2, <2>5, <3>1
  <2>7. ASSUME NEW y \in ToSet(q) \cup {x}
        PROVE  y \in ToSet(v)
    <3>1. CASE y = x
      BY <2>1, <2>4, <2>5, <3>1
    <3>2. CASE y \in ToSet(q)
      <4>1. PICK i \in 1..Len(q) : y = q[i]
        BY <2>5, <3>2
      <4> QED  BY <2>1, <2>3, <2>5, <4>1
    <3> QED  BY <2>7, <3>1, <3>2
  <2> QED  BY <2>6, <2>7 DEF v
<1> QED  BY <1>1, <1>2, <1>3, <1>4

LEMMA DistinctTail ==
  ASSUME NEW S, NEW q \in Seq(S), Distinct(q), q # <<>>
  PROVE  Distinct(Tail(q)) /\ Head(q) \notin ToSet(Tail(q))
<1>1. /\ Tail(q) \in Seq(S) /\ Len(Tail(q)) = Len(q) - 1 /\ Len(q) >= 1 /\ Len(q) \in Nat
      /\ \A i \in 1..(Len(q) - 1) : Tail(q)[i] = q[i + 1]
      /\ Head(q) = q[1]
  BY TailFacts, SeqFacts
<1>2. ASSUME NEW i \in 1..Len(Tail(q))
      PROVE  i + 1 \in 1..Len(q) /\ i + 1 # 1 /\ Tail(q)[i] = q[i + 1] /\ i \in Nat
  BY <1>1
<1>3. 1 \in 1..Len(q)
  BY <1>1
<1>4. ASSUME NEW i \in 1..Len(Tail(q)), NEW j \in 1..Len(Tail(q)), Tail(q)[i] = Tail(q)[j]
      PROVE  i = j
  <2>1. i + 1 \in 1..Len(q) /\ j + 1 \in 1..Len(q) /\ q[i + 1] = q[j + 1]
    BY <1>2, <1>4
  <2>2. i + 1 = j + 1
    BY <2>1 DEF Distinct
  <2>3. i \in Nat /\ j \in Nat
    BY <1>2
  <2> QED  BY <2>2, <2>3
<1>5. ASSUME Head(q) \in ToSet(Tail(q))
      PROVE  FALSE
  <2>1. ToSet(Tail(q)) = { Tail(q)[i] : i \in 1..Len(Tail(q)) }
    BY <1>1, SetOfSeq
  <2>2. PICK i \in 1..Len(Tail(q)) : Head(q) = Tail(q)[i]
    BY <1>5, <2>1
  <2> QED  BY <1>1, <1>2, <1>3, <2>2 DEF Distinct
<1> QED  BY <1>4, <1>5 DEF Distinct

LEMMA InitListed ==
  Init => ListedInv
<1> SUFFICES ASSUME Init, NEW s \in Sessions
             PROVE  ListedRun(s)
  BY DEF ListedInv
<1>1. cpc[s] = "off" /\ hpc[s] = "off" /\ holders = {}
  BY DEF Init, Index!Init
<1>2. Held(s) = {}
  BY <1>1 DEF Held
<1> QED  BY <1>1, <1>2 DEF ListedRun, Enlisted

\* What does not change, of one run, when another one or its handler takes a step.
Apartness(r) ==
  /\ hpc'[r] = hpc[r] /\ up'[r] = up[r] /\ hout'[r] = hout[r]
  /\ \/ cpc'[r] = cpc[r] /\ cout'[r] = cout[r] /\ down'[r] = down[r]
     \/ cpc'[r] = "ended"
  /\ files'[r] = files[r] /\ stored'[r] = stored[r] /\ want'[r] = want[r]
  /\ PeerOf[r] \in registered => PeerOf[r] \in registered'
  /\ Held(r)' = Held(r)

LEMMA ApartStays ==
  ASSUME NEW r \in Sessions, ListedRun(r), Apartness(r)
  PROVE  ListedRun(r)'
<1>1. CASE cpc'[r] = "ended"
  BY <1>1 DEF ListedRun, Apartness
<1>2. CASE cpc'[r] = cpc[r] /\ cout'[r] = cout[r] /\ down'[r] = down[r]
  <2>1. Rest(r)' = Rest(r) /\ NumberOf(r)' = NumberOf(r)
    BY <1>2 DEF Rest, NumberOf, IsAnswered, Apartness
  <2> QED  BY <1>2, <2>1 DEF ListedRun, Apartness
<1> QED  BY <1>1, <1>2 DEF Apartness

\* A client changes nothing of another one's but that it may end it.
LEMMA ClientApart ==
  ASSUME TypeInv, ConnInv, NEW s \in Sessions, User(s) \/ ClientStep(s),
         NEW r \in Sessions, r # s
  PROVE  Apartness(r)
<1>0. /\ DOMAIN files = Sessions /\ DOMAIN stored = Sessions /\ DOMAIN want = Sessions
      /\ DOMAIN cpc = Sessions /\ DOMAIN cout = Sessions /\ DOMAIN down = Sessions
  BY DEF TypeInv, TypeOK, QueueTypes
<1>1. /\ UNCHANGED <<registered, holders, hpc, hout>> /\ up'[r] = up[r]
  BY ClientLeaves
<1>2. Held(r)' = Held(r)
  BY <1>1 DEF Held
<1>3. files'[r] = files[r] /\ stored'[r] = stored[r] /\ want'[r] = want[r]
  BY <1>0 DEF User, ClientStep, Start, ListRemote, Get, Quit, Interrupt, ClientSend,
     ClientSendFails, ClientVersion, Announce, Announced, ResponseSize, Listed, LookupMissing,
     PeerConnects, PeerIsGone, PeerAnswers, FetchDone, FetchMissing, GotCode, Close
<1>4. \/ cpc'[r] = cpc[r] /\ cout'[r] = cout[r] /\ down'[r] = down[r]
      \/ cpc'[r] = "ended"
  <2>1. CASE FetchMissing(s)
    <3>1. \/ cpc' = [cpc EXCEPT ![s] = "prompt"] /\ UNCHANGED <<cout, down>>
          \/ /\ cpc' = [cpc EXCEPT ![s] = "prompt", ![from[s]] = "ended"]
             /\ cout' = [cout EXCEPT ![from[s]] = <<>>]
             /\ down' = [down EXCEPT ![from[s]] = <<>>]
      BY <2>1 DEF FetchMissing, ClientGoto
    <3> QED  BY <1>0, <3>1
  <2>2. CASE ~FetchMissing(s)
    BY <2>2, ClientConnStep DEF Only
  <2> QED  BY <2>1, <2>2
<1> QED  BY <1>1, <1>2, <1>3, <1>4 DEF Apartness

\* What a handler does to the index is about its own client.
LEMMA HandlerApart ==
  ASSUME TypeInv, ConnInv, Apart, NEW s \in Sessions, HandlerStep(s),
         NEW r \in Sessions, r # s
  PROVE  Apartness(r)
<1>1. PeerOf[r] # PeerOf[s]
  BY DEF Apart
<1>2. UNCHANGED <<files, stored, want>>
  BY DEF HandlerStep, Accept, HandlerSend, HandlerSendNull, HandlerSendFails, HandlerVersion,
     HandlerHost, HandlerPort, HandlerMessage, HandlerStaleMessage, HandlerAdd, HandlerList,
     HandlerLookup, HandlerRespond, HandlerRemove, client
<1>3. /\ PeerOf[r] \in registered => PeerOf[r] \in registered'
      /\ \A n \in Rfc : [rfc |-> n, peer |-> PeerOf[r]] \in holders' <=>
                          [rfc |-> n, peer |-> PeerOf[r]] \in holders
  <2>1. CASE HandlerAdd(s)
    <3>1. PICK n \in Rfc : Index!Announce(s, n) \/ UNCHANGED index
      BY <2>1 DEF HandlerAdd
    <3> QED  BY <1>1, <3>1 DEF Index!Announce, index
  <2>2. CASE HandlerRemove(s)
    BY <1>1, <2>2 DEF HandlerRemove, Index!Withdraw, Index!Unregister
  <2>3. CASE HandlerPort(s)
    BY <2>3 DEF HandlerPort, Index!Register
  <2>4. CASE ~HandlerAdd(s) /\ ~HandlerRemove(s) /\ ~HandlerPort(s)
    <3>1. UNCHANGED <<registered, holders>>
      BY <2>4 DEF HandlerStep, Accept, HandlerSend, HandlerSendNull, HandlerSendFails,
         HandlerVersion, HandlerHost, HandlerMessage, HandlerStaleMessage, HandlerList,
         HandlerLookup, HandlerRespond, Index!Query, Index!Respond, index
    <3> QED  BY <3>1
  <2> QED  BY <2>1, <2>2, <2>3, <2>4
<1>4. Held(r)' = Held(r)
  BY <1>3 DEF Held
<1> QED  BY <1>2, <1>3, <1>4, HandlerConnStep DEF Only, Apartness

\* What a label says of the other side's, and of what is under way.
LEMMA ConnFacts ==
  ASSUME TypeInv, ConnInv, NEW s \in Sessions
  PROVE  /\ cpc[s] \in {"off", "version"} => hpc[s] \in Unlisted
         /\ hpc[s] = "off" => cpc[s] \in {"off", "version", "ended"}
         /\ hpc[s] = "add_number" =>
              cpc[s] = "ended" \/ (cpc[s] \in {"add_code", "got_code"} /\ ~IsAnswered(s))
         /\ hpc[s] \in {"list", "respond", "lookup_number"} =>
              cpc[s] \in {"list_size", "lookup_size", "ended"}
         /\ hpc[s] \in {"remove", "leave", "finished"} => cpc[s] \in {"quit", "ended"}
         /\ cpc[s] \in {"announce", "prompt", "fetch", "store"} =>
              /\ down[s] = <<>> /\ hout[s] = <<>> /\ ~IsAnswered(s)
              /\ \A f \in ToSet(up[s]) : f.tag # "number"
<1> DEFINE n == Len(up[s]) + Len(cout[s])
           a == Len(down[s]) + Len(hout[s])
<1>1. /\ Counts(cpc[s], hpc[s], n, a) /\ cpc[s] \in ClientLabels
      /\ Len(up[s]) \in Nat /\ Len(cout[s]) \in Nat /\ Len(down[s]) \in Nat /\ Len(hout[s]) \in Nat
      /\ down[s] = <<>> <=> Len(down[s]) = 0
      /\ hout[s] = <<>> <=> Len(hout[s]) = 0
  BY ConnOf, SeqFacts DEF Conn
<1> HIDE DEF n, a
<1>2. cpc[s] \in {"off", "version"} => hpc[s] \in Unlisted
  BY <1>1 DEF Counts, Unlisted
<1>3. hpc[s] = "off" => cpc[s] \in {"off", "version", "ended"}
  <2>1. ASSUME hpc[s] = "off", cpc[s] \in {"announce", "prompt", "fetch", "store", "add_code",
               "got_code", "list_size", "lookup_size", "list_body", "lookup_body", "quit"}
        PROVE  FALSE
    BY <1>1, <2>1 DEF Counts, Introducing
  <2> QED  BY <1>1, <2>1, Labels
<1>4. ASSUME hpc[s] = "add_number", cpc[s] # "ended"
      PROVE  cpc[s] \in {"add_code", "got_code"} /\ ~IsAnswered(s)
  <2>1. cpc[s] \in {"add_code", "got_code"} /\ a = 0
    BY <1>1, <1>4, Labels DEF Counts, Introducing
  <2> QED  BY <2>1 DEF a, IsAnswered
<1>5. hpc[s] \in {"list", "respond", "lookup_number"} =>
        cpc[s] \in {"list_size", "lookup_size", "ended"}
  BY <1>1, Labels DEF Counts, Introducing
<1>6. hpc[s] \in {"remove", "leave", "finished"} => cpc[s] \in {"quit", "ended"}
  BY <1>1, Labels DEF Counts, Introducing
<1>7. ASSUME cpc[s] \in {"announce", "prompt", "fetch", "store"}
      PROVE  /\ down[s] = <<>> /\ hout[s] = <<>> /\ ~IsAnswered(s)
             /\ \A f \in ToSet(up[s]) : f.tag # "number"
  <2>1. a = 0 /\ Place(hpc[s]) + n = 4
    BY <1>1, <1>7 DEF Counts
  <2>2. Len(down[s]) + Len(hout[s]) = 0
    BY <2>1 DEF a
  <2>5. Len(down[s]) \in Nat /\ Len(hout[s]) \in Nat
    BY <1>1
  <2>3. Len(down[s]) = 0 /\ Len(hout[s]) = 0
    BY <2>2, <2>5, BothZero, Zenon
  <2>4. ASSUME NEW f \in ToSet(up[s])
        PROVE  f.tag # "number"
    <3>1. ToSet(up[s]) = { up[s][i] : i \in 1..Len(up[s]) }
      BY ConnOf, SetOfSeq
    <3>2. PICK i \in 1..Len(up[s]) : f = up[s][i]
      BY <3>1
    <3>3. Fits(s, f, Place(hpc[s]) + i)
      BY <3>2, ConnOf DEF Conn, UpFits
    <3>4. Place(hpc[s]) + i \in 1..4
      <4>1. Place(hpc[s]) \in 0..6
        BY PlaceType
      <4>2. Place(hpc[s]) + (Len(up[s]) + Len(cout[s])) = 4
        BY <2>1 DEF n
      <4> QED  BY <1>1, <3>2, <4>1, <4>2, UpToFour, Zenon
    <3>5. f.tag \in {"version", "host_len", "host", "port"}
      BY <3>3, <3>4 DEF Fits, Frame
    <3> QED  BY <3>5
  <2> QED  BY <1>1, <2>2, <2>3, <2>4 DEF IsAnswered
<1> QED  BY <1>2, <1>3, <1>4, <1>5, <1>6, <1>7

\* A handler's step that neither adds to the index nor takes from it.
LEMMA HandlerQuiet ==
  ASSUME NEW s \in Sessions, ListedRun(s),
         UNCHANGED <<holders, cpc, cout, files, stored, want>>,
         hpc'[s] \in Enlisted => PeerOf[s] \in registered',
         hpc'[s] \in Unlisted => hpc[s] \in Unlisted,
         ToSet(up'[s]) \subseteq ToSet(up[s]),
         cpc[s] \in {"add_code", "got_code"} =>
           /\ IsAnswered(s)' <=> IsAnswered(s)
           /\ ToSet(down'[s]) \cup ToSet(hout'[s]) \subseteq ToSet(down[s]) \cup ToSet(hout[s])
  PROVE  ListedRun(s)'
<1>1. Held(s)' = Held(s) /\ NumberOf(s)' = NumberOf(s)
  BY DEF Held, NumberOf
<1>2. Rest(s)' = Rest(s)
  <2>2. CASE cpc[s] \in {"add_code", "got_code"}
    <3>1. IsAnswered(s)' <=> IsAnswered(s)
      BY <2>2
    <3>2. CASE IsAnswered(s)
      BY <2>2, <3>1, <3>2 DEF Rest
    <3>3. CASE ~IsAnswered(s)
      BY <2>2, <3>1, <3>3 DEF Rest
    <3> QED  BY <3>2, <3>3
  <2>3. CASE cpc[s] \notin {"add_code", "got_code"}
    BY <2>3 DEF Rest
  <2> QED  BY <2>2, <2>3
<1> QED  BY <1>1, <1>2 DEF ListedRun

\* An ADD adds the number that came with it, which is answered with 200.
LEMMA AddListed ==
  ASSUME TypeInv, ConnInv, ListedInv, NEW s \in Sessions, HandlerAdd(s)
  PROVE  ListedRun(s)'
<1>0. /\ hout \in [Sessions -> Seq(Frames)] /\ DOMAIN hpc = Sessions /\ ListedRun(s)
      /\ stored[s] \in SUBSET Rfc /\ files[s] \in Seq(Rfc) /\ holders \subseteq Holder
      /\ DOMAIN hout = Sessions
  BY DEF TypeInv, TypeOK, QueueTypes, ListedInv
<1>1. PICK n \in Rfc :
        /\ HandlerNumber(s, n, "add_number", "message")
        /\ IF [rfc |-> n, peer |-> PeerOf[s]] \notin holders /\ PeerOf[s] \in registered
           THEN Index!Announce(s, n) /\ hout' = [hout EXCEPT ![s] = <<Frame("code", 200)>>]
           ELSE UNCHANGED index /\ hout' = [hout EXCEPT ![s] = <<Frame("code", 400)>>]
  BY DEF HandlerAdd
<1>2. /\ hpc[s] = "add_number" /\ hpc'[s] = "message" /\ PeerOf[s] \in registered
      /\ UNCHANGED <<cpc, cout, files, stored, want, down, registered>>
  <2>1. hpc[s] = "add_number" /\ hpc' = [hpc EXCEPT ![s] = "message"]
    BY <1>1 DEF HandlerNumber, HandlerTakes, HandlerStarves, HandlerGoto
  <2>2. UNCHANGED <<cpc, cout, files, stored, want, down>>
    BY DEF HandlerAdd, client
  <2>3. UNCHANGED registered
    BY <1>1 DEF Index!Announce, index
  <2> QED  BY <1>0, <2>1, <2>2, <2>3 DEF ListedRun, Enlisted
<1>3. CASE cpc[s] = "ended"
  BY <1>2, <1>3 DEF ListedRun, Enlisted, Unlisted
<1>4. CASE cpc[s] \in {"add_code", "got_code"} /\ ~IsAnswered(s)
  <2>1. HandlerTakes(s, "add_number", "message") /\ n = Head(up[s]).val
    <3>1. ~HandlerStarves(s, "add_number", "message")
      BY <1>4 DEF HandlerStarves, Ended
    <3> QED  BY <1>1, <3>1 DEF HandlerNumber, ToHandler
  <2>2. up[s] \in Seq(Frames) /\ up[s] # <<>> /\ up'[s] = Tail(up[s])
    BY <2>1, ConnOf, HandlerTakesConn
  <2>3. ToSet(up[s]) = {Head(up[s])} \cup ToSet(up'[s])
    BY <2>2, SetOfSeq
  <2>4. n = NumberOf(s)
    <3>1. Fits(s, Head(up[s]), 6)
      <4>1. Conn(s, cpc[s], "add_number", up[s], cout[s], down[s], hout[s])
        BY <1>2, ConnOf
      <4>2. Place("add_number") + 1 = 6
        BY DEF Place
      <4> QED  BY <2>2, <4>1, <4>2, HeadFits
    <3>2. Head(up[s]).tag = "number"
      BY <3>1 DEF Fits
    <3>3. Head(up[s]).val = NumberOf(s)
      BY <1>0, <1>4, <2>3, <3>2 DEF ListedRun
    <3> QED  BY <2>1, <3>3
  <2>5. down[s] = <<>> /\ ToSet(down'[s]) = {}
    <3>1. Len(down[s]) \in Nat /\ Len(hout[s]) \in Nat /\ Len(down[s]) + Len(hout[s]) = 0
      BY <1>4, ConnOf, SeqFacts DEF IsAnswered
    <3>2. Len(down[s]) = 0
      BY <3>1, BothZero, Zenon
    <3>3. down[s] = <<>> /\ down'[s] = down[s] /\ down[s] \in Seq(Frames)
      BY <1>2, <3>2, ConnOf, SeqFacts
    <3> QED  BY <3>3, SetOfSeq
  <2>6. IsAnswered(s)'
    <3>1. hout'[s] = <<Frame("code", 200)>> \/ hout'[s] = <<Frame("code", 400)>>
      BY <1>0, <1>1
    <3>2. Len(hout'[s]) = 1
      BY <3>1, SmallSeqs
    <3>3. down'[s] = <<>>
      BY <1>2, <2>5
    <3> QED  BY <3>2, <3>3, SmallSeqs DEF IsAnswered
  <2>7. Held(s) \cup Rest(s) = stored[s]
    BY <1>0, <1>4 DEF ListedRun
  <2>8. Held(s)' = Held(s) \cup {n}
    <3>1. CASE [rfc |-> n, peer |-> PeerOf[s]] \notin holders
      <4>1. holders' = holders \cup {[rfc |-> n, peer |-> PeerOf[s]]}
        BY <1>1, <1>2, <3>1 DEF Index!Announce
      <4> QED  BY <4>1 DEF Held
    <3>2. CASE [rfc |-> n, peer |-> PeerOf[s]] \in holders
      <4>1. holders' = holders
        BY <1>1, <3>2 DEF index
      <4> QED  BY <3>2, <4>1 DEF Held
    <3> QED  BY <3>1, <3>2
  <2>9. CASE cpc[s] = "got_code"
    <3>1. Rest(s) = {want[s]} /\ n = want[s]
      BY <1>4, <2>4, <2>9 DEF Rest, NumberOf
    <3>2. Rest(s)' = {}
      BY <1>2, <2>6, <2>9 DEF Rest
    <3>3. NumberOf(s)' = NumberOf(s)
      BY <1>2, <2>9 DEF NumberOf
    <3> QED  BY <1>0, <1>2, <2>3, <2>7, <2>8, <2>9, <3>1, <3>2, <3>3
             DEF ListedRun, Enlisted, Unlisted
  <2>10. CASE cpc[s] = "add_code"
    <3>1. files[s] # <<>> /\ Distinct(files[s]) /\ Held(s) \cap Rest(s) = {}
      BY <1>0, <2>10 DEF TypeInv, WantInv, ListedRun
    <3>2. Rest(s) = ToSet(files[s]) /\ n = Head(files[s])
      BY <1>4, <2>4, <2>10 DEF Rest, NumberOf
    <3>3. Rest(s)' = ToSet(Tail(files[s]))
      BY <1>2, <2>6, <2>10 DEF Rest
    <3>4. /\ ToSet(files[s]) = {n} \cup ToSet(Tail(files[s]))
          /\ n \notin ToSet(Tail(files[s]))
      BY <1>0, <3>1, <3>2, SetOfSeq, DistinctTail
    <3>5. Held(s)' \cup Rest(s)' = stored[s] /\ Held(s)' \cap Rest(s)' = {}
      BY <2>7, <2>8, <3>1, <3>2, <3>3, <3>4
    <3>6. ToSet(hout'[s]) = {Frame("code", 200)}
      <4>1. [rfc |-> n, peer |-> PeerOf[s]] \notin holders
        BY <3>1, <3>2, <3>4 DEF Held
      <4>2. hout'[s] = <<Frame("code", 200)>>
        BY <1>0, <1>1, <1>2, <4>1
      <4>3. hout'[s] \in Seq(Frames) /\ Len(hout'[s]) = 1 /\ hout'[s][1] = Frame("code", 200)
        BY <4>2, CodeFrame, SmallSeqs
      <4>4. ToSet(hout'[s]) = { hout'[s][i] : i \in 1..1 }
        BY <4>3, SetOfSeq
      <4> QED  BY <4>3, <4>4
    <3>7. \A f \in ToSet(down'[s]) \cup ToSet(hout'[s]) : f.val = 200
      BY <2>5, <3>6 DEF Frame
    <3>8. NumberOf(s)' = NumberOf(s)
      BY <1>2, <2>10 DEF NumberOf
    <3> QED  BY <1>0, <1>2, <2>3, <2>10, <3>1, <3>5, <3>7, <3>8
             DEF ListedRun, Enlisted, Unlisted
  <2> QED  BY <1>4, <2>9, <2>10
<1> QED  BY <1>2, <1>3, <1>4, ConnFacts

LEMMA HandlerListed ==
  ASSUME TypeInv, ConnInv, ListedInv, NEW s \in Sessions, HandlerStep(s)
  PROVE  ListedRun(s)'
<1>0. /\ DOMAIN hpc = Sessions /\ ListedRun(s)
      /\ up[s] \in Seq(Frames) /\ down[s] \in Seq(Frames) /\ hout[s] \in Seq(Frames)
      /\ DOMAIN down = Sessions /\ DOMAIN hout = Sessions
  BY DEF TypeInv, TypeOK, QueueTypes, ListedInv
<1>1. CASE HandlerAdd(s)
  BY <1>1, AddListed
<1>2. CASE HandlerRemove(s)
  <2>1. /\ hpc[s] \in {"remove", "leave"} /\ UNCHANGED <<cpc, up, cout, down, hout, files, stored, want>>
        /\ \/ hpc'[s] = "leave" /\ UNCHANGED registered
           \/ hpc'[s] = "finished"
    BY <1>0, <1>2 DEF HandlerRemove, HandlerGoto, Index!Withdraw, client
  <2>2. cpc[s] \in {"quit", "ended"}
    BY <2>1, ConnFacts
  <2> QED  BY <1>0, <2>1, <2>2 DEF ListedRun, Enlisted, Unlisted
<1>3. ASSUME NEW label, NEW next, HandlerTakes(s, label, next)
      PROVE  hpc[s] = label /\ hpc'[s] = next /\ ToSet(up'[s]) \subseteq ToSet(up[s])
  <2>1. up[s] # <<>> /\ up'[s] = Tail(up[s]) /\ hpc[s] = label /\ hpc'[s] = next
    BY <1>3, HandlerTakesConn
  <2> QED  BY <1>0, <2>1, SetOfSeq
<1>4. ASSUME UNCHANGED <<down, hout>>
      PROVE  /\ IsAnswered(s)' <=> IsAnswered(s)
             /\ ToSet(down'[s]) \cup ToSet(hout'[s]) \subseteq ToSet(down[s]) \cup ToSet(hout[s])
  BY <1>4 DEF IsAnswered
<1>5. CASE HandlerVersion(s) \/ HandlerHost(s) \/ HandlerPort(s)
  <2>1. PICK label, next :
          /\ label \in {"version", "host_len", "host", "port"}
          /\ next \in {"host_len", "host", "port", "rejected"} \/ (next = "message" /\ HandlerPort(s))
          /\ HandlerTakes(s, label, next)
    BY <1>5 DEF HandlerVersion, HandlerHost, HandlerPort
  <2>2. UNCHANGED <<holders, cpc, cout, files, stored, want, down, hout>>
    BY <1>5 DEF HandlerVersion, HandlerHost, HandlerPort, Index!Register, index, client
  <2>3. HandlerPort(s) => PeerOf[s] \in registered'
    BY DEF HandlerPort, Index!Register
  <2>4. hpc[s] \in Unlisted /\ hpc'[s] = next /\ ToSet(up'[s]) \subseteq ToSet(up[s])
    BY <1>3, <2>1 DEF Unlisted
  <2>5. hpc'[s] \in Enlisted => PeerOf[s] \in registered'
    BY <2>1, <2>3, <2>4 DEF Enlisted
  <2> QED  BY <1>0, <1>4, <2>2, <2>4, <2>5, HandlerQuiet
<1>6. ASSUME UNCHANGED <<registered, holders, cpc, cout, files, stored, want>>,
             hpc[s] \in Enlisted, hpc'[s] \in Enlisted, ToSet(up'[s]) \subseteq ToSet(up[s]),
             cpc[s] \in {"add_code", "got_code"} =>
               /\ IsAnswered(s)' <=> IsAnswered(s)
               /\ ToSet(down'[s]) \cup ToSet(hout'[s]) \subseteq ToSet(down[s]) \cup ToSet(hout[s])
      PROVE  ListedRun(s)'
  <2>1. PeerOf[s] \in registered' /\ hpc'[s] \notin Unlisted
    BY <1>0, <1>6 DEF ListedRun, Enlisted, Unlisted
  <2> QED  BY <1>0, <1>6, <2>1, HandlerQuiet
<1>7. CASE HandlerMessage(s) \/ HandlerStaleMessage(s)
  <2>1. UNCHANGED <<registered, holders, cpc, cout, files, stored, want, down, hout>>
    BY <1>7 DEF HandlerMessage, HandlerStaleMessage, index, client
  <2>2. hpc[s] = "message" /\ hpc'[s] \in Enlisted /\ ToSet(up'[s]) \subseteq ToSet(up[s])
    <3>1. CASE HandlerMessage(s)
      BY <1>3, <3>1, DispatchOf DEF HandlerMessage, Enlisted
    <3>2. CASE HandlerStaleMessage(s)
      BY <1>0, <3>2, DispatchOf DEF HandlerStaleMessage, HandlerStarves, HandlerGoto, Enlisted
    <3> QED  BY <1>7, <3>1, <3>2
  <2>3. hpc[s] \in Enlisted
    BY <2>2 DEF Enlisted
  <2> QED  BY <1>4, <1>6, <2>1, <2>2, <2>3
<1>8. CASE HandlerList(s) \/ HandlerRespond(s)
  <2>1. /\ UNCHANGED <<registered, holders, cpc, cout, files, stored, want, up>>
        /\ hpc[s] \in {"list", "respond"} /\ hpc'[s] \in {"respond", "message"}
    BY <1>0, <1>8 DEF HandlerList, HandlerRespond, HandlerGoto, Index!Query, Index!Respond, client
  <2>2. cpc[s] \notin {"add_code", "got_code"} /\ hpc[s] \in Enlisted /\ hpc'[s] \in Enlisted
    BY <2>1, ConnFacts DEF Enlisted
  <2> QED  BY <1>6, <2>1, <2>2
<1>9. CASE HandlerLookup(s)
  <2>1. PICK n \in Rfc : HandlerNumber(s, n, "lookup_number", "respond") /\ Index!Query(s, n)
    BY <1>9 DEF HandlerLookup
  <2>2. UNCHANGED <<registered, holders, cpc, cout, files, stored, want>>
    BY <1>9, <2>1 DEF HandlerLookup, Index!Query, client
  <2>3. hpc[s] = "lookup_number" /\ hpc'[s] = "respond" /\ ToSet(up'[s]) \subseteq ToSet(up[s])
    <3>1. CASE HandlerTakes(s, "lookup_number", "respond")
      BY <1>3, <3>1
    <3>2. CASE HandlerStarves(s, "lookup_number", "respond")
      BY <1>0, <3>2 DEF HandlerStarves, HandlerGoto
    <3> QED  BY <2>1, <3>1, <3>2 DEF HandlerNumber
  <2>4. cpc[s] \notin {"add_code", "got_code"} /\ hpc[s] \in Enlisted /\ hpc'[s] \in Enlisted
    BY <2>3, ConnFacts DEF Enlisted
  <2> QED  BY <1>6, <2>2, <2>3, <2>4
<1>10. CASE Accept(s)
  <2>1. /\ UNCHANGED <<registered, holders, cpc, cout, files, stored, want, up>>
        /\ hpc[s] = "off" /\ hpc'[s] = "version"
    BY <1>0, <1>10 DEF Accept, HandlerGoto, index, client
  <2>2. /\ cpc[s] \notin {"add_code", "got_code"} /\ hpc[s] \in Unlisted /\ hpc'[s] \notin Enlisted
    BY <2>1, ConnFacts DEF Enlisted, Unlisted
  <2> QED  BY <1>0, <2>1, <2>2, HandlerQuiet
<1>11. CASE HandlerSend(s)
  <2>1. /\ UNCHANGED <<registered, holders, cpc, cout, files, stored, want, up, hpc>>
        /\ hout[s] # <<>> /\ down'[s] = Append(down[s], Head(hout[s])) /\ hout'[s] = Tail(hout[s])
    BY <1>0, <1>11 DEF HandlerSend, index, client
  <2>2. Head(hout[s]) \in Frames /\ Tail(hout[s]) \in Seq(Frames)
    BY <1>0, <2>1, TailFacts
  <2>3. ToSet(down'[s]) \cup ToSet(hout'[s]) = ToSet(down[s]) \cup ToSet(hout[s])
    <3>1. ToSet(hout[s]) = {Head(hout[s])} \cup ToSet(hout'[s])
      BY <1>0, <2>1, SetOfSeq
    <3>2. ToSet(down'[s]) = ToSet(down[s]) \cup {Head(hout[s])}
      BY <1>0, <2>1, <2>2, SetOfSeq
    <3> QED  BY <3>1, <3>2
  <2>4. IsAnswered(s) /\ IsAnswered(s)'
    <3>1. /\ Len(hout[s]) \in Nat /\ Len(hout[s]) >= 1 /\ Len(down[s]) \in Nat
          /\ Len(hout'[s]) \in Nat /\ Len(down'[s]) = Len(down[s]) + 1
      BY <1>0, <2>1, <2>2, SeqFacts, TailFacts, AppendFacts
    <3>3. Len(down'[s]) \in Nat /\ Len(down'[s]) >= 1
      BY <3>1
    <3>2. Len(down[s]) + Len(hout[s]) # 0 /\ Len(down'[s]) + Len(hout'[s]) # 0
      BY <3>1, <3>3, NotZero, Zenon
    <3> QED  BY <3>2 DEF IsAnswered
  <2>5. hpc'[s] \in Enlisted => PeerOf[s] \in registered'
    BY <1>0, <2>1 DEF ListedRun
  <2> QED  BY <1>0, <2>1, <2>3, <2>4, <2>5, HandlerQuiet
<1>12. CASE HandlerSendNull(s) \/ HandlerSendFails(s)
  <2>1. /\ UNCHANGED <<registered, holders, cpc, cout, files, stored, want, up, hpc>>
        /\ UNCHANGED <<down, hout>> \/ cpc[s] = "ended"
    BY <1>12 DEF HandlerSendNull, HandlerSendFails, Ended, index, client, handler
  <2>2. hpc'[s] \in Enlisted => PeerOf[s] \in registered'
    BY <1>0, <2>1 DEF ListedRun
  <2> QED  BY <1>0, <1>4, <2>1, <2>2, HandlerQuiet
<1> QED
  BY <1>1, <1>2, <1>5, <1>7, <1>8, <1>9, <1>10, <1>11, <1>12 DEF HandlerStep

\* The frames of an ADD hold one number.
LEMMA CommandFrames ==
  \A n : \A f \in ToSet(<<Command(ADD), Frame("number", n)>>) : f.tag = "number" => f.val = n
<1> SUFFICES ASSUME NEW n, NEW f \in ToSet(<<Command(ADD), Frame("number", n)>>)
             PROVE  f.tag = "number" => f.val = n
  OBVIOUS
<1>1. f = Command(ADD) \/ f = Frame("number", n)
  BY DEF ToSet
<1> QED  BY <1>1, WordValues DEF Frame, Commands

\* A client that goes on at the same numbers.
LEMMA ClientQuiet ==
  ASSUME NEW s \in Sessions, ListedRun(s), UNCHANGED <<registered, holders, hpc>>,
         cpc'[s] \in {"quit", "ended"} \/ (/\ cpc[s] \notin {"off", "quit", "ended"}
                                          /\ cpc'[s] \notin {"version", "announce", "add_code", "got_code"}
                                          /\ Rest(s) = {} /\ stored'[s] = stored[s])
  PROVE  ListedRun(s)'
<1>1. Held(s)' = Held(s)
  BY DEF Held
<1>2. cpc'[s] \notin {"off", "quit", "ended", "version", "announce", "add_code", "got_code"} =>
        Rest(s)' = {}
  BY DEF Rest
<1>3. CASE cpc'[s] \in {"quit", "ended"}
  BY <1>1, <1>3 DEF ListedRun
<1>4. CASE /\ cpc[s] \notin {"off", "quit", "ended"}
           /\ cpc'[s] \notin {"version", "announce", "add_code", "got_code"}
           /\ Rest(s) = {} /\ stored'[s] = stored[s]
  BY <1>1, <1>2, <1>4 DEF ListedRun
<1> QED  BY <1>3, <1>4

LEMMA ClientListed ==
  ASSUME TypeInv, ConnInv, ListedInv, Apart, NEW s \in Sessions, User(s) \/ ClientStep(s)
  PROVE  ListedRun(s)'
<1>0. /\ ListedRun(s) /\ stored[s] \in SUBSET Rfc /\ files[s] \in Seq(Rfc)
      /\ up[s] \in Seq(Frames) /\ cout[s] \in Seq(Frames)
      /\ down[s] \in Seq(Frames) /\ hout[s] \in Seq(Frames)
      /\ DOMAIN cpc = Sessions /\ DOMAIN cout = Sessions /\ DOMAIN up = Sessions
      /\ DOMAIN down = Sessions /\ DOMAIN files = Sessions /\ DOMAIN stored = Sessions
      /\ DOMAIN want = Sessions
      /\ UNCHANGED <<registered, holders, hpc, hout>>
  BY ClientLeaves DEF TypeInv, TypeOK, QueueTypes, ListedInv
<1>1. Held(s)' = Held(s)
  BY <1>0 DEF Held
<1>2. CASE Start(s)
  <2>1. /\ cpc[s] = "off" /\ cpc'[s] = "version" /\ stored'[s] = ToSet(files'[s])
    BY <1>0, <1>2 DEF Start, ClientGoto
  <2>2. Distinct(files'[s])
    <3>1. CASE files' = [files EXCEPT ![s] = Files[s]]
      BY <1>0, <3>1 DEF Apart
    <3>2. CASE After[s] # None /\ files' = [files EXCEPT ![s] = Sorted(stored[After[s]])]
      <4>1. After[s] \in Sessions
        BY <3>2, NumberTypes
      <4>2. stored[After[s]] \in SUBSET Rfc
        BY <4>1 DEF TypeInv, TypeOK
      <4> QED  BY <1>0, <3>2, <4>2, SortedHoldsEach DEF Distinct
    <3> QED  BY <1>2, <3>1, <3>2 DEF Start
  <2>3. Held(s) = {}
    BY <1>0, <2>1, ConnFacts DEF ListedRun
  <2>4. Rest(s)' = ToSet(files'[s])
    BY <2>1 DEF Rest
  <2> QED  BY <1>0, <1>1, <2>1, <2>2, <2>3, <2>4 DEF ListedRun
<1>3. CASE ClientSend(s)
  <2>1. /\ cout[s] # <<>> /\ up'[s] = Append(up[s], Head(cout[s])) /\ cout'[s] = Tail(cout[s])
        /\ UNCHANGED <<cpc, down, files, stored, want>>
    BY <1>0, <1>3 DEF ClientSend
  <2>2. Head(cout[s]) \in Frames
    BY <1>0, <2>1, TailFacts
  <2>3. ToSet(up'[s]) \cup ToSet(cout'[s]) = ToSet(up[s]) \cup ToSet(cout[s])
    <3>1. ToSet(cout[s]) = {Head(cout[s])} \cup ToSet(cout'[s])
      BY <1>0, <2>1, SetOfSeq
    <3>2. ToSet(up'[s]) = ToSet(up[s]) \cup {Head(cout[s])}
      BY <1>0, <2>1, <2>2, SetOfSeq
    <3> QED  BY <3>1, <3>2
  <2>4. Rest(s)' = Rest(s) /\ NumberOf(s)' = NumberOf(s)
    <3>1. IsAnswered(s)' = IsAnswered(s)
      BY <1>0, <2>1 DEF IsAnswered
    <3> QED  BY <2>1, <3>1 DEF Rest, NumberOf
  <2> QED  BY <1>0, <1>1, <2>1, <2>3, <2>4 DEF ListedRun
<1>4. CASE ClientSendFails(s) \/ PeerIsGone(s) \/ Close(s) \/ Interrupt(s) \/ Quit(s)
  <2>1. cpc'[s] \in {"quit", "ended"}
    BY <1>0, <1>4
       DEF ClientSendFails, PeerIsGone, Close, Interrupt, Quit, End, ClientGoto
  <2> QED  BY <1>0, <2>1, ClientQuiet
<1>5. ASSUME NEW label, NEW next, ClientTakes(s, label, next)
      PROVE  /\ cpc[s] = label /\ cpc'[s] = next /\ down'[s] = Tail(down[s]) /\ cout[s] = <<>>
             /\ down[s] # <<>> /\ ToSet(down'[s]) \subseteq ToSet(down[s])
             /\ Head(down[s]) \in ToSet(down[s]) /\ IsAnswered(s)
  <2>1. /\ cpc[s] = label /\ cpc'[s] = next /\ down'[s] = Tail(down[s]) /\ cout[s] = <<>>
        /\ down[s] # <<>>
    BY <1>0, <1>5 DEF ClientTakes, ClientGoto
  <2>2. ToSet(down[s]) = {Head(down[s])} \cup ToSet(down'[s])
    BY <1>0, <2>1, SetOfSeq
  <2>3. IsAnswered(s)
    <3>1. Len(down[s]) \in Nat /\ Len(hout[s]) \in Nat /\ Len(down[s]) >= 1
      BY <1>0, <2>1, SeqFacts, TailFacts
    <3>2. Len(down[s]) + Len(hout[s]) # 0
      BY <3>1, NotZero, Zenon
    <3> QED  BY <3>2 DEF IsAnswered
  <2> QED  BY <2>1, <2>2, <2>3
<1>6. CASE ClientVersion(s)
  <2>1. CASE ClientTakes(s, "version", "ended")
    BY <1>0, <1>5, <2>1, ClientQuiet
  <2>2. CASE ClientTakes(s, "version", "announce")
    <3>1. cpc[s] = "version" /\ cpc'[s] = "announce" /\ UNCHANGED <<files, stored>>
      BY <1>5, <1>6, <2>2 DEF ClientVersion
    <3>2. Rest(s)' = Rest(s)
      BY <3>1 DEF Rest
    <3> QED  BY <1>0, <1>1, <3>1, <3>2 DEF ListedRun
  <2> QED  BY <1>6, <2>1, <2>2 DEF ClientVersion
<1>7. CASE Announce(s)
  <2>1. /\ cpc[s] = "announce" /\ UNCHANGED <<up, down, files, stored, want>>
        /\ Rest(s) = ToSet(files[s])
    BY <1>7 DEF Announce, Rest
  <2>2. CASE files[s] = <<>>
    <3>1. cpc'[s] = "prompt"
      BY <1>0, <1>7, <2>2 DEF Announce, ClientGoto
    <3>2. Rest(s) = {}
      BY <1>0, <2>1, <2>2, SetOfSeq
    <3> QED  BY <1>0, <2>1, <3>1, <3>2, ClientQuiet
  <2>3. CASE files[s] # <<>>
    <3>1. /\ cpc'[s] = "add_code"
          /\ cout'[s] = <<Command(ADD), Frame("number", Head(files[s]))>>
      BY <1>0, <1>7, <2>3 DEF Announce, ClientGoto
    <3>2. /\ down[s] = <<>> /\ hout[s] = <<>> /\ ~IsAnswered(s)
          /\ \A f \in ToSet(up[s]) : f.tag # "number"
      BY <2>1, ConnFacts
    <3>3. ~IsAnswered(s)'
      BY <1>0, <2>1, <3>2 DEF IsAnswered
    <3>4. Rest(s)' = ToSet(files[s]) /\ NumberOf(s)' = Head(files[s])
      BY <2>1, <3>1, <3>3 DEF Rest, NumberOf
    <3>5. ToSet(down'[s]) \cup ToSet(hout'[s]) = {}
      BY <1>0, <2>1, <3>2, SetOfSeq
    <3>6. \A f \in ToSet(cout'[s]) : f.tag = "number" => f.val = Head(files[s])
      BY <3>1, CommandFrames
    <3> QED  BY <1>0, <1>1, <2>1, <3>1, <3>2, <3>4, <3>5, <3>6 DEF ListedRun
  <2> QED  BY <2>2, <2>3
<1>8. CASE Announced(s)
  <2>1. cpc[s] = "add_code" /\ IsAnswered(s) /\ UNCHANGED stored /\ Head(down[s]).val = 200
    <3>1. cpc[s] = "add_code" /\ IsAnswered(s) /\ Head(down[s]) \in ToSet(down[s])
      BY <1>5, <1>8 DEF Announced
    <3> QED  BY <1>0, <1>8, <3>1 DEF ListedRun, Announced
  <2>2. cpc'[s] = "announce" /\ files'[s] = Tail(files[s])
    <3>1. ClientTakes(s, "add_code", "announce") /\ files' = [files EXCEPT ![s] = Tail(@)]
      BY <1>8, <2>1 DEF Announced, ToClient
    <3> QED  BY <1>0, <1>5, <3>1
  <2>3. files[s] # <<>> /\ Distinct(files[s])
    BY <1>0, <2>1 DEF ListedRun, TypeInv, WantInv
  <2>4. Rest(s) = ToSet(Tail(files[s])) /\ Rest(s)' = ToSet(Tail(files[s]))
    BY <2>1, <2>2 DEF Rest
  <2>5. Distinct(files'[s])
    BY <1>0, <2>2, <2>3, DistinctTail
  <2> QED  BY <1>0, <1>1, <2>1, <2>2, <2>4, <2>5 DEF ListedRun
<1>9. CASE ListRemote(s) \/ (\E n \in Rfc : Get(s, n)) \/ ResponseSize(s) \/ Listed(s)
             \/ LookupMissing(s) \/ PeerConnects(s) \/ PeerAnswers(s) \/ FetchMissing(s)
  <2>1. /\ cpc[s] \in {"prompt", "list_size", "list_body", "lookup_size", "lookup_body", "fetch"}
        /\ cpc'[s] \in {"prompt", "list_size", "list_body", "lookup_size", "lookup_body", "fetch",
                        "store", "ended"}
    <3>1. CASE ListRemote(s) \/ (\E n \in Rfc : Get(s, n)) \/ PeerAnswers(s)
      BY <1>0, <3>1 DEF ListRemote, Get, AtPrompt, PeerAnswers, ClientGoto
    <3>2. CASE FetchMissing(s)
      <4>1. /\ cpc[s] = "fetch"
            /\ \/ cpc' = [cpc EXCEPT ![s] = "prompt"]
               \/ cpc' = [cpc EXCEPT ![s] = "prompt", ![from[s]] = "ended"]
        BY <3>2 DEF FetchMissing, ClientGoto
      <4> QED  BY <1>0, <4>1
    <3>3. CASE ResponseSize(s)
      BY <1>5, <3>3 DEF ResponseSize
    <3>4. CASE Listed(s) \/ LookupMissing(s) \/ PeerConnects(s)
      BY <1>5, <3>4 DEF Listed, LookupMissing, PeerConnects
    <3> QED  BY <1>9, <3>1, <3>2, <3>3, <3>4
  <2>2. UNCHANGED stored
    BY <1>9 DEF ListRemote, Get, ResponseSize, Listed, LookupMissing, PeerConnects, PeerAnswers,
                FetchMissing
  <2>3. Rest(s) = {}
    BY <2>1 DEF Rest
  <2> QED  BY <1>0, <2>1, <2>2, <2>3, ClientQuiet
<1>10. CASE FetchDone(s)
  <2>1. /\ cpc[s] = "store" /\ UNCHANGED <<up, down, files, want>>
        /\ cpc'[s] = "got_code" /\ stored'[s] = stored[s] \cup {want[s]}
        /\ cout'[s] = <<Command(ADD), Frame("number", want[s])>>
    BY <1>0, <1>10 DEF FetchDone, ClientGoto
  <2>2. /\ down[s] = <<>> /\ hout[s] = <<>> /\ ~IsAnswered(s)
        /\ \A f \in ToSet(up[s]) : f.tag # "number"
    BY <2>1, ConnFacts
  <2>3. ~IsAnswered(s)'
    BY <1>0, <2>1, <2>2 DEF IsAnswered
  <2>4. Rest(s)' = {want[s]} /\ NumberOf(s)' = want[s] /\ Rest(s) = {}
    BY <2>1, <2>3 DEF Rest, NumberOf
  <2>5. \A f \in ToSet(cout'[s]) : f.tag = "number" => f.val = want[s]
    BY <2>1, CommandFrames
  <2> QED  BY <1>0, <1>1, <2>1, <2>2, <2>4, <2>5, SMTT(30) DEF ListedRun
<1>11. CASE GotCode(s)
  <2>1. cpc[s] = "got_code" /\ cpc'[s] = "prompt" /\ IsAnswered(s) /\ UNCHANGED stored
    BY <1>5, <1>11 DEF GotCode
  <2>2. Rest(s) = {}
    BY <2>1 DEF Rest
  <2> QED  BY <1>0, <2>1, <2>2, ClientQuiet
<1> QED
  BY <1>2, <1>3, <1>4, <1>6, <1>7, <1>8, <1>9, <1>10, <1>11 DEF User, ClientStep

LEMMA ListedStep ==
  ASSUME TypeInv, ConnInv, ListedInv, Apart, [Next]_vars
  PROVE  ListedInv'
<1>1. ASSUME NEW s \in Sessions, User(s) \/ ClientStep(s)
      PROVE  ListedInv'
  <2>1. ASSUME NEW r \in Sessions
        PROVE  ListedRun(r)'
    BY <1>1, ClientListed, ClientApart, ApartStays DEF ListedInv
  <2> QED  BY <2>1 DEF ListedInv
<1>2. ASSUME NEW s \in Sessions, HandlerStep(s)
      PROVE  ListedInv'
  <2>1. ASSUME NEW r \in Sessions
        PROVE  ListedRun(r)'
    BY <1>2, HandlerListed, HandlerApart, ApartStays DEF ListedInv
  <2> QED  BY <2>1 DEF ListedInv
<1>3. CASE UNCHANGED vars
  <2>1. UNCHANGED <<index, up, down, client, handler>>
    BY <1>3 DEF vars
  <2>2. \A r \in Sessions : Apartness(r)
    BY <2>1 DEF index, client, handler, Apartness, Held
  <2> QED  BY <2>2, ApartStays DEF ListedInv
<1> QED  BY <1>1, <1>2, <1>3 DEF Next

\* A client at its prompt is listed, and under exactly the numbers that it has
\* files for: every ADD of its directory and of what it fetched was answered
\* with 200 and taken into the index.  No two clients have the same address, and
\* no two files of a directory the same number: without the first the session
\* that a client is started again for loses to the old one's removal.
THEOREM ClientsAreListed ==
  ASSUME Apart
  PROVE  Spec => []ConnectedIsListed
<1>1. TypeInv /\ ConnInv /\ ListedInv /\ [Next]_vars => ListedInv'
  BY ListedStep
<1>2. TypeInv /\ ListedInv => ConnectedIsListed
  <2> SUFFICES ASSUME TypeInv, ListedInv, NEW s \in Sessions, Idle(s)
               PROVE  /\ PeerOf[s] \in registered
                      /\ { e \in holders : e.peer = PeerOf[s] } =
                           { [rfc |-> n, peer |-> PeerOf[s]] : n \in stored[s] }
    BY DEF ConnectedIsListed
  <2>1. cpc[s] = "prompt" /\ hpc[s] = "message" /\ ListedRun(s)
    BY DEF Idle, AtPrompt, ListedInv
  <2>2. PeerOf[s] \in registered
    BY <2>1 DEF ListedRun, Enlisted
  <2>3. Held(s) = stored[s]
    <3>1. Rest(s) = {}
      BY <2>1 DEF Rest
    <3> QED  BY <2>1, <3>1 DEF ListedRun
  <2>4. \A e \in holders : e.rfc \in Rfc /\ e = [rfc |-> e.rfc, peer |-> e.peer]
    BY DEF TypeInv, TypeOK, Holder, HolderOver
  <2>5. ASSUME NEW e \in holders, e.peer = PeerOf[s]
        PROVE  e \in { [rfc |-> n, peer |-> PeerOf[s]] : n \in stored[s] }
    <3>1. e.rfc \in Held(s)
      BY <2>4, <2>5 DEF Held
    <3> QED  BY <2>3, <2>4, <2>5, <3>1
  <2>6. ASSUME NEW n \in stored[s]
        PROVE  [rfc |-> n, peer |-> PeerOf[s]] \in holders
    BY <2>3 DEF Held
  <2> QED  BY <2>2, <2>5, <2>6
<1> QED  BY <1>1, <1>2, InitListed, Invariance, PTL DEF Spec
=============================================================================
