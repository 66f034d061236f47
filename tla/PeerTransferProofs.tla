-------------------------- MODULE PeerTransferProofs --------------------------
(***************************************************************************)
(* Proofs about PeerTransfer, for every set of clients, of gets and of     *)
(* files; the last that it implements FileExchange.                        *)
(***************************************************************************)
EXTENDS PeerTransfer, SetInduction, SequenceTheorems, FiniteSetTheorems

(***************************************************************************)
(* Sequences of one and of two frames                                      *)
(***************************************************************************)

One(x) == <<x>>
Two(x, y) == <<x, y>>

LEMMA Shorts ==
  /\ \A x : Head(One(x)) = x /\ Tail(One(x)) = <<>> /\ One(x) # <<>> /\ Append(<<>>, x) = One(x)
  /\ \A x, y : Head(Two(x, y)) = x /\ Tail(Two(x, y)) = One(y) /\ Two(x, y) # <<>>
  /\ \A x, y : Append(One(x), y) = Two(x, y)
  /\ \A x, y : One(x) = One(y) => x = y
  /\ \A x, y, z : One(x) # Two(y, z)
  /\ \A x, y, z, w : Two(x, y) = Two(z, w) => x = z /\ y = w
<1>1. \A x : Head(One(x)) = x /\ Tail(One(x)) = <<>> /\ One(x) # <<>> /\ Append(<<>>, x) = One(x)
  BY DEF One
<1>2. \A x, y : Head(Two(x, y)) = x /\ Two(x, y) # <<>>
  BY DEF Two
<1>4. ASSUME NEW x, NEW y
      PROVE  Append(<<x>>, y) = <<x, y>>
  <2>1. /\ <<x>> \in Seq({x, y}) /\ <<x, y>> \in Seq({x, y})
        /\ Len(<<x>>) = 1 /\ Len(<<x, y>>) = 2
    OBVIOUS
  <2>2. Append(<<x>>, y) \in Seq({x, y}) /\ Len(Append(<<x>>, y)) = 2
    BY <2>1, AppendProperties
  <2>3. Append(<<x>>, y)[1] = x /\ Append(<<x>>, y)[2] = y
    BY <2>1, AppendProperties
  <2>4. <<x, y>>[1] = x /\ <<x, y>>[2] = y
    OBVIOUS
  <2>5. \A i \in 1..2 : i = 1 \/ i = 2
    OBVIOUS
  <2>6. \A i \in 1..2 : Append(<<x>>, y)[i] = <<x, y>>[i]
    BY <2>3, <2>4, <2>5
  <2>7. \A s, t \in Seq({x, y}) :
          Len(s) = Len(t) /\ (\A i \in 1..Len(s) : s[i] = t[i]) => s = t
    BY SeqEqual
  <2> QED  BY <2>1, <2>2, <2>6, <2>7
<1>3. ASSUME NEW x, NEW y
      PROVE  Tail(Two(x, y)) = One(y)
  <2>1. One(x) \in Seq({x})
    BY DEF One
  <2>2. Tail(Append(One(x), y)) = Append(Tail(One(x)), y)
    BY <1>1, <2>1, HeadTailAppend
  <2>3. Append(One(x), y) = Two(x, y)
    BY <1>4, Zenon DEF One, Two
  <2> QED  BY <1>1, <2>2, <2>3
<1>5. \A x, y : One(x) = One(y) => x = y
  BY DEF One
<1>6. \A x, y, z : One(x) # Two(y, z)
  BY DEF One, Two
<1>7. \A x, y, z, w : Two(x, y) = Two(z, w) => x = z /\ y = w
  BY DEF Two
<1>8. \A x, y : Append(One(x), y) = Two(x, y)
  BY <1>4, Zenon DEF One, Two
<1> QED  BY <1>1, <1>2, <1>3, <1>5, <1>6, <1>7, <1>8, Zenon

LEMMA Contained ==
  /\ ToSet(<<>>) = {}
  /\ \A x : ToSet(One(x)) = {x}
  /\ \A x, y : ToSet(Two(x, y)) = {x, y}
BY DEF One, Two, ToSet

(***************************************************************************)
(* What is said on a connection                                            *)
(*                                                                         *)
(* By the values of one get: its number k, the labels p and h of the two   *)
(* sides, the frames u and d under way to the handler and back, and the    *)
(* frames o and r that each side has still to send.                        *)
(***************************************************************************)

Asking == Word(GET)
Leaving == Word(DISCONNECT)

\* The GET with its number and the DISCONNECT, as far as the handler has not
\* taken them.
Talk(k, p, h, u, o) ==
  /\ h = "message" =>
       \/ p = "size" /\ u = <<>> /\ o = Two(Asking, GetMessage(k))
       \/ p = "size" /\ u = One(Asking) /\ o = One(GetMessage(k))
       \/ p \in {"size", "dead"} /\ u = Two(Asking, GetMessage(k)) /\ GetMessage(k) # Null /\ o = <<>>
       \/ p = "dead" /\ u = One(Asking) /\ o = <<>>
       \/ p = "closing" /\ u = <<>> /\ o = One(Leaving)
       \/ p \in {"closing", "notify", "done", "dead"} /\ u = One(Leaving) /\ o = <<>>
       \/ p \in {"size", "body", "open", "write", "missing", "dead"} /\ u = <<>> /\ o = <<>>
  /\ h = "number" =>
       \/ p = "size" /\ u = <<>> /\ o = One(GetMessage(k))
       \/ p \in {"size", "dead"} /\ u = One(GetMessage(k)) /\ GetMessage(k) # Null /\ o = <<>>
       \/ p \in {"missing", "dead"} /\ u = <<>> /\ o = <<>>
  /\ h \in {"get", "read"} => p \in {"size", "missing", "dead"} /\ u = <<>> /\ o = <<>>
  /\ h = "done" =>
       p \in {"closing", "notify", "done", "missing", "dead"} /\ u = <<>> /\ o = <<>>
  /\ h = "off" =>
       p \in {"todo", "none", "named", "blocked", "dead"} /\ u = <<>> /\ o = <<>>
  /\ h = "gone" =>
       /\ p \notin {"todo", "none", "named"} /\ u = <<>>
       /\ \/ o = <<>>
          \/ p = "size" /\ (o = One(GetMessage(k)) \/ o = Two(Asking, GetMessage(k)))
          \/ p = "closing" /\ o = One(Leaving)

LEMMA Words ==
  /\ Asking # Null /\ Asking.val = GET /\ Leaving # Null /\ Leaving.val = DISCONNECT
  /\ \A k : GetMessage(k) # Null => GetMessage(k).val = Short(k)
BY DEF Asking, Leaving, Word, Null, GetMessage, Number, GET, DISCONNECT

LEMMA TalkSends ==
  ASSUME NEW k, NEW p, NEW h, NEW u, NEW o, Talk(k, p, h, u, o),
         h \in {"off", "message", "number", "get", "read", "done", "gone"},
         o # <<>>, Head(o) # Null
  PROVE  IF h = "gone" THEN Talk(k, p, h, u, Tail(o)) ELSE Talk(k, p, h, Append(u, Head(o)), Tail(o))
BY Shorts, Words DEF Talk

LEMMA TalkTakes ==
  ASSUME NEW k, NEW p, NEW h, NEW u, NEW o, Talk(k, p, h, u, o), u # <<>>
  PROVE  /\ h = "message" => Head(u).val \in {GET, DISCONNECT}
         /\ h = "message" /\ Head(u).val = GET => Talk(k, p, "number", Tail(u), o)
         /\ h = "message" /\ Head(u).val = DISCONNECT => Talk(k, p, "done", Tail(u), o)
         /\ h = "number" => Head(u).val = Short(k) /\ Talk(k, p, "get", Tail(u), o)
BY Shorts, Words DEF Talk, GET, DISCONNECT

\* The end of either process.
LEMMA TalkEnds ==
  ASSUME NEW k, NEW p, NEW h, NEW u, NEW o, Talk(k, p, h, u, o),
         h \in {"off", "message", "number", "get", "read", "done", "gone"}
  PROVE  /\ p \notin Over => Talk(k, "dead", h, u, <<>>)
         /\ p \in Over => o = <<>>
         /\ p \notin {"todo", "none", "named"} => Talk(k, p, "gone", <<>>, o)
BY Shorts DEF Talk, Over

\* What a handler answers, with one of the contents C.
Replies(C) == {Null, Body(404, <<>>)} \cup { Body(200, c) : c \in C }

\* The GET has not been answered.
Open(h, u, o) == h \in {"number", "get", "read"} \/ u # <<>> \/ o # <<>>

\* An answer, with its size or without it, as far as it is on its way ...
Sized(C, d, r) ==
  \E a \in Replies(C) :
    \/ d = <<>> /\ r = Two(Size, a)
    \/ d = One(Size) /\ r = One(a)
    \/ a # Null /\ d = Two(Size, a) /\ r = <<>>

Bare(C, d, r) ==
  \E a \in Replies(C) :
    \/ d = <<>> /\ r = One(a)
    \/ a # Null /\ d = One(a) /\ r = <<>>

\* ... or what is left of one.
Part(C, q) ==
  q = <<>> \/ q = One(Size) \/ \E a \in Replies(C) : q = One(a) \/ q = Two(Size, a)
PartSent(C, q) ==
  q = <<>> \/ q = One(Size) \/ \E a \in Replies(C) \ {Null} : q = One(a) \/ q = Two(Size, a)

Silent == {"todo", "none", "named", "blocked", "open", "write", "closing", "notify", "done"}

Reply(C, p, h, u, o, d, r) ==
  /\ p = "size" /\ h # "gone" /\ Open(h, u, o) => d = <<>> /\ r = <<>>
  /\ p = "size" /\ h # "gone" /\ ~Open(h, u, o) => Sized(C, d, r)
  /\ p = "size" /\ h = "gone" =>
       d = <<>> \/ d = One(Size) \/ \E a \in Replies(C) \ {Null} : d = Two(Size, a)
  /\ p = "body" /\ h # "gone" => Bare(C, d, r)
  /\ p = "body" /\ h = "gone" => d = <<>> \/ \E a \in Replies(C) \ {Null} : d = One(a)
  /\ p \in Silent => d = <<>> /\ r = <<>>
  /\ p = "missing" => d = <<>>
  /\ PartSent(C, d) /\ Part(C, r)
  /\ h # "message" => r = <<>>

LEMMA ReplyTags ==
  ASSUME NEW C
  PROVE  /\ Size # Null /\ Body(404, <<>>) # Null
         /\ \A a \in Replies(C) : a # Size
         /\ \A a \in Replies(C) : a # Null /\ a.val # 404 => \E c \in C : a = Body(200, c)
BY DEF Replies, Size, Null, Body

LEMMA ReplySends ==
  ASSUME NEW C, NEW p, NEW h, NEW u, NEW o, NEW d, NEW r, Reply(C, p, h, u, o, d, r),
         r # <<>>, Head(r) # Null, p \in Silent \cup {"size", "body"}
  PROVE  Reply(C, p, h, u, o, Append(d, Head(r)), Tail(r))
<1>1. h = "message"
  BY DEF Reply
<1>2. CASE p = "size"
  <2>1. ~Open(h, u, o) /\ Sized(C, d, r)
    BY <1>1, <1>2 DEF Reply
  <2>2. PICK a \in Replies(C) :
          \/ d = <<>> /\ r = Two(Size, a)
          \/ d = One(Size) /\ r = One(a)
          \/ a # Null /\ d = Two(Size, a) /\ r = <<>>
    BY <2>1 DEF Sized
  <2>3. \/ Append(d, Head(r)) = One(Size) /\ Tail(r) = One(a)
        \/ Append(d, Head(r)) = Two(Size, a) /\ Tail(r) = <<>> /\ a # Null
    BY <2>2, Shorts
  <2>4. Sized(C, Append(d, Head(r)), Tail(r))
    BY <2>3 DEF Sized
  <2>5. PartSent(C, Append(d, Head(r))) /\ Part(C, Tail(r))
    BY <2>3 DEF PartSent, Part
  <2> QED  BY <1>1, <1>2, <2>1, <2>4, <2>5 DEF Reply, Silent
<1>3. CASE p = "body"
  <2>1. PICK a \in Replies(C) :
          \/ d = <<>> /\ r = One(a)
          \/ a # Null /\ d = One(a) /\ r = <<>>
    BY <1>1, <1>3 DEF Reply, Bare
  <2>2. Append(d, Head(r)) = One(a) /\ Tail(r) = <<>> /\ a # Null
    BY <2>1, Shorts
  <2>3. Bare(C, Append(d, Head(r)), Tail(r))
    BY <2>2 DEF Bare
  <2>4. PartSent(C, Append(d, Head(r))) /\ Part(C, Tail(r))
    BY <2>2 DEF PartSent, Part
  <2> QED  BY <1>1, <1>3, <2>3, <2>4 DEF Reply, Silent
<1>4. CASE p \in Silent
  BY <1>4 DEF Reply
<1> QED  BY <1>2, <1>3, <1>4

LEMMA ReplyLost ==
  ASSUME NEW C, NEW p, NEW h, NEW u, NEW o, NEW d, NEW r, Reply(C, p, h, u, o, d, r),
         r # <<>>, p \in {"missing", "notify", "done", "dead"}
  PROVE  Reply(C, p, h, u, o, d, Tail(r))
<1>1. Part(C, Tail(r))
  BY Shorts, SMTT(30) DEF Reply, Part
<1>2. p \in {"missing", "dead"} /\ h = "message"
  BY DEF Reply, Silent
<1> QED  BY <1>1, <1>2 DEF Reply, Silent

LEMMA ReplyTaken ==
  ASSUME NEW C, NEW p, NEW h, NEW u, NEW o, NEW d, NEW r, Reply(C, p, h, u, o, d, r), d # <<>>
  PROVE  /\ p = "size" => Reply(C, "body", h, u, o, Tail(d), r)
         /\ p = "body" /\ Head(d).val = 404 => Reply(C, "missing", h, u, o, Tail(d), r)
         /\ p = "body" /\ Head(d).val # 404 =>
              Reply(C, "open", h, u, o, Tail(d), r) /\ \E c \in C : Head(d) = Body(200, c)
<1>1. ASSUME p = "size"
      PROVE  Reply(C, "body", h, u, o, Tail(d), r)
  <2>1. CASE h # "gone"
    <3>1. ~Open(h, u, o) /\ Sized(C, d, r)
      BY <1>1, <2>1 DEF Reply
    <3>2. PICK a \in Replies(C) :
            \/ d = One(Size) /\ r = One(a)
            \/ a # Null /\ d = Two(Size, a) /\ r = <<>>
      BY <3>1 DEF Sized
    <3>3. \/ Tail(d) = <<>> /\ r = One(a)
          \/ a # Null /\ Tail(d) = One(a) /\ r = <<>>
      BY <3>2, Shorts
    <3>4. Bare(C, Tail(d), r) /\ PartSent(C, Tail(d))
      BY <3>3 DEF Bare, PartSent
    <3> QED  BY <2>1, <3>4 DEF Reply, Silent
  <2>2. CASE h = "gone"
    <3>1. \/ d = One(Size)
          \/ \E a \in Replies(C) \ {Null} : d = Two(Size, a)
      BY <1>1, <2>2 DEF Reply
    <3>2. Tail(d) = <<>> \/ \E a \in Replies(C) \ {Null} : Tail(d) = One(a)
      BY <3>1, Shorts
    <3>3. PartSent(C, Tail(d))
      BY <3>2 DEF PartSent
    <3> QED  BY <2>2, <3>2, <3>3 DEF Reply, Silent
  <2> QED  BY <2>1, <2>2
<1>2. ASSUME p = "body"
      PROVE  \E a \in Replies(C) \ {Null} : d = One(a) /\ r = <<>>
  <2>1. h = "gone" => r = <<>>
    BY DEF Reply
  <2>2. CASE h # "gone"
    BY <1>2, <2>2 DEF Reply, Bare
  <2>3. CASE h = "gone"
    BY <1>2, <2>1, <2>3 DEF Reply
  <2> QED  BY <2>2, <2>3
<1>3. PartSent(C, <<>>) /\ Part(C, <<>>)
  BY DEF PartSent, Part
<1>4. ASSUME p = "body"
      PROVE  /\ Reply(C, "missing", h, u, o, Tail(d), r) /\ Reply(C, "open", h, u, o, Tail(d), r)
             /\ Head(d).val # 404 => \E c \in C : Head(d) = Body(200, c)
  <2>1. Tail(d) = <<>> /\ r = <<>> /\ Head(d) \in Replies(C) \ {Null}
    BY <1>2, <1>4, Shorts
  <2>2. Reply(C, "missing", h, u, o, Tail(d), r) /\ Reply(C, "open", h, u, o, Tail(d), r)
    BY <1>3, <2>1 DEF Reply, Silent
  <2> QED  BY <2>1, <2>2, ReplyTags
<1> QED  BY <1>1, <1>4

LEMMA ReplyMade ==
  ASSUME NEW C, NEW p, NEW h, NEW d, NEW r, Reply(C, p, h, <<>>, <<>>, d, r),
         h \in {"get", "read"}, p \in {"size", "missing", "dead"}, NEW a \in Replies(C)
  PROVE  Reply(C, p, "message", <<>>, <<>>, d, Two(Size, a))
<1>1. Part(C, Two(Size, a)) /\ PartSent(C, d)
  BY DEF Part, Reply
<1>2. p = "size" => d = <<>>
  BY DEF Reply, Open
<1>3. p = "size" => Sized(C, d, Two(Size, a))
  BY <1>2 DEF Sized
<1>4. p = "missing" => d = <<>>
  BY DEF Reply
<1> QED  BY <1>1, <1>3, <1>4 DEF Reply, Open, Silent

\* The handler goes on while it has nothing to send.
LEMMA ReplyStays ==
  ASSUME NEW C, NEW p, NEW h, NEW u, NEW o, NEW d, Reply(C, p, h, u, o, d, <<>>), h # "gone",
         NEW h2, NEW u2, NEW o2, h2 # "gone",
         p = "size" => (Open(h, u, o) <=> Open(h2, u2, o2))
  PROVE  Reply(C, p, h2, u2, o2, d, <<>>)
BY DEF Reply

\* The client goes on where nothing is under way to it.
LEMMA ReplyQuiet ==
  ASSUME NEW C, NEW p, NEW h, NEW u, NEW o, NEW d, NEW r, Reply(C, p, h, u, o, d, r), p \in Silent,
         NEW p2 \in Silent, NEW u2, NEW o2
  PROVE  Reply(C, p2, h, u2, o2, d, r)
BY DEF Reply, Silent

LEMMA ReplyEnds ==
  ASSUME NEW C, NEW p, NEW h, NEW u, NEW o, NEW d, NEW r, Reply(C, p, h, u, o, d, r),
         NEW u2, NEW o2
  PROVE  Reply(C, "dead", h, u2, o2, d, r) /\ Reply(C, p, "gone", u2, o2, d, <<>>)
<1>1. Reply(C, "dead", h, u2, o2, d, r)
  BY DEF Reply, Silent
<1>2. p = "size" => d = <<>> \/ d = One(Size) \/ \E a \in Replies(C) \ {Null} : d = Two(Size, a)
  BY DEF Reply, Sized
<1>3. p = "body" => d = <<>> \/ \E a \in Replies(C) \ {Null} : d = One(a)
  BY DEF Reply, Bare
<1>4. Part(C, <<>>) /\ PartSent(C, d)
  BY DEF Part, Reply
<1>5. (p \in Silent \cup {"missing"}) => d = <<>>
  BY DEF Reply
<1> QED  BY <1>1, <1>2, <1>3, <1>4, <1>5 DEF Reply

(***************************************************************************)
(* Prefixes                                                                *)
(***************************************************************************)

LEMMA LenNat ==
  ASSUME NEW S, NEW s \in Seq(S)
  PROVE  Len(s) \in Nat /\ \A i \in 1..Len(s) : s[i] \in S
BY LenProperties, ElementOfSeq

LEMMA PartOf ==
  ASSUME NEW S, NEW s \in Seq(S), NEW i \in Nat, i <= Len(s), NEW a \in Nat \ {0}
  PROVE  /\ SubSeq(s, a, i) \in Seq(S)
         /\ Len(SubSeq(s, a, i)) = IF a <= i THEN i - a + 1 ELSE 0
         /\ \A j \in 1..(i - a + 1) : SubSeq(s, a, i)[j] = s[a + j - 1]
<1>1. \A j \in a..i : s[j] \in S
  BY LenNat
<1> QED  BY <1>1, SubSeqProperties

LEMMA PrefixMeans ==
  ASSUME NEW S, NEW s \in Seq(S), NEW t \in Seq(S)
  PROVE  IsPrefix(s, t) <=> Len(s) <= Len(t) /\ \A i \in 1..Len(s) : s[i] = t[i]
<1>1. Len(s) \in Nat /\ Len(t) \in Nat
  BY LenNat
<1>2. ASSUME Len(s) <= Len(t)
      PROVE  SubSeq(s, 1, Len(s)) = SubSeq(t, 1, Len(s)) <=> \A i \in 1..Len(s) : s[i] = t[i]
  <2>1. SubSeq(s, 1, Len(s)) = s
    BY SubSeqFull
  <2>2. SubSeq(t, 1, Len(s)) \in Seq(S) /\ Len(SubSeq(t, 1, Len(s))) = Len(s)
    BY <1>1, <1>2, PartOf
  <2>3. \A i \in 1..Len(s) : SubSeq(t, 1, Len(s))[i] = t[i]
    BY <1>1, <1>2, PartOf
  <2>4. (\A i \in 1..Len(s) : s[i] = SubSeq(t, 1, Len(s))[i]) => s = SubSeq(t, 1, Len(s))
    BY <2>2, SeqEqual
  <2> QED  BY <2>1, <2>3, <2>4
<1> QED  BY <1>2 DEF IsPrefix

LEMMA PrefixOrder ==
  ASSUME NEW S, NEW s \in Seq(S), NEW t \in Seq(S), NEW v \in Seq(S)
  PROVE  /\ IsPrefix(s, s)
         /\ IsPrefix(s, t) /\ IsPrefix(t, v) => IsPrefix(s, v)
         /\ IsPrefix(s, t) /\ Len(s) = Len(t) => s = t
<1>1. Len(s) \in Nat /\ Len(t) \in Nat /\ Len(v) \in Nat
  BY LenNat
<1>2. IsPrefix(s, s)
  BY <1>1, PrefixMeans
<1>3. ASSUME IsPrefix(s, t), IsPrefix(t, v)
      PROVE  IsPrefix(s, v)
  <2>1. Len(s) <= Len(t) /\ \A i \in 1..Len(s) : s[i] = t[i]
    BY <1>3, PrefixMeans
  <2>2. Len(t) <= Len(v) /\ \A i \in 1..Len(t) : t[i] = v[i]
    BY <1>3, PrefixMeans
  <2>3. Len(s) <= Len(v) /\ \A i \in 1..Len(s) : s[i] = v[i]
    BY <1>1, <2>1, <2>2
  <2> QED  BY <2>3, PrefixMeans
<1>4. ASSUME IsPrefix(s, t), Len(s) = Len(t)
      PROVE  s = t
  BY <1>4, PrefixMeans, SeqEqual
<1> QED  BY <1>2, <1>3, <1>4

LEMMA EmptyPrefix ==
  ASSUME NEW S, NEW t \in Seq(S)
  PROVE  <<>> \in Seq(S) /\ IsPrefix(<<>>, t)
<1>1. <<>> \in Seq(S) /\ Len(<<>>) = 0
  OBVIOUS
<1>2. Len(t) \in Nat
  BY LenNat
<1>3. Len(<<>>) <= Len(t) /\ \A i \in 1..Len(<<>>) : <<>>[i] = t[i]
  BY <1>1, <1>2
<1> QED  BY <1>1, <1>3, PrefixMeans

LEMMA ConcatPrefix ==
  ASSUME NEW S, NEW s \in Seq(S), NEW t \in Seq(S)
  PROVE  s \o t \in Seq(S) /\ IsPrefix(s, s \o t)
<1>1. Len(s) \in Nat /\ Len(t) \in Nat
  BY LenNat
<1>2. /\ s \o t \in Seq(S) /\ Len(s \o t) = Len(s) + Len(t)
      /\ \A i \in 1..Len(s) + Len(t) : (s \o t)[i] = IF i <= Len(s) THEN s[i] ELSE t[i - Len(s)]
  BY ConcatProperties
<1>3. Len(s) <= Len(s \o t) /\ \A i \in 1..Len(s) : s[i] = (s \o t)[i]
  BY <1>1, <1>2
<1> QED  BY <1>2, <1>3, PrefixMeans

LEMMA SubSeqPrefix ==
  ASSUME NEW S, NEW t \in Seq(S), NEW i \in 0..Len(t)
  PROVE  SubSeq(t, 1, i) \in Seq(S) /\ Len(SubSeq(t, 1, i)) = i /\ IsPrefix(SubSeq(t, 1, i), t)
<1>1. Len(t) \in Nat
  BY LenNat
<1>2. SubSeq(t, 1, i) \in Seq(S) /\ Len(SubSeq(t, 1, i)) = i
  BY <1>1, PartOf
<1>3. \A j \in 1..i : SubSeq(t, 1, i)[j] = t[j]
  BY <1>1, PartOf
<1>4. Len(SubSeq(t, 1, i)) <= Len(t) /\ \A j \in 1..Len(SubSeq(t, 1, i)) : SubSeq(t, 1, i)[j] = t[j]
  BY <1>1, <1>2, <1>3
<1> QED  BY <1>2, <1>4, PrefixMeans

\* A file that is read in blocks, and one that is written in blocks.
LEMMA ReadOn ==
  ASSUME NEW S, NEW s \in Seq(S), NEW t \in Seq(S), IsPrefix(s, t),
         NEW v \in Seq(S), IsPrefix(v, SubSeq(t, Len(s) + 1, Len(t)))
  PROVE  SubSeq(t, Len(s) + 1, Len(t)) \in Seq(S) /\ IsPrefix(s \o v, t)
<1> DEFINE rest_ == SubSeq(t, Len(s) + 1, Len(t))
<1>1. Len(s) \in Nat /\ Len(t) \in Nat /\ Len(v) \in Nat
  BY LenNat
<1>2. Len(s) <= Len(t) /\ \A i \in 1..Len(s) : s[i] = t[i]
  BY PrefixMeans
<1>3. /\ rest_ \in Seq(S)
      /\ Len(rest_) = IF Len(s) + 1 <= Len(t) THEN Len(t) - (Len(s) + 1) + 1 ELSE 0
      /\ \A j \in 1..(Len(t) - (Len(s) + 1) + 1) : rest_[j] = t[Len(s) + 1 + j - 1]
  BY <1>1, PartOf
<1>4. Len(rest_) = Len(t) - Len(s) /\ \A j \in 1..Len(rest_) : rest_[j] = t[Len(s) + j]
  BY <1>1, <1>2, <1>3
<1>5. Len(v) <= Len(rest_) /\ \A i \in 1..Len(v) : v[i] = rest_[i]
  <2>1. IsPrefix(v, rest_) /\ rest_ \in Seq(S)
    BY <1>3
  <2> HIDE DEF rest_
  <2> QED  BY <2>1, PrefixMeans
<1>6. /\ s \o v \in Seq(S) /\ Len(s \o v) = Len(s) + Len(v)
      /\ \A i \in 1..Len(s) + Len(v) : (s \o v)[i] = IF i <= Len(s) THEN s[i] ELSE v[i - Len(s)]
  BY ConcatProperties
<1>7. Len(s \o v) <= Len(t)
  BY <1>1, <1>4, <1>5, <1>6
<1>8. ASSUME NEW i \in 1..Len(s \o v)
      PROVE  (s \o v)[i] = t[i]
  <2>1. CASE i <= Len(s)
    BY <1>1, <1>2, <1>6, <2>1
  <2>2. CASE ~(i <= Len(s))
    <3>1. i - Len(s) \in 1..Len(v) /\ i - Len(s) \in 1..Len(rest_) /\ Len(s) + (i - Len(s)) = i
      BY <1>1, <1>4, <1>5, <1>6, <2>2
    <3>2. (s \o v)[i] = v[i - Len(s)]
      BY <1>6, <2>2
    <3> QED  BY <1>4, <1>5, <3>1, <3>2
  <2> QED  BY <2>1, <2>2
<1> QED  BY <1>3, <1>6, <1>7, <1>8, PrefixMeans

LEMMA WriteOn ==
  ASSUME NEW S, NEW s \in Seq(S), NEW t \in Seq(S), NEW i \in 1..Len(t)
  PROVE  /\ s \o SubSeq(t, 1, i) \in Seq(S) /\ SubSeq(t, i + 1, Len(t)) \in Seq(S)
         /\ (s \o SubSeq(t, 1, i)) \o SubSeq(t, i + 1, Len(t)) = s \o t
<1>1. Len(t) \in Nat
  BY LenNat
<1>2. SubSeq(t, 1, i) \in Seq(S) /\ SubSeq(t, i + 1, Len(t)) \in Seq(S)
  BY <1>1, PartOf
<1>3. SubSeq(t, 1, i) \o SubSeq(t, i + 1, Len(t)) = SubSeq(t, 1, Len(t))
  BY <1>1, ConcatAdjacentSubSeq
<1>4. SubSeq(t, 1, Len(t)) = t
  BY SubSeqFull
<1>5. (s \o SubSeq(t, 1, i)) \o SubSeq(t, i + 1, Len(t))
        = s \o (SubSeq(t, 1, i) \o SubSeq(t, i + 1, Len(t)))
  <2> DEFINE a == SubSeq(t, 1, i)
  <2> DEFINE b == SubSeq(t, i + 1, Len(t))
  <2>1. a \in Seq(S) /\ b \in Seq(S)
    BY <1>2
  <2> HIDE DEF a, b
  <2>2. (s \o a) \o b = s \o (a \o b)
    BY <2>1, ConcatProperties, SeqEqual
  <2> QED  BY <2>2 DEF a, b
<1>6. s \o SubSeq(t, 1, i) \in Seq(S)
  BY <1>2, ConcatProperties
<1> QED  BY <1>2, <1>3, <1>4, <1>5, <1>6

\* What stands before the first of some byte is a beginning, and all where
\* there is no such byte.
LEMMA BeforeIsPrefix ==
  ASSUME NEW S, NEW t \in Seq(S), NEW byte
  PROVE  /\ Before(t, byte) \in Seq(S) /\ IsPrefix(Before(t, byte), t)
         /\ (\A i \in DOMAIN t : t[i] # byte) => Before(t, byte) = t
<1> DEFINE at == { i \in DOMAIN t : t[i] = byte }
<1>1. Len(t) \in Nat /\ DOMAIN t = 1..Len(t)
  BY LenNat, LenProperties
<1>2. CASE at = {}
  BY <1>2, PrefixOrder DEF Before
<1>3. CASE at # {}
  <2>1. at \in SUBSET Nat
    BY <1>1
  <2>2. \E x \in at : \A y \in at : x <= y
    BY <1>3, <2>1, LeastNat
  <2>3. Min(at) \in at
    BY <2>2 DEF Min
  <2>4. Min(at) - 1 \in 0..Len(t)
    BY <1>1, <2>3
  <2>5. Before(t, byte) = SubSeq(t, 1, Min(at) - 1)
    BY <1>3 DEF Before
  <2> QED  BY <1>3, <2>4, <2>5, SubSeqPrefix
<1> QED  BY <1>2, <1>3

LEMMA ShortTwice ==
  ASSUME NEW k \in Int
  PROVE  Short(k) \in Int /\ Short(Short(k)) = Short(k)
BY DEF Short

LEMMA TalkStarves ==
  ASSUME NEW k, NEW p, NEW h, NEW o, Talk(k, p, h, <<>>, o),
         p \in {"missing", "notify", "done", "dead"}
  PROVE  /\ h = "message" =>
              /\ p \in {"missing", "dead"} /\ o = <<>>
              /\ \A g \in {"message", "number", "done"} : Talk(k, p, g, <<>>, o)
         /\ h = "number" => Talk(k, p, "get", <<>>, o) /\ p \in {"missing", "dead"} /\ o = <<>>
BY Shorts DEF Talk

(***************************************************************************)
(* The invariant of the types                                              *)
(***************************************************************************)

ProcessType ==
  /\ process \in [Nodes -> {"up", "quit", "ended"}] /\ again \subseteq Restarting
  /\ door \in [Nodes -> {"open", "shut", "none"}]
  /\ limit \in Limits /\ quitters \in Quitting
  /\ DOMAIN fds = Nodes /\ \A n \in Nodes : fds[n] \in 0..limit[n]
  /\ listed \in [Numbers -> SUBSET Nodes]
  /\ known \subseteq Nodes /\ leaving \subseteq Nodes

DiskType ==
  /\ DOMAIN disk = Nodes
  /\ \A n \in Nodes : \A k \in DOMAIN disk[n] : disk[n][k] \in Contents

HandlerLabels == {"off", "message", "number", "get", "read", "done", "gone"}
FetchLabels ==
  {"todo", "none", "missing", "done", "dead", "named", "blocked", "size", "body", "open", "write",
   "closing", "notify"}

LabelType ==
  /\ pc \in [Fetches -> FetchLabels] /\ hpc \in [Fetches -> HandlerLabels]
  /\ want \in [Fetches -> Numbers \cup {None}] /\ asked \in [Fetches -> Nodes \cup {None}]
  /\ message \in [Fetches -> {HELLO, GET, DISCONNECT, NtoHL(GET), None}]
  /\ number \in [Fetches -> { Short(k) : k \in Numbers } \cup {None}]
  /\ DOMAIN out = Fetches /\ DOMAIN up = Fetches /\ DOMAIN hout = Fetches /\ DOMAIN down = Fetches
  /\ rest \in [Fetches -> Contents] /\ text \in [Fetches -> Contents]

\* A get that is under way.
Active(f) == pc[f] \notin Over

\* One at a time at each client, which runs; it stores what is not there.
PromptInv ==
  /\ \A f \in Fetches : Active(f) => process[By[f]] = "up"
  /\ \A f, g \in Fetches : By[f] = By[g] /\ Active(f) /\ Active(g) => f = g
  /\ \A f \in Fetches :
       /\ IF pc[f] = "todo" THEN want[f] = None ELSE want[f] \in Numbers
       /\ IF pc[f] \in {"todo", "none"} THEN asked[f] = None ELSE asked[f] \in Nodes
       /\ pc[f] \in {"named", "blocked", "size", "body", "open"} =>
            want[f] \notin DOMAIN disk[By[f]]
       /\ pc[f] = "write" => want[f] \in DOMAIN disk[By[f]]

\* The descriptors that a get will give back.
FdInv ==
  \A f \in Fetches :
    /\ pc[f] \in {"blocked", "size", "body", "open", "closing"} => fds[By[f]] >= 1
    /\ pc[f] = "write" => fds[By[f]] >= 2

\* A handler runs in a client that runs; it has been asked for the number of the
\* get, as far as anybody waits for it, and what it has read is a beginning of
\* the file.
HandlerOk(f) ==
  /\ hpc[f] \notin {"off", "gone"} => process[asked[f]] = "up"
  /\ message[f] = DISCONNECT => hpc[f] \in {"done", "gone"}
  /\ hpc[f] \in {"get", "read"} => number[f] \in { Short(k) : k \in Numbers }
  /\ hpc[f] \in {"get", "read"} /\ ~Closed(f) => number[f] = Short(want[f])
  /\ hpc[f] = "read" => HasFile(f) /\ IsPrefix(text[f], File(f))
  /\ hpc[f] \notin {"read", "gone"} => text[f] = <<>>
HandlerInv == \A f \in Fetches : HandlerOk(f)

TalkInv == \A f \in Fetches : Talk(want[f], pc[f], hpc[f], up[f], out[f])
ReplyInv ==
  \A f \in Fetches : Reply(Contents, pc[f], hpc[f], up[f], out[f], down[f], hout[f])

TypeInv ==
  ProcessType /\ DiskType /\ LabelType /\ PromptInv /\ FdInv /\ HandlerInv /\ TalkInv /\ ReplyInv

(***************************************************************************)
(* The steps: of a get and its handler, and of a process that ends         *)
(***************************************************************************)

FetchActs(f) ==
  \/ \E k \in Numbers : Get(f, k)
  \/ Connect(f) \/ ConnectUnanswered(f) \/ Send(f) \/ SendLost(f)
  \/ RecvSize(f) \/ RecvMissing(f) \/ RecvContent(f)
  \/ OpenFile(f) \/ OpenFails(f) \/ (\E i \in Lens : WriteBlock(f, i)) \/ CloseFile(f)
  \/ Disconnect(f) \/ Notify(f)

HandlerActs(f) ==
  \/ HandlerMessage(f) \/ HandlerStaleMessage(f) \/ HandlerNumber(f)
  \/ GetContent(f) \/ GetContentThrows(f) \/ (\E i \in Lens : ReadBlock(f, i)) \/ ReadEnd(f)
  \/ HandlerSend(f) \/ HandlerSendLost(f)

Departs(n) ==
  /\ process[n] = "up"
  /\ \/ Ends(n)
     \/ Leaves(n, "quit") /\ leaving' = leaving \cup {n} /\ UNCHANGED <<listed, known>>

LEMMA Steps ==
  ASSUME TypeInv, Next
  PROVE  \/ \E f \in Fetches : FetchActs(f) \/ HandlerActs(f)
         \/ \E n \in Nodes : Departs(n) \/ Forget(n) \/ Restart(n)
<1>1. ASSUME NEW f \in Fetches, GetThrows(f) \/ BlockedThrows(f) \/ ConnectFails(f) \/ SendEnds(f)
      PROVE  By[f] \in Nodes /\ Departs(By[f])
  <2>1. By[f] \in Nodes
    BY TransferAssumption
  <2>2. CASE GetThrows(f)
    BY <2>1, <2>2 DEF GetThrows, Idle, Departs
  <2>3. CASE BlockedThrows(f) \/ ConnectFails(f)
    BY <2>1, <2>3 DEF BlockedThrows, ConnectFails, Departs, TypeInv, PromptInv, Active, Over
  <2>4. CASE SendEnds(f)
    <3>1. out[f] # <<>> /\ hpc[f] \in HandlerLabels
      BY <2>4 DEF SendEnds, TypeInv, LabelType
    <3>2. Talk(want[f], pc[f], hpc[f], up[f], out[f])
      BY DEF TypeInv, TalkInv
    <3>3. pc[f] \in {"size", "closing"}
      BY <3>1, <3>2 DEF Talk, HandlerLabels
    <3> QED  BY <2>1, <2>4, <3>3 DEF SendEnds, Departs, TypeInv, PromptInv, Active, Over
  <2> QED  BY <1>1, <2>2, <2>3, <2>4
<1>2. ASSUME NEW f \in Fetches, HandlerSendEnds(f)
      PROVE  asked[f] \in Nodes /\ Departs(asked[f])
  <2>1. hpc[f] = "message"
    BY <1>2 DEF HandlerSendEnds, TypeInv, ReplyInv, Reply
  <2>2. pc[f] \notin {"todo", "none"}
    BY <2>1 DEF TypeInv, TalkInv, Talk
  <2>3. asked[f] \in Nodes /\ process[asked[f]] = "up"
    BY <2>1, <2>2 DEF TypeInv, PromptInv, HandlerInv, HandlerOk
  <2> QED  BY <1>2, <2>3 DEF HandlerSendEnds, Departs
<1>3. ASSUME NEW n \in Nodes, Quit(n)
      PROVE  Departs(n)
  BY <1>3 DEF Quit, Idle, Departs
<1>4. ASSUME NEW f \in Fetches, FetchStep(f) \/ HandlerStep(f) \/ BlockedThrows(f)
      PROVE  \/ FetchActs(f) \/ HandlerActs(f)
             \/ GetThrows(f) \/ BlockedThrows(f) \/ ConnectFails(f) \/ SendEnds(f) \/ HandlerSendEnds(f)
  BY <1>4 DEF FetchStep, HandlerStep, FetchActs, HandlerActs
<1>5. ASSUME NEW f \in Fetches, NEW k \in Numbers, Get(f, k)
      PROVE  FetchActs(f)
  BY <1>5 DEF FetchActs
<1> QED  BY <1>1, <1>2, <1>3, <1>4, <1>5 DEF Next

\* What the other gets see of such a step.
Aside(g) ==
  /\ pc'[g] = pc[g] /\ want'[g] = want[g] /\ asked'[g] = asked[g] /\ out'[g] = out[g]
  /\ rest'[g] = rest[g] /\ up'[g] = up[g] /\ down'[g] = down[g] /\ hpc'[g] = hpc[g]
  /\ hout'[g] = hout[g] /\ message'[g] = message[g] /\ number'[g] = number[g]
  /\ text'[g] = text[g]

LEMMA FetchAside ==
  ASSUME LabelType, NEW f \in Fetches, FetchActs(f), NEW g \in Fetches, g # f
  PROVE  Aside(g)
<1> USE DEF LabelType, Aside, fetch, handler, nodes, lives, index, Goto
<1>1. CASE \E k \in Numbers : Get(f, k)
  BY <1>1 DEF Get
<1>2. CASE Connect(f) \/ ConnectUnanswered(f)
  BY <1>2 DEF Connect, ConnectUnanswered
<1>3. CASE Send(f) \/ SendLost(f)
  BY <1>3 DEF Send, SendLost
<1>4. CASE RecvSize(f) \/ RecvMissing(f) \/ RecvContent(f)
  BY <1>4 DEF RecvSize, RecvMissing, RecvContent, Takes
<1>5. CASE OpenFile(f) \/ OpenFails(f)
  BY <1>5 DEF OpenFile, OpenFails
<1>6. CASE \E i \in Lens : WriteBlock(f, i)
  BY <1>6 DEF WriteBlock
<1>7. CASE CloseFile(f) \/ Disconnect(f) \/ Notify(f)
  BY <1>7 DEF CloseFile, Disconnect, Notify
<1> QED  BY <1>1, <1>2, <1>3, <1>4, <1>5, <1>6, <1>7 DEF FetchActs

LEMMA HandlerAside ==
  ASSUME LabelType, NEW f \in Fetches, HandlerActs(f), NEW g \in Fetches, g # f
  PROVE  Aside(g)
<1> USE DEF LabelType, Aside, fetch, handler, nodes, lives, index, HandlerGoto
<1>1. CASE HandlerMessage(f)
  BY <1>1 DEF HandlerMessage, HandlerTakes, Dispatch
<1>2. CASE HandlerStaleMessage(f)
  BY <1>2 DEF HandlerStaleMessage, HandlerStarves, Dispatch
<1>3. CASE HandlerNumber(f)
  BY <1>3 DEF HandlerNumber, HandlerTakes, HandlerStarves
<1>4. CASE GetContent(f) \/ GetContentThrows(f) \/ ReadEnd(f)
  BY <1>4 DEF GetContent, GetContentThrows, ReadEnd, Answer
<1>5. CASE \E i \in Lens : ReadBlock(f, i)
  BY <1>5 DEF ReadBlock
<1>6. CASE HandlerSend(f) \/ HandlerSendLost(f)
  BY <1>6 DEF HandlerSend, HandlerSendLost
<1> QED  BY <1>1, <1>2, <1>3, <1>4, <1>5, <1>6 DEF HandlerActs

(***************************************************************************)
(* The processes, their descriptors, and the index                         *)
(***************************************************************************)

LEMMA ProcessStep ==
  ASSUME TypeInv, Next
  PROVE  ProcessType'
<1> USE DEF ProcessType
<1>1. /\ \A f \in Fetches : By[f] \in Nodes
      /\ \A f \in Fetches : pc[f] \notin {"todo", "none"} => asked[f] \in Nodes
      /\ \A f \in Fetches : pc[f] # "todo" => want[f] \in Numbers
      /\ \A n \in Nodes : limit[n] \in Nat /\ fds[n] \in Nat /\ fds[n] <= limit[n]
  BY TransferAssumption DEF TypeInv, PromptInv
<1>2. ProcessType
  BY DEF TypeInv
<1>3. ASSUME NEW n \in Nodes, fds[n] < limit[n],
             fds' = Opened(n), UNCHANGED <<process, again, limit, quitters, index>>,
             door' \in [Nodes -> {"open", "shut", "none"}]
      PROVE  ProcessType'
  <2>1. fds'[n] = fds[n] + 1 /\ \A m \in Nodes : m # n => fds'[m] = fds[m]
    BY <1>2, <1>3 DEF Opened
  <2>2. \A m \in Nodes : fds'[m] \in 0..limit[m]
    BY <1>1, <1>3, <2>1
  <2> QED  BY <1>2, <1>3, <2>2 DEF Opened, index
<1>4. ASSUME NEW n \in Nodes, fds[n] >= 1, fds' = ClosedOne(n), UNCHANGED <<lives, index>>
      PROVE  ProcessType'
  <2>1. fds'[n] = fds[n] - 1 /\ \A m \in Nodes : m # n => fds'[m] = fds[m]
    BY <1>2, <1>4 DEF ClosedOne
  <2>2. \A m \in Nodes : fds'[m] \in 0..limit[m]
    BY <1>1, <1>4, <2>1
  <2> QED  BY <1>2, <1>4, <2>2 DEF ClosedOne, index, lives
<1>5. ASSUME UNCHANGED <<nodes, index>>
      PROVE  ProcessType'
  BY <1>2, <1>5 DEF nodes, lives, index
<1>6. ASSUME NEW f \in Fetches, FetchActs(f)
      PROVE  ProcessType'
  <2>1. ASSUME NEW k \in Numbers, Get(f, k)
        PROVE  ProcessType'
    BY <1>5, <2>1 DEF Get
  <2>2. CASE Connect(f)
    <3>1. asked[f] \in Nodes /\ By[f] \in Nodes
      BY <1>1, <2>2 DEF Connect, CanConnect
    <3>2. /\ fds[By[f]] < limit[By[f]] /\ Opened(By[f])[asked[f]] < limit[asked[f]]
          /\ fds' = [Opened(By[f]) EXCEPT ![asked[f]] = @ + 1]
      BY <2>2 DEF Connect, CanConnect, CanAccept, HasFd
    <3>3. /\ DOMAIN Opened(By[f]) = Nodes
          /\ \A m \in Nodes : Opened(By[f])[m] = IF m = By[f] THEN fds[m] + 1 ELSE fds[m]
      BY <1>2, <3>1 DEF Opened
    <3>4. \A m \in Nodes : fds'[m] =
            IF m = asked[f] THEN Opened(By[f])[m] + 1 ELSE Opened(By[f])[m]
      BY <3>2, <3>3
    <3>5. \A m \in Nodes : fds'[m] \in 0..limit[m]
      BY <1>1, <3>1, <3>2, <3>3, <3>4
    <3> QED  BY <1>2, <2>2, <3>2, <3>3, <3>5 DEF Connect, lives, index
  <2>3. CASE ConnectUnanswered(f)
    BY <1>1, <1>2, <1>3, <2>3 DEF ConnectUnanswered, CanConnect, HasFd, index
  <2>4. CASE Send(f) \/ SendLost(f) \/ RecvSize(f) \/ RecvContent(f) \/ OpenFails(f)
    BY <1>5, <2>4 DEF Send, SendLost, RecvSize, RecvContent, OpenFails
  <2>5. CASE RecvMissing(f) \/ CloseFile(f) \/ Disconnect(f)
    <3>1. fds[By[f]] >= 1
      BY <1>1, <2>5 DEF RecvMissing, CloseFile, Disconnect, Takes, TypeInv, FdInv
    <3> QED  BY <1>1, <1>4, <2>5, <3>1 DEF RecvMissing, CloseFile, Disconnect
  <2>6. CASE OpenFile(f)
    BY <1>1, <1>2, <1>3, <2>6 DEF OpenFile, HasFd, lives, index
  <2>7. ASSUME NEW i \in Lens, WriteBlock(f, i)
        PROVE  ProcessType'
    BY <1>5, <2>7 DEF WriteBlock
  <2>8. CASE Notify(f)
    BY <1>1, <1>2, <2>8 DEF Notify, nodes, lives
  <2> QED  BY <1>6, <2>1, <2>2, <2>3, <2>4, <2>5, <2>6, <2>7, <2>8 DEF FetchActs
<1>7. ASSUME NEW f \in Fetches, HandlerActs(f)
      PROVE  ProcessType'
  <2>1. CASE GetContent(f)
    <3>1. hpc[f] = "get"
      BY <2>1 DEF GetContent
    <3>2. pc[f] \notin {"todo", "none"}
      BY <3>1 DEF TypeInv, TalkInv, Talk
    <3> QED  BY <1>1, <1>2, <1>3, <2>1, <3>2 DEF GetContent, HasFd, lives, index
  <2>2. CASE \E i \in Lens : ReadBlock(f, i)
    BY <1>5, <2>2 DEF ReadBlock
  <2>3. CASE ~GetContent(f) /\ ~\E i \in Lens : ReadBlock(f, i)
    BY <1>5, <1>7, <2>3 DEF HandlerActs, HandlerMessage, HandlerStaleMessage, HandlerNumber,
       GetContentThrows, ReadEnd, HandlerSend, HandlerSendLost
  <2> QED  BY <2>1, <2>2, <2>3
<1>8. ASSUME NEW n \in Nodes, Departs(n)
      PROVE  ProcessType'
  BY <1>2, <1>8 DEF Departs, Ends, Leaves, index
<1>9. ASSUME NEW n \in Nodes, Forget(n)
      PROVE  ProcessType'
  BY <1>2, <1>9 DEF Forget, nodes, lives
<1>10. ASSUME NEW n \in Nodes, Restart(n)
       PROVE  ProcessType'
  <2>1. \A m \in Nodes : fds'[m] \in 0..limit[m]
    BY <1>1, <1>2, <1>10 DEF Restart
  <2>2. listed' \in [Numbers -> SUBSET Nodes]
    BY <1>2, <1>10 DEF Restart
  <2> QED  BY <1>2, <1>10, <2>1, <2>2 DEF Restart
<1> QED  BY <1>6, <1>7, <1>8, <1>9, <1>10, Steps

(***************************************************************************)
(* The files                                                               *)
(***************************************************************************)

\* The file k of n gets the content c, and no other changes.
Changes(n, k, c) ==
  /\ DOMAIN disk' = Nodes
  /\ \A m \in Nodes : m # n => disk'[m] = disk[m]
  /\ DOMAIN disk'[n] = DOMAIN disk[n] \cup {k}
  /\ disk'[n][k] = c
  /\ \A j \in DOMAIN disk[n] : j # k => disk'[n][j] = disk[n][j]

LEMMA Opens ==
  ASSUME TypeInv, NEW f \in Fetches, OpenFile(f)
  PROVE  /\ want[f] \notin DOMAIN disk[By[f]] /\ Changes(By[f], want[f], <<>>)
         /\ <<>> \in Contents
<1>1. By[f] \in Nodes /\ DOMAIN disk = Nodes
  BY TransferAssumption DEF TypeInv, DiskType
<1>2. want[f] \notin DOMAIN disk[By[f]]
  BY DEF OpenFile, TypeInv, PromptInv
<1>3. /\ \A m \in Nodes : m # By[f] => disk'[m] = disk[m]
      /\ disk'[By[f]] = [k \in DOMAIN disk[By[f]] \cup {want[f]} |->
                           IF k = want[f] THEN <<>> ELSE disk[By[f]][k]]
      /\ DOMAIN disk' = Nodes
  BY <1>1 DEF OpenFile
<1>6. Changes(By[f], want[f], <<>>)
  BY <1>1, <1>3 DEF Changes
<1>7. <<>> \in Contents
  BY DEF Contents
<1> QED  BY <1>2, <1>6, <1>7

LEMMA Writes ==
  ASSUME TypeInv, NEW f \in Fetches, NEW i, WriteBlock(f, i)
  PROVE  /\ want[f] \in DOMAIN disk[By[f]] /\ disk[By[f]][want[f]] \in Contents
         /\ i \in 1..Len(rest[f]) /\ rest[f] \in Contents
         /\ Changes(By[f], want[f], disk[By[f]][want[f]] \o SubSeq(rest[f], 1, i))
         /\ disk[By[f]][want[f]] \o SubSeq(rest[f], 1, i) \in Contents
         /\ IsPrefix(disk[By[f]][want[f]], disk[By[f]][want[f]] \o SubSeq(rest[f], 1, i))
         /\ rest'[f] = SubSeq(rest[f], i + 1, Len(rest[f])) /\ rest'[f] \in Contents
         /\ (disk[By[f]][want[f]] \o SubSeq(rest[f], 1, i)) \o rest'[f]
              = disk[By[f]][want[f]] \o rest[f]
<1>1. /\ By[f] \in Nodes /\ DOMAIN disk = Nodes
      /\ i \in 1..Len(rest[f]) /\ rest \in [Fetches -> Contents]
  BY TransferAssumption DEF TypeInv, DiskType, LabelType, WriteBlock
<1>2. want[f] \in DOMAIN disk[By[f]]
  BY DEF WriteBlock, TypeInv, PromptInv
<1>3. disk[By[f]][want[f]] \in Contents
  BY <1>1, <1>2 DEF TypeInv, DiskType
<1>4. disk' = [disk EXCEPT ![By[f]] = [disk[By[f]] EXCEPT ![want[f]] =
                 disk[By[f]][want[f]] \o SubSeq(rest[f], 1, i)]]
  BY DEF WriteBlock
<1>5. Changes(By[f], want[f], disk[By[f]][want[f]] \o SubSeq(rest[f], 1, i))
  <2> DEFINE c == disk[By[f]][want[f]] \o SubSeq(rest[f], 1, i)
  <2>1. disk' = [disk EXCEPT ![By[f]] = [disk[By[f]] EXCEPT ![want[f]] = c]]
    BY <1>4
  <2> HIDE DEF c
  <2>2. disk'[By[f]] = [disk[By[f]] EXCEPT ![want[f]] = c]
    BY <1>1, <2>1
  <2>3. Changes(By[f], want[f], c)
    BY <1>1, <1>2, <2>1, <2>2 DEF Changes
  <2> QED  BY <2>3 DEF c
<1>6. rest'[f] = SubSeq(rest[f], i + 1, Len(rest[f]))
  BY <1>1 DEF WriteBlock
<1>7. /\ disk[By[f]][want[f]] \o SubSeq(rest[f], 1, i) \in Contents
      /\ SubSeq(rest[f], i + 1, Len(rest[f])) \in Contents
      /\ (disk[By[f]][want[f]] \o SubSeq(rest[f], 1, i)) \o SubSeq(rest[f], i + 1, Len(rest[f]))
           = disk[By[f]][want[f]] \o rest[f]
  <2> DEFINE S == UNION { ToSet(content) : content \in Originals }
  <2> DEFINE a == disk[By[f]][want[f]]
  <2> DEFINE b == rest[f]
  <2>1. a \in Seq(S) /\ b \in Seq(S) /\ Contents = Seq(S) /\ i \in 1..Len(b)
    BY <1>1, <1>3 DEF Contents
  <2> HIDE DEF S, a, b
  <2>2. /\ a \o SubSeq(b, 1, i) \in Contents /\ SubSeq(b, i + 1, Len(b)) \in Contents
        /\ (a \o SubSeq(b, 1, i)) \o SubSeq(b, i + 1, Len(b)) = a \o b
    BY <2>1, WriteOn, ZenonT(30)
  <2> QED  BY <2>2 DEF a, b
<1>8. IsPrefix(disk[By[f]][want[f]], disk[By[f]][want[f]] \o SubSeq(rest[f], 1, i))
  <2>1. rest[f] \in Contents /\ i \in 0..Len(rest[f])
    BY <1>1, LenNat DEF Contents
  <2>2. SubSeq(rest[f], 1, i) \in Contents
    BY <2>1, SubSeqPrefix DEF Contents
  <2> QED  BY <1>3, <2>2, ConcatPrefix DEF Contents
<1> QED  BY <1>1, <1>2, <1>3, <1>5, <1>6, <1>7, <1>8

\* Any other step leaves them.
LEMMA DiskStays ==
  ASSUME TypeInv, Next,
         ~\E f \in Fetches : OpenFile(f) \/ \E i \in Lens : WriteBlock(f, i)
  PROVE  disk' = disk
<1>1. ASSUME NEW f \in Fetches, FetchActs(f)
      PROVE  disk' = disk
  BY <1>1 DEF FetchActs, Get, Connect, ConnectUnanswered, Send, SendLost, RecvSize, RecvMissing,
     RecvContent, OpenFails, CloseFile, Disconnect, Notify
<1>2. ASSUME NEW f \in Fetches, HandlerActs(f)
      PROVE  disk' = disk
  BY <1>2 DEF HandlerActs, HandlerMessage, HandlerStaleMessage, HandlerNumber, GetContent,
     GetContentThrows, ReadBlock, ReadEnd, Answer, HandlerSend, HandlerSendLost
<1>3. ASSUME NEW n \in Nodes, Departs(n) \/ Forget(n) \/ Restart(n)
      PROVE  disk' = disk
  BY <1>3 DEF Departs, Ends, Leaves, Forget, Restart
<1> QED  BY <1>1, <1>2, <1>3, Steps

\* Files are made and grow, where they are written, and nowhere else.
LEMMA DiskGrows ==
  ASSUME TypeInv, Next
  PROVE  /\ DiskType'
         /\ \A n \in Nodes : DOMAIN disk[n] \subseteq DOMAIN disk'[n]
         /\ \A n \in Nodes : \A k \in DOMAIN disk[n] : IsPrefix(disk[n][k], disk'[n][k])
<1>1. DiskType /\ DOMAIN disk = Nodes /\ \A f \in Fetches : By[f] \in Nodes
  BY TransferAssumption DEF TypeInv, DiskType
<1>2. \A c \in Contents : IsPrefix(c, c)
  BY PrefixOrder DEF Contents
<1>3. ASSUME NEW n \in Nodes, NEW k, NEW c \in Contents, Changes(n, k, c),
             k \in DOMAIN disk[n] => IsPrefix(disk[n][k], c)
      PROVE  /\ DiskType'
             /\ \A m \in Nodes : DOMAIN disk[m] \subseteq DOMAIN disk'[m]
             /\ \A m \in Nodes : \A j \in DOMAIN disk[m] : IsPrefix(disk[m][j], disk'[m][j])
  <2>1. ASSUME NEW m \in Nodes, NEW j \in DOMAIN disk'[m]
        PROVE  \/ m = n /\ j = k /\ disk'[m][j] = c
               \/ j \in DOMAIN disk[m] /\ disk'[m][j] = disk[m][j]
    BY <1>3, <2>1 DEF Changes
  <2>2. DiskType'
    BY <1>1, <1>3, <2>1 DEF DiskType, Changes
  <2>3. \A m \in Nodes : DOMAIN disk[m] \subseteq DOMAIN disk'[m]
    BY <1>3 DEF Changes
  <2>4. ASSUME NEW m \in Nodes, NEW j \in DOMAIN disk[m]
        PROVE  IsPrefix(disk[m][j], disk'[m][j])
    <3>1. j \in DOMAIN disk'[m] /\ disk[m][j] \in Contents
      BY <1>1, <2>3 DEF DiskType
    <3>2. CASE m = n /\ j = k
      BY <1>3, <3>2 DEF Changes
    <3>3. CASE ~(m = n /\ j = k)
      BY <1>2, <2>1, <3>1, <3>3
    <3> QED  BY <3>2, <3>3
  <2> QED  BY <2>2, <2>3, <2>4
<1>4. ASSUME NEW f \in Fetches, OpenFile(f)
      PROVE  /\ DiskType'
             /\ \A m \in Nodes : DOMAIN disk[m] \subseteq DOMAIN disk'[m]
             /\ \A m \in Nodes : \A j \in DOMAIN disk[m] : IsPrefix(disk[m][j], disk'[m][j])
  <2>1. want[f] \notin DOMAIN disk[By[f]] /\ Changes(By[f], want[f], <<>>) /\ <<>> \in Contents
    BY <1>4, Opens
  <2> QED  BY <1>1, <1>3, <2>1
<1>5. ASSUME NEW f \in Fetches, NEW i \in Lens, WriteBlock(f, i)
      PROVE  /\ DiskType'
             /\ \A m \in Nodes : DOMAIN disk[m] \subseteq DOMAIN disk'[m]
             /\ \A m \in Nodes : \A j \in DOMAIN disk[m] : IsPrefix(disk[m][j], disk'[m][j])
  <2> DEFINE c == disk[By[f]][want[f]] \o SubSeq(rest[f], 1, i)
  <2>1. Changes(By[f], want[f], c) /\ c \in Contents /\ IsPrefix(disk[By[f]][want[f]], c)
    BY <1>5, Writes
  <2> HIDE DEF c
  <2> QED  BY <1>1, <1>3, <2>1
<1>6. CASE disk' = disk
  <2>1. DiskType'
    BY <1>1, <1>6 DEF DiskType
  <2>2. \A n \in Nodes : \A k \in DOMAIN disk[n] : disk[n][k] \in Contents
    BY <1>1 DEF DiskType
  <2> QED  BY <1>2, <1>6, <2>1, <2>2
<1> QED  BY <1>4, <1>5, <1>6, DiskStays

(***************************************************************************)
(* Labels and local variables                                              *)
(***************************************************************************)

LEMMA MinIn ==
  ASSUME NEW T \in SUBSET Nat, T # {}
  PROVE  Min(T) \in T
<1>1. \E x \in T : \A y \in T : x <= y
  BY LeastNat
<1> QED  BY <1>1 DEF Min

LEMMA Swapped ==
  /\ NtoHL(HELLO) = HELLO /\ NtoHL(NtoHL(GET)) = GET
  /\ NtoHL(GET) \notin {HELLO, GET, DISCONNECT}
BY DEF NtoHL, HELLO, GET, DISCONNECT

\* What a get receives is a content.
LEMMA Received ==
  ASSUME TypeInv, NEW f \in Fetches, RecvContent(f)
  PROVE  /\ rest'[f] \in Contents
         /\ \E c \in Contents : Head(down[f]) = Body(200, c) /\ rest'[f] = Decoded(c)
<1>1. pc[f] = "body" /\ down[f] # <<>> /\ Head(down[f]).val # 404
  BY DEF RecvContent, Takes
<1>2. Reply(Contents, pc[f], hpc[f], up[f], out[f], down[f], hout[f])
  BY DEF TypeInv, ReplyInv
<1>3. PICK c \in Contents : Head(down[f]) = Body(200, c)
  BY <1>1, <1>2, ReplyTaken
<1>4. rest'[f] = Decoded(c)
  BY <1>3 DEF RecvContent, Body, TypeInv, LabelType
<1>5. Decoded(c) \in Contents
  BY BeforeIsPrefix DEF Decoded, Contents
<1> QED  BY <1>3, <1>4, <1>5

\* A block that is read makes a longer beginning of the file.
LEMMA ReadsOn ==
  ASSUME TypeInv, NEW f \in Fetches, NEW i, ReadBlock(f, i)
  PROVE  text'[f] \in Contents /\ IsPrefix(text'[f], File(f)) /\ HasFile(f)
<1>1. hpc[f] = "read" /\ i \in 1..Len(Unread(f)) /\ text'[f] = text[f] \o SubSeq(Unread(f), 1, i)
  BY DEF ReadBlock, TypeInv, LabelType
<1>2. pc[f] \notin {"todo", "none"}
  BY <1>1 DEF TypeInv, TalkInv, Talk
<1>3. asked[f] \in Nodes /\ HasFile(f) /\ IsPrefix(text[f], File(f))
  BY <1>1, <1>2 DEF TypeInv, PromptInv, HandlerInv, HandlerOk
<1>4. File(f) \in Contents /\ text[f] \in Contents
  BY <1>3 DEF TypeInv, DiskType, LabelType, HasFile, File
<1> DEFINE S == UNION { ToSet(content) : content \in Originals }
<1> DEFINE a == text[f]
<1> DEFINE b == File(f)
<1> DEFINE tail == SubSeq(b, Len(a) + 1, Len(b))
<1> DEFINE u == Unread(f)
<1>5. /\ Contents = Seq(S) /\ a \in Seq(S) /\ b \in Seq(S) /\ IsPrefix(a, b)
      /\ u = Before(tail, "ff") /\ i \in 1..Len(u) /\ text'[f] = a \o SubSeq(u, 1, i)
  BY <1>1, <1>3, <1>4 DEF Contents, Unread
<1> HIDE DEF S, a, b, u
<1>6. tail \in Seq(S)
  <2>1. Len(a) \in Nat /\ Len(b) \in Nat
    BY <1>5, LenNat
  <2> QED  BY <1>5, <2>1, PartOf
<1>7. u \in Seq(S) /\ IsPrefix(u, tail)
  <2> HIDE DEF tail
  <2> QED  BY <1>5, <1>6, BeforeIsPrefix
<1>8. SubSeq(u, 1, i) \in Seq(S) /\ IsPrefix(SubSeq(u, 1, i), u)
  <2>1. i \in 0..Len(u)
    BY <1>5, <1>7, LenNat
  <2> QED  BY <1>7, <2>1, SubSeqPrefix
<1>9. IsPrefix(SubSeq(u, 1, i), tail)
  <2> DEFINE v == SubSeq(u, 1, i)
  <2>1. v \in Seq(S) /\ IsPrefix(v, u)
    BY <1>8
  <2> HIDE DEF v, tail
  <2>2. IsPrefix(v, tail)
    BY <1>6, <1>7, <2>1, PrefixOrder
  <2> QED  BY <2>2 DEF v
<1>10. IsPrefix(a \o SubSeq(u, 1, i), b) /\ a \o SubSeq(u, 1, i) \in Seq(S)
  <2> DEFINE v == SubSeq(u, 1, i)
  <2>1. v \in Seq(S) /\ IsPrefix(v, SubSeq(b, Len(a) + 1, Len(b)))
    BY <1>8, <1>9
  <2> HIDE DEF v
  <2>2. IsPrefix(a \o v, b)
    BY <1>5, <2>1, ReadOn
  <2>3. a \o v \in Seq(S)
    BY <1>5, <2>1, ConcatPrefix
  <2> QED  BY <2>2, <2>3 DEF v
<1> QED  BY <1>3, <1>5, <1>10 DEF b

\* A get is given to an idle client, and goes to one that the index names.
LEMMA Gets ==
  ASSUME TypeInv, NEW f \in Fetches, NEW k \in Numbers, Get(f, k)
  PROVE  /\ pc[f] = "todo" /\ process[By[f]] = "up"
         /\ \A g \in Fetches : By[g] = By[f] => ~Active(g)
         /\ want'[f] = k /\ k \notin StoredAt(By[f])
         /\ \/ listed[k] = {} /\ pc'[f] = "none" /\ asked'[f] = asked[f]
            \/ pc'[f] = "named" /\ asked'[f] \in listed[k] /\ asked'[f] \in Nodes
<1>1. listed[k] \in SUBSET Nodes /\ listed[k] \in SUBSET Nat
  BY TransferAssumption DEF TypeInv, ProcessType
<1>2. listed[k] # {} => Min(listed[k]) \in listed[k]
  BY <1>1, MinIn
<1>3. pc[f] = "todo" /\ Idle(By[f]) /\ want'[f] = k /\ k \notin StoredAt(By[f])
  BY DEF Get, TypeInv, LabelType
<1>4. \/ listed[k] = {} /\ pc'[f] = "none" /\ asked'[f] = asked[f]
      \/ pc'[f] = "named" /\ asked'[f] \in listed[k] /\ asked'[f] \in Nodes
  BY <1>1, <1>2 DEF Get, Goto, TypeInv, LabelType, fetch
<1> QED  BY <1>3, <1>4 DEF Idle, Active

LEMMA LabelStep ==
  ASSUME TypeInv, Next
  PROVE  LabelType'
<1> USE DEF LabelType
<1>1. LabelType
  BY DEF TypeInv
<1>2. <<>> \in Contents
  BY DEF Contents
<1>3. ASSUME NEW f \in Fetches, FetchActs(f)
      PROVE  LabelType'
  <2> USE DEF Goto, FetchLabels, HandlerLabels, nodes, lives, index, fetch, handler
  <2>1. ASSUME NEW k \in Numbers, Get(f, k)
        PROVE  LabelType'
    <3>1. listed[k] # {} => asked'[f] \in Nodes
      BY <2>1, Gets
    <3>2. /\ pc' \in [Fetches -> FetchLabels] /\ asked' \in [Fetches -> Nodes \cup {None}]
          /\ want' \in [Fetches -> Numbers \cup {None}]
      <4>1. \/ asked' = asked
            \/ listed[k] # {} /\ asked' = [asked EXCEPT ![f] = asked'[f]]
        BY <1>1, <2>1 DEF Get
      <4> QED  BY <1>1, <2>1, <3>1, <4>1 DEF Get
    <3> QED  BY <1>1, <2>1, <3>2 DEF Get
  <2>2. CASE Connect(f) \/ ConnectUnanswered(f)
    BY <1>1, <2>2 DEF Connect, ConnectUnanswered
  <2>3. CASE Send(f) \/ SendLost(f)
    BY <1>1, <2>3 DEF Send, SendLost
  <2>4. CASE RecvSize(f) \/ RecvMissing(f)
    BY <1>1, <2>4 DEF RecvSize, RecvMissing, Takes
  <2>5. CASE RecvContent(f)
    <3>1. rest'[f] \in Contents
      BY <2>5, Received
    <3>2. rest' = [rest EXCEPT ![f] = rest'[f]]
      BY <1>1, <2>5 DEF RecvContent
    <3>3. rest' \in [Fetches -> Contents]
      BY <1>1, <3>1, <3>2
    <3> QED  BY <1>1, <2>5, <3>3 DEF RecvContent, Takes
  <2>6. CASE OpenFile(f) \/ OpenFails(f)
    BY <1>1, <2>6 DEF OpenFile, OpenFails
  <2>7. ASSUME NEW i \in Lens, WriteBlock(f, i)
        PROVE  LabelType'
    <3>1. rest'[f] \in Contents
      BY <2>7, Writes
    <3>2. rest' = [rest EXCEPT ![f] = rest'[f]]
      BY <1>1, <2>7 DEF WriteBlock
    <3>3. rest' \in [Fetches -> Contents]
      BY <1>1, <3>1, <3>2
    <3> QED  BY <1>1, <2>7, <3>3 DEF WriteBlock
  <2>8. CASE CloseFile(f) \/ Disconnect(f) \/ Notify(f)
    BY <1>1, <2>8 DEF CloseFile, Disconnect, Notify
  <2> QED  BY <1>3, <2>1, <2>2, <2>3, <2>4, <2>5, <2>6, <2>7, <2>8 DEF FetchActs
<1>4. ASSUME NEW f \in Fetches, HandlerActs(f)
      PROVE  LabelType'
  <2> USE DEF HandlerGoto, HandlerLabels, nodes, lives, index, fetch
  <2>1. Talk(want[f], pc[f], hpc[f], up[f], out[f])
    BY DEF TypeInv, TalkInv
  <2>2. CASE HandlerMessage(f)
    <3>1. hpc[f] = "message" /\ up[f] # <<>>
      BY <2>2 DEF HandlerMessage, HandlerTakes
    <3>2. Head(up[f]).val \in {GET, DISCONNECT}
      BY <2>1, <3>1, TalkTakes
    <3> QED  BY <1>1, <2>2, <3>2 DEF HandlerMessage, HandlerTakes, Dispatch
  <2>3. CASE HandlerStaleMessage(f)
    <3>1. hpc[f] = "message"
      BY <2>3 DEF HandlerStaleMessage, HandlerStarves
    <3>2. message[f] # DISCONNECT
      BY <3>1 DEF TypeInv, HandlerInv, HandlerOk
    <3>3. message[f] # None => NtoHL(message[f]) \in {HELLO, GET, DISCONNECT, NtoHL(GET), None}
      BY <1>1, <3>2, Swapped
    <3>4. PICK w \in {HELLO, GET, DISCONNECT, NtoHL(GET), None} : Dispatch(f, w)
      BY <2>3, <3>3 DEF HandlerStaleMessage
    <3> QED  BY <1>1, <2>3, <3>4 DEF HandlerStaleMessage, HandlerStarves, Dispatch
  <2>4. CASE HandlerNumber(f)
    <3>1. hpc[f] = "number" /\ want[f] \in Numbers
      <4>1. hpc[f] = "number"
        BY <2>4 DEF HandlerNumber, HandlerTakes, HandlerStarves
      <4> QED  BY <2>1, <4>1 DEF Talk, TypeInv, PromptInv
    <3>2. up[f] # <<>> => Head(up[f]).val = Short(want[f])
      BY <2>1, <3>1, TalkTakes
    <3>3. PICK k \in Numbers : number' = [number EXCEPT ![f] = Short(k)]
      BY <2>4, <3>1, <3>2 DEF HandlerNumber, HandlerTakes
    <3> QED  BY <1>1, <2>4, <3>3 DEF HandlerNumber, HandlerTakes, HandlerStarves
  <2>5. CASE GetContent(f)
    BY <1>1, <2>5 DEF GetContent
  <2>6. CASE GetContentThrows(f) \/ ReadEnd(f)
    BY <1>1, <1>2, <2>6 DEF GetContentThrows, ReadEnd, Answer
  <2>7. ASSUME NEW i \in Lens, ReadBlock(f, i)
        PROVE  LabelType'
    <3>1. text'[f] \in Contents
      BY <2>7, ReadsOn
    <3>2. text' = [text EXCEPT ![f] = text'[f]]
      BY <1>1, <2>7 DEF ReadBlock
    <3>3. text' \in [Fetches -> Contents]
      BY <1>1, <3>1, <3>2
    <3> QED  BY <1>1, <2>7, <3>3 DEF ReadBlock
  <2>8. CASE HandlerSend(f) \/ HandlerSendLost(f)
    BY <1>1, <2>8 DEF HandlerSend, HandlerSendLost
  <2> QED  BY <1>4, <2>2, <2>3, <2>4, <2>5, <2>6, <2>7, <2>8 DEF HandlerActs
<1>5. ASSUME NEW n \in Nodes, Departs(n)
      PROVE  LabelType'
  BY <1>1, <1>5 DEF Departs, Ends, Leaves, FetchLabels, HandlerLabels
<1>6. ASSUME NEW n \in Nodes, Forget(n) \/ Restart(n)
      PROVE  LabelType'
  BY <1>1, <1>6 DEF Forget, Restart, fetch, handler
<1> QED  BY <1>3, <1>4, <1>5, <1>6, Steps

(***************************************************************************)
(* The prompts                                                             *)
(***************************************************************************)

\* Where a get goes from where it is.
LEMMA FetchMoves ==
  ASSUME TypeInv, NEW f \in Fetches, FetchActs(f)
  PROVE  /\ process' = process /\ pc'[f] \in FetchLabels
         /\ Active(f)' => Active(f) \/ \E k \in Numbers : Get(f, k)
         /\ Active(f) =>
              want'[f] = want[f] /\ asked'[f] = asked[f] /\ pc'[f] \notin {"todo", "none", "named"}
         /\ pc'[f] \in {"blocked", "size", "body", "open"} =>
              pc[f] \in {"named", "blocked", "size", "body", "open"}
         /\ ~OpenFile(f) /\ pc'[f] = "write" => pc[f] = "write"
         /\ ~Active(f) => \E k \in Numbers : Get(f, k)
<1> USE DEF TypeInv, LabelType, Active, Over, FetchLabels, Goto, nodes, lives
<1>1. ASSUME NEW k \in Numbers, Get(f, k)
      PROVE  process' = process /\ pc[f] = "todo" /\ pc'[f] \in {"none", "named"}
  BY <1>1 DEF Get
<1>2. CASE Connect(f) \/ ConnectUnanswered(f)
  BY <1>2 DEF Connect, ConnectUnanswered, CanConnect
<1>3. CASE Send(f) \/ SendLost(f)
  <2>1. out[f] # <<>> /\ hpc[f] \in HandlerLabels
    BY <1>3 DEF Send, SendLost
  <2>2. Talk(want[f], pc[f], hpc[f], up[f], out[f])
    BY DEF TalkInv
  <2>3. pc[f] \in {"size", "closing"}
    BY <2>1, <2>2 DEF Talk, HandlerLabels
  <2> QED  BY <1>3, <2>3 DEF Send, SendLost
<1>4. CASE RecvSize(f) \/ RecvMissing(f) \/ RecvContent(f)
  BY <1>4 DEF RecvSize, RecvMissing, RecvContent, Takes
<1>5. CASE OpenFile(f) \/ OpenFails(f)
  BY <1>5 DEF OpenFile, OpenFails
<1>6. CASE \E i \in Lens : WriteBlock(f, i)
  BY <1>6 DEF WriteBlock
<1>7. CASE CloseFile(f) \/ Disconnect(f) \/ Notify(f)
  BY <1>7 DEF CloseFile, Disconnect, Notify
<1>8. CASE \E k \in Numbers : Get(f, k)
  BY <1>1, <1>8
<1> QED  BY <1>2, <1>3, <1>4, <1>5, <1>6, <1>7, <1>8 DEF FetchActs

\* The handlers and the index leave the gets and the files alone.
LEMMA FetchStays ==
  ASSUME NEW f \in Fetches, HandlerActs(f)
  PROVE  UNCHANGED <<lives, index, disk, fetch>>
BY DEF HandlerActs, HandlerMessage, HandlerStaleMessage, HandlerNumber, GetContent,
   GetContentThrows, ReadBlock, ReadEnd, Answer, HandlerSend, HandlerSendLost, nodes

LEMMA PromptStep ==
  ASSUME TypeInv, Next
  PROVE  PromptInv'
<1>1. PromptInv /\ LabelType /\ DOMAIN disk = Nodes /\ \A f \in Fetches : By[f] \in Nodes
  BY TransferAssumption DEF TypeInv, DiskType
<1>2. ASSUME UNCHANGED <<disk, pc, want, asked>>, \A n \in Nodes : process[n] = "up" => process'[n] = "up"
      PROVE  PromptInv'
  <2>1. \A f \in Fetches : Active(f)' <=> Active(f)
    BY <1>2 DEF Active
  <2> QED  BY <1>1, <1>2, <2>1 DEF PromptInv
<1>3. ASSUME NEW f \in Fetches, FetchActs(f)
      PROVE  PromptInv'
  <2>1. \A g \in Fetches : g # f => Aside(g)
    BY <1>1, <1>3, FetchAside
  <2>2. \A g \in Fetches : g # f => (Active(g)' <=> Active(g))
    BY <2>1 DEF Aside, Active
  <2>3. /\ process' = process
        /\ Active(f)' => Active(f) \/ \E k \in Numbers : Get(f, k)
        /\ Active(f) =>
             want'[f] = want[f] /\ asked'[f] = asked[f] /\ pc'[f] \notin {"todo", "none", "named"}
        /\ ~Active(f) => \E k \in Numbers : Get(f, k)
    BY <1>3, FetchMoves
  <2>4. \A g \in Fetches : Active(g)' => process'[By[g]] = "up"
    <3>1. \A g \in Fetches : Active(g) => process[By[g]] = "up"
      BY <1>1 DEF PromptInv
    <3>2. (\E k \in Numbers : Get(f, k)) => process[By[f]] = "up"
      BY Gets
    <3> QED  BY <2>2, <2>3, <3>1, <3>2
  <2>5. \A g, h \in Fetches : By[g] = By[h] /\ Active(g)' /\ Active(h)' => g = h
    <3>1. \A g, h \in Fetches : By[g] = By[h] /\ Active(g) /\ Active(h) => g = h
      BY <1>1 DEF PromptInv
    <3>2. (\E k \in Numbers : Get(f, k)) => \A g \in Fetches : By[g] = By[f] => ~Active(g)
      BY Gets
    <3> QED  BY <2>2, <2>3, <3>1, <3>2
  <2>6. ASSUME NEW g \in Fetches
        PROVE  /\ IF pc'[g] = "todo" THEN want'[g] = None ELSE want'[g] \in Numbers
               /\ IF pc'[g] \in {"todo", "none"} THEN asked'[g] = None ELSE asked'[g] \in Nodes
    <3>1. CASE g # f
      BY <1>1, <2>1, <3>1 DEF Aside, PromptInv
    <3>2. CASE g = f /\ Active(f)
      BY <1>1, <2>3, <3>2 DEF PromptInv, Active, Over
    <3>3. CASE g = f /\ ~Active(f)
      <4>1. PICK k \in Numbers : Get(f, k)
        BY <2>3, <3>3
      <4>2. pc[f] = "todo" => asked[f] = None
        BY <1>1 DEF PromptInv
      <4> QED  BY <3>3, <4>1, <4>2, Gets
    <3> QED  BY <3>1, <3>2, <3>3
  <2>7. ASSUME NEW g \in Fetches
        PROVE  /\ pc'[g] \in {"named", "blocked", "size", "body", "open"} =>
                    want'[g] \notin DOMAIN disk'[By[g]]
               /\ pc'[g] = "write" => want'[g] \in DOMAIN disk'[By[g]]
    <3>1. CASE g # f
      <4>1. CASE Active(g)
        <5>1. By[g] # By[f] \/ ~Active(f)
          BY <1>1, <3>1, <4>1 DEF PromptInv
        <5>2. disk'[By[g]] = disk[By[g]]
          <6>1. CASE OpenFile(f) \/ \E i \in Lens : WriteBlock(f, i)
            <7>1. By[g] # By[f]
              BY <5>1, <6>1 DEF OpenFile, WriteBlock, Active, Over
            <7> QED  BY <1>1, <6>1, <7>1, Opens, Writes DEF Changes
          <6>2. CASE ~(OpenFile(f) \/ \E i \in Lens : WriteBlock(f, i))
            BY <1>3, <6>2 DEF FetchActs, Get, Connect, ConnectUnanswered, Send, SendLost, RecvSize,
               RecvMissing, RecvContent, OpenFails, CloseFile, Disconnect, Notify
          <6> QED  BY <6>1, <6>2
        <5> QED  BY <1>1, <2>1, <3>1, <5>2 DEF PromptInv, Aside
      <4>2. CASE ~Active(g)
        BY <2>1, <3>1, <4>2 DEF Aside, Active, Over
      <4> QED  BY <4>1, <4>2
    <3>2. CASE g = f
      <4>1. CASE OpenFile(f)
        <5>1. pc'[f] = "write" /\ want'[f] = want[f]
          BY <1>1, <4>1 DEF OpenFile, Goto, LabelType
        <5> QED  BY <3>2, <4>1, <5>1, Opens DEF Changes
      <4>2. CASE \E i \in Lens : WriteBlock(f, i)
        <5>1. pc'[f] = "write" /\ want'[f] = want[f]
          BY <1>1, <4>2 DEF WriteBlock
        <5> QED  BY <3>2, <4>2, <5>1, Writes DEF Changes
      <4>3. ASSUME NEW k \in Numbers, Get(f, k)
            PROVE  want'[f] \notin DOMAIN disk'[By[f]] /\ pc'[f] # "write"
        <5>1. disk' = disk
          BY <4>3 DEF Get
        <5> QED  BY <4>3, <5>1, Gets DEF StoredAt
      <4>4. CASE ~OpenFile(f) /\ (~\E i \in Lens : WriteBlock(f, i)) /\ ~\E k \in Numbers : Get(f, k)
        <5>1. disk' = disk /\ Active(f)
          BY <1>3, <2>3, <4>4 DEF FetchActs, Connect, ConnectUnanswered, Send, SendLost, RecvSize,
             RecvMissing, RecvContent, OpenFails, CloseFile, Disconnect, Notify
        <5>2. /\ pc'[f] \in {"blocked", "size", "body", "open"} =>
                   pc[f] \in {"named", "blocked", "size", "body", "open"}
              /\ pc'[f] = "write" => pc[f] = "write"
              /\ pc'[f] # "named"
          BY <1>3, <4>4, <5>1, FetchMoves
        <5> QED  BY <1>1, <2>3, <3>2, <5>1, <5>2 DEF PromptInv
      <4> QED  BY <3>2, <4>1, <4>2, <4>3, <4>4
    <3> QED  BY <3>1, <3>2
  <2> QED  BY <2>4, <2>5, <2>6, <2>7 DEF PromptInv
<1>4. ASSUME NEW f \in Fetches, HandlerActs(f)
      PROVE  PromptInv'
  BY <1>2, <1>4, FetchStays DEF lives, fetch
<1>5. ASSUME NEW n \in Nodes, Departs(n)
      PROVE  PromptInv'
  <2>1. /\ \A g \in Fetches : pc'[g] = IF By[g] = n /\ Active(g) THEN "dead" ELSE pc[g]
        /\ UNCHANGED <<disk, want, asked>>
        /\ \A m \in Nodes : m # n => process'[m] = process[m]
    BY <1>5 DEF Departs, Ends, Leaves, Active, TypeInv, ProcessType
  <2>2. \A g \in Fetches : Active(g)' => Active(g) /\ By[g] # n /\ pc'[g] = pc[g]
    BY <2>1 DEF Active, Over
  <2> QED  BY <1>1, <2>1, <2>2 DEF PromptInv, Active, Over
<1>6. ASSUME NEW n \in Nodes, Forget(n) \/ Restart(n)
      PROVE  PromptInv'
  <2>1. UNCHANGED <<disk, pc, want, asked>> /\ \A m \in Nodes : process[m] = "up" => process'[m] = "up"
    BY <1>6 DEF Forget, Restart, nodes, lives, fetch, TypeInv, ProcessType
  <2> QED  BY <1>2, <2>1
<1> QED  BY <1>3, <1>4, <1>5, <1>6, Steps

LEMMA FdStep ==
  ASSUME TypeInv, Next
  PROVE  FdInv'
<1>1. /\ FdInv /\ LabelType /\ DOMAIN fds = Nodes /\ \A n \in Nodes : fds[n] \in Nat
      /\ \A f \in Fetches : By[f] \in Nodes
      /\ \A f \in Fetches : pc[f] \notin {"todo", "none"} => asked[f] \in Nodes
      /\ \A f \in Fetches : Active(f) => process[By[f]] = "up"
      /\ \A f, g \in Fetches : By[f] = By[g] /\ Active(f) /\ Active(g) => f = g
  BY TransferAssumption DEF TypeInv, ProcessType, PromptInv
<1>2. ASSUME NEW g \in Fetches, pc'[g] = pc[g], Active(g) => fds'[By[g]] >= fds[By[g]] /\ fds'[By[g]] \in Nat
      PROVE  /\ pc'[g] \in {"blocked", "size", "body", "open", "closing"} => fds'[By[g]] >= 1
             /\ pc'[g] = "write" => fds'[By[g]] >= 2
  <2>1. /\ pc[g] \in {"blocked", "size", "body", "open", "closing"} => fds[By[g]] >= 1 /\ Active(g)
        /\ pc[g] = "write" => fds[By[g]] >= 2 /\ Active(g)
    BY <1>1 DEF FdInv, Active, Over
  <2> QED  BY <1>1, <1>2, <2>1
<1>3. ASSUME NEW f \in Fetches, FetchActs(f)
      PROVE  FdInv'
  <2>1. ASSUME NEW g \in Fetches, g # f
        PROVE  pc'[g] = pc[g]
    BY <1>1, <1>3, <2>1, FetchAside DEF Aside
  <2>2. CASE RecvMissing(f) \/ CloseFile(f) \/ Disconnect(f)
    <3>1. /\ fds' = ClosedOne(By[f]) /\ Active(f) /\ fds[By[f]] >= 1
          /\ pc'[f] \in {"missing", "closing", "notify"}
          /\ pc'[f] = "closing" => fds[By[f]] >= 2
      BY <1>1, <2>2 DEF RecvMissing, CloseFile, Disconnect, Takes, Goto, Active, Over, FdInv, LabelType
    <3>2. /\ fds'[By[f]] = fds[By[f]] - 1
          /\ \A n \in Nodes : n # By[f] => fds'[n] = fds[n]
      BY <1>1, <3>1 DEF ClosedOne
    <3>3. ASSUME NEW g \in Fetches, g # f
          PROVE  Active(g) => fds'[By[g]] = fds[By[g]]
      BY <1>1, <3>1, <3>2, <3>3
    <3>4. ASSUME NEW g \in Fetches, g # f
          PROVE  /\ pc'[g] \in {"blocked", "size", "body", "open", "closing"} => fds'[By[g]] >= 1
                 /\ pc'[g] = "write" => fds'[By[g]] >= 2
      BY <1>1, <1>2, <2>1, <3>3, <3>4
    <3>5. pc'[f] = "closing" => fds'[By[f]] >= 1
      BY <1>1, <3>1, <3>2
    <3> QED  BY <3>1, <3>4, <3>5 DEF FdInv
  <2>3. CASE Connect(f) \/ ConnectUnanswered(f) \/ OpenFile(f)
    <3>1. /\ \/ fds' = Opened(By[f])
             \/ fds' = [Opened(By[f]) EXCEPT ![asked[f]] = @ + 1] /\ asked[f] \in Nodes
          /\ \/ pc'[f] \in {"size", "blocked"}
             \/ pc'[f] = "write" /\ fds[By[f]] >= 1
      BY <1>1, <2>3 DEF Connect, ConnectUnanswered, CanConnect, OpenFile, Goto, FdInv, LabelType
    <3>2. /\ DOMAIN Opened(By[f]) = Nodes
          /\ \A n \in Nodes : Opened(By[f])[n] = IF n = By[f] THEN fds[n] + 1 ELSE fds[n]
      BY <1>1 DEF Opened
    <3>3. \A n \in Nodes : fds'[n] \in Nat /\ fds'[n] >= Opened(By[f])[n]
      BY <1>1, <3>1, <3>2
    <3>4. \A n \in Nodes : fds'[n] \in Nat /\ fds'[n] >= fds[n]
      BY <1>1, <3>2, <3>3
    <3>5. fds'[By[f]] >= fds[By[f]] + 1
      BY <1>1, <3>2, <3>3
    <3>6. \A g \in Fetches \ {f} :
            /\ pc'[g] \in {"blocked", "size", "body", "open", "closing"} => fds'[By[g]] >= 1
            /\ pc'[g] = "write" => fds'[By[g]] >= 2
      BY <1>1, <1>2, <2>1, <3>4
    <3>7. /\ fds'[By[f]] >= 1
          /\ pc'[f] = "write" => fds'[By[f]] >= 2
      BY <1>1, <3>1, <3>4, <3>5
    <3> QED  BY <3>6, <3>7 DEF FdInv
  <2>4. CASE ~(RecvMissing(f) \/ CloseFile(f) \/ Disconnect(f)
                \/ Connect(f) \/ ConnectUnanswered(f) \/ OpenFile(f))
    <3>1. fds' = fds
      BY <1>3, <2>4 DEF FetchActs, Get, Send, SendLost, RecvSize, RecvContent, OpenFails,
         WriteBlock, Notify, nodes
    <3>2. \A g \in Fetches \ {f} :
            /\ pc'[g] \in {"blocked", "size", "body", "open", "closing"} => fds'[By[g]] >= 1
            /\ pc'[g] = "write" => fds'[By[g]] >= 2
      BY <1>1, <1>2, <2>1, <3>1
    <3>3. \/ pc'[f] = pc[f]
          \/ pc[f] \in {"size", "body", "open"} /\ pc'[f] \in {"body", "open", "closing"}
          \/ pc'[f] \in {"none", "named", "done"}
      <4>1. CASE \E k \in Numbers : Get(f, k)
        BY <4>1, Gets
      <4>2. CASE Send(f) \/ SendLost(f) \/ \E i \in Lens : WriteBlock(f, i)
        BY <4>2 DEF Send, SendLost, WriteBlock
      <4>3. CASE RecvSize(f) \/ RecvContent(f) \/ OpenFails(f) \/ Notify(f)
        BY <1>1, <4>3 DEF RecvSize, RecvContent, OpenFails, Notify, Goto, Takes, LabelType
      <4> QED  BY <1>3, <2>4, <4>1, <4>2, <4>3 DEF FetchActs
    <3>4. /\ pc'[f] \in {"blocked", "size", "body", "open", "closing"} => fds'[By[f]] >= 1
          /\ pc'[f] = "write" => fds'[By[f]] >= 2
      BY <1>1, <3>1, <3>3 DEF FdInv
    <3> QED  BY <3>2, <3>4 DEF FdInv
  <2> QED  BY <2>2, <2>3, <2>4
<1>4. ASSUME NEW f \in Fetches, HandlerActs(f)
      PROVE  FdInv'
  <2>1. pc' = pc
    BY <1>4, FetchStays DEF fetch
  <2>2. \A n \in Nodes : fds'[n] \in Nat /\ fds'[n] >= fds[n]
    <3>1. CASE GetContent(f)
      <4>1. fds' = Opened(asked[f]) /\ hpc[f] = "get"
        BY <3>1 DEF GetContent
      <4> QED  BY <1>1, <4>1 DEF Opened
    <3>2. CASE ~GetContent(f)
      <4>1. fds' = fds
        BY <1>4, <3>2 DEF HandlerActs, HandlerMessage, HandlerStaleMessage, HandlerNumber,
           GetContentThrows, ReadBlock, ReadEnd, HandlerSend, HandlerSendLost, nodes
      <4> QED  BY <1>1, <4>1
    <3> QED  BY <3>1, <3>2
  <2> QED  BY <1>1, <1>2, <2>1, <2>2 DEF FdInv
<1>5. ASSUME NEW n \in Nodes, Departs(n)
      PROVE  FdInv'
  <2>1. /\ \A g \in Fetches : pc'[g] = pc[g] \/ pc'[g] = "dead"
        /\ fds' = fds
    BY <1>5 DEF Departs, Ends, Leaves
  <2> QED  BY <1>1, <2>1 DEF FdInv
<1>6. ASSUME NEW n \in Nodes, Forget(n) \/ Restart(n)
      PROVE  FdInv'
  <2>1. /\ pc' = pc
        /\ \A g \in Fetches : Active(g) => fds'[By[g]] = fds[By[g]]
    BY <1>1, <1>6 DEF Forget, Restart, nodes, fetch
  <2> QED  BY <1>1, <1>2, <2>1 DEF FdInv
<1> QED  BY <1>3, <1>4, <1>5, <1>6, Steps

(***************************************************************************)
(* The handlers                                                            *)
(***************************************************************************)

\* A file that is read stays there and grows.
LEMMA StillReads ==
  ASSUME TypeInv, Next, NEW f \in Fetches, hpc[f] = "read",
         UNCHANGED <<asked[f], number[f], text[f]>>
  PROVE  HasFile(f)' /\ IsPrefix(text[f]', File(f)')
<1>1. pc[f] \notin {"todo", "none"}
  BY DEF TypeInv, TalkInv, Talk
<1>2. asked[f] \in Nodes /\ HasFile(f) /\ IsPrefix(text[f], File(f))
  BY <1>1 DEF TypeInv, PromptInv, HandlerInv, HandlerOk
<1>3. text[f] \in Contents /\ File(f) \in Contents
  BY <1>2 DEF TypeInv, LabelType, DiskType, HasFile, File
<1>4. /\ number[f] \in DOMAIN disk'[asked[f]]
      /\ IsPrefix(File(f), disk'[asked[f]][number[f]])
  BY <1>2, DiskGrows DEF HasFile, File
<1>5. disk'[asked[f]][number[f]] \in Contents
  BY <1>2, <1>4, DiskGrows DEF DiskType
<1>6. IsPrefix(text[f], disk'[asked[f]][number[f]])
  BY <1>2, <1>3, <1>4, <1>5, PrefixOrder DEF Contents
<1> QED  BY <1>4, <1>6 DEF HasFile, File

LEMMA HandlersStep ==
  ASSUME TypeInv, Next
  PROVE  HandlerInv'
<1>1. /\ LabelType /\ \A f \in Fetches : HandlerOk(f)
      /\ \A f \in Fetches : Talk(want[f], pc[f], hpc[f], up[f], out[f])
      /\ \A f \in Fetches : pc[f] \notin {"todo", "none"} => asked[f] \in Nodes
      /\ \A f \in Fetches : pc[f] # "todo" => want[f] \in Numbers
  BY DEF TypeInv, HandlerInv, TalkInv, PromptInv
\* One that does nothing, of a client that runs on.
<1>2. ASSUME NEW g \in Fetches,
             UNCHANGED <<hpc[g], message[g], number[g], text[g]>>,
             hpc[g] # "off" => UNCHANGED <<want[g], asked[g]>> /\ (Closed(g) => Closed(g)'),
             hpc[g] \notin {"off", "gone"} => process'[asked[g]] = "up"
      PROVE  HandlerOk(g)'
  <2>1. HandlerOk(g)
    BY <1>1
  <2>2. hpc[g] = "read" => HasFile(g)' /\ IsPrefix(text[g]', File(g)')
    BY <1>2, StillReads
  <2>3. hpc[g] \in {"get", "read"} /\ ~Closed(g)' => number'[g] = Short(want'[g])
    BY <1>2, <2>1 DEF HandlerOk
  <2>4. hpc'[g] \notin {"off", "gone"} => process'[asked'[g]] = "up"
    BY <1>2
  <2> QED  BY <1>2, <2>1, <2>2, <2>3, <2>4 DEF HandlerOk
<1>3. ASSUME NEW g \in Fetches, Aside(g), process' = process
      PROVE  HandlerOk(g)'
  <2>1. Closed(g)' <=> Closed(g)
    BY <1>3 DEF Aside, Closed
  <2>2. hpc[g] \notin {"off", "gone"} => process'[asked[g]] = "up"
    BY <1>1, <1>3 DEF HandlerOk
  <2> QED  BY <1>2, <1>3, <2>1, <2>2 DEF Aside
<1>4. ASSUME NEW f \in Fetches, FetchActs(f)
      PROVE  HandlerInv'
  <2>1. process' = process
    BY <1>4, FetchMoves
  <2>2. \A g \in Fetches : g # f => HandlerOk(g)'
    BY <1>1, <1>3, <1>4, <2>1, FetchAside
  <2>3. CASE Connect(f)
    <3>1. hpc[f] = "off" /\ pc[f] = "named" /\ process[asked[f]] = "up"
      BY <1>1, <2>3 DEF Connect, CanConnect, Talk, LabelType, HandlerLabels
    <3>2. HandlerOk(f)
      BY <1>1
    <3>3. /\ hpc'[f] = "message" /\ asked' = asked
          /\ UNCHANGED <<message, number, text>>
      BY <1>1, <2>3 DEF Connect, LabelType
    <3>4. HandlerOk(f)'
      BY <2>1, <3>1, <3>2, <3>3 DEF HandlerOk
    <3> QED  BY <2>2, <3>4 DEF HandlerInv
  <2>4. CASE ~Connect(f)
    <3>1. UNCHANGED handler
      BY <1>4, <2>4 DEF FetchActs, Get, ConnectUnanswered, Send, SendLost, RecvSize, RecvMissing,
         RecvContent, OpenFile, OpenFails, WriteBlock, CloseFile, Disconnect, Notify
    <3>2. hpc[f] # "off" => UNCHANGED <<want[f], asked[f]>> /\ (Closed(f) => Closed(f)')
      <4>1. ASSUME hpc[f] # "off"
            PROVE  Active(f)
        <5>1. pc[f] # "todo"
          BY <1>1, <4>1 DEF Talk, LabelType, HandlerLabels
        <5>2. ~\E k \in Numbers : Get(f, k)
          BY <5>1 DEF Get
        <5> QED  BY <1>4, <5>2, FetchMoves
      <4>2. Active(f) => UNCHANGED <<want[f], asked[f]>>
        BY <1>4, FetchMoves
      <4>3. pc[f] = "notify" => pc'[f] \in {"notify", "done"}
        BY <1>1, <1>4 DEF FetchActs, Get, Connect, CanConnect, ConnectUnanswered, Send, SendLost, RecvSize,
           RecvMissing, RecvContent, Takes, OpenFile, OpenFails, WriteBlock, CloseFile, Disconnect,
           Notify, Goto, LabelType
      <4> QED  BY <4>1, <4>2, <4>3 DEF Active, Over, Closed
    <3>3. hpc[f] \notin {"off", "gone"} => process'[asked[f]] = "up"
      BY <1>1, <2>1 DEF HandlerOk
    <3>4. HandlerOk(f)'
      BY <1>2, <3>1, <3>2, <3>3 DEF handler
    <3> QED  BY <2>2, <3>4 DEF HandlerInv
  <2> QED  BY <2>3, <2>4
<1>5. ASSUME NEW f \in Fetches, HandlerActs(f)
      PROVE  HandlerInv'
  <2>1. process' = process /\ disk' = disk /\ UNCHANGED fetch
    BY <1>5, FetchStays DEF lives
  <2>2. \A g \in Fetches : g # f => HandlerOk(g)'
    BY <1>1, <1>3, <1>5, <2>1, HandlerAside
  <2>3. /\ HandlerOk(f) /\ Talk(want[f], pc[f], hpc[f], up[f], out[f])
        /\ pc'[f] = pc[f] /\ want'[f] = want[f] /\ asked'[f] = asked[f]
        /\ (Closed(f)' <=> Closed(f))
    BY <1>1, <2>1 DEF fetch, Closed
  <2>4. ASSUME HandlerMessage(f) \/ HandlerStaleMessage(f)
        PROVE  HandlerOk(f)'
    <3>1. PICK w : Dispatch(f, w)
      BY <2>4 DEF HandlerMessage, HandlerStaleMessage
    <3>2. hpc[f] = "message" /\ UNCHANGED <<number, text>>
      BY <2>4 DEF HandlerMessage, HandlerStaleMessage, HandlerTakes, HandlerStarves
    <3>3. /\ message'[f] = w /\ hpc'[f] \in {"number", "done", "message"}
          /\ w = DISCONNECT => hpc'[f] = "done"
      BY <1>1, <3>1 DEF Dispatch, HandlerGoto, LabelType, GET, DISCONNECT
    <3> QED  BY <2>1, <2>3, <3>2, <3>3 DEF HandlerOk
  <2>5. ASSUME HandlerNumber(f)
        PROVE  HandlerOk(f)'
    <3>1. hpc[f] = "number"
      BY <2>5 DEF HandlerNumber, HandlerTakes, HandlerStarves
    <3>2. want[f] \in Numbers
      BY <1>1, <3>1 DEF Talk
    <3>3. up[f] # <<>> => Head(up[f]).val = Short(want[f])
      BY <2>3, <3>1, TalkTakes
    <3>4. /\ number'[f] \in { Short(k) : k \in Numbers }
          /\ ~Closed(f) => number'[f] = Short(want[f])
      BY <1>1, <2>5, <3>2, <3>3 DEF HandlerNumber, HandlerTakes, HandlerStarves, LabelType
    <3>5. hpc'[f] = "get" /\ UNCHANGED <<message, text>>
      BY <1>1, <2>5 DEF HandlerNumber, HandlerGoto, LabelType
    <3> QED  BY <2>1, <2>3, <3>1, <3>4, <3>5 DEF HandlerOk
  <2>6. ASSUME GetContent(f)
        PROVE  HandlerOk(f)'
    <3>1. /\ hpc[f] = "get" /\ HasFile(f) /\ hpc'[f] = "read" /\ UNCHANGED <<message, number, text>>
      BY <1>1, <2>6 DEF GetContent, HandlerGoto, LabelType
    <3>2. asked[f] \in Nodes
      BY <1>1, <3>1 DEF Talk
    <3>3. File(f) \in Contents
      BY <3>1, <3>2 DEF TypeInv, DiskType, HasFile, File
    <3>4. IsPrefix(<<>>, File(f))
      BY <3>3, EmptyPrefix DEF Contents
    <3>5. HasFile(f)' /\ File(f)' = File(f) /\ text'[f] = <<>>
      BY <2>1, <2>3, <3>1 DEF HasFile, File, HandlerOk
    <3> QED  BY <2>1, <2>3, <3>1, <3>4, <3>5 DEF HandlerOk
  <2>7. ASSUME GetContentThrows(f) \/ ReadEnd(f)
        PROVE  HandlerOk(f)'
    <3>1. hpc[f] \in {"get", "read"} /\ hpc'[f] = "message" /\ text'[f] = <<>> /\ message' = message
      BY <1>1, <2>7 DEF GetContentThrows, ReadEnd, Answer, HandlerGoto, LabelType
    <3> QED  BY <2>1, <2>3, <3>1 DEF HandlerOk
  <2>8. ASSUME NEW i \in Lens, ReadBlock(f, i)
        PROVE  HandlerOk(f)'
    <3>1. hpc[f] = "read" /\ hpc'[f] = "read" /\ UNCHANGED <<message, number>>
      BY <2>8 DEF ReadBlock
    <3>2. IsPrefix(text'[f], File(f)) /\ HasFile(f)
      BY <2>8, ReadsOn
    <3>3. HasFile(f)' /\ File(f)' = File(f)
      BY <2>1, <2>3, <3>1, <3>2 DEF HasFile, File
    <3> QED  BY <2>1, <2>3, <3>1, <3>2, <3>3 DEF HandlerOk
  <2>9. ASSUME HandlerSend(f) \/ HandlerSendLost(f)
        PROVE  HandlerOk(f)'
    <3>1. UNCHANGED <<hpc, message, number, text>>
      BY <2>9 DEF HandlerSend, HandlerSendLost
    <3>2. HasFile(f)' = HasFile(f) /\ File(f)' = File(f)
      BY <2>1, <2>3, <3>1 DEF HasFile, File
    <3> QED  BY <2>1, <2>3, <3>1, <3>2 DEF HandlerOk
  <2>10. HandlerOk(f)'
    BY <1>5, <2>4, <2>5, <2>6, <2>7, <2>8, <2>9 DEF HandlerActs
  <2> QED  BY <2>2, <2>10 DEF HandlerInv
<1>6. ASSUME NEW n \in Nodes, Departs(n), NEW g \in Fetches
      PROVE  HandlerOk(g)'
  <2>1. /\ UNCHANGED <<disk, want, asked, message, number, text>>
        /\ hpc'[g] = IF asked[g] = n /\ pc[g] # "named" THEN "gone" ELSE hpc[g]
        /\ \A m \in Nodes : m # n => process'[m] = process[m]
        /\ Closed(g) => Closed(g)'
    BY <1>6 DEF Departs, Ends, Leaves, Closed, Over, TypeInv, ProcessType
  <2>2. CASE hpc'[g] = hpc[g]
    <3>1. hpc[g] \notin {"off", "gone"} => asked[g] \in Nodes /\ pc[g] # "named"
      BY <1>1 DEF Talk, LabelType, HandlerLabels
    <3>2. hpc[g] \notin {"off", "gone"} => process'[asked[g]] = "up"
      BY <1>1, <2>1, <2>2, <3>1 DEF HandlerOk
    <3> QED  BY <1>2, <2>1, <2>2, <3>2
  <2>3. CASE hpc'[g] # hpc[g]
    BY <2>1, <2>3 DEF HandlerOk
  <2> QED  BY <2>2, <2>3
<1>7. ASSUME NEW n \in Nodes, Forget(n) \/ Restart(n), NEW g \in Fetches
      PROVE  HandlerOk(g)'
  <2>1. /\ UNCHANGED <<fetch, handler>>
        /\ \A m \in Nodes : process[m] = "up" => process'[m] = "up"
    BY <1>7 DEF Forget, Restart, nodes, lives, TypeInv, ProcessType
  <2>2. hpc[g] \notin {"off", "gone"} => asked[g] \in Nodes /\ process[asked[g]] = "up"
    BY <1>1 DEF Talk, LabelType, HandlerLabels, HandlerOk
  <2>3. Closed(g) => Closed(g)'
    BY <2>1 DEF fetch, Closed
  <2> QED  BY <1>2, <2>1, <2>2, <2>3 DEF fetch, handler
<1> QED  BY <1>4, <1>5, <1>6, <1>7, Steps DEF HandlerInv

(***************************************************************************)
(* The connections                                                         *)
(***************************************************************************)

\* Nothing is under way to the handler when an answer is.
LEMMA Answered ==
  ASSUME NEW C, NEW k, NEW h \in HandlerLabels, NEW u, NEW o, NEW d, NEW r,
         Talk(k, "size", h, u, o), Reply(C, "size", h, u, o, d, r), o = <<>>, d # <<>>
  PROVE  h \in {"message", "gone"} /\ u = <<>>
BY DEF Talk, Reply, Open, HandlerLabels

LEMMA TalkStep ==
  ASSUME TypeInv, Next
  PROVE  TalkInv'
<1>1. /\ LabelType /\ \A f \in Fetches : Talk(want[f], pc[f], hpc[f], up[f], out[f])
      /\ \A f \in Fetches : Reply(Contents, pc[f], hpc[f], up[f], out[f], down[f], hout[f])
  BY DEF TypeInv, TalkInv, ReplyInv
<1>2. ASSUME NEW g \in Fetches, Aside(g)
      PROVE  Talk(want[g], pc[g], hpc[g], up[g], out[g])'
  BY <1>1, <1>2 DEF Aside
<1>3. ASSUME NEW f \in Fetches, FetchActs(f)
      PROVE  TalkInv'
  <2> DEFINE k == want[f]
  <2> DEFINE p == pc[f]
  <2> DEFINE h == hpc[f]
  <2> DEFINE u == up[f]
  <2> DEFINE o == out[f]
  <2>1. Talk(k, p, h, u, o) /\ h \in HandlerLabels /\ p \in FetchLabels
    BY <1>1 DEF LabelType
  <2> USE DEF Goto, LabelType, fetch, handler
  <2>2. ASSUME NEW j \in Numbers, Get(f, j)
        PROVE  Talk(k, p, h, u, o)'
    <3>1. pc[f] = "todo" /\ pc'[f] \in {"none", "named"} /\ UNCHANGED <<out, up, hpc>>
      BY <2>2, Gets DEF Get
    <3>2. hpc[f] = "off" /\ up[f] = <<>> /\ out[f] = <<>>
      BY <2>1, <3>1 DEF Talk, HandlerLabels
    <3> QED  BY <3>1, <3>2 DEF Talk
  <2>3. ASSUME Connect(f) \/ ConnectUnanswered(f)
        PROVE  Talk(k, p, h, u, o)'
    <3>1. pc[f] = "named" /\ hpc[f] = "off" /\ up[f] = <<>> /\ out[f] = <<>>
      BY <2>1, <2>3 DEF Talk, HandlerLabels, Connect, ConnectUnanswered, CanConnect
    <3>2. \/ /\ pc'[f] = "size" /\ hpc'[f] = "message" /\ up'[f] = <<>>
             /\ out'[f] = Request(want[f]) /\ want'[f] = want[f]
          \/ pc'[f] = "blocked" /\ hpc'[f] = "off" /\ up'[f] = <<>> /\ out'[f] = <<>>
      BY <1>1, <2>3, <3>1 DEF Connect, ConnectUnanswered
    <3> QED  BY <3>2 DEF Talk, Request, Two, Asking
  <2>4. ASSUME Send(f) \/ SendLost(f)
        PROVE  Talk(k, p, h, u, o)'
    <3>1. /\ o # <<>> /\ Head(o) # Null /\ UNCHANGED <<k, p, h>> /\ out'[f] = Tail(o)
          /\ up'[f] = IF h = "gone" THEN u ELSE Append(u, Head(o))
      BY <1>1, <2>4 DEF Send, SendLost
    <3>2. IF h = "gone" THEN Talk(k, p, h, u, Tail(o)) ELSE Talk(k, p, h, Append(u, Head(o)), Tail(o))
      <4> HIDE DEF k, p, h, u, o
      <4> QED  BY <2>1, <3>1, TalkSends DEF HandlerLabels
    <3> QED  BY <3>1, <3>2
  <2>5. ASSUME RecvSize(f)
        PROVE  Talk(k, p, h, u, o)'
    <3>1. /\ p = "size" /\ o = <<>> /\ down[f] # <<>> /\ pc'[f] = "body" /\ UNCHANGED <<k, h, u, o>>
      BY <1>1, <2>5 DEF RecvSize, Takes
    <3>2. h \in {"message", "gone"} /\ u = <<>>
      BY <1>1, <2>1, <3>1, Answered
    <3> QED  BY <3>1, <3>2 DEF Talk
  <2>6. ASSUME RecvMissing(f) \/ RecvContent(f)
        PROVE  Talk(k, p, h, u, o)'
    <3>1. /\ p = "body" /\ o = <<>> /\ pc'[f] \in {"missing", "open"} /\ UNCHANGED <<k, h, u, o>>
      BY <1>1, <2>6 DEF RecvMissing, RecvContent, Takes
    <3> QED  BY <2>1, <3>1 DEF Talk, HandlerLabels
  <2>7. ASSUME OpenFile(f) \/ \E i \in Lens : WriteBlock(f, i)
        PROVE  Talk(k, p, h, u, o)'
    <3>1. /\ p \in {"open", "write"} /\ pc'[f] = "write" /\ UNCHANGED <<k, h, u, o>>
      BY <1>1, <2>7 DEF OpenFile, WriteBlock
    <3> QED  BY <2>1, <3>1 DEF Talk, HandlerLabels
  <2>8. ASSUME OpenFails(f) \/ CloseFile(f)
        PROVE  Talk(k, p, h, u, o)'
    <3>1. /\ p \in {"open", "write"} /\ pc'[f] = "closing" /\ UNCHANGED <<k, h, u>>
          /\ out'[f] = One(Leaving)
      BY <1>1, <2>8 DEF OpenFails, CloseFile, One, Leaving
    <3> QED  BY <2>1, <3>1 DEF Talk, HandlerLabels
  <2>9. ASSUME Disconnect(f) \/ Notify(f)
        PROVE  Talk(k, p, h, u, o)'
    <3>1. /\ \/ p = "closing" /\ o = <<>> /\ pc'[f] = "notify"
             \/ p = "notify" /\ pc'[f] = "done"
          /\ UNCHANGED <<k, h, u, o>>
      BY <1>1, <2>9 DEF Disconnect, Notify
    <3> QED  BY <2>1, <3>1, Shorts DEF Talk, HandlerLabels
  <2>10. Talk(k, p, h, u, o)'
    BY <1>3, <2>2, <2>3, <2>4, <2>5, <2>6, <2>7, <2>8, <2>9 DEF FetchActs
  <2>11. \A g \in Fetches : g # f => Aside(g)
    BY <1>1, <1>3, FetchAside
  <2> QED  BY <1>2, <2>10, <2>11 DEF TalkInv
<1>4. ASSUME NEW f \in Fetches, HandlerActs(f)
      PROVE  TalkInv'
  <2> DEFINE k == want[f]
  <2> DEFINE p == pc[f]
  <2> DEFINE h == hpc[f]
  <2> DEFINE u == up[f]
  <2> DEFINE o == out[f]
  <2>1. Talk(k, p, h, u, o) /\ h \in HandlerLabels /\ p \in FetchLabels
    BY <1>1 DEF LabelType
  <2>2. UNCHANGED <<k, p, o>>
    BY <1>4, FetchStays DEF fetch
  <2> USE DEF HandlerGoto, LabelType
  <2>3. ASSUME HandlerMessage(f)
        PROVE  Talk(k, p, h, u, o)'
    <3>1. /\ h = "message" /\ u # <<>> /\ up'[f] = Tail(u)
          /\ Head(u).val = GET => hpc'[f] = "number"
          /\ Head(u).val = DISCONNECT => hpc'[f] = "done"
      BY <1>1, <2>3 DEF HandlerMessage, HandlerTakes, Dispatch, GET, DISCONNECT
    <3>2. /\ Head(u).val \in {GET, DISCONNECT}
          /\ Head(u).val = GET => Talk(k, p, "number", Tail(u), o)
          /\ Head(u).val = DISCONNECT => Talk(k, p, "done", Tail(u), o)
      <4> HIDE DEF k, p, h, u, o
      <4> QED  BY <2>1, <3>1, TalkTakes
    <3> QED  BY <2>2, <3>1, <3>2
  <2>4. ASSUME HandlerStaleMessage(f)
        PROVE  Talk(k, p, h, u, o)'
    <3>1. PICK w : Dispatch(f, w)
      BY <2>4 DEF HandlerStaleMessage
    <3>2. /\ h = "message" /\ u = <<>> /\ Closed(f) /\ up'[f] = <<>>
          /\ hpc'[f] \in {"message", "number", "done"}
      BY <1>1, <2>4, <3>1 DEF HandlerStaleMessage, HandlerStarves, Dispatch
    <3>3. \A g \in {"message", "number", "done"} : Talk(k, p, g, <<>>, o)
      BY <2>1, <3>2, TalkStarves DEF Closed
    <3> QED  BY <2>2, <3>2, <3>3
  <2>5. ASSUME HandlerNumber(f)
        PROVE  Talk(k, p, h, u, o)'
    <3>1. /\ h = "number" /\ hpc'[f] = "get"
          /\ \/ u # <<>> /\ up'[f] = Tail(u)
             \/ u = <<>> /\ up'[f] = <<>> /\ Closed(f)
      BY <1>1, <2>5 DEF HandlerNumber, HandlerTakes, HandlerStarves
    <3>2. CASE u # <<>>
      <4>1. Talk(k, p, "get", Tail(u), o)
        <5> HIDE DEF k, p, h, u, o
        <5> QED  BY <2>1, <3>1, <3>2, TalkTakes
      <4> QED  BY <2>2, <3>1, <3>2, <4>1
    <3>3. CASE u = <<>>
      <4>1. Talk(k, p, "get", <<>>, o)
        BY <2>1, <3>1, <3>3, TalkStarves DEF Closed
      <4> QED  BY <2>2, <3>1, <3>3, <4>1
    <3> QED  BY <3>2, <3>3
  <2>6. ASSUME GetContent(f) \/ GetContentThrows(f) \/ ReadEnd(f)
        PROVE  Talk(k, p, h, u, o)'
    <3>1. h \in {"get", "read"} /\ up'[f] = u /\ hpc'[f] \in {"read", "message"}
      BY <1>1, <2>6 DEF GetContent, GetContentThrows, ReadEnd, Answer
    <3> QED  BY <2>1, <2>2, <3>1 DEF Talk
  <2>7. ASSUME HandlerSend(f) \/ HandlerSendLost(f) \/ \E i \in Lens : ReadBlock(f, i)
        PROVE  Talk(k, p, h, u, o)'
    BY <2>1, <2>2, <2>7 DEF HandlerSend, HandlerSendLost, ReadBlock
  <2>8. Talk(k, p, h, u, o)'
    BY <1>4, <2>3, <2>4, <2>5, <2>6, <2>7 DEF HandlerActs
  <2>9. \A g \in Fetches : g # f => Aside(g)
    BY <1>1, <1>4, HandlerAside
  <2> QED  BY <1>2, <2>8, <2>9 DEF TalkInv
<1>5. ASSUME NEW n \in Nodes, Departs(n), NEW g \in Fetches
      PROVE  Talk(want[g], pc[g], hpc[g], up[g], out[g])'
  <2> DEFINE k == want[g]
  <2> DEFINE p == pc[g]
  <2> DEFINE h == hpc[g]
  <2> DEFINE u == up[g]
  <2> DEFINE o == out[g]
  <2> DEFINE p2 == IF By[g] = n /\ p \notin Over THEN "dead" ELSE p
  <2> DEFINE o2 == IF By[g] = n THEN <<>> ELSE o
  <2> DEFINE gone == asked[g] = n /\ p # "named"
  <2>1. Talk(k, p, h, u, o) /\ h \in HandlerLabels
    BY <1>1 DEF LabelType
  <2>2. /\ want'[g] = k /\ pc'[g] = p2 /\ out'[g] = o2
        /\ hpc'[g] = (IF gone THEN "gone" ELSE h)
        /\ up'[g] = (IF asked[g] = n THEN <<>> ELSE u)
    BY <1>5 DEF Departs, Ends, Leaves
  <2>3. /\ asked[g] = n => p \notin {"todo", "none"}
        /\ p = "named" => u = <<>>
    BY <2>1, TransferAssumption DEF TypeInv, PromptInv, Talk, HandlerLabels
  <2>4. Talk(k, p2, h, u, o2)
    <3> HIDE DEF k, p, h, u, o
    <3> QED  BY <2>1, TalkEnds DEF HandlerLabels
  <2>5. gone => Talk(k, p2, "gone", <<>>, o2)
    <3>1. gone => p2 \notin {"todo", "none", "named"}
      BY <2>3
    <3> HIDE DEF k, p, h, u, o, p2, o2
    <3> QED  BY <2>1, <2>4, <3>1, TalkEnds DEF HandlerLabels
  <2> QED  BY <2>2, <2>3, <2>4, <2>5
<1>6. ASSUME NEW n \in Nodes, Forget(n) \/ Restart(n)
      PROVE  TalkInv'
  BY <1>1, <1>6 DEF Forget, Restart, fetch, handler, TalkInv
<1> QED  BY <1>3, <1>4, <1>5, <1>6, Steps DEF TalkInv

\* A send while the GET is on its way, or to nobody.
LEMMA ReplyAfterSend ==
  ASSUME NEW C, NEW p, NEW h, NEW u, NEW o, NEW d, NEW r, Reply(C, p, h, u, o, d, r),
         NEW u2, NEW o2, h # "gone" => o # <<>> /\ u2 # <<>>
  PROVE  Reply(C, p, h, u2, o2, d, r)
BY DEF Reply, Open

LEMMA ReplyConnect ==
  ASSUME NEW C, NEW d, NEW r, d = <<>>, r = <<>>, NEW u, NEW o, o # <<>>
  PROVE  Reply(C, "size", "message", u, o, d, r)
BY DEF Reply, Open, Silent, PartSent, Part

\* Whatever the set of contents that the answers are of: those that are read must
\* be in it.
LEMMA ReplyKept ==
  ASSUME TypeInv, Next, NEW f \in Fetches, NEW C,
         Reply(C, pc[f], hpc[f], up[f], out[f], down[f], hout[f]),
         ReadEnd(f) => text[f] \in C
  PROVE  Reply(C, pc'[f], hpc'[f], up'[f], out'[f], down'[f], hout'[f])
<1> DEFINE After == Reply(C, pc'[f], hpc'[f], up'[f], out'[f], down'[f], hout'[f])
<1>1. LabelType /\ Talk(want[f], pc[f], hpc[f], up[f], out[f])
  BY DEF TypeInv, TalkInv
<1>2. ASSUME Aside(f)
      PROVE  After
  BY <1>2 DEF Aside
<1>3. ASSUME NEW g \in Fetches, FetchActs(g) \/ HandlerActs(g), g # f
      PROVE  After
  BY <1>1, <1>2, <1>3, FetchAside, HandlerAside
<1>4. ASSUME FetchActs(f)
      PROVE  After
  <2> DEFINE p == pc[f]
  <2> DEFINE h == hpc[f]
  <2> DEFINE u == up[f]
  <2> DEFINE o == out[f]
  <2> DEFINE d == down[f]
  <2> DEFINE r == hout[f]
  <2>1. Reply(C, p, h, u, o, d, r) /\ h \in HandlerLabels /\ p \in FetchLabels
    BY <1>1 DEF LabelType
  <2> USE DEF Goto, LabelType, fetch, handler
  <2>2. ASSUME p \in Silent, pc'[f] \in Silent, UNCHANGED <<h, d, r>>
        PROVE  After
    <3>1. Reply(C, pc'[f], h, up'[f], out'[f], d, r)
      <4> HIDE DEF h, u, o, d, r
      <4> QED  BY <2>1, <2>2, ReplyQuiet
    <3> QED  BY <2>2, <3>1
  <2>3. ASSUME NEW j \in Numbers, Get(f, j)
        PROVE  After
    <3>1. pc[f] = "todo" /\ pc'[f] \in {"none", "named"} /\ UNCHANGED <<h, d, r>>
      BY <2>3, Gets DEF Get
    <3> QED  BY <2>2, <3>1 DEF Silent
  <2>4. ASSUME Connect(f)
        PROVE  After
    <3>1. d = <<>> /\ r = <<>>
      BY <2>1, <2>4 DEF Connect, CanConnect, Reply, Silent
    <3>2. /\ pc'[f] = "size" /\ hpc'[f] = "message" /\ down'[f] = d /\ hout'[f] = r
          /\ out'[f] = Two(Word(GET), GetMessage(want[f]))
      BY <1>1, <2>4 DEF Connect, Request, Two
    <3>3. out'[f] # <<>>
      BY <3>2, Shorts
    <3>4. Reply(C, "size", "message", up'[f], out'[f], d, r)
      BY <3>1, <3>3, ReplyConnect
    <3> QED  BY <3>2, <3>4
  <2>5. ASSUME ConnectUnanswered(f) \/ OpenFile(f) \/ OpenFails(f) \/ CloseFile(f) \/ Disconnect(f)
               \/ Notify(f) \/ \E i \in Lens : WriteBlock(f, i)
        PROVE  After
    <3>1. p \in Silent /\ pc'[f] \in Silent /\ UNCHANGED <<h, d, r>>
      BY <1>1, <2>5 DEF ConnectUnanswered, CanConnect, OpenFile, OpenFails, CloseFile, Disconnect,
         Notify, WriteBlock, Silent
    <3> QED  BY <2>2, <3>1
  <2>6. ASSUME Send(f) \/ SendLost(f)
        PROVE  After
    <3>1. /\ UNCHANGED <<p, h, d, r>> /\ o # <<>>
          /\ h # "gone" => up'[f] = Append(u, Head(o))
      BY <1>1, <2>6 DEF Send, SendLost
    <3>2. h # "gone" => up'[f] # <<>>
      <4>1. h # "gone" => u = <<>> \/ u = One(Asking)
        <5>1. Talk(want[f], p, h, u, o)
          BY <1>1
        <5> QED  BY <2>1, <3>1, <5>1 DEF Talk, HandlerLabels
      <4> QED  BY <3>1, <4>1, Shorts
    <3>3. Reply(C, p, h, up'[f], out'[f], d, r)
      BY <2>1, <3>1, <3>2, ReplyAfterSend
    <3> QED  BY <3>1, <3>3
  <2>7. ASSUME RecvSize(f) \/ RecvMissing(f) \/ RecvContent(f)
        PROVE  After
    <3>1. /\ UNCHANGED <<h, u, o, r>> /\ d # <<>> /\ down'[f] = Tail(d)
          /\ \/ p = "size" /\ pc'[f] = "body"
             \/ p = "body" /\ Head(d).val = 404 /\ pc'[f] = "missing"
             \/ p = "body" /\ Head(d).val # 404 /\ pc'[f] = "open"
      BY <1>1, <2>7 DEF RecvSize, RecvMissing, RecvContent, Takes
    <3>2. Reply(C, pc'[f], h, u, o, Tail(d), r)
      BY <2>1, <3>1, ReplyTaken
    <3> QED  BY <3>1, <3>2
  <2> QED  BY <1>4, <2>3, <2>4, <2>5, <2>6, <2>7 DEF FetchActs
<1>5. ASSUME HandlerActs(f)
      PROVE  After
  <2> DEFINE k == want[f]
  <2> DEFINE p == pc[f]
  <2> DEFINE h == hpc[f]
  <2> DEFINE u == up[f]
  <2> DEFINE o == out[f]
  <2> DEFINE d == down[f]
  <2> DEFINE r == hout[f]
  <2>1. /\ Reply(C, p, h, u, o, d, r) /\ Talk(k, p, h, u, o)
        /\ h \in HandlerLabels /\ p \in FetchLabels
    BY <1>1 DEF LabelType
  <2>2. UNCHANGED <<k, p, o>>
    BY <1>5, FetchStays DEF fetch
  <2> USE DEF HandlerGoto, LabelType
  <2>3. ASSUME r = <<>>, h # "gone", hpc'[f] # "gone", UNCHANGED <<d, r>>,
               p = "size" => Open(h, u, o) /\ Open(hpc'[f], up'[f], o)
        PROVE  After
    <3>1. Reply(C, p, hpc'[f], up'[f], o, d, <<>>)
      BY <2>1, <2>3, ReplyStays
    <3> QED  BY <2>2, <2>3, <3>1
  <2>4. ASSUME HandlerMessage(f)
        PROVE  After
    <3>1. /\ h = "message" /\ u # <<>> /\ r = <<>> /\ UNCHANGED <<d, r>>
          /\ Head(u).val = GET => hpc'[f] = "number"
          /\ Head(u).val = DISCONNECT => hpc'[f] = "done"
      BY <1>1, <2>4 DEF HandlerMessage, HandlerTakes, Dispatch, GET, DISCONNECT
    <3>2. Head(u).val \in {GET, DISCONNECT} /\ (Head(u).val = DISCONNECT => p # "size")
      <4>1. /\ Head(u).val \in {GET, DISCONNECT}
            /\ Head(u).val = DISCONNECT => Talk(k, p, "done", Tail(u), o)
        BY <2>1, <3>1, TalkTakes
      <4> QED  BY <4>1 DEF Talk
    <3> QED  BY <2>3, <3>1, <3>2 DEF Open
  <2>5. ASSUME HandlerStaleMessage(f)
        PROVE  After
    <3>1. PICK w : Dispatch(f, w)
      BY <2>5 DEF HandlerStaleMessage
    <3>2. /\ h = "message" /\ r = <<>> /\ Closed(f) /\ UNCHANGED <<d, r>>
          /\ hpc'[f] \in {"message", "number", "done"}
      BY <1>1, <2>5, <3>1 DEF HandlerStaleMessage, HandlerStarves, Dispatch
    <3> QED  BY <2>3, <3>2 DEF Closed
  <2>6. ASSUME HandlerNumber(f) \/ GetContent(f)
        PROVE  After
    <3>1. /\ h \in {"number", "get"} /\ hpc'[f] \in {"get", "read"} /\ UNCHANGED <<d, r>>
      BY <1>1, <2>6 DEF HandlerNumber, HandlerTakes, HandlerStarves, GetContent
    <3>2. r = <<>>
      BY <2>1, <3>1 DEF Reply
    <3> QED  BY <2>3, <3>1, <3>2 DEF Open
  <2>7. ASSUME GetContentThrows(f) \/ ReadEnd(f)
        PROVE  After
    <3>1. PICK a : /\ \/ a = Response(404, <<>>)
                      \/ a = Response(200, text[f]) /\ text[f] \in C
                   /\ hout'[f] = <<Size, a>>
      BY <1>1, <2>7 DEF GetContentThrows, ReadEnd, Answer
    <3>2. /\ h \in {"get", "read"} /\ hpc'[f] = "message" /\ UNCHANGED <<d, u>>
      BY <1>1, <2>7 DEF GetContentThrows, ReadEnd, Answer
    <3>3. a \in Replies(C)
      BY <3>1 DEF Response, Replies
    <3>4. p \in {"size", "missing", "dead"} /\ u = <<>> /\ o = <<>>
      BY <2>1, <3>2 DEF Talk
    <3>5. Reply(C, p, "message", <<>>, <<>>, d, Two(Size, a))
      BY <2>1, <3>2, <3>3, <3>4, ReplyMade
    <3> QED  BY <2>2, <3>1, <3>2, <3>4, <3>5 DEF Two
  <2>8. ASSUME HandlerSend(f) \/ HandlerSendLost(f)
        PROVE  After
    <3>1. /\ UNCHANGED <<h, u>> /\ r # <<>> /\ Head(r) # Null /\ hout'[f] = Tail(r)
          /\ down'[f] = IF Closed(f) THEN d ELSE Append(d, Head(r))
      BY <1>1, <2>8 DEF HandlerSend, HandlerSendLost
    <3>2. CASE Closed(f)
      <4>1. Reply(C, p, h, u, o, d, Tail(r))
        BY <2>1, <3>1, <3>2, ReplyLost DEF Closed
      <4> QED  BY <2>2, <3>1, <3>2, <4>1
    <3>3. CASE ~Closed(f)
      <4>1. p \in Silent \cup {"size", "body"}
        BY <2>1, <3>3 DEF Closed, Silent, FetchLabels
      <4>2. Reply(C, p, h, u, o, Append(d, Head(r)), Tail(r))
        <5> HIDE DEF p, h, u, o, d, r
        <5> QED  BY <2>1, <3>1, <4>1, ReplySends
      <4> QED  BY <2>2, <3>1, <3>3, <4>2
    <3> QED  BY <3>2, <3>3
  <2>9. ASSUME NEW i \in Lens, ReadBlock(f, i)
        PROVE  After
    BY <2>1, <2>2, <2>9 DEF ReadBlock
  <2> QED  BY <1>5, <2>4, <2>5, <2>6, <2>7, <2>8, <2>9 DEF HandlerActs
<1>6. ASSUME NEW n \in Nodes, Departs(n)
      PROVE  After
  <2> DEFINE p == pc[f]
  <2> DEFINE h == hpc[f]
  <2> DEFINE u == up[f]
  <2> DEFINE o == out[f]
  <2> DEFINE d == down[f]
  <2> DEFINE r == hout[f]
  <2> DEFINE p2 == IF By[f] = n /\ p \notin Over THEN "dead" ELSE p
  <2> DEFINE o2 == IF By[f] = n THEN <<>> ELSE o
  <2> DEFINE gone == asked[f] = n /\ p # "named"
  <2>1. Reply(C, p, h, u, o, d, r) /\ Talk(want[f], p, h, u, o) /\ h \in HandlerLabels
    BY <1>1 DEF LabelType
  <2>2. /\ pc'[f] = p2 /\ out'[f] = o2 /\ down'[f] = d
        /\ hpc'[f] = (IF gone THEN "gone" ELSE h)
        /\ up'[f] = (IF asked[f] = n THEN <<>> ELSE u)
        /\ hout'[f] = (IF asked[f] = n THEN <<>> ELSE r)
    BY <1>6 DEF Departs, Ends, Leaves
  <2>3. /\ p = "named" => u = <<>> /\ r = <<>>
        /\ p \in Over => o = <<>>
    <3>1. p \in Over => o = <<>>
      BY <2>1, TalkEnds DEF HandlerLabels
    <3> QED  BY <2>1, <3>1 DEF Talk, Reply, Silent, HandlerLabels
  <2>4. Reply(C, p2, h, u, o2, d, r)
    <3>1. CASE p2 = "dead" /\ p \notin Over
      BY <2>1, <3>1, ReplyEnds
    <3>2. CASE p2 = p /\ o2 = o
      BY <2>1, <3>2
    <3> QED  BY <2>3, <3>1, <3>2
  <2>5. Reply(C, p2, "gone", <<>>, o2, d, <<>>)
    BY <2>4, ReplyEnds
  <2> QED  BY <2>2, <2>3, <2>4, <2>5
<1>7. ASSUME NEW n \in Nodes, Forget(n) \/ Restart(n)
      PROVE  After
  BY <1>7 DEF Forget, Restart, fetch, handler
<1> QED  BY <1>3, <1>4, <1>5, <1>6, <1>7, Steps

LEMMA ReplyStep ==
  ASSUME TypeInv, Next
  PROVE  ReplyInv'
<1>1. ASSUME NEW f \in Fetches
      PROVE  Reply(Contents, pc'[f], hpc'[f], up'[f], out'[f], down'[f], hout'[f])
  BY ReplyKept DEF TypeInv, ReplyInv, LabelType
<1> QED  BY <1>1 DEF ReplyInv, Contents

(***************************************************************************)
(* The type invariant                                                      *)
(***************************************************************************)

\* The files of the constants are contents.
LEMMA FilesAreContents ==
  ASSUME NEW n \in Nodes, NEW k \in DOMAIN Files[n]
  PROVE  Files[n][k] \in Contents
<1> DEFINE c == Files[n][k]
<1> DEFINE S == UNION { ToSet(content) : content \in Originals }
<1>1. c \in Seq(STRING)
  BY TransferAssumption
<1>2. c \in Originals
  BY DEF Originals
<1>3. \A i \in 1..Len(c) : c[i] \in S
  BY <1>1, <1>2, LenProperties DEF ToSet
<1> HIDE DEF c, S
<1>4. c \in Seq(S)
  BY <1>1, <1>3, IsASeq, LenProperties
<1> QED  BY <1>4 DEF c, S, Contents

LEMMA TypeInit ==
  ASSUME Init
  PROVE  TypeInv
<1> USE DEF Init
<1>1. ProcessType
  <2>1. listed \in [Numbers -> SUBSET Nodes]
    BY TransferAssumption
  <2>2. \A n \in Nodes : fds[n] \in 0..limit[n]
    BY TransferAssumption
  <2> QED  BY <2>1, <2>2 DEF ProcessType
<1>2. DiskType
  BY FilesAreContents, TransferAssumption DEF DiskType
<1>3. LabelType
  <2>1. <<>> \in Contents
    BY DEF Contents
  <2> QED  BY <2>1 DEF LabelType, FetchLabels, HandlerLabels
<1>4. PromptInv /\ FdInv
  BY DEF PromptInv, FdInv, Active, Over
<1>5. HandlerInv
  <2>1. None # DISCONNECT
    BY TransferAssumption DEF DISCONNECT
  <2> QED  BY <2>1 DEF HandlerInv, HandlerOk
<1>6. TalkInv
  BY DEF TalkInv, Talk
<1>7. ReplyInv
  BY DEF ReplyInv, Reply, Silent, Part, PartSent
<1> QED  BY <1>1, <1>2, <1>3, <1>4, <1>5, <1>6, <1>7 DEF TypeInv

LEMMA TypeNext ==
  ASSUME TypeInv, [Next]_vars
  PROVE  TypeInv'
<1>1. CASE Next
  BY <1>1, ProcessStep, DiskGrows, LabelStep, PromptStep, FdStep, HandlersStep, TalkStep, ReplyStep
     DEF TypeInv
<1>2. CASE UNCHANGED vars
  <2> USE <1>2 DEF vars, nodes, lives, index, fetch, handler, TypeInv
  <2>1. ProcessType' /\ DiskType' /\ LabelType'
    BY DEF ProcessType, DiskType, LabelType
  <2>2. PromptInv' /\ FdInv'
    BY DEF PromptInv, FdInv, Active
  <2>3. HandlerInv'
    BY DEF HandlerInv, HandlerOk, Closed, HasFile, File
  <2>4. TalkInv'
    BY DEF TalkInv
  <2>5. ReplyInv'
    BY DEF ReplyInv, Contents
  <2> QED  BY <2>1, <2>2, <2>3, <2>4, <2>5
<1> QED  BY <1>1, <1>2

LEMMA TypeImplies ==
  ASSUME TypeInv
  PROVE  TypeOK
<1>1. ASSUME NEW f \in Fetches
      PROVE  ToSet(out[f]) \cup ToSet(up[f]) \subseteq Frames
  <2>1. Talk(want[f], pc[f], hpc[f], up[f], out[f]) /\ hpc[f] \in HandlerLabels
    BY DEF TypeInv, TalkInv, LabelType
  <2>2. /\ Asking \in Frames /\ Leaving \in Frames
        /\ pc[f] # "todo" => GetMessage(want[f]) \in Frames
    BY DEF Frames, Asking, Leaving, TypeInv, PromptInv
  <2>3. ASSUME NEW q, \/ q \in {<<>>, One(Asking), One(Leaving)}
                      \/ pc[f] # "todo" /\ q \in {Two(Asking, GetMessage(want[f])), One(GetMessage(want[f]))}
        PROVE  ToSet(q) \subseteq Frames
    BY <2>2, <2>3, Contained
  <2>4. /\ \/ up[f] \in {<<>>, One(Asking), One(Leaving)}
           \/ pc[f] # "todo" /\ up[f] \in {Two(Asking, GetMessage(want[f])), One(GetMessage(want[f]))}
        /\ \/ out[f] \in {<<>>, One(Asking), One(Leaving)}
           \/ pc[f] # "todo" /\ out[f] \in {Two(Asking, GetMessage(want[f])), One(GetMessage(want[f]))}
    BY <2>1 DEF Talk, HandlerLabels
  <2> QED  BY <2>3, <2>4
<1>2. ASSUME NEW f \in Fetches, NEW x \in ToSet(hout[f]) \cup ToSet(down[f])
      PROVE  \/ x \in {Size, Null}
             \/ x.tag = "body" /\ x.val \in {200, 404} /\ x.body \in Contents
  <2>1. Part(Contents, hout[f]) /\ PartSent(Contents, down[f])
    BY DEF TypeInv, ReplyInv, Reply
  <2>2. x = Size \/ x \in Replies(Contents)
    BY <1>2, <2>1, Contained DEF Part, PartSent
  <2>3. <<>> \in Contents
    BY DEF Contents
  <2> QED  BY <2>2, <2>3 DEF Replies, Body
<1>3. ProcessType /\ DiskType /\ LabelType
  BY DEF TypeInv
<1>4. pc \in [Fetches -> Over \cup {"named", "blocked", "size", "body", "open", "write",
                                    "closing", "notify"}]
  BY <1>3 DEF LabelType, FetchLabels, Over
<1> QED  BY <1>1, <1>2, <1>3, <1>4 DEF TypeOK, ProcessType, DiskType, LabelType, HandlerLabels

\* The types are kept: what is under way between two clients is always a GET, its
\* number and a DISCONNECT one way, and a size and a response of get_content the
\* other, all of which fit the variables of get_rfc and of the handler; and no
\* process of a client has more descriptors open than it may.
THEOREM TypeCorrect == Spec => []TypeOK
<1>1. Init => TypeInv
  BY TypeInit
<1>2. TypeInv /\ [Next]_vars => TypeInv'
  BY TypeNext
<1>3. TypeInv => TypeOK
  BY TypeImplies
<1> QED  BY <1>1, <1>2, <1>3, PTL DEF Spec

(***************************************************************************)
(* A get, step by step                                                     *)
(***************************************************************************)

LEMMA Labels ==
  ASSUME TypeInv, NEW f \in Fetches
  PROVE  /\ (\E k \in Numbers : Get(f, k)) => pc[f] = "todo" /\ pc'[f] \in {"none", "named"}
         /\ Connect(f) => pc[f] = "named" /\ pc'[f] = "size" /\ UNCHANGED <<want[f], asked[f], rest[f]>>
         /\ ConnectUnanswered(f) =>
              pc[f] = "named" /\ pc'[f] = "blocked" /\ UNCHANGED <<want[f], asked[f], rest[f]>>
         /\ RecvSize(f) => pc[f] = "size" /\ pc'[f] = "body" /\ UNCHANGED <<want[f], asked[f], rest[f]>>
         /\ RecvMissing(f) =>
              pc[f] = "body" /\ pc'[f] = "missing" /\ UNCHANGED <<want[f], asked[f], rest[f]>>
         /\ RecvContent(f) => pc[f] = "body" /\ pc'[f] = "open" /\ UNCHANGED <<want[f], asked[f]>>
         /\ OpenFile(f) => pc[f] = "open" /\ pc'[f] = "write" /\ UNCHANGED <<want[f], asked[f], rest[f]>>
         /\ OpenFails(f) => pc[f] = "open" /\ pc'[f] = "closing" /\ UNCHANGED <<want[f], asked[f], rest[f]>>
         /\ (\E i \in Lens : WriteBlock(f, i)) =>
              pc[f] = "write" /\ pc'[f] = "write" /\ UNCHANGED <<want[f], asked[f]>>
         /\ CloseFile(f) =>
              pc[f] = "write" /\ pc'[f] = "closing" /\ UNCHANGED <<want[f], asked[f], rest[f]>>
         /\ Disconnect(f) =>
              pc[f] = "closing" /\ pc'[f] = "notify" /\ UNCHANGED <<want[f], asked[f], rest[f]>>
         /\ Notify(f) => pc[f] = "notify" /\ pc'[f] = "done" /\ UNCHANGED <<want[f], asked[f], rest[f]>>
<1> USE DEF Goto, TypeInv, LabelType
<1>1. (\E k \in Numbers : Get(f, k)) => pc[f] = "todo" /\ pc'[f] \in {"none", "named"}
  BY Gets
<1>2. /\ Connect(f) => pc[f] = "named" /\ pc'[f] = "size" /\ UNCHANGED <<want[f], asked[f], rest[f]>>
      /\ ConnectUnanswered(f) =>
           pc[f] = "named" /\ pc'[f] = "blocked" /\ UNCHANGED <<want[f], asked[f], rest[f]>>
  BY DEF Connect, ConnectUnanswered, CanConnect
<1>3. /\ RecvSize(f) => pc[f] = "size" /\ pc'[f] = "body" /\ UNCHANGED <<want[f], asked[f], rest[f]>>
      /\ RecvMissing(f) => pc[f] = "body" /\ pc'[f] = "missing" /\ UNCHANGED <<want[f], asked[f], rest[f]>>
      /\ RecvContent(f) => pc[f] = "body" /\ pc'[f] = "open" /\ UNCHANGED <<want[f], asked[f]>>
  BY DEF RecvSize, RecvMissing, RecvContent, Takes
<1>4. /\ OpenFile(f) => pc[f] = "open" /\ pc'[f] = "write" /\ UNCHANGED <<want[f], asked[f], rest[f]>>
      /\ OpenFails(f) => pc[f] = "open" /\ pc'[f] = "closing" /\ UNCHANGED <<want[f], asked[f], rest[f]>>
  BY DEF OpenFile, OpenFails
<1>5. /\ (\E i \in Lens : WriteBlock(f, i)) =>
           pc[f] = "write" /\ pc'[f] = "write" /\ UNCHANGED <<want[f], asked[f]>>
      /\ CloseFile(f) => pc[f] = "write" /\ pc'[f] = "closing" /\ UNCHANGED <<want[f], asked[f], rest[f]>>
  BY DEF WriteBlock, CloseFile
<1>6. /\ Disconnect(f) => pc[f] = "closing" /\ pc'[f] = "notify" /\ UNCHANGED <<want[f], asked[f], rest[f]>>
      /\ Notify(f) => pc[f] = "notify" /\ pc'[f] = "done" /\ UNCHANGED <<want[f], asked[f], rest[f]>>
  BY DEF Disconnect, Notify
<1> QED  BY <1>1, <1>2, <1>3, <1>4, <1>5, <1>6

LEMMA Onward ==
  ASSUME TypeInv, Next, NEW f \in Fetches
  PROVE  \/ pc'[f] = pc[f] /\ UNCHANGED <<want[f], asked[f], rest[f]>>
         \/ pc'[f] = "dead" /\ Active(f) /\ UNCHANGED <<want[f], asked[f], rest[f], disk>>
         \/ \E k \in Numbers : Get(f, k)
         \/ Connect(f) \/ ConnectUnanswered(f) \/ RecvSize(f) \/ RecvMissing(f) \/ RecvContent(f)
         \/ OpenFile(f) \/ OpenFails(f) \/ (\E i \in Lens : WriteBlock(f, i)) \/ CloseFile(f)
         \/ Disconnect(f) \/ Notify(f)
<1>1. LabelType
  BY DEF TypeInv
<1>2. ASSUME NEW g \in Fetches, FetchActs(g) \/ HandlerActs(g), g # f
      PROVE  pc'[f] = pc[f] /\ UNCHANGED <<want[f], asked[f], rest[f]>>
  BY <1>1, <1>2, FetchAside, HandlerAside DEF Aside
<1>3. ASSUME HandlerActs(f)
      PROVE  pc'[f] = pc[f] /\ UNCHANGED <<want[f], asked[f], rest[f]>>
  BY <1>3, FetchStays DEF fetch
<1>4. ASSUME Send(f) \/ SendLost(f)
      PROVE  pc'[f] = pc[f] /\ UNCHANGED <<want[f], asked[f], rest[f]>>
  BY <1>4 DEF Send, SendLost
<1>5. ASSUME NEW n \in Nodes, Departs(n)
      PROVE  \/ pc'[f] = pc[f] /\ UNCHANGED <<want[f], asked[f], rest[f]>>
             \/ pc'[f] = "dead" /\ Active(f) /\ UNCHANGED <<want[f], asked[f], rest[f], disk>>
  BY <1>5 DEF Departs, Ends, Leaves, Active
<1>6. ASSUME NEW n \in Nodes, Forget(n) \/ Restart(n)
      PROVE  pc'[f] = pc[f] /\ UNCHANGED <<want[f], asked[f], rest[f]>>
  BY <1>6 DEF Forget, Restart, fetch
<1> QED  BY <1>2, <1>3, <1>4, <1>5, <1>6, Steps DEF FetchActs

\* Only the get itself changes the directory it writes into.
LEMMA OwnDirectory ==
  ASSUME TypeInv, Next, NEW f \in Fetches, Active(f),
         ~OpenFile(f), ~\E i \in Lens : WriteBlock(f, i)
  PROVE  disk'[By[f]] = disk[By[f]]
<1>1. CASE \E g \in Fetches : OpenFile(g) \/ \E i \in Lens : WriteBlock(g, i)
  <2>1. PICK g \in Fetches : OpenFile(g) \/ \E i \in Lens : WriteBlock(g, i)
    BY <1>1
  <2>2. Active(g) /\ g # f
    BY <2>1 DEF OpenFile, WriteBlock, Active, Over
  <2>3. By[g] # By[f] /\ By[f] \in Nodes
    BY <2>2, TransferAssumption DEF TypeInv, PromptInv
  <2>4. \E k, c : Changes(By[g], k, c)
    BY <2>1, Opens, Writes
  <2> QED  BY <2>3, <2>4 DEF Changes
<1>2. CASE ~\E g \in Fetches : OpenFile(g) \/ \E i \in Lens : WriteBlock(g, i)
  BY <1>2, DiskStays
<1> QED  BY <1>1, <1>2

(***************************************************************************)
(* What is stored is a beginning of a file                                 *)
(***************************************************************************)

Starts(x, k) == \E j \in {k, Short(k)} : \E m \in Owners(j) : IsPrefix(x, Files[m][j])
Beginnings(k) == { x \in Contents : Starts(x, k) }

CopyInv ==
  /\ CopiesArePrefixes
  /\ \A f \in Fetches :
       /\ pc[f] = "open" => rest[f] \in Beginnings(want[f])
       /\ pc[f] = "write" => disk[By[f]][want[f]] \o rest[f] \in Beginnings(want[f])
       /\ pc[f] \in {"size", "body"} =>
            Reply(Beginnings(want[f]), pc[f], hpc[f], up[f], out[f], down[f], hout[f])

LEMMA BeginningsOf ==
  ASSUME NEW k
  PROVE  /\ \A x \in Contents, y \in Beginnings(k) : IsPrefix(x, y) => x \in Beginnings(k)
         /\ k \in Nat => Beginnings(Short(k)) \subseteq Beginnings(k)
<1>1. ASSUME NEW x \in Contents, NEW y \in Beginnings(k), IsPrefix(x, y)
      PROVE  x \in Beginnings(k)
  <2>1. PICK j \in {k, Short(k)} : \E m \in Owners(j) : IsPrefix(y, Files[m][j])
    BY DEF Beginnings, Starts
  <2>2. PICK m \in Owners(j) : IsPrefix(y, Files[m][j])
    BY <2>1
  <2>3. Files[m][j] \in Contents
    BY FilesAreContents DEF Owners
  <2>4. IsPrefix(x, Files[m][j])
    BY <1>1, <2>2, <2>3, PrefixOrder DEF Beginnings, Contents
  <2> QED  BY <2>4 DEF Beginnings, Starts
<1>2. k \in Nat => Short(Short(k)) = Short(k)
  BY ShortTwice
<1>3. k \in Nat => Beginnings(Short(k)) \subseteq Beginnings(k)
  BY <1>2 DEF Beginnings, Starts
<1> QED  BY <1>1, <1>3

LEMMA NumbersNat ==
  /\ Numbers \subseteq Nat \ {0}
  /\ \A n \in Nodes : DOMAIN Files[n] \subseteq Nat \ {0}
BY TransferAssumption DEF Numbers

LEMMA StoredBegins ==
  ASSUME TypeInv, CopiesArePrefixes, NEW n \in Nodes, NEW k \in DOMAIN disk[n]
  PROVE  disk[n][k] \in Beginnings(k)
BY DEF TypeInv, DiskType, CopiesArePrefixes, Beginnings, Starts

\* What a handler reads is one, as long as it is awaited.
LEMMA ReadBegins ==
  ASSUME TypeInv, CopiesArePrefixes, NEW f \in Fetches, hpc[f] = "read", ~Closed(f)
  PROVE  text[f] \in Beginnings(want[f])
<1>1. pc[f] \notin {"todo", "none"}
  BY DEF TypeInv, TalkInv, Talk
<1>2. /\ asked[f] \in Nodes /\ want[f] \in Numbers /\ number[f] = Short(want[f])
      /\ HasFile(f) /\ IsPrefix(text[f], File(f)) /\ text[f] \in Contents
  BY <1>1 DEF TypeInv, PromptInv, HandlerInv, HandlerOk, LabelType
<1>3. File(f) \in Beginnings(Short(want[f]))
  BY <1>2, StoredBegins DEF HasFile, File
<1>4. text[f] \in Beginnings(Short(want[f]))
  BY <1>2, <1>3, BeginningsOf
<1> QED  BY <1>2, <1>4, BeginningsOf, NumbersNat

LEMMA ReplyToNobody ==
  ASSUME NEW C, NEW C2, NEW p \in Silent, NEW h, NEW u, NEW o, NEW d, NEW r,
         Reply(C, p, h, u, o, d, r)
  PROVE  Reply(C2, p, h, u, o, d, r)
BY DEF Reply, Silent, Part, PartSent

LEMMA CopyInit ==
  ASSUME Init
  PROVE  CopyInv
<1>1. ASSUME NEW n \in Nodes, NEW k \in DOMAIN Files[n]
      PROVE  IsPrefix(Files[n][k], Files[n][k])
  BY FilesAreContents, PrefixOrder DEF Contents
<1>2. CopiesArePrefixes
  BY <1>1 DEF Init, CopiesArePrefixes, Owners
<1> QED  BY <1>2 DEF Init, CopyInv

LEMMA CopiesStep ==
  ASSUME TypeInv, CopyInv, Next
  PROVE  CopiesArePrefixes'
<1>1. \A n \in Nodes : \A k \in DOMAIN disk[n] : Starts(disk[n][k], k)
  BY DEF CopyInv, CopiesArePrefixes, Starts
<1>2. ASSUME NEW n \in Nodes, NEW k, NEW c \in Beginnings(k), Changes(n, k, c)
      PROVE  \A m \in Nodes : \A j \in DOMAIN disk'[m] : Starts(disk'[m][j], j)
  <2> SUFFICES ASSUME NEW m \in Nodes, NEW j \in DOMAIN disk'[m]
               PROVE  Starts(disk'[m][j], j)
    OBVIOUS
  <2>1. \/ m = n /\ j = k /\ disk'[m][j] = c
        \/ j \in DOMAIN disk[m] /\ disk'[m][j] = disk[m][j]
    BY <1>2 DEF Changes
  <2> QED  BY <1>1, <2>1 DEF Beginnings
<1>3. ASSUME NEW f \in Fetches, OpenFile(f)
      PROVE  \A m \in Nodes : \A j \in DOMAIN disk'[m] : Starts(disk'[m][j], j)
  <2>1. Changes(By[f], want[f], <<>>) /\ By[f] \in Nodes /\ <<>> \in Contents
    BY <1>3, Opens, TransferAssumption
  <2>2. rest[f] \in Beginnings(want[f])
    BY <1>3 DEF CopyInv, OpenFile
  <2>3. IsPrefix(<<>>, rest[f])
    BY <2>2, EmptyPrefix DEF Beginnings, Contents
  <2>4. <<>> \in Beginnings(want[f])
    BY <2>1, <2>2, <2>3, BeginningsOf
  <2> QED  BY <1>2, <2>1, <2>4
<1>4. ASSUME NEW f \in Fetches, NEW i \in Lens, WriteBlock(f, i)
      PROVE  \A m \in Nodes : \A j \in DOMAIN disk'[m] : Starts(disk'[m][j], j)
  <2> DEFINE c == disk[By[f]][want[f]] \o SubSeq(rest[f], 1, i)
  <2>1. /\ By[f] \in Nodes /\ Changes(By[f], want[f], c) /\ c \in Contents /\ rest'[f] \in Contents
        /\ c \o rest'[f] = disk[By[f]][want[f]] \o rest[f]
    BY <1>4, Writes, TransferAssumption
  <2>2. c \o rest'[f] \in Beginnings(want[f])
    BY <1>4, <2>1 DEF CopyInv, WriteBlock
  <2> HIDE DEF c
  <2>3. IsPrefix(c, c \o rest'[f])
    BY <2>1, ConcatPrefix DEF Contents
  <2>4. c \in Beginnings(want[f])
    BY <2>1, <2>2, <2>3, BeginningsOf
  <2> QED  BY <1>2, <2>1, <2>4
<1>5. CASE disk' = disk
  BY <1>1, <1>5 DEF CopiesArePrefixes, Starts
<1> QED  BY <1>3, <1>4, <1>5, DiskStays DEF CopiesArePrefixes, Starts

LEMMA CopyNext ==
  ASSUME TypeInv, CopyInv, [Next]_vars
  PROVE  CopyInv'
<1>1. CASE Next
  <2>1. ASSUME NEW f \in Fetches, pc'[f] = "open"
        PROVE  rest'[f] \in Beginnings(want'[f])
    <3>1. CASE RecvContent(f)
      <4>1. pc[f] = "body" /\ want'[f] = want[f] /\ down[f] # <<>> /\ Head(down[f]).val # 404
        BY <3>1 DEF RecvContent, Takes
      <4>2. Reply(Beginnings(want[f]), pc[f], hpc[f], up[f], out[f], down[f], hout[f])
        BY <4>1 DEF CopyInv
      <4>3. PICK c \in Beginnings(want[f]) : Head(down[f]) = Body(200, c)
        BY <4>1, <4>2, ReplyTaken
      <4>4. rest'[f] = Decoded(c) /\ rest'[f] \in Contents
        <5>1. PICK b \in Contents : Head(down[f]) = Body(200, b) /\ rest'[f] = Decoded(b)
          BY <3>1, Received
        <5>2. Body(200, b).body = b /\ Body(200, c).body = c
          BY DEF Body
        <5> QED  BY <3>1, <4>3, <5>1, <5>2, Received
      <4>5. IsPrefix(Decoded(c), c)
        BY BeforeIsPrefix DEF Decoded, Beginnings, Contents
      <4> QED  BY <4>1, <4>3, <4>4, <4>5, BeginningsOf
    <3>2. CASE ~RecvContent(f)
      <4>1. pc[f] = "open" /\ UNCHANGED <<want[f], rest[f]>>
        BY <1>1, <2>1, <3>2, Onward, Labels
      <4> QED  BY <4>1 DEF CopyInv
    <3> QED  BY <3>1, <3>2
  <2>2. ASSUME NEW f \in Fetches, pc'[f] = "write"
        PROVE  disk'[By[f]][want'[f]] \o rest'[f] \in Beginnings(want'[f])
    <3>1. CASE OpenFile(f)
      <4>1. /\ rest[f] \in Beginnings(want[f]) /\ want'[f] = want[f] /\ rest'[f] = rest[f]
            /\ disk'[By[f]][want[f]] = <<>>
        BY <3>1, Opens DEF CopyInv, OpenFile, Changes
      <4>2. <<>> \o rest[f] = rest[f]
        BY <4>1, ConcatEmptySeq DEF Beginnings, Contents
      <4> QED  BY <4>1, <4>2
    <3>2. ASSUME NEW i \in Lens, WriteBlock(f, i)
          PROVE  disk'[By[f]][want'[f]] \o rest'[f] \in Beginnings(want'[f])
      <4>1. /\ pc[f] = "write" /\ want'[f] = want[f]
            /\ disk'[By[f]][want[f]] \o rest'[f] = disk[By[f]][want[f]] \o rest[f]
        BY <3>2, Writes DEF WriteBlock, Changes
      <4> QED  BY <4>1 DEF CopyInv
    <3>3. CASE ~OpenFile(f) /\ ~\E i \in Lens : WriteBlock(f, i)
      <4>1. pc[f] = "write" /\ UNCHANGED <<want[f], rest[f]>>
        BY <1>1, <2>2, <3>3, Onward, Labels
      <4>2. disk'[By[f]] = disk[By[f]]
        BY <1>1, <3>3, <4>1, OwnDirectory DEF Active, Over
      <4> QED  BY <4>1, <4>2 DEF CopyInv
    <3> QED  BY <3>1, <3>2, <3>3
  <2>3. ASSUME NEW f \in Fetches, pc'[f] \in {"size", "body"}
        PROVE  Reply(Beginnings(want'[f]), pc'[f], hpc'[f], up'[f], out'[f], down'[f], hout'[f])
    <3>1. pc[f] \in {"named", "size", "body"} /\ want'[f] = want[f]
      BY <1>1, <2>3, Onward, Labels
    <3>2. Reply(Beginnings(want[f]), pc[f], hpc[f], up[f], out[f], down[f], hout[f])
      <4>1. Reply(Contents, pc[f], hpc[f], up[f], out[f], down[f], hout[f])
        BY DEF TypeInv, ReplyInv
      <4> QED  BY <3>1, <4>1, ReplyToNobody DEF CopyInv, Silent
    <3>3. ReadEnd(f) => text[f] \in Beginnings(want[f])
      BY <3>1, ReadBegins DEF ReadEnd, CopyInv, Closed
    <3> QED  BY <1>1, <3>1, <3>2, <3>3, ReplyKept
  <2>4. CopiesArePrefixes'
    BY <1>1, CopiesStep
  <2>5. \A k : Beginnings(k)' = Beginnings(k)
    BY DEF Beginnings, Starts, Contents
  <2> QED  BY <2>1, <2>2, <2>3, <2>4, <2>5 DEF CopyInv
<1>2. CASE UNCHANGED vars
  BY <1>2 DEF vars, nodes, lives, index, fetch, handler, CopyInv, CopiesArePrefixes, Beginnings,
     Starts, Contents
<1> QED  BY <1>1, <1>2

\* Whatever happens on the way, a stored file holds a beginning of one that some
\* client had under that number (as the short that GetRFCMessage carries): what
\* get_content reads while others write, GetRFCResponse cuts and add_rfc stores in
\* blocks is never mixed with another content, repeated or continued by it.
THEOREM CopiesAreBeginnings == Spec => []CopiesArePrefixes
<1>1. Init => TypeInv /\ CopyInv
  BY TypeInit, CopyInit
<1>2. (TypeInv /\ CopyInv) /\ [Next]_vars => (TypeInv /\ CopyInv)'
  BY TypeNext, CopyNext
<1>3. TypeInv /\ CopyInv => CopiesArePrefixes
  BY DEF CopyInv
<1> QED  BY <1>1, <1>2, <1>3, PTL DEF Spec

(***************************************************************************)
(* Whom the index names has the whole file                                 *)
(***************************************************************************)

Wholes(k) == { Files[m][k] : m \in Owners(k) }
HasWhole(n, k) == k \in DOMAIN disk[n] /\ disk[n][k] \in Wholes(k)

\* The number k, from one directory through a get into the next: only what is
\* complete is named, asked for, answered, received and announced.
HoldInv(k) ==
  /\ \A n \in listed[k] : HasWhole(n, k)
  /\ \A n \in Nodes : k \in DOMAIN disk[n] =>
       HasWhole(n, k) \/ \E f \in Fetches : By[f] = n /\ want[f] = k /\ pc[f] = "write"
  /\ \A f \in Fetches : want[f] = k =>
       /\ pc[f] \in {"named", "blocked", "size"} => HasWhole(asked[f], k)
       /\ pc[f] \in {"size", "body"} =>
            Reply(Wholes(k), pc[f], hpc[f], up[f], out[f], down[f], hout[f])
       /\ pc[f] = "open" => rest[f] \in Wholes(k)
       /\ pc[f] = "write" => disk[By[f]][k] \o rest[f] \in Wholes(k)
       /\ pc[f] \in {"closing", "notify"} => HasWhole(By[f], k)

LEMMA WholesOf ==
  ASSUME NEW k, Sound(k)
  PROVE  /\ Wholes(k) \subseteq Contents
         /\ \A x, y \in Wholes(k) : x = y
         /\ \A x \in Wholes(k) : x # <<>> /\ \A i \in DOMAIN x : x[i] \notin {"ff", "nul"}
<1>1. Wholes(k) \subseteq Contents
  BY FilesAreContents DEF Wholes, Owners
<1>2. \A x, y \in Wholes(k) : x = y
  BY DEF Sound, Wholes
<1>3. ASSUME NEW x \in Wholes(k)
      PROVE  x # <<>> /\ \A i \in DOMAIN x : x[i] \notin {"ff", "nul"}
  <2>1. x # <<>> /\ ToSet(x) \cap {"ff", "nul"} = {}
    BY DEF Sound, Wholes, Readable
  <2> QED  BY <2>1 DEF ToSet
<1> QED  BY <1>1, <1>2, <1>3

\* A content and its own continuation
LEMMA NothingFollows ==
  ASSUME NEW S, NEW s \in Seq(S), NEW t \in Seq(S), s \o t = s
  PROVE  t = <<>>
<1>1. Len(s) \in Nat /\ Len(t) \in Nat /\ Len(s \o t) = Len(s) + Len(t)
  BY LenNat, ConcatProperties
<1>2. Len(t) = 0
  BY <1>1
<1> QED  BY <1>2, EmptySeq

LEMMA NothingUnread ==
  ASSUME NEW S, NEW s \in Seq(S), NEW t \in Seq(S), IsPrefix(s, t),
         SubSeq(t, Len(s) + 1, Len(t)) = <<>>
  PROVE  s = t
<1>1. Len(s) \in Nat /\ Len(t) \in Nat
  BY LenNat
<1>2. Len(s) <= Len(t)
  BY PrefixMeans
<1>3. Len(SubSeq(t, Len(s) + 1, Len(t))) =
        IF Len(s) + 1 <= Len(t) THEN Len(t) - (Len(s) + 1) + 1 ELSE 0
  BY <1>1, PartOf
<1>4. Len(SubSeq(t, Len(s) + 1, Len(t))) = 0
  <2> DEFINE q == SubSeq(t, Len(s) + 1, Len(t))
  <2>1. q = <<>>
    OBVIOUS
  <2> HIDE DEF q
  <2>2. Len(q) = 0
    BY <2>1
  <2> QED  BY <2>2 DEF q
<1>5. Len(s) = Len(t)
  BY <1>1, <1>2, <1>3, <1>4
<1> QED  BY <1>5, PrefixOrder

\* A whole file has been written to the end.
LEMMA WholeIsWritten ==
  ASSUME TypeInv, NEW k, Sound(k), HoldInv(k), NEW f \in Fetches, want[f] = k, pc[f] = "write"
  PROVE  HasWhole(By[f], k) <=> rest[f] = <<>>
<1>1. /\ k \in DOMAIN disk[By[f]] /\ rest[f] \in Contents /\ By[f] \in Nodes
      /\ disk[By[f]][k] \o rest[f] \in Wholes(k)
  BY TransferAssumption DEF TypeInv, PromptInv, LabelType, HoldInv
<1>2. disk[By[f]][k] \in Contents
  BY <1>1 DEF TypeInv, DiskType
<1>3. ASSUME HasWhole(By[f], k)
      PROVE  rest[f] = <<>>
  <2>1. disk[By[f]][k] \o rest[f] = disk[By[f]][k]
    <3>1. \A x, y \in Wholes(k) : x = y
      BY WholesOf
    <3>2. disk[By[f]][k] \in Wholes(k)
      BY <1>3 DEF HasWhole
    <3> QED  BY <1>1, <3>1, <3>2
  <2> QED  BY <1>1, <1>2, <2>1, NothingFollows DEF Contents
<1>4. ASSUME rest[f] = <<>>
      PROVE  HasWhole(By[f], k)
  <2>1. disk[By[f]][k] \o <<>> = disk[By[f]][k]
    BY <1>2, ConcatEmptySeq DEF Contents
  <2> QED  BY <1>1, <1>4, <2>1 DEF HasWhole
<1> QED  BY <1>3, <1>4

LEMMA WholeStays ==
  ASSUME TypeInv, Next, NEW k, Sound(k), HoldInv(k), NEW n \in Nodes, HasWhole(n, k)
  PROVE  HasWhole(n, k)'
<1>1. ASSUME NEW f \in Fetches, OpenFile(f)
      PROVE  HasWhole(n, k)'
  BY <1>1, Opens DEF Changes, HasWhole, Wholes, Owners
<1>2. ASSUME NEW f \in Fetches, NEW i \in Lens, WriteBlock(f, i)
      PROVE  HasWhole(n, k)'
  <2>1. ~(By[f] = n /\ want[f] = k)
    <3> SUFFICES ASSUME By[f] = n, want[f] = k
                 PROVE  FALSE
      OBVIOUS
    <3>1. pc[f] = "write" /\ i \in 1..Len(rest[f])
      BY <1>2 DEF WriteBlock
    <3>2. rest[f] = <<>>
      BY <3>1, WholeIsWritten
    <3> QED  BY <3>1, <3>2
  <2>2. \E c : Changes(By[f], want[f], c)
    BY <1>2, Writes
  <2> QED  BY <2>1, <2>2 DEF Changes, HasWhole, Wholes, Owners
<1>3. CASE disk' = disk
  BY <1>3 DEF HasWhole, Wholes, Owners
<1> QED  BY <1>1, <1>2, <1>3, DiskStays

\* get_content returns all of it.
LEMMA ReadsWhole ==
  ASSUME TypeInv, NEW k \in Numbers, Sound(k), HoldInv(k), NEW f \in Fetches,
         want[f] = k, pc[f] \in {"size", "body"}, ReadEnd(f)
  PROVE  text[f] \in Wholes(k)
<1>1. hpc[f] = "read" /\ Unread(f) = <<>>
  BY DEF ReadEnd
<1>2. pc[f] = "size"
  BY <1>1 DEF TypeInv, TalkInv, Talk
<1>3. /\ number[f] = k /\ HasFile(f) /\ IsPrefix(text[f], File(f)) /\ text[f] \in Contents
  BY <1>1, <1>2 DEF TypeInv, HandlerInv, HandlerOk, Closed, Sound, LabelType
<1>4. File(f) \in Wholes(k)
  BY <1>2, <1>3 DEF HoldInv, HasWhole, File
<1> DEFINE S == UNION { ToSet(content) : content \in Originals }
<1> DEFINE a == text[f]
<1> DEFINE b == File(f)
<1> DEFINE tail == SubSeq(b, Len(a) + 1, Len(b))
<1>5. a \in Seq(S) /\ b \in Seq(S) /\ IsPrefix(a, b) /\ Before(tail, "ff") = <<>>
  BY <1>1, <1>3, <1>4, WholesOf DEF Contents, Unread
<1>6. \A i \in DOMAIN b : b[i] # "ff"
  BY <1>4, WholesOf
<1> HIDE DEF S, a, b
<1>7. Len(a) \in Nat /\ Len(b) \in Nat /\ Len(a) <= Len(b) /\ DOMAIN b = 1..Len(b)
  BY <1>5, LenNat, LenProperties, PrefixMeans
<1>8. /\ tail \in Seq(S) /\ Len(tail) = Len(b) - Len(a)
      /\ \A j \in 1..Len(tail) : tail[j] = b[Len(a) + j]
  <2>1. /\ tail \in Seq(S)
        /\ Len(tail) = IF Len(a) + 1 <= Len(b) THEN Len(b) - (Len(a) + 1) + 1 ELSE 0
        /\ \A j \in 1..(Len(b) - (Len(a) + 1) + 1) : tail[j] = b[Len(a) + 1 + j - 1]
    BY <1>5, <1>7, PartOf
  <2> QED  BY <1>7, <2>1
<1>9. \A j \in DOMAIN tail : tail[j] # "ff"
  <2>1. DOMAIN tail = 1..Len(tail)
    BY <1>8, LenProperties
  <2>2. \A j \in 1..Len(tail) : Len(a) + j \in 1..Len(b)
    BY <1>7, <1>8
  <2> QED  BY <1>6, <1>7, <1>8, <2>1, <2>2
<1>10. tail = <<>>
  <2> HIDE DEF tail
  <2>1. Before(tail, "ff") = tail
    BY <1>8, <1>9, BeforeIsPrefix
  <2> QED  BY <1>5, <2>1
<1>11. a = b
  BY <1>5, <1>10, NothingUnread
<1> QED  BY <1>4, <1>11 DEF a, b

LEMMA NotStoredStays ==
  ASSUME TypeInv, Next, NEW k, NotStored(k)
  PROVE  NotStored(k)'
<1>1. PICK f \in Fetches :
        want[f] = k /\ rest[f] # <<>> /\ pc[f] \in {"closing", "notify", "done", "dead"}
  BY DEF NotStored
<1>2. /\ UNCHANGED <<want[f], rest[f]>>
      /\ pc'[f] \in {"closing", "notify", "done", "dead"}
  BY <1>1, Onward, Labels
<1> QED  BY <1>1, <1>2 DEF NotStored

\* Whom the index begins to name.
LEMMA Listing ==
  ASSUME TypeInv, Next, NEW k \in Numbers, NEW n \in listed'[k]
  PROVE  \/ n \in listed[k]
         \/ \E f \in Fetches : Notify(f) /\ want[f] = k /\ By[f] = n
         \/ n \in Nodes /\ Restart(n) /\ k \in Announces(n)
<1>1. listed \in [Numbers -> SUBSET Nodes]
  BY DEF TypeInv, ProcessType
<1>2. ASSUME NEW f \in Fetches, FetchActs(f)
      PROVE  \/ n \in listed[k]
             \/ Notify(f) /\ want[f] = k /\ By[f] = n
  <2>1. CASE Notify(f)
    <3>1. listed' = [listed EXCEPT ![want[f]] = @ \cup ({By[f]} \cap known)]
      BY <2>1 DEF Notify
    <3>2. n \notin listed[k] => want[f] = k /\ n \in {By[f]}
      BY <1>1, <3>1
    <3> QED  BY <2>1, <3>2
  <2>2. CASE ~Notify(f)
    <3>1. listed' = listed
      BY <1>2, <2>2 DEF FetchActs, Get, Connect, ConnectUnanswered, Send, SendLost, RecvSize,
       RecvMissing, RecvContent, OpenFile, OpenFails, WriteBlock, CloseFile, Disconnect, index
    <3> QED  BY <3>1
  <2> QED  BY <2>1, <2>2
<1>3. ASSUME NEW f \in Fetches, HandlerActs(f)
      PROVE  n \in listed[k]
  BY <1>3, FetchStays DEF index
<1>4. ASSUME NEW m \in Nodes, Departs(m) \/ Forget(m)
      PROVE  n \in listed[k]
  BY <1>1, <1>4 DEF Departs, Ends, Leaves, Forget, index
<1>5. ASSUME NEW m \in Nodes, Restart(m)
      PROVE  \/ n \in listed[k]
             \/ n = m /\ k \in Announces(n)
  <2>1. listed'[k] = listed[k] \cup { j \in {m} : k \in Announces(m) }
    BY <1>5 DEF Restart
  <2> QED  BY <2>1
<1> QED  BY <1>2, <1>3, <1>4, <1>5, Steps

LEMMA HoldInit ==
  ASSUME Init, NEW k \in Numbers, Sound(k)
  PROVE  HoldInv(k)
<1>1. \A n \in Nodes : k \in DOMAIN disk[n] => HasWhole(n, k)
  BY DEF Init, HasWhole, Wholes, Owners
<1>2. \A n \in listed[k] : n \in Nodes /\ k \in DOMAIN disk[n]
  BY DEF Init, Sound, Owners, StoredAt
<1>3. k # None
  BY NumbersNat, TransferAssumption
<1> QED  BY <1>1, <1>2, <1>3 DEF Init, HoldInv

LEMMA HoldStep ==
  ASSUME TypeInv, Next, NEW k \in Numbers, Sound(k), HoldInv(k), ~NotStored(k)'
  PROVE  HoldInv(k)'
<1>1. /\ listed \in [Numbers -> SUBSET Nodes]
      /\ \A f \in Fetches : By[f] \in Nodes
      /\ \A f \in Fetches : pc[f] \notin {"todo", "none"} => asked[f] \in Nodes
  BY TransferAssumption DEF TypeInv, ProcessType, PromptInv
<1>2. \A n \in Nodes : HasWhole(n, k) => HasWhole(n, k)'
  BY WholeStays
<1>3. ASSUME NEW n \in listed'[k]
      PROVE  HasWhole(n, k)'
  <2>1. CASE n \in listed[k]
    BY <1>1, <1>2, <2>1 DEF HoldInv
  <2>2. ASSUME NEW f \in Fetches, Notify(f), want[f] = k, By[f] = n
        PROVE  HasWhole(n, k)'
    BY <1>1, <1>2, <2>2 DEF HoldInv, Notify
  <2>3. CASE n \in Nodes /\ Restart(n) /\ k \in Announces(n)
    <3>1. process[n] # "up"
      BY <2>3 DEF Restart
    <3>2. \A f \in Fetches : By[f] = n => pc[f] # "write"
      BY <3>1 DEF TypeInv, PromptInv, Active, Over
    <3>3. k \in DOMAIN disk[n]
      BY <2>3 DEF Announces, StoredAt, Sound
    <3> QED  BY <1>2, <2>3, <3>2, <3>3 DEF HoldInv
  <2> QED  BY <2>1, <2>2, <2>3, Listing
<1>4. ASSUME NEW n \in Nodes, k \in DOMAIN disk'[n]
      PROVE  HasWhole(n, k)' \/ \E f \in Fetches : By[f] = n /\ want'[f] = k /\ pc'[f] = "write"
  <2>1. ASSUME NEW f \in Fetches, OpenFile(f), By[f] = n, want[f] = k
        PROVE  want'[f] = k /\ pc'[f] = "write"
    BY <2>1, Labels
  <2>2. CASE k \in DOMAIN disk[n]
    <3>1. CASE HasWhole(n, k)
      BY <1>2, <3>1
    <3>2. ASSUME NEW f \in Fetches, By[f] = n, want[f] = k, pc[f] = "write"
          PROVE  \/ HasWhole(n, k)'
                 \/ want'[f] = k /\ pc'[f] = "write"
      <4>1. CASE pc'[f] = "write"
        BY <3>2, <4>1, Onward, Labels
      <4>2. CASE pc'[f] # "write"
        <5>1. UNCHANGED <<want[f], rest[f]>> /\ (pc'[f] = "dead" \/ CloseFile(f))
          BY <3>2, <4>2, Onward, Labels
        <5>2. rest[f] = <<>>
          BY <3>2, <5>1 DEF CloseFile, NotStored
        <5>3. HasWhole(n, k)
          BY <3>2, <5>2, WholeIsWritten
        <5> QED  BY <1>2, <5>3
      <4> QED  BY <4>1, <4>2
    <3> QED  BY <2>2, <3>1, <3>2 DEF HoldInv
  <2>3. CASE k \notin DOMAIN disk[n]
    <3>1. CASE \E f \in Fetches : OpenFile(f)
      <4>1. PICK f \in Fetches : OpenFile(f)
        BY <3>1
      <4>2. Changes(By[f], want[f], <<>>)
        BY <4>1, Opens
      <4>3. By[f] = n /\ want[f] = k
        BY <1>4, <2>3, <4>2 DEF Changes
      <4> QED  BY <2>1, <4>1, <4>3
    <3>2. ASSUME NEW f \in Fetches, NEW i \in Lens, WriteBlock(f, i)
          PROVE  FALSE
      <4>1. want[f] \in DOMAIN disk[By[f]] /\ \E c : Changes(By[f], want[f], c)
        BY <3>2, Writes
      <4> QED  BY <1>4, <2>3, <4>1 DEF Changes
    <3>3. CASE disk' = disk
      BY <1>4, <2>3, <3>3
    <3> QED  BY <3>1, <3>2, <3>3, DiskStays
  <2> QED  BY <2>2, <2>3
<1>5. ASSUME NEW f \in Fetches, want'[f] = k, pc'[f] \in {"named", "blocked", "size"}
      PROVE  HasWhole(asked[f], k)'
  <2>1. ASSUME NEW j \in Numbers, Get(f, j)
        PROVE  HasWhole(asked[f], k)'
    <3>1. /\ want'[f] = j /\ disk' = disk
          /\ pc'[f] # "none" => asked'[f] \in listed[j]
      BY <2>1, Gets DEF Get
    <3>2. HasWhole(asked'[f], k)
      BY <1>5, <3>1 DEF HoldInv
    <3> QED  BY <3>1, <3>2 DEF HasWhole, Wholes, Owners
  <2>2. CASE ~\E j \in Numbers : Get(f, j)
    <3>1. pc[f] \in {"named", "blocked", "size"} /\ UNCHANGED <<want[f], asked[f]>>
      BY <1>5, <2>2, Onward, Labels
    <3>2. asked[f] \in Nodes /\ HasWhole(asked[f], k)
      BY <1>1, <1>5, <3>1 DEF HoldInv
    <3> QED  BY <1>2, <3>1, <3>2 DEF HasWhole
  <2> QED  BY <2>1, <2>2
<1>6. ASSUME NEW f \in Fetches, want'[f] = k, pc'[f] \in {"size", "body"}
      PROVE  Reply(Wholes(k), pc'[f], hpc'[f], up'[f], out'[f], down'[f], hout'[f])
  <2>1. pc[f] \in {"named", "size", "body"} /\ want[f] = k
    BY <1>6, Onward, Labels
  <2>2. Reply(Wholes(k), pc[f], hpc[f], up[f], out[f], down[f], hout[f])
    <3>1. Reply(Contents, pc[f], hpc[f], up[f], out[f], down[f], hout[f])
      BY DEF TypeInv, ReplyInv
    <3> QED  BY <2>1, <3>1, ReplyToNobody DEF HoldInv, Silent
  <2>3. ReadEnd(f) => text[f] \in Wholes(k)
    <3>1. ReadEnd(f) => pc[f] # "named"
      BY DEF ReadEnd, TypeInv, TalkInv, Talk
    <3> QED  BY <2>1, <3>1, ReadsWhole
  <2> QED  BY <2>2, <2>3, ReplyKept
<1>7. ASSUME NEW f \in Fetches, want'[f] = k, pc'[f] = "open"
      PROVE  rest'[f] \in Wholes(k)
  <2>1. CASE RecvContent(f)
    <3>1. pc[f] = "body" /\ want[f] = k /\ down[f] # <<>> /\ Head(down[f]).val # 404
      BY <1>7, <2>1, Labels DEF RecvContent, Takes
    <3>2. Reply(Wholes(k), pc[f], hpc[f], up[f], out[f], down[f], hout[f])
      BY <3>1 DEF HoldInv
    <3>3. PICK c \in Wholes(k) : Head(down[f]) = Body(200, c)
      BY <3>1, <3>2, ReplyTaken
    <3>4. PICK b \in Contents : Head(down[f]) = Body(200, b) /\ rest'[f] = Decoded(b)
      BY <2>1, Received
    <3>5. Body(200, b).body = b /\ Body(200, c).body = c
      BY DEF Body
    <3>6. c = b
      BY <3>3, <3>4, <3>5
    <3>7. \A i \in DOMAIN c : c[i] # "nul"
      BY WholesOf
    <3>8. Decoded(b) = b
      BY <3>6, <3>7, BeforeIsPrefix DEF Decoded, Contents
    <3> QED  BY <3>4, <3>6, <3>8
  <2>2. CASE ~RecvContent(f)
    BY <1>7, <2>2, Onward, Labels DEF HoldInv
  <2> QED  BY <2>1, <2>2
<1>8. ASSUME NEW f \in Fetches, want'[f] = k, pc'[f] = "write"
      PROVE  disk'[By[f]][k] \o rest'[f] \in Wholes(k)
  <2>1. CASE OpenFile(f)
    <3>1. want[f] = k /\ pc[f] = "open" /\ rest'[f] = rest[f] /\ disk'[By[f]][k] = <<>>
      BY <1>8, <2>1, Opens, Labels DEF Changes
    <3>2. rest[f] \in Wholes(k) /\ rest[f] \in Contents
      BY <3>1, WholesOf DEF HoldInv
    <3>3. <<>> \o rest[f] = rest[f]
      BY <3>2, ConcatEmptySeq DEF Contents
    <3> QED  BY <3>1, <3>2, <3>3
  <2>2. ASSUME NEW i \in Lens, WriteBlock(f, i)
        PROVE  disk'[By[f]][k] \o rest'[f] \in Wholes(k)
    <3>1. /\ pc[f] = "write" /\ want[f] = k
          /\ disk'[By[f]][want[f]] \o rest'[f] = disk[By[f]][want[f]] \o rest[f]
      BY <1>8, <2>2, Writes DEF WriteBlock, Changes
    <3> QED  BY <3>1 DEF HoldInv
  <2>3. CASE ~OpenFile(f) /\ ~\E i \in Lens : WriteBlock(f, i)
    <3>1. pc[f] = "write" /\ want[f] = k /\ rest'[f] = rest[f]
      BY <1>8, <2>3, Onward, Labels
    <3>2. disk'[By[f]] = disk[By[f]]
      BY <2>3, <3>1, OwnDirectory DEF Active, Over
    <3> QED  BY <3>1, <3>2 DEF HoldInv
  <2> QED  BY <2>1, <2>2, <2>3
<1>9. ASSUME NEW f \in Fetches, want'[f] = k, pc'[f] \in {"closing", "notify"}
      PROVE  HasWhole(By[f], k)'
  <2>1. want[f] = k /\ rest'[f] = rest[f]
    BY <1>9, Onward, Labels
  <2>2. CASE OpenFails(f)
    <3>1. pc[f] = "open" /\ pc'[f] = "closing"
      BY <2>2, Labels
    <3>2. rest[f] # <<>>
      BY <2>1, <3>1, WholesOf DEF HoldInv
    <3> QED  BY <1>9, <2>1, <3>1, <3>2 DEF NotStored
  <2>3. CASE CloseFile(f)
    <3>1. pc[f] = "write" /\ rest[f] = <<>>
      BY <2>3 DEF CloseFile
    <3> QED  BY <1>1, <1>2, <2>1, <3>1, WholeIsWritten
  <2>4. CASE ~OpenFails(f) /\ ~CloseFile(f)
    <3>1. pc[f] \in {"closing", "notify"}
      BY <1>9, <2>4, Onward, Labels
    <3> QED  BY <1>1, <1>2, <2>1, <3>1 DEF HoldInv
  <2> QED  BY <2>2, <2>3, <2>4
<1>10. Wholes(k)' = Wholes(k)
  BY DEF Wholes, Owners
<1> QED  BY <1>3, <1>4, <1>5, <1>6, <1>7, <1>8, <1>9, <1>10 DEF HoldInv

HoldersInv == \A k \in Numbers : Sound(k) /\ ~NotStored(k) => HoldInv(k)

LEMMA HoldNext ==
  ASSUME TypeInv, HoldersInv, [Next]_vars
  PROVE  HoldersInv'
<1>1. CASE Next
  <2> SUFFICES ASSUME NEW k \in Numbers, Sound(k), ~NotStored(k)'
               PROVE  HoldInv(k)'
    BY DEF HoldersInv, Sound, Owners
  <2>1. HoldInv(k)
    BY <1>1, NotStoredStays DEF HoldersInv
  <2> QED  BY <1>1, <2>1, HoldStep
<1>2. CASE UNCHANGED vars
  <2> SUFFICES ASSUME NEW k \in Numbers, Sound(k), ~NotStored(k)'
               PROVE  HoldInv(k)'
    BY DEF HoldersInv, Sound, Owners
  <2>1. UNCHANGED <<disk, listed, pc, want, asked, rest, up, out, down, hpc, hout>>
    BY <1>2 DEF vars, index, fetch, handler
  <2>2. HoldInv(k)
    BY <2>1 DEF HoldersInv, NotStored
  <2>3. \A n : HasWhole(n, k)' <=> HasWhole(n, k)
    BY <2>1 DEF HasWhole, Wholes, Owners
  <2>4. Wholes(k)' = Wholes(k)
    BY DEF Wholes, Owners
  <2> QED  BY <2>1, <2>2, <2>3, <2>4 DEF HoldInv
<1> QED  BY <1>1, <1>2

\* Whom the index names for a sound number has the whole file, in whatever run and
\* through however many hands it came there: get_rfc tells the index of a file that
\* add_rfc has closed, the number of one that is being written is announced by no
\* client, and so get_content reads to the end what nobody writes any more.
THEOREM HoldersHaveAll == Spec => []HoldersHaveIt
<1>1. Init => TypeInv /\ HoldersInv
  BY TypeInit, HoldInit DEF HoldersInv
<1>2. (TypeInv /\ HoldersInv) /\ [Next]_vars => (TypeInv /\ HoldersInv)'
  BY TypeNext, HoldNext
<1>3. TypeInv /\ HoldersInv => HoldersHaveIt
  <2>1. ASSUME NEW n, NEW k, HasWhole(n, k)
        PROVE  \E m \in Owners(k) : k \in DOMAIN disk[n] /\ disk[n][k] = Files[m][k]
    BY <2>1 DEF HasWhole, Wholes
  <2> QED  BY <2>1 DEF HoldersInv, HoldInv, HoldersHaveIt
<1> QED  BY <1>1, <1>2, <1>3, PTL DEF Spec

(***************************************************************************)
(* Sound gets end nobody                                                   *)
(***************************************************************************)

\* The condition of SoundFetchesEndNobody
Careful ==
  /\ \A f \in Fetches : want[f] # None =>
       Sound(want[f]) /\ Roomy(By[f]) /\ (asked[f] # None => Roomy(asked[f]))
  /\ \A n \in Nodes : process[n] # "quit" /\ n \notin again

\* The handler of f has opened the file.
HasOpened(f) ==
  \/ hpc[f] \in {"read", "done"}
  \/ hpc[f] = "message" /\ ~(pc[f] = "size" /\ (up[f] # <<>> \/ out[f] # <<>>))

\* What n uses for f: a connection (1), and a file (2), at either end.
Uses(n, f, i) ==
  \/ i = 1 /\ By[f] = n /\ pc[f] \in {"size", "body", "open", "write", "closing"}
  \/ i = 1 /\ asked[f] = n /\ hpc[f] # "off"
  \/ i = 2 /\ By[f] = n /\ pc[f] = "write"
  \/ i = 2 /\ asked[f] = n /\ HasOpened(f)
InUse(n) == { x \in Fetches \X {1, 2} : Uses(n, x[1], x[2]) }

\* A connection that can be relied on.
Smooth(f) ==
  /\ pc[f] \notin {"blocked", "missing", "dead"} /\ hpc[f] # "gone"
  /\ rest[f] # <<>> => pc[f] \in {"open", "write"}
  /\ asked[f] # None => asked[f] # By[f]
  /\ \A x \in ToSet(hout[f]) \cup ToSet(down[f]) : x # Null /\ x.val # 404

\* Then nobody is in the way of anybody.
Ready(n) ==
  Roomy(n) => process[n] = "up" /\ door[n] = "open" /\ fds[n] <= Cardinality(InUse(n))
CarefulInv == Careful => (\A n \in Nodes : Ready(n)) /\ \A f \in Fetches : Smooth(f)

LEMMA InUseFinite ==
  ASSUME IsFiniteSet(Fetches)
  PROVE  /\ IsFiniteSet(Fetches \X {1, 2})
         /\ Cardinality(Fetches \X {1, 2}) = 2 * Cardinality(Fetches)
         /\ Cardinality(Fetches) \in Nat
         /\ \A n : IsFiniteSet(InUse(n)) /\ Cardinality(InUse(n)) \in Nat
<1>1. IsFiniteSet({1, 2}) /\ Cardinality({1, 2}) = 2
  <2>1. IsFiniteSet({}) /\ Cardinality({}) = 0
    BY FS_EmptySet
  <2>2. IsFiniteSet({1}) /\ Cardinality({1}) = 1
    BY FS_Singleton
  <2> QED  BY <2>2, FS_AddElement, {1} \cup {2} = {1, 2}
<1>2. Cardinality(Fetches) \in Nat
  BY FS_CardinalityType
<1>3. /\ IsFiniteSet(Fetches \X {1, 2})
      /\ Cardinality(Fetches \X {1, 2}) = Cardinality(Fetches) * Cardinality({1, 2})
  BY <1>1, FS_Product
<1>4. Cardinality(Fetches \X {1, 2}) = 2 * Cardinality(Fetches)
  BY <1>1, <1>2, <1>3
<1>5. ASSUME NEW n
      PROVE  IsFiniteSet(InUse(n)) /\ Cardinality(InUse(n)) \in Nat
  <2>1. InUse(n) \in SUBSET (Fetches \X {1, 2})
    BY DEF InUse
  <2>2. IsFiniteSet(InUse(n))
    BY <1>3, <2>1, FS_Subset
  <2> QED  BY <2>2, FS_CardinalityType
<1> QED  BY <1>2, <1>3, <1>4, <1>5

\* As long as something is not in use there is a descriptor for it.
LEMMA RoomFor ==
  ASSUME IsFiniteSet(Fetches), TypeInv, NEW n \in Nodes, Ready(n), Roomy(n),
         NEW f \in Fetches, NEW i \in {1, 2}, ~Uses(n, f, i)
  PROVE  HasFd(n)
<1> DEFINE S == Fetches \X {1, 2}
           x == <<f, i>>
<1>1. IsFiniteSet(S) /\ Cardinality(S) = 2 * Cardinality(Fetches) /\ Cardinality(Fetches) \in Nat
  BY InUseFinite
<1>2. x \in S /\ x \notin InUse(n)
  BY DEF InUse
<1>3. InUse(n) \in SUBSET (S \ {x})
  BY <1>2 DEF InUse
<1>4. IsFiniteSet(S \ {x}) /\ Cardinality(S \ {x}) = Cardinality(S) - 1
  BY <1>1, <1>2, FS_RemoveElement
<1>5. Cardinality(InUse(n)) <= Cardinality(S \ {x})
  BY <1>3, <1>4, FS_Subset
<1>6. Cardinality(InUse(n)) \in Nat
  BY InUseFinite
<1>7. fds[n] <= Cardinality(InUse(n)) /\ limit[n] >= 2 * Cardinality(Fetches)
  BY DEF Ready, Roomy
<1>8. fds[n] \in Nat /\ limit[n] \in Nat
  BY TransferAssumption DEF TypeInv, ProcessType
<1> HIDE DEF S, x
<1> QED  BY <1>1, <1>4, <1>5, <1>6, <1>7, <1>8 DEF HasFd

\* What a step of the get f does to what n uses and to what it has open.
Keeps(n, f) == fds'[n] = fds[n] /\ \A i \in {1, 2} : Uses(n, f, i) => Uses(n, f, i)'
Gains(n, f, i) ==
  /\ fds'[n] = fds[n] + 1 /\ ~Uses(n, f, i) /\ Uses(n, f, i)'
  /\ \A j \in {1, 2} \ {i} : Uses(n, f, j) => Uses(n, f, j)'
Loses(n, f, i) ==
  fds'[n] = fds[n] - 1 /\ \A j \in {1, 2} \ {i} : Uses(n, f, j) => Uses(n, f, j)'

LEMMA CountKept ==
  ASSUME IsFiniteSet(Fetches), TypeInv, NEW n \in Nodes, fds[n] <= Cardinality(InUse(n)),
         NEW f \in Fetches,
         \A g \in Fetches \ {f} : \A i \in {1, 2} : Uses(n, g, i) => Uses(n, g, i)',
         Keeps(n, f) \/ \E i \in {1, 2} : Gains(n, f, i) \/ Loses(n, f, i)
  PROVE  fds'[n] <= Cardinality(InUse(n)')
<1>1. IsFiniteSet(InUse(n)) /\ Cardinality(InUse(n)) \in Nat
  BY InUseFinite
<1>2. IsFiniteSet(InUse(n)') /\ Cardinality(InUse(n)') \in Nat
  <2>1. IsFiniteSet(Fetches \X {1, 2})
    BY InUseFinite
  <2>2. InUse(n)' \in SUBSET (Fetches \X {1, 2})
    BY DEF InUse
  <2>3. IsFiniteSet(InUse(n)')
    BY <2>1, <2>2, FS_Subset
  <2> QED  BY <2>3, FS_CardinalityType
<1>3. fds[n] \in Int
  BY TransferAssumption DEF TypeInv, ProcessType
<1>4. CASE Keeps(n, f)
  <2>1. InUse(n) \in SUBSET InUse(n)'
    BY <1>4 DEF InUse, Keeps
  <2>2. Cardinality(InUse(n)) <= Cardinality(InUse(n)')
    BY <1>2, <2>1, FS_Subset
  <2> QED  BY <1>1, <1>2, <1>3, <1>4, <2>2 DEF Keeps
<1>5. ASSUME NEW i \in {1, 2}, Gains(n, f, i)
      PROVE  fds'[n] <= Cardinality(InUse(n)')
  <2>1. <<f, i>> \notin InUse(n) /\ <<f, i>> \in InUse(n)'
    BY <1>5 DEF InUse, Gains
  <2>2. InUse(n) \in SUBSET (InUse(n)' \ {<<f, i>>})
    BY <1>5, <2>1 DEF InUse, Gains
  <2>3. /\ IsFiniteSet(InUse(n)' \ {<<f, i>>})
        /\ Cardinality(InUse(n)' \ {<<f, i>>}) = Cardinality(InUse(n)') - 1
    BY <1>2, <2>1, FS_RemoveElement
  <2>4. Cardinality(InUse(n)) <= Cardinality(InUse(n)' \ {<<f, i>>})
    BY <2>2, <2>3, FS_Subset
  <2>5. fds'[n] = fds[n] + 1
    BY <1>5 DEF Gains
  <2> QED  BY <1>1, <1>2, <1>3, <2>3, <2>4, <2>5
<1>6. ASSUME NEW i \in {1, 2}, Loses(n, f, i)
      PROVE  fds'[n] <= Cardinality(InUse(n)')
  <2>1. InUse(n) \ {<<f, i>>} \in SUBSET InUse(n)'
    BY <1>6 DEF InUse, Loses
  <2>2. Cardinality(InUse(n) \ {<<f, i>>}) <= Cardinality(InUse(n)')
    BY <1>2, <2>1, FS_Subset
  <2>3. Cardinality(InUse(n) \ {<<f, i>>}) >= Cardinality(InUse(n)) - 1
    <3> DEFINE T == InUse(n)
    <3>1. Cardinality(T \ {<<f, i>>}) = IF <<f, i>> \in T THEN Cardinality(T) - 1 ELSE Cardinality(T)
      BY <1>1, FS_RemoveElement
    <3> HIDE DEF T
    <3>2. Cardinality(T) \in Int
      BY <1>1 DEF T
    <3> QED  BY <3>1, <3>2 DEF T
  <2>4. fds'[n] = fds[n] - 1
    BY <1>6 DEF Loses
  <2>5. IsFiniteSet(InUse(n) \ {<<f, i>>}) /\ Cardinality(InUse(n) \ {<<f, i>>}) \in Nat
    BY <1>1, FS_RemoveElement, FS_CardinalityType
  <2> QED  BY <1>1, <1>2, <1>3, <2>2, <2>3, <2>4, <2>5
<1> QED  BY <1>4, <1>5, <1>6

LEMMA FetchLives ==
  ASSUME NEW f \in Fetches, FetchActs(f)
  PROVE  again' = again /\ limit' = limit /\ (~ConnectUnanswered(f) => door' = door)
BY DEF FetchActs, Get, Connect, ConnectUnanswered, Send, SendLost, RecvSize, RecvMissing, RecvContent,
       OpenFile, OpenFails, WriteBlock, CloseFile, Disconnect, Notify, nodes, lives

LEMMA LimitStays ==
  ASSUME TypeInv, Next
  PROVE  limit' = limit
<1>1. CASE \E f \in Fetches : FetchActs(f) \/ HandlerActs(f)
  BY <1>1, FetchLives, FetchStays DEF lives
<1>2. CASE \E n \in Nodes : Departs(n) \/ Forget(n) \/ Restart(n)
  BY <1>2 DEF Departs, Ends, Leaves, Forget, Restart, nodes, lives
<1> QED  BY <1>1, <1>2, Steps

\* What the get f was made for is complete wherever it is named.
LEMMA CarefulHolds ==
  ASSUME TypeInv, HoldersInv, \A g \in Fetches : Smooth(g), NEW k \in Numbers, Sound(k)
  PROVE  HoldInv(k)
BY DEF HoldersInv, NotStored, Smooth

LEMMA CarefulBefore ==
  ASSUME TypeInv, Next, Careful'
  PROVE  Careful
<1>1. ASSUME NEW f \in Fetches, want[f] # None
      PROVE  Sound(want[f]) /\ Roomy(By[f]) /\ (asked[f] # None => Roomy(asked[f]))
  <2>1. pc[f] # "todo"
    BY <1>1 DEF TypeInv, PromptInv
  <2>2. ~\E k \in Numbers : Get(f, k)
    BY <2>1 DEF Get
  <2>3. want'[f] = want[f] /\ asked'[f] = asked[f]
    BY <2>2, Onward, Labels
  <2>4. \A n : Roomy(n)' <=> Roomy(n)
    BY LimitStays DEF Roomy
  <2>5. \A k : Sound(k)' <=> Sound(k)
    BY DEF Sound, Owners
  <2> QED  BY <1>1, <2>3, <2>4, <2>5 DEF Careful
<1>2. ASSUME NEW n \in Nodes
      PROVE  process[n] # "quit" /\ n \notin again
  <2>1. \/ \E m \in Nodes : Restart(m)
        \/ again' = again /\ (process[n] = "quit" => process'[n] = "quit")
    <3>1. CASE \E f \in Fetches : FetchActs(f)
      BY <3>1, FetchMoves, FetchLives
    <3>2. CASE \E f \in Fetches : HandlerActs(f)
      BY <3>2, FetchStays DEF lives
    <3>3. CASE \E m \in Nodes : Departs(m)
      BY <3>3 DEF Departs, Ends, Leaves, TypeInv, ProcessType
    <3>4. CASE \E m \in Nodes : Forget(m)
      BY <3>4 DEF Forget, nodes, lives
    <3> QED  BY <3>1, <3>2, <3>3, <3>4, Steps
  <2>2. ~\E m \in Nodes : Restart(m)
    BY DEF Restart, Careful
  <2> QED  BY <2>1, <2>2 DEF Careful
<1> QED  BY <1>1, <1>2 DEF Careful

AllCareful ==
  /\ TypeInv /\ HoldersInv /\ Careful
  /\ (\A n \in Nodes : Ready(n)) /\ \A f \in Fetches : Smooth(f)

\* The two ends of a get.
LEMMA BothEnds ==
  ASSUME AllCareful, NEW f \in Fetches
  PROVE  /\ By[f] \in Nodes
         /\ pc[f] \in {"todo", "none", "named"} => hpc[f] = "off"
         /\ asked[f] # None => asked[f] \in Nodes /\ asked[f] # By[f]
         /\ pc[f] # "todo" =>
              /\ want[f] \in Numbers /\ Sound(want[f]) /\ Short(want[f]) = want[f]
              /\ GetMessage(want[f]) # Null
              /\ Roomy(By[f]) /\ process[By[f]] = "up"
         /\ pc[f] \notin {"todo", "none"} =>
              /\ asked[f] # None /\ asked[f] \in Nodes /\ asked[f] # By[f]
              /\ Roomy(asked[f]) /\ process[asked[f]] = "up" /\ door[asked[f]] = "open"
<1>1. By[f] \in Nodes
  BY TransferAssumption
<1>2. pc[f] \in {"todo", "none", "named"} => hpc[f] = "off"
  BY DEF AllCareful, TypeInv, TalkInv, Talk, LabelType, HandlerLabels
<1>3. None \notin Numbers /\ None \notin Nodes
  BY NumbersNat, TransferAssumption
<1>4. asked[f] # None => asked[f] \in Nodes /\ asked[f] # By[f]
  BY DEF AllCareful, TypeInv, LabelType, Smooth
<1>5. ASSUME pc[f] # "todo"
      PROVE  /\ want[f] \in Numbers /\ Sound(want[f]) /\ Short(want[f]) = want[f]
             /\ GetMessage(want[f]) # Null
             /\ Roomy(By[f]) /\ process[By[f]] = "up"
  <2>1. want[f] \in Numbers /\ want[f] # None
    BY <1>3, <1>5 DEF AllCareful, TypeInv, PromptInv
  <2>2. Sound(want[f]) /\ Roomy(By[f])
    BY <2>1 DEF AllCareful, Careful
  <2>3. Short(want[f]) = want[f]
    BY <2>2 DEF Sound
  <2>4. want[f] \in Nat /\ want[f] > 0
    <3>1. want[f] \in Nat \ {0}
      BY <2>1, NumbersNat
    <3> QED  BY <3>1
  <2>5. GetMessage(want[f]) # Null
    BY <2>3, <2>4 DEF GetMessage, Number, Null
  <2>6. process[By[f]] = "up"
    BY <1>1, <2>2 DEF AllCareful, Ready
  <2> QED  BY <2>1, <2>2, <2>3, <2>5, <2>6
<1>6. ASSUME pc[f] \notin {"todo", "none"}
      PROVE  /\ asked[f] # None /\ asked[f] \in Nodes /\ asked[f] # By[f]
             /\ Roomy(asked[f]) /\ process[asked[f]] = "up" /\ door[asked[f]] = "open"
  <2>1. asked[f] \in Nodes /\ asked[f] # None
    BY <1>3, <1>6 DEF AllCareful, TypeInv, PromptInv
  <2>2. want[f] # None
    BY <1>3, <1>5, <1>6
  <2>3. Roomy(asked[f])
    BY <2>1, <2>2 DEF AllCareful, Careful
  <2> QED  BY <1>4, <2>1, <2>3 DEF AllCareful, Ready
<1> QED  BY <1>1, <1>2, <1>4, <1>5, <1>6

\* There is a descriptor for everything that a get needs.
LEMMA Enough ==
  ASSUME IsFiniteSet(Fetches), AllCareful, NEW f \in Fetches
  PROVE  /\ pc[f] = "todo" /\ Roomy(By[f]) => HasFd(By[f])
         /\ pc[f] = "named" => HasFd(By[f]) /\ HasFd(asked[f])
         /\ pc[f] = "open" => HasFd(By[f])
         /\ hpc[f] = "get" => HasFd(asked[f])
<1> USE DEF AllCareful
<1>1. By[f] \in Nodes /\ Ready(By[f])
  BY BothEnds
<1>2. ASSUME pc[f] = "todo", Roomy(By[f])
      PROVE  HasFd(By[f])
  <2>1. asked[f] # By[f]
    BY <1>1, <1>2, TransferAssumption DEF TypeInv, PromptInv
  <2>2. ~Uses(By[f], f, 1)
    BY <1>2, <2>1 DEF Uses
  <2> QED  BY <1>1, <1>2, <2>2, RoomFor
<1>3. ASSUME pc[f] = "named"
      PROVE  HasFd(By[f]) /\ HasFd(asked[f])
  <2>1. /\ asked[f] \in Nodes /\ asked[f] # By[f] /\ Roomy(By[f]) /\ Roomy(asked[f])
        /\ hpc[f] = "off"
    BY <1>3, BothEnds
  <2>2. ~Uses(By[f], f, 1) /\ ~Uses(asked[f], f, 1)
    BY <1>3, <2>1 DEF Uses
  <2> QED  BY <1>1, <2>1, <2>2, RoomFor
<1>4. ASSUME pc[f] = "open"
      PROVE  HasFd(By[f])
  <2>1. asked[f] # By[f] /\ Roomy(By[f])
    BY <1>4, BothEnds
  <2>2. ~Uses(By[f], f, 2)
    BY <1>4, <2>1 DEF Uses
  <2> QED  BY <1>1, <2>1, <2>2, RoomFor
<1>5. ASSUME hpc[f] = "get"
      PROVE  HasFd(asked[f])
  <2>1. pc[f] \notin {"todo", "none"}
    BY <1>5, BothEnds
  <2>2. asked[f] \in Nodes /\ asked[f] # By[f] /\ Roomy(asked[f])
    BY <2>1, BothEnds
  <2>3. ~Uses(asked[f], f, 2)
    BY <1>5, <2>2 DEF Uses, HasOpened
  <2> QED  BY <2>2, <2>3, RoomFor
<1> QED  BY <1>2, <1>3, <1>4, <1>5

\* A prompt of a client that is short of descriptors ends, and nothing else does.
Retires(n) ==
  ~Roomy(n) /\ Ends(n) /\ \A g \in Fetches : Aside(g)

\* What is under way to the peer, or back.
LEMMA Frame ==
  ASSUME AllCareful, NEW f \in Fetches
  PROVE  /\ out[f] # <<>> => Head(out[f]) # Null
         /\ hout[f] # <<>> => Head(hout[f]) \in ToSet(hout[f]) /\ pc[f] \in {"size", "body"}
<1>1. Talk(want[f], pc[f], hpc[f], up[f], out[f]) /\ hpc[f] \in HandlerLabels
  BY DEF AllCareful, TypeInv, TalkInv, LabelType
<1>2. Reply(Contents, pc[f], hpc[f], up[f], out[f], down[f], hout[f]) /\ pc[f] \in FetchLabels
  BY DEF AllCareful, TypeInv, ReplyInv, LabelType
<1>3. pc[f] \notin {"blocked", "missing", "dead"} /\ hpc[f] # "gone"
  BY DEF AllCareful, Smooth
<1>4. ASSUME out[f] # <<>>
      PROVE  Head(out[f]) # Null
  <2>1. pc[f] # "todo" => GetMessage(want[f]) # Null
    BY BothEnds
  <2>2. \/ out[f] = Two(Asking, GetMessage(want[f])) \/ out[f] = One(GetMessage(want[f]))
        \/ out[f] = One(Leaving)
    BY <1>1, <1>3, <1>4 DEF Talk, HandlerLabels
  <2>3. pc[f] # "todo"
    BY <1>1, <1>4 DEF Talk, HandlerLabels
  <2> QED  BY <2>1, <2>2, <2>3, Shorts, Words
<1>5. ASSUME hout[f] # <<>>
      PROVE  Head(hout[f]) \in ToSet(hout[f]) /\ pc[f] \in {"size", "body"}
  <2>1. pc[f] \in {"size", "body"}
    BY <1>2, <1>3, <1>5 DEF Reply, Silent, FetchLabels
  <2>2. \/ \E a : hout[f] = Two(Size, a)
        \/ \E a : hout[f] = One(a)
    BY <1>2, <1>3, <1>5, <2>1 DEF Reply, Sized, Bare
  <2> QED  BY <2>1, <2>2, Shorts, Contained
<1> QED  BY <1>4, <1>5

LEMMA CarefulSteps ==
  ASSUME IsFiniteSet(Fetches), AllCareful, Next, Careful'
  PROVE  \/ \E f \in Fetches : FetchActs(f) \/ HandlerActs(f)
         \/ \E n \in Nodes : Forget(n) \/ Retires(n)
<1>1. ASSUME NEW f \in Fetches, GetThrows(f)
      PROVE  Retires(By[f])
  <2>1. By[f] \in Nodes /\ ~Roomy(By[f]) /\ Ends(By[f])
    BY <1>1, BothEnds, Enough DEF GetThrows
  <2>2. \A g \in Fetches : By[g] = By[f] => pc[g] = "todo"
    BY <2>1, BothEnds
  <2>3. \A g \in Fetches : By[g] = By[f] => out[g] = <<>>
    BY <2>2 DEF AllCareful, TypeInv, TalkInv, Talk, LabelType, HandlerLabels
  <2>4. \A g \in Fetches : asked[g] = By[f] => pc[g] \in {"todo", "none"}
    BY <2>1, BothEnds
  <2>5. \A g \in Fetches : asked[g] # By[f]
    <3>1. None \notin Nodes
      BY TransferAssumption
    <3> QED  BY <2>1, <2>4, <3>1 DEF AllCareful, TypeInv, PromptInv
  <2>6. ASSUME NEW g \in Fetches
        PROVE  pc'[g] = pc[g] /\ out'[g] = out[g] /\ hpc'[g] = hpc[g] /\ hout'[g] = hout[g] /\ up'[g] = up[g]
    <3>1. pc'[g] = pc[g] /\ out'[g] = out[g]
      BY <2>1, <2>2, <2>3 DEF Ends, Leaves, Over
    <3>2. hpc'[g] = hpc[g] /\ hout'[g] = hout[g] /\ up'[g] = up[g]
      BY <2>1, <2>5 DEF Ends, Leaves
    <3> QED  BY <3>1, <3>2
  <2>7. UNCHANGED <<want, asked, rest, down, message, number, text>>
    BY <2>1 DEF Ends, Leaves
  <2> QED  BY <2>1, <2>6, <2>7 DEF Retires, Aside
<1>2. ASSUME NEW f \in Fetches
      PROVE  ~BlockedThrows(f) /\ ~ConnectFails(f) /\ ~SendEnds(f) /\ ~HandlerSendEnds(f)
  <2>1. Smooth(f)
    BY DEF AllCareful
  <2>2. ~BlockedThrows(f)
    BY <2>1 DEF BlockedThrows, Smooth
  <2>3. ~ConnectFails(f)
    BY BothEnds, Enough DEF ConnectFails, CanConnect
  <2>4. ~SendEnds(f)
    BY <2>1, Frame DEF SendEnds, Smooth
  <2>5. ~HandlerSendEnds(f)
    BY <2>1, Frame DEF HandlerSendEnds, Smooth, Closed
  <2> QED  BY <2>2, <2>3, <2>4, <2>5
<1>3. ASSUME NEW n \in Nodes, Quit(n)
      PROVE  FALSE
  <2>1. process'[n] = "quit"
    BY <1>3 DEF Quit, Leaves, AllCareful, TypeInv, ProcessType
  <2> QED  BY <2>1 DEF Careful
<1>4. ASSUME NEW n \in Nodes, Restart(n)
      PROVE  FALSE
  BY <1>4 DEF Restart, Careful
<1>5. ASSUME NEW f \in Fetches, FetchStep(f) \/ HandlerStep(f) \/ BlockedThrows(f)
      PROVE  FetchActs(f) \/ HandlerActs(f)
  BY <1>2, <1>5 DEF FetchStep, HandlerStep, FetchActs, HandlerActs
<1>6. ASSUME NEW f \in Fetches, NEW k \in Numbers, Get(f, k)
      PROVE  FetchActs(f)
  BY <1>6 DEF FetchActs
<1>7. \A f \in Fetches : By[f] \in Nodes
  BY BothEnds
<1> QED  BY <1>1, <1>3, <1>4, <1>5, <1>6, <1>7 DEF Next

\* A handler that is asked reads a file that is complete.
LEMMA AskedFor ==
  ASSUME AllCareful, NEW f \in Fetches, hpc[f] \in {"get", "read"}
  PROVE  /\ pc[f] = "size" /\ up[f] = <<>> /\ out[f] = <<>>
         /\ HasFile(f) /\ want[f] \in Numbers /\ Sound(want[f]) /\ HoldInv(want[f])
<1>1. Talk(want[f], pc[f], hpc[f], up[f], out[f])
  BY DEF AllCareful, TypeInv, TalkInv
<1>2. pc[f] = "size" /\ up[f] = <<>> /\ out[f] = <<>>
  BY <1>1 DEF Talk, AllCareful, Smooth
<1>3. want[f] \in Numbers /\ Sound(want[f]) /\ Short(want[f]) = want[f]
  BY <1>2, BothEnds
<1>4. HoldInv(want[f])
  BY <1>3, CarefulHolds DEF AllCareful
<1>5. HasWhole(asked[f], want[f])
  BY <1>2, <1>4 DEF HoldInv
<1>6. number[f] = want[f]
  BY <1>2, <1>3 DEF AllCareful, TypeInv, HandlerInv, HandlerOk, Closed
<1> QED  BY <1>2, <1>3, <1>4, <1>5, <1>6 DEF HasWhole, HasFile

LEMMA NoSurprise ==
  ASSUME IsFiniteSet(Fetches), AllCareful, NEW f \in Fetches
  PROVE  /\ ~ConnectUnanswered(f) /\ ~SendLost(f) /\ ~RecvMissing(f) /\ ~OpenFails(f)
         /\ ~GetContentThrows(f) /\ ~HandlerStaleMessage(f) /\ ~HandlerSendLost(f)
<1>1. Smooth(f)
  BY DEF AllCareful
<1>2. ~ConnectUnanswered(f)
  <2> SUFFICES ASSUME ConnectUnanswered(f)
               PROVE  FALSE
    OBVIOUS
  <2>1. pc[f] = "named" /\ ~CanAccept(f)
    BY DEF ConnectUnanswered, CanConnect
  <2>2. /\ asked[f] \in Nodes /\ asked[f] # By[f] /\ door[asked[f]] = "open"
        /\ By[f] \in Nodes /\ HasFd(asked[f])
    BY <2>1, BothEnds, Enough
  <2>3. Opened(By[f])[asked[f]] = fds[asked[f]]
    BY <2>2 DEF Opened, AllCareful, TypeInv, ProcessType
  <2> QED  BY <2>1, <2>2, <2>3 DEF CanAccept, HasFd
<1>3. ~SendLost(f)
  BY <1>1 DEF SendLost, Smooth
<1>4. ~RecvMissing(f)
  <2> SUFFICES ASSUME RecvMissing(f)
               PROVE  FALSE
    OBVIOUS
  <2>1. pc[f] = "body" /\ down[f] # <<>> /\ Head(down[f]).val = 404
    BY DEF RecvMissing, Takes
  <2>2. Reply(Contents, pc[f], hpc[f], up[f], out[f], down[f], hout[f])
    BY DEF AllCareful, TypeInv, ReplyInv
  <2>3. \E a : down[f] = One(a)
    BY <1>1, <2>1, <2>2 DEF Reply, Bare, Smooth
  <2>4. Head(down[f]) \in ToSet(down[f])
    BY <2>3, Shorts, Contained
  <2> QED  BY <1>1, <2>1, <2>4 DEF Smooth
<1>5. ~OpenFails(f)
  BY Enough DEF OpenFails
<1>6. ~GetContentThrows(f)
  BY Enough, AskedFor DEF GetContentThrows
<1>7. ~HandlerStaleMessage(f)
  <2> SUFFICES ASSUME HandlerStaleMessage(f)
               PROVE  FALSE
    OBVIOUS
  <2>1. hpc[f] = "message" /\ up[f] = <<>> /\ Closed(f)
    BY DEF HandlerStaleMessage, HandlerStarves
  <2>2. Talk(want[f], pc[f], "message", <<>>, out[f])
    BY <2>1 DEF AllCareful, TypeInv, TalkInv
  <2>3. pc[f] \in {"missing", "dead"}
    BY <2>1, <2>2, TalkStarves DEF Closed
  <2> QED  BY <1>1, <2>3 DEF Smooth
<1>8. ~HandlerSendLost(f)
  BY Frame DEF HandlerSendLost, Closed
<1> QED  BY <1>2, <1>3, <1>4, <1>5, <1>6, <1>7, <1>8

LEMMA OthersSmooth ==
  ASSUME NEW g \in Fetches, Aside(g)
  PROVE  /\ Smooth(g) => Smooth(g)'
         /\ \A n : \A i : Uses(n, g, i) => Uses(n, g, i)'
BY DEF Aside, Smooth, Uses, HasOpened

\* What a get does keeps its connection reliable.
LEMMA FetchSmooth ==
  ASSUME IsFiniteSet(Fetches), AllCareful, Next, Careful', NEW f \in Fetches, FetchActs(f)
  PROVE  Smooth(f)'
<1> DEFINE Fine(x) == x # Null /\ x.val # 404
<1>1. Smooth(f) /\ Reply(Contents, pc[f], hpc[f], up[f], out[f], down[f], hout[f])
  BY DEF AllCareful, TypeInv, ReplyInv
<1>2. /\ ~ConnectUnanswered(f) /\ ~SendLost(f) /\ ~RecvMissing(f) /\ ~OpenFails(f)
      /\ LabelType
  BY NoSurprise DEF AllCareful, TypeInv
<1>3. CASE \E k \in Numbers : Get(f, k)
  <2>1. PICK k \in Numbers : Get(f, k)
    BY <1>3
  <2>2. /\ want'[f] = k /\ k \notin StoredAt(By[f]) /\ pc[f] = "todo"
        /\ \/ listed[k] = {} /\ pc'[f] = "none" /\ asked'[f] = asked[f]
           \/ pc'[f] = "named" /\ asked'[f] \in listed[k] /\ asked'[f] \in Nodes
    BY <2>1, Gets DEF AllCareful
  <2>3. want'[f] # None
    BY <2>2, NumbersNat, TransferAssumption
  <2>4. Sound(k)
    BY <2>2, <2>3 DEF Careful, Sound, Owners
  <2>5. HoldInv(k)
    BY <2>4, CarefulHolds DEF AllCareful
  <2>6. asked'[f] # None => asked'[f] # By[f]
    BY <1>1, <2>2, <2>5 DEF HoldInv, HasWhole, StoredAt, Smooth
  <2>7. hpc'[f] = hpc[f] /\ rest'[f] = rest[f] /\ hout'[f] = hout[f] /\ down'[f] = down[f]
    BY <2>1 DEF Get, handler
  <2> QED  BY <1>1, <2>2, <2>6, <2>7 DEF Smooth
<1>4. CASE Connect(f) \/ Send(f) \/ OpenFile(f) \/ CloseFile(f) \/ Disconnect(f) \/ Notify(f)
  <2>1. /\ asked'[f] = asked[f] /\ rest'[f] = rest[f] /\ hout'[f] = hout[f] /\ down'[f] = down[f]
        /\ hpc'[f] = hpc[f] \/ hpc'[f] = "message"
        /\ CloseFile(f) => rest[f] = <<>>
    BY <1>2, <1>4 DEF LabelType, Connect, Send, OpenFile, CloseFile, Disconnect, Notify, handler
  <2>2. /\ pc'[f] = pc[f] \/ pc'[f] \in {"size", "write", "closing", "notify", "done"}
        /\ pc[f] \in {"open", "write"} =>
             pc'[f] \in {pc[f], "open", "write"} \/ CloseFile(f)
    <3>1. CASE Send(f)
      BY <3>1 DEF Send
    <3>2. CASE Connect(f) \/ OpenFile(f) \/ CloseFile(f) \/ Disconnect(f) \/ Notify(f)
      BY <3>2, Labels DEF AllCareful
    <3> QED  BY <1>4, <3>1, <3>2
  <2> QED  BY <1>1, <2>1, <2>2 DEF Smooth
<1>5. CASE RecvSize(f) \/ RecvContent(f)
  <2>1. /\ asked'[f] = asked[f] /\ hout'[f] = hout[f] /\ hpc'[f] = hpc[f]
        /\ down[f] # <<>> /\ down'[f] = Tail(down[f]) /\ pc[f] \in {"size", "body"}
    BY <1>2, <1>5 DEF LabelType, RecvSize, RecvContent, Takes, handler
  <2>2. ToSet(down'[f]) \subseteq ToSet(down[f])
    <3>1. \/ \E a : down[f] = One(a)
          \/ \E a, b : down[f] = Two(a, b)
      BY <1>1, <2>1 DEF Reply, Sized, Bare, Smooth
    <3>2. ASSUME NEW a, down[f] = One(a)
          PROVE  ToSet(down'[f]) = {}
      BY <2>1, <3>2, Shorts, Contained
    <3>3. ASSUME NEW a, NEW b, down[f] = Two(a, b)
          PROVE  ToSet(down'[f]) = {b} /\ ToSet(down[f]) = {a, b}
      <4>1. down'[f] = One(b)
        BY <2>1, <3>3, Shorts
      <4> QED  BY <3>3, <4>1, Contained
    <3> QED  BY <3>1, <3>2, <3>3
  <2>3. \/ pc'[f] = "body" /\ rest'[f] = rest[f]
        \/ pc'[f] = "open"
    BY <1>2, <1>5 DEF LabelType, Goto, RecvSize, RecvContent
  <2> QED  BY <1>1, <2>1, <2>2, <2>3 DEF Smooth
<1>6. CASE \E i \in Lens : WriteBlock(f, i)
  <2>1. /\ asked'[f] = asked[f] /\ hout'[f] = hout[f] /\ hpc'[f] = hpc[f] /\ down'[f] = down[f]
        /\ pc[f] = "write" /\ pc'[f] = "write"
    BY <1>6 DEF WriteBlock, handler
  <2> QED  BY <1>1, <2>1 DEF Smooth
<1> QED  BY <1>2, <1>3, <1>4, <1>5, <1>6 DEF FetchActs

\* So does what its handler does: its answer is a 200 with something in it.
LEMMA HandlerSmooth ==
  ASSUME IsFiniteSet(Fetches), AllCareful, NEW f \in Fetches, HandlerActs(f)
  PROVE  Smooth(f)'
<1>1. Smooth(f) /\ Reply(Contents, pc[f], hpc[f], up[f], out[f], down[f], hout[f])
  BY DEF AllCareful, TypeInv, ReplyInv
<1>2. ~GetContentThrows(f) /\ ~HandlerStaleMessage(f) /\ ~HandlerSendLost(f) /\ LabelType
  BY NoSurprise DEF AllCareful, TypeInv
<1>3. pc'[f] = pc[f] /\ rest'[f] = rest[f] /\ asked'[f] = asked[f]
  BY FetchStays DEF fetch
<1>4. CASE HandlerMessage(f) \/ HandlerNumber(f) \/ GetContent(f) \/ (\E i \in Lens : ReadBlock(f, i))
  <2>1. hpc'[f] # "gone" /\ hout'[f] = hout[f] /\ down'[f] = down[f]
    BY <1>1, <1>2, <1>4 DEF LabelType, HandlerMessage, HandlerNumber, GetContent, ReadBlock, Dispatch,
                            HandlerGoto, Smooth
  <2> QED  BY <1>1, <1>3, <2>1 DEF Smooth
<1>5. CASE ReadEnd(f)
  <2>1. hpc[f] = "read"
    BY <1>5 DEF ReadEnd
  <2>2. pc[f] = "size" /\ want[f] \in Numbers /\ Sound(want[f]) /\ HoldInv(want[f])
    BY <2>1, AskedFor
  <2>3. text[f] \in Wholes(want[f])
    BY <1>5, <2>2, ReadsWhole DEF AllCareful
  <2>4. text[f] # <<>>
    BY <2>2, <2>3, WholesOf
  <2>5. Response(200, text[f]) = Body(200, text[f])
    BY <2>4 DEF Response
  <2>6. /\ hpc'[f] = "message" /\ hout'[f] = Two(Size, Body(200, text[f])) /\ down'[f] = down[f]
    BY <1>2, <1>5, <2>5 DEF ReadEnd, Answer, HandlerGoto, LabelType, Two
  <2>7. \A x \in ToSet(hout'[f]) : x # Null /\ x.val # 404
    <3>1. ToSet(hout'[f]) = {Size, Body(200, text[f])}
      BY <2>6, Contained
    <3> QED  BY <3>1 DEF Size, Body, Null
  <2> QED  BY <1>1, <1>3, <2>6, <2>7 DEF Smooth
<1>6. CASE HandlerSend(f)
  <2>1. /\ hout[f] # <<>> /\ down'[f] = Append(down[f], Head(hout[f])) /\ hout'[f] = Tail(hout[f])
        /\ hpc'[f] = hpc[f]
    BY <1>2, <1>6 DEF HandlerSend, LabelType
  <2>2. pc[f] \in {"size", "body"}
    BY <2>1, Frame
  <2>3. \/ \E a : down[f] = <<>> /\ hout[f] = Two(Size, a)
        \/ \E a : down[f] = One(Size) /\ hout[f] = One(a)
        \/ \E a : down[f] = <<>> /\ hout[f] = One(a)
    BY <1>1, <2>1, <2>2 DEF Reply, Sized, Bare, Smooth
  <2>4. ToSet(hout'[f]) \cup ToSet(down'[f]) \subseteq ToSet(hout[f]) \cup ToSet(down[f])
    <3>1. ASSUME NEW a, down[f] = <<>>, hout[f] = Two(Size, a)
          PROVE  hout'[f] = One(a) /\ down'[f] = One(Size)
      BY <2>1, <3>1, Shorts
    <3>2. ASSUME NEW a, down[f] = One(Size), hout[f] = One(a)
          PROVE  hout'[f] = <<>> /\ down'[f] = Two(Size, a)
      BY <2>1, <3>2, Shorts
    <3>3. ASSUME NEW a, down[f] = <<>>, hout[f] = One(a)
          PROVE  hout'[f] = <<>> /\ down'[f] = One(a)
      BY <2>1, <3>3, Shorts
    <3> QED  BY <2>3, <3>1, <3>2, <3>3, Contained
  <2> QED  BY <1>1, <1>3, <2>1, <2>4 DEF Smooth
<1> QED  BY <1>2, <1>4, <1>5, <1>6 DEF HandlerActs

\* What a get does to the descriptors.
LEMMA FetchCount ==
  ASSUME IsFiniteSet(Fetches), AllCareful, NEW f \in Fetches, FetchActs(f), NEW n \in Nodes
  PROVE  Keeps(n, f) \/ \E i \in {1, 2} : Gains(n, f, i) \/ Loses(n, f, i)
<1>1. /\ LabelType /\ DOMAIN fds = Nodes
      /\ Talk(want[f], pc[f], hpc[f], up[f], out[f])
      /\ Reply(Contents, pc[f], hpc[f], up[f], out[f], down[f], hout[f])
  BY DEF AllCareful, TypeInv, ProcessType, TalkInv, ReplyInv
<1>2. ~ConnectUnanswered(f) /\ ~SendLost(f) /\ ~RecvMissing(f) /\ ~OpenFails(f)
  BY NoSurprise
<1>3. /\ By[f] \in Nodes
      /\ pc[f] \notin {"todo", "none"} => asked[f] \in Nodes /\ asked[f] # By[f]
      /\ pc[f] \in {"todo", "none", "named"} => hpc[f] = "off"
      /\ hpc[f] # "gone" /\ hpc[f] \in HandlerLabels
  BY <1>1, BothEnds DEF AllCareful, Smooth, LabelType
<1>4. CASE \E k \in Numbers : Get(f, k)
  <2>1. /\ pc[f] = "todo" /\ pc'[f] \in {"none", "named"} /\ fds' = fds /\ hpc'[f] = hpc[f]
    BY <1>4, Labels DEF Get, nodes, handler, AllCareful
  <2> QED  BY <1>3, <2>1 DEF Keeps, Uses, HasOpened
<1>5. CASE Connect(f)
  <2>1. /\ pc[f] = "named" /\ pc'[f] = "size" /\ asked'[f] = asked[f] /\ hpc'[f] = "message"
        /\ out'[f] = Request(want[f])
    BY <1>1, <1>5, Labels DEF Connect, LabelType, AllCareful
  <2>2. out'[f] # <<>>
    BY <2>1 DEF Request
  <2>3. fds'[n] = IF n \in {By[f], asked[f]} THEN fds[n] + 1 ELSE fds[n]
    BY <1>1, <1>3, <1>5, <2>1 DEF Connect, Opened
  <2>4. CASE n \in {By[f], asked[f]}
    BY <1>3, <2>1, <2>2, <2>3, <2>4 DEF Gains, Uses, HasOpened
  <2>5. CASE n \notin {By[f], asked[f]}
    BY <1>3, <2>1, <2>3, <2>5 DEF Keeps, Uses, HasOpened
  <2> QED  BY <2>4, <2>5
<1>6. CASE Send(f)
  <2>1. /\ pc'[f] = pc[f] /\ asked'[f] = asked[f] /\ fds' = fds /\ hpc'[f] = hpc[f]
        /\ out[f] # <<>>
    BY <1>6 DEF Send, nodes, handler
  <2> QED  BY <2>1 DEF Keeps, Uses, HasOpened
<1>7. CASE RecvSize(f)
  <2>1. /\ pc[f] = "size" /\ pc'[f] = "body" /\ asked'[f] = asked[f] /\ fds' = fds /\ hpc'[f] = hpc[f]
    BY <1>7, Labels DEF AllCareful, RecvSize, nodes, handler
  <2> QED  BY <2>1 DEF Keeps, Uses, HasOpened
<1>8. CASE RecvContent(f) \/ (\E i \in Lens : WriteBlock(f, i)) \/ Notify(f)
  <2>1. /\ asked'[f] = asked[f] /\ fds' = fds /\ hpc'[f] = hpc[f]
    BY <1>8 DEF RecvContent, WriteBlock, Notify, nodes, handler
  <2>2. \/ pc[f] = "body" /\ pc'[f] = "open"
        \/ pc[f] = "write" /\ pc'[f] = "write"
        \/ pc[f] = "notify" /\ pc'[f] = "done"
    BY <1>8, Labels DEF AllCareful
  <2> QED  BY <2>1, <2>2 DEF Keeps, Uses, HasOpened
<1>9. CASE OpenFile(f)
  <2>1. pc[f] = "open" /\ pc'[f] = "write" /\ asked'[f] = asked[f] /\ hpc'[f] = hpc[f]
    BY <1>9, Labels DEF AllCareful, OpenFile, handler
  <2>2. fds'[n] = IF n = By[f] THEN fds[n] + 1 ELSE fds[n]
    BY <1>1, <1>3, <1>9 DEF OpenFile, Opened
  <2>3. CASE n = By[f]
    BY <1>3, <2>1, <2>2, <2>3 DEF Gains, Uses, HasOpened
  <2>4. CASE n # By[f]
    BY <2>1, <2>2, <2>4 DEF Keeps, Uses, HasOpened
  <2> QED  BY <2>3, <2>4
<1>10. CASE CloseFile(f) \/ Disconnect(f)
  <2>1. /\ asked'[f] = asked[f] /\ hpc'[f] = hpc[f]
        /\ fds'[n] = IF n = By[f] THEN fds[n] - 1 ELSE fds[n]
    BY <1>1, <1>3, <1>10 DEF CloseFile, Disconnect, ClosedOne, handler
  <2>2. \/ pc[f] = "write" /\ pc'[f] = "closing"
        \/ pc[f] = "closing" /\ pc'[f] = "notify"
    BY <1>10, Labels DEF AllCareful
  <2>3. CASE n = By[f] /\ pc[f] = "write"
    BY <1>3, <2>1, <2>2, <2>3 DEF Loses, Uses, HasOpened
  <2>4. CASE n = By[f] /\ pc[f] = "closing"
    BY <1>3, <2>1, <2>2, <2>4 DEF Loses, Uses, HasOpened
  <2>5. CASE n # By[f]
    BY <2>1, <2>2, <2>5 DEF Keeps, Uses, HasOpened
  <2> QED  BY <2>2, <2>3, <2>4, <2>5
<1> QED  BY <1>2, <1>4, <1>5, <1>6, <1>7, <1>8, <1>9, <1>10 DEF FetchActs

\* What its handler does to them.
LEMMA HandlerCount ==
  ASSUME IsFiniteSet(Fetches), AllCareful, NEW f \in Fetches, HandlerActs(f), NEW n \in Nodes
  PROVE  Keeps(n, f) \/ \E i \in {1, 2} : Gains(n, f, i) \/ Loses(n, f, i)
<1>1. /\ LabelType /\ DOMAIN fds = Nodes
      /\ Talk(want[f], pc[f], hpc[f], up[f], out[f])
  BY DEF AllCareful, TypeInv, ProcessType, TalkInv
<1>2. /\ ~GetContentThrows(f) /\ ~HandlerStaleMessage(f) /\ ~HandlerSendLost(f)
      /\ pc[f] \notin {"missing", "dead"} /\ hpc[f] # "gone"
  BY NoSurprise DEF AllCareful, Smooth
<1>3. pc'[f] = pc[f] /\ asked'[f] = asked[f] /\ out'[f] = out[f]
  BY FetchStays DEF fetch
<1>4. CASE HandlerMessage(f)
  <2>1. /\ hpc[f] = "message" /\ up[f] # <<>> /\ fds' = fds
        /\ Dispatch(f, Head(up[f]).val)
    BY <1>4 DEF HandlerMessage, HandlerTakes, nodes
  <2>2. /\ Head(up[f]).val \in {GET, DISCONNECT}
        /\ Head(up[f]).val = GET => Talk(want[f], pc[f], "number", Tail(up[f]), out[f])
    BY <1>1, <2>1, TalkTakes
  <2>3. CASE Head(up[f]).val = GET
    <3>1. pc[f] = "size"
      BY <1>2, <2>2, <2>3 DEF Talk
    <3>2. hpc'[f] = "number"
      BY <1>1, <2>1, <2>3 DEF Dispatch, HandlerGoto, LabelType, GET, DISCONNECT
    <3> QED  BY <1>3, <2>1, <3>1, <3>2 DEF Keeps, Uses, HasOpened
  <2>4. CASE Head(up[f]).val = DISCONNECT
    <3>1. hpc'[f] = "done"
      BY <1>1, <2>1, <2>4 DEF Dispatch, HandlerGoto, LabelType, GET, DISCONNECT
    <3> QED  BY <1>3, <2>1, <3>1 DEF Keeps, Uses, HasOpened
  <2> QED  BY <2>2, <2>3, <2>4
<1>5. CASE HandlerNumber(f)
  <2>1. hpc[f] = "number" /\ hpc'[f] = "get" /\ fds' = fds
    BY <1>1, <1>5 DEF HandlerNumber, HandlerTakes, HandlerStarves, HandlerGoto, LabelType, nodes
  <2> QED  BY <1>3, <2>1 DEF Keeps, Uses, HasOpened
<1>6. CASE GetContent(f)
  <2>1. hpc[f] = "get" /\ hpc'[f] = "read"
    BY <1>1, <1>6 DEF GetContent, HandlerGoto, LabelType
  <2>2. pc[f] = "size" /\ asked[f] \in Nodes /\ asked[f] # By[f]
    BY <2>1, AskedFor, BothEnds
  <2>3. fds'[n] = IF n = asked[f] THEN fds[n] + 1 ELSE fds[n]
    BY <1>1, <1>6, <2>2 DEF GetContent, Opened
  <2>4. CASE n = asked[f]
    BY <1>3, <2>1, <2>2, <2>3, <2>4 DEF Gains, Uses, HasOpened
  <2>5. CASE n # asked[f]
    BY <1>3, <2>1, <2>3, <2>5 DEF Keeps, Uses, HasOpened
  <2> QED  BY <2>4, <2>5
<1>7. CASE \E i \in Lens : ReadBlock(f, i)
  <2>1. hpc'[f] = hpc[f] /\ up'[f] = up[f] /\ fds' = fds
    BY <1>7 DEF ReadBlock, nodes
  <2> QED  BY <1>3, <2>1 DEF Keeps, Uses, HasOpened
<1>8. CASE ReadEnd(f)
  <2>1. hpc[f] = "read" /\ hpc'[f] = "message" /\ up'[f] = up[f] /\ fds' = fds
    BY <1>1, <1>8 DEF ReadEnd, Answer, HandlerGoto, LabelType, nodes
  <2>2. up[f] = <<>> /\ out[f] = <<>>
    BY <2>1, AskedFor
  <2> QED  BY <1>3, <2>1, <2>2 DEF Keeps, Uses, HasOpened
<1>9. CASE HandlerSend(f)
  <2>1. hpc'[f] = hpc[f] /\ up'[f] = up[f] /\ fds' = fds
    BY <1>9 DEF HandlerSend, nodes
  <2> QED  BY <1>3, <2>1 DEF Keeps, Uses, HasOpened
<1> QED  BY <1>2, <1>4, <1>5, <1>6, <1>7, <1>8, <1>9 DEF HandlerActs

LEMMA CarefulNext ==
  ASSUME IsFiniteSet(Fetches), TypeInv, HoldersInv, CarefulInv, Next
  PROVE  CarefulInv'
<1> SUFFICES ASSUME Careful'
             PROVE  (\A n \in Nodes : Ready(n)') /\ \A f \in Fetches : Smooth(f)'
  BY DEF CarefulInv
<1>1. AllCareful
  BY CarefulBefore DEF AllCareful, CarefulInv
<1>2. \A n : Roomy(n)' <=> Roomy(n)
  BY LimitStays DEF Roomy
<1>3. ASSUME NEW f \in Fetches, FetchActs(f) \/ HandlerActs(f)
      PROVE  (\A n \in Nodes : Ready(n)') /\ \A g \in Fetches : Smooth(g)'
  <2>1. \A g \in Fetches : g # f => Aside(g)
    BY <1>3, FetchAside, HandlerAside DEF TypeInv
  <2>2. Smooth(f)'
    BY <1>1, <1>3, FetchSmooth, HandlerSmooth
  <2>3. ASSUME NEW g \in Fetches
        PROVE  Smooth(g)'
    BY <1>1, <2>1, <2>2, OthersSmooth DEF AllCareful
  <2>4. process' = process /\ door' = door
    <3>1. CASE FetchActs(f)
      BY <1>1, <3>1, FetchMoves, FetchLives, NoSurprise
    <3>2. CASE HandlerActs(f)
      BY <3>2, FetchStays DEF lives
    <3> QED  BY <1>3, <3>1, <3>2
  <2>5. ASSUME NEW n \in Nodes, Roomy(n)'
        PROVE  process'[n] = "up" /\ door'[n] = "open" /\ fds'[n] <= Cardinality(InUse(n)')
    <3>1. process[n] = "up" /\ door[n] = "open" /\ fds[n] <= Cardinality(InUse(n))
      BY <1>1, <1>2, <2>5 DEF AllCareful, Ready
    <3>2. Keeps(n, f) \/ \E i \in {1, 2} : Gains(n, f, i) \/ Loses(n, f, i)
      BY <1>1, <1>3, FetchCount, HandlerCount
    <3>3. \A g \in Fetches \ {f} : \A i \in {1, 2} : Uses(n, g, i) => Uses(n, g, i)'
      BY <2>1, OthersSmooth
    <3>4. fds'[n] <= Cardinality(InUse(n)')
      BY <3>1, <3>2, <3>3, CountKept
    <3> QED  BY <2>4, <3>1, <3>4
  <2> QED  BY <2>3, <2>5 DEF Ready
<1>4. ASSUME NEW m \in Nodes, Forget(m) \/ Retires(m)
      PROVE  (\A n \in Nodes : Ready(n)') /\ \A g \in Fetches : Smooth(g)'
  <2>1. \A g \in Fetches : Aside(g)
    BY <1>4 DEF Forget, Retires, Aside, fetch, handler
  <2>2. ASSUME NEW g \in Fetches
        PROVE  Smooth(g)'
    BY <1>1, <2>1, OthersSmooth DEF AllCareful
  <2>3. door' = door /\ fds' = fds /\ \A n \in Nodes : Roomy(n) => process'[n] = process[n]
    BY <1>4 DEF Forget, Retires, Ends, Leaves, nodes, lives, TypeInv, ProcessType
  <2>4. ASSUME NEW n \in Nodes, Roomy(n)'
        PROVE  process'[n] = "up" /\ door'[n] = "open" /\ fds'[n] <= Cardinality(InUse(n)')
    <3>1. process[n] = "up" /\ door[n] = "open" /\ fds[n] <= Cardinality(InUse(n))
      BY <1>1, <1>2, <2>4 DEF AllCareful, Ready
    <3>2. InUse(n)' = InUse(n)
      BY <2>1 DEF InUse, Uses, HasOpened, Aside
    <3> QED  BY <1>2, <2>3, <2>4, <3>1, <3>2
  <2> QED  BY <2>2, <2>4 DEF Ready
<1> QED  BY <1>1, <1>3, <1>4, CarefulSteps

LEMMA CarefulInit ==
  ASSUME IsFiniteSet(Fetches), Init
  PROVE  CarefulInv
<1>1. ASSUME NEW n \in Nodes
      PROVE  Ready(n)
  <2>1. process[n] = "up" /\ door[n] = "open" /\ fds[n] = 0
    BY DEF Init
  <2>2. Cardinality(InUse(n)) \in Nat
    BY InUseFinite
  <2> QED  BY <2>1, <2>2 DEF Ready
<1>2. ASSUME NEW f \in Fetches
      PROVE  Smooth(f)
  BY Contained DEF Init, Smooth
<1> QED  BY <1>1, <1>2 DEF CarefulInv

\* As long as only sound numbers are asked for, with descriptors enough at both ends,
\* and nobody quits, no process ends: get_from_peer finds the peer's accept thread at
\* its socket and its handler answers with the file, so that nothing is sent into a
\* connection that is closed, no nullptr is encrypted and add_rfc can open its file.
\* (The gets are finitely many, as what Roomy asks for is counted in them.)
THEOREM NobodyEnds ==
  ASSUME IsFiniteSet(Fetches)
  PROVE  Spec => []SoundFetchesEndNobody
<1> DEFINE IInv == TypeInv /\ HoldersInv /\ CarefulInv
<1>1. Init => IInv
  BY TypeInit, HoldInit, CarefulInit DEF HoldersInv
<1>2. IInv /\ [Next]_vars => IInv'
  <2>1. ASSUME IInv, Next
        PROVE  CarefulInv'
    BY <2>1, CarefulNext
  <2>2. ASSUME IInv, UNCHANGED vars
        PROVE  CarefulInv'
    <3>1. UNCHANGED <<process, again, door, limit, fds, pc, want, asked, rest, out, up, down, hpc, hout>>
      BY <2>2 DEF vars, nodes, lives, fetch, handler
    <3>2. Careful' <=> Careful
      BY <3>1 DEF Careful, Sound, Owners, Roomy
    <3>3. ASSUME NEW n
          PROVE  Ready(n)' <=> Ready(n)
      BY <3>1 DEF Ready, Roomy, InUse, Uses, HasOpened
    <3>4. ASSUME NEW f \in Fetches
          PROVE  Smooth(f)' <=> Smooth(f)
      BY <3>1 DEF Smooth
    <3> QED  BY <2>2, <3>2, <3>3, <3>4 DEF CarefulInv
  <2>3. TypeInv /\ HoldersInv /\ [Next]_vars => TypeInv' /\ HoldersInv'
    BY TypeNext, HoldNext
  <2> QED  BY <2>1, <2>2, <2>3
<1>3. IInv => SoundFetchesEndNobody
  <2>1. ASSUME Careful, CarefulInv, NEW n \in Nodes
        PROVE  process[n] # "ended" \/ ~Roomy(n)
    BY <2>1 DEF CarefulInv, Ready
  <2> QED  BY <2>1 DEF SoundFetchesEndNobody, Careful
<1> QED  BY <1>1, <1>2, <1>3, PTL DEF Spec

(***************************************************************************)
(* What FileExchange sees                                                  *)
(***************************************************************************)

\* Where a get is, of which FileExchange sees the answer only.
Awaiting == {"blocked", "size", "body"}

StateAt(p, h, A) ==
  CASE p \in {"todo", "none", "missing", "dead"} -> p
    [] p = "named" -> "asking"
    [] p = "open" -> "answered"
    [] p = "write" -> "storing"
    [] p \in {"closing", "notify", "done"} -> "over"
    [] OTHER ->
         IF A # {}
         THEN IF (CHOOSE x \in A : TRUE).val = 404 THEN "missing" ELSE "answered"
         ELSE IF h = "gone" THEN "stuck" ELSE "asking"

ContentAt(p, h, A, r) ==
  CASE StateAt(p, h, A) \notin {"answered", "storing"} -> <<>>
    [] p \in {"open", "write"} -> r
    [] OTHER -> Decoded((CHOOSE x \in A : TRUE).body)

LEMMA ViewIs ==
  /\ \A f : StateOf(f) = StateAt(pc[f], hpc[f], Answers(f))
  /\ \A f : StateOf(f)' = StateAt(pc'[f], hpc'[f], Answers(f)')
  /\ \A f : ContentOf(f) = ContentAt(pc[f], hpc[f], Answers(f), rest[f])
  /\ \A f : ContentOf(f)' = ContentAt(pc'[f], hpc'[f], Answers(f)', rest'[f])
BY DEF StateOf, ContentOf, StateAt, ContentAt, TheAnswer

\* By the label of the get, and the answer where that is awaited.
LEMMA ViewAt ==
  ASSUME NEW p \in FetchLabels, NEW h, NEW A, NEW r
  PROVE  /\ p \in {"todo", "none", "missing", "dead"} =>
              StateAt(p, h, A) = p /\ ContentAt(p, h, A, r) = <<>>
         /\ p = "named" => StateAt(p, h, A) = "asking" /\ ContentAt(p, h, A, r) = <<>>
         /\ p = "open" => StateAt(p, h, A) = "answered" /\ ContentAt(p, h, A, r) = r
         /\ p = "write" => StateAt(p, h, A) = "storing" /\ ContentAt(p, h, A, r) = r
         /\ p \in {"closing", "notify", "done"} =>
              StateAt(p, h, A) = "over" /\ ContentAt(p, h, A, r) = <<>>
         /\ p \in Awaiting /\ A = {} =>
              /\ StateAt(p, h, A) = (IF h = "gone" THEN "stuck" ELSE "asking")
              /\ ContentAt(p, h, A, r) = <<>>
         /\ \A a : p \in Awaiting /\ A = {a} =>
              /\ StateAt(p, h, A) = (IF a.val = 404 THEN "missing" ELSE "answered")
              /\ ContentAt(p, h, A, r) = (IF a.val = 404 THEN <<>> ELSE Decoded(a.body))
<1>1. \A a : A = {a} => (CHOOSE x \in A : TRUE) = a
  OBVIOUS
<1>2. p \in {"todo", "none", "missing", "dead"} =>
        StateAt(p, h, A) = p /\ ContentAt(p, h, A, r) = <<>>
  BY DEF StateAt, ContentAt
<1>3. /\ p = "named" => StateAt(p, h, A) = "asking" /\ ContentAt(p, h, A, r) = <<>>
      /\ p = "open" => StateAt(p, h, A) = "answered" /\ ContentAt(p, h, A, r) = r
      /\ p = "write" => StateAt(p, h, A) = "storing" /\ ContentAt(p, h, A, r) = r
  BY DEF StateAt, ContentAt
<1>4. p \in {"closing", "notify", "done"} =>
        StateAt(p, h, A) = "over" /\ ContentAt(p, h, A, r) = <<>>
  BY DEF StateAt, ContentAt
<1>5. p \in Awaiting /\ A = {} =>
        /\ StateAt(p, h, A) = (IF h = "gone" THEN "stuck" ELSE "asking")
        /\ ContentAt(p, h, A, r) = <<>>
  BY DEF StateAt, ContentAt, Awaiting
<1>6. ASSUME NEW a, p \in Awaiting, A = {a}
      PROVE  /\ StateAt(p, h, A) = (IF a.val = 404 THEN "missing" ELSE "answered")
             /\ ContentAt(p, h, A, r) = (IF a.val = 404 THEN <<>> ELSE Decoded(a.body))
  BY <1>1, <1>6 DEF StateAt, ContentAt, Awaiting
<1> QED  BY <1>2, <1>3, <1>4, <1>5, <1>6

\* A get that FileExchange sees no change of.
SameView(f) == StateOf(f)' = StateOf(f) /\ ContentOf(f)' = ContentOf(f)

LEMMA AsideView ==
  ASSUME NEW g \in Fetches, Aside(g)
  PROVE  SameView(g)
<1>1. Answers(g)' = Answers(g)
  BY DEF Answers, Aside
<1> QED  BY <1>1, ViewIs DEF SameView, Aside

\* The state and the content as functions.
LEMMA Lifted ==
  ASSUME NEW f \in Fetches, \A g \in Fetches : g # f => SameView(g)
  PROVE  /\ \A from, to : StateOf(f) = from /\ StateOf(f)' = to => Exchange!Goto(f, from, to)
         /\ \A c : ContentOf(f)' = c =>
              [g \in Fetches |-> ContentOf(g)]' = [[g \in Fetches |-> ContentOf(g)] EXCEPT ![f] = c]
         /\ StateOf(f)' = StateOf(f) =>
              [g \in Fetches |-> StateOf(g)]' = [g \in Fetches |-> StateOf(g)]
         /\ ContentOf(f)' = ContentOf(f) =>
              [g \in Fetches |-> ContentOf(g)]' = [g \in Fetches |-> ContentOf(g)]
BY DEF SameView, Exchange!Goto

(***************************************************************************)
(* What stands before a byte                                               *)
(***************************************************************************)

\* The content has no such byte.
Without(s, byte) == \A i \in 1..Len(s) : s[i] # byte

LEMMA FirstOne ==
  ASSUME NEW S, NEW t \in Seq(S), NEW byte, NEW m \in 1..Len(t), t[m] = byte,
         \A i \in 1..Len(t) : i < m => t[i] # byte
  PROVE  Before(t, byte) = SubSeq(t, 1, m - 1)
<1> DEFINE at == { i \in DOMAIN t : t[i] = byte }
<1>1. Len(t) \in Nat /\ DOMAIN t = 1..Len(t)
  BY LenNat, LenProperties
<1>2. at \in SUBSET Nat /\ m \in at /\ at # {} /\ \A i \in at : i >= m
  BY <1>1
<1>3. Min(at) = m
  <2> HIDE DEF at
  <2>1. Min(at) \in at /\ \A y \in at : Min(at) <= y
    <3>1. \E x \in at : \A y \in at : x <= y
      BY <1>2, LeastNat
    <3> QED  BY <3>1 DEF Min
  <2>2. Min(at) \in Nat /\ Min(at) >= m /\ Min(at) <= m
    BY <1>2, <2>1
  <2> QED  BY <1>1, <2>2
<1> QED  BY <1>2, <1>3 DEF Before

\* What stands before is the beginning up to such a byte, and has none.
LEMMA BeforeIs ==
  ASSUME NEW S, NEW t \in Seq(S), NEW byte
  PROVE  /\ Without(t, byte) => Before(t, byte) = t
         /\ Without(Before(t, byte), byte)
         /\ \A s \in Seq(S) :
              IsPrefix(s, t) /\ Without(s, byte) /\ Len(s) < Len(t) /\ t[Len(s) + 1] = byte =>
                Before(t, byte) = s
<1>1. Len(t) \in Nat /\ DOMAIN t = 1..Len(t)
  BY LenNat, LenProperties
<1>2. Without(t, byte) => Before(t, byte) = t
  BY <1>1, BeforeIsPrefix DEF Without
<1>3. Without(Before(t, byte), byte)
  <2>1. CASE Without(t, byte)
    BY <1>2, <2>1
  <2>2. CASE ~Without(t, byte)
    <3> DEFINE at == { i \in 1..Len(t) : t[i] = byte }
    <3>1. at \in SUBSET Nat /\ at # {}
      BY <1>1, <2>2 DEF Without
    <3>2. PICK m \in at : \A y \in at : m <= y
      BY <3>1, LeastNat
    <3>3. m \in 1..Len(t) /\ t[m] = byte /\ \A i \in 1..Len(t) : i < m => t[i] # byte
      BY <1>1, <3>2
    <3>4. Before(t, byte) = SubSeq(t, 1, m - 1)
      BY <3>3, FirstOne
    <3>5. m - 1 \in Nat /\ m - 1 <= Len(t) /\ 1 \in Nat \ {0}
      BY <1>1, <3>3
    <3>6. /\ Len(SubSeq(t, 1, m - 1)) = IF 1 <= m - 1 THEN (m - 1) - 1 + 1 ELSE 0
          /\ \A j \in 1..((m - 1) - 1 + 1) : SubSeq(t, 1, m - 1)[j] = t[1 + j - 1]
      BY <3>5, PartOf
    <3>7. ASSUME NEW j \in 1..Len(SubSeq(t, 1, m - 1))
          PROVE  SubSeq(t, 1, m - 1)[j] # byte
      <4>1. j \in 1..((m - 1) - 1 + 1) /\ 1 + j - 1 = j /\ j < m /\ j \in 1..Len(t)
        BY <1>1, <3>3, <3>5, <3>6
      <4> QED  BY <3>3, <3>6, <4>1
    <3> QED  BY <3>4, <3>7 DEF Without
  <2> QED  BY <2>1, <2>2
<1>4. ASSUME NEW s \in Seq(S), IsPrefix(s, t), Without(s, byte), Len(s) < Len(t), t[Len(s) + 1] = byte
      PROVE  Before(t, byte) = s
  <2>1. Len(s) \in Nat /\ Len(s) <= Len(t) /\ \A i \in 1..Len(s) : s[i] = t[i]
    BY <1>4, LenNat, PrefixMeans
  <2>2. Len(s) + 1 \in 1..Len(t) /\ \A i \in 1..Len(t) : i < Len(s) + 1 => t[i] # byte
    BY <1>1, <1>4, <2>1 DEF Without
  <2>3. Before(t, byte) = SubSeq(t, 1, (Len(s) + 1) - 1)
    BY <1>4, <2>2, FirstOne
  <2>4. (Len(s) + 1) - 1 = Len(s) /\ Len(s) \in 0..Len(t)
    BY <1>1, <2>1
  <2>5. /\ SubSeq(t, 1, Len(s)) \in Seq(S) /\ Len(SubSeq(t, 1, Len(s))) = Len(s)
        /\ IsPrefix(SubSeq(t, 1, Len(s)), t)
    BY <2>4, SubSeqPrefix
  <2>6. \A i \in 1..Len(s) : SubSeq(t, 1, Len(s))[i] = s[i]
    BY <2>1, <2>5, PrefixMeans
  <2>7. SubSeq(t, 1, Len(s)) = s
    BY <2>5, <2>6, SeqEqual
  <2> QED  BY <2>3, <2>4, <2>7
<1> QED  BY <1>2, <1>3, <1>4

\* A reader that finds nothing more has all that stands before the first.
LEMMA ReadUpTo ==
  ASSUME NEW S, NEW s \in Seq(S), NEW t \in Seq(S), NEW byte, IsPrefix(s, t), Without(s, byte),
         Before(SubSeq(t, Len(s) + 1, Len(t)), byte) = <<>>
  PROVE  s = Before(t, byte)
<1> DEFINE u == SubSeq(t, Len(s) + 1, Len(t))
<1>1. Len(s) \in Nat /\ Len(t) \in Nat /\ Len(s) <= Len(t)
  BY LenNat, PrefixMeans
<1>2. u \in Seq(S) /\ Len(u) = Len(t) - Len(s) /\ \A j \in 1..Len(u) : u[j] = t[Len(s) + j]
  <2>1. /\ u \in Seq(S)
        /\ Len(u) = IF Len(s) + 1 <= Len(t) THEN Len(t) - (Len(s) + 1) + 1 ELSE 0
        /\ \A j \in 1..(Len(t) - (Len(s) + 1) + 1) : u[j] = t[Len(s) + 1 + j - 1]
    BY <1>1, PartOf
  <2> HIDE DEF u
  <2> QED  BY <1>1, <2>1
<1>3. Before(u, byte) = <<>>
  OBVIOUS
<1> HIDE DEF u
<1>4. CASE Len(s) = Len(t)
  <2>1. s = t
    BY <1>4, PrefixOrder
  <2> QED  BY <2>1, BeforeIs
<1>5. CASE Len(s) < Len(t)
  <2>1. u[1] = byte
    <3> SUFFICES ASSUME u[1] # byte
                 PROVE  FALSE
      OBVIOUS
    <3>1. 1 \in 1..Len(u)
      BY <1>1, <1>2, <1>5
    <3>2. CASE Without(u, byte)
      <4>1. u = <<>>
        BY <1>2, <1>3, <3>2, BeforeIs
      <4> QED  BY <3>1, <4>1
    <3>3. CASE ~Without(u, byte)
      <4> DEFINE at == { i \in 1..Len(u) : u[i] = byte }
      <4>1. at \in SUBSET Nat /\ at # {}
        <5>1. at # {}
          BY <3>3 DEF Without
        <5>2. Len(u) \in Nat
          BY <1>2, LenNat
        <5> QED  BY <5>1, <5>2
      <4>2. PICK m \in at : \A y \in at : m <= y
        BY <4>1, LeastNat
      <4>3. m \in 1..Len(u) /\ u[m] = byte /\ m # 1 /\ \A i \in 1..Len(u) : i < m => u[i] # byte
        BY <1>1, <1>2, <4>2
      <4>4. Before(u, byte) = SubSeq(u, 1, m - 1)
        BY <1>2, <4>3, FirstOne
      <4>5. m - 1 \in 0..Len(u) /\ m - 1 # 0
        BY <1>1, <1>2, <4>3
      <4>6. Len(SubSeq(u, 1, m - 1)) = m - 1
        BY <1>2, <4>5, SubSeqPrefix
      <4>7. Len(SubSeq(u, 1, m - 1)) = 0
        <5>1. SubSeq(u, 1, m - 1) = <<>>
          BY <1>3, <4>4
        <5> DEFINE q == SubSeq(u, 1, m - 1)
        <5>2. q = <<>>
          BY <5>1
        <5> HIDE DEF q
        <5>3. Len(q) = 0
          BY <5>2
        <5> QED  BY <5>3 DEF q
      <4> QED  BY <4>5, <4>6, <4>7
    <3> QED  BY <3>2, <3>3
  <2>2. t[Len(s) + 1] = byte
    BY <1>1, <1>2, <1>5, <2>1
  <2> QED  BY <1>5, <2>2, BeforeIs
<1> QED  BY <1>1, <1>4, <1>5

(***************************************************************************)
(* What a handler has read                                                 *)
(***************************************************************************)

\* The byte that reads as the end is nowhere in it.
NoEnd == \A f \in Fetches : Without(text[f], "ff")

LEMMA WithoutMore ==
  ASSUME NEW S, NEW s \in Seq(S), NEW t \in Seq(S), NEW byte, NEW i \in 1..Len(t),
         Without(s, byte), Without(t, byte)
  PROVE  Without(s \o SubSeq(t, 1, i), byte)
<1>1. Len(s) \in Nat /\ Len(t) \in Nat
  BY LenNat
<1> DEFINE v == SubSeq(t, 1, i)
<1>2. v \in Seq(S) /\ Len(v) = i /\ \A j \in 1..i : v[j] = t[j]
  <2>1. v \in Seq(S) /\ Len(v) = i /\ IsPrefix(v, t)
    BY <1>1, SubSeqPrefix
  <2> HIDE DEF v
  <2> QED  BY <2>1, PrefixMeans
<1> HIDE DEF v
<1>3. /\ Len(s \o v) = Len(s) + Len(v)
      /\ \A j \in 1..Len(s) + Len(v) : (s \o v)[j] = IF j <= Len(s) THEN s[j] ELSE v[j - Len(s)]
  BY <1>2, ConcatProperties
<1>4. ASSUME NEW j \in 1..Len(s \o v)
      PROVE  (s \o v)[j] # byte
  <2>1. CASE j <= Len(s)
    BY <1>1, <1>2, <1>3, <2>1 DEF Without
  <2>2. CASE ~(j <= Len(s))
    <3>1. j - Len(s) \in 1..i /\ j - Len(s) \in 1..Len(t)
      BY <1>1, <1>2, <1>3, <2>2
    <3> QED  BY <1>2, <1>3, <2>2, <3>1 DEF Without
  <2> QED  BY <2>1, <2>2
<1> QED  BY <1>4 DEF Without, v

\* What there is to read on.
LEMMA Reading ==
  ASSUME TypeInv, NEW f \in Fetches, hpc[f] = "read"
  PROVE  /\ text[f] \in Contents /\ HasFile(f) /\ File(f) \in Contents /\ IsPrefix(text[f], File(f))
         /\ SubSeq(File(f), Len(text[f]) + 1, Len(File(f))) \in Contents
         /\ Unread(f) \in Contents /\ Without(Unread(f), "ff")
<1>1. pc[f] \notin {"todo", "none"}
  BY DEF TypeInv, TalkInv, Talk
<1>2. asked[f] \in Nodes /\ HasFile(f) /\ IsPrefix(text[f], File(f))
  BY <1>1 DEF TypeInv, PromptInv, HandlerInv, HandlerOk
<1>3. File(f) \in Contents /\ text[f] \in Contents
  BY <1>2 DEF TypeInv, DiskType, LabelType, HasFile, File
<1> DEFINE S == UNION { ToSet(content) : content \in Originals }
<1> DEFINE a == text[f]
<1> DEFINE b == File(f)
<1> DEFINE tail == SubSeq(b, Len(a) + 1, Len(b))
<1>4. Contents = Seq(S) /\ a \in Seq(S) /\ b \in Seq(S) /\ Unread(f) = Before(tail, "ff")
  BY <1>3 DEF Contents, Unread
<1> HIDE DEF S, a, b
<1>5. tail \in Seq(S)
  <2>1. Len(a) \in Nat /\ Len(b) \in Nat
    BY <1>4, LenNat
  <2> QED  BY <1>4, <2>1, PartOf
<1> HIDE DEF tail
<1>6. Before(tail, "ff") \in Seq(S) /\ Without(Before(tail, "ff"), "ff")
  BY <1>5, BeforeIsPrefix, BeforeIs
<1> QED  BY <1>2, <1>3, <1>4, <1>5, <1>6 DEF tail, a, b

LEMMA NoEndInit ==
  ASSUME Init
  PROVE  NoEnd
BY DEF Init, NoEnd, Without

LEMMA NoEndNext ==
  ASSUME TypeInv, NoEnd, [Next]_vars
  PROVE  NoEnd'
<1>1. ASSUME NEW f \in Fetches, FetchActs(f), NEW g \in Fetches
      PROVE  text'[g] = text[g]
  BY <1>1 DEF FetchActs, Get, Connect, ConnectUnanswered, Send, SendLost, RecvSize, RecvMissing,
              RecvContent, OpenFile, OpenFails, WriteBlock, CloseFile, Disconnect, Notify, handler
<1>2. ASSUME NEW f \in Fetches, HandlerActs(f), NEW g \in Fetches
      PROVE  Without(text'[g], "ff")
  <2>1. CASE g # f
    <3>1. text'[g] = text[g]
      BY <1>2, <2>1, HandlerAside DEF Aside, TypeInv
    <3> QED  BY <3>1 DEF NoEnd
  <2>2. CASE g = f /\ \E i \in Lens : ReadBlock(f, i)
    <3>1. PICK i \in Lens : ReadBlock(f, i)
      BY <2>2
    <3>2. /\ hpc[f] = "read" /\ i \in 1..Len(Unread(f))
          /\ text'[f] = text[f] \o SubSeq(Unread(f), 1, i)
      BY <3>1 DEF ReadBlock, TypeInv, LabelType
    <3> DEFINE S == UNION { ToSet(content) : content \in Originals }
    <3> DEFINE a == text[f]
    <3> DEFINE u == Unread(f)
    <3>3. a \in Seq(S) /\ u \in Seq(S) /\ Without(u, "ff") /\ Without(a, "ff")
      BY <3>2, Reading DEF NoEnd, Contents
    <3>4. i \in 1..Len(u) /\ text'[f] = a \o SubSeq(u, 1, i)
      BY <3>2
    <3> HIDE DEF S, a, u
    <3>5. Without(a \o SubSeq(u, 1, i), "ff")
      BY <3>3, <3>4, WithoutMore
    <3> QED  BY <2>2, <3>4, <3>5
  <2>3. CASE g = f /\ ~\E i \in Lens : ReadBlock(f, i)
    <3>1. text'[f] = text[f] \/ text'[f] = <<>>
      BY <1>2, <2>3 DEF HandlerActs, HandlerMessage, HandlerStaleMessage, HandlerNumber, GetContent,
                        GetContentThrows, ReadEnd, Answer, HandlerSend, HandlerSendLost, TypeInv,
                        LabelType
    <3> QED  BY <2>3, <3>1 DEF NoEnd, Without
  <2> QED  BY <2>1, <2>2, <2>3
<1>3. ASSUME NEW n \in Nodes, Departs(n) \/ Forget(n) \/ Restart(n)
      PROVE  text' = text
  BY <1>3 DEF Departs, Ends, Leaves, Forget, Restart, handler
<1>4. CASE Next
  <2>1. CASE \E f \in Fetches : FetchActs(f)
    BY <1>1, <2>1 DEF NoEnd
  <2>2. CASE \E f \in Fetches : HandlerActs(f)
    BY <1>2, <2>2 DEF NoEnd
  <2>3. CASE \E n \in Nodes : Departs(n) \/ Forget(n) \/ Restart(n)
    BY <1>3, <2>3 DEF NoEnd
  <2> QED  BY <1>4, <2>1, <2>2, <2>3, Steps
<1>5. CASE UNCHANGED vars
  BY <1>5 DEF vars, handler, NoEnd
<1> QED  BY <1>4, <1>5

\* Where the reader stops it has all that comes through of the file as it is then.
LEMMA ReadsThrough ==
  ASSUME TypeInv, NoEnd, NEW f \in Fetches, ReadEnd(f)
  PROVE  /\ hpc[f] = "read" /\ HasFile(f)
         /\ text[f] \in Contents /\ Decoded(text[f]) = Through(File(f))
<1>1. hpc[f] = "read" /\ Unread(f) = <<>>
  BY DEF ReadEnd
<1> DEFINE S == UNION { ToSet(content) : content \in Originals }
<1> DEFINE a == text[f]
<1> DEFINE b == File(f)
<1>2. a \in Seq(S) /\ b \in Seq(S) /\ IsPrefix(a, b) /\ Without(a, "ff")
  BY <1>1, Reading DEF NoEnd, Contents
<1>3. Before(SubSeq(b, Len(a) + 1, Len(b)), "ff") = <<>>
  BY <1>1 DEF Unread
<1> HIDE DEF S, a, b
<1>4. a = Before(b, "ff")
  BY <1>2, <1>3, ReadUpTo
<1> QED  BY <1>1, <1>4, Reading DEF Through, a, b

(***************************************************************************)
(* The answer on its way                                                   *)
(***************************************************************************)

Bodies(d, r) == { x \in ToSet(r) \cup ToSet(d) : x.tag = "body" }

LEMMA AnswersAre ==
  /\ \A f : Answers(f) = Bodies(down[f], hout[f])
  /\ \A f : Answers(f)' = Bodies(down'[f], hout'[f])
BY DEF Answers, Bodies

LEMMA BodiesOf ==
  /\ Bodies(<<>>, <<>>) = {} /\ Bodies(One(Size), <<>>) = {}
  /\ Bodies(<<>>, Two(Size, Null)) = {} /\ Bodies(One(Size), One(Null)) = {}
  /\ Bodies(<<>>, One(Null)) = {}
  /\ \A a \in Replies(Contents) \ {Null} :
       /\ Bodies(<<>>, Two(Size, a)) = {a} /\ Bodies(One(Size), One(a)) = {a}
       /\ Bodies(Two(Size, a), <<>>) = {a}
       /\ Bodies(<<>>, One(a)) = {a} /\ Bodies(One(a), <<>>) = {a}
<1>1. Size.tag # "body" /\ Null.tag # "body"
  BY DEF Size, Null
<1>2. \A a \in Replies(Contents) \ {Null} : a.tag = "body"
  BY DEF Replies, Body
<1>3. /\ Bodies(<<>>, <<>>) = {} /\ Bodies(One(Size), <<>>) = {}
      /\ Bodies(<<>>, Two(Size, Null)) = {} /\ Bodies(One(Size), One(Null)) = {}
      /\ Bodies(<<>>, One(Null)) = {}
  BY <1>1, Contained DEF Bodies
<1>4. ASSUME NEW a \in Replies(Contents) \ {Null}
      PROVE  /\ Bodies(<<>>, Two(Size, a)) = {a} /\ Bodies(One(Size), One(a)) = {a}
             /\ Bodies(Two(Size, a), <<>>) = {a}
             /\ Bodies(<<>>, One(a)) = {a} /\ Bodies(One(a), <<>>) = {a}
  <2>1. a.tag = "body"
    BY <1>2
  <2> QED  BY <1>1, <2>1, Contained DEF Bodies
<1> QED  BY <1>3, <1>4

\* There is one at most, and what is left of it when the handler goes is the same.
LEMMA OneAnswer ==
  ASSUME TypeInv, NEW f \in Fetches, pc[f] \in Awaiting
  PROVE  /\ Answers(f) = {} \/ \E a \in Replies(Contents) \ {Null} : Answers(f) = {a}
         /\ Bodies(down[f], <<>>) = {} \/ Bodies(down[f], <<>>) = Answers(f)
<1>1. Reply(Contents, pc[f], hpc[f], up[f], out[f], down[f], hout[f])
  BY DEF TypeInv, ReplyInv
<1>2. Answers(f) = Bodies(down[f], hout[f])
  BY AnswersAre
<1>3. \/ hout[f] = <<>> /\ (down[f] = <<>> \/ down[f] = One(Size))
      \/ \E a \in Replies(Contents) :
           \/ down[f] = <<>> /\ hout[f] = Two(Size, a)
           \/ down[f] = One(Size) /\ hout[f] = One(a)
           \/ a # Null /\ down[f] = Two(Size, a) /\ hout[f] = <<>>
           \/ down[f] = <<>> /\ hout[f] = One(a)
           \/ a # Null /\ down[f] = One(a) /\ hout[f] = <<>>
  BY <1>1 DEF Reply, Sized, Bare, Silent, Awaiting
<1>4. CASE hout[f] = <<>> /\ (down[f] = <<>> \/ down[f] = One(Size))
  BY <1>2, <1>4, BodiesOf
<1>5. ASSUME NEW a \in Replies(Contents),
             \/ down[f] = <<>> /\ hout[f] = Two(Size, a)
             \/ down[f] = One(Size) /\ hout[f] = One(a)
             \/ a # Null /\ down[f] = Two(Size, a) /\ hout[f] = <<>>
             \/ down[f] = <<>> /\ hout[f] = One(a)
             \/ a # Null /\ down[f] = One(a) /\ hout[f] = <<>>
      PROVE  /\ Answers(f) = {} \/ \E b \in Replies(Contents) \ {Null} : Answers(f) = {b}
             /\ Bodies(down[f], <<>>) = {} \/ Bodies(down[f], <<>>) = Answers(f)
  <2>1. CASE a = Null
    BY <1>2, <1>5, <2>1, BodiesOf
  <2>2. CASE a # Null
    <3>1. a \in Replies(Contents) \ {Null}
      BY <2>2
    <3> QED  BY <1>2, <1>5, <3>1, BodiesOf
  <2> QED  BY <2>1, <2>2
<1> QED  BY <1>3, <1>4, <1>5

LEMMA SentOn ==
  ASSUME TypeInv, NEW f \in Fetches, HandlerSend(f)
  PROVE  Answers(f)' = Answers(f)
<1>1. Reply(Contents, pc[f], hpc[f], up[f], out[f], down[f], hout[f])
  BY DEF TypeInv, ReplyInv
<1>2. /\ hout[f] # <<>> /\ Head(hout[f]) # Null /\ ~Closed(f)
      /\ down'[f] = Append(down[f], Head(hout[f])) /\ hout'[f] = Tail(hout[f])
  BY DEF HandlerSend, TypeInv, LabelType
<1>3. pc[f] \in {"size", "body"} /\ hpc[f] = "message"
  BY <1>1, <1>2 DEF Reply, Silent, Closed, TypeInv, LabelType, FetchLabels
<1>4. \E a \in Replies(Contents) :
        \/ down[f] = <<>> /\ hout[f] = Two(Size, a)
        \/ down[f] = One(Size) /\ hout[f] = One(a)
        \/ down[f] = <<>> /\ hout[f] = One(a)
  BY <1>1, <1>2, <1>3 DEF Reply, Sized, Bare
<1>5. ASSUME NEW a, down[f] = <<>>, hout[f] = Two(Size, a)
      PROVE  down'[f] = One(Size) /\ hout'[f] = One(a)
  BY <1>2, <1>5, Shorts
<1>6. ASSUME NEW a, down[f] = One(Size), hout[f] = One(a)
      PROVE  down'[f] = Two(Size, a) /\ hout'[f] = <<>> /\ a # Null
  BY <1>2, <1>6, Shorts
<1>7. ASSUME NEW a, down[f] = <<>>, hout[f] = One(a)
      PROVE  down'[f] = One(a) /\ hout'[f] = <<>> /\ a # Null
  BY <1>2, <1>7, Shorts
<1>8. PICK a \in Replies(Contents) :
        \/ down[f] = <<>> /\ hout[f] = Two(Size, a)
        \/ down[f] = One(Size) /\ hout[f] = One(a)
        \/ down[f] = <<>> /\ hout[f] = One(a)
  BY <1>4
<1>9. Bodies(down'[f], hout'[f]) = Bodies(down[f], hout[f])
  <2>1. CASE a = Null
    BY <1>5, <1>6, <1>7, <1>8, <2>1, BodiesOf
  <2>2. CASE a # Null
    <3>1. a \in Replies(Contents) \ {Null}
      BY <2>2
    <3> QED  BY <1>5, <1>6, <1>7, <1>8, <3>1, BodiesOf
  <2> QED  BY <2>1, <2>2
<1> QED  BY <1>9, AnswersAre

\* The size goes before it.
LEMMA SizeTaken ==
  ASSUME TypeInv, NEW f \in Fetches, RecvSize(f)
  PROVE  Answers(f)' = Answers(f)
<1>1. Reply(Contents, pc[f], hpc[f], up[f], out[f], down[f], hout[f])
  BY DEF TypeInv, ReplyInv
<1>2. /\ pc[f] = "size" /\ down[f] # <<>> /\ down'[f] = Tail(down[f]) /\ hout'[f] = hout[f]
  BY DEF RecvSize, Takes, TypeInv, LabelType, handler
<1>3. \/ hout[f] = <<>> /\ down[f] = One(Size)
      \/ \E a \in Replies(Contents) : down[f] = One(Size) /\ hout[f] = One(a)
      \/ \E a \in Replies(Contents) \ {Null} : down[f] = Two(Size, a) /\ hout[f] = <<>>
  BY <1>1, <1>2 DEF Reply, Sized
<1>4. down[f] = One(Size) => down'[f] = <<>>
  BY <1>2, Shorts
<1>5. \A a : down[f] = Two(Size, a) => down'[f] = One(a)
  BY <1>2, Shorts
<1>6. Bodies(down'[f], hout'[f]) = Bodies(down[f], hout[f])
  <2>1. CASE hout[f] = <<>> /\ down[f] = One(Size)
    BY <1>2, <1>4, <2>1, BodiesOf
  <2>2. ASSUME NEW a \in Replies(Contents), down[f] = One(Size), hout[f] = One(a)
        PROVE  Bodies(down'[f], hout'[f]) = Bodies(down[f], hout[f])
    <3>1. CASE a = Null
      BY <1>2, <1>4, <2>2, <3>1, BodiesOf
    <3>2. CASE a # Null
      <4>1. a \in Replies(Contents) \ {Null}
        BY <3>2
      <4> QED  BY <1>2, <1>4, <2>2, <4>1, BodiesOf
    <3> QED  BY <3>1, <3>2
  <2>3. ASSUME NEW a \in Replies(Contents) \ {Null}, down[f] = Two(Size, a), hout[f] = <<>>
        PROVE  Bodies(down'[f], hout'[f]) = Bodies(down[f], hout[f])
    BY <1>2, <1>5, <2>3, BodiesOf
  <2> QED  BY <1>3, <2>1, <2>2, <2>3
<1> QED  BY <1>6, AnswersAre

\* What is received is the answer.
LEMMA BodyTaken ==
  ASSUME TypeInv, NEW f \in Fetches, pc[f] = "body", down[f] # <<>>
  PROVE  Answers(f) = {Head(down[f])}
<1>1. Reply(Contents, pc[f], hpc[f], up[f], out[f], down[f], hout[f])
  BY DEF TypeInv, ReplyInv
<1>2. \E a \in Replies(Contents) \ {Null} : down[f] = One(a) /\ hout[f] = <<>>
  BY <1>1 DEF Reply, Bare
<1> QED  BY <1>2, AnswersAre, BodiesOf, Shorts

\* There is none while the handler works on it.
LEMMA NoAnswerYet ==
  ASSUME TypeInv, NEW f \in Fetches,
         \/ pc[f] \in {"named", "blocked"}
         \/ pc[f] = "size" /\ hpc[f] \in {"get", "read"}
  PROVE  Answers(f) = {}
<1>1. Reply(Contents, pc[f], hpc[f], up[f], out[f], down[f], hout[f])
  BY DEF TypeInv, ReplyInv
<1>2. down[f] = <<>> /\ hout[f] = <<>>
  BY <1>1 DEF Reply, Silent, Open
<1> QED  BY <1>2, AnswersAre, BodiesOf

(***************************************************************************)
(* Each step is one of FileExchange, or none                               *)
(***************************************************************************)

\* One that FileExchange does not see.
LEMMA Unseen ==
  ASSUME UNCHANGED <<process, disk, want, asked>>, \A f \in Fetches : SameView(f)
  PROVE  UNCHANGED Exchange!vars
BY DEF Exchange!vars, SameView

LEMMA FetchImplements ==
  ASSUME TypeInv, Next, NEW f \in Fetches, FetchActs(f)
  PROVE  [Exchange!Next]_(Exchange!vars)
<1>1. \A g \in Fetches : g # f => SameView(g)
  BY FetchAside, AsideView DEF TypeInv
<1>2. /\ LabelType /\ pc[f] \in FetchLabels /\ pc'[f] \in FetchLabels
      /\ process' = process /\ By[f] \in Nodes
  BY FetchMoves, TransferAssumption DEF TypeInv, LabelType
<1> DEFINE Moves(s, t, c, d) ==
      StateOf(f) = s /\ StateOf(f)' = t /\ ContentOf(f) = c /\ ContentOf(f)' = d
<1>3. ASSUME UNCHANGED <<disk, want, asked>>, SameView(f)
      PROVE  [Exchange!Next]_(Exchange!vars)
  BY <1>1, <1>2, <1>3, Unseen
<1>4. CASE \E k \in Numbers : Get(f, k)
  <2>1. PICK k \in Numbers : Get(f, k)
    BY <1>4
  <2>2. /\ pc[f] = "todo" /\ process[By[f]] = "up" /\ k \in Asks[f] \ DOMAIN disk[By[f]]
        /\ want' = [want EXCEPT ![f] = k] /\ disk' = disk
    BY <2>1, Gets DEF Get, StoredAt
  <2>3. \/ pc'[f] = "none" /\ UNCHANGED asked
        \/ pc'[f] = "named" /\ \E n \in Nodes : asked' = [asked EXCEPT ![f] = n]
    <3>1. CASE listed[k] = {}
      BY <1>2, <2>1, <2>2, <3>1 DEF Get, Goto, LabelType
    <3>2. CASE listed[k] # {}
      <4>1. asked' = [asked EXCEPT ![f] = Min(listed[k])] /\ pc'[f] = "named"
        BY <1>2, <2>1, <2>2, <3>2 DEF Get, Goto, LabelType
      <4>2. Min(listed[k]) \in Nodes
        <5>1. listed[k] \in SUBSET Nodes /\ Nodes \in SUBSET Nat
          BY TransferAssumption DEF TypeInv, ProcessType
        <5>2. listed[k] \in SUBSET Nat
          BY <5>1
        <5> QED  BY <3>2, <5>1, <5>2, MinIn
      <4> QED  BY <4>1, <4>2
    <3> QED  BY <3>1, <3>2
  <2>4. Moves("todo", IF pc'[f] = "none" THEN "none" ELSE "asking", <<>>, <<>>)
    BY <1>2, <2>2, <2>3, ViewIs, ViewAt
  <2>5. /\ pc'[f] = "none" => Exchange!Goto(f, "todo", "none")
        /\ pc'[f] = "named" => Exchange!Goto(f, "todo", "asking")
        /\ [g \in Fetches |-> ContentOf(g)]' = [g \in Fetches |-> ContentOf(g)]
    BY <1>1, <2>4, Lifted
  <2>6. Exchange!Ask(f, k)
    BY <1>2, <2>2, <2>3, <2>5 DEF Exchange!Ask
  <2> QED  BY <2>2, <2>6 DEF Exchange!Next
<1>5. CASE Connect(f) \/ ConnectUnanswered(f)
  <2>1. /\ pc[f] = "named" /\ pc'[f] \in {"size", "blocked"} /\ UNCHANGED <<disk, want, asked>>
    BY <1>5, Labels DEF Connect, ConnectUnanswered
  <2>2. hpc[f] = "off" /\ hpc'[f] # "gone"
    <3>1. hpc[f] = "off"
      BY <1>2, <2>1 DEF TypeInv, TalkInv, Talk, LabelType, HandlerLabels
    <3> QED  BY <1>2, <1>5, <3>1 DEF Connect, ConnectUnanswered, handler, LabelType
  <2>3. Answers(f) = {} /\ Answers(f)' = Answers(f)
    <3>1. UNCHANGED <<hout, down>>
      BY <1>5 DEF Connect, ConnectUnanswered, handler
    <3> QED  BY <2>1, <3>1, NoAnswerYet DEF Answers
  <2>4. StateOf(f) = "asking" /\ ContentOf(f) = <<>>
    BY <1>2, <2>1, ViewIs, ViewAt
  <2>5. StateOf(f)' = "asking" /\ ContentOf(f)' = <<>>
    <3>1. Answers(f)' = {} /\ pc'[f] \in Awaiting
      BY <2>1, <2>3 DEF Awaiting
    <3> QED  BY <1>2, <2>2, <3>1, ViewIs, ViewAt
  <2> QED  BY <1>3, <2>1, <2>4, <2>5 DEF SameView
<1>6. CASE Send(f) \/ SendLost(f)
  <2>1. UNCHANGED <<pc, hpc, hout, down, rest, disk, want, asked>>
    BY <1>6 DEF Send, SendLost, handler
  <2>2. Answers(f)' = Answers(f)
    BY <2>1 DEF Answers
  <2>3. SameView(f)
    BY <2>1, <2>2, ViewIs DEF SameView
  <2> QED  BY <1>3, <2>1, <2>3
<1>7. CASE RecvSize(f)
  <2>1. /\ pc[f] = "size" /\ pc'[f] = "body" /\ hpc' = hpc /\ UNCHANGED <<disk, want, asked, rest>>
    BY <1>7, Labels DEF RecvSize, handler
  <2>2. Answers(f)' = Answers(f)
    BY <1>7, SizeTaken
  <2>3. \A h, A : StateAt("size", h, A) = StateAt("body", h, A)
    BY DEF StateAt
  <2>4. \A h, A, r : ContentAt("size", h, A, r) = ContentAt("body", h, A, r)
    BY <2>3 DEF ContentAt
  <2>5. SameView(f)
    BY <2>1, <2>2, <2>3, <2>4, ViewIs DEF SameView
  <2> QED  BY <1>3, <2>1, <2>5
<1>8. CASE RecvMissing(f) \/ RecvContent(f)
  <2>1. /\ pc[f] = "body" /\ down[f] # <<>> /\ UNCHANGED <<disk, want, asked>>
        /\ IF Head(down[f]).val = 404 THEN pc'[f] = "missing"
           ELSE pc'[f] = "open" /\ rest'[f] = Decoded(Head(down[f]).body)
    BY <1>2, <1>8 DEF RecvMissing, RecvContent, Takes, Goto, LabelType
  <2>2. Answers(f) = {Head(down[f])}
    BY <2>1, BodyTaken
  <2>3. SameView(f)
    BY <1>2, <2>1, <2>2, ViewIs, ViewAt DEF SameView, Awaiting
  <2> QED  BY <1>3, <2>1, <2>3
<1>9. CASE OpenFile(f)
  <2>1. pc[f] = "open" /\ pc'[f] = "write" /\ rest' = rest /\ UNCHANGED <<want, asked>>
    BY <1>9, Labels DEF OpenFile
  <2>2. Moves("answered", "storing", rest[f], rest[f])
    BY <1>2, <2>1, ViewIs, ViewAt
  <2>3. /\ Exchange!Goto(f, "answered", "storing")
        /\ [g \in Fetches |-> ContentOf(g)]' = [g \in Fetches |-> ContentOf(g)]
    BY <1>1, <2>2, Lifted
  <2>4. Exchange!Open(f)
    BY <1>2, <1>9, <2>1, <2>3 DEF OpenFile, Exchange!Open
  <2> QED  BY <2>4 DEF Exchange!Next
<1>10. CASE OpenFails(f) \/ CloseFile(f)
  <2>1. /\ pc[f] \in {"open", "write"} /\ pc'[f] = "closing" /\ UNCHANGED <<disk, want, asked>>
        /\ pc[f] = "write" => rest[f] = <<>>
    BY <1>10, Labels DEF OpenFails, CloseFile
  <2>2. Moves(IF pc[f] = "open" THEN "answered" ELSE "storing", "over", rest[f], <<>>)
    BY <1>2, <2>1, ViewIs, ViewAt
  <2>3. /\ pc[f] = "open" => Exchange!Goto(f, "answered", "over")
        /\ pc[f] = "write" => Exchange!Goto(f, "storing", "over")
        /\ [g \in Fetches |-> ContentOf(g)]' = [[g \in Fetches |-> ContentOf(g)] EXCEPT ![f] = <<>>]
    BY <1>1, <2>1, <2>2, Lifted
  <2>4. pc[f] = "write" => [g \in Fetches |-> ContentOf(g)][f] = <<>>
    BY <2>1, <2>2
  <2>5. Exchange!Finish(f)
    BY <1>2, <2>1, <2>3, <2>4 DEF Exchange!Finish
  <2> QED  BY <2>5 DEF Exchange!Next
<1>11. CASE \E i \in Lens : WriteBlock(f, i)
  <2>1. PICK i \in Lens : WriteBlock(f, i)
    BY <1>11
  <2>2. /\ pc[f] = "write" /\ pc'[f] = "write" /\ UNCHANGED <<want, asked>>
        /\ i \in 1..Len(rest[f]) /\ rest'[f] = SubSeq(rest[f], i + 1, Len(rest[f]))
        /\ disk' = [disk EXCEPT ![By[f]][want[f]] = @ \o SubSeq(rest[f], 1, i)]
    BY <1>2, <2>1 DEF WriteBlock, LabelType
  <2>3. Moves("storing", "storing", rest[f], SubSeq(rest[f], i + 1, Len(rest[f])))
    BY <1>2, <2>2, ViewIs, ViewAt
  <2>4. [g \in Fetches |-> ContentOf(g)][f] = rest[f] /\ [g \in Fetches |-> StateOf(g)][f] = "storing"
    BY <2>3
  <2>5. /\ [g \in Fetches |-> StateOf(g)]' = [g \in Fetches |-> StateOf(g)]
        /\ [g \in Fetches |-> ContentOf(g)]' =
             [[g \in Fetches |-> ContentOf(g)] EXCEPT ![f] = SubSeq(rest[f], i + 1, Len(rest[f]))]
    BY <1>1, <2>3, Lifted
  <2>6. Exchange!Write(f, i)
    BY <1>2, <2>2, <2>4, <2>5 DEF Exchange!Write
  <2> QED  BY <2>2, <2>4, <2>6 DEF Exchange!Next
<1>12. CASE Disconnect(f) \/ Notify(f)
  <2>1. /\ pc[f] \in {"closing", "notify"} /\ pc'[f] \in {"notify", "done"}
        /\ UNCHANGED <<disk, want, asked>>
    BY <1>12, Labels DEF Disconnect, Notify
  <2>2. SameView(f)
    BY <1>2, <2>1, ViewIs, ViewAt DEF SameView
  <2> QED  BY <1>3, <2>1, <2>2
<1> QED  BY <1>4, <1>5, <1>6, <1>7, <1>8, <1>9, <1>10, <1>11, <1>12 DEF FetchActs

LEMMA HandlerImplements ==
  ASSUME TypeInv, NoEnd, NEW f \in Fetches, HandlerActs(f)
  PROVE  [Exchange!Next]_(Exchange!vars)
<1>1. \A g \in Fetches : g # f => SameView(g)
  BY HandlerAside, AsideView DEF TypeInv
<1>2. /\ LabelType /\ pc[f] \in FetchLabels
      /\ UNCHANGED <<process, disk, want, asked, pc, rest>>
  BY FetchStays DEF TypeInv, LabelType, lives, fetch
<1>3. ASSUME SameView(f)
      PROVE  [Exchange!Next]_(Exchange!vars)
  BY <1>1, <1>2, <1>3, Unseen
<1>4. CASE HandlerMessage(f) \/ HandlerStaleMessage(f) \/ HandlerNumber(f) \/ GetContent(f)
           \/ (\E i \in Lens : ReadBlock(f, i))
  <2>1. UNCHANGED <<hout, down>> /\ hpc[f] # "gone" /\ hpc'[f] # "gone"
    BY <1>2, <1>4 DEF HandlerMessage, HandlerTakes, HandlerStaleMessage, HandlerStarves, HandlerNumber,
                      GetContent, ReadBlock, Dispatch, HandlerGoto, LabelType
  <2>2. Answers(f)' = Answers(f)
    BY <2>1 DEF Answers
  <2>3. \A A : StateAt(pc[f], hpc'[f], A) = StateAt(pc[f], hpc[f], A)
    BY <2>1 DEF StateAt
  <2>4. \A A : ContentAt(pc[f], hpc'[f], A, rest[f]) = ContentAt(pc[f], hpc[f], A, rest[f])
    BY <2>3 DEF ContentAt
  <2>5. SameView(f)
    BY <1>2, <2>2, <2>3, <2>4, ViewIs DEF SameView
  <2> QED  BY <1>3, <2>5
<1>5. CASE GetContentThrows(f) \/ ReadEnd(f)
  <2>1. /\ hpc[f] \in {"get", "read"} /\ hpc'[f] = "message" /\ down' = down
        /\ \/ GetContentThrows(f) /\ hout'[f] = Two(Size, Response(404, <<>>))
           \/ ReadEnd(f) /\ hout'[f] = Two(Size, Response(200, text[f]))
    BY <1>2, <1>5 DEF GetContentThrows, ReadEnd, Answer, HandlerGoto, LabelType, Two
  <2>2. pc[f] \in {"size", "missing", "dead"} /\ up[f] = <<>> /\ out[f] = <<>>
    BY <2>1 DEF TypeInv, TalkInv, Talk
  <2>3. CASE pc[f] \in {"missing", "dead"}
    <3>1. SameView(f)
      BY <1>2, <2>3, ViewIs, ViewAt DEF SameView
    <3> QED  BY <1>3, <3>1
  <2>4. CASE pc[f] = "size"
    <3>1. asked[f] \in Nodes /\ process[asked[f]] = "up"
      BY <2>1, <2>4 DEF TypeInv, PromptInv, HandlerInv, HandlerOk
    <3>2. Answers(f) = {} /\ down[f] = <<>>
      <4>1. Reply(Contents, pc[f], hpc[f], up[f], out[f], down[f], hout[f])
        BY DEF TypeInv, ReplyInv
      <4> QED  BY <2>1, <2>4, <4>1, NoAnswerYet DEF Reply, Open
    <3>3. StateOf(f) = "asking" /\ ContentOf(f) = <<>>
      BY <1>2, <2>1, <2>4, <3>2, ViewIs, ViewAt DEF Awaiting
    <3>4. \A a : Answers(f)' = {a} =>
            /\ StateOf(f)' = (IF a.val = 404 THEN "missing" ELSE "answered")
            /\ ContentOf(f)' = (IF a.val = 404 THEN <<>> ELSE Decoded(a.body))
      BY <1>2, <2>1, <2>4, ViewIs, ViewAt DEF Awaiting
    <3>5. \A a \in Replies(Contents) \ {Null} : hout'[f] = Two(Size, a) => Answers(f)' = {a}
      BY <2>1, <3>2, AnswersAre, BodiesOf
    <3>6. CASE GetContentThrows(f)
      <4>1. hout'[f] = Two(Size, Body(404, <<>>)) /\ Body(404, <<>>) \in Replies(Contents) \ {Null}
        BY <2>1, <3>6, ReplyTags DEF Response, Replies, GetContentThrows, ReadEnd
      <4>2. StateOf(f)' = "missing" /\ ContentOf(f)' = <<>>
        BY <3>4, <3>5, <4>1 DEF Body
      <4>3. /\ Exchange!Goto(f, "asking", "missing")
            /\ [g \in Fetches |-> ContentOf(g)]' = [g \in Fetches |-> ContentOf(g)]
        BY <1>1, <3>3, <4>2, Lifted
      <4>4. Exchange!Refuse(f)
        BY <1>2, <3>1, <4>3 DEF Exchange!Refuse
      <4> QED  BY <4>4 DEF Exchange!Next
    <3>7. CASE ReadEnd(f) /\ text[f] = <<>>
      <4>1. hout'[f] = Two(Size, Null)
        BY <2>1, <3>7 DEF Response, GetContentThrows, ReadEnd
      <4>2. Answers(f)' = {}
        BY <2>1, <3>2, <4>1, AnswersAre, BodiesOf
      <4>3. StateOf(f)' = "asking" /\ ContentOf(f)' = <<>>
        BY <1>2, <2>1, <2>4, <4>2, ViewIs, ViewAt DEF Awaiting
      <4> QED  BY <1>3, <3>3, <4>3 DEF SameView
    <3>8. CASE ReadEnd(f) /\ text[f] # <<>>
      <4>1. /\ HasFile(f) /\ text[f] \in Contents /\ Decoded(text[f]) = Through(File(f))
            /\ hpc[f] = "read"
        BY <3>8, ReadsThrough
      <4>2. hout'[f] = Two(Size, Body(200, text[f]))
        BY <2>1, <3>8, <4>1 DEF Response, GetContentThrows, ReadEnd
      <4>3. Body(200, text[f]) \in Replies(Contents) \ {Null}
        BY <4>1 DEF Replies, Body, Null
      <4>4. StateOf(f)' = "answered" /\ ContentOf(f)' = Decoded(text[f])
        BY <3>4, <3>5, <4>2, <4>3 DEF Body
      <4>5. number[f] = Short(want[f])
        BY <2>4, <4>1 DEF TypeInv, HandlerInv, HandlerOk, Closed
      <4>6. /\ Short(want[f]) \in DOMAIN disk[asked[f]]
            /\ Decoded(text[f]) = Through(disk[asked[f]][Short(want[f])])
        BY <4>1, <4>5 DEF HasFile, File
      <4>7. /\ Exchange!Goto(f, "asking", "answered")
            /\ [g \in Fetches |-> ContentOf(g)]' =
                 [[g \in Fetches |-> ContentOf(g)] EXCEPT
                    ![f] = Through(disk[asked[f]][Short(want[f])])]
        BY <1>1, <3>3, <4>4, <4>6, Lifted
      <4>8. Exchange!Answer(f)
        BY <1>2, <3>1, <4>6, <4>7 DEF Exchange!Answer
      <4> QED  BY <4>8 DEF Exchange!Next
    <3> QED  BY <1>5, <3>6, <3>7, <3>8
  <2> QED  BY <2>2, <2>3, <2>4
<1>6. CASE HandlerSend(f)
  <2>1. hpc' = hpc /\ Answers(f)' = Answers(f)
    BY <1>6, SentOn DEF HandlerSend
  <2>2. SameView(f)
    BY <1>2, <2>1, ViewIs DEF SameView
  <2> QED  BY <1>3, <2>2
<1>7. CASE HandlerSendLost(f)
  <2>1. pc[f] \in {"missing", "notify", "done", "dead"}
    BY <1>7 DEF HandlerSendLost, Closed
  <2>2. SameView(f)
    BY <1>2, <2>1, ViewIs, ViewAt DEF SameView
  <2> QED  BY <1>3, <2>2
<1> QED  BY <1>4, <1>5, <1>6, <1>7 DEF HandlerActs

\* What FileExchange sees of a get whose client, or whose peer, leaves.
LEMMA DepartView ==
  ASSUME TypeInv, NEW n \in Nodes, Departs(n), NEW f \in Fetches
  PROVE  /\ Active(f) => StateOf(f) \in {"asking", "answered", "storing", "stuck", "missing", "over"}
         /\ ~Active(f) => StateOf(f) \in {"todo", "none", "missing", "dead", "over"}
         /\ By[f] = n /\ Active(f) => StateOf(f)' = "dead" /\ ContentOf(f)' = <<>>
         /\ ~(By[f] = n /\ Active(f)) =>
              \/ SameView(f)
              \/ /\ asked[f] = n /\ StateOf(f) \in {"asking", "answered", "missing"}
                 /\ StateOf(f)' = "stuck" /\ ContentOf(f)' = <<>>
<1>1. /\ pc[f] \in FetchLabels /\ pc'[f] \in FetchLabels
      /\ pc'[f] = IF By[f] = n /\ Active(f) THEN "dead" ELSE pc[f]
      /\ hpc'[f] = IF asked[f] = n /\ pc[f] # "named" THEN "gone" ELSE hpc[f]
      /\ hout'[f] = IF asked[f] = n THEN <<>> ELSE hout[f]
      /\ UNCHANGED <<down, rest>>
  BY DEF Departs, Ends, Leaves, Active, TypeInv, LabelType, FetchLabels
<1>2. pc[f] \in Awaiting =>
        \/ Answers(f) = {} /\ StateOf(f) = (IF hpc[f] = "gone" THEN "stuck" ELSE "asking")
        \/ \E a \in Replies(Contents) \ {Null} :
             Answers(f) = {a} /\ StateOf(f) = (IF a.val = 404 THEN "missing" ELSE "answered")
  BY <1>1, OneAnswer, ViewIs, ViewAt
<1>3. Active(f) => StateOf(f) \in {"asking", "answered", "storing", "stuck", "missing", "over"}
  <2>1. CASE pc[f] \in Awaiting
    BY <1>2, <2>1
  <2>2. CASE pc[f] \notin Awaiting
    BY <1>1, <2>2, ViewIs, ViewAt DEF Awaiting, Active, Over, FetchLabels
  <2> QED  BY <2>1, <2>2
<1>4. ~Active(f) => StateOf(f) \in {"todo", "none", "missing", "dead", "over"}
  BY <1>1, ViewIs, ViewAt DEF Active, Over
<1>5. By[f] = n /\ Active(f) => StateOf(f)' = "dead" /\ ContentOf(f)' = <<>>
  BY <1>1, ViewIs, ViewAt
<1>6. ASSUME ~(By[f] = n /\ Active(f))
      PROVE  \/ SameView(f)
             \/ /\ asked[f] = n /\ StateOf(f) \in {"asking", "answered", "missing"}
                /\ StateOf(f)' = "stuck" /\ ContentOf(f)' = <<>>
  <2>1. pc'[f] = pc[f]
    BY <1>1, <1>6
  <2>2. CASE pc[f] \notin Awaiting
    BY <1>1, <2>1, <2>2, ViewIs, ViewAt DEF SameView, Awaiting, FetchLabels
  <2>3. CASE asked[f] # n
    <3>1. Answers(f)' = Answers(f)
      BY <1>1, <2>3, AnswersAre
    <3> QED  BY <1>1, <2>1, <2>3, <3>1, ViewIs DEF SameView
  <2>4. CASE pc[f] \in Awaiting /\ asked[f] = n
    <3>1. hpc'[f] = "gone" /\ Answers(f)' = Bodies(down[f], <<>>)
      BY <1>1, <2>4, AnswersAre DEF Awaiting
    <3>2. Answers(f)' = {} \/ Answers(f)' = Answers(f)
      BY <2>4, <3>1, OneAnswer
    <3>3. CASE Answers(f)' = {}
      <4>1. StateOf(f)' = "stuck" /\ ContentOf(f)' = <<>>
        BY <1>1, <2>1, <2>4, <3>1, <3>3, ViewIs, ViewAt
      <4>2. CASE StateOf(f) = "stuck"
        <5>1. Answers(f) = {}
          BY <1>2, <2>4, <4>2
        <5>2. ContentOf(f) = <<>>
          BY <1>1, <2>4, <5>1, ViewIs, ViewAt
        <5> QED  BY <4>1, <4>2, <5>2 DEF SameView
      <4>3. CASE StateOf(f) # "stuck"
        BY <1>2, <2>4, <4>1, <4>3
      <4> QED  BY <4>2, <4>3
    <3>4. ASSUME Answers(f)' = Answers(f), Answers(f) # {}
          PROVE  SameView(f)
      <4>1. PICK a \in Replies(Contents) \ {Null} : Answers(f) = {a}
        BY <2>4, <3>4, OneAnswer
      <4>2. /\ StateOf(f) = (IF a.val = 404 THEN "missing" ELSE "answered")
            /\ ContentOf(f) = (IF a.val = 404 THEN <<>> ELSE Decoded(a.body))
        BY <1>1, <2>4, <4>1, ViewIs, ViewAt
      <4>3. /\ StateOf(f)' = (IF a.val = 404 THEN "missing" ELSE "answered")
            /\ ContentOf(f)' = (IF a.val = 404 THEN <<>> ELSE Decoded(a.body))
        <5>1. pc'[f] \in FetchLabels /\ pc'[f] \in Awaiting /\ Answers(f)' = {a}
          BY <1>1, <2>1, <2>4, <3>4, <4>1
        <5> QED  BY <5>1, ViewIs, ViewAt
      <4> QED  BY <4>2, <4>3 DEF SameView
    <3> QED  BY <3>2, <3>3, <3>4
  <2> QED  BY <2>2, <2>3, <2>4
<1> QED  BY <1>3, <1>4, <1>5, <1>6

LEMMA DepartImplements ==
  ASSUME TypeInv, NEW n \in Nodes, Departs(n)
  PROVE  Exchange!Next
<1> DEFINE done == { f \in Fetches : By[f] = n /\ StateOf(f) \in {"missing", "over"}
                                       /\ StateOf(f)' = "dead" }
<1> DEFINE lost == { f \in Fetches : StateOf(f) # "stuck" /\ StateOf(f)' = "stuck" }
<1> DEFINE under == { f \in Fetches : By[f] = n
                        /\ StateOf(f) \in {"asking", "answered", "storing", "stuck"} }
<1> DEFINE dead == Exchange!UnderWay(n) \cup done
<1>1. /\ process[n] = "up" /\ \E how \in {"quit", "ended"} : process' = [process EXCEPT ![n] = how]
      /\ UNCHANGED <<disk, want, asked>>
  BY DEF Departs, Ends, Leaves
<1>2. Exchange!UnderWay(n) = under
  BY DEF Exchange!UnderWay
<1>3. ASSUME NEW f \in Fetches
      PROVE  /\ f \in dead => StateOf(f)' = "dead" /\ ContentOf(f)' = <<>>
             /\ f \in lost \ dead => StateOf(f)' = "stuck" /\ ContentOf(f)' = <<>>
             /\ f \in lost => asked[f] = n /\ StateOf(f) \in {"asking", "answered", "missing"}
             /\ f \notin lost \cup dead => SameView(f)
             /\ f \in lost => f \notin dead
  <2>1. CASE By[f] = n /\ Active(f)
    BY <1>2, <2>1, DepartView
  <2>2. CASE ~(By[f] = n /\ Active(f))
    <3>1. f \notin under
      BY <2>2, DepartView
    <3>2. f \notin done
      BY <2>2, DepartView DEF SameView
    <3> QED  BY <1>2, <2>2, <3>1, <3>2, DepartView DEF SameView
  <2> QED  BY <2>1, <2>2
<1>4. done \in SUBSET Exchange!Finished(n) /\ lost \in SUBSET Exchange!Awaited(n)
  BY <1>3 DEF Exchange!Finished, Exchange!Awaited
<1> HIDE DEF done, lost, under
<1>5. [f \in Fetches |-> StateOf(f)]' =
        [f \in Fetches |-> CASE f \in dead -> "dead"
                             [] f \in lost \ dead -> "stuck"
                             [] OTHER -> [g \in Fetches |-> StateOf(g)][f]]
  BY <1>3 DEF SameView
<1>6. [f \in Fetches |-> ContentOf(f)]' =
        [f \in Fetches |-> IF f \in dead \cup lost THEN <<>>
                           ELSE [g \in Fetches |-> ContentOf(g)][f]]
  BY <1>3 DEF SameView
<1>7. Exchange!Leave(n)
  BY <1>1, <1>4, <1>5, <1>6 DEF Exchange!Leave
<1> QED  BY <1>7 DEF Exchange!Next

LEMMA StepImplements ==
  ASSUME TypeInv, NoEnd, [Next]_vars
  PROVE  [Exchange!Next]_(Exchange!vars)
<1>1. ASSUME UNCHANGED <<fetch, up, down, handler>>, NEW f \in Fetches
      PROVE  SameView(f)
  <2>1. Answers(f)' = Answers(f)
    BY <1>1 DEF Answers, handler
  <2> QED  BY <1>1, <2>1, ViewIs DEF SameView, fetch, handler
<1>2. ASSUME NEW n \in Nodes, Restart(n)
      PROVE  Exchange!Next
  <2>1. /\ process[n] # "up" /\ process' = [process EXCEPT ![n] = "up"]
        /\ UNCHANGED <<disk, want, asked, fetch, up, down, handler>>
    BY <1>2 DEF Restart, fetch
  <2>2. Exchange!Return(n)
    BY <1>1, <2>1 DEF SameView, Exchange!Return
  <2> QED  BY <2>2 DEF Exchange!Next
<1>3. ASSUME (\E n \in Nodes : Forget(n)) \/ UNCHANGED vars
      PROVE  UNCHANGED Exchange!vars
  <2>1. UNCHANGED <<process, disk, want, asked, fetch, up, down, handler>>
    BY <1>3 DEF Forget, vars, nodes, lives, fetch
  <2> QED  BY <1>1, <2>1, Unseen
<1>4. CASE Next
  <2>1. CASE \E f \in Fetches : FetchActs(f)
    BY <1>4, <2>1, FetchImplements
  <2>2. CASE \E f \in Fetches : HandlerActs(f)
    BY <2>2, HandlerImplements
  <2>3. CASE \E n \in Nodes : Departs(n) \/ Forget(n) \/ Restart(n)
    BY <1>2, <1>3, <2>3, DepartImplements
  <2> QED  BY <1>4, <2>1, <2>2, <2>3, Steps
<1> QED  BY <1>3, <1>4

LEMMA InitImplements ==
  ASSUME Init
  PROVE  Exchange!Init
<1>1. ASSUME NEW f \in Fetches
      PROVE  StateOf(f) = "todo" /\ ContentOf(f) = <<>>
  <2>1. pc[f] = "todo" /\ "todo" \in FetchLabels
    BY DEF Init, FetchLabels
  <2> QED  BY <2>1, ViewIs, ViewAt
<1> QED  BY <1>1 DEF Init, Exchange!Init

(***************************************************************************)
(* PeerTransfer implements FileExchange: a get that ends well has stored,  *)
(* as its number, what came through of one file of the peer as that was at *)
(* one instant at which the peer ran - although get_content reads it in    *)
(* blocks while add_rfc of the peer's own get may be writing there, and    *)
(* frames, handlers and processes come and go between.                     *)
(***************************************************************************)
THEOREM TransferImplementsExchange == Spec => ImplementsExchange
<1>1. Init => TypeInv /\ NoEnd /\ Exchange!Init
  BY TypeInit, NoEndInit, InitImplements
<1>2. TypeInv /\ NoEnd /\ [Next]_vars => TypeInv' /\ NoEnd'
  BY TypeNext, NoEndNext
<1>3. TypeInv /\ NoEnd /\ [Next]_vars => [Exchange!Next]_(Exchange!vars)
  BY StepImplements
<1> QED  BY <1>1, <1>2, <1>3, PTL DEF Spec, ImplementsExchange, Exchange!Spec
=============================================================================
