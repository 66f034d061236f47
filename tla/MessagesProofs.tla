---------------------------- MODULE MessagesProofs ----------------------------
(***************************************************************************)
(* Proofs about Messages, for messages of any length: no copy leaves the   *)
(* buffer, and what arrives is what was sent.                              *)
(***************************************************************************)
EXTENDS Messages, SetInduction

(***************************************************************************)
(* Where the parts of a whole end                                          *)
(***************************************************************************)

\* e[i] is where the i-th of n parts of those lengths ends.
AreEnds(e, n, first, length) ==
  /\ e \in [0..n -> Nat] /\ e[0] = first
  /\ \A i \in 1..n : e[i] = e[i - 1] + length[i]

LEMMA EndsExist ==
  ASSUME NEW n \in Nat, NEW first \in Nat, NEW length \in [1..n -> Nat]
  PROVE  \E e : AreEnds(e, n, first, length)
<1> DEFINE Upto(e, k) ==
      /\ e \in [0..k -> Nat] /\ e[0] = first
      /\ \A i \in 1..k : e[i] = e[i - 1] + length[i]
<1> DEFINE Has(k) == k <= n => \E e : Upto(e, k)
<1> DEFINE S == { k \in Nat : Has(k) }
<1>1. Has(0)
  <2>1. Upto([i \in 0..0 |-> first], 0)
    OBVIOUS
  <2> QED  BY <2>1
<1>2. ASSUME NEW k \in Nat, Has(k)
      PROVE  Has(k + 1)
  <2>1. SUFFICES ASSUME k + 1 <= n
                 PROVE  \E e : Upto(e, k + 1)
    OBVIOUS
  <2>2. PICK e : Upto(e, k)
    <3>1. k <= n
      BY <2>1
    <3> HIDE DEF Upto
    <3> QED  BY <1>2, <3>1
  <2> DEFINE d == [i \in 0..(k + 1) |-> IF i = k + 1 THEN e[k] + length[k + 1] ELSE e[i]]
  <2>3. length[k + 1] \in Nat
    BY <2>1
  <2>4. d \in [0..(k + 1) -> Nat] /\ d[0] = first
    BY <2>2, <2>3
  <2>5. ASSUME NEW i \in 1..(k + 1)
        PROVE  d[i] = d[i - 1] + length[i]
    <3>1. CASE i = k + 1
      BY <3>1
    <3>2. CASE i # k + 1
      <4>1. i \in 1..k /\ i - 1 \in 0..k /\ i \in 0..k
        BY <3>2
      <4>2. d[i] = e[i] /\ d[i - 1] = e[i - 1]
        BY <4>1
      <4> QED  BY <2>2, <4>1, <4>2
    <3> QED  BY <3>1, <3>2
  <2>6. Upto(d, k + 1)
    BY <2>4, <2>5
  <2> QED  BY <2>6
<1>3. Nat \subseteq S
  <2> HIDE DEF Has
  <2>1. 0 \in S /\ \A k \in Nat : k \in S => k + 1 \in S
    BY <1>1, <1>2
  <2> HIDE DEF S
  <2> QED  BY <2>1, InductionBySet
<1>4. Has(n)
  <2> HIDE DEF Has
  <2> QED  BY <1>3
<1>5. \E e : Upto(e, n)
  <2>1. n <= n
    OBVIOUS
  <2> HIDE DEF Upto
  <2> QED  BY <1>4, <2>1
<1> QED  BY <1>5 DEF AreEnds

\* They stand in their order.
LEMMA EndsAscend ==
  ASSUME NEW n \in Nat, NEW first \in Nat, NEW length \in [1..n -> Nat],
         NEW e, AreEnds(e, n, first, length)
  PROVE  \A i, j \in 0..n : i <= j => e[i] <= e[j]
<1> SUFFICES ASSUME NEW i \in 0..n
             PROVE  \A j \in 0..n : i <= j => e[i] <= e[j]
  OBVIOUS
<1>1. e \in [0..n -> Nat] /\ \A k \in 1..n : e[k] = e[k - 1] + length[k]
  BY DEF AreEnds
<1> DEFINE S == { k \in Nat : i + k <= n => e[i] <= e[i + k] }
<1>2. 0 \in S
  BY <1>1
<1>3. ASSUME NEW k \in Nat, k \in S
      PROVE  k + 1 \in S
  <2>1. SUFFICES ASSUME i + (k + 1) <= n
                 PROVE  e[i] <= e[i + (k + 1)]
    OBVIOUS
  <2>2. i + (k + 1) \in 1..n /\ (i + (k + 1)) - 1 = i + k /\ i + k \in 0..n
    BY <2>1
  <2>3. e[i + (k + 1)] = e[i + k] + length[i + (k + 1)]
    BY <1>1, <2>2
  <2>4. length[i + (k + 1)] \in Nat /\ e[i] \in Nat /\ e[i + k] \in Nat /\ e[i] <= e[i + k]
    BY <1>1, <1>3, <2>2
  <2> QED  BY <2>3, <2>4
<1>4. Nat \subseteq S
  <2> HIDE DEF S
  <2> QED  BY <1>2, <1>3, InductionBySet
<1> SUFFICES ASSUME NEW j \in 0..n, i <= j
             PROVE  e[i] <= e[j]
  OBVIOUS
<1>5. j - i \in Nat /\ i + (j - i) = j
  OBVIOUS
<1>6. j - i \in S
  <2> HIDE DEF S
  <2> QED  BY <1>4, <1>5
<1> QED  BY <1>5, <1>6

\* There is one such function.
LEMMA EndsUnique ==
  ASSUME NEW n \in Nat, NEW first \in Nat, NEW length \in [1..n -> Nat],
         NEW e, AreEnds(e, n, first, length), NEW d, AreEnds(d, n, first, length)
  PROVE  e = d
<1>1. /\ e \in [0..n -> Nat] /\ d \in [0..n -> Nat] /\ e[0] = d[0]
      /\ \A k \in 1..n : e[k] = e[k - 1] + length[k] /\ d[k] = d[k - 1] + length[k]
  BY DEF AreEnds
<1> DEFINE S == { k \in Nat : k <= n => e[k] = d[k] }
<1>2. 0 \in S
  BY <1>1
<1>3. ASSUME NEW k \in Nat, k \in S
      PROVE  k + 1 \in S
  <2>1. SUFFICES ASSUME k + 1 <= n
                 PROVE  e[k + 1] = d[k + 1]
    OBVIOUS
  <2>2. k + 1 \in 1..n /\ (k + 1) - 1 = k /\ e[k] = d[k]
    BY <1>3, <2>1
  <2> QED  BY <1>1, <2>2
<1>4. Nat \subseteq S
  <2> HIDE DEF S
  <2> QED  BY <1>2, <1>3, InductionBySet
<1>5. \A k \in 0..n : e[k] = d[k]
  BY <1>4
<1> QED  BY <1>1, <1>5

(***************************************************************************)
(* One sequence after another                                              *)
(***************************************************************************)

Lengths(s) == [i \in 1..Len(s) |-> Len(s[i])]
Ends(s) == CHOOSE e : AreEnds(e, Len(s), 0, Lengths(s))

LEMMA EndsAre ==
  ASSUME NEW X, NEW s \in Seq(Seq(X))
  PROVE  /\ Ends(s) \in [0..Len(s) -> Nat] /\ Ends(s)[0] = 0
         /\ \A i \in 1..Len(s) : Ends(s)[i] = Ends(s)[i - 1] + Len(s[i])
         /\ \A i, j \in 0..Len(s) : i <= j => Ends(s)[i] <= Ends(s)[j]
<1>1. Lengths(s) \in [1..Len(s) -> Nat] /\ \A i \in 1..Len(s) : Lengths(s)[i] = Len(s[i])
  BY DEF Lengths
<1>2. Len(s) \in Nat
  OBVIOUS
<1>3. \E e : AreEnds(e, Len(s), 0, Lengths(s))
  BY <1>1, <1>2, EndsExist
<1>4. AreEnds(Ends(s), Len(s), 0, Lengths(s))
  BY <1>3 DEF Ends
<1>5. \A i, j \in 0..Len(s) : i <= j => Ends(s)[i] <= Ends(s)[j]
  BY <1>1, <1>2, <1>4, EndsAscend
<1> QED  BY <1>1, <1>4, <1>5 DEF AreEnds

IsFlat(g, s, k) ==
  g = [i \in 1..k |-> IF i = 1 THEN s[i] ELSE g[i - 1] \o s[i]]

LEMMA FlatIs ==
  ASSUME NEW s, Len(s) # 0, \E g : IsFlat(g, s, Len(s))
  PROVE  \E g : IsFlat(g, s, Len(s)) /\ FlattenSeq(s) = g[Len(s)]
BY DEF FlattenSeq, IsFlat

LEMMA FlatExists ==
  ASSUME NEW X, NEW s \in Seq(Seq(X))
  PROVE  \E g : IsFlat(g, s, Len(s))
<1> DEFINE Has(k) == \E g : IsFlat(g, s, k)
<1> DEFINE S == { k \in Nat : Has(k) }
<1>1. Has(0)
  <2>1. IsFlat([i \in 1..0 |-> <<>>], s, 0)
    BY DEF IsFlat
  <2> QED  BY <2>1
<1>2. ASSUME NEW k \in Nat, Has(k)
      PROVE  Has(k + 1)
  <2>1. PICK g : IsFlat(g, s, k)
    BY <1>2
  <2> DEFINE d == [i \in 1..(k + 1) |-> IF i = k + 1
                                        THEN IF i = 1 THEN s[i] ELSE g[k] \o s[i]
                                        ELSE g[i]]
  <2>2. ASSUME NEW i \in 1..(k + 1)
        PROVE  d[i] = IF i = 1 THEN s[i] ELSE d[i - 1] \o s[i]
    <3>1. CASE i = k + 1
      <4>1. i # 1 => i - 1 = k /\ k \in 1..(k + 1) /\ d[k] = g[k]
        BY <3>1
      <4> QED  BY <3>1, <4>1
    <3>2. CASE i # k + 1
      <4>1. i \in 1..k /\ (i # 1 => i - 1 \in 1..k)
        BY <3>2
      <4>2. g[i] = IF i = 1 THEN s[i] ELSE g[i - 1] \o s[i]
        BY <2>1, <4>1 DEF IsFlat
      <4>3. d[i] = g[i] /\ (i # 1 => d[i - 1] = g[i - 1])
        BY <3>2, <4>1
      <4> HIDE DEF d
      <4> QED  BY <4>2, <4>3
    <3> QED  BY <3>1, <3>2
  <2>3. IsFlat(d, s, k + 1)
    <3>1. d = [i \in 1..(k + 1) |-> d[i]]
      OBVIOUS
    <3> HIDE DEF d
    <3> QED  BY <2>2, <3>1 DEF IsFlat
  <2> QED  BY <2>3
<1>3. Nat \subseteq S
  <2> HIDE DEF Has
  <2>1. 0 \in S /\ \A k \in Nat : k \in S => k + 1 \in S
    BY <1>1, <1>2
  <2> HIDE DEF S
  <2> QED  BY <2>1, InductionBySet
<1>4. Len(s) \in Nat
  OBVIOUS
<1> QED  BY <1>3, <1>4

LEMMA Joined ==
  ASSUME NEW X, NEW a \in Seq(X), NEW b \in Seq(X)
  PROVE  /\ a \o b \in Seq(X) /\ Len(a \o b) = Len(a) + Len(b)
         /\ \A i \in 1..Len(a) : (a \o b)[i] = a[i]
         /\ \A i \in 1..Len(b) : (a \o b)[Len(a) + i] = b[i]
OBVIOUS

\* The i-th sequence stands behind the ends of those before it.
LEMMA Flattened ==
  ASSUME NEW X, NEW s \in Seq(Seq(X))
  PROVE  /\ FlattenSeq(s) \in Seq(X) /\ Len(FlattenSeq(s)) = Ends(s)[Len(s)]
         /\ \A i \in 1..Len(s) : \A c \in 1..Len(s[i]) :
              FlattenSeq(s)[Ends(s)[i - 1] + c] = s[i][c]
<1> DEFINE n == Len(s)
<1> DEFINE e == Ends(s)
<1>1. /\ n \in Nat /\ e \in [0..n -> Nat] /\ e[0] = 0
      /\ \A i \in 1..n : s[i] \in Seq(X) /\ Len(s[i]) \in Nat /\ e[i] = e[i - 1] + Len(s[i])
      /\ \A i, j \in 0..n : i <= j => e[i] <= e[j]
  BY EndsAre
<1> DEFINE Flat(t, k) ==
      /\ t \in Seq(X) /\ Len(t) = e[k]
      /\ \A i \in 1..k : \A c \in 1..Len(s[i]) : t[e[i - 1] + c] = s[i][c]
<1>2. CASE n = 0
  <2>1. s = <<>> /\ FlattenSeq(s) = <<>>
    BY <1>2 DEF FlattenSeq
  <2> QED  BY <1>1, <1>2, <2>1
<1>3. CASE n # 0
  <2>1. PICK g : IsFlat(g, s, n) /\ FlattenSeq(s) = g[n]
    BY <1>3, FlatIs, FlatExists
  <2>2. \A i \in 1..n : g[i] = IF i = 1 THEN s[i] ELSE g[i - 1] \o s[i]
    BY <2>1 DEF IsFlat
  <2> DEFINE Upto(k) == k + 1 <= n => Flat(g[k + 1], k + 1)
  <2> DEFINE S == { k \in Nat : Upto(k) }
  <2>3. Upto(0)
    <3>1. 1 \in 1..n /\ g[1] = s[1]
      BY <1>1, <1>3, <2>2
    <3>2. e[1] = Len(s[1]) /\ e[1 - 1] = 0
      BY <1>1, <3>1
    <3> QED  BY <1>1, <3>1, <3>2
  <2>4. ASSUME NEW k \in Nat, Upto(k)
        PROVE  Upto(k + 1)
    <3>1. SUFFICES ASSUME k + 2 <= n
                   PROVE  Flat(g[k + 2], k + 2)
      BY <1>1
    <3> DEFINE a == g[k + 1]
    <3> DEFINE b == s[k + 2]
    <3>2. /\ k + 2 \in 1..n /\ k + 1 \in 1..n /\ k + 2 # 1 /\ (k + 2) - 1 = k + 1
          /\ k + 1 <= n
      BY <1>1, <3>1
    <3>3. Flat(a, k + 1)
      <4> HIDE DEF Flat
      <4> QED  BY <2>4, <3>2
    <3>4. g[k + 2] = a \o b /\ b \in Seq(X) /\ e[k + 2] = e[k + 1] + Len(b) /\ e[k + 1] \in Nat
      <4>1. g[k + 2] = g[(k + 2) - 1] \o s[k + 2]
        BY <2>2, <3>2
      <4>2. b \in Seq(X) /\ e[k + 2] = e[(k + 2) - 1] + Len(b) /\ k + 1 \in 0..n
        BY <1>1, <3>2
      <4> QED  BY <1>1, <3>2, <4>1, <4>2
    <3>5. /\ a \in Seq(X) /\ Len(a) = e[k + 1]
          /\ \A i \in 1..(k + 1) : \A c \in 1..Len(s[i]) : a[e[i - 1] + c] = s[i][c]
      BY <3>3
    <3>6. b = s[k + 2]
      OBVIOUS
    <3> HIDE DEF a, b, e, n
    <3>7. a \o b \in Seq(X) /\ Len(a \o b) = e[k + 2]
      <4>1. a \in Seq(X) /\ b \in Seq(X) /\ e[k + 2] = Len(a) + Len(b)
        BY <3>4, <3>5
      <4>2. a \o b \in Seq(X) /\ Len(a \o b) = Len(a) + Len(b)
        BY ONLY <4>1, Joined
      <4> QED  BY ONLY <4>1, <4>2
    <3>8. ASSUME NEW i \in 1..(k + 2), NEW c \in 1..Len(s[i])
          PROVE  (a \o b)[e[i - 1] + c] = s[i][c]
      <4>1. i \in 1..n /\ i - 1 \in 0..n /\ i \in 0..n
        BY <1>1, <3>2
      <4>2. e[i - 1] \in Nat /\ e[i] = e[i - 1] + Len(s[i]) /\ Len(s[i]) \in Nat
        BY <1>1, <4>1
      <4>3. CASE i = k + 2
        <5>1. s[i] = b /\ e[i - 1] = Len(a) /\ c \in 1..Len(b)
          BY <3>2, <3>5, <3>6, <4>3
        <5>2. a \in Seq(X) /\ b \in Seq(X)
          BY <3>4, <3>5
        <5>3. (a \o b)[Len(a) + c] = b[c]
          BY ONLY <5>1, <5>2, Joined
        <5> QED  BY ONLY <5>1, <5>3
      <4>4. CASE i # k + 2
        <5>1. i \in 1..(k + 1) /\ i <= k + 1 /\ k + 1 \in 0..n
          BY <3>2, <4>4
        <5>2. e[i] <= e[k + 1]
          BY <1>1, <4>1, <5>1
        <5>3. e[i - 1] + c \in 1..Len(a)
          <6>1. Len(a) = e[k + 1] /\ e[k + 1] \in Nat
            BY <3>4, <3>5
          <6> QED  BY <4>2, <5>2, <6>1
        <5>4. a[e[i - 1] + c] = s[i][c]
          BY <3>5, <5>1
        <5>5. a \in Seq(X) /\ b \in Seq(X)
          BY <3>4, <3>5
        <5>6. (a \o b)[e[i - 1] + c] = a[e[i - 1] + c]
          BY ONLY <5>3, <5>5, Joined
        <5> QED  BY ONLY <5>4, <5>6
      <4> QED  BY <4>3, <4>4
    <3> QED  BY <3>4, <3>7, <3>8
  <2>5. Nat \subseteq S
    <3> HIDE DEF Upto
    <3>1. 0 \in S /\ \A k \in Nat : k \in S => k + 1 \in S
      BY <2>3, <2>4
    <3> HIDE DEF S
    <3> QED  BY <3>1, InductionBySet
  <2>6. Flat(g[n], n)
    <3>1. n - 1 \in Nat /\ (n - 1) + 1 = n /\ n <= n
      BY <1>1, <1>3
    <3>2. Upto(n - 1)
      <4> HIDE DEF Upto
      <4> QED  BY <2>5, <3>1
    <3> HIDE DEF Flat
    <3> QED  BY <3>1, <3>2
  <2> QED  BY <2>1, <2>6
<1> QED  BY <1>2, <1>3

(***************************************************************************)
(* The fields of a message                                                 *)
(***************************************************************************)

Cell == Int \X Int
Text == Seq(Nat)
Entry == [rfc : Int, host : Seq(Nat \ {NUL}), port : Int]

LEMMA CellsOf ==
  /\ \A v \in Int, width \in Nat : Word(v, width) \in Seq(Cell) /\ Len(Word(v, width)) = width
  /\ \A v, width : \A k \in 1..width : Word(v, width)[k] = <<v, k>>
  /\ \A s \in Text : Chars(s) \in Seq(Cell) /\ Len(Chars(s)) = Len(s)
  /\ \A s \in Text : \A k \in 1..Len(s) : Chars(s)[k] = <<s[k], 0>>
<1>1. ASSUME NEW v \in Int, NEW width \in Nat
      PROVE  Word(v, width) \in Seq(Cell) /\ Len(Word(v, width)) = width
  <2>1. Word(v, width) \in [1..width -> Cell]
    BY DEF Word, Cell
  <2> QED  BY <2>1
<1>2. ASSUME NEW s \in Text
      PROVE  Chars(s) \in Seq(Cell) /\ Len(Chars(s)) = Len(s)
  <2>1. DOMAIN s = 1..Len(s) /\ Len(s) \in Nat /\ \A i \in 1..Len(s) : s[i] \in Nat
    BY <1>2 DEF Text
  <2>2. Chars(s) \in [1..Len(s) -> Cell]
    BY <2>1 DEF Chars, Cell
  <2> QED  BY <2>1, <2>2
<1>3. \A v, width : \A k \in 1..width : Word(v, width)[k] = <<v, k>>
  BY DEF Word
<1>4. \A s \in Text : \A k \in 1..Len(s) : Chars(s)[k] = <<s[k], 0>>
  BY DEF Chars, Text
<1> QED  BY <1>1, <1>2, <1>3, <1>4

\* The number of fields of an entry, and how many come before those that a
\* client has.
PerEntry(kind) == IF kind = "ListRFCResponse" THEN 4 ELSE 3
Ahead(kind) == IF kind = "ListRFCResponse" THEN 1 ELSE 0

LEMMA InFront ==
  ASSUME NEW X, NEW a \in X, NEW b \in X, NEW c \in X, NEW d \in X
  PROVE  <<a>> \o <<b, c, d>> = <<a, b, c, d>> /\ <<>> \o <<b, c, d>> = <<b, c, d>>
<1>1. <<a>> \o <<b, c, d>> = <<a, b, c, d>>
  <2> DEFINE s == <<a>> \o <<b, c, d>>
  <2>1. /\ s \in Seq(X) /\ Len(s) = 4 /\ s[1] = a
        /\ s[1 + 1] = b /\ s[1 + 2] = c /\ s[1 + 3] = d
    <3>1. /\ <<a>> \in Seq(X) /\ Len(<<a>>) = 1 /\ <<a>>[1] = a
          /\ <<b, c, d>> \in Seq(X) /\ Len(<<b, c, d>>) = 3
          /\ <<b, c, d>>[1] = b /\ <<b, c, d>>[2] = c /\ <<b, c, d>>[3] = d
      OBVIOUS
    <3> QED  BY <3>1, Joined
  <2> HIDE DEF s
  <2>2. s = <<a, b, c, d>>
    BY <2>1
  <2> QED  BY <2>2 DEF s
<1>2. <<>> \o <<b, c, d>> = <<b, c, d>>
  OBVIOUS
<1> QED  BY <1>1, <1>2

LEMMA EntryIs ==
  ASSUME NEW kind \in Listing, NEW e \in Entry
  PROVE  /\ EntryFields(kind, e) \in Seq(Seq(Cell))
         /\ Len(EntryFields(kind, e)) = PerEntry(kind)
         /\ kind = "ListRFCResponse" => EntryFields(kind, e)[1] = Word(e.rfc, IntLen)
         /\ EntryFields(kind, e)[Ahead(kind) + 1] = Word(Len(e.host), IntLen)
         /\ EntryFields(kind, e)[Ahead(kind) + 2] = Chars(e.host)
         /\ EntryFields(kind, e)[Ahead(kind) + 3] = Word(e.port, IntLen)
<1>1. e.rfc \in Int /\ e.host \in Text /\ Len(e.host) \in Int /\ e.port \in Int /\ IntLen \in Nat
  BY MessagesAssumption DEF Entry, Text
<1> DEFINE a == Word(e.rfc, IntLen)
<1> DEFINE b == Word(Len(e.host), IntLen)
<1> DEFINE c == Chars(e.host)
<1> DEFINE d == Word(e.port, IntLen)
<1>2. a \in Seq(Cell) /\ b \in Seq(Cell) /\ c \in Seq(Cell) /\ d \in Seq(Cell)
  BY <1>1, CellsOf
<1>3. EntryFields(kind, e) = IF kind = "ListRFCResponse" THEN <<a, b, c, d>> ELSE <<b, c, d>>
  <2>1. <<a>> \o <<b, c, d>> = <<a, b, c, d>> /\ <<>> \o <<b, c, d>> = <<b, c, d>>
    <3> HIDE DEF a, b, c, d
    <3> QED  BY <1>2, InFront
  <2> QED  BY <2>1 DEF EntryFields
<1> HIDE DEF a, b, c, d
<1>4. /\ EntryFields(kind, e) \in Seq(Seq(Cell))
      /\ Len(EntryFields(kind, e)) = PerEntry(kind)
      /\ kind = "ListRFCResponse" => EntryFields(kind, e)[1] = a
      /\ EntryFields(kind, e)[Ahead(kind) + 1] = b
      /\ EntryFields(kind, e)[Ahead(kind) + 2] = c
      /\ EntryFields(kind, e)[Ahead(kind) + 3] = d
  BY <1>2, <1>3 DEF PerEntry, Ahead
<1> QED  BY <1>4 DEF a, b, c, d

LEMMA EvenEnds ==
  ASSUME NEW X, NEW s \in Seq(Seq(X)), NEW k \in {3, 4}, \A i \in 1..Len(s) : Len(s[i]) = k
  PROVE  \A i \in 0..Len(s) : Ends(s)[i] = k * i
<1>1. /\ Len(s) \in Nat /\ Ends(s)[0] = 0
      /\ \A i \in 1..Len(s) : Ends(s)[i] = Ends(s)[i - 1] + k
  <2>1. Len(s) \in Nat
    OBVIOUS
  <2> QED  BY <2>1, EndsAre
<1> DEFINE S == { i \in Nat : i <= Len(s) => Ends(s)[i] = k * i }
<1>2. 0 \in S
  BY <1>1
<1>3. ASSUME NEW i \in Nat, i \in S
      PROVE  i + 1 \in S
  <2>1. SUFFICES ASSUME i + 1 <= Len(s)
                 PROVE  Ends(s)[i + 1] = k * (i + 1)
    OBVIOUS
  <2>2. i + 1 \in 1..Len(s) /\ (i + 1) - 1 = i /\ Ends(s)[i] = k * i
    BY <1>1, <1>3, <2>1
  <2>3. Ends(s)[i + 1] = k * i + k
    BY <1>1, <2>2
  <2> QED  BY <2>3
<1>4. Nat \subseteq S
  <2> HIDE DEF S
  <2> QED  BY <1>2, <1>3, InductionBySet
<1> QED  BY <1>1, <1>4

\* The fields before the entry behind p others.
First(kind, p) == 2 + PerEntry(kind) * p

LEMMA FirstIs ==
  ASSUME NEW kind, NEW p \in Int
  PROVE  /\ First(kind, 0) = 2 /\ First(kind, p) \in Int
         /\ First(kind, p + 1) = First(kind, p) + Ahead(kind) + 3
         /\ Ahead(kind) \in {0, 1} /\ PerEntry(kind) = Ahead(kind) + 3
<1>1. PerEntry(kind) = Ahead(kind) + 3 /\ Ahead(kind) \in {0, 1} /\ PerEntry(kind) \in {3, 4}
  BY DEF PerEntry, Ahead
<1>2. CASE PerEntry(kind) = 3
  BY <1>1, <1>2 DEF First
<1>3. CASE PerEntry(kind) = 4
  BY <1>1, <1>3 DEF First
<1> QED  BY <1>1, <1>2, <1>3

LEMMA ObjectIs ==
  ASSUME NEW m, Object(m)
  PROVE  /\ m.kind \in Kinds /\ m.number \in Int /\ m.code \in Int /\ m.text \in Text
         /\ m.port \in Int /\ m.list \in Seq(Entry)
         /\ Len(m.list) \in Nat /\ DOMAIN m.list = 1..Len(m.list)
         /\ \A i \in 1..Len(m.list) : m.list[i] \in Entry
         /\ Len(m.text) \in Nat /\ IntLen \in Nat \ {0} /\ ShortLen \in Nat \ {0}
<1>1. m \in [kind : Kinds, number : Int, code : Int, text : Seq(Nat), port : Int,
            list : Seq([rfc : Int, host : Seq(Nat \ {NUL}), port : Int])]
  BY DEF Object
<1>2. m.list \in Seq(Entry)
  BY <1>1 DEF Entry
<1>3. /\ Len(m.list) \in Nat /\ DOMAIN m.list = 1..Len(m.list)
      /\ \A i \in 1..Len(m.list) : m.list[i] \in Entry
  BY <1>2
<1> QED  BY <1>1, <1>2, <1>3, MessagesAssumption DEF Text

LEMMA ListFields ==
  ASSUME NEW m, Object(m), m.kind \in Listing, m.code = 200
  PROVE  /\ Fields(m) \in Seq(Seq(Cell)) /\ Len(Fields(m)) = First(m.kind, Len(m.list))
         /\ Fields(m)[1] = Word(m.code, IntLen)
         /\ Fields(m)[2] = Word(Len(m.list), IntLen)
         /\ \A p \in 0..(Len(m.list) - 1) :
              LET f == First(m.kind, p)
                  h == f + Ahead(m.kind)
                  e == m.list[p + 1]
              IN  /\ m.kind = "ListRFCResponse" => Fields(m)[f + 1] = Word(e.rfc, IntLen)
                  /\ Fields(m)[h + 1] = Word(Len(e.host), IntLen)
                  /\ Fields(m)[h + 2] = Chars(e.host)
                  /\ Fields(m)[h + 3] = Word(e.port, IntLen)
<1> DEFINE n == Len(m.list)
<1> DEFINE a == Word(m.code, IntLen)
<1> DEFINE b == Word(n, IntLen)
<1> DEFINE parts == [i \in DOMAIN m.list |-> EntryFields(m.kind, m.list[i])]
<1> DEFINE tail == FlattenSeq(parts)
<1> DEFINE k == PerEntry(m.kind)
<1>1. /\ n \in Nat /\ DOMAIN m.list = 1..n /\ \A i \in 1..n : m.list[i] \in Entry
      /\ IntLen \in Nat /\ m.code \in Int
  BY ObjectIs
<1>2. Fields(m) = <<a, b>> \o tail
  BY DEF Fields, Numbered, Listing
<1>3. a \in Seq(Cell) /\ b \in Seq(Cell)
  <2> HIDE DEF n
  <2>1. n \in Int
    BY <1>1
  <2> QED  BY <1>1, <2>1, CellsOf
<1>4. /\ \A i \in 1..n : /\ parts[i] = EntryFields(m.kind, m.list[i])
                         /\ parts[i] \in Seq(Seq(Cell)) /\ Len(parts[i]) = k
      /\ Len(parts) = n /\ parts \in Seq(Seq(Seq(Cell)))
  <2>1. \A i \in 1..n : /\ parts[i] = EntryFields(m.kind, m.list[i])
                        /\ parts[i] \in Seq(Seq(Cell)) /\ Len(parts[i]) = k
    BY <1>1, EntryIs
  <2>2. parts \in [1..n -> Seq(Seq(Cell))]
    <3> HIDE DEF k
    <3> QED  BY <1>1, <2>1
  <2>3. n \in Nat
    BY <1>1
  <2> HIDE DEF n, parts
  <2>4. Len(parts) = n /\ parts \in Seq(Seq(Seq(Cell)))
    BY ONLY <2>2, <2>3
  <2> QED  BY <2>1, <2>4
<1>5. k \in {3, 4}
  BY DEF PerEntry
<1> HIDE DEF a, b, parts, tail
<1>6. /\ tail \in Seq(Seq(Cell)) /\ Len(tail) = Ends(parts)[n]
      /\ \A i \in 1..n : \A c \in 1..k : tail[Ends(parts)[i - 1] + c] = parts[i][c]
  BY <1>4, Flattened DEF tail
<1>7. \A i \in 0..n : Ends(parts)[i] = k * i
  <2> HIDE DEF k
  <2>1. \A i \in 1..Len(parts) : Len(parts[i]) = k
    BY <1>4
  <2>2. \A i \in 0..Len(parts) : Ends(parts)[i] = k * i
    <3>1. parts \in Seq(Seq(Seq(Cell)))
      BY <1>4
    <3> HIDE DEF n
    <3> QED  BY ONLY <1>5, <2>1, <3>1, EvenEnds, ZenonT(60)
  <2> QED  BY <1>4, <2>2
<1>8. /\ Fields(m) \in Seq(Seq(Cell)) /\ Len(Fields(m)) = 2 + Len(tail)
      /\ Fields(m)[1] = a /\ Fields(m)[2] = b
      /\ \A i \in 1..Len(tail) : Fields(m)[2 + i] = tail[i]
  <2>1. <<a, b>> \in Seq(Seq(Cell)) /\ Len(<<a, b>>) = 2 /\ <<a, b>>[1] = a /\ <<a, b>>[2] = b
    BY <1>3
  <2> QED  BY <1>2, <1>6, <2>1, Joined
<1>9. Len(Fields(m)) = First(m.kind, n)
  <2> HIDE DEF n
  <2>1. n \in 0..n
    BY <1>1
  <2> QED  BY <1>6, <1>7, <1>8, <2>1 DEF First
<1>10. ASSUME NEW p \in 0..(n - 1), NEW c \in 1..k
       PROVE  Fields(m)[First(m.kind, p) + c] = EntryFields(m.kind, m.list[p + 1])[c]
  <2>1. p + 1 \in 1..n /\ p \in 0..n /\ n \in 0..n /\ (p + 1) - 1 = p
    BY <1>1
  <2>2. tail[k * p + c] = EntryFields(m.kind, m.list[p + 1])[c]
    <3> HIDE DEF k, n
    <3>1. tail[Ends(parts)[(p + 1) - 1] + c] = parts[p + 1][c]
      BY <1>6, <2>1
    <3>2. parts[p + 1] = EntryFields(m.kind, m.list[p + 1]) /\ Ends(parts)[p] = k * p
      BY <1>4, <1>7, <2>1
    <3> QED  BY <2>1, <3>1, <3>2
  <2>3. k * p + c \in 1..Len(tail)
    <3>1. Len(tail) = k * n /\ n \in Nat /\ p \in Nat /\ p + 1 <= n
      <4>1. Len(tail) = Ends(parts)[n] /\ Ends(parts)[n] = k * n
        <5> HIDE DEF k, n
        <5> QED  BY <1>6, <1>7, <2>1
      <4>2. n \in Nat /\ p \in Nat /\ p + 1 <= n
        BY <1>1, <2>1
      <4> QED  BY ONLY <4>1, <4>2
    <3>2. CASE k = 3
      <4>1. Len(tail) = 3 * n /\ c \in 1..3
        BY <3>1, <3>2
      <4>2. 3 * p + c \in 1..(3 * n)
        BY ONLY <3>1, <4>1
      <4> QED  BY <3>2, <4>1, <4>2
    <3>3. CASE k = 4
      <4>1. Len(tail) = 4 * n /\ c \in 1..4
        BY <3>1, <3>3
      <4>2. 4 * p + c \in 1..(4 * n)
        BY ONLY <3>1, <4>1
      <4> QED  BY <3>3, <4>1, <4>2
    <3> QED  BY <1>5, <3>2, <3>3
  <2>4. First(m.kind, p) + c = 2 + (k * p + c)
    BY <1>5, <2>1 DEF First
  <2>5. Fields(m)[2 + (k * p + c)] = tail[k * p + c]
    <3> HIDE DEF k
    <3> QED  BY <1>8, <2>3
  <2> HIDE DEF k
  <2> QED  BY <2>2, <2>4, <2>5
<1>11. ASSUME NEW p \in 0..(n - 1)
       PROVE  LET f == First(m.kind, p)
                  h == f + Ahead(m.kind)
                  e == m.list[p + 1]
              IN  /\ m.kind = "ListRFCResponse" => Fields(m)[f + 1] = Word(e.rfc, IntLen)
                  /\ Fields(m)[h + 1] = Word(Len(e.host), IntLen)
                  /\ Fields(m)[h + 2] = Chars(e.host)
                  /\ Fields(m)[h + 3] = Word(e.port, IntLen)
  <2> DEFINE e == m.list[p + 1]
  <2>1. e \in Entry /\ p \in Int
    BY <1>1
  <2>2. /\ First(m.kind, p) \in Int /\ Ahead(m.kind) \in {0, 1} /\ k = Ahead(m.kind) + 3
        /\ \A c \in 1..3 :
             (First(m.kind, p) + Ahead(m.kind)) + c = First(m.kind, p) + (Ahead(m.kind) + c)
    <3>1. First(m.kind, p) \in Int /\ Ahead(m.kind) \in {0, 1} /\ k = Ahead(m.kind) + 3
      BY <2>1, FirstIs
    <3> QED  BY <3>1
  <2>3. \A c \in 1..3 : Ahead(m.kind) + c \in 1..k
    BY <2>2
  <2>4. /\ m.kind = "ListRFCResponse" => EntryFields(m.kind, e)[1] = Word(e.rfc, IntLen)
        /\ EntryFields(m.kind, e)[Ahead(m.kind) + 1] = Word(Len(e.host), IntLen)
        /\ EntryFields(m.kind, e)[Ahead(m.kind) + 2] = Chars(e.host)
        /\ EntryFields(m.kind, e)[Ahead(m.kind) + 3] = Word(e.port, IntLen)
    BY <2>1, EntryIs
  <2>5. 1 \in 1..k
    BY <1>5
  <2> HIDE DEF e, k
  <2>6. \A c \in 1..3 : Fields(m)[(First(m.kind, p) + Ahead(m.kind)) + c]
                          = EntryFields(m.kind, e)[Ahead(m.kind) + c]
    <3>1. SUFFICES ASSUME NEW c \in 1..3
                   PROVE  Fields(m)[(First(m.kind, p) + Ahead(m.kind)) + c]
                            = EntryFields(m.kind, e)[Ahead(m.kind) + c]
      OBVIOUS
    <3>2. Fields(m)[First(m.kind, p) + (Ahead(m.kind) + c)]
            = EntryFields(m.kind, m.list[p + 1])[Ahead(m.kind) + c]
      BY <1>10, <2>3
    <3>3. (First(m.kind, p) + Ahead(m.kind)) + c = First(m.kind, p) + (Ahead(m.kind) + c)
      BY <2>2
    <3> QED  BY <3>2, <3>3 DEF e
  <2>7. Fields(m)[First(m.kind, p) + 1] = EntryFields(m.kind, e)[1]
    BY <1>10, <2>5 DEF e
  <2> QED  BY <2>4, <2>6, <2>7 DEF e
<1> QED  BY <1>8, <1>9, <1>11 DEF a, b

\* A message with a list.
Lists(m) == m.kind \in Listing /\ m.code = 200

LEMMA OtherFields ==
  ASSUME NEW m, Object(m), ~Lists(m)
  PROVE  /\ Fields(m) \in Seq(Seq(Cell))
         /\ m.kind \in Numbered => Fields(m) = <<Word(m.number, NumberSize(m.kind))>>
         /\ m.kind = "ListRFCMessage" =>
              Fields(m) = <<Word(Len(m.text), IntLen), Chars(m.text), Word(m.port, IntLen)>>
         /\ m.kind = "GetRFCResponse" /\ m.code = 200 =>
              Fields(m) = <<Word(m.code, IntLen), Word(Len(m.text), IntLen), Chars(m.text)>>
         /\ m.kind \notin Numbered \cup {"ListRFCMessage"}
              /\ ~(m.kind = "GetRFCResponse" /\ m.code = 200) =>
              Fields(m) = <<Word(m.code, IntLen)>>
<1>1. /\ NumberSize(m.kind) \in Nat /\ IntLen \in Nat /\ Len(m.text) \in Int
      /\ m.number \in Int /\ m.code \in Int /\ m.port \in Int /\ m.text \in Text
  BY ObjectIs DEF NumberSize
<1> DEFINE a == Word(m.number, NumberSize(m.kind))
<1> DEFINE b == Word(m.code, IntLen)
<1> DEFINE c == Word(Len(m.text), IntLen)
<1> DEFINE d == Chars(m.text)
<1> DEFINE e == Word(m.port, IntLen)
<1>2. a \in Seq(Cell) /\ b \in Seq(Cell) /\ c \in Seq(Cell) /\ d \in Seq(Cell) /\ e \in Seq(Cell)
  BY <1>1, CellsOf
<1>3. /\ m.kind \in Numbered => Fields(m) = <<a>>
      /\ m.kind = "ListRFCMessage" => Fields(m) = <<c, d, e>>
      /\ m.kind = "GetRFCResponse" /\ m.code = 200 => Fields(m) = <<b, c, d>>
      /\ m.kind \notin Numbered \cup {"ListRFCMessage"}
           /\ ~(m.kind = "GetRFCResponse" /\ m.code = 200) => Fields(m) = <<b>>
  BY DEF Fields, Numbered, Listing, Lists
<1> HIDE DEF a, b, c, d, e
<1>4. Fields(m) \in Seq(Seq(Cell))
  <2>1. /\ <<a>> \in Seq(Seq(Cell)) /\ <<c, d, e>> \in Seq(Seq(Cell))
        /\ <<b, c, d>> \in Seq(Seq(Cell)) /\ <<b>> \in Seq(Seq(Cell))
    BY <1>2
  <2> QED  BY <1>3, <2>1
<1> QED  BY <1>3, <1>4 DEF a, b, c, d, e

LEMMA FieldsAre ==
  ASSUME NEW m, Object(m)
  PROVE  Fields(m) \in Seq(Seq(Cell)) /\ Len(Fields(m)) \in Nat /\ Len(Fields(m)) >= 1
<1>1. CASE Lists(m)
  <2>1. Fields(m) \in Seq(Seq(Cell)) /\ Len(Fields(m)) = First(m.kind, Len(m.list))
    BY <1>1, ListFields DEF Lists
  <2>2. Len(m.list) \in Nat /\ PerEntry(m.kind) \in {3, 4}
    BY ObjectIs DEF PerEntry
  <2>3. First(m.kind, Len(m.list)) >= 1
    <3>1. CASE PerEntry(m.kind) = 3
      BY <2>2, <3>1 DEF First
    <3>2. CASE PerEntry(m.kind) = 4
      BY <2>2, <3>2 DEF First
    <3> QED  BY <2>2, <3>1, <3>2
  <2> QED  BY <2>1, <2>3
<1>2. CASE ~Lists(m)
  <2>1. Fields(m) \in Seq(Seq(Cell))
    BY <1>2, OtherFields
  <2>2. Len(Fields(m)) \in {1, 3}
    BY <1>2, OtherFields
  <2> QED  BY <2>1, <2>2
<1> QED  BY <1>1, <1>2

\* Up to three sequences.
LEMMA FewEnds ==
  ASSUME NEW X, NEW s \in Seq(Seq(X))
  PROVE  /\ Len(s) >= 1 => Ends(s)[1] = Len(s[1])
         /\ Len(s) >= 2 => Ends(s)[2] = Len(s[1]) + Len(s[2])
         /\ Len(s) >= 3 => Ends(s)[3] = Len(s[1]) + Len(s[2]) + Len(s[3])
<1>1. Len(s) \in Nat /\ \A i \in 1..Len(s) : Len(s[i]) \in Nat
  OBVIOUS
<1>2. Ends(s)[0] = 0 /\ \A i \in 1..Len(s) : Ends(s)[i] = Ends(s)[i - 1] + Len(s[i])
  BY EndsAre
<1>3. Len(s) >= 1 => Ends(s)[1] = Len(s[1])
  <2> SUFFICES ASSUME Len(s) >= 1
               PROVE  Ends(s)[1] = Len(s[1])
    OBVIOUS
  <2>1. 1 \in 1..Len(s) /\ 1 - 1 = 0
    BY <1>1
  <2>2. Ends(s)[1] = 0 + Len(s[1])
    BY <1>2, <2>1
  <2> QED  BY <1>1, <2>1, <2>2
<1>4. Len(s) >= 2 => Ends(s)[2] = Len(s[1]) + Len(s[2])
  <2> SUFFICES ASSUME Len(s) >= 2
               PROVE  Ends(s)[2] = Len(s[1]) + Len(s[2])
    OBVIOUS
  <2>1. 2 \in 1..Len(s) /\ 2 - 1 = 1 /\ Len(s) >= 1
    BY <1>1
  <2>2. Ends(s)[2] = Ends(s)[1] + Len(s[2])
    BY <1>2, <2>1
  <2> QED  BY <1>3, <2>1, <2>2
<1>5. Len(s) >= 3 => Ends(s)[3] = Len(s[1]) + Len(s[2]) + Len(s[3])
  <2> SUFFICES ASSUME Len(s) >= 3
               PROVE  Ends(s)[3] = Len(s[1]) + Len(s[2]) + Len(s[3])
    OBVIOUS
  <2>1. 3 \in 1..Len(s) /\ 3 - 1 = 2 /\ Len(s) >= 2
    BY <1>1
  <2>2. Ends(s)[3] = Ends(s)[2] + Len(s[3])
    BY <1>2, <2>1
  <2> QED  BY <1>4, <2>1, <2>2
<1> QED  BY <1>3, <1>4, <1>5

(***************************************************************************)
(* message_size                                                            *)
(***************************************************************************)

EntrySizes(m) == [i \in 1..Len(m.list) |-> EntrySize(m.kind, m.list[i])]

LEMMA EntrySizeIs ==
  ASSUME NEW m, Object(m), m.kind \in Listing, NEW i \in 1..Len(m.list)
  PROVE  /\ EntrySizes(m)[i] = EntrySize(m.kind, m.list[i])
         /\ EntrySize(m.kind, m.list[i]) \in Nat
         /\ m.kind = "ListRFCResponse" =>
              EntrySize(m.kind, m.list[i]) = IntLen + IntLen + Len(m.list[i].host) + IntLen
         /\ m.kind = "LookupRFCResponse" =>
              EntrySize(m.kind, m.list[i]) = IntLen + Len(m.list[i].host) + IntLen
<1>1. IntLen \in Nat /\ m.list[i] \in Entry
  BY ObjectIs
<1>2. Len(m.list[i].host) \in Nat
  BY <1>1 DEF Entry
<1>3. EntrySizes(m)[i] = EntrySize(m.kind, m.list[i])
  BY DEF EntrySizes
<1>4. CASE m.kind = "ListRFCResponse"
  <2> DEFINE l == Len(m.list[i].host)
  <2>1. EntrySize(m.kind, m.list[i]) = IntLen + IntLen + l + IntLen
    BY <1>4 DEF EntrySize
  <2>2. IntLen \in Nat /\ l \in Nat
    BY <1>1, <1>2
  <2> HIDE DEF l
  <2>3. EntrySize(m.kind, m.list[i]) \in Nat /\ m.kind # "LookupRFCResponse"
    BY <1>4, <2>1, <2>2
  <2> QED  BY <1>3, <2>1, <2>3 DEF l
<1>5. CASE m.kind = "LookupRFCResponse"
  BY <1>1, <1>2, <1>3, <1>5 DEF EntrySize
<1> QED  BY <1>4, <1>5 DEF Listing

IsTotal(g, m) ==
  g = [i \in 0..Len(m.list) |->
         IF i = 0 THEN IntLen + IntLen ELSE g[i - 1] + EntrySize(m.kind, m.list[i])]

LEMMA TotalIs ==
  ASSUME NEW m, \E g : IsTotal(g, m)
  PROVE  \E g : IsTotal(g, m) /\ ListSize(m) = g[Len(m.list)]
BY DEF ListSize, IsTotal

\* The loop adds up.
LEMMA ListSizeIs ==
  ASSUME NEW m, Object(m), m.kind \in Listing
  PROVE  \E e : /\ AreEnds(e, Len(m.list), IntLen + IntLen, EntrySizes(m))
                /\ ListSize(m) = e[Len(m.list)]
<1> DEFINE n == Len(m.list)
<1>1. n \in Nat /\ IntLen \in Nat
  BY ObjectIs
<1>2. EntrySizes(m) \in [1..n -> Nat]
  BY EntrySizeIs DEF EntrySizes
<1>3. PICK e : AreEnds(e, n, IntLen + IntLen, EntrySizes(m))
  <2>1. IntLen + IntLen \in Nat
    BY <1>1
  <2> HIDE DEF n
  <2> QED  BY ONLY <1>1, <1>2, <2>1, EndsExist
<1>4. IsTotal(e, m)
  <2>1. /\ e \in [0..n -> Nat] /\ e[0] = IntLen + IntLen
        /\ \A i \in 1..n : e[i] = e[i - 1] + EntrySize(m.kind, m.list[i])
    BY <1>3, EntrySizeIs DEF AreEnds
  <2> QED  BY <1>1, <2>1 DEF IsTotal
<1>5. PICK g : IsTotal(g, m) /\ ListSize(m) = g[n]
  BY <1>4, TotalIs
<1>6. /\ g \in [0..n -> Nat] /\ g[0] = IntLen + IntLen
      /\ \A i \in 1..n : g[i] = g[i - 1] + EntrySizes(m)[i]
  <2>1. \A i \in 0..n : g[i] = IF i = 0 THEN IntLen + IntLen
                               ELSE g[i - 1] + EntrySize(m.kind, m.list[i])
    BY <1>5 DEF IsTotal
  <2>2. g[0] = IntLen + IntLen /\ \A i \in 1..n : g[i] = g[i - 1] + EntrySizes(m)[i]
    <3>1. g[0] = IntLen + IntLen
      BY <1>1, <2>1
    <3>2. ASSUME NEW i \in 1..n
          PROVE  g[i] = g[i - 1] + EntrySizes(m)[i]
      <4>1. i \in 0..n /\ i # 0
        BY <1>1
      <4>2. EntrySizes(m)[i] = EntrySize(m.kind, m.list[i])
        BY EntrySizeIs
      <4> QED  BY <2>1, <4>1, <4>2
    <3> QED  BY <3>1, <3>2
  <2> DEFINE S == { k \in Nat : k <= n => g[k] \in Nat }
  <2>3. 0 \in S
    BY <1>1, <2>2
  <2>4. ASSUME NEW k \in Nat, k \in S
        PROVE  k + 1 \in S
    <3>1. SUFFICES ASSUME k + 1 <= n
                   PROVE  g[k + 1] \in Nat
      OBVIOUS
    <3>2. k + 1 \in 1..n /\ (k + 1) - 1 = k /\ g[k] \in Nat
      BY <1>1, <2>4, <3>1
    <3>3. EntrySizes(m)[k + 1] \in Nat
      BY <1>2, <3>2
    <3> QED  BY <2>2, <3>2, <3>3
  <2>5. Nat \subseteq S
    <3> HIDE DEF S
    <3> QED  BY <2>3, <2>4, InductionBySet
  <2>6. \A k \in 0..n : g[k] \in Nat
    BY <1>1, <2>5
  <2> QED  BY <1>5, <2>2, <2>6 DEF IsTotal
<1> QED  BY <1>5, <1>6 DEF AreEnds

LEMMA PlaceIs ==
  ASSUME NEW kind, NEW n \in Nat, NEW p \in 0..(n - 1)
  PROVE  /\ First(kind, p) \in Nat /\ First(kind, p) >= 2 /\ Ahead(kind) \in {0, 1}
         /\ First(kind, p + 1) = First(kind, p) + Ahead(kind) + 3
         /\ First(kind, p + 1) <= First(kind, n)
         /\ p + 1 = n => First(kind, p + 1) = First(kind, n)
<1>1. PerEntry(kind) = Ahead(kind) + 3 /\ Ahead(kind) \in {0, 1} /\ PerEntry(kind) \in {3, 4}
  BY DEF PerEntry, Ahead
<1>2. CASE PerEntry(kind) = 3
  BY <1>1, <1>2 DEF First
<1>3. CASE PerEntry(kind) = 4
  BY <1>1, <1>3 DEF First
<1> QED  BY <1>1, <1>2, <1>3

\* Where the fields of an entry end.
LEMMA EntryEnds ==
  ASSUME NEW m, Object(m), Lists(m), NEW p \in 0..(Len(m.list) - 1)
  PROVE  LET E == Ends(Fields(m))
             f == First(m.kind, p)
             h == f + Ahead(m.kind)
         IN  /\ E[h] = E[f] + (IF m.kind = "ListRFCResponse" THEN IntLen ELSE 0)
             /\ E[h + 1] = E[h] + IntLen
             /\ E[h + 2] = E[h + 1] + Len(m.list[p + 1].host)
             /\ E[h + 3] = E[h + 2] + IntLen
             /\ E[f] \in Nat /\ E[h] \in Nat /\ E[h + 1] \in Nat /\ E[h + 2] \in Nat
<1> DEFINE F == Fields(m)
<1> DEFINE E == Ends(F)
<1> DEFINE f == First(m.kind, p)
<1> DEFINE h == f + Ahead(m.kind)
<1> DEFINE c == m.list[p + 1]
<1>1. /\ IntLen \in Nat /\ Len(m.list) \in Nat /\ c \in Entry
      /\ c.rfc \in Int /\ c.host \in Text /\ c.port \in Int /\ Len(c.host) \in Nat
  <2>1. Len(m.list) \in Nat /\ IntLen \in Nat
    BY ObjectIs
  <2>2. p + 1 \in 1..Len(m.list)
    BY <2>1
  <2>3. c \in Entry
    BY <2>2, ObjectIs
  <2> QED  BY <2>1, <2>3 DEF Entry, Text
<1>2. /\ F \in Seq(Seq(Cell)) /\ Len(F) = First(m.kind, Len(m.list))
      /\ m.kind = "ListRFCResponse" => F[f + 1] = Word(c.rfc, IntLen)
      /\ F[h + 1] = Word(Len(c.host), IntLen) /\ F[h + 2] = Chars(c.host)
      /\ F[h + 3] = Word(c.port, IntLen)
  BY ListFields DEF Lists
<1>3. /\ m.kind = "ListRFCResponse" => Len(F[f + 1]) = IntLen
      /\ Len(F[h + 1]) = IntLen /\ Len(F[h + 2]) = Len(c.host) /\ Len(F[h + 3]) = IntLen
  <2>1. Len(c.host) \in Int
    BY <1>1
  <2>2. /\ Len(Word(c.rfc, IntLen)) = IntLen /\ Len(Word(Len(c.host), IntLen)) = IntLen
        /\ Len(Chars(c.host)) = Len(c.host) /\ Len(Word(c.port, IntLen)) = IntLen
    <3> HIDE DEF c
    <3> QED  BY <1>1, <2>1, CellsOf
  <2> QED  BY <1>2, <2>2
<1>4. /\ f \in Nat /\ f >= 2 /\ Ahead(m.kind) \in {0, 1} /\ h + 3 <= Len(F) /\ Len(F) \in Nat
      /\ m.kind = "ListRFCResponse" => h = f + 1
      /\ m.kind # "ListRFCResponse" => h = f
  <2>1. /\ f \in Nat /\ f >= 2 /\ Ahead(m.kind) \in {0, 1}
        /\ First(m.kind, p + 1) = f + Ahead(m.kind) + 3
        /\ First(m.kind, p + 1) <= First(m.kind, Len(m.list))
    BY <1>1, PlaceIs
  <2>2. Len(F) \in Nat
    BY FieldsAre
  <2>3. h + 3 <= Len(F)
    BY <1>2, <2>1
  <2>4. /\ m.kind = "ListRFCResponse" => h = f + 1
        /\ m.kind # "ListRFCResponse" => h = f
    BY <2>1 DEF Ahead
  <2> QED  BY <2>1, <2>2, <2>3, <2>4
<1>5. /\ E \in [0..Len(F) -> Nat]
      /\ \A i \in 1..Len(F) : E[i] = E[i - 1] + Len(F[i])
  BY <1>2, EndsAre
<1> HIDE DEF F, E, f, c
<1>6. m.kind = "ListRFCResponse" => E[f + 1] = E[f] + IntLen
  <2>1. f + 1 \in 1..Len(F) /\ (f + 1) - 1 = f
    BY <1>4
  <2> QED  BY <1>3, <1>5, <2>1
<1>7. E[h + 1] = E[h] + IntLen
  <2>1. h + 1 \in 1..Len(F) /\ (h + 1) - 1 = h
    BY <1>4
  <2> QED  BY <1>3, <1>5, <2>1
<1>8. E[h + 2] = E[h + 1] + Len(c.host)
  <2>1. h + 2 \in 1..Len(F) /\ (h + 2) - 1 = h + 1
    BY <1>4
  <2> QED  BY <1>3, <1>5, <2>1
<1>9. E[h + 3] = E[h + 2] + IntLen
  <2>1. h + 3 \in 1..Len(F) /\ (h + 3) - 1 = h + 2
    BY <1>4
  <2> QED  BY <1>3, <1>5, <2>1
<1>10. E[f] \in Nat /\ E[h] \in Nat /\ E[h + 1] \in Nat /\ E[h + 2] \in Nat
  <2>1. f \in 0..Len(F) /\ h \in 0..Len(F) /\ h + 1 \in 0..Len(F) /\ h + 2 \in 0..Len(F)
    BY <1>4
  <2> QED  BY <1>5, <2>1
<1>11. E[h] = E[f] + (IF m.kind = "ListRFCResponse" THEN IntLen ELSE 0)
  BY <1>4, <1>6, <1>10
<1> QED  BY <1>7, <1>8, <1>9, <1>10, <1>11 DEF F, E, f, c

LEMMA Sums ==
  ASSUME NEW s \in Nat, NEW w \in Nat, NEW l \in Nat
  PROVE  /\ ((((s + w) + w) + l) + w) = s + (w + w + l + w)
         /\ ((((s + 0) + w) + l) + w) = s + (w + l + w)
         /\ w + w + l = w + l + w /\ w + l + w \in Nat /\ w <= w + l + w
OBVIOUS

\* What to_bytes writes fits.
LEMMA SizeIs ==
  ASSUME NEW m, Object(m), Valid(m)
  PROVE  Size(m) \in Nat /\ Ends(Fields(m))[Len(Fields(m))] <= Size(m)
<1>1. /\ Fields(m) \in Seq(Seq(Cell)) /\ Len(Fields(m)) \in Nat
      /\ IntLen \in Nat /\ ShortLen \in Nat /\ Len(m.text) \in Nat
  BY FieldsAre, ObjectIs
<1>2. /\ m.number \in Int /\ m.code \in Int /\ m.port \in Int /\ m.text \in Text
      /\ Len(m.text) \in Int /\ NumberSize(m.kind) \in Nat /\ m.kind \in Kinds
  BY <1>1, ObjectIs DEF NumberSize
<1>3. /\ Len(Word(m.number, NumberSize(m.kind))) = NumberSize(m.kind)
      /\ Len(Word(m.code, IntLen)) = IntLen /\ Len(Word(Len(m.text), IntLen)) = IntLen
      /\ Len(Word(m.port, IntLen)) = IntLen /\ Len(Chars(m.text)) = Len(m.text)
  BY <1>1, <1>2, CellsOf
<1>9. /\ Len(Fields(m)) >= 1 => Ends(Fields(m))[1] = Len(Fields(m)[1])
      /\ Len(Fields(m)) >= 3 =>
           Ends(Fields(m))[3] = Len(Fields(m)[1]) + Len(Fields(m)[2]) + Len(Fields(m)[3])
  BY <1>1, FewEnds
<1>4. CASE m.kind \in Numbered
  <2>1. Fields(m) = <<Word(m.number, NumberSize(m.kind))>> /\ Size(m) = NumberSize(m.kind)
    BY <1>4, OtherFields DEF Size, Lists, Listing, Numbered
  <2>2. Len(Fields(m)) = 1 /\ Len(Fields(m)[1]) = NumberSize(m.kind)
    BY <1>3, <2>1
  <2>3. Ends(Fields(m))[1] = NumberSize(m.kind)
    BY <1>9, <2>2
  <2> QED  BY <1>2, <2>1, <2>2, <2>3
<1>5. CASE m.kind = "ListRFCMessage"
  <2>1. /\ Fields(m) = <<Word(Len(m.text), IntLen), Chars(m.text), Word(m.port, IntLen)>>
        /\ Size(m) = IntLen + Len(m.text) + IntLen
    BY <1>5, OtherFields DEF Size, Lists, Listing, Numbered
  <2>2. /\ Len(Fields(m)) = 3 /\ Len(Fields(m)[1]) = IntLen
        /\ Len(Fields(m)[2]) = Len(m.text) /\ Len(Fields(m)[3]) = IntLen
    BY <1>3, <2>1
  <2>3. Ends(Fields(m))[3] = IntLen + Len(m.text) + IntLen
    BY <1>9, <2>2
  <2> QED  BY <1>1, <2>1, <2>2, <2>3
<1>6. CASE m.kind = "GetRFCResponse" /\ m.code = 200
  <2>1. /\ Fields(m) = <<Word(m.code, IntLen), Word(Len(m.text), IntLen), Chars(m.text)>>
        /\ Size(m) = IntLen + Len(m.text) + IntLen
    BY <1>6, OtherFields DEF Size, Lists, Listing, Numbered
  <2>2. /\ Len(Fields(m)) = 3 /\ Len(Fields(m)[1]) = IntLen
        /\ Len(Fields(m)[2]) = IntLen /\ Len(Fields(m)[3]) = Len(m.text)
    BY <1>3, <2>1
  <2>3. Ends(Fields(m))[3] = IntLen + IntLen + Len(m.text)
    BY <1>9, <2>2
  <2>4. /\ IntLen + IntLen + Len(m.text) = IntLen + Len(m.text) + IntLen
        /\ IntLen + Len(m.text) + IntLen \in Nat
    BY <1>1, Sums
  <2> QED  BY <2>1, <2>2, <2>3, <2>4
<1>7. CASE /\ m.kind \notin Numbered \cup {"ListRFCMessage"} /\ ~Lists(m)
           /\ ~(m.kind = "GetRFCResponse" /\ m.code = 200)
  <2>1. Fields(m) = <<Word(m.code, IntLen)>>
    BY <1>7, OtherFields
  <2>2. Len(Fields(m)) = 1 /\ Ends(Fields(m))[1] = IntLen
    <3>1. Len(Fields(m)) = 1 /\ Len(Fields(m)[1]) = IntLen
      BY <1>3, <2>1
    <3> QED  BY <1>9, <3>1
  <2>3. CASE m.kind = "AddRFCResponse"
    <3>1. Size(m) = IntLen
      BY <2>3 DEF Size, Numbered, Listing
    <3> QED  BY <1>1, <2>2, <3>1
  <2>4. CASE m.kind = "GetRFCResponse"
    <3>1. Size(m) = IntLen + Len(m.text) + IntLen
      BY <2>4 DEF Size, Numbered, Listing
    <3> QED  BY <1>1, <2>2, <3>1
  <2>5. CASE m.kind \in Listing
    <3>1. PICK e : /\ AreEnds(e, Len(m.list), IntLen + IntLen, EntrySizes(m))
                   /\ ListSize(m) = e[Len(m.list)]
      BY <2>5, ListSizeIs
    <3>2. EntrySizes(m) \in [1..Len(m.list) -> Nat] /\ Len(m.list) \in Nat
      BY <2>5, EntrySizeIs, ObjectIs DEF EntrySizes
    <3>3. /\ \A i, j \in 0..Len(m.list) : i <= j => e[i] <= e[j]
          /\ e[0] = IntLen + IntLen /\ e[Len(m.list)] \in Nat
      <4>1. IntLen + IntLen \in Nat
        BY <1>1
      <4>2. \A i, j \in 0..Len(m.list) : i <= j => e[i] <= e[j]
        BY <3>1, <3>2, <4>1, EndsAscend
      <4> QED  BY <3>1, <3>2, <4>2 DEF AreEnds
    <3>4. e[0] <= e[Len(m.list)]
      BY <3>2, <3>3
    <3>5. Size(m) = ListSize(m)
      BY <2>5 DEF Size, Listing, Numbered
    <3> QED  BY <1>1, <2>2, <3>1, <3>3, <3>4, <3>5
  <2> QED  BY <1>2, <1>7, <2>3, <2>4, <2>5 DEF Kinds, Responses
<1>8. CASE Lists(m)
  <2> DEFINE n == Len(m.list)
  <2> DEFINE at(p) == Ends(Fields(m))[First(m.kind, p)]
  <2>1. PICK e : AreEnds(e, n, IntLen + IntLen, EntrySizes(m)) /\ ListSize(m) = e[n]
    BY <1>8, ListSizeIs DEF Lists
  <2>2. /\ n \in Nat /\ \A p \in 0..n : e[p] \in Nat /\ e[0] = IntLen + IntLen
        /\ \A i \in 1..n : e[i] = e[i - 1] + EntrySizes(m)[i]
    BY <2>1, ObjectIs DEF AreEnds
  <2>3. /\ Len(Fields(m)) = First(m.kind, n)
        /\ Fields(m)[1] = Word(m.code, IntLen) /\ Fields(m)[2] = Word(n, IntLen)
    BY <1>8, ListFields DEF Lists
  <2> DEFINE S == { p \in Nat : p <= n => at(p) = e[p] }
  <2>4. 0 \in S
    <3>1. Len(Fields(m)) >= 2
      <4>1. CASE PerEntry(m.kind) = 3
        BY <2>2, <2>3, <4>1 DEF First
      <4>2. CASE PerEntry(m.kind) = 4
        BY <2>2, <2>3, <4>2 DEF First
      <4> QED  BY <4>1, <4>2 DEF PerEntry
    <3>2. Ends(Fields(m))[2] = Len(Fields(m)[1]) + Len(Fields(m)[2])
      BY <1>1, <3>1, FewEnds
    <3>3. Len(Fields(m)[1]) = IntLen /\ Len(Fields(m)[2]) = IntLen
      <4>1. n \in Int
        BY <2>2
      <4> HIDE DEF n
      <4>2. Len(Word(n, IntLen)) = IntLen
        BY <1>1, <4>1, CellsOf
      <4> QED  BY <1>3, <2>3, <4>2
    <3>4. First(m.kind, 0) = 2
      BY FirstIs
    <3>5. at(0) = e[0]
      BY <2>2, <3>2, <3>3, <3>4
    <3> QED  BY <3>5
  <2>5. ASSUME NEW p \in Nat, p \in S
        PROVE  p + 1 \in S
    <3>1. SUFFICES ASSUME p + 1 <= n
                   PROVE  at(p + 1) = e[p + 1]
      OBVIOUS
    <3>2. /\ p + 1 \in 1..n /\ (p + 1) - 1 = p /\ at(p) = e[p] /\ p \in 0..(n - 1) /\ p \in 0..n
          /\ m.list[p + 1] \in Entry
      <4>1. p + 1 \in 1..n /\ (p + 1) - 1 = p /\ p \in 0..(n - 1) /\ p \in 0..n /\ p <= n
        BY <2>2, <3>1
      <4> HIDE DEF at
      <4> QED  BY <2>5, <4>1, ObjectIs
    <3> DEFINE E == Ends(Fields(m))
    <3> DEFINE f == First(m.kind, p)
    <3> DEFINE h == f + Ahead(m.kind)
    <3>3. /\ E[h] = E[f] + (IF m.kind = "ListRFCResponse" THEN IntLen ELSE 0)
          /\ E[h + 1] = E[h] + IntLen
          /\ E[h + 2] = E[h + 1] + Len(m.list[p + 1].host)
          /\ E[h + 3] = E[h + 2] + IntLen
          /\ E[f] \in Nat /\ E[h] \in Nat /\ E[h + 1] \in Nat /\ E[h + 2] \in Nat
      BY <1>8, <3>2, EntryEnds
    <3>4. at(p + 1) = E[h + 3]
      <4>1. p \in Int
        BY <3>2
      <4>2. First(m.kind, p + 1) = h + 3
        BY <4>1, FirstIs
      <4> QED  BY <4>2
    <3>5. e[p + 1] = e[p] + EntrySizes(m)[p + 1]
      BY <2>2, <3>2
    <3>6. /\ m.kind = "ListRFCResponse" =>
               EntrySizes(m)[p + 1] = IntLen + IntLen + Len(m.list[p + 1].host) + IntLen
          /\ m.kind # "ListRFCResponse" =>
               EntrySizes(m)[p + 1] = IntLen + Len(m.list[p + 1].host) + IntLen
      <4>1. m.kind \in Listing /\ p + 1 \in 1..Len(m.list)
        BY <1>8, <3>2 DEF Lists
      <4> QED  BY <4>1, EntrySizeIs DEF Listing
    <3>7. Len(m.list[p + 1].host) \in Nat
      BY <3>2 DEF Entry
    <3>8. E[f] = e[p] /\ e[p] \in Nat
      BY <2>2, <3>2
    <3> DEFINE l == Len(m.list[p + 1].host)
    <3>9. l \in Nat
      BY <3>7
    <3>10. CASE m.kind = "ListRFCResponse"
      <4>1. E[h + 3] = (((e[p] + IntLen) + IntLen) + l) + IntLen
        <5> HIDE DEF E, f, h
        <5> QED  BY <3>3, <3>8, <3>10
      <4>2. e[p + 1] = e[p] + (IntLen + IntLen + l + IntLen)
        BY <3>5, <3>6, <3>10
      <4> HIDE DEF E, f, h, at, l
      <4>3. (((e[p] + IntLen) + IntLen) + l) + IntLen = e[p] + (IntLen + IntLen + l + IntLen)
        BY <1>1, <3>8, <3>9, Sums
      <4> QED  BY <3>4, <4>1, <4>2, <4>3
    <3>11. CASE m.kind # "ListRFCResponse"
      <4>1. E[h + 3] = (((e[p] + 0) + IntLen) + l) + IntLen
        <5> HIDE DEF E, f, h
        <5> QED  BY <3>3, <3>8, <3>11
      <4>2. e[p + 1] = e[p] + (IntLen + l + IntLen)
        BY <3>5, <3>6, <3>11
      <4> HIDE DEF E, f, h, at, l
      <4>3. (((e[p] + 0) + IntLen) + l) + IntLen = e[p] + (IntLen + l + IntLen)
        BY <1>1, <3>8, <3>9, Sums
      <4> QED  BY <3>4, <4>1, <4>2, <4>3
    <3> QED  BY <3>10, <3>11
  <2>6. Nat \subseteq S
    <3> HIDE DEF S
    <3> QED  BY <2>4, <2>5, InductionBySet
  <2>7. at(n) = e[n]
    <3> HIDE DEF at
    <3> QED  BY <2>2, <2>6
  <2>8. Size(m) = ListSize(m)
    BY <1>8 DEF Size, Lists, Listing, Numbered
  <2> QED  BY <2>1, <2>2, <2>3, <2>7, <2>8
<1> QED  BY <1>4, <1>5, <1>6, <1>7, <1>8

LEMMA EndsWithin ==
  ASSUME NEW X, NEW s \in Seq(Seq(X)), NEW j \in 0..(Len(s) - 1)
  PROVE  /\ j + 1 \in 1..Len(s) /\ (j + 1) - 1 = j /\ s[j + 1] \in Seq(X)
         /\ Ends(s)[j] \in Nat /\ Ends(s)[j + 1] \in Nat /\ Len(s[j + 1]) \in Nat
         /\ Ends(s)[j] + Len(s[j + 1]) = Ends(s)[j + 1]
         /\ Ends(s)[j + 1] <= Ends(s)[Len(s)] /\ Ends(s)[Len(s)] \in Nat
<1>1. Len(s) \in Nat
  OBVIOUS
<1>2. /\ j + 1 \in 1..Len(s) /\ (j + 1) - 1 = j /\ j \in 0..Len(s) /\ j + 1 \in 0..Len(s)
      /\ Len(s) \in 0..Len(s) /\ j + 1 <= Len(s)
  BY <1>1
<1>3. s[j + 1] \in Seq(X) /\ Len(s[j + 1]) \in Nat
  BY <1>2
<1>4. /\ Ends(s) \in [0..Len(s) -> Nat]
      /\ Ends(s)[j + 1] = Ends(s)[(j + 1) - 1] + Len(s[j + 1])
      /\ Ends(s)[j + 1] <= Ends(s)[Len(s)]
  BY <1>2, EndsAre
<1> QED  BY <1>2, <1>3, <1>4

\* The first j of s are in b, each behind the ends of those before it.
Holds(b, s, j) ==
  \A i \in 1..j : \A c \in 1..Len(s[i]) : b[Ends(s)[i - 1] + c] = s[i][c]

Copy(b, at, cells) == [i \in DOMAIN b |-> IF i - at \in DOMAIN cells THEN cells[i - at] ELSE b[i]]

\* A field copied to where the one before it ends changes no other.
LEMMA Copied ==
  ASSUME NEW X, NEW s \in Seq(Seq(X)), NEW b \in Seq(X), Ends(s)[Len(s)] <= Len(b),
         NEW j \in 0..(Len(s) - 1), Holds(b, s, j)
  PROVE  LET d == Copy(b, Ends(s)[j], s[j + 1])
         IN  d \in Seq(X) /\ Len(d) = Len(b) /\ Holds(d, s, j + 1)
<1> DEFINE d == Copy(b, Ends(s)[j], s[j + 1])
<1> DEFINE at == Ends(s)[j]
<1> DEFINE f == s[j + 1]
<1> DEFINE next == Ends(s)[j + 1]
<1>1. /\ j + 1 \in 1..Len(s) /\ (j + 1) - 1 = j /\ f \in Seq(X) /\ at \in Nat /\ next \in Nat
      /\ Len(f) \in Nat /\ at + Len(f) = next /\ next <= Len(b) /\ Len(b) \in Nat
  <2>1. /\ j + 1 \in 1..Len(s) /\ (j + 1) - 1 = j /\ f \in Seq(X) /\ at \in Nat /\ next \in Nat
        /\ Len(f) \in Nat /\ at + Len(f) = next /\ next <= Ends(s)[Len(s)]
        /\ Ends(s)[Len(s)] \in Nat
    BY EndsWithin
  <2>2. Len(b) \in Nat
    OBVIOUS
  <2> HIDE DEF at, f, next
  <2> QED  BY <2>1, <2>2
<1>2. d = [i \in DOMAIN b |-> IF i - at \in DOMAIN f THEN f[i - at] ELSE b[i]]
  BY DEF Copy
<1> HIDE DEF at, f, next, d
<1>3. d \in Seq(X) /\ Len(d) = Len(b)
  <2>1. DOMAIN b = 1..Len(b) /\ \A i \in 1..Len(b) : b[i] \in X
    OBVIOUS
  <2>2. \A i \in DOMAIN f : f[i] \in X
    BY <1>1
  <2>3. d \in [1..Len(b) -> X]
    BY <1>2, <2>1, <2>2
  <2> DEFINE n == Len(b)
  <2>4. n \in Nat /\ d \in [1..n -> X]
    BY <1>1, <2>3
  <2> HIDE DEF n
  <2>5. d \in Seq(X) /\ Len(d) = n
    BY <2>4
  <2> QED  BY <2>5 DEF n
<1>4. \A i \in 1..Len(b) : d[i] = IF i - at \in 1..Len(f) THEN f[i - at] ELSE b[i]
  <2>1. DOMAIN b = 1..Len(b) /\ DOMAIN f = 1..Len(f)
    BY <1>1
  <2> QED  BY ONLY <1>2, <2>1
<1>5. ASSUME NEW i \in 1..(j + 1), NEW c \in 1..Len(s[i])
      PROVE  d[Ends(s)[i - 1] + c] = s[i][c]
  <2>1. CASE i = j + 1
    <3>1. s[i] = f /\ Ends(s)[i - 1] = at /\ c \in 1..Len(f)
      BY <1>1, <2>1 DEF f, at
    <3>2. at + c \in 1..Len(b) /\ (at + c) - at = c
      BY <1>1, <3>1
    <3> QED  BY <1>4, <3>1, <3>2
  <2>2. CASE i # j + 1
    <3>1. i \in 1..j /\ i - 1 \in 0..(Len(s) - 1) /\ (i - 1) + 1 = i /\ i \in 0..Len(s)
            /\ j \in 0..Len(s) /\ i <= j
      BY <1>1, <2>2
    <3>2. /\ Ends(s)[i - 1] \in Nat /\ Ends(s)[i] \in Nat /\ Len(s[i]) \in Nat
          /\ Ends(s)[i - 1] + Len(s[i]) = Ends(s)[i]
      <4>1. i - 1 \in 0..(Len(s) - 1)
        BY <3>1
      <4>2. /\ Ends(s)[i - 1] \in Nat /\ Ends(s)[(i - 1) + 1] \in Nat
            /\ Len(s[(i - 1) + 1]) \in Nat
            /\ Ends(s)[i - 1] + Len(s[(i - 1) + 1]) = Ends(s)[(i - 1) + 1]
        BY <4>1, EndsWithin
      <4> QED  BY <3>1, <4>2
    <3>3. Ends(s)[i] <= at
      BY <3>1, EndsAre DEF at
    <3>4. Ends(s)[i - 1] + c \in 1..Len(b) /\ (Ends(s)[i - 1] + c) - at \notin 1..Len(f)
      <4> DEFINE a == Ends(s)[i - 1]
      <4> DEFINE e == Ends(s)[i]
      <4> DEFINE l == Len(s[i])
      <4>1. a \in Nat /\ e \in Nat /\ l \in Nat /\ a + l = e /\ e <= at /\ c \in 1..l
        BY <3>2, <3>3
      <4> DEFINE n == Len(b)
      <4> DEFINE k == Len(f)
      <4>2. at \in Nat /\ k \in Nat /\ at <= n /\ n \in Nat
        BY <1>1
      <4> HIDE DEF a, e, l, n, k
      <4>3. a + c \in 1..n /\ (a + c) - at \notin 1..k
        BY ONLY <4>1, <4>2
      <4> QED  BY <4>3 DEF a, n, k
    <3>5. b[Ends(s)[i - 1] + c] = s[i][c]
      BY <3>1 DEF Holds
    <3> QED  BY <1>4, <3>4, <3>5
  <2> QED  BY <2>1, <2>2
<1> QED  BY <1>3, <1>5 DEF d, Holds

(***************************************************************************)
(* The inductive invariant                                                 *)
(***************************************************************************)

\* The first j fields are in the buffer.
Written(j) ==
  buf \in Seq(Cell) /\ Len(buf) = Size(msg) /\ Holds(buf, Fields(msg), j)

\* pos is behind the j-th field.
At(j) == pos = Ends(Fields(msg))[j]

\* The record of an object, field by field.
Record(kind, number, code, text, port, list) ==
  [kind |-> kind, number |-> number, code |-> code, text |-> text, port |-> port, list |-> list]

Unread == out = Fresh(msg.kind) /\ entry = NoEntry

Unwritten == pc \in {"to_bytes", "ended"} /\ Unread /\ buf = <<>>

Writing ==
  /\ pc = "write" /\ Unread /\ Valid(msg)
  /\ \E j \in 0..Len(Fields(msg)) :
       Written(j) /\ At(j) /\ todo = SubSeq(Fields(msg), j + 1, Len(Fields(msg)))

InNumber == pc = "number" /\ Unread /\ msg.kind \in Numbered /\ At(0)

InCode == pc = "code" /\ Unread /\ msg.kind \in Responses /\ At(0)

InRequest ==
  /\ msg.kind = "ListRFCMessage"
  /\ \/ pc = "len" /\ Unread /\ At(0)
     \/ pc = "text" /\ Unread /\ At(1) /\ len = Len(msg.text)
     \/ pc = "port" /\ out = Record(msg.kind, 0, 0, CString(msg.text), 0, <<>>) /\ At(2)

InFile ==
  /\ msg.kind = "GetRFCResponse" /\ msg.code = 200
  /\ out = Record(msg.kind, 0, 200, <<>>, 0, <<>>)
  /\ \/ pc = "len" /\ At(1)
     \/ pc = "text" /\ At(2) /\ len = Len(msg.text)

\* The first p entries are in the list of the receiver.
Received(p) == out = Record(msg.kind, 0, 200, <<>>, 0, SubSeq(msg.list, 1, p))

InList == pc = "len_list" /\ Lists(msg) /\ Received(0) /\ entry = NoEntry /\ At(1)

Part(rfc, host) == [rfc |-> rfc, host |-> host, port |-> 0]

\* It reads the one behind them.
InEntry(p) ==
  LET e == msg.list[p + 1]
      f == First(msg.kind, p)
      h == f + Ahead(msg.kind)
  IN  /\ Lists(msg) /\ Received(p) /\ left = Len(msg.list) - p
      /\ \/ pc = "rfc" /\ msg.kind = "ListRFCResponse" /\ entry = NoEntry /\ At(f)
         \/ pc = "len" /\ entry = Part(e.rfc, <<>>) /\ At(h)
         \/ pc = "text" /\ entry = Part(e.rfc, <<>>) /\ At(h + 1)
              /\ len = Len(e.host)
         \/ pc = "port" /\ entry = Part(e.rfc, e.host) /\ At(h + 2)

Finished == pc = "done" /\ out = Exported(msg)

Reading ==
  /\ Valid(msg) /\ Written(Len(Fields(msg)))
  /\ \/ InNumber \/ InCode \/ InRequest \/ InFile \/ InList
     \/ \E p \in 0..(Len(msg.list) - 1) : InEntry(p)
     \/ Finished

Inside ==
  /\ msg \in Sent /\ out.kind = msg.kind
  /\ buf \in Seq(Cell) /\ pos \in 0..Len(buf)
  /\ left \in 0..Len(msg.list) /\ len \in 0..Len(buf)

IInv == Inside /\ (Unwritten \/ Writing \/ Reading)

(***************************************************************************)
(* What a step of from_bytes finds                                         *)
(***************************************************************************)

LEMMA SentIs ==
  ASSUME Inside
  PROVE  /\ Object(msg) /\ Fields(msg) \in Seq(Seq(Cell)) /\ Len(Fields(msg)) \in Nat
         /\ Len(Fields(msg)) >= 1 /\ Len(buf) \in Nat
<1>1. Object(msg)
  BY MessagesAssumption DEF Inside
<1>2. Len(buf) \in Nat
  BY DEF Inside
<1> QED  BY <1>1, <1>2, FieldsAre

\* A field is in the buffer, as a whole.
LEMMA FieldFits ==
  ASSUME Inside, Valid(msg), Len(buf) = Size(msg), NEW j \in 0..(Len(Fields(msg)) - 1)
  PROVE  /\ Ends(Fields(msg))[j + 1] \in 0..Len(buf)
         /\ Len(Fields(msg)[j + 1]) \in 0..Len(buf)
<1> DEFINE F == Fields(msg)
<1>1. /\ Object(msg) /\ F \in Seq(Seq(Cell)) /\ Len(buf) \in Nat
  BY SentIs
<1>2. Ends(F)[Len(F)] <= Len(buf)
  BY <1>1, SizeIs
<1> HIDE DEF F
<1>3. /\ Ends(F)[j] \in Nat /\ Ends(F)[j + 1] \in Nat /\ Len(F[j + 1]) \in Nat
      /\ Ends(F)[j] + Len(F[j + 1]) = Ends(F)[j + 1]
      /\ Ends(F)[j + 1] <= Ends(F)[Len(F)] /\ Ends(F)[Len(F)] \in Nat
  BY <1>1, EndsWithin DEF F
<1> DEFINE a == Ends(F)[j]
<1> DEFINE b == Ends(F)[j + 1]
<1> DEFINE c == Ends(F)[Len(F)]
<1> DEFINE l == Len(F[j + 1])
<1> DEFINE n == Len(buf)
<1>4. /\ a \in Nat /\ b \in Nat /\ l \in Nat /\ a + l = b /\ b <= c /\ c \in Nat /\ c <= n
      /\ n \in Nat
  BY <1>1, <1>2, <1>3
<1> HIDE DEF a, b, c, l, n
<1>5. b \in 0..n /\ l \in 0..n
  BY <1>4
<1> QED  BY <1>5 DEF b, l, n, F

LEMMA NextField ==
  ASSUME Inside, Reading, NEW j \in 0..(Len(Fields(msg)) - 1), At(j)
  PROVE  /\ pos + Len(Fields(msg)[j + 1]) = Ends(Fields(msg))[j + 1]
         /\ Ends(Fields(msg))[j + 1] \in 0..Len(buf) /\ pos \in Nat
         /\ \A c \in 1..Len(Fields(msg)[j + 1]) : buf[pos + c] = Fields(msg)[j + 1][c]
<1>1. /\ Fields(msg) \in Seq(Seq(Cell)) /\ Valid(msg) /\ Written(Len(Fields(msg)))
      /\ pos = Ends(Fields(msg))[j]
  BY SentIs DEF Reading, At
<1>2. /\ j + 1 \in 1..Len(Fields(msg)) /\ (j + 1) - 1 = j /\ Ends(Fields(msg))[j] \in Nat
      /\ Ends(Fields(msg))[j] + Len(Fields(msg)[j + 1]) = Ends(Fields(msg))[j + 1]
  BY <1>1, EndsWithin
<1>3. Ends(Fields(msg))[j + 1] \in 0..Len(buf)
  BY <1>1, FieldFits DEF Written
<1>4. \A c \in 1..Len(Fields(msg)[j + 1]) : buf[pos + c] = Fields(msg)[j + 1][c]
  BY <1>1, <1>2 DEF Written, Holds
<1> QED  BY <1>1, <1>2, <1>3, <1>4

LEMMA NextWord ==
  ASSUME Inside, Reading, NEW j \in 0..(Len(Fields(msg)) - 1), At(j),
         NEW v \in Int, NEW w \in Nat \ {0}, Fields(msg)[j + 1] = Word(v, w)
  PROVE  Value = v /\ pos + w = Ends(Fields(msg))[j + 1] /\ pos + w \in 0..Len(buf)
<1>1. Len(Word(v, w)) = w /\ Word(v, w)[1] = <<v, 1>> /\ 1 \in 1..w
  <2>1. w \in Nat /\ 1 \in 1..w
    OBVIOUS
  <2>2. Len(Word(v, w)) = w
    BY <2>1, CellsOf
  <2>3. Word(v, w)[1] = <<v, 1>>
    BY <2>1 DEF Word
  <2> QED  BY <2>1, <2>2, <2>3
<1>2. /\ pos + w = Ends(Fields(msg))[j + 1] /\ pos + w \in 0..Len(buf) /\ pos \in Nat
      /\ \A c \in 1..w : buf[pos + c] = Word(v, w)[c]
  <2> DEFINE f == Fields(msg)[j + 1]
  <2>1. /\ pos + Len(f) = Ends(Fields(msg))[j + 1] /\ pos + Len(f) \in 0..Len(buf)
        /\ pos \in Nat /\ \A c \in 1..Len(f) : buf[pos + c] = f[c]
    BY NextField
  <2>2. f = Word(v, w)
    OBVIOUS
  <2> HIDE DEF f
  <2>3. Len(f) = w /\ \A c \in 1..w : f[c] = Word(v, w)[c]
    BY ONLY <1>1, <2>2
  <2> QED  BY ONLY <2>1, <2>3
<1>3. Len(buf) \in Nat
  BY SentIs
<1>4. pos < Len(buf) /\ buf[pos + 1] = <<v, 1>>
  BY <1>1, <1>2, <1>3
<1> QED  BY <1>2, <1>4 DEF Value

LEMMA NextText ==
  ASSUME Inside, Reading, NEW j \in 0..(Len(Fields(msg)) - 1), At(j),
         NEW s \in Text, Fields(msg)[j + 1] = Chars(s)
  PROVE  /\ [i \in 1..Len(s) |-> buf[pos + i][1]] = s
         /\ pos + Len(s) = Ends(Fields(msg))[j + 1] /\ pos + Len(s) \in 0..Len(buf)
<1>1. Len(Chars(s)) = Len(s) /\ \A k \in 1..Len(s) : Chars(s)[k] = <<s[k], 0>>
  BY CellsOf
<1>2. /\ pos + Len(s) = Ends(Fields(msg))[j + 1] /\ pos + Len(s) \in 0..Len(buf)
      /\ \A c \in 1..Len(s) : buf[pos + c] = <<s[c], 0>>
  BY <1>1, NextField
<1>3. s = [i \in 1..Len(s) |-> s[i]]
  BY DEF Text
<1>4. \A c \in 1..Len(s) : buf[pos + c][1] = s[c]
  BY <1>2
<1> QED  BY <1>2, <1>3, <1>4

LEMMA WithoutNUL ==
  /\ \A s \in Seq(Nat \ {NUL}) : CString(s) = s
  /\ CString(<<>>) = <<>>
<1>1. ASSUME NEW s \in Seq(Nat \ {NUL})
      PROVE  CString(s) = s
  <2>1. \A i \in DOMAIN s : s[i] # NUL
    OBVIOUS
  <2> QED  BY <2>1 DEF CString
<1>2. <<>> \in Seq(Nat \ {NUL})
  OBVIOUS
<1> QED  BY <1>1, <1>2

(***************************************************************************)
(* The steps of to_bytes                                                   *)
(***************************************************************************)

LEMMA InitHolds ==
  Init => IInv
<1> SUFFICES ASSUME Init
             PROVE  IInv
  OBVIOUS
<1>1. msg \in Sent /\ Object(msg)
  BY MessagesAssumption DEF Init
<1>2. Len(msg.list) \in Nat
  BY <1>1, ObjectIs
<1>3. buf \in Seq(Cell) /\ Len(buf) = 0
  BY DEF Init
<1>4. Inside
  BY <1>1, <1>2, <1>3 DEF Init, Inside, Fresh
<1>5. Unwritten
  BY DEF Init, Unwritten, Unread
<1> QED  BY <1>4, <1>5 DEF IInv

LEMMA AllocateHolds ==
  ASSUME IInv, Allocate
  PROVE  IInv'
<1>1. /\ Inside /\ Unwritten /\ Valid(msg) /\ pc' = "write"
      /\ buf' = [i \in 1..Size(msg) |-> Blank] /\ todo' = Fields(msg)
      /\ msg' = msg /\ pos' = pos /\ out' = out /\ entry' = entry /\ left' = left /\ len' = len
  <2>1. ~Writing /\ ~Reading
    BY DEF Allocate, Writing, Reading, InNumber, InCode, InRequest, InFile, InList, InEntry,
           Finished
  <2> QED  BY <2>1 DEF IInv, Allocate, reader
<1>2. /\ Object(msg) /\ Fields(msg) \in Seq(Seq(Cell)) /\ Len(Fields(msg)) \in Nat
      /\ Size(msg) \in Nat
  BY <1>1, SentIs, SizeIs
<1>3. buf' \in Seq(Cell) /\ Len(buf') = Size(msg)
  <2>1. Blank \in Cell
    BY DEF Blank, Cell
  <2>2. buf' \in [1..Size(msg) -> Cell]
    BY <1>1, <2>1
  <2> QED  BY <1>2, <2>2
<1>4. pos = 0 /\ len = 0
  <2>1. buf = <<>> /\ Len(buf) = 0
    BY <1>1 DEF Unwritten
  <2> QED  BY <1>1, <2>1 DEF Inside
<1>5. Inside'
  BY <1>1, <1>2, <1>3, <1>4 DEF Inside
<1>6. Writing'
  <2>1. Unread' /\ Valid(msg)'
    BY <1>1 DEF Unwritten, Unread
  <2>2. Written(0)'
    <3>1. \A i : i \notin 1..0
      OBVIOUS
    <3>2. Size(msg)' = Size(msg)
      BY <1>1
    <3> QED  BY <1>3, <3>1, <3>2 DEF Written, Holds
  <2>3. At(0)'
    BY <1>1, <1>2, <1>4, EndsAre DEF At
  <2>4. todo' = SubSeq(Fields(msg), 0 + 1, Len(Fields(msg)))
    <3> DEFINE F == Fields(msg)
    <3>1. F \in Seq(Seq(Cell)) /\ todo' = F
      BY <1>1, <1>2
    <3> HIDE DEF F
    <3>2. SubSeq(F, 0 + 1, Len(F)) = F
      BY <3>1
    <3> QED  BY <3>1, <3>2 DEF F
  <2>5. 0 \in 0..Len(Fields(msg))
    BY <1>2
  <2> QED  BY <1>1, <2>1, <2>2, <2>3, <2>4, <2>5 DEF Writing
<1> QED  BY <1>5, <1>6 DEF IInv

LEMMA RefuseHolds ==
  ASSUME IInv, Refuse
  PROVE  IInv'
<1>1. Inside /\ Unwritten
  BY DEF IInv, Refuse, Writing, Reading, InNumber, InCode, InRequest, InFile, InList, InEntry,
         Finished
<1>2. Inside'
  BY <1>1 DEF Refuse, writer, reader, Inside
<1>3. Unwritten'
  BY <1>1 DEF Refuse, writer, reader, Unwritten, Unread
<1> QED  BY <1>2, <1>3 DEF IInv

\* Nothing is read while to_bytes writes.
LEMMA WriteIsWriting ==
  ASSUME IInv, pc = "write"
  PROVE  Inside /\ Writing
BY DEF IInv, Unwritten, Reading, InNumber, InCode, InRequest, InFile, InList, InEntry, Finished

LEMMA WriteFieldHolds ==
  ASSUME IInv, WriteField
  PROVE  IInv'
<1> DEFINE F == Fields(msg)
<1>1. Inside /\ Writing
  BY WriteIsWriting DEF WriteField
<1>2. PICK j \in 0..Len(F) : Written(j) /\ At(j) /\ todo = SubSeq(F, j + 1, Len(F))
  BY <1>1 DEF Writing
<1>3. /\ F \in Seq(Seq(Cell)) /\ Len(F) \in Nat /\ Object(msg) /\ Valid(msg)
      /\ buf \in Seq(Cell) /\ Len(buf) = Size(msg) /\ pos = Ends(F)[j]
      /\ Holds(buf, F, j)
  BY <1>1, <1>2, SentIs DEF Written, At, Writing
<1>4. todo # <<>> /\ msg' = msg /\ pc' = pc
      /\ out' = out /\ entry' = entry /\ left' = left /\ len' = len
      /\ buf' = [i \in DOMAIN buf |->
                   IF i - pos \in DOMAIN Head(todo) THEN Head(todo)[i - pos] ELSE buf[i]]
      /\ pos' = pos + Len(Head(todo)) /\ todo' = Tail(todo)
  BY DEF WriteField, reader
<1>5. /\ j \in 0..(Len(F) - 1) /\ Head(todo) = F[j + 1]
      /\ Tail(todo) = SubSeq(F, (j + 1) + 1, Len(F))
  <2> HIDE DEF F
  <2>1. j # Len(F)
    BY <1>2, <1>3, <1>4
  <2>2. j \in 0..(Len(F) - 1)
    BY <1>3, <2>1
  <2> QED  BY <1>2, <1>3, <2>2
<1>6. Ends(F)[Len(F)] <= Len(buf)
  BY <1>3, SizeIs
<1>7. buf' \in Seq(Cell) /\ Len(buf') = Len(buf) /\ Holds(buf', F, j + 1)
  <2>1. buf' = Copy(buf, Ends(F)[j], F[j + 1])
    <3> HIDE DEF F
    <3> QED  BY <1>3, <1>4, <1>5 DEF Copy
  <2> DEFINE d == Copy(buf, Ends(F)[j], F[j + 1])
  <2>2. d \in Seq(Cell) /\ Len(d) = Len(buf) /\ Holds(d, F, j + 1)
    <3> HIDE DEF F
    <3> QED  BY ONLY <1>3, <1>5, <1>6, Copied
  <2> QED  BY <2>1, <2>2
<1>8. pos' = Ends(F)[j + 1] /\ pos' \in 0..Len(buf)
  <2>1. Ends(F)[j] + Len(F[j + 1]) = Ends(F)[j + 1]
    BY <1>3, <1>5, EndsWithin
  <2>2. Ends(F)[j + 1] \in 0..Len(buf)
    BY <1>1, <1>3, <1>5, FieldFits
  <2> QED  BY <1>3, <1>4, <1>5, <2>1, <2>2
<1>9. Inside'
  BY <1>1, <1>4, <1>7, <1>8 DEF Inside
<1>10. Writing'
  <2>1. Unread' /\ Valid(msg)' /\ pc' = "write"
    BY <1>1, <1>4 DEF Writing, Unread
  <2>2. Written(j + 1)' /\ At(j + 1)'
    BY <1>3, <1>4, <1>7, <1>8 DEF Written, At
  <2>3. todo' = SubSeq(F, (j + 1) + 1, Len(F)) /\ j + 1 \in 0..Len(F)
    <3> HIDE DEF F
    <3> QED  BY <1>3, <1>4, <1>5
  <2> QED  BY <1>4, <2>1, <2>2, <2>3 DEF Writing
<1> QED  BY <1>9, <1>10 DEF IInv

LEMMA TransferHolds ==
  ASSUME IInv, Transfer
  PROVE  IInv'
<1> DEFINE F == Fields(msg)
<1>1. Inside /\ Writing
  BY WriteIsWriting DEF Transfer
<1>2. PICK j \in 0..Len(F) : Written(j) /\ todo = SubSeq(F, j + 1, Len(F))
  BY <1>1 DEF Writing
<1>3. /\ todo = <<>> /\ msg' = msg /\ buf' = buf /\ pos' = 0 /\ out' = out /\ entry' = entry
      /\ left' = left /\ len' = len
      /\ pc' = CASE msg.kind \in Numbered -> "number"
                 [] msg.kind = "ListRFCMessage" -> "len"
                 [] OTHER -> "code"
  BY DEF Transfer, reader, writer
<1>4. F \in Seq(Seq(Cell)) /\ Len(F) \in Nat /\ Object(msg)
  BY <1>1, SentIs
<1>5. j = Len(F)
  <2>1. Len(todo) = 0
    BY <1>3
  <2>2. j # Len(F) => Len(todo) # 0
    <3> HIDE DEF F
    <3> QED  BY <1>2, <1>4
  <2> QED  BY <2>1, <2>2
<1>6. Inside'
  BY <1>1, <1>3 DEF Inside
<1>7. Valid(msg)' /\ Written(Len(F))' /\ Unread' /\ At(0)'
  <2>1. Ends(F)[0] = 0
    BY <1>4, EndsAre
  <2> QED  BY <1>1, <1>2, <1>3, <1>5, <2>1 DEF Writing, Written, Unread, At
<1>8. InNumber' \/ InRequest' \/ InCode'
  <2>1. msg.kind \in Numbered \cup {"ListRFCMessage"} \cup Responses
    BY <1>4, ObjectIs DEF Kinds
  <2>2. CASE msg.kind \in Numbered
    <3>1. msg.kind # "ListRFCMessage"
      BY <2>2 DEF Numbered
    <3>2. pc' = "number"
      BY <1>3, <2>2, <3>1
    <3> QED  BY <1>3, <1>7, <2>2, <3>2 DEF InNumber
  <2>3. CASE msg.kind = "ListRFCMessage"
    BY <1>3, <1>7, <2>3 DEF InRequest, Numbered
  <2>4. CASE msg.kind \in Responses
    <3>1. msg.kind \notin Numbered /\ msg.kind # "ListRFCMessage"
      BY <2>4 DEF Numbered, Responses, Listing
    <3> QED  BY <1>3, <1>7, <2>4, <3>1 DEF InCode
  <2> QED  BY <2>1, <2>2, <2>3, <2>4
<1>9. Reading'
  BY <1>3, <1>7, <1>8 DEF Reading
<1> QED  BY <1>6, <1>9 DEF IInv

(***************************************************************************)
(* The steps of from_bytes                                                 *)
(***************************************************************************)

\* What a step of from_bytes may rely on, and what is left to show of it: it
\* reads the buffer and changes nothing in it.
LEMMA ReadingIs ==
  ASSUME IInv, pc \notin {"to_bytes", "ended", "write"}
  PROVE  /\ Inside /\ Reading /\ Valid(msg) /\ Object(msg)
         /\ Fields(msg) \in Seq(Seq(Cell)) /\ Len(Fields(msg)) \in Nat /\ Len(Fields(msg)) >= 1
         /\ IntLen \in Nat \ {0}
<1>1. Inside /\ Reading /\ Valid(msg)
  BY DEF IInv, Unwritten, Writing, Reading
<1> QED  BY <1>1, SentIs, MessagesAssumption

LEMMA StillInside ==
  ASSUME Inside, UNCHANGED writer, out'.kind = out.kind, pos' \in 0..Len(buf),
         left' \in 0..Len(msg.list), len' \in 0..Len(buf)
  PROVE  Inside'
BY DEF Inside, writer

LEMMA StillReading ==
  ASSUME Reading, UNCHANGED writer,
         \/ InNumber' \/ InCode' \/ InRequest' \/ InFile' \/ InList'
         \/ \E p \in 0..(Len(msg.list) - 1) : InEntry(p)'
         \/ Finished'
  PROVE  Reading'
<1>1. msg' = msg /\ buf' = buf
  BY DEF writer
<1>2. Valid(msg)' /\ Written(Len(Fields(msg)))'
  BY <1>1 DEF Reading, Written
<1> QED  BY <1>1, <1>2 DEF Reading

LEMMA RecordIs ==
  ASSUME NEW m, Object(m)
  PROVE  m = Record(m.kind, m.number, m.code, m.text, m.port, m.list)
BY DEF Object, Record

LEMMA FreshIs ==
  \A kind : Fresh(kind) = Record(kind, 0, 0, <<>>, 0, <<>>)
BY DEF Fresh, Record

LEMMA Renewed ==
  ASSUME NEW k, NEW n, NEW c, NEW t, NEW p, NEW l, NEW m, m = Record(k, n, c, t, p, l)
  PROVE  Exported(m) = IF c \in {0, 200} THEN Record(k, n, c, CString(t), p, l)
                       ELSE Record(k, 0, c, <<>>, 0, <<>>)
<1>1. m.code = c /\ m.kind = k /\ m.text = t
  BY DEF Record
<1>2. [m EXCEPT !.text = CString(t)] = Record(k, n, c, CString(t), p, l)
  BY DEF Record
<1>3. [Fresh(k) EXCEPT !.code = c] = Record(k, 0, c, <<>>, 0, <<>>)
  BY DEF Record, Fresh
<1> QED  BY <1>1, <1>2, <1>3 DEF Exported

LEMMA ExportedIs ==
  ASSUME NEW m, Object(m), Valid(m)
  PROVE  /\ m.kind \in Numbered => Exported(m) = Record(m.kind, m.number, 0, <<>>, 0, <<>>)
         /\ m.kind = "ListRFCMessage" =>
              Exported(m) = Record(m.kind, 0, 0, CString(m.text), m.port, <<>>)
         /\ m.kind \in Responses /\ (m.code # 200 \/ m.kind = "AddRFCResponse") =>
              Exported(m) = Record(m.kind, 0, m.code, <<>>, 0, <<>>)
         /\ m.kind = "GetRFCResponse" /\ m.code = 200 =>
              Exported(m) = Record(m.kind, 0, 200, CString(m.text), 0, <<>>)
         /\ Lists(m) => Exported(m) = Record(m.kind, 0, 200, <<>>, 0, m.list)
<1>1. CString(<<>>) = <<>>
  BY WithoutNUL
<1>2. Exported(m) = IF m.code \in {0, 200}
                    THEN Record(m.kind, m.number, m.code, CString(m.text), m.port, m.list)
                    ELSE Record(m.kind, 0, m.code, <<>>, 0, <<>>)
  BY RecordIs, Renewed
<1>3. /\ m.kind \notin Numbered => m.number = 0
      /\ m.kind \notin Responses => m.code = 0
      /\ m.kind \notin {"ListRFCMessage", "GetRFCResponse"} => m.text = <<>>
      /\ m.kind # "ListRFCMessage" => m.port = 0
      /\ m.kind \notin Listing => m.list = <<>>
  BY DEF Object
<1>4. m.kind \in Responses => m.code \in {200, 400, 404, 505}
  <2>1. CASE m.kind = "AddRFCResponse"
    BY <2>1 DEF Valid, Listing, Numbered, Codes
  <2>2. CASE m.kind = "GetRFCResponse"
    BY <2>2 DEF Valid, Listing, Numbered, Codes
  <2>3. CASE m.kind \in Listing
    <3>1. m.code \in Codes
      <4>1. CASE m.kind = "ListRFCResponse"
        BY <4>1 DEF Valid, Listing, Numbered
      <4>2. CASE m.kind = "LookupRFCResponse"
        BY <4>2 DEF Valid, Listing, Numbered
      <4> QED  BY <2>3, <4>1, <4>2 DEF Listing
    <3> QED  BY <3>1 DEF Codes
  <2> QED  BY <2>1, <2>2, <2>3 DEF Responses
<1>5. /\ m.kind \in Numbered => m.kind \notin Responses \cup {"ListRFCMessage", "GetRFCResponse"}
      /\ Listing \subseteq Responses /\ m.kind \in Responses => m.kind \notin Numbered
      /\ m.kind = "ListRFCMessage" => m.kind \notin Numbered \cup Responses
      /\ m.kind \in Listing =>
           m.kind \notin {"ListRFCMessage", "GetRFCResponse", "AddRFCResponse"}
      /\ "GetRFCResponse" \in Responses /\ "GetRFCResponse" \notin Listing
      /\ "AddRFCResponse" \in Responses /\ "AddRFCResponse" \notin Listing
  BY DEF Numbered, Responses, Listing
<1>6. Lists(m) => m.kind \in Listing /\ m.code = 200
  BY DEF Lists
<1>7. m.kind \in Numbered => Exported(m) = Record(m.kind, m.number, 0, <<>>, 0, <<>>)
  <2>1. m.kind \in Numbered => /\ m.code = 0 /\ m.text = <<>> /\ m.port = 0 /\ m.list = <<>>
    BY <1>3 DEF Numbered, Responses, Listing
  <2> QED  BY <1>1, <1>2, <2>1
<1>8. m.kind = "ListRFCMessage" =>
        Exported(m) = Record(m.kind, 0, 0, CString(m.text), m.port, <<>>)
  <2>1. m.kind = "ListRFCMessage" => m.code = 0 /\ m.number = 0 /\ m.list = <<>>
    BY <1>3, <1>5 DEF Listing
  <2> QED  BY <1>2, <2>1
<1>9. m.kind \in Responses /\ m.code # 200 =>
        Exported(m) = Record(m.kind, 0, m.code, <<>>, 0, <<>>)
  BY <1>2, <1>4
<1>10. m.kind = "AddRFCResponse" /\ m.code = 200 =>
         Exported(m) = Record(m.kind, 0, m.code, <<>>, 0, <<>>)
  <2>1. m.kind = "AddRFCResponse" =>
          m.number = 0 /\ m.text = <<>> /\ m.port = 0 /\ m.list = <<>>
    BY <1>3, <1>5
  <2> QED  BY <1>1, <1>2, <2>1
<1>11. m.kind = "GetRFCResponse" /\ m.code = 200 =>
         Exported(m) = Record(m.kind, 0, 200, CString(m.text), 0, <<>>)
  <2>1. m.kind = "GetRFCResponse" => m.number = 0 /\ m.port = 0 /\ m.list = <<>>
    BY <1>3, <1>5
  <2> QED  BY <1>2, <2>1
<1>12. Lists(m) => Exported(m) = Record(m.kind, 0, 200, <<>>, 0, m.list)
  <2>1. Lists(m) => m.number = 0 /\ m.text = <<>> /\ m.port = 0 /\ m.code = 200
    BY <1>3, <1>5, <1>6
  <2> QED  BY <1>1, <1>2, <2>1
<1> QED  BY <1>7, <1>8, <1>9, <1>10, <1>11, <1>12

LEMMA ReadNumberHolds ==
  ASSUME IInv, ReadNumber
  PROVE  IInv'
<1> DEFINE w == NumberSize(msg.kind)
<1>1. /\ Inside /\ Reading /\ Object(msg) /\ Valid(msg)
      /\ Len(Fields(msg)) >= 1 /\ Len(Fields(msg)) \in Nat
      /\ pc = "number"
  BY ReadingIs DEF ReadNumber, ReadsWord
<1>2. InNumber
  BY <1>1 DEF Reading, InNumber, InCode, InRequest, InFile, InList, InEntry, Finished
<1>3. out.kind = msg.kind
  BY <1>1 DEF Inside
<1>4. /\ msg.number \in Int /\ w \in Nat \ {0} /\ Fields(msg)[0 + 1] = Word(msg.number, w)
      /\ 0 \in 0..(Len(Fields(msg)) - 1) /\ At(0)
  <2>1. msg.number \in Int /\ w \in Nat \ {0}
    BY <1>1, ObjectIs DEF NumberSize
  <2>2. Fields(msg)[0 + 1] = Word(msg.number, w)
    BY <1>1, <1>2, OtherFields DEF InNumber, Lists, Numbered, Listing
  <2> QED  BY <1>1, <1>2, <2>1, <2>2 DEF InNumber
<1>5. Value = msg.number /\ pos + w \in 0..Len(buf)
  <2> HIDE DEF w
  <2> QED  BY <1>1, <1>4, NextWord
<1>6. /\ UNCHANGED writer /\ msg' = msg /\ pos' = pos + w
      /\ out' = [out EXCEPT !.number = msg.number]
      /\ pc' = "done" /\ left' = left /\ len' = len
  BY <1>3, <1>5 DEF ReadNumber, ReadsWord, writer
<1>9. out' = Record(msg.kind, msg.number, 0, <<>>, 0, <<>>)
  <2> DEFINE kind == msg.kind
  <2> DEFINE number == msg.number
  <2>1. out = Record(kind, 0, 0, <<>>, 0, <<>>) /\ out' = [out EXCEPT !.number = number]
    BY <1>2, <1>6, FreshIs DEF InNumber, Unread
  <2> HIDE DEF kind, number
  <2>2. out' = Record(kind, number, 0, <<>>, 0, <<>>)
    BY <2>1 DEF Record
  <2> QED  BY <2>2 DEF kind, number
<1>7. Inside'
  <2>1. out'.kind = out.kind /\ pos' \in 0..Len(buf)
    BY <1>3, <1>5, <1>6, <1>9 DEF Record
  <2> QED  BY <1>1, <1>6, <2>1, StillInside DEF Inside
<1>8. Finished'
  BY <1>1, <1>2, <1>6, <1>9, ExportedIs DEF InNumber, Finished
<1> QED  BY <1>1, <1>6, <1>7, <1>8, StillReading DEF IInv

LEMMA ReadCodeHolds ==
  ASSUME IInv, ReadCode
  PROVE  IInv'
<1>1. /\ Inside /\ Reading /\ Object(msg) /\ Valid(msg) /\ IntLen \in Nat \ {0}
      /\ Len(Fields(msg)) >= 1 /\ Len(Fields(msg)) \in Nat /\ pc = "code"
  BY ReadingIs DEF ReadCode, ReadsWord
<1>2. InCode
  BY <1>1 DEF Reading, InNumber, InCode, InRequest, InFile, InList, InEntry, Finished
<1>3. out.kind = msg.kind
  BY <1>1 DEF Inside
<1>4. /\ msg.code \in Int /\ Fields(msg)[0 + 1] = Word(msg.code, IntLen)
      /\ 0 \in 0..(Len(Fields(msg)) - 1) /\ At(0)
  <2>1. msg.code \in Int
    BY <1>1, ObjectIs
  <2>2. Fields(msg)[0 + 1] = Word(msg.code, IntLen)
    <3>1. CASE Lists(msg)
      BY <1>1, <3>1, ListFields DEF Lists
    <3>2. CASE ~Lists(msg)
      <4>1. msg.kind \notin Numbered \cup {"ListRFCMessage"}
        BY <1>2 DEF InCode, Responses, Listing, Numbered
      <4>2. \/ Fields(msg) = <<Word(msg.code, IntLen)>>
            \/ Fields(msg) =
                 <<Word(msg.code, IntLen), Word(Len(msg.text), IntLen), Chars(msg.text)>>
        BY <1>1, <3>2, <4>1, OtherFields
      <4> QED  BY <4>2
    <3> QED  BY <3>1, <3>2
  <2> QED  BY <1>1, <1>2, <2>1, <2>2 DEF InCode
<1>5. /\ Value = msg.code /\ pos + IntLen = Ends(Fields(msg))[1]
      /\ pos + IntLen \in 0..Len(buf)
  <2>1. /\ Value = msg.code /\ pos + IntLen = Ends(Fields(msg))[0 + 1]
        /\ pos + IntLen \in 0..Len(buf)
    BY <1>1, <1>4, NextWord
  <2> QED  BY <2>1
<1>6. /\ UNCHANGED writer /\ msg' = msg /\ pos' = pos + IntLen
      /\ out' = Record(msg.kind, 0, msg.code, <<>>, 0, <<>>)
      /\ Lists(msg) => pc' = "len_list"
      /\ msg.kind = "GetRFCResponse" /\ msg.code = 200 => pc' = "len"
      /\ ~Lists(msg) /\ ~(msg.kind = "GetRFCResponse" /\ msg.code = 200) => pc' = "done"
      /\ entry' = NoEntry /\ left' = left /\ len' = len
  <2>1. pc' = CASE msg.code = 200 /\ msg.kind \in Listing -> "len_list"
                [] msg.code = 200 /\ msg.kind = "GetRFCResponse" -> "len"
                [] OTHER -> "done"
    BY <1>3, <1>5 DEF ReadCode
  <2> DEFINE code == msg.code
  <2> DEFINE kind == msg.kind
  <2> DEFINE next == pc'
  <2>2. /\ code = 200 /\ kind \in Listing => next = "len_list"
        /\ kind = "GetRFCResponse" /\ code = 200 => next = "len"
        /\ ~(code = 200 /\ kind \in Listing) /\ ~(kind = "GetRFCResponse" /\ code = 200)
             => next = "done"
    <3>1. next = CASE code = 200 /\ kind \in Listing -> "len_list"
                   [] code = 200 /\ kind = "GetRFCResponse" -> "len"
                   [] OTHER -> "done"
      BY <2>1
    <3> HIDE DEF next, code, kind
    <3> QED  BY ONLY <3>1 DEF Listing
  <2>3. out' = Record(msg.kind, 0, msg.code, <<>>, 0, <<>>)
    <3>1. out = Record(kind, 0, 0, <<>>, 0, <<>>) /\ out' = [out EXCEPT !.code = code]
      BY <1>2, <1>5, FreshIs DEF InCode, Unread, ReadCode
    <3> HIDE DEF kind, code
    <3>2. out' = Record(kind, 0, code, <<>>, 0, <<>>)
      BY <3>1 DEF Record
    <3> QED  BY <3>2 DEF kind, code
  <2> QED  BY <1>2, <1>3, <1>5, <2>2, <2>3 DEF ReadCode, ReadsWord, InCode, Unread, writer, Lists
<1>7. Inside'
  <2>1. out'.kind = out.kind
    BY <1>3, <1>6 DEF Record
  <2> QED  BY <1>1, <1>5, <1>6, <2>1, StillInside DEF Inside
<1>8. At(1)'
  BY <1>5, <1>6 DEF At
<1>9. InList' \/ InFile' \/ Finished'
  <2>1. CASE Lists(msg)
    <3>1. SubSeq(msg.list, 1, 0) = <<>>
      <4>1. msg.list \in Seq(Entry)
        BY <1>1, ObjectIs
      <4> QED  BY <4>1
    <3>2. msg.kind \in Listing /\ msg.code = 200
      BY <2>1 DEF Lists
    <3>3. Received(0)'
      BY <1>6, <3>1, <3>2 DEF Received
    <3>4. pc' = "len_list" /\ Lists(msg)'
      <4>1. pc' = "len_list"
        BY <1>6, <2>1
      <4> QED  BY <1>6, <3>2, <4>1 DEF Lists
    <3> QED  BY <1>6, <1>8, <3>3, <3>4 DEF InList
  <2>2. CASE msg.kind = "GetRFCResponse" /\ msg.code = 200
    BY <1>6, <1>8, <2>2 DEF InFile, Listing
  <2>3. CASE ~Lists(msg) /\ ~(msg.kind = "GetRFCResponse" /\ msg.code = 200)
    <3>1. pc' = "done"
      BY <1>6, <2>3 DEF Lists
    <3>2. msg.code # 200 \/ msg.kind = "AddRFCResponse"
      BY <1>2, <2>3 DEF Lists, InCode, Responses
    <3>3. Exported(msg) = Record(msg.kind, 0, msg.code, <<>>, 0, <<>>)
      BY <1>1, <1>2, <3>2, ExportedIs DEF InCode
    <3> QED  BY <1>6, <3>1, <3>3 DEF Finished
  <2> QED  BY <2>1, <2>2, <2>3
<1> QED  BY <1>1, <1>6, <1>7, <1>9, StillReading DEF IInv

\* A pass of the loop over the list begins.
EntryBegins(p) ==
  /\ Lists(msg) /\ Received(p) /\ left = Len(msg.list) - p
  /\ pc = EntryStart(msg.kind) /\ entry = NoEntry /\ At(First(msg.kind, p))

LEMMA BeginsIs ==
  ASSUME NEW p \in 0..(Len(msg.list) - 1), Object(msg), msg' = msg, EntryBegins(p)'
  PROVE  InEntry(p)'
<1>1. First(msg.kind, p) \in Int /\ Len(msg.list) \in Nat
  BY FirstIs, ObjectIs
<1>2. CASE msg.kind = "ListRFCResponse"
  BY <1>2 DEF EntryBegins, InEntry, EntryStart
<1>3. CASE msg.kind = "LookupRFCResponse"
  <2>1. Ahead(msg.kind) = 0 /\ First(msg.kind, p) + 0 = First(msg.kind, p)
    BY <1>1, <1>3 DEF Ahead
  <2>2. p + 1 \in 1..Len(msg.list)
    BY <1>1
  <2>3. msg.list[p + 1].rfc = 0
    BY <1>1, <1>3, <2>2, ObjectIs DEF Object
  <2>4. Part(0, <<>>) = NoEntry
    BY DEF NoEntry, Part
  <2> QED  BY <1>3, <2>1, <2>3, <2>4 DEF EntryBegins, InEntry, EntryStart
<1> QED  BY <1>2, <1>3 DEF EntryBegins, Lists, Listing

LEMMA ReadLenListHolds ==
  ASSUME IInv, ReadLenList
  PROVE  IInv'
<1> DEFINE n == Len(msg.list)
<1>1. /\ Inside /\ Reading /\ Object(msg) /\ Valid(msg) /\ IntLen \in Nat \ {0}
      /\ Len(Fields(msg)) >= 1 /\ Len(Fields(msg)) \in Nat /\ pc = "len_list"
  BY ReadingIs DEF ReadLenList, ReadsWord
<1>2. InList
  BY <1>1 DEF Reading, InNumber, InCode, InRequest, InFile, InList, InEntry, Finished
<1>3. out.kind = msg.kind
  BY <1>1 DEF Inside
<1>4. /\ n \in Nat /\ n \in Int /\ Fields(msg)[1 + 1] = Word(n, IntLen)
      /\ Len(Fields(msg)) = First(msg.kind, n) /\ 1 \in 0..(Len(Fields(msg)) - 1) /\ At(1)
  <2>1. n \in Nat
    BY <1>1, ObjectIs
  <2>2. Fields(msg)[2] = Word(n, IntLen) /\ Len(Fields(msg)) = First(msg.kind, n)
    BY <1>1, <1>2, ListFields DEF InList, Lists
  <2>3. First(msg.kind, n) >= 2
    <3> HIDE DEF n
    <3>1. PerEntry(msg.kind) \in {3, 4}
      BY DEF PerEntry
    <3>2. CASE PerEntry(msg.kind) = 3
      BY <2>1, <3>2 DEF First
    <3>3. CASE PerEntry(msg.kind) = 4
      BY <2>1, <3>3 DEF First
    <3> QED  BY <3>1, <3>2, <3>3
  <2> QED  BY <1>1, <1>2, <2>1, <2>2, <2>3 DEF InList
<1>5. Value = n /\ pos + IntLen = Ends(Fields(msg))[2] /\ pos + IntLen \in 0..Len(buf)
  <2> HIDE DEF n
  <2>1. Value = n /\ pos + IntLen = Ends(Fields(msg))[1 + 1] /\ pos + IntLen \in 0..Len(buf)
    BY <1>1, <1>4, NextWord
  <2> QED  BY <2>1
<1>6. /\ UNCHANGED writer /\ msg' = msg /\ pos' = pos + IntLen /\ left' = n
      /\ pc' = (IF n > 0 THEN EntryStart(msg.kind) ELSE "done")
      /\ out' = out /\ entry' = NoEntry /\ len' = len
  BY <1>2, <1>3, <1>5 DEF ReadLenList, ReadsWord, InList, writer
<1>7. Inside'
  <2>1. left' \in 0..n
    <3> HIDE DEF n
    <3> QED  BY <1>4, <1>6
  <2> QED  BY <1>1, <1>5, <1>6, <2>1, StillInside DEF Inside
<1>8. CASE n > 0
  <2>1. 0 \in 0..(n - 1) /\ n - 0 = n
    <3> HIDE DEF n
    <3> QED  BY <1>4, <1>8
  <2>2. At(First(msg.kind, 0))'
    <3>1. First(msg.kind, 0) = 2
      <4>1. PerEntry(msg.kind) \in Int
        BY DEF PerEntry
      <4> QED  BY <4>1 DEF First
    <3>2. pos' = Ends(Fields(msg'))[2] /\ msg' = msg
      BY <1>5, <1>6
    <3> QED  BY <3>1, <3>2 DEF At
  <2>3. Lists(msg)' /\ Received(0)' /\ left' = Len(msg'.list) - 0
    BY <1>2, <1>6, <2>1 DEF InList, Lists, Received
  <2>4. EntryBegins(0)'
    BY <1>6, <1>8, <2>2, <2>3 DEF EntryBegins
  <2> QED  BY <1>1, <1>2, <1>6, <1>7, <2>1, <2>4, BeginsIs, StillReading DEF IInv
<1>9. CASE ~(n > 0)
  <2>1. msg.list = <<>>
    BY <1>1, <1>4, <1>9, ObjectIs
  <2>2. Exported(msg) = out
    <3>1. SubSeq(msg.list, 1, 0) = msg.list
      BY <2>1
    <3>2. out = Record(msg.kind, 0, 200, <<>>, 0, msg.list)
      BY <1>2, <3>1 DEF InList, Received
    <3>3. Lists(msg)
      BY <1>2 DEF InList
    <3> QED  BY <1>1, <3>2, <3>3, ExportedIs
  <2>3. Finished'
    BY <1>6, <1>9, <2>2 DEF Finished
  <2> QED  BY <1>1, <1>6, <1>7, <2>3, StillReading DEF IInv
<1> QED  BY <1>8, <1>9

LEMMA EntryAt ==
  ASSUME NEW m, Object(m), Lists(m), NEW p \in 0..(Len(m.list) - 1)
  PROVE  LET F == Fields(m)
             f == First(m.kind, p)
             h == f + Ahead(m.kind)
             e == m.list[p + 1]
         IN  /\ f \in Nat /\ h \in Nat /\ h + 2 <= Len(F) - 1 /\ Len(F) \in Nat /\ f <= h
             /\ m.kind = "ListRFCResponse" => h = f + 1 /\ F[f + 1] = Word(e.rfc, IntLen)
             /\ F[h + 1] = Word(Len(e.host), IntLen) /\ F[h + 2] = Chars(e.host)
             /\ F[h + 3] = Word(e.port, IntLen)
             /\ First(m.kind, p + 1) = h + 3
             /\ e \in Entry /\ e.rfc \in Int /\ e.host \in Text /\ CString(e.host) = e.host
             /\ Len(e.host) \in Int /\ e.port \in Int
<1> DEFINE F == Fields(m)
<1> DEFINE f == First(m.kind, p)
<1> DEFINE h == f + Ahead(m.kind)
<1> DEFINE e == m.list[p + 1]
<1>1. Len(m.list) \in Nat /\ p + 1 \in 1..Len(m.list)
  BY ObjectIs
<1>2. /\ e \in Entry /\ e.rfc \in Int /\ e.host \in Seq(Nat \ {NUL}) /\ e.host \in Text
      /\ Len(e.host) \in Int /\ e.port \in Int
  <2>1. e \in Entry
    BY <1>1, ObjectIs
  <2> QED  BY <2>1 DEF Entry, Text
<1>3. /\ F \in Seq(Seq(Cell)) /\ Len(F) = First(m.kind, Len(m.list))
      /\ m.kind = "ListRFCResponse" => F[f + 1] = Word(e.rfc, IntLen)
      /\ F[h + 1] = Word(Len(e.host), IntLen) /\ F[h + 2] = Chars(e.host)
      /\ F[h + 3] = Word(e.port, IntLen)
  BY ListFields DEF Lists
<1>4. /\ f \in Nat /\ Ahead(m.kind) \in {0, 1} /\ First(m.kind, p + 1) = f + Ahead(m.kind) + 3
      /\ First(m.kind, p + 1) <= First(m.kind, Len(m.list))
  BY <1>1, PlaceIs
<1>5. Len(F) \in Nat
  BY FieldsAre
<1>6. /\ f \in Nat /\ h \in Nat /\ h + 2 <= Len(F) - 1 /\ First(m.kind, p + 1) = h + 3 /\ f <= h
  <2> DEFINE a == Ahead(m.kind)
  <2> DEFINE g == First(m.kind, p + 1)
  <2> DEFINE n == Len(F)
  <2>1. f \in Nat /\ a \in {0, 1} /\ g = f + a + 3 /\ g <= n /\ n \in Nat
    BY <1>3, <1>4, <1>5
  <2> HIDE DEF a, g, n, f
  <2>2. f + a \in Nat /\ (f + a) + 2 <= n - 1 /\ g = (f + a) + 3 /\ f <= f + a
    BY ONLY <2>1
  <2> QED  BY <2>1, <2>2 DEF a, g, n
<1>7. m.kind = "ListRFCResponse" => h = f + 1
  BY DEF Ahead
<1>8. CString(e.host) = e.host
  BY <1>2, WithoutNUL
<1> HIDE DEF F, f, h, e
<1>9. /\ f \in Nat /\ h \in Nat /\ h + 2 <= Len(F) - 1 /\ Len(F) \in Nat /\ f <= h
      /\ m.kind = "ListRFCResponse" => h = f + 1 /\ F[f + 1] = Word(e.rfc, IntLen)
      /\ F[h + 1] = Word(Len(e.host), IntLen) /\ F[h + 2] = Chars(e.host)
      /\ F[h + 3] = Word(e.port, IntLen)
      /\ First(m.kind, p + 1) = h + 3
      /\ e \in Entry /\ e.rfc \in Int /\ e.host \in Text /\ CString(e.host) = e.host
      /\ Len(e.host) \in Int /\ e.port \in Int
  BY <1>2, <1>3, <1>5, <1>6, <1>7, <1>8
<1> QED  BY <1>9 DEF F, f, h, e

LEMMA NextEntry ==
  ASSUME NEW X, NEW s \in Seq(X), NEW p \in 0..(Len(s) - 1)
  PROVE  Append(SubSeq(s, 1, p), s[p + 1]) = SubSeq(s, 1, p + 1)
OBVIOUS

LEMMA ReadRfcHolds ==
  ASSUME IInv, ReadRfc
  PROVE  IInv'
<1>1. /\ Inside /\ Reading /\ Object(msg) /\ Valid(msg) /\ IntLen \in Nat \ {0} /\ pc = "rfc"
  BY ReadingIs DEF ReadRfc, ReadsWord
<1>2. PICK p \in 0..(Len(msg.list) - 1) : InEntry(p)
  BY <1>1 DEF Reading, InNumber, InCode, InRequest, InFile, InList, Finished
<1> DEFINE F == Fields(msg)
<1> DEFINE f == First(msg.kind, p)
<1> DEFINE h == f + Ahead(msg.kind)
<1> DEFINE e == msg.list[p + 1]
<1>3. /\ Lists(msg) /\ Received(p) /\ left = Len(msg.list) - p
      /\ msg.kind = "ListRFCResponse" /\ entry = NoEntry /\ At(f)
  BY <1>1, <1>2 DEF InEntry
<1>4. /\ f \in 0..(Len(F) - 1) /\ h = f + 1 /\ F[f + 1] = Word(e.rfc, IntLen) /\ e.rfc \in Int
  <2>1. /\ f \in Nat /\ h \in Nat /\ h + 2 <= Len(F) - 1 /\ Len(F) \in Nat /\ f <= h
        /\ h = f + 1 /\ F[f + 1] = Word(e.rfc, IntLen) /\ e.rfc \in Int
    BY <1>1, <1>3, EntryAt
  <2> HIDE DEF F, f, h
  <2> QED  BY <2>1
<1>5. Value = e.rfc /\ pos + IntLen = Ends(F)[h] /\ pos + IntLen \in 0..Len(buf)
  <2> HIDE DEF e, f, h
  <2>1. Value = e.rfc /\ pos + IntLen = Ends(F)[f + 1] /\ pos + IntLen \in 0..Len(buf)
    BY <1>1, <1>3, <1>4, NextWord
  <2> QED  BY <1>4, <2>1
<1>6. /\ UNCHANGED writer /\ msg' = msg /\ pos' = pos + IntLen /\ pc' = "len"
      /\ entry' = Part(e.rfc, <<>>) /\ out' = out /\ left' = left /\ len' = len
  <2>1. [NoEntry EXCEPT !.rfc = e.rfc] = Part(e.rfc, <<>>)
    <3> HIDE DEF e
    <3> QED  BY DEF NoEntry, Part
  <2> QED  BY <1>3, <1>5, <2>1 DEF ReadRfc, ReadsWord, writer
<1>7. Inside'
  BY <1>1, <1>5, <1>6, StillInside DEF Inside
<1>8. InEntry(p)'
  <2>1. At(h)'
    BY <1>5, <1>6 DEF At
  <2>2. Lists(msg)' /\ Received(p)' /\ left' = Len(msg'.list) - p
    BY <1>3, <1>6 DEF Lists, Received
  <2> QED  BY <1>6, <2>1, <2>2 DEF InEntry
<1> QED  BY <1>1, <1>2, <1>6, <1>7, <1>8, StillReading DEF IInv

\* Where the other fields of the messages without a list stand.
LEMMA RequestAt ==
  ASSUME NEW m, Object(m), m.kind = "ListRFCMessage"
  PROVE  /\ Len(Fields(m)) = 3 /\ Fields(m)[0 + 1] = Word(Len(m.text), IntLen)
         /\ Fields(m)[1 + 1] = Chars(m.text) /\ Fields(m)[2 + 1] = Word(m.port, IntLen)
         /\ m.text \in Text /\ Len(m.text) \in Int /\ m.port \in Int
<1>1. Fields(m) = <<Word(Len(m.text), IntLen), Chars(m.text), Word(m.port, IntLen)>>
  BY OtherFields DEF Lists, Listing
<1>2. m.text \in Text /\ Len(m.text) \in Int /\ m.port \in Int
  BY ObjectIs
<1> QED  BY <1>1, <1>2

LEMMA FileAt ==
  ASSUME NEW m, Object(m), m.kind = "GetRFCResponse", m.code = 200
  PROVE  /\ Len(Fields(m)) = 3 /\ Fields(m)[1 + 1] = Word(Len(m.text), IntLen)
         /\ Fields(m)[2 + 1] = Chars(m.text)
         /\ m.text \in Text /\ Len(m.text) \in Int
<1>1. Fields(m) = <<Word(m.code, IntLen), Word(Len(m.text), IntLen), Chars(m.text)>>
  BY OtherFields DEF Lists, Listing
<1>2. m.text \in Text /\ Len(m.text) \in Int
  BY ObjectIs
<1> QED  BY <1>1, <1>2

\* A length and the text behind it.
LEMMA LengthThenText ==
  ASSUME Inside, Reading, NEW j \in 0..(Len(Fields(msg)) - 2), At(j), NEW s \in Text,
         Fields(msg)[j + 1] = Word(Len(s), IntLen), Fields(msg)[j + 2] = Chars(s)
  PROVE  /\ Value = Len(s) /\ Len(s) \in 0..Len(buf)
         /\ pos + IntLen = Ends(Fields(msg))[j + 1] /\ pos + IntLen \in 0..Len(buf)
<1>1. /\ IntLen \in Nat \ {0} /\ Len(s) \in Int /\ Len(Chars(s)) = Len(s)
  BY MessagesAssumption, CellsOf DEF Text
<1>2. Len(Fields(msg)) \in Nat
  BY SentIs
<1>3. j \in 0..(Len(Fields(msg)) - 1) /\ j + 1 \in 0..(Len(Fields(msg)) - 1) /\ (j + 1) + 1 = j + 2
  BY <1>2
<1>4. /\ Value = Len(s)
      /\ pos + IntLen = Ends(Fields(msg))[j + 1] /\ pos + IntLen \in 0..Len(buf)
  BY <1>1, <1>3, NextWord
<1>5. Len(Fields(msg)[(j + 1) + 1]) \in 0..Len(buf)
  BY <1>3, FieldFits DEF Reading, Written
<1> QED  BY <1>1, <1>3, <1>4, <1>5

LEMMA ReadLenIs ==
  ASSUME IInv, ReadLen, NEW j \in 0..(Len(Fields(msg)) - 2), At(j), NEW s \in Text,
         Fields(msg)[j + 1] = Word(Len(s), IntLen), Fields(msg)[j + 2] = Chars(s)
  PROVE  Inside' /\ pos' = Ends(Fields(msg))[j + 1] /\ len' = Len(s)
<1>1. /\ Inside /\ Reading
      /\ UNCHANGED writer /\ msg' = msg /\ pos' = pos + IntLen /\ len' = Value
      /\ out' = out /\ left' = left
  BY ReadingIs DEF ReadLen, ReadsWord, writer
<1>2. /\ Value = Len(s) /\ Len(s) \in 0..Len(buf)
      /\ pos + IntLen = Ends(Fields(msg))[j + 1] /\ pos + IntLen \in 0..Len(buf)
  BY <1>1, LengthThenText
<1>3. Inside'
  BY <1>1, <1>2, StillInside DEF Inside
<1> QED  BY <1>1, <1>2, <1>3

LEMMA ReadLenHolds ==
  ASSUME IInv, ReadLen
  PROVE  IInv'
<1>1. /\ Inside /\ Reading /\ Object(msg) /\ pc = "len" /\ UNCHANGED writer /\ msg' = msg
      /\ pc' = "text" /\ out' = out /\ entry' = entry /\ left' = left
  BY ReadingIs DEF ReadLen, ReadsWord, writer
<1>2. InRequest \/ InFile \/ \E p \in 0..(Len(msg.list) - 1) : InEntry(p)
  BY <1>1 DEF Reading, InNumber, InCode, InList, Finished
<1>3. CASE InRequest
  <2>1. msg.kind = "ListRFCMessage" /\ Unread /\ At(0)
    BY <1>1, <1>3 DEF InRequest
  <2>2. /\ Len(Fields(msg)) = 3 /\ Fields(msg)[0 + 1] = Word(Len(msg.text), IntLen)
        /\ Fields(msg)[1 + 1] = Chars(msg.text) /\ msg.text \in Text
    BY <1>1, <2>1, RequestAt
  <2>3. /\ 0 \in 0..(Len(Fields(msg)) - 2) /\ Fields(msg)[0 + 2] = Chars(msg.text)
    BY <2>2
  <2>4. Inside' /\ pos' = Ends(Fields(msg))[0 + 1] /\ len' = Len(msg.text)
    BY <2>1, <2>2, <2>3, ReadLenIs
  <2>5. At(1)'
    BY <1>1, <2>4 DEF At
  <2>6. InRequest'
    BY <1>1, <2>1, <2>4, <2>5 DEF InRequest, Unread
  <2> QED  BY <1>1, <2>4, <2>6, StillReading DEF IInv
<1>4. CASE InFile
  <2>1. /\ msg.kind = "GetRFCResponse" /\ msg.code = 200
        /\ out = Record(msg.kind, 0, 200, <<>>, 0, <<>>) /\ At(1)
    BY <1>1, <1>4 DEF InFile
  <2>2. /\ Len(Fields(msg)) = 3 /\ Fields(msg)[1 + 1] = Word(Len(msg.text), IntLen)
        /\ Fields(msg)[2 + 1] = Chars(msg.text) /\ msg.text \in Text
    BY <1>1, <2>1, FileAt
  <2>3. /\ 1 \in 0..(Len(Fields(msg)) - 2) /\ Fields(msg)[1 + 2] = Chars(msg.text)
    BY <2>2
  <2>4. Inside' /\ pos' = Ends(Fields(msg))[1 + 1] /\ len' = Len(msg.text)
    BY <2>1, <2>2, <2>3, ReadLenIs
  <2>5. At(2)'
    BY <1>1, <2>4 DEF At
  <2>6. InFile'
    BY <1>1, <2>1, <2>4, <2>5 DEF InFile
  <2> QED  BY <1>1, <2>4, <2>6, StillReading DEF IInv
<1>5. ASSUME NEW p \in 0..(Len(msg.list) - 1), InEntry(p)
      PROVE  IInv'
  <2> DEFINE h == First(msg.kind, p) + Ahead(msg.kind)
  <2> DEFINE e == msg.list[p + 1]
  <2>1. /\ Lists(msg) /\ Received(p) /\ left = Len(msg.list) - p
        /\ entry = Part(e.rfc, <<>>) /\ At(h)
    BY <1>1, <1>5 DEF InEntry
  <2>2. /\ h \in Nat /\ h + 2 <= Len(Fields(msg)) - 1 /\ Len(Fields(msg)) \in Nat
        /\ Fields(msg)[h + 1] = Word(Len(e.host), IntLen) /\ Fields(msg)[h + 2] = Chars(e.host)
        /\ e.host \in Text
    BY <1>1, <2>1, EntryAt
  <2>3. h \in 0..(Len(Fields(msg)) - 2)
    <3> HIDE DEF h
    <3> QED  BY <2>2
  <2>4. Inside' /\ pos' = Ends(Fields(msg))[h + 1] /\ len' = Len(e.host)
    <3> DEFINE t == e.host
    <3>1. /\ At(h) /\ t \in Text
          /\ Fields(msg)[h + 1] = Word(Len(t), IntLen) /\ Fields(msg)[h + 2] = Chars(t)
      BY <2>1, <2>2
    <3> HIDE DEF h, e, t
    <3>2. Inside' /\ pos' = Ends(Fields(msg))[h + 1] /\ len' = Len(t)
      BY <2>3, <3>1, ReadLenIs
    <3> QED  BY <3>2 DEF t
  <2>5. InEntry(p)'
    <3>1. Lists(msg)' /\ Received(p)' /\ left' = Len(msg'.list) - p
      BY <1>1, <2>1 DEF Lists, Received
    <3>2. At(h + 1)'
      BY <1>1, <2>4 DEF At
    <3> QED  BY <1>1, <2>1, <2>4, <3>1, <3>2 DEF InEntry
  <2> QED  BY <1>1, <2>4, <2>5, StillReading DEF IInv
<1> QED  BY <1>2, <1>3, <1>4, <1>5

LEMMA ReadTextIs ==
  ASSUME IInv, ReadText, NEW j \in 0..(Len(Fields(msg)) - 1), At(j), NEW s \in Text,
         Fields(msg)[j + 1] = Chars(s), len = Len(s)
  PROVE  /\ pos' = Ends(Fields(msg))[j + 1] /\ pos' \in 0..Len(buf)
         /\ msg.kind \in Listing => entry' = [entry EXCEPT !.host = CString(s)] /\ out' = out
         /\ msg.kind \notin Listing => out' = [out EXCEPT !.text = CString(s)] /\ entry' = entry
<1>1. /\ Inside /\ Reading /\ out.kind = msg.kind /\ pos' = pos + len
  BY ReadingIs DEF ReadText, Inside
<1>2. /\ [i \in 1..Len(s) |-> buf[pos + i][1]] = s
      /\ pos + Len(s) = Ends(Fields(msg))[j + 1] /\ pos + Len(s) \in 0..Len(buf)
  BY <1>1, NextText
<1>3. IF msg.kind \in Listing
      THEN entry' = [entry EXCEPT !.host = CString(s)] /\ UNCHANGED out
      ELSE out' = [out EXCEPT !.text = CString(s)] /\ UNCHANGED entry
  BY <1>1, <1>2 DEF ReadText
<1> QED  BY <1>1, <1>2, <1>3

LEMMA ReadTextHolds ==
  ASSUME IInv, ReadText
  PROVE  IInv'
<1>1. /\ Inside /\ Reading /\ Object(msg) /\ Valid(msg) /\ pc = "text" /\ UNCHANGED writer
      /\ msg' = msg /\ left' = left /\ len' = len
      /\ pc' = IF msg.kind = "GetRFCResponse" THEN "done" ELSE "port"
  BY ReadingIs DEF ReadText, writer, Inside
<1>2. InRequest \/ InFile \/ \E p \in 0..(Len(msg.list) - 1) : InEntry(p)
  BY <1>1 DEF Reading, InNumber, InCode, InList, Finished
<1>3. CASE InRequest
  <2>1. msg.kind = "ListRFCMessage" /\ Unread /\ At(1) /\ len = Len(msg.text)
    BY <1>1, <1>3 DEF InRequest
  <2>2. /\ Len(Fields(msg)) = 3 /\ Fields(msg)[1 + 1] = Chars(msg.text) /\ msg.text \in Text
    BY <1>1, <2>1, RequestAt
  <2>3. 1 \in 0..(Len(Fields(msg)) - 1) /\ msg.kind \notin Listing
    BY <2>1, <2>2 DEF Listing
  <2>4. /\ pos' = Ends(Fields(msg))[1 + 1] /\ pos' \in 0..Len(buf)
        /\ out' = [out EXCEPT !.text = CString(msg.text)]
    BY <2>1, <2>2, <2>3, ReadTextIs
  <2>5. out' = Record(msg.kind, 0, 0, CString(msg.text), 0, <<>>)
    <3> DEFINE kind == msg.kind
    <3> DEFINE text == CString(msg.text)
    <3>1. out = Record(kind, 0, 0, <<>>, 0, <<>>) /\ out' = [out EXCEPT !.text = text]
      BY <2>1, <2>4, FreshIs DEF Unread
    <3> HIDE DEF kind, text
    <3>2. out' = Record(kind, 0, 0, text, 0, <<>>)
      BY <3>1 DEF Record
    <3> QED  BY <3>2 DEF kind, text
  <2>6. At(2)' /\ pc' = "port"
    BY <1>1, <2>1, <2>4 DEF At
  <2>7. InRequest'
    BY <1>1, <2>1, <2>5, <2>6 DEF InRequest
  <2>8. Inside'
    <3>1. out'.kind = out.kind
      BY <1>1, <2>5 DEF Inside, Record
    <3> QED  BY <1>1, <2>4, <3>1, StillInside DEF Inside
  <2> QED  BY <1>1, <2>7, <2>8, StillReading DEF IInv
<1>4. CASE InFile
  <2>1. /\ msg.kind = "GetRFCResponse" /\ msg.code = 200 /\ len = Len(msg.text)
        /\ out = Record(msg.kind, 0, 200, <<>>, 0, <<>>) /\ At(2)
    BY <1>1, <1>4 DEF InFile
  <2>2. /\ Len(Fields(msg)) = 3 /\ Fields(msg)[2 + 1] = Chars(msg.text) /\ msg.text \in Text
    BY <1>1, <2>1, FileAt
  <2>3. 2 \in 0..(Len(Fields(msg)) - 1) /\ msg.kind \notin Listing
    BY <2>1, <2>2 DEF Listing
  <2>4. /\ pos' \in 0..Len(buf) /\ out' = [out EXCEPT !.text = CString(msg.text)]
    BY <2>1, <2>2, <2>3, ReadTextIs
  <2>5. out' = Record(msg.kind, 0, 200, CString(msg.text), 0, <<>>)
    <3> DEFINE kind == msg.kind
    <3> DEFINE text == CString(msg.text)
    <3>1. out = Record(kind, 0, 200, <<>>, 0, <<>>) /\ out' = [out EXCEPT !.text = text]
      BY <2>1, <2>4
    <3> HIDE DEF kind, text
    <3>2. out' = Record(kind, 0, 200, text, 0, <<>>)
      BY <3>1 DEF Record
    <3> QED  BY <3>2 DEF kind, text
  <2>6. Finished'
    <3>1. Exported(msg) = Record(msg.kind, 0, 200, CString(msg.text), 0, <<>>)
      BY <1>1, <2>1, ExportedIs
    <3> QED  BY <1>1, <2>1, <2>5, <3>1 DEF Finished
  <2>7. Inside'
    <3>1. out'.kind = out.kind
      BY <1>1, <2>5 DEF Inside, Record
    <3> QED  BY <1>1, <2>4, <3>1, StillInside DEF Inside
  <2> QED  BY <1>1, <2>6, <2>7, StillReading DEF IInv
<1>5. ASSUME NEW p \in 0..(Len(msg.list) - 1), InEntry(p)
      PROVE  IInv'
  <2> DEFINE h == First(msg.kind, p) + Ahead(msg.kind)
  <2> DEFINE e == msg.list[p + 1]
  <2>1. /\ Lists(msg) /\ Received(p) /\ left = Len(msg.list) - p
        /\ entry = Part(e.rfc, <<>>) /\ At(h + 1) /\ len = Len(e.host)
    BY <1>1, <1>5 DEF InEntry
  <2>2. /\ h \in Nat /\ h + 2 <= Len(Fields(msg)) - 1 /\ Len(Fields(msg)) \in Nat
        /\ Fields(msg)[h + 2] = Chars(e.host) /\ e.host \in Text /\ CString(e.host) = e.host
    BY <1>1, <2>1, EntryAt
  <2>3. /\ h + 1 \in 0..(Len(Fields(msg)) - 1) /\ (h + 1) + 1 = h + 2 /\ h + 1 \in Nat
    <3> HIDE DEF h
    <3> QED  BY <2>2
  <2>4. msg.kind \in Listing /\ pc' = "port"
    <3>1. msg.kind \in Listing /\ msg.kind # "GetRFCResponse"
      BY <2>1 DEF Lists, Listing
    <3> QED  BY <1>1, <3>1
  <2>5. /\ pos' = Ends(Fields(msg))[h + 2] /\ pos' \in 0..Len(buf)
        /\ entry' = [entry EXCEPT !.host = e.host] /\ out' = out
    <3> DEFINE t == e.host
    <3> DEFINE j == h + 1
    <3>1. /\ At(j) /\ t \in Text /\ j \in 0..(Len(Fields(msg)) - 1) /\ len = Len(t)
          /\ Fields(msg)[j + 1] = Chars(t) /\ CString(t) = t /\ j + 1 = h + 2
      BY <2>1, <2>2, <2>3
    <3> HIDE DEF h, e, t, j
    <3>2. /\ pos' = Ends(Fields(msg))[j + 1] /\ pos' \in 0..Len(buf)
          /\ entry' = [entry EXCEPT !.host = CString(t)] /\ out' = out
      BY <2>4, <3>1, ReadTextIs
    <3> QED  BY <3>1, <3>2 DEF t
  <2>6. entry' = Part(e.rfc, e.host)
    <3> DEFINE rfc == e.rfc
    <3> DEFINE host == e.host
    <3>1. entry = Part(rfc, <<>>) /\ entry' = [entry EXCEPT !.host = host]
      BY <2>1, <2>5
    <3> HIDE DEF rfc, host
    <3>2. entry' = Part(rfc, host)
      BY <3>1 DEF Part
    <3> QED  BY <3>2 DEF rfc, host
  <2>7. InEntry(p)'
    <3>1. Lists(msg)' /\ Received(p)' /\ left' = Len(msg'.list) - p
      BY <1>1, <2>1, <2>5 DEF Lists, Received
    <3>2. At(h + 2)'
      BY <1>1, <2>5 DEF At
    <3> QED  BY <1>1, <2>4, <2>6, <3>1, <3>2 DEF InEntry
  <2>8. Inside'
    BY <1>1, <2>5, StillInside DEF Inside
  <2> QED  BY <1>1, <2>7, <2>8, StillReading DEF IInv
<1> QED  BY <1>2, <1>3, <1>4, <1>5

LEMMA ReadPortHolds ==
  ASSUME IInv, ReadPort
  PROVE  IInv'
<1>1. /\ Inside /\ Reading /\ Object(msg) /\ Valid(msg) /\ IntLen \in Nat \ {0} /\ pc = "port"
      /\ UNCHANGED writer /\ msg' = msg /\ pos' = pos + IntLen /\ pc' = "done"
      /\ out' = [out EXCEPT !.port = Value] /\ left' = left /\ len' = len
      /\ out.kind = msg.kind /\ msg.kind = "ListRFCMessage"
  BY ReadingIs DEF ReadPort, ReadsWord, writer, Inside
<1>2. InRequest
  BY <1>1 DEF Reading, InNumber, InCode, InFile, InList, InEntry, Lists, Listing, Finished
<1>3. out = Record(msg.kind, 0, 0, CString(msg.text), 0, <<>>) /\ At(2)
  BY <1>1, <1>2 DEF InRequest
<1>4. /\ Len(Fields(msg)) = 3 /\ Fields(msg)[2 + 1] = Word(msg.port, IntLen)
      /\ msg.port \in Int /\ 2 \in 0..(Len(Fields(msg)) - 1)
  BY <1>1, RequestAt
<1>5. Value = msg.port /\ pos + IntLen \in 0..Len(buf)
  BY <1>1, <1>3, <1>4, NextWord
<1>6. out' = Record(msg.kind, 0, 0, CString(msg.text), msg.port, <<>>)
  <2> DEFINE kind == msg.kind
  <2> DEFINE text == CString(msg.text)
  <2> DEFINE port == msg.port
  <2>1. out = Record(kind, 0, 0, text, 0, <<>>) /\ out' = [out EXCEPT !.port = port]
    BY <1>1, <1>3, <1>5
  <2> HIDE DEF kind, text, port
  <2>2. out' = Record(kind, 0, 0, text, port, <<>>)
    BY <2>1 DEF Record
  <2> QED  BY <2>2 DEF kind, text, port
<1>7. Inside'
  <2>1. out'.kind = out.kind
    BY <1>1, <1>6 DEF Record
  <2> QED  BY <1>1, <1>5, <2>1, StillInside DEF Inside
<1>8. Finished'
  BY <1>1, <1>6, ExportedIs DEF Finished
<1> QED  BY <1>1, <1>7, <1>8, StillReading DEF IInv

LEMMA ReadEntryHolds ==
  ASSUME IInv, ReadEntry
  PROVE  IInv'
<1>1. /\ Inside /\ Reading /\ Object(msg) /\ Valid(msg) /\ IntLen \in Nat \ {0} /\ pc = "port"
      /\ UNCHANGED writer /\ msg' = msg /\ pos' = pos + IntLen
      /\ out' = [out EXCEPT !.list = Append(@, [entry EXCEPT !.port = Value])]
      /\ entry' = NoEntry /\ left' = left - 1 /\ len' = len
      /\ pc' = (IF left > 1 THEN EntryStart(msg.kind) ELSE "done")
      /\ out.kind = msg.kind /\ msg.kind \in Listing
  BY ReadingIs DEF ReadEntry, ReadsWord, writer, Inside, Pushed
<1>2. PICK p \in 0..(Len(msg.list) - 1) : InEntry(p)
  BY <1>1 DEF Reading, InNumber, InCode, InRequest, InFile, InList, Listing, Finished
<1> DEFINE n == Len(msg.list)
<1> DEFINE F == Fields(msg)
<1> DEFINE h == First(msg.kind, p) + Ahead(msg.kind)
<1> DEFINE e == msg.list[p + 1]
<1>3. /\ Lists(msg) /\ Received(p) /\ left = n - p /\ entry = Part(e.rfc, e.host) /\ At(h + 2)
  BY <1>1, <1>2 DEF InEntry
<1>4. /\ h + 2 \in 0..(Len(F) - 1) /\ F[(h + 2) + 1] = Word(e.port, IntLen) /\ e.port \in Int
      /\ First(msg.kind, p + 1) = (h + 2) + 1 /\ e \in Entry
  <2>1. /\ h \in Nat /\ h + 2 <= Len(F) - 1 /\ Len(F) \in Nat
        /\ F[h + 3] = Word(e.port, IntLen) /\ e.port \in Int
        /\ First(msg.kind, p + 1) = h + 3 /\ e \in Entry
    BY <1>1, <1>3, EntryAt
  <2> HIDE DEF F, h
  <2>2. (h + 2) + 1 = h + 3 /\ h + 2 \in 0..(Len(F) - 1)
    BY <2>1
  <2> QED  BY <2>1, <2>2
<1>5. /\ Value = e.port /\ pos + IntLen = Ends(F)[First(msg.kind, p + 1)]
      /\ pos + IntLen \in 0..Len(buf)
  <2> DEFINE j == h + 2
  <2>1. j \in 0..(Len(F) - 1) /\ F[j + 1] = Word(e.port, IntLen) /\ e.port \in Int /\ At(j)
    BY <1>3, <1>4
  <2> HIDE DEF e, h, j
  <2>2. Value = e.port /\ pos + IntLen = Ends(F)[j + 1] /\ pos + IntLen \in 0..Len(buf)
    BY <1>1, <2>1, NextWord
  <2> QED  BY <1>4, <2>2 DEF j
<1>6. n \in Nat /\ msg.list \in Seq(Entry) /\ p + 1 \in 1..n /\ p + 1 \in 0..n
  BY <1>1, ObjectIs
<1>7. out' = Record(msg.kind, 0, 200, <<>>, 0, SubSeq(msg.list, 1, p + 1))
  <2> DEFINE kind == msg.kind
  <2> DEFINE list == SubSeq(msg.list, 1, p)
  <2>1. [entry EXCEPT !.port = Value] = e
    <3> DEFINE c == e
    <3>1. c \in [rfc : Int, host : Seq(Nat \ {NUL}), port : Int]
      BY <1>4 DEF Entry
    <3>2. entry = Part(c.rfc, c.host) /\ Value = c.port
      BY <1>3, <1>5
    <3> HIDE DEF c
    <3>3. [entry EXCEPT !.port = Value] = c
      BY <3>1, <3>2 DEF Part
    <3> QED  BY <3>3 DEF c
  <2>2. Append(list, e) = SubSeq(msg.list, 1, p + 1)
    BY <1>6, NextEntry
  <2>3. out = Record(kind, 0, 200, <<>>, 0, list)
    BY <1>3 DEF Received
  <2>4. out.list = list
    <3> HIDE DEF kind, list
    <3> QED  BY <2>3 DEF Record
  <2> DEFINE longer == Append(list, e)
  <2>5. out' = [out EXCEPT !.list = longer]
    BY <1>1, <2>1, <2>4
  <2> HIDE DEF kind, list, longer
  <2>6. out' = Record(kind, 0, 200, <<>>, 0, longer)
    BY <2>3, <2>5 DEF Record
  <2> QED  BY <2>2, <2>6 DEF kind, longer
<1>8. left' = n - (p + 1) /\ left' \in 0..n /\ (left > 1 <=> p + 1 < n)
  <2> HIDE DEF n
  <2> QED  BY <1>1, <1>3, <1>6
<1>9. Inside'
  <2>1. out'.kind = out.kind
    BY <1>1, <1>7 DEF Record
  <2> QED  BY <1>1, <1>5, <1>8, <2>1, StillInside DEF Inside
<1>10. CASE p + 1 < n
  <2>1. p + 1 \in 0..(n - 1)
    <3> HIDE DEF n
    <3> QED  BY <1>6, <1>10
  <2>2. EntryBegins(p + 1)'
    <3>1. At(First(msg.kind, p + 1))'
      BY <1>1, <1>5 DEF At
    <3>2. Lists(msg)' /\ Received(p + 1)' /\ left' = Len(msg'.list) - (p + 1)
      BY <1>1, <1>3, <1>7, <1>8 DEF Lists, Received
    <3>3. pc' = EntryStart(msg.kind)
      BY <1>1, <1>8, <1>10
    <3> QED  BY <1>1, <3>1, <3>2, <3>3 DEF EntryBegins
  <2>3. InEntry(p + 1)'
    BY <1>1, <2>1, <2>2, BeginsIs
  <2> QED  BY <1>1, <1>9, <2>1, <2>3, StillReading DEF IInv
<1>11. CASE ~(p + 1 < n)
  <2>1. p + 1 = n
    <3> HIDE DEF n
    <3> QED  BY <1>6, <1>11
  <2>2. SubSeq(msg.list, 1, p + 1) = msg.list
    BY <1>6, <2>1
  <2>3. pc' = "done"
    BY <1>1, <1>8, <1>11
  <2>4. Exported(msg) = Record(msg.kind, 0, 200, <<>>, 0, msg.list)
    BY <1>1, <1>3, ExportedIs
  <2>5. Finished'
    BY <1>1, <1>7, <2>2, <2>3, <2>4 DEF Finished
  <2> QED  BY <1>1, <1>9, <2>5, StillReading DEF IInv
<1> QED  BY <1>10, <1>11

(***************************************************************************)
(* Theorems                                                                *)
(***************************************************************************)

LEMMA Invariant ==
  Spec => []IInv
<1>1. ASSUME IInv, [Next]_vars
      PROVE  IInv'
  <2>1. CASE Allocate
    BY <1>1, <2>1, AllocateHolds
  <2>2. CASE Refuse
    BY <1>1, <2>2, RefuseHolds
  <2>3. CASE WriteField
    BY <1>1, <2>3, WriteFieldHolds
  <2>4. CASE Transfer
    BY <1>1, <2>4, TransferHolds
  <2>5. CASE ReadNumber
    BY <1>1, <2>5, ReadNumberHolds
  <2>6. CASE ReadCode
    BY <1>1, <2>6, ReadCodeHolds
  <2>7. CASE ReadLenList
    BY <1>1, <2>7, ReadLenListHolds
  <2>8. CASE ReadRfc
    BY <1>1, <2>8, ReadRfcHolds
  <2>9. CASE ReadLen
    BY <1>1, <2>9, ReadLenHolds
  <2>10. CASE ReadText
    BY <1>1, <2>10, ReadTextHolds
  <2>11. CASE ReadPort
    BY <1>1, <2>11, ReadPortHolds
  <2>12. CASE ReadEntry
    BY <1>1, <2>12, ReadEntryHolds
  <2>13. CASE UNCHANGED vars
    BY <1>1, <2>13
    DEF IInv, Inside, Unwritten, Writing, Reading, InNumber, InCode, InRequest, InFile, InList,
        InEntry, Finished, Unread, Written, At, Received, vars, writer, reader
  <2> QED
    BY <1>1, <2>1, <2>2, <2>3, <2>4, <2>5, <2>6, <2>7, <2>8, <2>9, <2>10, <2>11, <2>12, <2>13
    DEF Next, Read
<1> QED  BY <1>1, InitHolds, PTL DEF Spec

\* No copy of to_bytes or from_bytes leaves the buffer, and no counter is more
\* than what there is to count, for every width of the numbers, every text and
\* every length of a list.
THEOREM TypeCorrect == Spec => []TypeOK
<1>1. ASSUME IInv
      PROVE  TypeOK
  <2>1. Inside /\ Object(msg)
    BY <1>1, SentIs DEF IInv
  <2>2. out.kind \in Kinds
    BY <2>1, ObjectIs DEF Inside
  <2>3. pc \in {"to_bytes", "ended", "write", "number", "code", "len_list", "rfc", "len",
                "text", "port", "done"}
    BY <1>1 DEF IInv, Unwritten, Writing, Reading, InNumber, InCode, InRequest, InFile, InList,
                InEntry, Finished
  <2> QED  BY <2>1, <2>2, <2>3 DEF Inside, TypeOK, Cell
<1> QED  BY <1>1, Invariant, PTL

\* The object that from_bytes fills is the one that to_bytes was asked for, for
\* every message of every class: all its fields, and all entries of its list in
\* their order.
THEOREM ArrivesWhole == Spec => []ArrivesAsSent
<1>1. ASSUME IInv
      PROVE  ArrivesAsSent
  BY <1>1 DEF IInv, Unwritten, Writing, Reading, InNumber, InCode, InRequest, InFile, InList,
              InEntry, Finished, ArrivesAsSent
<1> QED  BY <1>1, Invariant, PTL
=============================================================================
