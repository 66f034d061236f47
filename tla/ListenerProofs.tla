---------------------------- MODULE ListenerProofs ----------------------------
(***************************************************************************)
(* Proofs about Listener, for both kinds of listener and for every set of  *)
(* connections, whatever their other sides do.                             *)
(***************************************************************************)
EXTENDS Listener, SequenceTheorems, FiniteSetTheorems, TLAPS

(***************************************************************************)
(* Types                                                                   *)
(***************************************************************************)

\* The accept thread has a connection in its hands from accept to push_back.
HandsFull == apc \in {"handshake", "push", "publish", "swap"} => conn \in Connections

\* What push_back is about to publish lies inside a buffer, and the larger
\* buffer is larger.
PushInside ==
  /\ apc = "publish" => finish < at /\ at <= Len(slots)
  /\ apc = "swap" => at <= Len(fresh) /\ Len(slots) < Len(fresh)

\* Buffers only grow, so an iterator that goes with the size of this one points
\* into it: at a keeper, or at end() where that is still to be tested.
ScanInside ==
  /\ itsize <= Len(slots)
  /\ itsize = Len(slots) =>
       /\ Scanning => it >= 1
       /\ cpc = "test" => it - 1 <= finish
       /\ cpc \in {"look", "reap", "move"} => it <= finish
       /\ cpc = "shrink" => it <= seen /\ seen <= finish

\* listen() starts both threads or none.
StartedTogether == apc \in {"off", "never"} => cpc = "off" /\ ~listening

TypeInv == TypeOK /\ StartedTogether /\ HandsFull /\ PushInside /\ ScanInside

\* Nothing has been accepted, and the vector is empty.
LEMMA InitType == Init => TypeInv
<1> SUFFICES ASSUME Init
             PROVE  TypeInv
  OBVIOUS
<1> USE ListenerAssumption DEF Init
<1>1. /\ waiting \in Seq(Connections) /\ fresh \in Seq(Keeper) /\ slots \in Seq(Keeper)
      /\ Len(slots) = 0
  BY EmptySeq
<1>2. TypeOK
  <2>1. closer \in {"idle", "closed"} \cup DOMAIN NextJoin
    OBVIOUS
  <2>2. finish \in 0..Len(slots) /\ at \in Nat /\ it \in Nat /\ itsize \in Nat /\ seen \in Nat
    BY <1>1
  <2>3. hpc \in [Connections -> {"none", "waiting", "running", "ending", "returned"}]
    OBVIOUS
  <2> QED  BY <1>1, <2>1, <2>2, <2>3 DEF TypeOK, Keeper
<1>3. StartedTogether /\ HandsFull /\ PushInside /\ ScanInside
  BY <1>1 DEF StartedTogether, HandsFull, PushInside, ScanInside, Scanning
<1> QED  BY <1>2, <1>3 DEF TypeInv

\* No statement of any of the threads leaves the typed states.
LEMMA TypeStep ==
  ASSUME TypeInv, [Next]_vars
  PROVE  TypeInv'
<1> USE DEF TypeInv, TypeOK, StartedTogether, HandsFull, PushInside, ScanInside, Scanning,
            Pushing, Keeper, NextJoin, PushMeetsScan, ScanMeetsPush,
            listener, accepting, cleaning, vector, handlers
<1>1. CASE Listen
  BY <1>1 DEF Listen
<1>2. CASE ListenFails
  BY <1>2 DEF ListenFails
<1>3. CASE Close
  BY <1>3 DEF Close
<1>4. CASE CloseGoesOn
  BY <1>4 DEF CloseGoesOn, NextJoin
<1>5. CASE Accept
  <2>1. /\ waiting' \in Seq(Connections) /\ conn' \in Connections \cup {conn}
        /\ open' \subseteq Connections
    <3>1. CASE Cardinality(open) < Descriptors
      <4>1. Head(waiting) \in Connections /\ Tail(waiting) \in Seq(Connections)
        BY <1>5, HeadTailProperties DEF Accept
      <4> QED  BY <1>5, <3>1, <4>1 DEF Accept
    <3>2. CASE ~(Cardinality(open) < Descriptors)
      BY <1>5, <3>2 DEF Accept
    <3> QED  BY <3>1, <3>2
  <2> QED  BY <1>5, <2>1 DEF Accept
<1>6. CASE Handshake
  BY <1>6 DEF Handshake
<1>7. CASE HandshakeThrows
  BY <1>7 DEF HandshakeThrows
<1>8. CASE PushStore
  BY <1>8 DEF PushStore
<1>9. CASE PushPublish
  <2>1. finish' \in 0..Len(slots) /\ finish' > finish
    BY <1>9 DEF PushPublish
  <2>2. TypeOK'
    BY <1>9, <2>1 DEF PushPublish
  <2>3. StartedTogether' /\ HandsFull' /\ PushInside'
    BY <1>9, <2>1 DEF PushPublish
  <2>4. ScanInside'
    BY <1>9, <2>1 DEF PushPublish
  <2> QED  BY <2>2, <2>3, <2>4
<1>10. CASE GrowCopy
  BY <1>10 DEF GrowCopy
<1>11. CASE GrowSwap
  BY <1>11 DEF GrowSwap
<1>12. CASE CleanupBegin
  BY <1>12 DEF CleanupBegin
<1>13. CASE CleanupTest
  BY <1>13 DEF CleanupTest
<1>14. CASE CleanupWakes
  BY <1>14 DEF CleanupWakes
<1>15. CASE CleanupLook
  BY <1>15 DEF CleanupLook, Sound
<1>16. CASE CleanupDangles
  BY <1>16 DEF CleanupDangles, Sound
<1>17. CASE CleanupReap
  BY <1>17 DEF CleanupReap, Sound
<1>18. CASE EraseMove
  BY <1>18 DEF EraseMove
<1>19. CASE EraseShrink
  <2>1. finish' \in 0..Len(slots) /\ finish' < finish /\ it - 1 <= finish'
    <3>1. /\ it \in Nat /\ seen \in Nat /\ finish \in 0..Len(slots) /\ Len(slots) \in Nat
          /\ it >= 1 /\ it <= seen /\ seen <= finish
      BY <1>19 DEF EraseShrink
    <3>2. finish' = seen - 1 \/ finish' = finish - 1
      BY <1>19 DEF EraseShrink
    <3> QED  BY <3>1, <3>2
  <2>2. TypeOK'
    BY <1>19, <2>1 DEF EraseShrink
  <2>3. StartedTogether' /\ HandsFull' /\ PushInside'
    BY <1>19, <2>1 DEF EraseShrink
  <2>4. ScanInside'
    BY <1>19, <2>1 DEF EraseShrink
  <2> QED  BY <2>2, <2>3, <2>4
<1>20. ASSUME NEW c \in Connections, Connect(c)
      PROVE  TypeInv'
  BY <1>20 DEF Connect
<1>21. ASSUME NEW c \in Connections, HandlerFinishes(c)
      PROVE  TypeInv'
  BY <1>21 DEF HandlerFinishes
<1>22. ASSUME NEW c \in Connections, HandlerReturns(c)
      PROVE  TypeInv'
  BY <1>22 DEF HandlerReturns
<1>23. CASE UNCHANGED vars
  BY <1>23 DEF vars
<1> QED
  BY <1>1, <1>2, <1>3, <1>4, <1>5, <1>6, <1>7, <1>8, <1>9, <1>10, <1>11, <1>12, <1>13,
     <1>14, <1>15, <1>16, <1>17, <1>18, <1>19, <1>20, <1>21, <1>22, <1>23
  DEF Next, AcceptStep, CleanupStep

LEMMA TypeInvariant == Spec => []TypeInv
<1>1. Init => TypeInv
  BY InitType
<1>2. TypeInv /\ [Next]_vars => TypeInv'
  BY TypeStep
<1> QED  BY <1>1, <1>2, PTL DEF Spec

\* Every thread is at one of its labels and holds connections, places and
\* buffers that exist, also where the threads race in the vector.
THEOREM TypeCorrect == Spec => []TypeOK
  BY TypeInvariant, PTL DEF TypeInv

(***************************************************************************)
(* The stages of a connection                                              *)
(***************************************************************************)

\* A connection is in the backlog once, and then in the handshake, before its
\* handler is started.
StageInv ==
  /\ \A i \in 1..Len(waiting) : hpc[waiting[i]] = "waiting"
  /\ \A i, j \in 1..Len(waiting) : waiting[i] = waiting[j] => i = j
  /\ apc = "handshake" =>
       hpc[conn] = "waiting" /\ \A i \in 1..Len(waiting) : waiting[i] # conn

LEMMA InitStage == Init => StageInv
<1> SUFFICES ASSUME Init
             PROVE  StageInv
  OBVIOUS
<1>1. Len(waiting) = 0
  BY EmptySeq DEF Init
<1> QED  BY <1>1 DEF Init, StageInv

\* What the cleanup thread does, and what accept does to the vector, concerns
\* no connection that has not been accepted.
LEMMA StageStep ==
  ASSUME TypeInv, StageInv, [Next]_vars
  PROVE  StageInv'
<1>0. waiting \in Seq(Connections) /\ Len(waiting) \in Nat
  BY LenProperties DEF TypeInv, TypeOK
<1>1. ASSUME NEW c \in Connections, Connect(c)
      PROVE  StageInv'
  <2>1. /\ Len(waiting') = Len(waiting) + 1 /\ waiting'[Len(waiting) + 1] = c
        /\ \A i \in 1..Len(waiting) : waiting'[i] = waiting[i]
    BY <1>0, <1>1, AppendProperties DEF Connect
  <2>2. /\ hpc' = [hpc EXCEPT ![c] = "waiting"] /\ hpc[c] = "none"
        /\ apc' = apc /\ conn' = conn
    BY <1>1 DEF Connect, accepting
  <2>3. \A i \in 1..Len(waiting) : waiting[i] # c /\ waiting[i] \in Connections
    BY <1>0, <2>2, ElementOfSeq DEF StageInv
  <2>4. 1..Len(waiting') = 1..Len(waiting) \cup {Len(waiting) + 1}
    BY <1>0, <2>1
  <2>5. apc = "handshake" => conn # c
    BY <2>2 DEF StageInv
  <2>6. \A d \in Connections : hpc'[d] = IF d = c THEN "waiting" ELSE hpc[d]
    BY <2>2 DEF TypeInv, TypeOK
  <2>7. \A i \in 1..Len(waiting') : hpc'[waiting'[i]] = "waiting"
    BY <2>1, <2>3, <2>4, <2>6 DEF StageInv
  <2>8. \A i, j \in 1..Len(waiting') : waiting'[i] = waiting'[j] => i = j
    BY <2>1, <2>3, <2>4 DEF StageInv
  <2>9. apc = "handshake" =>
          hpc'[conn] = "waiting" /\ \A i \in 1..Len(waiting') : waiting'[i] # conn
    BY <2>1, <2>4, <2>5, <2>6 DEF StageInv, TypeInv, HandsFull
  <2> QED  BY <2>2, <2>7, <2>8, <2>9 DEF StageInv
<1>2. CASE Accept
  <2>1. CASE Cardinality(open) < Descriptors
    <3>1. /\ Len(waiting') = Len(waiting) - 1 /\ Len(waiting') \in Nat
          /\ \A i \in 1..Len(waiting') : waiting'[i] = waiting[i + 1]
      BY <1>0, <1>2, <2>1, HeadTailProperties, LenProperties DEF Accept
    <3>2. /\ conn' = waiting[1] /\ apc' = "handshake" /\ hpc' = hpc
          /\ 1 \in 1..Len(waiting)
      BY <1>0, <1>2, <2>1, EmptySeq DEF Accept, handlers
    <3>3. \A i \in 1..Len(waiting') : i + 1 \in 1..Len(waiting) /\ i + 1 # 1
      BY <1>0, <3>1
    <3> QED  BY <3>1, <3>2, <3>3, SMTT(30) DEF StageInv
  <2>2. CASE ~(Cardinality(open) < Descriptors)
    BY <1>2, <2>2 DEF Accept, StageInv, handlers
  <2> QED  BY <2>1, <2>2
<1>3. ASSUME waiting' = waiting, conn' = conn, apc' = "handshake" => apc = "handshake",
             \A c \in Connections : hpc[c] = "waiting" => hpc'[c] = "waiting"
      PROVE  StageInv'
  <2>1. \A i \in 1..Len(waiting) : waiting[i] \in Connections
    BY <1>0, ElementOfSeq
  <2> QED  BY <1>3, <2>1 DEF StageInv, TypeInv, HandsFull
<1>4. CASE Handshake
  <2>1. /\ waiting' = waiting /\ apc' = "push" /\ conn \in Connections
        /\ \A c \in Connections : hpc'[c] = IF c = conn THEN "running" ELSE hpc[c]
    BY <1>4 DEF Handshake, TypeInv, TypeOK, HandsFull
  <2>2. \A i \in 1..Len(waiting) : waiting[i] \in Connections /\ waiting[i] # conn
    BY <1>0, <1>4, ElementOfSeq DEF Handshake, StageInv
  <2> QED  BY <2>1, <2>2 DEF StageInv
<1>5. ASSUME NEW c \in Connections, HandlerFinishes(c) \/ HandlerReturns(c)
      PROVE  StageInv'
  BY <1>3, <1>5 DEF HandlerFinishes, HandlerReturns, accepting, TypeInv, TypeOK
<1>6. CASE PushPublish \/ GrowSwap
  BY <1>6 DEF PushPublish, GrowSwap, handlers, StageInv
<1>7. CASE \/ Listen \/ ListenFails \/ Close \/ CloseGoesOn \/ HandshakeThrows
           \/ PushStore \/ GrowCopy \/ CleanupStep \/ UNCHANGED vars
  BY <1>3, <1>7
  DEF Listen, ListenFails, Close, CloseGoesOn, HandshakeThrows, PushStore, GrowCopy,
      CleanupStep, CleanupBegin, CleanupTest, CleanupWakes, CleanupLook, CleanupDangles,
      CleanupReap, EraseMove, EraseShrink, vars, accepting, handlers
<1> QED  BY <1>1, <1>2, <1>4, <1>5, <1>6, <1>7 DEF Next, AcceptStep

\* No handler has its socket, its flag or its thread deleted under it.
FreedAfterReturn == \A c \in freed : hpc[c] = "returned"

\* A thread is only deleted behind a join, and a handler that has returned is not
\* started again.
LEMMA FreedStep ==
  ASSUME TypeInv, StageInv, FreedAfterReturn, [Next]_vars
  PROVE  FreedAfterReturn'
<1>1. ASSUME \A c \in Connections : hpc[c] = "returned" => hpc'[c] = "returned",
             freed' = freed
      PROVE  FreedAfterReturn'
  BY <1>1 DEF FreedAfterReturn, TypeInv, TypeOK
<1>2. ASSUME NEW c \in Connections, Connect(c) \/ HandlerFinishes(c) \/ HandlerReturns(c)
      PROVE  FreedAfterReturn'
  BY <1>1, <1>2 DEF Connect, HandlerFinishes, HandlerReturns, TypeInv, TypeOK
<1>3. CASE Handshake
  BY <1>1, <1>3 DEF Handshake, StageInv, TypeInv, TypeOK, HandsFull
<1>4. CASE CleanupReap
  BY <1>4 DEF CleanupReap, handlers, Sound, FreedAfterReturn
<1>5. CASE AcceptStep /\ ~Handshake
  BY <1>1, <1>5 DEF AcceptStep, Accept, HandshakeThrows, PushStore, PushPublish, GrowCopy,
                    GrowSwap, handlers
<1>6. CASE \/ Listen \/ ListenFails \/ Close \/ CloseGoesOn
           \/ CleanupStep /\ ~CleanupReap
           \/ UNCHANGED vars
  BY <1>1, <1>6
  DEF Listen, ListenFails, Close, CloseGoesOn, CleanupStep, CleanupBegin, CleanupTest,
      CleanupWakes, CleanupLook, CleanupDangles, EraseMove, EraseShrink, vars, handlers
<1> QED  BY <1>2, <1>3, <1>4, <1>5, <1>6 DEF Next, CleanupStep

LEMMA StageInvariant == Spec => []StageInv
<1>1. TypeInv /\ StageInv /\ [Next]_vars => StageInv'
  BY StageStep
<1> QED  BY <1>1, InitStage, TypeInvariant, PTL DEF Spec

LEMMA FreedInvariant == Spec => []FreedAfterReturn
<1>1. Init => FreedAfterReturn
  BY DEF Init, FreedAfterReturn
<1>2. TypeInv /\ StageInv /\ FreedAfterReturn /\ [Next]_vars => FreedAfterReturn'
  BY FreedStep
<1> QED  BY <1>1, <1>2, TypeInvariant, StageInvariant, PTL DEF Spec

(***************************************************************************)
(* The vector                                                              *)
(***************************************************************************)

\* A handler thread has been started and not been deleted.
Kept(c) == hpc[c] \in {"running", "ending", "returned"} /\ c \notin freed

\* The accept thread has the keeper of a connection, the vector not yet.
InHand(c) == apc \in {"push", "publish", "swap"} /\ c = conn

\* The places of the vector that hold a keeper.
Places == { i \in 1..finish : i # Erasing }

\* One thread is in the middle of the vector at most.
Apart == ~(Pushing /\ Scanning)

\* What push_back has written is the keeper, behind what was there.
HalfPushed ==
  /\ apc = "publish" => at = finish + 1 /\ slots[at] = conn
  /\ apc = "swap" =>
       at = finish + 1 /\ fresh[at] = conn /\ \A i \in 1..finish : fresh[i] = slots[i]

\* The iterator is one of this buffer, and erase goes by the end() that is.
HalfErased ==
  /\ Scanning => itsize = Len(slots)
  /\ cpc = "shrink" => seen = finish

\* Every place holds the keeper of another handler, which has not been deleted.
OnePlaceEach ==
  /\ \A i \in Places : slots[i] \in Connections /\ Kept(slots[i]) /\ ~InHand(slots[i])
  /\ \A i, j \in Places : slots[i] = slots[j] => i = j

NoneLost ==
  /\ apc \in {"push", "publish", "swap"} => Kept(conn)
  /\ \A c \in Connections : Kept(c) => InHand(c) \/ \E i \in Places : slots[i] = c

VectorInv ==
  ~raced => Apart /\ HalfPushed /\ HalfErased /\ OnePlaceEach /\ NoneLost

\* A connection is counted once by the invariant, as KeptOnce counts it.
LEMMA VectorImpliesKeptOnce ==
  ASSUME TypeInv, VectorInv
  PROVE  KeptOnce
<1> SUFFICES ASSUME ~raced, NEW c \in Connections
             PROVE  LET places == { i \in 1..finish : slots[i] = c /\ i # Erasing }
                        held == IF c = conn /\ apc \in {"push", "publish", "swap"}
                                THEN 1 ELSE 0
                    IN  Cardinality(places) + held =
                          (IF hpc[c] \in {"running", "ending", "returned"} /\ c \notin freed
                           THEN 1 ELSE 0)
  BY DEF KeptOnce
<1> DEFINE places == { i \in 1..finish : slots[i] = c /\ i # Erasing }
<1>1. \A i : i \in places <=> i \in Places /\ slots[i] = c
  BY DEF Places
<1>2. OnePlaceEach /\ NoneLost
  BY DEF VectorInv
<1> HIDE DEF places
<1>3. places = {} \/ \E i \in Places : places = {i} /\ slots[i] = c
  BY <1>1, <1>2 DEF OnePlaceEach
<1>4. Cardinality(places) = IF places = {} THEN 0 ELSE 1
  BY <1>3, FS_EmptySet, FS_Singleton
<1>5. CASE ~Kept(c)
  <2>1. places = {} /\ ~InHand(c)
    BY <1>1, <1>2, <1>5 DEF OnePlaceEach, NoneLost, InHand
  <2> QED  BY <1>4, <1>5, <2>1 DEF places, Kept, InHand
<1>6. CASE Kept(c) /\ InHand(c)
  <2>1. places = {}
    BY <1>1, <1>2, <1>6 DEF OnePlaceEach
  <2> QED  BY <1>4, <1>6, <2>1 DEF places, Kept, InHand
<1>7. CASE Kept(c) /\ ~InHand(c)
  <2>1. places # {}
    BY <1>1, <1>2, <1>7 DEF NoneLost
  <2> QED  BY <1>4, <1>7, <2>1 DEF places, Kept, InHand
<1> QED  BY <1>5, <1>6, <1>7

LEMMA InitVector == Init => VectorInv
  BY DEF Init, VectorInv, Apart, Pushing, Scanning, HalfPushed, HalfErased, OnePlaceEach,
         NoneLost, Kept, InHand, Places, Erasing

\* A step that leaves the vector as it is, and who has which keeper.
LEMMA VectorUntouched ==
  ASSUME TypeInv, VectorInv, ~raced,
         slots' = slots, finish' = finish, at' = at, fresh' = fresh, Erasing' = Erasing,
         InHand(conn) \/ InHand(conn)' => apc' = apc /\ conn' = conn,
         \A c \in Connections : Kept(c)' = Kept(c),
         Apart', HalfErased'
  PROVE  VectorInv'
<1>1. Apart /\ HalfPushed /\ HalfErased /\ OnePlaceEach /\ NoneLost
  BY DEF VectorInv
<1>2. Places' = Places
  BY DEF Places
<1>3. HalfPushed'
  BY <1>1 DEF HalfPushed, InHand
<1>4. \A c \in Connections : InHand(c)' = InHand(c)
  BY DEF InHand
<1>5. OnePlaceEach'
  BY <1>1, <1>2, <1>4 DEF OnePlaceEach
<1>6. NoneLost'
  <2>1. \A c \in Connections :
          Kept(c)' => InHand(c)' \/ \E i \in Places' : slots'[i] = c
    BY <1>1, <1>2, <1>4 DEF NoneLost
  <2>2. apc' \in {"push", "publish", "swap"} => Kept(conn)'
    BY <1>1 DEF NoneLost, InHand, TypeInv, HandsFull
  <2> QED  BY <2>1, <2>2 DEF NoneLost
<1> QED  BY <1>3, <1>5, <1>6 DEF VectorInv

\* Every step keeps it, or is one in which the two threads meet.
LEMMA VectorStep ==
  ASSUME TypeInv, StageInv, FreedAfterReturn, VectorInv, [Next]_vars
  PROVE  VectorInv'
<1> SUFFICES ASSUME ~raced'
             PROVE  VectorInv'
  BY DEF VectorInv
<1>0. ASSUME ~raced
      PROVE  Apart /\ HalfPushed /\ HalfErased /\ OnePlaceEach /\ NoneLost
  BY <1>0 DEF VectorInv
<1>a. raced' = raced => ~raced
  BY DEF TypeInv, TypeOK
<1>1. ASSUME NEW c \in Connections, Connect(c) \/ HandlerFinishes(c) \/ HandlerReturns(c)
      PROVE  VectorInv'
  <2>1. /\ ~raced /\ UNCHANGED <<accepting, vector, cleaning, freed>>
        /\ \A d \in Connections : Kept(d)' = Kept(d)
    BY <1>1 DEF Connect, HandlerFinishes, HandlerReturns, Kept, TypeInv, TypeOK
  <2>2. Apart' /\ HalfErased' /\ Erasing' = Erasing
    BY <1>0, <2>1 DEF Apart, HalfErased, Erasing, Pushing, Scanning, accepting, cleaning, vector
  <2> QED  BY <2>1, <2>2, VectorUntouched DEF accepting, vector
<1>2. CASE \/ ListenFails \/ Close \/ CloseGoesOn \/ HandshakeThrows \/ CleanupDangles
           \/ UNCHANGED vars
  <2>1. /\ ~raced /\ UNCHANGED <<conn, at, fresh, vector, cleaning, hpc, freed>>
        /\ apc' = apc \/ (apc = "off" /\ apc' = "never")
    <3>1. CASE ListenFails
      BY <1>a, <3>1 DEF ListenFails, handlers
    <3>2. CASE Close \/ CloseGoesOn
      BY <1>a, <3>2 DEF Close, CloseGoesOn, accepting, handlers
    <3>3. CASE HandshakeThrows \/ CleanupDangles
      BY <1>a, <3>3 DEF HandshakeThrows, CleanupDangles, accepting, handlers
    <3>4. CASE UNCHANGED vars
      BY <1>a, <3>4 DEF vars, accepting, handlers
    <3> QED  BY <1>2, <3>1, <3>2, <3>3, <3>4
  <2>2. Apart' /\ HalfErased' /\ Erasing' = Erasing
    BY <1>0, <2>1 DEF Apart, HalfErased, Erasing, Pushing, Scanning, cleaning, vector
  <2>3. \A d \in Connections : Kept(d)' = Kept(d)
    BY <2>1 DEF Kept
  <2> QED  BY <2>1, <2>2, <2>3, VectorUntouched DEF InHand, vector
<1>3. CASE Listen \/ Accept
  <2>1. /\ ~raced /\ UNCHANGED <<at, fresh, vector, hpc, freed>>
        /\ apc \in {"off", "accept"} /\ apc' \in {"accept", "handshake", "failed"}
        /\ UNCHANGED cleaning \/ (cpc \notin {"move", "shrink"} /\ cpc' = "begin")
    <3>1. CASE Listen
      BY <3>1 DEF Listen, handlers, TypeInv, StartedTogether
    <3>2. CASE Accept
      BY <1>a, <3>2 DEF Accept, handlers
    <3> QED  BY <1>3, <3>1, <3>2
  <2>2. Apart' /\ HalfErased' /\ Erasing' = Erasing
    BY <1>0, <2>1 DEF Apart, HalfErased, Erasing, Pushing, Scanning, cleaning, vector
  <2>3. \A d \in Connections : Kept(d)' = Kept(d)
    BY <2>1 DEF Kept
  <2> QED  BY <2>1, <2>2, <2>3, VectorUntouched DEF InHand, vector
<1>4. CASE Handshake
  <2>1. /\ ~raced /\ UNCHANGED <<conn, at, fresh, vector, cleaning, freed>>
        /\ apc = "handshake" /\ apc' = "push" /\ conn \in Connections
        /\ \A c \in Connections : hpc'[c] = IF c = conn THEN "running" ELSE hpc[c]
    BY <1>4 DEF Handshake, TypeInv, TypeOK, HandsFull
  <2>2. hpc[conn] = "waiting" /\ conn \notin freed
    BY <2>1 DEF StageInv, FreedAfterReturn
  <2>3. Apart' /\ HalfPushed' /\ HalfErased'
    BY <1>0, <2>1 DEF Apart, HalfPushed, HalfErased, Pushing, Scanning, cleaning, vector
  <2>4. \A c \in Connections : Kept(c)' = (Kept(c) \/ c = conn) /\ InHand(c)' = (c = conn)
    BY <2>1, <2>2 DEF Kept, InHand
  <2>5. Places' = Places /\ \A i \in Places : slots[i] # conn
    BY <1>0, <2>1, <2>2 DEF Places, Erasing, cleaning, vector, OnePlaceEach, Kept
  <2>6. \A c \in Connections : ~InHand(c)
    BY <2>1 DEF InHand
  <2>7. OnePlaceEach'
    BY <1>0, <2>1, <2>4, <2>5 DEF OnePlaceEach, vector
  <2>8. NoneLost'
    BY <1>0, <2>1, <2>4, <2>5, <2>6 DEF NoneLost, vector
  <2> QED  BY <2>3, <2>7, <2>8 DEF VectorInv
<1>5. CASE PushStore
  <2>1. /\ ~raced /\ ~Scanning
        /\ UNCHANGED <<conn, fresh, finish, cleaning, hpc, freed>>
        /\ apc = "push" /\ apc' = "publish" /\ at' = finish + 1
        /\ finish < Len(slots) /\ slots' = [slots EXCEPT ![finish + 1] = conn]
    BY <1>5 DEF PushStore, PushMeetsScan, handlers
  <2>2. /\ finish + 1 \in 1..Len(slots) /\ slots \in Seq(Keeper) /\ conn \in Keeper
        /\ finish \in Nat
    BY <2>1 DEF TypeInv, TypeOK
  <2>3. /\ slots'[finish + 1] = conn
        /\ \A i \in 1..finish : slots'[i] = slots[i]
    BY <2>1, <2>2, ExceptSeq
  <2>4. /\ \A c \in Connections : Kept(c)' = Kept(c) /\ InHand(c)' = InHand(c)
        /\ Places' = Places /\ Places = 1..finish
    BY <2>1, <2>2 DEF Kept, InHand, Places, Erasing, cleaning, Scanning
  <2>5. Apart' /\ HalfPushed' /\ HalfErased'
    BY <2>1, <2>3 DEF Apart, HalfPushed, HalfErased, Scanning, cleaning
  <2>6. OnePlaceEach'
    BY <1>0, <2>1, <2>3, <2>4 DEF OnePlaceEach
  <2>7. NoneLost'
    BY <1>0, <2>1, <2>3, <2>4 DEF NoneLost, Kept
  <2> QED  BY <2>5, <2>6, <2>7 DEF VectorInv
<1>6. CASE PushPublish
  <2>1. /\ ~raced /\ ~Scanning
        /\ UNCHANGED <<fresh, slots, cleaning, hpc, freed>>
        /\ apc = "publish" /\ apc' = "accept" /\ finish' \in {at, finish + 1}
    BY <1>6 DEF PushPublish, PushMeetsScan, handlers
  <2>2. finish' = finish + 1 /\ finish \in Nat /\ slots[finish'] = conn /\ conn \in Connections
    BY <1>0, <2>1 DEF HalfPushed, TypeInv, TypeOK, HandsFull
  <2>3. /\ Places = 1..finish /\ Places' = 1..finish \cup {finish'} /\ finish' \notin 1..finish
        /\ \A c \in Connections : Kept(c)' = Kept(c) /\ ~InHand(c)'
        /\ \A c \in Connections : InHand(c) <=> c = conn
    BY <2>1, <2>2 DEF Places, Erasing, Scanning, cleaning, Kept, InHand
  <2>4. Apart' /\ HalfPushed' /\ HalfErased'
    BY <2>1 DEF Apart, HalfPushed, HalfErased, Scanning, cleaning, Pushing
  <2>5. OnePlaceEach'
    BY <1>0, <2>1, <2>2, <2>3 DEF OnePlaceEach, NoneLost
  <2>6. NoneLost'
    BY <1>0, <2>1, <2>2, <2>3 DEF NoneLost
  <2> QED  BY <2>4, <2>5, <2>6 DEF VectorInv
<1>7. CASE GrowCopy
  <2>1. /\ ~raced /\ ~Scanning
        /\ UNCHANGED <<conn, vector, cleaning, hpc, freed>>
        /\ apc = "push" /\ apc' = "swap" /\ at' = finish + 1 /\ finish = Len(slots)
        /\ fresh' = [i \in 1..(IF finish = 0 THEN 1 ELSE 2 * finish) |->
                       CASE i <= finish -> slots[i]
                         [] i = finish + 1 -> conn
                         [] OTHER -> None]
    BY <1>7 DEF GrowCopy, PushMeetsScan, handlers
  <2>2. finish \in Nat
    BY DEF TypeInv, TypeOK
  <2>3. fresh'[finish + 1] = conn /\ \A i \in 1..finish : fresh'[i] = slots[i]
    BY <2>1, <2>2
  <2>4. /\ \A c \in Connections : Kept(c)' = Kept(c) /\ InHand(c)' = InHand(c)
        /\ Places' = Places
    BY <2>1, <2>2 DEF Kept, InHand, Places, Erasing, cleaning, vector
  <2>5. Apart' /\ HalfPushed' /\ HalfErased'
    BY <2>1, <2>3 DEF Apart, HalfPushed, HalfErased, Scanning, cleaning, vector
  <2>6. OnePlaceEach'
    BY <1>0, <2>1, <2>4 DEF OnePlaceEach, vector
  <2>7. NoneLost'
    BY <1>0, <2>1, <2>4 DEF NoneLost, Kept, vector
  <2> QED  BY <2>5, <2>6, <2>7 DEF VectorInv
<1>8. CASE GrowSwap
  <2>1. /\ ~raced /\ ~Scanning
        /\ UNCHANGED <<cleaning, hpc, freed>>
        /\ apc = "swap" /\ apc' = "accept" /\ slots' = fresh /\ finish' = at
    BY <1>8 DEF GrowSwap, PushMeetsScan, handlers
  <2>2. /\ finish' = finish + 1 /\ finish \in Nat /\ conn \in Connections
        /\ slots'[finish'] = conn /\ \A i \in 1..finish : slots'[i] = slots[i]
    BY <1>0, <2>1 DEF HalfPushed, TypeInv, TypeOK, HandsFull
  <2>3. /\ Places = 1..finish /\ Places' = 1..finish \cup {finish'} /\ finish' \notin 1..finish
        /\ \A c \in Connections : Kept(c)' = Kept(c) /\ ~InHand(c)'
        /\ \A c \in Connections : InHand(c) <=> c = conn
    BY <2>1, <2>2 DEF Places, Erasing, Scanning, cleaning, Kept, InHand
  <2>4. Apart' /\ HalfPushed' /\ HalfErased'
    BY <2>1 DEF Apart, HalfPushed, HalfErased, Scanning, cleaning, Pushing
  <2>5. OnePlaceEach'
    BY <1>0, <2>1, <2>2, <2>3 DEF OnePlaceEach, NoneLost
  <2>6. NoneLost'
    BY <1>0, <2>1, <2>2, <2>3 DEF NoneLost
  <2> QED  BY <2>4, <2>5, <2>6 DEF VectorInv
<1>9. CASE CleanupBegin \/ CleanupTest \/ CleanupWakes \/ CleanupLook
  <2>1. /\ ~raced /\ UNCHANGED <<accepting, vector, hpc, freed>>
        /\ cpc \in {"begin", "test", "sleep", "look"} /\ cpc' \notin {"move", "shrink"}
        /\ Scanning' \/ Scanning => ~Pushing
        /\ \/ itsize' = Len(slots)
           \/ itsize' = itsize /\ (Scanning' => Scanning)
    <3>1. CASE CleanupBegin
      BY <3>1 DEF CleanupBegin, ScanMeetsPush, handlers
    <3>2. CASE CleanupTest
      BY <3>2 DEF CleanupTest, ScanMeetsPush, handlers, Scanning
    <3>3. CASE CleanupWakes
      BY <3>3 DEF CleanupWakes, handlers, Scanning
    <3>4. CASE CleanupLook
      BY <3>4 DEF CleanupLook, ScanMeetsPush, handlers, Scanning
    <3> QED  BY <1>9, <3>1, <3>2, <3>3, <3>4
  <2>2. Apart' /\ HalfErased' /\ Erasing' = Erasing
    BY <1>0, <2>1 DEF Apart, HalfErased, Erasing, Pushing, accepting, vector
  <2>3. \A d \in Connections : Kept(d)' = Kept(d)
    BY <2>1 DEF Kept
  <2> QED  BY <2>1, <2>2, <2>3, VectorUntouched DEF InHand, vector, accepting
<1>10. CASE CleanupReap
  <2>1. /\ ~raced /\ ~Pushing /\ UNCHANGED <<accepting, vector, hpc, it, itsize>>
        /\ cpc = "reap" /\ cpc' = "move" /\ itsize = Len(slots)
        /\ freed' = freed \cup {slots[it]} /\ slots[it] \in Connections
    BY <1>10 DEF CleanupReap, Sound, ScanMeetsPush, handlers
  <2>2. it \in 1..finish /\ Places = 1..finish /\ Places' = { i \in 1..finish : i # it }
    BY <2>1 DEF Places, Erasing, vector, TypeInv, TypeOK, ScanInside, Scanning
  <2>3. /\ \A c \in Connections : Kept(c)' = (Kept(c) /\ c # slots[it])
        /\ \A c \in Connections : InHand(c)' = InHand(c)
        /\ \A i \in Places' : i \in Places /\ slots[i] # slots[it]
        /\ it \in Places
    BY <1>0, <2>1, <2>2 DEF Kept, InHand, accepting, OnePlaceEach
  <2>4. Apart' /\ HalfPushed' /\ HalfErased'
    BY <1>0, <2>1 DEF Apart, HalfPushed, HalfErased, Pushing, accepting, vector
  <2>5. OnePlaceEach'
    BY <1>0, <2>1, <2>3 DEF OnePlaceEach, vector
  <2>6. NoneLost'
    <3>1. apc \in {"push", "publish", "swap"} => conn # slots[it] /\ conn \in Connections
      <4>1. ~InHand(slots[it])
        BY <1>0, <2>1, <2>3 DEF OnePlaceEach
      <4> QED  BY <4>1 DEF InHand, TypeInv, HandsFull
    <3>2. conn' = conn /\ apc' = apc /\ slots' = slots
      BY <2>1 DEF accepting, vector
    <3>3. apc \in {"push", "publish", "swap"} => Kept(conn)
      BY <1>0, <2>1 DEF NoneLost
    <3>4. apc' \in {"push", "publish", "swap"} => Kept(conn)'
      BY <2>1, <3>1, <3>2, <3>3 DEF Kept
    <3>5. ASSUME NEW c \in Connections, Kept(c)', ~InHand(c)'
          PROVE  \E i \in Places' : slots'[i] = c
      <4>1. Kept(c) /\ ~InHand(c) /\ c # slots[it]
        BY <2>3, <3>5
      <4>2. PICK i \in Places : slots[i] = c
        BY <1>0, <2>1, <4>1 DEF NoneLost
      <4>3. i # it
        BY <4>1, <4>2
      <4> QED  BY <2>2, <3>2, <4>2, <4>3
    <3> QED  BY <3>4, <3>5 DEF NoneLost
  <2> QED  BY <2>4, <2>5, <2>6 DEF VectorInv
<1>11. CASE EraseMove
  <2>1. /\ ~raced /\ ~Pushing /\ UNCHANGED <<accepting, finish, hpc, freed, itsize>>
        /\ cpc = "move" /\ cpc' = "shrink" /\ itsize = Len(slots) /\ seen' = finish
        /\ slots' = [i \in 1..Len(slots) |->
                       IF i \in it..(finish - 1) THEN slots[i + 1] ELSE slots[i]]
    BY <1>11 DEF EraseMove, ScanMeetsPush, handlers
  <2>2. /\ it \in 1..finish /\ finish \in 0..Len(slots) /\ Len(slots) \in Nat
        /\ Places = { i \in 1..finish : i # it } /\ Places' = 1..(finish - 1)
    BY <2>1 DEF Places, Erasing, TypeInv, TypeOK, ScanInside, Scanning
  <2> DEFINE From(i) == IF i < it THEN i ELSE i + 1
  <2>3. /\ \A i \in Places' : From(i) \in Places /\ slots'[i] = slots[From(i)]
        /\ \A i, j \in Places' : From(i) = From(j) => i = j
        /\ \A j \in Places : \E i \in Places' : j = From(i)
    <3>1. ASSUME NEW i \in Places'
          PROVE  From(i) \in Places /\ slots'[i] = slots[From(i)]
      <4>1. i \in 1..(finish - 1) /\ i \in 1..Len(slots) /\ (i \in it..(finish - 1) <=> ~(i < it))
        BY <2>2
      <4> QED  BY <2>1, <2>2, <4>1
    <3>2. \A i, j \in Places' : From(i) = From(j) => i = j
      BY <2>2
    <3>3. ASSUME NEW j \in Places
          PROVE  \E i \in Places' : j = From(i)
      <4>1. CASE j < it
        <5>1. j \in Places' /\ From(j) = j
          BY <2>2, <4>1
        <5> QED  BY <5>1
      <4>2. CASE j > it
        <5>1. j - 1 \in Places' /\ From(j - 1) = j
          BY <2>2, <4>2
        <5> QED  BY <5>1
      <4> QED  BY <2>2, <4>1, <4>2
    <3> QED  BY <3>1, <3>2, <3>3
  <2> HIDE DEF From
  <2>4. Len(slots') = Len(slots)
    BY <2>1, <2>2
  <2>5. \A c \in Connections : Kept(c)' = Kept(c) /\ InHand(c)' = InHand(c)
    BY <2>1 DEF Kept, InHand, accepting
  <2>6. Apart' /\ HalfPushed' /\ HalfErased'
    BY <1>0, <2>1, <2>4 DEF Apart, HalfPushed, HalfErased, Pushing, accepting
  <2>7. OnePlaceEach'
    <3>1. \A i \in Places' :
            slots'[i] \in Connections /\ Kept(slots[i])' /\ ~InHand(slots[i])'
      <4> SUFFICES ASSUME NEW i \in Places'
                   PROVE  slots'[i] \in Connections /\ Kept(slots[i])' /\ ~InHand(slots[i])'
        OBVIOUS
      <4>1. slots'[i] = slots[From(i)] /\ From(i) \in Places
        BY <2>3
      <4>2. slots[From(i)] \in Connections /\ Kept(slots[From(i)]) /\ ~InHand(slots[From(i)])
        BY <1>0, <2>1, <4>1 DEF OnePlaceEach
      <4>3. slots'[i] \in Connections /\ Kept(slots'[i]) /\ ~InHand(slots'[i])
        BY <4>1, <4>2
      <4>4. hpc' = hpc /\ freed' = freed /\ apc' = apc /\ conn' = conn
        BY <2>1 DEF accepting
      <4> QED  BY <4>3, <4>4 DEF Kept, InHand
    <3>2. ASSUME NEW i \in Places', NEW j \in Places', slots'[i] = slots'[j]
          PROVE  i = j
      <4>1. From(i) \in Places /\ From(j) \in Places /\ slots[From(i)] = slots[From(j)]
        BY <2>3, <3>2
      <4>2. From(i) = From(j)
        BY <1>0, <2>1, <4>1 DEF OnePlaceEach
      <4> QED  BY <2>3, <4>2
    <3>3. \A i, j \in Places' : slots'[i] = slots'[j] => i = j
      BY <3>2
    <3> QED  BY <3>1, <3>3 DEF OnePlaceEach
  <2>8. NoneLost'
    <3>1. apc' \in {"push", "publish", "swap"} => Kept(conn)'
      <4>1. hpc' = hpc /\ freed' = freed /\ apc' = apc /\ conn' = conn
        BY <2>1 DEF accepting
      <4> QED  BY <1>0, <2>1, <4>1 DEF NoneLost, Kept
    <3>2. ASSUME NEW c \in Connections, Kept(c)', ~InHand(c)'
          PROVE  \E i \in Places' : slots'[i] = c
      <4>1. PICK j \in Places : slots[j] = c
        <5>1. Kept(c) /\ ~InHand(c)
          BY <2>5, <3>2
        <5> QED  BY <1>0, <2>1, <5>1 DEF NoneLost
      <4>2. PICK i \in Places' : j = From(i)
        BY <2>3
      <4> QED  BY <2>3, <4>1, <4>2
    <3> QED  BY <3>1, <3>2 DEF NoneLost
  <2> QED  BY <2>6, <2>7, <2>8 DEF VectorInv
<1>12. CASE EraseShrink
  <2>1. /\ ~raced /\ ~Pushing /\ UNCHANGED <<accepting, slots, hpc, freed, itsize>>
        /\ cpc = "shrink" /\ cpc' = "test" /\ itsize = Len(slots)
        /\ finish' \in {seen - 1, finish - 1}
    BY <1>12 DEF EraseShrink, ScanMeetsPush, handlers
  <2>2. finish' = finish - 1 /\ finish \in Nat
    BY <1>0, <2>1 DEF HalfErased, TypeInv, TypeOK
  <2>3. Places = 1..(finish - 1) /\ Places' = 1..(finish - 1)
    BY <2>1, <2>2 DEF Places, Erasing
  <2>4. \A c \in Connections : Kept(c)' = Kept(c) /\ InHand(c)' = InHand(c)
    BY <2>1 DEF Kept, InHand, accepting
  <2>5. Apart' /\ HalfPushed' /\ HalfErased'
    BY <2>1 DEF Apart, HalfPushed, HalfErased, Pushing, accepting
  <2>6. OnePlaceEach'
    BY <1>0, <2>1, <2>3, <2>4 DEF OnePlaceEach
  <2>7. NoneLost'
    BY <1>0, <2>1, <2>3, <2>4 DEF NoneLost, accepting, Kept, TypeInv, HandsFull
  <2> QED  BY <2>5, <2>6, <2>7 DEF VectorInv
<1> QED
  BY <1>1, <1>2, <1>3, <1>4, <1>5, <1>6, <1>7, <1>8, <1>9, <1>10, <1>11, <1>12
  DEF Next, AcceptStep, CleanupStep

LEMMA VectorInvariant == Spec => []VectorInv
<1>1. TypeInv /\ StageInv /\ FreedAfterReturn /\ VectorInv /\ [Next]_vars => VectorInv'
  BY VectorStep
<1> QED  BY <1>1, InitVector, TypeInvariant, StageInvariant, FreedInvariant, PTL DEF Spec

\* As long as the two threads have not met in the vector, every handler thread
\* has exactly one keeper until it is deleted: push_back drops and doubles none,
\* and erase takes out the one that was reaped.
THEOREM OneKeeperEach == Spec => []KeptOnce
<1>1. TypeInv /\ VectorInv => KeptOnce
  BY VectorImpliesKeptOnce
<1> QED  BY <1>1, VectorInvariant, TypeInvariant, PTL

(***************************************************************************)
(* What the iterator points at                                             *)
(***************************************************************************)

\* The keeper under the iterator is in use and its handler has not been deleted,
\* so none of what the scan reads of it has been freed.
LEMMA NoDangling ==
  ASSUME TypeInv, VectorInv, ~raced
  PROVE  ~CleanupDangles
<1>1. HalfErased /\ OnePlaceEach
  BY DEF VectorInv
<1>2. ASSUME cpc \in {"look", "reap"}
      PROVE  Sound
  <2>1. itsize = Len(slots) /\ it \in 1..finish /\ it \in 1..Len(slots) /\ Erasing = 0
    BY <1>1, <1>2 DEF HalfErased, Scanning, TypeInv, TypeOK, ScanInside, Erasing
  <2>2. it \in Places
    BY <2>1 DEF Places
  <2> QED  BY <1>1, <2>1, <2>2 DEF OnePlaceEach, Kept, Sound
<1>3. cpc \in {"move", "shrink"} => itsize = Len(slots)
  BY <1>1 DEF HalfErased, Scanning
<1> QED  BY <1>2, <1>3 DEF CleanupDangles

LEMMA DangleStep ==
  ASSUME TypeInv, VectorInv, OnlyRacesDangle, [Next]_vars
  PROVE  OnlyRacesDangle'
<1>1. raced => raced'
  <2> USE DEF PushMeetsScan, ScanMeetsPush
  <2>1. CASE AcceptStep
    BY <2>1 DEF AcceptStep, Accept, Handshake, HandshakeThrows, PushStore, PushPublish,
                GrowCopy, GrowSwap
  <2>2. CASE CleanupStep
    BY <2>2 DEF CleanupStep, CleanupBegin, CleanupTest, CleanupWakes, CleanupLook,
                CleanupDangles, CleanupReap, EraseMove, EraseShrink
  <2>3. CASE \/ Listen \/ ListenFails \/ Close \/ CloseGoesOn
             \/ (\E c \in Connections : Connect(c) \/ HandlerFinishes(c) \/ HandlerReturns(c))
             \/ UNCHANGED vars
    BY <2>3 DEF Listen, ListenFails, Close, CloseGoesOn, Connect, HandlerFinishes,
                HandlerReturns, vars
  <2> QED  BY <2>1, <2>2, <2>3 DEF Next
<1>2. CASE CleanupDangles
  BY <1>1, <1>2, NoDangling DEF OnlyRacesDangle
<1>3. CASE ListenFails
  <2>1. listening' = listening /\ (process' = "undefined" => ~listening)
    BY <1>3 DEF ListenFails, listener, TypeInv, StartedTogether
  <2> QED  BY <2>1 DEF OnlyRacesDangle
<1>4. ASSUME process' # "undefined" \/ UNCHANGED <<process, listening>>
      PROVE  OnlyRacesDangle'
  BY <1>1, <1>4 DEF OnlyRacesDangle
<1>5. CASE AcceptStep \/ (CleanupStep /\ ~CleanupDangles)
  BY <1>4, <1>5
  DEF AcceptStep, Accept, Handshake, HandshakeThrows, PushStore, PushPublish, GrowCopy,
      GrowSwap, CleanupStep, CleanupBegin, CleanupTest, CleanupWakes, CleanupLook,
      CleanupReap, EraseMove, EraseShrink, listener
<1>6. CASE \/ Listen \/ Close \/ CloseGoesOn
           \/ (\E c \in Connections : Connect(c) \/ HandlerFinishes(c) \/ HandlerReturns(c))
           \/ UNCHANGED vars
  BY <1>4, <1>6 DEF Listen, Close, CloseGoesOn, Connect, HandlerFinishes, HandlerReturns,
                    vars, listener
<1> QED  BY <1>2, <1>3, <1>5, <1>6 DEF Next

\* Until the two threads meet in the vector, neither growth of the buffer nor
\* erasure leaves the cleanup thread with an iterator that dangles.
THEOREM NothingDangles == Spec => []OnlyRacesDangle
<1>1. Init => OnlyRacesDangle
  BY DEF Init, OnlyRacesDangle
<1>2. TypeInv /\ VectorInv /\ OnlyRacesDangle /\ [Next]_vars => OnlyRacesDangle'
  BY DangleStep
<1> QED  BY <1>1, <1>2, TypeInvariant, VectorInvariant, PTL DEF Spec
=============================================================================
