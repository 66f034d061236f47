------------------------- MODULE CentralIndexProofs -------------------------
(***************************************************************************)
(* Proofs about CentralIndex, for every set of handlers, every assignment  *)
(* of hosts and ports to them and every set of numbers.                    *)
(***************************************************************************)
EXTENDS CentralIndex, SequenceTheorems, FiniteSetTheorems, TLAPS

(***************************************************************************)
(* Lists                                                                   *)
(***************************************************************************)

\* list::erase: what stands after the erased element moves up by one.
LEMMA RemoveAtProperties ==
  ASSUME NEW S, NEW s \in Seq(S), NEW i \in 1..Len(s)
  PROVE  /\ RemoveAt(s, i) \in Seq(S)
         /\ Len(RemoveAt(s, i)) = Len(s) - 1
         /\ \A j \in 1..(i - 1) : RemoveAt(s, i)[j] = s[j]
         /\ \A j \in i..(Len(s) - 1) : RemoveAt(s, i)[j] = s[j + 1]
<1> DEFINE before == SubSeq(s, 1, i - 1)
           after == SubSeq(s, i + 1, Len(s))
<1>1. /\ before \in Seq(S)
      /\ Len(before) = i - 1
      /\ \A j \in 1..(i - 1) : before[j] = s[j]
  <2>1. \A j \in 1..(i - 1) : s[j] \in S
    BY ElementOfSeq
  <2>2. 1 \in Int /\ i - 1 \in Int
    OBVIOUS
  <2> QED  BY <2>1, <2>2, SubSeqProperties, SMT
<1>2. /\ after \in Seq(S)
      /\ Len(after) = Len(s) - i
      /\ \A j \in 1..(Len(s) - i) : after[j] = s[i + j]
  <2>1. \A j \in (i + 1)..Len(s) : s[j] \in S
    BY ElementOfSeq
  <2>2. i + 1 \in Int /\ Len(s) \in Int
    OBVIOUS
  <2> QED  BY <2>1, <2>2, SubSeqProperties, SMT
<1>3. RemoveAt(s, i) = before \o after
  BY DEF RemoveAt
<1> HIDE DEF before, after
<1>4. /\ before \o after \in Seq(S)
      /\ Len(before \o after) = Len(s) - 1
      /\ \A j \in 1..(i - 1) : (before \o after)[j] = before[j]
      /\ \A j \in i..(Len(s) - 1) : (before \o after)[j] = after[j - (i - 1)]
  <2>1. \A j \in 1..(Len(s) - 1) :
          (before \o after)[j] = IF j <= i - 1 THEN before[j] ELSE after[j - (i - 1)]
    BY <1>1, <1>2, ConcatProperties, SMT
  <2>2. ASSUME NEW j \in i..(Len(s) - 1)
        PROVE  (before \o after)[j] = after[j - (i - 1)]
    <3>1. j \in 1..(Len(s) - 1) /\ ~(j <= i - 1)
      BY LenProperties
    <3> QED  BY <2>1, <3>1
  <2>3. ASSUME NEW j \in 1..(i - 1)
        PROVE  (before \o after)[j] = before[j]
    <3>1. j \in 1..(Len(s) - 1) /\ j <= i - 1
      BY LenProperties
    <3> QED  BY <2>1, <3>1
  <2>4. before \o after \in Seq(S) /\ Len(before \o after) = Len(before) + Len(after)
    BY <1>1, <1>2, ConcatProperties
  <2>5. Len(before \o after) = Len(s) - 1
    BY <1>1, <1>2, <2>4, LenProperties
  <2> QED  BY <2>2, <2>3, <2>4, <2>5
<1>5. ASSUME NEW j \in i..(Len(s) - 1)
      PROVE  (before \o after)[j] = s[j + 1]
  <2>1. /\ j - (i - 1) \in 1..(Len(s) - i)
        /\ i + (j - (i - 1)) = j + 1
    OBVIOUS
  <2>2. after[j - (i - 1)] = s[i + (j - (i - 1))]
    BY <1>2, <2>1
  <2> QED  BY <1>4, <2>1, <2>2
<1> QED  BY <1>1, <1>3, <1>4, <1>5

\* Each element that is left comes from a position of its own, in order.
LEMMA RemoveAtPositions ==
  ASSUME NEW S, NEW s \in Seq(S), NEW i \in 1..Len(s)
  PROVE  \E m \in [1..(Len(s) - 1) -> 1..Len(s)] :
           /\ \A j \in 1..(Len(s) - 1) : RemoveAt(s, i)[j] = s[m[j]]
           /\ \A j, k \in 1..(Len(s) - 1) : j < k => m[j] < m[k]
<1> DEFINE m == [j \in 1..(Len(s) - 1) |-> IF j < i THEN j ELSE j + 1]
<1>1. m \in [1..(Len(s) - 1) -> 1..Len(s)]
  OBVIOUS
<1>2. ASSUME NEW j \in 1..(Len(s) - 1)
      PROVE  RemoveAt(s, i)[j] = s[m[j]]
  <2>1. CASE j < i
    <3>1. m[j] = j /\ j \in 1..(i - 1)
      BY <2>1
    <3> QED  BY <3>1, RemoveAtProperties
  <2>2. CASE j >= i
    <3>1. m[j] = j + 1 /\ j \in i..(Len(s) - 1)
      BY <2>2
    <3> QED  BY <3>1, RemoveAtProperties
  <2> QED  BY <2>1, <2>2
<1>3. \A j, k \in 1..(Len(s) - 1) : j < k => m[j] < m[k]
  OBVIOUS
<1> QED  BY <1>1, <1>2, <1>3

\* Erasing an element adds none, repeats none and keeps the rest in order.
LEMMA RemoveAtPreserves ==
  ASSUME NEW S, NEW s \in Seq(S), NEW i \in 1..Len(s)
  PROVE  /\ ToSet(RemoveAt(s, i)) \subseteq ToSet(s)
         /\ IsInjective(s) => IsInjective(RemoveAt(s, i))
         /\ InOrder(s) => InOrder(RemoveAt(s, i))
<1> DEFINE t == RemoveAt(s, i)
<1>1. t \in Seq(S) /\ Len(t) = Len(s) - 1
  BY RemoveAtProperties
<1>p. PICK m \in [1..(Len(s) - 1) -> 1..Len(s)] :
        /\ \A j \in 1..(Len(s) - 1) : t[j] = s[m[j]]
        /\ \A j, k \in 1..(Len(s) - 1) : j < k => m[j] < m[k]
  BY RemoveAtPositions
<1> HIDE DEF t
<1>2. /\ m \in [1..Len(t) -> 1..Len(s)]
      /\ \A j \in 1..Len(t) : t[j] = s[m[j]]
      /\ \A j, k \in 1..Len(t) : j < k => m[j] < m[k]
  BY <1>1, <1>p
<1>d. DOMAIN s = 1..Len(s) /\ DOMAIN t = 1..Len(t)
  BY <1>1, LenProperties
<1>3. ToSet(t) \subseteq ToSet(s)
  <2> SUFFICES ASSUME NEW j \in 1..Len(t)
               PROVE  t[j] \in ToSet(s)
    BY <1>d DEF ToSet
  <2> QED  BY <1>2, <1>d DEF ToSet
<1>4. ASSUME IsInjective(s)
      PROVE  IsInjective(t)
  <2> SUFFICES ASSUME NEW j \in 1..Len(t), NEW k \in 1..Len(t), t[j] = t[k]
               PROVE  j = k
    BY <1>d DEF IsInjective
  <2>0. m[j] \in 1..Len(s) /\ m[k] \in 1..Len(s) /\ s[m[j]] = s[m[k]]
    BY <1>2
  <2>1. m[j] = m[k]
    BY <1>4, <1>d, <2>0 DEF IsInjective
  <2>2. ~(j < k) /\ ~(k < j)
    <3>1. m[j] \in Int /\ m[k] \in Int
      BY <1>2
    <3> QED  BY <1>2, <2>1, <3>1
  <2> QED  BY <1>1, <2>2
<1>5. InOrder(s) => InOrder(t)
  BY <1>1, <1>2 DEF InOrder
<1> QED  BY <1>3, <1>4, <1>5 DEF t

\* list::push_back of an element that is not in the list.
LEMMA AppendPreserves ==
  ASSUME NEW S, NEW s \in Seq(S), NEW e \in S
  PROVE  /\ Append(s, e) \in Seq(S)
         /\ ToSet(Append(s, e)) = ToSet(s) \cup {e}
         /\ IsInjective(s) /\ e \notin ToSet(s) => IsInjective(Append(s, e))
<1>1. /\ Append(s, e) \in Seq(S)
      /\ Len(Append(s, e)) = Len(s) + 1
      /\ \A i \in 1..Len(s) : Append(s, e)[i] = s[i]
      /\ Append(s, e)[Len(s) + 1] = e
  BY AppendProperties
<1> DEFINE t == Append(s, e)
<1> HIDE DEF t
<1>2. ToSet(t) = ToSet(s) \cup {e}
  <2>1. 1..Len(t) = 1..Len(s) \cup {Len(s) + 1}
    BY <1>1 DEF t
  <2> QED  BY <1>1, <2>1 DEF ToSet, t
<1>3. IsInjective(s) /\ e \notin ToSet(s) => IsInjective(t)
  BY <1>1 DEF ToSet, IsInjective, t
<1> QED  BY <1>1, <1>2, <1>3 DEF t

\* list::sort keeps every element and repeats none.
LEMMA SortPreserves ==
  ASSUME NEW S, NEW s \in Seq(S), NEW t \in SortOf(s)
  PROVE  /\ t \in Seq(S)
         /\ ToSet(t) = ToSet(s)
         /\ IsInjective(s) => IsInjective(t)
         /\ InOrder(t)
<1>1. PICK p \in Bijection(1..Len(s), 1..Len(s)) : t = [i \in 1..Len(s) |-> s[p[i]]]
  BY DEF SortOf
<1>2. /\ p \in [1..Len(s) -> 1..Len(s)]
      /\ IsInjective(p)
      /\ \A j \in 1..Len(s) : \E i \in 1..Len(s) : p[i] = j
  BY DEF Bijection, Injection, Surjection
<1>3. t \in Seq(S) /\ Len(t) = Len(s)
  <2>1. t \in [1..Len(s) -> S]
    BY <1>1, <1>2, ElementOfSeq
  <2> QED  BY <2>1
<1>d. /\ DOMAIN s = 1..Len(s) /\ DOMAIN t = 1..Len(s) /\ DOMAIN p = 1..Len(s)
      /\ \A i \in 1..Len(s) : t[i] = s[p[i]]
  BY <1>1, <1>2, LenProperties
<1>4. ToSet(t) = ToSet(s)
  <2>1. ASSUME NEW i \in 1..Len(s)
        PROVE  t[i] \in ToSet(s)
    BY <1>2, <1>d DEF ToSet
  <2>2. ASSUME NEW j \in 1..Len(s)
        PROVE  s[j] \in ToSet(t)
    BY <1>2, <1>d DEF ToSet
  <2> QED  BY <1>d, <2>1, <2>2 DEF ToSet
<1>5. ASSUME IsInjective(s)
      PROVE  IsInjective(t)
  <2> SUFFICES ASSUME NEW i \in 1..Len(s), NEW j \in 1..Len(s), t[i] = t[j]
               PROVE  i = j
    BY <1>d DEF IsInjective
  <2>1. p[i] \in 1..Len(s) /\ p[j] \in 1..Len(s) /\ s[p[i]] = s[p[j]]
    BY <1>2, <1>d
  <2>2. p[i] = p[j]
    BY <1>5, <1>d, <2>1 DEF IsInjective
  <2> QED  BY <1>2, <1>d, <2>2 DEF IsInjective
<1>6. InOrder(t)
  BY DEF SortOf
<1> QED  BY <1>3, <1>4, <1>5, <1>6

(***************************************************************************)
(* Types                                                                   *)
(***************************************************************************)

\* Where a handler is inside add_rfc.
AddRfcLabels == {"rfc_scan", "rfc_wait", "rfc_find", "rfc_push", "rfc_sort", "rfc_unlock"}

\* A handler inside add_rfc has a number (a query may have none).
AddNumber == \A h \in Handlers : pc[h] \in AddRfcLabels => rfc[h] \in Rfc

TypeInv == TypeOK /\ AddNumber

\* At start every handler stands at its first statement and holds nothing.
LEMMA InitType == Init => TypeInv
  BY PeerOfAssumption DEF Init, TypeInv, TypeOK, AddNumber, AddRfcLabels, Labels

\* No statement of a handler leaves the typed states.
LEMMA TypeStep ==
  ASSUME TypeInv, [Next]_vars
  PROVE  TypeInv'
<1> USE HandlersAssumption, PeerOfAssumption, RfcAssumption
<1>1. ASSUME NEW h \in Handlers, AddClientLock(h)
      PROVE  TypeInv'
  BY <1>1 DEF AddClientLock, At, Goto, TypeInv, TypeOK, AddNumber, AddRfcLabels, Labels
<1>2. ASSUME NEW h \in Handlers, AddClientListed(h)
      PROVE  TypeInv'
  BY <1>2 DEF AddClientListed, At, Goto, TypeInv, TypeOK, AddNumber, AddRfcLabels, Labels
<1>3. ASSUME NEW h \in Handlers, AddClientNew(h)
      PROVE  TypeInv'
  BY <1>3 DEF AddClientNew, At, Goto, TypeInv, TypeOK, AddNumber, AddRfcLabels, Labels
<1>4. ASSUME NEW h \in Handlers, AddClientPush(h)
      PROVE  TypeInv'
  BY <1>4 DEF AddClientPush, At, Goto, TypeInv, TypeOK, AddNumber, AddRfcLabels, Labels
<1>5. ASSUME NEW h \in Handlers, NEW n \in Rfc, AddRfcLock(h, n)
      PROVE  TypeInv'
  BY <1>5 DEF AddRfcLock, At, Goto, TypeInv, TypeOK, AddNumber, AddRfcLabels, Labels
<1>6. ASSUME NEW h \in Handlers, AddRfcListed(h)
      PROVE  TypeInv'
  BY <1>6 DEF AddRfcListed, At, Goto, TypeInv, TypeOK, AddNumber, AddRfcLabels, Labels
<1>7. ASSUME NEW h \in Handlers, AddRfcNew(h)
      PROVE  TypeInv'
  BY <1>7 DEF AddRfcNew, At, Goto, TypeInv, TypeOK, AddNumber, AddRfcLabels, Labels
<1>8. ASSUME NEW h \in Handlers, AddRfcLockClients(h)
      PROVE  TypeInv'
  BY <1>8 DEF AddRfcLockClients, At, Goto, TypeInv, TypeOK, AddNumber, AddRfcLabels, Labels
<1>9. ASSUME NEW h \in Handlers, AddRfcStranger(h)
      PROVE  TypeInv'
  BY <1>9 DEF AddRfcStranger, At, Goto, TypeInv, TypeOK, AddNumber, AddRfcLabels, Labels
<1>10. ASSUME NEW h \in Handlers, AddRfcFound(h)
       PROVE  TypeInv'
  BY <1>10 DEF AddRfcFound, At, Goto, TypeInv, TypeOK, AddNumber, AddRfcLabels, Labels
<1>11. ASSUME NEW h \in Handlers, AddRfcPush(h)
       PROVE  TypeInv'
  <2>1. HolderOf(h) \in Holder
    BY <1>11 DEF AddRfcPush, At, TypeInv, TypeOK, AddNumber, AddRfcLabels, HolderOf, Holder, HolderOver
  <2>2. rfcs' \in Seq(Holder)
    BY <1>11, <2>1, AppendProperties DEF AddRfcPush, TypeInv, TypeOK
  <2> QED  BY <1>11, <2>2 DEF AddRfcPush, At, Goto, TypeInv, TypeOK, AddNumber, AddRfcLabels, Labels
<1>12. ASSUME NEW h \in Handlers, AddRfcSort(h)
       PROVE  TypeInv'
  <2>1. rfcs' \in Seq(Holder)
    BY <1>12, SortPreserves DEF AddRfcSort, TypeInv, TypeOK
  <2> QED  BY <1>12, <2>1 DEF AddRfcSort, At, Goto, TypeInv, TypeOK, AddNumber, AddRfcLabels, Labels
<1>13. ASSUME NEW h \in Handlers, AddRfcReturn(h)
       PROVE  TypeInv'
  BY <1>13 DEF AddRfcReturn, At, Goto, TypeInv, TypeOK, AddNumber, AddRfcLabels, Labels
<1>14. ASSUME NEW h \in Handlers, NEW n \in Rfc \cup {None}, QueryLock(h, n)
       PROVE  TypeInv'
  BY <1>14 DEF QueryLock, At, Goto, TypeInv, TypeOK, AddNumber, AddRfcLabels, Labels
<1>15. ASSUME NEW h \in Handlers, QueryCopy(h)
       PROVE  TypeInv'
  <2>1. it[h] \in 1..Len(rfcs) /\ rfcs[it[h]] \in Holder
    BY <1>15, ElementOfSeq, LenProperties DEF QueryCopy, TypeInv, TypeOK
  <2>2. Append(l[h], rfcs[it[h]]) \in Seq(Holder)
    BY <2>1, AppendProperties DEF TypeInv, TypeOK
  <2> QED  BY <1>15, <2>2 DEF QueryCopy, At, Goto, TypeInv, TypeOK, AddNumber, AddRfcLabels, Labels
<1>16. ASSUME NEW h \in Handlers, QueryReturn(h)
       PROVE  TypeInv'
  BY <1>16 DEF QueryReturn, At, Goto, TypeInv, TypeOK, AddNumber, AddRfcLabels, Labels
<1>17. ASSUME NEW h \in Handlers, QueryRespond(h)
       PROVE  TypeInv'
  BY <1>17 DEF QueryRespond, At, Goto, TypeInv, TypeOK, AddNumber, AddRfcLabels, Labels
<1>18. ASSUME NEW h \in Handlers, RemoveLock(h)
       PROVE  TypeInv'
  BY <1>18 DEF RemoveLock, At, Goto, TypeInv, TypeOK, AddNumber, AddRfcLabels, Labels
<1>19. ASSUME NEW h \in Handlers, RemoveErase(h)
       PROVE  TypeInv'
  <2>1. it[h] \in 1..Len(rfcs)
    BY <1>19, LenProperties DEF RemoveErase, TypeInv, TypeOK
  <2>2. rfcs' \in Seq(Holder)
    BY <1>19, <2>1, RemoveAtProperties DEF RemoveErase, TypeInv, TypeOK
  <2> QED  BY <1>19, <2>2 DEF RemoveErase, At, Goto, TypeInv, TypeOK, AddNumber, AddRfcLabels, Labels
<1>20. ASSUME NEW h \in Handlers, RemoveSkip(h)
       PROVE  TypeInv'
  BY <1>20 DEF RemoveSkip, At, Goto, TypeInv, TypeOK, AddNumber, AddRfcLabels, Labels
<1>21. ASSUME NEW h \in Handlers, RemoveUnlock(h)
       PROVE  TypeInv'
  BY <1>21 DEF RemoveUnlock, At, Goto, TypeInv, TypeOK, AddNumber, AddRfcLabels, Labels
<1>22. ASSUME NEW h \in Handlers, RemoveLockClients(h)
       PROVE  TypeInv'
  BY <1>22 DEF RemoveLockClients, At, Goto, TypeInv, TypeOK, AddNumber, AddRfcLabels, Labels
<1>23. ASSUME NEW h \in Handlers, RemoveReturn(h)
       PROVE  TypeInv'
  <2>1. clients' \in Seq(Peer)
    BY <1>23, RemoveAtProperties DEF RemoveReturn, TypeInv, TypeOK
  <2> QED  BY <1>23, <2>1 DEF RemoveReturn, At, Goto, TypeInv, TypeOK, AddNumber, AddRfcLabels, Labels
<1>24. CASE UNCHANGED vars
  BY <1>24 DEF vars, TypeInv, TypeOK, AddNumber
<1>25. ASSUME NEW h \in Handlers, Call(h)
       PROVE  TypeInv'
  BY <1>25 DEF Call, At, Goto, TypeInv, TypeOK, AddNumber, AddRfcLabels, Labels
<1> QED
  BY <1>1, <1>2, <1>3, <1>4, <1>5, <1>6, <1>7, <1>8, <1>9, <1>10, <1>11, <1>12, <1>13, <1>14, <1>15, <1>16, <1>17, <1>18, <1>19, <1>20, <1>21, <1>22, <1>23, <1>24, <1>25
  DEF Next, Progress, LockRfcs

\* The type invariant, in the form that is inductive.
LEMMA TypeInvariant == Spec => []TypeInv
<1>1. Init => TypeInv
  BY InitType
<1>2. TypeInv /\ [Next]_vars => TypeInv'
  BY TypeStep
<1> QED  BY <1>1, <1>2, PTL DEF Spec

\* Every variable keeps its type, whatever the handlers do: no iterator is
\* dereferenced or moved outside its list.
THEOREM TypeCorrect == Spec => []TypeOK
  BY TypeInvariant, PTL DEF TypeInv

(***************************************************************************)
(* The mutexes                                                             *)
(***************************************************************************)

\* At start no mutex is held and no handler is inside one.
LEMMA InitProtected == Init => Protected
  BY HandlersAssumption DEF Init, Protected, InRfcs, InClients

\* Each lock, unlock and early return keeps the holders and the places in step.
LEMMA ProtectedStep ==
  ASSUME TypeInv, Protected, [Next]_vars
  PROVE  Protected'
<1> USE HandlersAssumption
<1>1. ASSUME NEW h \in Handlers, AddClientLock(h)
      PROVE  Protected'
  BY <1>1 DEF AddClientLock, At, Goto, TypeInv, TypeOK, Protected, InRfcs, InClients
<1>2. ASSUME NEW h \in Handlers, AddClientListed(h)
      PROVE  Protected'
  BY <1>2 DEF AddClientListed, At, Goto, TypeInv, TypeOK, Protected, InRfcs, InClients
<1>3. ASSUME NEW h \in Handlers, AddClientNew(h)
      PROVE  Protected'
  BY <1>3 DEF AddClientNew, At, Goto, TypeInv, TypeOK, Protected, InRfcs, InClients
<1>4. ASSUME NEW h \in Handlers, AddClientPush(h)
      PROVE  Protected'
  BY <1>4 DEF AddClientPush, At, Goto, TypeInv, TypeOK, Protected, InRfcs, InClients
<1>5. ASSUME NEW h \in Handlers, NEW n \in Rfc, AddRfcLock(h, n)
      PROVE  Protected'
  BY <1>5 DEF AddRfcLock, At, Goto, TypeInv, TypeOK, Protected, InRfcs, InClients
<1>6. ASSUME NEW h \in Handlers, AddRfcListed(h)
      PROVE  Protected'
  BY <1>6 DEF AddRfcListed, At, Goto, TypeInv, TypeOK, Protected, InRfcs, InClients
<1>7. ASSUME NEW h \in Handlers, AddRfcNew(h)
      PROVE  Protected'
  BY <1>7 DEF AddRfcNew, At, Goto, TypeInv, TypeOK, Protected, InRfcs, InClients
<1>8. ASSUME NEW h \in Handlers, AddRfcLockClients(h)
      PROVE  Protected'
  BY <1>8 DEF AddRfcLockClients, At, Goto, TypeInv, TypeOK, Protected, InRfcs, InClients
<1>9. ASSUME NEW h \in Handlers, AddRfcStranger(h)
      PROVE  Protected'
  BY <1>9 DEF AddRfcStranger, At, Goto, TypeInv, TypeOK, Protected, InRfcs, InClients
<1>10. ASSUME NEW h \in Handlers, AddRfcFound(h)
       PROVE  Protected'
  BY <1>10 DEF AddRfcFound, At, Goto, TypeInv, TypeOK, Protected, InRfcs, InClients
<1>11. ASSUME NEW h \in Handlers, AddRfcPush(h)
       PROVE  Protected'
  BY <1>11 DEF AddRfcPush, At, Goto, TypeInv, TypeOK, Protected, InRfcs, InClients
<1>12. ASSUME NEW h \in Handlers, AddRfcSort(h)
       PROVE  Protected'
  BY <1>12 DEF AddRfcSort, At, Goto, TypeInv, TypeOK, Protected, InRfcs, InClients
<1>13. ASSUME NEW h \in Handlers, AddRfcReturn(h)
       PROVE  Protected'
  BY <1>13 DEF AddRfcReturn, At, Goto, TypeInv, TypeOK, Protected, InRfcs, InClients
<1>14. ASSUME NEW h \in Handlers, NEW n \in Rfc \cup {None}, QueryLock(h, n)
       PROVE  Protected'
  BY <1>14 DEF QueryLock, At, Goto, TypeInv, TypeOK, Protected, InRfcs, InClients
<1>15. ASSUME NEW h \in Handlers, QueryCopy(h)
       PROVE  Protected'
  BY <1>15 DEF QueryCopy, At, Goto, TypeInv, TypeOK, Protected, InRfcs, InClients
<1>16. ASSUME NEW h \in Handlers, QueryReturn(h)
       PROVE  Protected'
  BY <1>16 DEF QueryReturn, At, Goto, TypeInv, TypeOK, Protected, InRfcs, InClients
<1>17. ASSUME NEW h \in Handlers, QueryRespond(h)
       PROVE  Protected'
  BY <1>17 DEF QueryRespond, At, Goto, TypeInv, TypeOK, Protected, InRfcs, InClients
<1>18. ASSUME NEW h \in Handlers, RemoveLock(h)
       PROVE  Protected'
  BY <1>18 DEF RemoveLock, At, Goto, TypeInv, TypeOK, Protected, InRfcs, InClients
<1>19. ASSUME NEW h \in Handlers, RemoveErase(h)
       PROVE  Protected'
  BY <1>19 DEF RemoveErase, At, Goto, TypeInv, TypeOK, Protected, InRfcs, InClients
<1>20. ASSUME NEW h \in Handlers, RemoveSkip(h)
       PROVE  Protected'
  BY <1>20 DEF RemoveSkip, At, Goto, TypeInv, TypeOK, Protected, InRfcs, InClients
<1>21. ASSUME NEW h \in Handlers, RemoveUnlock(h)
       PROVE  Protected'
  BY <1>21 DEF RemoveUnlock, At, Goto, TypeInv, TypeOK, Protected, InRfcs, InClients
<1>22. ASSUME NEW h \in Handlers, RemoveLockClients(h)
       PROVE  Protected'
  BY <1>22 DEF RemoveLockClients, At, Goto, TypeInv, TypeOK, Protected, InRfcs, InClients
<1>23. ASSUME NEW h \in Handlers, RemoveReturn(h)
       PROVE  Protected'
  BY <1>23 DEF RemoveReturn, At, Goto, TypeInv, TypeOK, Protected, InRfcs, InClients
<1>24. CASE UNCHANGED vars
  BY <1>24 DEF vars, Protected
<1>25. ASSUME NEW h \in Handlers, Call(h)
       PROVE  Protected'
  BY <1>25 DEF Call, At, Goto, TypeInv, TypeOK, Protected, InRfcs, InClients
<1> QED
  BY <1>1, <1>2, <1>3, <1>4, <1>5, <1>6, <1>7, <1>8, <1>9, <1>10, <1>11, <1>12, <1>13, <1>14, <1>15, <1>16, <1>17, <1>18, <1>19, <1>20, <1>21, <1>22, <1>23, <1>24, <1>25
  DEF Next, Progress, LockRfcs

\* Each mutex is held by the one handler between taking and releasing it, and
\* by nobody else: no early return of the five calls keeps or frees another's.
THEOREM MutexesProtect == Spec => []Protected
<1>1. Init => Protected
  BY InitProtected
<1>2. TypeInv /\ Protected /\ [Next]_vars => Protected'
  BY ProtectedStep
<1> QED  BY <1>1, <1>2, TypeInvariant, PTL DEF Spec

\* Two handlers are never inside the same mutex.
LEMMA OneInside ==
  ASSUME Protected, NEW g \in Handlers, NEW h \in Handlers, g # h
  PROVE  /\ pc[g] \in InRfcs => pc[h] \notin InRfcs
         /\ pc[g] \in InClients => pc[h] \notin InClients
  BY DEF Protected

(***************************************************************************)
(* The lists                                                               *)
(***************************************************************************)

\* What a handler has found of the list it searched still holds when it adds
\* to it: nobody else could add in between.
NewClient == \A h \in Handlers : pc[h] = "client_push" => PeerOf[h] \notin ToSet(clients)

NewHolder ==
  \A h \in Handlers :
    pc[h] \in {"rfc_wait", "rfc_find", "rfc_push"} => HolderOf(h) \notin ToSet(rfcs)

\* Only the handler about to sort may have left the list out of order.
SortedUnlessSorting == (\A h \in Handlers : pc[h] # "rfc_sort") => InOrder(rfcs)

ListInv == NoDuplicates /\ NewClient /\ NewHolder /\ SortedUnlessSorting

\* The empty lists are in order and repeat nothing.
LEMMA InitList == Init => ListInv
  BY DEF Init, ListInv, NoDuplicates, NewClient, NewHolder, SortedUnlessSorting,
         IsInjective, InOrder

\* Every push_back, erase and sort leaves the lists as ListInv says.
LEMMA ListStep ==
  ASSUME TypeInv, Protected, ListInv, [Next]_vars
  PROVE  ListInv'
<1>1. ASSUME NEW h \in Handlers, AddClientLock(h)
      PROVE  ListInv'
  BY <1>1 DEF AddClientLock, At, Goto, ListInv, NoDuplicates, NewClient, NewHolder, HolderOf, SortedUnlessSorting, TypeInv, TypeOK
<1>2. ASSUME NEW h \in Handlers, AddClientListed(h)
      PROVE  ListInv'
  BY <1>2 DEF AddClientListed, At, Goto, ListInv, NoDuplicates, NewClient, NewHolder, HolderOf, SortedUnlessSorting, TypeInv, TypeOK
<1>3. ASSUME NEW h \in Handlers, AddClientNew(h)
      PROVE  ListInv'
  BY <1>3 DEF AddClientNew, At, Goto, ListInv, NoDuplicates, NewClient, NewHolder, HolderOf, SortedUnlessSorting, TypeInv, TypeOK
<1>4. ASSUME NEW h \in Handlers, AddClientPush(h)
      PROVE  ListInv'
  <2>1. PeerOf[h] \in Peer /\ clients' = Append(clients, PeerOf[h])
    BY <1>4, PeerOfAssumption DEF AddClientPush
  <2>2. PeerOf[h] \notin ToSet(clients)
    BY <1>4 DEF AddClientPush, At, ListInv, NewClient
  <2>3. IsInjective(clients')
    BY <2>1, <2>2, AppendPreserves DEF TypeInv, TypeOK, ListInv, NoDuplicates
  <2>4. NewClient'
    <3>1. \A g \in Handlers \ {h} : pc[g] # "client_push"
      BY <1>4, OneInside DEF AddClientPush, At, InClients
    <3> QED  BY <1>4, <3>1 DEF AddClientPush, At, Goto, NewClient, TypeInv, TypeOK
  <2> QED  BY <1>4, <2>3, <2>4 DEF AddClientPush, At, Goto, ListInv, NoDuplicates, NewHolder, HolderOf, SortedUnlessSorting, TypeInv, TypeOK
<1>5. ASSUME NEW h \in Handlers, NEW n \in Rfc, AddRfcLock(h, n)
      PROVE  ListInv'
  BY <1>5 DEF AddRfcLock, At, Goto, ListInv, NoDuplicates, NewClient, NewHolder, HolderOf, SortedUnlessSorting, TypeInv, TypeOK
<1>6. ASSUME NEW h \in Handlers, AddRfcListed(h)
      PROVE  ListInv'
  BY <1>6 DEF AddRfcListed, At, Goto, ListInv, NoDuplicates, NewClient, NewHolder, HolderOf, SortedUnlessSorting, TypeInv, TypeOK
<1>7. ASSUME NEW h \in Handlers, AddRfcNew(h)
      PROVE  ListInv'
  BY <1>7 DEF AddRfcNew, At, Goto, ListInv, NoDuplicates, NewClient, NewHolder, HolderOf, SortedUnlessSorting, TypeInv, TypeOK
<1>8. ASSUME NEW h \in Handlers, AddRfcLockClients(h)
      PROVE  ListInv'
  BY <1>8 DEF AddRfcLockClients, At, Goto, ListInv, NoDuplicates, NewClient, NewHolder, HolderOf, SortedUnlessSorting, TypeInv, TypeOK
<1>9. ASSUME NEW h \in Handlers, AddRfcStranger(h)
      PROVE  ListInv'
  BY <1>9 DEF AddRfcStranger, At, Goto, ListInv, NoDuplicates, NewClient, NewHolder, HolderOf, SortedUnlessSorting, TypeInv, TypeOK
<1>10. ASSUME NEW h \in Handlers, AddRfcFound(h)
       PROVE  ListInv'
  BY <1>10 DEF AddRfcFound, At, Goto, ListInv, NoDuplicates, NewClient, NewHolder, HolderOf, SortedUnlessSorting, TypeInv, TypeOK
<1>11. ASSUME NEW h \in Handlers, AddRfcPush(h)
       PROVE  ListInv'
  <2>1. HolderOf(h) \in Holder /\ rfcs' = Append(rfcs, HolderOf(h))
    BY <1>11, PeerOfAssumption
    DEF AddRfcPush, At, TypeInv, AddNumber, AddRfcLabels, HolderOf, Holder, HolderOver
  <2>2. HolderOf(h) \notin ToSet(rfcs)
    BY <1>11 DEF AddRfcPush, At, ListInv, NewHolder
  <2>3. IsInjective(rfcs')
    BY <2>1, <2>2, AppendPreserves DEF TypeInv, TypeOK, ListInv, NoDuplicates
  <2>4. NewHolder'
    <3>1. \A g \in Handlers \ {h} : pc[g] \notin {"rfc_wait", "rfc_find", "rfc_push"}
      BY <1>11, OneInside DEF AddRfcPush, At, InRfcs
    <3> QED  BY <1>11, <3>1 DEF AddRfcPush, At, Goto, NewHolder, TypeInv, TypeOK
  <2>5. SortedUnlessSorting'
    BY <1>11 DEF AddRfcPush, At, Goto, SortedUnlessSorting, TypeInv, TypeOK
  <2> QED  BY <1>11, <2>3, <2>4, <2>5 DEF AddRfcPush, At, Goto, ListInv, NoDuplicates, NewClient, TypeInv, TypeOK
<1>12. ASSUME NEW h \in Handlers, AddRfcSort(h)
       PROVE  ListInv'
  <2>1. /\ ToSet(rfcs') = ToSet(rfcs)
        /\ IsInjective(rfcs')
        /\ InOrder(rfcs')
    BY <1>12, SortPreserves DEF AddRfcSort, TypeInv, TypeOK, ListInv, NoDuplicates
  <2> QED  BY <1>12, <2>1 DEF AddRfcSort, At, Goto, ListInv, NoDuplicates, NewClient, NewHolder, HolderOf, SortedUnlessSorting, TypeInv, TypeOK
<1>13. ASSUME NEW h \in Handlers, AddRfcReturn(h)
       PROVE  ListInv'
  BY <1>13 DEF AddRfcReturn, At, Goto, ListInv, NoDuplicates, NewClient, NewHolder, HolderOf, SortedUnlessSorting, TypeInv, TypeOK
<1>14. ASSUME NEW h \in Handlers, NEW n \in Rfc \cup {None}, QueryLock(h, n)
       PROVE  ListInv'
  BY <1>14 DEF QueryLock, At, Goto, ListInv, NoDuplicates, NewClient, NewHolder, HolderOf, SortedUnlessSorting, TypeInv, TypeOK
<1>15. ASSUME NEW h \in Handlers, QueryCopy(h)
       PROVE  ListInv'
  BY <1>15 DEF QueryCopy, At, Goto, ListInv, NoDuplicates, NewClient, NewHolder, HolderOf, SortedUnlessSorting, TypeInv, TypeOK
<1>16. ASSUME NEW h \in Handlers, QueryReturn(h)
       PROVE  ListInv'
  BY <1>16 DEF QueryReturn, At, Goto, ListInv, NoDuplicates, NewClient, NewHolder, HolderOf, SortedUnlessSorting, TypeInv, TypeOK
<1>17. ASSUME NEW h \in Handlers, QueryRespond(h)
       PROVE  ListInv'
  BY <1>17 DEF QueryRespond, At, Goto, ListInv, NoDuplicates, NewClient, NewHolder, HolderOf, SortedUnlessSorting, TypeInv, TypeOK
<1>18. ASSUME NEW h \in Handlers, RemoveLock(h)
       PROVE  ListInv'
  BY <1>18 DEF RemoveLock, At, Goto, ListInv, NoDuplicates, NewClient, NewHolder, HolderOf, SortedUnlessSorting, TypeInv, TypeOK
<1>19. ASSUME NEW h \in Handlers, RemoveErase(h)
       PROVE  ListInv'
  <2>1. it[h] \in 1..Len(rfcs) /\ rfcs' = RemoveAt(rfcs, it[h])
    BY <1>19, LenProperties DEF RemoveErase, TypeInv, TypeOK
  <2>2. InOrder(rfcs)
    <3>1. \A g \in Handlers : pc[g] # "rfc_sort"
      BY <1>19, OneInside DEF RemoveErase, InRfcs
    <3> QED  BY <3>1 DEF ListInv, SortedUnlessSorting
  <2>3. /\ ToSet(rfcs') \subseteq ToSet(rfcs)
        /\ IsInjective(rfcs')
        /\ InOrder(rfcs')
    BY <2>1, <2>2, RemoveAtPreserves DEF TypeInv, TypeOK, ListInv, NoDuplicates
  <2> QED  BY <1>19, <2>3 DEF RemoveErase, ListInv, NoDuplicates, NewClient, NewHolder, HolderOf, SortedUnlessSorting
<1>20. ASSUME NEW h \in Handlers, RemoveSkip(h)
       PROVE  ListInv'
  BY <1>20 DEF RemoveSkip, At, Goto, ListInv, NoDuplicates, NewClient, NewHolder, HolderOf, SortedUnlessSorting, TypeInv, TypeOK
<1>21. ASSUME NEW h \in Handlers, RemoveUnlock(h)
       PROVE  ListInv'
  BY <1>21 DEF RemoveUnlock, At, Goto, ListInv, NoDuplicates, NewClient, NewHolder, HolderOf, SortedUnlessSorting, TypeInv, TypeOK
<1>22. ASSUME NEW h \in Handlers, RemoveLockClients(h)
       PROVE  ListInv'
  BY <1>22 DEF RemoveLockClients, At, Goto, ListInv, NoDuplicates, NewClient, NewHolder, HolderOf, SortedUnlessSorting, TypeInv, TypeOK
<1>23. ASSUME NEW h \in Handlers, RemoveReturn(h)
       PROVE  ListInv'
  <2>1. ToSet(clients') \subseteq ToSet(clients) /\ IsInjective(clients')
    <3>1. CASE clients' = clients
      BY <3>1 DEF ListInv, NoDuplicates
    <3>2. CASE \E i \in 1..Len(clients) : clients' = RemoveAt(clients, i)
      BY <3>2, RemoveAtPreserves DEF TypeInv, TypeOK, ListInv, NoDuplicates
    <3> QED  BY <1>23, <3>1, <3>2 DEF RemoveReturn
  <2> QED  BY <1>23, <2>1 DEF RemoveReturn, At, Goto, ListInv, NoDuplicates, NewClient, NewHolder, HolderOf, SortedUnlessSorting, TypeInv, TypeOK
<1>24. CASE UNCHANGED vars
  BY <1>24 DEF vars, At, Goto, ListInv, NoDuplicates, NewClient, NewHolder, HolderOf, SortedUnlessSorting
<1>25. ASSUME NEW h \in Handlers, Call(h)
       PROVE  ListInv'
  BY <1>25 DEF Call, At, Goto, ListInv, NoDuplicates, NewClient, NewHolder, HolderOf, SortedUnlessSorting, TypeInv, TypeOK
<1> QED
  BY <1>1, <1>2, <1>3, <1>4, <1>5, <1>6, <1>7, <1>8, <1>9, <1>10, <1>11, <1>12, <1>13, <1>14, <1>15, <1>16, <1>17, <1>18, <1>19, <1>20, <1>21, <1>22, <1>23, <1>24, <1>25
  DEF Next, Progress, LockRfcs

\* Every reachable state has such lists.
LEMMA ListInvariant == Spec => []ListInv
<1>1. Init => ListInv
  BY InitList
<1>2. TypeInv /\ Protected /\ ListInv /\ [Next]_vars => ListInv'
  BY ListStep
<1> QED  BY <1>1, <1>2, TypeInvariant, MutexesProtect, PTL DEF Spec

\* No client is ever listed twice, nor twice under one number.
THEOREM ListsHaveNoDuplicates == Spec => []NoDuplicates
  BY ListInvariant, PTL DEF ListInv

\* Whoever can read rfcs finds it in the order of compare_rfc_holders.
THEOREM ListIsSortedAtRest == Spec => []SortedAtRest
<1>1. Protected /\ ListInv => SortedAtRest
  BY HandlersAssumption DEF Protected, ListInv, SortedUnlessSorting, SortedAtRest, InRfcs
<1> QED  BY <1>1, ListInvariant, MutexesProtect, PTL

(***************************************************************************)
(* Removal                                                                 *)
(***************************************************************************)

\* Erasing an element of a list without duplicates leaves exactly the others.
LEMMA RemoveAtRemoves ==
  ASSUME NEW S, NEW s \in Seq(S), NEW i \in 1..Len(s), IsInjective(s)
  PROVE  ToSet(RemoveAt(s, i)) = ToSet(s) \ {s[i]}
<1> DEFINE t == RemoveAt(s, i)
<1>1. /\ t \in Seq(S)
      /\ Len(t) = Len(s) - 1
      /\ \A j \in 1..(i - 1) : t[j] = s[j]
      /\ \A j \in i..(Len(s) - 1) : t[j] = s[j + 1]
  BY RemoveAtProperties
<1> HIDE DEF t
<1>2. /\ DOMAIN s = 1..Len(s) /\ Len(s) \in Nat
      /\ DOMAIN t = 1..(Len(s) - 1)
  BY <1>1, LenProperties
<1>3. ASSUME NEW j \in 1..(Len(s) - 1)
      PROVE  t[j] \in ToSet(s) /\ t[j] # s[i]
  <2>1. CASE j < i
    <3>1. t[j] = s[j] /\ j \in 1..Len(s) /\ j # i
      BY <1>1, <1>2, <2>1
    <3> QED  BY <1>2, <3>1 DEF ToSet, IsInjective
  <2>2. CASE j >= i
    <3>1. t[j] = s[j + 1] /\ j + 1 \in 1..Len(s) /\ j + 1 # i
      BY <1>1, <1>2, <2>2
    <3> QED  BY <1>2, <3>1 DEF ToSet, IsInjective
  <2> QED  BY <2>1, <2>2
<1>4. ASSUME NEW j \in 1..Len(s), j # i
      PROVE  s[j] \in ToSet(t)
  <2>1. CASE j < i
    <3>1. t[j] = s[j] /\ j \in 1..(Len(s) - 1)
      BY <1>1, <1>2, <2>1
    <3> QED  BY <1>2, <3>1 DEF ToSet
  <2>2. CASE j > i
    <3>1. j - 1 \in i..(Len(s) - 1) /\ (j - 1) + 1 = j /\ j - 1 \in 1..(Len(s) - 1)
      BY <1>2, <2>2
    <3>2. t[j - 1] = s[j]
      BY <1>1, <3>1
    <3> QED  BY <1>2, <3>1, <3>2 DEF ToSet
  <2> QED  BY <1>4, <2>1, <2>2
<1>5. ToSet(t) \subseteq ToSet(s) \ {s[i]}
  BY <1>2, <1>3 DEF ToSet
<1>6. ToSet(s) \ {s[i]} \subseteq ToSet(t)
  BY <1>2, <1>4 DEF ToSet
<1> QED  BY <1>5, <1>6 DEF t

\* Behind the iterator of remove_client there is nothing left to erase.
EraseInv ==
  \A h \in Handlers : pc[h] = "erase" =>
    \A j \in 1..Len(rfcs) : j < it[h] => rfcs[j].peer # PeerOf[h]

GhostInv == EraseInv /\ NoGhosts

\* At start nothing is listed, so nothing for a client that has left.
LEMMA InitGhost == Init => GhostInv
  BY DEF Init, GhostInv, EraseInv, NoGhosts, ToSet

\* A removal goes on only when it has erased the last element it is for.
LEMMA GhostStep ==
  ASSUME TypeInv, Protected, ListInv, GhostInv, [Next]_vars
  PROVE  GhostInv'
<1>1. ASSUME NEW h \in Handlers, AddClientLock(h)
      PROVE  GhostInv'
  BY <1>1 DEF AddClientLock, At, Goto, GhostInv, EraseInv, NoGhosts, TypeInv, TypeOK
<1>2. ASSUME NEW h \in Handlers, AddClientListed(h)
      PROVE  GhostInv'
  BY <1>2 DEF AddClientListed, At, Goto, GhostInv, EraseInv, NoGhosts, TypeInv, TypeOK
<1>3. ASSUME NEW h \in Handlers, AddClientNew(h)
      PROVE  GhostInv'
  BY <1>3 DEF AddClientNew, At, Goto, GhostInv, EraseInv, NoGhosts, TypeInv, TypeOK
<1>4. ASSUME NEW h \in Handlers, AddClientPush(h)
      PROVE  GhostInv'
  <2>1. ToSet(clients') = ToSet(clients) \cup {PeerOf[h]}
    BY <1>4, PeerOfAssumption, AppendPreserves DEF AddClientPush, TypeInv, TypeOK
  <2> QED  BY <1>4, <2>1 DEF AddClientPush, At, Goto, GhostInv, EraseInv, NoGhosts, TypeInv, TypeOK
<1>5. ASSUME NEW h \in Handlers, NEW n \in Rfc, AddRfcLock(h, n)
      PROVE  GhostInv'
  BY <1>5 DEF AddRfcLock, At, Goto, GhostInv, EraseInv, NoGhosts, TypeInv, TypeOK
<1>6. ASSUME NEW h \in Handlers, AddRfcListed(h)
      PROVE  GhostInv'
  BY <1>6 DEF AddRfcListed, At, Goto, GhostInv, EraseInv, NoGhosts, TypeInv, TypeOK
<1>7. ASSUME NEW h \in Handlers, AddRfcNew(h)
      PROVE  GhostInv'
  BY <1>7 DEF AddRfcNew, At, Goto, GhostInv, EraseInv, NoGhosts, TypeInv, TypeOK
<1>8. ASSUME NEW h \in Handlers, AddRfcLockClients(h)
      PROVE  GhostInv'
  BY <1>8 DEF AddRfcLockClients, At, Goto, GhostInv, EraseInv, NoGhosts, TypeInv, TypeOK
<1>9. ASSUME NEW h \in Handlers, AddRfcStranger(h)
      PROVE  GhostInv'
  BY <1>9 DEF AddRfcStranger, At, Goto, GhostInv, EraseInv, NoGhosts, TypeInv, TypeOK
<1>10. ASSUME NEW h \in Handlers, AddRfcFound(h)
       PROVE  GhostInv'
  BY <1>10 DEF AddRfcFound, At, Goto, GhostInv, EraseInv, NoGhosts, TypeInv, TypeOK
<1>11. ASSUME NEW h \in Handlers, AddRfcPush(h)
       PROVE  GhostInv'
  <2>1. HolderOf(h) \in Holder
    BY <1>11, PeerOfAssumption
    DEF AddRfcPush, At, TypeInv, AddNumber, AddRfcLabels, HolderOf, Holder, HolderOver
  <2>2. ToSet(rfcs') = ToSet(rfcs) \cup {HolderOf(h)}
    BY <1>11, <2>1, AppendPreserves DEF AddRfcPush, TypeInv, TypeOK
  <2>3. \A g \in Handlers : pc'[g] # "erase"
    BY <1>11, OneInside DEF AddRfcPush, At, Goto, InRfcs, TypeInv, TypeOK
  <2>4. NoGhosts'
    BY <1>11, <2>2 DEF AddRfcPush, At, Goto, GhostInv, NoGhosts, HolderOf, TypeInv, TypeOK
  <2> QED  BY <2>3, <2>4 DEF GhostInv, EraseInv
<1>12. ASSUME NEW h \in Handlers, AddRfcSort(h)
       PROVE  GhostInv'
  <2>1. ToSet(rfcs') = ToSet(rfcs)
    BY <1>12, SortPreserves DEF AddRfcSort, TypeInv, TypeOK
  <2>2. \A g \in Handlers : pc'[g] # "erase"
    BY <1>12, OneInside DEF AddRfcSort, At, Goto, InRfcs, TypeInv, TypeOK
  <2>3. NoGhosts'
    BY <1>12, <2>1 DEF AddRfcSort, At, Goto, GhostInv, NoGhosts, TypeInv, TypeOK
  <2> QED  BY <2>2, <2>3 DEF GhostInv, EraseInv
<1>13. ASSUME NEW h \in Handlers, AddRfcReturn(h)
       PROVE  GhostInv'
  BY <1>13 DEF AddRfcReturn, At, Goto, GhostInv, EraseInv, NoGhosts, TypeInv, TypeOK
<1>14. ASSUME NEW h \in Handlers, NEW n \in Rfc \cup {None}, QueryLock(h, n)
       PROVE  GhostInv'
  BY <1>14 DEF QueryLock, At, Goto, GhostInv, EraseInv, NoGhosts, TypeInv, TypeOK
<1>15. ASSUME NEW h \in Handlers, QueryCopy(h)
       PROVE  GhostInv'
  BY <1>15 DEF QueryCopy, At, Goto, GhostInv, EraseInv, NoGhosts, TypeInv, TypeOK
<1>16. ASSUME NEW h \in Handlers, QueryReturn(h)
       PROVE  GhostInv'
  BY <1>16 DEF QueryReturn, At, Goto, GhostInv, EraseInv, NoGhosts, TypeInv, TypeOK
<1>17. ASSUME NEW h \in Handlers, QueryRespond(h)
       PROVE  GhostInv'
  BY <1>17 DEF QueryRespond, At, Goto, GhostInv, EraseInv, NoGhosts, TypeInv, TypeOK
<1>18. ASSUME NEW h \in Handlers, RemoveLock(h)
       PROVE  GhostInv'
  BY <1>18 DEF RemoveLock, At, Goto, GhostInv, EraseInv, NoGhosts, TypeInv, TypeOK
<1>19. ASSUME NEW h \in Handlers, RemoveErase(h)
       PROVE  GhostInv'
  <2>1. it[h] \in 1..Len(rfcs) /\ rfcs' = RemoveAt(rfcs, it[h])
    BY <1>19, LenProperties DEF RemoveErase, TypeInv, TypeOK
  <2>2. /\ Len(rfcs') = Len(rfcs) - 1
        /\ \A j \in 1..(it[h] - 1) : rfcs'[j] = rfcs[j]
        /\ ToSet(rfcs') \subseteq ToSet(rfcs)
    BY <2>1, RemoveAtProperties, RemoveAtPreserves DEF TypeInv, TypeOK
  <2>3. \A g \in Handlers \ {h} : pc[g] # "erase"
    BY <1>19, OneInside DEF RemoveErase, InRfcs
  <2>4. \A j \in 1..Len(rfcs') : j < it[h] => rfcs'[j].peer # PeerOf[h]
    <3> SUFFICES ASSUME NEW j \in 1..Len(rfcs'), j < it[h]
                 PROVE  rfcs'[j].peer # PeerOf[h]
      OBVIOUS
    <3>1. j \in 1..Len(rfcs) /\ j \in 1..(it[h] - 1)
      BY <2>1, <2>2
    <3>2. rfcs[j].peer # PeerOf[h]
      BY <1>19, <3>1 DEF RemoveErase, GhostInv, EraseInv
    <3> QED  BY <2>2, <3>1, <3>2
  <2>5. EraseInv'
    BY <1>19, <2>3, <2>4 DEF RemoveErase, EraseInv
  <2>6. NoGhosts'
    BY <1>19, <2>2 DEF RemoveErase, GhostInv, NoGhosts
  <2> QED  BY <2>5, <2>6 DEF GhostInv
<1>20. ASSUME NEW h \in Handlers, RemoveSkip(h)
       PROVE  GhostInv'
  BY <1>20 DEF RemoveSkip, At, Goto, GhostInv, EraseInv, NoGhosts, TypeInv, TypeOK
<1>21. ASSUME NEW h \in Handlers, RemoveUnlock(h)
       PROVE  GhostInv'
  <2>1. \A e \in ToSet(rfcs) : e.peer # PeerOf[h]
    <3>1. DOMAIN rfcs = 1..Len(rfcs) /\ Len(rfcs) \in Nat
      BY LenProperties DEF TypeInv, TypeOK
    <3>2. \A j \in 1..Len(rfcs) : rfcs[j].peer # PeerOf[h]
      BY <1>21, <3>1 DEF RemoveUnlock, At, GhostInv, EraseInv, TypeInv, TypeOK
    <3> QED  BY <3>1, <3>2 DEF ToSet
  <2>2. EraseInv'
    BY <1>21 DEF RemoveUnlock, At, Goto, GhostInv, EraseInv, TypeInv, TypeOK
  <2>u. /\ clients' = clients /\ rfcs' = rfcs
        /\ pc[h] = "erase" /\ pc'[h] = "leave"
        /\ \A g \in Handlers \ {h} : pc'[g] = pc[g]
    BY <1>21 DEF RemoveUnlock, At, Goto, TypeInv, TypeOK
  <2>3. NoGhosts'
    <3>1. ASSUME NEW p \in ToSet(clients)
          PROVE  \E g \in Handlers : PeerOf[g] = p /\
                   pc'[g] \notin {"hello", "client_scan", "client_push", "done"}
      BY <2>u DEF GhostInv, NoGhosts
    <3>2. ASSUME NEW e \in ToSet(rfcs)
          PROVE  \E g \in Handlers : PeerOf[g] = e.peer /\
                   pc'[g] \notin {"hello", "client_scan", "client_push",
                                  "leave", "leave_find", "done"}
      <4>1. PICK g \in Handlers : PeerOf[g] = e.peer /\
              pc[g] \notin {"hello", "client_scan", "client_push",
                            "leave", "leave_find", "done"}
        BY DEF GhostInv, NoGhosts
      <4>2. g # h
        BY <2>1, <4>1
      <4> QED  BY <2>u, <4>1, <4>2
    <3> QED  BY <2>u, <3>1, <3>2 DEF NoGhosts
  <2> QED  BY <2>2, <2>3 DEF GhostInv
<1>22. ASSUME NEW h \in Handlers, RemoveLockClients(h)
       PROVE  GhostInv'
  BY <1>22 DEF RemoveLockClients, At, Goto, GhostInv, EraseInv, NoGhosts, TypeInv, TypeOK
<1>23. ASSUME NEW h \in Handlers, RemoveReturn(h)
       PROVE  GhostInv'
  <2>1. ToSet(clients') = ToSet(clients) \ {PeerOf[h]}
    <3>1. CASE PeerOf[h] \notin ToSet(clients) /\ clients' = clients
      BY <3>1
    <3>2. CASE \E i \in 1..Len(clients) :
                 clients[i] = PeerOf[h] /\ clients' = RemoveAt(clients, i)
      BY <3>2, RemoveAtRemoves DEF TypeInv, TypeOK, ListInv, NoDuplicates
    <3> QED  BY <1>23, <3>1, <3>2 DEF RemoveReturn
  <2> QED  BY <1>23, <2>1 DEF RemoveReturn, At, Goto, GhostInv, EraseInv, NoGhosts, TypeInv, TypeOK
<1>24. CASE UNCHANGED vars
  BY <1>24 DEF vars, At, Goto, GhostInv, EraseInv, NoGhosts, TypeInv, TypeOK
<1>25. ASSUME NEW h \in Handlers, Call(h)
       PROVE  GhostInv'
  BY <1>25 DEF Call, At, Goto, GhostInv, EraseInv, NoGhosts, TypeInv, TypeOK
<1> QED
  BY <1>1, <1>2, <1>3, <1>4, <1>5, <1>6, <1>7, <1>8, <1>9, <1>10, <1>11, <1>12, <1>13, <1>14, <1>15, <1>16, <1>17, <1>18, <1>19, <1>20, <1>21, <1>22, <1>23, <1>24, <1>25
  DEF Next, Progress, LockRfcs

\* Hence no element outlives the removal of its client.
LEMMA GhostInvariant == Spec => []GhostInv
<1>1. Init => GhostInv
  BY InitGhost
<1>2. TypeInv /\ Protected /\ ListInv /\ GhostInv /\ [Next]_vars => GhostInv'
  BY GhostStep
<1> QED  BY <1>1, <1>2, TypeInvariant, MutexesProtect, ListInvariant, PTL DEF Spec

\* Nothing is listed for a client whose handlers have all removed it.
THEOREM NothingIsLeftBehind == Spec => []NoGhosts
  BY GhostInvariant, PTL DEF GhostInv

(***************************************************************************)
(* Clients whose name no other connection gives                            *)
(***************************************************************************)

\* A client is listed from the end of add_client to the end of remove_client.
RegisteredInv ==
  \A h \in Handlers : Alone(h) =>
    (PeerOf[h] \in ToSet(clients) <=>
      pc[h] \notin {"hello", "client_scan", "client_push", "done"})

\* The numbers listed for the client of h.
ListedFor(h) == { n \in Rfc : [rfc |-> n, peer |-> PeerOf[h]] \in ToSet(rfcs) }

\* They are the acknowledged ones, but for one that is about to be.
AckedInv ==
  \A h \in Handlers : Alone(h) =>
    /\ pc[h] \in {"rfc_sort", "rfc_unlock"} => ListedFor(h) = acked[h] \cup {rfc[h]}
    /\ pc[h] \notin {"rfc_sort", "rfc_unlock", "erase"} => ListedFor(h) = acked[h]
    /\ pc[h] \in {"erase", "leave", "leave_find", "done"} => acked[h] = {}

\* At start no client is listed and nothing has been acknowledged.
LEMMA InitRegistered == Init => RegisteredInv /\ AckedInv
  BY DEF Init, RegisteredInv, AckedInv, ListedFor, ToSet

\* Only add_client and remove_client change which clients are listed.
LEMMA RegisteredStep ==
  ASSUME TypeInv, Protected, ListInv, RegisteredInv, [Next]_vars
  PROVE  RegisteredInv'
<1> DEFINE Goal == \A g \in Handlers : Alone(g) =>
                      (PeerOf[g] \in ToSet(clients') <=>
                        pc'[g] \notin {"hello", "client_scan", "client_push", "done"})
<1> SUFFICES Goal
  BY DEF RegisteredInv
<1>0. \A g, h \in Handlers : Alone(g) /\ PeerOf[g] = PeerOf[h] => g = h
  BY DEF Alone
<1>1. ASSUME NEW h \in Handlers, AddClientLock(h)
      PROVE  Goal
  BY <1>1 DEF AddClientLock, At, Goto, RegisteredInv, TypeInv, TypeOK
<1>2. ASSUME NEW h \in Handlers, AddClientListed(h)
      PROVE  Goal
  BY <1>2 DEF AddClientListed, At, Goto, RegisteredInv, TypeInv, TypeOK
<1>3. ASSUME NEW h \in Handlers, AddClientNew(h)
      PROVE  Goal
  BY <1>3 DEF AddClientNew, At, Goto, RegisteredInv, TypeInv, TypeOK
<1>4. ASSUME NEW h \in Handlers, AddClientPush(h)
      PROVE  Goal
  <2>1. ToSet(clients') = ToSet(clients) \cup {PeerOf[h]}
    BY <1>4, PeerOfAssumption, AppendPreserves DEF AddClientPush, TypeInv, TypeOK
  <2> QED  BY <1>0, <1>4, <2>1 DEF AddClientPush, At, Goto, RegisteredInv, TypeInv, TypeOK
<1>5. ASSUME NEW h \in Handlers, NEW n \in Rfc, AddRfcLock(h, n)
      PROVE  Goal
  BY <1>5 DEF AddRfcLock, At, Goto, RegisteredInv, TypeInv, TypeOK
<1>6. ASSUME NEW h \in Handlers, AddRfcListed(h)
      PROVE  Goal
  BY <1>6 DEF AddRfcListed, At, Goto, RegisteredInv, TypeInv, TypeOK
<1>7. ASSUME NEW h \in Handlers, AddRfcNew(h)
      PROVE  Goal
  BY <1>7 DEF AddRfcNew, At, Goto, RegisteredInv, TypeInv, TypeOK
<1>8. ASSUME NEW h \in Handlers, AddRfcLockClients(h)
      PROVE  Goal
  BY <1>8 DEF AddRfcLockClients, At, Goto, RegisteredInv, TypeInv, TypeOK
<1>9. ASSUME NEW h \in Handlers, AddRfcStranger(h)
      PROVE  Goal
  BY <1>9 DEF AddRfcStranger, At, Goto, RegisteredInv, TypeInv, TypeOK
<1>10. ASSUME NEW h \in Handlers, AddRfcFound(h)
       PROVE  Goal
  BY <1>10 DEF AddRfcFound, At, Goto, RegisteredInv, TypeInv, TypeOK
<1>11. ASSUME NEW h \in Handlers, AddRfcPush(h)
       PROVE  Goal
  BY <1>11 DEF AddRfcPush, At, Goto, RegisteredInv, TypeInv, TypeOK
<1>12. ASSUME NEW h \in Handlers, AddRfcSort(h)
       PROVE  Goal
  BY <1>12 DEF AddRfcSort, At, Goto, RegisteredInv, TypeInv, TypeOK
<1>13. ASSUME NEW h \in Handlers, AddRfcReturn(h)
       PROVE  Goal
  BY <1>13 DEF AddRfcReturn, At, Goto, RegisteredInv, TypeInv, TypeOK
<1>14. ASSUME NEW h \in Handlers, NEW n \in Rfc \cup {None}, QueryLock(h, n)
       PROVE  Goal
  BY <1>14 DEF QueryLock, At, Goto, RegisteredInv, TypeInv, TypeOK
<1>15. ASSUME NEW h \in Handlers, QueryCopy(h)
       PROVE  Goal
  BY <1>15 DEF QueryCopy, At, Goto, RegisteredInv, TypeInv, TypeOK
<1>16. ASSUME NEW h \in Handlers, QueryReturn(h)
       PROVE  Goal
  BY <1>16 DEF QueryReturn, At, Goto, RegisteredInv, TypeInv, TypeOK
<1>17. ASSUME NEW h \in Handlers, QueryRespond(h)
       PROVE  Goal
  BY <1>17 DEF QueryRespond, At, Goto, RegisteredInv, TypeInv, TypeOK
<1>18. ASSUME NEW h \in Handlers, RemoveLock(h)
       PROVE  Goal
  BY <1>18 DEF RemoveLock, At, Goto, RegisteredInv, TypeInv, TypeOK
<1>19. ASSUME NEW h \in Handlers, RemoveErase(h)
       PROVE  Goal
  BY <1>19 DEF RemoveErase, At, Goto, RegisteredInv, TypeInv, TypeOK
<1>20. ASSUME NEW h \in Handlers, RemoveSkip(h)
       PROVE  Goal
  BY <1>20 DEF RemoveSkip, At, Goto, RegisteredInv, TypeInv, TypeOK
<1>21. ASSUME NEW h \in Handlers, RemoveUnlock(h)
       PROVE  Goal
  BY <1>21 DEF RemoveUnlock, At, Goto, RegisteredInv, TypeInv, TypeOK
<1>22. ASSUME NEW h \in Handlers, RemoveLockClients(h)
       PROVE  Goal
  BY <1>22 DEF RemoveLockClients, At, Goto, RegisteredInv, TypeInv, TypeOK
<1>23. ASSUME NEW h \in Handlers, RemoveReturn(h)
       PROVE  Goal
  <2>1. ToSet(clients') = ToSet(clients) \ {PeerOf[h]}
    <3>1. CASE PeerOf[h] \notin ToSet(clients) /\ clients' = clients
      BY <3>1
    <3>2. CASE \E i \in 1..Len(clients) :
                 clients[i] = PeerOf[h] /\ clients' = RemoveAt(clients, i)
      BY <3>2, RemoveAtRemoves DEF TypeInv, TypeOK, ListInv, NoDuplicates
    <3> QED  BY <1>23, <3>1, <3>2 DEF RemoveReturn
  <2> QED  BY <1>0, <1>23, <2>1 DEF RemoveReturn, At, Goto, RegisteredInv, TypeInv, TypeOK
<1>24. CASE UNCHANGED vars
  BY <1>24 DEF vars, RegisteredInv
<1>25. ASSUME NEW h \in Handlers, Call(h)
       PROVE  Goal
  BY <1>25 DEF Call, At, Goto, RegisteredInv, TypeInv, TypeOK
<1> QED
  BY <1>1, <1>2, <1>3, <1>4, <1>5, <1>6, <1>7, <1>8, <1>9, <1>10, <1>11, <1>12, <1>13, <1>14, <1>15, <1>16, <1>17, <1>18, <1>19, <1>20, <1>21, <1>22, <1>23, <1>24, <1>25
  DEF Next, Progress, LockRfcs

\* What was answered 200 stays listed until its own client is removed.
LEMMA AckedStep ==
  ASSUME TypeInv, Protected, ListInv, GhostInv, AckedInv, [Next]_vars
  PROVE  AckedInv'
<1> DEFINE Goal == AckedInv'
<1>0. \A g, h \in Handlers : Alone(g) /\ PeerOf[g] = PeerOf[h] => g = h
  BY DEF Alone
<1>1. ASSUME NEW h \in Handlers, AddClientLock(h)
      PROVE  Goal
  BY <1>1 DEF AddClientLock, At, Goto, AckedInv, ListedFor, TypeInv, TypeOK
<1>2. ASSUME NEW h \in Handlers, AddClientListed(h)
      PROVE  Goal
  BY <1>2 DEF AddClientListed, At, Goto, AckedInv, ListedFor, TypeInv, TypeOK
<1>3. ASSUME NEW h \in Handlers, AddClientNew(h)
      PROVE  Goal
  BY <1>3 DEF AddClientNew, At, Goto, AckedInv, ListedFor, TypeInv, TypeOK
<1>4. ASSUME NEW h \in Handlers, AddClientPush(h)
      PROVE  Goal
  BY <1>4 DEF AddClientPush, At, Goto, AckedInv, ListedFor, TypeInv, TypeOK
<1>5. ASSUME NEW h \in Handlers, NEW n \in Rfc, AddRfcLock(h, n)
      PROVE  Goal
  BY <1>5 DEF AddRfcLock, At, Goto, AckedInv, ListedFor, TypeInv, TypeOK
<1>6. ASSUME NEW h \in Handlers, AddRfcListed(h)
      PROVE  Goal
  BY <1>6 DEF AddRfcListed, At, Goto, AckedInv, ListedFor, TypeInv, TypeOK
<1>7. ASSUME NEW h \in Handlers, AddRfcNew(h)
      PROVE  Goal
  BY <1>7 DEF AddRfcNew, At, Goto, AckedInv, ListedFor, TypeInv, TypeOK
<1>8. ASSUME NEW h \in Handlers, AddRfcLockClients(h)
      PROVE  Goal
  BY <1>8 DEF AddRfcLockClients, At, Goto, AckedInv, ListedFor, TypeInv, TypeOK
<1>9. ASSUME NEW h \in Handlers, AddRfcStranger(h)
      PROVE  Goal
  BY <1>9 DEF AddRfcStranger, At, Goto, AckedInv, ListedFor, TypeInv, TypeOK
<1>10. ASSUME NEW h \in Handlers, AddRfcFound(h)
       PROVE  Goal
  BY <1>10 DEF AddRfcFound, At, Goto, AckedInv, ListedFor, TypeInv, TypeOK
<1>11. ASSUME NEW h \in Handlers, AddRfcPush(h)
       PROVE  Goal
  <2>1. HolderOf(h) \in Holder
    BY <1>11, PeerOfAssumption
    DEF AddRfcPush, At, TypeInv, AddNumber, AddRfcLabels, HolderOf, Holder, HolderOver
  <2>2. ToSet(rfcs') = ToSet(rfcs) \cup {HolderOf(h)}
    BY <1>11, <2>1, AppendPreserves DEF AddRfcPush, TypeInv, TypeOK
  <2>3. ListedFor(h)' = ListedFor(h) \cup {rfc[h]}
    BY <2>1, <2>2 DEF ListedFor, HolderOf, Holder, HolderOver, HolderOver
  <2>4. \A g \in Handlers \ {h} : Alone(g) => ListedFor(g)' = ListedFor(g)
    BY <1>0, <2>2 DEF ListedFor, HolderOf
  <2>5. /\ acked' = acked /\ rfc' = rfc
        /\ pc[h] = "rfc_push" /\ pc'[h] = "rfc_sort"
        /\ \A g \in Handlers \ {h} : pc'[g] = pc[g]
    BY <1>11 DEF AddRfcPush, At, Goto, TypeInv, TypeOK
  <2> QED  BY <2>3, <2>4, <2>5 DEF AckedInv
<1>12. ASSUME NEW h \in Handlers, AddRfcSort(h)
       PROVE  Goal
  <2>1. ToSet(rfcs') = ToSet(rfcs)
    BY <1>12, SortPreserves DEF AddRfcSort, TypeInv, TypeOK
  <2> QED  BY <1>12, <2>1 DEF AddRfcSort, At, Goto, AckedInv, ListedFor, TypeInv, TypeOK
<1>13. ASSUME NEW h \in Handlers, AddRfcReturn(h)
       PROVE  Goal
  BY <1>13 DEF AddRfcReturn, At, Goto, AckedInv, ListedFor, TypeInv, TypeOK
<1>14. ASSUME NEW h \in Handlers, NEW n \in Rfc \cup {None}, QueryLock(h, n)
       PROVE  Goal
  BY <1>14 DEF QueryLock, At, Goto, AckedInv, ListedFor, TypeInv, TypeOK
<1>15. ASSUME NEW h \in Handlers, QueryCopy(h)
       PROVE  Goal
  BY <1>15 DEF QueryCopy, At, Goto, AckedInv, ListedFor, TypeInv, TypeOK
<1>16. ASSUME NEW h \in Handlers, QueryReturn(h)
       PROVE  Goal
  BY <1>16 DEF QueryReturn, At, Goto, AckedInv, ListedFor, TypeInv, TypeOK
<1>17. ASSUME NEW h \in Handlers, QueryRespond(h)
       PROVE  Goal
  BY <1>17 DEF QueryRespond, At, Goto, AckedInv, ListedFor, TypeInv, TypeOK
<1>18. ASSUME NEW h \in Handlers, RemoveLock(h)
       PROVE  Goal
  BY <1>18 DEF RemoveLock, At, Goto, AckedInv, ListedFor, TypeInv, TypeOK
<1>19. ASSUME NEW h \in Handlers, RemoveErase(h)
       PROVE  Goal
  <2>1. it[h] \in 1..Len(rfcs) /\ rfcs' = RemoveAt(rfcs, it[h])
    BY <1>19, LenProperties DEF RemoveErase, TypeInv, TypeOK
  <2>2. ToSet(rfcs') = ToSet(rfcs) \ {rfcs[it[h]]}
    BY <2>1, RemoveAtRemoves DEF TypeInv, TypeOK, ListInv, NoDuplicates
  <2>3. \A g \in Handlers \ {h} : Alone(g) => ListedFor(g)' = ListedFor(g)
    BY <1>0, <1>19, <2>2 DEF RemoveErase, ListedFor
  <2>4. pc' = pc /\ acked' = acked /\ rfc' = rfc /\ pc[h] = "erase"
    BY <1>19 DEF RemoveErase
  <2> QED  BY <2>3, <2>4 DEF AckedInv
<1>20. ASSUME NEW h \in Handlers, RemoveSkip(h)
       PROVE  Goal
  BY <1>20 DEF RemoveSkip, At, Goto, AckedInv, ListedFor, TypeInv, TypeOK
<1>21. ASSUME NEW h \in Handlers, RemoveUnlock(h)
       PROVE  Goal
  <2>1. \A e \in ToSet(rfcs) : e.peer # PeerOf[h]
    <3>1. DOMAIN rfcs = 1..Len(rfcs) /\ Len(rfcs) \in Nat
      BY LenProperties DEF TypeInv, TypeOK
    <3>2. pc[h] = "erase" /\ it[h] > Len(rfcs) /\ it[h] \in Nat
      BY <1>21 DEF RemoveUnlock, At, TypeInv, TypeOK
    <3>3. \A j \in 1..Len(rfcs) : j < it[h] => rfcs[j].peer # PeerOf[h]
      BY <3>2 DEF GhostInv, EraseInv
    <3>4. \A j \in 1..Len(rfcs) : rfcs[j].peer # PeerOf[h]
      BY <3>1, <3>2, <3>3
    <3> QED  BY <3>1, <3>4 DEF ToSet
  <2>2. ListedFor(h)' = {}
    BY <1>21, <2>1 DEF RemoveUnlock, ListedFor
  <2>3. \A g \in Handlers : ListedFor(g)' = ListedFor(g)
    BY <1>21 DEF RemoveUnlock, ListedFor
  <2>4. /\ acked' = acked /\ rfc' = rfc
        /\ pc[h] = "erase" /\ pc'[h] = "leave"
        /\ \A g \in Handlers \ {h} : pc'[g] = pc[g]
    BY <1>21 DEF RemoveUnlock, At, Goto, TypeInv, TypeOK
  <2> QED  BY <2>2, <2>3, <2>4 DEF AckedInv
<1>22. ASSUME NEW h \in Handlers, RemoveLockClients(h)
       PROVE  Goal
  BY <1>22 DEF RemoveLockClients, At, Goto, AckedInv, ListedFor, TypeInv, TypeOK
<1>23. ASSUME NEW h \in Handlers, RemoveReturn(h)
       PROVE  Goal
  BY <1>23 DEF RemoveReturn, At, Goto, AckedInv, ListedFor, TypeInv, TypeOK
<1>24. CASE UNCHANGED vars
  BY <1>24 DEF vars, AckedInv, ListedFor
<1>25. ASSUME NEW h \in Handlers, Call(h)
       PROVE  Goal
  BY <1>25 DEF Call, At, Goto, AckedInv, ListedFor, TypeInv, TypeOK
<1> QED
  BY <1>1, <1>2, <1>3, <1>4, <1>5, <1>6, <1>7, <1>8, <1>9, <1>10, <1>11, <1>12, <1>13, <1>14, <1>15, <1>16, <1>17, <1>18, <1>19, <1>20, <1>21, <1>22, <1>23, <1>24, <1>25
  DEF Next, Progress, LockRfcs

\* The lists agree with the answers given in every reachable state.
LEMMA RegisteredInvariant == Spec => [](RegisteredInv /\ AckedInv)
<1>1. Init => RegisteredInv /\ AckedInv
  BY InitRegistered
<1>2. TypeInv /\ Protected /\ ListInv /\ GhostInv /\ (RegisteredInv /\ AckedInv)
        /\ [Next]_vars => (RegisteredInv /\ AckedInv)'
  BY RegisteredStep, AckedStep
<1> QED  BY <1>1, <1>2, TypeInvariant, MutexesProtect, ListInvariant, GhostInvariant,
            PTL DEF Spec

\* A client whose name no other connection gives is listed while anything is
\* listed for it.
THEOREM HoldersAreRegistered == Spec => []HoldersRegistered
<1>1. GhostInv /\ RegisteredInv => HoldersRegistered
  BY DEF GhostInv, NoGhosts, RegisteredInv, HoldersRegistered, Alone
<1> QED  BY <1>1, GhostInvariant, RegisteredInvariant, PTL

\* A connected client whose name no other connection gives is listed under the
\* numbers it was answered 200 for, and under no other.
THEOREM AcknowledgedIsListed == Spec => []AckedIsListed
<1>1. RegisteredInv /\ AckedInv => AckedIsListed
  BY DEF RegisteredInv, AckedInv, ListedFor, AckedIsListed
<1> QED  BY <1>1, RegisteredInvariant, PTL

(***************************************************************************)
(* Queries                                                                 *)
(***************************************************************************)

\* What a query has met so far of what it wants.
Copied(h) ==
  { rfcs[j] : j \in { k \in 1..Len(rfcs) : k < it[h] /\ Wanted(rfcs[k], rfc[h]) } }

CopyInv ==
  \A h \in Handlers :
    /\ pc[h] \in {"copy", "respond"} => InOrder(l[h]) /\ IsInjective(l[h])
    /\ pc[h] = "copy" => ToSet(l[h]) = Copied(h)
    /\ pc[h] \notin {"copy", "respond"} => l[h] = <<>>

\* At start no query has copied anything.
LEMMA InitCopy == Init => CopyInv
  BY DEF Init, CopyInv

\* Appending the next element of an ordered list keeps the copy in order.
LEMMA CopyNext ==
  ASSUME NEW S, NEW s \in Seq(S), NEW t \in Seq(S), NEW i \in 1..Len(s),
         InOrder(s), IsInjective(s), InOrder(t), IsInjective(t),
         \A e \in ToSet(t) : \E j \in 1..Len(s) : j < i /\ e = s[j]
  PROVE  InOrder(Append(t, s[i])) /\ IsInjective(Append(t, s[i]))
<1> DEFINE u == Append(t, s[i])
<1>1. /\ DOMAIN s = 1..Len(s) /\ DOMAIN t = 1..Len(t)
      /\ Len(s) \in Nat /\ Len(t) \in Nat
      /\ s[i] \in S
  BY LenProperties, ElementOfSeq
<1>2. /\ Len(u) = Len(t) + 1
      /\ \A j \in 1..Len(t) : u[j] = t[j]
      /\ u[Len(t) + 1] = s[i]
  BY <1>1, AppendProperties
<1>3. \A j \in 1..Len(t) : \E k \in 1..Len(s) : k < i /\ t[j] = s[k]
  BY <1>1 DEF ToSet
<1> HIDE DEF u
<1>4. InOrder(u)
  <2> SUFFICES ASSUME NEW j \in 1..Len(u), NEW k \in 1..Len(u), j < k
               PROVE  ~Before(u[k], u[j])
    BY DEF InOrder
  <2>1. CASE k <= Len(t)
    BY <1>1, <1>2, <2>1 DEF InOrder
  <2>2. CASE k = Len(t) + 1
    <3>1. j \in 1..Len(t) /\ u[j] = t[j] /\ u[k] = s[i]
      BY <1>1, <1>2, <2>2
    <3>2. PICK m \in 1..Len(s) : m < i /\ t[j] = s[m]
      BY <1>3, <3>1
    <3> QED  BY <3>1, <3>2 DEF InOrder
  <2> QED  BY <1>1, <1>2, <2>1, <2>2
<1>5. IsInjective(u)
  <2>1. s[i] \notin ToSet(t)
    BY <1>1 DEF IsInjective
  <2> QED  BY <1>1, <2>1, AppendPreserves DEF u
<1> QED  BY <1>4, <1>5 DEF u

\* A query only extends its copy, by the elements its iterator passes.
LEMMA CopyStep ==
  ASSUME TypeInv, Protected, ListInv, CopyInv, [Next]_vars
  PROVE  CopyInv'
<1> DEFINE Goal == CopyInv'
<1>1. ASSUME NEW h \in Handlers, AddClientLock(h)
      PROVE  Goal
  BY <1>1 DEF AddClientLock, At, Goto, CopyInv, Copied, TypeInv, TypeOK
<1>2. ASSUME NEW h \in Handlers, AddClientListed(h)
      PROVE  Goal
  BY <1>2 DEF AddClientListed, At, Goto, CopyInv, Copied, TypeInv, TypeOK
<1>3. ASSUME NEW h \in Handlers, AddClientNew(h)
      PROVE  Goal
  BY <1>3 DEF AddClientNew, At, Goto, CopyInv, Copied, TypeInv, TypeOK
<1>4. ASSUME NEW h \in Handlers, AddClientPush(h)
      PROVE  Goal
  BY <1>4 DEF AddClientPush, At, Goto, CopyInv, Copied, TypeInv, TypeOK
<1>5. ASSUME NEW h \in Handlers, NEW n \in Rfc, AddRfcLock(h, n)
      PROVE  Goal
  BY <1>5 DEF AddRfcLock, At, Goto, CopyInv, Copied, TypeInv, TypeOK
<1>6. ASSUME NEW h \in Handlers, AddRfcListed(h)
      PROVE  Goal
  BY <1>6 DEF AddRfcListed, At, Goto, CopyInv, Copied, TypeInv, TypeOK
<1>7. ASSUME NEW h \in Handlers, AddRfcNew(h)
      PROVE  Goal
  BY <1>7 DEF AddRfcNew, At, Goto, CopyInv, Copied, TypeInv, TypeOK
<1>8. ASSUME NEW h \in Handlers, AddRfcLockClients(h)
      PROVE  Goal
  BY <1>8 DEF AddRfcLockClients, At, Goto, CopyInv, Copied, TypeInv, TypeOK
<1>9. ASSUME NEW h \in Handlers, AddRfcStranger(h)
      PROVE  Goal
  BY <1>9 DEF AddRfcStranger, At, Goto, CopyInv, Copied, TypeInv, TypeOK
<1>10. ASSUME NEW h \in Handlers, AddRfcFound(h)
       PROVE  Goal
  BY <1>10 DEF AddRfcFound, At, Goto, CopyInv, Copied, TypeInv, TypeOK
<1>11. ASSUME NEW h \in Handlers, AddRfcPush(h)
       PROVE  Goal
  <2>1. \A g \in Handlers : pc[g] # "copy" /\ pc'[g] # "copy"
    BY <1>11, OneInside DEF AddRfcPush, At, Goto, InRfcs, TypeInv, TypeOK
  <2> QED  BY <1>11, <2>1 DEF AddRfcPush, At, Goto, CopyInv, TypeInv, TypeOK
<1>12. ASSUME NEW h \in Handlers, AddRfcSort(h)
       PROVE  Goal
  <2>1. \A g \in Handlers : pc[g] # "copy" /\ pc'[g] # "copy"
    BY <1>12, OneInside DEF AddRfcSort, At, Goto, InRfcs, TypeInv, TypeOK
  <2> QED  BY <1>12, <2>1 DEF AddRfcSort, At, Goto, CopyInv, TypeInv, TypeOK
<1>13. ASSUME NEW h \in Handlers, AddRfcReturn(h)
       PROVE  Goal
  BY <1>13 DEF AddRfcReturn, At, Goto, CopyInv, Copied, TypeInv, TypeOK
<1>14. ASSUME NEW h \in Handlers, NEW n \in Rfc \cup {None}, QueryLock(h, n)
       PROVE  Goal
  <2>1. /\ pc[h] = "rfcs_wait" /\ pc'[h] = "copy" /\ l' = l /\ rfcs' = rfcs /\ it'[h] = 1
        /\ \A g \in Handlers \ {h} : pc'[g] = pc[g] /\ it'[g] = it[g] /\ rfc'[g] = rfc[g]
    BY <1>14 DEF QueryLock, At, Goto, TypeInv, TypeOK
  <2>2. ToSet(l'[h]) = {} /\ InOrder(l'[h]) /\ IsInjective(l'[h])
    BY <2>1 DEF CopyInv, ToSet, InOrder, IsInjective
  <2>3. Copied(h)' = {}
    BY <2>1, LenProperties DEF Copied, TypeInv, TypeOK
  <2> QED  BY <2>1, <2>2, <2>3 DEF CopyInv, Copied
<1>15. ASSUME NEW h \in Handlers, QueryCopy(h)
       PROVE  Goal
  <2>1. /\ it[h] \in 1..Len(rfcs) /\ Len(rfcs) \in Nat
        /\ InOrder(rfcs) /\ IsInjective(rfcs)
    <3>1. \A g \in Handlers : pc[g] # "rfc_sort"
      BY <1>15, OneInside DEF QueryCopy, InRfcs
    <3> QED  BY <1>15, <3>1, LenProperties
             DEF QueryCopy, ListInv, NoDuplicates, SortedUnlessSorting, TypeInv, TypeOK
  <2>2. /\ pc[h] = "copy" /\ pc' = pc /\ rfc' = rfc /\ rfcs' = rfcs
        /\ it'[h] = it[h] + 1
        /\ \A g \in Handlers \ {h} : l'[g] = l[g] /\ it'[g] = it[g]
    BY <1>15 DEF QueryCopy, TypeInv, TypeOK
  <2>3. l[h] \in Seq(Holder) /\ ToSet(l[h]) = Copied(h) /\ InOrder(l[h]) /\ IsInjective(l[h])
    BY <2>2 DEF CopyInv, TypeInv, TypeOK
  <2>4. \A g \in Handlers \ {h} : Copied(g)' = Copied(g)
    BY <2>2 DEF Copied, Wanted
  <2>5. CASE Wanted(rfcs[it[h]], rfc[h])
    <3>1. l'[h] = Append(l[h], rfcs[it[h]])
      BY <1>15, <2>5 DEF QueryCopy, TypeInv, TypeOK
    <3>2. InOrder(l'[h]) /\ IsInjective(l'[h])
      <4>1. \A e \in ToSet(l[h]) : \E j \in 1..Len(rfcs) : j < it[h] /\ e = rfcs[j]
        BY <2>3 DEF Copied
      <4>2. rfcs \in Seq(Holder)
        BY DEF TypeInv, TypeOK
      <4>3. InOrder(Append(l[h], rfcs[it[h]])) /\ IsInjective(Append(l[h], rfcs[it[h]]))
        BY <2>1, <2>3, <4>1, <4>2, CopyNext
      <4> QED  BY <3>1, <4>3
    <3>3. ToSet(l'[h]) = ToSet(l[h]) \cup {rfcs[it[h]]}
      BY <2>1, <2>3, <3>1, ElementOfSeq, AppendPreserves DEF TypeInv, TypeOK
    <3>4. Copied(h)' = Copied(h) \cup {rfcs[it[h]]}
      <4> DEFINE met(i) == { k \in 1..Len(rfcs) : k < i /\ Wanted(rfcs[k], rfc[h]) }
      <4>1. met(it[h] + 1) = met(it[h]) \cup {it[h]}
        BY <2>1, <2>5
      <4>2. Copied(h)' = { rfcs[j] : j \in met(it[h] + 1) }
        BY <2>2 DEF Copied, Wanted
      <4>3. Copied(h) = { rfcs[j] : j \in met(it[h]) }
        BY DEF Copied
      <4> HIDE DEF met
      <4> QED  BY <4>1, <4>2, <4>3
    <3>5. ToSet(l[h])' = Copied(h)'
      BY <2>3, <3>3, <3>4
    <3> QED  BY <2>2, <2>4, <3>2, <3>5 DEF CopyInv
  <2>6. CASE ~Wanted(rfcs[it[h]], rfc[h])
    <3>1. l'[h] = l[h]
      BY <1>15, <2>6 DEF QueryCopy
    <3>2. Copied(h)' = Copied(h)
      <4> DEFINE met(i) == { k \in 1..Len(rfcs) : k < i /\ Wanted(rfcs[k], rfc[h]) }
      <4>1. met(it[h] + 1) = met(it[h])
        BY <2>1, <2>6
      <4>2. Copied(h)' = { rfcs[j] : j \in met(it[h] + 1) }
        BY <2>2 DEF Copied, Wanted
      <4>3. Copied(h) = { rfcs[j] : j \in met(it[h]) }
        BY DEF Copied
      <4> HIDE DEF met
      <4> QED  BY <4>1, <4>2, <4>3
    <3>3. ToSet(l[h])' = Copied(h)' /\ InOrder(l'[h]) /\ IsInjective(l'[h])
      BY <2>3, <3>1, <3>2
    <3> QED  BY <2>2, <2>4, <3>3 DEF CopyInv
  <2> QED  BY <2>5, <2>6
<1>16. ASSUME NEW h \in Handlers, QueryReturn(h)
       PROVE  Goal
  BY <1>16 DEF QueryReturn, At, Goto, CopyInv, Copied, TypeInv, TypeOK
<1>17. ASSUME NEW h \in Handlers, QueryRespond(h)
       PROVE  Goal
  BY <1>17 DEF QueryRespond, At, Goto, CopyInv, Copied, TypeInv, TypeOK
<1>18. ASSUME NEW h \in Handlers, RemoveLock(h)
       PROVE  Goal
  BY <1>18 DEF RemoveLock, At, Goto, CopyInv, Copied, TypeInv, TypeOK
<1>19. ASSUME NEW h \in Handlers, RemoveErase(h)
       PROVE  Goal
  <2>1. \A g \in Handlers : pc[g] # "copy" /\ pc'[g] # "copy"
    BY <1>19, OneInside DEF RemoveErase, At, Goto, InRfcs, TypeInv, TypeOK
  <2> QED  BY <1>19, <2>1 DEF RemoveErase, At, Goto, CopyInv, TypeInv, TypeOK
<1>20. ASSUME NEW h \in Handlers, RemoveSkip(h)
       PROVE  Goal
  BY <1>20 DEF RemoveSkip, At, Goto, CopyInv, Copied, TypeInv, TypeOK
<1>21. ASSUME NEW h \in Handlers, RemoveUnlock(h)
       PROVE  Goal
  BY <1>21 DEF RemoveUnlock, At, Goto, CopyInv, Copied, TypeInv, TypeOK
<1>22. ASSUME NEW h \in Handlers, RemoveLockClients(h)
       PROVE  Goal
  BY <1>22 DEF RemoveLockClients, At, Goto, CopyInv, Copied, TypeInv, TypeOK
<1>23. ASSUME NEW h \in Handlers, RemoveReturn(h)
       PROVE  Goal
  BY <1>23 DEF RemoveReturn, At, Goto, CopyInv, Copied, TypeInv, TypeOK
<1>24. CASE UNCHANGED vars
  BY <1>24 DEF vars, CopyInv, Copied
<1>25. ASSUME NEW h \in Handlers, Call(h)
       PROVE  Goal
  BY <1>25 DEF Call, At, Goto, CopyInv, Copied, TypeInv, TypeOK
<1> QED
  BY <1>1, <1>2, <1>3, <1>4, <1>5, <1>6, <1>7, <1>8, <1>9, <1>10, <1>11, <1>12, <1>13, <1>14, <1>15, <1>16, <1>17, <1>18, <1>19, <1>20, <1>21, <1>22, <1>23, <1>24, <1>25
  DEF Next, Progress, LockRfcs

\* A copy under way is what the iterator has met of the wanted elements.
LEMMA CopyInvariant == Spec => []CopyInv
<1>1. Init => CopyInv
  BY InitCopy
<1>2. TypeInv /\ Protected /\ ListInv /\ CopyInv /\ [Next]_vars => CopyInv'
  BY CopyStep
<1> QED  BY <1>1, <1>2, TypeInvariant, MutexesProtect, ListInvariant, PTL DEF Spec

\* A query that has reached the end of the list has met all of it.
LEMMA CopiedAll ==
  ASSUME TypeInv, CopyInv, NEW h \in Handlers, pc[h] = "copy", it[h] > Len(rfcs)
  PROVE  ToSet(l[h]) = { e \in ToSet(rfcs) : Wanted(e, rfc[h]) }
<1>1. DOMAIN rfcs = 1..Len(rfcs) /\ Len(rfcs) \in Nat /\ it[h] \in Nat
  BY LenProperties DEF TypeInv, TypeOK
<1>2. \A k \in 1..Len(rfcs) : k < it[h]
  BY <1>1
<1>3. Copied(h) = { e \in ToSet(rfcs) : Wanted(e, rfc[h]) }
  BY <1>1, <1>2 DEF Copied, ToSet
<1> QED  BY <1>3 DEF CopyInv

\* A query returns one instant's matching elements, in order and once each.
THEOREM QueriesAreSnapshots == Spec => []QueryIsSnapshot
<1>1. TypeInv /\ CopyInv => QueryIsSnapshot
  BY CopiedAll DEF CopyInv, QueryIsSnapshot
<1> QED  BY <1>1, TypeInvariant, CopyInvariant, PTL

(***************************************************************************)
(* The service                                                             *)
(***************************************************************************)

\* clients_mut keeps the client add_rfc has found in the list.
FoundInv == \A h \in Handlers : pc[h] = "rfc_push" => PeerOf[h] \in ToSet(clients)

\* Nothing is removed from clients while add_rfc is about to use what it found.
LEMMA FoundStep ==
  ASSUME TypeInv, Protected, FoundInv, [Next]_vars
  PROVE  FoundInv'
<1> DEFINE Goal == FoundInv'
<1>1. ASSUME NEW h \in Handlers, AddClientLock(h)
      PROVE  Goal
  BY <1>1 DEF AddClientLock, At, Goto, FoundInv, TypeInv, TypeOK
<1>2. ASSUME NEW h \in Handlers, AddClientListed(h)
      PROVE  Goal
  BY <1>2 DEF AddClientListed, At, Goto, FoundInv, TypeInv, TypeOK
<1>3. ASSUME NEW h \in Handlers, AddClientNew(h)
      PROVE  Goal
  BY <1>3 DEF AddClientNew, At, Goto, FoundInv, TypeInv, TypeOK
<1>4. ASSUME NEW h \in Handlers, AddClientPush(h)
      PROVE  Goal
  <2>1. \A g \in Handlers : pc'[g] # "rfc_push"
    BY <1>4, OneInside DEF AddClientPush, At, Goto, InClients, TypeInv, TypeOK
  <2> QED  BY <2>1 DEF FoundInv
<1>5. ASSUME NEW h \in Handlers, NEW n \in Rfc, AddRfcLock(h, n)
      PROVE  Goal
  BY <1>5 DEF AddRfcLock, At, Goto, FoundInv, TypeInv, TypeOK
<1>6. ASSUME NEW h \in Handlers, AddRfcListed(h)
      PROVE  Goal
  BY <1>6 DEF AddRfcListed, At, Goto, FoundInv, TypeInv, TypeOK
<1>7. ASSUME NEW h \in Handlers, AddRfcNew(h)
      PROVE  Goal
  BY <1>7 DEF AddRfcNew, At, Goto, FoundInv, TypeInv, TypeOK
<1>8. ASSUME NEW h \in Handlers, AddRfcLockClients(h)
      PROVE  Goal
  BY <1>8 DEF AddRfcLockClients, At, Goto, FoundInv, TypeInv, TypeOK
<1>9. ASSUME NEW h \in Handlers, AddRfcStranger(h)
      PROVE  Goal
  BY <1>9 DEF AddRfcStranger, At, Goto, FoundInv, TypeInv, TypeOK
<1>10. ASSUME NEW h \in Handlers, AddRfcFound(h)
       PROVE  Goal
  BY <1>10 DEF AddRfcFound, At, Goto, FoundInv, TypeInv, TypeOK
<1>11. ASSUME NEW h \in Handlers, AddRfcPush(h)
       PROVE  Goal
  BY <1>11 DEF AddRfcPush, At, Goto, FoundInv, TypeInv, TypeOK
<1>12. ASSUME NEW h \in Handlers, AddRfcSort(h)
       PROVE  Goal
  BY <1>12 DEF AddRfcSort, At, Goto, FoundInv, TypeInv, TypeOK
<1>13. ASSUME NEW h \in Handlers, AddRfcReturn(h)
       PROVE  Goal
  BY <1>13 DEF AddRfcReturn, At, Goto, FoundInv, TypeInv, TypeOK
<1>14. ASSUME NEW h \in Handlers, NEW n \in Rfc \cup {None}, QueryLock(h, n)
       PROVE  Goal
  BY <1>14 DEF QueryLock, At, Goto, FoundInv, TypeInv, TypeOK
<1>15. ASSUME NEW h \in Handlers, QueryCopy(h)
       PROVE  Goal
  BY <1>15 DEF QueryCopy, At, Goto, FoundInv, TypeInv, TypeOK
<1>16. ASSUME NEW h \in Handlers, QueryReturn(h)
       PROVE  Goal
  BY <1>16 DEF QueryReturn, At, Goto, FoundInv, TypeInv, TypeOK
<1>17. ASSUME NEW h \in Handlers, QueryRespond(h)
       PROVE  Goal
  BY <1>17 DEF QueryRespond, At, Goto, FoundInv, TypeInv, TypeOK
<1>18. ASSUME NEW h \in Handlers, RemoveLock(h)
       PROVE  Goal
  BY <1>18 DEF RemoveLock, At, Goto, FoundInv, TypeInv, TypeOK
<1>19. ASSUME NEW h \in Handlers, RemoveErase(h)
       PROVE  Goal
  BY <1>19 DEF RemoveErase, At, Goto, FoundInv, TypeInv, TypeOK
<1>20. ASSUME NEW h \in Handlers, RemoveSkip(h)
       PROVE  Goal
  BY <1>20 DEF RemoveSkip, At, Goto, FoundInv, TypeInv, TypeOK
<1>21. ASSUME NEW h \in Handlers, RemoveUnlock(h)
       PROVE  Goal
  BY <1>21 DEF RemoveUnlock, At, Goto, FoundInv, TypeInv, TypeOK
<1>22. ASSUME NEW h \in Handlers, RemoveLockClients(h)
       PROVE  Goal
  BY <1>22 DEF RemoveLockClients, At, Goto, FoundInv, TypeInv, TypeOK
<1>23. ASSUME NEW h \in Handlers, RemoveReturn(h)
       PROVE  Goal
  <2>1. \A g \in Handlers : pc'[g] # "rfc_push"
    BY <1>23, OneInside DEF RemoveReturn, At, Goto, InClients, TypeInv, TypeOK
  <2> QED  BY <2>1 DEF FoundInv
<1>24. CASE UNCHANGED vars
  BY <1>24 DEF vars, FoundInv
<1>25. ASSUME NEW h \in Handlers, Call(h)
       PROVE  Goal
  BY <1>25 DEF Call, At, Goto, FoundInv, TypeInv, TypeOK
<1> QED
  BY <1>1, <1>2, <1>3, <1>4, <1>5, <1>6, <1>7, <1>8, <1>9, <1>10, <1>11, <1>12, <1>13, <1>14, <1>15, <1>16, <1>17, <1>18, <1>19, <1>20, <1>21, <1>22, <1>23, <1>24, <1>25
  DEF Next, Progress, LockRfcs

\* Hence the client add_rfc has found is still listed when it is used.
LEMMA FoundInvariant == Spec => []FoundInv
<1>1. Init => FoundInv
  BY DEF Init, FoundInv
<1>2. TypeInv /\ Protected /\ FoundInv /\ [Next]_vars => FoundInv'
  BY FoundStep
<1> QED  BY <1>1, <1>2, TypeInvariant, MutexesProtect, PTL DEF Spec

\* What the service sees of the copies.
Replies == [h \in Handlers |-> IF pc[h] = "respond" THEN ToSet(l[h]) ELSE {}]

\* The index starts as the service does.
LEMMA InitService == Init => Service!Init
  BY DEF Init, Service!Init, VisibleHolders, ToSet

\* Every statement is an operation of the service, or changes nothing it shows.
LEMMA ServiceStep ==
  ASSUME TypeInv, Protected, ListInv, GhostInv, CopyInv, FoundInv, [Next]_vars
  PROVE  [Service!Next]_(Service!vars)
<1> DEFINE Goal == [Service!Next]_(Service!vars)
<1> USE DEF Replies
<1>s. ASSUME ToSet(clients)' = ToSet(clients), VisibleHolders' = VisibleHolders,
             Replies' = Replies
      PROVE  Goal
  BY <1>s DEF Service!vars
<1>1. ASSUME NEW h \in Handlers, AddClientLock(h)
      PROVE  Goal
  <2>1. ToSet(clients)' = ToSet(clients) /\ VisibleHolders' = VisibleHolders
    BY <1>1 DEF AddClientLock, At, Goto, VisibleHolders, TypeInv, TypeOK
  <2>2. Replies' = Replies
    BY <1>1 DEF AddClientLock, At, Goto, TypeInv, TypeOK
  <2> QED  BY <1>s, <2>1, <2>2
<1>2. ASSUME NEW h \in Handlers, AddClientListed(h)
      PROVE  Goal
  <2>1. ToSet(clients)' = ToSet(clients) /\ VisibleHolders' = VisibleHolders
    BY <1>2 DEF AddClientListed, At, Goto, VisibleHolders, TypeInv, TypeOK
  <2>2. Replies' = Replies
    BY <1>2 DEF AddClientListed, At, Goto, TypeInv, TypeOK
  <2> QED  BY <1>s, <2>1, <2>2
<1>3. ASSUME NEW h \in Handlers, AddClientNew(h)
      PROVE  Goal
  <2>1. ToSet(clients)' = ToSet(clients) /\ VisibleHolders' = VisibleHolders
    BY <1>3 DEF AddClientNew, At, Goto, VisibleHolders, TypeInv, TypeOK
  <2>2. Replies' = Replies
    BY <1>3 DEF AddClientNew, At, Goto, TypeInv, TypeOK
  <2> QED  BY <1>s, <2>1, <2>2
<1>4. ASSUME NEW h \in Handlers, AddClientPush(h)
      PROVE  Goal
  <2>1. ToSet(clients)' = ToSet(clients) \cup {PeerOf[h]}
    BY <1>4, PeerOfAssumption, AppendPreserves DEF AddClientPush, TypeInv, TypeOK
  <2>2. VisibleHolders' = VisibleHolders
    BY <1>4 DEF AddClientPush, At, Goto, VisibleHolders, TypeInv, TypeOK
  <2>3. Replies' = Replies
    BY <1>4 DEF AddClientPush, At, Goto, TypeInv, TypeOK
  <2>4. Service!Register(h)
    BY <2>1, <2>2, <2>3 DEF Service!Register
  <2> QED  BY <2>4 DEF Service!Next
<1>5. ASSUME NEW h \in Handlers, NEW n \in Rfc, AddRfcLock(h, n)
      PROVE  Goal
  <2>1. ToSet(clients)' = ToSet(clients) /\ VisibleHolders' = VisibleHolders
    BY <1>5 DEF AddRfcLock, At, Goto, VisibleHolders, TypeInv, TypeOK
  <2>2. Replies' = Replies
    BY <1>5 DEF AddRfcLock, At, Goto, TypeInv, TypeOK
  <2> QED  BY <1>s, <2>1, <2>2
<1>6. ASSUME NEW h \in Handlers, AddRfcListed(h)
      PROVE  Goal
  <2>1. ToSet(clients)' = ToSet(clients) /\ VisibleHolders' = VisibleHolders
    BY <1>6 DEF AddRfcListed, At, Goto, VisibleHolders, TypeInv, TypeOK
  <2>2. Replies' = Replies
    BY <1>6 DEF AddRfcListed, At, Goto, TypeInv, TypeOK
  <2> QED  BY <1>s, <2>1, <2>2
<1>7. ASSUME NEW h \in Handlers, AddRfcNew(h)
      PROVE  Goal
  <2>1. ToSet(clients)' = ToSet(clients) /\ VisibleHolders' = VisibleHolders
    BY <1>7 DEF AddRfcNew, At, Goto, VisibleHolders, TypeInv, TypeOK
  <2>2. Replies' = Replies
    BY <1>7 DEF AddRfcNew, At, Goto, TypeInv, TypeOK
  <2> QED  BY <1>s, <2>1, <2>2
<1>8. ASSUME NEW h \in Handlers, AddRfcLockClients(h)
      PROVE  Goal
  <2>1. ToSet(clients)' = ToSet(clients) /\ VisibleHolders' = VisibleHolders
    BY <1>8 DEF AddRfcLockClients, At, Goto, VisibleHolders, TypeInv, TypeOK
  <2>2. Replies' = Replies
    BY <1>8 DEF AddRfcLockClients, At, Goto, TypeInv, TypeOK
  <2> QED  BY <1>s, <2>1, <2>2
<1>9. ASSUME NEW h \in Handlers, AddRfcStranger(h)
      PROVE  Goal
  <2>1. ToSet(clients)' = ToSet(clients) /\ VisibleHolders' = VisibleHolders
    BY <1>9 DEF AddRfcStranger, At, Goto, VisibleHolders, TypeInv, TypeOK
  <2>2. Replies' = Replies
    BY <1>9 DEF AddRfcStranger, At, Goto, TypeInv, TypeOK
  <2> QED  BY <1>s, <2>1, <2>2
<1>10. ASSUME NEW h \in Handlers, AddRfcFound(h)
       PROVE  Goal
  <2>1. ToSet(clients)' = ToSet(clients) /\ VisibleHolders' = VisibleHolders
    BY <1>10 DEF AddRfcFound, At, Goto, VisibleHolders, TypeInv, TypeOK
  <2>2. Replies' = Replies
    BY <1>10 DEF AddRfcFound, At, Goto, TypeInv, TypeOK
  <2> QED  BY <1>s, <2>1, <2>2
<1>11. ASSUME NEW h \in Handlers, AddRfcPush(h)
       PROVE  Goal
  <2>1. HolderOf(h) \in Holder
    BY <1>11, PeerOfAssumption
    DEF AddRfcPush, At, TypeInv, AddNumber, AddRfcLabels, HolderOf, Holder, HolderOver
  <2>2. ToSet(rfcs)' = ToSet(rfcs) \cup {HolderOf(h)}
    BY <1>11, <2>1, AppendPreserves DEF AddRfcPush, TypeInv, TypeOK
  <2>3. \A g \in Handlers : pc[g] # "erase" /\ pc'[g] # "erase"
    BY <1>11, OneInside DEF AddRfcPush, At, Goto, InRfcs, TypeInv, TypeOK
  <2>4. VisibleHolders' = VisibleHolders \cup {HolderOf(h)}
    BY <2>2, <2>3 DEF VisibleHolders
  <2>5. ToSet(clients)' = ToSet(clients) /\ PeerOf[h] \in ToSet(clients)
    BY <1>11 DEF AddRfcPush, At, FoundInv
  <2>6. Replies' = Replies
    BY <1>11 DEF AddRfcPush, At, Goto, TypeInv, TypeOK
  <2>7. rfc[h] \in Rfc
    BY <2>1 DEF HolderOf, Holder, HolderOver
  <2>8. Service!Announce(h, rfc[h])
    BY <2>4, <2>5, <2>6 DEF Service!Announce, HolderOf
  <2> QED  BY <2>7, <2>8 DEF Service!Next
<1>12. ASSUME NEW h \in Handlers, AddRfcSort(h)
       PROVE  Goal
  <2>1. ToSet(rfcs)' = ToSet(rfcs)
    BY <1>12, SortPreserves DEF AddRfcSort, TypeInv, TypeOK
  <2>2. ToSet(clients)' = ToSet(clients) /\ VisibleHolders' = VisibleHolders
    BY <1>12, <2>1 DEF AddRfcSort, At, Goto, VisibleHolders, TypeInv, TypeOK
  <2>3. Replies' = Replies
    BY <1>12 DEF AddRfcSort, At, Goto, TypeInv, TypeOK
  <2> QED  BY <1>s, <2>2, <2>3
<1>13. ASSUME NEW h \in Handlers, AddRfcReturn(h)
       PROVE  Goal
  <2>1. ToSet(clients)' = ToSet(clients) /\ VisibleHolders' = VisibleHolders
    BY <1>13 DEF AddRfcReturn, At, Goto, VisibleHolders, TypeInv, TypeOK
  <2>2. Replies' = Replies
    BY <1>13 DEF AddRfcReturn, At, Goto, TypeInv, TypeOK
  <2> QED  BY <1>s, <2>1, <2>2
<1>14. ASSUME NEW h \in Handlers, NEW n \in Rfc \cup {None}, QueryLock(h, n)
       PROVE  Goal
  <2>1. ToSet(clients)' = ToSet(clients) /\ VisibleHolders' = VisibleHolders
    BY <1>14 DEF QueryLock, At, Goto, VisibleHolders, TypeInv, TypeOK
  <2>2. Replies' = Replies
    BY <1>14 DEF QueryLock, At, Goto, TypeInv, TypeOK
  <2> QED  BY <1>s, <2>1, <2>2
<1>15. ASSUME NEW h \in Handlers, QueryCopy(h)
       PROVE  Goal
  <2>1. ToSet(clients)' = ToSet(clients) /\ VisibleHolders' = VisibleHolders
    BY <1>15 DEF QueryCopy, At, Goto, VisibleHolders, TypeInv, TypeOK
  <2>2. Replies' = Replies
    BY <1>15 DEF QueryCopy, At, Goto, TypeInv, TypeOK
  <2> QED  BY <1>s, <2>1, <2>2
<1>16. ASSUME NEW h \in Handlers, QueryReturn(h)
       PROVE  Goal
  <2>1. \A g \in Handlers : pc[g] # "erase" /\ pc'[g] # "erase"
    BY <1>16, OneInside DEF QueryReturn, At, Goto, InRfcs, TypeInv, TypeOK
  <2>2. /\ ToSet(clients)' = ToSet(clients)
        /\ VisibleHolders = ToSet(rfcs) /\ VisibleHolders' = ToSet(rfcs)
    BY <1>16, <2>1 DEF QueryReturn, VisibleHolders
  <2>3. ToSet(l[h]) = { e \in VisibleHolders : rfc[h] = None \/ e.rfc = rfc[h] }
    BY <1>16, <2>2, CopiedAll DEF QueryReturn, At, Wanted
  <2>4. Replies' = [Replies EXCEPT ![h] = ToSet(l[h])]
    BY <1>16 DEF QueryReturn, At, Goto, TypeInv, TypeOK
  <2>5. PICK n \in Rfc \cup {None} : n = rfc[h]
    BY DEF TypeInv, TypeOK
  <2>6. Service!Query(h, n)
    BY <2>2, <2>3, <2>4, <2>5 DEF Service!Query
  <2> QED  BY <2>6 DEF Service!Next
<1>17. ASSUME NEW h \in Handlers, QueryRespond(h)
       PROVE  Goal
  <2>1. ToSet(clients)' = ToSet(clients) /\ VisibleHolders' = VisibleHolders
    BY <1>17 DEF QueryRespond, At, Goto, VisibleHolders, TypeInv, TypeOK
  <2>2. Replies' = [Replies EXCEPT ![h] = {}]
    BY <1>17 DEF QueryRespond, At, Goto, TypeInv, TypeOK
  <2>3. Service!Respond(h)
    BY <2>1, <2>2 DEF Service!Respond
  <2> QED  BY <2>3 DEF Service!Next
<1>18. ASSUME NEW h \in Handlers, RemoveLock(h)
       PROVE  Goal
  <2>1. /\ \A g \in Handlers : pc[g] # "erase"
        /\ \A g \in Handlers : pc'[g] = "erase" <=> g = h
        /\ clients' = clients /\ rfcs' = rfcs
    BY <1>18, HandlersAssumption DEF RemoveLock, At, Goto, Protected, InRfcs, TypeInv, TypeOK
  <2>2. VisibleHolders = ToSet(rfcs)
    BY <2>1 DEF VisibleHolders
  <2>3. VisibleHolders' = { e \in ToSet(rfcs) : e.peer # PeerOf[h] }
    BY <2>1 DEF VisibleHolders
  <2>4. Replies' = Replies
    BY <1>18 DEF RemoveLock, At, Goto, TypeInv, TypeOK
  <2>5. Service!Withdraw(h)
    BY <2>1, <2>2, <2>3, <2>4 DEF Service!Withdraw
  <2> QED  BY <2>5 DEF Service!Next
<1>19. ASSUME NEW h \in Handlers, RemoveErase(h)
       PROVE  Goal
  <2>1. it[h] \in 1..Len(rfcs) /\ rfcs' = RemoveAt(rfcs, it[h])
    BY <1>19, LenProperties DEF RemoveErase, TypeInv, TypeOK
  <2>2. ToSet(rfcs)' = ToSet(rfcs) \ {rfcs[it[h]]}
    BY <2>1, RemoveAtRemoves DEF TypeInv, TypeOK, ListInv, NoDuplicates
  <2>3. pc' = pc /\ clients' = clients /\ l' = l
        /\ pc[h] = "erase" /\ rfcs[it[h]].peer = PeerOf[h]
    BY <1>19 DEF RemoveErase
  <2>4. VisibleHolders' = VisibleHolders
    BY <2>2, <2>3 DEF VisibleHolders
  <2> QED  BY <1>s, <2>3, <2>4
<1>20. ASSUME NEW h \in Handlers, RemoveSkip(h)
       PROVE  Goal
  <2>1. ToSet(clients)' = ToSet(clients) /\ VisibleHolders' = VisibleHolders
    BY <1>20 DEF RemoveSkip, At, Goto, VisibleHolders, TypeInv, TypeOK
  <2>2. Replies' = Replies
    BY <1>20 DEF RemoveSkip, At, Goto, TypeInv, TypeOK
  <2> QED  BY <1>s, <2>1, <2>2
<1>21. ASSUME NEW h \in Handlers, RemoveUnlock(h)
       PROVE  Goal
  <2>1. \A e \in ToSet(rfcs) : e.peer # PeerOf[h]
    <3>1. DOMAIN rfcs = 1..Len(rfcs) /\ Len(rfcs) \in Nat
      BY LenProperties DEF TypeInv, TypeOK
    <3>2. \A j \in 1..Len(rfcs) : rfcs[j].peer # PeerOf[h]
      BY <1>21, <3>1 DEF RemoveUnlock, At, GhostInv, EraseInv, TypeInv, TypeOK
    <3> QED  BY <3>1, <3>2 DEF ToSet
  <2>2. /\ clients' = clients /\ rfcs' = rfcs /\ l' = l
        /\ pc[h] = "erase" /\ pc'[h] = "leave"
        /\ \A g \in Handlers \ {h} : pc'[g] = pc[g]
    BY <1>21 DEF RemoveUnlock, At, Goto, TypeInv, TypeOK
  <2>3. VisibleHolders' = VisibleHolders
    BY <2>1, <2>2 DEF VisibleHolders
  <2>4. Replies' = Replies
    BY <2>2
  <2> QED  BY <1>s, <2>2, <2>3, <2>4
<1>22. ASSUME NEW h \in Handlers, RemoveLockClients(h)
       PROVE  Goal
  <2>1. ToSet(clients)' = ToSet(clients) /\ VisibleHolders' = VisibleHolders
    BY <1>22 DEF RemoveLockClients, At, Goto, VisibleHolders, TypeInv, TypeOK
  <2>2. Replies' = Replies
    BY <1>22 DEF RemoveLockClients, At, Goto, TypeInv, TypeOK
  <2> QED  BY <1>s, <2>1, <2>2
<1>23. ASSUME NEW h \in Handlers, RemoveReturn(h)
       PROVE  Goal
  <2>1. ToSet(clients)' = ToSet(clients) \ {PeerOf[h]}
    <3>1. CASE PeerOf[h] \notin ToSet(clients) /\ clients' = clients
      BY <3>1
    <3>2. CASE \E i \in 1..Len(clients) :
                 clients[i] = PeerOf[h] /\ clients' = RemoveAt(clients, i)
      BY <3>2, RemoveAtRemoves DEF TypeInv, TypeOK, ListInv, NoDuplicates
    <3> QED  BY <1>23, <3>1, <3>2 DEF RemoveReturn
  <2>2. VisibleHolders' = VisibleHolders
    BY <1>23 DEF RemoveReturn, At, Goto, VisibleHolders, TypeInv, TypeOK
  <2>3. Replies' = Replies
    BY <1>23 DEF RemoveReturn, At, Goto, TypeInv, TypeOK
  <2>4. Service!Unregister(h)
    BY <2>1, <2>2, <2>3 DEF Service!Unregister
  <2> QED  BY <2>4 DEF Service!Next
<1>24. CASE UNCHANGED vars
  BY <1>24 DEF vars, Service!vars, VisibleHolders
<1>25. ASSUME NEW h \in Handlers, Call(h)
       PROVE  Goal
  <2>1. ToSet(clients)' = ToSet(clients) /\ VisibleHolders' = VisibleHolders
    BY <1>25 DEF Call, At, Goto, VisibleHolders, TypeInv, TypeOK
  <2>2. Replies' = Replies
    BY <1>25 DEF Call, At, Goto, TypeInv, TypeOK
  <2> QED  BY <1>s, <2>1, <2>2
<1> QED
  BY <1>1, <1>2, <1>3, <1>4, <1>5, <1>6, <1>7, <1>8, <1>9, <1>10, <1>11, <1>12, <1>13, <1>14, <1>15, <1>16, <1>17, <1>18, <1>19, <1>20, <1>21, <1>22, <1>23, <1>24, <1>25
  DEF Next, Progress, LockRfcs

\* To its callers the index is the service: each call takes effect at one
\* instant (a removal at two), whatever the threads do in between.
THEOREM IndexImplementsService == Spec => ImplementsService
<1>1. Init => Service!Init
  BY InitService
<1>2. TypeInv /\ Protected /\ ListInv /\ GhostInv /\ CopyInv /\ FoundInv
        /\ [Next]_vars => [Service!Next]_(Service!vars)
  BY ServiceStep
<1> QED  BY <1>1, <1>2, TypeInvariant, MutexesProtect, ListInvariant, GhostInvariant,
            CopyInvariant, FoundInvariant, PTL
         DEF Spec, ImplementsService, Service!Spec
=============================================================================
