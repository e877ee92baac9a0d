--------------------------- MODULE AmStreamProofs ---------------------------
(***************************************************************************)
(* Proofs about AmStream, for any finite set of tasks and any number of    *)
(* streams and messages.                                                   *)
(***************************************************************************)
EXTENDS AmStream, SequenceTheorems, FiniteSetTheorems, TLAPS

\* The streams that are yet to be made are as new() will leave them.
FreshStreams ==
    /\ registered <= made
    /\ \A g \in Streams : g > made =>
          ~unregistered[g] /\ msgs[g] = <<>> /\ taken[g] = <<>>

IInv ==
    /\ TypeOK
    /\ HandlerIsMapped
    /\ UnregisteredIsUnmapped
    /\ FreshStreams
    /\ NoMissedMessage

-----------------------------------------------------------------------------
(* The list of a Notify.                                                   *)

\* The first of the list is taken off it.
LEMMA OnceTail ==
  ASSUME NEW list \in Seq(Tasks), list # <<>>, NEW off, Once(list, off),
         NEW rest \in SUBSET off
  PROVE  /\ Tail(list) \in Seq(Tasks)
         /\ Head(list) \in Tasks
         /\ Head(list) \notin rest
         /\ Once(Tail(list), rest \cup {Head(list)})
<1>1. /\ Tail(list) \in Seq(Tasks) /\ Head(list) \in Tasks
      /\ Len(Tail(list)) = Len(list) - 1
      /\ \A i \in 1 .. Len(Tail(list)) : Tail(list)[i] = list[i + 1]
  BY HeadTailProperties
<1>2. Len(list) \in Nat \ {0} /\ DOMAIN list = 1 .. Len(list) /\ Head(list) = list[1]
  BY EmptySeq, LenProperties
<1>3. DOMAIN Tail(list) = 1 .. (Len(list) - 1)
  BY <1>1, LenProperties
<1> QED  BY <1>1, <1>2, <1>3 DEF Once

\* A task that is not in the list joins it.
LEMMA OnceAppend ==
  ASSUME NEW list \in Seq(Tasks), NEW off, Once(list, off), NEW t \in Tasks,
         \A i \in DOMAIN list : list[i] # t
  PROVE  Append(list, t) \in Seq(Tasks) /\ Once(Append(list, t), off \ {t})
<1>1. /\ Append(list, t) \in Seq(Tasks)
      /\ Len(Append(list, t)) = Len(list) + 1
      /\ \A i \in 1 .. Len(list) : Append(list, t)[i] = list[i]
      /\ Append(list, t)[Len(list) + 1] = t
  BY AppendProperties
<1>2. Len(list) \in Nat /\ DOMAIN list = 1 .. Len(list)
  BY LenProperties
<1>3. DOMAIN Append(list, t) = 1 .. (Len(list) + 1)
  BY <1>1, LenProperties
<1> QED  BY <1>1, <1>2, <1>3 DEF Once

\* A task leaves the list from wherever it stands.
LEMMA OnceRemove ==
  ASSUME NEW list \in Seq(Tasks), NEW off, Once(list, off), NEW i \in DOMAIN list
  PROVE  /\ list # <<>>
         /\ RemoveAt(list, i) \in Seq(Tasks)
         /\ Once(RemoveAt(list, i), off)
<1> DEFINE front == SubSeq(list, 1, i - 1)
           back  == SubSeq(list, i + 1, Len(list))
<1>1. Len(list) \in Nat /\ DOMAIN list = 1 .. Len(list) /\ i \in 1 .. Len(list)
  BY LenProperties
<1>2. \A k \in 1 .. Len(list) : list[k] \in Tasks
  BY ElementOfSeq
<1>3. /\ front \in Seq(Tasks) /\ Len(front) = i - 1
      /\ \A k \in 1 .. (i - 1) : front[k] = list[k]
  <2>1. 1 \in Int /\ i - 1 \in Int /\ \A k \in 1 .. (i - 1) : list[k] \in Tasks
    BY <1>1, <1>2
  <2>2. /\ front \in Seq(Tasks)
        /\ Len(front) = IF 1 <= i - 1 THEN i - 1 - 1 + 1 ELSE 0
        /\ \A k \in 1 .. (i - 1 - 1 + 1) : front[k] = list[1 + k - 1]
    BY <2>1, SubSeqProperties
  <2> QED  BY <1>1, <2>2
<1>4. /\ back \in Seq(Tasks) /\ Len(back) = Len(list) - i
      /\ \A k \in 1 .. (Len(list) - i) : back[k] = list[i + k]
  <2>1. i + 1 \in Int /\ Len(list) \in Int
        /\ \A k \in (i + 1) .. Len(list) : list[k] \in Tasks
    BY <1>1, <1>2
  <2>2. /\ back \in Seq(Tasks)
        /\ Len(back) = IF i + 1 <= Len(list) THEN Len(list) - (i + 1) + 1 ELSE 0
        /\ \A k \in 1 .. (Len(list) - (i + 1) + 1) : back[k] = list[i + 1 + k - 1]
    BY <2>1, SubSeqProperties
  <2> QED  BY <1>1, <2>2
<1>5. /\ RemoveAt(list, i) \in Seq(Tasks)
      /\ Len(RemoveAt(list, i)) = Len(list) - 1
      /\ \A k \in 1 .. (Len(list) - 1) :
            RemoveAt(list, i)[k] = IF k < i THEN list[k] ELSE list[k + 1]
  <2>1. RemoveAt(list, i) = front \o back
    BY DEF RemoveAt
  <2> HIDE DEF front, back
  <2>2. /\ front \o back \in Seq(Tasks)
        /\ Len(front \o back) = Len(front) + Len(back)
        /\ \A k \in 1 .. Len(front) + Len(back) : (front \o back)[k] =
              IF k <= Len(front) THEN front[k] ELSE back[k - Len(front)]
    BY <1>3, <1>4, ConcatProperties
  <2>3. Len(front \o back) = Len(list) - 1
    BY <1>1, <1>3, <1>4, <2>2
  <2>4. ASSUME NEW k \in 1 .. (Len(list) - 1)
        PROVE  (front \o back)[k] = IF k < i THEN list[k] ELSE list[k + 1]
    <3>1. CASE k < i
      <4>1. k <= Len(front) /\ k \in 1 .. (i - 1)
        BY <1>1, <1>3, <3>1
      <4> QED  BY <1>1, <1>3, <1>4, <2>2, <3>1, <4>1
    <3>2. CASE ~(k < i)
      <4>1. /\ ~(k <= Len(front)) /\ k - Len(front) \in 1 .. (Len(list) - i)
            /\ k \in 1 .. Len(front) + Len(back)
        BY <1>1, <1>3, <1>4, <3>2
      <4>2. (front \o back)[k] = back[k - Len(front)]
        BY <2>2, <4>1
      <4>3. back[k - Len(front)] = list[i + (k - Len(front))]
        BY <1>4, <4>1
      <4>4. i + (k - Len(front)) = k + 1
        BY <1>1, <1>3
      <4> QED  BY <3>2, <4>2, <4>3, <4>4
    <3> QED  BY <3>1, <3>2
  <2> QED  BY <2>1, <2>2, <2>3, <2>4
<1>6. DOMAIN RemoveAt(list, i) = 1 .. (Len(list) - 1)
  BY <1>5, LenProperties
<1> HIDE DEF front, back
<1>7. Once(RemoveAt(list, i), off)
  <2> DEFINE rest == RemoveAt(list, i)
             old(k) == IF k < i THEN k ELSE k + 1
  <2>1. \A k \in 1 .. (Len(list) - 1) : old(k) \in DOMAIN list /\ rest[k] = list[old(k)]
    BY <1>1, <1>5
  <2>2. \A j, k \in 1 .. (Len(list) - 1) : old(j) = old(k) => j = k
    BY <1>1
  <2> HIDE DEF rest, old
  <2>3. DOMAIN rest = 1 .. (Len(list) - 1)
    BY <1>6 DEF rest
  <2>4. Once(rest, off)
    BY <2>1, <2>2, <2>3 DEF Once
  <2> QED  BY <2>4 DEF rest
<1>8. list # <<>>
  <2>1. Len(<<>>) = 0
    BY EmptySeq
  <2>2. Len(list) # 0
    BY <1>1
  <2> QED  BY <2>1, <2>2
<1> QED  BY <1>5, <1>7, <1>8

\* notify_one keeps the list in order, and the task it takes off is new.
LEMMA NotifyOneEffect ==
  ASSUME TypeOK, NEW g \in Streams, NEW others \in SUBSET notified[g],
         NotifyOne(g, others)
  PROVE  /\ permit' \in [Streams -> BOOLEAN]
         /\ waiters' \in [Streams -> Seq(Tasks)]
         /\ notified' \in [Streams -> SUBSET Tasks]
         /\ \A h \in Streams : Once(waiters'[h], notified'[h])
         /\ \A h \in Streams \ {g} :
               waiters'[h] = waiters[h] /\ notified'[h] = notified[h]
         /\ waiters'[g] # <<>> =>
               Cardinality(notified'[g]) = Cardinality(others) + 1
<1> USE DEF TypeOK
<1>1. CASE waiters[g] = <<>>
  <2>1. Once(waiters[g], others)
    BY <1>1 DEF Once
  <2> QED  BY <1>1, <2>1 DEF NotifyOne
<1>2. CASE waiters[g] # <<>>
  <2>1. /\ Tail(waiters[g]) \in Seq(Tasks)
        /\ Head(waiters[g]) \in Tasks
        /\ Head(waiters[g]) \notin others
        /\ Once(Tail(waiters[g]), others \cup {Head(waiters[g])})
    BY <1>2, OnceTail
  <2>2. Cardinality(others \cup {Head(waiters[g])}) = Cardinality(others) + 1
    <3>1. IsFiniteSet(others)
      <4>1. others \in SUBSET Tasks
        OBVIOUS
      <4> QED  BY <4>1, FS_Subset, BoundsAssumption
    <3> QED  BY <2>1, <3>1, FS_AddElement
  <2>3. /\ permit' = permit
        /\ waiters' = [waiters EXCEPT ![g] = Tail(waiters[g])]
        /\ notified' = [notified EXCEPT ![g] = others \cup {Head(waiters[g])}]
    BY <1>2 DEF NotifyOne
  <2>4. others \cup {Head(waiters[g])} \in SUBSET Tasks
    BY <2>1
  <2>5. /\ waiters' \in [Streams -> Seq(Tasks)]
        /\ notified' \in [Streams -> SUBSET Tasks]
    BY <2>1, <2>3, <2>4
  <2>6. /\ waiters'[g] = Tail(waiters[g])
        /\ notified'[g] = others \cup {Head(waiters[g])}
        /\ \A h \in Streams \ {g} :
              waiters'[h] = waiters[h] /\ notified'[h] = notified[h]
    BY <2>3
  <2>7. \A h \in Streams : Once(waiters'[h], notified'[h])
    BY <2>1, <2>6
  <2> QED  BY <2>2, <2>3, <2>5, <2>6, <2>7
<1> QED  BY <1>1, <1>2

\* A task that goes back to sleep joins the end of the list.
LEMMA EnlistEffect ==
  ASSUME TypeOK, NEW g \in Streams, NEW t \in Tasks, ~InList(t, g), Enlist(t, g)
  PROVE  /\ permit' \in [Streams -> BOOLEAN]
         /\ waiters' \in [Streams -> Seq(Tasks)]
         /\ notified' \in [Streams -> SUBSET Tasks]
         /\ \A h \in Streams : Once(waiters'[h], notified'[h])
         /\ \A h \in Streams \ {g} :
               waiters'[h] = waiters[h] /\ notified'[h] = notified[h]
<1>1. /\ Append(waiters[g], t) \in Seq(Tasks)
      /\ Once(Append(waiters[g], t), notified[g] \ {t})
  BY OnceAppend DEF InList, TypeOK
<1> QED  BY <1>1 DEF Enlist, TypeOK

\* A task that runs to an answer is no longer among the notified.
LEMMA LeaveEffect ==
  ASSUME TypeOK, NEW g \in Streams, NEW t \in Tasks, Leave(t, g)
  PROVE  /\ notified' \in [Streams -> SUBSET Tasks]
         /\ \A h \in Streams : Once(waiters'[h], notified'[h])
         /\ \A h \in Streams \ {g} : notified'[h] = notified[h]
         /\ Cardinality(notified[g]) <= Cardinality(notified'[g]) + 1
         /\ Cardinality(notified[g]) \in Nat /\ Cardinality(notified'[g]) \in Nat
<1>1. Once(waiters[g], notified[g] \ {t})
  BY DEF Once, TypeOK
<1>2. IsFiniteSet(notified[g])
  BY FS_Subset, BoundsAssumption DEF TypeOK
<1>3. /\ IsFiniteSet(notified[g] \ {t})
      /\ Cardinality(notified[g] \ {t}) = IF t \in notified[g]
            THEN Cardinality(notified[g]) - 1 ELSE Cardinality(notified[g])
  BY <1>2, FS_RemoveElement
<1>4. Cardinality(notified[g]) \in Nat /\ Cardinality(notified[g] \ {t}) \in Nat
  BY <1>2, <1>3, FS_CardinalityType
<1>5. /\ notified \in [Streams -> SUBSET Tasks]
      /\ \A h \in Streams : Once(waiters[h], notified[h])
  BY DEF TypeOK
<1>6. /\ waiters' = waiters
      /\ notified' = [notified EXCEPT ![g] = notified[g] \ {t}]
  BY DEF Leave
<1>7. /\ notified' \in [Streams -> SUBSET Tasks]
      /\ notified'[g] = notified[g] \ {t}
      /\ \A h \in Streams \ {g} : notified'[h] = notified[h]
  BY <1>5, <1>6
<1>8. \A h \in Streams : Once(waiters'[h], notified'[h])
  BY <1>1, <1>5, <1>6, <1>7
<1>9. Cardinality(notified[g]) <= Cardinality(notified'[g]) + 1
  BY <1>3, <1>4, <1>7
<1> QED  BY <1>4, <1>7, <1>8, <1>9

-----------------------------------------------------------------------------
(* The invariant.                                                          *)

\* The invariant holds of a worker on which nothing was registered yet.
LEMMA InitIInv == Init => IInv
<1> SUFFICES ASSUME Init PROVE IInv
  OBVIOUS
<1>1. TypeOK
  BY BoundsAssumption, EmptySeq
  DEF Init, TypeOK, Streams, NoStream, Messages, None, Once
<1> QED
  BY <1>1, BoundsAssumption
  DEF Init, IInv, HandlerIsMapped, UnregisteredIsUnmapped, FreshStreams,
      NoMissedMessage, Streams, NoStream

\* What a turn of wait_msg does to the streams.
LEMMA TurnIInv ==
  ASSUME IInv, NEW t \in Tasks, NEW g \in Streams, ~InList(t, g), Turn(t, g)
  PROVE  IInv'
<1> USE DEF IInv
<1>1. CASE TakeMsg(t, g)
  <2>1. /\ Head(msgs[g]) \in Messages /\ Tail(msgs[g]) \in Seq(Messages)
        /\ Len(Tail(msgs[g])) = Len(msgs[g]) - 1
    BY <1>1, HeadTailProperties DEF TakeMsg, TypeOK
  <2>2. Append(taken[g], Head(msgs[g])) \in Seq(Messages)
    BY <2>1, AppendProperties DEF TypeOK
  <2>3. TypeOK'
    BY <1>1, <2>1, <2>2, LeaveEffect DEF TakeMsg, Leave, Turn, TypeOK
  <2>4. NoMissedMessage'
    <3>1. \A h \in Streams : Len(msgs[h]) \in Nat
      BY LenProperties DEF TypeOK
    <3>2. /\ Cardinality(notified[g]) <= Cardinality(notified'[g]) + 1
          /\ Cardinality(notified[g]) \in Nat /\ Cardinality(notified'[g]) \in Nat
          /\ \A h \in Streams \ {g} : notified'[h] = notified[h]
      BY <1>1, LeaveEffect DEF TakeMsg
    <3>3. Len(msgs'[g]) = Len(msgs[g]) - 1
      BY <1>1, <2>1 DEF TakeMsg, TypeOK
    <3>4. waiters' = waiters /\ \A h \in Streams \ {g} : msgs'[h] = msgs[h]
      BY <1>1 DEF TakeMsg, Leave, TypeOK
    <3> QED  BY <3>1, <3>2, <3>3, <3>4 DEF NoMissedMessage
  <2>5. g <= made
    BY <1>1, BoundsAssumption DEF TakeMsg, FreshStreams, Streams, TypeOK
  <2>6. HandlerIsMapped' /\ UnregisteredIsUnmapped' /\ FreshStreams'
    BY <1>1, <2>5, BoundsAssumption
    DEF TakeMsg, Turn, HandlerIsMapped, UnregisteredIsUnmapped, FreshStreams,
        TypeOK, Streams
  <2> QED  BY <2>3, <2>4, <2>6
<1>2. CASE NoMore(t, g)
  <2>1. TypeOK'
    BY <1>2, LeaveEffect DEF NoMore, Leave, Turn, TypeOK, None
  <2>2. NoMissedMessage'
    <3>1. ASSUME NEW h \in Streams, waiters'[h] # <<>>
          PROVE  Len(msgs'[h]) <= Cardinality(notified'[h])
      <4>1. CASE h = g
        <5>1. Len(msgs'[g]) = 0 /\ Cardinality(notified'[g]) \in Nat
          BY <1>2, LeaveEffect, EmptySeq DEF NoMore
        <5> QED  BY <4>1, <5>1
      <4>2. CASE h # g
        BY <1>2, <3>1, <4>2, LeaveEffect DEF NoMore, Leave, NoMissedMessage
      <4> QED  BY <4>1, <4>2
    <3> QED  BY <3>1 DEF NoMissedMessage
  <2>3. HandlerIsMapped' /\ UnregisteredIsUnmapped' /\ FreshStreams'
    BY <1>2 DEF NoMore, Turn, HandlerIsMapped, UnregisteredIsUnmapped,
                FreshStreams
  <2> QED  BY <2>1, <2>2, <2>3
<1>3. CASE Sleep(t, g)
  <2>1. TypeOK'
    BY <1>3, EnlistEffect DEF Sleep, Turn, TypeOK
  <2>2. NoMissedMessage'
    <3>1. ASSUME NEW h \in Streams, waiters'[h] # <<>>
          PROVE  Len(msgs'[h]) <= Cardinality(notified'[h])
      <4>1. CASE h = g
        <5>1. Len(msgs'[g]) = 0
          BY <1>3, EmptySeq DEF Sleep
        <5>2. Cardinality(notified'[g]) \in Nat
          <6>1. notified'[g] \in SUBSET Tasks
            BY <2>1 DEF TypeOK
          <6> QED  BY <6>1, FS_Subset, FS_CardinalityType, BoundsAssumption
        <5> QED  BY <4>1, <5>1, <5>2
      <4>2. CASE h # g
        BY <1>3, <3>1, <4>2, EnlistEffect DEF Sleep, NoMissedMessage
      <4> QED  BY <4>1, <4>2
    <3> QED  BY <3>1 DEF NoMissedMessage
  <2>3. HandlerIsMapped' /\ UnregisteredIsUnmapped' /\ FreshStreams'
    BY <1>3 DEF Sleep, Turn, HandlerIsMapped, UnregisteredIsUnmapped,
                FreshStreams
  <2> QED  BY <2>1, <2>2, <2>3
<1> QED  BY <1>1, <1>2, <1>3 DEF Turn

\* Every step of the tasks and of UCX preserves the invariant.
LEMMA NextIInv == IInv /\ [Next]_vars => IInv'
<1> SUFFICES ASSUME IInv, [Next]_vars PROVE IInv'
  OBVIOUS
<1> USE DEF IInv
<1>1. CASE RegisterOther
  <2>1. TypeOK'
    BY <1>1, BoundsAssumption DEF RegisterOther, Unregister, TypeOK, Streams, NoStream
  <2>2. HandlerIsMapped' /\ NoMissedMessage'
    BY <1>1 DEF RegisterOther, HandlerIsMapped, NoMissedMessage
  <2>3. UnregisteredIsUnmapped' /\ FreshStreams'
    BY <1>1, BoundsAssumption
    DEF RegisterOther, Unregister, TypeOK, UnregisteredIsUnmapped, FreshStreams,
        Streams, NoStream
  <2> QED  BY <2>1, <2>2, <2>3
<1>2. CASE Arrive
  <2>1. handler \in Streams /\ handler = registered /\ handler <= made
    BY <1>2 DEF Arrive, TypeOK, HandlerIsMapped, FreshStreams
  <2>2. sent + 1 \in Messages /\ sent' \in 0 .. MaxMessages
    BY <1>2, BoundsAssumption DEF Arrive, TypeOK, Messages
  <2>3. /\ Append(msgs[handler], sent + 1) \in Seq(Messages)
        /\ Len(Append(msgs[handler], sent + 1)) = Len(msgs[handler]) + 1
    BY <2>1, <2>2, AppendProperties DEF TypeOK
  <2>4. /\ permit' \in [Streams -> BOOLEAN]
        /\ waiters' \in [Streams -> Seq(Tasks)]
        /\ notified' \in [Streams -> SUBSET Tasks]
        /\ \A h \in Streams : Once(waiters'[h], notified'[h])
        /\ \A h \in Streams \ {handler} :
              waiters'[h] = waiters[h] /\ notified'[h] = notified[h]
        /\ waiters'[handler] # <<>> =>
              Cardinality(notified'[handler]) = Cardinality(notified[handler]) + 1
    BY <1>2, <2>1, NotifyOneEffect DEF Arrive
  <2>5. TypeOK'
    BY <1>2, <2>1, <2>2, <2>3, <2>4 DEF Arrive, TypeOK
  <2>6. NoMissedMessage'
    <3>1. Len(msgs[handler]) \in Nat
      BY <2>1, LenProperties DEF TypeOK
    <3>2. Cardinality(notified[handler]) \in Nat
      <4>1. notified[handler] \in SUBSET Tasks
        BY <2>1 DEF TypeOK
      <4> QED  BY <4>1, FS_Subset, FS_CardinalityType, BoundsAssumption
    <3>3. waiters'[handler] # <<>> => waiters[handler] # <<>>
      BY <1>2 DEF Arrive, NotifyOne
    <3>4. /\ Len(msgs'[handler]) = Len(msgs[handler]) + 1
          /\ \A h \in Streams \ {handler} : msgs'[h] = msgs[h]
      BY <1>2, <2>1, <2>3 DEF Arrive, TypeOK
    <3>5. ASSUME NEW h \in Streams, waiters'[h] # <<>>
          PROVE  Len(msgs'[h]) <= Cardinality(notified'[h])
      <4>1. CASE h = handler
        BY <2>4, <3>1, <3>2, <3>3, <3>4, <3>5, <4>1 DEF NoMissedMessage
      <4>2. CASE h # handler
        BY <2>4, <3>4, <3>5, <4>2 DEF NoMissedMessage
      <4> QED  BY <4>1, <4>2
    <3> QED  BY <3>5 DEF NoMissedMessage
  <2>7. HandlerIsMapped' /\ UnregisteredIsUnmapped' /\ FreshStreams'
    BY <1>2, <2>1, BoundsAssumption
    DEF Arrive, HandlerIsMapped, UnregisteredIsUnmapped, FreshStreams, TypeOK,
        Streams
  <2> QED  BY <2>5, <2>6, <2>7
<1>3. ASSUME NEW t \in Tasks, Share(t) \/ Discard(t) PROVE IInv'
  <2>1. /\ held' \in [Tasks -> Streams \cup {NoStream}]
        /\ UNCHANGED <<handler, registered, made, msgs, unregistered, permit,
                       waiters, notified, sent, taken, answer>>
    BY <1>3 DEF Share, Discard, TypeOK
  <2>2. TypeOK'
    BY <2>1 DEF TypeOK
  <2> QED  BY <2>1, <2>2 DEF HandlerIsMapped, UnregisteredIsUnmapped,
                             FreshStreams, NoMissedMessage
<1>4. ASSUME NEW t \in Tasks, Make(t) PROVE IInv'
  <2>1. made + 1 \in Streams /\ made' \in 0 .. MaxStreams /\ made' = made + 1
    BY <1>4, BoundsAssumption DEF Make, TypeOK, Streams
  <2>2. unregistered' = unregistered
    BY <1>4 DEF Make, Unregister
  <2>3. TypeOK'
    BY <1>4, <2>1, <2>2 DEF Make, TypeOK
  <2>6. made \in Nat /\ registered = 0 /\ registered' = made + 1
    BY <1>4, BoundsAssumption DEF Make, TypeOK, NoStream
  <2>7. UnregisteredIsUnmapped'
    <3>1. ASSUME NEW g \in 1 .. (made + 1)
          PROVE  unregistered'[g] <=> registered' # g
      <4>1. CASE g = made + 1
        BY <2>1, <2>2, <2>6, <4>1 DEF FreshStreams
      <4>2. CASE g # made + 1
        <5>1. g \in 1 .. made /\ registered # g
          BY <2>6, <4>2
        <5> QED  BY <2>2, <2>6, <4>2, <5>1 DEF UnregisteredIsUnmapped
      <4> QED  BY <4>1, <4>2
    <3> QED  BY <2>1, <3>1 DEF UnregisteredIsUnmapped
  <2>4. FreshStreams'
    BY <1>4, <2>1, <2>2, <2>6 DEF Make, FreshStreams, Streams
  <2>5. HandlerIsMapped' /\ NoMissedMessage'
    BY <1>4 DEF Make, HandlerIsMapped, NoMissedMessage
  <2> QED  BY <2>3, <2>4, <2>5, <2>7
<1>5. ASSUME NEW t \in Tasks, Begin(t) PROVE IInv'
  <2>1. held[t] \in Streams /\ ~InList(t, held[t])
    BY <1>5 DEF Begin, Busy, Waiting, TypeOK
  <2> QED  BY <1>5, <2>1, TurnIInv DEF Begin
<1>6. ASSUME NEW t \in Tasks, Resume(t) PROVE IInv'
  <2>1. PICK g \in Streams : t \in notified[g] /\ Turn(t, g)
    BY <1>6 DEF Resume
  <2>2. ~InList(t, g)
    BY <2>1 DEF InList, TypeOK, Once
  <2> QED  BY <2>1, <2>2, TurnIInv
<1>7. ASSUME NEW t \in Tasks, Abandon(t) PROVE IInv'
  <2>1. /\ UNCHANGED <<handler, registered, made, held, msgs, unregistered,
                       sent, taken, answer>>
        /\ HandlerIsMapped' /\ UnregisteredIsUnmapped' /\ FreshStreams'
    BY <1>7 DEF Abandon, HandlerIsMapped, UnregisteredIsUnmapped, FreshStreams
  <2>2. ASSUME NEW g \in Streams, t \in notified[g],
               NotifyOne(g, notified[g] \ {t})
        PROVE  IInv'
    <3>1. /\ permit' \in [Streams -> BOOLEAN]
          /\ waiters' \in [Streams -> Seq(Tasks)]
          /\ notified' \in [Streams -> SUBSET Tasks]
          /\ \A h \in Streams : Once(waiters'[h], notified'[h])
          /\ \A h \in Streams \ {g} :
                waiters'[h] = waiters[h] /\ notified'[h] = notified[h]
          /\ waiters'[g] # <<>> =>
                Cardinality(notified'[g]) = Cardinality(notified[g] \ {t}) + 1
      BY <2>2, NotifyOneEffect
    <3>2. TypeOK'
      BY <2>1, <3>1 DEF TypeOK
    <3>3. Cardinality(notified[g] \ {t}) + 1 = Cardinality(notified[g])
      <4>1. IsFiniteSet(notified[g])
        BY FS_Subset, BoundsAssumption DEF TypeOK
      <4>2. Cardinality(notified[g]) \in Nat
        BY <4>1, FS_CardinalityType
      <4>3. Cardinality(notified[g] \ {t}) = Cardinality(notified[g]) - 1
        BY <2>2, <4>1, FS_RemoveElement
      <4> QED  BY <4>2, <4>3
    <3>4. waiters'[g] # <<>> => waiters[g] # <<>>
      BY <2>2 DEF NotifyOne
    <3>5. NoMissedMessage'
      BY <2>1, <3>1, <3>3, <3>4 DEF NoMissedMessage
    <3> QED  BY <2>1, <3>2, <3>5
  <2>3. ASSUME NEW g \in Streams, NEW i \in DOMAIN waiters[g],
               waiters' = [waiters EXCEPT ![g] = RemoveAt(waiters[g], i)],
               UNCHANGED <<permit, notified>>
        PROVE  IInv'
    <3>1. /\ waiters[g] # <<>>
          /\ RemoveAt(waiters[g], i) \in Seq(Tasks)
          /\ Once(RemoveAt(waiters[g], i), notified[g])
      BY OnceRemove DEF TypeOK
    <3>2. TypeOK'
      BY <2>1, <2>3, <3>1 DEF TypeOK
    <3>3. NoMissedMessage'
      BY <2>1, <2>3, <3>1 DEF NoMissedMessage, TypeOK
    <3> QED  BY <2>1, <3>2, <3>3
  <2> QED  BY <1>7, <2>2, <2>3 DEF Abandon
<1>8. CASE UNCHANGED vars
  BY <1>8 DEF vars, TypeOK, HandlerIsMapped, UnregisteredIsUnmapped,
              FreshStreams, NoMissedMessage
<1> QED
  BY <1>1, <1>2, <1>3, <1>4, <1>5, <1>6, <1>7, <1>8 DEF Next

\* The invariant holds in every state of every behaviour.
THEOREM Invariance == Spec => []IInv
  BY InitIInv, NextIInv, PTL DEF Spec

\* TypeOK: the variables keep their types, and no task waits twice.
THEOREM TypeCorrect == Spec => []TypeOK
  BY Invariance, PTL DEF IInv

\* The pointer UCX hands to the callback is that of the stream in the map.
THEOREM HandlerFollowsMap == Spec => []HandlerIsMapped
  BY Invariance, PTL DEF IInv

\* A stream is marked as unregistered when, and only when, it is not in the map.
THEOREM UnregisteredLeavesMap == Spec => []UnregisteredIsUnmapped
  BY Invariance, PTL DEF IInv

\* No message is missed: while any task sleeps in the list of a stream, as
\* many others as there are messages have been notified and will look.
THEOREM NeverMissesMessage == Spec => []NoMissedMessage
  BY Invariance, PTL DEF IInv

-----------------------------------------------------------------------------
(* The refinement of AmChannel.                                            *)

\* The element of done \o queue that follows done is the first of queue.
LEMMA NextOfConcat ==
  ASSUME NEW S, NEW done \in Seq(S), NEW queue \in Seq(S)
  PROVE  /\ Len(done) \in Nat /\ Len(queue) \in Nat
         /\ Len(done \o queue) = Len(done) + Len(queue)
         /\ queue # <<>> => /\ Len(queue) > 0
                            /\ (done \o queue)[Len(done) + 1] = Head(queue)
<1>1. Len(done) \in Nat /\ Len(queue) \in Nat
  BY LenProperties
<1>2. Len(done \o queue) = Len(done) + Len(queue)
  BY ConcatProperties
<1>3. ASSUME queue # <<>>
      PROVE  Len(queue) > 0 /\ (done \o queue)[Len(done) + 1] = Head(queue)
  <2>1. Len(queue) > 0
    BY <1>1, <1>3, EmptySeq
  <2>2. Head(queue) = queue[1]
    OBVIOUS
  <2>3. Len(done) + 1 \in 1 .. Len(done) + Len(queue)
    BY <1>1, <2>1
  <2>4. (done \o queue)[Len(done) + 1] = queue[Len(done) + 1 - Len(done)]
    BY <1>1, <2>3, ConcatProperties
  <2> QED  BY <1>1, <2>1, <2>2, <2>4
<1> QED  BY <1>1, <1>2, <1>3

\* A message that is queued last has arrived last.
LEMMA ConcatAppend ==
  ASSUME NEW S, NEW done \in Seq(S), NEW queue \in Seq(S), NEW m \in S
  PROVE  done \o Append(queue, m) = Append(done \o queue, m)
<1>1. <<m>> \in Seq(S)
  OBVIOUS
<1>2. Append(queue, m) = queue \o <<m>>
  BY AppendIsConcat
<1>3. done \o queue \in Seq(S)
  BY ConcatProperties
<1>4. Append(done \o queue, m) = (done \o queue) \o <<m>>
  BY <1>3, AppendIsConcat
<1>5. (done \o queue) \o <<m>> = done \o (queue \o <<m>>)
  BY <1>1, ConcatAssociative
<1> QED  BY <1>2, <1>4, <1>5

\* Moving the first of the queue to what was taken changes nothing of what
\* has arrived.
LEMMA MoveHead ==
  ASSUME NEW S, NEW done \in Seq(S), NEW queue \in Seq(S), queue # <<>>
  PROVE  Append(done, Head(queue)) \o Tail(queue) = done \o queue
<1>1. Head(queue) \in S /\ Tail(queue) \in Seq(S) /\ <<Head(queue)>> \in Seq(S)
  BY HeadTailProperties
<1>2. Append(done, Head(queue)) = done \o <<Head(queue)>>
  BY <1>1, AppendIsConcat
<1>3. (done \o <<Head(queue)>>) \o Tail(queue) = done \o (<<Head(queue)>> \o Tail(queue))
  BY <1>1, ConcatAssociative
<1>4. <<Head(queue)>> \o Tail(queue) = queue
  <2> DEFINE both == <<Head(queue)>> \o Tail(queue)
  <2>1. Len(queue) \in Nat \ {0} /\ Head(queue) = queue[1]
    BY EmptySeq
  <2>2. /\ Len(Tail(queue)) = Len(queue) - 1
        /\ \A i \in 1 .. Len(Tail(queue)) : Tail(queue)[i] = queue[i + 1]
    BY HeadTailProperties
  <2>3. Len(<<Head(queue)>>) = 1 /\ <<Head(queue)>>[1] = Head(queue)
    OBVIOUS
  <2>4. /\ both \in Seq(S)
        /\ Len(both) = Len(<<Head(queue)>>) + Len(Tail(queue))
        /\ \A i \in 1 .. Len(<<Head(queue)>>) + Len(Tail(queue)) : both[i] =
              IF i <= Len(<<Head(queue)>>) THEN <<Head(queue)>>[i]
              ELSE Tail(queue)[i - Len(<<Head(queue)>>)]
    BY <1>1, ConcatProperties
  <2> HIDE DEF both
  <2>5. Len(both) = Len(queue)
    BY <2>1, <2>2, <2>3, <2>4
  <2>6. ASSUME NEW i \in 1 .. Len(queue) PROVE both[i] = queue[i]
    <3>1. CASE i = 1
      BY <2>1, <2>2, <2>3, <2>4, <3>1
    <3>2. CASE i # 1
      <4>1. both[i] = Tail(queue)[i - 1] /\ i - 1 \in 1 .. Len(Tail(queue))
        BY <2>1, <2>2, <2>3, <2>4, <3>2
      <4>2. Tail(queue)[i - 1] = queue[(i - 1) + 1]
        BY <2>2, <4>1
      <4> QED  BY <4>1, <4>2
    <3> QED  BY <3>1, <3>2
  <2>7. both = queue
    BY <2>4, <2>5, <2>6, SeqEqual
  <2> QED  BY <2>7 DEF both
<1> QED  BY <1>2, <1>3, <1>4

\* A turn of wait_msg that takes a message, answers None or sleeps.
LEMMA TurnChannel ==
  ASSUME IInv, NEW t \in Tasks, NEW g \in Streams, Turn(t, g)
  PROVE  [Channel!Next]_(Channel!vars)
<1> USE DEF IInv
<1>1. CASE TakeMsg(t, g)
  <2>1. /\ Head(msgs[g]) \in Messages /\ taken[g] \in Seq(Messages)
        /\ msgs[g] \in Seq(Messages)
    BY <1>1, HeadTailProperties DEF TakeMsg, TypeOK
  <2>2. Arrived' = Arrived
    <3>1. Append(taken[g], Head(msgs[g])) \o Tail(msgs[g]) = taken[g] \o msgs[g]
      BY <1>1, <2>1, MoveHead DEF TakeMsg
    <3> QED  BY <1>1, <3>1 DEF TakeMsg, Arrived, TypeOK
  <2>3. Len(taken'[g]) = Len(taken[g]) + 1
    BY <1>1, <2>1, AppendProperties DEF TakeMsg, TypeOK
  <2>4. \A h \in Streams \ {g} : taken'[h] = taken[h]
    BY <1>1 DEF TakeMsg, TypeOK
  <2>5. [h \in Streams |-> Len(taken'[h])] =
            [[h \in Streams |-> Len(taken[h])] EXCEPT ![g] = @ + 1]
    BY <2>3, <2>4
  <2>7. /\ Arrived[g] = taken[g] \o msgs[g]
        /\ Len(taken[g]) < Len(Arrived[g])
        /\ Arrived[g][Len(taken[g]) + 1] = Head(msgs[g])
    <3> DEFINE done == taken[g]
               queue == msgs[g]
               all == done \o queue
    <3>1. Arrived[g] = all
      BY DEF Arrived
    <3>2. done \in Seq(Messages) /\ queue \in Seq(Messages) /\ queue # <<>>
      BY <1>1, <2>1 DEF TakeMsg
    <3> HIDE DEF done, queue
    <3>3. /\ Len(done) \in Nat /\ Len(queue) \in Nat /\ Len(queue) > 0
          /\ Len(all) = Len(done) + Len(queue)
          /\ all[Len(done) + 1] = Head(queue)
      BY <3>2, NextOfConcat
    <3> HIDE DEF all
    <3>4. Len(done) < Len(all)
      BY <3>3
    <3>5. Len(done) < Len(Arrived[g]) /\ Arrived[g][Len(done) + 1] = Head(queue)
      BY <3>1, <3>3, <3>4
    <3> QED  BY <3>1, <3>5 DEF done, queue, all
  <2>6. Channel!Take(t, g)
    BY <1>1, <2>2, <2>5, <2>7 DEF TakeMsg, Turn, Channel!Take
  <2> QED  BY <2>6 DEF Channel!Next
<1>2. CASE NoMore(t, g)
  <2>1. g # registered
    BY <1>2, BoundsAssumption
    DEF NoMore, UnregisteredIsUnmapped, FreshStreams, TypeOK, Streams
  <2>2. Len(Arrived[g]) = Len(taken[g])
    BY <1>2, ConcatEmptySeq DEF NoMore, Arrived, TypeOK
  <2>3. Channel!NoMore(t, g)
    BY <1>2, <2>1, <2>2 DEF NoMore, Turn, Channel!NoMore, Arrived
  <2> QED  BY <2>3 DEF Channel!Next
<1>3. CASE Sleep(t, g)
  BY <1>3 DEF Sleep, Turn, Channel!vars, Arrived
<1> QED  BY <1>1, <1>2, <1>3 DEF Turn

\* Every step of the streams is a step of the channel or invisible.
LEMMA NextChannel == IInv /\ [Next]_vars => [Channel!Next]_(Channel!vars)
<1> SUFFICES ASSUME IInv, [Next]_vars PROVE [Channel!Next]_(Channel!vars)
  OBVIOUS
<1> USE DEF IInv
<1>1. CASE RegisterOther
  <2>1. UNCHANGED <<Arrived, taken, answer>>
    BY <1>1 DEF RegisterOther, Arrived
  <2>2. CASE registered = NoStream
    BY <1>1, <2>1, <2>2 DEF RegisterOther, Channel!vars
  <2>3. CASE registered # NoStream
    <3>1. registered \in Streams
      BY <2>3 DEF TypeOK
    <3>2. Channel!Shut(registered)
      BY <1>1, <2>1 DEF RegisterOther, Channel!Shut
    <3> QED  BY <3>1, <3>2 DEF Channel!Next
  <2> QED  BY <2>2, <2>3
<1>2. CASE Arrive
  <2>1. /\ handler \in Streams /\ handler = registered /\ sent + 1 \in Messages
        /\ handler \in {registered} \ {NoStream}
    BY <1>2, BoundsAssumption DEF Arrive, TypeOK, HandlerIsMapped, Messages
  <2>2. taken[handler] \in Seq(Messages) /\ msgs[handler] \in Seq(Messages)
    BY <2>1 DEF TypeOK
  <2>3. taken[handler] \o Append(msgs[handler], sent + 1)
          = Append(taken[handler] \o msgs[handler], sent + 1)
    <3> DEFINE m == sent + 1
               done == taken[handler]
               queue == msgs[handler]
    <3>1. m \in Messages /\ done \in Seq(Messages) /\ queue \in Seq(Messages)
      BY <2>1, <2>2
    <3> HIDE DEF m, done, queue
    <3>2. done \o Append(queue, m) = Append(done \o queue, m)
      BY <3>1, ConcatAppend
    <3> QED  BY <3>2 DEF m, done, queue
  <2>4. Arrived' = [Arrived EXCEPT ![handler] = Append(@, sent + 1)]
    BY <1>2, <2>1, <2>3 DEF Arrive, Arrived, TypeOK
  <2>5. Channel!Arrive(handler, sent + 1)
    BY <1>2, <2>1, <2>4 DEF Arrive, Channel!Arrive
  <2> QED  BY <2>1, <2>5 DEF Channel!Next
<1>3. ASSUME NEW t \in Tasks, Share(t) \/ Discard(t) PROVE UNCHANGED Channel!vars
  BY <1>3 DEF Share, Discard, Channel!vars, Arrived
<1>4. ASSUME NEW t \in Tasks, Make(t) PROVE Channel!Next
  <2>1. made + 1 \in Streams /\ registered = NoStream /\ registered' = made + 1
    BY <1>4, BoundsAssumption DEF Make, TypeOK, Streams
  <2>2. taken[made + 1] = <<>> /\ msgs[made + 1] = <<>>
    BY <2>1, BoundsAssumption DEF FreshStreams, TypeOK, Streams
  <2>3. Arrived[made + 1] = <<>>
    BY <2>1, <2>2, ConcatEmptySeq, EmptySeq DEF Arrived
  <2>4. UNCHANGED <<Arrived, taken, answer>>
    BY <1>4 DEF Make, Arrived
  <2>5. {registered'} \ {NoStream} = ({registered} \ {NoStream}) \cup {made + 1}
    BY <2>1, BoundsAssumption DEF NoStream, Streams, TypeOK
  <2>6. Channel!Open(made + 1)
    BY <2>3, <2>4, <2>5 DEF Channel!Open
  <2> QED  BY <2>1, <2>6 DEF Channel!Next
<1>5. ASSUME NEW t \in Tasks, Begin(t) PROVE [Channel!Next]_(Channel!vars)
  <2>1. held[t] \in Streams
    BY <1>5 DEF Begin, TypeOK
  <2> QED  BY <1>5, <2>1, TurnChannel DEF Begin
<1>6. ASSUME NEW t \in Tasks, Resume(t) PROVE [Channel!Next]_(Channel!vars)
  BY <1>6, TurnChannel DEF Resume
<1>7. ASSUME NEW t \in Tasks, Abandon(t) PROVE UNCHANGED Channel!vars
  BY <1>7 DEF Abandon, Channel!vars, Arrived
<1>8. CASE UNCHANGED vars
  BY <1>8 DEF vars, Channel!vars, Arrived
<1> QED
  BY <1>1, <1>2, <1>3, <1>4, <1>5, <1>6, <1>7, <1>8 DEF Next

\* Streams implement channels: each message once, in order, to one task, and
\* None only when nothing is left and nothing can come.
THEOREM Refinement == Spec => ImplementsChannel
<1>1. Init => Channel!Init
  <2> SUFFICES ASSUME Init PROVE Channel!Init
    OBVIOUS
  <2>1. \A g \in Streams : Arrived[g] = <<>> /\ Len(taken[g]) = 0
    BY ConcatEmptySeq, EmptySeq DEF Init, Arrived
  <2> QED  BY <2>1 DEF Init, Channel!Init, Arrived
<1> QED
  BY <1>1, Invariance, NextChannel, PTL
  DEF Spec, ImplementsChannel, Channel!Spec
=============================================================================
