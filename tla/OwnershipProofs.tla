--------------------------- MODULE OwnershipProofs ---------------------------
(***************************************************************************)
(* Proofs about Ownership, for any objects and any number of holders.      *)
(***************************************************************************)
EXTENDS Ownership, TLAPS

\* Every object that was made has a maker of its kind, made before it.
MakersFit ==
    \A o \in Objects \ Contexts : stage[o] # "none" =>
        /\ maker[o] \in Makers(o)
        /\ stage[maker[o]] # "none"

\* While an object exists, its maker counts it.
Counted == \A o \in Kept : stage[o] \in Exists => o \in refs[maker[o]]

\* A polling task is nobody's value, and one that ended was the last holder.
LoopsUnheld == \A l \in Loops : refs[l] = {}
EndedWasLast ==
    \A l \in Loops \ aborted :
        stage[l] \notin {"none", "live"} => refs[maker[l]] \subseteq {l}

\* What somebody holds is live.
HoldersHoldLive == \A o \in Objects : refs[o] # {} => stage[o] = "live"

IInv ==
    /\ TypeOK
    /\ MakersFit
    /\ Counted
    /\ LoopsUnheld
    /\ EndedWasLast
    /\ HoldersHoldLive

\* UCX was told to close the endpoints whose last clone is gone.
DroppedAreTold == \A e \in Endpoints : stage[e] \notin {"none", "live"} => e \in told

-----------------------------------------------------------------------------
\* The facts about kinds that the proofs need.
LEMMA Kinds ==
    /\ Kept \subseteq Objects \ Contexts
    /\ \A o \in Objects : Makers(o) \subseteq Objects \ Loops
    /\ \A o \in Objects : o \notin Makers(o)
    /\ Endpoints \subseteq Kept /\ Loops \subseteq Kept /\ Loops \cap Endpoints = {}
    /\ \A l \in Loops : Makers(l) = Workers
    /\ \A c \in Contexts : Makers(c) = {}
    /\ \A o \in Kept : Makers(o) \cap Endpoints = {}
    /\ Endpoints \cap Contexts = {}
    /\ Contexts \subseteq Objects /\ Contexts \cap Loops = {}
    /\ Workers \cap Loops = {} /\ Users \cap Objects = {} /\ Nothing \notin Objects
  BY KindsAssumption DEF Objects, Kept, Makers

LEMMA InitInv == Init => IInv
<1> SUFFICES ASSUME Init PROVE IInv
    OBVIOUS
<1>1. TypeOK
      BY DEF Init, TypeOK, Exists
<1>2. MakersFit /\ Counted /\ LoopsUnheld /\ EndedWasLast /\ HoldersHoldLive
      BY Kinds DEF Init, MakersFit, Counted, LoopsUnheld, EndedWasLast, HoldersHoldLive,
         Exists, Objects
<1> QED
    BY <1>1, <1>2 DEF IInv

\* A new object of any kind but a context.
LEMMA MakeStep ==
    ASSUME IInv, NEW p \in Objects, NEW o \in Objects, p \in Makers(o),
           NEW owners \in SUBSET Users, owners = {} <=> o \in Loops,
           refs[p] \cap Users # {}, Make(p, o, owners), UNCHANGED <<told, aborted>>
    PROVE  IInv'
<1>1. /\ stage[p] = "live" /\ stage[o] = "none" /\ p # o /\ refs[o] = {}
      /\ o \notin Contexts /\ p \notin Loops
  <2>1. p # o /\ p \notin Loops /\ refs[p] # {} /\ stage[o] = "none"
        BY Kinds DEF Make
  <2>2. stage[p] = "live" /\ refs[o] = {}
        BY <2>1 DEF IInv, HoldersHoldLive
  <2>3. o \notin Contexts
        BY Kinds
  <2> QED
      BY <2>1, <2>2, <2>3
<1>2. /\ stage' = [stage EXCEPT ![o] = "live"]
      /\ maker' = [maker EXCEPT ![o] = p]
      /\ refs'[o] = owners
      /\ refs'[p] = IF o \in Kept THEN refs[p] \cup {o} ELSE refs[p]
      /\ \A q \in Objects \ {o, p} : refs'[q] = refs[q]
  <2>1. /\ refs' = [refs EXCEPT ![o] = owners,
                             ![p] = IF o \in Kept THEN @ \cup {o} ELSE @]
        /\ DOMAIN refs = Objects
        BY DEF IInv, TypeOK, Make
  <2>2. /\ refs'[o] = owners
        /\ refs'[p] = IF o \in Kept THEN refs[p] \cup {o} ELSE refs[p]
        BY <2>1, <1>1
  <2>3. \A q \in Objects \ {o, p} : refs'[q] = refs[q]
        BY <2>1
  <2> QED
      BY <2>2, <2>3 DEF Make
<1>9. refs' \in [Objects -> SUBSET (Users \cup Objects)]
  <2>1. refs[p] \in SUBSET (Users \cup Objects) /\ owners \in SUBSET (Users \cup Objects)
        BY DEF IInv, TypeOK
  <2>2. refs' = [refs EXCEPT ![o] = owners,
                             ![p] = IF o \in Kept THEN @ \cup {o} ELSE @]
        BY DEF Make
  <2> QED
      BY <2>1, <2>2, <1>1 DEF IInv, TypeOK
<1>3. TypeOK'
  <2>1. ASSUME NEW q \in Objects PROVE refs'[q] \subseteq Users \cup KeptWith(q)'
    <3>1. KeptWith(q) \subseteq KeptWith(q)'
          BY <1>1, <1>2 DEF IInv, TypeOK, KeptWith, Exists
    <3>2. o \in Kept => o \in KeptWith(p)'
          BY <1>1, <1>2 DEF IInv, TypeOK, KeptWith, Exists
    <3> QED
        BY <1>1, <1>2, <3>1, <3>2 DEF IInv, TypeOK
  <2> QED
      BY <1>2, <1>9, <2>1 DEF IInv, TypeOK, Exists
<1>4. MakersFit'
      BY <1>1, <1>2, Kinds DEF IInv, TypeOK, MakersFit, Makers
<1>5. Counted'
  <2> SUFFICES ASSUME NEW q \in Kept, stage'[q] \in Exists PROVE q \in refs'[maker'[q]]
      BY DEF Counted
  <2>1. stage \in [Objects -> Exists \cup {"none", "gone"}] /\ q \in Objects
        /\ maker \in [Objects -> Objects \cup {Nothing}]
        BY Kinds DEF IInv, TypeOK
  <2>2. CASE q = o
    <3>1. maker'[q] = p /\ o \in Kept
          BY <1>2, <2>1, <2>2
    <3>2. o \in refs'[p]
          BY <1>2, <3>1
    <3> QED
        BY <2>2, <3>1, <3>2
  <2>3. CASE q # o
    <3>1. stage[q] \in Exists /\ maker'[q] = maker[q]
          BY <1>2, <2>1, <2>3
    <3>2. q \in refs[maker[q]] /\ maker[q] \in Objects /\ maker[q] # o
          BY <3>1, <1>1, <2>1, Kinds DEF IInv, Counted, MakersFit, Exists
    <3>3. CASE maker[q] = p
      <4>1. refs[p] \subseteq refs'[p]
            BY <1>2
      <4> QED
          BY <3>1, <3>2, <3>3, <4>1
    <3>4. CASE maker[q] # p
          BY <1>2, <3>1, <3>2, <3>4
    <3> QED
        BY <3>3, <3>4
  <2> QED
      BY <2>2, <2>3
<1>6. LoopsUnheld'
  <2> SUFFICES ASSUME NEW l \in Loops PROVE refs'[l] = {}
      BY DEF LoopsUnheld
  <2>1. l \in Objects /\ l # p /\ refs[l] = {}
        BY <1>1, Kinds DEF IInv, LoopsUnheld
  <2> QED
      BY <1>2, <2>1
<1>7. EndedWasLast'
      BY <1>1, <1>2, Kinds DEF IInv, TypeOK, MakersFit, EndedWasLast, Makers
<1>8. HoldersHoldLive'
      BY <1>1, <1>2 DEF IInv, TypeOK, HoldersHoldLive
<1> QED
    BY <1>3, <1>4, <1>5, <1>6, <1>7, <1>8 DEF IInv

LEMMA ContextStep ==
    ASSUME IInv, NEW u \in Users, NEW c \in Contexts, NewContext(u, c)
    PROVE  IInv'
<1> USE DEF NewContext
<1>1. c \in Objects /\ c \notin Kept /\ c \notin Loops /\ refs[c] = {}
      BY Kinds DEF IInv, HoldersHoldLive
<1>2. TypeOK'
      BY <1>1 DEF IInv, TypeOK, KeptWith, Exists
<1>3. MakersFit' /\ Counted' /\ LoopsUnheld' /\ HoldersHoldLive'
      BY <1>1, Kinds DEF IInv, TypeOK, MakersFit, Counted, LoopsUnheld, HoldersHoldLive
<1>4. EndedWasLast'
      BY <1>1, Kinds DEF IInv, TypeOK, MakersFit, EndedWasLast, Makers
<1> QED
    BY <1>2, <1>3, <1>4 DEF IInv

LEMMA CloneStep ==
    ASSUME IInv, NEW u \in Users, NEW v \in Users, NEW o \in Objects, Clone(u, v, o)
    PROVE  IInv'
<1>1. /\ u \in refs[o] /\ o \in Objects \ Loops
      /\ refs' = [refs EXCEPT ![o] = @ \cup {v}]
      /\ UNCHANGED <<stage, maker, told, aborted>>
      BY DEF Clone, IInv, LoopsUnheld
<1>2. TypeOK'
      BY <1>1 DEF IInv, TypeOK, KeptWith
<1>3. refs \in [Objects -> SUBSET (Users \cup Objects)] /\ refs[o] # {}
      BY <1>1 DEF IInv, TypeOK
<1>4. MakersFit' /\ Counted' /\ LoopsUnheld' /\ HoldersHoldLive'
  <2>1. MakersFit'
        BY <1>1 DEF IInv, MakersFit
  <2>2. LoopsUnheld' /\ HoldersHoldLive'
        BY <1>1, <1>3, Kinds DEF IInv, LoopsUnheld, HoldersHoldLive
  <2>3. Counted'
    <3>1. \A q \in Objects : refs[q] \subseteq refs'[q]
          BY <1>1, <1>3
    <3>2. ASSUME NEW q \in Kept, stage[q] \in Exists PROVE maker[q] \in Objects
          BY <3>2, Kinds DEF IInv, TypeOK, MakersFit, Exists
    <3> QED
        BY <1>1, <3>1, <3>2 DEF IInv, Counted
  <2> QED
      BY <2>1, <2>2, <2>3
<1>5. EndedWasLast'
  <2> SUFFICES ASSUME NEW l \in Loops \ aborted, stage[l] \notin {"none", "live"}
               PROVE  refs'[maker[l]] \subseteq {l}
      BY <1>1 DEF EndedWasLast
  <2>1. refs[maker[l]] \subseteq {l} /\ u # l /\ l \in Objects
        BY Kinds DEF IInv, EndedWasLast
  <2>2. maker[l] # o
        BY <1>1, <2>1
  <2> QED
      BY <1>1, <1>3, <2>1, <2>2
<1> QED
    BY <1>2, <1>4, <1>5 DEF IInv

LEMMA CloseStep ==
    ASSUME IInv, NEW u \in Users, NEW e \in Objects, Close(u, e)
    PROVE  IInv'
<1>1. /\ UNCHANGED <<stage, maker, refs, aborted>>
      /\ told' \in SUBSET Endpoints
      BY DEF Close, IInv, TypeOK
<1>2. TypeOK' /\ MakersFit' /\ Counted'
      BY <1>1 DEF IInv, TypeOK, KeptWith, MakersFit, Counted
<1>3. LoopsUnheld' /\ EndedWasLast' /\ HoldersHoldLive'
      BY <1>1 DEF IInv, LoopsUnheld, EndedWasLast, HoldersHoldLive
<1> QED
    BY <1>2, <1>3 DEF IInv

\* A variable of the program lets go of an object.
LEMMA DropStep ==
    ASSUME IInv, NEW u \in Users, NEW o \in Objects, Drop(u, o)
    PROVE  IInv'
<1>1. /\ u \in refs[o] /\ stage[o] = "live" /\ o \notin Loops
      /\ refs' = [refs EXCEPT ![o] = @ \ {u}]
      /\ \/ stage' = stage /\ refs[o] # {u}
         \/ \E end \in {"dropping", "destroyed"} :
               stage' = [stage EXCEPT ![o] = end] /\ refs[o] = {u}
      /\ UNCHANGED <<maker, aborted>> /\ told' \in SUBSET Endpoints
      BY DEF Drop, Unref, IInv, TypeOK, LoopsUnheld, HoldersHoldLive
<1>2. /\ refs \in [Objects -> SUBSET (Users \cup Objects)]
      /\ stage \in [Objects -> Exists \cup {"none", "gone"}]
      BY DEF IInv, TypeOK
<1>3. /\ \A q \in Objects : stage'[q] \in Exists <=> stage[q] \in Exists
      /\ \A q \in Objects : stage'[q] # "none" <=> stage[q] # "none"
      /\ \A q \in Objects \ {o} : stage'[q] = stage[q]
      /\ \A q \in Objects : refs'[q] \subseteq refs[q]
      /\ \A q \in Objects : refs[q] \subseteq refs'[q] \cup {u}
      BY <1>1, <1>2 DEF Exists
<1>4. TypeOK'
  <2>1. \A q \in Objects : KeptWith(q)' = KeptWith(q)
        BY <1>1, <1>3, Kinds DEF KeptWith
  <2>2. stage' \in [Objects -> Exists \cup {"none", "gone"}]
        BY <1>1, <1>2 DEF Exists
  <2> QED
      BY <1>1, <1>3, <2>1, <2>2 DEF IInv, TypeOK
<1>5. MakersFit'
  <2>1. \A q \in Objects \ Contexts : stage[q] # "none" => maker[q] \in Objects
        BY Kinds DEF IInv, MakersFit
  <2> QED
      BY <1>1, <1>3, <2>1 DEF IInv, MakersFit
<1>6. Counted'
  <2>1. \A q \in Kept : q \in Objects /\ q # u /\ (stage[q] \in Exists => maker[q] \in Objects)
        BY Kinds DEF IInv, MakersFit, Exists
  <2> QED
      BY <1>1, <1>3, <2>1 DEF IInv, Counted
<1>7. LoopsUnheld'
      BY <1>3, Kinds DEF IInv, LoopsUnheld
<1>8. EndedWasLast'
  <2>1. \A l \in Loops : l \in Objects /\ l # o /\ (stage[l] # "none" => maker[l] \in Objects)
        BY <1>1, Kinds DEF IInv, MakersFit
  <2> QED
      BY <1>1, <1>3, <2>1 DEF IInv, EndedWasLast
<1>9. HoldersHoldLive'
  <2>1. CASE refs[o] = {u}
    <3>1. refs'[o] = {}
          BY <1>1, <1>2, <2>1
    <3> QED
        BY <1>3, <3>1 DEF IInv, HoldersHoldLive
  <2>2. CASE refs[o] # {u}
        BY <1>1, <1>3, <2>2 DEF IInv, HoldersHoldLive
  <2> QED
      BY <2>1, <2>2
<1> QED
    BY <1>4, <1>5, <1>6, <1>7, <1>8, <1>9 DEF IInv

\* UCX gives back an object, or a polling task ends.
LEMMA DestroyedStep ==
    ASSUME IInv, NEW o \in Objects,
           Destroy(o) \/ LoopEnds(o) \/ LoopAborted(o)
    PROVE  IInv'
<1>1. /\ stage[o] \in {"live", "dropping"} /\ refs[o] = {}
      /\ stage' = [stage EXCEPT ![o] = "destroyed"]
      /\ UNCHANGED <<maker, refs, told>>
      /\ aborted' \in SUBSET Loops /\ aborted \subseteq aborted'
      /\ o \in Loops \ aborted' => stage[o] = "dropping" \/ refs[maker[o]] = {o}
  <2>1. CASE Destroy(o)
        BY <2>1 DEF Destroy, IInv, TypeOK, HoldersHoldLive
  <2>2. CASE LoopEnds(o)
        BY <2>2 DEF LoopEnds, IInv, TypeOK, LoopsUnheld
  <2>3. CASE LoopAborted(o)
        BY <2>3 DEF LoopAborted, IInv, TypeOK, LoopsUnheld
  <2> QED
      BY <2>1, <2>2, <2>3
<1>2. stage \in [Objects -> Exists \cup {"none", "gone"}]
      BY DEF IInv, TypeOK
<1>3. /\ \A q \in Objects : stage'[q] \in Exists <=> stage[q] \in Exists
      /\ \A q \in Objects : stage'[q] # "none" <=> stage[q] # "none"
      /\ \A q \in Objects \ {o} : stage'[q] = stage[q]
      BY <1>1, <1>2 DEF Exists
<1>4. TypeOK'
  <2>1. \A q \in Objects : KeptWith(q)' = KeptWith(q)
        BY <1>1, <1>3, Kinds DEF KeptWith
  <2>2. stage' \in [Objects -> Exists \cup {"none", "gone"}]
        BY <1>1, <1>2 DEF Exists
  <2> QED
      BY <1>1, <2>1, <2>2 DEF IInv, TypeOK
<1>5. MakersFit'
  <2>1. \A q \in Objects \ Contexts : stage[q] # "none" => maker[q] \in Objects
        BY Kinds DEF IInv, MakersFit
  <2> QED
      BY <1>1, <1>3, <2>1 DEF IInv, MakersFit
<1>6. Counted'
      BY <1>1, <1>3, Kinds DEF IInv, Counted
<1>7. LoopsUnheld' /\ HoldersHoldLive'
      BY <1>1, <1>3, Kinds DEF IInv, LoopsUnheld, HoldersHoldLive
<1>8. EndedWasLast'
      BY <1>1, <1>3, Kinds DEF IInv, EndedWasLast
<1> QED
    BY <1>4, <1>5, <1>6, <1>7, <1>8 DEF IInv

LEMMA FieldsStep ==
    ASSUME IInv, NEW o \in Objects, DropFields(o)
    PROVE  IInv'
<1> DEFINE m == maker[o]
<1>1. /\ refs \in [Objects -> SUBSET (Users \cup Objects)]
      /\ stage \in [Objects -> Exists \cup {"none", "gone"}]
      /\ stage[o] = "destroyed" /\ refs[o] = {}
      /\ UNCHANGED <<maker, told, aborted>>
      BY DEF IInv, TypeOK, DropFields, HoldersHoldLive
<1>2. o \in Kept => m \in Objects \ Loops /\ o \in refs[m] /\ stage[m] = "live" /\ m # o
                   /\ m \notin Endpoints
      BY <1>1, Kinds DEF IInv, MakersFit, Counted, HoldersHoldLive, Exists
<1>3. /\ \A q \in Objects \ {o} : stage'[q] \in Exists <=> stage[q] \in Exists
      /\ \A q \in Objects : stage'[q] # "none" <=> stage[q] # "none"
      /\ stage'[o] = "gone"
      /\ \A l \in Loops \ {o} : stage'[l] = stage[l]
      /\ \A q \in Objects : refs[q] \ {o} \subseteq refs'[q] /\ refs'[q] \subseteq refs[q]
      /\ \A q \in Objects : stage'[q] = stage[q] \/ q = o \/ refs'[q] = {}
      /\ o \in Kept => o \notin refs'[m]
      /\ stage' \in [Objects -> Exists \cup {"none", "gone"}]
      /\ refs' \in [Objects -> SUBSET (Users \cup Objects)]
  <2>1. CASE o \notin Kept
    <3>1. stage' = [stage EXCEPT ![o] = "gone"] /\ refs' = refs
          BY <2>1 DEF DropFields
    <3> QED
        BY <1>1, <2>1, <3>1, Kinds DEF Exists
  <2>2. CASE o \in Kept /\ refs[m] = {o}
    <3>1. /\ stage' = [stage EXCEPT ![o] = "gone", ![m] = "dropping"]
          /\ refs' = [refs EXCEPT ![m] = @ \ {o}]
          BY <1>2, <2>2 DEF DropFields, Unref
    <3>2. refs'[m] = {} /\ \A q \in Objects \ {m} : refs'[q] = refs[q]
          BY <1>1, <1>2, <2>2, <3>1
    <3>3. /\ stage'[o] = "gone" /\ stage'[m] = "dropping"
          /\ \A q \in Objects \ {o, m} : stage'[q] = stage[q]
          BY <1>1, <1>2, <2>2, <3>1
    <3>4. /\ stage' \in [Objects -> Exists \cup {"none", "gone"}]
          /\ refs' \in [Objects -> SUBSET (Users \cup Objects)]
          BY <1>1, <1>2, <2>2, <3>1 DEF Exists
    <3> QED
        BY <1>1, <1>2, <2>2, <3>2, <3>3, <3>4, Kinds DEF Exists
  <2>3. CASE o \in Kept /\ refs[m] # {o}
    <3>1. /\ stage' = [stage EXCEPT ![o] = "gone"]
          /\ refs' = [refs EXCEPT ![m] = @ \ {o}]
          BY <2>3 DEF DropFields, Unref
    <3>2. refs'[m] = refs[m] \ {o} /\ \A q \in Objects \ {m} : refs'[q] = refs[q]
          BY <1>1, <1>2, <2>3, <3>1
    <3>3. stage'[o] = "gone" /\ \A q \in Objects \ {o} : stage'[q] = stage[q]
          BY <1>1, <3>1
    <3>4. /\ stage' \in [Objects -> Exists \cup {"none", "gone"}]
          /\ refs' \in [Objects -> SUBSET (Users \cup Objects)]
          BY <1>1, <1>2, <2>3, <3>1 DEF Exists
    <3> QED
        BY <1>1, <1>2, <2>3, <3>2, <3>3, <3>4, Kinds DEF Exists
  <2> QED
      BY <2>1, <2>2, <2>3
<1>4. TypeOK'
  <2>1. \A q \in Objects : KeptWith(q)' = KeptWith(q) \ {o}
        BY <1>1, <1>3, Kinds DEF KeptWith, Exists
  <2>2. \A q \in Objects : o \notin refs'[q]
    <3> SUFFICES ASSUME NEW q \in Objects, o \in refs[q], o \in refs'[q] PROVE FALSE
        BY <1>3
    <3>1. o \in KeptWith(q)
          BY Kinds DEF IInv, TypeOK
    <3> QED
        BY <1>3, <3>1 DEF KeptWith
  <2>3. \A q \in Objects : refs'[q] \subseteq Users \cup KeptWith(q)'
        BY <1>3, <2>1, <2>2 DEF IInv, TypeOK
  <2> QED
      BY <1>1, <1>3, <2>3 DEF IInv, TypeOK
<1>5. MakersFit'
  <2>1. \A q \in Objects \ Contexts : stage[q] # "none" => maker[q] \in Objects
        BY Kinds DEF IInv, MakersFit
  <2> QED
      BY <1>1, <1>3, <2>1 DEF IInv, MakersFit
<1>6. Counted'
  <2>1. \A q \in Kept : q \in Objects /\ (stage[q] \in Exists => maker[q] \in Objects)
        BY Kinds DEF IInv, MakersFit, Exists
  <2>2. "gone" \notin Exists
        BY DEF Exists
  <2> QED
      BY <1>1, <1>3, <2>1, <2>2 DEF IInv, Counted
<1>7. LoopsUnheld' /\ HoldersHoldLive'
      BY <1>1, <1>3, Kinds DEF IInv, LoopsUnheld, HoldersHoldLive
<1>8. EndedWasLast'
  <2> SUFFICES ASSUME NEW l \in Loops \ aborted, stage'[l] \notin {"none", "live"}
               PROVE  refs'[maker[l]] \subseteq {l}
      BY <1>1 DEF EndedWasLast
  <2>1. stage[l] \notin {"none", "live"}
        BY <1>1, <1>3
  <2>2. maker[l] \in Objects /\ refs[maker[l]] \subseteq {l}
        BY <2>1, Kinds DEF IInv, MakersFit, EndedWasLast
  <2> QED
      BY <1>3, <2>2
<1> QED
    BY <1>4, <1>5, <1>6, <1>7, <1>8 DEF IInv

LEMMA StepInv == IInv /\ [Next]_vars => IInv'
<1> SUFFICES ASSUME IInv, [Next]_vars PROVE IInv'
    OBVIOUS
<1>1. CASE UNCHANGED vars
  <2>1. TypeOK' /\ MakersFit' /\ Counted'
        BY <1>1 DEF vars, IInv, TypeOK, KeptWith, MakersFit, Counted
  <2>2. LoopsUnheld' /\ EndedWasLast' /\ HoldersHoldLive'
        BY <1>1 DEF vars, IInv, LoopsUnheld, EndedWasLast, HoldersHoldLive
  <2> QED
      BY <2>1, <2>2 DEF IInv
<1>2. ASSUME NEW u \in Users, NEW c \in Contexts, NewContext(u, c) PROVE IInv'
      BY <1>2, ContextStep
<1>3. ASSUME NEW u \in Users, NEW o \in Objects, Drop(u, o) PROVE IInv'
      BY <1>3, DropStep
<1>4. ASSUME NEW u \in Users, NEW p \in Objects, NEW o \in Objects, Create(u, p, o)
      PROVE  IInv'
  <2>1. /\ p \in Makers(o) /\ o \notin Loops /\ refs[p] \cap Users # {}
        /\ Make(p, o, {u}) /\ UNCHANGED <<told, aborted>>
        BY <1>4 DEF Create
  <2>2. {u} \in SUBSET Users /\ ({u} = {} <=> o \in Loops)
        BY <2>1
  <2> QED
      BY <2>1, <2>2, MakeStep
<1>5. ASSUME NEW u \in Users, NEW p \in Objects, NEW o \in Objects, Spawn(u, p, o)
      PROVE  IInv'
  <2>1. /\ p \in Makers(o) /\ o \in Loops /\ refs[p] \cap Users # {}
        /\ Make(p, o, {}) /\ UNCHANGED <<told, aborted>>
        BY <1>5, Kinds DEF Spawn
  <2>2. {} \in SUBSET Users /\ ({} = {} <=> o \in Loops)
        BY <2>1
  <2> QED
      BY <2>1, <2>2, MakeStep
<1>6. ASSUME NEW u \in Users, NEW v \in Users, NEW o \in Objects, Clone(u, v, o)
      PROVE  IInv'
      BY <1>6, CloneStep
<1>7. ASSUME NEW o \in Objects, Teardown(o) \/ LoopAborted(o) PROVE IInv'
      BY <1>7, DestroyedStep, FieldsStep DEF Teardown
<1>8. ASSUME NEW u \in Users, NEW e \in Objects, Close(u, e) PROVE IInv'
      BY <1>8, CloseStep
<1> QED
    BY <1>1, <1>2, <1>3, <1>4, <1>5, <1>6, <1>7, <1>8 DEF Next, Program

THEOREM Invariance == Spec => []IInv
  BY InitInv, StepInv, PTL DEF Spec

\* An endpoint comes to its end when its last clone is dropped, which tells
\* UCX; nothing else ends it, and nothing is taken back.
LEMMA ToldStep == IInv /\ DroppedAreTold /\ [Next]_vars => DroppedAreTold'
<1> SUFFICES ASSUME IInv, DroppedAreTold, [Next]_vars,
                    NEW e \in Endpoints, stage'[e] \notin {"none", "live"}
             PROVE  e \in told'
    BY DEF DroppedAreTold
<1>1. /\ stage \in [Objects -> Exists \cup {"none", "gone"}]
      /\ e \in Objects /\ e \in Kept /\ e \notin Contexts \cup Loops
      BY Kinds DEF IInv, TypeOK
<1>2. CASE stage[e] \notin {"none", "live"}
  <2>1. e \in told
        BY <1>2 DEF DroppedAreTold
  <2>2. told \subseteq told'
        BY DEF vars, Next, Program, Teardown, NewContext, Drop, Create, Spawn, Clone, Close,
           Destroy, DropFields, LoopEnds, LoopAborted
  <2> QED
      BY <2>1, <2>2
<1>3. CASE stage[e] \in {"none", "live"}
  <2>1. ASSUME NEW u \in Users, NEW o \in Objects, Drop(u, o) PROVE e \in told'
    <3>1. e = o
          BY <1>1, <1>3, <2>1 DEF Drop, Unref
    <3> QED
        BY <2>1, <3>1 DEF Drop
  <2>2. ASSUME NEW o \in Objects, DropFields(o) PROVE FALSE
    <3>1. o # e
          BY <1>3, <2>2 DEF DropFields
    <3>2. o \in Kept => maker[o] # e
          BY <2>2, Kinds DEF DropFields, IInv, MakersFit, Exists
    <3> QED
        BY <1>1, <1>3, <2>2, <3>1, <3>2 DEF DropFields, Unref
  <2>3. ASSUME NEW u \in Users, NEW o \in Objects, NEW p \in Objects,
               \/ o \in Contexts /\ NewContext(u, o)
               \/ Create(u, p, o) \/ Spawn(u, p, o)
        PROVE  FALSE
        BY <1>1, <1>3, <2>3 DEF NewContext, Create, Spawn, Make
  <2>4. ASSUME NEW o \in Objects, Destroy(o) \/ LoopEnds(o) \/ LoopAborted(o)
        PROVE  FALSE
        BY <1>1, <1>3, <2>4 DEF Destroy, LoopEnds, LoopAborted
  <2>5. ASSUME NEW u \in Users, NEW v \in Users, NEW o \in Objects,
               Clone(u, v, o) \/ Close(u, o)
        PROVE  FALSE
        BY <1>3, <2>5 DEF Clone, Close
  <2>6. ~UNCHANGED vars
        BY <1>3 DEF vars
  <2> QED
      BY <2>1, <2>2, <2>3, <2>4, <2>5, <2>6, Kinds DEF Next, Program, Teardown
<1> QED
    BY <1>2, <1>3

LEMMA Told == Spec => []DroppedAreTold
<1>1. Init => DroppedAreTold
      BY Kinds DEF Init, DroppedAreTold
<1> QED
    BY <1>1, Invariance, ToldStep, PTL DEF Spec

-----------------------------------------------------------------------------
\* The variables stay within their types (TypeOK), and an object is held by
\* variables and by living objects made with it only.
THEOREM TypeCorrect == Spec => []TypeOK
<1>1. IInv => TypeOK
      BY DEF IInv
<1> QED
    BY <1>1, Invariance, PTL

\* Nothing is destroyed before what was made with it is off the hands of UCX
\* (MakersOutlive), however many objects, holders and threads there are.
THEOREM NothingOrphaned == Spec => []MakersOutlive
<1>1. IInv /\ DroppedAreTold => MakersOutlive
  <2> SUFFICES ASSUME IInv, DroppedAreTold, NEW o \in Kept, InUcx(o) \/ stage[o] = "live"
               PROVE  stage[maker[o]] = "live"
      BY DEF MakersOutlive
  <2>1. stage[o] \in Exists
        BY Kinds DEF InUcx, DroppedAreTold, IInv, TypeOK, Exists
  <2>2. o \in refs[maker[o]] /\ maker[o] \in Objects
        BY <2>1, Kinds DEF IInv, Counted, MakersFit, Exists
  <2> QED
      BY <2>2 DEF IInv, HoldersHoldLive
<1> QED
    BY <1>1, Invariance, Told, PTL

\* No polling task ends by itself while an endpoint of its worker lives
\* (CallsArePolled).
THEOREM LoopsOutliveEndpoints == Spec => []CallsArePolled
<1>1. IInv => CallsArePolled
  <2> SUFFICES ASSUME IInv, NEW l \in Loops \ aborted, NEW e \in Endpoints,
                      stage[l] # "none", stage[e] = "live", maker[e] = maker[l]
               PROVE  stage[l] = "live"
      BY DEF CallsArePolled
  <2>1. e \in refs[maker[l]] /\ e # l
        BY Kinds DEF IInv, Counted, Exists
  <2> QED
      BY <2>1 DEF IInv, EndedWasLast
<1> QED
    BY <1>1, Invariance, PTL
=============================================================================
