---------------------------- MODULE StatusProofs -----------------------------
(***************************************************************************)
(* Proofs about Status, for machine words of any width and any error codes *)
(* that fit in a byte.                                                     *)
(***************************************************************************)
EXTENDS Status, TLAPS

USE DEF UCS_OK, UCS_ERR_LAST, NULL, WordSize

\* An error code survives its way through a word: it is put into the highest
\* words, and the lowest byte of that word is the code again.
LEMMA CodeSurvives ==
    ASSUME NEW e \in Codes
    PROVE  /\ Unsigned(e) \in Words /\ Unsigned(e) # NULL
           /\ UCS_PTR_IS_ERR(Unsigned(e))
           /\ ~UCS_PTR_IS_PTR(Unsigned(e))
           /\ UCS_PTR_RAW_STATUS(Unsigned(e)) = e
<1>1. e \in Int /\ e < 0 /\ e >= 1 - Last /\ Last \in Int /\ Last >= 2 /\ Last =< 128
      BY CodesAssumption
<1>2. Unsigned(e) = e + 256 * Units /\ Unsigned(-Last) = 256 * Units - Last
      BY <1>1, UnitsAssumption DEF Unsigned
<1>3. Units \in Int /\ 256 * Units \in Int /\ 256 * Units >= 512
      BY UnitsAssumption
<1>4. (e + 256 * Units) % 256 = e + 256
      BY <1>1, <1>3
<1>5. UCS_PTR_RAW_STATUS(Unsigned(e)) = e
      BY <1>1, <1>2, <1>4 DEF UCS_PTR_RAW_STATUS, Byte
<1>6. /\ Unsigned(e) \in Words /\ Unsigned(e) # NULL
      /\ UCS_PTR_IS_ERR(Unsigned(e)) /\ ~UCS_PTR_IS_PTR(Unsigned(e))
      BY <1>1, <1>2, <1>3 DEF Words, UCS_PTR_IS_ERR, UCS_PTR_IS_PTR
<1> QED
    BY <1>5, <1>6

LEMMA ErrorNoAddress ==
    ASSUME NEW e \in Codes PROVE Unsigned(e) \notin Addresses
<1>1. e \in Int /\ e < 0 /\ e >= 1 - Last /\ Last \in Int /\ Last >= 2 /\ Last =< 128
      BY CodesAssumption
<1>2. Unsigned(e) = e + 256 * Units /\ Unsigned(-Last) = 256 * Units - Last
      BY <1>1, UnitsAssumption DEF Unsigned
<1>3. Units \in Int /\ 256 * Units \in Int
      BY UnitsAssumption
<1> QED
    BY <1>1, <1>2, <1>3 DEF Addresses

\* An address is neither NULL nor an error.
LEMMA AddressIsPtr ==
    ASSUME NEW a \in Addresses
    PROVE  a \in Words /\ a # NULL /\ ~UCS_PTR_IS_ERR(a) /\ UCS_PTR_IS_PTR(a)
<1>1. Last \in Int /\ Last >= 2 /\ Last =< 128
      BY CodesAssumption
<1>2. Unsigned(-Last) = 256 * Units - Last /\ 256 * Units \in Int /\ 256 * Units >= 512
      BY <1>1, UnitsAssumption DEF Unsigned
<1> QED
    BY <1>1, <1>2 DEF Addresses, Words, UCS_PTR_IS_ERR, UCS_PTR_IS_PTR

LEMMA NullIsOk ==
    NULL \in Words /\ ~UCS_PTR_IS_ERR(NULL)
<1>1. Last \in Int /\ Last >= 2 /\ Last =< 128
      BY CodesAssumption
<1>2. Unsigned(-Last) = 256 * Units - Last /\ 256 * Units \in Int /\ 256 * Units >= 512
      BY <1>1, UnitsAssumption DEF Unsigned
<1> QED
    BY <1>1, <1>2 DEF Words, UCS_PTR_IS_ERR

\* The readings of the call sites.
LEMMA ReadsNull ==
    ASSUME NEW c \in Calls, c # "tag_recv" PROVE Reading(c, NULL) = Ok
  BY NullIsOk DEF Calls, Reading, ThreeWay, FromPtr

LEMMA ReadsRequest ==
    ASSUME NEW c \in Calls, NEW a \in Addresses
    PROVE  Reading(c, a) = IF c = "drop" THEN Ok ELSE Waits
  BY AddressIsPtr DEF Calls, Reading, ThreeWay, FromPtr, IsPtrPanics

LEMMA ReadsError ==
    ASSUME NEW c \in Calls, NEW e \in Codes
    PROVE  Reading(c, Unsigned(e)) = Err(e)
<1>1. e # 0
      BY CodesAssumption
<1>2. FromPtr(Unsigned(e)) = Err(e)
      BY <1>1, CodeSurvives DEF FromPtr, FromError
<1>3. FromStatus(UCS_PTR_RAW_STATUS(Unsigned(e))) = Err(e)
      BY <1>1, CodeSurvives DEF FromStatus, FromError
<1>4. Err(e) # Ok /\ UnwrapErr(Err(e)) = Err(e)
      BY DEF Err, Ok, Result, UnwrapErr
<1>5. ThreeWay(Unsigned(e), Err(e)) = Err(e)
      BY CodeSurvives DEF ThreeWay, IsPtrPanics
<1> QED
    BY <1>2, <1>3, <1>4, <1>5 DEF Calls, Reading

\* What a program that asks UCS_PTR_STATUS is told.
LEMMA ProgramReadsNull ==
    Reading("program", NULL) = IF build = "debug" THEN Panic ELSE Ok
<1>1. Last \in Int /\ Last >= 2 /\ Last =< 128
      BY CodesAssumption
<1>2. Unsigned(-Last) = 256 * Units - Last /\ 256 * Units \in Int /\ 256 * Units >= 512
      BY <1>1, UnitsAssumption DEF Unsigned
<1>3. ~UCS_PTR_IS_PTR(NULL)
      BY <1>1, <1>2 DEF UCS_PTR_IS_PTR
<1>4. FromStatus(UCS_PTR_RAW_STATUS(NULL)) = Ok
      BY DEF UCS_PTR_RAW_STATUS, Byte, FromStatus
<1> QED
    BY <1>3, <1>4 DEF Reading, UCS_PTR_STATUS, IsPtrPanics

LEMMA ProgramReadsRequest ==
    ASSUME NEW a \in Addresses PROVE Reading("program", a) = Waits
  BY AddressIsPtr DEF Reading, UCS_PTR_STATUS, IsPtrPanics

LEMMA ProgramReadsError ==
    ASSUME NEW e \in Codes PROVE Reading("program", Unsigned(e)) = Err(e)
<1>1. e # 0
      BY CodesAssumption
<1>2. FromStatus(UCS_PTR_RAW_STATUS(Unsigned(e))) = Err(e)
      BY <1>1, CodeSurvives DEF FromStatus, FromError
<1> QED
    BY <1>2, CodeSurvives DEF Reading, UCS_PTR_STATUS, IsPtrPanics

-----------------------------------------------------------------------------
\* UCX means a request by an address only.
RequestsHaveAddresses == said = Waits => word \in Addresses

IInv == TypeOK /\ RequestsHaveAddresses /\ ToldWhatWasSaid

LEMMA InitInv == Init => IInv
  BY NullIsOk DEF Init, IInv, TypeOK, RequestsHaveAddresses, ToldWhatWasSaid,
     Nothing, Waits, Result, Calls

\* An answer of UCX to a call.
LEMMA AnswerStep ==
    ASSUME IInv, NEW c \in Calls \cup {"program"},
           \/ AnswerNull(c)
           \/ \E a \in Addresses : AnswerRequest(c, a)
           \/ \E e \in Codes : AnswerError(c, e)
    PROVE  IInv'
<1>1. PICK w \in Words, s \in {Ok, Waits} \cup {Err(e) : e \in Codes} :
          /\ Answer(c, w, s)
          /\ s = Waits <=> w \in Addresses
          /\ c \in Calls => Reading(c, w) = IF c = "drop" /\ s = Waits THEN Ok ELSE s
          /\ c = "program" =>
                Reading(c, w) = IF w = NULL /\ build = "debug" THEN Panic ELSE s
  <2>1. CASE AnswerNull(c)
    <3>1. NULL \notin Addresses
          BY AddressIsPtr
    <3> QED
        BY <2>1, <3>1, NullIsOk, ReadsNull, ProgramReadsNull
        DEF AnswerNull, Ok, Waits, Result
  <2>2. ASSUME NEW a \in Addresses, AnswerRequest(c, a)
        PROVE  /\ a \in Words /\ Answer(c, a, Waits)
               /\ c \in Calls => Reading(c, a) = IF c = "drop" THEN Ok ELSE Waits
               /\ c = "program" => Reading(c, a) = Waits
               /\ a # NULL
        BY <2>2, AddressIsPtr, ReadsRequest, ProgramReadsRequest DEF AnswerRequest
  <2>3. ASSUME NEW e \in Codes, AnswerError(c, e)
        PROVE  /\ Unsigned(e) \in Words /\ Answer(c, Unsigned(e), Err(e))
               /\ c \in Calls \cup {"program"} => Reading(c, Unsigned(e)) = Err(e)
               /\ Unsigned(e) # NULL /\ Unsigned(e) \notin Addresses /\ Err(e) # Waits
        BY <2>3, CodeSurvives, ErrorNoAddress, ReadsError, ProgramReadsError DEF AnswerError, Err, Waits, Result
  <2> QED
      BY <2>1, <2>2, <2>3
<1>2. s \in [kind : {"ok", "request", "error"}, code : Int]
      BY CodesAssumption DEF Ok, Waits, Err, Result
<1>3. Ok \in [kind : {"ok"}, code : Int]
      BY DEF Ok, Result
<1>4. Panic \in [kind : {"panic"}, code : Int]
      BY DEF Panic, Result
<1>5. Reading(c, w) \in [kind : {"ok", "request", "error", "panic"}, code : Int]
      BY <1>1, <1>2, <1>3, <1>4
<1>6. TypeOK'
      BY <1>1, <1>2, <1>5 DEF IInv, TypeOK, Answer, Calls
<1>7. ToldWhatWasSaid' /\ RequestsHaveAddresses'
      BY <1>1 DEF Answer, ToldWhatWasSaid, NotAsked, RequestsHaveAddresses
<1> QED
    BY <1>6, <1>7 DEF IInv

LEMMA EndStep ==
    ASSUME IInv, NEW s \in Codes \cup {UCS_OK}, RequestEnds(s)
    PROVE  IInv'
<1>1. /\ FromStatus(s) = said' /\ said' # Waits
      /\ said' \in [kind : {"ok", "error"}, code : Int]
      BY CodesAssumption DEF RequestEnds, FromStatus, FromError, Ok, Err, Waits, Result
<1>2. /\ call' = call /\ build' = build /\ word' = word
      /\ call \in Calls \ {"drop"} /\ call # "program"
      /\ told' = IF call = "recv" THEN Ok ELSE said'
      BY <1>1 DEF RequestEnds, Calls
<1>3. Ok \in [kind : {"ok"}, code : Int] /\ Ok # Waits
      BY DEF Ok, Waits, Result
<1>4. word \in Addresses
      BY <1>3 DEF RequestEnds, IInv, ToldWhatWasSaid, RequestsHaveAddresses
<1>5. TypeOK'
      BY <1>1, <1>2, <1>3 DEF IInv, TypeOK
<1> QED
    BY <1>1, <1>2, <1>4, <1>5 DEF IInv, ToldWhatWasSaid, NotAsked, RequestsHaveAddresses

LEMMA StepInv == IInv /\ [Next]_vars => IInv'
<1> SUFFICES ASSUME IInv, [Next]_vars PROVE IInv'
    OBVIOUS
<1>1. CASE Return
      BY <1>1, NullIsOk DEF Return, IInv, TypeOK, RequestsHaveAddresses, ToldWhatWasSaid,
         Nothing, Waits, Result, Calls
<1>2. CASE UNCHANGED vars
      BY <1>2 DEF vars, IInv, TypeOK, RequestsHaveAddresses, ToldWhatWasSaid, NotAsked
<1> QED
    BY <1>1, <1>2, AnswerStep, EndStep DEF Next

THEOREM Invariance == Spec => []IInv
  BY InitInv, StepInv, PTL DEF Spec

\* The variables stay within their types (TypeOK), whatever the word width.
THEOREM TypeCorrect == Spec => []TypeOK
<1>1. IInv => TypeOK
      BY DEF IInv
<1> QED
    BY <1>1, Invariance, PTL

\* Where the library asks, its caller is told what UCX meant, and elsewhere Ok
\* (ToldWhatWasSaid): NULL, addresses and errors are told apart, codes survive,
\* nothing panics.
THEOREM AnswersReadRight == Spec => []ToldWhatWasSaid
<1>1. IInv => ToldWhatWasSaid
      BY DEF IInv
<1> QED
    BY <1>1, Invariance, PTL
=============================================================================
