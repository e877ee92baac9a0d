------------------------------- MODULE Status --------------------------------
(***************************************************************************)
(* What UCX answers to a call and what the library makes of it             *)
(* (ucx1-sys/src/lib.rs, Error in lib.rs, and the places that ask).  The   *)
(* answer is one machine word: NULL when the operation is over, the        *)
(* address of a request, or an error code in the highest words.  The code  *)
(* is an 8-bit integer, so the word is told apart by unsigned comparisons  *)
(* and then cut down to its lowest byte.                                   *)
(***************************************************************************)
EXTENDS Integers

CONSTANTS Units,   \* a machine word has 256 * Units values
          Codes,   \* the error codes of UCX, those that from_error tells apart
          Last     \* UCS_ERR_LAST is -Last

ASSUME UnitsAssumption == Units \in Nat /\ Units > 1
ASSUME CodesAssumption == Last \in 2 .. 128 /\ Codes \subseteq (1 - Last) .. -1

UCS_OK == 0
UCS_ERR_LAST == -Last

WordSize == 256 * Units
Words == 0 .. WordSize - 1
NULL == 0

\* "as usize": sign extension, then the same bits read as unsigned.
Unsigned(i) == IF i < 0 THEN i + WordSize ELSE i
\* "as i8"
Byte(w) == IF w % 256 < 128 THEN w % 256 ELSE (w % 256) - 256

\* What a call ends in, or a function returns: its kind, and for an error the
\* code, which stands for the variant of Error that FromError gives it.
Result(k, c) == [kind |-> k, code |-> c]
Ok == Result("ok", UCS_OK)
Waits == Result("request", UCS_OK)
Err(c) == Result("error", c)
Panic == Result("panic", UCS_OK)
Nothing == Result("none", UCS_OK)

VARIABLES
    build,   \* debug builds check arithmetic for overflow
    call,    \* the form of the call site
    word,    \* what UCX answered to the call
    said,    \* history: what UCX meant by it
    told     \* what the caller gets

vars == <<build, call, word, said, told>>

\* Those of the library; a program may also ask UCS_PTR_STATUS itself.
Calls == {"send", "recv", "tag_recv", "close", "drop"}

\* The invariant that the variables range over the values listed above.
TypeOK ==
    /\ build \in {"debug", "release"}
    /\ call \in Calls \cup {"none", "program"}
    /\ word \in Words
    /\ said \in [kind : {"none", "ok", "request", "error"}, code : Int]
    /\ told \in [kind : {"none", "ok", "request", "error", "panic"}, code : Int]

-----------------------------------------------------------------------------
(* The macros of UCX, rewritten in Rust, and the conversions to Error.     *)

UCS_PTR_IS_ERR(w) == w >= Unsigned(UCS_ERR_LAST)

\* ptr as usize - 1 panics for NULL in a debug build and wraps in others.
IsPtrPanics(w) == w = NULL /\ build = "debug"
UCS_PTR_IS_PTR(w) ==
    (IF w = NULL THEN WordSize - 1 ELSE w - 1) < Unsigned(UCS_ERR_LAST) - 1

UCS_PTR_RAW_STATUS(w) == Byte(w)

\* An Error for each code: every arm of the match has a variant of its own,
\* which is named by the code here.  UCS_OK is no error: a debug assertion says
\* so, and a release build makes it Unknown.
FromError(c) ==
    IF c # UCS_OK THEN Err(c)
    ELSE IF build = "debug" THEN Panic
    ELSE Err(UCS_OK)

FromStatus(c) == IF c = UCS_OK THEN Ok ELSE FromError(c)

FromPtr(w) == IF UCS_PTR_IS_ERR(w) THEN FromError(UCS_PTR_RAW_STATUS(w)) ELSE Ok

UCS_PTR_STATUS(w) ==
    IF IsPtrPanics(w) THEN Panic
    ELSE IF UCS_PTR_IS_PTR(w) THEN Waits
    ELSE FromStatus(UCS_PTR_RAW_STATUS(w))

UnwrapErr(r) == IF r.kind = "ok" THEN Panic ELSE r

-----------------------------------------------------------------------------
(* The call sites.                                                         *)

\* NULL, a request, and what is left, in this order.
ThreeWayNoNull(w, rest) ==
    IF IsPtrPanics(w) THEN Panic
    ELSE IF UCS_PTR_IS_PTR(w) THEN Waits ELSE rest
ThreeWay(w, rest) ==
    IF w = NULL THEN Ok
    ELSE IF IsPtrPanics(w) THEN Panic
    ELSE IF UCS_PTR_IS_PTR(w) THEN Waits ELSE rest

\* Sends, put, get and flush; the receives of a stream and of active message
\* data; a tag receive, which waits whenever there is no error; close; and the
\* closes that only log.
Reading(c, w) ==
    CASE c \in {"send", "recv"} -> ThreeWay(w, UnwrapErr(FromPtr(w)))
      [] c = "close" -> ThreeWay(w, FromStatus(UCS_PTR_RAW_STATUS(w)))
      [] c = "tag_recv" -> IF FromPtr(w) = Ok THEN Waits ELSE FromPtr(w)
      [] c = "drop" -> FromPtr(w)
      [] c = "program" -> UCS_PTR_STATUS(w)

Init ==
    /\ build \in {"debug", "release"}
    /\ call = "none" /\ word = NULL
    /\ said = Nothing /\ told = Nothing

\* UCX answers.  No request lies in the last page of memory, and
\* ucp_tag_recv_nb does not answer NULL.
Answer(c, w, s) ==
    /\ call = "none" /\ call' = c
    /\ word' = w /\ said' = s
    /\ told' = Reading(c, w)
    /\ UNCHANGED build

AnswerNull(c) == c # "tag_recv" /\ Answer(c, NULL, Ok)
AnswerRequest(c, a) == Answer(c, a, Waits)
AnswerError(c, e) == Answer(c, Unsigned(e), Err(e))

\* The poll function finds the request at its end: poll_normal and poll_tag
\* look at its status, poll_stream and poll_recv do not.
RequestEnds(s) ==
    /\ call \in Calls \ {"drop"} /\ told = Waits
    /\ said' = IF s = UCS_OK THEN Ok ELSE Err(s)
    /\ told' = IF call = "recv" THEN Ok ELSE FromStatus(s)
    /\ UNCHANGED <<build, call, word>>

\* The caller has its answer.  (Drop keeps no track of a request.)
Return ==
    /\ call # "none" /\ (told = Waits => call = "program")
    /\ call' = "none" /\ word' = NULL
    /\ said' = Nothing /\ told' = Nothing
    /\ UNCHANGED build

Addresses == 1 .. Unsigned(UCS_ERR_LAST) - 1

Next ==
    \/ \E c \in Calls \cup {"program"} :
          \/ AnswerNull(c)
          \/ \E a \in Addresses : AnswerRequest(c, a)
          \/ \E e \in Codes : AnswerError(c, e)
    \/ \E s \in Codes \cup {UCS_OK} : RequestEnds(s)
    \/ Return

Spec == Init /\ [][Next]_vars

-----------------------------------------------------------------------------
\* The library looks no further: Drop at a request, and a receive of a stream
\* or of active message data at how its request ended.
NotAsked ==
    \/ call = "drop" /\ said = Waits
    \/ call = "recv" /\ word \in Addresses /\ said # Waits

\* Where the library asks, the caller is told what UCX meant, in every build:
\* no answer is taken for one of another kind, an error keeps its code through
\* the word and its lowest byte, and no conversion panics.  Where it does not
\* ask it says Ok, whatever UCX meant: a receive whose request fails is told
\* so only when UCX refuses it at once.  A program that asks UCS_PTR_STATUS is
\* told what UCX meant, too, except that a debug build panics for NULL, as the
\* macros of UCX do not.
ToldWhatWasSaid ==
    /\ call \in Calls => told = IF NotAsked THEN Ok ELSE said
    /\ call = "program" => told = IF word = NULL /\ build = "debug" THEN Panic ELSE said
=============================================================================
