---------------------------- MODULE ServingProofs ----------------------------
(***************************************************************************)
(* Theorems about the /files route, for files of any size, any headers and *)
(* any number of readers and of changes of the file.                       *)
(***************************************************************************)
EXTENDS FileServing, TLAPS

(* parseRangeHeader resolves a single range to the bytes that it asks for, *)
(* and calls it unsatisfiable only when these are none.                    *)
LEMMA HeaderParsed ==
    ASSUME NEW h \in Headers, NEW size \in Nat
    PROVE  LET p == ParseRangeHeader(h, size)
           IN  /\ p \in Results
               /\ p.kind = "none" <=> h.form \notin SingleRange
               /\ p.kind = "unsatisfiable" => Wanted(h, size) = {}
               /\ p.kind = "satisfiable" =>
                      /\ p.start <= p.end /\ p.end < size
                      /\ p.start .. p.end = Wanted(h, size)
<1> USE DEF Headers, Forms, SingleRange, ParseRangeHeader, SuffixStart, Wanted,
            Results, NoRange, Unsatisfiable, Satisfiable
<1>1. CASE h.form = "closed"
  BY <1>1
<1>2. CASE h.form = "open"
  BY <1>2
<1>3. CASE h.form = "suffix"
  BY <1>3
<1>4. CASE h.form \notin SingleRange
  BY <1>4
<1> QED
  BY <1>1, <1>2, <1>3, <1>4

(* The two parsers take every single range alike: they differ in what they *)
(* make of a header that is none.                                          *)
LEMMA ParsersAgree ==
    ASSUME NEW h \in Headers, NEW size \in Nat, h.form \in SingleRange
    PROVE  ParseRange(h, size) = ParseRangeHeader(h, size)
  BY DEF Headers, Forms, SingleRange, ParseRange, ParseRangeHeader, SuffixStart,
         NoRange, Unsatisfiable, Satisfiable

(* parseRange takes no header as no range and refuses a malformed one.     *)
LEMMA OtherHeaders ==
    ASSUME NEW h \in Headers, NEW size \in Nat, h.form \notin SingleRange
    PROVE  ParseRange(h, size) =
               IF h.form = "missing" THEN NoRange ELSE Unsatisfiable
  BY DEF Headers, Forms, SingleRange, ParseRange

(* What a handler decides, whichever of the two it is.                     *)
LEMMA RequestParsed ==
    ASSUME NEW q \in Requests, NEW size \in Nat
    PROVE  LET p == Parsed(q, size)
               form == q.header.form
           IN  /\ p \in Results
               /\ p.kind = "none" => form \notin SingleRange /\ p = NoRange
               /\ p.kind = "unsatisfiable" =>
                      \/ form \in SingleRange /\ Wanted(q.header, size) = {}
                      \/ /\ q.handler = "FileController"
                         /\ form \in {"empty", "malformed"}
               /\ p.kind = "satisfiable" =>
                      /\ form \in SingleRange
                      /\ p.start <= p.end /\ p.end < size
                      /\ p.start .. p.end = Wanted(q.header, size)
<1> DEFINE h == q.header
<1>1. /\ h \in Headers
      /\ q.handler \in {"FilesController", "FileController"}
  BY AskedForAssumption, HandlersAssumption DEF Requests
<1>2. CASE q.handler = "FilesController"
  <2>1. Parsed(q, size) = ParseRangeHeader(h, size)
    BY <1>2 DEF Parsed
  <2>2. ParseRangeHeader(h, size).kind = "none" => ParseRangeHeader(h, size) = NoRange
    BY DEF ParseRangeHeader, NoRange, Unsatisfiable, Satisfiable
  <2>3. ParseRangeHeader(h, size).kind # "none" => h.form \in SingleRange
    BY <1>1, HeaderParsed
  <2> QED
    BY <1>1, <2>1, <2>2, <2>3, HeaderParsed
<1>3. CASE q.handler = "FileController"
  <2>1. Parsed(q, size) = ParseRange(h, size)
    BY <1>3 DEF Parsed
  <2>2. CASE h.form \in SingleRange
    <3>1. Parsed(q, size) = ParseRangeHeader(h, size)
      BY <1>1, <2>1, <2>2, ParsersAgree
    <3> QED
      BY <1>1, <2>2, <3>1, HeaderParsed
  <2>3. CASE h.form \notin SingleRange
    <3>1. Parsed(q, size) = IF h.form = "missing" THEN NoRange ELSE Unsatisfiable
      BY <1>1, <2>1, <2>3, OtherHeaders
    <3>2. h.form \in {"missing", "empty", "malformed"}
      BY <1>1, <2>3 DEF Headers, Forms
    <3> QED
      BY <1>3, <2>3, <3>1, <3>2 DEF NoRange, Unsatisfiable, Results
  <2> QED
    BY <2>2, <2>3
<1> QED
  BY <1>1, <1>2, <1>3
-----------------------------------------------------------------------------
(* What there is to parse: a request, and the size of a file.              *)
LEMMA TypedRequest ==
    ASSUME TypeOK, NEW r \in Readers
    PROVE  request[r] \in Requests /\ file.size \in Nat
<1>1. request[r] \in Requests /\ file \in FileVersions
  BY DEF TypeOK
<1>2. file.size \in Sizes
  BY <1>1 DEF FileVersions
<1> QED
  BY <1>1, <1>2, SizesAssumption

(* What a handler does when its stat succeeds, case by case.               *)
LEMMA StatDecides ==
    ASSUME TypeOK, NEW r \in Readers, StatSucceeds(r)
    PROVE  LET p == Parsed(request[r], file.size)
           IN  /\ p \in Results
               /\ found' = [found EXCEPT ![r] = file]
               /\ range' = [range EXCEPT ![r] = p]
               /\ UNCHANGED <<file, request, opened, sent>>
               /\ \/ p.kind = "none" /\ Answer(r, 200, "open")
                  \/ p.kind = "satisfiable" /\ Answer(r, 206, "open")
                  \/ p.kind = "unsatisfiable" /\ Answer(r, 416, "ended")
<1> DEFINE p == Parsed(request[r], file.size)
<1>1. request[r] \in Requests /\ file.size \in Nat
  BY TypedRequest
<1>2. p \in Results
  BY <1>1, RequestParsed
<1> QED
  BY <1>2 DEF StatSucceeds

(* A read that fails changes the phase and the status, and nothing else.   *)
LEMMA FailedRead ==
    ASSUME TypeOK, NEW r \in Readers, ReadFails(r)
    PROVE  /\ phase' \in [Readers -> Phases]
           /\ status' \in [Readers -> {0, 200, 206, 404, 416, 500}]
           /\ UNCHANGED <<file, request, found, range, opened, sent>>
<1>1. ASSUME NEW code \in {0, 200, 206, 404, 416, 500}, NEW next \in Phases,
             Answer(r, code, next)
      PROVE  /\ phase' \in [Readers -> Phases]
             /\ status' \in [Readers -> {0, 200, 206, 404, 416, 500}]
  BY <1>1 DEF TypeOK, Answer
<1>2. /\ status[r] \in {0, 200, 206, 404, 416, 500}
      /\ "ended" \in Phases /\ "cut" \in Phases
  BY DEF TypeOK, Phases
<1>3. \/ Answer(r, 500, "ended")
      \/ Answer(r, status[r], "cut")
      \/ Answer(r, status[r], "ended")
  BY DEF ReadFails
<1> QED
  BY <1>1, <1>2, <1>3 DEF ReadFails

(* Every step keeps the state typed.                                       *)
LEMMA TypedStep ==
    ASSUME TypeOK, [Next]_vars
    PROVE  TypeOK'
<1>1. ASSUME NEW r \in Readers, Ask(r)
      PROVE  TypeOK'
  BY <1>1 DEF TypeOK, Ask, Phases, Results, NoRange
<1>2. ASSUME NEW r \in Readers, StatFails(r) \/ OpenFails(r)
      PROVE  TypeOK'
  BY <1>2 DEF TypeOK, StatFails, OpenFails, Answer, Phases
<1>3. ASSUME NEW r \in Readers, StatSucceeds(r)
      PROVE  TypeOK'
  <2> DEFINE p == Parsed(request[r], file.size)
  <2>1. /\ p \in Results
        /\ found' = [found EXCEPT ![r] = file]
        /\ range' = [range EXCEPT ![r] = p]
        /\ UNCHANGED <<file, request, opened, sent>>
    BY <1>3, StatDecides
  <2>2. \/ Answer(r, 200, "open")
        \/ Answer(r, 206, "open")
        \/ Answer(r, 416, "ended")
    BY <1>3, StatDecides
  <2> HIDE DEF p
  <2>3. /\ phase' \in [Readers -> Phases]
        /\ status' \in [Readers -> {0, 200, 206, 404, 416, 500}]
    BY <2>2 DEF TypeOK, Answer, Phases
  <2> QED
    BY <2>1, <2>3 DEF TypeOK
<1>4. ASSUME NEW r \in Readers,
             OpenStream(r) \/ SendByte(r) \/ EndStream(r) \/ ClientLeaves(r)
      PROVE  TypeOK'
  BY <1>4 DEF TypeOK, OpenStream, SendByte, EndStream, ClientLeaves, Phases
<1>5. ASSUME NEW r \in Readers, ReadFails(r)
      PROVE  TypeOK'
  BY <1>5, FailedRead DEF TypeOK
<1>6. ASSUME RemoveFile \/ PublishFile
      PROVE  TypeOK'
  <2>1. file' \in FileVersions
    <3>1. /\ file.size \in Sizes /\ file.version \in 0 .. MaxChanges
      BY DEF TypeOK, FileVersions
    <3>2. file.version < MaxChanges => file.version + 1 \in 0 .. MaxChanges
      BY <3>1, ChangesAssumption
    <3>3. CASE RemoveFile
      BY <3>1, <3>2, <3>3 DEF RemoveFile, FileVersions
    <3>4. CASE PublishFile
      BY <3>2, <3>4 DEF PublishFile, FileVersions
    <3> QED
      BY <1>6, <3>3, <3>4
  <2> QED
    BY <1>6, <2>1 DEF TypeOK, RemoveFile, PublishFile, serverVars
<1>7. CASE UNCHANGED vars
  BY <1>7 DEF TypeOK, vars, serverVars
<1> QED
  BY <1>1, <1>2, <1>3, <1>4, <1>5, <1>6, <1>7 DEF Next, Handle

(* The initial states are typed.                                           *)
LEMMA TypedInit == Init => TypeOK
  BY ChangesAssumption DEF Init, TypeOK, FileVersions, Phases, Results, NoRange

(* The state of the /files route is typed in every reachable state.        *)
THEOREM ServingTyped == Spec => []TypeOK
<1>1. TypeOK /\ [Next]_vars => TypeOK'
  BY TypedStep
<1> QED
  BY <1>1, TypedInit, PTL DEF Spec
-----------------------------------------------------------------------------
(* How the parts of an answer hang together: the status is decided before  *)
(* anything is opened, its range lies inside the file that stat saw, and   *)
(* FilesController ends a body only when its stream has given everything.  *)
AnswerConsistent(r) ==
    /\ phase[r] \in {"open", "stream"} => status[r] \in {200, 206}
    /\ status[r] = 200 => range[r] = NoRange
    /\ status[r] = 206 => range[r].start <= range[r].end /\ range[r].end < found[r].size
    /\ /\ phase[r] = "ended"
       /\ status[r] \in {200, 206}
       /\ request[r].handler = "FilesController"
       => sent[r] = StreamSize(r)

AnswerInv == \A r \in Readers : AnswerConsistent(r) /\ HonouredFor(r)

(* The answer to one reader is not touched by a step for another or by a   *)
(* change of the file.                                                     *)
LEMMA OthersKept ==
    ASSUME TypeOK, NEW r \in Readers, AnswerConsistent(r), HonouredFor(r),
           \/ \E q \in Readers \ {r} :
                  Ask(q) \/ Handle(q) \/ ReadFails(q) \/ ClientLeaves(q)
           \/ RemoveFile \/ PublishFile
           \/ UNCHANGED vars
    PROVE  AnswerConsistent(r)' /\ HonouredFor(r)'
<1> DEFINE Kept == /\ phase'[r] = phase[r] /\ request'[r] = request[r]
                   /\ found'[r] = found[r] /\ status'[r] = status[r]
                   /\ range'[r] = range[r] /\ opened'[r] = opened[r]
                   /\ sent'[r] = sent[r]
<1>1. ASSUME NEW q \in Readers \ {r}, Ask(q)
      PROVE  Kept
  BY <1>1 DEF TypeOK, Ask
<1>2. ASSUME NEW q \in Readers \ {r}, StatSucceeds(q)
      PROVE  Kept
  BY <1>2, StatDecides DEF TypeOK, Answer
<1>3. ASSUME NEW q \in Readers \ {r},
             \/ StatFails(q) \/ OpenStream(q) \/ OpenFails(q)
             \/ SendByte(q) \/ EndStream(q) \/ ReadFails(q) \/ ClientLeaves(q)
      PROVE  Kept
  BY <1>3 DEF TypeOK, StatFails, OpenStream, OpenFails, SendByte, EndStream,
     ReadFails, ClientLeaves, Answer
<1>4. ASSUME UNCHANGED serverVars
      PROVE  Kept
  BY <1>4 DEF serverVars
<1>5. RemoveFile \/ PublishFile \/ UNCHANGED vars => UNCHANGED serverVars
  BY DEF RemoveFile, PublishFile, vars
<1> HIDE DEF Kept
<1>6. Kept
  BY <1>1, <1>2, <1>3, <1>4, <1>5 DEF Handle
<1> USE DEF Kept
<1> QED
  BY <1>6 DEF AnswerConsistent, HonouredFor, StreamSize, StreamStart

(* A step for a reader keeps the answer to it consistent.                  *)
LEMMA OwnConsistent ==
    ASSUME TypeOK, NEW r \in Readers, AnswerConsistent(r),
           Ask(r) \/ Handle(r) \/ ReadFails(r) \/ ClientLeaves(r)
    PROVE  AnswerConsistent(r)'
<1> USE DEF TypeOK, AnswerConsistent
<1>1. CASE Ask(r)
  BY <1>1 DEF Ask
<1>2. CASE StatFails(r) \/ OpenFails(r)
  BY <1>2 DEF StatFails, OpenFails, Answer
<1>3. CASE StatSucceeds(r)
  <2> DEFINE p == Parsed(request[r], file.size)
  <2>1. request[r] \in Requests /\ file.size \in Nat
    BY TypedRequest
  <2>2. /\ p.kind = "none" => p = NoRange
        /\ p.kind = "satisfiable" => p.start <= p.end /\ p.end < file.size
    BY <2>1, RequestParsed
  <2> QED
    BY <1>3, <2>2, StatDecides DEF Answer
<1>4. CASE OpenStream(r) \/ SendByte(r) \/ ClientLeaves(r)
  BY <1>4 DEF OpenStream, SendByte, ClientLeaves
<1>5. CASE EndStream(r)
  BY <1>5 DEF EndStream, StreamSize, StreamStart
<1>6. CASE ReadFails(r)
  BY <1>6 DEF ReadFails, Answer
<1> QED
  BY <1>1, <1>2, <1>3, <1>4, <1>5, <1>6 DEF Handle

(* ... and honours its range: what is decided after stat stays decided.    *)
LEMMA OwnHonoured ==
    ASSUME TypeOK, NEW r \in Readers, HonouredFor(r),
           Ask(r) \/ Handle(r) \/ ReadFails(r) \/ ClientLeaves(r)
    PROVE  HonouredFor(r)'
<1>1. CASE Ask(r)
  BY <1>1 DEF Ask, TypeOK, HonouredFor
<1>2. CASE StatFails(r) \/ OpenFails(r)
  BY <1>2 DEF StatFails, OpenFails, Answer, TypeOK, HonouredFor
<1>3. CASE StatSucceeds(r)
  <2> DEFINE q == request[r]
             p == Parsed(q, file.size)
  <2>1. /\ found'[r] = file /\ range'[r] = p /\ request'[r] = q
        /\ \/ p.kind = "none" /\ status'[r] = 200
           \/ p.kind = "satisfiable" /\ status'[r] = 206
           \/ p.kind = "unsatisfiable" /\ status'[r] = 416
    BY <1>3, StatDecides DEF Answer, TypeOK
  <2>2. q \in Requests /\ file.size \in Nat
    BY TypedRequest
  <2>3. p.kind = "satisfiable" =>
            /\ q.header.form \in SingleRange
            /\ Wanted(q.header, file.size) # {}
            /\ p.start .. p.end = Wanted(q.header, file.size)
    <3>1. p.kind = "satisfiable" =>
              /\ q.header.form \in SingleRange
              /\ p.start <= p.end
              /\ p.start .. p.end = Wanted(q.header, file.size)
      BY <2>2, RequestParsed
    <3>2. p.start \in Nat /\ p.end \in Nat
      BY <2>2, RequestParsed DEF Results
    <3>3. p.start <= p.end => p.start \in p.start .. p.end
      BY <3>2
    <3> QED
      BY <3>1, <3>3
  <2>4. /\ p.kind = "none" => q.header.form \notin SingleRange
        /\ p.kind = "unsatisfiable" =>
               \/ q.header.form \in SingleRange /\ Wanted(q.header, file.size) = {}
               \/ /\ q.handler = "FileController"
                  /\ q.header.form \in {"empty", "malformed"}
    BY <2>2, RequestParsed
  <2> QED
    BY <2>1, <2>3, <2>4 DEF HonouredFor
<1>4. CASE OpenStream(r) \/ SendByte(r) \/ EndStream(r) \/ ClientLeaves(r)
  BY <1>4 DEF OpenStream, SendByte, EndStream, ClientLeaves, HonouredFor
<1>5. CASE ReadFails(r)
  BY <1>5 DEF ReadFails, Answer, TypeOK, HonouredFor
<1> QED
  BY <1>1, <1>2, <1>3, <1>4, <1>5 DEF Handle

(* Every step keeps every answer consistent and every range honoured.      *)
LEMMA AnswerStep ==
    ASSUME TypeOK, AnswerInv, [Next]_vars
    PROVE  AnswerInv'
<1> SUFFICES ASSUME NEW r \in Readers
             PROVE  AnswerConsistent(r)' /\ HonouredFor(r)'
  BY DEF AnswerInv
<1>1. AnswerConsistent(r) /\ HonouredFor(r)
  BY DEF AnswerInv
<1>2. CASE Ask(r) \/ Handle(r) \/ ReadFails(r) \/ ClientLeaves(r)
  BY <1>1, <1>2, OwnConsistent, OwnHonoured
<1>3. CASE \/ \E q \in Readers \ {r} :
                  Ask(q) \/ Handle(q) \/ ReadFails(q) \/ ClientLeaves(q)
           \/ RemoveFile \/ PublishFile
           \/ UNCHANGED vars
  BY <1>1, <1>3, OthersKept
<1> QED
  BY <1>2, <1>3 DEF Next

(* A consistent answer that FilesController ended is exact.                *)
LEMMA ConsistentIsExact ==
    ASSUME TypeOK, AnswerInv
    PROVE  EndedAnswersAreExact
<1> SUFFICES ASSUME NEW r \in Readers,
                    phase[r] = "ended", status[r] \in {200, 206},
                    request[r].handler = "FilesController", opened[r] = found[r]
             PROVE  Delivered(r) = Wanted(request[r].header, found[r].size)
  BY DEF EndedAnswersAreExact
<1>1. /\ sent[r] = StreamSize(r) /\ found[r].size \in Nat
      /\ AnswerConsistent(r) /\ HonouredFor(r) /\ range[r] \in Results
  BY SizesAssumption DEF AnswerInv, AnswerConsistent, TypeOK, FileVersions
<1>2. CASE status[r] = 206
  <2>1. /\ range[r].start <= range[r].end /\ range[r].end < opened[r].size
        /\ range[r].start .. range[r].end = Wanted(request[r].header, found[r].size)
    BY <1>1, <1>2 DEF AnswerConsistent, HonouredFor
  <2>2. sent[r] = range[r].end - range[r].start + 1
    BY <1>1, <1>2, <2>1 DEF StreamSize, StreamStart, Results
  <2>3. Delivered(r) = range[r].start .. range[r].end
    BY <1>1, <2>2 DEF Delivered, StreamStart, Results
  <2> QED
    BY <2>1, <2>3
<1>3. CASE status[r] = 200
  <2>1. range[r].start = 0 /\ request[r].header.form \notin SingleRange
    BY <1>1, <1>3 DEF AnswerConsistent, HonouredFor, NoRange
  <2>2. sent[r] = found[r].size
    BY <1>1, <1>3, <2>1 DEF StreamSize, StreamStart
  <2>3. Wanted(request[r].header, found[r].size) = 0 .. (found[r].size - 1)
    BY <2>1 DEF Wanted, SingleRange
  <2> QED
    BY <1>1, <2>1, <2>2, <2>3 DEF Delivered, StreamStart
<1> QED
  BY <1>2, <1>3

(* At the start nothing is answered.                                       *)
LEMMA AnswerInit == Init => AnswerInv
<1> SUFFICES ASSUME Init, NEW r \in Readers
             PROVE  AnswerConsistent(r) /\ HonouredFor(r)
  BY DEF AnswerInv
<1>1. phase[r] = "idle" /\ status[r] = 0
  BY DEF Init
<1> QED
  BY <1>1 DEF AnswerConsistent, HonouredFor

(* In every reachable state a decided answer names exactly the bytes that  *)
(* the header asks of the file the handler saw, for both parsers; about    *)
(* parseRangeHeader, parseRange and the branches of the two handlers.      *)
THEOREM RangeAlwaysHonoured == Spec => []RangeHonoured
<1>1. Init => TypeOK /\ AnswerInv
  BY TypedInit, AnswerInit
<1>2. TypeOK /\ AnswerInv /\ [Next]_vars => (TypeOK /\ AnswerInv)'
  BY TypedStep, AnswerStep
<1>3. AnswerInv => RangeHonoured
  BY DEF AnswerInv, RangeHonoured
<1> QED
  BY <1>1, <1>2, <1>3, PTL DEF Spec

(* In every reachable state a response that FilesController has ended has  *)
(* given exactly the bytes asked for, if the file did not change between   *)
(* its stat and its open; about FilesController.serve as a whole.          *)
THEOREM EndedExact == Spec => []EndedAnswersAreExact
<1>1. Init => TypeOK /\ AnswerInv
  BY TypedInit, AnswerInit
<1>2. TypeOK /\ AnswerInv /\ [Next]_vars => (TypeOK /\ AnswerInv)'
  BY TypedStep, AnswerStep
<1>3. TypeOK /\ AnswerInv => EndedAnswersAreExact
  BY ConsistentIsExact
<1> QED
  BY <1>1, <1>2, <1>3, PTL DEF Spec
=============================================================================
