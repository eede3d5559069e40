----------------------------- MODULE FileServing -----------------------------
(***************************************************************************)
(* The /files route over one file that a worker may replace or remove      *)
(* meanwhile, as it does when a retried upload is processed again.         *)
(*                                                                         *)
(* The repository has two handlers of the route, FilesController and       *)
(* FileController. A handler awaits stat and answers from its result; the  *)
(* stream it creates opens the file later and reads it piece by piece. The *)
(* opened file is not changed by a rename over its name or by its removal. *)
(***************************************************************************)
EXTENDS RangeHeader

CONSTANTS
    Readers,      \* clients of the route
    Handlers,     \* the handlers that serve it
    AskedFor,     \* the Range headers clients send
    Sizes,        \* sizes the file may have
    MaxChanges    \* bound on the replacements and removals of the file

ASSUME HandlersAssumption == Handlers \subseteq {"FilesController", "FileController"}
ASSUME AskedForAssumption == AskedFor \subseteq Headers
ASSUME SizesAssumption == Sizes \subseteq Nat /\ Sizes # {}
ASSUME ChangesAssumption == MaxChanges \in Nat

VARIABLES
    file,      \* what is at the path
    phase,     \* phase[r]: where the handler of r's request stands
    request,   \* request[r]: the handler and the header
    found,     \* found[r]: the file that stat saw
    status,    \* status[r]: the HTTP status of the response, 0 before
    range,     \* range[r]: what the header was parsed to
    opened,    \* opened[r]: the file that the stream opened
    sent       \* sent[r]: bytes written to the response

serverVars == <<phase, request, found, status, range, opened, sent>>
vars == <<file, serverVars>>

(* The version counts the changes, so that two versions of one size differ *)
FileVersions == [exists : BOOLEAN, size : Sizes, version : 0 .. MaxChanges]

(* "ended": res.end was called; "cut": the connection was destroyed.       *)
Phases == {"idle", "stat", "open", "stream", "ended", "cut"}

Requests == [handler : Handlers, header : AskedFor]

Results == [kind : {"none", "satisfiable", "unsatisfiable"}, start : Nat, end : Nat]

TypeOK ==
    /\ file \in FileVersions
    /\ phase \in [Readers -> Phases]
    /\ request \in [Readers -> Requests]
    /\ found \in [Readers -> FileVersions]
    /\ status \in [Readers -> {0, 200, 206, 404, 416, 500}]
    /\ range \in [Readers -> Results]
    /\ opened \in [Readers -> FileVersions]
    /\ sent \in [Readers -> Nat]

Init ==
    \E size \in Sizes, q \in Requests :
        /\ file = [exists |-> TRUE, size |-> size, version |-> 0]
        /\ phase = [r \in Readers |-> "idle"]
        /\ request = [r \in Readers |-> q]
        /\ found = [r \in Readers |-> file]
        /\ status = [r \in Readers |-> 0]
        /\ range = [r \in Readers |-> NoRange]
        /\ opened = [r \in Readers |-> file]
        /\ sent = [r \in Readers |-> 0]
-----------------------------------------------------------------------------
(* A client asks, again and again: a player that seeks sends a new request *)
Ask(r) ==
    /\ phase[r] \in {"idle", "ended", "cut"}
    /\ \E q \in Requests : request' = [request EXCEPT ![r] = q]
    /\ phase' = [phase EXCEPT ![r] = "stat"]
    /\ status' = [status EXCEPT ![r] = 0]
    /\ range' = [range EXCEPT ![r] = NoRange]
    /\ sent' = [sent EXCEPT ![r] = 0]
    /\ UNCHANGED <<file, found, opened>>

Answer(r, code, next) ==
    /\ status' = [status EXCEPT ![r] = code]
    /\ phase' = [phase EXCEPT ![r] = next]

Parsed(q, size) ==
    IF q.handler = "FilesController" THEN ParseRangeHeader(q.header, size)
    ELSE ParseRange(q.header, size)

(* stat throws: 404                                                        *)
StatFails(r) ==
    /\ phase[r] = "stat"
    /\ ~file.exists
    /\ Answer(r, 404, "ended")
    /\ UNCHANGED <<file, request, found, range, opened, sent>>

(* The header is parsed against the size that stat gave, and the answer    *)
(* decided: 416, or the stream of a range or of the whole file.            *)
StatSucceeds(r) ==
    /\ phase[r] = "stat"
    /\ file.exists
    /\ found' = [found EXCEPT ![r] = file]
    /\ LET p == Parsed(request[r], file.size)
       IN  /\ range' = [range EXCEPT ![r] = p]
           /\ \/ p.kind = "unsatisfiable" /\ Answer(r, 416, "ended")
              \/ p.kind = "satisfiable" /\ Answer(r, 206, "open")
              \/ p.kind = "none" /\ Answer(r, 200, "open")
    /\ UNCHANGED <<file, request, opened, sent>>

(* createReadStream opens the path, by now perhaps another file or none.   *)
OpenStream(r) ==
    /\ phase[r] = "open"
    /\ file.exists
    /\ opened' = [opened EXCEPT ![r] = file]
    /\ phase' = [phase EXCEPT ![r] = "stream"]
    /\ UNCHANGED <<file, request, found, status, range, sent>>

(* A listener that logs the error and does not end the response.           *)
OpenFailsUnended(r) ==
    /\ phase[r] = "open"
    /\ ~file.exists
    /\ UNCHANGED vars

OpenFails(r) ==
    /\ phase[r] = "open"
    /\ ~file.exists
    /\ Answer(r, 500, "ended")
    /\ UNCHANGED <<file, request, found, range, opened, sent>>

(* The bytes the stream has to give, up to the end of the opened file.     *)
StreamStart(r) == range[r].start
StreamSize(r) ==
    LET last == IF status[r] = 206 /\ range[r].end < opened[r].size
                THEN range[r].end
                ELSE opened[r].size - 1
    IN  IF StreamStart(r) <= last THEN last - StreamStart(r) + 1 ELSE 0

SendByte(r) ==
    /\ phase[r] = "stream"
    /\ sent[r] < StreamSize(r)
    /\ sent' = [sent EXCEPT ![r] = @ + 1]
    /\ UNCHANGED <<file, phase, request, found, status, range, opened>>

EndStream(r) ==
    /\ phase[r] = "stream"
    /\ sent[r] = StreamSize(r)
    /\ phase' = [phase EXCEPT ![r] = "ended"]
    /\ UNCHANGED <<file, request, found, status, range, opened, sent>>

(* A slip: both handlers end the response when a read fails.               *)
ReadFailsEnding(r) ==
    /\ phase[r] = "stream"
    /\ Answer(r, IF sent[r] = 0 THEN 500 ELSE status[r], "ended")
    /\ UNCHANGED <<file, request, found, range, opened, sent>>

(* The volume fails a read. Headers are sent with the first byte: before   *)
(* it the status is still open; after it FilesController destroys the      *)
(* connection, while FileController ends the response as if it were whole. *)
ReadFails(r) ==
    /\ phase[r] = "stream"
    /\ \/ sent[r] = 0 /\ Answer(r, 500, "ended")
       \/ /\ sent[r] > 0
          /\ request[r].handler = "FilesController"
          /\ Answer(r, status[r], "cut")
       \/ /\ sent[r] > 0
          /\ request[r].handler = "FileController"
          /\ Answer(r, status[r], "ended")
    /\ UNCHANGED <<file, request, found, range, opened, sent>>

(* The client goes away in the middle of the body, as a player that seeks. *)
ClientLeaves(r) ==
    /\ phase[r] = "stream"
    /\ phase' = [phase EXCEPT ![r] = "idle"]
    /\ UNCHANGED <<file, request, found, status, range, opened, sent>>
-----------------------------------------------------------------------------
(* The worker clears the final directory (rm) ...                          *)
RemoveFile ==
    /\ file.exists /\ file.version < MaxChanges
    /\ file' = [exists |-> FALSE, size |-> file.size, version |-> file.version + 1]
    /\ UNCHANGED serverVars

(* ... and moves a new file into place (rename).                           *)
PublishFile ==
    /\ file.version < MaxChanges
    /\ \E size \in Sizes :
           file' = [exists |-> TRUE, size |-> size, version |-> file.version + 1]
    /\ UNCHANGED serverVars

Handle(r) ==
    \/ StatFails(r) \/ StatSucceeds(r) \/ OpenStream(r) \/ OpenFails(r)
    \/ SendByte(r) \/ EndStream(r)

Next ==
    \/ \E r \in Readers : Ask(r) \/ Handle(r) \/ ReadFails(r) \/ ClientLeaves(r)
    \/ RemoveFile
    \/ PublishFile

Spec == Init /\ [][Next]_vars

(* A handler goes on by itself: its awaits are file-system calls that end. *)
FairSpec == Spec /\ \A r \in Readers : WF_vars(Handle(r))
-----------------------------------------------------------------------------
(* What the client has got of the opened file.                             *)
Delivered(r) == StreamStart(r) .. (StreamStart(r) + sent[r] - 1)

(* Once it is decided, a 206 answer names exactly the bytes that the       *)
(* header asks of the file that stat saw, and 416 is given only when it    *)
(* asks for none of them or, by FileController, when it is no single       *)
(* range; the whole file is sent only for a header that is none. About the *)
(* clamping, the suffix and the empty file in the two parsers. A reversed  *)
(* range asks for nothing here, as in the code; RFC 7233 would ignore it.  *)
HonouredFor(r) ==
    LET header == request[r].header
        wanted == Wanted(header, found[r].size)
    IN  /\ status[r] = 206 =>
               /\ header.form \in SingleRange
               /\ wanted # {}
               /\ range[r].start .. range[r].end = wanted
        /\ status[r] = 416 =>
               \/ header.form \in SingleRange /\ wanted = {}
               \/ /\ request[r].handler = "FileController"
                  /\ header.form \in {"empty", "malformed"}
        /\ status[r] = 200 => header.form \notin SingleRange

RangeHonoured == \A r \in Readers : HonouredFor(r)

(* A response that FilesController ends carries exactly the bytes that the *)
(* header asks for, no fewer and no more, unless the worker changed the    *)
(* file between the stat and the open of the handler: a failing read shows *)
(* as a destroyed connection. About the error handlers of the two streams, *)
(* files.controller.ts:64-70 and 79-85, and the bounds they are given.     *)
EndedAnswersAreExact ==
    \A r \in Readers :
        /\ phase[r] = "ended"
        /\ status[r] \in {200, 206}
        /\ request[r].handler = "FilesController"
        /\ opened[r] = found[r]
        => Delivered(r) = Wanted(request[r].header, found[r].size)

(* Every request is answered or its client goes: no change of the file and *)
(* no failing read leaves a response open for ever.                        *)
EveryRequestAnswered ==
    \A r \in Readers : phase[r] = "stat" ~> phase[r] \in {"ended", "cut", "idle"}
=============================================================================
