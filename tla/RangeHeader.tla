----------------------------- MODULE RangeHeader -----------------------------
(***************************************************************************)
(* The HTTP Range header as the two readers of the repository take it:     *)
(* parseRangeHeader of files/file-serving.ts and FileController.parseRange *)
(* of files/file.controller.ts.                                            *)
(*                                                                         *)
(* A header is what their common regular expression makes of it: bytes=a-b *)
(* ("closed"), bytes=a- ("open"), bytes=-b ("suffix"), bytes=- ("empty"),  *)
(* no match ("malformed"), or no header at all ("missing"). A number that  *)
(* is not there is 0 here.                                                 *)
(***************************************************************************)
EXTENDS Integers

SingleRange == {"closed", "open", "suffix"}

Forms == SingleRange \cup {"empty", "malformed", "missing"}

Headers == [form : Forms, first : Nat, last : Nat]

(* RangeParseResult; undefined and 'invalid' of parseRange are the first   *)
(* and the second of these.                                                *)
NoRange == [kind |-> "none", start |-> 0, end |-> 0]
Unsatisfiable == [kind |-> "unsatisfiable", start |-> 0, end |-> 0]
Satisfiable(start, end) ==
    [kind |-> "satisfiable", start |-> start, end |-> end]

(* A slip: the start of a suffix range without its lower bound.            *)
SuffixStartUnbounded(h, size) == size - h.last

SuffixStart(h, size) == IF h.last <= size THEN size - h.last ELSE 0

(* A slip: an end just past the last byte is not clamped.                  *)
ParseRangeHeaderOffByOne(h, size) ==
    LET start == IF h.form = "suffix" THEN SuffixStart(h, size) ELSE h.first
        end == IF h.form = "closed" /\ h.last <= size THEN h.last ELSE size - 1
        nothing == \/ h.form = "suffix" /\ h.last = 0
                   \/ size = 0
                   \/ start > end
                   \/ start >= size
    IN  IF h.form \notin SingleRange THEN NoRange
        ELSE IF nothing THEN Unsatisfiable
        ELSE Satisfiable(start, end)

(* The end is clamped to the last byte before the bounds are compared.     *)
ParseRangeHeader(h, size) ==
    LET start == IF h.form = "suffix" THEN SuffixStart(h, size) ELSE h.first
        end == IF h.form = "closed" /\ h.last < size THEN h.last ELSE size - 1
        nothing == \/ h.form = "suffix" /\ h.last = 0
                   \/ size = 0
                   \/ start > end
                   \/ start >= size
    IN  IF h.form \notin SingleRange THEN NoRange
        ELSE IF nothing THEN Unsatisfiable
        ELSE Satisfiable(start, end)

(* The bounds are compared first, and the end is clamped afterwards. A     *)
(* header that is no single range is refused.                              *)
ParseRange(h, total) ==
    LET start == IF h.form = "suffix" THEN SuffixStart(h, total) ELSE h.first
        end == IF h.form = "closed" THEN h.last ELSE total - 1
        nothing == \/ h.form \notin SingleRange
                   \/ h.form = "suffix" /\ h.last = 0
                   \/ start > end
                   \/ start >= total
    IN  IF h.form = "missing" THEN NoRange
        ELSE IF nothing THEN Unsatisfiable
        ELSE Satisfiable(start, IF end < total THEN end ELSE total - 1)

(* What a header asks of a file, byte by byte: the meaning both are held   *)
(* against (RFC 7233, section 2.1, for a single range).                    *)
Wanted(h, size) ==
    { i \in 0 .. (size - 1) :
        CASE h.form = "closed" -> h.first <= i /\ i <= h.last
          [] h.form = "open" -> h.first <= i
          [] h.form = "suffix" -> i >= size - h.last
          [] OTHER -> TRUE }
=============================================================================
