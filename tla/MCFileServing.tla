---------------------------- MODULE MCFileServing ----------------------------
(* An instance of FileServing for TLC.                                     *)
EXTENDS FileServing, TLC

Header(form, first, last) == [form |-> form, first |-> first, last |-> last]

(* Every form, with numbers below, at and beyond the end of the files.     *)
MCAskedFor ==
    { Header("missing", 0, 0), Header("malformed", 0, 0), Header("empty", 0, 0),
      Header("open", 0, 0), Header("open", 2, 0), Header("open", 3, 0),
      Header("suffix", 0, 0), Header("suffix", 0, 1), Header("suffix", 0, 4),
      Header("closed", 0, 0), Header("closed", 1, 2), Header("closed", 1, 3),
      Header("closed", 2, 1), Header("closed", 4, 5) }
=============================================================================
