--------------------------- MODULE MCKeypadDriver ---------------------------
(* Small instances of KeypadDriver. *)
EXTENDS KeypadDriver

\* One function per key, one of them for a shift state the device never has.
OnePerKey == {[code |-> "CR", shift |-> 0, fn |-> "f"],
              [code |-> "NULL", shift |-> 0, fn |-> "f"],
              [code |-> "CR", shift |-> 1, fn |-> "g"]}

\* Two functions for one key.
TwoForOneKey == {[code |-> "CR", shift |-> 0, fn |-> "f"],
                 [code |-> "CR", shift |-> 0, fn |-> "g"]}
=============================================================================
