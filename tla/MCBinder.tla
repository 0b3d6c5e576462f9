------------------------------- MODULE MCBinder -------------------------------
(* Instances of Binder for TLC.  Tasks without root are interchangeable, and so
   are the names that no longer name is cut down to. *)
EXTENDS Binder, TLC

CONSTANTS LongName, ShortName   \* the names that do not fit, and what is kept of them

Cut == [n \in Name |-> IF n \in LongName THEN ShortName ELSE n]

Symmetry == Permutations(Task \ Root) \cup Permutations(Name \ (LongName \cup {ShortName}))
===============================================================================
