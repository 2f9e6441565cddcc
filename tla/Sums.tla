---------------------------------- MODULE Sums ----------------------------------
(* The sum of the values a function has on a set: units over the lines of an   *)
(* order, cents over the lots of a customer, entries over the documents of a   *)
(* month. It is the sum of the community modules, of values instead of an      *)
(* operator, so that facts about it can be stated once and cited.              *)
EXTENDS FiniteSetsExt

SumOver(f, S) == MapThenSumSet(LAMBDA x : f[x], S)
=============================================================================
