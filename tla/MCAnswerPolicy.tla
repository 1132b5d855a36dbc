--------------------------- MODULE MCAnswerPolicy ---------------------------
(* TLC instance of AnswerPolicy: three IPv4 addresses and one IPv6 address. *)
EXTENDS AnswerPolicy, TLC

(* Addresses of one family are interchangeable. *)
Symmetry == Permutations(V4)
=============================================================================
