---------------------------- MODULE MCPipeline ----------------------------
(* TLC instance of Pipeline: two domains with one address in common, which   *)
(* may be in two places, and chains of up to two CNAMEs where one is allowed. *)
EXTENDS Pipeline, TLC

CONSTANTS k1, k2, g1

OneAddress == [t \in RTypes |-> IF t = "A" THEN Addresses ELSE {}]

(* The database knows no flag of k2, and WattTime does not cover it. *)
TwoPlaces == { [key |-> k1, anycast |-> FALSE, known |-> TRUE],
               [key |-> k1, anycast |-> TRUE, known |-> TRUE],
               [key |-> k2, anycast |-> FALSE, known |-> FALSE] }
Coverage == [k \in Keys |-> IF k = k1 THEN {g1, Null} ELSE {Null}]

Symmetry == Permutations(Domains)

Sections(q, c, e) == [n \in Owners |-> CASE n = "q" -> q [] n = "c" -> c [] n = "e" -> e]

MCResponses ==
    LET Reply2(code, answer, soa) == [rcode |-> code, answer |-> answer, soa |-> soa]
        none == Sections(NoRRset, NoRRset, NoRRset)
        soa  == [ttl |-> 3, minimum |-> 1]
    IN  { Reply2("timeout", none, Null),
          Reply2("servfail", none, Null),
          Reply2("nxdomain", none, soa),
          Reply2("noerror", none, Null),
          Reply2("noerror", none, [ttl |-> 2, minimum |-> 9]),
          Reply2("noerror", Sections(AddressRRset(2), NoRRset, NoRRset), Null),
          Reply2("noerror", Sections(Cname("c", 1), AddressRRset(2), NoRRset), Null),
          Reply2("noerror", Sections(Cname("c", 2), AddressRRset(1), NoRRset), soa),
          Reply2("noerror", Sections(Cname("c", 2), Cname("q", 1), AddressRRset(1)), soa),
          Reply2("noerror", Sections(Cname("c", 2), Cname("e", 2), AddressRRset(1)), Null) }
=============================================================================
