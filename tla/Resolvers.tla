----------------------------- MODULE Resolvers -----------------------------
(***************************************************************************)
(* What a measurement makes of the upstream resolvers' responses: the      *)
(* operators parse_response (resolvers/pool.py) and classify               *)
(* (worker/pipeline.py).  A response keeps its rcode, the RRset of each    *)
(* owner name in its answer section (an RRset of the wanted type, a CNAME, *)
(* or neither) and the SOA of its authority section.  "timeout" and        *)
(* "error" stand for a query that raised.                                  *)
(***************************************************************************)
EXTENDS Integers, Sequences, FiniteSetsExt

CONSTANTS
    Resolvers,      \* Settings.resolvers
    Owners,         \* owner names of answer sections
    QName,          \* the name that is measured
    MaxHops,        \* MAX_CNAME_HOPS
    FailedRetry,    \* Settings.failed_retry_seconds
    NegativeMin,    \* Settings.negative_min_seconds
    NegativeMax,    \* Settings.negative_max_seconds
    Null            \* None

ASSUME ResolversAssumption ==
    /\ QName \in Owners
    /\ {MaxHops, FailedRetry, NegativeMin, NegativeMax} \subseteq Nat
    /\ NegativeMin <= NegativeMax /\ Null \notin Int

RTypes == {"A", "AAAA"}
Pairs == Resolvers \X RTypes

AddressRRset(ttl) == [type |-> "address", ttl |-> ttl]
Cname(target, ttl) == [type |-> "cname", target |-> target, ttl |-> ttl]
NoRRset == [type |-> "none"]

Response ==
    [ rcode  : STRING,
      answer : [Owners -> [type : {"address"}, ttl : Nat] \union {NoRRset}
                          \union [type : {"cname"}, target : Owners, ttl : Nat]],
      soa    : [ttl : Nat, minimum : Nat] \union {Null} ]

-----------------------------------------------------------------------------
(* The TTL of the addresses a response leads to: the least over the chain,   *)
(* Null without addresses.  ChainTtl(r)[h][name] has h hops left.            *)
Follow(r, rest) ==
    [name \in Owners |->
        LET rr == r.answer[name]
        IN  CASE rr.type = "address" -> rr.ttl
              [] rr.type = "cname" /\ rest[rr.target] # Null -> Min({rr.ttl, rest[rr.target]})
              [] OTHER -> Null]

Nowhere == [name \in Owners |-> Null]

ChainTtl(r) ==
    LET ttl[h \in 0..MaxHops] == Follow(r, IF h = 0 THEN Nowhere ELSE ttl[h - 1])
    IN  ttl

(* Variant: the SOA's MINIMUM field is left out. *)
negative_ttl_of_soa(r) == IF r.soa = Null THEN Null ELSE r.soa.ttl

negative_ttl(r) == IF r.soa = Null THEN Null ELSE Min({r.soa.ttl, r.soa.minimum})

parse_response(r) ==
    LET ttl == IF r.rcode = "noerror" THEN ChainTtl(r)[MaxHops][QName] ELSE Null
    IN  [ status |-> r.rcode, ttl |-> ttl,
          negative_ttl |-> IF r.rcode \in {"noerror", "nxdomain"} /\ ttl = Null
                           THEN negative_ttl(r) ELSE Null ]

Definitive(answer) == answer.status \in {"noerror", "nxdomain"}

-----------------------------------------------------------------------------
(* classify: one outcome from the answers of all pairs.  `ttls' stands for   *)
(* Outcome.records: the pairs that brought addresses, with their TTL.        *)
Outcome(status, retry_after, answers) ==
    [ status |-> status, retry_after |-> retry_after,
      ttls |-> [p \in Pairs |-> answers[p].ttl] ]

Backoff(answers) ==
    LET ttls == {answers[p].negative_ttl : p \in Pairs} \ {Null}
        backoff == IF ttls = {} THEN NegativeMin ELSE Min(ttls)
    IN  Max({NegativeMin, Min({NegativeMax, backoff})})

Answered(answers) ==
    \A rtype \in RTypes : \E res \in Resolvers : Definitive(answers[<<res, rtype>>])

classify(answers) ==
    CASE ~Answered(answers) -> Outcome("failed", FailedRetry, answers)
      [] Answered(answers) /\ \E p \in Pairs : answers[p].ttl # Null ->
            Outcome("resolved", Null, answers)
      [] OTHER ->
            Outcome(IF \E p \in Pairs : answers[p].status = "nxdomain" THEN "nxdomain" ELSE "nodata",
                    Backoff(answers), answers)
=============================================================================
