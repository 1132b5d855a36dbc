---------------------------- MODULE AnswerPolicy ----------------------------
(***************************************************************************)
(* What CA-DNS answers for one name: the SQL functions dlz_findzone and    *)
(* dlz_lookup (db/migrations/0002_dlz_functions.sql) over the records that *)
(* store_measurement wrote (worker/store.py) and the carbon signals of     *)
(* their addresses, while time passes.                                     *)
(*                                                                         *)
(* The clock counts ticks, TicksPerSecond of them a second, because now()  *)
(* is finer than the whole seconds of a TTL.  An address stands for its    *)
(* endpoint: moer is the latest signal of the endpoint's region, Unknown   *)
(* if there is no endpoint, region or signal, or the address is anycast.   *)
(* The SOA serial and the text of SOA and NS are left out.                 *)
(***************************************************************************)
EXTENDS Integers, FiniteSets, FiniteSetsExt

CONSTANTS
    Addresses,       \* of both families
    V4,              \* the IPv4 ones: an A record has one of these
    Ttls,            \* TTLs upstream resolvers hand out, in seconds
    Moers,           \* carbon intensities
    Unknown,         \* no carbon intensity: NULL
    AnswerK,         \* settings.answer_k
    MaxAnswerTtl,    \* settings.max_answer_ttl
    MinRecordTtl,    \* settings.min_record_ttl
    TicksPerSecond,
    MaxRecords,      \* bound of the model: records of one measurement
    MaxTime          \* bound of the model: the clock stops here

ASSUME AnswerAssumption ==
    /\ V4 \subseteq Addresses
    /\ Ttls \subseteq Nat /\ Moers \subseteq Nat /\ Unknown \notin Nat
    /\ AnswerK \in Nat \ {0} /\ MaxAnswerTtl \in Nat \ {0} /\ MinRecordTtl \in Nat
    /\ TicksPerSecond \in Nat \ {0} /\ MaxRecords \in Nat /\ MaxTime \in Nat

VARIABLES
    now,       \* database time, in ticks
    records,   \* cadns.rrset_records of the name
    moer       \* per address: the MOER it is ranked by

vars == <<now, records, moer>>

Family(a) == IF a \in V4 THEN "A" ELSE "AAAA"

Init ==
    /\ now = 0
    /\ records = {}
    /\ moer \in [Addresses -> Moers \union {Unknown}]

-----------------------------------------------------------------------------
Tick ==
    /\ now < MaxTime
    /\ now' = now + 1
    /\ UNCHANGED <<records, moer>>

(* store_measurement, resolved: the name's records are replaced.  Two         *)
(* resolvers may give the same address with different TTLs.                   *)
Expiry(ttl) == now + TicksPerSecond * (IF ttl > MinRecordTtl THEN ttl ELSE MinRecordTtl)

(* Variant: every record is stored as an A record. *)
StoreResolvedAsA(answers) ==
    /\ records' = {[rtype |-> "A", address |-> x[1], expires_at |-> Expiry(x[2])] : x \in answers}
    /\ UNCHANGED <<now, moer>>

StoreResolved(answers) ==
    /\ records' = {[rtype |-> Family(x[1]), address |-> x[1], expires_at |-> Expiry(x[2])] :
                      x \in answers}
    /\ UNCHANGED <<now, moer>>

(* store_measurement, nxdomain or nodata: no longer served. *)
StoreNegative ==
    /\ records # {}
    /\ records' = {}
    /\ UNCHANGED <<now, moer>>

(* A newer signal, a moved or lost endpoint: the MOER of an address changes. *)
SignalChange(a, m) ==
    /\ m # moer[a]
    /\ moer' = [moer EXCEPT ![a] = m]
    /\ UNCHANGED <<now, records>>

-----------------------------------------------------------------------------
(* dlz_findzone: there are records, and each stored type has a fresh one. *)
StoredTypes == {r.rtype : r \in records}

LastExpiry(type) == Max({r.expires_at : r \in {x \in records : x.rtype = type}})

(* Variant: one fresh type is enough. *)
FindzoneAnyType ==
    /\ records # {}
    /\ \E type \in StoredTypes : LastExpiry(type) > now

dlz_findzone ==
    /\ records # {}
    /\ \A type \in StoredTypes : LastExpiry(type) > now

(* dlz_lookup: the fresh addresses of a type with their latest expiry ... *)
Fresh(type) == {r.address : r \in {x \in records : x.rtype = type /\ x.expires_at > now}}

ExpiresAt(a) == Max({r.expires_at : r \in {x \in records : x.address = a}})

(* ... ranked by MOER, unknown last, ties in any order ... *)
(* Variant: unknown MOER sorts first. *)
RanksBeforeNullsFirst(a, b) ==
    /\ moer[b] # Unknown
    /\ moer[a] = Unknown \/ moer[a] < moer[b]

RanksBefore(a, b) ==
    /\ moer[a] # Unknown
    /\ moer[b] = Unknown \/ moer[a] < moer[b]

(* ... of which the first answer_k are chosen: any of these sets. *)
Chosen(type) ==
    LET fresh == Fresh(type)
        count == IF Cardinality(fresh) < AnswerK THEN Cardinality(fresh) ELSE AnswerK
    IN  {s \in SUBSET fresh :
            /\ Cardinality(s) = count
            /\ \A a \in s, b \in fresh \ s : ~RanksBefore(b, a)}

(* The TTL of an RRset: what is left of its first record to expire, capped. *)
(* Variant: the last record to expire decides. *)
RRsetTtlOfLast(addresses) ==
    LET left == (Max({ExpiresAt(a) : a \in addresses}) - now) \div TicksPerSecond
        capped == IF left < MaxAnswerTtl THEN left ELSE MaxAnswerTtl
    IN  IF capped > 1 THEN capped ELSE 1

RRsetTtl(addresses) ==
    LET left == (Min({ExpiresAt(a) : a \in addresses}) - now) \div TicksPerSecond
        capped == IF left < MaxAnswerTtl THEN left ELSE MaxAnswerTtl
    IN  IF capped > 1 THEN capped ELSE 1

(* One address set per stored type, if the zone is served; SOA and NS carry *)
(* the smallest TTL.                                                        *)
dlz_lookup ==
    IF dlz_findzone
    THEN {rrsets \in [StoredTypes -> SUBSET Addresses] :
             \A type \in StoredTypes : rrsets[type] \in Chosen(type)}
    ELSE {}

ApexTtl(rrsets) == Min({RRsetTtl(rrsets[type]) : type \in DOMAIN rrsets})

(* Variant: served until the last type expires. *)
ServedUntilLast == Max({LastExpiry(type) : type \in StoredTypes})

(* monitor/tasks.py expiring_domains: when the name stops being served. *)
served_until == Min({LastExpiry(type) : type \in StoredTypes})

-----------------------------------------------------------------------------
Measured == {s \in SUBSET (Addresses \X Ttls) :
                s # {} /\ IsFiniteSet(s) /\ Cardinality(s) <= MaxRecords}

Next ==
    \/ Tick
    \/ \E answers \in Measured : StoreResolved(answers)
    \/ StoreNegative
    \/ \E a \in Addresses, m \in Moers \union {Unknown} : SignalChange(a, m)

Spec == Init /\ [][Next]_vars

-----------------------------------------------------------------------------
Record == [rtype : {"A", "AAAA"}, address : Addresses, expires_at : Nat]

TypeOK ==
    /\ now \in 0..MaxTime
    /\ records \subseteq Record /\ IsFiniteSet(records)
    /\ \A r \in records : r.rtype = Family(r.address)
    /\ moer \in [Addresses -> Moers \union {Unknown}]

(* Being authoritative never turns a stored type into NODATA: while the    *)
(* zone is served there is an answer, every answer has addresses for each  *)
(* stored type (0002:8-12), and none of them has expired.                  *)
NoFalseNodata ==
    dlz_findzone =>
        /\ dlz_lookup # {}
        /\ \A rrsets \in dlz_lookup, type \in StoredTypes :
              /\ rrsets[type] # {}
              /\ \A a \in rrsets[type] : Family(a) = type /\ ExpiresAt(a) > now

(* Of all sets of as many fresh addresses of the type, none has more        *)
(* addresses within any given intensity than the one answered with; an      *)
(* unknown MOER is within none.  So no other choice emits less, in total or *)
(* at its n-th best address (0002:35, 70-85).                               *)
Within(limit, addresses) == {a \in addresses : moer[a] # Unknown /\ moer[a] <= limit}

GreenestAnswer ==
    \A rrsets \in dlz_lookup : \A type \in DOMAIN rrsets :
        \A s \in SUBSET Fresh(type), limit \in Moers :
            Cardinality(s) = Cardinality(rrsets[type]) =>
                Cardinality(Within(limit, s)) <= Cardinality(Within(limit, rrsets[type]))

(* No answer is cached beyond the data it came from: an RRset, and the SOA *)
(* that bounds negative answers (0002:38-40), outlive the first returned   *)
(* record to expire by less than the second a TTL is rounded up to.        *)
AnswersDoNotOutliveData ==
    \A rrsets \in dlz_lookup :
        /\ \A type \in DOMAIN rrsets, a \in Addresses :
              a \in rrsets[type] =>
                  now + TicksPerSecond * RRsetTtl(rrsets[type]) < ExpiresAt(a) + TicksPerSecond
        /\ now + TicksPerSecond * ApexTtl(rrsets) < served_until + TicksPerSecond

(* The monitor and the resolver agree: the name is served exactly as long  *)
(* as expiring_domains expects it to be (tasks.py:36-39).                  *)
ServedUntilAgrees == dlz_findzone <=> (records # {} /\ now < served_until)
=============================================================================
