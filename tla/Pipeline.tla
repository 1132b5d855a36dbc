------------------------------ MODULE Pipeline ------------------------------
(***************************************************************************)
(* Measurements, step by step: Pipeline.measure (worker/pipeline.py) with  *)
(* the geolocation sources (geo/ipinfo.py), the caches of regions and      *)
(* signals (worker/store.py) and the collection of endpoints nothing       *)
(* refers to (monitor/tasks.py).  The worker measures several domains at   *)
(* once: their measurements overlap on the endpoints and the caches, and   *)
(* their lookups share the client's `_legacy' flag.  A domain is measured  *)
(* by one task at a time (MeasurementQueue).                               *)
(*                                                                         *)
(* The first measurement starts from the responses of the resolvers, the   *)
(* later ones from any outcome: classify is a function of the responses.   *)
(* Both sources and WattTime are configured.                               *)
(***************************************************************************)
EXTENDS Resolvers

CONSTANTS
    Responses,       \* what a resolver may answer
    Domains,         \* the domains the worker measures
    Addresses,       \* the addresses the model follows
    Holds,           \* those among the records of each type, in the first measurement
    Keys,            \* rounded locations (location_key)
    Regions,         \* grid regions
    Places,          \* what a geolocation source may say
    RegionsAt,       \* what WattTime may say of each location: a region or Null
    ApiConcurrency,  \* API_CONCURRENCY
    AnycastLookup    \* Settings.anycast_lookup

(* What a source says: a location key or none, and anycast if it knows. *)
Location == [key : Keys \union {Null}, anycast : BOOLEAN, known : {TRUE}]
            \union [key : Keys \union {Null}, anycast : {FALSE}, known : {FALSE}]

ASSUME PipelineAssumption ==
    /\ ApiConcurrency \in Nat \ {0} /\ AnycastLookup \in BOOLEAN
    /\ Responses \subseteq Response /\ Places \subseteq Location
    /\ Holds \in [RTypes -> SUBSET Addresses]
    /\ RegionsAt \in [Keys -> SUBSET (Regions \union {Null})]
    /\ Null \notin Keys \union Regions \union Addresses
    /\ "absent" \notin Regions \union {Null}

VARIABLES
    responses,   \* what the resolvers answered (first measurement), or Null
    task,        \* the measurement of each domain
    legacy,      \* ApiSource._legacy
    plan,        \* the IPinfo plan: "core" has /lookup, "legacy" has not
    refused,     \* history: a lookup ended with the 403 of the wrong URL
    endpoints,   \* cadns.endpoints
    stored,      \* the addresses in cadns.rrset_records, per domain
    locations,   \* cadns.location_regions: a region, Null, or "absent"
    signals,     \* regions with a signal in cadns.carbon_signals that is not too old
    gc           \* the endpoint the DELETE of collect_garbage has selected, or Null

tables == <<endpoints, stored, locations, signals>>
vars == <<responses, task, legacy, plan, refused, tables, gc>>

(* Of later measurements; "nodata" is stored like "nxdomain". *)
Statuses == {"resolved", "nxdomain", "failed"}

(* geo_updated_at of an endpoint: never set, older than geo_max_age_days, or not. *)
Endpoint == [key : Keys \union {Null}, anycast : BOOLEAN,
             region : Regions \union {Null}, geo : {"never", "stale", "fresh"}]
Unlocated == [key |-> Null, anycast |-> FALSE, region |-> Null, geo |-> "never"]

NoWork == [pc |-> "none", endpoint |-> Unlocated, found |-> Null, legacy |-> FALSE]

(* A measurement: where it is, what classify said, the endpoint and the      *)
(* lookup of each address, the location keys, then the regions, still to be  *)
(* asked for, and the dict `regions' of _assign_regions.  History: the       *)
(* wanted keys the cache had no region for.                                  *)
Idle == [ phase |-> "idle", outcome |-> Null, work |-> [a \in Addresses |-> NoWork],
          pending |-> {}, regions |-> [k \in Keys |-> "absent"], missed |-> {} ]

Init ==
    /\ responses \in [Pairs -> Responses]
    /\ \E first \in Domains :
          task = [d \in Domains |-> IF d = first THEN [Idle EXCEPT !.phase = "answered"] ELSE Idle]
    /\ legacy = FALSE /\ refused = FALSE
    /\ plan \in {"core", "legacy"}
    /\ endpoints = [a \in Addresses |-> Null]
    /\ stored = [d \in Domains |-> {}]
    /\ locations = [k \in Keys |-> "absent"]
    /\ signals = {}
    /\ gc = Null

Becomes(d, t) == task' = [task EXCEPT ![d] = t]

-----------------------------------------------------------------------------
(* ResolverPool.resolve has gathered its answers. *)
Classify(d) ==
    /\ task[d].phase = "answered"
    /\ Becomes(d, [task[d] EXCEPT !.phase = "classified",
                      !.outcome = classify([p \in Pairs |-> parse_response(responses[p])])])
    /\ UNCHANGED <<responses, legacy, plan, refused, tables, gc>>

(* A later measurement, with an outcome some responses lead to. *)
Again(d, status, addresses) ==
    /\ responses = Null
    /\ task[d].phase = "idle"
    /\ addresses # {} => status = "resolved"
    /\ Becomes(d, [task[d] EXCEPT !.phase = "classified",
                      !.outcome = [status |-> status, addresses |-> addresses]])
    /\ UNCHANGED <<responses, legacy, plan, refused, tables, gc>>

(* The types the outcome has records of, and their addresses. *)
RTypesOf(o) == {rtype \in RTypes : \E res \in Resolvers : o.ttls[<<res, rtype>>] # Null}

AddressesOf(o) ==
    IF responses = Null THEN o.addresses ELSE UNION {Holds[rtype] : rtype \in RTypesOf(o)}

(* fresh_endpoints; the others are looked up.  The TTLs are AnswerPolicy's. *)
FindEndpoints(d) ==
    LET o == task[d].outcome
        found == AddressesOf(o)
    IN  /\ task[d].phase = "classified"
        /\ responses' = Null
        /\ Becomes(d, [task[d] EXCEPT
              !.phase = IF o.status = "resolved" THEN "locating" ELSE "storing",
              !.outcome = [status |-> o.status, addresses |-> found],
              !.work = [a \in Addresses |->
                  IF o.status # "resolved" \/ a \notin found THEN NoWork
                  ELSE IF endpoints[a] # Null /\ endpoints[a].geo = "fresh"
                  THEN [NoWork EXCEPT !.pc = "done", !.endpoint = endpoints[a]]
                  ELSE [NoWork EXCEPT !.pc = "todo"]]])
        /\ UNCHANGED <<legacy, plan, refused, tables, gc>>

-----------------------------------------------------------------------------
(* _locate.  Geolocator.locate asks the database first and returns at once   *)
(* when that has coordinates and needs no anycast lookup; otherwise it asks  *)
(* the API, for a location or for the flag.                                  *)
Located(location) ==
    IF location = Null THEN Unlocated
    ELSE [key |-> location.key, anycast |-> location.anycast, region |-> Null, geo |-> "fresh"]

HasCoordinates(location) == location # Null /\ location.key # Null

InFlight == {x \in Domains \X Addresses : task[x[1]].work[x[2]].pc \in {"first", "second"}}

SetWork(d, a, w) ==
    /\ Becomes(d, [task[d] EXCEPT !.work = [@ EXCEPT ![a] = w]])
    /\ UNCHANGED <<responses, plan, tables, gc>>

Done(location) == [NoWork EXCEPT !.pc = "done", !.endpoint = Located(location)]

(* MmdbSource.lookup, then the first request of ApiSource.lookup. *)
Locate(d, a, found) ==
    LET w == task[d].work[a]
    IN  /\ w.pc = "todo"
        /\ Cardinality(InFlight) < ApiConcurrency
        /\ SetWork(d, a, IF HasCoordinates(found) /\ (found.known \/ ~AnycastLookup)
                         THEN Done(found)
                         ELSE [w EXCEPT !.pc = "first", !.found = found, !.legacy = legacy])
        /\ UNCHANGED <<legacy, refused>>

(* A private address is not looked up. *)
NotGlobal(d, a) ==
    /\ task[d].work[a].pc = "todo"
    /\ SetWork(d, a, Done(Null))
    /\ UNCHANGED <<legacy, refused>>

(* _with_anycast, or the better of two results. *)
Combine(found, api) ==
    CASE HasCoordinates(found) /\ api # Null /\ api.known ->
            [found EXCEPT !.anycast = api.anycast, !.known = TRUE]
      [] HasCoordinates(found) /\ ~(api # Null /\ api.known) -> found
      [] ~HasCoordinates(found) -> IF HasCoordinates(api) \/ found = Null THEN api ELSE found

Forbidden(w) == plan = "legacy" /\ w.pc = "first" /\ ~w.legacy

(* Variant: looks at the flag, which another lookup may have set meanwhile. *)
FallsBackShared(w) == ~legacy

FallsBack(w) == ~w.legacy

Fallback(d, a) ==
    LET w == task[d].work[a]
    IN  /\ Forbidden(w) /\ FallsBack(w)
        /\ legacy' = TRUE
        /\ SetWork(d, a, [w EXCEPT !.pc = "second", !.legacy = TRUE])
        /\ UNCHANGED refused

(* The answer, or Null: unknown, bogon, error, or no answer. *)
Reply(d, a, api) ==
    LET w == task[d].work[a]
    IN  /\ w.pc \in {"first", "second"}
        /\ Forbidden(w) => ~FallsBack(w) /\ api = Null
        /\ refused' = (refused \/ Forbidden(w))
        /\ SetWork(d, a, Done(Combine(w.found, api)))
        /\ UNCHANGED legacy

-----------------------------------------------------------------------------
(* _assign_regions: cached_regions is read once; the keys it has not are     *)
(* asked for, and saved unless WattTime fails.  Negative entries expire.     *)
Wanted(t) == {a \in Addresses : /\ t.work[a].pc = "done" /\ t.work[a].endpoint.key # Null
                                /\ ~t.work[a].endpoint.anycast}

WantedKeys(t) == {t.work[a].endpoint.key : a \in Wanted(t)}

(* Variant: all entries expire. *)
CachedNever == {}

Cached == {k \in Keys : locations[k] # "absent"}

FindRegions(d) ==
    LET t == task[d]
    IN  /\ t.phase = "locating"
        /\ \A a \in Addresses : t.work[a].pc \in {"none", "done"}
        /\ Becomes(d, [t EXCEPT
              !.phase = "regions",
              !.pending = WantedKeys(t) \ Cached,
              !.regions = [k \in Keys |-> IF k \in WantedKeys(t) \intersect Cached
                                          THEN locations[k] ELSE "absent"],
              !.missed = {k \in WantedKeys(t) : locations[k] \notin Regions}])
        /\ UNCHANGED <<responses, legacy, plan, refused, tables, gc>>

(* A reply of WattTime, and save_region.  Nobody sees a reply before it is   *)
(* saved, so that the two are one step; the other replies may come before.   *)
RegionFor(d, k, region) ==
    LET t == task[d]
    IN  /\ t.phase = "regions" /\ k \in t.pending
        /\ Becomes(d, [t EXCEPT !.pending = @ \ {k}, !.regions = [@ EXCEPT ![k] = region]])
        /\ locations' = [locations EXCEPT ![k] = region]
        /\ UNCHANGED <<responses, legacy, plan, refused, endpoints, stored, signals, gc>>

RegionFails(d, k) ==
    /\ task[d].phase = "regions" /\ k \in task[d].pending
    /\ Becomes(d, [task[d] EXCEPT !.pending = @ \ {k}])
    /\ UNCHANGED <<responses, legacy, plan, refused, tables, gc>>

(* regions.get(key, e.region_code) *)
WithRegion(t, e) == IF t.regions[e.key] = "absent" THEN e ELSE [e EXCEPT !.region = t.regions[e.key]]

Assigned(t) ==
    [a \in Addresses |-> IF a \in Wanted(t)
                         THEN [t.work[a] EXCEPT !.endpoint = WithRegion(t, t.work[a].endpoint)]
                         ELSE t.work[a]]

RegionsOf(work) == {work[a].endpoint.region : a \in Addresses} \ {Null}

(* _refresh_signals: regions_needing_signal. *)
FindSignals(d) ==
    LET t == task[d]
    IN  /\ t.phase = "regions" /\ t.pending = {}
        /\ Becomes(d, [t EXCEPT !.phase = "signals", !.work = Assigned(t),
                                !.pending = RegionsOf(Assigned(t)) \ signals,
                                !.regions = Idle.regions])
        /\ UNCHANGED <<responses, legacy, plan, refused, tables, gc>>

(* save_signal, or no signal. *)
Signal(d, g, saved) ==
    /\ task[d].phase = "signals" /\ g \in task[d].pending
    /\ Becomes(d, [task[d] EXCEPT !.pending = @ \ {g}])
    /\ signals' = IF saved THEN signals \union {g} ELSE signals
    /\ UNCHANGED <<responses, legacy, plan, refused, endpoints, stored, locations, gc>>

SignalsDone(d) ==
    /\ task[d].phase = "signals" /\ task[d].pending = {}
    /\ Becomes(d, [task[d] EXCEPT !.phase = "storing"])
    /\ UNCHANGED <<responses, legacy, plan, refused, tables, gc>>

-----------------------------------------------------------------------------
(* store_measurement.  Endpoints with a location are upserted, all columns,  *)
(* the others inserted unless they are there.                                *)
(* Variant: a region is not overwritten by NULL. *)
UpsertedCoalesce(e, old) ==
    IF old = Null THEN e
    ELSE IF e.geo = "never" THEN old
    ELSE IF e.region = Null THEN [e EXCEPT !.region = old.region] ELSE e

Upserted(e, old) == IF e.geo = "never" /\ old # Null THEN old ELSE e

Store(d) ==
    LET t == task[d]
    IN  /\ t.phase = "storing"
        /\ endpoints' = [a \in Addresses |->
              IF a \in t.outcome.addresses /\ t.outcome.status = "resolved"
              THEN Upserted(t.work[a].endpoint, endpoints[a]) ELSE endpoints[a]]
        /\ stored' = IF t.outcome.status = "failed" THEN stored
                     ELSE [stored EXCEPT ![d] = t.outcome.addresses]
        /\ Becomes(d, Idle)
        /\ UNCHANGED <<responses, legacy, plan, refused, locations, signals, gc>>

(* An exception or a cancellation: what was saved before stays. *)
Abort(d) ==
    /\ task[d].phase \notin {"idle", "answered", "classified"}
    /\ Becomes(d, Idle)
    /\ UNCHANGED <<responses, legacy, plan, refused, tables, gc>>

-----------------------------------------------------------------------------
(* collect_garbage: endpoints without records, not located of late.  The     *)
(* DELETE fails on a row that a record has come to refer to.                 *)
Referred(a) == \E d \in Domains : a \in stored[d]

GcSelect(a) ==
    /\ gc = Null
    /\ endpoints[a] # Null /\ endpoints[a].geo # "fresh" /\ ~Referred(a)
    /\ gc' = a
    /\ UNCHANGED <<responses, task, legacy, plan, refused, tables>>

GcDelete ==
    /\ gc # Null /\ gc' = Null
    /\ endpoints' = IF Referred(gc) THEN endpoints ELSE [endpoints EXCEPT ![gc] = Null]
    /\ UNCHANGED <<responses, task, legacy, plan, refused, stored, locations, signals>>

(* The row goes between the INSERT that found it there and the record that   *)
(* refers to it: the transaction fails.                                      *)
StoreConflict(d) ==
    LET t == task[d]
    IN  /\ t.phase = "storing" /\ gc # Null
        /\ t.outcome.status = "resolved" /\ gc \in t.outcome.addresses /\ ~Referred(gc)
        /\ t.work[gc].endpoint.geo = "never"
        /\ endpoints' = [endpoints EXCEPT ![gc] = Null] /\ gc' = Null
        /\ Becomes(d, Idle)
        /\ UNCHANGED <<responses, legacy, plan, refused, stored, locations, signals>>

(* Days pass.  A measurement that has read a row as fresh writes it back so. *)
AgeEndpoint(a) ==
    /\ endpoints[a] # Null /\ endpoints[a].geo = "fresh"
    /\ endpoints' = [endpoints EXCEPT ![a] = [@ EXCEPT !.geo = "stale"]]
    /\ UNCHANGED <<responses, task, legacy, plan, refused, stored, locations, signals, gc>>

AgeLocation(k) ==
    /\ locations[k] = Null
    /\ locations' = [locations EXCEPT ![k] = "absent"]
    /\ UNCHANGED <<responses, task, legacy, plan, refused, endpoints, stored, signals, gc>>

AgeSignal(g) ==
    /\ g \in signals
    /\ signals' = signals \ {g}
    /\ UNCHANGED <<responses, task, legacy, plan, refused, endpoints, stored, locations, gc>>

(* The steps of a measurement, and those of its lookups. *)
Measure(d) ==
    \/ Classify(d) \/ FindEndpoints(d) \/ FindRegions(d) \/ FindSignals(d) \/ SignalsDone(d)
    \/ Store(d) \/ StoreConflict(d) \/ Abort(d)
    \/ \E status \in Statuses, addresses \in SUBSET Addresses : Again(d, status, addresses)
    \/ \E k \in Keys : RegionFails(d, k) \/ \E region \in RegionsAt[k] : RegionFor(d, k, region)
    \/ \E g \in Regions, saved \in BOOLEAN : Signal(d, g, saved)

Lookup(d, a) ==
    \/ NotGlobal(d, a) \/ Fallback(d, a)
    \/ \E l \in Places \union {Null} : Locate(d, a, l) \/ Reply(d, a, l)

Next ==
    \/ \E d \in Domains : Measure(d) \/ \E a \in Addresses : Lookup(d, a)
    \/ \E a \in Addresses : GcSelect(a) \/ AgeEndpoint(a)
    \/ \E k \in Keys : AgeLocation(k)
    \/ \E g \in Regions : AgeSignal(g)
    \/ GcDelete

Spec == Init /\ [][Next]_vars

-----------------------------------------------------------------------------
(* The reference for a response: the CNAME chains that lead from the name   *)
(* to an address RRset, spelled out.                                        *)
Chains(r) ==
    {c \in UNION {[1..n -> Owners] : n \in 1..(MaxHops + 1)} :
        /\ c[1] = QName /\ r.answer[c[Len(c)]].type = "address"
        /\ \A i \in 1..(Len(c) - 1) :
              r.answer[c[i]].type = "cname" /\ r.answer[c[i]].target = c[i + 1]}

Positive(r) == r.rcode = "noerror" /\ Chains(r) # {}
Negative(r) == r.rcode \in {"noerror", "nxdomain"} /\ ~Positive(r)

(* What the responses say, in the terms of classify. *)
Justified(o) ==
    /\ \A p \in Pairs : o.ttls[p] # Null <=> Positive(responses[p])
    /\ \A p \in Pairs : o.ttls[p] # Null =>
          \E c \in Chains(responses[p]) : \A i \in 1..Len(c) :
              o.ttls[p] <= responses[p].answer[c[i]].ttl
    /\ o.status # "failed" =>
          \A rtype \in RTypes \ RTypesOf(o) : \E res \in Resolvers : Negative(responses[<<res, rtype>>])
    /\ o.status \in {"nxdomain", "nodata"} =>
          \A p \in Pairs : /\ ~Positive(responses[p])
                           /\ Negative(responses[p]) /\ responses[p].soa # Null =>
                                 o.retry_after <= Max({NegativeMin, Min({responses[p].soa.ttl,
                                                                         responses[p].soa.minimum})})

(* The outcome says no more than the resolvers did (pool.py:37-81,          *)
(* pipeline.py:73-91).  A TTL outlives no link of its chain; a type goes    *)
(* without records only if a resolver denied it, never because queries      *)
(* failed; a name is negative only if nobody had an address, and for no     *)
(* longer than each denial allows: the lesser of the SOA's TTL and its      *)
(* MINIMUM field (RFC 2308), but for the configured minimum.                *)
OutcomeJustified ==
    \A d \in Domains : task[d].phase = "classified" /\ responses # Null => Justified(task[d].outcome)

(* No lookup fails because the plan lacks the first URL: each falls back,   *)
(* whatever the lookups beside it have found out (ipinfo.py:145-154).       *)
NoRefusedLookup == ~refused

(* An endpoint is in no region but one that WattTime gave for the location  *)
(* in the same row, also when it has moved and measurements that found it   *)
(* here and there overlap; and one that is known as anycast is in none      *)
(* (ADR-5, pipeline.py:161-176, store.py:160-170).                          *)
PlacedWhereItIs ==
    \A a \in Addresses : endpoints[a] # Null /\ endpoints[a].region # Null =>
        ~endpoints[a].anycast /\ endpoints[a].region \in RegionsAt[endpoints[a].key]

(* An endpoint that stays where it is loses its region in a step. *)
LosesRegion(a) ==
    /\ endpoints[a] # Null /\ endpoints'[a] # Null
    /\ endpoints[a].key = endpoints'[a].key /\ ~endpoints'[a].anycast
    /\ endpoints[a].region # Null /\ endpoints'[a].region = Null

(* An endpoint that stays where it is loses its region only to a            *)
(* measurement that had looked in the cache before a region was there: one  *)
(* that overlaps the measurement that saved it, or comes after a denial.    *)
(* WattTime being down takes no region away from one that looks later:      *)
(* positive entries do not expire (store.py:58-76, pipeline.py:161-176).    *)
RegionKept ==
    [][\A a \in Addresses : LosesRegion(a) =>
          \E d \in Domains : /\ task[d].phase = "storing" /\ task'[d].phase = "idle"
                             /\ endpoints[a].key \in task[d].missed]_vars
=============================================================================
