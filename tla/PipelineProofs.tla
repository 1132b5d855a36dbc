--------------------------- MODULE PipelineProofs ---------------------------
(***************************************************************************)
(* Proofs about Pipeline, for any number of measurements that overlap, any *)
(* addresses, keys, regions, resolvers and responses: where an endpoint is *)
(* placed, when it may lose its place, that no lookup ends with the        *)
(* refusal of the wrong URL, and what an outcome says.                     *)
(***************************************************************************)
EXTENDS Pipeline, WellFoundedInduction, TLAPS

Phases == {"answered", "idle", "classified", "locating", "regions", "signals", "storing"}

Lookups == [ pc : {"none", "todo", "first", "second", "done"}, endpoint : Endpoint,
             found : Location \union {Null}, legacy : BOOLEAN ]

(* A region is one WattTime gave for the location, and only unicast has one. *)
Placed(e) ==
    /\ e.anycast => e.region = Null
    /\ e.region # Null => e.key \in Keys /\ e.region \in RegionsAt[e.key]

IsTask(t) == t \in [ phase : {t.phase}, outcome : {t.outcome}, work : {t.work},
                     pending : {t.pending}, regions : {t.regions}, missed : {t.missed} ]

(* Lookups under way, what is known before they are, and where it places. *)
WorkOk(phase, work) ==
    /\ phase \in Phases
    /\ work \in [Addresses -> Lookups]
    /\ phase \in {"answered", "idle", "classified"} => \A a \in Addresses : work[a] = NoWork
    /\ phase \in {"regions", "signals", "storing"} =>
          \A a \in Addresses : work[a].pc \in {"none", "done"}
    /\ \A a \in Addresses : work[a].pc # "done" => work[a].endpoint = Unlocated
    /\ \A a \in Addresses : Placed(work[a].endpoint)

(* What the cache said is what WattTime said once. *)
RegionsOk(regions) ==
    /\ regions \in [Keys -> Regions \union {Null, "absent"}]
    /\ \A k \in Keys : regions[k] \in Regions => regions[k] \in RegionsAt[k]

(* A key that was in the cache is not asked for, and its region is taken   *)
(* over, whatever other measurements do to the cache meanwhile.            *)
CacheOk(t) ==
    \A a \in Wanted(t) :
        LET e == t.work[a].endpoint
        IN  e.key \notin t.missed =>
              /\ t.phase = "regions" => t.regions[e.key] \in Regions /\ e.key \notin t.pending
              /\ t.phase \in {"signals", "storing"} => e.region # Null

Good(t) == IsTask(t) /\ WorkOk(t.phase, t.work) /\ RegionsOk(t.regions) /\ CacheOk(t)

EndpointsOk(rows) ==
    /\ rows \in [Addresses -> Endpoint \union {Null}]
    /\ \A a \in Addresses : rows[a] # Null => Placed(rows[a])

Shared ==
    /\ EndpointsOk(endpoints) /\ RegionsOk(locations)
    /\ gc \in Addresses \union {Null} /\ legacy \in BOOLEAN /\ refused = FALSE

Tasks == task = [d \in Domains |-> task[d]] /\ \A d \in Domains : Good(task[d])

IInv == Shared /\ Tasks

(* A step may take a region from an endpoint only so. *)
Excused == \A a \in Addresses : LosesRegion(a) =>
              \E d \in Domains : /\ task[d].phase = "storing" /\ task'[d].phase = "idle"
                                 /\ endpoints[a].key \in task[d].missed

-----------------------------------------------------------------------------
(* An endpoint without a location is well formed, and so is no work. *)
LEMMA NoWorkFacts ==
  /\ Unlocated \in Endpoint /\ Unlocated.region = Null /\ Unlocated.key = Null /\ ~Unlocated.anycast
  /\ Placed(Unlocated)
  /\ NoWork \in Lookups /\ NoWork.endpoint = Unlocated /\ NoWork.pc = "none"
<1>1. Unlocated \in Endpoint /\ Unlocated.region = Null /\ Unlocated.key = Null /\ ~Unlocated.anycast
  BY DEF Unlocated, Endpoint
<1>2. NoWork.endpoint = Unlocated /\ NoWork.pc = "none"
  BY DEF NoWork
<1>3. NoWork \in Lookups
  <2> HIDE DEF Unlocated
  <2> QED BY <1>1 DEF NoWork, Lookups
<1>4. Placed(Unlocated)
  BY <1>1 DEF Placed
<1> QED BY <1>1, <1>2, <1>3, <1>4

(* A measurement that is not under way is well formed. *)
LEMMA IdleFacts ==
  ASSUME NEW p \in {"idle", "answered"}
  PROVE  /\ Good([Idle EXCEPT !.phase = p]) /\ Good(Idle)
         /\ Idle.phase = "idle" /\ [Idle EXCEPT !.phase = p].phase = p /\ RegionsOk(Idle.regions)
<1> DEFINE w == [a \in Addresses |-> NoWork]
           r == [k \in Keys |-> "absent"]
<1>1. w \in [Addresses -> Lookups] /\ \A a \in Addresses : w[a] = NoWork
  BY NoWorkFacts
<1>2. RegionsOk(r)
  BY PipelineAssumption DEF RegionsOk
<1> HIDE DEF w, r
<1>3. ASSUME NEW q \in {"idle", "answered"}, NEW t,
             t = [phase |-> q, outcome |-> Null, work |-> w, pending |-> {}, regions |-> r, missed |-> {}]
      PROVE  Good(t) /\ t.phase = q
  <2>1. IsTask(t) /\ t.phase = q /\ t.work = w /\ t.regions = r
    BY <1>3 DEF IsTask
  <2>2. WorkOk(q, w)
    BY <1>1, NoWorkFacts DEF WorkOk, Phases
  <2>3. CacheOk(t)
    BY <2>1 DEF CacheOk
  <2> QED BY <1>2, <2>1, <2>2, <2>3 DEF Good
<1>4. Idle = [phase |-> "idle", outcome |-> Null, work |-> w, pending |-> {}, regions |-> r, missed |-> {}]
  BY DEF Idle, w, r
<1>5. [Idle EXCEPT !.phase = p]
        = [phase |-> p, outcome |-> Null, work |-> w, pending |-> {}, regions |-> r, missed |-> {}]
  BY <1>4
<1>6. Idle.regions = r
  BY <1>4
<1> QED BY <1>2, <1>3, <1>4, <1>5, <1>6

(* What a source says becomes an endpoint that has no region yet. *)
LEMMA LocatedFacts ==
  ASSUME NEW location \in Location \union {Null}
  PROVE  Located(location) \in Endpoint /\ Located(location).region = Null
<1>1. CASE location = Null
  BY <1>1, NoWorkFacts DEF Located
<1>2. CASE location # Null
  <2>1. location.key \in Keys \union {Null} /\ location.anycast \in BOOLEAN
    BY <1>2 DEF Location
  <2>2. Located(location) = [key |-> location.key, anycast |-> location.anycast,
                             region |-> Null, geo |-> "fresh"]
    BY <1>2 DEF Located
  <2> QED BY <2>1, <2>2 DEF Endpoint
<1> QED BY <1>1, <1>2

(* The combination of two results is such a result. *)
LEMMA CombineFacts ==
  ASSUME NEW found \in Location \union {Null}, NEW api \in Location \union {Null}
  PROVE  Combine(found, api) \in Location \union {Null}
<1>1. CASE HasCoordinates(found) /\ api # Null /\ api.known
  <2>1. found \in Location /\ api \in Location
    BY <1>1 DEF HasCoordinates
  <2>2. Combine(found, api) = [found EXCEPT !.anycast = api.anycast, !.known = TRUE]
    BY <1>1 DEF Combine
  <2>3. api.anycast \in BOOLEAN
    BY <2>1 DEF Location
  <2>4. [found EXCEPT !.anycast = api.anycast, !.known = TRUE]
          \in [key : Keys \union {Null}, anycast : BOOLEAN, known : {TRUE}]
    BY <2>1, <2>3 DEF Location
  <2> QED BY <2>2, <2>4 DEF Location
<1>2. CASE HasCoordinates(found) /\ ~(api # Null /\ api.known)
  BY <1>2 DEF Combine
<1>3. CASE ~HasCoordinates(found)
  BY <1>3 DEF Combine
<1> QED BY <1>1, <1>2, <1>3

(* Done ends a lookup with what was located. *)
LEMMA DoneFacts ==
  ASSUME NEW location \in Location \union {Null}
  PROVE  /\ Done(location) \in Lookups /\ Done(location).pc = "done"
         /\ Done(location).endpoint.region = Null
<1> DEFINE e == Located(location)
<1>1. e \in Endpoint /\ e.region = Null
  BY LocatedFacts
<1> HIDE DEF e
<1>2. Done(location) = [NoWork EXCEPT !.pc = "done", !.endpoint = e]
  BY DEF Done, e
<1>3. /\ [NoWork EXCEPT !.pc = "done", !.endpoint = e] \in Lookups
      /\ [NoWork EXCEPT !.pc = "done", !.endpoint = e].pc = "done"
      /\ [NoWork EXCEPT !.pc = "done", !.endpoint = e].endpoint = e
  BY <1>1, NoWorkFacts DEF Lookups
<1> QED BY <1>1, <1>2, <1>3

-----------------------------------------------------------------------------
(* The invariant holds initially. *)
LEMMA InitInv == Init => IInv
<1> SUFFICES ASSUME Init PROVE IInv
  OBVIOUS
<1>1. Shared
  <2>1. RegionsOk(locations)
    BY PipelineAssumption DEF Init, RegionsOk
  <2>2. EndpointsOk(endpoints)
    BY DEF Init, EndpointsOk
  <2> QED BY <2>1, <2>2 DEF Init, Shared
<1>2. PICK first \in Domains :
        task = [d \in Domains |-> IF d = first THEN [Idle EXCEPT !.phase = "answered"] ELSE Idle]
  BY DEF Init
<1>3. Tasks
  <2> DEFINE t == [Idle EXCEPT !.phase = "answered"]
  <2>1. Good(t) /\ Good(Idle)
    BY IdleFacts
  <2> HIDE DEF t
  <2>2. task = [d \in Domains |-> IF d = first THEN t ELSE Idle]
    BY <1>2 DEF t
  <2> QED BY <2>1, <2>2 DEF Tasks
<1> QED BY <1>1, <1>3 DEF IInv

(* One measurement moves: the others are as they were.  A step that leaves  *)
(* the endpoints alone takes no region away.                                *)
LEMMA BecomesInv ==
  ASSUME IInv, NEW d \in Domains, NEW t, Becomes(d, t), Good(t), Shared'
  PROVE  IInv' /\ task'[d] = t
<1>1. task' = [task EXCEPT ![d] = t] /\ task = [x \in Domains |-> task[x]]
  BY DEF Becomes, IInv, Tasks
<1>2. /\ task' = [x \in Domains |-> task'[x]] /\ task'[d] = t
      /\ \A x \in Domains \ {d} : task'[x] = task[x]
  BY <1>1
<1>3. \A x \in Domains : Good(task'[x])
  BY <1>2 DEF IInv, Tasks
<1> QED BY <1>2, <1>3 DEF IInv, Tasks

LEMMA NothingLost ==
  ASSUME endpoints' = endpoints
  PROVE  Excused
BY DEF Excused, LosesRegion

LEMMA SharedKept ==
  ASSUME IInv, endpoints' = endpoints, locations' = locations, gc' = gc, legacy' = legacy,
         refused' = refused
  PROVE  Shared'
BY DEF IInv, Shared

-----------------------------------------------------------------------------
(* Changes of one measurement that keep it well formed. *)
LEMMA NewWork ==
  ASSUME NEW t, Good(t), NEW a \in Addresses, NEW w \in Lookups, t.phase = "locating",
         w.pc # "done" => w.endpoint = Unlocated, Placed(w.endpoint)
  PROVE  Good([t EXCEPT !.work = [@ EXCEPT ![a] = w]])
<1> DEFINE work == [t.work EXCEPT ![a] = w]
           u == [t EXCEPT !.work = work]
<1>1. IsTask(t) /\ WorkOk(t.phase, t.work)
  BY DEF Good
<1>2. /\ work \in [Addresses -> Lookups] /\ work[a] = w
      /\ \A b \in Addresses \ {a} : work[b] = t.work[b]
  BY <1>1 DEF WorkOk
<1> HIDE DEF work
<1>3. IsTask(u) /\ u.phase = t.phase /\ u.work = work /\ u.regions = t.regions
  BY <1>1 DEF IsTask
<1>4. WorkOk(t.phase, work)
  BY <1>1, <1>2 DEF WorkOk
<1> HIDE DEF u
<1>5. CacheOk(u)
  BY <1>3 DEF CacheOk
<1>6. Good(u)
  BY <1>3, <1>4, <1>5 DEF Good
<1> QED BY <1>6 DEF u, work

(* The steps of a lookup.  One under way has no endpoint yet; it falls     *)
(* back whenever its own request was refused, so none ends refused.        *)
LEMMA LookupStep ==
  ASSUME IInv, NEW d \in Domains, NEW a \in Addresses, Lookup(d, a)
  PROVE  IInv' /\ Excused
<1> DEFINE t == task[d]
           w == t.work[a]
<1>1. /\ Good(t) /\ w \in Lookups /\ legacy \in BOOLEAN /\ refused = FALSE
      /\ w.pc # "done" => w.endpoint = Unlocated
  BY DEF IInv, Shared, Tasks, Good, WorkOk
<1>2. w.pc \in {"todo", "first", "second"} => t.phase = "locating"
  BY NoWorkFacts DEF IInv, Tasks, Good, WorkOk, Phases
<1>3. ASSUME NEW v \in Lookups, SetWork(d, a, v), t.phase = "locating", legacy' \in BOOLEAN,
             refused' = FALSE, v.pc # "done" => v.endpoint = Unlocated, Placed(v.endpoint)
      PROVE  IInv' /\ Excused
  <2>1. Good([t EXCEPT !.work = [@ EXCEPT ![a] = v]])
    BY <1>1, <1>3, NewWork
  <2>2. Becomes(d, [t EXCEPT !.work = [@ EXCEPT ![a] = v]])
    BY <1>3 DEF SetWork
  <2>3. endpoints' = endpoints /\ locations' = locations /\ gc' = gc
    BY <1>3 DEF SetWork, tables
  <2>4. Shared'
    BY <1>3, <2>3 DEF IInv, Shared
  <2> QED BY <2>1, <2>2, <2>3, <2>4, BecomesInv, NothingLost
<1>4. ASSUME NEW l \in Location \union {Null}, SetWork(d, a, Done(l)), t.phase = "locating",
             legacy' = legacy, refused' = FALSE
      PROVE  IInv' /\ Excused
  <2>1. Done(l) \in Lookups /\ Done(l).pc = "done" /\ Placed(Done(l).endpoint)
    BY DoneFacts DEF Placed
  <2> QED BY <1>1, <1>3, <1>4, <2>1
<1> HIDE DEF t
<1>5. ASSUME NEW l \in Location \union {Null}, Locate(d, a, l)
      PROVE  IInv' /\ Excused
  <2> DEFINE v == [w EXCEPT !.pc = "first", !.found = l, !.legacy = legacy]
  <2>1. w.pc = "todo" /\ legacy' = legacy /\ refused' = refused
    BY <1>5 DEF Locate, t
  <2>2. v \in Lookups /\ v.pc = "first" /\ v.endpoint = Unlocated
    BY <1>1, <2>1 DEF Lookups
  <2> HIDE DEF v
  <2>3. SetWork(d, a, Done(l)) \/ SetWork(d, a, v)
    BY <1>5 DEF Locate, v, t
  <2>4. CASE SetWork(d, a, v)
    BY <1>1, <1>2, <1>3, <2>1, <2>2, <2>4, NoWorkFacts
  <2>5. CASE SetWork(d, a, Done(l))
    BY <1>1, <1>2, <1>4, <2>1, <2>5
  <2> QED BY <2>3, <2>4, <2>5
<1>6. CASE NotGlobal(d, a)
  <2>1. w.pc = "todo" /\ SetWork(d, a, Done(Null)) /\ legacy' = legacy /\ refused' = refused
    BY <1>6 DEF NotGlobal, t
  <2> QED BY <1>1, <1>2, <1>4, <2>1
<1>7. CASE Fallback(d, a)
  <2> DEFINE v == [w EXCEPT !.pc = "second", !.legacy = TRUE]
  <2>1. w.pc = "first"
    BY <1>7 DEF Fallback, Forbidden, t
  <2>2. v \in Lookups /\ v.pc = "second" /\ v.endpoint = Unlocated
    BY <1>1, <2>1 DEF Lookups
  <2> HIDE DEF v
  <2>3. SetWork(d, a, v) /\ legacy' = TRUE /\ refused' = refused
    BY <1>7 DEF Fallback, v, t
  <2> QED BY <1>1, <1>2, <1>3, <2>1, <2>2, <2>3, NoWorkFacts
<1>8. ASSUME NEW l \in Location \union {Null}, Reply(d, a, l)
      PROVE  IInv' /\ Excused
  <2>1. w.pc \in {"first", "second"} /\ w.found \in Location \union {Null}
    BY <1>1, <1>8 DEF Reply, Lookups, t
  <2>2. ~Forbidden(w)
    BY <1>8 DEF Reply, Forbidden, FallsBack, t
  <2>3. SetWork(d, a, Done(Combine(w.found, l))) /\ legacy' = legacy /\ refused' = FALSE
    BY <1>1, <1>8, <2>2 DEF Reply, t
  <2>4. Combine(w.found, l) \in Location \union {Null}
    BY <2>1, CombineFacts
  <2> QED BY <1>2, <1>4, <2>1, <2>3, <2>4
<1>9. Places \union {Null} \subseteq Location \union {Null}
  BY PipelineAssumption
<1> QED BY <1>5, <1>6, <1>7, <1>8, <1>9 DEF Lookup

(* A measurement has its outcome; nothing else is known of it yet. *)
LEMMA OutcomeKnown ==
  ASSUME IInv, NEW d \in Domains, task[d].phase \in {"answered", "idle"}, NEW o,
         Becomes(d, [task[d] EXCEPT !.phase = "classified", !.outcome = o]),
         UNCHANGED <<legacy, refused, tables, gc>>
  PROVE  IInv' /\ Excused
<1> DEFINE t == task[d]
           u == [t EXCEPT !.phase = "classified", !.outcome = o]
<1>1. IsTask(t) /\ WorkOk(t.phase, t.work) /\ RegionsOk(t.regions)
  BY DEF IInv, Tasks, Good
<1>2. IsTask(u) /\ u.phase = "classified" /\ u.work = t.work /\ u.regions = t.regions
  BY <1>1 DEF IsTask
<1>3. Becomes(d, u) /\ t.phase \in {"answered", "idle"}
  OBVIOUS
<1> HIDE DEF u, t
<1>4. WorkOk("classified", t.work)
  BY <1>1, <1>3 DEF WorkOk, Phases
<1>5. CacheOk(u)
  BY <1>2 DEF CacheOk
<1>6. Good(u)
  BY <1>1, <1>2, <1>4, <1>5 DEF Good
<1>7. Shared' /\ endpoints' = endpoints
  BY SharedKept DEF tables
<1> QED BY <1>3, <1>6, <1>7, BecomesInv, NothingLost

(* fresh_endpoints: the endpoints it finds are placed already. *)
LEMMA FindEndpointsStep ==
  ASSUME IInv, NEW d \in Domains, FindEndpoints(d)
  PROVE  IInv' /\ Excused
<1> DEFINE t == task[d]
           o == t.outcome
           found == AddressesOf(o)
           p == IF o.status = "resolved" THEN "locating" ELSE "storing"
           had(a) == [NoWork EXCEPT !.pc = "done", !.endpoint = endpoints[a]]
           todo == [NoWork EXCEPT !.pc = "todo"]
           looked(a) == IF o.status # "resolved" \/ a \notin found THEN NoWork
                        ELSE IF endpoints[a] # Null /\ endpoints[a].geo = "fresh" THEN had(a) ELSE todo
           work == [a \in Addresses |-> looked(a)]
           u == [t EXCEPT !.phase = p, !.outcome = [status |-> o.status, addresses |-> found],
                          !.work = work]
<1>1. Becomes(d, u) /\ t.phase = "classified"
  BY Zenon DEF FindEndpoints
<1>2. UNCHANGED <<legacy, refused, tables, gc>>
  BY DEF FindEndpoints
<1>3. IsTask(t) /\ RegionsOk(t.regions)
  BY DEF IInv, Tasks, Good
<1>4. todo \in Lookups /\ todo.pc = "todo" /\ todo.endpoint = Unlocated
  BY NoWorkFacts DEF Lookups
<1>5. ASSUME NEW a \in Addresses, endpoints[a] # Null
      PROVE  had(a) \in Lookups /\ had(a).pc = "done" /\ had(a).endpoint = endpoints[a]
  <2>1. endpoints[a] \in Endpoint
    BY <1>5 DEF IInv, Shared, EndpointsOk
  <2> QED BY <2>1, NoWorkFacts DEF Lookups
<1>6. ASSUME NEW a \in Addresses
      PROVE  /\ work[a] \in Lookups
             /\ work[a].pc # "done" => work[a].endpoint = Unlocated
             /\ Placed(work[a].endpoint)
             /\ o.status # "resolved" => work[a].pc = "none"
  <2> HIDE DEF todo, had
  <2>1. \/ work[a] = NoWork
        \/ o.status = "resolved" /\ endpoints[a] # Null /\ work[a] = had(a)
        \/ o.status = "resolved" /\ work[a] = todo
    OBVIOUS
  <2>2. endpoints[a] # Null => Placed(endpoints[a])
    BY DEF IInv, Shared, EndpointsOk
  <2> HIDE DEF work
  <2> QED BY <1>4, <1>5, <2>1, <2>2, NoWorkFacts
<1>7. work \in [Addresses -> Lookups]
  <2> HIDE DEF looked
  <2>1. \A a \in Addresses : looked(a) \in Lookups
    BY <1>6
  <2> QED BY <2>1
<1>8. p \in {"locating", "storing"} /\ (p = "storing" => o.status # "resolved")
  OBVIOUS
<1> HIDE DEF work, p
<1>9. IsTask(u) /\ u.phase = p /\ u.work = work /\ u.regions = t.regions
  BY <1>3 DEF IsTask
<1> HIDE DEF u
<1>10. WorkOk(p, work)
  BY <1>6, <1>7, <1>8 DEF WorkOk, Phases
<1>11. CacheOk(u)
  <2>1. CASE p = "locating"
    BY <1>9, <2>1 DEF CacheOk
  <2>2. CASE p = "storing"
    BY <1>6, <1>8, <1>9, <2>2 DEF CacheOk, Wanted
  <2> QED BY <1>8, <2>1, <2>2
<1>12. Good(u)
  BY <1>3, <1>9, <1>10, <1>11 DEF Good
<1>13. Shared' /\ endpoints' = endpoints
  BY <1>2, SharedKept DEF tables
<1> QED BY <1>1, <1>12, <1>13, BecomesInv, NothingLost

(* cached_regions: what it has is not asked for. *)
LEMMA FindRegionsStep ==
  ASSUME IInv, NEW d \in Domains, FindRegions(d)
  PROVE  IInv' /\ Excused
<1> DEFINE t == task[d]
           keys == WantedKeys(t)
           p == keys \ Cached
           r == [k \in Keys |-> IF k \in keys \intersect Cached THEN locations[k] ELSE "absent"]
           m == {k \in keys : locations[k] \notin Regions}
           u == [t EXCEPT !.phase = "regions", !.pending = p, !.regions = r, !.missed = m]
<1>1. /\ Becomes(d, u) /\ t.phase = "locating" /\ \A a \in Addresses : t.work[a].pc \in {"none", "done"}
      /\ UNCHANGED <<legacy, refused, tables, gc>>
  BY DEF FindRegions
<1>2. IsTask(t) /\ WorkOk(t.phase, t.work)
  BY DEF IInv, Tasks, Good
<1>3. RegionsOk(r)
  BY PipelineAssumption DEF IInv, Shared, RegionsOk
<1>4. ASSUME NEW k \in keys, k \in Keys, k \notin m
      PROVE  r[k] \in Regions /\ k \notin p
  <2>1. locations[k] \in Regions /\ locations[k] # "absent"
    BY <1>4, PipelineAssumption
  <2> QED BY <1>4, <2>1 DEF Cached
<1>5. \A a \in Wanted(t) : t.work[a].endpoint.key \in keys /\ t.work[a].endpoint.key \in Keys
  BY <1>2 DEF WantedKeys, Wanted, WorkOk, Lookups, Endpoint
<1> HIDE DEF keys, p, r, m
<1>6. /\ IsTask(u) /\ u.phase = "regions" /\ u.work = t.work /\ u.regions = r /\ u.pending = p
      /\ u.missed = m
  BY <1>2 DEF IsTask
<1> HIDE DEF u, t
<1>7. WorkOk("regions", t.work)
  BY <1>1, <1>2 DEF WorkOk, Phases
<1>8. Wanted(u) = Wanted(t)
  BY <1>6 DEF Wanted
<1>9. CacheOk(u)
  BY <1>4, <1>5, <1>6, <1>8 DEF CacheOk
<1>10. Good(u)
  BY <1>3, <1>6, <1>7, <1>9 DEF Good
<1>11. Shared' /\ endpoints' = endpoints
  BY <1>1, SharedKept DEF tables
<1> QED BY <1>1, <1>10, <1>11, BecomesInv, NothingLost

(* WattTime answers or fails: only a key that was missing is settled. *)
LEMMA RegionStep ==
  ASSUME IInv, NEW d \in Domains, NEW k \in Keys,
         RegionFails(d, k) \/ \E region \in RegionsAt[k] : RegionFor(d, k, region)
  PROVE  IInv' /\ Excused
<1> DEFINE t == task[d]
<1>1. /\ t.phase = "regions" /\ k \in t.pending
      /\ UNCHANGED <<legacy, refused, endpoints, gc>>
  BY DEF RegionFails, RegionFor, tables
<1>2. IsTask(t) /\ WorkOk(t.phase, t.work) /\ RegionsOk(t.regions) /\ CacheOk(t)
  BY DEF IInv, Tasks, Good
<1>3. \A a \in Wanted(t) : t.work[a].endpoint.key \in Keys
  BY <1>2 DEF Wanted, WorkOk, Lookups, Endpoint
<1>4. CASE RegionFails(d, k)
  <2> DEFINE u == [t EXCEPT !.pending = @ \ {k}]
  <2>1. Becomes(d, u) /\ locations' = locations
    BY <1>4 DEF RegionFails, tables
  <2>2. /\ IsTask(u) /\ u.phase = t.phase /\ u.work = t.work /\ u.regions = t.regions
        /\ u.missed = t.missed /\ u.pending = t.pending \ {k}
    BY <1>2 DEF IsTask
  <2> HIDE DEF u, t
  <2>3. CacheOk(u)
    <3>1. Wanted(u) = Wanted(t)
      BY <2>2 DEF Wanted
    <3> QED BY <1>1, <1>2, <2>2, <3>1 DEF CacheOk
  <2>4. Good(u)
    BY <1>2, <2>2, <2>3 DEF Good
  <2>5. Shared'
    BY <1>1, <2>1, SharedKept
  <2> QED BY <1>1, <2>1, <2>4, <2>5, BecomesInv, NothingLost
<1>5. ASSUME NEW region \in RegionsAt[k], RegionFor(d, k, region)
      PROVE  IInv' /\ Excused
  <2> DEFINE r == [t.regions EXCEPT ![k] = region]
             u == [t EXCEPT !.pending = @ \ {k}, !.regions = r]
  <2>1. Becomes(d, u) /\ locations' = [locations EXCEPT ![k] = region]
    BY <1>5 DEF RegionFor
  <2>2. region \in Regions \union {Null}
    BY PipelineAssumption
  <2>3. /\ RegionsOk(r) /\ \A j \in Keys \ {k} : r[j] = t.regions[j]
    BY <1>2, <2>2 DEF RegionsOk
  <2>4. RegionsOk(locations')
    BY <2>1, <2>2 DEF IInv, Shared, RegionsOk
  <2> HIDE DEF r
  <2>5. /\ IsTask(u) /\ u.phase = t.phase /\ u.work = t.work /\ u.regions = r
        /\ u.missed = t.missed /\ u.pending = t.pending \ {k}
    BY <1>2 DEF IsTask
  <2> HIDE DEF u, t
  <2>6. CacheOk(u)
    <3>1. Wanted(u) = Wanted(t)
      BY <2>5 DEF Wanted
    <3> QED BY <1>1, <1>2, <1>3, <2>3, <2>5, <3>1 DEF CacheOk
  <2>7. Good(u)
    BY <1>2, <2>3, <2>5, <2>6 DEF Good
  <2>8. Shared'
    BY <1>1, <2>4 DEF IInv, Shared
  <2> QED BY <1>1, <2>1, <2>7, <2>8, BecomesInv, NothingLost
<1> QED BY <1>4, <1>5

(* _assign_regions: every wanted endpoint gets what was found of its place. *)
LEMMA FindSignalsStep ==
  ASSUME IInv, NEW d \in Domains, FindSignals(d)
  PROVE  IInv' /\ Excused
<1> DEFINE t == task[d]
           work == Assigned(t)
           p == RegionsOf(work) \ signals
           u == [t EXCEPT !.phase = "signals", !.work = work, !.pending = p, !.regions = Idle.regions]
<1>1. /\ Becomes(d, u) /\ t.phase = "regions" /\ UNCHANGED <<legacy, refused, tables, gc>>
  BY DEF FindSignals
<1>2. IsTask(t) /\ WorkOk(t.phase, t.work) /\ RegionsOk(t.regions) /\ CacheOk(t)
  BY DEF IInv, Tasks, Good
<1> HIDE DEF t
<1>3. ASSUME NEW a \in Wanted(t)
      PROVE  LET e == t.work[a].endpoint
                 f == WithRegion(t, e)
             IN  /\ f \in Endpoint /\ f.key = e.key /\ f.anycast = e.anycast /\ Placed(f)
                 /\ e.key \notin t.missed => f.region # Null
  <2> DEFINE e == t.work[a].endpoint
             f == WithRegion(t, e)
             r == t.regions[e.key]
  <2>1. a \in Addresses /\ t.work[a].pc = "done" /\ e.key # Null /\ ~e.anycast
    BY DEF Wanted
  <2>2. e \in Endpoint /\ Placed(e)
    BY <1>2, <2>1 DEF WorkOk, Lookups
  <2>3. e.key \in Keys
    BY <2>1, <2>2 DEF Endpoint
  <2>4. e.key \notin t.missed => r \in Regions
    BY <1>1, <1>2 DEF CacheOk
  <2>5. CASE r = "absent"
    <3>1. f = e /\ e.key \in t.missed
      BY <2>4, <2>5, PipelineAssumption DEF WithRegion
    <3> QED BY <2>2, <3>1
  <2>6. CASE r # "absent"
    <3>1. r \in Regions \union {Null} /\ (r # Null => r \in RegionsAt[e.key])
      BY <1>2, <2>3, <2>6 DEF RegionsOk
    <3>2. f = [e EXCEPT !.region = r]
      BY <2>6 DEF WithRegion
    <3>3. r \in Regions => r # Null
      BY PipelineAssumption
    <3> HIDE DEF r
    <3>4. f \in Endpoint /\ f.key = e.key /\ f.anycast = e.anycast /\ f.region = r
      <4> HIDE DEF e, f
      <4> QED BY <2>2, <3>1, <3>2 DEF Endpoint
    <3> QED BY <2>1, <2>3, <2>4, <3>1, <3>3, <3>4 DEF Placed
  <2> QED BY <2>5, <2>6
<1>4. ASSUME NEW a \in Addresses
      PROVE  /\ work[a] \in Lookups /\ work[a].pc = t.work[a].pc
             /\ work[a].pc # "done" => work[a].endpoint = Unlocated
             /\ Placed(work[a].endpoint)
             /\ work[a].endpoint.key = t.work[a].endpoint.key
             /\ work[a].endpoint.anycast = t.work[a].endpoint.anycast
             /\ a \in Wanted(t) /\ work[a].endpoint.key \notin t.missed => work[a].endpoint.region # Null
  <2>1. t.work[a] \in Lookups /\ Placed(t.work[a].endpoint)
    BY <1>2 DEF WorkOk
  <2>2. t.work[a].pc # "done" => t.work[a].endpoint = Unlocated
    BY <1>2 DEF WorkOk
  <2>3. CASE a \in Wanted(t)
    <3> DEFINE e == t.work[a].endpoint
               f == WithRegion(t, e)
    <3>1. /\ f \in Endpoint /\ f.key = e.key /\ f.anycast = e.anycast /\ Placed(f)
          /\ e.key \notin t.missed => f.region # Null
      BY <1>3, <2>3
    <3>2. work[a] = [t.work[a] EXCEPT !.endpoint = f] /\ t.work[a].pc = "done"
      BY <2>3 DEF Assigned, Wanted
    <3> HIDE DEF f, work
    <3>3. work[a] \in Lookups /\ work[a].pc = "done" /\ work[a].endpoint = f
      BY <2>1, <3>1, <3>2 DEF Lookups
    <3> QED BY <3>1, <3>2, <3>3
  <2>4. CASE a \notin Wanted(t)
    <3>1. work[a] = t.work[a]
      BY <2>4 DEF Assigned
    <3> QED BY <2>1, <2>2, <2>4, <3>1
  <2> QED BY <2>3, <2>4
<1>5. work \in [Addresses -> Lookups]
  <2>1. \A a \in Addresses : work[a] \in Lookups
    BY <1>4
  <2> QED BY <2>1 DEF Assigned
<1> HIDE DEF work, p
<1>6. /\ IsTask(u) /\ u.phase = "signals" /\ u.work = work /\ u.regions = Idle.regions
      /\ u.missed = t.missed
  BY <1>2 DEF IsTask
<1> HIDE DEF u
<1>7. WorkOk("signals", work)
  BY <1>1, <1>2, <1>4, <1>5 DEF WorkOk, Phases
<1>8. CacheOk(u)
  <2>1. Wanted(u) = Wanted(t)
    BY <1>4, <1>6 DEF Wanted
  <2>2. Wanted(t) \subseteq Addresses
    BY DEF Wanted
  <2> QED BY <1>4, <1>6, <2>1, <2>2 DEF CacheOk
<1>9. Good(u)
  BY <1>6, <1>7, <1>8, IdleFacts DEF Good
<1>10. Shared' /\ endpoints' = endpoints
  BY <1>1, SharedKept DEF tables
<1> QED BY <1>1, <1>9, <1>10, BecomesInv, NothingLost

(* _refresh_signals, and on to store_measurement. *)
LEMMA SignalStep ==
  ASSUME IInv, NEW d \in Domains,
         SignalsDone(d) \/ \E g \in Regions, saved \in BOOLEAN : Signal(d, g, saved)
  PROVE  IInv' /\ Excused
<1> DEFINE t == task[d]
<1>1. /\ t.phase = "signals" /\ UNCHANGED <<legacy, refused, endpoints, locations, gc>>
  BY DEF SignalsDone, Signal, tables
<1>2. IsTask(t) /\ WorkOk(t.phase, t.work) /\ RegionsOk(t.regions) /\ CacheOk(t)
  BY DEF IInv, Tasks, Good
<1>3. ASSUME NEW u, Becomes(d, u), IsTask(u), u.phase \in {"signals", "storing"},
             u.work = t.work, u.regions = t.regions, u.missed = t.missed
      PROVE  IInv'
  <2> HIDE DEF t
  <2>1. CacheOk(u)
    <3>1. Wanted(u) = Wanted(t)
      BY <1>3 DEF Wanted
    <3> QED BY <1>1, <1>2, <1>3, <3>1 DEF CacheOk
  <2>2. WorkOk(u.phase, t.work)
    BY <1>1, <1>2, <1>3 DEF WorkOk, Phases
  <2>3. Good(u)
    BY <1>2, <1>3, <2>1, <2>2 DEF Good
  <2>4. Shared'
    BY <1>1, SharedKept
  <2> QED BY <1>3, <2>3, <2>4, BecomesInv
<1>4. CASE SignalsDone(d)
  <2> DEFINE u == [t EXCEPT !.phase = "storing"]
  <2>1. Becomes(d, u)
    BY <1>4 DEF SignalsDone
  <2>2. /\ IsTask(u) /\ u.phase = "storing" /\ u.work = t.work /\ u.regions = t.regions
        /\ u.missed = t.missed
    BY <1>2 DEF IsTask
  <2> HIDE DEF u
  <2>3. IInv'
    BY <1>3, <2>1, <2>2
  <2> QED BY <1>1, <2>3, NothingLost
<1>5. ASSUME NEW g \in Regions, NEW saved \in BOOLEAN, Signal(d, g, saved)
      PROVE  IInv' /\ Excused
  <2> DEFINE u == [t EXCEPT !.pending = @ \ {g}]
  <2>1. Becomes(d, u)
    BY <1>5 DEF Signal
  <2>2. /\ IsTask(u) /\ u.phase = "signals" /\ u.work = t.work /\ u.regions = t.regions
        /\ u.missed = t.missed
    BY <1>1, <1>2 DEF IsTask
  <2> HIDE DEF u
  <2>3. IInv'
    BY <1>3, <2>1, <2>2
  <2> QED BY <1>1, <2>3, NothingLost
<1> QED BY <1>4, <1>5

(* store_measurement writes whole rows, each placed; a region is lost only  *)
(* where the cache had none when the measurement looked.                    *)
LEMMA StoreStep ==
  ASSUME IInv, NEW d \in Domains, Store(d)
  PROVE  IInv' /\ Excused
<1> DEFINE t == task[d]
<1>1. /\ t.phase = "storing" /\ Becomes(d, Idle) /\ UNCHANGED <<legacy, refused, locations, gc>>
      /\ endpoints' = [a \in Addresses |->
            IF a \in t.outcome.addresses /\ t.outcome.status = "resolved"
            THEN Upserted(t.work[a].endpoint, endpoints[a]) ELSE endpoints[a]]
  BY DEF Store
<1>2. WorkOk(t.phase, t.work) /\ CacheOk(t)
  BY DEF IInv, Tasks, Good
<1> HIDE DEF t
<1>3. ASSUME NEW a \in Addresses
      PROVE  endpoints'[a] = endpoints[a] \/ endpoints'[a] = t.work[a].endpoint
  BY <1>1 DEF Upserted
<1>4. ASSUME NEW a \in Addresses
      PROVE  /\ endpoints[a] \in Endpoint \union {Null} /\ t.work[a].endpoint \in Endpoint
             /\ endpoints[a] # Null => Placed(endpoints[a])
             /\ Placed(t.work[a].endpoint)
  BY <1>2 DEF IInv, Shared, EndpointsOk, WorkOk, Lookups
<1>5. EndpointsOk(endpoints')
  <2>1. endpoints' \in [Addresses -> Endpoint \union {Null}]
    BY <1>1, <1>3, <1>4
  <2> QED BY <1>3, <1>4, <2>1 DEF EndpointsOk
<1>6. Shared'
  BY <1>1, <1>5 DEF IInv, Shared
<1>7. IInv' /\ task'[d].phase = "idle"
  BY <1>1, <1>6, IdleFacts, BecomesInv
<1>8. ASSUME NEW a \in Addresses, LosesRegion(a)
      PROVE  endpoints[a].key \in t.missed
  <2> DEFINE e == t.work[a].endpoint
  <2>1. endpoints'[a] = e /\ endpoints[a].key = e.key /\ ~e.anycast /\ e.region = Null
    BY <1>3, <1>8 DEF LosesRegion
  <2>2. e.key \in Keys /\ e.key # Null
    BY <1>4, <1>8, <2>1, PipelineAssumption DEF LosesRegion, Placed
  <2>3. t.work[a].pc = "done"
    BY <1>2, <2>2, NoWorkFacts DEF WorkOk
  <2>4. a \in Wanted(t)
    BY <2>1, <2>2, <2>3 DEF Wanted
  <2>5. e.key \in t.missed
    BY <1>1, <1>2, <2>1, <2>4 DEF CacheOk
  <2> QED BY <2>1, <2>5
<1>9. Excused
  BY <1>1, <1>7, <1>8 DEF Excused, t
<1> QED BY <1>7, <1>9

(* A measurement is given up, or fails as its endpoint is deleted. *)
LEMMA AbortStep ==
  ASSUME IInv, NEW d \in Domains, Abort(d) \/ StoreConflict(d)
  PROVE  IInv' /\ Excused
<1>1. Becomes(d, Idle) /\ UNCHANGED <<legacy, refused, locations>>
  BY DEF Abort, StoreConflict, tables
<1>2. CASE Abort(d)
  <2>1. Shared' /\ endpoints' = endpoints
    BY <1>1, <1>2, SharedKept DEF Abort, tables
  <2> QED BY <1>1, <2>1, IdleFacts, BecomesInv, NothingLost
<1>3. CASE StoreConflict(d)
  <2>1. gc \in Addresses /\ gc' = Null /\ endpoints' = [endpoints EXCEPT ![gc] = Null]
    BY <1>3 DEF StoreConflict, IInv, Shared
  <2>2. endpoints \in [Addresses -> Endpoint \union {Null}]
    BY DEF IInv, Shared, EndpointsOk
  <2>3. endpoints'[gc] = Null /\ \A a \in Addresses \ {gc} : endpoints'[a] = endpoints[a]
    BY <2>1, <2>2
  <2>4. EndpointsOk(endpoints')
    BY <2>1, <2>2, <2>3 DEF IInv, Shared, EndpointsOk
  <2>5. Shared'
    BY <1>1, <2>1, <2>4 DEF IInv, Shared
  <2>6. Excused
    BY <2>3 DEF Excused, LosesRegion
  <2> QED BY <1>1, <2>5, <2>6, IdleFacts, BecomesInv
<1> QED BY <1>2, <1>3

(* The garbage collector, and the passing of days. *)
LEMMA TableStep ==
  ASSUME IInv, \/ \E a \in Addresses : GcSelect(a) \/ AgeEndpoint(a)
               \/ \E k \in Keys : AgeLocation(k)
               \/ \E g \in Regions : AgeSignal(g)
               \/ GcDelete
  PROVE  IInv' /\ Excused
<1>1. task' = task /\ legacy' = legacy /\ refused' = refused
  BY DEF GcSelect, AgeEndpoint, AgeLocation, AgeSignal, GcDelete
<1>2. Tasks'
  BY <1>1 DEF IInv, Tasks
<1>3. endpoints \in [Addresses -> Endpoint \union {Null}] /\ gc \in Addresses \union {Null}
  BY DEF IInv, Shared, EndpointsOk
<1>4. ASSUME NEW a \in Addresses, GcSelect(a)
      PROVE  IInv' /\ Excused
  <2>1. gc' \in Addresses /\ endpoints' = endpoints /\ locations' = locations
    BY <1>4 DEF GcSelect, tables
  <2>2. Shared'
    BY <1>1, <2>1 DEF IInv, Shared
  <2> QED BY <1>2, <2>1, <2>2, NothingLost DEF IInv
<1>5. ASSUME NEW b \in Addresses, AgeEndpoint(b)
      PROVE  IInv' /\ Excused
  <2> DEFINE e == [endpoints[b] EXCEPT !.geo = "stale"]
  <2>1. /\ endpoints[b] # Null /\ endpoints' = [endpoints EXCEPT ![b] = e]
        /\ UNCHANGED <<locations, gc>>
    BY <1>5 DEF AgeEndpoint
  <2>2. endpoints[b] \in Endpoint
    BY <1>3, <2>1
  <2>3. /\ e \in Endpoint /\ e.key = endpoints[b].key
        /\ e.anycast = endpoints[b].anycast /\ e.region = endpoints[b].region
    BY <2>2 DEF Endpoint
  <2> HIDE DEF e
  <2>4. /\ endpoints'[b] = e /\ \A a \in Addresses \ {b} : endpoints'[a] = endpoints[a]
        /\ endpoints' \in [Addresses -> Endpoint \union {Null}]
    BY <1>3, <2>1, <2>3
  <2>5. Placed(e)
    BY <2>1, <2>3 DEF IInv, Shared, EndpointsOk, Placed
  <2>6. EndpointsOk(endpoints')
    BY <2>4, <2>5 DEF IInv, Shared, EndpointsOk
  <2>7. Shared'
    BY <1>1, <2>1, <2>6 DEF IInv, Shared
  <2>8. Excused
    BY <2>1, <2>3, <2>4 DEF Excused, LosesRegion
  <2> QED BY <1>2, <2>7, <2>8 DEF IInv
<1>6. ASSUME NEW k \in Keys, AgeLocation(k)
      PROVE  IInv' /\ Excused
  <2>1. /\ locations' = [locations EXCEPT ![k] = "absent"] /\ endpoints' = endpoints /\ gc' = gc
    BY <1>6 DEF AgeLocation
  <2>2. RegionsOk(locations')
    BY <2>1, PipelineAssumption DEF IInv, Shared, RegionsOk
  <2>3. Shared'
    BY <1>1, <2>1, <2>2 DEF IInv, Shared
  <2> QED BY <1>2, <2>1, <2>3, NothingLost DEF IInv
<1>7. ASSUME NEW g \in Regions, AgeSignal(g)
      PROVE  IInv' /\ Excused
  <2>1. endpoints' = endpoints /\ locations' = locations /\ gc' = gc
    BY <1>7 DEF AgeSignal
  <2> QED BY <1>1, <1>2, <2>1, SharedKept, NothingLost DEF IInv
<1>8. CASE GcDelete
  <2>1. /\ gc \in Addresses /\ gc' = Null /\ locations' = locations
        /\ endpoints' = endpoints \/ endpoints' = [endpoints EXCEPT ![gc] = Null]
    BY <1>3, <1>8 DEF GcDelete
  <2>2. /\ \A a \in Addresses : endpoints'[a] = Null \/ endpoints'[a] = endpoints[a]
        /\ endpoints' \in [Addresses -> Endpoint \union {Null}]
    BY <1>3, <2>1
  <2>3. EndpointsOk(endpoints')
    BY <2>2 DEF IInv, Shared, EndpointsOk
  <2>4. Shared'
    BY <1>1, <2>1, <2>3 DEF IInv, Shared
  <2>5. Excused
    BY <2>2 DEF Excused, LosesRegion
  <2> QED BY <1>2, <2>4, <2>5 DEF IInv
<1> QED BY <1>4, <1>5, <1>6, <1>7, <1>8

-----------------------------------------------------------------------------
(* Every step of a measurement, and every step, keeps the invariant. *)
LEMMA MeasureStep ==
  ASSUME IInv, NEW d \in Domains, Measure(d)
  PROVE  IInv' /\ Excused
<1>1. CASE Classify(d)
  <2>1. UNCHANGED <<legacy, refused, tables, gc>> /\ task[d].phase \in {"answered", "idle"}
    BY <1>1 DEF Classify
  <2> QED BY <1>1, <2>1, OutcomeKnown DEF Classify
<1>2. ASSUME NEW status \in Statuses, NEW addresses \in SUBSET Addresses, Again(d, status, addresses)
      PROVE  IInv' /\ Excused
  <2>1. UNCHANGED <<legacy, refused, tables, gc>> /\ task[d].phase \in {"answered", "idle"}
    BY <1>2 DEF Again
  <2> QED BY <1>2, <2>1, OutcomeKnown DEF Again
<1> QED
  BY <1>1, <1>2, FindEndpointsStep, FindRegionsStep, RegionStep, FindSignalsStep, SignalStep,
     StoreStep, AbortStep DEF Measure

LEMMA PipelineStep ==
  ASSUME IInv, [Next]_vars
  PROVE  IInv' /\ Excused
<1>1. CASE UNCHANGED vars
  <2>1. task' = task /\ endpoints' = endpoints /\ Shared'
    BY <1>1, SharedKept DEF vars, tables
  <2> QED BY <2>1, NothingLost DEF IInv, Tasks
<1> QED BY <1>1, MeasureStep, LookupStep, TableStep DEF Next

(* The invariant of the measurements under way, the endpoints and the       *)
(* cache: every region was given for its place, and what the cache had when *)
(* a measurement looked is what it stores.                                  *)
THEOREM InductiveInvariant == Spec => []IInv
<1>1. IInv /\ [Next]_vars => IInv'
  BY PipelineStep
<1> QED BY <1>1, InitInv, PTL DEF Spec

(* However measurements overlap, an endpoint is in no region but one that   *)
(* was given for its own location, and in none if it is anycast.            *)
THEOREM RegionsMatchPlaces == Spec => []PlacedWhereItIs
<1>1. IInv => PlacedWhereItIs
  BY DEF IInv, Shared, EndpointsOk, Placed, PlacedWhereItIs
<1> QED BY <1>1, InductiveInvariant, PTL

(* No lookup fails for want of the first URL, however lookups interleave. *)
THEOREM LookupsFallBack == Spec => []NoRefusedLookup
<1>1. IInv => NoRefusedLookup
  BY DEF IInv, Shared, NoRefusedLookup
<1> QED BY <1>1, InductiveInvariant, PTL

(* However measurements overlap, an endpoint that stays where it is loses   *)
(* its region only to one that found none in the cache.                     *)
THEOREM RegionsStay == Spec => RegionKept
<1>1. IInv /\ [Next]_vars => [Excused]_vars
  BY PipelineStep
<1> QED BY <1>1, InductiveInvariant, PTL DEF Spec, RegionKept, Excused

-----------------------------------------------------------------------------
(* A set of naturals has a least element.  The inductions below use it: a   *)
(* smallest number of hops for which something fails leads to none smaller. *)
LEMMA LeastNatural ==
  ASSUME NEW S \in SUBSET Nat, S # {}
  PROVE  \E x \in S : \A y \in S : x <= y
<1>1. PICK x \in S : \A y \in S : ~(<<y, x>> \in OpToRel(<, Nat))
  BY NatLessThanWellFounded, WFMin
<1>2. \A y \in S : <<y, x>> \in OpToRel(<, Nat) <=> y < x
  BY DEF OpToRel
<1>3. \A y \in S : ~(y < x)
  BY <1>1, <1>2, Zenon
<1>4. \A y \in S : x <= y
  BY <1>3
<1> QED BY <1>4

(* The recursion has a solution: the one for the hops before extends. *)
LEMMA ChainTtlExists ==
  ASSUME NEW r
  PROVE  \E f : f = [h \in 0..MaxHops |-> Follow(r, IF h = 0 THEN Nowhere ELSE f[h - 1])]
<1> DEFINE Solves(f, n) == f = [h \in 0..n |-> Follow(r, IF h = 0 THEN Nowhere ELSE f[h - 1])]
           Bad == {n \in 0..MaxHops : ~\E f : Solves(f, n)}
<1>1. MaxHops \in Nat
  BY ResolversAssumption
<1>2. SUFFICES ASSUME Bad # {} PROVE FALSE
  <2>1. MaxHops \in 0..MaxHops
    BY <1>1
  <2> QED BY <2>1
<1>3. Bad \in SUBSET Nat
  BY <1>1
<1>4. PICK n \in Bad : \A m \in Bad : n <= m
  BY <1>2, <1>3, LeastNatural
<1>5. n \in Nat /\ n <= MaxHops /\ ~\E f : Solves(f, n)
  BY <1>1, <1>4
<1>6. CASE n = 0
  <2> DEFINE g == [h \in 0..0 |-> Follow(r, Nowhere)]
  <2>1. g = [h \in 0..0 |-> Follow(r, IF h = 0 THEN Nowhere ELSE g[h - 1])]
    OBVIOUS
  <2> HIDE DEF g
  <2> QED BY <1>5, <1>6, <2>1
<1>7. CASE n > 0
  <2>1. n - 1 \in 0..MaxHops /\ n - 1 \in Nat /\ ~(n <= n - 1)
    BY <1>1, <1>5, <1>7
  <2>2. n - 1 \notin Bad
    BY <1>4, <2>1
  <2>3. PICK f : f = [h \in 0..(n - 1) |-> Follow(r, IF h = 0 THEN Nowhere ELSE f[h - 1])]
    BY <2>1, <2>2
  <2> DEFINE g == [h \in 0..n |-> IF h = n THEN Follow(r, f[n - 1]) ELSE f[h]]
  <2>4. ASSUME NEW h \in 0..n PROVE g[h] = Follow(r, IF h = 0 THEN Nowhere ELSE g[h - 1])
    <3>1. CASE h = n
      <4>1. g[h] = Follow(r, f[n - 1]) /\ g[h - 1] = f[n - 1] /\ h # 0
        BY <1>5, <1>7, <3>1
      <4> HIDE DEF g
      <4> QED BY <3>1, <4>1
    <3>2. CASE h # n
      <4>1. h \in 0..(n - 1) /\ g[h] = f[h]
        BY <1>5, <3>2
      <4>2. h # 0 => g[h - 1] = f[h - 1]
        BY <1>5, <3>2
      <4>3. f[h] = Follow(r, IF h = 0 THEN Nowhere ELSE f[h - 1])
        BY <2>3, <4>1
      <4> HIDE DEF g
      <4> QED BY <4>1, <4>2, <4>3
    <3> QED BY <3>1, <3>2
  <2>5. g = [h \in 0..n |-> g[h]]
    OBVIOUS
  <2> HIDE DEF g
  <2>6. g = [h \in 0..n |-> Follow(r, IF h = 0 THEN Nowhere ELSE g[h - 1])]
    BY <2>4, <2>5
  <2> QED BY <1>5, <2>6
<1> QED BY <1>5, <1>6, <1>7

(* ChainTtl, unfolded. *)
LEMMA ChainTtlUnfolds ==
  ASSUME NEW r
  PROVE  ChainTtl(r) = [h \in 0..MaxHops |->
                           Follow(r, IF h = 0 THEN Nowhere ELSE ChainTtl(r)[h - 1])]
BY ChainTtlExists, Zenon DEF ChainTtl

(* What one owner name leads to. *)
LEMMA FollowValue ==
  ASSUME NEW r, NEW rest, NEW name \in Owners
  PROVE  LET rr == r.answer[name]
         IN  /\ rr.type = "address" => Follow(r, rest)[name] = rr.ttl
             /\ rr.type = "cname" /\ rest[rr.target] # Null =>
                   Follow(r, rest)[name] = Min({rr.ttl, rest[rr.target]})
             /\ rr.type # "address" /\ ~(rr.type = "cname" /\ rest[rr.target] # Null) =>
                   Follow(r, rest)[name] = Null
<1> DEFINE rr == r.answer[name]
           v == CASE rr.type = "address" -> rr.ttl
                  [] rr.type = "cname" /\ rest[rr.target] # Null -> Min({rr.ttl, rest[rr.target]})
                  [] OTHER -> Null
<1>1. Follow(r, rest)[name] = v
  BY Zenon DEF Follow
<1>2. "address" # "cname"
  OBVIOUS
<1>3. rr.type = "address" => v = rr.ttl
  BY <1>2, Zenon
<1>4. rr.type = "cname" /\ rest[rr.target] # Null => v = Min({rr.ttl, rest[rr.target]})
  BY <1>2, Zenon
<1>5. rr.type # "address" /\ ~(rr.type = "cname" /\ rest[rr.target] # Null) => v = Null
  BY Zenon
<1> HIDE DEF v
<1> QED BY <1>1, <1>3, <1>4, <1>5

(* The fields of the RRsets of a response. *)
LEMMA RRsetFields ==
  ASSUME NEW r \in Response, NEW name \in Owners
  PROVE  LET rr == r.answer[name]
         IN  /\ rr.type = "address" => rr.ttl \in Nat
             /\ rr.type = "cname" => rr.target \in Owners /\ rr.ttl \in Nat
<1>1. r.answer[name] \in [type : {"address"}, ttl : Nat] \union {NoRRset}
                          \union [type : {"cname"}, target : Owners, ttl : Nat]
  BY DEF Response
<1> QED BY <1>1 DEF NoRRset

(* The lesser of two numbers. *)
LEMMA MinOfTwo ==
  ASSUME NEW a \in Nat, NEW b \in Nat
  PROVE  Min({a, b}) \in Nat /\ Min({a, b}) <= a /\ Min({a, b}) <= b /\ Min({a, b}) \in {a, b}
<1>1. \E x \in {a, b} : \A y \in {a, b} : x <= y
  OBVIOUS
<1>2. Min({a, b}) \in {a, b} /\ \A y \in {a, b} : Min({a, b}) <= y
  BY <1>1 DEF Min
<1> QED BY <1>2

-----------------------------------------------------------------------------
(* A chain of n names from `name' to an address. *)
IsChain(r, c, name, n) ==
    /\ c[1] = name /\ r.answer[c[n]].type = "address"
    /\ \A i \in 1..(n - 1) : r.answer[c[i]].type = "cname" /\ r.answer[c[i]].target = c[i + 1]

(* What ChainTtl finds with h hops left is the TTL of a chain, and it finds *)
(* one if there is one.                                                     *)
Found(r, h, name) ==
    ChainTtl(r)[h][name] # Null =>
        /\ ChainTtl(r)[h][name] \in Nat
        /\ \E n \in 1..(h + 1) : \E c \in [1..n -> Owners] :
              /\ IsChain(r, c, name, n)
              /\ \A i \in 1..n : ChainTtl(r)[h][name] <= r.answer[c[i]].ttl

Finds(r, h, name) ==
    (\E n \in 1..(h + 1) : \E c \in [1..n -> Owners] : IsChain(r, c, name, n)) =>
        ChainTtl(r)[h][name] # Null

(* One hop of the induction. *)
LEMMA FoundStep ==
  ASSUME NEW r \in Response, NEW h \in 0..MaxHops, NEW name \in Owners,
         h > 0 => \A o \in Owners : Found(r, h - 1, o)
  PROVE  Found(r, h, name)
<1> DEFINE rest == IF h = 0 THEN Nowhere ELSE ChainTtl(r)[h - 1]
           rr == r.answer[name]
           v == ChainTtl(r)[h][name]
<1>1. h \in Nat /\ MaxHops \in Nat /\ Null \notin Nat
  BY ResolversAssumption
<1>2. v = Follow(r, rest)[name]
  BY ChainTtlUnfolds, Zenon
<1>3. /\ rr.type = "address" => rr.ttl \in Nat
      /\ rr.type = "cname" => rr.target \in Owners /\ rr.ttl \in Nat
  BY RRsetFields
<1>4. /\ rr.type = "address" => v = rr.ttl
      /\ rr.type = "cname" /\ rest[rr.target] # Null => v = Min({rr.ttl, rest[rr.target]})
      /\ rr.type # "address" /\ ~(rr.type = "cname" /\ rest[rr.target] # Null) => v = Null
  <2> HIDE DEF rest, v
  <2>1. rr.type = "address" => v = rr.ttl
    BY <1>2, FollowValue
  <2>2. rr.type = "cname" /\ rest[rr.target] # Null => v = Min({rr.ttl, rest[rr.target]})
    BY <1>2, FollowValue
  <2>3. rr.type # "address" /\ ~(rr.type = "cname" /\ rest[rr.target] # Null) => v = Null
    BY <1>2, FollowValue
  <2> QED BY <2>1, <2>2, <2>3
<1> SUFFICES ASSUME v # Null
             PROVE  /\ v \in Nat
                    /\ \E n \in 1..(h + 1) : \E c \in [1..n -> Owners] :
                          IsChain(r, c, name, n) /\ \A i \in 1..n : v <= r.answer[c[i]].ttl
  BY DEF Found
<1> HIDE DEF v
<1>5. CASE rr.type = "address"
  <2> DEFINE c == [i \in 1..1 |-> name]
  <2>1. 1 \in 1..(h + 1) /\ c \in [1..1 -> Owners] /\ IsChain(r, c, name, 1)
    BY <1>1, <1>5 DEF IsChain
  <2>2. v \in Nat /\ \A i \in 1..1 : v <= r.answer[c[i]].ttl
    BY <1>3, <1>4, <1>5
  <2> HIDE DEF c
  <2> QED BY <2>1, <2>2
<1>6. CASE rr.type = "cname" /\ rest[rr.target] # Null
  <2> DEFINE t == rr.target
             w == ChainTtl(r)[h - 1][t]
  <2>1. t \in Owners /\ rr.ttl \in Nat
    BY <1>3, <1>6
  <2>2. h > 0 /\ rest[t] = w
    <3>1. CASE h = 0
      BY <1>6, <2>1, <3>1 DEF Nowhere
    <3>2. CASE h # 0
      BY <1>1, <3>2
    <3> QED BY <3>1, <3>2
  <2>3. Found(r, h - 1, t) /\ w # Null
    BY <1>6, <2>1, <2>2
  <2>4. /\ w \in Nat
        /\ \E n \in 1..((h - 1) + 1) : \E c \in [1..n -> Owners] :
              IsChain(r, c, t, n) /\ \A i \in 1..n : w <= r.answer[c[i]].ttl
    BY <2>3 DEF Found
  <2>5. PICK n \in 1..((h - 1) + 1) : \E c \in [1..n -> Owners] :
              IsChain(r, c, t, n) /\ \A i \in 1..n : w <= r.answer[c[i]].ttl
    BY <2>4
  <2>6. PICK c \in [1..n -> Owners] : IsChain(r, c, t, n) /\ \A i \in 1..n : w <= r.answer[c[i]].ttl
    BY <2>5
  <2>7. v = Min({rr.ttl, w})
    BY <1>4, <1>6, <2>2
  <2>8. v \in Nat /\ v <= rr.ttl /\ v <= w
    <3> HIDE DEF w, rr
    <3> QED BY <2>1, <2>4, <2>7, MinOfTwo
  <2> DEFINE d == [i \in 1..(n + 1) |-> IF i = 1 THEN name ELSE c[i - 1]]
  <2>9. n \in Nat /\ n >= 1 /\ n + 1 \in 1..(h + 1)
    BY <1>1, <2>2
  <2>10. d \in [1..(n + 1) -> Owners]
    BY <2>9
  <2>11. d[1] = name /\ \A i \in 1..n : d[i + 1] = c[i]
    BY <2>9
  <2>12. \A i \in 1..(n + 1) : i = 1 \/ (i - 1 \in 1..n /\ d[i] = c[i - 1])
    BY <2>9
  <2> HIDE DEF d
  <2>13. IsChain(r, d, name, n + 1)
    <3>1. r.answer[d[n + 1]].type = "address"
      BY <2>6, <2>9, <2>11 DEF IsChain
    <3>2. ASSUME NEW i \in 1..((n + 1) - 1)
          PROVE  r.answer[d[i]].type = "cname" /\ r.answer[d[i]].target = d[i + 1]
      <4>1. CASE i = 1
        BY <1>6, <2>6, <2>9, <2>11, <4>1 DEF IsChain
      <4>2. CASE i # 1
        <5>1. i \in 1..(n + 1) /\ i - 1 \in 1..(n - 1) /\ i \in 1..n /\ (i - 1) + 1 = i
          BY <2>9, <4>2
        <5>2. d[i] = c[i - 1] /\ d[i + 1] = c[i]
          BY <2>11, <2>12, <4>2, <5>1
        <5>3. r.answer[c[i - 1]].type = "cname" /\ r.answer[c[i - 1]].target = c[i]
          BY <2>6, <5>1 DEF IsChain
        <5> QED BY <5>2, <5>3
      <4> QED BY <4>1, <4>2
    <3> QED BY <2>11, <3>1, <3>2 DEF IsChain
  <2>14. ASSUME NEW i \in 1..(n + 1) PROVE v <= r.answer[d[i]].ttl
    <3>1. CASE i = 1
      BY <2>8, <2>11, <3>1
    <3>2. CASE i # 1
      <4>1. i - 1 \in 1..n /\ d[i] = c[i - 1]
        BY <2>12, <3>2
      <4>2. w <= r.answer[c[i - 1]].ttl /\ c[i - 1] \in Owners
        BY <2>6, <4>1
      <4>3. r.answer[c[i - 1]].ttl \in Nat
        <5>1. r.answer[c[i - 1]].type \in {"address", "cname"}
          <6>1. CASE i - 1 = n
            BY <2>6, <6>1 DEF IsChain
          <6>2. CASE i - 1 # n
            <7>1. i - 1 \in 1..(n - 1)
              BY <2>9, <4>1, <6>2
            <7> QED BY <2>6, <7>1 DEF IsChain
          <6> QED BY <6>1, <6>2
        <5> QED BY <4>2, <5>1, RRsetFields
      <4> HIDE DEF w
      <4> QED BY <2>4, <2>8, <4>1, <4>2, <4>3
    <3> QED BY <3>1, <3>2
  <2> QED BY <2>8, <2>9, <2>10, <2>13, <2>14
<1> QED BY <1>4, <1>5, <1>6

(* The same for a chain that is there: without its first name it is one for *)
(* a hop less.                                                              *)
LEMMA FindsStep ==
  ASSUME NEW r \in Response, NEW h \in 0..MaxHops, NEW name \in Owners,
         h > 0 => \A o \in Owners : Found(r, h - 1, o) /\ Finds(r, h - 1, o)
  PROVE  Finds(r, h, name)
<1> DEFINE rest == IF h = 0 THEN Nowhere ELSE ChainTtl(r)[h - 1]
           rr == r.answer[name]
           v == ChainTtl(r)[h][name]
<1>1. h \in Nat /\ MaxHops \in Nat /\ Null \notin Nat
  BY ResolversAssumption
<1>2. v = Follow(r, rest)[name]
  BY ChainTtlUnfolds, Zenon
<1>3. /\ rr.type = "address" => rr.ttl \in Nat
      /\ rr.type = "cname" => rr.target \in Owners /\ rr.ttl \in Nat
  BY RRsetFields
<1>4. /\ rr.type = "address" => v = rr.ttl
      /\ rr.type = "cname" /\ rest[rr.target] # Null => v = Min({rr.ttl, rest[rr.target]})
  <2> HIDE DEF rest, v
  <2> QED BY <1>2, FollowValue
<1> SUFFICES ASSUME NEW n \in 1..(h + 1), NEW c \in [1..n -> Owners], IsChain(r, c, name, n)
             PROVE  v # Null
  BY DEF Finds
<1> HIDE DEF v
<1>5. CASE n = 1
  BY <1>1, <1>3, <1>4, <1>5 DEF IsChain
<1>6. CASE n # 1
  <2> DEFINE d == [i \in 1..(n - 1) |-> c[i + 1]]
             t == rr.target
             w == ChainTtl(r)[h - 1][t]
  <2>1. /\ n \in Nat /\ n - 1 \in Nat /\ n - 1 >= 1 /\ h > 0 /\ n - 1 \in 1..((h - 1) + 1)
        /\ 1 \in 1..(n - 1)
    BY <1>1, <1>6
  <2>2. rr.type = "cname" /\ t = c[2] /\ t \in Owners /\ rr.ttl \in Nat
    BY <1>3, <2>1 DEF IsChain
  <2>3. d \in [1..(n - 1) -> Owners] /\ \A i \in 1..(n - 1) : d[i] = c[i + 1]
    BY <2>1
  <2> HIDE DEF d
  <2>4. IsChain(r, d, t, n - 1)
    <3>1. d[1] = t
      BY <2>1, <2>2, <2>3
    <3>2. d[n - 1] = c[n]
      BY <2>1, <2>3
    <3>3. ASSUME NEW i \in 1..((n - 1) - 1)
          PROVE  r.answer[d[i]].type = "cname" /\ r.answer[d[i]].target = d[i + 1]
      <4>1. i \in 1..(n - 1) /\ i + 1 \in 1..(n - 1)
        BY <2>1
      <4>2. d[i] = c[i + 1] /\ d[i + 1] = c[(i + 1) + 1]
        BY <2>3, <4>1
      <4>3. r.answer[c[i + 1]].type = "cname" /\ r.answer[c[i + 1]].target = c[(i + 1) + 1]
        BY <4>1 DEF IsChain
      <4> QED BY <4>2, <4>3
    <3>4. r.answer[c[n]].type = "address"
      BY DEF IsChain
    <3> QED BY <3>1, <3>2, <3>3, <3>4 DEF IsChain
  <2>5. w # Null
    BY <2>1, <2>2, <2>3, <2>4 DEF Finds
  <2>6. w \in Nat
    BY <2>1, <2>2, <2>5 DEF Found
  <2>7. rest[t] = w
    BY <2>1
  <2>8. v = Min({rr.ttl, w})
    BY <1>4, <2>2, <2>5, <2>7
  <2>9. v \in Nat
    <3> HIDE DEF w, rr
    <3> QED BY <2>2, <2>6, <2>8, MinOfTwo
  <2> QED BY <1>1, <2>9
<1> QED BY <1>5, <1>6

(* ChainTtl is right about every name and any number of hops. *)
LEMMA ChainsFound ==
  ASSUME NEW r \in Response, NEW h \in 0..MaxHops, NEW name \in Owners
  PROVE  Found(r, h, name) /\ Finds(r, h, name)
<1> DEFINE Right(k) == \A o \in Owners : Found(r, k, o) /\ Finds(r, k, o)
           Bad == {k \in 0..MaxHops : ~Right(k)}
<1>1. MaxHops \in Nat
  BY ResolversAssumption
<1>2. ASSUME NEW k \in 0..MaxHops, k > 0 => Right(k - 1)
      PROVE  Right(k)
  <2> SUFFICES ASSUME NEW o \in Owners PROVE Found(r, k, o) /\ Finds(r, k, o)
    OBVIOUS
  <2>1. Found(r, k, o)
    BY <1>2, FoundStep
  <2>2. Finds(r, k, o)
    BY <1>2, FindsStep
  <2> QED BY <2>1, <2>2
<1> HIDE DEF Right
<1>3. SUFFICES ASSUME Bad # {} PROVE FALSE
  BY DEF Right
<1>4. Bad \in SUBSET Nat
  BY <1>1
<1>5. PICK k \in Bad : \A m \in Bad : k <= m
  BY <1>3, <1>4, LeastNatural
<1>6. k \in 0..MaxHops /\ k \in Nat /\ ~Right(k)
  BY <1>1, <1>5
<1>7. k > 0 => k - 1 \in 0..MaxHops /\ ~(k <= k - 1)
  BY <1>1, <1>6
<1>8. k > 0 => Right(k - 1)
  BY <1>5, <1>7
<1> QED BY <1>2, <1>6, <1>8

(* The reference's chains are those of at most MaxHops hops. *)
LEMMA ChainsAre ==
  ASSUME NEW r, NEW c
  PROVE  c \in Chains(r) <=> \E n \in 1..(MaxHops + 1) : /\ c \in [1..n -> Owners] /\ Len(c) = n
                                                        /\ IsChain(r, c, QName, n)
<1>1. MaxHops \in Nat
  BY ResolversAssumption
<1>2. ASSUME NEW n \in 1..(MaxHops + 1), c \in [1..n -> Owners] PROVE Len(c) = n
  BY <1>1, <1>2
<1>3. c \in UNION {[1..n -> Owners] : n \in 1..(MaxHops + 1)} <=>
        \E n \in 1..(MaxHops + 1) : c \in [1..n -> Owners]
  OBVIOUS
<1>4. ASSUME NEW n \in 1..(MaxHops + 1), c \in [1..n -> Owners]
      PROVE  c \in Chains(r) <=> IsChain(r, c, QName, n)
  <2>1. Len(c) = n
    BY <1>2, <1>4
  <2> QED BY <1>3, <1>4, <2>1 DEF Chains, IsChain
<1>5. c \in Chains(r) => \E n \in 1..(MaxHops + 1) : c \in [1..n -> Owners]
  BY <1>3 DEF Chains
<1> QED BY <1>2, <1>4, <1>5

(* A response brings addresses just if a chain leads to some, and their TTL *)
(* outlives no link of that chain (parse_response).                         *)
LEMMA ParsedTtl ==
  ASSUME NEW r \in Response
  PROVE  /\ parse_response(r).ttl # Null <=> Positive(r)
         /\ parse_response(r).ttl # Null =>
               \E c \in Chains(r) : \A i \in 1..Len(c) : parse_response(r).ttl <= r.answer[c[i]].ttl
<1> DEFINE v == ChainTtl(r)[MaxHops][QName]
<1>1. MaxHops \in Nat /\ MaxHops \in 0..MaxHops /\ QName \in Owners
  BY ResolversAssumption
<1>2. Found(r, MaxHops, QName) /\ Finds(r, MaxHops, QName)
  BY <1>1, ChainsFound
<1>3. parse_response(r).ttl = IF r.rcode = "noerror" THEN v ELSE Null
  BY DEF parse_response
<1>4. ASSUME v # Null
      PROVE  \E c \in Chains(r) : \A i \in 1..Len(c) : v <= r.answer[c[i]].ttl
  <2>1. PICK n \in 1..(MaxHops + 1) : \E c \in [1..n -> Owners] :
          IsChain(r, c, QName, n) /\ \A i \in 1..n : v <= r.answer[c[i]].ttl
    BY <1>2, <1>4 DEF Found
  <2>2. PICK c \in [1..n -> Owners] :
          IsChain(r, c, QName, n) /\ \A i \in 1..n : v <= r.answer[c[i]].ttl
    BY <2>1
  <2>3. Len(c) = n
    BY <1>1, <2>2
  <2>4. c \in Chains(r)
    BY <2>2, <2>3, ChainsAre
  <2> QED BY <2>2, <2>3, <2>4
<1>5. ASSUME Chains(r) # {} PROVE v # Null
  <2>1. PICK c \in Chains(r) : TRUE
    BY <1>5
  <2>2. PICK n \in 1..(MaxHops + 1) : c \in [1..n -> Owners] /\ IsChain(r, c, QName, n)
    BY <2>1, ChainsAre
  <2> QED BY <1>2, <2>2 DEF Finds
<1> HIDE DEF v
<1>6. v # Null <=> Chains(r) # {}
  BY <1>4, <1>5
<1> QED BY <1>3, <1>4, <1>6 DEF Positive

(* How long a denial may be kept (parse_response). *)
LEMMA ParsedNegativeTtl ==
  ASSUME NEW r \in Response
  PROVE  /\ parse_response(r).status = r.rcode
         /\ parse_response(r).negative_ttl \in Nat \union {Null}
         /\ Negative(r) /\ r.soa # Null =>
               /\ parse_response(r).negative_ttl \in Nat
               /\ parse_response(r).negative_ttl <= Min({r.soa.ttl, r.soa.minimum})
<1> DEFINE t == parse_response(r).ttl
           n == parse_response(r).negative_ttl
<1>1. /\ parse_response(r).status = r.rcode
      /\ n = IF r.rcode \in {"noerror", "nxdomain"} /\ t = Null THEN negative_ttl(r) ELSE Null
  BY DEF parse_response
<1>2. r.soa # Null => r.soa.ttl \in Nat /\ r.soa.minimum \in Nat
  BY DEF Response
<1>3. /\ r.soa = Null => negative_ttl(r) = Null
      /\ r.soa # Null => negative_ttl(r) \in Nat /\ negative_ttl(r) <= Min({r.soa.ttl, r.soa.minimum})
  BY <1>2, MinOfTwo DEF negative_ttl
<1>4. Negative(r) => r.rcode \in {"noerror", "nxdomain"} /\ t = Null
  BY ParsedTtl DEF Negative
<1> HIDE DEF t, n
<1>5. n \in Nat \union {Null}
  BY <1>1, <1>3
<1>6. Negative(r) /\ r.soa # Null => n \in Nat /\ n <= Min({r.soa.ttl, r.soa.minimum})
  BY <1>1, <1>3, <1>4
<1> QED BY <1>1, <1>5, <1>6 DEF n

(* A negative answer is kept no longer than any denial allows, but for the *)
(* configured minimum.                                                     *)
LEMMA BackoffBounded ==
  ASSUME NEW answers, NEW p \in Pairs, answers[p].negative_ttl \in Nat,
         \A q \in Pairs : answers[q].negative_ttl \in Nat \union {Null},
         NEW b \in Nat, answers[p].negative_ttl <= b
  PROVE  Backoff(answers) <= Max({NegativeMin, b})
<1> DEFINE ttls == {answers[q].negative_ttl : q \in Pairs} \ {Null}
           x == Min(ttls)
           y == Min({NegativeMax, x})
<1>1. NegativeMin \in Nat /\ NegativeMax \in Nat /\ Null \notin Nat
  BY ResolversAssumption
<1>2. ttls \in SUBSET Nat /\ answers[p].negative_ttl \in ttls /\ ttls # {}
  BY <1>1
<1> HIDE DEF ttls
<1>3. x \in ttls /\ \A z \in ttls : x <= z
  <2>1. \E z \in ttls : \A u \in ttls : z <= u
    BY <1>2, LeastNatural
  <2> QED BY <2>1 DEF Min
<1>4. x \in Nat /\ x <= b
  <2>1. x \in Nat /\ x <= answers[p].negative_ttl
    BY <1>2, <1>3
  <2> HIDE DEF x
  <2> QED BY <2>1
<1> HIDE DEF x
<1>5. y \in Nat /\ y <= b
  <2>1. y \in Nat /\ y <= x
    BY <1>1, <1>4, MinOfTwo
  <2> HIDE DEF y
  <2> QED BY <1>4, <2>1
<1>6. Backoff(answers) = Max({NegativeMin, y})
  BY <1>2 DEF Backoff, ttls, x
<1> HIDE DEF y
<1>7. ASSUME NEW a \in Nat, NEW c \in Nat
      PROVE  Max({a, c}) \in {a, c} /\ Max({a, c}) >= a /\ Max({a, c}) >= c
  <2>1. \E z \in {a, c} : \A u \in {a, c} : z >= u
    OBVIOUS
  <2> QED BY <2>1 DEF Max
<1>8. Max({NegativeMin, y}) \in {NegativeMin, y}
  BY <1>1, <1>5, <1>7
<1>9. Max({NegativeMin, b}) \in Nat /\ Max({NegativeMin, b}) >= NegativeMin /\ Max({NegativeMin, b}) >= b
  BY <1>1, <1>7
<1> QED BY <1>1, <1>5, <1>6, <1>8, <1>9

(* The three ways classify decides. *)
LEMMA Classified ==
  ASSUME NEW answers
  PROVE  /\ classify(answers).ttls = [p \in Pairs |-> answers[p].ttl]
         /\ classify(answers).status # "failed" => Answered(answers)
         /\ classify(answers).status \in {"nxdomain", "nodata"} =>
               /\ \A p \in Pairs : answers[p].ttl = Null
               /\ classify(answers).retry_after = Backoff(answers)
<1> DEFINE some == \E p \in Pairs : answers[p].ttl # Null
           denied == IF \E p \in Pairs : answers[p].status = "nxdomain" THEN "nxdomain" ELSE "nodata"
<1>1. ASSUME NEW s, NEW t
      PROVE  /\ Outcome(s, t, answers).status = s /\ Outcome(s, t, answers).retry_after = t
             /\ Outcome(s, t, answers).ttls = [p \in Pairs |-> answers[p].ttl]
  BY DEF Outcome
<1>2. CASE ~Answered(answers)
  <2>1. classify(answers) = Outcome("failed", FailedRetry, answers)
    BY <1>2, Zenon DEF classify
  <2> QED BY <1>1, <2>1
<1>3. CASE Answered(answers) /\ some
  <2>1. classify(answers) = Outcome("resolved", Null, answers)
    BY <1>3, Zenon DEF classify
  <2> QED BY <1>1, <1>3, <2>1
<1>4. CASE Answered(answers) /\ ~some
  <2>1. classify(answers) = Outcome(denied, Backoff(answers), answers)
    BY <1>4, Zenon DEF classify
  <2> QED BY <1>1, <1>4, <2>1
<1> QED BY <1>2, <1>3, <1>4

(* What classify makes of responses is justified by them. *)
LEMMA OutcomeOfResponses ==
  ASSUME responses \in [Pairs -> Response], NEW o,
         o = classify([p \in Pairs |-> parse_response(responses[p])])
  PROVE  Justified(o)
<1> DEFINE answers == [p \in Pairs |-> parse_response(responses[p])]
<1>1. \A p \in Pairs : responses[p] \in Response /\ answers[p] = parse_response(responses[p])
  OBVIOUS
<1>2. o = classify(answers)
  OBVIOUS
<1> HIDE DEF answers
<1>3. ASSUME NEW p \in Pairs PROVE o.ttls[p] = parse_response(responses[p]).ttl
  <2>1. o.ttls = [q \in Pairs |-> answers[q].ttl]
    BY <1>2, Classified
  <2> QED BY <1>1, <2>1
<1>4. \A p \in Pairs : o.ttls[p] # Null <=> Positive(responses[p])
  BY <1>1, <1>3, ParsedTtl
<1>5. ASSUME NEW p \in Pairs, o.ttls[p] # Null
      PROVE  \E c \in Chains(responses[p]) : \A i \in 1..Len(c) :
                  o.ttls[p] <= responses[p].answer[c[i]].ttl
  BY <1>1, <1>3, <1>5, ParsedTtl
<1>6. ASSUME o.status # "failed", NEW rtype \in RTypes \ RTypesOf(o)
      PROVE  \E res \in Resolvers : Negative(responses[<<res, rtype>>])
  <2>1. PICK res \in Resolvers : Definitive(answers[<<res, rtype>>])
    BY <1>2, <1>6, Classified DEF Answered
  <2>2. <<res, rtype>> \in Pairs
    BY DEF Pairs
  <2>3. o.ttls[<<res, rtype>>] = Null
    BY <1>6 DEF RTypesOf
  <2>4. ~Positive(responses[<<res, rtype>>])
    BY <1>4, <2>2, <2>3
  <2>5. responses[<<res, rtype>>].rcode \in {"noerror", "nxdomain"}
    <3>1. /\ answers[<<res, rtype>>] = parse_response(responses[<<res, rtype>>])
          /\ responses[<<res, rtype>>] \in Response
      BY <1>1, <2>2
    <3> QED BY <2>1, <3>1, ParsedNegativeTtl DEF Definitive
  <2> QED BY <2>4, <2>5 DEF Negative
<1>7. ASSUME o.status \in {"nxdomain", "nodata"}, NEW p \in Pairs
      PROVE  /\ ~Positive(responses[p])
             /\ Negative(responses[p]) /\ responses[p].soa # Null =>
                   o.retry_after <= Max({NegativeMin, Min({responses[p].soa.ttl,
                                                           responses[p].soa.minimum})})
  <2>1. answers[p].ttl = Null /\ o.retry_after = Backoff(answers)
    BY <1>2, <1>7, Classified
  <2>2. ~Positive(responses[p])
    BY <1>1, <2>1, ParsedTtl
  <2> DEFINE b == Min({responses[p].soa.ttl, responses[p].soa.minimum})
  <2>3. ASSUME Negative(responses[p]), responses[p].soa # Null
        PROVE  Backoff(answers) <= Max({NegativeMin, b})
    <3>1. responses[p].soa.ttl \in Nat /\ responses[p].soa.minimum \in Nat
      BY <1>1, <2>3 DEF Response
    <3>2. b \in Nat
      BY <3>1, MinOfTwo
    <3>3. answers[p].negative_ttl \in Nat /\ answers[p].negative_ttl <= b
      BY <1>1, <2>3, ParsedNegativeTtl
    <3>4. \A q \in Pairs : answers[q].negative_ttl \in Nat \union {Null}
      BY <1>1, ParsedNegativeTtl
    <3> HIDE DEF b
    <3> QED BY <3>2, <3>3, <3>4, BackoffBounded
  <2> QED BY <2>1, <2>2, <2>3
<1> QED BY <1>4, <1>5, <1>6, <1>7 DEF Justified

(* While the responses are there, the first measurement is the only one,    *)
(* and its outcome is what classify makes of them.                          *)
ResponsesInv ==
    responses # Null =>
        /\ responses \in [Pairs -> Responses]
        /\ \A d \in Domains :
              /\ task[d].phase \in {"idle", "answered", "classified"}
              /\ task[d].phase = "classified" =>
                    task[d].outcome = classify([p \in Pairs |-> parse_response(responses[p])])

(* It is kept by every step; those after FindEndpoints cannot be taken. *)
LEMMA ResponsesStep ==
  ASSUME IInv, ResponsesInv, [Next]_vars
  PROVE  ResponsesInv'
<1> SUFFICES ASSUME responses # Null, responses' # Null PROVE ResponsesInv'
  <2>1. responses' = responses \/ responses' = Null
    <3>1. ASSUME NEW d \in Domains, Measure(d)
          PROVE  responses' = responses \/ responses' = Null
      BY <3>1 DEF Measure, Classify, FindEndpoints, FindRegions, FindSignals, SignalsDone, Store,
         StoreConflict, Abort, Again, RegionFails, RegionFor, Signal
    <3>2. ASSUME NEW d \in Domains, NEW a \in Addresses, Lookup(d, a)
          PROVE  responses' = responses
      BY <3>2 DEF Lookup, NotGlobal, Fallback, Locate, Reply, SetWork
    <3> QED BY <3>1, <3>2 DEF Next, GcSelect, AgeEndpoint, AgeLocation, AgeSignal, GcDelete, vars
  <2> QED BY <2>1 DEF ResponsesInv
<1>1. /\ responses \in [Pairs -> Responses]
      /\ \A d \in Domains : task[d].phase \in {"idle", "answered", "classified"}
      /\ task = [d \in Domains |-> task[d]]
  BY DEF ResponsesInv, IInv, Tasks
<1>2. CASE UNCHANGED <<responses, task>>
  BY <1>2 DEF ResponsesInv
<1>3. ASSUME NEW d \in Domains, Classify(d)
      PROVE  ResponsesInv'
  <2> DEFINE o == classify([p \in Pairs |-> parse_response(responses[p])])
             u == [task[d] EXCEPT !.phase = "classified", !.outcome = o]
  <2>1. responses' = responses /\ task' = [task EXCEPT ![d] = u]
    BY <1>3 DEF Classify, Becomes
  <2> HIDE DEF o
  <2>2. u.phase = "classified" /\ u.outcome = o
    <3>1. IsTask(task[d])
      BY DEF IInv, Tasks, Good
    <3> QED BY <3>1 DEF IsTask
  <2> HIDE DEF u
  <2>3. task'[d] = u /\ \A x \in Domains \ {d} : task'[x] = task[x]
    BY <1>1, <2>1
  <2> QED BY <2>1, <2>2, <2>3 DEF ResponsesInv, o
<1>4. ASSUME NEW d \in Domains, Measure(d)
      PROVE  ResponsesInv'
  <2>1. ~FindEndpoints(d)
    BY DEF FindEndpoints
  <2>2. /\ ~FindRegions(d) /\ ~FindSignals(d) /\ ~SignalsDone(d)
        /\ ~Store(d) /\ ~StoreConflict(d) /\ ~Abort(d)
    BY <1>1 DEF FindRegions, FindSignals, SignalsDone, Store, StoreConflict, Abort
  <2>3. /\ \A status \in Statuses, addresses \in SUBSET Addresses : ~Again(d, status, addresses)
        /\ \A k \in Keys : ~RegionFails(d, k) /\ \A region \in RegionsAt[k] : ~RegionFor(d, k, region)
        /\ \A g \in Regions, saved \in BOOLEAN : ~Signal(d, g, saved)
    BY <1>1 DEF Again, RegionFails, RegionFor, Signal
  <2>4. Classify(d)
    BY <1>4, <2>1, <2>2, <2>3 DEF Measure
  <2> QED BY <1>3, <2>4
<1>5. ASSUME NEW d \in Domains, NEW a \in Addresses, Lookup(d, a)
      PROVE  FALSE
  <2>1. task[d].work[a] = NoWork
    BY <1>1 DEF IInv, Tasks, Good, WorkOk
  <2>2. task[d].work[a].pc = "none"
    BY <2>1, NoWorkFacts
  <2> QED BY <1>5, <2>2 DEF Lookup, NotGlobal, Fallback, Forbidden, Locate, Reply
<1>6. ASSUME \/ \E a \in Addresses : GcSelect(a) \/ AgeEndpoint(a)
             \/ \E k \in Keys : AgeLocation(k)
             \/ \E g \in Regions : AgeSignal(g)
             \/ GcDelete \/ UNCHANGED vars
      PROVE  UNCHANGED <<responses, task>>
  BY <1>6 DEF GcSelect, AgeEndpoint, AgeLocation, AgeSignal, GcDelete, vars
<1> QED BY <1>2, <1>4, <1>5, <1>6 DEF Next

(* The outcome of a measurement says no more than the resolvers did, for    *)
(* any responses, resolvers and limits (parse_response, classify).          *)
THEOREM OutcomesJustified == Spec => []OutcomeJustified
<1>1. Init => ResponsesInv
  <2> SUFFICES ASSUME Init PROVE ResponsesInv
    OBVIOUS
  <2>1. PICK first \in Domains :
          task = [d \in Domains |-> IF d = first THEN [Idle EXCEPT !.phase = "answered"] ELSE Idle]
    BY DEF Init
  <2>2. Idle.phase = "idle" /\ [Idle EXCEPT !.phase = "answered"].phase = "answered"
    BY IdleFacts
  <2>3. \A d \in Domains : task[d].phase \in {"idle", "answered"}
    BY <2>1, <2>2
  <2> QED BY <2>3 DEF Init, ResponsesInv
<1>2. IInv /\ ResponsesInv /\ [Next]_vars => ResponsesInv'
  BY ResponsesStep
<1>3. ResponsesInv => OutcomeJustified
  <2> SUFFICES ASSUME ResponsesInv, responses # Null, NEW d \in Domains, task[d].phase = "classified"
               PROVE  Justified(task[d].outcome)
    BY DEF OutcomeJustified
  <2>1. responses \in [Pairs -> Response]
    BY PipelineAssumption DEF ResponsesInv
  <2> QED BY <2>1, OutcomeOfResponses DEF ResponsesInv
<1> QED BY <1>1, <1>2, <1>3, InductiveInvariant, PTL DEF Spec
=============================================================================
