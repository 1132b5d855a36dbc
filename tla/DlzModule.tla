----------------------------- MODULE DlzModule -----------------------------
(***************************************************************************)
(* The BIND module resolver/dlz_pgsql/src/dlz_pgsql.c: what findzonedb and *)
(* lookup answer on named's worker threads, the thread-local probe and row *)
(* cache, the shared connection pool, and reconnecting to PostgreSQL.      *)
(*                                                                         *)
(* Two parts are external and modelled from how the module uses them.      *)
(* BIND: a search probes findzonedb with the query name and then its       *)
(* parents, longest first, on one thread, down to the labels of the best   *)
(* static zone; it ends at the first answer other than NOTFOUND.  After a  *)
(* zone was found, lookup is called for it, at once or later, on the same  *)
(* thread.  PostgreSQL: it stops and restarts, and the rows for a name     *)
(* change under the module (new measurements, expiry).                     *)
(*                                                                         *)
(* A name is the sequence of its labels; <<>> is the empty last_probe.     *)
(* Log output, and the DB_UP/DB_DOWN flag that only throttles it, are left *)
(* out.  So is the name longer than NAME_MAX_LEN, which no DNS name is.    *)
(***************************************************************************)
EXTENDS Integers, Sequences, FiniteSets, SequencesExt

CONSTANTS
    Threads,       \* named's worker threads
    Conns,         \* the connection pool: its size is the option pool=
    Names,         \* the query names, closed under parents
    Served,        \* the names the database ever has rows for
    Answers,       \* distinguishable sets of rows for one name
    Malformed,     \* {} or {"bad"}: results store_rows refuses (too many or too large rows)
    StaticLabels,  \* label counts of the static zones searches may stop at (0: none)
    CacheMaxAge,   \* CACHE_MAX_AGE_NS
    MaxRoundTrip,  \* the longest a reply takes once the statement has read its rows
                   \* (statement_timeout_ms bounds the server's part)
    ReconnectWait, \* the option reconnect_ms
    MaxTime        \* bound of the model: the clock stops here

ASSUME DlzAssumption ==
    /\ CacheMaxAge \in Nat /\ MaxRoundTrip \in Nat /\ ReconnectWait \in Nat /\ MaxTime \in Nat
    /\ StaticLabels \subseteq Nat
    /\ Served \subseteq Names
    /\ IsFiniteSet(Conns) /\ <<>> \notin Conns
    /\ \A n \in Names : /\ n \in Seq(Range(n)) /\ n # <<>>
                        /\ Len(n) > 1 => Tail(n) \in Names
    /\ Malformed \subseteq {"bad"}
    /\ "none" \notin Answers /\ "bad" \notin Answers

VARIABLES
    now,      \* the monotonic clock
    server,   \* PostgreSQL: "up" or "down"
    db,       \* per name: its rows, "none" (not served) or malformed
    held,     \* history: per name and answer, when the database last held it
    free,     \* inst->free_idx[0 .. nfree-1]: a stack
    link,     \* per connection: "closed", "open", or "broken" by a server stop
    retryAt,  \* per connection: retry_at_ns
    tls,      \* struct thread_state of each thread
    call,     \* what each thread is executing
    found,    \* the zone BIND found on each thread and may call lookup for
    reply     \* the last answer lookup gave on each thread

vars == <<now, server, db, held, free, link, retryAt, tls, call, found, reply>>

Contents == Answers \union {"none"} \union Malformed
Never == -1
Nothing == <<>>

IdleCall == [pc |-> "idle", query |-> Nothing, name |-> Nothing, stop |-> 0,
             caller |-> "find", conn |-> Nothing, tries |-> 0, result |-> "none",
             at |-> 0, rows |-> "none", ran |-> 0]

NoZone == [query |-> Nothing, zone |-> Nothing, rows |-> "none", at |-> 0, direct |-> FALSE]

NoReply == [kind |-> "none", query |-> Nothing, zone |-> Nothing, rows |-> "none", at |-> 0]

Init ==
    /\ now = 0
    /\ server = "up"
    /\ db \in {f \in [Names -> Contents] : \A n \in Names \ Served : f[n] = "none"}
    /\ held = [n \in Names |-> [a \in Answers |-> Never]]
    /\ free \in SetToSeqs(Conns)
    /\ link = [c \in Conns |-> "closed"]
    /\ retryAt = [c \in Conns |-> 0]
    /\ tls = [t \in Threads |-> [last_probe |-> Nothing, owner |-> FALSE,
                                 zone |-> Nothing, rows |-> "none", filled |-> 0]]
    /\ call = [t \in Threads |-> IdleCall]
    /\ found = [t \in Threads |-> NoZone]
    /\ reply = [t \in Threads |-> NoReply]

-----------------------------------------------------------------------------
(* The environment: time, PostgreSQL and its contents. *)
HeldNow == [n \in Names |-> [a \in Answers |-> IF db[n] = a THEN now ELSE held[n][a]]]

Tick ==
    /\ now < MaxTime
    /\ \A t \in Threads : call[t].pc = "result" => now - call[t].ran < MaxRoundTrip
    /\ now' = now + 1
    /\ held' = HeldNow
    /\ UNCHANGED <<server, db, free, link, retryAt, tls, call, found, reply>>

DbChange(n, content) ==
    /\ content # db[n]
    /\ held' = HeldNow
    /\ db' = [db EXCEPT ![n] = content]
    /\ UNCHANGED <<now, server, free, link, retryAt, tls, call, found, reply>>

ServerStop ==
    /\ server = "up"
    /\ server' = "down"
    /\ link' = [c \in Conns |-> IF link[c] = "open" THEN "broken" ELSE link[c]]
    /\ UNCHANGED <<now, db, held, free, retryAt, tls, call, found, reply>>

ServerStart ==
    /\ server = "down"
    /\ server' = "up"
    /\ UNCHANGED <<now, db, held, free, link, retryAt, tls, call, found, reply>>

-----------------------------------------------------------------------------
(* BIND starts a search; a zone found before may still be looked up later, *)
(* but no longer directly.  `stop' is the label count of the static zone.  *)
StartSearch(t, q, stop) ==
    /\ call[t].pc = "idle"
    /\ stop < Len(q)
    /\ call' = [call EXCEPT ![t] = [IdleCall EXCEPT !.pc = "probe", !.query = q,
                                                    !.name = q, !.stop = stop]]
    /\ found' = [found EXCEPT ![t].direct = FALSE]
    /\ reply' = [reply EXCEPT ![t] = NoReply]
    /\ UNCHANGED <<now, server, db, held, free, link, retryAt, tls>>

(* util.c: `name' is a proper parent of `child'. *)
cadns_is_parent_name(name, child) ==
    /\ name # <<>>
    /\ Len(child) > Len(name)
    /\ IsSuffix(name, child)

(* Variant: a parent probe is taken for the end of the search. *)
FindZoneForgets(t) ==
    /\ call[t].pc = "probe"
    /\ LET parent == cadns_is_parent_name(call[t].name, tls[t].last_probe)
       IN  /\ tls' = [tls EXCEPT ![t].last_probe = IF parent THEN Nothing ELSE call[t].name]
           /\ call' = [call EXCEPT ![t] =
                 IF parent
                 THEN [@ EXCEPT !.pc = "findDone", !.result = "NOTFOUND"]
                 ELSE [@ EXCEPT !.pc = "acquire", !.caller = "find"]]
    /\ UNCHANGED <<now, server, db, held, free, link, retryAt, found, reply>>

(* dlz_findzonedb up to fetch(): a parent probe is NOTFOUND without a query. *)
FindZone(t) ==
    /\ call[t].pc = "probe"
    /\ tls' = [tls EXCEPT ![t].last_probe = call[t].name]
    /\ call' = [call EXCEPT ![t] =
          IF cadns_is_parent_name(@.name, tls[t].last_probe)
          THEN [@ EXCEPT !.pc = "findDone", !.result = "NOTFOUND"]
          ELSE [@ EXCEPT !.pc = "acquire", !.caller = "find"]]
    /\ UNCHANGED <<now, server, db, held, free, link, retryAt, found, reply>>

-----------------------------------------------------------------------------
(* fetch(): acquire a connection, at most two attempts, release. *)
Acquire(t) ==
    /\ call[t].pc = "acquire"
    /\ free # <<>>
    /\ call' = [call EXCEPT ![t].pc = "connect", ![t].conn = Last(free), ![t].tries = 0]
    /\ free' = Front(free)
    /\ UNCHANGED <<now, server, db, held, link, retryAt, tls, found, reply>>

Return(t) == IF call[t].caller = "find" THEN "findDone" ELSE "lookupDone"

(* pool_wait_ms passed and no connection came free. *)
AcquireTimeout(t) ==
    /\ call[t].pc = "acquire"
    /\ free = <<>>
    /\ call' = [call EXCEPT ![t].pc = Return(t), ![t].result = "FAILURE"]
    /\ UNCHANGED <<now, server, db, held, free, link, retryAt, tls, found, reply>>

(* The end of fetch(): release() pushes the connection, fetch returns. *)
Finish(t, result) ==
    /\ free' = Append(free, call[t].conn)
    /\ call' = [call EXCEPT ![t].pc = Return(t), ![t].conn = Nothing, ![t].result = result,
                            ![t].rows = "none", ![t].ran = 0]

(* ensure_connected: libpq reports a broken connection as CONNECTION_OK until *)
(* it is used.                                                                *)
StillConnected(t) ==
    /\ call[t].pc = "connect"
    /\ link[call[t].conn] # "closed"
    /\ call' = [call EXCEPT ![t].pc = "exec"]
    /\ UNCHANGED <<now, server, db, held, free, link, retryAt, tls, found, reply>>

(* Variant: an early return that forgets release(). *)
BackingOffLeaks(t) ==
    /\ call[t].pc = "connect"
    /\ link[call[t].conn] = "closed"
    /\ now < retryAt[call[t].conn]
    /\ call' = [call EXCEPT ![t].pc = Return(t), ![t].conn = Nothing, ![t].result = "FAILURE"]
    /\ UNCHANGED <<now, server, db, held, free, link, retryAt, tls, found, reply>>

BackingOff(t) ==
    /\ call[t].pc = "connect"
    /\ link[call[t].conn] = "closed"
    /\ now < retryAt[call[t].conn]
    /\ Finish(t, "FAILURE")
    /\ UNCHANGED <<now, server, db, held, link, retryAt, tls, found, reply>>

Connect(t) ==
    /\ call[t].pc = "connect"
    /\ link[call[t].conn] = "closed"
    /\ now >= retryAt[call[t].conn]
    /\ \/ /\ server = "up"
          /\ link' = [link EXCEPT ![call[t].conn] = "open"]
          /\ call' = [call EXCEPT ![t].pc = "exec"]
          /\ UNCHANGED <<free, retryAt>>
       \/ /\ server = "down"
          /\ retryAt' = [retryAt EXCEPT ![call[t].conn] = now + ReconnectWait]
          /\ Finish(t, "FAILURE")
          /\ UNCHANGED link
    /\ UNCHANGED <<now, server, db, held, tls, found, reply>>

(* Variant: the shape of the result is not checked. *)
StoreAnyRows(t, content) ==
    tls' = [tls EXCEPT ![t] = [@ EXCEPT !.owner = TRUE, !.zone = call[t].name,
                                        !.rows = content, !.filled = now]]

(* store_rows: the cache is dropped first and filled only by a good result. *)
store_rows(t, content) ==
    tls' = [tls EXCEPT ![t] =
              IF content \in Answers
              THEN [@ EXCEPT !.owner = TRUE, !.zone = call[t].name,
                             !.rows = content, !.filled = now]
              ELSE [@ EXCEPT !.owner = FALSE, !.rows = "none"]]

ResultOf(content) ==
    CASE content = "none" -> "NOTFOUND"
      [] content = "bad" -> "FAILURE"
      [] OTHER -> "SUCCESS"

(* PQexecPrepared: the server runs the statement on the rows of that moment ... *)
Execute(t) ==
    /\ call[t].pc = "exec"
    /\ link[call[t].conn] = "open"
    /\ call' = [call EXCEPT ![t].pc = "result", ![t].rows = db[call[t].name], ![t].ran = now]
    /\ UNCHANGED <<now, server, db, held, free, link, retryAt, tls, found, reply>>

(* ... and its reply arrives later, perhaps from a server that has stopped   *)
(* since: store_rows reads the clock only now.                               *)
Result(t) ==
    /\ call[t].pc = "result"
    /\ store_rows(t, call[t].rows)
    /\ Finish(t, ResultOf(call[t].rows))
    /\ UNCHANGED <<now, server, db, held, link, retryAt, found, reply>>

(* statement_timeout_ms: an error on a connection that stays usable. *)
QueryError(t) ==
    /\ call[t].pc \in {"exec", "result"}
    /\ link[call[t].conn] = "open"
    /\ Finish(t, "FAILURE")
    /\ UNCHANGED <<now, server, db, held, link, retryAt, tls, found, reply>>

(* Variant: retry for as long as the connection drops. *)
DroppedForever(t) ==
    /\ call[t].pc \in {"exec", "result"}
    /\ link[call[t].conn] = "broken"
    /\ link' = [link EXCEPT ![call[t].conn] = "closed"]
    /\ retryAt' = [retryAt EXCEPT ![call[t].conn] = 0]
    /\ call' = [call EXCEPT ![t].pc = "connect", ![t].rows = "none", ![t].ran = 0]
    /\ UNCHANGED <<now, server, db, held, free, tls, found, reply>>

(* A connection dropped before the reply is closed and retried at once, one *)
(* time.                                                                    *)
Dropped(t) ==
    /\ call[t].pc \in {"exec", "result"}
    /\ link[call[t].conn] = "broken"
    /\ link' = [link EXCEPT ![call[t].conn] = "closed"]
    /\ retryAt' = [retryAt EXCEPT ![call[t].conn] = 0]
    /\ \/ /\ call[t].tries = 0
          /\ call' = [call EXCEPT ![t].pc = "connect", ![t].tries = 1,
                                  ![t].rows = "none", ![t].ran = 0]
          /\ UNCHANGED free
       \/ /\ call[t].tries = 1
          /\ Finish(t, "FAILURE")
    /\ UNCHANGED <<now, server, db, held, tls, found, reply>>

-----------------------------------------------------------------------------
(* findzonedb returns and BIND goes on: to lookup, to the parent, or, after *)
(* the last probe or an error, to its cache and recursion (fail-open).      *)
(* Variant: last_probe survives the end of the search. *)
ZoneFoundKeepsProbe(t) ==
    /\ call[t].pc = "findDone"
    /\ call[t].result = "SUCCESS"
    /\ found' = [found EXCEPT ![t] = [query |-> call[t].query, zone |-> call[t].name,
                                      rows |-> tls[t].rows, at |-> tls[t].filled,
                                      direct |-> TRUE]]
    /\ call' = [call EXCEPT ![t] = IdleCall]
    /\ UNCHANGED <<now, server, db, held, free, link, retryAt, tls, reply>>

ZoneFound(t) ==
    /\ call[t].pc = "findDone"
    /\ call[t].result = "SUCCESS"
    /\ tls' = [tls EXCEPT ![t].last_probe = Nothing]
    /\ found' = [found EXCEPT ![t] = [query |-> call[t].query, zone |-> call[t].name,
                                      rows |-> tls[t].rows, at |-> tls[t].filled,
                                      direct |-> TRUE]]
    /\ call' = [call EXCEPT ![t] = IdleCall]
    /\ UNCHANGED <<now, server, db, held, free, link, retryAt, reply>>

FindFailed(t) ==
    /\ call[t].pc = "findDone"
    /\ call[t].result = "FAILURE"
    /\ tls' = [tls EXCEPT ![t].last_probe = Nothing]
    /\ call' = [call EXCEPT ![t] = IdleCall]
    /\ UNCHANGED <<now, server, db, held, free, link, retryAt, found, reply>>

NextProbe(t) ==
    /\ call[t].pc = "findDone"
    /\ call[t].result = "NOTFOUND"
    /\ call' = [call EXCEPT ![t] =
          IF Len(@.name) > @.stop + 1
          THEN [@ EXCEPT !.pc = "probe", !.name = Tail(call[t].name)]
          ELSE IdleCall]
    /\ UNCHANGED <<now, server, db, held, free, link, retryAt, tls, found, reply>>

-----------------------------------------------------------------------------
(* dlz_lookup for the zone found: its cache test, then the rows or a refetch. *)
(* Variants: rows of any age; rows already too old at the limit. *)
CacheValidForever(t, zone) == tls[t].owner /\ tls[t].zone = zone

CacheValidShort(t, zone) ==
    tls[t].owner /\ tls[t].zone = zone /\ now - tls[t].filled < CacheMaxAge

CacheValid(t, zone) ==
    /\ tls[t].owner
    /\ tls[t].zone = zone
    /\ now - tls[t].filled <= CacheMaxAge

(* `at' is when BIND called lookup. *)
Answer(t, kind, rows, at) ==
    reply' = [reply EXCEPT ![t] = [kind |-> kind, query |-> found[t].query,
                                   zone |-> found[t].zone, rows |-> rows, at |-> at]]

(* The rows go to BIND one by one, and putrr may refuse any of them (no      *)
(* memory, data BIND cannot parse): lookup ends with that error.             *)
PutRows(t, at) ==
    Answer(t, "rows", tls[t].rows, at) \/ Answer(t, "putrrError", "none", at)

Lookup(t) ==
    /\ call[t].pc = "idle"
    /\ found[t] # NoZone
    /\ \/ /\ found[t].query # found[t].zone      \* a name below the apex, not "@"
          /\ Answer(t, "NXDOMAIN", "none", now)
          /\ UNCHANGED call
       \/ /\ found[t].query = found[t].zone
          /\ CacheValid(t, found[t].zone)
          /\ PutRows(t, now)
          /\ UNCHANGED call
       \/ /\ found[t].query = found[t].zone
          /\ ~CacheValid(t, found[t].zone)
          /\ call' = [call EXCEPT ![t] = [IdleCall EXCEPT !.pc = "acquire",
                          !.query = found[t].query, !.name = found[t].zone,
                          !.caller = "lookup", !.at = now]]
          /\ UNCHANGED reply
    /\ UNCHANGED <<now, server, db, held, free, link, retryAt, tls, found>>

(* After the refetch: anything but rows is a failure, never NXDOMAIN. *)
LookupDone(t) ==
    /\ call[t].pc = "lookupDone"
    /\ \/ /\ call[t].result = "SUCCESS"
          /\ PutRows(t, call[t].at)
       \/ /\ call[t].result # "SUCCESS"
          /\ Answer(t, "SERVFAIL", "none", call[t].at)
    /\ call' = [call EXCEPT ![t] = IdleCall]
    /\ UNCHANGED <<now, server, db, held, free, link, retryAt, tls, found>>

(* BIND is done with the zone. *)
QueryEnd(t) ==
    /\ call[t].pc = "idle"
    /\ found[t] # NoZone
    /\ found' = [found EXCEPT ![t] = NoZone]
    /\ reply' = [reply EXCEPT ![t] = NoReply]
    /\ UNCHANGED <<now, server, db, held, free, link, retryAt, tls, call>>

-----------------------------------------------------------------------------
(* What a thread does once it is inside the module. *)
CallStep(t) ==
    \/ FindZone(t) \/ Acquire(t) \/ AcquireTimeout(t)
    \/ StillConnected(t) \/ BackingOff(t) \/ Connect(t)
    \/ Execute(t) \/ Result(t) \/ QueryError(t) \/ Dropped(t)
    \/ ZoneFound(t) \/ FindFailed(t) \/ NextProbe(t) \/ LookupDone(t)

Next ==
    \/ Tick \/ ServerStop \/ ServerStart
    \/ \E n \in Served, content \in Contents : DbChange(n, content)
    \/ \E t \in Threads :
          \/ \E q \in Names, stop \in StaticLabels : StartSearch(t, q, stop)
          \/ Lookup(t) \/ QueryEnd(t) \/ CallStep(t)

(* A thread inside the module runs on: connecting, executing and waiting for *)
(* the pool all have timeouts (connect_timeout, statement_timeout_ms,        *)
(* pool_wait_ms).                                                            *)
Fairness == \A t \in Threads : WF_vars(CallStep(t))

Spec == Init /\ [][Next]_vars /\ Fairness

-----------------------------------------------------------------------------
Time == 0..MaxTime
NameOrNone == Names \union {Nothing}
Rows == Answers \union {"none"}

ThreadState == [last_probe : NameOrNone, owner : BOOLEAN, zone : NameOrNone, rows : Rows,
                filled : Time]

Calls == [pc : {"idle", "probe", "acquire", "connect", "exec", "result", "findDone",
                "lookupDone"},
          query : NameOrNone, name : NameOrNone, stop : StaticLabels \union {0},
          caller : {"find", "lookup"}, conn : Conns \union {Nothing}, tries : {0, 1},
          result : {"none", "SUCCESS", "NOTFOUND", "FAILURE"}, at : Time,
          rows : Contents, ran : Time]

Zones == [query : NameOrNone, zone : NameOrNone, rows : Rows, at : Time, direct : BOOLEAN]

Replies == [kind : {"none", "rows", "NXDOMAIN", "SERVFAIL", "putrrError"}, query : NameOrNone,
            zone : NameOrNone, rows : Rows, at : Time]

TypeOK ==
    /\ now \in Time
    /\ server \in {"up", "down"}
    /\ db \in [Names -> Contents]
    /\ held \in [Names -> [Answers -> Time \union {Never}]]
    /\ free \in Seq(Conns)
    /\ link \in [Conns -> {"closed", "open", "broken"}]
    /\ retryAt \in [Conns -> 0..(MaxTime + ReconnectWait)]
    /\ tls \in [Threads -> ThreadState]
    /\ call \in [Threads -> Calls]
    /\ found \in [Threads -> Zones]
    /\ reply \in [Threads -> Replies]

(* ADR-8: a search never ends in a zone above the query name, whatever the *)
(* thread's earlier searches left in last_probe, so a child of a served    *)
(* name is never answered NXDOMAIN from its parent.                        *)
ExactNameOnly ==
    \A t \in Threads :
        /\ found[t].zone = found[t].query
        /\ reply[t].kind # "NXDOMAIN"

(* The rows lookup hands to BIND belong to the zone asked for and were in  *)
(* the database no longer before the call than CACHE_MAX_AGE and the round *)
(* trip of the query that brought them (filled_ns is read after the reply, *)
(* dlz_pgsql.c:261, 289), although the cache is per thread, other searches *)
(* overwrite it and the rows change while the reply is on its way.         *)
AnswersAreRecent ==
    \A t \in Threads :
        reply[t].kind = "rows" =>
            /\ reply[t].rows \in Answers
            /\ HeldNow[reply[t].zone][reply[t].rows] >= reply[t].at - CacheMaxAge - MaxRoundTrip

(* docs/architecture.md:301-302: a lookup that directly follows findzonedb *)
(* within the cache's age gives the answer findzonedb saw, and no database *)
(* error, whatever happens to the database in between.  The one error left *)
(* is BIND's own, from putrr (dlz_pgsql.c:478-486).                        *)
DirectLookupKeepsAnswer ==
    \A t \in Threads :
        /\ reply[t].kind # "none"
        /\ found[t].direct
        /\ reply[t].at - found[t].at <= CacheMaxAge
        => \/ reply[t].kind = "rows" /\ reply[t].rows = found[t].rows
           \/ reply[t].kind = "putrrError"

(* Every connection is on the free stack once or with one thread, on every *)
(* error path of fetch().                                                  *)
PoolConserved ==
    LET users(c) == {t \in Threads : call[t].conn = c}
    IN  \A c \in Conns :
            Cardinality(users(c)) + Cardinality({i \in DOMAIN free : free[i] = c}) = 1

(* The query name of a search is always asked of the database: last_probe  *)
(* makes it look like a parent probe only if an earlier search stopped at  *)
(* a static zone just above last_probe (ADR-8 accepts that missed answer). *)
QueryNameAsked ==
    \A t \in Threads :
        /\ call[t].pc = "probe"
        /\ call[t].name = call[t].query
        /\ cadns_is_parent_name(call[t].name, tls[t].last_probe)
        => Len(tls[t].last_probe) - 1 \in StaticLabels \ {0}

(* A call into the module returns, also while PostgreSQL restarts over and *)
(* over and the pool is exhausted.                                         *)
CallsReturn == \A t \in Threads : call[t].pc # "idle" ~> call[t].pc = "idle"
=============================================================================
