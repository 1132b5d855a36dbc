--------------------------- MODULE DlzModuleProofs ---------------------------
(***************************************************************************)
(* Proofs about DlzModule, for any number of threads, connections, names   *)
(* and any setting of the timeouts.                                        *)
(***************************************************************************)
EXTENDS DlzModule, FiniteSetTheorems, SequenceTheorems, TLAPS

(* Every label of a name. *)
Labels == UNION {Range(n) : n \in Names}

(* A name is a sequence of labels, and its tail is its parent. *)
LEMMA NameFacts ==
  ASSUME NEW n \in Names
  PROVE  /\ n \in Seq(Labels) /\ n # <<>> /\ Len(n) \in Nat /\ Len(n) >= 1
         /\ Len(n) > 1 => Tail(n) \in Names /\ Len(Tail(n)) = Len(n) - 1
<1>1. n \in Seq(Range(n)) /\ n # <<>> /\ (Len(n) > 1 => Tail(n) \in Names)
  BY DlzAssumption
<1>2. Range(n) \subseteq Labels
  BY DEF Labels
<1>3. n \in Seq(Labels)
  BY <1>1, <1>2
<1> QED BY <1>1, <1>3

(* The next probe of a search looks like a parent probe. *)
LEMMA TailIsParent ==
  ASSUME NEW n \in Names, Len(n) > 1
  PROVE  cadns_is_parent_name(Tail(n), n)
<1>1. n \in Seq(Labels) /\ Tail(n) \in Seq(Labels) /\ Len(Tail(n)) = Len(n) - 1 /\ Len(n) \in Nat
  BY NameFacts
<1>2. Tail(n) # <<>>
  <2>1. Len(<<>>) = 0
    OBVIOUS
  <2>2. Len(Tail(n)) # 0
    BY <1>1
  <2> QED BY <2>1, <2>2, Zenon
<1> DEFINE m == Len(n) - 1
           s == Tail(n)
           rs == Reverse(s)
           rn == Reverse(n)
<1>3. m \in Nat /\ m + 1 \in Nat /\ Len(s) = m /\ Len(n) = m + 1 /\ s \in Seq(Labels)
  BY <1>1
<1>4. /\ \A i \in 1..m : s[i] \in Labels /\ s[i] = n[i + 1]
      /\ \A i \in 1..(m + 1) : n[i] \in Labels
  BY <1>1
<1> HIDE DEF m, s
<1>5. /\ rs = [i \in 1..m |-> s[(m - i) + 1]]
      /\ rn = [i \in 1..(m + 1) |-> n[((m + 1) - i) + 1]]
  BY <1>3 DEF Reverse
<1>6. rs \in [1..m -> Labels] /\ rn \in [1..(m + 1) -> Labels]
  BY <1>3, <1>4, <1>5
<1>7. \A i \in 1..m : rs[i] = rn[i]
  BY <1>3, <1>4, <1>5
<1> HIDE DEF rs, rn
<1>8. rs \in Seq(Labels) /\ Len(rs) = m /\ rn \in Seq(Labels) /\ Len(rn) = m + 1
  BY <1>3, <1>6
<1>9. SubSeq(rs, 1, m) = SubSeq(rn, 1, m)
  BY <1>3, <1>7, <1>8
<1> QED BY <1>2, <1>3, <1>8, <1>9 DEF cadns_is_parent_name, IsSuffix, IsPrefix, rs, rn, s

-----------------------------------------------------------------------------
(* The inductive invariant, in parts.                                       *)

(* Where fetch() holds a connection. *)
WithConn == {"connect", "exec", "result"}

(* Every connection is on the stack, once, or with one thread; and a thread *)
(* has one exactly while it connects, executes or waits for the reply.      *)
PoolInv ==
    /\ \A i, j \in 1..Len(free) : free[i] = free[j] => i = j
    /\ \A t, u \in Threads : call[t].conn # Nothing /\ call[t].conn = call[u].conn => t = u
    /\ \A t \in Threads, i \in 1..Len(free) : call[t].conn # free[i]
    /\ \A c \in Conns : (\E i \in 1..Len(free) : free[i] = c) \/ (\E t \in Threads : call[t].conn = c)
    /\ \A t \in Threads : call[t].pc \in WithConn <=> call[t].conn # Nothing

(* The history of the database's contents has no future. *)
HeldPast == \A n \in Names, a \in Answers : held[n][a] <= now

Fetching(t) == call[t].pc \in {"acquire", "connect", "exec", "result"}

(* A search never ended, or ended where last_probe can mislead the next one. *)
ProbeSettled(t) ==
    \/ tls[t].last_probe = Nothing
    \/ tls[t].last_probe \in Names /\ Len(tls[t].last_probe) - 1 \in StaticLabels

(* A search asks for its query name; when it goes on to a parent, last_probe *)
(* is the name below.                                                        *)
SearchInv(t) ==
    /\ call[t].pc \in {"probe", "findDone"} => call[t].caller = "find"
    /\ call[t].pc = "lookupDone" => call[t].caller = "lookup"
    /\ call[t].pc # "idle" => call[t].name \in Names
    /\ call[t].pc # "idle" /\ call[t].caller = "find" =>
          /\ call[t].query \in Names /\ Len(call[t].name) <= Len(call[t].query)
          /\ call[t].stop \in StaticLabels /\ call[t].stop < Len(call[t].name)
    /\ call[t].pc = "probe" =>
          IF call[t].name = call[t].query THEN ProbeSettled(t)
          ELSE /\ tls[t].last_probe \in Names /\ Len(tls[t].last_probe) > 1
               /\ call[t].name = Tail(tls[t].last_probe)
    /\ Fetching(t) /\ call[t].caller = "find" =>
          call[t].name = call[t].query /\ tls[t].last_probe = call[t].name
    /\ call[t].pc = "findDone" =>
          /\ tls[t].last_probe = call[t].name
          /\ call[t].result # "NOTFOUND" => call[t].name = call[t].query
    /\ call[t].pc = "idle" \/ call[t].caller = "lookup" => ProbeSettled(t)

(* The rows of a reply on its way were in the database when the statement   *)
(* ran, and that is not too long ago.                                       *)
ResultInv(t) ==
    call[t].pc = "result" =>
        /\ call[t].ran <= now /\ now - call[t].ran <= MaxRoundTrip
        /\ call[t].rows \in Answers => call[t].ran <= HeldNow[call[t].name][call[t].rows]

(* Cached rows were in the database a round trip before the cache was       *)
(* filled, or later.                                                        *)
CacheInv(t) ==
    tls[t].owner =>
        /\ tls[t].zone \in Names /\ tls[t].rows \in Answers /\ tls[t].filled <= now
        /\ tls[t].filled - MaxRoundTrip <= HeldNow[tls[t].zone][tls[t].rows]

(* A fetch that succeeded has filled the cache, for lookup since it was     *)
(* called.                                                                  *)
FetchInv(t) ==
    /\ call[t].pc = "findDone" /\ call[t].result = "SUCCESS" =>
          tls[t].owner /\ tls[t].zone = call[t].name
    /\ call[t].pc # "idle" /\ call[t].caller = "lookup" =>
          found[t].zone \in Names /\ call[t].name = found[t].zone /\ call[t].at <= now
    /\ call[t].pc = "lookupDone" /\ call[t].result = "SUCCESS" =>
          tls[t].owner /\ tls[t].zone = found[t].zone /\ call[t].at <= tls[t].filled

(* While lookup may follow directly, the cache is as findzonedb left it, or *)
(* too old.                                                                 *)
FoundInv(t) ==
    /\ found[t].zone = found[t].query /\ found[t].at <= now
    /\ found[t] = NoZone \/ found[t].zone \in Names
    /\ found[t].direct /\ now - found[t].at <= CacheMaxAge =>
          /\ call[t].pc = "idle" /\ tls[t].owner
          /\ tls[t].zone = found[t].zone /\ tls[t].rows = found[t].rows
          /\ tls[t].filled = found[t].at
    /\ found[t].direct /\ call[t].pc # "idle" =>
          call[t].caller = "lookup" /\ call[t].at - found[t].at > CacheMaxAge

(* What lookup answered; a new search forgets it. *)
ReplyInv(t) ==
    /\ reply[t].kind # "NXDOMAIN" /\ reply[t].at <= now
    /\ call[t].pc # "idle" /\ call[t].caller = "find" => reply[t].kind = "none"
    /\ reply[t].kind = "rows" =>
          /\ reply[t].zone \in Names /\ reply[t].rows \in Answers
          /\ reply[t].at - CacheMaxAge - MaxRoundTrip <= HeldNow[reply[t].zone][reply[t].rows]
    /\ reply[t].kind # "none" /\ found[t].direct /\ reply[t].at - found[t].at <= CacheMaxAge =>
          \/ reply[t].kind = "rows" /\ reply[t].rows = found[t].rows
          \/ reply[t].kind = "putrrError"

ThreadInv(t) == SearchInv(t) /\ ResultInv(t) /\ CacheInv(t) /\ FetchInv(t) /\ FoundInv(t) /\ ReplyInv(t)

IInv == TypeOK /\ PoolInv /\ HeldPast /\ \A t \in Threads : ThreadInv(t)

-----------------------------------------------------------------------------
(* Taking a connection off the stack. *)
LEMMA PopFacts ==
  ASSUME NEW s \in Seq(Conns), s # <<>>
  PROVE  /\ Len(s) \in Nat \ {0} /\ Last(s) = s[Len(s)] /\ Last(s) \in Conns
         /\ Front(s) \in Seq(Conns) /\ Len(Front(s)) = Len(s) - 1
         /\ \A i \in 1..(Len(s) - 1) : Front(s)[i] = s[i]
<1>1. Len(s) \in Nat \ {0}
  OBVIOUS
<1>2. Last(s) = s[Len(s)] /\ Last(s) \in Conns
  BY <1>1 DEF Last
<1>3. SubSeq(s, 1, Len(s) - 1) \in Seq(Conns)
  BY <1>1
<1>4. Len(SubSeq(s, 1, Len(s) - 1)) = Len(s) - 1
  <2> DEFINE k == Len(s) - 1
  <2>1. k \in Int /\ 0 <= k /\ \A i \in 1..k : s[i] \in Conns
    BY <1>1
  <2> HIDE DEF k
  <2>2. Len(SubSeq(s, 1, k)) = IF 1 <= k THEN k - 1 + 1 ELSE 0
    BY <2>1, SubSeqProperties
  <2>3. Len(SubSeq(s, 1, k)) = k
    BY <2>1, <2>2
  <2> QED BY <2>3 DEF k
<1>5. \A i \in 1..(Len(s) - 1) : SubSeq(s, 1, Len(s) - 1)[i] = s[i]
  BY <1>1
<1> QED BY <1>1, <1>2, <1>3, <1>4, <1>5 DEF Front

(* Putting one back. *)
LEMMA PushFacts ==
  ASSUME NEW s \in Seq(Conns), NEW c \in Conns
  PROVE  /\ Append(s, c) \in Seq(Conns) /\ Len(s) \in Nat /\ Len(Append(s, c)) = Len(s) + 1
         /\ \A i \in 1..Len(s) : Append(s, c)[i] = s[i]
         /\ Append(s, c)[Len(s) + 1] = c
  OBVIOUS

-----------------------------------------------------------------------------
(* What a thread's step finds, whichever it is. *)
LEMMA ThreadFacts ==
  ASSUME IInv, NEW t \in Threads
  PROVE  /\ tls[t] \in ThreadState /\ call[t] \in Calls /\ found[t] \in Zones /\ reply[t] \in Replies
         /\ now \in Time /\ Time \subseteq Nat /\ 0 \in Time
         /\ ThreadInv(t)
  BY DlzAssumption DEF IInv, TypeOK, Time

(* The shape of a thread that fetches: it has a name, and a connection once *)
(* it has acquired one.                                                     *)
LEMMA FetchFacts ==
  ASSUME IInv, NEW t \in Threads, call[t].pc \in WithConn
  PROVE  call[t].name \in Names /\ call[t].conn \in Conns /\ db[call[t].name] \in Contents
<1>1. call[t].name \in Names
  BY ThreadFacts DEF ThreadInv, SearchInv, WithConn
<1>2. call[t].conn # Nothing
  BY DEF IInv, PoolInv
<1> QED BY <1>1, <1>2, ThreadFacts DEF Calls, IInv, TypeOK

(* An idle call, an empty zone and an empty reply are well typed. *)
LEMMA IdleFacts ==
  /\ IdleCall \in Calls /\ NoZone \in Zones /\ NoReply \in Replies
  /\ IdleCall.pc = "idle" /\ IdleCall.caller = "find" /\ IdleCall.conn = Nothing
  /\ NoZone.zone = NoZone.query /\ NoZone.at = 0 /\ ~NoZone.direct
  /\ NoReply.kind = "none" /\ NoReply.at = 0
<1>1. 0 \in Time
  BY DlzAssumption DEF Time
<1> QED BY <1>1 DEF IdleCall, NoZone, NoReply, Calls, Zones, Replies, NameOrNone, Rows, Contents

(* fetch() ends: the connection goes back, the caller goes on. *)
LEMMA FinishFacts ==
  ASSUME IInv, NEW t \in Threads, call[t].pc \in WithConn,
         NEW result \in {"SUCCESS", "NOTFOUND", "FAILURE"}, Finish(t, result)
  PROVE  /\ free' = Append(free, call[t].conn) /\ free' \in Seq(Conns)
         /\ call' = [call EXCEPT ![t] = call'[t]]
         /\ call'[t] = [call[t] EXCEPT !.pc = Return(t), !.conn = Nothing, !.result = result,
                                      !.rows = "none", !.ran = 0]
         /\ call'[t] \in Calls
         /\ call' \in [Threads -> Calls]
         /\ Return(t) \in {"findDone", "lookupDone"}
         /\ Return(t) = "findDone" <=> call[t].caller = "find"
<1>1. call \in [Threads -> Calls] /\ free \in Seq(Conns) /\ call[t] \in Calls
  BY DEF IInv, TypeOK
<1>2. Return(t) \in {"findDone", "lookupDone"} /\ (Return(t) = "findDone" <=> call[t].caller = "find")
  BY DEF Return
<1>3. [call[t] EXCEPT !.pc = Return(t), !.conn = Nothing, !.result = result,
                      !.rows = "none", !.ran = 0] \in Calls
  <2>1. "none" \in Contents /\ 0 \in Time
    BY DlzAssumption DEF Contents, Time
  <2> QED BY <1>1, <1>2, <2>1 DEF Calls
<1>4. free' = Append(free, call[t].conn) /\ call[t].conn \in Conns
  BY FetchFacts DEF Finish
<1>5. free' \in Seq(Conns)
  BY <1>1, <1>4, PushFacts
<1> QED BY <1>1, <1>2, <1>3, <1>4, <1>5 DEF Finish

(* The history of contents stays well typed. *)
LEMMA HeldNowType == IInv => HeldNow \in [Names -> [Answers -> Time \union {Never}]]
  BY DEF IInv, TypeOK, HeldNow

(* What findzonedb and BIND do with a thread keeps the types. *)
LEMMA SearchTypes ==
  ASSUME IInv, NEW t \in Threads,
         FindZone(t) \/ ZoneFound(t) \/ FindFailed(t) \/ NextProbe(t)
  PROVE  TypeOK'
<1>1. call[t] \in Calls /\ tls[t] \in ThreadState /\ call[t].name \in NameOrNone /\ Nothing \in NameOrNone
  BY ThreadFacts DEF Calls, NameOrNone
<1>2. [tls[t] EXCEPT !.last_probe = call[t].name] \in ThreadState
  BY <1>1 DEF ThreadState
<1>3. [tls[t] EXCEPT !.last_probe = Nothing] \in ThreadState
  BY <1>1 DEF ThreadState
<1>4. /\ [call[t] EXCEPT !.pc = "findDone", !.result = "NOTFOUND"] \in Calls
      /\ [call[t] EXCEPT !.pc = "acquire", !.caller = "find"] \in Calls
  BY <1>1 DEF Calls
<1>5. [query |-> call[t].query, zone |-> call[t].name, rows |-> tls[t].rows, at |-> tls[t].filled,
       direct |-> TRUE] \in Zones
  BY <1>1 DEF Calls, ThreadState, Zones
<1>6. CASE FindZone(t)
  BY <1>2, <1>4, <1>6 DEF FindZone, IInv, TypeOK
<1>7. CASE ZoneFound(t)
  BY <1>3, <1>5, <1>7, IdleFacts DEF ZoneFound, IInv, TypeOK
<1>8. CASE FindFailed(t)
  BY <1>3, <1>8, IdleFacts DEF FindFailed, IInv, TypeOK
<1>9. CASE NextProbe(t)
  <2>1. call[t].pc = "findDone" /\ call[t].name \in Names /\ call[t].stop \in Nat
    BY <1>9, ThreadFacts, DlzAssumption DEF NextProbe, ThreadInv, SearchInv, Calls
  <2>2. Len(call[t].name) > call[t].stop + 1 => Tail(call[t].name) \in NameOrNone
    BY <2>1, NameFacts DEF NameOrNone
  <2>3. Len(call[t].name) > call[t].stop + 1 =>
            [call[t] EXCEPT !.pc = "probe", !.name = Tail(@)] \in Calls
    BY <1>1, <2>2 DEF Calls
  <2> DEFINE probe == [call[t] EXCEPT !.pc = "probe", !.name = Tail(@)]
             next == IF Len(call[t].name) > call[t].stop + 1 THEN probe ELSE IdleCall
  <2>4. next \in Calls
    BY <2>3, IdleFacts
  <2>5. call' = [call EXCEPT ![t] = next]
    BY <1>9 DEF NextProbe
  <2> HIDE DEF next
  <2> QED BY <1>9, <2>4, <2>5 DEF NextProbe, IInv, TypeOK
<1> QED BY <1>6, <1>7, <1>8, <1>9

(* fetch() keeps the types. *)
LEMMA FetchTypes ==
  ASSUME IInv, NEW t \in Threads,
         \/ Acquire(t) \/ AcquireTimeout(t) \/ StillConnected(t) \/ BackingOff(t) \/ Connect(t)
         \/ Execute(t) \/ Result(t) \/ QueryError(t) \/ Dropped(t)
  PROVE  TypeOK'
<1>1. call[t] \in Calls /\ tls[t] \in ThreadState /\ now \in Nat /\ now \in Time
  BY ThreadFacts
<1>2. CASE Acquire(t)
  <2>1. free \in Seq(Conns) /\ free # <<>>
    BY <1>2 DEF Acquire, IInv, TypeOK
  <2>2. Last(free) \in Conns /\ Front(free) \in Seq(Conns)
    BY <2>1, PopFacts
  <2>3. [call[t] EXCEPT !.pc = "connect", !.conn = Last(free), !.tries = 0] \in Calls
    BY <1>1, <2>2 DEF Calls
  <2> QED BY <1>2, <2>2, <2>3 DEF Acquire, IInv, TypeOK
<1>3. CASE AcquireTimeout(t)
  <2>1. [call[t] EXCEPT !.pc = Return(t), !.result = "FAILURE"] \in Calls
    BY <1>1 DEF Calls, Return
  <2> QED BY <1>3, <2>1 DEF AcquireTimeout, IInv, TypeOK
<1>4. CASE StillConnected(t)
  <2>1. [call[t] EXCEPT !.pc = "exec"] \in Calls
    BY <1>1 DEF Calls
  <2> QED BY <1>4, <2>1 DEF StillConnected, IInv, TypeOK
<1>5. CASE BackingOff(t)
  <2>1. free' \in Seq(Conns) /\ call' \in [Threads -> Calls]
    BY <1>5, FinishFacts DEF BackingOff, WithConn
  <2> QED BY <1>5, <2>1 DEF BackingOff, IInv, TypeOK
<1>6. CASE Connect(t)
  <2>1. call[t].conn \in Conns
    BY <1>6, FetchFacts DEF Connect, WithConn
  <2>2. [call[t] EXCEPT !.pc = "exec"] \in Calls
    BY <1>1 DEF Calls
  <2>3. now + ReconnectWait \in 0..(MaxTime + ReconnectWait)
    BY <1>1, DlzAssumption DEF Time
  <2>4. CASE server = "up"
    <3>1. /\ link' = [link EXCEPT ![call[t].conn] = "open"] /\ call' = [call EXCEPT ![t].pc = "exec"]
          /\ UNCHANGED <<free, retryAt, now, server, db, held, tls, found, reply>>
      BY <1>6, <2>4 DEF Connect
    <3>2. link' \in [Conns -> {"closed", "open", "broken"}]
      BY <3>1 DEF IInv, TypeOK
    <3>3. call' \in [Threads -> Calls]
      BY <2>2, <3>1 DEF IInv, TypeOK
    <3> QED BY <3>1, <3>2, <3>3 DEF IInv, TypeOK
  <2>5. CASE server = "down"
    <3>1. Finish(t, "FAILURE") /\ call[t].pc = "connect"
      BY <1>6, <2>5 DEF Connect
    <3>2. free' \in Seq(Conns) /\ call' \in [Threads -> Calls]
      BY <3>1, FinishFacts DEF WithConn
    <3> QED BY <1>6, <2>3, <2>5, <3>2 DEF Connect, IInv, TypeOK
  <2> QED BY <2>4, <2>5 DEF IInv, TypeOK
<1>7. CASE Execute(t)
  <2>1. db[call[t].name] \in Contents
    BY <1>7, FetchFacts DEF Execute, WithConn
  <2>2. [call[t] EXCEPT !.pc = "result", !.rows = db[call[t].name], !.ran = now] \in Calls
    BY <1>1, <2>1 DEF Calls
  <2> QED BY <1>7, <2>2 DEF Execute, IInv, TypeOK
<1>10. CASE Result(t)
  <2>1. call[t].name \in NameOrNone
    BY <1>1 DEF Calls
  <2>2. ResultOf(call[t].rows) \in {"SUCCESS", "NOTFOUND", "FAILURE"}
    BY DEF ResultOf
  <2>3. free' \in Seq(Conns) /\ call' \in [Threads -> Calls]
    BY <1>10, <2>2, FinishFacts DEF Result, WithConn
  <2>4. call[t].rows \in Answers =>
          [tls[t] EXCEPT !.owner = TRUE, !.zone = call[t].name, !.rows = call[t].rows,
                         !.filled = now] \in ThreadState
    BY <1>1, <2>1 DEF ThreadState, Rows
  <2>5. [tls[t] EXCEPT !.owner = FALSE, !.rows = "none"] \in ThreadState
    BY <1>1 DEF ThreadState, Rows
  <2>6. tls' \in [Threads -> ThreadState]
    BY <1>10, <2>4, <2>5 DEF Result, store_rows, IInv, TypeOK
  <2> QED BY <1>10, <2>3, <2>6 DEF Result, IInv, TypeOK
<1>8. CASE QueryError(t)
  <2>1. free' \in Seq(Conns) /\ call' \in [Threads -> Calls]
    BY <1>8, FinishFacts DEF QueryError, WithConn
  <2> QED BY <1>8, <2>1 DEF QueryError, IInv, TypeOK
<1>9. CASE Dropped(t)
  <2>1. call[t].conn \in Conns /\ 0 \in 0..(MaxTime + ReconnectWait)
    BY <1>9, FetchFacts, DlzAssumption DEF Dropped, WithConn
  <2>2. [call[t] EXCEPT !.pc = "connect", !.tries = 1, !.rows = "none", !.ran = 0] \in Calls
    <3>1. "none" \in Contents /\ 0 \in Time
      BY DlzAssumption DEF Contents, Time
    <3> QED BY <1>1, <3>1 DEF Calls
  <2>3. Finish(t, "FAILURE") => free' \in Seq(Conns) /\ call' \in [Threads -> Calls]
    BY <1>9, FinishFacts DEF Dropped, WithConn
  <2>4. free' \in Seq(Conns) /\ call' \in [Threads -> Calls]
    <3> DEFINE new == [call[t] EXCEPT !.pc = "connect", !.tries = 1, !.rows = "none", !.ran = 0]
    <3>1. Finish(t, "FAILURE") \/ (free' = free /\ call' = [call EXCEPT ![t] = new])
      BY <1>9 DEF Dropped
    <3>2. new \in Calls
      BY <2>2
    <3> HIDE DEF new
    <3> QED BY <2>3, <3>1, <3>2 DEF IInv, TypeOK
  <2> QED BY <1>9, <2>1, <2>4 DEF Dropped, IInv, TypeOK
<1> QED BY <1>2, <1>3, <1>4, <1>5, <1>6, <1>7, <1>8, <1>9, <1>10

(* Lookups keep the types. *)
LEMMA LookupTypes ==
  ASSUME IInv, NEW t \in Threads, Lookup(t) \/ LookupDone(t) \/ QueryEnd(t)
  PROVE  TypeOK'
<1>1. call[t] \in Calls /\ tls[t] \in ThreadState /\ found[t] \in Zones /\ now \in Time
  BY ThreadFacts
<1>2. ASSUME NEW kind \in {"rows", "NXDOMAIN", "SERVFAIL", "putrrError"}, NEW rows \in Rows, NEW at \in Time,
             Answer(t, kind, rows, at)
      PROVE  reply' \in [Threads -> Replies]
  <2>1. [kind |-> kind, query |-> found[t].query, zone |-> found[t].zone, rows |-> rows,
         at |-> at] \in Replies
    BY <1>1 DEF Replies, Zones
  <2> QED BY <1>2, <2>1 DEF Answer, IInv, TypeOK
<1>3. tls[t].rows \in Rows /\ "none" \in Rows /\ call[t].at \in Time
  BY <1>1 DEF ThreadState, Rows, Calls
<1>4. CASE Lookup(t)
  <2>1. [IdleCall EXCEPT !.pc = "acquire", !.query = found[t].query, !.name = found[t].zone,
                         !.caller = "lookup", !.at = now] \in Calls
    BY <1>1, IdleFacts DEF Zones, Calls
  <2>2. call' \in [Threads -> Calls]
    BY <1>4, <2>1 DEF Lookup, IInv, TypeOK
  <2>3. reply' \in [Threads -> Replies]
    BY <1>1, <1>2, <1>3, <1>4 DEF Lookup, PutRows, IInv, TypeOK
  <2> QED BY <1>4, <2>2, <2>3 DEF Lookup, IInv, TypeOK
<1>5. CASE LookupDone(t)
  <2>1. reply' \in [Threads -> Replies]
    BY <1>2, <1>3, <1>5 DEF LookupDone, PutRows
  <2> QED BY <1>5, <2>1, IdleFacts DEF LookupDone, IInv, TypeOK
<1>6. CASE QueryEnd(t)
  BY <1>6, IdleFacts DEF QueryEnd, IInv, TypeOK
<1> QED BY <1>4, <1>5, <1>6

(* Every step keeps the types. *)
LEMMA TypeStep == IInv /\ [Next]_vars => TypeOK'
<1> SUFFICES ASSUME IInv, [Next]_vars PROVE TypeOK'
  OBVIOUS
<1>1. CASE UNCHANGED vars
  BY <1>1 DEF vars, IInv, TypeOK
<1>2. CASE Tick
  <2>1. now + 1 \in Time
    BY <1>2, DlzAssumption DEF Tick, Time, IInv, TypeOK
  <2> QED BY <1>2, <2>1, HeldNowType DEF Tick, IInv, TypeOK
<1>3. CASE ServerStop \/ ServerStart
  BY <1>3 DEF ServerStop, ServerStart, IInv, TypeOK
<1>4. ASSUME NEW n \in Served, NEW content \in Contents, DbChange(n, content) PROVE TypeOK'
  BY <1>4, HeldNowType, DlzAssumption DEF DbChange, IInv, TypeOK
<1>5. ASSUME NEW t \in Threads, NEW q \in Names, NEW stop \in StaticLabels, StartSearch(t, q, stop)
      PROVE  TypeOK'
  <2>1. [IdleCall EXCEPT !.pc = "probe", !.query = q, !.name = q, !.stop = stop] \in Calls
    BY IdleFacts DEF Calls, NameOrNone
  <2>2. [found[t] EXCEPT !.direct = FALSE] \in Zones
    BY ThreadFacts DEF Zones
  <2> QED BY <1>5, <2>1, <2>2, IdleFacts DEF StartSearch, IInv, TypeOK
<1>6. ASSUME NEW t \in Threads, Lookup(t) \/ QueryEnd(t) \/ CallStep(t) PROVE TypeOK'
  BY <1>6, SearchTypes, FetchTypes, LookupTypes DEF CallStep
<1> QED BY <1>1, <1>2, <1>3, <1>4, <1>5, <1>6 DEF Next

-----------------------------------------------------------------------------
(* A step that moves no connection keeps the pool. *)
LEMMA PoolSame ==
  ASSUME PoolInv, free' = free,
         \A t \in Threads : /\ call'[t].conn = call[t].conn
                            /\ call'[t].pc \in WithConn <=> call[t].pc \in WithConn
  PROVE  PoolInv'
  BY DEF PoolInv

(* acquire() moves the top of the stack to a thread. *)
LEMMA PoolTake ==
  ASSUME IInv, NEW t \in Threads, Acquire(t)
  PROVE  PoolInv'
<1>1. /\ call \in [Threads -> Calls] /\ free \in Seq(Conns) /\ free # <<>>
      /\ call[t] \in Calls /\ call[t].pc = "acquire"
      /\ free' = Front(free)
      /\ call' = [call EXCEPT ![t] = [call[t] EXCEPT !.pc = "connect", !.conn = Last(free), !.tries = 0]]
  BY DEF Acquire, IInv, TypeOK
<1>2. \A u \in Threads : u # t => call'[u] = call[u]
  BY <1>1
<1>3. call'[t].conn = Last(free) /\ call'[t].pc = "connect"
  BY <1>1 DEF Calls
<1>4. call[t].conn = Nothing /\ PoolInv
  BY <1>1 DEF IInv, PoolInv, WithConn
<1>5. /\ Len(free) \in Nat \ {0} /\ Last(free) = free[Len(free)] /\ Last(free) \in Conns
      /\ Len(free') = Len(free) - 1 /\ \A i \in 1..(Len(free) - 1) : free'[i] = free[i]
  BY <1>1, PopFacts
<1>6. Last(free) # Nothing
  BY <1>5, DlzAssumption DEF Nothing
<1> DEFINE n == Len(free)
<1>7. n \in Nat \ {0} /\ n - 1 \in Nat /\ 1..(n - 1) \subseteq 1..n /\ n \in 1..n /\ n \notin 1..(n - 1)
  BY <1>5
<1>8. \A i \in 1..n : i \in 1..(n - 1) \/ i = n
  BY <1>7
<1> HIDE DEF n
<1>9. \A i, j \in 1..Len(free') : free'[i] = free'[j] => i = j
  BY <1>4, <1>5, <1>7 DEF PoolInv, n
<1>10. \A u, v \in Threads : call'[u].conn # Nothing /\ call'[u].conn = call'[v].conn => u = v
  BY <1>2, <1>3, <1>4, <1>5, <1>7 DEF PoolInv, n
<1>11. \A u \in Threads, i \in 1..Len(free') : call'[u].conn # free'[i]
  BY <1>2, <1>3, <1>4, <1>5, <1>7 DEF PoolInv, n
<1>12. \A c \in Conns : (\E i \in 1..Len(free') : free'[i] = c) \/ (\E u \in Threads : call'[u].conn = c)
  <2> TAKE c \in Conns
  <2>1. CASE c = Last(free)
    BY <1>3, <2>1
  <2>2. ASSUME NEW i \in 1..n, free[i] = c, c # Last(free) PROVE i \in 1..(n - 1) /\ free'[i] = c
    BY <1>5, <1>8, <2>2 DEF n
  <2>3. ASSUME NEW u \in Threads, call[u].conn = c PROVE call'[u].conn = c
    BY <1>2, <1>4, <2>3, DlzAssumption DEF Nothing
  <2> QED BY <1>4, <1>5, <2>1, <2>2, <2>3 DEF PoolInv, n
<1>13. \A u \in Threads : call'[u].pc \in WithConn <=> call'[u].conn # Nothing
  BY <1>2, <1>3, <1>4, <1>6 DEF PoolInv, WithConn
<1> QED BY <1>9, <1>10, <1>11, <1>12, <1>13 DEF PoolInv

(* release() moves it back. *)
LEMMA PoolGive ==
  ASSUME IInv, NEW t \in Threads, call[t].pc \in WithConn,
         NEW result \in {"SUCCESS", "NOTFOUND", "FAILURE"}, Finish(t, result)
  PROVE  PoolInv'
<1> DEFINE c == call[t].conn
           n == Len(free)
<1>1. c \in Conns /\ PoolInv /\ free \in Seq(Conns) /\ call \in [Threads -> Calls]
  BY FetchFacts DEF IInv, TypeOK
<1>2. /\ free' = Append(free, c)
      /\ call' = [call EXCEPT ![t] = call'[t]]
      /\ call'[t] = [call[t] EXCEPT !.pc = Return(t), !.conn = Nothing, !.result = result,
                                   !.rows = "none", !.ran = 0]
      /\ Return(t) \in {"findDone", "lookupDone"}
  BY FinishFacts
<1>3. call'[t].conn = Nothing /\ call'[t].pc \in {"findDone", "lookupDone"}
  BY <1>1, <1>2 DEF Calls
<1>4. \A u \in Threads : u # t => call'[u] = call[u]
  BY <1>1, <1>2
<1>5. n \in Nat /\ Len(free') = n + 1 /\ (\A i \in 1..n : free'[i] = free[i]) /\ free'[n + 1] = c
  BY <1>1, <1>2, PushFacts
<1>6. /\ 1..n \subseteq 1..(n + 1) /\ n + 1 \in 1..(n + 1) /\ n + 1 \notin 1..n
      /\ \A i \in 1..(n + 1) : i \in 1..n \/ i = n + 1
  BY <1>5
<1>7. c # Nothing
  BY <1>1, DlzAssumption DEF Nothing
<1>8. /\ \A i, j \in 1..n : free[i] = free[j] => i = j
      /\ \A u, v \in Threads : call[u].conn # Nothing /\ call[u].conn = call[v].conn => u = v
      /\ \A u \in Threads, i \in 1..n : call[u].conn # free[i]
      /\ \A e \in Conns : (\E i \in 1..n : free[i] = e) \/ (\E u \in Threads : call[u].conn = e)
      /\ \A u \in Threads : call[u].pc \in WithConn <=> call[u].conn # Nothing
  BY <1>1 DEF PoolInv
<1>9. \A i \in 1..n : free[i] # c
  BY <1>8
<1>10. \A u \in Threads : u # t => call[u].conn # c
  BY <1>7, <1>8
<1>11. \A i \in 1..n : free[i] \in Conns
  BY <1>1
<1>12. Nothing \notin Conns
  BY DlzAssumption DEF Nothing
<1> HIDE DEF c, n
<1>13. \A i, j \in 1..(n + 1) : free'[i] = free'[j] => i = j
  BY <1>5, <1>6, <1>8, <1>9
<1>14. \A u, v \in Threads : call'[u].conn # Nothing /\ call'[u].conn = call'[v].conn => u = v
  BY <1>3, <1>4, <1>8
<1>15. \A u \in Threads, i \in 1..(n + 1) : call'[u].conn # free'[i]
  BY <1>1, <1>3, <1>4, <1>5, <1>6, <1>8, <1>10, <1>11, <1>12
<1>16. ASSUME NEW e \in Conns
       PROVE  (\E i \in 1..(n + 1) : free'[i] = e) \/ (\E u \in Threads : call'[u].conn = e)
  <2>1. CASE e = c
    BY <1>5, <1>6, <2>1
  <2>2. CASE e # c
    <3>1. ASSUME NEW u \in Threads, call[u].conn = e PROVE call'[u].conn = e
      BY <1>4, <2>2, <3>1 DEF c
    <3> QED BY <1>5, <1>6, <1>8, <3>1
  <2> QED BY <2>1, <2>2
<1>17. \A u \in Threads : call'[u].pc \in WithConn <=> call'[u].conn # Nothing
  BY <1>3, <1>4, <1>8 DEF WithConn
<1> QED BY <1>5, <1>13, <1>14, <1>15, <1>16, <1>17 DEF PoolInv

(* A step of a thread without a connection, which leaves it without one. *)
LEMMA PoolElsewhere ==
  ASSUME IInv, NEW t \in Threads, call[t].pc \notin WithConn, free' = free,
         NEW new, call' = [call EXCEPT ![t] = new],
         new.conn = call[t].conn, new.pc \notin WithConn
  PROVE  PoolInv'
<1>1. call \in [Threads -> Calls] /\ PoolInv
  BY DEF IInv, TypeOK
<1>2. call'[t] = new /\ \A u \in Threads : u # t => call'[u] = call[u]
  BY <1>1
<1> QED BY <1>1, <1>2, PoolSame

(* A step that leaves a thread idle. *)
LEMMA PoolIdle ==
  ASSUME IInv, NEW t \in Threads, call[t].pc \notin WithConn, free' = free,
         call' = [call EXCEPT ![t] = IdleCall]
  PROVE  PoolInv'
<1>1. call[t].conn = Nothing
  BY DEF IInv, PoolInv
<1> QED BY <1>1, IdleFacts, PoolElsewhere DEF WithConn

(* Every step keeps the pool. *)
LEMMA PoolStep == IInv /\ [Next]_vars => PoolInv'
<1> SUFFICES ASSUME IInv, [Next]_vars PROVE PoolInv'
  OBVIOUS
<1>1. CASE UNCHANGED <<free, call>>
  BY <1>1, PoolSame DEF IInv
<1>2. ASSUME NEW t \in Threads, NEW q \in Names, NEW stop \in StaticLabels, StartSearch(t, q, stop)
      PROVE  PoolInv'
  <2> DEFINE new == [IdleCall EXCEPT !.pc = "probe", !.query = q, !.name = q, !.stop = stop]
  <2>1. call[t].pc = "idle" /\ free' = free /\ call' = [call EXCEPT ![t] = new]
    BY <1>2 DEF StartSearch
  <2>2. new.conn = Nothing /\ new.pc = "probe"
    BY IdleFacts DEF IdleCall
  <2>3. call[t].conn = Nothing
    BY <2>1 DEF IInv, PoolInv, WithConn
  <2> HIDE DEF new
  <2> QED BY <2>1, <2>2, <2>3, PoolElsewhere DEF WithConn
<1>3. ASSUME NEW t \in Threads, FindZone(t) PROVE PoolInv'
  <2>1. call[t].pc = "probe" /\ free' = free /\ call[t] \in Calls
    BY <1>3, ThreadFacts DEF FindZone
  <2>2. PICK new \in {[call[t] EXCEPT !.pc = "findDone", !.result = "NOTFOUND"],
                      [call[t] EXCEPT !.pc = "acquire", !.caller = "find"]} :
            call' = [call EXCEPT ![t] = new]
    BY <1>3 DEF FindZone
  <2>3. new.conn = call[t].conn /\ new.pc \in {"findDone", "acquire"}
    BY <2>1, <2>2 DEF Calls
  <2> QED BY <2>1, <2>2, <2>3, PoolElsewhere DEF WithConn
<1>4. ASSUME NEW t \in Threads, AcquireTimeout(t) PROVE PoolInv'
  <2> DEFINE new == [call[t] EXCEPT !.pc = Return(t), !.result = "FAILURE"]
  <2>1. call[t].pc = "acquire" /\ free' = free /\ call[t] \in Calls /\ call' = [call EXCEPT ![t] = new]
    BY <1>4, ThreadFacts DEF AcquireTimeout
  <2>2. new.conn = call[t].conn /\ new.pc \in {"findDone", "lookupDone"}
    BY <2>1 DEF Calls, Return
  <2> HIDE DEF new
  <2> QED BY <2>1, <2>2, PoolElsewhere DEF WithConn
<1>5. ASSUME NEW t \in Threads, ZoneFound(t) \/ FindFailed(t) \/ LookupDone(t) PROVE PoolInv'
  BY <1>5, PoolIdle DEF WithConn, ZoneFound, FindFailed, LookupDone
<1>6. ASSUME NEW t \in Threads, NextProbe(t) PROVE PoolInv'
  <2> DEFINE new == [call[t] EXCEPT !.pc = "probe", !.name = Tail(call[t].name)]
  <2>1. /\ call[t].pc = "findDone" /\ free' = free /\ call[t] \in Calls
        /\ call' = [call EXCEPT ![t] = new] \/ call' = [call EXCEPT ![t] = IdleCall]
    BY <1>6, ThreadFacts DEF NextProbe
  <2>2. new.conn = call[t].conn /\ new.pc = "probe"
    BY <2>1 DEF Calls
  <2> HIDE DEF new
  <2> QED BY <2>1, <2>2, PoolElsewhere, PoolIdle DEF WithConn
<1>7. ASSUME NEW t \in Threads, Lookup(t) PROVE PoolInv'
  <2> DEFINE new == [IdleCall EXCEPT !.pc = "acquire", !.query = found[t].query,
                         !.name = found[t].zone, !.caller = "lookup", !.at = now]
  <2>1. /\ call[t].pc = "idle" /\ free' = free
        /\ call' = call \/ call' = [call EXCEPT ![t] = new]
    BY <1>7 DEF Lookup
  <2>2. new.conn = Nothing /\ new.pc = "acquire"
    BY DEF IdleCall
  <2>3. call[t].conn = Nothing
    BY <2>1 DEF IInv, PoolInv, WithConn
  <2> HIDE DEF new
  <2> QED BY <1>1, <2>1, <2>2, <2>3, PoolElsewhere DEF WithConn
<1>8. ASSUME NEW t \in Threads, NEW new, new.conn = call[t].conn, new.pc \in WithConn,
             call[t].pc \in WithConn, free' = free, call' = [call EXCEPT ![t] = new]
      PROVE  PoolInv'
  <2>1. call'[t] = new /\ \A u \in Threads : u # t => call'[u] = call[u]
    BY <1>8 DEF IInv, TypeOK
  <2> QED BY <1>8, <2>1, PoolSame DEF IInv
<1>9. ASSUME NEW t \in Threads, NEW pc \in WithConn, NEW tries, NEW rows, NEW ran
      PROVE  /\ [call[t] EXCEPT !.pc = pc].conn = call[t].conn
             /\ [call[t] EXCEPT !.pc = pc].pc = pc
             /\ [call[t] EXCEPT !.pc = pc, !.tries = tries, !.rows = rows, !.ran = ran].conn
                  = call[t].conn
             /\ [call[t] EXCEPT !.pc = pc, !.tries = tries, !.rows = rows, !.ran = ran].pc = pc
             /\ [call[t] EXCEPT !.pc = pc, !.rows = rows, !.ran = ran].conn = call[t].conn
             /\ [call[t] EXCEPT !.pc = pc, !.rows = rows, !.ran = ran].pc = pc
  <2>1. call[t] \in Calls
    BY <1>9, ThreadFacts
  <2>2. [call[t] EXCEPT !.pc = pc].conn = call[t].conn /\ [call[t] EXCEPT !.pc = pc].pc = pc
    BY <2>1 DEF Calls
  <2>3. /\ [call[t] EXCEPT !.pc = pc, !.tries = tries, !.rows = rows, !.ran = ran].conn = call[t].conn
        /\ [call[t] EXCEPT !.pc = pc, !.tries = tries, !.rows = rows, !.ran = ran].pc = pc
    BY <2>1 DEF Calls
  <2>4. /\ [call[t] EXCEPT !.pc = pc, !.rows = rows, !.ran = ran].conn = call[t].conn
        /\ [call[t] EXCEPT !.pc = pc, !.rows = rows, !.ran = ran].pc = pc
    BY <2>1 DEF Calls
  <2> QED BY <2>2, <2>3, <2>4
<1>10. ASSUME NEW t \in Threads, StillConnected(t) PROVE PoolInv'
  <2> DEFINE new == [call[t] EXCEPT !.pc = "exec"]
  <2>1. call[t].pc \in WithConn /\ free' = free /\ call' = [call EXCEPT ![t] = new]
    BY <1>10 DEF StillConnected, WithConn
  <2>2. new.conn = call[t].conn /\ new.pc \in WithConn
    BY <1>9 DEF WithConn
  <2> HIDE DEF new
  <2> QED BY <1>8, <2>1, <2>2
<1>11. ASSUME NEW t \in Threads, BackingOff(t) \/ QueryError(t) PROVE PoolInv'
  BY <1>11, PoolGive DEF BackingOff, QueryError, WithConn
<1>12. ASSUME NEW t \in Threads, Result(t) PROVE PoolInv'
  <2>1. ResultOf(call[t].rows) \in {"SUCCESS", "NOTFOUND", "FAILURE"}
    BY DEF ResultOf
  <2> QED BY <1>12, <2>1, PoolGive DEF Result, WithConn
<1>16. ASSUME NEW t \in Threads, Execute(t) PROVE PoolInv'
  <2> DEFINE new == [call[t] EXCEPT !.pc = "result", !.rows = db[call[t].name], !.ran = now]
  <2>1. call[t].pc \in WithConn /\ free' = free /\ call' = [call EXCEPT ![t] = new]
    BY <1>16 DEF Execute, WithConn
  <2>2. new.conn = call[t].conn /\ new.pc \in WithConn
    BY <1>9 DEF WithConn
  <2> HIDE DEF new
  <2> QED BY <1>8, <2>1, <2>2
<1>13. ASSUME NEW t \in Threads, Connect(t) PROVE PoolInv'
  <2> DEFINE new == [call[t] EXCEPT !.pc = "exec"]
  <2>1. /\ call[t].pc \in WithConn
        /\ Finish(t, "FAILURE") \/ (free' = free /\ call' = [call EXCEPT ![t] = new])
    BY <1>13 DEF Connect, WithConn
  <2>2. new.conn = call[t].conn /\ new.pc \in WithConn
    BY <1>9 DEF WithConn
  <2> HIDE DEF new
  <2> QED BY <1>8, <2>1, <2>2, PoolGive
<1>14. ASSUME NEW t \in Threads, Dropped(t) PROVE PoolInv'
  <2> DEFINE new == [call[t] EXCEPT !.pc = "connect", !.tries = 1, !.rows = "none", !.ran = 0]
  <2>1. /\ call[t].pc \in WithConn
        /\ Finish(t, "FAILURE") \/ (free' = free /\ call' = [call EXCEPT ![t] = new])
    BY <1>14 DEF Dropped, WithConn
  <2>2. new.conn = call[t].conn /\ new.pc \in WithConn
    BY <1>9 DEF WithConn
  <2> HIDE DEF new
  <2> QED BY <1>8, <2>1, <2>2, PoolGive
<1>15. Tick \/ ServerStop \/ ServerStart \/ (\E n \in Served, content \in Contents : DbChange(n, content))
         \/ (\E t \in Threads : QueryEnd(t)) => UNCHANGED <<free, call>>
  BY DEF Tick, ServerStop, ServerStart, DbChange, QueryEnd
<1> QED BY <1>1, <1>2, <1>3, <1>4, <1>5, <1>6, <1>7, <1>10, <1>11, <1>12, <1>13, <1>14, <1>15, <1>16, PoolTake
        DEF Next, CallStep, vars

-----------------------------------------------------------------------------
(* Time goes forward, and an answer the database held stays in its history. *)
LEMMA HeldStep ==
  ASSUME IInv, TypeOK', [Next]_vars
  PROVE  /\ HeldPast' /\ now <= now'
         /\ \A n \in Names, a \in Answers : HeldNow[n][a] <= HeldNow'[n][a]
         /\ now' = now \/ Tick
<1>1. /\ now \in Int /\ now' \in Int
      /\ \A n \in Names, a \in Answers : held[n][a] \in Int /\ held[n][a] <= now
  BY DlzAssumption DEF IInv, TypeOK, Time, Never, HeldPast
<1>2. \A n \in Names, a \in Answers :
          /\ HeldNow[n][a] = IF db[n] = a THEN now ELSE held[n][a]
          /\ HeldNow'[n][a] = IF db'[n] = a THEN now' ELSE held'[n][a]
  BY DEF HeldNow
<1>3. CASE UNCHANGED <<now, db, held>>
  BY <1>1, <1>2, <1>3 DEF IInv, HeldPast
<1>4. ASSUME held' = HeldNow, now <= now', now' = now \/ Tick
      PROVE  /\ HeldPast' /\ now <= now' /\ (now' = now \/ Tick)
             /\ \A n \in Names, a \in Answers : HeldNow[n][a] <= HeldNow'[n][a]
  <2>1. \A n \in Names, a \in Answers : HeldNow[n][a] \in Int /\ HeldNow[n][a] <= now
    BY <1>1, <1>2
  <2>2. \A n \in Names, a \in Answers : held'[n][a] <= now'
    BY <1>1, <1>4, <2>1
  <2>3. \A n \in Names, a \in Answers : HeldNow[n][a] <= HeldNow'[n][a]
    BY <1>1, <1>2, <1>4, <2>1
  <2> QED BY <1>4, <2>2, <2>3 DEF HeldPast
<1>5. CASE Tick
  BY <1>1, <1>4, <1>5 DEF Tick
<1>6. ASSUME NEW n \in Served, NEW content \in Contents, DbChange(n, content)
      PROVE held' = HeldNow /\ now <= now' /\ now' = now
  BY <1>1, <1>6 DEF DbChange
<1>7. UNCHANGED <<now, db, held>> \/ Tick \/ (\E n \in Served, content \in Contents : DbChange(n, content))
  <2>1. ASSUME NEW t \in Threads, CallStep(t) PROVE UNCHANGED <<now, db, held>>
    <3>1. CASE FindZone(t) \/ Acquire(t) \/ AcquireTimeout(t) \/ StillConnected(t) \/ BackingOff(t)
      BY <3>1 DEF FindZone, Acquire, AcquireTimeout, StillConnected, BackingOff
    <3>2. CASE Connect(t) \/ Execute(t) \/ Result(t) \/ QueryError(t) \/ Dropped(t)
      BY <3>2 DEF Connect, Execute, Result, QueryError, Dropped
    <3>3. CASE ZoneFound(t) \/ FindFailed(t) \/ NextProbe(t) \/ LookupDone(t)
      BY <3>3 DEF ZoneFound, FindFailed, NextProbe, LookupDone
    <3> QED BY <2>1, <3>1, <3>2, <3>3 DEF CallStep
  <2>2. ASSUME NEW t \in Threads, NEW q \in Names, NEW stop \in StaticLabels, StartSearch(t, q, stop)
        PROVE  UNCHANGED <<now, db, held>>
    BY <2>2 DEF StartSearch
  <2>3. ASSUME NEW t \in Threads, Lookup(t) \/ QueryEnd(t) PROVE UNCHANGED <<now, db, held>>
    BY <2>3 DEF Lookup, QueryEnd
  <2>4. ServerStop \/ ServerStart \/ UNCHANGED vars => UNCHANGED <<now, db, held>>
    BY DEF ServerStop, ServerStart, vars
  <2> QED BY <2>1, <2>2, <2>3, <2>4 DEF Next
<1> QED BY <1>3, <1>4, <1>5, <1>6, <1>7

(* A thread that makes no step keeps its invariant. *)
LEMMA Bystander ==
  ASSUME IInv, TypeOK', [Next]_vars, NEW t \in Threads,
         tls'[t] = tls[t], call'[t] = call[t], found'[t] = found[t], reply'[t] = reply[t]
  PROVE  ThreadInv(t)'
<1>1. /\ now \in Int /\ now' \in Int /\ now <= now'
      /\ \A n \in Names, a \in Answers : HeldNow[n][a] <= HeldNow'[n][a]
      /\ \A n \in Names, a \in Answers : HeldNow[n][a] \in Int /\ HeldNow'[n][a] \in Int
  <2>1. HeldNow \in [Names -> [Answers -> Time \union {Never}]]
    BY HeldNowType
  <2>2. HeldNow' \in [Names -> [Answers -> Time \union {Never}]]
    BY DEF TypeOK, HeldNow
  <2>3. Time \union {Never} \subseteq Int
    BY DlzAssumption DEF Time, Never
  <2> QED BY <2>1, <2>2, <2>3, HeldStep DEF IInv, TypeOK, Time
<1>2. /\ tls[t].filled \in Int /\ call[t].at \in Int /\ found[t].at \in Int /\ reply[t].at \in Int
      /\ call[t].ran \in Int /\ CacheMaxAge \in Int /\ MaxRoundTrip \in Int
  BY ThreadFacts, DlzAssumption DEF ThreadState, Calls, Zones, Replies
<1>3. SearchInv(t) /\ ResultInv(t) /\ CacheInv(t) /\ FetchInv(t) /\ FoundInv(t) /\ ReplyInv(t)
  BY DEF IInv, ThreadInv
<1>9. ResultInv(t)'
  <2> SUFFICES ASSUME call[t].pc = "result"
               PROVE  /\ call[t].ran <= now' /\ now' - call[t].ran <= MaxRoundTrip
                      /\ call[t].rows \in Answers => call[t].ran <= HeldNow'[call[t].name][call[t].rows]
    BY DEF ResultInv
  <2>1. call[t].name \in Names
    BY <1>3 DEF SearchInv
  <2>2. now' = now \/ (now' = now + 1 /\ now - call[t].ran < MaxRoundTrip)
    BY HeldStep DEF Tick
  <2> QED BY <1>1, <1>2, <1>3, <2>1, <2>2 DEF ResultInv
<1>4. SearchInv(t)'
  BY <1>3 DEF SearchInv, ProbeSettled, Fetching
<1>5. CacheInv(t)'
  BY <1>1, <1>2, <1>3 DEF CacheInv
<1>6. FetchInv(t)'
  BY <1>1, <1>2, <1>3 DEF FetchInv
<1>7. FoundInv(t)'
  BY <1>1, <1>2, <1>3 DEF FoundInv
<1>8. ReplyInv(t)'
  BY <1>1, <1>2, <1>3 DEF ReplyInv
<1> QED BY <1>4, <1>5, <1>6, <1>7, <1>8, <1>9 DEF ThreadInv

-----------------------------------------------------------------------------
(* What is known of a thread, spelled out for the lemmas that follow. *)
LEMMA StepFacts ==
  ASSUME IInv, TypeOK', NEW t \in Threads
  PROVE  /\ SearchInv(t) /\ ResultInv(t) /\ CacheInv(t) /\ FetchInv(t) /\ FoundInv(t) /\ ReplyInv(t)
         /\ tls \in [Threads -> ThreadState] /\ call \in [Threads -> Calls]
         /\ found \in [Threads -> Zones] /\ reply \in [Threads -> Replies]
         /\ call[t] \in Calls /\ tls[t] \in ThreadState /\ found[t] \in Zones /\ reply[t] \in Replies
         /\ tls[t].filled \in Int /\ call[t].at \in Int /\ found[t].at \in Int /\ reply[t].at \in Int
         /\ now \in Int /\ 0 <= now /\ CacheMaxAge \in Nat /\ MaxRoundTrip \in Nat
         /\ call[t].ran \in Int
         /\ \A n \in Names, a \in Answers : HeldNow[n][a] \in Int
<1>1. HeldNow \in [Names -> [Answers -> Time \union {Never}]]
  BY HeldNowType
<1>2. Time \subseteq Nat /\ Time \union {Never} \subseteq Int
  BY DlzAssumption DEF Time, Never
<1>3. \A n \in Names, a \in Answers : HeldNow[n][a] \in Int
  BY <1>1, <1>2
<1>4. /\ tls \in [Threads -> ThreadState] /\ call \in [Threads -> Calls]
      /\ found \in [Threads -> Zones] /\ reply \in [Threads -> Replies] /\ now \in Time
  BY DEF IInv, TypeOK
<1>5. call[t] \in Calls /\ tls[t] \in ThreadState /\ found[t] \in Zones /\ reply[t] \in Replies
  BY <1>4
<1>6. tls[t].filled \in Int /\ call[t].at \in Int /\ call[t].ran \in Int
  BY <1>2, <1>5 DEF ThreadState, Calls
<1>7. found[t].at \in Int /\ reply[t].at \in Int
  BY <1>2, <1>5 DEF Zones, Replies
<1>8. now \in Int /\ 0 <= now /\ CacheMaxAge \in Nat /\ MaxRoundTrip \in Nat
  BY <1>2, <1>4, DlzAssumption
<1>9. SearchInv(t) /\ ResultInv(t) /\ CacheInv(t) /\ FetchInv(t) /\ FoundInv(t) /\ ReplyInv(t)
  BY DEF IInv, ThreadInv
<1> QED BY <1>3, <1>4, <1>5, <1>6, <1>7, <1>8, <1>9

(* BIND starts a search. *)
LEMMA StartSearchInv ==
  ASSUME IInv, TypeOK', NEW t \in Threads, NEW q \in Names, NEW stop \in StaticLabels,
         StartSearch(t, q, stop)
  PROVE  ThreadInv(t)'
<1>1. /\ call[t].pc = "idle" /\ stop < Len(q)
      /\ tls' = tls /\ now' = now /\ HeldNow' = HeldNow
      /\ reply'[t] = NoReply /\ found'[t] = [found[t] EXCEPT !.direct = FALSE]
      /\ call'[t] = [IdleCall EXCEPT !.pc = "probe", !.query = q, !.name = q, !.stop = stop]
  BY StepFacts DEF StartSearch, HeldNow
<1>2. /\ call'[t].pc = "probe" /\ call'[t].caller = "find" /\ call'[t].query = q /\ call'[t].name = q
      /\ call'[t].stop = stop
  BY <1>1 DEF IdleCall
<1>3. /\ found'[t].zone = found[t].zone /\ found'[t].query = found[t].query
      /\ found'[t].at = found[t].at /\ ~found'[t].direct
      /\ found[t] = NoZone => found'[t] = NoZone
  <2>1. found'[t].zone = found[t].zone /\ found'[t].query = found[t].query /\ found'[t].at = found[t].at
    BY <1>1, StepFacts DEF Zones
  <2>2. found'[t].direct = FALSE
    BY <1>1, StepFacts DEF Zones
  <2>3. [NoZone EXCEPT !.direct = FALSE] = NoZone
    BY IdleFacts DEF Zones
  <2> QED BY <1>1, <2>1, <2>2, <2>3
<1>4. SearchInv(t)'
  BY <1>1, <1>2, StepFacts, NameFacts DEF SearchInv, ProbeSettled, Fetching
<1>5. CacheInv(t)'
  BY <1>1, StepFacts DEF CacheInv
<1>6. FetchInv(t)'
  BY <1>2 DEF FetchInv
<1>7. FoundInv(t)'
  BY <1>1, <1>3, StepFacts DEF FoundInv
<1>8. ReplyInv(t)'
  BY <1>1, StepFacts, IdleFacts DEF ReplyInv
<1>9. ResultInv(t)'
  BY <1>2 DEF ResultInv
<1> QED BY <1>4, <1>5, <1>6, <1>7, <1>8, <1>9 DEF ThreadInv

(* findzonedb decides whether to ask. *)
LEMMA FindZoneInv ==
  ASSUME IInv, TypeOK', NEW t \in Threads, FindZone(t)
  PROVE  ThreadInv(t)'
<1>1. /\ call[t].pc = "probe" /\ found' = found /\ reply' = reply /\ now' = now /\ HeldNow' = HeldNow
      /\ tls'[t] = [tls[t] EXCEPT !.last_probe = call[t].name]
      /\ call'[t] = IF cadns_is_parent_name(call[t].name, tls[t].last_probe)
                    THEN [call[t] EXCEPT !.pc = "findDone", !.result = "NOTFOUND"]
                    ELSE [call[t] EXCEPT !.pc = "acquire", !.caller = "find"]
  BY StepFacts DEF FindZone, HeldNow
<1>2. /\ tls'[t].last_probe = call[t].name /\ tls'[t].owner = tls[t].owner
      /\ tls'[t].zone = tls[t].zone /\ tls'[t].rows = tls[t].rows /\ tls'[t].filled = tls[t].filled
  BY <1>1, StepFacts DEF ThreadState
<1>3. /\ call[t].caller = "find" /\ call'[t].caller = "find"
      /\ call'[t].query = call[t].query /\ call'[t].name = call[t].name
      /\ call'[t].stop = call[t].stop /\ call'[t].at = call[t].at
      /\ IF cadns_is_parent_name(call[t].name, tls[t].last_probe)
         THEN call'[t].pc = "findDone" /\ call'[t].result = "NOTFOUND"
         ELSE call'[t].pc = "acquire"
  BY <1>1, StepFacts DEF Calls, SearchInv
<1>4. ~cadns_is_parent_name(call[t].name, tls[t].last_probe) => call[t].name = call[t].query
  BY <1>1, StepFacts, TailIsParent DEF SearchInv
<1>5. SearchInv(t)'
  BY <1>1, <1>2, <1>3, <1>4, StepFacts DEF SearchInv, Fetching
<1>6. CacheInv(t)'
  BY <1>1, <1>2, StepFacts DEF CacheInv
<1>7. FetchInv(t)'
  BY <1>3 DEF FetchInv
<1>8. ~found[t].direct
  BY <1>1, <1>3, StepFacts DEF FoundInv
<1>9. FoundInv(t)'
  BY <1>1, <1>8, StepFacts DEF FoundInv
<1>10. ReplyInv(t)'
  BY <1>1, <1>3, StepFacts DEF ReplyInv
<1>11. ResultInv(t)'
  BY <1>3 DEF ResultInv
<1> QED BY <1>5, <1>6, <1>7, <1>9, <1>10, <1>11 DEF ThreadInv

(* A step inside fetch() that leaves the cache alone. *)
LEMMA FetchStepInv ==
  ASSUME IInv, TypeOK', NEW t \in Threads, Fetching(t),
         tls'[t] = tls[t], found' = found, reply' = reply, now' = now, HeldNow' = HeldNow,
         /\ call'[t].query = call[t].query /\ call'[t].name = call[t].name
         /\ call'[t].stop = call[t].stop /\ call'[t].at = call[t].at
         /\ call'[t].caller = call[t].caller,
         ResultInv(t)',
         \/ Fetching(t)'
         \/ call'[t].pc = Return(t) /\ call'[t].result = "FAILURE"
  PROVE  ThreadInv(t)'
<1>1. call[t].pc \in {"acquire"} \union WithConn /\ call[t].caller \in {"find", "lookup"}
  BY StepFacts DEF Fetching, WithConn, Calls
<1>2. Return(t) = IF call[t].caller = "find" THEN "findDone" ELSE "lookupDone"
  BY DEF Return
<1>3. SearchInv(t)'
  BY <1>1, <1>2, StepFacts DEF SearchInv, ProbeSettled, Fetching, WithConn
<1>4. CacheInv(t)'
  BY StepFacts DEF CacheInv
<1>5. FetchInv(t)'
  BY <1>1, <1>2, StepFacts DEF FetchInv, Fetching, WithConn
<1>6. FoundInv(t)'
  BY <1>1, <1>2, StepFacts DEF FoundInv, Fetching, WithConn
<1>7. ReplyInv(t)'
  BY <1>1, StepFacts DEF ReplyInv, WithConn
<1> QED BY <1>3, <1>4, <1>5, <1>6, <1>7 DEF ThreadInv

(* fetch(), except for the statement's own steps. *)
LEMMA FetchInvs ==
  ASSUME IInv, TypeOK', NEW t \in Threads,
         \/ Acquire(t) \/ AcquireTimeout(t) \/ StillConnected(t) \/ BackingOff(t) \/ Connect(t)
         \/ QueryError(t) \/ Dropped(t)
  PROVE  ThreadInv(t)'
<1>1. /\ tls' = tls /\ found' = found /\ reply' = reply /\ now' = now /\ HeldNow' = HeldNow
      /\ Fetching(t)
  BY DEF Acquire, AcquireTimeout, StillConnected, BackingOff, Connect, QueryError, Dropped,
         Fetching, WithConn, HeldNow
<1>2. ASSUME NEW pc \in {"connect", "exec"}, NEW conn, NEW tries,
             \/ call' = [call EXCEPT ![t] = [call[t] EXCEPT !.pc = pc]]
             \/ call' = [call EXCEPT ![t] = [call[t] EXCEPT !.pc = pc, !.conn = conn, !.tries = tries]]
             \/ call' = [call EXCEPT ![t] = [call[t] EXCEPT !.pc = pc, !.tries = tries,
                                                            !.rows = "none", !.ran = 0]]
      PROVE  ThreadInv(t)'
  <2>1. /\ call'[t].query = call[t].query /\ call'[t].name = call[t].name
        /\ call'[t].stop = call[t].stop /\ call'[t].at = call[t].at
        /\ call'[t].caller = call[t].caller /\ call'[t].pc = pc
    <3>1. \/ call'[t] = [call[t] EXCEPT !.pc = pc]
          \/ call'[t] = [call[t] EXCEPT !.pc = pc, !.conn = conn, !.tries = tries]
          \/ call'[t] = [call[t] EXCEPT !.pc = pc, !.tries = tries, !.rows = "none", !.ran = 0]
      BY <1>2, StepFacts
    <3>2. call[t] \in Calls
      BY StepFacts
    <3>3. CASE call'[t] = [call[t] EXCEPT !.pc = pc]
      BY <3>2, <3>3 DEF Calls
    <3>4. CASE call'[t] = [call[t] EXCEPT !.pc = pc, !.conn = conn, !.tries = tries]
      BY <3>2, <3>4 DEF Calls
    <3>5. CASE call'[t] = [call[t] EXCEPT !.pc = pc, !.tries = tries, !.rows = "none", !.ran = 0]
      BY <3>2, <3>5 DEF Calls
    <3> QED BY <3>1, <3>3, <3>4, <3>5
  <2>2. Fetching(t)' /\ ResultInv(t)'
    BY <2>1 DEF Fetching, WithConn, ResultInv
  <2> QED BY <1>1, <2>1, <2>2, FetchStepInv
<1>3. ASSUME \/ call' = [call EXCEPT ![t] = [call[t] EXCEPT !.pc = Return(t), !.result = "FAILURE"]]
             \/ call' = [call EXCEPT ![t] = [call[t] EXCEPT !.pc = Return(t), !.conn = Nothing,
                                                 !.result = "FAILURE", !.rows = "none", !.ran = 0]]
      PROVE  ThreadInv(t)'
  <2>1. /\ call'[t].query = call[t].query /\ call'[t].name = call[t].name
        /\ call'[t].stop = call[t].stop /\ call'[t].at = call[t].at
        /\ call'[t].caller = call[t].caller /\ call'[t].pc = Return(t) /\ call'[t].result = "FAILURE"
    <3>1. \/ call'[t] = [call[t] EXCEPT !.pc = Return(t), !.result = "FAILURE"]
          \/ call'[t] = [call[t] EXCEPT !.pc = Return(t), !.conn = Nothing, !.result = "FAILURE",
                                        !.rows = "none", !.ran = 0]
      BY <1>3, StepFacts
    <3>2. call[t] \in Calls
      BY StepFacts
    <3>3. CASE call'[t] = [call[t] EXCEPT !.pc = Return(t), !.result = "FAILURE"]
      BY <3>2, <3>3 DEF Calls
    <3>4. CASE call'[t] = [call[t] EXCEPT !.pc = Return(t), !.conn = Nothing, !.result = "FAILURE",
                                          !.rows = "none", !.ran = 0]
      BY <3>2, <3>4 DEF Calls
    <3> QED BY <3>1, <3>3, <3>4
  <2>2. ResultInv(t)'
    BY <2>1 DEF ResultInv, Return
  <2> QED BY <1>1, <2>1, <2>2, FetchStepInv
<1>4. CASE Acquire(t)
  <2>1. call' = [call EXCEPT ![t] = [call[t] EXCEPT !.pc = "connect", !.conn = Last(free), !.tries = 0]]
    BY <1>4 DEF Acquire
  <2> QED BY <1>2, <2>1
<1>5. CASE AcquireTimeout(t)
  BY <1>3, <1>5 DEF AcquireTimeout
<1>6. CASE StillConnected(t)
  <2>1. call' = [call EXCEPT ![t] = [call[t] EXCEPT !.pc = "exec"]]
    BY <1>6 DEF StillConnected
  <2> QED BY <1>2, <2>1
<1>7. CASE Finish(t, "FAILURE")
  BY <1>3, <1>7 DEF Finish
<1>8. CASE Connect(t) /\ ~Finish(t, "FAILURE")
  <2>1. call' = [call EXCEPT ![t] = [call[t] EXCEPT !.pc = "exec"]]
    BY <1>8 DEF Connect
  <2> QED BY <1>2, <2>1
<1>9. CASE Dropped(t) /\ ~Finish(t, "FAILURE")
  <2>1. call' = [call EXCEPT ![t] = [call[t] EXCEPT !.pc = "connect", !.tries = 1,
                                                    !.rows = "none", !.ran = 0]]
    BY <1>9 DEF Dropped
  <2> QED BY <1>2, <2>1
<1> QED BY <1>4, <1>5, <1>6, <1>7, <1>8, <1>9 DEF BackingOff, QueryError

(* The server runs the statement: its rows are those of that moment. *)
LEMMA ExecuteInv ==
  ASSUME IInv, TypeOK', NEW t \in Threads, Execute(t)
  PROVE  ThreadInv(t)'
<1>1. /\ tls' = tls /\ found' = found /\ reply' = reply /\ now' = now /\ HeldNow' = HeldNow
      /\ call[t].pc = "exec" /\ Fetching(t)
      /\ call'[t] = [call[t] EXCEPT !.pc = "result", !.rows = db[call[t].name], !.ran = now]
  BY StepFacts DEF Execute, Fetching, WithConn, HeldNow
<1>2. /\ call'[t].query = call[t].query /\ call'[t].name = call[t].name
      /\ call'[t].stop = call[t].stop /\ call'[t].at = call[t].at
      /\ call'[t].caller = call[t].caller /\ call'[t].pc = "result"
      /\ call'[t].rows = db[call[t].name] /\ call'[t].ran = now
  BY <1>1, StepFacts DEF Calls
<1>3. call[t].name \in Names
  BY <1>1, StepFacts DEF SearchInv
<1>4. db[call[t].name] \in Answers => HeldNow[call[t].name][db[call[t].name]] = now
  BY <1>3 DEF HeldNow
<1>5. ResultInv(t)'
  BY <1>1, <1>2, <1>4, StepFacts DEF ResultInv
<1>6. Fetching(t)'
  BY <1>2 DEF Fetching, WithConn
<1> QED BY <1>1, <1>2, <1>5, <1>6, FetchStepInv

(* The reply arrives: what store_rows keeps was in the database when the    *)
(* statement ran.                                                           *)
LEMMA ReplyArrives ==
  ASSUME IInv, TypeOK', NEW t \in Threads, Result(t)
  PROVE  ThreadInv(t)'
<1> DEFINE content == call[t].rows
<1>1. /\ call[t].pc = "result" /\ found' = found /\ reply' = reply /\ now' = now /\ HeldNow' = HeldNow
      /\ call[t].caller \in {"find", "lookup"}
  BY StepFacts DEF Result, HeldNow, Calls
<1>2. call[t].name \in Names /\ content \in Contents
  BY <1>1, StepFacts DEF SearchInv, Calls
<1>3. tls'[t] = IF content \in Answers
                THEN [tls[t] EXCEPT !.owner = TRUE, !.zone = call[t].name, !.rows = content, !.filled = now]
                ELSE [tls[t] EXCEPT !.owner = FALSE, !.rows = "none"]
  BY StepFacts DEF Result, store_rows
<1>4. /\ tls'[t].last_probe = tls[t].last_probe
      /\ content \in Answers => /\ tls'[t].owner /\ tls'[t].zone = call[t].name
                                /\ tls'[t].rows = content /\ tls'[t].filled = now
      /\ content \notin Answers => tls'[t].owner = FALSE
  BY <1>3, StepFacts DEF ThreadState
<1>5. ResultOf(content) \in {"SUCCESS", "NOTFOUND", "FAILURE"}
  BY DEF ResultOf
<1>6. ResultOf(content) = "SUCCESS" => content \in Answers
  BY <1>2, DlzAssumption DEF ResultOf, Contents
<1>7. call' = [call EXCEPT ![t] = [call[t] EXCEPT !.pc = Return(t), !.conn = Nothing,
                                      !.result = ResultOf(content), !.rows = "none", !.ran = 0]]
  BY DEF Result, Finish
<1>8. /\ call[t].ran <= now /\ now - call[t].ran <= MaxRoundTrip
      /\ content \in Answers => call[t].ran <= HeldNow[call[t].name][content]
  BY <1>1, StepFacts DEF ResultInv
<1> HIDE DEF content
<1>9. /\ call'[t].query = call[t].query /\ call'[t].name = call[t].name
      /\ call'[t].stop = call[t].stop /\ call'[t].at = call[t].at
      /\ call'[t].caller = call[t].caller /\ call'[t].pc = Return(t)
      /\ call'[t].result = ResultOf(content)
  BY <1>7, StepFacts DEF Calls
<1>10. Return(t) = IF call[t].caller = "find" THEN "findDone" ELSE "lookupDone"
  BY DEF Return
<1>11. content \in Answers => now - MaxRoundTrip <= HeldNow[call[t].name][content]
  BY <1>2, <1>8, StepFacts
<1>12. SearchInv(t)'
  BY <1>1, <1>4, <1>9, <1>10, StepFacts DEF SearchInv, ProbeSettled, Fetching, WithConn
<1>13. CacheInv(t)'
  BY <1>1, <1>2, <1>4, <1>11, StepFacts DEF CacheInv
<1>14. FetchInv(t)'
  BY <1>1, <1>4, <1>6, <1>9, <1>10, StepFacts DEF FetchInv
<1>15. FoundInv(t)'
  BY <1>1, <1>9, <1>10, StepFacts DEF FoundInv, FetchInv
<1>16. ReplyInv(t)'
  BY <1>1, <1>9, StepFacts DEF ReplyInv
<1>17. ResultInv(t)'
  BY <1>9, <1>10 DEF ResultInv
<1> QED BY <1>12, <1>13, <1>14, <1>15, <1>16, <1>17 DEF ThreadInv

(* findzonedb returns to BIND. *)
LEMMA ZoneFoundInv ==
  ASSUME IInv, TypeOK', NEW t \in Threads, ZoneFound(t)
  PROVE  ThreadInv(t)'
<1>1. /\ call[t].pc = "findDone" /\ call[t].result = "SUCCESS"
      /\ reply' = reply /\ now' = now /\ HeldNow' = HeldNow
      /\ tls'[t] = [tls[t] EXCEPT !.last_probe = Nothing]
      /\ found'[t] = [query |-> call[t].query, zone |-> call[t].name, rows |-> tls[t].rows,
                      at |-> tls[t].filled, direct |-> TRUE]
      /\ call'[t] = IdleCall
  BY StepFacts DEF ZoneFound, HeldNow
<1>2. /\ tls'[t].last_probe = Nothing /\ tls'[t].owner = tls[t].owner
      /\ tls'[t].zone = tls[t].zone /\ tls'[t].rows = tls[t].rows /\ tls'[t].filled = tls[t].filled
  BY <1>1, StepFacts DEF ThreadState
<1>3. /\ found'[t].query = call[t].query /\ found'[t].zone = call[t].name
      /\ found'[t].rows = tls[t].rows /\ found'[t].at = tls[t].filled
  BY <1>1
<1>4. /\ call[t].name = call[t].query /\ call[t].name \in Names
      /\ tls[t].owner /\ tls[t].zone = call[t].name /\ tls[t].filled <= now
  BY <1>1, StepFacts DEF SearchInv, FetchInv, CacheInv
<1>5. ~found[t].direct /\ call'[t].pc = "idle" /\ call'[t].caller = "find"
  BY <1>1, StepFacts, IdleFacts DEF FoundInv, SearchInv
<1>6. SearchInv(t)'
  BY <1>2, <1>5 DEF SearchInv, ProbeSettled, Fetching
<1>7. CacheInv(t)'
  BY <1>1, <1>2, StepFacts DEF CacheInv
<1>8. FetchInv(t)'
  BY <1>5 DEF FetchInv
<1>9. FoundInv(t)'
  BY <1>1, <1>2, <1>3, <1>4, <1>5 DEF FoundInv
<1>10. ReplyInv(t)'
  BY <1>1, <1>5, StepFacts DEF ReplyInv, SearchInv
<1>11. ResultInv(t)'
  BY <1>5 DEF ResultInv
<1> QED BY <1>6, <1>7, <1>8, <1>9, <1>10, <1>11 DEF ThreadInv

(* A search that failed leaves last_probe empty. *)
LEMMA FindFailedInv ==
  ASSUME IInv, TypeOK', NEW t \in Threads, FindFailed(t)
  PROVE  ThreadInv(t)'
<1>1. /\ call[t].pc = "findDone" /\ found' = found
      /\ reply' = reply /\ now' = now /\ HeldNow' = HeldNow
      /\ tls'[t] = [tls[t] EXCEPT !.last_probe = Nothing]
      /\ call'[t] = IdleCall
  BY StepFacts DEF FindFailed, HeldNow
<1>2. /\ tls'[t].last_probe = Nothing /\ tls'[t].owner = tls[t].owner
      /\ tls'[t].zone = tls[t].zone /\ tls'[t].rows = tls[t].rows /\ tls'[t].filled = tls[t].filled
  BY <1>1, StepFacts DEF ThreadState
<1>3. ~found[t].direct /\ call'[t].pc = "idle" /\ call'[t].caller = "find"
  BY <1>1, StepFacts, IdleFacts DEF FoundInv, SearchInv
<1>4. SearchInv(t)'
  BY <1>2, <1>3 DEF SearchInv, ProbeSettled, Fetching
<1>5. CacheInv(t)'
  BY <1>1, <1>2, StepFacts DEF CacheInv
<1>6. FetchInv(t)'
  BY <1>3 DEF FetchInv
<1>7. FoundInv(t)'
  BY <1>1, <1>3, StepFacts DEF FoundInv
<1>8. ReplyInv(t)'
  BY <1>1, <1>3, StepFacts DEF ReplyInv
<1>9. ResultInv(t)'
  BY <1>3 DEF ResultInv
<1> QED BY <1>4, <1>5, <1>6, <1>7, <1>8, <1>9 DEF ThreadInv

(* BIND goes on to the parent, or gives up at the static zone. *)
LEMMA NextProbeInv ==
  ASSUME IInv, TypeOK', NEW t \in Threads, NextProbe(t)
  PROVE  ThreadInv(t)'
<1> DEFINE n == call[t].name
<1>1. /\ call[t].pc = "findDone" /\ found' = found /\ reply' = reply /\ now' = now
      /\ HeldNow' = HeldNow /\ tls' = tls
      /\ call'[t] = IF Len(n) > call[t].stop + 1
                    THEN [call[t] EXCEPT !.pc = "probe", !.name = Tail(n)] ELSE IdleCall
  BY StepFacts DEF NextProbe, HeldNow
<1>2. /\ call[t].caller = "find" /\ n \in Names /\ call[t].query \in Names
      /\ Len(n) <= Len(call[t].query) /\ call[t].stop \in StaticLabels /\ call[t].stop < Len(n)
      /\ tls[t].last_probe = n /\ ~found[t].direct
  BY <1>1, StepFacts DEF SearchInv, FoundInv
<1>3. CacheInv(t)'
  BY <1>1, StepFacts DEF CacheInv
<1>4. FoundInv(t)'
  BY <1>1, <1>2, StepFacts DEF FoundInv
<1>5. ReplyInv(t)'
  BY <1>1, <1>2, StepFacts DEF ReplyInv
<1>6. call[t].stop \in Nat /\ Len(n) \in Nat /\ Len(n) >= 1 /\ Len(call[t].query) \in Nat
  BY <1>2, NameFacts, DlzAssumption
<1>7. CASE Len(n) > call[t].stop + 1
  <2>1. /\ call'[t].pc = "probe" /\ call'[t].name = Tail(n) /\ call'[t].caller = "find"
        /\ call'[t].query = call[t].query /\ call'[t].stop = call[t].stop
    BY <1>1, <1>2, <1>7, StepFacts DEF Calls
  <2>2. Len(n) > 1 /\ Tail(n) \in Names /\ Len(Tail(n)) = Len(n) - 1
    BY <1>2, <1>6, <1>7, NameFacts
  <2>3. Len(Tail(n)) < Len(call[t].query) /\ Tail(n) # call[t].query /\ call[t].stop < Len(Tail(n))
    <3>1. ASSUME NEW l \in Nat, NEW q \in Nat, NEW s \in Nat, NEW k, l <= q, l > s + 1, k = l - 1
          PROVE  k < q /\ k # q /\ s < k
      BY <3>1
    <3>2. Len(Tail(n)) < Len(call[t].query) /\ Len(Tail(n)) # Len(call[t].query) /\ call[t].stop < Len(Tail(n))
      BY <1>2, <1>6, <1>7, <2>2, <3>1
    <3> QED BY <3>2, Zenon
  <2>4. SearchInv(t)'
    BY <1>1, <1>2, <1>6, <2>1, <2>2, <2>3 DEF SearchInv, Fetching
  <2>5. FetchInv(t)' /\ ResultInv(t)'
    BY <2>1 DEF FetchInv, ResultInv
  <2> QED BY <1>3, <1>4, <1>5, <2>4, <2>5 DEF ThreadInv
<1>8. CASE ~(Len(n) > call[t].stop + 1)
  <2>1. call'[t] = IdleCall
    BY <1>1, <1>8
  <2>2. call'[t].pc = "idle" /\ call'[t].caller = "find"
    BY <2>1, IdleFacts
  <2>3. Len(n) - 1 = call[t].stop
    BY <1>2, <1>6, <1>8
  <2>4. ProbeSettled(t)'
    BY <1>1, <1>2, <2>3 DEF ProbeSettled
  <2>5. SearchInv(t)'
    BY <2>2, <2>4 DEF SearchInv, Fetching
  <2>6. FetchInv(t)' /\ ResultInv(t)'
    BY <2>2 DEF FetchInv, ResultInv
  <2> QED BY <1>3, <1>4, <1>5, <2>5, <2>6 DEF ThreadInv
<1> QED BY <1>7, <1>8

(* What lookup says becomes the reply. *)
LEMMA AnswerFacts ==
  ASSUME IInv, TypeOK', NEW t \in Threads, NEW kind, NEW rows, NEW at, Answer(t, kind, rows, at)
  PROVE  /\ reply'[t].kind = kind /\ reply'[t].rows = rows /\ reply'[t].at = at
         /\ reply'[t].zone = found[t].zone
<1>1. reply'[t] = [kind |-> kind, query |-> found[t].query, zone |-> found[t].zone, rows |-> rows,
                   at |-> at]
  BY StepFacts DEF Answer
<1> QED BY <1>1

(* lookup answers from the cache, or fetches again. *)
LEMMA LookupInv ==
  ASSUME IInv, TypeOK', NEW t \in Threads, Lookup(t)
  PROVE  ThreadInv(t)'
<1>1. /\ call[t].pc = "idle" /\ found[t] # NoZone /\ found' = found /\ now' = now
      /\ HeldNow' = HeldNow /\ tls' = tls
  BY DEF Lookup, HeldNow
<1>2. found[t].query = found[t].zone /\ found[t].zone \in Names
  BY <1>1, StepFacts DEF FoundInv
<1>3. CacheInv(t)'
  BY <1>1, StepFacts DEF CacheInv
<1>4. CASE CacheValid(t, found[t].zone)
  <2>1. /\ call' = call
        /\ Answer(t, "rows", tls[t].rows, now) \/ Answer(t, "putrrError", "none", now)
    BY <1>2, <1>4 DEF Lookup, PutRows
  <2>2. /\ (reply'[t].kind = "rows" /\ reply'[t].rows = tls[t].rows) \/ reply'[t].kind = "putrrError"
        /\ reply'[t].at = now /\ reply'[t].zone = found[t].zone
    BY <2>1, AnswerFacts
  <2>3. /\ tls[t].owner /\ tls[t].zone = found[t].zone /\ now - tls[t].filled <= CacheMaxAge
        /\ tls[t].rows \in Answers /\ tls[t].filled - MaxRoundTrip <= HeldNow[tls[t].zone][tls[t].rows]
    BY <1>4, StepFacts DEF CacheValid, CacheInv
  <2>4. SearchInv(t)' /\ FetchInv(t)' /\ ResultInv(t)'
    BY <1>1, <2>1, StepFacts DEF SearchInv, ProbeSettled, Fetching, FetchInv, ResultInv
  <2>5. FoundInv(t)'
    BY <1>1, <2>1, StepFacts DEF FoundInv
  <2>6. now - CacheMaxAge - MaxRoundTrip <= HeldNow[found[t].zone][tls[t].rows]
    BY <1>2, <2>3, StepFacts
  <2>7. found[t].direct /\ now - found[t].at <= CacheMaxAge => tls[t].rows = found[t].rows
    BY StepFacts DEF FoundInv
  <2>8. ReplyInv(t)'
    BY <1>1, <1>2, <2>1, <2>2, <2>3, <2>6, <2>7, StepFacts DEF ReplyInv
  <2> QED BY <1>3, <2>4, <2>5, <2>8 DEF ThreadInv
<1>5. CASE ~CacheValid(t, found[t].zone)
  <2>1. /\ reply' = reply
        /\ call'[t] = [IdleCall EXCEPT !.pc = "acquire", !.query = found[t].query,
                          !.name = found[t].zone, !.caller = "lookup", !.at = now]
    BY <1>2, <1>5, StepFacts DEF Lookup
  <2>2. /\ call'[t].pc = "acquire" /\ call'[t].caller = "lookup" /\ call'[t].at = now
        /\ call'[t].name = found[t].zone
    BY <2>1 DEF IdleCall
  <2>3. found[t].direct => now - found[t].at > CacheMaxAge
    BY <1>5, StepFacts DEF CacheValid, FoundInv
  <2>4. SearchInv(t)'
    BY <1>1, <1>2, <2>2, StepFacts DEF SearchInv, ProbeSettled, Fetching
  <2>5. FetchInv(t)' /\ ResultInv(t)'
    BY <1>1, <1>2, <2>2, StepFacts DEF FetchInv, ResultInv
  <2>6. FoundInv(t)'
    BY <1>1, <2>2, <2>3, StepFacts DEF FoundInv
  <2>7. ReplyInv(t)'
    BY <1>1, <2>1, <2>2, StepFacts DEF ReplyInv
  <2> QED BY <1>3, <2>4, <2>5, <2>6, <2>7 DEF ThreadInv
<1> QED BY <1>4, <1>5

(* lookup answers after a fetch of its own. *)
LEMMA LookupDoneInv ==
  ASSUME IInv, TypeOK', NEW t \in Threads, LookupDone(t)
  PROVE  ThreadInv(t)'
<1>1. /\ call[t].pc = "lookupDone" /\ found' = found /\ now' = now
      /\ HeldNow' = HeldNow /\ tls' = tls /\ call'[t] = IdleCall
  BY StepFacts DEF LookupDone, HeldNow
<1>2. call'[t].pc = "idle" /\ call'[t].caller = "find"
  BY <1>1, IdleFacts
<1>3. /\ call[t].caller = "lookup" /\ found[t].zone \in Names /\ call[t].at <= now
      /\ found[t].direct => call[t].at - found[t].at > CacheMaxAge
  BY <1>1, StepFacts DEF SearchInv, FetchInv, FoundInv
<1>4. SearchInv(t)'
  BY <1>1, <1>2, <1>3, StepFacts DEF SearchInv, ProbeSettled, Fetching
<1>5. CacheInv(t)' /\ FetchInv(t)' /\ ResultInv(t)'
  BY <1>1, <1>2, StepFacts DEF CacheInv, FetchInv, ResultInv
<1>6. FoundInv(t)'
  BY <1>1, <1>2, <1>3, StepFacts DEF FoundInv
<1>7. CASE call[t].result = "SUCCESS"
  <2>1. /\ (reply'[t].kind = "rows" /\ reply'[t].rows = tls[t].rows) \/ reply'[t].kind = "putrrError"
        /\ reply'[t].at = call[t].at /\ reply'[t].zone = found[t].zone
    BY <1>7, AnswerFacts DEF LookupDone, PutRows
  <2>2. /\ tls[t].owner /\ tls[t].zone = found[t].zone /\ call[t].at <= tls[t].filled
        /\ tls[t].rows \in Answers /\ tls[t].filled - MaxRoundTrip <= HeldNow[tls[t].zone][tls[t].rows]
    BY <1>1, <1>7, StepFacts DEF FetchInv, CacheInv
  <2>3. call[t].at - CacheMaxAge - MaxRoundTrip <= HeldNow[found[t].zone][tls[t].rows]
    BY <1>3, <2>2, StepFacts
  <2>4. ReplyInv(t)'
    BY <1>1, <1>2, <1>3, <2>1, <2>2, <2>3, StepFacts DEF ReplyInv
  <2> QED BY <1>4, <1>5, <1>6, <2>4 DEF ThreadInv
<1>8. CASE call[t].result # "SUCCESS"
  <2>1. reply'[t].kind = "SERVFAIL" /\ reply'[t].at = call[t].at
    BY <1>8, AnswerFacts DEF LookupDone
  <2>2. ReplyInv(t)'
    BY <1>1, <1>2, <1>3, <2>1, StepFacts DEF ReplyInv
  <2> QED BY <1>4, <1>5, <1>6, <2>2 DEF ThreadInv
<1> QED BY <1>7, <1>8

(* BIND forgets the zone. *)
LEMMA QueryEndInv ==
  ASSUME IInv, TypeOK', NEW t \in Threads, QueryEnd(t)
  PROVE  ThreadInv(t)'
<1>1. /\ call[t].pc = "idle" /\ found'[t] = NoZone /\ reply'[t] = NoReply /\ now' = now
      /\ HeldNow' = HeldNow /\ tls' = tls /\ call' = call
  BY StepFacts DEF QueryEnd, HeldNow
<1>2. SearchInv(t)' /\ ResultInv(t)' /\ CacheInv(t)' /\ FetchInv(t)'
  BY <1>1, StepFacts DEF SearchInv, ResultInv, ProbeSettled, Fetching, CacheInv, FetchInv
<1>3. FoundInv(t)' /\ ReplyInv(t)'
  BY <1>1, StepFacts, IdleFacts DEF FoundInv, ReplyInv
<1> QED BY <1>2, <1>3 DEF ThreadInv

(* Every step keeps the invariant of every thread. *)
LEMMA ThreadStep == IInv /\ TypeOK' /\ [Next]_vars => \A t \in Threads : ThreadInv(t)'
<1> SUFFICES ASSUME IInv, TypeOK', [Next]_vars, NEW u \in Threads PROVE ThreadInv(u)'
  OBVIOUS
<1>1. CASE tls'[u] = tls[u] /\ call'[u] = call[u] /\ found'[u] = found[u] /\ reply'[u] = reply[u]
  BY <1>1, Bystander
<1>2. UNCHANGED vars \/ Tick \/ ServerStop \/ ServerStart
         \/ (\E n \in Served, content \in Contents : DbChange(n, content)) =>
             UNCHANGED <<tls, call, found, reply>>
  BY DEF vars, Tick, ServerStop, ServerStart, DbChange
<1>3. ASSUME NEW t \in Threads, t # u, NEW q \in Names, NEW stop \in StaticLabels, StartSearch(t, q, stop)
      PROVE  tls'[u] = tls[u] /\ call'[u] = call[u] /\ found'[u] = found[u] /\ reply'[u] = reply[u]
  BY <1>3, StepFacts DEF StartSearch
<1>4. ASSUME NEW t \in Threads, t # u, Lookup(t) \/ QueryEnd(t) \/ CallStep(t)
      PROVE  tls'[u] = tls[u] /\ call'[u] = call[u] /\ found'[u] = found[u] /\ reply'[u] = reply[u]
  <2>1. call'[u] = call[u]
    BY <1>4, StepFacts DEF Lookup, QueryEnd, CallStep, FindZone, Acquire, AcquireTimeout, StillConnected,
       BackingOff, Connect, Execute, Result, QueryError, Dropped, ZoneFound, FindFailed, NextProbe, LookupDone,
       Finish
  <2>2. tls'[u] = tls[u]
    BY <1>4, StepFacts DEF Lookup, QueryEnd, CallStep, FindZone, Acquire, AcquireTimeout, StillConnected,
       BackingOff, Connect, Execute, Result, QueryError, Dropped, ZoneFound, FindFailed, NextProbe, LookupDone,
       store_rows
  <2>3. found'[u] = found[u]
    BY <1>4, StepFacts DEF Lookup, QueryEnd, CallStep, FindZone, Acquire, AcquireTimeout, StillConnected,
       BackingOff, Connect, Execute, Result, QueryError, Dropped, ZoneFound, FindFailed, NextProbe, LookupDone
  <2>4. reply'[u] = reply[u]
    BY <1>4, StepFacts DEF Lookup, QueryEnd, CallStep, FindZone, Acquire, AcquireTimeout, StillConnected,
       BackingOff, Connect, Execute, Result, QueryError, Dropped, ZoneFound, FindFailed, NextProbe, LookupDone,
       Answer, PutRows
  <2> QED BY <2>1, <2>2, <2>3, <2>4
<1>5. ASSUME NEW q \in Names, NEW stop \in StaticLabels, StartSearch(u, q, stop) PROVE ThreadInv(u)'
  BY <1>5, StartSearchInv
<1>6. ASSUME Lookup(u) \/ QueryEnd(u) \/ CallStep(u) PROVE ThreadInv(u)'
  BY <1>6, FindZoneInv, FetchInvs, ExecuteInv, ReplyArrives, ZoneFoundInv, FindFailedInv, NextProbeInv, LookupInv,
     LookupDoneInv, QueryEndInv DEF CallStep
<1> QED BY <1>1, <1>2, <1>3, <1>4, <1>5, <1>6 DEF Next

(* The inductive invariant holds at the start. *)
LEMMA InitInv == Init => IInv
<1> SUFFICES ASSUME Init PROVE IInv
  OBVIOUS
<1>1. 0 \in Time
  BY DlzAssumption DEF Time
<1>2. /\ free \in [1..Cardinality(Conns) -> Conns]
      /\ \A i, j \in 1..Cardinality(Conns) : i # j => free[i] # free[j]
      /\ Cardinality(Conns) \in Nat
  BY FS_CardinalityType, DlzAssumption DEF Init, SetToSeqs
<1>3. free \in Seq(Conns) /\ Len(free) = Cardinality(Conns)
  BY <1>2
<1>4. TypeOK
  <2>1. [last_probe |-> Nothing, owner |-> FALSE, zone |-> Nothing, rows |-> "none", filled |-> 0]
            \in ThreadState
    BY <1>1 DEF ThreadState, NameOrNone, Rows
  <2>2. 0 \in 0..(MaxTime + ReconnectWait)
    BY DlzAssumption
  <2> QED BY <1>1, <1>3, <2>1, <2>2, IdleFacts DEF Init, TypeOK
<1>5. PoolInv
  <2>1. \A t \in Threads : call[t].conn = Nothing /\ call[t].pc = "idle"
    BY IdleFacts DEF Init
  <2>2. \A c \in Conns : \E i \in 1..Len(free) : free[i] = c
    <3> DEFINE D == 1..Cardinality(Conns)
    <3>1. Cardinality(D) = Cardinality(Conns)
      <4>1. Cardinality(D) = IF 1 > Cardinality(Conns) THEN 0 ELSE Cardinality(Conns) - 1 + 1
        BY <1>2, FS_Interval
      <4> QED BY <1>2, <4>1
    <3>2. free \in Injection(D, Conns)
      BY <1>2 DEF Injection, IsInjective
    <3>3. free \in Surjection(D, Conns)
      BY <3>1, <3>2, FS_Injection, DlzAssumption
    <3> QED BY <1>3, <3>3 DEF Surjection
  <2>3. \A i \in 1..Len(free) : free[i] \in Conns /\ free[i] # Nothing
    BY <1>3, DlzAssumption DEF Nothing
  <2> QED BY <1>2, <1>3, <2>1, <2>2, <2>3 DEF PoolInv, WithConn
<1>6. HeldPast
  BY DEF Init, HeldPast, Never
<1>7. ASSUME NEW t \in Threads PROVE ThreadInv(t)
  <2>1. /\ tls[t].last_probe = Nothing /\ tls[t].owner = FALSE /\ now = 0
        /\ call[t] = IdleCall /\ found[t] = NoZone /\ reply[t] = NoReply
    BY DEF Init
  <2> QED BY <2>1, IdleFacts DEF ThreadInv, SearchInv, ResultInv, ProbeSettled, Fetching, CacheInv, FetchInv,
                                 FoundInv, ReplyInv
<1> QED BY <1>4, <1>5, <1>6, <1>7 DEF IInv

(* The inductive invariant of the module. *)
THEOREM InductiveInvariant == Spec => []IInv
<1>1. IInv /\ [Next]_vars => IInv'
  <2> SUFFICES ASSUME IInv, [Next]_vars PROVE IInv'
    OBVIOUS
  <2>1. TypeOK'
    BY TypeStep
  <2>2. PoolInv'
    BY PoolStep
  <2>3. HeldPast'
    BY <2>1, HeldStep
  <2>4. \A t \in Threads : ThreadInv(t)'
    BY <2>1, ThreadStep
  <2> QED BY <2>1, <2>2, <2>3, <2>4 DEF IInv
<1> QED BY <1>1, InitInv, PTL DEF Spec

-----------------------------------------------------------------------------
(* Type correctness of the module. *)
THEOREM TypeCorrect == Spec => []TypeOK
<1>1. IInv => TypeOK
  BY DEF IInv
<1> QED BY <1>1, InductiveInvariant, PTL

(* fetch() loses no connection and hands none out twice, on any path. *)
THEOREM PoolIsConserved == Spec => []PoolConserved
<1>1. IInv => PoolConserved
  <2> SUFFICES ASSUME IInv, NEW c \in Conns
               PROVE  Cardinality({t \in Threads : call[t].conn = c})
                        + Cardinality({i \in DOMAIN free : free[i] = c}) = 1
    BY DEF PoolConserved
  <2> DEFINE users == {t \in Threads : call[t].conn = c}
             places == {i \in DOMAIN free : free[i] = c}
  <2>1. DOMAIN free = 1..Len(free) /\ c # Nothing /\ PoolInv
    BY DlzAssumption DEF IInv, TypeOK, Nothing
  <2>2. CASE \E i \in 1..Len(free) : free[i] = c
    <3>1. PICK i \in 1..Len(free) : free[i] = c
      BY <2>2
    <3>2. users = {} /\ places = {i}
      BY <2>1, <3>1 DEF PoolInv
    <3>3. Cardinality(users) = 0 /\ Cardinality(places) = 1
      BY <3>2, FS_EmptySet, FS_Singleton
    <3> QED BY <3>3
  <2>3. CASE ~\E i \in 1..Len(free) : free[i] = c
    <3>1. PICK t \in Threads : call[t].conn = c
      BY <2>1, <2>3 DEF PoolInv
    <3>2. users = {t} /\ places = {}
      BY <2>1, <2>3, <3>1 DEF PoolInv
    <3>3. Cardinality(users) = 1 /\ Cardinality(places) = 0
      BY <3>2, FS_EmptySet, FS_Singleton
    <3> QED BY <3>3
  <2> QED BY <2>2, <2>3
<1> QED BY <1>1, InductiveInvariant, PTL

(* A child of a served name is never answered from its parent. *)
THEOREM OnlyExactNames == Spec => []ExactNameOnly
<1>1. IInv => ExactNameOnly
  BY DEF IInv, ThreadInv, FoundInv, ReplyInv, ExactNameOnly
<1> QED BY <1>1, InductiveInvariant, PTL

(* Answers are at most the cache's age and a query's round trip old when     *)
(* lookup is called.                                                         *)
THEOREM RecentAnswers == Spec => []AnswersAreRecent
<1>1. IInv => AnswersAreRecent
  <2> SUFFICES ASSUME IInv, NEW t \in Threads, reply[t].kind = "rows"
               PROVE  /\ reply[t].rows \in Answers
                      /\ HeldNow[reply[t].zone][reply[t].rows]
                           >= reply[t].at - CacheMaxAge - MaxRoundTrip
    BY DEF AnswersAreRecent
  <2>1. ReplyInv(t)
    BY DEF IInv, ThreadInv
  <2> QED BY <2>1 DEF ReplyInv
<1> QED BY <1>1, InductiveInvariant, PTL

(* A lookup that directly follows findzonedb answers what that saw, unless  *)
(* BIND's putrr refuses a row.                                              *)
THEOREM DirectLookups == Spec => []DirectLookupKeepsAnswer
<1>1. IInv => DirectLookupKeepsAnswer
  BY DEF IInv, ThreadInv, ReplyInv, DirectLookupKeepsAnswer
<1> QED BY <1>1, InductiveInvariant, PTL

(* last_probe hides a query name only behind a static zone. *)
THEOREM QueryNamesAsked == Spec => []QueryNameAsked
<1>1. IInv => QueryNameAsked
  <2> SUFFICES ASSUME IInv, NEW t \in Threads, call[t].pc = "probe", call[t].name = call[t].query,
                      cadns_is_parent_name(call[t].name, tls[t].last_probe)
               PROVE  Len(tls[t].last_probe) - 1 \in StaticLabels \ {0}
    BY DEF QueryNameAsked
  <2>1. ProbeSettled(t) /\ call[t].name \in Names
    BY DEF IInv, ThreadInv, SearchInv
  <2>2. Len(tls[t].last_probe) > Len(call[t].name) /\ Len(call[t].name) \in Nat /\ Len(call[t].name) >= 1
    BY <2>1, NameFacts DEF cadns_is_parent_name
  <2>3. Len(Nothing) = 0
    BY DEF Nothing
  <2>4. tls[t].last_probe # Nothing
    BY <2>2, <2>3
  <2>5. tls[t].last_probe \in Names /\ Len(tls[t].last_probe) - 1 \in StaticLabels
    BY <2>1, <2>4 DEF ProbeSettled
  <2>6. Len(tls[t].last_probe) \in Nat
    BY <2>5, NameFacts
  <2>7. Len(tls[t].last_probe) - 1 # 0
    <3>1. ASSUME NEW l \in Nat, NEW k \in Nat, l > k, k >= 1
          PROVE  l - 1 # 0
      BY <3>1
    <3> QED BY <2>2, <2>6, <3>1
  <2> QED BY <2>5, <2>7, Zenon
<1> QED BY <1>1, InductiveInvariant, PTL
=============================================================================
