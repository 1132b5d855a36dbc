------------------------- MODULE CarbonClientProofs -------------------------
(***************************************************************************)
(* Proofs about CarbonClient, for any number of callers and any setting of *)
(* the rate, the lifetimes, the delays and the retries.                    *)
(***************************************************************************)
EXTENDS CarbonClient, FiniteSetTheorems, SequenceTheorems, TLAPS

(* A lock's queue holds each of the callers in P once. *)
IsQueueOf(q, P) ==
    /\ q \in Seq(Callers)
    /\ \A i, j \in 1..Len(q) : q[i] = q[j] => i = j
    /\ \A i \in 1..Len(q) : q[i] \in P
    /\ \A c \in P : \E i \in 1..Len(q) : q[i] = c

LoggingIn == {"login", "loginPace", "loggingIn"}
Waiting == {c \in Callers : call[c].pc \in LoggingIn}
Paced == {c \in Callers : call[c].pc \in {"loginPace", "pace"}}

(* The two locks; behind the login lock there is one login at a time, and  *)
(* it goes on only while there is no usable token.                         *)
LockInv ==
    /\ IsQueueOf(logins, Waiting) /\ IsQueueOf(pacing, Paced)
    /\ sleeping => pacing # <<>>
    /\ \A c \in Callers : call[c].pc \in {"loginPace", "loggingIn"} =>
          logins # <<>> /\ Head(logins) = c /\ token.left = 0

(* The next slot is an interval after the last one, which the last request *)
(* missed by no more than one oversleep.                                   *)
SpacingInv ==
    /\ slot + since >= Interval - MaxOversleep
    /\ gaps[1] + slot + since >= 2 * Interval - MaxOversleep

(* How long until the i-th in the limiter's queue has had its turn. *)
Wait(i) == (i - 1) * Turn + (IF sleeping \/ slot > 0 THEN slot ELSE 0) + MaxOversleep

MaxSentAge == Lifetime + MaxLatency - 1 + QueueDelay

AgeInv ==
    /\ token.left > 0 => token.age + token.left <= Lifetime + MaxLatency
    /\ \A c \in Callers : call[c].pc = "loggingIn" => call[c].age + call[c].left <= MaxLatency
    /\ \A i \in 1..Len(pacing) :
          call[pacing[i]].pc = "pace" => call[pacing[i]].age + Wait(i) <= MaxSentAge
    /\ \A c \in Callers : call[c].pc = "sent" => call[c].age <= MaxSentAge

IInv == TypeOK /\ LockInv /\ SpacingInv /\ RequestsSpaced /\ AgeInv

-----------------------------------------------------------------------------
(* Constants are numbers. *)
LEMMA Numbers ==
  /\ Interval \in Nat /\ Interval >= 1 /\ MaxOversleep \in Nat /\ MaxLatency \in Nat
  /\ Lifetime \in Nat /\ Lifetime >= 1 /\ ServerLifetime \in Nat /\ MaxRetries \in Nat
  /\ Turn \in Nat /\ Turn >= Interval /\ Turn >= MaxOversleep
  /\ MaxAge = ServerLifetime + 1 /\ MaxGap = 2 * Interval /\ Cardinality(Callers) \in Nat
<1>1. Cardinality(Callers) \in Nat
  BY ClientAssumption, FS_CardinalityType
<1> QED BY <1>1, ClientAssumption DEF Turn, MaxAge, MaxGap, Kept

(* Joining a queue, at its end. *)
LEMMA QueueAppend ==
  ASSUME NEW q, NEW P, IsQueueOf(q, P), NEW c \in Callers, c \notin P
  PROVE  /\ IsQueueOf(Append(q, c), P \union {c}) /\ Append(q, c) # <<>>
         /\ Len(q) \in Nat /\ Len(Append(q, c)) = Len(q) + 1 /\ Append(q, c)[Len(q) + 1] = c
         /\ \A i \in 1..Len(q) : Append(q, c)[i] = q[i]
         /\ q # <<>> => Head(Append(q, c)) = Head(q)
         /\ q = <<>> => Head(Append(q, c)) = c
<1>1. q \in Seq(Callers) /\ Len(q) \in Nat
  BY DEF IsQueueOf
<1> DEFINE r == Append(q, c)
<1>2. /\ r \in Seq(Callers) /\ Len(r) = Len(q) + 1 /\ r[Len(q) + 1] = c /\ r # <<>>
      /\ \A i \in 1..Len(q) : r[i] = q[i]
  BY <1>1
<1>3. Head(r) = r[1] /\ (q # <<>> => Head(q) = q[1] /\ Len(q) >= 1) /\ (q = <<>> => Len(q) = 0)
  BY <1>1, <1>2
<1> HIDE DEF r
<1>4. 1..Len(r) = (1..Len(q)) \union {Len(q) + 1}
  BY <1>1, <1>2
<1>5. \A i \in 1..Len(r) : r[i] \in P \union {c}
  BY <1>2, <1>4 DEF IsQueueOf
<1>6. ASSUME NEW d \in P \union {c}
      PROVE  \E i \in 1..Len(r) : r[i] = d
  <2>1. CASE d = c
    BY <1>2, <1>4, <2>1
  <2>2. CASE d \in P
    <3>1. PICK i \in 1..Len(q) : q[i] = d
      BY <2>2 DEF IsQueueOf
    <3> QED BY <1>2, <1>4, <3>1
  <2> QED BY <2>1, <2>2
<1>7. ASSUME NEW i \in 1..Len(r), NEW j \in 1..Len(r), r[i] = r[j]
      PROVE  i = j
  <2>1. \A k \in 1..Len(q) : q[k] \in P /\ q[k] # c /\ k # Len(q) + 1
    BY <1>1 DEF IsQueueOf
  <2> QED BY <1>2, <1>4, <1>7, <2>1 DEF IsQueueOf
<1>8. IsQueueOf(r, P \union {c})
  BY <1>2, <1>5, <1>6, <1>7 DEF IsQueueOf
<1>9. /\ q # <<>> => Head(r) = Head(q)
      /\ q = <<>> => Head(r) = c
  BY <1>1, <1>2, <1>3
<1> QED BY <1>1, <1>2, <1>8, <1>9 DEF r

(* Leaving a queue, at its head. *)
LEMMA QueueTail ==
  ASSUME NEW q, NEW P, IsQueueOf(q, P), q # <<>>
  PROVE  /\ IsQueueOf(Tail(q), P \ {Head(q)}) /\ Head(q) \in P /\ Head(q) \in Callers
         /\ Head(q) = q[1] /\ Len(q) \in Nat /\ Len(q) >= 1 /\ Len(Tail(q)) = Len(q) - 1
         /\ \A i \in 1..Len(Tail(q)) : Tail(q)[i] = q[i + 1] /\ i + 1 \in 1..Len(q)
<1>1. q \in Seq(Callers) /\ Len(q) \in Nat /\ Len(q) >= 1
  BY DEF IsQueueOf
<1> DEFINE r == Tail(q)
<1>2. /\ r \in Seq(Callers) /\ Len(r) = Len(q) - 1 /\ Head(q) = q[1]
      /\ \A i \in 1..Len(r) : r[i] = q[i + 1]
  BY <1>1
<1>3. \A i \in 1..Len(r) : i + 1 \in 1..Len(q) /\ i + 1 # 1
  BY <1>1, <1>2
<1>4. 1 \in 1..Len(q)
  BY <1>1
<1> HIDE DEF r
<1>5. Head(q) \in P /\ Head(q) \in Callers
  <2>1. q[1] \in Callers
    BY <1>1, <1>4
  <2> QED BY <1>2, <1>4, <2>1 DEF IsQueueOf
<1>6. \A i \in 1..Len(r) : r[i] \in P \ {Head(q)}
  BY <1>2, <1>3, <1>4 DEF IsQueueOf
<1>7. ASSUME NEW d \in P \ {Head(q)}
      PROVE  \E i \in 1..Len(r) : r[i] = d
  <2>1. PICK i \in 1..Len(q) : q[i] = d
    BY DEF IsQueueOf
  <2>2. i # 1
    BY <1>2, <2>1
  <2>3. i - 1 \in 1..Len(r) /\ (i - 1) + 1 = i
    BY <1>1, <1>2, <2>2
  <2>4. r[i - 1] = d
    BY <1>2, <2>1, <2>3
  <2> QED BY <2>3, <2>4
<1>8. ASSUME NEW i \in 1..Len(r), NEW j \in 1..Len(r), r[i] = r[j]
      PROVE  i = j
  <2>1. i + 1 = j + 1
    BY <1>2, <1>3, <1>8 DEF IsQueueOf
  <2> QED BY <2>1
<1>9. IsQueueOf(r, P \ {Head(q)})
  BY <1>2, <1>6, <1>7, <1>8 DEF IsQueueOf
<1> QED BY <1>1, <1>2, <1>3, <1>5, <1>9 DEF r

(* A queue is no longer than there are callers. *)
LEMMA QueueLength ==
  ASSUME NEW q, NEW P, IsQueueOf(q, P)
  PROVE  Len(q) \in Nat /\ Len(q) <= Cardinality(Callers)
<1>1. q \in [1..Len(q) -> Callers] /\ Len(q) \in Nat
  BY DEF IsQueueOf
<1>2. q \in Injection(1..Len(q), Callers)
  BY <1>1 DEF Injection, IsInjective, IsQueueOf
<1>3. IsFiniteSet(Callers)
  BY ClientAssumption
<1>4. Cardinality(1..Len(q)) <= Cardinality(Callers)
  BY <1>2, <1>3, FS_Injection
<1>5. Cardinality(1..Len(q)) = Len(q)
  <2>1. 1 \in Int /\ Len(q) \in Int
    BY <1>1
  <2>2. Cardinality(1..Len(q)) = IF 1 > Len(q) THEN 0 ELSE Len(q) - 1 + 1
    BY <2>1, FS_Interval
  <2> QED BY <1>1, <2>2
<1> QED BY <1>1, <1>4, <1>5

-----------------------------------------------------------------------------
(* One caller goes on: what that means for the sets of waiting callers. *)
LEMMA OneCall ==
  ASSUME TypeOK, NEW c \in Callers, NEW u \in Calls, call' = [call EXCEPT ![c] = u]
  PROVE  /\ call' \in [Callers -> Calls] /\ call'[c] = u
         /\ \A d \in Callers \ {c} : call'[d] = call[d]
         /\ Waiting' = IF u.pc \in LoggingIn THEN Waiting \union {c} ELSE Waiting \ {c}
         /\ Paced' = IF u.pc \in {"loginPace", "pace"} THEN Paced \union {c} ELSE Paced \ {c}
<1>1. /\ call' \in [Callers -> Calls] /\ call'[c] = u
      /\ \A d \in Callers \ {c} : call'[d] = call[d]
  BY DEF TypeOK
<1>2. Waiting' = IF u.pc \in LoggingIn THEN Waiting \union {c} ELSE Waiting \ {c}
  BY <1>1 DEF Waiting
<1>3. Paced' = IF u.pc \in {"loginPace", "pace"} THEN Paced \union {c} ELSE Paced \ {c}
  BY <1>1 DEF Paced
<1> QED BY <1>1, <1>2, <1>3

(* Steps that send nothing and take no time keep the spacing. *)
LEMMA SpacingKept ==
  ASSUME SpacingInv, RequestsSpaced, UNCHANGED <<slot, since, gaps>>
  PROVE  SpacingInv' /\ RequestsSpaced'
BY DEF SpacingInv, RequestsSpaced

(* One limit for everything a caller may have waited for. *)
LEMMA WaitBound ==
  ASSUME TypeOK, NEW i \in Nat, i >= 1, i <= Cardinality(Callers),
         NEW age \in Nat, age <= Lifetime + MaxLatency - 1
  PROVE  Wait(i) \in Int /\ QueueDelay \in Int /\ age + Wait(i) <= MaxSentAge
<1> DEFINE n == Cardinality(Callers)
<1>1. n \in Nat
  BY Numbers
<1> HIDE DEF n
<1>2. ASSUME NEW m \in Nat, i <= m, NEW T \in Nat
      PROVE  (i - 1) * T \in Int /\ (m - 1) * T \in Int /\ (i - 1) * T <= (m - 1) * T
  BY <1>2
<1>3. (i - 1) * Turn \in Int /\ (n - 1) * Turn \in Int /\ (i - 1) * Turn <= (n - 1) * Turn
  BY <1>1, <1>2, Numbers DEF n
<1> DEFINE a == (i - 1) * Turn
           b == (n - 1) * Turn
           s == IF sleeping \/ slot > 0 THEN slot ELSE 0
<1>4. s \in Int /\ s <= Interval
  BY Numbers DEF TypeOK
<1>5. Wait(i) = a + s + MaxOversleep /\ QueueDelay = b + Interval + MaxOversleep
  BY DEF Wait, QueueDelay, n
<1>6. a \in Int /\ b \in Int /\ a <= b
  BY <1>3
<1> HIDE DEF a, b, s
<1> QED BY <1>4, <1>5, <1>6, Numbers DEF MaxSentAge

(* Steps of a caller that is in neither queue and sends nothing. *)
LEMMA ApartInv ==
  ASSUME IInv, NEW c \in Callers, NEW u \in Calls, call' = [call EXCEPT ![c] = u],
         call[c].pc \in {"idle", "sent", "backoff"}, u.pc \in {"idle", "backoff"},
         token' = token \/ token' = NoToken,
         UNCHANGED <<slot, sleeping, pacing, logins, since, gaps>>
  PROVE  IInv'
<1>1. /\ call' \in [Callers -> Calls] /\ call'[c] = u
      /\ \A d \in Callers \ {c} : call'[d] = call[d]
      /\ Waiting' = Waiting \ {c} /\ Paced' = Paced \ {c}
  BY OneCall DEF IInv, LoggingIn
<1>2. Waiting' = Waiting /\ Paced' = Paced
  BY <1>1 DEF Waiting, Paced, LoggingIn
<1>3. NoToken \in [age : 0..MaxAge, left : 0..Lifetime] /\ NoToken.left = 0
  BY Numbers DEF NoToken
<1>4. TypeOK'
  BY <1>1, <1>3 DEF IInv, TypeOK
<1>5. LockInv'
  BY <1>1, <1>2, <1>3 DEF IInv, LockInv
<1>6. SpacingInv' /\ RequestsSpaced'
  BY SpacingKept DEF IInv
<1>7. AgeInv'
  <2>1. \A i : Wait(i)' = Wait(i)
    BY DEF Wait
  <2>2. \A i \in 1..Len(pacing) : pacing[i] \in Callers \ {c}
    BY DEF IInv, LockInv, IsQueueOf, Paced
  <2>3. \A i \in 1..Len(pacing) : call'[pacing[i]] = call[pacing[i]]
    BY <1>1, <2>2
  <2>4. \A d \in Callers : call'[d].pc \in {"loggingIn", "sent"} => call'[d] = call[d]
    BY <1>1
  <2>5. token'.left > 0 => token' = token
    BY <1>3
  <2> QED BY <2>1, <2>3, <2>4, <2>5 DEF IInv, AgeInv
<1> QED BY <1>4, <1>5, <1>6, <1>7 DEF IInv

(* A caller asks for a token: it joins the login lock's queue. *)
LEMMA JoinLoginInv ==
  ASSUME IInv, NEW c \in Callers, NEW u \in Calls, call' = [call EXCEPT ![c] = u],
         call[c].pc \in {"idle", "sent", "backoff"}, u.pc = "login",
         token' = token \/ token' = NoToken, logins' = Append(logins, c),
         UNCHANGED <<slot, sleeping, pacing, since, gaps>>
  PROVE  IInv'
<1>1. /\ call' \in [Callers -> Calls] /\ call'[c] = u
      /\ \A d \in Callers \ {c} : call'[d] = call[d]
      /\ Waiting' = Waiting \union {c} /\ Paced' = Paced \ {c}
  BY OneCall DEF IInv, LoggingIn
<1>2. c \notin Waiting /\ Paced' = Paced
  BY <1>1 DEF Waiting, Paced, LoggingIn
<1>3. NoToken \in [age : 0..MaxAge, left : 0..Lifetime] /\ NoToken.left = 0
  BY Numbers DEF NoToken
<1>4. /\ IsQueueOf(logins', Waiting') /\ logins' # <<>>
      /\ logins # <<>> => Head(logins') = Head(logins)
  BY <1>1, <1>2, QueueAppend DEF IInv, LockInv
<1>5. TypeOK'
  <2>1. logins' \in Seq(Callers)
    BY <1>4 DEF IsQueueOf
  <2> QED BY <1>1, <1>3, <2>1 DEF IInv, TypeOK
<1>6. LockInv'
  <2>1. \A d \in Callers : call'[d].pc \in {"loginPace", "loggingIn"} =>
           logins' # <<>> /\ Head(logins') = d /\ token'.left = 0
    BY <1>1, <1>3, <1>4 DEF IInv, LockInv
  <2> QED BY <1>2, <1>4, <2>1 DEF IInv, LockInv
<1>7. SpacingInv' /\ RequestsSpaced'
  BY SpacingKept DEF IInv
<1>8. AgeInv'
  <2>1. \A i : Wait(i)' = Wait(i)
    BY DEF Wait
  <2>2. \A i \in 1..Len(pacing) : pacing[i] \in Callers \ {c}
    BY DEF IInv, LockInv, IsQueueOf, Paced
  <2>3. \A i \in 1..Len(pacing) : call'[pacing[i]] = call[pacing[i]]
    BY <1>1, <2>2
  <2>4. \A d \in Callers : call'[d].pc \in {"loggingIn", "sent"} => call'[d] = call[d]
    BY <1>1
  <2>5. token'.left > 0 => token' = token
    BY <1>3
  <2> QED BY <2>1, <2>3, <2>4, <2>5 DEF IInv, AgeInv
<1> QED BY <1>5, <1>6, <1>7, <1>8 DEF IInv

(* The limiter's queue with a new caller at its end. *)
LEMMA JoinPacing ==
  ASSUME IInv, NEW c \in Callers, NEW u \in Calls, call' = [call EXCEPT ![c] = u],
         call[c].pc \in {"login", "loggingIn"}, u.pc \in {"loginPace", "pace"},
         u.pc = "pace" => u.age <= Lifetime + MaxLatency - 1,
         pacing' = Append(pacing, c), UNCHANGED <<slot, sleeping>>
  PROVE  /\ IsQueueOf(pacing', Paced') /\ pacing' # <<>>
         /\ \A i \in 1..Len(pacing') :
               call'[pacing'[i]].pc = "pace" => call'[pacing'[i]].age + Wait(i)' <= MaxSentAge
<1>1. /\ call'[c] = u /\ \A d \in Callers \ {c} : call'[d] = call[d]
      /\ Paced' = Paced \union {c} /\ c \notin Paced
  BY OneCall DEF IInv, Paced
<1>2. /\ IsQueueOf(pacing', Paced') /\ pacing' # <<>> /\ Len(pacing) \in Nat
      /\ Len(pacing') = Len(pacing) + 1 /\ pacing'[Len(pacing) + 1] = c
      /\ \A i \in 1..Len(pacing) : pacing'[i] = pacing[i]
  BY <1>1, QueueAppend DEF IInv, LockInv
<1>3. Len(pacing) + 1 <= Cardinality(Callers)
  BY <1>2, QueueLength
<1>4. \A i : Wait(i)' = Wait(i)
  BY DEF Wait
<1>5. ASSUME NEW i \in 1..Len(pacing'), call'[pacing'[i]].pc = "pace"
      PROVE  call'[pacing'[i]].age + Wait(i)' <= MaxSentAge
  <2>1. CASE i = Len(pacing) + 1
    <3>1. u.age \in Nat
      BY Numbers DEF Calls
    <3>2. u.age + Wait(i) <= MaxSentAge
      BY <1>1, <1>2, <1>3, <1>5, <2>1, <3>1, WaitBound DEF IInv
    <3> QED BY <1>1, <1>2, <1>4, <2>1, <3>2
  <2>2. CASE i \in 1..Len(pacing)
    <3>1. pacing[i] \in Callers \ {c} /\ pacing'[i] = pacing[i]
      BY <1>1, <1>2, <2>2 DEF IInv, LockInv, IsQueueOf, Paced
    <3>2. call'[pacing'[i]] = call[pacing[i]]
      BY <1>1, <3>1
    <3> QED BY <1>4, <1>5, <2>2, <3>2 DEF IInv, AgeInv
  <2> QED BY <1>2, <2>1, <2>2
<1> QED BY <1>2, <1>5

(* _login finds a usable token. *)
LEMMA UseTokenInv ==
  ASSUME IInv, NEW c \in Callers, UseToken(c)
  PROVE  IInv'
<1> DEFINE u == [call[c] EXCEPT !.pc = "pace", !.age = token.age]
<1>1. /\ logins # <<>> /\ Head(logins) = c /\ call[c].pc = "login" /\ token.left > 0
      /\ logins' = Tail(logins) /\ pacing' = Append(pacing, c)
      /\ UNCHANGED <<slot, sleeping, token, since, gaps>>
  BY DEF UseToken, TokenUsable
<1>2. token.age \in 0..MaxAge /\ token.left \in 0..Lifetime /\ call[c] \in Calls
  BY DEF IInv, TypeOK
<1>3. u \in Calls /\ u.pc = "pace" /\ u.age = token.age
  BY <1>2 DEF Calls
<1>4. call' = [call EXCEPT ![c] = u]
  BY DEF UseToken, IInv, TypeOK
<1> HIDE DEF u
<1>5. u.age <= Lifetime + MaxLatency - 1
  BY <1>1, <1>2, <1>3, Numbers DEF IInv, AgeInv
<1>6. /\ call' \in [Callers -> Calls] /\ call'[c] = u
      /\ \A d \in Callers \ {c} : call'[d] = call[d]
      /\ Waiting' = Waiting \ {c}
  BY <1>3, <1>4, OneCall DEF IInv, LoggingIn
<1>7. /\ IsQueueOf(pacing', Paced') /\ pacing' # <<>>
      /\ \A i \in 1..Len(pacing') :
            call'[pacing'[i]].pc = "pace" => call'[pacing'[i]].age + Wait(i)' <= MaxSentAge
  BY <1>1, <1>3, <1>4, <1>5, JoinPacing
<1>8. IsQueueOf(logins', Waiting')
  BY <1>1, <1>6, QueueTail DEF IInv, LockInv
<1>9. TypeOK'
  <2>1. logins' \in Seq(Callers) /\ pacing' \in Seq(Callers)
    BY <1>7, <1>8 DEF IsQueueOf
  <2> QED BY <1>1, <1>6, <2>1 DEF IInv, TypeOK
<1>10. LockInv'
  <2>1. \A d \in Callers : call'[d].pc \notin {"loginPace", "loggingIn"}
    BY <1>1, <1>2, <1>3, <1>6 DEF IInv, LockInv
  <2> QED BY <1>7, <1>8, <2>1 DEF LockInv
<1>11. SpacingInv' /\ RequestsSpaced'
  BY <1>1, SpacingKept DEF IInv
<1>12. AgeInv'
  <2>1. \A d \in Callers : call'[d].pc \in {"loggingIn", "sent"} => call'[d] = call[d]
    BY <1>3, <1>6
  <2> QED BY <1>1, <1>7, <2>1 DEF IInv, AgeInv
<1> QED BY <1>9, <1>10, <1>11, <1>12 DEF IInv

(* _login finds none: the caller goes to log in, still holding the lock. *)
LEMMA BeginLoginInv ==
  ASSUME IInv, NEW c \in Callers, BeginLogin(c)
  PROVE  IInv'
<1> DEFINE u == [call[c] EXCEPT !.pc = "loginPace"]
<1>1. /\ logins # <<>> /\ Head(logins) = c /\ call[c].pc = "login" /\ ~(token.left > 0)
      /\ pacing' = Append(pacing, c)
      /\ UNCHANGED <<slot, sleeping, logins, token, since, gaps>>
  BY DEF BeginLogin, TokenUsable
<1>2. token.left \in 0..Lifetime /\ call[c] \in Calls
  BY DEF IInv, TypeOK
<1>3. token.left = 0
  BY <1>1, <1>2, Numbers
<1>4. u \in Calls /\ u.pc = "loginPace"
  BY <1>2 DEF Calls
<1>5. call' = [call EXCEPT ![c] = u]
  BY DEF BeginLogin, IInv, TypeOK
<1> HIDE DEF u
<1>6. /\ call' \in [Callers -> Calls] /\ call'[c] = u
      /\ \A d \in Callers \ {c} : call'[d] = call[d]
      /\ Waiting' = Waiting \union {c} /\ c \in Waiting
  BY <1>1, <1>4, <1>5, OneCall DEF IInv, LoggingIn, Waiting
<1>7. /\ IsQueueOf(pacing', Paced') /\ pacing' # <<>>
      /\ \A i \in 1..Len(pacing') :
            call'[pacing'[i]].pc = "pace" => call'[pacing'[i]].age + Wait(i)' <= MaxSentAge
  BY <1>1, <1>4, <1>5, JoinPacing
<1>8. Waiting' = Waiting
  BY <1>6
<1>9. TypeOK'
  <2>1. pacing' \in Seq(Callers)
    BY <1>7 DEF IsQueueOf
  <2> QED BY <1>1, <1>6, <2>1 DEF IInv, TypeOK
<1>10. LockInv'
  <2>1. \A d \in Callers : call'[d].pc \in {"loginPace", "loggingIn"} =>
           logins' # <<>> /\ Head(logins') = d /\ token'.left = 0
    BY <1>1, <1>3, <1>6 DEF IInv, LockInv
  <2> QED BY <1>1, <1>7, <1>8, <2>1 DEF IInv, LockInv
<1>11. SpacingInv' /\ RequestsSpaced'
  BY <1>1, SpacingKept DEF IInv
<1>12. AgeInv'
  <2>1. \A d \in Callers : call'[d].pc \in {"loggingIn", "sent"} => call'[d] = call[d]
    BY <1>4, <1>6
  <2> QED BY <1>1, <1>7, <2>1 DEF IInv, AgeInv
<1> QED BY <1>9, <1>10, <1>11, <1>12 DEF IInv

(* The one who logs in is at the head of the lock's queue, alone. *)
LEMMA AloneAtLogin ==
  ASSUME IInv, NEW c \in Callers, call[c].pc = "loggingIn"
  PROVE  /\ logins # <<>> /\ Head(logins) = c /\ token.left = 0
         /\ \A d \in Callers \ {c} : call[d].pc \notin {"loginPace", "loggingIn"}
         /\ call[c].age \in Nat /\ call[c].left \in Nat /\ call[c].age + call[c].left <= MaxLatency
<1>1. call[c] \in Calls
  BY DEF IInv, TypeOK
<1>2. call[c].age \in Nat /\ call[c].left \in Nat
  BY <1>1, Numbers DEF Calls
<1> QED BY <1>2 DEF IInv, LockInv, AgeInv

(* The login succeeds: the token is as old as the request at most. *)
LEMMA LoggedInInv ==
  ASSUME IInv, NEW c \in Callers, LoggedIn(c)
  PROVE  IInv'
<1> DEFINE u == [call[c] EXCEPT !.pc = "pace"]
<1>1. /\ call[c].pc = "loggingIn" /\ token' = [age |-> call[c].age, left |-> Lifetime]
      /\ logins' = Tail(logins) /\ pacing' = Append(pacing, c)
      /\ UNCHANGED <<slot, sleeping, since, gaps>>
  BY DEF LoggedIn
<1>2. /\ logins # <<>> /\ Head(logins) = c
      /\ \A d \in Callers \ {c} : call[d].pc \notin {"loginPace", "loggingIn"}
      /\ call[c].age \in Nat /\ call[c].left \in Nat /\ call[c].age + call[c].left <= MaxLatency
  BY <1>1, AloneAtLogin
<1>3. call[c] \in Calls
  BY DEF IInv, TypeOK
<1>4. u \in Calls /\ u.pc = "pace" /\ u.age = call[c].age
  BY <1>3 DEF Calls
<1>5. call' = [call EXCEPT ![c] = u]
  BY DEF LoggedIn, IInv, TypeOK
<1> HIDE DEF u
<1>6. u.age <= MaxLatency /\ u.age <= Lifetime + MaxLatency - 1
  BY <1>2, <1>4, Numbers
<1>7. /\ call' \in [Callers -> Calls] /\ call'[c] = u
      /\ \A d \in Callers \ {c} : call'[d] = call[d]
      /\ Waiting' = Waiting \ {c}
  BY <1>4, <1>5, OneCall DEF IInv, LoggingIn
<1>8. /\ IsQueueOf(pacing', Paced') /\ pacing' # <<>>
      /\ \A i \in 1..Len(pacing') :
            call'[pacing'[i]].pc = "pace" => call'[pacing'[i]].age + Wait(i)' <= MaxSentAge
  BY <1>1, <1>4, <1>5, <1>6, JoinPacing
<1>9. IsQueueOf(logins', Waiting')
  BY <1>1, <1>2, <1>7, QueueTail DEF IInv, LockInv
<1>10. /\ token'.age = call[c].age /\ token'.left = Lifetime
       /\ token' \in [age : 0..MaxAge, left : 0..Lifetime]
  <2>1. call[c].age \in 0..MaxAge /\ Lifetime \in 0..Lifetime
    BY <1>3, Numbers DEF Calls
  <2> QED BY <1>1, <2>1
<1>11. TypeOK'
  <2>1. logins' \in Seq(Callers) /\ pacing' \in Seq(Callers)
    BY <1>8, <1>9 DEF IsQueueOf
  <2> QED BY <1>1, <1>7, <1>10, <2>1 DEF IInv, TypeOK
<1>12. LockInv'
  <2>1. \A d \in Callers : call'[d].pc \notin {"loginPace", "loggingIn"}
    BY <1>2, <1>4, <1>7
  <2> QED BY <1>8, <1>9, <2>1 DEF LockInv
<1>13. SpacingInv' /\ RequestsSpaced'
  BY <1>1, SpacingKept DEF IInv
<1>14. AgeInv'
  <2>1. \A d \in Callers : call'[d].pc \in {"loggingIn", "sent"} => call'[d] = call[d]
    BY <1>4, <1>7
  <2>2. token'.age + token'.left <= Lifetime + MaxLatency
    BY <1>2, <1>4, <1>6, <1>10, Numbers
  <2> QED BY <1>8, <2>1, <2>2 DEF IInv, AgeInv
<1> QED BY <1>11, <1>12, <1>13, <1>14 DEF IInv

(* The login fails, and the call with it. *)
LEMMA LoginFailedInv ==
  ASSUME IInv, NEW c \in Callers, LoginFailed(c)
  PROVE  IInv'
<1>1. /\ call[c].pc = "loggingIn" /\ call' = [call EXCEPT ![c] = Idle]
      /\ logins' = Tail(logins) /\ UNCHANGED <<slot, sleeping, pacing, token, since, gaps>>
  BY DEF LoginFailed
<1>2. /\ logins # <<>> /\ Head(logins) = c
      /\ \A d \in Callers \ {c} : call[d].pc \notin {"loginPace", "loggingIn"}
  BY <1>1, AloneAtLogin
<1>3. Idle \in Calls /\ Idle.pc = "idle"
  BY Numbers DEF Idle, Calls
<1>4. /\ call' \in [Callers -> Calls] /\ call'[c] = Idle
      /\ \A d \in Callers \ {c} : call'[d] = call[d]
      /\ Waiting' = Waiting \ {c} /\ Paced' = Paced \ {c}
  BY <1>1, <1>3, OneCall DEF IInv, LoggingIn
<1>5. Paced' = Paced
  BY <1>1, <1>4 DEF Paced
<1>6. IsQueueOf(logins', Waiting')
  BY <1>1, <1>2, <1>4, QueueTail DEF IInv, LockInv
<1>7. TypeOK'
  <2>1. logins' \in Seq(Callers)
    BY <1>6 DEF IsQueueOf
  <2> QED BY <1>1, <1>4, <2>1 DEF IInv, TypeOK
<1>8. LockInv'
  <2>1. \A d \in Callers : call'[d].pc \notin {"loginPace", "loggingIn"}
    BY <1>2, <1>3, <1>4
  <2> QED BY <1>1, <1>5, <1>6, <2>1 DEF IInv, LockInv
<1>9. SpacingInv' /\ RequestsSpaced'
  BY <1>1, SpacingKept DEF IInv
<1>10. AgeInv'
  <2>1. \A i : Wait(i)' = Wait(i)
    BY <1>1 DEF Wait
  <2>2. \A i \in 1..Len(pacing) : pacing[i] \in Callers \ {c}
    BY <1>1 DEF IInv, LockInv, IsQueueOf, Paced
  <2>3. \A i \in 1..Len(pacing) : call'[pacing[i]] = call[pacing[i]]
    BY <1>4, <2>2
  <2>4. \A d \in Callers : call'[d].pc \in {"loggingIn", "sent"} => call'[d] = call[d]
    BY <1>3, <1>4
  <2> QED BY <1>1, <2>1, <2>3, <2>4 DEF IInv, AgeInv
<1> QED BY <1>7, <1>8, <1>9, <1>10 DEF IInv

(* The limiter goes to sleep before its slot. *)
LEMMA BeginSleepInv ==
  ASSUME IInv, BeginSleep
  PROVE  IInv'
<1>1. /\ pacing # <<>> /\ slot > 0 /\ sleeping' = TRUE
      /\ UNCHANGED <<slot, pacing, logins, token, call, since, gaps>>
  BY DEF BeginSleep
<1>2. TypeOK'
  BY <1>1 DEF IInv, TypeOK
<1>3. LockInv'
  <2>1. Waiting' = Waiting /\ Paced' = Paced
    BY <1>1 DEF Waiting, Paced
  <2> QED BY <1>1, <2>1 DEF IInv, LockInv
<1>4. SpacingInv' /\ RequestsSpaced'
  BY <1>1, SpacingKept DEF IInv
<1>5. AgeInv'
  <2>1. \A i : Wait(i)' = Wait(i)
    BY <1>1 DEF Wait
  <2> QED BY <1>1, <2>1 DEF IInv, AgeInv
<1> QED BY <1>2, <1>3, <1>4, <1>5 DEF IInv

(* Everyone behind the one who sends moves up by at least a turn. *)
LEMMA WaitShrinks ==
  ASSUME TypeOK, NEW i \in Nat, i >= 1, slot <= 0,
         slot' = NextSlot, sleeping' = FALSE
  PROVE  Wait(i)' \in Int /\ Wait(i + 1) \in Int /\ Wait(i)' <= Wait(i + 1)
<1> DEFINE s == IF sleeping \/ slot > 0 THEN slot ELSE 0
           z == IF slot' > 0 THEN slot' ELSE 0
<1>1. slot \in Int /\ slot >= -MaxOversleep /\ slot <= Interval /\ sleeping \in BOOLEAN
  BY Numbers DEF TypeOK
<1>2. slot' = IF sleeping THEN slot + Interval ELSE Interval
  BY DEF NextSlot
<1>3. s \in Int /\ z \in Int /\ z <= s + Turn
  BY <1>1, <1>2, Numbers
<1>4. ASSUME NEW T \in Nat
      PROVE  (i - 1) * T \in Int /\ ((i + 1) - 1) * T = (i - 1) * T + T
  BY <1>4
<1> DEFINE a == (i - 1) * Turn
<1>5. a \in Int /\ ((i + 1) - 1) * Turn = a + Turn /\ Turn \in Nat
  BY <1>4, Numbers
<1>6. Wait(i)' = a + z + MaxOversleep
  BY DEF Wait, Turn
<1>7. Wait(i + 1) = ((i + 1) - 1) * Turn + s + MaxOversleep
  BY DEF Wait
<1> HIDE DEF a, s, z
<1> QED BY <1>3, <1>5, <1>6, <1>7, Numbers

(* A request or a login is sent. *)
LEMMA SendInv ==
  ASSUME IInv, Send
  PROVE  IInv'
<1> DEFINE h == Head(pacing)
           u == IF call[h].pc = "loginPace"
                THEN [call[h] EXCEPT !.pc = "loggingIn", !.age = 0, !.left = MaxLatency]
                ELSE [call[h] EXCEPT !.pc = "sent"]
<1>1. /\ pacing # <<>> /\ slot <= 0 /\ slot' = NextSlot /\ sleeping' = FALSE
      /\ pacing' = Tail(pacing) /\ since' = 0
      /\ gaps' = [i \in 1..Kept |-> IF i = 1 THEN since ELSE gaps[i - 1]]
      /\ UNCHANGED <<logins, token>>
  BY DEF Send
<1>2. /\ IsQueueOf(pacing', Paced \ {h}) /\ h \in Paced /\ h \in Callers /\ h = pacing[1]
      /\ Len(pacing) \in Nat /\ Len(pacing) >= 1 /\ Len(pacing') = Len(pacing) - 1
      /\ \A i \in 1..Len(pacing') : pacing'[i] = pacing[i + 1] /\ i + 1 \in 1..Len(pacing)
  BY <1>1, QueueTail DEF IInv, LockInv
<1>3. call' = [call EXCEPT ![h] = u]
  BY DEF Send
<1> HIDE DEF h
<1>4. call[h] \in Calls /\ call[h].pc \in {"loginPace", "pace"}
  BY <1>2 DEF IInv, TypeOK, Paced
<1>5. /\ u \in Calls
      /\ call[h].pc = "loginPace" => u.pc = "loggingIn" /\ u.age = 0 /\ u.left = MaxLatency
      /\ call[h].pc = "pace" => u.pc = "sent" /\ u.age = call[h].age
  <2>1. 0 \in 0..MaxAge /\ MaxLatency \in Nat
    BY Numbers
  <2>2. CASE call[h].pc = "loginPace"
    <3>1. u = [call[h] EXCEPT !.pc = "loggingIn", !.age = 0, !.left = MaxLatency]
      BY <2>2
    <3> HIDE DEF u
    <3> QED BY <1>4, <2>1, <2>2, <3>1 DEF Calls
  <2>3. CASE call[h].pc = "pace"
    <3>1. u = [call[h] EXCEPT !.pc = "sent"]
      BY <2>3
    <3> HIDE DEF u
    <3> QED BY <1>4, <2>3, <3>1 DEF Calls
  <2> QED BY <1>4, <2>2, <2>3
<1> HIDE DEF u
<1>6. u.pc \in {"loggingIn", "sent"}
  BY <1>4, <1>5
<1>7. /\ call' \in [Callers -> Calls] /\ call'[h] = u
      /\ \A d \in Callers \ {h} : call'[d] = call[d]
      /\ Waiting' = IF u.pc \in LoggingIn THEN Waiting \union {h} ELSE Waiting \ {h}
      /\ Paced' = Paced \ {h}
  BY <1>2, <1>3, <1>5, <1>6, OneCall DEF IInv
<1>8. Waiting' = Waiting
  BY <1>2, <1>4, <1>5, <1>7 DEF Waiting, LoggingIn
<1>9. slot \in Int /\ slot >= -MaxOversleep /\ sleeping \in BOOLEAN /\ since \in Nat
      /\ since \in 0..MaxGap /\ gaps \in [1..Kept -> 0..MaxGap]
  BY Numbers DEF IInv, TypeOK
<1>10. slot' = IF sleeping THEN slot + Interval ELSE Interval
  BY <1>1 DEF NextSlot
<1>11. /\ gaps' \in [1..Kept -> 0..MaxGap] /\ gaps'[1] = since /\ gaps'[2] = gaps[1]
       /\ gaps[1] \in Nat /\ gaps[2] \in Nat
  BY <1>1, <1>9, Numbers DEF Kept
<1>12. TypeOK'
  <2>1. slot' \in -MaxOversleep..Interval /\ since' \in 0..MaxGap
    BY <1>1, <1>9, <1>10, Numbers
  <2>2. pacing' \in Seq(Callers)
    BY <1>2 DEF IsQueueOf
  <2> QED BY <1>1, <1>7, <1>11, <2>1, <2>2 DEF IInv, TypeOK
<1>13. LockInv'
  <2>1. \A d \in Callers : call'[d].pc \in {"loginPace", "loggingIn"} =>
           call[d].pc \in {"loginPace", "loggingIn"}
    BY <1>4, <1>5, <1>7
  <2> QED BY <1>1, <1>2, <1>7, <1>8, <2>1 DEF IInv, LockInv
<1>14. SpacingInv' /\ RequestsSpaced'
  <2>1. /\ slot + since >= Interval - MaxOversleep
        /\ gaps[1] + slot + since >= 2 * Interval - MaxOversleep
    BY DEF IInv, SpacingInv
  <2>2. slot' \in Int /\ slot' >= slot + Interval
    BY <1>1, <1>9, <1>10, Numbers
  <2>3. slot' + since' >= Interval - MaxOversleep
    BY <1>1, <1>9, <2>2, Numbers
  <2>4. gaps'[1] + slot' + since' >= 2 * Interval - MaxOversleep
    BY <1>1, <1>9, <1>11, <2>1, <2>2, Numbers
  <2>5. gaps'[1] >= Interval - MaxOversleep /\ gaps'[1] + gaps'[2] >= 2 * Interval - MaxOversleep
    BY <1>1, <1>9, <1>11, <2>1, Numbers
  <2> QED BY <2>3, <2>4, <2>5 DEF SpacingInv, RequestsSpaced
<1>15. AgeInv'
  <2>1. ASSUME NEW i \in 1..Len(pacing'), call'[pacing'[i]].pc = "pace"
        PROVE  call'[pacing'[i]].age + Wait(i)' <= MaxSentAge
    <3>1. pacing'[i] \in Callers \ {h} /\ pacing'[i] = pacing[i + 1] /\ i + 1 \in 1..Len(pacing)
      BY <1>2 DEF IsQueueOf, Paced
    <3>2. call'[pacing'[i]] = call[pacing[i + 1]] /\ call[pacing[i + 1]] \in Calls
      BY <1>7, <3>1 DEF IInv, TypeOK
    <3>3. call[pacing[i + 1]].age + Wait(i + 1) <= MaxSentAge
      BY <2>1, <3>1, <3>2 DEF IInv, AgeInv
    <3>4. i \in Nat /\ i >= 1
      BY <1>2
    <3>5. Wait(i)' \in Int /\ Wait(i + 1) \in Int /\ Wait(i)' <= Wait(i + 1)
      BY <1>1, <3>4, WaitShrinks DEF IInv
    <3>6. call[pacing[i + 1]].age \in Int
      BY <3>2, Numbers DEF Calls
    <3>7. MaxSentAge \in Int
      BY Numbers DEF MaxSentAge, QueueDelay
    <3> QED BY <3>2, <3>3, <3>5, <3>6, <3>7
  <2>2. call[h].pc = "pace" => call[h].age <= MaxSentAge
    <3>1. SUFFICES ASSUME call[h].pc = "pace" PROVE call[h].age <= MaxSentAge
      OBVIOUS
    <3>2. call[h].age + Wait(1) <= MaxSentAge
      BY <1>2, <3>1 DEF IInv, AgeInv
    <3>3. (1 - 1) * Turn = 0
      BY Numbers
    <3>4. Wait(1) = 0 + (IF sleeping \/ slot > 0 THEN slot ELSE 0) + MaxOversleep
      BY <3>3 DEF Wait
    <3>5. Wait(1) \in Int /\ Wait(1) >= 0
      BY <1>9, <3>4, Numbers
    <3>6. call[h].age \in Int
      BY <1>4, Numbers DEF Calls
    <3>7. MaxSentAge \in Int
      BY Numbers DEF MaxSentAge, QueueDelay
    <3> QED BY <3>2, <3>5, <3>6, <3>7
  <2>3. \A d \in Callers : call'[d].pc = "sent" => call'[d].age <= MaxSentAge
    BY <1>4, <1>5, <1>7, <2>2 DEF IInv, AgeInv
  <2>4. \A d \in Callers : call'[d].pc = "loggingIn" => call'[d].age + call'[d].left <= MaxLatency
    BY <1>4, <1>5, <1>7, Numbers DEF IInv, AgeInv
  <2> QED BY <1>1, <2>1, <2>3, <2>4 DEF IInv, AgeInv
<1> QED BY <1>12, <1>13, <1>14, <1>15 DEF IInv

(* As long as the last request is less than two intervals ago, time moves  *)
(* the slot nearer by no more than it moves that request away.             *)
LEMMA SpacingArithmetic ==
  ASSUME NEW n \in Nat, NEW o \in Nat, NEW g \in Nat,
         NEW s \in Int, NEW t \in Nat, NEW s2 \in Int, NEW t2 \in Nat,
         s + t >= n - o, g + s + t >= 2 * n - o, s2 >= -o,
         (t2 = t + 1 /\ s2 >= s - 1) \/ t2 = 2 * n
  PROVE  s2 + t2 >= n - o /\ g + s2 + t2 >= 2 * n - o
<1>1. CASE t2 = t + 1 /\ s2 >= s - 1
  BY <1>1
<1>2. CASE t2 = 2 * n
  BY <1>2
<1> QED BY <1>1, <1>2

(* Time passes only while everyone waits for a timer: the one at the head  *)
(* of the limiter's queue is asleep, and a login has time left.            *)
LEMMA TickInv ==
  ASSUME IInv, Tick
  PROVE  IInv'
<1>1. /\ ~Ready /\ slot' = (IF sleeping THEN slot - 1 ELSE Less(slot))
      /\ token' = (IF token = NoToken THEN NoToken
                   ELSE [age |-> Older(token.age, MaxAge), left |-> Less(token.left)])
      /\ since' = Older(since, MaxGap)
      /\ UNCHANGED <<sleeping, pacing, logins, gaps>>
  BY DEF Tick
<1>2. ASSUME NEW c \in Callers
      PROVE  /\ call'[c] \in Calls /\ call'[c].pc = call[c].pc
             /\ call'[c].left = Less(call[c].left) /\ call[c].left \in Nat
             /\ call'[c].age \in Nat /\ call[c].age \in Nat /\ call'[c].age <= call[c].age + 1
             /\ call[c].pc \notin {"pace", "loggingIn"} => call'[c].age = call[c].age
  <2> DEFINE a == IF call[c].pc \in {"pace", "loggingIn"} THEN Older(call[c].age, MaxAge)
                  ELSE call[c].age
             l == Less(call[c].left)
  <2>1. call[c] \in Calls
    BY DEF IInv, TypeOK
  <2>2. call[c].left \in Nat /\ call[c].age \in 0..MaxAge /\ call[c].age \in Nat
    BY <2>1, Numbers DEF Calls
  <2>3. l \in Nat /\ a \in 0..MaxAge /\ a \in Nat /\ a <= call[c].age + 1
    BY <2>2, Numbers DEF Less, Older
  <2>4. call'[c] = [call[c] EXCEPT !.left = l, !.age = a]
    BY DEF Tick
  <2>5. call[c].pc \notin {"pace", "loggingIn"} => a = call[c].age
    OBVIOUS
  <2> HIDE DEF a, l
  <2>6. call'[c] \in Calls /\ call'[c].pc = call[c].pc /\ call'[c].left = l /\ call'[c].age = a
    BY <2>1, <2>3, <2>4 DEF Calls
  <2> QED BY <2>2, <2>3, <2>5, <2>6 DEF l
<1>3. call' \in [Callers -> Calls]
  <2>1. call' = [c \in Callers |-> call'[c]]
    BY DEF Tick
  <2> QED BY <1>2, <2>1
<1>4. Waiting' = Waiting /\ Paced' = Paced
  BY <1>2 DEF Waiting, Paced
<1>5. pacing # <<>> => sleeping /\ slot # -MaxOversleep
  BY <1>1 DEF Ready
<1>6. /\ slot \in Int /\ slot >= -MaxOversleep /\ slot <= Interval /\ sleeping \in BOOLEAN
      /\ since \in Nat /\ since <= MaxGap /\ gaps[1] \in Nat
      /\ sleeping => pacing # <<>>
  BY Numbers DEF IInv, TypeOK, LockInv, Kept
<1>7. slot' \in Int /\ slot' >= -MaxOversleep /\ slot' <= Interval
  BY <1>1, <1>5, <1>6, Numbers DEF Less
<1>8. since' \in 0..MaxGap
  BY <1>1, <1>6, Numbers DEF Older
<1>9. /\ token \in [age : 0..MaxAge, left : 0..Lifetime]
      /\ token.age \in Nat /\ token.left \in Nat /\ token.age <= MaxAge /\ token.left <= Lifetime
  <2>1. token \in [age : 0..MaxAge, left : 0..Lifetime]
    BY DEF IInv, TypeOK
  <2> QED BY <2>1, Numbers
<1>10. /\ token' \in [age : 0..MaxAge, left : 0..Lifetime] /\ token'.left = Less(token.left)
       /\ token'.left > 0 => token'.age <= token.age + 1
  <2>1. CASE token = NoToken
    BY <1>1, <1>9, <2>1, Numbers DEF NoToken, Less
  <2>2. CASE token # NoToken
    <3> DEFINE a == Older(token.age, MaxAge)
               l == Less(token.left)
    <3>1. a \in 0..MaxAge /\ l \in 0..Lifetime /\ a <= token.age + 1
      BY <1>9, Numbers DEF Older, Less
    <3>2. token' = [age |-> a, left |-> l]
      BY <1>1, <2>2
    <3> HIDE DEF a
    <3> QED BY <3>1, <3>2
  <2> QED BY <2>1, <2>2
<1>11. TypeOK'
  <2>1. slot' \in -MaxOversleep..Interval
    BY <1>7, Numbers
  <2> QED BY <1>1, <1>3, <1>8, <1>10, <2>1 DEF IInv, TypeOK
<1>12. LockInv'
  <2>1. token.left = 0 => token'.left = 0
    BY <1>10 DEF Less
  <2> QED BY <1>1, <1>2, <1>4, <2>1 DEF IInv, LockInv
<1>13. SpacingInv' /\ RequestsSpaced'
  <2>1. /\ slot + since >= Interval - MaxOversleep
        /\ gaps[1] + slot + since >= 2 * Interval - MaxOversleep
    BY DEF IInv, SpacingInv
  <2>2. \/ since' = since + 1 /\ slot' >= slot - 1
        \/ since' = 2 * Interval
    BY <1>1, <1>6, Numbers DEF Older, Less
  <2>3. SpacingInv'
    <3>1. gaps'[1] = gaps[1] /\ since' \in Nat
      BY <1>1, <1>8, Numbers
    <3>2. Interval \in Nat /\ MaxOversleep \in Nat
      BY Numbers
    <3>3. /\ gaps[1] \in Nat /\ slot \in Int /\ since \in Nat
          /\ slot' \in Int /\ slot' >= -MaxOversleep
      BY <1>6, <1>7
    <3>4. /\ slot' + since' >= Interval - MaxOversleep
          /\ gaps[1] + slot' + since' >= 2 * Interval - MaxOversleep
      BY <2>1, <2>2, <3>1, <3>2, <3>3, SpacingArithmetic
    <3> QED BY <3>1, <3>4 DEF SpacingInv
  <2>4. RequestsSpaced'
    BY <1>1 DEF IInv, RequestsSpaced
  <2> QED BY <2>3, <2>4
<1>14. AgeInv'
  <2>1. ASSUME NEW i \in 1..Len(pacing), call[pacing[i]].pc = "pace"
        PROVE  call'[pacing[i]].age + Wait(i)' <= MaxSentAge
    <3>1. pacing # <<>> /\ pacing[i] \in Callers /\ i \in Nat
      BY DEF IInv, TypeOK
    <3>2. sleeping /\ sleeping' /\ slot' = slot - 1
      BY <1>1, <1>5, <3>1
    <3> DEFINE a == (i - 1) * Turn
    <3>3. a \in Int
      BY <3>1, Numbers
    <3>4. Wait(i) = a + slot + MaxOversleep /\ Wait(i)' = a + slot' + MaxOversleep
      BY <3>2 DEF Wait, Turn
    <3>5. call[pacing[i]].age + Wait(i) <= MaxSentAge
      BY <2>1 DEF IInv, AgeInv
    <3>6. MaxSentAge \in Int
      BY Numbers DEF MaxSentAge, QueueDelay
    <3>7. /\ call'[pacing[i]].age \in Nat /\ call[pacing[i]].age \in Nat
          /\ call'[pacing[i]].age <= call[pacing[i]].age + 1
      BY <1>2, <3>1
    <3> DEFINE x == call[pacing[i]].age
               y == call'[pacing[i]].age
               w == a + MaxOversleep
    <3>8. w \in Int /\ Wait(i) = w + slot /\ Wait(i)' = w + (slot - 1)
      BY <1>6, <3>2, <3>3, <3>4, Numbers
    <3>9. x \in Nat /\ y \in Nat /\ y <= x + 1 /\ x + (w + slot) <= MaxSentAge
      BY <3>5, <3>7, <3>8
    <3> HIDE DEF x, y, w
    <3>10. y + (w + (slot - 1)) <= MaxSentAge
      BY <1>6, <3>6, <3>8, <3>9
    <3> QED BY <3>8, <3>10 DEF y
  <2>2. ASSUME NEW c \in Callers, call[c].pc = "loggingIn"
        PROVE  call'[c].age + call'[c].left <= MaxLatency
    <3>1. call[c].left # 0 /\ call[c].age + call[c].left <= MaxLatency
      BY <1>1, <2>2 DEF Ready, IInv, AgeInv
    <3> QED BY <1>2, <3>1, Numbers DEF Less
  <2>3. token'.left > 0 => token'.age + token'.left <= Lifetime + MaxLatency
    <3>1. SUFFICES ASSUME token'.left > 0
                   PROVE  token'.age + token'.left <= Lifetime + MaxLatency
      OBVIOUS
    <3>2. token.left > 0 /\ token'.left = token.left - 1
      BY <1>9, <1>10, <3>1 DEF Less
    <3>3. token.age + token.left <= Lifetime + MaxLatency
      BY <3>2 DEF IInv, AgeInv
    <3>4. token'.age \in Nat /\ token'.age <= token.age + 1
      BY <1>10, <3>1, Numbers
    <3> QED BY <1>9, <3>2, <3>3, <3>4, Numbers
  <2>4. \A c \in Callers : call'[c].pc = "sent" => call'[c].age <= MaxSentAge
    BY <1>2 DEF IInv, AgeInv
  <2>5. \A i \in 1..Len(pacing) : pacing[i] \in Callers
    BY DEF IInv, TypeOK
  <2> QED BY <1>1, <1>2, <2>1, <2>2, <2>3, <2>4, <2>5 DEF AgeInv
<1> QED BY <1>11, <1>12, <1>13, <1>14 DEF IInv

-----------------------------------------------------------------------------
(* The client starts with an empty queue at both locks and no token. *)
LEMMA InitInv == Init => IInv
<1> SUFFICES ASSUME Init PROVE IInv
  OBVIOUS
<1>1. /\ slot = 0 /\ sleeping = FALSE /\ pacing = <<>> /\ logins = <<>> /\ token = NoToken
      /\ call = [c \in Callers |-> Idle] /\ since = 2 * Interval
      /\ gaps = [i \in 1..2 |-> 2 * Interval]
  BY DEF Init, Kept
<1>2. Idle \in Calls /\ Idle.pc = "idle"
  BY Numbers DEF Idle, Calls
<1>3. NoToken \in [age : 0..MaxAge, left : 0..Lifetime] /\ NoToken.left = 0
  BY Numbers DEF NoToken
<1>4. gaps \in [1..Kept -> 0..MaxGap] /\ gaps[1] = 2 * Interval /\ gaps[2] = 2 * Interval
  BY <1>1, Numbers DEF Kept
<1>5. slot \in -MaxOversleep..Interval /\ since \in 0..MaxGap
  BY <1>1, Numbers
<1>6. \A c \in Callers : call[c].pc = "idle"
  BY <1>1, <1>2
<1>7. TypeOK
  <2>1. pacing \in Seq(Callers) /\ logins \in Seq(Callers)
    BY <1>1
  <2>3. sleeping \in BOOLEAN
    BY <1>1
  <2>2. call \in [Callers -> Calls] /\ token \in [age : 0..MaxAge, left : 0..Lifetime]
    BY <1>1, <1>2, <1>3
  <2> QED BY <1>4, <1>5, <2>1, <2>2, <2>3 DEF TypeOK
<1>8. LockInv
  <2>1. Waiting = {} /\ Paced = {}
    BY <1>6 DEF Waiting, Paced, LoggingIn
  <2>2. IsQueueOf(<<>>, {})
    BY DEF IsQueueOf
  <2> QED BY <1>1, <1>6, <2>1, <2>2 DEF LockInv
<1>9. SpacingInv /\ RequestsSpaced
  BY <1>1, <1>4, Numbers DEF SpacingInv, RequestsSpaced
<1>10. AgeInv
  BY <1>1, <1>3, <1>6 DEF AgeInv
<1> QED BY <1>7, <1>8, <1>9, <1>10 DEF IInv

(* A further attempt of a call that was answered. *)
LEMMA ContinueCall ==
  ASSUME IInv, NEW c \in Callers, NEW pc \in {"login", "backoff"}, NEW relogged \in BOOLEAN,
         NEW delay \in Nat, ~LastAttempt(c), Continue(c, pc, relogged, delay)
  PROVE  \E u \in Calls : u.pc = pc /\ call' = [call EXCEPT ![c] = u]
<1> DEFINE n == call[c].attempt + 1
           u == [pc |-> pc, attempt |-> n, relogged |-> relogged, age |-> 0, left |-> delay]
<1>1. call[c] \in Calls
  BY DEF IInv, TypeOK
<1>2. n \in 0..MaxRetries /\ 0 \in 0..MaxAge
  <2>1. call[c].attempt \in 0..MaxRetries /\ call[c].attempt # MaxRetries
    BY <1>1 DEF Calls, LastAttempt
  <2> QED BY <2>1, Numbers
<1>3. call' = [call EXCEPT ![c] = u]
  BY DEF Continue, IInv, TypeOK
<1> HIDE DEF n
<1>4. u \in Calls /\ u.pc = pc
  BY <1>2 DEF Calls
<1> QED BY <1>3, <1>4

(* Every step keeps the invariant. *)
LEMMA StepInv == IInv /\ [Next]_vars => IInv'
<1> SUFFICES ASSUME IInv, [Next]_vars PROVE IInv'
  OBVIOUS
<1>1. Idle \in Calls /\ Idle.pc = "idle"
  BY Numbers DEF Idle, Calls
<1>2. CASE Tick
  BY <1>2, TickInv
<1>3. CASE BeginSleep
  BY <1>3, BeginSleepInv
<1>4. CASE Send
  BY <1>4, SendInv
<1>5. ASSUME NEW c \in Callers, Call(c) PROVE IInv'
  <2> DEFINE u == [Idle EXCEPT !.pc = "login"]
  <2>1. u \in Calls /\ u.pc = "login"
    BY <1>1 DEF Calls
  <2> HIDE DEF u
  <2> QED BY <1>5, <2>1, JoinLoginInv DEF Call, u
<1>6. ASSUME NEW c \in Callers, UseToken(c) PROVE IInv'
  BY <1>6, UseTokenInv
<1>7. ASSUME NEW c \in Callers, BeginLogin(c) PROVE IInv'
  BY <1>7, BeginLoginInv
<1>8. ASSUME NEW c \in Callers, LoggedIn(c) PROVE IInv'
  BY <1>8, LoggedInInv
<1>9. ASSUME NEW c \in Callers, LoginFailed(c) PROVE IInv'
  BY <1>9, LoginFailedInv
<1>10. ASSUME NEW c \in Callers, Return(c) PROVE IInv'
  BY <1>1, <1>10, ApartInv DEF Return
<1>11. ASSUME NEW c \in Callers, Unauthorized(c) PROVE IInv'
  <2>1. /\ call[c].pc = "sent" /\ token' = NoToken
        /\ UNCHANGED <<slot, sleeping, pacing, since, gaps>>
    BY <1>11 DEF Unauthorized
  <2>2. CASE /\ ~LastAttempt(c) /\ Continue(c, "login", TRUE, 0) /\ logins' = Append(logins, c)
    <3>1. PICK u \in Calls : u.pc = "login" /\ call' = [call EXCEPT ![c] = u]
      BY <2>2, ContinueCall
    <3> QED BY <2>1, <2>2, <3>1, JoinLoginInv
  <2>3. CASE call' = [call EXCEPT ![c] = Idle] /\ UNCHANGED logins
    BY <1>1, <2>1, <2>3, ApartInv
  <2> QED BY <1>11, <2>2, <2>3 DEF Unauthorized
<1>12. ASSUME NEW c \in Callers, NEW delay \in Delays, TooMany(c, delay) PROVE IInv'
  <2>1. delay \in Nat
    BY ClientAssumption
  <2>2. call[c].relogged \in BOOLEAN
    BY DEF IInv, TypeOK, Calls
  <2>3. PICK u \in Calls : u.pc = "backoff" /\ call' = [call EXCEPT ![c] = u]
    BY <1>12, <2>1, <2>2, ContinueCall DEF TooMany
  <2> QED BY <1>12, <2>3, ApartInv DEF TooMany
<1>13. ASSUME NEW c \in Callers, EndBackoff(c) PROVE IInv'
  <2> DEFINE u == [call[c] EXCEPT !.pc = "login"]
  <2>1. call[c] \in Calls
    BY DEF IInv, TypeOK
  <2>2. u \in Calls /\ u.pc = "login"
    BY <2>1 DEF Calls
  <2>3. call' = [call EXCEPT ![c] = u]
    BY <1>13 DEF EndBackoff, IInv, TypeOK
  <2> HIDE DEF u
  <2> QED BY <1>13, <2>2, <2>3, JoinLoginInv DEF EndBackoff
<1>14. CASE UNCHANGED vars
  <2>1. Waiting' = Waiting /\ Paced' = Paced
    BY <1>14 DEF vars, Waiting, Paced
  <2>2. \A i : Wait(i)' = Wait(i)
    BY <1>14 DEF vars, Wait
  <2> QED BY <1>14, <2>1, <2>2
        DEF vars, IInv, TypeOK, LockInv, SpacingInv, RequestsSpaced, AgeInv
<1> QED BY <1>2, <1>3, <1>4, <1>5, <1>6, <1>7, <1>8, <1>9, <1>10, <1>11, <1>12, <1>13, <1>14
     DEF Next, Pace, Progress

-----------------------------------------------------------------------------
(* What every reachable state of the client satisfies: the two locks' *)
(* queues, the spacing, and how old a token may be while it is used.  *)
THEOREM InductiveInvariant == Spec => []IInv
BY InitInv, StepInv, PTL DEF Spec

(* The client's state keeps its type; no call has more than MAX_RETRIES    *)
(* repetitions, whatever the server answers.                               *)
THEOREM TypeCorrect == Spec => []TypeOK
<1>1. IInv => TypeOK
  BY DEF IInv
<1> QED BY <1>1, InductiveInvariant, PTL

(* RateLimiter.wait: requests keep their distance, and lateness does not   *)
(* add up, for any rate and any number of callers.                         *)
THEOREM RequestsKeepDistance == Spec => []RequestsSpaced
<1>1. IInv => RequestsSpaced
  BY DEF IInv
<1> QED BY <1>1, InductiveInvariant, PTL

(* _login: concurrent callers without a usable token cause one login. *)
THEOREM OneLogin == Spec => []NoNeedlessLogin
<1>1. IInv => NoNeedlessLogin
  BY DEF IInv, LockInv, NoNeedlessLogin
<1> QED BY <1>1, InductiveInvariant, PTL

(* If TOKEN_LIFETIME_SECONDS leaves the margin that a login and a full     *)
(* queue at the rate limiter need, no request carries a token that the     *)
(* server has already let expire.                                          *)
THEOREM TokensAccepted ==
  ASSUME Margin
  PROVE  Spec => []TokenStillAccepted
<1>1. MaxSentAge <= ServerLifetime
  <2>1. QueueDelay \in Int
    BY Numbers DEF QueueDelay
  <2> QED BY <2>1, Numbers DEF Margin, MaxSentAge
<1>2. IInv => TokenStillAccepted
  <2> SUFFICES ASSUME IInv, NEW c \in Callers, call[c].pc = "sent"
               PROVE  call[c].age <= ServerLifetime
    BY DEF TokenStillAccepted
  <2>1. call[c].age \in Int /\ call[c].age <= MaxSentAge
    <3>1. call[c] \in Calls
      BY DEF IInv, TypeOK
    <3> QED BY <3>1, Numbers DEF Calls, IInv, AgeInv
  <2>2. MaxSentAge \in Int /\ ServerLifetime \in Int
    BY Numbers DEF MaxSentAge, QueueDelay
  <2> QED BY <1>1, <2>1, <2>2
<1> QED BY <1>2, InductiveInvariant, PTL
=============================================================================
