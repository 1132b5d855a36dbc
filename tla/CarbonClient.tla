---------------------------- MODULE CarbonClient ----------------------------
(***************************************************************************)
(* The WattTime client, services/src/cadns/carbon/watttime.py: concurrent  *)
(* calls of _get that share a token (_login) and a rate limiter            *)
(* (RateLimiter.wait).  Tasks of one process call it, up to the            *)
(* API_CONCURRENCY slots of the pipeline.                                  *)
(*                                                                         *)
(* An asyncio.Lock serves its waiters first come, first served: it is the  *)
(* sequence of the callers that asked for it, and the head holds it.       *)
(*                                                                         *)
(* Times are relative: `slot' is _next minus the clock, `left' counts down *)
(* to an expiry, `age' counts up.  A task that can run does so before time *)
(* passes; a late event loop shows as a sleep that ends late, by up to     *)
(* MaxOversleep.  Which status the server answers with is its choice.      *)
(***************************************************************************)
EXTENDS Integers, Sequences, FiniteSetsExt

CONSTANTS
    Callers,         \* tasks that may call _get at the same time
    Interval,        \* RateLimiter._interval
    MaxOversleep,    \* how late a sleep of the limiter may end
    MaxLatency,      \* the HTTP timeout, for a login
    Lifetime,        \* TOKEN_LIFETIME_SECONDS
    ServerLifetime,  \* for how long the server accepts a token
    Delays,          \* what _retry_after may return
    MaxRetries       \* MAX_RETRIES

ASSUME ClientAssumption ==
    /\ Interval \in Nat \ {0} /\ MaxOversleep \in Nat /\ MaxLatency \in Nat
    /\ Lifetime \in Nat \ {0} /\ ServerLifetime \in Nat
    /\ Delays \subseteq Nat /\ MaxRetries \in Nat /\ IsFiniteSet(Callers)

VARIABLES
    slot,       \* _next - time.monotonic(); negative while a sleeper is late
    sleeping,   \* the holder of the limiter's lock is in asyncio.sleep
    pacing,     \* RateLimiter._lock
    logins,     \* _login_lock
    token,      \* _token and _token_expires: age and time left
    call,       \* what each caller is doing
    since,      \* history: time since the last request was sent
    gaps        \* history: between the last requests, newest first

vars == <<slot, sleeping, pacing, logins, token, call, since, gaps>>

Kept == 2       \* gaps remembered
NoToken == [age |-> 0, left |-> 0]
Idle == [pc |-> "idle", attempt |-> 0, relogged |-> FALSE, age |-> 0, left |-> 0]

Init ==
    /\ slot = 0 /\ sleeping = FALSE
    /\ pacing = <<>> /\ logins = <<>>
    /\ token = NoToken
    /\ call = [c \in Callers |-> Idle]
    /\ since = Kept * Interval
    /\ gaps = [i \in 1..Kept |-> Kept * Interval]

-----------------------------------------------------------------------------
(* Ages stop at the first value that no property tells from later ones. *)
MaxAge == ServerLifetime + 1
MaxGap == Kept * Interval
Older(age, max) == IF age < max THEN age + 1 ELSE max
Less(left) == IF left > 0 THEN left - 1 ELSE 0

(* A caller that needs no timer: time waits for it. *)
Ready ==
    \/ logins # <<>> /\ call[Head(logins)].pc = "login"
    \/ pacing # <<>> /\ (~sleeping \/ slot = -MaxOversleep)
    \/ \E c \in Callers : call[c].pc = "loggingIn" /\ call[c].left = 0

Tick ==
    /\ ~Ready
    /\ slot' = IF sleeping THEN slot - 1 ELSE Less(slot)
    /\ token' = IF token = NoToken THEN NoToken
                ELSE [age |-> Older(token.age, MaxAge), left |-> Less(token.left)]
    /\ call' = [c \in Callers |->
          [call[c] EXCEPT !.left = Less(@),
                          !.age = IF call[c].pc \in {"pace", "loggingIn"}
                                  THEN Older(@, MaxAge) ELSE @]]
    /\ since' = Older(since, MaxGap)
    /\ UNCHANGED <<sleeping, pacing, logins, gaps>>

-----------------------------------------------------------------------------
(* _login: inside the lock the token is looked at again, because another   *)
(* caller may have renewed it meanwhile.                                   *)
(* Variants: an expired token passes; every caller logs in for itself.     *)
TokenPresent == token # NoToken

TokenNever == FALSE

TokenUsable == token.left > 0

Call(c) ==
    /\ call[c].pc = "idle"
    /\ call' = [call EXCEPT ![c] = [Idle EXCEPT !.pc = "login"]]
    /\ logins' = Append(logins, c)
    /\ UNCHANGED <<slot, sleeping, pacing, token, since, gaps>>

UseToken(c) ==
    /\ logins # <<>> /\ Head(logins) = c
    /\ call[c].pc = "login"
    /\ TokenUsable
    /\ call' = [call EXCEPT ![c].pc = "pace", ![c].age = token.age]
    /\ logins' = Tail(logins)
    /\ pacing' = Append(pacing, c)
    /\ UNCHANGED <<slot, sleeping, token, since, gaps>>

BeginLogin(c) ==
    /\ logins # <<>> /\ Head(logins) = c
    /\ call[c].pc = "login"
    /\ ~TokenUsable
    /\ call' = [call EXCEPT ![c].pc = "loginPace"]
    /\ pacing' = Append(pacing, c)
    /\ UNCHANGED <<slot, sleeping, logins, token, since, gaps>>

(* The answer to a login.  The server may have issued the token as soon as *)
(* the request was sent: that is where its age starts.                     *)
LoggedIn(c) ==
    /\ call[c].pc = "loggingIn"
    /\ token' = [age |-> call[c].age, left |-> Lifetime]
    /\ call' = [call EXCEPT ![c].pc = "pace"]
    /\ logins' = Tail(logins)
    /\ pacing' = Append(pacing, c)
    /\ UNCHANGED <<slot, sleeping, since, gaps>>

(* An HTTP error, or a status other than 200: WattTimeError. *)
LoginFailed(c) ==
    /\ call[c].pc = "loggingIn"
    /\ call' = [call EXCEPT ![c] = Idle]
    /\ logins' = Tail(logins)
    /\ UNCHANGED <<slot, sleeping, pacing, token, since, gaps>>

-----------------------------------------------------------------------------
(* RateLimiter.wait: sleep until the slot, if it is still ahead ... *)
BeginSleep ==
    /\ pacing # <<>>
    /\ ~sleeping
    /\ slot > 0
    /\ sleeping' = TRUE
    /\ UNCHANGED <<slot, pacing, logins, token, call, since, gaps>>

(* ... then reserve the next one, counted from the slot and not from the   *)
(* moment the sleep ended, and send.                                       *)
(* Variant: counted from the moment before the sleep. *)
NextSlotFromCall == IF sleeping THEN 0 ELSE Interval

NextSlot == IF sleeping THEN slot + Interval ELSE Interval

Send ==
    /\ pacing # <<>>
    /\ slot <= 0
    /\ slot' = NextSlot
    /\ sleeping' = FALSE
    /\ pacing' = Tail(pacing)
    /\ LET c == Head(pacing)
       IN  call' = [call EXCEPT ![c] =
              IF @.pc = "loginPace"
              THEN [@ EXCEPT !.pc = "loggingIn", !.age = 0, !.left = MaxLatency]
              ELSE [@ EXCEPT !.pc = "sent"]]
    /\ since' = 0
    /\ gaps' = [i \in 1..Kept |-> IF i = 1 THEN since ELSE gaps[i - 1]]
    /\ UNCHANGED <<logins, token>>

-----------------------------------------------------------------------------
(* The answer to a request, in the order of the tests in _get. *)
Continue(c, pc, relogged, delay) ==
    call' = [call EXCEPT ![c] = [pc |-> pc, attempt |-> @.attempt + 1, relogged |-> relogged,
                                 age |-> 0, left |-> delay]]

(* Variant: range(MAX_RETRIES + 2). *)
LastAttemptLate(c) == call[c].attempt > MaxRetries

LastAttempt(c) == call[c].attempt = MaxRetries

(* Any other status, and an HTTP error, which raises: the call is over. *)
Return(c) ==
    /\ call[c].pc = "sent"
    /\ call' = [call EXCEPT ![c] = Idle]
    /\ UNCHANGED <<slot, sleeping, pacing, logins, token, since, gaps>>

(* 401: whichever token there is now is discarded.  A second 401 is returned. *)
Unauthorized(c) ==
    /\ call[c].pc = "sent"
    /\ ~call[c].relogged
    /\ token' = NoToken
    /\ \/ /\ ~LastAttempt(c)
          /\ Continue(c, "login", TRUE, 0)
          /\ logins' = Append(logins, c)
       \/ /\ LastAttempt(c)              \* the loop is over: returns the 401
          /\ call' = [call EXCEPT ![c] = Idle]
          /\ UNCHANGED logins
    /\ UNCHANGED <<slot, sleeping, pacing, since, gaps>>

(* 429: back off, unless it was the last attempt. *)
(* Variant: the attempts are not counted. *)
TooManyForever(c, delay) ==
    /\ call[c].pc = "sent"
    /\ call' = [call EXCEPT ![c].pc = "backoff", ![c].left = delay, ![c].age = 0]
    /\ UNCHANGED <<slot, sleeping, pacing, logins, token, since, gaps>>

TooMany(c, delay) ==
    /\ call[c].pc = "sent"
    /\ ~LastAttempt(c)
    /\ Continue(c, "backoff", call[c].relogged, delay)
    /\ UNCHANGED <<slot, sleeping, pacing, logins, token, since, gaps>>

EndBackoff(c) ==
    /\ call[c].pc = "backoff"
    /\ call[c].left = 0
    /\ call' = [call EXCEPT ![c].pc = "login"]
    /\ logins' = Append(logins, c)
    /\ UNCHANGED <<slot, sleeping, pacing, token, since, gaps>>

-----------------------------------------------------------------------------
(* What goes on once a call was made: the client's own steps and answers.  *)
Progress(c) ==
    \/ UseToken(c) \/ BeginLogin(c) \/ LoggedIn(c) \/ LoginFailed(c)
    \/ Return(c) \/ Unauthorized(c) \/ EndBackoff(c)
    \/ \E delay \in Delays : TooMany(c, delay)

Pace == BeginSleep \/ Send

Next == Tick \/ Pace \/ \E c \in Callers : Call(c) \/ Progress(c)

(* Time passes, the event loop runs every task that can run, and every     *)
(* request is answered or times out (httpx.AsyncClient(timeout=...)).      *)
Spec ==
    /\ Init /\ [][Next]_vars
    /\ WF_vars(Tick) /\ WF_vars(Pace)
    /\ \A c \in Callers : WF_vars(Progress(c))

-----------------------------------------------------------------------------
Calls == [ pc : {"idle", "login", "loginPace", "loggingIn", "pace", "sent", "backoff"},
           attempt : 0..MaxRetries, relogged : BOOLEAN, age : 0..MaxAge, left : Nat ]

TypeOK ==
    /\ slot \in -MaxOversleep..Interval
    /\ sleeping \in BOOLEAN
    /\ pacing \in Seq(Callers) /\ logins \in Seq(Callers)
    /\ token \in [age : 0..MaxAge, left : 0..Lifetime]
    /\ call \in [Callers -> Calls]
    /\ since \in 0..MaxGap /\ gaps \in [1..Kept -> 0..MaxGap]

(* RateLimiter: requests and logins of all callers together are spaced by  *)
(* the interval.  A late sleep moves one of them, but lateness does not    *)
(* add up and is not made up for by a burst: n requests further on, the    *)
(* distance is n intervals less at most one oversleep.                     *)
RequestsSpaced ==
    /\ gaps[1] >= Interval - MaxOversleep
    /\ gaps[1] + gaps[2] >= 2 * Interval - MaxOversleep

(* A request is sent with a token the server still accepts, although the   *)
(* caller waits for its turn after it took the token from _login: the      *)
(* margin of TOKEN_LIFETIME_SECONDS covers the queue (watttime.py:3-4).    *)
TokenStillAccepted == \A c \in Callers : call[c].pc = "sent" => call[c].age <= ServerLifetime

(* What the margin must cover: the login that brought the token, and a     *)
(* turn of the limiter for every caller, one of them late.                 *)
Turn == IF Interval > MaxOversleep THEN Interval ELSE MaxOversleep
QueueDelay == (Cardinality(Callers) - 1) * Turn + Interval + MaxOversleep
Margin == Lifetime + MaxLatency + QueueDelay <= ServerLifetime + 1

(* Concurrent callers that find no usable token cause one login: nobody    *)
(* logs in while another login is under way or a usable token is there.    *)
NoNeedlessLogin ==
    \A c \in Callers :
        call[c].pc = "loggingIn" =>
            /\ token.left = 0
            /\ \A d \in Callers : call[d].pc = "loggingIn" => d = c

(* Every call of _get returns, whatever the server answers. *)
CallsEnd == \A c \in Callers : call[c].pc # "idle" ~> call[c].pc = "idle"
=============================================================================
