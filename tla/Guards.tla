--------------------------------- MODULE Guards ---------------------------------
(***************************************************************************)
(* What a request to the REST API goes through before its route: the token *)
(* bucket of its client; if it changes something, the replay detector and, *)
(* after its body has been awaited, the signature; then, if the agent is   *)
(* paired, the API key.  (Middleware added last runs first.)  Time is the  *)
(* clock both modules read, in ticks.                                      *)
(***************************************************************************)
EXTENDS Integers, Sequences, FiniteSets

CONSTANTS
  Client,   \* bucket keys
  Nonce,    \* X-Nonce values
  Window,   \* the replay window, in ticks
  Burst,    \* the bucket's size, in requests
  Cost,     \* what a request takes from it, in what one tick adds
  MaxNonces, \* nonces kept before each check prunes
  MaxTime   \* bound: the clock

VARIABLES
  now,
  buckets,    \* tokens and last refill of the buckets there are, by client
  nonces,     \* the timestamp stored with each nonce there is
  lastPrune,
  reading,    \* requests that await their body
  served,     \* history: how often each request passed in this life of the process
  allowed     \* history: when the limiter let requests of each client pass in it

limiter  == <<buckets, allowed>>
detector == <<nonces, lastPrune>>
vars     == <<now, limiter, detector, reading, served>>

Time == 0..MaxTime

Lesser(a, b) == IF a <= b THEN a ELSE b

-----------------------------------------------------------------------------
(* RateLimiter.                                                             *)

\* Slip: a refill is not capped at the burst.
RefilledUncapped(c) == buckets[c].tokens + (now - buckets[c].at)

Refilled(c) == Lesser(Burst * Cost, buckets[c].tokens + (now - buckets[c].at))

Tokens(c) == IF c \in DOMAIN buckets THEN Refilled(c) ELSE Burst * Cost

\* Slip: any part of a token will do.
HasSomeToken(c) == Tokens(c) > 0

HasToken(c) == Tokens(c) >= Cost

Keep(c, tokens) ==
  buckets' = [x \in DOMAIN buckets \cup {c} |->
                IF x = c THEN [tokens |-> tokens, at |-> now] ELSE buckets[x]]

Limited(c) ==
  /\ ~HasToken(c)
  /\ Keep(c, Tokens(c))
  /\ UNCHANGED <<now, allowed, detector, reading, served>>

-----------------------------------------------------------------------------
(* ReplayDetector.                                                          *)

Fresh(ts) == ts - now <= Window /\ now - ts <= Window

\* Slip: a nonce at the edge of the window is expired.
ExpiredAtEdge(stored) == {x \in DOMAIN stored : stored[x] <= now - Window}

Expired(stored) == {x \in DOMAIN stored : stored[x] < now - Window}

Store(ts, nonce) ==
  LET stored == [x \in DOMAIN nonces \cup {nonce} |-> IF x = nonce THEN ts ELSE nonces[x]]
      prune  == now - lastPrune > Window \/ Cardinality(DOMAIN stored) > MaxNonces
      kept   == DOMAIN stored \ Expired(stored)
  IN nonces' = (IF prune THEN [x \in kept |-> stored[x]] ELSE stored)
     /\ lastPrune' = IF prune THEN now ELSE lastPrune

-----------------------------------------------------------------------------
(* A request of client c with a timestamp and a nonce.                      *)

Admit(c) ==
  /\ HasToken(c)
  /\ Keep(c, Tokens(c) - Cost)
  /\ allowed' = [allowed EXCEPT ![c] = Append(@, now)]

\* Whatever else becomes of it: a read, a pairing request, or one without the
\* headers of a signed one.
Unverified(c) ==
  /\ Admit(c)
  /\ UNCHANGED <<now, detector, reading, served>>

Refused(c, ts, nonce) ==
  /\ Admit(c)
  /\ ~Fresh(ts) \/ nonce \in DOMAIN nonces
  /\ UNCHANGED <<now, detector, reading, served>>

Checked(c, ts, nonce) ==
  /\ Admit(c)
  /\ Fresh(ts) /\ nonce \notin DOMAIN nonces
  /\ Store(ts, nonce)
  /\ reading' = reading \cup {<<ts, nonce>>}
  /\ UNCHANGED <<now, served>>

\* Whether the agent is paired is module Cloud's, a choice here; the key is that
\* of the pairing or the configured one.
Authorized(paired, hasKey) == paired => hasKey

\* The body is there.  The route runs at once if the signature is right and the
\* request has the key of an agent that is paired.  The signature is over the
\* timestamp and the body, and says nothing of the nonce.
Verified(r) ==
  /\ r \in reading
  /\ reading' = reading \ {r}
  /\ \E signed, paired, hasKey \in BOOLEAN :
       served' = IF signed /\ Authorized(paired, hasKey)
                 THEN [served EXCEPT ![r] = @ + 1] ELSE served
  /\ UNCHANGED <<now, limiter, detector>>

Tick ==
  /\ now < MaxTime
  /\ now' = now + 1
  /\ UNCHANGED <<limiter, detector, reading, served>>

\* The process is started again, and remembers neither nonces nor buckets.
Restart ==
  /\ buckets' = <<>> /\ allowed' = [c \in Client |-> <<>>]
  /\ nonces' = <<>> /\ lastPrune' = 0 - Window - 1
  /\ reading' = {}
  /\ served' = [r \in Time \X Nonce |-> 0]
  /\ UNCHANGED now

Init ==
  /\ now = 0
  /\ buckets = <<>> /\ allowed = [c \in Client |-> <<>>]
  /\ nonces = <<>> /\ lastPrune = 0 - Window - 1
  /\ reading = {}
  /\ served = [r \in Time \X Nonce |-> 0]

Next ==
  \/ Tick \/ Restart
  \/ \E c \in Client : Limited(c) \/ Unverified(c)
  \/ \E c \in Client, r \in Time \X Nonce :
       Refused(c, r[1], r[2]) \/ Checked(c, r[1], r[2])
  \/ \E r \in reading : Verified(r)

Spec == Init /\ [][Next]_vars
-----------------------------------------------------------------------------
(* Properties.                                                              *)

TypeOK ==
  /\ now \in Time /\ lastPrune \in (0 - Window - 1)..now
  /\ DOMAIN buckets \subseteq Client
  /\ \A c \in DOMAIN buckets : buckets[c].tokens \in 0..Burst * Cost /\ buckets[c].at \in 0..now
  /\ DOMAIN nonces \subseteq Nonce /\ \A x \in DOMAIN nonces : nonces[x] \in Time
  /\ reading \subseteq Time \X Nonce 
  /\ served \in [Time \X Nonce -> Nat]
  /\ allowed \in [Client -> Seq(Time)]

\* A request that is delivered again as it was sent, timestamp and nonce, is not
\* served twice in one life of the process, also one whose timestamp is ahead of
\* the clock, one at the very edge of the window, and one whose nonce is pruned
\* while its body is awaited.
NoReplay == \A r \in Time \X Nonce : served[r] <= 1

\* In any stretch of time within one life of the process a client gets at most a
\* burst and what the rate adds meanwhile, also after long silence and through
\* requests refused later.
RateBound ==
  \A c \in Client : \A i, j \in DOMAIN allowed[c] :
    i <= j => (j - i + 1) * Cost <= Burst * Cost + (allowed[c][j] - allowed[c][i])
=============================================================================
