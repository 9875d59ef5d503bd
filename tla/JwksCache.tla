------------------------------ MODULE JwksCache ------------------------------
(***************************************************************************)
(* The key set cache of PinnedOIDCHTTPClient (control_plane/oidc_http.py):  *)
(* threads that verify ID tokens share one cache, one flight at a time to   *)
(* the provider, a bound on forced refreshes and a pause after a failure.   *)
(* A forced refresh is asked for by a thread whose token names a key that   *)
(* the set it has just got does not hold.                                   *)
(***************************************************************************)
EXTENDS Naturals

CONSTANTS Threads,
          MaxRotation,    \* generations of the provider's key set: 1..MaxRotation
          CacheSeconds,   \* _jwks_cache_seconds
          NegativeSeconds,\* _jwks_negative_cache_seconds
          MaxMoment       \* bound of the monotonic clock

ASSUME JwksCacheConstants ==
    /\ {MaxRotation, CacheSeconds, NegativeSeconds, MaxMoment} \subseteq Nat
    /\ MaxRotation > 0 /\ CacheSeconds > 0 /\ NegativeSeconds > 0

VARIABLES rotation,   \* the generation the provider serves
          cache,      \* payload (a generation, 0 if none) and until when it is fresh
          notBefore,  \* _jwks_generation_refresh_not_before, by generation
          failure,    \* _jwks_failure_until
          flight,     \* _jwks_flight: leader, forced
          thread,     \* what each thread is doing
          landed,     \* the generation cached last
          gets,       \* GET requests sent at this moment
          moment

jwksVars == <<rotation, cache, notBefore, failure, flight, thread, landed, gets, moment>>

NoFlight == [on |-> FALSE, forced |-> FALSE]
NoCache == [payload |-> 0, until |-> 0]

\* observed: the generation the thread has verified against without success.
IdleThread == [pc |-> "idle", observed |-> 0, got |-> 0]

JwksInit ==
    /\ rotation = 1
    /\ cache = NoCache
    /\ notBefore = [g \in 1..MaxRotation |-> 0]
    /\ failure = 0
    /\ flight = NoFlight
    /\ thread = [t \in Threads |-> IdleThread]
    /\ landed = 0
    /\ gets = 0
    /\ moment = 0

IsFresh == cache.payload # 0 /\ moment < cache.until

\* A call returns; a thread that was not served the key it needs may ask once more.
Serve(t, payload) ==
    thread' = [thread EXCEPT ![t] =
        IF @.observed = 0 THEN [pc |-> "verify", observed |-> 0, got |-> payload]
        ELSE IdleThread]

\* fetch(force_refresh=False) and fetch(force_refresh=True) begin alike: answered from
\* the cache, refused during the pause, as leader of a flight or as one who joins it.
ServedFromCache(t) ==
    LET observed == thread[t].observed IN
    /\ IsFresh
    /\ \/ observed = 0
       \/ cache.payload # observed
       \/ moment < notBefore[cache.payload]

AnswerFromCache(t) ==
    /\ thread[t].pc = "fetch" /\ ServedFromCache(t)
    /\ Serve(t, cache.payload)
    /\ UNCHANGED <<rotation, cache, notBefore, failure, flight, landed, gets, moment>>

RefuseAfterFailure(t) ==
    /\ thread[t].pc = "fetch" /\ ~ServedFromCache(t)
    /\ ~flight.on /\ moment < failure
    /\ thread' = [thread EXCEPT ![t] = IdleThread]
    /\ UNCHANGED <<rotation, cache, notBefore, failure, flight, landed, gets, moment>>

\* Fault: a thread that finds a flight starts its own.
LeadAnyway(t) ==
    LET forced == thread[t].observed # 0 IN
    /\ thread[t].pc = "fetch" /\ ~ServedFromCache(t)
    /\ moment >= failure
    /\ flight' = [on |-> TRUE, forced |-> forced]
    /\ cache' = IF forced THEN NoCache ELSE cache
    /\ thread' = [thread EXCEPT ![t].pc = "lead"]
    /\ gets' = gets + 1
    /\ UNCHANGED <<rotation, notBefore, failure, landed, moment>>

\* A forced leader makes the observed set ineligible before it asks.
LeadFlight(t) ==
    LET forced == thread[t].observed # 0 IN
    /\ thread[t].pc = "fetch" /\ ~ServedFromCache(t)
    /\ ~flight.on /\ moment >= failure
    /\ flight' = [on |-> TRUE, forced |-> forced]
    /\ cache' = IF forced THEN NoCache ELSE cache
    /\ thread' = [thread EXCEPT ![t].pc = "lead"]
    /\ gets' = gets + 1
    /\ UNCHANGED <<rotation, notBefore, failure, landed, moment>>

JoinFlight(t) ==
    /\ thread[t].pc = "fetch" /\ ~ServedFromCache(t)
    /\ flight.on
    /\ flight' = [flight EXCEPT !.forced = @ \/ thread[t].observed # 0]
    /\ thread' = [thread EXCEPT ![t].pc = "join"]
    /\ UNCHANGED <<rotation, cache, notBefore, failure, landed, gets, moment>>

\* The provider answers the leader with what it serves at that time; the answer
\* travels while the provider may rotate its keys.
ProviderAnswers(t) ==
    /\ thread[t].pc = "lead"
    /\ thread' = [thread EXCEPT ![t].pc = "land", ![t].got = rotation]
    /\ UNCHANGED <<rotation, cache, notBefore, failure, flight, landed, gets, moment>>

\* Leader and those who joined get the same answer.
Landed(t, payload) ==
    thread' = [u \in Threads |->
        IF u # t /\ thread[u].pc # "join" THEN thread[u]
        ELSE IF thread[u].observed = 0 /\ payload # 0
             THEN [pc |-> "verify", observed |-> 0, got |-> payload]
             ELSE IdleThread]

\* Fault: the refresh of a generation is not bounded.
LandFlightUnbounded(t) ==
    /\ thread[t].pc = "land"
    /\ cache' = [payload |-> thread[t].got, until |-> moment + CacheSeconds]
    /\ landed' = thread[t].got
    /\ failure' = 0 /\ flight' = NoFlight
    /\ Landed(t, thread[t].got)
    /\ UNCHANGED <<rotation, notBefore, gets, moment>>

LandFlight(t) ==
    /\ thread[t].pc = "land"
    /\ cache' = [payload |-> thread[t].got, until |-> moment + CacheSeconds]
    /\ landed' = thread[t].got
    /\ notBefore' = IF flight.forced
                    THEN [notBefore EXCEPT ![thread[t].got] = moment + NegativeSeconds]
                    ELSE notBefore
    /\ failure' = 0 /\ flight' = NoFlight
    /\ Landed(t, thread[t].got)
    /\ UNCHANGED <<rotation, gets, moment>>

FlightFails(t) ==
    /\ thread[t].pc \in {"lead", "land"}
    /\ cache' = NoCache
    /\ failure' = moment + NegativeSeconds /\ flight' = NoFlight
    /\ Landed(t, 0)
    /\ UNCHANGED <<rotation, notBefore, landed, gets, moment>>

\* A waiter's deadline passes.
JoinTimesOut(t) ==
    /\ thread[t].pc = "join"
    /\ thread' = [thread EXCEPT ![t] = IdleThread]
    /\ UNCHANGED <<rotation, cache, notBefore, failure, flight, landed, gets, moment>>

\* _fetch_jwks of a callback, and the second call for a token with an unknown key.
NeedKeys(t) ==
    /\ thread[t].pc = "idle"
    /\ thread' = [thread EXCEPT ![t].pc = "fetch"]
    /\ UNCHANGED <<rotation, cache, notBefore, failure, flight, landed, gets, moment>>

VerifyWith(t) ==
    /\ thread[t].pc = "verify"
    /\ \/ thread' = [thread EXCEPT ![t] = IdleThread]
       \/ thread' = [thread EXCEPT ![t] = [pc |-> "fetch", observed |-> @.got, got |-> 0]]
    /\ UNCHANGED <<rotation, cache, notBefore, failure, flight, landed, gets, moment>>

Rotate ==
    /\ rotation < MaxRotation /\ rotation' = rotation + 1
    /\ UNCHANGED <<cache, notBefore, failure, flight, thread, landed, gets, moment>>

\* Flights are over within the moment they began in, or count for the next one.
MomentPasses ==
    /\ moment < MaxMoment /\ moment' = moment + 1
    /\ gets' = 0
    /\ UNCHANGED <<rotation, cache, notBefore, failure, flight, thread, landed>>

JwksNext ==
    \/ \E t \in Threads :
          \/ NeedKeys(t) \/ VerifyWith(t) \/ AnswerFromCache(t) \/ RefuseAfterFailure(t)
          \/ LeadFlight(t) \/ JoinFlight(t) \/ ProviderAnswers(t) \/ LandFlight(t)
          \/ FlightFails(t) \/ JoinTimesOut(t)
    \/ Rotate \/ MomentPasses

JwksSpec == JwksInit /\ [][JwksNext]_jwksVars

-----------------------------------------------------------------------------
(* Properties *)

\* The provider is asked at most twice in a moment, once to fill the cache and once
\* by force, however many threads hold tokens with unknown keys.
GetsAreBounded == gets <= 2

\* The cached key set is never followed by an older one, across failures and forced
\* refreshes: a key that the provider withdrew does not come back with a slow answer.
KeySetsNeverGoBack == [][landed' >= landed]_jwksVars
===============================================================================
